-------------------------------- MODULE SignIn --------------------------------
(***************************************************************************)
(* Signing in by password, the lock of an account, forgotten passwords.     *)
(*                                                                         *)
(* One account.  A request reads the user's row, decides, and writes the    *)
(* columns it has changed (SQLAlchemy leaves the others alone); between the *)
(* two other requests run.  Passwords are numbered in the order in which    *)
(* they were set.  The counter of attempts is RateLimit.                    *)
(***************************************************************************)
EXTENDS RateLimit

CONSTANTS
    Requests,     \* requests that may be under way at the same time
    MaxFailed,    \* MAX_FAILED_ATTEMPTS
    LockTime,     \* LOCKOUT_MINUTES
    LinkTime,     \* TTL_MINUTES of a link from the letter
    OldHash,      \* is the first hash made with old parameters
    MaxChanges,   \* bound: passwords set
    MaxLinks      \* bound: links sent

ASSUME SignInAssumption ==
    /\ MaxFailed \in Nat \ {0, 1}
    /\ LockTime \in Nat \ {0}
    /\ LinkTime \in Nat \ {0}
    /\ OldHash \in BOOLEAN
    /\ MaxChanges \in Nat
    /\ MaxLinks \in Nat

VARIABLES
    user,      \* the row: password, old hash, failed_attempts, locked_until (0 is NULL)
    links,     \* rows of password_resets; seen is a history: links there at the SELECT
    req,       \* what every request has read
    latest,    \* history: the number of the last password set
    lateHash   \* history: a password verified earlier was hashed again over a newer one

rowVars == <<user, links, latest, lateHash>>
vars == <<now, bucket, passes, user, links, req, latest, lateHash>>

UserType == [pw: 0..MaxChanges, old: BOOLEAN, failed: 0..(MaxFailed - 1),
             locked: 0..(MaxTime + LockTime)]
LinkType == [used: BOOLEAN, expires: 0..(MaxTime + LinkTime), seen: 0..MaxLinks]

Wrong == MaxChanges + 1
Guesses == 0..MaxChanges \cup {Wrong}

NewUser == [pw |-> 0, old |-> OldHash, failed |-> 0, locked |-> 0]
Idle == [pc |-> "idle", pw |-> 0, row |-> NewUser, at |-> 0, link |-> 0, rows |-> {}]

Init ==
    /\ LimitInit
    /\ user = NewUser
    /\ links = <<>>
    /\ req = [r \in Requests |-> Idle]
    /\ latest = 0
    /\ lateHash = FALSE

Becomes(r, q) == req' = [req EXCEPT ![r] = q]

\* A mutant: an UPDATE has all the columns.
UpdatedWhole(row, wanted) == wanted

\* An UPDATE has the columns whose value differs from the one that was read.
Updated(row, wanted) ==
    [c \in DOMAIN user |-> IF wanted[c] # row[c] THEN wanted[c] ELSE user[c]]

-------------------------------------------------------------------------------
(* Signing in.                                                              *)

\* Both counters, of the address and of the account, count the attempt.
LoginArrives(r, pw, byIp) ==
    /\ req[r].pc = "idle"
    /\ Hit
    /\ Becomes(r, IF Admits /\ byIp THEN [Idle EXCEPT !.pc = "login", !.pw = pw] ELSE Idle)
    /\ UNCHANGED rowVars

\* The row and the time are read; a locked account ends the attempt.
LoginReads(r) ==
    /\ req[r].pc = "login"
    /\ Becomes(r, IF user.locked > now THEN Idle
                  ELSE [req[r] EXCEPT !.pc = "verify", !.row = user, !.at = now])
    /\ UNCHANGED <<now, bucket, passes>> /\ UNCHANGED rowVars

\* A mutant: the lock leaves the counter where it is.
MissedKeeping(row, at) ==
    IF row.failed + 1 >= MaxFailed
    THEN [row EXCEPT !.failed = @ + 1, !.locked = at + LockTime]
    ELSE [row EXCEPT !.failed = @ + 1]

Missed(row, at) ==
    IF row.failed + 1 >= MaxFailed
    THEN [row EXCEPT !.failed = 0, !.locked = at + LockTime]
    ELSE [row EXCEPT !.failed = @ + 1]

LoginMisses(r) ==
    LET q == req[r] IN
    /\ q.pc = "verify" /\ q.pw # q.row.pw
    /\ user' = Updated(q.row, Missed(q.row, q.at))
    /\ Becomes(r, Idle)
    /\ UNCHANGED <<now, bucket, passes, links, latest, lateHash>>

\* A mutant: every sign-in makes the hash anew.
LoginSucceedsHashing(r) ==
    LET q == req[r] IN
    /\ q.pc = "verify" /\ q.pw = q.row.pw
    /\ user' = [Updated(q.row, [q.row EXCEPT !.failed = 0, !.locked = 0])
                    EXCEPT !.pw = q.pw, !.old = FALSE]
    /\ Becomes(r, [Idle EXCEPT !.pc = "signed in"])
    /\ UNCHANGED <<now, bucket, passes, links, latest, lateHash>>

\* needs_rehash: the password that was given is hashed again.  Any hash differs from any other.
LoginSucceeds(r) ==
    LET q == req[r]
        cleared == Updated(q.row, [q.row EXCEPT !.failed = 0, !.locked = 0])
    IN  /\ q.pc = "verify" /\ q.pw = q.row.pw
        /\ user' = IF q.row.old THEN [cleared EXCEPT !.pw = q.pw, !.old = FALSE] ELSE cleared
        /\ lateHash' = (lateHash \/ (q.row.old /\ user.pw # q.pw))
        /\ Becomes(r, [Idle EXCEPT !.pc = "signed in"])
        /\ UNCHANGED <<now, bucket, passes, links, latest>>

\* At once, or when the second factor has been given.
LoginResets(r) ==
    /\ req[r].pc = "signed in"
    /\ Reset
    /\ Becomes(r, Idle)
    /\ UNCHANGED rowVars

\* The second factor is never given.
LoginStops(r) ==
    /\ req[r].pc = "signed in"
    /\ Becomes(r, Idle)
    /\ UNCHANGED <<now, bucket, passes>> /\ UNCHANGED rowVars

-------------------------------------------------------------------------------
(* Other passwords.                                                         *)

\* The next password, in a row that may be written with it.
SetsPassword(row) ==
    /\ latest < MaxChanges
    /\ latest' = latest + 1
    /\ user' = [row EXCEPT !.pw = latest + 1, !.old = FALSE]

\* In the profile, with the current password.
ChangeArrives(r) ==
    /\ req[r].pc = "idle"
    /\ Becomes(r, [Idle EXCEPT !.pc = "change", !.row = user])
    /\ UNCHANGED <<now, bucket, passes>> /\ UNCHANGED rowVars

ChangeCommits(r) ==
    /\ req[r].pc = "change"
    /\ SetsPassword(user)
    /\ Becomes(r, Idle)
    /\ UNCHANGED <<now, bucket, passes, links, lateHash>>

\* The command reset-password, a process of its own.
CliResets ==
    /\ SetsPassword([user EXCEPT !.failed = 0, !.locked = 0])
    /\ UNCHANGED <<now, bucket, passes, links, req, lateHash>>

-------------------------------------------------------------------------------
(* Links from letters.                                                      *)

Working(i) == ~links[i].used /\ now < links[i].expires

\* Let through by the counters of this form; the links to extinguish are selected, those
\* out of date among them.
ForgotArrives(r) ==
    /\ req[r].pc = "idle"
    /\ Becomes(r, [Idle EXCEPT !.pc = "forgot", !.link = Len(links),
                        !.rows = {i \in DOMAIN links : ~links[i].used}])
    /\ UNCHANGED <<now, bucket, passes>> /\ UNCHANGED rowVars

\* A mutant: links from earlier letters go on working.
ForgotCommitsKeeping(r) ==
    /\ req[r].pc = "forgot" /\ Len(links) < MaxLinks
    /\ links' = Append(links, [used |-> FALSE, expires |-> now + LinkTime, seen |-> req[r].link])
    /\ Becomes(r, Idle)
    /\ UNCHANGED <<now, bucket, passes, user, latest, lateHash>>

ForgotCommits(r) ==
    /\ req[r].pc = "forgot" /\ Len(links) < MaxLinks
    /\ links' = Append([i \in DOMAIN links |-> [links[i] EXCEPT !.used = @ \/ i \in req[r].rows]],
                       [used |-> FALSE, expires |-> now + LinkTime, seen |-> req[r].link])
    /\ Becomes(r, Idle)
    /\ UNCHANGED <<now, bucket, passes, user, latest, lateHash>>

ResetArrives(r, i) ==
    /\ req[r].pc = "idle"
    /\ Working(i)
    /\ Becomes(r, [Idle EXCEPT !.pc = "reset", !.link = i, !.row = user])
    /\ UNCHANGED <<now, bucket, passes>> /\ UNCHANGED rowVars

ResetCommits(r) ==
    LET row == req[r].row IN
    /\ req[r].pc = "reset"
    /\ SetsPassword(Updated(row, [row EXCEPT !.failed = 0, !.locked = 0]))
    /\ links' = [links EXCEPT ![req[r].link].used = TRUE]
    /\ Becomes(r, Idle)
    /\ UNCHANGED <<now, bucket, passes, lateHash>>

\* A new password that is refused, or two that differ.
GivesUp(r) ==
    /\ req[r].pc \in {"change", "reset"}
    /\ Becomes(r, Idle)
    /\ UNCHANGED <<now, bucket, passes>> /\ UNCHANGED rowVars

\* The process of the panel dies: what was not committed is lost.
Restarts ==
    /\ \E r \in Requests : req[r].pc # "idle"
    /\ req' = [r \in Requests |-> Idle]
    /\ UNCHANGED <<now, bucket, passes>> /\ UNCHANGED rowVars

TimePasses == Tick /\ UNCHANGED <<user, links, req, latest, lateHash>>

RequestStep(r) ==
    \/ \E pw \in Guesses, byIp \in BOOLEAN : LoginArrives(r, pw, byIp)
    \/ LoginReads(r) \/ LoginMisses(r) \/ LoginSucceeds(r) \/ LoginResets(r) \/ LoginStops(r)
    \/ ChangeArrives(r) \/ ChangeCommits(r)
    \/ ForgotArrives(r) \/ ForgotCommits(r)
    \/ \E i \in DOMAIN links : ResetArrives(r, i)
    \/ ResetCommits(r) \/ GivesUp(r)

Next ==
    \/ \E r \in Requests : RequestStep(r)
    \/ CliResets
    \/ Restarts
    \/ TimePasses

Spec == Init /\ [][Next]_vars

-------------------------------------------------------------------------------
(* Properties.                                                              *)

PCs == {"idle", "login", "verify", "signed in", "change", "forgot", "reset"}

ReqType == [pc: PCs, pw: Guesses, row: UserType, at: 0..MaxTime, link: 0..MaxLinks,
            rows: SUBSET (1..MaxLinks)]

\* Type correctness; failed_attempts stays below the limit, though it is not counted in one
\* step, and a link is only asked about once it exists.
TypeOK ==
    /\ LimitTypeOK
    /\ user \in UserType
    /\ links \in Seq(LinkType) /\ Len(links) <= MaxLinks
    /\ req \in [Requests -> ReqType]
    /\ \A r \in Requests : req[r].pc = "reset" => req[r].link \in 1..Len(links)
    /\ latest \in 0..MaxChanges
    /\ lateHash \in BOOLEAN

\* A lock is lifted before its time only by who knows the password, by a link from a letter
\* or by the command: a wrong password does not lift it, whatever it had read before,
\* unless it takes as long as the lock (auth_views.py:134-161).
LockStands ==
    [][user.locked > now /\ user'.locked <= now =>
         \/ \E r \in Requests : LoginSucceeds(r) \/ ResetCommits(r)
         \/ \E r \in Requests : LoginMisses(r) /\ now - req[r].at >= LockTime
         \/ CliResets]_vars

\* The password is the last one set: a sign-in that overlaps a change does not bring the
\* old one back, but for one case, the hash with old parameters, which is replaced without
\* looking at what the row holds by then (auth_views.py:164-167).
PasswordStays == user.pw = latest \/ (OldHash /\ lateHash)

\* Two links work at the same time only if the later request had looked for links before
\* the earlier one committed: of requests made one after another the last letter alone
\* works (recovery.py:40-63).
OneWorkingReset ==
    \A i, j \in DOMAIN links : i < j /\ Working(i) /\ Working(j) => links[j].seen < i
===============================================================================
