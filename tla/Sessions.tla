------------------------------- MODULE Sessions -------------------------------
(***************************************************************************)
(* The sessions of one user of the panel.                                  *)
(*                                                                         *)
(* A session is a hash in Redis with a lifetime, and the set               *)
(* user_sess:<user> lists the sessions of a user.  Whoever ends all        *)
(* sessions of a user (a password reset, a change of the password, the     *)
(* profile, an administrator) finds them through that set.  Requests are   *)
(* cut where they wait for Redis or for the database.                      *)
(*                                                                         *)
(* A handler that fails, or dies with its process, is one that takes no    *)
(* further step: nothing here is forced to go on.                          *)
(***************************************************************************)
EXTENDS Integers

CONSTANTS
    Requests,     \* places for requests of browsers that are in flight together
    Endings,      \* the times somebody ends the user's sessions, or lists them
    SessionTtl,   \* ticks of an ordinary session's window (session_ttl_minutes)
    RememberTtl,  \* ticks of a remembered session's life (remember_me_days, 0: off)
    CliUsed,      \* somebody may run "cli reset-password"
    MaxSids,      \* bound: sessions ever created
    MaxPasswords  \* bound: changes of the password

ASSUME SessionsAssumption ==
    /\ SessionTtl \in Nat \ {0}
    /\ RememberTtl \in Nat
    /\ CliUsed \in BOOLEAN
    /\ MaxSids \in Nat
    /\ MaxPasswords \in Nat

VARIABLES
    sess,      \* the hashes sess:<sid>
    index,     \* the set user_sess:<user> and its lifetime
    created,   \* sessions created so far; identifiers are never used twice
    active,    \* the user's row: is_active
    totp,      \* the user's row: totp_enabled
    password,  \* the user's row: how often the password has changed
    settled,   \* the last password whose setting, by a reset, is over (history)
    req,       \* the requests of browsers
    endings    \* the runs of delete_all_for_user and list_for_user

vars == <<sess, index, created, active, totp, password, settled, req, endings>>

-------------------------------------------------------------------------------
Sids == 1..MaxSids

\* A "ghost" is a hash that holds nothing but last_seen.
NoSession == [kind |-> "none", ttl |-> 0, remember |-> FALSE, left |-> 0, ver |-> 0]
NoIndex   == [members |-> {}, ttl |-> 0]
Idle      == [pc |-> "idle", sid |-> 0, remember |-> FALSE, left |-> 0, ver |-> 0]
Unused    == [pc |-> "unused", keep |-> 0, sids |-> {}, stale |-> {},
              before |-> {}, ver |-> 0]

Live(s)   == sess[s].kind \in {"pending", "full"}
LiveSids  == {s \in Sids : Live(s)}

Larger(m, n) == IF m >= n THEN m ELSE n
Down(n)      == IF n > 0 THEN n - 1 ELSE 0

Init ==
    /\ sess = [s \in Sids |-> NoSession]
    /\ index = NoIndex
    /\ created = 0
    /\ active = TRUE
    /\ totp \in BOOLEAN
    /\ password = 0
    /\ settled = 0
    /\ req = [r \in Requests |-> Idle]
    /\ endings = [e \in Endings |-> Unused]

-------------------------------------------------------------------------------
(* The store.                                                               *)

\* A mutant: a limit that is over is not rounded up.
TtlForUnrounded(remember, left) == IF remember THEN left ELSE SessionTtl

TtlFor(remember, left) == IF remember THEN Larger(1, left) ELSE SessionTtl

\* A mutant: EXPIRE without GT.
IndexOfLast(sids, ttl) == [members |-> sids, ttl |-> ttl]

\* EXPIRE NX, then EXPIRE GT.
IndexOf(sids, ttl) == [members |-> sids, ttl |-> Larger(index.ttl, ttl)]

IndexWithout(sids) ==
    IF index.members \subseteq sids THEN NoIndex
    ELSE [index EXCEPT !.members = @ \ sids]

CreateFor(kind, remember, ver, left, ttl) ==
    /\ created < MaxSids
    /\ created' = created + 1
    /\ sess' = [sess EXCEPT ![created + 1] =
            [kind |-> kind, ttl |-> ttl, remember |-> remember, left |-> left, ver |-> ver]]
    /\ index' = IndexOf(index.members \cup {created + 1}, ttl)

\* A mutant: a session that waits for the second factor gets the limit already.
CreateLimited(kind, remember, ver) ==
    LET left == IF remember THEN RememberTtl ELSE 0
    IN  CreateFor(kind, remember, ver, left, TtlFor(remember, left))

Create(kind, remember, ver) ==
    LET limited == remember /\ kind = "full"
        left    == IF limited THEN RememberTtl ELSE 0
    IN  CreateFor(kind, remember, ver, left, TtlFor(limited, left))

-------------------------------------------------------------------------------
(* Signing in.                                                              *)

PasswordRight(r, remember) ==
    /\ req[r].pc = "idle"
    /\ active
    /\ remember => RememberTtl > 0
    /\ req' = [req EXCEPT ![r] =
            [Idle EXCEPT !.pc = IF totp THEN "signInPending" ELSE "signIn",
                         !.remember = remember, !.ver = password]]
    /\ UNCHANGED <<sess, index, created, active, totp, password, settled, endings>>

SignIn(r) ==
    /\ req[r].pc = "signIn"
    /\ Create("full", req[r].remember, req[r].ver)
    /\ req' = [req EXCEPT ![r] = Idle]
    /\ UNCHANGED <<active, totp, password, settled, endings>>

SignInPending(r) ==
    /\ req[r].pc = "signInPending"
    /\ Create("pending", req[r].remember, req[r].ver)
    /\ req' = [req EXCEPT ![r] = Idle]
    /\ UNCHANGED <<active, totp, password, settled, endings>>

\* What a request knows of the session in its cookie, and what it still needs of it
\* when only the identifier matters.
Only(sid, pc) == [Idle EXCEPT !.pc = pc, !.sid = sid]

Loaded(r, s, pc) ==
    req' = [req EXCEPT ![r] = [pc |-> pc, sid |-> s, remember |-> sess[s].remember,
                               left |-> sess[s].left, ver |-> sess[s].ver]]

CodeArrives(r, s) ==
    /\ req[r].pc = "idle"
    /\ sess[s].kind = "pending"
    /\ Loaded(r, s, "code")
    /\ UNCHANGED <<sess, index, created, active, totp, password, settled, endings>>

CodeRight(r) ==
    /\ req[r].pc = "code"
    /\ totp
    /\ req' = [req EXCEPT ![r].pc = "rotate"]
    /\ UNCHANGED <<sess, index, created, active, totp, password, settled, endings>>

\* Too many codes, or the second factor was switched off: the session goes.
CodeRefused(r) ==
    /\ req[r].pc = "code"
    /\ req' = [req EXCEPT ![r] = Only(req[r].sid, "owner")]
    /\ UNCHANGED <<sess, index, created, active, totp, password, settled, endings>>

\* A new identifier; the old one is deleted next.
Rotate(r) ==
    /\ req[r].pc = "rotate"
    /\ Create("full", req[r].remember, req[r].ver)
    /\ req' = [req EXCEPT ![r] = Only(req[r].sid, "owner")]
    /\ UNCHANGED <<active, totp, password, settled, endings>>

-------------------------------------------------------------------------------
(* A request with a session, and its end.                                   *)

PageArrives(r, s) ==
    /\ req[r].pc = "idle"
    /\ sess[s].kind = "full"
    /\ Loaded(r, s, "user")
    /\ UNCHANGED <<sess, index, created, active, totp, password, settled, endings>>

LogoutArrives(r, s) ==
    /\ req[r].pc = "idle"
    /\ Live(s)
    /\ req' = [req EXCEPT ![r] = Only(s, "owner")]
    /\ UNCHANGED <<sess, index, created, active, totp, password, settled, endings>>

ReadUser(r) ==
    /\ req[r].pc = "user"
    /\ req' = [req EXCEPT ![r] = IF active THEN [@ EXCEPT !.pc = "touch"]
                                ELSE Only(@.sid, "owner")]
    /\ UNCHANGED <<sess, index, created, active, totp, password, settled, endings>>

Touched(r) == TtlFor(req[r].remember, req[r].left)

\* HSET brings a hash that has gone back, EXPIRE does nothing for a set that has.
TouchRest(r) ==
    /\ index' = IF index.members = {} THEN index ELSE IndexOf(index.members, Touched(r))
    /\ req' = [req EXCEPT ![r] = Only(@.sid, "in")]
    /\ UNCHANGED <<created, active, totp, password, settled, endings>>

\* A mutant: the session is written back whole.
TouchWhole(r) ==
    /\ req[r].pc = "touch"
    /\ sess' = [sess EXCEPT ![req[r].sid] =
            [kind |-> "full", ttl |-> Touched(r), remember |-> req[r].remember,
             left |-> req[r].left, ver |-> req[r].ver]]
    /\ TouchRest(r)

Touch(r) ==
    /\ req[r].pc = "touch"
    /\ sess' = [sess EXCEPT ![req[r].sid] =
            IF @.kind = "full" THEN [@ EXCEPT !.ttl = Touched(r)]
            ELSE [NoSession EXCEPT !.kind = "ghost", !.ttl = Touched(r)]]
    /\ TouchRest(r)

Leaves(r) ==
    /\ req[r].pc = "in"
    /\ req' = [req EXCEPT ![r] = Idle]

Answered(r) ==
    /\ Leaves(r)
    /\ UNCHANGED <<sess, index, created, active, totp, password, settled, endings>>

SwitchTotp(r) ==
    /\ Leaves(r)
    /\ totp' = ~totp
    /\ UNCHANGED <<sess, index, created, active, password, settled, endings>>

\* delete(): whose session is it?  A ghost does not know.
FindOwner(r) ==
    /\ req[r].pc = "owner"
    /\ req' = [req EXCEPT ![r].pc = IF Live(req[r].sid) THEN "drop" ELSE "dropKey"]
    /\ UNCHANGED <<sess, index, created, active, totp, password, settled, endings>>

Drop(r) ==
    /\ req[r].pc \in {"drop", "dropKey"}
    /\ sess' = [sess EXCEPT ![req[r].sid] = NoSession]
    /\ index' = IF req[r].pc = "drop" THEN IndexWithout({req[r].sid}) ELSE index
    /\ req' = [req EXCEPT ![r] = Idle]
    /\ UNCHANGED <<created, active, totp, password, settled, endings>>

-------------------------------------------------------------------------------
(* Ending all sessions, and listing them.                                   *)

Begins(e, keep, ver) ==
    /\ endings[e].pc = "unused"
    /\ endings' = [endings EXCEPT ![e] =
            [Unused EXCEPT !.pc = "list", !.keep = keep, !.before = LiveSids, !.ver = ver]]
    /\ UNCHANGED <<sess, index, created, settled>>

NewPassword == password < MaxPasswords /\ password' = password + 1

Reset(e) ==
    /\ active
    /\ NewPassword
    /\ Begins(e, 0, password + 1)
    /\ UNCHANGED <<active, totp, req>>

ChangePassword(r, e) ==
    /\ Leaves(r)
    /\ NewPassword
    /\ Begins(e, req[r].sid, 0)
    /\ UNCHANGED <<active, totp>>

EndOthers(r, e) ==
    /\ Leaves(r)
    /\ Begins(e, req[r].sid, 0)
    /\ UNCHANGED <<active, totp, password>>

Disable(e) ==
    /\ active
    /\ active' = FALSE
    /\ Begins(e, 0, 0)
    /\ UNCHANGED <<totp, password, req>>

ResetTotp(e) ==
    /\ totp' = FALSE
    /\ Begins(e, 0, 0)
    /\ UNCHANGED <<active, password, req>>

Enable ==
    /\ ~active
    /\ active' = TRUE
    /\ UNCHANGED <<sess, index, created, totp, password, settled, req, endings>>

\* The command line sets the password and ends nothing.
CliResetPassword ==
    /\ CliUsed
    /\ NewPassword
    /\ settled' = password + 1
    /\ UNCHANGED <<sess, index, created, active, totp, req, endings>>

\* The profile lists the sessions and ends none.
ProfilePage(r, e) ==
    /\ Leaves(r)
    /\ endings[e].pc = "unused"
    /\ endings' = [endings EXCEPT ![e].pc = "listOnly"]
    /\ UNCHANGED <<sess, index, created, active, totp, password, settled>>

\* An empty list ends the code's function early; here it ends nothing, step by step.
ListIndex(e) ==
    /\ endings[e].pc \in {"list", "listOnly"}
    /\ endings' = [endings EXCEPT
            ![e].sids = index.members,
            ![e].pc = IF @ = "list" THEN "read" ELSE "readOnly"]
    /\ UNCHANGED <<sess, index, created, active, totp, password, settled, req>>

\* A mutant: only whole sessions are ended.
ReadSessionsWhole(e) ==
    /\ endings[e].pc \in {"read", "readOnly"}
    /\ endings' = [endings EXCEPT
            ![e].sids = {s \in @ : sess[s].kind \in {"full", "ghost"}},
            ![e].stale = {s \in endings[e].sids : sess[s].kind = "none"},
            ![e].pc = IF @ = "read" THEN "purge" ELSE "purgeOnly"]
    /\ UNCHANGED <<sess, index, created, active, totp, password, settled, req>>

ReadSessions(e) ==
    /\ endings[e].pc \in {"read", "readOnly"}
    /\ endings' = [endings EXCEPT
            ![e].sids = {s \in @ : sess[s].kind # "none"},
            ![e].stale = {s \in endings[e].sids : sess[s].kind = "none"},
            ![e].pc = IF @ = "read" THEN "purge" ELSE "purgeOnly"]
    /\ UNCHANGED <<sess, index, created, active, totp, password, settled, req>>

Purge(e) ==
    /\ endings[e].pc \in {"purge", "purgeOnly"}
    /\ index' = IndexWithout(endings[e].stale)
    /\ endings' = IF endings[e].pc = "purgeOnly" THEN [endings EXCEPT ![e] = Unused]
                  ELSE [endings EXCEPT ![e].pc = "delete", ![e].stale = {}]
    /\ UNCHANGED <<sess, created, active, totp, password, settled, req>>

DeleteAll(e) ==
    LET doomed == endings[e].sids \ {endings[e].keep}
    IN  /\ endings[e].pc = "delete"
        /\ sess' = [s \in Sids |-> IF s \in doomed THEN NoSession ELSE sess[s]]
        /\ index' = IndexWithout(doomed)
        /\ settled' = Larger(settled, endings[e].ver)
        /\ endings' = [endings EXCEPT ![e].pc = "done", ![e].sids = {}]
        /\ UNCHANGED <<created, active, totp, password, req>>

-------------------------------------------------------------------------------
SessLater(s) ==
    IF s.ttl <= 1 THEN NoSession ELSE [s EXCEPT !.ttl = @ - 1, !.left = Down(@)]

Tick ==
    /\ sess' = [s \in Sids |-> SessLater(sess[s])]
    /\ index' = IF index.ttl <= 1 THEN NoIndex ELSE [index EXCEPT !.ttl = @ - 1]
    /\ req' = [r \in Requests |-> [req[r] EXCEPT !.left = Down(@)]]
    /\ UNCHANGED <<created, active, totp, password, settled, endings>>

RequestStep(r) ==
    \/ \E remember \in BOOLEAN : PasswordRight(r, remember)
    \/ SignIn(r)
    \/ SignInPending(r)
    \/ \E s \in Sids : CodeArrives(r, s) \/ PageArrives(r, s) \/ LogoutArrives(r, s)
    \/ CodeRight(r)
    \/ CodeRefused(r)
    \/ Rotate(r)
    \/ ReadUser(r)
    \/ Touch(r)
    \/ Answered(r)
    \/ SwitchTotp(r)
    \/ FindOwner(r)
    \/ Drop(r)
    \/ \E e \in Endings : ChangePassword(r, e) \/ EndOthers(r, e) \/ ProfilePage(r, e)

EndingStep(e) ==
    \/ Reset(e)
    \/ Disable(e)
    \/ ResetTotp(e)
    \/ ListIndex(e)
    \/ ReadSessions(e)
    \/ Purge(e)
    \/ DeleteAll(e)

Next ==
    \/ \E r \in Requests : RequestStep(r)
    \/ \E e \in Endings : EndingStep(e)
    \/ Enable
    \/ CliResetPassword
    \/ Tick

Spec == Init /\ [][Next]_vars

-------------------------------------------------------------------------------
(* Properties.                                                              *)

SessionType == [kind: {"none", "pending", "full", "ghost"}, ttl: Nat,
                remember: BOOLEAN, left: Nat, ver: Nat]

RequestType == [pc: {"idle", "signIn", "signInPending", "code", "rotate", "user",
                     "touch", "in", "owner", "drop", "dropKey"},
                sid: Sids \cup {0}, remember: BOOLEAN, left: Nat, ver: Nat]

EndingType == [pc: {"unused", "list", "listOnly", "read", "readOnly", "purge",
                    "purgeOnly", "delete", "done"},
               keep: Sids \cup {0}, sids: SUBSET Sids, stale: SUBSET Sids,
               before: SUBSET Sids, ver: Nat]

\* Type correctness: a hash exists exactly while its lifetime is not used up, and
\* so does the set, which Redis drops with its last member (sessions.py:87-200).
TypeOK ==
    /\ sess \in [Sids -> SessionType]
    /\ \A s \in Sids : sess[s].kind = "none" <=> sess[s].ttl = 0
    /\ index \in [members: SUBSET (1..created), ttl: Nat]
    /\ index.members = {} <=> index.ttl = 0
    /\ created \in 0..MaxSids
    /\ active \in BOOLEAN /\ totp \in BOOLEAN
    /\ password \in 0..MaxPasswords /\ settled \in Nat
    /\ req \in [Requests -> RequestType]
    /\ \A r \in Requests : req[r].sid = 0 <=> req[r].pc \in {"idle", "signIn", "signInPending"}
    /\ endings \in [Endings -> EndingType]

\* Every session that works is in the set of its user, and the set lives as long as
\* the longest of them: nothing the profile, a reset or an administrator must find is
\* out of sight (sessions.py:63-73), whatever was touched, deleted or found stale
\* in between.
IndexOutlives ==
    \A s \in Sids : Live(s) => s \in index.members /\ sess[s].ttl <= index.ttl

\* Once a run of delete_all_for_user is over, no session that worked when its cause was
\* committed still works, but for the one it was told to keep (sessions.py:234-247),
\* although requests touch, delete and rotate them meanwhile.
EndingsEnd ==
    \A e \in Endings : endings[e].pc = "done" =>
        \A s \in endings[e].before \ {endings[e].keep} : ~Live(s)

\* A session that waits for the second factor, or is not remembered, never has more
\* than one window left, and a remembered one no more than the rest up to its limit,
\* rounded up to a second (sessions.py:76-84), by whatever request it was extended.
LifetimeBounded ==
    \A s \in Sids : Live(s) =>
        sess[s].ttl <= IF sess[s].kind = "full" /\ sess[s].remember
                       THEN Larger(1, sess[s].left) ELSE SessionTtl

\* A session that has ended never works again, although a request that has
\* loaded it before writes it after (sessions.py:4-5, 158-166).
OverForGood == [][\A s \in 1..created : ~Live(s) => ~Live(s)']_vars

\* What auth_views.py:395-396 and docs/security.md:122 say: a session opened with
\* a password does not survive the reset of that password.
ResetEndsSessions == \A s \in Sids : Live(s) => sess[s].ver >= settled
===============================================================================
