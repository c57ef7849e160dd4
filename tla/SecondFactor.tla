----------------------------- MODULE SecondFactor -----------------------------
(***************************************************************************)
(* The second factor of one account: codes from the phone, codes for        *)
(* recovery, and turning it on and off.                                     *)
(*                                                                         *)
(* The clock counts steps of TOTP.  A code from the phone is the secret and *)
(* the step it was made from; of the codes for recovery that are made       *)
(* together one stands for all.  RateLimit says which attempts are let      *)
(* through, Sessions what becomes of the sessions.                         *)
(***************************************************************************)
EXTENDS Integers, Sequences, FiniteSets

CONSTANTS
    Requests,     \* requests that may be under way at the same time
    MaxTime,      \* bound: the last step of TOTP
    MaxUses,      \* bound: codes of the phone accepted
    MaxSecrets,   \* bound: secrets offered by the page
    MaxSets       \* bound: sets of recovery codes made

ASSUME SecondFactorAssumption ==
    /\ IsFiniteSet(Requests)
    /\ MaxTime \in Nat
    /\ MaxUses \in Nat
    /\ MaxSecrets \in Nat
    /\ MaxSets \in Nat

VARIABLES
    now,        \* the clock
    user,       \* the row: is the factor on, and its secret (0 is NULL)
    offered,    \* the secret the page has put into Redis, 0 if there is none
    secrets,    \* secrets offered so far
    spent,      \* the keys of used steps in Redis: step and moment of oblivion
    sets,       \* the sets of recovery codes, in the order they were made
    req,        \* what every request has read
    accepted,   \* history: the steps whose code was accepted
    uses,       \* history: how many were
    proven,     \* history: the secrets a code was accepted for on the page
    entered,    \* history: sign-ins with a code of every set
    clashes     \* history: changes that found what they had read changed, up to two

vars == <<now, user, offered, secrets, spent, sets, req, accepted, uses,
          proven, entered, clashes>>

ValidWindow == 1
\* A mutant: a used step is forgotten while its code is still good.
ReplayTtlShort == 2 * ValidWindow
ReplayTtl == 2 * ValidWindow + 2

Steps == 0..(MaxTime + ValidWindow)
Secrets == 0..MaxSecrets
UserType == [enabled: BOOLEAN, secret: Secrets]
SetState == {"live", "used", "deleted"}

Off  == [enabled |-> FALSE, secret |-> 0]
Idle == [pc |-> "idle", row |-> Off, secret |-> 0, step |-> 0, set |-> 0, dels |-> {}]

Init ==
    /\ now = 0
    /\ user = Off
    /\ offered = 0 /\ secrets = 0
    /\ spent = {}
    /\ sets = <<>>
    /\ req = [r \in Requests |-> Idle]
    /\ accepted = {} /\ uses = 0 /\ proven = {}
    /\ entered = <<>>
    /\ clashes = 0

Becomes(r, q) == req' = [req EXCEPT ![r] = q]
Factor     == <<user, offered, secrets, sets, proven, clashes>>
Acceptance == <<spent, accepted, uses>>

Present == {i \in DOMAIN sets : sets[i] # "deleted"}

\* An UPDATE has the columns whose value differs from the one that was read.
Updated(row, wanted) ==
    [c \in DOMAIN user |-> IF wanted[c] # row[c] THEN wanted[c] ELSE user[c]]

-------------------------------------------------------------------------------
(* verify_code: SET NX lets the first one through.                          *)

Keys == {k.step : k \in spent}

Fits(step) == now - ValidWindow <= step /\ step <= now + ValidWindow

\* A mutant: the step that is burnt is the present one.
AcceptsNow(step) ==
    /\ uses < MaxUses
    /\ Fits(step) /\ step \notin Keys
    /\ spent' = spent \cup {[step |-> now, until |-> now + ReplayTtl]}
    /\ accepted' = accepted \cup {step}
    /\ uses' = uses + 1

\* The code is one of the secret the caller means.
Accepts(step) ==
    /\ uses < MaxUses
    /\ Fits(step) /\ step \notin Keys
    /\ spent' = spent \cup {[step |-> step, until |-> now + ReplayTtl]}
    /\ accepted' = accepted \cup {step}
    /\ uses' = uses + 1

-------------------------------------------------------------------------------
(* The second step of signing in.  Pending sessions are to be had for the    *)
(* password, so any number of requests may come.                            *)

\* Let through by the counters of the session and of the account, with a secret: a code of
\* another secret fails, and changes nothing.  Codes of steps to come are not given.
VerifyReads(r, step, set) ==
    /\ req[r].pc = "idle"
    /\ set = 0 => Fits(step)
    /\ user.secret # 0
    /\ Becomes(r, [Idle EXCEPT !.pc = "check", !.step = step, !.set = set])
    /\ UNCHANGED now /\ UNCHANGED Factor /\ UNCHANGED Acceptance /\ UNCHANGED entered

VerifyTotp(r) ==
    LET q == req[r] IN
    /\ q.pc = "check" /\ q.set = 0
    /\ IF Fits(q.step) /\ q.step \notin Keys
       THEN Accepts(q.step) /\ Becomes(r, [Idle EXCEPT !.pc = "commit"])
       ELSE UNCHANGED Acceptance /\ Becomes(r, Idle)
    /\ UNCHANGED now /\ UNCHANGED Factor /\ UNCHANGED entered

\* A mutant: a used code is found too.
FindsAnySet(i) == i \in Present

\* A code of the set is selected if it is not used.
FindsSet(i) == i \in DOMAIN sets /\ sets[i] = "live"

VerifyRecovery(r) ==
    LET q == req[r] IN
    /\ q.pc = "check" /\ q.set # 0
    /\ Becomes(r, IF FindsSet(q.set) THEN [q EXCEPT !.pc = "commit"] ELSE Idle)
    /\ UNCHANGED now /\ UNCHANGED Factor /\ UNCHANGED Acceptance /\ UNCHANGED entered

\* The UPDATE of a row that was deleted fails, and the whole commit with it.
VerifyCommits(r) ==
    LET q == req[r] IN
    /\ q.pc = "commit"
    /\ IF q.set = 0 \/ sets[q.set] = "deleted" THEN UNCHANGED <<sets, entered>>
       ELSE /\ sets' = [sets EXCEPT ![q.set] = "used"]
            /\ entered' = [entered EXCEPT ![q.set] = @ + 1]
    /\ Becomes(r, Idle)
    /\ UNCHANGED now /\ UNCHANGED Acceptance
    /\ UNCHANGED <<user, offered, secrets, proven, clashes>>

-------------------------------------------------------------------------------
(* Turning the factor on and off.                                           *)

\* The page offers a secret to a user who has no factor, over one offered before.
SetupOffers ==
    /\ ~user.enabled
    /\ secrets < MaxSecrets
    /\ secrets' = secrets + 1
    /\ offered' = secrets'
    /\ UNCHANGED now /\ UNCHANGED Acceptance
    /\ UNCHANGED <<user, sets, req, proven, clashes, entered>>

OfferExpires ==
    /\ offered # 0
    /\ offered' = 0
    /\ UNCHANGED now /\ UNCHANGED Acceptance
    /\ UNCHANGED <<user, secrets, sets, req, proven, clashes, entered>>

\* The user is read by the dependency, and no check that the factor is off.
EnableArrives(r) ==
    /\ req[r].pc = "idle"
    /\ Becomes(r, [Idle EXCEPT !.pc = "enable", !.row = user])
    /\ UNCHANGED now /\ UNCHANGED Factor /\ UNCHANGED Acceptance /\ UNCHANGED entered

\* A code of the secret found in Redis; the DELETE that comes next takes the codes that
\* are there.
EnableProves(r, step) ==
    /\ req[r].pc = "enable"
    /\ offered # 0
    /\ Accepts(step)
    /\ proven' = proven \cup {offered}
    /\ Becomes(r, [req[r] EXCEPT !.pc = "on", !.secret = offered, !.dels = Present])
    /\ UNCHANGED now /\ UNCHANGED <<user, offered, secrets, sets, clashes, entered>>

\* With the user's password, or by an administrator.
DisableArrives(r) ==
    /\ req[r].pc = "idle"
    /\ Becomes(r, [Idle EXCEPT !.pc = "off", !.row = user, !.dels = Present])
    /\ UNCHANGED now /\ UNCHANGED Factor /\ UNCHANGED Acceptance /\ UNCHANGED entered

Without(dels) == [i \in DOMAIN sets |-> IF i \in dels THEN "deleted" ELSE sets[i]]

Clashes(q) ==
    clashes' = IF clashes < 2 /\ (user # q.row \/ Present # q.dels) THEN clashes + 1 ELSE clashes

\* A mutant: the secret is read from Redis once more.
EnableCommitsOffered(r) ==
    LET q == req[r] IN
    /\ q.pc = "on" /\ Len(sets) < MaxSets
    /\ user' = [Updated(q.row, [q.row EXCEPT !.enabled = TRUE]) EXCEPT !.secret = offered]
    /\ sets' = Append(Without(q.dels), "live")
    /\ entered' = Append(entered, 0)
    /\ Clashes(q)
    /\ Becomes(r, [Idle EXCEPT !.pc = "forget"])
    /\ UNCHANGED now /\ UNCHANGED Acceptance /\ UNCHANGED <<offered, secrets, proven>>

\* Encrypted anew, a secret is never what was read, and always written.
EnableCommits(r) ==
    LET q == req[r] IN
    /\ q.pc = "on" /\ Len(sets) < MaxSets
    /\ user' = [Updated(q.row, [q.row EXCEPT !.enabled = TRUE]) EXCEPT !.secret = q.secret]
    /\ sets' = Append(Without(q.dels), "live")
    /\ entered' = Append(entered, 0)
    /\ Clashes(q)
    /\ Becomes(r, [Idle EXCEPT !.pc = "forget"])
    /\ UNCHANGED now /\ UNCHANGED Acceptance /\ UNCHANGED <<offered, secrets, proven>>

\* The offered secret is dropped, whichever it is by now.
EnableForgets(r) ==
    /\ req[r].pc = "forget"
    /\ offered' = 0
    /\ Becomes(r, Idle)
    /\ UNCHANGED now /\ UNCHANGED Acceptance
    /\ UNCHANGED <<user, secrets, sets, proven, clashes, entered>>

\* A mutant: the flag goes and the secret stays.
DisableCommitsHalf(r) ==
    LET q == req[r] IN
    /\ q.pc = "off"
    /\ user' = Updated(q.row, [q.row EXCEPT !.enabled = FALSE])
    /\ sets' = Without(q.dels)
    /\ Clashes(q)
    /\ Becomes(r, Idle)
    /\ UNCHANGED now /\ UNCHANGED Acceptance /\ UNCHANGED <<offered, secrets, proven, entered>>

DisableCommits(r) ==
    LET q == req[r] IN
    /\ q.pc = "off"
    /\ user' = Updated(q.row, Off)
    /\ sets' = Without(q.dels)
    /\ Clashes(q)
    /\ Becomes(r, Idle)
    /\ UNCHANGED now /\ UNCHANGED Acceptance /\ UNCHANGED <<offered, secrets, proven, entered>>

\* No secret, a wrong code or password, or a policy that forbids.
GivesUp(r) ==
    /\ req[r].pc \in {"enable", "off"}
    /\ Becomes(r, Idle)
    /\ UNCHANGED now /\ UNCHANGED Factor /\ UNCHANGED Acceptance /\ UNCHANGED entered

\* The process of the panel dies: what was not committed is lost, Redis keeps its keys.
Restarts ==
    /\ \E r \in Requests : req[r].pc # "idle"
    /\ req' = [r \in Requests |-> Idle]
    /\ UNCHANGED now /\ UNCHANGED Factor /\ UNCHANGED Acceptance /\ UNCHANGED entered

\* Redis forgets the keys whose time has come.
TimePasses ==
    /\ now < MaxTime
    /\ now' = now + 1
    /\ spent' = {k \in spent : now' < k.until}
    /\ UNCHANGED <<req, entered, accepted, uses>> /\ UNCHANGED Factor

RequestStep(r) ==
    \/ \E step \in Steps : VerifyReads(r, step, 0)
    \/ \E i \in DOMAIN sets : VerifyReads(r, 0, i)
    \/ VerifyTotp(r) \/ VerifyRecovery(r) \/ VerifyCommits(r)
    \/ EnableArrives(r)
    \/ \E step \in Steps : EnableProves(r, step)
    \/ DisableArrives(r)
    \/ EnableCommits(r) \/ EnableForgets(r) \/ DisableCommits(r)
    \/ GivesUp(r)

Next ==
    \/ \E r \in Requests : RequestStep(r)
    \/ SetupOffers
    \/ OfferExpires
    \/ Restarts
    \/ TimePasses

Spec == Init /\ [][Next]_vars

-------------------------------------------------------------------------------
(* Properties.                                                              *)

PCs == {"idle", "check", "commit", "enable", "on", "forget", "off"}

ReqType == [pc: PCs, row: UserType, secret: Secrets, step: Steps, set: 0..MaxSets,
            dels: SUBSET (1..MaxSets)]

\* Type correctness; Redis holds keys of accepted steps only, and a request that is about to commit has a
\* set that exists.
TypeOK ==
    /\ now \in 0..MaxTime
    /\ user \in UserType
    /\ offered \in Secrets /\ secrets \in Secrets
    /\ spent \subseteq [step: Steps, until: Nat]
    /\ sets \in Seq(SetState) /\ Len(sets) <= MaxSets
    /\ req \in [Requests -> ReqType]
    /\ \A r \in Requests : req[r].pc = "commit" => req[r].set \in 0..Len(sets)
    /\ accepted \subseteq Steps /\ uses \in Nat
    /\ Keys \subseteq accepted
    /\ proven \subseteq Secrets
    /\ entered \in Seq(Nat) /\ Len(entered) = Len(sets)
    /\ clashes \in 0..2

\* A code from the phone is accepted once, be it to sign in or to turn the factor on,
\* though Redis forgets that it was: SecondFactor implements OneTime (totp.py:46-68).
Once == INSTANCE OneTime WITH Codes <- Steps, spent <- accepted
OnlyOnce == Once!Spec

\* The secret of an account is one its owner has shown a code of, whatever other pages
\* have offered meanwhile (profile_views.py:119-144).
SecretIsProven == user.secret # 0 => user.secret \in proven

\* A recovery code signs in as many times as requests overlap, and no more
\* (auth_views.py:266-286).
RecoveryBounded == \A i \in DOMAIN entered : entered[i] <= Cardinality(Requests)

\* Changes of the factor one after another leave the flag, the secret and the codes as one:
\* a secret without the flag, or codes that are not those of the factor, take a change that
\* overlapped another, and an account that asks for codes and has no secret takes two
\* (profile_views.py:119-173, admin_views.py:234-254).
FactorWhole ==
    /\ clashes = 0 =>
          /\ user.enabled <=> user.secret # 0
          /\ Present \subseteq {i \in DOMAIN sets : user.enabled /\ i = Len(sets)}
    /\ clashes < 2 => (user.enabled => user.secret # 0)
===============================================================================
