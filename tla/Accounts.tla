------------------------------- MODULE Accounts -------------------------------
(***************************************************************************)
(* Invitations and accounts: administrators invite, send again, revoke,     *)
(* switch accounts on and off and change roles; people accept; the worker   *)
(* deletes old invitations; the command line creates accounts.              *)
(*                                                                         *)
(* A request of the panel reads rows, waits, and writes at its commit only  *)
(* the columns whose value it has changed (SQLAlchemy, READ COMMITTED).     *)
(* What it has flushed before the commit is locked for the others.          *)
(***************************************************************************)
EXTENDS Integers

CONSTANTS
    Requests,    \* places for requests of the panel that are in flight together
    Addresses,   \* addresses of mail, each the key of at most one account
    Root,        \* the address of the administrator the installation begins with
    MaxInvites,  \* bound: rows ever inserted into invitations
    MaxTokens    \* bound: tokens ever generated

ASSUME AccountsAssumption ==
    /\ Root \in Addresses
    /\ MaxInvites \in Nat
    /\ MaxTokens \in Nat

VARIABLES
    users,     \* the table users, by address
    invites,   \* the table invitations; its rows are numbered as they are inserted
    made,      \* rows inserted so far, the uncommitted ones included
    tokens,    \* tokens generated so far
    req,       \* the requests
    adrift,    \* tokens that were mailed and are not stored yet (history)
    overlaps,  \* pairs of invitations made by requests that overlapped (history)
    raced      \* an account was changed by somebody who had lost the right (history)

vars == <<users, invites, made, tokens, req, adrift, overlaps, raced>>

-------------------------------------------------------------------------------
Invites == 1..MaxInvites

\* Operators and viewers are alike here: neither may administer.
Roles == {"admin", "operator"}

\* via: the invitation the account was made by, 0 for the command line (history).
NoUser == [exists |-> FALSE, role |-> "operator", active |-> FALSE, via |-> 0]
UserOf(role, via) == [exists |-> TRUE, role |-> role, active |-> TRUE, via |-> via]

NoInvite == [there |-> FALSE, email |-> Root, role |-> "operator", token |-> 0,
             accepted |-> FALSE, revoked |-> FALSE, expired |-> FALSE]

\* missed: invitations to the same address that were committed since the request has
\* looked for them (history).
Idle == [pc |-> "idle", actor |-> Root, email |-> Root, role |-> "operator",
         was |-> "operator", inv |-> 0, token |-> 0, prev |-> {}, missed |-> {}]

Pending(i) == invites[i].there /\ ~invites[i].accepted /\ ~invites[i].revoked
Working(i) == Pending(i) /\ ~invites[i].expired

IsAdmin(a) == users[a].exists /\ users[a].active /\ users[a].role = "admin"

Init ==
    /\ users = [a \in Addresses |-> IF a = Root THEN UserOf("admin", 0) ELSE NoUser]
    /\ invites = [i \in Invites |-> NoInvite]
    /\ made = 0
    /\ tokens = 0
    /\ req = [r \in Requests |-> Idle]
    /\ adrift = {}
    /\ overlaps = {}
    /\ raced = FALSE

\* A flushed UPDATE holds its rows, a flushed INSERT its place in the unique index.
Locked(i) == \E r \in Requests : req[r].pc \in {"mailNew", "commitNew"} /\ i \in req[r].prev
Taking(a) == \E r \in Requests : req[r].pc = "accepted" /\ req[r].email = a

Done(r) == req' = [req EXCEPT ![r] = Idle]

-------------------------------------------------------------------------------
(* The requests of administrators.                                          *)

\* The dependency RequireAdmin: the account is read once, when the request begins.
AdminArrives(r, a) ==
    /\ req[r].pc = "idle"
    /\ IsAdmin(a)
    /\ req' = [req EXCEPT ![r] = [Idle EXCEPT !.pc = "admin", !.actor = a]]
    /\ UNCHANGED <<users, invites, made, tokens, adrift, overlaps, raced>>

\* The limit of invitations, a form or a row that is not what it should be.
Refused(r) ==
    /\ req[r].pc \in {"admin", "accept"}
    /\ Done(r)
    /\ UNCHANGED <<users, invites, made, tokens, adrift, overlaps, raced>>

CreateChecks(r, a, role) ==
    /\ req[r].pc = "admin"
    /\ ~users[a].exists
    /\ req' = [req EXCEPT ![r] = [Idle EXCEPT !.pc = "previous", !.email = a, !.role = role]]
    /\ UNCHANGED <<users, invites, made, tokens, adrift, overlaps, raced>>

\* A mutant: only what has not expired is revoked.
CreateReadsWorking(r) ==
    /\ req[r].pc = "previous"
    /\ req' = [req EXCEPT ![r].pc = "flush",
            ![r].prev = {i \in Invites : Working(i) /\ invites[i].email = req[r].email}]
    /\ UNCHANGED <<users, invites, made, tokens, adrift, overlaps, raced>>

CreateReads(r) ==
    /\ req[r].pc = "previous"
    /\ req' = [req EXCEPT ![r].pc = "flush",
            ![r].prev = {i \in Invites : Pending(i) /\ invites[i].email = req[r].email}]
    /\ UNCHANGED <<users, invites, made, tokens, adrift, overlaps, raced>>

CreateFlushes(r) ==
    /\ req[r].pc = "flush"
    /\ made < MaxInvites /\ tokens < MaxTokens
    /\ \A i \in req[r].prev : invites[i].there /\ ~Locked(i)
    /\ made' = made + 1
    /\ tokens' = tokens + 1
    /\ req' = [req EXCEPT ![r].pc = "mailNew", ![r].inv = made + 1, ![r].token = tokens + 1]
    /\ UNCHANGED <<users, invites, adrift, overlaps, raced>>

\* A mutant: the row gets a number of its own at the commit.
CreateCommitsUnnumbered(r) ==
    LET k == req[r].inv IN
    /\ req[r].pc = "commitNew" /\ made < MaxInvites
    /\ invites' = [invites EXCEPT
            ![made + 1] = [NoInvite EXCEPT !.there = TRUE, !.email = req[r].email,
                                           !.role = req[r].role, !.token = req[r].token]]
    /\ adrift' = adrift \ {req[r].token}
    /\ Done(r)
    /\ UNCHANGED <<users, made, tokens, overlaps, raced>>

CreateCommits(r) ==
    LET k == req[r].inv IN
    /\ req[r].pc = "commitNew"
    /\ invites' = [i \in Invites |->
            IF i = k THEN [NoInvite EXCEPT !.there = TRUE, !.email = req[r].email,
                                           !.role = req[r].role, !.token = req[r].token]
            ELSE IF i \in req[r].prev THEN [invites[i] EXCEPT !.revoked = TRUE]
            ELSE invites[i]]
    /\ req' = [q \in Requests |->
            IF q = r THEN Idle
            ELSE IF req[q].pc \in {"flush", "mailNew", "commitNew"} /\ req[q].email = req[r].email
            THEN [req[q] EXCEPT !.missed = @ \cup {k}]
            ELSE req[q]]
    /\ adrift' = adrift \ {req[r].token}
    /\ overlaps' = overlaps \cup {{i, k} : i \in req[r].missed}
    /\ UNCHANGED <<users, made, tokens, raced>>

\* The row is read and found pending; the new token is only in memory.
Reissue(r, i) ==
    /\ req[r].pc = "admin"
    /\ Pending(i)
    /\ tokens < MaxTokens
    /\ tokens' = tokens + 1
    /\ req' = [req EXCEPT ![r] = [Idle EXCEPT !.pc = "mailAgain", !.inv = i, !.token = tokens + 1]]
    /\ UNCHANGED <<users, invites, made, adrift, overlaps, raced>>

\* A mutant: the whole row is written as it was read.
ReissueCommitsWhole(r) ==
    LET i == req[r].inv IN
    /\ req[r].pc = "commitAgain"
    /\ invites[i].there /\ ~Locked(i)
    /\ invites' = [invites EXCEPT ![i].token = req[r].token, ![i].expired = FALSE,
                                  ![i].accepted = FALSE, ![i].revoked = FALSE]
    /\ adrift' = adrift \ {req[r].token}
    /\ Done(r)
    /\ UNCHANGED <<users, made, tokens, overlaps, raced>>

ReissueCommits(r) ==
    LET i == req[r].inv IN
    /\ req[r].pc = "commitAgain"
    /\ invites[i].there /\ ~Locked(i)
    /\ invites' = [invites EXCEPT ![i].token = req[r].token, ![i].expired = FALSE]
    /\ adrift' = adrift \ {req[r].token}
    /\ Done(r)
    /\ UNCHANGED <<users, made, tokens, overlaps, raced>>

\* _deliver: the letter goes out before the commit.
MailSent(r) ==
    /\ req[r].pc \in {"mailNew", "mailAgain"}
    /\ adrift' = adrift \cup {req[r].token}
    /\ req' = [req EXCEPT ![r].pc = IF @ = "mailNew" THEN "commitNew" ELSE "commitAgain"]
    /\ UNCHANGED <<users, invites, made, tokens, overlaps, raced>>

\* A mutant: an error of the mail takes the invitation back.
MailFailedDrops(r, arrived) ==
    /\ req[r].pc \in {"mailNew", "mailAgain"}
    /\ adrift' = IF arrived THEN adrift \cup {req[r].token} ELSE adrift
    /\ Done(r)
    /\ UNCHANGED <<users, invites, made, tokens, overlaps, raced>>

\* An error does not say whether the letter has gone out; the link is shown either way.
MailFailed(r, arrived) ==
    /\ req[r].pc \in {"mailNew", "mailAgain"}
    /\ adrift' = IF arrived THEN adrift \cup {req[r].token} ELSE adrift
    /\ req' = [req EXCEPT ![r].pc = IF @ = "mailNew" THEN "commitNew" ELSE "commitAgain"]
    /\ UNCHANGED <<users, invites, made, tokens, overlaps, raced>>

Revoke(r, i) ==
    /\ req[r].pc = "admin"
    /\ Pending(i)
    /\ req' = [req EXCEPT ![r] = [Idle EXCEPT !.pc = "revoking", !.inv = i]]
    /\ UNCHANGED <<users, invites, made, tokens, adrift, overlaps, raced>>

RevokeCommits(r) ==
    /\ req[r].pc = "revoking"
    /\ invites[req[r].inv].there /\ ~Locked(req[r].inv)
    /\ invites' = [invites EXCEPT ![req[r].inv].revoked = TRUE]
    /\ Done(r)
    /\ UNCHANGED <<users, made, tokens, adrift, overlaps, raced>>

-------------------------------------------------------------------------------
(* The accounts of others.                                                  *)

\* A mutant: nobody asks whose account it is.
MayChangeAny(r, a) == users[a].exists

MayChange(r, a) == users[a].exists /\ a # req[r].actor

Raced(r) == raced' = (raced \/ ~IsAdmin(req[r].actor))

Toggle(r, a) ==
    /\ req[r].pc = "admin"
    /\ MayChange(r, a)
    /\ req' = [req EXCEPT ![r].email = a,
                          ![r].pc = IF users[a].active THEN "switchOff" ELSE "switchOn"]
    /\ UNCHANGED <<users, invites, made, tokens, adrift, overlaps, raced>>

\* The opposite of what was read, whatever is there by now.
ToggleCommits(r) ==
    /\ req[r].pc \in {"switchOff", "switchOn"}
    /\ users' = [users EXCEPT ![req[r].email].active = (req[r].pc = "switchOn")]
    /\ Raced(r)
    /\ Done(r)
    /\ UNCHANGED <<invites, made, tokens, adrift, overlaps>>

ChangeRole(r, a, role) ==
    /\ req[r].pc = "admin"
    /\ MayChange(r, a)
    /\ req' = [req EXCEPT ![r].pc = "changeRole", ![r].email = a, ![r].role = role,
                          ![r].was = users[a].role]
    /\ UNCHANGED <<users, invites, made, tokens, adrift, overlaps, raced>>

\* A role that is the one that was read is not written.
ChangeRoleCommits(r) ==
    /\ req[r].pc = "changeRole"
    /\ users' = IF req[r].role = req[r].was THEN users
                ELSE [users EXCEPT ![req[r].email].role = req[r].role]
    /\ Raced(r)
    /\ Done(r)
    /\ UNCHANGED <<invites, made, tokens, adrift, overlaps>>

-------------------------------------------------------------------------------
(* Accepting.                                                               *)

\* resolve(), and the password that was sent with the token.
AcceptArrives(r, i) ==
    /\ req[r].pc = "idle"
    /\ Working(i)
    /\ req' = [req EXCEPT ![r] = [Idle EXCEPT !.pc = "accept", !.inv = i,
                                  !.email = invites[i].email, !.role = invites[i].role]]
    /\ UNCHANGED <<users, invites, made, tokens, adrift, overlaps, raced>>

\* The account is looked for, then inserted: an insertion of the same address that is
\* not committed yet is waited for, and one that is fails this one.
AcceptInserts(r) ==
    /\ req[r].pc = "accept"
    /\ ~users[req[r].email].exists /\ ~Taking(req[r].email)
    /\ req' = [req EXCEPT ![r].pc = "accepted"]
    /\ UNCHANGED <<users, invites, made, tokens, adrift, overlaps, raced>>

\* A mutant: the invitation is marked although the account was there.
AcceptTakenMarks(r) ==
    /\ req[r].pc = "accept"
    /\ users[req[r].email].exists
    /\ invites' = [invites EXCEPT ![req[r].inv].accepted = TRUE]
    /\ Done(r)
    /\ UNCHANGED <<users, made, tokens, adrift, overlaps, raced>>

AcceptTaken(r) ==
    /\ req[r].pc = "accept"
    /\ users[req[r].email].exists
    /\ Done(r)
    /\ UNCHANGED <<users, invites, made, tokens, adrift, overlaps, raced>>

AcceptCommits(r) ==
    LET i == req[r].inv IN
    /\ req[r].pc = "accepted"
    /\ invites[i].there /\ ~Locked(i)
    /\ users' = [users EXCEPT ![req[r].email] = UserOf(req[r].role, i)]
    /\ invites' = [invites EXCEPT ![i].accepted = TRUE, ![i].token = 0]
    /\ Done(r)
    /\ UNCHANGED <<made, tokens, adrift, overlaps, raced>>

CliCreateUser(a, role) ==
    /\ ~users[a].exists /\ ~Taking(a)
    /\ users' = [users EXCEPT ![a] = UserOf(role, 0)]
    /\ UNCHANGED <<invites, made, tokens, req, adrift, overlaps, raced>>

-------------------------------------------------------------------------------
(* What nobody asks for.                                                    *)

\* A process that dies, or an UPDATE of a row that was deleted: the transaction is
\* rolled back.
Fails(r) ==
    /\ req[r].pc # "idle"
    /\ adrift' = adrift \ {req[r].token}
    /\ Done(r)
    /\ UNCHANGED <<users, invites, made, tokens, overlaps, raced>>

Expires(i) ==
    /\ invites[i].there /\ ~invites[i].expired
    /\ invites' = [invites EXCEPT ![i].expired = TRUE]
    /\ UNCHANGED <<users, made, tokens, req, adrift, overlaps, raced>>

\* The worker deletes what was accepted, revoked or has expired thirty days ago: as
\* time is not counted here, some of what was.  The DELETE waits for locked rows.
Outdated(i) == invites[i].there /\ (invites[i].accepted \/ invites[i].revoked
                                      \/ invites[i].expired)

CleanupInvite(i) ==
    /\ Outdated(i) /\ ~Locked(i)
    /\ invites' = [invites EXCEPT ![i] = NoInvite]
    /\ UNCHANGED <<users, made, tokens, req, adrift, overlaps, raced>>

AdminStep(r) ==
    \/ \E a \in Addresses : AdminArrives(r, a) \/ Toggle(r, a)
    \/ Refused(r)
    \/ \E a \in Addresses, role \in Roles : CreateChecks(r, a, role) \/ ChangeRole(r, a, role)
    \/ CreateReads(r)
    \/ CreateFlushes(r)
    \/ CreateCommits(r)
    \/ \E i \in Invites : Reissue(r, i) \/ Revoke(r, i)
    \/ ReissueCommits(r)
    \/ MailSent(r)
    \/ \E arrived \in BOOLEAN : MailFailed(r, arrived)
    \/ RevokeCommits(r)
    \/ ToggleCommits(r)
    \/ ChangeRoleCommits(r)

AcceptStep(r) ==
    \/ \E i \in Invites : AcceptArrives(r, i)
    \/ AcceptInserts(r)
    \/ AcceptTaken(r)
    \/ AcceptCommits(r)

Next ==
    \/ \E r \in Requests : AdminStep(r) \/ AcceptStep(r) \/ Fails(r)
    \/ \E a \in Addresses, role \in Roles : CliCreateUser(a, role)
    \/ \E i \in Invites : Expires(i) \/ CleanupInvite(i)

Spec == Init /\ [][Next]_vars

-------------------------------------------------------------------------------
(* Properties.                                                              *)

UserType == [exists: BOOLEAN, role: Roles, active: BOOLEAN, via: 0..MaxInvites]

InviteType == [there: BOOLEAN, email: Addresses, role: Roles, token: 0..MaxTokens,
               accepted: BOOLEAN, revoked: BOOLEAN, expired: BOOLEAN]

RequestType == [pc: {"idle", "admin", "previous", "flush", "mailNew", "commitNew",
                     "mailAgain", "commitAgain", "revoking", "switchOff", "switchOn",
                     "changeRole", "accept", "accepted"},
                actor: Addresses, email: Addresses, role: Roles, was: Roles,
                inv: 0..MaxInvites, token: 0..MaxTokens,
                prev: SUBSET Invites, missed: SUBSET Invites]

\* Type correctness, with the numbering of rows and tokens: a row that is there, and
\* the row and the token of a request, have been numbered (models.py:84-241).
TypeOK ==
    /\ users \in [Addresses -> UserType]
    /\ invites \in [Invites -> InviteType]
    /\ made \in 0..MaxInvites /\ tokens \in 0..MaxTokens
    /\ \A i \in Invites : invites[i].there => i <= made
    /\ req \in [Requests -> RequestType]
    /\ \A r \in Requests : req[r].inv <= made /\ req[r].token <= tokens
    /\ adrift \subseteq 1..tokens
    /\ overlaps \subseteq SUBSET Invites
    /\ raced \in BOOLEAN

\* One address has one link that works, but for invitations whose requests overlapped
\* (invites.py:80-89), whatever is sent again, accepted or revoked at the same time.
OneWorkingLink ==
    \A i, j \in Invites :
        i # j /\ Working(i) /\ Working(j) /\ invites[i].email = invites[j].email
            => {i, j} \in overlaps

\* Somebody can administer, unless an account was changed by an administrator who was
\* switched off or demoted between the check of the right and the commit
\* (admin_views.py:183-231, deps.py:87-96).
AdminRemains == raced \/ \E a \in Addresses : IsAdmin(a)

\* An invitation that is marked accepted is the one that made the account of its
\* address, and no account is there whose invitation is still open (invites.py:195-254).
AcceptedMadeAccount ==
    \A i \in Invites :
        /\ invites[i].there /\ invites[i].accepted => users[invites[i].email].via = i
        /\ \A a \in Addresses : users[a].via = i => ~Pending(i)

\* A link that somebody has got by mail was stored, unless the request that made it is
\* still in flight or has died before its commit (admin_views.py:57-108).
LettersKept ==
    \A t \in adrift :
        \E r \in Requests : req[r].token = t /\ req[r].pc \in {"commitNew", "commitAgain"}

\* An invitation that was revoked or accepted never works again, although a request
\* that has read it before writes a new token and a new term to it (invites.py:108-120).
OverForGood ==
    [][\A i \in Invites : invites[i].there /\ ~Pending(i) => ~Pending(i)']_vars
===============================================================================
