----------------------------- MODULE AccountsProofs -----------------------------
(***************************************************************************)
(* Proofs about Accounts, for any number of requests, addresses, invitations *)
(* and tokens.                                                              *)
(***************************************************************************)
EXTENDS Accounts, TLAPS

-------------------------------------------------------------------------------
(* What a step does to the request that takes it.                           *)

Numbered == MaxInvites \in Nat /\ MaxTokens \in Nat /\ Root \in Addresses

LEMMA IdleTyped ==
  /\ Numbered
  /\ Idle \in RequestType /\ Idle.pc = "idle" /\ Idle.inv = 0 /\ Idle.token = 0
  /\ NoInvite \in InviteType /\ NoInvite.there = FALSE /\ NoInvite.accepted = FALSE
  /\ NoUser \in UserType /\ NoUser.exists = FALSE /\ NoUser.via = 0
<1>1. Numbered
  BY AccountsAssumption DEF Numbered
<1>2. "operator" \in Roles
  BY DEF Roles
<1>3. Idle \in RequestType /\ Idle.pc = "idle" /\ Idle.inv = 0 /\ Idle.token = 0
  BY <1>1, <1>2 DEF Idle, RequestType, Numbered, Invites
<1>4. NoInvite \in InviteType /\ NoInvite.there = FALSE /\ NoInvite.accepted = FALSE
  BY <1>1, <1>2 DEF NoInvite, InviteType, Numbered
<1>5. NoUser \in UserType /\ NoUser.exists = FALSE /\ NoUser.via = 0
  BY <1>1, <1>2 DEF NoUser, UserType, Numbered
<1> QED
  BY <1>1, <1>3, <1>4, <1>5

\* The request of the step has become q, and the others are as they were.
Turns(r, q) == q \in RequestType /\ req' = [req EXCEPT ![r] = q]

LEMMA TurnsMean ==
  ASSUME TypeOK, NEW r \in Requests, NEW q, Turns(r, q)
  PROVE  /\ q \in RequestType
         /\ req' \in [Requests -> RequestType]
         /\ \A s \in Requests : req'[s] = IF s = r THEN q ELSE req[s]
BY DEF Turns, TypeOK

\* A request is over.
LEMMA DoneTurns ==
  ASSUME TypeOK, NEW r \in Requests, Done(r)
  PROVE  Turns(r, Idle)
BY IdleTyped DEF Done, Turns

Administers(a)     == [Idle EXCEPT !.pc = "admin", !.actor = a]
Creates(a, role)   == [Idle EXCEPT !.pc = "previous", !.email = a, !.role = role]
SendsAgain(i)      == [Idle EXCEPT !.pc = "mailAgain", !.inv = i, !.token = tokens + 1]
Revokes(i)         == [Idle EXCEPT !.pc = "revoking", !.inv = i]
AcceptsIt(i)       == [Idle EXCEPT !.pc = "accept", !.inv = i, !.email = invites[i].email,
                                   !.role = invites[i].role]

LEMMA ArrivalsTurn ==
  ASSUME TypeOK, NEW r \in Requests
  PROVE  /\ \A a \in Addresses : AdminArrives(r, a) =>
                Turns(r, Administers(a)) /\ Administers(a).pc = "admin"
                /\ Administers(a).inv = 0 /\ Administers(a).token = 0
         /\ \A a \in Addresses, role \in Roles : CreateChecks(r, a, role) =>
                Turns(r, Creates(a, role)) /\ Creates(a, role).pc = "previous"
                /\ Creates(a, role).inv = 0 /\ Creates(a, role).token = 0
         /\ \A i \in Invites : Reissue(r, i) =>
                Turns(r, SendsAgain(i)) /\ SendsAgain(i).pc = "mailAgain"
                /\ SendsAgain(i).inv = i /\ SendsAgain(i).token = tokens + 1
         /\ \A i \in Invites : Revoke(r, i) =>
                Turns(r, Revokes(i)) /\ Revokes(i).pc = "revoking"
                /\ Revokes(i).inv = i /\ Revokes(i).token = 0
         /\ \A i \in Invites : AcceptArrives(r, i) =>
                Turns(r, AcceptsIt(i)) /\ AcceptsIt(i).pc = "accept"
                /\ AcceptsIt(i).inv = i /\ AcceptsIt(i).token = 0
                /\ AcceptsIt(i).email = invites[i].email
<1>1. Numbered /\ Idle \in RequestType /\ Idle.inv = 0 /\ Idle.token = 0
  BY IdleTyped
<1>2. ASSUME NEW a \in Addresses, AdminArrives(r, a)
      PROVE  Turns(r, Administers(a)) /\ Administers(a).pc = "admin"
             /\ Administers(a).inv = 0 /\ Administers(a).token = 0
  <2>1. Administers(a) \in RequestType
    BY <1>1 DEF Administers, RequestType
  <2>2. Administers(a).pc = "admin" /\ Administers(a).inv = 0 /\ Administers(a).token = 0
    BY DEF Administers, Idle
  <2> QED
    BY <1>2, <2>1, <2>2 DEF AdminArrives, Administers, Turns
<1>3. ASSUME NEW a \in Addresses, NEW role \in Roles, CreateChecks(r, a, role)
      PROVE  Turns(r, Creates(a, role)) /\ Creates(a, role).pc = "previous"
             /\ Creates(a, role).inv = 0 /\ Creates(a, role).token = 0
  <2>1. Creates(a, role) \in RequestType
    BY <1>1 DEF Creates, RequestType
  <2>2. Creates(a, role).pc = "previous" /\ Creates(a, role).inv = 0
        /\ Creates(a, role).token = 0
    BY DEF Creates, Idle
  <2> QED
    BY <1>3, <2>1, <2>2 DEF CreateChecks, Creates, Turns
<1>4. ASSUME NEW i \in Invites, Reissue(r, i)
      PROVE  Turns(r, SendsAgain(i)) /\ SendsAgain(i).pc = "mailAgain"
             /\ SendsAgain(i).inv = i /\ SendsAgain(i).token = tokens + 1
  <2>1. tokens + 1 \in 0..MaxTokens /\ i \in 0..MaxInvites
    BY <1>1, <1>4 DEF Reissue, TypeOK, Numbered, Invites
  <2>2. SendsAgain(i) \in RequestType
    BY <1>1, <2>1 DEF SendsAgain, RequestType
  <2>3. SendsAgain(i).pc = "mailAgain" /\ SendsAgain(i).inv = i
        /\ SendsAgain(i).token = tokens + 1
    BY DEF SendsAgain, Idle
  <2> QED
    BY <1>4, <2>2, <2>3 DEF Reissue, SendsAgain, Turns
<1>5. ASSUME NEW i \in Invites, Revoke(r, i)
      PROVE  Turns(r, Revokes(i)) /\ Revokes(i).pc = "revoking"
             /\ Revokes(i).inv = i /\ Revokes(i).token = 0
  <2>1. i \in 0..MaxInvites
    BY <1>1 DEF Numbered, Invites
  <2>2. Revokes(i) \in RequestType
    BY <1>1, <2>1 DEF Revokes, RequestType
  <2>3. Revokes(i).pc = "revoking" /\ Revokes(i).inv = i /\ Revokes(i).token = 0
    BY DEF Revokes, Idle
  <2> QED
    BY <1>5, <2>2, <2>3 DEF Revoke, Revokes, Turns
<1>6. ASSUME NEW i \in Invites, AcceptArrives(r, i)
      PROVE  Turns(r, AcceptsIt(i)) /\ AcceptsIt(i).pc = "accept"
             /\ AcceptsIt(i).inv = i /\ AcceptsIt(i).token = 0
             /\ AcceptsIt(i).email = invites[i].email
  <2>1. i \in 0..MaxInvites /\ invites[i] \in InviteType
    BY <1>1 DEF Numbered, Invites, TypeOK
  <2>2. AcceptsIt(i) \in RequestType
    BY <1>1, <2>1 DEF AcceptsIt, RequestType, InviteType
  <2>3. AcceptsIt(i).pc = "accept" /\ AcceptsIt(i).inv = i /\ AcceptsIt(i).token = 0
        /\ AcceptsIt(i).email = invites[i].email
    BY DEF AcceptsIt, Idle
  <2> QED
    BY <1>6, <2>2, <2>3 DEF AcceptArrives, AcceptsIt, Turns
<1> QED
  BY <1>2, <1>3, <1>4, <1>5, <1>6

HasRead(r)   == [req[r] EXCEPT !.pc = "flush",
                     !.prev = {i \in Invites : Pending(i) /\ invites[i].email = req[r].email}]
HasFlushed(r) == [req[r] EXCEPT !.pc = "mailNew", !.inv = made + 1, !.token = tokens + 1]
HasMailed(r) == [req[r] EXCEPT !.pc = IF @ = "mailNew" THEN "commitNew" ELSE "commitAgain"]
Switches(r, a) == [req[r] EXCEPT !.email = a,
                       !.pc = IF users[a].active THEN "switchOff" ELSE "switchOn"]
Promotes(r, a, role) == [req[r] EXCEPT !.pc = "changeRole", !.email = a, !.role = role,
                                       !.was = users[a].role]
HasInserted(r) == [req[r] EXCEPT !.pc = "accepted"]

LEMMA CreatesTurn ==
  ASSUME TypeOK, NEW r \in Requests
  PROVE  /\ CreateReads(r) =>
                Turns(r, HasRead(r)) /\ HasRead(r).pc = "flush"
                /\ HasRead(r).inv = req[r].inv /\ HasRead(r).token = req[r].token
                /\ HasRead(r).email = req[r].email
                /\ HasRead(r).prev = {i \in Invites : Pending(i) /\ invites[i].email = req[r].email}
         /\ CreateFlushes(r) =>
                Turns(r, HasFlushed(r)) /\ HasFlushed(r).pc = "mailNew"
                /\ HasFlushed(r).inv = made + 1 /\ HasFlushed(r).token = tokens + 1
                /\ HasFlushed(r).email = req[r].email /\ HasFlushed(r).prev = req[r].prev
                /\ HasFlushed(r).missed = req[r].missed
<1>1. req \in [Requests -> RequestType] /\ req[r] \in RequestType /\ Numbered
  BY IdleTyped DEF TypeOK
<1>2. ASSUME CreateReads(r)
      PROVE  Turns(r, HasRead(r)) /\ HasRead(r).pc = "flush"
             /\ HasRead(r).inv = req[r].inv /\ HasRead(r).token = req[r].token
             /\ HasRead(r).email = req[r].email
             /\ HasRead(r).prev = {i \in Invites : Pending(i) /\ invites[i].email = req[r].email}
  <2> DEFINE S == {i \in Invites : Pending(i) /\ invites[i].email = req[r].email}
  <2>1. S \in SUBSET Invites
    OBVIOUS
  <2>2. req' = [req EXCEPT ![r].pc = "flush", ![r].prev = S]
    BY <1>2 DEF CreateReads
  <2>3. HasRead(r) = [req[r] EXCEPT !.pc = "flush", !.prev = S]
    BY DEF HasRead
  <2> HIDE DEF S
  <2>4. HasRead(r) \in RequestType
    BY <1>1, <2>1, <2>3 DEF RequestType
  <2>5. /\ HasRead(r).pc = "flush" /\ HasRead(r).prev = S
        /\ HasRead(r).inv = req[r].inv /\ HasRead(r).token = req[r].token
        /\ HasRead(r).email = req[r].email
    BY <1>1, <2>3 DEF RequestType
  <2>6. req' = [req EXCEPT ![r] = HasRead(r)]
    BY <1>1, <2>2, <2>3
  <2> QED
    BY <2>4, <2>5, <2>6 DEF Turns, S
<1>3. ASSUME CreateFlushes(r)
      PROVE  Turns(r, HasFlushed(r)) /\ HasFlushed(r).pc = "mailNew"
             /\ HasFlushed(r).inv = made + 1 /\ HasFlushed(r).token = tokens + 1
             /\ HasFlushed(r).email = req[r].email /\ HasFlushed(r).prev = req[r].prev
             /\ HasFlushed(r).missed = req[r].missed
  <2>1. made + 1 \in 0..MaxInvites /\ tokens + 1 \in 0..MaxTokens
    BY <1>1, <1>3 DEF CreateFlushes, TypeOK, Numbered
  <2>2. req' = [req EXCEPT ![r].pc = "mailNew", ![r].inv = made + 1, ![r].token = tokens + 1]
    BY <1>3 DEF CreateFlushes
  <2>3. HasFlushed(r) \in RequestType
    BY <1>1, <2>1 DEF HasFlushed, RequestType
  <2>4. /\ HasFlushed(r).pc = "mailNew" /\ HasFlushed(r).inv = made + 1
        /\ HasFlushed(r).token = tokens + 1 /\ HasFlushed(r).email = req[r].email
        /\ HasFlushed(r).prev = req[r].prev /\ HasFlushed(r).missed = req[r].missed
    BY <1>1 DEF HasFlushed, RequestType
  <2>5. req' = [req EXCEPT ![r] = HasFlushed(r)]
    BY <1>1, <2>2 DEF HasFlushed
  <2> QED
    BY <2>3, <2>4, <2>5 DEF Turns
<1> QED
  BY <1>2, <1>3

LEMMA OthersTurn ==
  ASSUME TypeOK, NEW r \in Requests
  PROVE  /\ (MailSent(r) \/ \E arrived \in BOOLEAN : MailFailed(r, arrived)) =>
                Turns(r, HasMailed(r)) /\ HasMailed(r).pc \in {"commitNew", "commitAgain"}
                /\ (HasMailed(r).pc = "commitNew" <=> req[r].pc = "mailNew")
                /\ HasMailed(r).inv = req[r].inv /\ HasMailed(r).token = req[r].token
                /\ HasMailed(r).email = req[r].email /\ HasMailed(r).prev = req[r].prev
                /\ HasMailed(r).missed = req[r].missed
         /\ \A a \in Addresses : Toggle(r, a) =>
                Turns(r, Switches(r, a)) /\ Switches(r, a).pc \in {"switchOff", "switchOn"}
                /\ Switches(r, a).inv = req[r].inv /\ Switches(r, a).token = req[r].token
                /\ Switches(r, a).email = a /\ Switches(r, a).actor = req[r].actor
         /\ \A a \in Addresses, role \in Roles : ChangeRole(r, a, role) =>
                Turns(r, Promotes(r, a, role)) /\ Promotes(r, a, role).pc = "changeRole"
                /\ Promotes(r, a, role).inv = req[r].inv
                /\ Promotes(r, a, role).token = req[r].token
                /\ Promotes(r, a, role).email = a
                /\ Promotes(r, a, role).actor = req[r].actor
         /\ AcceptInserts(r) =>
                Turns(r, HasInserted(r)) /\ HasInserted(r).pc = "accepted"
                /\ HasInserted(r).inv = req[r].inv /\ HasInserted(r).token = req[r].token
                /\ HasInserted(r).email = req[r].email
<1>1. req \in [Requests -> RequestType] /\ req[r] \in RequestType
  BY DEF TypeOK
<1>2. ASSUME MailSent(r) \/ \E arrived \in BOOLEAN : MailFailed(r, arrived)
      PROVE  Turns(r, HasMailed(r)) /\ HasMailed(r).pc \in {"commitNew", "commitAgain"}
             /\ (HasMailed(r).pc = "commitNew" <=> req[r].pc = "mailNew")
             /\ HasMailed(r).inv = req[r].inv /\ HasMailed(r).token = req[r].token
             /\ HasMailed(r).email = req[r].email /\ HasMailed(r).prev = req[r].prev
             /\ HasMailed(r).missed = req[r].missed
  <2> DEFINE pc == IF req[r].pc = "mailNew" THEN "commitNew" ELSE "commitAgain"
  <2>1. req' = [req EXCEPT ![r].pc = pc]
    BY <1>2 DEF MailSent, MailFailed
  <2>2. HasMailed(r) = [req[r] EXCEPT !.pc = pc]
    BY DEF HasMailed
  <2>3. pc \in {"commitNew", "commitAgain"} /\ (pc = "commitNew" <=> req[r].pc = "mailNew")
    OBVIOUS
  <2> HIDE DEF pc
  <2>4. HasMailed(r) \in RequestType
    BY <1>1, <2>2, <2>3 DEF RequestType
  <2>5. /\ HasMailed(r).pc = pc
        /\ HasMailed(r).inv = req[r].inv /\ HasMailed(r).token = req[r].token
        /\ HasMailed(r).email = req[r].email /\ HasMailed(r).prev = req[r].prev
        /\ HasMailed(r).missed = req[r].missed
    BY <1>1, <2>2 DEF RequestType
  <2>6. req' = [req EXCEPT ![r] = HasMailed(r)]
    BY <1>1, <2>1, <2>2
  <2> QED
    BY <2>3, <2>4, <2>5, <2>6 DEF Turns
<1>3. ASSUME NEW a \in Addresses, Toggle(r, a)
      PROVE  Turns(r, Switches(r, a)) /\ Switches(r, a).pc \in {"switchOff", "switchOn"}
             /\ Switches(r, a).inv = req[r].inv /\ Switches(r, a).token = req[r].token
             /\ Switches(r, a).email = a /\ Switches(r, a).actor = req[r].actor
  <2> DEFINE pc == IF users[a].active THEN "switchOff" ELSE "switchOn"
  <2>1. req' = [req EXCEPT ![r].email = a, ![r].pc = pc]
    BY <1>3 DEF Toggle
  <2>2. Switches(r, a) = [req[r] EXCEPT !.email = a, !.pc = pc]
    BY DEF Switches
  <2>3. pc \in {"switchOff", "switchOn"}
    OBVIOUS
  <2> HIDE DEF pc
  <2>4. Switches(r, a) \in RequestType
    BY <1>1, <2>2, <2>3 DEF RequestType
  <2>5. /\ Switches(r, a).pc = pc
        /\ Switches(r, a).inv = req[r].inv /\ Switches(r, a).token = req[r].token
        /\ Switches(r, a).email = a /\ Switches(r, a).actor = req[r].actor
    BY <1>1, <2>2 DEF RequestType
  <2>6. req' = [req EXCEPT ![r] = Switches(r, a)]
    BY <1>1, <2>1, <2>2
  <2> QED
    BY <2>3, <2>4, <2>5, <2>6 DEF Turns
<1>4. ASSUME NEW a \in Addresses, NEW role \in Roles, ChangeRole(r, a, role)
      PROVE  Turns(r, Promotes(r, a, role)) /\ Promotes(r, a, role).pc = "changeRole"
             /\ Promotes(r, a, role).inv = req[r].inv
             /\ Promotes(r, a, role).token = req[r].token
             /\ Promotes(r, a, role).email = a
             /\ Promotes(r, a, role).actor = req[r].actor
  <2>1. req' = [req EXCEPT ![r].pc = "changeRole", ![r].email = a, ![r].role = role,
                           ![r].was = users[a].role]
    BY <1>4 DEF ChangeRole
  <2>2. users[a].role \in Roles
    BY DEF TypeOK, UserType
  <2>3. Promotes(r, a, role) \in RequestType
    BY <1>1, <2>2 DEF Promotes, RequestType
  <2>4. /\ Promotes(r, a, role).pc = "changeRole"
        /\ Promotes(r, a, role).inv = req[r].inv
        /\ Promotes(r, a, role).token = req[r].token
        /\ Promotes(r, a, role).email = a
        /\ Promotes(r, a, role).actor = req[r].actor
    BY <1>1 DEF Promotes, RequestType
  <2>5. req' = [req EXCEPT ![r] = Promotes(r, a, role)]
    BY <1>1, <2>1 DEF Promotes
  <2> QED
    BY <2>3, <2>4, <2>5 DEF Turns
<1>5. ASSUME AcceptInserts(r)
      PROVE  Turns(r, HasInserted(r)) /\ HasInserted(r).pc = "accepted"
             /\ HasInserted(r).inv = req[r].inv /\ HasInserted(r).token = req[r].token
             /\ HasInserted(r).email = req[r].email
  <2>1. req' = [req EXCEPT ![r].pc = "accepted"]
    BY <1>5 DEF AcceptInserts
  <2>2. HasInserted(r) \in RequestType
    BY <1>1 DEF HasInserted, RequestType
  <2>3. /\ HasInserted(r).pc = "accepted"
        /\ HasInserted(r).inv = req[r].inv /\ HasInserted(r).token = req[r].token
        /\ HasInserted(r).email = req[r].email
    BY <1>1 DEF HasInserted, RequestType
  <2>4. req' = [req EXCEPT ![r] = HasInserted(r)]
    BY <1>1, <2>1 DEF HasInserted
  <2> QED
    BY <2>2, <2>3, <2>4 DEF Turns
<1> QED
  BY <1>2, <1>3, <1>4, <1>5

\* Where a request means a row, or has made a token, it has the number.
WithRow == {"mailNew", "commitNew", "mailAgain", "commitAgain", "revoking", "accept", "accepted"}
WithToken == {"mailNew", "commitNew", "mailAgain", "commitAgain"}
RowsMeant ==
    \A r \in Requests : /\ req[r].pc \in WithRow => req[r].inv \in Invites
                        /\ req[r].pc \in WithToken => req[r].token # 0

\* A commit of a new invitation ends its request, and tells those that may have missed it.
LEMMA CommitTells ==
  ASSUME TypeOK, RowsMeant, NEW r \in Requests, CreateCommits(r)
  PROVE  /\ req' \in [Requests -> RequestType]
         /\ req'[r] = Idle
         /\ \A s \in Requests : s # r =>
              /\ req'[s].pc = req[s].pc /\ req'[s].inv = req[s].inv
              /\ req'[s].token = req[s].token /\ req'[s].email = req[s].email
              /\ req'[s].actor = req[s].actor /\ req'[s].prev = req[s].prev
              /\ req[s].missed \subseteq req'[s].missed
              /\ req[s].pc \in {"flush", "mailNew", "commitNew"} /\ req[s].email = req[r].email
                    => req[r].inv \in req'[s].missed
<1>1. req \in [Requests -> RequestType] /\ Numbered
  BY IdleTyped DEF TypeOK
<1>2. PICK k : k = req[r].inv
  OBVIOUS
<1>3. req' = [q \in Requests |->
            IF q = r THEN Idle
            ELSE IF req[q].pc \in {"flush", "mailNew", "commitNew"} /\ req[q].email = req[r].email
            THEN [req[q] EXCEPT !.missed = @ \cup {k}]
            ELSE req[q]]
  BY <1>2 DEF CreateCommits
<1>4. ASSUME k \in Invites, NEW s \in Requests
      PROVE  LET q == [req[s] EXCEPT !.missed = @ \cup {k}]
             IN  /\ q \in RequestType
                 /\ q.pc = req[s].pc /\ q.inv = req[s].inv /\ q.token = req[s].token
                 /\ q.email = req[s].email /\ q.actor = req[s].actor /\ q.prev = req[s].prev
                 /\ q.missed = req[s].missed \cup {k}
  BY <1>1, <1>4 DEF RequestType
<1>5. k \in Invites
  BY <1>2 DEF RowsMeant, WithRow, CreateCommits
<1> QED
  BY <1>1, <1>2, <1>3, <1>4, <1>5, IdleTyped

-------------------------------------------------------------------------------
(* Types.                                                                   *)

TablesOK ==
    /\ users \in [Addresses -> UserType]
    /\ invites \in [Invites -> InviteType]
    /\ made \in 0..MaxInvites /\ tokens \in 0..MaxTokens
    /\ \A i \in Invites : invites[i].there => i <= made
    /\ adrift \subseteq 1..tokens
    /\ overlaps \subseteq SUBSET Invites
    /\ raced \in BOOLEAN

RequestsOK ==
    /\ req \in [Requests -> RequestType]
    /\ \A r \in Requests : req[r].inv <= made /\ req[r].token <= tokens
    /\ RowsMeant

Typed == TypeOK /\ RowsMeant

LEMMA TypedParts ==
  /\ Typed <=> TablesOK /\ RequestsOK
  /\ Typed' <=> TablesOK' /\ RequestsOK'
BY DEF Typed, TypeOK, TablesOK, RequestsOK

LEMMA NumberFacts ==
  ASSUME Typed
  PROVE  /\ Numbered /\ made \in Nat /\ tokens \in Nat
         /\ \A r \in Requests : /\ req[r] \in RequestType
                                /\ req[r].inv \in Nat /\ req[r].token \in Nat
                                /\ req[r].inv <= made /\ req[r].token <= tokens
BY IdleTyped DEF Typed, TypeOK, RequestType, Numbered

LEMMA TurnsOK ==
  ASSUME Typed, NEW r \in Requests, NEW q, Turns(r, q),
         made' \in Nat, made <= made', tokens' \in Nat, tokens <= tokens',
         q.inv <= made', q.token <= tokens', q.pc \in WithRow => q.inv \in Invites,
         q.pc \in WithToken => q.token # 0
  PROVE  RequestsOK'
<1>1. /\ req' \in [Requests -> RequestType]
      /\ \A s \in Requests : req'[s] = IF s = r THEN q ELSE req[s]
  BY TurnsMean DEF Typed
<1>2. ASSUME NEW s \in Requests
      PROVE  /\ req'[s].inv <= made' /\ req'[s].token <= tokens'
             /\ req'[s].pc \in WithRow => req'[s].inv \in Invites
             /\ req'[s].pc \in WithToken => req'[s].token # 0
  BY <1>1, NumberFacts DEF Typed, RowsMeant
<1> QED
  BY <1>1, <1>2 DEF RequestsOK, RowsMeant

\* The tables of a step that reads.
Reads == UNCHANGED <<users, invites, adrift, overlaps, raced>>

LEMMA ReadsOK ==
  ASSUME Typed, Reads, made' \in made..MaxInvites, tokens' \in tokens..MaxTokens
  PROVE  TablesOK'
<1>1. /\ users' = users /\ invites' = invites /\ adrift' = adrift /\ overlaps' = overlaps
      /\ raced' = raced
  BY DEF Reads
<1>2. made \in Nat /\ tokens \in Nat /\ Numbered
  BY NumberFacts
<1>3. made' \in 0..MaxInvites /\ tokens' \in 0..MaxTokens
      /\ \A i \in Invites : invites'[i].there => i <= made'
  BY <1>1, <1>2 DEF Typed, TypeOK, Numbered, Invites
<1>4. adrift' \subseteq 1..tokens'
  BY <1>1, <1>2 DEF Typed, TypeOK, Numbered
<1> QED
  BY <1>1, <1>3, <1>4 DEF Typed, TypeOK, TablesOK

\* Steps that read, and go on or end.
LEMMA ReadingTyped ==
  ASSUME Typed, NEW r \in Requests,
         \/ \E a \in Addresses : AdminArrives(r, a) \/ Toggle(r, a)
         \/ Refused(r)
         \/ \E a \in Addresses, role \in Roles : CreateChecks(r, a, role) \/ ChangeRole(r, a, role)
         \/ CreateReads(r)
         \/ \E i \in Invites : Revoke(r, i) \/ AcceptArrives(r, i)
         \/ AcceptInserts(r) \/ AcceptTaken(r)
  PROVE  Typed'
<1>1. TypeOK /\ Numbered /\ made \in Nat /\ tokens \in Nat /\ req[r].inv <= made
      /\ req[r].token <= tokens /\ made <= MaxInvites /\ tokens <= MaxTokens
  BY NumberFacts DEF Typed, TypeOK
<1>2. Reads /\ made' = made /\ tokens' = tokens
  BY DEF Reads, AdminArrives, Toggle, Refused, CreateChecks, ChangeRole, CreateReads, Revoke,
     AcceptArrives, AcceptInserts, AcceptTaken
<1>3. TablesOK'
  BY <1>1, <1>2, ReadsOK DEF Numbered
<1>4. ASSUME NEW q, Turns(r, q), q.inv <= made, q.token <= tokens,
             q.pc \in WithRow => q.inv \in Invites, q.pc \notin WithToken
      PROVE  Typed'
  <2>1. RequestsOK'
    BY <1>1, <1>2, <1>4, TurnsOK
  <2> QED
    BY <1>3, <2>1, TypedParts
<1>5. CASE \E a \in Addresses : AdminArrives(r, a)
  <2>1. PICK a \in Addresses : AdminArrives(r, a)
    BY <1>5
  <2> QED
    BY <1>1, <1>4, <2>1, ArrivalsTurn DEF WithRow, WithToken
<1>6. CASE \E a \in Addresses : Toggle(r, a)
  <2>1. PICK a \in Addresses : Toggle(r, a)
    BY <1>6
  <2> QED
    BY <1>1, <1>4, <2>1, OthersTurn DEF WithRow, WithToken
<1>7. CASE Refused(r) \/ AcceptTaken(r)
  BY <1>1, <1>4, <1>7, DoneTurns, IdleTyped DEF Refused, AcceptTaken, WithRow, WithToken
<1>8. CASE \E a \in Addresses, role \in Roles : CreateChecks(r, a, role)
  <2>1. PICK a \in Addresses, role \in Roles : CreateChecks(r, a, role)
    BY <1>8
  <2> QED
    BY <1>1, <1>4, <2>1, ArrivalsTurn DEF WithRow, WithToken
<1>9. CASE \E a \in Addresses, role \in Roles : ChangeRole(r, a, role)
  <2>1. PICK a \in Addresses, role \in Roles : ChangeRole(r, a, role)
    BY <1>9
  <2> QED
    BY <1>1, <1>4, <2>1, OthersTurn DEF WithRow, WithToken
<1>10. CASE CreateReads(r)
  BY <1>1, <1>4, <1>10, CreatesTurn DEF WithRow, WithToken
<1>11. CASE \E i \in Invites : Revoke(r, i) \/ AcceptArrives(r, i)
  <2>1. PICK i \in Invites : Revoke(r, i) \/ AcceptArrives(r, i)
    BY <1>11
  <2>2. invites[i].there
    BY <2>1 DEF Revoke, AcceptArrives, Working, Pending
  <2>3. i <= made /\ 0 <= tokens
    BY <1>1, <2>2 DEF TypeOK
  <2> QED
    BY <1>1, <1>4, <2>1, <2>3, ArrivalsTurn DEF WithRow, WithToken
<1>12. CASE AcceptInserts(r)
  <2>1. req[r].pc = "accept"
    BY <1>12 DEF AcceptInserts
  <2> QED
    BY <1>1, <1>4, <1>12, <2>1, OthersTurn DEF WithRow, WithToken, Typed, RowsMeant
<1> QED
  BY <1>5, <1>6, <1>7, <1>8, <1>9, <1>10, <1>11, <1>12

\* Steps that number a row or a token, and the letters.
LEMMA NumberingTyped ==
  ASSUME Typed, NEW r \in Requests,
         \/ CreateFlushes(r)
         \/ \E i \in Invites : Reissue(r, i)
         \/ MailSent(r)
         \/ \E arrived \in BOOLEAN : MailFailed(r, arrived)
  PROVE  Typed'
<1>1. TypeOK /\ Numbered /\ made \in Nat /\ tokens \in Nat /\ req[r].inv <= made
      /\ req[r].token <= tokens /\ made <= MaxInvites /\ tokens <= MaxTokens
  BY NumberFacts DEF Typed, TypeOK
<1>2. CASE CreateFlushes(r)
  <2>1. Reads /\ made' = made + 1 /\ tokens' = tokens + 1 /\ made < MaxInvites
        /\ tokens < MaxTokens
    BY <1>2 DEF CreateFlushes, Reads
  <2>2. TablesOK'
    BY <1>1, <2>1, ReadsOK DEF Numbered
  <2>3. made + 1 \in Invites
    BY <1>1, <2>1 DEF Invites, Numbered
  <2>4. RequestsOK'
    BY <1>1, <1>2, <2>1, <2>3, CreatesTurn, TurnsOK DEF WithToken
  <2> QED
    BY <2>2, <2>4, TypedParts
<1>3. CASE \E i \in Invites : Reissue(r, i)
  <2>1. PICK i \in Invites : Reissue(r, i)
    BY <1>3
  <2>2. Reads /\ made' = made /\ tokens' = tokens + 1 /\ tokens < MaxTokens
        /\ invites[i].there
    BY <2>1 DEF Reissue, Reads, Pending
  <2>3. TablesOK'
    BY <1>1, <2>2, ReadsOK DEF Numbered
  <2>4. i <= made
    BY <1>1, <2>2 DEF TypeOK
  <2>5. RequestsOK'
    BY <1>1, <2>1, <2>2, <2>4, ArrivalsTurn, TurnsOK DEF WithToken
  <2> QED
    BY <2>3, <2>5, TypedParts
<1>4. CASE MailSent(r) \/ \E arrived \in BOOLEAN : MailFailed(r, arrived)
  <2>1. /\ req[r].pc \in {"mailNew", "mailAgain"}
        /\ adrift' \subseteq adrift \cup {req[r].token}
        /\ UNCHANGED <<users, invites, made, tokens, overlaps, raced>>
    BY <1>4 DEF MailSent, MailFailed
  <2>2. req[r].inv \in Invites /\ req[r].token # 0
    BY <2>1 DEF Typed, RowsMeant, WithRow, WithToken
  <2>3. RequestsOK'
    BY <1>1, <1>4, <2>1, <2>2, OthersTurn, TurnsOK
  <2>4. req[r].token \in 1..tokens
    BY <2>2, NumberFacts
  <2>5. TablesOK'
    BY <1>1, <2>1, <2>4 DEF TypeOK, TablesOK
  <2> QED
    BY <2>3, <2>5, TypedParts
<1> QED
  BY <1>2, <1>3, <1>4

\* Rows and accounts as they are written.
LEMMA Written ==
  /\ \A row \in InviteType, t \in 0..MaxTokens :
        [row EXCEPT !.token = t, !.expired = FALSE] \in InviteType
  /\ \A row \in InviteType : [row EXCEPT !.accepted = TRUE, !.token = 0] \in InviteType
  /\ \A row \in InviteType : [row EXCEPT !.revoked = TRUE] \in InviteType
  /\ \A row \in InviteType : [row EXCEPT !.expired = TRUE] \in InviteType
  /\ \A a \in Addresses, role \in Roles, t \in 0..MaxTokens :
        [NoInvite EXCEPT !.there = TRUE, !.email = a, !.role = role, !.token = t] \in InviteType
  /\ \A role \in Roles, i \in 0..MaxInvites : UserOf(role, i) \in UserType
  /\ \A u \in UserType, b \in BOOLEAN : [u EXCEPT !.active = b] \in UserType
  /\ \A u \in UserType, role \in Roles : [u EXCEPT !.role = role] \in UserType
<1>1. 0 \in 0..MaxTokens /\ NoInvite \in InviteType
  BY IdleTyped DEF Numbered
<1>2. ASSUME NEW row \in InviteType, NEW t \in 0..MaxTokens
      PROVE  [row EXCEPT !.token = t, !.expired = FALSE] \in InviteType
  BY DEF InviteType
<1>3. ASSUME NEW row \in InviteType
      PROVE  [row EXCEPT !.accepted = TRUE, !.token = 0] \in InviteType
  BY <1>1 DEF InviteType
<1>4. ASSUME NEW row \in InviteType
      PROVE  [row EXCEPT !.revoked = TRUE] \in InviteType
  BY DEF InviteType
<1>5. ASSUME NEW row \in InviteType
      PROVE  [row EXCEPT !.expired = TRUE] \in InviteType
  BY DEF InviteType
<1>6. ASSUME NEW a \in Addresses, NEW role \in Roles, NEW t \in 0..MaxTokens
      PROVE  [NoInvite EXCEPT !.there = TRUE, !.email = a, !.role = role, !.token = t]
                \in InviteType
  BY <1>1 DEF InviteType
<1>7. ASSUME NEW role \in Roles, NEW i \in 0..MaxInvites
      PROVE  UserOf(role, i) \in UserType
  BY DEF UserOf, UserType
<1>8. ASSUME NEW u \in UserType, NEW b \in BOOLEAN
      PROVE  [u EXCEPT !.active = b] \in UserType
  BY DEF UserType
<1>9. ASSUME NEW u \in UserType, NEW role \in Roles
      PROVE  [u EXCEPT !.role = role] \in UserType
  BY DEF UserType
<1> QED
  BY <1>2, <1>3, <1>4, <1>5, <1>6, <1>7, <1>8, <1>9

LEMMA CommitsTyped ==
  ASSUME Typed, NEW r \in Requests, CreateCommits(r)
  PROVE  Typed'
<1>1. TypeOK /\ RowsMeant /\ Numbered /\ req[r] \in RequestType /\ req[r].pc = "commitNew"
      /\ req[r].inv <= made
  BY NumberFacts DEF Typed, CreateCommits
<1>2. PICK k : k = req[r].inv
  OBVIOUS
<1>3. PICK new : new = [NoInvite EXCEPT !.there = TRUE, !.email = req[r].email,
                                        !.role = req[r].role, !.token = req[r].token]
  OBVIOUS
<1>4. k \in Invites /\ new \in InviteType
  BY <1>1, <1>2, <1>3, Written DEF RowsMeant, WithRow, RequestType
<1>5. invites' = [i \in Invites |-> IF i = k THEN new
                                   ELSE IF i \in req[r].prev THEN [invites[i] EXCEPT !.revoked = TRUE]
                                   ELSE invites[i]]
  BY <1>2, <1>3 DEF CreateCommits
<1>6. \A i \in Invites : invites[i] \in InviteType
        /\ [invites[i] EXCEPT !.revoked = TRUE] \in InviteType
        /\ [invites[i] EXCEPT !.revoked = TRUE].there = invites[i].there
  <2>1. \A i \in Invites : invites[i] \in InviteType
    BY <1>1 DEF TypeOK
  <2>2. \A row \in InviteType : [row EXCEPT !.revoked = TRUE].there = row.there
    BY DEF InviteType
  <2>3. \A row \in InviteType : [row EXCEPT !.revoked = TRUE] \in InviteType
    BY Written
  <2> QED
    BY <2>1, <2>2, <2>3
<1>7. invites' \in [Invites -> InviteType]
  BY <1>4, <1>5, <1>6
<1>8. \A i \in Invites : invites'[i].there => i <= made
  BY <1>1, <1>2, <1>5, <1>6 DEF TypeOK
<1>9. overlaps' \subseteq SUBSET Invites
  <2>1. overlaps' = overlaps \cup {{i, k} : i \in req[r].missed}
    BY <1>2 DEF CreateCommits
  <2>2. req[r].missed \subseteq Invites
    BY <1>1 DEF RequestType
  <2> QED
    BY <1>1, <1>4, <2>1, <2>2 DEF TypeOK
<1>10. adrift' \subseteq adrift /\ UNCHANGED <<users, made, tokens, raced>>
  BY DEF CreateCommits
<1>11. TablesOK'
  BY <1>1, <1>7, <1>8, <1>9, <1>10 DEF TypeOK, TablesOK
<1>12. RequestsOK'
  <2>1. /\ req' \in [Requests -> RequestType] /\ req'[r] = Idle
        /\ \A s \in Requests : s # r =>
              req'[s].pc = req[s].pc /\ req'[s].inv = req[s].inv /\ req'[s].token = req[s].token
    BY <1>1, CommitTells
  <2>2. ASSUME NEW s \in Requests
        PROVE  /\ req'[s].inv <= made' /\ req'[s].token <= tokens'
               /\ req'[s].pc \in WithRow => req'[s].inv \in Invites
               /\ req'[s].pc \in WithToken => req'[s].token # 0
    <3>1. CASE s = r
      BY <1>10, <2>1, <3>1, IdleTyped, NumberFacts DEF WithRow, WithToken
    <3>2. CASE s # r
      BY <1>1, <1>10, <2>1, <3>2, NumberFacts DEF RowsMeant
    <3> QED
      BY <3>1, <3>2
  <2> QED
    BY <2>1, <2>2 DEF RequestsOK, RowsMeant
<1> QED
  BY <1>11, <1>12, TypedParts

\* The other commits, and the death of a request.
LEMMA EndsTyped ==
  ASSUME Typed, NEW r \in Requests,
         \/ ReissueCommits(r) \/ RevokeCommits(r) \/ ToggleCommits(r) \/ ChangeRoleCommits(r)
         \/ AcceptCommits(r) \/ Fails(r)
  PROVE  Typed'
<1>1. TypeOK /\ RowsMeant /\ Numbered /\ req[r] \in RequestType /\ made \in Nat /\ tokens \in Nat
  BY NumberFacts DEF Typed
<1>2. Done(r) /\ made' = made /\ tokens' = tokens
  BY DEF ReissueCommits, RevokeCommits, ToggleCommits, ChangeRoleCommits, AcceptCommits, Fails
<1>3. RequestsOK'
  <2>1. Idle.inv <= made' /\ Idle.token <= tokens'
    BY <1>1, <1>2, IdleTyped
  <2>2. Idle.pc \notin WithRow /\ Idle.pc \notin WithToken
    BY IdleTyped DEF WithRow, WithToken
  <2>3. Turns(r, Idle)
    BY <1>1, <1>2, DoneTurns
  <2> QED
    BY <1>1, <1>2, <2>1, <2>2, <2>3, TurnsOK
<1>4. PICK k : k = req[r].inv
  OBVIOUS
<1>5. CASE ReissueCommits(r)
  <2>1. k \in Invites /\ invites[k] \in InviteType /\ invites[k].there
    BY <1>1, <1>4, <1>5 DEF ReissueCommits, RowsMeant, WithRow, TypeOK
  <2>2. PICK row : row = [invites[k] EXCEPT !.token = req[r].token, !.expired = FALSE]
    OBVIOUS
  <2>3. row \in InviteType
    BY <1>1, <2>1, <2>2, Written DEF RequestType
  <2>4. invites' = [invites EXCEPT ![k].token = req[r].token, ![k].expired = FALSE]
    BY <1>4, <1>5 DEF ReissueCommits
  <2>5. invites' = [invites EXCEPT ![k] = row]
    BY <1>1, <2>1, <2>2, <2>4 DEF TypeOK
  <2>6. /\ invites' \in [Invites -> InviteType]
        /\ \A i \in Invites : invites'[i].there => invites[i].there
    BY <1>1, <2>1, <2>3, <2>5 DEF TypeOK
  <2>7. adrift' \subseteq adrift /\ UNCHANGED <<users, made, tokens, overlaps, raced>>
    BY <1>5 DEF ReissueCommits
  <2>8. TablesOK'
    BY <1>1, <2>6, <2>7 DEF TypeOK, TablesOK
  <2> QED
    BY <1>3, <2>8, TypedParts
<1>6. CASE RevokeCommits(r)
  <2>1. k \in Invites /\ invites[k] \in InviteType /\ invites[k].there
    BY <1>1, <1>4, <1>6 DEF RevokeCommits, RowsMeant, WithRow, TypeOK
  <2>2. invites' = [invites EXCEPT ![k] = [invites[k] EXCEPT !.revoked = TRUE]]
    BY <1>1, <1>4, <1>6, <2>1 DEF RevokeCommits, TypeOK
  <2>3. /\ invites' \in [Invites -> InviteType]
        /\ \A i \in Invites : invites'[i].there => invites[i].there
    BY <1>1, <2>1, <2>2, Written, IdleTyped DEF TypeOK, Numbered
  <2>4. UNCHANGED <<users, made, tokens, adrift, overlaps, raced>>
    BY <1>6 DEF RevokeCommits
  <2>5. TablesOK'
    BY <1>1, <2>3, <2>4 DEF TypeOK, TablesOK
  <2> QED
    BY <1>3, <2>5, TypedParts
<1>7. CASE ToggleCommits(r)
  <2>1. users' \in [Addresses -> UserType]
    <3>1. PICK b \in BOOLEAN : b = (req[r].pc = "switchOn")
      OBVIOUS
    <3>2. users' = [users EXCEPT ![req[r].email].active = b]
      BY <1>7, <3>1 DEF ToggleCommits
    <3>3. req[r].email \in Addresses
      BY <1>1 DEF RequestType
    <3>4. users' = [users EXCEPT ![req[r].email] = [users[req[r].email] EXCEPT !.active = b]]
      BY <3>2
    <3> QED
      BY <1>1, <3>1, <3>3, <3>4, Written DEF TypeOK
  <2>2. raced' \in BOOLEAN /\ UNCHANGED <<invites, made, tokens, adrift, overlaps>>
    BY <1>1, <1>7 DEF ToggleCommits, Raced, TypeOK
  <2>3. TablesOK'
    BY <1>1, <2>1, <2>2 DEF TypeOK, TablesOK
  <2> QED
    BY <1>3, <2>3, TypedParts
<1>8. CASE ChangeRoleCommits(r)
  <2>1. users' \in [Addresses -> UserType]
    BY <1>1, <1>8 DEF ChangeRoleCommits, TypeOK, RequestType, UserType
  <2>2. raced' \in BOOLEAN /\ UNCHANGED <<invites, made, tokens, adrift, overlaps>>
    BY <1>1, <1>8 DEF ChangeRoleCommits, Raced, TypeOK
  <2>3. TablesOK'
    BY <1>1, <2>1, <2>2 DEF TypeOK, TablesOK
  <2> QED
    BY <1>3, <2>3, TypedParts
<1>9. CASE AcceptCommits(r)
  <2>1. k \in Invites /\ invites[k] \in InviteType /\ invites[k].there
    BY <1>1, <1>4, <1>9 DEF AcceptCommits, RowsMeant, WithRow, TypeOK
  <2>2. PICK row : row = [invites[k] EXCEPT !.accepted = TRUE, !.token = 0]
    OBVIOUS
  <2>3. row \in InviteType
    BY <1>1, <2>1, <2>2, Written DEF RequestType
  <2>4. invites' = [invites EXCEPT ![k].accepted = TRUE, ![k].token = 0]
    BY <1>4, <1>9 DEF AcceptCommits
  <2>5. invites' = [invites EXCEPT ![k] = row]
    BY <1>1, <2>1, <2>2, <2>4 DEF TypeOK
  <2>6. /\ invites' \in [Invites -> InviteType]
        /\ \A i \in Invites : invites'[i].there => invites[i].there
    BY <1>1, <2>1, <2>3, <2>5 DEF TypeOK
  <2>7. users' \in [Addresses -> UserType]
    <3>1. UserOf(req[r].role, k) \in UserType
      BY <1>1, <1>4, Written DEF RequestType
    <3>2. users' = [users EXCEPT ![req[r].email] = UserOf(req[r].role, k)]
      BY <1>4, <1>9 DEF AcceptCommits
    <3> QED
      BY <1>1, <3>1, <3>2 DEF TypeOK
  <2>8. UNCHANGED <<made, tokens, adrift, overlaps, raced>>
    BY <1>9 DEF AcceptCommits
  <2>9. TablesOK'
    BY <1>1, <2>6, <2>7, <2>8 DEF TypeOK, TablesOK
  <2> QED
    BY <1>3, <2>9, TypedParts
<1>10. CASE Fails(r)
  <2>1. adrift' \subseteq adrift /\ UNCHANGED <<users, invites, made, tokens, overlaps, raced>>
    BY <1>10 DEF Fails
  <2>2. TablesOK'
    BY <1>1, <2>1 DEF TypeOK, TablesOK
  <2> QED
    BY <1>3, <2>2, TypedParts
<1> QED
  BY <1>5, <1>6, <1>7, <1>8, <1>9, <1>10

LEMMA OutsideTyped ==
  ASSUME Typed,
         \/ \E a \in Addresses, role \in Roles : CliCreateUser(a, role)
         \/ \E i \in Invites : Expires(i) \/ CleanupInvite(i)
  PROVE  Typed'
<1>1. TypeOK /\ Numbered
  BY NumberFacts DEF Typed
<1>2. CASE \E a \in Addresses, role \in Roles : CliCreateUser(a, role)
  <2>1. PICK a \in Addresses, role \in Roles : CliCreateUser(a, role)
    BY <1>2
  <2>2. UserOf(role, 0) \in UserType
    <3>1. 0 \in 0..MaxInvites
      BY <1>1 DEF Numbered
    <3> QED
      BY <3>1, Written
  <2>3. users' \in [Addresses -> UserType]
        /\ UNCHANGED <<invites, made, tokens, req, adrift, overlaps, raced>>
    BY <1>1, <2>1, <2>2 DEF CliCreateUser, TypeOK
  <2> QED
    BY <2>3 DEF Typed, TypeOK, RowsMeant
<1>3. CASE \E i \in Invites : Expires(i) \/ CleanupInvite(i)
  <2>1. PICK i \in Invites : Expires(i) \/ CleanupInvite(i)
    BY <1>3
  <2>2. invites[i] \in InviteType /\ [invites[i] EXCEPT !.expired = TRUE] \in InviteType
    BY <1>1, <2>1, Written DEF TypeOK, Numbered
  <2>3. PICK row \in InviteType :
            /\ invites' = [invites EXCEPT ![i] = row]
            /\ row.there => invites[i].there
    <3>1. CASE Expires(i)
      BY <1>1, <2>1, <2>2, <3>1 DEF Expires, TypeOK
    <3>2. CASE CleanupInvite(i)
      BY <2>1, <3>2, IdleTyped DEF CleanupInvite
    <3> QED
      BY <2>1, <3>1, <3>2
  <2>4. UNCHANGED <<users, made, tokens, req, adrift, overlaps, raced>>
    BY <2>1 DEF Expires, CleanupInvite
  <2>5. /\ invites' \in [Invites -> InviteType]
        /\ \A j \in Invites : invites'[j].there => j <= made
    BY <1>1, <2>1, <2>3 DEF TypeOK
  <2> QED
    BY <2>4, <2>5 DEF Typed, TypeOK, RowsMeant
<1> QED
  BY <1>2, <1>3

LEMMA TypedInit ==
  ASSUME Init
  PROVE  Typed
<1>1. Numbered /\ UserOf("admin", 0) \in UserType
  <2>1. Numbered /\ "admin" \in Roles /\ 0 \in 0..MaxInvites
    BY IdleTyped DEF Numbered, Roles
  <2> QED
    BY <2>1, Written
<1>2. TablesOK
  <2>1. users \in [Addresses -> UserType]
    BY <1>1, IdleTyped DEF Init
  <2>2. invites \in [Invites -> InviteType] /\ \A i \in Invites : ~invites[i].there
    BY IdleTyped DEF Init
  <2>3. made \in 0..MaxInvites /\ tokens \in 0..MaxTokens
    BY <1>1 DEF Init, Numbered
  <2> QED
    BY <2>1, <2>2, <2>3 DEF Init, TablesOK
<1>3. RequestsOK
  BY <1>1, IdleTyped DEF Init, RequestsOK, RowsMeant, WithRow, WithToken
<1> QED
  BY <1>2, <1>3, TypedParts

LEMMA TypedNext ==
  ASSUME Typed, [Next]_vars
  PROVE  Typed'
<1>1. CASE UNCHANGED vars
  BY <1>1 DEF vars, Typed, TypeOK, RowsMeant
<1>2. ASSUME NEW r \in Requests, AdminStep(r) \/ AcceptStep(r) \/ Fails(r) PROVE Typed'
  BY <1>2, ReadingTyped, NumberingTyped, CommitsTyped, EndsTyped DEF AdminStep, AcceptStep
<1> QED
  BY <1>1, <1>2, OutsideTyped DEF Next

\* Every state has its type, and nothing is meant that was not numbered.
THEOREM Types == Spec => []TypeOK
<1>1. Init => Typed
  BY TypedInit
<1>2. Typed /\ [Next]_vars => Typed'
  BY TypedNext
<1>3. Typed => TypeOK
  BY DEF Typed
<1> QED
  BY <1>1, <1>2, <1>3, PTL DEF Spec

-------------------------------------------------------------------------------
(* How requests, rows and accounts move.                                    *)

Steps(r) == AdminStep(r) \/ AcceptStep(r) \/ Fails(r)

Fresh    == {"mailNew", "commitNew"}
Changing == {"switchOff", "switchOn", "changeRole"}
Inviting == {"flush", "mailNew", "commitNew"}

\* A request that takes no step keeps everything but what it has missed.
Alike(s) ==
    /\ req'[s].pc = req[s].pc /\ req'[s].inv = req[s].inv /\ req'[s].token = req[s].token
    /\ req'[s].email = req[s].email /\ req'[s].actor = req[s].actor
    /\ req'[s].prev = req[s].prev /\ req[s].missed \subseteq req'[s].missed

\* Where the row that a request means comes from.
InvFrom(r) ==
    \/ req'[r].inv = req[r].inv
    \/ req'[r].inv = 0
    \/ CreateFlushes(r) /\ req'[r].inv = made + 1
    \/ req'[r].inv \in Invites /\ invites[req'[r].inv].there

SameInvite(r) ==
    req'[r].email = req[r].email /\ req'[r].prev = req[r].prev /\ req'[r].missed = req[r].missed

\* How a request comes to where it writes.
Moved(r) ==
    /\ InvFrom(r)
    /\ req'[r].pc \in Fresh =>
          \/ CreateFlushes(r) /\ SameInvite(r)
          \/ req[r].pc \in Fresh /\ req'[r].inv = req[r].inv /\ SameInvite(r)
    /\ req'[r].pc = "flush" => CreateReads(r) /\ req'[r].email = req[r].email
          /\ req'[r].prev = {i \in Invites : Pending(i) /\ invites[i].email = req[r].email}
    /\ req'[r].pc = "accept" => \E i \in Invites : AcceptArrives(r, i)
    /\ req'[r].pc = "accepted" => AcceptInserts(r) /\ req[r].pc = "accept"
                                  /\ req'[r].inv = req[r].inv /\ req'[r].email = req[r].email
    /\ req'[r].pc \in Changing => req'[r].email # req'[r].actor

LEMMA OthersStay ==
  ASSUME Typed, NEW r \in Requests, Steps(r), NEW s \in Requests, s # r
  PROVE  Alike(s)
<1>1. TypeOK /\ RowsMeant /\ req \in [Requests -> RequestType]
  BY DEF Typed, TypeOK
<1>2. CASE CreateCommits(r)
  BY <1>1, <1>2, CommitTells DEF Alike
<1>3. ASSUME NEW q, Turns(r, q) PROVE Alike(s)
  BY <1>1, <1>3, TurnsMean DEF Alike
<1>4. CASE ~CreateCommits(r)
  <2>1. CASE AdminStep(r)
    <3>1. CASE \E a \in Addresses : AdminArrives(r, a) \/ Toggle(r, a)
      BY <1>1, <1>3, <3>1, ArrivalsTurn, OthersTurn
    <3>2. CASE \E a \in Addresses, role \in Roles : CreateChecks(r, a, role) \/ ChangeRole(r, a, role)
      BY <1>1, <1>3, <3>2, ArrivalsTurn, OthersTurn
    <3>3. CASE CreateReads(r) \/ CreateFlushes(r)
      BY <1>1, <1>3, <3>3, CreatesTurn
    <3>4. CASE \E i \in Invites : Reissue(r, i) \/ Revoke(r, i)
      BY <1>1, <1>3, <3>4, ArrivalsTurn
    <3>5. CASE MailSent(r) \/ \E arrived \in BOOLEAN : MailFailed(r, arrived)
      BY <1>1, <1>3, <3>5, OthersTurn
    <3>6. CASE Refused(r) \/ ReissueCommits(r) \/ RevokeCommits(r) \/ ToggleCommits(r)
               \/ ChangeRoleCommits(r)
      BY <1>1, <1>3, <3>6, DoneTurns DEF Refused, ReissueCommits, RevokeCommits, ToggleCommits,
         ChangeRoleCommits
    <3> QED
      BY <1>4, <2>1, <3>1, <3>2, <3>3, <3>4, <3>5, <3>6 DEF AdminStep
  <2>2. CASE AcceptStep(r)
    <3>1. CASE \E i \in Invites : AcceptArrives(r, i)
      BY <1>1, <1>3, <3>1, ArrivalsTurn
    <3>2. CASE AcceptInserts(r)
      BY <1>1, <1>3, <3>2, OthersTurn
    <3>3. CASE AcceptTaken(r) \/ AcceptCommits(r)
      BY <1>1, <1>3, <3>3, DoneTurns DEF AcceptTaken, AcceptCommits
    <3> QED
      BY <2>2, <3>1, <3>2, <3>3 DEF AcceptStep
  <2>3. CASE Fails(r)
    BY <1>1, <1>3, <2>3, DoneTurns DEF Fails
  <2> QED
    BY <2>1, <2>2, <2>3 DEF Steps
<1> QED
  BY <1>2, <1>4

LEMMA RequestMoves ==
  ASSUME Typed, NEW r \in Requests, Steps(r)
  PROVE  Moved(r)
<1>1. TypeOK /\ RowsMeant /\ req \in [Requests -> RequestType]
  BY DEF Typed, TypeOK
<1>2. ASSUME NEW q, Turns(r, q) PROVE req'[r] = q
  BY <1>1, <1>2, TurnsMean
<1>3. CASE req'[r] = Idle
  BY <1>3, IdleTyped DEF Moved, InvFrom, Fresh, Changing
<1>4. CASE \E a \in Addresses : AdminArrives(r, a)
  <2>1. PICK a \in Addresses : AdminArrives(r, a)
    BY <1>4
  <2>2. req'[r] = Administers(a) /\ Administers(a).pc = "admin" /\ Administers(a).inv = 0
    BY <1>1, <1>2, <2>1, ArrivalsTurn
  <2> QED
    BY <2>2 DEF Moved, InvFrom, Fresh, Changing
<1>5. CASE \E a \in Addresses, role \in Roles : CreateChecks(r, a, role)
  <2>1. PICK a \in Addresses, role \in Roles : CreateChecks(r, a, role)
    BY <1>5
  <2>2. req'[r] = Creates(a, role) /\ Creates(a, role).pc = "previous" /\ Creates(a, role).inv = 0
    BY <1>1, <1>2, <2>1, ArrivalsTurn
  <2> QED
    BY <2>2 DEF Moved, InvFrom, Fresh, Changing
<1>6. CASE \E i \in Invites : Reissue(r, i)
  <2>1. PICK i \in Invites : Reissue(r, i)
    BY <1>6
  <2>2. req'[r] = SendsAgain(i) /\ SendsAgain(i).pc = "mailAgain" /\ SendsAgain(i).inv = i
    BY <1>1, <1>2, <2>1, ArrivalsTurn
  <2>3. invites[i].there
    BY <2>1 DEF Reissue, Pending
  <2> QED
    BY <2>2, <2>3 DEF Moved, InvFrom, Fresh, Changing
<1>7. CASE \E i \in Invites : Revoke(r, i)
  <2>1. PICK i \in Invites : Revoke(r, i)
    BY <1>7
  <2>2. req'[r] = Revokes(i) /\ Revokes(i).pc = "revoking" /\ Revokes(i).inv = i
    BY <1>1, <1>2, <2>1, ArrivalsTurn
  <2>3. invites[i].there
    BY <2>1 DEF Revoke, Pending
  <2> QED
    BY <2>2, <2>3 DEF Moved, InvFrom, Fresh, Changing
<1>8. CASE \E i \in Invites : AcceptArrives(r, i)
  <2>1. PICK i \in Invites : AcceptArrives(r, i)
    BY <1>8
  <2>2. req'[r] = AcceptsIt(i) /\ AcceptsIt(i).pc = "accept" /\ AcceptsIt(i).inv = i
        /\ AcceptsIt(i).email = invites[i].email
    BY <1>1, <1>2, <2>1, ArrivalsTurn
  <2>3. invites[i].there
    BY <2>1 DEF AcceptArrives, Working, Pending
  <2> QED
    BY <1>8, <2>2, <2>3 DEF Moved, InvFrom, Fresh, Changing
<1>9. CASE CreateReads(r)
  <2>1. req'[r] = HasRead(r) /\ HasRead(r).pc = "flush" /\ HasRead(r).inv = req[r].inv
        /\ HasRead(r).email = req[r].email
        /\ HasRead(r).prev = {i \in Invites : Pending(i) /\ invites[i].email = req[r].email}
    BY <1>1, <1>2, <1>9, CreatesTurn
  <2> QED
    BY <1>9, <2>1 DEF Moved, InvFrom, Fresh, Changing
<1>10. CASE CreateFlushes(r)
  <2>1. req'[r] = HasFlushed(r) /\ HasFlushed(r).pc = "mailNew" /\ HasFlushed(r).inv = made + 1
        /\ HasFlushed(r).email = req[r].email /\ HasFlushed(r).prev = req[r].prev
        /\ HasFlushed(r).missed = req[r].missed
    BY <1>1, <1>2, <1>10, CreatesTurn
  <2> QED
    BY <1>10, <2>1 DEF Moved, InvFrom, Fresh, Changing, SameInvite
<1>11. CASE MailSent(r) \/ \E arrived \in BOOLEAN : MailFailed(r, arrived)
  <2>1. req'[r] = HasMailed(r) /\ HasMailed(r).pc \in {"commitNew", "commitAgain"}
        /\ (HasMailed(r).pc = "commitNew" <=> req[r].pc = "mailNew")
        /\ HasMailed(r).inv = req[r].inv
        /\ HasMailed(r).email = req[r].email /\ HasMailed(r).prev = req[r].prev
        /\ HasMailed(r).missed = req[r].missed
    BY <1>1, <1>2, <1>11, OthersTurn
  <2> QED
    BY <2>1 DEF Moved, InvFrom, Fresh, Changing, SameInvite
<1>12. CASE \E a \in Addresses : Toggle(r, a)
  <2>1. PICK a \in Addresses : Toggle(r, a)
    BY <1>12
  <2>2. req'[r] = Switches(r, a) /\ Switches(r, a).pc \in {"switchOff", "switchOn"}
        /\ Switches(r, a).inv = req[r].inv
        /\ Switches(r, a).email = a /\ Switches(r, a).actor = req[r].actor
    BY <1>1, <1>2, <2>1, OthersTurn
  <2>3. a # req[r].actor
    BY <2>1 DEF Toggle, MayChange
  <2> QED
    BY <2>2, <2>3 DEF Moved, InvFrom, Fresh
<1>13. CASE \E a \in Addresses, role \in Roles : ChangeRole(r, a, role)
  <2>1. PICK a \in Addresses, role \in Roles : ChangeRole(r, a, role)
    BY <1>13
  <2>2. req'[r] = Promotes(r, a, role) /\ Promotes(r, a, role).pc = "changeRole"
        /\ Promotes(r, a, role).inv = req[r].inv
        /\ Promotes(r, a, role).email = a /\ Promotes(r, a, role).actor = req[r].actor
    BY <1>1, <1>2, <2>1, OthersTurn
  <2>3. a # req[r].actor
    BY <2>1 DEF ChangeRole, MayChange
  <2> QED
    BY <2>2, <2>3 DEF Moved, InvFrom, Fresh
<1>14. CASE AcceptInserts(r)
  <2>1. req'[r] = HasInserted(r) /\ HasInserted(r).pc = "accepted"
        /\ HasInserted(r).inv = req[r].inv /\ HasInserted(r).email = req[r].email
    BY <1>1, <1>2, <1>14, OthersTurn
  <2>2. req[r].pc = "accept"
    BY <1>14 DEF AcceptInserts
  <2> QED
    BY <1>14, <2>1, <2>2 DEF Moved, InvFrom, Fresh, Changing
<1>15. CASE CreateCommits(r)
  BY <1>1, <1>3, <1>15, CommitTells
<1>16. CASE Refused(r) \/ ReissueCommits(r) \/ RevokeCommits(r) \/ ToggleCommits(r)
            \/ ChangeRoleCommits(r) \/ AcceptTaken(r) \/ AcceptCommits(r) \/ Fails(r)
  BY <1>1, <1>2, <1>3, <1>16, DoneTurns DEF Refused, ReissueCommits, RevokeCommits, ToggleCommits,
     ChangeRoleCommits, AcceptTaken, AcceptCommits, Fails
<1>17. CASE AdminStep(r)
  BY <1>4, <1>5, <1>6, <1>7, <1>9, <1>10, <1>11, <1>12, <1>13, <1>15, <1>16, <1>17 DEF AdminStep
<1>18. CASE AcceptStep(r)
  BY <1>8, <1>14, <1>16, <1>18 DEF AcceptStep
<1> QED
  BY <1>16, <1>17, <1>18 DEF Steps

\* A row keeps its identity: what is over stays over.
Kept(i) ==
    /\ invites'[i].there = invites[i].there /\ invites'[i].email = invites[i].email
    /\ invites'[i].accepted = invites[i].accepted
    /\ Pending(i)' => Pending(i)

Cleaned(i) == invites'[i].there = FALSE

\* The row of a commit, with its predecessors revoked.
Inserted(i, r) ==
    /\ CreateCommits(r) /\ i = req[r].inv
    /\ invites'[i].there = TRUE /\ invites'[i].email = req[r].email
    /\ invites'[i].accepted = FALSE

Accepted(i, r) ==
    /\ AcceptCommits(r) /\ i = req[r].inv
    /\ invites[i].there /\ invites'[i].there = TRUE /\ invites'[i].email = invites[i].email
    /\ invites'[i].accepted = TRUE

LEMMA RowMoves ==
  ASSUME Typed, [Next]_vars, NEW i \in Invites
  PROVE  \/ Kept(i) \/ Cleaned(i)
         \/ \E r \in Requests : Inserted(i, r) \/ Accepted(i, r)
<1>1. TypeOK /\ RowsMeant /\ invites \in [Invites -> InviteType] /\ invites[i] \in InviteType
  BY DEF Typed, TypeOK
<1>2. CASE invites' = invites
  BY <1>2 DEF Kept, Pending
<1>3. ASSUME NEW r \in Requests, CreateCommits(r)
      PROVE  Kept(i) \/ Inserted(i, r)
  <2>1. PICK new : new = [NoInvite EXCEPT !.there = TRUE, !.email = req[r].email,
                                          !.role = req[r].role, !.token = req[r].token]
    OBVIOUS
  <2>2. new.there = TRUE /\ new.email = req[r].email /\ new.accepted = FALSE
    BY <2>1 DEF NoInvite
  <2>3. invites'[i] = IF i = req[r].inv THEN new
                      ELSE IF i \in req[r].prev THEN [invites[i] EXCEPT !.revoked = TRUE]
                      ELSE invites[i]
    BY <1>3, <2>1 DEF CreateCommits
  <2>4. CASE i = req[r].inv
    BY <1>3, <2>2, <2>3, <2>4 DEF Inserted
  <2>5. CASE i # req[r].inv /\ i \in req[r].prev
    <3>1. invites'[i] = [invites[i] EXCEPT !.revoked = TRUE]
      BY <2>3, <2>5
    <3>2. /\ invites'[i].there = invites[i].there /\ invites'[i].email = invites[i].email
          /\ invites'[i].accepted = invites[i].accepted /\ invites'[i].revoked = TRUE
      BY <1>1, <3>1 DEF InviteType
    <3> QED
      BY <3>2 DEF Kept, Pending
  <2>6. CASE i # req[r].inv /\ i \notin req[r].prev
    BY <2>3, <2>6 DEF Kept, Pending
  <2> QED
    BY <2>4, <2>5, <2>6
<1>4. ASSUME NEW r \in Requests, ReissueCommits(r) PROVE Kept(i)
  <2>1. PICK k : k = req[r].inv
    OBVIOUS
  <2>2. invites' = [invites EXCEPT ![k].token = req[r].token, ![k].expired = FALSE]
    BY <1>4, <2>1 DEF ReissueCommits
  <2>3. /\ invites'[i].there = invites[i].there /\ invites'[i].email = invites[i].email
        /\ invites'[i].accepted = invites[i].accepted /\ invites'[i].revoked = invites[i].revoked
    BY <1>1, <2>2 DEF InviteType
  <2> QED
    BY <2>3 DEF Kept, Pending
<1>5. ASSUME NEW r \in Requests, RevokeCommits(r) PROVE Kept(i)
  <2>1. PICK k : k = req[r].inv
    OBVIOUS
  <2>2. invites' = [invites EXCEPT ![k].revoked = TRUE]
    BY <1>5, <2>1 DEF RevokeCommits
  <2>3. /\ invites'[i].there = invites[i].there /\ invites'[i].email = invites[i].email
        /\ invites'[i].accepted = invites[i].accepted
        /\ (invites'[i].revoked = invites[i].revoked \/ invites'[i].revoked = TRUE)
    BY <1>1, <2>2 DEF InviteType
  <2> QED
    BY <2>3 DEF Kept, Pending
<1>6. ASSUME NEW r \in Requests, AcceptCommits(r) PROVE Kept(i) \/ Accepted(i, r)
  <2>1. PICK k : k = req[r].inv
    OBVIOUS
  <2>2. invites' = [invites EXCEPT ![k].accepted = TRUE, ![k].token = 0] /\ invites[k].there
    BY <1>6, <2>1 DEF AcceptCommits
  <2>3. CASE i = k
    <3>1. invites'[i].there = invites[i].there /\ invites'[i].email = invites[i].email
          /\ invites'[i].accepted = TRUE
      BY <1>1, <2>2, <2>3 DEF InviteType
    <3>2. invites[i].there = TRUE
      BY <1>1, <2>2, <2>3 DEF InviteType
    <3> QED
      BY <1>6, <2>1, <2>3, <3>1, <3>2 DEF Accepted
  <2>4. CASE i # k
    BY <1>1, <2>2, <2>4 DEF Kept, Pending
  <2> QED
    BY <2>3, <2>4
<1>7. ASSUME NEW j \in Invites, Expires(j) PROVE Kept(i)
  <2>1. invites' = [invites EXCEPT ![j].expired = TRUE]
    BY <1>7 DEF Expires
  <2>2. /\ invites'[i].there = invites[i].there /\ invites'[i].email = invites[i].email
        /\ invites'[i].accepted = invites[i].accepted /\ invites'[i].revoked = invites[i].revoked
    BY <1>1, <2>1 DEF InviteType
  <2> QED
    BY <2>2 DEF Kept, Pending
<1>8. ASSUME NEW j \in Invites, CleanupInvite(j) PROVE Kept(i) \/ Cleaned(i)
  <2>1. invites' = [invites EXCEPT ![j] = NoInvite]
    BY <1>8 DEF CleanupInvite
  <2> QED
    BY <1>1, <2>1, IdleTyped DEF Kept, Pending, Cleaned
<1>9. CASE UNCHANGED vars
  BY <1>2, <1>9 DEF vars
<1>10. ASSUME NEW a \in Addresses, NEW role \in Roles, CliCreateUser(a, role) PROVE Kept(i)
  BY <1>2, <1>10 DEF CliCreateUser, Kept, Pending
<1>11. ASSUME NEW r \in Requests, AdminStep(r)
       PROVE  Kept(i) \/ Inserted(i, r)
  <2>1. CASE ~CreateCommits(r) /\ ~ReissueCommits(r) /\ ~RevokeCommits(r)
    <3>1. invites' = invites
      BY <1>11, <2>1 DEF AdminStep, AdminArrives, Toggle, Refused, CreateChecks, ChangeRole,
         CreateReads, CreateFlushes, Reissue, Revoke, MailSent, MailFailed, ToggleCommits,
         ChangeRoleCommits
    <3> QED
      BY <3>1 DEF Kept, Pending
  <2> QED
    BY <1>3, <1>4, <1>5, <2>1
<1>12. ASSUME NEW r \in Requests, AcceptStep(r)
       PROVE  Kept(i) \/ Accepted(i, r)
  <2>1. CASE ~AcceptCommits(r)
    <3>1. invites' = invites
      BY <1>12, <2>1 DEF AcceptStep, AcceptArrives, AcceptInserts, AcceptTaken
    <3> QED
      BY <3>1 DEF Kept, Pending
  <2> QED
    BY <1>6, <2>1
<1>13. ASSUME NEW r \in Requests, Fails(r) PROVE Kept(i)
  BY <1>13 DEF Fails, Kept, Pending
<1> QED
  BY <1>7, <1>8, <1>9, <1>10, <1>11, <1>12, <1>13 DEF Next, Kept, Pending, vars

\* An account stays what it is, or is changed, or is made.
Changed(a) == users'[a].exists = users[a].exists /\ users'[a].via = users[a].via

LEMMA UserMoves ==
  ASSUME Typed, [Next]_vars, NEW a \in Addresses
  PROVE  \/ Changed(a)
         \/ \E r \in Requests : /\ AcceptCommits(r) /\ a = req[r].email
                                /\ users'[a].exists = TRUE /\ users'[a].via = req[r].inv
         \/ \E role \in Roles : /\ CliCreateUser(a, role)
                                /\ users'[a].exists = TRUE /\ users'[a].via = 0
<1>1. TypeOK /\ users \in [Addresses -> UserType] /\ users[a] \in UserType
  BY DEF Typed, TypeOK
<1>2. ASSUME users' = users PROVE Changed(a)
  BY <1>2 DEF Changed
<1>3. ASSUME NEW r \in Requests, ToggleCommits(r) PROVE Changed(a)
  <2>1. PICK b : b = (req[r].pc = "switchOn")
    OBVIOUS
  <2>2. PICK e : e = req[r].email
    OBVIOUS
  <2>3. users' = [users EXCEPT ![e].active = b]
    BY <1>3, <2>1, <2>2 DEF ToggleCommits
  <2> QED
    BY <1>1, <2>3 DEF Changed, UserType
<1>4. ASSUME NEW r \in Requests, ChangeRoleCommits(r) PROVE Changed(a)
  <2>1. PICK e : e = req[r].email
    OBVIOUS
  <2>2. users' = users \/ users' = [users EXCEPT ![e].role = req[r].role]
    BY <1>4, <2>1 DEF ChangeRoleCommits
  <2>3. CASE users' = [users EXCEPT ![e].role = req[r].role]
    BY <1>1, <2>3 DEF Changed, UserType
  <2> QED
    BY <1>2, <2>2, <2>3
<1>5. ASSUME NEW r \in Requests, AcceptCommits(r)
      PROVE  \/ Changed(a)
             \/ /\ a = req[r].email
                /\ users'[a].exists = TRUE /\ users'[a].via = req[r].inv
  <2>1. PICK e : e = req[r].email
    OBVIOUS
  <2>2. PICK new : new = UserOf(req[r].role, req[r].inv)
    OBVIOUS
  <2>3. users' = [users EXCEPT ![e] = new] /\ new.exists = TRUE /\ new.via = req[r].inv
    BY <1>5, <2>1, <2>2 DEF AcceptCommits, UserOf
  <2> QED
    BY <1>1, <2>1, <2>3 DEF Changed
<1>6. ASSUME NEW b \in Addresses, NEW role \in Roles, CliCreateUser(b, role)
      PROVE  Changed(a) \/ (a = b /\ users'[a].exists = TRUE /\ users'[a].via = 0)
  <2>1. PICK new : new = UserOf(role, 0)
    OBVIOUS
  <2>2. users' = [users EXCEPT ![b] = new] /\ new.exists = TRUE /\ new.via = 0
    BY <1>6, <2>1 DEF CliCreateUser, UserOf
  <2> QED
    BY <1>1, <2>2 DEF Changed
<1>7. ASSUME NEW r \in Requests, AdminStep(r) PROVE Changed(a)
  <2>1. CASE ~ToggleCommits(r) /\ ~ChangeRoleCommits(r)
    BY <1>2, <1>7, <2>1 DEF AdminStep, AdminArrives, Toggle, Refused, CreateChecks, ChangeRole,
       CreateReads, CreateFlushes, CreateCommits, Reissue, Revoke, ReissueCommits, MailSent,
       MailFailed, RevokeCommits
  <2> QED
    BY <1>3, <1>4, <2>1
<1>8. ASSUME NEW r \in Requests, AcceptStep(r), ~AcceptCommits(r) PROVE Changed(a)
  BY <1>2, <1>8 DEF AcceptStep, AcceptArrives, AcceptInserts, AcceptTaken
<1>9. CASE \/ UNCHANGED vars
           \/ \E r \in Requests : Fails(r)
           \/ \E i \in Invites : Expires(i) \/ CleanupInvite(i)
  BY <1>2, <1>9 DEF vars, Fails, Expires, CleanupInvite
<1>10. ASSUME NEW r \in Requests, AdminStep(r) \/ AcceptStep(r)
       PROVE  \/ Changed(a)
              \/ /\ AcceptCommits(r) /\ a = req[r].email
                 /\ users'[a].exists = TRUE /\ users'[a].via = req[r].inv
  BY <1>5, <1>7, <1>8, <1>10
<1> QED
  BY <1>6, <1>9, <1>10 DEF Next

\* The rest of a step: nobody's request moves.
LEMMA WhoSteps ==
  ASSUME [Next]_vars
  PROVE  (\E r \in Requests : Steps(r)) \/ req' = req
BY DEF Next, Steps, vars, CliCreateUser, Expires, CleanupInvite

-------------------------------------------------------------------------------
(* Who is about to make which row and which account.                        *)

\* A row that is not committed is of one request, and nobody knows it.
FreshInv ==
    \A r \in Requests : req[r].pc \in Fresh =>
        /\ ~invites[req[r].inv].there
        /\ \A a \in Addresses : users[a].via # req[r].inv
        /\ \A s \in Requests : s # r => req[s].inv # req[r].inv

\* An account that is being inserted is not there, and is inserted by one request.
SeatsInv ==
    /\ \A r \in Requests : req[r].pc = "accepted" => ~users[req[r].email].exists
    /\ \A r, s \in Requests :
          r # s /\ req[r].pc = "accepted" /\ req[s].pc = "accepted"
              => req[r].email # req[s].email
    /\ \A a \in Addresses : /\ users[a].via <= made
                            /\ ~users[a].exists => users[a].via = 0

Base == Typed /\ FreshInv /\ SeatsInv

LEMMA MadeGrows ==
  ASSUME Typed, [Next]_vars
  PROVE  made' = made \/ (made' = made + 1 /\ \E r \in Requests : CreateFlushes(r))
<1>1. ASSUME NEW r \in Requests, AdminStep(r)
      PROVE  made' = made \/ (made' = made + 1 /\ CreateFlushes(r))
  BY <1>1 DEF AdminStep, AdminArrives, Toggle, Refused, CreateChecks, ChangeRole,
     CreateReads, CreateFlushes, CreateCommits, Reissue, Revoke, ReissueCommits, MailSent,
     MailFailed, RevokeCommits, ToggleCommits, ChangeRoleCommits
<1>2. ASSUME NEW r \in Requests, AcceptStep(r) \/ Fails(r)
      PROVE  made' = made
  BY <1>2 DEF AcceptStep, AcceptArrives, AcceptInserts, AcceptTaken, AcceptCommits, Fails
<1> QED
  BY <1>1, <1>2 DEF Next, vars, CliCreateUser, Expires, CleanupInvite

LEMMA InvOf ==
  ASSUME Typed, [Next]_vars, NEW s \in Requests
  PROVE  InvFrom(s)
<1>1. CASE req' = req
  BY <1>1 DEF InvFrom
<1>2. ASSUME NEW r \in Requests, Steps(r) PROVE InvFrom(s)
  <2>1. CASE s = r
    BY <1>2, <2>1, RequestMoves DEF Moved
  <2>2. CASE s # r
    BY <1>2, <2>2, OthersStay DEF Alike, InvFrom
  <2> QED
    BY <2>1, <2>2
<1> QED
  BY <1>1, <1>2, WhoSteps

\* Only one request flushes in a step.
LEMMA OneFlushes ==
  ASSUME Typed, NEW r \in Requests, NEW s \in Requests, CreateFlushes(r), CreateFlushes(s)
  PROVE  r = s
<1> SUFFICES ASSUME r # s PROVE FALSE
  OBVIOUS
<1>1. Steps(r)
  BY DEF Steps, AdminStep
<1>2. Alike(s)
  BY <1>1, OthersStay
<1>3. req'[s] = HasFlushed(s) /\ HasFlushed(s).pc = "mailNew"
  BY CreatesTurn, TurnsMean DEF Typed
<1>4. req[s].pc = "flush"
  BY DEF CreateFlushes
<1> QED
  BY <1>2, <1>3, <1>4 DEF Alike

LEMMA FreshNext ==
  ASSUME Base, [Next]_vars, NEW r \in Requests, req'[r].pc \in Fresh
  PROVE  /\ ~invites'[req'[r].inv].there
         /\ \A a \in Addresses : users'[a].via # req'[r].inv
         /\ \A s \in Requests : s # r => req'[s].inv # req'[r].inv
<1>1. Typed /\ TypeOK /\ RowsMeant /\ FreshInv /\ SeatsInv /\ made \in Nat
  BY NumberFacts DEF Base, Typed
<1>2. Typed'
  BY <1>1, TypedNext
<1>3. req'[r].inv \in Invites /\ Invites \subseteq Nat \ {0}
  <2>1. req'[r].inv \in Invites
    BY <1>2 DEF Typed, RowsMeant, Fresh, WithRow
  <2> QED
    BY <2>1 DEF Invites
<1>4. CASE CreateFlushes(r)
  <2>1. req'[r].inv = made + 1
    BY <1>1, <1>4, CreatesTurn, TurnsMean
  <2>2. invites' = invites /\ users' = users
    BY <1>4 DEF CreateFlushes
  <2>3. ~invites[made + 1].there
    BY <1>1, <1>3, <2>1 DEF TypeOK
  <2>4. \A a \in Addresses : users[a].via # made + 1
    BY <1>1 DEF SeatsInv, TypeOK, UserType
  <2>5. ASSUME NEW s \in Requests, s # r PROVE req'[s].inv # made + 1
    <3>1. Steps(r)
      BY <1>4 DEF Steps, AdminStep
    <3>2. req'[s].inv = req[s].inv
      BY <1>1, <2>5, <3>1, OthersStay DEF Alike
    <3> QED
      BY <1>1, <3>2, NumberFacts
  <2> QED
    BY <2>1, <2>2, <2>3, <2>4, <2>5
<1>5. CASE ~CreateFlushes(r)
  <2>1. req[r].pc \in Fresh /\ req'[r].inv = req[r].inv
    <3>1. CASE req' = req
      BY <3>1
    <3>2. CASE Steps(r)
      BY <1>1, <1>5, <3>2, RequestMoves DEF Moved
    <3>3. ASSUME NEW s \in Requests, Steps(s), s # r
          PROVE  req[r].pc \in Fresh /\ req'[r].inv = req[r].inv
      BY <1>1, <3>3, OthersStay DEF Alike
    <3> QED
      BY <3>1, <3>2, <3>3, WhoSteps
  <2>2. PICK k \in Invites : k = req[r].inv /\ k = req'[r].inv
    BY <1>3, <2>1
  <2>3. /\ ~invites[k].there /\ k <= made
        /\ \A a \in Addresses : users[a].via # k
        /\ \A s \in Requests : s # r => req[s].inv # k
    BY <1>1, <2>1, <2>2, NumberFacts DEF FreshInv
  <2>4. ~CreateCommits(r)
    <3>1. Idle.pc \notin Fresh
      BY IdleTyped DEF Fresh
    <3> QED
      BY <1>1, <3>1, CommitTells
  <2>5. ~invites'[k].there
    <3>1. CASE Kept(k)
      BY <2>3, <3>1 DEF Kept
    <3>2. CASE Cleaned(k)
      BY <3>2 DEF Cleaned
    <3>3. ASSUME NEW s \in Requests, Inserted(k, s) PROVE FALSE
      BY <2>3, <2>4, <3>3 DEF Inserted
    <3>4. ASSUME NEW s \in Requests, Accepted(k, s) PROVE FALSE
      BY <2>3, <3>4 DEF Accepted
    <3> QED
      BY <1>1, <3>1, <3>2, <3>3, <3>4, RowMoves
  <2>6. ASSUME NEW a \in Addresses PROVE users'[a].via # k
    <3>1. CASE Changed(a)
      BY <2>3, <3>1 DEF Changed
    <3>2. ASSUME NEW s \in Requests, AcceptCommits(s) PROVE req[s].inv # k
      BY <2>3, <3>2 DEF AcceptCommits
    <3>3. 0 # k
      BY <1>3
    <3> QED
      BY <1>1, <3>1, <3>2, <3>3, UserMoves
  <2>7. ASSUME NEW s \in Requests, s # r PROVE req'[s].inv # k
    <3>1. req[s].inv # k /\ 0 # k /\ made + 1 # k
      BY <1>1, <1>3, <2>3, <2>7
    <3>2. InvFrom(s)
      BY <1>1, InvOf
    <3> QED
      BY <2>3, <3>1, <3>2 DEF InvFrom
  <2> QED
    BY <2>2, <2>5, <2>6, <2>7
<1> QED
  BY <1>4, <1>5

LEMMA SeatsNext ==
  ASSUME Base, [Next]_vars
  PROVE  SeatsInv'
<1>1. Typed /\ TypeOK /\ FreshInv /\ SeatsInv /\ made \in Nat
  BY NumberFacts DEF Base, Typed
\* Whoever is inserting was, with the same address, or finds the place free.
<1>2. ASSUME NEW r \in Requests, req'[r].pc = "accepted"
      PROVE  \/ req[r].pc = "accepted" /\ req'[r].email = req[r].email /\ ~AcceptCommits(r)
             \/ AcceptInserts(r) /\ req'[r].email = req[r].email
  <2>1. ~AcceptCommits(r)
    BY <1>1, <1>2, DoneTurns, TurnsMean, IdleTyped DEF AcceptCommits
  <2>2. CASE req' = req
    BY <1>2, <2>1, <2>2
  <2>3. CASE Steps(r)
    BY <1>1, <1>2, <2>3, RequestMoves DEF Moved
  <2>4. ASSUME NEW s \in Requests, Steps(s), s # r
        PROVE  req[r].pc = "accepted" /\ req'[r].email = req[r].email
    BY <1>1, <1>2, <2>4, OthersStay DEF Alike
  <2> QED
    BY <2>1, <2>2, <2>3, <2>4, WhoSteps
<1>3. ASSUME NEW r \in Requests, req'[r].pc = "accepted" PROVE ~users'[req'[r].email].exists
  <2>1. PICK e \in Addresses : e = req[r].email
    BY <1>1 DEF TypeOK, RequestType
  <2>2. req'[r].email = e
    BY <1>2, <1>3, <2>1
  <2>3. ~users[e].exists
    BY <1>1, <1>2, <1>3, <2>1 DEF SeatsInv, AcceptInserts
  <2>4. CASE AcceptInserts(r)
    BY <2>2, <2>3, <2>4 DEF AcceptInserts
  <2>5. CASE req[r].pc = "accepted" /\ ~AcceptCommits(r)
    <3>1. ASSUME NEW s \in Requests, AcceptCommits(s) PROVE req[s].email # e
      BY <1>1, <2>1, <2>5, <3>1 DEF SeatsInv, AcceptCommits
    <3>2. ASSUME NEW role \in Roles, CliCreateUser(e, role) PROVE FALSE
      BY <2>1, <2>5, <3>2 DEF CliCreateUser, Taking
    <3>3. Changed(e)
      BY <1>1, <3>1, <3>2, UserMoves
    <3> QED
      BY <2>2, <2>3, <3>3 DEF Changed
  <2> QED
    BY <1>2, <1>3, <2>4, <2>5
<1>4. ASSUME NEW r \in Requests, NEW s \in Requests, r # s,
             req'[r].pc = "accepted", req'[s].pc = "accepted"
      PROVE  req'[r].email # req'[s].email
  <2>1. CASE AcceptInserts(r)
    <3>1. Steps(r)
      BY <2>1 DEF Steps, AcceptStep
    <3>2. req[s].pc = "accepted" /\ req'[s].email = req[s].email
      BY <1>1, <1>4, <3>1, OthersStay DEF Alike
    <3> QED
      BY <1>2, <1>4, <2>1, <3>2 DEF AcceptInserts, Taking
  <2>2. CASE AcceptInserts(s)
    <3>1. Steps(s)
      BY <2>2 DEF Steps, AcceptStep
    <3>2. req[r].pc = "accepted" /\ req'[r].email = req[r].email
      BY <1>1, <1>4, <3>1, OthersStay DEF Alike
    <3> QED
      BY <1>2, <1>4, <2>2, <3>2 DEF AcceptInserts, Taking
  <2>3. CASE ~AcceptInserts(r) /\ ~AcceptInserts(s)
    BY <1>1, <1>2, <1>4, <2>3 DEF SeatsInv
  <2> QED
    BY <2>1, <2>2, <2>3
<1>5. ASSUME NEW a \in Addresses
      PROVE  users'[a].via <= made' /\ (~users'[a].exists => users'[a].via = 0)
  <2>1. users[a].via \in Nat /\ users[a].via <= made
        /\ (~users[a].exists => users[a].via = 0)
    BY <1>1, IdleTyped DEF SeatsInv, TypeOK, UserType, Numbered
  <2>2. made' \in Nat /\ made <= made'
    BY <1>1, MadeGrows
  <2>3. CASE Changed(a)
    BY <1>1, <2>1, <2>2, <2>3 DEF Changed
  <2>4. ASSUME NEW r \in Requests PROVE req[r].inv \in Nat /\ req[r].inv <= made
    BY <1>1, NumberFacts
  <2>5. ASSUME NEW v, users'[a].exists = TRUE, users'[a].via = v, v \in Nat, v <= made
        PROVE  users'[a].via <= made' /\ (~users'[a].exists => users'[a].via = 0)
    BY <1>1, <2>2, <2>5
  <2>6. 0 \in Nat /\ 0 <= made
    BY <1>1
  <2> QED
    BY <1>1, <2>3, <2>4, <2>5, <2>6, UserMoves
<1> QED
  BY <1>3, <1>4, <1>5 DEF SeatsInv

LEMMA BaseInit ==
  ASSUME Init
  PROVE  Base
<1>1. Typed
  BY TypedInit
<1>2. \A r \in Requests : req[r].pc = "idle"
  BY IdleTyped DEF Init
<1>3. FreshInv
  BY <1>2 DEF FreshInv, Fresh
<1>4. ASSUME NEW a \in Addresses
      PROVE  users[a].via = 0
  BY IdleTyped DEF Init, UserOf
<1>5. SeatsInv
  BY <1>2, <1>4 DEF SeatsInv, Init
<1> QED
  BY <1>1, <1>3, <1>5 DEF Base

LEMMA BaseNext ==
  ASSUME Base, [Next]_vars
  PROVE  Base'
<1>1. Typed'
  BY TypedNext DEF Base
<1>2. FreshInv'
  BY FreshNext DEF FreshInv
<1> QED
  BY <1>1, <1>2, SeatsNext DEF Base

-------------------------------------------------------------------------------
(* Letters.                                                                 *)

Mails(r) == MailSent(r) \/ \E arrived \in BOOLEAN : MailFailed(r, arrived)

LEMMA LettersMove ==
  ASSUME Typed, NEW r \in Requests, Steps(r)
  PROVE  \/ Mails(r) /\ adrift' \subseteq adrift \cup {req[r].token}
         \/ adrift' \subseteq adrift \ {req[r].token}
         \/ adrift' = adrift /\ req[r].pc \notin {"commitNew", "commitAgain"}
<1>1. CASE AdminStep(r)
  BY <1>1 DEF AdminStep, AdminArrives, Toggle, Refused, CreateChecks, ChangeRole,
     CreateReads, CreateFlushes, CreateCommits, Reissue, Revoke, ReissueCommits, MailSent,
     MailFailed, RevokeCommits, ToggleCommits, ChangeRoleCommits, Mails
<1>2. CASE AcceptStep(r)
  BY <1>2 DEF AcceptStep, AcceptArrives, AcceptInserts, AcceptTaken, AcceptCommits
<1>3. CASE Fails(r)
  BY <1>3 DEF Fails
<1> QED
  BY <1>1, <1>2, <1>3 DEF Steps

LEMMA LettersNext ==
  ASSUME Typed, LettersKept, [Next]_vars
  PROVE  LettersKept'
<1>1. CASE req' = req /\ adrift' = adrift
  BY <1>1 DEF LettersKept
<1>2. ASSUME NEW r \in Requests, Steps(r), NEW t \in adrift'
      PROVE  \E s \in Requests : req'[s].token = t /\ req'[s].pc \in {"commitNew", "commitAgain"}
  <2>1. CASE Mails(r) /\ t = req[r].token
    BY <2>1, OthersTurn, TurnsMean DEF Typed, Mails
  <2>2. ASSUME NEW s \in Requests, s # r, req[s].token = t,
               req[s].pc \in {"commitNew", "commitAgain"}
        PROVE  req'[s].token = t /\ req'[s].pc \in {"commitNew", "commitAgain"}
    BY <1>2, <2>2, OthersStay DEF Alike
  <2>3. CASE t \in adrift
    <3>1. PICK s \in Requests : req[s].token = t /\ req[s].pc \in {"commitNew", "commitAgain"}
      BY <2>3 DEF LettersKept
    <3>2. CASE s = r
      <4>1. ~Mails(r)
        BY <3>1, <3>2 DEF Mails, MailSent, MailFailed
      <4> QED
        BY <1>2, <3>1, <3>2, <4>1, LettersMove
    <3>3. CASE s # r
      BY <2>2, <3>1, <3>3
    <3> QED
      BY <3>2, <3>3
  <2> QED
    BY <1>2, <2>1, <2>3, LettersMove
<1>3. (\E r \in Requests : Steps(r)) \/ (req' = req /\ adrift' = adrift)
  BY DEF Next, Steps, vars, CliCreateUser, Expires, CleanupInvite
<1> QED
  BY <1>1, <1>2, <1>3 DEF LettersKept

\* A link that was mailed is stored, or its request is still about to store it, or the
\* request died: whatever the mail answers (admin_views.py:57-108).
THEOREM LettersStay == Spec => []LettersKept
<1> DEFINE IInv == Typed /\ LettersKept
<1>1. Init => IInv
  BY TypedInit DEF Init, LettersKept
<1>2. IInv /\ [Next]_vars => IInv'
  BY TypedNext, LettersNext
<1>3. IInv => LettersKept
  OBVIOUS
<1> HIDE DEF IInv
<1> QED
  BY <1>1, <1>2, <1>3, PTL DEF Spec

-------------------------------------------------------------------------------
(* Administrators.                                                          *)

\* Nobody changes his own account.
AdminInv ==
    /\ AdminRemains
    /\ \A r \in Requests : req[r].pc \in Changing => req[r].email # req[r].actor

LEMMA OthersChanged ==
  ASSUME Base, AdminInv, [Next]_vars, NEW r \in Requests, req'[r].pc \in Changing
  PROVE  req'[r].email # req'[r].actor
<1>1. CASE req' = req
  BY <1>1 DEF AdminInv
<1>2. CASE Steps(r)
  BY <1>2, RequestMoves DEF Moved, Base
<1>3. ASSUME NEW s \in Requests, Steps(s), s # r PROVE req'[r].email # req'[r].actor
  BY <1>3, OthersStay DEF Alike, AdminInv, Base
<1> QED
  BY <1>1, <1>2, <1>3, WhoSteps

LEMMA AdminNext ==
  ASSUME Base, AdminInv, [Next]_vars
  PROVE  AdminRemains'
<1>1. Typed /\ TypeOK /\ SeatsInv /\ users \in [Addresses -> UserType]
      /\ \A a \in Addresses : users[a] \in UserType
  BY DEF Base, Typed, TypeOK
<1>2. ASSUME NEW r \in Requests, ToggleCommits(r) \/ ChangeRoleCommits(r) PROVE AdminRemains'
  <2>1. PICK e \in Addresses : e = req[r].actor
    BY <1>1 DEF TypeOK, RequestType
  <2>2. req[r].email # e
    BY <1>2, <2>1 DEF AdminInv, Changing, ToggleCommits, ChangeRoleCommits
  <2>3. users'[e] = users[e]
    BY <1>1, <1>2, <2>2 DEF ToggleCommits, ChangeRoleCommits
  <2>4. raced' \/ IsAdmin(e)
    BY <1>2, <2>1 DEF ToggleCommits, ChangeRoleCommits, Raced
  <2> QED
    BY <2>3, <2>4 DEF AdminRemains, IsAdmin
<1>3. ASSUME raced' = raced, \A a \in Addresses : users[a].exists => users'[a] = users[a]
      PROVE  AdminRemains'
  BY <1>3 DEF AdminRemains, AdminInv, IsAdmin
<1>4. ASSUME NEW r \in Requests, AcceptCommits(r) PROVE AdminRemains'
  <2>1. ~users[req[r].email].exists
    BY <1>1, <1>4 DEF SeatsInv, AcceptCommits
  <2>2. \A a \in Addresses : users[a].exists => users'[a] = users[a]
    BY <1>1, <1>4, <2>1 DEF AcceptCommits
  <2> QED
    BY <1>3, <1>4, <2>2 DEF AcceptCommits
<1>5. ASSUME NEW a \in Addresses, NEW role \in Roles, CliCreateUser(a, role) PROVE AdminRemains'
  <2>1. \A b \in Addresses : users[b].exists => users'[b] = users[b]
    BY <1>1, <1>5 DEF CliCreateUser
  <2> QED
    BY <1>3, <1>5, <2>1 DEF CliCreateUser
<1>6. CASE users' = users /\ raced' = raced
  BY <1>3, <1>6
<1>7. ASSUME NEW r \in Requests, AdminStep(r)
      PROVE  (users' = users /\ raced' = raced) \/ ToggleCommits(r) \/ ChangeRoleCommits(r)
  BY <1>7 DEF AdminStep, AdminArrives, Toggle, Refused, CreateChecks, ChangeRole,
     CreateReads, CreateFlushes, CreateCommits, Reissue, Revoke, ReissueCommits, MailSent,
     MailFailed, RevokeCommits
<1>8. ASSUME NEW r \in Requests, AcceptStep(r) \/ Fails(r)
      PROVE  (users' = users /\ raced' = raced) \/ AcceptCommits(r)
  BY <1>8 DEF AcceptStep, AcceptArrives, AcceptInserts, AcceptTaken, Fails
<1> QED
  BY <1>2, <1>4, <1>5, <1>6, <1>7, <1>8 DEF Next, vars, Expires, CleanupInvite

\* An administrator is left, unless one who had lost the right changed an account: whoever
\* changes another's account is one himself when he commits (admin_views.py:183-231).
THEOREM AdminStays == Spec => []AdminRemains
<1> DEFINE IInv == Base /\ AdminInv
<1>1. Init => IInv
  <2> SUFFICES ASSUME Init PROVE AdminInv
    BY BaseInit
  <2>1. IsAdmin(Root)
    BY IdleTyped DEF Init, IsAdmin, UserOf, Numbered
  <2> QED
    BY <2>1, IdleTyped DEF Init, AdminInv, AdminRemains, Changing, Numbered
<1>2. IInv /\ [Next]_vars => IInv'
  BY BaseNext, AdminNext, OthersChanged DEF AdminInv
<1>3. IInv => AdminRemains
  BY DEF AdminInv
<1> HIDE DEF IInv
<1> QED
  BY <1>1, <1>2, <1>3, PTL DEF Spec

-------------------------------------------------------------------------------
(* Invitations.                                                             *)

LEMMA OverStays ==
  ASSUME Base, [Next]_vars, NEW i \in Invites, invites[i].there, ~Pending(i)
  PROVE  ~Pending(i)'
<1>1. ASSUME NEW r \in Requests, Inserted(i, r) PROVE FALSE
  BY <1>1 DEF Inserted, CreateCommits, Base, FreshInv, Fresh
<1>2. ASSUME NEW r \in Requests, Accepted(i, r) PROVE ~Pending(i)'
  BY <1>2 DEF Accepted, Pending
<1>3. CASE Kept(i)
  BY <1>3 DEF Kept
<1>4. CASE Cleaned(i)
  BY <1>4 DEF Cleaned, Pending
<1> QED
  BY <1>1, <1>2, <1>3, <1>4, RowMoves DEF Base

\* What was revoked or accepted never works again, whoever had read it before
\* (invites.py:108-120).
THEOREM OverHolds == Spec => OverForGood
<1>1. Init => Base
  BY BaseInit
<1>2. Base /\ [Next]_vars => Base'
  BY BaseNext
<1>3. Base /\ [Next]_vars =>
        [\A i \in Invites : invites[i].there /\ ~Pending(i) => ~Pending(i)']_vars
  BY OverStays
<1> QED
  BY <1>1, <1>2, <1>3, PTL DEF Spec, OverForGood

\* Whoever accepts has the address of the invitation, if it is still there.
AcceptInv ==
    \A r \in Requests :
        req[r].pc \in {"accept", "accepted"} /\ invites[req[r].inv].there
            => invites[req[r].inv].email = req[r].email

LEMMA AcceptNext ==
  ASSUME Base, AcceptInv, [Next]_vars, NEW r \in Requests,
         req'[r].pc \in {"accept", "accepted"}, invites'[req'[r].inv].there
  PROVE  invites'[req'[r].inv].email = req'[r].email
<1>1. Typed /\ TypeOK /\ RowsMeant /\ FreshInv
  BY DEF Base, Typed
<1>2. CASE \E i \in Invites : AcceptArrives(r, i)
  <2>1. PICK i \in Invites : AcceptArrives(r, i)
    BY <1>2
  <2>2. req'[r].inv = i /\ req'[r].email = invites[i].email
    BY <1>1, <2>1, ArrivalsTurn, TurnsMean
  <2>3. invites' = invites
    BY <2>1 DEF AcceptArrives
  <2> QED
    BY <2>2, <2>3
<1>3. CASE req[r].pc \in {"accept", "accepted"} /\ req'[r].inv = req[r].inv
           /\ req'[r].email = req[r].email
  <2>1. PICK k \in Invites : k = req[r].inv /\ k = req'[r].inv
    BY <1>1, <1>3 DEF RowsMeant, WithRow
  <2>2. ASSUME NEW s \in Requests, Inserted(k, s) PROVE FALSE
    <3>1. req[s].pc = "commitNew" /\ req[s].inv = k
      BY <2>2 DEF Inserted, CreateCommits
    <3>2. s # r
      BY <1>3, <3>1
    <3> QED
      BY <1>1, <2>1, <3>1, <3>2 DEF FreshInv, Fresh
  <2>3. invites[k].there /\ invites'[k].email = invites[k].email
    <3>1. CASE Kept(k)
      BY <2>1, <3>1 DEF Kept
    <3>2. CASE Cleaned(k)
      BY <2>1, <3>2 DEF Cleaned
    <3>3. ASSUME NEW s \in Requests, Accepted(k, s)
          PROVE  invites[k].there /\ invites'[k].email = invites[k].email
      BY <3>3 DEF Accepted
    <3> QED
      BY <1>1, <2>2, <3>1, <3>2, <3>3, RowMoves
  <2> QED
    BY <1>3, <2>1, <2>3 DEF AcceptInv
<1>4. CASE Steps(r)
  <2>1. CASE req'[r].pc = "accepted"
    BY <1>1, <1>3, <1>4, <2>1, RequestMoves DEF Moved
  <2>2. CASE req'[r].pc = "accept"
    BY <1>1, <1>2, <1>4, <2>2, RequestMoves DEF Moved
  <2> QED
    BY <2>1, <2>2
<1>5. ASSUME NEW s \in Requests, Steps(s), s # r
      PROVE  req[r].pc \in {"accept", "accepted"} /\ req'[r].inv = req[r].inv
             /\ req'[r].email = req[r].email
  BY <1>1, <1>5, OthersStay DEF Alike
<1> QED
  BY <1>3, <1>4, <1>5, WhoSteps

LEMMA MarkedNext ==
  ASSUME Base, AcceptInv, AcceptedMadeAccount, [Next]_vars, NEW i \in Invites,
         invites'[i].there, invites'[i].accepted
  PROVE  users'[invites'[i].email].via = i
<1>1. Typed /\ TypeOK /\ SeatsInv /\ users \in [Addresses -> UserType] /\ i # 0
  BY DEF Base, Typed, TypeOK, Invites
<1>2. CASE Kept(i)
  <2>1. PICK e \in Addresses : e = invites[i].email /\ e = invites'[i].email
    BY <1>1, <1>2 DEF Kept, TypeOK, InviteType
  <2>2. users[e].via = i
    BY <1>2, <2>1 DEF Kept, AcceptedMadeAccount
  <2>3. users[e].exists
    BY <1>1, <2>2 DEF SeatsInv
  <2>4. ASSUME NEW r \in Requests, AcceptCommits(r) PROVE req[r].email # e
    BY <1>1, <2>3, <2>4 DEF SeatsInv, AcceptCommits
  <2>5. ASSUME NEW role \in Roles PROVE ~CliCreateUser(e, role)
    BY <2>3 DEF CliCreateUser
  <2>6. Changed(e)
    BY <1>1, <2>4, <2>5, UserMoves
  <2> QED
    BY <2>1, <2>2, <2>6 DEF Changed
<1>3. CASE Cleaned(i)
  BY <1>3 DEF Cleaned
<1>4. ASSUME NEW r \in Requests, Inserted(i, r) PROVE FALSE
  BY <1>4 DEF Inserted
<1>5. ASSUME NEW r \in Requests, Accepted(i, r) PROVE users'[invites'[i].email].via = i
  <2>1. AcceptCommits(r) /\ i = req[r].inv /\ invites[i].there
        /\ invites'[i].email = invites[i].email
    BY <1>5 DEF Accepted
  <2>2. PICK e \in Addresses : e = req[r].email
    BY <1>1 DEF TypeOK, RequestType
  <2>3. invites'[i].email = e
    BY <2>1, <2>2 DEF AcceptInv, AcceptCommits
  <2>4. users'[e] = UserOf(req[r].role, i)
    BY <1>1, <2>1, <2>2 DEF AcceptCommits
  <2> QED
    BY <2>3, <2>4 DEF UserOf
<1> QED
  BY <1>1, <1>2, <1>3, <1>4, <1>5, RowMoves

LEMMA MadeNext ==
  ASSUME Base, AcceptedMadeAccount, [Next]_vars, NEW i \in Invites, NEW a \in Addresses,
         users'[a].via = i
  PROVE  ~Pending(i)'
<1>1. Typed /\ TypeOK /\ FreshInv /\ i # 0
  BY DEF Base, Typed, Invites
<1>2. CASE Changed(a)
  <2>1. users[a].via = i
    BY <1>2 DEF Changed
  <2>2. ~Pending(i)
    BY <2>1 DEF AcceptedMadeAccount
  <2>3. CASE invites[i].there
    BY <2>2, <2>3, OverStays
  <2>4. CASE ~invites[i].there
    <3>1. ASSUME NEW r \in Requests, Inserted(i, r) PROVE FALSE
      BY <1>1, <2>1, <3>1 DEF Inserted, CreateCommits, FreshInv, Fresh
    <3>2. ASSUME NEW r \in Requests, Accepted(i, r) PROVE FALSE
      BY <2>4, <3>2 DEF Accepted
    <3>3. CASE Kept(i) \/ Cleaned(i)
      BY <2>4, <3>3 DEF Kept, Cleaned, Pending
    <3> QED
      BY <1>1, <3>1, <3>2, <3>3, RowMoves
  <2> QED
    BY <2>3, <2>4
<1>3. ASSUME NEW r \in Requests, AcceptCommits(r), i = req[r].inv PROVE ~Pending(i)'
  <2>1. invites' = [invites EXCEPT ![i].accepted = TRUE, ![i].token = 0]
    BY <1>3 DEF AcceptCommits
  <2>2. invites'[i].accepted = TRUE
    BY <1>1, <2>1 DEF TypeOK, InviteType
  <2> QED
    BY <2>2 DEF Pending
<1> QED
  BY <1>1, <1>2, <1>3, UserMoves

\* An accepted invitation made the account of its address, and no account was made by one
\* that is still open (invites.py:195-254).
THEOREM AcceptedHolds == Spec => []AcceptedMadeAccount
<1> DEFINE IInv == Base /\ AcceptInv /\ AcceptedMadeAccount
<1>1. Init => IInv
  <2> SUFFICES ASSUME Init PROVE AcceptInv /\ AcceptedMadeAccount
    BY BaseInit
  <2>1. \A i \in Invites : ~invites[i].there
    BY IdleTyped DEF Init
  <2>2. \A r \in Requests : req[r].pc = "idle"
    BY IdleTyped DEF Init
  <2> QED
    BY <2>1, <2>2 DEF AcceptInv, AcceptedMadeAccount, Pending
<1>2. IInv /\ [Next]_vars => IInv'
  <2> SUFFICES ASSUME IInv, [Next]_vars PROVE IInv'
    OBVIOUS
  <2>1. AcceptInv'
    BY AcceptNext DEF AcceptInv
  <2>2. AcceptedMadeAccount'
    BY MarkedNext, MadeNext DEF AcceptedMadeAccount
  <2> QED
    BY <2>1, <2>2, BaseNext
<1>3. IInv => AcceptedMadeAccount
  OBVIOUS
<1> HIDE DEF IInv
<1> QED
  BY <1>1, <1>2, <1>3, PTL DEF Spec

\* What a request revokes or has missed is all that works for its address; of the rows
\* that are open together every pair was made by requests that overlapped.
PairInv ==
    /\ \A r \in Requests : req[r].pc \in Inviting =>
          \A j \in Invites : Pending(j) /\ invites[j].email = req[r].email
                                => j \in req[r].prev \cup req[r].missed
    /\ \A i, j \in Invites :
          i # j /\ Pending(i) /\ Pending(j) /\ invites[i].email = invites[j].email
              => {i, j} \in overlaps

LEMMA CoverNext ==
  ASSUME Base, PairInv, [Next]_vars, NEW r \in Requests, req'[r].pc \in Inviting,
         NEW j \in Invites, Pending(j)', invites'[j].email = req'[r].email
  PROVE  j \in req'[r].prev \cup req'[r].missed
<1>1. Typed /\ TypeOK /\ RowsMeant /\ req \in [Requests -> RequestType]
  BY DEF Base, Typed, TypeOK
<1>2. CASE CreateReads(r)
  <2>1. req'[r].prev = {i \in Invites : Pending(i) /\ invites[i].email = req[r].email}
        /\ req'[r].email = req[r].email
    BY <1>1, <1>2, CreatesTurn, TurnsMean
  <2>2. invites' = invites
    BY <1>2 DEF CreateReads
  <2> QED
    BY <2>1, <2>2 DEF Pending
<1>3. CASE /\ req[r].pc \in Inviting /\ req'[r].email = req[r].email
           /\ req'[r].prev = req[r].prev /\ req[r].missed \subseteq req'[r].missed
  <2>1. CASE Kept(j)
    BY <1>3, <2>1 DEF Kept, PairInv
  <2>2. CASE Cleaned(j)
    BY <2>2 DEF Cleaned, Pending
  <2>3. ASSUME NEW s \in Requests, Inserted(j, s)
        PROVE  j \in req'[r].missed
    <3>1. CreateCommits(s) /\ j = req[s].inv /\ invites'[j].email = req[s].email
      BY <2>3 DEF Inserted
    <3>2. s # r
      BY <1>1, <3>1, CommitTells, IdleTyped DEF Inviting
    <3> QED
      BY <1>1, <1>3, <3>1, <3>2, CommitTells DEF Inviting
  <2>4. ASSUME NEW s \in Requests, Accepted(j, s) PROVE FALSE
    BY <2>4 DEF Accepted, Pending
  <2> QED
    BY <1>1, <2>1, <2>2, <2>3, <2>4, RowMoves
<1>4. CASE req' = req
  BY <1>3, <1>4
<1>5. CASE Steps(r)
  <2>1. req[r].pc = "flush" /\ SameInvite(r) => req[r].pc \in Inviting
    BY DEF Inviting
  <2> QED
    BY <1>1, <1>2, <1>3, <1>5, <2>1, RequestMoves
       DEF Moved, Inviting, Fresh, SameInvite, CreateFlushes
<1>6. ASSUME NEW s \in Requests, Steps(s), s # r
      PROVE  /\ req[r].pc \in Inviting /\ req'[r].email = req[r].email
             /\ req'[r].prev = req[r].prev /\ req[r].missed \subseteq req'[r].missed
  BY <1>1, <1>6, OthersStay DEF Alike
<1> QED
  BY <1>3, <1>4, <1>5, <1>6, WhoSteps

LEMMA OverlapsGrow ==
  ASSUME [Next]_vars
  PROVE  overlaps \subseteq overlaps'
<1>1. ASSUME NEW r \in Requests, AdminStep(r) PROVE overlaps \subseteq overlaps'
  BY <1>1 DEF AdminStep, AdminArrives, Toggle, Refused, CreateChecks, ChangeRole,
     CreateReads, CreateFlushes, CreateCommits, Reissue, Revoke, ReissueCommits, MailSent,
     MailFailed, RevokeCommits, ToggleCommits, ChangeRoleCommits
<1>2. ASSUME NEW r \in Requests, AcceptStep(r) \/ Fails(r) PROVE overlaps \subseteq overlaps'
  BY <1>2 DEF AcceptStep, AcceptArrives, AcceptInserts, AcceptTaken, AcceptCommits, Fails
<1> QED
  BY <1>1, <1>2 DEF Next, vars, CliCreateUser, Expires, CleanupInvite

\* A new row beside one that was open already.
LEMMA NewPair ==
  ASSUME Base, PairInv, NEW r \in Requests, NEW i \in Invites, NEW j \in Invites,
         Inserted(i, r), Kept(j), i # j, Pending(j)', invites'[i].email = invites'[j].email
  PROVE  {i, j} \in overlaps'
<1>1. CreateCommits(r) /\ i = req[r].inv /\ req[r].pc = "commitNew"
      /\ invites'[i].email = req[r].email
  BY DEF Inserted, CreateCommits
<1>2. Pending(j) /\ invites[j].email = req[r].email
  BY <1>1 DEF Kept
<1>3. j \in req[r].prev \cup req[r].missed
  BY <1>1, <1>2 DEF PairInv, Inviting
<1>4. j \notin req[r].prev
  <2> SUFFICES ASSUME j \in req[r].prev PROVE FALSE
    OBVIOUS
  <2>1. invites'[j] = [invites[j] EXCEPT !.revoked = TRUE]
    BY <1>1 DEF CreateCommits
  <2>2. invites'[j].revoked = TRUE
    BY <2>1 DEF Base, Typed, TypeOK, InviteType
  <2> QED
    BY <2>2 DEF Pending
<1>5. overlaps' = overlaps \cup {{m, i} : m \in req[r].missed}
  BY <1>1 DEF CreateCommits
<1>6. {j, i} \in overlaps'
  BY <1>3, <1>4, <1>5
<1>7. {j, i} = {i, j}
  OBVIOUS
<1> QED
  BY <1>6, <1>7

LEMMA PairNext ==
  ASSUME Base, PairInv, [Next]_vars, NEW i \in Invites, NEW j \in Invites, i # j,
         Pending(i)', Pending(j)', invites'[i].email = invites'[j].email
  PROVE  {i, j} \in overlaps'
<1>1. Typed /\ TypeOK /\ RowsMeant
  BY DEF Base, Typed
<1>2. ASSUME NEW k \in Invites, Pending(k)'
      PROVE  Kept(k) \/ \E r \in Requests : Inserted(k, r)
  BY <1>1, <1>2, RowMoves DEF Cleaned, Accepted, Pending
<1>3. CASE Kept(i) /\ Kept(j)
  <2>1. {i, j} \in overlaps
    BY <1>3 DEF Kept, PairInv
  <2> QED
    BY <2>1, OverlapsGrow
<1>4. ASSUME NEW r \in Requests, Inserted(i, r), Kept(j) PROVE {i, j} \in overlaps'
  BY <1>4, NewPair
<1>5. ASSUME NEW r \in Requests, Inserted(j, r), Kept(i) PROVE {i, j} \in overlaps'
  <2>1. {j, i} \in overlaps'
    BY <1>5, NewPair
  <2>2. {j, i} = {i, j}
    OBVIOUS
  <2> QED
    BY <2>1, <2>2
<1>6. ASSUME NEW r \in Requests, NEW s \in Requests, Inserted(i, r), Inserted(j, s) PROVE FALSE
  <2>1. CreateCommits(r) /\ CreateCommits(s) /\ r # s
    BY <1>6 DEF Inserted
  <2>2. req'[s].pc = req[s].pc /\ req'[s] = Idle
    BY <1>1, <2>1, CommitTells
  <2>3. req[s].pc = "commitNew"
    BY <2>1 DEF CreateCommits
  <2> QED
    BY <2>2, <2>3, IdleTyped
<1> QED
  BY <1>2, <1>3, <1>4, <1>5, <1>6

\* Two links of an address work together only if the requests that made them overlapped,
\* for any number of requests and invitations (invites.py:80-89).
THEOREM OneLinkHolds == Spec => []OneWorkingLink
<1> DEFINE IInv == Base /\ PairInv
<1>1. Init => IInv
  <2> SUFFICES ASSUME Init PROVE PairInv
    BY BaseInit
  <2>1. \A i \in Invites : ~Pending(i)
    BY IdleTyped DEF Init, Pending
  <2>2. \A r \in Requests : req[r].pc = "idle"
    BY IdleTyped DEF Init
  <2> QED
    BY <2>1, <2>2 DEF PairInv, Inviting
<1>2. IInv /\ [Next]_vars => IInv'
  <2> SUFFICES ASSUME IInv, [Next]_vars PROVE IInv'
    OBVIOUS
  <2>1. PairInv'
    BY CoverNext, PairNext DEF PairInv
  <2> QED
    BY <2>1, BaseNext
<1>3. IInv => OneWorkingLink
  BY DEF PairInv, OneWorkingLink, Working
<1> HIDE DEF IInv
<1> QED
  BY <1>1, <1>2, <1>3, PTL DEF Spec

===============================================================================
