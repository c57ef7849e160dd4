-------------------------- MODULE SecondFactorProofs --------------------------
(***************************************************************************)
(* Proofs about SecondFactor, for any number of requests, any time and any   *)
(* number of codes, secrets and sets; and that it implements OneTime.        *)
(***************************************************************************)
EXTENDS SecondFactor, FiniteSetTheorems, TLAPS

-------------------------------------------------------------------------------
(* What a step does to the request that takes it.                           *)

LEMMA IdleTyped ==
  /\ Off \in UserType /\ Off.enabled = FALSE /\ Off.secret = 0
  /\ Idle \in ReqType /\ Idle.pc = "idle" /\ Idle.set = 0 /\ Idle.row = Off
<1> USE SecondFactorAssumption
<1>1. Off \in UserType
  BY DEF Off, UserType, Secrets
<1>2. 0 \in Steps /\ 0 \in Secrets /\ 0 \in 0..MaxSets
  BY DEF Steps, Secrets, ValidWindow
<1> QED
  BY <1>1, <1>2 DEF Idle, ReqType, PCs, Off

LEMMA OneRequest ==
  ASSUME req \in [Requests -> ReqType], NEW r \in Requests, NEW q \in ReqType, Becomes(r, q)
  PROVE  /\ req' \in [Requests -> ReqType]
         /\ \A s \in Requests : req'[s] = IF s = r THEN q ELSE req[s]
BY DEF Becomes

LEMMA Facts ==
  ASSUME TypeOK
  PROVE  /\ sets \in Seq(SetState) /\ Len(sets) \in Nat /\ Len(sets) <= MaxSets
         /\ DOMAIN sets = 1..Len(sets)
         /\ entered \in Seq(Nat) /\ DOMAIN entered = 1..Len(sets)
         /\ Present \in SUBSET (1..Len(sets))
         /\ Present \in SUBSET (1..MaxSets)
<1>1. sets \in Seq(SetState) /\ Len(sets) \in Nat /\ Len(sets) <= MaxSets /\ MaxSets \in Nat
      /\ DOMAIN sets = 1..Len(sets)
  BY SecondFactorAssumption DEF TypeOK
<1>2. entered \in Seq(Nat) /\ DOMAIN entered = 1..Len(sets)
  BY DEF TypeOK
<1>3. Present \in SUBSET (1..Len(sets))
  BY <1>1 DEF Present
<1> QED
  BY <1>1, <1>2, <1>3

\* An UPDATE, column by column.
LEMMA UpdatedFields ==
  ASSUME user \in UserType, NEW row \in UserType, NEW wanted \in UserType
  PROVE  /\ Updated(row, wanted) \in UserType
         /\ Updated(row, wanted).enabled = IF wanted.enabled # row.enabled THEN wanted.enabled
                                           ELSE user.enabled
         /\ Updated(row, wanted).secret = IF wanted.secret # row.secret THEN wanted.secret
                                          ELSE user.secret
<1>1. Updated(row, wanted) =
        [enabled |-> IF wanted.enabled # row.enabled THEN wanted.enabled ELSE user.enabled,
         secret  |-> IF wanted.secret # row.secret THEN wanted.secret ELSE user.secret]
  BY DEF Updated, UserType
<1> QED
  BY <1>1 DEF UserType

\* The row after the factor was turned on.
TurnedOn(q) == [Updated(q.row, [q.row EXCEPT !.enabled = TRUE]) EXCEPT !.secret = q.secret]

LEMMA TurnedOnFields ==
  ASSUME user \in UserType, NEW q \in ReqType
  PROVE  /\ TurnedOn(q) \in UserType
         /\ TurnedOn(q).secret = q.secret
         /\ user = q.row => TurnedOn(q).enabled = TRUE
<1> DEFINE wanted == [q.row EXCEPT !.enabled = TRUE]
           row == Updated(q.row, wanted)
<1>1. q.row \in UserType /\ q.secret \in Secrets
  BY DEF ReqType
<1>2. wanted \in UserType /\ wanted.enabled = TRUE
  BY <1>1 DEF UserType
<1>3. q.row.enabled \in BOOLEAN
  BY <1>1 DEF UserType
<1> HIDE DEF wanted
<1>4. row \in UserType /\ row.enabled = IF wanted.enabled # q.row.enabled THEN wanted.enabled
                                         ELSE user.enabled
  BY <1>1, <1>2, UpdatedFields
<1>5. user = q.row => row.enabled = TRUE
  BY <1>2, <1>3, <1>4
<1> HIDE DEF row
<1>6. TurnedOn(q) = [row EXCEPT !.secret = q.secret]
  BY DEF TurnedOn, row, wanted
<1>7. [row EXCEPT !.secret = q.secret] \in UserType
  BY <1>1, <1>4 DEF UserType
<1>8. [row EXCEPT !.secret = q.secret].secret = q.secret
  BY <1>4 DEF UserType
<1>9. [row EXCEPT !.secret = q.secret].enabled = row.enabled
  BY <1>4 DEF UserType
<1> QED
  BY <1>5, <1>6, <1>7, <1>8, <1>9

-------------------------------------------------------------------------------
(* Types.                                                                   *)

StoreOK ==
    /\ now \in 0..MaxTime
    /\ offered \in Secrets /\ secrets \in Secrets
    /\ spent \subseteq [step: Steps, until: Nat]
    /\ accepted \subseteq Steps /\ uses \in Nat /\ Keys \subseteq accepted
    /\ proven \subseteq Secrets
    /\ clashes \in 0..2

RowsOK ==
    /\ user \in UserType
    /\ sets \in Seq(SetState) /\ Len(sets) <= MaxSets
    /\ entered \in Seq(Nat) /\ Len(entered) = Len(sets)

RequestsOK ==
    /\ req \in [Requests -> ReqType]
    /\ \A r \in Requests : req[r].pc = "commit" => req[r].set \in 0..Len(sets)

LEMMA TypeParts ==
  /\ StoreOK /\ RowsOK /\ RequestsOK => TypeOK
  /\ StoreOK' /\ RowsOK' /\ RequestsOK' => TypeOK'
BY DEF TypeOK, StoreOK, RowsOK, RequestsOK

LEMMA RequestsStayOK ==
  ASSUME TypeOK, NEW r \in Requests, NEW q \in ReqType, Becomes(r, q),
         Len(sets') \in Nat, Len(sets) <= Len(sets'),
         q.pc = "commit" => q.set \in 0..Len(sets)
  PROVE  RequestsOK'
<1>1. req \in [Requests -> ReqType]
  BY DEF TypeOK
<1>2. /\ req' \in [Requests -> ReqType]
      /\ \A s \in Requests : req'[s] = IF s = r THEN q ELSE req[s]
  BY <1>1, OneRequest
<1>3. Len(sets) \in Nat
  BY Facts
<1>4. ASSUME NEW s \in Requests, req'[s].pc = "commit" PROVE req'[s].set \in 0..Len(sets')
  <2>1. req'[s].set \in 0..Len(sets)
    BY <1>2, <1>4 DEF TypeOK
  <2> QED
    BY <1>3, <2>1
<1> QED
  BY <1>2, <1>4 DEF RequestsOK

\* A request reads, or ends, and leaves everything else as it is.
Quiet == UNCHANGED now /\ UNCHANGED Factor /\ UNCHANGED Acceptance /\ UNCHANGED entered

LEMMA QuietKeeps ==
  ASSUME TypeOK, Quiet
  PROVE  StoreOK' /\ RowsOK' /\ Len(sets') \in Nat /\ Len(sets) <= Len(sets')
<1>1. /\ now' = now /\ user' = user /\ offered' = offered /\ secrets' = secrets /\ sets' = sets
      /\ proven' = proven /\ clashes' = clashes /\ spent' = spent /\ accepted' = accepted
      /\ uses' = uses /\ entered' = entered
  BY DEF Quiet, Factor, Acceptance
<1>2. Len(sets) \in Nat
  BY Facts
<1> QED
  BY <1>1, <1>2 DEF TypeOK, StoreOK, RowsOK, Keys

LEMMA FitsTyped ==
  ASSUME TypeOK, NEW step \in Steps
  PROVE  now + ReplayTtl \in Nat /\ step + ValidWindow \in Nat
BY SecondFactorAssumption DEF TypeOK, Steps, ReplayTtl, ValidWindow

LEMMA AcceptKeeps ==
  ASSUME TypeOK, NEW step \in Steps, Accepts(step)
  PROVE  /\ spent' \subseteq [step: Steps, until: Nat]
         /\ accepted' \subseteq Steps /\ uses' \in Nat /\ Keys' \subseteq accepted'
<1>1. now + ReplayTtl \in Nat
  BY FitsTyped
<1>2. /\ spent' = spent \cup {[step |-> step, until |-> now + ReplayTtl]}
      /\ accepted' = accepted \cup {step} /\ uses' = uses + 1
  BY DEF Accepts
<1>3. spent' \subseteq [step: Steps, until: Nat]
  BY <1>1, <1>2 DEF TypeOK
<1>4. Keys' \subseteq accepted'
  BY <1>2 DEF TypeOK, Keys
<1> QED
  BY <1>2, <1>3, <1>4 DEF TypeOK

LEMMA WithoutTyped ==
  ASSUME TypeOK, NEW dels
  PROVE  /\ Without(dels) \in Seq(SetState) /\ Len(Without(dels)) = Len(sets)
         /\ \A i \in 1..Len(sets) : Without(dels)[i] = IF i \in dels THEN "deleted" ELSE sets[i]
<1>1. sets \in Seq(SetState) /\ Len(sets) \in Nat /\ DOMAIN sets = 1..Len(sets)
  BY Facts
<1>2. \A i \in 1..Len(sets) : sets[i] \in SetState
  BY <1>1
<1>3. Without(dels) \in [1..Len(sets) -> SetState]
  BY <1>1, <1>2 DEF Without, SetState
<1> QED
  BY <1>1, <1>3 DEF Without

LEMMA VerifyReadsTypes ==
  ASSUME TypeOK, NEW r \in Requests, NEW step \in Steps, NEW i \in 0..Len(sets),
         VerifyReads(r, step, i)
  PROVE  TypeOK'
<1> DEFINE q == [Idle EXCEPT !.pc = "check", !.step = step, !.set = i]
<1>1. i \in 0..MaxSets
  BY Facts, SecondFactorAssumption
<1>2. q \in ReqType /\ q.pc = "check"
  BY <1>1, IdleTyped DEF ReqType, PCs
<1>3. Quiet /\ Becomes(r, q)
  BY DEF VerifyReads, Quiet
<1> HIDE DEF q
<1> QED
  BY <1>2, <1>3, QuietKeeps, RequestsStayOK, TypeParts

LEMMA VerifyTotpTypes ==
  ASSUME TypeOK, NEW r \in Requests, VerifyTotp(r)
  PROVE  TypeOK'
<1> DEFINE ok == Fits(req[r].step) /\ req[r].step \notin Keys
           q  == [Idle EXCEPT !.pc = "commit"]
<1>1. Len(sets) \in Nat /\ sets' = sets /\ req[r].step \in Steps
  BY Facts DEF VerifyTotp, Factor, TypeOK, ReqType
<1>2. q \in ReqType /\ q.pc = "commit" /\ q.set = 0
  BY IdleTyped DEF ReqType, PCs
<1>3. CASE ok
  <2>1. Accepts(req[r].step) /\ Becomes(r, q) /\ now' = now /\ UNCHANGED Factor
        /\ entered' = entered
    BY <1>3 DEF VerifyTotp
  <2>2. /\ spent' \subseteq [step: Steps, until: Nat]
        /\ accepted' \subseteq Steps /\ uses' \in Nat /\ Keys' \subseteq accepted'
    BY <1>1, <2>1, AcceptKeeps
  <2>3. StoreOK' /\ RowsOK'
    BY <2>1, <2>2 DEF TypeOK, StoreOK, RowsOK, Factor
  <2> HIDE DEF q
  <2>4. RequestsOK'
    BY <1>1, <1>2, <2>1, RequestsStayOK
  <2> QED
    BY <2>3, <2>4, TypeParts
<1>4. CASE ~ok
  <2>1. Quiet /\ Becomes(r, Idle)
    BY <1>4 DEF VerifyTotp, Quiet
  <2> QED
    BY <2>1, IdleTyped, QuietKeeps, RequestsStayOK, TypeParts
<1> QED
  BY <1>3, <1>4

LEMMA VerifyRecoveryTypes ==
  ASSUME TypeOK, NEW r \in Requests, VerifyRecovery(r)
  PROVE  TypeOK'
<1> DEFINE q == [req[r] EXCEPT !.pc = "commit"]
<1>1. Quiet /\ req[r] \in ReqType
  BY DEF VerifyRecovery, Quiet, TypeOK
<1>2. q \in ReqType /\ q.set = req[r].set
  BY <1>1 DEF ReqType, PCs
<1>3. CASE FindsSet(req[r].set)
  <2>1. Becomes(r, q)
    BY <1>3 DEF VerifyRecovery
  <2>2. q.set \in 0..Len(sets)
    BY <1>2, <1>3, Facts DEF FindsSet
  <2> HIDE DEF q
  <2> QED
    BY <1>1, <1>2, <2>1, <2>2, QuietKeeps, RequestsStayOK, TypeParts
<1>4. CASE ~FindsSet(req[r].set)
  <2>1. Becomes(r, Idle)
    BY <1>4 DEF VerifyRecovery
  <2> QED
    BY <1>1, <2>1, IdleTyped, QuietKeeps, RequestsStayOK, TypeParts
<1> QED
  BY <1>3, <1>4

LEMMA VerifyCommitsTypes ==
  ASSUME TypeOK, NEW r \in Requests, VerifyCommits(r)
  PROVE  TypeOK'
<1> DEFINE i == req[r].set
<1>1. Becomes(r, Idle) /\ i \in 0..Len(sets) /\ Len(sets) \in Nat
      /\ UNCHANGED now /\ UNCHANGED Acceptance
      /\ UNCHANGED <<user, offered, secrets, proven, clashes>>
  BY Facts DEF VerifyCommits, TypeOK
<1>2. StoreOK'
  BY <1>1 DEF TypeOK, StoreOK, Acceptance, Keys
<1>3. CASE i = 0 \/ sets[i] = "deleted"
  <2>1. sets' = sets /\ entered' = entered
    BY <1>3 DEF VerifyCommits
  <2> QED
    BY <1>1, <1>2, <2>1, IdleTyped, RequestsStayOK, TypeParts DEF TypeOK, RowsOK
<1>4. CASE ~(i = 0 \/ sets[i] = "deleted")
  <2>1. sets' = [sets EXCEPT ![i] = "used"] /\ entered' = [entered EXCEPT ![i] = @ + 1]
    BY <1>4 DEF VerifyCommits
  <2>2. i \in 1..Len(sets) /\ entered[i] \in Nat
    BY <1>1, <1>4, Facts
  <2>3. sets' \in Seq(SetState) /\ Len(sets') = Len(sets)
    BY <2>1, <2>2, Facts DEF SetState
  <2>4. entered' \in Seq(Nat) /\ Len(entered') = Len(entered)
    BY <2>1, <2>2, Facts
  <2> QED
    BY <1>1, <1>2, <2>3, <2>4, IdleTyped, RequestsStayOK, TypeParts DEF TypeOK, RowsOK
<1> QED
  BY <1>3, <1>4

LEMMA EnableTypes ==
  ASSUME TypeOK, NEW r \in Requests,
         EnableArrives(r) \/ DisableArrives(r) \/ GivesUp(r)
  PROVE  TypeOK'
<1>1. Quiet /\ user \in UserType /\ Present \in SUBSET (1..MaxSets)
  BY Facts DEF EnableArrives, DisableArrives, GivesUp, Quiet, TypeOK
<1>2. CASE EnableArrives(r)
  <2> DEFINE q == [Idle EXCEPT !.pc = "enable", !.row = user]
  <2>1. q \in ReqType /\ q.pc = "enable"
    BY <1>1, IdleTyped DEF ReqType, PCs
  <2>2. Becomes(r, q)
    BY <1>2 DEF EnableArrives
  <2> HIDE DEF q
  <2> QED
    BY <1>1, <2>1, <2>2, QuietKeeps, RequestsStayOK, TypeParts
<1>3. CASE DisableArrives(r)
  <2> DEFINE q == [Idle EXCEPT !.pc = "off", !.row = user, !.dels = Present]
  <2>1. q \in ReqType /\ q.pc = "off"
    BY <1>1, IdleTyped DEF ReqType, PCs
  <2>2. Becomes(r, q)
    BY <1>3 DEF DisableArrives
  <2> HIDE DEF q
  <2> QED
    BY <1>1, <2>1, <2>2, QuietKeeps, RequestsStayOK, TypeParts
<1>4. CASE GivesUp(r)
  <2>1. Becomes(r, Idle)
    BY <1>4 DEF GivesUp
  <2> QED
    BY <1>1, <2>1, IdleTyped, QuietKeeps, RequestsStayOK, TypeParts
<1> QED
  BY <1>2, <1>3, <1>4

LEMMA EnableProvesTypes ==
  ASSUME TypeOK, NEW r \in Requests, NEW step \in Steps, EnableProves(r, step)
  PROVE  TypeOK'
<1> DEFINE q == [req[r] EXCEPT !.pc = "on", !.secret = offered, !.dels = Present]
<1>1. req[r] \in ReqType /\ offered \in Secrets /\ Present \in SUBSET (1..MaxSets)
      /\ Len(sets) \in Nat
  BY Facts DEF TypeOK
<1>2. q \in ReqType /\ q.pc = "on"
  BY <1>1 DEF ReqType, PCs
<1>3. /\ Accepts(step) /\ Becomes(r, q) /\ proven' = proven \cup {offered}
      /\ now' = now /\ UNCHANGED <<user, offered, secrets, sets, clashes, entered>>
  BY DEF EnableProves
<1>4. /\ spent' \subseteq [step: Steps, until: Nat]
      /\ accepted' \subseteq Steps /\ uses' \in Nat /\ Keys' \subseteq accepted'
  BY <1>3, AcceptKeeps
<1>5. StoreOK' /\ RowsOK'
  BY <1>1, <1>3, <1>4 DEF TypeOK, StoreOK, RowsOK
<1> HIDE DEF q
<1>6. RequestsOK'
  BY <1>1, <1>2, <1>3, RequestsStayOK
<1> QED
  BY <1>5, <1>6, TypeParts

LEMMA EnableCommitsTypes ==
  ASSUME TypeOK, NEW r \in Requests, EnableCommits(r)
  PROVE  TypeOK'
<1> DEFINE q == req[r]
           p == [Idle EXCEPT !.pc = "forget"]
           left == Without(q.dels)
<1>1. q \in ReqType /\ user \in UserType /\ Len(sets) \in Nat /\ MaxSets \in Nat
  BY Facts, SecondFactorAssumption DEF TypeOK
<1>2. p \in ReqType /\ p.pc = "forget"
  BY IdleTyped DEF ReqType, PCs
<1>3. /\ Len(sets) < MaxSets /\ user' = TurnedOn(q) /\ sets' = Append(left, "live")
      /\ entered' = Append(entered, 0) /\ Clashes(q) /\ Becomes(r, p)
      /\ now' = now /\ UNCHANGED Acceptance /\ UNCHANGED <<offered, secrets, proven>>
  BY DEF EnableCommits, TurnedOn
<1>4. left \in Seq(SetState) /\ Len(left) = Len(sets)
  BY WithoutTyped
<1> HIDE DEF q, p, left
<1>5. sets' \in Seq(SetState) /\ Len(sets') = Len(sets) + 1
  BY <1>1, <1>3, <1>4 DEF SetState
<1>6. entered' \in Seq(Nat) /\ Len(entered') = Len(sets) + 1
  BY <1>1, <1>3, Facts DEF TypeOK
<1>7. user' \in UserType
  BY <1>1, <1>3, TurnedOnFields
<1>8. RowsOK'
  BY <1>1, <1>3, <1>5, <1>6, <1>7 DEF RowsOK
<1>9. clashes' \in 0..2
  BY <1>3 DEF Clashes, TypeOK
<1>10. StoreOK'
  BY <1>3, <1>9 DEF TypeOK, StoreOK, Acceptance, Keys
<1>11. RequestsOK'
  BY <1>1, <1>2, <1>3, <1>5, RequestsStayOK
<1> QED
  BY <1>8, <1>10, <1>11, TypeParts

LEMMA DisableCommitsTypes ==
  ASSUME TypeOK, NEW r \in Requests, DisableCommits(r)
  PROVE  TypeOK'
<1> DEFINE q == req[r]
<1>1. q \in ReqType /\ q.row \in UserType /\ user \in UserType /\ Len(sets) \in Nat
  BY Facts DEF TypeOK, ReqType
<1>2. /\ user' = Updated(q.row, Off) /\ sets' = Without(q.dels)
      /\ Clashes(q) /\ Becomes(r, Idle)
      /\ now' = now /\ UNCHANGED Acceptance /\ UNCHANGED <<offered, secrets, proven, entered>>
  BY DEF DisableCommits
<1> HIDE DEF q
<1>3. sets' \in Seq(SetState) /\ Len(sets') = Len(sets)
  BY <1>2, WithoutTyped
<1>4. user' \in UserType
  BY <1>1, <1>2, IdleTyped, UpdatedFields
<1>5. clashes' \in 0..2
  BY <1>2 DEF Clashes, TypeOK
<1>6. StoreOK' /\ RowsOK'
  BY <1>2, <1>3, <1>4, <1>5 DEF TypeOK, StoreOK, RowsOK, Acceptance, Keys
<1>7. RequestsOK'
  BY <1>1, <1>2, <1>3, IdleTyped, RequestsStayOK
<1> QED
  BY <1>6, <1>7, TypeParts

\* The actions that are of no request, and the end of turning on.
LEMMA OtherTypes ==
  ASSUME TypeOK,
         \/ \E r \in Requests : EnableForgets(r)
         \/ SetupOffers \/ OfferExpires \/ Restarts \/ TimePasses
  PROVE  TypeOK'
<1>1. Len(sets) \in Nat /\ 0 \in Secrets
  BY Facts, SecondFactorAssumption DEF Secrets
<1>2. CASE \E r \in Requests : EnableForgets(r)
  <2>1. PICK r \in Requests : EnableForgets(r)
    BY <1>2
  <2>2. offered' = 0 /\ Becomes(r, Idle) /\ UNCHANGED now /\ UNCHANGED Acceptance
        /\ UNCHANGED <<user, secrets, sets, proven, clashes, entered>>
    BY <2>1 DEF EnableForgets
  <2>3. StoreOK' /\ RowsOK'
    BY <1>1, <2>2 DEF TypeOK, StoreOK, RowsOK, Acceptance, Keys
  <2> QED
    BY <1>1, <2>2, <2>3, IdleTyped, RequestsStayOK, TypeParts
<1>3. CASE SetupOffers
  <2>1. secrets' \in Secrets /\ offered' = secrets'
    BY <1>3, SecondFactorAssumption DEF SetupOffers, TypeOK, Secrets
  <2> QED
    BY <1>3, <2>1 DEF SetupOffers, TypeOK, Acceptance, Keys
<1>4. CASE OfferExpires
  BY <1>1, <1>4 DEF OfferExpires, TypeOK, Acceptance, Keys
<1>5. CASE Restarts
  <2>1. /\ now' = now /\ user' = user /\ offered' = offered /\ secrets' = secrets
        /\ sets' = sets /\ proven' = proven /\ clashes' = clashes /\ spent' = spent
        /\ accepted' = accepted /\ uses' = uses /\ entered' = entered
        /\ req' = [r \in Requests |-> Idle]
    BY <1>5 DEF Restarts, Factor, Acceptance
  <2>2. StoreOK' /\ RowsOK'
    BY <2>1 DEF TypeOK, StoreOK, RowsOK, Keys
  <2>3. RequestsOK'
    BY <2>1, IdleTyped DEF RequestsOK
  <2> QED
    BY <2>2, <2>3, TypeParts
<1>6. CASE TimePasses
  <2>1. /\ now' = now + 1 /\ now < MaxTime /\ spent' \subseteq spent
        /\ user' = user /\ offered' = offered /\ secrets' = secrets
        /\ sets' = sets /\ proven' = proven /\ clashes' = clashes
        /\ accepted' = accepted /\ uses' = uses /\ entered' = entered /\ req' = req
    BY <1>6 DEF TimePasses, Factor
  <2>2. now' \in 0..MaxTime
    BY <2>1, SecondFactorAssumption DEF TypeOK
  <2>3. Keys' \subseteq Keys
    BY <2>1 DEF Keys
  <2>4. StoreOK'
    BY <2>1, <2>2, <2>3 DEF TypeOK, StoreOK
  <2>5. RowsOK' /\ RequestsOK'
    BY <2>1 DEF TypeOK, RowsOK, RequestsOK
  <2> QED
    BY <2>4, <2>5, TypeParts
<1> QED
  BY <1>2, <1>3, <1>4, <1>5, <1>6

LEMMA TypesInit ==
  ASSUME Init
  PROVE  TypeOK
<1>1. StoreOK
  BY SecondFactorAssumption DEF Init, StoreOK, Secrets, Keys
<1>2. RowsOK
  BY SecondFactorAssumption, IdleTyped DEF Init, RowsOK
<1>3. RequestsOK
  BY IdleTyped DEF Init, RequestsOK
<1> QED
  BY <1>1, <1>2, <1>3, TypeParts

LEMMA TypesNext ==
  ASSUME TypeOK, [Next]_vars
  PROVE  TypeOK'
<1>1. CASE UNCHANGED vars
  BY <1>1 DEF vars, TypeOK, Keys
<1>2. ASSUME NEW r \in Requests, RequestStep(r) PROVE TypeOK'
  <2>1. ASSUME NEW step \in Steps, VerifyReads(r, step, 0) PROVE TypeOK'
    <3>1. 0 \in 0..Len(sets)
      BY Facts
    <3> QED
      BY <2>1, <3>1, VerifyReadsTypes
  <2>2. ASSUME NEW i \in DOMAIN sets, VerifyReads(r, 0, i) PROVE TypeOK'
    <3>1. i \in 0..Len(sets) /\ 0 \in Steps
      BY Facts, SecondFactorAssumption DEF Steps, ValidWindow
    <3> QED
      BY <2>2, <3>1, VerifyReadsTypes
  <2> QED
    BY <1>2, <2>1, <2>2, VerifyTotpTypes, VerifyRecoveryTypes, VerifyCommitsTypes,
       EnableTypes, EnableProvesTypes, EnableCommitsTypes, DisableCommitsTypes, OtherTypes
       DEF RequestStep
<1> QED
  BY <1>1, <1>2, OtherTypes DEF Next

\* Every state has its type; a key Redis holds is of an accepted step, and a request that
\* commits has a set that exists.
THEOREM Types == Spec => []TypeOK
<1>1. Init => TypeOK
  BY TypesInit
<1>2. TypeOK /\ [Next]_vars => TypeOK'
  BY TypesNext
<1> QED
  BY <1>1, <1>2, PTL DEF Spec

-------------------------------------------------------------------------------
(* Codes of the phone.                                                      *)

\* An accepted step is out of its window, or a key that outlives its window is in Redis.
ReplayInv ==
    \A s \in accepted : \/ s + ValidWindow < now
                       \/ \E k \in spent : k.step = s /\ s + ValidWindow < k.until

LEMMA StepKinds ==
  ASSUME TypeOK, [Next]_vars
  PROVE  \/ now' = now /\ UNCHANGED Acceptance
         \/ now' = now /\ \E step \in Steps : Accepts(step)
         \/ TimePasses
<1>1. CASE UNCHANGED vars
  BY <1>1 DEF vars, Acceptance
<1>2. ASSUME NEW r \in Requests, VerifyTotp(r)
      PROVE  \/ now' = now /\ UNCHANGED Acceptance
             \/ now' = now /\ \E step \in Steps : Accepts(step)
  <2>1. req[r].step \in Steps
    BY DEF TypeOK, ReqType
  <2> QED
    BY <1>2, <2>1 DEF VerifyTotp
<1>3. ASSUME NEW r \in Requests, RequestStep(r)
      PROVE  \/ now' = now /\ UNCHANGED Acceptance
             \/ now' = now /\ \E step \in Steps : Accepts(step)
  BY <1>2, <1>3 DEF RequestStep, VerifyReads, VerifyRecovery, VerifyCommits, EnableArrives,
     EnableProves, DisableArrives, EnableCommits, EnableForgets, DisableCommits, GivesUp
<1> QED
  BY <1>1, <1>3 DEF Next, SetupOffers, OfferExpires, Restarts

\* While a step is within its window nobody takes its key away.
LEMMA NotTwice ==
  ASSUME TypeOK, ReplayInv, NEW step \in Steps, Accepts(step)
  PROVE  step \notin accepted
<1> SUFFICES ASSUME step \in accepted PROVE FALSE
  OBVIOUS
<1>1. now \in Int /\ step \in Int
  BY SecondFactorAssumption DEF TypeOK, Steps, ValidWindow
<1>2. now - ValidWindow <= step /\ step \notin Keys
  BY DEF Accepts, Fits
<1>3. PICK k \in spent : k.step = step
  BY <1>1, <1>2 DEF ReplayInv, ValidWindow
<1> QED
  BY <1>2, <1>3 DEF Keys

LEMMA ReplayNext ==
  ASSUME TypeOK, ReplayInv, [Next]_vars
  PROVE  ReplayInv'
<1>1. CASE now' = now /\ UNCHANGED Acceptance
  BY <1>1 DEF ReplayInv, Acceptance
<1>2. ASSUME NEW step \in Steps, Accepts(step), now' = now PROVE ReplayInv'
  <2> DEFINE key == [step |-> step, until |-> now + ReplayTtl]
  <2>1. now \in Int /\ step \in Int /\ step <= now + ValidWindow
    BY <1>2, SecondFactorAssumption DEF TypeOK, Steps, ValidWindow, Accepts, Fits
  <2>2. spent' = spent \cup {key} /\ accepted' = accepted \cup {step}
    BY <1>2 DEF Accepts
  <2>3. key.step = step /\ step + ValidWindow < key.until
    BY <2>1 DEF ValidWindow, ReplayTtl
  <2> HIDE DEF key
  <2>4. ASSUME NEW s \in accepted', ~(s + ValidWindow < now')
        PROVE  \E k \in spent' : k.step = s /\ s + ValidWindow < k.until
    <3>1. CASE s = step
      BY <2>2, <2>3, <3>1
    <3>2. CASE s \in accepted
      BY <1>2, <2>2, <2>4, <3>2 DEF ReplayInv
    <3> QED
      BY <2>2, <2>4, <3>1, <3>2
  <2> QED
    BY <2>4 DEF ReplayInv
<1>3. CASE TimePasses
  <2>1. now' = now + 1 /\ spent' = {k \in spent : now' < k.until} /\ accepted' = accepted
    BY <1>3 DEF TimePasses
  <2>2. now \in Int
    BY SecondFactorAssumption DEF TypeOK
  <2>3. ASSUME NEW s \in accepted, ~(s + ValidWindow < now')
        PROVE  \E k \in spent' : k.step = s /\ s + ValidWindow < k.until
    <3>1. s \in Int
      BY SecondFactorAssumption DEF TypeOK, Steps, ValidWindow
    <3>2. PICK k \in spent : k.step = s /\ s + ValidWindow < k.until
      BY <2>1, <2>2, <2>3, <3>1 DEF ReplayInv, ValidWindow
    <3>3. k.until \in Nat
      BY DEF TypeOK
    <3>4. now' < k.until
      BY <2>1, <2>2, <2>3, <3>1, <3>2, <3>3 DEF ValidWindow
    <3> QED
      BY <2>1, <3>2, <3>4
  <2> QED
    BY <2>1, <2>3 DEF ReplayInv
<1> QED
  BY <1>1, <1>2, <1>3, StepKinds

\* A code of the phone is accepted once, whoever brings it and whatever Redis has forgotten:
\* every acceptance is one of OneTime's, everything else a stutter (totp.py:46-68).
THEOREM CodesOnce == Spec => OnlyOnce
<1> DEFINE IInv == TypeOK /\ ReplayInv
<1>1. Init => IInv
  BY TypesInit DEF Init, ReplayInv
<1>2. IInv /\ [Next]_vars => IInv'
  BY TypesNext, ReplayNext
<1>3. Init => Once!Init
  BY DEF Init, Once!Init
<1>4. IInv /\ [Next]_vars => [Once!Next]_<<accepted, uses>>
  <2> SUFFICES ASSUME IInv, [Next]_vars PROVE [Once!Next]_<<accepted, uses>>
    OBVIOUS
  <2>1. ASSUME NEW step \in Steps, Accepts(step) PROVE Once!Next
    <3>1. step \notin accepted
      BY <2>1, NotTwice
    <3>2. Once!Accept(step)
      BY <2>1, <3>1 DEF Accepts, Once!Accept
    <3> QED
      BY <3>2 DEF Once!Next
  <2>2. CASE UNCHANGED Acceptance \/ TimePasses
    BY <2>2 DEF Acceptance, TimePasses
  <2> QED
    BY <2>1, <2>2, StepKinds
<1> HIDE DEF IInv
<1> QED
  BY <1>1, <1>2, <1>3, <1>4, PTL DEF Spec, OnlyOnce, Once!Spec

-------------------------------------------------------------------------------
(* The row and the codes for recovery.                                      *)

\* What a request that is about to commit has in hand: a proven secret, or a row that
\* is whole as long as no change overlapped another.
InHand(q) ==
    /\ q.pc = "on" => q.secret # 0 /\ q.secret \in proven
    /\ q.pc = "off" => (clashes = 0 => (q.row.enabled <=> q.row.secret # 0))

FactorInv ==
    /\ SecretIsProven
    /\ FactorWhole
    /\ \A r \in Requests : InHand(req[r])

LEMMA FactorQuiet ==
  ASSUME TypeOK, FactorInv, user' = user, clashes' = clashes, proven \subseteq proven',
         Present' = Present, DOMAIN sets' = DOMAIN sets, Len(sets') = Len(sets),
         \A r \in Requests : req'[r] = req[r] \/ InHand(req[r])'
  PROVE  FactorInv'
<1>1. SecretIsProven'
  BY DEF FactorInv, SecretIsProven
<1>2. FactorWhole'
  BY DEF FactorInv, FactorWhole
<1>3. ASSUME NEW r \in Requests PROVE InHand(req[r])'
  BY DEF FactorInv, InHand
<1> QED
  BY <1>1, <1>2, <1>3 DEF FactorInv

\* A request goes on to something other than a commit of the row.
LEMMA FactorBecomes ==
  ASSUME TypeOK, FactorInv, UNCHANGED <<user, sets, clashes>>, proven' = proven,
         NEW r \in Requests, NEW q \in ReqType, Becomes(r, q), q.pc \notin {"on", "off"}
  PROVE  FactorInv'
<1>1. \A s \in Requests : req'[s] = IF s = r THEN q ELSE req[s]
  BY OneRequest DEF TypeOK
<1>2. \A s \in Requests : req'[s] = req[s] \/ InHand(req[s])'
  BY <1>1 DEF InHand
<1>3. Present' = Present
  BY DEF Present
<1> QED
  BY <1>2, <1>3, FactorQuiet

LEMMA FactorVerify ==
  ASSUME TypeOK, FactorInv, NEW r \in Requests,
         \/ \E step \in Steps : VerifyReads(r, step, 0)
         \/ \E i \in DOMAIN sets : VerifyReads(r, 0, i)
         \/ VerifyTotp(r) \/ VerifyRecovery(r)
         \/ EnableArrives(r) \/ EnableForgets(r) \/ GivesUp(r)
  PROVE  FactorInv'
<1>1. TypeOK' /\ req'[r] \in ReqType
  <2>1. Next
    BY DEF Next, RequestStep
  <2>2. TypeOK'
    BY <2>1, TypesNext
  <2> QED
    BY <2>2 DEF TypeOK
<1>2. req \in [Requests -> ReqType] /\ req[r] \in ReqType
  BY DEF TypeOK
<1>3. UNCHANGED <<user, sets, clashes>> /\ proven' = proven
  BY DEF VerifyReads, VerifyTotp, VerifyRecovery, EnableArrives, EnableForgets, GivesUp, Factor
<1>4. PICK q : Becomes(r, q) /\ q.pc \in {"check", "commit", "idle", "enable"}
  <2>1. \A step, i : [Idle EXCEPT !.pc = "check", !.step = step, !.set = i].pc = "check"
    BY DEF Idle
  <2>2. [Idle EXCEPT !.pc = "commit"].pc = "commit"
    BY DEF Idle
  <2>3. [Idle EXCEPT !.pc = "enable", !.row = user].pc = "enable"
    BY DEF Idle
  <2>4. [req[r] EXCEPT !.pc = "commit"].pc = "commit"
    BY <1>2 DEF ReqType
  <2>5. Idle.pc = "idle"
    BY IdleTyped
  <2>6. CASE VerifyTotp(r)
    BY <2>2, <2>5, <2>6 DEF VerifyTotp
  <2>7. CASE VerifyRecovery(r)
    BY <2>4, <2>5, <2>7 DEF VerifyRecovery
  <2>8. ASSUME NEW step, NEW i, VerifyReads(r, step, i)
        PROVE  \E q : Becomes(r, q) /\ q.pc \in {"check", "commit", "idle", "enable"}
    BY <2>1, <2>8 DEF VerifyReads
  <2>9. CASE EnableArrives(r)
    BY <2>3, <2>9 DEF EnableArrives
  <2>10. CASE EnableForgets(r) \/ GivesUp(r)
    BY <2>5, <2>10 DEF EnableForgets, GivesUp
  <2> QED
    BY <2>6, <2>7, <2>8, <2>9, <2>10
<1>5. req'[r] = q
  BY <1>2, <1>4 DEF Becomes
<1> QED
  BY <1>1, <1>3, <1>4, <1>5, FactorBecomes

LEMMA FactorVerifyCommits ==
  ASSUME TypeOK, FactorInv, NEW r \in Requests, VerifyCommits(r)
  PROVE  FactorInv'
<1> DEFINE i == req[r].set
<1>1. i \in 0..Len(sets) /\ Becomes(r, Idle)
      /\ user' = user /\ clashes' = clashes /\ proven' = proven
  BY DEF VerifyCommits, TypeOK
<1>2. \A s \in Requests : req'[s] = IF s = r THEN Idle ELSE req[s]
  BY <1>1, IdleTyped, OneRequest DEF TypeOK
<1>3. \A s \in Requests : req'[s] = req[s] \/ InHand(req[s])'
  BY <1>2, IdleTyped DEF InHand
<1>4. Present' = Present /\ DOMAIN sets' = DOMAIN sets /\ Len(sets') = Len(sets)
  <2>1. CASE i = 0 \/ sets[i] = "deleted"
    BY <2>1 DEF VerifyCommits, Present
  <2>2. CASE ~(i = 0 \/ sets[i] = "deleted")
    <3>1. sets' = [sets EXCEPT ![i] = "used"] /\ i \in 1..Len(sets)
      BY <1>1, <2>2, Facts DEF VerifyCommits
    <3>2. DOMAIN sets' = DOMAIN sets /\ Len(sets') = Len(sets)
      BY <3>1, Facts
    <3>3. \A j \in DOMAIN sets : sets'[j] # "deleted" <=> sets[j] # "deleted"
      BY <2>2, <3>1, Facts
    <3> QED
      BY <3>2, <3>3 DEF Present
  <2> QED
    BY <2>1, <2>2
<1> QED
  BY <1>1, <1>3, <1>4, FactorQuiet

LEMMA FactorEnableProves ==
  ASSUME TypeOK, FactorInv, NEW r \in Requests, NEW step \in Steps, EnableProves(r, step)
  PROVE  FactorInv'
<1> DEFINE q == [req[r] EXCEPT !.pc = "on", !.secret = offered, !.dels = Present]
<1>1. req[r] \in ReqType /\ offered \in Secrets /\ Present \in SUBSET (1..MaxSets)
  BY Facts DEF TypeOK
<1>2. q \in ReqType /\ q.pc = "on" /\ q.secret = offered
  BY <1>1 DEF ReqType, PCs
<1>3. /\ Becomes(r, q) /\ offered # 0 /\ proven' = proven \cup {offered}
      /\ user' = user /\ sets' = sets /\ clashes' = clashes
  BY DEF EnableProves
<1> HIDE DEF q
<1>4. \A s \in Requests : req'[s] = IF s = r THEN q ELSE req[s]
  BY <1>2, <1>3, OneRequest DEF TypeOK
<1>5. \A s \in Requests : req'[s] = req[s] \/ InHand(req[s])'
  BY <1>2, <1>3, <1>4 DEF InHand
<1>6. Present' = Present
  BY <1>3 DEF Present
<1> QED
  BY <1>3, <1>5, <1>6, FactorQuiet

LEMMA FactorDisableArrives ==
  ASSUME TypeOK, FactorInv, NEW r \in Requests, DisableArrives(r)
  PROVE  FactorInv'
<1> DEFINE q == [Idle EXCEPT !.pc = "off", !.row = user, !.dels = Present]
<1>1. Present \in SUBSET (1..MaxSets) /\ user \in UserType
  BY Facts DEF TypeOK
<1>2. q \in ReqType /\ q.pc = "off" /\ q.row = user
  BY <1>1, IdleTyped DEF ReqType, PCs, Idle
<1>3. /\ Becomes(r, q) /\ proven' = proven
      /\ user' = user /\ sets' = sets /\ clashes' = clashes
  BY DEF DisableArrives, Factor
<1> HIDE DEF q
<1>4. \A s \in Requests : req'[s] = IF s = r THEN q ELSE req[s]
  BY <1>2, <1>3, OneRequest DEF TypeOK
<1>5. \A s \in Requests : req'[s] = req[s] \/ InHand(req[s])'
  BY <1>2, <1>3, <1>4 DEF InHand, FactorInv, FactorWhole
<1>6. Present' = Present
  BY <1>3 DEF Present
<1> QED
  BY <1>3, <1>5, <1>6, FactorQuiet

\* A change of the row is counted when what was read is no longer there.
LEMMA ClashesMean ==
  ASSUME TypeOK, NEW q, Clashes(q)
  PROVE  /\ clashes' = 0 => clashes = 0 /\ user = q.row /\ Present = q.dels
         /\ clashes' < 2 => clashes = 0 \/ user = q.row
BY DEF Clashes, TypeOK

\* The other requests keep what they have in hand.
LEMMA HandsStay ==
  ASSUME TypeOK, FactorInv, NEW r \in Requests, NEW q \in ReqType, NEW p, Becomes(r, q),
         q.pc \notin {"on", "off"}, Clashes(p), proven' = proven
  PROVE  \A s \in Requests : InHand(req[s])'
<1>1. \A s \in Requests : req'[s] = IF s = r THEN q ELSE req[s]
  BY OneRequest DEF TypeOK
<1>2. clashes' = 0 => clashes = 0
  BY ClashesMean
<1> QED
  BY <1>1, <1>2 DEF FactorInv, InHand

LEMMA FactorEnableCommits ==
  ASSUME TypeOK, FactorInv, NEW r \in Requests, EnableCommits(r)
  PROVE  FactorInv'
<1> DEFINE q == req[r]
           p == [Idle EXCEPT !.pc = "forget"]
           left == Without(q.dels)
<1>1. q \in ReqType /\ user \in UserType /\ Len(sets) \in Nat
  BY Facts DEF TypeOK
<1>2. p \in ReqType /\ p.pc = "forget"
  BY IdleTyped DEF ReqType, PCs
<1>3. /\ user' = TurnedOn(q) /\ sets' = Append(left, "live") /\ q.pc = "on"
      /\ Clashes(q) /\ Becomes(r, p) /\ proven' = proven
  BY DEF EnableCommits, TurnedOn
<1>4. q.secret # 0 /\ q.secret \in proven
  BY <1>3 DEF FactorInv, InHand
<1>5. left \in Seq(SetState) /\ Len(left) = Len(sets)
      /\ \A i \in 1..Len(sets) : left[i] = IF i \in q.dels THEN "deleted" ELSE sets[i]
  BY WithoutTyped
<1> HIDE DEF q, p, left
<1>6. user'.secret = q.secret /\ (user = q.row => user'.enabled = TRUE)
  BY <1>1, <1>3, TurnedOnFields
<1>7. SecretIsProven'
  BY <1>3, <1>4, <1>6 DEF SecretIsProven
<1>8. ASSUME Present = q.dels PROVE Present' \subseteq {Len(sets')}
  <2>1. Len(sets') = Len(sets) + 1 /\ DOMAIN sets' = 1..Len(sets')
    BY <1>1, <1>3, <1>5
  <2>2. \A i \in 1..Len(sets) : sets'[i] = left[i]
    BY <1>1, <1>3, <1>5
  <2>3. \A i \in 1..Len(sets) : sets'[i] = "deleted"
    BY <1>5, <1>8, <2>2, Facts DEF Present
  <2>4. \A i \in DOMAIN sets' : i \in 1..Len(sets) \/ i = Len(sets')
    BY <1>1, <2>1
  <2> QED
    BY <2>3, <2>4 DEF Present
<1>9. Present' \subseteq DOMAIN sets'
  BY DEF Present
<1>10. FactorWhole'
  BY <1>3, <1>4, <1>6, <1>8, <1>9, ClashesMean DEF FactorWhole
<1>11. \A s \in Requests : InHand(req[s])'
  BY <1>2, <1>3, HandsStay
<1> QED
  BY <1>7, <1>10, <1>11 DEF FactorInv

LEMMA FactorDisableCommits ==
  ASSUME TypeOK, FactorInv, NEW r \in Requests, DisableCommits(r)
  PROVE  FactorInv'
<1> DEFINE q == req[r]
<1>1. q \in ReqType /\ q.row \in UserType /\ user \in UserType
  BY DEF TypeOK, ReqType
<1>2. /\ user' = Updated(q.row, Off) /\ sets' = Without(q.dels) /\ q.pc = "off"
      /\ Clashes(q) /\ Becomes(r, Idle) /\ proven' = proven
  BY DEF DisableCommits
<1>3. clashes = 0 => (q.row.enabled <=> q.row.secret # 0)
  BY <1>2 DEF FactorInv, InHand
<1> HIDE DEF q
<1>4. /\ user'.enabled = IF FALSE # q.row.enabled THEN FALSE ELSE user.enabled
      /\ user'.secret = IF 0 # q.row.secret THEN 0 ELSE user.secret
  <2>1. /\ user'.enabled = IF Off.enabled # q.row.enabled THEN Off.enabled ELSE user.enabled
        /\ user'.secret = IF Off.secret # q.row.secret THEN Off.secret ELSE user.secret
    BY <1>1, <1>2, IdleTyped, UpdatedFields
  <2> QED
    BY <2>1, IdleTyped
<1>5. user.enabled \in BOOLEAN /\ q.row.enabled \in BOOLEAN
  BY <1>1 DEF UserType
<1>6. user = q.row => ~user'.enabled /\ user'.secret = 0
  BY <1>4, <1>5
<1>7. SecretIsProven'
  BY <1>2, <1>4 DEF SecretIsProven, FactorInv
<1>8. ASSUME Present = q.dels PROVE Present' = {}
  <2>1. Len(sets') = Len(sets) /\ DOMAIN sets' = 1..Len(sets)
    BY <1>2, WithoutTyped
  <2>2. \A i \in 1..Len(sets) : sets'[i] = IF i \in q.dels THEN "deleted" ELSE sets[i]
    BY <1>2, WithoutTyped
  <2>3. \A i \in 1..Len(sets) : sets'[i] = "deleted"
    BY <1>8, <2>2, Facts DEF Present
  <2> QED
    BY <2>1, <2>3 DEF Present
<1>9. ASSUME clashes' < 2 PROVE user'.enabled => user'.secret # 0
  <2>1. CASE user = q.row
    BY <1>6, <2>1
  <2>2. CASE clashes = 0
    <3>1. user.enabled <=> user.secret # 0
      BY <2>2 DEF FactorInv, FactorWhole
    <3> QED
      BY <1>3, <1>4, <1>5, <2>2, <3>1
  <2> QED
    BY <1>2, <1>9, <2>1, <2>2, ClashesMean
<1>10. FactorWhole'
  BY <1>2, <1>6, <1>8, <1>9, ClashesMean DEF FactorWhole
<1>11. \A s \in Requests : InHand(req[s])'
  BY <1>2, IdleTyped, HandsStay
<1> QED
  BY <1>7, <1>10, <1>11 DEF FactorInv

LEMMA FactorNext ==
  ASSUME TypeOK, FactorInv, [Next]_vars
  PROVE  FactorInv'
<1>1. CASE UNCHANGED vars
  BY <1>1 DEF vars, FactorInv, SecretIsProven, FactorWhole, InHand, Present
<1>2. CASE SetupOffers \/ OfferExpires \/ TimePasses
  BY <1>2 DEF SetupOffers, OfferExpires, TimePasses, Factor,
     FactorInv, SecretIsProven, FactorWhole, InHand, Present
<1>3. CASE Restarts
  <2>1. UNCHANGED <<user, sets, clashes>> /\ proven' = proven /\ req' = [r \in Requests |-> Idle]
    BY <1>3 DEF Restarts, Factor
  <2>2. \A s \in Requests : req'[s] = req[s] \/ InHand(req[s])'
    BY <2>1, IdleTyped DEF InHand
  <2>3. Present' = Present
    BY <2>1 DEF Present
  <2> QED
    BY <2>1, <2>2, <2>3, FactorQuiet
<1>4. ASSUME NEW r \in Requests, RequestStep(r) PROVE FactorInv'
  BY <1>4, FactorVerify, FactorVerifyCommits, FactorEnableProves, FactorDisableArrives,
     FactorEnableCommits, FactorDisableCommits DEF RequestStep
<1> QED
  BY <1>1, <1>2, <1>3, <1>4 DEF Next

\* What is known of the factor is known in every reachable state.
LEMMA FactorKnown == Spec => [](TypeOK /\ FactorInv)
<1>1. Init => TypeOK /\ FactorInv
  <2>1. ASSUME Init PROVE FactorInv
    BY <2>1, IdleTyped DEF Init, FactorInv, SecretIsProven, FactorWhole, InHand, Present
  <2> QED
    BY <2>1, TypesInit
<1>2. TypeOK /\ FactorInv /\ [Next]_vars => (TypeOK /\ FactorInv)'
  BY TypesNext, FactorNext
<1> QED
  BY <1>1, <1>2, PTL DEF Spec

\* Without an overlap the flag, the secret and the codes are one, and one overlap is not
\* enough for an account that asks for codes it cannot check (profile_views.py:119-173).
THEOREM FactorHolds == Spec => []FactorWhole
<1>1. FactorInv => FactorWhole
  BY DEF FactorInv
<1> QED
  BY <1>1, FactorKnown, PTL

\* No secret is stored that its owner has not shown a code of, however the offers, the
\* switching on and off and the administrator's reset overlap (profile_views.py:119-150).
THEOREM SecretProven == Spec => []SecretIsProven
<1>1. FactorInv => SecretIsProven
  BY DEF FactorInv
<1> QED
  BY <1>1, FactorKnown, PTL

-------------------------------------------------------------------------------
(* Codes for recovery.                                                      *)

\* The requests that have found a code of the set unused and have not committed.
Committers(i) == {r \in Requests : req[r].pc = "commit" /\ req[r].set = i}

\* Nobody has signed in with a live code, and every request is counted once: as a sign-in,
\* or as one to come.
RecoveryInv ==
    \A i \in DOMAIN sets :
        /\ sets[i] = "live" => entered[i] = 0
        /\ entered[i] + Cardinality(Committers(i)) <= Cardinality(Requests)

LEMMA Counts ==
  /\ Cardinality(Requests) \in Nat
  /\ \A i : /\ IsFiniteSet(Committers(i)) /\ Cardinality(Committers(i)) \in Nat
            /\ Cardinality(Committers(i)) <= Cardinality(Requests)
  /\ \A i : /\ Cardinality(Committers(i)') \in Nat
            /\ Cardinality(Committers(i)') <= Cardinality(Requests)
<1>1. IsFiniteSet(Requests) /\ Cardinality(Requests) \in Nat
  BY SecondFactorAssumption, FS_CardinalityType
<1>2. ASSUME NEW S, S \subseteq Requests
      PROVE  IsFiniteSet(S) /\ Cardinality(S) \in Nat /\ Cardinality(S) <= Cardinality(Requests)
  BY <1>1, <1>2, FS_Subset, FS_CardinalityType
<1>3. \A i : Committers(i) \subseteq Requests /\ Committers(i)' \subseteq Requests
  BY DEF Committers
<1> QED
  BY <1>1, <1>2, <1>3

\* Fewer commit, and what is live has been: nothing is lost.
LEMMA RecoveryQuiet ==
  ASSUME TypeOK, RecoveryInv, NEW i \in DOMAIN sets, entered'[i] = entered[i],
         sets'[i] = "live" => sets[i] = "live",
         \A r \in Requests : req'[r].pc = "commit" /\ req'[r].set = i
                            => req[r].pc = "commit" /\ req[r].set = i
  PROVE  /\ sets'[i] = "live" => entered'[i] = 0
         /\ entered'[i] + Cardinality(Committers(i)') <= Cardinality(Requests)
<1>1. Committers(i)' \subseteq Committers(i)
  BY DEF Committers
<1>2. Cardinality(Committers(i)') <= Cardinality(Committers(i))
  BY <1>1, Counts, FS_Subset
<1>3. entered[i] \in Nat
  BY Facts
<1> QED
  BY <1>2, <1>3, Counts DEF RecoveryInv

LEMMA RecoveryVerify ==
  ASSUME TypeOK, RecoveryInv, NEW r \in Requests, VerifyRecovery(r)
  PROVE  RecoveryInv'
<1> DEFINE j == req[r].set
           q == [req[r] EXCEPT !.pc = "commit"]
<1>1. sets' = sets /\ entered' = entered /\ req[r] \in ReqType
  BY DEF VerifyRecovery, Factor, TypeOK
<1>2. SUFFICES ASSUME NEW i \in DOMAIN sets
               PROVE  /\ sets'[i] = "live" => entered'[i] = 0
                      /\ entered'[i] + Cardinality(Committers(i)') <= Cardinality(Requests)
  BY <1>1 DEF RecoveryInv
<1>3. q \in ReqType /\ q.set = j
  BY <1>1 DEF ReqType, PCs
<1>4. CASE FindsSet(j)
  <2>1. \A s \in Requests : req'[s] = IF s = r THEN q ELSE req[s]
    BY <1>3, <1>4, OneRequest DEF VerifyRecovery, TypeOK
  <2>2. CASE i = j
    <3>1. entered'[i] = 0
      BY <1>1, <1>4, <2>2 DEF FindsSet, RecoveryInv
    <3>2. 0 + Cardinality(Committers(i)') <= Cardinality(Requests)
      BY Counts
    <3> QED
      BY <3>1, <3>2
  <2>3. CASE i # j
    <3>1. \A s \in Requests : req'[s].pc = "commit" /\ req'[s].set = i
                              => req[s].pc = "commit" /\ req[s].set = i
      BY <1>3, <2>1, <2>3
    <3> QED
      BY <1>1, <3>1, RecoveryQuiet
  <2> QED
    BY <2>2, <2>3
<1>5. CASE ~FindsSet(j)
  <2>1. \A s \in Requests : req'[s] = IF s = r THEN Idle ELSE req[s]
    BY <1>5, IdleTyped, OneRequest DEF VerifyRecovery, TypeOK
  <2>2. \A s \in Requests : req'[s].pc = "commit" /\ req'[s].set = i
                            => req[s].pc = "commit" /\ req[s].set = i
    BY <2>1, IdleTyped
  <2> QED
    BY <1>1, <2>2, RecoveryQuiet
<1> QED
  BY <1>4, <1>5

LEMMA RecoveryCommits ==
  ASSUME TypeOK, RecoveryInv, NEW r \in Requests, VerifyCommits(r)
  PROVE  RecoveryInv'
<1>0. PICK j : j = req[r].set
  OBVIOUS
<1>1. \A s \in Requests : req'[s] = IF s = r THEN Idle ELSE req[s]
  BY IdleTyped, OneRequest DEF VerifyCommits, TypeOK
<1>2. \A i : \A s \in Requests : req'[s].pc = "commit" /\ req'[s].set = i
                               => req[s].pc = "commit" /\ req[s].set = i
  BY <1>1, IdleTyped
<1>3. req[r].pc = "commit" /\ j \in 0..Len(sets) /\ Len(sets) \in Nat
  BY <1>0, Facts DEF VerifyCommits, TypeOK
<1>4. CASE j = 0 \/ sets[j] = "deleted"
  <2>1. sets' = sets /\ entered' = entered
    BY <1>0, <1>4 DEF VerifyCommits
  <2>2. ASSUME NEW i \in DOMAIN sets
        PROVE  /\ sets'[i] = "live" => entered'[i] = 0
               /\ entered'[i] + Cardinality(Committers(i)') <= Cardinality(Requests)
    BY <1>2, <2>1, RecoveryQuiet
  <2> QED
    BY <2>1, <2>2 DEF RecoveryInv
<1>5. CASE ~(j = 0 \/ sets[j] = "deleted")
  <2>1. sets' = [sets EXCEPT ![j] = "used"] /\ entered' = [entered EXCEPT ![j] = @ + 1]
    BY <1>0, <1>5 DEF VerifyCommits
  <2>2. j \in 1..Len(sets)
    BY <1>3, <1>5
  <2>3. /\ DOMAIN sets' = DOMAIN sets
        /\ \A i \in DOMAIN sets : sets'[i] = IF i = j THEN "used" ELSE sets[i]
    BY <2>1, <2>2, Facts
  <2>4. \A i \in DOMAIN sets : entered'[i] = IF i = j THEN entered[j] + 1 ELSE entered[i]
    BY <2>1, <2>2, Facts
  <2>5. Cardinality(Committers(j)') = Cardinality(Committers(j)) - 1
    <3>1. Committers(j)' = Committers(j) \ {r}
      BY <1>0, <1>1, IdleTyped DEF Committers
    <3>2. r \in Committers(j)
      BY <1>0, <1>3 DEF Committers
    <3> QED
      BY <3>1, <3>2, Counts, FS_RemoveElement
  <2>6. ASSUME NEW i \in DOMAIN sets
        PROVE  /\ sets'[i] = "live" => entered'[i] = 0
               /\ entered'[i] + Cardinality(Committers(i)') <= Cardinality(Requests)
    <3>1. CASE i = j
      <4>1. entered[j] \in Nat
        BY <2>2, Facts
      <4>2. entered[j] + Cardinality(Committers(j)) <= Cardinality(Requests)
        BY <2>2, Facts DEF RecoveryInv
      <4>3. (entered[j] + 1) + Cardinality(Committers(j)') <= Cardinality(Requests)
        BY <2>5, <4>1, <4>2, Counts
      <4> QED
        BY <2>3, <2>4, <3>1, <4>3
    <3>2. CASE i # j
      BY <1>2, <2>3, <2>4, <3>2, RecoveryQuiet
    <3> QED
      BY <3>1, <3>2
  <2> QED
    BY <2>3, <2>6 DEF RecoveryInv
<1> QED
  BY <1>4, <1>5

LEMMA RecoveryEnableCommits ==
  ASSUME TypeOK, RecoveryInv, NEW r \in Requests, EnableCommits(r)
  PROVE  RecoveryInv'
<1> DEFINE q == req[r]
           p == [Idle EXCEPT !.pc = "forget"]
           left == Without(q.dels)
           n == Len(sets) + 1
<1>1. Len(sets) \in Nat /\ DOMAIN sets = 1..Len(sets) /\ entered \in Seq(Nat)
      /\ Len(entered) = Len(sets)
  BY Facts DEF TypeOK
<1>2. p \in ReqType /\ p.pc = "forget"
  BY IdleTyped DEF ReqType, PCs
<1>3. sets' = Append(left, "live") /\ entered' = Append(entered, 0) /\ Becomes(r, p)
  BY DEF EnableCommits
<1>4. left \in Seq(SetState) /\ Len(left) = Len(sets)
      /\ \A i \in 1..Len(sets) : left[i] = IF i \in q.dels THEN "deleted" ELSE sets[i]
  BY WithoutTyped
<1> HIDE DEF q, p, left
<1>5. \A s \in Requests : req'[s] = IF s = r THEN p ELSE req[s]
  BY <1>2, <1>3, OneRequest DEF TypeOK
<1>6. DOMAIN sets' = 1..n /\ \A i \in 1..Len(sets) : sets'[i] = left[i]
  BY <1>1, <1>3, <1>4
<1>7. entered'[n] = 0 /\ \A i \in 1..Len(sets) : entered'[i] = entered[i]
  BY <1>1, <1>3
<1>8. ASSUME NEW i \in 1..n
      PROVE  /\ sets'[i] = "live" => entered'[i] = 0
             /\ entered'[i] + Cardinality(Committers(i)') <= Cardinality(Requests)
  <2>1. CASE i = n
    <3>1. 0 + Cardinality(Committers(i)') <= Cardinality(Requests)
      BY Counts
    <3> QED
      BY <1>7, <2>1, <3>1
  <2>2. CASE i # n
    <3>1. i \in DOMAIN sets
      BY <1>1, <2>2
    <3>2. \A s \in Requests : req'[s].pc = "commit" /\ req'[s].set = i
                              => req[s].pc = "commit" /\ req[s].set = i
      BY <1>2, <1>5
    <3>3. sets'[i] = "live" => sets[i] = "live"
      BY <1>1, <1>4, <1>6, <3>1
    <3> QED
      BY <1>1, <1>7, <3>1, <3>2, <3>3, RecoveryQuiet
  <2> QED
    BY <2>1, <2>2
<1> QED
  BY <1>6, <1>8 DEF RecoveryInv

NoRecovery(q) == q.pc # "commit" \/ q.set = 0

\* The steps that touch neither the sets nor a commit.
LEMMA RecoveryOther ==
  ASSUME TypeOK, RecoveryInv, entered' = entered, DOMAIN sets' = DOMAIN sets,
         \A i \in DOMAIN sets : sets'[i] = "live" => sets[i] = "live",
         \A r \in Requests : req'[r] = req[r] \/ NoRecovery(req'[r])
  PROVE  RecoveryInv'
<1>1. ASSUME NEW i \in DOMAIN sets
      PROVE  /\ sets'[i] = "live" => entered'[i] = 0
             /\ entered'[i] + Cardinality(Committers(i)') <= Cardinality(Requests)
  <2>1. i # 0
    BY Facts
  <2> QED
    BY <2>1, RecoveryQuiet DEF NoRecovery
<1> QED
  BY <1>1 DEF RecoveryInv

LEMMA RecoveryNext ==
  ASSUME TypeOK, RecoveryInv, [Next]_vars
  PROVE  RecoveryInv'
<1>1. CASE UNCHANGED vars
  BY <1>1 DEF vars, RecoveryInv, Committers
<1>2. CASE SetupOffers \/ OfferExpires \/ TimePasses
  BY <1>2 DEF SetupOffers, OfferExpires, TimePasses, Factor, RecoveryInv, Committers
<1>3. CASE Restarts
  <2>1. sets' = sets /\ entered' = entered /\ req' = [r \in Requests |-> Idle]
    BY <1>3 DEF Restarts, Factor
  <2>2. \A r \in Requests : req'[r].pc # "commit"
    BY <2>1, IdleTyped
  <2>3. \A r \in Requests : req'[r] = req[r] \/ NoRecovery(req'[r])
    BY <2>2 DEF NoRecovery
  <2> QED
    BY <2>1, <2>3, RecoveryOther
<1>4. ASSUME NEW r \in Requests, RequestStep(r), ~VerifyRecovery(r), ~VerifyCommits(r),
             ~EnableCommits(r)
      PROVE  RecoveryInv'
  <2>1. req \in [Requests -> ReqType] /\ req[r] \in ReqType
    BY DEF TypeOK
  <2>2. PICK q : Becomes(r, q) /\ (q.pc = "commit" => q.set = 0)
    <3>1. \A step, i : [Idle EXCEPT !.pc = "check", !.step = step, !.set = i].pc = "check"
      BY DEF Idle
    <3>2. [Idle EXCEPT !.pc = "commit"].set = 0
      BY DEF Idle
    <3>3. [Idle EXCEPT !.pc = "enable", !.row = user].pc = "enable"
      BY DEF Idle
    <3>4. [req[r] EXCEPT !.pc = "on", !.secret = offered, !.dels = Present].pc = "on"
      BY <2>1 DEF ReqType
    <3>5. [Idle EXCEPT !.pc = "off", !.row = user, !.dels = Present].pc = "off"
      BY DEF Idle
    <3>6. ASSUME NEW step, NEW i, VerifyReads(r, step, i)
          PROVE  \E q : Becomes(r, q) /\ (q.pc = "commit" => q.set = 0)
      BY <3>1, <3>6 DEF VerifyReads
    <3>7. CASE VerifyTotp(r)
      BY <3>2, <3>7, IdleTyped DEF VerifyTotp
    <3>8. CASE EnableArrives(r)
      BY <3>3, <3>8 DEF EnableArrives
    <3>9. CASE \E step \in Steps : EnableProves(r, step)
      BY <3>4, <3>9 DEF EnableProves
    <3>10. CASE DisableArrives(r)
      BY <3>5, <3>10 DEF DisableArrives
    <3>11. CASE EnableForgets(r) \/ GivesUp(r) \/ DisableCommits(r)
      BY <3>11, IdleTyped DEF EnableForgets, GivesUp, DisableCommits
    <3> QED
      BY <1>4, <3>6, <3>7, <3>8, <3>9, <3>10, <3>11 DEF RequestStep
  <2>3. \A s \in Requests : req'[s] = IF s = r THEN q ELSE req[s]
    BY <2>1, <2>2 DEF Becomes
  <2>4. \A s \in Requests : req'[s] = req[s] \/ NoRecovery(req'[s])
    BY <2>2, <2>3 DEF NoRecovery
  <2>5. entered' = entered
    BY <1>4 DEF RequestStep, VerifyReads, VerifyTotp, EnableArrives,
       EnableProves, DisableArrives, EnableForgets, DisableCommits, GivesUp
  <2>6. /\ DOMAIN sets' = DOMAIN sets
        /\ \A i \in DOMAIN sets : sets'[i] = "live" => sets[i] = "live"
    <3>1. CASE DisableCommits(r)
      <4>1. sets' = Without(req[r].dels)
        BY <3>1 DEF DisableCommits
      <4> QED
        BY <4>1 DEF Without
    <3>2. CASE sets' = sets
      BY <3>2
    <3> QED
      BY <1>4, <3>1, <3>2 DEF RequestStep, VerifyReads, VerifyTotp, EnableArrives,
         EnableProves, DisableArrives, EnableForgets, GivesUp, Factor
  <2> QED
    BY <2>4, <2>5, <2>6, RecoveryOther
<1> QED
  BY <1>1, <1>2, <1>3, <1>4, RecoveryVerify, RecoveryCommits, RecoveryEnableCommits DEF Next

\* A code for recovery signs in no more often than requests can overlap: all that get past
\* the SELECT are under way when the first of them commits (auth_views.py:266-286).
THEOREM RecoveryHolds == Spec => []RecoveryBounded
<1> DEFINE IInv == TypeOK /\ RecoveryInv
<1>1. Init => IInv
  BY TypesInit DEF Init, RecoveryInv
<1>2. IInv /\ [Next]_vars => IInv'
  BY TypesNext, RecoveryNext
<1>3. IInv => RecoveryBounded
  <2> SUFFICES ASSUME IInv, NEW i \in DOMAIN entered PROVE entered[i] <= Cardinality(Requests)
    BY DEF RecoveryBounded
  <2>1. i \in DOMAIN sets /\ entered[i] \in Nat
    BY Facts
  <2> QED
    BY <2>1, Counts DEF RecoveryInv
<1> HIDE DEF IInv
<1> QED
  BY <1>1, <1>2, <1>3, PTL DEF Spec

===============================================================================
