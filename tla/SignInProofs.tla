---------------------------- MODULE SignInProofs ----------------------------
(***************************************************************************)
(* Proofs about RateLimit and SignIn, for all limits, windows, locks and    *)
(* numbers of requests.                                                     *)
(***************************************************************************)
EXTENDS SignIn, TLAPS

-------------------------------------------------------------------------------
(* The counter.  Passes before the present window are older than it, and    *)
(* all but the last Limit of them older by a whole window.                  *)

Opened == bucket.expires - Window
Before == Len(passes) - bucket.count

WindowInv ==
    \/ bucket = NoBucket /\ passes = <<>>
    \/ /\ bucket.count \in 1..Limit
       /\ Opened <= now
       /\ \A i \in 1..Len(passes) :
            /\ passes[i] < bucket.expires
            /\ i <= Before => passes[i] < Opened
            /\ i <= Before - Limit => passes[i] + Window < Opened

LimitInv == LimitTypeOK /\ WindowInv /\ TwiceAtMost

LEMMA LimitInitially == LimitInit => LimitInv
<1> SUFFICES ASSUME LimitInit PROVE LimitInv
  OBVIOUS
<1> USE LimitAssumption DEF LimitInit, NoBucket
<1>1. LimitTypeOK
  BY DEF LimitTypeOK
<1>2. WindowInv
  BY DEF WindowInv
<1>3. TwiceAtMost
  BY DEF TwiceAtMost
<1> QED
  BY <1>1, <1>2, <1>3 DEF LimitInv

LEMMA HitKeeps == LimitInv /\ Hit => LimitInv'
<1> SUFFICES ASSUME LimitInv, Hit PROVE LimitInv'
  OBVIOUS
<1> USE LimitAssumption
<1>0. /\ now \in 0..MaxTime /\ now \in Nat /\ bucket.count \in 0..Limit /\ bucket.expires \in Nat
      /\ bucket = [count |-> bucket.count, expires |-> bucket.expires]
      /\ passes \in Seq(0..MaxTime) /\ now' = now
      /\ Len(passes) \in Nat /\ \A i \in 1..Len(passes) : passes[i] \in Nat
  BY DEF LimitInv, LimitTypeOK, Hit
<1>1. CASE Running /\ ~Admits
  <2>1. bucket' = bucket /\ passes' = passes
    BY <1>0, <1>1 DEF Hit, Counted
  <2> QED
    BY <1>0, <2>1 DEF LimitInv, LimitTypeOK, WindowInv, TwiceAtMost, Opened, Before, NoBucket
<1>2. CASE Running /\ Admits
  <2>1. /\ bucket' = [count |-> bucket.count + 1, expires |-> bucket.expires]
        /\ passes' = Append(passes, now)
        /\ bucket.count + 1 \in 1..Limit
    BY <1>0, <1>2 DEF Hit, Counted, Admits
  <2>2. now < bucket.expires /\ bucket # NoBucket
    BY <1>0, <1>2 DEF Running, NoBucket
  <2>3. /\ Opened <= now
        /\ \A i \in 1..Len(passes) :
            /\ passes[i] < bucket.expires
            /\ i <= Before => passes[i] < Opened
            /\ i <= Before - Limit => passes[i] + Window < Opened
    BY <2>2 DEF LimitInv, WindowInv
  <2>4. /\ Len(passes') = Len(passes) + 1
        /\ \A i \in 1..Len(passes) : passes'[i] = passes[i]
        /\ passes'[Len(passes) + 1] = now
    BY <1>0, <2>1
  <2>5. Opened' = Opened /\ Before' = Before
    BY <1>0, <2>1, <2>4 DEF Opened, Before
  <2>5a. Opened \in Int /\ Before \in Int
    BY <1>0 DEF Opened, Before
  <2>6. LimitTypeOK'
    BY <1>0, <2>1 DEF LimitTypeOK
  <2>7. WindowInv'
    <3>1. /\ bucket'.count \in 1..Limit /\ bucket'.expires = bucket.expires
          /\ Opened' <= now'
      BY <1>0, <2>1, <2>3, <2>5
    <3>2. Before < Len(passes) + 1 /\ Before - Limit < Len(passes) + 1
      BY <1>0, <2>5a DEF Before
    <3>3. \A i \in 1..Len(passes') :
            /\ passes'[i] < bucket'.expires
            /\ i <= Before' => passes'[i] < Opened'
            /\ i <= Before' - Limit => passes'[i] + Window < Opened'
      <4> SUFFICES ASSUME NEW i \in 1..Len(passes')
                   PROVE  /\ passes'[i] < bucket'.expires
                          /\ i <= Before' => passes'[i] < Opened'
                          /\ i <= Before' - Limit => passes'[i] + Window < Opened'
        OBVIOUS
      <4>1. CASE i \in 1..Len(passes)
        <5>1. passes'[i] = passes[i]
          BY <2>4, <4>1
        <5> QED
          BY <2>3, <2>5, <3>1, <4>1, <5>1
      <4>2. CASE i = Len(passes) + 1
        <5>1. passes'[i] = now
          BY <2>4, <4>2
        <5> QED
          BY <1>0, <2>2, <2>5, <2>5a, <3>1, <3>2, <4>2, <5>1
      <4> QED
        BY <1>0, <2>4, <4>1, <4>2
    <3> QED
      BY <3>1, <3>3 DEF WindowInv
  <2>8. TwiceAtMost'
    <3> SUFFICES ASSUME NEW i \in 1..Len(passes'), i + 2 * Limit <= Len(passes')
                 PROVE  passes'[i + 2 * Limit] - passes'[i] > Window
      BY DEF TwiceAtMost
    <3>1. i \in 1..Len(passes) /\ passes'[i] = passes[i]
      BY <1>0, <2>4
    <3>2. CASE i + 2 * Limit <= Len(passes)
      <4>1. i + 2 * Limit \in 1..Len(passes)
        BY <1>0, <3>1, <3>2
      <4> QED
        BY <2>4, <3>1, <3>2, <4>1 DEF LimitInv, TwiceAtMost
    <3>3. CASE i + 2 * Limit = Len(passes) + 1
      <4>1. i <= Before - Limit
        BY <1>0, <2>1, <3>1, <3>3 DEF Before
      <4>2. passes[i] + Window < Opened
        BY <2>3, <3>1, <4>1
      <4>3. passes'[i + 2 * Limit] = now
        BY <2>4, <3>3
      <4>4. passes[i] \in Nat
        BY <1>0, <3>1
      <4>5. Opened \in Int /\ Opened <= now /\ now \in Nat /\ Window \in Nat
        BY <1>0, <2>3, <2>5a
      <4>6. now - passes[i] > Window
        BY <4>2, <4>4, <4>5
      <4> QED
        BY <3>1, <4>3, <4>6
    <3> QED
      BY <1>0, <2>4, <3>1, <3>2, <3>3
  <2> QED
    BY <2>6, <2>7, <2>8 DEF LimitInv
<1>3. CASE ~Running
  <2>1. /\ bucket' = [count |-> 1, expires |-> now + Window]
        /\ passes' = Append(passes, now)
    BY <1>0, <1>3 DEF Hit, Counted, Admits
  <2>2. /\ Len(passes') = Len(passes) + 1
        /\ \A i \in 1..Len(passes) : passes'[i] = passes[i]
        /\ passes'[Len(passes) + 1] = now
    BY <1>0, <2>1
  <2>3. Opened' = now /\ Before' = Len(passes)
    BY <1>0, <2>1, <2>2 DEF Opened, Before
  <2>4. \A i \in 1..Len(passes) :
            passes[i] < now /\ (i <= Len(passes) - Limit => passes[i] + Window < now)
    <3>1. CASE bucket = NoBucket /\ passes = <<>>
      BY <3>1
    <3>2. CASE ~(bucket = NoBucket /\ passes = <<>>)
      <4>1. /\ bucket.count \in 1..Limit
            /\ \A i \in 1..Len(passes) :
                  /\ passes[i] < bucket.expires
                  /\ i <= Before => passes[i] < Opened
        BY <3>2 DEF LimitInv, WindowInv
      <4>2. bucket.expires <= now
        BY <1>0, <1>3 DEF Running
      <4> SUFFICES ASSUME NEW i \in 1..Len(passes)
                   PROVE  passes[i] < now /\ (i <= Len(passes) - Limit => passes[i] + Window < now)
        OBVIOUS
      <4>3. passes[i] < bucket.expires /\ (i <= Before => passes[i] < Opened) /\ passes[i] \in Nat
        BY <1>0, <4>1
      <4>4. i <= Len(passes) - Limit => i <= Before
        BY <1>0, <4>1 DEF Before
      <4>5. passes[i] < Opened => passes[i] + Window < bucket.expires
        BY <1>0, <4>3 DEF Opened
      <4> QED
        BY <1>0, <4>2, <4>3, <4>4, <4>5
    <3> QED
      BY <3>1, <3>2
  <2>5. LimitTypeOK'
    BY <1>0, <2>1 DEF LimitTypeOK
  <2>6. WindowInv'
    <3>1. bucket'.count \in 1..Limit /\ bucket'.expires = now + Window /\ Opened' <= now'
      BY <1>0, <2>1, <2>3
    <3>2. \A i \in 1..Len(passes') :
            /\ passes'[i] < bucket'.expires
            /\ i <= Before' => passes'[i] < Opened'
            /\ i <= Before' - Limit => passes'[i] + Window < Opened'
      <4> SUFFICES ASSUME NEW i \in 1..Len(passes')
                   PROVE  /\ passes'[i] < bucket'.expires
                          /\ i <= Before' => passes'[i] < Opened'
                          /\ i <= Before' - Limit => passes'[i] + Window < Opened'
        OBVIOUS
      <4>1. CASE i \in 1..Len(passes)
        <5>1. passes'[i] = passes[i]
          BY <2>2, <4>1
        <5>2. passes[i] \in Nat /\ passes[i] < now
          BY <1>0, <2>4, <4>1
        <5>3. i <= Len(passes) - Limit => passes[i] + Window < now
          BY <2>4, <4>1
        <5> QED
          BY <1>0, <2>3, <3>1, <5>1, <5>2, <5>3
      <4>2. CASE i = Len(passes) + 1
        <5>1. passes'[i] = now
          BY <2>2, <4>2
        <5> QED
          BY <1>0, <2>3, <3>1, <4>2, <5>1
      <4> QED
        BY <1>0, <2>2, <4>1, <4>2
    <3> QED
      BY <3>1, <3>2 DEF WindowInv
  <2>7. TwiceAtMost'
    <3> SUFFICES ASSUME NEW i \in 1..Len(passes'), i + 2 * Limit <= Len(passes')
                 PROVE  passes'[i + 2 * Limit] - passes'[i] > Window
      BY DEF TwiceAtMost
    <3>1. i \in 1..Len(passes) /\ passes'[i] = passes[i]
      BY <1>0, <2>2
    <3>2. CASE i + 2 * Limit <= Len(passes)
      <4>1. i + 2 * Limit \in 1..Len(passes)
        BY <1>0, <3>1, <3>2
      <4> QED
        BY <2>2, <3>1, <3>2, <4>1 DEF LimitInv, TwiceAtMost
    <3>3. CASE i + 2 * Limit = Len(passes) + 1
      <4>1. i <= Len(passes) - Limit
        BY <1>0, <3>1, <3>3
      <4>2. passes'[i + 2 * Limit] = now
        BY <2>2, <3>3
      <4>3. now - passes[i] > Window
        BY <1>0, <2>4, <3>1, <4>1
      <4> QED
        BY <3>1, <4>2, <4>3
    <3> QED
      BY <1>0, <2>2, <3>1, <3>2, <3>3
  <2> QED
    BY <2>5, <2>6, <2>7 DEF LimitInv
<1> QED
  BY <1>1, <1>2, <1>3

LEMMA LimitStep == LimitInv /\ [LimitNext]_limitVars => LimitInv'
<1> SUFFICES ASSUME LimitInv, [LimitNext]_limitVars PROVE LimitInv'
  OBVIOUS
<1> USE LimitAssumption
<1>1. CASE Hit
  BY <1>1, HitKeeps
<1>2. CASE Reset
  <2>1. bucket' = NoBucket /\ passes' = <<>> /\ now' = now
    BY <1>2 DEF Reset
  <2>2. LimitTypeOK'
    BY <2>1 DEF LimitInv, LimitTypeOK, NoBucket
  <2>3. WindowInv'
    BY <2>1 DEF WindowInv, NoBucket
  <2>4. TwiceAtMost'
    BY <2>1 DEF TwiceAtMost
  <2> QED
    BY <2>2, <2>3, <2>4 DEF LimitInv
<1>3. CASE Tick
  <2>1. bucket' = bucket /\ passes' = passes /\ now' = now + 1 /\ now < MaxTime /\ now \in 0..MaxTime
    BY <1>3 DEF Tick, LimitInv, LimitTypeOK
  <2>2. LimitTypeOK'
    BY <2>1 DEF LimitInv, LimitTypeOK
  <2>3. WindowInv'
    BY <2>1 DEF LimitInv, LimitTypeOK, WindowInv, NoBucket, Opened, Before
  <2>4. TwiceAtMost'
    BY <2>1 DEF LimitInv, TwiceAtMost
  <2> QED
    BY <2>2, <2>3, <2>4 DEF LimitInv
<1>4. CASE UNCHANGED limitVars
  BY <1>4 DEF limitVars, LimitInv, LimitTypeOK, WindowInv, TwiceAtMost, NoBucket, Opened, Before
<1> QED
  BY <1>1, <1>2, <1>3, <1>4 DEF LimitNext

\* Whatever the limit and the window, no more than twice the limit passes in any stretch as
\* long as a window, with resets at any time (ratelimit.py:3-11).
THEOREM TwiceTheLimit == LimitSpec => []TwiceAtMost
<1>1. LimitInv => TwiceAtMost
  BY DEF LimitInv
<1> QED
  BY <1>1, LimitInitially, LimitStep, PTL DEF LimitSpec

-------------------------------------------------------------------------------
(* The steps of signing in, seen by the counter.                            *)

LEMMA StepOfTheCounter == [Next]_vars => [LimitNext]_limitVars
<1> SUFFICES ASSUME [Next]_vars PROVE LimitNext \/ UNCHANGED limitVars
  OBVIOUS
<1> USE DEF limitVars, rowVars, LimitNext
<1>1. ASSUME NEW r \in Requests, RequestStep(r)
      PROVE  LimitNext \/ UNCHANGED limitVars
  <2>1. CASE \E pw \in Guesses, byIp \in BOOLEAN : LoginArrives(r, pw, byIp)
    BY <2>1 DEF LoginArrives
  <2>2. CASE LoginReads(r) \/ LoginMisses(r) \/ LoginSucceeds(r)
    BY <2>2 DEF LoginReads, LoginMisses, LoginSucceeds
  <2>3. CASE LoginResets(r) \/ LoginStops(r)
    BY <2>3 DEF LoginResets, LoginStops
  <2>4. CASE ChangeArrives(r) \/ ChangeCommits(r) \/ ForgotArrives(r) \/ ForgotCommits(r)
    BY <2>4 DEF ChangeArrives, ChangeCommits, ForgotArrives, ForgotCommits
  <2>5. CASE (\E i \in DOMAIN links : ResetArrives(r, i)) \/ ResetCommits(r) \/ GivesUp(r)
    BY <2>5 DEF ResetArrives, ResetCommits, GivesUp
  <2> QED
    BY <1>1, <2>1, <2>2, <2>3, <2>4, <2>5 DEF RequestStep
<1>2. CASE CliResets
  BY <1>2 DEF CliResets
<1>3. CASE Restarts
  BY <1>3 DEF Restarts
<1>4. CASE TimePasses
  BY <1>4 DEF TimePasses
<1>5. CASE UNCHANGED vars
  BY <1>5 DEF vars
<1> QED
  BY <1>1, <1>2, <1>3, <1>4, <1>5 DEF Next

\* However attempts, resets of the counter and everything else about an account interleave,
\* its counter lets through no more than twice the limit in a window's time.
THEOREM CounterHolds == Spec => [](LimitInv /\ TwiceAtMost)
<1>1. Init => LimitInv
  BY LimitInitially DEF Init
<1>2. LimitInv /\ [Next]_vars => LimitInv'
  BY LimitStep, StepOfTheCounter
<1>3. LimitInv => TwiceAtMost
  BY DEF LimitInv
<1> QED
  BY <1>1, <1>2, <1>3, PTL DEF Spec

-------------------------------------------------------------------------------
(* Types.                                                                   *)

RowsTypeOK ==
    /\ user \in UserType
    /\ links \in Seq(LinkType) /\ Len(links) <= MaxLinks
    /\ req \in [Requests -> ReqType]
    /\ \A r \in Requests : req[r].pc = "reset" => req[r].link \in 1..Len(links)
    /\ latest \in 0..MaxChanges
    /\ lateHash \in BOOLEAN

LEMMA Typed == RowsTypeOK /\ LimitTypeOK <=> TypeOK
BY DEF RowsTypeOK, TypeOK

LEMMA NewUserTyped == NewUser \in UserType /\ Idle \in ReqType
<1> USE SignInAssumption, LimitAssumption
<1>1. NewUser \in UserType
  BY DEF NewUser, UserType
<1> QED
  BY <1>1 DEF Idle, ReqType, PCs, Guesses

LEMMA UpdatedFields ==
  ASSUME user \in UserType, NEW row \in UserType, NEW wanted \in UserType
  PROVE  /\ Updated(row, wanted) \in UserType
         /\ Updated(row, wanted).pw = IF wanted.pw # row.pw THEN wanted.pw ELSE user.pw
         /\ Updated(row, wanted).old = IF wanted.old # row.old THEN wanted.old ELSE user.old
         /\ Updated(row, wanted).locked = IF wanted.locked # row.locked THEN wanted.locked
                                          ELSE user.locked
<1>1. Updated(row, wanted) =
        [pw     |-> IF wanted.pw # row.pw THEN wanted.pw ELSE user.pw,
         old    |-> IF wanted.old # row.old THEN wanted.old ELSE user.old,
         failed |-> IF wanted.failed # row.failed THEN wanted.failed ELSE user.failed,
         locked |-> IF wanted.locked # row.locked THEN wanted.locked ELSE user.locked]
  BY DEF Updated, UserType
<1> QED
  BY <1>1 DEF UserType

LEMMA MissedTyped ==
  ASSUME NEW row \in UserType, NEW at \in 0..MaxTime
  PROVE  /\ Missed(row, at) \in UserType
         /\ Missed(row, at).pw = row.pw /\ Missed(row, at).old = row.old
         /\ Missed(row, at).locked \in {row.locked, at + LockTime}
<1> USE SignInAssumption, LimitAssumption
<1>1. row = [pw |-> row.pw, old |-> row.old, failed |-> row.failed, locked |-> row.locked]
  BY DEF UserType
<1>2. row.pw \in 0..MaxChanges /\ row.old \in BOOLEAN /\ row.failed \in 0..(MaxFailed - 1)
      /\ row.locked \in 0..(MaxTime + LockTime)
  BY DEF UserType
<1>3. CASE row.failed + 1 >= MaxFailed
  <2>1. Missed(row, at) = [pw |-> row.pw, old |-> row.old, failed |-> 0, locked |-> at + LockTime]
    BY <1>1, <1>3 DEF Missed
  <2>2. at + LockTime \in 0..(MaxTime + LockTime) /\ 0 \in 0..(MaxFailed - 1)
    OBVIOUS
  <2> QED
    BY <1>2, <2>1, <2>2 DEF UserType
<1>4. CASE ~(row.failed + 1 >= MaxFailed)
  <2>1. Missed(row, at) = [pw |-> row.pw, old |-> row.old, failed |-> row.failed + 1,
                           locked |-> row.locked]
    BY <1>1, <1>4 DEF Missed
  <2>2. row.failed + 1 \in 0..(MaxFailed - 1)
    BY <1>2, <1>4
  <2> QED
    BY <1>2, <2>1, <2>2 DEF UserType
<1> QED
  BY <1>3, <1>4

LEMMA ClearedTyped ==
  ASSUME NEW row \in UserType
  PROVE  /\ [row EXCEPT !.failed = 0, !.locked = 0] \in UserType
         /\ [row EXCEPT !.failed = 0, !.locked = 0].pw = row.pw
         /\ [row EXCEPT !.failed = 0, !.locked = 0].old = row.old
<1> USE SignInAssumption, LimitAssumption
<1>1. 0 \in 0..(MaxFailed - 1) /\ 0 \in 0..(MaxTime + LockTime)
  OBVIOUS
<1>2. [row EXCEPT !.failed = 0, !.locked = 0] \in UserType
  BY <1>1 DEF UserType
<1>3. [row EXCEPT !.failed = 0, !.locked = 0].pw = row.pw
  BY DEF UserType
<1>4. [row EXCEPT !.failed = 0, !.locked = 0].old = row.old
  BY DEF UserType
<1> QED
  BY <1>2, <1>3, <1>4

LEMMA PasswordSet ==
  ASSUME NEW row \in UserType, NEW n \in 0..MaxChanges, NEW o \in BOOLEAN
  PROVE  /\ [row EXCEPT !.pw = n, !.old = o] \in UserType
         /\ [row EXCEPT !.pw = n, !.old = o].pw = n
         /\ [row EXCEPT !.pw = n, !.old = o].old = o
         /\ [row EXCEPT !.pw = n, !.old = o].locked = row.locked
<1>1. [row EXCEPT !.pw = n, !.old = o] \in UserType
  BY DEF UserType
<1>2. [row EXCEPT !.pw = n, !.old = o].pw = n
  BY DEF UserType
<1>3. [row EXCEPT !.pw = n, !.old = o].old = o
  BY DEF UserType
<1>4. [row EXCEPT !.pw = n, !.old = o].locked = row.locked
  BY DEF UserType
<1> QED
  BY <1>1, <1>2, <1>3, <1>4

-------------------------------------------------------------------------------
(* The inductive invariant.  A hash with old parameters is only met where    *)
(* the first one was, and a request that asks for a letter has noted every   *)
(* link that was there and not used.                                        *)

HashKnown ==
    /\ user.old => OldHash
    /\ \A r \in Requests : req[r].row.old => OldHash

LinksSeen ==
    \A r \in Requests : req[r].pc = "forgot" =>
        /\ req[r].link <= Len(links)
        /\ \A i \in 1..req[r].link : links[i].used \/ i \in req[r].rows

SignInInv == RowsTypeOK /\ HashKnown /\ PasswordStays /\ LinksSeen /\ OneWorkingReset

LEMMA SignInInitially == Init => SignInInv
<1> SUFFICES ASSUME Init PROVE SignInInv
  OBVIOUS
<1> USE SignInAssumption, LimitAssumption, NewUserTyped DEF Init
<1>0. /\ Idle.pc = "idle" /\ Idle.row = NewUser /\ NewUser.old = OldHash /\ NewUser.pw = 0
      /\ links = <<>> /\ Len(links) = 0
  BY DEF Idle, NewUser
<1>1. RowsTypeOK
  <2>0. lateHash \in BOOLEAN
    OBVIOUS
  <2>1. user \in UserType /\ latest \in 0..MaxChanges
    BY <1>0
  <2>2. links \in Seq(LinkType) /\ Len(links) <= MaxLinks
    BY <1>0
  <2>3. req \in [Requests -> ReqType] /\ \A r \in Requests : req[r].pc = "idle"
    BY <1>0
  <2> QED
    BY <2>0, <2>1, <2>2, <2>3 DEF RowsTypeOK
<1>2. HashKnown
  BY <1>0 DEF HashKnown
<1>3. PasswordStays
  BY <1>0 DEF PasswordStays
<1>4. LinksSeen
  BY <1>0 DEF LinksSeen
<1>5. OneWorkingReset
  BY <1>0 DEF OneWorkingReset
<1> QED
  BY <1>1, <1>2, <1>3, <1>4, <1>5 DEF SignInInv

\* A request moves on; the links and the clock stay.
LEMMA RequestMoves ==
  ASSUME SignInInv, NEW r \in Requests, NEW q \in ReqType, Becomes(r, q),
         user' \in UserType, latest' \in 0..MaxChanges, lateHash' \in BOOLEAN,
         user'.old => OldHash, q.row.old => OldHash, PasswordStays',
         links' = links, now' = now,
         q.pc = "reset" => q.link \in 1..Len(links),
         q.pc = "forgot" => /\ q.link <= Len(links)
                            /\ \A i \in 1..q.link : links[i].used \/ i \in q.rows
  PROVE  SignInInv'
<1>0. req' = [req EXCEPT ![r] = q] /\ req \in [Requests -> ReqType]
  BY DEF Becomes, SignInInv, RowsTypeOK
<1>1. req' \in [Requests -> ReqType] /\ \A s \in Requests : req'[s] = IF s = r THEN q ELSE req[s]
  BY <1>0
<1>2. RowsTypeOK'
  BY <1>1 DEF SignInInv, RowsTypeOK
<1>3. HashKnown'
  BY <1>1 DEF SignInInv, HashKnown
<1>4. LinksSeen'
  BY <1>1 DEF SignInInv, LinksSeen
<1>5. OneWorkingReset'
  BY DEF SignInInv, OneWorkingReset, Working
<1> QED
  BY <1>2, <1>3, <1>4, <1>5 DEF SignInInv

LEMMA IdleFacts ==
  /\ Idle \in ReqType /\ Idle.pc = "idle" /\ (Idle.row.old => OldHash)
BY NewUserTyped DEF Idle, NewUser

\* Nothing but what a request has read changes.
LEMMA RequestReads ==
  ASSUME SignInInv, NEW r \in Requests, NEW q \in ReqType, Becomes(r, q),
         UNCHANGED rowVars, now' = now, q.row.old => OldHash,
         q.pc = "reset" => q.link \in 1..Len(links),
         q.pc = "forgot" => /\ q.link <= Len(links)
                            /\ \A i \in 1..q.link : links[i].used \/ i \in q.rows
  PROVE  SignInInv'
<1>1. user' = user /\ links' = links /\ latest' = latest /\ lateHash' = lateHash
  BY DEF rowVars
<1>2. /\ user' \in UserType /\ latest' \in 0..MaxChanges /\ lateHash' \in BOOLEAN
      /\ user'.old => OldHash
  BY <1>1 DEF SignInInv, RowsTypeOK, HashKnown
<1>3. PasswordStays'
  BY <1>1 DEF SignInInv, PasswordStays
<1> QED
  BY <1>1, <1>2, <1>3, RequestMoves

LEMMA LoginKeeps ==
  ASSUME SignInInv, LimitTypeOK, NEW r \in Requests,
         \/ \E pw \in Guesses, byIp \in BOOLEAN : LoginArrives(r, pw, byIp)
         \/ LoginReads(r) \/ LoginMisses(r) \/ LoginSucceeds(r) \/ LoginResets(r) \/ LoginStops(r)
  PROVE  SignInInv'
<1> USE SignInAssumption, LimitAssumption
<1>0. /\ user \in UserType /\ req[r] \in ReqType /\ req[r].row \in UserType
      /\ req[r].at \in 0..MaxTime /\ req[r].pw \in Guesses
      /\ latest \in 0..MaxChanges /\ lateHash \in BOOLEAN /\ now \in 0..MaxTime
      /\ user.old => OldHash
      /\ req[r].row.old => OldHash
  BY DEF SignInInv, RowsTypeOK, HashKnown, ReqType, LimitTypeOK
<1>1. ASSUME NEW pw \in Guesses, NEW byIp \in BOOLEAN, LoginArrives(r, pw, byIp)
      PROVE  SignInInv'
  <2> DEFINE q == [Idle EXCEPT !.pc = "login", !.pw = pw]
  <2>1. q \in ReqType
    BY IdleFacts DEF ReqType, PCs
  <2>2. q.pc = "login" /\ q.row = Idle.row
    BY IdleFacts DEF ReqType
  <2>3. PICK p \in {q, Idle} : Becomes(r, p)
    BY <1>1 DEF LoginArrives
  <2>4. p \in ReqType /\ p.pc \in {"login", "idle"} /\ (p.row.old => OldHash)
    BY <2>1, <2>2, <2>3, IdleFacts
  <2>5. UNCHANGED rowVars /\ now' = now
    BY <1>1 DEF LoginArrives, Hit
  <2> QED
    BY <2>3, <2>4, <2>5, RequestReads
<1>2. CASE LoginReads(r)
  <2> DEFINE q == [req[r] EXCEPT !.pc = "verify", !.row = user, !.at = now]
  <2>1. q \in ReqType
    BY <1>0 DEF ReqType, PCs
  <2>2. q.pc = "verify"
    BY <1>0 DEF ReqType
  <2>3. q.row = user
    BY <1>0 DEF ReqType
  <2>4. PICK p \in {q, Idle} : Becomes(r, p)
    BY <1>2 DEF LoginReads
  <2>5. p \in ReqType /\ p.pc \in {"verify", "idle"} /\ (p.row.old => OldHash)
    BY <1>0, <2>1, <2>2, <2>3, <2>4, IdleFacts
  <2>6. UNCHANGED rowVars /\ now' = now
    BY <1>2 DEF LoginReads
  <2> QED
    BY <2>4, <2>5, <2>6, RequestReads
<1>3. CASE LoginMisses(r)
  <2> DEFINE wanted == Missed(req[r].row, req[r].at)
  <2>1. /\ Becomes(r, Idle) /\ user' = Updated(req[r].row, wanted)
        /\ now' = now /\ links' = links /\ latest' = latest /\ lateHash' = lateHash
    BY <1>3 DEF LoginMisses
  <2>2. wanted \in UserType /\ wanted.pw = req[r].row.pw /\ wanted.old = req[r].row.old
    BY <1>0, MissedTyped
  <2> HIDE DEF wanted
  <2>3. user' \in UserType /\ user'.pw = user.pw /\ user'.old = user.old
    BY <1>0, <2>1, <2>2, UpdatedFields
  <2>4. PasswordStays'
    BY <2>1, <2>3 DEF SignInInv, PasswordStays
  <2> QED
    BY <1>0, <2>1, <2>3, <2>4, IdleFacts, RequestMoves
<1>4. CASE LoginSucceeds(r)
  <2> DEFINE wanted == [req[r].row EXCEPT !.failed = 0, !.locked = 0]
             cleared == Updated(req[r].row, wanted)
             signed == [Idle EXCEPT !.pc = "signed in"]
  <2>1. /\ Becomes(r, signed) /\ req[r].pw = req[r].row.pw
        /\ user' = IF req[r].row.old THEN [cleared EXCEPT !.pw = req[r].pw, !.old = FALSE]
                   ELSE cleared
        /\ now' = now /\ links' = links /\ latest' = latest
        /\ lateHash' = (lateHash \/ (req[r].row.old /\ user.pw # req[r].pw))
    BY <1>4 DEF LoginSucceeds
  <2>2. wanted \in UserType /\ wanted.pw = req[r].row.pw /\ wanted.old = req[r].row.old
    BY <1>0, ClearedTyped
  <2>3. signed \in ReqType
    BY IdleFacts DEF ReqType, PCs
  <2>3a. signed.pc = "signed in" /\ signed.row = Idle.row
    BY IdleFacts DEF ReqType
  <2> HIDE DEF wanted, signed
  <2>4. cleared \in UserType /\ cleared.pw = user.pw /\ cleared.old = user.old
    BY <1>0, <2>2, UpdatedFields
  <2> HIDE DEF cleared
  <2>5. CASE req[r].row.old
    <3>0. req[r].pw \in 0..MaxChanges
      BY <1>0, <2>1 DEF UserType
    <3>1. user' \in UserType /\ user'.pw = req[r].pw /\ user'.old = FALSE
      BY <2>1, <2>4, <2>5, <3>0, PasswordSet
    <3>2. lateHash' \in BOOLEAN
      BY <1>0, <2>1
    <3>3. PasswordStays'
      BY <1>0, <2>1, <2>5, <3>1 DEF SignInInv, PasswordStays
    <3> QED
      BY <1>0, <2>1, <2>3, <2>3a, <3>1, <3>2, <3>3, IdleFacts, RequestMoves
  <2>6. CASE ~req[r].row.old
    <3>1. user' = cleared /\ (lateHash' <=> lateHash) /\ lateHash' \in BOOLEAN
      BY <1>0, <2>1, <2>6
    <3>2. PasswordStays'
      BY <2>1, <2>4, <3>1 DEF SignInInv, PasswordStays
    <3> QED
      BY <1>0, <2>1, <2>3, <2>3a, <2>4, <3>1, <3>2, IdleFacts, RequestMoves
  <2> QED
    BY <2>5, <2>6
<1>5. CASE LoginResets(r) \/ LoginStops(r)
  <2>1. Becomes(r, Idle) /\ UNCHANGED rowVars /\ now' = now
    BY <1>5 DEF LoginResets, LoginStops, Reset
  <2> QED
    BY <2>1, IdleFacts, RequestReads
<1> QED
  BY <1>1, <1>2, <1>3, <1>4, <1>5

LEMMA PasswordsKeep ==
  ASSUME SignInInv, LimitTypeOK, NEW r \in Requests,
         \/ ChangeArrives(r) \/ ChangeCommits(r) \/ GivesUp(r)
         \/ \E i \in DOMAIN links : ResetArrives(r, i)
  PROVE  SignInInv'
<1> USE SignInAssumption, LimitAssumption
<1>0. /\ user \in UserType /\ user.old \in BOOLEAN /\ (user.old => OldHash)
      /\ links \in Seq(LinkType) /\ Len(links) \in Nat /\ Len(links) <= MaxLinks
      /\ latest \in 0..MaxChanges /\ lateHash \in BOOLEAN
  BY DEF SignInInv, RowsTypeOK, HashKnown, UserType
<1>1. CASE ChangeArrives(r)
  <2> DEFINE q == [Idle EXCEPT !.pc = "change", !.row = user]
  <2>1. q \in ReqType
    BY <1>0, IdleFacts DEF ReqType, PCs
  <2>2. q.pc = "change" /\ q.row = user
    BY IdleFacts DEF ReqType
  <2>3. Becomes(r, q) /\ UNCHANGED rowVars /\ now' = now
    BY <1>1 DEF ChangeArrives
  <2> HIDE DEF q
  <2> QED
    BY <1>0, <2>1, <2>2, <2>3, RequestReads
<1>2. CASE ChangeCommits(r)
  <2>1. /\ Becomes(r, Idle) /\ now' = now /\ links' = links /\ lateHash' = lateHash
        /\ latest' = latest + 1 /\ latest' \in 0..MaxChanges
        /\ user' = [user EXCEPT !.pw = latest + 1, !.old = FALSE]
    BY <1>0, <1>2 DEF ChangeCommits, SetsPassword
  <2>2. user' \in UserType /\ user'.pw = latest' /\ user'.old = FALSE
    BY <1>0, <2>1, PasswordSet
  <2>3. PasswordStays'
    BY <2>2 DEF PasswordStays
  <2> QED
    BY <1>0, <2>1, <2>2, <2>3, IdleFacts, RequestMoves
<1>3. CASE GivesUp(r)
  BY <1>3, IdleFacts, RequestReads DEF GivesUp
<1>4. ASSUME NEW i \in DOMAIN links, ResetArrives(r, i)
      PROVE  SignInInv'
  <2> DEFINE q == [Idle EXCEPT !.pc = "reset", !.link = i, !.row = user]
  <2>0. i \in 1..Len(links) /\ i \in 0..MaxLinks
    BY <1>0, <1>4
  <2>1. q \in ReqType
    BY <1>0, <2>0, IdleFacts DEF ReqType, PCs
  <2>2. q.pc = "reset" /\ q.row = user
    BY IdleFacts DEF ReqType
  <2>2a. q.link = i
    BY IdleFacts DEF ReqType
  <2>3. Becomes(r, q) /\ UNCHANGED rowVars /\ now' = now
    BY <1>4 DEF ResetArrives
  <2> HIDE DEF q
  <2> QED
    BY <1>0, <2>0, <2>1, <2>2, <2>2a, <2>3, RequestReads
<1> QED
  BY <1>1, <1>2, <1>3, <1>4

\* A link that is used stays used, one that works has not been out of date.
LEMMA ResetKeeps ==
  ASSUME SignInInv, LimitTypeOK, NEW r \in Requests, ResetCommits(r)
  PROVE  SignInInv'
<1> USE SignInAssumption, LimitAssumption
<1> DEFINE wanted == [req[r].row EXCEPT !.failed = 0, !.locked = 0]
           reset == Updated(req[r].row, wanted)
           k == req[r].link
<1>0. /\ user \in UserType /\ req[r] \in ReqType /\ req[r].row \in UserType
      /\ latest \in 0..MaxChanges /\ lateHash \in BOOLEAN
      /\ links \in Seq(LinkType) /\ Len(links) \in Nat /\ Len(links) <= MaxLinks
      /\ req[r].pc = "reset" /\ k \in 1..Len(links)
      /\ req \in [Requests -> ReqType]
      /\ \A i \in 1..Len(links) : links[i] \in LinkType
  BY DEF SignInInv, RowsTypeOK, ReqType, ResetCommits
<1>1. /\ Becomes(r, Idle) /\ now' = now /\ lateHash' = lateHash
      /\ latest' = latest + 1 /\ latest' \in 0..MaxChanges
      /\ user' = [reset EXCEPT !.pw = latest + 1, !.old = FALSE]
      /\ links' = [links EXCEPT ![k].used = TRUE]
  BY <1>0 DEF ResetCommits, SetsPassword
<1>2. wanted \in UserType
  BY <1>0, ClearedTyped
<1> HIDE DEF wanted
<1>3. reset \in UserType
  BY <1>0, <1>2, UpdatedFields
<1> HIDE DEF reset
<1>4. user' \in UserType /\ user'.pw = latest' /\ user'.old = FALSE
  BY <1>1, <1>3, PasswordSet
<1> HIDE DEF k
<1>5. [links[k] EXCEPT !.used = TRUE] \in LinkType
  BY <1>0 DEF LinkType
<1>6. /\ links' \in Seq(LinkType) /\ Len(links') = Len(links)
      /\ \A i \in 1..Len(links) : links'[i] = IF i = k THEN [links[k] EXCEPT !.used = TRUE]
                                              ELSE links[i]
  BY <1>0, <1>1, <1>5
<1>7. \A i \in 1..Len(links) : /\ links[i].used => links'[i].used
                               /\ links'[i].seen = links[i].seen
                               /\ ~links'[i].used => links'[i] = links[i]
  BY <1>0, <1>6 DEF LinkType
<1>8. req' \in [Requests -> ReqType] /\ \A s \in Requests : req'[s] = IF s = r THEN Idle ELSE req[s]
  BY <1>0, <1>1, IdleFacts DEF Becomes
<1>9. RowsTypeOK'
  BY <1>0, <1>1, <1>4, <1>6, <1>8, IdleFacts DEF SignInInv, RowsTypeOK
<1>10. HashKnown'
  BY <1>4, <1>8, IdleFacts DEF SignInInv, HashKnown
<1>11. PasswordStays'
  BY <1>4 DEF PasswordStays
<1>12. LinksSeen'
  <2> SUFFICES ASSUME NEW s \in Requests, req'[s].pc = "forgot"
               PROVE  /\ req'[s].link <= Len(links')
                      /\ \A i \in 1..req'[s].link : links'[i].used \/ i \in req'[s].rows
    BY DEF LinksSeen
  <2>1. req'[s] = req[s]
    BY <1>8, IdleFacts
  <2>2. req[s].link <= Len(links) /\ req[s].link \in Nat
    BY <1>0, <2>1 DEF SignInInv, LinksSeen, ReqType
  <2>3. \A i \in 1..req[s].link : i \in 1..Len(links)
    BY <1>0, <2>2
  <2> QED
    BY <1>6, <1>7, <2>1, <2>2, <2>3 DEF SignInInv, LinksSeen
<1>13. OneWorkingReset'
  BY <1>0, <1>1, <1>6, <1>7 DEF SignInInv, OneWorkingReset, Working
<1> QED
  BY <1>9, <1>10, <1>11, <1>12, <1>13 DEF SignInInv

LEMMA ForgotArrivesKeeps ==
  ASSUME SignInInv, LimitTypeOK, NEW r \in Requests, ForgotArrives(r)
  PROVE  SignInInv'
<1> USE SignInAssumption, LimitAssumption
<1> DEFINE unused == {i \in DOMAIN links : ~links[i].used}
           q == [Idle EXCEPT !.pc = "forgot", !.link = Len(links), !.rows = unused]
<1>0. /\ links \in Seq(LinkType) /\ Len(links) \in 0..MaxLinks
      /\ DOMAIN links = 1..Len(links)
  BY DEF SignInInv, RowsTypeOK
<1>1. unused \in SUBSET (1..MaxLinks)
  BY <1>0
<1>1a. \A i \in 1..Len(links) : links[i].used \/ i \in unused
  BY <1>0
<1>2. Becomes(r, q) /\ UNCHANGED rowVars /\ now' = now
  BY DEF ForgotArrives
<1> HIDE DEF unused
<1>3. q \in ReqType
  BY <1>0, <1>1, IdleFacts DEF ReqType, PCs
<1>4. q.pc = "forgot" /\ q.row = Idle.row
  BY IdleFacts DEF ReqType
<1>5. q.link = Len(links)
  BY IdleFacts DEF ReqType
<1>6. q.rows = unused
  BY IdleFacts DEF ReqType
<1> HIDE DEF q
<1> QED
  BY <1>0, <1>1a, <1>2, <1>3, <1>4, <1>5, <1>6, IdleFacts, RequestReads

\* The new link is after all the others; those the request had noted are used with it, and
\* it had noted all that were there when it looked.
LEMMA ForgotCommitsKeeps ==
  ASSUME SignInInv, LimitTypeOK, NEW r \in Requests, ForgotCommits(r)
  PROVE  SignInInv'
<1> USE SignInAssumption, LimitAssumption
<1> DEFINE n == Len(links)
           fresh == [used |-> FALSE, expires |-> now + LinkTime, seen |-> req[r].link]
           old == [i \in DOMAIN links |-> [links[i] EXCEPT !.used = @ \/ i \in req[r].rows]]
<1>0. /\ req \in [Requests -> ReqType] /\ req[r].pc = "forgot" /\ req[r].link \in 0..MaxLinks
      /\ links \in Seq(LinkType) /\ n \in Nat /\ n < MaxLinks /\ DOMAIN links = 1..n
      /\ now \in 0..MaxTime
      /\ \A i \in 1..n : links[i] \in LinkType
  BY DEF SignInInv, RowsTypeOK, LimitTypeOK, ReqType, ForgotCommits
<1>1. /\ Becomes(r, Idle) /\ now' = now /\ user' = user /\ latest' = latest /\ lateHash' = lateHash
      /\ links' = Append(old, fresh)
  BY DEF ForgotCommits
<1>2. now + LinkTime \in 0..(MaxTime + LinkTime)
  BY <1>0
<1>3. fresh \in LinkType /\ fresh.seen = req[r].link
  BY <1>0, <1>2 DEF LinkType
<1> HIDE DEF fresh
<1>4. ASSUME NEW i \in 1..n
      PROVE  /\ old[i] \in LinkType
             /\ old[i].used <=> (links[i].used \/ i \in req[r].rows)
             /\ old[i].expires = links[i].expires
             /\ old[i].seen = links[i].seen
  <2>1. links[i] \in LinkType /\ old[i] = [links[i] EXCEPT !.used = @ \/ i \in req[r].rows]
    BY <1>0
  <2>2. (links[i].used \/ i \in req[r].rows) \in BOOLEAN
    OBVIOUS
  <2>3. old[i] \in LinkType
    BY <2>1, <2>2 DEF LinkType
  <2>4. old[i].used <=> (links[i].used \/ i \in req[r].rows)
    BY <2>1 DEF LinkType
  <2> QED
    BY <2>1, <2>3, <2>4 DEF LinkType
<1>5. old \in [1..n -> LinkType]
  <2>1. old = [i \in 1..n |-> old[i]]
    BY <1>0
  <2> HIDE DEF old
  <2> QED
    BY <1>4, <2>1
<1> HIDE DEF old
<1>6. old \in Seq(LinkType) /\ Len(old) = n
  BY <1>0, <1>5
<1> HIDE DEF n
<1>7. /\ links' \in Seq(LinkType) /\ Len(links') = n + 1
      /\ \A i \in 1..n : links'[i] = old[i]
      /\ links'[n + 1] = fresh
  BY <1>0, <1>1, <1>3, <1>6
<1>8. req' \in [Requests -> ReqType] /\ \A s \in Requests : req'[s] = IF s = r THEN Idle ELSE req[s]
  BY <1>0, <1>1, IdleFacts DEF Becomes
<1>9. Len(links) = n
  BY DEF n
<1>10. RowsTypeOK'
  <2>1. Len(links') <= MaxLinks
    BY <1>0, <1>7
  <2>2. \A s \in Requests : req'[s].pc = "reset" => req'[s].link \in 1..Len(links')
    BY <1>0, <1>7, <1>8, <1>9, IdleFacts DEF SignInInv, RowsTypeOK
  <2> QED
    BY <1>1, <1>7, <1>8, <2>1, <2>2 DEF SignInInv, RowsTypeOK
<1>11. HashKnown'
  BY <1>1, <1>8, IdleFacts DEF SignInInv, HashKnown
<1>12. PasswordStays'
  BY <1>1 DEF SignInInv, PasswordStays
<1>13. LinksSeen'
  <2> SUFFICES ASSUME NEW s \in Requests, req'[s].pc = "forgot"
               PROVE  /\ req'[s].link <= Len(links')
                      /\ \A i \in 1..req'[s].link : links'[i].used \/ i \in req'[s].rows
    BY DEF LinksSeen
  <2>1. req'[s] = req[s]
    BY <1>8, IdleFacts
  <2>2. req[s].link <= n /\ req[s].link \in Nat
        /\ \A i \in 1..req[s].link : links[i].used \/ i \in req[s].rows
    BY <1>0, <1>9, <2>1 DEF SignInInv, LinksSeen, ReqType
  <2>3. \A i \in 1..req[s].link : i \in 1..n
    BY <1>0, <2>2
  <2> QED
    BY <1>0, <1>4, <1>7, <2>1, <2>2, <2>3
<1>14. OneWorkingReset'
  <2> SUFFICES ASSUME NEW i \in DOMAIN links', NEW j \in DOMAIN links', i < j,
                      Working(i)', Working(j)'
               PROVE  links'[j].seen < i
    BY DEF OneWorkingReset
  <2>1. i \in 1..n /\ j \in 1..(n + 1)
    BY <1>0, <1>7
  <2>2. ~old[i].used /\ now < old[i].expires
    BY <1>1, <1>7, <2>1 DEF Working
  <2>3. Working(i) /\ i \in DOMAIN links
    BY <1>0, <1>4, <2>1, <2>2 DEF Working
  <2>4. CASE j \in 1..n
    <3>1. Working(j) /\ j \in DOMAIN links /\ links'[j].seen = links[j].seen
      BY <1>0, <1>1, <1>4, <1>7, <2>4 DEF Working
    <3> QED
      BY <2>3, <3>1 DEF SignInInv, OneWorkingReset
  <2>5. CASE j = n + 1
    <3>1. links'[j].seen = req[r].link
      BY <1>3, <1>7, <2>5
    <3>2. ~(i \in 1..req[r].link)
      BY <1>0, <1>4, <2>1, <2>2 DEF SignInInv, LinksSeen
    <3> QED
      BY <1>0, <2>1, <3>1, <3>2
  <2> QED
    BY <1>0, <2>1, <2>4, <2>5
<1> QED
  BY <1>10, <1>11, <1>12, <1>13, <1>14 DEF SignInInv

LEMMA OthersKeep ==
  ASSUME SignInInv, LimitTypeOK, CliResets \/ Restarts \/ TimePasses \/ UNCHANGED vars
  PROVE  SignInInv'
<1> USE SignInAssumption, LimitAssumption
<1>0. /\ user \in UserType /\ latest \in 0..MaxChanges /\ now \in 0..MaxTime
      /\ links \in Seq(LinkType) /\ req \in [Requests -> ReqType]
  BY DEF SignInInv, RowsTypeOK, LimitTypeOK
<1>0a. ASSUME NEW i \in DOMAIN links PROVE links[i].expires \in Int
  <2>1. links[i] \in LinkType
    BY <1>0
  <2> QED
    BY <2>1 DEF LinkType
<1>1. CASE CliResets
  <2> DEFINE cleared == [user EXCEPT !.failed = 0, !.locked = 0]
  <2>1. /\ now' = now /\ links' = links /\ req' = req /\ lateHash' = lateHash
        /\ latest' = latest + 1 /\ latest' \in 0..MaxChanges
        /\ user' = [cleared EXCEPT !.pw = latest + 1, !.old = FALSE]
    BY <1>0, <1>1 DEF CliResets, SetsPassword
  <2>2. cleared \in UserType
    BY <1>0, ClearedTyped
  <2> HIDE DEF cleared
  <2>3. user' \in UserType /\ user'.pw = latest' /\ user'.old = FALSE
    BY <2>1, <2>2, PasswordSet
  <2>4. RowsTypeOK' /\ LinksSeen'
    BY <2>1, <2>3 DEF SignInInv, RowsTypeOK, LinksSeen
  <2>5. HashKnown' /\ PasswordStays'
    BY <2>1, <2>3 DEF SignInInv, HashKnown, PasswordStays
  <2>6. OneWorkingReset'
    BY <2>1 DEF SignInInv, OneWorkingReset, Working
  <2> QED
    BY <2>4, <2>5, <2>6 DEF SignInInv
<1>2. CASE Restarts
  <2>1. now' = now /\ user' = user /\ links' = links /\ latest' = latest /\ lateHash' = lateHash
    BY <1>2 DEF Restarts, rowVars
  <2>2. req' \in [Requests -> ReqType] /\ \A r \in Requests : req'[r] = Idle
    BY <1>2, IdleFacts DEF Restarts
  <2>3. RowsTypeOK' /\ LinksSeen'
    BY <2>1, <2>2, IdleFacts DEF SignInInv, RowsTypeOK, LinksSeen
  <2>4. HashKnown' /\ PasswordStays'
    BY <2>1, <2>2, IdleFacts DEF SignInInv, HashKnown, PasswordStays
  <2>5. OneWorkingReset'
    BY <2>1 DEF SignInInv, OneWorkingReset, Working
  <2> QED
    BY <2>3, <2>4, <2>5 DEF SignInInv
<1>3. CASE TimePasses
  <2>1. /\ now' = now + 1 /\ user' = user /\ links' = links /\ req' = req
        /\ latest' = latest /\ lateHash' = lateHash
    BY <1>3 DEF TimePasses, Tick
  <2>2. RowsTypeOK' /\ HashKnown' /\ PasswordStays' /\ LinksSeen'
    BY <2>1 DEF SignInInv, RowsTypeOK, HashKnown, PasswordStays, LinksSeen
  <2>3. \A i \in DOMAIN links : Working(i)' => Working(i)
    BY <1>0, <1>0a, <2>1 DEF Working
  <2>4. OneWorkingReset'
    BY <2>1, <2>3 DEF SignInInv, OneWorkingReset
  <2> QED
    BY <2>2, <2>4 DEF SignInInv
<1>4. CASE UNCHANGED vars
  BY <1>4 DEF vars, SignInInv, RowsTypeOK, HashKnown, PasswordStays, LinksSeen, OneWorkingReset,
              Working
<1> QED
  BY <1>1, <1>2, <1>3, <1>4

LEMMA SignInStep == LimitInv /\ SignInInv /\ [Next]_vars => SignInInv'
<1> SUFFICES ASSUME LimitInv, SignInInv, [Next]_vars PROVE SignInInv'
  OBVIOUS
<1>0. LimitTypeOK
  BY DEF LimitInv
<1>1. ASSUME NEW r \in Requests, RequestStep(r)
      PROVE  SignInInv'
  BY <1>0, <1>1, LoginKeeps, PasswordsKeep, ResetKeeps, ForgotArrivesKeeps, ForgotCommitsKeeps
     DEF RequestStep
<1> QED
  BY <1>0, <1>1, OthersKeep DEF Next

LEMMA SignInHolds == Spec => [](LimitInv /\ SignInInv)
<1>1. Init => SignInInv
  BY SignInInitially
<1>2. LimitInv /\ SignInInv /\ [Next]_vars => SignInInv'
  BY SignInStep
<1> QED
  BY <1>1, <1>2, CounterHolds, PTL DEF Spec

\* Type correctness, with failed_attempts below the limit (auth_views.py:144-155).
THEOREM Types == Spec => []TypeOK
<1>1. LimitInv /\ SignInInv => TypeOK
  BY Typed DEF LimitInv, SignInInv
<1> QED
  BY <1>1, SignInHolds, PTL

\* The password is the last one that was set, whatever overlaps, but for a hash made anew
\* from a row with old parameters (auth_views.py:164-167).
THEOREM LastPassword == Spec => []PasswordStays
<1>1. SignInInv => PasswordStays
  BY DEF SignInInv
<1> QED
  BY <1>1, SignInHolds, PTL

\* Two links work together only if their requests overlapped (recovery.py:40-63).
THEOREM OneLink == Spec => []OneWorkingReset
<1>1. SignInInv => OneWorkingReset
  BY DEF SignInInv
<1> QED
  BY <1>1, SignInHolds, PTL

-------------------------------------------------------------------------------
(* The lock.                                                                *)

LockStep ==
    user.locked > now /\ user'.locked <= now =>
         \/ \E r \in Requests : LoginSucceeds(r) \/ ResetCommits(r)
         \/ \E r \in Requests : LoginMisses(r) /\ now - req[r].at >= LockTime
         \/ CliResets

LEMMA StepsOfTheLock == LimitInv /\ SignInInv /\ [Next]_vars => [LockStep]_vars
<1> SUFFICES ASSUME LimitInv, SignInInv, Next, user.locked > now, user'.locked <= now
             PROVE  \/ \E r \in Requests : LoginSucceeds(r) \/ ResetCommits(r)
                    \/ \E r \in Requests : LoginMisses(r) /\ now - req[r].at >= LockTime
                    \/ CliResets
  BY DEF LockStep
<1> USE SignInAssumption, LimitAssumption
<1>0. /\ user \in UserType /\ user.locked \in Int /\ now \in Int
      /\ req \in [Requests -> ReqType] /\ latest \in 0..MaxChanges
  BY DEF LimitInv, LimitTypeOK, SignInInv, RowsTypeOK, UserType
<1>1. user' # user
  BY <1>0
<1>2. ASSUME NEW r \in Requests, RequestStep(r)
      PROVE  \/ LoginSucceeds(r) \/ ResetCommits(r)
             \/ LoginMisses(r) /\ now - req[r].at >= LockTime
  <2>0. /\ req[r] \in ReqType /\ req[r].row \in UserType /\ req[r].at \in 0..MaxTime
    BY <1>0 DEF ReqType
  <2>1. CASE LoginMisses(r)
    <3> DEFINE wanted == Missed(req[r].row, req[r].at)
    <3>1. wanted \in UserType /\ wanted.locked \in {req[r].row.locked, req[r].at + LockTime}
      BY <2>0, MissedTyped
    <3> HIDE DEF wanted
    <3>2. user' = Updated(req[r].row, wanted)
      BY <2>1 DEF LoginMisses, wanted
    <3>3. user'.locked = IF wanted.locked # req[r].row.locked THEN wanted.locked ELSE user.locked
      BY <1>0, <2>0, <3>1, <3>2, UpdatedFields
    <3>4. user'.locked = req[r].at + LockTime
      BY <1>0, <3>1, <3>3
    <3> QED
      BY <1>0, <2>0, <2>1, <3>4
  <2>2. CASE ChangeCommits(r)
    <3>1. user' = [user EXCEPT !.pw = latest + 1, !.old = FALSE] /\ latest + 1 \in 0..MaxChanges
      BY <1>0, <2>2 DEF ChangeCommits, SetsPassword
    <3>2. user'.locked = user.locked
      BY <1>0, <3>1, PasswordSet
    <3> QED
      BY <1>0, <3>2
  <2>3. CASE LoginReads(r) \/ LoginResets(r) \/ LoginStops(r) \/ ChangeArrives(r)
             \/ ForgotArrives(r) \/ ForgotCommits(r) \/ GivesUp(r)
    BY <1>1, <2>3 DEF LoginReads, LoginResets, LoginStops, ChangeArrives, ForgotArrives,
                      ForgotCommits, GivesUp, rowVars
  <2>4. CASE \/ \E pw \in Guesses, byIp \in BOOLEAN : LoginArrives(r, pw, byIp)
             \/ \E i \in DOMAIN links : ResetArrives(r, i)
    BY <1>1, <2>4 DEF LoginArrives, ResetArrives, rowVars
  <2> QED
    BY <1>2, <2>1, <2>2, <2>3, <2>4 DEF RequestStep
<1>3. CASE Restarts \/ TimePasses
  BY <1>1, <1>3 DEF Restarts, TimePasses, rowVars
<1> QED
  BY <1>2, <1>3 DEF Next

\* A lock is lifted early by nothing but the password, a link from a letter or the command
\* (auth_views.py:134-161).
THEOREM LockHolds == Spec => LockStands
<1>1. LimitInv /\ SignInInv /\ [Next]_vars => [LockStep]_vars
  BY StepsOfTheLock
<1>2. Spec => [][LockStep]_vars
  BY <1>1, SignInHolds, PTL DEF Spec
<1> QED
  BY <1>2 DEF LockStands, LockStep

===============================================================================
