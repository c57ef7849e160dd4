--------------------------- MODULE PtzControlProofs ---------------------------
(***************************************************************************)
(* Proofs about PtzControl, for any holders, requests, directions and      *)
(* lifetimes: the type invariant, that a camera is stopped in time by the  *)
(* drivers that can stop it, that nobody keeps the lock for nothing, and   *)
(* that nobody moves the camera without it.                                *)
(***************************************************************************)
EXTENDS PtzControl, TLAPS

(* A move that was carried out and waits for its answer is no older than    *)
(* the motion is long.                                                      *)
Fresh ==
    /\ \A r \in Requests : req[r].pc = "moved" /\ Moving => camera.run <= req[r].age
    /\ watchdog.pc = "sleep" => watchdog.time <= MoveTicks
    /\ watchdog.pc = "stop" => watchdog.time <= RequestTicks

(* Who is going to stop the camera, and how long it turns at most by then:  *)
(* a move that will arm the watchdog, the watchdog, or a stop under way.    *)
Cared ==
    \/ \E r \in Requests : req[r].pc = "moved"
    \/ watchdog.pc = "sleep" /\ camera.run + watchdog.time <= RequestTicks + MoveTicks
    \/ watchdog.pc = "stop" /\ camera.run <= RequestTicks + MoveTicks + watchdog.time
    \/ \E r \in Requests :
          /\ req[r].pc \in {"resolve", "stop"}
          /\ camera.run <= 2 * RequestTicks + MoveTicks + req[r].age

CareInv ==
    /\ Fresh
    /\ Moving => IF driver \in SelfStopping THEN camera.run < MoveTicks
                 ELSE neglected \/ Cared


-------------------------------------------------------------------------------
LEMMA IdleWf == Idle \in RequestType /\ Idle.pc = "idle" /\ Idle.who = Nobody
BY PtzControlAssumption DEF Idle, RequestType

LEMMA Records ==
    /\ Free \in [owner: Holders \cup {Nobody}, left: 0..HoldTicks]
    /\ Free.owner = Nobody /\ Free.left = 0
    /\ NoDog \in DogType /\ NoDog.pc = "none"
    /\ Armed \in DogType /\ Armed.pc = "sleep" /\ Armed.time = MoveTicks
    /\ AtRest \in [dir: Directions \cup {Still}, run: 0..(StopBound + 1)]
    /\ AtRest.dir = Still
BY PtzControlAssumption DEF Free, NoDog, Armed, AtRest, DogType, StopBound

LEMMA BoundNat == StopBound \in Nat
BY PtzControlAssumption DEF StopBound

LEMMA TypeInit == Init => TypeOK
<1> SUFFICES ASSUME Init PROVE TypeOK
  OBVIOUS
<1>1. req \in [Requests -> RequestType]
  BY IdleWf DEF Init
<1>2. \A r \in Requests : req[r].pc = "idle" <=> req[r].who = Nobody
  BY IdleWf DEF Init
<1>3. told \in [Holders -> {"nothing", "moving", "lost"}]
  BY DEF Init
<1>4. neglected \in BOOLEAN
  BY DEF Init
<1>5. sent \in 0..MaxSent /\ mishaps \in 0..MaxMishaps
  BY PtzControlAssumption DEF Init
<1>6. QED
  BY <1>1, <1>2, <1>3, <1>4, <1>5, Records DEF Init, TypeOK

(* What a step does to one request leaves all of them well typed.           *)
LEMMA ReqType ==
    ASSUME TypeOK, NEW r \in Requests, NEW x \in RequestType,
           x.pc = "idle" <=> x.who = Nobody,
           req' = [req EXCEPT ![r] = x]
    PROVE  /\ req' \in [Requests -> RequestType]
           /\ \A q \in Requests : req'[q].pc = "idle" <=> req'[q].who = Nobody
BY DEF TypeOK

LEMMA ReqStage ==
    ASSUME TypeOK, NEW r \in Requests, req[r].pc # "idle",
           NEW p \in {"move", "moved", "resolve", "stop", "unlock"},
           req' = [req EXCEPT ![r].pc = p]
    PROVE  /\ req' \in [Requests -> RequestType]
           /\ \A q \in Requests : req'[q].pc = "idle" <=> req'[q].who = Nobody
<1>1. req[r] \in RequestType /\ req[r].who # Nobody
  BY DEF TypeOK
<1> DEFINE x == [req[r] EXCEPT !.pc = p]
<1>2. x \in RequestType /\ x.pc = p /\ x.who = req[r].who
  BY <1>1 DEF RequestType
<1>3. req' = [req EXCEPT ![r] = x]
  BY DEF TypeOK
<1>4. QED
  BY <1>1, <1>2, <1>3, ReqType

LEMMA MishapType ==
    ASSUME TypeOK, NEW bad \in BOOLEAN, Mishap(bad)
    PROVE  mishaps' \in 0..MaxMishaps /\ neglected' \in BOOLEAN
<1>1. mishaps' \in 0..MaxMishaps
  BY PtzControlAssumption DEF Mishap, TypeOK
<1>2. neglected' \in BOOLEAN
  BY DEF Mishap, TypeOK
<1>3. QED
  BY <1>1, <1>2

LEMMA MoveType ==
    ASSUME TypeOK, NEW r \in Requests,
           \/ \E h \in Holders : PressBusy(r, h) \/ \E d \in Directions : PressTaken(r, h, d)
           \/ CameraMoves(r) \/ MoveAnswered(r) \/ MoveFails(r)
    PROVE  TypeOK'
<1>1. ASSUME NEW h \in Holders, PressBusy(r, h) PROVE TypeOK'
  <2>1. sent' \in 0..MaxSent
    BY <1>1, PtzControlAssumption DEF PressBusy, Arrives, TypeOK
  <2>2. told' \in [Holders -> {"nothing", "moving", "lost"}]
    BY <1>1 DEF PressBusy, TypeOK
  <2>3. UNCHANGED <<driver, lock, req, watchdog, last, camera, neglected, mishaps, letGo>>
    BY <1>1 DEF PressBusy
  <2>4. QED
    BY <2>1, <2>2, <2>3 DEF TypeOK
<1>2. ASSUME NEW h \in Holders, NEW d \in Directions, PressTaken(r, h, d) PROVE TypeOK'
  <2>1. sent' \in 0..MaxSent
    BY <1>2, PtzControlAssumption DEF PressTaken, Arrives, TypeOK
  <2> DEFINE x == [pc |-> "move", who |-> h, dir |-> d, age |-> 0]
  <2>2. x \in RequestType /\ x.pc # "idle" /\ x.who # Nobody
    BY PtzControlAssumption DEF RequestType
  <2>3. /\ req' \in [Requests -> RequestType]
        /\ \A q \in Requests : req'[q].pc = "idle" <=> req'[q].who = Nobody
    BY <1>2, <2>2, ReqType DEF PressTaken
  <2>4. /\ lock' \in [owner: Holders \cup {Nobody}, left: 0..HoldTicks]
        /\ lock'.owner # Nobody /\ lock'.left # 0
    BY <1>2, PtzControlAssumption DEF PressTaken
  <2>5. /\ UNCHANGED <<driver, told, watchdog, last, camera, neglected, mishaps>>
        /\ letGo' \subseteq Requests
    BY <1>2 DEF PressTaken, TypeOK
  <2>6. QED
    BY <2>1, <2>3, <2>4, <2>5 DEF TypeOK
<1>3. CASE CameraMoves(r)
  <2>1. /\ req' \in [Requests -> RequestType]
        /\ \A q \in Requests : req'[q].pc = "idle" <=> req'[q].who = Nobody
    BY <1>3, ReqStage DEF CameraMoves
  <2>2. camera' \in [dir: Directions \cup {Still}, run: 0..(StopBound + 1)]
    BY <1>3, BoundNat DEF CameraMoves, TypeOK, RequestType
  <2>3. UNCHANGED <<driver, lock, told, watchdog, last, neglected, sent, mishaps, letGo>>
    BY <1>3 DEF CameraMoves
  <2>4. QED
    BY <2>1, <2>2, <2>3 DEF TypeOK
<1>4. CASE MoveAnswered(r)
  <2>1. req[r] \in RequestType /\ req[r].who \in Holders
    BY <1>4 DEF MoveAnswered, TypeOK, RequestType
  <2>2. /\ req' \in [Requests -> RequestType]
        /\ \A q \in Requests : req'[q].pc = "idle" <=> req'[q].who = Nobody
    BY <1>4, IdleWf, ReqType DEF MoveAnswered
  <2>3. last' \in Directions \cup {Still}
    BY <1>4, <2>1 DEF MoveAnswered, TypeOK, RequestType
  <2>4. watchdog' \in DogType /\ (driver' \in SelfStopping => watchdog'.pc = "none")
    BY <1>4, Records DEF MoveAnswered, TypeOK
  <2>5. told' \in [Holders -> {"nothing", "moving", "lost"}]
    BY <1>4, <2>1 DEF MoveAnswered, TypeOK
  <2>6. neglected' \in BOOLEAN
    BY <1>4 DEF MoveAnswered
  <2>7. UNCHANGED <<driver, lock, camera, sent, mishaps, letGo>>
    BY <1>4 DEF MoveAnswered
  <2>8. QED
    BY <2>2, <2>3, <2>4, <2>5, <2>6, <2>7 DEF TypeOK
<1>5. CASE MoveFails(r)
  <2>1. /\ req' \in [Requests -> RequestType]
        /\ \A q \in Requests : req'[q].pc = "idle" <=> req'[q].who = Nobody
    BY <1>5, ReqStage DEF MoveFails
  <2>2. mishaps' \in 0..MaxMishaps /\ neglected' \in BOOLEAN
    BY <1>5, MishapType DEF MoveFails
  <2>3. UNCHANGED <<driver, lock, told, watchdog, last, camera, sent, letGo>>
    BY <1>5 DEF MoveFails
  <2>4. QED
    BY <2>1, <2>2, <2>3 DEF TypeOK
<1>6. QED
  BY <1>1, <1>2, <1>3, <1>4, <1>5

LEMMA StopType ==
    ASSUME TypeOK, NEW r \in Requests,
           \/ \E h \in Holders : Release(r, h)
           \/ StopSent(r) \/ CameraStops(r) \/ StopFails(r) \/ Unlock(r) \/ RedisFails(r)
    PROVE  TypeOK'
<1>1. ASSUME NEW h \in Holders, Release(r, h) PROVE TypeOK'
  <2>1. sent' \in 0..MaxSent
    BY <1>1, PtzControlAssumption DEF Release, Arrives, TypeOK
  <2> DEFINE x == [pc |-> "resolve", who |-> h, dir |-> Still, age |-> 0]
  <2>2. x \in RequestType /\ x.pc # "idle" /\ x.who # Nobody
    BY PtzControlAssumption DEF RequestType
  <2>3. /\ req' \in [Requests -> RequestType]
        /\ \A q \in Requests : req'[q].pc = "idle" <=> req'[q].who = Nobody
    BY <1>1, <2>2, ReqType DEF Release
  <2>4. watchdog' \in DogType /\ watchdog'.pc = "none"
    BY <1>1, Records DEF Release
  <2>5. UNCHANGED <<driver, lock, told, last, camera, neglected, mishaps, letGo>>
    BY <1>1 DEF Release
  <2>6. QED
    BY <2>1, <2>3, <2>4, <2>5 DEF TypeOK
<1>2. CASE StopSent(r)
  <2> DEFINE p == IF NothingToStop THEN "unlock" ELSE "stop"
             x == [req[r] EXCEPT !.pc = p, !.dir = last]
  <2>1. req[r] \in RequestType /\ req[r].who # Nobody
    BY <1>2 DEF StopSent, TypeOK
  <2>2. p \in {"unlock", "stop"} /\ last \in Directions \cup {Still}
    BY DEF TypeOK
  <2>3. x \in RequestType /\ x.pc # "idle" /\ x.who # Nobody
    BY <2>1, <2>2 DEF RequestType
  <2>4. req' = [req EXCEPT ![r] = x]
    BY <1>2 DEF StopSent, TypeOK
  <2>5. /\ req' \in [Requests -> RequestType]
        /\ \A q \in Requests : req'[q].pc = "idle" <=> req'[q].who = Nobody
    BY <2>3, <2>4, ReqType
  <2>6. last' = Still /\ UNCHANGED <<driver, lock, told, watchdog, camera, neglected, sent, mishaps, letGo>>
    BY <1>2 DEF StopSent
  <2>7. QED
    BY <2>5, <2>6 DEF TypeOK
<1>3. CASE CameraStops(r)
  <2>1. /\ req' \in [Requests -> RequestType]
        /\ \A q \in Requests : req'[q].pc = "idle" <=> req'[q].who = Nobody
    BY <1>3, ReqStage DEF CameraStops
  <2>2. camera' \in [dir: Directions \cup {Still}, run: 0..(StopBound + 1)]
    BY <1>3, Records DEF CameraStops, CameraAfterStop, TypeOK
  <2>3. UNCHANGED <<driver, lock, told, watchdog, last, neglected, sent, mishaps, letGo>>
    BY <1>3 DEF CameraStops
  <2>4. QED
    BY <2>1, <2>2, <2>3 DEF TypeOK
<1>4. CASE StopFails(r)
  <2>1. /\ req' \in [Requests -> RequestType]
        /\ \A q \in Requests : req'[q].pc = "idle" <=> req'[q].who = Nobody
    BY <1>4, ReqStage DEF StopFails
  <2>2. mishaps' \in 0..MaxMishaps /\ neglected' \in BOOLEAN
    BY <1>4, MishapType DEF StopFails
  <2>3. UNCHANGED <<driver, lock, told, watchdog, last, camera, sent, letGo>>
    BY <1>4 DEF StopFails
  <2>4. QED
    BY <2>1, <2>2, <2>3 DEF TypeOK
<1>5. CASE Unlock(r)
  <2>1. req[r].who \in Holders
    BY <1>5 DEF Unlock, TypeOK, RequestType
  <2>2. /\ req' \in [Requests -> RequestType]
        /\ \A q \in Requests : req'[q].pc = "idle" <=> req'[q].who = Nobody
    BY <1>5, IdleWf, ReqType DEF Unlock
  <2>3. /\ lock' \in [owner: Holders \cup {Nobody}, left: 0..HoldTicks]
        /\ lock'.owner = Nobody <=> lock'.left = 0
    BY <1>5, Records DEF Unlock, LockWithout, TypeOK
  <2>4. told' \in [Holders -> {"nothing", "moving", "lost"}]
    BY <1>5, <2>1 DEF Unlock, TypeOK
  <2>5. /\ UNCHANGED <<driver, watchdog, last, camera, neglected, sent, mishaps>>
        /\ letGo' \subseteq Requests
    BY <1>5 DEF Unlock, TypeOK
  <2>6. QED
    BY <2>2, <2>3, <2>4, <2>5 DEF TypeOK
<1>6. CASE RedisFails(r)
  <2>1. req[r].who \in Holders
    BY <1>6 DEF RedisFails, TypeOK, RequestType
  <2>2. /\ req' \in [Requests -> RequestType]
        /\ \A q \in Requests : req'[q].pc = "idle" <=> req'[q].who = Nobody
    BY <1>6, IdleWf, ReqType DEF RedisFails
  <2>3. told' \in [Holders -> {"nothing", "moving", "lost"}]
    BY <1>6, <2>1 DEF RedisFails, TypeOK
  <2>4. mishaps' \in 0..MaxMishaps /\ neglected' \in BOOLEAN
    BY <1>6, MishapType DEF RedisFails
  <2>5. UNCHANGED <<driver, lock, watchdog, last, camera, sent, letGo>>
    BY <1>6 DEF RedisFails
  <2>6. QED
    BY <2>2, <2>3, <2>4, <2>5 DEF TypeOK
<1>7. QED
  BY <1>1, <1>2, <1>3, <1>4, <1>5, <1>6

LEMMA WatchdogType ==
    ASSUME TypeOK, DogWakes \/ DogStops \/ DogFails
    PROVE  TypeOK'
<1>1. CASE DogWakes
  <2>1. watchdog' \in DogType /\ watchdog.pc = "sleep"
    BY <1>1, Records, PtzControlAssumption DEF DogWakes, DogType, TypeOK
  <2>2. last' = Still /\ UNCHANGED <<driver, lock, req, told, camera, neglected, sent, mishaps, letGo>>
    BY <1>1 DEF DogWakes
  <2>3. QED
    BY <2>1, <2>2 DEF TypeOK
<1>2. CASE DogStops
  <2>1. camera' \in [dir: Directions \cup {Still}, run: 0..(StopBound + 1)]
    BY <1>2, Records DEF DogStops, CameraAfterStop, TypeOK
  <2>2. watchdog' = NoDog /\ UNCHANGED <<driver, lock, req, told, last, neglected, sent, mishaps, letGo>>
    BY <1>2 DEF DogStops
  <2>3. QED
    BY <2>1, <2>2, Records DEF TypeOK
<1>3. CASE DogFails
  <2>1. mishaps' \in 0..MaxMishaps /\ neglected' \in BOOLEAN
    BY <1>3, MishapType DEF DogFails
  <2>2. watchdog' = NoDog /\ UNCHANGED <<driver, lock, req, told, last, camera, sent, letGo>>
    BY <1>3 DEF DogFails
  <2>3. QED
    BY <2>1, <2>2, Records DEF TypeOK
<1>4. QED
  BY <1>1, <1>2, <1>3

LEMMA RestartType ==
    ASSUME TypeOK, Restart
    PROVE  TypeOK'
<1>1. mishaps' \in 0..MaxMishaps /\ neglected' \in BOOLEAN
  BY MishapType DEF Restart
<1>2. /\ req' \in [Requests -> RequestType]
      /\ \A r \in Requests : req'[r].pc = "idle" <=> req'[r].who = Nobody
  BY IdleWf DEF Restart
<1>3. told' \in [Holders -> {"nothing", "moving", "lost"}]
  BY DEF Restart, TypeOK
<1>4. watchdog' = NoDog /\ last' = Still /\ UNCHANGED <<driver, lock, camera, sent, letGo>>
  BY DEF Restart
<1>5. QED
  BY <1>1, <1>2, <1>3, <1>4, Records DEF TypeOK

LEMMA TickType ==
    ASSUME TypeOK, Tick
    PROVE  TypeOK'
<1>1. /\ req' \in [Requests -> RequestType]
      /\ \A r \in Requests : req'[r].pc = "idle" <=> req'[r].who = Nobody
  <2>1. ASSUME NEW r \in Requests
        PROVE  req'[r] \in RequestType /\ (req'[r].pc = "idle" <=> req'[r].who = Nobody)
    <3>1. req[r] \in RequestType /\ (req[r].pc = "idle" <=> req[r].who = Nobody)
      BY DEF TypeOK
    <3>2. CASE r \in InFlight
      <4>1. req[r].age + 1 \in 0..RequestTicks
        BY <3>1, <3>2, PtzControlAssumption DEF Tick, RequestType
      <4>2. req'[r] = [req[r] EXCEPT !.age = req[r].age + 1]
        BY <3>2 DEF Tick
      <4>3. QED
        BY <3>1, <4>1, <4>2 DEF RequestType
    <3>3. CASE r \notin InFlight
      BY <3>1, <3>3 DEF Tick
    <3>4. QED
      BY <3>2, <3>3
  <2>2. req' = [r \in Requests |-> req'[r]]
    BY DEF Tick
  <2>3. QED
    BY <2>1, <2>2
<1>2. /\ lock' \in [owner: Holders \cup {Nobody}, left: 0..HoldTicks]
      /\ lock'.owner = Nobody <=> lock'.left = 0
  <2>1. CASE lock.left <= 1
    BY <2>1, Records DEF Tick, LockLater
  <2>2. CASE ~(lock.left <= 1)
    <3>1. lock' = [lock EXCEPT !.left = lock.left - 1]
      BY <2>2 DEF Tick, LockLater
    <3>2. lock.left - 1 \in 0..HoldTicks /\ lock.left - 1 # 0 /\ lock.left # 0
      BY <2>2, PtzControlAssumption DEF TypeOK
    <3>3. QED
      BY <3>1, <3>2 DEF TypeOK
  <2>3. QED
    BY <2>1, <2>2
<1>3. watchdog' \in DogType /\ (watchdog'.pc = watchdog.pc)
  <2>1. CASE watchdog.pc = "none"
    BY <2>1 DEF Tick, DogLater, TypeOK
  <2>2. CASE watchdog.pc = "sleep"
    <3>1. watchdog' = [watchdog EXCEPT !.time = watchdog.time - 1] /\ watchdog.time > 0
      BY <2>2 DEF Tick, DogLater
    <3>2. QED
      BY <3>1, PtzControlAssumption DEF TypeOK, DogType
  <2>3. CASE watchdog.pc = "stop"
    <3>1. watchdog' = [watchdog EXCEPT !.time = watchdog.time + 1] /\ watchdog.time < RequestTicks
      BY <2>3 DEF Tick, DogLater
    <3>2. QED
      BY <3>1, PtzControlAssumption DEF TypeOK, DogType
  <2>4. QED
    BY <2>1, <2>2, <2>3 DEF TypeOK, DogType
<1>4. camera' \in [dir: Directions \cup {Still}, run: 0..(StopBound + 1)]
  <2>1. CASE camera' = AtRest \/ camera' = camera
    BY <2>1, Records DEF TypeOK
  <2>2. CASE camera' = [camera EXCEPT !.run = camera.run + 1] /\ ~(camera.run > StopBound)
    BY <2>2, BoundNat DEF TypeOK
  <2>3. QED
    BY <2>1, <2>2 DEF Tick, CameraLater
<1>5. UNCHANGED <<driver, told, last, neglected, sent, mishaps, letGo>>
  BY DEF Tick
<1>6. QED
  BY <1>1, <1>2, <1>3, <1>4, <1>5 DEF TypeOK

LEMMA TypeNext == TypeOK /\ [Next]_vars => TypeOK'
<1> SUFFICES ASSUME TypeOK, [Next]_vars PROVE TypeOK'
  OBVIOUS
<1>1. ASSUME NEW r \in Requests, RequestStep(r) PROVE TypeOK'
  BY <1>1, MoveType, StopType DEF RequestStep
<1>2. CASE DogWakes \/ DogStops \/ DogFails
  BY <1>2, WatchdogType
<1>3. CASE Restart
  BY <1>3, RestartType
<1>4. CASE Tick
  BY <1>4, TickType
<1>5. CASE UNCHANGED vars
  BY <1>5 DEF vars, TypeOK
<1>6. QED
  BY <1>1, <1>2, <1>3, <1>4, <1>5 DEF Next

(* Every reachable state is well typed: the lock in Redis is free exactly   *)
(* when its time is up, whoever extends or releases it, and the drivers     *)
(* that stop by themselves never have a watchdog.                           *)
THEOREM TypeCorrect == Spec => []TypeOK
BY TypeInit, TypeNext, PTL DEF Spec

-------------------------------------------------------------------------------
(* HeldForSomebody is inductive as it stands: a request that ends either    *)
(* tells its panel that the camera follows it, or has given the lock back.  *)
LEMMA HeldRequest ==
    ASSUME TypeOK, HeldForSomebody, NEW r \in Requests, RequestStep(r)
    PROVE  HeldForSomebody'
<1> SUFFICES ASSUME NEW h \in Holders, lock'.owner = h
             PROVE  (\E q \in InFlight' : req'[q].who = h) \/ told'[h] # "nothing"
  BY DEF HeldForSomebody
<1> h # Nobody
  BY PtzControlAssumption
<1>1. ASSUME NEW g \in Holders, PressBusy(r, g) PROVE lock.owner = h /\ h # g /\ told'[h] = told[h]
  BY <1>1 DEF PressBusy, Acquirable, TypeOK
<1>2. ASSUME NEW g \in Holders, PressBusy(r, g)
      PROVE  (\E q \in InFlight' : req'[q].who = h) \/ told'[h] # "nothing"
  BY <1>1, <1>2 DEF PressBusy, HeldForSomebody, InFlight
<1>3. ASSUME NEW g \in Holders, NEW d \in Directions, PressTaken(r, g, d)
      PROVE  \E q \in InFlight' : req'[q].who = h
  <2>1. h = g
    BY <1>3 DEF PressTaken
  <2>2. r \in InFlight' /\ req'[r].who = h
    BY <1>3, <2>1 DEF PressTaken, InFlight, TypeOK
  <2>3. QED
    BY <2>2
<1>4. ASSUME NEW g \in Holders, Release(r, g)
      PROVE  (\E q \in InFlight' : req'[q].who = h) \/ told'[h] # "nothing"
  <2>1. lock.owner = h /\ told' = told
    BY <1>4 DEF Release
  <2>2. \A q \in InFlight : q # r /\ req'[q] = req[q]
    BY <1>4 DEF Release, Arrives, InFlight, TypeOK
  <2>3. QED
    BY <2>1, <2>2 DEF HeldForSomebody, InFlight
<1>5. ASSUME \/ CameraMoves(r) \/ MoveFails(r) \/ StopSent(r) \/ CameraStops(r) \/ StopFails(r)
      PROVE  (\E q \in InFlight' : req'[q].who = h) \/ told'[h] # "nothing"
  <2>1. lock.owner = h /\ told' = told
    BY <1>5 DEF CameraMoves, MoveFails, StopSent, CameraStops, StopFails
  <2>2. req[r] \in RequestType
    BY DEF TypeOK
  <2>3. CASE StopSent(r)
    <3>1. req'[r] = [req[r] EXCEPT !.pc = IF NothingToStop THEN "unlock" ELSE "stop", !.dir = last]
          /\ \A q \in Requests : q # r => req'[q] = req[q]
      BY <2>3 DEF StopSent, TypeOK
    <3>2. req'[r].pc # "idle" /\ req'[r].who = req[r].who
      BY <2>2, <3>1 DEF RequestType
    <3>3. QED
      BY <2>1, <3>1, <3>2 DEF HeldForSomebody, InFlight
  <2>4. CASE ~StopSent(r)
    <3>1. PICK p \in {"moved", "unlock"} : req' = [req EXCEPT ![r].pc = p]
      BY <1>5, <2>4 DEF CameraMoves, MoveFails, CameraStops, StopFails
    <3>2. /\ req'[r].pc # "idle" /\ req'[r].who = req[r].who
          /\ \A q \in Requests : q # r => req'[q] = req[q]
      BY <2>2, <3>1 DEF TypeOK, RequestType
    <3>3. QED
      BY <2>1, <3>2 DEF HeldForSomebody, InFlight
  <2>5. QED
    BY <2>3, <2>4
<1>6. ASSUME MoveAnswered(r)
      PROVE  (\E q \in InFlight' : req'[q].who = h) \/ told'[h] # "nothing"
  <2>1. lock.owner = h
    BY <1>6 DEF MoveAnswered
  <2>2. CASE req[r].who = h
    BY <1>6, <2>2 DEF MoveAnswered, TypeOK
  <2>3. CASE req[r].who # h
    <3>1. told'[h] = told[h] /\ \A q \in Requests : q # r => req'[q] = req[q]
      BY <1>6, <2>3 DEF MoveAnswered, TypeOK
    <3>2. QED
      BY <2>1, <2>3, <3>1 DEF HeldForSomebody, InFlight
  <2>4. QED
    BY <2>2, <2>3
<1>7. ASSUME Unlock(r)
      PROVE  (\E q \in InFlight' : req'[q].who = h) \/ told'[h] # "nothing"
  <2>1. lock.owner = h /\ req[r].who # h
    BY <1>7, Records DEF Unlock, LockWithout
  <2>2. told'[h] = told[h] /\ \A q \in Requests : q # r => req'[q] = req[q]
    BY <1>7, <2>1 DEF Unlock, TypeOK
  <2>3. QED
    BY <2>1, <2>2 DEF HeldForSomebody, InFlight
<1>8. ASSUME RedisFails(r)
      PROVE  (\E q \in InFlight' : req'[q].who = h) \/ told'[h] # "nothing"
  <2>1. lock.owner = h
    BY <1>8 DEF RedisFails
  <2>2. CASE req[r].who = h
    BY <1>8, <2>2 DEF RedisFails, TypeOK
  <2>3. CASE req[r].who # h
    <3>1. told'[h] = told[h] /\ \A q \in Requests : q # r => req'[q] = req[q]
      BY <1>8, <2>3 DEF RedisFails, TypeOK
    <3>2. QED
      BY <2>1, <2>3, <3>1 DEF HeldForSomebody, InFlight
  <2>4. QED
    BY <2>2, <2>3
<1>9. QED
  BY <1>2, <1>3, <1>4, <1>5, <1>6, <1>7, <1>8 DEF RequestStep

LEMMA HeldNext == TypeOK /\ HeldForSomebody /\ [Next]_vars => HeldForSomebody'
<1> SUFFICES ASSUME TypeOK, HeldForSomebody, [Next]_vars PROVE HeldForSomebody'
  OBVIOUS
<1>1. ASSUME NEW r \in Requests, RequestStep(r) PROVE HeldForSomebody'
  BY <1>1, HeldRequest
<1>2. CASE DogWakes \/ DogStops \/ DogFails
  BY <1>2 DEF DogWakes, DogStops, DogFails, HeldForSomebody, InFlight
<1>3. CASE Restart
  BY <1>3 DEF Restart, HeldForSomebody, InFlight
<1>4. CASE Tick
  <2> SUFFICES ASSUME NEW h \in Holders, lock'.owner = h
               PROVE  (\E q \in InFlight' : req'[q].who = h) \/ told'[h] # "nothing"
    BY DEF HeldForSomebody
  <2>1. lock.owner = h /\ told' = told
    BY <1>4, Records, PtzControlAssumption DEF Tick, LockLater, TypeOK
  <2>2. \A q \in InFlight : q \in InFlight' /\ req'[q].who = req[q].who
    BY <1>4 DEF Tick, InFlight, TypeOK, RequestType
  <2>3. QED
    BY <2>1, <2>2 DEF HeldForSomebody
<1>5. CASE UNCHANGED vars
  BY <1>5 DEF vars, HeldForSomebody, InFlight
<1>6. QED
  BY <1>1, <1>2, <1>3, <1>4, <1>5 DEF Next

(* A camera that fails, or a panel that gives up, leaves the lock to nobody *)
(* who was not told that the camera follows him, or told nothing at all.    *)
THEOREM LockHeldForSomebody == Spec => []HeldForSomebody
<1>1. Init => HeldForSomebody
  BY Records, PtzControlAssumption DEF Init, HeldForSomebody
<1>2. QED
  BY <1>1, TypeInit, TypeNext, HeldNext, PTL DEF Spec

-------------------------------------------------------------------------------
(* Nobody controls the camera without the lock.                             *)

(* A move under way has the lock, with at least what HoldTicks leaves of    *)
(* the request's age.                                                       *)
HasLock(r) == lock.owner = req[r].who /\ lock.left >= HoldTicks - req[r].age

GripInv ==
    HoldTicks > RequestTicks =>
        \A r \in Requests : req[r].pc = "move" /\ r \notin letGo => HasLock(r)

(* What leaves the lock, the moves under way and who let go of them alone   *)
(* leaves them their lock.                                                  *)
LEMMA GripKept ==
    ASSUME GripInv, lock' = lock, letGo' = letGo,
           \A r \in Requests : req'[r].pc = "move" => req'[r] = req[r]
    PROVE  GripInv'
BY DEF GripInv, HasLock

LEMMA GripTaken ==
    ASSUME TypeOK, GripInv, NEW r \in Requests, NEW h \in Holders, NEW d \in Directions,
           PressTaken(r, h, d)
    PROVE  GripInv'
<1> SUFFICES ASSUME HoldTicks > RequestTicks, NEW q \in Requests,
                    req'[q].pc = "move", q \notin letGo'
             PROVE  HasLock(q)'
  BY DEF GripInv
<1>1. /\ req' = [req EXCEPT ![r] = [pc |-> "move", who |-> h, dir |-> d, age |-> 0]]
      /\ lock' = [owner |-> h, left |-> HoldTicks]
      /\ letGo' = letGo \ {r} /\ lock.owner \in {Nobody, h} /\ HoldTicks \in Nat
  BY PtzControlAssumption DEF PressTaken, Acquirable
<1>2. CASE q = r
  BY <1>1, <1>2 DEF TypeOK, HasLock
<1>3. CASE q # r
  <2>1. req'[q] = req[q] /\ q \notin letGo
    BY <1>1, <1>3 DEF TypeOK
  <2>2. HasLock(q) /\ req[q].who # Nobody /\ req[q].age \in Nat
    BY <2>1 DEF GripInv, TypeOK, RequestType
  <2>3. req[q].who = h
    BY <1>1, <2>2 DEF HasLock
  <2> QED
    BY <1>1, <2>1, <2>2, <2>3 DEF HasLock
<1> QED
  BY <1>2, <1>3

LEMMA GripUnlocked ==
    ASSUME TypeOK, GripInv, NEW r \in Requests, Unlock(r)
    PROVE  GripInv'
<1> SUFFICES ASSUME HoldTicks > RequestTicks, NEW q \in Requests,
                    req'[q].pc = "move", q \notin letGo'
             PROVE  HasLock(q)'
  BY DEF GripInv
<1>1. q # r /\ req'[q] = req[q]
  BY IdleWf DEF Unlock, TypeOK
<1>2. req[q].who # req[r].who /\ q \notin letGo
  BY <1>1 DEF Unlock
<1>3. HasLock(q)
  BY <1>1, <1>2 DEF GripInv
<1>4. lock' = lock
  BY <1>2, <1>3 DEF Unlock, LockWithout, HasLock
<1> QED
  BY <1>1, <1>3, <1>4 DEF HasLock

(* A request grows no older than RequestTicks, and so its lock does not run *)
(* out.                                                                     *)
LEMMA GripTick ==
    ASSUME TypeOK, GripInv, Tick
    PROVE  GripInv'
<1> SUFFICES ASSUME HoldTicks > RequestTicks, NEW q \in Requests,
                    req'[q].pc = "move", q \notin letGo'
             PROVE  HasLock(q)'
  BY DEF GripInv
<1>1. q \in InFlight /\ req[q] \in RequestType /\ req[q].age < RequestTicks
  BY IdleWf DEF Tick, InFlight, TypeOK
<1>2. req'[q] = [req[q] EXCEPT !.age = req[q].age + 1]
  BY <1>1 DEF Tick
<1>3. req'[q].who = req[q].who /\ req'[q].age = req[q].age + 1 /\ req'[q].pc = req[q].pc
  BY <1>1, <1>2 DEF RequestType
<1>4. HasLock(q)
  BY <1>3 DEF GripInv, Tick
<1>5. lock.left > 1 /\ lock \in [owner: Holders \cup {Nobody}, left: 0..HoldTicks]
  BY <1>1, <1>4, PtzControlAssumption DEF HasLock, RequestType, TypeOK
<1>6. lock' = [lock EXCEPT !.left = lock.left - 1]
  BY <1>5 DEF Tick, LockLater
<1>7. lock'.owner = lock.owner /\ lock'.left = lock.left - 1
  BY <1>5, <1>6
<1> QED
  BY <1>1, <1>3, <1>4, <1>5, <1>7, PtzControlAssumption DEF HasLock, RequestType

LEMMA GripNext ==
    ASSUME TypeOK, GripInv, [Next]_vars
    PROVE  GripInv'
<1>1. ASSUME NEW r \in Requests, RequestStep(r) PROVE GripInv'
  <2>1. CASE Unlock(r)
    BY <2>1, GripUnlocked
  <2>2. ASSUME NEW h \in Holders, NEW d \in Directions, PressTaken(r, h, d) PROVE GripInv'
    BY <2>2, GripTaken
  <2>3. ASSUME NEW h \in Holders, PressBusy(r, h) PROVE GripInv'
    BY <2>3, GripKept DEF PressBusy
  <2>4. ASSUME \/ \E h \in Holders : Release(r, h)
               \/ CameraMoves(r) \/ MoveAnswered(r) \/ MoveFails(r)
               \/ StopSent(r) \/ CameraStops(r) \/ StopFails(r) \/ RedisFails(r)
        PROVE  GripInv'
    <3>1. lock' = lock /\ letGo' = letGo
      BY <2>4 DEF Release, CameraMoves, MoveAnswered, MoveFails, StopSent, CameraStops,
         StopFails, RedisFails
    <3>2. \A q \in Requests : q # r => req'[q] = req[q]
      BY <2>4 DEF Release, CameraMoves, MoveAnswered, MoveFails, StopSent, CameraStops,
         StopFails, RedisFails, TypeOK
    <3>3. req'[r].pc # "move"
      <4>1. req[r] \in RequestType
        BY DEF TypeOK
      <4>2. CASE \E h \in Holders : Release(r, h)
        BY <4>2 DEF Release, TypeOK
      <4>3. CASE CameraMoves(r) \/ MoveFails(r) \/ CameraStops(r) \/ StopFails(r)
        <5>1. PICK p \in {"moved", "unlock"} : req' = [req EXCEPT ![r].pc = p]
          BY <4>3 DEF CameraMoves, MoveFails, CameraStops, StopFails
        <5> QED
          BY <4>1, <5>1 DEF TypeOK, RequestType
      <4>4. CASE MoveAnswered(r) \/ RedisFails(r)
        BY <4>4, IdleWf DEF MoveAnswered, RedisFails, TypeOK
      <4>5. CASE StopSent(r)
        BY <4>1, <4>5 DEF StopSent, TypeOK, RequestType
      <4> QED
        BY <2>4, <4>2, <4>3, <4>4, <4>5
    <3> QED
      BY <3>1, <3>2, <3>3, GripKept
  <2> QED
    BY <1>1, <2>1, <2>2, <2>3, <2>4 DEF RequestStep
<1>2. CASE DogWakes \/ DogStops \/ DogFails \/ UNCHANGED vars
  <2>1. lock' = lock /\ letGo' = letGo /\ req' = req
    BY <1>2 DEF DogWakes, DogStops, DogFails, vars
  <2> QED
    BY <2>1, GripKept
<1>3. CASE Restart
  <2>1. \A q \in Requests : req'[q].pc = "idle"
    BY <1>3, IdleWf DEF Restart
  <2> QED
    BY <2>1 DEF GripInv
<1>4. CASE Tick
  BY <1>4, GripTick
<1> QED
  BY <1>1, <1>2, <1>3, <1>4 DEF Next

(* Nobody has the lock for nothing, and the camera is on its way to obey    *)
(* only the one who has it, whatever the panels press, whatever fails, and  *)
(* however long a lock lives, as long as it outlives a request.             *)
THEOREM LockIsControl == Spec => []LockMeansControl
<1>1. Init => GripInv
  BY IdleWf DEF Init, GripInv
<1>2. TypeOK /\ GripInv /\ [Next]_vars => GripInv'
  BY GripNext
<1>3. GripInv => MovesAreHeld
  BY DEF GripInv, MovesAreHeld, HasLock
<1> QED
  BY <1>1, <1>2, <1>3, TypeCorrect, LockHeldForSomebody, PTL DEF Spec, LockMeansControl

-------------------------------------------------------------------------------
(* StopsInTime: while a camera with no limit of its own turns, some step    *)
(* under way stops it, and CareInv says which and by when.                  *)

LEMMA Ages ==
    ASSUME TypeOK
    PROVE  /\ camera.run \in Nat
           /\ watchdog.time \in Nat
           /\ \A r \in Requests : req[r].age \in 0..RequestTicks
BY BoundNat, PtzControlAssumption DEF TypeOK, RequestType, DogType

LEMMA CareInit == Init => CareInv
BY Records DEF Init, CareInv, Fresh, Moving, Idle, NoDog

\* Nothing to prove once the camera is still but for the waiting answers.
LEMMA CareAtRest ==
    ASSUME camera'.dir = Still,
           watchdog'.pc = "sleep" => watchdog'.time <= MoveTicks,
           watchdog'.pc = "stop" => watchdog'.time <= RequestTicks
    PROVE  CareInv'
BY DEF CareInv, Fresh, Moving

\* A request that neither waits for an answer nor is a stop does not matter.
LEMMA CareKept ==
    ASSUME TypeOK, CareInv, NEW r \in Requests,
           req[r].pc \notin {"moved", "resolve", "stop"},
           req'[r].pc \notin {"moved", "resolve", "stop"},
           \A q \in Requests : q # r => req'[q] = req[q],
           UNCHANGED <<driver, watchdog, camera>>,
           neglected' \in BOOLEAN, neglected => neglected'
    PROVE  CareInv'
<1>1. Fresh'
  BY DEF CareInv, Fresh, Moving
<1>2. Cared => Cared'
  BY DEF Cared
<1>3. QED
  BY <1>1, <1>2 DEF CareInv, Moving

LEMMA CareMove ==
    ASSUME TypeOK, CareInv, NEW r \in Requests,
           \/ \E h \in Holders : PressBusy(r, h) \/ \E d \in Directions : PressTaken(r, h, d)
           \/ CameraMoves(r) \/ MoveAnswered(r) \/ MoveFails(r)
    PROVE  CareInv'
<1>1. ASSUME NEW h \in Holders, PressBusy(r, h) PROVE CareInv'
  BY <1>1 DEF PressBusy, CareInv, Fresh, Cared, Moving
<1>2. ASSUME NEW h \in Holders, NEW d \in Directions, PressTaken(r, h, d) PROVE CareInv'
  <2>1. /\ req[r].pc = "idle" /\ req'[r].pc = "move"
        /\ \A q \in Requests : q # r => req'[q] = req[q]
    BY <1>2 DEF PressTaken, Arrives, TypeOK
  <2>2. UNCHANGED <<driver, watchdog, camera, neglected>> /\ neglected' \in BOOLEAN
    BY <1>2 DEF PressTaken, TypeOK
  <2>3. QED
    BY <2>1, <2>2, CareKept
<1>3. CASE CameraMoves(r)
  <2>1. /\ req'[r].pc = "moved" /\ camera'.run = 0
        /\ \A q \in Requests : req'[q].age = req[q].age
    BY <1>3 DEF CameraMoves, TypeOK, RequestType
  <2>2. UNCHANGED <<driver, watchdog>>
    BY <1>3 DEF CameraMoves
  <2>3. Fresh'
    BY <2>1, <2>2, Ages DEF CareInv, Fresh
  <2>4. Cared'
    BY <2>1 DEF Cared
  <2>5. camera'.run < MoveTicks
    BY <2>1, PtzControlAssumption
  <2>6. QED
    BY <2>3, <2>4, <2>5 DEF CareInv
<1>4. CASE MoveAnswered(r)
  <2>1. /\ req'[r].pc = "idle"
        /\ \A q \in Requests : q # r => req'[q] = req[q]
    BY <1>4, IdleWf DEF MoveAnswered, TypeOK
  <2>2. UNCHANGED <<driver, camera>>
    BY <1>4 DEF MoveAnswered
  <2>3. watchdog' = IF driver \in SelfStopping THEN watchdog ELSE Armed
    BY <1>4 DEF MoveAnswered
  <2>4. Fresh'
    BY <2>1, <2>2, <2>3, Records, PtzControlAssumption DEF CareInv, Fresh, Moving
  <2>5. ASSUME Moving', driver \notin SelfStopping PROVE Cared'
    <3>1. camera.run <= req[r].age /\ Moving
      BY <1>4, <2>2, <2>5 DEF MoveAnswered, CareInv, Fresh, Moving
    <3>2. watchdog'.pc = "sleep" /\ watchdog'.time = MoveTicks
      BY <2>3, <2>5, Records
    <3>3. camera'.run + watchdog'.time <= RequestTicks + MoveTicks
      BY <2>2, <3>1, <3>2, Ages, PtzControlAssumption
    <3>4. QED
      BY <3>2, <3>3 DEF Cared
  <2>6. QED
    BY <2>2, <2>4, <2>5 DEF CareInv, Moving
<1>5. CASE MoveFails(r)
  <2>1. /\ req'[r].pc = "unlock" /\ req[r].pc \in {"move", "moved"}
        /\ \A q \in Requests : q # r => req'[q] = req[q]
    BY <1>5 DEF MoveFails, TypeOK, RequestType
  <2>2. UNCHANGED <<driver, watchdog, camera>>
    BY <1>5 DEF MoveFails
  <2>3. neglected' = (neglected \/ (req[r].pc = "moved" /\ Moving))
    BY <1>5 DEF MoveFails, Mishap
  <2>4. CASE req[r].pc = "move"
    <3>1. neglected' \in BOOLEAN /\ (neglected => neglected')
      BY <2>3
    <3>2. QED
      BY <2>1, <2>2, <2>4, <3>1, CareKept
  <2>5. CASE req[r].pc = "moved"
    <3>1. Fresh'
      BY <2>1, <2>2 DEF CareInv, Fresh, Moving
    <3>2. QED
      BY <2>2, <2>3, <2>5, <3>1 DEF CareInv, Moving
  <2>6. QED
    BY <2>1, <2>4, <2>5
<1>6. QED
  BY <1>1, <1>2, <1>3, <1>4, <1>5

LEMMA CareStop ==
    ASSUME TypeOK, CareInv, driver # "dahua", NEW r \in Requests,
           \/ \E h \in Holders : Release(r, h)
           \/ StopSent(r) \/ CameraStops(r) \/ StopFails(r) \/ Unlock(r) \/ RedisFails(r)
    PROVE  CareInv'
<1>1. ASSUME NEW h \in Holders, Release(r, h) PROVE CareInv'
  <2>1. /\ req[r].pc = "idle"
        /\ req'[r].pc = "resolve" /\ req'[r].age = 0
        /\ \A q \in Requests : q # r => req'[q] = req[q]
    BY <1>1 DEF Release, Arrives, TypeOK
  <2>2. UNCHANGED <<driver, camera, neglected>> /\ watchdog'.pc = "none"
    BY <1>1, Records DEF Release
  <2>3. Fresh'
    BY <2>1, <2>2 DEF CareInv, Fresh, Moving
  <2>4. ASSUME Cared PROVE Cared'
    <3>1. CASE \E q \in Requests : req[q].pc = "moved"
      BY <2>1, <3>1 DEF Cared
    <3>2. CASE watchdog.pc = "sleep" /\ camera.run + watchdog.time <= RequestTicks + MoveTicks
      <4>1. camera'.run <= 2 * RequestTicks + MoveTicks + req'[r].age
        BY <2>1, <2>2, <3>2, Ages, PtzControlAssumption
      <4>2. QED
        BY <2>1, <4>1 DEF Cared
    <3>3. CASE watchdog.pc = "stop" /\ camera.run <= RequestTicks + MoveTicks + watchdog.time
      <4>1. watchdog.time <= RequestTicks
        BY <3>3 DEF CareInv, Fresh
      <4>2. camera'.run <= 2 * RequestTicks + MoveTicks + req'[r].age
        BY <2>1, <2>2, <3>3, <4>1, Ages, PtzControlAssumption
      <4>3. QED
        BY <2>1, <4>2 DEF Cared
    <3>4. CASE \E q \in Requests :
                  /\ req[q].pc \in {"resolve", "stop"}
                  /\ camera.run <= 2 * RequestTicks + MoveTicks + req[q].age
      BY <2>1, <2>2, <3>4 DEF Cared
    <3>5. QED
      BY <2>4, <3>1, <3>2, <3>3, <3>4 DEF Cared
  <2>5. QED
    BY <2>2, <2>3, <2>4 DEF CareInv, Moving
<1>2. CASE StopSent(r)
  <2>1. req[r] \in RequestType /\ ~NothingToStop
    BY DEF TypeOK, NothingToStop
  <2>2. /\ req'[r] = [req[r] EXCEPT !.pc = "stop", !.dir = last]
        /\ \A q \in Requests : q # r => req'[q] = req[q]
    BY <1>2, <2>1 DEF StopSent, TypeOK
  <2>3. req[r].pc = "resolve" /\ req'[r].pc = "stop" /\ req'[r].age = req[r].age
    <3>1. req[r].pc = "resolve"
      BY <1>2 DEF StopSent
    <3>2. req'[r].pc = "stop"
      BY <2>1, <2>2 DEF RequestType
    <3>3. req'[r].age = req[r].age
      BY <2>1, <2>2 DEF RequestType
    <3>4. QED
      BY <3>1, <3>2, <3>3
  <2>4. UNCHANGED <<driver, watchdog, camera, neglected>>
    BY <1>2 DEF StopSent
  <2>5. Fresh'
    BY <2>2, <2>3, <2>4 DEF CareInv, Fresh, Moving
  <2>6. Cared => Cared'
    BY <2>2, <2>3, <2>4 DEF Cared
  <2>7. QED
    BY <2>4, <2>5, <2>6 DEF CareInv, Moving
<1>3. CASE CameraStops(r)
  <2>1. camera'.dir = Still /\ UNCHANGED watchdog
    BY <1>3, Records DEF CameraStops, CameraAfterStop
  <2>2. QED
    BY <2>1, CareAtRest DEF CareInv, Fresh
<1>4. CASE StopFails(r)
  <2>1. /\ req'[r].pc = "unlock"
        /\ \A q \in Requests : q # r => req'[q] = req[q]
    BY <1>4 DEF StopFails, TypeOK, RequestType
  <2>2. UNCHANGED <<driver, watchdog, camera>> /\ neglected' = (neglected \/ Moving)
    BY <1>4 DEF StopFails, Mishap
  <2>3. Fresh'
    BY <2>1, <2>2 DEF CareInv, Fresh, Moving
  <2>4. QED
    BY <2>2, <2>3 DEF CareInv, Moving
<1>5. CASE Unlock(r)
  <2>1. /\ req[r].pc = "unlock" /\ req'[r].pc = "idle"
        /\ \A q \in Requests : q # r => req'[q] = req[q]
    BY <1>5, IdleWf DEF Unlock, TypeOK
  <2>2. UNCHANGED <<driver, watchdog, camera, neglected>> /\ neglected' \in BOOLEAN
    BY <1>5 DEF Unlock, TypeOK
  <2>3. QED
    BY <2>1, <2>2, CareKept
<1>6. CASE RedisFails(r)
  <2>1. /\ req[r].pc \in {"move", "unlock"} /\ req'[r].pc = "idle"
        /\ \A q \in Requests : q # r => req'[q] = req[q]
    BY <1>6, IdleWf DEF RedisFails, TypeOK
  <2>2. UNCHANGED <<driver, watchdog, camera>> /\ neglected' = neglected
        /\ neglected' \in BOOLEAN
    BY <1>6 DEF RedisFails, Mishap, TypeOK
  <2>3. QED
    BY <2>1, <2>2, CareKept
<1>7. QED
  BY <1>1, <1>2, <1>3, <1>4, <1>5, <1>6

LEMMA CareDog ==
    ASSUME TypeOK, CareInv, driver # "dahua", DogWakes \/ DogStops \/ DogFails
    PROVE  CareInv'
<1>1. CASE DogWakes
  <2>1. ~NothingToStop
    BY DEF NothingToStop
  <2>2. /\ watchdog.pc = "sleep" /\ watchdog.time = 0
        /\ watchdog'.pc = "stop" /\ watchdog'.time = 0
        /\ UNCHANGED <<driver, req, camera, neglected>>
    BY <1>1, <2>1 DEF DogWakes
  <2>3. Fresh'
    BY <2>2, PtzControlAssumption DEF CareInv, Fresh, Moving
  <2>4. Cared => Cared'
    <3>1. CASE \E q \in Requests : req[q].pc = "moved"
      BY <2>2, <3>1 DEF Cared
    <3>2. CASE camera.run + watchdog.time <= RequestTicks + MoveTicks
      <4>1. camera'.run <= RequestTicks + MoveTicks + watchdog'.time
        BY <2>2, <3>2, Ages, PtzControlAssumption
      <4>2. QED
        BY <2>2, <4>1 DEF Cared
    <3>3. CASE \E q \in Requests :
                  /\ req[q].pc \in {"resolve", "stop"}
                  /\ camera.run <= 2 * RequestTicks + MoveTicks + req[q].age
      BY <2>2, <3>3 DEF Cared
    <3>4. QED
      BY <2>2, <3>1, <3>2, <3>3 DEF Cared
  <2>5. QED
    BY <2>2, <2>3, <2>4 DEF CareInv, Moving
<1>2. CASE DogStops
  <2>1. camera'.dir = Still /\ watchdog'.pc = "none"
    BY <1>2, Records DEF DogStops, CameraAfterStop
  <2>2. QED
    BY <2>1, CareAtRest
<1>3. CASE DogFails
  BY <1>3, Records DEF DogFails, Mishap, CareInv, Fresh, Moving
<1>4. QED
  BY <1>1, <1>2, <1>3

LEMMA CareTick ==
    ASSUME TypeOK, CareInv, Tick
    PROVE  CareInv'
<1>1. ASSUME NEW r \in Requests
      PROVE  /\ req'[r].pc = req[r].pc
             /\ req[r].pc # "idle" => req'[r].age = req[r].age + 1
  <2>1. req[r] \in RequestType
    BY DEF TypeOK
  <2>2. req'[r] = IF r \in InFlight THEN [req[r] EXCEPT !.age = req[r].age + 1] ELSE req[r]
    BY DEF Tick
  <2>3. QED
    BY <2>1, <2>2 DEF InFlight, RequestType
<1>2. /\ watchdog'.pc = watchdog.pc
      /\ watchdog.pc = "sleep" => watchdog'.time = watchdog.time - 1
      /\ watchdog.pc = "stop" => watchdog'.time = watchdog.time + 1 /\ watchdog.time < RequestTicks
  BY DEF Tick, DogLater, TypeOK, DogType
<1>3. UNCHANGED <<driver, neglected>> /\ camera' = CameraLater
  BY DEF Tick
<1>4. /\ watchdog'.pc = "sleep" => watchdog'.time <= MoveTicks
      /\ watchdog'.pc = "stop" => watchdog'.time <= RequestTicks
  BY <1>2, Ages, PtzControlAssumption DEF CareInv, Fresh
<1>5. CASE camera'.dir = Still
  BY <1>4, <1>5, CareAtRest
<1>6. CASE camera'.dir # Still
  <2>1. /\ Moving
        /\ driver \in SelfStopping => camera'.run < MoveTicks
        /\ camera'.run <= camera.run + 1
        /\ camera'.run \in Nat
    <3>1. Moving /\ ~(driver \in SelfStopping /\ camera.run + 1 >= MoveTicks)
      BY <1>3, <1>6, Records DEF CameraLater
    <3>2. CASE camera.run > StopBound
      <4>1. camera' = camera
        BY <1>3, <3>1, <3>2 DEF CameraLater
      <4>2. QED
        BY <3>1, <4>1, Ages, PtzControlAssumption
    <3>3. CASE ~(camera.run > StopBound)
      <4>1. camera' = [camera EXCEPT !.run = camera.run + 1]
        BY <1>3, <3>1, <3>3 DEF CameraLater
      <4>2. camera'.run = camera.run + 1
        BY <4>1 DEF TypeOK
      <4>3. QED
        BY <3>1, <4>2, Ages, PtzControlAssumption
    <3>4. QED
      BY <3>2, <3>3
  <2>2. Fresh'
    <3>1. ASSUME NEW q \in Requests, req'[q].pc = "moved" PROVE camera'.run <= req'[q].age
      <4>1. req[q].pc = "moved" /\ req'[q].age = req[q].age + 1 /\ camera.run <= req[q].age
        BY <1>1, <2>1, <3>1 DEF CareInv, Fresh
      <4>2. QED
        BY <2>1, <4>1, Ages, PtzControlAssumption
    <3>2. QED
      BY <1>4, <3>1 DEF Fresh
  <2>3. camera'.run \in Nat
    BY <2>1
  <2>4. Cared => Cared'
    <3>1. CASE \E q \in Requests : req[q].pc = "moved"
      BY <1>1, <3>1 DEF Cared
    <3>2. CASE watchdog.pc = "sleep" /\ camera.run + watchdog.time <= RequestTicks + MoveTicks
      <4>1. camera'.run + watchdog'.time <= RequestTicks + MoveTicks
        BY <1>2, <2>1, <2>3, <3>2, Ages, PtzControlAssumption
      <4>2. QED
        BY <1>2, <3>2, <4>1 DEF Cared
    <3>3. CASE watchdog.pc = "stop" /\ camera.run <= RequestTicks + MoveTicks + watchdog.time
      <4>1. camera'.run <= RequestTicks + MoveTicks + watchdog'.time
        BY <1>2, <2>1, <2>3, <3>3, Ages, PtzControlAssumption
      <4>2. QED
        BY <1>2, <3>3, <4>1 DEF Cared
    <3>4. ASSUME NEW q \in Requests, req[q].pc \in {"resolve", "stop"},
                 camera.run <= 2 * RequestTicks + MoveTicks + req[q].age
          PROVE  Cared'
      <4>1. camera'.run <= 2 * RequestTicks + MoveTicks + req'[q].age
        BY <1>1, <2>1, <2>3, <3>4, Ages, PtzControlAssumption
      <4>2. QED
        BY <1>1, <3>4, <4>1 DEF Cared
    <3>5. QED
      BY <3>1, <3>2, <3>3, <3>4 DEF Cared
  <2>5. QED
    BY <1>3, <2>1, <2>2, <2>4 DEF CareInv
<1>7. QED
  BY <1>5, <1>6

LEMMA CareNext ==
    ASSUME TypeOK, CareInv, driver # "dahua", [Next]_vars
    PROVE  CareInv'
<1>1. ASSUME NEW r \in Requests, RequestStep(r) PROVE CareInv'
  BY <1>1, CareMove, CareStop DEF RequestStep
<1>2. CASE DogWakes \/ DogStops \/ DogFails
  BY <1>2, CareDog
<1>3. CASE Restart
  BY <1>3, IdleWf, Records DEF Restart, Mishap, CareInv, Fresh, Moving
<1>4. CASE Tick
  BY <1>4, CareTick
<1>5. CASE UNCHANGED vars
  BY <1>5 DEF vars, CareInv, Fresh, Cared, Moving
<1>6. QED
  BY <1>1, <1>2, <1>3, <1>4, <1>5 DEF Next

LEMMA CareBounds ==
    ASSUME TypeOK, CareInv
    PROVE  StopsInTime
<1>1. ASSUME Moving, driver \notin SelfStopping, ~neglected PROVE camera.run <= StopBound
  <2>1. Cared
    BY <1>1 DEF CareInv
  <2>2. CASE \E r \in Requests : req[r].pc = "moved"
    BY <1>1, <2>2, Ages, PtzControlAssumption DEF CareInv, Fresh, StopBound
  <2>3. CASE watchdog.pc = "sleep" /\ camera.run + watchdog.time <= RequestTicks + MoveTicks
    BY <2>3, Ages, PtzControlAssumption DEF StopBound
  <2>4. CASE watchdog.pc = "stop" /\ camera.run <= RequestTicks + MoveTicks + watchdog.time
    BY <2>4, Ages, PtzControlAssumption DEF StopBound, CareInv, Fresh
  <2>5. CASE \E r \in Requests :
                /\ req[r].pc \in {"resolve", "stop"}
                /\ camera.run <= 2 * RequestTicks + MoveTicks + req[r].age
    BY <2>5, Ages, PtzControlAssumption DEF StopBound
  <2>6. QED
    BY <2>1, <2>2, <2>3, <2>4, <2>5 DEF Cared
<1>2. QED
  BY <1>1 DEF CareInv, StopsInTime

(* Unless the camera is a Dahua, it stops in time whatever the panels do,   *)
(* for any number of them: within its own limit, or within the watchdog's   *)
(* delay and three requests.                                                *)
THEOREM CameraStopsInTime ==
    ASSUME "dahua" \notin Drivers
    PROVE  Spec => []StopsInTime
<1>1. Init => TypeOK /\ CareInv
  BY TypeInit, CareInit
<1>2. TypeOK => driver # "dahua"
  BY DEF TypeOK
<1>3. TypeOK /\ CareInv /\ [Next]_vars => (TypeOK /\ CareInv)'
  BY <1>2, TypeNext, CareNext
<1>4. TypeOK /\ CareInv => StopsInTime
  BY CareBounds
<1>5. QED
  BY <1>1, <1>3, <1>4, PTL DEF Spec
===============================================================================
