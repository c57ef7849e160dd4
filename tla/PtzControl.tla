------------------------------ MODULE PtzControl ------------------------------
(***************************************************************************)
(* Turning one camera: who may, and who stops it.                          *)
(*                                                                         *)
(* A panel button that is held down sends "move" again and again and       *)
(* "stop" when it is let go.  A move takes the lock ptz:lock:<camera> in   *)
(* Redis, sends the command to the camera and, for the drivers whose       *)
(* protocol knows no time limit, arms a watchdog task that stops the       *)
(* camera later.  Requests are cut where they wait: for Redis, for the     *)
(* camera to act, for the camera to answer.                                *)
(*                                                                         *)
(* A Dahua camera is stopped only by naming the direction it was started   *)
(* with, and the driver remembers one direction per camera.                *)
(***************************************************************************)
EXTENDS Integers

CONSTANTS
    Holders,       \* viewers and users who may press the buttons
    Requests,      \* places for requests that are in flight together
    Directions,
    Nobody,        \* no owner of the lock
    Still,         \* no direction
    Drivers,       \* the drivers a run is about
    MoveTicks,     \* ptz_move_seconds
    HoldTicks,     \* ptz_hold_seconds
    RequestTicks,  \* ticks a request, or the watchdog's, may last
    MaxSent,       \* bound: requests of the panels
    MaxMishaps     \* bound: commands the camera fails to take, failures of Redis, restarts

ASSUME PtzControlAssumption ==
    /\ Nobody \notin Holders
    /\ Still \notin Directions
    /\ Drivers \subseteq {"axis", "dahua", "hikvision", "onvif"}
    /\ MoveTicks \in Nat \ {0}
    /\ HoldTicks \in Nat \ {0}
    /\ RequestTicks \in Nat
    /\ MaxSent \in Nat
    /\ MaxMishaps \in Nat

VARIABLES
    driver,     \* the camera's driver
    lock,       \* the key in Redis: its owner and the ticks it has left
    req,        \* the requests in flight
    told,       \* what the holder's panel was last told (history)
    letGo,      \* moves under way whose holder has let go of the lock meanwhile (history)
    watchdog,   \* the entry of _watchdogs
    last,       \* the entry of _LAST_DIRECTION
    camera,     \* where the camera turns, and for how long since the last command
    neglected,  \* a stop, or a move that was carried out, failed (history)
    sent,       \* requests so far (bound)
    mishaps     \* mishaps so far (bound)

vars == <<driver, lock, req, told, letGo, watchdog, last, camera, neglected, sent, mishaps>>

-------------------------------------------------------------------------------
SelfStopping == {"hikvision", "onvif"}

Free   == [owner |-> Nobody, left |-> 0]
Idle   == [pc |-> "idle", who |-> Nobody, dir |-> Still, age |-> 0]
NoDog  == [pc |-> "none", dir |-> Still, time |-> 0]
AtRest == [dir |-> Still, run |-> 0]

Moving   == camera.dir # Still
InFlight == {r \in Requests : req[r].pc # "idle"}

\* How long a camera with no limit of its own may turn on after the last command.
StopBound == MoveTicks + 3 * RequestTicks

Init ==
    /\ driver \in Drivers
    /\ lock = Free
    /\ req = [r \in Requests |-> Idle]
    /\ told = [h \in Holders |-> "nothing"]
    /\ letGo = {}
    /\ watchdog = NoDog
    /\ last = Still
    /\ camera = AtRest
    /\ neglected = FALSE
    /\ sent = 0
    /\ mishaps = 0

-------------------------------------------------------------------------------
(* The lock.                                                                *)

\* _ACQUIRE: take it when it is free, extend it when it is one's own.
Acquirable(h) == lock.owner \in {Nobody, h}

\* A mutant: whoever stops takes the lock away.
LockWithoutAsking(h) == Free

\* _RELEASE: only the owner's.
LockWithout(h) == IF lock.owner = h THEN Free ELSE lock

(* The stop that is sent to the camera.  The Dahua driver forgets the       *)
(* direction before it sends, and sends nothing when it knows none.         *)
NothingToStop == driver = "dahua" /\ last = Still

CameraAfterStop(dir) ==
    IF driver = "dahua" /\ camera.dir # dir THEN camera ELSE AtRest

Mishap(bad) ==
    /\ mishaps < MaxMishaps
    /\ mishaps' = mishaps + 1
    /\ neglected' = (neglected \/ (bad /\ Moving))

-------------------------------------------------------------------------------
(* A move.                                                                  *)

Arrives(r) ==
    /\ req[r].pc = "idle"
    /\ sent < MaxSent
    /\ sent' = sent + 1

\* A mutant: the watchdog is cancelled when the command is sent, not when it is
\* answered.
PressTakenUnguarded(r, h, d) ==
    /\ Arrives(r)
    /\ Acquirable(h)
    /\ lock' = [owner |-> h, left |-> HoldTicks]
    /\ req' = [req EXCEPT ![r] = [pc |-> "move", who |-> h, dir |-> d, age |-> 0]]
    /\ letGo' = letGo \ {r}
    /\ watchdog' = NoDog
    /\ UNCHANGED <<driver, told, last, camera, neglected, mishaps>>

PressTaken(r, h, d) ==
    /\ Arrives(r)
    /\ Acquirable(h)
    /\ lock' = [owner |-> h, left |-> HoldTicks]
    /\ req' = [req EXCEPT ![r] = [pc |-> "move", who |-> h, dir |-> d, age |-> 0]]
    /\ letGo' = letGo \ {r}
    /\ UNCHANGED <<driver, told, watchdog, last, camera, neglected, mishaps>>

PressBusy(r, h) ==
    /\ Arrives(r)
    /\ ~Acquirable(h)
    /\ told' = [told EXCEPT ![h] = "nothing"]
    /\ UNCHANGED <<driver, lock, req, watchdog, last, camera, neglected, mishaps, letGo>>

CameraMoves(r) ==
    /\ req[r].pc = "move"
    /\ camera' = [dir |-> req[r].dir, run |-> 0]
    /\ req' = [req EXCEPT ![r].pc = "moved"]
    /\ UNCHANGED <<driver, lock, told, watchdog, last, neglected, sent, mishaps, letGo>>

\* _arm_watchdog: cancels the watchdog there is, whatever it is doing.
Armed == [pc |-> "sleep", dir |-> Still, time |-> MoveTicks]

\* A mutant: every driver gets a watchdog.
MoveAnsweredArming(r) ==
    /\ req[r].pc = "moved"
    /\ last' = IF driver = "dahua" THEN req[r].dir ELSE last
    /\ watchdog' = Armed
    /\ told' = [told EXCEPT ![req[r].who] = "moving"]
    /\ req' = [req EXCEPT ![r] = Idle]
    /\ neglected' = FALSE
    /\ UNCHANGED <<driver, lock, camera, sent, mishaps, letGo>>

MoveAnswered(r) ==
    /\ req[r].pc = "moved"
    /\ last' = IF driver = "dahua" THEN req[r].dir ELSE last
    /\ watchdog' = IF driver \in SelfStopping THEN watchdog ELSE Armed
    /\ told' = [told EXCEPT ![req[r].who] = "moving"]
    /\ req' = [req EXCEPT ![r] = Idle]
    /\ neglected' = FALSE
    /\ UNCHANGED <<driver, lock, camera, sent, mishaps, letGo>>

\* Any failure of the camera or on the way to it, before the command is carried out or
\* after: no watchdog.
MoveFails(r) ==
    /\ req[r].pc \in {"move", "moved"}
    /\ Mishap(req[r].pc = "moved")
    /\ req' = [req EXCEPT ![r].pc = "unlock"]
    /\ UNCHANGED <<driver, lock, told, watchdog, last, camera, sent, letGo>>

-------------------------------------------------------------------------------
(* A stop: the watchdog goes first, the camera next, the lock last.         *)

Release(r, h) ==
    /\ Arrives(r)
    /\ watchdog' = NoDog
    /\ req' = [req EXCEPT ![r] = [pc |-> "resolve", who |-> h, dir |-> Still, age |-> 0]]
    /\ UNCHANGED <<driver, lock, told, last, camera, neglected, mishaps, letGo>>

StopSent(r) ==
    /\ req[r].pc = "resolve"
    /\ req' = [req EXCEPT ![r] = [@ EXCEPT !.pc = IF NothingToStop THEN "unlock" ELSE "stop",
                                           !.dir = last]]
    /\ last' = Still
    /\ UNCHANGED <<driver, lock, told, watchdog, camera, neglected, sent, mishaps, letGo>>

CameraStops(r) ==
    /\ req[r].pc = "stop"
    /\ camera' = CameraAfterStop(req[r].dir)
    /\ req' = [req EXCEPT ![r].pc = "unlock"]
    /\ UNCHANGED <<driver, lock, told, watchdog, last, neglected, sent, mishaps, letGo>>

StopFails(r) ==
    /\ req[r].pc \in {"resolve", "stop"}
    /\ Mishap(TRUE)
    /\ req' = [req EXCEPT ![r].pc = "unlock"]
    /\ UNCHANGED <<driver, lock, told, watchdog, last, camera, sent, letGo>>

\* The end of a stop, and of a move that failed.
Unlock(r) ==
    /\ req[r].pc = "unlock"
    /\ lock' = LockWithout(req[r].who)
    /\ letGo' = letGo \cup {s \in Requests : req[s].pc = "move" /\ req[s].who = req[r].who}
    /\ told' = [told EXCEPT ![req[r].who] = "nothing"]
    /\ req' = [req EXCEPT ![r] = Idle]
    /\ UNCHANGED <<driver, watchdog, last, camera, neglected, sent, mishaps>>

\* Redis fails a move before the camera hears of it, or the giving back of the lock: no
\* handler catches this, the lock stays, and the panel gets no answer.
RedisFails(r) ==
    /\ req[r].pc \in {"move", "unlock"}
    /\ Mishap(FALSE)
    /\ told' = [told EXCEPT ![req[r].who] = "lost"]
    /\ req' = [req EXCEPT ![r] = Idle]
    /\ UNCHANGED <<driver, lock, watchdog, last, camera, sent, letGo>>

-------------------------------------------------------------------------------
(* The watchdog, _auto_stop.                                                *)

DogWakes ==
    /\ watchdog.pc = "sleep"
    /\ watchdog.time = 0
    /\ watchdog' = IF NothingToStop THEN NoDog ELSE [pc |-> "stop", dir |-> last, time |-> 0]
    /\ last' = Still
    /\ UNCHANGED <<driver, lock, req, told, camera, neglected, sent, mishaps, letGo>>

DogStops ==
    /\ watchdog.pc = "stop"
    /\ camera' = CameraAfterStop(watchdog.dir)
    /\ watchdog' = NoDog
    /\ UNCHANGED <<driver, lock, req, told, last, neglected, sent, mishaps, letGo>>

DogFails ==
    /\ watchdog.pc = "stop"
    /\ Mishap(TRUE)
    /\ watchdog' = NoDog
    /\ UNCHANGED <<driver, lock, req, told, last, camera, sent, letGo>>

(* The api stops, in order (shutdown) or not: tasks, connections and the    *)
(* memory of directions go, the lock stays in Redis.                        *)
Restart ==
    /\ Mishap(TRUE)
    /\ req' = [r \in Requests |-> Idle]
    /\ told' = [h \in Holders |->
            IF \E r \in InFlight : req[r].who = h THEN "lost" ELSE told[h]]
    /\ watchdog' = NoDog
    /\ last' = Still
    /\ UNCHANGED <<driver, lock, camera, sent, letGo>>

(* Time passes: no request outlasts RequestTicks, a watchdog whose time has *)
(* come wakes first, and a camera that was given a limit keeps it.          *)
LockLater == IF lock.left <= 1 THEN Free ELSE [lock EXCEPT !.left = @ - 1]

DogLater ==
    CASE watchdog.pc = "none"  -> watchdog
      [] watchdog.pc = "sleep" -> [watchdog EXCEPT !.time = @ - 1]
      [] OTHER                 -> [watchdog EXCEPT !.time = @ + 1]

CameraLater ==
    IF ~Moving \/ (driver \in SelfStopping /\ camera.run + 1 >= MoveTicks) THEN AtRest
    ELSE IF camera.run > StopBound THEN camera
    ELSE [camera EXCEPT !.run = @ + 1]

Tick ==
    /\ \A r \in InFlight : req[r].age < RequestTicks
    /\ watchdog.pc = "sleep" => watchdog.time > 0
    /\ watchdog.pc = "stop" => watchdog.time < RequestTicks
    /\ req' = [r \in Requests |->
            IF r \in InFlight THEN [req[r] EXCEPT !.age = @ + 1] ELSE req[r]]
    /\ lock' = LockLater
    /\ watchdog' = DogLater
    /\ camera' = CameraLater
    /\ UNCHANGED <<driver, told, last, neglected, sent, mishaps, letGo>>

-------------------------------------------------------------------------------
RequestStep(r) ==
    \/ \E h \in Holders : PressBusy(r, h) \/ Release(r, h) \/ \E d \in Directions : PressTaken(r, h, d)
    \/ CameraMoves(r) \/ MoveAnswered(r) \/ MoveFails(r)
    \/ StopSent(r) \/ CameraStops(r) \/ StopFails(r)
    \/ Unlock(r) \/ RedisFails(r)

Next ==
    \/ \E r \in Requests : RequestStep(r)
    \/ DogWakes \/ DogStops \/ DogFails
    \/ Restart
    \/ Tick

Spec == Init /\ [][Next]_vars

-------------------------------------------------------------------------------
(* Properties.                                                              *)

RequestType == [pc: {"idle", "move", "moved", "resolve", "stop", "unlock"},
                who: Holders \cup {Nobody}, dir: Directions \cup {Still}, age: 0..RequestTicks]
DogType == [pc: {"none", "sleep", "stop"}, dir: Directions \cup {Still},
            time: 0..(MoveTicks + RequestTicks)]

(* Every variable keeps its type; the lock is free exactly when its time is *)
(* up, and only drivers that need a watchdog have one.                      *)
TypeOK ==
    /\ driver \in Drivers
    /\ lock \in [owner: Holders \cup {Nobody}, left: 0..HoldTicks]
    /\ lock.owner = Nobody <=> lock.left = 0
    /\ req \in [Requests -> RequestType]
    /\ \A r \in Requests : req[r].pc = "idle" <=> req[r].who = Nobody
    /\ told \in [Holders -> {"nothing", "moving", "lost"}]
    /\ letGo \subseteq Requests
    /\ watchdog \in DogType
    /\ driver \in SelfStopping => watchdog.pc = "none"
    /\ last \in Directions \cup {Still}
    /\ camera \in [dir: Directions \cup {Still}, run: 0..(StopBound + 1)]
    /\ neglected \in BOOLEAN
    /\ sent \in 0..MaxSent
    /\ mishaps \in 0..MaxMishaps

(* "Do not leave the camera turning when the viewer's browser died":        *)
(* whatever the panels do or fail to do, a camera stops within its own      *)
(* limit or, when it has none, within the watchdog's delay and three        *)
(* requests, unless it was the camera that failed to take a stop or to      *)
(* answer a move, or the api was restarted.                                 *)
StopsInTime ==
    Moving => IF driver \in SelfStopping THEN camera.run < MoveTicks
              ELSE neglected \/ camera.run <= StopBound

(* "A broken camera must not hold the controls": the lock is held only for  *)
(* a panel that waits for an answer, was told that the camera follows it,   *)
(* or was left without an answer by a restart or a failure of Redis.        *)
HeldForSomebody ==
    \A h \in Holders : lock.owner = h =>
        \/ \E r \in InFlight : req[r].who = h
        \/ told[h] # "nothing"

(* "The first to press has the camera to himself": what is on its way to    *)
(* the camera is a move of whoever has the lock, unless he let go of it     *)
(* himself, with another request that stopped or failed meanwhile.  It      *)
(* takes a lock that lives longer than a request.                           *)
MovesAreHeld ==
    HoldTicks > RequestTicks =>
        \A r \in Requests : req[r].pc = "move" /\ r \notin letGo => lock.owner = req[r].who

(* The lock says who controls the camera, and nobody controls it without    *)
(* (ptz/lock.py:1-6, 27-57, service.py:267-300).                            *)
LockMeansControl == HeldForSomebody /\ MovesAreHeld
===============================================================================
