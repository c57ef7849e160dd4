------------------------------- MODULE Watching -------------------------------
(***************************************************************************)
(* What public links promise: a request for media is let through, and a     *)
(* WebRTC session begins after it, only for those who are entitled to the   *)
(* link, on the link's own camera, and not long after the link could last   *)
(* be watched; or for those who work the panel.  LinkAccess implements it   *)
(* with keys in Redis that say what was true a while ago.                   *)
(***************************************************************************)
EXTENDS Integers

CONSTANTS
    Viewers, Links, Cameras,
    Operator,    \* what lets the operators' requests through
    LinkCamera,  \* [Links -> Cameras]
    Operators,   \* viewers who work the panel
    Entitled,    \* [Links -> SUBSET Viewers]
    Grace,       \* ticks for which a dead link may still let requests through
    Patience,    \* ticks a request may last after that
    Horizon      \* ticks after which a dead link is dead enough

VARIABLES
    alive,     \* whether a link can be watched
    deadFor,   \* ticks since it last could
    passing,   \* the requests that were let through: viewer, camera and link
    sessions   \* the WebRTC sessions

-------------------------------------------------------------------------------
Init ==
    /\ alive = [l \in Links |-> TRUE]
    /\ deadFor = [l \in Links |-> 0]
    /\ passing = {}
    /\ sessions = {}

Rightful(v, c, g, late) ==
    \/ g = Operator /\ v \in Operators
    \/ g \in Links /\ v \in Entitled[g] /\ c = LinkCamera[g] /\ deadFor[g] <= late

LetThrough(v, c, g) ==
    /\ Rightful(v, c, g, Grace)
    /\ passing' = passing \cup {<<v, c, g>>}
    /\ UNCHANGED <<alive, deadFor, sessions>>

\* A request that is over has left a session behind or not.
Answered(v, c, g) ==
    /\ <<v, c, g>> \in passing
    /\ passing' = passing \ {<<v, c, g>>}
    /\ \/ sessions' = sessions
       \/ Rightful(v, c, g, Grace + Patience) /\ sessions' = sessions \cup {<<v, c, g>>}
    /\ UNCHANGED <<alive, deadFor>>

\* Viewers leave, and are sent away.
SessionsEnd ==
    /\ sessions' \subseteq sessions
    /\ UNCHANGED <<alive, deadFor, passing>>

\* Links die, and some come back with their camera.
LinksChange ==
    /\ alive' \in [Links -> BOOLEAN]
    /\ deadFor' = [l \in Links |-> IF alive'[l] THEN 0 ELSE deadFor[l]]
    /\ UNCHANGED <<passing, sessions>>

TimePasses ==
    /\ deadFor' = [l \in Links |->
            IF alive[l] THEN 0 ELSE IF deadFor[l] = Horizon THEN Horizon ELSE deadFor[l] + 1]
    /\ UNCHANGED <<alive, passing, sessions>>

Next ==
    \/ \E v \in Viewers, c \in Cameras, g \in Links \cup {Operator} :
            LetThrough(v, c, g) \/ Answered(v, c, g)
    \/ SessionsEnd
    \/ LinksChange
    \/ TimePasses

Spec == Init /\ [][Next]_<<alive, deadFor, passing, sessions>>
===============================================================================
