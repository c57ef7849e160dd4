------------------------------ MODULE ViewerLimit -------------------------------
(***************************************************************************)
(* The limit of a link's viewers.  The place is counted in one round trip   *)
(* (_assert_capacity) and taken in a later one (grant), so two requests may *)
(* take the last place together; and what is counted is the set of the      *)
(* link, which lives and dies apart from the hashes of its viewers.         *)
(* LinkAccess has these steps; this module adds what has to be remembered   *)
(* to say who may pass the limit, and who may watch uncounted.              *)
(***************************************************************************)
EXTENDS LinkAccess

VARIABLES
    overtaken,  \* whether another viewer has come in since a request's check (history)
    late,       \* the viewers of a link who came in overtaken (history)
    given,      \* what a browser was granted since it last had nothing (history)
    crossed     \* viewers who came in while those of their link were dropped (history)

limitVars == <<vars, overtaken, late, given, crossed>>

-------------------------------------------------------------------------------
LimitInit ==
    /\ Init
    /\ overtaken = [v \in Viewers |-> FALSE]
    /\ late = [l \in Links |-> {}]
    /\ given = [v \in Viewers |-> {}]
    /\ crossed = {}

\* Between the check and the grant.
Checked(v) == page[v].pc = "grant"

\* Nothing in Redis, and no request that has read it.
Nothing(v) == media[v].pc = "idle" /\ \A c \in Cameras : viewerHash[v][c] = None

\* Between the SMEMBERS of drop_link_viewers and its pipeline.
Dropping(l) == op.pc = "pipeline" /\ op.link = l

NewViewers(l) == linkViewers'[l] \ linkViewers[l]
Overtaken(v)  == overtaken[v] \/ NewViewers(page[v].link) # {}
Crossing(l)   == IF Dropping(l) THEN NewViewers(l) \ op.seen ELSE {}

Remember ==
    /\ overtaken' = [v \in Viewers |-> Checked(v) /\ Checked(v)' /\ Overtaken(v)]
    /\ late' = [l \in Links |->
            IF linkViewers'[l] = {} THEN {}
            ELSE late[l] \cup {v \in NewViewers(l) : overtaken[v]}]
    /\ given' = [v \in Viewers |->
            IF Nothing(v)' THEN {}
            ELSE given[v] \cup ({viewerHash'[v][c] : c \in Cameras} \ {None})]
    /\ crossed' = crossed \cup UNION {Crossing(l) : l \in Links}

LimitNext == Next /\ Remember

LimitSpec == LimitInit /\ [][LimitNext]_limitVars

-------------------------------------------------------------------------------
PlacesKept(l) ==
    MaxConcurrent[l] > 0 => Cardinality(linkViewers[l] \ late[l]) <= MaxConcurrent[l]

HoldersCounted(l) ==
    \A v \in Holders(l) : v \in linkViewers[l] \/ given[v] # {l} \/ v \in crossed

(* A link's limit is exceeded only by viewers whom another viewer overtook  *)
(* between the counting of the places and the taking of theirs, and a       *)
(* browser with the link's grant is not counted only if it was given        *)
(* something else as well, which keeps its hash alive, or came in while     *)
(* the link's viewers were being dropped: whatever is revoked, rotated,     *)
(* extended or runs out meanwhile (public_views.py:78-89, authz.py:181-201, *)
(* 356-378).                                                                *)
LimitKept == \A l \in Links : PlacesKept(l) /\ HoldersCounted(l)
===============================================================================
