------------------------------ MODULE Reconciler ------------------------------
(***************************************************************************)
(* How the paths of the media server follow the cameras in the database.   *)
(*                                                                         *)
(* The panel commits a change of a camera and then pushes it to the media  *)
(* server itself; its diagnosis of a camera writes the path as well, from  *)
(* a row it has read before it spoke to the camera.  The worker goes round  *)
(* in cycles: it reads the rows, lists the paths, repairs the differences   *)
(* one request at a time, and re-creates paths that have not come up for    *)
(* long.  The media server keeps its paths in memory only.  Every request   *)
(* can fail, and each of the three processes can be restarted at any        *)
(* moment.                                                                  *)
(*                                                                         *)
(* What a path is configured with is abstracted to a number that grows     *)
(* with every edit.                                                        *)
(***************************************************************************)
EXTENDS Integers

CONSTANTS
    Cameras,       \* cameras, by their (never reused) path
    Handlers,      \* requests of the panel that may be in flight at a time
    Unreadable,    \* cameras whose URL was encrypted with a key that is lost
    Repushing,     \* whether paths that do not come up are in the story
    MaxEdits,      \* bound: edits of cameras and diagnoses
    MaxMishaps     \* bound: failed requests and restarts

ASSUME ReconcilerAssumption ==
    /\ Unreadable \subseteq Cameras
    /\ Repushing \in BOOLEAN
    /\ MaxEdits \in Nat
    /\ MaxMishaps \in Nat

VARIABLES
    row,       \* the cameras' rows
    edits,     \* how many edits and diagnoses there were (bound, and the newest configuration)
    paths,     \* the media server's configured paths
    up,        \* whether the media server runs
    panel,     \* the panel's requests after their commit, and its diagnoses
    worker,    \* where the worker's cycle is
    mishaps,   \* how much went wrong (bound)
    calm,      \* nothing but the worker acted since its cycle began (history)
    doubtful   \* cameras whose last push may have missed its row (history)

vars == <<row, edits, paths, up, panel, worker, mishaps, calm, doubtful>>

-------------------------------------------------------------------------------
NoPath == 0
Confs  == 1..(MaxEdits + 1)

Idle == [pc |-> "idle", camera |-> {}, conf |-> NoPath, edit |-> FALSE]

Nothing == [c \in Cameras |-> NoPath]
Resting == [pc |-> "idle", desired |-> Nothing, current |-> Nothing, todo |-> {}]

(* desired_state: what one camera's row asks for.  A row that cannot be     *)
(* decrypted is passed over, and so is treated as if it were not there.     *)
Wanted(c) == IF row[c].st = "on" /\ row[c].readable THEN row[c].conf ELSE NoPath

Agrees == \A c \in Cameras : paths[c] = Wanted(c)

Init ==
    /\ row \in [Cameras -> {[st |-> "new", readable |-> TRUE, conf |-> 1],
                            [st |-> "on", readable |-> TRUE, conf |-> 1],
                            [st |-> "on", readable |-> FALSE, conf |-> 1]}]
    /\ \A c \in Cameras : ~row[c].readable <=> c \in Unreadable
    /\ edits = 0
    /\ paths = Nothing
    /\ up = TRUE
    /\ panel = [h \in Handlers |-> Idle]
    /\ worker = Resting
    /\ mishaps = 0
    /\ calm = FALSE
    /\ doubtful = {c \in Cameras : Wanted(c) # NoPath}

-------------------------------------------------------------------------------
(* The panel.  Each operation commits and then speaks to the media server   *)
(* about the row as it committed it.                                        *)

\* The panel's requests that may still write the path of a camera, and those of them that
\* push an edit; the others are diagnoses.
Writers(c) == {h \in Handlers :
    panel[h].pc \in {"compare", "replace", "add", "delete"} /\ c \in panel[h].camera}
Pushes(c)  == {h \in Writers(c) : panel[h].edit}

\* Between the worker's reading of the rows and its last request.
WorkerWrites == worker.pc \notin {"idle", "statuses"}

\* An edit meets the push of an earlier one, a diagnosis, or the worker, or pushes what its
\* row does not ask for.
Met(c, r, next) == Writers(c) # {} \/ WorkerWrites \/ (next = "replace" /\ r.st = "off")

Commit(h, c, r, next) ==
    /\ panel[h].pc = "idle"
    /\ edits < MaxEdits
    /\ edits' = edits + 1
    /\ row' = [row EXCEPT ![c] = r]
    /\ panel' = [panel EXCEPT ![h] = [pc |-> next, camera |-> {c}, conf |-> r.conf,
                                        edit |-> TRUE]]
    /\ calm' = FALSE
    /\ doubtful' = IF Met(c, r, next) THEN doubtful \cup {c}
                   ELSE IF next = "crash" THEN doubtful ELSE doubtful \ {c}
    /\ UNCHANGED <<paths, up, worker, mishaps>>

\* push_camera decrypts first; when it cannot, the request ends in an error
\* page after its commit, and nothing is pushed.
PushOf(r) == IF r.readable THEN "replace" ELSE "crash"

CameraCreate(h, c) ==
    /\ row[c].st = "new"
    /\ Commit(h, c, [st |-> "on", readable |-> TRUE, conf |-> edits + 2], "replace")

\* The form may bring a new URL, encrypted with the current key, or keep the
\* old one; it carries the switch as well.
CameraUpdate(h, c) ==
    /\ row[c].st \in {"on", "off"}
    /\ \E st \in {"on", "off"}, url \in BOOLEAN :
        LET r == [st |-> st, readable |-> url \/ row[c].readable, conf |-> edits + 2]
        IN Commit(h, c, r, IF st = "on" THEN PushOf(r) ELSE "delete")

\* The one-button change of the profile does not look at the switch.
CameraSetProfile(h, c) ==
    /\ row[c].st \in {"on", "off"}
    /\ LET r == [row[c] EXCEPT !.conf = edits + 2] IN Commit(h, c, r, PushOf(r))

CameraDelete(h, c) ==
    /\ row[c].st \in {"on", "off"}
    /\ Commit(h, c, [row[c] EXCEPT !.st = "deleted"], "delete")

\* A diagnosis reads the row, whether the camera is on or not, and goes on to the host and
\* the camera; it commits nothing.
Diagnose(h, c) ==
    /\ panel[h].pc = "idle"
    /\ row[c].st \in {"on", "off"} /\ row[c].readable
    /\ edits < MaxEdits
    /\ edits' = edits + 1
    /\ panel' = [panel EXCEPT ![h] = [pc |-> "compare", camera |-> {c}, conf |-> row[c].conf,
                                      edit |-> FALSE]]
    /\ doubtful' = IF row[c].st = "off" THEN doubtful \cup {c} ELSE doubtful
    /\ UNCHANGED <<row, paths, up, worker, mishaps, calm>>

(* Requests to the media server.  A request that fails has no effect; one   *)
(* that took effect and whose answer was lost needs no case of its own,     *)
(* since no caller asks again.                                              *)
RequestFails ==
    \/ ~up /\ mishaps' = mishaps
    \/ mishaps < MaxMishaps /\ mishaps' = mishaps + 1

RequestReaches == up /\ mishaps' = mishaps

\* A path that somebody else has added meanwhile makes "add" fail.
AddPath(c, conf) == paths' = IF paths[c] = NoPath THEN [paths EXCEPT ![c] = conf] ELSE paths

\* A path that is gone makes "replace" fail.
ReplacePath(c, conf) == paths' = IF paths[c] # NoPath THEN [paths EXCEPT ![c] = conf] ELSE paths

Done(h) == panel' = [panel EXCEPT ![h] = Idle]

\* Nobody repeats the push of an edit that has failed.
Missed(h, c) == doubtful' = IF panel[h].edit THEN doubtful \cup {c} ELSE doubtful

PanelCrash(h) ==
    /\ panel[h].pc = "crash"
    /\ Done(h)
    /\ UNCHANGED <<row, edits, paths, up, worker, mishaps, calm, doubtful>>

\* _check_path_config: a path that is what the row asked for when it was read is left alone,
\* and so is every path when an earlier step of the diagnosis or the question itself fails.
Compare(h) ==
    /\ panel[h].pc = "compare"
    /\ \/ Done(h)
       \/ /\ up /\ \E c \in panel[h].camera : paths[c] # panel[h].conf
          /\ panel' = [panel EXCEPT ![h].pc = "replace"]
    /\ UNCHANGED <<row, edits, paths, up, worker, mishaps, calm, doubtful>>

\* A mutant: a path that is not there yet is taken for a failure.
PanelReplaceOnly(h) ==
    /\ panel[h].pc = "replace"
    /\ \E c \in panel[h].camera :
        \/ RequestFails /\ paths' = paths /\ Missed(h, c)
        \/ RequestReaches /\ ReplacePath(c, panel[h].conf) /\ doubtful' = doubtful
    /\ Done(h)
    /\ calm' = FALSE
    /\ UNCHANGED <<row, edits, up, worker>>

\* upsert_path: replace; when there is no such path, add.
PanelReplace(h) ==
    /\ panel[h].pc = "replace"
    /\ \E c \in panel[h].camera :
        \/ RequestFails /\ Done(h) /\ paths' = paths /\ Missed(h, c)
        \/ /\ RequestReaches /\ paths[c] # NoPath
           /\ paths' = [paths EXCEPT ![c] = panel[h].conf]
           /\ Done(h)
           /\ doubtful' = doubtful
        \/ /\ RequestReaches /\ paths[c] = NoPath
           /\ panel' = [panel EXCEPT ![h].pc = "add"]
           /\ UNCHANGED <<paths, doubtful>>
    /\ calm' = FALSE
    /\ UNCHANGED <<row, edits, up, worker>>

PanelAdd(h) ==
    /\ panel[h].pc = "add"
    /\ \E c \in panel[h].camera :
        \/ RequestFails /\ paths' = paths /\ Missed(h, c)
        \/ RequestReaches /\ AddPath(c, panel[h].conf) /\ doubtful' = doubtful
    /\ Done(h)
    /\ calm' = FALSE
    /\ UNCHANGED <<row, edits, up, worker>>

PanelDrop(h) ==
    /\ panel[h].pc = "delete"
    /\ \E c \in panel[h].camera :
        \/ RequestFails /\ paths' = paths /\ Missed(h, c)
        \/ RequestReaches /\ paths' = [paths EXCEPT ![c] = NoPath] /\ doubtful' = doubtful
    /\ Done(h)
    /\ calm' = FALSE
    /\ UNCHANGED <<row, edits, up, worker>>

\* The api process is restarted: what it had not pushed stays unpushed.
PanelRestart ==
    /\ \E h \in Handlers : panel[h].pc # "idle"
    /\ mishaps < MaxMishaps
    /\ mishaps' = mishaps + 1
    /\ panel' = [h \in Handlers |-> Idle]
    /\ doubtful' = doubtful \cup {c \in Cameras : Pushes(c) # {}}
    /\ UNCHANGED <<row, edits, paths, up, worker, calm>>

-------------------------------------------------------------------------------
(* The media server.                                                        *)

MtxCrash ==
    /\ up
    /\ mishaps < MaxMishaps
    /\ mishaps' = mishaps + 1
    /\ up' = FALSE
    /\ paths' = Nothing
    /\ calm' = FALSE
    /\ doubtful' = Cameras
    /\ UNCHANGED <<row, edits, panel, worker>>

MtxStart ==
    /\ ~up
    /\ up' = TRUE
    /\ calm' = FALSE
    /\ UNCHANGED <<row, edits, paths, panel, worker, mishaps, doubtful>>

-------------------------------------------------------------------------------
(* The worker: reconcile, then refresh_statuses.                            *)

AbandonCycle == worker' = Resting

\* One SELECT of the rows.
ReadDesired ==
    /\ worker.pc = "idle"
    /\ worker' = [Resting EXCEPT !.pc = "list", !.desired = [c \in Cameras |-> Wanted(c)]]
    /\ calm' = TRUE
    /\ UNCHANGED <<row, edits, paths, up, panel, mishaps, doubtful>>

\* A mutant: only paths that are missing are looked for, not different ones.
ToApplyMissing(desired, current) ==
    {c \in Cameras : desired[c] # NoPath /\ current[c] = NoPath}

\* A mutant: what is no longer in the database is left on the media server.
ToRemoveNothing(desired, current) == {}

\* Which paths the first loop has to touch, and which the second.
ToApply(desired, current) ==
    {c \in Cameras : desired[c] # NoPath /\ current[c] # desired[c]}
ToRemove(desired, current) ==
    {c \in Cameras : desired[c] = NoPath /\ current[c] # NoPath}

ListPaths ==
    /\ worker.pc = "list"
    /\ \/ RequestFails /\ AbandonCycle
       \/ /\ RequestReaches
          /\ worker' = [worker EXCEPT !.pc = "apply", !.current = paths,
                                      !.todo = ToApply(worker.desired, paths)]
    /\ calm' = (calm /\ mishaps' = mishaps)
    /\ UNCHANGED <<row, edits, paths, up, panel, doubtful>>

Applied(c) ==
    IF worker.current[c] = NoPath THEN AddPath(c, worker.desired[c])
    ELSE ReplacePath(c, worker.desired[c])

\* A request that fails is noted and the loop goes on.
ApplyOne ==
    /\ worker.pc = "apply"
    /\ \E c \in worker.todo :
        /\ \/ RequestFails /\ paths' = paths
           \/ RequestReaches /\ Applied(c)
        /\ worker' = [worker EXCEPT !.todo = @ \ {c}]
    /\ calm' = (calm /\ mishaps' = mishaps)
    /\ UNCHANGED <<row, edits, up, panel, doubtful>>

ApplyEnds ==
    /\ worker.pc = "apply" /\ worker.todo = {}
    /\ worker' = [worker EXCEPT !.pc = "remove",
                                !.todo = ToRemove(worker.desired, worker.current)]
    /\ UNCHANGED <<row, edits, paths, up, panel, mishaps, calm, doubtful>>

RemoveOne ==
    /\ worker.pc = "remove"
    /\ \E c \in worker.todo :
        /\ \/ RequestFails /\ paths' = paths
           \/ RequestReaches /\ paths' = [paths EXCEPT ![c] = NoPath]
        /\ worker' = [worker EXCEPT !.todo = @ \ {c}]
    /\ calm' = (calm /\ mishaps' = mishaps)
    /\ UNCHANGED <<row, edits, up, panel, doubtful>>

RemoveEnds ==
    /\ worker.pc = "remove" /\ worker.todo = {}
    /\ worker' = [Resting EXCEPT !.pc = "statuses"]
    /\ doubtful' = IF calm THEN {c \in doubtful : Writers(c) # {}} ELSE doubtful
    /\ UNCHANGED <<row, edits, paths, up, panel, mishaps, calm>>

\* refresh_statuses lists the active paths and reads the rows again.  Which
\* of the cameras have failed to come up 5, 20, 80 or 320 times in a row is
\* up to the cameras.
ReadStatuses ==
    /\ worker.pc = "statuses"
    /\ \/ RequestFails /\ AbandonCycle
       \/ /\ RequestReaches
          /\ \E broken \in SUBSET {c \in Cameras : paths[c] # NoPath /\ Wanted(c) # NoPath} :
              /\ broken # {} => Repushing
              /\ worker' = [worker EXCEPT !.pc = "repush", !.todo = broken,
                                          !.desired = [c \in Cameras |-> Wanted(c)]]
    /\ calm' = (calm /\ mishaps' = mishaps)
    /\ UNCHANGED <<row, edits, paths, up, panel, doubtful>>

\* push_camera once more: replace ...
Repush ==
    /\ worker.pc = "repush"
    /\ \E c \in worker.todo :
        \/ /\ RequestFails /\ paths' = paths
           /\ worker' = [worker EXCEPT !.todo = @ \ {c}]
        \/ /\ RequestReaches /\ paths[c] # NoPath
           /\ paths' = [paths EXCEPT ![c] = worker.desired[c]]
           /\ worker' = [worker EXCEPT !.todo = @ \ {c}]
        \/ /\ RequestReaches /\ paths[c] = NoPath
           /\ paths' = paths
           /\ worker' = [worker EXCEPT !.pc = "readd", !.current = [Nothing EXCEPT ![c] = 1]]
    /\ calm' = (calm /\ mishaps' = mishaps)
    /\ UNCHANGED <<row, edits, up, panel, doubtful>>

\* ... or add, when the path is gone by now.
Readd ==
    /\ worker.pc = "readd"
    /\ \E c \in {d \in worker.todo : worker.current[d] = 1} :
        /\ \/ RequestFails /\ paths' = paths
           \/ RequestReaches /\ AddPath(c, worker.desired[c])
        /\ worker' = [worker EXCEPT !.pc = "repush", !.todo = @ \ {c}, !.current = Nothing]
    /\ calm' = (calm /\ mishaps' = mishaps)
    /\ UNCHANGED <<row, edits, up, panel, doubtful>>

\* A mutant: the next cycle begins with what this one has read.
CycleEndsKeepingRows ==
    /\ worker.pc = "repush" /\ worker.todo = {}
    /\ worker' = [worker EXCEPT !.pc = "idle"]
    /\ UNCHANGED <<row, edits, paths, up, panel, mishaps, calm, doubtful>>

CycleEnds ==
    /\ worker.pc = "repush" /\ worker.todo = {}
    /\ worker' = Resting
    /\ UNCHANGED <<row, edits, paths, up, panel, mishaps, calm, doubtful>>

WorkerRestart ==
    /\ worker.pc # "idle"
    /\ mishaps < MaxMishaps
    /\ mishaps' = mishaps + 1
    /\ AbandonCycle
    /\ UNCHANGED <<row, edits, paths, up, panel, calm, doubtful>>

-------------------------------------------------------------------------------
Edit(h, c) ==
    CameraCreate(h, c) \/ CameraUpdate(h, c) \/ CameraSetProfile(h, c) \/ CameraDelete(h, c)

Push(h) == PanelCrash(h) \/ Compare(h) \/ PanelReplace(h) \/ PanelAdd(h) \/ PanelDrop(h)

WorkerStep ==
    \/ ReadDesired \/ ListPaths \/ ApplyOne \/ ApplyEnds \/ RemoveOne \/ RemoveEnds
    \/ ReadStatuses \/ Repush \/ Readd \/ CycleEnds

Next ==
    \/ \E h \in Handlers, c \in Cameras : Edit(h, c) \/ Diagnose(h, c)
    \/ \E h \in Handlers : Push(h)
    \/ PanelRestart
    \/ MtxCrash \/ MtxStart
    \/ WorkerStep \/ WorkerRestart

Spec == Init /\ [][Next]_vars

(* The worker's loop, the panel's requests and the container runtime keep   *)
(* going; nobody has to edit anything and nothing has to break.             *)
FairSpec ==
    /\ Spec
    /\ WF_vars(WorkerStep)
    /\ \A h \in Handlers : WF_vars(Push(h))
    /\ WF_vars(MtxStart)

-------------------------------------------------------------------------------
(* Properties.                                                              *)

PanelType == [pc: {"idle", "compare", "replace", "add", "delete", "crash"},
              camera: SUBSET Cameras, conf: Confs \cup {NoPath}, edit: BOOLEAN]
WorkerType == [pc: {"idle", "list", "apply", "remove", "statuses", "repush", "readd"},
               desired: [Cameras -> Confs \cup {NoPath}],
               current: [Cameras -> Confs \cup {NoPath}],
               todo: SUBSET Cameras]

(* Every variable keeps its type, and a cycle of the worker leaves nothing  *)
(* of what it has read to the next one.                                     *)
TypeOK ==
    /\ row \in [Cameras -> [st: {"new", "on", "off", "deleted"}, readable: BOOLEAN, conf: Confs]]
    /\ edits \in 0..MaxEdits
    /\ paths \in [Cameras -> Confs \cup {NoPath}]
    /\ up \in BOOLEAN
    /\ panel \in [Handlers -> PanelType]
    /\ worker \in WorkerType
    /\ worker.pc = "idle" => worker = Resting
    /\ mishaps \in 0..MaxMishaps
    /\ calm \in BOOLEAN
    /\ doubtful \subseteq Cameras

(* One cycle of reconcile during which nothing else happens repairs         *)
(* everything, whatever state the crashes and races before it have left:    *)
(* nothing a push missed or a race left behind outlives it.                 *)
CalmCycleRepairs == worker.pc \in {"statuses", "repush"} /\ calm => Agrees

(* "The panel pushes changes at once, the worker is the insurance": a path  *)
(* is what its row asks for as soon as its last push is over, and remains   *)
(* it whatever the worker does with the rows and paths it has read and      *)
(* whatever a diagnosis begun since finds, unless                           *)
(*   - the edit met the push of another edit, a diagnosis of the camera     *)
(*     under way, or a cycle that had read the rows;                        *)
(*   - it changed the profile of a camera that is switched off, or such a   *)
(*     camera was diagnosed;                                                *)
(*   - the push was lost or failed, or the media server was restarted;      *)
(* and then until the end of the next undisturbed reconcile that leaves no  *)
(* such request behind (reconciler.py:3-10, 44-127, panel_views.py:204-509, *)
(* diagnose.py:293-323).                                                    *)
PushesStick == \A c \in Cameras \ doubtful : Pushes(c) = {} => paths[c] = Wanted(c)

(* The worker repairs whatever was left behind, and what was pushed in      *)
(* time needs no repair.                                                    *)
PathsFollowRows == CalmCycleRepairs /\ PushesStick

(* The media server ends up, and stays, with the paths of the database      *)
(* once edits and mishaps stop, with no help from the panel.                *)
Converges == <>[]Agrees
===============================================================================
