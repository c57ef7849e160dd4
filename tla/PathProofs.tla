------------------------------- MODULE PathProofs -------------------------------
(***************************************************************************)
(* Proofs about the paths of MediaMTX.  Of Reconciler, for every set of     *)
(* cameras and of requests and any number of edits, diagnoses and mishaps:  *)
(* the type invariant, that one undisturbed cycle of the worker repairs     *)
(* everything, and that a push which meets neither another push nor a       *)
(* cycle nor a diagnosis is not taken back.  Of Diagnosis, for any codecs   *)
(* and any number of edits: that nothing is replaced needlessly, and what   *)
(* a good report is worth.                                                  *)
(***************************************************************************)
EXTENDS Reconciler, Diagnosis, TLAPS

(* A request in flight is about a camera, with a configuration to send; and *)
(* the worker has a configuration for whatever it is going to push.         *)
Carried ==
    /\ \A h \in Handlers : panel[h].pc \in {"compare", "replace", "add"} => panel[h].conf \in Confs
    /\ worker.pc \in {"apply", "repush", "readd"} =>
          \A c \in worker.todo : worker.desired[c] \in Confs

TypeInv == TypeOK /\ Carried

LEMMA ConfRange == NoPath \notin Confs /\ (1 \in Confs)
                   /\ \A n \in 0..MaxEdits : n < MaxEdits => n + 1 \in 0..MaxEdits /\ n + 2 \in Confs
BY ReconcilerAssumption DEF NoPath, Confs

LEMMA RestingWf == Resting \in WorkerType /\ Resting.pc = "idle" /\ Resting.todo = {}
BY DEF Resting, WorkerType, Nothing

LEMMA IdleWf == Idle \in PanelType /\ Idle.pc = "idle"
BY DEF Idle, PanelType

LEMMA WantedWf ==
    ASSUME TypeOK
    PROVE  [c \in Cameras |-> Wanted(c)] \in [Cameras -> Confs \cup {NoPath}]
BY DEF TypeOK, Wanted

LEMMA TypeInit == Init => TypeInv
<1> SUFFICES ASSUME Init PROVE TypeInv
  OBVIOUS
<1>1. {[st |-> "new", readable |-> TRUE, conf |-> 1],
       [st |-> "on", readable |-> TRUE, conf |-> 1],
       [st |-> "on", readable |-> FALSE, conf |-> 1]}
      \subseteq [st: {"new", "on", "off", "deleted"}, readable: BOOLEAN, conf: Confs]
  BY ConfRange
<1>2. row \in [Cameras -> [st: {"new", "on", "off", "deleted"}, readable: BOOLEAN, conf: Confs]]
  BY <1>1 DEF Init
<1>3. paths \in [Cameras -> Confs \cup {NoPath}]
  BY DEF Init, Nothing
<1>4. panel \in [Handlers -> PanelType] /\ \A h \in Handlers : panel[h].pc = "idle"
  BY IdleWf DEF Init
<1>5. worker = Resting /\ worker \in WorkerType /\ worker.pc = "idle"
  BY RestingWf DEF Init
<1>6. /\ edits \in 0..MaxEdits
      /\ mishaps \in 0..MaxMishaps
      /\ up \in BOOLEAN
      /\ calm \in BOOLEAN
      /\ doubtful \subseteq Cameras
  <2>1. edits = 0 /\ mishaps = 0 /\ up = TRUE /\ calm = FALSE
    BY DEF Init
  <2>2. 0 \in 0..MaxEdits /\ 0 \in 0..MaxMishaps
    BY ReconcilerAssumption
  <2>3. doubtful \subseteq Cameras
    BY DEF Init
  <2>4. QED
    BY <2>1, <2>2, <2>3
<1>7. TypeOK
  BY <1>2, <1>3, <1>4, <1>5, <1>6 DEF TypeOK
<1>8. Carried
  BY <1>4, <1>5 DEF Carried
<1>9. QED
  BY <1>7, <1>8 DEF TypeInv

-------------------------------------------------------------------------------
(* Where a push leaves the other requests, and what they carry.             *)
LEMMA CarriedPanel ==
    ASSUME TypeInv, NEW h \in Handlers, NEW r \in PanelType,
           r.pc \in {"compare", "replace", "add"} => r.conf \in Confs,
           panel' = [panel EXCEPT ![h] = r]
    PROVE  /\ panel' \in [Handlers -> PanelType]
           /\ \A g \in Handlers :
                 panel'[g].pc \in {"compare", "replace", "add"} => panel'[g].conf \in Confs
BY DEF TypeInv, TypeOK, Carried

LEMMA CommitType ==
    ASSUME TypeInv, NEW h \in Handlers, NEW c \in Cameras, NEW r, NEW next,
           r \in [st: {"new", "on", "off", "deleted"}, readable: BOOLEAN, conf: Confs],
           next \in {"replace", "delete", "crash"},
           Commit(h, c, r, next)
    PROVE  TypeInv'
<1> DEFINE p == [pc |-> next, camera |-> {c}, conf |-> r.conf, edit |-> TRUE]
<1>1. p \in PanelType /\ p.conf \in Confs
  BY DEF PanelType
<1>2. panel' = [panel EXCEPT ![h] = p]
  BY DEF Commit
<1>3. /\ panel' \in [Handlers -> PanelType]
      /\ \A g \in Handlers :
            panel'[g].pc \in {"compare", "replace", "add"} => panel'[g].conf \in Confs
  BY <1>1, <1>2, CarriedPanel
<1>4. row' \in [Cameras -> [st: {"new", "on", "off", "deleted"}, readable: BOOLEAN, conf: Confs]]
  BY DEF Commit, TypeInv, TypeOK
<1>5. edits' \in 0..MaxEdits
  BY ConfRange DEF Commit, TypeInv, TypeOK
<1>6. /\ calm' \in BOOLEAN /\ doubtful' \subseteq Cameras
      /\ UNCHANGED <<paths, up, worker, mishaps>>
  BY DEF Commit, TypeInv, TypeOK
<1>7. TypeOK'
  BY <1>3, <1>4, <1>5, <1>6 DEF TypeInv, TypeOK
<1>8. Carried'
  BY <1>3, <1>6 DEF TypeInv, Carried
<1>9. QED
  BY <1>7, <1>8 DEF TypeInv

LEMMA EditType ==
    ASSUME TypeInv, NEW h \in Handlers, NEW c \in Cameras, Edit(h, c)
    PROVE  TypeInv'
<1> DEFINE Row == [st: {"new", "on", "off", "deleted"}, readable: BOOLEAN, conf: Confs]
<1>1. row[c] \in Row
  BY DEF TypeInv, TypeOK
<1>2. CASE CameraCreate(h, c)
  <2>1. edits + 2 \in Confs
    BY <1>2, ConfRange DEF CameraCreate, Commit, TypeInv, TypeOK
  <2>2. [st |-> "on", readable |-> TRUE, conf |-> edits + 2] \in Row
    BY <2>1
  <2>3. QED
    BY <1>2, <2>2, CommitType DEF CameraCreate
<1>3. CASE CameraUpdate(h, c)
  <2>1. PICK st \in {"on", "off"}, url \in BOOLEAN :
           Commit(h, c, [st |-> st, readable |-> url \/ row[c].readable, conf |-> edits + 2],
                  IF st = "on"
                  THEN PushOf([st |-> st, readable |-> url \/ row[c].readable, conf |-> edits + 2])
                  ELSE "delete")
    BY <1>3 DEF CameraUpdate
  <2>2. edits + 2 \in Confs
    BY <2>1, ConfRange DEF Commit, TypeInv, TypeOK
  <2>3. (url \/ row[c].readable) \in BOOLEAN
    OBVIOUS
  <2>4. [st |-> st, readable |-> url \/ row[c].readable, conf |-> edits + 2] \in Row
    BY <2>2, <2>3
  <2>5. QED
    BY <2>1, <2>4, CommitType DEF PushOf
<1>4. CASE CameraSetProfile(h, c)
  <2>1. edits + 2 \in Confs
    BY <1>4, ConfRange DEF CameraSetProfile, Commit, TypeInv, TypeOK
  <2>2. [row[c] EXCEPT !.conf = edits + 2] \in Row
    BY <1>1, <2>1
  <2>3. QED
    BY <1>4, <2>2, CommitType DEF CameraSetProfile, PushOf
<1>5. CASE CameraDelete(h, c)
  <2>1. [row[c] EXCEPT !.st = "deleted"] \in Row
    BY <1>1
  <2>2. QED
    BY <1>5, <2>1, CommitType DEF CameraDelete
<1>6. QED
  BY <1>2, <1>3, <1>4, <1>5 DEF Edit

\* A diagnosis takes the configuration of the row it has read.
LEMMA DiagnoseType ==
    ASSUME TypeInv, NEW h \in Handlers, NEW c \in Cameras, Diagnose(h, c)
    PROVE  TypeInv'
<1> DEFINE p == [pc |-> "compare", camera |-> {c}, conf |-> row[c].conf, edit |-> FALSE]
<1>1. row[c].conf \in Confs
  BY DEF TypeInv, TypeOK
<1>2. p \in PanelType /\ p.conf \in Confs
  BY <1>1 DEF PanelType
<1>3. panel' = [panel EXCEPT ![h] = p]
  BY DEF Diagnose
<1>4. /\ panel' \in [Handlers -> PanelType]
      /\ \A g \in Handlers :
            panel'[g].pc \in {"compare", "replace", "add"} => panel'[g].conf \in Confs
  BY <1>2, <1>3, CarriedPanel
<1>5. edits' \in 0..MaxEdits
  BY ConfRange DEF Diagnose, TypeInv, TypeOK
<1>6. doubtful' \subseteq Cameras /\ UNCHANGED <<row, paths, up, worker, mishaps, calm>>
  BY DEF Diagnose, TypeInv, TypeOK
<1>7. TypeOK'
  BY <1>4, <1>5, <1>6 DEF TypeInv, TypeOK
<1>8. Carried'
  BY <1>4, <1>6 DEF TypeInv, Carried
<1>9. QED
  BY <1>7, <1>8 DEF TypeInv

LEMMA MishapsType ==
    ASSUME TypeInv, RequestFails \/ RequestReaches
    PROVE  mishaps' \in 0..MaxMishaps
BY ReconcilerAssumption DEF TypeInv, TypeOK, RequestFails, RequestReaches

LEMMA AddPathType ==
    ASSUME TypeInv, NEW c \in Cameras, NEW conf \in Confs,
           \/ paths' = paths
           \/ AddPath(c, conf)
           \/ ReplacePath(c, conf)
           \/ paths' = [paths EXCEPT ![c] = conf]
           \/ paths' = [paths EXCEPT ![c] = NoPath]
    PROVE  paths' \in [Cameras -> Confs \cup {NoPath}]
BY DEF TypeInv, TypeOK, AddPath, ReplacePath

(* What neither a push nor the media server touches.                        *)
LEMMA PushType ==
    ASSUME TypeInv, NEW h \in Handlers, Push(h)
    PROVE  TypeInv'
<1> SUFFICES /\ panel' \in [Handlers -> PanelType]
             /\ \A g \in Handlers :
                   panel'[g].pc \in {"compare", "replace", "add"} => panel'[g].conf \in Confs
             /\ paths' \in [Cameras -> Confs \cup {NoPath}]
             /\ mishaps' \in 0..MaxMishaps
  <2>1. calm' \in BOOLEAN /\ UNCHANGED <<row, edits, up, worker>>
    BY DEF Push, PanelCrash, Compare, PanelReplace, PanelAdd, PanelDrop, TypeInv, TypeOK
  <2>2. doubtful' \subseteq Cameras
    <3>1. panel[h].camera \subseteq Cameras /\ doubtful \subseteq Cameras
      BY DEF TypeInv, TypeOK, PanelType
    <3>2. \/ doubtful' = doubtful
          \/ \E c \in panel[h].camera : doubtful' = doubtful \cup {c}
      BY DEF Push, PanelCrash, Compare, PanelReplace, PanelAdd, PanelDrop, Missed
    <3>3. QED
      BY <3>1, <3>2
  <2>3. QED
    BY <2>1, <2>2 DEF TypeInv, TypeOK, Carried
<1>1. panel[h] \in PanelType /\ (panel[h].pc \in {"compare", "replace", "add"} => panel[h].conf \in Confs)
  BY DEF TypeInv, TypeOK, Carried
<1>2. Done(h) => /\ panel' \in [Handlers -> PanelType]
                 /\ \A g \in Handlers :
                       panel'[g].pc \in {"compare", "replace", "add"} => panel'[g].conf \in Confs
  BY IdleWf, CarriedPanel DEF Done
<1>3. ASSUME NEW pc \in {"replace", "add"}, panel' = [panel EXCEPT ![h].pc = pc],
             panel[h].conf \in Confs
      PROVE  /\ panel' \in [Handlers -> PanelType]
             /\ \A g \in Handlers :
                   panel'[g].pc \in {"compare", "replace", "add"} => panel'[g].conf \in Confs
  <2>1. [panel[h] EXCEPT !.pc = pc] \in PanelType
    BY <1>1 DEF PanelType
  <2>2. [panel[h] EXCEPT !.pc = pc].conf = panel[h].conf
    BY <1>1 DEF PanelType
  <2>3. panel' = [panel EXCEPT ![h] = [panel[h] EXCEPT !.pc = pc]]
    BY <1>3
  <2>4. QED
    BY <1>3, <2>1, <2>2, <2>3, CarriedPanel
<1>4. CASE PanelCrash(h)
  BY <1>2, <1>4 DEF PanelCrash, TypeInv, TypeOK
<1>5. CASE Compare(h)
  <2>1. panel[h].conf \in Confs /\ UNCHANGED <<paths, mishaps>>
    BY <1>1, <1>5 DEF Compare
  <2>2. paths' \in [Cameras -> Confs \cup {NoPath}] /\ mishaps' \in 0..MaxMishaps
    BY <2>1 DEF TypeInv, TypeOK
  <2>3. CASE Done(h)
    BY <1>2, <2>2, <2>3
  <2>4. CASE panel' = [panel EXCEPT ![h].pc = "replace"]
    BY <1>3, <2>1, <2>2, <2>4
  <2>5. QED
    BY <1>5, <2>3, <2>4 DEF Compare
<1>6. CASE PanelReplace(h)
  <2>1. PICK c \in panel[h].camera :
          \/ RequestFails /\ Done(h) /\ paths' = paths
          \/ /\ RequestReaches /\ paths[c] # NoPath
             /\ paths' = [paths EXCEPT ![c] = panel[h].conf]
             /\ Done(h)
          \/ /\ RequestReaches /\ paths[c] = NoPath
             /\ panel' = [panel EXCEPT ![h].pc = "add"]
             /\ paths' = paths
    BY <1>6 DEF PanelReplace
  <2>2. c \in Cameras /\ panel[h].conf \in Confs
    BY <1>1, <1>6 DEF PanelReplace, PanelType
  <2>3. paths' \in [Cameras -> Confs \cup {NoPath}]
    BY <2>1, <2>2, AddPathType
  <2>4. mishaps' \in 0..MaxMishaps
    BY <2>1, MishapsType
  <2>5. CASE Done(h)
    BY <1>2, <2>3, <2>4, <2>5
  <2>6. CASE panel' = [panel EXCEPT ![h].pc = "add"]
    BY <1>3, <2>2, <2>3, <2>4, <2>6
  <2>7. QED
    BY <2>1, <2>5, <2>6
<1>7. CASE PanelAdd(h)
  <2>1. PICK c \in panel[h].camera :
          \/ RequestFails /\ paths' = paths
          \/ RequestReaches /\ AddPath(c, panel[h].conf)
    BY <1>7 DEF PanelAdd
  <2>2. c \in Cameras /\ panel[h].conf \in Confs
    BY <1>1, <1>7 DEF PanelAdd, PanelType
  <2>3. QED
    BY <1>2, <1>7, <2>1, <2>2, AddPathType, MishapsType DEF PanelAdd
<1>8. CASE PanelDrop(h)
  <2>1. PICK c \in panel[h].camera :
          \/ RequestFails /\ paths' = paths
          \/ RequestReaches /\ paths' = [paths EXCEPT ![c] = NoPath]
    BY <1>8 DEF PanelDrop
  <2>2. c \in Cameras /\ 1 \in Confs
    BY <1>1, ConfRange DEF PanelType
  <2>3. QED
    BY <1>2, <1>8, <2>1, <2>2, AddPathType, MishapsType DEF PanelDrop
<1>9. QED
  BY <1>4, <1>5, <1>6, <1>7, <1>8 DEF Push

(* What a step of the worker has to keep up.                                *)
WorkerWf(w) ==
    /\ w \in WorkerType
    /\ w.pc = "idle" => w = Resting
    /\ w.pc \in {"apply", "repush", "readd"} => \A c \in w.todo : w.desired[c] \in Confs

LEMMA WorkerStepKeeps ==
    ASSUME TypeInv, WorkerWf(worker'), paths' \in [Cameras -> Confs \cup {NoPath}],
           mishaps' \in 0..MaxMishaps, calm' \in BOOLEAN, doubtful' \subseteq doubtful,
           UNCHANGED <<row, edits, up, panel>>
    PROVE  TypeInv'
BY DEF TypeInv, TypeOK, Carried, WorkerWf

LEMMA WorkerIsWf == TypeInv => WorkerWf(worker)
BY DEF TypeInv, TypeOK, Carried, WorkerWf

LEMMA OneLess ==
    ASSUME NEW w, WorkerWf(w), NEW c, w.pc # "idle"
    PROVE  WorkerWf([w EXCEPT !.todo = @ \ {c}])
<1>1. [w EXCEPT !.todo = @ \ {c}] \in WorkerType
  BY DEF WorkerWf, WorkerType
<1>2. /\ [w EXCEPT !.todo = @ \ {c}].pc = w.pc
      /\ [w EXCEPT !.todo = @ \ {c}].desired = w.desired
      /\ [w EXCEPT !.todo = @ \ {c}].todo = w.todo \ {c}
  BY DEF WorkerWf, WorkerType
<1>3. QED
  BY <1>1, <1>2 DEF WorkerWf

LEMMA WorkerStepType ==
    ASSUME TypeInv, WorkerStep
    PROVE  TypeInv'
<1>0. /\ worker \in WorkerType /\ WorkerWf(worker)
      /\ WorkerWf(Resting)
      /\ paths \in [Cameras -> Confs \cup {NoPath}]
      /\ mishaps \in 0..MaxMishaps
      /\ calm \in BOOLEAN
      /\ doubtful' \subseteq doubtful
  <2>1. doubtful' \subseteq doubtful
    BY DEF WorkerStep, ReadDesired, ListPaths, ApplyOne, ApplyEnds, RemoveOne, RemoveEnds,
           ReadStatuses, Repush, Readd, CycleEnds
  <2>2. QED
    BY <2>1, WorkerIsWf, RestingWf DEF TypeInv, TypeOK, WorkerWf
<1>1. CASE ReadDesired
  <2> DEFINE r == [Resting EXCEPT !.pc = "list", !.desired = [c \in Cameras |-> Wanted(c)]]
  <2>1. [c \in Cameras |-> Wanted(c)] \in [Cameras -> Confs \cup {NoPath}]
    BY WantedWf DEF TypeInv
  <2>2. r \in WorkerType /\ r.pc = "list"
    BY <2>1, RestingWf DEF WorkerType
  <2>3. WorkerWf(worker')
    BY <1>1, <2>2 DEF ReadDesired, WorkerWf
  <2>4. QED
    BY <1>0, <1>1, <2>3, WorkerStepKeeps DEF ReadDesired
<1>2. CASE ListPaths
  <2>1. calm' \in BOOLEAN /\ UNCHANGED <<row, edits, paths, up, panel>>
    BY <1>2 DEF ListPaths
  <2>2. mishaps' \in 0..MaxMishaps
    BY <1>2, MishapsType DEF ListPaths
  <2>3. CASE AbandonCycle
    BY <1>0, <2>1, <2>2, <2>3, WorkerStepKeeps DEF AbandonCycle
  <2>4. CASE worker' = [worker EXCEPT !.pc = "apply", !.current = paths,
                                      !.todo = ToApply(worker.desired, paths)]
    <3> DEFINE r == [worker EXCEPT !.pc = "apply", !.current = paths,
                                   !.todo = ToApply(worker.desired, paths)]
    <3>1. ToApply(worker.desired, paths) \in SUBSET Cameras
      BY DEF ToApply
    <3>2. /\ r \in WorkerType /\ r.pc = "apply" /\ r.desired = worker.desired
          /\ r.todo = ToApply(worker.desired, paths)
      BY <1>0, <3>1 DEF WorkerType
    <3>3. \A c \in ToApply(worker.desired, paths) : worker.desired[c] \in Confs
      BY <1>0 DEF ToApply, WorkerType
    <3>4. WorkerWf(r)
      BY <3>2, <3>3 DEF WorkerWf
    <3>5. QED
      BY <1>0, <2>1, <2>2, <2>4, <3>4, WorkerStepKeeps
  <2>5. QED
    BY <1>2, <2>3, <2>4 DEF ListPaths
<1>3. CASE ApplyOne
  <2>1. PICK c \in worker.todo :
          /\ \/ RequestFails /\ paths' = paths
             \/ RequestReaches /\ Applied(c)
          /\ worker' = [worker EXCEPT !.todo = @ \ {c}]
    BY <1>3 DEF ApplyOne
  <2>2. c \in Cameras /\ worker.desired[c] \in Confs
    BY <1>0, <1>3 DEF ApplyOne, WorkerWf, WorkerType
  <2>3. paths' \in [Cameras -> Confs \cup {NoPath}]
    BY <2>1, <2>2, AddPathType DEF Applied
  <2>4. mishaps' \in 0..MaxMishaps
    BY <2>1, MishapsType
  <2>5. WorkerWf(worker')
    BY <1>0, <1>3, <2>1, OneLess DEF ApplyOne
  <2>6. calm' \in BOOLEAN /\ UNCHANGED <<row, edits, up, panel>>
    BY <1>3 DEF ApplyOne
  <2>7. QED
    BY <1>0, <2>3, <2>4, <2>5, <2>6, WorkerStepKeeps
<1>4. CASE ApplyEnds
  <2> DEFINE r == [worker EXCEPT !.pc = "remove",
                                 !.todo = ToRemove(worker.desired, worker.current)]
  <2>1. ToRemove(worker.desired, worker.current) \in SUBSET Cameras
    BY DEF ToRemove
  <2>2. r \in WorkerType /\ r.pc = "remove"
    BY <1>0, <2>1 DEF WorkerType
  <2>3. WorkerWf(worker')
    BY <1>4, <2>2 DEF ApplyEnds, WorkerWf
  <2>4. QED
    BY <1>0, <1>4, <2>3, WorkerStepKeeps DEF ApplyEnds
<1>5. CASE RemoveOne
  <2>1. PICK c \in worker.todo :
          /\ \/ RequestFails /\ paths' = paths
             \/ RequestReaches /\ paths' = [paths EXCEPT ![c] = NoPath]
          /\ worker' = [worker EXCEPT !.todo = @ \ {c}]
    BY <1>5 DEF RemoveOne
  <2>2. c \in Cameras /\ 1 \in Confs
    BY <1>0, ConfRange DEF WorkerType
  <2>3. paths' \in [Cameras -> Confs \cup {NoPath}] /\ mishaps' \in 0..MaxMishaps
    BY <2>1, <2>2, AddPathType, MishapsType
  <2>4. WorkerWf(worker')
    BY <1>0, <1>5, <2>1, OneLess DEF RemoveOne
  <2>5. calm' \in BOOLEAN /\ UNCHANGED <<row, edits, up, panel>>
    BY <1>5 DEF RemoveOne
  <2>6. QED
    BY <1>0, <2>3, <2>4, <2>5, WorkerStepKeeps
<1>6. CASE RemoveEnds
  <2>1. [Resting EXCEPT !.pc = "statuses"] \in WorkerType
        /\ [Resting EXCEPT !.pc = "statuses"].pc = "statuses"
    BY RestingWf DEF WorkerType
  <2>2. WorkerWf(worker')
    BY <1>6, <2>1 DEF RemoveEnds, WorkerWf
  <2>3. QED
    BY <1>0, <1>6, <2>2, WorkerStepKeeps DEF RemoveEnds
<1>7. CASE ReadStatuses
  <2>1. calm' \in BOOLEAN /\ UNCHANGED <<row, edits, paths, up, panel>>
    BY <1>7 DEF ReadStatuses
  <2>2. mishaps' \in 0..MaxMishaps
    BY <1>7, MishapsType DEF ReadStatuses
  <2>3. CASE AbandonCycle
    BY <1>0, <2>1, <2>2, <2>3, WorkerStepKeeps DEF AbandonCycle
  <2>4. ASSUME NEW broken \in SUBSET {c \in Cameras : paths[c] # NoPath /\ Wanted(c) # NoPath},
               worker' = [worker EXCEPT !.pc = "repush", !.todo = broken,
                                        !.desired = [c \in Cameras |-> Wanted(c)]]
        PROVE  TypeInv'
    <3> DEFINE r == [worker EXCEPT !.pc = "repush", !.todo = broken,
                                   !.desired = [c \in Cameras |-> Wanted(c)]]
    <3>1. [c \in Cameras |-> Wanted(c)] \in [Cameras -> Confs \cup {NoPath}]
      BY WantedWf DEF TypeInv
    <3>2. /\ r \in WorkerType /\ r.pc = "repush" /\ r.todo = broken
          /\ r.desired = [c \in Cameras |-> Wanted(c)]
      BY <1>0, <3>1 DEF WorkerType
    <3>3. \A c \in broken : r.desired[c] \in Confs
      BY <3>1, <3>2
    <3>4. WorkerWf(worker')
      BY <2>4, <3>2, <3>3 DEF WorkerWf
    <3>5. QED
      BY <1>0, <2>1, <2>2, <3>4, WorkerStepKeeps
  <2>5. QED
    BY <1>7, <2>3, <2>4 DEF ReadStatuses
<1>8. CASE Repush
  <2>1. PICK c \in worker.todo :
          \/ /\ RequestFails /\ paths' = paths
             /\ worker' = [worker EXCEPT !.todo = @ \ {c}]
          \/ /\ RequestReaches /\ paths[c] # NoPath
             /\ paths' = [paths EXCEPT ![c] = worker.desired[c]]
             /\ worker' = [worker EXCEPT !.todo = @ \ {c}]
          \/ /\ RequestReaches /\ paths[c] = NoPath
             /\ paths' = paths
             /\ worker' = [worker EXCEPT !.pc = "readd", !.current = [Nothing EXCEPT ![c] = 1]]
    BY <1>8 DEF Repush
  <2>2. c \in Cameras /\ worker.desired[c] \in Confs
    BY <1>0, <1>8 DEF Repush, WorkerWf, WorkerType
  <2>3. paths' \in [Cameras -> Confs \cup {NoPath}]
    BY <2>1, <2>2, AddPathType
  <2>4. mishaps' \in 0..MaxMishaps
    BY <2>1, MishapsType
  <2>5. calm' \in BOOLEAN /\ UNCHANGED <<row, edits, up, panel>>
    BY <1>8 DEF Repush
  <2>6. CASE worker' = [worker EXCEPT !.todo = @ \ {c}]
    <3>1. WorkerWf(worker')
      BY <1>0, <1>8, <2>6, OneLess DEF Repush
    <3>2. QED
      BY <1>0, <2>3, <2>4, <2>5, <3>1, WorkerStepKeeps
  <2>7. CASE worker' = [worker EXCEPT !.pc = "readd", !.current = [Nothing EXCEPT ![c] = 1]]
    <3> DEFINE r == [worker EXCEPT !.pc = "readd", !.current = [Nothing EXCEPT ![c] = 1]]
    <3>1. [Nothing EXCEPT ![c] = 1] \in [Cameras -> Confs \cup {NoPath}]
      BY ConfRange DEF Nothing
    <3>2. r \in WorkerType /\ r.pc = "readd" /\ r.todo = worker.todo /\ r.desired = worker.desired
      BY <1>0, <3>1 DEF WorkerType
    <3>3. WorkerWf(worker')
      BY <1>0, <1>8, <2>7, <3>2 DEF Repush, WorkerWf
    <3>4. QED
      BY <1>0, <2>3, <2>4, <2>5, <3>3, WorkerStepKeeps
  <2>8. QED
    BY <2>1, <2>6, <2>7
<1>9. CASE Readd
  <2>1. PICK c \in {d \in worker.todo : worker.current[d] = 1} :
          /\ \/ RequestFails /\ paths' = paths
             \/ RequestReaches /\ AddPath(c, worker.desired[c])
          /\ worker' = [worker EXCEPT !.pc = "repush", !.todo = @ \ {c}, !.current = Nothing]
    BY <1>9 DEF Readd
  <2>2. c \in Cameras /\ worker.desired[c] \in Confs
    BY <1>0, <1>9 DEF Readd, WorkerWf, WorkerType
  <2>3. paths' \in [Cameras -> Confs \cup {NoPath}] /\ mishaps' \in 0..MaxMishaps
    BY <2>1, <2>2, AddPathType, MishapsType
  <2> DEFINE r == [worker EXCEPT !.pc = "repush", !.todo = @ \ {c}, !.current = Nothing]
  <2>4. Nothing \in [Cameras -> Confs \cup {NoPath}]
    BY DEF Nothing
  <2>5. /\ r \in WorkerType /\ r.pc = "repush" /\ r.todo = worker.todo \ {c}
        /\ r.desired = worker.desired
    BY <1>0, <2>4 DEF WorkerType
  <2>6. WorkerWf(worker')
    BY <1>0, <1>9, <2>1, <2>5 DEF Readd, WorkerWf
  <2>7. calm' \in BOOLEAN /\ UNCHANGED <<row, edits, up, panel>>
    BY <1>9 DEF Readd
  <2>8. QED
    BY <1>0, <2>3, <2>6, <2>7, WorkerStepKeeps
<1>10. CASE CycleEnds
  BY <1>0, <1>10, WorkerStepKeeps DEF CycleEnds
<1>11. QED
  BY <1>1, <1>2, <1>3, <1>4, <1>5, <1>6, <1>7, <1>8, <1>9, <1>10 DEF WorkerStep

LEMMA TypeNext ==
    ASSUME TypeInv, [Next]_vars
    PROVE  TypeInv'
<1>1. CASE \E h \in Handlers, c \in Cameras : Edit(h, c) \/ Diagnose(h, c)
  BY <1>1, EditType, DiagnoseType
<1>2. CASE \E h \in Handlers : Push(h)
  BY <1>2, PushType
<1>3. CASE PanelRestart
  <2>1. panel' \in [Handlers -> PanelType] /\ \A h \in Handlers : panel'[h].pc = "idle"
    BY <1>3, IdleWf DEF PanelRestart
  <2>2. mishaps' \in 0..MaxMishaps
    BY <1>3, ReconcilerAssumption DEF PanelRestart, TypeInv, TypeOK
  <2>3. doubtful' \subseteq Cameras
    BY <1>3 DEF PanelRestart, TypeInv, TypeOK
  <2>4. QED
    BY <1>3, <2>1, <2>2, <2>3 DEF PanelRestart, TypeInv, TypeOK, Carried
<1>4. CASE MtxCrash
  <2>1. paths' \in [Cameras -> Confs \cup {NoPath}]
    BY <1>4 DEF MtxCrash, Nothing
  <2>2. mishaps' \in 0..MaxMishaps
    BY <1>4, ReconcilerAssumption DEF MtxCrash, TypeInv, TypeOK
  <2>3. QED
    BY <1>4, <2>1, <2>2 DEF MtxCrash, TypeInv, TypeOK, Carried
<1>5. CASE MtxStart
  BY <1>5 DEF MtxStart, TypeInv, TypeOK, Carried
<1>6. CASE WorkerStep
  BY <1>6, WorkerStepType
<1>7. CASE WorkerRestart
  <2>1. mishaps' \in 0..MaxMishaps
    BY <1>7, ReconcilerAssumption DEF WorkerRestart, TypeInv, TypeOK
  <2>2. QED
    BY <1>7, <2>1, RestingWf DEF WorkerRestart, AbandonCycle, TypeInv, TypeOK, Carried
<1>8. CASE UNCHANGED vars
  BY <1>8 DEF vars, TypeInv, TypeOK, Carried
<1>9. QED
  BY <1>1, <1>2, <1>3, <1>4, <1>5, <1>6, <1>7, <1>8 DEF Next

(* The type invariant, and that no cycle hands what it read to the next.    *)
THEOREM TypeCorrect == Spec => []TypeOK
<1>1. Init => TypeInv
  BY TypeInit
<1>2. TypeInv /\ [Next]_vars => TypeInv'
  BY TypeNext
<1>3. TypeInv => TypeOK
  BY DEF TypeInv
<1>4. QED
  BY <1>1, <1>2, <1>3, PTL DEF Spec

-------------------------------------------------------------------------------
(* An undisturbed cycle.  Once it has listed the paths, each of them is     *)
(* either still to be touched, and as it was listed, or already right.      *)
Fresh == \A c \in Cameras : worker.desired[c] = Wanted(c)

Applying ==
    \A c \in Cameras :
        /\ c \in worker.todo => worker.desired[c] # NoPath /\ paths[c] = worker.current[c]
        /\ c \notin worker.todo /\ worker.desired[c] # NoPath => paths[c] = worker.desired[c]
        /\ worker.desired[c] = NoPath => paths[c] = worker.current[c]

Removing ==
    \A c \in Cameras :
        /\ c \in worker.todo => worker.desired[c] = NoPath
        /\ c \notin worker.todo => paths[c] = worker.desired[c]

Pushing == \A c \in worker.todo : worker.desired[c] = Wanted(c)

CalmInv ==
    calm =>
        /\ worker.pc \in {"list", "apply", "remove"} => Fresh
        /\ worker.pc = "apply" => Applying
        /\ worker.pc = "remove" => Removing
        /\ worker.pc \in {"statuses", "repush", "readd"} => Agrees
        /\ worker.pc \in {"repush", "readd"} => Pushing
        /\ worker.pc \notin {"idle", "list"} => up

LEMMA CalmInit == Init => CalmInv
BY DEF Init, CalmInv

LEMMA WantedSame == UNCHANGED row => \A c \in Cameras : Wanted(c)' = Wanted(c)
BY DEF Wanted

LEMMA CalmStep ==
    ASSUME TypeInv, CalmInv, WorkerStep
    PROVE  CalmInv'
<1> SUFFICES ASSUME calm' PROVE CalmInv'
  BY DEF CalmInv
<1>0. /\ worker \in WorkerType
      /\ \A c \in Cameras : Wanted(c)' = Wanted(c)
      /\ up' = up
      /\ paths \in [Cameras -> Confs \cup {NoPath}]
  <2>1. UNCHANGED <<row, up>>
    BY DEF WorkerStep, ReadDesired, ListPaths, ApplyOne, ApplyEnds, RemoveOne, RemoveEnds,
           ReadStatuses, Repush, Readd, CycleEnds
  <2>2. QED
    BY <2>1, WantedSame DEF TypeInv, TypeOK
<1>1. CASE ReadDesired
  <2>1. /\ worker'.pc = "list"
        /\ \A c \in Cameras : worker'.desired[c] = Wanted(c)
    BY <1>1 DEF ReadDesired, Resting
  <2>2. QED
    BY <1>0, <2>1 DEF CalmInv, Fresh
<1>2. CASE ListPaths
  <2>1. calm /\ worker.pc = "list" /\ paths' = paths
    BY <1>2 DEF ListPaths
  <2>2. CASE AbandonCycle
    BY <2>2, RestingWf DEF AbandonCycle, CalmInv
  <2>3. CASE /\ up
             /\ worker' = [worker EXCEPT !.pc = "apply", !.current = paths,
                                         !.todo = ToApply(worker.desired, paths)]
    <3>1. /\ worker'.pc = "apply" /\ worker'.current = paths
          /\ worker'.todo = ToApply(worker.desired, paths)
          /\ worker'.desired = worker.desired
      BY <1>0, <2>3 DEF WorkerType
    <3>2. Fresh
      BY <2>1 DEF CalmInv
    <3>3. Fresh'
      BY <1>0, <3>1, <3>2 DEF Fresh
    <3>4. Applying'
      BY <2>1, <3>1 DEF Applying, ToApply
    <3>5. QED
      BY <1>0, <2>3, <3>1, <3>3, <3>4 DEF CalmInv
  <2>4. QED
    BY <1>2, <2>2, <2>3 DEF ListPaths, RequestReaches
<1>3. CASE ApplyOne
  <2>1. PICK c \in worker.todo :
          /\ \/ RequestFails /\ paths' = paths
             \/ RequestReaches /\ Applied(c)
          /\ worker' = [worker EXCEPT !.todo = @ \ {c}]
    BY <1>3 DEF ApplyOne
  <2>2. calm /\ worker.pc = "apply" /\ mishaps' = mishaps
    BY <1>3 DEF ApplyOne
  <2>3. up /\ Fresh /\ Applying
    BY <2>2 DEF CalmInv
  <2>4. Applied(c)
    BY <2>1, <2>2, <2>3 DEF RequestFails, TypeInv, TypeOK
  <2>5. /\ worker'.pc = "apply" /\ worker'.current = worker.current
        /\ worker'.todo = worker.todo \ {c} /\ worker'.desired = worker.desired
    BY <1>0, <2>1, <2>2 DEF WorkerType
  <2>6. c \in Cameras /\ worker.desired[c] # NoPath /\ paths[c] = worker.current[c]
    BY <1>0, <2>3 DEF WorkerType, Applying
  <2>7. paths' = [paths EXCEPT ![c] = worker.desired[c]]
    BY <2>4, <2>6 DEF Applied, AddPath, ReplacePath
  <2>8. Applying'
    BY <1>0, <2>3, <2>5, <2>6, <2>7 DEF Applying
  <2>9. Fresh'
    BY <1>0, <2>3, <2>5 DEF Fresh
  <2>10. QED
    BY <1>0, <2>3, <2>5, <2>8, <2>9 DEF CalmInv
<1>4. CASE ApplyEnds
  <2>1. calm /\ worker.pc = "apply" /\ worker.todo = {} /\ paths' = paths
    BY <1>4 DEF ApplyEnds
  <2>2. up /\ Fresh /\ Applying
    BY <2>1 DEF CalmInv
  <2>3. /\ worker'.pc = "remove" /\ worker'.desired = worker.desired
        /\ worker'.todo = ToRemove(worker.desired, worker.current)
    BY <1>0, <1>4 DEF ApplyEnds, WorkerType
  <2>4. Removing'
    BY <2>1, <2>2, <2>3 DEF Applying, Removing, ToRemove
  <2>5. Fresh'
    BY <1>0, <2>2, <2>3 DEF Fresh
  <2>6. QED
    BY <1>0, <2>2, <2>3, <2>4, <2>5 DEF CalmInv
<1>5. CASE RemoveOne
  <2>1. PICK c \in worker.todo :
          /\ \/ RequestFails /\ paths' = paths
             \/ RequestReaches /\ paths' = [paths EXCEPT ![c] = NoPath]
          /\ worker' = [worker EXCEPT !.todo = @ \ {c}]
    BY <1>5 DEF RemoveOne
  <2>2. calm /\ worker.pc = "remove" /\ mishaps' = mishaps
    BY <1>5 DEF RemoveOne
  <2>3. up /\ Fresh /\ Removing
    BY <2>2 DEF CalmInv
  <2>4. paths' = [paths EXCEPT ![c] = NoPath]
    BY <2>1, <2>2, <2>3 DEF RequestFails, TypeInv, TypeOK
  <2>5. /\ worker'.pc = "remove" /\ worker'.desired = worker.desired
        /\ worker'.todo = worker.todo \ {c}
    BY <1>0, <2>1, <2>2 DEF WorkerType
  <2>6. Removing'
    BY <1>0, <2>3, <2>4, <2>5 DEF Removing
  <2>7. Fresh'
    BY <1>0, <2>3, <2>5 DEF Fresh
  <2>8. QED
    BY <1>0, <2>3, <2>5, <2>6, <2>7 DEF CalmInv
<1>6. CASE RemoveEnds
  <2>1. calm /\ worker.pc = "remove" /\ worker.todo = {} /\ paths' = paths
    BY <1>6 DEF RemoveEnds
  <2>2. up /\ Fresh /\ Removing
    BY <2>1 DEF CalmInv
  <2>3. worker'.pc = "statuses"
    BY <1>6 DEF RemoveEnds, Resting
  <2>4. Agrees'
    BY <1>0, <2>1, <2>2 DEF Agrees, Fresh, Removing
  <2>5. QED
    BY <1>0, <2>2, <2>3, <2>4 DEF CalmInv
<1>7. CASE ReadStatuses
  <2>1. calm /\ worker.pc = "statuses" /\ paths' = paths
    BY <1>7 DEF ReadStatuses
  <2>2. up /\ Agrees
    BY <2>1 DEF CalmInv
  <2>3. CASE AbandonCycle
    BY <2>3, RestingWf DEF AbandonCycle, CalmInv
  <2>4. ASSUME NEW broken \in SUBSET {c \in Cameras : paths[c] # NoPath /\ Wanted(c) # NoPath},
               worker' = [worker EXCEPT !.pc = "repush", !.todo = broken,
                                        !.desired = [c \in Cameras |-> Wanted(c)]]
        PROVE  CalmInv'
    <3>1. /\ worker'.pc = "repush" /\ worker'.todo = broken
          /\ worker'.desired = [c \in Cameras |-> Wanted(c)]
      BY <1>0, <2>4 DEF WorkerType
    <3>2. Agrees' /\ Pushing'
      BY <1>0, <2>1, <2>2, <3>1 DEF Agrees, Pushing
    <3>3. QED
      BY <1>0, <2>2, <3>1, <3>2 DEF CalmInv
  <2>5. QED
    BY <1>7, <2>3, <2>4 DEF ReadStatuses
<1>8. CASE Repush
  <2>1. PICK c \in worker.todo :
          \/ /\ RequestFails /\ paths' = paths
             /\ worker' = [worker EXCEPT !.todo = @ \ {c}]
          \/ /\ RequestReaches /\ paths[c] # NoPath
             /\ paths' = [paths EXCEPT ![c] = worker.desired[c]]
             /\ worker' = [worker EXCEPT !.todo = @ \ {c}]
          \/ /\ RequestReaches /\ paths[c] = NoPath
             /\ paths' = paths
             /\ worker' = [worker EXCEPT !.pc = "readd", !.current = [Nothing EXCEPT ![c] = 1]]
    BY <1>8 DEF Repush
  <2>2. calm /\ worker.pc = "repush"
    BY <1>8 DEF Repush
  <2>3. up /\ Agrees /\ Pushing
    BY <2>2 DEF CalmInv
  <2>4. c \in Cameras /\ worker.desired[c] = Wanted(c) /\ paths[c] = Wanted(c)
    BY <1>0, <2>3 DEF Pushing, Agrees, WorkerType
  <2>5. paths' = paths
    BY <1>0, <2>1, <2>4
  <2>6. /\ worker'.pc \in {"repush", "readd"} /\ worker'.desired = worker.desired
        /\ worker'.todo \subseteq worker.todo
    BY <1>0, <2>1, <2>2 DEF WorkerType
  <2>7. Agrees' /\ Pushing'
    BY <1>0, <2>3, <2>5, <2>6 DEF Agrees, Pushing, WorkerType
  <2>8. QED
    BY <1>0, <2>3, <2>6, <2>7 DEF CalmInv
<1>9. CASE Readd
  <2>1. PICK c \in {d \in worker.todo : worker.current[d] = 1} :
          /\ \/ RequestFails /\ paths' = paths
             \/ RequestReaches /\ AddPath(c, worker.desired[c])
          /\ worker' = [worker EXCEPT !.pc = "repush", !.todo = @ \ {c}, !.current = Nothing]
    BY <1>9 DEF Readd
  <2>2. calm /\ worker.pc = "readd"
    BY <1>9 DEF Readd
  <2>3. up /\ Agrees /\ Pushing
    BY <2>2 DEF CalmInv
  <2>4. c \in Cameras /\ worker.desired[c] = Wanted(c) /\ paths[c] = Wanted(c)
    BY <1>0, <2>3 DEF Pushing, Agrees, WorkerType
  <2>5. paths' = paths
    BY <1>0, <2>1, <2>4 DEF AddPath
  <2>6. /\ worker'.pc = "repush" /\ worker'.desired = worker.desired
        /\ worker'.todo \subseteq worker.todo
    BY <1>0, <2>1 DEF WorkerType
  <2>7. Agrees' /\ Pushing'
    BY <1>0, <2>3, <2>5, <2>6 DEF Agrees, Pushing, WorkerType
  <2>8. QED
    BY <1>0, <2>3, <2>6, <2>7 DEF CalmInv
<1>10. CASE CycleEnds
  BY <1>10, RestingWf DEF CycleEnds, CalmInv
<1>11. QED
  BY <1>1, <1>2, <1>3, <1>4, <1>5, <1>6, <1>7, <1>8, <1>9, <1>10 DEF WorkerStep

LEMMA CalmUnmoved ==
    ASSUME TypeInv, CalmInv, UNCHANGED <<row, paths, up, worker, calm>>
    PROVE  CalmInv'
<1>1. UNCHANGED <<row, paths, up, worker, calm>>
  OBVIOUS
<1>2. \A c \in Cameras : Wanted(c)' = Wanted(c)
  BY <1>1, WantedSame
<1>3. Fresh => Fresh'
  BY <1>1, <1>2 DEF Fresh
<1>4. (Applying => Applying') /\ (Removing => Removing')
  BY <1>1 DEF Applying, Removing
<1>5. Agrees => Agrees'
  BY <1>1, <1>2 DEF Agrees
<1>6. ASSUME worker.pc \in {"repush", "readd"}, Pushing, calm PROVE Pushing'
  <2>1. worker.todo \subseteq Cameras
    BY DEF TypeInv, TypeOK, WorkerType
  <2>2. QED
    BY <1>1, <1>2, <1>6, <2>1 DEF Pushing
<1>7. QED
  BY <1>1, <1>3, <1>4, <1>5, <1>6 DEF CalmInv

LEMMA CalmNext ==
    ASSUME TypeInv, CalmInv, [Next]_vars
    PROVE  CalmInv'
<1>1. ASSUME NEW h \in Handlers, NEW c \in Cameras, Edit(h, c) PROVE CalmInv'
  <2>1. calm' = FALSE
    BY <1>1 DEF Edit, CameraCreate, CameraUpdate, CameraSetProfile, CameraDelete, Commit
  <2>2. QED
    BY <2>1 DEF CalmInv
<1>2. ASSUME NEW h \in Handlers, NEW c \in Cameras, Diagnose(h, c) PROVE CalmInv'
  BY <1>2, CalmUnmoved DEF Diagnose
<1>3. ASSUME NEW h \in Handlers, Push(h) PROVE CalmInv'
  <2>1. calm' = FALSE \/ UNCHANGED <<row, paths, up, worker, calm>>
    BY <1>3 DEF Push, PanelCrash, Compare, PanelReplace, PanelAdd, PanelDrop
  <2>2. QED
    BY <2>1, CalmUnmoved DEF CalmInv
<1>4. CASE PanelRestart
  BY <1>4, CalmUnmoved DEF PanelRestart
<1>5. CASE MtxCrash \/ MtxStart
  BY <1>5 DEF MtxCrash, MtxStart, CalmInv
<1>6. CASE WorkerStep
  BY <1>6, CalmStep
<1>7. CASE WorkerRestart
  BY <1>7, RestingWf DEF WorkerRestart, AbandonCycle, CalmInv
<1>8. CASE UNCHANGED vars
  BY <1>8, CalmUnmoved DEF vars
<1>9. QED
  BY <1>1, <1>2, <1>3, <1>4, <1>5, <1>6, <1>7, <1>8 DEF Next

(* Whatever crashes, lost requests and races have left on the media server, *)
(* a cycle of reconcile that nothing disturbs leaves exactly the paths the  *)
(* database asks for.                                                       *)
THEOREM CalmCycle == Spec => []CalmCycleRepairs
<1>1. Init => TypeInv /\ CalmInv
  BY TypeInit, CalmInit
<1>2. TypeInv /\ CalmInv /\ [Next]_vars => (TypeInv /\ CalmInv)'
  BY TypeNext, CalmNext
<1>3. CalmInv => CalmCycleRepairs
  BY DEF CalmInv, CalmCycleRepairs
<1>4. QED
  BY <1>1, <1>2, <1>3, PTL DEF Spec

-------------------------------------------------------------------------------
(* Whose path is beyond doubt: whatever is still going to write it writes   *)
(* what the row asks for.                                                   *)

\* A request in flight is about one camera, and no push of an edit compares.
OneEach ==
    \A h \in Handlers :
        /\ panel[h].pc # "idle" => \E c \in Cameras : panel[h].camera = {c}
        /\ panel[h].pc = "compare" => ~panel[h].edit

\* What is left of the worker's second loop is to be removed.
RemovesUnwanted ==
    worker.pc = "remove" => \A c \in worker.todo : worker.desired[c] = NoPath

\* What a request in flight may still write is what the row asks for; "add" has found nothing.
WritesWanted(c) ==
    \A h \in Writers(c) :
        /\ panel[h].pc \in {"compare", "replace", "add"} => panel[h].conf = Wanted(c)
        /\ panel[h].pc = "delete" => Wanted(c) = NoPath
        /\ panel[h].pc = "add" => paths[c] \in {NoPath, Wanted(c)}

Undoubted(c) ==
    /\ WritesWanted(c)
    /\ Pushes(c) = {} => paths[c] = Wanted(c)
    /\ WorkerWrites => worker.desired[c] = Wanted(c)

DoubtInv == OneEach /\ RemovesUnwanted /\ \A c \in Cameras \ doubtful : Undoubted(c)

LEMMA DoubtInit == Init => DoubtInv
<1> SUFFICES ASSUME Init PROVE DoubtInv
  OBVIOUS
<1>1. \A h \in Handlers : panel[h].pc = "idle"
  BY IdleWf DEF Init
<1>2. worker.pc = "idle"
  BY RestingWf DEF Init
<1>3. \A c \in Cameras : Writers(c) = {}
  BY <1>1 DEF Writers
<1>4. \A c \in Cameras \ doubtful : paths[c] = Wanted(c)
  BY DEF Init, Nothing
<1>5. QED
  BY <1>1, <1>2, <1>3, <1>4
     DEF DoubtInv, OneEach, RemovesUnwanted, Undoubted, WritesWanted, WorkerWrites

LEMMA WritersSame ==
    UNCHANGED panel => \A c \in Cameras : Writers(c)' = Writers(c) /\ Pushes(c)' = Pushes(c)
BY DEF Writers, Pushes

LEMMA OneEachStays ==
    ASSUME OneEach, NEW h \in Handlers, NEW c \in Cameras, TypeInv, NEW r,
           panel' = [panel EXCEPT ![h] = r],
           r.pc # "idle" => r.camera = {c}, r.pc = "compare" => ~r.edit
    PROVE  OneEach'
BY DEF OneEach, TypeInv, TypeOK

\* A step of one request leaves the requests that write another camera as they are.
LEMMA OtherWriters ==
    ASSUME TypeInv, NEW h \in Handlers, NEW r, panel' = [panel EXCEPT ![h] = r],
           NEW d \in Cameras, h \notin Writers(d), r.pc = "idle" \/ d \notin r.camera
    PROVE  /\ Writers(d)' = Writers(d) /\ Pushes(d)' = Pushes(d)
           /\ \A g \in Writers(d)' : panel'[g] = panel[g]
<1>1. panel'[h] = r /\ \A g \in Handlers \ {h} : panel'[g] = panel[g]
  BY DEF TypeInv, TypeOK
<1>2. Writers(d)' = Writers(d) /\ h \notin Writers(d)'
  BY <1>1 DEF Writers
<1>3. \A g \in Writers(d)' : panel'[g] = panel[g]
  BY <1>1, <1>2 DEF Writers
<1>4. QED
  BY <1>2, <1>3 DEF Pushes

\* A path stays beyond doubt when no request joins those that write it, and it is left as it
\* is, with the pushes there were, or written with what its row asks for.
LEMMA UndoubtedStays ==
    ASSUME NEW d \in Cameras, Undoubted(d), UNCHANGED <<row, worker>>,
           Writers(d)' \subseteq Writers(d), \A g \in Writers(d)' : panel'[g] = panel[g],
           \/ paths'[d] = Wanted(d)
           \/ paths'[d] = paths[d] /\ (Pushes(d)' = {} => Pushes(d) = {})
    PROVE  Undoubted(d)'
<1>1. Wanted(d)' = Wanted(d) /\ worker' = worker
  BY WantedSame
<1>2. WritesWanted(d)'
  BY <1>1 DEF Undoubted, WritesWanted
<1>3. Pushes(d)' = {} => paths'[d] = Wanted(d)
  BY DEF Undoubted
<1>4. QED
  BY <1>1, <1>2, <1>3 DEF Undoubted, WorkerWrites

-------------------------------------------------------------------------------
(* An edit: which push its row is followed by.                              *)
LEMMA EditPushes ==
    ASSUME TypeInv, NEW h \in Handlers, NEW c \in Cameras, Edit(h, c)
    PROVE  \E r \in [st: {"new", "on", "off", "deleted"}, readable: BOOLEAN, conf: Confs],
              next \in {"replace", "delete", "crash"} :
              /\ Commit(h, c, r, next)
              /\ next = "replace" => r.readable /\ r.st \in {"on", "off"}
              /\ next = "delete" => r.st # "on"
              /\ next = "crash" => ~r.readable /\ ~row[c].readable
<1> DEFINE Row == [st: {"new", "on", "off", "deleted"}, readable: BOOLEAN, conf: Confs]
<1>1. row[c] \in Row
  BY DEF TypeInv, TypeOK
<1>2. edits + 2 \in Confs
  BY ConfRange
     DEF Edit, CameraCreate, CameraUpdate, CameraSetProfile, CameraDelete, Commit, TypeInv, TypeOK
<1>3. CASE CameraCreate(h, c)
  BY <1>2, <1>3 DEF CameraCreate
<1>4. CASE CameraUpdate(h, c)
  <2>1. PICK st \in {"on", "off"}, url \in BOOLEAN :
           Commit(h, c, [st |-> st, readable |-> url \/ row[c].readable, conf |-> edits + 2],
                  IF st = "on"
                  THEN PushOf([st |-> st, readable |-> url \/ row[c].readable, conf |-> edits + 2])
                  ELSE "delete")
    BY <1>4 DEF CameraUpdate
  <2>2. PICK b \in BOOLEAN : b = (url \/ row[c].readable)
    OBVIOUS
  <2> DEFINE r == [st |-> st, readable |-> b, conf |-> edits + 2]
             next == IF st = "on" THEN PushOf(r) ELSE "delete"
  <2>3. r \in Row /\ r.st = st /\ r.readable = b
    BY <1>2
  <2>4. next \in {"replace", "delete", "crash"} /\ Commit(h, c, r, next)
    BY <2>1, <2>2 DEF PushOf
  <2>5. /\ next = "replace" => r.readable /\ r.st \in {"on", "off"}
        /\ next = "delete" => r.st # "on"
        /\ next = "crash" => ~r.readable
    BY <2>3 DEF PushOf
  <2>6. next = "crash" => ~row[c].readable
    BY <2>2, <2>3, <2>5
  <2> HIDE DEF r, next
  <2>7. QED
    BY <2>3, <2>4, <2>5, <2>6
<1>5. CASE CameraSetProfile(h, c)
  <2> DEFINE r == [row[c] EXCEPT !.conf = edits + 2]
  <2>1. r \in Row /\ r.st \in {"on", "off"} /\ r.readable = row[c].readable
    BY <1>1, <1>2, <1>5 DEF CameraSetProfile
  <2>2. Commit(h, c, r, PushOf(r))
    BY <1>5 DEF CameraSetProfile
  <2> HIDE DEF r
  <2>3. QED
    BY <2>1, <2>2 DEF PushOf
<1>6. CASE CameraDelete(h, c)
  <2>1. [row[c] EXCEPT !.st = "deleted"] \in Row /\ [row[c] EXCEPT !.st = "deleted"].st # "on"
    BY <1>1
  <2>2. QED
    BY <1>6, <2>1 DEF CameraDelete
<1>7. QED
  BY <1>3, <1>4, <1>5, <1>6 DEF Edit

LEMMA DoubtEdit ==
    ASSUME TypeInv, DoubtInv, NEW h \in Handlers, NEW c \in Cameras, Edit(h, c)
    PROVE  DoubtInv'
<1>1. PICK r \in [st: {"new", "on", "off", "deleted"}, readable: BOOLEAN, conf: Confs],
           next \in {"replace", "delete", "crash"} :
           /\ Commit(h, c, r, next)
           /\ next = "replace" => r.readable /\ r.st \in {"on", "off"}
           /\ next = "delete" => r.st # "on"
           /\ next = "crash" => ~r.readable /\ ~row[c].readable
  BY EditPushes
<1> DEFINE p == [pc |-> next, camera |-> {c}, conf |-> r.conf, edit |-> TRUE]
<1>2. /\ panel[h].pc = "idle" /\ panel' = [panel EXCEPT ![h] = p]
      /\ row' = [row EXCEPT ![c] = r]
      /\ UNCHANGED <<paths, worker>>
  BY <1>1 DEF Commit
<1>3. p.pc = next /\ p.camera = {c} /\ p.conf = r.conf /\ p.edit = TRUE
  OBVIOUS
<1> HIDE DEF p
<1>4. panel'[h] = p /\ \A g \in Handlers \ {h} : panel'[g] = panel[g]
  BY <1>2 DEF TypeInv, TypeOK
<1>5. OneEach'
  BY <1>2, <1>3, OneEachStays DEF DoubtInv
<1>6. RemovesUnwanted' /\ (WorkerWrites' <=> WorkerWrites) /\ worker' = worker /\ paths' = paths
  BY <1>2 DEF DoubtInv, RemovesUnwanted, WorkerWrites
<1>7. row'[c] = r /\ \A d \in Cameras \ {c} : row'[d] = row[d]
  BY <1>2 DEF TypeInv, TypeOK
<1>8. ASSUME NEW d \in Cameras \ doubtful', d # c PROVE Undoubted(d)'
  <2>1. Wanted(d)' = Wanted(d)
    BY <1>7, <1>8 DEF Wanted
  <2>2. Undoubted(d)
    BY <1>1, <1>8 DEF Commit, DoubtInv
  <2>3. h \notin Writers(d) /\ d \notin p.camera
    BY <1>2, <1>3, <1>8 DEF Writers
  <2>4. /\ Writers(d)' = Writers(d) /\ Pushes(d)' = Pushes(d)
        /\ \A g \in Writers(d)' : panel'[g] = panel[g]
    BY <1>2, <1>8, <2>3, OtherWriters
  <2>5. WritesWanted(d)'
    BY <1>6, <2>1, <2>2, <2>4 DEF Undoubted, WritesWanted
  <2>6. QED
    BY <1>6, <2>1, <2>2, <2>4, <2>5 DEF Undoubted
<1>9. ASSUME c \notin doubtful' PROVE Undoubted(c)'
  <2>1. /\ Writers(c) = {} /\ ~WorkerWrites
        /\ next = "replace" => r.st # "off"
        /\ next = "crash" => c \notin doubtful
    BY <1>1, <1>9 DEF Commit, Met
  <2>2. Wanted(c)' = IF r.st = "on" /\ r.readable THEN r.conf ELSE NoPath
    BY <1>7 DEF Wanted
  <2>3. Writers(c)' = IF next = "crash" THEN {} ELSE {h}
    BY <1>1, <1>3, <1>4, <2>1 DEF Writers
  <2>4. CASE next = "crash"
    <3>1. Undoubted(c) /\ Wanted(c) = NoPath /\ Pushes(c) = {}
      BY <1>1, <2>1, <2>4 DEF DoubtInv, Wanted, Pushes
    <3>2. paths'[c] = NoPath /\ Wanted(c)' = NoPath
      BY <1>1, <1>6, <2>2, <2>4, <3>1 DEF Undoubted
    <3>3. QED
      BY <1>6, <2>1, <2>3, <2>4, <3>2 DEF Undoubted, WritesWanted
  <2>5. CASE next # "crash"
    <3>1. /\ next = "replace" => r.conf = Wanted(c)'
          /\ next = "delete" => Wanted(c)' = NoPath
      BY <1>1, <2>1, <2>2
    <3>2. WritesWanted(c)'
      BY <1>1, <1>3, <1>4, <2>3, <2>5, <3>1 DEF WritesWanted
    <3>3. h \in Pushes(c)'
      BY <1>3, <1>4, <2>3, <2>5 DEF Pushes
    <3>4. QED
      BY <1>6, <2>1, <3>2, <3>3 DEF Undoubted
  <2>6. QED
    BY <2>4, <2>5
<1>10. QED
  BY <1>5, <1>6, <1>8, <1>9 DEF DoubtInv

\* A diagnosis joins those that may write a path, with what the row asks for as it is now; a
\* camera that is off is doubted from here on.
LEMMA DoubtDiagnose ==
    ASSUME TypeInv, DoubtInv, NEW h \in Handlers, NEW c \in Cameras, Diagnose(h, c)
    PROVE  DoubtInv'
<1> DEFINE p == [pc |-> "compare", camera |-> {c}, conf |-> row[c].conf, edit |-> FALSE]
<1>1. /\ panel[h].pc = "idle" /\ panel' = [panel EXCEPT ![h] = p]
      /\ UNCHANGED <<row, paths, worker>>
      /\ row[c].st \in {"on", "off"} /\ row[c].readable
      /\ doubtful' = IF row[c].st = "off" THEN doubtful \cup {c} ELSE doubtful
  BY DEF Diagnose
<1>2. p.pc = "compare" /\ p.camera = {c} /\ p.conf = row[c].conf /\ p.edit = FALSE
  OBVIOUS
<1> HIDE DEF p
<1>3. panel'[h] = p /\ \A g \in Handlers \ {h} : panel'[g] = panel[g]
  BY <1>1 DEF TypeInv, TypeOK
<1>4. OneEach'
  BY <1>1, <1>2, OneEachStays DEF DoubtInv
<1>5. RemovesUnwanted' /\ (WorkerWrites' <=> WorkerWrites) /\ worker' = worker /\ paths' = paths
  BY <1>1 DEF DoubtInv, RemovesUnwanted, WorkerWrites
<1>6. ASSUME NEW d \in Cameras \ doubtful', d # c PROVE Undoubted(d)'
  <2>1. Undoubted(d) /\ UNCHANGED <<row, worker>>
    BY <1>1, <1>6 DEF DoubtInv
  <2>2. h \notin Writers(d) /\ d \notin p.camera
    BY <1>1, <1>2, <1>6 DEF Writers
  <2>3. /\ Writers(d)' = Writers(d) /\ Pushes(d)' = Pushes(d)
        /\ \A g \in Writers(d)' : panel'[g] = panel[g]
    BY <1>1, <1>6, <2>2, OtherWriters
  <2>4. QED
    BY <1>5, <2>1, <2>3, UndoubtedStays
<1>7. ASSUME c \notin doubtful' PROVE Undoubted(c)'
  <2>1. Undoubted(c) /\ Wanted(c) = row[c].conf
    BY <1>1, <1>7 DEF DoubtInv, Wanted
  <2>2. Wanted(c)' = Wanted(c)
    BY <1>1, WantedSame
  <2>3. Writers(c)' = Writers(c) \cup {h} /\ h \notin Writers(c)
    BY <1>1, <1>2, <1>3 DEF Writers
  <2>4. \A g \in Writers(c) : panel'[g] = panel[g]
    BY <1>3, <2>3 DEF Writers
  <2>5. Pushes(c)' = Pushes(c)
    BY <1>2, <1>3, <2>3, <2>4 DEF Pushes
  <2>6. WritesWanted(c)'
    BY <1>2, <1>3, <1>5, <2>1, <2>2, <2>3, <2>4 DEF Undoubted, WritesWanted
  <2>7. QED
    BY <1>5, <2>1, <2>2, <2>5, <2>6 DEF Undoubted
<1>8. QED
  BY <1>4, <1>5, <1>6, <1>7 DEF DoubtInv

-------------------------------------------------------------------------------
(* A push or a diagnosis: it ends, or goes on.                              *)

\* The other requests and the other paths are left alone; what is not doubted and not written
\* by this request stays as it is.
LEMMA DoubtOthers ==
    ASSUME TypeInv, DoubtInv, NEW h \in Handlers, NEW c \in Cameras, panel[h].camera = {c},
           NEW p, panel' = [panel EXCEPT ![h] = p],
           p.pc # "idle" => p.camera = {c}, p.pc = "compare" => ~p.edit,
           UNCHANGED <<row, worker>>, \A d \in Cameras \ {c} : paths'[d] = paths[d],
           \A d \in Cameras \ {c} : d \notin doubtful' => d \notin doubtful,
           c \notin doubtful' => Undoubted(c)'
    PROVE  DoubtInv'
<1>1. OneEach'
  BY OneEachStays DEF DoubtInv
<1>2. RemovesUnwanted'
  BY DEF DoubtInv, RemovesUnwanted
<1>3. ASSUME NEW d \in Cameras \ doubtful', d # c PROVE Undoubted(d)'
  <2>1. h \notin Writers(d) /\ (p.pc = "idle" \/ d \notin p.camera)
    BY <1>3 DEF Writers
  <2>2. /\ Writers(d)' = Writers(d) /\ Pushes(d)' = Pushes(d)
        /\ \A g \in Writers(d)' : panel'[g] = panel[g]
    BY <1>3, <2>1, OtherWriters
  <2>3. Undoubted(d) /\ paths'[d] = paths[d]
    BY <1>3 DEF DoubtInv
  <2>4. QED
    BY <2>2, <2>3, UndoubtedStays
<1>4. QED
  BY <1>1, <1>2, <1>3 DEF DoubtInv

\* A request is over: it has written what the row asks for, or it was no push and has written
\* nothing.
LEMMA DoneWell ==
    ASSUME TypeInv, NEW h \in Handlers, NEW c \in Cameras, Undoubted(c),
           Done(h), UNCHANGED <<row, worker>>,
           \/ paths'[c] = Wanted(c)
           \/ paths'[c] = paths[c] /\ h \notin Pushes(c)
    PROVE  Undoubted(c)'
<1>1. panel'[h] = Idle /\ \A g \in Handlers \ {h} : panel'[g] = panel[g]
  BY DEF Done, TypeInv, TypeOK
<1>2. Writers(c)' = Writers(c) \ {h}
  BY <1>1, IdleWf DEF Writers
<1>3. \A g \in Writers(c)' : panel'[g] = panel[g]
  BY <1>1, <1>2 DEF Writers
<1>4. Pushes(c)' = Pushes(c) \ {h}
  BY <1>2, <1>3 DEF Pushes
<1>5. QED
  BY <1>2, <1>3, <1>4, UndoubtedStays

\* A request goes on to its next step and has written nothing yet.
LEMMA GoesOn ==
    ASSUME TypeInv, DoubtInv, NEW h \in Handlers, NEW c \in Cameras, panel[h].camera = {c},
           NEW pc \in {"replace", "add"}, panel[h].pc \in {"compare", "replace"},
           panel' = [panel EXCEPT ![h].pc = pc], pc = "add" => paths[c] = NoPath,
           UNCHANGED <<row, paths, worker, doubtful>>
    PROVE  DoubtInv'
<1> DEFINE p == [panel[h] EXCEPT !.pc = pc]
<1>1. panel[h] \in PanelType
  BY DEF TypeInv, TypeOK
<1>2. p.pc = pc /\ p.camera = {c} /\ p.conf = panel[h].conf /\ p.edit = panel[h].edit
  BY <1>1 DEF PanelType
<1>3. panel' = [panel EXCEPT ![h] = p]
  OBVIOUS
<1> HIDE DEF p
<1>4. panel'[h] = p /\ \A g \in Handlers \ {h} : panel'[g] = panel[g]
  BY <1>3 DEF TypeInv, TypeOK
<1>5. Writers(c)' = Writers(c) /\ h \in Writers(c)
  BY <1>2, <1>4 DEF Writers
<1>6. Pushes(c)' = Pushes(c)
  <2>1. \A g \in Writers(c) : panel'[g].edit = panel[g].edit
    BY <1>2, <1>4 DEF Writers
  <2>2. QED
    BY <1>5, <2>1 DEF Pushes
<1>7. Wanted(c)' = Wanted(c) /\ worker' = worker /\ paths' = paths
  BY WantedSame
<1>8. ASSUME c \notin doubtful' PROVE Undoubted(c)'
  <2>1. Undoubted(c)
    BY <1>8 DEF DoubtInv
  <2>2. panel[h].conf = Wanted(c)
    BY <1>5, <2>1 DEF Undoubted, WritesWanted
  <2>3. ASSUME NEW g \in Writers(c)'
        PROVE  /\ panel'[g].pc \in {"compare", "replace", "add"} => panel'[g].conf = Wanted(c)
               /\ panel'[g].pc = "delete" => Wanted(c) = NoPath
               /\ panel'[g].pc = "add" => paths[c] \in {NoPath, Wanted(c)}
    <3>1. CASE g = h
      BY <1>2, <1>4, <2>2, <3>1
    <3>2. CASE g # h
      <4>1. g \in Writers(c) /\ panel'[g] = panel[g]
        BY <1>4, <1>5, <2>3, <3>2 DEF Writers
      <4>2. QED
        BY <2>1, <4>1 DEF Undoubted, WritesWanted
    <3>3. QED
      BY <3>1, <3>2
  <2>4. WritesWanted(c)'
    BY <1>7, <2>3 DEF WritesWanted
  <2>5. QED
    BY <1>6, <1>7, <2>1, <2>4 DEF Undoubted, WorkerWrites
<1>9. QED
  BY <1>2, <1>3, <1>8, DoubtOthers

LEMMA DoubtPush ==
    ASSUME TypeInv, DoubtInv, NEW h \in Handlers, Push(h)
    PROVE  DoubtInv'
<1>1. panel[h].pc # "idle"
  BY DEF Push, PanelCrash, Compare, PanelReplace, PanelAdd, PanelDrop
<1>2. PICK c \in Cameras : panel[h].camera = {c}
  BY <1>1 DEF DoubtInv, OneEach
<1>3. panel[h] \in PanelType /\ paths \in [Cameras -> Confs \cup {NoPath}]
  BY DEF TypeInv, TypeOK
<1>4. ASSUME Done(h), UNCHANGED <<row, worker>>, \A d \in Cameras \ {c} : paths'[d] = paths[d],
             doubtful' = doubtful,
             Undoubted(c) => \/ paths'[c] = Wanted(c)
                             \/ paths'[c] = paths[c] /\ h \notin Pushes(c)
      PROVE  DoubtInv'
  <2>1. c \notin doubtful' => Undoubted(c)'
    BY <1>4, DoneWell DEF DoubtInv
  <2>2. QED
    BY <1>2, <1>4, <2>1, DoubtOthers, IdleWf DEF Done
<1>5. ASSUME Done(h), UNCHANGED <<row, worker, paths>>, Missed(h, c)
      PROVE  DoubtInv'
  <2>1. CASE panel[h].edit
    <3>1. c \in doubtful' /\ \A d \in Cameras \ {c} : d \notin doubtful' => d \notin doubtful
      BY <1>5, <2>1 DEF Missed
    <3>2. panel' = [panel EXCEPT ![h] = Idle] /\ UNCHANGED <<row, worker>>
      BY <1>5 DEF Done
    <3>3. \A d \in Cameras \ {c} : paths'[d] = paths[d]
      BY <1>5
    <3> HIDE <1>5
    <3>4. QED
      BY <1>2, <3>1, <3>2, <3>3, DoubtOthers, IdleWf
  <2>2. CASE ~panel[h].edit
    <3>1. h \notin Pushes(c) /\ doubtful' = doubtful
      BY <1>5, <2>2 DEF Missed, Pushes
    <3>2. QED
      BY <1>4, <1>5, <3>1
  <2>3. QED
    BY <2>1, <2>2
<1>6. CASE PanelCrash(h)
  <2>1. /\ Done(h) /\ UNCHANGED <<row, worker, paths, doubtful>>
        /\ h \notin Pushes(c)
    BY <1>6 DEF PanelCrash, Pushes, Writers
  <2>2. QED
    BY <1>4, <2>1
<1>7. CASE Compare(h)
  <2>1. panel[h].pc = "compare" /\ UNCHANGED <<row, worker, paths, doubtful>>
    BY <1>7 DEF Compare
  <2>2. CASE Done(h)
    <3>1. h \notin Pushes(c)
      BY <2>1 DEF DoubtInv, OneEach, Pushes
    <3>2. QED
      BY <1>4, <2>1, <2>2, <3>1
  <2>3. CASE panel' = [panel EXCEPT ![h].pc = "replace"]
    BY <1>2, <2>1, <2>3, GoesOn
  <2>4. QED
    BY <1>7, <2>2, <2>3 DEF Compare
<1>8. CASE PanelReplace(h)
  <2>1. panel[h].pc = "replace" /\ h \in Writers(c) /\ UNCHANGED <<row, worker>>
    BY <1>2, <1>8 DEF PanelReplace, Writers
  <2>2. \/ Done(h) /\ paths' = paths /\ Missed(h, c)
        \/ /\ paths' = [paths EXCEPT ![c] = panel[h].conf]
           /\ Done(h)
           /\ doubtful' = doubtful
        \/ /\ paths[c] = NoPath
           /\ panel' = [panel EXCEPT ![h].pc = "add"]
           /\ UNCHANGED <<paths, doubtful>>
    BY <1>2, <1>8 DEF PanelReplace
  <2>3. CASE Done(h) /\ paths' = paths /\ Missed(h, c)
    BY <1>5, <2>1, <2>3
  <2>4. CASE /\ paths' = [paths EXCEPT ![c] = panel[h].conf]
             /\ Done(h)
             /\ doubtful' = doubtful
    <3>1. Undoubted(c) => paths'[c] = Wanted(c)
      BY <1>3, <2>1, <2>4 DEF Undoubted, WritesWanted
    <3>2. \A d \in Cameras \ {c} : paths'[d] = paths[d]
      BY <1>3, <2>4
    <3>3. QED
      BY <1>4, <2>1, <2>4, <3>1, <3>2
  <2>5. CASE /\ paths[c] = NoPath
             /\ panel' = [panel EXCEPT ![h].pc = "add"]
             /\ UNCHANGED <<paths, doubtful>>
    BY <1>2, <2>1, <2>5, GoesOn
  <2>6. QED
    BY <2>2, <2>3, <2>4, <2>5
<1>9. CASE PanelAdd(h)
  <2>1. panel[h].pc = "add" /\ h \in Writers(c) /\ UNCHANGED <<row, worker>> /\ Done(h)
    BY <1>2, <1>9 DEF PanelAdd, Writers
  <2>2. \/ paths' = paths /\ Missed(h, c)
        \/ AddPath(c, panel[h].conf) /\ doubtful' = doubtful
    BY <1>2, <1>9 DEF PanelAdd
  <2>3. CASE paths' = paths /\ Missed(h, c)
    BY <1>5, <2>1, <2>3
  <2>4. CASE AddPath(c, panel[h].conf) /\ doubtful' = doubtful
    <3>1. Undoubted(c) => panel[h].conf = Wanted(c) /\ paths[c] \in {NoPath, Wanted(c)}
      BY <2>1 DEF Undoubted, WritesWanted
    <3>2. /\ paths'[c] = IF paths[c] = NoPath THEN panel[h].conf ELSE paths[c]
          /\ \A d \in Cameras \ {c} : paths'[d] = paths[d]
      BY <1>3, <2>4 DEF AddPath
    <3>3. Undoubted(c) => paths'[c] = Wanted(c)
      BY <3>1, <3>2
    <3>4. QED
      BY <1>4, <2>1, <2>4, <3>2, <3>3
  <2>5. QED
    BY <2>2, <2>3, <2>4
<1>10. CASE PanelDrop(h)
  <2>1. panel[h].pc = "delete" /\ h \in Writers(c) /\ UNCHANGED <<row, worker>> /\ Done(h)
    BY <1>2, <1>10 DEF PanelDrop, Writers
  <2>2. \/ paths' = paths /\ Missed(h, c)
        \/ paths' = [paths EXCEPT ![c] = NoPath] /\ doubtful' = doubtful
    BY <1>2, <1>10 DEF PanelDrop
  <2>3. CASE paths' = paths /\ Missed(h, c)
    BY <1>5, <2>1, <2>3
  <2>4. CASE paths' = [paths EXCEPT ![c] = NoPath] /\ doubtful' = doubtful
    <3>1. Undoubted(c) => Wanted(c) = NoPath
      BY <2>1 DEF Undoubted, WritesWanted
    <3>2. paths'[c] = NoPath /\ \A d \in Cameras \ {c} : paths'[d] = paths[d]
      BY <1>3, <2>4
    <3>3. QED
      BY <1>4, <2>1, <2>4, <3>1, <3>2
  <2>5. QED
    BY <2>2, <2>3, <2>4
<1>11. QED
  BY <1>6, <1>7, <1>8, <1>9, <1>10 DEF Push

-------------------------------------------------------------------------------
(* The worker: what it writes to a path beyond doubt is what the row asks   *)
(* for, since it has read the row as it still is.                           *)

\* A step of the worker leaves no doubt where each path beyond doubt is written with what its
\* row asks for, or not at all.
LEMMA WorkerUndoubted ==
    ASSUME TypeInv, DoubtInv, UNCHANGED <<row, panel, doubtful>>,
           NEW c \in Cameras, c \notin doubtful,
           paths'[c] \in {paths[c], Wanted(c)},
           WorkerWrites' => worker'.desired[c] = Wanted(c)
    PROVE  Undoubted(c)'
<1>1. /\ Wanted(c)' = Wanted(c) /\ panel' = panel
      /\ Writers(c)' = Writers(c) /\ Pushes(c)' = Pushes(c)
  BY WantedSame, WritersSame
<1>2. Undoubted(c)
  BY DEF DoubtInv
<1>3. WritesWanted(c)'
  BY <1>1, <1>2 DEF Undoubted, WritesWanted
<1>4. QED
  BY <1>1, <1>2, <1>3 DEF Undoubted

LEMMA WorkerKeeps ==
    ASSUME TypeInv, DoubtInv, UNCHANGED <<row, panel, doubtful>>, RemovesUnwanted',
           \A c \in Cameras \ doubtful : paths'[c] \in {paths[c], Wanted(c)},
           \A c \in Cameras \ doubtful : WorkerWrites' => worker'.desired[c] = Wanted(c)
    PROVE  DoubtInv'
<1>1. OneEach'
  BY DEF DoubtInv, OneEach
<1>2. \A c \in Cameras \ doubtful' : Undoubted(c)'
  BY WorkerUndoubted
<1>3. QED
  BY <1>1, <1>2 DEF DoubtInv

LEMMA DoubtWorker ==
    ASSUME TypeInv, DoubtInv, CalmInv, CalmInv', WorkerStep
    PROVE  DoubtInv'
<1>0. /\ worker \in WorkerType
      /\ paths \in [Cameras -> Confs \cup {NoPath}]
      /\ UNCHANGED <<row, panel>>
      /\ worker.pc \in {"apply", "repush", "readd"} =>
            \A c \in worker.todo : worker.desired[c] \in Confs
      /\ \A c \in Cameras \ doubtful : WorkerWrites => worker.desired[c] = Wanted(c)
  <2>1. UNCHANGED <<row, panel>>
    BY DEF WorkerStep, ReadDesired, ListPaths, ApplyOne, ApplyEnds, RemoveOne, RemoveEnds,
           ReadStatuses, Repush, Readd, CycleEnds
  <2>2. QED
    BY <2>1 DEF TypeInv, TypeOK, Carried, DoubtInv, Undoubted
<1>1. ASSUME UNCHANGED <<paths, doubtful>>, worker'.pc \in {"idle", "statuses"}
      PROVE  DoubtInv'
  <2>1. RemovesUnwanted' /\ ~WorkerWrites'
    BY <1>1 DEF RemovesUnwanted, WorkerWrites
  <2>2. QED
    BY <1>0, <1>1, <2>1, WorkerKeeps
\* A step of a loop: the rows in hand are the same.
<1>2. ASSUME UNCHANGED doubtful, WorkerWrites, worker'.desired = worker.desired,
             worker'.pc # "remove",
             \A c \in Cameras \ doubtful : paths'[c] \in {paths[c], worker.desired[c]}
      PROVE  DoubtInv'
  <2>1. RemovesUnwanted'
    BY <1>2 DEF RemovesUnwanted
  <2>2. QED
    BY <1>0, <1>2, <2>1, WorkerKeeps
<1>3. AbandonCycle => worker'.pc = "idle"
  BY RestingWf DEF AbandonCycle
<1>4. CASE ReadDesired
  <2>1. /\ worker'.pc = "list" /\ \A c \in Cameras : worker'.desired[c] = Wanted(c)
        /\ UNCHANGED <<paths, doubtful>>
    BY <1>4 DEF ReadDesired, Resting
  <2>2. RemovesUnwanted'
    BY <2>1 DEF RemovesUnwanted
  <2>3. QED
    BY <1>0, <2>1, <2>2, WorkerKeeps
<1>5. CASE ListPaths
  <2>1. worker.pc = "list" /\ UNCHANGED <<paths, doubtful>>
    BY <1>5 DEF ListPaths
  <2>2. CASE AbandonCycle
    BY <1>1, <1>3, <2>1, <2>2
  <2>3. CASE worker' = [worker EXCEPT !.pc = "apply", !.current = paths,
                                      !.todo = ToApply(worker.desired, paths)]
    <3>1. worker'.pc = "apply" /\ worker'.desired = worker.desired
      BY <1>0, <2>3 DEF WorkerType
    <3>2. QED
      BY <1>2, <2>1, <3>1 DEF WorkerWrites
  <2>4. QED
    BY <1>5, <2>2, <2>3 DEF ListPaths
<1>6. CASE ApplyOne
  <2>1. PICK c \in worker.todo :
          /\ \/ paths' = paths
             \/ Applied(c)
          /\ worker' = [worker EXCEPT !.todo = @ \ {c}]
    BY <1>6 DEF ApplyOne
  <2>2. worker.pc = "apply" /\ UNCHANGED doubtful
    BY <1>6 DEF ApplyOne
  <2>3. worker'.pc = "apply" /\ worker'.desired = worker.desired
    BY <1>0, <2>1, <2>2 DEF WorkerType
  <2>4. \A d \in Cameras : paths'[d] \in {paths[d], worker.desired[d]}
    BY <1>0, <2>1 DEF Applied, AddPath, ReplacePath
  <2>5. QED
    BY <1>2, <2>2, <2>3, <2>4 DEF WorkerWrites
<1>7. CASE ApplyEnds
  <2>1. worker.pc = "apply" /\ UNCHANGED <<paths, doubtful>>
    BY <1>7 DEF ApplyEnds
  <2>2. /\ worker'.desired = worker.desired
        /\ worker'.todo = ToRemove(worker.desired, worker.current)
    BY <1>0, <1>7 DEF ApplyEnds, WorkerType
  <2>3. RemovesUnwanted'
    BY <2>2 DEF RemovesUnwanted, ToRemove
  <2>4. WorkerWrites
    BY <2>1 DEF WorkerWrites
  <2>5. QED
    BY <1>0, <2>1, <2>2, <2>3, <2>4, WorkerKeeps
<1>8. CASE RemoveOne
  <2>1. PICK c \in worker.todo :
          /\ \/ paths' = paths
             \/ paths' = [paths EXCEPT ![c] = NoPath]
          /\ worker' = [worker EXCEPT !.todo = @ \ {c}]
    BY <1>8 DEF RemoveOne
  <2>2. worker.pc = "remove" /\ UNCHANGED doubtful /\ WorkerWrites
    BY <1>8 DEF RemoveOne, WorkerWrites
  <2>3. /\ worker'.pc = "remove" /\ worker'.desired = worker.desired
        /\ worker'.todo = worker.todo \ {c}
    BY <1>0, <2>1, <2>2 DEF WorkerType
  <2>4. RemovesUnwanted
    BY DEF DoubtInv
  <2>5. worker.desired[c] = NoPath /\ RemovesUnwanted'
    BY <2>2, <2>3, <2>4 DEF RemovesUnwanted
  <2>6. \A d \in Cameras : paths'[d] \in {paths[d], worker.desired[d]}
    BY <1>0, <2>1, <2>5
  <2>7. QED
    BY <1>0, <2>2, <2>3, <2>5, <2>6, WorkerKeeps
<1>9. CASE RemoveEnds
  <2>1. /\ worker'.pc = "statuses" /\ UNCHANGED <<paths, calm>>
        /\ doubtful' = IF calm THEN {c \in doubtful : Writers(c) # {}} ELSE doubtful
    BY <1>9, RestingWf DEF RemoveEnds, Resting
  <2>2. CASE ~calm
    BY <1>1, <2>1, <2>2
  <2>3. CASE calm
    <3>1. Agrees'
      BY <2>1, <2>3 DEF CalmInv
    <3>2. OneEach' /\ RemovesUnwanted' /\ ~WorkerWrites'
      BY <1>0, <2>1 DEF DoubtInv, OneEach, RemovesUnwanted, WorkerWrites
    <3>3. ASSUME NEW c \in Cameras \ doubtful' PROVE Undoubted(c)'
      <4>1. paths'[c] = Wanted(c)' /\ Wanted(c)' = Wanted(c)
            /\ Writers(c)' = Writers(c) /\ panel' = panel /\ paths' = paths
        BY <1>0, <2>1, <3>1, WantedSame, WritersSame DEF Agrees
      <4>2. CASE Writers(c) = {}
        BY <3>2, <4>1, <4>2 DEF Undoubted, WritesWanted
      <4>3. CASE c \notin doubtful
        <5>1. Undoubted(c)
          BY <4>3 DEF DoubtInv
        <5>2. WritesWanted(c)'
          BY <4>1, <5>1 DEF Undoubted, WritesWanted
        <5>3. QED
          BY <3>2, <4>1, <5>2 DEF Undoubted
      <4>4. QED
        BY <2>1, <2>3, <3>3, <4>2, <4>3
    <3>4. QED
      BY <3>2, <3>3 DEF DoubtInv
  <2>4. QED
    BY <2>2, <2>3
<1>10. CASE ReadStatuses
  <2>1. UNCHANGED <<paths, doubtful>>
    BY <1>10 DEF ReadStatuses
  <2>2. CASE AbandonCycle
    BY <1>1, <1>3, <2>1, <2>2
  <2>3. ASSUME NEW broken,
               worker' = [worker EXCEPT !.pc = "repush", !.todo = broken,
                                        !.desired = [c \in Cameras |-> Wanted(c)]]
        PROVE  DoubtInv'
    <3>1. worker'.pc = "repush" /\ \A c \in Cameras : worker'.desired[c] = Wanted(c)
      BY <1>0, <2>3 DEF WorkerType
    <3>2. RemovesUnwanted'
      BY <3>1 DEF RemovesUnwanted
    <3>3. QED
      BY <1>0, <2>1, <3>1, <3>2, WorkerKeeps
  <2>4. QED
    BY <1>10, <2>2, <2>3 DEF ReadStatuses
<1>11. CASE Repush
  <2>1. worker.pc = "repush" /\ UNCHANGED doubtful /\ WorkerWrites
    BY <1>11 DEF Repush, WorkerWrites
  <2>2. PICK c \in worker.todo :
          \/ /\ paths' = paths
             /\ worker' = [worker EXCEPT !.todo = @ \ {c}]
          \/ /\ paths' = [paths EXCEPT ![c] = worker.desired[c]]
             /\ worker' = [worker EXCEPT !.todo = @ \ {c}]
          \/ /\ paths' = paths
             /\ worker' = [worker EXCEPT !.pc = "readd", !.current = [Nothing EXCEPT ![c] = 1]]
    BY <1>11 DEF Repush
  <2>3. worker'.pc \in {"repush", "readd"} /\ worker'.desired = worker.desired
    BY <1>0, <2>1, <2>2 DEF WorkerType
  <2>4. \A d \in Cameras : paths'[d] \in {paths[d], worker.desired[d]}
    BY <1>0, <2>2
  <2>5. QED
    BY <1>2, <2>1, <2>3, <2>4
<1>12. CASE Readd
  <2>1. worker.pc = "readd" /\ UNCHANGED doubtful /\ WorkerWrites
    BY <1>12 DEF Readd, WorkerWrites
  <2>2. PICK c \in {d \in worker.todo : worker.current[d] = 1} :
          /\ \/ paths' = paths
             \/ AddPath(c, worker.desired[c])
          /\ worker' = [worker EXCEPT !.pc = "repush", !.todo = @ \ {c}, !.current = Nothing]
    BY <1>12 DEF Readd
  <2>3. worker'.pc = "repush" /\ worker'.desired = worker.desired
    BY <1>0, <2>2 DEF WorkerType
  <2>4. \A d \in Cameras : paths'[d] \in {paths[d], worker.desired[d]}
    BY <1>0, <2>2 DEF AddPath
  <2>5. QED
    BY <1>2, <2>1, <2>3, <2>4
<1>13. CASE CycleEnds
  BY <1>1, <1>13, RestingWf DEF CycleEnds
<1>14. QED
  BY <1>4, <1>5, <1>6, <1>7, <1>8, <1>9, <1>10, <1>11, <1>12, <1>13 DEF WorkerStep

LEMMA DoubtNext ==
    ASSUME TypeInv, DoubtInv, CalmInv, [Next]_vars
    PROVE  DoubtInv'
<1>1. CASE \E h \in Handlers, c \in Cameras : Edit(h, c) \/ Diagnose(h, c)
  BY <1>1, DoubtEdit, DoubtDiagnose
<1>2. CASE \E h \in Handlers : Push(h)
  BY <1>2, DoubtPush
<1>3. CASE PanelRestart
  <2>1. /\ \A h \in Handlers : panel'[h].pc = "idle"
        /\ UNCHANGED <<row, paths, worker>>
        /\ \A c \in Cameras \ doubtful' : c \notin doubtful /\ Pushes(c) = {}
    BY <1>3, IdleWf DEF PanelRestart
  <2>2. OneEach' /\ RemovesUnwanted' /\ \A c \in Cameras : Writers(c)' = {}
    BY <2>1 DEF DoubtInv, OneEach, RemovesUnwanted, Writers
  <2>3. ASSUME NEW c \in Cameras \ doubtful' PROVE Undoubted(c)'
    <3>1. Undoubted(c) /\ Pushes(c) = {} /\ Writers(c)' = {} /\ paths'[c] = paths[c]
      BY <2>1, <2>2, <2>3 DEF DoubtInv
    <3>2. QED
      BY <2>1, <3>1, UndoubtedStays
  <2>4. QED
    BY <2>2, <2>3 DEF DoubtInv
<1>4. CASE MtxCrash
  BY <1>4 DEF MtxCrash, DoubtInv, OneEach, RemovesUnwanted
<1>5. CASE MtxStart \/ UNCHANGED vars
  <2>1. UNCHANGED <<row, panel, paths, worker, doubtful>>
    BY <1>5 DEF MtxStart, vars
  <2>2. RemovesUnwanted' /\ (WorkerWrites' <=> WorkerWrites)
    BY <2>1 DEF DoubtInv, RemovesUnwanted, WorkerWrites
  <2>3. \A c \in Cameras \ doubtful : WorkerWrites' => worker'.desired[c] = Wanted(c)
    BY <2>1, <2>2 DEF DoubtInv, Undoubted
  <2>4. QED
    BY <2>1, <2>2, <2>3, WorkerKeeps
<1>6. CASE WorkerStep
  BY <1>6, DoubtWorker, CalmNext
<1>7. CASE WorkerRestart
  <2>1. UNCHANGED <<row, panel, paths, doubtful>> /\ worker'.pc = "idle"
    BY <1>7, RestingWf DEF WorkerRestart, AbandonCycle
  <2>2. RemovesUnwanted' /\ ~WorkerWrites'
    BY <2>1 DEF RemovesUnwanted, WorkerWrites
  <2>3. QED
    BY <2>1, <2>2, WorkerKeeps
<1>8. QED
  BY <1>1, <1>2, <1>3, <1>4, <1>5, <1>6, <1>7 DEF Next

(* A path is what its row asks for from the end of its last push on, and    *)
(* neither the worker, whatever it has read and when, nor a diagnosis begun *)
(* since, nor the pushes of other cameras take it back, unless the edit     *)
(* itself met another push, a diagnosis of its camera or a cycle under way, *)
(* the push failed or was lost, the camera is off and its profile was       *)
(* changed or it was diagnosed, or the media server restarted; a path in    *)
(* doubt is right again after an undisturbed reconcile that leaves no       *)
(* request behind (reconciler.py:44-127, panel_views.py:204-509,            *)
(* diagnose.py:293-323).                                                    *)
THEOREM PathsFollow == Spec => []PathsFollowRows
<1> DEFINE Inv == TypeInv /\ CalmInv /\ DoubtInv
<1>1. Init => Inv
  BY TypeInit, CalmInit, DoubtInit
<1>2. Inv /\ [Next]_vars => Inv'
  BY TypeNext, CalmNext, DoubtNext
<1>3. Inv => PathsFollowRows
  BY DEF CalmInv, CalmCycleRepairs, DoubtInv, Undoubted, PushesStick, PathsFollowRows
<1>4. QED
  BY <1>1, <1>2, <1>3, PTL DEF Spec

-------------------------------------------------------------------------------
(* Diagnosis.  A configuration that MediaMTX stores means what was asked for, *)
(* so that what differs is never what is stored already.                     *)

LEMMA StoredIsSame == \A v : SameValue(Normalized(v), v)
<1>1. DurationSeconds["60s"] = 60 /\ DurationSeconds["1m0s"] = 60
      /\ "60s" \in DOMAIN DurationSeconds /\ "1m0s" \in DOMAIN DurationSeconds
  BY DEF DurationSeconds
<1>2. QED
  BY <1>1 DEF SameValue, Normalized

LEMMA StoredDiff == \A conf : ConfDiff(Stored(conf), conf) = {}
<1> SUFFICES ASSUME NEW conf, NEW k \in DOMAIN conf
             PROVE  SameValue(IF k \in DOMAIN Stored(conf) THEN Stored(conf)[k] ELSE "default",
                              conf[k])
  BY DEF ConfDiff
<1>1. k \in DOMAIN Stored(conf) /\ Stored(conf)[k] = Normalized(conf[k])
  BY DEF Stored
<1>2. QED
  BY <1>1, StoredIsSame

\* A replacement of what differs is needed.
LEMMA ReplacesNeeded ==
    ASSUME NEW conf, NeverNeedless, ConfDiff(path, conf) # {}, Replaces(conf)
    PROVE  NeverNeedless'
<1>1. path # Stored(conf)
  BY StoredDiff
<1>2. QED
  BY <1>1 DEF Replaces, NeverNeedless

LEMMA NeedlessStep == NeverNeedless /\ [DiagnosisNext]_diagnosisVars => NeverNeedless'
<1> SUFFICES ASSUME NeverNeedless, [DiagnosisNext]_diagnosisVars PROVE NeverNeedless'
  OBVIOUS
<1>1. CASE Reconcile
  <2>1. CASE cam.enabled
    BY <1>1, <2>1, ReplacesNeeded DEF Reconcile
  <2>2. CASE ~cam.enabled
    BY <1>1, <2>2 DEF Reconcile, NeverNeedless
  <2>3. QED
    BY <2>1, <2>2
<1>2. CASE CheckPathConfig
  <2>1. CASE ConfDiff(path, BuildPathConf(diag.cam)) = {}
    BY <1>2, <2>1 DEF CheckPathConfig, NeverNeedless
  <2>2. CASE ConfDiff(path, BuildPathConf(diag.cam)) # {}
    BY <1>2, <2>2, ReplacesNeeded DEF CheckPathConfig
  <2>3. QED
    BY <2>1, <2>2
<1>3. CASE DiagnosisStep /\ ~CheckPathConfig
  <2>1. Elsewhere
    BY <1>3 DEF DiagnosisStep, DiagnosisBegins, CheckDns, CheckTcp, CheckRtsp, GrabFrame,
       ControlApiFails, PollStream, PlaylistGiven, StreamGivenUp, StreamEnds, CheckWhep
  <2>2. QED
    BY <2>1 DEF Elsewhere, NeverNeedless
<1>4. CASE \E c \in CameraType, button \in BOOLEAN : Change(c, button)
  BY <1>4 DEF Change, NeverNeedless
<1>5. CASE \E p \in pushing : PushRow(p)
  BY <1>5 DEF PushRow, NeverNeedless
<1>6. CASE UNCHANGED diagnosisVars
  BY <1>6 DEF diagnosisVars, NeverNeedless
<1>7. QED
  BY <1>1, <1>2, <1>3, <1>4, <1>5, <1>6 DEF DiagnosisNext

(* Neither the reconciler nor a diagnosis replaces a path by a configuration *)
(* that means the same as the one it has, whatever the camera, and however   *)
(* edits, late pushes and diagnoses meet (media/paths.py:76-87).             *)
THEOREM NothingNeedless == DiagnosisSpec => []NeverNeedless
<1>1. DiagnosisInit => NeverNeedless
  BY DEF DiagnosisInit, NeverNeedless
<1>2. QED
  BY <1>1, NeedlessStep, PTL DEF DiagnosisSpec
-------------------------------------------------------------------------------
(* Diagnosis, the good report.  At each of its stages the report holds what   *)
(* the stages before have found out.                                         *)

PathConfs  == {NoConf} \cup {Stored(BuildPathConf(c)) : c \in CameraType}
StreamType == [transport: {"tcp", "udp", "no"}, video: Videos, audio: Audios, strict: BOOLEAN]
PushesType == [row: CameraType, button: BOOLEAN]
StepStates == {"none", "ok", "warn", "fail"}
Reports    == [Steps -> StepStates]
Verdicts   == {"none", "fine", "remarks", "network", "camera", "transcode: codec",
               "transcode: server", "list"}
DiagType   == [pc: {"idle", "dns", "tcp", "rtsp", "frame", "path", "stream", "whep"},
               preview: BOOLEAN, cam: CameraType, report: Reports, verdict: Verdicts,
               item: {"none", "waiting", "ready"}, playlist: BOOLEAN]

DiagnosisTyped ==
    /\ stream \in StreamType
    /\ cam \in CameraType
    /\ changes \in Nat
    /\ pushing \subseteq PushesType
    /\ path \in PathConfs
    /\ diag \in DiagType

\* Before the first edit nothing but the first configuration is about.
Unchanged ==
    changes = 0 =>
        /\ ~cam.transcode
        /\ pushing = {}
        /\ path = NoConf \/ path.source = "camera"
        /\ diag.pc # "idle" /\ ~diag.preview => diag.cam = cam

\* MediaMTX has been able to pull the stream.
Pulled == stream.transport = "tcp" /\ (stream.strict \/ changes > 0)

\* What the report holds when the diagnosis has come so far.
ReportSoFar ==
    /\ diag.pc # "idle" =>
        /\ diag.verdict = "none"
        /\ ~diag.cam.enabled => diag.report["enabled"] = "fail"
    /\ diag.pc \in {"frame", "path", "stream", "whep"} =>
        diag.report["rtsp"] = IF stream.transport = "tcp" THEN "ok" ELSE "warn"
    /\ diag.pc \in {"path", "stream", "whep"} =>
        /\ ~diag.preview
        /\ diag.report["webrtc"] = BrowserCompat(diag.cam).webrtc
        /\ diag.report["hls"] = BrowserCompat(diag.cam).hls
    /\ diag.playlist => Pulled
    /\ diag.pc = "whep" =>
        /\ diag.report["delivery"] \in {"ok", "fail"}
        /\ diag.report["delivery"] = "ok" => Pulled

DiagnosisInv == DiagnosisTyped /\ Unchanged /\ ReportSoFar /\ GreenMeansServed

LEMMA ReportWf ==
    ASSUME NEW report \in Reports, NEW k \in Steps, NEW s \in StepStates
    PROVE  /\ [report EXCEPT ![k] = s] \in Reports
           /\ [report EXCEPT ![k] = s][k] = s
           /\ \A l \in Steps : l # k => [report EXCEPT ![k] = s][l] = report[l]
BY DEF Reports

LEMMA BlankWf == Blank \in Reports
BY DEF Blank, Reports, StepStates

LEMMA CompatWf ==
    ASSUME NEW c
    PROVE  /\ BrowserCompat(c).webrtc \in {"ok", "warn", "fail"}
           /\ BrowserCompat(c).hls \in {"ok", "warn", "fail"}
           /\ BrowserCompat(c).audio \in {"none", "ok", "warn"}
BY DEF BrowserCompat

LEMMA SummaryWf ==
    ASSUME NEW report, NEW c
    PROVE  /\ Summary(report, c) \in Verdicts
           /\ Summary(report, c) \in {"fine", "remarks"} => Failed(report) = {}
           /\ Summary(report, c) = "fine" => Failed(report) = {} /\ Warned(report) = {}
BY DEF Summary, Verdicts

LEMMA NoDiagWf == NoDiag \in DiagType
<1>1. [transcode |-> FALSE, enabled |-> TRUE, onDemand |-> TRUE, audio |-> FALSE] \in Drafts
  BY DEF Drafts, CameraType
<1>2. (CHOOSE c \in Drafts : TRUE) \in CameraType
  BY <1>1 DEF Drafts
<1>3. QED
  BY <1>2, BlankWf DEF NoDiag, DiagType, Verdicts

LEMMA DiagnosisTypedInit == DiagnosisInit => DiagnosisInv
<1> SUFFICES ASSUME DiagnosisInit PROVE DiagnosisInv
  OBVIOUS
<1>1. DiagnosisTyped
  BY NoDiagWf DEF DiagnosisInit, DiagnosisTyped, StreamType, CameraType, PathConfs
<1>2. diag.pc = "idle" /\ diag.playlist = FALSE /\ diag.verdict = "none"
  BY DEF DiagnosisInit, NoDiag
<1>3. Unchanged
  BY <1>2 DEF DiagnosisInit, Unchanged
<1>4. ReportSoFar
  BY <1>2 DEF ReportSoFar
<1>5. GreenMeansServed
  BY <1>2 DEF GreenMeansServed
<1>6. QED
  BY <1>1, <1>3, <1>4, <1>5 DEF DiagnosisInv

\* The three things a step of the diagnosis does to itself.
LEMMA EndsWf ==
    ASSUME diag \in DiagType, NEW report \in Reports, Ends(report)
    PROVE  /\ diag' \in DiagType /\ diag'.pc = "idle" /\ ~diag'.playlist
           /\ diag'.report = report /\ diag'.verdict = Summary(report, diag.cam)
           /\ diag'.cam = diag.cam /\ diag'.preview = diag.preview
<1>1. Summary(report, diag.cam) \in Verdicts
  BY SummaryWf
<1>2. diag' \in DiagType
  BY <1>1 DEF Ends, DiagType
<1>3. QED
  BY <1>2 DEF Ends, DiagType

LEMMA ContinuesWf ==
    ASSUME diag \in DiagType, NEW report \in Reports,
           NEW pc \in {"dns", "tcp", "rtsp", "frame", "path", "stream", "whep"},
           Continues(report, pc)
    PROVE  /\ diag' \in DiagType /\ diag'.pc = pc /\ diag'.report = report
           /\ diag'.cam = diag.cam /\ diag'.preview = diag.preview
           /\ diag'.verdict = diag.verdict /\ diag'.playlist = diag.playlist
BY DEF Continues, DiagType

\* What the end of a report must be for the invariant to survive it.
Served(report) ==
    LET verdict == Summary(report, diag.cam) IN
    verdict \in {"fine", "remarks"} =>
        /\ report["webrtc"] \in {"ok", "warn"} /\ report["hls"] \in {"ok", "warn"}
        /\ ~diag.preview => /\ diag.cam.enabled
                            /\ report["delivery"] = "ok"
                            /\ Pulled
        /\ verdict = "fine" => stream.transport = "tcp"
        /\ diag.cam.transcode \/ Recommended(stream.video) = "passthrough"

LEMMA EndsInv ==
    ASSUME DiagnosisInv, NEW report \in Reports, Ends(report), Elsewhere, Served(report)
    PROVE  DiagnosisInv'
<1> USE DEF Elsewhere
<1>1. /\ diag' \in DiagType /\ diag'.pc = "idle" /\ ~diag'.playlist
      /\ diag'.report = report /\ diag'.verdict = Summary(report, diag.cam)
      /\ diag'.cam = diag.cam /\ diag'.preview = diag.preview
  BY EndsWf DEF DiagnosisInv, DiagnosisTyped
<1>2. DiagnosisTyped'
  BY <1>1 DEF DiagnosisInv, DiagnosisTyped
<1>3. Unchanged'
  BY <1>1 DEF DiagnosisInv, Unchanged
<1>4. ReportSoFar'
  BY <1>1 DEF ReportSoFar
<1>5. GreenMeansServed'
  BY <1>1 DEF Served, GreenMeansServed, Pulled
<1>6. QED
  BY <1>2, <1>3, <1>4, <1>5 DEF DiagnosisInv

\* A report with a failure is no good report.
LEMMA FailedServed ==
    ASSUME NEW report \in Reports, NEW k \in Steps, report[k] = "fail"
    PROVE  Served(report)
<1>1. k \in Failed(report)
  BY DEF Failed
<1>2. QED
  BY <1>1, SummaryWf DEF Served

\* What a report that goes on must hold to have come to a stage.
Reaches(report, pc) ==
    /\ report["enabled"] = diag.report["enabled"]
    /\ pc \in {"frame", "path", "stream", "whep"} =>
        report["rtsp"] = IF stream.transport = "tcp" THEN "ok" ELSE "warn"
    /\ pc \in {"path", "stream", "whep"} =>
        /\ ~diag.preview
        /\ report["webrtc"] = BrowserCompat(diag.cam).webrtc
        /\ report["hls"] = BrowserCompat(diag.cam).hls
    /\ pc = "whep" =>
        /\ report["delivery"] \in {"ok", "fail"}
        /\ report["delivery"] = "ok" => Pulled

LEMMA CompatStays ==
    ASSUME UNCHANGED stream, NEW c
    PROVE  BrowserCompat(c)' = BrowserCompat(c)
BY DEF BrowserCompat

LEMMA ContinuesInv ==
    ASSUME DiagnosisInv, diag.pc # "idle", NEW report \in Reports,
           NEW pc \in {"dns", "tcp", "rtsp", "frame", "path", "stream", "whep"},
           Continues(report, pc), Reaches(report, pc),
           UNCHANGED <<stream, cam, changes, pushing>>, path' \in PathConfs,
           changes = 0 => path' = NoConf \/ path'.source = "camera"
    PROVE  DiagnosisInv'
<1>1. /\ diag' \in DiagType /\ diag'.pc = pc /\ diag'.report = report
      /\ diag'.cam = diag.cam /\ diag'.preview = diag.preview
      /\ diag'.verdict = diag.verdict /\ diag'.playlist = diag.playlist
  BY ContinuesWf DEF DiagnosisInv, DiagnosisTyped
<1>2. DiagnosisTyped'
  BY <1>1 DEF DiagnosisInv, DiagnosisTyped
<1>3. Unchanged'
  BY <1>1 DEF DiagnosisInv, Unchanged
<1>4. ReportSoFar'
  <2>1. diag'.verdict = "none" /\ (~diag'.cam.enabled => diag'.report["enabled"] = "fail")
    BY <1>1 DEF DiagnosisInv, ReportSoFar, Reaches
  <2>2. diag'.playlist => Pulled'
    BY <1>1 DEF DiagnosisInv, ReportSoFar, Pulled
  <2>3. BrowserCompat(diag.cam)' = BrowserCompat(diag.cam)
    BY <1>1 DEF BrowserCompat
  <2>4. pc \in {"path", "stream", "whep"} =>
            /\ ~diag'.preview
            /\ diag'.report["webrtc"] = BrowserCompat(diag.cam)'.webrtc
            /\ diag'.report["hls"] = BrowserCompat(diag.cam)'.hls
    BY <1>1, <2>3 DEF Reaches
  <2>5. pc = "whep" => /\ diag'.report["delivery"] \in {"ok", "fail"}
                       /\ diag'.report["delivery"] = "ok" => Pulled'
    BY <1>1 DEF Reaches, Pulled
  <2>6. pc \in {"frame", "path", "stream", "whep"} =>
            diag'.report["rtsp"] = IF stream'.transport = "tcp" THEN "ok" ELSE "warn"
    BY <1>1 DEF Reaches
  <2>7. QED
    BY <1>1, <2>1, <2>2, <2>4, <2>5, <2>6 DEF ReportSoFar
<1>5. GreenMeansServed'
  BY <1>1 DEF DiagnosisInv, ReportSoFar, GreenMeansServed
<1>6. QED
  BY <1>2, <1>3, <1>4, <1>5 DEF DiagnosisInv

LEMMA StoredConfs ==
    ASSUME NEW c \in CameraType
    PROVE  /\ Stored(BuildPathConf(c)) \in PathConfs
           /\ ~c.transcode => Stored(BuildPathConf(c)).source = "camera"
<1>1. Stored(BuildPathConf(c)) \in PathConfs
  BY DEF PathConfs
<1>2. ~c.transcode => Stored(BuildPathConf(c)).source = "camera"
  BY DEF Stored, BuildPathConf, Normalized
<1>3. QED
  BY <1>1, <1>2

\* Edits, pushes and the worker leave the diagnosis alone.
LEMMA OutsideInv ==
    ASSUME DiagnosisInv, UNCHANGED <<stream, diag>>, changes' \in Nat, changes' >= changes,
           cam' \in CameraType, pushing' \subseteq PushesType, path' \in PathConfs, Unchanged'
    PROVE  DiagnosisInv'
<1>1. DiagnosisTyped'
  BY DEF DiagnosisInv, DiagnosisTyped
<1>2. changes > 0 => changes' > 0
  BY DEF DiagnosisInv, DiagnosisTyped
<1>3. BrowserCompat(diag.cam)' = BrowserCompat(diag.cam)
  BY DEF BrowserCompat
<1>4. Pulled => Pulled'
  BY <1>2 DEF Pulled
<1>5. ReportSoFar'
  BY <1>3, <1>4 DEF DiagnosisInv, ReportSoFar
<1>6. GreenMeansServed'
  BY <1>2 DEF DiagnosisInv, GreenMeansServed
<1>7. QED
  BY <1>1, <1>5, <1>6 DEF DiagnosisInv

LEMMA ChangeInv ==
    ASSUME DiagnosisInv, NEW c \in CameraType, NEW button \in BOOLEAN, Change(c, button)
    PROVE  DiagnosisInv'
<1>1. changes' \in Nat /\ changes' >= changes /\ changes' # 0
  BY DEF DiagnosisInv, DiagnosisTyped, Change
<1>2. [row |-> c, button |-> button] \in PushesType
  BY DEF PushesType
<1>3. pushing' \subseteq PushesType /\ cam' \in CameraType /\ path' \in PathConfs
  BY <1>2 DEF DiagnosisInv, DiagnosisTyped, Change
<1>4. Unchanged'
  BY <1>1 DEF Unchanged
<1>5. QED
  BY <1>1, <1>3, <1>4, OutsideInv DEF Change

LEMMA PushRowInv ==
    ASSUME DiagnosisInv, NEW p \in pushing, PushRow(p)
    PROVE  DiagnosisInv'
<1>1. changes \in Nat /\ p \in PushesType /\ changes # 0
  BY DEF DiagnosisInv, DiagnosisTyped, Unchanged
<1>2. Stored(BuildPathConf(p.row)) \in PathConfs /\ NoConf \in PathConfs
  BY <1>1, StoredConfs DEF PushesType, PathConfs
<1>3. path' \in PathConfs /\ pushing' \subseteq PushesType
  BY <1>2 DEF PushRow, DiagnosisInv, DiagnosisTyped
<1>4. Unchanged'
  BY <1>1 DEF PushRow, Unchanged
<1>5. changes' \in Nat /\ changes' >= changes
  BY <1>1 DEF PushRow
<1>6. cam' \in CameraType
  BY DEF PushRow, DiagnosisInv, DiagnosisTyped
<1>7. QED
  BY <1>3, <1>4, <1>5, <1>6, OutsideInv DEF PushRow

LEMMA ReconcileInv ==
    ASSUME DiagnosisInv, Reconcile
    PROVE  DiagnosisInv'
<1>1. cam \in CameraType /\ changes \in Nat
  BY DEF DiagnosisInv, DiagnosisTyped
<1>2. path' = NoConf \/ path' = Stored(BuildPathConf(cam))
  BY DEF Reconcile, Replaces
<1>3. path' \in PathConfs
  BY <1>1, <1>2, StoredConfs DEF PathConfs
<1>4. Unchanged'
  BY <1>1, <1>2, StoredConfs DEF Reconcile, Unchanged, DiagnosisInv
<1>5. changes' \in Nat /\ changes' >= changes /\ cam' \in CameraType /\ pushing' \subseteq PushesType
  BY <1>1 DEF Reconcile, DiagnosisInv, DiagnosisTyped
<1>6. QED
  BY <1>3, <1>4, <1>5, OutsideInv DEF Reconcile

LEMMA BeginsInv ==
    ASSUME DiagnosisInv, NEW c \in Drafts \cup {cam}, NEW preview \in BOOLEAN,
           NEW hasPath \in BOOLEAN, DiagnosisBegins(c, preview, hasPath)
    PROVE  DiagnosisInv'
<1> DEFINE report == [Blank EXCEPT !["url"] = IF hasPath THEN "ok" ELSE "warn",
                                   !["enabled"] = IF c.enabled THEN @ ELSE "fail"]
<1>1. c \in CameraType
  BY DEF Drafts, DiagnosisInv, DiagnosisTyped
<1>2. report \in Reports /\ (~c.enabled => report["enabled"] = "fail")
  <2>1. "url" \in Steps /\ "enabled" \in Steps
    BY DEF Steps
  <2>2. QED
    BY <2>1, BlankWf DEF Reports, StepStates
<1>3. diag' = [NoDiag EXCEPT !.pc = "dns", !.preview = preview, !.cam = c, !.report = report]
  BY DEF DiagnosisBegins
<1> HIDE DEF report
<1>4. diag' \in DiagType
  BY <1>1, <1>2, <1>3, NoDiagWf DEF DiagType
<1>5. /\ diag'.pc = "dns" /\ diag'.verdict = "none" /\ diag'.playlist = FALSE
      /\ diag'.report = report /\ diag'.cam = c /\ diag'.preview = preview
  BY <1>3, NoDiagWf DEF DiagType, NoDiag
<1>6. DiagnosisTyped'
  BY <1>4 DEF DiagnosisInv, DiagnosisTyped, DiagnosisBegins, Elsewhere
<1>7. ~preview => c = cam
  BY DEF DiagnosisBegins
<1>8. Unchanged'
  BY <1>5, <1>7 DEF DiagnosisInv, Unchanged, DiagnosisBegins, Elsewhere
<1>9. ReportSoFar'
  BY <1>2, <1>5 DEF ReportSoFar
<1>10. GreenMeansServed'
  BY <1>5 DEF GreenMeansServed
<1>11. QED
  BY <1>6, <1>8, <1>9, <1>10 DEF DiagnosisInv

LEMMA Named ==
    /\ "dns" \in Steps /\ "tcp" \in Steps /\ "rtsp" \in Steps /\ "codecs" \in Steps
    /\ "frame" \in Steps /\ "webrtc" \in Steps /\ "hls" \in Steps /\ "audio" \in Steps
    /\ "mtxconf" \in Steps /\ "stream" \in Steps /\ "delivery" \in Steps
    /\ "whepsrv" \in Steps /\ "enabled" \in Steps
BY DEF Steps

LEMMA ReportDiag ==
    ASSUME DiagnosisInv, NEW k \in Steps, NEW s \in StepStates
    PROVE  /\ Report(k, s) \in Reports
           /\ Report(k, s)[k] = s
           /\ \A l \in Steps : l # k => Report(k, s)[l] = diag.report[l]
<1>1. diag.report \in Reports
  BY DEF DiagnosisInv, DiagnosisTyped, DiagType
<1>2. QED
  BY <1>1, ReportWf DEF Report

\* The report ends with a failure.
LEMMA FailsInv ==
    ASSUME DiagnosisInv, NEW k \in Steps, Ends(Report(k, "fail")), Elsewhere
    PROVE  DiagnosisInv'
<1>1. Report(k, "fail") \in Reports /\ Report(k, "fail")[k] = "fail"
  BY ReportDiag DEF StepStates
<1>2. QED
  BY <1>1, EndsInv, FailedServed

\* Before MediaMTX is asked.
LEMMA EarlyInv ==
    ASSUME DiagnosisInv, NEW k \in {"dns", "tcp", "rtsp"}, NEW s \in StepStates,
           NEW pc \in {"tcp", "rtsp", "frame"}, diag.pc # "idle",
           Continues(Report(k, s), pc), Elsewhere,
           pc = "frame" => k = "rtsp" /\ s = IF stream.transport = "tcp" THEN "ok" ELSE "warn"
    PROVE  DiagnosisInv'
<1>1. k \in Steps
  BY Named
<1>2. /\ Report(k, s) \in Reports /\ Report(k, s)[k] = s
      /\ Report(k, s)["enabled"] = diag.report["enabled"]
  BY <1>1, ReportDiag, Named
<1>3. Reaches(Report(k, s), pc)
  BY <1>2 DEF Reaches
<1>4. path' \in PathConfs /\ (changes = 0 => path' = NoConf \/ path'.source = "camera")
  BY DEF Elsewhere, DiagnosisInv, DiagnosisTyped, Unchanged
<1>5. QED
  BY <1>2, <1>3, <1>4, ContinuesInv DEF Elsewhere

LEMMA CheckDnsInv ==
    ASSUME DiagnosisInv, NEW state \in {"ok", "fail"}, CheckDns(state)
    PROVE  DiagnosisInv'
<1>1. CASE state = "fail"
  BY <1>1, FailsInv, Named DEF CheckDns
<1>2. CASE state = "ok"
  BY <1>2, EarlyInv DEF CheckDns, StepStates
<1>3. QED
  BY <1>1, <1>2

LEMMA CheckTcpInv ==
    ASSUME DiagnosisInv, NEW state \in {"ok", "fail"}, CheckTcp(state)
    PROVE  DiagnosisInv'
<1>1. CASE state = "fail"
  BY <1>1, FailsInv, Named DEF CheckTcp
<1>2. CASE state = "ok"
  BY <1>2, EarlyInv DEF CheckTcp, StepStates
<1>3. QED
  BY <1>1, <1>2

LEMMA CheckRtspInv ==
    ASSUME DiagnosisInv, CheckRtsp
    PROVE  DiagnosisInv'
<1>1. stream.transport \in {"tcp", "udp", "no"}
  BY DEF DiagnosisInv, DiagnosisTyped, StreamType
<1>2. CASE stream.transport = "no"
  <2>1. Ends(Report("rtsp", "fail")) /\ Elsewhere
    BY <1>2 DEF CheckRtsp
  <2>2. QED
    BY <2>1, FailsInv, Named
<1>3. CASE stream.transport = "tcp"
  <2>1. Continues(Report("rtsp", "ok"), "frame") /\ Elsewhere /\ diag.pc # "idle"
    BY <1>3 DEF CheckRtsp
  <2>2. QED
    BY <2>1, <1>3, EarlyInv DEF StepStates
<1>4. CASE stream.transport = "udp"
  <2>1. Continues(Report("rtsp", "warn"), "frame") /\ Elsewhere /\ diag.pc # "idle"
    BY <1>4 DEF CheckRtsp
  <2>2. QED
    BY <2>1, <1>4, EarlyInv DEF StepStates
<1>5. QED
  BY <1>1, <1>2, <1>3, <1>4

LEMMA CompatPassthrough ==
    ASSUME NEW c, BrowserCompat(c).webrtc # "fail"
    PROVE  c.transcode \/ Recommended(stream.video) = "passthrough"
BY DEF BrowserCompat, Recommended, Hevc, WebrtcVideoHw

\* A good report is served.
LEMMA GreenServed ==
    ASSUME NEW report \in Reports,
           report["webrtc"] = BrowserCompat(diag.cam).webrtc,
           report["hls"] = BrowserCompat(diag.cam).hls,
           report["rtsp"] = IF stream.transport = "tcp" THEN "ok" ELSE "warn",
           ~diag.preview /\ Failed(report) = {} =>
                diag.cam.enabled /\ report["delivery"] = "ok" /\ Pulled
    PROVE  Served(report)
<1> SUFFICES ASSUME Summary(report, diag.cam) \in {"fine", "remarks"}
             PROVE  /\ report["webrtc"] \in {"ok", "warn"} /\ report["hls"] \in {"ok", "warn"}
                    /\ ~diag.preview => /\ diag.cam.enabled
                                        /\ report["delivery"] = "ok"
                                        /\ Pulled
                    /\ Summary(report, diag.cam) = "fine" => stream.transport = "tcp"
                    /\ diag.cam.transcode \/ Recommended(stream.video) = "passthrough"
  BY DEF Served
<1>1. Failed(report) = {}
  BY SummaryWf
<1>2. report["webrtc"] # "fail" /\ report["hls"] # "fail"
  BY <1>1, Named DEF Failed
<1>3. report["webrtc"] \in {"ok", "warn"} /\ report["hls"] \in {"ok", "warn"}
  BY <1>2, CompatWf
<1>4. Summary(report, diag.cam) = "fine" => stream.transport = "tcp"
  <2>1. Warned(report) = {} => report["rtsp"] # "warn"
    BY Named DEF Warned
  <2>2. QED
    BY <2>1, SummaryWf
<1>5. diag.cam.transcode \/ Recommended(stream.video) = "passthrough"
  BY <1>2, CompatPassthrough
<1>6. QED
  BY <1>1, <1>3, <1>4, <1>5

LEMMA GrabFrameInv ==
    ASSUME DiagnosisInv, NEW arrived \in BOOLEAN, GrabFrame(arrived)
    PROVE  DiagnosisInv'
<1> DEFINE compat == BrowserCompat(diag.cam)
           seen   == IF arrived THEN "ok" ELSE "warn"
           report == [diag.report EXCEPT !["codecs"] = "ok", !["frame"]  = seen,
                        !["webrtc"] = compat.webrtc, !["hls"] = compat.hls,
                        !["audio"]  = compat.audio]
<1>1. /\ diag.pc = "frame" /\ Elsewhere
      /\ IF diag.preview THEN Ends(report) ELSE Continues(report, "path")
  BY DEF GrabFrame
<1>2. diag.report \in Reports
  BY DEF DiagnosisInv, DiagnosisTyped, DiagType
<1>3. /\ compat.webrtc \in StepStates /\ compat.hls \in StepStates /\ compat.audio \in StepStates
      /\ seen \in StepStates /\ "ok" \in StepStates
  BY CompatWf DEF StepStates
<1> HIDE DEF compat, seen
<1>4. /\ report \in Reports
      /\ report["webrtc"] = compat.webrtc /\ report["hls"] = compat.hls
      /\ report["rtsp"] = diag.report["rtsp"] /\ report["enabled"] = diag.report["enabled"]
  BY <1>2, <1>3, Named DEF Reports
<1>5. diag.report["rtsp"] = IF stream.transport = "tcp" THEN "ok" ELSE "warn"
  BY <1>1 DEF DiagnosisInv, ReportSoFar
<1> HIDE DEF report
<1>6. CASE diag.preview
  <2>1. Served(report)
    BY <1>4, <1>5, <1>6, GreenServed DEF compat
  <2>2. QED
    BY <1>1, <1>4, <1>6, <2>1, EndsInv
<1>7. CASE ~diag.preview
  <2>1. Reaches(report, "path")
    BY <1>4, <1>5, <1>7 DEF Reaches, compat
  <2>2. path' \in PathConfs /\ (changes = 0 => path' = NoConf \/ path'.source = "camera")
    BY <1>1 DEF Elsewhere, DiagnosisInv, DiagnosisTyped, Unchanged
  <2>3. QED
    BY <1>1, <1>4, <1>7, <2>1, <2>2, ContinuesInv DEF Elsewhere
<1>8. QED
  BY <1>6, <1>7

LEMMA CheckPathConfigInv ==
    ASSUME DiagnosisInv, CheckPathConfig
    PROVE  DiagnosisInv'
<1> DEFINE conf == Stored(BuildPathConf(diag.cam))
<1>1. /\ diag.pc = "path" /\ diag.cam \in CameraType /\ ~diag.preview
      /\ Continues(Report("mtxconf", "ok"), "stream")
      /\ path' = path \/ path' = conf
      /\ UNCHANGED <<stream, cam, changes, pushing>>
  BY DEF CheckPathConfig, Replaces, DiagnosisInv, DiagnosisTyped, DiagType, ReportSoFar
<1>2. conf \in PathConfs /\ (changes = 0 => conf.source = "camera")
  BY <1>1, StoredConfs DEF DiagnosisInv, Unchanged
<1>3. path' \in PathConfs /\ (changes = 0 => path' = NoConf \/ path'.source = "camera")
  BY <1>1, <1>2 DEF DiagnosisInv, DiagnosisTyped, Unchanged
<1>4. /\ Report("mtxconf", "ok") \in Reports
      /\ \A k \in {"enabled", "rtsp", "webrtc", "hls"} :
            Report("mtxconf", "ok")[k] = diag.report[k]
  <2>1. "ok" \in StepStates
    BY DEF StepStates
  <2>2. QED
    BY <2>1, ReportDiag, Named
<1>5. Reaches(Report("mtxconf", "ok"), "stream")
  BY <1>1, <1>4 DEF Reaches, DiagnosisInv, ReportSoFar
<1>6. QED
  BY <1>1, <1>3, <1>4, <1>5, ContinuesInv

\* While the stream is waited for, the report stays as it is.
LEMMA WaitsInv ==
    ASSUME DiagnosisInv, Elsewhere, diag' \in DiagType, diag.pc = "stream",
           diag'.pc = "stream", diag'.preview = diag.preview, diag'.cam = diag.cam,
           diag'.report = diag.report, diag'.verdict = diag.verdict, diag'.playlist => Pulled
    PROVE  DiagnosisInv'
<1> USE DEF Elsewhere
<1>1. DiagnosisTyped'
  BY DEF DiagnosisInv, DiagnosisTyped
<1>2. Unchanged'
  BY DEF DiagnosisInv, Unchanged
<1>3. BrowserCompat(diag.cam)' = BrowserCompat(diag.cam)
  BY DEF BrowserCompat
<1>4. ReportSoFar'
  BY <1>3 DEF DiagnosisInv, ReportSoFar, Pulled
<1>5. GreenMeansServed'
  BY DEF DiagnosisInv, GreenMeansServed
<1>6. QED
  BY <1>1, <1>2, <1>4, <1>5 DEF DiagnosisInv

LEMMA PollStreamInv ==
    ASSUME DiagnosisInv, PollStream
    PROVE  DiagnosisInv'
<1>1. PICK item \in {"none", "waiting", "ready"} : diag' = [diag EXCEPT !.item = item]
  BY DEF PollStream
<1>2. diag \in DiagType /\ diag.pc = "stream" /\ Elsewhere /\ (diag.playlist => Pulled)
  BY DEF DiagnosisInv, DiagnosisTyped, ReportSoFar, PollStream
<1>3. diag' \in DiagType
  BY <1>1, <1>2 DEF DiagType
<1>4. /\ diag'.pc = diag.pc /\ diag'.preview = diag.preview /\ diag'.cam = diag.cam
      /\ diag'.report = diag.report /\ diag'.verdict = diag.verdict
      /\ diag'.playlist = diag.playlist
  BY <1>1, <1>2 DEF DiagType
<1>5. QED
  BY <1>2, <1>3, <1>4, WaitsInv

\* What MediaMTX can pull before the first edit, it pulls by the letter of the SDP.
LEMMA PullableIsPulled ==
    ASSUME DiagnosisInv, Pullable(path)
    PROVE  Pulled
<1>1. changes \in Nat
  BY DEF DiagnosisInv, DiagnosisTyped
<1>2. CASE changes = 0
  BY <1>2 DEF DiagnosisInv, Unchanged, Pullable, Pulled
<1>3. CASE changes > 0
  BY <1>3 DEF Pullable, Pulled
<1>4. QED
  BY <1>1, <1>2, <1>3

LEMMA PlaylistGivenInv ==
    ASSUME DiagnosisInv, PlaylistGiven
    PROVE  DiagnosisInv'
<1>1. diag \in DiagType /\ diag.pc = "stream" /\ Elsewhere /\ Pulled
  BY PullableIsPulled DEF PlaylistGiven, DiagnosisInv, DiagnosisTyped
<1>2. diag' \in DiagType
  BY <1>1 DEF PlaylistGiven, DiagType
<1>3. /\ diag'.pc = diag.pc /\ diag'.preview = diag.preview /\ diag'.cam = diag.cam
      /\ diag'.report = diag.report /\ diag'.verdict = diag.verdict
  BY <1>1 DEF PlaylistGiven, DiagType
<1>4. QED
  BY <1>1, <1>2, <1>3, WaitsInv

LEMMA StreamEndsInv ==
    ASSUME DiagnosisInv, NEW received \in BOOLEAN, StreamEnds(received)
    PROVE  DiagnosisInv'
<1> DEFINE given  == IF diag.playlist THEN "ok" ELSE "fail"
           came   == StreamState(received)
           report == [diag.report EXCEPT !["stream"] = came, !["delivery"] = given]
<1>1. /\ diag \in DiagType /\ diag.pc = "stream" /\ Elsewhere
      /\ ~diag.preview /\ (diag.playlist => Pulled)
      /\ diag.report["webrtc"] = BrowserCompat(diag.cam).webrtc
      /\ diag.report["hls"] = BrowserCompat(diag.cam).hls
      /\ diag.report["rtsp"] = IF stream.transport = "tcp" THEN "ok" ELSE "warn"
  BY DEF StreamEnds, DiagnosisInv, DiagnosisTyped, ReportSoFar
<1>2. diag.report \in Reports
  BY <1>1 DEF DiagType
<1>3. came \in StepStates /\ given \in StepStates
  BY DEF StreamState, StepStates
<1>4. given \in {"ok", "fail"} /\ (given = "ok" => Pulled)
  BY <1>1
<1>5. Continues(report, "whep")
  BY <1>1 DEF StreamEnds, Continues, DiagType
<1> HIDE DEF given, came
<1>6. /\ report \in Reports /\ report["delivery"] = given
      /\ \A k \in {"enabled", "rtsp", "webrtc", "hls"} : report[k] = diag.report[k]
  BY <1>2, <1>3, Named DEF Reports
<1> HIDE DEF report
<1>7. Reaches(report, "whep")
  BY <1>1, <1>4, <1>6 DEF Reaches
<1>8. path' \in PathConfs /\ (changes = 0 => path' = NoConf \/ path'.source = "camera")
  BY <1>1 DEF Elsewhere, DiagnosisInv, DiagnosisTyped, Unchanged
<1>9. QED
  BY <1>1, <1>5, <1>6, <1>7, <1>8, ContinuesInv DEF Elsewhere

LEMMA CheckWhepInv ==
    ASSUME DiagnosisInv, NEW state \in {"ok", "warn", "fail"}, CheckWhep(state)
    PROVE  DiagnosisInv'
<1>1. /\ diag.pc = "whep" /\ Elsewhere /\ Ends(Report("whepsrv", state))
      /\ ~diag.cam.enabled => diag.report["enabled"] = "fail"
      /\ diag.report["rtsp"] = IF stream.transport = "tcp" THEN "ok" ELSE "warn"
      /\ diag.report["webrtc"] = BrowserCompat(diag.cam).webrtc
      /\ diag.report["hls"] = BrowserCompat(diag.cam).hls
      /\ diag.report["delivery"] \in {"ok", "fail"}
      /\ diag.report["delivery"] = "ok" => Pulled
  BY DEF CheckWhep, DiagnosisInv, ReportSoFar
<1>2. /\ Report("whepsrv", state) \in Reports
      /\ \A k \in {"enabled", "rtsp", "webrtc", "hls", "delivery"} :
            Report("whepsrv", state)[k] = diag.report[k]
  <2>1. state \in StepStates
    BY DEF StepStates
  <2>2. QED
    BY <2>1, ReportDiag, Named
<1>3. Failed(Report("whepsrv", state)) = {} =>
          diag.cam.enabled /\ Report("whepsrv", state)["delivery"] = "ok" /\ Pulled
  <2>1. SUFFICES ASSUME Failed(Report("whepsrv", state)) = {}
                 PROVE  diag.cam.enabled /\ diag.report["delivery"] = "ok" /\ Pulled
    BY <1>2
  <2>2. diag.report["enabled"] # "fail" /\ diag.report["delivery"] # "fail"
    BY <1>2, <2>1, Named DEF Failed
  <2>3. QED
    BY <1>1, <2>2
<1>4. Served(Report("whepsrv", state))
  BY <1>1, <1>2, <1>3, GreenServed
<1>5. QED
  BY <1>1, <1>2, <1>4, EndsInv

LEMMA DiagnosisInvStep == DiagnosisInv /\ [DiagnosisNext]_diagnosisVars => DiagnosisInv'
<1> SUFFICES ASSUME DiagnosisInv, [DiagnosisNext]_diagnosisVars PROVE DiagnosisInv'
  OBVIOUS
<1>1. CASE \E c \in CameraType, button \in BOOLEAN : Change(c, button)
  BY <1>1, ChangeInv
<1>2. CASE \E p \in pushing : PushRow(p)
  BY <1>2, PushRowInv
<1>3. CASE Reconcile
  BY <1>3, ReconcileInv
<1>4. CASE DiagnosisStep
  <2>1. CASE \E c \in Drafts \cup {cam}, preview, hasPath \in BOOLEAN :
                DiagnosisBegins(c, preview, hasPath)
    BY <2>1, BeginsInv
  <2>2. CASE \E state \in {"ok", "fail"} : CheckDns(state) \/ CheckTcp(state)
    BY <2>2, CheckDnsInv, CheckTcpInv
  <2>3. CASE CheckRtsp
    BY <2>3, CheckRtspInv
  <2>4. CASE \E arrived \in BOOLEAN : GrabFrame(arrived)
    BY <2>4, GrabFrameInv
  <2>5. CASE CheckPathConfig
    BY <2>5, CheckPathConfigInv
  <2>6. CASE ControlApiFails
    BY <2>6, FailsInv, Named DEF ControlApiFails
  <2>7. CASE PollStream
    BY <2>7, PollStreamInv
  <2>8. CASE PlaylistGiven
    BY <2>8, PlaylistGivenInv
  <2>9. CASE StreamGivenUp
    BY <2>9, FailsInv, Named DEF StreamGivenUp
  <2>10. CASE \E received \in BOOLEAN : StreamEnds(received)
    BY <2>10, StreamEndsInv
  <2>11. CASE \E state \in {"ok", "warn", "fail"} : CheckWhep(state)
    BY <2>11, CheckWhepInv
  <2>12. QED
    BY <1>4, <2>1, <2>2, <2>3, <2>4, <2>5, <2>6, <2>7, <2>8, <2>9, <2>10, <2>11
       DEF DiagnosisStep
<1>5. CASE UNCHANGED diagnosisVars
  <2>1. BrowserCompat(diag.cam)' = BrowserCompat(diag.cam)
    BY <1>5 DEF diagnosisVars, BrowserCompat
  <2>2. QED
    BY <1>5, <2>1 DEF diagnosisVars, DiagnosisInv, DiagnosisTyped, Unchanged, ReportSoFar,
       Pulled, GreenMeansServed
<1>6. QED
  BY <1>1, <1>2, <1>3, <1>4, <1>5 DEF DiagnosisNext

(* A diagnosis without a failure is of a camera that is on, that gave its     *)
(* stream over TCP, to be transcoded or not, in a codec browsers play, and    *)
(* that MediaMTX was serving: whatever codecs there are, however often the    *)
(* camera is edited meanwhile, and whoever else writes its path               *)
(* (media/diagnose.py:395-500, 575-604, media/paths.py:120).                  *)
THEOREM GoodReports == DiagnosisSpec => []GreenMeansServed
<1>1. DiagnosisInv => GreenMeansServed
  BY DEF DiagnosisInv
<1>2. QED
  BY <1>1, DiagnosisTypedInit, DiagnosisInvStep, PTL DEF DiagnosisSpec
=============================================================================
