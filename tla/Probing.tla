-------------------------------- MODULE Probing --------------------------------
(***************************************************************************)
(* What the panel knows of a camera from asking it: the probe of its        *)
(* stream, written by the worker's cycle and by the diagnosis of an         *)
(* operator, and the identification for PTZ.  Both take seconds, and the    *)
(* address and the settings they were made with may be edited meanwhile.    *)
(*                                                                         *)
(* A handler reads its row when it begins and writes, at its commit, the    *)
(* columns whose value differs from the one it has read; a commit that      *)
(* meets a deleted row fails and writes nothing (StaleDataError).           *)
(* The status of a camera is refreshed with every cycle of Reconciler and   *)
(* is left out here.                                                        *)
(***************************************************************************)
EXTENDS Integers, FiniteSets

CONSTANTS
    MaxCameras,  \* bound: cameras ever in the table
    Lost,        \* cameras in the table whose address no key at hand decrypts
    Requests,    \* places for requests of the panel that are in flight together
    Limit,       \* cameras the worker takes at once (PROBE_BATCH)
    Down,        \* cameras that answer no probe
    MaxEdits,    \* bound: changes of addresses, of PTZ settings (by an edit, or by an
                 \* identification that finds the driver) and of "enabled"
    MaxMishaps   \* bound: probes that crash and restarts of the worker

ASSUME ProbingAssumption ==
    /\ MaxCameras \in Nat
    /\ Lost \subseteq 1..MaxCameras
    /\ Limit \in Nat \ {0}
    /\ MaxEdits \in Nat
    /\ MaxMishaps \in Nat

VARIABLES
    cam,       \* the table cameras
    worker,    \* the probe cycle: the address it has read of each camera, 0 for none
    req,       \* the requests of the panel
    edits,     \* changes so far
    mishaps,   \* crashes and restarts so far
    late,      \* the last edit of the address overlapped a probe (history)
    metaLate   \* the last edit of the settings overlapped an identification, or two
               \* identifications have overlapped since (history)

vars == <<cam, worker, req, edits, mishaps, late, metaLate>>

-------------------------------------------------------------------------------
Cameras == 1..MaxCameras

\* Addresses and PTZ settings are numbered from 1 as they are edited.  shown is the
\* address the stored probe was made of, meta and metaUrl the settings and the address
\* the stored identification was made with; 0: there is none.
NewCamera == [life |-> "there", url |-> 1, readable |-> TRUE, enabled |-> TRUE,
              probed |-> FALSE, shown |-> 0, ok |-> FALSE,
              ptz |-> 1, meta |-> 0, metaUrl |-> 0]

Nowhere == [NewCamera EXCEPT !.life = "new"]
Gone    == [NewCamera EXCEPT !.life = "gone"]

\* What a request has read of the row: the address and the settings it asks the camera
\* with, or what an edit may find unchanged.  met and metaMet: a probe, or an
\* identification, was written since (history).
Idle == [pc |-> "idle", camera |-> 0, url |-> 0, ptz |-> 0, hadProbe |-> FALSE,
         hadMeta |-> FALSE, met |-> FALSE, metaMet |-> FALSE]

There(c)   == cam[c].life = "there"
Resting    == [pc |-> "idle", url |-> [c \in Cameras |-> 0]]
Targets    == {c \in Cameras : worker.url[c] # 0}

Init ==
    /\ cam = [c \in Cameras |->
            IF c \in Lost THEN [NewCamera EXCEPT !.readable = FALSE] ELSE Nowhere]
    /\ worker = Resting
    /\ req = [r \in Requests |-> Idle]
    /\ edits = 0
    /\ mishaps = 0
    /\ late = [c \in Cameras |-> FALSE]
    /\ metaLate = [c \in Cameras |-> FALSE]

\* Who is asking the camera c now.
Doing(r, c, pc)  == req[r].pc = pc /\ req[r].camera = c
ProbeUnderWay(c) == worker.url[c] # 0 \/ \E r \in Requests : Doing(r, c, "diagnosing")
CheckUnderWay(c) == \E r \in Requests : Doing(r, c, "checking")

\* The requests in flight for a camera whose probe, or identification, is written.
Met(written) ==
    [q \in Requests |-> [req[q] EXCEPT !.met = @ \/ req[q].camera \in written]]

MetMeta(c) ==
    [q \in Requests |-> [req[q] EXCEPT !.metaMet = @ \/ req[q].camera = c]]

-------------------------------------------------------------------------------
(* The worker's probe cycle.                                                *)

Eligible == {c \in Cameras : There(c) /\ cam[c].enabled /\ ~cam[c].probed}

\* Any batch of the right size: the query names no order.
ReadBatch ==
    /\ worker.pc = "idle"
    /\ \E batch \in SUBSET Eligible :
        /\ Cardinality(batch) = Limit \/ (batch = Eligible /\ Cardinality(batch) < Limit)
        /\ \E c \in batch : cam[c].readable
        /\ worker' = [pc |-> "probing",
                      url |-> [c \in Cameras |->
                                IF c \in batch /\ cam[c].readable THEN cam[c].url ELSE 0]]
    /\ UNCHANGED <<cam, req, edits, mishaps, late, metaLate>>

Probed(row, c, url) == [row EXCEPT !.probed = TRUE, !.shown = url, !.ok = (c \notin Down)]

\* A mutant: a camera that does not answer is left for the next cycle.
WriteResultsOk(written) ==
    cam' = [c \in Cameras |->
        IF c \in written /\ c \notin Down THEN Probed(cam[c], c, worker.url[c]) ELSE cam[c]]

WriteResults(written) ==
    cam' = [c \in Cameras |->
        IF c \in written THEN Probed(cam[c], c, worker.url[c]) ELSE cam[c]]

\* One commit for the whole batch; probes that crashed are not in it.
CommitBatch(crashed) ==
    LET written == Targets \ crashed IN
    /\ worker.pc = "probing"
    /\ mishaps' = mishaps + (IF crashed = {} THEN 0 ELSE 1)
    /\ mishaps' <= MaxMishaps
    /\ IF \A c \in written : There(c)
       THEN /\ WriteResults(written)
            /\ req' = Met(written)
       ELSE UNCHANGED <<cam, req>>
    /\ worker' = Resting
    /\ UNCHANGED <<edits, late, metaLate>>

WorkerRestarts ==
    /\ worker.pc = "probing"
    /\ mishaps < MaxMishaps
    /\ mishaps' = mishaps + 1
    /\ worker' = Resting
    /\ UNCHANGED <<cam, req, edits, late, metaLate>>

-------------------------------------------------------------------------------
(* The panel.                                                               *)

Create(c) ==
    /\ cam[c].life = "new"
    /\ cam' = [cam EXCEPT ![c] = NewCamera]
    /\ UNCHANGED <<worker, req, edits, mishaps, late, metaLate>>

\* The viewers are dropped before, and the path after, in other modules.
Delete(c) ==
    /\ There(c)
    /\ cam' = [cam EXCEPT ![c] = Gone]
    /\ UNCHANGED <<worker, req, edits, mishaps, late, metaLate>>

Arrives(r, c, as) ==
    /\ req[r].pc = "idle"
    /\ There(c)
    /\ req' = [req EXCEPT ![r] = as]
    /\ UNCHANGED <<cam, worker, edits, mishaps, late, metaLate>>

EditArrives(r, c) ==
    Arrives(r, c, [Idle EXCEPT !.pc = "editing", !.camera = c,
                               !.hadProbe = cam[c].probed, !.hadMeta = cam[c].meta # 0])

\* A mutant: the new address does not ask for a new probe.
EditedUrlOnly(row, hadProbe) == [row EXCEPT !.url = @ + 1, !.readable = TRUE]

\* probed_at = None is written only if it is not what was read.
EditedUrl(row, hadProbe) ==
    [row EXCEPT !.url = @ + 1, !.readable = TRUE, !.probed = @ /\ ~hadProbe]

\* A mutant: the identification outlives the settings.
EditedPtzOnly(row, hadMeta) == [row EXCEPT !.ptz = @ + 1]

\* ptz_meta = None likewise.
EditedPtz(row, hadMeta) ==
    IF hadMeta THEN [row EXCEPT !.ptz = @ + 1, !.meta = 0, !.metaUrl = 0]
    ELSE [row EXCEPT !.ptz = @ + 1]

One(b) == IF b THEN 1 ELSE 0

\* The numbers stand for values: a new one is a value the camera has not had yet.
EditCommits(r, newUrl, newPtz, on) ==
    LET c    == req[r].camera
        row1 == IF newUrl THEN EditedUrl(cam[c], req[r].hadProbe) ELSE cam[c]
        row2 == IF newPtz THEN EditedPtz(row1, req[r].hadMeta) ELSE row1
    IN
    /\ req[r].pc = "editing"
    /\ There(c)
    /\ edits' = edits + One(newUrl) + One(newPtz) + One(on # cam[c].enabled)
    /\ edits' <= MaxEdits
    /\ cam' = [cam EXCEPT ![c] = [row2 EXCEPT !.enabled = on]]
    /\ late' = IF newUrl THEN [late EXCEPT ![c] = req[r].met \/ ProbeUnderWay(c)] ELSE late
    /\ metaLate' = IF newPtz
                   THEN [metaLate EXCEPT ![c] = req[r].metaMet \/ CheckUnderWay(c)]
                   ELSE metaLate
    /\ req' = [req EXCEPT ![r] = Idle]
    /\ UNCHANGED <<worker, mishaps>>

DiagnosisArrives(r, c) ==
    /\ cam[c].readable
    /\ Arrives(r, c, [Idle EXCEPT !.pc = "diagnosing", !.camera = c, !.url = cam[c].url])

DiagnosisCommits(r) ==
    LET c == req[r].camera IN
    /\ req[r].pc = "diagnosing"
    /\ There(c)
    /\ cam' = [cam EXCEPT ![c] = Probed(@, c, req[r].url)]
    /\ req' = [Met({c}) EXCEPT ![r] = Idle]
    /\ UNCHANGED <<worker, edits, mishaps, late, metaLate>>

CheckArrives(r, c) ==
    /\ cam[c].readable
    /\ Arrives(r, c, [Idle EXCEPT !.pc = "checking", !.camera = c,
                                  !.url = cam[c].url, !.ptz = cam[c].ptz])

\* The settings an identification leaves, and the ones it then counts as made with: it
\* stores the driver it has found, which settles a choice that was left open.
Settled(row, settles)        == IF settles THEN row.ptz + 1 ELSE row.ptz
MadeWith(row, asked, settles) == IF row.ptz = asked THEN Settled(row, settles) ELSE asked

\* A mutant: the address it was made with is not stored.
CheckCommitsHalf(r, settles) ==
    LET c == req[r].camera IN
    /\ req[r].pc = "checking"
    /\ There(c)
    /\ edits' = edits + One(settles)
    /\ edits' <= MaxEdits
    /\ cam' = [cam EXCEPT ![c].ptz = Settled(cam[c], settles),
                          ![c].meta = MadeWith(cam[c], req[r].ptz, settles)]
    /\ metaLate' = [metaLate EXCEPT ![c] = @ \/ req[r].metaMet]
    /\ req' = [MetMeta(c) EXCEPT ![r] = Idle]
    /\ UNCHANGED <<worker, mishaps, late>>

CheckCommits(r, settles) ==
    LET c == req[r].camera IN
    /\ req[r].pc = "checking"
    /\ There(c)
    /\ edits' = edits + One(settles)
    /\ edits' <= MaxEdits
    /\ cam' = [cam EXCEPT ![c].ptz = Settled(cam[c], settles),
                          ![c].meta = MadeWith(cam[c], req[r].ptz, settles),
                          ![c].metaUrl = req[r].url]
    /\ metaLate' = [metaLate EXCEPT ![c] = @ \/ req[r].metaMet]
    /\ req' = [MetMeta(c) EXCEPT ![r] = Idle]
    /\ UNCHANGED <<worker, mishaps, late>>

\* A form that is refused, a camera that does not answer, a deleted row, a dead process.
Fails(r) ==
    /\ req[r].pc # "idle"
    /\ req' = [req EXCEPT ![r] = Idle]
    /\ UNCHANGED <<cam, worker, edits, mishaps, late, metaLate>>

-------------------------------------------------------------------------------
WorkerStep == ReadBatch \/ \E crashed \in SUBSET Targets : CommitBatch(crashed)

RequestStep(r) ==
    \/ \E c \in Cameras : EditArrives(r, c) \/ DiagnosisArrives(r, c) \/ CheckArrives(r, c)
    \/ \E newUrl, newPtz, on \in BOOLEAN : EditCommits(r, newUrl, newPtz, on)
    \/ DiagnosisCommits(r)
    \/ \E settles \in BOOLEAN : CheckCommits(r, settles)
    \/ Fails(r)

Next ==
    \/ WorkerStep
    \/ WorkerRestarts
    \/ \E c \in Cameras : Create(c) \/ Delete(c)
    \/ \E r \in Requests : RequestStep(r)

\* The worker's loop goes round for ever; nobody has to finish a request.
Spec == Init /\ [][Next]_vars /\ WF_vars(WorkerStep)

-------------------------------------------------------------------------------
(* Properties.                                                              *)

Numbers == 0..(MaxEdits + 1)

CameraType == [life: {"new", "there", "gone"}, url: Numbers, readable: BOOLEAN,
               enabled: BOOLEAN, probed: BOOLEAN, shown: Numbers, ok: BOOLEAN,
               ptz: Numbers, meta: Numbers, metaUrl: Numbers]

RequestType == [pc: {"idle", "editing", "diagnosing", "checking"},
                camera: Cameras \cup {0}, url: Numbers, ptz: Numbers, hadProbe: BOOLEAN,
                hadMeta: BOOLEAN, met: BOOLEAN, metaMet: BOOLEAN]

\* Type correctness, and: a camera that counts as probed has a probe, and an
\* identification is stored whole or not at all (models.py:261-340).
TypeOK ==
    /\ cam \in [Cameras -> CameraType]
    /\ \A c \in Cameras : cam[c].url \in 1..(edits + 1) /\ cam[c].ptz \in 1..(edits + 1)
    /\ \A c \in Cameras : cam[c].probed => cam[c].shown # 0
    /\ \A c \in Cameras : cam[c].meta = 0 <=> cam[c].metaUrl = 0
    /\ worker \in [pc: {"idle", "probing"}, url: [Cameras -> Numbers]]
    /\ req \in [Requests -> RequestType]
    /\ \A r \in Requests : req[r].pc = "idle" <=> req[r].camera = 0
    /\ edits \in 0..MaxEdits /\ mishaps \in 0..MaxMishaps
    /\ late \in [Cameras -> BOOLEAN] /\ metaLate \in [Cameras -> BOOLEAN]

\* A camera that counts as probed shows the probe of the address it has now, unless the
\* last edit of the address overlapped a probe (panel_views.py:361, worker.py:93-162):
\* "probed again in the worker's next cycle" holds for every edit made in peace.
ProbeOfItsUrl ==
    \A c \in Cameras : cam[c].probed /\ cam[c].shown # cam[c].url => late[c]

\* A stored identification was made with the settings the camera has now, the driver it
\* found itself among them, unless their last edit overlapped an identification or two
\* identifications have overlapped since (panel_views.py:616-700).  The address is not one of
\* these settings: an edit of the address alone keeps what was made with the old one.
MetaOfItsSettings ==
    \A c \in Cameras : cam[c].meta # 0 /\ cam[c].meta # cam[c].ptz => metaLate[c]

\* Every enabled camera whose address can be read is probed in the end, though probes
\* crash, cameras do not answer and rows are deleted under the worker, as long as the
\* cameras that cannot be read do not fill a batch (worker.py:93-162, 283-292).
Waiting(c) == c \in Eligible /\ cam[c].readable
EventuallyProbed == \A c \in Cameras : Waiting(c) ~> ~Waiting(c)
===============================================================================
