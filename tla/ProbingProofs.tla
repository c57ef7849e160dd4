----------------------------- MODULE ProbingProofs -----------------------------
(***************************************************************************)
(* Proofs about Probing, for any number of cameras, requests and edits and   *)
(* any size of a batch.                                                     *)
(***************************************************************************)
EXTENDS Probing, TLAPS

-------------------------------------------------------------------------------
(* Rows and requests.                                                       *)

Bounds == MaxCameras \in Nat /\ MaxEdits \in Nat /\ MaxMishaps \in Nat

LEMMA Records ==
  /\ Bounds
  /\ NewCamera \in CameraType /\ NewCamera.life = "there" /\ NewCamera.url = 1
  /\ NewCamera.ptz = 1 /\ NewCamera.probed = FALSE /\ NewCamera.meta = 0
  /\ NewCamera.metaUrl = 0
  /\ Gone \in CameraType /\ Gone.life = "gone" /\ Gone.url = 1 /\ Gone.ptz = 1
  /\ Gone.probed = FALSE /\ Gone.meta = 0 /\ Gone.metaUrl = 0
  /\ Nowhere \in CameraType /\ Nowhere.life = "new" /\ Nowhere.url = 1 /\ Nowhere.ptz = 1
  /\ Nowhere.probed = FALSE /\ Nowhere.meta = 0 /\ Nowhere.metaUrl = 0
  /\ Idle \in RequestType /\ Idle.pc = "idle" /\ Idle.camera = 0
<1>1. Bounds
  BY ProbingAssumption DEF Bounds
<1>2. 0 \in Numbers /\ 1 \in Numbers
  BY <1>1 DEF Bounds, Numbers
<1>3. NewCamera \in CameraType
  BY <1>2 DEF NewCamera, CameraType
<1>4. Gone \in CameraType /\ Nowhere \in CameraType
  BY <1>3 DEF Gone, Nowhere, CameraType
<1>5. Idle \in RequestType
  BY <1>2 DEF Idle, RequestType
<1> QED
  BY <1>1, <1>3, <1>4, <1>5 DEF NewCamera, Gone, Nowhere, Idle

\* A row after a probe of the address u.
LEMMA ProbedRow ==
  ASSUME NEW row \in CameraType, NEW c, NEW u \in Numbers
  PROVE  /\ Probed(row, c, u) \in CameraType
         /\ Probed(row, c, u).probed /\ Probed(row, c, u).shown = u
         /\ Probed(row, c, u).life = row.life /\ Probed(row, c, u).url = row.url
         /\ Probed(row, c, u).ptz = row.ptz /\ Probed(row, c, u).meta = row.meta
         /\ Probed(row, c, u).metaUrl = row.metaUrl
<1>1. PICK ok \in BOOLEAN : ok = (c \notin Down)
  OBVIOUS
<1>2. Probed(row, c, u) = [row EXCEPT !.probed = TRUE, !.shown = u, !.ok = ok]
  BY <1>1 DEF Probed
<1>3. Probed(row, c, u) \in CameraType
  BY <1>2 DEF CameraType
<1> QED
  BY <1>2, <1>3 DEF CameraType

\* A row after an edit: of the address, of the settings, of both or of neither.
Edited(row, q, newUrl, newPtz, on) ==
    LET row1 == IF newUrl THEN EditedUrl(row, q.hadProbe) ELSE row
        row2 == IF newPtz THEN EditedPtz(row1, q.hadMeta) ELSE row1
    IN  [row2 EXCEPT !.enabled = on]

LEMMA UrlRow ==
  ASSUME NEW row \in CameraType, row.url + 1 \in Numbers, NEW had \in BOOLEAN
  PROVE  /\ EditedUrl(row, had) \in CameraType
         /\ EditedUrl(row, had).url = row.url + 1
         /\ EditedUrl(row, had).probed <=> (row.probed /\ ~had)
         /\ EditedUrl(row, had).shown = row.shown /\ EditedUrl(row, had).life = row.life
         /\ EditedUrl(row, had).ptz = row.ptz /\ EditedUrl(row, had).meta = row.meta
         /\ EditedUrl(row, had).metaUrl = row.metaUrl
<1>1. PICK p \in BOOLEAN : p = (row.probed /\ ~had)
  OBVIOUS
<1>2. EditedUrl(row, had) = [row EXCEPT !.url = row.url + 1, !.readable = TRUE, !.probed = p]
  BY <1>1 DEF EditedUrl
<1>3. EditedUrl(row, had) \in CameraType
  BY <1>2 DEF CameraType
<1>4. EditedUrl(row, had).probed = p
  BY <1>2 DEF CameraType
<1>5. /\ EditedUrl(row, had).url = row.url + 1
      /\ EditedUrl(row, had).shown = row.shown /\ EditedUrl(row, had).life = row.life
      /\ EditedUrl(row, had).ptz = row.ptz /\ EditedUrl(row, had).meta = row.meta
      /\ EditedUrl(row, had).metaUrl = row.metaUrl
  BY <1>2 DEF CameraType
<1> QED
  BY <1>1, <1>3, <1>4, <1>5

LEMMA PtzRow ==
  ASSUME NEW row \in CameraType, row.ptz + 1 \in Numbers, NEW had \in BOOLEAN
  PROVE  /\ EditedPtz(row, had) \in CameraType
         /\ EditedPtz(row, had).ptz = row.ptz + 1
         /\ EditedPtz(row, had).meta = IF had THEN 0 ELSE row.meta
         /\ EditedPtz(row, had).metaUrl = IF had THEN 0 ELSE row.metaUrl
         /\ EditedPtz(row, had).shown = row.shown /\ EditedPtz(row, had).life = row.life
         /\ EditedPtz(row, had).url = row.url /\ EditedPtz(row, had).probed = row.probed
<1>1. 0 \in Numbers
  BY Records DEF Bounds, Numbers
<1>2. CASE had
  <2>1. EditedPtz(row, had) = [row EXCEPT !.ptz = row.ptz + 1, !.meta = 0, !.metaUrl = 0]
    BY <1>2 DEF EditedPtz
  <2>2. EditedPtz(row, had) \in CameraType
    BY <1>1, <2>1 DEF CameraType
  <2> QED
    BY <1>2, <2>1, <2>2 DEF CameraType
<1>3. CASE ~had
  <2>1. EditedPtz(row, had) = [row EXCEPT !.ptz = row.ptz + 1]
    BY <1>3 DEF EditedPtz
  <2>2. EditedPtz(row, had) \in CameraType
    BY <2>1 DEF CameraType
  <2> QED
    BY <1>3, <2>1, <2>2 DEF CameraType
<1> QED
  BY <1>2, <1>3

LEMMA EditedRow ==
  ASSUME NEW row \in CameraType, NEW q \in RequestType, NEW newUrl \in BOOLEAN,
         NEW newPtz \in BOOLEAN, NEW on \in BOOLEAN,
         newUrl => row.url + 1 \in Numbers, newPtz => row.ptz + 1 \in Numbers
  PROVE  LET new == Edited(row, q, newUrl, newPtz, on) IN
         /\ new \in CameraType /\ new.life = row.life /\ new.shown = row.shown
         /\ new.url = IF newUrl THEN row.url + 1 ELSE row.url
         /\ new.probed <=> row.probed /\ (newUrl => ~q.hadProbe)
         /\ new.ptz = IF newPtz THEN row.ptz + 1 ELSE row.ptz
         /\ new.meta = IF newPtz /\ q.hadMeta THEN 0 ELSE row.meta
         /\ new.metaUrl = IF newPtz /\ q.hadMeta THEN 0 ELSE row.metaUrl
<1>1. q.hadProbe \in BOOLEAN /\ q.hadMeta \in BOOLEAN
  BY DEF RequestType
<1>2. PICK row1 : row1 = IF newUrl THEN EditedUrl(row, q.hadProbe) ELSE row
  OBVIOUS
<1>3. /\ row1 \in CameraType /\ row1.life = row.life /\ row1.shown = row.shown
      /\ row1.url = IF newUrl THEN row.url + 1 ELSE row.url
      /\ row1.ptz = row.ptz /\ row1.meta = row.meta /\ row1.metaUrl = row.metaUrl
  BY <1>1, <1>2, UrlRow
<1>4. row1.probed <=> row.probed /\ (newUrl => ~q.hadProbe)
  BY <1>1, <1>2, UrlRow
<1>5. PICK row2 : row2 = IF newPtz THEN EditedPtz(row1, q.hadMeta) ELSE row1
  OBVIOUS
<1>6. /\ row2 \in CameraType /\ row2.life = row1.life /\ row2.shown = row1.shown
      /\ row2.url = row1.url /\ row2.probed = row1.probed
      /\ row2.ptz = IF newPtz THEN row1.ptz + 1 ELSE row1.ptz
      /\ row2.meta = IF newPtz /\ q.hadMeta THEN 0 ELSE row1.meta
      /\ row2.metaUrl = IF newPtz /\ q.hadMeta THEN 0 ELSE row1.metaUrl
  BY <1>1, <1>3, <1>5, PtzRow
<1>7. PICK new : new = [row2 EXCEPT !.enabled = on]
  OBVIOUS
<1>8. new = Edited(row, q, newUrl, newPtz, on)
  BY <1>2, <1>5, <1>7 DEF Edited
<1>9. /\ new \in CameraType /\ new.life = row2.life /\ new.shown = row2.shown
      /\ new.url = row2.url /\ new.probed = row2.probed /\ new.ptz = row2.ptz
      /\ new.meta = row2.meta /\ new.metaUrl = row2.metaUrl
  BY <1>6, <1>7 DEF CameraType
<1> QED
  BY <1>3, <1>4, <1>6, <1>8, <1>9

\* The requests that a write meets.
LEMMA MetRequests ==
  ASSUME req \in [Requests -> RequestType], NEW W, NEW q \in Requests
  PROVE  /\ Met(W)[q] \in RequestType
         /\ Met(W)[q].met <=> (req[q].met \/ req[q].camera \in W)
         /\ Met(W)[q].pc = req[q].pc /\ Met(W)[q].camera = req[q].camera
         /\ Met(W)[q].url = req[q].url /\ Met(W)[q].ptz = req[q].ptz
         /\ Met(W)[q].hadProbe = req[q].hadProbe /\ Met(W)[q].hadMeta = req[q].hadMeta
         /\ Met(W)[q].metaMet = req[q].metaMet
<1>1. PICK m \in BOOLEAN : m = (req[q].met \/ req[q].camera \in W)
  OBVIOUS
<1>2. Met(W)[q] = [req[q] EXCEPT !.met = m] /\ req[q] \in RequestType
  BY <1>1 DEF Met
<1>3. Met(W)[q] \in RequestType
  BY <1>2 DEF RequestType
<1>4. Met(W)[q].met = m
  BY <1>2 DEF RequestType
<1> QED
  BY <1>1, <1>2, <1>3, <1>4 DEF RequestType

LEMMA MetaMetRequests ==
  ASSUME req \in [Requests -> RequestType], NEW c, NEW q \in Requests
  PROVE  /\ MetMeta(c)[q] \in RequestType
         /\ MetMeta(c)[q].metaMet <=> (req[q].metaMet \/ req[q].camera = c)
         /\ MetMeta(c)[q].pc = req[q].pc /\ MetMeta(c)[q].camera = req[q].camera
         /\ MetMeta(c)[q].url = req[q].url /\ MetMeta(c)[q].ptz = req[q].ptz
         /\ MetMeta(c)[q].hadProbe = req[q].hadProbe /\ MetMeta(c)[q].hadMeta = req[q].hadMeta
         /\ MetMeta(c)[q].met = req[q].met
<1>1. PICK m \in BOOLEAN : m = (req[q].metaMet \/ req[q].camera = c)
  OBVIOUS
<1>2. MetMeta(c)[q] = [req[q] EXCEPT !.metaMet = m] /\ req[q] \in RequestType
  BY <1>1 DEF MetMeta
<1>3. MetMeta(c)[q] \in RequestType
  BY <1>2 DEF RequestType
<1>4. MetMeta(c)[q].metaMet = m
  BY <1>2 DEF RequestType
<1> QED
  BY <1>1, <1>2, <1>3, <1>4 DEF RequestType

-------------------------------------------------------------------------------
(* The invariant: of a camera, and of a request.                            *)

RowOK(c) ==
    /\ cam[c] \in CameraType
    /\ cam[c].url \in 1..(edits + 1) /\ cam[c].ptz \in 1..(edits + 1)
    /\ cam[c].probed => cam[c].shown # 0
    /\ cam[c].meta = 0 <=> cam[c].metaUrl = 0

\* What is stored, and what the worker asks with, is of today, unless the last edit
\* overlapped somebody who was asking.
CamInv(c) ==
    /\ cam[c].life # "there" => ~cam[c].probed /\ cam[c].meta = 0
    /\ worker.url[c] # 0 => cam[c].life # "new"
    /\ cam[c].life = "there" /\ ~late[c] =>
          /\ cam[c].probed => cam[c].shown = cam[c].url
          /\ worker.url[c] # 0 => worker.url[c] = cam[c].url
    /\ cam[c].life = "there" /\ ~metaLate[c] => (cam[c].meta # 0 => cam[c].meta = cam[c].ptz)

\* What a request asks with is of today likewise; what an edit finds, it has read, or it
\* knows that it was met.
ReqMeans(q, row, isLate, isMetaLate) ==
    /\ row.life # "new"
    /\ q.pc \in {"diagnosing", "checking"} => q.url # 0
    /\ q.pc = "checking" => q.ptz # 0
    /\ q.pc = "diagnosing" /\ row.life = "there" /\ ~isLate => q.url = row.url
    /\ q.pc = "checking" /\ row.life = "there" /\ ~isMetaLate /\ ~q.metaMet => q.ptz = row.ptz
    /\ q.pc = "editing" /\ ~q.met /\ row.probed => q.hadProbe
    /\ q.pc = "editing" /\ ~q.metaMet /\ row.meta # 0 => q.hadMeta

ReqInv(r) ==
    req[r].pc # "idle" =>
        ReqMeans(req[r], cam[req[r].camera], late[req[r].camera], metaLate[req[r].camera])

ReqOK(r) == (req[r].pc = "idle" <=> req[r].camera = 0) /\ ReqInv(r)

RestOK ==
    /\ worker \in [pc: {"idle", "probing"}, url: [Cameras -> Numbers]]
    /\ edits \in 0..MaxEdits /\ mishaps \in 0..MaxMishaps
    /\ late \in [Cameras -> BOOLEAN] /\ metaLate \in [Cameras -> BOOLEAN]

ProbingInv ==
    /\ cam \in [Cameras -> CameraType] /\ \A c \in Cameras : RowOK(c) /\ CamInv(c)
    /\ req \in [Requests -> RequestType] /\ \A r \in Requests : ReqOK(r)
    /\ RestOK

LEMMA InvParts ==
  /\ ProbingInv => TypeOK /\ ProbeOfItsUrl /\ MetaOfItsSettings
  /\ ProbingInv => Bounds /\ 0 \notin Cameras
<1>1. ProbingInv => TypeOK
  BY DEF ProbingInv, TypeOK, RowOK, ReqOK, RestOK
<1>2. ASSUME ProbingInv, NEW c \in Cameras PROVE CamInv(c)
  BY <1>2 DEF ProbingInv
<1>3. ProbingInv => ProbeOfItsUrl /\ MetaOfItsSettings
  BY <1>2 DEF ProbeOfItsUrl, MetaOfItsSettings, CamInv
<1>4. Bounds /\ 0 \notin Cameras
  BY Records DEF Cameras
<1> QED
  BY <1>1, <1>3, <1>4

\* A request that is under way is of a camera.
LEMMA OfACamera ==
  ASSUME ProbingInv, NEW r \in Requests, req[r].pc # "idle"
  PROVE  /\ req[r] \in RequestType /\ req[r].camera \in Cameras
         /\ ReqMeans(req[r], cam[req[r].camera], late[req[r].camera], metaLate[req[r].camera])
BY DEF ProbingInv, ReqOK, ReqInv, RequestType

\* The tables stay, one request changes.
LEMMA RequestChanges ==
  ASSUME ProbingInv, UNCHANGED <<cam, worker, edits, mishaps, late, metaLate>>,
         NEW r \in Requests, NEW q \in RequestType, req' = [req EXCEPT ![r] = q],
         q.pc = "idle" <=> q.camera = 0,
         q.pc # "idle" => ReqMeans(q, cam[q.camera], late[q.camera], metaLate[q.camera])
  PROVE  ProbingInv'
<1>1. /\ cam' = cam /\ worker' = worker /\ edits' = edits /\ mishaps' = mishaps
      /\ late' = late /\ metaLate' = metaLate
  OBVIOUS
<1>2. \A c \in Cameras : RowOK(c)' /\ CamInv(c)'
  BY <1>1 DEF ProbingInv, RowOK, CamInv
<1>3. req' \in [Requests -> RequestType]
      /\ \A s \in Requests : req'[s] = IF s = r THEN q ELSE req[s]
  BY DEF ProbingInv
<1>4. ASSUME NEW s \in Requests PROVE ReqOK(s)'
  <2>1. CASE s = r
    BY <1>1, <1>3, <2>1 DEF ReqOK, ReqInv
  <2>2. CASE s # r
    BY <1>1, <1>3, <2>2 DEF ProbingInv, ReqOK, ReqInv
  <2> QED
    BY <2>1, <2>2
<1> QED
  BY <1>1, <1>2, <1>3, <1>4 DEF ProbingInv, RestOK

LEMMA ArrivalsKeep ==
  ASSUME ProbingInv, NEW r \in Requests, NEW c \in Cameras,
         EditArrives(r, c) \/ DiagnosisArrives(r, c) \/ CheckArrives(r, c)
  PROVE  ProbingInv'
<1>1. Idle \in RequestType /\ 0 \notin Cameras /\ RowOK(c) /\ CamInv(c) /\ RestOK
      /\ cam[c] \in CameraType
  BY Records, InvParts DEF ProbingInv
<1>2. cam[c].url # 0 /\ cam[c].ptz # 0 /\ cam[c].url \in Numbers /\ cam[c].ptz \in Numbers
      /\ cam[c].probed \in BOOLEAN /\ (cam[c].meta # 0) \in BOOLEAN
  BY <1>1 DEF RowOK, CameraType, RestOK
<1>3. CASE EditArrives(r, c)
  <2>1. PICK m \in BOOLEAN : m = (cam[c].meta # 0)
    OBVIOUS
  <2>2. PICK q : q = [Idle EXCEPT !.pc = "editing", !.camera = c, !.hadProbe = cam[c].probed,
                                  !.hadMeta = m]
    OBVIOUS
  <2>3. q \in RequestType
    BY <1>1, <1>2, <2>1, <2>2 DEF RequestType
  <2>4. q.pc = "editing" /\ q.camera = c /\ q.hadProbe = cam[c].probed /\ q.hadMeta = m
    BY <1>1, <2>2 DEF RequestType
  <2>5. req' = [req EXCEPT ![r] = q] /\ There(c)
        /\ UNCHANGED <<cam, worker, edits, mishaps, late, metaLate>>
    BY <1>3, <2>1, <2>2 DEF EditArrives, Arrives
  <2>6. ReqMeans(q, cam[c], late[c], metaLate[c])
    BY <2>1, <2>4, <2>5 DEF ReqMeans, There
  <2> QED
    BY <1>1, <2>3, <2>4, <2>5, <2>6, RequestChanges
<1>4. CASE DiagnosisArrives(r, c)
  <2>1. PICK q : q = [Idle EXCEPT !.pc = "diagnosing", !.camera = c, !.url = cam[c].url]
    OBVIOUS
  <2>2. q \in RequestType
    BY <1>1, <1>2, <2>1 DEF RequestType
  <2>3. q.pc = "diagnosing" /\ q.camera = c /\ q.url = cam[c].url
    BY <1>1, <2>1 DEF RequestType
  <2>4. req' = [req EXCEPT ![r] = q] /\ There(c)
        /\ UNCHANGED <<cam, worker, edits, mishaps, late, metaLate>>
    BY <1>4, <2>1 DEF DiagnosisArrives, Arrives
  <2>5. ReqMeans(q, cam[c], late[c], metaLate[c])
    BY <1>2, <2>3, <2>4 DEF ReqMeans, There
  <2> QED
    BY <1>1, <2>2, <2>3, <2>4, <2>5, RequestChanges
<1>5. CASE CheckArrives(r, c)
  <2>1. PICK q : q = [Idle EXCEPT !.pc = "checking", !.camera = c, !.url = cam[c].url,
                                  !.ptz = cam[c].ptz]
    OBVIOUS
  <2>2. q \in RequestType
    BY <1>1, <1>2, <2>1 DEF RequestType
  <2>3. q.pc = "checking" /\ q.camera = c /\ q.url = cam[c].url /\ q.ptz = cam[c].ptz
    BY <1>1, <2>1 DEF RequestType
  <2>4. req' = [req EXCEPT ![r] = q] /\ There(c)
        /\ UNCHANGED <<cam, worker, edits, mishaps, late, metaLate>>
    BY <1>5, <2>1 DEF CheckArrives, Arrives
  <2>5. ReqMeans(q, cam[c], late[c], metaLate[c])
    BY <1>2, <2>3, <2>4 DEF ReqMeans, There
  <2> QED
    BY <1>1, <2>2, <2>3, <2>4, <2>5, RequestChanges
<1> QED
  BY <1>3, <1>4, <1>5

LEMMA FailsKeeps ==
  ASSUME ProbingInv, NEW r \in Requests, Fails(r)
  PROVE  ProbingInv'
BY Records, RequestChanges DEF Fails

\* The worker reads, or dies.
LEMMA WorkerKeeps ==
  ASSUME ProbingInv, ReadBatch \/ WorkerRestarts
  PROVE  ProbingInv'
<1>1. /\ cam' = cam /\ req' = req /\ edits' = edits /\ late' = late /\ metaLate' = metaLate
  BY DEF ReadBatch, WorkerRestarts
<1>2. /\ RestOK'
      /\ \A c \in Cameras : worker'.url[c] # 0 => cam[c].life = "there" /\ worker'.url[c] = cam[c].url
  <2>1. Bounds /\ 0 \in Numbers /\ RestOK /\ cam \in [Cameras -> CameraType]
    BY Records DEF ProbingInv, Bounds, Numbers
  <2>2. CASE ReadBatch
    <3>1. PICK batch \in SUBSET Eligible :
            worker' = [pc |-> "probing",
                       url |-> [c \in Cameras |->
                                 IF c \in batch /\ cam[c].readable THEN cam[c].url ELSE 0]]
      BY <2>2 DEF ReadBatch
    <3>2. \A c \in batch : cam[c].life = "there"
      BY DEF Eligible, There
    <3>3. \A c \in Cameras : cam[c].url \in Numbers
      BY <2>1 DEF CameraType
    <3>4. worker' \in [pc: {"idle", "probing"}, url: [Cameras -> Numbers]]
      BY <2>1, <3>1, <3>3
    <3> QED
      BY <1>1, <2>1, <2>2, <3>1, <3>2, <3>4 DEF RestOK, ReadBatch
  <2>3. CASE WorkerRestarts
    <3>1. worker' = Resting /\ mishaps' = mishaps + 1 /\ mishaps < MaxMishaps
      BY <2>3 DEF WorkerRestarts
    <3> QED
      BY <1>1, <2>1, <3>1 DEF RestOK, Resting, Bounds
  <2> QED
    BY <2>2, <2>3
<1>3. \A c \in Cameras : RowOK(c)' /\ CamInv(c)'
  BY <1>1, <1>2 DEF ProbingInv, RowOK, CamInv
<1>4. \A r \in Requests : ReqOK(r)'
  BY <1>1 DEF ProbingInv, ReqOK, ReqInv
<1> QED
  BY <1>1, <1>2, <1>3, <1>4 DEF ProbingInv

\* Probes are written: of addresses that somebody still asked with.
LEMMA ProbesWritten ==
  ASSUME ProbingInv, NEW W \in SUBSET Cameras, NEW u,
         \A c \in W : /\ u[c] \in Numbers /\ u[c] # 0 /\ cam[c].life = "there"
                      /\ ~late[c] => u[c] = cam[c].url,
         cam' = [c \in Cameras |-> IF c \in W THEN Probed(cam[c], c, u[c]) ELSE cam[c]],
         edits' = edits, late' = late, metaLate' = metaLate, RestOK',
         \A c \in Cameras : worker'.url[c] = worker.url[c] \/ worker'.url[c] = 0,
         req' \in [Requests -> RequestType],
         \A q \in Requests : req'[q] = Met(W)[q] \/ req'[q] = Idle
  PROVE  ProbingInv'
<1>1. ASSUME NEW c \in Cameras
      PROVE  /\ cam'[c] \in CameraType /\ cam'[c].life = cam[c].life
             /\ cam'[c].url = cam[c].url /\ cam'[c].ptz = cam[c].ptz
             /\ cam'[c].meta = cam[c].meta /\ cam'[c].metaUrl = cam[c].metaUrl
             /\ c \notin W => cam'[c] = cam[c]
             /\ c \in W => cam'[c].shown = u[c]
  <2>1. cam[c] \in CameraType
    BY DEF ProbingInv
  <2>2. CASE c \in W
    <3>1. cam'[c] = Probed(cam[c], c, u[c]) /\ u[c] \in Numbers
      BY <2>2
    <3>2. PICK v \in Numbers : v = u[c]
      BY <3>1
    <3>3. cam'[c] = Probed(cam[c], c, v)
      BY <3>1, <3>2
    <3>4. PICK row \in CameraType : row = cam[c]
      BY <2>1
    <3>5. PICK new : new = Probed(row, c, v)
      OBVIOUS
    <3>6. /\ new \in CameraType /\ new.shown = v
          /\ new.life = row.life /\ new.url = row.url /\ new.ptz = row.ptz
          /\ new.meta = row.meta /\ new.metaUrl = row.metaUrl
      BY <3>5, ProbedRow
    <3> QED
      BY <2>2, <3>2, <3>3, <3>4, <3>5, <3>6
  <2>3. CASE c \notin W
    BY <2>1, <2>3
  <2> QED
    BY <2>2, <2>3
<1>2. cam' \in [Cameras -> CameraType]
  <2>1. ASSUME NEW c \in Cameras
        PROVE  (IF c \in W THEN Probed(cam[c], c, u[c]) ELSE cam[c]) \in CameraType
    <3>1. cam'[c] = IF c \in W THEN Probed(cam[c], c, u[c]) ELSE cam[c]
      OBVIOUS
    <3> QED
      BY <1>1, <3>1
  <2> QED
    BY <2>1
<1>3. ASSUME NEW c \in Cameras PROVE RowOK(c)' /\ CamInv(c)'
  <2>1. RowOK(c) /\ CamInv(c)
    BY DEF ProbingInv
  <2>2. RowOK(c)'
    BY <1>1, <2>1 DEF RowOK
  <2>3. /\ late'[c] = late[c] /\ metaLate'[c] = metaLate[c]
        /\ worker'.url[c] = worker.url[c] \/ worker'.url[c] = 0
    OBVIOUS
  <2>4. CASE c \in W
    <3>1. /\ u[c] # 0 /\ cam[c].life = "there" /\ (~late[c] => u[c] = cam[c].url)
          /\ cam'[c].shown = u[c]
      BY <1>1, <2>4
    <3> QED
      BY <1>1, <2>1, <2>2, <2>3, <3>1 DEF CamInv
  <2>5. CASE c \notin W
    BY <1>1, <2>1, <2>2, <2>3, <2>5 DEF CamInv
  <2> QED
    BY <2>4, <2>5
<1>4. ASSUME NEW q \in Requests PROVE ReqOK(q)'
  <2>1. CASE req'[q] = Idle
    BY <2>1, Records DEF ReqOK, ReqInv
  <2>2. CASE req'[q] = Met(W)[q] /\ req[q].pc = "idle"
    <3>1. req'[q].pc = req[q].pc /\ req'[q].camera = req[q].camera
      BY <2>2, MetRequests DEF ProbingInv
    <3> QED
      BY <2>2, <3>1 DEF ProbingInv, ReqOK, ReqInv
  <2>3. CASE req'[q] = Met(W)[q] /\ req[q].pc # "idle"
    <3>1. PICK k \in Cameras : k = req[q].camera
      BY <2>3, OfACamera
    <3>2. ReqMeans(req[q], cam[k], late[k], metaLate[k])
      BY <2>3, <3>1, OfACamera
    <3>3. /\ req'[q].pc = req[q].pc /\ req'[q].camera = k
          /\ req'[q].url = req[q].url /\ req'[q].ptz = req[q].ptz
          /\ req'[q].hadProbe = req[q].hadProbe /\ req'[q].hadMeta = req[q].hadMeta
          /\ req'[q].metaMet = req[q].metaMet
      BY <2>3, <3>1, MetRequests DEF ProbingInv
    <3>4. req'[q].met <=> (req[q].met \/ k \in W)
      BY <2>3, <3>1, MetRequests DEF ProbingInv
    <3>5. ReqMeans(req'[q], cam'[k], late[k], metaLate[k])
      BY <1>1, <3>2, <3>3, <3>4 DEF ReqMeans
    <3>6. k # 0
      BY InvParts
    <3> QED
      BY <2>3, <3>3, <3>5, <3>6 DEF ReqOK, ReqInv
  <2> QED
    BY <2>1, <2>2, <2>3
<1> QED
  BY <1>2, <1>3, <1>4 DEF ProbingInv

LEMMA BatchKeeps ==
  ASSUME ProbingInv, NEW crashed \in SUBSET Targets, CommitBatch(crashed)
  PROVE  ProbingInv'
<1> DEFINE W == Targets \ crashed
<1>1. /\ edits' = edits /\ late' = late /\ metaLate' = metaLate /\ worker' = Resting
      /\ mishaps' = mishaps + (IF crashed = {} THEN 0 ELSE 1) /\ mishaps' <= MaxMishaps
  BY DEF CommitBatch
<1>2. RestOK' /\ \A c \in Cameras : worker'.url[c] = 0
  <2>1. Bounds /\ 0 \in Numbers /\ RestOK
    BY Records DEF ProbingInv, Bounds, Numbers
  <2>2. worker' \in [pc: {"idle", "probing"}, url: [Cameras -> Numbers]]
    BY <1>1, <2>1 DEF Resting
  <2>3. mishaps' \in 0..MaxMishaps
    BY <1>1, <2>1 DEF RestOK, Bounds
  <2> QED
    BY <1>1, <2>1, <2>2, <2>3 DEF RestOK, Resting
<1>3. CASE \A c \in W : There(c)
  <2>1. WriteResults(W) /\ req' = Met(W)
    BY <1>3 DEF CommitBatch
  <2>2. W \in SUBSET Cameras /\ RestOK
    BY DEF Targets, ProbingInv
  <2>3. ASSUME NEW c \in W
        PROVE  /\ worker.url[c] \in Numbers /\ worker.url[c] # 0 /\ cam[c].life = "there"
               /\ ~late[c] => worker.url[c] = cam[c].url
    <3>1. c \in Cameras /\ worker.url[c] # 0 /\ cam[c].life = "there"
      BY <1>3 DEF Targets, There
    <3>2. CamInv(c) /\ worker.url[c] \in Numbers
      BY <2>2, <3>1 DEF ProbingInv, RestOK
    <3> QED
      BY <3>1, <3>2 DEF CamInv
  <2>4. PICK u : u = worker.url
    OBVIOUS
  <2>5. cam' = [c \in Cameras |-> IF c \in W THEN Probed(cam[c], c, u[c]) ELSE cam[c]]
    BY <2>1, <2>4 DEF WriteResults
  <2>6. req' \in [Requests -> RequestType]
    <3>1. \A q \in Requests : Met(W)[q] \in RequestType
      BY MetRequests DEF ProbingInv
    <3>2. Met(W) = [q \in Requests |-> Met(W)[q]]
      BY DEF Met
    <3> QED
      BY <2>1, <3>1, <3>2
  <2> HIDE DEF W
  <2> QED
    BY <1>1, <1>2, <2>1, <2>2, <2>3, <2>4, <2>5, <2>6, ProbesWritten
<1>4. CASE ~ \A c \in W : There(c)
  <2>1. cam' = cam /\ req' = req
    BY <1>4 DEF CommitBatch
  <2>2. \A c \in Cameras : RowOK(c)' /\ CamInv(c)'
    BY <1>1, <1>2, <2>1 DEF ProbingInv, RowOK, CamInv
  <2>3. \A r \in Requests : ReqOK(r)'
    BY <1>1, <2>1 DEF ProbingInv, ReqOK, ReqInv
  <2> QED
    BY <1>1, <1>2, <2>1, <2>2, <2>3 DEF ProbingInv
<1> QED
  BY <1>3, <1>4

LEMMA DiagnosisKeeps ==
  ASSUME ProbingInv, NEW r \in Requests, DiagnosisCommits(r)
  PROVE  ProbingInv'
<1>1. PICK k \in Cameras : k = req[r].camera
  BY OfACamera DEF DiagnosisCommits
<1>2. PICK u : u = [c \in Cameras |-> req[r].url]
  OBVIOUS
<1>3. /\ req[r].pc = "diagnosing" /\ cam[k].life = "there"
      /\ cam' = [cam EXCEPT ![k] = Probed(cam[k], k, req[r].url)]
      /\ req' = [Met({k}) EXCEPT ![r] = Idle]
      /\ worker' = worker /\ edits' = edits /\ mishaps' = mishaps
      /\ late' = late /\ metaLate' = metaLate
  BY <1>1 DEF DiagnosisCommits, There
<1>4. RestOK'
  BY <1>3 DEF ProbingInv, RestOK
<1>5. ReqMeans(req[r], cam[k], late[k], metaLate[k]) /\ req[r] \in RequestType
  BY <1>1, <1>3, OfACamera
<1>6. \A c \in {k} : /\ u[c] \in Numbers /\ u[c] # 0 /\ cam[c].life = "there"
                     /\ ~late[c] => u[c] = cam[c].url
  BY <1>2, <1>3, <1>5 DEF ReqMeans, RequestType
<1>7. cam' = [c \in Cameras |-> IF c \in {k} THEN Probed(cam[c], c, u[c]) ELSE cam[c]]
  BY <1>2, <1>3 DEF ProbingInv
<1>8. \A q \in Requests : Met({k})[q] \in RequestType
  BY MetRequests DEF ProbingInv
<1>9. Met({k}) = [q \in Requests |-> Met({k})[q]]
  BY DEF Met
<1>10. \A q \in Requests : req'[q] = IF q = r THEN Idle ELSE Met({k})[q]
  BY <1>3, <1>9
<1>11. req' = [q \in Requests |-> IF q = r THEN Idle ELSE Met({k})[q]]
  BY <1>3, <1>9
<1>12. req' \in [Requests -> RequestType]
  BY <1>8, <1>11, Records
<1> QED
  BY <1>1, <1>3, <1>4, <1>6, <1>7, <1>10, <1>12, ProbesWritten

LEMMA Wider ==
  ASSUME NEW m \in Nat, NEW n, n \in Nat, m <= n
  PROVE  \A x \in 1..(m + 1) : x \in 1..(n + 1)
OBVIOUS

\* One row changes, and every request keeps its meaning.
LEMMA RowChanges ==
  ASSUME ProbingInv, NEW k \in Cameras, NEW new \in CameraType,
         cam' = [cam EXCEPT ![k] = new], RowOK(k)', CamInv(k)',
         RestOK', worker' = worker, edits' >= edits,
         \A c \in Cameras \ {k} : late'[c] = late[c] /\ metaLate'[c] = metaLate[c],
         req' \in [Requests -> RequestType], \A r \in Requests : ReqOK(r)'
  PROVE  ProbingInv'
<1>1. cam' \in [Cameras -> CameraType] /\ RestOK /\ Bounds
  BY InvParts DEF ProbingInv
<1>2. ASSUME NEW c \in Cameras, c # k PROVE RowOK(c)' /\ CamInv(c)'
  <2>1. cam'[c] = cam[c] /\ RowOK(c) /\ CamInv(c)
    BY <1>2 DEF ProbingInv
  <2>2. late'[c] = late[c] /\ metaLate'[c] = metaLate[c]
    BY <1>2
  <2>3. edits \in Nat /\ edits' \in Nat
    BY <1>1 DEF RestOK, Bounds
  <2>4. PICK m \in Nat, n \in Nat : m = edits /\ n = edits' /\ m <= n
    BY <2>3
  <2>5. \A x \in 1..(m + 1) : x \in 1..(n + 1)
    BY <2>4, Wider
  <2>6. RowOK(c)'
    BY <2>1, <2>4, <2>5 DEF RowOK
  <2>7. CamInv(c)'
    BY <2>1, <2>2 DEF CamInv
  <2> QED
    BY <2>6, <2>7
<1> QED
  BY <1>1, <1>2 DEF ProbingInv

LEMMA RowsComeAndGo ==
  ASSUME ProbingInv, NEW k \in Cameras, Create(k) \/ Delete(k)
  PROVE  ProbingInv'
<1>1. PICK new \in {NewCamera, Gone} :
        /\ cam' = [cam EXCEPT ![k] = new]
        /\ new = NewCamera <=> cam[k].life = "new"
        /\ new = Gone <=> cam[k].life = "there"
  BY Records DEF Create, Delete, There
<1>2. /\ worker' = worker /\ req' = req /\ edits' = edits /\ mishaps' = mishaps
      /\ late' = late /\ metaLate' = metaLate
  BY DEF Create, Delete
<1>3. /\ new \in CameraType /\ new.url = 1 /\ new.ptz = 1 /\ ~new.probed /\ new.meta = 0
      /\ new.metaUrl = 0 /\ (new = NewCamera => new.life = "there")
      /\ (new = Gone => new.life = "gone")
  BY <1>1, Records
<1>4. cam'[k] = new /\ RestOK /\ CamInv(k) /\ Bounds
  BY <1>1, InvParts DEF ProbingInv
<1>5. RestOK' /\ 1 \in 1..(edits' + 1)
  BY <1>2, <1>4 DEF RestOK, Bounds
<1>6. RowOK(k)'
  BY <1>3, <1>4, <1>5 DEF RowOK
<1>7. CamInv(k)'
  <2>1. CASE new = NewCamera
    BY <1>1, <1>2, <1>3, <1>4, <2>1 DEF CamInv
  <2>2. CASE new = Gone
    BY <1>1, <1>2, <1>3, <1>4, <2>2 DEF CamInv
  <2> QED
    BY <1>1, <2>1, <2>2
<1>8. ASSUME NEW r \in Requests PROVE ReqOK(r)'
  <2>1. CASE req[r].pc = "idle" \/ req[r].camera # k
    BY <1>1, <1>2, <2>1 DEF ProbingInv, ReqOK, ReqInv
  <2>2. CASE req[r].pc # "idle" /\ req[r].camera = k
    <3>1. ReqMeans(req[r], cam[k], late[k], metaLate[k]) /\ k # 0
      BY <2>2, OfACamera, InvParts
    <3>2. new = Gone
      BY <1>1, <3>1 DEF ReqMeans
    <3>3. ReqMeans(req[r], new, late[k], metaLate[k])
      BY <1>3, <3>1, <3>2 DEF ReqMeans
    <3> QED
      BY <1>2, <1>4, <2>2, <3>1, <3>3 DEF ReqOK, ReqInv
  <2> QED
    BY <2>1, <2>2
<1>9. edits' >= edits /\ req' \in [Requests -> RequestType]
  BY <1>2, <1>4 DEF ProbingInv, RestOK
<1> QED
  BY <1>1, <1>2, <1>3, <1>5, <1>6, <1>7, <1>8, <1>9, RowChanges

\* What a commit of an identification does.
LEMMA CheckStep ==
  ASSUME ProbingInv, NEW r \in Requests, NEW settles \in BOOLEAN, CheckCommits(r, settles)
  PROVE  \E k \in Cameras, new \in CameraType :
           /\ req[r].pc = "checking" /\ k = req[r].camera /\ cam[k].life = "there"
           /\ ReqMeans(req[r], cam[k], late[k], metaLate[k])
           /\ cam' = [cam EXCEPT ![k] = new] /\ cam'[k] = new
           /\ edits' \in edits..MaxEdits
           /\ new.life = cam[k].life /\ new.url = cam[k].url /\ new.shown = cam[k].shown
           /\ new.probed = cam[k].probed /\ new.metaUrl = req[r].url
           /\ new.ptz \in 1..(edits' + 1)
           /\ new.meta = IF cam[k].ptz = req[r].ptz THEN new.ptz ELSE req[r].ptz
           /\ worker' = worker /\ mishaps' = mishaps /\ late' = late
           /\ metaLate' \in [Cameras -> BOOLEAN]
           /\ metaLate'[k] <=> (metaLate[k] \/ req[r].metaMet)
           /\ \A c \in Cameras \ {k} : metaLate'[c] = metaLate[c]
           /\ req' = [MetMeta(k) EXCEPT ![r] = Idle]
<1>1. PICK k \in Cameras : k = req[r].camera
  BY OfACamera DEF CheckCommits
<1>2. req[r].pc = "checking" /\ ReqMeans(req[r], cam[k], late[k], metaLate[k])
  BY <1>1, OfACamera DEF CheckCommits
<1>3. /\ cam[k] \in CameraType /\ req[r] \in RequestType /\ RestOK /\ Bounds /\ RowOK(k)
  BY InvParts DEF ProbingInv
<1>4. PICK p : p = Settled(cam[k], settles)
  OBVIOUS
<1>5. PICK m : m = MadeWith(cam[k], req[r].ptz, settles)
  OBVIOUS
<1>6. PICK late1 \in BOOLEAN : late1 = (metaLate[k] \/ req[r].metaMet)
  OBVIOUS
<1>7. /\ cam' = [cam EXCEPT ![k].ptz = p, ![k].meta = m, ![k].metaUrl = req[r].url]
      /\ cam[k].life = "there"
      /\ metaLate' = [metaLate EXCEPT ![k] = late1]
      /\ req' = [MetMeta(k) EXCEPT ![r] = Idle]
      /\ worker' = worker /\ mishaps' = mishaps /\ late' = late
      /\ edits' = edits + One(settles) /\ edits' <= MaxEdits
  <2>1. metaLate' = [metaLate EXCEPT ![k] = metaLate[k] \/ req[r].metaMet]
    BY <1>1 DEF CheckCommits
  <2> QED
    BY <1>1, <1>4, <1>5, <1>6, <2>1 DEF CheckCommits, There
<1>8. edits' \in edits..MaxEdits /\ (settles => edits' >= edits + 1)
  <2>1. PICK a \in {0, 1} : a = One(settles) /\ (settles => a = 1)
    BY DEF One
  <2>2. edits' = edits + a /\ edits \in Nat /\ MaxEdits \in Nat
    BY <1>3, <1>7, <2>1 DEF RestOK, Bounds
  <2> QED
    BY <1>7, <2>1, <2>2
<1>9. p \in 1..(edits' + 1) /\ p \in Numbers
  <2>1. cam[k].ptz \in 1..(edits + 1) /\ edits \in Nat /\ MaxEdits \in Nat
    BY <1>3 DEF RowOK, RestOK, Bounds
  <2>2. p = IF settles THEN cam[k].ptz + 1 ELSE cam[k].ptz
    BY <1>4 DEF Settled
  <2>3. PICK n \in Nat : n = edits' /\ edits <= n /\ n <= MaxEdits /\ (settles => n >= edits + 1)
    BY <1>8, <2>1
  <2>4. p \in 1..(n + 1)
    BY <2>1, <2>2, <2>3
  <2>5. PICK top \in Nat : top = MaxEdits /\ n <= top
    BY <2>1, <2>3
  <2>6. p \in 0..(top + 1)
    BY <2>4, <2>5
  <2>7. p \in Numbers
    BY <2>5, <2>6 DEF Numbers
  <2> QED
    BY <2>3, <2>4, <2>7
<1>10. m = IF cam[k].ptz = req[r].ptz THEN p ELSE req[r].ptz
  BY <1>4, <1>5 DEF MadeWith
<1>11. m \in Numbers /\ req[r].url \in Numbers
  BY <1>3, <1>9, <1>10 DEF RequestType
<1>12. PICK new : new = [cam[k] EXCEPT !.ptz = p, !.meta = m, !.metaUrl = req[r].url]
  OBVIOUS
<1>13. new \in CameraType
  BY <1>3, <1>9, <1>11, <1>12 DEF CameraType
<1>14. /\ new.ptz = p /\ new.meta = m /\ new.metaUrl = req[r].url
       /\ new.life = cam[k].life /\ new.url = cam[k].url /\ new.shown = cam[k].shown
       /\ new.probed = cam[k].probed
  BY <1>3, <1>12 DEF CameraType
<1>15. cam' = [cam EXCEPT ![k] = new] /\ cam'[k] = new
  BY <1>7, <1>12 DEF ProbingInv
<1>16. /\ metaLate' \in [Cameras -> BOOLEAN] /\ metaLate'[k] = late1
       /\ \A c \in Cameras \ {k} : metaLate'[c] = metaLate[c]
  BY <1>3, <1>7 DEF RestOK
<1>17. metaLate'[k] <=> (metaLate[k] \/ req[r].metaMet)
  BY <1>6, <1>16
<1>18. /\ new.ptz \in 1..(edits' + 1)
       /\ new.meta = IF cam[k].ptz = req[r].ptz THEN new.ptz ELSE req[r].ptz
  BY <1>9, <1>10, <1>14
<1> WITNESS k \in Cameras, new \in CameraType
<1> QED
  BY <1>1, <1>2, <1>7, <1>8, <1>14, <1>15, <1>16, <1>17, <1>18

LEMMA CheckKeeps ==
  ASSUME ProbingInv, NEW r \in Requests, NEW settles \in BOOLEAN, CheckCommits(r, settles)
  PROVE  ProbingInv'
<1>1. PICK k \in Cameras, new \in CameraType :
           /\ req[r].pc = "checking" /\ k = req[r].camera /\ cam[k].life = "there"
           /\ ReqMeans(req[r], cam[k], late[k], metaLate[k])
           /\ cam' = [cam EXCEPT ![k] = new] /\ cam'[k] = new
           /\ edits' \in edits..MaxEdits
           /\ new.life = cam[k].life /\ new.url = cam[k].url /\ new.shown = cam[k].shown
           /\ new.probed = cam[k].probed /\ new.metaUrl = req[r].url
           /\ new.ptz \in 1..(edits' + 1)
           /\ new.meta = IF cam[k].ptz = req[r].ptz THEN new.ptz ELSE req[r].ptz
           /\ worker' = worker /\ mishaps' = mishaps /\ late' = late
           /\ metaLate' \in [Cameras -> BOOLEAN]
           /\ metaLate'[k] <=> (metaLate[k] \/ req[r].metaMet)
           /\ \A c \in Cameras \ {k} : metaLate'[c] = metaLate[c]
           /\ req' = [MetMeta(k) EXCEPT ![r] = Idle]
  BY CheckStep
<1>2. RowOK(k) /\ CamInv(k) /\ RestOK /\ Bounds /\ req[r] \in RequestType
  BY InvParts DEF ProbingInv
<1>3. req[r].ptz # 0 /\ req[r].url # 0 /\ (~metaLate'[k] => req[r].ptz = cam[k].ptz)
  BY <1>1 DEF ReqMeans
<1>4. RestOK' /\ edits' >= edits
  BY <1>1, <1>2 DEF RestOK, Bounds
<1>5. RowOK(k)'
  <2>1. cam[k].url \in 1..(edits + 1) /\ edits \in Nat
    BY <1>2 DEF RowOK, RestOK, Bounds
  <2>2. new.url \in 1..(edits' + 1) /\ new.ptz # 0
    BY <1>1, <1>2, <2>1 DEF Bounds
  <2>3. new.meta # 0 /\ new.metaUrl # 0
    BY <1>1, <1>3, <2>2
  <2> QED
    BY <1>1, <1>2, <2>2, <2>3 DEF RowOK
<1>6. CamInv(k)'
  BY <1>1, <1>2, <1>3 DEF CamInv
<1>7. /\ req' \in [Requests -> RequestType]
      /\ \A q \in Requests : req'[q] = IF q = r THEN Idle ELSE MetMeta(k)[q]
  <2>1. MetMeta(k) = [q \in Requests |-> MetMeta(k)[q]]
    BY DEF MetMeta
  <2>2. \A q \in Requests : MetMeta(k)[q] \in RequestType
    BY MetaMetRequests DEF ProbingInv
  <2>3. req' = [q \in Requests |-> IF q = r THEN Idle ELSE MetMeta(k)[q]]
    BY <1>1, <2>1
  <2> QED
    BY <2>2, <2>3, Records
<1>8. ASSUME NEW q \in Requests PROVE ReqOK(q)'
  <2>1. CASE q = r
    BY <1>7, <2>1, Records DEF ReqOK, ReqInv
  <2>2. CASE q # r /\ req[q].pc = "idle"
    <3>1. req'[q].pc = req[q].pc /\ req'[q].camera = req[q].camera
      BY <1>7, <2>2, MetaMetRequests DEF ProbingInv
    <3> QED
      BY <2>2, <3>1 DEF ProbingInv, ReqOK, ReqInv
  <2>3. CASE q # r /\ req[q].pc # "idle"
    <3>1. PICK c \in Cameras : c = req[q].camera
      BY <2>3, OfACamera
    <3>2. ReqMeans(req[q], cam[c], late[c], metaLate[c]) /\ c # 0
      BY <2>3, <3>1, OfACamera, InvParts
    <3>3. /\ req'[q].pc = req[q].pc /\ req'[q].camera = c
          /\ req'[q].url = req[q].url /\ req'[q].ptz = req[q].ptz
          /\ req'[q].hadProbe = req[q].hadProbe /\ req'[q].hadMeta = req[q].hadMeta
          /\ req'[q].met = req[q].met
      BY <1>7, <2>3, <3>1, MetaMetRequests DEF ProbingInv
    <3>4. req'[q].metaMet <=> (req[q].metaMet \/ c = k)
      BY <1>7, <2>3, <3>1, MetaMetRequests DEF ProbingInv
    <3>5. /\ cam'[c].life = cam[c].life /\ cam'[c].url = cam[c].url
          /\ cam'[c].probed = cam[c].probed
          /\ c # k => /\ cam'[c].meta = cam[c].meta /\ cam'[c].ptz = cam[c].ptz
                      /\ metaLate'[c] = metaLate[c]
      BY <1>1 DEF ProbingInv
    <3>6. ReqMeans(req'[q], cam'[c], late[c], metaLate'[c])
      BY <3>2, <3>3, <3>4, <3>5 DEF ReqMeans
    <3> QED
      BY <1>1, <2>3, <3>2, <3>3, <3>6 DEF ReqOK, ReqInv
  <2> QED
    BY <2>1, <2>2, <2>3
<1> QED
  BY <1>1, <1>4, <1>5, <1>6, <1>7, <1>8, RowChanges

\* What a commit of an edit does, in one place.
LEMMA EditStep ==
  ASSUME ProbingInv, NEW r \in Requests, NEW newUrl \in BOOLEAN, NEW newPtz \in BOOLEAN,
         NEW on \in BOOLEAN, EditCommits(r, newUrl, newPtz, on)
  PROVE  \E k \in Cameras, new \in CameraType :
           /\ req[r].pc = "editing" /\ k = req[r].camera /\ cam[k].life = "there"
           /\ ReqMeans(req[r], cam[k], late[k], metaLate[k])
           /\ cam' = [cam EXCEPT ![k] = new] /\ cam'[k] = new
           /\ new = Edited(cam[k], req[r], newUrl, newPtz, on)
           /\ edits' \in edits..MaxEdits /\ (newUrl \/ newPtz => edits' >= edits + 1)
           /\ new.life = cam[k].life /\ new.shown = cam[k].shown
           /\ new.url = IF newUrl THEN cam[k].url + 1 ELSE cam[k].url
           /\ new.ptz = IF newPtz THEN cam[k].ptz + 1 ELSE cam[k].ptz
           /\ new.meta = IF newPtz /\ req[r].hadMeta THEN 0 ELSE cam[k].meta
           /\ new.metaUrl = IF newPtz /\ req[r].hadMeta THEN 0 ELSE cam[k].metaUrl
           /\ worker' = worker /\ mishaps' = mishaps
           /\ req' = [req EXCEPT ![r] = Idle]
<1>1. PICK k \in Cameras : k = req[r].camera
  BY OfACamera DEF EditCommits
<1>2. req[r].pc = "editing" /\ ReqMeans(req[r], cam[k], late[k], metaLate[k])
  BY <1>1, OfACamera DEF EditCommits
<1>3. /\ cam[k] \in CameraType /\ req[r] \in RequestType /\ RestOK /\ Bounds /\ RowOK(k)
  BY InvParts DEF ProbingInv
<1>4. PICK new : new = Edited(cam[k], req[r], newUrl, newPtz, on)
  OBVIOUS
<1>5. /\ cam' = [cam EXCEPT ![k] = new] /\ cam[k].life = "there"
      /\ req' = [req EXCEPT ![r] = Idle] /\ worker' = worker /\ mishaps' = mishaps
      /\ edits' = edits + One(newUrl) + One(newPtz) + One(on # cam[k].enabled)
      /\ edits' <= MaxEdits
  BY <1>1, <1>4 DEF EditCommits, Edited, There
<1>6. edits' \in edits..MaxEdits /\ (newUrl \/ newPtz => edits' >= edits + 1)
  <2>1. PICK a \in {0, 1} : a = One(newUrl) /\ (newUrl => a = 1)
    BY DEF One
  <2>2. PICK b \in {0, 1} : b = One(newPtz) /\ (newPtz => b = 1)
    BY DEF One
  <2>3. PICK d \in {0, 1} : d = One(on # cam[k].enabled)
    BY DEF One
  <2>4. edits' = edits + a + b + d /\ edits \in Nat /\ MaxEdits \in Nat
    BY <1>3, <1>5, <2>1, <2>2, <2>3 DEF RestOK, Bounds
  <2> QED
    BY <1>5, <2>1, <2>2, <2>3, <2>4
<1>7. (newUrl => cam[k].url + 1 \in Numbers) /\ (newPtz => cam[k].ptz + 1 \in Numbers)
  <2>1. cam[k].url \in 1..(edits + 1) /\ cam[k].ptz \in 1..(edits + 1) /\ edits \in Nat
        /\ MaxEdits \in Nat
    BY <1>3 DEF RowOK, RestOK, Bounds
  <2> QED
    BY <1>6, <2>1 DEF Numbers
<1>8. /\ new \in CameraType /\ new.life = cam[k].life /\ new.shown = cam[k].shown
      /\ new.url = IF newUrl THEN cam[k].url + 1 ELSE cam[k].url
      /\ new.ptz = IF newPtz THEN cam[k].ptz + 1 ELSE cam[k].ptz
      /\ new.meta = IF newPtz /\ req[r].hadMeta THEN 0 ELSE cam[k].meta
      /\ new.metaUrl = IF newPtz /\ req[r].hadMeta THEN 0 ELSE cam[k].metaUrl
  BY <1>3, <1>4, <1>7, EditedRow
<1>9. cam'[k] = new
  BY <1>5 DEF ProbingInv
<1> QED
  BY <1>1, <1>2, <1>4, <1>5, <1>6, <1>8, <1>9

\* An edit that was met by nobody who asks leaves nothing of the old value.
LEMMA EditNotes ==
  ASSUME ProbingInv, NEW r \in Requests, NEW newUrl \in BOOLEAN, NEW newPtz \in BOOLEAN,
         NEW on \in BOOLEAN, EditCommits(r, newUrl, newPtz, on),
         NEW k \in Cameras, k = req[r].camera
  PROVE  /\ late' \in [Cameras -> BOOLEAN] /\ metaLate' \in [Cameras -> BOOLEAN]
         /\ \A c \in Cameras \ {k} : late'[c] = late[c] /\ metaLate'[c] = metaLate[c]
         /\ ~newUrl => late'[k] = late[k]
         /\ ~newPtz => metaLate'[k] = metaLate[k]
         /\ newUrl /\ ~late'[k] => /\ ~req[r].met /\ worker.url[k] = 0
                                   /\ \A q \in Requests : ~Doing(q, k, "diagnosing")
         /\ newPtz /\ ~metaLate'[k] => /\ ~req[r].metaMet
                                       /\ \A q \in Requests : ~Doing(q, k, "checking")
<1>1. late \in [Cameras -> BOOLEAN] /\ metaLate \in [Cameras -> BOOLEAN]
  BY DEF ProbingInv, RestOK
<1>2. PICK m \in BOOLEAN : m = (req[r].met \/ ProbeUnderWay(k))
  OBVIOUS
<1>3. PICK n \in BOOLEAN : n = (req[r].metaMet \/ CheckUnderWay(k))
  OBVIOUS
<1>4. /\ late' = IF newUrl THEN [late EXCEPT ![k] = m] ELSE late
      /\ metaLate' = IF newPtz THEN [metaLate EXCEPT ![k] = n] ELSE metaLate
  BY <1>2, <1>3 DEF EditCommits
<1>5. ~m => /\ ~req[r].met /\ worker.url[k] = 0
            /\ \A q \in Requests : ~Doing(q, k, "diagnosing")
  BY <1>2 DEF ProbeUnderWay
<1>6. ~n => ~req[r].metaMet /\ \A q \in Requests : ~Doing(q, k, "checking")
  BY <1>3 DEF CheckUnderWay
<1>7. late' \in [Cameras -> BOOLEAN] /\ metaLate' \in [Cameras -> BOOLEAN]
  BY <1>1, <1>4
<1>8. \A c \in Cameras \ {k} : late'[c] = late[c] /\ metaLate'[c] = metaLate[c]
  BY <1>1, <1>4
<1>9. (newUrl => late'[k] = m) /\ (newPtz => metaLate'[k] = n)
  BY <1>1, <1>4
<1> QED
  BY <1>4, <1>5, <1>6, <1>7, <1>8, <1>9

LEMMA EditKeeps ==
  ASSUME ProbingInv, NEW r \in Requests, NEW newUrl \in BOOLEAN, NEW newPtz \in BOOLEAN,
         NEW on \in BOOLEAN, EditCommits(r, newUrl, newPtz, on)
  PROVE  ProbingInv'
<1>1. PICK k \in Cameras, new \in CameraType :
           /\ req[r].pc = "editing" /\ k = req[r].camera /\ cam[k].life = "there"
           /\ ReqMeans(req[r], cam[k], late[k], metaLate[k])
           /\ cam' = [cam EXCEPT ![k] = new] /\ cam'[k] = new
           /\ new = Edited(cam[k], req[r], newUrl, newPtz, on)
           /\ edits' \in edits..MaxEdits /\ (newUrl \/ newPtz => edits' >= edits + 1)
           /\ new.life = cam[k].life /\ new.shown = cam[k].shown
           /\ new.url = IF newUrl THEN cam[k].url + 1 ELSE cam[k].url
           /\ new.ptz = IF newPtz THEN cam[k].ptz + 1 ELSE cam[k].ptz
           /\ new.meta = IF newPtz /\ req[r].hadMeta THEN 0 ELSE cam[k].meta
           /\ new.metaUrl = IF newPtz /\ req[r].hadMeta THEN 0 ELSE cam[k].metaUrl
           /\ worker' = worker /\ mishaps' = mishaps
           /\ req' = [req EXCEPT ![r] = Idle]
  BY EditStep
<1>2. /\ cam[k] \in CameraType /\ req[r] \in RequestType /\ RestOK /\ Bounds
      /\ RowOK(k) /\ CamInv(k)
  BY InvParts DEF ProbingInv
<1>3. /\ late' \in [Cameras -> BOOLEAN] /\ metaLate' \in [Cameras -> BOOLEAN]
      /\ \A c \in Cameras \ {k} : late'[c] = late[c] /\ metaLate'[c] = metaLate[c]
      /\ ~newUrl => late'[k] = late[k]
      /\ ~newPtz => metaLate'[k] = metaLate[k]
      /\ newUrl /\ ~late'[k] => /\ ~req[r].met /\ worker.url[k] = 0
                                /\ \A q \in Requests : ~Doing(q, k, "diagnosing")
      /\ newPtz /\ ~metaLate'[k] => /\ ~req[r].metaMet
                                    /\ \A q \in Requests : ~Doing(q, k, "checking")
  BY <1>1, EditNotes
<1>4. new.probed <=> (cam[k].probed /\ (newUrl => ~req[r].hadProbe))
  <2>1. /\ cam[k].url \in 1..(edits + 1) /\ cam[k].ptz \in 1..(edits + 1) /\ edits \in Nat
        /\ MaxEdits \in Nat
    BY <1>2 DEF RowOK, RestOK, Bounds
  <2>2. (newUrl => cam[k].url + 1 \in Numbers) /\ (newPtz => cam[k].ptz + 1 \in Numbers)
    BY <1>1, <2>1 DEF Numbers
  <2> QED
    BY <1>1, <1>2, <2>2, EditedRow
<1>5. RestOK' /\ edits' >= edits
  BY <1>1, <1>2, <1>3 DEF RestOK, Bounds
<1>6. RowOK(k)'
  <2>1. /\ cam[k].url \in 1..(edits + 1) /\ cam[k].ptz \in 1..(edits + 1) /\ edits \in Nat
    BY <1>2 DEF RowOK, RestOK, Bounds
  <2>2. new.url \in 1..(edits' + 1) /\ new.ptz \in 1..(edits' + 1)
    BY <1>1, <1>2, <2>1 DEF Bounds
  <2> QED
    BY <1>1, <1>2, <1>4, <2>2 DEF RowOK
<1>7. CamInv(k)'
  <2>1. /\ ~late'[k] => /\ new.probed => new.shown = new.url
                        /\ worker.url[k] # 0 => worker.url[k] = new.url
    <3>1. CASE newUrl
      BY <1>1, <1>3, <1>4, <3>1 DEF ReqMeans
    <3>2. CASE ~newUrl
      BY <1>1, <1>2, <1>3, <1>4, <3>2 DEF CamInv
    <3> QED
      BY <3>1, <3>2
  <2>2. ~metaLate'[k] => (new.meta # 0 => new.meta = new.ptz)
    <3>1. CASE newPtz
      BY <1>1, <1>3, <3>1 DEF ReqMeans
    <3>2. CASE ~newPtz
      BY <1>1, <1>2, <1>3, <3>2 DEF CamInv
    <3> QED
      BY <3>1, <3>2
  <2> QED
    BY <1>1, <2>1, <2>2 DEF CamInv
<1>8. /\ req' \in [Requests -> RequestType]
      /\ \A q \in Requests : req'[q] = IF q = r THEN Idle ELSE req[q]
  BY <1>1, Records DEF ProbingInv
<1>9. ASSUME NEW q \in Requests PROVE ReqOK(q)'
  <2>1. CASE q = r
    BY <1>8, <2>1, Records DEF ReqOK, ReqInv
  <2>2. CASE q # r /\ req[q].pc = "idle"
    BY <1>8, <2>2 DEF ProbingInv, ReqOK, ReqInv
  <2>3. CASE q # r /\ req[q].pc # "idle"
    <3>1. PICK c \in Cameras : c = req[q].camera
      BY <2>3, OfACamera
    <3>2. ReqMeans(req[q], cam[c], late[c], metaLate[c]) /\ c # 0
      BY <2>3, <3>1, OfACamera, InvParts
    <3>3. ReqMeans(req[q], cam'[c], late'[c], metaLate'[c])
      <4>1. CASE c # k
        <5>1. cam'[c] = cam[c] /\ late'[c] = late[c] /\ metaLate'[c] = metaLate[c]
          BY <1>1, <1>3, <4>1 DEF ProbingInv
        <5> QED
          BY <3>2, <5>1
      <4>2. CASE c = k
        <5>1. req[q].pc = "diagnosing" /\ ~late'[k] => ~newUrl
          BY <1>3, <3>1, <4>2 DEF Doing
        <5>2. req[q].pc = "checking" /\ ~metaLate'[k] => ~newPtz
          BY <1>3, <3>1, <4>2 DEF Doing
        <5>3. req[q].pc = "diagnosing" /\ ~late'[k] => req[q].url = new.url
          BY <1>1, <1>3, <3>2, <4>2, <5>1 DEF ReqMeans
        <5>4. req[q].pc = "checking" /\ ~metaLate'[k] /\ ~req[q].metaMet
                => req[q].ptz = new.ptz
          BY <1>1, <1>3, <3>2, <4>2, <5>2 DEF ReqMeans
        <5>5. (new.probed => cam[k].probed) /\ (new.meta # 0 => cam[k].meta # 0)
          BY <1>1, <1>4
        <5> QED
          BY <1>1, <3>2, <4>2, <5>3, <5>4, <5>5 DEF ReqMeans
      <4> QED
        BY <4>1, <4>2
    <3> QED
      BY <1>8, <2>3, <3>1, <3>2, <3>3 DEF ReqOK, ReqInv
  <2> QED
    BY <2>1, <2>2, <2>3
<1> QED
  BY <1>1, <1>3, <1>5, <1>6, <1>7, <1>8, <1>9, RowChanges

-------------------------------------------------------------------------------
(* The theorem.                                                             *)

LEMMA InitHolds == Init => ProbingInv
<1> SUFFICES ASSUME Init PROVE ProbingInv
  OBVIOUS
<1>1. Bounds /\ 0 \in Numbers /\ 1 \in Numbers /\ Idle.pc = "idle" /\ Idle.camera = 0
      /\ Idle \in RequestType
  BY Records DEF Bounds, Numbers
<1>2. PICK lost : lost = [NewCamera EXCEPT !.readable = FALSE]
  OBVIOUS
<1>3. lost \in CameraType /\ lost.life = "there" /\ lost.url = 1 /\ lost.ptz = 1
      /\ lost.probed = FALSE /\ lost.meta = 0 /\ lost.metaUrl = 0
  BY <1>2, Records DEF CameraType
<1>4. cam = [c \in Cameras |-> IF c \in Lost THEN lost ELSE Nowhere] /\ edits = 0
      /\ worker = Resting /\ req = [r \in Requests |-> Idle] /\ mishaps = 0
      /\ late = [c \in Cameras |-> FALSE] /\ metaLate = [c \in Cameras |-> FALSE]
  BY <1>2 DEF Init
<1>5. ASSUME NEW c \in Cameras
      PROVE  /\ cam[c] \in CameraType /\ cam[c].url = 1 /\ cam[c].ptz = 1
             /\ ~cam[c].probed /\ cam[c].meta = 0 /\ cam[c].metaUrl = 0
             /\ worker.url[c] = 0
  BY <1>3, <1>4, Records DEF Resting
<1>6. \A c \in Cameras : RowOK(c) /\ CamInv(c)
  BY <1>4, <1>5 DEF RowOK, CamInv
<1>7. cam \in [Cameras -> CameraType]
  BY <1>3, <1>4, Records
<1>8. req \in [Requests -> RequestType] /\ \A r \in Requests : ReqOK(r)
  BY <1>1, <1>4 DEF ReqOK, ReqInv
<1>9. RestOK
  BY <1>1, <1>4 DEF RestOK, Resting, Bounds
<1> QED
  BY <1>6, <1>7, <1>8, <1>9 DEF ProbingInv

LEMMA NextKeeps == ProbingInv /\ [Next]_vars => ProbingInv'
<1> SUFFICES ASSUME ProbingInv, [Next]_vars PROVE ProbingInv'
  OBVIOUS
<1>1. CASE ReadBatch \/ WorkerRestarts
  BY <1>1, WorkerKeeps
<1>2. ASSUME NEW crashed \in SUBSET Targets, CommitBatch(crashed) PROVE ProbingInv'
  BY <1>2, BatchKeeps
<1>3. ASSUME NEW c \in Cameras, Create(c) \/ Delete(c) PROVE ProbingInv'
  BY <1>3, RowsComeAndGo
<1>4. ASSUME NEW r \in Requests, NEW c \in Cameras,
             EditArrives(r, c) \/ DiagnosisArrives(r, c) \/ CheckArrives(r, c)
      PROVE  ProbingInv'
  BY <1>4, ArrivalsKeep
<1>5. ASSUME NEW r \in Requests, NEW newUrl \in BOOLEAN, NEW newPtz \in BOOLEAN,
             NEW on \in BOOLEAN, EditCommits(r, newUrl, newPtz, on)
      PROVE  ProbingInv'
  BY <1>5, EditKeeps
<1>6. ASSUME NEW r \in Requests, DiagnosisCommits(r) PROVE ProbingInv'
  BY <1>6, DiagnosisKeeps
<1>7. ASSUME NEW r \in Requests, NEW settles \in BOOLEAN, CheckCommits(r, settles)
      PROVE  ProbingInv'
  BY <1>7, CheckKeeps
<1>8. ASSUME NEW r \in Requests, Fails(r) PROVE ProbingInv'
  BY <1>8, FailsKeeps
<1>9. CASE UNCHANGED vars
  <2>1. /\ cam' = cam /\ worker' = worker /\ req' = req /\ edits' = edits
        /\ mishaps' = mishaps /\ late' = late /\ metaLate' = metaLate
    BY <1>9 DEF vars
  <2> QED
    BY <2>1 DEF ProbingInv, RowOK, CamInv, ReqOK, ReqInv, RestOK
<1> QED
  BY <1>1, <1>2, <1>3, <1>4, <1>5, <1>6, <1>7, <1>8, <1>9
  DEF Next, WorkerStep, RequestStep

\* Whatever overlaps, the invariant stands.
LEMMA Holds == Spec => []ProbingInv
BY InitHolds, NextKeeps, PTL DEF Spec

\* Every reachable state is well typed; what counts as probed has a probe, and an
\* identification is stored whole or not at all (models.py:261-340).
THEOREM Types == Spec => []TypeOK
<1>1. ProbingInv => TypeOK
  BY InvParts
<1> QED
  BY <1>1, Holds, PTL

\* The probe of a camera is of the address it has now, unless the last edit of the
\* address overlapped a probe, of the worker or of a diagnosis (panel_views.py:361,
\* worker.py:93-162): for any number of cameras, requests and edits.
THEOREM ProbesAreOfToday == Spec => []ProbeOfItsUrl
<1>1. ProbingInv => ProbeOfItsUrl
  BY InvParts
<1> QED
  BY <1>1, Holds, PTL

\* The same of the identification for PTZ and the settings, the driver it has found among
\* them (panel_views.py:616-700), unless two identifications overlapped.
THEOREM MetaIsOfToday == Spec => []MetaOfItsSettings
<1>1. ProbingInv => MetaOfItsSettings
  BY InvParts
<1> QED
  BY <1>1, Holds, PTL

===============================================================================
