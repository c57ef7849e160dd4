------------------------------- MODULE Diagnosis -------------------------------
(***************************************************************************)
(* The report of the "check" button and the path of one camera in MediaMTX. *)
(*                                                                         *)
(* A diagnosis goes from the name of the host to the playlist for the       *)
(* browser and stops at the first thing that makes the rest pointless; on   *)
(* its way it may write the path.  The panel's edits and the worker write   *)
(* the same path.  What only the network or the camera decides is chosen    *)
(* anew at every step; the stream the camera has to give is chosen once.    *)
(***************************************************************************)
EXTENDS Integers

CONSTANTS
    Videos,    \* codecs the camera may send its picture in
    Audios,    \* codecs of its sound, "none" among them
    MaxChanges \* bound: edits of the camera

ASSUME DiagnosisAssumption ==
    /\ Videos \subseteq {"h264", "vp8", "vp9", "av1", "hevc", "h265", "mjpeg", "mpeg4"}
    /\ Audios \subseteq {"none", "opus", "g722", "pcm_mulaw", "pcm_alaw", "aac", "mp2"}
    /\ MaxChanges \in Nat

VARIABLES
    stream,   \* what the camera gives: over which transport, in which codecs, how strictly
    cam,      \* the camera's row
    changes,  \* edits of the camera so far
    pushing,  \* the rows an edit still has to push to MediaMTX
    path,     \* the configuration of the path in MediaMTX, NoConf if there is none
    needless, \* a configuration was replaced by one that means the same (history)
    diag      \* the diagnosis

diagnosisVars == <<stream, cam, changes, pushing, path, needless, diag>>

-------------------------------------------------------------------------------
(* The configuration of a path.                                             *)

NoConf   == [source |-> "none"]
OnOff(b) == IF b THEN "true" ELSE "false"

BuildPathConf(c) ==
    IF c.transcode
    THEN [source |-> "publisher", runOnDemand |-> OnOff(c.audio),
          runOnDemandStartTimeout |-> "15s", runOnDemandCloseAfter |-> "60s"]
    ELSE [source |-> "camera", sourceOnDemand |-> OnOff(c.onDemand),
          sourceOnDemandStartTimeout |-> "10s", sourceOnDemandCloseAfter |-> "60s"]

\* The durations that occur, in seconds: MediaMTX answers "1m0s" for "60s".
DurationSeconds ==
    [d \in {"10s", "15s", "60s", "1m0s"} |->
        CASE d = "10s" -> 10 [] d = "15s" -> 15 [] d \in {"60s", "1m0s"} -> 60]
Normalized(value) == IF value = "60s" THEN "1m0s" ELSE value
Stored(conf) == [k \in DOMAIN conf |-> Normalized(conf[k])]

\* A mutant: values are compared as they are written.
SameValueLiteral(current, wanted) == current = wanted

SameValue(current, wanted) ==
    \/ current = wanted
    \/ /\ current \in DOMAIN DurationSeconds /\ wanted \in DOMAIN DurationSeconds
       /\ DurationSeconds[current] = DurationSeconds[wanted]

\* Keys that are not wanted are not compared.
ConfDiff(current, wanted) ==
    {k \in DOMAIN wanted :
        ~SameValue(IF k \in DOMAIN current THEN current[k] ELSE "default", wanted[k])}

\* Whether a row has a path, and what MediaMTX holds for it.
Follows(c) == IF c.enabled THEN path = Stored(BuildPathConf(c)) ELSE path = NoConf

\* MediaMTX pulls a camera over TCP and goes by the letter of its SDP; ffmpeg, which it
\* runs for a path that is published, pulls over TCP too and does not.
Pullable(conf) ==
    /\ conf # NoConf
    /\ stream.transport = "tcp"
    /\ conf.source = "camera" => stream.strict

-------------------------------------------------------------------------------
(* What a codec is good for.                                                *)

WebrtcVideo   == {"h264", "vp8", "vp9", "av1"}
WebrtcVideoHw == {"h265", "hevc"}
Hevc          == {"h265", "hevc"}
HlsVideo      == {"h264", "h265", "hevc"}
WebrtcAudio   == {"opus", "g722", "pcm_mulaw", "pcm_alaw"}

\* _interpret: what the probe recommends.
Recommended(video) ==
    IF video \in WebrtcVideo \cup WebrtcVideoHw THEN "passthrough" ELSE "transcode"

Steps == {"url", "enabled", "dns", "tcp", "rtsp", "codecs", "frame", "webrtc", "hls",
          "audio", "mtxconf", "stream", "delivery", "whepsrv"}

\* The steps a report may lack are "none".
BrowserCompat(c) ==
    [webrtc |-> IF c.transcode \/ stream.video \in WebrtcVideo THEN "ok"
                ELSE IF stream.video \in Hevc THEN "warn" ELSE "fail",
     hls    |-> IF c.transcode \/ stream.video \in HlsVideo \ Hevc THEN "ok"
                ELSE IF stream.video \in Hevc THEN "warn" ELSE "fail",
     audio  |-> IF c.transcode \/ ~c.audio \/ stream.audio = "none" THEN "none"
                ELSE IF stream.audio \in WebrtcAudio THEN "ok" ELSE "warn"]

Failed(report)   == {k \in Steps : report[k] = "fail"}
Warned(report)   == {k \in Steps : report[k] = "warn"}

\* What the report tells the operator to do.
Summary(report, c) ==
    IF Failed(report) = {} THEN IF Warned(report) = {} THEN "fine" ELSE "remarks"
    ELSE IF {"dns", "tcp"} \cap Failed(report) # {} THEN "network"
    ELSE IF "rtsp" \in Failed(report) THEN "camera"
    ELSE IF "webrtc" \in Failed(report) /\ ~c.transcode THEN "transcode: codec"
    ELSE IF "stream" \in Failed(report) /\ ~c.transcode THEN "transcode: server"
    ELSE "list"

-------------------------------------------------------------------------------
Blank == [k \in Steps |-> "none"]
CameraType == [transcode: BOOLEAN, enabled: BOOLEAN, onDemand: BOOLEAN, audio: BOOLEAN]
\* What the form describes before it is saved.
Drafts == {c \in CameraType : c.enabled /\ c.onDemand}
NoDiag == [pc |-> "idle", preview |-> FALSE, cam |-> CHOOSE c \in Drafts : TRUE, report |-> Blank,
           verdict |-> "none", item |-> "none", playlist |-> FALSE]

DiagnosisInit ==
    /\ stream \in [transport: {"tcp", "udp", "no"}, video: Videos, audio: Audios,
                   strict: BOOLEAN]
    /\ cam \in [transcode: {FALSE}, enabled: {TRUE}, onDemand: BOOLEAN, audio: BOOLEAN]
    /\ changes = 0
    /\ pushing = {}
    /\ path = NoConf
    /\ needless = FALSE
    /\ diag = NoDiag

\* The reconciler and the diagnosis replace a path that differs.
Replaces(conf) ==
    /\ needless' = (needless \/ path = Stored(conf))
    /\ path' = Stored(conf)

-------------------------------------------------------------------------------
(* The panel's edits and the worker.                                        *)

\* The form, or the button of the report that changes only the profile.
Change(c, button) ==
    /\ changes < MaxChanges
    /\ c # cam
    /\ button => c = [cam EXCEPT !.transcode = ~@]
    /\ changes' = changes + 1
    /\ cam' = c
    /\ pushing' = pushing \cup {[row |-> c, button |-> button]}
    /\ UNCHANGED <<stream, path, needless, diag>>

\* The form drops the path of a camera that is off; the button pushes whatever it finds.
PushRow(p) ==
    /\ p \in pushing
    /\ pushing' = pushing \ {p}
    /\ \/ path' = IF p.row.enabled \/ p.button THEN Stored(BuildPathConf(p.row)) ELSE NoConf
       \/ path' = path
    /\ UNCHANGED <<stream, cam, changes, needless, diag>>

\* A mutant: only paths are added and replaced.
ReconcileAdds ==
    /\ cam.enabled
    /\ ConfDiff(path, BuildPathConf(cam)) # {}
    /\ Replaces(BuildPathConf(cam))
    /\ UNCHANGED <<stream, cam, changes, pushing, diag>>

\* One cycle of the worker, here in one piece (Reconciler takes it apart).
Reconcile ==
    /\ IF cam.enabled
       THEN ConfDiff(path, BuildPathConf(cam)) # {} /\ Replaces(BuildPathConf(cam))
       ELSE path # NoConf /\ path' = NoConf /\ UNCHANGED needless
    /\ UNCHANGED <<stream, cam, changes, pushing, diag>>

-------------------------------------------------------------------------------
(* The diagnosis.                                                           *)

Report(k, state) == [diag.report EXCEPT ![k] = state]

\* The report ends here.
Ends(report) ==
    diag' = [diag EXCEPT !.pc = "idle", !.report = report, !.item = "none",
                         !.playlist = FALSE, !.verdict = Summary(report, diag.cam)]

Continues(report, pc) == diag' = [diag EXCEPT !.pc = pc, !.report = report]

Elsewhere == UNCHANGED <<stream, cam, changes, pushing, path, needless>>

\* A preview has no row and no path; a diagnosis has read its row.
DiagnosisBegins(c, preview, hasPath) ==
    /\ diag.pc = "idle"
    /\ IF preview THEN c \in Drafts ELSE c = cam
    /\ diag' = [NoDiag EXCEPT !.pc = "dns", !.preview = preview, !.cam = c,
                    !.report = [Blank EXCEPT !["url"] = IF hasPath THEN "ok" ELSE "warn",
                                             !["enabled"] = IF c.enabled THEN @ ELSE "fail"]]
    /\ Elsewhere

CheckDns(state) ==
    /\ diag.pc = "dns"
    /\ IF state = "fail" THEN Ends(Report("dns", state)) ELSE Continues(Report("dns", state), "tcp")
    /\ Elsewhere

CheckTcp(state) ==
    /\ diag.pc = "tcp"
    /\ IF state = "fail" THEN Ends(Report("tcp", state)) ELSE Continues(Report("tcp", state), "rtsp")
    /\ Elsewhere

\* TCP first, then UDP.
CheckRtsp ==
    LET state == CASE stream.transport = "tcp" -> "ok"
                   [] stream.transport = "udp" -> "warn"
                   [] stream.transport = "no"  -> "fail"
    IN  /\ diag.pc = "rtsp"
        /\ IF state = "fail" THEN Ends(Report("rtsp", state))
           ELSE Continues(Report("rtsp", state), "frame")
        /\ Elsewhere

\* grab_frame pulls over TCP.
GrabFrame(arrived) ==
    LET compat == BrowserCompat(diag.cam)
        report == [diag.report EXCEPT !["codecs"] = "ok",
                        !["frame"]  = IF arrived THEN "ok" ELSE "warn",
                        !["webrtc"] = compat.webrtc, !["hls"] = compat.hls,
                        !["audio"]  = compat.audio]
    IN  /\ diag.pc = "frame"
        /\ arrived => stream.transport = "tcp"
        /\ IF diag.preview THEN Ends(report) ELSE Continues(report, "path")
        /\ Elsewhere

\* Written only if it differs from what the row, as it was read, wants.
CheckPathConfig ==
    LET wanted == BuildPathConf(diag.cam) IN
    /\ diag.pc = "path"
    /\ IF ConfDiff(path, wanted) = {} THEN UNCHANGED <<path, needless>> ELSE Replaces(wanted)
    /\ Continues(Report("mtxconf", "ok"), "stream")
    /\ UNCHANGED <<stream, cam, changes, pushing>>

ControlApiFails ==
    /\ diag.pc = "path"
    /\ Ends(Report("mtxconf", "fail"))
    /\ Elsewhere

\* Every second: what is there of the path?  A path that is gone is asked for again.
PollStream ==
    /\ diag.pc = "stream" /\ diag.item # "ready"
    /\ \E item \in {"none", "waiting", "ready"} :
        /\ item = "none" <=> path = NoConf
        /\ item = "ready" => Pullable(path)
        /\ diag' = [diag EXCEPT !.item = item]
    /\ Elsewhere

\* The request for the playlist, under way since before the first poll, is answered.
PlaylistGiven ==
    /\ diag.pc = "stream" /\ ~diag.playlist
    /\ Pullable(path)
    /\ diag' = [diag EXCEPT !.playlist = TRUE]
    /\ Elsewhere

\* The deadline without a path, or an error of the API at a poll.
StreamGivenUp ==
    /\ diag.pc = "stream" /\ diag.item # "ready"
    /\ Ends(Report("stream", "fail"))
    /\ Elsewhere

StreamState(received) ==
    IF diag.item # "ready" THEN "fail" ELSE IF received THEN "ok" ELSE "warn"

\* A mutant: a playlist that was not given is a remark.
StreamEndsMild(received) ==
    /\ diag.pc = "stream" /\ diag.item # "none"
    /\ diag' = [diag EXCEPT !.pc = "whep", !.report =
                    [@ EXCEPT !["stream"] = StreamState(received),
                              !["delivery"] = IF diag.playlist THEN "ok" ELSE "warn"]]
    /\ Elsewhere

\* The path is ready, or the deadline has passed with it there.
StreamEnds(received) ==
    /\ diag.pc = "stream" /\ diag.item # "none"
    /\ diag' = [diag EXCEPT !.pc = "whep", !.report =
                    [@ EXCEPT !["stream"] = StreamState(received),
                              !["delivery"] = IF diag.playlist THEN "ok" ELSE "fail"]]
    /\ Elsewhere

\* An offer that cannot be accepted finds the second server.
CheckWhep(state) ==
    /\ diag.pc = "whep"
    /\ state = "ok" => path # NoConf
    /\ Ends(Report("whepsrv", state))
    /\ Elsewhere

DiagnosisStep ==
    \/ \E c \in Drafts \cup {cam}, preview, hasPath \in BOOLEAN :
            DiagnosisBegins(c, preview, hasPath)
    \/ \E state \in {"ok", "fail"} : CheckDns(state) \/ CheckTcp(state)
    \/ CheckRtsp
    \/ \E arrived \in BOOLEAN : GrabFrame(arrived)
    \/ CheckPathConfig
    \/ ControlApiFails
    \/ PollStream
    \/ PlaylistGiven
    \/ StreamGivenUp
    \/ \E received \in BOOLEAN : StreamEnds(received)
    \/ \E state \in {"ok", "warn", "fail"} : CheckWhep(state)

DiagnosisNext ==
    \/ \E c \in CameraType, button \in BOOLEAN : Change(c, button)
    \/ \E p \in pushing : PushRow(p)
    \/ Reconcile
    \/ DiagnosisStep

\* The worker's loop goes round for ever, and a request that pushes or diagnoses is
\* bounded by its timeouts.
DiagnosisSpec ==
    /\ DiagnosisInit /\ [][DiagnosisNext]_diagnosisVars
    /\ WF_diagnosisVars(Reconcile)
    /\ WF_diagnosisVars(\E p \in pushing : PushRow(p))

-------------------------------------------------------------------------------
(* Properties.                                                              *)

\* A report without a failure is about a camera whose picture could be had in a codec
\* browsers play, and of a diagnosis, not a preview, that MediaMTX was serving over TCP
\* (diagnose.py:395-500, 575-604).  So no diagnosis of a camera that gives its stream over
\* UDP alone ends well, transcoded or not: the advice to transcode it (diagnose.py:183-184)
\* does not help, since the ffmpeg of the path pulls over TCP as well (paths.py:120).
\* The probe, with a table of codecs of its own, would not have a good one transcoded
\* either (probe.py:31-36, 161-202).
GreenMeansServed ==
    diag.verdict \in {"fine", "remarks"} =>
        /\ diag.report["webrtc"] \in {"ok", "warn"} /\ diag.report["hls"] \in {"ok", "warn"}
        /\ ~diag.preview => /\ diag.cam.enabled
                            /\ diag.report["delivery"] = "ok"
                            /\ stream.transport = "tcp"
                            /\ diag.cam.transcode \/ stream.strict \/ changes > 0
        /\ diag.verdict = "fine" => stream.transport = "tcp"
        /\ diag.cam.transcode \/ Recommended(stream.video) = "passthrough"

\* Neither the reconciler nor a diagnosis replaces a configuration that already means
\* what is wanted: every replacement makes MediaMTX read it all again
\* (paths.py:76-87, diagnose.py:293-324).
NeverNeedless == ~needless

\* When the edits are over, MediaMTX comes to hold what the row wants, and keeps it for a
\* camera that is on, though pushes of older rows arrive late and a diagnosis writes what
\* it has read before; a camera that is off gets its path back from every diagnosis, and
\* loses it again each time (reconciler.py:66-110, diagnose.py:293-324).
PathFollows == []<>Follows(cam) /\ <>[](cam.enabled => Follows(cam))
===============================================================================
