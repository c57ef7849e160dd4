------------------------------ MODULE LinkAccess ------------------------------
(***************************************************************************)
(* Who may watch a camera through a public link.                           *)
(*                                                                         *)
(* PostgreSQL holds the links and the cameras.  Redis holds three kinds of *)
(* derived keys: the hash viewer:<vid> (camera path -> the link that opened*)
(* it), the set link_viewers:<link> (the concurrency limit counts it) and  *)
(* authz:link:<link> (the cached verdict on a link).  Opening the page     *)
(* /v/<slug> writes the first two; every media request reads the first and *)
(* fills the third; revoking, rotating or deleting a link takes them away. *)
(* WebRTC sessions live in the media server and see none of this after     *)
(* they are set up.                                                        *)
(*                                                                         *)
(* Every handler is cut at the awaits where another handler can run.  The  *)
(* lifetimes of keys are counted in ticks: a key holds the ticks it has    *)
(* left, 0 when it does not exist.                                         *)
(***************************************************************************)
EXTENDS Integers, FiniteSets

CONSTANTS
    Viewers,        \* browsers, by the viewer id in their cookie
    Links,          \* public links
    Cameras,        \* cameras, by their path in the media server
    Addresses,      \* client addresses
    None,           \* "no link": an absent hash field
    Operator,       \* the OPERATOR_GRANT value of a hash field
    LinkCamera,     \* [Links -> Cameras]
    MaxConcurrent,  \* [Links -> Nat], 0 for no limit
    AllowedFrom,    \* [Links -> SUBSET Addresses], the allowed_cidrs
    PasswordLinks,  \* links with a password of their own
    Invited,        \* [Links -> SUBSET Viewers], who was sent the first address
    Informed,       \* viewers who are also sent every re-issued address
    PasswordKnown,  \* viewers who know the link passwords
    Operators,      \* viewers who are signed in to the panel
    ViewTtl,        \* ticks of view_cookie_ttl_minutes
    OperatorTtl,    \* ticks of OPERATOR_VIEW_TTL_SECONDS
    CacheTtl,       \* ticks of authz_cache_seconds
    NegativeTtl,    \* ticks of the shorter caching of a refusal
    RequestTicks,   \* ticks one handler may last
    PanelOps,       \* the panel's operations a run is about
    MtxFails,       \* whether the media server may fail to answer the panel
    MaxSessions,    \* bound: WebRTC sessions at a time
    MaxRotations,   \* bound: how often one link is rotated
    MaxToggles      \* bound: how often cameras are switched on again

OpKinds == {"revoke", "rotate", "linkDelete", "cameraDelete", "cameraDisable",
            "cameraEnable"}

ASSUME ParamAssumption ==
    /\ LinkCamera \in [Links -> Cameras]
    /\ MaxConcurrent \in [Links -> Nat]
    /\ AllowedFrom \in [Links -> SUBSET Addresses]
    /\ Invited \in [Links -> SUBSET Viewers]
    /\ PasswordLinks \subseteq Links
    /\ None \notin Links
    /\ Operator \notin Links
    /\ None # Operator
    /\ PanelOps \subseteq OpKinds
    /\ MtxFails \in BOOLEAN

ASSUME TtlAssumption ==
    /\ ViewTtl \in Nat \ {0}
    /\ OperatorTtl \in Nat \ {0}
    /\ CacheTtl \in Nat \ {0}
    /\ NegativeTtl \in Nat \ {0}
    /\ RequestTicks \in Nat
    /\ MaxSessions \in Nat
    /\ MaxRotations \in Nat
    /\ MaxToggles \in Nat

VARIABLES
    link,         \* share_links: absent, live, expired or revoked
    token,        \* share_links.token_hash, as the number of the issued address
    camera,       \* cameras: absent, enabled or disabled
    toggles,      \* bound counter for camera_update switching a camera on
    viewerHash,   \* viewer:<vid>: which link opened each camera
    viewerTtl,    \* ... and the ticks that hash has left
    linkViewers,  \* link_viewers:<link>
    setTtl,       \* ... and the ticks that set has left
    cache,        \* authz:link:<link>: the verdict and the ticks it has left
    paths,        \* cameras the media server has a path for
    rtc,          \* its WebRTC sessions: <<viewer, camera, what authorised it>>
    page,         \* the page request of each browser
    media,        \* the media request of each browser
    op,           \* the operation of the panel in flight
    deadFor       \* ticks since the link could last be watched (history)

db    == <<link, token, camera, toggles>>
redis == <<viewerHash, viewerTtl, linkViewers, setTtl, cache>>
mtx   == <<paths, rtc>>
vars  == <<link, token, camera, toggles, viewerHash, viewerTtl, linkViewers,
           setTtl, cache, paths, rtc, page, media, op, deadFor>>

-------------------------------------------------------------------------------
(* What the states are made of.                                            *)

Grant == Links \cup {None, Operator}

\* The first address of a link is number 1; a page opened without ?t= has 0.
NoToken == 0

\* Ticks after which the link can no longer be reached from any cached verdict.
GraceTicks == CacheTtl + RequestTicks

NoPage  == [pc |-> "idle", link |-> None, way |-> "bare", age |-> 0]
NoMedia == [pc |-> "idle", link |-> None, camera |-> None, live |-> FALSE,
            ipOk |-> FALSE, age |-> 0]
NoOp    == [pc |-> "idle", kind |-> "none", link |-> None, camera |-> None,
            todo |-> {}, seen |-> {}, age |-> 0]

PageType ==
    [pc: {"idle", "found", "capacity", "grant"}, link: Links \cup {None},
     way: {"bare", "token", "form", "reload"}, age: 0..RequestTicks]
MediaType ==
    [pc: {"idle", "lookup", "fill", "allowed"}, link: Grant,
     camera: Cameras \cup {None}, live: BOOLEAN, ipOk: BOOLEAN, age: 0..RequestTicks]
OpType ==
    [pc: {"idle", "invalidate", "members", "pipeline", "delete", "kick", "drop", "push"},
     kind: OpKinds \cup {"none"},
     link: Links \cup {None}, camera: Cameras \cup {None},
     todo: SUBSET Links, seen: SUBSET Viewers, age: 0..RequestTicks]

\* The links' and cameras' rows, as link_access judges them.
Watchable(l) == link[l] = "live" /\ camera[LinkCamera[l]] = "enabled"

\* Viewers whose hash sends them to link l.
Holders(l) == {v \in Viewers : \E c \in Cameras : viewerHash[v][c] = l}

\* The addresses (numbered) a browser may have been given for a link.
TokensOf(v, l) ==
    IF v \notin Invited[l] THEN {NoToken}
    ELSE IF v \in Informed THEN {NoToken} \cup 1..token[l]
    ELSE {NoToken, 1}

-------------------------------------------------------------------------------
(* Rows already exist when the story starts: links are created live on a   *)
(* camera, with nothing about them in Redis.                               *)
Init ==
    /\ link = [l \in Links |-> "live"]
    /\ token = [l \in Links |-> 1]
    /\ camera = [c \in Cameras |-> "enabled"]
    /\ toggles = 0
    /\ viewerHash = [v \in Viewers |-> [c \in Cameras |-> None]]
    /\ viewerTtl = [v \in Viewers |-> 0]
    /\ linkViewers = [l \in Links |-> {}]
    /\ setTtl = [l \in Links |-> 0]
    /\ cache = [l \in Links |-> [valid |-> FALSE, ttl |-> 0]]
    /\ paths = Cameras
    /\ rtc = {}
    /\ page = [v \in Viewers |-> NoPage]
    /\ media = [v \in Viewers |-> NoMedia]
    /\ op = NoOp
    /\ deadFor = [l \in Links |-> 0]

-------------------------------------------------------------------------------
(* Opening the page: _view, view_with_password, _open_stream.              *)

\* Mutant of PageOpen: the rows are judged with the token, so a reload without
\* the token goes past them.
PageOpenTokenOnly(v, l) ==
    /\ page[v].pc = "idle"
    /\ link[l] # "absent"
    /\ \E t \in TokensOf(v, l) :
        \E way \in {"bare", "token"} :
            /\ way = "token" => t = token[l] /\ Watchable(l)
            /\ page' = [page EXCEPT ![v] = [pc |-> "found", link |-> l, way |-> way, age |-> 0]]
    /\ UNCHANGED <<db, redis, mtx, media, op, deadFor>>

\* _find_link reads the rows; the deadline, the revocation, the address, the
\* camera and the token are judged on these copies, whatever happens next.  A
\* request they refuse changes nothing that decides about access.  Without the
\* current token only a plain request goes on, it may be a reload.
PageOpen(v, l) ==
    /\ page[v].pc = "idle"
    /\ Watchable(l)
    /\ \E ip \in Addresses : ip \in AllowedFrom[l]
    /\ \E t \in TokensOf(v, l) :
        \E way \in IF t # token[l] THEN {"bare"}
                   ELSE IF l \in PasswordLinks THEN {"token", "form"} ELSE {"token"} :
            page' = [page EXCEPT ![v] = [pc |-> "found", link |-> l, way |-> way, age |-> 0]]
    /\ UNCHANGED <<db, redis, mtx, media, op, deadFor>>

\* Mutant of AlreadyGranted: any grant on the camera will do.
AlreadyGrantedByAnyone(v, l) == viewerHash[v][LinkCamera[l]] # None

\* A page is reloaded without a token when this browser's grant on the camera
\* comes from this very link; the form with the password never looks there.
\* Without a grant _view asks for the link once more: what it sees is still the
\* first copy, unless the row is gone.
AlreadyGranted(v, l) == viewerHash[v][LinkCamera[l]] = l

PageAuthorize(v) ==
    /\ page[v].pc = "found"
    /\ LET reload == page[v].way # "form" /\ AlreadyGranted(v, page[v].link)
       IN page' = [page EXCEPT ![v] =
            IF reload THEN [page[v] EXCEPT !.pc = "capacity", !.way = "reload"]
            ELSE IF page[v].way = "bare" THEN NoPage
            ELSE IF page[v].way = "token" /\ link[page[v].link] = "absent" THEN NoPage
            ELSE [page[v] EXCEPT !.pc = "capacity"]]
    /\ UNCHANGED <<db, redis, mtx, media, op, deadFor>>

\* Mutant of HasRoom: one viewer too many.
HasRoomForOneMore(v, l, way) ==
    \/ MaxConcurrent[l] = 0
    \/ way # "form" /\ v \in linkViewers[l]
    \/ Cardinality(linkViewers[l]) <= MaxConcurrent[l]

\* _assert_capacity: a viewer who is counted already takes no second place,
\* but the password form calls it without the viewer's id.
HasRoom(v, l, way) ==
    \/ MaxConcurrent[l] = 0
    \/ way # "form" /\ v \in linkViewers[l]
    \/ Cardinality(linkViewers[l]) < MaxConcurrent[l]

\* Another page is served instead of the player: the form, or the form again.
PasswordAsked(v) ==
    /\ page[v].link \in PasswordLinks
    /\ page[v].way # "reload"
    /\ ~(page[v].way = "form" /\ v \in PasswordKnown)

PageCapacity(v) ==
    /\ page[v].pc = "capacity"
    /\ page' = [page EXCEPT ![v] =
            IF HasRoom(v, page[v].link, page[v].way) /\ ~PasswordAsked(v)
            THEN [page[v] EXCEPT !.pc = "grant"]
            ELSE NoPage]
    /\ UNCHANGED <<db, redis, mtx, media, op, deadFor>>

\* grant: one pipeline.  The view counter and the journal row that follow do
\* not decide about access, so the answer is part of this step.
PageGrant(v) ==
    /\ page[v].pc = "grant"
    /\ LET l == page[v].link
       IN /\ viewerHash' = [viewerHash EXCEPT ![v][LinkCamera[l]] = l]
          /\ viewerTtl' = [viewerTtl EXCEPT ![v] = ViewTtl]
          /\ linkViewers' = [linkViewers EXCEPT ![l] = @ \cup {v}]
          /\ setTtl' = [setTtl EXCEPT ![l] = ViewTtl]
    /\ page' = [page EXCEPT ![v] = NoPage]
    /\ UNCHANGED <<db, cache, mtx, media, op, deadFor>>

\* camera_live_ticket and camera_live: the signed-in operator's own way in,
\* without a link.  The second route does not look whether the camera is on.
OperatorGrant(v, c) ==
    /\ v \in Operators
    /\ camera[c] # "absent"
    /\ viewerHash' = [viewerHash EXCEPT ![v][c] = Operator]
    /\ viewerTtl' = [viewerTtl EXCEPT ![v] = OperatorTtl]
    /\ UNCHANGED <<db, linkViewers, setTtl, cache, mtx, page, media, op, deadFor>>

-------------------------------------------------------------------------------
(* The media request: authz, link_access, _allow.                          *)

\* _allow extends what the request used: the viewer's whole hash, and the
\* viewer set of the link unless the grant is the operator's.  EXPIRE on a
\* key that is gone does nothing.
ExtendLifetimes(v, g) ==
    /\ viewerTtl' = IF viewerTtl[v] = 0 THEN viewerTtl
                    ELSE [viewerTtl EXCEPT ![v] = ViewTtl]
    /\ setTtl' = IF g = Operator \/ setTtl[g] = 0 THEN setTtl
                 ELSE [setTtl EXCEPT ![g] = ViewTtl]

\* ip_allowed; the operator's grant has no list.
Admits(g, ip) == g = Operator \/ ip \in AllowedFrom[g]

\* HGET on the viewer's hash.  No field: 403, nothing changes.
MediaLookup(v, c) ==
    /\ media[v].pc = "idle"
    /\ viewerHash[v][c] # None
    /\ \E ip \in Addresses :
        media' = [media EXCEPT ![v] =
            [pc |-> "lookup", link |-> viewerHash[v][c], camera |-> c, live |-> FALSE,
             ipOk |-> Admits(viewerHash[v][c], ip), age |-> 0]]
    /\ UNCHANGED <<db, redis, mtx, page, op, deadFor>>

\* The operator's grant is not checked against any link.
MediaOperator(v) ==
    /\ media[v].pc = "lookup"
    /\ media[v].link = Operator
    /\ ExtendLifetimes(v, Operator)
    /\ media' = [media EXCEPT ![v].pc = "allowed"]
    /\ UNCHANGED <<db, viewerHash, linkViewers, cache, mtx, page, op, deadFor>>

\* The verdict on the link decides, and then the viewer's address.
Decide(v, live) ==
    IF live /\ media[v].ipOk
    THEN /\ ExtendLifetimes(v, media[v].link)
         /\ media' = [media EXCEPT ![v].pc = "allowed", ![v].live = FALSE]
    ELSE /\ media' = [media EXCEPT ![v] = NoMedia]
         /\ UNCHANGED <<viewerTtl, setTtl>>

\* The verdict is cached.  Reading it and extending the keys are two round trips, taken as
\* one: what comes between them does not change the verdict, and a key that goes then is
\* not extended, as when it goes between MediaLookup and this step.
MediaHit(v) ==
    /\ media[v].pc = "lookup"
    /\ media[v].link \in Links
    /\ cache[media[v].link].ttl > 0
    /\ Decide(v, cache[media[v].link].valid)
    /\ UNCHANGED <<db, viewerHash, linkViewers, cache, mtx, page, op, deadFor>>

\* Mutant of MediaMiss: the camera's row is not asked.
MediaMissLinkOnly(v) ==
    /\ media[v].pc = "lookup"
    /\ media[v].link \in Links
    /\ cache[media[v].link].ttl = 0
    /\ media' = [media EXCEPT ![v].pc = "fill", ![v].live = link[media[v].link] = "live"]
    /\ UNCHANGED <<db, redis, mtx, page, op, deadFor>>

\* It is not: read the rows ...
MediaMiss(v) ==
    /\ media[v].pc = "lookup"
    /\ media[v].link \in Links
    /\ cache[media[v].link].ttl = 0
    /\ media' = [media EXCEPT ![v].pc = "fill", ![v].live = Watchable(media[v].link)]
    /\ UNCHANGED <<db, redis, mtx, page, op, deadFor>>

\* Mutant of MediaFill: the verdict is kept as long as a viewer's key.
MediaFillLong(v) ==
    /\ media[v].pc = "fill"
    /\ cache' = [cache EXCEPT ![media[v].link] = [valid |-> media[v].live, ttl |-> ViewTtl]]
    /\ Decide(v, media[v].live)
    /\ UNCHANGED <<db, viewerHash, linkViewers, mtx, page, op, deadFor>>

\* ... and cache what was read, for a shorter time when it is a refusal.
MediaFill(v) ==
    /\ media[v].pc = "fill"
    /\ cache' = [cache EXCEPT ![media[v].link] =
            [valid |-> media[v].live,
             ttl |-> IF media[v].live THEN CacheTtl ELSE NegativeTtl]]
    /\ Decide(v, media[v].live)
    /\ UNCHANGED <<db, viewerHash, linkViewers, mtx, page, op, deadFor>>

\* Caddy passes an allowed request on.  A playlist or a segment is over at
\* once; a WHEP request leaves a WebRTC session behind, if the path is there.
MediaServe(v) ==
    /\ media[v].pc = "allowed"
    /\ \/ rtc' = rtc
       \/ /\ media[v].camera \in paths
          /\ Cardinality(rtc) < MaxSessions
          /\ rtc' = rtc \cup {<<v, media[v].camera, media[v].link>>}
    /\ media' = [media EXCEPT ![v] = NoMedia]
    /\ UNCHANGED <<db, redis, paths, page, op, deadFor>>

\* The viewer closes the tab: the server is not told, the session just ends.
Leave(v) ==
    /\ \E s \in rtc : s[1] = v
    /\ rtc' = {s \in rtc : s[1] # v}
    /\ UNCHANGED <<db, redis, paths, page, media, op, deadFor>>

-------------------------------------------------------------------------------
(* The panel: link_revoke, link_rotate, link_delete, camera_delete and      *)
(* camera_update.  One operator works at a time.                            *)

Begin(kind, l, c, todo, pc) ==
    op' = [pc |-> pc, kind |-> kind, link |-> l, camera |-> c, todo |-> todo,
           seen |-> {}, age |-> 0]

\* The rows change, the commit returns; Redis still says what it said before.
Revoke(l) ==
    /\ op.pc = "idle" /\ "revoke" \in PanelOps
    /\ link[l] # "absent"
    /\ link' = [link EXCEPT ![l] = "revoked"]
    /\ Begin("revoke", l, LinkCamera[l], {}, "invalidate")
    /\ UNCHANGED <<token, camera, toggles, redis, mtx, page, media, deadFor>>

\* A revoked link is not brought back by a new address.
Rotate(l) ==
    /\ op.pc = "idle" /\ "rotate" \in PanelOps
    /\ link[l] \in {"live", "expired"}
    /\ token[l] <= MaxRotations
    /\ token' = [token EXCEPT ![l] = @ + 1]
    /\ Begin("rotate", l, LinkCamera[l], {}, "invalidate")
    /\ UNCHANGED <<link, camera, toggles, redis, mtx, page, media, deadFor>>

\* Deleting takes the viewers away first and the row afterwards.
LinkDelete(l) ==
    /\ op.pc = "idle" /\ "linkDelete" \in PanelOps
    /\ link[l] # "absent"
    /\ Begin("linkDelete", l, LinkCamera[l], {}, "members")
    /\ UNCHANGED <<db, redis, mtx, page, media, deadFor>>

\* The same, for every link the camera has.
CameraDelete(c) ==
    /\ op.pc = "idle" /\ "cameraDelete" \in PanelOps
    /\ camera[c] # "absent"
    /\ LET rows == {l \in Links : LinkCamera[l] = c /\ link[l] # "absent"}
       IN IF rows = {} THEN Begin("cameraDelete", None, c, {}, "delete")
          ELSE \E l \in rows : Begin("cameraDelete", l, c, rows \ {l}, "members")
    /\ UNCHANGED <<db, redis, mtx, page, media, deadFor>>

\* camera_update with the switch off: nothing in Redis is touched.
CameraDisable(c) ==
    /\ op.pc = "idle" /\ "cameraDisable" \in PanelOps
    /\ camera[c] = "enabled"
    /\ camera' = [camera EXCEPT ![c] = "disabled"]
    /\ Begin("cameraDisable", None, c, {}, "drop")
    /\ UNCHANGED <<link, token, toggles, redis, mtx, page, media, deadFor>>

CameraEnable(c) ==
    /\ op.pc = "idle" /\ "cameraEnable" \in PanelOps
    /\ camera[c] = "disabled"
    /\ toggles < MaxToggles
    /\ camera' = [camera EXCEPT ![c] = "enabled"]
    /\ toggles' = toggles + 1
    /\ deadFor' = [l \in Links |->
            IF LinkCamera[l] = c /\ link[l] = "live" THEN 0 ELSE deadFor[l]]
    /\ Begin("cameraEnable", None, c, {}, "push")
    /\ UNCHANGED <<link, token, redis, mtx, page, media>>

\* invalidate_link
Invalidate ==
    /\ op.pc = "invalidate"
    /\ cache' = [cache EXCEPT ![op.link].ttl = 0, ![op.link].valid = FALSE]
    /\ op' = [op EXCEPT !.pc = "members"]
    /\ UNCHANGED <<db, viewerHash, viewerTtl, linkViewers, setTtl, mtx, page, media, deadFor>>

\* drop_link_viewers, first half: SMEMBERS, then the camera's path from the
\* rows, which are still there.
DropMembers ==
    /\ op.pc = "members"
    /\ op' = [op EXCEPT !.pc = "pipeline", !.seen = linkViewers[op.link]]
    /\ UNCHANGED <<db, redis, mtx, page, media, deadFor>>

\* Redis removes a hash with its last field.
WithoutPath(gone, c) ==
    [v \in Viewers |-> IF v \in gone THEN [viewerHash[v] EXCEPT ![c] = None]
                       ELSE viewerHash[v]]
TtlOf(hash, v) == IF \A c \in Cameras : hash[c] = None THEN 0 ELSE viewerTtl[v]

\* drop_link_viewers, second half: one pipeline.  It takes the camera away
\* from the viewers that were seen, whatever the field of their hash says by
\* now, and the link's set and verdict as they are by now.
DropPipeline ==
    /\ op.pc = "pipeline"
    /\ viewerHash' = WithoutPath(op.seen, op.camera)
    /\ viewerTtl' = [v \in Viewers |-> TtlOf(viewerHash'[v], v)]
    /\ linkViewers' = [linkViewers EXCEPT ![op.link] = {}]
    /\ setTtl' = [setTtl EXCEPT ![op.link] = 0]
    /\ cache' = [cache EXCEPT ![op.link].ttl = 0, ![op.link].valid = FALSE]
    /\ IF op.todo # {}
       THEN \E l \in op.todo :
                op' = [op EXCEPT !.pc = "members", !.link = l, !.todo = @ \ {l}, !.seen = {}]
       ELSE op' = [op EXCEPT !.seen = {},
                     !.pc = IF op.kind \in {"linkDelete", "cameraDelete"} THEN "delete"
                            ELSE "kick"]
    /\ UNCHANGED <<db, mtx, page, media, deadFor>>

\* The row goes, and with a camera's row those of all its links.
DeleteRows ==
    /\ op.pc = "delete"
    /\ IF op.kind = "linkDelete"
       THEN /\ link' = [link EXCEPT ![op.link] = "absent"]
            /\ camera' = camera
       ELSE /\ link' = [l \in Links |->
                    IF LinkCamera[l] = op.camera THEN "absent" ELSE link[l]]
            /\ camera' = [camera EXCEPT ![op.camera] = "absent"]
    /\ op' = [op EXCEPT !.pc = IF op.kind = "linkDelete" THEN "kick" ELSE "drop"]
    /\ UNCHANGED <<token, toggles, redis, mtx, page, media, deadFor>>

\* A failure of the media server is logged, and the operator is told "done".
EndOp == op' = NoOp
MtxError == MtxFails /\ UNCHANGED mtx

\* _kick_active_sessions: everyone on the camera's path.
Kick ==
    /\ op.pc = "kick"
    /\ \/ rtc' = {s \in rtc : s[2] # op.camera} /\ paths' = paths
       \/ MtxError
    /\ EndOp
    /\ UNCHANGED <<db, redis, page, media, deadFor>>

\* drop_path and push_camera
DropPath ==
    /\ op.pc = "drop"
    /\ \/ paths' = paths \ {op.camera} /\ rtc' = {s \in rtc : s[2] # op.camera}
       \/ MtxError
    /\ EndOp
    /\ UNCHANGED <<db, redis, page, media, deadFor>>

PushPath ==
    /\ op.pc = "push"
    /\ \/ paths' = paths \cup {op.camera} /\ rtc' = rtc
       \/ MtxError
    /\ EndOp
    /\ UNCHANGED <<db, redis, page, media, deadFor>>

\* The worker's next cycle makes up for it; Reconciler.tla has it in steps.
Reconcile ==
    LET wanted == {c \in Cameras : camera[c] = "enabled"} IN
    /\ paths # wanted
    /\ paths' = wanted
    /\ rtc' = {s \in rtc : s[2] \in wanted}
    /\ UNCHANGED <<db, redis, page, media, op, deadFor>>

-------------------------------------------------------------------------------
(* Time.                                                                    *)

LinkExpires(l) ==
    /\ link[l] = "live"
    /\ link' = [link EXCEPT ![l] = "expired"]
    /\ UNCHANGED <<token, camera, toggles, redis, mtx, page, media, op, deadFor>>

\* Mutant of Less: time goes on for a key that is gone.
LessForever(n) == n - 1

Less(n) == IF n = 0 THEN 0 ELSE n - 1

\* A handler in flight is one tick older; none lasts longer than RequestTicks.
Aged(h) == IF h.pc = "idle" THEN h ELSE [h EXCEPT !.age = @ + 1]
InTime(h) == h.pc = "idle" \/ h.age < RequestTicks

\* Counting stops where it makes no difference any more.
MaxDeadFor == GraceTicks + RequestTicks + 1
DeadForNow(l) ==
    IF Watchable(l) THEN 0
    ELSE IF deadFor[l] = MaxDeadFor THEN MaxDeadFor ELSE deadFor[l] + 1

Tick ==
    /\ \A v \in Viewers : InTime(page[v]) /\ InTime(media[v])
    /\ InTime(op)
    /\ page' = [v \in Viewers |-> Aged(page[v])]
    /\ media' = [v \in Viewers |-> Aged(media[v])]
    /\ op' = Aged(op)
    /\ viewerTtl' = [v \in Viewers |-> Less(viewerTtl[v])]
    /\ viewerHash' = [v \in Viewers |->
            IF viewerTtl[v] <= 1 THEN [c \in Cameras |-> None] ELSE viewerHash[v]]
    /\ setTtl' = [l \in Links |-> Less(setTtl[l])]
    /\ linkViewers' = [l \in Links |-> IF setTtl[l] <= 1 THEN {} ELSE linkViewers[l]]
    /\ cache' = [l \in Links |->
            IF cache[l].ttl <= 1 THEN [valid |-> FALSE, ttl |-> 0]
            ELSE [cache[l] EXCEPT !.ttl = @ - 1]]
    /\ deadFor' = [l \in Links |-> DeadForNow(l)]
    /\ UNCHANGED <<db, mtx>>

-------------------------------------------------------------------------------
PageStep(v) ==
    \/ \E l \in Links : PageOpen(v, l)
    \/ PageAuthorize(v) \/ PageCapacity(v) \/ PageGrant(v)
    \/ \E c \in Cameras : OperatorGrant(v, c)

MediaStep(v) ==
    \/ \E c \in Cameras : MediaLookup(v, c)
    \/ MediaOperator(v) \/ MediaHit(v) \/ MediaMiss(v) \/ MediaFill(v)
    \/ MediaServe(v) \/ Leave(v)

PanelStep ==
    \/ \E l \in Links : Revoke(l) \/ Rotate(l) \/ LinkDelete(l)
    \/ \E c \in Cameras : CameraDelete(c) \/ CameraDisable(c) \/ CameraEnable(c)
    \/ Invalidate \/ DropMembers \/ DropPipeline \/ DeleteRows
    \/ Kick \/ DropPath \/ PushPath

Next ==
    \/ \E v \in Viewers : PageStep(v) \/ MediaStep(v)
    \/ PanelStep
    \/ Reconcile
    \/ \E l \in Links : LinkExpires(l)
    \/ Tick

Spec == Init /\ [][Next]_vars

-------------------------------------------------------------------------------
(* Properties.                                                              *)

(* Every variable keeps its type; a hash or a set is there exactly as long  *)
(* as it has time left, as Redis keeps them.                                *)
TypeOK ==
    /\ link \in [Links -> {"live", "expired", "revoked", "absent"}]
    /\ token \in [Links -> 1..(MaxRotations + 1)]
    /\ camera \in [Cameras -> {"enabled", "disabled", "absent"}]
    /\ toggles \in 0..MaxToggles
    /\ viewerHash \in [Viewers -> [Cameras -> Grant]]
    /\ viewerTtl \in [Viewers -> Nat]
    /\ linkViewers \in [Links -> SUBSET Viewers]
    /\ setTtl \in [Links -> Nat]
    /\ cache \in [Links -> [valid: BOOLEAN, ttl: Nat]]
    /\ paths \subseteq Cameras
    /\ rtc \subseteq Viewers \X Cameras \X Grant
    /\ page \in [Viewers -> PageType]
    /\ media \in [Viewers -> MediaType]
    /\ op \in OpType
    /\ deadFor \in [Links -> 0..MaxDeadFor]

(* A cached "valid" is bounded by the moment the link died: the verdict was *)
(* read before that, by a request that had RequestTicks to write it, and it *)
(* lives CacheTtl from then.  link_access may write it after the revocation *)
(* deleted the key, so nothing better than this sum is true.                *)
StaleVerdictBounded ==
    \A l \in Links :
        cache[l].valid /\ cache[l].ttl > 0 => deadFor[l] + cache[l].ttl <= GraceTicks

(* A media request is let through on a dead link only within the grace:     *)
(* every cached verdict and every extension made by _allow included.  It    *)
(* follows from WatchedByRight, and is what the proof of that rests on.     *)
DeadLinkAccessBounded ==
    \A v \in Viewers :
        media[v].pc = "allowed" /\ media[v].link \in Links =>
            deadFor[media[v].link] <= GraceTicks + media[v].age

(* A page is opened on a dead link only by a request that was already       *)
(* running when the link died, on the reload without a token as well: the   *)
(* deadline, the revocation and the camera are judged on every way in.      *)
LateGrantBounded ==
    \A v \in Viewers :
        page[v].pc \in {"capacity", "grant"} =>
            deadFor[page[v].link] <= page[v].age

MayWatch(v, l) ==
    /\ v \in Invited[l]
    /\ l \in PasswordLinks => v \in PasswordKnown

(* Whoever holds a link's grant, or is counted as its viewer, was sent an   *)
(* address of that link and gave its password: a grant of a neighbouring    *)
(* link on the same camera, or the operator's, opens no other link's page.  *)
GrantOnlyToInvited ==
    \A v \in Viewers, l \in Links :
        v \in Holders(l) \cup linkViewers[l] => MayWatch(v, l)

(* Whoever watches does so by right: a media request is let through, and a  *)
(* WebRTC session begins, only for those who may watch that link, on its    *)
(* own camera, and within the grace of its death (the kick of a revocation  *)
(* may come too early for a session that is just being set up), or for an   *)
(* operator (authz.py:316-378, panel_views.py:931-945).                     *)
Watch == INSTANCE Watching WITH
            Entitled <- [l \in Links |-> {v \in Viewers : MayWatch(v, l)}],
            Grace    <- GraceTicks,
            Patience <- RequestTicks,
            Horizon  <- MaxDeadFor,
            alive    <- [l \in Links |-> Watchable(l)],
            passing  <- {<<v, media[v].camera, media[v].link>> :
                            v \in {w \in Viewers : media[w].pc = "allowed"}},
            sessions <- rtc
WatchedByRight == Watch!Spec
===============================================================================
