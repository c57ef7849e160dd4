--------------------------- MODULE LinkAccessProofs ---------------------------
(***************************************************************************)
(* Proofs about LinkAccess, for every set of viewers, links and cameras    *)
(* and for all lifetimes: the type invariant, the grace period of a dead   *)
(* link, that LinkAccess implements Watching, that only those it was sent  *)
(* to ever hold a link's grant, and who alone passes a link's limit.       *)
(***************************************************************************)
EXTENDS ViewerLimit, FiniteSetTheorems, TLAPS

(* What the handlers in flight always have at hand.                        *)
OpWf ==
    /\ op.pc \in {"invalidate", "members", "pipeline"} => op.link \in Links
    /\ op.pc # "idle" => op.camera \in Cameras

MediaWf ==
    \A v \in Viewers :
        /\ media[v].pc # "idle" => media[v].link # None /\ media[v].camera \in Cameras
        /\ media[v].pc = "fill" => media[v].link \in Links

PageWf ==
    \A v \in Viewers : page[v].pc # "idle" => page[v].link \in Links

TypeInv == TypeOK /\ OpWf /\ MediaWf /\ PageWf

-------------------------------------------------------------------------------
(* The type invariant.                                                      *)

LEMMA TypeInit == Init => TypeInv
BY ParamAssumption, TtlAssumption
   DEF Init, TypeInv, TypeOK, OpWf, MediaWf, PageWf, PageType, MediaType, OpType,
       NoPage, NoMedia, NoOp, Grant, MaxDeadFor, GraceTicks

(* The records a page request goes through.                                 *)
LEMMA PageRecord ==
    ASSUME TypeInv, NEW v \in Viewers, page[v].pc # "idle"
    PROVE  /\ page[v].link \in Links
           /\ NoPage \in PageType /\ NoPage.pc = "idle"
           /\ \A pc \in {"capacity", "grant"} :
                LET r == [page[v] EXCEPT !.pc = pc]
                IN r \in PageType /\ r.link = page[v].link
           /\ LET r == [page[v] EXCEPT !.pc = "capacity", !.way = "reload"]
              IN r \in PageType /\ r.link = page[v].link
<1>1. page[v] \in PageType /\ page[v].link \in Links
  BY DEF TypeInv, TypeOK, PageWf
<1>2. NoPage \in PageType /\ NoPage.pc = "idle"
  BY TtlAssumption DEF PageType, NoPage
<1>3. ASSUME NEW pc \in {"capacity", "grant"}
      PROVE  LET r == [page[v] EXCEPT !.pc = pc] IN r \in PageType /\ r.link = page[v].link
  BY <1>1 DEF PageType
<1>4. LET r == [page[v] EXCEPT !.pc = "capacity", !.way = "reload"]
      IN r \in PageType /\ r.link = page[v].link
  BY <1>1 DEF PageType
<1>5. QED
  BY <1>1, <1>2, <1>3, <1>4

(* The records a media request goes through.                                *)
LEMMA MediaRecord ==
    ASSUME TypeInv, NEW v \in Viewers, NEW r,
           \/ r = NoMedia
           \/ /\ r \in MediaType
              /\ r.link # None /\ r.camera \in Cameras
              /\ r.pc = "fill" => r.link \in Links,
           media' = [media EXCEPT ![v] = r]
    PROVE  media' \in [Viewers -> MediaType] /\ MediaWf'
<1>1. NoMedia \in MediaType /\ NoMedia.pc = "idle"
  BY TtlAssumption DEF MediaType, NoMedia, Grant
<1>2. r \in MediaType
  BY <1>1
<1>3. media' \in [Viewers -> MediaType]
  BY <1>2 DEF TypeInv, TypeOK
<1>4. ASSUME NEW w \in Viewers
      PROVE  /\ media'[w].pc # "idle" => media'[w].link # None /\ media'[w].camera \in Cameras
             /\ media'[w].pc = "fill" => media'[w].link \in Links
  BY <1>1 DEF TypeInv, TypeOK, MediaWf
<1>5. QED
  BY <1>3, <1>4 DEF MediaWf

(* Opening a page keeps the types.                                          *)
LEMMA TypePage ==
    ASSUME TypeInv, NEW v \in Viewers, PageStep(v)
    PROVE  TypeInv'
<1> USE ParamAssumption, TtlAssumption
    DEF TypeInv, TypeOK, OpWf, MediaWf, PageWf, Grant, db, redis, mtx
<1>1. ASSUME NEW l \in Links, PageOpen(v, l) PROVE TypeInv'
  BY <1>1 DEF PageOpen, PageType
<1>2. ASSUME PageAuthorize(v) PROVE TypeInv'
  <2>1. PICK r \in PageType : page' = [page EXCEPT ![v] = r] /\ (r.pc # "idle" => r.link \in Links)
    BY <1>2, PageRecord DEF PageAuthorize
  <2>2. page' \in [Viewers -> PageType] /\ PageWf'
    BY <2>1
  <2>3. QED
    BY <1>2, <2>2 DEF PageAuthorize
<1>3. ASSUME PageCapacity(v) PROVE TypeInv'
  <2>1. PICK r \in PageType : page' = [page EXCEPT ![v] = r] /\ (r.pc # "idle" => r.link \in Links)
    BY <1>3, PageRecord DEF PageCapacity
  <2>2. page' \in [Viewers -> PageType] /\ PageWf'
    BY <2>1
  <2>3. QED
    BY <1>3, <2>2 DEF PageCapacity
<1>4. ASSUME PageGrant(v) PROVE TypeInv'
  <2>1. page[v].link \in Links
    BY <1>4 DEF PageGrant
  <2>2. QED
    BY <1>4, <2>1 DEF PageGrant, PageType, NoPage
<1>5. ASSUME NEW c \in Cameras, OperatorGrant(v, c) PROVE TypeInv'
  BY <1>5 DEF OperatorGrant
<1>6. QED
  BY <1>1, <1>2, <1>3, <1>4, <1>5 DEF PageStep

(* _allow keeps the types of the lifetimes.                                 *)
LEMMA TypeExtend ==
    ASSUME TypeInv, NEW v \in Viewers, NEW g \in Links \cup {Operator}, ExtendLifetimes(v, g)
    PROVE  /\ viewerTtl' \in [Viewers -> Nat]
           /\ setTtl' \in [Links -> Nat]
BY ParamAssumption, TtlAssumption DEF TypeInv, TypeOK, ExtendLifetimes

(* A verdict, whichever it is, keeps the types.                             *)
LEMMA TypeDecide ==
    ASSUME TypeInv, NEW v \in Viewers, NEW live \in BOOLEAN,
           media[v].link \in Links, media[v].camera \in Cameras, Decide(v, live)
    PROVE  /\ viewerTtl' \in [Viewers -> Nat]
           /\ setTtl' \in [Links -> Nat]
           /\ media' \in [Viewers -> MediaType]
           /\ MediaWf'
<1> USE ParamAssumption DEF TypeInv, TypeOK, MediaWf, MediaType, Grant
<1>1. CASE live /\ media[v].ipOk
  <2>1. /\ ExtendLifetimes(v, media[v].link)
        /\ media' = [media EXCEPT ![v].pc = "allowed", ![v].live = FALSE]
    BY <1>1 DEF Decide
  <2>2. viewerTtl' \in [Viewers -> Nat] /\ setTtl' \in [Links -> Nat]
    BY <2>1, TypeExtend
  <2>3. [media[v] EXCEPT !.pc = "allowed", !.live = FALSE] \in MediaType
    OBVIOUS
  <2>4. QED
    BY <2>1, <2>2, <2>3, MediaRecord
<1>2. CASE ~(live /\ media[v].ipOk)
  <2>1. media' = [media EXCEPT ![v] = NoMedia] /\ UNCHANGED <<viewerTtl, setTtl>>
    BY <1>2 DEF Decide
  <2>2. QED
    BY <2>1, MediaRecord
<1>3. QED
  BY <1>1, <1>2

(* A media request keeps the types.                                         *)
LEMMA TypeMedia ==
    ASSUME TypeInv, NEW v \in Viewers, MediaStep(v)
    PROVE  TypeInv'
<1> USE ParamAssumption, TtlAssumption
    DEF TypeInv, TypeOK, OpWf, PageWf, db, redis, mtx
<1>1. ASSUME NEW c \in Cameras, MediaLookup(v, c) PROVE TypeInv'
  <2>1. viewerHash[v][c] \in Links \cup {Operator}
    BY <1>1 DEF MediaLookup, Grant
  <2>2. PICK ip \in Addresses : media' = [media EXCEPT ![v] =
            [pc |-> "lookup", link |-> viewerHash[v][c], camera |-> c, live |-> FALSE,
             ipOk |-> Admits(viewerHash[v][c], ip), age |-> 0]]
    BY <1>1 DEF MediaLookup
  <2>3. media' \in [Viewers -> MediaType] /\ MediaWf'
    <3>1. DEFINE r == [pc |-> "lookup", link |-> viewerHash[v][c], camera |-> c, live |-> FALSE,
                       ipOk |-> Admits(viewerHash[v][c], ip), age |-> 0]
    <3>2. r \in MediaType
      <4>1. /\ r.pc \in {"idle", "lookup", "fill", "allowed"} /\ r.link \in Grant
            /\ r.camera \in Cameras \cup {None} /\ r.live \in BOOLEAN
            /\ r.age \in 0..RequestTicks
        BY <2>1 DEF Grant
      <4>2. r.ipOk \in BOOLEAN
        BY DEF Admits
      <4>3. QED
        BY <4>1, <4>2 DEF MediaType
    <3>3. r.link # None /\ r.camera \in Cameras /\ r.pc # "fill"
      BY <2>1
    <3>4. QED
      BY <2>2, <3>2, <3>3, MediaRecord
  <2>4. QED
    BY <1>1, <2>3 DEF MediaLookup
<1>2. ASSUME MediaOperator(v) PROVE TypeInv'
  <2>1. viewerTtl' \in [Viewers -> Nat] /\ setTtl' \in [Links -> Nat]
    BY <1>2, TypeExtend DEF MediaOperator
  <2>2. media' \in [Viewers -> MediaType] /\ MediaWf'
    <3>1. [media[v] EXCEPT !.pc = "allowed"] \in MediaType
      BY DEF MediaType
    <3>2. QED
      BY <1>2, <3>1, MediaRecord DEF MediaOperator, MediaWf, MediaType
  <2>3. QED
    BY <1>2, <2>1, <2>2 DEF MediaOperator
<1>3. ASSUME MediaHit(v) PROVE TypeInv'
  <2>1. /\ media[v].link \in Links
        /\ media[v].camera \in Cameras
        /\ cache[media[v].link].valid \in BOOLEAN
    BY <1>3 DEF MediaHit, MediaWf
  <2>2. QED
    BY <1>3, <2>1, TypeDecide DEF MediaHit
<1>4. ASSUME MediaMiss(v) PROVE TypeInv'
  <2>1. DEFINE r == [media[v] EXCEPT !.pc = "fill", !.live = Watchable(media[v].link)]
  <2>2. Watchable(media[v].link) \in BOOLEAN
    BY DEF Watchable
  <2>3. r \in MediaType /\ r.link = media[v].link /\ r.camera = media[v].camera
    <3>1. media[v] \in MediaType
      OBVIOUS
    <3>2. QED
      BY <2>2, <3>1 DEF MediaType
  <2>4. media' \in [Viewers -> MediaType] /\ MediaWf'
    <3>1. media' = [media EXCEPT ![v] = r] /\ media[v].pc # "idle" /\ media[v].link \in Links
      BY <1>4 DEF MediaMiss
    <3>2. QED
      BY <2>3, <3>1, MediaRecord DEF MediaWf
  <2>5. QED
    BY <1>4, <2>4 DEF MediaMiss
<1>5. ASSUME MediaFill(v) PROVE TypeInv'
  <2>1. /\ media[v].link \in Links
        /\ media[v].camera \in Cameras
        /\ media[v].live \in BOOLEAN
    BY <1>5 DEF MediaFill, MediaWf, MediaType
  <2>2. cache' \in [Links -> [valid: BOOLEAN, ttl: Nat]]
    BY <1>5, <2>1 DEF MediaFill
  <2>3. QED
    BY <1>5, <2>1, <2>2, TypeDecide DEF MediaFill
<1>6. ASSUME MediaServe(v) PROVE TypeInv'
  <2>1. media' \in [Viewers -> MediaType] /\ MediaWf'
    BY <1>6, MediaRecord DEF MediaServe
  <2>2. media[v].camera \in Cameras /\ media[v].link \in Grant
    BY <1>6 DEF MediaServe, MediaWf, MediaType
  <2>3. rtc' \subseteq Viewers \X Cameras \X Grant
    BY <1>6, <2>2 DEF MediaServe
  <2>4. QED
    BY <1>6, <2>1, <2>3 DEF MediaServe
<1>7. ASSUME Leave(v) PROVE TypeInv'
  BY <1>7 DEF Leave, MediaWf
<1>8. QED
  BY <1>1, <1>2, <1>3, <1>4, <1>5, <1>6, <1>7 DEF MediaStep

(* The records an operation of the panel goes through.                      *)
LEMMA OpRecord ==
    ASSUME TypeInv, op.pc # "idle", NEW pc \in {"members", "delete", "kick", "drop"},
           NEW l \in Links \cup {None}, NEW todo \in SUBSET Links, NEW seen \in SUBSET Viewers,
           l = None => pc # "members",
           \/ op' = [op EXCEPT !.pc = pc, !.link = l, !.todo = todo, !.seen = seen]
           \/ op' = [op EXCEPT !.pc = pc, !.seen = seen] /\ op.link = l
    PROVE  op' \in OpType /\ OpWf'
<1>1. op \in OpType /\ op.camera \in Cameras
  BY DEF TypeInv, TypeOK, OpWf
<1>2. op' \in OpType /\ op'.camera \in Cameras /\ op'.pc = pc /\ op'.link = l
  BY <1>1 DEF OpType
<1>3. QED
  BY <1>2 DEF OpWf

LEMMA OpBegins ==
    ASSUME NEW kind \in OpKinds, NEW l \in Links \cup {None}, NEW c \in Cameras,
           NEW todo \in SUBSET Links,
           NEW pc \in {"invalidate", "members", "delete", "drop", "push"},
           l = None => pc \notin {"invalidate", "members"},
           Begin(kind, l, c, todo, pc)
    PROVE  op' \in OpType /\ OpWf'
BY TtlAssumption DEF Begin, OpType, OpWf

LEMMA OpEnds ==
    ASSUME EndOp
    PROVE  op' \in OpType /\ OpWf'
BY TtlAssumption DEF EndOp, NoOp, OpType, OpWf

(* Beginning an operation keeps the types.                                  *)
LEMMA TypePanelBegins ==
    ASSUME TypeInv,
           \/ \E l \in Links : Revoke(l) \/ Rotate(l) \/ LinkDelete(l)
           \/ \E c \in Cameras : CameraDelete(c) \/ CameraDisable(c) \/ CameraEnable(c)
    PROVE  TypeInv'
<1> USE ParamAssumption, TtlAssumption
    DEF TypeInv, TypeOK, MediaWf, PageWf, db, redis, mtx
<1>1. ASSUME NEW l \in Links, Revoke(l) PROVE TypeInv'
  <2>1. op' \in OpType /\ OpWf'
    BY <1>1, OpBegins DEF Revoke, OpKinds
  <2>2. QED
    BY <1>1, <2>1 DEF Revoke
<1>2. ASSUME NEW l \in Links, Rotate(l) PROVE TypeInv'
  <2>1. op' \in OpType /\ OpWf'
    BY <1>2, OpBegins DEF Rotate, OpKinds
  <2>2. QED
    BY <1>2, <2>1 DEF Rotate
<1>3. ASSUME NEW l \in Links, LinkDelete(l) PROVE TypeInv'
  <2>1. op' \in OpType /\ OpWf'
    BY <1>3, OpBegins DEF LinkDelete, OpKinds
  <2>2. QED
    BY <1>3, <2>1 DEF LinkDelete
<1>4. ASSUME NEW c \in Cameras, CameraDelete(c) PROVE TypeInv'
  <2>1. DEFINE rows == {l \in Links : LinkCamera[l] = c /\ link[l] # "absent"}
  <2>2. op' \in OpType /\ OpWf'
    <3>1. CASE rows = {}
      BY <1>4, <3>1, OpBegins DEF CameraDelete, OpKinds
    <3>2. CASE rows # {}
      <4>1. PICK l \in rows : Begin("cameraDelete", l, c, rows \ {l}, "members")
        BY <1>4, <3>2 DEF CameraDelete
      <4>2. l \in Links /\ rows \ {l} \in SUBSET Links
        OBVIOUS
      <4>3. QED
        BY <4>1, <4>2, OpBegins DEF OpKinds
    <3>3. QED
      BY <3>1, <3>2
  <2>3. QED
    BY <1>4, <2>2 DEF CameraDelete
<1>5. ASSUME NEW c \in Cameras, CameraDisable(c) PROVE TypeInv'
  <2>1. op' \in OpType /\ OpWf'
    BY <1>5, OpBegins DEF CameraDisable, OpKinds
  <2>2. QED
    BY <1>5, <2>1 DEF CameraDisable
<1>6. ASSUME NEW c \in Cameras, CameraEnable(c) PROVE TypeInv'
  <2>1. op' \in OpType /\ OpWf'
    BY <1>6, OpBegins DEF CameraEnable, OpKinds
  <2>2. deadFor' \in [Links -> 0..MaxDeadFor]
    BY <1>6 DEF CameraEnable, MaxDeadFor, GraceTicks
  <2>3. QED
    BY <1>6, <2>1, <2>2 DEF CameraEnable
<1>7. QED
  BY <1>1, <1>2, <1>3, <1>4, <1>5, <1>6

(* Carrying it through keeps the types.                                     *)
LEMMA TypePanelGoesOn ==
    ASSUME TypeInv,
           \/ Invalidate \/ DropMembers \/ DropPipeline \/ DeleteRows
           \/ Kick \/ DropPath \/ PushPath
    PROVE  TypeInv'
<1> USE ParamAssumption, TtlAssumption
    DEF TypeInv, TypeOK, MediaWf, PageWf, db, redis, mtx
<1>0. /\ op.seen \in SUBSET Viewers /\ op.todo \in SUBSET Links
      /\ op.link \in Links \cup {None} /\ op.camera \in Cameras \cup {None}
  BY DEF OpType
<1>1. ASSUME Invalidate PROVE TypeInv'
  <2>1. op' \in OpType /\ OpWf'
    BY <1>1, <1>0 DEF Invalidate, OpWf, OpType
  <2>2. cache' \in [Links -> [valid: BOOLEAN, ttl: Nat]]
    BY <1>1 DEF Invalidate
  <2>3. QED
    BY <1>1, <2>1, <2>2 DEF Invalidate
<1>2. ASSUME DropMembers PROVE TypeInv'
  <2>1. op' \in OpType /\ OpWf'
    BY <1>2, <1>0 DEF DropMembers, OpWf, OpType
  <2>2. QED
    BY <1>2, <2>1 DEF DropMembers
<1>3. ASSUME DropPipeline PROVE TypeInv'
  <2>1. op' \in OpType /\ OpWf'
    <3>1. CASE op.todo # {}
      <4>1. PICK l \in op.todo :
                op' = [op EXCEPT !.pc = "members", !.link = l, !.todo = @ \ {l}, !.seen = {}]
        BY <1>3, <3>1 DEF DropPipeline
      <4>2. l \in Links /\ op.todo \ {l} \in SUBSET Links
        BY <1>0
      <4>3. op \in OpType /\ op.camera \in Cameras
        BY <1>3 DEF DropPipeline, OpWf
      <4>4. op' \in OpType /\ op'.camera \in Cameras /\ op'.link \in Links
        BY <4>1, <4>2, <4>3 DEF OpType
      <4>5. QED
        BY <4>4 DEF OpWf
    <3>2. CASE op.todo = {}
      <4>1. PICK pc \in {"delete", "kick"} : op' = [op EXCEPT !.seen = {}, !.pc = pc]
        BY <1>3, <3>2 DEF DropPipeline
      <4>2. op \in OpType /\ op.camera \in Cameras
        BY <1>3 DEF DropPipeline, OpWf
      <4>3. op' \in OpType /\ op'.camera \in Cameras /\ op'.pc = pc
        BY <4>1, <4>2 DEF OpType
      <4>4. QED
        BY <4>3 DEF OpWf
    <3>3. QED
      BY <3>1, <3>2
  <2>2. viewerHash' \in [Viewers -> [Cameras -> Grant]]
    BY <1>3 DEF DropPipeline, WithoutPath, Grant
  <2>3. viewerTtl' \in [Viewers -> Nat]
    BY <1>3 DEF DropPipeline, TtlOf
  <2>4. cache' \in [Links -> [valid: BOOLEAN, ttl: Nat]]
    BY <1>3 DEF DropPipeline
  <2>5. linkViewers' \in [Links -> SUBSET Viewers] /\ setTtl' \in [Links -> Nat]
    BY <1>3 DEF DropPipeline
  <2>6. QED
    BY <1>3, <2>1, <2>2, <2>3, <2>4, <2>5 DEF DropPipeline
<1>4. ASSUME DeleteRows PROVE TypeInv'
  <2>1. op' \in OpType /\ OpWf'
    <3>1. PICK pc \in {"kick", "drop"} : op' = [op EXCEPT !.pc = pc]
      BY <1>4 DEF DeleteRows
    <3>2. op \in OpType /\ op.camera \in Cameras
      BY <1>4 DEF DeleteRows, OpWf
    <3>3. op' \in OpType /\ op'.camera \in Cameras /\ op'.pc = pc
      BY <3>1, <3>2 DEF OpType
    <3>4. QED
      BY <3>3 DEF OpWf
  <2>2. link' \in [Links -> {"live", "expired", "revoked", "absent"}]
    BY <1>4 DEF DeleteRows
  <2>3. camera' \in [Cameras -> {"enabled", "disabled", "absent"}]
    BY <1>4 DEF DeleteRows
  <2>4. QED
    BY <1>4, <2>1, <2>2, <2>3 DEF DeleteRows
<1>5. ASSUME Kick \/ DropPath \/ PushPath PROVE TypeInv'
  <2>1. op' \in OpType /\ OpWf'
    BY <1>5, OpEnds DEF Kick, DropPath, PushPath
  <2>2. op.camera \in Cameras
    BY <1>5 DEF Kick, DropPath, PushPath, OpWf
  <2>3. paths' \subseteq Cameras /\ rtc' \subseteq Viewers \X Cameras \X Grant
    BY <1>5, <2>2 DEF Kick, DropPath, PushPath, MtxError
  <2>4. QED
    BY <1>5, <2>1, <2>3 DEF Kick, DropPath, PushPath
<1>6. QED
  BY <1>1, <1>2, <1>3, <1>4, <1>5

(* Growing older changes nothing but the age, and that within its bound.    *)
LEMMA AgedPage ==
    ASSUME NEW h \in PageType, InTime(h)
    PROVE  Aged(h) \in PageType /\ Aged(h).pc = h.pc /\ Aged(h).link = h.link
<1>1. CASE h.pc = "idle"
  BY <1>1 DEF Aged
<1>2. CASE h.pc # "idle"
  <2>1. h.age + 1 \in 0..RequestTicks
    BY <1>2, TtlAssumption DEF InTime, PageType
  <2>2. QED
    BY <1>2, <2>1 DEF Aged, PageType
<1>3. QED
  BY <1>1, <1>2

LEMMA AgedMedia ==
    ASSUME NEW h \in MediaType, InTime(h)
    PROVE  /\ Aged(h) \in MediaType
           /\ Aged(h).pc = h.pc /\ Aged(h).link = h.link /\ Aged(h).camera = h.camera
<1>1. CASE h.pc = "idle"
  BY <1>1 DEF Aged
<1>2. CASE h.pc # "idle"
  <2>1. h.age + 1 \in 0..RequestTicks
    BY <1>2, TtlAssumption DEF InTime, MediaType
  <2>2. QED
    BY <1>2, <2>1 DEF Aged, MediaType
<1>3. QED
  BY <1>1, <1>2

LEMMA AgedOp ==
    ASSUME NEW h \in OpType, InTime(h)
    PROVE  /\ Aged(h) \in OpType
           /\ Aged(h).pc = h.pc /\ Aged(h).link = h.link /\ Aged(h).camera = h.camera
<1>1. CASE h.pc = "idle"
  BY <1>1 DEF Aged
<1>2. CASE h.pc # "idle"
  <2>1. h.age + 1 \in 0..RequestTicks
    BY <1>2, TtlAssumption DEF InTime, OpType
  <2>2. QED
    BY <1>2, <2>1 DEF Aged, OpType
<1>3. QED
  BY <1>1, <1>2

LEMMA CountingStops ==
    ASSUME deadFor \in [Links -> 0..MaxDeadFor], NEW l \in Links
    PROVE  DeadForNow(l) \in 0..MaxDeadFor /\ DeadForNow(l) <= deadFor[l] + 1
<1>1. MaxDeadFor \in Nat
  BY TtlAssumption DEF MaxDeadFor, GraceTicks
<1>2. QED
  BY <1>1 DEF DeadForNow

(* The worker and the clock keep the types.                                 *)
LEMMA TypeTime ==
    ASSUME TypeInv, Reconcile \/ (\E l \in Links : LinkExpires(l)) \/ Tick
    PROVE  TypeInv'
<1> USE ParamAssumption, TtlAssumption DEF TypeInv, TypeOK
<1>1. ASSUME Reconcile PROVE TypeInv'
  BY <1>1 DEF Reconcile, OpWf, MediaWf, PageWf, db, redis
<1>2. ASSUME NEW l \in Links, LinkExpires(l) PROVE TypeInv'
  BY <1>2 DEF LinkExpires, OpWf, MediaWf, PageWf, redis, mtx
<1>3. ASSUME Tick PROVE TypeInv'
  <2>1. page' \in [Viewers -> PageType] /\ PageWf'
    <3>1. ASSUME NEW v \in Viewers
          PROVE  /\ Aged(page[v]) \in PageType
                 /\ Aged(page[v]).pc = page[v].pc /\ Aged(page[v]).link = page[v].link
      <4>1. page[v] \in PageType /\ InTime(page[v])
        BY <1>3 DEF Tick
      <4>2. QED
        BY <4>1, AgedPage
    <3>2. page' = [v \in Viewers |-> Aged(page[v])]
      BY <1>3 DEF Tick
    <3>3. QED
      BY <3>1, <3>2 DEF PageWf
  <2>2. media' \in [Viewers -> MediaType] /\ MediaWf'
    <3>1. ASSUME NEW v \in Viewers
          PROVE  /\ Aged(media[v]) \in MediaType
                 /\ Aged(media[v]).pc = media[v].pc /\ Aged(media[v]).link = media[v].link
                 /\ Aged(media[v]).camera = media[v].camera
      <4>1. media[v] \in MediaType /\ InTime(media[v])
        BY <1>3 DEF Tick
      <4>2. QED
        BY <4>1, AgedMedia
    <3>2. media' = [v \in Viewers |-> Aged(media[v])]
      BY <1>3 DEF Tick
    <3>3. QED
      BY <3>1, <3>2 DEF MediaWf
  <2>3. op' \in OpType /\ OpWf'
    <3>1. op \in OpType /\ InTime(op) /\ op' = Aged(op)
      BY <1>3 DEF Tick
    <3>2. op' \in OpType /\ op'.pc = op.pc /\ op'.link = op.link /\ op'.camera = op.camera
      BY <3>1, AgedOp
    <3>3. QED
      BY <3>2 DEF OpWf
  <2>4. viewerTtl' \in [Viewers -> Nat] /\ setTtl' \in [Links -> Nat]
    BY <1>3 DEF Tick, Less
  <2>5. viewerHash' \in [Viewers -> [Cameras -> Grant]]
    BY <1>3 DEF Tick, Grant
  <2>6. linkViewers' \in [Links -> SUBSET Viewers]
    BY <1>3 DEF Tick
  <2>7. cache' \in [Links -> [valid: BOOLEAN, ttl: Nat]]
    <3>1. ASSUME NEW l \in Links PROVE cache'[l] \in [valid: BOOLEAN, ttl: Nat]
      <4>1. cache[l] \in [valid: BOOLEAN, ttl: Nat]
        OBVIOUS
      <4>2. cache'[l] = IF cache[l].ttl <= 1 THEN [valid |-> FALSE, ttl |-> 0]
                        ELSE [cache[l] EXCEPT !.ttl = @ - 1]
        BY <1>3 DEF Tick
      <4>3. CASE cache[l].ttl <= 1
        BY <4>2, <4>3
      <4>4. CASE ~(cache[l].ttl <= 1)
        <5>1. cache[l].ttl - 1 \in Nat
          BY <4>1, <4>4
        <5>2. QED
          BY <4>1, <4>2, <4>4, <5>1
      <4>5. QED
        BY <4>3, <4>4
    <3>2. QED
      BY <1>3, <3>1 DEF Tick
  <2>8. deadFor' \in [Links -> 0..MaxDeadFor]
    BY <1>3, CountingStops DEF Tick
  <2>9. QED
    BY <1>3, <2>1, <2>2, <2>3, <2>4, <2>5, <2>6, <2>7, <2>8 DEF Tick, db, mtx
<1>4. QED
  BY <1>1, <1>2, <1>3

LEMMA TypeNext ==
    ASSUME TypeInv, [Next]_vars
    PROVE  TypeInv'
<1>1. CASE Next
  BY <1>1, TypePage, TypeMedia, TypePanelBegins, TypePanelGoesOn, TypeTime
     DEF Next, PanelStep
<1>2. CASE UNCHANGED vars
  BY <1>2 DEF vars, TypeInv, TypeOK, OpWf, MediaWf, PageWf
<1>3. QED
  BY <1>1, <1>2

(* Every reachable state has the types of TypeOK, whatever the constants.   *)
THEOREM TypeCorrect == Spec => []TypeOK
<1>1. TypeInv /\ [Next]_vars => TypeInv'
  BY TypeNext
<1>2. TypeInv => TypeOK
  BY DEF TypeInv
<1>3. QED
  BY TypeInit, <1>1, <1>2, PTL DEF Spec

-------------------------------------------------------------------------------
(* The grace period.  A verdict that is read from the rows is as old as the *)
(* request that carries it; a verdict in the cache was as old as that when  *)
(* it was written, and its remaining time shrinks as fast as deadFor grows; *)
(* a request that a verdict let through grows older from there.             *)

FreshRead ==
    \A v \in Viewers :
        media[v].pc = "fill" /\ media[v].live => deadFor[media[v].link] <= media[v].age

FreshPage ==
    \A v \in Viewers : page[v].pc # "idle" => deadFor[page[v].link] <= page[v].age

WatchableIsAlive == \A l \in Links : Watchable(l) => deadFor[l] = 0

GraceInv ==
    /\ WatchableIsAlive
    /\ FreshRead
    /\ FreshPage
    /\ StaleVerdictBounded
    /\ DeadLinkAccessBounded

LEMMA GraceInit == Init => GraceInv
BY ParamAssumption, TtlAssumption
   DEF Init, GraceInv, WatchableIsAlive, FreshRead, FreshPage, StaleVerdictBounded,
       DeadLinkAccessBounded, NoPage, NoMedia, GraceTicks

(* The numbers of the invariant are numbers.                                *)
LEMMA Numbers ==
    ASSUME TypeInv
    PROVE  /\ \A l \in Links : deadFor[l] \in Nat /\ cache[l].ttl \in Nat
           /\ \A v \in Viewers : page[v].age \in Nat /\ media[v].age \in Nat
           /\ \A v \in Viewers : page[v].age <= RequestTicks /\ media[v].age <= RequestTicks
           /\ GraceTicks \in Nat /\ CacheTtl \in Nat /\ RequestTicks \in Nat
           /\ RequestTicks <= GraceTicks
<1>1. GraceTicks \in Nat /\ CacheTtl \in Nat /\ RequestTicks \in Nat
      /\ RequestTicks <= GraceTicks
  BY TtlAssumption DEF GraceTicks
<1>2. \A l \in Links : deadFor[l] \in Nat /\ cache[l].ttl \in Nat
  BY <1>1 DEF TypeInv, TypeOK, MaxDeadFor
<1>3. \A v \in Viewers : page[v].age \in 0..RequestTicks /\ media[v].age \in 0..RequestTicks
  BY DEF TypeInv, TypeOK, PageType, MediaType
<1>4. QED
  BY <1>1, <1>2, <1>3

(* A page request carries what it read when it was opened.                  *)
LEMMA GracePage ==
    ASSUME TypeInv, GraceInv, NEW v \in Viewers, PageStep(v)
    PROVE  GraceInv'
<1>1. UNCHANGED <<link, camera, cache, media, deadFor>>
  BY DEF PageStep, PageOpen, PageAuthorize, PageCapacity, PageGrant, OperatorGrant,
         db, redis, mtx
<1>2. /\ WatchableIsAlive' /\ FreshRead' /\ StaleVerdictBounded' /\ DeadLinkAccessBounded'
  BY <1>1 DEF GraceInv, WatchableIsAlive, FreshRead, StaleVerdictBounded,
              DeadLinkAccessBounded, Watchable
<1>3. page \in [Viewers -> PageType]
  BY DEF TypeInv, TypeOK
<1>4. FreshPage'
  <2>1. ASSUME NEW l \in Links, PageOpen(v, l) PROVE FreshPage'
    <3>1. deadFor[l] = 0
      BY <2>1 DEF PageOpen, GraceInv, WatchableIsAlive
    <3>2. PICK way : page' = [page EXCEPT ![v] =
                        [pc |-> "found", link |-> l, way |-> way, age |-> 0]]
      BY <2>1 DEF PageOpen
    <3>3. QED
      BY <1>1, <1>3, <3>1, <3>2 DEF GraceInv, FreshPage
  <2>2. ASSUME PageAuthorize(v) \/ PageCapacity(v) \/ PageGrant(v) PROVE FreshPage'
    <3>1. \A w \in Viewers : w # v => page'[w] = page[w]
      BY <1>3, <2>2 DEF PageAuthorize, PageCapacity, PageGrant
    <3>2. page'[v].pc # "idle" =>
            page[v].pc # "idle" /\ page'[v].link = page[v].link /\ page'[v].age = page[v].age
      <4>1. page[v] \in PageType
        BY <1>3
      <4>2. \/ page'[v] = NoPage
            \/ page'[v] = [page[v] EXCEPT !.pc = "capacity", !.way = "reload"]
            \/ page'[v] = [page[v] EXCEPT !.pc = "capacity"]
            \/ page'[v] = [page[v] EXCEPT !.pc = "grant"]
        BY <1>3, <2>2 DEF PageAuthorize, PageCapacity, PageGrant
      <4>3. page[v].pc # "idle"
        BY <2>2 DEF PageAuthorize, PageCapacity, PageGrant
      <4>4. CASE page'[v] = NoPage
        BY <4>4 DEF NoPage
      <4>5. CASE page'[v] = [page[v] EXCEPT !.pc = "capacity", !.way = "reload"]
        BY <4>1, <4>3, <4>5 DEF PageType
      <4>6. CASE \E pc \in {"capacity", "grant"} : page'[v] = [page[v] EXCEPT !.pc = pc]
        BY <4>1, <4>3, <4>6 DEF PageType
      <4>7. QED
        BY <4>2, <4>4, <4>5, <4>6
    <3>3. QED
      BY <1>1, <3>1, <3>2 DEF GraceInv, FreshPage
  <2>3. ASSUME NEW c \in Cameras, OperatorGrant(v, c) PROVE FreshPage'
    BY <1>1, <2>3 DEF OperatorGrant, GraceInv, FreshPage
  <2>4. QED
    BY <2>1, <2>2, <2>3 DEF PageStep
<1>5. QED
  BY <1>2, <1>4 DEF GraceInv

(* What a verdict does to the request that asked for it.                    *)
LEMMA DecideRequest ==
    ASSUME TypeInv, NEW v \in Viewers, NEW live \in BOOLEAN, Decide(v, live)
    PROVE  /\ \A w \in Viewers : w # v => media'[w] = media[w]
           /\ media'[v].pc \in {"idle", "allowed"}
           /\ media'[v].pc = "allowed" =>
                live /\ media'[v].link = media[v].link /\ media'[v].age = media[v].age
<1>1. media \in [Viewers -> MediaType] /\ media[v] \in MediaType
  BY DEF TypeInv, TypeOK
<1>2. \A w \in Viewers : w # v => media'[w] = media[w]
  BY <1>1 DEF Decide
<1>3. CASE live /\ media[v].ipOk
  <2>1. media'[v] = [media[v] EXCEPT !.pc = "allowed", !.live = FALSE]
    BY <1>1, <1>3 DEF Decide
  <2>2. QED
    BY <1>1, <1>2, <1>3, <2>1 DEF MediaType
<1>4. CASE ~(live /\ media[v].ipOk)
  <2>1. media'[v] = NoMedia
    BY <1>1, <1>4 DEF Decide
  <2>2. QED
    BY <1>2, <2>1 DEF NoMedia
<1>5. QED
  BY <1>3, <1>4

(* A media request passes on the age of the verdict it was given.           *)
LEMMA GraceMedia ==
    ASSUME TypeInv, GraceInv, NEW v \in Viewers, MediaStep(v)
    PROVE  GraceInv'
<1>1. UNCHANGED <<link, camera, page, deadFor>>
  BY DEF MediaStep, MediaLookup, MediaOperator, MediaHit, MediaMiss, MediaFill, MediaServe,
         Leave, db, redis, mtx
<1>2. WatchableIsAlive' /\ FreshPage'
  BY <1>1 DEF GraceInv, WatchableIsAlive, FreshPage, Watchable
<1>3. media \in [Viewers -> MediaType] /\ media[v] \in MediaType
  BY DEF TypeInv, TypeOK
<1>4. ASSUME cache' = cache, \A w \in Viewers : w # v => media'[w] = media[w],
             media'[v].pc \notin {"fill", "allowed"} \/ media'[v].link = Operator
                \/ /\ media'[v].pc = "fill"
                   /\ media'[v].live => deadFor[media'[v].link] = 0
                   /\ media'[v].age \in Nat
                \/ /\ media'[v].pc = "allowed"
                   /\ deadFor[media'[v].link] <= GraceTicks + media'[v].age,
             media'[v].pc = "fill" => media'[v].link \in Links
      PROVE  GraceInv'
  <2>1. StaleVerdictBounded'
    BY <1>1, <1>4 DEF GraceInv, StaleVerdictBounded
  <2>2. FreshRead'
    BY <1>1, <1>4, ParamAssumption DEF GraceInv, FreshRead
  <2>3. DeadLinkAccessBounded'
    BY <1>1, <1>4, ParamAssumption DEF GraceInv, DeadLinkAccessBounded
  <2>4. QED
    BY <1>2, <2>1, <2>2, <2>3 DEF GraceInv
<1>5. ASSUME NEW c \in Cameras, MediaLookup(v, c) PROVE GraceInv'
  <2>1. PICK ip \in Addresses : media' = [media EXCEPT ![v] =
            [pc |-> "lookup", link |-> viewerHash[v][c], camera |-> c, live |-> FALSE,
             ipOk |-> Admits(viewerHash[v][c], ip), age |-> 0]]
    BY <1>5 DEF MediaLookup
  <2>2. media'[v].pc = "lookup" /\ \A w \in Viewers : w # v => media'[w] = media[w]
    BY <1>3, <2>1
  <2>3. cache' = cache
    BY <1>5 DEF MediaLookup, redis
  <2>4. QED
    BY <1>4, <2>2, <2>3
<1>6. ASSUME MediaOperator(v) PROVE GraceInv'
  <2>1. media' = [media EXCEPT ![v].pc = "allowed"] /\ media[v].link = Operator /\ cache' = cache
    BY <1>6 DEF MediaOperator
  <2>2. /\ \A w \in Viewers : w # v => media'[w] = media[w]
        /\ media'[v].pc = "allowed" /\ media'[v].link = Operator
    BY <1>3, <2>1 DEF MediaType
  <2>3. QED
    BY <1>4, <2>1, <2>2
<1>7. ASSUME MediaHit(v) PROVE GraceInv'
  <2>1. /\ media[v].link \in Links /\ cache[media[v].link].ttl > 0 /\ cache' = cache
        /\ cache[media[v].link].valid \in BOOLEAN
        /\ Decide(v, cache[media[v].link].valid)
    BY <1>7 DEF MediaHit, TypeInv, TypeOK
  <2>2. cache[media[v].link].valid => deadFor[media[v].link] <= GraceTicks + media[v].age
    BY <2>1, Numbers DEF GraceInv, StaleVerdictBounded
  <2>3. QED
    BY <1>4, <2>1, <2>2, DecideRequest
<1>8. ASSUME MediaMiss(v) PROVE GraceInv'
  <2>1. /\ media[v].link \in Links /\ cache' = cache
        /\ media' = [media EXCEPT ![v].pc = "fill", ![v].live = Watchable(media[v].link)]
    BY <1>8 DEF MediaMiss, redis
  <2>2. /\ \A w \in Viewers : w # v => media'[w] = media[w]
        /\ media'[v].pc = "fill" /\ media'[v].link = media[v].link
        /\ media'[v].age = media[v].age
        /\ media'[v].live = Watchable(media[v].link)
    BY <1>3, <2>1 DEF MediaType
  <2>3. media'[v].live => deadFor[media[v].link] = 0
    BY <2>1, <2>2 DEF GraceInv, WatchableIsAlive
  <2>4. QED
    BY <1>4, <2>1, <2>2, <2>3, Numbers
<1>9. ASSUME MediaFill(v) PROVE GraceInv'
  <2>1. /\ media[v].link \in Links /\ media[v].live \in BOOLEAN /\ media[v].pc = "fill"
        /\ Decide(v, media[v].live)
    BY <1>3, <1>9 DEF MediaFill, TypeInv, MediaWf, MediaType
  <2>2. media[v].live => deadFor[media[v].link] <= media[v].age
    BY <2>1 DEF GraceInv, FreshRead
  <2>3. /\ cache'[media[v].link].valid = media[v].live
        /\ media[v].live => cache'[media[v].link].ttl = CacheTtl
        /\ \A l \in Links : l # media[v].link => cache'[l] = cache[l]
    BY <1>9, <2>1 DEF MediaFill, TypeInv, TypeOK
  <2>4. StaleVerdictBounded'
    <3>1. media[v].live => deadFor[media[v].link] + CacheTtl <= GraceTicks
      BY <2>1, <2>2, Numbers DEF GraceTicks
    <3>2. QED
      BY <1>1, <2>3, <3>1 DEF GraceInv, StaleVerdictBounded
  <2>5. FreshRead'
    BY <1>1, <2>1, DecideRequest DEF GraceInv, FreshRead
  <2>6. DeadLinkAccessBounded'
    <3>1. media'[v].pc = "allowed" => deadFor[media'[v].link] <= GraceTicks + media'[v].age
      BY <2>1, <2>2, Numbers, DecideRequest
    <3>2. QED
      BY <1>1, <2>1, <3>1, DecideRequest DEF GraceInv, DeadLinkAccessBounded
  <2>7. QED
    BY <1>2, <2>4, <2>5, <2>6 DEF GraceInv
<1>10. ASSUME MediaServe(v) PROVE GraceInv'
  <2>1. media' = [media EXCEPT ![v] = NoMedia] /\ cache' = cache
    BY <1>10 DEF MediaServe, redis
  <2>2. QED
    BY <1>3, <1>4, <2>1 DEF NoMedia
<1>11. ASSUME Leave(v) PROVE GraceInv'
  BY <1>1, <1>2, <1>11
     DEF Leave, redis, GraceInv, FreshRead, StaleVerdictBounded, DeadLinkAccessBounded
<1>12. QED
  BY <1>5, <1>6, <1>7, <1>8, <1>9, <1>10, <1>11 DEF MediaStep

(* The panel can only take verdicts away and make links unwatchable; when a *)
(* camera is switched on again its live links are alive at once.            *)
LEMMA GracePanel ==
    ASSUME TypeInv, GraceInv, PanelStep \/ Reconcile \/ (\E l \in Links : LinkExpires(l))
    PROVE  GraceInv'
<1>1. UNCHANGED <<page, media>>
  BY DEF PanelStep, Revoke, Rotate, LinkDelete, CameraDelete, CameraDisable, CameraEnable,
         Invalidate, DropMembers, DropPipeline, DeleteRows, Kick, DropPath, PushPath,
         Reconcile, LinkExpires
<1>2. \A l \in Links : cache'[l] = cache[l] \/ cache'[l].ttl = 0
  <2>1. CASE Invalidate \/ DropPipeline
    <3>1. cache' = [cache EXCEPT ![op.link].ttl = 0, ![op.link].valid = FALSE]
      BY <2>1 DEF Invalidate, DropPipeline
    <3>2. cache \in [Links -> [valid: BOOLEAN, ttl: Nat]]
      BY DEF TypeInv, TypeOK
    <3>3. ASSUME NEW l \in Links PROVE cache'[l] = cache[l] \/ cache'[l].ttl = 0
      <4>1. CASE l = op.link
        BY <3>1, <3>2, <4>1
      <4>2. CASE l # op.link
        BY <3>1, <3>2, <4>2
      <4>3. QED
        BY <4>1, <4>2
    <3>4. QED
      BY <3>3
  <2>2. CASE ~(Invalidate \/ DropPipeline)
    <3>1. cache' = cache
      BY <2>2 DEF PanelStep, Revoke, Rotate, LinkDelete, CameraDelete, CameraDisable,
           CameraEnable, DropMembers, DeleteRows, Kick, DropPath, PushPath, Reconcile,
           LinkExpires, redis
    <3>2. QED
      BY <3>1
  <2>3. QED
    BY <2>1, <2>2
<1>3. \A l \in Links : deadFor'[l] = deadFor[l] \/ deadFor'[l] = 0
  BY DEF TypeInv, TypeOK, PanelStep, Revoke, Rotate, LinkDelete, CameraDelete,
         CameraDisable, CameraEnable, Invalidate, DropMembers, DropPipeline, DeleteRows,
         Kick, DropPath, PushPath, Reconcile, LinkExpires
<1>4. WatchableIsAlive'
  <2>1. ASSUME NEW l \in Links, Watchable(l)' PROVE deadFor'[l] = 0
    <3>1. ASSUME NEW c \in Cameras, CameraEnable(c) PROVE deadFor'[l] = 0
      <4>1. CASE LinkCamera[l] = c
        BY <2>1, <3>1, <4>1 DEF CameraEnable, Watchable
      <4>2. CASE LinkCamera[l] # c
        <5>1. Watchable(l)
          BY <2>1, <3>1, <4>2 DEF CameraEnable, Watchable, TypeInv, TypeOK
        <5>2. QED
          BY <1>3, <5>1 DEF GraceInv, WatchableIsAlive
      <4>3. QED
        BY <4>1, <4>2
    <3>2. CASE ~ \E c \in Cameras : CameraEnable(c)
      <4>1. Watchable(l)
        <5> USE ParamAssumption DEF TypeInv, TypeOK, Watchable
        <5>1. CASE DeleteRows
          BY <2>1, <5>1 DEF DeleteRows
        <5>2. CASE \E c \in Cameras : CameraDisable(c)
          BY <2>1, <5>2 DEF CameraDisable
        <5>3. CASE \E k \in Links : Revoke(k) \/ LinkExpires(k)
          BY <2>1, <5>3 DEF Revoke, LinkExpires
        <5>4. CASE UNCHANGED <<link, camera>>
          BY <2>1, <5>4
        <5>5. QED
          BY <3>2, <5>1, <5>2, <5>3, <5>4
             DEF PanelStep, Rotate, LinkDelete, CameraDelete, Invalidate, DropMembers,
                 DropPipeline, Kick, DropPath, PushPath, Reconcile, db
      <4>2. QED
        BY <1>3, <4>1 DEF GraceInv, WatchableIsAlive
    <3>3. QED
      BY <3>1, <3>2
  <2>2. QED
    BY <2>1 DEF WatchableIsAlive
<1>5. FreshRead' /\ FreshPage' /\ DeadLinkAccessBounded'
  <2>1. FreshRead'
    BY <1>1, <1>3, Numbers DEF GraceInv, FreshRead, TypeInv, MediaWf
  <2>2. FreshPage'
    BY <1>1, <1>3, Numbers DEF GraceInv, FreshPage, TypeInv, PageWf
  <2>3. DeadLinkAccessBounded'
    BY <1>1, <1>3, Numbers DEF GraceInv, DeadLinkAccessBounded
  <2>4. QED
    BY <2>1, <2>2, <2>3
<1>6. StaleVerdictBounded'
  BY <1>2, <1>3, Numbers DEF GraceInv, StaleVerdictBounded
<1>7. QED
  BY <1>4, <1>5, <1>6 DEF GraceInv

(* A tick makes deadFor, and the age of every request, at most one more,    *)
(* and the time left of a verdict one less.                                 *)
LEMMA GraceTick ==
    ASSUME TypeInv, GraceInv, Tick
    PROVE  GraceInv'
<1>1. \A l \in Links : /\ deadFor'[l] <= deadFor[l] + 1
                       /\ deadFor'[l] \in Nat
                       /\ Watchable(l) => deadFor'[l] = 0
  <2>1. \A l \in Links : deadFor'[l] = DeadForNow(l)
    BY DEF Tick
  <2>2. \A l \in Links : Watchable(l) => DeadForNow(l) = 0
    BY DEF DeadForNow
  <2>3. deadFor \in [Links -> 0..MaxDeadFor] /\ MaxDeadFor \in Nat
    BY TtlAssumption DEF TypeInv, TypeOK, MaxDeadFor, GraceTicks
  <2>4. \A l \in Links : DeadForNow(l) \in 0..MaxDeadFor /\ DeadForNow(l) <= deadFor[l] + 1
    BY <2>3, CountingStops
  <2>5. QED
    BY <2>1, <2>2, <2>3, <2>4
<1>2. WatchableIsAlive'
  BY <1>1 DEF Tick, db, WatchableIsAlive, Watchable
<1>3. FreshPage'
  <2>1. ASSUME NEW v \in Viewers, page'[v].pc # "idle"
        PROVE  deadFor'[page'[v].link] <= page'[v].age
    <3>1. page'[v] = Aged(page[v]) /\ page[v] \in PageType
      BY DEF Tick, TypeInv, TypeOK
    <3>2. page[v].pc # "idle" /\ page'[v].link = page[v].link /\ page'[v].age = page[v].age + 1
      BY <2>1, <3>1 DEF Aged, PageType
    <3>3. QED
      BY <1>1, <3>2, Numbers DEF GraceInv, FreshPage, TypeInv, PageWf
  <2>2. QED
    BY <2>1 DEF FreshPage
<1>4. ASSUME NEW v \in Viewers, media'[v].pc # "idle"
      PROVE  /\ media'[v].pc = media[v].pc /\ media'[v].link = media[v].link
             /\ media'[v].live = media[v].live /\ media'[v].age = media[v].age + 1
  <2>1. media'[v] = Aged(media[v]) /\ media[v] \in MediaType
    BY DEF Tick, TypeInv, TypeOK
  <2>2. QED
    BY <1>4, <2>1 DEF Aged, MediaType
<1>5. FreshRead'
  BY <1>1, <1>4, Numbers DEF GraceInv, FreshRead, TypeInv, MediaWf
<1>6. DeadLinkAccessBounded'
  BY <1>1, <1>4, Numbers DEF GraceInv, DeadLinkAccessBounded, Tick
<1>7. StaleVerdictBounded'
  <2>1. ASSUME NEW l \in Links, cache'[l].valid, cache'[l].ttl > 0
        PROVE  deadFor'[l] + cache'[l].ttl <= GraceTicks
    <3>1. cache[l] \in [valid: BOOLEAN, ttl: Nat]
      BY DEF TypeInv, TypeOK
    <3>2. cache'[l] = IF cache[l].ttl <= 1 THEN [valid |-> FALSE, ttl |-> 0]
                      ELSE [cache[l] EXCEPT !.ttl = @ - 1]
      BY DEF Tick
    <3>3. ~(cache[l].ttl <= 1)
      BY <2>1, <3>2
    <3>4. cache[l].valid /\ cache'[l].ttl = cache[l].ttl - 1 /\ cache[l].ttl > 0
      BY <2>1, <3>1, <3>2, <3>3
    <3>5. deadFor[l] + cache[l].ttl <= GraceTicks
      BY <3>4 DEF GraceInv, StaleVerdictBounded
    <3>6. QED
      BY <1>1, <3>1, <3>4, <3>5, Numbers
  <2>2. QED
    BY <2>1 DEF StaleVerdictBounded
<1>8. QED
  BY <1>2, <1>3, <1>5, <1>6, <1>7 DEF GraceInv

LEMMA GraceNext ==
    ASSUME TypeInv, GraceInv, [Next]_vars
    PROVE  GraceInv'
<1>1. CASE Next
  BY <1>1, GracePage, GraceMedia, GracePanel, GraceTick DEF Next
<1>2. CASE UNCHANGED vars
  BY <1>2 DEF vars, GraceInv, WatchableIsAlive, FreshRead, FreshPage, StaleVerdictBounded,
              DeadLinkAccessBounded, Watchable
<1>3. QED
  BY <1>1, <1>2

LEMMA GraceAlways == Spec => [](TypeInv /\ GraceInv)
<1>1. Init => TypeInv /\ GraceInv
  BY TypeInit, GraceInit
<1>2. TypeInv /\ GraceInv /\ [Next]_vars => (TypeInv /\ GraceInv)'
  BY TypeNext, GraceNext
<1>3. QED
  BY <1>1, <1>2, PTL DEF Spec

(* However the panel, the viewers and the clock interleave, a media request *)
(* is let through on a dead link for the life of one cached verdict and the *)
(* duration of two handlers at the most.                                    *)
THEOREM DeadLinkAccess == Spec => []DeadLinkAccessBounded
<1>1. TypeInv /\ GraceInv => DeadLinkAccessBounded
  BY DEF GraceInv
<1>2. QED
  BY <1>1, GraceAlways, PTL

(* The cache is never the reason for more than that.                        *)
THEOREM StaleVerdict == Spec => []StaleVerdictBounded
<1>1. TypeInv /\ GraceInv => StaleVerdictBounded
  BY DEF GraceInv
<1>2. QED
  BY <1>1, GraceAlways, PTL

(* A dead link is opened only by a request that was running when it died.   *)
THEOREM LateGrant == Spec => []LateGrantBounded
<1>1. TypeInv /\ GraceInv => LateGrantBounded
  BY DEF GraceInv, FreshPage, LateGrantBounded
<1>2. QED
  BY <1>1, GraceAlways, PTL

-------------------------------------------------------------------------------
(* Who holds a grant.  What a page request may still do depends on how it   *)
(* came in: with the current address it was sent that address, as a reload  *)
(* it holds the grant already, and with neither it does not get further     *)
(* than "found".                                                            *)

PageEarned ==
    \A v \in Viewers :
        LET p == page[v] IN
        /\ p.pc = "found" => p.way # "reload"
        /\ p.pc \in {"found", "capacity"} /\ p.way \in {"token", "form"} => v \in Invited[p.link]
        /\ p.pc = "capacity" => p.way # "bare"
        /\ p.pc = "capacity" /\ p.way = "reload" => MayWatch(v, p.link)
        /\ p.pc = "grant" => MayWatch(v, p.link)

InvitedInv == PageEarned /\ GrantOnlyToInvited

LEMMA InvitedInit == Init => InvitedInv
BY ParamAssumption
   DEF Init, InvitedInv, PageEarned, GrantOnlyToInvited, Holders, NoPage

(* Everything but the two grants only takes grants away.                    *)
LEMMA InvitedKept ==
    ASSUME TypeInv, InvitedInv, PageEarned',
           \A v \in Viewers, c \in Cameras : viewerHash'[v][c] \notin Links
                                             \/ viewerHash'[v][c] = viewerHash[v][c],
           \A l \in Links : linkViewers'[l] \subseteq linkViewers[l]
    PROVE  InvitedInv'
<1>1. ASSUME NEW v \in Viewers, NEW l \in Links, v \in Holders(l)' \cup linkViewers'[l]
      PROVE  MayWatch(v, l)
  <2>1. v \in Holders(l) \cup linkViewers[l]
    BY <1>1 DEF Holders
  <2>2. QED
    BY <2>1 DEF InvitedInv, GrantOnlyToInvited
<1>2. GrantOnlyToInvited'
  BY <1>1 DEF GrantOnlyToInvited, MayWatch
<1>3. QED
  BY <1>2 DEF InvitedInv

LEMMA InvitedPage ==
    ASSUME TypeInv, InvitedInv, NEW v \in Viewers, PageStep(v)
    PROVE  InvitedInv'
<1>1. page \in [Viewers -> PageType] /\ page[v] \in PageType
  BY DEF TypeInv, TypeOK
<1>2. ASSUME \A w \in Viewers : w # v => page'[w] = page[w],
             LET p == page'[v] IN
               /\ p.pc = "found" => p.way # "reload"
               /\ p.pc \in {"found", "capacity"} /\ p.way \in {"token", "form"}
                    => v \in Invited[p.link]
               /\ p.pc = "capacity" => p.way # "bare"
               /\ p.pc = "capacity" /\ p.way = "reload" => MayWatch(v, p.link)
               /\ p.pc = "grant" => MayWatch(v, p.link)
      PROVE  PageEarned'
  BY <1>2 DEF InvitedInv, PageEarned, MayWatch
<1>3. ASSUME NEW l \in Links, PageOpen(v, l) PROVE InvitedInv'
  <2>1. PICK t \in TokensOf(v, l), way \in {"bare", "token", "form"} :
             /\ t # token[l] => way = "bare"
             /\ page' = [page EXCEPT ![v] =
                            [pc |-> "found", link |-> l, way |-> way, age |-> 0]]
    BY <1>3 DEF PageOpen
  <2>2. way \in {"token", "form"} => v \in Invited[l]
    <3>1. token[l] \in Nat \ {0}
      BY TtlAssumption DEF TypeInv, TypeOK
    <3>2. QED
      BY <2>1, <3>1 DEF TokensOf, NoToken
  <2>3. PageEarned'
    BY <1>1, <1>2, <2>1, <2>2
  <2>4. QED
    BY <1>3, <2>3, InvitedKept DEF PageOpen, redis
<1>4. ASSUME PageAuthorize(v) PROVE InvitedInv'
  <2>1. page[v].pc = "found" /\ page[v].link \in Links
    BY <1>4 DEF PageAuthorize, TypeInv, PageWf
  <2>2. AlreadyGranted(v, page[v].link) => MayWatch(v, page[v].link)
    BY <2>1, ParamAssumption DEF AlreadyGranted, InvitedInv, GrantOnlyToInvited, Holders
  <2>3. PageEarned'
    <3>1. CASE page[v].way # "form" /\ AlreadyGranted(v, page[v].link)
      <4>1. page' = [page EXCEPT ![v] = [page[v] EXCEPT !.pc = "capacity", !.way = "reload"]]
        BY <1>4, <3>1 DEF PageAuthorize
      <4>2. LET p == page'[v] IN
              p.pc = "capacity" /\ p.way = "reload" /\ p.link = page[v].link
        BY <1>1, <4>1 DEF PageType
      <4>3. QED
        BY <1>1, <1>2, <2>2, <3>1, <4>1, <4>2
    <3>2. CASE page' = [page EXCEPT ![v] = NoPage]
      BY <1>1, <1>2, <3>2 DEF NoPage
    <3>3. CASE /\ page' = [page EXCEPT ![v] = [page[v] EXCEPT !.pc = "capacity"]]
               /\ page[v].way # "bare"
      <4>1. LET p == page'[v] IN
              p.pc = "capacity" /\ p.way = page[v].way /\ p.link = page[v].link
        BY <1>1, <3>3 DEF PageType
      <4>2. page[v].way \in {"token", "form"} /\ v \in Invited[page[v].link]
        BY <1>1, <2>1, <3>3 DEF PageType, InvitedInv, PageEarned
      <4>3. QED
        BY <1>1, <1>2, <3>3, <4>1, <4>2
    <3>4. QED
      BY <1>4, <3>1, <3>2, <3>3 DEF PageAuthorize
  <2>4. QED
    BY <1>4, <2>3, InvitedKept DEF PageAuthorize, redis
<1>5. ASSUME PageCapacity(v) PROVE InvitedInv'
  <2>1. page[v].pc = "capacity"
    BY <1>5 DEF PageCapacity
  <2>2. PageEarned'
    <3>1. CASE page' = [page EXCEPT ![v] = NoPage]
      BY <1>1, <1>2, <3>1 DEF NoPage
    <3>2. CASE /\ page' = [page EXCEPT ![v] = [page[v] EXCEPT !.pc = "grant"]]
               /\ ~PasswordAsked(v)
      <4>1. MayWatch(v, page[v].link)
        <5>1. page[v].way \in {"token", "form", "reload"}
          BY <1>1, <2>1 DEF PageType, InvitedInv, PageEarned
        <5>2. CASE page[v].way = "reload"
          BY <2>1, <5>2 DEF InvitedInv, PageEarned
        <5>3. CASE page[v].way \in {"token", "form"}
          BY <2>1, <3>2, <5>3 DEF InvitedInv, PageEarned, PasswordAsked, MayWatch
        <5>4. QED
          BY <5>1, <5>2, <5>3
      <4>2. page'[v].pc = "grant" /\ page'[v].link = page[v].link
        BY <1>1, <3>2 DEF PageType
      <4>3. QED
        BY <1>1, <1>2, <3>2, <4>1, <4>2
    <3>3. QED
      BY <1>5, <3>1, <3>2 DEF PageCapacity
  <2>3. QED
    BY <1>5, <2>2, InvitedKept DEF PageCapacity, redis
<1>6. ASSUME PageGrant(v) PROVE InvitedInv'
  <2>1. page[v].link \in Links /\ MayWatch(v, page[v].link)
    BY <1>6 DEF PageGrant, TypeInv, PageWf, InvitedInv, PageEarned
  <2>2. PageEarned'
    BY <1>1, <1>2, <1>6 DEF PageGrant, NoPage
  <2>3. ASSUME NEW w \in Viewers, NEW l \in Links, w \in Holders(l)' \cup linkViewers'[l]
        PROVE  MayWatch(w, l)
    <3>1. w \in Holders(l) \cup linkViewers[l] \/ (w = v /\ l = page[v].link)
      BY <1>6, <2>1, <2>3 DEF PageGrant, Holders, TypeInv, TypeOK
    <3>2. QED
      BY <2>1, <3>1 DEF InvitedInv, GrantOnlyToInvited
  <2>4. QED
    BY <2>2, <2>3 DEF InvitedInv, GrantOnlyToInvited, MayWatch
<1>7. ASSUME NEW c \in Cameras, OperatorGrant(v, c) PROVE InvitedInv'
  <2>1. PageEarned'
    BY <1>7 DEF OperatorGrant, InvitedInv, PageEarned, MayWatch
  <2>2. \A w \in Viewers, d \in Cameras : viewerHash'[w][d] \notin Links
                                          \/ viewerHash'[w][d] = viewerHash[w][d]
    BY <1>7, ParamAssumption DEF OperatorGrant, TypeInv, TypeOK
  <2>3. QED
    BY <1>7, <2>1, <2>2, InvitedKept DEF OperatorGrant
<1>8. QED
  BY <1>3, <1>4, <1>5, <1>6, <1>7 DEF PageStep

(* Media requests, the panel and the clock.                                 *)
LEMMA InvitedOther ==
    ASSUME TypeInv, InvitedInv,
           \/ \E v \in Viewers : MediaStep(v)
           \/ PanelStep \/ Reconcile \/ (\E l \in Links : LinkExpires(l)) \/ Tick
    PROVE  InvitedInv'
<1>1. PageEarned'
  <2>1. CASE page' = page
    BY <2>1 DEF InvitedInv, PageEarned, MayWatch
  <2>2. CASE Tick
    <3>1. ASSUME NEW v \in Viewers
          PROVE  /\ page'[v].pc = page[v].pc /\ page'[v].link = page[v].link
                 /\ page'[v].way = page[v].way
      <4>1. page'[v] = Aged(page[v]) /\ page[v] \in PageType
        BY <2>2 DEF Tick, TypeInv, TypeOK
      <4>2. QED
        BY <4>1 DEF Aged, PageType
    <3>2. QED
      BY <3>1 DEF InvitedInv, PageEarned, MayWatch
  <2>3. QED
    BY <2>1, <2>2
       DEF MediaStep, MediaLookup, MediaOperator, MediaHit, MediaMiss, MediaFill, MediaServe,
           Leave, PanelStep, Revoke, Rotate, LinkDelete, CameraDelete, CameraDisable,
           CameraEnable, Invalidate, DropMembers, DropPipeline, DeleteRows, Kick, DropPath,
           PushPath, Reconcile, LinkExpires
<1>2. CASE UNCHANGED <<viewerHash, linkViewers>>
  BY <1>1, <1>2, InvitedKept
<1>3. CASE DropPipeline
  <2>1. \A v \in Viewers, c \in Cameras : viewerHash'[v][c] \notin Links
                                          \/ viewerHash'[v][c] = viewerHash[v][c]
    BY <1>3, ParamAssumption DEF DropPipeline, WithoutPath, TypeInv, TypeOK
  <2>2. \A l \in Links : linkViewers'[l] \subseteq linkViewers[l]
    BY <1>3 DEF DropPipeline, TypeInv, TypeOK
  <2>3. QED
    BY <1>1, <2>1, <2>2, InvitedKept
<1>4. CASE Tick
  <2>0. /\ viewerHash' = [v \in Viewers |->
                IF viewerTtl[v] <= 1 THEN [c \in Cameras |-> None] ELSE viewerHash[v]]
        /\ linkViewers' = [l \in Links |-> IF setTtl[l] <= 1 THEN {} ELSE linkViewers[l]]
    BY <1>4 DEF Tick
  <2>1. ASSUME NEW v \in Viewers, NEW c \in Cameras
        PROVE  viewerHash'[v][c] \notin Links \/ viewerHash'[v][c] = viewerHash[v][c]
    BY <2>0, ParamAssumption
  <2>2. ASSUME NEW l \in Links PROVE linkViewers'[l] \subseteq linkViewers[l]
    BY <2>0
  <2>3. QED
    BY <1>1, <2>1, <2>2, InvitedKept
<1>5. QED
  BY <1>2, <1>3, <1>4
     DEF MediaStep, MediaLookup, MediaOperator, MediaHit, MediaMiss, MediaFill, MediaServe,
         Leave, PanelStep, Revoke, Rotate, LinkDelete, CameraDelete, CameraDisable,
         CameraEnable, Invalidate, DropMembers, DeleteRows, Kick, DropPath, PushPath,
         Reconcile, LinkExpires, redis

LEMMA InvitedNext ==
    ASSUME TypeInv, InvitedInv, [Next]_vars
    PROVE  InvitedInv'
<1>1. CASE Next
  BY <1>1, InvitedPage, InvitedOther DEF Next
<1>2. CASE UNCHANGED vars
  BY <1>2 DEF vars, InvitedInv, PageEarned, GrantOnlyToInvited, MayWatch, Holders
<1>3. QED
  BY <1>1, <1>2

(* Nobody ever holds a link's grant, or takes a place among its viewers,    *)
(* without having been sent an address of it and knowing its password.      *)
THEOREM GrantsAreInvited == Spec => []GrantOnlyToInvited
<1>1. Init => TypeInv /\ InvitedInv
  BY TypeInit, InvitedInit
<1>2. TypeInv /\ InvitedInv /\ [Next]_vars => (TypeInv /\ InvitedInv)'
  BY TypeNext, InvitedNext
<1>3. TypeInv /\ InvitedInv => GrantOnlyToInvited
  BY DEF InvitedInv
<1>4. QED
  BY <1>1, <1>2, <1>3, PTL DEF Spec

-------------------------------------------------------------------------------
(* Watching.  A field of a viewer's hash is the operator's own, or names a  *)
(* link of the field's camera; and a request carries the right it has found *)
(* there, whatever becomes of the hash.                                     *)

RightTo(v, c, g) ==
    \/ g = Operator /\ v \in Operators
    \/ g \in Links /\ MayWatch(v, g) /\ LinkCamera[g] = c

HashRights ==
    \A v \in Viewers, c \in Cameras :
        /\ viewerHash[v][c] = Operator => v \in Operators
        /\ viewerHash[v][c] \in Links => LinkCamera[viewerHash[v][c]] = c

MediaRights ==
    \A v \in Viewers :
        media[v].pc # "idle" => RightTo(v, media[v].camera, media[v].link)

RightsInv == HashRights /\ MediaRights

LEMMA RightsInit == Init => RightsInv
BY ParamAssumption DEF Init, RightsInv, HashRights, MediaRights, NoMedia

\* Hashes: what is there is kept, taken away, or put there by one of the two grants.
LEMMA HashStep ==
    ASSUME TypeInv, RightsInv, [Next]_vars
    PROVE  HashRights'
<1>1. viewerHash \in [Viewers -> [Cameras -> Grant]]
  BY DEF TypeInv, TypeOK
<1>2. ASSUME \A v \in Viewers, c \in Cameras :
                viewerHash'[v][c] = None \/ viewerHash'[v][c] = viewerHash[v][c]
      PROVE  HashRights'
  BY <1>2, ParamAssumption DEF RightsInv, HashRights
<1>3. ASSUME NEW v \in Viewers, PageGrant(v) PROVE HashRights'
  <2>1. page[v].link \in Links /\ LinkCamera[page[v].link] \in Cameras
        /\ viewerHash' = [viewerHash EXCEPT ![v][LinkCamera[page[v].link]] = page[v].link]
    BY <1>3, ParamAssumption DEF PageGrant, TypeInv, PageWf
  <2>2. QED
    BY <1>1, <2>1, ParamAssumption DEF RightsInv, HashRights
<1>4. ASSUME NEW v \in Viewers, NEW d \in Cameras, OperatorGrant(v, d) PROVE HashRights'
  <2>1. v \in Operators /\ viewerHash' = [viewerHash EXCEPT ![v][d] = Operator]
    BY <1>4 DEF OperatorGrant
  <2>2. QED
    BY <1>1, <2>1, ParamAssumption DEF RightsInv, HashRights
<1>5. CASE DropPipeline
  BY <1>1, <1>2, <1>5 DEF DropPipeline, WithoutPath
<1>6. CASE Tick
  <2>1. viewerHash' = [v \in Viewers |->
            IF viewerTtl[v] <= 1 THEN [c \in Cameras |-> None] ELSE viewerHash[v]]
    BY <1>6 DEF Tick
  <2>2. QED
    BY <1>1, <1>2, <2>1
<1>7. CASE viewerHash' = viewerHash
  BY <1>2, <1>7
<1>8. QED
  BY <1>3, <1>4, <1>5, <1>6, <1>7
     DEF Next, vars, redis, PageStep, PageOpen, PageAuthorize, PageCapacity, MediaStep,
         MediaLookup, MediaOperator, MediaHit, MediaMiss, MediaFill, MediaServe, Leave,
         PanelStep, Revoke, Rotate, LinkDelete, CameraDelete, CameraDisable, CameraEnable,
         Invalidate, DropMembers, DeleteRows, Kick, DropPath, PushPath, Reconcile,
         LinkExpires

\* Requests: a step of one is a lookup, or keeps what was looked up, or ends it.
LEMMA MediaKept ==
    ASSUME TypeInv, NEW v \in Viewers, MediaStep(v),
           ~ \E c \in Cameras : MediaLookup(v, c)
    PROVE  /\ \A w \in Viewers : w # v => media'[w] = media[w]
           /\ media'[v].pc # "idle" =>
                /\ media[v].pc # "idle" /\ media'[v].link = media[v].link
                /\ media'[v].camera = media[v].camera
<1>1. media \in [Viewers -> MediaType] /\ media[v] \in MediaType
  BY DEF TypeInv, TypeOK
<1>2. ASSUME NEW live \in BOOLEAN, Decide(v, live), media[v].pc # "idle"
      PROVE  /\ \A w \in Viewers : w # v => media'[w] = media[w]
             /\ media'[v].pc # "idle" =>
                  /\ media'[v].link = media[v].link
                  /\ media'[v].camera = media[v].camera
  <2>1. CASE live /\ media[v].ipOk
    <3>1. /\ \A w \in Viewers : w # v => media'[w] = media[w]
          /\ media'[v] = [media[v] EXCEPT !.pc = "allowed", !.live = FALSE]
      BY <1>1, <1>2, <2>1 DEF Decide
    <3>2. QED
      BY <1>1, <3>1 DEF MediaType
  <2>2. CASE ~(live /\ media[v].ipOk)
    BY <1>1, <1>2, <2>2 DEF Decide, NoMedia
  <2>3. QED
    BY <2>1, <2>2
<1>3. CASE MediaOperator(v)
  <2>1. media' = [media EXCEPT ![v].pc = "allowed"] /\ media[v].pc = "lookup"
    BY <1>3 DEF MediaOperator
  <2>2. QED
    BY <1>1, <2>1 DEF MediaType
<1>4. CASE MediaHit(v)
  <2>1. Decide(v, cache[media[v].link].valid) /\ cache[media[v].link].valid \in BOOLEAN
        /\ media[v].pc = "lookup"
    BY <1>4 DEF MediaHit, TypeInv, TypeOK
  <2>2. QED
    BY <1>2, <2>1
<1>5. CASE MediaMiss(v)
  <2>1. media' = [media EXCEPT ![v].pc = "fill", ![v].live = Watchable(media[v].link)]
        /\ media[v].pc = "lookup"
    BY <1>5 DEF MediaMiss
  <2>2. QED
    BY <1>1, <2>1 DEF MediaType
<1>6. CASE MediaFill(v)
  <2>1. Decide(v, media[v].live) /\ media[v].live \in BOOLEAN /\ media[v].pc = "fill"
    BY <1>1, <1>6 DEF MediaFill, MediaType
  <2>2. QED
    BY <1>2, <2>1
<1>7. CASE MediaServe(v)
  BY <1>1, <1>7 DEF MediaServe, NoMedia
<1>8. CASE Leave(v)
  BY <1>8 DEF Leave
<1>9. QED
  BY <1>3, <1>4, <1>5, <1>6, <1>7, <1>8 DEF MediaStep

LEMMA MediaRightsStep ==
    ASSUME TypeInv, InvitedInv, RightsInv, [Next]_vars
    PROVE  MediaRights'
<1>1. media \in [Viewers -> MediaType]
  BY DEF TypeInv, TypeOK
<1>2. ASSUME NEW v \in Viewers, NEW c \in Cameras, MediaLookup(v, c) PROVE MediaRights'
  <2>1. PICK ip \in Addresses : media' = [media EXCEPT ![v] =
            [pc |-> "lookup", link |-> viewerHash[v][c], camera |-> c, live |-> FALSE,
             ipOk |-> Admits(viewerHash[v][c], ip), age |-> 0]]
    BY <1>2 DEF MediaLookup
  <2>2. /\ \A w \in Viewers : w # v => media'[w] = media[w]
        /\ media'[v].link = viewerHash[v][c] /\ media'[v].camera = c
    BY <1>1, <2>1
  <2>3. RightTo(v, c, viewerHash[v][c])
    <3>1. viewerHash[v][c] \in Links \cup {Operator}
      BY <1>2 DEF MediaLookup, TypeInv, TypeOK, Grant
    <3>2. viewerHash[v][c] \in Links => MayWatch(v, viewerHash[v][c])
      BY DEF InvitedInv, GrantOnlyToInvited, Holders
    <3>3. QED
      BY <3>1, <3>2 DEF RightTo, RightsInv, HashRights
  <2>4. QED
    BY <2>2, <2>3 DEF RightsInv, MediaRights, RightTo, MayWatch
<1>3. ASSUME NEW v \in Viewers, MediaStep(v), ~ \E c \in Cameras : MediaLookup(v, c)
      PROVE  MediaRights'
  BY <1>3, MediaKept DEF RightsInv, MediaRights, RightTo, MayWatch
<1>4. CASE Tick
  <2>1. ASSUME NEW v \in Viewers
        PROVE  /\ media'[v].pc = media[v].pc /\ media'[v].link = media[v].link
               /\ media'[v].camera = media[v].camera
    <3>1. media'[v] = Aged(media[v]) /\ media[v] \in MediaType
      BY <1>1, <1>4 DEF Tick
    <3>2. QED
      BY <3>1 DEF Aged, MediaType
  <2>2. QED
    BY <2>1 DEF RightsInv, MediaRights, RightTo, MayWatch
<1>5. CASE media' = media
  BY <1>5 DEF RightsInv, MediaRights, RightTo, MayWatch
<1>6. ASSUME NEW v \in Viewers, PageStep(v) PROVE media' = media
  BY <1>6 DEF PageStep, PageOpen, PageAuthorize, PageCapacity, PageGrant, OperatorGrant
<1>7. ASSUME PanelStep \/ Reconcile \/ (\E l \in Links : LinkExpires(l)) PROVE media' = media
  BY <1>7 DEF PanelStep, Revoke, Rotate, LinkDelete, CameraDelete, CameraDisable,
     CameraEnable, Invalidate, DropMembers, DropPipeline, DeleteRows, Kick, DropPath,
     PushPath, Reconcile, LinkExpires
<1>8. CASE UNCHANGED vars
  BY <1>5, <1>8 DEF vars
<1>9. QED
  BY <1>2, <1>3, <1>4, <1>5, <1>6, <1>7, <1>8 DEF Next

LEMMA RightsAlways == Spec => [](TypeInv /\ GraceInv /\ InvitedInv /\ RightsInv)
<1>1. Init => TypeInv /\ GraceInv /\ InvitedInv /\ RightsInv
  BY TypeInit, GraceInit, InvitedInit, RightsInit
<1>2. TypeInv /\ GraceInv /\ InvitedInv /\ RightsInv /\ [Next]_vars
        => (TypeInv /\ GraceInv /\ InvitedInv /\ RightsInv)'
  BY TypeNext, GraceNext, InvitedNext, HashStep, MediaRightsStep DEF RightsInv
<1>3. QED
  BY <1>1, <1>2, PTL DEF Spec

(* The mapping, and what each kind of step is to those who watch.           *)
AliveNow   == [l \in Links |-> Watchable(l)]
PassingNow == {<<v, media[v].camera, media[v].link>> :
                  v \in {w \in Viewers : media[w].pc = "allowed"}}

WatchStep == [Watch!Next]_<<AliveNow, deadFor, PassingNow, rtc>>

LEMMA AliveSame ==
    ASSUME UNCHANGED <<link, camera>>
    PROVE  UNCHANGED AliveNow
BY DEF AliveNow, Watchable

LEMMA PassingSame ==
    ASSUME \A v \in Viewers : media'[v].pc = "allowed" <=> media[v].pc = "allowed",
           \A v \in Viewers : media[v].pc = "allowed" =>
                media'[v].camera = media[v].camera /\ media'[v].link = media[v].link
    PROVE  UNCHANGED PassingNow
BY DEF PassingNow

\* Nobody is let through, and no link changes: at most sessions end.
LEMMA WatchQuiet ==
    ASSUME UNCHANGED <<link, camera, deadFor>>, UNCHANGED PassingNow, rtc' \subseteq rtc
    PROVE  WatchStep
<1>1. UNCHANGED AliveNow
  BY AliveSame
<1>2. Watch!SessionsEnd
  BY <1>1 DEF Watch!SessionsEnd, AliveNow, PassingNow
<1>3. QED
  BY <1>2 DEF WatchStep, Watch!Next, AliveNow, PassingNow

\* What becomes of a request that a verdict is given on.
LEMMA WatchDecided ==
    ASSUME TypeInv, RightsInv, NEW v \in Viewers, media[v].pc \notin {"idle", "allowed"},
           \A w \in Viewers : w # v => media'[w] = media[w],
           media'[v].pc \in {"idle", "allowed"},
           media'[v].pc = "allowed" =>
                /\ media'[v].link = media[v].link /\ media'[v].camera = media[v].camera
                /\ media[v].link \in Links => deadFor[media[v].link] <= GraceTicks,
           UNCHANGED <<link, camera, deadFor, rtc>>
    PROVE  WatchStep
<1>1. CASE media'[v].pc = "idle"
  <2>1. UNCHANGED PassingNow
    BY <1>1, PassingSame
  <2>2. QED
    BY <2>1, WatchQuiet
<1>2. CASE media'[v].pc = "allowed"
  <2>1. PICK c \in Cameras, g \in Links \cup {Operator} :
             c = media[v].camera /\ g = media[v].link /\ RightTo(v, c, g)
    BY DEF TypeInv, MediaWf, RightsInv, MediaRights, RightTo
  <2>2. PassingNow' = PassingNow \cup {<<v, c, g>>}
    BY <1>2, <2>1 DEF PassingNow
  <2>3. UNCHANGED AliveNow
    BY AliveSame
  <2>4. Watch!Rightful(v, c, g, GraceTicks)
    BY <1>2, <2>1 DEF Watch!Rightful, RightTo
  <2>5. Watch!LetThrough(v, c, g)
    BY <2>2, <2>3, <2>4 DEF Watch!LetThrough, AliveNow, PassingNow
  <2>6. QED
    BY <2>1, <2>5 DEF WatchStep, Watch!Next
<1>3. QED
  BY <1>1, <1>2

LEMMA WatchMedia ==
    ASSUME TypeInv, GraceInv, RightsInv, NEW v \in Viewers, MediaStep(v)
    PROVE  WatchStep
<1>1. media \in [Viewers -> MediaType] /\ media[v] \in MediaType
  BY DEF TypeInv, TypeOK
<1>2. UNCHANGED <<link, camera, deadFor>>
  BY DEF MediaStep, MediaLookup, MediaOperator, MediaHit, MediaMiss, MediaFill, MediaServe,
     Leave, db
<1>3. CASE \E c \in Cameras : MediaLookup(v, c)
  <2>1. PICK c \in Cameras : MediaLookup(v, c)
    BY <1>3
  <2>2. PICK ip \in Addresses : media' = [media EXCEPT ![v] =
            [pc |-> "lookup", link |-> viewerHash[v][c], camera |-> c, live |-> FALSE,
             ipOk |-> Admits(viewerHash[v][c], ip), age |-> 0]]
    BY <2>1 DEF MediaLookup
  <2>3. media[v].pc = "idle" /\ media'[v].pc = "lookup"
        /\ \A w \in Viewers : w # v => media'[w] = media[w]
    BY <1>1, <2>1, <2>2 DEF MediaLookup
  <2>4. UNCHANGED PassingNow
    BY <2>3, PassingSame
  <2>5. QED
    BY <1>2, <2>1, <2>4, WatchQuiet DEF MediaLookup, mtx
<1>4. CASE MediaOperator(v)
  <2>1. media' = [media EXCEPT ![v].pc = "allowed"] /\ media[v].pc = "lookup"
        /\ media[v].link = Operator /\ UNCHANGED rtc
    BY <1>4 DEF MediaOperator, mtx
  <2>2. /\ \A w \in Viewers : w # v => media'[w] = media[w]
        /\ media'[v].pc = "allowed" /\ media'[v].link = media[v].link
        /\ media'[v].camera = media[v].camera
    BY <1>1, <2>1 DEF MediaType
  <2>3. QED
    BY <1>2, <2>1, <2>2, WatchDecided, ParamAssumption
<1>5. CASE MediaHit(v)
  <2>1. /\ media[v].link \in Links /\ cache[media[v].link].ttl > 0
        /\ cache[media[v].link].valid \in BOOLEAN /\ media[v].pc = "lookup"
        /\ Decide(v, cache[media[v].link].valid) /\ UNCHANGED rtc
    BY <1>5 DEF MediaHit, mtx, TypeInv, TypeOK
  <2>2. cache[media[v].link].valid => deadFor[media[v].link] <= GraceTicks
    BY <2>1, Numbers DEF GraceInv, StaleVerdictBounded
  <2>3. ~ \E c \in Cameras : MediaLookup(v, c)
    BY <2>1 DEF MediaLookup
  <2>4. QED
    BY <1>2, <2>1, <2>2, <2>3, DecideRequest, MediaKept, WatchDecided
<1>6. CASE MediaMiss(v)
  <2>1. media' = [media EXCEPT ![v].pc = "fill", ![v].live = Watchable(media[v].link)]
        /\ media[v].pc = "lookup" /\ UNCHANGED rtc
    BY <1>6 DEF MediaMiss, mtx
  <2>2. media'[v].pc = "fill" /\ \A w \in Viewers : w # v => media'[w] = media[w]
    BY <1>1, <2>1 DEF MediaType
  <2>3. UNCHANGED PassingNow
    BY <2>1, <2>2, PassingSame
  <2>4. QED
    BY <1>2, <2>1, <2>3, WatchQuiet
<1>7. CASE MediaFill(v)
  <2>1. /\ media[v].link \in Links /\ media[v].live \in BOOLEAN /\ media[v].pc = "fill"
        /\ Decide(v, media[v].live) /\ UNCHANGED rtc
    BY <1>1, <1>7 DEF MediaFill, mtx, TypeInv, MediaWf, MediaType
  <2>2. media[v].live => deadFor[media[v].link] <= GraceTicks
    BY <2>1, Numbers DEF GraceInv, FreshRead
  <2>3. ~ \E c \in Cameras : MediaLookup(v, c)
    BY <2>1 DEF MediaLookup
  <2>4. QED
    BY <1>2, <2>1, <2>2, <2>3, DecideRequest, MediaKept, WatchDecided
<1>8. CASE MediaServe(v)
  <2>1. media[v].pc = "allowed" /\ media' = [media EXCEPT ![v] = NoMedia]
    BY <1>8 DEF MediaServe
  <2>2. PICK c \in Cameras, g \in Links \cup {Operator} :
             c = media[v].camera /\ g = media[v].link /\ RightTo(v, c, g)
    BY <2>1 DEF TypeInv, MediaWf, RightsInv, MediaRights, RightTo
  <2>3. <<v, c, g>> \in PassingNow
    BY <2>1, <2>2 DEF PassingNow
  <2>4. PassingNow' = PassingNow \ {<<v, c, g>>}
    BY <1>1, <2>1, <2>2 DEF PassingNow, NoMedia
  <2>5. Watch!Rightful(v, c, g, GraceTicks + RequestTicks)
    <3>1. g \in Links => deadFor[g] <= GraceTicks + media[v].age
      BY <2>1, <2>2 DEF GraceInv, DeadLinkAccessBounded
    <3>2. g \in Links => deadFor[g] <= GraceTicks + RequestTicks
      BY <3>1, Numbers
    <3>3. QED
      BY <2>2, <3>2 DEF Watch!Rightful, RightTo
  <2>6. rtc' = rtc \/ rtc' = rtc \cup {<<v, c, g>>}
    BY <1>8, <2>2 DEF MediaServe
  <2>7. UNCHANGED AliveNow
    BY <1>2, AliveSame
  <2>8. Watch!Answered(v, c, g)
    BY <1>2, <2>3, <2>4, <2>5, <2>6, <2>7 DEF Watch!Answered, AliveNow, PassingNow
  <2>9. QED
    BY <2>8 DEF WatchStep, Watch!Next
<1>9. CASE Leave(v)
  <2>1. media' = media /\ rtc' \subseteq rtc
    BY <1>9 DEF Leave
  <2>2. UNCHANGED PassingNow
    BY <2>1, PassingSame
  <2>3. QED
    BY <1>2, <2>1, <2>2, WatchQuiet
<1>10. QED
  BY <1>3, <1>4, <1>5, <1>6, <1>7, <1>8, <1>9 DEF MediaStep
LEMMA WatchPage ==
    ASSUME NEW v \in Viewers, PageStep(v)
    PROVE  WatchStep
<1>1. UNCHANGED <<link, camera, deadFor, media, rtc>>
  BY DEF PageStep, PageOpen, PageAuthorize, PageCapacity, PageGrant, OperatorGrant, db, mtx
<1>2. UNCHANGED PassingNow
  BY <1>1, PassingSame
<1>3. QED
  BY <1>1, <1>2, WatchQuiet

\* A link whose row or camera has changed.
LEMMA WatchLinks ==
    ASSUME GraceInv', UNCHANGED <<media, rtc>>,
           deadFor' = [l \in Links |-> deadFor'[l]],
           \A l \in Links : deadFor'[l] = deadFor[l] \/ (deadFor'[l] = 0 /\ Watchable(l)')
    PROVE  WatchStep
<1>1. UNCHANGED PassingNow
  BY PassingSame
<1>2. \A l \in Links : Watchable(l)' \in BOOLEAN
  BY DEF Watchable
<1>3. AliveNow' \in [Links -> BOOLEAN] /\ \A l \in Links : AliveNow'[l] = Watchable(l)'
  BY <1>2 DEF AliveNow
<1>4. \A l \in Links : deadFor'[l] = IF AliveNow'[l] THEN 0 ELSE deadFor[l]
  BY <1>3 DEF GraceInv, WatchableIsAlive
<1>5. deadFor' = [l \in Links |-> IF AliveNow'[l] THEN 0 ELSE deadFor[l]]
  BY <1>4
<1>6. Watch!LinksChange
  BY <1>1, <1>3, <1>5 DEF Watch!LinksChange, AliveNow, PassingNow
<1>7. QED
  BY <1>6 DEF WatchStep, Watch!Next, AliveNow, PassingNow

LEMMA WatchPanel ==
    ASSUME TypeInv, GraceInv, GraceInv',
           PanelStep \/ Reconcile \/ (\E l \in Links : LinkExpires(l))
    PROVE  WatchStep
<1>1. media' = media
  BY DEF PanelStep, Revoke, Rotate, LinkDelete, CameraDelete, CameraDisable, CameraEnable,
     Invalidate, DropMembers, DropPipeline, DeleteRows, Kick, DropPath, PushPath, Reconcile,
     LinkExpires
<1>2. deadFor \in [Links -> 0..MaxDeadFor]
  BY DEF TypeInv, TypeOK
<1>3. CASE Kick \/ DropPath \/ PushPath \/ Reconcile
  <2>1. rtc' \subseteq rtc /\ UNCHANGED <<link, camera, deadFor>>
    BY <1>3 DEF Kick, DropPath, PushPath, Reconcile, MtxError, db, mtx
  <2>2. UNCHANGED PassingNow
    BY <1>1, PassingSame
  <2>3. QED
    BY <2>1, <2>2, WatchQuiet
<1>4. CASE \E c \in Cameras : CameraEnable(c)
  <2>1. PICK c \in Cameras : CameraEnable(c)
    BY <1>4
  <2>2. /\ deadFor' = [l \in Links |->
                IF LinkCamera[l] = c /\ link[l] = "live" THEN 0 ELSE deadFor[l]]
        /\ camera' = [camera EXCEPT ![c] = "enabled"]
        /\ camera \in [Cameras -> {"enabled", "disabled", "absent"}]
        /\ UNCHANGED <<link, rtc>>
    BY <2>1 DEF CameraEnable, mtx, TypeInv, TypeOK
  <2>3. \A l \in Links : deadFor'[l] = deadFor[l] \/ (deadFor'[l] = 0 /\ Watchable(l)')
    BY <2>2 DEF Watchable
  <2>4. deadFor' = [l \in Links |-> deadFor'[l]]
    BY <2>2
  <2>5. QED
    BY <1>1, <2>2, <2>3, <2>4, WatchLinks
<1>5. CASE UNCHANGED <<deadFor, rtc>>
  <2>1. deadFor' = [l \in Links |-> deadFor'[l]]
    BY <1>2, <1>5
  <2>2. QED
    BY <1>1, <1>5, <2>1, WatchLinks
<1>6. QED
  BY <1>3, <1>4, <1>5
     DEF PanelStep, Revoke, Rotate, LinkDelete, CameraDelete, CameraDisable,
         Invalidate, DropMembers, DropPipeline, DeleteRows, LinkExpires, mtx

LEMMA WatchTick ==
    ASSUME TypeInv, Tick
    PROVE  WatchStep
<1>1. ASSUME NEW v \in Viewers
      PROVE  /\ media'[v].pc = media[v].pc /\ media'[v].link = media[v].link
             /\ media'[v].camera = media[v].camera
  <2>1. media'[v] = Aged(media[v]) /\ media[v] \in MediaType
    BY DEF Tick, TypeInv, TypeOK
  <2>2. QED
    BY <2>1 DEF Aged, MediaType
<1>2. UNCHANGED PassingNow
  BY <1>1, PassingSame
<1>3. UNCHANGED <<link, camera, rtc>> /\ deadFor' = [l \in Links |-> DeadForNow(l)]
  BY DEF Tick, db, mtx
<1>4. UNCHANGED AliveNow
  BY <1>3, AliveSame
<1>5. deadFor' = [l \in Links |->
            IF AliveNow[l] THEN 0
            ELSE IF deadFor[l] = MaxDeadFor THEN MaxDeadFor ELSE deadFor[l] + 1]
  BY <1>3 DEF DeadForNow, AliveNow
<1>6. Watch!TimePasses
  BY <1>2, <1>3, <1>4, <1>5 DEF Watch!TimePasses, AliveNow, PassingNow
<1>7. QED
  BY <1>6 DEF WatchStep, Watch!Next, AliveNow, PassingNow

(* LinkAccess implements Watching: whoever is let through, or gets a WebRTC   *)
(* session, is entitled to the link, watches its own camera, and does so      *)
(* within the grace of the link's death, however pages, media requests, the   *)
(* panel and the lifetimes in Redis interleave (authz.py:206-378,             *)
(* public_views.py:107-244, panel_views.py:837-945).                          *)
THEOREM WatchedRightfully == Spec => WatchedByRight
<1> DEFINE IInv == TypeInv /\ GraceInv /\ InvitedInv /\ RightsInv
<1>1. Init => Watch!Init
  <2>1. SUFFICES ASSUME Init PROVE Watch!Init
    OBVIOUS
  <2>2. \A l \in Links : Watchable(l) = TRUE
    BY <2>1, ParamAssumption DEF Init, Watchable
  <2>3. \A v \in Viewers : media[v].pc # "allowed"
    BY <2>1 DEF Init, NoMedia
  <2>4. QED
    BY <2>1, <2>2, <2>3 DEF Init, Watch!Init
<1>2. IInv /\ IInv' /\ [Next]_vars => WatchStep
  <2>1. SUFFICES ASSUME IInv, IInv', [Next]_vars PROVE WatchStep
    OBVIOUS
  <2>2. CASE \E v \in Viewers : PageStep(v)
    BY <2>2, WatchPage
  <2>3. CASE \E v \in Viewers : MediaStep(v)
    BY <2>1, <2>3, WatchMedia
  <2>4. CASE PanelStep \/ Reconcile \/ (\E l \in Links : LinkExpires(l))
    BY <2>1, <2>4, WatchPanel
  <2>5. CASE Tick
    BY <2>1, <2>5, WatchTick
  <2>6. CASE UNCHANGED vars
    <3>1. UNCHANGED <<link, camera, deadFor, media, rtc>>
      BY <2>6 DEF vars
    <3>2. UNCHANGED PassingNow
      BY <3>1, PassingSame
    <3>3. QED
      BY <3>1, <3>2, WatchQuiet
  <2>7. QED
    BY <2>1, <2>2, <2>3, <2>4, <2>5, <2>6 DEF Next
<1>3. WatchStep => [Watch!Next]_<<[l \in Links |-> Watchable(l)], deadFor,
                       {<<v, media[v].camera, media[v].link>> :
                            v \in {w \in Viewers : media[w].pc = "allowed"}}, rtc>>
  BY DEF WatchStep, AliveNow, PassingNow
<1>4. Spec => []IInv
  BY RightsAlways
<1> HIDE DEF IInv
<1>5. QED
  BY <1>1, <1>2, <1>3, <1>4, PTL DEF Spec, WatchedByRight, Watch!Spec

-------------------------------------------------------------------------------
(* The limit of viewers.                                                    *)

LimitTyped ==
    /\ overtaken \in [Viewers -> BOOLEAN]
    /\ \A l \in Links : IsFiniteSet(linkViewers[l])

(* Who has been checked and not overtaken is counted already, or has room.  *)
HasPlace(v, l) ==
    v \in linkViewers[l] \/ Cardinality(linkViewers[l] \ late[l]) < MaxConcurrent[l]

PlacesHeld ==
    \A v \in Viewers :
        Checked(v) /\ ~overtaken[v] /\ MaxConcurrent[page[v].link] > 0 =>
            HasPlace(v, page[v].link)

LimitsKept == \A l \in Links : PlacesKept(l)

LimitInv == LimitTyped /\ PlacesHeld /\ LimitsKept

(* What a step that admits nobody does: sets stay or are emptied, and a     *)
(* request is where it was or has just found room.                          *)
SetsSettle == \A l \in Links : linkViewers'[l] \in {linkViewers[l], {}}

StaysChecked(v) == Checked(v) /\ page'[v].link = page[v].link

FindsRoom(v) ==
    /\ ~Checked(v)
    /\ page'[v].link = page[v].link
    /\ HasRoom(v, page[v].link, page[v].way)
    /\ linkViewers' = linkViewers

Orderly == SetsSettle /\ \A v \in Viewers : Checked(v)' => StaysChecked(v) \/ FindsRoom(v)

LEMMA OrderlyStill ==
    ASSUME UNCHANGED page, SetsSettle
    PROVE  Orderly
BY DEF Orderly, Checked, StaysChecked

LEMMA OrderlyPage ==
    ASSUME TypeInv, NEW v \in Viewers, PageStep(v), ~PageGrant(v)
    PROVE  Orderly
<1>1. linkViewers' = linkViewers
  BY DEF PageStep, PageOpen, PageAuthorize, PageCapacity, PageGrant, OperatorGrant, redis
<1>2. SetsSettle
  BY <1>1 DEF SetsSettle
<1>3. page \in [Viewers -> PageType]
  BY DEF TypeInv, TypeOK
<1>4. ASSUME NEW r, page' = [page EXCEPT ![v] = r],
             r.pc = "grant" => FindsRoom(v)
      PROVE  Orderly
  <2>1. ASSUME NEW w \in Viewers, Checked(w)' PROVE StaysChecked(w) \/ FindsRoom(w)
    <3>1. CASE w = v
      BY <1>3, <1>4, <2>1, <3>1 DEF Checked
    <3>2. CASE w # v
      BY <1>3, <1>4, <2>1, <3>2 DEF Checked, StaysChecked
    <3> QED
      BY <3>1, <3>2
  <2> QED
    BY <1>2, <2>1 DEF Orderly
<1>5. ASSUME NEW l \in Links, PageOpen(v, l) PROVE Orderly
  BY <1>4, <1>5 DEF PageOpen
<1>6. ASSUME PageAuthorize(v) PROVE Orderly
  <2>1. page[v] \in PageType /\ page[v].pc = "found"
    BY <1>3, <1>6 DEF PageAuthorize
  <2>2. /\ NoPage.pc # "grant"
        /\ [page[v] EXCEPT !.pc = "capacity", !.way = "reload"].pc # "grant"
        /\ [page[v] EXCEPT !.pc = "capacity"].pc # "grant"
    BY <2>1 DEF PageType, NoPage
  <2>3. PICK r : page' = [page EXCEPT ![v] = r] /\ r.pc # "grant"
    BY <1>6, <2>2 DEF PageAuthorize
  <2> QED
    BY <1>4, <2>3
<1>7. ASSUME PageCapacity(v) PROVE Orderly
  <2>1. CASE HasRoom(v, page[v].link, page[v].way) /\ ~PasswordAsked(v)
    <3>1. page' = [page EXCEPT ![v] = [page[v] EXCEPT !.pc = "grant"]] /\ page[v].pc = "capacity"
      BY <1>7, <2>1 DEF PageCapacity
    <3>2. page'[v].link = page[v].link
      BY <1>3, <3>1 DEF PageType
    <3>3. FindsRoom(v)
      BY <1>1, <2>1, <3>1, <3>2 DEF FindsRoom, Checked
    <3> QED
      BY <1>4, <3>1, <3>3
  <2>2. CASE ~(HasRoom(v, page[v].link, page[v].way) /\ ~PasswordAsked(v))
    <3>1. page' = [page EXCEPT ![v] = NoPage] /\ NoPage.pc = "idle"
      BY <1>7, <2>2 DEF PageCapacity, NoPage
    <3> QED
      BY <1>4, <3>1
  <2> QED
    BY <2>1, <2>2
<1>8. ASSUME NEW c \in Cameras, OperatorGrant(v, c) PROVE Orderly
  BY <1>2, <1>8, OrderlyStill DEF OperatorGrant
<1> QED
  BY <1>5, <1>6, <1>7, <1>8 DEF PageStep

LEMMA OrderlyOther ==
    ASSUME TypeInv, [Next]_vars, ~\E v \in Viewers : PageStep(v)
    PROVE  Orderly
<1>1. page \in [Viewers -> PageType] /\ linkViewers \in [Links -> SUBSET Viewers]
  BY DEF TypeInv, TypeOK
<1>2. ASSUME UNCHANGED <<page, linkViewers>> PROVE Orderly
  BY <1>2, OrderlyStill DEF SetsSettle
<1>3. CASE UNCHANGED vars
  BY <1>2, <1>3 DEF vars
<1>4. ASSUME NEW v \in Viewers, MediaStep(v) PROVE UNCHANGED <<page, linkViewers>>
  BY <1>4 DEF MediaStep, MediaLookup, MediaOperator, MediaHit, MediaMiss, MediaFill,
     MediaServe, Leave, redis
<1>5. ASSUME PanelStep, ~DropPipeline PROVE UNCHANGED <<page, linkViewers>>
  BY <1>5 DEF PanelStep, Revoke, Rotate, LinkDelete, CameraDelete, CameraDisable, CameraEnable,
     Invalidate, DropMembers, DeleteRows, Kick, DropPath, PushPath, redis
<1>6. ASSUME DropPipeline PROVE Orderly
  <2>1. SetsSettle
    BY <1>1, <1>6 DEF DropPipeline, SetsSettle
  <2> QED
    BY <1>6, <2>1, OrderlyStill DEF DropPipeline
<1>7. ASSUME Reconcile \/ \E l \in Links : LinkExpires(l) PROVE UNCHANGED <<page, linkViewers>>
  BY <1>7 DEF Reconcile, LinkExpires, redis
<1>8. ASSUME Tick PROVE Orderly
  <2>1. SetsSettle
    BY <1>1, <1>8 DEF Tick, SetsSettle
  <2>2. ASSUME NEW v \in Viewers PROVE page'[v].pc = page[v].pc /\ page'[v].link = page[v].link
    BY <1>1, <1>8 DEF Tick, Aged, PageType
  <2> QED
    BY <2>1, <2>2 DEF Orderly, Checked, StaysChecked
<1> QED
  BY <1>2, <1>3, <1>4, <1>5, <1>6, <1>7, <1>8 DEF Next

(* A step that admits nobody keeps the limit.                               *)
LEMMA LimitOrderly ==
    ASSUME TypeInv, TypeInv', LimitInv, Orderly, Remember
    PROVE  LimitInv'
<1>1. linkViewers \in [Links -> SUBSET Viewers] /\ MaxConcurrent \in [Links -> Nat]
  BY ParamAssumption DEF TypeInv, TypeOK
<1>2. \A l \in Links : NewViewers(l) = {}
  BY DEF Orderly, SetsSettle, NewViewers
<1>3. ASSUME NEW l \in Links
      PROVE  \/ linkViewers'[l] = {}
             \/ linkViewers'[l] = linkViewers[l] /\ late'[l] = late[l]
  BY <1>2 DEF Orderly, SetsSettle, Remember
<1>4. Cardinality({}) = 0 /\ IsFiniteSet({})
  BY FS_EmptySet
<1>5. ASSUME NEW l \in Links, linkViewers'[l] = {}
      PROVE  Cardinality(linkViewers'[l] \ late'[l]) = 0
  <2>1. linkViewers'[l] \ late'[l] = {}
    BY <1>5
  <2> QED
    BY <1>4, <2>1
<1>6. LimitTyped'
  <2>1. overtaken' \in [Viewers -> BOOLEAN]
    BY DEF Remember
  <2>2. ASSUME NEW l \in Links PROVE IsFiniteSet(linkViewers'[l])
    BY <1>3, <1>4 DEF LimitInv, LimitTyped
  <2> QED
    BY <2>1, <2>2 DEF LimitTyped
<1>7. LimitsKept'
  <2>1. ASSUME NEW l \in Links, MaxConcurrent[l] > 0
        PROVE  Cardinality(linkViewers'[l] \ late'[l]) <= MaxConcurrent[l]
    <3>1. CASE linkViewers'[l] = {}
      BY <1>1, <1>5, <2>1, <3>1
    <3>2. CASE linkViewers'[l] = linkViewers[l] /\ late'[l] = late[l]
      BY <2>1, <3>2 DEF LimitInv, LimitsKept, PlacesKept
    <3> QED
      BY <1>3, <3>1, <3>2
  <2> QED
    BY <2>1 DEF LimitsKept, PlacesKept
<1>8. PlacesHeld'
  <2>1. ASSUME NEW v \in Viewers, Checked(v)', ~overtaken'[v], NEW l \in Links,
               l = page'[v].link, MaxConcurrent[l] > 0
        PROVE  \/ v \in linkViewers'[l]
               \/ Cardinality(linkViewers'[l] \ late'[l]) < MaxConcurrent[l]
    <3>1. CASE linkViewers'[l] = {}
      BY <1>1, <1>5, <2>1, <3>1
    <3>2. CASE /\ linkViewers'[l] = linkViewers[l] /\ late'[l] = late[l]
               /\ StaysChecked(v)
      <4>1. Checked(v) /\ page[v].link = l
        BY <2>1, <3>2 DEF StaysChecked
      <4>2. ~overtaken[v]
        BY <2>1, <4>1 DEF Remember, Overtaken
      <4> QED
        BY <2>1, <3>2, <4>1, <4>2 DEF LimitInv, PlacesHeld, HasPlace
    <3>3. CASE /\ linkViewers'[l] = linkViewers[l] /\ late'[l] = late[l]
               /\ FindsRoom(v)
      <4>1. HasRoom(v, l, page[v].way)
        BY <2>1, <3>3 DEF FindsRoom
      <4>2. IsFiniteSet(linkViewers[l])
        BY DEF LimitInv, LimitTyped
      <4>3. /\ Cardinality(linkViewers[l] \ late[l]) <= Cardinality(linkViewers[l])
            /\ Cardinality(linkViewers[l]) \in Nat
            /\ Cardinality(linkViewers[l] \ late[l]) \in Nat
        BY <4>2, FS_Subset, FS_CardinalityType, linkViewers[l] \ late[l] \subseteq linkViewers[l]
      <4> QED
        BY <1>1, <2>1, <3>3, <4>1, <4>3 DEF HasRoom
    <3> QED
      BY <1>3, <2>1, <3>1, <3>2, <3>3 DEF Orderly
  <2>2. \A v \in Viewers : Checked(v)' => page'[v].link \in Links
    BY DEF TypeInv, PageWf, Checked
  <2> QED
    BY <2>1, <2>2 DEF PlacesHeld, HasPlace
<1> QED
  BY <1>6, <1>7, <1>8 DEF LimitInv

(* Whoever is admitted had a place, or was overtaken; who is overtaken by   *)
(* it knows.                                                                *)
LEMMA LimitGrant ==
    ASSUME TypeInv, TypeInv', LimitInv, NEW u \in Viewers, PageGrant(u), Remember
    PROVE  LimitInv'
<1> DEFINE m == page[u].link
<1>1. /\ linkViewers \in [Links -> SUBSET Viewers] /\ MaxConcurrent \in [Links -> Nat]
      /\ page \in [Viewers -> PageType] /\ m \in Links
  BY ParamAssumption DEF TypeInv, TypeOK, PageWf, PageGrant
<1>2. /\ linkViewers' = [linkViewers EXCEPT ![m] = @ \cup {u}]
      /\ page' = [page EXCEPT ![u] = NoPage]
      /\ Checked(u)
  BY DEF PageGrant, Checked
<1> HIDE DEF m
<1>3. /\ linkViewers'[m] = linkViewers[m] \cup {u}
      /\ NewViewers(m) = {u} \ linkViewers[m]
  BY <1>1, <1>2 DEF NewViewers
<1>4. \A l \in Links \ {m} : linkViewers'[l] = linkViewers[l] /\ NewViewers(l) = {}
  BY <1>1, <1>2 DEF NewViewers
<1>5. \A l \in Links : IsFiniteSet(linkViewers[l])
  BY DEF LimitInv, LimitTyped
<1>6. ASSUME NEW l \in Links, l # m \/ u \in linkViewers[l]
      PROVE  /\ linkViewers'[l] = linkViewers[l]
             /\ linkViewers'[l] \ late'[l] = linkViewers[l] \ late[l]
  <2>1. linkViewers'[l] = linkViewers[l] /\ NewViewers(l) = {}
    BY <1>1, <1>3, <1>4, <1>6
  <2>2. late'[l] = IF linkViewers'[l] = {} THEN {} ELSE late[l]
    BY <2>1 DEF Remember
  <2> QED
    BY <2>1, <2>2
<1>7. LimitTyped'
  <2>1. overtaken' \in [Viewers -> BOOLEAN]
    BY DEF Remember
  <2>2. IsFiniteSet(linkViewers'[m])
    BY <1>1, <1>3, <1>5, FS_AddElement
  <2> QED
    BY <1>4, <1>5, <2>1, <2>2 DEF LimitTyped
<1>8. LimitsKept'
  <2>1. ASSUME NEW l \in Links, MaxConcurrent[l] > 0
        PROVE  Cardinality(linkViewers'[l] \ late'[l]) <= MaxConcurrent[l]
    <3>1. CASE l # m \/ u \in linkViewers[l]
      BY <1>6, <2>1, <3>1 DEF LimitInv, LimitsKept, PlacesKept
    <3>2. CASE l = m /\ u \notin linkViewers[m] /\ overtaken[u]
      <4>1. late'[m] = late[m] \cup {u}
        BY <1>1, <1>3, <3>2 DEF Remember
      <4>2. linkViewers'[l] \ late'[l] = linkViewers[l] \ late[l]
        BY <1>3, <3>2, <4>1
      <4> QED
        BY <2>1, <4>2 DEF LimitInv, LimitsKept, PlacesKept
    <3>3. CASE l = m /\ u \notin linkViewers[m] /\ ~overtaken[u]
      <4> DEFINE S == linkViewers[m] \ late[m]
      <4>1. Cardinality(S) < MaxConcurrent[m]
        BY <1>2, <2>1, <3>3 DEF LimitInv, PlacesHeld, HasPlace, m
      <4>2. IsFiniteSet(S) /\ Cardinality(S) \in Nat
        BY <1>1, <1>5, FS_Subset, FS_CardinalityType, S \subseteq linkViewers[m]
      <4>3. linkViewers'[m] \ late'[m] \subseteq S \cup {u}
        BY <1>1, <1>3, <3>3 DEF Remember
      <4> HIDE DEF S
      <4>4. IsFiniteSet(S \cup {u}) /\ Cardinality(S \cup {u}) <= Cardinality(S) + 1
        <5>1. S \cup {u} = S \/ (u \notin S /\ Cardinality(S \cup {u}) = Cardinality(S) + 1)
          BY <4>2, FS_AddElement
        <5> QED
          BY <4>2, <5>1, FS_AddElement
      <4>5. /\ Cardinality(linkViewers'[m] \ late'[m]) <= Cardinality(S \cup {u})
            /\ IsFiniteSet(linkViewers'[m] \ late'[m])
        BY <4>3, <4>4, FS_Subset
      <4>6. /\ Cardinality(linkViewers'[m] \ late'[m]) \in Nat
            /\ Cardinality(S \cup {u}) \in Nat
        BY <4>4, <4>5, FS_CardinalityType
      <4> QED
        BY <1>1, <3>3, <4>1, <4>2, <4>4, <4>5, <4>6
    <3> QED
      BY <3>1, <3>2, <3>3
  <2> QED
    BY <2>1 DEF LimitsKept, PlacesKept
<1>9. PlacesHeld'
  <2>1. ASSUME NEW v \in Viewers, Checked(v)', ~overtaken'[v], NEW l \in Links,
               l = page'[v].link, MaxConcurrent[l] > 0
        PROVE  \/ v \in linkViewers'[l]
               \/ Cardinality(linkViewers'[l] \ late'[l]) < MaxConcurrent[l]
    <3>1. v # u /\ Checked(v) /\ page[v].link = l
      BY <1>1, <1>2, <2>1 DEF Checked, NoPage
    <3>2. ~overtaken[v] /\ NewViewers(l) = {}
      BY <2>1, <3>1 DEF Remember, Overtaken
    <3>3. l # m \/ u \in linkViewers[l]
      BY <1>3, <3>2
    <3> QED
      BY <1>6, <2>1, <3>1, <3>2, <3>3 DEF LimitInv, PlacesHeld, HasPlace
  <2>2. \A v \in Viewers : Checked(v)' => page'[v].link \in Links
    BY DEF TypeInv, PageWf, Checked
  <2> QED
    BY <2>1, <2>2 DEF PlacesHeld, HasPlace
<1> QED
  BY <1>7, <1>8, <1>9 DEF LimitInv


-------------------------------------------------------------------------------
(* Who holds a link's grant is counted.                                     *)

(* What a browser has, and what its request has found, it was given.        *)
GivenInv ==
    \A v \in Viewers :
        /\ \A c \in Cameras : viewerHash[v][c] # None => viewerHash[v][c] \in given[v]
        /\ media[v].pc # "idle" => media[v].link \in given[v]

(* An operation drops the viewers of links of its own camera, and who came  *)
(* in since it has listed them has crossed it.                              *)
OpAims ==
    op.pc \in {"invalidate", "members", "pipeline"} =>
        \A l \in {op.link} \cup op.todo : LinkCamera[l] = op.camera

CrossedInv == op.pc = "pipeline" => linkViewers[op.link] \subseteq op.seen \cup crossed

(* The set of a link outlives the hash of every viewer who has nothing else.*)
SetBound == \A l \in Links : setTtl[l] <= ViewTtl

SetOutlives(v, l) == v \in linkViewers[l] /\ viewerTtl[v] <= setTtl[l]

CountedInv ==
    \A v \in Viewers, l \in Links :
        v \in Holders(l) /\ given[v] = {l} /\ v \notin crossed => SetOutlives(v, l)

CountInv == GivenInv /\ OpAims /\ CrossedInv /\ SetBound /\ CountedInv

LEMMA CountInit == LimitInit => CountInv
BY ParamAssumption, TtlAssumption
   DEF LimitInit, Init, CountInv, GivenInv, OpAims, CrossedInv, SetBound, CountedInv, Holders,
       NoMedia, NoOp

LEMMA GivenStep ==
    ASSUME TypeInv, GivenInv, [Next]_vars, Remember
    PROVE  GivenInv'
<1>1. media \in [Viewers -> MediaType] /\ viewerHash \in [Viewers -> [Cameras -> Grant]]
  BY DEF TypeInv, TypeOK
<1>2. ASSUME NEW v \in Viewers, media'[v].pc # "idle"
      PROVE  \/ media[v].pc # "idle" /\ media'[v].link = media[v].link
             \/ \E c \in Cameras : media'[v].link = viewerHash[v][c] /\ viewerHash[v][c] # None
  <2>1. CASE media' = media
    BY <1>2, <2>1
  <2>2. ASSUME NEW w \in Viewers, NEW c \in Cameras, MediaLookup(w, c)
        PROVE  \/ media[v].pc # "idle" /\ media'[v].link = media[v].link
               \/ media'[v].link = viewerHash[v][c] /\ viewerHash[v][c] # None
    BY <1>1, <1>2, <2>2 DEF MediaLookup
  <2>3. ASSUME NEW w \in Viewers, MediaStep(w), ~ \E c \in Cameras : MediaLookup(w, c)
        PROVE  media[v].pc # "idle" /\ media'[v].link = media[v].link
    BY <1>2, <2>3, MediaKept
  <2>4. ASSUME Tick PROVE media[v].pc # "idle" /\ media'[v].link = media[v].link
    <3>1. media'[v] = Aged(media[v]) /\ media[v] \in MediaType
      BY <1>1, <2>4 DEF Tick
    <3> QED
      BY <1>2, <3>1 DEF Aged, MediaType
  <2>5. ASSUME NEW w \in Viewers, PageStep(w) PROVE media' = media
    BY <2>5 DEF PageStep, PageOpen, PageAuthorize, PageCapacity, PageGrant, OperatorGrant
  <2>6. ASSUME PanelStep \/ Reconcile \/ (\E l \in Links : LinkExpires(l)) PROVE media' = media
    BY <2>6 DEF PanelStep, Revoke, Rotate, LinkDelete, CameraDelete, CameraDisable,
       CameraEnable, Invalidate, DropMembers, DropPipeline, DeleteRows, Kick, DropPath,
       PushPath, Reconcile, LinkExpires
  <2>7. ASSUME UNCHANGED vars PROVE media' = media
    BY <2>7 DEF vars
  <2> QED
    BY <2>1, <2>2, <2>3, <2>4, <2>5, <2>6, <2>7 DEF Next
<1>3. ASSUME NEW v \in Viewers
      PROVE  /\ \A c \in Cameras : viewerHash'[v][c] # None => viewerHash'[v][c] \in given'[v]
             /\ media'[v].pc # "idle" => media'[v].link \in given'[v]
  <2>1. CASE Nothing(v)'
    BY <2>1 DEF Nothing
  <2>2. CASE ~Nothing(v)'
    <3>1. given'[v] = given[v] \cup ({viewerHash'[v][c] : c \in Cameras} \ {None})
      BY <2>2 DEF Remember
    <3>2. media'[v].pc # "idle" => media'[v].link \in given[v]
      BY <1>2 DEF GivenInv
    <3> QED
      BY <3>1, <3>2
  <2> QED
    BY <2>1, <2>2
<1> QED
  BY <1>3 DEF GivenInv

(* What becomes of the operation of the panel.                              *)
LEMMA OpKept ==
    ASSUME TypeInv, [Next]_vars, ~PanelStep
    PROVE  /\ op'.pc = op.pc /\ op'.link = op.link /\ op'.camera = op.camera
           /\ op'.todo = op.todo /\ op'.seen = op.seen
<1>1. op \in OpType
  BY DEF TypeInv, TypeOK
<1>2. CASE Tick
  <2>1. op' = Aged(op)
    BY <1>2 DEF Tick
  <2> QED
    BY <1>1, <2>1 DEF Aged, OpType
<1>3. ASSUME ~Tick PROVE op' = op
  BY <1>3 DEF Next, vars, PageStep, PageOpen, PageAuthorize, PageCapacity, PageGrant,
     OperatorGrant, MediaStep, MediaLookup, MediaOperator, MediaHit, MediaMiss, MediaFill,
     MediaServe, Leave, Reconcile, LinkExpires
<1> QED
  BY <1>2, <1>3

LEMMA AimsStep ==
    ASSUME TypeInv, OpAims, [Next]_vars
    PROVE  OpAims'
<1>1. op \in OpType /\ LinkCamera \in [Links -> Cameras]
  BY ParamAssumption DEF TypeInv, TypeOK
<1>2. CASE ~PanelStep
  BY <1>2, OpKept DEF OpAims
<1>3. ASSUME NEW l \in Links, Revoke(l) \/ Rotate(l) \/ LinkDelete(l) PROVE OpAims'
  BY <1>3 DEF Revoke, Rotate, LinkDelete, Begin, OpAims
<1>4. ASSUME NEW c \in Cameras, CameraDelete(c) PROVE OpAims'
  BY <1>4 DEF CameraDelete, Begin, OpAims
<1>5. ASSUME NEW c \in Cameras, CameraDisable(c) \/ CameraEnable(c) PROVE OpAims'
  BY <1>5 DEF CameraDisable, CameraEnable, Begin, OpAims
<1>6. CASE Invalidate
  <2>1. op' = [op EXCEPT !.pc = "members"] /\ op.pc = "invalidate"
    BY <1>6 DEF Invalidate
  <2>2. op'.link = op.link /\ op'.todo = op.todo /\ op'.camera = op.camera
    BY <1>1, <2>1 DEF OpType
  <2> QED
    BY <2>1, <2>2 DEF OpAims
<1>7. CASE DropMembers
  <2>1. op' = [op EXCEPT !.pc = "pipeline", !.seen = linkViewers[op.link]] /\ op.pc = "members"
    BY <1>7 DEF DropMembers
  <2>2. op'.link = op.link /\ op'.todo = op.todo /\ op'.camera = op.camera
    BY <1>1, <2>1 DEF OpType
  <2> QED
    BY <2>1, <2>2 DEF OpAims
<1>8. CASE DropPipeline
  <2>1. CASE op.todo # {}
    <3>1. PICK l \in op.todo :
            op' = [op EXCEPT !.pc = "members", !.link = l, !.todo = @ \ {l}, !.seen = {}]
      BY <1>8, <2>1 DEF DropPipeline
    <3>2. op'.link = l /\ op'.todo = op.todo \ {l} /\ op'.camera = op.camera
      BY <1>1, <3>1 DEF OpType
    <3> QED
      BY <1>8, <3>2 DEF OpAims, DropPipeline
  <2>2. CASE op.todo = {}
    <3>1. op'.pc \in {"delete", "kick"}
      BY <1>1, <1>8, <2>2 DEF DropPipeline, OpType
    <3> QED
      BY <3>1 DEF OpAims
  <2> QED
    BY <2>1, <2>2
<1>9. CASE DeleteRows
  <2>1. op'.pc \in {"kick", "drop"}
    BY <1>1, <1>9 DEF DeleteRows, OpType
  <2> QED
    BY <2>1 DEF OpAims
<1>10. CASE Kick \/ DropPath \/ PushPath
  BY <1>10 DEF Kick, DropPath, PushPath, EndOp, NoOp, OpAims
<1> QED
  BY <1>2, <1>3, <1>4, <1>5, <1>6, <1>7, <1>8, <1>9, <1>10 DEF PanelStep

LEMMA CrossedStep ==
    ASSUME TypeInv, CrossedInv, [Next]_vars, Remember
    PROVE  CrossedInv'
<1>1. op \in OpType /\ linkViewers \in [Links -> SUBSET Viewers]
  BY DEF TypeInv, TypeOK
<1>2. CASE DropMembers
  <2>1. op'.seen = linkViewers[op.link] /\ op'.link = op.link /\ linkViewers' = linkViewers
    BY <1>1, <1>2 DEF DropMembers, OpType, redis
  <2> QED
    BY <2>1 DEF CrossedInv
<1>3. ASSUME op'.pc = "pipeline", ~DropMembers
      PROVE  op.pc = "pipeline" /\ op'.link = op.link /\ op'.seen = op.seen
  <2>1. CASE ~PanelStep
    BY <1>3, <2>1, OpKept
  <2>2. CASE PanelStep
    <3>1. ASSUME \/ \E l \in Links : Revoke(l) \/ Rotate(l) \/ LinkDelete(l)
                 \/ \E c \in Cameras : CameraDelete(c) \/ CameraDisable(c) \/ CameraEnable(c)
          PROVE  op'.pc # "pipeline"
      BY <3>1 DEF Revoke, Rotate, LinkDelete, CameraDelete, CameraDisable, CameraEnable, Begin
    <3>2. ASSUME Invalidate \/ DeleteRows PROVE op'.pc # "pipeline"
      BY <1>1, <3>2 DEF Invalidate, DeleteRows, OpType
    <3>3. ASSUME DropPipeline PROVE op'.pc # "pipeline"
      BY <1>1, <3>3 DEF DropPipeline, OpType
    <3>4. ASSUME Kick \/ DropPath \/ PushPath PROVE op'.pc # "pipeline"
      BY <3>4 DEF Kick, DropPath, PushPath, EndOp, NoOp
    <3> QED
      BY <1>3, <2>2, <3>1, <3>2, <3>3, <3>4 DEF PanelStep
  <2> QED
    BY <2>1, <2>2
<1>4. ASSUME op'.pc = "pipeline", ~DropMembers
      PROVE  linkViewers'[op'.link] \subseteq op'.seen \cup crossed'
  <2>1. op.pc = "pipeline" /\ op'.link = op.link /\ op'.seen = op.seen /\ op.link \in Links
    BY <1>3, <1>4 DEF TypeInv, OpWf
  <2>2. Crossing(op.link) = NewViewers(op.link) \ op.seen
    BY <2>1 DEF Crossing, Dropping
  <2>3. Crossing(op.link) \subseteq crossed' /\ crossed \subseteq crossed'
    BY <2>1 DEF Remember
  <2>4. linkViewers'[op.link] \subseteq linkViewers[op.link] \cup NewViewers(op.link)
    BY DEF NewViewers
  <2> QED
    BY <2>1, <2>2, <2>3, <2>4 DEF CrossedInv
<1> QED
  BY <1>2, <1>4 DEF CrossedInv

(* Time that a request gives to a hash, it gives to the set of its link.    *)
LEMMA SetsExtend ==
    ASSUME TypeInv, TypeInv', SetBound, NEW v \in Viewers, NEW g \in Links \cup {Operator},
           ExtendLifetimes(v, g)
    PROVE  /\ SetBound'
           /\ \A l \in Links : setTtl'[l] >= setTtl[l]
           /\ \A w \in Viewers : w # v => viewerTtl'[w] = viewerTtl[w]
           /\ \A l \in Links : g = l /\ viewerTtl[v] <= setTtl[l] => viewerTtl'[v] <= setTtl'[l]
<1>1. /\ viewerTtl \in [Viewers -> Nat] /\ setTtl \in [Links -> Nat]
      /\ viewerTtl' \in [Viewers -> Nat] /\ setTtl' \in [Links -> Nat]
      /\ ViewTtl \in Nat \ {0}
  BY TtlAssumption DEF TypeInv, TypeOK
<1>2. SetBound' /\ \A l \in Links : setTtl'[l] >= setTtl[l]
  <2>1. ASSUME NEW l \in Links PROVE setTtl'[l] \in {setTtl[l], ViewTtl}
    BY <1>1 DEF ExtendLifetimes
  <2> QED
    BY <1>1, <2>1 DEF SetBound
<1>3. \A w \in Viewers : w # v => viewerTtl'[w] = viewerTtl[w]
  BY <1>1 DEF ExtendLifetimes
<1>4. ASSUME NEW l \in Links, g = l, viewerTtl[v] <= setTtl[l]
      PROVE  viewerTtl'[v] <= setTtl'[l]
  <2>1. l # Operator
    BY ParamAssumption
  <2>2. CASE setTtl[l] = 0
    BY <1>1, <1>4, <2>2 DEF ExtendLifetimes
  <2>3. CASE setTtl[l] # 0
    <3>1. setTtl'[l] = ViewTtl
      BY <1>1, <1>4, <2>1, <2>3 DEF ExtendLifetimes
    <3>2. viewerTtl'[v] \in {0, ViewTtl}
      BY <1>1 DEF ExtendLifetimes
    <3> QED
      BY <1>1, <3>1, <3>2
  <2> QED
    BY <2>2, <2>3
<1> QED
  BY <1>2, <1>3, <1>4

(* A step that grants nothing, and after which a counted viewer's set still *)
(* outlives his hash.                                                       *)
LEMMA CountedQuiet ==
    ASSUME TypeInv, GivenInv, CountedInv, Remember,
           \A v \in Viewers, c \in Cameras : viewerHash'[v][c] \in {viewerHash[v][c], None},
           \A v \in Viewers, l \in Links :
                /\ v \in Holders(l) /\ given[v] = {l} /\ v \notin crossed
                /\ v \in Holders(l)' /\ SetOutlives(v, l)
                => SetOutlives(v, l)'
    PROVE  CountedInv'
<1>1. ASSUME NEW v \in Viewers, NEW l \in Links,
             v \in Holders(l)', given'[v] = {l}, v \notin crossed'
      PROVE  SetOutlives(v, l)'
  <2>1. PICK c \in Cameras : viewerHash'[v][c] = l
    BY <1>1 DEF Holders
  <2>2. viewerHash[v][c] = l /\ l # None /\ v \in Holders(l)
    BY <2>1, ParamAssumption DEF Holders
  <2>3. given[v] \subseteq given'[v]
    <3>1. ~Nothing(v)'
      BY <2>1, <2>2 DEF Nothing
    <3> QED
      BY <3>1 DEF Remember
  <2>4. given[v] = {l}
    BY <1>1, <2>2, <2>3 DEF GivenInv
  <2>5. v \notin crossed
    BY <1>1 DEF Remember
  <2> QED
    BY <1>1, <2>2, <2>4, <2>5 DEF CountedInv
<1> QED
  BY <1>1 DEF CountedInv

LEMMA CountedMedia ==
    ASSUME TypeInv, TypeInv', CountInv, NEW v \in Viewers, MediaStep(v), Remember
    PROVE  SetBound' /\ CountedInv'
<1>1. viewerHash' = viewerHash /\ linkViewers' = linkViewers
  BY DEF MediaStep, MediaLookup, MediaOperator, MediaHit, MediaMiss, MediaFill, MediaServe,
     Leave, redis
<1>2. /\ viewerTtl \in [Viewers -> Nat] /\ setTtl \in [Links -> Nat]
      /\ viewerTtl' \in [Viewers -> Nat] /\ setTtl' \in [Links -> Nat]
  BY DEF TypeInv, TypeOK
<1>3. ASSUME NEW g \in Links \cup {Operator}, g = media[v].link, media[v].pc # "idle",
             ExtendLifetimes(v, g)
      PROVE  SetBound' /\ CountedInv'
  <2>1. /\ SetBound'
        /\ \A l \in Links : setTtl'[l] >= setTtl[l]
        /\ \A w \in Viewers : w # v => viewerTtl'[w] = viewerTtl[w]
        /\ \A l \in Links : g = l /\ viewerTtl[v] <= setTtl[l] => viewerTtl'[v] <= setTtl'[l]
    BY <1>3, SetsExtend DEF CountInv
  <2>2. g \in given[v]
    BY <1>3 DEF CountInv, GivenInv
  <2>3. ASSUME NEW w \in Viewers, NEW l \in Links, given[w] = {l}, SetOutlives(w, l)
        PROVE  SetOutlives(w, l)'
    <3>1. CASE w = v
      BY <1>1, <2>1, <2>2, <2>3, <3>1 DEF SetOutlives
    <3>2. CASE w # v
      BY <1>1, <1>2, <2>1, <2>3, <3>2 DEF SetOutlives
    <3> QED
      BY <3>1, <3>2
  <2> QED
    BY <1>1, <2>1, <2>3, CountedQuiet DEF CountInv
<1>4. ASSUME UNCHANGED <<viewerTtl, setTtl>> PROVE SetBound' /\ CountedInv'
  <2>1. \A w \in Viewers, l \in Links : SetOutlives(w, l) => SetOutlives(w, l)'
    BY <1>1, <1>4 DEF SetOutlives
  <2> QED
    BY <1>1, <1>4, <2>1, CountedQuiet DEF CountInv, SetBound
<1>5. ASSUME NEW live, Decide(v, live), media[v].pc # "idle", media[v].link \in Links
      PROVE  SetBound' /\ CountedInv'
  BY <1>3, <1>4, <1>5 DEF Decide
<1>6. CASE MediaOperator(v)
  BY <1>3, <1>6 DEF MediaOperator
<1>7. CASE MediaHit(v)
  BY <1>5, <1>7 DEF MediaHit
<1>8. CASE MediaFill(v)
  BY <1>5, <1>8 DEF MediaFill, TypeInv, MediaWf
<1>9. ASSUME (\E c \in Cameras : MediaLookup(v, c)) \/ MediaMiss(v) \/ MediaServe(v) \/ Leave(v)
      PROVE  UNCHANGED <<viewerTtl, setTtl>>
  BY <1>9 DEF MediaLookup, MediaMiss, MediaServe, Leave, redis
<1> QED
  BY <1>4, <1>6, <1>7, <1>8, <1>9 DEF MediaStep

(* A grant gives the hash and the set of its link the same time.            *)
LEMMA CountedGrant ==
    ASSUME TypeInv, TypeInv', CountInv, NEW u \in Viewers, PageGrant(u), Remember
    PROVE  SetBound' /\ CountedInv'
<1> DEFINE m == page[u].link
<1>1. /\ viewerTtl \in [Viewers -> Nat] /\ setTtl \in [Links -> Nat] /\ ViewTtl \in Nat
      /\ linkViewers \in [Links -> SUBSET Viewers]
      /\ viewerHash \in [Viewers -> [Cameras -> Grant]]
      /\ m \in Links /\ LinkCamera[m] \in Cameras /\ m # None
  BY ParamAssumption, TtlAssumption DEF TypeInv, TypeOK, PageWf, PageGrant
<1>2. /\ viewerHash' = [viewerHash EXCEPT ![u][LinkCamera[m]] = m]
      /\ viewerTtl' = [viewerTtl EXCEPT ![u] = ViewTtl]
      /\ linkViewers' = [linkViewers EXCEPT ![m] = @ \cup {u}]
      /\ setTtl' = [setTtl EXCEPT ![m] = ViewTtl]
  BY DEF PageGrant
<1> HIDE DEF m
<1>3. SetBound'
  BY <1>1, <1>2 DEF CountInv, SetBound
<1>4. ASSUME NEW v \in Viewers, NEW l \in Links,
             v \in Holders(l)', given'[v] = {l}, v \notin crossed'
      PROVE  SetOutlives(v, l)'
  <2>1. CASE v = u
    <3>1. viewerHash'[u][LinkCamera[m]] = m
      BY <1>1, <1>2
    <3>2. m \in given'[u]
      BY <1>1, <3>1 DEF Remember, Nothing
    <3>3. m = l
      BY <1>4, <2>1, <3>2
    <3> QED
      BY <1>1, <1>2, <2>1, <3>3 DEF SetOutlives
  <2>2. CASE v # u
    <3>1. viewerHash'[v] = viewerHash[v] /\ viewerTtl'[v] = viewerTtl[v]
      BY <1>1, <1>2, <2>2
    <3>2. v \in Holders(l) /\ ~Nothing(v)'
      BY <1>4, <3>1, ParamAssumption DEF Holders, Nothing
    <3>3. given[v] \subseteq {l} /\ v \notin crossed
      BY <1>4, <3>2 DEF Remember
    <3>4. given[v] = {l}
      BY <3>2, <3>3, ParamAssumption DEF CountInv, GivenInv, Holders
    <3>5. SetOutlives(v, l)
      BY <3>2, <3>3, <3>4 DEF CountInv, CountedInv
    <3> QED
      BY <1>1, <1>2, <3>1, <3>5 DEF SetOutlives, CountInv, SetBound
  <2> QED
    BY <2>1, <2>2
<1> QED
  BY <1>3, <1>4 DEF CountedInv

(* Whoever has the operator's grant has been given more than a link.        *)
LEMMA CountedOperator ==
    ASSUME TypeInv, CountInv, NEW u \in Viewers, NEW d \in Cameras, OperatorGrant(u, d), Remember
    PROVE  SetBound' /\ CountedInv'
<1>1. /\ viewerHash' = [viewerHash EXCEPT ![u][d] = Operator]
      /\ viewerTtl' = [viewerTtl EXCEPT ![u] = OperatorTtl]
      /\ UNCHANGED <<linkViewers, setTtl>>
  BY DEF OperatorGrant
<1>2. viewerHash \in [Viewers -> [Cameras -> Grant]] /\ viewerTtl \in [Viewers -> Nat]
  BY DEF TypeInv, TypeOK
<1>3. SetBound'
  BY <1>1 DEF CountInv, SetBound
<1>4. ASSUME NEW v \in Viewers, NEW l \in Links,
             v \in Holders(l)', given'[v] = {l}, v \notin crossed'
      PROVE  SetOutlives(v, l)'
  <2>1. v # u
    <3>1. viewerHash'[u][d] = Operator /\ Operator # None
      BY <1>1, <1>2, ParamAssumption
    <3>2. Operator \in given'[u]
      BY <3>1 DEF Remember, Nothing
    <3> QED
      BY <1>4, <3>2, ParamAssumption
  <2>2. viewerHash'[v] = viewerHash[v] /\ viewerTtl'[v] = viewerTtl[v]
    BY <1>1, <1>2, <2>1
  <2>3. v \in Holders(l) /\ ~Nothing(v)'
    BY <1>4, <2>2, ParamAssumption DEF Holders, Nothing
  <2>4. given[v] \subseteq {l} /\ v \notin crossed
    BY <1>4, <2>3 DEF Remember
  <2>5. given[v] = {l}
    BY <2>3, <2>4, ParamAssumption DEF CountInv, GivenInv, Holders
  <2>6. SetOutlives(v, l)
    BY <2>3, <2>4, <2>5 DEF CountInv, CountedInv
  <2> QED
    BY <1>1, <2>2, <2>6 DEF SetOutlives
<1> QED
  BY <1>3, <1>4 DEF CountedInv

(* Dropping takes the hash's field from everyone who loses his place, but   *)
(* from those who have crossed it.                                          *)
LEMMA CountedDrop ==
    ASSUME TypeInv, HashRights, CountInv, DropPipeline, Remember
    PROVE  SetBound' /\ CountedInv'
<1>1. /\ viewerHash \in [Viewers -> [Cameras -> Grant]] /\ viewerTtl \in [Viewers -> Nat]
      /\ linkViewers \in [Links -> SUBSET Viewers] /\ setTtl \in [Links -> Nat]
      /\ op.link \in Links /\ ViewTtl \in Nat
  BY TtlAssumption DEF TypeInv, TypeOK, OpWf, DropPipeline
<1>2. /\ linkViewers' = [linkViewers EXCEPT ![op.link] = {}]
      /\ setTtl' = [setTtl EXCEPT ![op.link] = 0]
      /\ viewerHash' = WithoutPath(op.seen, op.camera)
      /\ viewerTtl' = [v \in Viewers |-> TtlOf(viewerHash'[v], v)]
      /\ op.pc = "pipeline"
  BY DEF DropPipeline
<1>3. SetBound'
  BY <1>1, <1>2 DEF CountInv, SetBound
<1>4. \A v \in Viewers, c \in Cameras :
        viewerHash'[v][c] = IF v \in op.seen /\ c = op.camera THEN None ELSE viewerHash[v][c]
  BY <1>1, <1>2 DEF WithoutPath
<1>5. \A v \in Viewers : viewerTtl'[v] <= viewerTtl[v]
  BY <1>1, <1>2 DEF TtlOf
<1>6. ASSUME NEW v \in Viewers, NEW l \in Links,
             v \in Holders(l)', v \notin crossed, SetOutlives(v, l)
      PROVE  SetOutlives(v, l)'
  <2>1. CASE l = op.link
    <3>1. v \in op.seen
      BY <1>2, <1>6, <2>1 DEF SetOutlives, CountInv, CrossedInv
    <3>2. PICK c \in Cameras : viewerHash'[v][c] = l
      BY <1>6 DEF Holders
    <3>3. viewerHash[v][c] = l /\ c # op.camera
      BY <1>4, <3>1, <3>2, ParamAssumption
    <3>4. c = LinkCamera[l]
      BY <3>3 DEF HashRights
    <3>5. LinkCamera[op.link] = op.camera
      BY <1>2 DEF CountInv, OpAims
    <3> QED
      BY <2>1, <3>3, <3>4, <3>5
  <2>2. CASE l # op.link
    <3>1. linkViewers'[l] = linkViewers[l] /\ setTtl'[l] = setTtl[l]
      BY <1>1, <1>2, <2>2
    <3>2. viewerTtl'[v] \in Nat
      BY <1>1, <1>2 DEF TtlOf
    <3> QED
      BY <1>1, <1>5, <1>6, <3>1, <3>2 DEF SetOutlives
  <2> QED
    BY <2>1, <2>2
<1>7. \A v \in Viewers, c \in Cameras : viewerHash'[v][c] \in {viewerHash[v][c], None}
  BY <1>4
<1> QED
  BY <1>3, <1>6, <1>7, CountedQuiet DEF CountInv

LEMMA CountedTick ==
    ASSUME TypeInv, CountInv, Tick, Remember
    PROVE  SetBound' /\ CountedInv'
<1>1. /\ viewerHash \in [Viewers -> [Cameras -> Grant]] /\ viewerTtl \in [Viewers -> Nat]
      /\ linkViewers \in [Links -> SUBSET Viewers] /\ setTtl \in [Links -> Nat]
      /\ ViewTtl \in Nat
  BY TtlAssumption DEF TypeInv, TypeOK
<1>2. /\ viewerTtl' = [v \in Viewers |-> Less(viewerTtl[v])]
      /\ viewerHash' = [v \in Viewers |->
            IF viewerTtl[v] <= 1 THEN [c \in Cameras |-> None] ELSE viewerHash[v]]
      /\ setTtl' = [l \in Links |-> Less(setTtl[l])]
      /\ linkViewers' = [l \in Links |-> IF setTtl[l] <= 1 THEN {} ELSE linkViewers[l]]
  BY DEF Tick
<1>3. SetBound'
  BY <1>1, <1>2 DEF CountInv, SetBound, Less
<1>4. ASSUME NEW v \in Viewers, NEW l \in Links, v \in Holders(l)', SetOutlives(v, l)
      PROVE  SetOutlives(v, l)'
  <2>1. viewerTtl[v] > 1
    BY <1>1, <1>2, <1>4, ParamAssumption DEF Holders
  <2>2. setTtl[l] > 1
    BY <1>1, <1>4, <2>1 DEF SetOutlives
  <2> QED
    BY <1>1, <1>2, <1>4, <2>1, <2>2 DEF SetOutlives, Less
<1>5. \A v \in Viewers, c \in Cameras : viewerHash'[v][c] \in {viewerHash[v][c], None}
  BY <1>1, <1>2
<1> QED
  BY <1>3, <1>4, <1>5, CountedQuiet DEF CountInv

LEMMA CountedStep ==
    ASSUME TypeInv, TypeInv', HashRights, CountInv, [Next]_vars, Remember
    PROVE  SetBound' /\ CountedInv'
<1>1. ASSUME UNCHANGED <<viewerHash, viewerTtl, linkViewers, setTtl>>
      PROVE  SetBound' /\ CountedInv'
  BY <1>1, CountedQuiet DEF CountInv, SetBound, SetOutlives
<1>2. ASSUME NEW v \in Viewers, PageStep(v) PROVE SetBound' /\ CountedInv'
  BY <1>1, <1>2, CountedGrant, CountedOperator
     DEF PageStep, PageOpen, PageAuthorize, PageCapacity, redis
<1>3. ASSUME NEW v \in Viewers, MediaStep(v) PROVE SetBound' /\ CountedInv'
  BY <1>3, CountedMedia
<1>4. ASSUME PanelStep, ~DropPipeline PROVE SetBound' /\ CountedInv'
  BY <1>1, <1>4 DEF PanelStep, Revoke, Rotate, LinkDelete, CameraDelete, CameraDisable,
     CameraEnable, Invalidate, DropMembers, DeleteRows, Kick, DropPath, PushPath, redis
<1>5. ASSUME Reconcile \/ (\E l \in Links : LinkExpires(l)) \/ UNCHANGED vars
      PROVE  SetBound' /\ CountedInv'
  BY <1>1, <1>5 DEF Reconcile, LinkExpires, redis, vars
<1> QED
  BY <1>2, <1>3, <1>4, <1>5, CountedDrop, CountedTick DEF Next

\* A link's limit is passed only by viewers who were overtaken between the counting of the
\* places and the taking of theirs, and a browser that was given nothing but a link is
\* counted as long as it has the grant, unless it came in while the link's viewers were
\* dropped: for any limits, links, viewers and lifetimes (public_views.py:78-89,
\* authz.py:181-201, 356-378).
THEOREM ViewersLimited == LimitSpec => []LimitKept
<1> DEFINE IInv == TypeInv /\ LimitInv /\ CountInv
<1>1. LimitInit => IInv
  <2>1. ASSUME LimitInit PROVE TypeInv
    BY <2>1, TypeInit DEF LimitInit
  <2>2. ASSUME LimitInit PROVE LimitInv
    <3>1. \A l \in Links : linkViewers[l] \ late[l] = {} /\ linkViewers[l] = {}
      BY <2>2 DEF LimitInit, Init
    <3>2. Cardinality({}) = 0 /\ IsFiniteSet({})
      BY FS_EmptySet
    <3>3. LimitsKept
      <4>1. \A l \in Links : MaxConcurrent[l] \in Nat
        BY ParamAssumption
      <4>2. \A l \in Links : Cardinality(linkViewers[l] \ late[l]) = 0
        BY <3>1, <3>2
      <4> QED
        BY <4>1, <4>2 DEF LimitsKept, PlacesKept
    <3>4. LimitTyped
      BY <2>2, <3>1, <3>2 DEF LimitTyped, LimitInit
    <3>5. PlacesHeld
      BY <2>2 DEF PlacesHeld, Checked, LimitInit, Init, NoPage
    <3> QED
      BY <3>3, <3>4, <3>5 DEF LimitInv
  <2> QED
    BY <2>1, <2>2, CountInit
<1>2. HashRights /\ IInv /\ [LimitNext]_limitVars => IInv'
  <2> SUFFICES ASSUME HashRights, TypeInv, LimitInv, CountInv, [LimitNext]_limitVars
               PROVE  TypeInv' /\ LimitInv' /\ CountInv'
    OBVIOUS
  <2>1. [Next]_vars
    BY DEF LimitNext, limitVars
  <2>2. TypeInv'
    BY <2>1, TypeNext
  <2>3. CASE UNCHANGED limitVars
    <3>1. LimitInv'
      BY <2>3 DEF limitVars, vars, LimitInv, LimitTyped, PlacesHeld, HasPlace, LimitsKept,
         PlacesKept, Checked
    <3>2. CountInv'
      BY <2>3 DEF limitVars, vars, CountInv, GivenInv, OpAims, CrossedInv, SetBound, CountedInv,
         SetOutlives, Holders
    <3> QED
      BY <2>2, <3>1, <3>2
  <2>4. CASE LimitNext
    <3>1. Remember /\ Next
      BY <2>4 DEF LimitNext
    <3>2. ASSUME NEW v \in Viewers, PageGrant(v) PROVE LimitInv'
      BY <2>2, <3>1, <3>2, LimitGrant
    <3>3. ASSUME NEW v \in Viewers, PageStep(v), ~PageGrant(v) PROVE LimitInv'
      BY <2>2, <3>1, <3>3, OrderlyPage, LimitOrderly
    <3>4. ASSUME ~\E v \in Viewers : PageStep(v) PROVE LimitInv'
      BY <2>1, <2>2, <3>1, <3>4, OrderlyOther, LimitOrderly
    <3>5. CountInv'
      BY <2>1, <2>2, <3>1, GivenStep, AimsStep, CrossedStep, CountedStep DEF CountInv
    <3> QED
      BY <2>2, <3>2, <3>3, <3>4, <3>5
  <2> QED
    BY <2>3, <2>4
<1>3. LimitSpec => Spec
  <2>1. LimitInit => Init
    BY DEF LimitInit
  <2>2. [LimitNext]_limitVars => [Next]_vars
    BY DEF LimitNext, limitVars
  <2> QED
    BY <2>1, <2>2, PTL DEF LimitSpec, Spec
<1>4. RightsInv => HashRights
  BY DEF RightsInv
<1>5. IInv => LimitKept
  <2>1. ASSUME CountInv, NEW l \in Links PROVE HoldersCounted(l)
    BY <2>1 DEF CountInv, CountedInv, SetOutlives, HoldersCounted, Holders
  <2> QED
    BY <2>1 DEF LimitInv, LimitsKept, LimitKept
<1> HIDE DEF IInv
<1> QED
  BY <1>1, <1>2, <1>3, <1>4, <1>5, RightsAlways, PTL DEF LimitSpec
===============================================================================
