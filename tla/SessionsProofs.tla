---------------------------- MODULE SessionsProofs ----------------------------
(***************************************************************************)
(* Proofs about Sessions, for any number of requests, sessions and runs    *)
(* that end them, and any lifetimes: the type invariant, that the set of a *)
(* user's sessions outlives them, that whoever ends all sessions ends      *)
(* them all, and that no session comes back.                               *)
(***************************************************************************)
EXTENDS Sessions, TLAPS

\* Identifiers are given out in order.
Born == \A s \in Sids : s > created => sess[s].kind = "none"

\* A request knows only sessions that were created.
Known == \A r \in Requests : req[r].sid <= created

\* A run lists only sessions that were created; what it found stale has ended.
StaleOver ==
    \A e \in Endings :
        /\ \A s \in endings[e].sids : s <= created
        /\ \A s \in endings[e].stale : s <= created /\ ~Live(s)

(* Of the sessions that worked when a run began, those that still work are  *)
(* on its list once it has read the set, and none is left when it is done.  *)
Listed ==
    \A e \in Endings : \A s \in endings[e].before :
        /\ s <= created
        /\ endings[e].pc \in {"read", "purge", "delete"} /\ Live(s) => s \in endings[e].sids
        /\ endings[e].pc = "done" /\ s # endings[e].keep => ~Live(s)

\* What a request remembers of a session that still works is true.
Snapshots ==
    \A r \in Requests : req[r].pc \in {"user", "touch"} =>
        LET s == req[r].sid
        IN  /\ sess[s].kind # "pending"
            /\ sess[s].kind = "full" =>
                  req[r].remember = sess[s].remember /\ req[r].left = sess[s].left

SessInv ==
    Born /\ Known /\ StaleOver /\ IndexOutlives /\ Listed /\ Snapshots /\ LifetimeBounded

Early == {"idle", "signIn", "signInPending"}

-------------------------------------------------------------------------------
(* The helpers.                                                             *)

LEMMA Numbers ==
    /\ \A m, n \in Nat : Larger(m, n) \in Nat /\ Larger(m, n) >= m /\ Larger(m, n) >= n
    /\ \A n \in Nat : Down(n) \in Nat
BY DEF Larger, Down

LEMMA TtlType ==
    ASSUME NEW remember \in BOOLEAN, NEW left \in Nat
    PROVE  TtlFor(remember, left) \in Nat \ {0}
BY SessionsAssumption DEF TtlFor, Larger

LEMMA Constants ==
    /\ NoSession \in SessionType /\ NoSession.kind = "none" /\ NoSession.ttl = 0
    /\ NoIndex.members = {} /\ NoIndex.ttl = 0
    /\ \A c \in Nat : NoIndex \in [members: SUBSET (1..c), ttl: Nat]
    /\ Idle \in RequestType /\ Idle.pc = "idle" /\ Idle.sid = 0
    /\ Unused \in EndingType /\ Unused.pc = "unused"
    /\ Unused.before = {} /\ Unused.stale = {} /\ Unused.sids = {}
BY DEF NoSession, SessionType, NoIndex, Idle, RequestType, Unused, EndingType

LEMMA IndexOfFacts ==
    ASSUME TypeOK, NEW sids, NEW ttl \in Nat \ {0}
    PROVE  /\ IndexOf(sids, ttl).members = sids
           /\ IndexOf(sids, ttl).ttl \in Nat \ {0}
           /\ IndexOf(sids, ttl).ttl >= ttl
           /\ IndexOf(sids, ttl).ttl >= index.ttl
           /\ IndexOf(sids, ttl) = [members |-> sids, ttl |-> IndexOf(sids, ttl).ttl]
BY DEF TypeOK, IndexOf, Larger

LEMMA IndexWithoutFacts ==
    ASSUME TypeOK, NEW sids
    PROVE  LET i == IndexWithout(sids)
           IN  /\ i \in [members: SUBSET (1..created), ttl: Nat]
               /\ i.members = {} <=> i.ttl = 0
               /\ i.members = index.members \ sids
               /\ i.members # {} => i.ttl = index.ttl
<1>1. CASE index.members \subseteq sids
  BY <1>1, Constants DEF TypeOK, IndexWithout
<1>2. CASE ~(index.members \subseteq sids)
  <2> DEFINE i == IndexWithout(sids)
  <2>1. i = [members |-> index.members \ sids, ttl |-> index.ttl]
    BY <1>2 DEF TypeOK, IndexWithout
  <2>2. index.members \ sids # {} /\ index.ttl # 0
    BY <1>2 DEF TypeOK
  <2>3. QED
    BY <2>1, <2>2 DEF TypeOK
<1>3. QED
  BY <1>1, <1>2

LEMMA OnlyType ==
    ASSUME NEW s \in Sids, NEW p \in {"owner", "in"}
    PROVE  /\ Only(s, p) \in RequestType
           /\ Only(s, p).sid = s /\ Only(s, p).pc = p
BY DEF Only, Idle, RequestType

(* What a step does to one request leaves all of them well typed.           *)
LEMMA ReqType ==
    ASSUME TypeOK, NEW r \in Requests, NEW x \in RequestType,
           x.sid = 0 <=> x.pc \in Early, req' = [req EXCEPT ![r] = x]
    PROVE  /\ req' \in [Requests -> RequestType]
           /\ \A q \in Requests : req'[q].sid = 0 <=> req'[q].pc \in Early
BY DEF TypeOK, Early

LEMMA ReqStage ==
    ASSUME TypeOK, NEW r \in Requests, req[r].pc \notin Early,
           NEW p \in {"rotate", "touch", "drop", "dropKey"},
           req' = [req EXCEPT ![r].pc = p]
    PROVE  /\ req' \in [Requests -> RequestType]
           /\ \A q \in Requests : req'[q].sid = 0 <=> req'[q].pc \in Early
<1>1. req[r] \in RequestType /\ req[r].sid # 0
  BY DEF TypeOK, Early
<1> DEFINE x == [req[r] EXCEPT !.pc = p]
<1>2. x \in RequestType /\ x.pc = p /\ x.sid = req[r].sid
  BY <1>1 DEF RequestType
<1>3. req' = [req EXCEPT ![r] = x]
  BY DEF TypeOK
<1>4. QED
  BY <1>1, <1>2, <1>3, ReqType DEF Early

LEMMA Cookie ==
    ASSUME TypeOK, NEW r \in Requests, req[r].pc \notin Early
    PROVE  req[r].sid \in Sids
BY DEF TypeOK, RequestType, Early

(* A session that is created gets the next identifier and a lifetime of its *)
(* own, which the set then has as well.                                     *)
Made(kind, remember, ver, left, ttl) ==
    /\ sess' = [sess EXCEPT ![created + 1] =
            [kind |-> kind, ttl |-> ttl, remember |-> remember, left |-> left, ver |-> ver]]
    /\ index' = IndexOf(index.members \cup {created + 1}, ttl)
    /\ ttl <= IF kind = "full" /\ remember THEN Larger(1, left) ELSE SessionTtl

LEMMA CreateFacts ==
    ASSUME TypeOK, NEW kind \in {"pending", "full"}, NEW remember \in BOOLEAN,
           NEW ver \in Nat, Create(kind, remember, ver)
    PROVE  /\ created' = created + 1
           /\ created + 1 \in Sids
           /\ \E left \in Nat, ttl \in Nat \ {0} : Made(kind, remember, ver, left, ttl)
<1> DEFINE limit == remember /\ kind = "full"
           left == IF limit THEN RememberTtl ELSE 0
           ttl == TtlFor(limit, left)
<1>1. left \in Nat /\ limit \in BOOLEAN
  BY SessionsAssumption
<1>2. ttl \in Nat \ {0}
  BY <1>1, TtlType
<1>3. /\ created < MaxSids /\ created' = created + 1
      /\ sess' = [sess EXCEPT ![created + 1] =
              [kind |-> kind, ttl |-> ttl, remember |-> remember,
               left |-> left, ver |-> ver]]
      /\ index' = IndexOf(index.members \cup {created + 1}, ttl)
  BY DEF Create, CreateFor
<1>4. created + 1 \in Sids
  BY <1>3, SessionsAssumption DEF TypeOK, Sids
<1>5. ttl <= IF kind = "full" /\ remember THEN Larger(1, left) ELSE SessionTtl
  BY <1>1, <1>2, SessionsAssumption DEF TtlFor
<1> HIDE DEF left, ttl
<1>6. Made(kind, remember, ver, left, ttl)
  BY <1>3, <1>5 DEF Made
<1>7. QED
  BY <1>1, <1>2, <1>3, <1>4, <1>6

-------------------------------------------------------------------------------
(* Type correctness.                                                        *)

StoreOK ==
    /\ sess \in [Sids -> SessionType]
    /\ \A s \in Sids : sess[s].kind = "none" <=> sess[s].ttl = 0
    /\ index \in [members: SUBSET (1..created), ttl: Nat]
    /\ index.members = {} <=> index.ttl = 0
    /\ created \in 0..MaxSids

RequestsOK ==
    /\ req \in [Requests -> RequestType]
    /\ \A r \in Requests : req[r].sid = 0 <=> req[r].pc \in Early

RowsOK ==
    /\ active \in BOOLEAN /\ totp \in BOOLEAN
    /\ password \in 0..MaxPasswords /\ settled \in Nat

EndingsOK == endings \in [Endings -> EndingType]

LEMMA TypeParts == TypeOK <=> StoreOK /\ RequestsOK /\ RowsOK /\ EndingsOK
BY DEF TypeOK, StoreOK, RequestsOK, RowsOK, EndingsOK, Early

LEMMA TypePartsNext ==
    ASSUME StoreOK', RequestsOK', RowsOK', EndingsOK'
    PROVE  TypeOK'
BY DEF TypeOK, StoreOK, RequestsOK, RowsOK, EndingsOK, Early

LEMMA TypeInit == Init => TypeOK
<1> SUFFICES ASSUME Init PROVE TypeOK
  OBVIOUS
<1>1. StoreOK
  BY Constants, SessionsAssumption DEF Init, StoreOK
<1>2. RequestsOK
  BY Constants DEF Init, RequestsOK, Early
<1>3. RowsOK
  BY SessionsAssumption DEF Init, RowsOK
<1>4. EndingsOK
  BY Constants DEF Init, EndingsOK
<1>5. QED
  BY <1>1, <1>2, <1>3, <1>4, TypeParts

LEMMA CreateType ==
    ASSUME TypeOK, NEW kind \in {"pending", "full"}, NEW remember \in BOOLEAN,
           NEW ver \in Nat, Create(kind, remember, ver)
    PROVE  StoreOK'
<1> DEFINE new == created + 1
<1>0. created' = new /\ new \in Sids
  BY CreateFacts
<1>a. PICK left \in Nat, t \in Nat \ {0} : Made(kind, remember, ver, left, t)
  BY CreateFacts
<1> DEFINE x == [kind |-> kind, ttl |-> t, remember |-> remember, left |-> left, ver |-> ver]
<1>1. sess' = [sess EXCEPT ![new] = x] /\ index' = IndexOf(index.members \cup {new}, t)
  BY <1>a DEF Made
<1>2. x \in SessionType /\ x.kind # "none" /\ x.ttl # 0
  BY DEF SessionType
<1>3. sess' \in [Sids -> SessionType]
  BY <1>0, <1>1, <1>2 DEF TypeOK
<1>4. \A s \in Sids : sess'[s].kind = "none" <=> sess'[s].ttl = 0
  BY <1>0, <1>1, <1>2 DEF TypeOK
<1>5. index.members \cup {new} \in SUBSET (1..created')
  BY <1>0 DEF TypeOK, Sids
<1>6. index' \in [members: SUBSET (1..created'), ttl: Nat]
  BY <1>0, <1>1, <1>5, IndexOfFacts
<1>7. index'.members = {} <=> index'.ttl = 0
  BY <1>1, IndexOfFacts
<1>8. created' \in 0..MaxSids
  BY <1>0 DEF Sids
<1>9. QED
  BY <1>3, <1>4, <1>6, <1>7, <1>8 DEF StoreOK

LEMMA TouchType ==
    ASSUME TypeOK, NEW r \in Requests, Touch(r)
    PROVE  StoreOK' /\ RequestsOK' /\ Touched(r) \in Nat \ {0}
<1>1. req[r].pc = "touch" /\ req[r] \in RequestType /\ req[r].sid \in Sids
  BY Cookie DEF Touch, TypeOK, Early
<1>2. req[r].remember \in BOOLEAN /\ req[r].left \in Nat
  BY <1>1 DEF RequestType
<1>3. Touched(r) \in Nat \ {0}
  BY <1>2, TtlType DEF Touched
<1> DEFINE sid == req[r].sid
           x == IF sess[sid].kind = "full" THEN [sess[sid] EXCEPT !.ttl = Touched(r)]
                ELSE [NoSession EXCEPT !.kind = "ghost", !.ttl = Touched(r)]
<1>4. sess[sid] \in SessionType
  BY <1>1 DEF TypeOK
<1>5. x \in SessionType /\ x.kind # "none" /\ x.ttl # 0
  BY <1>3, <1>4, Constants DEF SessionType
<1>6. sess' = [sess EXCEPT ![sid] = x]
  BY <1>1 DEF Touch, TypeOK
<1> HIDE DEF x
<1>7. sess' \in [Sids -> SessionType]
      /\ \A s \in Sids : sess'[s].kind = "none" <=> sess'[s].ttl = 0
  BY <1>1, <1>5, <1>6 DEF TypeOK
<1>8. index' \in [members: SUBSET (1..created), ttl: Nat]
      /\ (index'.members = {} <=> index'.ttl = 0)
  <2>1. CASE index.members = {}
    BY <2>1 DEF Touch, TouchRest, TypeOK
  <2>2. CASE index.members # {}
    <3>1. index' = IndexOf(index.members, Touched(r))
      BY <2>2 DEF Touch, TouchRest
    <3>2. QED
      BY <2>2, <3>1, <1>3, IndexOfFacts DEF TypeOK
  <2>3. QED
    BY <2>1, <2>2
<1>9. created' = created /\ created \in 0..MaxSids
  BY DEF Touch, TouchRest, TypeOK
<1>10. StoreOK'
  BY <1>7, <1>8, <1>9 DEF StoreOK
<1>11. RequestsOK'
  <2>1. req' = [req EXCEPT ![r] = Only(req[r].sid, "in")]
    BY DEF Touch, TouchRest, TypeOK
  <2>2. req[r].sid # 0
    BY <1>1 DEF Sids
  <2> DEFINE y == Only(req[r].sid, "in")
  <2>3. y \in RequestType /\ y.sid # 0 /\ y.pc \notin Early
    BY <1>1, <2>2, OnlyType DEF Early
  <2> HIDE DEF y
  <2>4. QED
    BY <2>1, <2>3, ReqType DEF RequestsOK, y
<1>12. QED
  BY <1>3, <1>10, <1>11

LEMMA DropType ==
    ASSUME TypeOK, NEW r \in Requests, Drop(r)
    PROVE  StoreOK' /\ RequestsOK'
<1>1. req[r].sid \in Sids /\ sess' = [sess EXCEPT ![req[r].sid] = NoSession]
  BY Cookie DEF Drop, Early
<1>2. sess' \in [Sids -> SessionType]
      /\ \A s \in Sids : sess'[s].kind = "none" <=> sess'[s].ttl = 0
  BY <1>1, Constants DEF TypeOK
<1>3. index' = IndexWithout({req[r].sid}) \/ index' = index
  BY DEF Drop
<1>4. index' \in [members: SUBSET (1..created), ttl: Nat]
      /\ (index'.members = {} <=> index'.ttl = 0)
  BY <1>3, IndexWithoutFacts DEF TypeOK
<1>5. StoreOK'
  BY <1>2, <1>4 DEF StoreOK, Drop, TypeOK
<1>6. QED
  BY <1>5, Constants, ReqType DEF Drop, RequestsOK, Early

LEMMA BeginsType ==
    ASSUME TypeOK, NEW e \in Endings, NEW keep \in Sids \cup {0}, NEW ver \in Nat,
           Begins(e, keep, ver)
    PROVE  EndingsOK' /\ StoreOK' /\ settled' = settled
<1> DEFINE x == [Unused EXCEPT !.pc = "list", !.keep = keep, !.before = LiveSids, !.ver = ver]
<1>1. x \in EndingType
  BY DEF Unused, EndingType, LiveSids
<1>2. endings' = [endings EXCEPT ![e] = x]
  BY DEF Begins
<1>3. QED
  BY <1>1, <1>2 DEF Begins, TypeOK, EndingsOK, StoreOK

LEMMA LeavesType ==
    ASSUME TypeOK, NEW r \in Requests, Leaves(r)
    PROVE  RequestsOK' /\ req[r].sid \in Sids
BY Constants, ReqType, Cookie DEF Leaves, RequestsOK, Early

LEMMA RequestStepType ==
    ASSUME TypeOK, NEW r \in Requests, RequestStep(r)
    PROVE  TypeOK'
<1> USE DEF RowsOK, EndingsOK
<1>0. StoreOK /\ RequestsOK /\ RowsOK /\ EndingsOK
  BY TypeParts
<1>quiet. ASSUME RequestsOK', UNCHANGED <<sess, index, created, active, totp, password, settled, endings>>
      PROVE  TypeOK'
  BY <1>0, <1>quiet, TypePartsNext DEF StoreOK
<1>1. ASSUME NEW remember \in BOOLEAN, PasswordRight(r, remember) PROVE TypeOK'
  <2> DEFINE p == IF totp THEN "signInPending" ELSE "signIn"
             x == [Idle EXCEPT !.pc = p, !.remember = remember, !.ver = password]
  <2>a. password \in Nat
    BY SessionsAssumption DEF TypeOK
  <2>b. p \in {"signInPending", "signIn"}
    OBVIOUS
  <2> HIDE DEF p
  <2>1. x \in RequestType /\ x.sid = 0 /\ x.pc \in Early
    BY <2>a, <2>b DEF Idle, RequestType, Early
  <2>2. req' = [req EXCEPT ![r] = x]
    BY <1>1 DEF PasswordRight, p
  <2> HIDE DEF x
  <2>3. RequestsOK'
    BY <2>1, <2>2, ReqType DEF RequestsOK
  <2>4. QED
    BY <1>1, <1>quiet, <2>3 DEF PasswordRight
<1>creates. ASSUME NEW kind \in {"pending", "full"}, Create(kind, req[r].remember, req[r].ver),
             RequestsOK', UNCHANGED <<active, totp, password, settled, endings>>
      PROVE  TypeOK'
  <2>1. req[r].remember \in BOOLEAN /\ req[r].ver \in Nat
    BY DEF TypeOK, RequestType
  <2>2. StoreOK'
    BY <1>creates, <2>1, CreateType
  <2>3. QED
    BY <1>0, <1>creates, <2>2, TypePartsNext
<1>3. CASE SignIn(r)
  <2>1. RequestsOK'
    BY <1>3, Constants, ReqType DEF SignIn, RequestsOK, Early
  <2>2. QED
    BY <1>creates, <1>3, <2>1 DEF SignIn
<1>4. CASE SignInPending(r)
  <2>1. RequestsOK'
    BY <1>4, Constants, ReqType DEF SignInPending, RequestsOK, Early
  <2>2. QED
    BY <1>creates, <1>4, <2>1 DEF SignInPending
<1>loads. ASSUME NEW s \in Sids, NEW p \in {"code", "user"}, Loaded(r, s, p)
      PROVE  RequestsOK'
  <2> DEFINE x == [pc |-> p, sid |-> s, remember |-> sess[s].remember,
                   left |-> sess[s].left, ver |-> sess[s].ver]
  <2>1. sess[s] \in SessionType
    BY DEF TypeOK
  <2>2. x \in RequestType /\ x.sid # 0 /\ x.pc \notin Early
    BY <2>1 DEF SessionType, RequestType, Early, Sids
  <2>3. req' = [req EXCEPT ![r] = x]
    BY <1>loads DEF Loaded
  <2> HIDE DEF x
  <2>4. QED
    BY <2>2, <2>3, ReqType DEF RequestsOK
<1>keeps. ASSUME NEW s \in Sids, NEW p \in {"owner", "in"}, req' = [req EXCEPT ![r] = Only(s, p)]
      PROVE  RequestsOK'
  <2>1. Only(s, p) \in RequestType /\ Only(s, p).sid # 0 /\ Only(s, p).pc \notin Early
    BY OnlyType DEF Sids, Early
  <2>2. QED
    BY <1>keeps, <2>1, ReqType DEF RequestsOK
<1>8. ASSUME NEW s \in Sids, CodeArrives(r, s) \/ PageArrives(r, s) PROVE TypeOK'
  <2>1. RequestsOK'
    BY <1>loads, <1>8 DEF CodeArrives, PageArrives
  <2>2. QED
    BY <1>quiet, <1>8, <2>1 DEF CodeArrives, PageArrives
<1>9. ASSUME NEW s \in Sids, LogoutArrives(r, s) PROVE TypeOK'
  <2>1. RequestsOK'
    BY <1>keeps, <1>9 DEF LogoutArrives
  <2>2. QED
    BY <1>quiet, <1>9, <2>1 DEF LogoutArrives
<1>10. CASE CodeRight(r)
  <2>1. RequestsOK'
    BY <1>10, ReqStage DEF CodeRight, RequestsOK, Early
  <2>2. QED
    BY <1>quiet, <1>10, <2>1 DEF CodeRight
<1>11. CASE CodeRefused(r)
  <2>1. RequestsOK'
    BY <1>keeps, <1>11, Cookie DEF CodeRefused, Early
  <2>2. QED
    BY <1>quiet, <1>11, <2>1 DEF CodeRefused
<1>12. CASE Rotate(r)
  <2>1. RequestsOK'
    BY <1>keeps, <1>12, Cookie DEF Rotate, Early
  <2>2. QED
    BY <1>creates, <1>12, <2>1 DEF Rotate
<1>13. CASE ReadUser(r)
  <2>1. req[r].sid \in Sids
    BY <1>13, Cookie DEF ReadUser, Early
  <2>2. RequestsOK'
    <3>1. CASE active
      BY <1>13, <3>1, ReqStage DEF ReadUser, RequestsOK, Early, TypeOK
    <3>2. CASE ~active
      BY <1>keeps, <1>13, <2>1, <3>2 DEF ReadUser, TypeOK
    <3>3. QED
      BY <3>1, <3>2
  <2>3. QED
    BY <1>quiet, <1>13, <2>2 DEF ReadUser
<1>14. CASE Touch(r)
  BY <1>0, <1>14, TouchType, TypePartsNext DEF Touch, TouchRest
<1>15. CASE Answered(r)
  BY <1>quiet, <1>15, LeavesType DEF Answered
<1>16. CASE SwitchTotp(r)
  BY <1>0, <1>16, LeavesType, TypePartsNext DEF SwitchTotp, StoreOK
<1>17. CASE FindOwner(r)
  <2>1. RequestsOK'
    BY <1>17, ReqStage DEF FindOwner, RequestsOK, Early
  <2>2. QED
    BY <1>quiet, <1>17, <2>1 DEF FindOwner
<1>18. CASE Drop(r)
  BY <1>0, <1>18, DropType, TypePartsNext DEF Drop
<1>19. ASSUME NEW e \in Endings, ChangePassword(r, e) \/ EndOthers(r, e) PROVE TypeOK'
  <2>1. RequestsOK' /\ req[r].sid \in Sids
    BY <1>19, LeavesType DEF ChangePassword, EndOthers
  <2>2. EndingsOK' /\ StoreOK' /\ settled' = settled
    BY <1>19, <2>1, BeginsType DEF ChangePassword, EndOthers
  <2>3. RowsOK'
    BY <1>0, <1>19, <2>2, SessionsAssumption DEF ChangePassword, EndOthers, NewPassword
  <2>4. QED
    BY <2>1, <2>2, <2>3, TypePartsNext
<1>20. ASSUME NEW e \in Endings, ProfilePage(r, e) PROVE TypeOK'
  <2>1. endings' \in [Endings -> EndingType]
    BY <1>20 DEF ProfilePage, TypeOK, EndingType
  <2>2. QED
    BY <1>0, <1>20, <2>1, LeavesType, TypePartsNext DEF ProfilePage, StoreOK
<1>21. QED
  BY <1>1, <1>3, <1>4, <1>8, <1>9, <1>10, <1>11, <1>12, <1>13, <1>14, <1>15, <1>16,
     <1>17, <1>18, <1>19, <1>20 DEF RequestStep

LEMMA ReadSessionsType ==
    ASSUME TypeOK, NEW e \in Endings, ReadSessions(e)
    PROVE  EndingsOK'
<1>1. endings[e] \in EndingType
  BY DEF TypeOK
<1> DEFINE x == [endings[e] EXCEPT
                    !.sids = {s \in endings[e].sids : sess[s].kind # "none"},
                    !.stale = {s \in endings[e].sids : sess[s].kind = "none"},
                    !.pc = IF endings[e].pc = "read" THEN "purge" ELSE "purgeOnly"]
<1>2. x \in EndingType
  BY <1>1 DEF EndingType
<1>3. endings' = [endings EXCEPT ![e] = x]
  BY <1>1 DEF ReadSessions, TypeOK, EndingType
<1>4. QED
  BY <1>2, <1>3 DEF EndingsOK, TypeOK

LEMMA DeleteAllType ==
    ASSUME TypeOK, NEW e \in Endings, DeleteAll(e)
    PROVE  StoreOK' /\ EndingsOK' /\ RowsOK'
<1> DEFINE doomed == endings[e].sids \ {endings[e].keep}
<1>1. endings[e] \in EndingType
  BY DEF TypeOK
<1>2. sess' = [s \in Sids |-> IF s \in doomed THEN NoSession ELSE sess[s]]
      /\ index' = IndexWithout(doomed)
      /\ settled' = Larger(settled, endings[e].ver)
      /\ endings' = [endings EXCEPT ![e].pc = "done", ![e].sids = {}]
      /\ UNCHANGED <<created, active, totp, password, req>>
  BY DEF DeleteAll
<1> HIDE DEF doomed
<1>3. sess' \in [Sids -> SessionType]
      /\ \A s \in Sids : sess'[s].kind = "none" <=> sess'[s].ttl = 0
  BY <1>2, Constants DEF TypeOK
<1>4. StoreOK'
  BY <1>2, <1>3, IndexWithoutFacts DEF StoreOK, TypeOK
<1>5. EndingsOK'
  BY <1>1, <1>2 DEF EndingsOK, TypeOK, EndingType
<1>6. RowsOK'
  BY <1>1, <1>2, Numbers DEF RowsOK, TypeOK, EndingType
<1>7. QED
  BY <1>4, <1>5, <1>6

LEMMA EndingStepType ==
    ASSUME TypeOK, NEW e \in Endings, EndingStep(e)
    PROVE  TypeOK'
<1>0. StoreOK /\ RequestsOK /\ RowsOK /\ EndingsOK
  BY TypeParts
<1>1. CASE Reset(e)
  <2>1. password + 1 \in Nat /\ password + 1 \in 0..MaxPasswords
    BY <1>1, SessionsAssumption DEF Reset, NewPassword, TypeOK
  <2>2. EndingsOK' /\ StoreOK' /\ settled' = settled
    BY <1>1, <2>1, BeginsType DEF Reset
  <2>3. QED
    BY <1>0, <1>1, <2>1, <2>2, TypePartsNext DEF Reset, NewPassword, RowsOK, RequestsOK
<1>2. CASE Disable(e) \/ ResetTotp(e)
  <2>1. EndingsOK' /\ StoreOK' /\ settled' = settled
    BY <1>2, BeginsType DEF Disable, ResetTotp
  <2>2. QED
    BY <1>0, <1>2, <2>1, TypePartsNext DEF Disable, ResetTotp, RowsOK, RequestsOK
<1>3. CASE ListIndex(e)
  <2>1. endings[e] \in EndingType /\ index.members \subseteq Sids
    BY SessionsAssumption DEF TypeOK, Sids
  <2>2. EndingsOK'
    BY <1>3, <2>1 DEF ListIndex, EndingsOK, TypeOK, EndingType
  <2>3. QED
    BY <1>0, <1>3, <2>2, TypePartsNext DEF ListIndex, StoreOK, RowsOK, RequestsOK
<1>4. CASE ReadSessions(e)
  <2>1. EndingsOK'
    BY <1>4, ReadSessionsType
  <2>2. QED
    BY <1>0, <1>4, <2>1, TypePartsNext DEF ReadSessions, StoreOK, RowsOK, RequestsOK
<1>5. CASE Purge(e)
  <2>1. endings[e] \in EndingType
    BY DEF TypeOK
  <2>2. EndingsOK'
    BY <1>5, <2>1, Constants DEF Purge, EndingsOK, TypeOK, EndingType
  <2>3. StoreOK'
    BY <1>5, IndexWithoutFacts DEF Purge, StoreOK, TypeOK
  <2>4. QED
    BY <1>0, <1>5, <2>2, <2>3, TypePartsNext DEF Purge, RowsOK, RequestsOK
<1>6. CASE DeleteAll(e)
  BY <1>0, <1>6, DeleteAllType, TypePartsNext DEF DeleteAll, RequestsOK
<1>7. QED
  BY <1>1, <1>2, <1>3, <1>4, <1>5, <1>6 DEF EndingStep

LEMMA SessLaterFacts ==
    ASSUME NEW x \in SessionType, x.kind = "none" <=> x.ttl = 0
    PROVE  /\ SessLater(x) \in SessionType
           /\ SessLater(x).kind = "none" <=> SessLater(x).ttl = 0
           /\ \/ SessLater(x) = NoSession /\ x.ttl <= 1
              \/ /\ x.ttl > 1 /\ SessLater(x).ttl = x.ttl - 1
                 /\ SessLater(x).kind = x.kind
                 /\ SessLater(x).remember = x.remember
                 /\ SessLater(x).left = Down(x.left)
<1>1. CASE x.ttl <= 1
  BY <1>1, Constants DEF SessLater
<1>2. CASE ~(x.ttl <= 1)
  <2>1. x.ttl \in Nat /\ x.ttl > 1 /\ x.ttl - 1 \in Nat /\ x.ttl - 1 # 0 /\ x.kind # "none"
    BY <1>2 DEF SessionType
  <2>2. Down(x.left) \in Nat
    BY Numbers DEF SessionType
  <2> DEFINE y == [x EXCEPT !.ttl = x.ttl - 1, !.left = Down(x.left)]
  <2>3. SessLater(x) = y
    BY <1>2 DEF SessLater
  <2>4. /\ y \in SessionType /\ y.ttl = x.ttl - 1 /\ y.kind = x.kind
        /\ y.remember = x.remember /\ y.left = Down(x.left)
    BY <2>1, <2>2 DEF SessionType
  <2> HIDE DEF y
  <2>5. QED
    BY <2>1, <2>3, <2>4
<1>3. QED
  BY <1>1, <1>2

LEMMA TickType ==
    ASSUME TypeOK, Tick
    PROVE  TypeOK'
<1>0. RowsOK /\ EndingsOK
  BY TypeParts
<1>1. \A s \in Sids : /\ sess[s] \in SessionType
                      /\ sess[s].kind = "none" <=> sess[s].ttl = 0
                      /\ sess'[s] = SessLater(sess[s])
  BY DEF Tick, TypeOK
<1>2. sess' \in [Sids -> SessionType]
  BY <1>1, SessLaterFacts DEF Tick
<1>3. \A s \in Sids : sess'[s].kind = "none" <=> sess'[s].ttl = 0
  BY <1>1, SessLaterFacts
<1>4. index' \in [members: SUBSET (1..created), ttl: Nat]
      /\ (index'.members = {} <=> index'.ttl = 0)
  <2>1. CASE index.ttl <= 1
    BY <2>1, Constants DEF Tick, TypeOK
  <2>2. CASE ~(index.ttl <= 1)
    BY <2>2 DEF Tick, TypeOK
  <2>3. QED
    BY <2>1, <2>2
<1>5. StoreOK'
  BY <1>2, <1>3, <1>4 DEF StoreOK, Tick, TypeOK
<1>6. RequestsOK'
  BY Numbers DEF RequestsOK, Tick, TypeOK, RequestType, Early
<1>7. QED
  BY <1>0, <1>5, <1>6, TypePartsNext DEF Tick, RowsOK, EndingsOK

LEMMA TypeStep == TypeOK /\ [Next]_vars => TypeOK'
<1> SUFFICES ASSUME TypeOK, [Next]_vars PROVE TypeOK'
  OBVIOUS
<1>0. StoreOK /\ RequestsOK /\ RowsOK /\ EndingsOK
  BY TypeParts
<1>1. CASE Enable
  BY <1>0, <1>1, TypePartsNext DEF Enable, StoreOK, RequestsOK, RowsOK, EndingsOK
<1>2. CASE CliResetPassword
  <2>1. RowsOK'
    BY <1>2, SessionsAssumption DEF CliResetPassword, NewPassword, RowsOK, TypeOK
  <2>2. QED
    BY <1>0, <1>2, <2>1, TypePartsNext DEF CliResetPassword, StoreOK, RequestsOK, EndingsOK
<1>3. CASE UNCHANGED vars
  BY <1>0, <1>3, TypePartsNext DEF vars, StoreOK, RequestsOK, RowsOK, EndingsOK
<1>4. QED
  BY <1>1, <1>2, <1>3, RequestStepType, EndingStepType, TickType DEF Next

(* Every reachable state is well typed: a hash exists exactly while it has  *)
(* a lifetime, and so does the set.                                         *)
THEOREM TypeCorrect == Spec => []TypeOK
BY TypeInit, TypeStep, PTL DEF Spec

-------------------------------------------------------------------------------
(* The invariant behind the properties.                                     *)

LEMMA Base ==
    ASSUME TypeOK
    PROVE  /\ created \in Nat /\ \A s \in Sids : s \in Nat /\ sess[s] \in SessionType
           /\ \A r \in Requests : req[r] \in RequestType
           /\ \A e \in Endings : endings[e] \in EndingType
           /\ \A e \in Endings : /\ endings[e].before \subseteq Sids
                                /\ endings[e].stale \subseteq Sids
                                /\ endings[e].sids \subseteq Sids
BY DEF TypeOK, Sids, EndingType

LEMMA InvInit == Init => SessInv
<1> SUFFICES ASSUME Init PROVE SessInv
  OBVIOUS
<1>1. \A s \in Sids : sess[s].kind = "none"
  BY Constants DEF Init
<1>2. \A r \in Requests : req[r].sid = 0 /\ req[r].pc = "idle"
  BY Constants DEF Init
<1>3. \A e \in Endings : /\ endings[e].before = {} /\ endings[e].stale = {}
                          /\ endings[e].sids = {}
  BY Constants DEF Init
<1>a. created = 0
  BY DEF Init
<1>4. Known
  <2>1. 0 <= created
    BY <1>a
  <2>2. QED
    BY <1>2, <2>1 DEF Known
<1>5. IndexOutlives /\ LifetimeBounded
  BY <1>1 DEF IndexOutlives, LifetimeBounded, Live
<1>6. QED
  BY <1>1, <1>2, <1>3, <1>4, <1>5 DEF SessInv, Born, StaleOver, Listed, Snapshots

(* A step that leaves sessions and runs alone.                              *)
LEMMA QuietInv ==
    ASSUME SessInv, UNCHANGED <<sess, index, created, endings>>, Known', Snapshots'
    PROVE  SessInv'
<1>1. Born' /\ StaleOver'
  BY DEF SessInv, Born, StaleOver, Live
<1>2. IndexOutlives' /\ LifetimeBounded'
  BY DEF SessInv, IndexOutlives, LifetimeBounded, Live
<1>3. Listed'
  BY DEF SessInv, Listed, Live
<1>4. QED
  BY <1>1, <1>2, <1>3 DEF SessInv

(* What one request comes to know or forget.                                *)
LEMMA OtherRequests ==
    ASSUME TypeOK, SessInv, NEW r \in Requests, NEW x \in RequestType,
           req' = [req EXCEPT ![r] = x], UNCHANGED <<sess, created>>, x.sid <= created, x.pc \notin {"user", "touch"}
    PROVE  Known' /\ Snapshots'
<1>1. ASSUME NEW q \in Requests
      PROVE  /\ req'[q].sid <= created
             /\ req'[q].pc \in {"user", "touch"} => req'[q] = req[q]
  <2>1. CASE q = r
    BY <2>1 DEF TypeOK
  <2>2. CASE q # r
    BY <2>2 DEF TypeOK, SessInv, Known
  <2>3. QED
    BY <2>1, <2>2
<1>2. Known'
  BY <1>1 DEF Known
<1>3. Snapshots'
  BY <1>1 DEF SessInv, Snapshots
<1>4. QED
  BY <1>2, <1>3

LEMMA CreateInv ==
    ASSUME TypeOK, SessInv, NEW r \in Requests, NEW x \in RequestType,
           req' = [req EXCEPT ![r] = x], x.sid <= created, x.pc \notin {"user", "touch"},
           NEW kind \in {"pending", "full"}, NEW remember \in BOOLEAN, NEW ver \in Nat,
           Create(kind, remember, ver), UNCHANGED endings
    PROVE  SessInv'
<1> DEFINE new == created + 1
<1>1. created' = new /\ new \in Sids /\ new > created /\ created \in Nat
  BY CreateFacts, Base
<1>2. PICK left \in Nat, ttl \in Nat \ {0} : Made(kind, remember, ver, left, ttl)
  BY CreateFacts
<1> DEFINE y == [kind |-> kind, ttl |-> ttl, remember |-> remember, left |-> left, ver |-> ver]
<1>3. sess' = [sess EXCEPT ![new] = y] /\ index' = IndexOf(index.members \cup {new}, ttl)
      /\ ttl <= IF kind = "full" /\ remember THEN Larger(1, left) ELSE SessionTtl
  BY <1>2 DEF Made
<1>4. \A s \in Sids : s # new => sess'[s] = sess[s]
  BY <1>3 DEF TypeOK
<1>5. sess'[new] = y
  BY <1>1, <1>3 DEF TypeOK
<1>6. /\ index'.members = index.members \cup {new}
      /\ index'.ttl \in Nat /\ index'.ttl >= ttl /\ index'.ttl >= index.ttl
  BY <1>3, IndexOfFacts
<1>7. \A s \in Sids : s <= created => (Live(s)' <=> Live(s))
  BY <1>1, <1>4, Base DEF Live
<1>8. Born'
  BY <1>1, <1>4, Base DEF SessInv, Born
<1>9. Known'
  <2>1. x.sid \in Nat
    BY DEF RequestType, Sids
  <2>3. ASSUME NEW q \in Requests PROVE req'[q].sid <= created'
    <3>1. req[q].sid \in Nat /\ req[q].sid <= created
      BY Base DEF RequestType, Sids, SessInv, Known
    <3>2. CASE q # r
      BY <1>1, <3>1, <3>2 DEF TypeOK
    <3>3. CASE q = r
      BY <1>1, <2>1, <3>3 DEF TypeOK
    <3>4. QED
      BY <3>2, <3>3
  <2>4. QED
    BY <2>3 DEF Known
<1>10. StaleOver'
  BY <1>1, <1>7, Base DEF SessInv, StaleOver
<1>11. IndexOutlives'
  <2> SUFFICES ASSUME NEW s \in Sids, Live(s)'
               PROVE  s \in index'.members /\ sess'[s].ttl <= index'.ttl
    BY DEF IndexOutlives
  <2>1. CASE s = new
    BY <1>5, <1>6, <2>1
  <2>2. CASE s # new
    <3>1. Live(s) /\ sess'[s] = sess[s]
      BY <1>4, <2>2 DEF Live
    <3>2. s \in index.members /\ sess[s].ttl <= index.ttl /\ sess[s].ttl \in Nat /\ index.ttl \in Nat
      BY <3>1, Base DEF SessInv, IndexOutlives, SessionType, TypeOK
    <3>3. QED
      BY <1>6, <3>1, <3>2
  <2>3. QED
    BY <2>1, <2>2
<1>12. Listed'
  BY <1>1, <1>7, Base DEF SessInv, Listed
<1>13. Snapshots'
  <2> SUFFICES ASSUME NEW q \in Requests, req'[q].pc \in {"user", "touch"}
               PROVE  /\ sess'[req'[q].sid].kind # "pending"
                      /\ sess'[req'[q].sid].kind = "full" =>
                            /\ req'[q].remember = sess'[req'[q].sid].remember
                            /\ req'[q].left = sess'[req'[q].sid].left
    BY DEF Snapshots
  <2>1. q # r /\ req'[q] = req[q]
    BY DEF TypeOK
  <2>2. req[q].sid \in Sids /\ req[q].sid <= created
    BY <2>1, Cookie DEF SessInv, Known, Early
  <2>3. sess'[req[q].sid] = sess[req[q].sid]
    BY <1>1, <1>4, <2>2, Base
  <2>4. QED
    BY <2>1, <2>3 DEF SessInv, Snapshots
<1>14. LifetimeBounded'
  <2> SUFFICES ASSUME NEW s \in Sids, Live(s)'
               PROVE  sess'[s].ttl <= IF sess'[s].kind = "full" /\ sess'[s].remember
                                      THEN Larger(1, sess'[s].left) ELSE SessionTtl
    BY DEF LifetimeBounded
  <2>1. CASE s = new
    BY <1>3, <1>5, <2>1
  <2>2. CASE s # new
    BY <1>4, <2>2 DEF SessInv, LifetimeBounded, Live
  <2>3. QED
    BY <2>1, <2>2
<1>15. QED
  BY <1>8, <1>9, <1>10, <1>11, <1>12, <1>13, <1>14 DEF SessInv

(* A step that deletes some sessions, with or without their entries.        *)
LEMMA RemoveInv ==
    ASSUME TypeOK, SessInv, NEW gone,
           sess' = [s \in Sids |-> IF s \in gone THEN NoSession ELSE sess[s]],
           index' = index \/ index' = IndexWithout(gone), created' = created
    PROVE  /\ \A s \in Sids : Live(s)' => Live(s) /\ s \notin gone
           /\ \A s \in Sids : sess'[s] = sess[s] \/ sess'[s] = NoSession
           /\ Born' /\ IndexOutlives' /\ LifetimeBounded'
<1>1. \A s \in Sids : s \in gone => sess'[s] = NoSession /\ ~Live(s)'
  BY Constants DEF Live
<1>2. \A s \in Sids : s \notin gone => sess'[s] = sess[s]
  OBVIOUS
<1>3. \A s \in Sids : Live(s)' => Live(s) /\ s \notin gone /\ sess'[s] = sess[s]
  BY <1>1, <1>2 DEF Live
<1>4. Born'
  BY <1>1, <1>2, Constants DEF SessInv, Born
<1>5. IndexOutlives'
  <2> SUFFICES ASSUME NEW s \in Sids, Live(s)'
               PROVE  s \in index'.members /\ sess'[s].ttl <= index'.ttl
    BY DEF IndexOutlives
  <2>1. Live(s) /\ s \notin gone /\ sess'[s] = sess[s]
    BY <1>3
  <2>2. s \in index.members /\ sess[s].ttl <= index.ttl
    BY <2>1 DEF SessInv, IndexOutlives
  <2>3. CASE index' = index
    BY <2>1, <2>2, <2>3
  <2>4. CASE index' = IndexWithout(gone)
    <3>1. s \in index'.members
      BY <2>1, <2>2, <2>4, IndexWithoutFacts
    <3>2. index'.ttl = index.ttl
      BY <2>4, <3>1, IndexWithoutFacts
    <3>3. QED
      BY <2>1, <2>2, <3>1, <3>2
  <2>5. QED
    BY <2>3, <2>4
<1>6. LifetimeBounded'
  BY <1>3 DEF SessInv, LifetimeBounded
<1>7. QED
  BY <1>1, <1>2, <1>3, <1>4, <1>5, <1>6

LEMMA TouchInv ==
    ASSUME TypeOK, SessInv, NEW r \in Requests, Touch(r)
    PROVE  SessInv'
<1> DEFINE sid == req[r].sid
           t   == Touched(r)
<1>1. /\ req[r].pc = "touch" /\ sid \in Sids /\ sid <= created
      /\ created' = created /\ endings' = endings
  BY Cookie DEF Touch, TouchRest, Early, SessInv, Known
<1>2. t \in Nat \ {0}
  BY TouchType
<1>3. \A s \in Sids : s # sid => sess'[s] = sess[s]
  BY DEF Touch, TypeOK
<1>4. CASE sess[sid].kind = "full"
  <2>1. /\ sess'[sid].kind = "full" /\ sess'[sid].ttl = t
        /\ sess'[sid].remember = sess[sid].remember /\ sess'[sid].left = sess[sid].left
    BY <1>1, <1>4, Base DEF Touch, TypeOK, SessionType
  <2>2. req[r].remember = sess[sid].remember /\ req[r].left = sess[sid].left
    BY <1>1, <1>4 DEF SessInv, Snapshots
  <2>3. sid \in index.members
    BY <1>1, <1>4 DEF SessInv, IndexOutlives, Live
  <2>4. index' = IndexOf(index.members, t)
    BY <2>3 DEF Touch, TouchRest
  <2>5. index'.members = index.members /\ index'.ttl \in Nat
        /\ index'.ttl >= t /\ index'.ttl >= index.ttl
    BY <1>2, <2>4, IndexOfFacts
  <2>6. \A s \in Sids : /\ Live(s)' <=> Live(s)
                        /\ sess'[s].kind = sess[s].kind
                        /\ sess'[s].remember = sess[s].remember /\ sess'[s].left = sess[s].left
    BY <1>3, <1>4, <2>1 DEF Live
  <2>7. IndexOutlives'
    <3> SUFFICES ASSUME NEW s \in Sids, Live(s)'
                 PROVE  s \in index'.members /\ sess'[s].ttl <= index'.ttl
      BY DEF IndexOutlives
    <3>1. Live(s) /\ s \in index.members /\ sess[s].ttl <= index.ttl
      BY <2>6 DEF SessInv, IndexOutlives
    <3>2. CASE s = sid
      BY <2>1, <2>5, <3>1, <3>2
    <3>3. CASE s # sid
      BY <1>3, <2>5, <3>1, <3>3, Base DEF SessionType, TypeOK
    <3>4. QED
      BY <3>2, <3>3
  <2>8. LifetimeBounded'
    <3> SUFFICES ASSUME NEW s \in Sids, Live(s)'
                 PROVE  sess'[s].ttl <= IF sess'[s].kind = "full" /\ sess'[s].remember
                                        THEN Larger(1, sess'[s].left) ELSE SessionTtl
      BY DEF LifetimeBounded
    <3>1. CASE s = sid
      <4>1. t = IF sess[sid].remember THEN Larger(1, sess[sid].left) ELSE SessionTtl
        BY <2>2 DEF Touched, TtlFor
      <4>2. QED
        BY <1>2, <2>1, <3>1, <4>1, SessionsAssumption
    <3>2. CASE s # sid
      BY <1>3, <2>6, <3>2 DEF SessInv, LifetimeBounded
    <3>3. QED
      BY <3>1, <3>2
  <2>9. Born' /\ StaleOver' /\ Listed'
    BY <1>1, <2>6, Base DEF SessInv, Born, StaleOver, Listed
  <2>10. Known' /\ Snapshots'
    <3>1. req' = [req EXCEPT ![r] = Only(sid, "in")]
      BY DEF Touch, TouchRest, TypeOK
    <3>2. Only(sid, "in").sid = sid /\ Only(sid, "in").pc = "in"
      BY <1>1, OnlyType
    <3>3. ASSUME NEW q \in Requests
          PROVE  /\ req'[q].sid <= created
                 /\ req'[q].pc \in {"user", "touch"} => req'[q] = req[q] /\ req[q].sid \in Sids
      <4>1. CASE q = r
        BY <1>1, <3>1, <3>2, <4>1 DEF TypeOK
      <4>2. CASE q # r
        BY <3>1, <4>2, Cookie DEF TypeOK, SessInv, Known, Early
      <4>3. QED
        BY <4>1, <4>2
    <3>4. Known'
      BY <1>1, <3>3 DEF Known
    <3>5. Snapshots'
      BY <2>6, <3>3 DEF SessInv, Snapshots
    <3>6. QED
      BY <3>4, <3>5
  <2>11. QED
    BY <2>7, <2>8, <2>9, <2>10 DEF SessInv
<1>5. CASE sess[sid].kind # "full"
  <2>1. sess'[sid].kind = "ghost"
    BY <1>1, <1>5, Constants DEF Touch, TypeOK, SessionType
  <2>2. sess[sid].kind # "pending"
    BY <1>1 DEF SessInv, Snapshots
  <2>3. \A s \in Sids : s = sid => ~Live(s) /\ ~Live(s)'
    BY <1>5, <2>1, <2>2 DEF Live
  <2>4. \A s \in Sids : Live(s)' <=> Live(s)
    BY <1>3, <2>3 DEF Live
  <2>5. \A s \in index.members : s \in index'.members
    BY <1>2, IndexOfFacts DEF Touch, TouchRest
  <2>6. index'.ttl >= index.ttl /\ index'.ttl \in Nat /\ index.ttl \in Nat
    BY <1>2, IndexOfFacts DEF Touch, TouchRest, TypeOK
  <2>7. IndexOutlives'
    <3> SUFFICES ASSUME NEW s \in Sids, Live(s)'
                 PROVE  s \in index'.members /\ sess'[s].ttl <= index'.ttl
      BY DEF IndexOutlives
    <3>1. Live(s) /\ s # sid /\ sess'[s] = sess[s]
      BY <1>3, <2>3, <2>4
    <3>2. s \in index.members /\ sess[s].ttl <= index.ttl /\ sess[s].ttl \in Nat
      BY <3>1, Base DEF SessInv, IndexOutlives, SessionType
    <3>3. QED
      BY <2>5, <2>6, <3>1, <3>2
  <2>8. LifetimeBounded'
    <3>1. \A s \in Sids : Live(s)' => Live(s) /\ sess'[s] = sess[s]
      BY <1>3, <2>3, <2>4
    <3>2. QED
      BY <3>1 DEF SessInv, LifetimeBounded
  <2>9. Born'
    BY <1>1, <1>3, Base DEF SessInv, Born
  <2>10. StaleOver' /\ Listed'
    BY <1>1, <2>4, Base DEF SessInv, StaleOver, Listed
  <2>11. Known' /\ Snapshots'
    <3>1. req' = [req EXCEPT ![r] = Only(sid, "in")]
      BY DEF Touch, TouchRest, TypeOK
    <3>2. Only(sid, "in").sid = sid /\ Only(sid, "in").pc = "in"
      BY <1>1, OnlyType
    <3>3. ASSUME NEW q \in Requests
          PROVE  /\ req'[q].sid <= created
                 /\ req'[q].pc \in {"user", "touch"} => req'[q] = req[q] /\ req[q].sid \in Sids
      <4>1. CASE q = r
        BY <1>1, <3>1, <3>2, <4>1 DEF TypeOK
      <4>2. CASE q # r
        BY <3>1, <4>2, Cookie DEF TypeOK, SessInv, Known, Early
      <4>3. QED
        BY <4>1, <4>2
    <3>4. Known'
      BY <1>1, <3>3 DEF Known
    <3>5. Snapshots'
      BY <1>3, <2>1, <3>3 DEF SessInv, Snapshots
    <3>6. QED
      BY <3>4, <3>5
  <2>12. QED
    BY <2>7, <2>8, <2>9, <2>10, <2>11 DEF SessInv
<1>6. QED
  BY <1>4, <1>5

LEMMA DropInv ==
    ASSUME TypeOK, SessInv, NEW r \in Requests, Drop(r)
    PROVE  SessInv'
<1> DEFINE gone == {req[r].sid}
<1>1. req[r].sid \in Sids /\ created' = created /\ endings' = endings
  BY Cookie DEF Drop, Early
<1>2. sess' = [s \in Sids |-> IF s \in gone THEN NoSession ELSE sess[s]]
  BY <1>1 DEF Drop, TypeOK
<1>3. index' = index \/ index' = IndexWithout(gone)
  BY DEF Drop
<1> HIDE DEF gone
<1>4. /\ \A s \in Sids : Live(s)' => Live(s)
      /\ \A s \in Sids : sess'[s] = sess[s] \/ sess'[s] = NoSession
      /\ Born' /\ IndexOutlives' /\ LifetimeBounded'
  BY <1>1, <1>2, <1>3, RemoveInv
<1>5. StaleOver' /\ Listed'
  BY <1>1, <1>4, Base DEF SessInv, StaleOver, Listed
<1>6. ASSUME NEW q \in Requests
      PROVE  req'[q].sid <= created /\ (req'[q] = req[q] \/ req'[q].pc = "idle")
  <2>1. CASE q = r
    BY <2>1, Base, Constants DEF Drop, TypeOK
  <2>2. CASE q # r
    BY <2>2 DEF Drop, TypeOK, SessInv, Known
  <2>3. QED
    BY <2>1, <2>2
<1>7. Known'
  BY <1>1, <1>6 DEF Known
<1>8. Snapshots'
  <2>1. \A q \in Requests : req'[q].pc \in {"user", "touch"} =>
            req'[q] = req[q] /\ req[q].sid \in Sids
    BY <1>6, Cookie DEF Early
  <2>2. QED
    BY <1>4, <2>1, Constants DEF SessInv, Snapshots
<1>9. QED
  BY <1>4, <1>5, <1>7, <1>8 DEF SessInv

LEMMA LeavesInv ==
    ASSUME TypeOK, SessInv, NEW r \in Requests, Leaves(r), UNCHANGED <<sess, created>>
    PROVE  Known' /\ Snapshots'
<1>1. Idle \in RequestType /\ Idle.sid <= created /\ Idle.pc \notin {"user", "touch"}
  BY Constants, Base
<1>2. req' = [req EXCEPT ![r] = Idle]
  BY DEF Leaves
<1>3. QED
  BY <1>1, <1>2, OtherRequests

LEMMA BeginsInv ==
    ASSUME TypeOK, SessInv, NEW e \in Endings, NEW keep, NEW ver, Begins(e, keep, ver),
           Known', Snapshots'
    PROVE  SessInv'
<1> DEFINE x == [Unused EXCEPT !.pc = "list", !.keep = keep, !.before = LiveSids, !.ver = ver]
<1>1. endings' = [endings EXCEPT ![e] = x] /\ UNCHANGED <<sess, index, created>>
  BY DEF Begins
<1>2. x.pc = "list" /\ x.sids = {} /\ x.stale = {} /\ x.before = LiveSids
  BY DEF Unused
<1> HIDE DEF x
<1>3. \A s \in LiveSids : s <= created
  BY Base DEF LiveSids, Live, SessInv, Born
<1>4. endings'[e] = x /\ \A f \in Endings : f # e => endings'[f] = endings[f]
  BY <1>1 DEF TypeOK
<1>5. Born' /\ IndexOutlives' /\ LifetimeBounded'
  BY <1>1 DEF SessInv, Born, IndexOutlives, LifetimeBounded, Live
<1>6. StaleOver'
  BY <1>1, <1>2, <1>4 DEF SessInv, StaleOver, Live
<1>7. Listed'
  BY <1>1, <1>2, <1>3, <1>4 DEF SessInv, Listed, Live
<1>8. QED
  BY <1>5, <1>6, <1>7 DEF SessInv

(* A step of a run that changes no session and no request.                  *)
LEMMA RunInv ==
    ASSUME TypeOK, SessInv, NEW e \in Endings, NEW x, endings' = [endings EXCEPT ![e] = x],
           UNCHANGED <<sess, index, created, req>>,
           \A s \in x.sids : s <= created,
           \A s \in x.stale : s <= created /\ ~Live(s),
           x.before = endings[e].before, x.pc # "done",
           \A s \in x.before : x.pc \in {"read", "purge", "delete"} /\ Live(s) => s \in x.sids
    PROVE  SessInv'
<1>1. endings'[e] = x /\ \A f \in Endings : f # e => endings'[f] = endings[f]
  BY DEF TypeOK
<1>2. Born' /\ IndexOutlives' /\ LifetimeBounded' /\ Known' /\ Snapshots'
  BY DEF SessInv, Born, IndexOutlives, LifetimeBounded, Known, Snapshots, Live
<1>3. StaleOver'
  BY <1>1 DEF SessInv, StaleOver, Live
<1>4. Listed'
  BY <1>1 DEF SessInv, Listed, Live
<1>5. QED
  BY <1>2, <1>3, <1>4 DEF SessInv

LEMMA ProfileInv ==
    ASSUME TypeOK, SessInv, NEW r \in Requests, NEW e \in Endings, ProfilePage(r, e)
    PROVE  SessInv'
<1> DEFINE x == [endings[e] EXCEPT !.pc = "listOnly"]
<1>1. endings' = [endings EXCEPT ![e] = x] /\ UNCHANGED <<sess, index, created>>
  BY DEF ProfilePage, TypeOK
<1>2. x.pc = "listOnly" /\ x.sids = endings[e].sids /\ x.stale = endings[e].stale
      /\ x.before = endings[e].before
  BY Base DEF EndingType
<1> HIDE DEF x
<1>3. Known' /\ Snapshots'
  BY <1>1, LeavesInv DEF ProfilePage
<1>4. endings'[e] = x /\ \A f \in Endings : f # e => endings'[f] = endings[f]
  BY <1>1 DEF TypeOK
<1>5. Born' /\ IndexOutlives' /\ LifetimeBounded'
  BY <1>1 DEF SessInv, Born, IndexOutlives, LifetimeBounded, Live
<1>6. StaleOver'
  BY <1>1, <1>2, <1>4 DEF SessInv, StaleOver, Live
<1>7. Listed'
  BY <1>1, <1>2, <1>4 DEF SessInv, Listed, Live
<1>8. QED
  BY <1>3, <1>5, <1>6, <1>7 DEF SessInv

LEMMA ListInv ==
    ASSUME TypeOK, SessInv, NEW e \in Endings, ListIndex(e)
    PROVE  SessInv'
<1> DEFINE p == IF endings[e].pc = "list" THEN "read" ELSE "readOnly"
           x == [endings[e] EXCEPT !.sids = index.members, !.pc = p]
<1>1. endings[e] \in EndingType
  BY Base
<1>2. endings' = [endings EXCEPT ![e] = x] /\ UNCHANGED <<sess, index, created, req>>
  BY <1>1 DEF ListIndex, TypeOK, EndingType
<1>3. /\ x.sids = index.members /\ x.stale = endings[e].stale
      /\ x.before = endings[e].before /\ x.pc \in {"read", "readOnly"}
  BY <1>1 DEF EndingType
<1> HIDE DEF x
<1>4. \A s \in index.members : s <= created
  BY DEF TypeOK
<1>5. \A s \in x.before : Live(s) => s \in x.sids
  BY <1>3, Base DEF SessInv, IndexOutlives
<1>6. \A s \in x.stale : s <= created /\ ~Live(s)
  BY <1>3 DEF SessInv, StaleOver
<1>7. QED
  BY <1>2, <1>3, <1>4, <1>5, <1>6, RunInv

LEMMA ReadInv ==
    ASSUME TypeOK, SessInv, NEW e \in Endings, ReadSessions(e)
    PROVE  SessInv'
<1> DEFINE p == IF endings[e].pc = "read" THEN "purge" ELSE "purgeOnly"
           found == {s \in endings[e].sids : sess[s].kind # "none"}
           missing == {s \in endings[e].sids : sess[s].kind = "none"}
           x == [endings[e] EXCEPT !.sids = found, !.stale = missing, !.pc = p]
<1>1. endings[e] \in EndingType
  BY Base
<1>2. endings' = [endings EXCEPT ![e] = x] /\ UNCHANGED <<sess, index, created, req>>
  BY <1>1 DEF ReadSessions, TypeOK, EndingType
<1>3. /\ x.sids = found /\ x.stale = missing /\ x.before = endings[e].before
      /\ x.pc = p
  BY <1>1 DEF EndingType
<1>4. p \in {"purge", "purgeOnly"} /\ (p = "purge" <=> endings[e].pc = "read")
  BY DEF ReadSessions
<1> HIDE DEF x, p
<1>5. \A s \in endings[e].sids : s <= created
  BY DEF SessInv, StaleOver
<1>6. \A s \in missing : s <= created /\ ~Live(s)
  BY <1>5 DEF Live
<1>7. \A s \in x.before : x.pc \in {"read", "purge", "delete"} /\ Live(s) => s \in x.sids
  BY <1>3, <1>4 DEF SessInv, Listed, Live
<1>8. \A s \in x.sids : s <= created
  BY <1>3, <1>5
<1>9. \A s \in x.stale : s <= created /\ ~Live(s)
  BY <1>3, <1>6
<1>10. x.pc # "done"
  BY <1>3, <1>4
<1> HIDE DEF found, missing
<1>11. QED
  BY <1>2, <1>3, <1>7, <1>8, <1>9, <1>10, RunInv

LEMMA PurgeInv ==
    ASSUME TypeOK, SessInv, NEW e \in Endings, Purge(e)
    PROVE  SessInv'
<1> DEFINE stale == endings[e].stale
           x == IF endings[e].pc = "purgeOnly" THEN Unused
                ELSE [endings[e] EXCEPT !.pc = "delete", !.stale = {}]
<1>1. endings[e] \in EndingType
  BY Base
<1>2. /\ endings' = [endings EXCEPT ![e] = x] /\ UNCHANGED <<sess, created, req>>
      /\ index' = IndexWithout(stale)
  BY <1>1 DEF Purge, TypeOK, EndingType
<1>3. /\ x.stale = {} /\ \A s \in x.sids : s <= created
      /\ x.pc \in {"unused", "delete"}
      /\ \A s \in x.before : s \in endings[e].before
      /\ \A s \in x.before : x.pc = "delete" /\ Live(s) => s \in x.sids
  <2>1. CASE endings[e].pc = "purgeOnly"
    BY <2>1, Constants
  <2>2. CASE endings[e].pc # "purgeOnly"
    <3>1. endings[e].pc = "purge"
      BY <2>2 DEF Purge
    <3>2. /\ x.pc = "delete" /\ x.stale = {} /\ x.sids = endings[e].sids
          /\ x.before = endings[e].before
      BY <1>1, <2>2 DEF EndingType
    <3> HIDE DEF x
    <3>3. QED
      BY <3>1, <3>2 DEF SessInv, Listed, StaleOver
  <2>3. QED
    BY <2>1, <2>2
<1> HIDE DEF x
<1>4. endings'[e] = x /\ \A f \in Endings : f # e => endings'[f] = endings[f]
  BY <1>2 DEF TypeOK
<1>5. IndexOutlives'
  <2> SUFFICES ASSUME NEW s \in Sids, Live(s)'
               PROVE  s \in index'.members /\ sess'[s].ttl <= index'.ttl
    BY DEF IndexOutlives
  <2>1. Live(s) /\ s \notin stale
    BY <1>2 DEF SessInv, StaleOver, Live
  <2>2. s \in index.members /\ sess[s].ttl <= index.ttl
    BY <2>1 DEF SessInv, IndexOutlives
  <2>3. s \in index'.members
    BY <1>2, <2>1, <2>2, IndexWithoutFacts
  <2>4. index'.ttl = index.ttl
    BY <1>2, <2>3, IndexWithoutFacts
  <2>5. QED
    BY <1>2, <2>2, <2>3, <2>4
<1>6. Born' /\ LifetimeBounded' /\ Known' /\ Snapshots'
  BY <1>2 DEF SessInv, Born, LifetimeBounded, Known, Snapshots, Live
<1>7. StaleOver'
  BY <1>2, <1>3, <1>4 DEF SessInv, StaleOver, Live
<1>8. Listed'
  BY <1>2, <1>3, <1>4 DEF SessInv, Listed, Live
<1>9. QED
  BY <1>5, <1>6, <1>7, <1>8 DEF SessInv

LEMMA DeleteAllInv ==
    ASSUME TypeOK, SessInv, NEW e \in Endings, DeleteAll(e)
    PROVE  SessInv'
<1> DEFINE doomed == endings[e].sids \ {endings[e].keep}
           x == [endings[e] EXCEPT !.pc = "done", !.sids = {}]
<1>1. endings[e] \in EndingType /\ endings[e].pc = "delete"
  BY Base DEF DeleteAll
<1>2. /\ sess' = [s \in Sids |-> IF s \in doomed THEN NoSession ELSE sess[s]]
      /\ index' = IndexWithout(doomed) /\ created' = created /\ req' = req
  BY DEF DeleteAll
<1>3. endings' = [endings EXCEPT ![e] = x]
  BY <1>1 DEF DeleteAll, TypeOK, EndingType
<1>4. /\ x.pc = "done" /\ x.sids = {} /\ x.stale = endings[e].stale
      /\ x.before = endings[e].before /\ x.keep = endings[e].keep
  BY <1>1 DEF EndingType
<1> HIDE DEF x
<1>5. endings'[e] = x /\ \A f \in Endings : f # e => endings'[f] = endings[f]
  BY <1>3 DEF TypeOK
<1>6. /\ \A s \in Sids : Live(s)' => Live(s) /\ s \notin doomed
      /\ \A s \in Sids : sess'[s] = sess[s] \/ sess'[s] = NoSession
      /\ Born' /\ IndexOutlives' /\ LifetimeBounded'
  <2> HIDE DEF doomed
  <2>1. QED
    BY <1>2, RemoveInv
<1>7. Known'
  BY <1>2 DEF SessInv, Known
<1>8. Snapshots'
  <2>1. \A q \in Requests : req[q].pc \in {"user", "touch"} => req[q].sid \in Sids
    BY Cookie DEF Early
  <2>2. QED
    BY <1>2, <1>6, <2>1, Constants DEF SessInv, Snapshots
<1>9. StaleOver'
  BY <1>2, <1>4, <1>5, <1>6, Base DEF SessInv, StaleOver
<1>10. \A s \in endings[e].before : s # endings[e].keep => ~Live(s)'
  <2> SUFFICES ASSUME NEW s \in endings[e].before, s # endings[e].keep, Live(s)'
               PROVE  FALSE
    OBVIOUS
  <2>1. Live(s) /\ s \notin doomed
    BY <1>6, Base
  <2>2. s \in endings[e].sids
    BY <1>1, <2>1 DEF SessInv, Listed
  <2>3. QED
    BY <2>1, <2>2
<1>11. Listed'
  <2> SUFFICES ASSUME NEW f \in Endings, NEW s \in endings'[f].before
               PROVE  /\ s <= created'
                      /\ endings'[f].pc \in {"read", "purge", "delete"} /\ Live(s)' =>
                            s \in endings'[f].sids
                      /\ endings'[f].pc = "done" /\ s # endings'[f].keep => ~Live(s)'
    BY DEF Listed
  <2>1. CASE f = e
    BY <1>2, <1>4, <1>5, <1>10, <2>1 DEF SessInv, Listed
  <2>2. CASE f # e
    BY <1>2, <1>5, <1>6, <2>2, Base DEF SessInv, Listed
  <2>3. QED
    BY <2>1, <2>2
<1>12. QED
  BY <1>6, <1>7, <1>8, <1>9, <1>11 DEF SessInv

LEMMA TickInv ==
    ASSUME TypeOK, SessInv, Tick
    PROVE  SessInv'
<1>1. /\ \A s \in Sids : sess'[s] = SessLater(sess[s])
      /\ created' = created /\ endings' = endings
      /\ \A r \in Requests : /\ req'[r].pc = req[r].pc /\ req'[r].sid = req[r].sid
                             /\ req'[r].remember = req[r].remember
                             /\ req'[r].left = Down(req[r].left)
  BY Base DEF Tick, TypeOK, RequestType
<1>2. \A s \in Sids :
        \/ sess'[s] = NoSession /\ sess[s].ttl <= 1
        \/ /\ sess[s].ttl > 1 /\ sess'[s].ttl = sess[s].ttl - 1
           /\ sess'[s].kind = sess[s].kind /\ sess'[s].remember = sess[s].remember
           /\ sess'[s].left = Down(sess[s].left)
  BY <1>1, SessLaterFacts DEF TypeOK
<1>3. \A s \in Sids : Live(s)' => Live(s) /\ sess[s].ttl > 1 /\ sess'[s].ttl = sess[s].ttl - 1
  BY <1>2, Constants DEF Live
<1>4. Born'
  BY <1>1, <1>2, Constants DEF SessInv, Born
<1>5. Known'
  BY <1>1 DEF SessInv, Known
<1>6. StaleOver' /\ Listed'
  BY <1>1, <1>3, Base DEF SessInv, StaleOver, Listed
<1>7. IndexOutlives'
  <2> SUFFICES ASSUME NEW s \in Sids, Live(s)'
               PROVE  s \in index'.members /\ sess'[s].ttl <= index'.ttl
    BY DEF IndexOutlives
  <2>1. Live(s) /\ sess[s].ttl > 1 /\ sess'[s].ttl = sess[s].ttl - 1
    BY <1>3
  <2>2. s \in index.members /\ sess[s].ttl <= index.ttl
    BY <2>1 DEF SessInv, IndexOutlives
  <2>3. sess[s].ttl \in Nat /\ index.ttl \in Nat
    BY Base DEF SessionType, TypeOK
  <2>4. index' = [index EXCEPT !.ttl = @ - 1]
    BY <2>1, <2>2, <2>3 DEF Tick
  <2>5. index'.members = index.members /\ index'.ttl = index.ttl - 1
    BY <2>4 DEF TypeOK
  <2>6. QED
    BY <2>1, <2>2, <2>3, <2>5
<1>8. LifetimeBounded'
  <2> SUFFICES ASSUME NEW s \in Sids, Live(s)'
               PROVE  sess'[s].ttl <= IF sess'[s].kind = "full" /\ sess'[s].remember
                                      THEN Larger(1, sess'[s].left) ELSE SessionTtl
    BY DEF LifetimeBounded
  <2>1. Live(s) /\ sess[s].ttl > 1 /\ sess'[s].ttl = sess[s].ttl - 1
        /\ sess'[s].kind = sess[s].kind /\ sess'[s].remember = sess[s].remember
        /\ sess'[s].left = Down(sess[s].left)
    <3>1. Live(s) /\ sess[s].ttl > 1 /\ sess'[s].ttl = sess[s].ttl - 1
      BY <1>3
    <3>2. sess'[s] # NoSession
      BY Constants DEF Live
    <3>3. QED
      BY <1>2, <3>1, <3>2
  <2>2. sess[s].ttl \in Nat /\ sess[s].left \in Nat
    BY Base DEF SessionType
  <2>3. CASE sess[s].kind = "full" /\ sess[s].remember
    <3>1. sess[s].ttl <= Larger(1, sess[s].left)
      BY <2>1, <2>3 DEF SessInv, LifetimeBounded
    <3>2. sess[s].ttl - 1 <= Larger(1, Down(sess[s].left))
      BY <2>1, <2>2, <3>1 DEF Larger, Down
    <3>3. QED
      BY <2>1, <2>3, <3>2
  <2>4. CASE ~(sess[s].kind = "full" /\ sess[s].remember)
    <3>1. sess[s].ttl <= SessionTtl
      BY <2>1, <2>4 DEF SessInv, LifetimeBounded
    <3>2. sess'[s].ttl <= SessionTtl
      BY <2>1, <2>2, <3>1, SessionsAssumption
    <3>3. QED
      BY <2>1, <2>4, <3>2
  <2>5. QED
    BY <2>3, <2>4
<1>9. Snapshots'
  <2>1. \A r \in Requests : req[r].pc \in {"user", "touch"} => req[r].sid \in Sids
    BY Cookie DEF Early
  <2>2. QED
    BY <1>1, <1>2, <2>1, Constants DEF SessInv, Snapshots
<1>10. QED
  BY <1>4, <1>5, <1>6, <1>7, <1>8, <1>9 DEF SessInv

LEMMA RequestInv ==
    ASSUME TypeOK, SessInv, NEW r \in Requests, RequestStep(r)
    PROVE  SessInv'
<1>keeps. ASSUME NEW x \in RequestType, req' = [req EXCEPT ![r] = x], x.sid <= created,
                 x.pc \notin {"user", "touch"}, UNCHANGED <<sess, index, created, endings>>
          PROVE  SessInv'
  BY <1>keeps, OtherRequests, QuietInv
<1>idle. Idle \in RequestType /\ Idle.sid <= created /\ Idle.pc \notin {"user", "touch"}
  BY Constants, Base
<1>only. ASSUME NEW p \in {"owner", "in"}, req[r].pc \notin Early
         PROVE  /\ Only(req[r].sid, p) \in RequestType /\ Only(req[r].sid, p).sid <= created
                /\ Only(req[r].sid, p).pc \notin {"user", "touch"}
  BY <1>only, Cookie, OnlyType DEF SessInv, Known
<1>live. \A s \in Sids : sess[s].kind # "none" => s <= created
  BY Base DEF SessInv, Born
<1>data. req[r].remember \in BOOLEAN /\ req[r].ver \in Nat
  BY Base DEF RequestType
<1>1. ASSUME NEW remember \in BOOLEAN, PasswordRight(r, remember) PROVE SessInv'
  <2> DEFINE p == IF totp THEN "signInPending" ELSE "signIn"
             x == [Idle EXCEPT !.pc = p, !.remember = remember, !.ver = password]
  <2>1. password \in Nat
    BY SessionsAssumption DEF TypeOK
  <2>2. p \in {"signInPending", "signIn"}
    OBVIOUS
  <2>3. req' = [req EXCEPT ![r] = x] /\ UNCHANGED <<sess, index, created, endings>>
    BY <1>1 DEF PasswordRight
  <2> HIDE DEF p
  <2>4. x \in RequestType /\ x.sid = 0 /\ x.pc \notin {"user", "touch"}
    BY <2>1, <2>2 DEF Idle, RequestType
  <2>5. x.sid <= created
    BY <2>4, Base
  <2> HIDE DEF x
  <2>6. QED
    BY <1>keeps, <2>3, <2>4, <2>5
<1>2. CASE SignIn(r)
  BY <1>2, <1>idle, <1>data, CreateInv DEF SignIn
<1>3. CASE SignInPending(r)
  BY <1>3, <1>idle, <1>data, CreateInv DEF SignInPending
<1>4. ASSUME NEW s \in Sids, CodeArrives(r, s) PROVE SessInv'
  <2> DEFINE x == [pc |-> "code", sid |-> s, remember |-> sess[s].remember,
                   left |-> sess[s].left, ver |-> sess[s].ver]
  <2>1. x \in RequestType
    BY Base DEF SessionType, RequestType
  <2>2. x.sid <= created
    BY <1>4, <1>live DEF CodeArrives
  <2>3. req' = [req EXCEPT ![r] = x] /\ UNCHANGED <<sess, index, created, endings>>
    BY <1>4 DEF CodeArrives, Loaded
  <2>4. QED
    BY <1>keeps, <2>1, <2>2, <2>3
<1>5. ASSUME NEW s \in Sids, PageArrives(r, s) PROVE SessInv'
  <2> DEFINE x == [pc |-> "user", sid |-> s, remember |-> sess[s].remember,
                   left |-> sess[s].left, ver |-> sess[s].ver]
  <2>1. s <= created /\ sess[s].kind = "full"
    BY <1>5, <1>live DEF PageArrives
  <2>2. req' = [req EXCEPT ![r] = x] /\ UNCHANGED <<sess, index, created, endings>>
    BY <1>5 DEF PageArrives, Loaded
  <2>3. ASSUME NEW q \in Requests PROVE req'[q] = IF q = r THEN x ELSE req[q]
    BY <2>2 DEF TypeOK
  <2>4. Known'
    BY <2>1, <2>2, <2>3 DEF SessInv, Known
  <2>5. Snapshots'
    BY <2>1, <2>2, <2>3 DEF SessInv, Snapshots
  <2>6. QED
    BY <2>2, <2>4, <2>5, QuietInv
<1>6. ASSUME NEW s \in Sids, LogoutArrives(r, s) PROVE SessInv'
  <2>1. s <= created
    BY <1>6, <1>live DEF LogoutArrives, Live
  <2>2. Only(s, "owner") \in RequestType /\ Only(s, "owner").sid <= created
        /\ Only(s, "owner").pc \notin {"user", "touch"}
    BY <2>1, OnlyType
  <2>3. QED
    BY <1>6, <1>keeps, <2>2 DEF LogoutArrives
<1>7. ASSUME NEW p \in {"rotate", "drop", "dropKey"}, req' = [req EXCEPT ![r].pc = p],
             UNCHANGED <<sess, index, created, endings>>
      PROVE  SessInv'
  <2> DEFINE x == [req[r] EXCEPT !.pc = p]
  <2>1. x \in RequestType /\ x.sid = req[r].sid /\ x.pc = p
    BY Base DEF RequestType
  <2>2. req' = [req EXCEPT ![r] = x]
    BY <1>7 DEF TypeOK
  <2>3. x.sid <= created
    BY <2>1 DEF SessInv, Known
  <2> HIDE DEF x
  <2>4. QED
    BY <1>7, <1>keeps, <2>1, <2>2, <2>3
<1>8. CASE CodeRight(r)
  BY <1>7, <1>8 DEF CodeRight
<1>9. CASE CodeRefused(r)
  BY <1>9, <1>keeps, <1>only DEF CodeRefused, Early
<1>10. CASE Rotate(r)
  BY <1>10, <1>only, <1>data, CreateInv DEF Rotate, Early
<1>11. CASE ReadUser(r)
  <2>1. CASE active
    <3> DEFINE x == [req[r] EXCEPT !.pc = "touch"]
    <3>1. req' = [req EXCEPT ![r] = x] /\ UNCHANGED <<sess, index, created, endings>>
          /\ req[r].pc = "user"
      BY <1>11, <2>1 DEF ReadUser, TypeOK
    <3>2. /\ x.sid = req[r].sid /\ x.remember = req[r].remember /\ x.left = req[r].left
      BY Base DEF RequestType
    <3>3. \A q \in Requests : req'[q] = IF q = r THEN x ELSE req[q]
      BY <3>1 DEF TypeOK
    <3> HIDE DEF x
    <3>4. Known'
      BY <3>1, <3>2, <3>3 DEF SessInv, Known
    <3>5. Snapshots'
      BY <3>1, <3>2, <3>3 DEF SessInv, Snapshots
    <3>6. QED
      BY <3>1, <3>4, <3>5, QuietInv
  <2>2. CASE ~active
    <3>1. req' = [req EXCEPT ![r] = Only(req[r].sid, "owner")]
          /\ UNCHANGED <<sess, index, created, endings>>
      BY <1>11, <2>2 DEF ReadUser, TypeOK
    <3>2. QED
      BY <1>11, <1>keeps, <1>only, <3>1 DEF ReadUser, Early
  <2>3. QED
    BY <2>1, <2>2
<1>12. CASE Touch(r)
  BY <1>12, TouchInv
<1>13. CASE Answered(r) \/ SwitchTotp(r)
  BY <1>13, <1>keeps, <1>idle DEF Answered, SwitchTotp, Leaves
<1>14. CASE FindOwner(r)
  BY <1>7, <1>14 DEF FindOwner
<1>15. CASE Drop(r)
  BY <1>15, DropInv
<1>16. ASSUME NEW e \in Endings, ChangePassword(r, e) \/ EndOthers(r, e) PROVE SessInv'
  <2>1. Begins(e, req[r].sid, 0) /\ Leaves(r) /\ UNCHANGED <<sess, created>>
    BY <1>16 DEF ChangePassword, EndOthers, Begins
  <2>2. QED
    BY <2>1, LeavesInv, BeginsInv
<1>17. ASSUME NEW e \in Endings, ProfilePage(r, e) PROVE SessInv'
  BY <1>17, ProfileInv
<1>18. QED
  BY <1>1, <1>2, <1>3, <1>4, <1>5, <1>6, <1>8, <1>9, <1>10, <1>11, <1>12, <1>13, <1>14,
     <1>15, <1>16, <1>17 DEF RequestStep

LEMMA EndingInv ==
    ASSUME TypeOK, SessInv, NEW e \in Endings, EndingStep(e)
    PROVE  SessInv'
<1>1. ASSUME NEW ver, Begins(e, 0, ver), UNCHANGED req PROVE SessInv'
  <2>1. Known' /\ Snapshots'
    BY <1>1 DEF Begins, SessInv, Known, Snapshots
  <2>2. QED
    BY <1>1, <2>1, BeginsInv
<1>2. CASE Reset(e) \/ Disable(e) \/ ResetTotp(e)
  BY <1>1, <1>2 DEF Reset, Disable, ResetTotp
<1>3. QED
  BY <1>2, ListInv, ReadInv, PurgeInv, DeleteAllInv DEF EndingStep

LEMMA InvStep == TypeOK /\ SessInv /\ [Next]_vars => SessInv'
<1> SUFFICES ASSUME TypeOK, SessInv, [Next]_vars PROVE SessInv'
  OBVIOUS
<1>1. ASSUME UNCHANGED <<sess, index, created, endings, req>> PROVE SessInv'
  <2>1. Known' /\ Snapshots'
    BY <1>1 DEF SessInv, Known, Snapshots
  <2>2. QED
    BY <1>1, <2>1, QuietInv
<1>2. CASE Enable \/ CliResetPassword
  BY <1>1, <1>2 DEF Enable, CliResetPassword
<1>3. CASE UNCHANGED vars
  BY <1>1, <1>3 DEF vars
<1>4. QED
  BY <1>2, <1>3, RequestInv, EndingInv, TickInv DEF Next

LEMMA InvAlways == Spec => [](TypeOK /\ SessInv)
<1>1. Init => TypeOK /\ SessInv
  BY TypeInit, InvInit
<1>2. TypeOK /\ SessInv /\ [Next]_vars => TypeOK' /\ SessInv'
  BY TypeStep, InvStep
<1>3. QED
  BY <1>1, <1>2, PTL DEF Spec

-------------------------------------------------------------------------------
(* The properties.                                                          *)

(* The set of a user's sessions lists every session that works and lives as *)
(* long as the longest.                                                     *)
THEOREM IndexOutlivesSessions == Spec => []IndexOutlives
<1>1. SessInv => IndexOutlives
  BY DEF SessInv
<1>2. QED
  BY <1>1, InvAlways, PTL

(* A run that is over has ended every session that worked when its cause    *)
(* was committed, but the one it was to keep.                               *)
THEOREM EndingsEndAll == Spec => []EndingsEnd
<1>1. SessInv => EndingsEnd
  BY DEF SessInv, Listed, EndingsEnd
<1>2. QED
  BY <1>1, InvAlways, PTL

(* No request extends a session further than its kind allows.               *)
THEOREM Lifetimes == Spec => []LifetimeBounded
<1>1. SessInv => LifetimeBounded
  BY DEF SessInv
<1>2. QED
  BY <1>1, InvAlways, PTL

NoReturn == \A s \in 1..created : ~Live(s) => ~Live(s)'

LEMMA RequestNoReturn ==
    ASSUME TypeOK, SessInv, NEW r \in Requests, RequestStep(r)
    PROVE  NoReturn
<1>1. ASSUME UNCHANGED sess PROVE NoReturn
  BY <1>1 DEF NoReturn, Live
<1>2. ASSUME NEW kind \in {"pending", "full"}, Create(kind, req[r].remember, req[r].ver)
      PROVE  NoReturn
  <2>1. req[r].remember \in BOOLEAN /\ req[r].ver \in Nat /\ created \in Nat
    BY Base DEF RequestType
  <2>2. created + 1 \in Sids
    BY <1>2, <2>1, CreateFacts
  <2>3. PICK left \in Nat, ttl \in Nat \ {0} : Made(kind, req[r].remember, req[r].ver, left, ttl)
    BY <1>2, <2>1, CreateFacts
  <2>4. \A s \in 1..created : sess'[s] = sess[s]
    BY <2>1, <2>2, <2>3 DEF Made, TypeOK, Sids
  <2>5. QED
    BY <2>4 DEF NoReturn, Live
<1>3. CASE Touch(r)
  <2>1. req[r].sid \in Sids
    BY <1>3, Cookie DEF Touch, Early
  <2>2. \A s \in Sids : s # req[r].sid => sess'[s] = sess[s]
    BY <1>3 DEF Touch, TypeOK
  <2>3. \A s \in Sids : s = req[r].sid /\ sess[s].kind # "full" => sess'[s].kind = "ghost"
    BY <1>3, <2>1, Constants DEF Touch, TypeOK, SessionType
  <2>4. \A s \in Sids : ~Live(s) => ~Live(s)'
    BY <2>2, <2>3 DEF Live
  <2>5. QED
    BY <2>4, SessionsAssumption DEF NoReturn, Sids, TypeOK
<1>4. CASE Drop(r)
  <2>1. \A s \in Sids : sess'[s] = sess[s] \/ sess'[s] = NoSession
    BY <1>4 DEF Drop, TypeOK
  <2>2. \A s \in Sids : ~Live(s) => ~Live(s)'
    BY <2>1, Constants DEF Live
  <2>3. QED
    BY <2>2, SessionsAssumption DEF NoReturn, Sids, TypeOK
<1>5. CASE SignIn(r) \/ SignInPending(r) \/ Rotate(r)
  BY <1>2, <1>5 DEF SignIn, SignInPending, Rotate
<1>6. CASE \/ \E remember \in BOOLEAN : PasswordRight(r, remember)
           \/ \E s \in Sids : CodeArrives(r, s) \/ PageArrives(r, s) \/ LogoutArrives(r, s)
           \/ CodeRight(r) \/ CodeRefused(r) \/ ReadUser(r) \/ Answered(r)
           \/ SwitchTotp(r) \/ FindOwner(r)
  BY <1>1, <1>6 DEF PasswordRight, CodeArrives, PageArrives, LogoutArrives, CodeRight,
     CodeRefused, ReadUser, Answered, SwitchTotp, FindOwner
<1>7. CASE \E e \in Endings : ChangePassword(r, e) \/ EndOthers(r, e) \/ ProfilePage(r, e)
  BY <1>1, <1>7 DEF ChangePassword, EndOthers, ProfilePage, Begins
<1>8. QED
  BY <1>3, <1>4, <1>5, <1>6, <1>7 DEF RequestStep

LEMMA StepNoReturn ==
    ASSUME TypeOK, SessInv, Next
    PROVE  NoReturn
<1>1. ASSUME UNCHANGED sess PROVE NoReturn
  BY <1>1 DEF NoReturn, Live
<1>2. ASSUME \A s \in Sids : sess'[s] = sess[s] \/ ~Live(s)' \/ Live(s) PROVE NoReturn
  BY <1>2, SessionsAssumption DEF NoReturn, Live, Sids, TypeOK
<1>3. ASSUME NEW e \in Endings, EndingStep(e) PROVE NoReturn
  <2>1. CASE DeleteAll(e)
    <3>1. \A s \in Sids : sess'[s] = sess[s] \/ sess'[s] = NoSession
      BY <2>1 DEF DeleteAll
    <3>2. QED
      BY <1>2, <3>1, Constants DEF Live
  <2>2. CASE ~DeleteAll(e)
    BY <1>1, <1>3, <2>2 DEF EndingStep, Reset, Disable, ResetTotp, Begins, ListIndex,
       ReadSessions, Purge
  <2>3. QED
    BY <2>1, <2>2
<1>4. CASE Tick
  <2>1. ASSUME NEW s \in Sids, Live(s)' PROVE Live(s)
    <3>1. sess'[s] = SessLater(sess[s]) /\ sess[s] \in SessionType
          /\ (sess[s].kind = "none" <=> sess[s].ttl = 0)
      BY <1>4 DEF Tick, TypeOK
    <3>2. sess'[s] # NoSession
      BY <2>1, Constants DEF Live
    <3>3. sess'[s].kind = sess[s].kind
      BY <3>1, <3>2, SessLaterFacts
    <3>4. QED
      BY <2>1, <3>3 DEF Live
  <2>2. QED
    BY <1>2, <2>1
<1>5. CASE Enable \/ CliResetPassword
  BY <1>1, <1>5 DEF Enable, CliResetPassword
<1>6. QED
  BY <1>3, <1>4, <1>5, RequestNoReturn DEF Next

(* A session that has ended never works again, whoever still writes it.     *)
THEOREM OverStaysOver == Spec => OverForGood
<1>1. TypeOK /\ SessInv /\ [Next]_vars =>
        [\A s \in 1..created : ~Live(s) => ~Live(s)']_vars
  BY StepNoReturn DEF NoReturn
<1>2. QED
  BY <1>1, InvAlways, PTL DEF Spec, OverForGood
===============================================================================
