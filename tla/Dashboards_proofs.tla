-------------------------- MODULE Dashboards_proofs --------------------------
(***************************************************************************)
(* Proofs about Dashboards, for any tables, metrics and bounds.            *)
(***************************************************************************)
EXTENDS Dashboards, FiniteSetTheorems, TLAPS

(* A digest with the metrics of the catalog: others change the rest.       *)
Fresh(digest) == digest.metrics = catalog.metrics

(* The dashboard that a request works on stays while it is served.         *)
Held ==
  /\ op.pc \in {"read", "plan", "define", "store"} => dash.exists
  /\ op.pc # "idle" /\ op.stored => dash.exists
  /\ op.pc = "build" => catalog.found
  /\ op.pc \in {"define", "store"} => op.table \subseteq op.read.tables
  /\ op.pc = "define" => op.name \in Metric

(* A chart is added from a catalog that has no more tables than the last   *)
(* rebuild had.                                                            *)
Drawable ==
  /\ dash.views \subseteq dash.snapshot
  /\ dash.stamp.tables \subseteq dash.snapshot
  /\ op.pc = "read" => catalog.tables \subseteq dash.snapshot
  /\ op.pc \in {"plan", "define", "store"} => op.read.tables \subseteq dash.snapshot

(* The digest that an instruction stamps: it has the metrics of the        *)
(* catalog, or two at least, the last of which the instruction saved.      *)
Agrees(digest) == Fresh(digest) \/ (op.name # Column /\ Len(digest.metrics) > 1)

(* The stamp is what the request has tested or read, and what it has       *)
(* defined since.                                                          *)
Stamped ==
  /\ op.pc \in {"read", "plan"} => Fresh(dash.stamp)
  /\ op.pc \in {"plan", "define"} => Fresh(op.read)
  /\ op.pc = "store" => Agrees(op.read)
  /\ op.pc \in {"get", "create", "build"} /\ op.stored => Agrees(dash.stamp)
  /\ op.pc = "build" => Fresh(op.read) /\ (op.stored => dash.stamp # op.read)

IInv == TypeOK /\ Held /\ (~unsure => Drawable) /\ (~op.untested => Stamped)
-----------------------------------------------------------------------------
(* The domains                                                             *)

DashState == [exists : BOOLEAN, stamp : Digest, snapshot : SUBSET View, views : SUBSET View]
OpState == [pc : {"idle", "get", "create", "build", "read", "plan", "define", "store"},
            edit : BOOLEAN, stored : BOOLEAN, untested : BOOLEAN, read : Digest,
            name : Metric \cup {Column}, table : SUBSET Table]

LEMMA TypeNow ==
  ASSUME TypeOK
  PROVE  /\ catalog \in Catalog /\ dash \in DashState /\ op \in OpState
         /\ unsure \in BOOLEAN
         /\ asked \in 0..MaxQuestions /\ defined \in 0..MaxDefinitions
         /\ dash.exists => catalog.found
BY DEF TypeOK, DashState, OpState

LEMMA TypeParts ==
  ASSUME catalog' \in Catalog, dash' \in DashState, op' \in OpState,
         unsure' \in BOOLEAN, asked' \in 0..MaxQuestions, defined' \in 0..MaxDefinitions,
         dash'.exists => catalog'.found
  PROVE  TypeOK'
BY DEF TypeOK, DashState, OpState

LEMMA HashType ==
  ASSUME NEW c \in Catalog
  PROVE  /\ Hash(c) \in Digest
         /\ Hash(c).files = c.files /\ Hash(c).tables = c.tables
         /\ Hash(c).metrics = c.metrics /\ Hash(c).feedback = c.feedback
BY DEF Hash, Digest, Catalog

LEMMA NoCatalogType == NoCatalog \in Catalog /\ ~NoCatalog.found /\ NoCatalog.tables = {}
<1> DEFINE no == FALSE
<1>1. no \in BOOLEAN /\ ~no
  OBVIOUS
<1>2. NoCatalog = [found |-> no, files |-> {}, tables |-> {}, metrics |-> <<>>, feedback |-> 0,
                   ready |-> no]
  BY DEF NoCatalog
<1> HIDE DEF no
<1>3. 0 \in 0..MaxFeedback /\ <<>> \in Seq(Definition)
  BY BoundsAssumption
<1> QED BY <1>1, <1>2, <1>3 DEF Catalog

LEMMA NoDashType ==
  NoDash \in DashState /\ ~NoDash.exists /\ NoDash.views = {} /\ NoDash.stamp.tables = {}
<1> DEFINE no == FALSE
<1>1. no \in BOOLEAN /\ ~no
  OBVIOUS
<1>2. NoDash = [exists |-> no, stamp |-> Hash(NoCatalog), snapshot |-> {}, views |-> {}]
  BY DEF NoDash
<1> HIDE DEF no
<1> QED BY <1>1, <1>2, NoCatalogType, HashType DEF DashState

LEMMA IdleType == Idle \in OpState /\ Idle.pc = "idle" /\ Idle.name = Column /\ Idle.read \in Digest
                  /\ ~Idle.edit /\ ~Idle.stored /\ ~Idle.untested
<1> DEFINE no == FALSE
<1>1. no \in BOOLEAN /\ ~no
  OBVIOUS
<1>2. Idle = [pc |-> "idle", edit |-> no, stored |-> no, untested |-> no,
              read |-> Hash(NoCatalog), name |-> Column, table |-> {}]
  BY DEF Idle
<1> HIDE DEF no
<1>3. Hash(NoCatalog) \in Digest
  BY NoCatalogType, HashType
<1> QED BY <1>1, <1>2, <1>3 DEF OpState

LEMMA WithoutType ==
  ASSUME NEW metrics \in Seq(Definition), NEW name
  PROVE  Without(metrics, name) \in Seq(Definition)
<1>1. CASE \E i \in DOMAIN metrics : metrics[i].name = name
  <2> DEFINE i == CHOOSE i \in DOMAIN metrics : metrics[i].name = name
  <2>1. i \in 1..Len(metrics) /\ Len(metrics) \in Nat
    BY <1>1
  <2>2. Without(metrics, name) = SubSeq(metrics, 1, i - 1) \o SubSeq(metrics, i + 1, Len(metrics))
    BY <1>1 DEF Without, RemoveAt
  <2> HIDE DEF i
  <2>3. SubSeq(metrics, 1, i - 1) \in Seq(Definition)
    BY <2>1
  <2>4. SubSeq(metrics, i + 1, Len(metrics)) \in Seq(Definition)
    BY <2>1
  <2> QED BY <2>2, <2>3, <2>4
<1>2. CASE ~\E i \in DOMAIN metrics : metrics[i].name = name
  BY <1>2 DEF Without
<1> QED BY <1>1, <1>2
-----------------------------------------------------------------------------
(* Steps outside the requests                                              *)

LEMMA InvInit == Init => IInv
<1> SUFFICES ASSUME Init PROVE IInv
  OBVIOUS
<1>1. catalog = NoCatalog /\ dash = NoDash /\ op = Idle /\ asked = 0 /\ defined = 0
  BY DEF Init
<1>2. unsure \in BOOLEAN
  BY DEF Init
<1>3. TypeOK
  BY <1>1, <1>2, NoCatalogType, NoDashType, IdleType, BoundsAssumption
  DEF TypeOK, DashState, OpState
<1>4. Held /\ Drawable /\ Stamped
  BY <1>1, NoDashType, IdleType DEF Held, Drawable, Stamped
<1> QED BY <1>3, <1>4 DEF IInv

(* A change of the catalog by others than the request: its metrics stay.   *)
LEMMA InvOthers ==
  ASSUME IInv, UNCHANGED <<dash, op, defined>>, catalog' \in Catalog, catalog'.metrics = catalog.metrics,
         catalog.found => catalog'.found, asked' \in 0..MaxQuestions, unsure' \in BOOLEAN,
         ~unsure' => ~unsure /\ (op.pc = "read" => catalog'.tables \subseteq catalog.tables)
  PROVE  IInv'
<1>1. TypeOK'
  BY TypeNow, TypeParts DEF IInv
<1>2. Held'
  BY DEF IInv, Held
<1>3. ~unsure' => Drawable'
  <2> SUFFICES ASSUME ~unsure' PROVE Drawable'
    OBVIOUS
  <2>1. Drawable
    BY DEF IInv
  <2> QED BY <2>1 DEF Drawable
<1>4. ~op.untested => Stamped'
  BY DEF IInv, Stamped, Agrees, Fresh
<1> QED BY <1>1, <1>2, <1>3, <1>4 DEF IInv

LEMMA InvQuestion == ASSUME IInv, Question PROVE IInv'
<1> USE TypeNow DEF IInv
<1>1. PICK T \in SUBSET Table :
        catalog' = [catalog EXCEPT !.found = TRUE, !.files = T, !.tables = catalog.tables \cup T]
  BY DEF Question
<1> DEFINE yes == TRUE
<1>2. yes \in BOOLEAN /\ yes
  OBVIOUS
<1>3. catalog' = [catalog EXCEPT !.found = yes, !.files = T, !.tables = catalog.tables \cup T]
  BY <1>1
<1> HIDE DEF yes
<1>4. catalog' \in Catalog /\ catalog'.found /\ catalog'.metrics = catalog.metrics
  BY <1>2, <1>3 DEF Catalog
<1>5. asked' \in 0..MaxQuestions /\ UNCHANGED <<dash, op, defined>>
  BY BoundsAssumption DEF Question
<1>6. unsure' \in BOOLEAN /\ (~unsure' => ~unsure /\ op.pc # "read")
  BY DEF Question, At
<1> QED BY <1>4, <1>5, <1>6, InvOthers

LEMMA InvSaveOutcome == ASSUME IInv, SaveOutcome PROVE IInv'
<1> USE TypeNow DEF IInv
<1>1. PICK ready \in BOOLEAN : catalog' = [catalog EXCEPT !.ready = ready]
  BY DEF SaveOutcome
<1>2. /\ catalog' \in Catalog /\ catalog'.found = catalog.found
      /\ catalog'.metrics = catalog.metrics /\ catalog'.tables = catalog.tables
  BY <1>1 DEF Catalog
<1>3. UNCHANGED <<dash, op, unsure, asked, defined>>
  BY DEF SaveOutcome, UnchangedRest, UnchangedBounds
<1> QED BY <1>2, <1>3, InvOthers

LEMMA InvFeedback == ASSUME IInv, ApplyFeedback \/ SaveFeedback PROVE IInv'
<1> USE TypeNow DEF IInv
<1>1. catalog' = [catalog EXCEPT !.feedback = catalog.feedback + 1] /\ catalog.feedback < MaxFeedback
  BY DEF ApplyFeedback, SaveFeedback
<1>2. catalog.feedback + 1 \in 0..MaxFeedback
  BY <1>1, BoundsAssumption DEF Catalog
<1>3. /\ catalog' \in Catalog /\ catalog'.found = catalog.found
      /\ catalog'.metrics = catalog.metrics /\ catalog'.tables = catalog.tables
  BY <1>1, <1>2 DEF Catalog
<1>4. UNCHANGED <<dash, op, unsure, asked, defined>>
  BY DEF ApplyFeedback, SaveFeedback, UnchangedRest, UnchangedBounds
<1> QED BY <1>3, <1>4, InvOthers

LEMMA InvDeleteConversation == ASSUME IInv, DeleteConversation PROVE IInv'
<1> USE TypeNow DEF IInv
<1>1. op.pc = "idle" /\ catalog' = NoCatalog /\ dash' = NoDash /\ UNCHANGED <<op, asked, defined>>
  BY DEF DeleteConversation, UnchangedBounds, At
<1>2. unsure' \in BOOLEAN
  BY DEF DeleteConversation
<1>3. TypeOK'
  BY <1>1, <1>2, NoCatalogType, NoDashType, TypeParts
<1>4. Held' /\ Drawable' /\ Stamped'
  BY <1>1, NoDashType DEF Held, Drawable, Stamped
<1> QED BY <1>3, <1>4

(* The reconciliation thread. *)
LEMMA InvHide == ASSUME IInv, NEW t \in Table, Hide(t) PROVE IInv'
<1> USE TypeNow DEF IInv
<1>1. catalog' = [catalog EXCEPT !.tables = catalog.tables \ {t}]
      /\ UNCHANGED <<dash, op, unsure, asked, defined>>
  BY DEF Hide, UnchangedRest, UnchangedBounds
<1>2. /\ catalog' \in Catalog /\ catalog'.found = catalog.found /\ catalog'.metrics = catalog.metrics
      /\ catalog'.tables \subseteq catalog.tables
  BY <1>1 DEF Catalog
<1> QED BY <1>1, <1>2, InvOthers
-----------------------------------------------------------------------------
(* Steps of a request                                                      *)

(* One that moves the request only.                                        *)
LEMMA InvMoves ==
  ASSUME IInv, UNCHANGED <<catalog, dash, asked, defined>>, op' \in OpState,
         unsure' \in BOOLEAN, ~unsure' => ~unsure, Held', ~op'.untested => Stamped',
         ~unsure' => /\ op'.pc \in {"plan", "define", "store"} => op'.read.tables \subseteq dash.snapshot
                     /\ op'.pc = "read" => catalog.tables \subseteq dash.snapshot
  PROVE  IInv'
<1>1. TypeOK'
  BY TypeNow, TypeParts DEF IInv
<1>2. ~unsure' => Drawable'
  BY DEF IInv, Drawable
<1> QED BY <1>1, <1>2 DEF IInv

LEMMA InvRequest == ASSUME IInv, Request PROVE IInv'
<1>1. PICK pc \in {"create", "get"}, edit \in BOOLEAN : op' = [Idle EXCEPT !.pc = pc, !.edit = edit]
  <2>1. CASE Create
    <3> DEFINE no == FALSE
    <3>1. no \in BOOLEAN /\ ~no
      OBVIOUS
    <3>2. Idle.edit = no /\ op' = [Idle EXCEPT !.pc = "create"]
      BY <2>1 DEF Create, Idle
    <3> QED BY <3>1, <3>2, IdleType DEF OpState
  <2>2. CASE Open
    <3>2. op' = [Idle EXCEPT !.pc = "get"]
      BY <2>2 DEF Open
    <3> QED BY <3>2, IdleType DEF OpState
  <2>3. CASE Instruct
    <3> DEFINE yes == TRUE
    <3>1. yes \in BOOLEAN /\ op' = [Idle EXCEPT !.pc = "get", !.edit = yes]
      BY <2>3 DEF Instruct
    <3> HIDE DEF yes
    <3> QED BY <3>1
  <2> QED BY <2>1, <2>2, <2>3 DEF Request
<1>2. op' \in OpState /\ op'.pc \in {"create", "get"} /\ ~op'.stored
  BY <1>1, IdleType DEF OpState
<1>3. UNCHANGED <<catalog, dash, unsure, asked, defined>>
  BY DEF Request, UnchangedRest, UnchangedBounds
<1>4. Held' /\ Stamped'
  BY <1>2 DEF Held, Stamped
<1> QED BY <1>2, <1>3, <1>4, InvMoves, TypeNow DEF IInv

LEMMA GotCases ==
  ASSUME TypeOK, Got
  PROVE  /\ op' \in OpState
         /\ op' = Idle \/ (op'.pc = "read" /\ ~op'.stored /\ op'.untested = op.untested)
BY TypeNow, IdleType DEF Got, Goto, OpState

LEMMA InvGet == ASSUME IInv, Get PROVE IInv'
<1> USE TypeNow DEF IInv
<1>1. At("get") /\ dash.exists /\ catalog.found /\ UNCHANGED <<catalog, dash, unsure, asked, defined>>
  BY DEF Get, UnchangedRest, UnchangedBounds
<1>2. CASE dash.stamp # Hash(catalog)
  <2>1. op' = [op EXCEPT !.pc = "create"]
    BY <1>1, <1>2 DEF Get, Goto
  <2>2. op' \in OpState /\ op'.pc = "create" /\ op'.stored = op.stored /\ op'.name = op.name
      /\ op'.untested = op.untested
    BY <2>1 DEF OpState
  <2>3. Held'
    BY <1>1, <2>2 DEF Held
  <2>4. Stamped => Stamped'
    BY <1>1, <2>2 DEF Stamped, Agrees, Fresh, At
  <2> QED BY <1>1, <2>2, <2>3, <2>4, InvMoves
<1>3. CASE dash.stamp = Hash(catalog)
  <2>1. Got
    BY <1>1, <1>3 DEF Get
  <2>2. Fresh(dash.stamp)
    BY <1>3, HashType DEF Fresh
  <2>3. Held'
    BY <1>1, <2>1, GotCases, IdleType DEF Held
  <2>4. Stamped'
    BY <1>1, <2>1, <2>2, GotCases, IdleType DEF Stamped, Agrees, Fresh
  <2>5. op'.pc \notin {"plan", "define", "store"}
    BY <2>1, GotCases, IdleType
  <2>6. Drawable => catalog.tables \subseteq dash.snapshot
    BY <1>3, HashType DEF Drawable
  <2> QED BY <1>1, <2>1, <2>3, <2>4, <2>5, <2>6, InvMoves, GotCases
<1> QED BY <1>2, <1>3

LEMMA InvGetUntested == ASSUME IInv, GetUntested PROVE IInv'
<1> USE TypeNow DEF IInv
<1>1. At("get") /\ dash.exists /\ UNCHANGED <<catalog, dash, asked, defined>>
  BY DEF GetUntested, UnchangedBounds
<1>2. CASE op.edit /\ ~op.stored
  <2> DEFINE yes == TRUE
  <2>1. yes \in BOOLEAN /\ yes
    OBVIOUS
  <2>2. op' = [op EXCEPT !.pc = "read", !.untested = yes] /\ unsure' = yes
    BY <1>2 DEF GetUntested
  <2> HIDE DEF yes
  <2>3. op' \in OpState /\ op'.pc = "read" /\ op'.stored = op.stored /\ op'.untested
    BY <2>1, <2>2 DEF OpState
  <2>4. Held'
    BY <1>1, <1>2, <2>3 DEF Held
  <2> QED BY <1>1, <2>1, <2>2, <2>3, <2>4, InvMoves
<1>3. CASE ~(op.edit /\ ~op.stored)
  <2>1. op' = Idle /\ unsure' = unsure
    BY <1>3 DEF GetUntested
  <2>2. Held' /\ Stamped'
    BY <2>1, IdleType DEF Held, Stamped
  <2> QED BY <1>1, <2>1, <2>2, IdleType, InvMoves
<1> QED BY <1>2, <1>3

LEMMA InvCreateRead == ASSUME IInv, CreateRead PROVE IInv'
<1> USE TypeNow DEF IInv
<1>1. At("create") /\ catalog.found /\ UNCHANGED <<catalog, dash, unsure, asked, defined>>
  BY DEF CreateRead, UnchangedRest, UnchangedBounds
<1>2. CASE dash.exists /\ dash.stamp = Hash(catalog)
  <2>1. op' = [op EXCEPT !.pc = "get"]
    BY <1>2 DEF CreateRead, Goto
  <2>2. op' \in OpState /\ op'.pc = "get" /\ op'.stored = op.stored /\ op'.name = op.name
      /\ op'.untested = op.untested
    BY <2>1 DEF OpState
  <2>3. Held'
    BY <1>1, <1>2, <2>2 DEF Held
  <2>4. Stamped => Stamped'
    BY <1>1, <2>2 DEF Stamped, Agrees, Fresh, At
  <2> QED BY <1>1, <2>2, <2>3, <2>4, InvMoves
<1>3. CASE ~(dash.exists /\ dash.stamp = Hash(catalog))
  <2>1. op' = [op EXCEPT !.pc = "build", !.read = Hash(catalog)]
    BY <1>3 DEF CreateRead
  <2>2. /\ op' \in OpState /\ op'.pc = "build" /\ op'.stored = op.stored /\ op'.name = op.name
      /\ op'.untested = op.untested
        /\ op'.read = Hash(catalog) /\ op'.untested = op.untested
    BY <2>1, HashType DEF OpState
  <2>3. Held'
    BY <1>1, <2>2 DEF Held, At
  <2>4. Fresh(Hash(catalog)) /\ (op.stored => dash.stamp # Hash(catalog))
    BY <1>1, <1>3, HashType DEF Fresh, Held, At
  <2>5. Stamped => Stamped'
    BY <1>1, <2>2, <2>4 DEF Stamped, Agrees, Fresh, At
  <2> QED BY <1>1, <2>2, <2>3, <2>5, InvMoves
<1> QED BY <1>2, <1>3

LEMMA InvEditRead == ASSUME IInv, EditRead PROVE IInv'
<1> USE TypeNow DEF IInv
<1>1. At("read") /\ catalog.found /\ UNCHANGED <<catalog, dash, unsure, asked, defined>>
      /\ op' = [op EXCEPT !.pc = "plan", !.read = Hash(catalog)]
  BY DEF EditRead, UnchangedRest, UnchangedBounds
<1>2. /\ op' \in OpState /\ op'.pc = "plan" /\ op'.stored = op.stored /\ op'.read = Hash(catalog)
      /\ op'.untested = op.untested
  BY <1>1, HashType DEF OpState
<1>3. Held'
  BY <1>1, <1>2 DEF Held, At
<1>4. Fresh(Hash(catalog)) /\ Hash(catalog).tables = catalog.tables
  BY HashType DEF Fresh
<1>5. Stamped => Stamped'
  BY <1>1, <1>2, <1>4 DEF Stamped, Agrees, Fresh, At
<1>6. Drawable => catalog.tables \subseteq dash.snapshot
  BY <1>1 DEF Drawable, At
<1> QED BY <1>1, <1>2, <1>3, <1>4, <1>5, <1>6, InvMoves

LEMMA InvPlan == ASSUME IInv, Plan PROVE IInv'
<1> USE TypeNow DEF IInv
<1>1. At("plan") /\ UNCHANGED <<catalog, dash, unsure, asked, defined>>
  BY DEF Plan, UnchangedRest, UnchangedBounds
<1>2. PICK table \in op.read.tables, name \in Metric \cup {Column} :
        op' = [op EXCEPT !.pc = IF name = Column THEN "store" ELSE "define",
                         !.name = name, !.table = {table}]
  BY DEF Plan
<1>3. {table} \in SUBSET Table
  BY <1>2 DEF DashState, OpState, Digest
<1> DEFINE pc == IF name = Column THEN "store" ELSE "define"
<1>4. pc \in {"store", "define"} /\ (pc = "define" => name \in Metric)
  OBVIOUS
<1>5. op' = [op EXCEPT !.pc = pc, !.name = name, !.table = {table}]
  BY <1>2
<1> HIDE DEF pc
<1>6. /\ op' \in OpState /\ op'.pc = pc /\ op'.name = name /\ op'.table = {table}
      /\ op'.read = op.read /\ op'.stored = op.stored /\ op'.untested = op.untested
  BY <1>3, <1>4, <1>5 DEF OpState
<1>7. Held'
  BY <1>1, <1>4, <1>6 DEF Held, At
<1>8. Stamped => Stamped'
  BY <1>1, <1>4, <1>6 DEF Stamped, Agrees, Fresh, At
<1>9. Drawable => op.read.tables \subseteq dash.snapshot
  BY <1>1 DEF Drawable, At
<1> QED BY <1>1, <1>4, <1>6, <1>7, <1>8, <1>9, InvMoves

(* The operation is answered: the dashboard is opened again.               *)
Answered == [op EXCEPT !.pc = "get", !.stored = TRUE, !.read = Idle.read, !.table = {}]

LEMMA AnsweredType ==
  ASSUME TypeOK
  PROVE  Answered \in OpState /\ Answered.pc = "get" /\ Answered.stored /\ Answered.name = op.name
         /\ Answered.untested = op.untested
<1> DEFINE yes == TRUE
<1>1. yes \in BOOLEAN /\ yes
      /\ Answered = [op EXCEPT !.pc = "get", !.stored = yes, !.read = Idle.read, !.table = {}]
  BY DEF Answered
<1> HIDE DEF yes
<1> QED BY <1>1, TypeNow, IdleType DEF OpState

LEMMA InvDeleteView == ASSUME IInv, DeleteView PROVE IInv'
<1> USE TypeNow DEF IInv
<1>1. At("plan") /\ op' = Answered /\ UNCHANGED <<catalog, unsure, asked, defined>>
  BY DEF DeleteView, Answered, UnchangedRest, UnchangedBounds
<1>2. PICK old \in Lost : dash' = [dash EXCEPT !.views = dash.views \ old]
  BY DEF DeleteView
<1>3. /\ dash' \in DashState /\ dash'.exists = dash.exists /\ dash'.stamp = dash.stamp
      /\ dash'.snapshot = dash.snapshot /\ dash'.views \subseteq dash.views
  BY <1>2 DEF DashState
<1>4. TypeOK'
  BY <1>1, <1>3, AnsweredType, TypeParts
<1>5. Held'
  BY <1>1, <1>3, AnsweredType DEF Held, At
<1>6. Drawable => Drawable'
  BY <1>1, <1>3, AnsweredType DEF Drawable
<1>7. Stamped => Stamped'
  BY <1>1, <1>3, AnsweredType DEF Stamped, Agrees, Fresh, At
<1> QED BY <1>1, <1>4, <1>5, <1>6, <1>7, AnsweredType

LEMMA InvStore == ASSUME IInv, Store PROVE IInv'
<1> USE TypeNow DEF IInv
<1>1. At("store") /\ op' = Answered /\ UNCHANGED <<catalog, unsure, asked, defined>>
  BY DEF Store, Answered, UnchangedRest, UnchangedBounds
<1>2. PICK old \in Lost :
        dash' = [dash EXCEPT !.views = (dash.views \ old) \cup op.table, !.stamp = op.read]
  BY DEF Store
<1>3. op.table \subseteq View /\ op.read \in Digest
  BY DEF View, OpState
<1>4. /\ dash' \in DashState /\ dash'.exists = dash.exists /\ dash'.stamp = op.read
      /\ dash'.snapshot = dash.snapshot /\ dash'.views \subseteq dash.views \cup op.table
  BY <1>2, <1>3 DEF DashState
<1>5. TypeOK'
  BY <1>1, <1>4, AnsweredType, TypeParts
<1>6. Held'
  BY <1>1, <1>4, AnsweredType DEF Held, At
<1>7. Drawable => Drawable'
  BY <1>1, <1>4, AnsweredType DEF Drawable, Held, At
<1>8. Stamped => Stamped'
  BY <1>1, <1>4, AnsweredType DEF Stamped, Agrees, Fresh, At
<1> QED BY <1>1, <1>5, <1>6, <1>7, <1>8, AnsweredType

LEMMA InvDefine == ASSUME IInv, Define PROVE IInv'
<1> USE TypeNow DEF IInv
<1> DEFINE saved == [name |-> op.name, at |-> defined + 1]
<1>1. /\ At("define") /\ defined < MaxDefinitions /\ defined' = defined + 1
      /\ UNCHANGED <<dash, unsure, asked>>
  BY DEF Define
<1>2. /\ catalog' = [catalog EXCEPT !.metrics = <<saved>> \o Without(catalog.metrics, op.name)]
      /\ op' = [op EXCEPT !.pc = "store", !.read.metrics = Append(@, saved)]
  BY DEF Define
<1>3. op.name \in Metric /\ op.name # Column
  BY <1>1, ColumnAssumption DEF Held, At
<1>4. defined + 1 \in 1..MaxDefinitions /\ defined' \in 0..MaxDefinitions
  BY <1>1, BoundsAssumption
<1>5. saved \in Definition
  BY <1>3, <1>4 DEF Definition
<1> HIDE DEF saved
<1>6. catalog.metrics \in Seq(Definition) /\ op.read \in Digest /\ op.read.metrics \in Seq(Definition)
  BY DEF Catalog, OpState, Digest
<1>7. <<saved>> \o Without(catalog.metrics, op.name) \in Seq(Definition)
  <2>1. Without(catalog.metrics, op.name) \in Seq(Definition) /\ <<saved>> \in Seq(Definition)
    BY <1>5, <1>6, WithoutType
  <2> QED BY <2>1
<1>8. catalog' \in Catalog /\ catalog'.found = catalog.found
  BY <1>2, <1>7 DEF Catalog
<1> DEFINE read == [op.read EXCEPT !.metrics = Append(op.read.metrics, saved)]
<1>9. read \in Digest /\ read.tables = op.read.tables
  <2>1. Append(op.read.metrics, saved) \in Seq(Definition)
    BY <1>5, <1>6
  <2> QED BY <1>6, <2>1 DEF Digest
<1>10. op' = [op EXCEPT !.pc = "store", !.read = read]
  BY <1>2
<1>11. /\ op' \in OpState /\ op'.pc = "store" /\ op'.name = op.name /\ op'.table = op.table
       /\ op'.stored = op.stored /\ op'.untested = op.untested
       /\ op'.read.tables = op.read.tables
  BY <1>9, <1>10 DEF OpState
<1>12. TypeOK'
  BY <1>1, <1>4, <1>8, <1>11, TypeParts
<1>13. Held'
  BY <1>1, <1>11 DEF Held, At
<1>14. Drawable => Drawable'
  BY <1>1, <1>11 DEF Drawable, At
<1>15. Stamped => Agrees(op.read)'
  <2> SUFFICES ASSUME Stamped PROVE Agrees(op.read)'
    OBVIOUS
  <2>1. Fresh(op.read)
    BY <1>1 DEF Stamped, At
  <2>2. op'.read = read /\ op'.name # Column /\ read.metrics = Append(op.read.metrics, saved)
    BY <1>3, <1>6, <1>10, <1>11 DEF OpState, read, Digest
  <2>3. CASE op.read.metrics = <<>>
    <3>1. catalog.metrics = <<>> /\ Without(<<>>, op.name) = <<>>
      BY <2>1, <2>3 DEF Fresh, Without
    <3>2. <<saved>> \o <<>> = <<saved>> /\ Append(<<>>, saved) = <<saved>>
      BY <1>5
    <3>3. catalog'.metrics = <<saved>> /\ read.metrics = <<saved>>
      BY <1>2, <2>2, <2>3, <3>1, <3>2 DEF Catalog
    <3> QED BY <2>2, <3>3 DEF Agrees, Fresh
  <2>4. CASE op.read.metrics # <<>>
    <3>1. Len(read.metrics) > 1
      BY <1>5, <1>6, <2>2, <2>4
    <3> QED BY <2>2, <3>1 DEF Agrees
  <2> QED BY <2>3, <2>4
<1>16. Stamped => Stamped'
  BY <1>11, <1>15 DEF Stamped
<1> QED BY <1>1, <1>11, <1>12, <1>13, <1>14, <1>16

LEMMA InvCreateWrite == ASSUME IInv, CreateWrite PROVE IInv'
<1> USE TypeNow DEF IInv
<1>1. /\ At("build") /\ UNCHANGED <<catalog, asked, defined>>
      /\ op' = [op EXCEPT !.pc = "get", !.read = Idle.read]
  BY DEF CreateWrite, UnchangedBounds
<1>2. unsure' \in BOOLEAN
  BY DEF CreateWrite
<1> DEFINE yes == TRUE
<1>3. yes \in BOOLEAN /\ yes
      /\ dash' = [exists |-> yes, stamp |-> op.read, snapshot |-> op.read.tables \cup {System},
                  views |-> Seeds(op.read.tables)]
  BY DEF CreateWrite
<1> HIDE DEF yes
<1>4. op.read \in Digest /\ op.read.tables \subseteq Table
  BY DEF OpState, Digest
<1>5. Seeds(op.read.tables) \subseteq op.read.tables \cup {System}
      /\ op.read.tables \cup {System} \subseteq View
  BY <1>4 DEF Seeds, View
<1>6. /\ dash' \in DashState /\ dash'.exists /\ dash'.stamp = op.read
      /\ dash'.snapshot = op.read.tables \cup {System} /\ dash'.views = Seeds(op.read.tables)
  BY <1>3, <1>4, <1>5 DEF DashState
<1>7. op' \in OpState /\ op'.pc = "get" /\ op'.untested = op.untested
  BY <1>1, IdleType DEF OpState
<1>8. catalog.found
  BY <1>1 DEF Held, At
<1>9. TypeOK'
  BY <1>1, <1>2, <1>6, <1>7, <1>8, TypeParts
<1>10. Held'
  BY <1>6, <1>7 DEF Held
<1>11. Drawable'
  BY <1>5, <1>6, <1>7 DEF Drawable
<1>12. Stamped => Stamped'
  BY <1>1, <1>6, <1>7 DEF Stamped, Agrees, Fresh, At
<1> QED BY <1>1, <1>7, <1>9, <1>10, <1>11, <1>12

LEMMA InvRaise == ASSUME IInv, Raise PROVE IInv'
<1>1. op' = Idle /\ UNCHANGED <<catalog, dash, unsure, asked, defined>>
  BY DEF Raise, UnchangedRest, UnchangedBounds
<1>2. Held' /\ Stamped'
  BY <1>1, IdleType DEF Held, Stamped
<1> QED BY <1>1, <1>2, IdleType, TypeNow, InvMoves DEF IInv

LEMMA InvStep == IInv /\ [Next]_vars => IInv'
<1> SUFFICES ASSUME IInv, [Next]_vars PROVE IInv'
  OBVIOUS
<1>1. CASE UNCHANGED vars
  BY <1>1 DEF vars, IInv, TypeOK, Held, Drawable, Stamped, Agrees, Fresh
<1>2. CASE \/ Question \/ SaveOutcome \/ ApplyFeedback \/ SaveFeedback
           \/ DeleteConversation \/ Request
  BY <1>2, InvQuestion, InvSaveOutcome, InvFeedback, InvDeleteConversation, InvRequest
<1>3. CASE Serve
  BY <1>3, InvGet, InvCreateRead, InvCreateWrite, InvEditRead, InvPlan, InvDeleteView, InvDefine,
     InvStore, InvGetUntested, InvRaise DEF Serve
<1>4. ASSUME NEW t \in Table, Hide(t) PROVE IInv'
  BY <1>4, InvHide
<1> QED BY <1>1, <1>2, <1>3, <1>4 DEF Next
-----------------------------------------------------------------------------
(* The theorems                                                            *)

(* The dashboard, its catalog and the request stay in their domains, and a *)
(* dashboard never outlives the session row of its conversation.           *)
THEOREM TypeCorrect == Spec => []TypeOK
<1>1. IInv => TypeOK
  BY DEF IInv
<1> QED BY InvInit, InvStep, <1>1, PTL DEF Spec

(* Every chart that a dashboard lists is over a table that run_view        *)
(* allows, whatever the reconciliation thread, the command line and the    *)
(* feedback change between the steps of an instruction, but for what an    *)
(* instruction read untested, and after it until the next rebuild.         *)
THEOREM ViewsSafe == Spec => []ViewsCanRun
<1>1. IInv => ViewsCanRun
  BY DEF IInv, Drawable, ViewsCanRun
<1> QED BY InvInit, InvStep, <1>1, PTL DEF Spec

LEMMA RebuildHasCause ==
  ASSUME IInv, CreateWrite, op.stored, ~op.untested,
         op.name = Column \/ Len(dash.stamp.metrics) <= 1
  PROVE  Data(op.read) # Data(dash.stamp)
<1>1. op.read \in Digest /\ dash.stamp \in Digest
  BY TypeNow DEF IInv, OpState, DashState
<1>2. Fresh(op.read) /\ Agrees(dash.stamp) /\ dash.stamp # op.read
  BY DEF CreateWrite, IInv, Stamped, At
<1>3. ~(Len(dash.stamp.metrics) <= 1 /\ Len(dash.stamp.metrics) > 1)
  BY <1>1 DEF Digest
<1>4. op.read.metrics = dash.stamp.metrics
  BY <1>2, <1>3 DEF Agrees, Fresh
<1> QED BY <1>1, <1>2, <1>4 DEF Data, Digest

(* An instruction over plain columns is never undone by the rebuild that   *)
(* its own get_dashboard could start, unless files, tables or feedback     *)
(* changed meanwhile.                                                      *)
THEOREM PlainEditsSafe == Spec => PlainEditsStay
<1> DEFINE Kept == (CreateWrite /\ op.stored /\ op.name = Column /\ ~op.untested)
                     => Data(op.read) # Data(dash.stamp)
<1>1. IInv /\ [Next]_vars => [Kept]_vars
  BY RebuildHasCause
<1> HIDE DEF Kept
<1>2. Spec => [][Kept]_vars
  BY InvInit, InvStep, <1>1, PTL DEF Spec
<1> QED BY <1>2 DEF Kept, PlainEditsStay

(* Nor is the one that saves the first derived metric: it takes a second   *)
(* metric for the order of the two lists to matter.                        *)
THEOREM FirstMetricSafe == Spec => FirstMetricStays
<1> DEFINE Kept == (CreateWrite /\ op.stored /\ Len(dash.stamp.metrics) <= 1 /\ ~op.untested)
                     => Data(op.read) # Data(dash.stamp)
<1>1. IInv /\ [Next]_vars => [Kept]_vars
  BY RebuildHasCause
<1> HIDE DEF Kept
<1>2. Spec => [][Kept]_vars
  BY InvInit, InvStep, <1>1, PTL DEF Spec
<1> QED BY <1>2 DEF Kept, FirstMetricStays
-----------------------------------------------------------------------------
(* How long a request takes                                                *)

LEMMA Tables ==
  ASSUME NEW c \in Catalog
  PROVE  IsFiniteSet(c.tables) /\ Cardinality(c.tables) \in 0..Cardinality(Table)
<1>1. c.tables \in SUBSET Table
  BY DEF Catalog
<1> QED BY <1>1, TableAssumption, FS_Subset, FS_CardinalityType

LEMMA PositionType == Position \in 0..15
BY DEF Position, Opening

LEMMA LeftParts ==
  ASSUME TypeOK
  PROVE  /\ Cardinality(catalog.tables) \in 0..Cardinality(Table) /\ Cardinality(Table) \in Nat
         /\ MaxFeedback - catalog.feedback \in 0..MaxFeedback /\ MaxFeedback \in Nat
         /\ MaxQuestions - asked \in 0..MaxQuestions /\ MaxQuestions \in Nat
         /\ Round = 4 /\ RoundsOfQuestion \in Nat
         /\ RoundsOfQuestion = 4 * Cardinality(Table) + 4
         /\ RoundsOfQuestion * (MaxQuestions - asked) \in Nat
<1>1. Cardinality(catalog.tables) \in 0..Cardinality(Table) /\ Cardinality(Table) \in Nat
  BY Tables, TypeNow, TableAssumption, FS_CardinalityType
<1>2. catalog.feedback \in 0..MaxFeedback /\ asked \in 0..MaxQuestions
  BY TypeNow DEF Catalog
<1>3. MaxFeedback - catalog.feedback \in 0..MaxFeedback /\ MaxQuestions - asked \in 0..MaxQuestions
      /\ MaxFeedback \in Nat /\ MaxQuestions \in Nat
  BY <1>2, BoundsAssumption
<1>4. RoundsOfQuestion = 4 * Cardinality(Table) + 4 /\ RoundsOfQuestion \in Nat
  BY <1>1 DEF RoundsOfQuestion, Round
<1>5. RoundsOfQuestion * (MaxQuestions - asked) \in Nat
  <2> DEFINE r == RoundsOfQuestion
             q == MaxQuestions - asked
  <2>1. r \in Nat /\ q \in Nat
    BY <1>3, <1>4
  <2> HIDE DEF r, q
  <2>2. r * q \in Nat
    BY <2>1
  <2> QED BY <2>2 DEF r, q
<1> QED BY <1>1, <1>3, <1>4, <1>5 DEF Round

(* Fifteen steps, and the rounds that others may cost.                     *)
MostLeft == 15 + 4 * (Cardinality(Table) + MaxFeedback) + RoundsOfQuestion * MaxQuestions

LEMMA LeftType == ASSUME TypeOK PROVE Left \in 0..MostLeft
<1> DEFINE t == Cardinality(catalog.tables) + (MaxFeedback - catalog.feedback)
           r == RoundsOfQuestion
           q == MaxQuestions - asked
<1>1. /\ t \in 0..(Cardinality(Table) + MaxFeedback) /\ Cardinality(Table) \in Nat
      /\ MaxFeedback \in Nat /\ MaxQuestions \in Nat /\ q \in 0..MaxQuestions /\ r \in Nat
  BY LeftParts
<1>2. Left = Position + 4 * t + r * q
  BY DEF Left, Round
<1> HIDE DEF t, r, q, Position
<1>3. r * q \in Nat /\ r * MaxQuestions \in Nat /\ r * q <= r * MaxQuestions
  BY <1>1
<1>4. MostLeft = 15 + 4 * (Cardinality(Table) + MaxFeedback) + r * MaxQuestions
  BY DEF MostLeft, r
<1> QED BY <1>1, <1>2, <1>3, <1>4, PositionType

(* A step of the request leaves the tables and brings it nearer.           *)
LEMMA LeftNearer ==
  ASSUME TypeOK, UNCHANGED asked, catalog'.tables = catalog.tables,
         catalog'.feedback = catalog.feedback, Position' < Position
  PROVE  Left' < Left
<1> DEFINE left(p) == p + 4 * (Cardinality(catalog.tables) + (MaxFeedback - catalog.feedback))
                        + RoundsOfQuestion * (MaxQuestions - asked)
<1>1. Position \in Int /\ Position' \in Int
  BY PositionType DEF Position, Opening
<1>2. Left = left(Position)
  BY DEF Left, Round
<1>3. Left' = left(Position')
  BY DEF Left, Round, RoundsOfQuestion
<1> QED BY <1>1, <1>2, <1>3, LeftParts

(* What others change may make the stamp differ, or what is read.          *)
LEMMA PositionOthers ==
  ASSUME UNCHANGED <<dash, op>>
  PROVE  Position' <= Position + 3 /\ Position' \in Int /\ Position \in Int
BY DEF Position, Opening, At

LEMMA LeftHide == ASSUME TypeOK, NEW t \in Table, Hide(t) PROVE Left' < Left
<1>1. catalog' = [catalog EXCEPT !.tables = catalog.tables \ {t}] /\ t \in catalog.tables
      /\ UNCHANGED <<dash, op, asked>>
  BY DEF Hide, UnchangedRest, UnchangedBounds
<1>2. catalog'.tables = catalog.tables \ {t} /\ catalog'.feedback = catalog.feedback
  BY <1>1, TypeNow DEF Catalog
<1>3. Cardinality(catalog'.tables) = Cardinality(catalog.tables) - 1
  BY <1>1, <1>2, Tables, TypeNow, FS_RemoveElement
<1> DEFINE left(p, c) == p + 4 * (c + (MaxFeedback - catalog.feedback))
                           + RoundsOfQuestion * (MaxQuestions - asked)
<1>4. Left = left(Position, Cardinality(catalog.tables))
  BY DEF Left, Round
<1>5. Left' = left(Position', Cardinality(catalog.tables) - 1)
  BY <1>1, <1>2, <1>3 DEF Left, Round, RoundsOfQuestion
<1> QED BY <1>1, <1>4, <1>5, PositionOthers, LeftParts

LEMMA LeftApplyFeedback == ASSUME TypeOK, ApplyFeedback PROVE Left' < Left
<1>1. catalog' = [catalog EXCEPT !.feedback = catalog.feedback + 1] /\ UNCHANGED <<dash, op, asked>>
  BY DEF ApplyFeedback, UnchangedRest, UnchangedBounds
<1>2. catalog'.tables = catalog.tables /\ catalog'.feedback = catalog.feedback + 1
      /\ catalog.feedback \in Int /\ MaxFeedback \in Int
  BY <1>1, TypeNow, BoundsAssumption DEF Catalog
<1> DEFINE left(p, f) == p + 4 * (Cardinality(catalog.tables) + (MaxFeedback - f))
                           + RoundsOfQuestion * (MaxQuestions - asked)
<1>3. Left = left(Position, catalog.feedback)
  BY DEF Left, Round
<1>4. Left' = left(Position', catalog.feedback + 1)
  BY <1>1, <1>2 DEF Left, Round, RoundsOfQuestion
<1> QED BY <1>1, <1>2, <1>3, <1>4, PositionOthers, LeftParts

LEMMA LeftQuestion == ASSUME IInv, Question PROVE Left' < Left
<1> USE TypeNow DEF IInv
<1>1. PICK T \in SUBSET Table :
        catalog' = [catalog EXCEPT !.found = TRUE, !.files = T, !.tables = catalog.tables \cup T]
  BY DEF Question
<1>2. asked' = asked + 1 /\ UNCHANGED <<dash, op>> /\ asked \in Int /\ MaxQuestions \in Int
  BY BoundsAssumption DEF Question
<1>3. catalog'.feedback = catalog.feedback /\ TypeOK'
  BY <1>1, InvQuestion DEF Catalog
<1>4. Cardinality(catalog'.tables) \in 0..Cardinality(Table) /\ Cardinality(Table) \in Nat
  BY <1>3, Tables, TableAssumption, FS_CardinalityType DEF TypeOK
<1> DEFINE t == Cardinality(catalog.tables) + (MaxFeedback - catalog.feedback)
           u == Cardinality(catalog'.tables) + (MaxFeedback - catalog.feedback)
           r == RoundsOfQuestion
           q == MaxQuestions - asked
<1>5. t \in Nat /\ u \in Nat /\ u <= t + Cardinality(Table) /\ r = 4 * Cardinality(Table) + 4
      /\ q \in Int /\ MaxQuestions - asked' = q - 1
  BY <1>2, <1>4, LeftParts
<1>6. Left = Position + 4 * t + r * q
  BY DEF Left, Round
<1>7. Left' = Position' + 4 * u + r * (q - 1)
  BY <1>2, <1>3, <1>5 DEF Left, Round, RoundsOfQuestion
<1>8. Position' <= Position + 3 /\ Position' \in Int /\ Position \in Int
  BY <1>2, PositionOthers
<1> HIDE DEF t, u, q, r, Position
<1>9. r \in Int /\ r * (q - 1) = r * q - r /\ r * q \in Int
  BY <1>4, <1>5
<1> QED BY <1>4, <1>5, <1>6, <1>7, <1>8, <1>9

LEMMA LeftGot ==
  ASSUME TypeOK, Got, At("get"), UNCHANGED <<catalog, asked>>
  PROVE  Left' < Left
<1>1. op' = Idle \/ (op.edit /\ ~op.stored /\ op'.pc = "read")
  BY TypeNow DEF Got, Goto, OpState
<1>2. Position' < Position
  BY <1>1, IdleType DEF Position, Opening, At
<1> QED BY <1>2, LeftNearer

LEMMA LeftServe == ASSUME IInv, Serve PROVE Left' < Left
<1> USE TypeNow DEF IInv
<1>1. CASE Get
  <2>1. CASE catalog.found /\ dash.stamp # Hash(catalog)
    <3>1. op' = [op EXCEPT !.pc = "create"] /\ At("get") /\ dash.exists /\ UNCHANGED <<catalog, asked>>
      BY <1>1, <2>1 DEF Get, Goto, UnchangedRest, UnchangedBounds
    <3>2. op'.pc = "create" /\ op'.edit = op.edit /\ op'.stored = op.stored
      BY <3>1 DEF OpState
    <3>3. Position' < Position
      BY <2>1, <3>1, <3>2 DEF Position, Opening, Differs, At
    <3> QED BY <3>1, <3>3, LeftNearer
  <2>2. CASE ~(catalog.found /\ dash.stamp # Hash(catalog))
    BY <1>1, <2>2, LeftGot DEF Get, UnchangedRest, UnchangedBounds
  <2> QED BY <2>1, <2>2
<1>2. CASE GetUntested
  <2>1. At("get") /\ UNCHANGED <<catalog, asked>>
    BY <1>2 DEF GetUntested, UnchangedBounds
  <2>2. op' = Idle \/ (op.edit /\ ~op.stored /\ op'.pc = "read")
    BY <1>2 DEF GetUntested, OpState
  <2>3. Position' < Position
    BY <2>1, <2>2, IdleType DEF Position, Opening, At
  <2> QED BY <2>1, <2>3, LeftNearer
<1>3. CASE CreateRead
  <2>1. At("create") /\ UNCHANGED <<catalog, dash, asked>>
    BY <1>3 DEF CreateRead, UnchangedRest, UnchangedBounds
  <2>2. CASE dash.exists /\ dash.stamp = Hash(catalog)
    <3>1. op' = [op EXCEPT !.pc = "get"]
      BY <1>3, <2>2 DEF CreateRead, Goto
    <3>2. op'.pc = "get" /\ op'.edit = op.edit /\ op'.stored = op.stored
      BY <3>1 DEF OpState
    <3>3. Position' < Position
      BY <2>1, <2>2, <3>2 DEF Position, Opening, Differs, Hash, At
    <3> QED BY <2>1, <3>3, LeftNearer
  <2>3. CASE ~(dash.exists /\ dash.stamp = Hash(catalog))
    <3>1. op' = [op EXCEPT !.pc = "build", !.read = Hash(catalog)]
      BY <1>3, <2>3 DEF CreateRead
    <3>2. op'.pc = "build" /\ op'.edit = op.edit /\ op'.stored = op.stored /\ op'.read = Hash(catalog)
      BY <3>1, HashType DEF OpState
    <3>3. Position' < Position
      BY <2>1, <3>2 DEF Position, Opening, Differs, Hash, At
    <3> QED BY <2>1, <3>3, LeftNearer
  <2> QED BY <2>2, <2>3
<1>4. CASE CreateWrite
  <2>1. At("build") /\ UNCHANGED <<catalog, asked>> /\ dash'.stamp = op.read
        /\ op' = [op EXCEPT !.pc = "get", !.read = Idle.read]
    BY <1>4 DEF CreateWrite, UnchangedBounds
  <2>2. op'.pc = "get" /\ op'.edit = op.edit /\ op'.stored = op.stored
    BY <2>1 DEF OpState
  <2>3. Position' < Position
    BY <2>1, <2>2 DEF Position, Opening, Differs, Hash, At
  <2> QED BY <2>1, <2>3, LeftNearer
<1>5. CASE EditRead
  <2>1. At("read") /\ UNCHANGED <<catalog, asked>> /\ op'.pc = "plan"
    BY <1>5 DEF EditRead, OpState, UnchangedRest, UnchangedBounds
  <2>2. Position' < Position
    BY <2>1 DEF Position, At
  <2> QED BY <2>1, <2>2, LeftNearer
<1>6. CASE Plan
  <2>1. At("plan") /\ UNCHANGED <<catalog, asked>> /\ op'.pc \in {"store", "define"}
    BY <1>6 DEF Plan, OpState, UnchangedRest, UnchangedBounds
  <2>2. Position' < Position
    BY <2>1 DEF Position, At
  <2> QED BY <2>1, <2>2, LeftNearer
<1>7. CASE DeleteView \/ Store
  <2>1. op.pc \in {"plan", "store"} /\ UNCHANGED <<catalog, asked>> /\ op' = Answered
    BY <1>7 DEF DeleteView, Store, Answered, At, UnchangedRest, UnchangedBounds
  <2>2. op'.pc = "get" /\ op'.stored
    BY <2>1, AnsweredType
  <2>3. Position' < Position
    BY <2>1, <2>2 DEF Position, Opening, At
  <2> QED BY <2>1, <2>3, LeftNearer
<1>8. CASE Define
  <2>1. At("define") /\ op'.pc = "store" /\ UNCHANGED asked
        /\ catalog'.tables = catalog.tables /\ catalog'.feedback = catalog.feedback
    BY <1>8 DEF Define, OpState, Catalog
  <2>2. Position' < Position
    BY <2>1 DEF Position, At
  <2> QED BY <2>1, <2>2, LeftNearer
<1>9. CASE Raise
  <2>1. ~At("idle") /\ op'.pc = "idle" /\ UNCHANGED <<catalog, asked>>
    BY <1>9, IdleType DEF Raise, UnchangedRest, UnchangedBounds
  <2>2. Position' < Position
    BY <2>1 DEF Position, Opening, OpState, At
  <2> QED BY <2>1, <2>2, LeftNearer
<1> QED BY <1>1, <1>2, <1>3, <1>4, <1>5, <1>6, <1>7, <1>8, <1>9 DEF Serve

(* A request comes to its end within fifteen steps and what is left for    *)
(* others to change: four steps for every table hidden and every feedback  *)
(* that is applied while it is served, four for every table and four more  *)
(* for every question of another process.                                  *)
THEOREM RoundsBounded == Spec => [](Left \in 0..MostLeft) /\ RoundsRunOut
<1>1. IInv => Left \in 0..MostLeft
  BY LeftType DEF IInv
<1> DEFINE Nearer == ~At("idle") /\ (Serve \/ Question \/ ApplyFeedback \/ \E t \in Table : Hide(t))
                       => Left' < Left
<1>2. IInv /\ [Next]_vars => [Nearer]_vars
  BY LeftServe, LeftHide, LeftQuestion, LeftApplyFeedback DEF IInv
<1> HIDE DEF Nearer
<1>3. Spec => [](Left \in 0..MostLeft) /\ [][Nearer]_vars
  BY InvInit, InvStep, <1>1, <1>2, PTL DEF Spec
<1> QED BY <1>3 DEF Nearer, RoundsRunOut
==============================================================================
