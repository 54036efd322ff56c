------------------------- MODULE FileCatalog_proofs -------------------------
(***************************************************************************)
(* Proofs about FileCatalog, for any files, conversations, limit and bound *)
(* on failures.                                                            *)
(***************************************************************************)
EXTENDS FileCatalog, TLAPS

(* A deletion in progress has not yet removed the document it works on. *)
DeletionHasDocument == \A f \in File : del[f] # "idle" => HasDocument(f)

(* No call, row, request or scan knows a file that was never uploaded. *)
LateKnown   == \A f \in late : doc[f] # "absent"
RowsKnown   == \A c \in Conv, f \in File : rows[c][f] # "none" => doc[f] # "absent"
ServerKnown == \A f \in server.todo \cup server.files : doc[f] # "absent"
WorkerKnown == \A f \in worker.refs : doc[f] # "absent"

Known == LateKnown /\ RowsKnown /\ ServerKnown /\ WorkerKnown

IInv ==
  /\ TypeOK
  /\ DeletionHasDocument
  /\ Known
  /\ CondemnedIsRemoved

-----------------------------------------------------------------------------
(* Facts about the operators *)

(* The worker never takes a file that is not active. *)
LEMMA FirstRefsSubset == ASSUME NEW S PROVE FirstRefs(S) \subseteq S
BY DEF FirstRefs

(* The scan order is total: one file at most comes next. *)
LEMMA NextRefUnique ==
  ASSUME NEW f \in File, NEW g \in File, NextRef(f), NextRef(g),
         worker.refs \subseteq File
  PROVE  f = g
<1>1. Rank[f] \in Int /\ Rank[g] \in Int
  BY RankAssumption
<1>2. Rank[f] <= Rank[g] /\ Rank[g] <= Rank[f]
  BY DEF NextRef
<1> QED BY <1>1, <1>2, RankAssumption

(* Only the domains of TypeOK, which most steps of the proofs need alone. *)
LEMMA TypeFacts ==
  ASSUME TypeOK
  PROVE  /\ doc \in [File -> DocState]
         /\ del \in [File -> DelState]
         /\ late \subseteq File
         /\ rows \in [Conv -> [File -> RowState]]
         /\ server.todo \subseteq File
         /\ server.files \subseteq File
         /\ worker.refs \subseteq File
BY DEF TypeOK, Idle

(* invalidate_file touches the rows of one file and creates none. *)
LEMMA InvalidatedRows ==
  ASSUME rows \in [Conv -> [File -> RowState]], NEW f \in File
  PROVE  /\ Invalidated(f) \in [Conv -> [File -> RowState]]
         /\ \A c \in Conv, g \in File :
              /\ Invalidated(f)[c][g] = "none" <=> rows[c][g] = "none"
              /\ Invalidated(f)[c][g] = "active" <=> rows[c][g] = "active" /\ g # f
BY DEF Invalidated, RowState

-----------------------------------------------------------------------------
(* Type correctness *)

LEMMA TypeInit == Init => TypeOK
BY FaultAssumption
   DEF Init, TypeOK, Idle, Asleep, DocState, DelState, RowState, Busy

(* The actions of LibreChat leave the server and the worker alone. *)
LEMMA TypeLibreChat ==
  ASSUME TypeOK, NEW f \in File,
         \/ Upload(f) \/ BeginDelete(f) \/ InvalidateServed(f) \/ InvalidateLost(f)
         \/ InvalidateTimesOut(f) \/ LateInvalidateServed(f)
         \/ RemoveObject(f) \/ RemoveDocument(f) \/ DeleteFails(f)
  PROVE  TypeOK'
<1>1. UNCHANGED <<server, worker>>
  BY DEF Upload, BeginDelete, InvalidateServed, InvalidateLost, InvalidateTimesOut,
         LateInvalidateServed, RemoveObject, RemoveDocument, DeleteFails
<1>2. doc' \in [File -> DocState]
  BY DEF TypeOK, DocState, Upload, BeginDelete, InvalidateServed, InvalidateLost,
         InvalidateTimesOut, LateInvalidateServed, RemoveObject, RemoveDocument, DeleteFails
<1>3. del' \in [File -> DelState]
  BY DEF TypeOK, DelState, Upload, BeginDelete, InvalidateServed, InvalidateLost,
         InvalidateTimesOut, LateInvalidateServed, RemoveObject, RemoveDocument, DeleteFails
<1>4. late' \subseteq File
  BY DEF TypeOK, Upload, BeginDelete, InvalidateServed, InvalidateLost,
         InvalidateTimesOut, LateInvalidateServed, RemoveObject, RemoveDocument, DeleteFails
<1>5. rows' \in [Conv -> [File -> RowState]]
  BY InvalidatedRows DEF TypeOK, Upload, BeginDelete, InvalidateServed, InvalidateLost,
         InvalidateTimesOut, LateInvalidateServed, RemoveObject, RemoveDocument, DeleteFails
<1>6. faults' \in 0..MaxFaults
  BY FaultAssumption DEF TypeOK, Fault, Upload, BeginDelete, InvalidateServed, InvalidateLost,
         InvalidateTimesOut, LateInvalidateServed, RemoveObject, RemoveDocument, DeleteFails
<1> QED BY <1>1, <1>2, <1>3, <1>4, <1>5, <1>6 DEF TypeOK

LEMMA TypeServer ==
  ASSUME TypeOK,
         \/ \E c \in Conv, S \in SUBSET File : BeginRequest(c, S)
         \/ \E c \in Conv : DeleteConversation(c)
         \/ ServerStep
  PROVE  TypeOK'
<1>1. CASE \E c \in Conv, S \in SUBSET File : BeginRequest(c, S)
  BY <1>1 DEF BeginRequest, TypeOK, Busy
<1>2. CASE \E c \in Conv : DeleteConversation(c)
  <2>1. rows' \in [Conv -> [File -> RowState]]
    BY <1>2 DEF DeleteConversation, TypeOK, RowState
  <2> QED BY <1>2, <2>1 DEF DeleteConversation, TypeOK
<1>3. ASSUME NEW f \in File, ResolveFile(f) PROVE TypeOK'
  <2>1. server \in [pc : Busy, conv : Conv, todo : SUBSET File, files : SUBSET File]
    BY <1>3 DEF ResolveFile, TypeOK, Idle
  <2>2. server' \in [pc : Busy, conv : Conv, todo : SUBSET File, files : SUBSET File]
    BY <1>3, <2>1 DEF ResolveFile, Busy
  <2>3. server'.pc \in {"resolving", "loading"} /\ server'.todo # {}
    BY <1>3, <2>1 DEF ResolveFile
  <2> QED BY <1>3, <2>2, <2>3 DEF ResolveFile, TypeOK
<1>4. CASE \E f \in File : ResolveFails(f)
  BY <1>4 DEF ResolveFails, TypeOK, Idle
<1>5. ASSUME NEW f \in File, LoadFile(f) PROVE TypeOK'
  <2>1. server \in [pc : Busy, conv : Conv, todo : SUBSET File, files : SUBSET File]
    BY <1>5 DEF LoadFile, TypeOK, Idle
  <2>2. server' \in [pc : Busy, conv : Conv, todo : SUBSET File, files : SUBSET File]
    BY <1>5, <2>1 DEF LoadFile, Busy
  <2>3. server'.pc \in {"resolving", "loading"} <=> server'.todo # {}
    BY <1>5, <2>1 DEF LoadFile
  <2> QED BY <1>5, <2>2, <2>3 DEF LoadFile, TypeOK
<1>6. CASE LoadFails
  BY <1>6 DEF LoadFails, TypeOK, Idle
<1>7. CASE SaveConversation
  <2>1. server \in [pc : Busy, conv : Conv, todo : SUBSET File, files : SUBSET File]
    BY <1>7 DEF SaveConversation, TypeOK, Idle
  <2>2. rows' \in [Conv -> [File -> RowState]]
    BY <1>7, <2>1 DEF SaveConversation, TypeOK, RowState
  <2>3. server' \in [pc : Busy, conv : Conv, todo : SUBSET File, files : SUBSET File]
    BY <1>7, <2>1 DEF SaveConversation, Busy
  <2>4. server'.pc = "answering" /\ server'.todo = {}
    BY <1>7, <2>1 DEF SaveConversation, TypeOK
  <2> QED BY <1>7, <2>2, <2>3, <2>4 DEF SaveConversation, TypeOK
<1>8. CASE EndRequest
  BY <1>8 DEF EndRequest, TypeOK, Idle
<1> QED BY <1>1, <1>2, <1>3, <1>4, <1>5, <1>6, <1>7, <1>8 DEF ServerStep

LEMMA TypeWorker ==
  ASSUME TypeOK, WorkerStep \/ WorkerFails \/ Restart
  PROVE  TypeOK'
<1>1. CASE WorkerWakes
  <2>1. ActiveFiles \subseteq File
    BY DEF ActiveFiles, ActiveIn
  <2>2. FirstRefs(ActiveFiles) \subseteq File
    BY <2>1, FirstRefsSubset
  <2> QED BY <1>1, <2>2 DEF WorkerWakes, TypeOK
<1>2. CASE \E f \in File : WorkerKeeps(f)
  BY <1>2 DEF WorkerKeeps, TypeOK
<1>3. CASE \E f \in File : WorkerCondemns(f)
  BY <1>3 DEF WorkerCondemns, NextRef, TypeOK
<1>4. ASSUME NEW f \in File, WorkerInvalidates(f) PROVE TypeOK'
  <2>1. rows' \in [Conv -> [File -> RowState]]
    BY <1>4, InvalidatedRows DEF WorkerInvalidates, TypeOK
  <2> QED BY <1>4, <2>1 DEF WorkerInvalidates, TypeOK
<1>5. CASE WorkerSleeps
  BY <1>5 DEF WorkerSleeps, Asleep, TypeOK
<1>6. CASE WorkerFails
  BY <1>6, FaultAssumption DEF WorkerFails, Fault, Asleep, TypeOK
<1>7. CASE Restart
  BY <1>7, FaultAssumption DEF Restart, Fault, Asleep, Idle, TypeOK
<1> QED BY <1>1, <1>2, <1>3, <1>4, <1>5, <1>6, <1>7 DEF WorkerStep

LEMMA TypeStep == TypeOK /\ [Next]_vars => TypeOK'
<1>1. TypeOK /\ UNCHANGED vars => TypeOK'
  BY DEF vars, TypeOK
<1> QED BY <1>1, TypeLibreChat, TypeServer, TypeWorker DEF Next

(* Every variable keeps its shape: a request has files left to treat in    *)
(* its first two stages only, and a condemned file is one the worker holds. *)
THEOREM TypeCorrect == Spec => []TypeOK
BY TypeInit, TypeStep, PTL DEF Spec

-----------------------------------------------------------------------------
(* What a document may become: it is created, orphaned and removed, once.  *)
LEMMA DocumentsOnlyAge ==
  ASSUME TypeOK, [Next]_vars, NEW g \in File
  PROVE  /\ doc[g] # "absent" => doc'[g] # "absent"
         /\ doc[g] = "removed" => doc'[g] = "removed"
<1>1. CASE UNCHANGED vars
  BY <1>1 DEF vars
<1>2. CASE UNCHANGED doc
  BY <1>2
<1>3. ASSUME NEW f \in File, Upload(f) \/ RemoveObject(f) \/ RemoveDocument(f)
      PROVE  /\ doc[g] # "absent" => doc'[g] # "absent"
             /\ doc[g] = "removed" => doc'[g] = "removed"
  BY <1>3, TypeFacts DEF Upload, RemoveObject, RemoveDocument
<1>4. CASE ~(\E f \in File : Upload(f) \/ RemoveObject(f) \/ RemoveDocument(f)) /\ Next
  <2>1. UNCHANGED doc
    BY <1>4 DEF Next, ServerStep, WorkerStep, BeginDelete, InvalidateServed, InvalidateLost,
         InvalidateTimesOut, LateInvalidateServed, DeleteFails, DeleteConversation,
         BeginRequest, ResolveFile, ResolveFails, LoadFile, LoadFails, SaveConversation,
         EndRequest, WorkerWakes, WorkerKeeps, WorkerCondemns, WorkerInvalidates,
         WorkerSleeps, WorkerFails, Restart
  <2> QED BY <2>1, <1>2
<1> QED BY <1>1, <1>3, <1>4

LEMMA DeletionStep ==
  ASSUME TypeOK, DeletionHasDocument, [Next]_vars
  PROVE  DeletionHasDocument'
<1> USE TypeFacts DEF DeletionHasDocument, HasDocument
<1>1. CASE UNCHANGED vars
  BY <1>1 DEF vars
<1>2. ASSUME NEW f \in File,
             \/ Upload(f) \/ BeginDelete(f) \/ InvalidateServed(f) \/ InvalidateLost(f)
             \/ InvalidateTimesOut(f) \/ LateInvalidateServed(f)
             \/ RemoveObject(f) \/ RemoveDocument(f) \/ DeleteFails(f)
      PROVE  DeletionHasDocument'
  BY <1>2 DEF Upload, BeginDelete, InvalidateServed, InvalidateLost, InvalidateTimesOut,
         LateInvalidateServed, RemoveObject, RemoveDocument, DeleteFails
<1>3. ASSUME \/ \E c \in Conv : DeleteConversation(c) \/ \E S \in SUBSET File : BeginRequest(c, S)
             \/ ServerStep \/ WorkerStep \/ WorkerFails \/ Restart
      PROVE  UNCHANGED <<doc, del>>
  BY <1>3 DEF ServerStep, WorkerStep, DeleteConversation, BeginRequest, ResolveFile,
         ResolveFails, LoadFile, LoadFails, SaveConversation, EndRequest, WorkerWakes,
         WorkerKeeps, WorkerCondemns, WorkerInvalidates, WorkerSleeps, WorkerFails, Restart
<1> QED BY <1>1, <1>2, <1>3 DEF Next

(* Nothing enters a call, a row, a request or a scan but from a set whose  *)
(* files are known already.                                                *)
LEMMA KnownStep ==
  ASSUME TypeOK, DeletionHasDocument, Known, [Next]_vars
  PROVE  Known'
<1> USE DEF Known
<1>1. \A g \in File : doc[g] # "absent" => doc'[g] # "absent"
  BY DocumentsOnlyAge
<1>2. LateKnown'
  <2>1. ASSUME NEW g \in late', g \notin late PROVE del[g] = "invalidating" /\ g \in File
    BY <2>1 DEF Next, vars, ServerStep, WorkerStep, Upload, BeginDelete, InvalidateServed,
         InvalidateLost, InvalidateTimesOut, LateInvalidateServed, RemoveObject,
         RemoveDocument, DeleteFails, DeleteConversation, BeginRequest, ResolveFile,
         ResolveFails, LoadFile, LoadFails, SaveConversation, EndRequest, WorkerWakes,
         WorkerKeeps, WorkerCondemns, WorkerInvalidates, WorkerSleeps, WorkerFails, Restart
  <2> QED BY <2>1, <1>1, TypeFacts DEF LateKnown, DeletionHasDocument, HasDocument
<1>3. RowsKnown'
  <2>1. ASSUME NEW c \in Conv, NEW g \in File, rows'[c][g] # "none", rows[c][g] = "none"
        PROVE  g \in server.files
    <3>1. CASE UNCHANGED rows
      BY <3>1, <2>1
    <3>2. CASE \E f \in File : rows' = Invalidated(f)
      BY <3>2, <2>1, InvalidatedRows, TypeFacts
    <3>3. CASE \E d \in Conv : DeleteConversation(d)
      BY <3>3, <2>1, TypeFacts DEF DeleteConversation
    <3>4. CASE SaveConversation
      BY <3>4, <2>1, TypeFacts DEF SaveConversation
    <3> QED BY <3>1, <3>2, <3>3, <3>4
         DEF Next, vars, ServerStep, WorkerStep, Upload, BeginDelete, InvalidateServed,
         InvalidateLost, InvalidateTimesOut, LateInvalidateServed, RemoveObject,
         RemoveDocument, DeleteFails, BeginRequest, ResolveFile,
         ResolveFails, LoadFile, LoadFails, EndRequest, WorkerWakes,
         WorkerKeeps, WorkerCondemns, WorkerInvalidates, WorkerSleeps, WorkerFails, Restart
  <2> QED BY <2>1, <1>1, TypeFacts DEF RowsKnown, ServerKnown
<1>4. ServerKnown'
  <2>1. ASSUME NEW g \in server'.todo \cup server'.files,
               g \notin server.todo \cup server.files
        PROVE  doc[g] # "absent" /\ g \in File
    <3>1. CASE server' = server
      BY <3>1, <2>1
    <3>2. CASE server' = Idle
      BY <3>2, <2>1 DEF Idle
    <3>3. CASE \E c \in Conv, S \in SUBSET File : BeginRequest(c, S)
      BY <3>3, <2>1 DEF BeginRequest
    <3>4. CASE \E f \in File : ResolveFile(f)
      BY <3>4, <2>1 DEF ResolveFile, TypeOK, Idle
    <3>5. CASE \E f \in File : LoadFile(f)
      BY <3>5, <2>1 DEF LoadFile, TypeOK, Idle
    <3>6. CASE SaveConversation
      BY <3>6, <2>1 DEF SaveConversation, TypeOK, Idle
    <3> QED BY <3>1, <3>2, <3>3, <3>4, <3>5, <3>6
         DEF Next, vars, ServerStep, WorkerStep, Upload, BeginDelete, InvalidateServed,
         InvalidateLost, InvalidateTimesOut, LateInvalidateServed, RemoveObject,
         RemoveDocument, DeleteFails, DeleteConversation, ResolveFails, LoadFails,
         EndRequest, WorkerWakes, WorkerKeeps, WorkerCondemns, WorkerInvalidates,
         WorkerSleeps, WorkerFails, Restart
  <2> QED BY <2>1, <1>1, TypeFacts DEF ServerKnown
<1>5. WorkerKnown'
  <2>1. ASSUME NEW g \in worker'.refs, g \notin worker.refs
        PROVE  g \in ActiveFiles
    <3>1. CASE worker' = worker
      BY <3>1, <2>1
    <3>2. CASE WorkerWakes
      BY <3>2, <2>1, FirstRefsSubset DEF WorkerWakes
    <3>3. CASE \E f \in File : WorkerKeeps(f)
      BY <3>3, <2>1 DEF WorkerKeeps, TypeOK
    <3>4. CASE \E f \in File : WorkerCondemns(f) \/ WorkerInvalidates(f)
      BY <3>4, <2>1 DEF WorkerCondemns, WorkerInvalidates
    <3>5. CASE worker' = Asleep
      BY <3>5, <2>1 DEF Asleep
    <3> QED BY <3>1, <3>2, <3>3, <3>4, <3>5
         DEF Next, vars, ServerStep, WorkerStep, Upload, BeginDelete, InvalidateServed,
         InvalidateLost, InvalidateTimesOut, LateInvalidateServed, RemoveObject,
         RemoveDocument, DeleteFails, DeleteConversation, BeginRequest, ResolveFile,
         ResolveFails, LoadFile, LoadFails, SaveConversation, EndRequest, WorkerSleeps,
         WorkerFails, Restart
  <2>2. \A g \in ActiveFiles : g \in File /\ doc[g] # "absent"
    BY DEF ActiveFiles, ActiveIn, RowsKnown
  <2> QED BY <2>1, <2>2, <1>1, TypeFacts DEF WorkerKnown
<1> QED BY <1>2, <1>3, <1>4, <1>5

-----------------------------------------------------------------------------
(* The condemned file is removed: it was known and had no document when    *)
(* the worker looked, and a removed document never comes back.             *)
LEMMA CondemnedStep ==
  ASSUME TypeOK, Known, CondemnedIsRemoved, [Next]_vars
  PROVE  CondemnedIsRemoved'
<1>1. CASE worker' = worker
  BY <1>1, DocumentsOnlyAge DEF CondemnedIsRemoved, NextRef
<1>2. ASSUME NEW f \in File, WorkerCondemns(f) PROVE CondemnedIsRemoved'
  <2>1. doc[f] = "removed"
    BY <1>2, TypeFacts DEF WorkerCondemns, NextRef, Known, WorkerKnown, HasDocument, DocState
  <2>2. ASSUME NEW g \in File, NextRef(g)' PROVE g = f
    BY <1>2, <2>2, NextRefUnique, TypeFacts DEF WorkerCondemns, NextRef
  <2> QED BY <1>2, <2>1, <2>2 DEF WorkerCondemns, CondemnedIsRemoved
<1>3. CASE worker'.pc # "condemned"
  BY <1>3 DEF CondemnedIsRemoved
<1>4. \A f \in File : WorkerKeeps(f) => worker'.pc # "condemned"
  BY DEF WorkerKeeps, TypeOK
<1>5. WorkerWakes => worker'.pc # "condemned"
  BY DEF WorkerWakes
<1>6. \A f \in File : WorkerInvalidates(f) => worker'.pc # "condemned"
  BY DEF WorkerInvalidates
<1>7. WorkerSleeps \/ WorkerFails \/ Restart => worker'.pc # "condemned"
  BY DEF WorkerSleeps, WorkerFails, Restart, Asleep
<1> QED BY <1>1, <1>2, <1>3, <1>4, <1>5, <1>6, <1>7
     DEF Next, vars, ServerStep, WorkerStep, Upload, BeginDelete, InvalidateServed,
         InvalidateLost, InvalidateTimesOut, LateInvalidateServed, RemoveObject,
         RemoveDocument, DeleteFails, DeleteConversation, BeginRequest, ResolveFile,
         ResolveFails, LoadFile, LoadFails, SaveConversation, EndRequest

LEMMA IInvInit == Init => IInv
<1>1. Init => TypeOK
  BY TypeInit
<1>2. Init => DeletionHasDocument /\ Known /\ CondemnedIsRemoved
  BY DEF Init, Idle, Asleep, DeletionHasDocument, Known, LateKnown, RowsKnown,
         ServerKnown, WorkerKnown, CondemnedIsRemoved
<1> QED BY <1>1, <1>2 DEF IInv

LEMMA IInvStep == IInv /\ [Next]_vars => IInv'
BY TypeStep, DeletionStep, KnownStep, CondemnedStep DEF IInv

THEOREM Invariance == Spec => []IInv
BY IInvInit, IInvStep, PTL DEF Spec

(* Between the worker's Mongo read and its invalidate_file the document    *)
(* cannot come back, whatever LibreChat and the server do meanwhile.       *)
THEOREM CondemnedSafe == Spec => []CondemnedIsRemoved
<1>1. IInv => CondemnedIsRemoved
  BY DEF IInv
<1> QED BY Invariance, <1>1, PTL

-----------------------------------------------------------------------------
(* A step switches rows off for one file only, and only in the three       *)
(* actions that run invalidate_file.                                       *)
LEMMA HidingStep ==
  ASSUME IInv, [Next]_vars, NEW c \in Conv, NEW f \in File,
         rows[c][f] = "active", rows'[c][f] = "inactive"
  PROVE  doc[f] = "removed" \/ del[f] = "invalidating" \/ f \in late
<1>1. CASE UNCHANGED rows
  BY <1>1
<1>2. ASSUME NEW g \in File, rows' = Invalidated(g) PROVE g = f
  BY <1>2, InvalidatedRows, TypeFacts DEF IInv
<1>3. CASE \E g \in File : InvalidateServed(g) \/ LateInvalidateServed(g)
  BY <1>3, <1>2 DEF InvalidateServed, LateInvalidateServed
<1>4. CASE \E g \in File : WorkerInvalidates(g)
  BY <1>4, <1>2 DEF WorkerInvalidates, IInv, CondemnedIsRemoved
<1>5. CASE \E d \in Conv : DeleteConversation(d)
  BY <1>5, TypeFacts DEF DeleteConversation, IInv
<1>6. CASE SaveConversation
  BY <1>6, TypeFacts DEF SaveConversation, IInv
<1> QED BY <1>1, <1>3, <1>4, <1>5, <1>6
     DEF Next, vars, ServerStep, WorkerStep, Upload, BeginDelete, InvalidateLost,
         InvalidateTimesOut, RemoveObject, RemoveDocument, DeleteFails, BeginRequest,
         ResolveFile, ResolveFails, LoadFile, LoadFails, EndRequest, WorkerWakes,
         WorkerKeeps, WorkerCondemns, WorkerSleeps, WorkerFails, Restart

(* No step hides a file its owner did not ask to delete.                   *)
THEOREM HidingSafe == Spec => HiddenOnlyOnRequest
<1>1. IInv /\ [Next]_vars =>
        [\A c \in Conv, f \in File :
           rows[c][f] = "active" /\ rows'[c][f] = "inactive" =>
             doc[f] = "removed" \/ del[f] = "invalidating" \/ f \in late]_vars
  BY HidingStep
<1> QED BY Invariance, <1>1, PTL DEF Spec, HiddenOnlyOnRequest

-----------------------------------------------------------------------------
(* FileCatalog implements FileVisibility. The abstract variables under the *)
(* refinement mapping:                                                     *)
Phases  == [f \in File |-> PhaseOf(f)]
Visible == [c \in Conv |-> ActiveIn(c)]
AbsStep == [Promise!AbsNext]_(Promise!absVars)

LEMMA AbsVarsAre == Promise!absVars = <<Phases, PinnedFiles, Visible>>
BY DEF Promise!absVars, Phases, Visible

(* Steps that map to a stutter keep the three mapped variables. *)
LEMMA Stutters ==
  ASSUME UNCHANGED <<Phases, PinnedFiles, Visible>> PROVE AbsStep
BY DEF AbsStep, Promise!absVars, Phases, Visible

LEMMA PhasesKept ==
  ASSUME UNCHANGED <<doc, del, late>> PROVE UNCHANGED Phases
BY DEF Phases, PhaseOf, HasDocument

LEMMA VisibleKept ==
  ASSUME UNCHANGED rows PROVE UNCHANGED Visible
BY DEF Visible, ActiveIn

LEMMA PinnedKept ==
  ASSUME UNCHANGED server PROVE UNCHANGED PinnedFiles
BY DEF PinnedFiles

(* invalidate_file hides its file from every conversation. *)
LEMMA VisibleHides ==
  ASSUME TypeOK, NEW f \in File, rows' = Invalidated(f)
  PROVE  Visible' = [c \in Conv |-> Visible[c] \ {f}]
<1>1. \A c \in Conv : ActiveIn(c)' = ActiveIn(c) \ {f}
  BY InvalidatedRows, TypeFacts DEF ActiveIn
<1> QED BY <1>1 DEF Visible

LEMMA Hides ==
  ASSUME TypeOK, NEW f \in File, rows' = Invalidated(f), UNCHANGED PinnedFiles,
         Phases[f] \in {"leaving", "gone"},
         \/ UNCHANGED Phases
         \/ Phases[f] = "leaving" /\ Phases' = [Phases EXCEPT ![f] = "live"]
  PROVE  AbsStep
<1>1. Promise!Hide(f)
  BY VisibleHides DEF Promise!Hide, Phases, Visible
<1> QED BY <1>1 DEF AbsStep, Promise!AbsNext

LEMMA GivesUp ==
  ASSUME NEW S \in SUBSET File, \A f \in S : Phases[f] = "leaving",
         Phases' = [f \in File |-> IF f \in S THEN "live" ELSE Phases[f]],
         PinnedFiles' \in {PinnedFiles, {}}, UNCHANGED Visible
  PROVE  AbsStep
<1>1. Promise!GiveUp(S)
  BY DEF Promise!GiveUp, Phases, Visible
<1> QED BY <1>1 DEF AbsStep, Promise!AbsNext

LEMMA AbsInitHolds == Init => Promise!AbsInit
BY DEF Init, Promise!AbsInit, PhaseOf, PinnedFiles, ActiveIn, Idle

(* The steps of LibreChat. *)
LEMMA UploadCreates ==
  ASSUME IInv, NEW f \in File, Upload(f) PROVE AbsStep
<1>1. PhaseOf(f) = "unborn"
  BY DEF Upload, PhaseOf, HasDocument
<1>2. PhaseOf(f)' = "live"
  BY TypeFacts DEF Upload, PhaseOf, HasDocument, IInv, DeletionHasDocument, Known, LateKnown
<1>3. \A g \in File \ {f} : PhaseOf(g)' = PhaseOf(g)
  BY TypeFacts DEF Upload, PhaseOf, HasDocument, IInv
<1>4. Phases' = [Phases EXCEPT ![f] = "live"]
  BY <1>2, <1>3 DEF Phases
<1>5. UNCHANGED <<PinnedFiles, Visible>>
  BY PinnedKept, VisibleKept DEF Upload
<1>6. Promise!Create(f)
  BY <1>1, <1>4, <1>5 DEF Promise!Create, Phases, Visible
<1> QED BY <1>6 DEF AbsStep, Promise!AbsNext

LEMMA BeginDeleteAsks ==
  ASSUME IInv, NEW f \in File, BeginDelete(f) PROVE AbsStep
<1>1. PhaseOf(f)' = "leaving"
  BY TypeFacts DEF BeginDelete, PhaseOf, HasDocument, IInv
<1>2. \A g \in File \ {f} : PhaseOf(g)' = PhaseOf(g)
  BY TypeFacts DEF BeginDelete, PhaseOf, HasDocument, IInv
<1>3. PhaseOf(f) \in {"live", "leaving"}
  BY TypeFacts DEF BeginDelete, PhaseOf, HasDocument, IInv
<1>4. Phases' = [Phases EXCEPT ![f] = "leaving"]
  BY <1>1, <1>2 DEF Phases
<1>5. UNCHANGED <<PinnedFiles, Visible>>
  BY PinnedKept, VisibleKept DEF BeginDelete
<1>6. CASE PhaseOf(f) = "live"
  <2>1. Promise!AskDeletion(f)
    BY <1>4, <1>5, <1>6 DEF Promise!AskDeletion, Phases, Visible
  <2> QED BY <2>1 DEF AbsStep, Promise!AbsNext
<1>7. CASE PhaseOf(f) = "leaving"
  <2>1. UNCHANGED Phases
    BY <1>4, <1>7 DEF Phases
  <2> QED BY <2>1, <1>5, Stutters
<1> QED BY <1>3, <1>6, <1>7

LEMMA DeletionGoesOn ==
  ASSUME IInv, NEW f \in File,
         \/ InvalidateServed(f) \/ InvalidateLost(f) \/ InvalidateTimesOut(f) \/ RemoveObject(f)
  PROVE  AbsStep
<1> USE DEF InvalidateServed, InvalidateLost, InvalidateTimesOut, RemoveObject
<1>1. PhaseOf(f) = "leaving" /\ PhaseOf(f)' = "leaving"
  BY TypeFacts DEF PhaseOf, HasDocument, IInv, DeletionHasDocument
<1>2. \A g \in File \ {f} : PhaseOf(g)' = PhaseOf(g)
  BY TypeFacts DEF PhaseOf, HasDocument, IInv
<1>3. UNCHANGED Phases
  BY <1>1, <1>2 DEF Phases
<1>4. UNCHANGED PinnedFiles
  BY PinnedKept
<1>5. CASE InvalidateServed(f)
  BY <1>1, <1>3, <1>4, <1>5, Hides DEF Phases, IInv
<1>6. CASE ~InvalidateServed(f)
  BY <1>3, <1>4, <1>6, VisibleKept, Stutters
<1> QED BY <1>5, <1>6

LEMMA LateInvalidateHides ==
  ASSUME IInv, NEW f \in File, LateInvalidateServed(f) PROVE AbsStep
<1>1. PhaseOf(f) \in {"leaving", "gone"}
  BY TypeFacts DEF LateInvalidateServed, PhaseOf, HasDocument, DocState, IInv, Known, LateKnown
<1>2. \/ PhaseOf(f)' = PhaseOf(f)
      \/ PhaseOf(f) = "leaving" /\ PhaseOf(f)' = "live"
  BY <1>1, TypeFacts DEF LateInvalidateServed, PhaseOf, HasDocument, IInv
<1>3. \A g \in File \ {f} : PhaseOf(g)' = PhaseOf(g)
  BY TypeFacts DEF LateInvalidateServed, PhaseOf, HasDocument, IInv
<1>4. \/ UNCHANGED Phases
      \/ Phases[f] = "leaving" /\ Phases' = [Phases EXCEPT ![f] = "live"]
  BY <1>2, <1>3 DEF Phases
<1>5. Phases[f] \in {"leaving", "gone"}
  BY <1>1 DEF Phases
<1> QED BY <1>4, <1>5, PinnedKept, Hides DEF LateInvalidateServed, IInv

LEMMA RemoveDocumentVanishes ==
  ASSUME IInv, NEW f \in File, RemoveDocument(f) PROVE AbsStep
<1>1. PhaseOf(f) = "leaving" /\ PhaseOf(f)' = "gone"
  BY TypeFacts DEF RemoveDocument, PhaseOf, HasDocument, IInv
<1>2. \A g \in File \ {f} : PhaseOf(g)' = PhaseOf(g)
  BY TypeFacts DEF RemoveDocument, PhaseOf, HasDocument, IInv
<1>3. Phases' = [Phases EXCEPT ![f] = "gone"]
  BY <1>1, <1>2 DEF Phases
<1>4. UNCHANGED <<PinnedFiles, Visible>>
  BY PinnedKept, VisibleKept DEF RemoveDocument
<1>5. Promise!Vanish(f)
  BY <1>1, <1>3, <1>4 DEF Promise!Vanish, Phases, Visible
<1> QED BY <1>5 DEF AbsStep, Promise!AbsNext

LEMMA DeleteFailsGivesUp ==
  ASSUME IInv, NEW f \in File, DeleteFails(f) PROVE AbsStep
<1> DEFINE S == {f} \ late
<1>1. PhaseOf(f) = "leaving" /\ PhaseOf(f)' = IF f \in late THEN "leaving" ELSE "live"
  BY TypeFacts DEF DeleteFails, PhaseOf, HasDocument, IInv, DeletionHasDocument
<1>2. \A g \in File \ {f} : PhaseOf(g)' = PhaseOf(g)
  BY TypeFacts DEF DeleteFails, PhaseOf, HasDocument, IInv
<1>3. Phases' = [g \in File |-> IF g \in S THEN "live" ELSE Phases[g]]
  BY <1>1, <1>2 DEF Phases
<1>4. UNCHANGED <<PinnedFiles, Visible>>
  BY PinnedKept, VisibleKept DEF DeleteFails
<1>5. \A g \in S : Phases[g] = "leaving"
  BY <1>1 DEF Phases
<1>6. S \in SUBSET File
  OBVIOUS
<1> QED BY <1>3, <1>4, <1>5, <1>6, GivesUp

(* The steps of the server, the worker and the container. *)
LEMMA BeginRequestStutters ==
  ASSUME NEW c \in Conv, NEW S \in SUBSET File, BeginRequest(c, S) PROVE AbsStep
<1>1. UNCHANGED <<Phases, Visible>>
  BY PhasesKept, VisibleKept DEF BeginRequest
<1>2. PinnedFiles = {} /\ PinnedFiles' = {}
  BY DEF BeginRequest, PinnedFiles, Idle
<1> QED BY <1>1, <1>2, Stutters

LEMMA ResolveFilePins ==
  ASSUME IInv, NEW f \in File, ResolveFile(f) PROVE AbsStep
<1>1. UNCHANGED <<Phases, Visible>>
  BY PhasesKept, VisibleKept DEF ResolveFile
<1>2. server \in [pc : Busy, conv : Conv, todo : SUBSET File, files : SUBSET File]
  BY DEF ResolveFile, IInv, TypeOK, Idle
<1>3. PinnedFiles' = PinnedFiles \cup {f}
  BY <1>2 DEF ResolveFile, PinnedFiles
<1>4. PhaseOf(f) \in {"live", "leaving"}
  BY DEF ResolveFile, PhaseOf, HasDocument
<1>5. Promise!Pin(f)
  BY <1>1, <1>3, <1>4 DEF Promise!Pin, Phases, Visible
<1> QED BY <1>5 DEF AbsStep, Promise!AbsNext

LEMMA RequestFailsGivesUp ==
  ASSUME (\E f \in File : ResolveFails(f)) \/ LoadFails PROVE AbsStep
<1>1. UNCHANGED <<Phases, Visible>>
  BY PhasesKept, VisibleKept DEF ResolveFails, LoadFails
<1>2. PinnedFiles' = {}
  BY DEF ResolveFails, LoadFails, PinnedFiles, Idle
<1>3. Phases' = [f \in File |-> IF f \in {} THEN "live" ELSE Phases[f]]
  BY <1>1 DEF Phases
<1> QED BY <1>1, <1>2, <1>3, GivesUp

LEMMA LoadFileStutters ==
  ASSUME IInv, NEW f \in File, LoadFile(f) PROVE AbsStep
<1>1. UNCHANGED <<Phases, Visible>>
  BY PhasesKept, VisibleKept DEF LoadFile
<1>2. server \in [pc : Busy, conv : Conv, todo : SUBSET File, files : SUBSET File]
  BY DEF LoadFile, IInv, TypeOK, Idle
<1>3. UNCHANGED PinnedFiles
  BY <1>2 DEF LoadFile, PinnedFiles
<1> QED BY <1>1, <1>3, Stutters

LEMMA SaveConversationPublishes ==
  ASSUME IInv, SaveConversation PROVE AbsStep
<1>1. server \in [pc : Busy, conv : Conv, todo : SUBSET File, files : SUBSET File]
  BY DEF SaveConversation, IInv, TypeOK, Idle
<1>2. UNCHANGED Phases
  BY PhasesKept DEF SaveConversation
<1>3. PinnedFiles = server.files /\ PinnedFiles' = {}
  BY <1>1 DEF SaveConversation, PinnedFiles
<1>4. PICK c \in Conv : c = server.conv
  BY <1>1
<1>5. \A d \in Conv \ {c} : ActiveIn(d)' = ActiveIn(d)
  BY <1>4, TypeFacts DEF SaveConversation, ActiveIn, IInv
<1>6. ActiveIn(c)' = ActiveIn(c) \cup server.files
  <2>1. \A f \in File : rows'[c][f] = IF f \in server.files THEN "active" ELSE rows[c][f]
    BY <1>4, TypeFacts DEF SaveConversation, IInv
  <2> QED BY <1>1, <2>1 DEF ActiveIn
<1>7. Visible' = [Visible EXCEPT ![c] = @ \cup PinnedFiles]
  BY <1>3, <1>5, <1>6 DEF Visible
<1>8. Promise!Publish(c)
  BY <1>2, <1>3, <1>7 DEF Promise!Publish, Phases, Visible
<1> QED BY <1>8 DEF AbsStep, Promise!AbsNext

LEMMA EndRequestStutters ==
  ASSUME EndRequest PROVE AbsStep
<1>1. UNCHANGED <<Phases, Visible>>
  BY PhasesKept, VisibleKept DEF EndRequest
<1>2. UNCHANGED PinnedFiles
  BY DEF EndRequest, PinnedFiles, Idle
<1> QED BY <1>1, <1>2, Stutters

LEMMA DeleteConversationForgets ==
  ASSUME IInv, NEW c \in Conv, DeleteConversation(c) PROVE AbsStep
<1>1. UNCHANGED <<Phases, PinnedFiles>>
  BY PhasesKept, PinnedKept DEF DeleteConversation
<1>2. ActiveIn(c)' = {} /\ \A d \in Conv \ {c} : ActiveIn(d)' = ActiveIn(d)
  BY TypeFacts DEF DeleteConversation, ActiveIn, IInv
<1>3. Visible' = [Visible EXCEPT ![c] = {}]
  BY <1>2 DEF Visible
<1>4. Promise!Forget(c)
  BY <1>1, <1>3 DEF Promise!Forget, Phases, Visible
<1> QED BY <1>4 DEF AbsStep, Promise!AbsNext

LEMMA RestartGivesUp ==
  ASSUME IInv, Restart PROVE AbsStep
<1> DEFINE S == {f \in late : HasDocument(f) /\ del[f] = "idle"}
<1>1. UNCHANGED Visible
  BY VisibleKept DEF Restart
<1>2. PinnedFiles' = {}
  BY DEF Restart, PinnedFiles, Idle
<1>3. \A f \in File : PhaseOf(f)' = IF f \in S THEN "live" ELSE PhaseOf(f)
  BY DEF Restart, PhaseOf, HasDocument
<1>4. \A f \in S : PhaseOf(f) = "leaving"
  BY DEF PhaseOf, HasDocument
<1>5. S \in SUBSET File
  BY TypeFacts DEF IInv
<1>6. Phases' = [f \in File |-> IF f \in S THEN "live" ELSE Phases[f]]
  BY <1>3 DEF Phases
<1>7. \A f \in S : Phases[f] = "leaving"
  BY <1>4, <1>5 DEF Phases
<1> HIDE DEF S
<1> QED BY <1>1, <1>2, <1>5, <1>6, <1>7, GivesUp

(* The worker hides a file that CondemnedIsRemoved says is gone. *)
LEMMA WorkerHides ==
  ASSUME IInv, WorkerStep \/ WorkerFails PROVE AbsStep
<1>1. UNCHANGED <<Phases, PinnedFiles>>
  BY PhasesKept, PinnedKept DEF WorkerStep, WorkerFails, WorkerWakes, WorkerKeeps,
     WorkerCondemns, WorkerInvalidates, WorkerSleeps
<1>2. CASE UNCHANGED rows
  BY <1>1, <1>2, VisibleKept, Stutters
<1>3. ASSUME NEW f \in File, WorkerInvalidates(f) PROVE AbsStep
  <2>1. PhaseOf(f) = "gone"
    BY <1>3 DEF WorkerInvalidates, IInv, CondemnedIsRemoved, PhaseOf, HasDocument
  <2>2. Phases[f] = "gone"
    BY <2>1 DEF Phases
  <2> QED BY <1>1, <1>3, <2>2, Hides DEF WorkerInvalidates, IInv
<1> QED BY <1>2, <1>3 DEF WorkerStep, WorkerFails, WorkerWakes, WorkerKeeps,
     WorkerCondemns, WorkerSleeps

LEMMA StepRefines == IInv /\ [Next]_vars => AbsStep
<1> SUFFICES ASSUME IInv, [Next]_vars PROVE AbsStep
  OBVIOUS
<1>1. CASE UNCHANGED vars
  BY <1>1, PhasesKept, VisibleKept, PinnedKept, Stutters DEF vars
<1>2. ASSUME NEW f \in File,
             \/ Upload(f) \/ BeginDelete(f) \/ InvalidateServed(f) \/ InvalidateLost(f)
             \/ InvalidateTimesOut(f) \/ LateInvalidateServed(f)
             \/ RemoveObject(f) \/ RemoveDocument(f) \/ DeleteFails(f)
      PROVE  AbsStep
  BY <1>2, UploadCreates, BeginDeleteAsks, DeletionGoesOn, LateInvalidateHides,
     RemoveDocumentVanishes, DeleteFailsGivesUp
<1>3. CASE ServerStep
  BY <1>3, ResolveFilePins, RequestFailsGivesUp, LoadFileStutters,
     SaveConversationPublishes, EndRequestStutters DEF ServerStep
<1>4. CASE \E c \in Conv : DeleteConversation(c) \/ \E S \in SUBSET File : BeginRequest(c, S)
  BY <1>4, DeleteConversationForgets, BeginRequestStutters
<1>5. CASE WorkerStep \/ WorkerFails
  BY <1>5, WorkerHides
<1>6. CASE Restart
  BY <1>6, RestartGivesUp
<1> QED BY <1>1, <1>2, <1>3, <1>4, <1>5, <1>6 DEF Next

(* Every behaviour of the catalog is one FileVisibility allows: a profile  *)
(* is active only if a request read its file's document while it existed,  *)
(* and is switched off only for a file that is leaving or gone.            *)
THEOREM Refinement == Spec => PromiseKept
<1>1. Init => Promise!AbsInit
  BY AbsInitHolds
<1>2. IInv /\ [Next]_vars => [Promise!AbsNext]_(Promise!absVars)
  BY StepRefines DEF AbsStep
<1> QED BY <1>1, <1>2, Invariance, PTL DEF Spec, PromiseKept, Promise!AbsSpec
-----------------------------------------------------------------------------
(* What the race of save_conversation is needed for.  No document is       *)
(* removed while a request has read it and not yet saved its profile:      *)
Apart == \A f \in File : RemoveDocument(f) => f \notin PinnedFiles

PinnedExist == \A f \in PinnedFiles : doc[f] # "removed"

LEMMA PinnedFilesStep ==
  ASSUME TypeOK, [Next]_vars, NEW f \in PinnedFiles', f \notin PinnedFiles
  PROVE  doc'[f] # "removed"
<1>1. server \in [pc : Busy, conv : Conv, todo : SUBSET File, files : SUBSET File] \cup {Idle}
  BY DEF TypeOK
<1>2. server' # server
  BY PinnedKept
<1>3. PICK g \in File : ResolveFile(g)
  <2>1. CASE \E c \in Conv, S \in SUBSET File : BeginRequest(c, S)
    BY <2>1 DEF BeginRequest, PinnedFiles
  <2>2. CASE LoadFails \/ EndRequest \/ Restart \/ \E g \in File : ResolveFails(g)
    BY <2>2 DEF LoadFails, EndRequest, Restart, ResolveFails, PinnedFiles, Idle
  <2>3. ASSUME NEW g \in File, LoadFile(g) PROVE FALSE
    <3>1. server'.files = server.files /\ server.pc = "loading"
      BY <1>1, <2>3 DEF LoadFile, Idle
    <3> QED BY <3>1 DEF PinnedFiles
  <2>4. CASE SaveConversation
    <3>1. server'.pc = "answering"
      BY <1>1, <2>4 DEF SaveConversation, Idle
    <3> QED BY <3>1 DEF PinnedFiles
  <2> QED BY <1>2, <2>1, <2>2, <2>3, <2>4
     DEF Next, vars, ServerStep, WorkerStep, Upload, BeginDelete, InvalidateServed, InvalidateLost,
         InvalidateTimesOut, LateInvalidateServed, RemoveObject, RemoveDocument, DeleteFails,
         DeleteConversation, WorkerWakes, WorkerKeeps, WorkerCondemns, WorkerInvalidates,
         WorkerSleeps, WorkerFails
<1>4. server'.files \subseteq server.files \cup {g} /\ server.pc = "resolving"
  BY <1>1, <1>3 DEF ResolveFile, Idle
<1>5. f = g
  BY <1>4 DEF PinnedFiles
<1> QED BY <1>3, <1>5 DEF ResolveFile, HasDocument

LEMMA PinnedExistStep ==
  ASSUME TypeOK, PinnedExist, [Next]_vars, [Apart]_vars
  PROVE  PinnedExist'
<1> SUFFICES ASSUME NEW f \in PinnedFiles', doc'[f] = "removed" PROVE FALSE
  BY DEF PinnedExist
<1>1. f \in PinnedFiles /\ f \in File
  BY PinnedFilesStep, TypeFacts DEF PinnedFiles
<1>2. doc[f] # "removed"
  BY <1>1 DEF PinnedExist
<1>3. PICK g \in File : Upload(g) \/ RemoveObject(g) \/ RemoveDocument(g)
  BY <1>2 DEF Next, vars, ServerStep, WorkerStep, BeginDelete, InvalidateServed, InvalidateLost,
       InvalidateTimesOut, LateInvalidateServed, DeleteFails, DeleteConversation, BeginRequest,
       ResolveFile, ResolveFails, LoadFile, LoadFails, SaveConversation, EndRequest, Restart,
       WorkerWakes, WorkerKeeps, WorkerCondemns, WorkerInvalidates, WorkerSleeps, WorkerFails
<1>4. RemoveDocument(f)
  BY <1>1, <1>2, <1>3, TypeFacts DEF Upload, RemoveObject, RemoveDocument
<1>5. doc' # doc
  BY <1>2
<1> QED BY <1>1, <1>4, <1>5 DEF Apart, vars

(* An inactive row is made active by save_conversation only.               *)
LEMMA Reactivates ==
  ASSUME TypeOK, [Next]_vars, NEW c \in Conv, NEW f \in File,
         rows[c][f] = "inactive", rows'[c][f] = "active"
  PROVE  SaveConversation /\ f \in PinnedFiles
<1>1. rows \in [Conv -> [File -> RowState]]
  BY TypeFacts
<1>2. ASSUME NEW g \in File, rows' = Invalidated(g) PROVE FALSE
  <2>1. rows'[c] = [rows[c] EXCEPT ![g] = IF @ = "active" THEN "inactive" ELSE @]
    BY <1>2 DEF Invalidated
  <2> QED BY <1>1, <2>1
<1>3. ASSUME NEW d \in Conv, DeleteConversation(d) PROVE FALSE
  BY <1>1, <1>3 DEF DeleteConversation
<1>4. SaveConversation
  BY <1>2, <1>3 DEF Next, vars, ServerStep, WorkerStep, Upload, BeginDelete, InvalidateServed,
       InvalidateLost, InvalidateTimesOut, LateInvalidateServed, RemoveObject, RemoveDocument,
       DeleteFails, BeginRequest, ResolveFile, ResolveFails, LoadFile, LoadFails, EndRequest,
       Restart, WorkerWakes, WorkerKeeps, WorkerCondemns, WorkerInvalidates, WorkerSleeps,
       WorkerFails
<1>5. server.pc = "saving" /\ f \in server.files
  BY <1>1, <1>4 DEF SaveConversation
<1> QED BY <1>4, <1>5 DEF PinnedFiles

(* A table that was invalidated for good comes back through one race only: *)
(* that of save_conversation with the removal of a document that the same  *)
(* request has resolved.  Lost or late invalidations, failed deletions,    *)
(* restarts and the worker do not bring it back.                           *)
THEOREM ApartStays == Spec /\ [][Apart]_vars => InvalidatedStaysInvalidated
<1>1. Init => PinnedExist
  BY DEF Init, Idle, PinnedExist, PinnedFiles
<1>2. TypeOK /\ PinnedExist /\ [Next]_vars =>
        [\A c \in Conv, f \in File :
           doc[f] = "removed" /\ rows[c][f] = "inactive" => rows'[c][f] # "active"]_vars
  BY Reactivates DEF PinnedExist
<1> QED BY TypeInit, TypeStep, PinnedExistStep, <1>1, <1>2, PTL
   DEF Spec, InvalidatedStaysInvalidated
=============================================================================
