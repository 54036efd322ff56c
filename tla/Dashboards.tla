------------------------------ MODULE Dashboards ------------------------------
(***************************************************************************)
(* The dashboard of one conversation: DashboardRepository over the catalog *)
(* of the conversation.  A dashboard carries the hash of the catalog it    *)
(* was built from; it is built anew when it is opened and the catalog      *)
(* hashes otherwise, and an instruction of the user changes one view of it *)
(* and stamps it with the hash of the catalog that the view was read from. *)
(*                                                                         *)
(* The agent's server has one thread, so that a request on the dashboard   *)
(* excludes every other request of the server.  Two others write to the    *)
(* same database meanwhile: the reconciliation thread, which hides tables, *)
(* and the command line, another process, which asks questions.            *)
(***************************************************************************)
EXTENDS Integers, SequencesExt

CONSTANTS
  Table,          \* tables of the files of the conversation; a file has one
  System,         \* the table that lists the others, never hidden
  Metric,         \* names that the planner gives to derived metrics
  Column,         \* a metric that is a column of its table
  MaxQuestions,   \* bound on the questions asked
  MaxFeedback,    \* bound on the feedback saved
  MaxDefinitions  \* bound on the derived metrics saved, redefinitions included

ASSUME TableAssumption == IsFiniteSet(Table)
ASSUME SystemAssumption == System \notin Table
ASSUME ColumnAssumption == Column \notin Metric
ASSUME BoundsAssumption ==
  {MaxQuestions, MaxFeedback, MaxDefinitions} \subseteq Nat

VARIABLES
  catalog,  \* what get_context reads
  dash,     \* the dashboard and its views, or NoDash
  op,       \* the request being served
  unsure,   \* an instruction has read a catalog that was not tested
  asked, defined  \* what the bounds count

vars == <<catalog, dash, op, unsure, asked, defined>>

(* files are those of the last question, tables the active ones; metrics   *)
(* is ordered by updated_at, newest first, for which `at` stands; the      *)
(* catalog is ready for a dashboard when no clarification is pending and   *)
(* the states that are kept hold an answer from SQL that was sure.         *)
Definition == [name : Metric, at : 1..MaxDefinitions]
Catalog == [found : BOOLEAN, files : SUBSET Table, tables : SUBSET Table,
            metrics : Seq(Definition), feedback : 0..MaxFeedback,
            ready : BOOLEAN]
NoCatalog == [found |-> FALSE, files |-> {}, tables |-> {}, metrics |-> <<>>, feedback |-> 0,
              ready |-> FALSE]

(* DashboardCatalogHasher: the digest of these, without a collision; the   *)
(* summary and the preferences follow from them.  It sorts files, tables   *)
(* and feedback and takes the metrics as they come.                        *)
Hash(c) == [files |-> c.files, tables |-> c.tables, metrics |-> c.metrics,
            feedback |-> c.feedback]
Digest == [files : SUBSET Table, tables : SUBSET Table, metrics : Seq(Definition),
           feedback : 0..MaxFeedback]

(* A view stands for the charts over one table.  The snapshot is the       *)
(* tables that run_view allows.                                            *)
View == Table \cup {System}
NoDash == [exists |-> FALSE, stamp |-> Hash(NoCatalog), snapshot |-> {}, views |-> {}]

(* untested: the test for staleness failed.  read is what the request has  *)
(* seen of the catalog, and the digest of it.                              *)
Idle == [pc |-> "idle", edit |-> FALSE, stored |-> FALSE, untested |-> FALSE,
         read |-> Hash(NoCatalog), name |-> Column, table |-> {}]

(* The domains; a dashboard belongs to a conversation that is known.        *)
TypeOK ==
  /\ catalog \in Catalog
  /\ dash \in [exists : BOOLEAN, stamp : Digest, snapshot : SUBSET View, views : SUBSET View]
  /\ op \in [pc : {"idle", "get", "create", "build", "read", "plan", "define", "store"},
             edit : BOOLEAN, stored : BOOLEAN, untested : BOOLEAN, read : Digest,
             name : Metric \cup {Column}, table : SUBSET Table]
  /\ unsure \in BOOLEAN
  /\ asked \in 0..MaxQuestions /\ defined \in 0..MaxDefinitions
  /\ dash.exists => catalog.found

Init ==
  /\ catalog = NoCatalog
  /\ dash = NoDash
  /\ op = Idle
  /\ unsure = FALSE
  /\ asked = 0 /\ defined = 0

At(pc) == op.pc = pc
Goto(pc) == op' = [op EXCEPT !.pc = pc]
UnchangedBounds == UNCHANGED <<asked, defined>>
UnchangedRest == UNCHANGED unsure /\ UnchangedBounds
-----------------------------------------------------------------------------
(* What else changes the catalog                                           *)

(* save_conversation: the session has the files of this question, and      *)
(* their tables are active again.  The server asks while no other request  *)
(* is served, the command line at any time.                                *)
Question ==
  /\ asked < MaxQuestions
  /\ asked' = asked + 1
  /\ \E T \in (SUBSET Table) \ {{}} :
       catalog' = [catalog EXCEPT !.found = TRUE, !.files = T, !.tables = @ \cup T]
  /\ unsure' = (unsure \/ At("read"))
  /\ UNCHANGED <<dash, op, defined>>

(* What a question commits after that, as long as it runs and as often as  *)
(* it likes: a clarification is opened or settled, a state is added and    *)
(* the oldest ones go.                                                     *)
SaveOutcome ==
  /\ catalog.found
  /\ catalog' = [catalog EXCEPT !.ready = ~@]
  /\ UNCHANGED <<dash, op>> /\ UnchangedRest

(* What the planner proposes and the user need not confirm.                *)
ApplyFeedback ==
  /\ catalog.found /\ catalog.feedback < MaxFeedback
  /\ catalog' = [catalog EXCEPT !.feedback = @ + 1]
  /\ UNCHANGED <<dash, op>> /\ UnchangedRest

SaveFeedback ==
  /\ At("idle") /\ catalog.found /\ catalog.feedback < MaxFeedback
  /\ catalog' = [catalog EXCEPT !.feedback = @ + 1]
  /\ UNCHANGED <<dash, op>> /\ UnchangedRest

(* The reconciliation thread hides the tables of a file that is gone.      *)
Hide(t) ==
  /\ t \in catalog.tables
  /\ catalog' = [catalog EXCEPT !.tables = @ \ {t}]
  /\ UNCHANGED <<dash, op>> /\ UnchangedRest

(* Mutant: the dashboard does not refer to the session row. *)
DeleteKeepsDashboard ==
  /\ At("idle") /\ catalog.found
  /\ catalog' = NoCatalog
  /\ UNCHANGED <<dash, op>> /\ UnchangedRest

(* The session row goes, everything that refers to it cascades.            *)
DeleteConversation ==
  /\ At("idle") /\ catalog.found
  /\ catalog' = NoCatalog
  /\ dash' = NoDash
  /\ unsure' = FALSE
  /\ UNCHANGED op /\ UnchangedBounds
-----------------------------------------------------------------------------
(* The requests                                                            *)

(* Mutant: an instruction works on the dashboard as it was last opened. *)
InstructAsShown == At("idle") /\ dash.exists /\ op' = [Idle EXCEPT !.pc = "read", !.edit = TRUE]

(* POST of a dashboard; GET of one, or of the rows of a view of it; an     *)
(* instruction.                                                            *)
Create == At("idle") /\ op' = [Idle EXCEPT !.pc = "create"]
Open == At("idle") /\ dash.exists /\ op' = [Idle EXCEPT !.pc = "get"]
Instruct == At("idle") /\ dash.exists /\ op' = [Idle EXCEPT !.pc = "get", !.edit = TRUE]

Request == (Create \/ Open \/ Instruct) /\ UNCHANGED <<catalog, dash>> /\ UnchangedRest

(* Mutant: an instruction that is carried out is not told from one that is not. *)
GotAgain == IF op.edit THEN Goto("read") ELSE op' = Idle

(* The request has its dashboard: an instruction that is still to be       *)
(* carried out goes on, any other request is answered.                     *)
Got == IF op.edit /\ ~op.stored THEN Goto("read") ELSE op' = Idle

(* get_dashboard; a dashboard without a catalog is never stale.            *)
Get ==
  /\ At("get") /\ dash.exists
  /\ IF catalog.found /\ dash.stamp # Hash(catalog) THEN Goto("create") ELSE Got
  /\ UNCHANGED <<catalog, dash>> /\ UnchangedRest

(* _dashboard_is_stale takes a failure to read the catalog for a no.       *)
GetUntested ==
  /\ At("get") /\ dash.exists
  /\ IF op.edit /\ ~op.stored
     THEN op' = [op EXCEPT !.pc = "read", !.untested = TRUE] /\ unsure' = TRUE
     ELSE op' = Idle /\ UNCHANGED unsure
  /\ UNCHANGED <<catalog, dash>> /\ UnchangedBounds

(* create_from_conversation: the catalog is read again, and must be ready  *)
(* (DashboardReadiness).                                                   *)
CreateRead ==
  /\ At("create") /\ catalog.found /\ catalog.ready
  /\ IF dash.exists /\ dash.stamp = Hash(catalog)
     THEN Goto("get")
     ELSE op' = [op EXCEPT !.pc = "build", !.read = Hash(catalog)]
  /\ UNCHANGED <<catalog, dash>> /\ UnchangedRest

(* The initial charts, four at most, are taken for one of each table; when *)
(* there is no table to chart, there is one over the table of tables.      *)
Seeds(tables) == IF tables = {} THEN {System} ELSE tables

(* Mutant: the stamp leaves out the metrics that the test compares. *)
CreateWriteStampsData ==
  /\ At("build")
  /\ dash' = [exists |-> TRUE, stamp |-> [op.read EXCEPT !.metrics = <<>>],
              snapshot |-> op.read.tables \cup {System}, views |-> Seeds(op.read.tables)]
  /\ op' = [op EXCEPT !.pc = "get", !.read = Idle.read]
  /\ unsure' = FALSE
  /\ UNCHANGED catalog /\ UnchangedBounds

(* One transaction: the old views go, the initial ones come.               *)
CreateWrite ==
  /\ At("build")
  /\ dash' = [exists |-> TRUE, stamp |-> op.read,
              snapshot |-> op.read.tables \cup {System}, views |-> Seeds(op.read.tables)]
  /\ op' = [op EXCEPT !.pc = "get", !.read = Idle.read]
  /\ unsure' = FALSE
  /\ UNCHANGED catalog /\ UnchangedBounds
-----------------------------------------------------------------------------
(* apply_instruction                                                       *)

EditRead ==
  /\ At("read") /\ catalog.found
  /\ op' = [op EXCEPT !.pc = "plan", !.read = Hash(catalog)]
  /\ UNCHANGED <<catalog, dash>> /\ UnchangedRest

(* A chart that is replaced or deleted may be the last one over its table. *)
Lost == {{}} \cup {{v} : v \in dash.views}

(* The planner: a chart to add, or one to put in the place of another; its *)
(* metric is a column, or a derived metric that is saved before the chart. *)
Plan ==
  /\ At("plan")
  /\ \E table \in op.read.tables, name \in Metric \cup {Column} :
       op' = [op EXCEPT !.pc = IF name = Column THEN "store" ELSE "define",
                        !.name = name, !.table = {table}]
  /\ UNCHANGED <<catalog, dash>> /\ UnchangedRest

(* _delete_view leaves the stamp.                                          *)
DeleteView ==
  /\ At("plan") /\ dash.views # {}
  /\ \E old \in Lost : dash' = [dash EXCEPT !.views = @ \ old]
  /\ op' = [op EXCEPT !.pc = "get", !.stored = TRUE, !.read = Idle.read, !.table = {}]
  /\ UNCHANGED catalog /\ UnchangedRest

(* A name has one row. *)
Without(metrics, name) ==
  IF \E i \in DOMAIN metrics : metrics[i].name = name
  THEN RemoveAt(metrics, CHOOSE i \in DOMAIN metrics : metrics[i].name = name)
  ELSE metrics

(* Mutant: the context in memory is hashed without the metric just saved. *)
DefineUnseen ==
  /\ At("define") /\ defined < MaxDefinitions
  /\ defined' = defined + 1
  /\ LET saved == [name |-> op.name, at |-> defined + 1]
     IN /\ catalog' = [catalog EXCEPT !.metrics = <<saved>> \o Without(@, op.name)]
        /\ op' = [op EXCEPT !.pc = "store"]
  /\ UNCHANGED <<dash, unsure, asked>>

(* save_derived_metric, committed; the new hash is that of the context in  *)
(* memory with the metric after the ones it has.                           *)
Define ==
  /\ At("define") /\ defined < MaxDefinitions
  /\ defined' = defined + 1
  /\ LET saved == [name |-> op.name, at |-> defined + 1]
     IN /\ catalog' = [catalog EXCEPT !.metrics = <<saved>> \o Without(@, op.name)]
        /\ op' = [op EXCEPT !.pc = "store", !.read.metrics = Append(@, saved)]
  /\ UNCHANGED <<dash, unsure, asked>>

(* Mutant: the stamp of an edit leaves out feedback and metrics. *)
StoreStampsData ==
  /\ At("store")
  /\ \E old \in Lost :
       dash' = [dash EXCEPT !.views = (@ \ old) \cup op.table,
                            !.stamp = [op.read EXCEPT !.metrics = <<>>, !.feedback = 0]]
  /\ op' = [op EXCEPT !.pc = "get", !.stored = TRUE, !.read = Idle.read, !.table = {}]
  /\ UNCHANGED catalog /\ UnchangedRest

(* The view is written and the dashboard stamped in one transaction.       *)
Store ==
  /\ At("store")
  /\ \E old \in Lost :
       dash' = [dash EXCEPT !.views = (@ \ old) \cup op.table, !.stamp = op.read]
  /\ op' = [op EXCEPT !.pc = "get", !.stored = TRUE, !.read = Idle.read, !.table = {}]
  /\ UNCHANGED catalog /\ UnchangedRest

(* A request fails: the catalog is not ready, the planner names no view or *)
(* table there is, the preview of a statement or a database fails, the     *)
(* process dies.  Nothing is undone.                                       *)
Raise ==
  /\ ~At("idle")
  /\ op' = Idle
  /\ UNCHANGED <<catalog, dash>> /\ UnchangedRest

Serve == Get \/ CreateRead \/ CreateWrite \/ EditRead \/ Plan \/ DeleteView \/ Define \/ Store
         \/ GetUntested \/ Raise

Next ==
  \/ Question \/ SaveOutcome \/ ApplyFeedback
  \/ SaveFeedback \/ DeleteConversation \/ Request \/ Serve
  \/ \E t \in Table : Hide(t)

Spec == Init /\ [][Next]_vars

(* The server thread runs while it has something to do.                    *)
FairSpec == Spec /\ WF_vars(Serve)
-----------------------------------------------------------------------------
(* Properties                                                              *)

(* Every chart that a dashboard lists can be drawn: run_view refuses a     *)
(* statement over a table that the snapshot of the dashboard does not      *)
(* have, and the snapshot is written by a rebuild only.  What an           *)
(* instruction reads may have a newer table if its test for staleness      *)
(* failed, or if a question of another process came between the test and   *)
(* the read; from the next rebuild on the charts can be drawn again.       *)
ViewsCanRun == ~unsure => dash.views \subseteq dash.snapshot

(* What others than instructions change in a digest.                       *)
Data(digest) == <<digest.files, digest.tables, digest.feedback>>

(* An instruction without a derived metric does not end in a rebuild,      *)
(* which would undo it with all the edits before it, unless files, tables  *)
(* or feedback were changed under it.                                      *)
PlainEditsStay ==
  [][(CreateWrite /\ op.stored /\ op.name = Column /\ ~op.untested)
       => Data(op.read) # Data(dash.stamp)]_vars

(* Nor does one that saves the first derived metric: the hash of the       *)
(* context in memory, with the metric at the end, is then the hash of the  *)
(* catalog, which has the newest first.                                    *)
FirstMetricStays ==
  [][(CreateWrite /\ op.stored /\ Len(dash.stamp.metrics) <= 1 /\ ~op.untested)
       => Data(op.read) # Data(dash.stamp)]_vars

(* How far a request is from its end when nobody changes the catalog any   *)
(* more.  What is stale leads to one rebuild; a rebuild from a catalog     *)
(* that has changed since it was read, to another one.                     *)
Differs(digest) == catalog.found /\ digest # Hash(catalog)
Opening ==
  CASE At("get") -> IF dash.exists /\ Differs(dash.stamp) THEN 4 ELSE 1
    [] At("create") -> 3
    [] At("build") -> IF Differs(op.read) THEN 5 ELSE 2
    [] OTHER -> 0
Position ==
  CASE At("idle") -> 0
    [] At("read") -> 9
    [] At("plan") -> 8
    [] At("define") -> 7
    [] At("store") -> 6
    [] OTHER -> Opening + IF op.edit /\ ~op.stored THEN 10 ELSE 0

(* A table hidden, a feedback or a question may cost one round more, and a *)
(* question gives back tables that may be hidden.                          *)
Round == 4
RoundsOfQuestion == Round * (Cardinality(Table) + 1)
Left == Position + Round * (Cardinality(catalog.tables) + (MaxFeedback - catalog.feedback))
                 + RoundsOfQuestion * (MaxQuestions - asked)

(* get_dashboard and create_from_conversation call each other, and what    *)
(* changes the catalog under a request makes them begin again: each change *)
(* costs what it may, and there is no other way to go on.                  *)
RoundsRunOut ==
  [][~At("idle") /\ (Serve \/ Question \/ ApplyFeedback \/ \E t \in Table : Hide(t))
       => Left' < Left]_vars

(* get_dashboard and create_from_conversation call each other: they come   *)
(* to an end.                                                              *)
RequestEnds == ~At("idle") ~> At("idle")

(* What the documents say of an instruction: only the view it names is     *)
(* changed, the dashboard is built anew only when the catalog changes.     *)
EditsStay ==
  [][(CreateWrite /\ op.stored /\ ~op.untested) => Data(op.read) # Data(dash.stamp)]_vars
=============================================================================
