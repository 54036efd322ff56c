---------------------------- MODULE SqlGeneration ----------------------------
(***************************************************************************)
(* A question becomes SQL: ToolAssistedSqlGenerator, which lets a language *)
(* model explore the tables through tools until it returns a statement,    *)
(* and the nodes validate_sql and execute_sql that follow it.              *)
(*                                                                         *)
(* A statement is the set of tables it reads.  When the user asks for      *)
(* consolidated data, a statement over one of several tables with the same *)
(* columns is refused, unless its strategy says why they do not combine.   *)
(***************************************************************************)
EXTENDS Integers, FiniteSets

CONSTANTS
  Tables,      \* the tables are 1..Tables, in the order of the profiles
  MaxTools,    \* ANALITRICS_SQL_TOOL_MAX_CALLS: 8 unless it is set
  GroupLimit   \* groups listed, and tables listed of each: 8 in the code

ASSUME TablesAssumption == Tables \in Nat \ {0}
ASSUME ToolsAssumption == MaxTools \in Nat
ASSUME GroupAssumption == GroupLimit \in Nat \ {0}

VARIABLES
  columns,   \* of each table, the first one with the same columns; 0: no such table
  cached,    \* the last answer left compatible groups in its semantic_cache
  asked,     \* the user asks for consolidated data
  gen,       \* the call of generate
  plan,      \* the statement, and whether the strategy kept with it has groups
  repaired,  \* the call of generate is the one of validate_sql
  node       \* of the graph

vars == <<columns, cached, asked, gen, plan, repaired, node>>

Table == 1..Tables
Mode == {"single_table", "union_compatible_tables", "join_tables", "cannot_combine"}
Profiles == {c \in [Table -> 0..Tables] : \A t \in Table : c[t] # 0 => c[t] <= t /\ c[c[t]] = c[t]}
Strategy == [mode : Mode, reason : BOOLEAN]
None == [mode |-> "none", reason |-> FALSE]

(* The domains, and that only a statement whose strategy has a mode that   *)
(* generate knows goes on to validation (sql_generation.py:652-665).       *)
TypeOK ==
  /\ columns \in Profiles
  /\ cached \in BOOLEAN /\ asked \in BOOLEAN /\ repaired \in BOOLEAN
  /\ gen \in [consolidate : BOOLEAN, looked : BOOLEAN, found : BOOLEAN,
              step : 0..MaxTools, failures : 0..1, strategy : Strategy \cup {None}]
  /\ plan \in [sql : SUBSET Table, found : BOOLEAN]
  /\ node \in {"idle", "generate", "validate", "execute", "answered", "failed"}
  /\ node \in {"validate", "execute", "answered"} => gen.strategy \in Strategy

(* A call of generate: what is in semantic_cache counts as already found.  *)
NewCall(consolidate, seeded) ==
  [consolidate |-> consolidate, looked |-> seeded, found |-> seeded,
   step |-> 0, failures |-> 0, strategy |-> None]

Init ==
  /\ columns \in Profiles
  /\ cached = FALSE /\ asked = FALSE /\ repaired = FALSE
  /\ gen = NewCall(FALSE, FALSE)
  /\ plan = [sql |-> {}, found |-> FALSE]
  /\ node = "idle"
-----------------------------------------------------------------------------
(* find_compatible_tables: the tables with the same columns, as buckets in *)
(* the order of their first table, and the groups and tables it lists.     *)
Present == {t \in Table : columns[t] # 0}
Bucket(t) == {u \in Table : columns[u] = t}
Shared == {t \in Present : Cardinality(Bucket(t)) > 1}
AtMost(limit, S) == {t \in S : Cardinality({u \in S : u < t}) < limit}

(* Mutant: the lists of tables end one table early. *)
GroupsOneShort == {AtMost(GroupLimit - 1, Bucket(t)) : t \in AtMost(GroupLimit, Shared)}

Groups == {AtMost(GroupLimit, Bucket(t)) : t \in AtMost(GroupLimit, Shared)}
Buckets == {Bucket(t) : t \in Shared}

(* A statement that reads one table alone of one of these groups.          *)
ReadsOneOf(groups, sql) == Cardinality(sql) = 1 /\ \E g \in groups : sql \subseteq g /\ Cardinality(g) > 1

(* _validate_data_strategy does not raise.                                 *)
Accepts(sql, strategy) ==
  /\ strategy.mode = "single_table" => Cardinality(sql) <= 1
  /\ gen.consolidate =>
       /\ gen.looked
       /\ ReadsOneOf(Groups, sql) => strategy.mode = "cannot_combine"
       /\ strategy.mode = "cannot_combine" => strategy.reason
-----------------------------------------------------------------------------
(* A question, with the profiles of the files that the chat has by then.   *)
GenerateSql ==
  /\ node \in {"idle", "answered", "failed"}
  /\ columns' \in Profiles
  /\ asked' \in BOOLEAN
  /\ gen' = NewCall(asked', cached)
  /\ repaired' = FALSE
  /\ node' = "generate"
  /\ UNCHANGED <<cached, plan>>

(* A tool that answers or fails, or a final_sql without a statement.  For  *)
(* one table find_compatible_tables lists at least that table.             *)
UseTool ==
  /\ node = "generate" /\ gen.step < MaxTools
  /\ \E tool \in {"other", "find_groups", "find_for_table"} :
       gen' = [gen EXCEPT !.step = @ + 1,
                          !.looked = @ \/ tool # "other",
                          !.found = @ \/ tool = "find_for_table"
                                      \/ (tool = "find_groups" /\ Groups # {})]
  /\ UNCHANGED <<columns, cached, asked, plan, repaired, node>>

(* The model does not answer, or answers without a statement when it is    *)
(* forced to give one.                                                     *)
GiveUp ==
  /\ node = "generate"
  /\ node' = "failed"
  /\ UNCHANGED <<columns, cached, asked, gen, plan, repaired>>

(* Mutant: a mode that the model leaves out stays out. *)
FinalSqlWithoutMode ==
  /\ node = "generate"
  /\ \E sql \in SUBSET Present : \E strategy \in Strategy \cup {None} :
       /\ Accepts(sql, strategy)
       /\ gen' = [gen EXCEPT !.strategy = strategy]
       /\ plan' = [sql |-> sql, found |-> IF repaired THEN plan.found ELSE gen.found]
  /\ node' = "validate"
  /\ UNCHANGED <<columns, cached, asked, repaired>>

(* final_sql with a strategy that is accepted and a preview that runs; a   *)
(* mode that the model leaves out is inferred, with a reason.  A repair    *)
(* replaces the statement in the plan and keeps its data_strategy.         *)
FinalSql ==
  /\ node = "generate"
  /\ \E sql \in SUBSET Present : \E strategy \in Strategy :
       /\ Accepts(sql, strategy)
       /\ gen' = [gen EXCEPT !.strategy = strategy]
       /\ plan' = [sql |-> sql, found |-> IF repaired THEN plan.found ELSE gen.found]
  /\ node' = "validate"
  /\ UNCHANGED <<columns, cached, asked, repaired>>

(* final_sql that is not: the second one, or one at the last step, is an   *)
(* error of the run.  The preview of any statement may fail.               *)
FinalSqlRefused ==
  /\ node = "generate"
  /\ IF gen.step = MaxTools \/ gen.failures = 1
     THEN node' = "failed" /\ UNCHANGED gen
     ELSE gen' = [gen EXCEPT !.step = @ + 1, !.failures = 1] /\ UNCHANGED node
  /\ UNCHANGED <<columns, cached, asked, plan, repaired>>

(* validate_sql: the allow-list and EXPLAIN.                               *)
ValidateSql ==
  /\ node = "validate"
  /\ node' = "execute"
  /\ UNCHANGED <<columns, cached, asked, gen, plan, repaired>>

(* Mutant: the question of the repair is the statement and the error alone. *)
RepairSqlAlone ==
  /\ node = "validate" /\ ~repaired
  /\ \E more \in BOOLEAN : gen' = NewCall(more, cached)
  /\ repaired' = TRUE
  /\ node' = "generate"
  /\ UNCHANGED <<columns, cached, asked, plan>>

(* Mutant: every invalid statement is repaired. *)
RepairSqlAgain ==
  /\ node = "validate"
  /\ \E more \in BOOLEAN : gen' = NewCall(asked \/ more, cached)
  /\ repaired' = TRUE
  /\ node' = "generate"
  /\ UNCHANGED <<columns, cached, asked, plan>>

(* The first statement is repaired by a call of generate whose question    *)
(* also holds the statement and the error, and may so ask for more.        *)
RepairSql ==
  /\ node = "validate" /\ ~repaired
  /\ \E more \in BOOLEAN : gen' = NewCall(asked \/ more, cached)
  /\ repaired' = TRUE
  /\ node' = "generate"
  /\ UNCHANGED <<columns, cached, asked, plan>>

RepairFails ==
  /\ node = "validate" /\ repaired
  /\ node' = "failed"
  /\ UNCHANGED <<columns, cached, asked, gen, plan, repaired>>

(* execute_sql and, when the answer is kept, the semantic_cache of its     *)
(* analysis state: the one of the data_strategy in the plan.               *)
ExecuteSql ==
  /\ node = "execute"
  /\ \/ node' = "answered" /\ cached' = plan.found
     \/ node' = "failed" /\ UNCHANGED cached
  /\ UNCHANGED <<columns, asked, gen, plan, repaired>>

Generator == UseTool \/ GiveUp \/ FinalSql \/ FinalSqlRefused
Nodes == ValidateSql \/ RepairSql \/ RepairFails \/ ExecuteSql
Next == GenerateSql \/ Generator \/ Nodes

Spec == Init /\ [][Next]_vars
(* The graph runs on until it answers or raises; a user need not ask.      *)
FairSpec == Spec /\ WF_vars(Generator \/ Nodes)
-----------------------------------------------------------------------------
AnswersOneOf(groups) ==
  /\ node = "answered" /\ asked
  /\ ReadsOneOf(groups, plan.sql)
  /\ ~(gen.strategy.mode = "cannot_combine" /\ gen.strategy.reason)

(* A question that asks for consolidated data is not answered from one of  *)
(* the tables of a listed group without a reason: not after a repair,      *)
(* whose question is another text, nor with groups from the semantic cache *)
(* of a question asked over other files.                                   *)
ConsolidationKept == ~AnswersOneOf(Groups)

(* The same of every table that has the columns of another one.            *)
ConsolidationWhole == ~AnswersOneOf(Buckets)

(* It is kept of all of them as long as no group is longer than its list   *)
(* and no more groups are there than are listed: the limits on what the    *)
(* model is shown are then the only way around the rule.                   *)
AllListed ==
  /\ Cardinality(Shared) <= GroupLimit
  /\ \A t \in Shared : Cardinality(Bucket(t)) <= GroupLimit
WholeIfListed == AllListed => ConsolidationWhole

(* The steps that a question may still take: a call of generate has one    *)
(* for each tool call and one more, and there are two calls at most.       *)
OneCall == MaxTools + 3
Ahead == IF repaired THEN 0 ELSE OneCall
Left ==
  CASE node = "generate" -> Ahead + OneCall - gen.step
    [] node = "validate" -> Ahead + 2
    [] node = "execute" -> 1
    [] OTHER -> 0

(* Every step of the loop, of its refusals and of the nodes uses one of    *)
(* them up: a question costs a bounded number of calls of the model.       *)
StepsRunOut == [][Generator \/ Nodes => Left' < Left]_vars

(* A question is answered or ends in an error, however the model behaves   *)
(* and whichever statements are refused and repaired.                      *)
QuestionSettles == node = "generate" ~> node \in {"answered", "failed"}
=============================================================================
