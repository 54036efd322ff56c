------------------------- MODULE SqlGeneration_proofs -------------------------
(***************************************************************************)
(* Proofs about SqlGeneration, for any number of tables, steps and listed  *)
(* groups.                                                                 *)
(***************************************************************************)
EXTENDS SqlGeneration, FiniteSetTheorems, TLAPS

Judged == {"validate", "execute", "answered"}

(* The words that ask for consolidated data are in the question of every   *)
(* call: a repair does not take the wish away.                             *)
WishKept == node # "idle" /\ asked => gen.consolidate

(* The statement of the plan has passed the check of the last call, over   *)
(* the tables of this question.                                            *)
PlanChecked ==
  node \in Judged /\ gen.consolidate =>
    /\ ReadsOneOf(Groups, plan.sql) => gen.strategy.mode = "cannot_combine"
    /\ gen.strategy.mode = "cannot_combine" => gen.strategy.reason

IInv == TypeOK /\ WishKept /\ PlanChecked

-----------------------------------------------------------------------------
LEMMA NewCallType ==
  ASSUME NEW consolidate \in BOOLEAN, NEW seeded \in BOOLEAN
  PROVE  NewCall(consolidate, seeded) \in
           [consolidate : BOOLEAN, looked : BOOLEAN, found : BOOLEAN,
            step : 0..MaxTools, failures : 0..1, strategy : Strategy \cup {None}]
BY ToolsAssumption DEF NewCall

LEMMA TypeInit == Init => TypeOK
<1>1. Init => gen \in [consolidate : BOOLEAN, looked : BOOLEAN, found : BOOLEAN,
                       step : 0..MaxTools, failures : 0..1, strategy : Strategy \cup {None}]
  BY NewCallType DEF Init
<1>2. Init => plan \in [sql : SUBSET Table, found : BOOLEAN]
  BY DEF Init
<1>3. Init => cached \in BOOLEAN /\ asked \in BOOLEAN /\ repaired \in BOOLEAN
  BY Zenon DEF Init
<1>4. Init => columns \in Profiles /\ node = "idle"
  BY DEF Init
<1> QED BY <1>1, <1>2, <1>3, <1>4 DEF TypeOK

(* The loop of generate stays within its steps and its two failures.       *)
LEMMA TypeGenerator == ASSUME TypeOK, Generator PROVE TypeOK'
<1> USE ToolsAssumption
<1>1. CASE UseTool
  <2> PICK tool \in {"other", "find_groups", "find_for_table"} :
        gen' = [gen EXCEPT !.step = @ + 1,
                           !.looked = @ \/ tool # "other",
                           !.found = @ \/ tool = "find_for_table"
                                       \/ (tool = "find_groups" /\ Groups # {})]
    BY <1>1 DEF UseTool
  <2> DEFINE l == gen.looked \/ tool # "other"
             f == gen.found \/ tool = "find_for_table" \/ (tool = "find_groups" /\ Groups # {})
  <2>1. l \in BOOLEAN /\ f \in BOOLEAN
    OBVIOUS
  <2>2. gen' = [gen EXCEPT !.step = @ + 1, !.looked = l, !.found = f]
    OBVIOUS
  <2> HIDE DEF l, f
  <2>3. gen.step + 1 \in 0..MaxTools
    BY <1>1 DEF UseTool, TypeOK
  <2> QED BY <1>1, <2>1, <2>2, <2>3 DEF UseTool, TypeOK
<1>2. CASE GiveUp
  BY <1>2 DEF GiveUp, TypeOK
<1>3. CASE FinalSql
  <2> PICK sql \in SUBSET Present, strategy \in Strategy :
        /\ gen' = [gen EXCEPT !.strategy = strategy]
        /\ plan' = [sql |-> sql, found |-> IF repaired THEN plan.found ELSE gen.found]
    BY <1>3 DEF FinalSql
  <2>1. sql \in SUBSET Table
    BY DEF Present
  <2> QED BY <1>3, <2>1 DEF FinalSql, TypeOK
<1>4. CASE FinalSqlRefused
  <2>1. CASE gen.step = MaxTools \/ gen.failures = 1
    BY <1>4, <2>1 DEF FinalSqlRefused, TypeOK
  <2>2. CASE ~(gen.step = MaxTools \/ gen.failures = 1)
    <3>1. gen' = [gen EXCEPT !.step = @ + 1, !.failures = 1]
      BY <1>4, <2>2 DEF FinalSqlRefused
    <3>2. gen.step + 1 \in 0..MaxTools
      BY <2>2 DEF TypeOK
    <3>3. gen \in [consolidate : BOOLEAN, looked : BOOLEAN, found : BOOLEAN,
                   step : 0..MaxTools, failures : 0..1, strategy : Strategy \cup {None}]
      BY DEF TypeOK
    <3> DEFINE n == gen.step + 1
    <3>4. gen' = [gen EXCEPT !.step = n, !.failures = 1] /\ n \in 0..MaxTools /\ 1 \in 0..1
      BY <3>1, <3>2
    <3> HIDE DEF n
    <3>5. gen' \in [consolidate : BOOLEAN, looked : BOOLEAN, found : BOOLEAN,
                    step : 0..MaxTools, failures : 0..1, strategy : Strategy \cup {None}]
      BY <3>3, <3>4
    <3>6. UNCHANGED <<columns, cached, asked, plan, repaired, node>> /\ node = "generate"
      BY <1>4, <2>2 DEF FinalSqlRefused
    <3> QED BY <3>5, <3>6 DEF TypeOK
  <2> QED BY <2>1, <2>2
<1> QED BY <1>1, <1>2, <1>3, <1>4 DEF Generator

(* What a repair asks for.                                                 *)
LEMMA RepairCall ==
  ASSUME TypeOK, RepairSql
  PROVE  \E wish \in BOOLEAN : (asked => wish) /\ gen' = NewCall(wish, cached)
<1> PICK more \in BOOLEAN : gen' = NewCall(asked \/ more, cached)
  BY DEF RepairSql
<1> DEFINE wish == asked \/ more
<1>1. wish \in BOOLEAN /\ (asked => wish)
  BY DEF TypeOK
<1>2. gen' = NewCall(wish, cached)
  OBVIOUS
<1> HIDE DEF wish
<1> QED BY <1>1, <1>2

LEMMA TypeOthers == ASSUME TypeOK, GenerateSql \/ Nodes PROVE TypeOK'
<1>1. CASE GenerateSql
  <2>1. gen' \in [consolidate : BOOLEAN, looked : BOOLEAN, found : BOOLEAN,
                  step : 0..MaxTools, failures : 0..1, strategy : Strategy \cup {None}]
    BY <1>1, NewCallType DEF GenerateSql, TypeOK
  <2> QED BY <1>1, <2>1 DEF GenerateSql, TypeOK
<1>2. CASE RepairSql
  <2>1. gen' \in [consolidate : BOOLEAN, looked : BOOLEAN, found : BOOLEAN,
                  step : 0..MaxTools, failures : 0..1, strategy : Strategy \cup {None}]
    BY <1>2, RepairCall, NewCallType DEF TypeOK
  <2> QED BY <1>2, <2>1 DEF RepairSql, TypeOK
<1>3. CASE ValidateSql \/ RepairFails \/ ExecuteSql
  BY <1>3 DEF ValidateSql, RepairFails, ExecuteSql, TypeOK
<1> QED BY <1>1, <1>2, <1>3 DEF Nodes

LEMMA TypeStep == ASSUME TypeOK, [Next]_vars PROVE TypeOK'
<1>1. CASE UNCHANGED vars
  BY <1>1 DEF vars, TypeOK, Profiles
<1> QED BY <1>1, TypeGenerator, TypeOthers DEF Next

(* The domains, with the steps and failures of every call of generate in   *)
(* their bounds and a known mode on every statement that is validated.     *)
THEOREM TypeCorrect == Spec => []TypeOK
BY TypeInit, TypeStep, PTL DEF Spec
-----------------------------------------------------------------------------
LEMMA SameGroups == ASSUME UNCHANGED columns PROVE Groups' = Groups
BY DEF Groups, Shared, Present, Bucket, AtMost

LEMMA SameReads ==
  ASSUME UNCHANGED <<columns, plan>>
  PROVE  ReadsOneOf(Groups, plan.sql)' = ReadsOneOf(Groups, plan.sql)
BY SameGroups DEF ReadsOneOf

LEMMA WishStep == ASSUME TypeOK, WishKept, Next PROVE WishKept'
<1>1. CASE GenerateSql
  BY <1>1 DEF GenerateSql, WishKept, NewCall
<1>2. CASE Generator
  <2>1. UNCHANGED asked /\ node = "generate"
    BY <1>2 DEF Generator, UseTool, GiveUp, FinalSql, FinalSqlRefused
  <2>2. gen'.consolidate = gen.consolidate
    BY <1>2 DEF Generator, UseTool, GiveUp, FinalSql, FinalSqlRefused, TypeOK
  <2> QED BY <2>1, <2>2 DEF WishKept
<1>3. CASE RepairSql
  <2> PICK wish \in BOOLEAN : (asked => wish) /\ gen' = NewCall(wish, cached)
    BY <1>3, RepairCall
  <2> QED BY <1>3 DEF RepairSql, WishKept, NewCall
<1>4. CASE ValidateSql \/ RepairFails \/ ExecuteSql
  BY <1>4 DEF ValidateSql, RepairFails, ExecuteSql, WishKept
<1> QED BY <1>1, <1>2, <1>3, <1>4 DEF Next, Nodes

LEMMA CheckedStep == ASSUME TypeOK, PlanChecked, Next PROVE PlanChecked'
<1>1. CASE node' \notin Judged
  BY <1>1 DEF PlanChecked
<1>2. CASE FinalSql
  <2> PICK sql \in SUBSET Present, strategy \in Strategy :
        /\ Accepts(sql, strategy)
        /\ gen' = [gen EXCEPT !.strategy = strategy]
        /\ plan' = [sql |-> sql, found |-> IF repaired THEN plan.found ELSE gen.found]
    BY <1>2 DEF FinalSql
  <2>1. gen'.consolidate = gen.consolidate /\ gen'.strategy = strategy
    BY DEF TypeOK
  <2>2. plan'.sql = sql /\ Groups' = Groups
    BY <1>2, SameGroups DEF FinalSql
  <2>3. ReadsOneOf(Groups, plan.sql)' = ReadsOneOf(Groups, sql)
    BY <2>2 DEF ReadsOneOf
  <2> QED BY <2>1, <2>3 DEF PlanChecked, Accepts
<1>3. CASE ValidateSql \/ ExecuteSql
  <2>1. node \in Judged /\ UNCHANGED <<columns, gen, plan>>
    BY <1>3 DEF ValidateSql, ExecuteSql, Judged
  <2> QED BY <2>1, SameReads DEF PlanChecked
<1>4. CASE GenerateSql \/ RepairSql \/ RepairFails \/ UseTool \/ GiveUp \/ FinalSqlRefused
  BY <1>1, <1>4
     DEF GenerateSql, RepairSql, RepairFails, UseTool, GiveUp, FinalSqlRefused, Judged
<1> QED BY <1>2, <1>3, <1>4 DEF Next, Generator, Nodes

LEMMA InvInit == Init => IInv
BY TypeInit DEF Init, IInv, WishKept, PlanChecked, Judged

LEMMA InvStep == ASSUME IInv, [Next]_vars PROVE IInv'
<1>1. CASE Next
  BY <1>1, TypeStep, WishStep, CheckedStep DEF IInv
<1>2. CASE UNCHANGED vars
  BY <1>2, TypeStep, SameReads DEF vars, IInv, WishKept, PlanChecked
<1> QED BY <1>1, <1>2

LEMMA InvKept == IInv => ConsolidationKept
BY DEF IInv, WishKept, PlanChecked, ConsolidationKept, AnswersOneOf, Judged

(* A question that asks for consolidated data is not answered from one     *)
(* table of a listed group without a reason.                               *)
THEOREM ConsolidationSafe == Spec => []ConsolidationKept
BY InvInit, InvStep, InvKept, PTL DEF Spec
-----------------------------------------------------------------------------
LEMMA TableSets ==
  ASSUME NEW S \in SUBSET Table
  PROVE  /\ IsFiniteSet(S) /\ Cardinality(S) \in Nat
         /\ Cardinality(S) <= Tables
<1>1. IsFiniteSet(Table) /\ Cardinality(Table) = Tables
  BY FS_Interval, TablesAssumption DEF Table
<1> QED BY <1>1, FS_Subset, FS_CardinalityType

(* A list with room for all of a set of tables is the whole set: each of   *)
(* them has fewer before it than there are in all.                         *)
LEMMA AtMostWhole ==
  ASSUME NEW S \in SUBSET Table, NEW limit \in Nat, Cardinality(S) <= limit
  PROVE  AtMost(limit, S) = S
<1>1. ASSUME NEW t \in S PROVE Cardinality({u \in S : u < t}) < limit
  <2> DEFINE B == {u \in S : u < t}
  <2>1. B \in SUBSET S /\ B \in SUBSET Table
    OBVIOUS
  <2>2. ~(t < t)
    BY TablesAssumption DEF Table
  <2>3. t \notin B
    BY <2>2
  <2> HIDE DEF B
  <2>4. Cardinality(B) <= Cardinality(S) /\ Cardinality(B) # Cardinality(S)
    BY <2>1, <2>3, TableSets, FS_Subset
  <2>5. Cardinality(B) < limit
    BY <2>1, <2>4, TableSets
  <2> QED BY <2>5 DEF B
<1> QED BY <1>1 DEF AtMost

LEMMA GroupsWhole == ASSUME AllListed PROVE Groups = Buckets
<1>1. Shared \in SUBSET Table /\ \A t \in Shared : Bucket(t) \in SUBSET Table
  BY DEF Shared, Present, Bucket
<1>2. AtMost(GroupLimit, Shared) = Shared
  BY <1>1, AtMostWhole, GroupAssumption DEF AllListed
<1>3. \A t \in Shared : AtMost(GroupLimit, Bucket(t)) = Bucket(t)
  BY <1>1, AtMostWhole, GroupAssumption DEF AllListed
<1> QED BY <1>2, <1>3 DEF Groups, Buckets

LEMMA InvWhole == IInv => WholeIfListed
BY InvKept, GroupsWhole DEF WholeIfListed, ConsolidationKept, ConsolidationWhole, AnswersOneOf

(* As long as every group and every table of it is listed, consolidated    *)
(* data is not answered from one of several tables without a reason.       *)
THEOREM WholeSafe == Spec => []WholeIfListed
BY InvInit, InvStep, InvWhole, PTL DEF Spec

LEMMA FewListed == ASSUME Tables <= GroupLimit PROVE AllListed
<1>1. Shared \in SUBSET Table /\ \A t \in Shared : Bucket(t) \in SUBSET Table
  BY DEF Shared, Present, Bucket
<1> QED BY <1>1, TableSets, TablesAssumption, GroupAssumption DEF AllListed

(* A chat with no more tables than a list holds, eight in the code, never  *)
(* sees the rule of consolidated data broken.                              *)
THEOREM FewTablesSafe == ASSUME Tables <= GroupLimit PROVE Spec => []ConsolidationWhole
<1>1. IInv => ConsolidationWhole
  BY InvWhole, FewListed DEF WholeIfListed
<1> QED BY <1>1, InvInit, InvStep, PTL DEF Spec
-----------------------------------------------------------------------------
LEMMA LeftType == ASSUME TypeOK PROVE Left \in 0..(2 * OneCall)
<1>1. gen.step \in 0..MaxTools
  BY DEF TypeOK
<1>2. CASE node = "generate"
  BY <1>1, <1>2, ToolsAssumption DEF Left, Ahead, OneCall
<1>3. CASE node # "generate"
  BY <1>3, ToolsAssumption DEF Left, Ahead, OneCall
<1> QED BY <1>2, <1>3

LEMMA LeftStep == ASSUME TypeOK, Generator \/ Nodes PROVE Left' < Left
<1>0. gen.step \in 0..MaxTools
  BY DEF TypeOK
<1>1. CASE UseTool
  <2>1. gen'.step = gen.step + 1
    BY <1>1 DEF UseTool, TypeOK
  <2> QED BY <1>0, <1>1, <2>1, ToolsAssumption DEF UseTool, Left, Ahead, OneCall
<1>2. CASE FinalSqlRefused
  <2>1. CASE gen.step = MaxTools \/ gen.failures = 1
    BY <1>0, <1>2, <2>1, ToolsAssumption DEF FinalSqlRefused, Left, Ahead, OneCall
  <2>2. CASE ~(gen.step = MaxTools \/ gen.failures = 1)
    <3>1. gen'.step = gen.step + 1
      BY <1>2, <2>2 DEF FinalSqlRefused, TypeOK
    <3> QED BY <1>0, <1>2, <2>2, <3>1, ToolsAssumption DEF FinalSqlRefused, Left, Ahead, OneCall
  <2> QED BY <2>1, <2>2
<1>3. CASE FinalSql \/ GiveUp
  BY <1>0, <1>3, ToolsAssumption DEF FinalSql, GiveUp, Left, Ahead, OneCall
<1>4. CASE RepairSql
  <2> PICK wish \in BOOLEAN : gen' = NewCall(wish, cached)
    BY <1>4, RepairCall
  <2>1. gen'.step = 0
    BY DEF NewCall
  <2> QED BY <1>4, <2>1, ToolsAssumption DEF RepairSql, Left, Ahead, OneCall
<1>5. CASE ValidateSql \/ RepairFails \/ ExecuteSql
  BY <1>5, ToolsAssumption DEF ValidateSql, RepairFails, ExecuteSql, Left, Ahead, OneCall
<1> QED BY <1>1, <1>2, <1>3, <1>4, <1>5 DEF Generator, Nodes

(* Every step uses up one of the 2 * MaxTools + 6 that a question has at   *)
(* most: no refusal, failed preview or repair makes it go on for ever.     *)
THEOREM StepsBounded == Spec => [](Left \in 0..(2 * OneCall)) /\ StepsRunOut
<1>1. TypeOK /\ [Next]_vars => [Generator \/ Nodes => Left' < Left]_vars
  BY LeftStep
<1> QED BY <1>1, TypeInit, TypeStep, LeftType, PTL DEF Spec, StepsRunOut
=============================================================================
