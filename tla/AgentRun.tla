------------------------------ MODULE AgentRun ------------------------------
(***************************************************************************)
(* The agent answers the questions of one conversation: the graph of nodes *)
(* of AnalyticalAgent.run behind POST /agent/run/stream.  The server has   *)
(* one thread, so that one question is run at a time and the others wait   *)
(* in the accept queue.                                                    *)
(*                                                                         *)
(* A run leaves four traces that outlive it: what it wrote on its stream,  *)
(* the clarification pending in the session row, the analysis states that  *)
(* the next questions are read against, and the log of runs in Mongo.      *)
(* Whatever a language model decides is a nondeterministic choice.         *)
(***************************************************************************)
EXTENDS Integers, Sequences, SequencesExt

CONSTANTS
  Question,    \* the questions of the conversation
  Nobody,      \* not a question
  MaxStates,   \* ANALITRICS_MAX_ANALYSIS_STATES: 8 in the code
  Chunks,      \* the pieces that an answer is streamed in
  MaxCrashes   \* bound on the crashes of the server

ASSUME NobodyAssumption == Nobody \notin Question
ASSUME StatesAssumption == MaxStates \in Nat \ {0}
ASSUME ChunksAssumption == Chunks \in Nat \ {0}
ASSUME CrashAssumption == MaxCrashes \in Nat

VARIABLES
  run,      \* the question being run: the node, the plan, the answer so far
  conn,     \* the connection of each question, as the server leaves it
  wire,     \* the events written to it and not yet read
  gone,     \* questions whose caller has closed the connection
  pending,  \* the question whose clarification is pending in the session row
  memory,   \* analysis_conversation_states, oldest first
  log,      \* analitrics_agent_runs with status ok, oldest first; the code
            \* logs a run that fails as well, and reads it nowhere
  crashes   \* crashes so far

agentVars == <<run, conn, wire, gone, pending, memory, log, crashes>>

(* "first" is an answer as composed and streamed, "second" is what the     *)
(* state holds once the critic has revised it or a note was put before it. *)
(* The model may also compose no text ("empty", of which there is nothing  *)
(* to stream), and the critic revise that ("filled").                      *)
Answer == {"none", "first", "second", "empty", "filled"}
Revised(answer) == IF answer = "empty" THEN "filled" ELSE "second"

(* The feedback on the catalog that the planner read in a question: none,  *)
(* a proposal without content, one with it.                                *)
Feedback == {"none", "bare", "full"}
Plan == {"none", "no_files", "literal", "out_of_scope", "clarify", "direct", "sql"}
Node == {"files", "scope", "sql", "streaming", "critic", "persist"}

Idle == [pc |-> "idle", q |-> Nobody, plan |-> "none", feedback |-> "none",
         answer |-> "none", left |-> 0, then |-> "none"]

Token == [type |-> "token", answer |-> "none"]
Final(answer) == [type |-> "final", answer |-> answer]
Error == [type |-> "error", answer |-> "none"]
Done == [type |-> "done", answer |-> "none"]

Event == [type : {"token", "final", "error", "done"}, answer : Answer]
State == [q : Question, answer : Answer]
Doc == [q : Question, plan : Plan, feedback : Feedback, answer : Answer]

(* The domains; an idle server has no question, a busy one has one whose   *)
(* connection is open.                                                     *)
AgentTypeOK ==
  /\ run \in [pc : Node \cup {"idle", "log", "final", "error", "bye"},
              q : Question \cup {Nobody}, plan : Plan,
              feedback : Feedback, answer : Answer,
              left : 0..Chunks, then : {"none", "critic?", "persist", "log"}]
  /\ conn \in [Question -> {"none", "queued", "open", "ended", "reset", "cut"}]
  /\ wire \in [Question -> Seq(Event)]
  /\ gone \subseteq Question
  /\ pending \in Question \cup {Nobody}
  /\ memory \in Seq(State) /\ Len(memory) <= MaxStates
  /\ log \in Seq(Doc)
  /\ crashes \in 0..MaxCrashes
  /\ \A q \in Question : conn[q] = "open" <=> run.q = q

AgentInit ==
  /\ run = Idle
  /\ conn = [q \in Question |-> "none"]
  /\ wire = [q \in Question |-> <<>>]
  /\ gone = {}
  /\ pending = Nobody
  /\ memory = <<>>
  /\ log = <<>>
  /\ crashes = 0

At(pc) == run.pc = pc
Goto(pc) == run' = [run EXCEPT !.pc = pc]

(* A write to a connection that the caller has closed is lost, unless it   *)
(* fails, which is one of the reasons to Raise.                            *)
Send(e) == wire' = IF run.q \in gone THEN wire ELSE [wire EXCEPT ![run.q] = Append(@, e)]

(* The run has an answer, streams it and goes on with the node `then`.     *)
(* What is streamed is the answer as it was composed; an empty one has no  *)
(* piece.                                                                  *)
Stream(answer, then) ==
  run' = [run EXCEPT !.pc = "streaming", !.answer = answer, !.then = then,
                     !.left = IF answer = "empty" THEN 0 ELSE Chunks]

-----------------------------------------------------------------------------
(* The server takes a connection and sends the headers. *)
Accept(q) ==
  /\ At("idle")
  /\ conn[q] = "queued"
  /\ conn' = [conn EXCEPT ![q] = "open"]
  /\ run' = [Idle EXCEPT !.pc = "files", !.q = q]
  /\ UNCHANGED <<wire, gone, pending, memory, log, crashes>>

(* check_available_files: without a file the model is asked for the text,  *)
(* which is streamed, and the graph ends.                                  *)
NoFiles ==
  /\ At("files")
  /\ run' = [run EXCEPT !.pc = "streaming", !.plan = "no_files", !.answer = "first",
                        !.left = Chunks, !.then = "log"]
  /\ UNCHANGED <<conn, wire, gone, pending, memory, log, crashes>>

(* resolve_and_profile: the workspace, its profiles and the session row,   *)
(* the plan, and whether the planner read feedback on the catalog in the   *)
(* question.  It changes the course of two plans only and is left out of   *)
(* the others; a proposal without content is never applied, so that a      *)
(* clarification tells it from none as little.                             *)
ResolveAndProfile ==
  /\ At("files")
  /\ \E plan \in Plan \ {"none", "no_files"}, feedback \in Feedback :
       /\ feedback = "full" => plan \in {"direct", "clarify"}
       /\ feedback = "bare" => plan = "direct"
       /\ run' = [run EXCEPT !.pc = "scope", !.plan = plan, !.feedback = feedback]
  /\ UNCHANGED <<conn, wire, gone, pending, memory, log, crashes>>

(* check_question_scope, one action for each of its returns.               *)

(* Literal metadata was answered from the profiles: nothing is streamed.   *)
ScopeLiteral ==
  /\ At("scope") /\ run.plan = "literal"
  /\ run' = [run EXCEPT !.pc = "log", !.answer = "first"]
  /\ UNCHANGED <<conn, wire, gone, pending, memory, log, crashes>>

(* Mutant: a question out of scope settles the clarification, too. *)
ScopeOutSettles ==
  /\ At("scope") /\ run.plan = "out_of_scope"
  /\ pending' = Nobody
  /\ Stream("first", "log")
  /\ UNCHANGED <<conn, wire, gone, memory, log, crashes>>

ScopeOut ==
  /\ At("scope") /\ run.plan = "out_of_scope"
  /\ Stream("first", "log")
  /\ UNCHANGED <<conn, wire, gone, pending, memory, log, crashes>>

(* The clarification is saved before its question is streamed; feedback    *)
(* that the user stated outright was applied, and the note that says so is *)
(* put before the answer of the state only.                                *)
ScopeClarify ==
  /\ At("scope") /\ run.plan = "clarify"
  /\ pending' = run.q
  /\ \E answer \in {"first"} \cup (IF run.feedback = "full" THEN {"second"} ELSE {}) :
       Stream(answer, "log")
  /\ UNCHANGED <<conn, wire, gone, memory, log, crashes>>

(* Any other plan settles a clarification, before it is carried out.  A    *)
(* proposal is taken to the last node whether it has content or not.       *)
ScopeDirect ==
  /\ At("scope") /\ run.plan = "direct"
  /\ pending' = Nobody
  /\ Stream("first", IF run.feedback # "none" THEN "persist" ELSE "log")
  /\ UNCHANGED <<conn, wire, gone, memory, log, crashes>>

(* Mutant: a question that needs SQL leaves the clarification pending. *)
ScopeSqlKeepsPending ==
  /\ At("scope") /\ run.plan = "sql"
  /\ Goto("sql")
  /\ UNCHANGED <<conn, wire, gone, pending, memory, log, crashes>>

ScopeSql ==
  /\ At("scope") /\ run.plan = "sql"
  /\ pending' = Nobody
  /\ Goto("sql")
  /\ UNCHANGED <<conn, wire, gone, memory, log, crashes>>

(* generate_sql, validate_sql, execute_sql (SqlGeneration has their steps, *)
(* none of which touches what is modelled here) and compose_answer: the    *)
(* model may give no text, or nothing but code, which is cut out.          *)
AnswerFromSql ==
  /\ At("sql")
  /\ \E answer \in {"first", "empty"} : Stream(answer, "critic?")
  /\ UNCHANGED <<conn, wire, gone, pending, memory, log, crashes>>

(* _emit_tokens, a piece at a time. *)
StreamToken ==
  /\ At("streaming") /\ run.left > 0
  /\ Send(Token)
  /\ run' = [run EXCEPT !.left = @ - 1]
  /\ UNCHANGED <<conn, gone, pending, memory, log, crashes>>

(* The edge that follows.  The answer to a simple statement that passed at *)
(* the first attempt goes unreviewed; which ones are simple is left open.  *)
Streamed ==
  /\ At("streaming") /\ run.left = 0
  /\ \E node \in (IF run.then = "critic?" THEN {"critic", "persist"} ELSE {run.then}) :
       run' = [run EXCEPT !.pc = node, !.then = "none"]
  /\ UNCHANGED <<conn, wire, gone, pending, memory, log, crashes>>

(* Mutant: a revised answer is streamed and reviewed again. *)
CritiqueStreams ==
  /\ At("critic")
  /\ \/ run' = [run EXCEPT !.pc = "persist"]
     \/ Stream("second", "critic?")
  /\ UNCHANGED <<conn, wire, gone, pending, memory, log, crashes>>

(* critique_answer: approved, or replaced in the state. *)
CritiqueAnswer ==
  /\ At("critic")
  /\ \E answer \in {run.answer, Revised(run.answer)} :
       run' = [run EXCEPT !.pc = "persist", !.answer = answer]
  /\ UNCHANGED <<conn, wire, gone, pending, memory, log, crashes>>

(* A run without SQL is remembered for the content of its feedback: of a   *)
(* proposal without any no state is built, and nothing is stored.          *)
Remembers(doc) == doc.plan = "sql" \/ (doc.plan = "direct" /\ doc.feedback = "full")
Newest == Append(memory, [q |-> run.q, answer |-> run.answer])

(* Mutant: the prune orders the states the other way round. *)
PersistKeepsOldest ==
  /\ At("persist")
  /\ memory' = IF Remembers(run)
               THEN IF Len(Newest) > MaxStates THEN Front(Newest) ELSE Newest
               ELSE memory
  /\ Goto("log")
  /\ UNCHANGED <<conn, wire, gone, pending, log, crashes>>

(* persist_analysis_state: insert and prune in one transaction, the newest *)
(* states stay.                                                            *)
PersistAnalysisState ==
  /\ At("persist")
  /\ memory' = IF Remembers(run)
               THEN IF Len(Newest) > MaxStates THEN Tail(Newest) ELSE Newest
               ELSE memory
  /\ Goto("log")
  /\ UNCHANGED <<conn, wire, gone, pending, log, crashes>>

(* Mutant: a run that fails is tried again, for as long as it fails. *)
RaiseRetries ==
  /\ run.pc \in Node
  /\ run' = [Idle EXCEPT !.pc = "files", !.q = run.q]
  /\ UNCHANGED <<conn, wire, gone, pending, memory, log, crashes>>

(* The language model, Postgres, DuckDB, S3 or the write to a connection   *)
(* that LibreChat has closed: any of them ends the run, as does a          *)
(* statement that is still refused after its repair.  What the run had is  *)
(* lost; what it saved stays.                                              *)
Raise ==
  /\ run.pc \in Node
  /\ run' = [Idle EXCEPT !.pc = "error", !.q = run.q]
  /\ UNCHANGED <<conn, wire, gone, pending, memory, log, crashes>>

-----------------------------------------------------------------------------
(* The end of AnalyticalAgent.run and of _handle_stream_run *)

Entry ==
  [q |-> run.q, plan |-> run.plan, feedback |-> run.feedback, answer |-> run.answer]

SaveRun ==
  /\ At("log")
  /\ log' = Append(log, Entry)
  /\ Goto("final")
  /\ UNCHANGED <<conn, wire, gone, pending, memory, crashes>>

(* Mutant: the insert is tried again, for as long as it fails. *)
SaveRunRetries ==
  /\ At("log")
  /\ log' \in {log, Append(log, Entry)}
  /\ UNCHANGED <<run, conn, wire, gone, pending, memory, crashes>>

(* Mongo fails, perhaps after it has inserted the document: the except     *)
(* branch takes the run for a failed one.                                  *)
SaveRunFails ==
  /\ At("log")
  /\ log' \in {log, Append(log, Entry)}
  /\ run' = [Idle EXCEPT !.pc = "error", !.q = run.q]
  /\ UNCHANGED <<conn, wire, gone, pending, memory, crashes>>

SendFinal ==
  /\ At("final")
  /\ Send(Final(run.answer))
  /\ Goto("bye")
  /\ UNCHANGED <<conn, gone, pending, memory, log, crashes>>

SendError ==
  /\ At("error")
  /\ Send(Error)
  /\ Goto("bye")
  /\ UNCHANGED <<conn, gone, pending, memory, log, crashes>>

(* Mutant: the connection is kept for a next request. *)
SendDoneKeepAlive ==
  /\ At("bye")
  /\ Send(Done)
  /\ run' = Idle
  /\ UNCHANGED <<conn, gone, pending, memory, log, crashes>>

SendDone ==
  /\ At("bye")
  /\ Send(Done)
  /\ conn' = [conn EXCEPT ![run.q] = "ended"]
  /\ run' = Idle
  /\ UNCHANGED <<gone, pending, memory, log, crashes>>

(* The server process dies: the stream it was writing ends where it was,   *)
(* the connections that waited are reset.                                  *)
Crash ==
  /\ crashes < MaxCrashes
  /\ crashes' = crashes + 1
  /\ conn' = [q \in Question |-> CASE conn[q] = "open" -> "cut"
                                   [] conn[q] = "queued" -> "reset"
                                   [] OTHER -> conn[q]]
  /\ run' = Idle
  /\ UNCHANGED <<wire, gone, pending, memory, log>>

(* The step that a busy server takes. *)
Work ==
  \/ NoFiles \/ ResolveAndProfile
  \/ ScopeLiteral \/ ScopeOut \/ ScopeClarify \/ ScopeDirect \/ ScopeSql
  \/ AnswerFromSql \/ StreamToken \/ Streamed \/ CritiqueAnswer
  \/ PersistAnalysisState \/ Raise
  \/ SaveRun \/ SaveRunFails \/ SendFinal \/ SendError \/ SendDone

Agent == Work \/ \E q \in Question : Accept(q)
=============================================================================
