------------------------------ MODULE ChatTurn ------------------------------
(***************************************************************************)
(* AgentRun composed with its caller: for each question, the part of the   *)
(* direct controller of LibreChat that calls the agent, reads its stream   *)
(* and saves the answer that the user goes on to see.                      *)
(***************************************************************************)
EXTENDS AgentRun

VARIABLE chat   \* each question in LibreChat

vars == <<agentVars, chat>>

Unasked == [pc |-> "idle", got |-> 0, final |-> "none", text |-> "none"]

(* The domains; what is saved as text, besides an answer, is a part of it. *)
TypeOK ==
  /\ AgentTypeOK
  /\ chat \in [Question -> [pc : {"idle", "reading", "saved", "failed"},
                            got : 0..Chunks, final : Answer,
                            text : Answer \cup {"part"}]]

Init == AgentInit /\ chat = [q \in Question |-> Unasked]

(* The fetch: the connection waits for the server. *)
Ask(q) ==
  /\ chat[q].pc = "idle"
  /\ chat' = [chat EXCEPT ![q].pc = "reading"]
  /\ conn' = [conn EXCEPT ![q] = "queued"]
  /\ UNCHANGED <<run, wire, gone, pending, memory, log, crashes>>

(* The controller throws: the connection is closed, what it brought or     *)
(* would bring is not read any more.                                       *)
HangUp(q) ==
  /\ chat' = [chat EXCEPT ![q] = [Unasked EXCEPT !.pc = "failed"]]
  /\ wire' = [wire EXCEPT ![q] = <<>>]
  /\ gone' = gone \cup {q}

(* Mutant: the answer of the final event goes before the tokens. *)
SaveFinal(q) ==
  LET turn == chat[q]
      tokens == IF turn.got = Chunks THEN "first" ELSE "part"
  IN chat' = [chat EXCEPT ![q] =
       [Unasked EXCEPT !.pc = "saved", !.text = IF turn.final # "none" THEN turn.final ELSE tokens]]

(* The stream is over and the text is saved: what the tokens add up to, or *)
(* the answer of the final event if there was no token; "none" stands for  *)
(* the apology where no answer came at all.                                *)
SaveAnswer(q) ==
  LET turn == chat[q]
      tokens == IF turn.got = Chunks THEN "first" ELSE "part"
  IN chat' = [chat EXCEPT ![q] =
       [Unasked EXCEPT !.pc = "saved", !.text = IF turn.got = 0 THEN turn.final ELSE tokens]]

(* handleAnalitricsStreamEvent, for one event.                             *)
(* Mutant: it has no case for an error. *)
ReadIgnoresError(q) ==
  /\ chat[q].pc = "reading"
  /\ wire[q] # <<>>
  /\ LET e == Head(wire[q])
     IN /\ wire' = [wire EXCEPT ![q] = Tail(@)]
        /\ \/ e.type = "token" /\ chat' = [chat EXCEPT ![q].got = @ + 1]
           \/ e.type = "final" /\ chat' = [chat EXCEPT ![q].final = e.answer]
           \/ e.type = "done" /\ SaveAnswer(q)
           \/ e.type = "error" /\ chat' = chat
  /\ UNCHANGED <<run, conn, gone, pending, memory, log, crashes>>

Read(q) ==
  /\ chat[q].pc = "reading"
  /\ wire[q] # <<>>
  /\ LET e == Head(wire[q])
     IN IF e.type = "error" THEN HangUp(q)
        ELSE /\ wire' = [wire EXCEPT ![q] = Tail(@)]
             /\ gone' = gone
             /\ \/ e.type = "token" /\ chat' = [chat EXCEPT ![q].got = @ + 1]
                \/ e.type = "final" /\ chat' = [chat EXCEPT ![q].final = e.answer]
                \/ e.type = "done" /\ SaveAnswer(q)
  /\ UNCHANGED <<run, conn, pending, memory, log, crashes>>

(* A stream that was cut ends like any other: there is no length to miss.  *)
ReadEnd(q) ==
  /\ chat[q].pc = "reading"
  /\ wire[q] = <<>>
  /\ conn[q] \in {"ended", "cut"}
  /\ SaveAnswer(q)
  /\ UNCHANGED agentVars

(* A fetch or a read that is reset rejects, as does one that Stop or a     *)
(* newer question of the chat aborts.                                      *)
FetchFails(q) ==
  /\ chat[q].pc = "reading"
  /\ conn[q] \in {"reset", "cut"}
  /\ HangUp(q)
  /\ UNCHANGED <<run, conn, pending, memory, log, crashes>>

Abort(q) ==
  /\ chat[q].pc = "reading"
  /\ HangUp(q)
  /\ UNCHANGED <<run, conn, pending, memory, log, crashes>>

Controller(q) == Read(q) \/ ReadEnd(q) \/ FetchFails(q)

Next ==
  \/ (Work \/ \E q \in Question : Accept(q)) /\ UNCHANGED chat
  \/ Crash /\ UNCHANGED chat
  \/ \E q \in Question : Ask(q) \/ Abort(q) \/ Controller(q)

Spec == Init /\ [][Next]_vars

(* The server thread runs while it has something to do, and Node resumes   *)
(* its reads.  Nothing obliges a user to ask or to stop.                   *)
FairSpec ==
  /\ Spec
  /\ WF_vars(Agent /\ UNCHANGED chat)
  /\ \A q \in Question : WF_vars(Controller(q))
-----------------------------------------------------------------------------
(* Refinement                                                              *)

Promise == INSTANCE ChatPromise WITH
  Text   <- Answer \cup {"part"},
  Good   <- Answer \ {"none"},
  phase  <- [q \in Question |-> chat[q].pc],
  told   <- [q \in Question |-> IF chat[q].pc = "saved" THEN chat[q].text ELSE "none"],
  record <- [i \in DOMAIN log |-> log[i].q],
  torn   <- {q \in Question : conn[q] = "cut"}

(* The controller and the agent together implement ChatPromise: one answer *)
(* or one failure to a question, one record of it, in that order.          *)
ChatPromiseKept == Promise!AbsSpec

-----------------------------------------------------------------------------
(* Properties                                                              *)

(* A clarification stays pending over questions that did not touch the     *)
(* data, but never over one that was answered from them: the planner would *)
(* read a later question as the reply to an ambiguity that is settled.     *)
PendingIsOpen ==
  \A i \in DOMAIN log : log[i].q = pending =>
    \A j \in DOMAIN log : j > i => log[j].plan \in {"no_files", "literal", "out_of_scope"}

Settling == {"clarify", "direct", "sql"}
Unlogged(q) == \A j \in DOMAIN log : log[j].q # q

(* A clarification is not lost in silence: when it is pending no more, a   *)
(* later question was answered in its place, is being answered, or failed. *)
UnansweredIsPending ==
  \A i \in DOMAIN log : log[i].plan = "clarify" =>
    \/ pending = log[i].q
    \/ \E j \in DOMAIN log : j > i /\ log[j].plan \in Settling
    \/ \E q \in Question : conn[q] \in {"ended", "cut"} /\ Unlogged(q)
    \/ ~At("idle") /\ Unlogged(run.q) /\ (run.plan \in Settling \/ run.pc \in {"error", "bye"})

Remembered == {i \in DOMAIN log : Remembers(log[i])}
InMemory(i) == [q |-> log[i].q, answer |-> log[i].answer] \in Range(memory)

(* What the next planner is given is the newest of what was logged: an     *)
(* answer is left out only for newer ones, and both tell the same answer.  *)
MemoryKeepsUp ==
  \A i \in Remembered :
    /\ ~InMemory(i) => Len(memory) = MaxStates
    /\ InMemory(i) => \A j \in Remembered : j > i => InMemory(j)

(* What is saved as an answer is a whole one that the agent has logged as  *)
(* good, unless the server died while it was streaming it.                 *)
SavedIsWhole ==
  \A q \in Question : (chat[q].pc = "saved" /\ conn[q] # "cut") =>
    /\ chat[q].text \in Answer \ {"none"}
    /\ \E i \in DOMAIN log : log[i].q = q

(* The text that stays in the chat is the one that the browser showed      *)
(* while it came, the answer as it was composed, although the final event  *)
(* brings another one when the critic or a note has changed it.  Only what *)
(* was composed of no text, and so showed nothing, is taken from there: it *)
(* stays empty, or is what the critic has filled in.                       *)
ShownIsComposed ==
  \A q \in Question : \A i \in DOMAIN log :
    (log[i].q = q /\ chat[q].pc = "saved" /\ conn[q] # "cut")
      => chat[q].text = IF log[i].answer = "second" THEN "first" ELSE log[i].answer

(* The steps that the question being run may still take.                   *)
RunLeft ==
  CASE At("idle") -> 0
    [] At("bye") -> 1
    [] run.pc \in {"final", "error"} -> 2
    [] At("log") -> 3
    [] At("persist") -> 4
    [] At("critic") -> 5
    [] At("streaming") -> 6 + run.left
    [] At("sql") -> 7 + Chunks
    [] At("scope") -> 8 + Chunks
    [] At("files") -> 9 + Chunks

(* Every step of the server's thread brings the question that it runs      *)
(* nearer to its end, so that those that wait get their turn: no failure   *)
(* of a node, of Mongo or of a write makes it begin again.                 *)
RunsRunOut == [][Work => RunLeft' < RunLeft]_vars

(* Every question that is sent to the agent gets its answer or its error,  *)
(* although one thread serves them all and may die.                        *)
TurnEnds ==
  \A q \in Question : chat[q].pc = "reading" ~> chat[q].pc \in {"saved", "failed"}

(* What the documents say of the critic: it comes before the end of the    *)
(* graph, so that its revision is the answer.  The user is shown the       *)
(* answer that the log and the memory of the conversation hold.            *)
ShownIsLogged ==
  \A q \in Question : \A i \in DOMAIN log :
    (log[i].q = q /\ log[i].plan = "sql" /\ chat[q].pc = "saved" /\ conn[q] # "cut")
      => chat[q].text = log[i].answer
=============================================================================
