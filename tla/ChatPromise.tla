---------------------------- MODULE ChatPromise ----------------------------
(***************************************************************************)
(* What a chat promises to the one who asks, without threads, streams or   *)
(* nodes: a question is answered or fails once; the answer is a whole one  *)
(* of a question that the agent has recorded, unless the server was lost   *)
(* while it gave it; and the agent records a question once, whatever       *)
(* becomes of the one who asked, and never after it was lost.              *)
(***************************************************************************)
EXTENDS Sequences, SequencesExt

CONSTANTS
  Question,
  Text,      \* what can be told, the parts of an answer and "none" included
  Good       \* the whole answers

VARIABLES
  phase,    \* [Question -> {"idle", "reading", "saved", "failed"}]
  told,     \* [Question -> Text]
  record,   \* the questions that the agent has answered, in order
  torn      \* the questions whose answer a crash of the server cut short

absVars == <<phase, told, record, torn>>

AbsInit ==
  /\ phase = [q \in Question |-> "idle"]
  /\ told = [q \in Question |-> "none"]
  /\ record = <<>>
  /\ torn = {}

Put(q) ==
  /\ phase[q] = "idle"
  /\ phase' = [phase EXCEPT ![q] = "reading"]
  /\ UNCHANGED <<told, record, torn>>

Record(q) ==
  /\ phase[q] \in {"reading", "failed"}
  /\ q \notin torn \cup Range(record)
  /\ record' = Append(record, q)
  /\ UNCHANGED <<phase, told, torn>>

Answer(q) ==
  /\ phase[q] = "reading"
  /\ phase' = [phase EXCEPT ![q] = "saved"]
  /\ \E text \in Text :
       /\ q \in torn \/ (text \in Good /\ q \in Range(record))
       /\ told' = [told EXCEPT ![q] = text]
  /\ UNCHANGED <<record, torn>>

Fail(q) ==
  /\ phase[q] = "reading"
  /\ phase' = [phase EXCEPT ![q] = "failed"]
  /\ UNCHANGED <<told, record, torn>>

(* One thread: a crash cuts one answer short. *)
Tear(q) ==
  /\ phase[q] \in {"reading", "failed"}
  /\ torn' = torn \cup {q}
  /\ UNCHANGED <<phase, told, record>>

AbsNext == \E q \in Question : Put(q) \/ Record(q) \/ Answer(q) \/ Fail(q) \/ Tear(q)

AbsSpec == AbsInit /\ [][AbsNext]_absVars
=============================================================================
