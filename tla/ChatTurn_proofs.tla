--------------------------- MODULE ChatTurn_proofs ---------------------------
(***************************************************************************)
(* Proofs about ChatTurn, for any number of questions, pieces, states and  *)
(* crashes.                                                                *)
(***************************************************************************)
EXTENDS ChatTurn, TLAPS

Logged(q) == \E i \in DOMAIN log : log[i].q = q
LoggedAs(q, answer) == Logged(q) /\ \A i \in DOMAIN log : log[i].q = q => log[i].answer = answer
Good == {"first", "second", "empty", "filled"}
Busy == Node \cup {"log"}
Carried == {"sql", "streaming", "critic", "persist", "log"}

(* A question is asked once, accepted once and logged once.                *)
Calls ==
  /\ run.pc = "idle" <=> run.q = Nobody
  /\ run.pc \in Busy => ~Logged(run.q)
  /\ run.pc = "final" => LoggedAs(run.q, run.answer)
  /\ \A q \in Question :
       /\ chat[q].pc = "idle" =>
            chat[q] = Unasked /\ conn[q] = "none" /\ wire[q] = <<>> /\ q \notin gone
       /\ conn[q] \in {"none", "queued"} => ~Logged(q)
       /\ chat[q].pc = "reading" => q \notin gone
       /\ chat[q].pc = "saved" => conn[q] \in {"ended", "cut"}

(* From the scope on, the plan has settled the clarification or opened it. *)
Settled ==
  run.pc \in Carried =>
    /\ run.plan # "none"
    /\ run.plan \in {"direct", "sql"} => pending = Nobody
    /\ run.plan = "clarify" => pending = run.q
    /\ run.pc = "streaming" => run.then # "none"

StateOf(doc) == [q |-> doc.q, answer |-> doc.answer]

(* The states are in the order of the log, the newest at the end.          *)
Ordered ==
  /\ \A i \in Remembered : ~InMemory(i) => Len(memory) = MaxStates
  /\ \A i, j \in Remembered : i < j =>
       \A a \in DOMAIN memory : memory[a] = StateOf(log[i]) =>
         \E b \in DOMAIN memory : b > a /\ memory[b] = StateOf(log[j])

(* The state of a run is in before the run is logged.                      *)
Route ==
  /\ run.pc = "streaming" /\ run.then = "log" => ~Remembers(run)
  /\ run.pc = "log" /\ Remembers(run) =>
       memory # <<>> /\ memory[Len(memory)] = StateOf(run)

(* The tokens come first.                                                  *)
Tokens(s, k) == k \in 0..Len(s) /\ \A i \in DOMAIN s : s[i].type = "token" <=> i <= k

(* The pieces that an answer is streamed in, and those that the user may   *)
(* have got of it once it is final: an answer from metadata has none.      *)
Pieces(answer) == IF answer \in {"empty", "filled"} THEN 0 ELSE Chunks
Fits(n, answer) == n = Pieces(answer) \/ (n = 0 /\ answer = "first")

(* What a browser has read and has to read, while its question is run.     *)
Running(q, s, turn, k) ==
  /\ conn[q] \in {"none", "queued", "reset"} => s = <<>> /\ turn.got = 0 /\ turn.final = "none"
  /\ run.q = q =>
       /\ run.pc \in {"files", "scope", "sql"} => s = <<>> /\ turn.got = 0
       /\ run.pc \in {"streaming", "critic"} => run.answer \in Good \ {"filled"}
       /\ run.pc \in {"persist", "log", "final"} => run.answer \in Good
       /\ run.pc = "streaming" => turn.got + k + run.left = Pieces(run.answer)
       /\ run.pc = "critic" => turn.got + k = Pieces(run.answer)
       /\ run.pc \in {"persist", "log", "final"} => Fits(turn.got + k, run.answer)
       /\ run.pc # "bye" => Len(s) = k /\ turn.final = "none"
       /\ run.pc = "bye" => \A i \in DOMAIN s : s[i].type # "done"

(* And once it has ended: an error, with nothing but tokens before it, or  *)
(* the whole answer that was logged.                                       *)
Failed(s) == \E i \in DOMAIN s : s[i].type = "error" /\ \A j \in 1..(i - 1) : s[j].type = "token"
WholeAs(s, turn, k, answer) ==
  /\ Fits(turn.got + k, answer)
  /\ turn.final \in {"none", answer}
  /\ \A i \in DOMAIN s : s[i].type = "final" => s[i].answer = answer
  /\ turn.got + k = 0 => turn.final = answer \/ (s # <<>> /\ s[1].type = "final")
Whole(q, s, turn, k) == \E answer \in Good : LoggedAs(q, answer) /\ WholeAs(s, turn, k, answer)

Wired(q, s, turn, k) ==
  /\ Tokens(s, k) /\ turn.got + k <= Chunks
  /\ \A i \in DOMAIN s : s[i].type = "final" => s[i].answer \in Good
  /\ Running(q, s, turn, k)
  /\ conn[q] = "ended" \/ (run.q = q /\ run.pc = "bye") => Failed(s) \/ Whole(q, s, turn, k)

Streams ==
  \A q \in Question : chat[q].pc = "reading" => \E k \in Nat : Wired(q, wire[q], chat[q], k)

Saved == SavedIsWhole /\ ShownIsComposed

IInv == TypeOK /\ Calls /\ Settled /\ PendingIsOpen /\ Ordered /\ Route /\ Streams /\ Saved
-----------------------------------------------------------------------------
(* The domains                                                             *)

RunState == [pc : Node \cup {"idle", "log", "final", "error", "bye"},
             q : Question \cup {Nobody}, plan : Plan,
             feedback : Feedback, answer : Answer,
             left : 0..Chunks, then : {"none", "critic?", "persist", "log"}]
Connection == {"none", "queued", "open", "ended", "reset", "cut"}
Turn == [pc : {"idle", "reading", "saved", "failed"}, got : 0..Chunks, final : Answer,
         text : Answer \cup {"part"}]
Events == [Question -> Seq(Event)]

LEMMA TypeNow ==
  ASSUME TypeOK
  PROVE  /\ run \in RunState /\ conn \in [Question -> Connection] /\ wire \in Events
         /\ gone \subseteq Question /\ pending \in Question \cup {Nobody}
         /\ memory \in Seq(State) /\ Len(memory) <= MaxStates /\ log \in Seq(Doc)
         /\ crashes \in 0..MaxCrashes /\ chat \in [Question -> Turn]
         /\ \A q \in Question : conn[q] = "open" <=> run.q = q
BY DEF TypeOK, AgentTypeOK, RunState, Connection, Turn, Events

LEMMA TypeParts ==
  ASSUME run' \in RunState, conn' \in [Question -> Connection], wire' \in Events,
         gone' \subseteq Question, pending' \in Question \cup {Nobody},
         memory' \in Seq(State), Len(memory') <= MaxStates, log' \in Seq(Doc),
         crashes' \in 0..MaxCrashes, chat' \in [Question -> Turn],
         \A q \in Question : conn'[q] = "open" <=> run'.q = q
  PROVE  TypeOK'
BY DEF TypeOK, AgentTypeOK, RunState, Connection, Turn, Events

(* The run as it is left idle, failed or begun, for any question.          *)
Fresh(pc, q) == [Idle EXCEPT !.pc = pc, !.q = q]

LEMMA IdleRun ==
  \E no \in Feedback :
    /\ Idle = [pc |-> "idle", q |-> Nobody, plan |-> "none", feedback |-> no,
               answer |-> "none", left |-> 0, then |-> "none"]
    /\ Idle \in RunState /\ Idle.q = Nobody /\ Idle.pc = "idle"
<1> DEFINE no == "none"
<1>1. /\ no \in Feedback
      /\ Idle = [pc |-> "idle", q |-> Nobody, plan |-> "none", feedback |-> no,
                 answer |-> "none", left |-> 0, then |-> "none"]
  BY DEF Idle, Feedback
<1> HIDE DEF no
<1>2. 0 \in 0..Chunks
  BY ChunksAssumption
<1>3. Idle \in RunState /\ Idle.q = Nobody /\ Idle.pc = "idle"
  BY <1>1, <1>2 DEF RunState, Node, Plan, Answer
<1> QED BY <1>1, <1>3

LEMMA FreshRun ==
  ASSUME NEW q \in Question \cup {Nobody}, NEW pc \in {"idle", "files", "error"}
  PROVE  Fresh(pc, q) \in RunState /\ Fresh(pc, q).pc = pc /\ Fresh(pc, q).q = q
<1>1. Idle \in RunState
  BY IdleRun
<1> QED BY <1>1 DEF Fresh, RunState, Node

LEMMA TypeInit == Init => TypeOK
<1> SUFFICES ASSUME Init PROVE TypeOK
  OBVIOUS
<1>1. run \in RunState /\ run.q = Nobody
  BY IdleRun DEF Init, AgentInit
<1>2. Unasked \in Turn
  BY ChunksAssumption DEF Unasked, Turn, Answer
<1>3. conn \in [Question -> Connection] /\ \A q \in Question : conn[q] = "none"
  BY DEF Init, AgentInit, Connection
<1>4. wire \in Events /\ chat \in [Question -> Turn]
  BY <1>2 DEF Init, AgentInit, Events
<1>5. /\ gone = {} /\ pending = Nobody /\ memory = <<>> /\ log = <<>> /\ crashes = 0
  BY DEF Init, AgentInit
<1>6. memory \in Seq(State) /\ Len(memory) <= MaxStates /\ log \in Seq(Doc)
      /\ crashes \in 0..MaxCrashes
  BY <1>5, StatesAssumption, CrashAssumption
<1> QED BY <1>1, <1>3, <1>4, <1>5, <1>6, NobodyAssumption
   DEF TypeOK, AgentTypeOK, RunState, Connection, Turn, Events

(* An event goes to the end of what its browser has still to read.         *)
LEMMA Sends ==
  ASSUME TypeOK, NEW e \in Event, run.q \in Question, Send(e)
  PROVE  /\ wire' \in Events
         /\ \A q \in Question \ {run.q} : wire'[q] = wire[q]
         /\ run.q \notin gone => wire'[run.q] = Append(wire[run.q], e)
         /\ run.q \in gone => wire' = wire
BY TypeNow DEF Send, Events

LEMMA EventTypes ==
  /\ Token \in Event /\ Error \in Event /\ Done \in Event
  /\ \A answer \in Answer : Final(answer) \in Event
BY DEF Token, Error, Done, Final, Event, Answer

(* The steps of a run that leave the connections alone, with what they do  *)
(* to the run.                                                             *)
Thinks ==
  \/ NoFiles \/ ResolveAndProfile \/ ScopeLiteral \/ ScopeOut \/ ScopeClarify \/ ScopeDirect
  \/ ScopeSql \/ AnswerFromSql \/ Streamed \/ CritiqueAnswer \/ Raise

LEMMA ThinksLeaves ==
  ASSUME Thinks
  PROVE  UNCHANGED <<conn, wire, gone, memory, log, crashes>> /\ run.pc \in Node
BY DEF Thinks, NoFiles, ResolveAndProfile, ScopeLiteral, ScopeOut, ScopeClarify, ScopeDirect,
       ScopeSql, AnswerFromSql, Streamed, CritiqueAnswer, Raise, At, Node

(* The steps that begin to stream an answer.                               *)
LEMMA StreamCases ==
  ASSUME ScopeOut \/ ScopeClarify \/ ScopeDirect \/ AnswerFromSql
  PROVE  /\ run.pc \in {"scope", "sql"}
         /\ \E answer \in {"first", "second", "empty"}, then \in {"log", "persist", "critic?"} :
              run' = [run EXCEPT !.pc = "streaming", !.answer = answer, !.then = then,
                                 !.left = IF answer = "empty" THEN 0 ELSE Chunks]
<1>1. CASE ScopeOut
  BY <1>1 DEF ScopeOut, At, Stream
<1>2. CASE ScopeClarify
  BY <1>2 DEF ScopeClarify, At, Stream
<1>3. CASE ScopeDirect
  BY <1>3 DEF ScopeDirect, At, Stream
<1>4. CASE AnswerFromSql
  BY <1>4 DEF AnswerFromSql, At, Stream
<1> QED BY <1>1, <1>2, <1>3, <1>4

LEMMA ThinksRun ==
  ASSUME TypeOK, Calls, Settled, Thinks
  PROVE  run' \in RunState /\ run'.q = run.q /\ run'.pc \in Busy \cup {"error"}
<1>0. run \in RunState /\ Chunks \in 0..Chunks
  BY TypeNow, ChunksAssumption
<1> USE <1>0 DEF At, Goto, Stream, Busy
<1>1. CASE NoFiles
  <2>1. run' = [run EXCEPT !.pc = "streaming", !.plan = "no_files", !.answer = "first",
                           !.left = Chunks, !.then = "log"]
    BY <1>1 DEF NoFiles
  <2> QED BY <2>1 DEF RunState, Node, Plan, Answer
<1>2. CASE ResolveAndProfile
  <2> PICK plan \in Plan \ {"none", "no_files"}, feedback \in Feedback :
        run' = [run EXCEPT !.pc = "scope", !.plan = plan, !.feedback = feedback]
    BY <1>2 DEF ResolveAndProfile
  <2> QED BY DEF RunState, Node
<1>3. CASE ScopeLiteral
  <2>1. run' = [run EXCEPT !.pc = "log", !.answer = "first"]
    BY <1>3 DEF ScopeLiteral
  <2> QED BY <2>1 DEF RunState, Answer, Node
<1>4. CASE ScopeOut \/ ScopeClarify \/ ScopeDirect \/ AnswerFromSql
  <2>1. PICK answer \in {"first", "second", "empty"}, then \in {"log", "persist", "critic?"} :
          run' = [run EXCEPT !.pc = "streaming", !.answer = answer, !.then = then,
                             !.left = IF answer = "empty" THEN 0 ELSE Chunks]
    BY <1>4, StreamCases
  <2> DEFINE left == IF answer = "empty" THEN 0 ELSE Chunks
  <2>2. left \in 0..Chunks
    BY ChunksAssumption
  <2>3. run' = [run EXCEPT !.pc = "streaming", !.answer = answer, !.then = then, !.left = left]
    BY <2>1
  <2> HIDE DEF left
  <2> QED BY <2>2, <2>3 DEF RunState, Node, Answer
<1>5. CASE ScopeSql
  <2>1. run' = [run EXCEPT !.pc = "sql"]
    BY <1>5 DEF ScopeSql
  <2> QED BY <2>1 DEF RunState, Node
<1>6. CASE Streamed
  <2>1. run.then \in {"critic?", "persist", "log"}
    BY <1>6 DEF Streamed, Settled, Carried, RunState
  <2> PICK node \in {"critic", "persist", "log"} :
        run' = [run EXCEPT !.pc = node, !.then = "none"]
    BY <1>6, <2>1 DEF Streamed
  <2> QED BY DEF RunState, Node
<1>7. CASE CritiqueAnswer
  <2> PICK answer \in {run.answer, Revised(run.answer)} :
        run' = [run EXCEPT !.pc = "persist", !.answer = answer]
    BY <1>7 DEF CritiqueAnswer
  <2> QED BY DEF RunState, Node, Answer, Revised
<1>8. CASE Raise
  <2>1. run.q \in Question \cup {Nobody} /\ run' = Fresh("error", run.q)
    BY <1>8, TypeNow DEF Raise, RunState, Fresh
  <2> QED BY <2>1, FreshRun
<1> QED BY <1>1, <1>2, <1>3, <1>4, <1>5, <1>6, <1>7, <1>8 DEF Thinks

(* The other steps of a run.                                               *)
Ends == SaveRun \/ SaveRunFails \/ SendFinal \/ SendError \/ SendDone
Agents == Thinks \/ StreamToken \/ PersistAnalysisState \/ Ends

LEMMA AgentSteps == Work => Agents
BY DEF Work, Agents, Thinks, Ends

LEMMA BusyHasQuestion ==
  ASSUME TypeOK, Calls, run.pc # "idle"
  PROVE  run.q \in Question /\ conn[run.q] = "open"
BY TypeNow DEF Calls, RunState

LEMMA StreamTokenType == ASSUME TypeOK, Calls, StreamToken PROVE run' \in RunState /\ wire' \in Events
<1>1. run.q \in Question /\ run \in RunState
  BY TypeNow, BusyHasQuestion DEF StreamToken, At
<1>2. Send(Token) /\ run' = [run EXCEPT !.left = run.left - 1] /\ run.left > 0
  BY DEF StreamToken
<1>3. run.left - 1 \in 0..Chunks
  BY <1>1, <1>2, ChunksAssumption DEF RunState
<1> QED BY <1>1, <1>2, <1>3, Sends, EventTypes DEF RunState

LEMMA PersistType ==
  ASSUME TypeOK, Calls, PersistAnalysisState
  PROVE  /\ run' \in RunState /\ run'.pc = "log"
         /\ memory' \in Seq(State) /\ Len(memory') <= MaxStates
<1> DEFINE st == [q |-> run.q, answer |-> run.answer]
           all == Append(memory, st)
<1>1. run.q \in Question /\ run \in RunState /\ memory \in Seq(State) /\ Len(memory) <= MaxStates
  BY TypeNow, BusyHasQuestion DEF PersistAnalysisState, At
<1>2. st \in State
  BY <1>1 DEF RunState, State
<1>3. memory' = memory \/ memory' = IF Len(all) > MaxStates THEN Tail(all) ELSE all
  BY DEF PersistAnalysisState, Newest
<1>4. run' = [run EXCEPT !.pc = "log"]
  BY DEF PersistAnalysisState, Goto
<1> HIDE DEF st
<1>5. all \in Seq(State) /\ Len(all) = Len(memory) + 1
  BY <1>1, <1>2
<1> HIDE DEF all
<1>6. memory' \in Seq(State) /\ Len(memory') <= MaxStates
  <2>1. Tail(all) \in Seq(State) /\ Len(Tail(all)) = Len(memory)
    BY <1>1, <1>5
  <2>2. CASE memory' = memory
    BY <1>1, <2>2
  <2>3. CASE memory' = Tail(all)
    BY <1>1, <2>1, <2>3
  <2>4. CASE memory' = all /\ ~(Len(all) > MaxStates)
    BY <1>1, <1>5, <2>4, StatesAssumption
  <2> QED BY <1>3, <2>2, <2>3, <2>4
<1> QED BY <1>1, <1>4, <1>6 DEF RunState

LEMMA EntryType == ASSUME TypeOK, Calls, run.pc = "log" PROVE Entry \in Doc /\ Entry.q = run.q
<1>1. run.q \in Question /\ run \in RunState
  BY TypeNow, BusyHasQuestion
<1> QED BY <1>1 DEF Entry, Doc, RunState

LEMMA TypeOfAgents ==
  ASSUME TypeOK, Calls, Settled, Agents, UNCHANGED chat
  PROVE  TypeOK'
<1> USE TypeNow
<1>1. CASE Thinks
  <2>1. run' \in RunState /\ run'.q = run.q
    BY <1>1, ThinksRun
  <2>2. UNCHANGED <<conn, wire, gone, memory, log, crashes>>
    BY <1>1, ThinksLeaves
  <2>3. run.q \in Question \cup {Nobody}
    BY DEF RunState
  <2>4. pending' \in Question \cup {Nobody}
    BY <1>1, <2>3 DEF Thinks, NoFiles, ResolveAndProfile, ScopeLiteral, ScopeOut, ScopeClarify, ScopeDirect,
              ScopeSql, AnswerFromSql, Streamed, CritiqueAnswer, Raise
  <2> QED BY <2>1, <2>2, <2>4, TypeParts
<1>2. CASE StreamToken
  <2>1. run' \in RunState /\ wire' \in Events
    BY <1>2, StreamTokenType
  <2>2. UNCHANGED <<conn, gone, pending, memory, log, crashes>> /\ run'.q = run.q
    BY <1>2 DEF StreamToken, RunState
  <2> QED BY <2>1, <2>2, TypeParts
<1>3. CASE PersistAnalysisState
  <2>1. run' \in RunState /\ memory' \in Seq(State) /\ Len(memory') <= MaxStates
    BY <1>3, PersistType
  <2>2. UNCHANGED <<conn, wire, gone, pending, log, crashes>> /\ run'.q = run.q
    BY <1>3 DEF PersistAnalysisState, Goto, RunState
  <2> QED BY <2>1, <2>2, TypeParts
<1>4. CASE SaveRun
  <2>1. log' \in Seq(Doc)
    BY <1>4, EntryType DEF SaveRun, At
  <2>2. run' \in RunState /\ run'.q = run.q
    BY <1>4 DEF SaveRun, Goto, RunState
  <2>3. UNCHANGED <<conn, wire, gone, pending, memory, crashes>>
    BY <1>4 DEF SaveRun
  <2> QED BY <2>1, <2>2, <2>3, TypeParts
<1>5. CASE SaveRunFails
  <2>1. log' \in Seq(Doc)
    BY <1>5, EntryType DEF SaveRunFails, At
  <2>2. run.q \in Question \cup {Nobody} /\ run' = Fresh("error", run.q)
    BY <1>5 DEF SaveRunFails, RunState, Fresh
  <2>3. UNCHANGED <<conn, wire, gone, pending, memory, crashes>>
    BY <1>5 DEF SaveRunFails
  <2> QED BY <2>1, <2>2, <2>3, FreshRun, TypeParts
<1>6. CASE SendFinal \/ SendError
  <2>1. run.q \in Question /\ run.answer \in Answer
    BY <1>6, BusyHasQuestion DEF SendFinal, SendError, At, RunState
  <2>2. \E e \in Event : Send(e)
    BY <1>6, <2>1, EventTypes DEF SendFinal, SendError
  <2>3. wire' \in Events
    BY <2>1, <2>2, Sends
  <2>4. run' \in RunState /\ run'.q = run.q
    BY <1>6 DEF SendFinal, SendError, Goto, RunState
  <2>5. UNCHANGED <<conn, gone, pending, memory, log, crashes>>
    BY <1>6 DEF SendFinal, SendError
  <2> QED BY <2>3, <2>4, <2>5, TypeParts
<1>7. CASE SendDone
  <2>1. run.q \in Question /\ conn[run.q] = "open"
    BY <1>7, BusyHasQuestion DEF SendDone, At
  <2>2. wire' \in Events
    BY <1>7, <2>1, Sends, EventTypes DEF SendDone
  <2>3. run' \in RunState /\ run'.q = Nobody
    BY <1>7, IdleRun DEF SendDone
  <2>4. conn' = [conn EXCEPT ![run.q] = "ended"] /\ UNCHANGED <<gone, pending, memory, log, crashes>>
    BY <1>7 DEF SendDone
  <2>5. conn' \in [Question -> Connection] /\ \A q \in Question : conn'[q] # "open"
    BY <2>1, <2>4 DEF Connection
  <2> QED BY <2>2, <2>3, <2>4, <2>5, NobodyAssumption, TypeParts
<1> QED BY <1>1, <1>2, <1>3, <1>4, <1>5, <1>6, <1>7 DEF Agents, Ends

LEMMA TypeOfAccept ==
  ASSUME TypeOK, Calls, NEW q \in Question, Accept(q), UNCHANGED chat
  PROVE  TypeOK'
<1> USE TypeNow
<1>1. run' = Fresh("files", q) /\ run' \in RunState /\ run'.q = q /\ run.q = Nobody
  BY FreshRun DEF Accept, Fresh, Calls, At
<1>2. conn' = [conn EXCEPT ![q] = "open"]
  BY DEF Accept
<1>3. conn' \in [Question -> Connection] /\ \A p \in Question : conn'[p] = "open" <=> p = q
  BY <1>1, <1>2, NobodyAssumption DEF Connection
<1>4. UNCHANGED <<wire, gone, pending, memory, log, crashes>>
  BY DEF Accept
<1> QED BY <1>1, <1>3, <1>4, TypeParts

LEMMA TypeOfCrash == ASSUME TypeOK, Crash, UNCHANGED chat PROVE TypeOK'
<1> USE TypeNow
<1>1. run' \in RunState /\ run'.q = Nobody
  BY IdleRun DEF Crash
<1>2. conn' \in [Question -> Connection] /\ \A q \in Question : conn'[q] # "open"
  BY DEF Crash, Connection
<1>3. crashes' \in 0..MaxCrashes /\ UNCHANGED <<wire, gone, pending, memory, log>>
  BY CrashAssumption DEF Crash
<1> QED BY <1>1, <1>2, <1>3, NobodyAssumption, TypeParts
-----------------------------------------------------------------------------
(* The caller                                                              *)

LEMMA HangUpType ==
  ASSUME TypeOK, NEW q \in Question, HangUp(q)
  PROVE  /\ chat' \in [Question -> Turn] /\ wire' \in Events /\ gone' \subseteq Question
         /\ chat'[q].pc = "failed" /\ q \in gone'
         /\ \A p \in Question \ {q} : chat'[p] = chat[p] /\ wire'[p] = wire[p]
                                      /\ (p \in gone' <=> p \in gone)
<1> DEFINE turn == [Unasked EXCEPT !.pc = "failed"]
<1>1. turn \in Turn /\ turn.pc = "failed"
  BY ChunksAssumption DEF Unasked, Turn, Answer
<1>2. chat' = [chat EXCEPT ![q] = turn] /\ wire' = [wire EXCEPT ![q] = <<>>] /\ gone' = gone \cup {q}
  BY DEF HangUp
<1> HIDE DEF turn
<1> QED BY <1>1, <1>2, TypeNow DEF Events

LEMMA SaveAnswerType ==
  ASSUME TypeOK, NEW q \in Question, SaveAnswer(q)
  PROVE  /\ chat' \in [Question -> Turn] /\ chat'[q].pc = "saved"
         /\ chat[q].got = Chunks => chat'[q].text = "first"
         /\ chat[q].got = 0 => chat'[q].text = chat[q].final
         /\ \A p \in Question \ {q} : chat'[p] = chat[p]
<1> DEFINE text == IF chat[q].got = 0 THEN chat[q].final
                   ELSE IF chat[q].got = Chunks THEN "first" ELSE "part"
           turn == [Unasked EXCEPT !.pc = "saved", !.text = text]
<1>1. text \in Answer \cup {"part"}
  BY TypeNow DEF Turn, Answer
<1>2. /\ chat[q].got = Chunks => text = "first"
      /\ chat[q].got = 0 => text = chat[q].final
  BY ChunksAssumption
<1>3. chat' = [chat EXCEPT ![q] = turn]
  BY DEF SaveAnswer
<1> HIDE DEF text
<1>4. Unasked \in Turn
  BY ChunksAssumption DEF Unasked, Turn, Answer
<1>5. turn \in Turn /\ turn.pc = "saved" /\ turn.text = text
  BY <1>1, <1>4 DEF Turn
<1> HIDE DEF turn
<1> QED BY <1>2, <1>3, <1>5, TypeNow

(* The next event of a browser that reads, and what it makes of it.        *)
Takes(q, e) == chat[q].pc = "reading" /\ wire[q] # <<>> /\ e = Head(wire[q])
Consumes(q) ==
  wire' = [wire EXCEPT ![q] = Tail(wire[q])] /\ UNCHANGED <<run, conn, gone, pending, memory, log, crashes>>
Shows(q) == SaveAnswer(q) /\ UNCHANGED <<run, conn, gone, pending, memory, log, crashes>>

Quits(q) == HangUp(q) /\ UNCHANGED <<run, conn, pending, memory, log, crashes>>

LEMMA ReadCases ==
  ASSUME NEW q \in Question, Read(q)
  PROVE  \E e : Takes(q, e) /\
           \/ e.type = "error" /\ Quits(q)
           \/ e.type = "token" /\ Consumes(q) /\ chat' = [chat EXCEPT ![q].got = @ + 1]
           \/ e.type = "final" /\ Consumes(q) /\ chat' = [chat EXCEPT ![q].final = e.answer]
           \/ e.type = "done" /\ Consumes(q) /\ Shows(q)
<1> DEFINE e == Head(wire[q])
<1>1. Takes(q, e)
  BY DEF Read, Takes
<1>2. \/ e.type = "error" /\ Quits(q)
      \/ e.type = "token" /\ Consumes(q) /\ chat' = [chat EXCEPT ![q].got = @ + 1]
      \/ e.type = "final" /\ Consumes(q) /\ chat' = [chat EXCEPT ![q].final = e.answer]
      \/ e.type = "done" /\ Consumes(q) /\ Shows(q)
  BY DEF Read, Quits, Consumes, Shows
<1> QED BY <1>1, <1>2

LEMMA ConsumesType ==
  ASSUME TypeOK, NEW q \in Question, NEW e, Takes(q, e), Consumes(q)
  PROVE  /\ wire' \in Events /\ wire'[q] = Tail(wire[q]) /\ e \in Event
         /\ \A p \in Question \ {q} : wire'[p] = wire[p]
<1>1. wire[q] \in Seq(Event) /\ wire[q] # <<>> /\ e = Head(wire[q])
  BY TypeNow DEF Takes, Events
<1>2. Tail(wire[q]) \in Seq(Event) /\ e \in Event
  BY <1>1
<1> QED BY <1>2, TypeNow DEF Consumes, Events

LEMMA TokenLeft ==
  ASSUME TypeOK, Streams, NEW q \in Question, NEW e, Takes(q, e), e.type = "token"
  PROVE  chat[q].got + 1 \in 0..Chunks
<1> PICK k \in Nat : Wired(q, wire[q], chat[q], k)
  BY DEF Streams, Takes
<1>1. wire[q] \in Seq(Event) /\ wire[q] # <<>> /\ wire[q][1] = e
  BY TypeNow DEF Takes, Events
<1>2. 1 \in DOMAIN wire[q]
  BY <1>1
<1>3. k >= 1
  BY <1>1, <1>2 DEF Wired, Tokens, Takes
<1>4. chat[q].got \in 0..Chunks
  BY TypeNow DEF Turn
<1> QED BY <1>3, <1>4, ChunksAssumption DEF Wired

LEMMA TypeOfCaller ==
  ASSUME TypeOK, Calls, Streams, NEW q \in Question, Ask(q) \/ Abort(q) \/ Controller(q)
  PROVE  TypeOK'
<1>1. CASE Ask(q)
  <2> DEFINE turn == [chat[q] EXCEPT !.pc = "reading"]
  <2>1. chat' = [chat EXCEPT ![q] = turn] /\ conn' = [conn EXCEPT ![q] = "queued"]
    BY <1>1 DEF Ask
  <2>2. turn \in Turn
    BY TypeNow DEF Turn
  <2> HIDE DEF turn
  <2>3. chat' \in [Question -> Turn]
    BY <2>1, <2>2, TypeNow
  <2>4. UNCHANGED <<run, wire, gone, pending, memory, log, crashes>>
    BY <1>1 DEF Ask
  <2>5. conn[q] = "none"
    BY <1>1 DEF Ask, Calls
  <2>6. conn' \in [Question -> Connection] /\ \A p \in Question : conn'[p] = "open" <=> run.q = p
    BY <2>1, <2>5, TypeNow DEF Connection
  <2> QED BY <2>3, <2>4, <2>6, TypeNow, TypeParts
<1>2. CASE Quits(q)
  <2>1. chat' \in [Question -> Turn] /\ wire' \in Events /\ gone' \subseteq Question
    BY <1>2, HangUpType DEF Quits
  <2>2. UNCHANGED <<run, conn, pending, memory, log, crashes>>
    BY <1>2 DEF Quits
  <2> QED BY <2>1, <2>2, TypeNow, TypeParts
<1>3. ASSUME NEW e, Takes(q, e), e.type \in {"token", "final", "done"}, Read(q) PROVE TypeOK'
  <2>1. Consumes(q)
    BY <1>3, ReadCases DEF Takes
  <2>2. wire' \in Events /\ e \in Event
    BY <1>3, <2>1, ConsumesType
  <2>3. chat' \in [Question -> Turn]
    <3>1. CASE e.type = "token"
      <4> DEFINE turn == [chat[q] EXCEPT !.got = chat[q].got + 1]
      <4>1. chat' = [chat EXCEPT ![q] = turn]
        BY <1>3, <3>1, ReadCases DEF Takes
      <4>2. turn \in Turn
        BY <1>3, <3>1, TokenLeft, TypeNow DEF Turn
      <4> HIDE DEF turn
      <4> QED BY <4>1, <4>2, TypeNow
    <3>2. CASE e.type = "final"
      <4> DEFINE turn == [chat[q] EXCEPT !.final = e.answer]
      <4>1. chat' = [chat EXCEPT ![q] = turn]
        BY <1>3, <3>2, ReadCases DEF Takes
      <4>2. e.answer \in Answer
        BY <2>2 DEF Event
      <4>3. turn \in Turn
        BY <4>2, TypeNow DEF Turn
      <4> HIDE DEF turn
      <4> QED BY <4>1, <4>3, TypeNow
    <3>3. CASE e.type = "done"
      <4>1. SaveAnswer(q)
        BY <1>3, <3>3, ReadCases DEF Takes, Shows
      <4> QED BY <4>1, SaveAnswerType
    <3> QED BY <1>3, <3>1, <3>2, <3>3
  <2>4. UNCHANGED <<run, conn, gone, pending, memory, log, crashes>>
    BY <2>1 DEF Consumes
  <2> QED BY <2>2, <2>3, <2>4, TypeNow, TypeParts
<1>4. CASE ReadEnd(q)
  <2>1. chat' \in [Question -> Turn] /\ UNCHANGED agentVars
    BY <1>4, SaveAnswerType DEF ReadEnd
  <2> QED BY <2>1, TypeNow, TypeParts DEF agentVars
<1>5. CASE Read(q)
  BY <1>2, <1>3, <1>5, ReadCases
<1>6. CASE Abort(q) \/ FetchFails(q)
  BY <1>2, <1>6 DEF Abort, FetchFails, Quits
<1> QED BY <1>1, <1>4, <1>5, <1>6 DEF Controller
-----------------------------------------------------------------------------
(* One call, one run, one entry of the log                                 *)

LEMMA LogGrows ==
  ASSUME TypeOK, NEW d \in Doc, log' = Append(log, d)
  PROVE  /\ Len(log') = Len(log) + 1 /\ log'[Len(log) + 1] = d
         /\ DOMAIN log' = 1..(Len(log) + 1) /\ DOMAIN log = 1..Len(log) /\ Len(log) \in Nat
         /\ \A i \in DOMAIN log : log'[i] = log[i]
BY TypeNow

LEMMA LogCases ==
  ASSUME TypeOK, Calls, Next
  PROVE  log' = log \/ (run.pc = "log" /\ Entry \in Doc /\ Entry.q = run.q /\ log' = Append(log, Entry))
<1>1. log' = log \/ (run.pc = "log" /\ log' = Append(log, Entry))
  BY DEF Next, Work, NoFiles, ResolveAndProfile, ScopeLiteral, ScopeOut, ScopeClarify, ScopeDirect,
     ScopeSql, AnswerFromSql, StreamToken, Streamed, CritiqueAnswer, PersistAnalysisState, Raise,
     SaveRun, SaveRunFails, SendFinal, SendError, SendDone, Accept, Crash, Ask, Abort, Controller,
     Read, ReadEnd, FetchFails, agentVars, At
<1> QED BY <1>1, EntryType

LEMMA LoggedCases ==
  ASSUME TypeOK, Calls, Next, NEW q \in Question
  PROVE  /\ Logged(q) => Logged(q)'
         /\ Logged(q)' => Logged(q) \/ (run.pc = "log" /\ q = run.q)
         /\ \A answer : LoggedAs(q, answer) => LoggedAs(q, answer)'
         /\ Logged(q) => \A i \in DOMAIN log' : log'[i].q = q => i \in DOMAIN log /\ log'[i] = log[i]
<1>1. CASE log' = log
  BY <1>1 DEF Logged, LoggedAs
<1>2. CASE run.pc = "log" /\ Entry \in Doc /\ Entry.q = run.q /\ log' = Append(log, Entry)
  <2>1. /\ \A i \in DOMAIN log : i \in DOMAIN log' /\ log'[i] = log[i]
        /\ \A i \in DOMAIN log' : i \in DOMAIN log \/ log'[i] = Entry
    BY <1>2, LogGrows
  <2>2. ~Logged(run.q)
    BY <1>2 DEF Calls, Busy
  <2>3. Logged(q) => \A i \in DOMAIN log' : log'[i].q = q => i \in DOMAIN log /\ log'[i] = log[i]
    BY <1>2, <2>1, <2>2
  <2>4. (Logged(q) => Logged(q)') /\ (Logged(q)' => Logged(q) \/ q = run.q)
    BY <1>2, <2>1 DEF Logged
  <2> QED BY <1>2, <2>3, <2>4 DEF LoggedAs
<1> QED BY <1>1, <1>2, LogCases

(* What the rest of the invariant needs to know of where a run goes.       *)
LEMMA AgentMoves ==
  ASSUME TypeOK, Calls, Settled, Agents
  PROVE  /\ run.pc # "idle" /\ UNCHANGED gone
         /\ \/ /\ run'.q = run.q /\ run.pc \in Node /\ run'.pc \in Busy \cup {"error"}
               /\ UNCHANGED <<conn, log>>
            \/ run'.q = run.q /\ run'.pc = "error" /\ SaveRunFails /\ conn' = conn
            \/ run'.q = run.q /\ run'.pc = "final" /\ SaveRun /\ conn' = conn
            \/ run'.q = run.q /\ run'.pc = "bye" /\ conn' = conn
            \/ run' = Idle /\ run.pc = "bye" /\ SendDone /\ conn' = [conn EXCEPT ![run.q] = "ended"]
         /\ \A q \in Question \ {run.q} : wire'[q] = wire[q]
<1> USE TypeNow
<1>1. CASE Thinks
  BY <1>1, ThinksRun, ThinksLeaves DEF Busy, Node
<1>2. CASE StreamToken
  <2>1. run.q \in Question
    BY <1>2, BusyHasQuestion DEF StreamToken, At
  <2>2. run'.q = run.q /\ run.pc = "streaming" /\ run'.pc = "streaming" /\ UNCHANGED <<conn, gone>>
    BY <1>2 DEF StreamToken, At, RunState
  <2> QED BY <1>2, <2>1, <2>2, Sends, EventTypes DEF StreamToken, Busy, Node
<1>3. CASE PersistAnalysisState
  <2>1. run'.q = run.q /\ run'.pc = "log"
    BY <1>3 DEF PersistAnalysisState, Goto, RunState
  <2> QED BY <1>3, <2>1 DEF PersistAnalysisState, At, Busy, Node
<1>4. CASE SaveRun
  <2>1. run'.q = run.q /\ run'.pc = "final"
    BY <1>4 DEF SaveRun, Goto, RunState
  <2> QED BY <1>4, <2>1 DEF SaveRun, At
<1>5. CASE SaveRunFails
  <2>1. run.q \in Question \cup {Nobody} /\ run' = Fresh("error", run.q)
    BY <1>5 DEF SaveRunFails, RunState, Fresh
  <2> QED BY <1>5, <2>1, FreshRun DEF SaveRunFails, At
<1>6. CASE SendFinal \/ SendError
  <2>1. run.q \in Question /\ run.answer \in Answer /\ run.pc # "idle"
    BY <1>6, BusyHasQuestion DEF SendFinal, SendError, At, RunState
  <2>2. \E e \in Event : Send(e)
    BY <1>6, <2>1, EventTypes DEF SendFinal, SendError
  <2>3. run'.q = run.q /\ run'.pc = "bye" /\ UNCHANGED <<conn, gone>>
    BY <1>6 DEF SendFinal, SendError, Goto, RunState
  <2> QED BY <2>1, <2>2, <2>3, Sends
<1>7. CASE SendDone
  <2>1. run.q \in Question
    BY <1>7, BusyHasQuestion DEF SendDone, At
  <2> QED BY <1>7, <2>1, Sends, EventTypes DEF SendDone, At
<1> QED BY <1>1, <1>2, <1>3, <1>4, <1>5, <1>6, <1>7 DEF Agents, Ends

LEMMA CallsOfAgents ==
  ASSUME TypeOK, Calls, Settled, Agents, UNCHANGED chat, Next
  PROVE  Calls'
<1> USE TypeNow
<1>1. run.q \in Question /\ conn[run.q] = "open"
  BY AgentMoves, BusyHasQuestion
<1>2. run'.pc = "idle" <=> run'.q = Nobody
  BY <1>1, AgentMoves, IdleRun, NobodyAssumption DEF Busy, Node
<1>3. run'.pc \in Busy => ~Logged(run.q)'
  <2> SUFFICES ASSUME run'.pc \in Busy PROVE ~Logged(run.q)'
    OBVIOUS
  <2>1. run.pc \in Node /\ run'.q = run.q /\ log' = log
    BY AgentMoves, IdleRun DEF Busy, Node
  <2> QED BY <2>1 DEF Calls, Busy, Logged
<1>4. run'.pc = "final" => LoggedAs(run.q, run.answer)'
  <2> SUFFICES ASSUME run'.pc = "final" PROVE LoggedAs(run.q, run.answer)'
    OBVIOUS
  <2>1. run'.q = run.q /\ SaveRun
    BY AgentMoves, IdleRun DEF Busy, Node
  <2>2. Entry \in Doc /\ Entry.q = run.q /\ Entry.answer = run.answer /\ log' = Append(log, Entry)
    BY <2>1, EntryType DEF SaveRun, At, Entry
  <2>3. run'.answer = run.answer
    BY <2>1 DEF SaveRun, Goto, RunState
  <2>4. ~Logged(run.q)
    BY <2>1 DEF Calls, Busy, SaveRun, At
  <2>5. /\ log'[Len(log) + 1] = Entry /\ Len(log) + 1 \in DOMAIN log'
        /\ \A i \in DOMAIN log' : log'[i] = Entry \/ (i \in DOMAIN log /\ log'[i] = log[i])
    BY <2>2, LogGrows
  <2> QED BY <2>1, <2>2, <2>3, <2>4, <2>5 DEF Logged, LoggedAs
<1>5. ASSUME NEW q \in Question
      PROVE  /\ conn'[q] = conn[q] \/ (conn[q] = "open" /\ conn'[q] = "ended")
             /\ conn[q] # "open" => wire'[q] = wire[q]
             /\ conn'[q] \in {"none", "queued"} => (Logged(q)' => Logged(q))
  <2>1. conn'[q] = conn[q] \/ (conn[q] = "open" /\ conn'[q] = "ended")
    BY <1>1, AgentMoves
  <2>2. conn[q] # "open" => q # run.q
    BY <1>1
  <2> QED BY <2>1, <2>2, AgentMoves, LoggedCases
<1>6. gone' = gone
  BY AgentMoves
<1> QED BY <1>2, <1>3, <1>4, <1>5, <1>6 DEF Calls

LEMMA CallsOfAccept ==
  ASSUME TypeOK, Calls, NEW q \in Question, Accept(q), UNCHANGED chat
  PROVE  Calls'
<1>1. run' = Fresh("files", q) /\ run'.pc = "files" /\ run'.q = q
  BY FreshRun DEF Accept, Fresh
<1>2. conn[q] = "queued" /\ conn' = [conn EXCEPT ![q] = "open"]
  BY DEF Accept
<1>3. UNCHANGED <<wire, gone, log>> /\ conn \in [Question -> Connection]
  BY TypeNow DEF Accept
<1>4. ~Logged(q)' /\ \A p : Logged(p)' <=> Logged(p)
  BY <1>2, <1>3 DEF Calls, Logged
<1>5. \A p \in Question : conn'[p] = conn[p] \/ (p = q /\ conn'[p] = "open")
  BY <1>2, <1>3
<1> QED BY <1>1, <1>2, <1>3, <1>4, <1>5, NobodyAssumption DEF Calls, Busy, Node

LEMMA CallsOfCrash == ASSUME TypeOK, Calls, Crash, UNCHANGED chat PROVE Calls'
<1>1. run' = Idle /\ Idle.pc = "idle" /\ Idle.q = Nobody /\ UNCHANGED <<wire, gone, log>>
  BY IdleRun DEF Crash
<1>2. \A p \in Question : conn'[p] = CASE conn[p] = "open" -> "cut"
                                       [] conn[p] = "queued" -> "reset"
                                       [] OTHER -> conn[p]
  BY DEF Crash
<1>3. \A p : Logged(p)' <=> Logged(p)
  BY <1>1 DEF Logged
<1> QED BY <1>1, <1>2, <1>3 DEF Calls, Busy, Node

(* A connection whose stream says done is over.                            *)
LEMMA DoneIsEnd ==
  ASSUME TypeOK, Streams, NEW q \in Question, NEW e, Takes(q, e), e.type = "done"
  PROVE  conn[q] \in {"ended", "cut"}
<1> PICK k \in Nat : Wired(q, wire[q], chat[q], k)
  BY DEF Streams, Takes
<1>1. wire[q] \in Seq(Event) /\ wire[q] # <<>> /\ wire[q][1] = e /\ 1 \in DOMAIN wire[q]
  BY TypeNow DEF Takes, Events
<1>2. k # Len(wire[q])
  BY <1>1 DEF Wired, Tokens
<1> QED BY <1>1, <1>2, TypeNow DEF Wired, Running, Connection

LEMMA CallsOfCaller ==
  ASSUME TypeOK, Calls, Streams, NEW q \in Question, Ask(q) \/ Abort(q) \/ Controller(q)
  PROVE  Calls'
<1> USE TypeNow
<1>0. /\ UNCHANGED <<run, log>> /\ \A p : Logged(p)' <=> Logged(p)
      /\ LoggedAs(run.q, run.answer)' <=> LoggedAs(run.q, run.answer)
  <2>1. UNCHANGED <<run, log>>
    BY DEF Ask, Abort, Controller, Read, ReadEnd, FetchFails, agentVars
  <2> QED BY <2>1 DEF Logged, LoggedAs
<1>1. CASE Ask(q)
  <2>1. chat[q].pc = "idle" /\ chat'[q].pc = "reading" /\ conn'[q] = "queued"
    BY <1>1 DEF Ask, Turn
  <2>2. \A p \in Question \ {q} : chat'[p] = chat[p] /\ conn'[p] = conn[p]
    BY <1>1 DEF Ask
  <2>3. UNCHANGED <<wire, gone>>
    BY <1>1 DEF Ask
  <2> QED BY <1>0, <2>1, <2>2, <2>3 DEF Calls
<1>2. CASE Quits(q)
  <2>1. conn' = conn /\ chat'[q].pc = "failed"
    BY <1>2, HangUpType DEF Quits
  <2>2. \A p \in Question \ {q} : chat'[p] = chat[p] /\ wire'[p] = wire[p] /\ (p \in gone' <=> p \in gone)
    BY <1>2, HangUpType DEF Quits
  <2> QED BY <1>0, <2>1, <2>2 DEF Calls
<1>3. ASSUME NEW e, Takes(q, e), e.type \in {"token", "final"}, Read(q) PROVE Calls'
  <2>1. Consumes(q) /\ chat[q].pc = "reading"
    BY <1>3, ReadCases DEF Takes
  <2>2. chat' = [chat EXCEPT ![q].got = @ + 1] \/ chat' = [chat EXCEPT ![q].final = e.answer]
    BY <1>3, ReadCases DEF Takes
  <2>3. chat'[q].pc = "reading" /\ \A p \in Question \ {q} : chat'[p] = chat[p]
    BY <2>1, <2>2 DEF Turn
  <2>4. \A p \in Question \ {q} : wire'[p] = wire[p]
    BY <1>3, <2>1, ConsumesType
  <2>5. UNCHANGED <<conn, gone>>
    BY <2>1 DEF Consumes
  <2> QED BY <1>0, <2>1, <2>3, <2>4, <2>5 DEF Calls
<1>4. ASSUME NEW e, Takes(q, e), e.type = "done", Consumes(q), Shows(q) PROVE Calls'
  <2>1. chat'[q].pc = "saved" /\ \A p \in Question \ {q} : chat'[p] = chat[p]
    BY <1>4, SaveAnswerType DEF Shows
  <2>2. \A p \in Question \ {q} : wire'[p] = wire[p]
    BY <1>4, ConsumesType
  <2>3. UNCHANGED <<conn, gone>> /\ conn[q] \in {"ended", "cut"}
    BY <1>4, DoneIsEnd DEF Consumes
  <2> QED BY <1>0, <2>1, <2>2, <2>3 DEF Calls
<1>5. CASE ReadEnd(q)
  <2>1. chat'[q].pc = "saved" /\ \A p \in Question \ {q} : chat'[p] = chat[p]
    BY <1>5, SaveAnswerType DEF ReadEnd
  <2>2. UNCHANGED <<wire, conn, gone>> /\ conn[q] \in {"ended", "cut"}
    BY <1>5 DEF ReadEnd, agentVars
  <2> QED BY <1>0, <2>1, <2>2 DEF Calls
<1>6. CASE Read(q)
  BY <1>2, <1>3, <1>4, <1>6, ReadCases
<1>7. CASE Abort(q) \/ FetchFails(q)
  BY <1>2, <1>7 DEF Abort, FetchFails, Quits
<1> QED BY <1>1, <1>5, <1>6, <1>7 DEF Controller
-----------------------------------------------------------------------------
(* The clarification                                                       *)

LEMMA SettledOfAgents ==
  ASSUME TypeOK, Calls, Settled, Agents
  PROVE  Settled'
<1>0. run \in RunState
  BY TypeNow
<1> USE <1>0 DEF At, Goto, Stream
<1>1. CASE NoFiles
  <2>1. run'.plan = "no_files" /\ run'.then = "log"
    BY <1>1 DEF NoFiles, RunState
  <2> QED BY <2>1 DEF Settled
<1>2. CASE ResolveAndProfile
  <2>1. run'.pc = "scope"
    BY <1>2 DEF ResolveAndProfile, RunState
  <2> QED BY <2>1 DEF Settled, Carried
<1>3. CASE ScopeLiteral
  <2>1. run'.plan = "literal" /\ run'.pc = "log"
    BY <1>3 DEF ScopeLiteral, RunState
  <2> QED BY <2>1 DEF Settled
<1>4. CASE ScopeOut \/ ScopeClarify \/ ScopeDirect
  <2>1. run'.plan = run.plan /\ run'.q = run.q /\ run'.then \in {"log", "persist"}
    BY <1>4 DEF ScopeOut, ScopeClarify, ScopeDirect, RunState
  <2>2. \/ run.plan = "out_of_scope"
        \/ run.plan = "clarify" /\ pending' = run.q
        \/ run.plan = "direct" /\ pending' = Nobody
    BY <1>4 DEF ScopeOut, ScopeClarify, ScopeDirect
  <2> QED BY <2>1, <2>2 DEF Settled
<1>5. CASE ScopeSql
  <2>1. run'.plan = "sql" /\ run'.pc = "sql" /\ pending' = Nobody
    BY <1>5 DEF ScopeSql, RunState
  <2> QED BY <2>1 DEF Settled
<1>6. CASE AnswerFromSql \/ StreamToken \/ Streamed \/ CritiqueAnswer \/ PersistAnalysisState
  <2>1. run'.plan = run.plan /\ run'.q = run.q /\ pending' = pending
    BY <1>6 DEF AnswerFromSql, StreamToken, Streamed, CritiqueAnswer, PersistAnalysisState, RunState
  <2>2. run.pc \in Carried
    BY <1>6 DEF AnswerFromSql, StreamToken, Streamed, CritiqueAnswer, PersistAnalysisState, Carried
  <2>3. CASE AnswerFromSql
    <3>1. run'.then = "critic?"
      BY <2>3 DEF AnswerFromSql, RunState
    <3> QED BY <2>1, <2>2, <3>1 DEF Settled
  <2>4. CASE StreamToken
    <3>1. run'.then = run.then /\ run'.pc = run.pc
      BY <2>4 DEF StreamToken, RunState
    <3> QED BY <2>1, <2>2, <3>1 DEF Settled
  <2>5. CASE Streamed \/ CritiqueAnswer \/ PersistAnalysisState
    <3>1. run.then # "none" \/ ~Streamed
      BY <2>2 DEF Settled, Streamed
    <3>2. run'.pc # "streaming"
      BY <2>5, <3>1 DEF Streamed, CritiqueAnswer, PersistAnalysisState, RunState
    <3> QED BY <2>1, <2>2, <3>2 DEF Settled
  <2> QED BY <1>6, <2>3, <2>4, <2>5
<1>7. CASE Raise \/ Ends
  <2>1. CASE Raise \/ SaveRunFails
    <3>1. run.q \in Question \cup {Nobody} /\ run' = Fresh("error", run.q)
      BY <2>1 DEF Raise, SaveRunFails, RunState, Fresh
    <3> QED BY <3>1, FreshRun DEF Settled, Carried
  <2>2. CASE SaveRun \/ SendFinal \/ SendError
    <3>1. run'.pc \in {"final", "bye"}
      BY <2>2 DEF SaveRun, SendFinal, SendError, RunState
    <3> QED BY <3>1 DEF Settled, Carried
  <2>3. CASE SendDone
    BY <2>3, IdleRun DEF SendDone, Settled, Carried
  <2> QED BY <1>7, <2>1, <2>2, <2>3 DEF Ends
<1> QED BY <1>1, <1>2, <1>3, <1>4, <1>5, <1>6, <1>7 DEF Agents, Thinks

LEMMA PendingChanges ==
  ASSUME TypeOK, Calls, Next
  PROVE  pending' = pending \/ pending' = Nobody \/ (pending' = run.q /\ ~Logged(run.q) /\ log' = log)
<1>1. pending' = pending \/ pending' = Nobody \/ ScopeClarify
  BY DEF Next, Work, NoFiles, ResolveAndProfile, ScopeLiteral, ScopeOut, ScopeDirect,
     ScopeSql, AnswerFromSql, StreamToken, Streamed, CritiqueAnswer, PersistAnalysisState, Raise,
     SaveRun, SaveRunFails, SendFinal, SendError, SendDone, Accept, Crash, Ask, Abort, Controller,
     Read, ReadEnd, FetchFails, agentVars
<1>2. ScopeClarify => pending' = run.q /\ ~Logged(run.q) /\ log' = log
  BY DEF ScopeClarify, At, Calls, Busy, Node
<1> QED BY <1>1, <1>2

LEMMA PendingStep ==
  ASSUME TypeOK, Calls, Settled, PendingIsOpen, Next
  PROVE  PendingIsOpen'
<1>1. \A i \in DOMAIN log : log[i].q # Nobody
  <2> TAKE i \in DOMAIN log
  <2>1. log[i] \in Doc
    BY TypeNow
  <2> QED BY <2>1, NobodyAssumption DEF Doc
<1>2. CASE log' = log
  BY <1>1, <1>2, PendingChanges DEF PendingIsOpen, Logged
<1>3. CASE run.pc = "log" /\ Entry \in Doc /\ Entry.q = run.q /\ log' = Append(log, Entry)
  <2>1. log' # log
    BY <1>3, LogGrows
  <2>2. pending' \in {pending, Nobody}
    BY <2>1, PendingChanges
  <2>3. ~Logged(run.q) /\ run.plan # "none" /\ (run.plan \in {"direct", "sql"} => pending = Nobody)
        /\ (run.plan = "clarify" => pending = run.q) /\ Entry.plan = run.plan
    BY <1>3 DEF Calls, Busy, Settled, Carried, Entry
  <2>4. run.plan \in Plan /\ run.q # Nobody
    BY <1>3, TypeNow, BusyHasQuestion, NobodyAssumption DEF RunState
  <2>5. (\E i \in DOMAIN log : log[i].q = pending') =>
           Entry.plan \in {"no_files", "literal", "out_of_scope"}
    BY <1>1, <2>2, <2>3, <2>4 DEF Logged, Plan
  <2>6. \A i, j \in DOMAIN log : log[i].q = pending' /\ j > i =>
           log[j].plan \in {"no_files", "literal", "out_of_scope"}
    BY <1>1, <2>2 DEF PendingIsOpen
  <2> QED BY <1>3, <2>5, <2>6, LogGrows DEF PendingIsOpen
<1> QED BY <1>2, <1>3, LogCases
-----------------------------------------------------------------------------
(* The states                                                              *)

LEMMA InMemoryMeans ==
  ASSUME NEW i
  PROVE  InMemory(i) <=> \E a \in DOMAIN memory : memory[a] = StateOf(log[i])
BY DEF InMemory, Range, StateOf

(* The prune takes one state away, the oldest, or none.                    *)
LEMMA PersistShifts ==
  ASSUME TypeOK, Calls, PersistAnalysisState, Remembers(run)
  PROVE  \E d \in {0, 1} :
           /\ DOMAIN memory = 1..Len(memory) /\ Len(memory) \in Nat
           /\ DOMAIN memory' = 1..Len(memory') /\ Len(memory') = Len(memory) + 1 - d
           /\ d = 1 <=> Len(memory) = MaxStates
           /\ \A a \in DOMAIN memory' :
                memory'[a] = IF a + d <= Len(memory) THEN memory[a + d] ELSE StateOf(run)
<1> DEFINE st == StateOf(run)
           all == Append(memory, st)
<1>1. run.q \in Question /\ run \in RunState /\ memory \in Seq(State) /\ Len(memory) <= MaxStates
  BY TypeNow, BusyHasQuestion DEF PersistAnalysisState, At
<1>2. st \in State
  BY <1>1 DEF RunState, State, StateOf
<1>3. memory' = IF Len(all) > MaxStates THEN Tail(all) ELSE all
  BY DEF PersistAnalysisState, StateOf, Newest
<1> HIDE DEF st
<1>4. /\ all \in Seq(State) /\ Len(all) = Len(memory) + 1 /\ Len(memory) \in Nat
      /\ \A a \in 1..Len(all) : all[a] = IF a <= Len(memory) THEN memory[a] ELSE st
      /\ DOMAIN memory = 1..Len(memory) /\ DOMAIN all = 1..Len(all)
  BY <1>1, <1>2
<1> HIDE DEF all
<1>5. CASE Len(memory) = MaxStates
  <2>1. memory' = Tail(all)
    BY <1>3, <1>4, <1>5, StatesAssumption
  <2>2. /\ Len(memory') = Len(memory) /\ DOMAIN memory' = 1..Len(memory')
        /\ \A a \in DOMAIN memory' : memory'[a] = all[a + 1]
    BY <1>4, <2>1
  <2> WITNESS 1 \in {0, 1}
  <2> QED BY <1>4, <1>5, <2>2 DEF st
<1>6. CASE Len(memory) # MaxStates
  <2>1. memory' = all
    <3>1. Len(memory) \in Nat /\ Len(memory) < MaxStates /\ MaxStates \in Nat
      BY <1>1, <1>6, StatesAssumption
    <3>2. ~(Len(all) > MaxStates)
      <4> HIDE <1>1, <1>6
      <4> QED BY <1>4, <3>1
    <3> QED BY <1>3, <3>2
  <2> WITNESS 0 \in {0, 1}
  <2> QED BY <1>4, <1>6, <2>1 DEF st
<1> QED BY <1>5, <1>6

LEMMA RouteToLog ==
  ASSUME TypeOK, Calls, Settled, Route, Agents, ~PersistAnalysisState
  PROVE  /\ run'.pc = "streaming" /\ run'.then = "log" => ~Remembers(run')
         /\ run'.pc = "log" => ~Remembers(run')
<1>0. run \in RunState
  BY TypeNow
<1> USE <1>0 DEF At, Goto, Stream, Remembers
<1>1. CASE NoFiles
  BY <1>1 DEF NoFiles, RunState
<1>2. CASE ResolveAndProfile
  <2>1. run'.pc = "scope"
    BY <1>2 DEF ResolveAndProfile, RunState
  <2> QED BY <2>1
<1>3. CASE ScopeLiteral \/ ScopeOut \/ ScopeClarify
  <2>1. run'.plan \in {"literal", "out_of_scope", "clarify"}
    BY <1>3 DEF ScopeLiteral, ScopeOut, ScopeClarify, RunState
  <2> QED BY <2>1
<1>4. CASE ScopeDirect
  <2>1. run'.plan = "direct" /\ run'.pc = "streaming"
    BY <1>4 DEF ScopeDirect, RunState
  <2>2. run'.then = "log" => run'.feedback = "none"
    BY <1>4 DEF ScopeDirect, RunState
  <2> QED BY <2>1, <2>2
<1>5. CASE ScopeSql \/ AnswerFromSql
  BY <1>5 DEF ScopeSql, AnswerFromSql, RunState
<1>6. CASE StreamToken
  <2>1. run'.pc = "streaming" /\ run'.then = run.then /\ run'.plan = run.plan
        /\ run'.feedback = run.feedback /\ run.pc = "streaming"
    BY <1>6 DEF StreamToken, RunState
  <2> QED BY <2>1 DEF Route
<1>7. CASE Streamed
  <2>1. run'.pc # "streaming" /\ run'.plan = run.plan /\ run'.feedback = run.feedback
    BY <1>7 DEF Streamed, Settled, Carried, RunState
  <2>2. run'.pc = "log" => run.then = "log"
    BY <1>7 DEF Streamed, RunState
  <2> QED BY <1>7, <2>1, <2>2 DEF Route, Streamed
<1>8. CASE CritiqueAnswer
  <2>1. run'.pc = "persist"
    BY <1>8 DEF CritiqueAnswer, RunState
  <2> QED BY <2>1
<1>9. CASE Raise \/ Ends
  <2>1. run'.pc \notin {"streaming", "log"}
    <3>1. CASE Raise \/ SaveRunFails
      <4>1. run.q \in Question \cup {Nobody} /\ run' = Fresh("error", run.q)
        BY <3>1 DEF Raise, SaveRunFails, RunState, Fresh
      <4> QED BY <4>1, FreshRun
    <3>2. CASE SaveRun \/ SendFinal \/ SendError
      BY <3>2 DEF SaveRun, SendFinal, SendError, RunState
    <3>3. CASE SendDone
      BY <3>3, IdleRun DEF SendDone
    <3> QED BY <1>9, <3>1, <3>2, <3>3 DEF Ends
  <2> QED BY <2>1
<1> QED BY <1>1, <1>2, <1>3, <1>4, <1>5, <1>6, <1>7, <1>8, <1>9 DEF Agents, Thinks

LEMMA RouteOfAgents ==
  ASSUME TypeOK, Calls, Settled, Route, Agents
  PROVE  Route'
<1>1. CASE PersistAnalysisState /\ ~Remembers(run)
  BY <1>1, TypeNow DEF PersistAnalysisState, Goto, RunState, Remembers, Route
<1>2. CASE PersistAnalysisState /\ Remembers(run)
  <2>1. run'.pc = "log" /\ StateOf(run') = StateOf(run)
    BY <1>2, TypeNow DEF PersistAnalysisState, Goto, RunState, StateOf
  <2> PICK d \in {0, 1} :
        /\ DOMAIN memory' = 1..Len(memory') /\ Len(memory') = Len(memory) + 1 - d
        /\ Len(memory) \in Nat /\ d = 1 <=> Len(memory) = MaxStates
        /\ \A a \in DOMAIN memory' :
             memory'[a] = IF a + d <= Len(memory) THEN memory[a + d] ELSE StateOf(run)
    BY <1>2, PersistShifts
  <2>2. Len(memory') >= 1 /\ Len(memory') \in DOMAIN memory' /\ memory' \in Seq(State)
    BY <1>2, PersistType, StatesAssumption
  <2>3. memory'[Len(memory')] = StateOf(run)
    BY <2>2
  <2> QED BY <2>1, <2>2, <2>3 DEF Route
<1>3. CASE ~PersistAnalysisState
  BY <1>3, RouteToLog DEF Route
<1> QED BY <1>1, <1>2, <1>3

LEMMA OrderedOfPersist ==
  ASSUME TypeOK, Calls, Ordered, PersistAnalysisState, Remembers(run)
  PROVE  Ordered'
<1> PICK d \in {0, 1} :
      /\ DOMAIN memory = 1..Len(memory) /\ Len(memory) \in Nat
      /\ DOMAIN memory' = 1..Len(memory') /\ Len(memory') = Len(memory) + 1 - d
      /\ d = 1 <=> Len(memory) = MaxStates
      /\ \A a \in DOMAIN memory' :
           memory'[a] = IF a + d <= Len(memory) THEN memory[a + d] ELSE StateOf(run)
  BY PersistShifts
<1>1. log' = log /\ ~Logged(run.q)
  BY DEF PersistAnalysisState, Calls, At, Busy, Node
<1>2. \A i \in DOMAIN log : StateOf(log[i]) # StateOf(run)
  BY <1>1 DEF Logged, StateOf
<1>3. Remembered' = Remembered /\ \A i \in Remembered : i \in DOMAIN log
  BY <1>1 DEF Remembered
<1>4. ASSUME NEW i \in Remembered', ~InMemory(i)' PROVE Len(memory') = MaxStates
  <2>1. ~\E a \in DOMAIN memory' : memory'[a] = StateOf(log[i])
    BY <1>1, <1>4 DEF InMemory, Range, StateOf
  <2>2. CASE d = 1
    BY <2>2
  <2>3. CASE d = 0
    <3>1. \A a \in DOMAIN memory : memory'[a] = memory[a] /\ a \in DOMAIN memory'
      BY <2>3
    <3>2. ~InMemory(i)
      BY <2>1, <3>1, InMemoryMeans
    <3> QED BY <1>3, <1>4, <2>3, <3>2 DEF Ordered
  <2> QED BY <2>2, <2>3
<1>5. ASSUME NEW i \in Remembered, NEW j \in Remembered, i < j,
             NEW a \in DOMAIN memory', memory'[a] = StateOf(log[i])
      PROVE  \E b \in DOMAIN memory' : b > a /\ memory'[b] = StateOf(log[j])
  <2>1. a + d <= Len(memory) /\ memory[a + d] = StateOf(log[i]) /\ a + d \in DOMAIN memory
    BY <1>2, <1>3, <1>5
  <2> PICK b \in DOMAIN memory : b > a + d /\ memory[b] = StateOf(log[j])
    BY <1>5, <2>1 DEF Ordered
  <2>2. b - d \in DOMAIN memory' /\ b - d > a /\ memory'[b - d] = memory[b]
    OBVIOUS
  <2> QED BY <2>2
<1> QED BY <1>1, <1>3, <1>4, <1>5 DEF Ordered

LEMMA OrderedOfLog ==
  ASSUME TypeOK, Calls, Ordered, Route, run.pc = "log", memory' = memory,
         Entry \in Doc, Entry.q = run.q, log' = Append(log, Entry)
  PROVE  Ordered'
<1>1. /\ Len(log) \in Nat /\ DOMAIN log' = 1..(Len(log) + 1) /\ DOMAIN log = 1..Len(log)
      /\ log'[Len(log) + 1] = Entry /\ \A i \in DOMAIN log : log'[i] = log[i]
  BY LogGrows
<1> DEFINE n == Len(log) + 1
<1>2. Remembered \subseteq Remembered' /\ Remembered' \subseteq Remembered \cup {n}
  BY <1>1 DEF Remembered
<1>3. \A i \in Remembered : i \in DOMAIN log /\ i < n /\ log'[i] = log[i]
  BY <1>1 DEF Remembered
<1>4. n \in Remembered' =>
        memory # <<>> /\ memory[Len(memory)] = StateOf(Entry) /\ StateOf(Entry) = StateOf(run)
  <2>1. n \in Remembered' => Remembers(run) /\ StateOf(Entry) = StateOf(run)
    BY <1>1 DEF Remembered, Remembers, Entry, StateOf
  <2> QED BY <2>1 DEF Route
<1>5. DOMAIN memory = 1..Len(memory) /\ Len(memory) \in Nat /\ (memory # <<>> => Len(memory) # 0)
  BY TypeNow
<1>6. \A i \in DOMAIN log : StateOf(log[i]).q # run.q
  BY DEF Calls, Busy, Logged, StateOf
<1>7. ASSUME NEW i \in Remembered', ~InMemory(i)' PROVE Len(memory) = MaxStates
  <2>1. ~\E a \in DOMAIN memory : memory[a] = StateOf(log'[i])
    BY <1>7 DEF InMemory, Range, StateOf
  <2>2. i # n
    BY <1>1, <1>4, <1>5, <1>7, <2>1
  <2>3. i \in Remembered /\ ~InMemory(i)
    BY <1>2, <1>3, <1>7, <2>1, <2>2, InMemoryMeans
  <2> QED BY <2>3 DEF Ordered
<1>8. ASSUME NEW i \in Remembered', NEW j \in Remembered', i < j,
             NEW a \in DOMAIN memory, memory[a] = StateOf(log'[i])
      PROVE  \E b \in DOMAIN memory : b > a /\ memory[b] = StateOf(log'[j])
  <2>1. i \in Remembered
    BY <1>2, <1>3, <1>8
  <2>2. CASE j \in Remembered
    BY <1>3, <1>8, <2>1, <2>2 DEF Ordered
  <2>3. CASE j = n
    <3>1. memory # <<>> /\ memory[Len(memory)] = StateOf(run) /\ log'[j] = Entry
      BY <1>1, <1>4, <1>8, <2>3
    <3>2. a # Len(memory)
      BY <1>3, <1>6, <1>8, <2>1, <3>1 DEF StateOf
    <3> WITNESS Len(memory) \in DOMAIN memory
    <3> QED BY <1>4, <1>5, <1>8, <2>3, <3>1, <3>2
  <2> QED BY <1>2, <2>2, <2>3
<1> QED BY <1>7, <1>8 DEF Ordered

LEMMA MemoryCases ==
  ASSUME Next
  PROVE  (PersistAnalysisState /\ Remembers(run)) \/ memory' = memory
BY DEF PersistAnalysisState, Next, Work, NoFiles, ResolveAndProfile, ScopeLiteral, ScopeOut, ScopeClarify, ScopeDirect,
   ScopeSql, AnswerFromSql, StreamToken, Streamed, CritiqueAnswer, Raise,
   SaveRun, SaveRunFails, SendFinal, SendError, SendDone, Accept, Crash, Ask, Abort, Controller,
   Read, ReadEnd, FetchFails, agentVars

LEMMA OrderedStep ==
  ASSUME TypeOK, Calls, Ordered, Route, Next
  PROVE  Ordered'
<1>1. CASE PersistAnalysisState /\ Remembers(run)
  BY <1>1, OrderedOfPersist
<1>2. CASE memory' = memory /\ log' = log
  BY <1>2 DEF Ordered, Remembered, InMemory
<1>3. CASE memory' = memory /\ log' # log
  BY <1>3, LogCases, OrderedOfLog
<1> QED BY <1>1, <1>2, <1>3, MemoryCases
-----------------------------------------------------------------------------
(* The stream                                                              *)

(* A browser whose question is not the one being run, before or after.     *)
LEMMA WiredKept ==
  ASSUME NEW q \in Question, NEW k \in Nat, Wired(q, wire[q], chat[q], k),
         run.q # q, run'.q # q, wire'[q] = wire[q], chat'[q] = chat[q], conn'[q] = conn[q],
         \A answer : LoggedAs(q, answer) => LoggedAs(q, answer)'
  PROVE  Wired(q, wire[q], chat[q], k)'
<1>1. Whole(q, wire[q], chat[q], k) => Whole(q, wire[q], chat[q], k)'
  BY DEF Whole, WholeAs, Fits, Pieces, Good
<1>2. /\ Tokens(wire[q], k)' /\ chat'[q].got + k <= Chunks
      /\ \A i \in DOMAIN wire'[q] : wire'[q][i].type = "final" => wire'[q][i].answer \in Good
      /\ Failed(wire[q]) => Failed(wire[q])'
  BY DEF Wired, Tokens, Failed
<1>3. Running(q, wire[q], chat[q], k)'
  BY DEF Wired, Running
<1> QED BY <1>1, <1>2, <1>3 DEF Wired, Good

(* The same of the one being run, while nothing is written.                *)
LEMMA WiredWhileThinking ==
  ASSUME TypeOK, Calls, Settled, NEW q \in Question, q = run.q, NEW k \in Nat, Wired(q, wire[q], chat[q], k),
         UNCHANGED chat, Thinks \/ PersistAnalysisState \/ SaveRun \/ SaveRunFails
  PROVE  Wired(q, wire[q], chat[q], k)'
<1> DEFINE s == wire[q]
           g == chat[q].got
<1>0. /\ run \in RunState /\ run.q = q /\ conn[q] = "open" /\ s \in Seq(Event)
      /\ g \in 0..Chunks
  BY TypeNow DEF Events, Turn
<1>1. UNCHANGED <<wire, conn>> /\ run'.q = q
  <2>1. run.pc # "idle"
    BY <1>0, NobodyAssumption DEF Calls
  <2>2. CASE Thinks
    BY <1>0, <2>2, ThinksLeaves, ThinksRun
  <2>3. CASE PersistAnalysisState \/ SaveRun
    BY <1>0, <2>3 DEF PersistAnalysisState, SaveRun, Goto, RunState
  <2>4. CASE SaveRunFails
    <3>1. run' = Fresh("error", q) /\ UNCHANGED <<wire, conn>>
      BY <1>0, <2>4 DEF SaveRunFails, Fresh
    <3> QED BY <3>1, FreshRun
  <2> QED BY <2>2, <2>3, <2>4
<1>2. /\ run.pc \in {"files", "scope", "sql"} => s = <<>> /\ g = 0
      /\ run.pc \in {"streaming", "critic"} => run.answer \in Good \ {"filled"}
      /\ run.pc \in {"persist", "log"} => run.answer \in Good
      /\ run.pc = "streaming" => g + k + run.left = Pieces(run.answer)
      /\ run.pc = "critic" => g + k = Pieces(run.answer)
      /\ run.pc \in {"persist", "log"} => Fits(g + k, run.answer)
      /\ run.pc # "bye" => Len(s) = k /\ chat[q].final = "none"
  BY <1>0 DEF Wired, Running
<1>3. s = <<>> => k = 0
  BY DEF Wired, Tokens
<1> DEFINE Fine(r) ==
      /\ r.pc \in {"files", "scope", "sql"} => s = <<>> /\ g = 0
      /\ r.pc \in {"streaming", "critic"} => r.answer \in Good \ {"filled"}
      /\ r.pc \in {"persist", "log", "final"} => r.answer \in Good
      /\ r.pc = "streaming" => g + k + r.left = Pieces(r.answer)
      /\ r.pc = "critic" => g + k = Pieces(r.answer)
      /\ r.pc \in {"persist", "log", "final"} => Fits(g + k, r.answer)
      /\ r.pc # "bye" /\ Len(s) = k /\ chat[q].final = "none"
<1>4. Fine(run')
  <2> USE <1>0, <1>2, <1>3 DEF At, Goto, Good
  <2>1. CASE NoFiles
    <3>1. run'.pc = "streaming" /\ run'.answer = "first" /\ run'.left = Chunks /\ run.pc = "files"
      BY <2>1 DEF NoFiles, RunState
    <3> QED BY <3>1, ChunksAssumption DEF Pieces
  <2>2. CASE ResolveAndProfile
    <3>1. run'.pc = "scope"
      BY <2>2 DEF ResolveAndProfile, RunState
    <3> QED BY <2>2, <3>1 DEF ResolveAndProfile
  <2>3. CASE ScopeLiteral
    <3>1. run'.pc = "log" /\ run'.answer = "first" /\ run.pc = "scope"
      BY <2>3 DEF ScopeLiteral, RunState
    <3>2. Fits(g + k, "first")
      BY <3>1 DEF Fits
    <3> QED BY <3>1, <3>2
  <2>4. CASE ScopeOut \/ ScopeClarify \/ ScopeDirect \/ AnswerFromSql
    <3>1. PICK answer \in {"first", "second", "empty"}, then \in {"log", "persist", "critic?"} :
            run' = [run EXCEPT !.pc = "streaming", !.answer = answer, !.then = then,
                               !.left = IF answer = "empty" THEN 0 ELSE Chunks]
      BY <2>4, StreamCases
    <3>2. run.pc \in {"scope", "sql"}
      BY <2>4, StreamCases
    <3>3. run'.pc = "streaming" /\ run'.answer = answer /\ run'.left = Pieces(answer)
      BY <3>1 DEF RunState, Pieces
    <3>4. s = <<>> /\ g = 0 /\ k = 0 /\ Len(s) = k /\ chat[q].final = "none"
      BY <3>2
    <3>5. 0 + 0 + Pieces(answer) = Pieces(answer)
      BY ChunksAssumption DEF Pieces
    <3>6. g + k + run'.left = Pieces(run'.answer)
      BY <3>3, <3>4, <3>5
    <3> QED BY <3>1, <3>3, <3>4, <3>6
  <2>5. CASE ScopeSql
    BY <2>5 DEF ScopeSql, RunState
  <2>6. CASE Streamed
    <3>1. run.then \in {"critic?", "persist", "log"} /\ run.left = 0 /\ run.pc = "streaming"
      BY <2>6 DEF Streamed, Settled, Carried, RunState
    <3> PICK node \in {"critic", "persist", "log"} :
          run' = [run EXCEPT !.pc = node, !.then = "none"]
      BY <2>6, <3>1 DEF Streamed
    <3>2. run'.pc = node /\ run'.answer = run.answer
      BY DEF RunState
    <3>3. g + k = Pieces(run.answer)
      BY <3>1
    <3> QED BY <3>1, <3>2, <3>3 DEF Fits
  <2>7. CASE CritiqueAnswer
    <3> PICK answer \in {run.answer, Revised(run.answer)} :
          run' = [run EXCEPT !.pc = "persist", !.answer = answer]
      BY <2>7 DEF CritiqueAnswer
    <3>1. run.pc = "critic" /\ run'.pc = "persist" /\ run'.answer = answer
      BY <2>7 DEF CritiqueAnswer, RunState
    <3>2. answer \in Good /\ Pieces(answer) = Pieces(run.answer)
      BY <3>1 DEF Revised, Pieces
    <3> QED BY <3>1, <3>2 DEF Fits
  <2>8. CASE Raise \/ SaveRunFails
    <3>1. run' = Fresh("error", q) /\ run.pc # "bye"
      BY <2>8 DEF Raise, SaveRunFails, Fresh, Node
    <3> QED BY <3>1, FreshRun
  <2>9. CASE PersistAnalysisState \/ SaveRun
    <3>1. run'.pc \in {"log", "final"} /\ run'.answer = run.answer /\ run.pc \in {"persist", "log"}
      BY <2>9 DEF PersistAnalysisState, SaveRun, RunState
    <3> QED BY <3>1
  <2> QED BY <2>1, <2>2, <2>3, <2>4, <2>5, <2>6, <2>7, <2>8, <2>9 DEF Thinks
<1>5. Running(q, wire[q], chat[q], k)'
  BY <1>0, <1>1, <1>4 DEF Running
<1>6. run'.pc # "bye" /\ conn'[q] # "ended"
  BY <1>0, <1>1, <1>4
<1>7. /\ Tokens(wire[q], k) /\ chat[q].got + k <= Chunks
      /\ \A i \in DOMAIN wire[q] : wire[q][i].type = "final" => wire[q][i].answer \in Good
  BY DEF Wired
<1> QED BY <1>1, <1>5, <1>6, <1>7 DEF Wired, Tokens, Good

(* A token, and the events that end the stream.                            *)
LEMMA WiredToken ==
  ASSUME TypeOK, Calls, NEW q \in Question, q = run.q, q \notin gone, NEW k \in Nat,
         Wired(q, wire[q], chat[q], k), UNCHANGED chat, StreamToken
  PROVE  Wired(q, wire[q], chat[q], k + 1)'
<1> DEFINE s == wire[q]
           t == Append(s, Token)
           g == chat[q].got
<1>0. /\ run \in RunState /\ conn[q] = "open" /\ s \in Seq(Event) /\ g \in 0..Chunks
      /\ run.pc = "streaming" /\ run.left > 0
  BY TypeNow DEF Events, Turn, StreamToken, At
<1>1. /\ run'.pc = "streaming" /\ run'.q = q /\ run'.left = run.left - 1
      /\ run'.answer = run.answer /\ conn' = conn
  BY <1>0 DEF StreamToken, RunState
<1>2. wire'[q] = t
  BY <1>0, Sends, EventTypes DEF StreamToken
<1>3. /\ Tokens(s, k) /\ Len(s) = k /\ g + k + run.left = Pieces(run.answer)
      /\ run.answer \in Good \ {"filled"} /\ chat[q].final = "none"
  BY <1>0 DEF Wired, Running
<1>4. /\ Len(t) = k + 1 /\ t[k + 1] = Token /\ Token.type = "token"
      /\ DOMAIN t = 1..(k + 1) /\ \A i \in 1..k : t[i] = s[i] /\ s[i].type = "token"
  BY <1>0, <1>3, EventTypes DEF Tokens, Token
<1> HIDE DEF t
<1>5. Tokens(t, k + 1) /\ \A i \in DOMAIN t : t[i].type = "token"
  BY <1>4 DEF Tokens
<1>6. g + (k + 1) <= Chunks /\ g + (k + 1) + run'.left = Pieces(run.answer)
  <2>1. run.left \in Nat /\ g \in Nat /\ Chunks \in Nat /\ Pieces(run.answer) \in {0, Chunks}
    BY <1>0, ChunksAssumption DEF RunState, Pieces
  <2>2. g + k + run.left = Pieces(run.answer) /\ run.left > 0 /\ run'.left = run.left - 1
    BY <1>0, <1>1, <1>3
  <2> HIDE DEF g
  <2> QED BY <2>1, <2>2
<1>7. Running(q, wire[q], chat[q], k + 1)'
  BY <1>0, <1>1, <1>2, <1>3, <1>4, <1>6 DEF Running
<1>8. run'.pc # "bye" /\ conn'[q] # "ended"
  BY <1>0, <1>1
<1> QED BY <1>2, <1>5, <1>6, <1>7, <1>8 DEF Wired

LEMMA WiredEnd ==
  ASSUME TypeOK, Calls, NEW q \in Question, q = run.q, q \notin gone, NEW k \in Nat,
         Wired(q, wire[q], chat[q], k), UNCHANGED chat, SendFinal \/ SendError \/ SendDone
  PROVE  Wired(q, wire[q], chat[q], k)'
<1> DEFINE s == wire[q]
           g == chat[q].got
<1>0. /\ run \in RunState /\ conn[q] = "open" /\ s \in Seq(Event) /\ g \in 0..Chunks
      /\ Tokens(s, k) /\ g + k <= Chunks /\ DOMAIN s = 1..Len(s) /\ Len(s) \in Nat
      /\ \A i \in DOMAIN s : s[i].type = "final" => s[i].answer \in Good
  BY TypeNow DEF Events, Turn, Wired
<1>1. \A answer : LoggedAs(q, answer)' <=> LoggedAs(q, answer)
  BY DEF SendFinal, SendError, SendDone, LoggedAs, Logged
<1>2. ASSUME NEW e \in Event, e.type \in {"final", "error", "done"}
      PROVE  LET t == Append(s, e)
             IN /\ Tokens(t, k) /\ Len(t) = Len(s) + 1 /\ t[Len(s) + 1] = e
                /\ DOMAIN t = 1..(Len(s) + 1) /\ \A i \in DOMAIN s : t[i] = s[i]
  <2> DEFINE t == Append(s, e)
  <2>1. /\ Len(t) = Len(s) + 1 /\ t[Len(s) + 1] = e
        /\ DOMAIN t = 1..(Len(s) + 1) /\ \A i \in DOMAIN s : t[i] = s[i]
    BY <1>0, <1>2
  <2> HIDE DEF t
  <2>2. k \in 0..Len(s) /\ \A i \in DOMAIN s : s[i].type = "token" <=> i <= k
    BY <1>0 DEF Tokens
  <2>3. ASSUME NEW i \in DOMAIN t PROVE t[i].type = "token" <=> i <= k
    <3>1. CASE i \in DOMAIN s
      BY <2>1, <2>2, <3>1
    <3>2. CASE i = Len(s) + 1
      <4>1. t[i] = e /\ e.type # "token"
        BY <1>2, <2>1, <3>2
      <4>2. ~(i <= k)
        BY <1>0, <2>2, <3>2
      <4> QED BY <4>1, <4>2
    <3>3. i \in DOMAIN s \/ i = Len(s) + 1
      BY <1>0, <2>1
    <3> QED BY <3>1, <3>2, <3>3
  <2>4. Tokens(t, k)
    BY <1>0, <2>1, <2>2, <2>3 DEF Tokens
  <2> QED BY <2>1, <2>4 DEF t
<1>3. CASE SendFinal
  <2>1. /\ run.pc = "final" /\ run.answer \in Good /\ Fits(g + k, run.answer) /\ Len(s) = k
        /\ chat[q].final = "none" /\ LoggedAs(q, run.answer)
        /\ run'.pc = "bye" /\ run'.q = q /\ conn' = conn
    BY <1>0, <1>3 DEF SendFinal, At, Goto, RunState, Wired, Running, Calls
  <2> DEFINE e == Final(run.answer)
             t == Append(s, e)
  <2>2. e \in Event /\ e.type = "final" /\ e.answer = run.answer
    BY <1>0, EventTypes DEF Final, RunState
  <2>3. wire'[q] = t
    BY <1>3, <2>2, Sends DEF SendFinal
  <2> HIDE DEF e
  <2>4. /\ Tokens(t, k) /\ Len(t) = k + 1 /\ t[k + 1] = e /\ DOMAIN t = 1..(k + 1)
        /\ \A i \in DOMAIN s : t[i] = s[i]
    BY <1>2, <2>1, <2>2
  <2> HIDE DEF t
  <2>5. \A i \in 1..k : s[i].type = "token" /\ t[i] = s[i]
    BY <1>0, <2>1, <2>4 DEF Tokens
  <2>6. \A i \in DOMAIN t : (t[i].type = "final" => t[i].answer = run.answer) /\ t[i].type # "done"
    BY <2>1, <2>2, <2>4, <2>5
  <2>7. g + k = 0 => t # <<>> /\ t[1].type = "final"
    BY <1>0, <2>2, <2>4
  <2>8. WholeAs(t, chat'[q], k, run.answer)
    BY <2>1, <2>6, <2>7 DEF WholeAs
  <2>9. \E answer \in Good : LoggedAs(q, answer)' /\ WholeAs(t, chat'[q], k, answer)
    BY <1>1, <2>1, <2>8
  <2>10. Whole(q, wire[q], chat[q], k)'
    BY <2>3, <2>9 DEF Whole, WholeAs, Fits, Pieces, Good
  <2>11. Running(q, wire[q], chat[q], k)'
    BY <1>0, <2>1, <2>3, <2>6 DEF Running
  <2>12. \A i \in DOMAIN t : t[i].type = "final" => t[i].answer \in Good
    BY <2>1, <2>6
  <2> QED BY <1>0, <2>3, <2>4, <2>10, <2>11, <2>12 DEF Wired, Tokens, Good
<1>4. CASE SendError
  <2>1. /\ Len(s) = k /\ run'.pc = "bye" /\ run'.q = q /\ conn' = conn
    BY <1>0, <1>4 DEF SendError, At, Goto, RunState, Wired, Running
  <2> DEFINE t == Append(s, Error)
  <2>2. Error \in Event /\ Error.type = "error"
    BY EventTypes DEF Error
  <2>3. wire'[q] = t
    BY <1>4, <2>2, Sends DEF SendError
  <2>4. /\ Tokens(t, k) /\ Len(t) = k + 1 /\ t[k + 1] = Error /\ DOMAIN t = 1..(k + 1)
        /\ \A i \in DOMAIN s : t[i] = s[i]
    BY <1>2, <2>1, <2>2
  <2> HIDE DEF t
  <2>5. \A i \in 1..k : s[i].type = "token" /\ t[i] = s[i]
    BY <1>0, <2>1, <2>4 DEF Tokens
  <2>6. \A i \in DOMAIN t : t[i].type \notin {"final", "done"}
    BY <2>1, <2>2, <2>4, <2>5
  <2>7. Failed(t)
    BY <2>2, <2>4, <2>5 DEF Failed
  <2>8. Running(q, wire[q], chat[q], k)'
    BY <1>0, <2>1, <2>3, <2>6 DEF Running
  <2>9. Failed(wire[q])'
    BY <2>3, <2>7 DEF Failed
  <2> QED BY <1>0, <2>3, <2>4, <2>6, <2>8, <2>9 DEF Wired, Tokens
<1>5. CASE SendDone
  <2>1. /\ run.pc = "bye" /\ run'.q = Nobody /\ conn'[q] = "ended"
        /\ Failed(s) \/ Whole(q, s, chat[q], k)
    BY <1>0, <1>5, IdleRun, TypeNow DEF SendDone, At, Wired
  <2> DEFINE t == Append(s, Done)
  <2>2. Done \in Event /\ Done.type = "done"
    BY EventTypes DEF Done
  <2>3. wire'[q] = t
    BY <1>5, <2>2, Sends DEF SendDone
  <2>4. /\ Tokens(t, k) /\ Len(t) = Len(s) + 1 /\ t[Len(s) + 1] = Done /\ DOMAIN t = 1..(Len(s) + 1)
        /\ \A i \in DOMAIN s : t[i] = s[i]
    BY <1>2, <2>2
  <2> HIDE DEF t
  <2>5. ASSUME NEW i \in DOMAIN t, t[i].type = "final" PROVE i \in DOMAIN s /\ s[i] = t[i]
    BY <1>0, <2>2, <2>4, <2>5
  <2>6. Failed(s) => Failed(t)
    <3> SUFFICES ASSUME NEW i \in DOMAIN s, s[i].type = "error", \A j \in 1..(i - 1) : s[j].type = "token"
                 PROVE  Failed(t)
      BY DEF Failed
    <3>1. i \in DOMAIN t /\ t[i].type = "error"
      BY <1>0, <2>4
    <3>2. \A j \in 1..(i - 1) : j \in DOMAIN s
      BY <1>0
    <3>3. \A j \in 1..(i - 1) : t[j].type = "token"
      BY <2>4, <3>2
    <3> QED BY <3>1, <3>3 DEF Failed
  <2>7. ASSUME NEW answer, WholeAs(s, chat[q], k, answer) PROVE WholeAs(t, chat'[q], k, answer)
    <3>1. s # <<>> => t # <<>> /\ t[1] = s[1]
      BY <1>0, <2>4
    <3>2. \A i \in DOMAIN t : t[i].type = "final" => t[i].answer = answer
      BY <2>5, <2>7 DEF WholeAs
    <3> QED BY <2>7, <3>1, <3>2 DEF WholeAs
  <2>8. Whole(q, s, chat[q], k) => Whole(q, wire[q], chat[q], k)'
    <3> SUFFICES ASSUME NEW answer \in Good, LoggedAs(q, answer), WholeAs(s, chat[q], k, answer)
                 PROVE  Whole(q, wire[q], chat[q], k)'
      BY DEF Whole
    <3>1. answer \in Good /\ LoggedAs(q, answer)' /\ WholeAs(wire'[q], chat'[q], k, answer)
      BY <1>1, <2>3, <2>7
    <3> QED BY <3>1 DEF Whole, WholeAs, Fits, Pieces, Good
  <2>9. Failed(wire[q])' \/ Whole(q, wire[q], chat[q], k)'
    BY <2>1, <2>3, <2>6, <2>8 DEF Failed
  <2>10. Running(q, wire[q], chat[q], k)'
    BY <2>1, NobodyAssumption DEF Running
  <2>11. \A i \in DOMAIN t : t[i].type = "final" => t[i].answer \in Good
    BY <1>0, <2>5
  <2> QED BY <1>0, <2>3, <2>4, <2>9, <2>10, <2>11 DEF Wired, Tokens, Good
<1> QED BY <1>3, <1>4, <1>5

LEMMA StreamsOfAgents ==
  ASSUME TypeOK, Calls, Settled, Streams, Agents, UNCHANGED chat, Next
  PROVE  Streams'
<1> SUFFICES ASSUME NEW q \in Question, chat[q].pc = "reading"
             PROVE  \E k \in Nat : Wired(q, wire[q], chat[q], k)'
  BY DEF Streams
<1> PICK k \in Nat : Wired(q, wire[q], chat[q], k)
  BY DEF Streams
<1>1. q \notin gone
  BY DEF Calls
<1>2. CASE q # run.q
  <2>1. run'.q # q /\ conn'[q] = conn[q] /\ wire'[q] = wire[q]
    BY <1>2, AgentMoves, IdleRun, NobodyAssumption, TypeNow
  <2> QED BY <1>2, <2>1, WiredKept, LoggedCases
<1>3. CASE q = run.q
  BY <1>1, <1>3, WiredWhileThinking, WiredToken, WiredEnd DEF Agents, Ends
<1> QED BY <1>2, <1>3

LEMMA StreamsOfAccept ==
  ASSUME TypeOK, Calls, Streams, NEW q \in Question, Accept(q), UNCHANGED chat
  PROVE  Streams'
<1>1. /\ run' = Fresh("files", q) /\ run'.pc = "files" /\ run'.q = q
      /\ run.q = Nobody /\ conn[q] = "queued"
  BY FreshRun DEF Accept, Fresh, At, Calls
<1>2. conn' = [conn EXCEPT ![q] = "open"] /\ UNCHANGED <<wire, log>>
  BY DEF Accept
<1> SUFFICES ASSUME NEW p \in Question, chat[p].pc = "reading"
             PROVE  \E k \in Nat : Wired(p, wire[p], chat[p], k)'
  BY DEF Streams
<1> PICK k \in Nat : Wired(p, wire[p], chat[p], k)
  BY DEF Streams
<1>3. CASE p # q
  BY <1>1, <1>2, <1>3, WiredKept, TypeNow, NobodyAssumption DEF Logged, LoggedAs
<1>4. CASE p = q
  <2>1. wire[p] = <<>> /\ chat[p].got = 0 /\ chat[p].final = "none" /\ k = 0 /\ conn'[p] = "open"
    BY <1>1, <1>2, <1>4, TypeNow DEF Wired, Running, Tokens
  <2> QED BY <1>1, <1>2, <1>4, <2>1 DEF Wired, Running, Tokens
<1> QED BY <1>3, <1>4

LEMMA StreamsOfCrash == ASSUME TypeOK, Calls, Streams, Crash, UNCHANGED chat PROVE Streams'
<1>1. run' = Idle /\ run'.q = Nobody /\ UNCHANGED <<wire, log>>
  BY IdleRun DEF Crash
<1> SUFFICES ASSUME NEW p \in Question, chat[p].pc = "reading"
             PROVE  \E k \in Nat : Wired(p, wire[p], chat[p], k)'
  BY DEF Streams
<1> PICK k \in Nat : Wired(p, wire[p], chat[p], k)
  BY DEF Streams
<1>2. /\ conn'[p] \in {"none", "queued", "reset"} => conn[p] \in {"none", "queued", "reset"}
      /\ conn'[p] = "ended" => conn[p] = "ended"
  BY DEF Crash
<1>3. Running(p, wire[p], chat[p], k)'
  BY <1>1, <1>2, NobodyAssumption DEF Wired, Running
<1>4. Whole(p, wire[p], chat[p], k) => Whole(p, wire[p], chat[p], k)'
  BY <1>1 DEF Whole, WholeAs, Fits, Pieces, Good, Logged, LoggedAs
<1> QED BY <1>1, <1>2, <1>3, <1>4, NobodyAssumption DEF Wired, Tokens, Failed, Good

(* A browser that has nothing to do with the step.                         *)
LEMMA WiredSame ==
  ASSUME NEW q \in Question, NEW k \in Nat, Wired(q, wire[q], chat[q], k), UNCHANGED <<run, log>>,
         wire'[q] = wire[q], chat'[q] = chat[q], conn'[q] = conn[q]
  PROVE  Wired(q, wire[q], chat[q], k)'
<1>1. Running(q, wire[q], chat[q], k)'
  BY DEF Wired, Running, Fits, Pieces, Good
<1>2. Whole(q, wire[q], chat[q], k) => Whole(q, wire[q], chat[q], k)'
  BY DEF Whole, WholeAs, Fits, Pieces, Good, Logged, LoggedAs
<1> QED BY <1>1, <1>2 DEF Wired, Tokens, Failed, Good

(* The rest of a stream whose first event has been read.                   *)
LEMMA Rest ==
  ASSUME NEW s \in Seq(Event), s # <<>>
  PROVE  /\ Len(s) \in Nat /\ Len(s) > 0 /\ DOMAIN s = 1..Len(s) /\ 1 \in DOMAIN s /\ s[1] = Head(s)
         /\ Len(Tail(s)) = Len(s) - 1 /\ DOMAIN Tail(s) = 1..(Len(s) - 1)
         /\ \A i \in DOMAIN Tail(s) : i + 1 \in DOMAIN s /\ Tail(s)[i] = s[i + 1]
OBVIOUS

LEMMA WiredReadsToken ==
  ASSUME TypeOK, Calls, NEW q \in Question, NEW e, Takes(q, e), e.type = "token", Consumes(q),
         chat' = [chat EXCEPT ![q].got = @ + 1], NEW k \in Nat, Wired(q, wire[q], chat[q], k)
  PROVE  k - 1 \in Nat /\ Wired(q, wire[q], chat[q], k - 1)'
<1> DEFINE s == wire[q]
           t == Tail(s)
           g == chat[q].got
<1>0. s \in Seq(Event) /\ s # <<>> /\ e = Head(s) /\ g \in 0..Chunks /\ run \in RunState
  BY TypeNow DEF Events, Takes, Turn
<1>1. /\ Len(s) \in Nat /\ Len(s) > 0 /\ DOMAIN s = 1..Len(s) /\ 1 \in DOMAIN s /\ s[1] = e
      /\ Len(t) = Len(s) - 1 /\ DOMAIN t = 1..(Len(s) - 1)
      /\ \A i \in DOMAIN t : i + 1 \in DOMAIN s /\ t[i] = s[i + 1]
  BY <1>0, Rest
<1>2. wire'[q] = t /\ UNCHANGED <<run, conn, log>>
  BY ConsumesType DEF Consumes
<1>3. chat'[q].got = g + 1 /\ chat'[q].final = chat[q].final
  BY TypeNow DEF Turn
<1> HIDE DEF t
<1>4. k \in 0..Len(s) /\ \A i \in DOMAIN s : s[i].type = "token" <=> i <= k
  BY DEF Wired, Tokens
<1>5. k >= 1
  BY <1>1, <1>4
<1>6. Tokens(t, k - 1)
  <2>1. k - 1 \in 0..Len(t)
    BY <1>1, <1>4, <1>5
  <2>2. ASSUME NEW i \in DOMAIN t PROVE t[i].type = "token" <=> i <= k - 1
    <3>1. i + 1 \in DOMAIN s /\ t[i] = s[i + 1] /\ i \in Nat
      BY <1>1
    <3>2. t[i].type = "token" <=> i + 1 <= k
      BY <1>4, <3>1
    <3> QED BY <3>1, <3>2
  <2> QED BY <2>1, <2>2 DEF Tokens
<1>7. (g + 1) + (k - 1) = g + k
  BY <1>0
<1>8. /\ \A i \in DOMAIN t : t[i].type = "final" => t[i].answer \in Good
      /\ (\A i \in DOMAIN s : s[i].type # "done") => \A i \in DOMAIN t : t[i].type # "done"
  BY <1>1 DEF Wired
<1>9. Failed(s) => Failed(t)
  <2> SUFFICES ASSUME NEW i \in DOMAIN s, s[i].type = "error", \A j \in 1..(i - 1) : s[j].type = "token"
               PROVE  Failed(t)
    BY DEF Failed
  <2>1. i # 1 /\ i - 1 \in DOMAIN t /\ t[i - 1] = s[i]
    BY <1>1
  <2>2. \A j \in 1..((i - 1) - 1) : j \in DOMAIN t /\ j + 1 \in 1..(i - 1)
    BY <1>1
  <2>3. \A j \in 1..((i - 1) - 1) : t[j].type = "token"
    BY <1>1, <2>2
  <2> QED BY <2>1, <2>3 DEF Failed
<1> DEFINE u == chat'[q]
<1>10. Whole(q, s, chat[q], k) => Whole(q, t, u, k - 1)
  <2> SUFFICES ASSUME NEW answer \in Good, LoggedAs(q, answer), WholeAs(s, chat[q], k, answer)
               PROVE  WholeAs(t, u, k - 1, answer)
    BY DEF Whole
  <2>1. g + k # 0 /\ u.got + (k - 1) = g + k /\ u.final = chat[q].final
    BY <1>0, <1>3, <1>5, <1>7
  <2>2. \A i \in DOMAIN t : t[i].type = "final" => t[i].answer = answer
    BY <1>1 DEF WholeAs
  <2> QED BY <2>1, <2>2 DEF WholeAs
<1>11. Running(q, s, chat[q], k) => Running(q, t, u, k - 1)
  <2> SUFFICES ASSUME Running(q, s, chat[q], k) PROVE Running(q, t, u, k - 1)
    OBVIOUS
  <2>1. conn[q] \notin {"none", "queued", "reset"}
    BY <1>0 DEF Running
  <2>2. run.q = q => run.pc \notin {"files", "scope", "sql"}
    BY <1>0 DEF Running
  <2>3. run.q = q /\ run.pc # "bye" => Len(t) = k - 1 /\ u.final = "none"
    BY <1>1, <1>3 DEF Running
  <2>4. run.q = q /\ run.pc = "streaming" => u.got + (k - 1) + run.left = Pieces(run.answer)
    BY <1>3, <1>7 DEF Running
  <2>5. u.got + (k - 1) = g + k
    BY <1>3, <1>7
  <2> QED BY <1>8, <2>1, <2>2, <2>3, <2>4, <2>5 DEF Running
<1>12. Running(q, s, chat[q], k) /\ g + k <= Chunks
       /\ (conn[q] = "ended" \/ (run.q = q /\ run.pc = "bye") => Failed(s) \/ Whole(q, s, chat[q], k))
  BY DEF Wired
<1>14. k - 1 \in Nat
  BY <1>5
<1>15. Running(q, wire[q], chat[q], k - 1)'
  <2>1. Running(q, t, u, k - 1)
    BY <1>11, <1>12
  <2> QED BY <1>2, <2>1 DEF Running, Fits, Pieces, Good
<1>16. /\ Tokens(wire'[q], k - 1) /\ chat'[q].got + (k - 1) <= Chunks
       /\ \A i \in DOMAIN wire'[q] : wire'[q][i].type = "final" => wire'[q][i].answer \in Good
  BY <1>2, <1>3, <1>6, <1>7, <1>8, <1>12
<1>17. Whole(q, t, u, k - 1) => Whole(q, wire[q], chat[q], k - 1)'
  BY <1>2 DEF Whole, WholeAs, Fits, Pieces, Good, LoggedAs, Logged
<1>18. (conn[q] = "ended" \/ (run.q = q /\ run.pc = "bye")) =>
         Failed(wire[q])' \/ Whole(q, wire[q], chat[q], k - 1)'
  BY <1>2, <1>9, <1>10, <1>12, <1>17 DEF Failed
<1> HIDE DEF u
<1> QED BY <1>2, <1>14, <1>15, <1>16, <1>18 DEF Wired, Tokens, Good

LEMMA WiredReadsFinal ==
  ASSUME TypeOK, Calls, NEW q \in Question, NEW e, Takes(q, e), e.type = "final", Consumes(q),
         chat' = [chat EXCEPT ![q].final = e.answer], NEW k \in Nat, Wired(q, wire[q], chat[q], k)
  PROVE  Wired(q, wire[q], chat[q], k)'
<1> DEFINE s == wire[q]
           t == Tail(s)
           g == chat[q].got
<1>0. s \in Seq(Event) /\ s # <<>> /\ e = Head(s) /\ g \in 0..Chunks /\ run \in RunState
  BY TypeNow DEF Events, Takes, Turn
<1>1. /\ Len(s) \in Nat /\ Len(s) > 0 /\ DOMAIN s = 1..Len(s) /\ 1 \in DOMAIN s /\ s[1] = e
      /\ Len(t) = Len(s) - 1 /\ DOMAIN t = 1..(Len(s) - 1)
      /\ \A i \in DOMAIN t : i + 1 \in DOMAIN s /\ t[i] = s[i + 1]
  BY <1>0, Rest
<1>2. wire'[q] = t /\ UNCHANGED <<run, conn, log>>
  BY ConsumesType DEF Consumes
<1>3. chat'[q].got = g /\ chat'[q].final = e.answer
  BY TypeNow DEF Turn
<1> HIDE DEF t
<1>4. /\ k \in 0..Len(s) /\ \A i \in DOMAIN s : s[i].type = "token" <=> i <= k
      /\ \A i \in DOMAIN s : s[i].type = "final" => s[i].answer \in Good
      /\ g + k <= Chunks /\ Running(q, s, chat[q], k)
      /\ (conn[q] = "ended" \/ (run.q = q /\ run.pc = "bye") => Failed(s) \/ Whole(q, s, chat[q], k))
  BY DEF Wired, Tokens
<1>5. k = 0 /\ e.answer \in Good
  BY <1>1, <1>4
<1>6. Tokens(t, k)
  <2>1. ASSUME NEW i \in DOMAIN t PROVE t[i].type # "token" /\ ~(i <= 0)
    BY <1>1, <1>4, <1>5
  <2> QED BY <1>1, <1>5, <2>1 DEF Tokens
<1>7. ~Failed(s)
  <2> SUFFICES ASSUME NEW i \in DOMAIN s, s[i].type = "error", \A j \in 1..(i - 1) : s[j].type = "token"
               PROVE  FALSE
    BY DEF Failed
  <2>1. i # 1
    BY <1>1
  <2>2. s[1].type = "token"
    BY <1>1, <2>1
  <2> QED BY <1>1, <2>2
<1> DEFINE u == chat'[q]
<1>8. Running(q, t, u, k)
  <2>1. conn[q] \notin {"none", "queued", "reset"}
    BY <1>0, <1>4 DEF Running
  <2>2. run.q = q => run.pc = "bye"
    BY <1>1, <1>4, <1>5 DEF Running
  <2>3. (\A i \in DOMAIN s : s[i].type # "done") => \A i \in DOMAIN t : t[i].type # "done"
    BY <1>1
  <2> QED BY <1>4, <2>1, <2>2, <2>3 DEF Running
<1>9. Whole(q, s, chat[q], k) => Whole(q, t, u, k)
  <2> SUFFICES ASSUME NEW answer \in Good, LoggedAs(q, answer), WholeAs(s, chat[q], k, answer)
               PROVE  WholeAs(t, u, k, answer)
    BY DEF Whole
  <2>1. u.got = g /\ u.final = answer
    BY <1>1, <1>3 DEF WholeAs
  <2>2. \A i \in DOMAIN t : t[i].type = "final" => t[i].answer = answer
    BY <1>1 DEF WholeAs
  <2> QED BY <2>1, <2>2 DEF WholeAs
<1>10. \A i \in DOMAIN t : t[i].type = "final" => t[i].answer \in Good
  BY <1>1, <1>4
<1>11. Whole(q, t, u, k) => Whole(q, wire[q], chat[q], k)'
  BY <1>2 DEF Whole, WholeAs, Fits, Pieces, Good, LoggedAs, Logged
<1>12. Running(q, wire[q], chat[q], k)'
  BY <1>2, <1>8 DEF Running, Fits, Pieces, Good
<1>13. /\ Tokens(wire'[q], k) /\ chat'[q].got + k <= Chunks
       /\ \A i \in DOMAIN wire'[q] : wire'[q][i].type = "final" => wire'[q][i].answer \in Good
  BY <1>2, <1>3, <1>4, <1>6, <1>10
<1>14. (conn[q] = "ended" \/ (run.q = q /\ run.pc = "bye")) =>
         Failed(wire[q])' \/ Whole(q, wire[q], chat[q], k)'
  BY <1>2, <1>4, <1>7, <1>9, <1>11
<1> HIDE DEF u
<1> QED BY <1>2, <1>12, <1>13, <1>14 DEF Wired, Tokens, Good

LEMMA StreamsOfCaller ==
  ASSUME TypeOK, Calls, Streams, NEW q \in Question, Ask(q) \/ Abort(q) \/ Controller(q)
  PROVE  Streams'
<1>0. UNCHANGED <<run, log>>
  BY DEF Ask, Abort, Controller, Read, ReadEnd, FetchFails, agentVars
<1>1. ASSUME NEW p \in Question, p # q
      PROVE  chat'[p] = chat[p] /\ wire'[p] = wire[p] /\ conn'[p] = conn[p]
  <2>1. CASE Ask(q)
    BY <1>1, <2>1, TypeNow DEF Ask
  <2>2. CASE Quits(q)
    BY <1>1, <2>2, HangUpType DEF Quits
  <2>3. CASE ReadEnd(q)
    BY <1>1, <2>3, SaveAnswerType DEF ReadEnd, agentVars
  <2>4. ASSUME NEW e, Takes(q, e), Consumes(q),
               \/ chat' = [chat EXCEPT ![q].got = @ + 1] \/ chat' = [chat EXCEPT ![q].final = e.answer]
               \/ Shows(q)
        PROVE  chat'[p] = chat[p] /\ wire'[p] = wire[p] /\ conn'[p] = conn[p]
    <3>1. chat'[p] = chat[p]
      BY <1>1, <2>4, SaveAnswerType, TypeNow DEF Shows
    <3> QED BY <1>1, <2>4, <3>1, ConsumesType DEF Consumes
  <2>5. CASE Read(q)
    BY <2>2, <2>4, <2>5, ReadCases
  <2> QED BY <2>1, <2>2, <2>3, <2>5 DEF Abort, Controller, FetchFails, Quits
<1>2. SUFFICES ASSUME NEW p \in Question, chat'[p].pc = "reading"
               PROVE  \E k \in Nat : Wired(p, wire[p], chat[p], k)'
  BY DEF Streams
<1>3. CASE p # q
  <2>1. PICK k \in Nat : Wired(p, wire[p], chat[p], k)
    BY <1>1, <1>2, <1>3 DEF Streams
  <2> QED BY <1>0, <1>1, <1>3, <2>1, WiredSame
<1>4. CASE p = q /\ Ask(q)
  <2>1. /\ chat[q] = Unasked /\ conn[q] = "none" /\ wire[q] = <<>> /\ wire' = wire
        /\ chat' = [chat EXCEPT ![q].pc = "reading"] /\ conn' = [conn EXCEPT ![q] = "queued"]
    BY <1>4 DEF Ask, Calls
  <2>2. wire'[q] = <<>> /\ conn'[q] = "queued" /\ chat'[q].got = 0 /\ chat'[q].final = "none" /\ run.q # q
    BY <2>1, TypeNow DEF Unasked
  <2>3. Tokens(<<>>, 0) /\ DOMAIN <<>> = {} /\ 0 \in Nat
    BY DEF Tokens
  <2>4. Wired(q, wire[q], chat[q], 0)'
    BY <1>0, <2>2, <2>3, ChunksAssumption DEF Wired, Running
  <2> QED BY <1>4, <2>3, <2>4
<1>5. CASE p = q /\ Read(q)
  <2>1. chat[q].pc = "reading"
    BY <1>5 DEF Read
  <2>2. PICK k \in Nat : Wired(q, wire[q], chat[q], k)
    BY <2>1 DEF Streams
  <2>3. PICK e : Takes(q, e) /\
           \/ e.type = "error" /\ Quits(q)
           \/ e.type = "token" /\ Consumes(q) /\ chat' = [chat EXCEPT ![q].got = @ + 1]
           \/ e.type = "final" /\ Consumes(q) /\ chat' = [chat EXCEPT ![q].final = e.answer]
           \/ e.type = "done" /\ Consumes(q) /\ Shows(q)
    BY <1>5, ReadCases
  <2>4. ~Quits(q) /\ ~Shows(q)
    BY <1>2, <1>5, HangUpType, SaveAnswerType DEF Quits, Shows
  <2>5. CASE e.type = "token"
    BY <1>5, <2>2, <2>3, <2>4, <2>5, WiredReadsToken
  <2>6. CASE e.type = "final"
    BY <1>5, <2>2, <2>3, <2>4, <2>6, WiredReadsFinal
  <2> QED BY <2>3, <2>4, <2>5, <2>6
<1>6. CASE p = q /\ (Abort(q) \/ FetchFails(q) \/ ReadEnd(q))
  BY <1>2, <1>6, HangUpType, SaveAnswerType DEF Abort, FetchFails, ReadEnd
<1> QED BY <1>3, <1>4, <1>5, <1>6 DEF Controller
-----------------------------------------------------------------------------
(* What is saved                                                           *)

(* At the end of a stream that was not cut: the answer is all there.       *)
LEMMA WholeAtEnd ==
  ASSUME TypeOK, Streams, NEW q \in Question, chat[q].pc = "reading", conn[q] = "ended",
         wire[q] = <<>> \/ (\E e : Takes(q, e) /\ e.type = "done"), SaveAnswer(q)
  PROVE  \E answer \in Good :
           LoggedAs(q, answer) /\ chat'[q].text = IF answer = "second" THEN "first" ELSE answer
<1> DEFINE s == wire[q]
           g == chat[q].got
<1> PICK k \in Nat : Wired(q, wire[q], chat[q], k)
  BY DEF Streams
<1>0. s \in Seq(Event) /\ g \in 0..Chunks
  BY TypeNow DEF Events, Turn
<1>1. k \in 0..Len(s) /\ \A i \in DOMAIN s : s[i].type = "token" <=> i <= k
  BY DEF Wired, Tokens
<1>2. Failed(s) \/ Whole(q, s, chat[q], k)
  BY DEF Wired
<1>3. k = 0 /\ ~Failed(s) /\ (s = <<>> \/ s[1].type = "done")
  <2>1. CASE s = <<>>
    <3>1. DOMAIN s = {} /\ k = 0
      BY <1>1, <2>1
    <3> QED BY <2>1, <3>1 DEF Failed
  <2>2. CASE s # <<>>
    <3>1. DOMAIN s = 1..Len(s) /\ 1 \in DOMAIN s /\ s[1].type = "done"
      BY <1>0, <2>2, Rest DEF Takes
    <3>2. k = 0
      BY <1>1, <3>1
    <3>3. ~Failed(s)
      <4> SUFFICES ASSUME NEW i \in DOMAIN s, s[i].type = "error", \A j \in 1..(i - 1) : s[j].type = "token"
                   PROVE  FALSE
        BY DEF Failed
      <4>1. i # 1
        BY <3>1
      <4>2. s[1].type = "token"
        BY <3>1, <4>1
      <4> QED BY <3>1, <4>2
    <3> QED BY <3>1, <3>2, <3>3
  <2> QED BY <2>1, <2>2
<1>4. PICK answer \in Good : LoggedAs(q, answer) /\ WholeAs(s, chat[q], 0, answer)
  BY <1>2, <1>3 DEF Whole
<1>5. Fits(g, answer) /\ (g = 0 => chat[q].final = answer)
  <2>1. g + 0 = g
    BY <1>0
  <2>2. s # <<>> => s[1].type # "final"
    BY <1>3
  <2> QED BY <1>4, <2>1, <2>2 DEF WholeAs
<1>6. CASE g = 0
  <2>1. answer # "second"
    BY <1>5, <1>6, ChunksAssumption DEF Fits, Pieces
  <2> QED BY <1>4, <1>5, <1>6, <2>1, SaveAnswerType
<1>7. CASE g # 0
  <2>1. g = Chunks /\ answer \in {"first", "second"}
    BY <1>4, <1>5, <1>7 DEF Fits, Pieces, Good
  <2> QED BY <1>4, <2>1, SaveAnswerType
<1> QED BY <1>6, <1>7

(* The step that saves.                                                    *)
LEMMA SavingCases ==
  ASSUME TypeOK, Next, NEW q \in Question, chat'[q].pc = "saved", chat[q].pc # "saved"
  PROVE  /\ chat[q].pc = "reading" /\ SaveAnswer(q) /\ UNCHANGED <<conn, log>>
         /\ \/ wire[q] = <<>> /\ conn[q] \in {"ended", "cut"}
            \/ \E e : Takes(q, e) /\ e.type = "done"
<1>1. PICK p \in Question : Ask(p) \/ Abort(p) \/ Controller(p)
  BY DEF Next
<1>2. ~Ask(p)
  <2> SUFFICES ASSUME Ask(p) PROVE FALSE
    OBVIOUS
  <2>1. chat'[p].pc = "reading" /\ \A r \in Question \ {p} : chat'[r] = chat[r]
    BY TypeNow DEF Ask, Turn
  <2> QED BY <2>1
<1>3. ~Quits(p)
  <2> SUFFICES ASSUME Quits(p) PROVE FALSE
    OBVIOUS
  <2>1. chat'[p].pc = "failed" /\ \A r \in Question \ {p} : chat'[r] = chat[r]
    BY HangUpType DEF Quits
  <2> QED BY <2>1
<1>4. CASE ReadEnd(p)
  <2>1. p = q
    BY <1>4, SaveAnswerType DEF ReadEnd
  <2> QED BY <1>4, <2>1 DEF ReadEnd, agentVars
<1>5. CASE Read(p)
  <2>1. PICK e : Takes(p, e) /\
           \/ e.type = "error" /\ Quits(p)
           \/ e.type = "token" /\ Consumes(p) /\ chat' = [chat EXCEPT ![p].got = @ + 1]
           \/ e.type = "final" /\ Consumes(p) /\ chat' = [chat EXCEPT ![p].final = e.answer]
           \/ e.type = "done" /\ Consumes(p) /\ Shows(p)
    BY <1>5, ReadCases
  <2>2. e.type = "done" /\ Shows(p)
    <3> SUFFICES ASSUME chat' = [chat EXCEPT ![p].got = @ + 1] \/ chat' = [chat EXCEPT ![p].final = e.answer]
                 PROVE  FALSE
      BY <1>3, <2>1
    <3>1. chat'[p].pc = chat[p].pc /\ \A r \in Question \ {p} : chat'[r] = chat[r]
      BY TypeNow DEF Turn
    <3> QED BY <3>1
  <2>3. p = q
    BY <2>2, SaveAnswerType DEF Shows
  <2> QED BY <2>1, <2>2, <2>3 DEF Shows, Takes
<1> QED BY <1>1, <1>2, <1>3, <1>4, <1>5 DEF Abort, Controller, FetchFails, Quits

(* What is saved stays, and a connection that was cut was cut.             *)
LEMMA SavedStays ==
  ASSUME TypeOK, Calls, Settled, Next, NEW q \in Question
  PROVE  /\ chat[q].pc = "saved" => chat'[q] = chat[q]
         /\ conn[q] = "cut" => conn'[q] = "cut"
<1>1. CASE Agents /\ UNCHANGED chat
  <2>1. run.q \in Question /\ conn[run.q] = "open"
    BY <1>1, AgentMoves, BusyHasQuestion
  <2>2. conn'[q] = conn[q] \/ q = run.q
    BY <1>1, AgentMoves, TypeNow
  <2> QED BY <1>1, <2>1, <2>2
<1>2. ASSUME NEW p \in Question, Accept(p), UNCHANGED chat
      PROVE  chat'[q] = chat[q] /\ (conn[q] = "cut" => conn'[q] = "cut")
  BY <1>2, TypeNow DEF Accept
<1>3. CASE Crash /\ UNCHANGED chat
  BY <1>3 DEF Crash
<1>4. ASSUME NEW p \in Question, Ask(p) \/ Abort(p) \/ Controller(p)
      PROVE  chat[q].pc = "saved" => chat'[q] = chat[q]
  <2>1. p = q => chat[q].pc # "saved"
    BY <1>4 DEF Ask, Abort, Controller, Read, ReadEnd, FetchFails
  <2>2. p # q => chat'[q] = chat[q]
    <3>1. CASE Ask(p)
      BY <3>1, TypeNow DEF Ask
    <3>2. CASE Quits(p)
      BY <3>2, HangUpType DEF Quits
    <3>3. CASE ReadEnd(p)
      BY <3>3, SaveAnswerType DEF ReadEnd
    <3>4. CASE Read(p)
      BY <3>2, <3>4, ReadCases, SaveAnswerType, TypeNow DEF Shows
    <3> QED BY <1>4, <3>1, <3>2, <3>3, <3>4 DEF Abort, Controller, FetchFails, Quits
  <2> QED BY <2>1, <2>2
<1>5. ASSUME NEW p \in Question, Ask(p) \/ Abort(p) \/ Controller(p)
      PROVE  conn[q] = "cut" => conn'[q] = "cut"
  <2>1. CASE Ask(p)
    <3>1. conn[p] = "none" /\ conn' = [conn EXCEPT ![p] = "queued"]
      BY <2>1 DEF Ask, Calls
    <3> QED BY <3>1, TypeNow
  <2>2. CASE ~Ask(p)
    BY <1>5, <2>2 DEF Abort, Controller, Read, ReadEnd, FetchFails, agentVars
  <2> QED BY <2>1, <2>2
<1> QED BY <1>1, <1>2, <1>3, <1>4, <1>5, AgentSteps DEF Next

LEMMA SavedStep ==
  ASSUME TypeOK, Calls, Settled, Streams, Saved, Next
  PROVE  Saved'
<1> DEFINE As(text, answer) == text = IF answer = "second" THEN "first" ELSE answer
<1> SUFFICES ASSUME NEW q \in Question, chat'[q].pc = "saved", conn'[q] # "cut"
             PROVE  /\ chat'[q].text \in Good /\ Logged(q)'
                    /\ \A i \in DOMAIN log' : log'[i].q = q => As(chat'[q].text, log'[i].answer)
  BY DEF Saved, SavedIsWhole, ShownIsComposed, Answer, Good, Logged
<1>1. CASE chat[q].pc = "saved"
  <2>1. chat'[q] = chat[q] /\ conn[q] # "cut"
    BY <1>1, SavedStays
  <2>2. /\ chat[q].text \in Good /\ Logged(q)
        /\ \A i \in DOMAIN log : log[i].q = q => As(chat[q].text, log[i].answer)
    BY <1>1, <2>1 DEF Saved, SavedIsWhole, ShownIsComposed, Answer, Good, Logged
  <2>3. Logged(q)' /\ \A i \in DOMAIN log' : log'[i].q = q => i \in DOMAIN log /\ log'[i] = log[i]
    BY <2>2, LoggedCases
  <2> HIDE DEF As
  <2> QED BY <2>1, <2>2, <2>3
<1>2. CASE chat[q].pc # "saved"
  <2>1. /\ chat[q].pc = "reading" /\ SaveAnswer(q) /\ UNCHANGED <<conn, log>>
        /\ \/ wire[q] = <<>> /\ conn[q] \in {"ended", "cut"}
           \/ \E e : Takes(q, e) /\ e.type = "done"
    BY <1>2, SavingCases
  <2>2. conn[q] \in {"ended", "cut"}
    BY <2>1, DoneIsEnd
  <2>3. conn[q] = "ended"
    BY <2>1, <2>2
  <2>4. PICK answer \in Good : LoggedAs(q, answer) /\ As(chat'[q].text, answer)
    BY <2>1, <2>3, WholeAtEnd
  <2>5. chat'[q].text \in Good
    BY <2>4 DEF Good
  <2>6. Logged(q)' /\ \A i \in DOMAIN log' : log'[i].q = q => log'[i].answer = answer
    BY <2>1, <2>4 DEF Logged, LoggedAs
  <2> HIDE DEF As
  <2> QED BY <2>4, <2>5, <2>6
<1> QED BY <1>1, <1>2
-----------------------------------------------------------------------------
(* The invariant is inductive                                              *)

LEMMA InvInit == Init => IInv
<1> SUFFICES ASSUME Init PROVE IInv
  OBVIOUS
<1>1. TypeOK
  BY TypeInit
<1>2. /\ run = Idle /\ Idle.pc = "idle" /\ Idle.q = Nobody /\ gone = {}
      /\ memory = <<>> /\ log = <<>>
      /\ \A q \in Question : conn[q] = "none" /\ wire[q] = <<>> /\ chat[q] = Unasked
  BY IdleRun DEF Init, AgentInit
<1>3. DOMAIN log = {} /\ Remembered = {}
  BY <1>2 DEF Remembered
<1>4. Unasked.pc = "idle"
  BY DEF Unasked
<1>5. Calls
  BY <1>2, <1>3, <1>4 DEF Calls, Busy, Node, Logged
<1>6. Settled /\ Route
  BY <1>2 DEF Settled, Carried, Route
<1>7. PendingIsOpen /\ Ordered
  BY <1>3 DEF PendingIsOpen, Ordered
<1>8. Streams /\ Saved
  BY <1>2, <1>4 DEF Streams, Saved, SavedIsWhole, ShownIsComposed
<1> QED BY <1>1, <1>5, <1>6, <1>7, <1>8 DEF IInv

LEMMA InvStep == IInv /\ [Next]_vars => IInv'
<1> SUFFICES ASSUME IInv, [Next]_vars PROVE IInv'
  OBVIOUS
<1>0. TypeOK /\ Calls /\ Settled /\ PendingIsOpen /\ Ordered /\ Route /\ Streams /\ Saved
  BY DEF IInv
<1>1. CASE UNCHANGED vars
  <2>1. UNCHANGED <<run, conn, wire, gone, pending, memory, log, crashes, chat>>
    BY <1>1 DEF vars, agentVars
  <2>2. TypeOK' /\ Calls' /\ Settled' /\ Route'
    BY <1>0, <2>1 DEF TypeOK, AgentTypeOK, Calls, Settled, Route, Logged, LoggedAs
  <2>3. PendingIsOpen' /\ Ordered' /\ Saved'
    BY <1>0, <2>1 DEF PendingIsOpen, Ordered, Remembered, InMemory, Saved, SavedIsWhole, ShownIsComposed
  <2>4. Streams'
    BY <1>0, <2>1, WiredSame DEF Streams
  <2> QED BY <2>2, <2>3, <2>4 DEF IInv
<1>2. CASE Next
  <2>1. PendingIsOpen' /\ Ordered' /\ Saved'
    BY <1>0, <1>2, PendingStep, OrderedStep, SavedStep
  <2>2. CASE Agents /\ UNCHANGED chat
    <3>1. TypeOK' /\ Calls' /\ Settled' /\ Route' /\ Streams'
      BY <1>0, <1>2, <2>2, TypeOfAgents, CallsOfAgents, SettledOfAgents, RouteOfAgents, StreamsOfAgents
    <3> QED BY <2>1, <3>1 DEF IInv
  <2>3. ASSUME NEW q \in Question, Accept(q), UNCHANGED chat PROVE IInv'
    <3>1. TypeOK' /\ Calls' /\ Streams'
      BY <1>0, <2>3, TypeOfAccept, CallsOfAccept, StreamsOfAccept
    <3>2. run'.pc = "files"
      BY <2>3, FreshRun DEF Accept, Fresh
    <3>3. Settled' /\ Route'
      BY <3>2 DEF Settled, Carried, Route
    <3> QED BY <2>1, <3>1, <3>3 DEF IInv
  <2>4. CASE Crash /\ UNCHANGED chat
    <3>1. TypeOK' /\ Calls' /\ Streams'
      BY <1>0, <2>4, TypeOfCrash, CallsOfCrash, StreamsOfCrash
    <3>2. run'.pc = "idle"
      BY <2>4, IdleRun DEF Crash
    <3>3. Settled' /\ Route'
      BY <3>2 DEF Settled, Carried, Route
    <3> QED BY <2>1, <3>1, <3>3 DEF IInv
  <2>5. ASSUME NEW q \in Question, Ask(q) \/ Abort(q) \/ Controller(q) PROVE IInv'
    <3>1. TypeOK' /\ Calls' /\ Streams'
      BY <1>0, <2>5, TypeOfCaller, CallsOfCaller, StreamsOfCaller
    <3>2. UNCHANGED <<run, pending, memory>>
      BY <2>5 DEF Ask, Abort, Controller, Read, ReadEnd, FetchFails, agentVars
    <3>3. Settled' /\ Route'
      BY <1>0, <3>2 DEF Settled, Route
    <3> QED BY <2>1, <3>1, <3>3 DEF IInv
  <2> QED BY <1>2, <2>2, <2>3, <2>4, <2>5, AgentSteps DEF Next
<1> QED BY <1>1, <1>2

-----------------------------------------------------------------------------
(* What the critic is needed for.  It approves every answer:               *)
Approves == CritiqueAnswer => run'.answer = run.answer

Approved ==
  /\ run.plan = "sql" /\ run.pc \in {"streaming", "critic", "persist", "log"} => run.answer # "second"
  /\ \A i \in DOMAIN log : log[i].plan = "sql" => log[i].answer # "second"

LEMMA ApprovedOfThinks ==
  ASSUME TypeOK, Calls, Settled, Approved, Approves, Thinks
  PROVE  Approved'
<1>0. log' = log /\ run \in RunState
  BY TypeNow, ThinksLeaves
<1> SUFFICES ASSUME run'.plan = "sql", run'.pc \in {"streaming", "critic", "persist", "log"}
             PROVE  run'.answer # "second"
  BY <1>0 DEF Approved
<1>1. ~NoFiles /\ ~ResolveAndProfile /\ ~ScopeSql
  BY <1>0 DEF NoFiles, ResolveAndProfile, ScopeSql, Goto, RunState
<1>2. ~ScopeLiteral /\ ~ScopeOut /\ ~ScopeClarify /\ ~ScopeDirect
  BY <1>0 DEF ScopeLiteral, ScopeOut, ScopeClarify, ScopeDirect, Stream, RunState
<1>3. CASE AnswerFromSql
  BY <1>0, <1>3 DEF AnswerFromSql, Stream, RunState
<1>4. CASE Streamed
  BY <1>0, <1>4 DEF Streamed, At, Approved, RunState
<1>5. CASE CritiqueAnswer
  BY <1>0, <1>5 DEF CritiqueAnswer, Approves, At, Approved, RunState
<1>6. ~Raise
  <2> SUFFICES ASSUME Raise PROVE FALSE
    OBVIOUS
  <2>1. run' = Fresh("error", run.q) /\ run.q \in Question \cup {Nobody}
    BY <1>0 DEF Raise, Fresh, RunState
  <2> QED BY <2>1, FreshRun
<1> QED BY <1>1, <1>2, <1>3, <1>4, <1>5, <1>6 DEF Thinks

LEMMA ApprovedOfSaving ==
  ASSUME TypeOK, Approved, SaveRun \/ SaveRunFails
  PROVE  Approved'
<1>1. run \in RunState /\ log \in Seq(Doc) /\ run.pc = "log" /\ log' \in {log, Append(log, Entry)}
  BY TypeNow DEF SaveRun, SaveRunFails, At
<1>2. run'.pc \in {"final", "error"}
  <2>1. CASE SaveRun
    BY <1>1, <2>1 DEF SaveRun, Goto, RunState
  <2>2. CASE SaveRunFails
    <3>1. run' = Fresh("error", run.q) /\ run.q \in Question \cup {Nobody}
      BY <1>1, <2>2 DEF SaveRunFails, Fresh, RunState
    <3> QED BY <3>1, FreshRun
  <2> QED BY <2>1, <2>2
<1>3. Entry.plan = "sql" => Entry.answer # "second"
  BY <1>1 DEF Approved, Entry
<1>4. \A i \in DOMAIN log' : log'[i] = Entry \/ (i \in DOMAIN log /\ log'[i] = log[i])
  BY <1>1
<1> QED BY <1>2, <1>3, <1>4 DEF Approved

LEMMA ApprovedStep == ASSUME IInv, Approved, [Approves]_vars, [Next]_vars PROVE Approved'
<1>0. TypeOK /\ Calls /\ Settled /\ run \in RunState
  BY TypeNow DEF IInv
<1>1. CASE UNCHANGED vars
  BY <1>1 DEF vars, agentVars, Approved
<1>2. CASE ~UNCHANGED vars /\ Thinks
  BY <1>0, <1>2, ApprovedOfThinks
<1>3. CASE StreamToken \/ PersistAnalysisState
  <2>1. /\ log' = log /\ run'.plan = run.plan /\ run'.answer = run.answer
        /\ run.pc \in {"streaming", "persist"}
    BY <1>0, <1>3 DEF StreamToken, PersistAnalysisState, Goto, At, RunState
  <2> QED BY <2>1 DEF Approved
<1>4. CASE SaveRun \/ SaveRunFails
  BY <1>0, <1>4, ApprovedOfSaving
<1>5. CASE SendFinal \/ SendError \/ SendDone \/ Crash \/ \E q \in Question : Accept(q)
  <2>1. log' = log
    BY <1>5 DEF SendFinal, SendError, SendDone, Crash, Accept
  <2>2. run'.pc \in {"bye", "idle", "files"}
    <3>1. CASE SendFinal \/ SendError
      BY <1>0, <3>1 DEF SendFinal, SendError, Goto, RunState
    <3>2. CASE SendDone \/ Crash
      BY <3>2, IdleRun DEF SendDone, Crash
    <3>3. ASSUME NEW q \in Question, Accept(q) PROVE run'.pc = "files"
      <4>1. run' = Fresh("files", q)
        BY <3>3 DEF Accept, Fresh
      <4> QED BY <4>1, FreshRun
    <3> QED BY <1>5, <3>1, <3>2, <3>3
  <2> QED BY <2>1, <2>2 DEF Approved
<1>6. ASSUME NEW q \in Question, Ask(q) \/ Abort(q) \/ Controller(q) PROVE Approved'
  <2>1. UNCHANGED <<run, log>>
    BY <1>6 DEF Ask, Abort, Controller, Read, ReadEnd, FetchFails, agentVars
  <2> QED BY <2>1 DEF Approved
<1> QED BY <1>1, <1>2, <1>3, <1>4, <1>5, <1>6, AgentSteps DEF Next, Agents, Ends

-----------------------------------------------------------------------------
(* How long the server is held                                             *)

LEMMA RunLeftType == ASSUME TypeOK PROVE RunLeft \in 0..(9 + Chunks)
<1>1. run \in RunState
  BY TypeNow
<1>2. run.left \in 0..Chunks
  BY <1>1 DEF RunState
<1>3. run.pc \in {"idle", "bye", "final", "error", "log", "persist", "critic", "streaming", "sql",
                 "scope", "files"}
  BY <1>1 DEF RunState, Node
<1>4. 6 + run.left \in 0..(9 + Chunks) /\ Chunks \in Nat \ {0}
  BY <1>2, ChunksAssumption
<1>5. CASE run.pc = "streaming"
  BY <1>4, <1>5 DEF RunLeft, At
<1>6. CASE run.pc # "streaming"
  <2>1. RunLeft \in {0, 1, 2, 3, 4, 5, 7 + Chunks, 8 + Chunks, 9 + Chunks}
    BY <1>3, <1>6 DEF RunLeft, At
  <2> QED BY <1>4, <2>1
<1> QED BY <1>5, <1>6

LEMMA RunNearer == ASSUME IInv, Work PROVE RunLeft' < RunLeft
<1>0. TypeOK /\ Calls /\ Settled /\ run \in RunState
  BY TypeNow DEF IInv
<1>1. run.left \in 0..Chunks
  BY <1>0 DEF RunState
<1> USE <1>1, ChunksAssumption DEF RunLeft, At
<1>2. CASE NoFiles
  <2>1. run'.pc = "streaming" /\ run'.left = Chunks
    BY <1>0, <1>2 DEF NoFiles, RunState
  <2> QED BY <1>2, <2>1 DEF NoFiles
<1>3. CASE ResolveAndProfile
  <2>1. run'.pc = "scope"
    BY <1>0, <1>3 DEF ResolveAndProfile, RunState
  <2> QED BY <1>3, <2>1 DEF ResolveAndProfile
<1>4. CASE ScopeLiteral
  <2>1. run'.pc = "log"
    BY <1>0, <1>4 DEF ScopeLiteral, RunState
  <2> QED BY <1>4, <2>1 DEF ScopeLiteral
<1>5. CASE ScopeOut \/ ScopeClarify \/ ScopeDirect \/ AnswerFromSql
  <2>1. run.pc \in {"scope", "sql"}
    BY <1>5 DEF ScopeOut, ScopeClarify, ScopeDirect, AnswerFromSql
  <2>2. run'.pc = "streaming" /\ run'.left \in {0, Chunks}
    BY <1>0, <1>5 DEF ScopeOut, ScopeClarify, ScopeDirect, AnswerFromSql, Stream, RunState
  <2> QED BY <2>1, <2>2
<1>6. CASE ScopeSql
  <2>1. run'.pc = "sql"
    BY <1>0, <1>6 DEF ScopeSql, Goto, RunState
  <2> QED BY <1>6, <2>1 DEF ScopeSql
<1>7. CASE StreamToken
  <2>1. run'.pc = run.pc /\ run'.left = run.left - 1
    BY <1>0, <1>7 DEF StreamToken, RunState
  <2> QED BY <1>7, <2>1 DEF StreamToken
<1>8. CASE Streamed
  <2>1. run.then \in {"critic?", "persist", "log"}
    BY <1>0, <1>8 DEF Streamed, Settled, Carried, RunState
  <2>2. run'.pc \in {"critic", "persist", "log"}
    BY <1>0, <1>8, <2>1 DEF Streamed, RunState
  <2> QED BY <1>8, <2>2 DEF Streamed
<1>9. CASE CritiqueAnswer
  <2>1. run'.pc = "persist"
    BY <1>0, <1>9 DEF CritiqueAnswer, RunState
  <2> QED BY <1>9, <2>1 DEF CritiqueAnswer
<1>10. CASE PersistAnalysisState
  <2>1. run'.pc = "log"
    BY <1>0, <1>10 DEF PersistAnalysisState, Goto, RunState
  <2> QED BY <1>10, <2>1 DEF PersistAnalysisState
<1>11. CASE Raise \/ SaveRunFails
  <2>1. run.q \in Question \cup {Nobody} /\ run' = Fresh("error", run.q)
    BY <1>0, <1>11 DEF Raise, SaveRunFails, Fresh, RunState
  <2>2. run'.pc = "error"
    BY <2>1, FreshRun
  <2>3. run.pc \in Node \cup {"log"}
    BY <1>11 DEF Raise, SaveRunFails
  <2> QED BY <2>2, <2>3 DEF Node
<1>12. CASE SaveRun
  <2>1. run'.pc = "final"
    BY <1>0, <1>12 DEF SaveRun, Goto, RunState
  <2> QED BY <1>12, <2>1 DEF SaveRun
<1>13. CASE SendFinal \/ SendError
  <2>1. run'.pc = "bye" /\ run.pc \in {"final", "error"}
    BY <1>0, <1>13 DEF SendFinal, SendError, Goto, RunState
  <2> QED BY <2>1
<1>14. CASE SendDone
  <2>1. run'.pc = "idle" /\ run.pc = "bye"
    BY <1>14, IdleRun DEF SendDone
  <2> QED BY <2>1
<1> QED BY <1>2, <1>3, <1>4, <1>5, <1>6, <1>7, <1>8, <1>9, <1>10, <1>11, <1>12, <1>13, <1>14
    DEF Work

-----------------------------------------------------------------------------
(* ChatTurn implements ChatPromise.  The abstract variables under the      *)
(* refinement mapping:                                                     *)
Phases == [q \in Question |-> chat[q].pc]
Told == [q \in Question |-> IF chat[q].pc = "saved" THEN chat[q].text ELSE "none"]
Recorded == [i \in DOMAIN log |-> log[i].q]
Torn == {q \in Question : conn[q] = "cut"}
AbsStep == [Promise!AbsNext]_(Promise!absVars)

LEMMA Stutters ==
  ASSUME UNCHANGED <<Phases, Told, Recorded, Torn>> PROVE AbsStep
BY DEF AbsStep, Promise!absVars, Phases, Told, Recorded, Torn

LEMMA StepsOf ==
  ASSUME NEW q \in Question, Promise!Record(q) \/ Promise!Tear(q) PROVE AbsStep
BY DEF AbsStep, Promise!AbsNext

LEMMA IsRecorded ==
  ASSUME TypeOK, NEW q \in Question
  PROVE  q \in Promise!Range(Recorded) <=> Logged(q)
<1>1. DOMAIN Recorded = DOMAIN log /\ \A i \in DOMAIN log : Recorded[i] = log[i].q
  BY DEF Recorded
<1>2. \A x : x \in Promise!Range(Recorded) <=> \E i \in DOMAIN Recorded : Recorded[i] = x
  BY DEF Promise!Range
<1> QED BY <1>1, <1>2 DEF Logged

(* A run that is logged puts its question at the end of the record.        *)
LEMMA RecordGrows ==
  ASSUME TypeOK, Entry \in Doc, Entry.q = run.q, log' = Append(log, Entry)
  PROVE  Recorded' = Append(Recorded, run.q)
<1> DEFINE n == Len(log)
<1>1. /\ DOMAIN log' = 1..(n + 1) /\ DOMAIN log = 1..n /\ n \in Nat
      /\ log'[n + 1] = Entry /\ \A i \in 1..n : log'[i] = log[i]
  BY LogGrows
<1>2. Entry.q \in Question /\ \A i \in 1..n : log[i].q \in Question
  <2>1. \A i \in 1..n : log[i] \in Doc
    BY TypeNow, <1>1
  <2> QED BY <2>1 DEF Doc
<1>3. Recorded \in Seq(Question) /\ Len(Recorded) = n
  <2>1. Recorded = [i \in 1..n |-> log[i].q]
    BY <1>1 DEF Recorded
  <2> QED BY <1>1, <1>2, <2>1
<1>4. Recorded' = [i \in 1..(n + 1) |-> log'[i].q]
  BY <1>1 DEF Recorded
<1>5. Append(Recorded, run.q) = [i \in 1..(n + 1) |-> IF i = n + 1 THEN run.q ELSE Recorded[i]]
  BY <1>2, <1>3
<1>6. \A i \in 1..(n + 1) : log'[i].q = IF i = n + 1 THEN run.q ELSE Recorded[i]
  <2>1. \A i \in 1..n : Recorded[i] = log[i].q /\ i # n + 1
    BY <1>1 DEF Recorded
  <2>2. ASSUME NEW i \in 1..(n + 1) PROVE i = n + 1 \/ i \in 1..n
    BY <1>1
  <2> QED BY <1>1, <2>1, <2>2
<1> QED BY <1>4, <1>5, <1>6

LEMMA AgentsRefine ==
  ASSUME TypeOK, Calls, Settled, Agents, UNCHANGED chat, Next
  PROVE  AbsStep
<1>0. run.q \in Question /\ conn[run.q] = "open"
  BY AgentMoves, BusyHasQuestion
<1> PICK q \in Question : q = run.q
  BY <1>0
<1>1. conn[q] = "open"
  BY <1>0
<1>2. UNCHANGED <<Phases, Told>>
  BY DEF Phases, Told
<1>3. UNCHANGED Torn
  <2>1. conn' = conn \/ conn' = [conn EXCEPT ![q] = "ended"]
    BY AgentMoves
  <2> QED BY <1>1, <2>1, TypeNow DEF Torn
<1>4. CASE log' = log
  BY <1>2, <1>3, <1>4, Stutters DEF Recorded
<1>5. CASE run.pc = "log" /\ Entry \in Doc /\ Entry.q = run.q /\ log' = Append(log, Entry)
  <2>1. Recorded' = Append(Recorded, q)
    BY <1>5, RecordGrows
  <2>2. q \notin Torn \cup Promise!Range(Recorded)
    BY <1>1, <1>5, IsRecorded DEF Calls, Busy, Torn
  <2>3. chat[q] \in Turn /\ chat[q].pc \notin {"idle", "saved"}
    BY <1>1, TypeNow DEF Calls
  <2>4. Phases[q] \in {"reading", "failed"}
    BY <1>1, <2>3 DEF Phases, Turn
  <2>5. Promise!Record(q)
    BY <1>2, <1>3, <2>1, <2>2, <2>4 DEF Promise!Record, Phases, Told, Recorded, Torn
  <2> QED BY <1>1, <2>5, StepsOf
<1> QED BY <1>4, <1>5, LogCases

LEMMA CrashRefines ==
  ASSUME TypeOK, Calls, Crash, UNCHANGED chat
  PROVE  AbsStep
<1>1. UNCHANGED <<Phases, Told, Recorded>>
  BY DEF Phases, Told, Recorded, Crash
<1>2. \A p \in Question : conn'[p] = "cut" <=> conn[p] \in {"open", "cut"}
  BY DEF Crash
<1>3. CASE run.q = Nobody
  <2>1. Torn' = Torn
    BY <1>2, <1>3, TypeNow, NobodyAssumption DEF Torn
  <2> QED BY <1>1, <2>1, Stutters
<1>4. CASE run.q \in Question
  <2> PICK q \in Question : q = run.q
    BY <1>4
  <2>1. Torn' = Torn \cup {q} /\ conn[q] = "open"
    BY <1>2, TypeNow DEF Torn
  <2>2. chat[q] \in Turn /\ chat[q].pc \notin {"idle", "saved"}
    BY <2>1, TypeNow DEF Calls
  <2>3. Phases[q] \in {"reading", "failed"}
    BY <2>2 DEF Phases, Turn
  <2>4. Promise!Tear(q)
    BY <1>1, <2>1, <2>3 DEF Promise!Tear, Phases, Told, Recorded, Torn
  <2> QED BY <2>4, StepsOf
<1> QED BY <1>3, <1>4, TypeNow DEF RunState

LEMMA AskRefines ==
  ASSUME TypeOK, Calls, NEW q \in Question, Ask(q)
  PROVE  AbsStep
<1> DEFINE turn == [chat[q] EXCEPT !.pc = "reading"]
<1>1. chat' = [chat EXCEPT ![q] = turn] /\ chat[q].pc = "idle" /\ log' = log
      /\ conn' = [conn EXCEPT ![q] = "queued"]
  BY DEF Ask
<1>2. turn.pc = "reading" /\ chat \in [Question -> Turn]
  BY TypeNow DEF Turn
<1> HIDE DEF turn
<1>3. Phases' = [Phases EXCEPT ![q] = "reading"] /\ Phases[q] = "idle"
  BY <1>1, <1>2 DEF Phases
<1>4. Told' = Told
  BY <1>1, <1>2 DEF Told
<1>5. Torn' = Torn /\ Recorded' = Recorded
  BY <1>1, TypeNow DEF Torn, Recorded, Calls
<1>6. Promise!Put(q)
  BY <1>3, <1>4, <1>5 DEF Promise!Put, Phases, Told, Recorded, Torn
<1> QED BY <1>6 DEF AbsStep, Promise!AbsNext

LEMMA QuitsRefines ==
  ASSUME TypeOK, NEW q \in Question, chat[q].pc = "reading", Quits(q)
  PROVE  AbsStep
<1>1. /\ chat \in [Question -> Turn] /\ chat' \in [Question -> Turn] /\ chat'[q].pc = "failed"
      /\ \A p \in Question \ {q} : chat'[p] = chat[p]
  BY TypeNow, HangUpType DEF Quits
<1>2. Phases' = [Phases EXCEPT ![q] = "failed"] /\ Phases[q] = "reading"
  BY <1>1 DEF Phases
<1>3. Told' = Told
  BY <1>1 DEF Told
<1>4. Torn' = Torn /\ Recorded' = Recorded
  BY DEF Torn, Recorded, Quits
<1>5. Promise!Fail(q)
  BY <1>2, <1>3, <1>4 DEF Promise!Fail, Phases, Told, Recorded, Torn
<1> QED BY <1>5 DEF AbsStep, Promise!AbsNext

(* The answer is saved whole and after it is logged, or it was torn.       *)
LEMMA SavingRefines ==
  ASSUME TypeOK, Calls, Settled, Streams, Saved, NEW q \in Question, Next,
         chat[q].pc = "reading", SaveAnswer(q)
  PROVE  AbsStep
<1>1. /\ chat \in [Question -> Turn] /\ chat' \in [Question -> Turn] /\ chat'[q].pc = "saved"
      /\ \A p \in Question \ {q} : chat'[p] = chat[p]
  BY TypeNow, SaveAnswerType
<1>2. UNCHANGED <<conn, log>>
  BY <1>1, SavingCases
<1> DEFINE text == chat'[q].text
<1>3. text \in Answer \cup {"part"}
  BY <1>1 DEF Turn
<1>4. q \in Torn \/ (text \in Answer \ {"none"} /\ q \in Promise!Range(Recorded))
  <2>1. SavedIsWhole'
    BY SavedStep DEF Saved
  <2>2. conn[q] = "cut" \/ (text \in Answer \ {"none"} /\ \E i \in DOMAIN log : log[i].q = q)
    BY <1>1, <1>2, <2>1 DEF SavedIsWhole
  <2> QED BY <2>2, IsRecorded DEF Torn, Logged
<1>5. Phases' = [Phases EXCEPT ![q] = "saved"] /\ Phases[q] = "reading"
  BY <1>1 DEF Phases
<1>6. Told' = [Told EXCEPT ![q] = text]
  BY <1>1 DEF Told
<1>7. Torn' = Torn /\ Recorded' = Recorded
  BY <1>2 DEF Torn, Recorded
<1> HIDE DEF text
<1>8. Promise!Answer(q)
  BY <1>3, <1>4, <1>5, <1>6, <1>7 DEF Promise!Answer, Phases, Told, Recorded, Torn
<1> QED BY <1>8 DEF AbsStep, Promise!AbsNext

LEMMA ReadRefines ==
  ASSUME TypeOK, Calls, Settled, Streams, Saved, NEW q \in Question, Next, Read(q)
  PROVE  AbsStep
<1>0. PICK e : Takes(q, e) /\
        \/ e.type = "error" /\ Quits(q)
        \/ e.type = "token" /\ Consumes(q) /\ chat' = [chat EXCEPT ![q].got = @ + 1]
        \/ e.type = "final" /\ Consumes(q) /\ chat' = [chat EXCEPT ![q].final = e.answer]
        \/ e.type = "done" /\ Consumes(q) /\ Shows(q)
  BY ReadCases
<1>1. chat[q].pc = "reading" /\ chat \in [Question -> Turn]
  BY <1>0, TypeNow DEF Takes
<1>2. CASE Quits(q)
  BY <1>1, <1>2, QuitsRefines
<1>3. CASE Shows(q)
  BY <1>1, <1>3, SavingRefines DEF Shows
<1>4. CASE /\ Consumes(q)
           /\ \/ chat' = [chat EXCEPT ![q].got = @ + 1]
              \/ chat' = [chat EXCEPT ![q].final = e.answer]
  <2>1. \A p \in Question : chat'[p].pc = chat[p].pc /\ chat'[p].text = chat[p].text
    BY <1>1, <1>4 DEF Turn
  <2>2. UNCHANGED <<Phases, Told>>
    BY <2>1 DEF Phases, Told
  <2>3. UNCHANGED <<Recorded, Torn>>
    BY <1>4 DEF Recorded, Torn, Consumes
  <2> QED BY <2>2, <2>3, Stutters
<1> QED BY <1>0, <1>2, <1>3, <1>4

LEMMA StepRefines == IInv /\ [Next]_vars => AbsStep
<1> SUFFICES ASSUME IInv, [Next]_vars PROVE AbsStep
  OBVIOUS
<1>0. TypeOK /\ Calls /\ Settled /\ Streams /\ Saved
  BY DEF IInv
<1>1. CASE UNCHANGED vars
  BY <1>1, Stutters DEF vars, agentVars, Phases, Told, Recorded, Torn
<1>2. CASE Next /\ Agents /\ UNCHANGED chat
  BY <1>0, <1>2, AgentsRefine
<1>3. ASSUME NEW q \in Question, Accept(q), UNCHANGED chat PROVE AbsStep
  <2>1. UNCHANGED <<Phases, Told, Recorded>>
    BY <1>3 DEF Phases, Told, Recorded, Accept
  <2>2. Torn' = Torn
    BY <1>0, <1>3, TypeNow DEF Torn, Accept
  <2> QED BY <2>1, <2>2, Stutters
<1>4. CASE Crash /\ UNCHANGED chat
  BY <1>0, <1>4, CrashRefines
<1>5. ASSUME NEW q \in Question, Next, Ask(q) \/ Abort(q) \/ Controller(q) PROVE AbsStep
  <2>1. CASE Ask(q)
    BY <1>0, <2>1, AskRefines
  <2>2. CASE Abort(q) \/ FetchFails(q)
    BY <1>0, <2>2, QuitsRefines DEF Abort, FetchFails, Quits
  <2>3. CASE Read(q)
    BY <1>0, <1>5, <2>3, ReadRefines
  <2>4. CASE ReadEnd(q)
    BY <1>0, <1>5, <2>4, SavingRefines DEF ReadEnd
  <2> QED BY <1>5, <2>1, <2>2, <2>3, <2>4 DEF Controller
<1> QED BY <1>1, <1>2, <1>3, <1>4, <1>5, AgentSteps DEF Next

LEMMA AbsInitHolds == Init => Promise!AbsInit
<1> SUFFICES ASSUME Init PROVE Promise!AbsInit
  OBVIOUS
<1>1. chat = [q \in Question |-> Unasked] /\ conn = [q \in Question |-> "none"] /\ log = <<>>
  BY DEF Init, AgentInit
<1>2. Unasked.pc = "idle"
  BY DEF Unasked
<1>3. Phases = [q \in Question |-> "idle"] /\ Told = [q \in Question |-> "none"]
  BY <1>1, <1>2 DEF Phases, Told
<1>4. Torn = {}
  BY <1>1 DEF Torn
<1>5. Recorded = <<>>
  BY <1>1 DEF Recorded
<1> QED BY <1>3, <1>4, <1>5 DEF Promise!AbsInit, Phases, Told, Recorded, Torn

-----------------------------------------------------------------------------
(* What becomes of a clarification                                         *)

(* A run has no plan before it has its files.                              *)
Unplanned == run.pc = "files" => run.plan = "none"

LostOrFailed ==
  \/ \E q \in Question : conn[q] \in {"ended", "cut"} /\ Unlogged(q)
  \/ ~At("idle") /\ Unlogged(run.q) /\ (run.plan \in Settling \/ run.pc \in {"error", "bye"})

(* What a step does to the plan of the run, and to the clarification.      *)
LEMMA PlanMoves ==
  ASSUME TypeOK, Calls, Settled, Unplanned, Agents, ~SendDone
  PROVE  /\ run'.pc # "files" /\ run'.pc # "idle" /\ run'.q = run.q
         /\ run.pc # "files" => run'.plan = run.plan \/ run'.pc = "error"
         /\ pending' # pending => run.plan \in Settling /\ run'.plan = run.plan
         /\ run.pc \in {"error", "bye"} => run'.pc = "bye"
<1>0. run \in RunState
  BY TypeNow
<1> USE <1>0 DEF At, Goto, Stream
<1>1. CASE NoFiles
  BY <1>1 DEF NoFiles, RunState
<1>2. CASE ResolveAndProfile
  <2> PICK plan \in Plan \ {"none", "no_files"}, feedback \in Feedback :
        run' = [run EXCEPT !.pc = "scope", !.plan = plan, !.feedback = feedback]
    BY <1>2 DEF ResolveAndProfile
  <2> QED BY <1>2 DEF RunState, ResolveAndProfile
<1>3. CASE ScopeLiteral
  BY <1>3 DEF ScopeLiteral, RunState
<1>4. CASE ScopeOut \/ ScopeClarify \/ ScopeDirect \/ AnswerFromSql
  <2>1. PICK answer \in {"first", "second", "empty"}, then \in {"log", "persist", "critic?"} :
          run' = [run EXCEPT !.pc = "streaming", !.answer = answer, !.then = then,
                             !.left = IF answer = "empty" THEN 0 ELSE Chunks]
    BY <1>4, StreamCases
  <2>2. run.pc \in {"scope", "sql"}
    BY <1>4, StreamCases
  <2>3. pending' # pending => run.plan \in Settling
    BY <1>4 DEF ScopeOut, ScopeClarify, ScopeDirect, AnswerFromSql, Settling
  <2> QED BY <2>1, <2>2, <2>3 DEF RunState
<1>5. CASE ScopeSql
  BY <1>5 DEF ScopeSql, RunState, Settling
<1>6. CASE Streamed
  <2>1. run.then \in {"critic?", "persist", "log"}
    BY <1>6 DEF Streamed, Settled, Carried, RunState
  <2> PICK node \in {"critic", "persist", "log"} :
        run' = [run EXCEPT !.pc = node, !.then = "none"]
    BY <1>6, <2>1 DEF Streamed
  <2> QED BY <1>6 DEF RunState, Streamed
<1>7. CASE CritiqueAnswer
  <2> PICK answer \in {run.answer, Revised(run.answer)} :
        run' = [run EXCEPT !.pc = "persist", !.answer = answer]
    BY <1>7 DEF CritiqueAnswer
  <2> QED BY <1>7 DEF RunState, CritiqueAnswer
<1>8. CASE Raise \/ SaveRunFails
  <2>1. run.q \in Question \cup {Nobody} /\ run' = Fresh("error", run.q)
    BY <1>8 DEF Raise, SaveRunFails, RunState, Fresh
  <2>2. run.pc \notin {"error", "bye"} /\ pending' = pending
    BY <1>8 DEF Raise, SaveRunFails, Node
  <2> QED BY <2>1, <2>2, FreshRun
<1>9. CASE StreamToken
  BY <1>9 DEF StreamToken, RunState
<1>10. CASE PersistAnalysisState \/ SaveRun \/ SendFinal \/ SendError
  BY <1>10 DEF PersistAnalysisState, SaveRun, SendFinal, SendError, RunState
<1> QED
  BY <1>1, <1>2, <1>3, <1>4, <1>5, <1>6, <1>7, <1>8, <1>9, <1>10 DEF Agents, Thinks, Ends

LEMMA UnplannedStep ==
  ASSUME IInv, Unplanned, [Next]_vars PROVE Unplanned'
<1>1. TypeOK /\ Calls /\ Settled
  BY DEF IInv
<1>2. CASE Agents
  <2>1. CASE SendDone
    BY <2>1, IdleRun DEF SendDone, Unplanned
  <2> QED BY <1>1, <1>2, <2>1, PlanMoves DEF Unplanned
<1>3. ASSUME NEW q \in Question, Accept(q) PROVE Unplanned'
  BY <1>3 DEF Accept, Unplanned, Idle
<1>4. CASE Crash
  BY <1>4, IdleRun DEF Crash, Unplanned
<1>5. CASE run' = run
  BY <1>5 DEF Unplanned
<1>6. ASSUME NEW q \in Question, Ask(q) \/ Abort(q) \/ Controller(q) PROVE run' = run
  BY <1>6 DEF Ask, Abort, Controller, Read, ReadEnd, FetchFails, agentVars
<1> QED BY <1>2, <1>3, <1>4, <1>5, <1>6, AgentSteps DEF Next, vars, agentVars

(* A question that failed stays one, as long as it is not logged.          *)
LEMMA FailedStays ==
  ASSUME TypeOK, Calls, Settled, Next, NEW q \in Question, conn[q] \in {"ended", "cut"}
  PROVE  conn'[q] = conn[q]
<1>0. conn \in [Question -> Connection]
  BY TypeNow
<1>1. CASE Agents
  <2>1. run.pc # "idle"
    BY <1>1, AgentMoves
  <2>2. run.q # q
    BY <2>1, BusyHasQuestion
  <2> QED BY <1>0, <1>1, <2>2, AgentMoves
<1>2. ASSUME NEW p \in Question, Accept(p) PROVE conn'[q] = conn[q]
  BY <1>0, <1>2 DEF Accept
<1>3. CASE Crash
  BY <1>0, <1>3 DEF Crash
<1>4. ASSUME NEW p \in Question, Ask(p) \/ Abort(p) \/ Controller(p) PROVE conn'[q] = conn[q]
  BY <1>0, <1>4 DEF Ask, Abort, Controller, Read, ReadEnd, FetchFails, agentVars, Calls
<1> QED BY <1>1, <1>2, <1>3, <1>4, AgentSteps DEF Next

(* A run that settles a clarification or fails does so until it is logged. *)
LEMMA LossStays ==
  ASSUME TypeOK, Calls, Settled, Unplanned, Next, log' = log, LostOrFailed
  PROVE  LostOrFailed'
<1>0. conn \in [Question -> Connection] /\ \A q \in Question : Unlogged(q)' = Unlogged(q)
  BY TypeNow DEF Unlogged
<1>1. ASSUME NEW q \in Question, conn[q] \in {"ended", "cut"}, Unlogged(q) PROVE LostOrFailed'
  BY <1>0, <1>1, FailedStays DEF LostOrFailed
<1>2. CASE ~At("idle") /\ Unlogged(run.q) /\ (run.plan \in Settling \/ run.pc \in {"error", "bye"})
  <2>1. run.q \in Question /\ conn[run.q] = "open" /\ run.pc # "idle"
    BY <1>2, BusyHasQuestion DEF At
  <2>2. CASE SendDone
    <3>1. conn'[run.q] = "ended"
      BY <1>0, <2>1, <2>2 DEF SendDone
    <3> QED BY <1>0, <1>2, <2>1, <3>1 DEF LostOrFailed
  <2>3. CASE Agents /\ ~SendDone
    <3>1. run.pc # "files" \/ run.plan \notin Settling
      BY DEF Unplanned, Settling
    <3>2. /\ run'.pc # "idle" /\ run'.q = run.q
          /\ run.pc # "files" => run'.plan = run.plan \/ run'.pc = "error"
          /\ run.pc \in {"error", "bye"} => run'.pc = "bye"
      BY <2>3, PlanMoves
    <3>3. Unlogged(run.q)'
      BY <1>2, <3>2 DEF Unlogged
    <3> QED BY <1>2, <3>1, <3>2, <3>3 DEF LostOrFailed, At, Unlogged
  <2>4. CASE Crash
    <3>1. conn'[run.q] = "cut"
      BY <1>0, <2>1, <2>4 DEF Crash
    <3> QED BY <1>0, <1>2, <2>1, <3>1 DEF LostOrFailed
  <2>5. ASSUME NEW q \in Question, Accept(q) PROVE FALSE
    BY <2>1, <2>5 DEF Accept, At
  <2>6. ASSUME NEW q \in Question, Ask(q) \/ Abort(q) \/ Controller(q) PROVE LostOrFailed'
    <3>1. run' = run
      BY <2>6 DEF Ask, Abort, Controller, Read, ReadEnd, FetchFails, agentVars
    <3> QED BY <1>2, <3>1 DEF LostOrFailed, At, Unlogged
  <2> QED BY <2>2, <2>3, <2>4, <2>5, <2>6, AgentSteps DEF Next
<1> QED BY <1>1, <1>2 DEF LostOrFailed

(* Whoever settles the clarification is the question being run.            *)
LEMMA SettlerRuns ==
  ASSUME TypeOK, Calls, Settled, Unplanned, Next, pending' # pending
  PROVE  log' = log /\ LostOrFailed'
<1>1. Agents
  <2>1. ~Crash /\ \A q \in Question : ~Accept(q) /\ ~Ask(q) /\ ~Abort(q) /\ ~Controller(q)
    BY DEF Crash, Accept, Ask, Abort, Controller, Read, ReadEnd, FetchFails, agentVars
  <2> QED BY <2>1, AgentSteps DEF Next
<1>2. ~SendDone /\ run.pc = "scope" /\ log' = log
  BY <1>1 DEF Agents, Thinks, Ends, NoFiles, ResolveAndProfile, ScopeLiteral, ScopeOut, ScopeClarify,
     ScopeDirect, ScopeSql, AnswerFromSql, Streamed, CritiqueAnswer, Raise, StreamToken,
     PersistAnalysisState, SaveRun, SaveRunFails, SendFinal, SendError, SendDone, At
<1>3. run'.pc # "idle" /\ run'.q = run.q /\ run.plan \in Settling /\ run'.plan = run.plan
  BY <1>1, <1>2, PlanMoves
<1>4. ~Logged(run.q)
  BY <1>2 DEF Calls, Busy, Node
<1>5. Unlogged(run.q)'
  BY <1>2, <1>3, <1>4 DEF Logged, Unlogged
<1> QED BY <1>2, <1>3, <1>5 DEF LostOrFailed, At, Unlogged

LEMMA UnansweredStep ==
  ASSUME IInv, Unplanned, UnansweredIsPending, [Next]_vars PROVE UnansweredIsPending'
<1>1. TypeOK /\ Calls /\ Settled
  BY DEF IInv
<1>2. ASSUME NEW i \in DOMAIN log, log[i].plan = "clarify"
      PROVE  \/ pending = log[i].q
             \/ \E j \in DOMAIN log : j > i /\ log[j].plan \in Settling
             \/ LostOrFailed
  BY <1>2 DEF UnansweredIsPending, LostOrFailed
<1> SUFFICES ASSUME NEW i \in DOMAIN log', log'[i].plan = "clarify"
             PROVE  \/ pending' = log'[i].q
                    \/ \E j \in DOMAIN log' : j > i /\ log'[j].plan \in Settling
                    \/ LostOrFailed'
  BY DEF UnansweredIsPending, LostOrFailed
<1>3. CASE UNCHANGED vars
  BY <1>2, <1>3 DEF vars, agentVars, LostOrFailed, Unlogged, At
<1>4. CASE Next /\ log' = log
  BY <1>1, <1>2, <1>4, SettlerRuns, LossStays
<1>5. CASE Next /\ run.pc = "log" /\ Entry \in Doc /\ Entry.q = run.q /\ log' = Append(log, Entry)
  <2>1. /\ DOMAIN log' = 1..(Len(log) + 1) /\ DOMAIN log = 1..Len(log) /\ Len(log) \in Nat
        /\ log'[Len(log) + 1] = Entry /\ \A j \in DOMAIN log : log'[j] = log[j]
    BY <1>1, <1>5, LogGrows
  <2>2. pending' = pending
    <3>1. log' # log
      BY <1>1, <1>5, LogGrows
    <3> QED BY <1>1, <1>5, <3>1, SettlerRuns
  <2>3. Entry.plan = run.plan /\ (run.plan = "clarify" => pending = run.q)
    BY <1>1, <1>5 DEF Entry, Settled, Carried
  <2>4. CASE i = Len(log) + 1
    BY <1>5, <2>1, <2>2, <2>3, <2>4
  <2>5. CASE i # Len(log) + 1 /\ Entry.plan \in Settling
    BY <2>1, <2>5
  <2>6. CASE i # Len(log) + 1 /\ Entry.plan \notin Settling
    <3>1. i \in DOMAIN log /\ log[i] = log'[i]
      BY <2>1, <2>6
    <3>2. ASSUME LostOrFailed PROVE LostOrFailed'
      <4>1. PICK q \in Question : conn[q] \in {"ended", "cut"} /\ Unlogged(q)
        BY <1>5, <2>3, <2>6, <3>2 DEF LostOrFailed
      <4>2. q # run.q
        BY <1>1, <1>5, <4>1, BusyHasQuestion
      <4>3. Unlogged(q)'
        BY <1>5, <2>1, <4>1, <4>2 DEF Unlogged
      <4> QED BY <1>1, <1>5, <4>1, <4>3, FailedStays DEF LostOrFailed
    <3> QED BY <1>2, <2>1, <2>2, <3>1, <3>2
  <2> QED BY <2>4, <2>5, <2>6
<1> QED BY <1>1, <1>3, <1>4, <1>5, LogCases

-----------------------------------------------------------------------------
(* The theorems                                                            *)

(* The server works on one question at a time, the one whose connection is *)
(* open, and a browser never counts more tokens than an answer has pieces. *)
THEOREM TypeCorrect == Spec => []TypeOK
<1>1. IInv => TypeOK
  BY DEF IInv
<1> QED BY InvInit, InvStep, <1>1, PTL DEF Spec

(* A clarification that is pending was never followed by a question that   *)
(* was answered from the data, however runs fail, crash or wait: the order *)
(* of update_session_clarification in check_question_scope.                *)
THEOREM PendingSafe == Spec => []PendingIsOpen
<1>1. IInv => PendingIsOpen
  BY DEF IInv
<1> QED BY InvInit, InvStep, <1>1, PTL DEF Spec

(* A clarification goes only with a later question that was answered in    *)
(* its place, that is being answered, or that failed: no plan that leaves  *)
(* the data alone, no crash and no failure of Mongo loses it otherwise.    *)
THEOREM UnansweredSafe == Spec => []UnansweredIsPending
<1>1. Init => Unplanned /\ UnansweredIsPending
  BY DEF Init, AgentInit, Idle, Unplanned, UnansweredIsPending
<1> QED BY InvInit, InvStep, UnplannedStep, UnansweredStep, <1>1, PTL DEF Spec

(* The analysis states are the newest answers of the log, in its order,    *)
(* however many states are kept: persist_analysis_state comes before       *)
(* save_run and prunes from the oldest end.                                *)
THEOREM MemorySafe == Spec => []MemoryKeepsUp
<1>1. IInv => MemoryKeepsUp
  <2> SUFFICES ASSUME IInv, NEW i \in Remembered
               PROVE  /\ ~InMemory(i) => Len(memory) = MaxStates
                      /\ InMemory(i) => \A j \in Remembered : j > i => InMemory(j)
    BY DEF MemoryKeepsUp
  <2>1. ~InMemory(i) => Len(memory) = MaxStates
    BY DEF IInv, Ordered
  <2>2. ASSUME InMemory(i), NEW j \in Remembered, j > i PROVE InMemory(j)
    <3>1. PICK a \in DOMAIN memory : memory[a] = StateOf(log[i])
      BY <2>2, InMemoryMeans
    <3>2. \E b \in DOMAIN memory : memory[b] = StateOf(log[j])
      BY <2>2, <3>1 DEF IInv, Ordered
    <3> QED BY <3>2, InMemoryMeans
  <2> QED BY <2>1, <2>2
<1> QED BY InvInit, InvStep, <1>1, PTL DEF Spec

(* What the browser saves as an answer is whole, and the agent has logged  *)
(* the run that gave it, in whatever pieces it was streamed: the events of *)
(* _handle_stream_run against handleAnalitricsStreamEvent.                 *)
THEOREM SavedSafe == Spec => []SavedIsWhole
<1>1. IInv => SavedIsWhole
  BY DEF IInv, Saved
<1> QED BY InvInit, InvStep, <1>1, PTL DEF Spec

(* The text that is saved is the answer as it was composed, whatever the   *)
(* critic makes of it later: the tokens of _emit_tokens add up to it, and  *)
(* a final event is the text only where no token was to come.              *)
THEOREM ShownSafe == Spec => []ShownIsComposed
<1>1. IInv => ShownIsComposed
  BY DEF IInv, Saved
<1> QED BY InvInit, InvStep, <1>1, PTL DEF Spec

(* As long as the critic approves what it is given, the text in the chat   *)
(* is the answer that the log holds: it is the revision, and no crash,     *)
(* stop, failed insert or repeated final event, that sets the two apart.   *)
THEOREM ApprovedShown == Spec /\ [][Approves]_vars => []ShownIsLogged
<1>1. Init => Approved
  BY IdleRun DEF Init, AgentInit, Approved
<1>2. IInv /\ Approved => ShownIsLogged
  BY DEF IInv, Saved, ShownIsComposed, Approved, ShownIsLogged
<1>3. Spec => []IInv
  BY InvInit, InvStep, PTL DEF Spec
<1>4. Spec /\ [][Approves]_vars => []Approved
  BY <1>1, <1>3, ApprovedStep, PTL DEF Spec
<1> QED BY <1>2, <1>3, <1>4, PTL

(* A question holds the one thread of the server for nine steps and one    *)
(* for every piece of its answer, at most: a node that fails ends the run, *)
(* and none of them is entered twice.                                      *)
THEOREM RunsBounded == Spec => [](RunLeft \in 0..(9 + Chunks)) /\ RunsRunOut
<1>1. IInv => RunLeft \in 0..(9 + Chunks)
  BY RunLeftType DEF IInv
<1>2. IInv /\ [Next]_vars => [Work => RunLeft' < RunLeft]_vars
  BY RunNearer
<1> QED BY InvInit, InvStep, <1>1, <1>2, PTL DEF Spec, RunsRunOut

(* Every behaviour of the controller and the agent is one that ChatPromise *)
(* allows: a question is recorded at most once, by save_run, and what the  *)
(* controller saves as its answer is whole and recorded before, however    *)
(* the stream of _handle_stream_run is cut, stopped or lost.               *)
THEOREM Refinement == Spec => ChatPromiseKept
<1>1. Init => Promise!AbsInit
  BY AbsInitHolds
<1>2. IInv /\ [Next]_vars => [Promise!AbsNext]_(Promise!absVars)
  BY StepRefines DEF AbsStep
<1> QED BY InvInit, InvStep, <1>1, <1>2, PTL DEF Spec, ChatPromiseKept, Promise!AbsSpec
=============================================================================
