-------------------------- MODULE DirectController --------------------------
(***************************************************************************)
(* The questions of one conversation in LibreChat: the direct controller   *)
(* that forwards each of them to the agent and saves the answer, and the   *)
(* generation job whose stream the browser listens to.  The job is named   *)
(* after the conversation, so a second question, a retry or another tab    *)
(* replaces the job of the first one.                                      *)
(*                                                                         *)
(* A generation is one life of the job; the browser of a request listens   *)
(* to the generation of that request, up to its first terminal event.      *)
(***************************************************************************)
EXTENDS Integers, FiniteSets

CONSTANTS
  Request,      \* HTTP requests to the chat route
  Message,      \* message ids
  Nobody,       \* not a request, and not a message
  Room          \* ANALITRICS_MAX_USER_MESSAGES_PER_CHAT less the questions
                \* that the chat had before these requests

ASSUME NobodyAssumption == Nobody \notin Request \cup Message
ASSUME LimitAssumption == Room \in Nat
ASSUME RequestAssumption == IsFiniteSet(Request)

VARIABLES
  req,       \* what each request is doing
  users,     \* the user messages of these requests that are in Mongo
  answers,   \* what is saved as the answer to each message
  job,       \* the row of the job: its generation, its status and the
             \* message of its created event
  runtime,   \* the generation whose runtime the manager has, 0 if none
  aborted,   \* generations whose abort controller has fired
  stopping,  \* the Stop that has claimed a generation and not published it
  outcome    \* the first terminal event of each generation

vars == <<req, users, answers, job, runtime, aborted, stopping, outcome>>

Generation == 1..Cardinality(Request)
Inside == {"creating", "waiting", "replaying", "asking", "calling", "answered",
           "saved", "done", "failing", "failed"}
PC == {"idle", "checked", "ready", "rejected", "thrown", "finished"} \cup Inside
Text == {"none", "empty", "part", "full"}
Idle == [pc |-> "idle", message |-> Nobody, found |-> "nothing", gen |-> 0, got |-> "none"]
NoStop == [pc |-> "none", gen |-> 0, question |-> Nobody]
NoOutcome == [kind |-> "none", by |-> Nobody, text |-> "none"]

(* The domains, and who has a generation. *)
TypeOK ==
  /\ req \in [Request -> [pc : PC, message : Message \cup {Nobody},
                          found : {"nothing", "question", "answer"}, gen : Generation \cup {0}, got : Text]]
  /\ \A r \in Request : /\ req[r].pc \in Inside => req[r].gen # 0
                        /\ req[r].message = Nobody <=> req[r].pc = "idle"
  /\ users \subseteq Message
  /\ answers \in [Message -> Text]
  /\ job \in [gen : Generation \cup {0},
              status : {"none", "running", "complete", "error", "aborted"},
              question : Message \cup {Nobody}]
  /\ runtime \in 0..job.gen
  /\ aborted \subseteq Generation
  /\ stopping \in [pc : {"none", "saving", "publishing"}, gen : 0..job.gen,
                   question : Message \cup {Nobody}]
  /\ outcome \in [Generation -> [kind : {"none", "done", "error", "replaced", "stopped"},
                                 by : Request \cup {Nobody}, text : Text]]

Init ==
  /\ req = [r \in Request |-> Idle]
  /\ users = {}
  /\ answers = [m \in Message |-> "none"]
  /\ job = [gen |-> 0, status |-> "none", question |-> Nobody]
  /\ runtime = 0
  /\ aborted = {}
  /\ stopping = NoStop
  /\ outcome = [g \in Generation |-> NoOutcome]

Goto(r, pc) == req' = [req EXCEPT ![r].pc = pc]

-----------------------------------------------------------------------------
(* The job manager                                                         *)

(* The generations whose browsers may be attached: those whose createJob   *)
(* has returned to the controller, which tells the browser.                *)
Listening == {req[r].gen : r \in {q \in Request : req[q].pc \in Inside \ {"creating"}
                                                  \/ req[q].pc = "finished"}}

(* A browser keeps the first terminal event of its generation, with the    *)
(* answer in it.                                                           *)
Deliver(gens, event) ==
  [g \in Generation |-> IF g \in gens \cap Listening /\ outcome[g] = NoOutcome
                        THEN event ELSE outcome[g]]

Event(kind, by, text) == [kind |-> kind, by |-> by, text |-> text]

(* Mutant: without a runtime the event is dropped. *)
EmitToRuntime(event) == outcome' = Deliver({runtime}, event)

(* emitDone and emitError without an expected generation: to the one that  *)
(* has the runtime now, or, if none has, to every browser of the stream.   *)
EmitTerminal(event) ==
  outcome' = Deliver(IF runtime = 0 THEN Generation ELSE {runtime}, event)

(* The created event, without an expected generation either: the row of    *)
(* the live runtime keeps its message.                                     *)
EmitCreated(r) ==
  job' = IF runtime = job.gen /\ runtime \notin aborted
         THEN [job EXCEPT !.question = req[r].message] ELSE job

(* The generation that completeJob ends without an expected generation. *)
Claimable ==
  /\ job.status = "running"
  /\ runtime \in {0, job.gen}

(* claimTerminalJob and finishTerminalJob: the status, the abort of the    *)
(* controller, the error event; a runtime stays only with an error.        *)
CompleteJob(r, status) ==
  IF Claimable
  THEN /\ job' = [job EXCEPT !.status = status, !.question = Nobody]
       /\ aborted' = aborted \cup ({runtime} \ {0})
       /\ runtime' = IF status = "error" THEN runtime ELSE 0
       /\ outcome' = IF status = "error" THEN Deliver({job.gen}, Event("error", r, "none")) ELSE outcome
  ELSE UNCHANGED <<job, aborted, runtime, outcome>>

(* What a new row replaces: the old row, gone if it was complete, and the  *)
(* runtime that is still there.                                            *)
Replaced == (IF job.status = "complete" THEN {} ELSE {job.gen}) \cup {runtime}

(* Mutant: a new generation leaves the controller of the old one alone. *)
CreateJobWithoutAbort(r) ==
  /\ req[r].pc = "ready"
  /\ job' = [gen |-> job.gen + 1, status |-> "running", question |-> Nobody]
  /\ req' = [req EXCEPT ![r].pc = "creating", ![r].gen = job.gen + 1]
  /\ outcome' = Deliver(Replaced, Event("replaced", Nobody, "none"))
  /\ UNCHANGED <<users, answers, aborted, runtime, stopping>>

(* Mutant: the request does not keep the generation that it created. *)
CreateJobUnbound(r) ==
  /\ req[r].pc = "ready"
  /\ job' = [gen |-> job.gen + 1, status |-> "running", question |-> Nobody]
  /\ Goto(r, "creating")
  /\ UNCHANGED <<users, answers, aborted, runtime, stopping, outcome>>

(* createJob, first part: the new row replaces the old one, the controller *)
(* of a running predecessor is aborted, the browsers of the replaced are   *)
(* told.                                                                   *)
CreateJob(r) ==
  /\ req[r].pc = "ready"
  /\ job' = [gen |-> job.gen + 1, status |-> "running", question |-> Nobody]
  /\ req' = [req EXCEPT ![r].pc = "creating", ![r].gen = job.gen + 1]
  /\ aborted' = IF job.status = "running" THEN aborted \cup {job.gen} ELSE aborted
  /\ outcome' = Deliver(Replaced, Event("replaced", Nobody, "none"))
  /\ UNCHANGED <<users, answers, runtime, stopping>>

Owns(r) == job.gen = req[r].gen /\ job.status = "running"

(* Mutant: createJob does not see that its row was replaced or ended. *)
InstallUnowned(r) ==
  /\ req[r].pc = "creating"
  /\ runtime' = req[r].gen
  /\ Goto(r, "waiting")
  /\ UNCHANGED <<users, answers, job, aborted, stopping, outcome>>

(* createJob, second part: the runtime of the new generation. *)
InstallJob(r) ==
  /\ req[r].pc = "creating"
  /\ Owns(r)
  /\ runtime' = job.gen
  /\ Goto(r, "waiting")
  /\ UNCHANGED <<users, answers, job, aborted, stopping, outcome>>

(* Replaced or ended in between: createJob throws, outside the try. *)
InstallFails(r) ==
  /\ req[r].pc = "creating"
  /\ ~Owns(r)
  /\ Goto(r, "thrown")
  /\ UNCHANGED <<users, answers, job, runtime, aborted, stopping, outcome>>

(* The Stop button, of a browser that sees the job's stream: the row and   *)
(* the controller first.  One Stop at a time is under way.                 *)
Stop ==
  /\ job.status = "running"
  /\ runtime = job.gen
  /\ stopping = NoStop
  /\ job' = [job EXCEPT !.status = "aborted", !.question = Nobody]
  /\ aborted' = aborted \cup {runtime}
  /\ stopping' = [pc |-> "saving", gen |-> runtime, question |-> job.question]
  /\ UNCHANGED <<req, users, answers, runtime, outcome>>

(* Of a turn that has been announced, the question and an unfinished       *)
(* answer are saved.  The answer is empty: this controller does not give   *)
(* the manager the parts that Stop would save.                             *)
SaveStopped ==
  /\ stopping.pc = "saving"
  /\ stopping' = [stopping EXCEPT !.pc = "publishing"]
  /\ IF stopping.question # Nobody
     THEN /\ users' = users \cup {stopping.question}
          /\ answers' = [m \in Message |->
               IF \E r \in Request : req[r].gen = stopping.gen /\ req[r].message = m
               THEN "empty" ELSE answers[m]]
     ELSE UNCHANGED <<users, answers>>
  /\ UNCHANGED <<req, job, runtime, aborted, outcome>>

(* Then the final event is sent and the runtime let go. *)
PublishStop ==
  /\ stopping.pc = "publishing"
  /\ outcome' = Deliver({stopping.gen}, Event("stopped", Nobody, "empty"))
  /\ runtime' = IF runtime = stopping.gen THEN 0 ELSE runtime
  /\ stopping' = NoStop
  /\ UNCHANGED <<req, users, answers, job, aborted>>

-----------------------------------------------------------------------------
(* runAnalitricsDirectController                                           *)

(* A question, or a retry, which has the message id of the one it repeats: *)
(* is the user message of this id in Mongo, and is the chat full?  Both    *)
(* are read before anything is saved.                                      *)
Check(r, m) ==
  /\ req[r].pc = "idle"
  /\ req' = [req EXCEPT ![r].message = m,
                        ![r].found = IF m \in users THEN "question" ELSE "nothing",
                        ![r].pc = IF Cardinality(users) >= Room THEN "rejected"
                                  ELSE "checked"]
  /\ UNCHANGED <<users, answers, job, runtime, aborted, stopping, outcome>>

(* Only a message that exists is looked up for an answer. *)
ReadAnswer(r) ==
  /\ req[r].pc = "checked"
  /\ LET answered == req[r].found = "question" /\ answers[req[r].message] # "none"
     IN req' = [req EXCEPT ![r].pc = "ready",
                           ![r].found = IF answered THEN "answer" ELSE @,
                           ![r].got = IF answered THEN answers[req[r].message] ELSE @]
  /\ UNCHANGED <<users, answers, job, runtime, aborted, stopping, outcome>>

(* Once a browser listens, the job is replaced or the deadline passes, the *)
(* turn is announced.                                                      *)
Announce(r) ==
  /\ req[r].pc = "waiting"
  /\ EmitCreated(r)
  /\ Goto(r, IF req[r].found = "answer" THEN "replaying" ELSE "asking")
  /\ UNCHANGED <<users, answers, runtime, aborted, stopping, outcome>>

(* A question that has its answer is answered with it, outside the try. *)
Replay(r) ==
  /\ req[r].pc = "replaying"
  /\ EmitTerminal(Event("done", r, req[r].got))
  /\ Goto(r, "done")
  /\ UNCHANGED <<users, answers, job, runtime, aborted, stopping>>

(* Any other one is saved, if it is new, and sent to the agent. *)
SaveQuestion(r) ==
  /\ req[r].pc = "asking"
  /\ users' = users \cup {req[r].message}
  /\ Goto(r, "calling")
  /\ UNCHANGED <<answers, job, runtime, aborted, stopping, outcome>>

(* The last read of the agent's stream, which the controller can end: the  *)
(* final event and [DONE], or the stream just ends after no token or some. *)
(* What it brought is handled even if the controller aborts meanwhile.     *)
StreamEnds(r) ==
  /\ req[r].pc = "calling"
  /\ req[r].gen \notin aborted
  /\ \E got \in {"empty", "part", "full"} :
       req' = [req EXCEPT ![r].pc = "answered", ![r].got = got]
  /\ UNCHANGED <<users, answers, job, runtime, aborted, stopping, outcome>>

SaveAnswer(r) ==
  /\ req[r].pc = "answered"
  /\ answers' = [answers EXCEPT ![req[r].message] = req[r].got]
  /\ Goto(r, "saved")
  /\ UNCHANGED <<users, job, runtime, aborted, stopping, outcome>>

(* Mutant: the answer is announced while it is being saved. *)
EmitDoneEarly(r) ==
  /\ req[r].pc \in {"answered", "saved"}
  /\ EmitTerminal(Event("done", r, req[r].got))
  /\ Goto(r, "done")
  /\ UNCHANGED <<users, answers, job, runtime, aborted, stopping>>

EmitDone(r) ==
  /\ req[r].pc = "saved"
  /\ EmitTerminal(Event("done", r, req[r].got))
  /\ Goto(r, "done")
  /\ UNCHANGED <<users, answers, job, runtime, aborted, stopping>>

Finish(r) ==
  /\ req[r].pc = "done"
  /\ CompleteJob(r, "complete")
  /\ Goto(r, "finished")
  /\ UNCHANGED <<users, answers, stopping>>

(* An aborted fetch, an error of the agent, of Mongo or of the stream. *)
Throw(r) ==
  /\ req[r].pc \in {"asking", "calling", "answered", "saved"}
  /\ req' = [req EXCEPT ![r].pc = "failing", ![r].got = "none"]
  /\ UNCHANGED <<users, answers, job, runtime, aborted, stopping, outcome>>

EmitError(r) ==
  /\ req[r].pc = "failing"
  /\ EmitTerminal(Event("error", r, "none"))
  /\ Goto(r, "failed")
  /\ UNCHANGED <<users, answers, job, runtime, aborted, stopping>>

(* Mutant: the job of a failed turn is not completed. *)
FinishFailedQuietly(r) ==
  /\ req[r].pc = "failed"
  /\ Goto(r, "finished")
  /\ UNCHANGED <<users, answers, job, runtime, aborted, stopping, outcome>>

FinishFailed(r) ==
  /\ req[r].pc = "failed"
  /\ CompleteJob(r, "error")
  /\ Goto(r, "finished")
  /\ UNCHANGED <<users, answers, stopping>>

-----------------------------------------------------------------------------
(* The steps of a request once it is accepted. *)
Step(r) ==
  \/ ReadAnswer(r) \/ CreateJob(r) \/ InstallJob(r) \/ InstallFails(r)
  \/ Announce(r) \/ Replay(r)
  \/ SaveQuestion(r) \/ StreamEnds(r)
  \/ SaveAnswer(r) \/ EmitDone(r) \/ Finish(r)
  \/ Throw(r) \/ EmitError(r) \/ FinishFailed(r)

Next ==
  \/ \E r \in Request : Step(r) \/ \E m \in Message : Check(r, m)
  \/ Stop \/ SaveStopped \/ PublishStop

Spec == Init /\ [][Next]_vars

(* Node resumes every awaited call and the agent's stream ends. *)
FairSpec == Spec /\ (\A r \in Request : WF_vars(Step(r))) /\ WF_vars(SaveStopped \/ PublishStop)
-----------------------------------------------------------------------------
(* Properties                                                              *)

AtRest == {"idle", "rejected", "thrown", "finished"}

(* When no request of the chat is being served and no Stop is under way,   *)
(* its job is not left running: the browser would show a stream that       *)
(* nobody feeds, and the next question would replace it.  A request that   *)
(* is replaced or whose createJob throws leaves the row to another one.    *)
NothingLeftRunning ==
  (stopping = NoStop /\ \A r \in Request : req[r].pc \in AtRest) => job.status # "running"

(* A browser that is told its question is done finds the answer in Mongo,  *)
(* even if the event was sent by another request of the stream.            *)
DoneAfterSave ==
  \A g \in Generation :
    outcome[g].kind = "done" => answers[req[outcome[g].by].message] # "none"

(* The agent works for one generation at a time: a request that can still  *)
(* read its stream is the one that the job is about.                       *)
LiveRunsAreCurrent ==
  \A r \in Request :
    (req[r].pc = "calling" /\ req[r].gen \notin aborted)
      => Owns(r)

(* A generation that a browser may listen to ends with a terminal event,   *)
(* whoever replaces it, stops it or fails.                                 *)
BrowserHearsBack ==
  \A g \in Generation : g \in Listening ~> outcome[g] # NoOutcome

(* The refinement: the requests that can still read the agent's stream,    *)
(* and of a done end the message that it is the answer to.                 *)
Reading == {r \in Request : req[r].pc = "calling" /\ req[r].gen \notin aborted}
Live == {req[r].gen : r \in Reading}
Heard ==
  [g \in Generation |->
     [kind |-> outcome[g].kind,
      message |-> IF outcome[g].kind = "done" THEN req[outcome[g].by].message ELSE Nobody]]
Answered == {m \in Message : answers[m] # "none"}

Promise == INSTANCE StreamPromise WITH
  NoMessage <- Nobody,
  current   <- job.gen,
  open      <- Listening,
  live      <- Live,
  heard     <- Heard,
  answered  <- Answered

(* Controller, job manager and Stop together implement StreamPromise,      *)
(* however requests overlap: an end is heard once and only done with an    *)
(* answer, and a job is replaced only after its controller is aborted.     *)
PromiseKept == Promise!AbsSpec

(* What a test of the controllers promises: a request that was replaced    *)
(* does not send its final event, so the end of a generation is its own.   *)
OwnTerminal ==
  \A g \in Generation : \A r \in Request :
    (outcome[g].by = r) => req[r].gen = g

(* What a test of the controllers promises of the answer: a browser that   *)
(* is told its question is done, with its full answer, finds that answer   *)
(* in Mongo.                                                               *)
DoneIsInDatabase ==
  \A g \in Generation :
    (outcome[g].kind = "done" /\ outcome[g].text = "full")
      => answers[req[outcome[g].by].message] = "full"
=============================================================================
