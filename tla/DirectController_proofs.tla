----------------------- MODULE DirectController_proofs -----------------------
(***************************************************************************)
(* Proofs about DirectController, for any number of requests and messages. *)
(***************************************************************************)
EXTENDS DirectController, FiniteSetTheorems, TLAPS

Number == Cardinality(Request)
ReqState == [pc : PC, message : Message \cup {Nobody},
             found : {"nothing", "question", "answer"}, gen : Generation \cup {0}, got : Text]
Outcome == [kind : {"none", "done", "error", "replaced", "stopped"},
            by : Request \cup {Nobody}, text : Text]
Early == {"idle", "checked", "ready", "rejected"}

(* A request gets its generation when it creates the job, and reaches each *)
(* step with what the step uses.                                           *)
WellFormed(x) ==
  /\ x \in ReqState
  /\ x.pc \in Inside => x.gen # 0
  /\ x.message = Nobody <=> x.pc = "idle"
  /\ x.pc \in Early => x.gen = 0
  /\ x.pc = "answered" => x.got # "none"
  /\ x.pc = "replaying" => x.found = "answer"

Requests == \A r \in Request : WellFormed(req[r])

(* The generations are numbered in the order of the requests that created  *)
(* them, so that there are never more of them than requests.               *)
Counted ==
  /\ job.gen = Cardinality({r \in Request : req[r].gen # 0})
  /\ job.gen = 0 => job.status = "none"

(* A generation is aborted in the row, in the controller or by its         *)
(* successor: never while it is the running one.                           *)
AbortedIsOver ==
  /\ aborted \subseteq 1..job.gen
  /\ job.gen \in aborted => job.status # "running"
  /\ stopping # NoStop => stopping.gen \in aborted

(* A request whose controller has not fired works for the job there is.    *)
Current ==
  \A r \in Request : (req[r].pc \in Inside \ {"creating"} /\ req[r].gen \notin aborted)
    => Owns(r) /\ runtime = job.gen

(* A job that runs has a request that will end it. *)
RunningHasRequest ==
  job.status = "running" => \E r \in Request : req[r].gen = job.gen /\ req[r].pc \in Inside

(* A message that is answered somewhere has its answer saved.              *)
Saved(m) == m \in Message /\ answers[m] # "none"
AnswersSaved ==
  /\ \A r \in Request : req[r].found = "answer" \/ req[r].pc = "saved" => Saved(req[r].message)
  /\ \A g \in Generation : outcome[g].kind = "done" =>
       outcome[g].by \in Request /\ Saved(req[outcome[g].by].message)

IInv == TypeOK /\ Requests /\ Counted /\ AbortedIsOver /\ Current /\ RunningHasRequest /\ AnswersSaved
-----------------------------------------------------------------------------
LEMMA NumberType == Number \in Nat
BY FS_CardinalityType, RequestAssumption DEF Number

LEMMA TypeInit == Init => TypeOK
<1> SUFFICES ASSUME Init PROVE TypeOK
  OBVIOUS
<1>1. Idle \in ReqState /\ Idle.pc = "idle" /\ Idle.message = Nobody
  BY DEF Idle, ReqState, PC, Text
<1>2. NoOutcome \in Outcome
  BY DEF NoOutcome, Outcome, Text
<1>3. req \in [Request -> ReqState] /\ \A r \in Request : req[r] = Idle
  BY <1>1 DEF Init
<1>4. \A r \in Request : /\ req[r].pc \in Inside => req[r].gen # 0
                         /\ req[r].message = Nobody <=> req[r].pc = "idle"
  BY <1>1, <1>3 DEF Inside
<1>5. outcome \in [Generation -> Outcome]
  BY <1>2 DEF Init
<1>6. /\ users \subseteq Message /\ answers \in [Message -> Text]
      /\ aborted \subseteq Generation /\ runtime \in 0..job.gen
      /\ job \in [gen : Generation \cup {0},
                  status : {"none", "running", "complete", "error", "aborted"},
                  question : Message \cup {Nobody}]
      /\ stopping \in [pc : {"none", "saving", "publishing"}, gen : 0..job.gen,
                       question : Message \cup {Nobody}]
  BY DEF Init, NoStop, Text
<1> QED BY <1>3, <1>4, <1>5, <1>6 DEF TypeOK, ReqState, Outcome

LEMMA InvInit == Init => IInv
<1> SUFFICES ASSUME Init PROVE IInv
  OBVIOUS
<1>1. TypeOK
  BY TypeInit
<1>2. \A r \in Request : req[r] = Idle
  BY DEF Init
<1>3. Requests
  BY <1>1, <1>2 DEF TypeOK, Requests, WellFormed, ReqState, Idle
<1>4. {r \in Request : req[r].gen # 0} = {}
  BY <1>2 DEF Idle
<1>5. Counted
  BY <1>4, FS_EmptySet DEF Init, Counted
<1>6. AbortedIsOver /\ RunningHasRequest
  BY DEF Init, AbortedIsOver, RunningHasRequest
<1>7. Current
  BY <1>2 DEF Current, Idle, Inside
<1>8. AnswersSaved
  BY <1>2 DEF Init, AnswersSaved, Idle, NoOutcome
<1> QED BY <1>1, <1>3, <1>5, <1>6, <1>7, <1>8 DEF IInv
-----------------------------------------------------------------------------
(* How one request moves                                                   *)

Others(r) == \A q \in Request \ {r} : req'[q] = req[q]
Moved(r) == req' \in [Request -> ReqState] /\ Requests' /\ Others(r)

LEMMA Replaces ==
  ASSUME TypeOK, Requests, NEW r \in Request, NEW x, WellFormed(x),
         req' = [req EXCEPT ![r] = x]
  PROVE  Moved(r) /\ req'[r] = x
<1>1. req \in [Request -> ReqState] /\ x \in ReqState
  BY DEF TypeOK, ReqState, WellFormed
<1>2. req' \in [Request -> ReqState] /\ req'[r] = x /\ Others(r)
  BY <1>1 DEF Others
<1>3. Requests'
  BY <1>2 DEF Requests, Others, WellFormed
<1> QED BY <1>2, <1>3 DEF Moved

LEMMA Goes ==
  ASSUME TypeOK, Requests, NEW r \in Request,
         NEW pc \in PC \ (Early \cup {"answered"}),
         pc = "replaying" => req[r].found = "answer", pc \in Inside => req[r].gen # 0, req[r].pc # "idle", Goto(r, pc)
  PROVE  Moved(r) /\ req'[r] = [req[r] EXCEPT !.pc = pc] /\ req'[r].pc = pc
<1> DEFINE x == [req[r] EXCEPT !.pc = pc]
<1>1. WellFormed(req[r]) /\ req[r] \in ReqState
  BY DEF Requests, WellFormed
<1>2. /\ x \in ReqState /\ x.pc = pc /\ x.message = req[r].message
      /\ x.gen = req[r].gen /\ x.found = req[r].found
  BY <1>1 DEF ReqState
<1>3. req' = [req EXCEPT ![r] = x]
  BY DEF Goto, TypeOK
<1> HIDE DEF x
<1>4. WellFormed(x)
  BY <1>1, <1>2 DEF WellFormed, Early
<1>5. Moved(r) /\ req'[r] = x
  BY <1>3, <1>4, Replaces
<1> QED BY <1>2, <1>5 DEF x

LEMMA CheckMoves ==
  ASSUME TypeOK, Requests, NEW r \in Request, NEW m \in Message, Check(r, m)
  PROVE  /\ Moved(r) /\ req'[r].pc \in {"checked", "rejected"}
         /\ req'[r].gen = req[r].gen /\ req'[r].found # "answer"
<1> DEFINE found == IF m \in users THEN "question" ELSE "nothing"
           pc == IF Cardinality(users) >= Room THEN "rejected" ELSE "checked"
           x == [req[r] EXCEPT !.message = m, !.found = found, !.pc = pc]
<1>1. WellFormed(req[r]) /\ req[r] \in ReqState /\ req[r].pc = "idle"
  BY DEF Requests, WellFormed, Check
<1>2. found \in {"question", "nothing"} /\ pc \in {"rejected", "checked"}
  OBVIOUS
<1>3. req' = [req EXCEPT ![r] = x]
  BY DEF Check, TypeOK
<1> HIDE DEF found, pc
<1>4. /\ x \in ReqState /\ x.pc = pc /\ x.message = m
      /\ x.gen = req[r].gen /\ x.found = found
  BY <1>1, <1>2 DEF ReqState, PC
<1> HIDE DEF x
<1>5. WellFormed(x)
  BY <1>1, <1>2, <1>4, NobodyAssumption DEF WellFormed, Early, Inside
<1>6. Moved(r) /\ req'[r] = x
  BY <1>3, <1>5, Replaces
<1> QED BY <1>2, <1>4, <1>6

LEMMA ReadAnswerMoves ==
  ASSUME TypeOK, Requests, NEW r \in Request, ReadAnswer(r)
  PROVE  /\ Moved(r) /\ req'[r].pc = "ready" /\ req'[r].gen = req[r].gen
         /\ req'[r].message = req[r].message /\ req[r].message \in Message
         /\ req'[r].found = "answer" =>
              req[r].found = "answer" \/ answers[req[r].message] # "none"
<1> DEFINE known == req[r].found = "question" /\ answers[req[r].message] # "none"
           found == IF known THEN "answer" ELSE req[r].found
           got == IF known THEN answers[req[r].message] ELSE req[r].got
           x == [req[r] EXCEPT !.pc = "ready", !.found = found, !.got = got]
<1>1. WellFormed(req[r]) /\ req[r] \in ReqState /\ req[r].pc = "checked"
  BY DEF Requests, WellFormed, ReadAnswer
<1>2. req[r].message \in Message
  BY <1>1 DEF WellFormed, ReqState
<1>3. /\ found \in {"nothing", "question", "answer"} /\ got \in Text
      /\ found = "answer" => req[r].found = "answer" \/ answers[req[r].message] # "none"
  BY <1>1, <1>2 DEF ReqState, TypeOK
<1>4. req' = [req EXCEPT ![r] = x]
  BY DEF ReadAnswer, TypeOK
<1> HIDE DEF found, got
<1>5. /\ x \in ReqState /\ x.pc = "ready" /\ x.message = req[r].message
      /\ x.gen = req[r].gen /\ x.found = found
  BY <1>1, <1>3 DEF ReqState, PC
<1> HIDE DEF x
<1>6. WellFormed(x)
  BY <1>1, <1>5 DEF WellFormed, Early, Inside
<1>7. Moved(r) /\ req'[r] = x
  BY <1>4, <1>6, Replaces
<1> QED BY <1>2, <1>3, <1>5, <1>7

LEMMA CreateJobMoves ==
  ASSUME TypeOK, Requests, Counted, NEW r \in Request, CreateJob(r)
  PROVE  /\ Moved(r) /\ req'[r].pc = "creating" /\ req'[r].gen = job.gen + 1
         /\ req'[r].message = req[r].message /\ req'[r].found = req[r].found
         /\ job.gen + 1 \in Generation /\ Counted'
<1> DEFINE Has == {q \in Request : req[q].gen # 0}
           g == job.gen + 1
           x == [req[r] EXCEPT !.pc = "creating", !.gen = g]
<1>1. WellFormed(req[r]) /\ req[r] \in ReqState /\ req[r].pc = "ready"
  BY DEF Requests, WellFormed, CreateJob
<1>2. r \notin Has
  BY <1>1 DEF WellFormed, Early
<1>3. IsFiniteSet(Has) /\ Cardinality(Has) = job.gen
  BY RequestAssumption, FS_Subset DEF Counted
<1>4. Cardinality(Has \cup {r}) = g /\ job.gen \in Nat
  BY <1>2, <1>3, FS_AddElement, FS_CardinalityType
<1>5. g <= Number
  BY <1>4, RequestAssumption, FS_Subset DEF Number
<1>6. g \in Generation /\ g # 0
  BY <1>4, <1>5, NumberType DEF Generation, Number
<1>7. req' = [req EXCEPT ![r] = x]
  BY DEF CreateJob, TypeOK
<1>8. job'.gen = g
  BY DEF CreateJob
<1> HIDE DEF g
<1>9. /\ x \in ReqState /\ x.pc = "creating" /\ x.message = req[r].message
      /\ x.gen = g /\ x.found = req[r].found
  BY <1>1, <1>6 DEF ReqState, PC, Inside
<1> HIDE DEF x
<1>10. WellFormed(x)
  BY <1>1, <1>6, <1>9 DEF WellFormed, Early, Inside
<1>11. Moved(r) /\ req'[r] = x
  BY <1>7, <1>10, Replaces
<1>12. {q \in Request : req'[q].gen # 0} = Has \cup {r}
  BY <1>6, <1>9, <1>11 DEF Moved, Others
<1>13. Counted'
  BY <1>4, <1>6, <1>8, <1>12 DEF Counted
<1> QED BY <1>6, <1>9, <1>11, <1>13 DEF g

LEMMA StreamEndsMoves ==
  ASSUME TypeOK, Requests, NEW r \in Request, StreamEnds(r)
  PROVE  /\ Moved(r) /\ req'[r].pc = "answered" /\ req'[r].gen = req[r].gen
         /\ req'[r].message = req[r].message /\ req'[r].found = req[r].found
<1> PICK got \in {"empty", "part", "full"} :
      req' = [req EXCEPT ![r].pc = "answered", ![r].got = got]
  BY DEF StreamEnds
<1> DEFINE x == [req[r] EXCEPT !.pc = "answered", !.got = got]
<1>1. WellFormed(req[r]) /\ req[r] \in ReqState /\ req[r].pc = "calling"
  BY DEF Requests, WellFormed, StreamEnds
<1>2. req' = [req EXCEPT ![r] = x]
  BY DEF TypeOK
<1>3. /\ x \in ReqState /\ x.pc = "answered" /\ x.got = got
      /\ x.message = req[r].message /\ x.gen = req[r].gen /\ x.found = req[r].found
  BY <1>1 DEF ReqState, PC, Inside, Text
<1> HIDE DEF x
<1>4. WellFormed(x)
  BY <1>1, <1>3 DEF WellFormed, Early, Inside
<1> QED BY <1>2, <1>3, <1>4, Replaces

LEMMA ThrowMoves ==
  ASSUME TypeOK, Requests, NEW r \in Request, Throw(r)
  PROVE  /\ Moved(r) /\ req'[r].pc = "failing" /\ req'[r].gen = req[r].gen
         /\ req'[r].message = req[r].message /\ req'[r].found = req[r].found
<1> DEFINE x == [req[r] EXCEPT !.pc = "failing", !.got = "none"]
<1>1. /\ WellFormed(req[r]) /\ req[r] \in ReqState
      /\ req[r].pc \in {"asking", "calling", "answered", "saved"}
  BY DEF Requests, WellFormed, Throw
<1>2. req' = [req EXCEPT ![r] = x]
  BY DEF Throw, TypeOK
<1>3. /\ x \in ReqState /\ x.pc = "failing"
      /\ x.message = req[r].message /\ x.gen = req[r].gen /\ x.found = req[r].found
  BY <1>1 DEF ReqState, PC, Inside, Text
<1> HIDE DEF x
<1>4. WellFormed(x)
  BY <1>1, <1>3 DEF WellFormed, Early, Inside
<1> QED BY <1>2, <1>3, <1>4, Replaces

(* A step keeps the message, and all but two keep the generation and what  *)
(* was found.                                                              *)
Keeps(r) ==
  /\ Moved(r)
  /\ req'[r].message = req[r].message
  /\ CreateJob(r) \/ req'[r].gen = req[r].gen
  /\ ReadAnswer(r) \/ req'[r].found = req[r].found

(* Steps that lead from one place inside to another one.                   *)
Passes(r) ==
  \/ Announce(r) \/ Replay(r) \/ SaveQuestion(r) \/ StreamEnds(r)
  \/ EmitDone(r) \/ Throw(r) \/ EmitError(r)

LEMMA GoingMoves ==
  ASSUME TypeOK, Requests, NEW r \in Request, NEW pc \in PC \ (Early \cup {"answered"}),
         pc = "replaying" => req[r].found = "answer",
         req[r].pc \in Inside, Goto(r, pc)
  PROVE  /\ Moved(r) /\ req'[r].pc = pc /\ req'[r].gen = req[r].gen
         /\ req'[r].message = req[r].message /\ req'[r].found = req[r].found
<1>1. req[r] \in ReqState /\ req[r].gen # 0 /\ req[r].pc # "idle"
  BY DEF Requests, WellFormed, Inside
<1>2. Moved(r) /\ req'[r] = [req[r] EXCEPT !.pc = pc]
  BY <1>1, Goes
<1> QED BY <1>1, <1>2 DEF ReqState

LEMMA StepMoves ==
  ASSUME TypeOK, Requests, Counted, NEW r \in Request, Step(r)
  PROVE  /\ Keeps(r)
         /\ ReadAnswer(r) => req'[r].pc = "ready"
         /\ CreateJob(r) => req'[r].pc = "creating"
         /\ InstallJob(r) => req'[r].pc = "waiting"
         /\ InstallFails(r) => req'[r].pc = "thrown"
         /\ SaveAnswer(r) => req'[r].pc = "saved"
         /\ Finish(r) \/ FinishFailed(r) => req'[r].pc = "finished"
         /\ Passes(r) => /\ req[r].pc \in Inside \ {"creating"}
                         /\ req'[r].pc \in Inside \ {"creating", "saved"}
<1> USE DEF Keeps
<1>1. CASE ReadAnswer(r)
  BY <1>1, ReadAnswerMoves
     DEF ReadAnswer, CreateJob, InstallJob, InstallFails, SaveAnswer, Finish, FinishFailed,
         Passes, Announce, Replay, SaveQuestion, StreamEnds, EmitDone, Throw, EmitError
<1>2. CASE CreateJob(r)
  BY <1>2, CreateJobMoves
     DEF ReadAnswer, CreateJob, InstallJob, InstallFails, SaveAnswer, Finish, FinishFailed,
         Passes, Announce, Replay, SaveQuestion, StreamEnds, EmitDone, Throw, EmitError
<1>3. CASE InstallJob(r)
  <2>1. Goto(r, "waiting") /\ req[r].pc = "creating"
    BY <1>3 DEF InstallJob
  <2>2. Moved(r) /\ req'[r].pc = "waiting" /\ req'[r].gen = req[r].gen
        /\ req'[r].message = req[r].message /\ req'[r].found = req[r].found
    BY <2>1, GoingMoves DEF PC, Inside, Early
  <2> QED BY <1>3, <2>1, <2>2
     DEF ReadAnswer, CreateJob, InstallFails, SaveAnswer, Finish, FinishFailed, Owns, InstallJob,
         Passes, Announce, Replay, SaveQuestion, StreamEnds, EmitDone, Throw, EmitError
<1>4. CASE InstallFails(r)
  <2>1. Goto(r, "thrown") /\ req[r].pc = "creating"
    BY <1>4 DEF InstallFails
  <2>2. Moved(r) /\ req'[r].pc = "thrown" /\ req'[r].gen = req[r].gen
        /\ req'[r].message = req[r].message /\ req'[r].found = req[r].found
    BY <2>1, GoingMoves DEF PC, Inside, Early
  <2> QED BY <1>4, <2>1, <2>2
     DEF ReadAnswer, CreateJob, InstallFails, SaveAnswer, Finish, FinishFailed, Owns, InstallJob,
         Passes, Announce, Replay, SaveQuestion, StreamEnds, EmitDone, Throw, EmitError
<1>5. CASE SaveAnswer(r)
  <2>1. Goto(r, "saved") /\ req[r].pc = "answered"
    BY <1>5 DEF SaveAnswer
  <2>2. Moved(r) /\ req'[r].pc = "saved" /\ req'[r].gen = req[r].gen
        /\ req'[r].message = req[r].message /\ req'[r].found = req[r].found
    BY <2>1, GoingMoves DEF PC, Inside, Early
  <2>3. ~Throw(r)
    BY <2>2, ThrowMoves
  <2>4. ~EmitDone(r)
    BY <2>1 DEF EmitDone
  <2> QED BY <1>5, <2>1, <2>2, <2>3, <2>4
     DEF ReadAnswer, CreateJob, InstallFails, InstallJob, Finish, FinishFailed,
         Passes, Announce, Replay, SaveQuestion, StreamEnds, EmitError
<1>6. CASE Finish(r) \/ FinishFailed(r)
  <2>1. Goto(r, "finished") /\ req[r].pc \in {"done", "failed"}
    BY <1>6 DEF Finish, FinishFailed
  <2>2. Moved(r) /\ req'[r].pc = "finished" /\ req'[r].gen = req[r].gen
        /\ req'[r].message = req[r].message /\ req'[r].found = req[r].found
    BY <2>1, GoingMoves DEF PC, Inside, Early
  <2> QED BY <1>6, <2>1, <2>2
     DEF ReadAnswer, CreateJob, InstallFails, InstallJob, SaveAnswer,
         Passes, Announce, Replay, SaveQuestion, StreamEnds, EmitDone, Throw, EmitError
<1>7. CASE Passes(r)
  <2>1. req[r].pc \in Inside \ {"creating"}
    BY <1>7 DEF Passes, Announce, Replay, SaveQuestion, StreamEnds, EmitDone, Throw, EmitError, Inside
  <2>2. CASE StreamEnds(r)
    <3>1. req[r].pc = "calling"
      BY <2>2 DEF StreamEnds
    <3> QED BY <2>1, <2>2, <3>1, StreamEndsMoves
       DEF ReadAnswer, CreateJob, InstallFails, InstallJob, SaveAnswer, Finish, FinishFailed, Inside
  <2>3. CASE Throw(r)
    <3>1. ~SaveAnswer(r)
      <4> SUFFICES ASSUME SaveAnswer(r) PROVE FALSE
        OBVIOUS
      <4>1. Goto(r, "saved")
        BY DEF SaveAnswer
      <4>2. req'[r].pc = "saved"
        BY <2>1, <4>1, GoingMoves DEF PC, Early, Inside
      <4> QED BY <2>3, <4>2, ThrowMoves
    <3>2. req[r].pc \in {"asking", "calling", "answered", "saved"}
      BY <2>3 DEF Throw
    <3> QED BY <2>1, <2>3, <3>1, <3>2, ThrowMoves
       DEF ReadAnswer, CreateJob, InstallFails, InstallJob, Finish, FinishFailed, Inside
  <2>4. CASE Announce(r) \/ Replay(r) \/ SaveQuestion(r) \/ EmitDone(r) \/ EmitError(r)
    <3> PICK pc \in {"replaying", "asking", "done", "calling", "failed"} :
          Goto(r, pc) /\ (pc = "replaying" => req[r].found = "answer")
      BY <2>4 DEF Announce, Replay, SaveQuestion, EmitDone, EmitError
    <3>1. Moved(r) /\ req'[r].pc = pc /\ req'[r].gen = req[r].gen
          /\ req'[r].message = req[r].message /\ req'[r].found = req[r].found
      BY <2>1, GoingMoves DEF PC, Early, Inside
    <3>2. req[r].pc \in {"waiting", "replaying", "asking", "saved", "failing"}
      BY <2>4 DEF Announce, Replay, SaveQuestion, EmitDone, EmitError
    <3> QED BY <2>1, <3>1, <3>2
       DEF ReadAnswer, CreateJob, InstallFails, InstallJob, SaveAnswer, Finish, FinishFailed, Inside
  <2> QED BY <1>7, <2>2, <2>3, <2>4 DEF Passes
<1> QED BY <1>1, <1>2, <1>3, <1>4, <1>5, <1>6, <1>7 DEF Step, Passes
-----------------------------------------------------------------------------
(* What the job manager changes                                            *)

Job == [gen : Generation \cup {0},
        status : {"none", "running", "complete", "error", "aborted"},
        question : Message \cup {Nobody}]
StopState == [pc : {"none", "saving", "publishing"}, gen : 0..job.gen,
              question : Message \cup {Nobody}]

(* A browser keeps what it heard, or hears the event.                      *)
Hears(event) ==
  /\ outcome' \in [Generation -> Outcome]
  /\ \A g \in Generation : outcome'[g] \in {event, outcome[g]}

LEMMA Delivered ==
  ASSUME TypeOK, NEW gens, NEW event \in Outcome, outcome' = Deliver(gens, event)
  PROVE  Hears(event)
<1>1. outcome \in [Generation -> Outcome]
  BY DEF TypeOK, Outcome
<1> QED BY <1>1 DEF Deliver, Hears

LEMMA TerminalHeard ==
  ASSUME TypeOK, NEW event \in Outcome, EmitTerminal(event)
  PROVE  Hears(event)
BY Delivered DEF EmitTerminal

(* completeJob ends the running generation with its controller, or nothing. *)
LEMMA Completes ==
  ASSUME TypeOK, AbortedIsOver, Counted, NEW r \in Request, NEW status \in {"complete", "error"},
         CompleteJob(r, status)
  PROVE  /\ job' \in Job /\ job'.gen = job.gen /\ runtime' \in 0..job.gen
         /\ aborted \subseteq aborted' /\ aborted' \subseteq 1..job.gen
         /\ Hears(Event("error", r, "none"))
         /\ \/ /\ Claimable
               /\ job'.status = status
               /\ runtime # 0 => runtime \in aborted'
            \/ ~Claimable /\ UNCHANGED <<job, aborted, runtime, outcome>>
<1>1. job \in Job /\ runtime \in 0..job.gen /\ job.gen \in Nat /\ aborted \subseteq 1..job.gen
  BY NumberType DEF TypeOK, Job, AbortedIsOver, Generation, Number
<1>2. Event("error", r, "none") \in Outcome
  BY DEF Event, Outcome, Text
<1>3. Hears(Event("error", r, "none"))
  <2>1. UNCHANGED outcome => Hears(Event("error", r, "none"))
    BY DEF TypeOK, Hears, Outcome
  <2> QED BY <1>2, <2>1, Delivered DEF CompleteJob
<1>4. CASE Claimable
  <2>1. /\ job' = [job EXCEPT !.status = status, !.question = Nobody]
        /\ aborted' = aborted \cup ({runtime} \ {0})
        /\ runtime' = IF status = "error" THEN runtime ELSE 0
    BY <1>4 DEF CompleteJob
  <2>2. job' \in Job /\ job'.gen = job.gen /\ job'.status = status
    BY <1>1, <2>1 DEF Job
  <2> QED BY <1>1, <1>3, <1>4, <2>1, <2>2
<1>5. CASE ~Claimable
  BY <1>1, <1>3, <1>5 DEF CompleteJob
<1> QED BY <1>4, <1>5

(* The created event changes the message of the row only.                  *)
LEMMA CreatedKeeps ==
  ASSUME TypeOK, Requests, NEW r \in Request, EmitCreated(r)
  PROVE  job' \in Job /\ job'.gen = job.gen /\ job'.status = job.status
<1>1. job \in Job /\ req[r].message \in Message \cup {Nobody}
  BY DEF TypeOK, Job, Requests, WellFormed, ReqState
<1> QED BY <1>1 DEF EmitCreated, Job
-----------------------------------------------------------------------------
(* The domains, once the parts that each step leaves alone are set apart.  *)
LEMMA TypeParts ==
  ASSUME req' \in [Request -> ReqState], Requests', users' \subseteq Message,
         answers' \in [Message -> Text], job' \in Job, runtime' \in 0..job'.gen,
         aborted' \subseteq Generation, stopping' \in StopState',
         outcome' \in [Generation -> Outcome]
  PROVE  TypeOK'
<1>1. \A r \in Request : /\ req'[r].pc \in Inside => req'[r].gen # 0
                         /\ req'[r].message = Nobody <=> req'[r].pc = "idle"
  BY DEF Requests, WellFormed
<1> QED BY <1>1 DEF TypeOK, ReqState, Job, StopState, Outcome

LEMMA TypeNow ==
  ASSUME TypeOK
  PROVE  /\ req \in [Request -> ReqState] /\ users \subseteq Message
         /\ answers \in [Message -> Text] /\ job \in Job /\ runtime \in 0..job.gen
         /\ job.gen \in Nat /\ aborted \subseteq Generation /\ stopping \in StopState
         /\ outcome \in [Generation -> Outcome]
BY NumberType DEF TypeOK, ReqState, Job, StopState, Outcome, Generation, Number

LEMMA TypeOfStep ==
  ASSUME TypeOK, Requests, Counted, AbortedIsOver, NEW r \in Request, Step(r)
  PROVE  TypeOK' /\ Requests'
<1> USE TypeNow
<1>1. req' \in [Request -> ReqState] /\ Requests'
  BY StepMoves DEF Keeps, Moved
<1>2. WellFormed(req[r]) /\ req[r] \in ReqState
  BY DEF Requests, WellFormed
<1>3. CASE CreateJob(r)
  <2>1. job.gen + 1 \in Generation
    BY <1>3, CreateJobMoves
  <2>2. /\ job' \in Job /\ job'.gen = job.gen + 1
        /\ UNCHANGED <<users, answers, runtime, stopping>>
    BY <1>3, <2>1 DEF CreateJob, Job
  <2>3. runtime' \in 0..job'.gen /\ stopping' \in StopState'
    BY <2>2 DEF StopState
  <2>4. aborted' \subseteq Generation
    <3>1. job.status = "running" => job.gen \in Generation
      BY DEF Counted, Job
    <3> QED BY <1>3, <3>1 DEF CreateJob
  <2>5. Event("replaced", Nobody, "none") \in Outcome
    BY DEF Event, Outcome, Text
  <2>6. outcome' \in [Generation -> Outcome]
    BY <1>3, <2>5, Delivered DEF CreateJob, Hears
  <2> QED BY <1>1, <2>2, <2>3, <2>4, <2>6, TypeParts
<1>4. CASE InstallJob(r)
  <2>1. runtime' = job.gen /\ UNCHANGED <<users, answers, job, aborted, stopping, outcome>>
    BY <1>4 DEF InstallJob
  <2> QED BY <1>1, <2>1, TypeParts DEF StopState
<1>5. CASE Announce(r)
  <2>1. job' \in Job /\ job'.gen = job.gen
    BY <1>5, CreatedKeeps DEF Announce
  <2>2. UNCHANGED <<users, answers, runtime, aborted, stopping, outcome>>
    BY <1>5 DEF Announce
  <2> QED BY <1>1, <2>1, <2>2, TypeParts DEF StopState
<1>6. CASE Replay(r) \/ EmitDone(r) \/ EmitError(r)
  <2>1. Event("done", r, req[r].got) \in Outcome /\ Event("error", r, "none") \in Outcome
    BY <1>2 DEF Event, Outcome, Text, ReqState
  <2>2. outcome' \in [Generation -> Outcome]
    BY <1>6, <2>1, TerminalHeard DEF Replay, EmitDone, EmitError, Hears
  <2>3. UNCHANGED <<users, answers, job, runtime, aborted, stopping>>
    BY <1>6 DEF Replay, EmitDone, EmitError
  <2> QED BY <1>1, <2>2, <2>3, TypeParts DEF StopState
<1>7. CASE SaveQuestion(r)
  <2>1. req[r].message \in Message
    BY <1>2, <1>7 DEF SaveQuestion, WellFormed, ReqState
  <2>2. users' \subseteq Message /\ UNCHANGED <<answers, job, runtime, aborted, stopping, outcome>>
    BY <1>7, <2>1 DEF SaveQuestion
  <2> QED BY <1>1, <2>2, TypeParts DEF StopState
<1>8. CASE SaveAnswer(r)
  <2>1. /\ answers' \in [Message -> Text]
        /\ UNCHANGED <<users, job, runtime, aborted, stopping, outcome>>
    BY <1>2, <1>8 DEF SaveAnswer, ReqState
  <2> QED BY <1>1, <2>1, TypeParts DEF StopState
<1>9. CASE Finish(r) \/ FinishFailed(r)
  <2>1. PICK status \in {"complete", "error"} : CompleteJob(r, status)
    BY <1>9 DEF Finish, FinishFailed
  <2>2. /\ job' \in Job /\ job'.gen = job.gen /\ runtime' \in 0..job.gen
        /\ aborted' \subseteq 1..job.gen /\ outcome' \in [Generation -> Outcome]
    BY <2>1, Completes DEF Hears
  <2>3. aborted' \subseteq Generation
    BY <2>2, NumberType DEF Generation, Number, Job
  <2>4. UNCHANGED <<users, answers, stopping>>
    BY <1>9 DEF Finish, FinishFailed
  <2> QED BY <1>1, <2>2, <2>3, <2>4, TypeParts DEF StopState
<1>10. CASE ReadAnswer(r) \/ InstallFails(r) \/ StreamEnds(r) \/ Throw(r)
  <2>1. UNCHANGED <<users, answers, job, runtime, aborted, stopping, outcome>>
    BY <1>10 DEF ReadAnswer, InstallFails, StreamEnds, Throw
  <2> QED BY <1>1, <2>1, TypeParts DEF StopState
<1> QED BY <1>3, <1>4, <1>5, <1>6, <1>7, <1>8, <1>9, <1>10, <1>1 DEF Step

Stopping == Stop \/ SaveStopped \/ PublishStop

LEMMA TypeOfStopping ==
  ASSUME TypeOK, Requests, Counted, Stopping
  PROVE  TypeOK' /\ Requests'
<1> USE TypeNow
<1>1. req' = req /\ Requests'
  BY DEF Stopping, Stop, SaveStopped, PublishStop, Requests, WellFormed
<1>2. NoStop \in StopState /\ NoStop.gen = 0
  BY DEF NoStop, StopState
<1>3. CASE Stop
  <2>1. job' \in Job /\ job'.gen = job.gen
    BY <1>3 DEF Stop, Job
  <2>2. stopping' \in StopState'
    BY <1>3, <2>1 DEF Stop, StopState, Job
  <2>3. job.gen \in Generation
    BY <1>3 DEF Stop, Counted, Job
  <2> QED BY <1>1, <1>3, <2>1, <2>2, <2>3, TypeParts DEF Stop
<1>4. CASE SaveStopped
  <2>1. stopping' \in StopState'
    BY <1>4 DEF SaveStopped, StopState
  <2>2. users' \subseteq Message
    BY <1>4 DEF SaveStopped, StopState
  <2>3. answers' \in [Message -> Text]
    BY <1>4 DEF SaveStopped, Text
  <2>4. UNCHANGED <<job, runtime, aborted, outcome>>
    BY <1>4 DEF SaveStopped
  <2> QED BY <1>1, <2>1, <2>2, <2>3, <2>4, TypeParts
<1>5. CASE PublishStop
  <2>1. Event("stopped", Nobody, "empty") \in Outcome
    BY DEF Event, Outcome, Text
  <2>2. outcome' \in [Generation -> Outcome]
    BY <1>5, <2>1, Delivered DEF PublishStop, Hears
  <2>3. runtime' \in 0..job.gen /\ stopping' = NoStop /\ UNCHANGED <<users, answers, job, aborted>>
    BY <1>5 DEF PublishStop
  <2>4. stopping' \in StopState'
    BY <1>2, <2>3 DEF StopState
  <2> QED BY <1>1, <2>2, <2>3, <2>4, TypeParts
<1> QED BY <1>3, <1>4, <1>5 DEF Stopping

LEMMA TypeOfCheck ==
  ASSUME TypeOK, Requests, NEW r \in Request, NEW m \in Message, Check(r, m)
  PROVE  TypeOK' /\ Requests'
<1>1. req' \in [Request -> ReqState] /\ Requests'
  BY CheckMoves DEF Moved
<1>2. UNCHANGED <<users, answers, job, runtime, aborted, stopping, outcome>>
  BY DEF Check
<1> QED BY <1>1, <1>2, TypeNow, TypeParts DEF StopState
-----------------------------------------------------------------------------
(* The rest of the invariant, one part at a time                           *)

Same == UNCHANGED <<job, runtime, aborted, stopping>>

(* Of the steps, these change what the manager knows of the job.           *)
LEMMA StepsLeaveJob ==
  ASSUME NEW r \in Request,
         ReadAnswer(r) \/ InstallFails(r) \/ Replay(r) \/ SaveQuestion(r) \/ StreamEnds(r)
           \/ SaveAnswer(r) \/ EmitDone(r) \/ Throw(r) \/ EmitError(r)
  PROVE  Same
BY DEF Same, ReadAnswer, InstallFails, Replay, SaveQuestion, StreamEnds, SaveAnswer, EmitDone,
       Throw, EmitError

LEMMA CountedStep ==
  ASSUME TypeOK, Requests, Counted, AbortedIsOver, NEW r \in Request, Step(r)
  PROVE  Counted'
<1>1. CASE CreateJob(r)
  BY <1>1, CreateJobMoves
<1>2. CASE ~CreateJob(r)
  <2>1. {q \in Request : req'[q].gen # 0} = {q \in Request : req[q].gen # 0}
    BY <1>2, StepMoves DEF Keeps, Moved, Others
  <2>2. job'.gen = job.gen /\ (job.status = "none" => job'.status = "none")
    <3>1. CASE InstallJob(r) \/ Same
      BY <3>1 DEF InstallJob, Same
    <3>2. CASE Announce(r)
      BY <3>2, CreatedKeeps DEF Announce
    <3>3. CASE Finish(r) \/ FinishFailed(r)
      <4> PICK status \in {"complete", "error"} : CompleteJob(r, status)
        BY <3>3 DEF Finish, FinishFailed
      <4> QED BY Completes DEF Claimable
    <3> QED BY <1>2, <3>1, <3>2, <3>3, StepsLeaveJob DEF Step
  <2> QED BY <2>1, <2>2 DEF Counted
<1> QED BY <1>1, <1>2

LEMMA AbortedStep ==
  ASSUME TypeOK, Requests, Counted, AbortedIsOver, NEW r \in Request, Step(r)
  PROVE  AbortedIsOver'
<1> USE TypeNow
<1>1. CASE CreateJob(r)
  <2>1. /\ job'.gen = job.gen + 1 /\ stopping' = stopping
        /\ aborted' = IF job.status = "running" THEN aborted \cup {job.gen} ELSE aborted
    BY <1>1 DEF CreateJob
  <2>2. job.status = "running" => job.gen # 0
    BY DEF Counted
  <2>3. aborted \subseteq 1..job.gen /\ job.gen \in Nat
    BY DEF AbortedIsOver
  <2>4. aborted' \subseteq 1..job.gen
    <3>1. job.status = "running" => job.gen \in 1..job.gen
      BY <2>2, <2>3
    <3> HIDE TypeNow
    <3> QED BY <2>1, <2>3, <3>1
  <2>5. aborted' \subseteq 1..job'.gen /\ job'.gen \notin aborted'
    BY <2>1, <2>3, <2>4
  <2>6. stopping' # NoStop => stopping'.gen \in aborted'
    BY <2>1 DEF AbortedIsOver
  <2> QED BY <2>5, <2>6 DEF AbortedIsOver
<1>2. CASE InstallJob(r) \/ Same
  <2>1. UNCHANGED <<job, aborted, stopping>>
    BY <1>2 DEF InstallJob, Same
  <2> QED BY <2>1 DEF AbortedIsOver
<1>3. CASE Announce(r)
  BY <1>3, CreatedKeeps DEF Announce, AbortedIsOver
<1>4. CASE Finish(r) \/ FinishFailed(r)
  <2>1. PICK status \in {"complete", "error"} : CompleteJob(r, status)
    BY <1>4 DEF Finish, FinishFailed
  <2>2. stopping' = stopping
    BY <1>4 DEF Finish, FinishFailed
  <2>3. job'.status = status \/ UNCHANGED <<job, aborted>>
    BY <2>1, Completes
  <2>4. /\ job'.gen = job.gen /\ aborted \subseteq aborted' /\ aborted' \subseteq 1..job.gen
    BY <2>1, Completes
  <2> QED BY <2>2, <2>3, <2>4 DEF AbortedIsOver
<1> QED BY <1>1, <1>2, <1>3, <1>4, StepsLeaveJob DEF Step

LEMMA CurrentStep ==
  ASSUME TypeOK, Requests, Counted, AbortedIsOver, Current, NEW r \in Request, Step(r)
  PROVE  Current'
<1> USE TypeNow
<1> SUFFICES ASSUME NEW q \in Request, req'[q].pc \in Inside \ {"creating"},
                    req'[q].gen \notin aborted'
             PROVE  Owns(q)' /\ runtime' = job'.gen
  BY DEF Current
<1>1. CASE InstallJob(r) /\ q = r
  BY <1>1, StepMoves DEF InstallJob, Owns, Keeps, CreateJob
<1>2. CASE ~(InstallJob(r) /\ q = r)
  <2>1. req[q].pc \in Inside \ {"creating"} /\ req'[q].gen = req[q].gen
    <3>1. q # r => req'[q] = req[q]
      BY StepMoves DEF Keeps, Moved, Others
    <3>2. CASE q = r
      <4>1. ~CreateJob(r) /\ ~ReadAnswer(r) /\ ~InstallFails(r) /\ ~Finish(r) /\ ~FinishFailed(r)
        BY <3>2, StepMoves DEF Inside
      <4>2. SaveAnswer(r) \/ Passes(r)
        BY <1>2, <3>2, <4>1 DEF Step, Passes
      <4> QED BY <3>2, <4>1, <4>2, StepMoves DEF Keeps, SaveAnswer, Inside
    <3> QED BY <3>1, <3>2
  <2>2. aborted \subseteq aborted'
    <3>1. CASE CreateJob(r) \/ InstallJob(r) \/ Announce(r) \/ Same
      BY <3>1 DEF CreateJob, InstallJob, Announce, Same
    <3>2. CASE Finish(r) \/ FinishFailed(r)
      <4> PICK status \in {"complete", "error"} : CompleteJob(r, status)
        BY <3>2 DEF Finish, FinishFailed
      <4> QED BY Completes
    <3> QED BY <3>1, <3>2, StepsLeaveJob DEF Step
  <2>3. Owns(q) /\ runtime = job.gen /\ req[q].gen # 0
    BY <2>1, <2>2 DEF Current, Requests, WellFormed
  <2>4. CASE CreateJob(r)
    BY <2>1, <2>3, <2>4 DEF CreateJob, Owns
  <2>5. CASE InstallJob(r) \/ Same
    BY <2>1, <2>3, <2>5 DEF InstallJob, Same, Owns
  <2>6. CASE Announce(r)
    BY <2>1, <2>3, <2>6, CreatedKeeps DEF Announce, Owns
  <2>7. CASE Finish(r) \/ FinishFailed(r)
    <3> PICK status \in {"complete", "error"} : CompleteJob(r, status)
      BY <2>7 DEF Finish, FinishFailed
    <3>1. ~(runtime # 0 /\ runtime \in aborted')
      BY <2>1, <2>3 DEF Owns
    <3>2. UNCHANGED <<job, runtime>>
      BY <2>3, <3>1, Completes DEF Owns
    <3> QED BY <2>1, <2>3, <3>2 DEF Owns
  <2> QED BY <2>4, <2>5, <2>6, <2>7, StepsLeaveJob DEF Step
<1> QED BY <1>1, <1>2

LEMMA RunningStep ==
  ASSUME TypeOK, Requests, Counted, AbortedIsOver, Current, RunningHasRequest,
         NEW r \in Request, Step(r)
  PROVE  RunningHasRequest'
<1> SUFFICES ASSUME job'.status = "running"
             PROVE  \E q \in Request : req'[q].gen = job'.gen /\ req'[q].pc \in Inside
  BY DEF RunningHasRequest
<1>1. CASE CreateJob(r)
  BY <1>1, StepMoves, CreateJobMoves DEF CreateJob, Inside
<1>2. CASE ~CreateJob(r)
  <2>1. job'.gen = job.gen /\ job.status = "running"
    <3>1. CASE InstallJob(r) \/ Same
      BY <3>1 DEF InstallJob, Same
    <3>2. CASE Announce(r)
      BY <3>2, CreatedKeeps DEF Announce
    <3>3. CASE Finish(r) \/ FinishFailed(r)
      <4> PICK status \in {"complete", "error"} : CompleteJob(r, status)
        BY <3>3 DEF Finish, FinishFailed
      <4> QED BY Completes
    <3> QED BY <1>2, <3>1, <3>2, <3>3, StepsLeaveJob DEF Step
  <2> PICK q \in Request : req[q].gen = job.gen /\ req[q].pc \in Inside
    BY <2>1 DEF RunningHasRequest
  <2>2. req'[q].gen = req[q].gen
    BY <1>2, StepMoves DEF Keeps, Moved, Others
  <2>3. CASE q # r
    BY <2>1, <2>2, <2>3, StepMoves DEF Keeps, Moved, Others
  <2>4. CASE q = r
    <3>1. ~InstallFails(r)
      BY <2>1, <2>4 DEF InstallFails, Owns
    <3>2. ~Finish(r) /\ ~FinishFailed(r)
      <4> SUFFICES ASSUME Finish(r) \/ FinishFailed(r) PROVE FALSE
        OBVIOUS
      <4> PICK status \in {"complete", "error"} : CompleteJob(r, status)
        BY DEF Finish, FinishFailed
      <4>1. req[r].pc \in Inside \ {"creating"}
        BY DEF Finish, FinishFailed, Inside
      <4>2. req[r].gen \notin aborted
        BY <2>1, <2>4 DEF AbortedIsOver
      <4>3. Claimable
        BY <2>1, <4>1, <4>2 DEF Current, Claimable
      <4> QED BY <4>3, Completes
    <3>3. ~ReadAnswer(r)
      BY <2>4 DEF ReadAnswer, Inside
    <3>4. req'[r].pc \in Inside
      BY <1>2, <3>1, <3>2, <3>3, StepMoves DEF Step, Passes, Inside
    <3> QED BY <2>1, <2>2, <2>4, <3>4
  <2> QED BY <2>3, <2>4
<1> QED BY <1>1, <1>2

(* A browser is told that its question is done in two places.              *)
LEMMA DoneComes ==
  ASSUME TypeOK, Requests, Counted, AbortedIsOver, NEW r \in Request, Step(r), NEW g \in Generation,
         outcome'[g].kind = "done", outcome'[g] # outcome[g]
  PROVE  /\ outcome'[g] = Event("done", r, req[r].got)
         /\ Replay(r) \/ EmitDone(r)
<1>0. WellFormed(req[r]) /\ req[r] \in ReqState
  BY DEF Requests, WellFormed
<1>1. CASE CreateJob(r)
  <2>1. Event("replaced", Nobody, "none") \in Outcome
    BY DEF Event, Outcome, Text
  <2>2. outcome'[g].kind = "replaced"
    BY <1>1, <2>1, Delivered DEF CreateJob, Hears, Event
  <2> QED BY <2>2
<1>2. CASE Finish(r) \/ FinishFailed(r)
  <2> PICK status \in {"complete", "error"} : CompleteJob(r, status)
    BY <1>2 DEF Finish, FinishFailed
  <2>1. outcome'[g].kind = "error"
    BY Completes DEF Hears, Event
  <2> QED BY <2>1
<1>3. CASE EmitError(r)
  <2>1. Event("error", r, "none") \in Outcome
    BY DEF Event, Outcome, Text
  <2>2. outcome'[g].kind = "error"
    BY <1>3, <2>1, TerminalHeard DEF EmitError, Hears, Event
  <2> QED BY <2>2
<1>4. CASE Replay(r) \/ EmitDone(r)
  <2>1. Event("done", r, req[r].got) \in Outcome
    BY <1>0 DEF Event, Outcome, ReqState
  <2> QED BY <1>4, <2>1, TerminalHeard DEF Replay, EmitDone, Hears
<1> QED BY <1>1, <1>2, <1>3, <1>4
   DEF Step, ReadAnswer, InstallJob, InstallFails, Announce, SaveQuestion, StreamEnds, SaveAnswer, Throw

(* Saved in the next state. *)
SavedNext(m) == m \in Message /\ answers'[m] # "none"

LEMMA AnswersStep ==
  ASSUME TypeOK, Requests, Counted, AbortedIsOver, AnswersSaved, NEW r \in Request, Step(r)
  PROVE  AnswersSaved'
<1> USE TypeNow
<1>1. WellFormed(req[r]) /\ req[r] \in ReqState
  BY DEF Requests, WellFormed
<1>2. \A q \in Request : req'[q].message = req[q].message
  BY StepMoves DEF Keeps, Moved, Others
<1>3. \A m : Saved(m) => SavedNext(m)
  <2>1. CASE SaveAnswer(r)
    BY <1>1, <2>1 DEF SaveAnswer, Saved, SavedNext, WellFormed, ReqState
  <2>2. CASE ~SaveAnswer(r)
    BY <2>2 DEF Saved, SavedNext, Step, ReadAnswer, CreateJob, InstallJob, InstallFails, Announce, Replay,
                SaveQuestion, StreamEnds, EmitDone, Finish, Throw, EmitError, FinishFailed
  <2> QED BY <2>1, <2>2
<1>4. ASSUME NEW q \in Request, req'[q].found = "answer" \/ req'[q].pc = "saved"
      PROVE  SavedNext(req'[q].message)
  <2>1. CASE q # r
    BY <1>2, <1>3, <1>4, <2>1, StepMoves DEF Keeps, Moved, Others, AnswersSaved
  <2>2. CASE q = r /\ SaveAnswer(r)
    <3>1. req[r].message \in Message /\ req[r].got # "none"
      BY <1>1, <2>2 DEF SaveAnswer, WellFormed, ReqState
    <3> QED BY <1>2, <2>2, <3>1 DEF SaveAnswer, SavedNext
  <2>3. CASE q = r /\ ReadAnswer(r)
    <3>1. req'[r].pc = "ready"
      BY <2>3, StepMoves
    <3>2. req[r].found = "answer" \/ Saved(req[r].message)
      BY <1>4, <2>3, <3>1, ReadAnswerMoves DEF Saved
    <3> QED BY <1>2, <1>3, <2>3, <3>2 DEF AnswersSaved
  <2>4. CASE q = r /\ ~SaveAnswer(r) /\ ~ReadAnswer(r)
    <3>1. req'[r].pc # "saved"
      BY <2>4, StepMoves DEF Step, Passes, Inside
    <3> QED BY <1>2, <1>3, <1>4, <2>4, <3>1, StepMoves DEF Keeps, AnswersSaved
  <2> QED BY <2>1, <2>2, <2>3, <2>4
<1>5. ASSUME NEW g \in Generation, outcome'[g].kind = "done"
      PROVE  outcome'[g].by \in Request /\ SavedNext(req'[outcome'[g].by].message)
  <2>1. CASE outcome'[g] = outcome[g]
    BY <1>2, <1>3, <1>5, <2>1 DEF AnswersSaved
  <2>2. CASE outcome'[g] # outcome[g]
    <3>0. outcome'[g] = Event("done", r, req[r].got) /\ (Replay(r) \/ EmitDone(r))
      BY <1>5, <2>2, DoneComes
    <3>1. outcome'[g].by = r /\ (Replay(r) \/ EmitDone(r))
      BY <3>0 DEF Event
    <3>2. req[r].found = "answer" \/ req[r].pc = "saved"
      BY <1>1, <3>1 DEF Replay, EmitDone, WellFormed
    <3> QED BY <1>2, <1>3, <3>1, <3>2 DEF AnswersSaved
  <2> QED BY <2>1, <2>2
<1> QED BY <1>4, <1>5 DEF AnswersSaved, Saved, SavedNext

LEMMA RestOfStopping ==
  ASSUME IInv, Stopping
  PROVE  Counted' /\ AbortedIsOver' /\ Current' /\ RunningHasRequest' /\ AnswersSaved'
<1> USE TypeNow DEF IInv
<1>1. req' = req /\ job'.gen = job.gen /\ aborted \subseteq aborted'
  BY DEF Stopping, Stop, SaveStopped, PublishStop, Job
<1>2. job' = job \/ (Stop /\ job'.status = "aborted")
  BY DEF Stopping, Stop, SaveStopped, PublishStop, Job
<1>3. Counted'
  <2>1. job.gen = 0 => ~Stop
    BY DEF Counted, Stop
  <2> QED BY <1>1, <1>2, <2>1 DEF Counted
<1>4. AbortedIsOver'
  <2>1. CASE Stop
    <3>1. job.gen \in 1..job.gen /\ aborted' = aborted \cup {job.gen} /\ stopping'.gen = job.gen
      BY <2>1 DEF Stop, Counted
    <3> QED BY <1>1, <1>2, <2>1, <3>1 DEF AbortedIsOver, Stop
  <2>2. CASE SaveStopped \/ PublishStop
    <3>1. job' = job /\ aborted' = aborted
      BY <2>2 DEF SaveStopped, PublishStop
    <3>2. stopping' = NoStop \/ (stopping # NoStop /\ stopping'.gen = stopping.gen)
      BY <2>2 DEF SaveStopped, PublishStop, NoStop, StopState
    <3> QED BY <3>1, <3>2 DEF AbortedIsOver
  <2> QED BY <2>1, <2>2 DEF Stopping
<1>5. Current'
  <2> SUFFICES ASSUME NEW q \in Request, req[q].pc \in Inside \ {"creating"},
                      req[q].gen \notin aborted'
               PROVE  Owns(q)' /\ runtime' = job'.gen
    BY <1>1 DEF Current
  <2>1. Owns(q) /\ runtime = job.gen
    BY <1>1 DEF Current
  <2>2. ~Stop
    BY <2>1 DEF Stop, Owns
  <2>3. runtime' = runtime
    BY <2>1, <2>2, <1>1 DEF Stopping, SaveStopped, PublishStop, AbortedIsOver, NoStop, Owns
  <2> QED BY <1>1, <1>2, <2>1, <2>2, <2>3 DEF Owns
<1>6. RunningHasRequest'
  BY <1>1, <1>2 DEF RunningHasRequest
<1>7. AnswersSaved'
  <2>1. \A m : Saved(m) => SavedNext(m)
    BY DEF Stopping, Stop, SaveStopped, PublishStop, Saved, SavedNext
  <2>2. \A g \in Generation : outcome'[g].kind = "done" => outcome'[g] = outcome[g]
    <3>1. Event("stopped", Nobody, "empty") \in Outcome
      BY DEF Event, Outcome, Text
    <3> QED BY <3>1, Delivered DEF Stopping, Stop, SaveStopped, PublishStop, Hears, Event
  <2> QED BY <1>1, <2>1, <2>2 DEF AnswersSaved, Saved, SavedNext
<1> QED BY <1>3, <1>4, <1>5, <1>6, <1>7

LEMMA RestOfCheck ==
  ASSUME IInv, NEW r \in Request, NEW m \in Message, Check(r, m)
  PROVE  Counted' /\ AbortedIsOver' /\ Current' /\ RunningHasRequest' /\ AnswersSaved'
<1> USE DEF IInv
<1>1. UNCHANGED <<users, answers, job, runtime, aborted, stopping, outcome>>
  BY DEF Check
<1>2. \A q \in Request : req'[q].gen = req[q].gen
  BY CheckMoves DEF Moved, Others
<1>3. \A q \in Request \ {r} : req'[q] = req[q]
  BY CheckMoves DEF Moved, Others
<1>4. req[r].pc = "idle" /\ req'[r].pc \in {"checked", "rejected"} /\ req'[r].found # "answer"
  BY CheckMoves DEF Check
<1>5. Counted'
  BY <1>1, <1>2 DEF Counted
<1>6. AbortedIsOver'
  BY <1>1 DEF AbortedIsOver
<1>7. Current'
  BY <1>1, <1>3, <1>4 DEF Current, Owns, Inside
<1>8. RunningHasRequest'
  BY <1>1, <1>2, <1>3, <1>4 DEF RunningHasRequest, Inside
<1>9. AnswersSaved'
  <2>1. \A g \in Generation : outcome[g].kind = "done" => outcome[g].by # r
    BY <1>4, NobodyAssumption DEF AnswersSaved, Saved, Requests, WellFormed
  <2>2. \A q \in Request : req'[q].found = "answer" \/ req'[q].pc = "saved" => q # r
    BY <1>4
  <2> QED BY <1>1, <1>3, <2>1, <2>2 DEF AnswersSaved, Saved
<1> QED BY <1>5, <1>6, <1>7, <1>8, <1>9

LEMMA InvStep == ASSUME IInv, [Next]_vars PROVE IInv'
<1>1. ASSUME NEW r \in Request, Step(r) PROVE IInv'
  <2>1. TypeOK /\ Requests /\ Counted /\ AbortedIsOver /\ Current /\ RunningHasRequest /\ AnswersSaved
    BY DEF IInv
  <2>2. TypeOK' /\ Requests'
    BY <1>1, <2>1, TypeOfStep
  <2>3. Counted' /\ AbortedIsOver'
    BY <1>1, <2>1, CountedStep, AbortedStep
  <2>4. Current' /\ RunningHasRequest'
    BY <1>1, <2>1, CurrentStep, RunningStep
  <2>5. AnswersSaved'
    BY <1>1, <2>1, AnswersStep
  <2> QED BY <2>2, <2>3, <2>4, <2>5 DEF IInv
<1>2. ASSUME NEW r \in Request, NEW m \in Message, Check(r, m) PROVE IInv'
  BY <1>2, TypeOfCheck, RestOfCheck DEF IInv
<1>3. CASE Stopping
  BY <1>3, TypeOfStopping, RestOfStopping DEF IInv
<1>4. CASE UNCHANGED vars
  BY <1>4 DEF vars, IInv, TypeOK, Requests, WellFormed, Counted, AbortedIsOver, Current, Owns,
              RunningHasRequest, AnswersSaved, Saved
<1> QED BY <1>1, <1>2, <1>3, <1>4 DEF Next, Stopping

(* The domains of the controller, for any number of requests: among them   *)
(* that generations never outnumber requests.                              *)
THEOREM TypeCorrect == Spec => []TypeOK
<1>1. IInv => TypeOK
  BY DEF IInv
<1> QED BY <1>1, InvInit, InvStep, PTL DEF Spec

(* A chat at rest has no running job: the request whose generation is the  *)
(* running one ends it, since its own step out of the controller completes *)
(* the job or finds that it is not the owner.                              *)
THEOREM RestSafe == Spec => []NothingLeftRunning
<1>1. IInv => NothingLeftRunning
  BY DEF IInv, RunningHasRequest, NothingLeftRunning, AtRest, Inside
<1> QED BY <1>1, InvInit, InvStep, PTL DEF Spec

(* A browser that is told its question is done finds an answer to that     *)
(* question in Mongo, whichever request sent the event.                    *)
THEOREM DoneSafe == Spec => []DoneAfterSave
<1>1. IInv => DoneAfterSave
  BY DEF IInv, AnswersSaved, Saved, DoneAfterSave
<1> QED BY <1>1, InvInit, InvStep, PTL DEF Spec

(* A request that still reads its stream is the one that the job is about. *)
THEOREM LiveSafe == Spec => []LiveRunsAreCurrent
<1>1. IInv => LiveRunsAreCurrent
  BY DEF IInv, Current, LiveRunsAreCurrent, Inside
<1> QED BY <1>1, InvInit, InvStep, PTL DEF Spec
-----------------------------------------------------------------------------
(* What Stop and a retry are needed for.  Nobody stops an answer, and no   *)
(* two requests have the same message:                                     *)
Asked == {req[q].message : q \in Request}
Once == ~Stop /\ \A r \in Request, m \in Message : Check(r, m) => m \notin Asked

OnceInv ==
  /\ stopping = NoStop /\ users \subseteq Asked
  /\ \A p, q \in Request : p # q /\ req[p].message = req[q].message => req[p].pc = "idle"
  /\ \A q \in Request : /\ req[q].found = "nothing"
                        /\ req[q].pc = "saved" => answers[req[q].message] = req[q].got
  /\ \A g \in Generation : outcome[g].kind = "done" =>
       \E q \in Request : /\ outcome[g].by = q /\ req[q].pc \in {"done", "finished"}
                          /\ answers[req[q].message] = outcome[g].text

LEMMA OnceOfCheck ==
  ASSUME IInv, OnceInv, Once, NEW r \in Request, NEW m \in Message, Check(r, m)
  PROVE  OnceInv'
<1> USE TypeNow DEF IInv
<1>1. m \notin Asked /\ m \notin users /\ m # Nobody
  BY NobodyAssumption DEF Once, OnceInv
<1> DEFINE pc == IF Cardinality(users) >= Room THEN "rejected" ELSE "checked"
           found == IF m \in users THEN "question" ELSE "nothing"
<1>2. req' = [req EXCEPT ![r].message = m, ![r].found = found, ![r].pc = pc]
  BY DEF Check
<1>3. pc \notin {"idle", "saved"} /\ found = "nothing"
  BY <1>1
<1> HIDE DEF pc, found
<1>4. /\ req'[r].message = m /\ req'[r].found = "nothing" /\ req'[r].pc = pc
      /\ \A q \in Request \ {r} : req'[q] = req[q]
      /\ req[r].pc = "idle" /\ req[r].message = Nobody
  BY <1>2, <1>3 DEF ReqState, Check, Requests, WellFormed
<1>5. UNCHANGED <<users, answers, outcome, stopping>>
  BY DEF Check
<1>6. users' \subseteq Asked'
  <2> SUFFICES ASSUME NEW u \in users PROVE \E q \in Request : req'[q].message = u
    BY <1>5 DEF Asked
  <2>1. PICK q \in Request : req[q].message = u
    BY DEF OnceInv, Asked
  <2>2. q # r
    BY <1>4, <2>1, NobodyAssumption
  <2> QED BY <1>4, <2>1, <2>2
<1>7. \A q \in Request \ {r} : req[q].message # m
  BY <1>1 DEF Asked
<1>8. ASSUME NEW g \in Generation, outcome'[g].kind = "done"
      PROVE  \E q \in Request : /\ outcome'[g].by = q /\ req'[q].pc \in {"done", "finished"}
                                /\ answers'[req'[q].message] = outcome'[g].text
  <2>1. PICK q \in Request : /\ outcome[g].by = q /\ req[q].pc \in {"done", "finished"}
                             /\ answers[req[q].message] = outcome[g].text
    BY <1>5, <1>8 DEF OnceInv
  <2>2. q # r
    BY <1>4, <2>1
  <2> QED BY <1>4, <1>5, <2>1, <2>2
<1>9. \A p, q \in Request : p # q /\ req'[p].message = req'[q].message => req'[p].pc = "idle"
  BY <1>4, <1>7 DEF OnceInv
<1>10. \A q \in Request : /\ req'[q].found = "nothing"
                          /\ req'[q].pc = "saved" => answers'[req'[q].message] = req'[q].got
  BY <1>3, <1>4, <1>5 DEF OnceInv
<1>11. stopping' = NoStop
  BY <1>5 DEF OnceInv
<1> QED BY <1>6, <1>8, <1>9, <1>10, <1>11 DEF OnceInv

LEMMA OnceOfStep ==
  ASSUME IInv, OnceInv, NEW r \in Request, Step(r)
  PROVE  OnceInv'
<1> USE TypeNow DEF IInv
<1>1. WellFormed(req[r]) /\ req[r] \in ReqState
  BY DEF Requests, WellFormed
<1>2. /\ \A q \in Request : req'[q].message = req[q].message
      /\ \A q \in Request \ {r} : req'[q] = req[q]
  BY StepMoves DEF Keeps, Moved, Others
<1>3. req'[r].found = "nothing"
  <2>1. CASE ReadAnswer(r)
    BY <1>1, <2>1 DEF ReadAnswer, OnceInv, ReqState
  <2> QED BY <2>1, StepMoves DEF Keeps, OnceInv
<1>4. req[r].pc # "idle" /\ ~Replay(r)
  BY <1>1 DEF Step, ReadAnswer, CreateJob, InstallJob, InstallFails, Announce, Replay, SaveQuestion,
              StreamEnds, SaveAnswer, EmitDone, Finish, Throw, EmitError, FinishFailed, OnceInv, WellFormed
<1>5. stopping' = stopping /\ users' \subseteq Asked'
  <2>1. Asked' = Asked
    BY <1>2 DEF Asked
  <2>2. stopping' = stopping /\ (users' = users \/ users' = users \cup {req[r].message})
    BY DEF Step, ReadAnswer, CreateJob, InstallJob, InstallFails, Announce, Replay, SaveQuestion,
           StreamEnds, SaveAnswer, EmitDone, Finish, Throw, EmitError, FinishFailed
  <2> QED BY <2>1, <2>2 DEF OnceInv, Asked
<1>6. \A q \in Request : req'[q].pc = "idle" <=> req[q].pc = "idle"
  BY <1>2, StepMoves DEF Keeps, Moved, Requests, WellFormed
(* The answer of another message than that of the request is left alone.   *)
<1>7. \A q \in Request : q # r /\ req[q].pc # "idle" => answers'[req[q].message] = answers[req[q].message]
  <2>1. CASE SaveAnswer(r)
    <3>1. answers' = [answers EXCEPT ![req[r].message] = req[r].got]
      BY <2>1 DEF SaveAnswer
    <3> QED BY <3>1 DEF OnceInv
  <2>2. CASE ~SaveAnswer(r)
    BY <2>2 DEF Step, ReadAnswer, CreateJob, InstallJob, InstallFails, Announce, Replay, SaveQuestion,
                StreamEnds, EmitDone, Finish, Throw, EmitError, FinishFailed
  <2> QED BY <2>1, <2>2
<1>8. ~SaveAnswer(r) => answers' = answers
  BY DEF Step, ReadAnswer, CreateJob, InstallJob, InstallFails, Announce, Replay, SaveQuestion,
         StreamEnds, EmitDone, Finish, Throw, EmitError, FinishFailed
<1>9. ASSUME NEW q \in Request, req'[q].pc = "saved"
      PROVE  answers'[req'[q].message] = req'[q].got
  <2>1. CASE q # r
    BY <1>2, <1>7, <1>9, <2>1 DEF OnceInv
  <2>2. CASE q = r
    <3>1. SaveAnswer(r)
      BY <1>4, <1>9, <2>2, StepMoves DEF Step, Passes, Inside
    <3>2. req[r].message \in Message /\ req'[r].got = req[r].got
      BY <1>1, <3>1 DEF SaveAnswer, Goto, WellFormed, ReqState
    <3> QED BY <1>2, <2>2, <3>1, <3>2 DEF SaveAnswer
  <2> QED BY <2>1, <2>2
<1>10. ASSUME NEW g \in Generation, outcome'[g].kind = "done"
       PROVE  \E q \in Request : /\ outcome'[g].by = q /\ req'[q].pc \in {"done", "finished"}
                                 /\ answers'[req'[q].message] = outcome'[g].text
  <2>1. CASE outcome'[g] = outcome[g]
    <3>1. PICK q \in Request : /\ outcome[g].by = q /\ req[q].pc \in {"done", "finished"}
                               /\ answers[req[q].message] = outcome[g].text
      BY <1>10, <2>1 DEF OnceInv
    <3>2. CASE q # r
      BY <1>2, <1>7, <2>1, <3>1, <3>2
    <3>3. CASE q = r
      <4>1. Finish(r)
        BY <3>1, <3>3 DEF Step, ReadAnswer, CreateJob, InstallJob, InstallFails, Announce, Replay,
              SaveQuestion, StreamEnds, SaveAnswer, EmitDone, Finish, Throw, EmitError, FinishFailed
      <4>2. req'[r].pc = "finished" /\ answers' = answers
        BY <4>1, StepMoves DEF Finish
      <4> QED BY <1>2, <2>1, <3>1, <3>3, <4>2
    <3> QED BY <3>2, <3>3
  <2>2. CASE outcome'[g] # outcome[g]
    <3>1. outcome'[g] = Event("done", r, req[r].got) /\ EmitDone(r)
      BY <1>4, <1>10, <2>2, DoneComes
    <3>2. Goto(r, "done") /\ req[r].pc = "saved" /\ answers' = answers
      BY <3>1 DEF EmitDone
    <3>3. req'[r].pc = "done"
      BY <3>2 DEF Goto
    <3> QED BY <1>2, <3>1, <3>2, <3>3 DEF Event, OnceInv
  <2> QED BY <2>1, <2>2
<1>11. \A p, q \in Request : p # q /\ req'[p].message = req'[q].message => req'[p].pc = "idle"
  BY <1>2, <1>6 DEF OnceInv
<1>12. \A q \in Request : req'[q].found = "nothing"
  BY <1>2, <1>3 DEF OnceInv
<1> QED BY <1>5, <1>9, <1>10, <1>11, <1>12 DEF OnceInv

LEMMA OnceStep == ASSUME IInv, OnceInv, [Next]_vars, [Once]_vars PROVE OnceInv'
<1>1. CASE UNCHANGED vars
  BY <1>1 DEF vars, OnceInv, Asked
<1>2. CASE Next /\ Once
  <2>1. ~SaveStopped /\ ~PublishStop /\ ~Stop
    BY <1>2 DEF Once, OnceInv, SaveStopped, PublishStop, NoStop
  <2> QED BY <1>2, <2>1, OnceOfCheck, OnceOfStep DEF Next
<1> QED BY <1>1, <1>2

LEMMA OnceInit == Init => OnceInv
BY DEF Init, OnceInv, Idle, NoOutcome, Asked

(* In a chat where no answer is stopped and no message is sent twice, what *)
(* a browser is told is what Mongo has: SaveStopped and the second run of  *)
(* a retry are the only ways in which an answer that was told is replaced. *)
THEOREM UndisturbedDone == Spec /\ [][Once]_vars => []DoneIsInDatabase
<1>1. OnceInv => DoneIsInDatabase
  BY DEF OnceInv, DoneIsInDatabase
<1> QED BY InvInit, InvStep, OnceInit, OnceStep, <1>1, PTL DEF Spec
-----------------------------------------------------------------------------
(* What a replacement is needed for.  No job is created while another      *)
(* request of the chat is being served:                                    *)
Serial == \A r \in Request : CreateJob(r) => \A q \in Request : req[q].pc \notin Inside

Ended(q) == req[q].pc \in {"done", "failed", "finished"}

SerialInv ==
  /\ \A q \in Request : req[q].gen <= job.gen
  /\ \A p, q \in Request : p # q /\ req[p].gen = req[q].gen => req[p].gen = 0
  /\ \A q \in Request : req[q].pc \in Inside => req[q].gen = job.gen
  /\ \A q \in Request : req[q].pc \in Inside \ {"creating"} => runtime \in {0, job.gen}
  /\ \A q \in Request : Ended(q) => req[q].gen # 0 /\ outcome[req[q].gen] # NoOutcome
  /\ OwnTerminal

LEMMA DeliveredTo ==
  ASSUME NEW gens, NEW event, outcome' = Deliver(gens, event), NEW g \in Generation
  PROVE  outcome'[g] = IF g \in gens \cap Listening /\ outcome[g] = NoOutcome
                       THEN event ELSE outcome[g]
BY DEF Deliver

(* What a request tells reaches its own browser, and no other one.         *)
LEMMA SerialTells ==
  ASSUME TypeOK, Requests, SerialInv, NEW r \in Request, NEW event, event # NoOutcome,
         req[r].pc \in Inside \ {"creating"}, EmitTerminal(event), NEW g \in Generation
  PROVE  /\ outcome'[g] = outcome[g] \/ (outcome'[g] = event /\ g = req[r].gen)
         /\ g = req[r].gen => outcome'[g] # NoOutcome
<1> DEFINE gens == IF runtime = 0 THEN Generation ELSE {runtime}
<1>1. outcome'[g] = IF g \in gens \cap Listening /\ outcome[g] = NoOutcome THEN event ELSE outcome[g]
  <2>1. outcome' = Deliver(gens, event)
    BY DEF EmitTerminal
  <2> HIDE DEF gens
  <2> QED BY <2>1, DeliveredTo
<1>2. req[r].gen = job.gen /\ req[r].gen # 0 /\ req[r].gen \in Listening
  BY DEF SerialInv, Listening, Requests, WellFormed
<1>3. g \in gens /\ g \in Listening /\ outcome[g] = NoOutcome => g = req[r].gen
  <2>1. CASE runtime # 0
    BY <1>2, <2>1 DEF SerialInv
  <2>2. ASSUME g \in Listening, outcome[g] = NoOutcome
        PROVE  g = req[r].gen
    <3>1. PICK q \in Request : /\ req[q].gen = g
                               /\ req[q].pc \in Inside \ {"creating"} \/ req[q].pc = "finished"
      BY <2>2 DEF Listening
    <3>2. req[q].pc # "finished"
      BY <2>2, <3>1 DEF SerialInv, Ended
    <3> QED BY <1>2, <3>1, <3>2 DEF SerialInv
  <2> QED BY <2>1, <2>2
<1>4. g = req[r].gen => g \in gens
  BY <1>2 DEF SerialInv
<1> QED BY <1>1, <1>2, <1>3, <1>4

(* The invariant, for a step that keeps the generations.                   *)
LEMMA SerialKept ==
  ASSUME TypeOK, Requests, SerialInv, NEW r \in Request, Others(r),
         req'[r].gen = req[r].gen, job'.gen = job.gen,
         req'[r].pc \in Inside => req[r].pc \in Inside,
         req'[r].pc \in Inside \ {"creating"} => runtime' \in {0, job.gen},
         runtime' \in {0, runtime, job.gen},
         \A g \in Generation : outcome'[g] = outcome[g]
           \/ (outcome[g] = NoOutcome /\ (outcome'[g].by = r => g = req[r].gen)
               /\ (outcome'[g].by \in {r, Nobody}) /\ outcome'[g] # NoOutcome),
         Ended(r)' => req[r].gen # 0 /\ outcome'[req[r].gen] # NoOutcome
  PROVE  SerialInv'
<1>1. \A q \in Request : req'[q].gen = req[q].gen /\ req[q].gen \in Generation \cup {0}
  BY DEF Others, Requests, WellFormed, ReqState
<1>2. \A q \in Request : req'[q].pc \in Inside => req[q].pc \in Inside
  BY DEF Others
<1>3. \A q \in Request : req'[q].pc \in Inside \ {"creating"} => runtime' \in {0, job'.gen}
  BY DEF Others, SerialInv
<1>4. ASSUME NEW q \in Request, Ended(q)'
      PROVE  req'[q].gen # 0 /\ outcome'[req'[q].gen] # NoOutcome
  <2>1. CASE q = r
    BY <1>1, <1>4, <2>1
  <2>2. CASE q # r
    BY <1>1, <1>4, <2>2 DEF Others, Ended, SerialInv
  <2> QED BY <2>1, <2>2
<1>5. OwnTerminal'
  <2> SUFFICES ASSUME NEW g \in Generation, NEW q \in Request, outcome'[g].by = q
               PROVE  req[q].gen = g
    BY <1>1 DEF OwnTerminal
  <2>1. CASE outcome'[g] = outcome[g]
    BY <2>1 DEF SerialInv, OwnTerminal
  <2>2. CASE outcome'[g] # outcome[g]
    BY <2>2, NobodyAssumption
  <2> QED BY <2>1, <2>2
<1>6. \A p, q \in Request : p # q /\ req'[p].gen = req'[q].gen => req'[p].gen = 0
  BY <1>1 DEF SerialInv
<1>7. \A q \in Request : req'[q].gen <= job'.gen
  BY <1>1 DEF SerialInv
<1>8. \A q \in Request : req'[q].pc \in Inside => req'[q].gen = job'.gen
  BY <1>1, <1>2 DEF SerialInv
<1> QED BY <1>3, <1>4, <1>5, <1>6, <1>7, <1>8 DEF SerialInv

LEMMA SerialOfCreate ==
  ASSUME IInv, SerialInv, NEW r \in Request, CreateJob(r), \A q \in Request : req[q].pc \notin Inside
  PROVE  SerialInv'
<1> USE TypeNow DEF IInv
<1>1. /\ Others(r) /\ req'[r].pc = "creating" /\ req'[r].gen = job.gen + 1
      /\ job.gen + 1 \in Generation
  BY CreateJobMoves DEF Moved
<1>2. job'.gen = job.gen + 1 /\ runtime' = runtime
      /\ outcome' = Deliver(Replaced, Event("replaced", Nobody, "none"))
  BY DEF CreateJob
<1>3. \A q \in Request : req[q].gen \in Nat /\ req[q].gen <= job.gen
  BY NumberType DEF SerialInv, Requests, WellFormed, ReqState, Generation, Number
<1>4. \A g \in Generation : outcome'[g] = outcome[g]
                            \/ (outcome[g] = NoOutcome /\ outcome'[g] = Event("replaced", Nobody, "none"))
  BY <1>2, DeliveredTo
<1>5. req[r].gen = 0
  BY DEF CreateJob, Requests, WellFormed, Early
<1>6. \A q \in Request : q # r => req'[q] = req[q] /\ req[q].pc \notin Inside
  BY <1>1 DEF Others
<1>7. OwnTerminal'
  <2> SUFFICES ASSUME NEW g \in Generation, NEW q \in Request, outcome'[g].by = q
               PROVE  req'[q].gen = g
    BY DEF OwnTerminal
  <2>1. outcome[g].by = q
    BY <1>4, NobodyAssumption DEF Event
  <2>2. req[q].gen = g /\ g # 0
    BY <2>1 DEF SerialInv, OwnTerminal, Generation
  <2> QED BY <1>5, <1>6, <2>2
<1>8. \A q \in Request : Ended(q)' => req'[q].gen # 0 /\ outcome'[req'[q].gen] # NoOutcome
  <2> SUFFICES ASSUME NEW q \in Request, Ended(q)'
               PROVE  req'[q].gen # 0 /\ outcome'[req'[q].gen] # NoOutcome
    OBVIOUS
  <2>1. q # r
    BY <1>1 DEF Ended
  <2>2. req[q].gen \in Generation /\ outcome[req[q].gen] # NoOutcome
    BY <1>6, <2>1 DEF Ended, SerialInv, Requests, WellFormed, ReqState
  <2> QED BY <1>4, <1>6, <2>1, <2>2 DEF Generation
<1>9. \A q \in Request : req'[q].gen <= job'.gen
  BY <1>1, <1>2, <1>3, <1>6
<1>10. \A p, q \in Request : p # q /\ req'[p].gen = req'[q].gen => req'[p].gen = 0
  BY <1>1, <1>3, <1>6 DEF SerialInv
<1>11. \A q \in Request : req'[q].pc \in Inside => q = r
  BY <1>6
<1> QED BY <1>1, <1>2, <1>7, <1>8, <1>9, <1>10, <1>11 DEF SerialInv

LEMMA SerialOfStep ==
  ASSUME IInv, SerialInv, NEW r \in Request, Step(r), ~CreateJob(r)
  PROVE  SerialInv'
<1> USE TypeNow DEF IInv
<1>1. Others(r) /\ req'[r].gen = req[r].gen
  BY StepMoves DEF Keeps, Moved
<1>2. CASE InstallJob(r)
  <2>1. /\ req'[r].pc = "waiting" /\ req[r].pc = "creating" /\ job' = job /\ runtime' = job.gen
        /\ outcome' = outcome
    BY <1>2, StepMoves DEF InstallJob
  <2> QED BY <1>1, <2>1, SerialKept DEF Ended, Inside
<1>3. CASE ReadAnswer(r) \/ InstallFails(r) \/ SaveAnswer(r)
  <2>1. /\ req'[r].pc \in {"ready", "thrown", "saved"}
        /\ req'[r].pc = "saved" => req[r].pc \in Inside \ {"creating"}
    BY <1>3, StepMoves DEF SaveAnswer, Inside
  <2>2. UNCHANGED <<job, runtime, outcome>>
    BY <1>3 DEF ReadAnswer, InstallFails, SaveAnswer
  <2> QED BY <1>1, <2>1, <2>2, SerialKept DEF Ended, Inside, SerialInv
<1>4. CASE Announce(r) \/ SaveQuestion(r) \/ StreamEnds(r) \/ Throw(r)
  <2>1. req[r].pc \in Inside \ {"creating"} /\ req'[r].pc \in Inside
    BY <1>4, StepMoves DEF Passes
  <2>2. req'[r].pc \in {"replaying", "asking", "calling", "answered", "failing"}
    BY <1>4, GoingMoves, StreamEndsMoves, ThrowMoves DEF Announce, SaveQuestion, PC, Inside, Early
  <2>3. runtime' = runtime /\ outcome' = outcome /\ job'.gen = job.gen
    BY <1>4, CreatedKeeps DEF Announce, SaveQuestion, StreamEnds, Throw
  <2> QED BY <1>1, <2>1, <2>2, <2>3, SerialKept DEF Ended, SerialInv
<1>5. CASE Replay(r) \/ EmitDone(r) \/ EmitError(r)
  <2> PICK event : /\ EmitTerminal(event) /\ event.by = r /\ event # NoOutcome
    BY <1>5 DEF Replay, EmitDone, EmitError, Event, NoOutcome
  <2>1. req[r].pc \in Inside \ {"creating"}
    BY <1>5, StepMoves DEF Passes
  <2>2. UNCHANGED <<job, runtime>>
    BY <1>5 DEF Replay, EmitDone, EmitError
  <2>3. \A g \in Generation : /\ outcome'[g] = outcome[g] \/ (outcome'[g] = event /\ g = req[r].gen)
                              /\ g = req[r].gen => outcome'[g] # NoOutcome
    BY <2>1, SerialTells
  <2>4. \A g \in Generation : outcome'[g] # outcome[g] => outcome[g] = NoOutcome
    BY DeliveredTo DEF EmitTerminal
  <2>5. req[r].gen # 0 /\ req[r].gen \in Generation
    BY <2>1 DEF Requests, WellFormed, ReqState
  <2> QED BY <1>1, <2>1, <2>2, <2>3, <2>4, <2>5, SerialKept DEF SerialInv
<1>6. CASE Finish(r) \/ FinishFailed(r)
  <2>1. req[r].pc \in {"done", "failed"} /\ req'[r].pc = "finished"
    BY <1>6, StepMoves DEF Finish, FinishFailed
  <2>2. PICK status \in {"complete", "error"} : CompleteJob(r, status)
    BY <1>6 DEF Finish, FinishFailed
  <2>3. req[r].gen = job.gen /\ req[r].gen # 0 /\ req[r].gen \in Generation
        /\ outcome[req[r].gen] # NoOutcome
    BY <2>1 DEF SerialInv, Ended, Inside, Requests, WellFormed, ReqState
  <2>4. job'.gen = job.gen /\ runtime' \in {0, runtime}
    BY <2>2, Completes DEF CompleteJob
  <2>5. outcome' = outcome \/ outcome' = Deliver({job.gen}, Event("error", r, "none"))
    BY <2>2 DEF CompleteJob
  <2>6. \A g \in Generation : outcome'[g] = outcome[g]
    BY <2>3, <2>5, DeliveredTo
  <2> QED BY <1>1, <2>1, <2>3, <2>4, <2>6, SerialKept DEF Inside
<1> QED BY <1>2, <1>3, <1>4, <1>5, <1>6 DEF Step

LEMMA SerialOfCheck ==
  ASSUME IInv, SerialInv, NEW r \in Request, NEW m \in Message, Check(r, m)
  PROVE  SerialInv'
<1> USE TypeNow DEF IInv
<1>1. Others(r) /\ req'[r].gen = req[r].gen /\ req'[r].pc \in {"checked", "rejected"}
  BY CheckMoves DEF Moved
<1>2. UNCHANGED <<job, runtime, outcome>>
  BY DEF Check
<1> QED BY <1>1, <1>2, SerialKept DEF Inside, Ended

LEMMA SerialOfStopping ==
  ASSUME IInv, SerialInv, Stopping
  PROVE  SerialInv'
<1> USE TypeNow DEF IInv
<1>1. req' = req /\ job'.gen = job.gen /\ runtime' \in {0, runtime}
  BY DEF Stopping, Stop, SaveStopped, PublishStop, Job
<1>2. \A g \in Generation : outcome'[g] = outcome[g]
                            \/ (outcome[g] = NoOutcome /\ outcome'[g] = Event("stopped", Nobody, "empty"))
  BY DeliveredTo DEF Stopping, Stop, SaveStopped, PublishStop
<1>3. OwnTerminal'
  BY <1>1, <1>2, NobodyAssumption DEF SerialInv, OwnTerminal, Event
<1>4. \A q \in Request : Ended(q)' => req'[q].gen # 0 /\ outcome'[req'[q].gen] # NoOutcome
  <2> SUFFICES ASSUME NEW q \in Request, Ended(q)'
               PROVE  req[q].gen # 0 /\ outcome'[req[q].gen] # NoOutcome
    BY <1>1
  <2>1. req[q].gen \in Generation /\ req[q].gen # 0 /\ outcome[req[q].gen] # NoOutcome
    BY <1>1 DEF Ended, SerialInv, Requests, WellFormed, ReqState
  <2> QED BY <1>2, <2>1
<1> QED BY <1>1, <1>3, <1>4 DEF SerialInv

LEMMA SerialStep == ASSUME IInv, SerialInv, [Next]_vars, [Serial]_vars PROVE SerialInv'
<1>1. CASE UNCHANGED vars
  BY <1>1 DEF vars, SerialInv, Ended, OwnTerminal
<1>2. CASE Next /\ Serial
  BY <1>2, SerialOfCreate, SerialOfStep, SerialOfCheck, SerialOfStopping DEF Next, Serial, Stopping
<1> QED BY <1>1, <1>2

LEMMA SerialInit == Init => SerialInv
BY NobodyAssumption DEF Init, SerialInv, Idle, NoOutcome, Inside, Ended, OwnTerminal

(* In a chat whose jobs are created one after the other, each once nothing *)
(* of the chat is being served any more, the end that a browser hears of   *)
(* is sent by its own request, by a Stop or by the next job: terminal      *)
(* events without an expected generation go astray only when requests      *)
(* overlap.                                                                *)
THEOREM SerialOwn == Spec /\ [][Serial]_vars => []OwnTerminal
<1>1. SerialInv => OwnTerminal
  BY DEF SerialInv
<1> QED BY InvInit, InvStep, SerialInit, SerialStep, <1>1, PTL DEF Spec
-----------------------------------------------------------------------------
(* The refinement of StreamPromise                                         *)

(* The generations are those of the requests, in order.                    *)
Numbered ==
  /\ \A q \in Request : req[q].gen <= job.gen
  /\ \A p, q \in Request : p # q /\ req[p].gen = req[q].gen => req[p].gen = 0

(* The browser of the newest generation has not heard that it is over, as  *)
(* long as its controller goes on.                                         *)
Ends ==
  \A g \in Generation :
    /\ outcome[g].kind = "none" => outcome[g] = NoOutcome
    /\ outcome[g].kind \in {"stopped", "replaced"} => g \in aborted \/ g < job.gen

PromiseInv == IInv /\ Numbered /\ Ends
Attached == (Inside \ {"creating"}) \cup {"finished"}
AbsStep == [Promise!AbsNext]_(Promise!absVars)

LEMMA NumberedStep == ASSUME IInv, Numbered, [Next]_vars PROVE Numbered'
<1> USE TypeNow DEF IInv
<1>0. \A q \in Request : req[q].gen \in Nat
  BY NumberType DEF Requests, WellFormed, ReqState, Generation, Number
<1>1. ASSUME NEW r \in Request, CreateJob(r) PROVE Numbered'
  <2>1. /\ \A q \in Request \ {r} : req'[q] = req[q]
        /\ req'[r].gen = job.gen + 1 /\ job'.gen = job.gen + 1
    BY <1>1, CreateJobMoves DEF Moved, Others, CreateJob
  <2>2. \A q \in Request : req'[q].gen <= job'.gen
    BY <1>0, <2>1 DEF Numbered
  <2>3. \A p, q \in Request : p # q /\ req'[p].gen = req'[q].gen => req'[p].gen = 0
    BY <1>0, <2>1 DEF Numbered
  <2> QED BY <2>2, <2>3 DEF Numbered
<1>2. ASSUME NEW r \in Request, Step(r), ~CreateJob(r) PROVE Numbered'
  <2>1. \A q \in Request : req'[q].gen = req[q].gen
    BY <1>2, StepMoves DEF Keeps, Moved, Others
  <2>2. job'.gen = job.gen
    <3>1. CASE InstallJob(r) \/ Same
      BY <3>1 DEF InstallJob, Same
    <3>2. CASE Announce(r)
      BY <3>2, CreatedKeeps DEF Announce
    <3>3. CASE Finish(r) \/ FinishFailed(r)
      BY <3>3, Completes DEF Finish, FinishFailed
    <3> QED BY <1>2, <3>1, <3>2, <3>3, StepsLeaveJob DEF Step
  <2> QED BY <2>1, <2>2 DEF Numbered
<1>3. ASSUME NEW r \in Request, NEW m \in Message, Check(r, m) PROVE Numbered'
  <2>1. \A q \in Request : req'[q].gen = req[q].gen
    BY <1>3, CheckMoves DEF Moved, Others
  <2> QED BY <1>3, <2>1 DEF Check, Numbered
<1>4. CASE Stopping
  BY <1>4 DEF Stopping, Stop, SaveStopped, PublishStop, Job, Numbered
<1>5. CASE UNCHANGED vars
  BY <1>5 DEF vars, Numbered
<1> QED BY <1>1, <1>2, <1>3, <1>4, <1>5 DEF Next, Stopping

LEMMA EndsKept ==
  ASSUME TypeOK, Ends, aborted \subseteq aborted', job'.gen \in Nat, job.gen <= job'.gen,
         \A g \in Generation :
           \/ outcome'[g] = outcome[g] \/ outcome'[g].kind \in {"done", "error"}
           \/ /\ outcome'[g].kind \in {"stopped", "replaced"}
              /\ g \in aborted' \/ g < job'.gen
  PROVE  Ends'
<1> SUFFICES ASSUME NEW g \in Generation
             PROVE  /\ outcome'[g].kind = "none" => outcome'[g] = NoOutcome
                    /\ outcome'[g].kind \in {"stopped", "replaced"} => g \in aborted' \/ g < job'.gen
  BY DEF Ends
<1>1. CASE outcome'[g] = outcome[g]
  <2>1. g \in Nat /\ job.gen \in Nat
    BY TypeNow, NumberType DEF Generation, Number
  <2> QED BY <1>1, <2>1 DEF Ends
<1> QED BY <1>1

LEMMA EndsStep == ASSUME IInv, Ends, [Next]_vars PROVE Ends'
<1> USE TypeNow DEF IInv
<1>1. ASSUME NEW r \in Request, CreateJob(r) PROVE Ends'
  <2>1. /\ job'.gen = job.gen + 1 /\ aborted \subseteq aborted'
        /\ outcome' = Deliver(Replaced, Event("replaced", Nobody, "none"))
    BY <1>1 DEF CreateJob
  <2>2. \A g \in Replaced : g <= job.gen
    BY DEF Replaced
  <2>3. \A g \in Generation : outcome'[g] = outcome[g]
                              \/ (outcome'[g].kind = "replaced" /\ g \in Replaced)
    BY <2>1, DeliveredTo DEF Event
  <2> QED BY <2>1, <2>2, <2>3, NumberType, EndsKept DEF Generation, Number
<1>2. ASSUME NEW r \in Request, Step(r), ~CreateJob(r) PROVE Ends'
  <2>1. CASE InstallJob(r) \/ Announce(r) \/ (Same /\ UNCHANGED outcome)
    BY <2>1, EndsKept, CreatedKeeps DEF InstallJob, Announce, Same
  <2>2. CASE Replay(r) \/ EmitDone(r) \/ EmitError(r)
    <3> PICK event : EmitTerminal(event) /\ event.kind \in {"done", "error"}
      BY <2>2 DEF Replay, EmitDone, EmitError, Event
    <3>1. \A g \in Generation : outcome'[g] \in {event, outcome[g]}
      BY DeliveredTo DEF EmitTerminal
    <3> QED BY <2>2, <3>1, EndsKept DEF Replay, EmitDone, EmitError
  <2>3. CASE Finish(r) \/ FinishFailed(r)
    <3> PICK status \in {"complete", "error"} : CompleteJob(r, status)
      BY <2>3 DEF Finish, FinishFailed
    <3>1. \A g \in Generation : outcome'[g] \in {Event("error", r, "none"), outcome[g]}
      BY Completes DEF Hears
    <3>2. aborted \subseteq aborted' /\ job'.gen = job.gen
      BY Completes
    <3> QED BY <3>1, <3>2, EndsKept DEF Event
  <2>4. Replay(r) \/ EmitDone(r) \/ EmitError(r) \/ Finish(r) \/ FinishFailed(r)
        \/ InstallJob(r) \/ Announce(r) \/ (Same /\ UNCHANGED outcome)
    BY <1>2, StepsLeaveJob
       DEF Step, ReadAnswer, InstallFails, SaveQuestion, StreamEnds, SaveAnswer, Throw
  <2> QED BY <2>1, <2>2, <2>3, <2>4
<1>3. ASSUME NEW r \in Request, NEW m \in Message, Check(r, m) PROVE Ends'
  BY <1>3, EndsKept DEF Check
<1>4. CASE Stopping
  <2>1. aborted \subseteq aborted' /\ job'.gen = job.gen
    BY <1>4 DEF Stopping, Stop, SaveStopped, PublishStop, Job
  <2>2. \A g \in Generation : outcome'[g] = outcome[g]
          \/ (outcome'[g].kind = "stopped" /\ g = stopping.gen /\ stopping # NoStop)
    BY <1>4, DeliveredTo DEF Stopping, Stop, SaveStopped, PublishStop, Event, NoStop
  <2>3. \A g \in Generation : g = stopping.gen /\ stopping # NoStop => g \in aborted'
    BY <2>1 DEF AbortedIsOver
  <2> QED BY <2>1, <2>2, <2>3, EndsKept
<1>5. CASE UNCHANGED vars
  BY <1>5 DEF vars, Ends
<1> QED BY <1>1, <1>2, <1>3, <1>4, <1>5 DEF Next, Stopping

LEMMA PromiseInvStep == ASSUME PromiseInv, [Next]_vars PROVE PromiseInv'
BY InvStep, NumberedStep, EndsStep DEF PromiseInv

LEMMA PromiseInvInit == Init => PromiseInv
<1> SUFFICES ASSUME Init PROVE PromiseInv
  OBVIOUS
<1>1. Numbered
  BY DEF Init, Numbered, Idle
<1>2. Ends
  BY DEF Init, Ends, NoOutcome
<1> QED BY <1>1, <1>2, InvInit DEF PromiseInv
-----------------------------------------------------------------------------
(* What a step does to each part of the promise                            *)

LEMMA LiveIsCurrent ==
  ASSUME IInv
  PROVE  /\ Live \in {{}, {job.gen}}
         /\ Live # {} => job.gen \in Listening \ aborted
<1>1. \A q \in Reading : /\ req[q].gen = job.gen /\ q \in Request /\ req[q].pc = "calling"
                         /\ req[q].gen \notin aborted
  BY DEF IInv, Current, Reading, Owns, Inside
<1>2. Live \subseteq {job.gen}
  BY <1>1 DEF Live
<1>3. Live # {} => job.gen \in Listening \ aborted
  BY <1>1 DEF Live, Listening, Inside
<1> QED BY <1>2, <1>3

LEMMA ListeningKept ==
  ASSUME NEW r \in Request, Others(r), req'[r].gen = req[r].gen,
         req'[r].pc \in Attached <=> req[r].pc \in Attached
  PROVE  Listening' = Listening
<1>1. \A q \in Request : req'[q].gen = req[q].gen
  BY DEF Others
<1>2. \A q \in Request : req'[q].pc \in Attached <=> req[q].pc \in Attached
  BY DEF Others
<1> DEFINE browsers == {q \in Request : req[q].pc \in Inside \ {"creating"} \/ req[q].pc = "finished"}
<1>3. browsers' = browsers
  BY <1>2 DEF Attached
<1>4. Listening = {req[q].gen : q \in browsers} /\ Listening' = {req'[q].gen : q \in browsers'}
  BY DEF Listening
<1>5. \A q \in browsers : q \in Request
  OBVIOUS
<1> HIDE DEF browsers
<1> QED BY <1>1, <1>3, <1>4, <1>5

LEMMA LiveShrinks ==
  ASSUME IInv, NEW r \in Request, Others(r), req'[r].gen = req[r].gen,
         req'[r].pc = "calling" => req[r].pc = "calling", aborted \subseteq aborted'
  PROVE  Live' \in {Live, {}}
<1>1. Reading' \subseteq Reading
  BY DEF Reading, Others
<1>2. \A q \in Request : req'[q].gen = req[q].gen
  BY DEF Others
<1>3. Live' \subseteq Live
  BY <1>1, <1>2 DEF Live, Reading
<1> QED BY <1>3, LiveIsCurrent

LEMMA HeardKept ==
  ASSUME IInv, UNCHANGED outcome,
         \A q \in Request : req[q].pc # "idle" => req'[q].message = req[q].message
  PROVE  Heard' = Heard
<1>1. \A g \in Generation : outcome[g].kind = "done" =>
        /\ outcome[g].by \in Request
        /\ req'[outcome[g].by].message = req[outcome[g].by].message
  BY NobodyAssumption DEF IInv, AnswersSaved, Saved, Requests, WellFormed
<1> QED BY <1>1 DEF Heard

EndOf(event) ==
  [kind |-> event.kind,
   message |-> IF event.kind = "done" THEN req[event.by].message ELSE Nobody]

LEMMA HeardTells ==
  ASSUME IInv, Ends, NEW gens, NEW event, event.kind # "none", outcome' = Deliver(gens, event),
         \A q \in Request : req'[q].message = req[q].message,
         event.kind = "done" => event.by \in Request
  PROVE  /\ gens \cap Listening \in SUBSET Listening
         /\ Promise!Tell(gens \cap Listening, EndOf(event))
<1>1. \A g \in Generation : outcome[g].kind = "done" => outcome[g].by \in Request
  BY DEF IInv, AnswersSaved
<1>2. ASSUME NEW g \in Generation
      PROVE  Heard'[g] = IF g \in gens \cap Listening /\ Heard[g] = Promise!Silence
                         THEN EndOf(event) ELSE Heard[g]
  <2>1. outcome'[g] = IF g \in gens \cap Listening /\ outcome[g] = NoOutcome
                      THEN event ELSE outcome[g]
    BY DeliveredTo
  <2>2. /\ Heard[g] = EndOf(outcome[g])
        /\ Heard'[g] = [kind |-> outcome'[g].kind,
                        message |-> IF outcome'[g].kind = "done"
                                    THEN req'[outcome'[g].by].message ELSE Nobody]
    BY DEF Heard, EndOf
  <2>3. Heard'[g] = EndOf(outcome'[g])
    BY <1>1, <2>1, <2>2 DEF EndOf
  <2>4. Heard[g] = Promise!Silence <=> outcome[g] = NoOutcome
    BY <2>2 DEF EndOf, Promise!Silence, NoOutcome, Ends
  <2> QED BY <2>1, <2>2, <2>3, <2>4
<1>3. Heard' = [g \in Generation |-> Heard'[g]]
  BY DEF Heard
<1> QED BY <1>2, <1>3 DEF Promise!Tell

LEMMA AbsVarsAre == Promise!absVars = <<job.gen, Listening, Live, Heard, Answered>>
BY DEF Promise!absVars

LEMMA Stutters ==
  ASSUME UNCHANGED <<Listening, Live, Heard, Answered>>, job'.gen = job.gen PROVE AbsStep
BY DEF AbsStep, Promise!absVars

LEMMA CutsOff ==
  ASSUME UNCHANGED <<Listening, Heard, Answered>>, job'.gen = job.gen, Live' \in {Live, {}} PROVE AbsStep
<1>1. CASE Live' = Live
  BY <1>1, Stutters
<1>2. CASE Live' = {}
  BY <1>2 DEF AbsStep, Promise!AbsNext, Promise!CutOff
<1> QED BY <1>1, <1>2

LEMMA Concludes ==
  ASSUME UNCHANGED <<Listening, Answered>>, job'.gen = job.gen, Live' \in {Live, {}},
         NEW G \in SUBSET Listening, NEW end \in Promise!End,
         end.kind = "done" => end.message \in Answered,
         end.kind \in {"stopped", "replaced"} => G \cap Live = {},
         Promise!Tell(G, end)
  PROVE  AbsStep
<1>1. Promise!Conclude(G, end)
  BY DEF Promise!Conclude
<1> QED BY <1>1 DEF AbsStep, Promise!AbsNext
-----------------------------------------------------------------------------
(* Each step is one of the promise, or a stutter                           *)

LEMMA CreateRefines ==
  ASSUME PromiseInv, NEW r \in Request, CreateJob(r) PROVE AbsStep
<1> USE TypeNow DEF PromiseInv, IInv
<1>1. /\ Others(r) /\ req'[r].pc = "creating" /\ req[r].pc = "ready"
      /\ \A q \in Request : req'[q].message = req[q].message
      /\ job'.gen = job.gen + 1 /\ job.gen + 1 \in Generation
  BY CreateJobMoves DEF Moved, Others, CreateJob
<1>2. /\ outcome' = Deliver(Replaced, Event("replaced", Nobody, "none"))
      /\ aborted \subseteq aborted' /\ (job.status = "running" => job.gen \in aborted')
      /\ Answered' = Answered
  BY DEF CreateJob, Answered
<1>3. Live' = {}
  <2> SUFFICES ASSUME NEW q \in Reading' PROVE FALSE
    BY DEF Live
  <2>1. q \in Request /\ req'[q].pc = "calling" /\ req'[q].gen \notin aborted'
    BY DEF Reading
  <2>2. req'[q] = req[q]
    BY <1>1, <2>1 DEF Others
  <2>3. Owns(q)
    BY <1>2, <2>1, <2>2 DEF Current, Inside
  <2> QED BY <1>2, <2>1, <2>2, <2>3 DEF Owns
<1>4. Listening' = Listening
  <2>1. \A q \in Request : (req'[q].pc \in Inside \ {"creating"} \/ req'[q].pc = "finished")
                           <=> (req[q].pc \in Inside \ {"creating"} \/ req[q].pc = "finished")
    BY <1>1 DEF Others, Inside
  <2>2. \A q \in Request : req[q].pc \in Inside \ {"creating"} \/ req[q].pc = "finished"
                           => req'[q].gen = req[q].gen
    BY <1>1 DEF Others, Inside
  <2> QED BY <2>1, <2>2 DEF Listening
<1>5. /\ Replaced \cap Listening \in SUBSET Listening
      /\ Promise!Tell(Replaced \cap Listening, EndOf(Event("replaced", Nobody, "none")))
  BY <1>1, <1>2, HeardTells DEF Event
<1>6. EndOf(Event("replaced", Nobody, "none")) = [kind |-> "replaced", message |-> Nobody]
  BY DEF EndOf, Event
<1>7. Promise!Begin
  BY <1>1, <1>2, <1>3, <1>4, <1>5, <1>6 DEF Promise!Begin
<1> QED BY <1>7 DEF AbsStep, Promise!AbsNext

LEMMA InstallRefines ==
  ASSUME PromiseInv, NEW r \in Request, InstallJob(r) PROVE AbsStep
<1> USE TypeNow DEF PromiseInv, IInv
<1>1. /\ Others(r) /\ req'[r].pc = "waiting" /\ req[r].pc = "creating"
      /\ \A q \in Request : req'[q].message = req[q].message /\ req'[q].gen = req[q].gen
      /\ req[r].gen = job.gen /\ req[r].gen # 0 /\ req[r].gen \in Generation
  <2>1. Keeps(r) /\ req'[r].pc = "waiting"
    BY StepMoves DEF Step
  <2>2. req[r].pc = "creating" /\ req[r].gen = job.gen /\ ~CreateJob(r)
    BY DEF InstallJob, Owns, CreateJob
  <2>3. Others(r) /\ req'[r].message = req[r].message /\ req'[r].gen = req[r].gen
    BY <2>1, <2>2 DEF Keeps, Moved
  <2>4. \A q \in Request : req'[q].message = req[q].message /\ req'[q].gen = req[q].gen
    BY <2>3 DEF Others
  <2>5. req[r].gen # 0 /\ req[r].gen \in Generation
    BY <2>2 DEF Requests, WellFormed, ReqState, Inside
  <2> QED BY <2>1, <2>2, <2>3, <2>4, <2>5
<1>2. UNCHANGED <<job, aborted, answers, outcome>>
  BY DEF InstallJob
<1>3. Heard' = Heard
  BY <1>1, <1>2, HeardKept
<1>4. Answered' = Answered
  BY <1>2 DEF Answered
<1>5. Live' = Live
  <2>1. Reading' = Reading
    BY <1>1, <1>2 DEF Reading, Others
  <2> QED BY <1>1, <2>1 DEF Live, Reading
<1>6. job.gen \notin Listening
  BY <1>1 DEF Listening, Numbered, Inside
<1>7. Listening' = Listening \cup {job.gen}
  <2>1. \A q \in Request : (req'[q].pc \in Inside \ {"creating"} \/ req'[q].pc = "finished")
          <=> (req[q].pc \in Inside \ {"creating"} \/ req[q].pc = "finished" \/ q = r)
    BY <1>1 DEF Others, Inside
  <2> QED BY <1>1, <2>1 DEF Listening
<1>8. Promise!Attach
  BY <1>1, <1>2, <1>3, <1>4, <1>5, <1>6, <1>7 DEF Promise!Attach
<1> QED BY <1>8 DEF AbsStep, Promise!AbsNext

LEMMA SaveQuestionRefines ==
  ASSUME PromiseInv, NEW r \in Request, SaveQuestion(r) PROVE AbsStep
<1> USE TypeNow DEF PromiseInv, IInv
<1>1. Goto(r, "calling") /\ req[r].pc = "asking"
  BY DEF SaveQuestion
<1>2. /\ Others(r) /\ req'[r].pc = "calling" /\ req'[r].gen = req[r].gen
      /\ \A q \in Request : req'[q].message = req[q].message /\ req'[q].gen = req[q].gen
  BY <1>1, GoingMoves DEF PC, Early, Inside, Moved, Others
<1>3. UNCHANGED <<job, aborted, answers, outcome>>
  BY DEF SaveQuestion
<1>4. Heard' = Heard /\ Answered' = Answered
  BY <1>2, <1>3, HeardKept DEF Answered
<1>5. Listening' = Listening
  BY <1>1, <1>2, ListeningKept DEF Attached, Inside
<1>6. Reading' = IF req[r].gen \in aborted THEN Reading ELSE Reading \cup {r}
  BY <1>1, <1>2, <1>3 DEF Reading, Others
<1>7. CASE req[r].gen \in aborted \/ Live = {job.gen}
  <2>1. Live' = Live
    <3>1. CASE req[r].gen \in aborted
      BY <1>2, <1>6, <3>1 DEF Live, Reading
    <3>2. CASE req[r].gen \notin aborted /\ Live = {job.gen}
      <4>1. req[r].gen = job.gen
        BY <1>1, <3>2 DEF Current, Owns, Inside
      <4>2. Live' = Live \cup {job.gen}
        BY <1>2, <1>6, <3>2, <4>1 DEF Live, Reading
      <4> QED BY <3>2, <4>2
    <3> QED BY <1>7, <3>1, <3>2
  <2> QED BY <1>3, <1>4, <1>5, <2>1, Stutters
<1>8. CASE req[r].gen \notin aborted /\ Live = {}
  <2>1. req[r].gen = job.gen /\ job.gen \in Generation /\ job.gen \in Listening
    BY <1>1, <1>8 DEF Current, Owns, Inside, Requests, WellFormed, ReqState, Listening
  <2>2. Live' = {job.gen}
    <3>0. \A q \in Reading : req[q].gen \in Live
      BY DEF Live
    <3>1. Reading = {}
      BY <1>8, <3>0
    <3>2. Reading' = {r} /\ req'[r].gen = job.gen
      BY <1>2, <1>6, <1>8, <2>1, <3>1
    <3> QED BY <3>2 DEF Live
  <2>3. Heard[job.gen].kind \notin {"stopped", "replaced"}
    BY <1>8, <2>1 DEF Heard, Ends
  <2>4. Promise!Feed
    BY <1>3, <1>4, <1>5, <1>8, <2>1, <2>2, <2>3 DEF Promise!Feed
  <2> QED BY <2>4 DEF AbsStep, Promise!AbsNext
<1> QED BY <1>7, <1>8, LiveIsCurrent

(* The steps of a request that tell nobody anything.                       *)
LEMMA QuietRefines ==
  ASSUME PromiseInv, NEW r \in Request,
         ReadAnswer(r) \/ InstallFails(r) \/ Announce(r) \/ StreamEnds(r) \/ Throw(r)
  PROVE  AbsStep
<1> USE TypeNow DEF PromiseInv, IInv
<1>1. /\ Others(r) /\ req'[r].gen = req[r].gen
      /\ \A q \in Request : req'[q].message = req[q].message
  <2>1. Keeps(r)
    BY StepMoves DEF Step
  <2>2. ~CreateJob(r)
    BY DEF ReadAnswer, InstallFails, Announce, StreamEnds, Throw, CreateJob, Goto
  <2>3. Others(r) /\ req'[r].message = req[r].message /\ req'[r].gen = req[r].gen
    BY <2>1, <2>2 DEF Keeps, Moved
  <2> QED BY <2>3 DEF Others
<1>2. /\ req'[r].pc # "calling"
      /\ req'[r].pc \in Attached <=> req[r].pc \in Attached
  <2>1. CASE ReadAnswer(r) \/ InstallFails(r)
    BY <2>1, StepMoves DEF Step, ReadAnswer, InstallFails, Attached, Inside
  <2>2. CASE Announce(r)
    <3> PICK pc \in {"replaying", "asking"} : Goto(r, pc) /\ (pc = "replaying" => req[r].found = "answer")
      BY <2>2 DEF Announce
    <3>1. req'[r].pc = pc /\ req[r].pc = "waiting"
      BY <2>2, GoingMoves DEF Announce, PC, Early, Inside
    <3> QED BY <3>1 DEF Attached, Inside
  <2>3. CASE StreamEnds(r) \/ Throw(r)
    BY <2>3, StreamEndsMoves, ThrowMoves DEF StreamEnds, Throw, Attached, Inside
  <2> QED BY <2>1, <2>2, <2>3
<1>3. UNCHANGED <<aborted, answers, outcome>> /\ job'.gen = job.gen
  BY CreatedKeeps DEF ReadAnswer, InstallFails, Announce, StreamEnds, Throw
<1>4. Heard' = Heard /\ Answered' = Answered
  BY <1>1, <1>3, HeardKept DEF Answered
<1>5. Listening' = Listening
  BY <1>1, <1>2, ListeningKept
<1>6. Live' \in {Live, {}}
  BY <1>1, <1>2, <1>3, LiveShrinks
<1> QED BY <1>3, <1>4, <1>5, <1>6, CutsOff

LEMMA SaveAnswerRefines ==
  ASSUME PromiseInv, NEW r \in Request, SaveAnswer(r) PROVE AbsStep
<1> USE TypeNow DEF PromiseInv, IInv
<1>1. /\ Others(r) /\ req'[r].gen = req[r].gen /\ req'[r].pc = "saved" /\ req[r].pc = "answered"
      /\ \A q \in Request : req'[q].message = req[q].message
  BY StepMoves DEF Keeps, Moved, Others, Step, SaveAnswer, CreateJob
<1>2. UNCHANGED <<job, aborted, outcome>>
  BY DEF SaveAnswer
<1>3. Heard' = Heard
  BY <1>1, <1>2, HeardKept
<1>4. Listening' = Listening
  BY <1>1, ListeningKept DEF Attached, Inside
<1>5. Live' = Live
  <2>1. Reading' = Reading /\ \A q \in Request : req'[q].gen = req[q].gen
    BY <1>1, <1>2 DEF Reading, Others
  <2> QED BY <2>1 DEF Live, Reading
<1>6. req[r].message \in Message /\ req[r].got # "none"
  BY <1>1 DEF Requests, WellFormed, ReqState
<1>7. Answered' = Answered \cup {req[r].message}
  BY <1>6 DEF SaveAnswer, Answered
<1>8. Promise!Save(req[r].message)
  BY <1>2, <1>3, <1>4, <1>5, <1>7 DEF Promise!Save
<1> QED BY <1>6, <1>8 DEF AbsStep, Promise!AbsNext

LEMMA EmitRefines ==
  ASSUME PromiseInv, NEW r \in Request, Replay(r) \/ EmitDone(r) \/ EmitError(r) PROVE AbsStep
<1> USE TypeNow DEF PromiseInv, IInv
<1> DEFINE gens == IF runtime = 0 THEN Generation ELSE {runtime}
<1>1. /\ Others(r) /\ req'[r].gen = req[r].gen
      /\ \A q \in Request : req'[q].message = req[q].message
      /\ req[r].pc \in Inside \ {"creating"} /\ req'[r].pc \in Inside \ {"creating"}
  BY StepMoves DEF Keeps, Moved, Others, Step, Passes, Replay, EmitDone, EmitError, CreateJob
<1>2. req'[r].pc # "calling"
  <2> PICK pc \in {"done", "failed"} : Goto(r, pc)
    BY DEF Replay, EmitDone, EmitError
  <2> QED BY <1>1, GoingMoves DEF PC, Early, Inside
<1>3. UNCHANGED <<job, aborted, answers>> /\ Answered' = Answered
  BY DEF Replay, EmitDone, EmitError, Answered
<1>4. Listening' = Listening
  BY <1>1, ListeningKept DEF Attached
<1>5. Live' \in {Live, {}}
  BY <1>1, <1>2, <1>3, LiveShrinks
<1>6. WellFormed(req[r]) /\ req[r] \in ReqState
  BY DEF Requests, WellFormed
<1>7. PICK event : /\ EmitTerminal(event) /\ event.by = r /\ event.kind \in {"done", "error"}
                   /\ event.kind = "done" => req[r].message \in Answered
  <2>1. CASE EmitError(r)
    BY <2>1 DEF EmitError, Event
  <2>2. CASE Replay(r) \/ EmitDone(r)
    <3>1. Saved(req[r].message)
      BY <1>6, <2>2 DEF Replay, EmitDone, AnswersSaved, WellFormed
    <3> QED BY <2>2, <3>1 DEF Replay, EmitDone, Event, Answered, Saved
  <2> QED BY <2>1, <2>2
<1>8. outcome' = Deliver(gens, event)
  BY <1>7 DEF EmitTerminal
<1> HIDE DEF gens
<1>9. /\ gens \cap Listening \in SUBSET Listening
      /\ Promise!Tell(gens \cap Listening, EndOf(event))
  BY <1>1, <1>7, <1>8, HeardTells
<1>10. /\ EndOf(event).kind \in {"done", "error"} /\ EndOf(event) \in Promise!End
       /\ EndOf(event).kind = "done" => EndOf(event).message \in Answered
  BY <1>7 DEF EndOf, Promise!End, Answered
<1> QED BY <1>3, <1>4, <1>5, <1>9, <1>10, Concludes

LEMMA FinishRefines ==
  ASSUME PromiseInv, NEW r \in Request, Finish(r) \/ FinishFailed(r) PROVE AbsStep
<1> USE TypeNow DEF PromiseInv, IInv
<1>1. /\ Others(r) /\ req'[r].gen = req[r].gen
      /\ \A q \in Request : req'[q].message = req[q].message
      /\ req[r].pc \in {"done", "failed"} /\ req'[r].pc = "finished"
  BY StepMoves DEF Keeps, Moved, Others, Step, Finish, FinishFailed, CreateJob
<1>2. PICK status \in {"complete", "error"} : CompleteJob(r, status)
  BY DEF Finish, FinishFailed
<1>3. aborted \subseteq aborted' /\ job'.gen = job.gen
  BY <1>2, Completes
<1>4. Answered' = Answered
  BY DEF Finish, FinishFailed, Answered
<1>5. Listening' = Listening
  BY <1>1, ListeningKept DEF Attached, Inside
<1>6. Live' \in {Live, {}}
  BY <1>1, <1>3, LiveShrinks
<1>7. CASE outcome' = outcome
  BY <1>1, <1>3, <1>4, <1>5, <1>6, <1>7, HeardKept, CutsOff
<1>8. CASE outcome' = Deliver({job.gen}, Event("error", r, "none"))
  <2> DEFINE end == EndOf(Event("error", r, "none"))
  <2>1. /\ {job.gen} \cap Listening \in SUBSET Listening
        /\ Promise!Tell({job.gen} \cap Listening, end)
    BY <1>1, <1>8, HeardTells DEF Event
  <2>2. end \in Promise!End /\ end.kind = "error"
    BY DEF EndOf, Event, Promise!End
  <2> HIDE DEF end
  <2> QED BY <1>3, <1>4, <1>5, <1>6, <2>1, <2>2, Concludes
<1> QED BY <1>2, <1>7, <1>8 DEF CompleteJob

LEMMA CheckRefines ==
  ASSUME PromiseInv, NEW r \in Request, NEW m \in Message, Check(r, m) PROVE AbsStep
<1> USE TypeNow DEF PromiseInv, IInv
<1>1. /\ Others(r) /\ req'[r].gen = req[r].gen /\ req[r].pc = "idle"
      /\ req'[r].pc \in {"checked", "rejected"}
  BY CheckMoves DEF Moved, Check
<1>2. UNCHANGED <<job, aborted, answers, outcome>>
  BY DEF Check
<1>3. \A q \in Request : req[q].pc # "idle" => req'[q].message = req[q].message
  BY <1>1 DEF Others
<1>4. Heard' = Heard /\ Answered' = Answered
  BY <1>2, <1>3, HeardKept DEF Answered
<1>5. Listening' = Listening /\ Live' \in {Live, {}}
  BY <1>1, <1>2, ListeningKept, LiveShrinks DEF Attached, Inside
<1> QED BY <1>2, <1>4, <1>5, CutsOff

LEMMA StoppingRefines ==
  ASSUME PromiseInv, Stopping PROVE AbsStep
<1> USE TypeNow DEF PromiseInv, IInv
<1>1. req' = req /\ job'.gen = job.gen /\ aborted \subseteq aborted' /\ Listening' = Listening
  BY DEF Stopping, Stop, SaveStopped, PublishStop, Job, Listening
<1>2. Live' \in {Live, {}}
  <2>1. Reading' \subseteq Reading
    BY <1>1 DEF Reading
  <2>2. Live' \subseteq Live
    BY <1>1, <2>1 DEF Live, Reading
  <2> QED BY <2>2, LiveIsCurrent
<1>3. CASE Stop
  <2>1. UNCHANGED <<answers, outcome>>
    BY <1>3 DEF Stop
  <2>2. Heard' = Heard /\ Answered' = Answered
    BY <1>1, <2>1, HeardKept DEF Answered
  <2> QED BY <1>1, <1>2, <2>2, CutsOff
<1>4. CASE SaveStopped
  <2>1. UNCHANGED <<aborted, outcome, job>> /\ stopping # NoStop
    BY <1>4 DEF SaveStopped, NoStop
  <2>2. Heard' = Heard /\ Live' = Live
    BY <1>1, <2>1, HeardKept DEF Live, Reading
  <2>3. Answered' = Answered \/ \E m \in Message : Answered' = Answered \cup {m}
    <3>1. CASE answers' = answers
      BY <3>1 DEF Answered
    <3>2. CASE answers' = [m \in Message |->
                 IF \E q \in Request : req[q].gen = stopping.gen /\ req[q].message = m
                 THEN "empty" ELSE answers[m]]
      <4>1. CASE \E q \in Request : req[q].gen = stopping.gen /\ req[q].message \in Message
        <5> PICK q \in Request : req[q].gen = stopping.gen /\ req[q].message \in Message
          BY <4>1
        <5>1. \A p \in Request : req[p].gen = stopping.gen => p = q
          <6>1. stopping.gen # 0
            BY <2>1 DEF AbortedIsOver, Generation
          <6> QED BY <6>1 DEF Numbered
        <5>2. Answered' = Answered \cup {req[q].message}
          BY <3>2, <5>1 DEF Answered
        <5> QED BY <5>2
      <4>2. CASE ~\E q \in Request : req[q].gen = stopping.gen /\ req[q].message \in Message
        BY <3>2, <4>2 DEF Answered
      <4> QED BY <4>1, <4>2
    <3> QED BY <1>4, <3>1, <3>2 DEF SaveStopped
  <2>4. CASE Answered' = Answered
    BY <1>1, <2>2, <2>4, Stutters
  <2>5. ASSUME NEW m \in Message, Answered' = Answered \cup {m} PROVE AbsStep
    BY <1>1, <2>1, <2>2, <2>5 DEF AbsStep, Promise!AbsNext, Promise!Save
  <2> QED BY <2>3, <2>4, <2>5
<1>5. CASE PublishStop
  <2> DEFINE end == EndOf(Event("stopped", Nobody, "empty"))
  <2>1. UNCHANGED <<answers, aborted>> /\ stopping # NoStop /\ Answered' = Answered
        /\ outcome' = Deliver({stopping.gen}, Event("stopped", Nobody, "empty"))
    BY <1>5 DEF PublishStop, NoStop, Answered
  <2>2. /\ {stopping.gen} \cap Listening \in SUBSET Listening
        /\ Promise!Tell({stopping.gen} \cap Listening, end)
    BY <1>1, <2>1, HeardTells DEF Event
  <2>3. end \in Promise!End /\ end.kind = "stopped"
    BY DEF EndOf, Event, Promise!End
  <2>4. {stopping.gen} \cap Live = {}
    BY <2>1, LiveIsCurrent DEF AbortedIsOver
  <2> HIDE DEF end
  <2> QED BY <1>1, <1>2, <2>1, <2>2, <2>3, <2>4, Concludes
<1> QED BY <1>3, <1>4, <1>5 DEF Stopping

(* Controller, job manager and Stop implement StreamPromise for any number *)
(* of requests that overlap in any way: createJob aborts the predecessor's *)
(* controller before the new generation is fed, a browser attaches to the  *)
(* newest one only, and what emitDone tells, with no generation named, is  *)
(* an answer that SaveAnswer or a Stop has put in Mongo.                   *)
THEOREM Refinement == Spec => PromiseKept
<1>1. Init => Promise!AbsInit
  <2> SUFFICES ASSUME Init PROVE Promise!AbsInit
    OBVIOUS
  <2>1. Listening = {} /\ Live = {} /\ Answered = {}
    BY DEF Init, Idle, Listening, Live, Reading, Answered, Inside
  <2>2. Heard = [g \in Generation |-> Promise!Silence]
    BY DEF Init, Heard, NoOutcome, Promise!Silence
  <2> QED BY <2>1, <2>2 DEF Init, Promise!AbsInit
<1>2. PromiseInv /\ [Next]_vars => [Promise!AbsNext]_(Promise!absVars)
  <2> SUFFICES ASSUME PromiseInv, [Next]_vars PROVE AbsStep
    BY DEF AbsStep
  <2>1. CASE UNCHANGED vars
    BY <2>1, Stutters DEF vars, Listening, Live, Reading, Heard, Answered
  <2>2. ASSUME NEW r \in Request, Step(r) PROVE AbsStep
    BY <2>2, CreateRefines, InstallRefines, SaveQuestionRefines, QuietRefines, SaveAnswerRefines,
       EmitRefines, FinishRefines DEF Step
  <2> QED BY <2>1, <2>2, CheckRefines, StoppingRefines DEF Next, Stopping
<1> QED BY <1>1, <1>2, PromiseInvInit, PromiseInvStep, PTL DEF Spec, PromiseKept, Promise!AbsSpec
=============================================================================
