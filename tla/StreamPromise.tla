--------------------------- MODULE StreamPromise ---------------------------
(***************************************************************************)
(* What the stream of a chat promises to its browsers, without jobs, rows, *)
(* runtimes or abort controllers: the generations of the chat begin one    *)
(* after the other and a browser attaches to the newest; the agent works   *)
(* for the newest only, and for none that was told that it is over by a    *)
(* Stop or a successor; each browser hears one end, and hears that it is   *)
(* done only with a message that has an answer, which none loses.          *)
(***************************************************************************)
EXTENDS Naturals

CONSTANTS
  Generation,   \* 1..n
  Message,
  NoMessage     \* what an end names that is not "done"

VARIABLES
  current,    \* the newest generation, 0 if none
  open,       \* the generations that have a browser
  live,       \* the generation that the agent works for, as a set
  heard,      \* the end that the browser of each generation has heard
  answered    \* the messages that have an answer

absVars == <<current, open, live, heard, answered>>

Silence == [kind |-> "none", message |-> NoMessage]
End == [kind : {"done", "error", "stopped", "replaced"}, message : Message \cup {NoMessage}]

AbsInit ==
  /\ current = 0
  /\ open = {}
  /\ live = {}
  /\ heard = [g \in Generation |-> Silence]
  /\ answered = {}

(* An end is sent to some browsers; those that have heard one ignore it. *)
Tell(G, end) ==
  heard' = [g \in Generation |-> IF g \in G /\ heard[g] = Silence THEN end ELSE heard[g]]

(* The agent is cut off from the old generation before the new one begins. *)
Begin ==
  /\ current + 1 \in Generation
  /\ current' = current + 1
  /\ live' = {}
  /\ \E G \in SUBSET open : Tell(G, [kind |-> "replaced", message |-> NoMessage])
  /\ UNCHANGED <<open, answered>>

Attach ==
  /\ current \in Generation \ open
  /\ open' = open \cup {current}
  /\ UNCHANGED <<current, live, heard, answered>>

Feed ==
  /\ live = {}
  /\ current \in open
  /\ heard[current].kind \notin {"stopped", "replaced"}
  /\ live' = {current}
  /\ UNCHANGED <<current, open, heard, answered>>

CutOff ==
  /\ live' = {}
  /\ UNCHANGED <<current, open, heard, answered>>

Save(m) ==
  /\ answered' = answered \cup {m}
  /\ UNCHANGED <<current, open, live, heard>>

Conclude(G, end) ==
  /\ end.kind = "done" => end.message \in answered
  /\ end.kind \in {"stopped", "replaced"} => G \cap live = {}
  /\ Tell(G, end)
  /\ live' \in {live, {}}
  /\ UNCHANGED <<current, open, answered>>

AbsNext ==
  \/ Begin \/ Attach \/ Feed \/ CutOff
  \/ \E m \in Message : Save(m)
  \/ \E G \in SUBSET open, end \in End : Conclude(G, end)

AbsSpec == AbsInit /\ [][AbsNext]_absVars
=============================================================================
