--------------------------- MODULE FileVisibility ---------------------------
(***************************************************************************)
(* What the file catalog promises, without servers, threads or messages: a *)
(* file becomes visible to the analysis of a conversation only if a        *)
(* request pinned it while it existed, it is hidden only when its owner    *)
(* asked for its deletion, and nothing pins a file that is gone.           *)
(***************************************************************************)
CONSTANTS File, Conv

VARIABLES
  phase,    \* [File -> {"unborn", "live", "leaving", "gone"}]
  pinned,   \* files the request in progress found to exist
  visible   \* [Conv -> SUBSET File]

absVars == <<phase, pinned, visible>>

AbsInit ==
  /\ phase = [f \in File |-> "unborn"]
  /\ pinned = {}
  /\ visible = [c \in Conv |-> {}]

Create(f) ==
  /\ phase[f] = "unborn"
  /\ phase' = [phase EXCEPT ![f] = "live"]
  /\ UNCHANGED <<pinned, visible>>

AskDeletion(f) ==
  /\ phase[f] = "live"
  /\ phase' = [phase EXCEPT ![f] = "leaving"]
  /\ UNCHANGED <<pinned, visible>>

Vanish(f) ==
  /\ phase[f] = "leaving"
  /\ phase' = [phase EXCEPT ![f] = "gone"]
  /\ UNCHANGED <<pinned, visible>>

Pin(f) ==
  /\ phase[f] \in {"live", "leaving"}
  /\ pinned' = pinned \cup {f}
  /\ UNCHANGED <<phase, visible>>

Publish(c) ==
  /\ visible' = [visible EXCEPT ![c] = @ \cup pinned]
  /\ pinned' = {}
  /\ UNCHANGED phase

(* Hiding may complete the request that asked for it, in which case a file *)
(* that was not removed is simply live again.                              *)
Hide(f) ==
  /\ phase[f] \in {"leaving", "gone"}
  /\ visible' = [c \in Conv |-> visible[c] \ {f}]
  /\ \/ UNCHANGED phase
     \/ phase[f] = "leaving" /\ phase' = [phase EXCEPT ![f] = "live"]
  /\ UNCHANGED pinned

Forget(c) ==
  /\ visible' = [visible EXCEPT ![c] = {}]
  /\ UNCHANGED <<phase, pinned>>

(* A request or a deletion is given up, or everything restarts. *)
GiveUp(S) ==
  /\ S \subseteq {f \in File : phase[f] = "leaving"}
  /\ phase' = [f \in File |-> IF f \in S THEN "live" ELSE phase[f]]
  /\ pinned' \in {pinned, {}}
  /\ UNCHANGED visible

AbsNext ==
  \/ \E f \in File : Create(f) \/ AskDeletion(f) \/ Vanish(f) \/ Pin(f) \/ Hide(f)
  \/ \E c \in Conv : Publish(c) \/ Forget(c)
  \/ \E S \in SUBSET File : GiveUp(S)

AbsSpec == AbsInit /\ [][AbsNext]_absVars
=============================================================================
