---------------------------- MODULE CachePromise ----------------------------
(***************************************************************************)
(* What the cache of a chat promises, without lock files, inodes or        *)
(* connections: while the chat is open one process at a time works on it,  *)
(* a table that was cached stays and what is recorded is cached; and a     *)
(* process answers, the chat open or not, only when every table of its     *)
(* files is loaded.                                                        *)
(***************************************************************************)
CONSTANTS Process, Table

VARIABLES
  open,       \* the chat exists
  phase,      \* [Process -> {"idle", "waiting", "inside", "answering"}]
  wanted,     \* the tables of the files each process is asked about
  loaded,     \* those of them that it can read
  cached,     \* the tables that the next process will find
  recorded    \* the tables that it will be told of

absVars == <<open, phase, wanted, loaded, cached, recorded>>

AbsInit ==
  /\ open = TRUE
  /\ phase = [p \in Process |-> "idle"]
  /\ wanted = [p \in Process |-> {}]
  /\ loaded = [p \in Process |-> {}]
  /\ cached = {}
  /\ recorded = {}

Ask(p, S) ==
  /\ phase[p] = "idle"
  /\ phase' = [phase EXCEPT ![p] = "waiting"]
  /\ wanted' = [wanted EXCEPT ![p] = S]
  /\ UNCHANGED <<open, loaded, cached, recorded>>

Enter(p) ==
  /\ phase[p] = "waiting"
  /\ open => \A q \in Process : phase[q] \in {"idle", "waiting"}
  /\ phase' = [phase EXCEPT ![p] = "inside"]
  /\ UNCHANGED <<open, wanted, loaded, cached, recorded>>

(* A table that is cached needs no loading.                                *)
Find(p) ==
  /\ phase[p] = "inside"
  /\ loaded[p] = {}
  /\ loaded' = [loaded EXCEPT ![p] = wanted[p] \cap cached]
  /\ UNCHANGED <<open, phase, wanted, cached, recorded>>

(* A table loaded for a deleted chat may be left for nobody.               *)
Load(p, t) ==
  /\ phase[p] = "inside"
  /\ t \in wanted[p]
  /\ loaded' = [loaded EXCEPT ![p] = @ \cup {t}]
  /\ \/ cached' = cached \cup {t}
     \/ ~open /\ UNCHANGED cached
  /\ UNCHANGED <<open, phase, wanted, recorded>>

Answer(p) ==
  /\ phase[p] = "inside"
  /\ wanted[p] \subseteq loaded[p]
  /\ open => wanted[p] \subseteq cached
  /\ phase' = [phase EXCEPT ![p] = "answering"]
  /\ recorded' = wanted[p]
  /\ UNCHANGED <<open, wanted, loaded, cached>>

(* With or without an answer.                                              *)
Leave(p) ==
  /\ phase' = [phase EXCEPT ![p] = "idle"]
  /\ wanted' = [wanted EXCEPT ![p] = {}]
  /\ loaded' = [loaded EXCEPT ![p] = {}]
  /\ UNCHANGED <<open, cached, recorded>>

Delete ==
  /\ open' = FALSE
  /\ UNCHANGED <<phase, wanted, loaded, cached, recorded>>

Forget ==
  /\ ~open
  /\ \/ cached' = {} /\ UNCHANGED recorded
     \/ recorded' = {} /\ UNCHANGED cached
  /\ UNCHANGED <<open, phase, wanted, loaded>>

AbsNext ==
  \/ \E p \in Process :
       \/ \E S \in SUBSET Table : Ask(p, S)
       \/ Enter(p) \/ Find(p) \/ Answer(p) \/ Leave(p)
       \/ \E t \in Table : Load(p, t)
  \/ Delete \/ Forget

AbsSpec == AbsInit /\ [][AbsNext]_absVars
=============================================================================
