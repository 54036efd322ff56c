---------------------------- MODULE FileCatalog ----------------------------
(***************************************************************************)
(* The life of an uploaded tabular file across the four places that know   *)
(* it: the Mongo document and the S3 object LibreChat owns, the profile    *)
(* rows the agent keeps in Postgres (analysis_catalog_profiles), the one   *)
(* request the single-threaded agent server is serving, and the            *)
(* reconciliation thread that repairs what a lost invalidation left.       *)
(*                                                                         *)
(* One (tenant, user) pair is modelled: every query involved is keyed by   *)
(* both, and a file id belongs to one user.                                *)
(***************************************************************************)
EXTENDS Integers, FiniteSets

CONSTANTS
  File,       \* file ids
  Conv,       \* conversation ids
  NoConv,     \* the conversation of an idle server
  Rank,       \* the order of active_file_refs (tenant, user, source_file_id)
  Limit,      \* the `limit` of active_file_refs: 1000 in the code
  MaxFaults   \* bound on failures: lost calls, failed deletions, restarts

ASSUME NoConvAssumption == NoConv \notin Conv
ASSUME RankAssumption ==
  /\ Rank \in [File -> Int]
  /\ \A f, g \in File : Rank[f] = Rank[g] => f = g
ASSUME LimitAssumption == Limit \in Nat \ {0}
ASSUME FaultAssumption == MaxFaults \in Nat

VARIABLES
  doc,     \* the S3 object and the Mongo document of each file
  del,     \* where LibreChat's delete handler is for each file
  late,    \* invalidate calls given up by the caller but still queued
  rows,    \* the profile rows of each file in each conversation
  server,  \* the request AgentHttpHandler is serving
  worker,  \* the reconciliation thread
  faults   \* failures so far, at most MaxFaults

vars == <<doc, del, late, rows, server, worker, faults>>

DocState == {"absent", "stored", "orphaned", "removed"}
DelState == {"idle", "invalidating", "deleting"}
RowState == {"none", "active", "inactive"}
Busy     == {"resolving", "loading", "saving", "answering"}

Idle   == [pc |-> "idle", conv |-> NoConv, todo |-> {}, files |-> {}]
Asleep == [pc |-> "sleeping", refs |-> {}]

(* A plausible bug: testing for the object instead of the document. *)
HasObject(f) == doc[f] = "stored"

(* resolve_file and the existence test of the worker both look for a Mongo *)
(* document with source "s3": it outlives the S3 object for a moment.      *)
HasDocument(f) == doc[f] \in {"stored", "orphaned"}
ActiveIn(c) == {f \in File : rows[c][f] = "active"}
ActiveFiles == UNION {ActiveIn(c) : c \in Conv}

(* Besides the domains: a request in its first two stages has files left   *)
(* to treat and a later one has none, a sleeping worker holds nothing and  *)
(* a condemned file is one of those it holds.                              *)
TypeOK ==
  /\ doc \in [File -> DocState]
  /\ del \in [File -> DelState]
  /\ late \subseteq File
  /\ rows \in [Conv -> [File -> RowState]]
  /\ server \in [pc : Busy, conv : Conv, todo : SUBSET File, files : SUBSET File]
                \cup {Idle}
  /\ worker \in [pc : {"sleeping", "scanning", "condemned"}, refs : SUBSET File]
  /\ faults \in 0..MaxFaults
  /\ server.pc \in {"resolving", "loading"} <=> server.todo # {}
  /\ worker.pc = "sleeping" => worker.refs = {}
  /\ worker.pc = "condemned" => worker.refs # {}

Init ==
  /\ doc = [f \in File |-> "absent"]
  /\ del = [f \in File |-> "idle"]
  /\ late = {}
  /\ rows = [c \in Conv |-> [f \in File |-> "none"]]
  /\ server = Idle
  /\ worker = Asleep
  /\ faults = 0

Fault == faults < MaxFaults /\ faults' = faults + 1

-----------------------------------------------------------------------------
(* A plausible bug: the UPDATE without its source_file_id condition. *)
InvalidatedAll(f) ==
  [c \in Conv |-> [g \in File |-> IF rows[c][g] = "active" THEN "inactive" ELSE rows[c][g]]]

(* CatalogRepository.invalidate_file: one transaction over every           *)
(* conversation of the user.                                               *)
Invalidated(f) ==
  [c \in Conv |-> [rows[c] EXCEPT ![f] = IF @ = "active" THEN "inactive" ELSE @]]

-----------------------------------------------------------------------------
(* LibreChat                                                               *)

Upload(f) ==
  /\ doc[f] = "absent"
  /\ doc' = [doc EXCEPT ![f] = "stored"]
  /\ UNCHANGED <<del, late, rows, server, worker, faults>>

(* The delete route resolved the documents and calls                       *)
(* invalidateAnalitricsFiles before processDeleteRequest.                  *)
BeginDelete(f) ==
  /\ HasDocument(f)
  /\ del[f] = "idle"
  /\ del' = [del EXCEPT ![f] = "invalidating"]
  /\ UNCHANGED <<doc, late, rows, server, worker, faults>>

InvalidateServed(f) ==
  /\ del[f] = "invalidating"
  /\ server = Idle
  /\ rows' = Invalidated(f)
  /\ del' = [del EXCEPT ![f] = "deleting"]
  /\ UNCHANGED <<doc, late, server, worker, faults>>

(* The agent is down or answers 422: the patch logs a warning and goes on. *)
InvalidateLost(f) ==
  /\ del[f] = "invalidating"
  /\ Fault
  /\ del' = [del EXCEPT ![f] = "deleting"]
  /\ UNCHANGED <<doc, late, rows, server, worker>>

(* fetch gives up while a long run holds the only server thread; the call  *)
(* stays in the accept queue and is served once the run is over.           *)
InvalidateTimesOut(f) ==
  /\ del[f] = "invalidating"
  /\ server # Idle
  /\ del' = [del EXCEPT ![f] = "deleting"]
  /\ late' = late \cup {f}
  /\ UNCHANGED <<doc, rows, server, worker, faults>>

LateInvalidateServed(f) ==
  /\ f \in late
  /\ server = Idle
  /\ rows' = Invalidated(f)
  /\ late' = late \ {f}
  /\ UNCHANGED <<doc, del, server, worker, faults>>

(* processDeleteRequest removes the stored object, then the document.      *)
RemoveObject(f) ==
  /\ del[f] = "deleting"
  /\ doc[f] = "stored"
  /\ doc' = [doc EXCEPT ![f] = "orphaned"]
  /\ UNCHANGED <<del, late, rows, server, worker, faults>>

RemoveDocument(f) ==
  /\ del[f] = "deleting"
  /\ doc[f] = "orphaned"
  /\ doc' = [doc EXCEPT ![f] = "removed"]
  /\ del' = [del EXCEPT ![f] = "idle"]
  /\ UNCHANGED <<late, rows, server, worker, faults>>

(* Storage or Mongo fails: the file is reported as not deleted.            *)
DeleteFails(f) ==
  /\ del[f] = "deleting"
  /\ Fault
  /\ del' = [del EXCEPT ![f] = "idle"]
  /\ UNCHANGED <<doc, late, rows, server, worker>>

-----------------------------------------------------------------------------
(* The agent server: /agent/run, /agent/run/stream and                     *)
(* /agent/ingest/validate share these steps, one request at a time.        *)

(* A plausible bug: a question without files goes on to the resolver. *)
BeginAnyRequest(c, S) ==
  /\ server = Idle
  /\ \A f \in S : doc[f] # "absent"
  /\ server' = [pc |-> "resolving", conv |-> c, todo |-> S, files |-> {}]
  /\ UNCHANGED <<doc, del, late, rows, worker, faults>>

(* The request names the files of its message or of the whole history, in  *)
(* which files deleted since still appear.                                 *)
BeginRequest(c, S) ==
  /\ server = Idle
  /\ S # {}
  /\ \A f \in S : doc[f] # "absent"
  /\ server' = [pc |-> "resolving", conv |-> c, todo |-> S, files |-> {}]
  /\ UNCHANGED <<doc, del, late, rows, worker, faults>>

(* A plausible bug: the id is used without asking whether it still exists. *)
ResolveUnchecked(f) ==
  /\ server.pc = "resolving"
  /\ f \in server.todo
  /\ server' = IF server.todo = {f}
               THEN [server EXCEPT !.pc = "loading", !.files = @ \cup {f},
                                   !.todo = server.files \cup {f}]
               ELSE [server EXCEPT !.files = @ \cup {f}, !.todo = @ \ {f}]
  /\ UNCHANGED <<doc, del, late, rows, worker, faults>>

(* FileResolver.resolve: one Mongo read per file. *)
ResolveFile(f) ==
  /\ server.pc = "resolving"
  /\ f \in server.todo
  /\ HasDocument(f)
  /\ server' = IF server.todo = {f}
               THEN [server EXCEPT !.pc = "loading", !.files = @ \cup {f},
                                   !.todo = server.files \cup {f}]
               ELSE [server EXCEPT !.files = @ \cup {f}, !.todo = @ \ {f}]
  /\ UNCHANGED <<doc, del, late, rows, worker, faults>>

(* No document: resolve_file raises and the request is over. *)
ResolveFails(f) ==
  /\ server.pc = "resolving"
  /\ f \in server.todo
  /\ ~HasDocument(f)
  /\ server' = Idle
  /\ UNCHANGED <<doc, del, late, rows, worker, faults>>

(* DuckDbWorkspaceFactory.create downloads every file, cached or not. *)
LoadFile(f) ==
  /\ server.pc = "loading"
  /\ f \in server.todo
  /\ doc[f] = "stored"
  /\ server' = [server EXCEPT !.pc = IF server.todo = {f} THEN "saving" ELSE @,
                              !.todo = @ \ {f}]
  /\ UNCHANGED <<doc, del, late, rows, worker, faults>>

(* The object is gone, the file cannot be read or profiled, the cache lock *)
(* times out, Postgres refuses: the request ends before anything is saved. *)
LoadFails ==
  /\ server.pc \in {"loading", "saving"}
  /\ server' = Idle
  /\ UNCHANGED <<doc, del, late, rows, worker, faults>>

(* save_conversation: upserts the profiles of the request's files with     *)
(* active = true, deleted_at = null, whatever was invalidated meanwhile.   *)
SaveConversation ==
  /\ server.pc = "saving"
  /\ rows' = [rows EXCEPT ![server.conv] =
                [f \in File |-> IF f \in server.files THEN "active" ELSE @[f]]]
  /\ server' = [server EXCEPT !.pc = "answering"]
  /\ UNCHANGED <<doc, del, late, worker, faults>>

EndRequest ==
  /\ server.pc = "answering"
  /\ server' = Idle
  /\ UNCHANGED <<doc, del, late, rows, worker, faults>>

(* /agent/conversations/delete: the profile rows go with the session. *)
DeleteConversation(c) ==
  /\ server = Idle
  /\ rows' = [rows EXCEPT ![c] = [f \in File |-> "none"]]
  /\ UNCHANGED <<doc, del, late, server, worker, faults>>

(* The container restarts: threads and queued calls are lost. *)
Restart ==
  /\ Fault
  /\ server' = Idle
  /\ worker' = Asleep
  /\ late' = {}
  /\ UNCHANGED <<doc, del, rows>>

-----------------------------------------------------------------------------
(* The reconciliation thread                                               *)

(* A plausible bug: one row too few. *)
FewerRefs(S) ==
  {f \in S : Cardinality({g \in S : Rank[g] < Rank[f]}) < Limit - 1}

(* active_file_refs: the first Limit of the active files, in order. *)
FirstRefs(S) ==
  {f \in S : Cardinality({g \in S : Rank[g] < Rank[f]}) < Limit}

NextRef(f) == f \in worker.refs /\ \A g \in worker.refs : Rank[f] <= Rank[g]

WorkerWakes ==
  /\ worker.pc = "sleeping"
  /\ worker' = [pc |-> "scanning", refs |-> FirstRefs(ActiveFiles)]
  /\ UNCHANGED <<doc, del, late, rows, server, faults>>

WorkerKeeps(f) ==
  /\ worker.pc = "scanning"
  /\ NextRef(f)
  /\ HasDocument(f)
  /\ worker' = [worker EXCEPT !.refs = @ \ {f}]
  /\ UNCHANGED <<doc, del, late, rows, server, faults>>

WorkerCondemns(f) ==
  /\ worker.pc = "scanning"
  /\ NextRef(f)
  /\ ~HasDocument(f)
  /\ worker' = [pc |-> "condemned", refs |-> worker.refs]
  /\ UNCHANGED <<doc, del, late, rows, server, faults>>

WorkerInvalidates(f) ==
  /\ worker.pc = "condemned"
  /\ NextRef(f)
  /\ rows' = Invalidated(f)
  /\ worker' = [pc |-> "scanning", refs |-> worker.refs \ {f}]
  /\ UNCHANGED <<doc, del, late, server, faults>>

WorkerSleeps ==
  /\ worker.pc = "scanning"
  /\ worker.refs = {}
  /\ worker' = Asleep
  /\ UNCHANGED <<doc, del, late, rows, server, faults>>

(* Any exception is caught; the thread sleeps until the next interval. *)
WorkerFails ==
  /\ worker.pc # "sleeping"
  /\ Fault
  /\ worker' = Asleep
  /\ UNCHANGED <<doc, del, late, rows, server>>

-----------------------------------------------------------------------------
ServerStep ==
  \/ \E f \in File : ResolveFile(f) \/ ResolveFails(f) \/ LoadFile(f)
  \/ LoadFails
  \/ SaveConversation
  \/ EndRequest

WorkerStep ==
  \/ WorkerWakes
  \/ \E f \in File : WorkerKeeps(f) \/ WorkerCondemns(f) \/ WorkerInvalidates(f)
  \/ WorkerSleeps

Next ==
  \/ \E f \in File :
       \/ Upload(f)
       \/ BeginDelete(f)
       \/ InvalidateServed(f)
       \/ InvalidateLost(f)
       \/ InvalidateTimesOut(f)
       \/ LateInvalidateServed(f)
       \/ RemoveObject(f)
       \/ RemoveDocument(f)
       \/ DeleteFails(f)
  \/ \E c \in Conv : DeleteConversation(c) \/ \E S \in SUBSET File : BeginRequest(c, S)
  \/ ServerStep
  \/ WorkerStep
  \/ WorkerFails
  \/ Restart

Spec == Init /\ [][Next]_vars

(* A handler runs to its end (its calls have timeouts) and the worker is a *)
(* loop around a sleep; no client, no deletion and no failure is fair.     *)
Fairness == WF_vars(ServerStep) /\ WF_vars(WorkerStep)
FairSpec == Spec /\ Fairness
-----------------------------------------------------------------------------
(* The refinement of FileVisibility                                        *)

PhaseOf(f) ==
  CASE doc[f] = "absent"  -> "unborn"
    [] doc[f] = "removed" -> "gone"
    [] HasDocument(f) /\ (del[f] # "idle" \/ f \in late) -> "leaving"
    [] OTHER -> "live"

PinnedFiles == IF server.pc \in {"resolving", "loading", "saving"} THEN server.files ELSE {}

Promise == INSTANCE FileVisibility WITH
  phase   <- [f \in File |-> PhaseOf(f)],
  pinned  <- PinnedFiles,
  visible <- [c \in Conv |-> ActiveIn(c)]

(* The catalog implements FileVisibility: profiles of a file become active *)
(* only through a request that read its Mongo document while it existed.   *)
PromiseKept == Promise!AbsSpec

-----------------------------------------------------------------------------
(* Properties                                                              *)

(* The worker acts on what it read two steps before: between the Mongo     *)
(* read and invalidate_file nothing may bring the document back, so the    *)
(* worker never takes a file away from a user who still has it.            *)
CondemnedIsRemoved ==
  worker.pc = "condemned" => \A f \in File : NextRef(f) => doc[f] = "removed"

(* A profile is switched off only for a file whose owner asked for its     *)
(* deletion (a call that may be late) or whose document is gone; deleting  *)
(* one file never hides another.                                           *)
HiddenOnlyOnRequest ==
  [][\A c \in Conv, f \in File :
       rows[c][f] = "active" /\ rows'[c][f] = "inactive" =>
         doc[f] = "removed" \/ del[f] = "invalidating" \/ f \in late]_vars

(* After the end of every request and every scan begun before a file was   *)
(* removed, no conversation can use it any more: late invalidations and    *)
(* re-activations by a request that raced the deletion are all repaired.   *)
RemovedIsForgotten ==
  \A f \in File :
    doc[f] = "removed" ~> [](\A c \in Conv : rows[c][f] # "active")

(* 01_MANIFEST.md:363 says of an invalidated table that it must not come   *)
(* back to the analytical context. For a file that is gone for good:       *)
InvalidatedStaysInvalidated ==
  [][\A c \in Conv, f \in File :
       doc[f] = "removed" /\ rows[c][f] = "inactive" => rows'[c][f] # "active"]_vars
=============================================================================
