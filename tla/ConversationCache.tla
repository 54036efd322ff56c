------------------------- MODULE ConversationCache -------------------------
(***************************************************************************)
(* The DuckDB cache of one conversation: the database file, the lock file  *)
(* beside it, the record of processed files in Postgres, the processes     *)
(* that open it (the agent server and command-line runs on the same        *)
(* directory) and the deletion of the chat.                                *)
(*                                                                         *)
(* Inodes tell the database file from an earlier one of the same name: a   *)
(* process keeps the file it opened when the name is unlinked.             *)
(***************************************************************************)
EXTENDS Integers, FiniteSets

CONSTANTS
  File,        \* file ids
  Table,       \* final table names
  NoFile,      \* what a table holds that does not exist
  TableOf,     \* table_name_for_file, the same for two files if their names are cut alike
  Question,    \* the sets of files that questions are asked about
  Process,     \* processes that run the agent
  Server,      \* the one that serves HTTP
  Free,        \* the lock file does not exist
  Inode,       \* database files
  NoDb,        \* no database file
  MaxCrashes   \* bound on crashes

ASSUME FileAssumption == NoFile \notin File /\ TableOf \in [File -> Table]
ASSUME QuestionAssumption == Question \subseteq (SUBSET File) \ {{}}
ASSUME ProcessAssumption == Server \in Process /\ Free \notin Process
ASSUME InodeAssumption == NoDb \notin Inode
ASSUME CrashAssumption == MaxCrashes \in Nat

VARIABLES
  chat,     \* LibreChat's conversation: "open" or "deleted"
  asked,    \* files of a question the controller has not sent yet, {} if none
  cleanup,  \* a /agent/conversations/delete call is queued
  session,  \* the analysis_catalog_sessions row and its processed_files
  disk,     \* the inode of <conversation>.duckdb
  tables,   \* what each table of each database file was loaded from
  lock,     \* who created <conversation>.lock
  run,      \* what each process is doing
  crashes

vars == <<chat, asked, cleanup, session, disk, tables, lock, run, crashes>>

Idle == [pc |-> "idle", files |-> {}, todo |-> {}, db |-> NoDb,
         exists |-> FALSE, known |-> {}]
NoSession == [exists |-> FALSE, processed |-> {}]
NoTables == [t \in Table |-> NoFile]

(* Between CacheLock.acquire and CacheLock.release. *)
Holding == {"locked", "loading", "saving", "answering"}
Opened  == {"loading", "saving", "answering"}
Inside  == {p \in Process : run[p].pc \in Holding}
PC      == {"idle", "acquiring", "unlinkDb", "unlinkLock"} \cup Holding

RunState == [pc : PC, files : SUBSET File, todo : SUBSET File,
             db : Inode \cup {NoDb}, exists : BOOLEAN, known : SUBSET File]

(* A process has files while it runs, a database open from connect to      *)
(* close, and files left to load only while it loads.                      *)
WellFormed(r) ==
  /\ r.pc \in {"acquiring"} \cup Holding <=> r.files # {}
  /\ r.pc \in Opened <=> r.db # NoDb
  /\ r.pc = "loading" <=> r.todo # {}

(* The domains, and what a process holds at each of its steps. *)
TypeOK ==
  /\ chat \in {"open", "deleted"}
  /\ asked \subseteq File
  /\ cleanup \in BOOLEAN
  /\ session \in [exists : BOOLEAN, processed : SUBSET File]
  /\ disk \in Inode \cup {NoDb}
  /\ tables \in [Inode -> [Table -> File \cup {NoFile}]]
  /\ lock \in Process \cup {Free}
  /\ run \in [Process -> RunState]
  /\ \A p \in Process : WellFormed(run[p])
  /\ crashes \in 0..MaxCrashes

Init ==
  /\ chat = "open"
  /\ asked = {}
  /\ cleanup = FALSE
  /\ session = NoSession
  /\ disk = NoDb
  /\ tables = [i \in Inode |-> NoTables]
  /\ lock = Free
  /\ run = [p \in Process |-> Idle]
  /\ crashes = 0

-----------------------------------------------------------------------------
(* LibreChat                                                               *)

Ask(S) ==
  /\ chat = "open"
  /\ asked = {}
  /\ asked' = S
  /\ UNCHANGED <<chat, cleanup, session, disk, tables, lock, run, crashes>>

(* The delete route removes the conversation, then calls the agent. *)
DeleteChat ==
  /\ chat = "open"
  /\ chat' = "deleted"
  /\ cleanup' = TRUE
  /\ UNCHANGED <<asked, session, disk, tables, lock, run, crashes>>

(* The route that deletes every conversation of the user calls nobody. *)
DeleteAllChats ==
  /\ chat = "open"
  /\ chat' = "deleted"
  /\ UNCHANGED <<asked, cleanup, session, disk, tables, lock, run, crashes>>

-----------------------------------------------------------------------------
(* A run of the agent                                                      *)

Start(p, S) ==
  /\ run[p].pc = "idle"
  /\ run' = [run EXCEPT ![p] = [Idle EXCEPT !.pc = "acquiring", !.files = S]]

(* The controller's call reaches the server, the chat deleted or not. *)
StartAsked ==
  /\ asked # {}
  /\ Start(Server, asked)
  /\ asked' = {}
  /\ UNCHANGED <<chat, cleanup, session, disk, tables, lock, crashes>>

StartCommandLine(p, S) ==
  /\ p # Server
  /\ chat = "open"
  /\ Start(p, S)
  /\ UNCHANGED <<chat, asked, cleanup, session, disk, tables, lock, crashes>>

(* CacheLock.acquire, then cache_path.exists(). *)
AcquireLock(p) ==
  /\ run[p].pc = "acquiring"
  /\ lock = Free
  /\ lock' = p
  /\ run' = [run EXCEPT ![p].pc = "locked", ![p].exists = (disk # NoDb)]
  /\ UNCHANGED <<chat, asked, cleanup, session, disk, tables, crashes>>

(* A plausible bug: the deadline is computed inside the loop. *)
WaitAgain(p) ==
  /\ run[p].pc = "acquiring"
  /\ lock # Free
  /\ UNCHANGED vars

(* A plausible bug: release without the _acquired test. *)
TimesOutAndReleases(p) ==
  /\ run[p].pc = "acquiring"
  /\ lock # Free
  /\ run' = [run EXCEPT ![p] = Idle]
  /\ lock' = Free
  /\ UNCHANGED <<chat, asked, cleanup, session, disk, tables, crashes>>

(* Thirty seconds of polling end the run; release does nothing, the lock   *)
(* was not acquired.                                                       *)
LockTimesOut(p) ==
  /\ run[p].pc = "acquiring"
  /\ lock # Free
  /\ run' = [run EXCEPT ![p] = Idle]
  /\ UNCHANGED <<chat, asked, cleanup, session, disk, tables, lock, crashes>>

InUse(i) == \E q \in Process : run[q].db = i

(* duckdb.connect opens or creates the file, then find_conversation is     *)
(* read if the file existed before.                                        *)
Connect(p) ==
  /\ run[p].pc = "locked"
  /\ \E i \in Inode :
       /\ ~InUse(i)
       /\ disk \in {i, NoDb}
       /\ disk' = i
       /\ tables' = IF disk = i THEN tables ELSE [tables EXCEPT ![i] = NoTables]
       /\ run' = [run EXCEPT ![p].pc = "loading", ![p].todo = run[p].files, ![p].db = i,
                             ![p].known = IF run[p].exists THEN session.processed ELSE {}]
  /\ UNCHANGED <<chat, asked, cleanup, session, lock, crashes>>

(* Closing the workspace: the connection, then the lock file, whoever      *)
(* created the one that is there now.                                      *)
CloseWorkspace(p) ==
  /\ run' = [run EXCEPT ![p] = Idle]
  /\ lock' = Free

(* DuckDB lets one process at a time open a database file for writing. *)
ConnectRefused(p) ==
  /\ run[p].pc = "locked"
  /\ disk # NoDb
  /\ InUse(disk)
  /\ CloseWorkspace(p)
  /\ UNCHANGED <<chat, asked, cleanup, session, disk, tables, crashes>>

(* The file is reused when the record has its signature and its tables are *)
(* in the database.                                                        *)
CacheHit(p, f) == f \in run[p].known /\ tables[run[p].db][TableOf[f]] # NoFile

(* A plausible bug: break for continue, a cached file ends the loop.       *)
LoadFileBreaks(p, f) ==
  /\ run[p].pc = "loading"
  /\ f \in run[p].todo
  /\ tables' = IF CacheHit(p, f) THEN tables
               ELSE [tables EXCEPT ![run[p].db][TableOf[f]] = f]
  /\ run' = [run EXCEPT ![p].todo = IF CacheHit(p, f) THEN {} ELSE @ \ {f},
                        ![p].pc = IF CacheHit(p, f) \/ run[p].todo = {f} THEN "saving" ELSE @]
  /\ UNCHANGED <<chat, asked, cleanup, session, disk, lock, crashes>>

LoadFile(p, f) ==
  /\ run[p].pc = "loading"
  /\ f \in run[p].todo
  /\ tables' = IF CacheHit(p, f) THEN tables
               ELSE [tables EXCEPT ![run[p].db][TableOf[f]] = f]
  /\ run' = [run EXCEPT ![p].todo = @ \ {f},
                        ![p].pc = IF run[p].todo = {f} THEN "saving" ELSE @]
  /\ UNCHANGED <<chat, asked, cleanup, session, disk, lock, crashes>>

(* save_conversation writes the files of this request over the record. *)
SaveConversation(p) ==
  /\ run[p].pc = "saving"
  /\ session' = [exists |-> TRUE, processed |-> run[p].files]
  /\ run' = [run EXCEPT ![p].pc = "answering"]
  /\ UNCHANGED <<chat, asked, cleanup, disk, tables, lock, crashes>>

(* A plausible bug: the error path keeps the lock. *)
FailLocked(p) ==
  /\ run[p].pc \in {"loading", "saving"}
  /\ run' = [run EXCEPT ![p] = Idle]
  /\ UNCHANGED <<chat, asked, cleanup, session, disk, tables, lock, crashes>>

(* A plausible bug: the record is written on the error path too. *)
FailAndSave(p) ==
  /\ run[p].pc \in {"loading", "saving"}
  /\ session' = [exists |-> TRUE, processed |-> run[p].files]
  /\ CloseWorkspace(p)
  /\ UNCHANGED <<chat, asked, cleanup, disk, tables, crashes>>

(* A plausible bug: the error path leaves the connection open. *)
FailConnected(p) ==
  /\ run[p].pc \in {"loading", "saving"}
  /\ run' = [run EXCEPT ![p] = [Idle EXCEPT !.db = run[p].db]]
  /\ lock' = Free
  /\ UNCHANGED <<chat, asked, cleanup, session, disk, tables, crashes>>

(* Download, load, profile or save fails: the workspace is closed, the     *)
(* tables loaded so far stay in the database.                              *)
Fail(p) ==
  /\ run[p].pc \in {"loading", "saving"}
  /\ CloseWorkspace(p)
  /\ UNCHANGED <<chat, asked, cleanup, session, disk, tables, crashes>>

Finish(p) ==
  /\ run[p].pc = "answering"
  /\ CloseWorkspace(p)
  /\ UNCHANGED <<chat, asked, cleanup, session, disk, tables, crashes>>

-----------------------------------------------------------------------------
(* IngestValidationService.delete_conversation                             *)

(* A plausible bug: cache_path is read after the row is deleted. *)
ServeCleanupRowFirst ==
  /\ cleanup
  /\ run[Server].pc = "idle"
  /\ session' = NoSession
  /\ cleanup' = FALSE
  /\ UNCHANGED <<chat, asked, disk, tables, lock, run, crashes>>

(* One transaction reads cache_path and deletes the row; without a row     *)
(* there is no path and nothing is unlinked.                               *)
ServeCleanup ==
  /\ cleanup
  /\ run[Server].pc = "idle"
  /\ session' = NoSession
  /\ run' = [run EXCEPT ![Server].pc = IF session.exists THEN "unlinkDb" ELSE @]
  /\ cleanup' = FALSE
  /\ UNCHANGED <<chat, asked, disk, tables, lock, crashes>>

UnlinkDb ==
  /\ run[Server].pc = "unlinkDb"
  /\ disk' = NoDb
  /\ run' = [run EXCEPT ![Server].pc = "unlinkLock"]
  /\ UNCHANGED <<chat, asked, cleanup, session, tables, lock, crashes>>

UnlinkLock ==
  /\ run[Server].pc = "unlinkLock"
  /\ lock' = Free
  /\ run' = [run EXCEPT ![Server] = Idle]
  /\ UNCHANGED <<chat, asked, cleanup, session, disk, tables, crashes>>

(* A process dies: the kernel closes its files, the lock file stays, calls *)
(* queued at the server are lost.                                          *)
Crash(p) ==
  /\ crashes < MaxCrashes
  /\ crashes' = crashes + 1
  /\ run' = [run EXCEPT ![p] = Idle]
  /\ cleanup' = IF p = Server THEN FALSE ELSE cleanup
  /\ UNCHANGED <<chat, asked, session, disk, tables, lock>>

-----------------------------------------------------------------------------
RunStep(p) ==
  \/ AcquireLock(p) \/ LockTimesOut(p)
  \/ Connect(p) \/ ConnectRefused(p)
  \/ \E f \in File : LoadFile(p, f)
  \/ SaveConversation(p)
  \/ Fail(p) \/ Finish(p)

Next ==
  \/ \E S \in Question : Ask(S) \/ \E p \in Process : StartCommandLine(p, S)
  \/ DeleteChat \/ DeleteAllChats
  \/ StartAsked
  \/ \E p \in Process : RunStep(p) \/ Crash(p)
  \/ ServeCleanup \/ UnlinkDb \/ UnlinkLock

Spec == Init /\ [][Next]_vars

(* The server thread runs whatever it has begun to its end. *)
FairSpec == Spec /\ WF_vars(RunStep(Server) \/ UnlinkDb \/ UnlinkLock)

-----------------------------------------------------------------------------
(* Properties                                                              *)

(* The files that share the table of a file: itself, and those whose names *)
(* are the same once they are cut.                                         *)
Namesakes(f) == {g \in File : TableOf[g] = TableOf[f]}

(* Whatever was cached, recorded, deleted or half loaded before, and       *)
(* whoever else used the directory, an answer is computed from tables      *)
(* loaded from the files the request names; of files that share a table,   *)
(* from one of them.                                                       *)
AnswersFromItsFiles ==
  \A p \in Process : run[p].pc \in {"saving", "answering"} =>
    \A f \in run[p].files : tables[run[p].db][TableOf[f]] \in Namesakes(f)

(* While the chat exists one process at a time is between acquire and      *)
(* release, whatever crashed and whatever gave up waiting.                 *)
LockExcludes ==
  chat = "open" => \A p, q \in Inside : p = q

(* A process that ends by itself takes its lock file away, also when the   *)
(* chat was deleted under it.                                              *)
NoLockAtRest ==
  crashes = 0 /\ (\A p \in Process : run[p].pc = "idle") => lock = Free

(* While the chat exists the record in Postgres names only files whose     *)
(* tables are in the database on disk, a crash in the middle included.     *)
RecordedIsCached ==
  chat = "open" =>
    \A f \in session.processed : disk # NoDb /\ tables[disk][TableOf[f]] \in Namesakes(f)

(* A database file that no row names and nobody is about to record or      *)
(* unlink: no cleanup will find it.                                        *)
Orphaned ==
  /\ disk # NoDb /\ ~session.exists
  /\ run[Server].pc # "unlinkDb"
  /\ \A p \in Process : run[p].pc \in {"loading", "saving"} => run[p].db # disk

(* Only a failed load or a crash orphans a database file: neither two      *)
(* processes on one chat nor a deletion in the middle of a run does.       *)
OrphansComeFromFaults ==
  [][Orphaned' => Orphaned \/ \E p \in Process : Fail(p) \/ Crash(p)]_vars

(* The refinement: the tables of its files that a process can read, and    *)
(* what the next one will find under the name of the chat.                 *)
Phase(r) ==
  CASE r.pc = "acquiring" -> "waiting"
    [] r.pc \in {"locked", "loading", "saving"} -> "inside"
    [] r.pc = "answering" -> "answering"
    [] OTHER -> "idle"
Phases   == [p \in Process |-> Phase(run[p])]
TablesOf(S) == {TableOf[f] : f \in S}
Wanted   == [p \in Process |-> TablesOf(run[p].files)]
Holds(i, t) == i # NoDb /\ tables[i][t] # NoFile
Readable == [p \in Process |-> {t \in Wanted[p] : Holds(run[p].db, t)}]
Cached   == {t \in Table : Holds(disk, t)}

Promise == INSTANCE CachePromise WITH
  open <- chat = "open", phase <- Phases, wanted <- Wanted, loaded <- Readable,
  cached <- Cached, recorded <- TablesOf(session.processed)

(* The cache implements CachePromise: lock, database file, record, crashes *)
(* and the deletion under a run together never take a cached table from an *)
(* open chat nor let an answer be computed without a table of its files.   *)
PromiseKept == Promise!AbsSpec

(* A stale lock or a long run elsewhere costs a request its answer, never  *)
(* the only server thread.                                                 *)
ServerComesBack == run[Server].pc # "idle" ~> run[Server].pc = "idle"
=============================================================================
