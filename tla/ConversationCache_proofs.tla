---------------------- MODULE ConversationCache_proofs ----------------------
(***************************************************************************)
(* Proofs about ConversationCache, for any number of processes, files and  *)
(* crashes.                                                                *)
(***************************************************************************)
EXTENDS ConversationCache, TLAPS

(* A table holds a file of its own name. *)
TablesNamed ==
  \A i \in Inode, t \in Table : tables[i][t] # NoFile => TableOf[tables[i][t]] = t

(* What a process has loaded so far is in the database it opened. *)
LoadedSoFar ==
  \A p \in Process : run[p].pc \in Opened =>
    \A f \in run[p].files \ run[p].todo : tables[run[p].db][TableOf[f]] \in Namesakes(f)

(* Files and locks are unlinked for deleted chats only. *)
OnlyDeletedUnlinked ==
  cleanup \/ run[Server].pc \in {"unlinkDb", "unlinkLock"} => chat = "deleted"

LockOwned == chat = "open" => \A p \in Inside : lock = p

(* An open chat has its name on the file that processes have open. *)
OpenedIsOnDisk ==
  chat = "open" => \A p \in Process : run[p].pc \in Opened => run[p].db = disk

LockAlive == crashes = 0 /\ lock # Free => lock \in Inside

-----------------------------------------------------------------------------
(* A file is its own namesake, and no table of namesakes is missing. *)
LEMMA NamesakesOf ==
  ASSUME NEW f \in File
  PROVE  /\ f \in Namesakes(f) /\ NoFile \notin Namesakes(f)
         /\ \A g \in File : TableOf[g] = TableOf[f] => g \in Namesakes(f) /\ Namesakes(g) = Namesakes(f)
BY FileAssumption DEF Namesakes

LEMMA TablesOfFiles ==
  ASSUME NEW S \in SUBSET File
  PROVE  TablesOf(S) \in SUBSET Table
BY FileAssumption DEF TablesOf

LEMMA IdleWellFormed == Idle \in RunState /\ WellFormed(Idle)
BY DEF Idle, RunState, WellFormed, PC, Holding, Opened

LEMMA TypeInit == Init => TypeOK
<1> SUFFICES ASSUME Init PROVE TypeOK
  OBVIOUS
<1>1. tables \in [Inode -> [Table -> File \cup {NoFile}]]
  BY DEF Init, NoTables
<1>2. run \in [Process -> RunState] /\ \A p \in Process : WellFormed(run[p])
  BY IdleWellFormed DEF Init
<1>3. session \in [exists : BOOLEAN, processed : SUBSET File]
  BY DEF Init, NoSession
<1>4. crashes \in 0..MaxCrashes
  BY CrashAssumption DEF Init
<1>5. cleanup \in BOOLEAN
  BY DEF Init
<1> QED BY <1>1, <1>2, <1>3, <1>4, <1>5 DEF Init, TypeOK

(* One process changes to a well formed state. *)
LEMMA RunKept ==
  ASSUME TypeOK, NEW p \in Process, NEW r \in RunState, WellFormed(r),
         run' = [run EXCEPT ![p] = r]
  PROVE  run' \in [Process -> RunState] /\ \A q \in Process : WellFormed(run'[q])
BY DEF TypeOK

LEMMA StartType ==
  ASSUME TypeOK, NEW p \in Process, NEW S \in SUBSET File, S # {}, Start(p, S)
  PROVE  run' \in [Process -> RunState] /\ \A q \in Process : WellFormed(run'[q])
<1> DEFINE r == [Idle EXCEPT !.pc = "acquiring", !.files = S]
<1>1. r \in RunState /\ WellFormed(r)
  BY DEF Idle, RunState, WellFormed, PC, Holding, Opened
<1>2. run' = [run EXCEPT ![p] = r]
  BY DEF Start
<1> HIDE DEF r
<1> QED BY <1>1, <1>2, RunKept

LEMMA AcquireType ==
  ASSUME TypeOK, NEW p \in Process, AcquireLock(p) PROVE TypeOK'
<1> DEFINE e == (disk # NoDb)
           r == [run[p] EXCEPT !.pc = "locked", !.exists = e]
<1>1. run[p] \in RunState /\ WellFormed(run[p]) /\ run[p].pc = "acquiring"
  BY DEF TypeOK, AcquireLock
<1>2. e \in BOOLEAN
  OBVIOUS
<1>3. run' = [run EXCEPT ![p] = r]
  BY DEF AcquireLock, TypeOK
<1> HIDE DEF e
<1>4. r \in RunState
  BY <1>1, <1>2 DEF RunState, PC, Holding
<1>5. WellFormed(r)
  BY <1>1 DEF RunState, WellFormed, Holding, Opened
<1> HIDE DEF r
<1>6. run' \in [Process -> RunState] /\ \A q \in Process : WellFormed(run'[q])
  BY <1>3, <1>4, <1>5, RunKept
<1> QED BY <1>6 DEF AcquireLock, TypeOK

LEMMA ConnectType ==
  ASSUME TypeOK, NEW p \in Process, Connect(p) PROVE TypeOK'
<1>1. PICK i \in Inode :
       /\ disk' = i
       /\ tables' = IF disk = i THEN tables ELSE [tables EXCEPT ![i] = NoTables]
       /\ run' = [run EXCEPT ![p].pc = "loading", ![p].todo = run[p].files, ![p].db = i,
                             ![p].known = IF run[p].exists THEN session.processed ELSE {}]
  BY DEF Connect
<1>2. tables' \in [Inode -> [Table -> File \cup {NoFile}]]
  <2>1. NoTables \in [Table -> File \cup {NoFile}]
    BY DEF NoTables
  <2> QED BY <1>1, <2>1 DEF TypeOK
<1> DEFINE k == IF run[p].exists THEN session.processed ELSE {}
           r == [run[p] EXCEPT !.pc = "loading", !.todo = run[p].files, !.db = i, !.known = k]
<1>3. run[p] \in RunState /\ WellFormed(run[p]) /\ run[p].pc = "locked"
  BY DEF TypeOK, Connect
<1>4. k \in SUBSET File
  BY DEF TypeOK
<1>5. run' = [run EXCEPT ![p] = r]
  BY <1>1 DEF TypeOK
<1> HIDE DEF k
<1>6. r \in RunState
  BY <1>3, <1>4 DEF RunState, PC, Holding
<1>7. WellFormed(r)
  BY <1>3, InodeAssumption DEF RunState, WellFormed, Holding, Opened
<1> HIDE DEF r
<1>8. run' \in [Process -> RunState] /\ \A q \in Process : WellFormed(run'[q])
  BY <1>5, <1>6, <1>7, RunKept
<1> QED BY <1>1, <1>2, <1>8 DEF Connect, TypeOK

LEMMA LoadFileType ==
  ASSUME TypeOK, NEW p \in Process, NEW f \in File, LoadFile(p, f) PROVE TypeOK'
<1> DEFINE c == IF run[p].todo = {f} THEN "saving" ELSE run[p].pc
           r == [run[p] EXCEPT !.todo = run[p].todo \ {f}, !.pc = c]
<1>1. run[p] \in RunState /\ WellFormed(run[p]) /\ run[p].pc = "loading" /\ f \in run[p].todo
  BY DEF TypeOK, LoadFile
<1>2. run' = [run EXCEPT ![p] = r]
  BY DEF LoadFile, TypeOK
<1>3. c = IF run[p].todo = {f} THEN "saving" ELSE "loading"
  BY <1>1
<1> HIDE DEF c
<1>4. r \in RunState
  BY <1>1, <1>3 DEF RunState, PC, Holding
<1>5. WellFormed(r)
  BY <1>1, <1>3 DEF RunState, WellFormed, Holding, Opened
<1> HIDE DEF r
<1>6. run' \in [Process -> RunState] /\ \A q \in Process : WellFormed(run'[q])
  BY <1>2, <1>4, <1>5, RunKept
<1>7. tables' \in [Inode -> [Table -> File \cup {NoFile}]]
  <2>1. CASE tables' = tables
    BY <2>1 DEF TypeOK
  <2>2. CASE tables' = [tables EXCEPT ![run[p].db][TableOf[f]] = f]
    BY <2>2 DEF TypeOK
  <2> QED BY <2>1, <2>2 DEF LoadFile
<1> QED BY <1>6, <1>7 DEF LoadFile, TypeOK

LEMMA SaveType ==
  ASSUME TypeOK, NEW p \in Process, SaveConversation(p) PROVE TypeOK'
<1> DEFINE r == [run[p] EXCEPT !.pc = "answering"]
<1>1. run[p] \in RunState /\ WellFormed(run[p]) /\ run[p].pc = "saving"
  BY DEF TypeOK, SaveConversation
<1>2. r \in RunState
  BY <1>1 DEF RunState, PC, Holding
<1>3. WellFormed(r)
  BY <1>1 DEF RunState, WellFormed, Holding, Opened
<1>4. run' = [run EXCEPT ![p] = r]
  BY DEF SaveConversation, TypeOK
<1> HIDE DEF r
<1>5. run' \in [Process -> RunState] /\ \A q \in Process : WellFormed(run'[q])
  BY <1>2, <1>3, <1>4, RunKept
<1>6. session' \in [exists : BOOLEAN, processed : SUBSET File]
  BY <1>1 DEF SaveConversation, RunState
<1> QED BY <1>5, <1>6 DEF SaveConversation, TypeOK

(* The handler of a cleanup holds no files. *)
LEMMA UnlinkingType ==
  ASSUME TypeOK, NEW c \in {"idle", "unlinkDb", "unlinkLock"}, run' = [run EXCEPT ![Server].pc = c],
         run[Server].pc \in {"idle", "unlinkDb", "unlinkLock"}
  PROVE  run' \in [Process -> RunState] /\ \A q \in Process : WellFormed(run'[q])
<1> DEFINE r == [run[Server] EXCEPT !.pc = c]
<1>1. run[Server] \in RunState /\ WellFormed(run[Server]) /\ Server \in Process
  BY ProcessAssumption DEF TypeOK
<1>2. r \in RunState
  BY <1>1 DEF RunState, PC, Holding
<1>3. WellFormed(r)
  BY <1>1 DEF RunState, WellFormed, Holding, Opened
<1>4. run' = [run EXCEPT ![Server] = r]
  BY <1>1 DEF TypeOK
<1> HIDE DEF r
<1> QED BY <1>1, <1>2, <1>3, <1>4, RunKept

LEMMA ServeCleanupType == ASSUME TypeOK, ServeCleanup PROVE TypeOK'
<1>1. session' \in [exists : BOOLEAN, processed : SUBSET File]
  BY DEF ServeCleanup, NoSession
<1>2. CASE session.exists
  BY <1>1, <1>2, UnlinkingType DEF ServeCleanup, TypeOK
<1>3. CASE ~session.exists
  <2>1. run' = run
    BY <1>3, ProcessAssumption DEF ServeCleanup, TypeOK, RunState
  <2> QED BY <1>1, <2>1 DEF ServeCleanup, TypeOK
<1> QED BY <1>2, <1>3

LEMMA TypeStep == TypeOK /\ [Next]_vars => TypeOK'
<1> SUFFICES ASSUME TypeOK, [Next]_vars PROVE TypeOK'
  OBVIOUS
<1>1. CASE UNCHANGED vars
  BY <1>1 DEF vars, TypeOK
<1>2. CASE \E S \in Question : Ask(S)
  BY <1>2, QuestionAssumption DEF Ask, TypeOK
<1>3. CASE DeleteChat \/ DeleteAllChats
  BY <1>3 DEF DeleteChat, DeleteAllChats, TypeOK
<1>4. CASE StartAsked
  BY <1>4, StartType, ProcessAssumption DEF StartAsked, TypeOK
<1>5. CASE \E S \in Question, p \in Process : StartCommandLine(p, S)
  <2>1. PICK S \in Question, p \in Process : StartCommandLine(p, S)
    BY <1>5
  <2>2. S \in SUBSET File /\ S # {}
    BY QuestionAssumption
  <2>3. run' \in [Process -> RunState] /\ \A q \in Process : WellFormed(run'[q])
    BY <2>1, <2>2, StartType DEF StartCommandLine
  <2> QED BY <2>1, <2>3 DEF StartCommandLine, TypeOK
<1>6. ASSUME NEW p \in Process, run' = [run EXCEPT ![p] = Idle]
      PROVE  run' \in [Process -> RunState] /\ \A q \in Process : WellFormed(run'[q])
  BY <1>6, IdleWellFormed, RunKept
<1>7. ASSUME NEW p \in Process, LockTimesOut(p) \/ ConnectRefused(p) \/ Fail(p) \/ Finish(p) \/ Crash(p)
      PROVE  TypeOK'
  <2>1. run' \in [Process -> RunState] /\ \A q \in Process : WellFormed(run'[q])
    BY <1>6, <1>7 DEF LockTimesOut, ConnectRefused, Fail, Finish, Crash, CloseWorkspace
  <2>2. crashes' \in 0..MaxCrashes
    <3>1. crashes \in 0..MaxCrashes
      BY DEF TypeOK
    <3>2. crashes' = crashes \/ (crashes < MaxCrashes /\ crashes' = crashes + 1)
      BY <1>7 DEF LockTimesOut, ConnectRefused, Fail, Finish, Crash
    <3> QED BY <3>1, <3>2, CrashAssumption
  <2>3. cleanup' \in BOOLEAN
    BY <1>7 DEF LockTimesOut, ConnectRefused, Fail, Finish, Crash, CloseWorkspace, TypeOK
  <2> QED
    BY <1>7, <2>1, <2>2, <2>3
       DEF LockTimesOut, ConnectRefused, Fail, Finish, Crash, CloseWorkspace, TypeOK
<1>8. CASE \E p \in Process : RunStep(p)
  BY <1>7, <1>8, AcquireType, ConnectType, LoadFileType, SaveType DEF RunStep
<1>9. CASE ServeCleanup
  BY <1>9, ServeCleanupType
<1>10. CASE UnlinkDb
  BY <1>10, UnlinkingType DEF UnlinkDb, TypeOK
<1>11. CASE UnlinkLock
  BY <1>6, <1>11, ProcessAssumption DEF UnlinkLock, TypeOK
<1> QED BY <1>1, <1>2, <1>3, <1>4, <1>5, <1>7, <1>8, <1>9, <1>10, <1>11 DEF Next

(* Every variable keeps its domain, and a process has files, an open       *)
(* database and work left exactly at the steps that use them.              *)
THEOREM TypeCorrect == Spec => []TypeOK
BY TypeInit, TypeStep, PTL DEF Spec

-----------------------------------------------------------------------------
(* The lock *)

LockInv ==
  /\ TypeOK
  /\ OnlyDeletedUnlinked
  /\ LockOwned
  /\ LockAlive

LEMMA LockInit == Init => LockInv
<1>1. Init => Inside = {}
  BY DEF Init, Inside, Holding, Idle
<1>2. Init => OnlyDeletedUnlinked
  BY ProcessAssumption DEF Init, OnlyDeletedUnlinked, Idle
<1> QED BY <1>1, <1>2, TypeInit DEF LockInv, LockOwned, LockAlive, Init

(* Who is inside changes by one process at a time. *)
LEMMA InsideSteps ==
  ASSUME TypeOK, NEW p \in Process, NEW r, run' = [run EXCEPT ![p] = r]
  PROVE  Inside' = IF r.pc \in Holding THEN Inside \cup {p} ELSE Inside \ {p}
BY DEF TypeOK, Inside

(* The steps that take or leave the lock. *)
LEMMA Enters ==
  ASSUME TypeOK, NEW p \in Process, AcquireLock(p)
  PROVE  Inside' = Inside \cup {p}
<1> DEFINE r == [run[p] EXCEPT !.pc = "locked", !.exists = (disk # NoDb)]
<1>1. run' = [run EXCEPT ![p] = r]
  BY DEF AcquireLock, TypeOK
<1>2. r.pc = "locked"
  BY DEF TypeOK, RunState
<1> HIDE DEF r
<1> QED BY <1>1, <1>2, InsideSteps DEF Holding

LEMMA Leaves ==
  ASSUME TypeOK, NEW p \in Process, run' = [run EXCEPT ![p] = Idle]
  PROVE  Inside' = Inside \ {p}
<1>1. Idle.pc \notin Holding
  BY DEF Idle, Holding
<1> QED BY <1>1, InsideSteps

LEMMA StaysInside ==
  ASSUME TypeOK, NEW p \in Process,
         Connect(p) \/ (\E f \in File : LoadFile(p, f)) \/ SaveConversation(p)
  PROVE  Inside' = Inside /\ \A q \in Process : run'[q].pc = run[q].pc \/ run'[q].pc \in Holding
<1>1. run[p].pc \in Holding
  BY DEF Connect, LoadFile, SaveConversation, Holding
<1>2. run'[p].pc \in Holding /\ \A q \in Process \ {p} : run'[q] = run[q]
  <2>1. CASE Connect(p)
    <3>1. run[p] \in RunState /\ run \in [Process -> RunState]
      BY DEF TypeOK
    <3>2. PICK i \in Inode :
            run' = [run EXCEPT ![p].pc = "loading", ![p].todo = run[p].files, ![p].db = i,
                               ![p].known = IF run[p].exists THEN session.processed ELSE {}]
      BY <2>1 DEF Connect
    <3>3. run'[p].pc = "loading"
      BY <3>1, <3>2 DEF RunState
    <3> QED BY <3>1, <3>2, <3>3 DEF Holding
  <2>2. ASSUME NEW f \in File, LoadFile(p, f)
        PROVE  run'[p].pc \in Holding /\ \A q \in Process \ {p} : run'[q] = run[q]
    BY <2>2 DEF LoadFile, TypeOK, RunState, Holding
  <2>3. CASE SaveConversation(p)
    BY <2>3 DEF SaveConversation, TypeOK, RunState, Holding
  <2> QED BY <2>1, <2>2, <2>3
<1> QED BY <1>1, <1>2 DEF Inside

LEMMA OutsideKept ==
  ASSUME TypeOK, NEW p \in Process, NEW S, Start(p, S)
  PROVE  Inside' = Inside
<1> DEFINE r == [Idle EXCEPT !.pc = "acquiring", !.files = S]
<1>1. run' = [run EXCEPT ![p] = r] /\ run[p].pc = "idle"
  BY DEF Start
<1>2. r.pc = "acquiring"
  BY DEF Idle
<1> HIDE DEF r
<1>3. Inside' = Inside \ {p}
  BY <1>1, <1>2, InsideSteps DEF Holding
<1> QED BY <1>1, <1>3 DEF Inside, Holding

LEMMA UnlinkingKept ==
  ASSUME TypeOK, ServeCleanup \/ UnlinkDb
  PROVE  Inside' = Inside
BY ProcessAssumption DEF ServeCleanup, UnlinkDb, TypeOK, RunState, Inside, Holding

(* The server unlinks only for a chat that is deleted, and a deleted chat  *)
(* stays deleted.                                                          *)
LEMMA UnlinkedStep ==
  ASSUME TypeOK, OnlyDeletedUnlinked, [Next]_vars
  PROVE  OnlyDeletedUnlinked'
<1>1. chat = "deleted" => chat' = "deleted"
  BY DEF Next, vars, RunStep, Ask, DeleteChat, DeleteAllChats, StartAsked, StartCommandLine,
         AcquireLock, LockTimesOut, Connect, ConnectRefused, LoadFile, SaveConversation, Fail,
         Finish, ServeCleanup, UnlinkDb, UnlinkLock, Crash
<1>2. cleanup' => cleanup \/ chat' = "deleted"
  BY DEF Next, vars, RunStep, Ask, DeleteChat, DeleteAllChats, StartAsked, StartCommandLine,
         AcquireLock, LockTimesOut, Connect, ConnectRefused, LoadFile, SaveConversation, Fail,
         Finish, ServeCleanup, UnlinkDb, UnlinkLock, Crash
<1> DEFINE Unlinking == run[Server].pc \in {"unlinkDb", "unlinkLock"}
<1>3. Unlinking' => Unlinking \/ cleanup
  <2>1. CASE run' = run
    BY <2>1
  <2>2. ASSUME NEW p \in Process, run' = [run EXCEPT ![p] = Idle] PROVE Unlinking' => Unlinking
    BY <2>2, ProcessAssumption DEF TypeOK, Idle
  <2>3. ASSUME NEW p \in Process, NEW S, Start(p, S) PROVE Unlinking' => Unlinking
    BY <2>3, ProcessAssumption DEF TypeOK, Start, Idle
  <2>4. ASSUME NEW p \in Process, AcquireLock(p) PROVE Unlinking' => Unlinking
    BY <2>4, ProcessAssumption DEF TypeOK, AcquireLock, RunState
  <2>5. ASSUME NEW p \in Process,
               Connect(p) \/ (\E f \in File : LoadFile(p, f)) \/ SaveConversation(p)
        PROVE  Unlinking' => Unlinking
    BY <2>5, StaysInside, ProcessAssumption DEF Holding
  <2>6. CASE UnlinkDb
    BY <2>6 DEF UnlinkDb
  <2>7. CASE ServeCleanup
    BY <2>7 DEF ServeCleanup
  <2>8. CASE UnlinkLock
    BY <2>2, <2>8, ProcessAssumption DEF UnlinkLock
  <2> QED BY <2>1, <2>2, <2>3, <2>4, <2>5, <2>6, <2>7, <2>8, ProcessAssumption
       DEF Next, vars, RunStep, Ask, DeleteChat, DeleteAllChats, StartAsked, StartCommandLine,
           LockTimesOut, ConnectRefused, Fail, Finish, CloseWorkspace, Crash
<1> QED BY <1>1, <1>2, <1>3 DEF OnlyDeletedUnlinked

LEMMA LockStep == LockInv /\ [Next]_vars => LockInv'
<1> SUFFICES ASSUME LockInv, [Next]_vars PROVE LockInv'
  OBVIOUS
<1> USE DEF LockInv
<1>1. TypeOK' /\ OnlyDeletedUnlinked'
  BY TypeStep, UnlinkedStep
<1> SUFFICES LockOwned' /\ LockAlive'
  BY <1>1
<1>2. ASSUME Inside' = Inside, UNCHANGED <<lock, crashes>>, chat' = "open" => chat = "open"
      PROVE  LockOwned' /\ LockAlive'
  BY <1>2 DEF LockOwned, LockAlive
<1>3. CASE UNCHANGED vars
  BY <1>2, <1>3 DEF vars, Inside
<1>4. CASE (\E S \in Question : Ask(S)) \/ DeleteChat \/ DeleteAllChats
  BY <1>2, <1>4 DEF Ask, DeleteChat, DeleteAllChats, Inside
<1>5. CASE StartAsked \/ \E S \in Question, p \in Process : StartCommandLine(p, S)
  BY <1>2, <1>5, OutsideKept, ProcessAssumption DEF StartAsked, StartCommandLine
<1>6. ASSUME NEW p \in Process, AcquireLock(p) PROVE LockOwned' /\ LockAlive'
  <2>1. Inside' = Inside \cup {p} /\ lock = Free /\ lock' = p /\ chat' = chat
    BY <1>6, Enters DEF AcquireLock
  <2>2. chat = "open" => Inside = {}
    BY <2>1, ProcessAssumption DEF LockOwned, Inside
  <2> QED BY <2>1, <2>2 DEF LockOwned, LockAlive
<1>7. ASSUME NEW p \in Process, LockTimesOut(p) PROVE LockOwned' /\ LockAlive'
  <2>1. Inside' = Inside \ {p} /\ p \notin Inside
    BY <1>7, Leaves DEF LockTimesOut, Inside, Holding
  <2> QED BY <1>2, <1>7, <2>1 DEF LockTimesOut
<1>8. ASSUME NEW p \in Process,
             Connect(p) \/ (\E f \in File : LoadFile(p, f)) \/ SaveConversation(p)
      PROVE  LockOwned' /\ LockAlive'
  BY <1>2, <1>8, StaysInside DEF Connect, LoadFile, SaveConversation
<1>9. ASSUME NEW p \in Process, ConnectRefused(p) \/ Fail(p) \/ Finish(p)
      PROVE  LockOwned' /\ LockAlive'
  <2>1. p \in Inside /\ Inside' = Inside \ {p} /\ lock' = Free /\ chat' = chat
    BY <1>9, Leaves DEF ConnectRefused, Fail, Finish, CloseWorkspace, Inside, Holding
  <2>2. chat = "open" => Inside = {p}
    BY <2>1 DEF LockOwned, Inside
  <2> QED BY <2>1, <2>2 DEF LockOwned, LockAlive
<1>10. ASSUME NEW p \in Process, Crash(p) PROVE LockOwned' /\ LockAlive'
  <2>1. Inside' = Inside \ {p} /\ UNCHANGED <<lock, chat>> /\ crashes' = crashes + 1
    BY <1>10, Leaves DEF Crash
  <2>2. crashes' # 0
    BY <2>1 DEF TypeOK
  <2> QED BY <2>1, <2>2 DEF LockOwned, LockAlive
<1>11. CASE ServeCleanup \/ UnlinkDb
  BY <1>2, <1>11, UnlinkingKept DEF ServeCleanup, UnlinkDb
<1>12. CASE UnlinkLock
  <2>1. chat' = "deleted" /\ lock' = Free
    BY <1>12 DEF UnlinkLock, OnlyDeletedUnlinked
  <2> QED BY <2>1 DEF LockOwned, LockAlive
<1> QED BY <1>1, <1>3, <1>4, <1>5, <1>6, <1>7, <1>8, <1>9, <1>10, <1>11, <1>12 DEF Next, RunStep

(* While the chat exists one process at a time is inside, for any number   *)
(* of processes and whatever crashed or gave up.                           *)
THEOREM LockSafe == Spec => []LockExcludes
<1>1. LockInv => LockExcludes
  BY DEF LockInv, LockOwned, LockExcludes
<1> QED BY LockInit, LockStep, <1>1, PTL DEF Spec

(* Without a crash no lock file outlives the processes. *)
THEOREM RestSafe == Spec => []NoLockAtRest
<1>1. LockInv => NoLockAtRest
  BY DEF LockInv, LockAlive, NoLockAtRest, Inside, Holding
<1> QED BY LockInit, LockStep, <1>1, PTL DEF Spec

-----------------------------------------------------------------------------
(* What is in the database                                                 *)

CacheInv ==
  /\ TypeOK
  /\ OnlyDeletedUnlinked
  /\ TablesNamed
  /\ LoadedSoFar
  /\ OpenedIsOnDisk
  /\ RecordedIsCached

LEMMA CacheInit == Init => CacheInv
<1> SUFFICES ASSUME Init PROVE CacheInv
  OBVIOUS
<1>1. TypeOK /\ OnlyDeletedUnlinked
  BY TypeInit, ProcessAssumption DEF Init, OnlyDeletedUnlinked, Idle
<1>2. TablesNamed
  BY DEF Init, TablesNamed, NoTables
<1>3. LoadedSoFar /\ OpenedIsOnDisk
  BY DEF Init, LoadedSoFar, OpenedIsOnDisk, Opened, Idle
<1>4. RecordedIsCached
  BY DEF Init, RecordedIsCached, NoSession
<1> QED BY <1>1, <1>2, <1>3, <1>4 DEF CacheInv

(* Steps that leave the database and the record alone, and change only     *)
(* processes that have no database open afterwards.                        *)
Quiet ==
  /\ UNCHANGED <<session, disk, tables>>
  /\ chat' = "open" => chat = "open"
  /\ \A q \in Process : run'[q].pc \in Opened => run'[q] = run[q]

LEMMA QuietKeeps ==
  ASSUME CacheInv, Quiet, TypeOK', OnlyDeletedUnlinked' PROVE CacheInv'
<1>1. TablesNamed'
  BY DEF CacheInv, Quiet, TablesNamed
<1>2. LoadedSoFar'
  BY DEF CacheInv, Quiet, LoadedSoFar
<1>3. OpenedIsOnDisk'
  BY DEF CacheInv, Quiet, OpenedIsOnDisk
<1>4. RecordedIsCached'
  BY DEF CacheInv, Quiet, RecordedIsCached
<1> QED BY <1>1, <1>2, <1>3, <1>4 DEF CacheInv

(* A process that goes to a step without a database. *)
LEMMA ClosedIsQuiet ==
  ASSUME TypeOK, NEW p \in Process, NEW r, r.pc \notin Opened, run' = [run EXCEPT ![p] = r]
  PROVE  \A q \in Process : run'[q].pc \in Opened => run'[q] = run[q]
BY DEF TypeOK

LEMMA QuietSteps ==
  ASSUME TypeOK, NEW p \in Process, NEW S \in SUBSET File,
         \/ UNCHANGED vars \/ Ask(S) \/ DeleteChat \/ DeleteAllChats
         \/ StartAsked \/ StartCommandLine(p, S)
         \/ AcquireLock(p) \/ LockTimesOut(p) \/ ConnectRefused(p) \/ Fail(p) \/ Finish(p)
         \/ UnlinkLock \/ Crash(p)
  PROVE  Quiet
<1>1. Idle.pc \notin Opened
  BY DEF Idle, Opened
<1>2. CASE UNCHANGED vars \/ Ask(S) \/ DeleteChat \/ DeleteAllChats
  BY <1>2 DEF vars, Ask, DeleteChat, DeleteAllChats, Quiet
<1>3. ASSUME NEW q \in Process, NEW T, Start(q, T), UNCHANGED <<session, disk, tables, chat>>
      PROVE  Quiet
  <2> DEFINE r == [Idle EXCEPT !.pc = "acquiring", !.files = T]
  <2>1. run' = [run EXCEPT ![q] = r]
    BY <1>3 DEF Start
  <2>2. r.pc \notin Opened
    BY DEF Idle, Opened
  <2> HIDE DEF r
  <2> QED BY <1>3, <2>1, <2>2, ClosedIsQuiet DEF Quiet
<1>4. CASE StartAsked \/ StartCommandLine(p, S)
  BY <1>3, <1>4, ProcessAssumption DEF StartAsked, StartCommandLine
<1>5. CASE AcquireLock(p)
  <2> DEFINE e == (disk # NoDb)
             r == [run[p] EXCEPT !.pc = "locked", !.exists = e]
  <2>1. run' = [run EXCEPT ![p] = r]
    BY <1>5 DEF AcquireLock, TypeOK
  <2>2. r.pc \notin Opened
    BY DEF TypeOK, RunState, Opened
  <2> HIDE DEF r
  <2> QED BY <1>5, <2>1, <2>2, ClosedIsQuiet DEF Quiet, AcquireLock
<1>6. CASE LockTimesOut(p) \/ ConnectRefused(p) \/ Fail(p) \/ Finish(p) \/ Crash(p)
  <2>1. run' = [run EXCEPT ![p] = Idle] /\ UNCHANGED <<session, disk, tables, chat>>
    BY <1>6 DEF LockTimesOut, ConnectRefused, Fail, Finish, Crash, CloseWorkspace
  <2> QED BY <1>1, <2>1, ClosedIsQuiet DEF Quiet
<1>7. CASE UnlinkLock
  BY <1>1, <1>7, ClosedIsQuiet, ProcessAssumption DEF Quiet, UnlinkLock
<1> QED BY <1>2, <1>4, <1>5, <1>6, <1>7

(* The steps of a cleanup, whose chat is deleted. *)
LEMMA CleanupKeeps ==
  ASSUME CacheInv, ServeCleanup \/ UnlinkDb, TypeOK', OnlyDeletedUnlinked' PROVE CacheInv'
<1>1. chat' = "deleted" /\ tables' = tables
  BY DEF CacheInv, OnlyDeletedUnlinked, ServeCleanup, UnlinkDb
<1>2. \A q \in Process : run'[q].pc \in Opened => run'[q] = run[q]
  BY ProcessAssumption DEF CacheInv, TypeOK, RunState, Opened, ServeCleanup, UnlinkDb
<1>3. TablesNamed'
  BY <1>1 DEF CacheInv, TablesNamed
<1>4. LoadedSoFar'
  BY <1>1, <1>2 DEF CacheInv, LoadedSoFar
<1>5. OpenedIsOnDisk' /\ RecordedIsCached'
  BY <1>1 DEF OpenedIsOnDisk, RecordedIsCached
<1> QED BY <1>3, <1>4, <1>5 DEF CacheInv

LEMMA ConnectKeeps ==
  ASSUME CacheInv, NEW p \in Process, Connect(p), TypeOK', OnlyDeletedUnlinked'
  PROVE  CacheInv'
<1>1. PICK i \in Inode :
       /\ ~InUse(i)
       /\ disk \in {i, NoDb}
       /\ disk' = i
       /\ tables' = IF disk = i THEN tables ELSE [tables EXCEPT ![i] = NoTables]
       /\ run' = [run EXCEPT ![p].pc = "loading", ![p].todo = run[p].files, ![p].db = i,
                             ![p].known = IF run[p].exists THEN session.processed ELSE {}]
  BY DEF Connect
<1>2. session' = session /\ chat' = chat
  BY DEF Connect
<1>3. run'[p].pc = "loading" /\ run'[p].db = i /\ run'[p].todo = run'[p].files
  BY <1>1 DEF CacheInv, TypeOK, RunState
<1>4. \A q \in Process \ {p} : run'[q] = run[q]
  BY <1>1 DEF CacheInv, TypeOK
<1>5. tables \in [Inode -> [Table -> File \cup {NoFile}]]
  BY DEF CacheInv, TypeOK
<1>6. \A j \in Inode : tables'[j] = tables[j] \/ (j = i /\ tables'[j] = NoTables)
  BY <1>1, <1>5
<1>7. TablesNamed'
  <2> SUFFICES ASSUME NEW j \in Inode, NEW t \in Table, tables'[j][t] # NoFile
               PROVE  TableOf[tables'[j][t]] = t
    BY DEF TablesNamed
  <2>1. tables'[j] # NoTables
    BY DEF NoTables
  <2> QED BY <1>6, <2>1 DEF CacheInv, TablesNamed
<1>8. LoadedSoFar'
  <2> SUFFICES ASSUME NEW q \in Process, run'[q].pc \in Opened,
                      NEW f \in run'[q].files \ run'[q].todo
               PROVE  tables'[run'[q].db][TableOf[f]] \in Namesakes(f)
    BY DEF LoadedSoFar
  <2>1. q # p /\ run'[q] = run[q]
    BY <1>3, <1>4
  <2>2. run[q].db # i
    BY <1>1 DEF InUse
  <2>3. run[q].db \in Inode
    BY <2>1 DEF CacheInv, TypeOK, WellFormed, RunState
  <2>4. tables'[run[q].db] = tables[run[q].db]
    BY <1>6, <2>2, <2>3
  <2> QED BY <2>1, <2>4 DEF CacheInv, LoadedSoFar
<1>9. OpenedIsOnDisk'
  <2> SUFFICES ASSUME chat = "open", NEW q \in Process, run'[q].pc \in Opened
               PROVE  run'[q].db = i
    BY <1>1, <1>2 DEF OpenedIsOnDisk
  <2>1. ASSUME q # p PROVE FALSE
    <3>1. run'[q] = run[q]
      BY <1>4, <2>1
    <3>2. run[q].db = disk
      BY <3>1 DEF CacheInv, OpenedIsOnDisk
    <3>3. run[q].db # NoDb
      BY <3>1 DEF CacheInv, TypeOK, WellFormed
    <3> QED BY <1>1, <3>2, <3>3 DEF InUse
  <2> QED BY <1>3, <2>1
<1>10. RecordedIsCached'
  <2> SUFFICES ASSUME chat = "open", NEW f \in session.processed
               PROVE  i # NoDb /\ tables'[i][TableOf[f]] \in Namesakes(f)
    BY <1>1, <1>2 DEF RecordedIsCached
  <2>1. disk # NoDb /\ tables[disk][TableOf[f]] \in Namesakes(f)
    BY DEF CacheInv, RecordedIsCached
  <2> QED BY <1>1, <2>1
<1> QED BY <1>7, <1>8, <1>9, <1>10 DEF CacheInv

(* Loading a file leaves the tables of other names, and a table of its own *)
(* name goes from one of its namesakes to another.                         *)
LEMMA LoadFileKeeps ==
  ASSUME CacheInv, NEW p \in Process, NEW f \in File, LoadFile(p, f),
         TypeOK', OnlyDeletedUnlinked'
  PROVE  CacheInv'
<1> DEFINE d == run[p].db
<1>1. /\ run[p] \in RunState /\ run[p].pc = "loading" /\ f \in run[p].todo
      /\ d \in Inode /\ TableOf \in [File -> Table]
      /\ tables \in [Inode -> [Table -> File \cup {NoFile}]]
  BY FileAssumption DEF CacheInv, TypeOK, WellFormed, RunState, LoadFile, Opened
<1>2. UNCHANGED <<session, disk, chat>>
  BY DEF LoadFile
<1>3. /\ run'[p].db = d /\ run'[p].files = run[p].files /\ run'[p].todo = run[p].todo \ {f}
      /\ \A q \in Process \ {p} : run'[q] = run[q]
  BY DEF LoadFile, CacheInv, TypeOK, RunState
<1>4. tables'[d][TableOf[f]] \in Namesakes(f)
  <2>1. CASE CacheHit(p, f)
    <3>1. tables' = tables /\ tables[d][TableOf[f]] # NoFile
      BY <2>1 DEF LoadFile, CacheHit
    <3>2. tables[d][TableOf[f]] \in File
      BY <1>1, <3>1
    <3>3. TableOf[tables[d][TableOf[f]]] = TableOf[f]
      BY <1>1, <3>1 DEF CacheInv, TablesNamed
    <3> QED BY <3>1, <3>2, <3>3, NamesakesOf
  <2>2. CASE ~CacheHit(p, f)
    BY <1>1, <2>2, NamesakesOf DEF LoadFile
  <2> QED BY <2>1, <2>2
<1>5. \A i \in Inode, t \in Table : tables'[i][t] = tables[i][t] \/ (i = d /\ t = TableOf[f])
  <2>1. tables' = tables \/ tables' = [tables EXCEPT ![d][TableOf[f]] = f]
    BY DEF LoadFile
  <2> QED BY <1>1, <2>1
<1>6. ASSUME NEW i \in Inode, NEW g \in File, tables[i][TableOf[g]] \in Namesakes(g)
      PROVE  tables'[i][TableOf[g]] \in Namesakes(g)
  <2>1. TableOf[g] \in Table
    BY <1>1
  <2>2. CASE TableOf[g] = TableOf[f] /\ i = d
    BY <1>4, <2>2, NamesakesOf
  <2>3. CASE ~(TableOf[g] = TableOf[f] /\ i = d)
    BY <1>5, <1>6, <2>1, <2>3
  <2> QED BY <2>2, <2>3
<1>7. TablesNamed'
  <2> SUFFICES ASSUME NEW i \in Inode, NEW t \in Table, tables'[i][t] # NoFile
               PROVE  TableOf[tables'[i][t]] = t
    BY DEF TablesNamed
  <2> QED BY <1>4, <1>5 DEF CacheInv, TablesNamed, Namesakes
<1>8. LoadedSoFar'
  <2> SUFFICES ASSUME NEW q \in Process, run'[q].pc \in Opened,
                      NEW g \in run'[q].files \ run'[q].todo
               PROVE  tables'[run'[q].db][TableOf[g]] \in Namesakes(g)
    BY DEF LoadedSoFar
  <2>1. run'[q].db = run[q].db /\ run'[q].files = run[q].files /\ run[q].pc \in Opened
    BY <1>1, <1>3 DEF Opened
  <2>2. run[q] \in RunState /\ run[q].db \in Inode
    BY <2>1 DEF CacheInv, TypeOK, WellFormed, RunState
  <2>3. g \in File
    BY <2>1, <2>2 DEF RunState
  <2>4. CASE g \notin run[q].todo
    <3>1. tables[run[q].db][TableOf[g]] \in Namesakes(g)
      BY <2>1, <2>4 DEF CacheInv, LoadedSoFar
    <3> QED BY <1>6, <2>1, <2>2, <2>3, <3>1
  <2>5. CASE g \in run[q].todo
    BY <1>3, <1>4, <2>5
  <2> QED BY <2>4, <2>5
<1>9. OpenedIsOnDisk'
  <2>1. \A q \in Process : run'[q].db = run[q].db /\ (run'[q].pc \in Opened => run[q].pc \in Opened)
    BY <1>1, <1>3 DEF Opened
  <2> QED BY <1>2, <2>1 DEF CacheInv, OpenedIsOnDisk
<1>10. RecordedIsCached'
  <2> SUFFICES ASSUME chat = "open", NEW g \in session.processed
               PROVE  disk # NoDb /\ tables'[disk][TableOf[g]] \in Namesakes(g)
    BY <1>2 DEF RecordedIsCached
  <2>1. disk # NoDb /\ tables[disk][TableOf[g]] \in Namesakes(g)
    BY DEF CacheInv, RecordedIsCached
  <2>2. disk \in Inode /\ g \in File
    BY <2>1 DEF CacheInv, TypeOK
  <2> QED BY <1>6, <2>1, <2>2
<1> QED BY <1>7, <1>8, <1>9, <1>10 DEF CacheInv

LEMMA SaveKeeps ==
  ASSUME CacheInv, NEW p \in Process, SaveConversation(p), TypeOK', OnlyDeletedUnlinked'
  PROVE  CacheInv'
<1>1. /\ run[p].pc = "saving" /\ run[p].todo = {} /\ run[p].db # NoDb
      /\ UNCHANGED <<disk, tables, chat>> /\ session'.processed = run[p].files
  BY DEF CacheInv, TypeOK, WellFormed, SaveConversation, Opened
<1>2. \A q \in Process : /\ run'[q].db = run[q].db /\ run'[q].files = run[q].files
                         /\ run'[q].todo = run[q].todo
                         /\ run'[q].pc \in Opened => run[q].pc \in Opened
  BY DEF SaveConversation, CacheInv, TypeOK, RunState, Opened
<1>3. TablesNamed'
  BY <1>1 DEF CacheInv, TablesNamed
<1>4. LoadedSoFar'
  BY <1>1, <1>2 DEF CacheInv, LoadedSoFar
<1>5. OpenedIsOnDisk'
  BY <1>1, <1>2 DEF CacheInv, OpenedIsOnDisk
<1>6. RecordedIsCached'
  <2> SUFFICES ASSUME chat = "open", NEW f \in run[p].files
               PROVE  disk # NoDb /\ tables[disk][TableOf[f]] \in Namesakes(f)
    BY <1>1 DEF RecordedIsCached
  <2>1. run[p].db = disk
    BY <1>1 DEF CacheInv, OpenedIsOnDisk, Opened
  <2> QED BY <1>1, <2>1 DEF CacheInv, LoadedSoFar, Opened
<1> QED BY <1>3, <1>4, <1>5, <1>6 DEF CacheInv

LEMMA CacheStep == CacheInv /\ [Next]_vars => CacheInv'
<1> SUFFICES ASSUME CacheInv, [Next]_vars PROVE CacheInv'
  OBVIOUS
<1>1. TypeOK' /\ OnlyDeletedUnlinked'
  BY TypeStep, UnlinkedStep DEF CacheInv
<1>2. TypeOK
  BY DEF CacheInv
<1>3. ASSUME NEW p \in Process, NEW S \in SUBSET File,
             \/ UNCHANGED vars \/ Ask(S) \/ DeleteChat \/ DeleteAllChats
             \/ StartAsked \/ StartCommandLine(p, S)
             \/ AcquireLock(p) \/ LockTimesOut(p) \/ ConnectRefused(p) \/ Fail(p) \/ Finish(p)
             \/ UnlinkLock \/ Crash(p)
      PROVE  CacheInv'
  BY <1>1, <1>2, <1>3, QuietSteps, QuietKeeps
<1>4. ASSUME NEW p \in Process,
             Connect(p) \/ (\E f \in File : LoadFile(p, f)) \/ SaveConversation(p)
      PROVE  CacheInv'
  BY <1>1, <1>4, ConnectKeeps, LoadFileKeeps, SaveKeeps
<1>5. CASE ServeCleanup \/ UnlinkDb
  BY <1>1, <1>5, CleanupKeeps
<1>6. {} \in SUBSET File /\ Server \in Process
  BY ProcessAssumption
<1> QED BY <1>3, <1>4, <1>5, <1>6, QuestionAssumption DEF Next, RunStep

(* An answer is computed from tables that are there and were loaded from   *)
(* the files of its request, or from files of the same table name, in      *)
(* every interleaving of runs, deletions and crashes.                      *)
THEOREM AnswersSafe == Spec => []AnswersFromItsFiles
<1>1. CacheInv => AnswersFromItsFiles
  BY DEF CacheInv, TypeOK, WellFormed, LoadedSoFar, AnswersFromItsFiles, Opened
<1> QED BY CacheInit, CacheStep, <1>1, PTL DEF Spec

(* What Postgres records of an open chat is in its database file, whether  *)
(* or not table names tell files apart.                                    *)
THEOREM RecordSafe == Spec => []RecordedIsCached
<1>1. CacheInv => RecordedIsCached
  BY DEF CacheInv
<1> QED BY CacheInit, CacheStep, <1>1, PTL DEF Spec

-----------------------------------------------------------------------------
(* Files that no row names *)


(* Only connect puts a file under the name, only a cleanup deletes a row.  *)
LEMMA NamedBy ==
  ASSUME [Next]_vars
  PROVE  /\ disk' # NoDb => disk' = disk \/ \E p \in Process : Connect(p)
         /\ session.exists => session'.exists \/ ServeCleanup
<1>1. ASSUME NEW p \in Process, RunStep(p) \/ Crash(p)
      PROVE  (disk' = disk \/ Connect(p)) /\ (session.exists => session'.exists)
  <2>1. CASE Connect(p)
    BY <2>1 DEF Connect
  <2>2. CASE SaveConversation(p)
    BY <2>2 DEF SaveConversation
  <2>3. CASE \E f \in File : LoadFile(p, f)
    BY <2>3 DEF LoadFile
  <2>4. CASE \/ AcquireLock(p) \/ LockTimesOut(p) \/ ConnectRefused(p) \/ Fail(p) \/ Finish(p)
             \/ Crash(p)
    BY <2>4 DEF AcquireLock, LockTimesOut, ConnectRefused, Fail, Finish, Crash
  <2> QED BY <1>1, <2>1, <2>2, <2>3, <2>4 DEF RunStep
<1>2. CASE UnlinkDb
  BY <1>2 DEF UnlinkDb
<1>3. CASE ServeCleanup
  BY <1>3 DEF ServeCleanup
<1>4. CASE UnlinkLock \/ DeleteChat \/ DeleteAllChats \/ StartAsked \/ UNCHANGED vars
  BY <1>4 DEF UnlinkLock, DeleteChat, DeleteAllChats, StartAsked, vars
<1>5. ASSUME NEW S \in Question, Ask(S) \/ \E p \in Process : StartCommandLine(p, S)
      PROVE  disk' = disk /\ session' = session
  BY <1>5 DEF Ask, StartCommandLine
<1> QED BY <1>1, <1>2, <1>3, <1>4, <1>5 DEF Next

(* A process with work on its database is moved by its own steps.          *)
LEMMA Undisturbed ==
  ASSUME TypeOK, [Next]_vars, NEW p \in Process, run[p].pc \in {"loading", "saving", "unlinkDb"}
  PROVE  \/ run'[p] = run[p]
         \/ (\E f \in File : LoadFile(p, f)) \/ SaveConversation(p)
         \/ Fail(p) \/ Crash(p) \/ UnlinkDb
<1>1. CASE UNCHANGED run
  BY <1>1
<1>2. ASSUME NEW q \in Process, NEW S, Start(q, S) PROVE run'[p] = run[p]
  BY <1>2 DEF Start, TypeOK
<1>3. ASSUME NEW q \in Process,
             AcquireLock(q) \/ LockTimesOut(q) \/ Connect(q) \/ ConnectRefused(q) \/ Finish(q)
      PROVE  run'[p] = run[p]
  <2>1. q # p
    BY <1>3 DEF AcquireLock, LockTimesOut, Connect, ConnectRefused, Finish
  <2> QED BY <1>3, <2>1
             DEF AcquireLock, LockTimesOut, Connect, ConnectRefused, Finish, CloseWorkspace, TypeOK
<1>4. ASSUME NEW q \in Process \ {p},
             (\E f \in File : LoadFile(q, f)) \/ SaveConversation(q) \/ Fail(q) \/ Crash(q)
      PROVE  run'[p] = run[p]
  BY <1>4 DEF LoadFile, SaveConversation, Fail, Crash, CloseWorkspace, TypeOK
<1>5. CASE ServeCleanup \/ UnlinkLock
  <2>1. Server # p
    BY <1>5 DEF ServeCleanup, UnlinkLock
  <2> QED BY <1>5, <2>1 DEF ServeCleanup, UnlinkLock, TypeOK
<1>6. ASSUME NEW q \in Process, RunStep(q) \/ Crash(q)
      PROVE  \/ run'[p] = run[p]
             \/ (\E f \in File : LoadFile(p, f)) \/ SaveConversation(p)
             \/ Fail(p) \/ Crash(p)
  BY <1>3, <1>4, <1>6 DEF RunStep
<1> QED
  BY <1>1, <1>2, <1>5, <1>6, ProcessAssumption
     DEF Next, vars, Ask, DeleteChat, DeleteAllChats, StartAsked, StartCommandLine

(* A process that works on the file under the name records it in the end,  *)
(* if it neither fails nor dies.                                           *)
LEMMA GoesOn ==
  ASSUME TypeOK, [Next]_vars, NEW p \in Process, ~Fail(p), ~Crash(p),
         run[p].pc \in {"loading", "saving"}
  PROVE  \/ run'[p].pc \in {"loading", "saving"} /\ run'[p].db = run[p].db
         \/ session'.exists
         \/ disk' = NoDb
<1>1. ASSUME NEW f \in File, LoadFile(p, f)
      PROVE  run'[p].pc \in {"loading", "saving"} /\ run'[p].db = run[p].db
  BY <1>1 DEF LoadFile, TypeOK, RunState
<1>2. CASE SaveConversation(p)
  BY <1>2 DEF SaveConversation
<1>3. CASE UnlinkDb
  BY <1>3 DEF UnlinkDb
<1>4. CASE run'[p] = run[p]
  BY <1>4
<1> QED BY <1>1, <1>2, <1>3, <1>4, Undisturbed

LEMMA OrphanStep ==
  ASSUME TypeOK, [Next]_vars, ~Orphaned, \A p \in Process : ~Fail(p) /\ ~Crash(p)
  PROVE  ~Orphaned'
<1> SUFFICES ASSUME Orphaned' PROVE FALSE
  OBVIOUS
<1>1. /\ disk' # NoDb /\ ~session'.exists /\ run'[Server].pc # "unlinkDb"
      /\ \A p \in Process : run'[p].pc \in {"loading", "saving"} => run'[p].db # disk'
  BY DEF Orphaned
<1>2. ASSUME NEW p \in Process, Connect(p) PROVE FALSE
  <2>1. PICK i \in Inode :
         /\ disk' = i
         /\ run' = [run EXCEPT ![p].pc = "loading", ![p].todo = run[p].files, ![p].db = i,
                               ![p].known = IF run[p].exists THEN session.processed ELSE {}]
    BY <1>2 DEF Connect
  <2>2. run'[p].pc = "loading" /\ run'[p].db = disk'
    BY <2>1 DEF TypeOK, RunState
  <2> QED BY <1>1, <2>2
<1>3. disk' = disk /\ disk # NoDb
  BY <1>1, <1>2, NamedBy
<1>4. CASE session.exists
  <2>1. ServeCleanup
    BY <1>1, <1>4, NamedBy
  <2>2. run'[Server].pc = "unlinkDb"
    BY <1>4, <2>1, ProcessAssumption DEF ServeCleanup, TypeOK, RunState
  <2> QED BY <1>1, <2>2
<1>5. CASE run[Server].pc = "unlinkDb"
  <2>1. ~UnlinkDb
    BY <1>1 DEF UnlinkDb
  <2>2. run'[Server] = run[Server]
    BY <1>5, <2>1, Undisturbed, ProcessAssumption DEF LoadFile, SaveConversation
  <2> QED BY <1>1, <1>5, <2>2
<1>6. ASSUME NEW p \in Process, run[p].pc \in {"loading", "saving"}, run[p].db = disk PROVE FALSE
  BY <1>1, <1>3, <1>6, GoesOn
<1> QED BY <1>3, <1>4, <1>5, <1>6 DEF Orphaned

(* A database file that no cleanup will find is left by a failed load or a *)
(* process that died, and in no other way, whoever works on the chat when  *)
(* it is deleted.                                                          *)
THEOREM OrphansSafe == Spec => OrphansComeFromFaults
<1>1. TypeOK /\ [Next]_vars => [Orphaned' => Orphaned \/ \E p \in Process : Fail(p) \/ Crash(p)]_vars
  BY OrphanStep
<1> QED BY <1>1, TypeCorrect, PTL DEF Spec, OrphansComeFromFaults

-----------------------------------------------------------------------------
(* The promise *)


(* A database file is open in one process. *)
OneDb == \A p, q \in Process : run[p].db # NoDb /\ run[p].db = run[q].db => p = q

(* A process loads its own files. *)
LoadsItsOwn == \A p \in Process : run[p].todo \subseteq run[p].files

PromiseInv == LockInv /\ CacheInv /\ OneDb /\ LoadsItsOwn

LEMMA PromiseInvInit == Init => PromiseInv
BY LockInit, CacheInit DEF PromiseInv, Init, OneDb, LoadsItsOwn, Idle

(* Only connect opens a database and only it makes a list of files. *)
LEMMA Closing ==
  ASSUME OneDb, LoadsItsOwn, NEW p \in Process, NEW r, TypeOK, run' = [run EXCEPT ![p] = r],
         r.db \in {run[p].db, NoDb}, r.todo \subseteq r.files
  PROVE  OneDb' /\ LoadsItsOwn'
BY DEF TypeOK, OneDb, LoadsItsOwn

LEMMA OneDbStep ==
  ASSUME PromiseInv, [Next]_vars PROVE OneDb' /\ LoadsItsOwn'
<1>1. TypeOK /\ OneDb /\ LoadsItsOwn /\ Server \in Process
  BY ProcessAssumption DEF PromiseInv, LockInv
<1>2. CASE UNCHANGED run
  BY <1>1, <1>2 DEF OneDb, LoadsItsOwn
<1>3. ASSUME NEW p \in Process, run' = [run EXCEPT ![p] = Idle] PROVE OneDb' /\ LoadsItsOwn'
  <2>1. Idle.db = NoDb /\ Idle.todo \subseteq Idle.files
    BY DEF Idle
  <2> QED BY <1>1, <1>3, <2>1, Closing
<1>4. ASSUME NEW p \in Process, NEW S, Start(p, S) PROVE OneDb' /\ LoadsItsOwn'
  <2> DEFINE r == [Idle EXCEPT !.pc = "acquiring", !.files = S]
  <2>1. r.db = NoDb /\ r.todo \subseteq r.files /\ run' = [run EXCEPT ![p] = r]
    BY <1>4 DEF Start, Idle
  <2> HIDE DEF r
  <2> QED BY <1>1, <2>1, Closing
<1>5. ASSUME NEW p \in Process, NEW f \in File, LoadFile(p, f) PROVE OneDb' /\ LoadsItsOwn'
  <2> DEFINE c == IF run[p].todo = {f} THEN "saving" ELSE run[p].pc
             r == [run[p] EXCEPT !.todo = run[p].todo \ {f}, !.pc = c]
  <2>1. run' = [run EXCEPT ![p] = r] /\ run[p] \in RunState
    BY <1>1, <1>5 DEF LoadFile, TypeOK
  <2> HIDE DEF c
  <2>2. r.db = run[p].db /\ r.todo \subseteq r.files
    BY <1>1, <2>1 DEF RunState, LoadsItsOwn
  <2> HIDE DEF r
  <2> QED BY <1>1, <2>1, <2>2, Closing
<1>6. ASSUME NEW p \in Process,
             \/ AcquireLock(p) \/ SaveConversation(p)
             \/ p = Server /\ (ServeCleanup \/ UnlinkDb)
      PROVE  OneDb' /\ LoadsItsOwn'
  <2>1. \A q \in Process : /\ run'[q].db = run[q].db /\ run'[q].todo = run[q].todo
                           /\ run'[q].files = run[q].files
    BY <1>1, <1>6 DEF AcquireLock, SaveConversation, ServeCleanup, UnlinkDb, TypeOK, RunState
  <2> QED BY <1>1, <2>1 DEF OneDb, LoadsItsOwn
<1>7. ASSUME NEW p \in Process, Connect(p) PROVE OneDb' /\ LoadsItsOwn'
  <2>1. PICK i \in Inode :
         /\ ~InUse(i)
         /\ run' = [run EXCEPT ![p].pc = "loading", ![p].todo = run[p].files, ![p].db = i,
                               ![p].known = IF run[p].exists THEN session.processed ELSE {}]
    BY <1>7 DEF Connect
  <2>2. run'[p].db = i /\ run'[p].todo = run'[p].files
    BY <1>1, <2>1 DEF TypeOK, RunState
  <2>3. \A q \in Process \ {p} : run'[q] = run[q] /\ run[q].db # i
    BY <1>1, <2>1 DEF TypeOK, InUse
  <2> QED BY <1>1, <2>2, <2>3 DEF OneDb, LoadsItsOwn
<1>8. ASSUME NEW p \in Process, RunStep(p) \/ Crash(p) PROVE OneDb' /\ LoadsItsOwn'
  BY <1>3, <1>5, <1>6, <1>7, <1>8
     DEF RunStep, LockTimesOut, ConnectRefused, Fail, Finish, Crash, CloseWorkspace
<1> QED
  BY <1>1, <1>2, <1>3, <1>4, <1>6, <1>8
     DEF Next, vars, Ask, DeleteChat, DeleteAllChats, StartAsked, StartCommandLine, UnlinkLock

LEMMA PromiseInvStep == PromiseInv /\ [Next]_vars => PromiseInv'
BY LockStep, CacheStep, OneDbStep DEF PromiseInv

-----------------------------------------------------------------------------
AbsStep == [Promise!AbsNext]_(Promise!absVars)

(* The tables of its files that the database of a process holds. *)
Reads(ts, r) == {t \in TablesOf(r.files) : r.db # NoDb /\ ts[r.db][t] # NoFile}

(* One process moves, the databases of the others are left alone. *)
LEMMA OneRun ==
  ASSUME TypeOK, NEW p \in Process, NEW r, run' = [run EXCEPT ![p] = r],
         \A q \in Process \ {p} : run[q].db # NoDb => tables'[run[q].db] = tables[run[q].db]
  PROVE  /\ Phases' = [Phases EXCEPT ![p] = Phase(r)]
         /\ Wanted' = [Wanted EXCEPT ![p] = TablesOf(r.files)]
         /\ Readable' = [Readable EXCEPT ![p] = Reads(tables', r)]
<1>1. run'[p] = r /\ \A q \in Process \ {p} : run'[q] = run[q]
  BY DEF TypeOK
<1>2. Phases' = [Phases EXCEPT ![p] = Phase(r)]
  <2>1. Phases' = [q \in Process |-> Phase(run'[q])]
    BY DEF Phases, Phase
  <2>2. \A q \in Process : Phase(run'[q]) = IF q = p THEN Phase(r) ELSE Phase(run[q])
    BY <1>1
  <2> QED BY <2>1, <2>2 DEF Phases
<1>3. Wanted' = [Wanted EXCEPT ![p] = TablesOf(r.files)]
  <2>1. \A q \in Process : run'[q].files = IF q = p THEN r.files ELSE run[q].files
    BY <1>1
  <2>2. Wanted' = [q \in Process |-> TablesOf(run'[q].files)]
    BY DEF Wanted, TablesOf
  <2>3. \A q \in Process : TablesOf(run'[q].files) = IF q = p THEN TablesOf(r.files)
                                                            ELSE TablesOf(run[q].files)
    BY <2>1
  <2> QED BY <2>2, <2>3 DEF Wanted
<1>4. Readable' = [q \in Process |-> Reads(tables', run'[q])]
  BY DEF Readable, Reads, Holds, Wanted, TablesOf
<1>5. Readable = [q \in Process |-> Reads(tables, run[q])]
  BY DEF Readable, Reads, Holds, Wanted
<1>6. \A q \in Process \ {p} : Reads(tables', run'[q]) = Reads(tables, run[q])
  BY <1>1 DEF Reads
<1>7. Reads(tables', run'[p]) = Reads(tables', r)
  BY <1>1
<1>8. Readable' = [Readable EXCEPT ![p] = Reads(tables', r)]
  BY <1>4, <1>5, <1>6, <1>7
<1> QED BY <1>2, <1>3, <1>8

LEMMA OneRunAlone ==
  ASSUME TypeOK, NEW p \in Process, NEW r, run' = [run EXCEPT ![p] = r], tables' = tables
  PROVE  /\ Phases' = [Phases EXCEPT ![p] = Phase(r)]
         /\ Wanted' = [Wanted EXCEPT ![p] = TablesOf(r.files)]
         /\ Readable' = [Readable EXCEPT ![p] = Reads(tables', r)]
<1>1. \A q \in Process \ {p} : run[q].db # NoDb => tables'[run[q].db] = tables[run[q].db]
  OBVIOUS
<1> QED BY <1>1, OneRun

LEMMA Stutters == ASSUME UNCHANGED vars \/ \E S \in Question : Ask(S) PROVE AbsStep
BY DEF vars, Ask, AbsStep, Promise!absVars, Phases, Phase, Wanted, TablesOf, Readable, Holds, Cached

LEMMA DeleteRefines == ASSUME DeleteChat \/ DeleteAllChats PROVE AbsStep
BY DEF DeleteChat, DeleteAllChats, AbsStep, Promise!AbsNext, Promise!Delete,
       Phases, Phase, Wanted, TablesOf, Readable, Holds, Cached

(* However a process ends. *)
LEMMA LeaveRefines ==
  ASSUME TypeOK, NEW p \in Process, run' = [run EXCEPT ![p] = Idle],
         UNCHANGED <<chat, session, disk, tables>>
  PROVE  AbsStep
<1>1. Phase(Idle) = "idle" /\ TablesOf(Idle.files) = {} /\ Reads(tables', Idle) = {}
  BY DEF Phase, Idle, Reads, TablesOf
<1>2. /\ Phases' = [Phases EXCEPT ![p] = "idle"]
      /\ Wanted' = [Wanted EXCEPT ![p] = {}]
      /\ Readable' = [Readable EXCEPT ![p] = {}]
  <2>1. /\ Phases' = [Phases EXCEPT ![p] = Phase(Idle)]
        /\ Wanted' = [Wanted EXCEPT ![p] = TablesOf(Idle.files)]
        /\ Readable' = [Readable EXCEPT ![p] = Reads(tables', Idle)]
    BY OneRunAlone
  <2> QED BY <1>1, <2>1
<1>3. Cached' = Cached
  BY DEF Cached, Holds
<1> QED BY <1>2, <1>3 DEF AbsStep, Promise!AbsNext, Promise!Leave

LEMMA StartRefines ==
  ASSUME TypeOK, NEW p \in Process, NEW S \in SUBSET File, Start(p, S),
         UNCHANGED <<chat, session, disk, tables>>
  PROVE  AbsStep
<1> DEFINE r == [Idle EXCEPT !.pc = "acquiring", !.files = S]
<1>1. run' = [run EXCEPT ![p] = r] /\ run[p].pc = "idle"
  BY DEF Start
<1>2. r.pc = "acquiring" /\ r.files = S /\ r.db = NoDb
  BY DEF Idle
<1> HIDE DEF r
<1>3. Phase(r) = "waiting" /\ Phase(run[p]) = "idle" /\ Reads(tables', r) = {}
  BY <1>1, <1>2 DEF Phase, Reads
<1>4. run[p].db = NoDb
  BY <1>1 DEF TypeOK, WellFormed, Opened
<1>5. /\ Phases' = [Phases EXCEPT ![p] = Phase(r)]
      /\ Wanted' = [Wanted EXCEPT ![p] = TablesOf(r.files)]
      /\ Readable' = [Readable EXCEPT ![p] = Reads(tables', r)]
  BY <1>1, OneRunAlone
<1>6. /\ Phases' = [Phases EXCEPT ![p] = "waiting"] /\ Phases[p] = "idle"
      /\ Wanted' = [Wanted EXCEPT ![p] = TablesOf(S)]
  BY <1>1, <1>2, <1>3, <1>5 DEF Phases
<1>7. Readable' = Readable
  <2>1. Readable' = [Readable EXCEPT ![p] = {}]
    BY <1>3, <1>5
  <2>2. Readable[p] = {}
    BY <1>4 DEF Readable, Holds
  <2> QED BY <2>1, <2>2 DEF Readable
<1>8. Cached' = Cached
  BY DEF Cached, Holds
<1>9. Promise!Ask(p, TablesOf(S))
  BY <1>6, <1>7, <1>8 DEF Promise!Ask
<1> QED BY <1>9, TablesOfFiles DEF AbsStep, Promise!AbsNext

(* Whoever is inside an open chat has the lock. *)
LEMMA AcquireRefines ==
  ASSUME PromiseInv, NEW p \in Process, AcquireLock(p) PROVE AbsStep
<1> DEFINE e == (disk # NoDb)
           r == [run[p] EXCEPT !.pc = "locked", !.exists = e]
<1>1. TypeOK /\ run[p] \in RunState /\ run[p].pc = "acquiring" /\ lock = Free
  BY DEF PromiseInv, LockInv, TypeOK, AcquireLock
<1>2. run' = [run EXCEPT ![p] = r]
  BY <1>1 DEF AcquireLock, TypeOK
<1> HIDE DEF e
<1>3. r.pc = "locked" /\ r.files = run[p].files /\ r.db = run[p].db
  BY <1>1 DEF RunState
<1> HIDE DEF r
<1>4. run[p].db = NoDb
  BY <1>1 DEF TypeOK, WellFormed, Opened
<1>5. UNCHANGED <<chat, session, disk, tables>>
  BY DEF AcquireLock
<1>6. Phase(r) = "inside" /\ Phase(run[p]) = "waiting" /\ Reads(tables', r) = {}
  BY <1>1, <1>3, <1>4 DEF Phase, Reads
<1>7. /\ Phases' = [Phases EXCEPT ![p] = Phase(r)]
       /\ Wanted' = [Wanted EXCEPT ![p] = TablesOf(r.files)]
       /\ Readable' = [Readable EXCEPT ![p] = Reads(tables', r)]
  BY <1>1, <1>2, <1>5, OneRunAlone
<1>8. Phases' = [Phases EXCEPT ![p] = "inside"] /\ Phases[p] = "waiting"
  BY <1>1, <1>6, <1>7 DEF Phases
<1>9. Wanted' = Wanted
  BY <1>3, <1>7 DEF Wanted
<1>10. Readable' = Readable
  <2>1. Readable' = [Readable EXCEPT ![p] = {}]
    BY <1>6, <1>7
  <2>2. Readable[p] = {}
    BY <1>4 DEF Readable, Holds
  <2> QED BY <2>1, <2>2 DEF Readable
<1>11. Cached' = Cached
  BY <1>5 DEF Cached, Holds
<1>12. ASSUME chat = "open", NEW q \in Process PROVE Phases[q] \in {"idle", "waiting"}
  <2>1. q \notin Inside
    BY <1>1, <1>12, ProcessAssumption DEF PromiseInv, LockInv, LockOwned
  <2> QED BY <2>1 DEF Inside, Holding, Phases, Phase
<1>13. Promise!Enter(p)
  BY <1>5, <1>8, <1>9, <1>10, <1>11, <1>12 DEF Promise!Enter
<1> QED BY <1>13 DEF AbsStep, Promise!AbsNext

(* A database that connect creates holds nothing, like the chat before.    *)
LEMMA ConnectRefines ==
  ASSUME PromiseInv, NEW p \in Process, Connect(p) PROVE AbsStep
<1>1. PICK i \in Inode :
       /\ ~InUse(i)
       /\ disk \in {i, NoDb}
       /\ disk' = i
       /\ tables' = IF disk = i THEN tables ELSE [tables EXCEPT ![i] = NoTables]
       /\ run' = [run EXCEPT ![p].pc = "loading", ![p].todo = run[p].files, ![p].db = i,
                             ![p].known = IF run[p].exists THEN session.processed ELSE {}]
  BY DEF Connect
<1> DEFINE k == IF run[p].exists THEN session.processed ELSE {}
           r == [run[p] EXCEPT !.pc = "loading", !.todo = run[p].files, !.db = i, !.known = k]
<1>2. /\ TypeOK /\ run[p] \in RunState /\ run[p].pc = "locked" /\ run[p].db = NoDb
      /\ tables \in [Inode -> [Table -> File \cup {NoFile}]] /\ i # NoDb
  BY InodeAssumption DEF PromiseInv, LockInv, TypeOK, WellFormed, Opened, Connect
<1>3. run' = [run EXCEPT ![p] = r]
  BY <1>1, <1>2 DEF TypeOK
<1> HIDE DEF k
<1>4. r.pc = "loading" /\ r.files = run[p].files /\ r.db = i
  BY <1>2 DEF RunState
<1> HIDE DEF r
<1>5. tables'[i] = IF disk = i THEN tables[i] ELSE NoTables
  BY <1>1, <1>2
<1>6. ASSUME NEW q \in Process \ {p}, run[q].db # NoDb
      PROVE  tables'[run[q].db] = tables[run[q].db]
  <2>1. run[q].db \in Inode /\ run[q].db # i
    BY <1>1, <1>2, <1>6 DEF TypeOK, RunState, InUse
  <2> QED BY <1>1, <1>2, <2>1
<1>7. /\ Phases' = [Phases EXCEPT ![p] = Phase(r)]
      /\ Wanted' = [Wanted EXCEPT ![p] = TablesOf(r.files)]
      /\ Readable' = [Readable EXCEPT ![p] = Reads(tables', r)]
  BY <1>2, <1>3, <1>6, OneRun
<1>8. Phases' = Phases /\ Phases[p] = "inside"
  <2>1. Phase(r) = "inside" /\ Phase(run[p]) = "inside"
    BY <1>2, <1>4 DEF Phase
  <2> QED BY <1>7, <2>1 DEF Phases
<1>9. Wanted' = Wanted /\ Wanted[p] = TablesOf(run[p].files)
  BY <1>4, <1>7 DEF Wanted
<1>10. \A t \in Table : NoTables[t] = NoFile
  BY DEF NoTables
<1>11. Cached = {t \in Table : tables'[i][t] # NoFile}
  <2>1. CASE disk = i
    BY <1>2, <1>5, <2>1 DEF Cached, Holds
  <2>2. CASE disk # i
    BY <1>1, <1>5, <1>10, <2>2 DEF Cached, Holds
  <2> QED BY <2>1, <2>2
<1>12. Cached' = Cached
  BY <1>1, <1>2, <1>11 DEF Cached, Holds
<1>13. Reads(tables', r) = Wanted[p] \cap Cached
  <2>1. TablesOf(run[p].files) \in SUBSET Table
    BY <1>2, TablesOfFiles DEF RunState
  <2> QED BY <1>2, <1>4, <1>9, <1>11, <2>1 DEF Reads
<1>14. Readable[p] = {}
  BY <1>2 DEF Readable, Holds
<1>15. Promise!Find(p)
  BY <1>7, <1>8, <1>9, <1>12, <1>13, <1>14 DEF Promise!Find, Connect
<1> QED BY <1>15 DEF AbsStep, Promise!AbsNext

(* Whether the file is reused or loaded, its table is there afterwards and *)
(* no other table comes or goes.                                           *)
LEMMA LoadRefines ==
  ASSUME PromiseInv, NEW p \in Process, NEW f \in File, LoadFile(p, f) PROVE AbsStep
<1> DEFINE c == IF run[p].todo = {f} THEN "saving" ELSE run[p].pc
           r == [run[p] EXCEPT !.todo = run[p].todo \ {f}, !.pc = c]
           d == run[p].db
<1>1. /\ TypeOK /\ run[p] \in RunState /\ run[p].pc = "loading" /\ d \in Inode /\ d # NoDb
      /\ f \in run[p].files /\ TableOf \in [File -> Table]
      /\ tables \in [Inode -> [Table -> File \cup {NoFile}]]
  BY FileAssumption, InodeAssumption
     DEF PromiseInv, LockInv, LoadsItsOwn, TypeOK, WellFormed, RunState, Opened, LoadFile
<1>2. run' = [run EXCEPT ![p] = r]
  BY <1>1 DEF LoadFile, TypeOK
<1>3. c \in {"loading", "saving"}
  BY <1>1
<1> HIDE DEF c
<1>4. r.pc \in {"loading", "saving"} /\ r.files = run[p].files /\ r.db = d
  BY <1>1, <1>3 DEF RunState
<1> HIDE DEF r
<1>5. \A t \in Table : tables'[d][t] # NoFile <=> t = TableOf[f] \/ tables[d][t] # NoFile
  <2>1. CASE CacheHit(p, f)
    BY <1>1, <2>1 DEF LoadFile, CacheHit
  <2>2. CASE ~CacheHit(p, f)
    BY <1>1, <2>2, FileAssumption DEF LoadFile
  <2> QED BY <2>1, <2>2
<1>6. \A i \in Inode \ {d} : tables'[i] = tables[i]
  <2>1. tables' = tables \/ tables' = [tables EXCEPT ![d][TableOf[f]] = f]
    BY DEF LoadFile
  <2> QED BY <1>1, <2>1
<1>7. ASSUME NEW q \in Process \ {p}, run[q].db # NoDb
      PROVE  tables'[run[q].db] = tables[run[q].db]
  <2>1. run[q].db \in Inode /\ run[q].db # d
    BY <1>1, <1>7 DEF TypeOK, RunState, PromiseInv, OneDb
  <2> QED BY <1>6, <2>1
<1>8. /\ Phases' = [Phases EXCEPT ![p] = Phase(r)]
      /\ Wanted' = [Wanted EXCEPT ![p] = TablesOf(r.files)]
      /\ Readable' = [Readable EXCEPT ![p] = Reads(tables', r)]
  BY <1>1, <1>2, <1>7, OneRun
<1>9. Phases' = Phases /\ Phases[p] = "inside"
  <2>1. Phase(r) = "inside" /\ Phase(run[p]) = "inside"
    BY <1>1, <1>4 DEF Phase
  <2> QED BY <1>8, <2>1 DEF Phases
<1>10. Wanted' = Wanted /\ Wanted[p] = TablesOf(run[p].files) /\ TableOf[f] \in Wanted[p]
  BY <1>1, <1>4, <1>8 DEF Wanted, TablesOf
<1>11. Readable' = [Readable EXCEPT ![p] = @ \cup {TableOf[f]}]
  <2>1. Readable[p] = {t \in Wanted[p] : tables[d][t] # NoFile}
    BY <1>1 DEF Readable, Holds
  <2>2. Wanted[p] \in SUBSET Table
    BY <1>1, <1>10, TablesOfFiles DEF RunState
  <2>3. Reads(tables', r) = {t \in Wanted[p] : tables'[d][t] # NoFile}
    BY <1>1, <1>4, <1>10 DEF Reads
  <2>4. Reads(tables', r) = Readable[p] \cup {TableOf[f]}
    BY <1>5, <1>10, <2>1, <2>2, <2>3
  <2> QED BY <1>8, <2>4
<1>12. disk' = disk /\ session' = session /\ chat' = chat
  BY DEF LoadFile
<1>13. CASE disk = d
  <2>1. Cached' = Cached \cup {TableOf[f]}
    BY <1>1, <1>5, <1>12, <1>13 DEF Cached, Holds
  <2>2. Promise!Load(p, TableOf[f])
    BY <1>9, <1>10, <1>11, <1>12, <2>1 DEF Promise!Load
  <2> QED BY <1>1, <2>2 DEF AbsStep, Promise!AbsNext
<1>14. CASE disk # d
  <2>1. chat # "open"
    BY <1>1, <1>14 DEF PromiseInv, CacheInv, OpenedIsOnDisk, Opened
  <2>2. disk \in Inode \cup {NoDb}
    BY <1>1 DEF TypeOK
  <2>3. Cached' = Cached
    BY <1>6, <1>12, <1>14, <2>2 DEF Cached, Holds
  <2>4. Promise!Load(p, TableOf[f])
    BY <1>9, <1>10, <1>11, <1>12, <2>1, <2>3 DEF Promise!Load
  <2> QED BY <1>1, <2>4 DEF AbsStep, Promise!AbsNext
<1> QED BY <1>13, <1>14

LEMMA SaveRefines ==
  ASSUME PromiseInv, NEW p \in Process, SaveConversation(p) PROVE AbsStep
<1> DEFINE r == [run[p] EXCEPT !.pc = "answering"]
<1>1. /\ TypeOK /\ run[p] \in RunState /\ run[p].pc = "saving" /\ run[p].db # NoDb
      /\ run[p].todo = {}
  BY DEF PromiseInv, LockInv, TypeOK, WellFormed, Opened, SaveConversation
<1>2. run' = [run EXCEPT ![p] = r]
  BY <1>1 DEF SaveConversation, TypeOK
<1>3. r.pc = "answering" /\ r.files = run[p].files /\ r.db = run[p].db
  BY <1>1 DEF RunState
<1> HIDE DEF r
<1>4. UNCHANGED <<chat, disk, tables>> /\ session'.processed = run[p].files
  BY DEF SaveConversation
<1>5. /\ Phases' = [Phases EXCEPT ![p] = Phase(r)]
      /\ Wanted' = [Wanted EXCEPT ![p] = TablesOf(r.files)]
      /\ Readable' = [Readable EXCEPT ![p] = Reads(tables', r)]
  BY <1>1, <1>2, <1>4, OneRunAlone
<1>6. Phases' = [Phases EXCEPT ![p] = "answering"] /\ Phases[p] = "inside"
  BY <1>1, <1>3, <1>5 DEF Phases, Phase
<1>7. Wanted' = Wanted /\ Wanted[p] = TablesOf(run[p].files)
  BY <1>3, <1>5 DEF Wanted
<1>8. Readable' = Readable
  <2>1. Reads(tables', r) = Readable[p]
    BY <1>3, <1>4, <1>7 DEF Reads, Readable, Holds
  <2> QED BY <1>5, <2>1 DEF Readable
<1>9. Cached' = Cached
  BY <1>4 DEF Cached, Holds
<1>10. \A t \in Wanted[p] : tables[run[p].db][t] # NoFile
  <2>1. \A f \in run[p].files : tables[run[p].db][TableOf[f]] \in Namesakes(f)
    BY <1>1 DEF PromiseInv, CacheInv, LoadedSoFar, Opened
  <2>2. run[p].files \subseteq File
    BY <1>1 DEF RunState
  <2> QED BY <1>7, <2>1, <2>2, NamesakesOf DEF TablesOf
<1>11. Wanted[p] \subseteq Readable[p]
  BY <1>1, <1>7, <1>10 DEF Readable, Holds
<1>12. chat = "open" => Wanted[p] \subseteq Cached
  <2>1. chat = "open" => run[p].db = disk
    BY <1>1 DEF PromiseInv, CacheInv, OpenedIsOnDisk, Opened
  <2>2. Wanted[p] \in SUBSET Table
    BY <1>1, <1>7, TablesOfFiles DEF RunState
  <2> QED BY <1>1, <1>10, <2>1, <2>2 DEF Cached, Holds
<1>13. Promise!Answer(p)
  <2>1. TablesOf(session.processed)' = Wanted[p]
    BY <1>4, <1>7 DEF TablesOf
  <2> QED BY <1>4, <1>6, <1>7, <1>8, <1>9, <1>11, <1>12, <2>1 DEF Promise!Answer
<1> QED BY <1>13 DEF AbsStep, Promise!AbsNext

(* The row and the file of a chat are given up only after the chat. *)
LEMMA CleanupRefines ==
  ASSUME PromiseInv, ServeCleanup \/ UnlinkDb PROVE AbsStep
<1>1. TypeOK /\ chat # "open" /\ UNCHANGED <<chat, tables>>
  BY DEF PromiseInv, LockInv, OnlyDeletedUnlinked, ServeCleanup, UnlinkDb
<1>2. \A q \in Process : /\ Phase(run'[q]) = Phase(run[q])
                         /\ run'[q].files = run[q].files /\ run'[q].db = run[q].db
  <2>1. run \in [Process -> RunState]
    BY <1>1 DEF TypeOK
  <2>2. \A q \in Process : \/ run'[q].pc = run[q].pc
                           \/ /\ run[q].pc \in {"idle", "unlinkDb"}
                              /\ run'[q].pc \in {"unlinkDb", "unlinkLock"}
    BY <2>1, ProcessAssumption DEF ServeCleanup, UnlinkDb, RunState
  <2>3. \A q \in Process : run'[q].files = run[q].files /\ run'[q].db = run[q].db
    BY <2>1, ProcessAssumption DEF ServeCleanup, UnlinkDb, RunState
  <2> QED BY <2>2, <2>3 DEF Phase
<1>3. Phases' = Phases
  <2>1. Phases' = [q \in Process |-> Phase(run'[q])]
    BY DEF Phases, Phase
  <2> QED BY <1>2, <2>1 DEF Phases
<1>4. Wanted' = Wanted /\ Readable' = Readable
  <2>1. Wanted' = [q \in Process |-> TablesOf(run'[q].files)]
    BY DEF Wanted, TablesOf
  <2>2. Wanted' = Wanted
    BY <1>2, <2>1 DEF Wanted
  <2> QED BY <1>1, <1>2, <2>2 DEF Readable, Holds
<1>5. CASE ServeCleanup
  <2>1. TablesOf(session.processed)' = {} /\ Cached' = Cached
    BY <1>5 DEF ServeCleanup, NoSession, Cached, Holds, TablesOf
  <2> QED BY <1>1, <1>3, <1>4, <2>1 DEF AbsStep, Promise!AbsNext, Promise!Forget
<1>6. CASE UnlinkDb
  <2>1. session' = session /\ Cached' = {}
    BY <1>6 DEF UnlinkDb, Cached, Holds
  <2> QED BY <1>1, <1>3, <1>4, <2>1 DEF AbsStep, Promise!AbsNext, Promise!Forget
<1> QED BY <1>5, <1>6

(* The cache of a chat keeps the promise of CachePromise, whether or not   *)
(* table names tell files apart: locks, inodes, crashes and the deletion   *)
(* under a run together let one process at a time into an open chat, take  *)
(* no cached table from it and let none answer without a table of its      *)
(* files.                                                                  *)
THEOREM Refinement == Spec => PromiseKept
<1>1. Init => Promise!AbsInit
  <2> SUFFICES ASSUME Init PROVE Promise!AbsInit
    OBVIOUS
  <2>1. Phases = [p \in Process |-> "idle"]
    BY DEF Init, Phases, Phase, Idle
  <2>2. Wanted = [p \in Process |-> {}]
    BY DEF Init, Wanted, TablesOf, Idle
  <2>3. Readable = [p \in Process |-> {}]
    BY <2>2 DEF Readable
  <2>4. Cached = {} /\ TablesOf(session.processed) = {}
    BY DEF Init, Cached, Holds, NoSession, TablesOf
  <2> QED BY <2>1, <2>2, <2>3, <2>4 DEF Init, Promise!AbsInit
<1>2. PromiseInv /\ [Next]_vars => [Promise!AbsNext]_(Promise!absVars)
  <2> SUFFICES ASSUME PromiseInv, [Next]_vars PROVE AbsStep
    BY DEF AbsStep
  <2>1. TypeOK /\ Server \in Process
    BY ProcessAssumption DEF PromiseInv, LockInv
  <2>2. CASE UNCHANGED vars \/ \E S \in Question : Ask(S)
    BY <2>2, Stutters
  <2>3. ASSUME NEW p \in Process,
               \/ LockTimesOut(p) \/ ConnectRefused(p) \/ Fail(p) \/ Finish(p) \/ Crash(p)
               \/ p = Server /\ UnlinkLock
        PROVE  AbsStep
    BY <2>1, <2>3, LeaveRefines
       DEF LockTimesOut, ConnectRefused, Fail, Finish, Crash, UnlinkLock, CloseWorkspace
  <2>4. ASSUME NEW p \in Process, NEW S \in Question, StartCommandLine(p, S) PROVE AbsStep
    BY <2>1, <2>4, StartRefines, QuestionAssumption DEF StartCommandLine
  <2>5. CASE StartAsked
    BY <2>1, <2>5, StartRefines DEF StartAsked, TypeOK
  <2>6. ASSUME NEW p \in Process, RunStep(p) PROVE AbsStep
    BY <2>3, <2>6, AcquireRefines, ConnectRefines, LoadRefines, SaveRefines DEF RunStep
  <2> QED
    BY <2>1, <2>2, <2>3, <2>4, <2>5, <2>6, DeleteRefines, CleanupRefines DEF Next
<1> QED BY <1>1, <1>2, PromiseInvInit, PromiseInvStep, PTL DEF Spec, PromiseKept, Promise!AbsSpec
=============================================================================
