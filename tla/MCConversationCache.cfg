CONSTANTS
  f1 = f1
  f2 = f2
  f3 = f3
  t1 = t1
  t2 = t2
  File = {f1, f2, f3}
  Table = {t1, t2}
  NoFile = NoFile
  TableOf <- SharedTables
  Question <- Questions
  Process = {server, cli}
  Server = server
  Free = Free
  Inode = {i1, i2}
  NoDb = NoDb
  MaxCrashes = 2
SPECIFICATION FairSpec
INVARIANTS TypeOK AnswersFromItsFiles LockExcludes NoLockAtRest RecordedIsCached
PROPERTIES PromiseKept OrphansComeFromFaults ServerComesBack
CHECK_DEADLOCK FALSE
