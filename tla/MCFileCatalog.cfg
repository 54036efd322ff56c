CONSTANTS
  f1 = f1
  f2 = f2
  File = {f1, f2}
  Conv = {c1}
  NoConv = NoConv
  Rank <- MCRank
  Limit = 2
  MaxFaults = 2
SPECIFICATION FairSpec
INVARIANTS TypeOK CondemnedIsRemoved
PROPERTIES HiddenOnlyOnRequest PromiseKept RemovedIsForgotten
