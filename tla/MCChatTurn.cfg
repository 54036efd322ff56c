CONSTANTS
  Question = {q1, q2}
  Nobody = Nobody
  MaxStates = 1
  Chunks = 2
  MaxCrashes = 1
SPECIFICATION FairSpec
INVARIANTS TypeOK PendingIsOpen UnansweredIsPending MemoryKeepsUp SavedIsWhole ShownIsComposed
PROPERTIES RunsRunOut TurnEnds ChatPromiseKept
CHECK_DEADLOCK FALSE
