CONSTANTS
  Question = {q1, q2}
  Nobody = Nobody
  MaxStates = 1
  Chunks = 2
  MaxCrashes = 0
SPECIFICATION Spec
INVARIANTS ShownIsLogged
CHECK_DEADLOCK FALSE
