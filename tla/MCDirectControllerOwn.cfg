CONSTANTS
  Request = {r1, r2}
  Message = {m1, m2}
  Nobody = Nobody
  Room = 2
SPECIFICATION Spec
INVARIANTS OwnTerminal
CHECK_DEADLOCK FALSE
