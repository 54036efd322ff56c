CONSTANTS
  Request = {r1, r2}
  Message = {m1, m2}
  Nobody = Nobody
  Room = 2
SPECIFICATION FairSpec
INVARIANTS TypeOK NothingLeftRunning DoneAfterSave LiveRunsAreCurrent
PROPERTIES PromiseKept BrowserHearsBack
CHECK_DEADLOCK FALSE
