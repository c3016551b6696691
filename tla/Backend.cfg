SPECIFICATION Spec
CONSTANTS
  Handles = {h1, h2, h3}
  Weights = {v, w}
  Threads = {t1, t2}
  MaxLive = 4
  MovesMayFail = FALSE
INVARIANTS
  NothingLeaks
PROPERTIES
  BackendContract
CHECK_DEADLOCK FALSE
