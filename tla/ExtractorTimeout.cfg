\* Loads that take up to the time limit and no longer, and a queue of one page: whose
\* timer fires?
SPECIFICATION Spec
CONSTANTS
  MaxQueueSize = 0
  Timeout = 3
  MaxCost = 3
  MaxPages = 4
  MaxTimers = 4
CHECK_DEADLOCK FALSE
PROPERTIES
  TimeoutIsThePages
