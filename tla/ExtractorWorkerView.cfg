\* Loads that take up to the time limit; a page more than the queue holds, the view
\* and one to come.
SPECIFICATION Spec
CONSTANTS
  MaxQueueSize = 0
  Timeout = 3
  MaxCost = 3
  MaxPages = 4
  MaxTimers = 4
CHECK_DEADLOCK FALSE
INVARIANTS
  OneInOrder
  TimersExplained
PROPERTIES
  PromptPagesEnd
