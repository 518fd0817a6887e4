SPECIFICATION Spec
CONSTANTS
  sched = sched
  rpc = rpc
  c1 = c1
  c2 = c2
  None = None
  Producers <- MCProducers
  Throttled <- MCProducers
  FrontProducers <- MCFront
  Consumers <- MCConsumers
  BackConsumers <- MCBack
  MaxQueueSize = 1
  MaxPushes = 3
INVARIANTS
  PopNeverNull
  ThrottleBound
PROPERTIES
  ServesAsDeque
CHECK_DEADLOCK FALSE
