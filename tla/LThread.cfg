\* One owner who starts twice, a terminate, and two waits, one of them timed.
SPECIFICATION Spec
CONSTANTS
  owner = owner
  stopper = stopper
  w1 = w1
  w2 = w2
  Nobody = Nobody
  Starter = owner
  Terminator = stopper
  Waiters <- MCWaiters
  TimedWaiters <- MCTimedWaiters
  MaxStarts = 2
CHECK_DEADLOCK FALSE
INVARIANTS
  RunsNeverOverlap
  TrueMeansEnded
PROPERTIES
  WaitReturns
