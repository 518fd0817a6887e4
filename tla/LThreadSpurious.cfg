\* One start, and a wait without a time limit that is woken by nobody.
SPECIFICATION Spec
CONSTANTS
  owner = owner
  stopper = stopper
  w1 = w1
  w2 = w2
  Nobody = Nobody
  Starter = owner
  Terminator = stopper
  Waiters <- MCWaiters
  TimedWaiters <- MCTimedWaiters
  MaxStarts = 1
CHECK_DEADLOCK FALSE
INVARIANTS
  UntimedWaitsToTheEnd
