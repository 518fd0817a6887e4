SPECIFICATION Spec
CONSTANTS
  u1 = u1
  u2 = u2
  u3 = u3
  None = None
  Urls <- MCThree
  MaxConcurrence = 1
  MaxRetry = 2
  MaxRedirectDepth = 1
  MaxConnectQueue = 1
  MaxExtractQueue = 0
INVARIANTS
  OneOwner
  SocketsOwned
  ConcAccounting
  ConcurrenceBound
  AttemptsBounded
PROPERTIES
  EveryUrlEnds
CHECK_DEADLOCK FALSE
