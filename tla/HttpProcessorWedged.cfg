SPECIFICATION Spec
CONSTANTS
  u1 = u1
  u2 = u2
  u3 = u3
  None = None
  Urls <- MCThree
  MaxConcurrence = 1
  MaxRetry = 2
  MaxRedirectDepth = 0
  MaxConnectQueue = 1
  MaxExtractQueue = 0
PROPERTIES
  EveryContextEnds
CHECK_DEADLOCK FALSE
