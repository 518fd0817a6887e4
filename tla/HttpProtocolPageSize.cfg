\* A page far beyond the limit, received in small pieces.
SPECIFICATION Spec
CONSTANTS
  Responses <- MCResponses
  Units <- MCUnits
  Hex <- MCHex
  MaxRecv = 3
  MAX_HEAD_CMD_LEN = 8
  CookieSize <- MCCookieSize
  PageSizes <- MCPageSizes
  MaxRetry = 2
  MaxRedirectDepth = 1
CHECK_DEADLOCK FALSE
INVARIANTS
  PageIsWithinLimit
