\* A redirect with a cookie that does not fit the buffer of the next request.
SPECIFICATION Spec
CONSTANTS
  Responses <- MCResponses
  Units <- MCUnits
  Hex <- MCHex
  MaxRecv = 3
  MAX_HEAD_CMD_LEN = 8
  CookieSize <- MCCookieSize
  PageSizes <- MCPageSizes
  MaxRetry = 2
  MaxRedirectDepth = 1
CHECK_DEADLOCK FALSE
INVARIANTS
  RequestIsWithinLimit
