\* Fourteen answers, cut anywhere, with one retry and one redirect; a page limit below
\* the size of a recv, and one above.
SPECIFICATION Spec
CONSTANTS
  Responses <- MCResponses
  Units <- MCUnits
  Hex <- MCHex
  MaxRecv = 3
  MAX_HEAD_CMD_LEN = 8
  CookieSize <- MCCookieSize
  PageSizes <- MCPageSizes
  MaxRetry = 2
  MaxRedirectDepth = 1
CHECK_DEADLOCK FALSE
INVARIANTS
  RequestIsOfTheUrl
  FieldsOfTheResponse
  PageIsText
  ChunkedIsWhole
