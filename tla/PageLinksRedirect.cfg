\* A redirect to a path does not ask for that path.
SPECIFICATION LinkSpec
CONSTANTS
  MAX_URL_LEN  = 29
  MAX_SITE_LEN = 20
  MAX_PATH_LEN = 29
  MAX_PORT_LEN = 7
  Seeds <- MCSeeds
  Starts <- MCStarts
  Pieces <- MCPieces
  Tails <- MCTails
  MaxPieces = 3
CHECK_DEADLOCK FALSE
INVARIANTS
  RedirectAsksForThePath
