\* What the URL functions compute for links of a few pages, written in up to three
\* pieces, some too long for the buffers.
SPECIFICATION LinkSpec
CONSTANTS
  MAX_URL_LEN  = 29
  MAX_SITE_LEN = 20
  MAX_PATH_LEN = 29
  MAX_PORT_LEN = 7
  Seeds <- MCSeeds
  Starts <- MCStarts
  Pieces <- MCPieces
  Tails <- MCTails
  MaxPieces = 3
CHECK_DEADLOCK FALSE
INVARIANTS
  NormalizedIsNormal
  SignsAreStable
  SpellingsAgree
  PathIsResolved
  RelativeLinksStayHome
  MainDomainIsRegistered
