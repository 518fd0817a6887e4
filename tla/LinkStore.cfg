SPECIFICATION Spec
CONSTANTS
  h = h
  a = a
  b = b
  Urls <- MCPair
  Seeds <- MCSeeds
  Links <- MCPairLinks
  InitLinks <- MCTables
  MaxCrawlRetry = 1
  MaxLinkDepth = 1
  UpdateBatch = 2
  InsertBatch = 2
  MaxContexts = 2
  MaxCount = 2
  MaxFaults = 1
INVARIANTS
  OneCrawlAtATime
  RetryBounded
  SelectedAccounted
  RecoverableAll
PROPERTIES
  CrawledIsFinal
  BatchesFlushed
CHECK_DEADLOCK FALSE
