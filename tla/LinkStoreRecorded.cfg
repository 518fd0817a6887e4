SPECIFICATION Safety
CONSTANTS
  h = h
  a = a
  b = b
  Urls <- MCUrls
  Seeds <- MCSeeds
  Links <- MCLinks
  InitLinks <- MCHubTable
  MaxCrawlRetry = 1
  MaxLinkDepth = 1
  UpdateBatch = 2
  InsertBatch = 2
  MaxFaults = 0
  MaxContexts = 3
  MaxCount = 2
PROPERTIES
  CrawlRecorded
CHECK_DEADLOCK FALSE
