SPECIFICATION Spec
CONSTANTS
  ip1 = ip1
  ip2 = ip2
  home = home
  page = page
  other = other
  leaf = leaf
  moved = moved
  x1 = x1
  x2 = x2
  None = None
  Urls <- MCUrls
  Sites <- MCSites
  Ips <- MCIps
  Ctxs <- MCCtxs
  SiteOf <- MCSiteOf
  IpOf <- MCIpOf
  DepthOf <- MCDepthOf
  MaxUrlTableSize = 2
  MaxConnectQueue = 0
  Interval = 1
  FloatLimit = 2
INVARIANTS
  NoEmptyContext
  NoDanglingContext
  Politeness
PROPERTIES
  InTimeScheduled
  TableDrains
