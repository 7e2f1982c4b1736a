CONSTANTS
  c1 = c1
  c2 = c2
  p1 = p1
  b1 = b1
  b2 = b2
  Conns <- MCConns
  Publishers <- MCPublishers
  Boots <- MCOneBoot
  Scripts <- MCFewScripts
  MaxConnections = 1
  MaxFrames = 2
  MaxPublishers = 1
  Platforms <- MCPlatforms
  MaxFailures = 1
SPECIFICATION FairSpec
INVARIANT TypeOK
PROPERTIES ShutdownEnds PublisherNeverHangs
