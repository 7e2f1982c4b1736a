CONSTANTS
  c1 = c1
  c2 = c2
  p1 = p1
  b1 = b1
  b2 = b2
  Conns <- MCConns
  Publishers <- MCPublishers
  Boots <- MCBoots
  Scripts <- MCScripts
  MaxConnections = 2
  MaxFrames = 2
  MaxPublishers = 1
  Platforms <- MCSockets
  MaxFailures = 0
SPECIFICATION Spec
INVARIANTS RegistrationsOwned DeathIsFenced FencesDeserved RegistryAlive ClosedQuiet
SYMMETRY Interchangeable
