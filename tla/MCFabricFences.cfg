CONSTANTS
  p1 = p1
  p2 = p2
  b1 = b1
  b2 = b2
  r1 = r1
  r2 = r2
  MaxSamples = 2
  Publishers <- MCPublishers
  Boots <- MCBoots
  Resources <- MCOneResource
  Levels <- MCSevere
  policy <- MCPolicy
  AtLeast = 2
  MaxAge = 0
  MaxEvidence = 1
  MaxPublishers = 1
  MaxGeneration = 1
  MaxSequence = 0
  Mints <- MCOnce
  MaxTick = 1
  MaxChanges = 2
  MaxFaults = 1
SPECIFICATION Spec
INVARIANTS TypeOK IInv FenceHolds EpochBound EpochFresh
SYMMETRY Incarnations
