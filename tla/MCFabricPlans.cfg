CONSTANTS
  p1 = p1
  p2 = p2
  b1 = b1
  b2 = b2
  r1 = r1
  r2 = r2
  MaxSamples = 2
  Publishers <- MCPublishers
  Boots <- MCOneBoot
  Resources <- MCOneResource
  Levels <- MCLevels
  policy <- MCPolicy
  AtLeast = 2
  MaxAge = 0
  MaxEvidence = 2
  MaxPublishers = 2
  MaxGeneration = 2
  MaxSequence = 2
  Mints <- MCCounting
  MaxTick = 2
  MaxChanges = 1
  MaxFaults = 0
SPECIFICATION Spec
INVARIANT IntentsBound
PROPERTIES IntentsFallWithAuthority EvidenceNeverRegresses
