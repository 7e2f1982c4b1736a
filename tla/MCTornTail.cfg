CONSTANTS
  Keys <- MCKeys
  Domains <- MCDomains
  MaxDomains = 2
  MaxHistory = 1
  MaxJournal = 12
  MaxMutations = 2
  MaxCrashes = 1
  MaxFaults = 0
  MaxCheckpoints = 1
SPECIFICATION Spec
INVARIANT EveryTornTailCut
