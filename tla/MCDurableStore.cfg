CONSTANTS
  Keys <- MCKeys
  Domains <- MCDomains
  MaxDomains = 1
  MaxHistory = 1
  MaxJournal = 8
  MaxMutations = 3
  MaxCrashes = 2
  MaxFaults = 1
  MaxCheckpoints = 1
SPECIFICATION Spec
INVARIANTS IInv AckedValueSurvives AckedEntrySurvives HistoryInOrder OnlyCommittedApplied TornTailCut
PROPERTY StorePromise
