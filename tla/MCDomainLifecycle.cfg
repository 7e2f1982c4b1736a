CONSTANTS
  MaxSamples = 3
  Policies <- MCPolicies
  MaxTick = 2
  SettleTicks = 1
  MaxChanges = 2
SPECIFICATION FairSpec
INVARIANTS TypeOK NoAuthorityWithoutEvidence
PROPERTIES RecoveryNeedsSamples NeverHealthyAtOnce EvidencePrevails
