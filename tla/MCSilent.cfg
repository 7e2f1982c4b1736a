CONSTANTS
  MaxSamples = 2
  MaxResourceDepth = 2
  MaxResourcesPerPath = 4
  Unit = 1000
  Domain = 1
  Metrics <- MCMetrics
  Policies <- MCPolicies
  Candidates <- MCCandidates
  Observations <- MCObservations
  MaxPeers = 2
  MaxEvidence = 2
  MaxTick = 3
SPECIFICATION Spec
CONSTRAINT Explored
PROPERTY HealthyOnlyWhenCovered
