SPECIFICATION DiscoverySpec
CONSTANTS
  none = none
  NoReference = none
  Documents <- FilePool
  References <- MCReferences
  Inputs <- MCInputs
  MaxRetries = 1
  BatchSize = 2
INVARIANTS
  NoFileLost
  ClassifiedAsItself
PROPERTY DiscoveryEnds
