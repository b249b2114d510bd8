SPECIFICATION FairSpec
CONSTANTS
  t1 = t1
  t2 = t2
  p1 = p1
  p2 = p2
  Tasks <- MCT1
  Pools <- MCOnePool
  MaxConcurrency <- MCMaxConcurrency
  RequiredCapabilities <- MCRequired
  PoolCapabilities <- MCCapabilities
  Rank <- MCRank
  HardBlocks <- MCIndependent
  CandidateLimit = 1
  MaxAttempts = 2
  RequireFailureSummary = TRUE
  HeartbeatTimeoutAction = "retry_or_escalate"
  HasFailureSummary = FALSE
  OperatorActions = {}
  MaxCrashes = 1
  MaxLeases = 1
PROPERTIES TickSurvivesCrashes
