SPECIFICATION FairSpec
CONSTANTS
  t1 = t1
  t2 = t2
  p1 = p1
  p2 = p2
  Tasks <- MCTasks
  Pools <- MCPools
  MaxConcurrency <- MCMaxConcurrency
  RequiredCapabilities <- MCRequired
  PoolCapabilities <- MCCapabilities
  Rank <- MCRank
  HardBlocks <- MCIndependent
  CandidateLimit = 2
  MaxAttempts = 1
  RequireFailureSummary = FALSE
  HeartbeatTimeoutAction = "fail_then_escalate"
  HasFailureSummary = FALSE
  OperatorActions = {"requeue", "pause", "automation"}
  MaxCrashes = 0
  MaxLeases = 2
INVARIANTS RetryBudget
PROPERTIES ReadyIsScheduled AssignmentResolved
