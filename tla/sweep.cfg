SPECIFICATION FairSweepSpec
CONSTANTS
  t1 = t1
  t2 = t2
  p1 = p1
  p2 = p2
  Tasks <- MCTasks
  Pools <- MCOnePool
  MaxConcurrency <- MCMaxConcurrency
  RequiredCapabilities <- MCRequired
  PoolCapabilities <- MCCapabilities
  Rank <- MCRank
  HardBlocks <- MCChain
  CandidateLimit = 2
  MaxAttempts = 1
  RequireFailureSummary = FALSE
  HeartbeatTimeoutAction = "retry_or_escalate"
  HasFailureSummary = FALSE
  OperatorActions = {"cancel", "mark_done"}
  MaxCrashes = 1
  MaxLeases = 2
PROPERTIES SweepLeavesFrozenTasks LostRunReclaimed
