SPECIFICATION Spec
CONSTANTS
  t1 = t1
  t2 = t2
  p1 = p1
  p2 = p2
  Tasks <- MCTasks
  Pools <- MCPools
  MaxConcurrency <- MCMaxConcurrency
  RequiredCapabilities <- MCRequired
  PoolCapabilities <- MCCapabilities
  Rank <- MCRank
  HardBlocks <- MCChain
  CandidateLimit = 1
  MaxAttempts = 2
  RequireFailureSummary = TRUE
  HeartbeatTimeoutAction = "retry_or_escalate"
  HasFailureSummary = FALSE
  OperatorActions = {"pause", "resume", "requeue", "force_unblock", "cancel", "mark_done", "reopen", "automation"}
  MaxCrashes = 1
  MaxLeases = 2
INVARIANTS TypeOK SingleActiveLease SoleLiveRun UnscheduledIsUnleased
PROPERTIES ResultFromCurrentLease ImplementsOwnership
