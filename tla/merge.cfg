SPECIFICATION Spec
CONSTANTS
  t1 = t1
  t2 = t2
  v1 = v1
  v2 = v2
  Tasks <- MCTasks
  Priorities = {1, 2}
  ConflictPaths = {"src", "package.json"}
  ProtectedPaths = {"package.json"}
  MaxConflictFiles = 2
  Checks = {"test", "lint", "security"}
  RequiredChecks = {"test", "lint"}
  SecurityChecks = {"security"}
  CriticalCheckThreshold = 1
  AutoRevertOnCritical = TRUE
  UseAnalysisAgentOnHigh = TRUE
  PauseQueueOnCritical = TRUE
  ValidationRuns <- MCRuns
  MaxCrashes = 1
SYMMETRY MCSymmetry
INVARIANTS PhaseAgreement SingleVerdict MergedOnce
PROPERTIES LateResultsLeaveTask
