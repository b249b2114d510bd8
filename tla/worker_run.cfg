SPECIFICATION RunSpec
CONSTANTS
  t1 = t1
  repo = repo
  Tasks = {t1}
  Repository = repo
  MaxRuns = 2
  MaxCrashes = 1
  MaxCleanups = 1
  RetainFailed = TRUE
INVARIANTS
  CheckoutHasOneWorker
PROPERTIES
  WorkspaceOutlivesRun
  OnePacketPerSuccess
  SpawnEnds
CHECK_DEADLOCK FALSE
