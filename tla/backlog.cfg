SPECIFICATION BacklogSpec
CONSTANTS
  none = none
  MaxTasks = 3
  MaxEdits = 2
  Projects = {"p"}
  Repositories = {"r1", "r2"}
  Refs = {"A", "B"}
  NoRef = none
  Requests <- MCRequests
  FollowUpSources = {"hotfix"}
  Batches <- MCBatches
  EdgeKinds <- MCEdgeKinds
INVARIANTS
  OnlyImportClosesCycles
  EdgesStayInRepository
PROPERTIES
  ImportAddsTheMissing
  BlockedIsReleased
CHECK_DEADLOCK FALSE
