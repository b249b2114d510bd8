SPECIFICATION ReviewSpec
CONSTANTS
  t1 = t1
  lead = lead
  none = none
  Tasks <- MCTasks
  Reviewers <- MCReviewers
  Lead = lead
  None = none
  RoutingDecisions <- MCRoutingDecisions
  MaxReviewRounds = 2
  MaxCycles = 2
  MaxReruns = 1
INVARIANTS
  ApprovedByCurrentCycle
  ReviewRoundsBounded
  ReworkSeesItsRejection
CHECK_DEADLOCK FALSE
