SPECIFICATION Spec
CONSTANTS
  MaxWire = 1
  MaxDrops = 1
  MaxVersion = 3
  Families <- MCFamilies
  OpenPages <- MCPages
  OpenForms <- MCForms
  OpenActions <- MCActions
  Moves <- MCMoves
  Entities <- MCEntities
  InitialStatuses <- MCInitialStatuses
PROPERTIES
  NoLostUpdate
  CancelledWorkWasAcknowledged
  CurrentRequestsAccepted
  ViewsConverge
CHECK_DEADLOCK FALSE
