SPECIFICATION CliSpec
CONSTANTS
  c1 = c1
  c2 = c2
  n1 = n1
  w1 = w1
  Checkouts <- MCCheckouts
  NameOf <- MCNameOf
  Workers <- MCWorkers
  Url = Url
  Nothing = Nothing
  Latest = 1
  MaxIds = 3
  MaxInits = 2
  DrainPolls = 2
  MaxStarts = 1
INVARIANTS
  OneRegistration
  MarkerNamesItsRows
PROPERTY
  ShutdownEnds
CHECK_DEADLOCK FALSE
