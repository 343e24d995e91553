SPECIFICATION VersionFairSpec
CONSTANTS
  N = 5
  Seats = 5
  Nobody = Nobody
INVARIANTS
  ReportIsTrue
  DeadlockIsReported
  NeighboursTakeTurns
PROPERTIES
  SomebodyEats
  DinnerEnds
