CONSTANTS
  Program <- Programs
  Outcomes <- ProgramEnds
SPECIFICATION Spec
INVARIANTS OnlyRealOutcomes PairsLoseNothing
PROPERTY ExplorationEnds
CHECK_DEADLOCK FALSE
