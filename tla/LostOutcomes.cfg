CONSTANTS
  Program <- Lossy
  Outcomes <- LossyEnds
SPECIFICATION Spec
INVARIANTS EveryOutcomeIsSeen
CHECK_DEADLOCK FALSE
