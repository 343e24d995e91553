SPECIFICATION Spec
CONSTANTS
  Programs <- MCPrograms
INVARIANTS
  VerdictIsExact
  ResultsAreSc
  ResultsAreIncomparable
  EverySolutionIsCovered
PROPERTIES
  SearchProgresses
CHECK_DEADLOCK FALSE
