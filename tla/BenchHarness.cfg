SPECIFICATION FairSpec
CONSTANTS
  Workers = {w1, w2, w3}
  w1 = w1
  w2 = w2
  w3 = w3
  OpsPerThread = 2
INVARIANTS
  WorkTogether
  LocalsOutliveWorkers
PROPERTIES
  CallEnds
