SPECIFICATION FairSpec
CONSTANTS
  Workers = {w1, w2, w3}
  w1 = w1
  w2 = w2
  w3 = w3
  Main = Main
  NoItem = NoItem
  Capacity = 2
  Prefill = 2
  OpsPerThread = 2
  Workloads <- AllWorkloads
INVARIANTS
  SlotsExclusive
PROPERTIES
  RefinesFifo
  BalancedFinish
CHECK_DEADLOCK FALSE
