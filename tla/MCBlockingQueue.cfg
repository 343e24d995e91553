SPECIFICATION Spec
CONSTANTS
  Workers = {w1, w2, w3}
  w1 = w1
  w2 = w2
  w3 = w3
  Main = Main
  Nobody = Nobody
  NoItem = NoItem
  Capacity = 2
  Prefill = 1
  OpsPerThread = 2
  Workloads <- AllWorkloads
INVARIANTS
  SlotsDisjoint
  CountersAgree
PROPERTIES
  RefinesFifo
  WakeupsAreLostOnlyFallingAsleep
CHECK_DEADLOCK FALSE
