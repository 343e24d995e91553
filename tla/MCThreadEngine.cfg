SPECIFICATION Spec
CONSTANTS
  NumThreads = 3
  Mutexes = {m1, m2}
  m2 = m2
  m1 = m1
  Conds = {c1}
  c1 = c1
  MaxOps = 3
  None = None
SYMMETRY Symmetry
INVARIANTS
  StepAsserts
  NoMissedWakeup
  SleepersListed
  CyclesReported
  StuckNeedsSleeper
CHECK_DEADLOCK FALSE
