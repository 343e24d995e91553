CONSTANTS
  Threads = {t1, t2}
  Pending = Pending
  Word = 5
  Bits <- MCBits
SPECIFICATION Spec
PROPERTY RefinesAtomicObject
CHECK_DEADLOCK FALSE
