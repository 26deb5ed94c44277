SPECIFICATION Spec
CONSTANTS
  t1 = t1
  t2 = t2
  NoOne = NoOne
  Threads = {t1, t2}
  Wakeups = {w1}
  Program <- RequestProgram
  MaxCallbacks = 1
  MaxSignals = 1
  PipeCap = 2
  LoopSlotCount = 1
  Stuck = {}
INVARIANTS
  LateRequestIsIgnored
