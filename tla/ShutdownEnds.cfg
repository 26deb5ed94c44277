SPECIFICATION FairSpec
CONSTANTS
  t1 = t1
  t2 = t2
  NoOne = NoOne
  Threads = {t1, t2}
  Wakeups = {w1}
  Program <- EndProgram
  MaxCallbacks = 1
  MaxSignals = 2
  PipeCap = 1
  LoopSlotCount = 1
  Stuck = {1}
INVARIANTS
  LoopsAreNamed
PROPERTIES
  ShutdownEnds
  HandlerLossReported
