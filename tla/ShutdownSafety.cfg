SPECIFICATION Spec
CONSTANTS
  t1 = t1
  t2 = t2
  NoOne = NoOne
  Threads = {t1, t2}
  Wakeups = {w1}
  Program <- SafetyProgram
  MaxCallbacks = 2
  MaxSignals = 0
  PipeCap = 1
  LoopSlotCount = 1
  Stuck = {}
INVARIANTS
  NoLostStop
  NoLostNotify
  OnStopRunsOnce
  StopIsExplained
PROPERTIES
  ReleasedIsOver
  CallsAsPromised
