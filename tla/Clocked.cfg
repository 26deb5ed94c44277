SPECIFICATION Spec
CONSTANTS
  MaxTime = 3
  Keys = {k1}
  Readers = {r1}
  Ttls = {0, 1}
  DiskSaveTime = 1
  MaxStores = 2
  MaxStarts = 3
  Callers = {c1, c2}
  CoolDownSec = 1
  Multiplier = 2
  MaxCalls = 4
  f1 = f1
  f2 = f2
  Threads = {t1, t2}
  Files = {f1, f2}
  FolderOf <- MCFolderOf
  TtlValues = {0, 1}
  Forever = 9
  MaxAsks = 3
INVARIANTS
  TypedRowsAreObjects
  RunsAreSpaced
  ClashesOverlap
PROPERTIES
  ExpiredGoes
  
  
  OldAnswerIsExplained
CHECK_DEADLOCK FALSE
