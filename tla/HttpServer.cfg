SPECIFICATION FairSpec
CHECK_DEADLOCK FALSE
CONSTANTS
  Ann = Ann
  Bob = Bob
  Devel = Devel
  Nobody = Nobody
  Anonymous = Anonymous
  a1 = a1
  b1 = b1
  d1 = d1
  Sids <- MCSids
  OldSids = {a1, b1}
  LiveSids = {a1}
  UserOf <- MCUserOf
  Admins = {Ann, Devel}
  WorkerCount = 2
  MaxRequests = 2
  Wrap = 6
INVARIANTS
  FreeNeverUnderstates
  StopTouchesLive
  RunsAsItsUser
  
PROPERTIES
  StopIsHeard
