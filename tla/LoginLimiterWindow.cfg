SPECIFICATION FairSpec
CONSTANTS
  Ann = Ann
  ANN = ANN
  Bob = Bob
  Eve = Eve
  ann = ann
  bob = bob
  eve = eve
  Nobody = Nobody
  Requests = {r1, r2}
  Ips = {i1}
  Emails <- MCTwo
  Keys = {ann, bob}
  Normalize <- MCTwoNormalize
  kMaxArgon2 = 2
  kIpFailMax = 2
  kEmailFailMax = 1
  kIpWindow = 5
  kEmailWindow = 3
  kInflightRetryAfterSec = 1
  TicksPerSec = 2
  MaxTime = 6
INVARIANTS
  WindowsHold
  GuessesAreCapped
PROPERTIES
  RetryAfterIsEnough
  NothingStaysLocked
