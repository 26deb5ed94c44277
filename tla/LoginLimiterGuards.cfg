SPECIFICATION Spec
CONSTANTS
  Ann = Ann
  ANN = ANN
  Bob = Bob
  Eve = Eve
  ann = ann
  bob = bob
  eve = eve
  Nobody = Nobody
  Requests = {r1, r2, r3}
  Ips = {i1, i2, i3}
  Emails <- MCEmails
  Keys = {ann, bob, eve}
  Normalize <- MCNormalize
  kMaxArgon2 = 2
  kIpFailMax = 1
  kEmailFailMax = 1
  kIpWindow = 1
  kEmailWindow = 1
  kInflightRetryAfterSec = 1
  TicksPerSec = 1
  MaxTime = 0
INVARIANTS
  GuardsAreCounted
  OneHashPerKey
SYMMETRY MCSymmetry
