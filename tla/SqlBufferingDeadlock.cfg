SPECIFICATION Spec
CONSTANTS
    bufferSize = 0
    PacketSize = 1
    maxTry     = 5
    Faults    <- DeadlockOnly
    MaxRows    = 2
    MaxFaults  = 1
INVARIANTS
    FlushedIsCommitted
