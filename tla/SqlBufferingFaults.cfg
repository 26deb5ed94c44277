SPECIFICATION Spec
CONSTANTS
    bufferSize = 3
    PacketSize = 2
    maxTry     = 2
    Faults    <- AllFaults
    MaxRows    = 5
    MaxFaults  = 2
INVARIANTS
    
    InAppendOrder
    
