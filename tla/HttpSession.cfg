SPECIFICATION FairSpec
CONSTANTS
    QueueLimit  = 2
    Kinds      <- AllKinds
    MaxRequests = 4
INVARIANTS
    HeadIsBeingWritten
    Backpressure
    UnansweredIsExplained
    HandoverIsClean
PROPERTIES
    RepliesInOrder
    SilentPeerIsDropped
CHECK_DEADLOCK FALSE
