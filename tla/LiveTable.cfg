SPECIFICATION FairSpec
CONSTANTS
    Ids        <- ThreeIds
    Names       = {a, b}
    NoName      = NoName
    InitialIds <- TwoIds
    overlapSeconds = 1
    MaxTime     = 2
    MaxWrites   = 2
PROPERTIES
    NothingMissed
    LoadAllRepairs
    NeverBackwards
    Converges
