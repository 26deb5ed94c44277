SPECIFICATION FairSpec
CONSTANTS
    Ids        <- TwoIds
    Names       = {a, b, c}
    NoName      = NoName
    InitialIds <- TwoIds
    overlapSeconds = 1
    MaxTime     = 0
    MaxWrites   = 3
PROPERTIES
    RejectedIsRetried
