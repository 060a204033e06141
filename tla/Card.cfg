SPECIFICATION FairSpec
CONSTANTS
    Cards <- MCCards
    Key = "key"
    B = 3
    Levels = 2
    Depth <- MCDepth
    Uid <- MCUid
    MaxFaults = 1
INVARIANT TypeOK
INVARIANT ReadIsTrue
INVARIANT OneChosen
INVARIANT LoopEnds
PROPERTY VerdictRight
PROPERTY BothAreRead
