SPECIFICATION FairSpec
CONSTANTS
    Path = {lamp, air}
    Split = FALSE
    MidRead = FALSE
    MaxSegments = 3
    None = None
INVARIANT TypeOK
INVARIANT NoStrayReply
PROPERTY IsRtdbCall
PROPERTY EveryCallReturns
