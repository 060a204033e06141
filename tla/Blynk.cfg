SPECIFICATION FairSpec
CONSTANTS
    W = 10
    HeartBeat = 1
    Timeout = 2
    Retry = 1
    MaxPass = 1
    MaxDelay = 2
    MaxFaults = 2
    MaxRx = 1
INVARIANT TypeOK
INVARIANT LiveKept
INVARIANT DeadNoticed
PROPERTY Reconnects
