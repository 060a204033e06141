SPECIFICATION FairSpec
CONSTANTS
    M = 16
    Refresh = 12
    First = 2
    Margin = 1
    Widths = {2, 3}
    Latency = 1
    W = 16
    MinInterval = 5
    MaxPause = 2
    MaxSetup = 7
    Wait = 4
    MaxPass = 2
    Interval = 4
    MaxStep = 1
    Currents = {0, 3}
    Voltages = {100, 230}
    Least = 200
INVARIANT TypeOK
INVARIANT HeldUpShortly
INVARIANT OnTime
INVARIANT WidgetsAgree
PROPERTY PulseRight
PROPERTY RefreshKept
PROPERTY KeepsPulsing
PROPERTY SensorRests
PROPERTY Fresh
PROPERTY Recovers
PROPERTY GivenItsTime
PROPERTY RestOfTheLoop
