SPECIFICATION Spec
CONSTANTS
    NLamps = 1
    RtcTimes <- MCTwoRtcTimes
    BookedTimes <- MCNoBooking
    Key = key
    Strangers = {stranger}
    MaxTries = 2
    MaxCommands = 1
    MaxFaults = 2
    MaxInbox = 1
    MaxLate = 1
    Absent = Absent
INVARIANT TypeOK
INVARIANT DoorSafe
INVARIANT IRWithoutServo
INVARIANT NothingUnasked
INVARIANT ReportAgrees
PROPERTY IsRemoteSwitch
