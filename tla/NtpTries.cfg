SPECIFICATION Spec
CONSTANTS
    NLamps = 1
    RtcTimes <- MCTwoRtcTimes
    BookedTimes <- MCNoBooking
    Key = key
    Strangers = {stranger}
    MaxTries = 6
    MaxCommands = 0
    MaxFaults = 0
    MaxInbox = 1
    MaxLate = 0
    Absent = Absent
INVARIANT NtpUnreachable
