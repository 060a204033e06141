SPECIFICATION Spec
CONSTANTS
    NLamps = 1
    RtcTimes <- MCTwoRtcTimes
    BookedTimes <- MCTwoBookings
    Key = key
    Strangers = {stranger}
    MaxTries = 2
    MaxCommands = 0
    MaxFaults = 0
    MaxInbox = 1
    MaxLate = 0
    Absent = Absent
PROPERTY CheckOutFromCheckOut
