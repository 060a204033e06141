SPECIFICATION FairSpec
CONSTANTS
    NLamps = 1
    RtcTimes <- MCTwoRtcTimes
    BookedTimes <- MCOneBooking
    Key = key
    Strangers = {}
    MaxTries = 2
    MaxCommands = 1
    MaxFaults = 2
    MaxInbox = 1
    MaxLate = 0
    Absent = Absent
PROPERTY Converges
PROPERTY DoorShutsAgain
