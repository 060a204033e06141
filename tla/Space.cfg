SPECIFICATION FairWorkingSpec
CONSTANTS
    NLamps = 1
    RtcTimes <- MCRtcTimes
    BookedTimes <- MCNoBooking
    Key = key
    Strangers = {}
    MaxTries = 2
    MaxCommands = 2
    MaxFaults = 0
    MaxInbox = 2
    MaxLate = 0
    Absent = Absent
    MaxRequests = 2
    MaxBreaks = 0
INVARIANT LastIsStored
PROPERTY LastCommandWins
