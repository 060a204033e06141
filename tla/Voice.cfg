SPECIFICATION FairSpec
CONSTANTS
    Appliance <- MCAppliance
    MaxRequests = 3
    MaxBreaks = 2
    Absent = Absent
INVARIANT TypeOK
INVARIANT AnsweredInOrder
INVARIANT NeverTwice
PROPERTY EveryRequestAnswered
