SPECIFICATION Spec
CONSTANTS
    Appliance <- MCAppliance
    MaxRequests = 2
    MaxBreaks = 2
    Absent = Absent
INVARIANT SuccessMeansStored
