CONSTANTS
    t1 = t1
    t2 = t2
    a1 = a1
    a2 = a2
    b1 = b1
    Requests <- MCRequests
    Attempts <- MCAttempts
    RequestOf <- MCRequestOf
    First = a1
    MaxNative = 2
    MaxRevision = 1
    MaxCrashes = 0
    Leavers = {}
SPECIFICATION ReplaySpec
CHECK_DEADLOCK FALSE
PROPERTY
    EveryStopIsProved
