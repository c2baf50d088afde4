\* One execution, two turns, one of them retried once, a revision and a crash.
CONSTANTS
    t1 = t1
    t2 = t2
    a1 = a1
    a2 = a2
    b1 = b1
    Requests <- MCRequests
    Attempts <- MCAttempts
    RequestOf <- MCRequestOf
    First = a1
    MaxNative = 2
    MaxRevision = 2
    MaxCrashes = 1
    Leavers <- MCLeavers
SPECIFICATION Spec
CHECK_DEADLOCK FALSE
INVARIANTS
    NoStaleProcess
    OneInvocationPerTurn
    WaitsForAStop
PROPERTIES
    LateProofSettles
    ExhaustedCloses
