\* Two workers over one database, with passes that overlap: each marks the group.
CONSTANTS
    NumAgents = 3
    Callers = {1}
    MaxTurns = 4
    MaxRequests = 1
    MaxAsks = 1
    Outcomes = {"completed", "failed"}
    Workers = {w1, w2}
    Stoppable = {2}
    Overlaps = {"close", "sweep"}
SPECIFICATION Spec
INVARIANTS OneWakeUnlessExpired
CHECK_DEADLOCK FALSE
