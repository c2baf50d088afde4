\* One caller and two peers; questions, closings and passes overlap as READ COMMITTED allows.
CONSTANTS
    NumAgents = 3
    Callers = {1}
    MaxTurns = 4
    MaxRequests = 1
    MaxAsks = 1
    Outcomes = {"completed", "failed"}
    Workers = {w1}
    Stoppable = {2}
    Overlaps = {"close", "sweep", "ask"}
SPECIFICATION FairSpec
INVARIANTS OneWakeUnlessRaced
PROPERTIES WakeSeesAll ClosedCallerIsWoken
CHECK_DEADLOCK FALSE
