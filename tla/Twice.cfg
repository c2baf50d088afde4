\* The worker gives a peer up while a closing that read the group before commits.
CONSTANTS
    NumAgents = 2
    Callers = {1}
    MaxTurns = 4
    MaxRequests = 1
    MaxAsks = 1
    Outcomes = {"completed"}
    Workers = {w1}
    Stoppable = {}
    Overlaps = {"close", "sweep"}
SPECIFICATION FairSpec
INVARIANTS OneWake
CHECK_DEADLOCK FALSE
