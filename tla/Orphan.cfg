\* A turn that closes inside its own ask_peer call.
CONSTANTS
    NumAgents = 2
    Callers = {1}
    MaxTurns = 4
    MaxRequests = 1
    MaxAsks = 1
    Outcomes = {"completed"}
    Workers = {w1}
    Stoppable = {}
    Overlaps = {"ask"}
SPECIFICATION FairSpec
PROPERTIES EveryCallerIsWoken
CHECK_DEADLOCK FALSE
