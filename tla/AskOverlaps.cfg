\* A second question under way while the turn of its caller closes.
CONSTANTS
    NumAgents = 3
    Callers = {1}
    MaxTurns = 4
    MaxRequests = 1
    MaxAsks = 1
    Outcomes = {"completed", "failed"}
    Workers = {w1}
    Stoppable = {2}
    Overlaps = {"close", "sweep", "ask"}
SPECIFICATION Spec
PROPERTIES WakeSeesEveryQuestion
CHECK_DEADLOCK FALSE
