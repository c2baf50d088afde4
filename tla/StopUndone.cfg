\* A configuration change decided before a stop lands after it and lowers the
\* generation: the next stop is ordered below a start that is still under way.
CONSTANTS
    NumTurns = 1
    MaxRetries = 0
    MaxTransient = 0
    Redispatches = {0}
    MaxGeneration = 4
    MaxFaults = 0
    Manifests = {m1, m2}
    Frames = {}
    Revocable = {}
    LegacyClients = FALSE
    Restarts = TRUE
SPECIFICATION Spec
PROPERTIES EveryStopIsFinal
CHECK_DEADLOCK FALSE
