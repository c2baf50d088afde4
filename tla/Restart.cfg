\* An operator stops and starts the agent while its configuration changes, in
\* two steps that others may overtake.
CONSTANTS
    NumTurns = 1
    MaxRetries = 0
    MaxTransient = 0
    Redispatches = {0}
    MaxGeneration = 3
    MaxFaults = 0
    Manifests = {m1, m2}
    Frames = {}
    Revocable = {}
    LegacyClients = FALSE
    Restarts = TRUE
SPECIFICATION Spec
PROPERTIES StopIsFinal
CHECK_DEADLOCK FALSE
