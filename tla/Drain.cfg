\* Configuration changes drain the leases of the old generation.
CONSTANTS
    NumTurns = 1
    MaxRetries = 1
    MaxTransient = 0
    Redispatches = {0}
    MaxGeneration = 2
    MaxFaults = 0
    Manifests = {m1, m2}
    Frames = {"reply", "ok", "cancelled", "transient", "permanent"}
    Revocable = {}
    LegacyClients = FALSE
    Restarts = FALSE
SPECIFICATION FairSpec
PROPERTIES GenerationFence DrainEnds
CHECK_DEADLOCK FALSE
