\* A lease is taken between what bump_generation reads and writes.
CONSTANTS
    NumTurns = 1
    MaxRetries = 0
    MaxTransient = 0
    Redispatches = {0}
    MaxGeneration = 2
    MaxFaults = 0
    Manifests = {m1, m2}
    Frames = {"reply"}
    Revocable = {}
    LegacyClients = FALSE
    Restarts = FALSE
SPECIFICATION Spec
INVARIANTS NoStaleLease
CHECK_DEADLOCK FALSE
