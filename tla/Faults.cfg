\* One request under crashes, broken sends, disconnections and shutdowns.
CONSTANTS
    NumTurns = 1
    MaxRetries = 1
    MaxTransient = 0
    Redispatches = {0}
    MaxGeneration = 1
    MaxFaults = 1
    Manifests = {m1}
    Frames = {"reply", "ok"}
    Revocable = {}
    LegacyClients = TRUE
    Restarts = FALSE
SPECIFICATION FairSpec
INVARIANTS OneLeasePerTurn
PROPERTIES EveryTurnSettles
CHECK_DEADLOCK FALSE
