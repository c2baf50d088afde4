\* Two requests of one room, with retries.
CONSTANTS
    NumTurns = 2
    MaxRetries = 1
    MaxTransient = 0
    Redispatches = {0}
    MaxGeneration = 1
    MaxFaults = 0
    Manifests = {m1}
    Frames = {"ok"}
    Revocable = {}
    LegacyClients = FALSE
    Restarts = FALSE
SPECIFICATION Spec
INVARIANTS RoomOrder
PROPERTIES PromiseKept
CHECK_DEADLOCK FALSE
