\* A stop and a start while a request waits for its delivery.
CONSTANTS
    NumTurns = 1
    MaxRetries = 0
    MaxTransient = 0
    Redispatches = {0}
    MaxGeneration = 3
    MaxFaults = 0
    Manifests = {m1}
    Frames = {"reply"}
    Revocable = {}
    LegacyClients = FALSE
    Restarts = TRUE
SPECIFICATION FairSpec
PROPERTIES DeliveryIsAtLeastOnce
CHECK_DEADLOCK FALSE
