\* Three configuration changes around one lease.
CONSTANTS
    NumTurns = 1
    MaxRetries = 0
    MaxTransient = 0
    Redispatches = {0}
    MaxGeneration = 3
    MaxFaults = 0
    Manifests = {m1, m2, m3}
    Frames = {"reply", "draft", "started", "permit", "ok", "cancelled", "skipped", "transient", "permanent"}
    Revocable = {}
    LegacyClients = FALSE
    Restarts = FALSE
SPECIFICATION Spec
PROPERTIES GenerationNeverFalls
CHECK_DEADLOCK FALSE
