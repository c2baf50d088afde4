\* One request, every frame an agent may send, both retry budgets.
CONSTANTS
    NumTurns = 1
    MaxRetries = 1
    MaxTransient = 1
    Redispatches = {0}
    MaxGeneration = 1
    MaxFaults = 0
    Manifests = {m1}
    Frames = {"reply", "draft", "started", "permit", "ok", "cancelled", "skipped", "transient", "permanent"}
    Revocable = {"member", "budget"}
    LegacyClients = FALSE
    Restarts = FALSE
SPECIFICATION Spec
INVARIANTS TypeOK AtMostOneAnswer RetryBudgets NoticeMeansExhausted
PROPERTIES TerminalIsFinal
CHECK_DEADLOCK FALSE
