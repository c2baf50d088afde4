\* Two generations under every restart policy, one fault of any kind.
CONSTANTS
    MaxGeneration = 2
    MaxIntents = 3
    MaxFaults = 1
    Policies <- EveryPolicy
SPECIFICATION Spec
INVARIANTS OneProcess EveryProcessIsReachable TombstoneHolds
CHECK_DEADLOCK FALSE
