\* One generation under every restart policy, two faults of any kind.
CONSTANTS
    MaxGeneration = 1
    MaxIntents = 3
    MaxFaults = 2
    Policies <- EveryPolicy
SPECIFICATION FairSpec
PROPERTIES ClosedMeansGone Converges
CHECK_DEADLOCK FALSE
