\* A second generation meets the exit of the first one's process.
CONSTANTS
    MaxGeneration = 2
    MaxIntents = 3
    MaxFaults = 1
    Policies <- OnePolicy
SPECIFICATION FairSpec
PROPERTIES Converges
CHECK_DEADLOCK FALSE
