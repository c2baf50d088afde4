\* One delegation, three cancellations, three faults of any kind.
CONSTANTS
    MaxCancels = 3
    MaxFaults = 3
SPECIFICATION Spec
INVARIANTS OneStart ClosedIsTrue BindingAgrees SettledIsFenced
PROPERTIES DelegationEnds
CHECK_DEADLOCK FALSE
