\* The agent's local executions, one of them stopped, over a crash.
SPECIFICATION Spec
CONSTANTS
  a1 = a1
  a2 = a2
  a3 = a3
  s1 = s1
  s2 = s2
  Attempts = {a1, a2, a3}
  Scopes = {s1, s2}
  ScopeOf <- MCScopeOf
  QueueLimit = 2
  Stoppable = {a1}
  MaxCrashes = 1
INVARIANTS OneLaunchPerAttempt OneProcessPerScope StopIsProof ReceiptIsTruthful
PROPERTIES InvocationsEnd
CHECK_DEADLOCK FALSE
