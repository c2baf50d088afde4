\* What the supervisor's description promises of a follow-up, once a reply
\* could not be sent.
SPECIFICATION Spec
CONSTANTS
  Requests = {r1, r2, r3}
  Leased = {r1}
  MaxAttempt = 2
  QueueDepth = 2
  MaxRetries = 0
  MaxCancels = 0
  MaxDisconnects = 1
INVARIANT InArrivalOrder
CHECK_DEADLOCK FALSE
