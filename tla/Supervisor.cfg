\* Three requests of one room, one of them leased and retried by the server.
SPECIFICATION Spec
CONSTANTS
  Requests = {r1, r2, r3}
  Leased = {r1}
  MaxAttempt = 2
  QueueDepth = 2
  MaxRetries = 1
  MaxCancels = 1
  MaxDisconnects = 1
INVARIANTS OneCallPerAttempt NobodyIsForgotten InOrderWhileConnected
PROPERTIES StoppedNeverStarts QueueIsServed
CHECK_DEADLOCK FALSE
