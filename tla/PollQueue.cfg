SPECIFICATION Spec
CONSTANTS
  slow = slow
  fast = fast
  twin = twin
  idle = idle
  Handler <- MCHandler
  Rate <- MCRate
  MaxTime = 4
INVARIANTS
  QueuedOnce
  NothingOverdue
  RateRespected
  PollInv
PROPERTIES
  PolledOncePerInstant
