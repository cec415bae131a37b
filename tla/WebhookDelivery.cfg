\* Two replicas, two events for a subscription, a death or a failed statement.
SPECIFICATION FairSpec
CONSTANTS
  Hooks = {h1}
  Events = {e1, e2}
  Processes = {p1, p2}
  MaxAttempts = 3
  BatchLimit = 2
  Enforced <- Pool
  MaxFaults = 1
  None = None
CHECK_DEADLOCK FALSE
INVARIANTS
  TypeOK
  AttemptsWithinLimit
  RetriesAfterFirst
  DeliveredWasAccepted
PROPERTIES
  DeliveredIsFinal
  FailedIsSettled
