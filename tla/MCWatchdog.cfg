SPECIFICATION Spec
CONSTANTS
  Clients = {"c1", "c2"}
  Requests <- MCRequests
  MaxStarts = 2
INVARIANT OnlyWholeTriggersCount
PROPERTY WholeRequestsProceed
CHECK_DEADLOCK FALSE
