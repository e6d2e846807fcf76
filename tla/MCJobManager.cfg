SPECIFICATION JobSpec
CONSTANTS
  Calls = {j1}
  Retries = 2
  ExitCodes <- MCExitCodes
  SwallowsCancel = FALSE
  MaxCancels = 2
INVARIANTS
  EventsTellStatus
  ResultIffCompleted
  RefusedJobIsNotCancelled
PROPERTIES
  CancelledIsFinal
  CancelStopsAttempts
  JobsSettle
CHECK_DEADLOCK FALSE
