SPECIFICATION GatewaySpec
CONSTANTS
  Calls = {r1, r2}
  Retries = 0
  ExitCodes <- MCExitCodes
  SwallowsCancel = FALSE
  Entries <- AllEntries
  Commands <- MCCommands
  AuditMayFail = TRUE
  MaxCrashes = 1
INVARIANTS
  OnlyPermittedRuns
  AuditedExactlyOnce
  
PROPERTIES
  RequestsEnd
CHECK_DEADLOCK FALSE
