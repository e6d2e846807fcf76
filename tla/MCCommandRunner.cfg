SPECIFICATION Spec
CONSTANTS
  Calls = {c1}
  Retries = 2
  ExitCodes <- MCExitCodes
  SwallowsCancel = TRUE
INVARIANTS
  TypeOK
  AnswerIsFromLastProcess
  RetriedOnlyAfterFailure
  OrphansExplained
PROPERTIES
  EveryCallEnds
  ImplementsHostCommand
CHECK_DEADLOCK FALSE
