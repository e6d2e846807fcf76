SPECIFICATION Spec
CONSTANTS
  ExitCodes <- MCExitCodes
  Tx = {t1}
  MaxCopies = 2
  Names = {n1}
INVARIANTS
  SafetyNet
  RolledBackIsUndone
PROPERTIES
  TransactionsEnd
CHECK_DEADLOCK FALSE
