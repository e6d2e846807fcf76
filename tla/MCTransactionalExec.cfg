SPECIFICATION Spec
CONSTANTS
  ExitCodes <- MCExitCodes
  Tx = {t1, t2}
  MaxCopies = 1
  Names = {n1, n2}
INVARIANTS
  SafetyNet
  RolledBackIsUndone
  CommittedIsKept
SYMMETRY TxSymmetry
CHECK_DEADLOCK FALSE
