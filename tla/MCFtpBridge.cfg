SPECIFICATION Spec
CONSTANTS
  Transfers = {t1, t2, t3}
  FileNames = {f1, f2}
  Nobody = Nobody
INVARIANTS
  AloneIsRight
  OnlyNamesakesMix
SYMMETRY Interchangeable
CHECK_DEADLOCK FALSE
