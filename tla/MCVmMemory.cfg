SPECIFICATION Spec
CONSTANTS
  Procs = {server, vmctl}
  Vms = {v1, v2}
  Facts = {f1, f2}
  MaxOps = 3
  MaxCrashes = 1
INVARIANTS
  TurnsLoseNothing
  NothingInvented
SYMMETRY Interchangeable
CHECK_DEADLOCK FALSE
