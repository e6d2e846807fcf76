SPECIFICATION Spec
CONSTANTS
  Runs = {"any", "other"}
  Picks <- MCPicks
  Alone <- MCAlone
  Vms = {"100", "101"}
  Existing = {"100"}
  Orders <- MCOrders
  MaxLate = 2
INVARIANT TypeOK
INVARIANT SandboxStaysOff
CHECK_DEADLOCK FALSE
