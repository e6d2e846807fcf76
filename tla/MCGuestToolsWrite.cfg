SPECIFICATION Spec
CONSTANTS
  Runs = {"any"}
  Picks <- MCWritePicks
  Alone = {}
  Services <- MCServices
  FullNames <- MCFullNames
  Stripped <- MCStripped
  Containers <- MCContainers
  AskedServices <- MCAskedServices
  AskedContainers <- MCAskedContainers
  Within <- MCWithin
  MaxChanges = 0
  MaxEdits = 0
INVARIANT WriteIsWritten
CHECK_DEADLOCK FALSE
