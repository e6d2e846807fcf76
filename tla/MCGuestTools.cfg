SPECIFICATION Spec
CONSTANTS
  Runs = {"any", "other"}
  Picks <- MCPicks
  Alone <- MCAlone
  Services <- MCServices
  FullNames <- MCFullNames
  Stripped <- MCStripped
  Containers <- MCContainers
  AskedServices <- MCAskedServices
  AskedContainers <- MCAskedContainers
  Within <- MCWithin
  MaxChanges = 1
  MaxEdits = 1
INVARIANT TypeOK
INVARIANT DriftTellsTruth
INVARIANT HealthMeansSeen
INVARIANT MemoryIsGrounded
PROPERTY OnlyClearForgets
CHECK_DEADLOCK FALSE
