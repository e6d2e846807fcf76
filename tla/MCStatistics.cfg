SPECIFICATION StatisticsSpec
CONSTANTS
  Durations <- MCDurations
  MaxErrors = 20
  MaxTimeouts = 10
  MinRequests = 0
  MaxP95 = 5000
  MaxRequests = 21
INVARIANT PercentileTells
PROPERTY ObjectivesFollowRequests
CHECK_DEADLOCK FALSE
