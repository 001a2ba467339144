SPECIFICATION DashboardSpec
CONSTANTS
  StartDebounce = 1
  EndOfSide = 1
INVARIANT
  TimersHonest
PROPERTIES
  AutoStartSustained
  AutoStopEarned
  ShowsTheTruth
