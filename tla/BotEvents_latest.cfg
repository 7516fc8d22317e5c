SPECIFICATION EventsSpec
CONSTANTS
  Metric = {m1}
  Gap = 1
  Window = 2
  PageSize = 2
  MaxNow = 3
  MaxOutput = 3
INVARIANT LatestIsNewest
CHECK_DEADLOCK FALSE
