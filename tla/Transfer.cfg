CONSTANTS
  Blocks = 3
  K = 2
  Window = 3
  NJobs = 2
  RETRY_COUNT = 2
  RECONNECT_COUNT = 2
  MaxFaults = 3
SPECIFICATION FairSpec
INVARIANTS InPlace ReportTrue
PROPERTY ClientEnds
\* The client is done, or the console's data thread waits for ever.
CHECK_DEADLOCK FALSE
