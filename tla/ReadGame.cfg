CONSTANTS
  NBufs = 3
  BufMax = 2
  Total = 9
  DiskErrors = TRUE
SPECIFICATION FairSpec
INVARIANTS
  BanksSound
PROPERTIES
  ImplementsPipe
  TransferEnds
\* The transfer ends and both threads stop.
CHECK_DEADLOCK FALSE
