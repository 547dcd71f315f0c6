CONSTANTS
  NBufs = 3
  BufMax = 2
  Total = 13
  DiskErrors = TRUE
SPECIFICATION FairSpec
INVARIANTS
  BankConservation
  NoBankOverlap
  NoUseAfterFree
  CompleteImage
PROPERTIES
  ImplementsPipe
  TransferEnds
\* The transfer ends and both threads stop.
CHECK_DEADLOCK FALSE
