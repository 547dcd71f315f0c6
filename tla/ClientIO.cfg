CONSTANTS
  NBufs = 3
  Total = 7
SPECIFICATION FairSpec
INVARIANTS BanksSound Copied
PROPERTY TransferEnds
\* The transfer ends and both threads stop.
CHECK_DEADLOCK FALSE
