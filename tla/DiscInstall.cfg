CONSTANTS
  NBufs = 3
  BufMax = 2
  Total = 9
  DiskErrors = TRUE
  DiscErrors = TRUE
SPECIFICATION FairSpec
INVARIANTS
  BanksSound
  CopyFaithful
PROPERTY
  InstallEnds
\* The installation ends and the threads stop.
CHECK_DEADLOCK FALSE
