CONSTANTS
  OpenFailures = FALSE
  DiskErrors = FALSE
  LostPeers = TRUE
  Updates = FALSE
SPECIFICATION FairSpec
PROPERTIES
  MenuGetsLock
  CloseAnswered
