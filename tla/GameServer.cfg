CONSTANTS
  OpenFailures = TRUE
  DiskErrors = TRUE
  LostPeers = TRUE
  Updates = TRUE
SPECIFICATION Spec
INVARIANTS
  OneInstaller
  ClosedOnce
  RemoteScreenHonest
\* With a dead I/O thread every thread may end up waiting.
CHECK_DEADLOCK FALSE
