CONSTANTS
  Games = 2
  Displayed = 1
  EarlyClients = TRUE
  AcceptFails = TRUE
  MaxChanges = 2
\* The program ends; and a main thread that missed its wake-up sleeps forever.
CHECK_DEADLOCK FALSE
SPECIFICATION FairSpec
INVARIANTS StaleIsNoticed ScreenTrue ClientListWhole
PROPERTY WaitsEnd
