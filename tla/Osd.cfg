SPECIFICATION OsdSpec
CONSTANTS
  HeaderAt = 5
  AreaEnd = 13
  Parts = {1, 2}
  MenuParts = {1}
  NewTitles = {"long"}
  Cards <- MCCards
  Folders = {"full"}
  MaxJobs = 2
  MaxFaults = 1
  MaxTurns = 2
INVARIANTS AreaTrue AsAsked NothingLeft NeverStuck
\* Both may have nothing more to ask for.
CHECK_DEADLOCK FALSE
