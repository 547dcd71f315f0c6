CONSTANTS
  Threads = {t1, t2}
  Total = 9
  Sizes = {1, 2, 4}
  MaxSize = 4
  Asked = {2, 4}
  MaxCuts = 1
  MaxOpen = 2
  MaxSub = 2
  SystemParts <- MCSystemParts
  Names = {"g", "_tmp"}
  Temp = "_tmp"
  Locked = {"_tmp"}
\* Two threads inside the driver are the end of what is modelled.
CHECK_DEADLOCK FALSE
SYMMETRY MCThreads
SPECIFICATION ApaSpec
INVARIANTS DiskWhole SlotsSound WalkSeesAll
