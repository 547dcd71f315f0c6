SPECIFICATION IconSpec
CONSTANTS
  TitleMax = 16
  Capacity = 512
  Widths = {1, 3}
  Lengths = {0, 16}
  SaveTitles <- MCSaveTitles
  Alphas = {255, 300}
  Colours = {511}
  Directions <- MCDirections
  Lights = {199}
  MaxReads = 2
INVARIANTS NothingCut OnlyTitles TitleWhole
\* A file that was read as often as MaxReads allows is not read again.
CHECK_DEADLOCK FALSE
