CONSTANTS
  Sizes <- MCSizes
  MainReserved = 2
  Images = {2, 7}
  MaxParts = {3, 12}
  Titles = {t1, t2}
SPECIFICATION Spec
INVARIANTS SizesFit HandleSound
PROPERTY ImplementsFlat
