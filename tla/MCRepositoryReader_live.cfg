CONSTANTS
  Thread = {t1, t2}
  ClosingThread = {c1, c2}
  Object <- SmallObjects
  p1 = p1
  p2 = p2
  Pack = {p1, p2}
  Copies <- SmallStore
  MaxDeltaDepth = 1
  NoOne = NoOne
SPECIFICATION FairSpec
PROPERTIES ReadsReturn ClosesReturn
