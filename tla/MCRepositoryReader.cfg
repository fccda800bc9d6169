CONSTANTS
  Thread = {t1, t2}
  ClosingThread = {c1, c2}
  Object <- Objects
  p1 = p1
  p2 = p2
  Pack = {p1, p2}
  Copies <- Store
  MaxDeltaDepth = 1
  NoOne = NoOne
SPECIFICATION Spec
SYMMETRY Symmetry
INVARIANTS TypeOK NoReadOnClosedPack ReadsAreTrue HasObjectIsTrue
PROPERTY NoAddDuringWait
