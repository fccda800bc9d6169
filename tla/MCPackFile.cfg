CONSTANTS
  Worker = {w1, w2}
  Buffer = {a1, a2, a3, a4}
  NoBuffer = NoBuffer
  x = x
  y = y
  Byte = {x, y}
  Blank = Blank
  LastByte = 1
  Input <- Packs
  MaxDeltaDepth = 2
  NewCap = 2
  MaxPooledCap = 2
  MaxCap = 3
  ZeroCopySize = 3
  MaxOffset = 13
SPECIFICATION Spec
SYMMETRY Symmetry
INVARIANTS OneOwner SearchKeepsTheName ReadsTheObject
