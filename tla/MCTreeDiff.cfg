CONSTANTS
  r1 = r1
  r2 = r2
  s1 = s1
  s2 = s2
  s3 = s3
  sx = sx
  b1 = b1
  b2 = b2
  OID = {r1, r2, s1, s2, s3, sx, b1, b2}
  NoTree = NoTree
  Slash = 2
  MaxTreeDepth = 2
  Horizon = 4
  Input <- Calls
SPECIFICATION Spec
CHECK_DEADLOCK FALSE
INVARIANTS DiffIsExact TraversalIsExact FindIsTrue
