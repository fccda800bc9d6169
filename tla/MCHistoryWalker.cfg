CONSTANTS
  Commit <- Commits
  p = p
  q = q
  b1 = b1
  b2 = b2
  Path = {p, q}
  Blob = {b1, b2}
  NoBlob = NoBlob
  NoPath = NoPath
  Input <- Inputs
SPECIFICATION Spec
CHECK_DEADLOCK FALSE
INVARIANTS CollectsTheRange NewestFirst NoFileMissed CreditsTheAuthor ReportedOnce
PROPERTY WalkEnds
