CONSTANTS
  Text <- Texts
  Atoi <- Numbers
  Stripped <- WithoutSign
  DateFormat <- Dates
  BadRegexp = {"("}
  Upper = {"Pattern"}
  RevOf <- RevisionOf
  Marks <- OddNames
  OID = {"c1", "c2", "c3", "c4", "t1"}
  Junk = "junk"
  Invalid = {"ma in", "ma:in", "bell"}
  Fresh = {"c4"}
  MaxRefFollowDepth = 2
  MaxGitOps = 3
  Parents <- History
  Input <- Inputs
SPECIFICATION Spec
CHECK_DEADLOCK FALSE
INVARIANTS LastCaseFlagWins ResolvesToALiveValue ListsEveryRef RangeIsHonoured
