CONSTANTS
  None = None
  a = a
  b = b
  Events = {a}
  Answers <- EveryAnswer
  FileContents <- OneContent
  MaxCrashes = 1
  MaxUnwritten = 0
  MayFail = FALSE
SPECIFICATION Spec
INVARIANTS
  AutoOnlyLowRisk
CHECK_DEADLOCK FALSE
