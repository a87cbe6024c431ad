SPECIFICATION FairSpec
CONSTANTS
  None = None
  a = a
  b = b
  Events = {a, b}
  Answers <- FewAnswers
  FileContents <- FewContents
  MaxCrashes = 1
  MaxUnwritten = 1
  MayFail = TRUE
INVARIANTS
  AutoIsConfident
  ValidAutoIsMild
  NothingLost
  CrashesExplainCopies
  LogsExplained
PROPERTIES
  EventuallySettled
CHECK_DEADLOCK FALSE
