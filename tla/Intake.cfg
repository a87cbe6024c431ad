SPECIFICATION FairSpec
CONSTANTS
  Corpora <- FewCorpora
  Replays = 2
  MaxStrays = 2
  RawMessages <- EveryMessage
  MaxCrashes = 1
  SafeName <- OwnFiles
  CalibrationN = 2
  WindowSize = 2
  DequeSize = 3
  MaxFaults = 1
  DiskMayFail = TRUE
  None = None
  Torn = Torn
INVARIANTS
  EveryMessagePassedOn
  FlagTellsTruth
PROPERTIES
  EventuallyThrough
CHECK_DEADLOCK FALSE
