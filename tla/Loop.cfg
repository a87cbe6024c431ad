SPECIFICATION FairSpec
CONSTANTS
  None = None
  Torn = Torn
  e1 = e1
  p1 = p1
  p2 = p2
  p3 = p3
  Inactive = {p3}
  Events = {e1}
  Messages <- LoopMessages
  Mild <- LoopMild
  Confidence <- LoopConfidence
  Operators = {o1}
  MaxRequests = 1
  MaxCrashes = 1
  MayFail = TRUE
INVARIANTS
  RepeatsAreCrashes
  FeedbackHasRow
  AppliedIsEarned
  KnownIsLatest
  KnownWasDecided
  UpdatesAreDecisions
PROPERTIES
  AutoIsLearned
CHECK_DEADLOCK FALSE
