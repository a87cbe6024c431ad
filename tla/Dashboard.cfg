SPECIFICATION DashboardSpec
CONSTANTS
  None = None
  e1 = e1
  e2 = e2
  p1 = p1
  p2 = p2
  Events = {e1}
  HitlMessages <- TwiceRouted
  Operators = {o1, o2}
  MaxRequests = 3
  MaxCrashes = 1
  MayFail = TRUE
INVARIANTS
  DecisionOnRecord
  AnsweredIsLearned
  OutcomeHasRow
CHECK_DEADLOCK FALSE
