SPECIFICATION DashboardSpec
CONSTANTS
  None = None
  e1 = e1
  e2 = e2
  p1 = p1
  p2 = p2
  Events = {e1, e2}
  HitlMessages <- OnceRouted
  Operators = {o1}
  MaxRequests = 2
  MaxCrashes = 1
  MayFail = FALSE
PROPERTIES
  DecidedStaysDecided
CHECK_DEADLOCK FALSE
