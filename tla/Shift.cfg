SPECIFICATION ScoringSpec
CONSTANTS
  cpu = cpu
  error = error
  throughput = throughput
  auth = auth
  schema = schema
  Arrivals <- AllEvents
  MaxEvents = 0
  SafeName <- OwnFiles
  CalibrationN = 2
  WindowSize = 30
  DequeSize = 31
  MaxFaults = 2
  DiskMayFail = TRUE
  Lags = {0, 30, 100000}
  None = None
  Torn = Torn
INVARIANTS
  ShiftIsScored
CHECK_DEADLOCK FALSE
