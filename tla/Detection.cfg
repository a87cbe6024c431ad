SPECIFICATION FairSpec
CONSTANTS
  cpu = cpu
  error = error
  throughput = throughput
  auth = auth
  schema = schema
  ModelWeight <- ConfiguredWeight
  MinConfidence = 3000
  FastPathWeight = 80
  FastPathEnabled = TRUE
  Events = {e1}
  Readings <- SomeReadings
  MaxFaults = 1
  None = None
INVARIANTS
  SevereIsPublished
PROPERTIES
  EventuallyAnswered
CHECK_DEADLOCK FALSE
