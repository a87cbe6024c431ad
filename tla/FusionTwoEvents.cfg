SPECIFICATION Spec
CONSTANTS
  strong = strong
  light = light
  rogue = rogue
  None = None
  Expected = {strong, light}
  ModelWeight <- MCWeight
  MinConfidence = 3000
  FastPathWeight = 80
  FastPathEnabled = TRUE
  Events = {e1, e2}
  Results <- ManyEventResults
  Window = 1
  Recovery = 1
  MaxLives = 2
  MayFail = TRUE
INVARIANTS
  CountersAddUp
PROPERTIES
  NeverReopened
  ImplementsContract
CHECK_DEADLOCK FALSE
