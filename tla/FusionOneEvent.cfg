SPECIFICATION FairSpec
CONSTANTS
  strong = strong
  light = light
  rogue = rogue
  None = None
  Expected = {strong, light}
  ModelWeight <- MCWeight
  MinConfidence = 3000
  FastPathWeight = 80
  FastPathEnabled = TRUE
  Events = {e1}
  Results <- OneEventResults
  Window = 1
  Recovery = 1
  MaxLives = 2
  MayFail = TRUE
INVARIANTS
  TypeOK
  FusedOncePerLife
  OneVoicePerDetector
  NotesAreHonest
  AckedIsAccountedFor
PROPERTIES
  EventuallyFinalized
CHECK_DEADLOCK FALSE
