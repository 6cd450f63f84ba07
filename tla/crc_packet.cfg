\* Replies of up to two words, with one byte changed in every way, and a line that is stuck.
CONSTANTS
  PKT_MAX_REGS = 2
  Headers <- SomeHeaders
  Counts = {0, 1, 2}
  Data = {1, 90, 255}
  Stale = {0, 170}
  Beyond = {0, 119}
SPECIFICATION Spec
INVARIANTS
  TypeOK
  SealIsRemainder
  WholeIsTaken
  GarbleIsSeen
  StuckLineRefused
CHECK_DEADLOCK FALSE
