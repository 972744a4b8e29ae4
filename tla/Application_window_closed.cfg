SPECIFICATION Spec
CONSTANTS
  Values = {"all checks", "few checks", "other"}
  Preset <- MCPreset
  DefaultProfile = "recommended"
  Worlds <- BothTroubles
  MaxThreads = 2
  MaxStack = 3
INVARIANTS CloseWaits
CHECK_DEADLOCK FALSE
