SPECIFICATION FairSpec
CONSTANTS
  Values = {"all checks", "few checks", "other"}
  Preset <- MCPreset
  DefaultProfile = "recommended"
  Worlds <- OneTrouble
  MaxThreads = 2
  MaxStack = 2
INVARIANTS OneOperation CloseWaits CancelIsAimed
PROPERTIES StartIsSaved ControlsComeBack
CHECK_DEADLOCK FALSE
