SPECIFICATION FairSpec
CONSTANTS
  Blank = Blank
  Second = Second
  Fixed = Fixed
  Ultralight = Ultralight
  Tags = {Blank, Fixed, Ultralight}
  Sector = {1, 2}
  FirstSector = 1
  Uid = {"uid0", "uid1", "uidA", "uidB"}
  Key = {"FFFF", "keysA", "keysB"}
  Data = {"zero", "pla", "petg"}
  FactoryKey = "FFFF"
  NoUid = "none"
  OptionSet = {"recommended", "thorough", "fast", "uid_only", "any_keys", "keys_only", "magic_only", "unchecked"}
  ImageSet = {"factory", "pla", "spool", "halfA", "rekeyed"}
  SourceSet = {"spool", "petg"}
  Options <- MCOptions
  FirstImages <- MCFirstImages
  Sources <- MCSources
  Library <- MCLibrary
  Kind <- MCKind
  MaxSwaps = 1
  MaxOps = 1
INVARIANTS
  ProgrammedIsKept
  SuccessIsCopy
  RefusalWroteNothing
  BackupBeforeRestore
PROPERTIES
  Finishes
CHECK_DEADLOCK FALSE
