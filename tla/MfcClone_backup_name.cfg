SPECIFICATION Spec
CONSTANTS
  Blank = Blank
  Second = Second
  Fixed = Fixed
  Ultralight = Ultralight
  Tags = {Blank, Second}
  Sector = {1, 2}
  FirstSector = 1
  Uid = {"uid0", "uid1", "uidA", "uidB"}
  Key = {"FFFF", "keysA", "keysB"}
  Data = {"zero", "pla", "petg"}
  FactoryKey = "FFFF"
  NoUid = "none"
  OptionSet = {"thorough"}
  ImageSet = {"factory", "factory1"}
  SourceSet = {"pla"}
  Options <- MCOptions
  FirstImages <- MCFirstImages
  Sources <- MCSources
  Library <- MCLibrary
  Kind <- MCKind
  MaxSwaps = 1
  MaxOps = 1
INVARIANTS
  BackupNamesItsTag
CHECK_DEADLOCK FALSE
