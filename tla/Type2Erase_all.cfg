SPECIFICATION StudySpec
CONSTANTS
  Good = Good
  Other = Other
  Plain = Plain
  Small = Small
  Tags = {Good, Other, Plain, Small}
  NoTag = NoTag
  NoProfile = NoProfile
  NoDump = NoDump
  NdefLast = 7
  UserLast = 8
  MaxPage = 9
  BatchSize = 2
  Options <- MCOptions
  FirstImages <- MCFirstImages
  Refused <- MCRefused
  Profile <- MCProfile
  MaxSwaps = 2
  MaxOps = 2
INVARIANTS
  ForeignTlvsStay
  BackupBeforeErase
  SuccessIsErased
  VerifiedIsErased
PROPERTIES
  OnlyRangeChanges
  Finishes
CHECK_DEADLOCK FALSE
