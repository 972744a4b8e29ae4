SPECIFICATION StudySpec
CONSTANTS
  Good = Good
  Other = Other
  Plain = Plain
  Small = Small
  Tags = {Good, Other, Small, Plain}
  NoTag = NoTag
  NoProfile = NoProfile
  NoDump = NoDump
  NdefLast = 7
  UserLast = 8
  MaxPage = 9
  BatchSize = 2
  Options <- MCOptions
  Messages <- MCMessages
  FirstImages <- MCFirstImages
  Refused <- MCRefused
  Profile <- MCProfile
  MaxSwaps = 2
  MaxOps = 2
INVARIANTS
  CommitIsLast
  BackupBeforeWrite
  FailureTextIsTrue
  SuccessIsWritten
  RefusalWroteNothing
  VerifiedIsWritten
PROPERTIES
  OnlyNdefPagesChange
  ImplementsTransaction
  Finishes
CHECK_DEADLOCK FALSE
