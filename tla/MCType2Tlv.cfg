SPECIFICATION ContentSpec
CONSTANTS
  Alphabet = {0, 1, 3, 254, 255}
  MaxLength = 6
  PayloadLengths = {1, 2, 253, 254, 255, 256, 300, 511, 512}
  Layout <- MCLayout
  Label <- MCLabel
  FirstValue <- MCFirstValue
  FirstName <- MCFirstName
  Names <- MCNames
  Texts <- MCTexts
  Urls <- MCUrls
  Language <- MCLanguage
  TagCapacity = 520
  MaxFields = 3
INVARIANTS
  ParseIsTheTiling
  ClearKeepsOthers
  WrapReadsBack
  EditorReadsBack
  RestartKeepsMessage
CHECK_DEADLOCK FALSE
