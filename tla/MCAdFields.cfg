CONSTANTS
  NameSize = 32
  HexSize = 128
  MaxBytes = 40
  Payloads <- MCPayloads
SPECIFICATION Spec
INVARIANTS
  HexInBounds
  PrintsTheData
  FirstNameTaken
CHECK_DEADLOCK FALSE
