\* The frames of Output.cfg.
CONSTANTS
  Word = 65536
  DecDigits = 5
  Dec64Digits = 8
  HexDigits = 4
  MaxDecimals = 4
  FloatUnit = 8
  R = 5
  Degree = 320
  Lines = {}
  Frames <- MCFrames
  Ample = 40
  NoAnswer = NoAnswer
SPECIFICATION Spec
INVARIANTS RightWingDown
CHECK_DEADLOCK FALSE
