\* Every line and frame of the sets.  A behaviour ends with its answer.
CONSTANTS
  Word = 65536
  DecDigits = 5
  Dec64Digits = 8
  HexDigits = 4
  MaxDecimals = 4
  FloatUnit = 8
  R = 5
  Degree = 320
  Lines <- MCLines
  Frames <- MCFrames
  Ample = 40
  NoAnswer = NoAnswer
SPECIFICATION Spec
INVARIANTS LineIsPrefix NumbersReadBack HorizonAgrees PitchReads FailureShown
CHECK_DEADLOCK FALSE
