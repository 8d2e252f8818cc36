CONSTANTS
  Images = {i1, i2}
  None = None
  Torn = Torn
  MaxFrames = 3
  MaxConsecutiveMisses = 2
  CounterMax = 3
SPECIFICATION Spec
INVARIANTS NoEventAfterFailure
