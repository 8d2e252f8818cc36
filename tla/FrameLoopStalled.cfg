CONSTANTS
  Images = {i1, i2}
  None = None
  Torn = Torn
  MaxFrames = 4
  MaxConsecutiveMisses = 2
  CounterMax = 3
SPECIFICATION StalledDisplaySpec
PROPERTIES AcquireBounded
