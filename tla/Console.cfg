\* Seven frames, more than two intervals of three and more than two deadline
\* episodes; the run counter reaches its maximum.
CONSTANTS
  MaxConsecutiveMisses = 2
  CounterMax = 3
  MaxFrames = 7
  KEventCount = 10
  KLogIntervalFrames = 3
  MaxEscalations = 4
  ConfiguredDeadline = 0
  DefaultDeadline = 17
  RenderTimes = {17, 18, NotFinite}
  NotFinite = NotFinite
SPECIFICATION ConsoleSpec
INVARIANTS
  ConsoleTypeOK OneAlarmPerEpisode FirstIsPrinted LastingIsPrinted
  OneLinePerInterval
