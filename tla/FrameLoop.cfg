\* The loop thread and the display go on; the GPU may stop for good.  Liveness
\* is checked here too, so the images are not declared symmetric.
CONSTANTS
  Images = {i1, i2, i3}
  None = None
  Torn = Torn
  MaxFrames = 5
  MaxConsecutiveMisses = 2
  CounterMax = 3
SPECIFICATION HungGpuSpec
INVARIANTS
  TypeOK BuffersExclusive FenceWillSignal SemaphoresReusable ImageIntact
  HeartbeatLead StopIsReported FatalStops LeftOnDevice
PROPERTIES
  NoTearing ImplementsDisplay KeepsPromises LoopEnds ShutdownReturns
