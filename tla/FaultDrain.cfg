CONSTANTS
  PropertyLimit = 2
  MaxFaultEntries = 3
  MaxFaults = 6
  MaxFrames = 3
SPECIFICATION Spec
INVARIANTS TypeOK ReportedOnceInOrder LossIsSignalled CriticalEscalates
PROPERTIES LatencyOneFrame
