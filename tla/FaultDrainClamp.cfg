CONSTANTS
  PropertyLimit = 3
  MaxFaultEntries = 2
  MaxFaults = 5
  MaxFrames = 3
SPECIFICATION Spec
INVARIANTS EveryRecordForwarded
