\* A batch of two, one of which can be stuck.
SPECIFICATION SweepFairSpec
CONSTANTS
  Batch = 2
  MaxEntries = 3
  MaxFaults = 1
CHECK_DEADLOCK FALSE
INVARIANTS
  PassedIsDecided
PROPERTIES
  Reached
