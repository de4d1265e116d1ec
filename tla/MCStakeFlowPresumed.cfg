\* One database error: the marker is not written.
SPECIFICATION Spec
CONSTANTS
  b1 = b1
  b2 = b2
  BetIds <- OneBet
  PanelOf <- OnePanel
  Handlers = {h1}
  MaxRounds = 1
  MaxBets = 1
  MaxFaults = 1
  MaxRestarts = 0
CHECK_DEADLOCK FALSE
INVARIANTS
  PresumedPlaced
