\* One connection is enough: the bet id is sent again once betting is closed.
SPECIFICATION Spec
CONSTANTS
  b1 = b1
  b2 = b2
  BetIds <- OneBet
  PanelOf <- OnePanel
  Handlers = {h1}
  MaxRounds = 1
  MaxBets = 1
  MaxFaults = 0
  MaxRestarts = 0
CHECK_DEADLOCK FALSE
INVARIANTS
  PlayedNotRefunded
