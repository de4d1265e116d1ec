\* Two connections and two rounds.
SPECIFICATION Spec
CONSTANTS
  b1 = b1
  b2 = b2
  BetIds <- OneBet
  PanelOf <- OnePanel
  Handlers = {h1, h2}
  MaxRounds = 2
  MaxBets = 2
  MaxFaults = 0
  MaxRestarts = 0
CHECK_DEADLOCK FALSE
PROPERTIES
  RefundedNotPlaced
