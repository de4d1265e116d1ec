\* Two bet ids on one panel.
SPECIFICATION Spec
CONSTANTS
  b1 = b1
  b2 = b2
  BetIds <- TwoBets
  PanelOf <- OnePanel
  Handlers = {h1}
  MaxRounds = 1
  MaxBets = 2
  MaxFaults = 0
  MaxRestarts = 0
CHECK_DEADLOCK FALSE
INVARIANTS
  PanelIsOwn
