\* One connection and a restart: the rounds are numbered from one again.
SPECIFICATION Spec
CONSTANTS
  b1 = b1
  b2 = b2
  BetIds <- OneBet
  PanelOf <- OnePanel
  Handlers = {h1}
  MaxRounds = 1
  MaxBets = 2
  MaxFaults = 0
  MaxRestarts = 1
CHECK_DEADLOCK FALSE
INVARIANTS
  DebitBacksOneBet
