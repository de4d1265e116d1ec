\* A bet id sent and sent again on two connections, in two rounds, with two database
\* errors or one and a restart; or two bet ids on one panel, as TogetherBound says.
SPECIFICATION Spec
CONSTANTS
  b1 = b1
  b2 = b2
  BetIds <- TwoBets
  PanelOf <- OnePanel
  Handlers = {h1, h2}
  MaxRounds = 2
  MaxBets = 2
  MaxFaults = 2
  MaxRestarts = 1
SYMMETRY Symmetry
CONSTRAINTS
  FailureBound
  TogetherBound
CHECK_DEADLOCK FALSE
INVARIANTS
  SentOnce
  BetIsPaid
  StakeBacksOneBet
  StakeTraced
PROPERTIES
  LateConfirmRefunds
  ImplementsPurse
