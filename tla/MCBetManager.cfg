SPECIFICATION Spec
CONSTANTS
  u1 = u1
  u2 = u2
  Users <- MCUsers
  Panels <- MCPanels
  Amounts <- MCAmounts
  RoundIds <- MCRoundIds
  Raws <- MCRaws
  MaxInt = 511
  MaxBets = 3
  NoRound = 0
INVARIANTS
  PanelIndexExact
  PayoutExact
PROPERTIES
  SettledOnce
  BetNumbersFresh
