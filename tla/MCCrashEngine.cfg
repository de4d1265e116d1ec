\* One player on two panels, one cashout at a time, two rounds so that a cashout
\* begun in one round can end in the next, a channel of one event so that every
\* event meets a full channel in some behaviour.
SPECIFICATION FairSpec
CONSTANTS
  Users = {u1}
  Panels = {1, 2}
  Amounts = {100}
  MaxInt = 100000
  CrashPoints <- MCCrashPoints
  Ticks <- MCTicks
  Callers = {c1}
  MaxRounds = 2
  MaxBets = 2
  EventBuffer = 1
  NoRound = NoRound
CHECK_DEADLOCK FALSE
INVARIANTS
  CashoutUnderCrash
  PhasesAgree
  NeverRefused
  RevealAfterPlay
PROPERTIES
  ImplementsGame
  RoundsSettle
  BetsResolve
  CancelStops
