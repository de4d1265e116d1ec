\* The consumer returns on the context that ends the loop: a loop that still has
\* an event to send without a default case waits for ever at it.
SPECIFICATION FairSpec
CONSTANTS
  Users = {u1}
  Panels = {1}
  Amounts = {100}
  MaxInt = 100000
  CrashPoints <- MCCrashPoints
  Ticks <- MCTicks
  Callers = {c1}
  MaxRounds = 2
  MaxBets = 2
  EventBuffer = 1
  NoRound = NoRound
CHECK_DEADLOCK FALSE
PROPERTIES
  EventNeverBlocks
