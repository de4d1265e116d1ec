\* One player, whose connection is replaced; two rounds, so that an event of
\* the first may be served in the second.
SPECIFICATION FairSpec
CONSTANTS
  Users = {u1}
  MaxConns = 2
  Targets = {1500}
  Ticks <- MCTicks
  MaxRounds = 2
  MaxBets = 2
  EventBuffer = 1
CHECK_DEADLOCK FALSE
INVARIANTS
  WinsSettledOnce
PROPERTIES
  WinsSettled
