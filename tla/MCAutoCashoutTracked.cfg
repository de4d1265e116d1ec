\* A page reloaded while its bet waits for the wallet.
SPECIFICATION Spec
CONSTANTS
  Users = {u1}
  MaxConns = 2
  Targets <- MCTargets
  Ticks <- MCTicks
  MaxRounds = 1
  MaxBets = 1
  EventBuffer = 1
CHECK_DEADLOCK FALSE
INVARIANTS
  LiveBetTracked
