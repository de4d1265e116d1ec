\* A tick of the first round is served in the second.
SPECIFICATION Spec
CONSTANTS
  Users = {u1}
  MaxConns = 1
  Targets <- MCTargets
  Ticks <- MCTicks
  MaxRounds = 2
  MaxBets = 1
  EventBuffer = 2
CHECK_DEADLOCK FALSE
INVARIANTS
  AutoAtTarget
