SPECIFICATION Spec
CONSTANTS
  MaxRounds = 3
  MaxTime = 3
  EventBuffer = 2
  NoRound = NoRound
INVARIANTS
  TypeOK
  StampsFollowLife
\* A bound on the rounds created: after the last one, nothing is left to do.
CHECK_DEADLOCK FALSE
PROPERTIES
  RoundsMoveForward
