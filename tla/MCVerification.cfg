SPECIFICATION VerificationSpec
CONSTANTS
  MaxRounds = 2
  MaxTime = 3
  EventBuffer = 1
  MaxProcesses = 2
  NoRound = NoRound
  NoHash = NoHash
CHECK_DEADLOCK FALSE
INVARIANTS
  StampsFollowLife
  NoEarlyReveal
  HonestVerifies
PROPERTIES
  ProcessMovesForward
