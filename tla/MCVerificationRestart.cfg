\* A round whose number an earlier process announced.
SPECIFICATION VerificationSpec
CONSTANTS
  MaxRounds = 2
  MaxTime = 1
  EventBuffer = 1
  MaxProcesses = 2
  NoRound = NoRound
  NoHash = NoHash
CHECK_DEADLOCK FALSE
INVARIANTS
  HashOfTheRound
