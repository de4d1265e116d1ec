\* Two bets, a restart, two database errors, so that the goroutine can give up.
SPECIFICATION CreditFairSpec
CONSTANTS
  MaxNumbers = 2
  Amounts = {1, 2}
  MaxTries = 1
  MaxFaults = 2
  MaxRestarts = 1
CHECK_DEADLOCK FALSE
INVARIANTS
  TracedBeforeSent
  OneCallback
PROPERTIES
  WinsRegistered
