\* A restart; no error at all.
SPECIFICATION CreditSpec
CONSTANTS
  MaxNumbers = 1
  Amounts = {1, 2}
  MaxTries = 1
  MaxFaults = 0
  MaxRestarts = 1
CHECK_DEADLOCK FALSE
INVARIANTS
  KnownIsMine
