\* Two processes work on a callback with a ledger entry, or on one without,
\* with two attempts and two faults.
SPECIFICATION OneSpec
CONSTANTS
  Callbacks = {credit, rollback}
  Untracked = {rollback}
  Processes = {w1, w2}
  MaxAttempts = 2
  MaxFaults = 2
\* The callbacks of the instance may all be settled.
CHECK_DEADLOCK FALSE
INVARIANTS
  NothingVanishes
  DisagreementTraced
PROPERTIES
  ImplementsOutbox
  Drains
