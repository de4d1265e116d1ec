--------------------------- MODULE MCCrashEngine ---------------------------
(* Instance of CrashEngine for TLC.                                        *)
EXTENDS CrashEngine

\* An instant crash at 1.00, and one the ticks come near to: 1.495 and 1.5
\* straddle 1.50, and 1.005 is rounded down to 1.00 when it is paid.
MCCrashPoints == {100, 150}
MCTicks == {1005, 1495, 1500}
=============================================================================
