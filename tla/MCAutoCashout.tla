--------------------------- MODULE MCAutoCashout ---------------------------
(* Instances of AutoCashout for TLC.  Targets 1.20 and 1.50, ticks at 1.20 *)
(* and 1.50.                                                               *)
EXTENDS AutoCashout

MCTargets == {1200, 1500}
MCTicks == {1200, 1500}
=============================================================================
