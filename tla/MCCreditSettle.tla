--------------------------- MODULE MCCreditSettle ---------------------------
(* Instances of CreditSettle for TLC.                                      *)
EXTENDS CreditSettle
=============================================================================
