---------------------------- MODULE MCVerification ----------------------------
(* Instance of Verification for TLC: two processes, which both number rounds *)
(* from one, and three instants, so that a stamp may run backwards.          *)
EXTENDS Verification
=============================================================================
