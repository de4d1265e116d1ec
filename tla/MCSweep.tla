-------------------------------- MODULE MCSweep --------------------------------
(* Instance of Sweep for TLC. *)
EXTENDS Sweep
=============================================================================
