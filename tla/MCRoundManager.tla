--------------------------- MODULE MCRoundManager ---------------------------
(* Instance of RoundManager for TLC.  Three rounds and three instants let  *)
(* a caller present equal, increasing and decreasing stamps; a channel of  *)
(* two fills and drains in the middle of a round.                          *)
EXTENDS RoundManager
=============================================================================
