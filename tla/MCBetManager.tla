---------------------------- MODULE MCBetManager ----------------------------
(* Instance of BetManager for TLC: two players, one of two panels each, so *)
(* that panels of the same player and panels of the same number meet; two  *)
(* rounds; stakes and multipliers of which one product (5 x 3.07) exceeds  *)
(* MaxInt and would wrap around to a payout that looks plausible.          *)
EXTENDS BetManager

CONSTANTS u1, u2

MCUsers == {u1, u2}
MCPanels == {1, 2}
MCAmounts == {1, 5}
MCRoundIds == {1, 2}
\* 0.999 is refused, 1.005 is rounded down to 1.00.
MCRaws == {999, 1005, 3070}
=============================================================================
