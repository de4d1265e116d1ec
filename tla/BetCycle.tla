------------------------------- MODULE BetCycle -------------------------------
(***************************************************************************)
(* What the other parts rely on in the engine's loop: the bets of each     *)
(* round are opened, closed, started, crashed and reset in that order,     *)
(* once, whatever the players do meanwhile; rounds are numbered one after  *)
(* another; the loop may end anywhere, and a restart begins anew.          *)
(*                                                                         *)
(* CrashEngine implements it statement by statement; the engines of        *)
(* AutoCashout and StakeFlow, which leave rounds, events and seeds out,    *)
(* are shown to keep to it too.  BetManager by itself takes these calls in *)
(* any order.                                                              *)
(***************************************************************************)
EXTENDS BetManager

VARIABLES
  stage,  \* the call the loop is to make next: the bets know nothing of it
  round   \* the number of the last round opened

cycleVars == <<vars, stage, round>>

Stages == {"create", "close", "start", "crash", "reset", "over"}

CycleInit == Init /\ stage = "create" /\ round = 0

Moves(from, to) == stage = from /\ stage' = to

Opens ==
  /\ Moves("create", "close")
  /\ round' = round + 1 /\ round' \in RoundIds
  /\ OpenRound(round')

Closes == Moves("close", "start") /\ CloseBetting /\ UNCHANGED round
Starts == Moves("start", "crash") /\ StartRound /\ UNCHANGED round
Crashes == Moves("crash", "reset") /\ Crash /\ UNCHANGED round
Resets == Moves("reset", "create") /\ ResetRound /\ UNCHANGED round

\* Run returns: cancelled, or without a seed.  Players may go on calling.
Ends ==
  /\ stage # "over" /\ stage' = "over"
  /\ UNCHANGED <<vars, round>>

Plays ==
  /\ \/ \E u \in Users, p \in Panels, a \in Amounts : PlaceBet(u, p, a)
     \/ \E i \in DOMAIN bets, raw \in Raws : Cashout(i, raw)
  /\ UNCHANGED <<stage, round>>

\* Another process, with another engine.
Forgets ==
  /\ stage' = "create" /\ round' = 0
  /\ bmRound' = NoRound /\ bettingOpen' = FALSE /\ running' = FALSE
  /\ bets' = [i \in {} |-> NoBet] /\ activePanels' = [k \in Keys |-> NoBet]
  /\ nextBet' = 0

CycleNext ==
  \/ Opens \/ Closes \/ Starts \/ Crashes \/ Resets
  \/ Ends \/ Plays \/ Forgets

CycleSpec == CycleInit /\ [][CycleNext]_cycleVars

-----------------------------------------------------------------------------
\* The flags of the bets are the stage of the loop: players place between
\* opening and closing only, and cash out between start and crash only.
FlagsTellStage ==
  stage # "over" =>
    /\ bettingOpen <=> stage = "close"
    /\ running <=> stage = "crash"
    /\ bmRound = (IF stage = "create" THEN NoRound ELSE round)

\* A bet is pending only while it may still be cashed out or lost: none outlives
\* the crash, so that none vanishes, pending, when the round is reset.
NonePending == stage \in {"create", "reset"} => Pending(bets) = {}
=============================================================================
