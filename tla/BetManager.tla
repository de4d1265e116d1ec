----------------------------- MODULE BetManager -----------------------------
(***************************************************************************)
(* internal/game/bet_manager.go: the bets of the current round.  One mutex *)
(* protects every field, so each exported method is one atomic step.  The  *)
(* module is an open system: Next lets any caller call any method in any   *)
(* order, which is what the package offers; CrashEngine then restricts the *)
(* order to the one of the engine loop.  A call that returns an error      *)
(* changes nothing and is a stuttering step; the condition under which a   *)
(* call succeeds has a name of its own (CanOpenRound, ...) so that callers *)
(* that act on the error can refer to it.                                  *)
(*                                                                         *)
(* Data: a raw multiplier is counted in thousandths (float64 in the code), *)
(* a normalised one in hundredths; CashoutTarget is left out, nothing here *)
(* reads it after PlaceBet; the time stamps too.                           *)
(***************************************************************************)
EXTENDS Integers, FiniteSets

CONSTANTS
  Users,      \* player ids
  Panels,     \* the betting panels of a player (1..4 in the code)
  Amounts,    \* stakes, in minor units
  RoundIds,   \* ids of rounds
  Raws,       \* raw multipliers a caller may cash out at, in thousandths
  MaxInt,     \* largest machine integer (2^63 - 1 in the code)
  MaxBets,    \* bound on the number of bets ever placed
  NoRound     \* the empty round id

ASSUME BetConstants ==
  /\ Amounts \subseteq Nat \ {0}
  /\ Raws \subseteq Nat
  /\ MaxInt \in Nat
  /\ NoRound \notin RoundIds

VARIABLES
  bmRound,      \* roundID
  bettingOpen,
  running,
  bets,         \* bet number -> bet, for the bets of the map
  activePanels, \* <<user, panel>> -> number of its pending bet, or NoBet
  nextBet       \* nextID: the last number given out

vars == <<bmRound, bettingOpen, running, bets, activePanels, nextBet>>

NoBet == 0
Keys == Users \X Panels
BetStates == {"PENDING", "CASHED_OUT", "LOST"}

Bet == [round: RoundIds, user: Users, panel: Panels, amount: Amounts,
        state: BetStates, multi: Nat, payout: Int]

Key(b) == <<b.user, b.panel>>
\* What becomes of a bet that is cashed out or lost.
Settled(b, state, multi, payout) ==
  [round |-> b.round, user |-> b.user, panel |-> b.panel, amount |-> b.amount,
   state |-> state, multi |-> multi, payout |-> payout]

Pending(B) == {i \in DOMAIN B : B[i].state = "PENDING"}

TypeOK ==
  /\ bmRound \in RoundIds \cup {NoRound}
  /\ bettingOpen \in BOOLEAN
  /\ running \in BOOLEAN
  /\ nextBet \in Nat
  /\ DOMAIN bets \subseteq 1..nextBet
  /\ bets \in [DOMAIN bets -> Bet]
  /\ activePanels \in [Keys -> Nat]

Init ==
  /\ bmRound = NoRound
  /\ bettingOpen = FALSE
  /\ running = FALSE
  /\ bets = [i \in {} |-> NoBet]
  /\ activePanels = [k \in Keys |-> NoBet]
  /\ nextBet = 0

-----------------------------------------------------------------------------
(* Amounts of money: calculatePayout, with the wrap-around of int64.       *)

MaxMultiplier == 50000000
ValidMultiplier(raw) == raw \in 1000..MaxMultiplier
\* Mutant: a multiplier is rounded to the nearest hundredth.
NormalizeNearest(raw) == (raw + 5) \div 10

Normalize(raw) == raw \div 10

Wrap(x) == ((x + MaxInt + 1) % (2 * (MaxInt + 1))) - (MaxInt + 1)
Payout(amount, cents) == Wrap(amount * cents) \div 100

\* Mutant: the product is not bounded before it is computed.
PayoutUnbounded(amount, cents) == cents > 0 /\ Payout(amount, cents) >= amount

PayoutAccepted(amount, cents) ==
  /\ cents > 0
  /\ ~ (amount > MaxInt \div cents)
  /\ Payout(amount, cents) >= amount

-----------------------------------------------------------------------------
(* The life of a round, driven by the engine.                              *)

CanOpenRound(r) == bmRound \in {NoRound, r}

OpenRound(r) ==
  /\ CanOpenRound(r)
  /\ bmRound' = r
  /\ bettingOpen' = TRUE
  /\ running' = FALSE
  /\ UNCHANGED <<bets, activePanels, nextBet>>

CanCloseBetting == bmRound # NoRound /\ bettingOpen

CloseBetting ==
  /\ CanCloseBetting
  /\ bettingOpen' = FALSE
  /\ UNCHANGED <<bmRound, running, bets, activePanels, nextBet>>

CanStartRound == bmRound # NoRound /\ ~bettingOpen /\ ~running

StartRound ==
  /\ CanStartRound
  /\ running' = TRUE
  /\ UNCHANGED <<bmRound, bettingOpen, bets, activePanels, nextBet>>

CanCrash == bmRound # NoRound /\ running

\* Mutant: Crash only loses the bets of one panel per player.
LosingOnePanel == {i \in Pending(bets) : bets[i].panel = 1}

\* The pending bets of the current round: what Crash turns into lost bets.
Losing == {i \in Pending(bets) : bets[i].round = bmRound}

Crash ==
  /\ CanCrash
  /\ running' = FALSE
  /\ bets' = [i \in DOMAIN bets |->
                IF i \in Losing THEN Settled(bets[i], "LOST", 0, 0) ELSE bets[i]]
  /\ activePanels' = [k \in Keys |-> IF \E i \in Losing : Key(bets[i]) = k
                                     THEN NoBet ELSE activePanels[k]]
  /\ UNCHANGED <<bmRound, bettingOpen, nextBet>>

CanResetRound == bmRound # NoRound /\ ~running

\* Mutant: the numbering starts again with every round.
ResetNumbering ==
  /\ CanResetRound
  /\ bmRound' = NoRound /\ bettingOpen' = FALSE /\ running' = FALSE
  /\ bets' = [i \in {} |-> NoBet]
  /\ activePanels' = [k \in Keys |-> NoBet]
  /\ nextBet' = 0

ResetRound ==
  /\ CanResetRound
  /\ bmRound' = NoRound
  /\ bettingOpen' = FALSE
  /\ running' = FALSE
  /\ bets' = [i \in {} |-> NoBet]
  /\ activePanels' = [k \in Keys |-> NoBet]
  /\ UNCHANGED nextBet

-----------------------------------------------------------------------------
(* Players.                                                                *)

\* Mutant: a panel that has a bet is not refused.
PlaceBetAgain(u, p) ==
  IF bmRound = NoRound THEN "NO_ACTIVE_ROUND"
  ELSE IF ~bettingOpen THEN "BETTING_CLOSED" ELSE "OK"

\* Betting open is tested before the panel: the order decides which error a
\* retry sees, and so what the gateway does with the player's money.
PlaceBetResult(u, p) ==
  IF bmRound = NoRound THEN "NO_ACTIVE_ROUND"
  ELSE IF ~bettingOpen THEN "BETTING_CLOSED"
  ELSE IF activePanels[<<u, p>>] # NoBet THEN "BET_EXISTS"
  ELSE "OK"

PlaceBet(u, p, amount) ==
  /\ PlaceBetResult(u, p) = "OK"
  /\ nextBet < MaxBets
  /\ nextBet' = nextBet + 1
  /\ bets' = [i \in DOMAIN bets \cup {nextBet + 1} |->
                IF i = nextBet + 1
                THEN [round |-> bmRound, user |-> u, panel |-> p,
                      amount |-> amount, state |-> "PENDING",
                      multi |-> 0, payout |-> 0]
                ELSE bets[i]]
  /\ activePanels' = [activePanels EXCEPT ![<<u, p>>] = nextBet + 1]
  /\ UNCHANGED <<bmRound, bettingOpen, running>>

\* Mutant: the state of the bet is not tested.
CanCashoutTwice(i, raw) ==
  /\ ValidMultiplier(raw)
  /\ running
  /\ i \in DOMAIN bets
  /\ PayoutAccepted(bets[i].amount, Normalize(raw))

CanCashout(i, raw) ==
  /\ ValidMultiplier(raw)
  /\ running
  /\ i \in DOMAIN bets
  /\ bets[i].state = "PENDING"
  /\ PayoutAccepted(bets[i].amount, Normalize(raw))

\* Mutant: the panel is not released.
CashoutKeepsPanel(i, raw) ==
  /\ CanCashout(i, raw)
  /\ bets' = [bets EXCEPT ![i] =
                Settled(bets[i], "CASHED_OUT", Normalize(raw),
                        Payout(bets[i].amount, Normalize(raw)))]
  /\ UNCHANGED <<bmRound, bettingOpen, running, nextBet, activePanels>>

Cashout(i, raw) ==
  /\ CanCashout(i, raw)
  /\ bets' = [bets EXCEPT ![i] =
                Settled(bets[i], "CASHED_OUT", Normalize(raw),
                        Payout(bets[i].amount, Normalize(raw)))]
  /\ activePanels' = [activePanels EXCEPT ![Key(bets[i])] = NoBet]
  /\ UNCHANGED <<bmRound, bettingOpen, running, nextBet>>

-----------------------------------------------------------------------------
Next ==
  \/ \E r \in RoundIds : OpenRound(r)
  \/ CloseBetting
  \/ StartRound
  \/ Crash
  \/ ResetRound
  \/ \E u \in Users, p \in Panels, a \in Amounts : PlaceBet(u, p, a)
  \/ \E i \in DOMAIN bets, raw \in Raws : Cashout(i, raw)

Spec == Init /\ [][Next]_vars

-----------------------------------------------------------------------------
(* Properties, whatever the order of the calls.                            *)

\* The panel index is exact: a panel maps to a bet that is pending and is
\* that panel's, and every pending bet is the one its panel maps to.  Five
\* methods maintain it by hand; if it broke, a player could stake a panel
\* twice or be locked out of it.
PanelIndexExact ==
  /\ \A k \in Keys : activePanels[k] # NoBet =>
       /\ activePanels[k] \in Pending(bets)
       /\ Key(bets[activePanels[k]]) = k
  /\ \A i \in Pending(bets) : activePanels[Key(bets[i])] = i

\* Every bet of the map belongs to the current round, so the round filter of
\* Crash never leaves a bet of another round pending behind.
BetsOfCurrentRound == \A i \in DOMAIN bets : bets[i].round = bmRound

\* The payout of a bet is its stake times the multiplier, rounded down to a
\* minor unit: the machine multiplication never wrapped.
PayoutExact ==
  \A i \in DOMAIN bets : bets[i].state = "CASHED_OUT" =>
    LET product == bets[i].amount * bets[i].multi IN
    /\ bets[i].payout * 100 <= product
    /\ product < bets[i].payout * 100 + 100

\* A bet is settled once: as long as the round keeps it, a bet that is cashed
\* out or lost never changes again, whatever calls come late.
SettledOnce ==
  [][\A i \in DOMAIN bets \cap DOMAIN bets' :
       bets[i].state # "PENDING" => bets'[i] = bets[i]]_vars

\* A bet number is never given to a second bet, even after ResetRound emptied
\* the map: the ledger key of a win is made of that number.
BetNumbersFresh ==
  [][/\ nextBet <= nextBet'
     /\ \A i \in DOMAIN bets' \ DOMAIN bets : i > nextBet /\ i <= nextBet']_vars
=============================================================================
