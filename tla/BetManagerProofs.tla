-------------------------- MODULE BetManagerProofs --------------------------
(***************************************************************************)
(* Proofs about BetManager, for any number of players, panels, rounds and  *)
(* bets and any order of the calls; then, with the calls in the order of   *)
(* the engine's loop (BetCycle), about what each stage of it promises.     *)
(***************************************************************************)
EXTENDS BetCycle, TLAPS

IInv == TypeOK /\ PanelIndexExact /\ BetsOfCurrentRound

USE DEF NoBet

-----------------------------------------------------------------------------
(* Arithmetic of calculatePayout.                                          *)

\* The guard amount > maxInt64/scaled is exactly strong enough: past it the
\* product fits a machine integer.
LEMMA ProductFits ==
  ASSUME NEW m \in Nat, NEW c \in Nat, c > 0, NEW a \in Nat, a <= m \div c
  PROVE  a * c <= m
<1> DEFINE q == m \div c
<1>1. q \in Nat /\ q * c <= m
  BY SMT
<1>2. a * c <= q * c
  BY <1>1, SMT
<1> QED
  BY <1>1, <1>2, SMT

\* Wrapping leaves alone what fits.
LEMMA WrapFits ==
  ASSUME NEW x \in Nat, x <= MaxInt
  PROVE  Wrap(x) = x
<1> DEFINE n == MaxInt + 1
<1>1. n \in Nat /\ n > 0 /\ x < n
  BY BetConstants
<1>2. (x + n) % (2 * n) = x + n
  BY <1>1, SMT
<1> QED
  BY <1>1, <1>2, BetConstants DEF Wrap

\* An accepted payout is the exact product, rounded down to a minor unit.
LEMMA AcceptedPayout ==
  ASSUME NEW a \in Amounts, NEW c \in Nat, PayoutAccepted(a, c)
  PROVE  /\ Payout(a, c) \in Nat
         /\ Payout(a, c) * 100 <= a * c
         /\ a * c < Payout(a, c) * 100 + 100
<1>1. a \in Nat /\ c > 0 /\ MaxInt \in Nat
  BY BetConstants DEF PayoutAccepted
<1>2. MaxInt \div c \in Nat
  BY <1>1, SMT
<1>3. a <= MaxInt \div c
  BY <1>1, <1>2 DEF PayoutAccepted
<1>4. a * c <= MaxInt
  BY <1>1, <1>3, ProductFits
<1>5. a * c \in Nat
  BY <1>1, SMT
<1>6. Payout(a, c) = (a * c) \div 100
  BY <1>4, <1>5, WrapFits DEF Payout
<1> QED
  BY <1>5, <1>6, SMT

-----------------------------------------------------------------------------
(* The inductive invariant.                                                *)

LEMMA InitInvariant == Init => IInv
<1> SUFFICES ASSUME Init PROVE IInv
  OBVIOUS
<1>1. DOMAIN bets = {} /\ bets \in [DOMAIN bets -> Bet]
  BY DEF Init
<1>2. TypeOK
  BY <1>1 DEF Init, TypeOK
<1>3. Pending(bets) = {}
  BY <1>1 DEF Pending
<1>4. PanelIndexExact
  BY <1>3 DEF Init, PanelIndexExact
<1> QED
  BY <1>1, <1>2, <1>4 DEF IInv, BetsOfCurrentRound

LEMMA RoundlessIsEmpty ==
  ASSUME IInv, bmRound = NoRound
  PROVE  DOMAIN bets = {}
  BY BetConstants DEF IInv, TypeOK, Bet, BetsOfCurrentRound

LEMMA OpenRoundStep ==
  ASSUME IInv, NEW r \in RoundIds, OpenRound(r)
  PROVE  IInv'
<1>1. TypeOK' /\ PanelIndexExact'
  BY DEF IInv, OpenRound, TypeOK, PanelIndexExact, Pending
<1>2. BetsOfCurrentRound'
  BY RoundlessIsEmpty DEF IInv, OpenRound, CanOpenRound, BetsOfCurrentRound
<1> QED
  BY <1>1, <1>2 DEF IInv

LEMMA FlagSteps ==
  ASSUME IInv, CloseBetting \/ StartRound
  PROVE  IInv'
  BY DEF IInv, CloseBetting, StartRound, TypeOK, PanelIndexExact, Pending,
         BetsOfCurrentRound

\* What Crash makes of a losing bet.
LEMMA LostBet ==
  ASSUME NEW b \in Bet
  PROVE  LET c == Settled(b, "LOST", 0, 0)
         IN  c \in Bet /\ c.round = b.round /\ c.state = "LOST"
  BY DEF Bet, BetStates, Settled

LEMMA CrashStep ==
  ASSUME IInv, Crash
  PROVE  IInv' /\ Pending(bets)' = {}
<1> USE DEF IInv
<1>1. Losing = Pending(bets)
  BY DEF Losing, Pending, BetsOfCurrentRound
<1>2. DOMAIN bets' = DOMAIN bets
  BY DEF Crash
<1>3. \A i \in DOMAIN bets :
         /\ bets'[i] \in Bet
         /\ bets'[i].round = bets[i].round
         /\ bets'[i].state # "PENDING"
  <2> SUFFICES ASSUME NEW i \in DOMAIN bets
               PROVE  /\ bets'[i] \in Bet
                      /\ bets'[i].round = bets[i].round
                      /\ bets'[i].state # "PENDING"
    OBVIOUS
  <2>1. bets[i] \in Bet
    BY DEF TypeOK
  <2>2. CASE i \in Losing
    <3>1. bets'[i] = Settled(bets[i], "LOST", 0, 0)
      BY <2>2 DEF Crash
    <3> QED
      BY <2>1, <3>1, LostBet
  <2>3. CASE i \notin Losing
    <3>1. bets'[i] = bets[i]
      BY <2>3 DEF Crash
    <3> QED
      BY <2>1, <2>3, <3>1, <1>1 DEF Pending
  <2> QED
    BY <2>2, <2>3
<1>4. TypeOK'
  <2>1. bets' \in [DOMAIN bets' -> Bet]
    BY <1>2, <1>3 DEF Crash
  <2> QED
    BY <1>2, <2>1 DEF Crash, TypeOK
<1>5. Pending(bets)' = {}
  BY <1>2, <1>3 DEF Pending
<1>6. \A k \in Keys : activePanels'[k] = NoBet
  <2> SUFFICES ASSUME NEW k \in Keys PROVE activePanels'[k] = NoBet
    OBVIOUS
  <2>1. CASE activePanels[k] = NoBet
    BY <2>1 DEF Crash
  <2>2. CASE activePanels[k] # NoBet
    BY <1>1, <2>2 DEF Crash, PanelIndexExact
  <2> QED
    BY <2>1, <2>2
<1>7. PanelIndexExact'
  BY <1>5, <1>6 DEF PanelIndexExact, Pending
<1>8. BetsOfCurrentRound'
  BY <1>2, <1>3 DEF Crash, BetsOfCurrentRound
<1> QED
  BY <1>4, <1>5, <1>7, <1>8

LEMMA ResetRoundStep ==
  ASSUME IInv, ResetRound
  PROVE  IInv'
  BY DEF IInv, ResetRound, TypeOK, PanelIndexExact, Pending, BetsOfCurrentRound

LEMMA PlaceBetStep ==
  ASSUME IInv, NEW u \in Users, NEW p \in Panels, NEW a \in Amounts,
         PlaceBet(u, p, a)
  PROVE  IInv'
<1> USE DEF IInv
<1> DEFINE n == nextBet + 1
           k == <<u, p>>
<1>1. /\ n \in Nat /\ n # NoBet /\ n \notin DOMAIN bets
      /\ DOMAIN bets' = DOMAIN bets \cup {n}
      /\ k \in Keys
      /\ bmRound \in RoundIds
      /\ activePanels[k] = NoBet
  BY DEF PlaceBet, PlaceBetResult, TypeOK, Keys
<1>2. /\ bets'[n] = [round |-> bmRound, user |-> u, panel |-> p, amount |-> a,
                     state |-> "PENDING", multi |-> 0, payout |-> 0]
      /\ bets'[n] \in Bet
  BY <1>1 DEF PlaceBet, Bet, BetStates
<1>3. \A i \in DOMAIN bets : bets'[i] = bets[i]
  BY <1>1 DEF PlaceBet
<1>4. /\ activePanels'[k] = n
      /\ \A l \in Keys : l # k => activePanels'[l] = activePanels[l]
      /\ activePanels' \in [Keys -> Nat]
  BY <1>1 DEF PlaceBet, TypeOK
<1>5. TypeOK'
  <2>1. bets' \in [DOMAIN bets' -> Bet]
    BY <1>1, <1>2, <1>3 DEF PlaceBet, TypeOK
  <2>2. DOMAIN bets' \subseteq 1..nextBet'
    BY <1>1 DEF PlaceBet, TypeOK
  <2> QED
    BY <1>4, <2>1, <2>2 DEF PlaceBet, TypeOK
<1>6. Pending(bets)' = Pending(bets) \cup {n} /\ n \notin Pending(bets)
  BY <1>1, <1>2, <1>3 DEF Pending
<1>7. \A i \in Pending(bets) : Key(bets[i]) # k /\ Key(bets[i]) \in Keys
  BY <1>1 DEF PanelIndexExact, Pending, TypeOK, Bet, Key, Keys
<1>8. Key(bets'[n]) = k /\ \A i \in Pending(bets) : Key(bets'[i]) = Key(bets[i])
  BY <1>2, <1>3 DEF Key, Pending
<1>9. PanelIndexExact'
  <2>1. ASSUME NEW l \in Keys, activePanels'[l] # NoBet
        PROVE  activePanels'[l] \in Pending(bets)' /\ Key(bets'[activePanels'[l]]) = l
    BY <2>1, <1>4, <1>6, <1>8 DEF PanelIndexExact
  <2>2. ASSUME NEW i \in Pending(bets)'
        PROVE  activePanels'[Key(bets'[i])] = i
    BY <2>2, <1>1, <1>4, <1>6, <1>7, <1>8 DEF PanelIndexExact
  <2> QED
    BY <2>1, <2>2 DEF PanelIndexExact
<1>10. BetsOfCurrentRound'
  BY <1>1, <1>2, <1>3 DEF PlaceBet, BetsOfCurrentRound
<1> QED
  BY <1>5, <1>9, <1>10

LEMMA CashoutStep ==
  ASSUME IInv, NEW i \in DOMAIN bets, NEW raw \in Nat, Cashout(i, raw)
  PROVE  IInv'
<1> USE DEF IInv
<1> DEFINE k == Key(bets[i])
<1>1. /\ bets[i] \in Bet /\ i \in Pending(bets) /\ k \in Keys
      /\ activePanels[k] = i /\ i # NoBet
  BY DEF Cashout, CanCashout, Pending, TypeOK, Bet, Key, Keys, PanelIndexExact
<1>2. /\ DOMAIN bets' = DOMAIN bets
      /\ \A j \in DOMAIN bets : j # i => bets'[j] = bets[j]
      /\ bets'[i].state = "CASHED_OUT"
      /\ bets'[i].round = bets[i].round
  BY <1>1 DEF Cashout, Settled, Bet
<1>3. Normalize(raw) \in Nat /\ Payout(bets[i].amount, Normalize(raw)) \in Int
  <2>1. Normalize(raw) \in Nat
    BY SMT DEF Normalize
  <2> QED
    BY <1>1, <2>1, AcceptedPayout DEF Cashout, CanCashout, Bet
<1>4. bets'[i] \in Bet
  BY <1>1, <1>3 DEF Cashout, Settled, Bet, BetStates
<1>5. /\ activePanels'[k] = NoBet
      /\ \A l \in Keys : l # k => activePanels'[l] = activePanels[l]
      /\ activePanels' \in [Keys -> Nat]
  BY <1>1 DEF Cashout, TypeOK
<1>6. TypeOK'
  <2>1. bets' \in [DOMAIN bets' -> Bet]
    BY <1>1, <1>2, <1>4 DEF Cashout, TypeOK
  <2> QED
    BY <1>2, <1>5, <2>1 DEF Cashout, TypeOK
<1>7. Pending(bets)' = Pending(bets) \ {i}
  BY <1>2 DEF Pending
<1>8. PanelIndexExact'
  <2>1. ASSUME NEW l \in Keys, activePanels'[l] # NoBet
        PROVE  activePanels'[l] \in Pending(bets)' /\ Key(bets'[activePanels'[l]]) = l
    <3>1. l # k /\ activePanels'[l] = activePanels[l]
      BY <2>1, <1>5
    <3>2. activePanels[l] \in Pending(bets) /\ Key(bets[activePanels[l]]) = l
      BY <2>1, <3>1 DEF PanelIndexExact
    <3>3. activePanels[l] # i
      BY <3>1, <3>2
    <3> QED
      BY <3>1, <3>2, <3>3, <1>2, <1>7 DEF Pending
  <2>2. ASSUME NEW j \in Pending(bets)'
        PROVE  activePanels'[Key(bets'[j])] = j
    <3>1. j \in Pending(bets) /\ j # i /\ bets'[j] = bets[j]
      BY <2>2, <1>2, <1>7 DEF Pending
    <3>2. activePanels[Key(bets[j])] = j /\ Key(bets[j]) \in Keys
      BY <3>1 DEF PanelIndexExact, Pending, TypeOK, Bet, Key, Keys
    <3> QED
      BY <3>1, <3>2, <1>1, <1>5
  <2> QED
    BY <2>1, <2>2 DEF PanelIndexExact
<1>9. BetsOfCurrentRound'
  BY <1>2 DEF Cashout, BetsOfCurrentRound
<1> QED
  BY <1>6, <1>8, <1>9

LEMMA StepInvariant == IInv /\ [Next]_vars => IInv'
<1> SUFFICES ASSUME IInv, [Next]_vars PROVE IInv'
  OBVIOUS
<1>1. CASE UNCHANGED vars
  BY <1>1 DEF IInv, vars, TypeOK, PanelIndexExact, Pending, BetsOfCurrentRound
<1>2. ASSUME NEW r \in RoundIds, OpenRound(r) PROVE IInv'
  BY <1>2, OpenRoundStep
<1>3. CASE CloseBetting \/ StartRound
  BY <1>3, FlagSteps
<1>4. CASE Crash
  BY <1>4, CrashStep
<1>5. CASE ResetRound
  BY <1>5, ResetRoundStep
<1>6. ASSUME NEW u \in Users, NEW p \in Panels, NEW a \in Amounts, PlaceBet(u, p, a)
      PROVE  IInv'
  BY <1>6, PlaceBetStep
<1>7. ASSUME NEW i \in DOMAIN bets, NEW raw \in Raws, Cashout(i, raw) PROVE IInv'
  BY <1>7, CashoutStep, BetConstants
<1> QED
  BY <1>1, <1>2, <1>3, <1>4, <1>5, <1>6, <1>7 DEF Next

\* The fields of the manager always have their types: in particular no bet
\* number beyond the counter is in the map.
THEOREM TypeCorrect == Spec => []TypeOK
<1>1. IInv => TypeOK
  BY DEF IInv
<1> QED
  BY InitInvariant, StepInvariant, <1>1, PTL DEF Spec

\* The index of panels is exact whatever the order of the calls.
THEOREM PanelIndexAlwaysExact == Spec => []PanelIndexExact
<1>1. IInv => PanelIndexExact
  BY DEF IInv
<1> QED
  BY InitInvariant, StepInvariant, <1>1, PTL DEF Spec

\* No bet of another round is ever in the map.
THEOREM BetsAlwaysOfCurrentRound == Spec => []BetsOfCurrentRound
<1>1. IInv => BetsOfCurrentRound
  BY DEF IInv
<1> QED
  BY InitInvariant, StepInvariant, <1>1, PTL DEF Spec

\* The payout of a winning bet is the exact product rounded down: the machine
\* multiplication of calculatePayout never wraps around.
THEOREM PayoutAlwaysExact == Spec => []PayoutExact
<1>1. Init => PayoutExact
  BY DEF Init, PayoutExact
<1>2. IInv /\ PayoutExact /\ [Next]_vars => PayoutExact'
  <2> SUFFICES ASSUME IInv, PayoutExact, [Next]_vars, NEW i \in DOMAIN bets',
                      bets'[i].state = "CASHED_OUT"
               PROVE  LET product == bets'[i].amount * bets'[i].multi IN
                      /\ bets'[i].payout * 100 <= product
                      /\ product < bets'[i].payout * 100 + 100
    BY DEF PayoutExact
  <2>1. CASE i \in DOMAIN bets /\ bets'[i] = bets[i]
    BY <2>1 DEF PayoutExact
  <2>2. CASE UNCHANGED vars
    BY <2>1, <2>2 DEF vars
  <2>3. CASE (\E r \in RoundIds : OpenRound(r)) \/ CloseBetting \/ StartRound
    BY <2>1, <2>3 DEF OpenRound, CloseBetting, StartRound
  <2>4. CASE Crash
    <3>1. i \in DOMAIN bets /\ bets[i] \in Bet
      BY <2>4 DEF Crash, IInv, TypeOK
    <3>2. CASE i \in Losing
      <4>1. bets'[i] = Settled(bets[i], "LOST", 0, 0)
        BY <2>4, <3>1, <3>2 DEF Crash
      <4>2. bets'[i].state = "LOST"
        BY <3>1, <4>1, LostBet
      <4> QED
        BY <4>2
    <3>3. CASE i \notin Losing
      BY <2>1, <2>4, <3>1, <3>3 DEF Crash
    <3> QED
      BY <3>2, <3>3
  <2>5. CASE ResetRound
    BY <2>5 DEF ResetRound
  <2>6. ASSUME NEW u \in Users, NEW p \in Panels, NEW a \in Amounts, PlaceBet(u, p, a)
        PROVE  i \in DOMAIN bets /\ bets'[i] = bets[i]
    BY <2>6 DEF PlaceBet
  <2>7. ASSUME NEW j \in DOMAIN bets, NEW raw \in Raws, Cashout(j, raw), i # j
        PROVE  i \in DOMAIN bets /\ bets'[i] = bets[i]
    BY <2>7 DEF Cashout
  <2>8. ASSUME NEW raw \in Raws, i \in DOMAIN bets, Cashout(i, raw)
        PROVE  LET product == bets'[i].amount * bets'[i].multi IN
               /\ bets'[i].payout * 100 <= product
               /\ product < bets'[i].payout * 100 + 100
    <3> DEFINE cents == Normalize(raw)
    <3>1. bets[i] \in Bet /\ bets[i].amount \in Amounts /\ cents \in Nat
      BY <2>8, BetConstants DEF IInv, TypeOK, Bet, Normalize
    <3>2. PayoutAccepted(bets[i].amount, cents)
      BY <2>8 DEF Cashout, CanCashout
    <3>3. /\ bets'[i].amount = bets[i].amount
          /\ bets'[i].multi = cents
          /\ bets'[i].payout = Payout(bets[i].amount, cents)
      BY <2>8, <3>1 DEF Cashout, Settled, Bet
    <3> QED
      BY <3>1, <3>2, <3>3, AcceptedPayout
  <2> QED
    BY <2>1, <2>2, <2>3, <2>4, <2>5, <2>6, <2>7, <2>8 DEF Next
<1> QED
  BY InitInvariant, StepInvariant, <1>1, <1>2, PTL DEF Spec

-----------------------------------------------------------------------------
(* What a step may never do.                                               *)

\* A settled bet never changes: Crash skips it and Cashout refuses it.
LEMMA SettledStep ==
  ASSUME IInv, [Next]_vars, NEW i \in DOMAIN bets \cap DOMAIN bets',
         bets[i].state # "PENDING"
  PROVE  bets'[i] = bets[i]
<1>1. CASE UNCHANGED vars
  BY <1>1 DEF vars
<1>2. CASE (\E r \in RoundIds : OpenRound(r)) \/ CloseBetting \/ StartRound
  BY <1>2 DEF OpenRound, CloseBetting, StartRound
<1>3. CASE Crash
  BY <1>3 DEF Crash, Losing, Pending
<1>4. CASE ResetRound
  BY <1>4 DEF ResetRound
<1>5. ASSUME NEW u \in Users, NEW p \in Panels, NEW a \in Amounts, PlaceBet(u, p, a)
      PROVE  bets'[i] = bets[i]
  BY <1>5 DEF PlaceBet, IInv, TypeOK
<1>6. ASSUME NEW j \in DOMAIN bets, NEW raw \in Raws, Cashout(j, raw)
      PROVE  bets'[i] = bets[i]
  BY <1>6 DEF Cashout, CanCashout, IInv, TypeOK
<1> QED
  BY <1>1, <1>2, <1>3, <1>4, <1>5, <1>6 DEF Next

\* Late calls cannot settle a bet twice.
THEOREM SettledOnlyOnce == Spec => SettledOnce
<1>1. IInv /\ [Next]_vars =>
        [\A i \in DOMAIN bets \cap DOMAIN bets' :
           bets[i].state # "PENDING" => bets'[i] = bets[i]]_vars
  BY SettledStep
<1> QED
  BY InitInvariant, StepInvariant, <1>1, PTL DEF Spec, SettledOnce

\* A number once given to a bet is not given again, across rounds.
THEOREM BetNumbersAlwaysFresh == Spec => BetNumbersFresh
<1> DEFINE Fresh == /\ nextBet <= nextBet'
                    /\ \A i \in DOMAIN bets' \ DOMAIN bets :
                         i > nextBet /\ i <= nextBet'
<1>1. IInv /\ [Next]_vars => [Fresh]_vars
  <2> SUFFICES ASSUME IInv, Next
               PROVE  Fresh
    OBVIOUS
  <2>0. nextBet \in Nat
    BY DEF IInv, TypeOK
  <2>1. CASE (\E r \in RoundIds : OpenRound(r)) \/ CloseBetting \/ StartRound
    BY <2>0, <2>1 DEF OpenRound, CloseBetting, StartRound
  <2>2. CASE Crash \/ ResetRound
    BY <2>0, <2>2 DEF Crash, ResetRound
  <2>3. ASSUME NEW u \in Users, NEW p \in Panels, NEW a \in Amounts, PlaceBet(u, p, a)
        PROVE  Fresh
    BY <2>0, <2>3 DEF PlaceBet
  <2>4. ASSUME NEW j \in DOMAIN bets, NEW raw \in Raws, Cashout(j, raw)
        PROVE  Fresh
    BY <2>0, <2>4 DEF Cashout
  <2> QED
    BY <2>1, <2>2, <2>3, <2>4 DEF Next
<1> QED
  BY InitInvariant, StepInvariant, <1>1, PTL DEF Spec, BetNumbersFresh

-----------------------------------------------------------------------------
(* The calls in the order of the loop.                                     *)

CycleInv == IInv /\ stage \in Stages /\ FlagsTellStage /\ NonePending

LEMMA CycleInitInv == CycleInit => CycleInv
<1> SUFFICES ASSUME CycleInit PROVE CycleInv
  OBVIOUS
<1>1. IInv
  BY InitInvariant DEF CycleInit
<1>2. FlagsTellStage /\ NonePending
  BY DEF CycleInit, Init, FlagsTellStage, NonePending, Pending
<1> QED
  BY <1>1, <1>2 DEF CycleInv, CycleInit, Stages

\* The loop's calls: each finds the flags the one before it has left.
LEMMA CallsKeepCycle ==
  ASSUME CycleInv, Opens \/ Closes \/ Starts \/ Crashes \/ Resets
  PROVE  CycleInv'
<1> USE DEF CycleInv
<1>1. CASE Opens
  <2>1. IInv' /\ stage' = "close"
    BY <1>1, OpenRoundStep DEF Opens, Moves
  <2> QED
    BY <1>1, <2>1 DEF Opens, OpenRound, FlagsTellStage, NonePending, Stages
<1>2. CASE Closes \/ Starts
  <2>1. IInv' /\ stage' \in {"start", "crash"}
    BY <1>2, FlagSteps DEF Closes, Starts, Moves
  <2> QED
    BY <1>2, <2>1 DEF Closes, Starts, Moves, CloseBetting, StartRound, FlagsTellStage,
                      NonePending, Stages
<1>3. CASE Crashes
  <2>1. IInv' /\ Pending(bets)' = {}
    BY <1>3, CrashStep DEF Crashes
  <2> QED
    BY <1>3, <2>1 DEF Crashes, Moves, Crash, FlagsTellStage, NonePending, Stages
<1>4. CASE Resets
  <2>1. IInv' /\ Pending(bets)' = {}
    BY <1>4, ResetRoundStep DEF Resets, ResetRound, Pending
  <2> QED
    BY <1>4, <2>1 DEF Resets, Moves, ResetRound, FlagsTellStage, NonePending, Stages
<1> QED
  BY <1>1, <1>2, <1>3, <1>4

\* A player's call finds betting open, or the flight under way.
LEMMA PlaysKeepCycle ==
  ASSUME CycleInv, Plays
  PROVE  CycleInv'
<1> USE DEF CycleInv
<1>1. ASSUME NEW u \in Users, NEW p \in Panels, NEW a \in Amounts, PlaceBet(u, p, a),
             UNCHANGED <<stage, round>>
      PROVE  CycleInv'
  <2>1. IInv' /\ bettingOpen
    BY <1>1, PlaceBetStep DEF PlaceBet, PlaceBetResult
  <2> QED
    BY <1>1, <2>1 DEF PlaceBet, FlagsTellStage, NonePending
<1>2. ASSUME NEW i \in DOMAIN bets, NEW raw \in Raws, Cashout(i, raw),
             UNCHANGED <<stage, round>>
      PROVE  CycleInv'
  <2>1. IInv' /\ running
    BY <1>2, BetConstants, CashoutStep DEF Cashout, CanCashout
  <2> QED
    BY <1>2, <2>1 DEF Cashout, FlagsTellStage, NonePending
<1> QED
  BY <1>1, <1>2 DEF Plays

LEMMA CycleStepInv == CycleInv /\ [CycleNext]_cycleVars => CycleInv'
<1> SUFFICES ASSUME CycleInv, [CycleNext]_cycleVars PROVE CycleInv'
  OBVIOUS
<1>1. CASE Forgets
  <2>1. CycleInit' => CycleInv'
    BY CycleInitInv, PTL
  <2> QED
    BY <1>1, <2>1 DEF Forgets, CycleInit, Init
<1>2. CASE Ends
  <2>1. IInv' /\ stage' = "over"
    BY <1>2, StepInvariant DEF Ends, CycleInv
  <2> QED
    BY <2>1 DEF CycleInv, FlagsTellStage, NonePending, Stages
<1>3. CASE UNCHANGED cycleVars
  <2>1. IInv'
    BY <1>3, StepInvariant DEF cycleVars, CycleInv
  <2> QED
    BY <1>3, <2>1 DEF cycleVars, vars, CycleInv, FlagsTellStage, NonePending, Pending
<1> QED
  BY <1>1, <1>2, <1>3, CallsKeepCycle, PlaysKeepCycle DEF CycleNext

\* The flags of the bets tell where the loop is, and no bet is pending between
\* the crash of its round and the next one: none vanishes in a reset.
THEOREM CycleStages == CycleSpec => [](FlagsTellStage /\ NonePending)
<1>1. CycleInv => FlagsTellStage /\ NonePending
  BY DEF CycleInv
<1> QED
  BY CycleInitInv, CycleStepInv, <1>1, PTL DEF CycleSpec

=============================================================================
