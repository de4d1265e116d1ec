----------------------------- MODULE WinProofs -----------------------------
(***************************************************************************)
(* Proofs about a win, from the cashout to the callback that credits it.   *)
(* The first part is about AutoCashout, for any number of players,         *)
(* connections, targets, ticks, rounds and bets: a bet that is cashed out  *)
(* is held by one goroutine, which settles it (HeldByOne, SettledOrHeld).  *)
(* The second part is about what it settles it with, CreditSettle.         *)
(* The third tells which win one that is answered as known is taken for.   *)
(***************************************************************************)
EXTENDS AutoCashout, CreditSettle, FiniteSetTheorems, TLAPS

BP == INSTANCE BetManagerProofs WITH
        Panels <- {Panel}, Amounts <- {1}, RoundIds <- 1..MaxRounds,
        Raws <- Ticks \cup {1000}, MaxInt <- 100000, NoRound <- 0,
        stage <- CycleStage

ReaderHolds(c, i) == At(c, "settle") /\ readers[c].bet = i
ForwarderHolds(i) == forwarder.step = "settle" /\ forwarder.bet = i
Held(i) == ForwarderHolds(i) \/ \E c \in Conns : ReaderHolds(c, i)

HeldByOne ==
  \A i \in 1..MaxBets :
    /\ \A c, d \in Conns : ReaderHolds(c, i) /\ ReaderHolds(d, i) => c = d
    /\ \A c \in Conns : ReaderHolds(c, i) => ~ForwarderHolds(i)

SettledOrHeld ==
  \A i \in 1..MaxBets :
    /\ i \in won => credited[i] = IF Held(i) THEN 0 ELSE 1
    /\ i \notin won => credited[i] = 0 /\ ~Held(i)

\* Why a bet is not cashed out twice: the engine refuses one that is settled.
PendingUnwon == \A i \in DOMAIN bets : bets[i].state = "PENDING" => i \notin won

Wins == HeldByOne /\ SettledOrHeld /\ PendingUnwon
Types == TypeOK /\ BP!IInv /\ nextBet <= MaxBets
IInv == Types /\ Wins

-----------------------------------------------------------------------------
(* The bets of the engine.                                                 *)

\* The calls of AutoCashout are steps of BetManager.
LEMMA CallsAreSteps ==
  /\ \A r \in 1..MaxRounds : Bets!OpenRound(r) => BP!Next
  /\ Bets!CloseBetting => BP!Next
  /\ Bets!StartRound => BP!Next
  /\ Bets!Crash => BP!Next
  /\ Bets!ResetRound => BP!Next
  /\ \A u \in Users : Bets!PlaceBet(u, Panel, 1) => BP!Next
  /\ \A i \in DOMAIN bets, raw \in Ticks \cup {1000} : Bets!Cashout(i, raw) => BP!Next
<1>1. \A r \in 1..MaxRounds : Bets!OpenRound(r) => BP!OpenRound(r)
  BY DEF Bets!OpenRound, Bets!CanOpenRound, BP!OpenRound, BP!CanOpenRound
<1>2. Bets!CloseBetting => BP!CloseBetting
  BY DEF Bets!CloseBetting, Bets!CanCloseBetting, BP!CloseBetting, BP!CanCloseBetting
<1>3. Bets!StartRound => BP!StartRound
  BY DEF Bets!StartRound, Bets!CanStartRound, BP!StartRound, BP!CanStartRound
<1>4. Bets!Crash => BP!Crash
  BY DEF Bets!Crash, Bets!CanCrash, Bets!Losing, Bets!Pending, Bets!Settled, Bets!Key,
         Bets!Keys, Bets!NoBet, BP!Crash, BP!CanCrash, BP!Losing, BP!Pending, BP!Settled,
         BP!Key, BP!Keys, BP!NoBet
<1>5. Bets!ResetRound => BP!ResetRound
  BY DEF Bets!ResetRound, Bets!CanResetRound, Bets!Keys, Bets!NoBet,
         BP!ResetRound, BP!CanResetRound, BP!Keys, BP!NoBet
<1>6. \A u \in Users : Bets!PlaceBet(u, Panel, 1) => BP!PlaceBet(u, Panel, 1)
  BY
  DEF Bets!PlaceBet, Bets!PlaceBetResult, Bets!NoBet, BP!PlaceBet, BP!PlaceBetResult, BP!NoBet
<1>7. ASSUME NEW i \in DOMAIN bets, NEW raw, Bets!Cashout(i, raw)
      PROVE  BP!Cashout(i, raw)
  <2>1. Bets!Normalize(raw) = BP!Normalize(raw)
    BY DEF Bets!Normalize, BP!Normalize
  <2>2. Bets!ValidMultiplier(raw) => BP!ValidMultiplier(raw)
    <3>1. Bets!MaxMultiplier = BP!MaxMultiplier
      BY SMT DEF Bets!MaxMultiplier, BP!MaxMultiplier
    <3> QED
      BY <3>1 DEF Bets!ValidMultiplier, BP!ValidMultiplier
  <2>3. \A amount, cents : Bets!Payout(amount, cents) = BP!Payout(amount, cents)
    BY DEF Bets!Payout, BP!Payout, Bets!Wrap, BP!Wrap
  <2>4. \A amount, cents :
          Bets!PayoutAccepted(amount, cents) => BP!PayoutAccepted(amount, cents)
    BY <2>3 DEF Bets!PayoutAccepted, BP!PayoutAccepted
  <2>5. BP!CanCashout(i, raw)
    BY <1>7, <2>1, <2>2, <2>4 DEF Bets!Cashout, Bets!CanCashout, BP!CanCashout
  <2>6. \A b, multi, payout : Bets!Settled(b, "CASHED_OUT", multi, payout)
                             = BP!Settled(b, "CASHED_OUT", multi, payout)
    BY DEF Bets!Settled, BP!Settled
  <2>7. Bets!Key(bets[i]) = BP!Key(bets[i]) /\ Bets!NoBet = BP!NoBet
    BY DEF Bets!Key, BP!Key, Bets!NoBet, BP!NoBet
  <2>8. bets' = [bets EXCEPT ![i] = BP!Settled(bets[i], "CASHED_OUT", BP!Normalize(raw),
                                       BP!Payout(bets[i].amount, BP!Normalize(raw)))]
    BY <1>7, <2>1, <2>3, <2>6, Zenon DEF Bets!Cashout
  <2> QED
    BY <1>7, <2>5, <2>7, <2>8, Zenon DEF Bets!Cashout, BP!Cashout
<1>8. \A u \in Users : BP!PlaceBet(u, Panel, 1) => BP!Next
  BY Zenon DEF BP!Next
<1>9. \A i \in DOMAIN bets, raw \in Ticks \cup {1000} : BP!Cashout(i, raw) => BP!Next
  BY Zenon DEF BP!Next
<1>10. \A r \in 1..MaxRounds : BP!OpenRound(r) => BP!Next
  BY Zenon DEF BP!Next
<1>11. BP!CloseBetting \/ BP!StartRound \/ BP!Crash \/ BP!ResetRound => BP!Next
  BY DEF BP!Next
<1> QED
  BY <1>1, <1>2, <1>3, <1>4, <1>5, <1>6, <1>7, <1>8, <1>9, <1>10, <1>11

LEMMA BetsTypes == BP!IInv => Bets!TypeOK
  BY DEF BP!IInv, BP!TypeOK, Bets!TypeOK, BP!Bet, Bets!Bet, BP!Keys, Bets!Keys,
         BP!BetStates, Bets!BetStates

LEMMA BetsStep == BP!IInv /\ (BP!Next \/ UNCHANGED bmVars) => BP!IInv' /\ Bets!TypeOK'
<1>1. BP!IInv /\ (BP!Next \/ UNCHANGED bmVars) => BP!IInv'
  BY BP!StepInvariant, CashoutConstants DEF bmVars, BP!vars
<1>2. BP!IInv' => Bets!TypeOK'
  BY BetsTypes, PTL
<1> QED
  BY <1>1, <1>2

\* Who bets, and which bets a panel may name.
LEMMA BetFacts ==
  ASSUME Types
  PROVE  /\ nextBet \in 0..MaxBets /\ DOMAIN bets \subseteq 1..nextBet
         /\ DOMAIN bets \subseteq 1..MaxBets
         /\ \A i \in DOMAIN bets : bets[i].user \in Users
         /\ \A c \in Conns : User(c) \in Users /\ PanelBet(c) \in 0..MaxBets
<1>1. nextBet \in 0..MaxBets /\ DOMAIN bets \subseteq 1..nextBet
  BY CashoutConstants DEF Types, TypeOK, Bets!TypeOK
<1>2. DOMAIN bets \subseteq 1..MaxBets
  BY <1>1, CashoutConstants
<1>3. \A i \in DOMAIN bets : bets[i].user \in Users
  BY DEF Types, TypeOK, Bets!TypeOK, Bets!Bet
<1>4. ASSUME NEW c \in Conns
      PROVE  User(c) \in Users /\ PanelBet(c) \in 0..MaxBets
  <2>1. User(c) \in Users /\ <<User(c), Panel>> \in BP!Keys
    BY DEF Conns, User, BP!Keys
  <2>2. CASE PanelBet(c) = 0
    BY <2>1, <2>2, CashoutConstants
  <2>3. CASE PanelBet(c) # 0
    BY <1>2, <2>1, <2>3
    DEF PanelBet, Types, BP!IInv, BP!PanelIndexExact, BP!Pending, BP!NoBet
  <2> QED
    BY <2>1, <2>2, <2>3
<1> QED
  BY <1>1, <1>2, <1>3, <1>4

LEMMA BetsQuiet ==
  ASSUME Types, UNCHANGED bmVars
  PROVE  Bets!TypeOK' /\ BP!IInv' /\ nextBet' <= MaxBets
  BY BetsStep DEF Types, bmVars

\* Whatever the engine is asked to do, only a bet that is placed becomes pending.
LEMMA PendingKept ==
  ASSUME Types,
         \/ \E r \in 1..MaxRounds : Bets!OpenRound(r)
         \/ Bets!CloseBetting \/ Bets!StartRound \/ Bets!Crash \/ Bets!ResetRound
         \/ UNCHANGED bmVars
  PROVE  /\ Bets!TypeOK' /\ BP!IInv' /\ nextBet' = nextBet
         /\ \A i \in DOMAIN bets' :
              bets'[i].state = "PENDING" => i \in DOMAIN bets /\ bets[i].state = "PENDING"
<1>1. Bets!TypeOK' /\ BP!IInv'
  BY CallsAreSteps, BetsStep DEF Types
<1>2. CASE Bets!Crash
  <2>1. DOMAIN bets' = DOMAIN bets /\ nextBet' = nextBet
    BY <1>2 DEF Bets!Crash
  <2>2. ASSUME NEW i \in DOMAIN bets, bets'[i].state = "PENDING"
        PROVE  bets[i].state = "PENDING"
    <3>1. CASE i \in Bets!Losing
      BY <3>1 DEF Bets!Losing, Bets!Pending
    <3>2. CASE i \notin Bets!Losing
      BY <1>2, <2>2, <3>2 DEF Bets!Crash
    <3> QED
      BY <3>1, <3>2
  <2> QED
    BY <1>1, <2>1, <2>2
<1>3. CASE Bets!ResetRound
  <2>1. DOMAIN bets' = {} /\ nextBet' = nextBet
    BY <1>3 DEF Bets!ResetRound
  <2> QED
    BY <1>1, <2>1
<1>4. CASE UNCHANGED <<bets, nextBet>>
  BY <1>1, <1>4
<1> QED
  BY <1>2, <1>3, <1>4
  DEF Bets!OpenRound, Bets!CloseBetting, Bets!StartRound, bmVars

-----------------------------------------------------------------------------
(* What a step does to the wins.                                           *)

\* Nothing: no settlement begins or ends.
LEMMA WinsQuiet ==
  ASSUME IInv, UNCHANGED <<won, credited>>,
         \A c \in Conns, i \in 1..MaxBets : ReaderHolds(c, i)' <=> ReaderHolds(c, i),
         \A i \in 1..MaxBets : ForwarderHolds(i)' <=> ForwarderHolds(i),
         \A i \in DOMAIN bets' : bets'[i].state = "PENDING" =>
           i \notin won \/ (i \in DOMAIN bets /\ bets[i].state = "PENDING")
  PROVE  Wins'
<1>1. \A i \in 1..MaxBets : Held(i)' <=> Held(i)
  BY DEF Held
<1>2. HeldByOne'
  BY DEF IInv, Wins, HeldByOne
<1>3. SettledOrHeld'
  BY <1>1 DEF IInv, Wins, SettledOrHeld
<1>4. PendingUnwon'
  BY DEF IInv, Wins, PendingUnwon
<1> QED
  BY <1>2, <1>3, <1>4 DEF Wins

\* eng.Cashout succeeds: the bet was not won, and is no longer pending.
LEMMA PaysFacts ==
  ASSUME IInv, NEW i, Pays(i)
  PROVE  /\ i \in 1..MaxBets /\ i \in 1..nextBet /\ i \notin won
         /\ credited[i] = 0 /\ ~Held(i)
         /\ won' = won \cup {i}
         /\ Bets!TypeOK' /\ BP!IInv' /\ nextBet' = nextBet
         /\ \A j \in DOMAIN bets' : bets'[j].state = "PENDING" =>
              j # i /\ j \in DOMAIN bets /\ bets[j].state = "PENDING"
<1>1. i \in DOMAIN bets /\ bets[i].state = "PENDING"
  BY DEF Pays, Bets!Cashout, Bets!CanCashout
<1>2. i \in 1..MaxBets /\ i \in 1..nextBet
  BY <1>1, BetFacts DEF IInv
<1>3. i \notin won /\ credited[i] = 0 /\ ~Held(i)
  BY <1>1, <1>2 DEF IInv, Wins, PendingUnwon, SettledOrHeld
<1>4. Bets!TypeOK' /\ BP!IInv'
  <2>1. multiplier \in Ticks \cup {1000}
    BY DEF IInv, Types, TypeOK
  <2> QED
    BY <1>1, <2>1, CallsAreSteps, BetsStep DEF IInv, Types, Pays
<1>5. PICK m, p : /\ bets' = [bets EXCEPT ![i] = Bets!Settled(bets[i], "CASHED_OUT", m, p)]
                  /\ nextBet' = nextBet
  BY Zenon DEF Pays, Bets!Cashout
<1>6. bets'[i].state = "CASHED_OUT"
  BY <1>1, <1>5 DEF Bets!Settled
<1>7. DOMAIN bets' = DOMAIN bets /\ \A j \in DOMAIN bets \ {i} : bets'[j] = bets[j]
  BY <1>5
<1> QED
  BY <1>2, <1>3, <1>4, <1>5, <1>6, <1>7 DEF Pays

\* ... and who asked for it, who held nothing, now holds it.
LEMMA WinsTaken ==
  ASSUME IInv, NEW i, Pays(i), UNCHANGED credited,
         \/ /\ \A j \in 1..MaxBets : ForwarderHolds(j)' <=> ForwarderHolds(j)
            /\ \E c \in Conns :
                 /\ \A j \in 1..MaxBets : ReaderHolds(c, j)' <=> j = i
                 /\ \A j \in 1..MaxBets : ~ReaderHolds(c, j)
                 /\ \A d \in Conns \ {c}, j \in 1..MaxBets :
                      ReaderHolds(d, j)' <=> ReaderHolds(d, j)
         \/ /\ \A c \in Conns, j \in 1..MaxBets : ReaderHolds(c, j)' <=> ReaderHolds(c, j)
            /\ \A j \in 1..MaxBets : ForwarderHolds(j)' <=> j = i
            /\ \A j \in 1..MaxBets : ~ForwarderHolds(j)
  PROVE  Wins'
<1> USE PaysFacts
<1>1. Held(i)' /\ \A j \in 1..MaxBets : j # i => (Held(j)' <=> Held(j))
  BY DEF Held
<1>2. HeldByOne'
  BY DEF IInv, Wins, HeldByOne, Held
<1>3. SettledOrHeld'
  BY <1>1 DEF IInv, Wins, SettledOrHeld
<1>4. PendingUnwon'
  BY DEF IInv, Wins, PendingUnwon
<1> QED
  BY <1>2, <1>3, <1>4 DEF Wins

\* The bet is settled by who held it.
LEMMA WinsLetGo ==
  ASSUME IInv, NEW i, Credits(i), UNCHANGED <<won, bets>>,
         \/ /\ \A j \in 1..MaxBets : ForwarderHolds(j)' <=> ForwarderHolds(j)
            /\ \E c \in Conns :
                 /\ \A j \in 1..MaxBets : ~ReaderHolds(c, j)'
                 /\ \A j \in 1..MaxBets : ReaderHolds(c, j) <=> j = i
                 /\ \A d \in Conns \ {c}, j \in 1..MaxBets :
                      ReaderHolds(d, j)' <=> ReaderHolds(d, j)
         \/ /\ \A c \in Conns, j \in 1..MaxBets : ReaderHolds(c, j)' <=> ReaderHolds(c, j)
            /\ \A j \in 1..MaxBets : ~ForwarderHolds(j)'
            /\ \A j \in 1..MaxBets : ForwarderHolds(j) <=> j = i
  PROVE  Wins' /\ credited' \in [1..MaxBets -> Nat]
<1>1. credited \in [1..MaxBets -> Nat]
  BY DEF IInv, Types, TypeOK
<1>2. /\ credited' \in [1..MaxBets -> Nat]
      /\ \A j \in 1..MaxBets : credited'[j] = IF j = i THEN credited[j] + 1 ELSE credited[j]
  <2>1. CASE i \in 1..MaxBets
    BY <1>1, <2>1 DEF Credits
  <2>2. CASE i \notin 1..MaxBets
    <3>1. credited' = credited
      BY <1>1, <2>2 DEF Credits
    <3> QED
      BY <1>1, <2>2, <3>1
  <2> QED
    BY <2>1, <2>2
<1>3. ASSUME i \in 1..MaxBets PROVE Held(i) /\ ~Held(i)'
  <2>1. Held(i)
    BY <1>3 DEF Held
  <2>2. \A c, d \in Conns : ReaderHolds(c, i) /\ ReaderHolds(d, i) => c = d
    BY <1>3 DEF IInv, Wins, HeldByOne
  <2>3. \A c \in Conns : ReaderHolds(c, i) => ~ForwarderHolds(i)
    BY <1>3 DEF IInv, Wins, HeldByOne
  <2>4. ~ForwarderHolds(i)' /\ \A c \in Conns : ~ReaderHolds(c, i)'
    BY <1>3, <2>2, <2>3
  <2> QED
    BY <2>1, <2>4 DEF Held
<1>4. \A j \in 1..MaxBets : j # i => (Held(j)' <=> Held(j))
  BY DEF Held
<1>5. HeldByOne'
  BY DEF IInv, Wins, HeldByOne
<1>6. SettledOrHeld'
  BY <1>1, <1>2, <1>3, <1>4 DEF IInv, Wins, SettledOrHeld
<1>7. PendingUnwon'
  BY DEF IInv, Wins, PendingUnwon
<1> QED
  BY <1>2, <1>5, <1>6, <1>7 DEF Wins

-----------------------------------------------------------------------------
(* The invariant: the initial states and the engine.                       *)

LEMMA InitInv == Init => IInv
<1> SUFFICES ASSUME Init PROVE IInv
  OBVIOUS
<1>1. BP!IInv
  <2>1. BP!Init
    BY DEF Init, Bets!Init, BP!Init, Bets!Keys, BP!Keys, Bets!NoBet, BP!NoBet
  <2> QED
    BY <2>1, BP!InitInvariant, CashoutConstants
<1>2. nextBet = 0 /\ DOMAIN bets = {}
  BY DEF Init, Bets!Init
<1>3. /\ registered \in [Users -> 0..MaxConns]
      /\ active \in [Conns -> 0..MaxBets] /\ readers \in [Conns -> Reader]
      /\ credited \in [1..MaxBets -> Nat]
  BY CashoutConstants DEF Init, Reader, ReaderSteps, NoBet, Bets!NoBet
<1>4. target \in [1..nextBet -> Targets]
  BY <1>2 DEF Init
<1>5. TypeOK
  BY <1>1, <1>2, <1>3, <1>4, BetsTypes, CashoutConstants DEF Init, TypeOK, Forwarder
<1>6. ~forwarder.step = "settle" /\ \A c \in Conns : ~At(c, "settle")
  BY DEF Init, Idle, At
<1>7. Wins
  BY <1>2, <1>6 DEF Init, Wins, HeldByOne, SettledOrHeld, PendingUnwon, Held,
                    ReaderHolds, ForwarderHolds
<1> QED
  BY <1>1, <1>2, <1>5, <1>7, CashoutConstants DEF IInv, Types

LEMMA EngineInv ==
  ASSUME IInv, Engine
  PROVE  IInv'
<1> USE DEF Types
<1>1. UNCHANGED <<registered, active, readers, forwarder, target, histVars>>
  BY DEF Engine, OpenRound, StartRound, Tick, CrashBets, SendCrash, EngineStep
<1>2. /\ \/ \E r \in 1..MaxRounds : Bets!OpenRound(r)
         \/ Bets!CloseBetting \/ Bets!StartRound \/ Bets!Crash \/ Bets!ResetRound
         \/ UNCHANGED bmVars
      /\ round' \in 0..MaxRounds
  <2>1. CASE OpenRound
    <3>1. round' \in 1..MaxRounds
      BY <2>1, CashoutConstants DEF OpenRound, IInv, TypeOK
    <3> QED
      BY <2>1, <3>1, CashoutConstants DEF OpenRound
  <2> QED
    BY <2>1 DEF Engine, StartRound, Tick, CrashBets, SendCrash, IInv, TypeOK
<1>3. /\ Bets!TypeOK' /\ BP!IInv' /\ nextBet' = nextBet
      /\ \A i \in DOMAIN bets' :
           bets'[i].state = "PENDING" => i \in DOMAIN bets /\ bets[i].state = "PENDING"
  BY <1>2, PendingKept DEF IInv
<1>4. stage' \in {"create", "close", "start", "fly", "send", "reset"}
  BY DEF Engine, OpenRound, StartRound, Tick, CrashBets, SendCrash, EngineStep
<1>5. multiplier' \in Ticks \cup {1000}
  <2>1. Tick => multiplier' \in Ticks
    BY DEF Tick
  <2>2. StartRound => multiplier' = 1000
    BY DEF StartRound
  <2>3. Tick \/ StartRound \/ multiplier' = multiplier
    BY DEF Engine, OpenRound, CrashBets, SendCrash
  <2> QED
    BY <2>1, <2>2, <2>3 DEF IInv, TypeOK
<1>6. lostBets' \subseteq Users
  <2>1. CASE CrashBets
    BY <2>1, BetFacts DEF CrashBets, Bets!Losing, Bets!Pending, IInv
  <2> QED
    BY <2>1 DEF Engine, OpenRound, StartRound, Tick, SendCrash, IInv, TypeOK
<1>7. channel' \in Seq(Event) /\ Len(channel') <= EventBuffer
  <2>1. CASE UNCHANGED channel
    BY <2>1 DEF IInv, TypeOK
  <2>2. ASSUME NEW e \in Event, Len(channel) < EventBuffer, channel' = Append(channel, e)
        PROVE  <1>7!:
    <3>1. channel \in Seq(Event) /\ EventBuffer \in Nat
      BY CashoutConstants DEF IInv, TypeOK
    <3>2. channel' \in Seq(Event) /\ Len(channel') = Len(channel) + 1
      BY <2>2, <3>1
    <3> QED
      BY <2>2, <3>1, <3>2
  <2>3. CASE Tick
    <3>1. \A m \in Ticks : [type |-> "TICK", mult |-> m] \in Event
      BY DEF Event
    <3> QED
      BY <2>1, <2>2, <2>3, <3>1 DEF Tick
  <2>4. CASE SendCrash
    <3>1. [type |-> "CRASH", lost |-> lostBets] \in Event
      BY DEF Event, IInv, TypeOK
    <3> QED
      BY <2>2, <2>4, <3>1 DEF SendCrash
  <2> QED
    BY <2>1, <2>3, <2>4 DEF Engine, OpenRound, StartRound, CrashBets
<1>8. TypeOK'
  BY <1>1, <1>2, <1>3, <1>4, <1>5, <1>6, <1>7 DEF IInv, TypeOK, histVars
<1>9. Wins'
  BY <1>1, <1>3, WinsQuiet DEF histVars, ReaderHolds, ForwarderHolds, At
<1> QED
  BY <1>3, <1>8, <1>9 DEF IInv

-----------------------------------------------------------------------------
(* The readers.                                                            *)

LEMMA ReaderMoves ==
  ASSUME IInv, NEW c \in Conns, NEW step \in ReaderSteps, NEW bet \in 0..MaxBets,
         Reads(c, step, bet)
  PROVE  /\ readers' \in [Conns -> Reader]
         /\ readers'[c].step = step /\ readers'[c].bet = bet
         /\ \A d \in Conns \ {c} : readers'[d] = readers[d]
<1>1. readers \in [Conns -> Reader]
  BY DEF IInv, Types, TypeOK
<1> QED
  BY <1>1 DEF Reads, Reader

\* What a reader that holds nothing, and takes nothing, leaves alone.
LEMMA ReaderHoldsNothing ==
  ASSUME IInv, NEW c \in Conns, ~At(c, "settle"),
         NEW step \in ReaderSteps \ {"settle"}, NEW bet \in 0..MaxBets,
         Reads(c, step, bet), ReaderOnly
  PROVE  /\ readers' \in [Conns -> Reader]
         /\ \A d \in Conns, i \in 1..MaxBets : ReaderHolds(d, i)' <=> ReaderHolds(d, i)
         /\ \A i \in 1..MaxBets : ForwarderHolds(i)' <=> ForwarderHolds(i)
  BY ReaderMoves DEF ReaderHolds, ForwarderHolds, At, ReaderOnly

LEMMA ReaderQuiet ==
  ASSUME IInv, NEW c \in Conns, ~At(c, "settle"),
         NEW step \in ReaderSteps \ {"settle"}, NEW bet \in 0..MaxBets,
         Reads(c, step, bet), ReaderOnly, Quiet,
         registered' \in [Users -> 0..MaxConns], active' \in [Conns -> 0..MaxBets]
  PROVE  IInv'
<1>1. Bets!TypeOK' /\ BP!IInv' /\ nextBet' <= MaxBets
  BY BetsQuiet DEF IInv, Quiet
<1>2. UNCHANGED <<bets, nextBet, won, credited, target>>
  BY DEF Quiet, bmVars
<1>3. TypeOK'
  BY <1>1, <1>2, ReaderHoldsNothing DEF IInv, Types, TypeOK, ReaderOnly
<1>4. Wins'
  BY <1>2, ReaderHoldsNothing, WinsQuiet
<1> QED
  BY <1>1, <1>3, <1>4 DEF IInv, Types

\* The steps that move no bet.
LEMMA TrackingInv ==
  ASSUME IInv, NEW c \in Conns,
         \/ Register(c) \/ Rehydrate(c) \/ Track(c) \/ Unregister(c) \/ Bet(c)
         \/ Reuse(c) \/ AskCashout(c)
  PROVE  IInv'
<1> DEFINE Quietly(step, bet) ==
             /\ step \in ReaderSteps \ {"settle"} /\ bet \in 0..MaxBets
             /\ Reads(c, step, bet)
<1>1. ~At(c, "settle") /\ ReaderOnly /\ Quiet
  BY DEF Register, Rehydrate, Track, Unregister, Bet, Reuse, AskCashout, At
<1>2. /\ NoBet \in 0..MaxBets /\ PanelBet(c) \in 0..MaxBets
      /\ active[c] \in 0..MaxBets /\ readers[c].bet \in 0..MaxBets
  BY BetFacts, CashoutConstants DEF IInv, Types, TypeOK, NoBet, Bets!NoBet, Reader
<1>3. User(c) \in Users /\ c[2] \in 0..MaxConns
  BY CashoutConstants DEF Conns, User
<1>4. \E step, bet : Quietly(step, bet)
  <2>1. \A step, bet : /\ step \in {"ready", "rehydrate", "restore", "gone", "debit",
                                    "placed", "cashout"}
                       /\ bet \in {NoBet, PanelBet(c), active[c]}
                       /\ Reads(c, step, bet)
                       => Quietly(step, bet)
    BY <1>2 DEF ReaderSteps
  <2>2. \E step, bet : /\ step \in {"ready", "rehydrate", "restore", "gone", "debit",
                                    "placed", "cashout"}
                       /\ bet \in {NoBet, PanelBet(c), active[c]}
                       /\ Reads(c, step, bet)
    BY DEF Register, Rehydrate, Track, Unregister, Bet, Reuse, AskCashout, Ready
  <2> QED
    BY <2>1, <2>2
<1>5. registered' \in [Users -> 0..MaxConns]
  <2>1. registered \in [Users -> 0..MaxConns]
    BY DEF IInv, Types, TypeOK
  <2> QED
    BY <1>3, <2>1, CashoutConstants
    DEF Register, Rehydrate, Track, Unregister, Bet, Reuse, AskCashout
<1>6. active' \in [Conns -> 0..MaxBets]
  <2>1. active \in [Conns -> 0..MaxBets]
    BY DEF IInv, Types, TypeOK
  <2> QED
    BY <1>2, <2>1 DEF Register, Rehydrate, Track, Unregister, Bet, Reuse, AskCashout
<1> QED
  BY <1>1, <1>4, <1>5, <1>6, ReaderQuiet

\* A bet is placed under a number nobody has won.
LEMMA PlacesInv ==
  ASSUME IInv, NEW c \in Conns, PlaceBet(c), Bets!PlaceBet(User(c), Panel, 1)
  PROVE  IInv'
<1>1. /\ Bets!TypeOK' /\ BP!IInv'
  BY BetFacts, CallsAreSteps, BetsStep DEF IInv, Types
<1>2. /\ nextBet < MaxBets /\ nextBet' = nextBet + 1
      /\ DOMAIN bets' = DOMAIN bets \cup {nextBet + 1}
      /\ \A i \in DOMAIN bets : i # nextBet + 1 => bets'[i] = bets[i]
  BY DEF Bets!PlaceBet
<1>3. nextBet \in 0..MaxBets /\ DOMAIN bets \subseteq 1..nextBet /\ nextBet' \in 1..MaxBets
  BY <1>2, BetFacts, CashoutConstants DEF IInv
<1>4. PICK t \in Targets :
        /\ target' = [i \in 1..nextBet' |-> IF i = nextBet' THEN t ELSE target[i]]
        /\ Reads(c, "placed", nextBet')
  <2>1. Bets!PlaceBetResult(User(c), Panel) = "OK"
    BY DEF Bets!PlaceBet
  <2> QED
    BY <2>1 DEF PlaceBet
<1>5. target' \in [1..nextBet' -> Targets]
  BY <1>2, <1>3, <1>4 DEF IInv, Types, TypeOK
<1>6. ReaderOnly /\ UNCHANGED <<won, credited, registered, active>> /\ ~At(c, "settle")
  BY DEF PlaceBet, At
<1>7. /\ readers' \in [Conns -> Reader]
      /\ \A d \in Conns, i \in 1..MaxBets : ReaderHolds(d, i)' <=> ReaderHolds(d, i)
      /\ \A i \in 1..MaxBets : ForwarderHolds(i)' <=> ForwarderHolds(i)
  <2>1. "placed" \in ReaderSteps \ {"settle"} /\ nextBet' \in 0..MaxBets
    BY <1>3 DEF ReaderSteps
  <2> QED
    BY <1>4, <1>6, <2>1, ReaderHoldsNothing
<1>8. won' \subseteq 1..nextBet'
  BY <1>2, <1>3, <1>6 DEF IInv, Types, TypeOK
<1>9. TypeOK'
  BY <1>1, <1>5, <1>6, <1>7, <1>8 DEF IInv, Types, TypeOK, ReaderOnly
<1>10. nextBet + 1 \notin won
  BY <1>3 DEF IInv, Types, TypeOK
<1>11. Wins'
  BY <1>2, <1>6, <1>7, <1>10, WinsQuiet
<1> QED
  BY <1>1, <1>3, <1>9, <1>11 DEF IInv, Types

LEMMA PlaceBetInv ==
  ASSUME IInv, NEW c \in Conns, PlaceBet(c)
  PROVE  IInv'
<1>1. CASE Bets!PlaceBet(User(c), Panel, 1)
  BY <1>1, PlacesInv
<1>2. CASE ~Bets!PlaceBet(User(c), Panel, 1)
  <2>1. /\ Reads(c, "exists", NoBet) \/ Reads(c, "ready", NoBet)
        /\ ReaderOnly /\ Quiet /\ UNCHANGED <<registered, active>> /\ ~At(c, "settle")
    BY <1>2 DEF PlaceBet, Ready, Quiet, At
  <2>2. NoBet \in 0..MaxBets /\ {"exists", "ready"} \subseteq ReaderSteps \ {"settle"}
    BY CashoutConstants DEF NoBet, Bets!NoBet, ReaderSteps
  <2>3. registered' \in [Users -> 0..MaxConns] /\ active' \in [Conns -> 0..MaxBets]
    BY <2>1 DEF IInv, Types, TypeOK
  <2> QED
    BY <2>1, <2>2, <2>3, ReaderQuiet
<1> QED
  BY <1>1, <1>2

\* By hand: the reader whose cashout is paid holds the win.
LEMMA CashoutInv ==
  ASSUME IInv, NEW c \in Conns, Cashout(c)
  PROVE  IInv'
<1> DEFINE i == readers[c].bet
<1>1. ReaderOnly /\ UNCHANGED <<registered, active, credited, target>> /\ At(c, "cashout")
  BY DEF Cashout
<1>2. ~At(c, "settle") /\ i \in 0..MaxBets
  BY <1>1 DEF At, IInv, Types, TypeOK, Reader
<1>3. registered' \in [Users -> 0..MaxConns] /\ active' \in [Conns -> 0..MaxBets]
  BY <1>1 DEF IInv, Types, TypeOK
<1>4. CASE Refuses(i) /\ Ready(c)
  <2>1. NoBet \in 0..MaxBets /\ "ready" \in ReaderSteps \ {"settle"}
    BY CashoutConstants DEF NoBet, Bets!NoBet, ReaderSteps
  <2>2. Quiet
    BY <1>1, <1>4 DEF Refuses, Quiet
  <2> QED
    BY <1>1, <1>2, <1>3, <1>4, <2>1, <2>2, ReaderQuiet DEF Ready
<1>5. CASE Pays(i) /\ Reads(c, "settle", i)
  <2> HIDE DEF i
  <2>1. "settle" \in ReaderSteps
    BY DEF ReaderSteps
  <2>2. /\ readers' \in [Conns -> Reader]
        /\ readers'[c].step = "settle" /\ readers'[c].bet = i
        /\ \A d \in Conns \ {c} : readers'[d] = readers[d]
    BY <1>2, <1>5, <2>1, ReaderMoves
  <2>3. /\ \A j \in 1..MaxBets : ForwarderHolds(j)' <=> ForwarderHolds(j)
        /\ \A j \in 1..MaxBets : ReaderHolds(c, j)' <=> j = i
        /\ \A j \in 1..MaxBets : ~ReaderHolds(c, j)
        /\ \A d \in Conns \ {c}, j \in 1..MaxBets : ReaderHolds(d, j)' <=> ReaderHolds(d, j)
    BY <1>1, <1>2, <2>2 DEF ReaderHolds, ForwarderHolds, At, ReaderOnly
  <2>4. Wins'
    BY <1>1, <1>5, <2>3, WinsTaken
  <2>5. /\ Bets!TypeOK' /\ BP!IInv' /\ nextBet' = nextBet
        /\ i \in 1..nextBet /\ won' = won \cup {i}
    BY <1>5, PaysFacts
  <2>6. /\ autoPaid' \subseteq won' /\ won' \subseteq 1..nextBet'
        /\ nextBet' <= MaxBets
    BY <1>1, <2>5 DEF IInv, Types, TypeOK, ReaderOnly
  <2>7. TypeOK'
    BY <1>1, <2>2, <2>5, <2>6 DEF IInv, Types, TypeOK, ReaderOnly
  <2> QED
    BY <2>4, <2>5, <2>6, <2>7 DEF IInv, Types
<1> QED
  BY <1>4, <1>5 DEF Cashout

LEMMA SettleInv ==
  ASSUME IInv, NEW c \in Conns, Settle(c)
  PROVE  IInv'
<1> DEFINE i == readers[c].bet
<1>1. /\ At(c, "settle") /\ Credits(i) /\ Untracks(c) /\ Ready(c) /\ ReaderOnly
      /\ UNCHANGED <<bmVars, won, target, registered>>
  BY DEF Settle
<1>2. NoBet \in 0..MaxBets /\ "ready" \in ReaderSteps
  BY CashoutConstants DEF NoBet, Bets!NoBet, ReaderSteps
<1>3. active' \in [Conns -> 0..MaxBets]
  BY <1>1, <1>2 DEF Untracks, IInv, Types, TypeOK
<1>4. /\ readers' \in [Conns -> Reader] /\ readers'[c].step = "ready"
      /\ \A d \in Conns \ {c} : readers'[d] = readers[d]
  BY <1>1, <1>2, ReaderMoves DEF Ready
<1>5. /\ \A j \in 1..MaxBets : ForwarderHolds(j)' <=> ForwarderHolds(j)
      /\ \A j \in 1..MaxBets : ~ReaderHolds(c, j)'
      /\ \A j \in 1..MaxBets : ReaderHolds(c, j) <=> j = i
      /\ \A d \in Conns \ {c}, j \in 1..MaxBets : ReaderHolds(d, j)' <=> ReaderHolds(d, j)
  BY <1>1, <1>4 DEF ReaderHolds, ForwarderHolds, At, ReaderOnly
<1> HIDE DEF i
<1>6. Wins' /\ credited' \in [1..MaxBets -> Nat]
  BY <1>1, <1>5, WinsLetGo DEF bmVars
<1>7. Bets!TypeOK' /\ BP!IInv' /\ nextBet' <= MaxBets
  BY <1>1, BetsQuiet DEF IInv
<1>8. TypeOK'
  BY <1>1, <1>3, <1>4, <1>6, <1>7 DEF IInv, Types, TypeOK, ReaderOnly, bmVars
<1> QED
  BY <1>6, <1>7, <1>8 DEF IInv, Types

-----------------------------------------------------------------------------
(* The forwarder.                                                          *)

LEMMA ForwarderShape ==
  ASSUME IInv
  PROVE  /\ \/ forwarder = Idle
            \/ /\ forwarder.step \in {"tick", "cashout", "settle"}
               /\ forwarder.mult \in Ticks /\ forwarder.todo \subseteq Conns
         /\ forwarder.step \in {"cashout", "settle"} =>
              /\ forwarder.conn \in Conns /\ forwarder.bet \in 1..MaxBets
              /\ forwarder = [step |-> forwarder.step, mult |-> forwarder.mult,
                              todo |-> forwarder.todo, conn |-> forwarder.conn,
                              bet |-> forwarder.bet]
         /\ forwarder.step = "tick" =>
              forwarder = [step |-> "tick", mult |-> forwarder.mult, todo |-> forwarder.todo]
         /\ Idle.step = "idle"
<1>1. \/ forwarder = Idle
      \/ forwarder \in [step: {"tick"}, mult: Ticks, todo: SUBSET Conns]
      \/ forwarder \in [step: {"cashout", "settle"}, mult: Ticks, todo: SUBSET Conns,
                        conn: Conns, bet: 1..MaxBets]
  BY DEF IInv, Types, TypeOK, Forwarder
<1>2. Idle.step = "idle"
  BY DEF Idle
<1>3. CASE forwarder = Idle
  <2>1. forwarder.step \notin {"tick", "cashout", "settle"}
    BY <1>2, <1>3
  <2> QED
    BY <1>2, <1>3, <2>1
<1>4. CASE forwarder \in [step: {"tick"}, mult: Ticks, todo: SUBSET Conns]
  BY <1>2, <1>4
<1>5. CASE forwarder \in [step: {"cashout", "settle"}, mult: Ticks, todo: SUBSET Conns,
                          conn: Conns, bet: 1..MaxBets]
  BY <1>2, <1>5
<1> QED
  BY <1>1, <1>3, <1>4, <1>5

\* A step of the forwarder that holds nothing, and takes nothing.
LEMMA ForwarderQuiet ==
  ASSUME IInv, forwarder.step # "settle", forwarder'.step # "settle",
         forwarder' \in Forwarder, channel' \in Seq(Event), Len(channel') <= EventBuffer,
         active' \in [Conns -> 0..MaxBets], ForwarderOnly, UNCHANGED histVars
  PROVE  IInv'
<1>1. Bets!TypeOK' /\ BP!IInv' /\ nextBet' <= MaxBets
  BY BetsQuiet DEF IInv, ForwarderOnly, engineVars
<1>2. TypeOK'
  BY <1>1 DEF IInv, Types, TypeOK, ForwarderOnly, engineVars, bmVars, histVars
<1>3. Wins'
  BY WinsQuiet
  DEF ForwarderOnly, engineVars, bmVars, histVars, ReaderHolds, ForwarderHolds, At
<1> QED
  BY <1>1, <1>2, <1>3 DEF IInv, Types

\* What the client of a tick is served with.
LEMMA NextClientStep ==
  ASSUME IInv, forwarder.step \in {"tick", "cashout", "settle"}, NextClient
  PROVE  forwarder' \in Forwarder /\ forwarder'.step = "tick"
  BY ForwarderShape DEF NextClient, Forwarder, Idle

LEMMA ReceiveInv ==
  ASSUME IInv, Receive
  PROVE  IInv'
<1> DEFINE ev == Head(channel)
<1>1. channel \in Seq(Event) /\ channel # <<>> /\ channel' = Tail(channel)
      /\ Len(channel) <= EventBuffer
  BY DEF Receive, IInv, Types, TypeOK
<1>2. ev \in Event /\ channel' \in Seq(Event) /\ Len(channel') <= EventBuffer
  BY <1>1, CashoutConstants
<1>3. forwarder.step # "settle" /\ ForwarderOnly /\ UNCHANGED histVars
  BY ForwarderShape DEF Receive
<1>4. CASE ev.type = "TICK" /\ UNCHANGED active
           /\ forwarder' = [step |-> "tick", mult |-> ev.mult,
                            todo |-> {c \in Conns : Connected(c)}]
  <2>1. ev.mult \in Ticks
    BY <1>2, <1>4 DEF Event
  <2>2. forwarder' \in Forwarder /\ forwarder'.step # "settle"
    BY <1>4, <2>1 DEF Forwarder
  <2>3. active' \in [Conns -> 0..MaxBets]
    BY <1>4 DEF IInv, Types, TypeOK
  <2> QED
    BY <1>2, <1>3, <2>2, <2>3, ForwarderQuiet
<1>5. CASE UNCHANGED forwarder
           /\ active' = [c \in Conns |-> IF Connected(c) /\ User(c) \in ev.lost
                                         THEN NoBet ELSE active[c]]
  <2>1. active' \in [Conns -> 0..MaxBets]
    BY <1>5, CashoutConstants DEF IInv, Types, TypeOK, NoBet, Bets!NoBet
  <2>2. forwarder' \in Forwarder /\ forwarder'.step # "settle"
    BY <1>3, <1>5 DEF IInv, Types, TypeOK
  <2> QED
    BY <1>2, <1>3, <2>1, <2>2, ForwarderQuiet
<1> QED
  BY <1>4, <1>5 DEF Receive

LEMMA CheckInv ==
  ASSUME IInv, NEW c \in Conns, Check(c)
  PROVE  IInv'
<1>1. /\ forwarder.step = "tick" /\ ForwarderOnly /\ UNCHANGED <<channel, active, histVars>>
      /\ forwarder.mult \in Ticks /\ forwarder.todo \subseteq Conns
      /\ forwarder = [step |-> "tick", mult |-> forwarder.mult, todo |-> forwarder.todo]
  BY ForwarderShape DEF Check
<1>2. active[c] \in 0..MaxBets /\ NoBet = 0
  BY DEF IInv, Types, TypeOK, NoBet, Bets!NoBet
<1>3. forwarder' \in Forwarder /\ forwarder'.step # "settle"
  <2> DEFINE rest == forwarder.todo \ {c}
  <2>1. CASE Reached(c, forwarder.mult)
    <3>1. active[c] \in 1..MaxBets
      BY <1>2, <2>1, CashoutConstants DEF Reached
    <3>2. forwarder' = [step |-> "cashout", mult |-> forwarder.mult, todo |-> rest,
                        conn |-> c, bet |-> active[c]]
      BY <2>1 DEF Check
    <3> QED
      BY <1>1, <3>1, <3>2 DEF Forwarder
  <2>2. CASE ~Reached(c, forwarder.mult)
    <3>1. forwarder' = [step |-> "tick", mult |-> forwarder.mult, todo |-> rest]
      BY <1>1, <2>2 DEF Check
    <3> QED
      BY <1>1, <3>1 DEF Forwarder
  <2> QED
    BY <2>1, <2>2
<1>4. /\ channel' \in Seq(Event) /\ Len(channel') <= EventBuffer
      /\ active' \in [Conns -> 0..MaxBets]
  BY <1>1 DEF IInv, Types, TypeOK
<1> QED
  BY <1>1, <1>3, <1>4, ForwarderQuiet

\* On a tick: the forwarder whose cashout is paid holds the win.
LEMMA AutoCashoutInv == IInv /\ AutoCashout => IInv'
<1> SUFFICES ASSUME IInv, AutoCashout PROVE IInv'
  OBVIOUS
<1> DEFINE i == forwarder.bet
<1>1. /\ forwarder.step = "cashout" /\ i \in 1..MaxBets
      /\ UNCHANGED <<stage, round, multiplier, lostBets, channel, registered, active,
                     readers, target, credited>>
  BY ForwarderShape DEF AutoCashout
<1>2. CASE Refuses(i) /\ NextClient /\ UNCHANGED autoPaid
  <2>1. forwarder' \in Forwarder /\ forwarder'.step # "settle"
    BY <1>1, <1>2, NextClientStep
  <2>2. ForwarderOnly /\ UNCHANGED histVars
    BY <1>1, <1>2 DEF Refuses, ForwarderOnly, engineVars, histVars
  <2>3. /\ channel' \in Seq(Event) /\ Len(channel') <= EventBuffer
        /\ active' \in [Conns -> 0..MaxBets]
    BY <1>1 DEF IInv, Types, TypeOK
  <2> QED
    BY <1>1, <2>1, <2>2, <2>3, ForwarderQuiet
<1>3. CASE /\ Pays(i) /\ autoPaid' = autoPaid \cup {i}
           /\ forwarder' = [forwarder EXCEPT !.step = "settle"]
  <2>1. forwarder' \in Forwarder /\ forwarder'.step = "settle" /\ forwarder'.bet = i
    <3>1. forwarder' = [step |-> "settle", mult |-> forwarder.mult, todo |-> forwarder.todo,
                        conn |-> forwarder.conn, bet |-> i]
      BY <1>1, <1>3, ForwarderShape
    <3> QED
      BY <1>1, <3>1, ForwarderShape DEF Forwarder, Idle
  <2> HIDE DEF i
  <2>2. /\ \A c \in Conns, j \in 1..MaxBets : ReaderHolds(c, j)' <=> ReaderHolds(c, j)
        /\ \A j \in 1..MaxBets : ForwarderHolds(j)' <=> j = i
        /\ \A j \in 1..MaxBets : ~ForwarderHolds(j)
    BY <1>1, <2>1 DEF ReaderHolds, ForwarderHolds, At
  <2>3. Wins'
    BY <1>1, <1>3, <2>2, WinsTaken
  <2>4. /\ Bets!TypeOK' /\ BP!IInv' /\ nextBet' = nextBet
        /\ i \in 1..nextBet /\ won' = won \cup {i}
    BY <1>3, PaysFacts
  <2>5. /\ autoPaid' \subseteq won' /\ won' \subseteq 1..nextBet'
        /\ nextBet' <= MaxBets
    BY <1>3, <2>4 DEF IInv, Types, TypeOK
  <2>6. TypeOK'
    BY <1>1, <2>1, <2>4, <2>5 DEF IInv, Types, TypeOK
  <2> QED
    BY <2>3, <2>4, <2>5, <2>6 DEF IInv, Types
<1> QED
  BY <1>2, <1>3 DEF AutoCashout

LEMMA AutoSettleInv == IInv /\ AutoSettle => IInv'
<1> SUFFICES ASSUME IInv, AutoSettle PROVE IInv'
  OBVIOUS
<1> DEFINE i == forwarder.bet
<1>1. /\ forwarder.step = "settle" /\ Credits(i) /\ NextClient
      /\ Untracks(forwarder.conn) /\ ForwarderOnly /\ UNCHANGED <<channel, autoPaid, won>>
  BY DEF AutoSettle
<1>2. forwarder' \in Forwarder /\ forwarder'.step = "tick"
  BY <1>1, NextClientStep
<1>3. active' \in [Conns -> 0..MaxBets]
  <2>1. NoBet \in 0..MaxBets /\ active \in [Conns -> 0..MaxBets]
    BY CashoutConstants DEF NoBet, Bets!NoBet, IInv, Types, TypeOK
  <2> QED
    BY <1>1, <2>1 DEF Untracks
<1>4. /\ \A c \in Conns, j \in 1..MaxBets : ReaderHolds(c, j)' <=> ReaderHolds(c, j)
      /\ \A j \in 1..MaxBets : ~ForwarderHolds(j)'
      /\ \A j \in 1..MaxBets : ForwarderHolds(j) <=> j = i
  BY <1>1, <1>2 DEF ReaderHolds, ForwarderHolds, At, ForwarderOnly
<1> HIDE DEF i
<1>5. Wins' /\ credited' \in [1..MaxBets -> Nat]
  BY <1>1, <1>4, WinsLetGo DEF ForwarderOnly, engineVars, bmVars
<1>6. Bets!TypeOK' /\ BP!IInv' /\ nextBet' <= MaxBets
  BY <1>1, BetsQuiet DEF IInv, ForwarderOnly, engineVars
<1>7. TypeOK'
  BY <1>1, <1>2, <1>3, <1>5, <1>6
  DEF IInv, Types, TypeOK, ForwarderOnly, engineVars, bmVars
<1> QED
  BY <1>5, <1>6, <1>7 DEF IInv, Types

LEMMA TickDoneInv == IInv /\ TickDone => IInv'
<1> SUFFICES ASSUME IInv, TickDone PROVE IInv'
  OBVIOUS
<1>1. forwarder' \in Forwarder /\ forwarder'.step # "settle" /\ forwarder.step # "settle"
  BY ForwarderShape DEF TickDone, Forwarder
<1>2. ForwarderOnly /\ UNCHANGED <<channel, active, histVars>>
  BY DEF TickDone
<1>3. /\ channel' \in Seq(Event) /\ Len(channel') <= EventBuffer
      /\ active' \in [Conns -> 0..MaxBets]
  BY <1>2 DEF IInv, Types, TypeOK
<1> QED
  BY <1>1, <1>2, <1>3, ForwarderQuiet

-----------------------------------------------------------------------------
LEMMA StepInv == IInv /\ [Next]_vars => IInv'
<1> SUFFICES ASSUME IInv, [Next]_vars PROVE IInv'
  OBVIOUS
<1>1. CASE Engine
  BY <1>1, EngineInv
<1>2. CASE Forward
  BY <1>2, ReceiveInv, CheckInv, AutoCashoutInv, AutoSettleInv, TickDoneInv DEF Forward
<1>3. ASSUME NEW c \in Conns,
             Register(c) \/ Unregister(c) \/ Bet(c) \/ AskCashout(c) \/ Serve(c)
      PROVE  IInv'
  BY <1>3, TrackingInv, PlaceBetInv, CashoutInv, SettleInv DEF Serve
<1>4. CASE UNCHANGED vars
  <2>1. Bets!TypeOK' /\ BP!IInv' /\ nextBet' <= MaxBets
    BY <1>4, BetsQuiet DEF IInv, vars, engineVars
  <2>2. TypeOK'
    BY <1>4, <2>1 DEF IInv, Types, TypeOK, vars, engineVars, bmVars, histVars
  <2>3. Wins'
    BY <1>4, WinsQuiet
    DEF vars, engineVars, bmVars, histVars, ReaderHolds, ForwarderHolds, At
  <2> QED
    BY <2>1, <2>2, <2>3 DEF IInv, Types
<1> QED
  BY <1>1, <1>2, <1>3, <1>4 DEF Next

\* The types of every reachable state.
THEOREM CashoutTypes == Spec => []TypeOK
<1>1. IInv => TypeOK
  BY DEF IInv, Types
<1> QED
  BY <1>1, InitInv, StepInv, PTL DEF Spec

\* A win is held by one goroutine until it is settled, and is settled once.
LEMMA HeldOrSettled == IInv => WinsSettledOnce
<1> SUFFICES ASSUME IInv, NEW i \in 1..MaxBets
             PROVE  LET holders == {c \in Conns : At(c, "settle") /\ readers[c].bet = i}
                        held == Cardinality(holders)
                                + IF forwarder.step = "settle" /\ forwarder.bet = i
                                  THEN 1 ELSE 0
                    IN  credited[i] + held = IF i \in won THEN 1 ELSE 0
  BY DEF WinsSettledOnce
<1> DEFINE holders == {c \in Conns : At(c, "settle") /\ readers[c].bet = i}
<1>1. holders = {c \in Conns : ReaderHolds(c, i)}
  BY DEF ReaderHolds
<1>2. /\ \A c, d \in Conns : ReaderHolds(c, i) /\ ReaderHolds(d, i) => c = d
      /\ \A c \in Conns : ReaderHolds(c, i) => ~ForwarderHolds(i)
      /\ i \in won => credited[i] = IF Held(i) THEN 0 ELSE 1
      /\ i \notin won => credited[i] = 0 /\ ~Held(i)
  BY DEF IInv, Wins, HeldByOne, SettledOrHeld
<1>3. CASE \E c \in Conns : ReaderHolds(c, i)
  <2>1. PICK c \in Conns : ReaderHolds(c, i)
    BY <1>3
  <2>2. holders = {c}
    BY <1>1, <1>2, <2>1
  <2>3. Cardinality(holders) = 1
    BY <2>2, FS_Singleton
  <2>4. Held(i) /\ ~ForwarderHolds(i)
    BY <1>2, <2>1 DEF Held
  <2> QED
    BY <1>2, <2>3, <2>4 DEF ForwarderHolds
<1>4. CASE ~\E c \in Conns : ReaderHolds(c, i)
  <2>1. holders = {}
    BY <1>1, <1>4
  <2>2. Cardinality(holders) = 0
    BY <2>1, FS_EmptySet
  <2>3. Held(i) <=> ForwarderHolds(i)
    BY <1>4 DEF Held
  <2> QED
    BY <1>2, <2>2, <2>3 DEF ForwarderHolds
<1> QED
  BY <1>3, <1>4

\* Whoever competes for a bet, whatever becomes of its connection and of its
\* round, a win is settled once and by the goroutine that cashed it out.
THEOREM WinsAlwaysSettledOnce == Spec => []WinsSettledOnce
  BY HeldOrSettled, InitInv, StepInv, PTL DEF Spec

-----------------------------------------------------------------------------
(* The engine makes its calls in the order of BetCycle.                    *)

\* The calls on the bets are those of BetCycle.
LEMMA CallsAreCycles ==
  /\ \A r \in 1..MaxRounds : Bets!OpenRound(r) => Cycle!OpenRound(r)
  /\ Bets!CloseBetting => Cycle!CloseBetting
  /\ Bets!StartRound => Cycle!StartRound
  /\ Bets!Crash => Cycle!Crash
  /\ Bets!ResetRound => Cycle!ResetRound
  /\ \A u \in Users : Bets!PlaceBet(u, Panel, 1) => Cycle!PlaceBet(u, Panel, 1)
<1>1. \A r \in 1..MaxRounds : Bets!OpenRound(r) => Cycle!OpenRound(r)
  BY DEF Bets!OpenRound, Bets!CanOpenRound, Cycle!OpenRound, Cycle!CanOpenRound
<1>2. Bets!CloseBetting => Cycle!CloseBetting
  BY DEF Bets!CloseBetting, Bets!CanCloseBetting, Cycle!CloseBetting, Cycle!CanCloseBetting
<1>3. Bets!StartRound => Cycle!StartRound
  BY DEF Bets!StartRound, Bets!CanStartRound, Cycle!StartRound, Cycle!CanStartRound
<1>4. Bets!Crash => Cycle!Crash
  BY DEF Bets!Crash, Bets!CanCrash, Bets!Losing, Bets!Pending, Bets!Settled, Bets!Key,
     Bets!Keys, Bets!NoBet, Cycle!Crash, Cycle!CanCrash, Cycle!Losing, Cycle!Pending,
     Cycle!Settled, Cycle!Key, Cycle!Keys, Cycle!NoBet
<1>5. Bets!ResetRound => Cycle!ResetRound
  BY DEF Bets!ResetRound, Bets!CanResetRound, Bets!Keys, Bets!NoBet,
     Cycle!ResetRound, Cycle!CanResetRound, Cycle!Keys, Cycle!NoBet
<1>6. \A u \in Users : Bets!PlaceBet(u, Panel, 1) => Cycle!PlaceBet(u, Panel, 1)
  BY DEF Bets!PlaceBet, Bets!PlaceBetResult, Bets!NoBet, Cycle!PlaceBet, Cycle!PlaceBetResult, Cycle!NoBet
<1> QED
  BY <1>1, <1>2, <1>3, <1>4, <1>5, <1>6

LEMMA CashoutIsCycle ==
  ASSUME NEW i, NEW raw, Bets!Cashout(i, raw)
  PROVE  Cycle!Cashout(i, raw)
<1>1. Bets!Normalize(raw) = Cycle!Normalize(raw)
  BY DEF Bets!Normalize, Cycle!Normalize
<1>2. Bets!ValidMultiplier(raw) => Cycle!ValidMultiplier(raw)
  <2>1. Bets!MaxMultiplier = Cycle!MaxMultiplier
    BY SMT DEF Bets!MaxMultiplier, Cycle!MaxMultiplier
  <2> QED
    BY <2>1 DEF Bets!ValidMultiplier, Cycle!ValidMultiplier
<1>3. \A amount, cents : Bets!Payout(amount, cents) = Cycle!Payout(amount, cents)
  BY DEF Bets!Payout, Cycle!Payout, Bets!Wrap, Cycle!Wrap
<1>4. \A amount, cents : Bets!PayoutAccepted(amount, cents) => Cycle!PayoutAccepted(amount, cents)
  BY <1>3 DEF Bets!PayoutAccepted, Cycle!PayoutAccepted
<1>5. Cycle!CanCashout(i, raw)
  BY <1>1, <1>2, <1>4 DEF Bets!Cashout, Bets!CanCashout, Cycle!CanCashout
<1>6. \A b, multi, payout : Bets!Settled(b, "CASHED_OUT", multi, payout)
                           = Cycle!Settled(b, "CASHED_OUT", multi, payout)
  BY DEF Bets!Settled, Cycle!Settled
<1>7. Bets!Key(bets[i]) = Cycle!Key(bets[i]) /\ Bets!NoBet = Cycle!NoBet
  BY DEF Bets!Key, Bets!NoBet, Cycle!Key, Cycle!NoBet
<1>8. bets' = [bets EXCEPT ![i] = Cycle!Settled(bets[i], "CASHED_OUT", Cycle!Normalize(raw),
                                     Cycle!Payout(bets[i].amount, Cycle!Normalize(raw)))]
  BY <1>1, <1>3, <1>6, Zenon DEF Bets!Cashout
<1> QED
  BY <1>5, <1>7, <1>8, Zenon DEF Bets!Cashout, Cycle!Cashout

\* The calls of the engine, and its ticks and events between them.
LEMMA EngineCycles ==
  ASSUME IInv, Engine
  PROVE  Cycle!CycleNext \/ UNCHANGED <<bmVars, CycleStage, round>>
<1>1. CASE OpenRound
  <2>1. round' = round + 1 /\ round' \in 1..MaxRounds
    BY <1>1, CashoutConstants DEF OpenRound, IInv, Types, TypeOK
  <2>2. Cycle!OpenRound(round')
    BY <1>1, <2>1, CallsAreCycles DEF OpenRound
  <2>3. CycleStage = "create" /\ CycleStage' = "close"
    BY <1>1 DEF OpenRound, EngineStep, CycleStage
  <2> QED
    BY <2>1, <2>2, <2>3 DEF Cycle!CycleNext, Cycle!Opens, Cycle!Moves
<1>2. CASE Tick \/ SendCrash
  BY <1>2 DEF Tick, SendCrash, EngineStep, CycleStage
<1>3. CASE Engine /\ ~OpenRound /\ ~Tick /\ ~SendCrash
  <2>1. /\ round' = round
        /\ \/ EngineStep("close", "start") /\ Bets!CloseBetting
           \/ EngineStep("start", "fly") /\ Bets!StartRound
           \/ EngineStep("fly", "send") /\ Bets!Crash
           \/ EngineStep("reset", "create") /\ Bets!ResetRound
    BY <1>3 DEF Engine, StartRound, CrashBets
  <2>2. \/ Cycle!Moves("close", "start") /\ Cycle!CloseBetting
        \/ Cycle!Moves("start", "crash") /\ Cycle!StartRound
        \/ Cycle!Moves("crash", "reset") /\ Cycle!Crash
        \/ Cycle!Moves("reset", "create") /\ Cycle!ResetRound
    BY <2>1, CallsAreCycles DEF EngineStep, CycleStage, Cycle!Moves
  <2> QED
    BY <2>1, <2>2 DEF Cycle!CycleNext, Cycle!Closes, Cycle!Starts, Cycle!Crashes, Cycle!Resets
<1> QED
  BY <1>1, <1>2, <1>3

\* A cashout, by hand or automatic, is a player's call.
LEMMA PaysCycles ==
  ASSUME IInv, NEW i, Pays(i), UNCHANGED <<stage, round>>
  PROVE  Cycle!CycleNext
<1>1. i \in DOMAIN bets /\ Cycle!Cashout(i, multiplier)
  BY CashoutIsCycle DEF Pays, Bets!Cashout, Bets!CanCashout
<1>2. multiplier \in Ticks \cup {1000} /\ CycleStage' = CycleStage
  BY DEF IInv, Types, TypeOK, CycleStage
<1>3. Cycle!Plays
  BY <1>1, <1>2 DEF Cycle!Plays
<1> QED
  BY <1>3 DEF Cycle!CycleNext

LEMMA ConnectionCycles ==
  ASSUME IInv, NEW c \in Conns,
         Register(c) \/ Unregister(c) \/ Bet(c) \/ AskCashout(c) \/ Serve(c)
  PROVE  Cycle!CycleNext \/ UNCHANGED <<bmVars, CycleStage, round>>
<1>1. CASE PlaceBet(c)
  <2>1. CASE Bets!PlaceBet(User(c), Panel, 1)
    <3>1. User(c) \in Users /\ Cycle!PlaceBet(User(c), Panel, 1)
      BY <2>1, BetFacts, CallsAreCycles DEF IInv
    <3>2. Cycle!Plays
      BY <1>1, <3>1 DEF PlaceBet, ReaderOnly, CycleStage, Cycle!Plays
    <3> QED
      BY <3>2 DEF Cycle!CycleNext
  <2>2. CASE UNCHANGED bmVars
    BY <1>1, <2>2 DEF PlaceBet, ReaderOnly, CycleStage
  <2> QED
    BY <1>1, <2>1, <2>2 DEF PlaceBet
<1>2. CASE Cashout(c)
  <2>1. UNCHANGED <<stage, round>> /\ (Pays(readers[c].bet) \/ UNCHANGED bmVars)
    BY <1>2 DEF Cashout, Refuses, ReaderOnly
  <2> QED
    BY <2>1, PaysCycles DEF CycleStage
<1>3. CASE \/ Register(c) \/ Unregister(c) \/ Bet(c) \/ AskCashout(c)
           \/ Rehydrate(c) \/ Track(c) \/ Reuse(c) \/ Settle(c)
  BY <1>3 DEF Register, Unregister, Bet, AskCashout, Rehydrate, Track, Reuse, Settle,
              ReaderOnly, Quiet, CycleStage
<1> QED
  BY <1>1, <1>2, <1>3 DEF Serve

LEMMA ForwardCycles ==
  ASSUME IInv, Forward
  PROVE  Cycle!CycleNext \/ UNCHANGED <<bmVars, CycleStage, round>>
<1>1. CASE AutoCashout
  <2>1. UNCHANGED <<stage, round>> /\ (Pays(forwarder.bet) \/ UNCHANGED bmVars)
    BY <1>1 DEF AutoCashout, Refuses
  <2> QED
    BY <2>1, PaysCycles DEF CycleStage
<1>2. CASE Forward /\ ~AutoCashout
  BY <1>2 DEF Forward, Receive, AutoSettle, TickDone, Check, ForwarderOnly, engineVars, CycleStage
<1> QED
  BY <1>1, <1>2

\* The engine AutoCashout is composed with keeps to the order that CrashEngine
\* is proved to keep, whatever connections and forwarder do.
THEOREM CashoutsImplementCycle == Spec => ImplementsCycle
<1>1. Init => Cycle!CycleInit
  BY DEF Init, Bets!Init, Bets!Keys, Bets!NoBet, CycleStage,
         Cycle!CycleInit, Cycle!Init, Cycle!Keys, Cycle!NoBet
<1>2. IInv /\ [Next]_vars => [Cycle!CycleNext]_Cycle!cycleVars
  <2> SUFFICES ASSUME IInv, [Next]_vars
               PROVE  Cycle!CycleNext \/ UNCHANGED <<bmVars, CycleStage, round>>
    BY DEF bmVars, Cycle!cycleVars, Cycle!vars
  <2>1. CASE UNCHANGED vars
    BY <2>1 DEF vars, engineVars, CycleStage
  <2> QED
    BY <2>1, EngineCycles, ForwardCycles, ConnectionCycles DEF Next
<1> QED
  BY <1>1, <1>2, InitInv, StepInv, PTL DEF Spec, ImplementsCycle, Cycle!CycleSpec

-----------------------------------------------------------------------------
(* The settlement of a win: CreditSettle, for any number of bets,          *)
(* processes, attempts and errors of the database.  Who may enqueue the    *)
(* callback of a key is alone, created its entry, and no callback of that  *)
(* key was ever enqueued (EnqueuesAlone): what a retry finds, the entry,   *)
(* is what stops it.                                                       *)

KeyUntouched ==
  \A n \in Numbers :
    entries[n] = NoEntry => enqueued[n] = 0 /\ n \notin queue /\ n \notin paid

EnqueuesAlone ==
  \A w \in DOMAIN wins : wins[w].step = "enqueue" =>
    /\ entries[w[2]] # NoEntry /\ enqueued[w[2]] = 0
    /\ \A v \in DOMAIN wins : wins[v].step = "enqueue" /\ v[2] = w[2] => v = w

CreditInv == CreditTypeOK /\ KeyUntouched /\ EnqueuesAlone /\ OneCallback

-----------------------------------------------------------------------------
\* The entries are told from none by their status.
LEMMA EntryFacts ==
  /\ \A e \in Entry : e # NoEntry /\ e.status \in {"PENDING", "CONFIRMED", "FAILED"}
  /\ NoEntry.status = "NONE"
  BY DEF Entry, NoEntry

\* A settlement that moves on.
LEMMA WinMoves ==
  ASSUME CreditTypeOK, NEW w \in DOMAIN wins, NEW step \in Steps,
         wins' = [wins EXCEPT ![w].step = step]
  PROVE  /\ DOMAIN wins' = DOMAIN wins /\ wins' \in [DOMAIN wins -> Win]
         /\ wins'[w].step = step /\ wins'[w].amount = wins[w].amount
         /\ wins'[w].tries = wins[w].tries
         /\ \A v \in DOMAIN wins \ {w} : wins'[v] = wins[v]
<1>1. wins[w] = [amount |-> wins[w].amount, step |-> wins[w].step, tries |-> wins[w].tries]
      /\ wins[w].amount \in Amounts /\ wins[w].tries \in 0..MaxTries
  BY DEF CreditTypeOK, Win
<1>2. [wins[w] EXCEPT !.step = step]
      = [amount |-> wins[w].amount, step |-> step, tries |-> wins[w].tries]
  BY <1>1
<1>3. [wins[w] EXCEPT !.step = step] \in Win
  BY <1>1, <1>2 DEF Win
<1> QED
  BY <1>2, <1>3 DEF CreditTypeOK

\* A settlement that is put off.
LEMMA WinDefers ==
  ASSUME CreditTypeOK, NEW w \in DOMAIN wins, Defers(w)
  PROVE  /\ DOMAIN wins' = DOMAIN wins /\ wins' \in [DOMAIN wins -> Win]
         /\ wins'[w].step \in {"unregistered", "deferred"}
         /\ wins'[w].step = Deferred(wins[w])
         /\ wins'[w].tries \in {wins[w].tries, wins[w].tries + 1}
         /\ wins'[w].amount = wins[w].amount
         /\ \A v \in DOMAIN wins \ {w} : wins'[v] = wins[v]
<1> DEFINE step == Deferred(wins[w])
           tries == IF wins[w].tries < MaxTries THEN wins[w].tries + 1 ELSE wins[w].tries
<1>1. wins[w] = [amount |-> wins[w].amount, step |-> wins[w].step, tries |-> wins[w].tries]
      /\ wins[w].amount \in Amounts /\ wins[w].tries \in 0..MaxTries
  BY DEF CreditTypeOK, Win
<1>2. wins' = [wins EXCEPT ![w] = [amount |-> wins[w].amount, step |-> step, tries |-> tries]]
  <2> DEFINE once == [wins[w] EXCEPT !.step = step]
             first == [wins EXCEPT ![w] = once]
  <2>1. wins' = [first EXCEPT ![w] = [first[w] EXCEPT !.tries = tries]]
    BY DEF Defers
  <2>2. once = [amount |-> wins[w].amount, step |-> step, tries |-> wins[w].tries]
    BY <1>1
  <2>3. first[w] = once
    BY DEF CreditTypeOK
  <2>4. [once EXCEPT !.tries = tries]
        = [amount |-> wins[w].amount, step |-> step, tries |-> tries]
    <3>1. ASSUME NEW a, NEW b, NEW t, NEW u
          PROVE  [[amount |-> a, step |-> b, tries |-> t] EXCEPT !.tries = u]
                 = [amount |-> a, step |-> b, tries |-> u]
      OBVIOUS
    <3> HIDE DEF step, tries
    <3>2. [[amount |-> wins[w].amount, step |-> step, tries |-> wins[w].tries]
           EXCEPT !.tries = tries]
          = [amount |-> wins[w].amount, step |-> step, tries |-> tries]
      BY <3>1
    <3> QED
      BY <2>2, <3>2, Zenon
  <2>5. ASSUME NEW a, NEW b
        PROVE  [[wins EXCEPT ![w] = a] EXCEPT ![w] = b] = [wins EXCEPT ![w] = b]
    OBVIOUS
  <2>6. wins' = [first EXCEPT
                   ![w] = [amount |-> wins[w].amount, step |-> step, tries |-> tries]]
    BY <2>1, <2>3, <2>4, Zenon
  <2> QED
    BY <2>5, <2>6
<1>3. step \in {"unregistered", "deferred"} /\ tries \in 0..MaxTries
  BY <1>1, CreditConstants DEF Deferred
<1>5. tries \in {wins[w].tries, wins[w].tries + 1} /\ step = Deferred(wins[w])
  OBVIOUS
<1> HIDE DEF step, tries
<1>4. [amount |-> wins[w].amount, step |-> step, tries |-> tries] \in Win
  BY <1>1, <1>3 DEF Win, Steps
<1> QED
  BY <1>2, <1>3, <1>4, <1>5 DEF CreditTypeOK

LEMMA CreditInitInv == CreditInit => CreditInv
  BY EntryFacts, CreditConstants
  DEF CreditInv, KeyUntouched, EnqueuesAlone, CreditInit, CreditTypeOK,
      OneCallback, Processes, Numbers, Win

LEMMA NewBetInv == CreditInv /\ NewBet => CreditInv'
<1> SUFFICES ASSUME CreditInv, NewBet PROVE CreditInv'
  OBVIOUS
<1>1. CASE UNCHANGED wins
  BY <1>1, CreditConstants DEF CreditInv, KeyUntouched, EnqueuesAlone, NewBet,
              CreditTypeOK, OneCallback
<1>2. ASSUME NEW a \in Amounts, NEW w, w = <<process, numbered + 1>>,
             wins' = [v \in DOMAIN wins \cup {w} |->
                        IF v = w THEN [amount |-> a, step |-> "begin", tries |-> 0]
                        ELSE wins[v]]
      PROVE  CreditInv'
  <2>1. w \in Processes \X Numbers
    BY <1>2, CreditConstants DEF NewBet, CreditInv, CreditTypeOK, Numbers
  <2>2. [amount |-> a, step |-> "begin", tries |-> 0] \in Win
    BY CreditConstants DEF CreditInv, Win, Steps
  <2>3. DOMAIN wins' = DOMAIN wins \cup {w} /\ wins' \in [DOMAIN wins' -> Win]
    BY <1>2, <2>2 DEF CreditInv, CreditTypeOK
  <2>4. /\ wins'[w].step = "begin"
        /\ \A v \in DOMAIN wins \ {w} : wins'[v] = wins[v]
    BY <1>2
  <2>5. /\ UNCHANGED <<process, entries, queue, enqueued, paid, faults>>
        /\ numbered' \in 0..MaxNumbers
    BY CreditConstants DEF NewBet, CreditInv, CreditTypeOK
  <2> QED
    BY <2>1, <2>3, <2>4, <2>5
    DEF CreditInv, KeyUntouched, EnqueuesAlone, CreditTypeOK, OneCallback
<1> QED
  BY <1>1, <1>2 DEF NewBet

LEMMA BeginInv ==
  ASSUME CreditInv, NEW w \in Live, BeginOnce(w)
  PROVE  CreditInv'
<1> DEFINE n == w[2]
<1>1. w \in DOMAIN wins /\ w \in Processes \X Numbers /\ n \in Numbers
      /\ wins[w].step \in {"begin", "deferred"} /\ wins[w].amount \in Amounts
  BY DEF Live, BeginOnce, CreditInv, CreditTypeOK, Win
<1>2. UNCHANGED <<process, numbered, queue, enqueued, paid>> /\ faults' \in 0..MaxFaults
  BY CreditConstants DEF BeginOnce, Fault, CreditInv, CreditTypeOK
<1>3. entries[n] \in Entry \cup {NoEntry}
  BY <1>1 DEF CreditInv, CreditTypeOK
<1>4. /\ DOMAIN wins' = DOMAIN wins /\ wins' \in [DOMAIN wins -> Win]
      /\ \A v \in DOMAIN wins \ {w} : wins'[v] = wins[v]
      /\ \/ wins'[w].step = "enqueue" /\ entries[n] = NoEntry /\ entries'[n] # NoEntry
         \/ wins'[w].step # "enqueue"
  <2>1. CASE /\ entries[n] = NoEntry /\ Goto(w, "enqueue")
             /\ entries' = [entries EXCEPT ![n] =
                              [win |-> w, amount |-> wins[w].amount, status |-> "PENDING"]]
    <3>1. entries'[n] # NoEntry
      BY <1>1, <2>1, EntryFacts DEF CreditInv, CreditTypeOK, Entry
    <3> QED
      BY <1>1, <2>1, <3>1, WinMoves DEF Goto, CreditInv, Steps
  <2>2. CASE Goto(w, Existing(entries[n], wins[w].amount))
    <3>1. Existing(entries[n], wins[w].amount) \in {"review", "known"}
      BY DEF Existing
    <3> QED
      BY <1>1, <2>2, <3>1, WinMoves DEF Goto, CreditInv, Steps
  <2>3. CASE Defers(w)
    BY <1>1, <2>3, WinDefers DEF CreditInv
  <2> QED
    BY <2>1, <2>2, <2>3 DEF BeginOnce
<1>5. \/ entries' = entries
      \/ /\ entries[n] = NoEntry
         /\ entries' = [entries EXCEPT ![n] =
                          [win |-> w, amount |-> wins[w].amount, status |-> "PENDING"]]
  BY DEF BeginOnce
<1>6. /\ entries' \in [Numbers -> Entry \cup {NoEntry}]
      /\ \A m \in Numbers : entries'[m] = NoEntry => entries[m] = NoEntry
  BY <1>1, <1>5 DEF CreditInv, CreditTypeOK, Entry
<1>7. CreditTypeOK'
  BY <1>2, <1>4, <1>6 DEF CreditInv, CreditTypeOK
<1>8. KeyUntouched' /\ OneCallback'
  BY <1>2, <1>6 DEF CreditInv, KeyUntouched, OneCallback
<1>9. EnqueuesAlone'
  <2>1. \A v \in DOMAIN wins : v[2] \in Numbers
    BY DEF CreditInv, CreditTypeOK
  <2> QED
    BY <1>1, <1>2, <1>4, <1>6, <2>1 DEF CreditInv, EnqueuesAlone, KeyUntouched
<1> QED
  BY <1>7, <1>8, <1>9 DEF CreditInv

LEMMA EnqueueInv ==
  ASSUME CreditInv, NEW w \in Live, Enqueue(w)
  PROVE  CreditInv'
<1> DEFINE n == w[2]
<1>1. w \in DOMAIN wins /\ n \in Numbers /\ wins[w].step = "enqueue"
  BY DEF Live, Enqueue, CreditInv, CreditTypeOK
<1>2. UNCHANGED <<process, numbered, entries, paid>> /\ faults' \in 0..MaxFaults
  BY CreditConstants DEF Enqueue, Fault, CreditInv, CreditTypeOK
<1>3. entries[n] # NoEntry /\ enqueued[n] = 0
  BY <1>1 DEF CreditInv, EnqueuesAlone
<1>4. /\ DOMAIN wins' = DOMAIN wins /\ wins' \in [DOMAIN wins -> Win]
      /\ wins'[w].step # "enqueue"
      /\ \A v \in DOMAIN wins \ {w} : wins'[v] = wins[v]
  BY <1>1, WinMoves DEF Enqueue, Goto, CreditInv, Steps
<1>5. Enqueues(n) \/ UNCHANGED <<queue, enqueued>>
  BY DEF Enqueue
<1>6. /\ queue' \subseteq Numbers
      /\ enqueued' \in [Numbers -> Nat] /\ enqueued'[n] <= 1
      /\ \A m \in Numbers \ {n} :
           enqueued'[m] = enqueued[m] /\ (m \in queue' <=> m \in queue)
  BY <1>1, <1>3, <1>5 DEF Enqueues, CreditInv, CreditTypeOK
<1>7. \A v \in DOMAIN wins \ {w} : v[2] \in Numbers /\ (wins[v].step = "enqueue" => v[2] # n)
  BY <1>1 DEF CreditInv, CreditTypeOK, EnqueuesAlone
<1>8. CreditTypeOK' /\ KeyUntouched' /\ OneCallback'
  BY <1>1, <1>2, <1>3, <1>4, <1>6
  DEF CreditInv, CreditTypeOK, KeyUntouched, OneCallback
<1>9. EnqueuesAlone'
  BY <1>2, <1>4, <1>6, <1>7 DEF CreditInv, EnqueuesAlone
<1> QED
  BY <1>8, <1>9 DEF CreditInv

\* The queue and the sweeper decide an entry, and pay, where there is one.
LEMMA PaysInv ==
  ASSUME CreditInv, NEW n \in Numbers, Deliver(n) \/ Sweep(n)
  PROVE  CreditInv'
<1>1. UNCHANGED <<process, numbered, wins, enqueued, faults>>
      /\ queue' \in {queue, queue \ {n}} /\ paid' \in {paid, paid \cup {n}}
  BY DEF Deliver, Sweep
<1>2. entries[n] # NoEntry
  BY EntryFacts DEF Deliver, Sweep, CreditInv, KeyUntouched
<1>3. \/ entries' = entries
      \/ \E to \in {"CONFIRMED", "FAILED"} : entries' = [entries EXCEPT ![n].status = to]
  BY DEF Deliver, Sweep, Resolved
<1>4. entries' \in [Numbers -> Entry \cup {NoEntry}]
      /\ \A m \in Numbers : entries'[m] = NoEntry <=> entries[m] = NoEntry
  <2>1. CASE entries' = entries
    BY <2>1 DEF CreditInv, CreditTypeOK
  <2>2. ASSUME NEW to \in {"CONFIRMED", "FAILED"}, entries' = [entries EXCEPT ![n].status = to]
        PROVE  <1>4!:
    <3>1. entries[n] \in Entry
      BY <1>2 DEF CreditInv, CreditTypeOK
    <3>2. [entries[n] EXCEPT !.status = to] \in Entry
      BY <3>1 DEF Entry
    <3>3. entries' = [entries EXCEPT ![n] = [entries[n] EXCEPT !.status = to]]
      BY <2>2
    <3> QED
      BY <1>2, <3>2, <3>3, EntryFacts DEF CreditInv, CreditTypeOK
  <2> QED
    BY <1>3, <2>1, <2>2
<1>5. CreditTypeOK' /\ KeyUntouched' /\ OneCallback'
  BY <1>1, <1>2, <1>4 DEF CreditInv, CreditTypeOK, KeyUntouched, OneCallback
<1>6. EnqueuesAlone'
  <2>1. \A v \in DOMAIN wins : v[2] \in Numbers
    BY DEF CreditInv, CreditTypeOK
  <2> QED
    BY <1>1, <1>4, <2>1 DEF CreditInv, EnqueuesAlone
<1> QED
  BY <1>5, <1>6 DEF CreditInv

LEMMA RestartInv == CreditInv /\ Restart => CreditInv'
<1> SUFFICES ASSUME CreditInv, Restart PROVE CreditInv'
  OBVIOUS
<1>1. UNCHANGED <<entries, queue, enqueued, paid, faults>> /\ numbered' = 0
      /\ process' \in Processes
  BY CreditConstants DEF Restart, CreditInv, CreditTypeOK, Processes
<1>2. DOMAIN wins' = DOMAIN wins
      /\ \A w \in DOMAIN wins : wins'[w] \in Win /\ wins'[w].step # "enqueue"
  BY DEF Restart, CreditInv, CreditTypeOK, Win, Steps
<1>3. wins' \in [DOMAIN wins' -> Win]
  BY <1>2 DEF Restart
<1> QED
  BY <1>1, <1>2, <1>3, CreditConstants
  DEF CreditInv, CreditTypeOK, KeyUntouched, EnqueuesAlone, OneCallback

LEMMA CreditStepInv == CreditInv /\ [CreditNext]_creditVars => CreditInv'
<1> SUFFICES ASSUME CreditInv, [CreditNext]_creditVars PROVE CreditInv'
  OBVIOUS
<1>1. ASSUME NEW w \in Live, SettleWin(w) PROVE CreditInv'
  BY <1>1, BeginInv, EnqueueInv DEF SettleWin
<1>2. ASSUME NEW n \in Numbers, Deliver(n) \/ Sweep(n) PROVE CreditInv'
  BY <1>2, PaysInv
<1>3. CASE UNCHANGED creditVars
  BY <1>3
  DEF creditVars, CreditInv, CreditTypeOK, KeyUntouched, EnqueuesAlone, OneCallback
<1> QED
  BY <1>1, <1>2, <1>3, NewBetInv, RestartInv DEF CreditNext

-----------------------------------------------------------------------------
\* The types of every reachable state.
THEOREM CreditTypes == CreditSpec => []CreditTypeOK
<1>1. CreditInv => CreditTypeOK
  BY DEF CreditInv
<1>2. CreditInit => CreditInv
  BY CreditInitInv
<1> QED
  BY <1>1, <1>2, CreditStepInv, PTL DEF CreditSpec

\* Nothing is sent, or paid, that the ledger knows nothing of.
THEOREM NothingSentUntraced == CreditSpec => []TracedBeforeSent
<1>1. CreditInv => TracedBeforeSent
  BY DEF CreditInv, KeyUntouched, TracedBeforeSent
<1>2. CreditInit => CreditInv
  BY CreditInitInv
<1> QED
  BY <1>1, <1>2, CreditStepInv, PTL DEF CreditSpec

\* However often a settlement is tried, by however many processes, one callback
\* at most is enqueued under a key.
THEOREM CallbackIsOne == CreditSpec => []OneCallback
<1>1. CreditInv => OneCallback
  BY DEF CreditInv
<1>2. CreditInit => CreditInv
  BY CreditInitInv
<1> QED
  BY <1>1, <1>2, CreditStepInv, PTL DEF CreditSpec
-----------------------------------------------------------------------------
(* Which win a win answered "already known" is taken for.                  *)

\* An entry is of a win under its key, and of the amount of that win.
EntryOfWin ==
  \A n \in Numbers : entries[n] # NoEntry =>
    LET w == entries[n].win IN
    w \in DOMAIN wins /\ w[2] = n /\ entries[n].amount = wins[w].amount

WinsNumbered ==
  \A w \in DOMAIN wins : w[1] <= process /\ (w[1] = process => w[2] <= numbered)

\* The entry of the key is the win's own, or an earlier process's of that number.
Registered(w) ==
  LET e == entries[w[2]] IN
  /\ e # NoEntry /\ e.amount = wins[w].amount
  /\ e.win = w \/ e.win[1] < w[1]

KnownIsNamesake == \A w \in DOMAIN wins : wins[w].step = "known" => Registered(w)

NameInv == CreditInv /\ EntryOfWin /\ WinsNumbered /\ KnownIsNamesake

\* Entries keep their wins, wins their amounts; a new entry is of its win.
Faithful ==
  /\ DOMAIN wins \subseteq DOMAIN wins'
  /\ \A w \in DOMAIN wins : wins'[w].amount = wins[w].amount
  /\ \A n \in Numbers : entries[n] # NoEntry =>
       /\ entries'[n] # NoEntry
       /\ entries'[n].win = entries[n].win /\ entries'[n].amount = entries[n].amount
  /\ \A n \in Numbers : entries[n] = NoEntry /\ entries'[n] # NoEntry =>
       LET w == entries'[n].win IN
       w \in DOMAIN wins /\ w[2] = n /\ entries'[n].amount = wins[w].amount

\* Who comes to be known is registered.
KnowsNamesake ==
  \A w \in DOMAIN wins' : wins'[w].step = "known" =>
    w \in DOMAIN wins /\ (wins[w].step = "known" \/ Registered(w))

LEMMA NamesKept ==
  ASSUME NameInv, CreditInv', WinsNumbered', Faithful, KnowsNamesake
  PROVE  NameInv'
<1>1. DOMAIN wins \subseteq Processes \X Numbers
  BY DEF NameInv, CreditInv, CreditTypeOK
<1>2. EntryOfWin'
  <2> SUFFICES ASSUME NEW n \in Numbers, entries'[n] # NoEntry
               PROVE  LET w == entries'[n].win IN
                      /\ w \in DOMAIN wins' /\ w[2] = n
                      /\ entries'[n].amount = wins'[w].amount
    BY DEF EntryOfWin
  <2>1. CASE entries[n] # NoEntry
    BY <2>1 DEF NameInv, EntryOfWin, Faithful
  <2>2. CASE entries[n] = NoEntry
    BY <2>2 DEF Faithful
  <2> QED
    BY <2>1, <2>2
<1>3. \A w \in DOMAIN wins : Registered(w) => Registered(w)'
  BY <1>1 DEF Registered, Faithful
<1>4. KnownIsNamesake'
  BY <1>3 DEF NameInv, KnownIsNamesake, KnowsNamesake
<1> QED
  BY <1>2, <1>4 DEF NameInv

LEMMA NewBetNames == NameInv /\ NewBet => NameInv'
<1> SUFFICES ASSUME NameInv, NewBet PROVE NameInv'
  OBVIOUS
<1>0. CreditInv' /\ UNCHANGED <<process, entries>> /\ numbered' = numbered + 1
  BY NewBetInv DEF NameInv, NewBet
<1>1. CreditInv' /\ UNCHANGED <<process, entries>> /\ numbered' = numbered + 1
      /\ numbered \in Nat /\ process \in Nat
  BY <1>0, CreditConstants DEF NameInv, CreditInv, CreditTypeOK, Processes
<1>2. DOMAIN wins \subseteq Processes \X Numbers
  BY DEF NameInv, CreditInv, CreditTypeOK
<1>3. <<process, numbered + 1>> \notin DOMAIN wins
  BY <1>1 DEF NameInv, WinsNumbered
<1>4. /\ DOMAIN wins' \in {DOMAIN wins, DOMAIN wins \cup {<<process, numbered + 1>>}}
      /\ \A w \in DOMAIN wins : wins'[w] = wins[w]
      /\ \A w \in DOMAIN wins' \ DOMAIN wins : wins'[w].step = "begin"
  BY <1>3 DEF NewBet
<1>5. WinsNumbered'
  BY <1>1, <1>2, <1>4 DEF NameInv, WinsNumbered, Numbers
<1>6. Faithful /\ KnowsNamesake
  BY <1>1, <1>4 DEF Faithful, KnowsNamesake
<1> QED
  BY <1>1, <1>5, <1>6, NamesKept

LEMMA BeginNames ==
  ASSUME NameInv, NEW w \in Live, BeginOnce(w)
  PROVE  NameInv'
<1> DEFINE n == w[2]
<1>1. /\ CreditInv' /\ UNCHANGED <<process, numbered>>
      /\ w \in DOMAIN wins /\ w \in Processes \X Numbers /\ n \in Numbers
      /\ w[1] = process /\ wins[w].step \in {"begin", "deferred"}
      /\ CreditTypeOK /\ wins[w].amount \in Amounts
  BY BeginInv DEF NameInv, BeginOnce, Live, CreditInv, CreditTypeOK, Win
<1>2. /\ DOMAIN wins' = DOMAIN wins
      /\ wins'[w].amount = wins[w].amount
      /\ \A v \in DOMAIN wins \ {w} : wins'[v] = wins[v]
      /\ wins'[w].step = "known" =>
           entries[n] # NoEntry /\ Existing(entries[n], wins[w].amount) = "known"
  <2>1. CASE entries[n] = NoEntry /\ Goto(w, "enqueue")
    BY <1>1, <2>1, WinMoves DEF Goto, Steps
  <2>2. CASE entries[n] # NoEntry /\ Goto(w, Existing(entries[n], wins[w].amount))
    <3>1. Existing(entries[n], wins[w].amount) \in Steps
      BY DEF Existing, Steps
    <3> QED
      BY <1>1, <2>2, <3>1, WinMoves DEF Goto
  <2>3. CASE Defers(w)
    BY <1>1, <2>3, WinDefers
  <2> QED
    BY <2>1, <2>2, <2>3 DEF BeginOnce
<1>3. \/ entries' = entries
      \/ /\ entries[n] = NoEntry
         /\ entries' = [entries EXCEPT ![n] =
                          [win |-> w, amount |-> wins[w].amount, status |-> "PENDING"]]
  BY DEF BeginOnce
<1>4. Faithful
  BY <1>1, <1>2, <1>3 DEF Faithful, CreditTypeOK
<1>5. entries[n] # NoEntry /\ Existing(entries[n], wins[w].amount) = "known" => Registered(w)
  <2> SUFFICES ASSUME entries[n] # NoEntry, entries[n].amount = wins[w].amount
               PROVE  entries[n].win = w \/ entries[n].win[1] < w[1]
    BY DEF Registered, Existing
  <2> DEFINE v == entries[n].win
  <2>1. v \in Processes \X Numbers /\ v[2] = n /\ v[1] <= process
    BY <1>1 DEF NameInv, EntryOfWin, WinsNumbered, CreditTypeOK
  <2>2. v[1] = process => v = w
    BY <1>1, <2>1
  <2>3. v[1] \in Int /\ process \in Int
    BY <1>1, <2>1 DEF Processes
  <2> QED
    BY <1>1, <2>1, <2>2, <2>3
<1>6. KnowsNamesake
  BY <1>2, <1>5 DEF KnowsNamesake
<1>7. WinsNumbered'
  BY <1>1, <1>2 DEF NameInv, WinsNumbered
<1> QED
  BY <1>1, <1>4, <1>6, <1>7, NamesKept

LEMMA EnqueueNames ==
  ASSUME NameInv, NEW w \in Live, Enqueue(w)
  PROVE  NameInv'
<1>1. CreditInv' /\ UNCHANGED <<process, numbered, entries>> /\ w \in DOMAIN wins
      /\ CreditTypeOK
  BY EnqueueInv DEF NameInv, Enqueue, Live, CreditInv
<1>2. /\ DOMAIN wins' = DOMAIN wins /\ wins'[w].step # "known"
      /\ wins'[w].amount = wins[w].amount
      /\ \A v \in DOMAIN wins \ {w} : wins'[v] = wins[v]
  BY <1>1, WinMoves DEF Enqueue, Goto, Steps
<1>3. Faithful /\ KnowsNamesake /\ WinsNumbered'
  BY <1>1, <1>2 DEF Faithful, KnowsNamesake, NameInv, WinsNumbered
<1> QED
  BY <1>1, <1>3, NamesKept

LEMMA PaysNames ==
  ASSUME NameInv, NEW n \in Numbers, Deliver(n) \/ Sweep(n)
  PROVE  NameInv'
<1>1. CreditInv' /\ UNCHANGED <<process, numbered, wins>> /\ CreditTypeOK
  BY PaysInv DEF NameInv, Deliver, Sweep, CreditInv
<1>2. entries[n] \in Entry
  BY <1>1, EntryFacts DEF Deliver, Sweep, NameInv, CreditInv, KeyUntouched, CreditTypeOK
<1>3. \/ entries' = entries
      \/ \E to \in {"CONFIRMED", "FAILED"} : entries' = [entries EXCEPT ![n].status = to]
  BY DEF Deliver, Sweep, Resolved
<1>4. Faithful
  <2>1. CASE entries' = entries
    BY <1>1, <2>1 DEF Faithful
  <2>2. ASSUME NEW to \in {"CONFIRMED", "FAILED"}, entries' = [entries EXCEPT ![n].status = to]
        PROVE  Faithful
    <3>1. /\ entries'[n] \in Entry
          /\ entries'[n].win = entries[n].win /\ entries'[n].amount = entries[n].amount
          /\ \A m \in Numbers \ {n} : entries'[m] = entries[m]
      BY <1>1, <1>2, <2>2 DEF CreditTypeOK, Entry
    <3> QED
      BY <1>1, <1>2, <3>1, EntryFacts DEF Faithful
  <2> QED
    BY <1>3, <2>1, <2>2
<1>5. KnowsNamesake /\ WinsNumbered'
  BY <1>1 DEF KnowsNamesake, NameInv, WinsNumbered
<1> QED
  BY <1>1, <1>4, <1>5, NamesKept

LEMMA RestartNames == NameInv /\ Restart => NameInv'
<1> SUFFICES ASSUME NameInv, Restart PROVE NameInv'
  OBVIOUS
<1>1. CreditInv' /\ UNCHANGED entries /\ process' = process + 1
  BY RestartInv DEF NameInv, Restart
<1>2. /\ DOMAIN wins' = DOMAIN wins
      /\ \A w \in DOMAIN wins : wins'[w].amount = wins[w].amount
      /\ \A w \in DOMAIN wins : wins'[w].step = "known" => wins[w].step = "known"
  BY DEF Restart
<1>3. Faithful /\ KnowsNamesake
  BY <1>1, <1>2 DEF Faithful, KnowsNamesake
<1>4. process \in Int /\ \A w \in DOMAIN wins : w[1] \in Int /\ w[1] <= process
  BY DEF NameInv, WinsNumbered, CreditInv, CreditTypeOK, Processes
<1>5. WinsNumbered'
  BY <1>1, <1>2, <1>4 DEF WinsNumbered
<1> QED
  BY <1>1, <1>3, <1>5, NamesKept

LEMMA NameInitInv == CreditInit => NameInv
  BY CreditInitInv DEF CreditInit, NameInv, EntryOfWin, WinsNumbered, KnownIsNamesake

LEMMA NameStepInv == NameInv /\ [CreditNext]_creditVars => NameInv'
<1> SUFFICES ASSUME NameInv, [CreditNext]_creditVars PROVE NameInv'
  OBVIOUS
<1>1. ASSUME NEW w \in Live, SettleWin(w) PROVE NameInv'
  BY <1>1, BeginNames, EnqueueNames DEF SettleWin
<1>2. CASE UNCHANGED creditVars
  <2>1. CreditInv'
    BY <1>2, CreditStepInv DEF NameInv
  <2> QED
    BY <1>2, <2>1
    DEF creditVars, NameInv, EntryOfWin, WinsNumbered, KnownIsNamesake, Registered
<1> QED
  BY <1>1, <1>2, PaysNames, NewBetNames, RestartNames DEF CreditNext

LEMMA NamesInvariant == CreditSpec => []NameInv
  BY NameInitInv, NameStepInv, PTL DEF CreditSpec

\* A win answered "already known" has the entry of its key, of its own amount,
\* and that entry is its own or of a win of an earlier process: this is as far
\* as KnownIsMine is wrong.
THEOREM KnownAreNamesakes == CreditSpec => []KnownIsNamesake
<1>1. NameInv => KnownIsNamesake
  BY DEF NameInv
<1> QED
  BY <1>1, NamesInvariant, PTL

\* Until the first restart KnownIsMine holds: whatever the database hides, a win
\* the process takes for registered is.
THEOREM KnownAreMineAtFirst == CreditSpec => [](process = 0 => KnownIsMine)
<1>1. ASSUME NameInv, process = 0 PROVE KnownIsMine
  <2> SUFFICES ASSUME NEW w \in DOMAIN wins, wins[w].step = "known"
               PROVE  entries[w[2]].win = w
    BY DEF KnownIsMine
  <2>1. Registered(w) /\ w \in Processes \X Numbers /\ w[1] <= 0
    BY <1>1 DEF NameInv, KnownIsNamesake, WinsNumbered, CreditInv, CreditTypeOK
  <2>2. entries[w[2]].win \in Processes \X Numbers
    BY <1>1, <2>1 DEF NameInv, EntryOfWin, Registered, CreditInv, CreditTypeOK
  <2> QED
    BY <2>1, <2>2, CreditConstants DEF Registered, Processes
<1> QED
  BY <1>1, NamesInvariant, PTL
-----------------------------------------------------------------------------
(* What becomes of a win: the safety that WinsRegistered rests on.         *)

\* The entry of the key is the win's own, or an earlier process's of that
\* number, of whatever amount.
Keyed(w) ==
  LET e == entries[w[2]] IN e # NoEntry /\ (e.win = w \/ e.win[1] < w[1])

\* A settlement that is over, and the goroutine that would have tried again.
Over(w) == wins[w].step \notin {"begin", "deferred"}

\* Once its settlement is over a win is on record under its key, unless its
\* process has died, or the database has failed more often than the goroutine
\* tries: no interleaving of settlements, queue and sweeper loses one.
WinsAccounted ==
  \A w \in DOMAIN wins : Over(w) =>
    \/ wins[w].step = "died" /\ w[1] < process
    \/ wins[w].step = "unregistered" /\ faults > MaxTries
    \/ Keyed(w)

\* Who enqueues a callback, or has, or leaves it to the sweeper, has opened the
\* entry itself.
EnqueuesOwn ==
  \A w \in DOMAIN wins : wins[w].step \in {"enqueue", "queued", "recoverable"} =>
    entries[w[2]] # NoEntry /\ entries[w[2]].win = w

\* An attempt is put off only by an error.
TriesAreFaults == \A w \in DOMAIN wins : wins[w].tries <= faults

\* The three, of one win.
Account(w) ==
  /\ Over(w) => \/ wins[w].step = "died" /\ w[1] < process
                \/ wins[w].step = "unregistered" /\ faults > MaxTries
                \/ Keyed(w)
  /\ wins[w].step \in {"enqueue", "queued", "recoverable"} =>
       entries[w[2]] # NoEntry /\ entries[w[2]].win = w
  /\ wins[w].tries <= faults

AccountInv == NameInv /\ \A w \in DOMAIN wins : Account(w)

\* What a step keeps of a win that it leaves alone.
EntriesKept ==
  \A n \in Numbers : entries[n] # NoEntry =>
    entries'[n] # NoEntry /\ entries'[n].win = entries[n].win

LEMMA AccountsKept ==
  ASSUME AccountInv, NameInv', EntriesKept, process <= process', faults <= faults',
         \A w \in DOMAIN wins' : (w \in DOMAIN wins /\ wins'[w] = wins[w]) \/ Account(w)'
  PROVE  AccountInv'
<1>1. /\ process \in Int /\ process' \in Int /\ faults \in Int /\ faults' \in Int
      /\ DOMAIN wins \subseteq Processes \X Numbers
      /\ \A w \in DOMAIN wins : wins[w].tries \in Int
  BY CreditConstants
  DEF AccountInv, NameInv, CreditInv, CreditTypeOK, Processes, Win
<1>2. ASSUME NEW w \in DOMAIN wins, wins'[w] = wins[w] PROVE Account(w)'
  <2>1. w \in Processes \X Numbers /\ w[2] \in Numbers /\ w[1] \in Int
    BY <1>1 DEF Processes
  <2>2. Keyed(w) => Keyed(w)'
    BY <2>1 DEF Keyed, EntriesKept
  <2>3. w[1] < process => w[1] < process'
    BY <1>1, <2>1
  <2>4. faults > MaxTries => faults' > MaxTries
    BY <1>1, CreditConstants
  <2>5. wins'[w].tries <= faults'
    BY <1>1, <1>2 DEF AccountInv, Account
  <2> QED
    BY <1>2, <2>1, <2>2, <2>3, <2>4, <2>5 DEF AccountInv, Account, Over, EntriesKept
<1> QED
  BY <1>2 DEF AccountInv

LEMMA BeginAccounts ==
  ASSUME AccountInv, NEW w \in Live, BeginOnce(w)
  PROVE  AccountInv'
<1> DEFINE n == w[2]
<1>1. /\ NameInv' /\ UNCHANGED <<process, numbered>>
      /\ w \in DOMAIN wins /\ w \in Processes \X Numbers /\ n \in Numbers
      /\ w[1] = process /\ wins[w].step \in {"begin", "deferred"}
      /\ CreditTypeOK /\ wins[w].tries \in 0..MaxTries /\ process \in Nat
  BY BeginNames DEF AccountInv, NameInv, BeginOnce, Live, CreditInv, CreditTypeOK, Win, Processes
<1>2. faults \in Nat /\ faults' \in Nat /\ faults <= faults' /\ wins[w].tries <= faults
  BY <1>1, CreditConstants DEF BeginOnce, Fault, CreditTypeOK, AccountInv, Account
<1>3. \/ entries' = entries
      \/ /\ entries[n] = NoEntry
         /\ entries' = [entries EXCEPT ![n] =
                          [win |-> w, amount |-> wins[w].amount, status |-> "PENDING"]]
  BY DEF BeginOnce
<1>4. EntriesKept
  BY <1>1, <1>3 DEF EntriesKept, CreditTypeOK
<1>5. /\ DOMAIN wins' = DOMAIN wins
      /\ \A v \in DOMAIN wins \ {w} : wins'[v] = wins[v]
      /\ Account(w)'
  <2>1. CASE /\ entries[n] = NoEntry /\ Goto(w, "enqueue")
             /\ entries' = [entries EXCEPT ![n] =
                              [win |-> w, amount |-> wins[w].amount, status |-> "PENDING"]]
    <3>1. entries'[n].win = w /\ entries'[n].status = "PENDING"
      BY <1>1, <2>1 DEF CreditTypeOK
    <3>2. entries'[n] # NoEntry
      BY <3>1, EntryFacts
    <3>3. /\ DOMAIN wins' = DOMAIN wins /\ wins'[w].step = "enqueue"
          /\ wins'[w].tries = wins[w].tries
          /\ \A v \in DOMAIN wins \ {w} : wins'[v] = wins[v]
      BY <1>1, <2>1, WinMoves DEF Goto, Steps
    <3> QED
      BY <1>1, <1>2, <3>1, <3>2, <3>3 DEF Account, Over, Keyed
  <2>2. CASE entries[n] # NoEntry /\ Goto(w, Existing(entries[n], wins[w].amount))
             /\ UNCHANGED <<entries, faults>>
    <3>1. Existing(entries[n], wins[w].amount) \in {"review", "known"}
      BY DEF Existing
    <3>2. /\ DOMAIN wins' = DOMAIN wins /\ wins'[w].step \in {"review", "known"}
          /\ wins'[w].tries = wins[w].tries
          /\ \A v \in DOMAIN wins \ {w} : wins'[v] = wins[v]
      BY <1>1, <2>2, <3>1, WinMoves DEF Goto, Steps
    <3>3. Keyed(w)
      <4> DEFINE v == entries[n].win
      <4>1. v \in Processes \X Numbers /\ v[2] = n /\ v[1] <= process
        BY <1>1, <2>2 DEF AccountInv, NameInv, EntryOfWin, WinsNumbered, CreditTypeOK
      <4>2. v[1] = process => v = w
        BY <1>1, <4>1
      <4>3. v[1] \in Int
        BY <4>1 DEF Processes
      <4> QED
        BY <1>1, <2>2, <4>1, <4>2, <4>3 DEF Keyed
    <3>4. Keyed(w)'
      BY <2>2, <3>3 DEF Keyed
    <3> QED
      BY <1>2, <2>2, <3>2, <3>4 DEF Account, Over
  <2>3. CASE Fault /\ Defers(w)
    <3>1. /\ DOMAIN wins' = DOMAIN wins
          /\ wins'[w].step = Deferred(wins[w])
          /\ wins'[w].tries \in {wins[w].tries, wins[w].tries + 1}
          /\ \A v \in DOMAIN wins \ {w} : wins'[v] = wins[v]
      BY <1>1, <2>3, WinDefers
    <3>2. faults' = faults + 1
      BY <2>3 DEF Fault
    <3>3. wins'[w].tries <= faults'
      BY <1>1, <1>2, <3>1, <3>2
    <3>4. wins'[w].step = "deferred" \/ (wins'[w].step = "unregistered" /\ faults' > MaxTries)
      BY <1>1, <1>2, <3>1, <3>2, CreditConstants DEF Deferred
    <3> QED
      BY <3>1, <3>3, <3>4 DEF Account, Over
  <2> QED
    BY <2>1, <2>2, <2>3 DEF BeginOnce
<1> QED
  BY <1>1, <1>2, <1>4, <1>5, AccountsKept

LEMMA EnqueueAccounts ==
  ASSUME AccountInv, NEW w \in Live, Enqueue(w)
  PROVE  AccountInv'
<1>1. /\ NameInv' /\ UNCHANGED <<process, numbered, entries>>
      /\ w \in DOMAIN wins /\ CreditTypeOK /\ wins[w].step = "enqueue"
      /\ wins[w].tries \in 0..MaxTries /\ process \in Nat
  BY EnqueueNames DEF AccountInv, NameInv, Enqueue, Live, CreditInv, CreditTypeOK, Win, Processes
<1>2. faults \in Nat /\ faults' \in Nat /\ faults <= faults' /\ wins[w].tries <= faults
  BY <1>1, CreditConstants DEF Enqueue, Fault, CreditTypeOK, AccountInv, Account
<1>3. /\ DOMAIN wins' = DOMAIN wins /\ wins'[w].step \in {"queued", "recoverable"}
      /\ wins'[w].tries = wins[w].tries
      /\ \A v \in DOMAIN wins \ {w} : wins'[v] = wins[v]
  BY <1>1, WinMoves DEF Enqueue, Goto, Steps
<1>4. entries[w[2]] # NoEntry /\ entries[w[2]].win = w
  BY <1>1 DEF AccountInv, Account
<1>5. Account(w)'
  BY <1>1, <1>2, <1>3, <1>4 DEF Account, Over, Keyed
<1>6. EntriesKept
  BY <1>1 DEF EntriesKept
<1> QED
  BY <1>1, <1>2, <1>3, <1>5, <1>6, AccountsKept

LEMMA PaysAccounts ==
  ASSUME AccountInv, NEW n \in Numbers, Deliver(n) \/ Sweep(n)
  PROVE  AccountInv'
<1>1. /\ NameInv' /\ UNCHANGED <<process, numbered, wins, faults>> /\ CreditTypeOK
      /\ process \in Nat /\ faults \in Nat
  BY PaysNames, CreditConstants
  DEF AccountInv, Deliver, Sweep, NameInv, CreditInv, CreditTypeOK, Processes
<1>2. entries[n] \in Entry
  BY <1>1, EntryFacts
  DEF Deliver, Sweep, AccountInv, NameInv, CreditInv, KeyUntouched, CreditTypeOK
<1>3. EntriesKept
  <2>1. \/ entries' = entries
        \/ \E to \in {"CONFIRMED", "FAILED"} : entries' = [entries EXCEPT ![n].status = to]
    BY DEF Deliver, Sweep, Resolved
  <2>2. CASE entries' = entries
    BY <2>2 DEF EntriesKept
  <2>3. ASSUME NEW to \in {"CONFIRMED", "FAILED"}, entries' = [entries EXCEPT ![n].status = to]
        PROVE  EntriesKept
    <3>1. /\ entries'[n] \in Entry /\ entries'[n].win = entries[n].win
          /\ \A m \in Numbers \ {n} : entries'[m] = entries[m]
      BY <1>1, <1>2, <2>3 DEF CreditTypeOK, Entry
    <3> QED
      BY <3>1, EntryFacts DEF EntriesKept
  <2> QED
    BY <2>1, <2>2, <2>3
<1> QED
  BY <1>1, <1>3, AccountsKept

LEMMA NewBetAccounts == AccountInv /\ NewBet => AccountInv'
<1> SUFFICES ASSUME AccountInv, NewBet PROVE AccountInv'
  OBVIOUS
<1>1. /\ NameInv' /\ UNCHANGED <<process, entries, faults>> /\ CreditTypeOK
      /\ process \in Nat /\ faults \in Nat /\ numbered \in Nat
  <2>1. NameInv /\ NameInv'
    BY NewBetNames DEF AccountInv
  <2>2. UNCHANGED <<process, entries, faults>>
    BY DEF NewBet
  <2>3. CreditTypeOK
    BY <2>1 DEF NameInv, CreditInv
  <2> QED
    BY <2>1, <2>2, <2>3, CreditConstants DEF CreditTypeOK, Processes
<1>2. <<process, numbered + 1>> \notin DOMAIN wins
  BY <1>1 DEF AccountInv, NameInv, WinsNumbered
<1>3. /\ \A w \in DOMAIN wins : wins'[w] = wins[w]
      /\ \A w \in DOMAIN wins' \ DOMAIN wins : wins'[w].step = "begin" /\ wins'[w].tries = 0
  BY <1>2 DEF NewBet
<1>4. \A w \in DOMAIN wins' \ DOMAIN wins : Account(w)'
  BY <1>1, <1>3 DEF Account, Over
<1>5. EntriesKept
  BY <1>1 DEF EntriesKept
<1> QED
  BY <1>1, <1>3, <1>4, <1>5, AccountsKept

LEMMA RestartAccounts == AccountInv /\ Restart => AccountInv'
<1> SUFFICES ASSUME AccountInv, Restart PROVE AccountInv'
  OBVIOUS
<1>1. /\ NameInv' /\ UNCHANGED <<entries, faults>> /\ process' = process + 1 /\ CreditTypeOK
      /\ process \in Nat /\ faults \in Nat
  BY RestartNames, CreditConstants
  DEF AccountInv, Restart, NameInv, CreditInv, CreditTypeOK, Processes
<1>2. DOMAIN wins' = DOMAIN wins
  BY DEF Restart
<1>3. ASSUME NEW w \in DOMAIN wins PROVE wins'[w] = wins[w] \/ Account(w)'
  <2>1. w[1] \in Nat /\ w[1] <= process
    BY <1>1 DEF AccountInv, NameInv, WinsNumbered, CreditTypeOK, Processes
  <2>2. \/ wins'[w] = wins[w]
        \/ wins'[w].step = "died" /\ wins'[w].tries = wins[w].tries
    BY DEF Restart
  <2>3. CASE wins'[w].step = "died" /\ wins'[w].tries = wins[w].tries
    BY <1>1, <2>1, <2>3 DEF AccountInv, Account
  <2> QED
    BY <2>2, <2>3
<1>4. EntriesKept
  BY <1>1 DEF EntriesKept
<1> QED
  BY <1>1, <1>2, <1>3, <1>4, AccountsKept

LEMMA AccountsInvariant == CreditSpec => []AccountInv
<1>1. ASSUME CreditInit PROVE \A w \in DOMAIN wins : Account(w)
  BY <1>1 DEF CreditInit
<1>2. AccountInv /\ [CreditNext]_creditVars => AccountInv'
  <2> SUFFICES ASSUME AccountInv, [CreditNext]_creditVars PROVE AccountInv'
    OBVIOUS
  <2>1. ASSUME NEW w \in Live, SettleWin(w) PROVE AccountInv'
    BY <2>1, BeginAccounts, EnqueueAccounts DEF SettleWin
  <2>2. CASE UNCHANGED creditVars
    <3>1. NameInv'
      BY <2>2, NameStepInv DEF AccountInv
    <3>2. \A w \in DOMAIN wins : Account(w) => Account(w)'
      BY <2>2 DEF creditVars, Account, Over, Keyed
    <3> QED
      BY <2>2, <3>1, <3>2 DEF creditVars, AccountInv
  <2> QED
    BY <2>1, <2>2, PaysAccounts, NewBetAccounts, RestartAccounts DEF CreditNext
<1>3. CreditInit => AccountInv
  BY <1>1, NameInitInv DEF AccountInv
<1> QED
  BY <1>2, <1>3, PTL DEF CreditSpec

\* Once its settlement is over, every win is on record under its key, unless its
\* process died or the goroutine gave up after more errors than it may try.
THEOREM WinsAreAccounted == CreditSpec => [](WinsAccounted /\ EnqueuesOwn /\ TriesAreFaults)
<1>1. AccountInv => WinsAccounted /\ EnqueuesOwn /\ TriesAreFaults
  BY DEF AccountInv, Account, WinsAccounted, EnqueuesOwn, TriesAreFaults
<1> QED
  BY <1>1, AccountsInvariant, PTL

\* What WinsRegistered says in the end, of every settlement that is over: before
\* the first restart, and with no more errors than the goroutine tries, the win
\* is on record as its own.
RegisteredInTime ==
  process = 0 /\ faults <= MaxTries =>
    \A w \in DOMAIN wins : Over(w) => entries[w[2]] # NoEntry /\ entries[w[2]].win = w

\* The settlements of the first process lose no win, and mistake none for
\* another, while the database fails no more often than they try.
THEOREM WinsRegisteredInTime == CreditSpec => []RegisteredInTime
<1>1. ASSUME AccountInv PROVE RegisteredInTime
  <2> SUFFICES ASSUME process = 0, faults <= MaxTries, NEW w \in DOMAIN wins, Over(w)
               PROVE  entries[w[2]] # NoEntry /\ entries[w[2]].win = w
    BY DEF RegisteredInTime
  <2>1. w \in Processes \X Numbers /\ w[1] \in Nat /\ w[1] <= 0 /\ faults \in Nat
    BY <1>1, CreditConstants
    DEF AccountInv, NameInv, WinsNumbered, CreditInv, CreditTypeOK, Processes
  <2>2. Keyed(w)
    BY <1>1, <2>1, CreditConstants DEF AccountInv, Account
  <2>3. entries[w[2]].win \in Processes \X Numbers
    BY <1>1, <2>1, <2>2 DEF AccountInv, NameInv, EntryOfWin, Keyed, CreditInv, CreditTypeOK
  <2> QED
    BY <2>1, <2>2, <2>3 DEF Keyed, Processes
<1> QED
  BY <1>1, AccountsInvariant, PTL
=============================================================================
