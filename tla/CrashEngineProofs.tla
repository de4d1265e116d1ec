-------------------------- MODULE CrashEngineProofs --------------------------
(***************************************************************************)
(* Proofs about CrashEngine, for any number of players, panels, cashouts   *)
(* in progress, rounds and bets, any crash points, any ticks and any size  *)
(* of the event channel.                                                   *)
(*                                                                         *)
(* The heart of the argument: pc determines the state of both machines     *)
(* (PcInv), so the loop's calls are never refused; and a multiplier read   *)
(* for a bet that is still in the map is one of that bet's own round, and  *)
(* under its crash point, unless the flight is already over (CallInv).     *)
(***************************************************************************)
EXTENDS CrashEngine, TLAPS

USE DEF Now, Bets!NoBet

RoundIs(s) == current # NoRound /\ current.state = s
Flags(r, open, run) == bmRound = r /\ bettingOpen = open /\ running = run

\* Where the loop is tells what both machines are.
PcInv ==
  /\ pc # "refused"
  /\ pc = "create" =>
       /\ current # NoRound => current.state = "SETTLED"
       /\ Flags(0, FALSE, FALSE)
  /\ pc \in {"fairness", "open_bets", "no_seed"} =>
       RoundIs("CREATED") /\ Flags(0, FALSE, FALSE)
  /\ pc \in {"send_created", "open_betting"} =>
       RoundIs("CREATED") /\ Flags(current.id, TRUE, FALSE)
  /\ pc \in {"betting", "close_bets"} =>
       RoundIs("BETTING_OPEN") /\ Flags(current.id, TRUE, FALSE)
  /\ pc = "close_betting" =>
       RoundIs("BETTING_OPEN") /\ Flags(current.id, FALSE, FALSE)
  /\ pc = "start_bets" =>
       RoundIs("BETTING_CLOSED") /\ Flags(current.id, FALSE, FALSE)
  /\ pc = "start" =>
       RoundIs("BETTING_CLOSED") /\ Flags(current.id, FALSE, TRUE)
  /\ pc \in {"ticking", "crash_bets"} =>
       RoundIs("RUNNING") /\ Flags(current.id, FALSE, TRUE)
  /\ pc = "crash" => RoundIs("RUNNING") /\ Flags(current.id, FALSE, FALSE)
  /\ pc \in {"reveal", "send_crash", "settle"} =>
       RoundIs("CRASHED") /\ Flags(current.id, FALSE, FALSE)
  /\ pc \in {"settled", "reset_bets"} =>
       RoundIs("SETTLED") /\ Flags(current.id, FALSE, FALSE)
  /\ pc = "stopped" =>
       \/ (current # NoRound => current.state = "SETTLED") /\ Flags(0, FALSE, FALSE)
       \/ RoundIs("BETTING_OPEN") /\ Flags(current.id, TRUE, FALSE)
       \/ RoundIs("RUNNING") /\ Flags(current.id, FALSE, TRUE)
       \/ RoundIs("SETTLED") /\ Flags(current.id, FALSE, FALSE)

\* No bet is pending once the bets have crashed.
QuietInv ==
  pc = "crash" \/ RoundIs("CRASHED") \/ RoundIs("SETTLED") => Bets!Pending(bets) = {}

\* The flight is over, or will never begin.
AfterCrash ==
  \/ pc \in {"crash", "reveal", "send_crash", "settle", "settled", "reset_bets"}
  \/ pc = "stopped" /\ ~running

Fine(raw) == raw = 1000 \/ (raw \in Ticks /\ raw < 10 * crashPoint)

MultInv == pc \in {"create", "fairness", "no_seed"} \/ AfterCrash \/ Fine(multiplier)

CallInv ==
  \A c \in Callers :
    /\ calls[c].bet <= nextBet
    /\ calls[c].bet \in DOMAIN bets => AfterCrash \/ Fine(calls[c].raw)

BInv == Bets!TypeOK /\ Bets!BetsOfCurrentRound
Inv == TypeOK /\ BInv /\ PcInv /\ QuietInv /\ MultInv /\ CallInv /\ CashoutUnderCrash

-----------------------------------------------------------------------------
(* Facts about the round machine.                                          *)

LEMMA PublishFacts ==
  ASSUME rmEvents \in Seq(Rounds!RoundEvent), Len(rmEvents) <= EventBuffer,
         NEW id \in 1..MaxRounds, NEW s \in Rounds!States, Rounds!Publish(id, s)
  PROVE  rmEvents' \in Seq(Rounds!RoundEvent) /\ Len(rmEvents') <= EventBuffer
<1> DEFINE e == [id |-> id, state |-> s]
<1>1. e \in Rounds!RoundEvent
  BY DEF Rounds!RoundEvent
<1>2. EventBuffer \in Nat /\ Len(rmEvents) \in Nat
  BY EngineConstants
<1>3. CASE Len(rmEvents) < EventBuffer
  <2>1. rmEvents' = Append(rmEvents, e)
    BY <1>3 DEF Rounds!Publish
  <2> QED
    BY <1>1, <1>2, <1>3, <2>1
<1>4. CASE ~(Len(rmEvents) < EventBuffer)
  BY <1>4 DEF Rounds!Publish
<1> QED
  BY <1>3, <1>4

LEMMA CreateRoundFacts ==
  ASSUME Rounds!TypeOK, Rounds!CreateRound(Now)
  PROVE  Rounds!TypeOK' /\ RoundIs("CREATED")'
<1>1. current' \in Rounds!Round /\ current'.state = "CREATED"
  BY EngineConstants DEF Rounds!TypeOK, Rounds!CreateRound, Rounds!Round, Rounds!States,
     Rounds!Times
<1>2. rmEvents' \in Seq(Rounds!RoundEvent) /\ Len(rmEvents') <= EventBuffer
  <2>1. nextRound + 1 \in 1..MaxRounds /\ "CREATED" \in Rounds!States
    BY EngineConstants DEF Rounds!TypeOK, Rounds!CreateRound, Rounds!States
  <2> QED
    BY <2>1, PublishFacts DEF Rounds!TypeOK, Rounds!CreateRound
<1> QED
  BY <1>1, <1>2, NoRoundIsNoRound, EngineConstants
  DEF Rounds!TypeOK, Rounds!CreateRound, RoundIs

LEMMA TransitionFacts ==
  ASSUME Rounds!TypeOK, NEW from, NEW to \in Rounds!States,
         Rounds!Transition(from, to, Now)
  PROVE  Rounds!TypeOK' /\ RoundIs(to)' /\ current'.id = current.id
<1>1. current \in Rounds!Round
  BY DEF Rounds!TypeOK, Rounds!Transition, Rounds!CanMove
<1>2. current' \in Rounds!Round /\ current'.state = to /\ current'.id = current.id
  BY <1>1 DEF Rounds!Transition, Rounds!Round, Rounds!Times
<1>3. rmEvents' \in Seq(Rounds!RoundEvent) /\ Len(rmEvents') <= EventBuffer
  <2>1. current.id \in 1..MaxRounds
    BY <1>1 DEF Rounds!Round
  <2> QED
    BY <2>1, PublishFacts DEF Rounds!TypeOK, Rounds!Transition
<1> QED
  BY <1>2, <1>3, NoRoundIsNoRound DEF Rounds!TypeOK, Rounds!Transition, RoundIs

\* Every stamp is instant 1, so a transition is only refused for the state.
LEMMA MoveAllowed ==
  ASSUME Rounds!TypeOK, NEW s, RoundIs(s)
  PROVE  Rounds!CanMove(s, Now)
  BY DEF Rounds!TypeOK, RoundIs, Rounds!CanMove, Rounds!ValidTimestamp, Rounds!Round,
     Rounds!Times

-----------------------------------------------------------------------------
(* Facts about the bets.                                                   *)

LEMMA Roundless ==
  ASSUME BInv, bmRound = 0
  PROVE  DOMAIN bets = {}
<1> SUFFICES ASSUME NEW i \in DOMAIN bets PROVE FALSE
  OBVIOUS
<1>1. MaxRounds \in Nat
  BY EngineConstants
<1>2. bets[i] \in Bets!Bet
  BY DEF BInv, Bets!TypeOK
<1>3. bets[i].round \in 1..MaxRounds
  BY <1>2 DEF Bets!Bet
<1>4. bets[i].round = 0
  BY DEF BInv, Bets!BetsOfCurrentRound
<1> QED
  BY <1>1, <1>3, <1>4

LEMMA FlagFacts ==
  ASSUME BInv,
         \/ \E r \in 1..MaxRounds : Bets!OpenRound(r)
         \/ Bets!CloseBetting
         \/ Bets!StartRound
  PROVE  BInv' /\ UNCHANGED <<bets, nextBet>>
<1>1. CASE Bets!CloseBetting \/ Bets!StartRound
  BY <1>1 DEF BInv, Bets!TypeOK, Bets!BetsOfCurrentRound, Bets!CloseBetting, Bets!StartRound
<1>2. ASSUME NEW r \in 1..MaxRounds, Bets!OpenRound(r)
      PROVE  BInv' /\ UNCHANGED <<bets, nextBet>>
  <2>1. Bets!BetsOfCurrentRound'
    BY <1>2, Roundless DEF BInv, Bets!OpenRound, Bets!CanOpenRound, Bets!BetsOfCurrentRound
  <2> QED
    BY <1>2, <2>1 DEF BInv, Bets!TypeOK, Bets!OpenRound
<1> QED
  BY <1>1, <1>2

LEMMA CrashFacts ==
  ASSUME BInv, Bets!Crash
  PROVE  /\ BInv'
         /\ Bets!Pending(bets)' = {}
         /\ DOMAIN bets' = DOMAIN bets
         /\ \A i \in DOMAIN bets : bets'[i].state = "CASHED_OUT" => bets'[i] = bets[i]
<1> USE DEF BInv
<1>1. Bets!Losing = Bets!Pending(bets)
  BY DEF Bets!Losing, Bets!Pending, Bets!BetsOfCurrentRound
<1>2. DOMAIN bets' = DOMAIN bets
  BY DEF Bets!Crash
<1>3. ASSUME NEW i \in DOMAIN bets
      PROVE  /\ bets'[i] \in Bets!Bet
             /\ bets'[i].round = bets[i].round
             /\ bets'[i].state # "PENDING"
             /\ bets'[i].state = "CASHED_OUT" => bets'[i] = bets[i]
  <2>1. bets[i] \in Bets!Bet
    BY DEF Bets!TypeOK
  <2>2. CASE i \in Bets!Losing
    BY <2>1, <2>2 DEF Bets!Crash, Bets!Settled, Bets!Bet, Bets!BetStates
  <2>3. CASE i \notin Bets!Losing
    BY <1>1, <2>1, <2>3 DEF Bets!Crash, Bets!Pending
  <2> QED
    BY <2>2, <2>3
<1>4. bets' \in [DOMAIN bets' -> Bets!Bet]
  BY <1>2, <1>3 DEF Bets!Crash
<1>5. activePanels' \in [Bets!Keys -> Nat]
  BY DEF Bets!Crash, Bets!TypeOK
<1> QED
  BY <1>2, <1>3, <1>4, <1>5 DEF Bets!Crash, Bets!TypeOK, Bets!BetsOfCurrentRound, Bets!Pending

LEMMA ResetFacts ==
  ASSUME BInv, Bets!ResetRound
  PROVE  BInv' /\ DOMAIN bets' = {} /\ nextBet' = nextBet
  BY DEF BInv, Bets!TypeOK, Bets!BetsOfCurrentRound, Bets!ResetRound

LEMMA PlaceBetFacts ==
  ASSUME BInv, NEW u \in Users, NEW p \in Panels, NEW a \in Amounts,
         Bets!PlaceBet(u, p, a)
  PROVE  /\ BInv'
         /\ nextBet' = nextBet + 1
         /\ DOMAIN bets' = DOMAIN bets \cup {nextBet + 1}
         /\ \A i \in DOMAIN bets : bets'[i] = bets[i]
         /\ bets'[nextBet + 1].state = "PENDING"
<1> USE DEF BInv
<1> DEFINE n == nextBet + 1
<1>1. /\ n \in Nat /\ n \notin DOMAIN bets
      /\ DOMAIN bets' = DOMAIN bets \cup {n}
      /\ bmRound \in 1..MaxRounds
      /\ \A i \in DOMAIN bets : bets'[i] = bets[i]
  BY DEF Bets!PlaceBet, Bets!PlaceBetResult, Bets!TypeOK
<1>2. /\ bets'[n] = [round |-> bmRound, user |-> u, panel |-> p, amount |-> a,
                     state |-> "PENDING", multi |-> 0, payout |-> 0]
      /\ bets'[n] \in Bets!Bet
  BY <1>1 DEF Bets!PlaceBet, Bets!Bet, Bets!BetStates
<1>3. bets' \in [DOMAIN bets' -> Bets!Bet]
  BY <1>1, <1>2 DEF Bets!PlaceBet, Bets!TypeOK
<1>4. activePanels' \in [Bets!Keys -> Nat]
  BY <1>1 DEF Bets!PlaceBet, Bets!TypeOK
<1>5. DOMAIN bets' \subseteq 1..nextBet'
  BY <1>1 DEF Bets!PlaceBet, Bets!TypeOK
<1> QED
  BY <1>1, <1>2, <1>3, <1>4, <1>5 DEF Bets!PlaceBet, Bets!TypeOK, Bets!BetsOfCurrentRound

LEMMA CashoutFacts ==
  ASSUME BInv, NEW i \in Nat, NEW raw \in Nat, Bets!Cashout(i, raw)
  PROVE  /\ BInv'
         /\ nextBet' = nextBet
         /\ DOMAIN bets' = DOMAIN bets
         /\ \A j \in DOMAIN bets : j # i => bets'[j] = bets[j]
         /\ bets'[i].state = "CASHED_OUT"
         /\ bets'[i].multi = raw \div 10
         /\ raw >= 1000 /\ running /\ i \in Bets!Pending(bets)
<1> USE DEF BInv
<1>1. /\ i \in DOMAIN bets /\ bets[i] \in Bets!Bet /\ i \in Bets!Pending(bets)
      /\ raw >= 1000 /\ running
  BY DEF Bets!Cashout, Bets!CanCashout, Bets!Pending, Bets!TypeOK, Bets!ValidMultiplier
<1>2. raw \div 10 \in Nat
  BY SMT
<1>3. Bets!Payout(bets[i].amount, raw \div 10) \in Int
  <2>1. bets[i].amount \in Nat
    BY <1>1, EngineConstants DEF Bets!Bet
  <2>2. bets[i].amount * (raw \div 10) \in Nat
    BY <1>2, <2>1, SMT
  <2> DEFINE x == bets[i].amount * (raw \div 10)
             n == MaxInt + 1
  <2>3. (x + n) % (2 * n) \in Int
    BY <2>2, EngineConstants, SMT
  <2>4. ((x + n) % (2 * n)) - n \in Int
    BY <2>3, EngineConstants
  <2>5. (((x + n) % (2 * n)) - n) \div 100 \in Int
    BY <2>4, SMT
  <2> QED
    BY <2>2, <2>5, EngineConstants DEF Bets!Payout, Bets!Wrap
<1>4. /\ DOMAIN bets' = DOMAIN bets
      /\ \A j \in DOMAIN bets : j # i => bets'[j] = bets[j]
      /\ bets'[i].state = "CASHED_OUT"
      /\ bets'[i].round = bets[i].round
      /\ bets'[i].multi = raw \div 10
      /\ bets'[i] \in Bets!Bet
  BY <1>1, <1>2, <1>3 DEF Bets!Cashout, Bets!Settled, Bets!Bet, Bets!BetStates, Bets!Normalize
<1>5. bets' \in [DOMAIN bets' -> Bets!Bet]
  BY <1>1, <1>4 DEF Bets!Cashout, Bets!TypeOK
<1>6. activePanels' \in [Bets!Keys -> Nat]
  BY <1>1 DEF Bets!Cashout, Bets!TypeOK
<1> QED
  BY <1>1, <1>4, <1>5, <1>6 DEF Bets!Cashout, Bets!TypeOK, Bets!BetsOfCurrentRound

-----------------------------------------------------------------------------
(* Facts about the engine's channel.                                       *)

LEMMA AppendFacts ==
  ASSUME channel \in Seq(Event), Len(channel) < EventBuffer, NEW e \in Event,
         channel' = Append(channel, e)
  PROVE  channel' \in Seq(Event) /\ Len(channel') <= EventBuffer
<1>1. EventBuffer \in Nat /\ Len(channel) \in Nat
  BY EngineConstants
<1> QED
  BY <1>1

LEMMA NewEventFacts ==
  ASSUME TypeOK, current # NoRound, NEW t \in EventTypes, NEW m \in Nat
  PROVE  NewEvent(t, m) \in Event
<1>1. current.id \in 1..MaxRounds
  BY DEF TypeOK, Rounds!TypeOK, Rounds!Round
<1>2. crashPoint \in Nat
  BY EngineConstants DEF TypeOK
<1> QED
  BY <1>1, <1>2 DEF NewEvent, Event, TypeOK

LEMMA EmitFacts ==
  ASSUME TypeOK, current # NoRound, NEW t \in EventTypes, NEW m \in Nat, Emit(t, m)
  PROVE  channel' \in Seq(Event) /\ Len(channel') <= EventBuffer
<1>1. CASE ChannelFull
  BY <1>1 DEF Emit, TypeOK
<1>2. CASE ~ChannelFull
  <2>1. Len(channel) < EventBuffer
    BY <1>2, EngineConstants DEF ChannelFull, TypeOK
  <2>2. channel' = Append(channel, NewEvent(t, m))
    BY <1>2 DEF Emit
  <2> QED
    BY <2>1, <2>2, NewEventFacts, AppendFacts DEF TypeOK
<1> QED
  BY <1>1, <1>2

-----------------------------------------------------------------------------
(* Steps that touch neither the rounds, the bets, the flight nor the calls. *)

\* What the invariant says besides types, for a step that changes only pc,
\* the channel, the seeds, the consumer and ctxDone.
LEMMA IdleStep ==
  ASSUME Inv, UNCHANGED <<rmVars, bmVars, crashPoint, multiplier, calls>>,
         TypeOK', PcInv', AfterCrash => AfterCrash',
         pc' \in {"create", "fairness", "no_seed"} =>
           pc \in {"create", "fairness", "no_seed"},
         pc \in {"create", "fairness", "no_seed"} =>
           pc' \in {"create", "fairness", "no_seed"} \/ AfterCrash',
         pc' = "crash" => pc = "crash"
  PROVE  Inv'
<1> USE DEF Inv
<1>1. UNCHANGED <<current, bets, bmRound, nextBet, running>>
  BY DEF rmVars, bmVars
<1>2. BInv'
  BY DEF BInv, bmVars, Bets!TypeOK, Bets!BetsOfCurrentRound
<1>3. QuietInv'
  BY <1>1 DEF QuietInv, RoundIs, Bets!Pending
<1>4. MultInv'
  BY DEF MultInv, Fine
<1>5. CallInv'
  BY <1>1 DEF CallInv, Fine
<1>6. CashoutUnderCrash'
  BY <1>1 DEF CashoutUnderCrash
<1> QED
  BY <1>2, <1>3, <1>4, <1>5, <1>6

LEMMA UntouchedTypes ==
  ASSUME TypeOK, UNCHANGED <<rmVars, bmVars, calls>>
  PROVE  Rounds!TypeOK' /\ Bets!TypeOK' /\ calls' \in [Callers -> [bet: Nat, raw: Nat]]
  BY DEF TypeOK, rmVars, bmVars, Rounds!TypeOK, Bets!TypeOK

LEMMA GotoStep ==
  ASSUME Inv, BettingElapsed \/ CrashReached \/ PauseElapsed
  PROVE  Inv'
<1>1. UNCHANGED <<rmVars, bmVars, fairVars, lostBets, channel, calls, outside>>
  BY DEF BettingElapsed, CrashReached, PauseElapsed, Goto
<1>2. \/ pc = "betting" /\ pc' = "close_bets"
      \/ pc = "ticking" /\ pc' = "crash_bets"
      \/ pc = "settled" /\ pc' = "reset_bets"
  BY DEF BettingElapsed, CrashReached, PauseElapsed, Goto
<1>3. TypeOK'
  BY <1>1, <1>2, UntouchedTypes DEF Inv, TypeOK, fairVars, PCs, outside
<1>4. PcInv'
  BY <1>1, <1>2 DEF Inv, PcInv, RoundIs, Flags, rmVars, bmVars
<1> QED
  BY <1>1, <1>2, <1>3, <1>4, IdleStep DEF AfterCrash, fairVars

LEMMA StopStep ==
  ASSUME Inv, Stop
  PROVE  Inv'
<1>1. /\ UNCHANGED <<rmVars, bmVars, fairVars, lostBets, channel, calls, outside>>
      /\ pc \in {"create", "betting", "ticking", "settled"} /\ pc' = "stopped"
  BY DEF Stop
<1>2. TypeOK'
  BY <1>1, UntouchedTypes DEF Inv, TypeOK, fairVars, PCs, outside
<1>3. PcInv'
  BY <1>1 DEF Inv, PcInv, RoundIs, Flags, rmVars, bmVars
<1>4. pc \in {"create", "settled"} => ~running
  BY DEF Inv, PcInv, Flags
<1> QED
  BY <1>1, <1>2, <1>3, <1>4, IdleStep DEF AfterCrash, fairVars, bmVars

LEMMA ReceiveStep ==
  ASSUME Inv, Receive
  PROVE  Inv'
<1>1. channel' \in Seq(Event) /\ Len(channel') <= EventBuffer
  <2>1. channel \in Seq(Event) /\ channel # <<>> /\ Len(channel) <= EventBuffer
    BY DEF Receive, Inv, TypeOK
  <2> QED
    BY <2>1, EngineConstants DEF Receive
<1>2. told' \in SUBSET (1..MaxRounds)
  <2>1. channel \in Seq(Event) /\ channel # <<>> /\ told \in SUBSET (1..MaxRounds)
    BY DEF Receive, Inv, TypeOK
  <2>2. Head(channel) \in Event
    BY <2>1
  <2>3. Head(channel).round \in 1..MaxRounds
    BY <2>2 DEF Event
  <2> QED
    BY <2>1, <2>3 DEF Receive
<1>3. TypeOK'
  BY <1>1, <1>2, UntouchedTypes DEF Inv, TypeOK, Receive, fairVars
<1>4. PcInv'
  BY DEF Inv, PcInv, RoundIs, Flags, rmVars, bmVars, Receive
<1> QED
  BY <1>3, <1>4, IdleStep DEF AfterCrash, fairVars, bmVars, Receive

LEMMA CancelStep ==
  ASSUME Inv, Cancel \/ StopForwarding
  PROVE  Inv'
<1>1. TypeOK'
  BY UntouchedTypes DEF Inv, TypeOK, Cancel, StopForwarding, fairVars
<1>2. PcInv'
  BY DEF Inv, PcInv, RoundIs, Flags, rmVars, bmVars, Cancel, StopForwarding
<1> QED
  BY <1>1, <1>2, IdleStep DEF AfterCrash, fairVars, bmVars, Cancel, StopForwarding

LEMMA SendStep ==
  ASSUME Inv, SendRoundCreated \/ SendCrash
  PROVE  Inv'
<1>1. /\ UNCHANGED <<rmVars, bmVars, fairVars, lostBets, calls, outside>>
      /\ \/ pc = "send_created" /\ pc' = "open_betting"
         \/ pc = "send_crash" /\ pc' = "settle"
  BY DEF SendRoundCreated, SendCrash
<1>2. current # NoRound /\ TypeOK
  BY <1>1 DEF Inv, PcInv, RoundIs
<1>3. Len(channel) < EventBuffer
  BY EngineConstants DEF SendRoundCreated, SendCrash, ChannelFull, Inv, TypeOK
<1>4. \E e \in Event : channel' = Append(channel, e)
  <2>1. CASE SendRoundCreated
    <3>1. NewEvent("ROUND_CREATED", 1000) \in Event
      BY <1>2, NewEventFacts DEF EventTypes
    <3>2. [NewEvent("ROUND_CREATED", 1000) EXCEPT !.crash = 0] \in Event
      BY <3>1 DEF Event
    <3> QED
      BY <2>1, <3>2 DEF SendRoundCreated
  <2>2. CASE SendCrash
    <3>1. 10 * crashPoint \in Nat
      BY <1>2, EngineConstants DEF TypeOK
    <3>2. NewEvent("CRASH", 10 * crashPoint) \in Event
      BY <1>2, <3>1, NewEventFacts DEF EventTypes
    <3>3. RevealEvent(NewEvent("CRASH", 10 * crashPoint)) \in Event
      BY <1>2, <3>2 DEF Event, RevealEvent, TypeOK
    <3> QED
      BY <2>2, <3>3 DEF SendCrash
  <2> QED
    BY <2>1, <2>2
<1>5. channel' \in Seq(Event) /\ Len(channel') <= EventBuffer
  BY <1>2, <1>3, <1>4, AppendFacts DEF TypeOK
<1>6. TypeOK'
  BY <1>1, <1>2, <1>5, UntouchedTypes DEF TypeOK, fairVars, PCs, outside
<1>7. PcInv'
  BY <1>1 DEF Inv, PcInv, RoundIs, Flags, rmVars, bmVars
<1> QED
  BY <1>1, <1>6, <1>7, IdleStep DEF AfterCrash, fairVars, bmVars

-----------------------------------------------------------------------------
(* The transitions of the round.                                           *)

\* A step of the loop that moves the round from state f to state t and the
\* loop from pc p to pc q, and leaves the bets alone.
RoundMove(f, t, p, q) ==
  /\ pc = p /\ pc' = q
  /\ Rounds!Transition(f, t, Now)
  /\ UNCHANGED <<bmVars, nonce, serverSeed, clientSeed, lastServerSeed,
                 crashPoint, lostBets, calls, outside>>

LEMMA TransitionStep ==
  ASSUME Inv,
         \/ RoundMove("CREATED", "BETTING_OPEN", "open_betting", "betting")
         \/ RoundMove("BETTING_OPEN", "BETTING_CLOSED", "close_betting", "start_bets")
         \/ RoundMove("BETTING_CLOSED", "RUNNING", "start", "ticking")
         \/ RoundMove("RUNNING", "CRASHED", "crash", "reveal")
         \/ RoundMove("CRASHED", "SETTLED", "settle", "settled"),
         multiplier' = multiplier \/ multiplier' = 1000,
         channel' \in Seq(Event), Len(channel') <= EventBuffer
  PROVE  Inv'
<1> USE DEF Inv
<1>1. PICK f \in Rounds!States, t \in Rounds!States, p \in PCs, q \in PCs :
        /\ RoundMove(f, t, p, q)
        /\ \/ f = "CREATED" /\ t = "BETTING_OPEN" /\ p = "open_betting" /\ q = "betting"
           \/ f = "BETTING_OPEN" /\ t = "BETTING_CLOSED" /\ p = "close_betting" /\ q = "start_bets"
           \/ f = "BETTING_CLOSED" /\ t = "RUNNING" /\ p = "start" /\ q = "ticking"
           \/ f = "RUNNING" /\ t = "CRASHED" /\ p = "crash" /\ q = "reveal"
           \/ f = "CRASHED" /\ t = "SETTLED" /\ p = "settle" /\ q = "settled"
  BY DEF Rounds!States, PCs
<1>2. Rounds!TypeOK' /\ RoundIs(t)' /\ current'.id = current.id
  BY <1>1, TransitionFacts DEF TypeOK, RoundMove
<1>3. /\ UNCHANGED <<bmRound, bettingOpen, running, bets, activePanels, nextBet,
                     nonce, serverSeed, clientSeed, lastServerSeed, crashPoint,
                     lostBets, calls, outside>>
      /\ pc = p /\ pc' = q
  BY <1>1 DEF RoundMove, bmVars
<1>4. BInv'
  BY <1>3 DEF BInv, Bets!TypeOK, Bets!BetsOfCurrentRound
<1>5. TypeOK'
  BY <1>2, <1>3, <1>4 DEF TypeOK, BInv, outside
<1>6. PcInv'
  BY <1>1, <1>2, <1>3 DEF PcInv, RoundIs, Flags
<1>7. QuietInv'
  <2>1. CASE p \in {"crash", "settle"}
    <3>1. Bets!Pending(bets) = {}
      BY <1>1, <1>3, <2>1 DEF QuietInv, PcInv, RoundIs
    <3> QED
      BY <1>3, <3>1 DEF QuietInv, Bets!Pending
  <2>2. CASE p \notin {"crash", "settle"}
    <3>1. t \notin {"CRASHED", "SETTLED"} /\ q # "crash"
      BY <1>1, <2>2
    <3> QED
      BY <1>2, <1>3, <3>1 DEF QuietInv, RoundIs
  <2> QED
    BY <2>1, <2>2
<1>8. MultInv' /\ CallInv'
  BY <1>1, <1>3 DEF MultInv, CallInv, AfterCrash, Fine
<1>9. CashoutUnderCrash'
  BY <1>3 DEF CashoutUnderCrash
<1> QED
  BY <1>4, <1>5, <1>6, <1>7, <1>8, <1>9

LEMMA AnnouncedStep ==
  ASSUME Inv, OpenBetting \/ CloseBetting \/ Start \/ Settle
  PROVE  Inv'
<1> USE DEF Inv
<1>1. pc \in {"open_betting", "close_betting", "start", "settle"}
  BY DEF OpenBetting, CloseBetting, Start, Settle, Try
<1>2. /\ pc = "open_betting" => Rounds!CanMove("CREATED", Now)
      /\ pc = "close_betting" => Rounds!CanMove("BETTING_OPEN", Now)
      /\ pc = "start" => Rounds!CanMove("BETTING_CLOSED", Now)
      /\ pc = "settle" => Rounds!CanMove("CRASHED", Now)
  BY MoveAllowed DEF PcInv, TypeOK
<1>3. \/ /\ RoundMove("CREATED", "BETTING_OPEN", "open_betting", "betting")
         /\ multiplier' = multiplier /\ Emit("BETTING_OPEN", multiplier)
      \/ /\ RoundMove("BETTING_OPEN", "BETTING_CLOSED", "close_betting", "start_bets")
         /\ multiplier' = multiplier /\ Emit("BETTING_CLOSED", multiplier)
      \/ /\ RoundMove("BETTING_CLOSED", "RUNNING", "start", "ticking")
         /\ multiplier' = 1000 /\ Emit("ROUND_RUNNING", 1000)
      \/ /\ RoundMove("CRASHED", "SETTLED", "settle", "settled")
         /\ multiplier' = multiplier /\ Emit("ROUND_SETTLED", multiplier)
  BY <1>2 DEF OpenBetting, CloseBetting, Start, Settle, Try, Announce, RoundsOnly,
     RoundMove, Rounds!OpenBetting, Rounds!CloseBetting, Rounds!Start, Rounds!Settle
<1>4. current # NoRound
  BY <1>1 DEF PcInv, RoundIs
<1>5. \E t \in EventTypes, m \in Nat : Emit(t, m)
  BY <1>3 DEF EventTypes, TypeOK
<1>6. channel' \in Seq(Event) /\ Len(channel') <= EventBuffer
  BY <1>4, <1>5, EmitFacts
<1> QED
  BY <1>3, <1>6, TransitionStep

LEMMA CrashRoundStep ==
  ASSUME Inv, CrashRound
  PROVE  Inv'
<1> USE DEF Inv
<1>1. Rounds!CanMove("RUNNING", Now)
  BY MoveAllowed DEF PcInv, TypeOK, CrashRound, Try
<1>2. /\ RoundMove("RUNNING", "CRASHED", "crash", "reveal")
      /\ UNCHANGED <<multiplier, channel>>
  BY <1>1 DEF CrashRound, Try, RoundsOnly, RoundMove, Rounds!Crash
<1> QED
  BY <1>2, TransitionStep DEF TypeOK

LEMMA CreateRoundStep ==
  ASSUME Inv, CreateRound
  PROVE  Inv'
<1> USE DEF Inv
<1>1. pc = "create" /\ Rounds!CanCreateRound(Now)
  BY DEF CreateRound, Try, PcInv, Rounds!CanCreateRound
<1>2. /\ pc' = "fairness" /\ Rounds!CreateRound(Now)
      /\ UNCHANGED <<bmVars, fairVars, lostBets, channel, calls, outside>>
  BY <1>1 DEF CreateRound, Try, RoundsOnly, fairVars
<1>3. /\ UNCHANGED <<bmRound, bettingOpen, running, bets, activePanels, nextBet,
                     nonce, serverSeed, clientSeed, lastServerSeed, crashPoint,
                     multiplier, lostBets, channel, calls, outside>>
  BY <1>2 DEF bmVars, fairVars
<1>4. Rounds!TypeOK' /\ RoundIs("CREATED")'
  BY <1>2, CreateRoundFacts DEF TypeOK
<1>5. BInv'
  BY <1>3 DEF BInv, Bets!TypeOK, Bets!BetsOfCurrentRound
<1>6. TypeOK'
  BY <1>2, <1>3, <1>4, <1>5 DEF TypeOK, BInv, PCs, outside
<1>7. PcInv'
  BY <1>1, <1>2, <1>3, <1>4 DEF PcInv, Flags
<1>8. QuietInv'
  BY <1>2, <1>4 DEF QuietInv, RoundIs
<1>9. bmRound = 0 /\ DOMAIN bets = {}
  BY <1>1, Roundless DEF PcInv, Flags
<1>10. MultInv' /\ CallInv' /\ CashoutUnderCrash'
  BY <1>2, <1>3, <1>9 DEF MultInv, CallInv, CashoutUnderCrash
<1> QED
  BY <1>5, <1>6, <1>7, <1>8, <1>10

LEMMA PrepareFairnessStep ==
  ASSUME Inv, PrepareFairness
  PROVE  Inv'
<1> USE DEF Inv
<1>1. /\ pc = "fairness" /\ pc' \in {"open_bets", "no_seed"}
      /\ pc' = "open_bets" => multiplier' = 1000
      /\ nonce' = nonce + 1
      /\ clientSeed' \in {clientSeed, lastServerSeed}
      /\ serverSeed' \in {serverSeed, nonce + 1}
      /\ crashPoint' \in CrashPoints \cup {crashPoint}
      /\ multiplier' \in {multiplier, 1000}
      /\ UNCHANGED <<rmVars, bmVars, lastServerSeed, lostBets, channel, calls, outside>>
  BY DEF PrepareFairness
<1>2. /\ UNCHANGED <<current, bmRound, bettingOpen, running, bets, activePanels, nextBet>>
  BY <1>1 DEF bmVars, rmVars
<1>3. BInv'
  BY <1>2 DEF BInv, Bets!TypeOK, Bets!BetsOfCurrentRound
<1>4. TypeOK'
  BY <1>1, UntouchedTypes DEF TypeOK, PCs, outside
<1>5. PcInv'
  BY <1>1, <1>2 DEF PcInv, Flags, RoundIs
<1>6. QuietInv'
  BY <1>1, <1>2 DEF QuietInv, RoundIs, Bets!Pending
<1>7. DOMAIN bets = {}
  BY <1>1, Roundless DEF PcInv, Flags
<1>8. MultInv' /\ CallInv' /\ CashoutUnderCrash'
  BY <1>1, <1>2, <1>7 DEF MultInv, CallInv, CashoutUnderCrash, Fine
<1> QED
  BY <1>3, <1>4, <1>5, <1>6, <1>8

-----------------------------------------------------------------------------
(* The steps that set the phase of the bets.                               *)

LEMMA OpenBetsStep ==
  ASSUME Inv, OpenBets \/ CloseBets \/ StartBets
  PROVE  Inv'
<1> USE DEF Inv
<1>1. /\ pc = "open_bets" => Bets!CanOpenRound(current.id) /\ current.id \in 1..MaxRounds
      /\ pc = "close_bets" => Bets!CanCloseBetting
      /\ pc = "start_bets" => Bets!CanStartRound
  <2>1. pc \in {"open_bets", "close_bets", "start_bets"} => current.id \in 1..MaxRounds
    BY DEF PcInv, RoundIs, TypeOK, Rounds!TypeOK, Rounds!Round
  <2> QED
    BY <2>1, EngineConstants DEF PcInv, Flags, Bets!CanOpenRound, Bets!CanCloseBetting,
       Bets!CanStartRound
<1>2. /\ UNCHANGED <<rmVars, fairVars, channel, lostBets, calls, outside>>
      /\ \/ pc = "open_bets" /\ pc' = "send_created" /\ Bets!OpenRound(current.id)
         \/ pc = "close_bets" /\ pc' = "close_betting" /\ Bets!CloseBetting
         \/ pc = "start_bets" /\ pc' = "start" /\ Bets!StartRound
  BY <1>1 DEF OpenBets, CloseBets, StartBets, Try, BetsOnly
<1>3. BInv' /\ UNCHANGED <<bets, nextBet>>
  BY <1>1, <1>2, FlagFacts
<1>4. TypeOK'
  BY <1>2, <1>3 DEF TypeOK, BInv, rmVars, fairVars, PCs, Rounds!TypeOK, outside
<1>5. PcInv'
  BY <1>2 DEF PcInv, Flags, RoundIs, rmVars, Bets!OpenRound, Bets!CloseBetting,
     Bets!StartRound
<1>6. QuietInv'
  BY <1>2, <1>3 DEF QuietInv, RoundIs, PcInv, rmVars, Bets!Pending
<1>7. MultInv' /\ CashoutUnderCrash'
  BY <1>2, <1>3 DEF MultInv, CashoutUnderCrash, AfterCrash, Fine, fairVars
<1>8. CallInv'
  <2>1. CASE pc = "open_bets"
    <3>1. DOMAIN bets = {}
      BY <2>1, Roundless DEF PcInv, Flags
    <3> QED
      BY <3>1, <1>2, <1>3 DEF CallInv
  <2>2. CASE pc \in {"close_bets", "start_bets"}
    BY <2>2, <1>2, <1>3 DEF CallInv, AfterCrash, Fine, fairVars
  <2> QED
    BY <1>2, <2>1, <2>2
<1> QED
  BY <1>3, <1>4, <1>5, <1>6, <1>7, <1>8

LEMMA CrashBetsStep ==
  ASSUME Inv, CrashBets
  PROVE  Inv'
<1> USE DEF Inv
<1>1. pc = "crash_bets" /\ Bets!CanCrash
  <2>1. pc = "crash_bets"
    BY DEF CrashBets, Try
  <2>2. current.id \in 1..MaxRounds
    BY <2>1 DEF PcInv, RoundIs, TypeOK, Rounds!TypeOK, Rounds!Round
  <2> QED
    BY <2>1, <2>2, EngineConstants DEF PcInv, Flags, Bets!CanCrash
<1>2. /\ UNCHANGED <<rmVars, fairVars, channel, calls, outside>>
      /\ pc' = "crash" /\ Bets!Crash /\ lostBets' = Bets!Losing
  BY <1>1 DEF CrashBets, Try, BetsOnly
<1>3. /\ BInv' /\ Bets!Pending(bets)' = {} /\ DOMAIN bets' = DOMAIN bets
      /\ \A i \in DOMAIN bets : bets'[i].state = "CASHED_OUT" => bets'[i] = bets[i]
  BY <1>2, CrashFacts
<1>4. lostBets' \in SUBSET Nat
  BY <1>2 DEF BInv, Bets!Losing, Bets!Pending, Bets!TypeOK
<1>5. TypeOK'
  BY <1>2, <1>3, <1>4 DEF TypeOK, BInv, rmVars, fairVars, PCs, Rounds!TypeOK, outside
<1>6. PcInv'
  BY <1>1, <1>2 DEF PcInv, Flags, RoundIs, rmVars, Bets!Crash
<1>7. QuietInv' /\ MultInv'
  BY <1>2, <1>3 DEF QuietInv, MultInv, AfterCrash
<1>8. CallInv'
  BY <1>2, <1>3 DEF CallInv, AfterCrash, Bets!Crash
<1>9. CashoutUnderCrash'
  BY <1>2, <1>3 DEF CashoutUnderCrash, fairVars
<1> QED
  BY <1>3, <1>5, <1>6, <1>7, <1>8, <1>9

LEMMA ResetBetsStep ==
  ASSUME Inv, ResetBets
  PROVE  Inv'
<1> USE DEF Inv
<1>1. pc = "reset_bets" /\ Bets!CanResetRound
  <2>1. pc = "reset_bets"
    BY DEF ResetBets, Try
  <2>2. current.id \in 1..MaxRounds
    BY <2>1 DEF PcInv, RoundIs, TypeOK, Rounds!TypeOK, Rounds!Round
  <2> QED
    BY <2>1, <2>2, EngineConstants DEF PcInv, Flags, Bets!CanResetRound
<1>2. /\ UNCHANGED <<rmVars, fairVars, channel, calls, outside>>
      /\ pc' = "create" /\ Bets!ResetRound /\ lostBets' = {}
  BY <1>1 DEF ResetBets, Try, BetsOnly
<1>3. BInv' /\ DOMAIN bets' = {} /\ nextBet' = nextBet
  BY <1>2, ResetFacts
<1>4. TypeOK'
  BY <1>2, <1>3 DEF TypeOK, BInv, rmVars, fairVars, PCs, Rounds!TypeOK, outside
<1>5. PcInv'
  BY <1>1, <1>2 DEF PcInv, Flags, RoundIs, rmVars, Bets!ResetRound
<1>6. QuietInv' /\ MultInv' /\ CallInv' /\ CashoutUnderCrash'
  BY <1>2, <1>3 DEF QuietInv, MultInv, CallInv, CashoutUnderCrash, Bets!Pending
<1> QED
  BY <1>3, <1>4, <1>5, <1>6

-----------------------------------------------------------------------------
(* The steps that set the multiplier.                                      *)

LEMMA TickStep ==
  ASSUME Inv, Tick
  PROVE  Inv'
<1> USE DEF Inv
<1>1. PICK raw \in Ticks : /\ raw < 10 * crashPoint /\ multiplier' = raw
                           /\ Emit("TICK", raw)
  BY DEF Tick
<1>2. /\ pc = "ticking" /\ pc' = pc
      /\ UNCHANGED <<rmVars, bmVars, nonce, serverSeed, clientSeed,
                     lastServerSeed, crashPoint, lostBets, calls, outside>>
  BY DEF Tick
<1>3. raw \in Nat /\ current # NoRound
  BY <1>2, EngineConstants DEF PcInv, RoundIs
<1>4. channel' \in Seq(Event) /\ Len(channel') <= EventBuffer
  BY <1>1, <1>3, EmitFacts DEF EventTypes
<1>5. TypeOK'
  BY <1>1, <1>2, <1>3, <1>4, UntouchedTypes DEF TypeOK, outside
<1>6. UNCHANGED <<current, bmRound, bettingOpen, running, bets, activePanels, nextBet>>
  BY <1>2 DEF rmVars, bmVars
<1>7. BInv' /\ PcInv' /\ QuietInv'
  BY <1>2, <1>6 DEF BInv, Bets!TypeOK, Bets!BetsOfCurrentRound, PcInv, Flags, RoundIs,
     QuietInv, Bets!Pending
<1>8. MultInv' /\ CallInv' /\ CashoutUnderCrash'
  BY <1>1, <1>2, <1>6 DEF MultInv, CallInv, CashoutUnderCrash, AfterCrash, Fine
<1> QED
  BY <1>5, <1>7, <1>8

LEMMA RevealStep ==
  ASSUME Inv, Reveal
  PROVE  Inv'
<1> USE DEF Inv
<1>1. /\ pc = "reveal" /\ pc' = "send_crash"
      /\ multiplier' = 10 * crashPoint /\ lastServerSeed' = serverSeed
      /\ UNCHANGED <<rmVars, bmVars, nonce, serverSeed, clientSeed, crashPoint,
                     lostBets, channel, calls, outside>>
  BY DEF Reveal
<1>2. UNCHANGED <<current, bmRound, bettingOpen, running, bets, activePanels, nextBet>>
  BY <1>1 DEF rmVars, bmVars
<1>3. 10 * crashPoint \in Nat
  BY EngineConstants DEF TypeOK
<1>4. TypeOK'
  BY <1>1, <1>3, UntouchedTypes DEF TypeOK, PCs, outside
<1>5. BInv' /\ QuietInv'
  BY <1>1, <1>2 DEF BInv, Bets!TypeOK, Bets!BetsOfCurrentRound, QuietInv, RoundIs, Bets!Pending
<1>6. PcInv'
  BY <1>1, <1>2 DEF PcInv, Flags, RoundIs
<1>7. MultInv' /\ CallInv' /\ CashoutUnderCrash'
  BY <1>1, <1>2 DEF MultInv, CallInv, CashoutUnderCrash, AfterCrash, Fine
<1> QED
  BY <1>4, <1>5, <1>6, <1>7

-----------------------------------------------------------------------------
(* The players.                                                            *)

LEMMA PlaceBetStep ==
  ASSUME Inv, NEW u \in Users, NEW p \in Panels, NEW a \in Amounts, PlaceBet(u, p, a)
  PROVE  Inv'
<1> USE DEF Inv
<1>1. /\ UNCHANGED <<rmVars, pc, fairVars, lostBets, channel, calls, outside>>
      /\ Bets!PlaceBet(u, p, a)
  BY DEF PlaceBet
<1>2. /\ BInv'
      /\ nextBet' = nextBet + 1
      /\ DOMAIN bets' = DOMAIN bets \cup {nextBet + 1}
      /\ \A i \in DOMAIN bets : bets'[i] = bets[i]
      /\ bets'[nextBet + 1].state = "PENDING"
  BY <1>1, PlaceBetFacts
<1>3. UNCHANGED <<bmRound, bettingOpen, running>> /\ bettingOpen
  BY <1>1 DEF Bets!PlaceBet, Bets!PlaceBetResult
<1>4. TypeOK'
  BY <1>1, <1>2 DEF TypeOK, BInv, rmVars, fairVars, Rounds!TypeOK, outside
<1>5. PcInv'
  BY <1>1, <1>3 DEF PcInv, Flags, RoundIs, rmVars
<1>6. ~(pc = "crash" \/ RoundIs("CRASHED") \/ RoundIs("SETTLED"))
  BY <1>3 DEF PcInv, Flags, RoundIs, TypeOK, PCs
<1>7. QuietInv' /\ MultInv'
  BY <1>1, <1>3, <1>6 DEF QuietInv, RoundIs, rmVars, MultInv, AfterCrash, Fine, fairVars
<1>8. CallInv'
  <2> SUFFICES ASSUME NEW c \in Callers
               PROVE  /\ calls[c].bet <= nextBet'
                      /\ calls[c].bet \in DOMAIN bets' => AfterCrash' \/ Fine(calls[c].raw)'
    BY <1>1 DEF CallInv
  <2>1. calls[c].bet \in Nat /\ calls[c].bet <= nextBet /\ nextBet \in Nat
    BY DEF CallInv, TypeOK, Bets!TypeOK
  <2>2. calls[c].bet \in DOMAIN bets' => calls[c].bet \in DOMAIN bets
    BY <1>2, <2>1
  <2> QED
    BY <1>1, <1>2, <1>3, <2>1, <2>2 DEF CallInv, AfterCrash, Fine, fairVars
<1>9. CashoutUnderCrash'
  BY <1>1, <1>2 DEF CashoutUnderCrash, fairVars
<1> QED
  BY <1>2, <1>4, <1>5, <1>7, <1>8, <1>9

LEMMA ReadMultiplierStep ==
  ASSUME Inv, NEW c \in Callers, NEW i \in 1..nextBet, ReadMultiplier(c, i)
  PROVE  Inv'
<1> USE DEF Inv
<1>1. /\ UNCHANGED <<rmVars, bmVars, pc, fairVars, lostBets, channel, outside>>
      /\ calls' = [calls EXCEPT ![c] = [bet |-> i, raw |-> multiplier]]
  BY DEF ReadMultiplier
<1>2. i \in Nat /\ i <= nextBet /\ multiplier \in Nat
  BY DEF TypeOK, Bets!TypeOK
<1>3. /\ calls'[c].bet = i /\ calls'[c].raw = multiplier
      /\ \A d \in Callers : d # c => calls'[d] = calls[d]
      /\ calls' \in [Callers -> [bet: Nat, raw: Nat]]
  BY <1>1, <1>2 DEF TypeOK
<1>4. UNCHANGED <<current, bmRound, bettingOpen, running, bets, activePanels, nextBet,
                  crashPoint, multiplier, pc>>
  BY <1>1 DEF rmVars, bmVars, fairVars
<1>5. TypeOK'
  BY <1>1, <1>3 DEF TypeOK, rmVars, bmVars, fairVars, Rounds!TypeOK, Bets!TypeOK, outside
<1>6. BInv' /\ PcInv' /\ QuietInv' /\ MultInv' /\ CashoutUnderCrash'
  BY <1>4 DEF BInv, Bets!TypeOK, Bets!BetsOfCurrentRound, PcInv, Flags, RoundIs,
     QuietInv, Bets!Pending, MultInv, AfterCrash, Fine, CashoutUnderCrash
<1>7. i \in DOMAIN bets => AfterCrash \/ Fine(multiplier)
  <2>1. CASE pc \in {"create", "fairness", "no_seed"}
    BY <2>1, Roundless DEF PcInv, Flags
  <2>2. CASE pc \notin {"create", "fairness", "no_seed"}
    BY <2>2 DEF MultInv
  <2> QED
    BY <2>1, <2>2
<1>8. CallInv'
  <2> SUFFICES ASSUME NEW d \in Callers
               PROVE  /\ calls'[d].bet <= nextBet
                      /\ calls'[d].bet \in DOMAIN bets => AfterCrash \/ Fine(calls'[d].raw)
    BY <1>4 DEF CallInv, AfterCrash, Fine
  <2>1. CASE d = c
    BY <2>1, <1>2, <1>3, <1>7
  <2>2. CASE d # c
    BY <2>2, <1>3 DEF CallInv
  <2> QED
    BY <2>1, <2>2
<1> QED
  BY <1>5, <1>6, <1>8

LEMMA CashoutStep ==
  ASSUME Inv, NEW c \in Callers, Cashout(c)
  PROVE  Inv'
<1> USE DEF Inv
<1> DEFINE i == calls[c].bet
           raw == calls[c].raw
<1>1. /\ UNCHANGED <<rmVars, pc, fairVars, lostBets, channel, outside>>
      /\ calls' = [calls EXCEPT ![c] = NoCall]
      /\ Bets!Cashout(i, raw) \/ UNCHANGED bmVars
  BY DEF Cashout
<1>2. i \in Nat /\ raw \in Nat
  BY DEF TypeOK
<1>3. /\ calls'[c] = NoCall
      /\ \A d \in Callers : d # c => calls'[d] = calls[d]
      /\ calls' \in [Callers -> [bet: Nat, raw: Nat]]
  BY <1>1 DEF TypeOK, NoCall
<1>4. /\ BInv' /\ nextBet' = nextBet /\ DOMAIN bets' = DOMAIN bets
      /\ UNCHANGED <<bmRound, bettingOpen, running>>
  <2>1. CASE Bets!Cashout(i, raw)
    BY <1>2, <2>1, CashoutFacts DEF Bets!Cashout
  <2>2. CASE UNCHANGED bmVars
    BY <2>2 DEF bmVars, BInv, Bets!TypeOK, Bets!BetsOfCurrentRound
  <2> QED
    BY <1>1, <2>1, <2>2
<1>5. UNCHANGED <<current, crashPoint, multiplier, pc>>
  BY <1>1 DEF rmVars, fairVars
<1>6. TypeOK'
  BY <1>1, <1>3, <1>4 DEF TypeOK, BInv, rmVars, fairVars, Rounds!TypeOK, outside
<1>7. PcInv' /\ MultInv'
  BY <1>4, <1>5 DEF PcInv, Flags, RoundIs, MultInv, AfterCrash, Fine
<1>8. QuietInv'
  <2>1. CASE UNCHANGED bmVars
    BY <2>1, <1>5 DEF bmVars, QuietInv, RoundIs, Bets!Pending
  <2>2. CASE Bets!Cashout(i, raw)
    <3>1. Bets!Pending(bets) # {}
      BY <1>2, <2>2, CashoutFacts
    <3> QED
      BY <3>1, <1>5 DEF QuietInv, RoundIs
  <2> QED
    BY <1>1, <2>1, <2>2
<1>9. CallInv'
  <2> SUFFICES ASSUME NEW d \in Callers
               PROVE  /\ calls'[d].bet <= nextBet
                      /\ calls'[d].bet \in DOMAIN bets => AfterCrash \/ Fine(calls'[d].raw)
    BY <1>4, <1>5 DEF CallInv, AfterCrash, Fine
  <2>1. CASE d = c
    BY <2>1, <1>3 DEF NoCall, TypeOK, Bets!TypeOK
  <2>2. CASE d # c
    BY <2>2, <1>3 DEF CallInv
  <2> QED
    BY <2>1, <2>2
<1>10. CashoutUnderCrash'
  <2>1. CASE UNCHANGED bmVars
    BY <2>1, <1>5 DEF bmVars, CashoutUnderCrash
  <2>2. CASE Bets!Cashout(i, raw)
    <3>1. /\ \A j \in DOMAIN bets : j # i => bets'[j] = bets[j]
          /\ bets'[i].multi = raw \div 10
          /\ running /\ i \in DOMAIN bets
      BY <1>2, <2>2, CashoutFacts DEF Bets!Pending
    <3>2. ~AfterCrash
      BY <3>1 DEF AfterCrash, PcInv, Flags
    <3>3. raw = 1000 \/ raw < 10 * crashPoint
      BY <3>1, <3>2 DEF CallInv, Fine
    <3>4. crashPoint \in Nat
      BY EngineConstants DEF TypeOK
    <3>5. raw \div 10 = 100 \/ raw \div 10 < crashPoint
      BY <1>2, <3>3, <3>4, SMT
    <3> QED
      BY <1>4, <1>5, <3>1, <3>5 DEF CashoutUnderCrash
  <2> QED
    BY <1>1, <2>1, <2>2
<1> QED
  BY <1>4, <1>6, <1>7, <1>8, <1>9, <1>10

-----------------------------------------------------------------------------
LEMMA InitStep == Init => Inv
<1> SUFFICES ASSUME Init PROVE Inv
  OBVIOUS
<1>1. DOMAIN bets = {} /\ bets \in [DOMAIN bets -> Bets!Bet]
  BY DEF Init, Bets!Init
<1>2. Bets!TypeOK /\ Bets!BetsOfCurrentRound /\ Bets!Pending(bets) = {}
  BY <1>1 DEF Init, Bets!Init, Bets!TypeOK, Bets!BetsOfCurrentRound, Bets!Pending
<1>3. Rounds!TypeOK
  BY EngineConstants DEF Init, Rounds!Init, Rounds!TypeOK
<1>4. TypeOK
  <2>1. channel \in Seq(Event) /\ Len(channel) <= EventBuffer
    BY EngineConstants DEF Init
  <2>2. calls \in [Callers -> [bet: Nat, raw: Nat]]
    BY DEF Init, NoCall
  <2>3. /\ pc \in PCs /\ nonce \in Nat /\ serverSeed \in Nat /\ clientSeed \in Nat
        /\ lastServerSeed \in Nat /\ crashPoint = 0 /\ multiplier \in Nat
        /\ lostBets \in SUBSET Nat /\ ctxDone \in BOOLEAN
        /\ forwarding \in BOOLEAN /\ told \in SUBSET (1..MaxRounds)
    BY DEF Init, PCs
  <2> QED
    BY <1>2, <1>3, <2>1, <2>2, <2>3 DEF TypeOK
<1>5. PcInv /\ QuietInv /\ MultInv
  BY <1>2 DEF Init, Rounds!Init, Bets!Init, PcInv, Flags, RoundIs, QuietInv, MultInv
<1>6. CallInv /\ CashoutUnderCrash
  BY <1>1 DEF Init, Bets!Init, CallInv, CashoutUnderCrash, NoCall
<1> QED
  BY <1>2, <1>4, <1>5, <1>6 DEF Inv, BInv

LEMMA NextStep == Inv /\ [Next]_vars => Inv'
<1> SUFFICES ASSUME Inv, [Next]_vars PROVE Inv'
  OBVIOUS
<1>1. CASE UNCHANGED vars
  <2>1. UNCHANGED <<rmVars, bmVars, pc, fairVars, lostBets, channel, calls, outside>>
    BY <1>1 DEF vars
  <2>2. TypeOK'
    BY <2>1, UntouchedTypes DEF Inv, TypeOK, fairVars, outside
  <2>3. PcInv'
    BY <2>1 DEF Inv, PcInv, RoundIs, Flags, rmVars, bmVars
  <2> QED
    BY <2>1, <2>2, <2>3, IdleStep DEF AfterCrash, fairVars, bmVars
<1>2. CASE Engine
  BY <1>2, CreateRoundStep, PrepareFairnessStep, OpenBetsStep, SendStep, AnnouncedStep,
     GotoStep, TickStep, CrashBetsStep, CrashRoundStep, RevealStep, ResetBetsStep, StopStep
  DEF Engine
<1>3. CASE Players
  BY <1>3, PlaceBetStep, ReadMultiplierStep, CashoutStep DEF Players
<1>4. CASE Forwarder \/ Cancel
  BY <1>4, ReceiveStep, CancelStep DEF Forwarder
<1> QED
  BY <1>1, <1>2, <1>3, <1>4 DEF Next

\* Every variable of the composition keeps its type.
THEOREM EngineTypes == Spec => []TypeOK
<1>1. Inv => TypeOK
  BY DEF Inv
<1> QED
  BY InitStep, NextStep, <1>1, PTL DEF Spec

\* No player is ever paid at or over the crash point of the bet's round (but
\* at 1.00), however late the cashout uses the multiplier it read.
THEOREM CashoutsUnderCrash == Spec => []CashoutUnderCrash
<1>1. Inv => CashoutUnderCrash
  BY DEF Inv
<1> QED
  BY InitStep, NextStep, <1>1, PTL DEF Spec

\* The loop never has a call refused by either machine.
THEOREM LoopNeverRefused == Spec => []NeverRefused
<1>1. Inv => NeverRefused
  BY DEF Inv, PcInv, NeverRefused
<1> QED
  BY InitStep, NextStep, <1>1, PTL DEF Spec

\* The state machine of the round and the flags of the bets agree.
THEOREM PhasesAlwaysAgree == Spec => []PhasesAgree
<1>1. Inv => PhasesAgree
  <2> SUFFICES ASSUME Inv PROVE PhasesAgree
    OBVIOUS
  <2>1. current # NoRound /\ current.state \in {"CRASHED", "SETTLED"}
          => Bets!Pending(bets) = {}
    BY DEF Inv, QuietInv, RoundIs
  <2>2. /\ bmRound # 0 => current # NoRound /\ current.id = bmRound
        /\ bettingOpen => current.state \in {"CREATED", "BETTING_OPEN"}
        /\ running => current.state \in {"BETTING_CLOSED", "RUNNING"}
        /\ current # NoRound => current.id \in 1..MaxRounds
        /\ bettingOpen \/ running => current # NoRound /\ bmRound = current.id
    BY DEF Inv, PcInv, RoundIs, Flags, TypeOK, PCs, Rounds!TypeOK, Rounds!Round
  <2> QED
    BY <2>1, <2>2, EngineConstants DEF PhasesAgree
<1> QED
  BY InitStep, NextStep, <1>1, PTL DEF Spec

-----------------------------------------------------------------------------
(* What the events in the channel, and their consumer, tell.               *)

\* Round r has crashed: its bets are over for good.
RoundOver(r) ==
  /\ current # NoRound
  /\ r < current.id \/ (r = current.id /\ current.state \in {"CRASHED", "SETTLED"})

\* An event that bears a seed bears the one it committed to, and it is, like
\* every event that is told whole, of a round over.
Harmless(e) ==
  /\ e.reveal # 0 => e.reveal = e.commit
  /\ e.reveal # 0 \/ e.type = "CRASH" => RoundOver(e.round)

RevealInv ==
  /\ current # NoRound => current.id = nextRound
  /\ \A n \in 1..Len(channel) : Harmless(channel[n])
  /\ \A r \in told : RoundOver(r)

LEMMA ChannelHarmless ==
  ASSUME TypeOK, RevealInv,
         \A r \in 1..MaxRounds : RoundOver(r) => RoundOver(r)',
         \/ channel' = channel
         \/ channel # <<>> /\ channel' = Tail(channel)
         \/ \E e \in Event : channel' = Append(channel, e) /\ Harmless(e)'
  PROVE  \A n \in 1..Len(channel') : Harmless(channel[n])'
<1> USE DEF RevealInv
<1>1. channel \in Seq(Event) /\ \A n \in 1..Len(channel) : channel[n] \in Event
  BY DEF TypeOK
<1>2. ASSUME NEW e \in Event, Harmless(e) PROVE Harmless(e)'
  BY <1>2 DEF Harmless, Event
<1>3. CASE channel' = channel
  BY <1>1, <1>2, <1>3
<1>4. CASE channel # <<>> /\ channel' = Tail(channel)
  <2> SUFFICES ASSUME NEW n \in 1..Len(channel') PROVE Harmless(channel[n])'
    OBVIOUS
  <2>1. n + 1 \in 1..Len(channel) /\ channel'[n] = channel[n + 1]
    BY <1>1, <1>4
  <2> QED
    BY <1>1, <1>2, <2>1 DEF Harmless
<1>5. CASE \E e \in Event : channel' = Append(channel, e) /\ Harmless(e)'
  <2>1. PICK e \in Event : channel' = Append(channel, e) /\ Harmless(e)'
    BY <1>5
  <2> SUFFICES ASSUME NEW n \in 1..Len(channel') PROVE Harmless(channel[n])'
    OBVIOUS
  <2>2. CASE n = Len(channel) + 1
    BY <1>1, <2>1, <2>2 DEF Harmless
  <2>3. CASE n # Len(channel) + 1
    <3>1. n \in 1..Len(channel) /\ channel'[n] = channel[n]
      BY <1>1, <2>1, <2>3
    <3> QED
      BY <1>1, <1>2, <3>1 DEF Harmless
  <2> QED
    BY <2>2, <2>3
<1> QED
  BY <1>3, <1>4, <1>5

\* What the consumer has told stays harmless.
LEMMA ToldOver ==
  ASSUME TypeOK, RevealInv, Receive \/ told' = told,
         \A r \in 1..MaxRounds : RoundOver(r) => RoundOver(r)'
  PROVE  \A r \in told' : RoundOver(r)'
<1>1. ASSUME NEW r \in told' PROVE r \in 1..MaxRounds /\ RoundOver(r)
  <2>1. CASE r \in told
    BY <2>1 DEF RevealInv, TypeOK
  <2>2. CASE r \notin told
    <3>1. channel # <<>> /\ Tells(Head(channel)) /\ r = Head(channel).round
      BY <1>1, <2>2 DEF Receive
    <3>2. 1 \in 1..Len(channel) /\ Head(channel) = channel[1] /\ channel[1] \in Event
      BY <3>1 DEF TypeOK
    <3> QED
      BY <3>1, <3>2 DEF Tells, RevealInv, Harmless, Event
  <2> QED
    BY <2>1, <2>2
<1> QED
  BY <1>1

\* A step that leaves the round alone keeps what is over over.
LEMMA SameRoundStep ==
  ASSUME TypeOK, RevealInv, UNCHANGED rmVars, Receive \/ told' = told,
         \/ channel' = channel
         \/ channel # <<>> /\ channel' = Tail(channel)
         \/ \E e \in Event : channel' = Append(channel, e) /\ Harmless(e)
  PROVE  RevealInv'
<1>1. UNCHANGED <<current, nextRound>>
  BY DEF rmVars
<1>2. \A r \in 1..MaxRounds : RoundOver(r) => RoundOver(r)'
  BY <1>1 DEF RoundOver
<1>3. \A e \in Event : Harmless(e) => Harmless(e)'
  BY <1>2 DEF Harmless, Event
<1>4. \A n \in 1..Len(channel') : Harmless(channel[n])'
  BY <1>2, <1>3, ChannelHarmless
<1>5. \A r \in told' : RoundOver(r)'
  BY <1>2, ToldOver
<1> QED
  BY <1>1, <1>4, <1>5 DEF RevealInv

\* A step that moves the round and announces it.
LEMMA MovedRoundStep ==
  ASSUME Inv, RevealInv, OpenBetting \/ CloseBetting \/ Start \/ CrashRound \/ Settle
  PROVE  RevealInv'
<1> USE DEF Inv
<1>1. PICK f \in Rounds!States, t \in Rounds!States :
        /\ Rounds!Transition(f, t, Now) /\ RoundIs(f)
        /\ f \in {"CRASHED", "SETTLED"} => t \in {"CRASHED", "SETTLED"}
        /\ channel' = channel \/ \E u \in EventTypes \ {"CRASH"}, m \in Nat : Emit(u, m)
  <2>1. /\ pc = "open_betting" => Rounds!CanMove("CREATED", Now) /\ RoundIs("CREATED")
        /\ pc = "close_betting" => Rounds!CanMove("BETTING_OPEN", Now) /\ RoundIs("BETTING_OPEN")
        /\ pc = "start" => Rounds!CanMove("BETTING_CLOSED", Now) /\ RoundIs("BETTING_CLOSED")
        /\ pc = "crash" => Rounds!CanMove("RUNNING", Now) /\ RoundIs("RUNNING")
        /\ pc = "settle" => Rounds!CanMove("CRASHED", Now) /\ RoundIs("CRASHED")
    BY MoveAllowed DEF PcInv, TypeOK
  <2>2. multiplier \in Nat /\ 1000 \in Nat
    BY DEF TypeOK
  <2>3. CASE OpenBetting
    <3>1. Rounds!Transition("CREATED", "BETTING_OPEN", Now) /\ Emit("BETTING_OPEN", multiplier)
      BY <2>1, <2>3 DEF OpenBetting, Try, Announce, Rounds!OpenBetting
    <3> QED
      BY <2>1, <2>2, <2>3, <3>1 DEF OpenBetting, Try, Rounds!States, EventTypes
  <2>4. CASE CloseBetting
    <3>1. Rounds!Transition("BETTING_OPEN", "BETTING_CLOSED", Now)
            /\ Emit("BETTING_CLOSED", multiplier)
      BY <2>1, <2>4 DEF CloseBetting, Try, Announce, Rounds!CloseBetting
    <3> QED
      BY <2>1, <2>2, <2>4, <3>1 DEF CloseBetting, Try, Rounds!States, EventTypes
  <2>5. CASE Start
    <3>1. Rounds!Transition("BETTING_CLOSED", "RUNNING", Now) /\ Emit("ROUND_RUNNING", 1000)
      BY <2>1, <2>5 DEF Start, Try, Announce, Rounds!Start
    <3> QED
      BY <2>1, <2>2, <2>5, <3>1 DEF Start, Try, Rounds!States, EventTypes
  <2>6. CASE CrashRound
    <3>1. Rounds!Transition("RUNNING", "CRASHED", Now) /\ channel' = channel
      BY <2>1, <2>6 DEF CrashRound, Try, Rounds!Crash
    <3> QED
      BY <2>1, <2>6, <3>1 DEF CrashRound, Try, Rounds!States
  <2>7. CASE Settle
    <3>1. Rounds!Transition("CRASHED", "SETTLED", Now) /\ Emit("ROUND_SETTLED", multiplier)
      BY <2>1, <2>7 DEF Settle, Try, Announce, Rounds!Settle
    <3> QED
      BY <2>1, <2>2, <2>7, <3>1 DEF Settle, Try, Rounds!States, EventTypes
  <2> QED
    BY <2>3, <2>4, <2>5, <2>6, <2>7
<1>2. RoundIs(t)' /\ current'.id = current.id /\ nextRound' = nextRound
  BY <1>1, TransitionFacts DEF TypeOK, Rounds!Transition
<1>3. \A r \in 1..MaxRounds : RoundOver(r) => RoundOver(r)'
  BY <1>1, <1>2 DEF RoundOver, RoundIs
<1>4. channel' = channel \/ \E e \in Event : channel' = Append(channel, e) /\ Harmless(e)'
  <2>1. ASSUME NEW u \in EventTypes \ {"CRASH"}, NEW m \in Nat
        PROVE  NewEvent(u, m) \in Event
    BY <1>1, NewEventFacts DEF RoundIs
  <2>2. CASE \E u \in EventTypes \ {"CRASH"}, m \in Nat : Emit(u, m)
    <3>1. PICK u \in EventTypes \ {"CRASH"}, m \in Nat : Emit(u, m)
      BY <2>2
    <3> DEFINE e == NewEvent(u, m)
    <3>2. channel' = channel \/ channel' = Append(channel, e)
      BY <3>1 DEF Emit
    <3>3. e \in Event
      BY <2>1
    <3>4. PICK x \in Event : x = e
      BY <3>3
    <3>5. x.reveal = 0 /\ x.type # "CRASH"
      BY <3>4 DEF NewEvent
    <3>6. Harmless(x)'
      BY <3>5 DEF Harmless
    <3> QED
      BY <3>2, <3>4, <3>6
  <2> QED
    BY <1>1, <2>2
<1>5. \A n \in 1..Len(channel') : Harmless(channel[n])'
  BY <1>3, <1>4, ChannelHarmless
<1>6. told' = told
  BY DEF OpenBetting, CloseBetting, Start, CrashRound, Settle, Try, outside
<1>7. \A r \in told' : RoundOver(r)'
  BY <1>3, <1>6, ToldOver
<1> QED
  BY <1>1, <1>2, <1>5, <1>7 DEF RevealInv, RoundIs

\* The events sent while the round stays as it is.
LEMMA SentHarmless ==
  ASSUME Inv, SendRoundCreated \/ Tick \/ SendCrash
  PROVE  \/ channel' = channel
         \/ \E e \in Event : channel' = Append(channel, e) /\ Harmless(e)
<1> USE DEF Inv
<1>1. current # NoRound
  BY DEF PcInv, RoundIs, SendRoundCreated, Tick, SendCrash
<1>2. ASSUME NEW u \in EventTypes, NEW m \in Nat
      PROVE  /\ NewEvent(u, m) \in Event
             /\ u # "CRASH" => Harmless(NewEvent(u, m))
  BY <1>1, NewEventFacts DEF Harmless, NewEvent
<1>3. CASE SendRoundCreated
  <2> DEFINE n == [NewEvent("ROUND_CREATED", 1000) EXCEPT !.crash = 0]
  <2>1. NewEvent("ROUND_CREATED", 1000) \in Event
    BY <1>2 DEF EventTypes
  <2>2. n \in Event
    BY <2>1 DEF Event
  <2>3. Harmless(n)
    BY DEF Harmless, NewEvent
  <2> QED
    BY <1>3, <2>2, <2>3 DEF SendRoundCreated
<1>4. CASE Tick
  <2>1. PICK raw \in Ticks : Emit("TICK", raw)
    BY <1>4 DEF Tick
  <2>2. raw \in Nat /\ "TICK" \in EventTypes
    BY EngineConstants DEF EventTypes
  <2> QED
    BY <1>2, <2>1, <2>2 DEF Emit
<1>5. CASE SendCrash
  <2> DEFINE n == NewEvent("CRASH", 10 * crashPoint)
  <2>1. 10 * crashPoint \in Nat
    BY EngineConstants DEF TypeOK
  <2>2. n \in Event
    BY <1>2, <2>1 DEF EventTypes
  <2>3. RevealEvent(n) \in Event
    BY <2>2 DEF Event, RevealEvent, TypeOK
  <2>4. RoundIs("CRASHED")
    BY <1>5 DEF SendCrash, PcInv
  <2>5. Harmless(RevealEvent(n))
    BY <2>4 DEF Harmless, RevealEvent, NewEvent, RoundOver, RoundIs
  <2> QED
    BY <1>5, <2>3, <2>5 DEF SendCrash
<1> QED
  BY <1>3, <1>4, <1>5

LEMMA NewRoundHarmless ==
  ASSUME Inv, RevealInv, CreateRound
  PROVE  RevealInv'
<1> USE DEF Inv
<1>1. Rounds!CreateRound(Now) /\ channel' = channel
  BY DEF CreateRound, Try, PcInv, Rounds!CanCreateRound
<1>2. current' # NoRound /\ current'.id = nextRound + 1 /\ nextRound' = nextRound + 1
  BY <1>1, CreateRoundFacts DEF TypeOK, RoundIs, Rounds!CreateRound
<1>3. nextRound \in Nat
  BY EngineConstants DEF TypeOK, Rounds!TypeOK
<1>4. \A r \in 1..MaxRounds : RoundOver(r) => RoundOver(r)'
  BY <1>2, <1>3 DEF RoundOver, RevealInv
<1>5. \A n \in 1..Len(channel') : Harmless(channel[n])'
  BY <1>1, <1>4, ChannelHarmless
<1>6. told' = told
  BY DEF CreateRound, Try, outside
<1>7. \A r \in told' : RoundOver(r)'
  BY <1>4, <1>6, ToldOver
<1> QED
  BY <1>2, <1>5, <1>7 DEF RevealInv

LEMMA RevealStepped == Inv /\ RevealInv /\ [Next]_vars => RevealInv'
<1> SUFFICES ASSUME Inv, RevealInv, [Next]_vars PROVE RevealInv'
  OBVIOUS
<1> USE DEF Inv
<1>1. CASE CreateRound
  BY <1>1, NewRoundHarmless
<1>2. CASE OpenBetting \/ CloseBetting \/ Start \/ CrashRound \/ Settle
  BY <1>2, MovedRoundStep
<1>3. CASE SendRoundCreated \/ Tick \/ SendCrash
  <2>1. UNCHANGED rmVars /\ told' = told
    BY <1>3 DEF SendRoundCreated, Tick, SendCrash, outside
  <2> QED
    BY <1>3, <2>1, SentHarmless, SameRoundStep
<1>4. CASE PrepareFairness \/ Reveal \/ Stop \/ Cancel \/ Forwarder
  <2>1. /\ UNCHANGED rmVars
        /\ channel' = channel \/ (channel # <<>> /\ channel' = Tail(channel))
        /\ Receive \/ told' = told
    BY <1>4 DEF PrepareFairness, Reveal, Stop, Cancel, Forwarder, Receive, StopForwarding, outside
  <2> QED
    BY <2>1, SameRoundStep
<1>5. CASE BettingElapsed \/ CrashReached \/ PauseElapsed
  <2>1. UNCHANGED rmVars /\ channel' = channel /\ told' = told
    BY <1>5 DEF BettingElapsed, CrashReached, PauseElapsed, Goto, outside
  <2> QED
    BY <2>1, SameRoundStep
<1>6. CASE OpenBets \/ CloseBets \/ StartBets \/ CrashBets \/ ResetBets
  <2>1. UNCHANGED rmVars /\ channel' = channel /\ told' = told
    BY <1>6 DEF OpenBets, CloseBets, StartBets, CrashBets, ResetBets, Try, BetsOnly, outside
  <2> QED
    BY <2>1, SameRoundStep
<1>7. CASE Players
  <2>1. UNCHANGED rmVars /\ channel' = channel /\ told' = told
    BY <1>7 DEF Players, PlaceBet, ReadMultiplier, Cashout, outside
  <2> QED
    BY <2>1, SameRoundStep
<1>8. CASE UNCHANGED vars
  <2>1. UNCHANGED rmVars /\ channel' = channel /\ told' = told
    BY <1>8 DEF vars, outside
  <2> QED
    BY <2>1, SameRoundStep
<1> QED
  BY <1>1, <1>2, <1>3, <1>4, <1>5, <1>6, <1>7, <1>8 DEF Next, Engine

\* Neither the crash point of a round nor its seed is told until its bets can
\* neither be placed nor cashed out, and no event bears the seed before.
THEOREM RevealsAfterPlay == Spec => []RevealAfterPlay
<1>1. Init => RevealInv
  BY DEF Init, Rounds!Init, RevealInv
<1>2. Inv /\ RevealInv => RevealAfterPlay
  <2> SUFFICES ASSUME Inv, RevealInv PROVE RevealAfterPlay
    OBVIOUS
  <2>1. ASSUME NEW r \in 1..MaxRounds, RoundOver(r) PROVE PlayOver(r)
    <3> SUFFICES ASSUME bmRound = r PROVE PlayOver(r)
      BY DEF PlayOver
    <3>1. bmRound # 0
      BY EngineConstants
    <3>2. bmRound = current.id
      BY <3>1 DEF Inv, PcInv, Flags, RoundIs, TypeOK, PCs
    <3>3. RoundIs("CRASHED") \/ RoundIs("SETTLED")
      BY <2>1, <3>2, EngineConstants DEF RoundOver, RoundIs
    <3>4. Bets!Pending(bets) = {}
      BY <3>3 DEF Inv, QuietInv
    <3>5. ~bettingOpen /\ ~running
      BY <3>3 DEF Inv, PcInv, Flags, RoundIs, TypeOK, PCs
    <3> QED
      BY <3>4, <3>5 DEF PlayOver
  <2>2. \A r \in told : PlayOver(r)
    BY <2>1 DEF RevealInv, Inv, TypeOK
  <2>3. ASSUME NEW n \in 1..Len(channel), channel[n].reveal # 0
        PROVE  channel[n].reveal = channel[n].commit /\ PlayOver(channel[n].round)
    <3>1. channel[n] \in Event
      BY DEF Inv, TypeOK
    <3>2. channel[n].round \in 1..MaxRounds
      BY <3>1 DEF Event
    <3> QED
      BY <2>1, <2>3, <3>2 DEF RevealInv, Harmless
  <2> QED
    BY <2>2, <2>3 DEF RevealAfterPlay
<1> QED
  BY InitStep, NextStep, RevealStepped, <1>1, <1>2, PTL DEF Spec

-----------------------------------------------------------------------------
(* The engine implements the game.  Its bets are those of BetManager, whose *)
(* proofs apply: the index of panels is exact and a payout does not wrap.   *)

BP == INSTANCE BetManagerProofs WITH RoundIds <- 1..MaxRounds, NoRound <- 0,
                                     Raws <- Ticks,
                                     stage <- CycleStage, round <- CycleRound

\* What the game needs besides Inv: the index of panels is exact, a round that
\* has bets has drawn its crash point, and a pending bet is owed nothing.
GameInv ==
  /\ BP!IInv
  /\ pc = "open_bets" \/ bmRound # 0 => crashPoint \in CrashPoints
  /\ \A i \in Bets!Pending(bets) : bets[i].payout = 0

\* Where the loop has closed the bets and not yet started them.
Waiting == pc \in {"close_betting", "start_bets"}

\* The six ways a step touches the bets, and how the loop moves with it.
GameOpens == pc = "open_bets" /\ Bets!OpenRound(current.id)
GameCloses == pc' = "close_betting" /\ Bets!CloseBetting
GameStarts == Waiting /\ Bets!StartRound
GameClears == pc = "reset_bets" /\ pc' = "create" /\ Bets!ResetRound
GameCrashes == pc' = "crash" /\ Bets!Crash
GameBets(u, p, a) == pc' = pc /\ Bets!PlaceBet(u, p, a)
GamePays(c) == pc' = pc /\ Bets!Cashout(calls[c].bet, calls[c].raw)
GameMoves ==
  \/ GameOpens \/ GameCloses \/ GameStarts \/ GameCrashes
  \/ GameClears
  \/ \E u \in Users, p \in Panels, a \in Amounts : GameBets(u, p, a)
  \/ \E c \in Callers : GamePays(c)
GameRests ==
  /\ UNCHANGED bmVars
  /\ Waiting' = Waiting
  /\ \/ crashPoint' = crashPoint /\ (pc' = "open_bets" => pc = "open_bets")
     \/ bmRound = 0 /\ (pc' = "open_bets" => crashPoint' \in CrashPoints)

LEMMA StepKinds ==
  ASSUME Inv, Inv', [Next]_vars
  PROVE  GameRests \/ (GameMoves /\ crashPoint' = crashPoint)
<1> USE DEF Inv
<1>1. pc # "refused" /\ pc' # "refused"
  BY DEF PcInv
<1>2. CASE OpenBets \/ CloseBets \/ StartBets \/ CrashBets \/ ResetBets
  BY <1>1, <1>2 DEF OpenBets, CloseBets, StartBets, CrashBets, ResetBets, Try, BetsOnly,
     fairVars, GameMoves, GameOpens, GameCloses, GameStarts, GameCrashes, GameClears, Waiting
<1>3. CASE CreateRound \/ OpenBetting \/ CloseBetting \/ Start \/ CrashRound \/ Settle
  BY <1>1, <1>3 DEF CreateRound, OpenBetting, CloseBetting, Start, CrashRound, Settle, Try,
     RoundsOnly, Announce, GameRests, Waiting
<1>4. CASE PrepareFairness
  BY <1>4 DEF PrepareFairness, PcInv, Flags, GameRests, Waiting
<1>5. CASE BettingElapsed \/ CrashReached \/ PauseElapsed
  BY <1>5 DEF BettingElapsed, CrashReached, PauseElapsed, Goto, fairVars, GameRests, Waiting
<1>6. CASE SendRoundCreated \/ Tick \/ Reveal \/ SendCrash \/ Stop
  BY <1>6 DEF SendRoundCreated, Tick, Reveal, SendCrash, Stop, fairVars, GameRests, Waiting
<1>7. CASE Forwarder \/ Cancel \/ UNCHANGED vars
  BY <1>7 DEF Forwarder, Receive, StopForwarding, Cancel, vars, fairVars, GameRests, Waiting
<1>8. CASE Players
  <2>1. ASSUME NEW u \in Users, NEW p \in Panels, NEW a \in Amounts, PlaceBet(u, p, a)
        PROVE  GameMoves /\ crashPoint' = crashPoint
    BY <2>1 DEF PlaceBet, fairVars, GameMoves, GameBets
  <2>2. ASSUME NEW c \in Callers, NEW i \in 1..nextBet, ReadMultiplier(c, i)
        PROVE  GameRests
    BY <2>2 DEF ReadMultiplier, fairVars, GameRests, Waiting
  <2>3. ASSUME NEW c \in Callers, Cashout(c)
        PROVE  GameRests \/ (GameMoves /\ crashPoint' = crashPoint)
    <3>1. /\ pc' = pc /\ crashPoint' = crashPoint
          /\ Bets!Cashout(calls[c].bet, calls[c].raw) \/ UNCHANGED bmVars
      BY <2>3 DEF Cashout, fairVars
    <3> QED
      BY <3>1 DEF GameMoves, GamePays, GameRests, Waiting
  <2> QED
    BY <1>8, <2>1, <2>2, <2>3 DEF Players
<1> QED
  BY <1>2, <1>3, <1>4, <1>5, <1>6, <1>7, <1>8 DEF Next, Engine

\* The calls of the engine are steps of BetManager.
LEMMA CallsAreSteps ==
  /\ \A r \in 1..MaxRounds : Bets!OpenRound(r) => BP!OpenRound(r)
  /\ Bets!CloseBetting => BP!CloseBetting
  /\ Bets!StartRound => BP!StartRound
  /\ Bets!Crash => BP!Crash
  /\ Bets!ResetRound => BP!ResetRound
  /\ \A u \in Users, p \in Panels, a \in Amounts :
       Bets!PlaceBet(u, p, a) => BP!PlaceBet(u, p, a)
<1>1. \A r \in 1..MaxRounds : Bets!OpenRound(r) => BP!OpenRound(r)
  BY DEF Bets!OpenRound, Bets!CanOpenRound, BP!OpenRound, BP!CanOpenRound
<1>2. Bets!CloseBetting => BP!CloseBetting
  BY DEF Bets!CloseBetting, Bets!CanCloseBetting, BP!CloseBetting, BP!CanCloseBetting
<1>3. Bets!StartRound => BP!StartRound
  BY DEF Bets!StartRound, Bets!CanStartRound, BP!StartRound, BP!CanStartRound
<1>4. Bets!Crash => BP!Crash
  BY DEF Bets!Crash, Bets!CanCrash, Bets!Losing, Bets!Pending, Bets!Settled, Bets!Key,
     Bets!Keys, Bets!NoBet, BP!Crash, BP!CanCrash, BP!Losing, BP!Pending, BP!Settled,
     BP!Key, BP!Keys, BP!NoBet
<1>5. Bets!ResetRound => BP!ResetRound
  BY DEF Bets!ResetRound, Bets!CanResetRound, Bets!Keys, Bets!NoBet,
     BP!ResetRound, BP!CanResetRound, BP!Keys, BP!NoBet
<1>6. \A u \in Users, p \in Panels, a \in Amounts :
        Bets!PlaceBet(u, p, a) => BP!PlaceBet(u, p, a)
  BY DEF Bets!PlaceBet, Bets!PlaceBetResult, BP!PlaceBet, BP!PlaceBetResult, BP!NoBet
<1> QED
  BY <1>1, <1>2, <1>3, <1>4, <1>5, <1>6

LEMMA CashoutIsStep ==
  ASSUME NEW i, NEW raw, Bets!Cashout(i, raw)
  PROVE  BP!Cashout(i, raw)
<1>1. Bets!Normalize(raw) = BP!Normalize(raw)
  BY DEF Bets!Normalize, BP!Normalize
<1>2. Bets!ValidMultiplier(raw) => BP!ValidMultiplier(raw)
  <2>1. Bets!MaxMultiplier = BP!MaxMultiplier
    BY SMT DEF Bets!MaxMultiplier, BP!MaxMultiplier
  <2> QED
    BY <2>1 DEF Bets!ValidMultiplier, BP!ValidMultiplier
<1>3. \A amount, cents : Bets!Payout(amount, cents) = BP!Payout(amount, cents)
  BY DEF Bets!Payout, BP!Payout, Bets!Wrap, BP!Wrap
<1>4. \A amount, cents : Bets!PayoutAccepted(amount, cents) => BP!PayoutAccepted(amount, cents)
  BY <1>3 DEF Bets!PayoutAccepted, BP!PayoutAccepted
<1>5. BP!CanCashout(i, raw)
  BY <1>1, <1>2, <1>4 DEF Bets!Cashout, Bets!CanCashout, BP!CanCashout
<1>6. \A b, multi, payout : Bets!Settled(b, "CASHED_OUT", multi, payout)
                           = BP!Settled(b, "CASHED_OUT", multi, payout)
  BY DEF Bets!Settled, BP!Settled
<1>7. Bets!Key(bets[i]) = BP!Key(bets[i]) /\ Bets!NoBet = BP!NoBet
  BY DEF Bets!Key, BP!Key, BP!NoBet
<1>8. bets' = [bets EXCEPT ![i] = BP!Settled(bets[i], "CASHED_OUT", BP!Normalize(raw),
                                     BP!Payout(bets[i].amount, BP!Normalize(raw)))]
  BY <1>1, <1>3, <1>6, Zenon DEF Bets!Cashout
<1> QED
  BY <1>5, <1>7, <1>8, Zenon DEF Bets!Cashout, BP!Cashout

\* The constants of the engine are constants of BetManager.
LEMMA ConstantsFit ==
  /\ Amounts \subseteq Nat \ {0}
  /\ Ticks \subseteq Nat
  /\ MaxInt \in Nat
  /\ 0 \notin 1..MaxRounds
  BY EngineConstants

\* A step that touches the bets leaves their invariant.
LEMMA PanelsExact ==
  ASSUME Inv, BP!IInv, GameRests \/ GameMoves
  PROVE  BP!IInv'
<1>1. CASE GameRests
  BY <1>1, ConstantsFit, BP!StepInvariant DEF GameRests, bmVars, BP!vars
<1>2. CASE GameOpens
  <2>1. current.id \in 1..MaxRounds
    BY <1>2 DEF GameOpens, Inv, TypeOK, Rounds!TypeOK, Rounds!Round, PcInv, RoundIs
  <2> QED
    BY <1>2, <2>1, CallsAreSteps, ConstantsFit, BP!OpenRoundStep DEF GameOpens
<1>3. CASE GameCloses \/ GameStarts
  BY <1>3, CallsAreSteps, ConstantsFit, BP!FlagSteps DEF GameCloses, GameStarts
<1>4. CASE GameCrashes
  BY <1>4, CallsAreSteps, ConstantsFit, BP!CrashStep DEF GameCrashes
<1>5. CASE GameClears
  BY <1>5, CallsAreSteps, ConstantsFit, BP!ResetRoundStep DEF GameClears
<1>6. ASSUME NEW u \in Users, NEW p \in Panels, NEW a \in Amounts, GameBets(u, p, a)
      PROVE  BP!IInv'
  BY <1>6, CallsAreSteps, ConstantsFit, BP!PlaceBetStep DEF GameBets
<1>7. ASSUME NEW c \in Callers, GamePays(c)
      PROVE  BP!IInv'
  <2> DEFINE i == calls[c].bet
             raw == calls[c].raw
  <2>1. raw \in Nat /\ i \in DOMAIN bets /\ Bets!Cashout(i, raw)
    BY <1>7 DEF Inv, TypeOK, GamePays, Bets!Cashout, Bets!CanCashout
  <2>2. BP!Cashout(i, raw)
    BY <2>1, CashoutIsStep
  <2> HIDE DEF i, raw
  <2> QED
    BY <2>1, <2>2, ConstantsFit, BP!CashoutStep
<1> QED
  BY <1>1, <1>2, <1>3, <1>4, <1>5, <1>6, <1>7 DEF GameMoves

LEMMA GameInvStep ==
  ASSUME Inv, Inv', GameInv, [Next]_vars
  PROVE  GameInv'
<1> USE DEF Inv, GameInv
<1>1. BP!IInv'
  BY StepKinds, PanelsExact
<1>2. CASE GameRests
  BY <1>1, <1>2 DEF GameRests, bmVars, Bets!Pending
<1>3. CASE GameMoves /\ crashPoint' = crashPoint
  <2>1. pc' = "open_bets" \/ bmRound' # 0 => crashPoint' \in CrashPoints
    BY <1>3 DEF GameMoves, GameOpens, GameCloses, GameStarts, GameCrashes, GameClears, GameBets,
       GamePays, PcInv, Flags, Bets!OpenRound, Bets!CloseBetting, Bets!CanCloseBetting,
       Bets!StartRound, Bets!CanStartRound, Bets!Crash, Bets!CanCrash, Bets!ResetRound,
       Bets!PlaceBet, Bets!PlaceBetResult, Bets!Cashout
  <2>2. \A i \in Bets!Pending(bets)' : bets'[i].payout = 0
    <3>1. CASE GameOpens \/ GameCloses \/ GameStarts
      BY <3>1 DEF GameOpens, GameCloses, GameStarts, Bets!OpenRound, Bets!CloseBetting,
         Bets!StartRound, Bets!Pending
    <3>2. CASE GameCrashes
      BY <3>2, CrashFacts DEF GameCrashes, BInv
    <3>3. CASE GameClears
      BY <3>3, ResetFacts DEF GameClears, Bets!Pending
    <3>4. ASSUME NEW u \in Users, NEW p \in Panels, NEW a \in Amounts, GameBets(u, p, a)
          PROVE  \A i \in Bets!Pending(bets)' : bets'[i].payout = 0
      BY <3>4 DEF GameBets, Bets!PlaceBet, Bets!Pending
    <3>5. ASSUME NEW c \in Callers, GamePays(c)
          PROVE  \A i \in Bets!Pending(bets)' : bets'[i].payout = 0
      <4>1. /\ calls[c].bet \in Nat /\ calls[c].raw \in Nat
            /\ Bets!Cashout(calls[c].bet, calls[c].raw)
        BY <3>5 DEF TypeOK, GamePays
      <4> QED
        BY <4>1, CashoutFacts DEF Bets!Pending
    <3> QED
      BY <1>3, <3>1, <3>2, <3>3, <3>4, <3>5 DEF GameMoves
  <2> QED
    BY <1>1, <2>1, <2>2
<1> QED
  BY <1>2, <1>3, StepKinds

\* The phase of the game, read off the flags.
PhaseRead ==
  /\ bmRound = 0 => GamePhase = "none"
  /\ bmRound # 0 /\ bettingOpen => GamePhase = "betting"
  /\ bmRound # 0 /\ ~bettingOpen /\ running => GamePhase = "flying"
  /\ bmRound # 0 /\ ~bettingOpen /\ ~running /\ Waiting => GamePhase = "closed"
  /\ bmRound # 0 /\ ~bettingOpen /\ ~running /\ ~Waiting => GamePhase = "over"

LEMMA Phases == PhaseRead /\ PhaseRead'
<1>1. bmRound = 0 => GamePhase = "none"
  BY DEF GamePhase
<1>2. bmRound # 0 /\ bettingOpen => GamePhase = "betting"
  BY DEF GamePhase
<1>3. bmRound # 0 /\ ~bettingOpen /\ running => GamePhase = "flying"
  BY DEF GamePhase
<1>4. bmRound # 0 /\ ~bettingOpen /\ ~running
        => GamePhase = IF Waiting THEN "closed" ELSE "over"
  BY DEF GamePhase, Waiting
<1>5. PhaseRead
  BY <1>1, <1>2, <1>3, <1>4 DEF PhaseRead
<1> QED
  BY <1>5, PTL

GameCrash == IF bmRound = 0 THEN 0 ELSE crashPoint

\* A wager is what its bet says, and is open as long as the bet is pending.
Wager(b) ==
  [seat |-> Bets!Key(b), stake |-> b.amount, outcome |-> GameOutcome(b.state),
   prize |-> b.payout]

LEMMA Wagers ==
  ASSUME BInv
  PROVE  /\ GameWagers = [i \in DOMAIN bets |-> Wager(bets[i])]
         /\ DOMAIN GameWagers = DOMAIN bets
         /\ \A i \in DOMAIN bets : GameWagers[i] = Wager(bets[i])
         /\ Game!Open = Bets!Pending(bets)
<1>1. /\ GameWagers = [i \in DOMAIN bets |-> Wager(bets[i])]
      /\ DOMAIN GameWagers = DOMAIN bets
      /\ \A i \in DOMAIN bets : GameWagers[i] = Wager(bets[i])
  BY DEF GameWagers, Wager
<1>2. \A i \in DOMAIN bets : GameWagers[i].outcome = "OPEN" <=> bets[i].state = "PENDING"
  <2> SUFFICES ASSUME NEW i \in DOMAIN bets
               PROVE  GameWagers[i].outcome = "OPEN" <=> bets[i].state = "PENDING"
    OBVIOUS
  <2>1. bets[i].state \in Bets!BetStates
    BY DEF BInv, Bets!TypeOK, Bets!Bet
  <2>2. GameWagers[i].outcome = GameOutcome(bets[i].state)
    BY <1>1 DEF Wager
  <2> QED
    BY <2>1, <2>2 DEF GameOutcome, Bets!BetStates
<1> QED
  BY <1>1, <1>2 DEF Game!Open, Bets!Pending

\* A game that stutters.
LEMMA GameStutters ==
  ASSUME GameRests
  PROVE  UNCHANGED Game!gameVars
<1>1. UNCHANGED <<bmRound, bettingOpen, running, bets>>
  BY DEF GameRests, bmVars
<1>2. GamePhase' = GamePhase
  BY <1>1, Phases DEF PhaseRead, GameRests
<1>3. GameWagers' = GameWagers
  BY <1>1 DEF GameWagers, Bets!Key, GameOutcome
<1>4. GameCrash' = GameCrash
  BY <1>1 DEF GameRests, GameCrash
<1> QED
  BY <1>2, <1>3, <1>4 DEF Game!gameVars, GameCrash

\* The loop's calls: the round is dealt, closed, takes off, busts and is cleared.
LEMMA LoopPlays ==
  ASSUME Inv, Inv', GameInv, crashPoint' = crashPoint,
         \/ GameOpens \/ GameCloses \/ GameStarts \/ GameCrashes
         \/ GameClears
  PROVE  Game!Next
<1> USE DEF Inv, BInv
<1>0. MaxRounds \in Nat
  BY EngineConstants
<1>1. CASE GameOpens
  <2>1. /\ bmRound = 0 /\ bmRound' = current.id /\ bettingOpen' /\ bets' = bets
        /\ crashPoint \in CrashPoints
    BY <1>1 DEF GameOpens, PcInv, Flags, GameInv, Bets!OpenRound
  <2>2. bmRound' # 0
    BY <1>0, <1>1, <2>1 DEF GameOpens, PcInv, RoundIs, TypeOK, Rounds!TypeOK, Rounds!Round
  <2>3. GameWagers' = GameWagers
    BY <2>1 DEF GameWagers, Bets!Key, GameOutcome
  <2>4. Game!Deal
    BY <1>1, <2>1, <2>2, <2>3, Phases DEF PhaseRead, Game!Deal
  <2> QED
    BY <2>4 DEF Game!Next
<1>2. CASE GameCloses
  <2>1. /\ bmRound # 0 /\ bettingOpen /\ bmRound' = bmRound /\ ~bettingOpen'
        /\ ~running' /\ bets' = bets /\ Waiting'
    BY <1>2 DEF GameCloses, PcInv, Flags, Waiting, Bets!CloseBetting, Bets!CanCloseBetting
  <2>2. GameWagers' = GameWagers
    BY <2>1 DEF GameWagers, Bets!Key, GameOutcome
  <2>3. Game!Close
    BY <2>1, <2>2, Phases DEF PhaseRead, Game!Close
  <2> QED
    BY <2>3 DEF Game!Next
<1>3. CASE GameStarts
  <2>1. /\ bmRound # 0 /\ ~bettingOpen /\ ~running /\ bmRound' = bmRound
        /\ ~bettingOpen' /\ running' /\ bets' = bets /\ Waiting
    BY <1>3 DEF GameStarts, Bets!StartRound, Bets!CanStartRound
  <2>2. GameWagers' = GameWagers
    BY <2>1 DEF GameWagers, Bets!Key, GameOutcome
  <2>3. Game!TakeOff
    BY <2>1, <2>2, Phases DEF PhaseRead, Game!TakeOff
  <2> QED
    BY <2>3 DEF Game!Next
<1>4. CASE GameCrashes
  <2>1. /\ bmRound # 0 /\ running /\ bmRound' = bmRound /\ bettingOpen' = bettingOpen
        /\ ~running' /\ ~Waiting'
    BY <1>4 DEF GameCrashes, Waiting, Bets!Crash, Bets!CanCrash
  <2>2. ~bettingOpen
    BY <1>4, <2>1 DEF GameCrashes, PcInv, Flags
  <2>3. ASSUME NEW i \in DOMAIN bets
        PROVE  Wager(bets'[i]) = IF i \in Game!Open
                                 THEN [GameWagers[i] EXCEPT !.outcome = "LOST"]
                                 ELSE GameWagers[i]
    <3>1. Bets!Losing = Bets!Pending(bets)
      BY DEF Bets!Losing, Bets!Pending, Bets!BetsOfCurrentRound
    <3>2. GameWagers[i] = Wager(bets[i])
      BY Wagers
    <3>3. CASE i \in Bets!Pending(bets)
      <4>1. bets'[i] = Bets!Settled(bets[i], "LOST", 0, 0) /\ bets[i].payout = 0
        BY <1>4, <3>1, <3>3 DEF GameCrashes, Bets!Crash, GameInv
      <4> QED
        BY <3>2, <3>3, <4>1, Wagers DEF Wager, Bets!Settled, Bets!Key, GameOutcome
    <3>4. CASE i \notin Bets!Pending(bets)
      <4>1. bets'[i] = bets[i]
        BY <1>4, <3>1, <3>4 DEF GameCrashes, Bets!Crash
      <4> QED
        BY <3>2, <3>4, <4>1, Wagers
    <3> QED
      BY <3>3, <3>4
  <2>4. GameWagers' = [i \in DOMAIN GameWagers |->
                         IF i \in Game!Open THEN [GameWagers[i] EXCEPT !.outcome = "LOST"]
                         ELSE GameWagers[i]]
    <3>1. DOMAIN bets' = DOMAIN bets
      BY <1>4 DEF GameCrashes, Bets!Crash
    <3>2. GameWagers' = [i \in DOMAIN bets |-> Wager(bets'[i])]
      BY <3>1 DEF GameWagers, Wager, Bets!Key, GameOutcome
    <3> QED
      BY <3>2, <2>3, Wagers
  <2>5. Game!Bust
    BY <2>1, <2>2, <2>4, Phases DEF PhaseRead, Game!Bust
  <2> QED
    BY <2>5 DEF Game!Next
<1>5. CASE GameClears
  <2>1. /\ bmRound # 0 /\ ~running /\ bmRound' = 0 /\ DOMAIN bets' = {}
    BY <1>5, ResetFacts DEF GameClears, Bets!ResetRound, Bets!CanResetRound
  <2>2. GameWagers' = [i \in {} |-> 0]
    BY <2>1 DEF GameWagers
  <2>3. ~bettingOpen /\ ~Waiting
    BY <1>5 DEF GameClears, PcInv, Flags, Waiting
  <2>4. Game!Clear
    BY <2>1, <2>2, <2>3, Phases DEF PhaseRead, Game!Clear
  <2> QED
    BY <2>4 DEF Game!Next
<1> QED
  BY <1>1, <1>2, <1>3, <1>4, <1>5

\* A bet is placed: a wager on a seat that has none open.
LEMMA PlacedBetIsWager ==
  ASSUME Inv, GameInv, crashPoint' = crashPoint,
         NEW u \in Users, NEW p \in Panels, NEW a \in Amounts, GameBets(u, p, a)
  PROVE  Game!Next
<1> USE DEF Inv, BInv
<1> DEFINE n == nextBet + 1
           seat == <<u, p>>
<1>1. Bets!PlaceBet(u, p, a)
  BY DEF GameBets
<1>2. /\ bmRound # 0 /\ bettingOpen /\ activePanels[seat] = 0
      /\ bmRound' = bmRound /\ bettingOpen' = bettingOpen
      /\ seat \in Users \X Panels
  BY <1>1 DEF Bets!PlaceBet, Bets!PlaceBetResult
<1>3. /\ n \notin DOMAIN bets
      /\ DOMAIN bets' = DOMAIN bets \cup {n}
      /\ \A i \in DOMAIN bets : bets'[i] = bets[i]
      /\ bets'[n] = [round |-> bmRound, user |-> u, panel |-> p, amount |-> a,
                     state |-> "PENDING", multi |-> 0, payout |-> 0]
  BY <1>1 DEF Bets!PlaceBet, Bets!TypeOK
<1>4. \A i \in Game!Open : GameWagers[i].seat # seat
  <2> SUFFICES ASSUME NEW i \in Game!Open PROVE GameWagers[i].seat # seat
    OBVIOUS
  <2>0. i \in Bets!Pending(bets) /\ i \in DOMAIN bets
    BY Wagers DEF Bets!Pending
  <2>3. GameWagers[i].seat = Bets!Key(bets[i])
    BY <2>0, Wagers DEF Wager
  <2>1. activePanels[Bets!Key(bets[i])] = i
    BY <2>0 DEF GameInv, BP!IInv, BP!PanelIndexExact, BP!Pending, BP!Key, Bets!Pending, Bets!Key
  <2>2. i # 0
    BY <2>0 DEF Bets!TypeOK
  <2> QED
    BY <1>2, <2>1, <2>2, <2>3
<1>5. Wager(bets'[n]) = [seat |-> seat, stake |-> a, outcome |-> "OPEN", prize |-> 0]
  BY <1>3 DEF Wager, Bets!Key, GameOutcome
<1>6. GameWagers' = [j \in DOMAIN GameWagers \cup {n} |->
                       IF j = n THEN [seat |-> seat, stake |-> a, outcome |-> "OPEN",
                                      prize |-> 0]
                       ELSE GameWagers[j]]
  <2>1. GameWagers' = [j \in DOMAIN bets' |-> Wager(bets'[j])]
    BY DEF GameWagers, Wager, Bets!Key, GameOutcome
  <2>2. \A j \in DOMAIN bets : Wager(bets'[j]) = GameWagers[j] /\ j # n
    BY <1>3, Wagers
  <2> QED
    BY <1>3, <1>5, <2>1, <2>2, Wagers
<1>7. n \in DOMAIN GameWagers' /\ n \notin DOMAIN GameWagers
  BY <1>3, <1>6, Wagers
<1>8. Game!Wager(seat, a)
  BY <1>2, <1>4, <1>6, <1>7, Phases DEF PhaseRead, Game!Wager
<1> QED
  BY <1>2, <1>8 DEF Game!Next

\* What becomes of a wager that wins.
LEMMA WonWager ==
  ASSUME NEW b, NEW prize
  PROVE  [Wager(b) EXCEPT !.outcome = "WON", !.prize = prize]
           = [seat |-> Bets!Key(b), stake |-> b.amount, outcome |-> "WON", prize |-> prize]
<1> DEFINE seat == Bets!Key(b)
           stake == b.amount
           outcome == GameOutcome(b.state)
           owed == b.payout
<1>1. Wager(b) = [seat |-> seat, stake |-> stake, outcome |-> outcome, prize |-> owed]
  BY DEF Wager
<1> HIDE DEF seat, stake, outcome, owed
<1> DEFINE won == [Wager(b) EXCEPT !.outcome = "WON"]
<1>2. won = [seat |-> seat, stake |-> stake, outcome |-> "WON", prize |-> owed]
  BY <1>1
<1> HIDE DEF won
<1>3. [won EXCEPT !.prize = prize]
        = [seat |-> seat, stake |-> stake, outcome |-> "WON", prize |-> prize]
  BY <1>2
<1> QED
  BY <1>3 DEF seat, stake, won

\* A bet is cashed out: an open wager wins at what its caller read, which is
\* under the crash point, and the machine product is the exact one.
LEMMA PaidBetIsWin ==
  ASSUME Inv, GameInv, crashPoint' = crashPoint, NEW c \in Callers, GamePays(c)
  PROVE  Game!Next
<1> USE DEF Inv
<1> DEFINE i == calls[c].bet
           raw == calls[c].raw
           cents == raw \div 10
<1>1. /\ i \in Nat /\ raw \in Nat /\ Bets!Cashout(i, raw)
      /\ bmRound' = bmRound /\ bettingOpen' = bettingOpen /\ running' = running
  BY DEF TypeOK, GamePays, Bets!Cashout
<1>2. /\ DOMAIN bets' = DOMAIN bets
      /\ \A j \in DOMAIN bets : j # i => bets'[j] = bets[j]
      /\ raw >= 1000 /\ running /\ i \in Bets!Pending(bets)
  BY <1>1, CashoutFacts
<1>3. bmRound # 0 /\ ~bettingOpen /\ ~AfterCrash
  <2>1. MaxRounds \in Nat /\ (current # NoRound => current.id # 0)
    BY EngineConstants DEF TypeOK, Rounds!TypeOK, Rounds!Round
  <2> QED
    BY <1>2, <2>1 DEF AfterCrash, PcInv, Flags, RoundIs, TypeOK, PCs
<1>4. cents \in 100..crashPoint /\ (cents = 100 \/ cents < crashPoint)
  <2>1. crashPoint \in Nat /\ crashPoint >= 100
    <3>1. crashPoint \in CrashPoints
      BY <1>3 DEF GameInv
    <3>2. MaxCrashPoint \in Nat
      BY SMT DEF MaxCrashPoint
    <3> QED
      BY <3>1, <3>2, EngineConstants
  <2>2. raw = 1000 \/ raw < 10 * crashPoint
    BY <1>2, <1>3 DEF CallInv, Fine, Bets!Pending
  <2> QED
    BY <1>1, <1>2, <2>1, <2>2, SMT
<1>5. /\ bets'[i] = Bets!Settled(bets[i], "CASHED_OUT", cents, Bets!Payout(bets[i].amount, cents))
      /\ BP!PayoutAccepted(bets[i].amount, cents)
      /\ bets'[i].payout = BP!Payout(bets[i].amount, cents)
  <2>1. BP!Cashout(i, raw)
    BY <1>1, CashoutIsStep
  <2>2. Bets!Normalize(raw) = cents /\ BP!Normalize(raw) = cents
    BY DEF Bets!Normalize, BP!Normalize
  <2>3. BP!PayoutAccepted(bets[i].amount, cents)
    BY <2>1, <2>2 DEF BP!Cashout, BP!CanCashout
  <2>4. bets'[i] = Bets!Settled(bets[i], "CASHED_OUT", cents, Bets!Payout(bets[i].amount, cents))
    <3>1. bets' = [bets EXCEPT ![i] = Bets!Settled(bets[i], "CASHED_OUT", cents,
                                                   Bets!Payout(bets[i].amount, cents))]
      BY <1>1, <2>2, Zenon DEF Bets!Cashout
    <3> HIDE DEF i, cents
    <3> QED
      BY <1>2, <3>1 DEF Bets!Pending
  <2>5. Bets!Payout(bets[i].amount, cents) = BP!Payout(bets[i].amount, cents)
    BY DEF Bets!Payout, BP!Payout, Bets!Wrap, BP!Wrap
  <2> QED
    BY <2>3, <2>4, <2>5 DEF Bets!Settled
<1>6. bets'[i].payout = (bets[i].amount * cents) \div 100
  <2>1. bets[i].amount \in Amounts
    BY <1>2 DEF TypeOK, Bets!TypeOK, Bets!Bet, Bets!Pending
  <2>2. cents \in Nat /\ bets[i].amount \in Nat
    <3>1. cents \in Nat
      BY <1>1, SMT
    <3> QED
      BY <2>1, <3>1, EngineConstants
  <2> DEFINE pay == BP!Payout(bets[i].amount, cents)
             product == bets[i].amount * cents
  <2>3. pay \in Nat /\ pay * 100 <= product /\ product < pay * 100 + 100
    BY <1>5, <2>1, <2>2, ConstantsFit, BP!AcceptedPayout
  <2>4. product \in Nat
    BY <2>2, SMT
  <2> HIDE DEF pay, product
  <2>5. pay = product \div 100
    BY <2>3, <2>4, SMT
  <2> QED
    BY <1>5, <2>5 DEF pay, product
<1>7. GameWagers' = [GameWagers EXCEPT ![i] =
                       [@ EXCEPT !.outcome = "WON",
                                 !.prize = (GameWagers[i].stake * cents) \div 100]]
  <2>1. GameWagers' = [j \in DOMAIN bets |-> Wager(bets'[j])]
    BY <1>2 DEF GameWagers, Wager, Bets!Key, GameOutcome
  <2>2. \A j \in DOMAIN bets : j # i => Wager(bets'[j]) = GameWagers[j]
    BY <1>2, Wagers
  <2>3. GameWagers[i] = Wager(bets[i]) /\ i \in DOMAIN bets
    BY <1>2, Wagers DEF Bets!Pending
  <2>4. Wager(bets'[i]) = [GameWagers[i] EXCEPT
                             !.outcome = "WON",
                             !.prize = (GameWagers[i].stake * cents) \div 100]
    <3>1. GameOutcome("CASHED_OUT") = "WON"
      BY DEF GameOutcome
    <3>2. /\ Bets!Key(bets'[i]) = Bets!Key(bets[i]) /\ bets'[i].amount = bets[i].amount
          /\ bets'[i].state = "CASHED_OUT"
      BY <1>5 DEF Bets!Settled, Bets!Key
    <3>3. GameWagers[i].stake = bets[i].amount
      BY <2>3 DEF Wager
    <3> DEFINE prize == (bets[i].amount * cents) \div 100
    <3>4. bets'[i].payout = prize
      BY <1>6
    <3> HIDE DEF prize, i
    <3>6. Wager(bets'[i]) = [seat |-> Bets!Key(bets[i]), stake |-> bets[i].amount,
                             outcome |-> "WON", prize |-> prize]
      BY <3>1, <3>2, <3>4 DEF Wager
    <3>5. Wager(bets'[i]) = [Wager(bets[i]) EXCEPT !.outcome = "WON", !.prize = prize]
      BY <3>6, WonWager
    <3> QED
      BY <2>3, <3>3, <3>5 DEF prize
  <2> QED
    BY <2>1, <2>2, <2>3, <2>4, Wagers
<1>8. Game!Win(i)
  <2>1. GamePhase = "flying" /\ GamePhase' = "flying"
    BY <1>1, <1>2, <1>3, Phases DEF PhaseRead
  <2>2. i \in Game!Open
    BY <1>2, Wagers
  <2>3. GameCrash = crashPoint /\ GameCrash' = GameCrash
    BY <1>1, <1>3 DEF GameCrash
  <2> HIDE DEF cents, i
  <2> QED
    BY <1>4, <1>7, <2>1, <2>2, <2>3 DEF Game!Win, GameCrash
<1> QED
  BY <1>2, <1>8, Wagers DEF Game!Next, Bets!Pending

LEMMA GameInitStep == Init => GameInv /\ Game!Init
<1> SUFFICES ASSUME Init PROVE GameInv /\ Game!Init
  OBVIOUS
<1>1. DOMAIN bets = {} /\ bmRound = 0 /\ pc = "create"
  BY DEF Init, Bets!Init
<1>2. BP!IInv
  <2>1. BP!Init
    BY DEF Init, Bets!Init, Bets!Keys, BP!Init, BP!Keys, BP!NoBet
  <2> QED
    BY <2>1, ConstantsFit, BP!InitInvariant
<1>3. GameWagers = [i \in {} |-> 0]
  BY <1>1 DEF GameWagers
<1> QED
  BY <1>1, <1>2, <1>3, Phases DEF GameInv, Game!Init, PhaseRead, Bets!Pending

LEMMA GameStep ==
  ASSUME Inv, Inv', GameInv, [Next]_vars
  PROVE  [Game!Next]_Game!gameVars
<1>1. CASE GameRests
  BY <1>1, GameStutters
<1>2. CASE GameMoves /\ crashPoint' = crashPoint
  <2>1. Game!Next
    BY <1>2, LoopPlays, PlacedBetIsWager, PaidBetIsWin DEF GameMoves
  <2> QED
    BY <2>1
<1> QED
  BY <1>1, <1>2, StepKinds

\* Every behaviour of the engine, its players and its consumer is one of the
\* abstract game: one open wager per seat, one win per wager, under the crash
\* point drawn before the first wager, and exactly paid.
THEOREM EngineImplementsGame == Spec => ImplementsGame
<1>1. Init => Inv /\ GameInv /\ Game!Init
  BY InitStep, GameInitStep
<1>2. Inv /\ GameInv /\ [Next]_vars
        => Inv' /\ GameInv' /\ [Game!Next]_Game!gameVars
  BY NextStep, GameInvStep, GameStep
<1> QED
  BY <1>1, <1>2, PTL DEF Spec, ImplementsGame, Game!Spec

-----------------------------------------------------------------------------
(* The engine implements BetCycle: what the other parts rely on in it.     *)

\* The calls on the bets are those of BetCycle.
LEMMA CallsAreCycles ==
  /\ \A r \in 1..MaxRounds : Bets!OpenRound(r) => Cycle!OpenRound(r)
  /\ Bets!CloseBetting => Cycle!CloseBetting
  /\ Bets!StartRound => Cycle!StartRound
  /\ Bets!Crash => Cycle!Crash
  /\ Bets!ResetRound => Cycle!ResetRound
  /\ \A u \in Users, p \in Panels, a \in Amounts :
       Bets!PlaceBet(u, p, a) => Cycle!PlaceBet(u, p, a)
<1>1. \A r \in 1..MaxRounds : Bets!OpenRound(r) => Cycle!OpenRound(r)
  BY DEF Bets!OpenRound, Bets!CanOpenRound, Cycle!OpenRound, Cycle!CanOpenRound
<1>2. Bets!CloseBetting => Cycle!CloseBetting
  BY DEF Bets!CloseBetting, Bets!CanCloseBetting, Cycle!CloseBetting, Cycle!CanCloseBetting
<1>3. Bets!StartRound => Cycle!StartRound
  BY DEF Bets!StartRound, Bets!CanStartRound, Cycle!StartRound, Cycle!CanStartRound
<1>4. Bets!Crash => Cycle!Crash
  BY DEF Bets!Crash, Bets!CanCrash, Bets!Losing, Bets!Pending, Bets!Settled, Bets!Key,
     Bets!Keys, Cycle!Crash, Cycle!CanCrash, Cycle!Losing, Cycle!Pending,
     Cycle!Settled, Cycle!Key, Cycle!Keys, Cycle!NoBet
<1>5. Bets!ResetRound => Cycle!ResetRound
  BY DEF Bets!ResetRound, Bets!CanResetRound, Bets!Keys,
     Cycle!ResetRound, Cycle!CanResetRound, Cycle!Keys, Cycle!NoBet
<1>6. \A u \in Users, p \in Panels, a \in Amounts :
        Bets!PlaceBet(u, p, a) => Cycle!PlaceBet(u, p, a)
  BY DEF Bets!PlaceBet, Bets!PlaceBetResult, Cycle!PlaceBet, Cycle!PlaceBetResult, Cycle!NoBet
<1> QED
  BY <1>1, <1>2, <1>3, <1>4, <1>5, <1>6

LEMMA CashoutIsCycle ==
  ASSUME NEW i, NEW raw, Bets!Cashout(i, raw)
  PROVE  Cycle!Cashout(i, raw)
<1>1. Bets!Normalize(raw) = Cycle!Normalize(raw)
  BY DEF Bets!Normalize, Cycle!Normalize
<1>2. Bets!ValidMultiplier(raw) => Cycle!ValidMultiplier(raw)
  <2>1. Bets!MaxMultiplier = Cycle!MaxMultiplier
    BY SMT DEF Bets!MaxMultiplier, Cycle!MaxMultiplier
  <2> QED
    BY <2>1 DEF Bets!ValidMultiplier, Cycle!ValidMultiplier
<1>3. \A amount, cents : Bets!Payout(amount, cents) = Cycle!Payout(amount, cents)
  BY DEF Bets!Payout, Cycle!Payout, Bets!Wrap, Cycle!Wrap
<1>4. \A amount, cents : Bets!PayoutAccepted(amount, cents) => Cycle!PayoutAccepted(amount, cents)
  BY <1>3 DEF Bets!PayoutAccepted, Cycle!PayoutAccepted
<1>5. Cycle!CanCashout(i, raw)
  BY <1>1, <1>2, <1>4 DEF Bets!Cashout, Bets!CanCashout, Cycle!CanCashout
<1>6. \A b, multi, payout : Bets!Settled(b, "CASHED_OUT", multi, payout)
                           = Cycle!Settled(b, "CASHED_OUT", multi, payout)
  BY DEF Bets!Settled, Cycle!Settled
<1>7. Bets!Key(bets[i]) = Cycle!Key(bets[i]) /\ Bets!NoBet = Cycle!NoBet
  BY DEF Bets!Key, Cycle!Key, Cycle!NoBet
<1>8. bets' = [bets EXCEPT ![i] = Cycle!Settled(bets[i], "CASHED_OUT", Cycle!Normalize(raw),
                                     Cycle!Payout(bets[i].amount, Cycle!Normalize(raw)))]
  BY <1>1, <1>3, <1>6, Zenon DEF Bets!Cashout
<1> QED
  BY <1>5, <1>7, <1>8, Zenon DEF Bets!Cashout, Cycle!Cashout

\* A step of the loop that leaves the bets alone, and ends nothing.
LEMMA CycleRests ==
  ASSUME UNCHANGED <<bmVars, CycleStage, CycleRound>>
  PROVE  UNCHANGED Cycle!cycleVars
  BY DEF bmVars, Cycle!cycleVars, Cycle!vars

\* The loop's steps between its calls.
LEMMA LoopRests ==
  ASSUME Inv, Inv',
         \/ CreateRound \/ OpenBetting \/ CloseBetting \/ Start \/ CrashRound \/ Settle
         \/ BettingElapsed \/ CrashReached \/ PauseElapsed
         \/ SendRoundCreated \/ Tick \/ Reveal \/ SendCrash
  PROVE  UNCHANGED <<bmVars, CycleStage, CycleRound>>
<1>1. pc' # "refused" /\ nextRound \in Nat
  BY DEF Inv, PcInv, TypeOK, Rounds!TypeOK
<1>2. CASE CreateRound
  <2>1. pc = "create" /\ pc' = "fairness" /\ nextRound' = nextRound + 1 /\ UNCHANGED bmVars
    BY <1>1, <1>2 DEF CreateRound, Try, RoundsOnly, Rounds!CreateRound
  <2> QED
    BY <1>1, <2>1 DEF CycleStage, CycleRound
<1>3. CASE OpenBetting \/ CloseBetting \/ Start \/ CrashRound \/ Settle
  <2>1. nextRound' = nextRound /\ UNCHANGED bmVars
    BY <1>1, <1>3
    DEF OpenBetting, CloseBetting, Start, CrashRound, Settle, Try, RoundsOnly, Announce,
        Rounds!OpenBetting, Rounds!CloseBetting, Rounds!Start, Rounds!Crash, Rounds!Settle,
        Rounds!Transition
  <2> QED
    BY <1>1, <1>3, <2>1
    DEF OpenBetting, CloseBetting, Start, CrashRound, Settle, Try, CycleStage, CycleRound
<1>4. CASE BettingElapsed \/ CrashReached \/ PauseElapsed
  BY <1>4 DEF BettingElapsed, CrashReached, PauseElapsed, Goto, rmVars, CycleStage, CycleRound
<1>5. CASE SendRoundCreated \/ Tick \/ Reveal \/ SendCrash
  BY <1>5 DEF SendRoundCreated, Tick, Reveal, SendCrash, rmVars, CycleStage, CycleRound
<1> QED
  BY <1>2, <1>3, <1>4, <1>5

\* The loop's calls.
LEMMA LoopCycles ==
  ASSUME Inv, Inv', RevealInv,
         OpenBets \/ CloseBets \/ StartBets \/ CrashBets \/ ResetBets
  PROVE  Cycle!CycleNext
<1>1. pc' # "refused"
  BY DEF Inv, PcInv
<1>2. CASE OpenBets
  <2>1. /\ pc = "open_bets" /\ pc' = "send_created" /\ nextRound' = nextRound
        /\ Bets!OpenRound(current.id)
    BY <1>1, <1>2 DEF OpenBets, Try, BetsOnly, rmVars
  <2>2. current.id = nextRound /\ current.id \in 1..MaxRounds /\ nextRound \in Nat
    BY <2>1 DEF Inv, PcInv, RoundIs, RevealInv, TypeOK, Rounds!TypeOK, Rounds!Round
  <2>3. CycleRound' = CycleRound + 1 /\ CycleRound' = current.id
    BY <2>1, <2>2 DEF CycleRound
  <2>4. Cycle!OpenRound(CycleRound')
    BY <2>1, <2>2, <2>3, CallsAreCycles
  <2>5. CycleStage = "create" /\ CycleStage' = "close"
    BY <2>1 DEF CycleStage
  <2> QED
    BY <2>2, <2>3, <2>4, <2>5 DEF Cycle!CycleNext, Cycle!Opens, Cycle!Moves
<1>3. CASE CloseBets \/ StartBets \/ CrashBets \/ ResetBets
  <2>1. /\ nextRound' = nextRound
        /\ \/ pc = "close_bets" /\ pc' = "close_betting" /\ Bets!CloseBetting
           \/ pc = "start_bets" /\ pc' = "start" /\ Bets!StartRound
           \/ pc = "crash_bets" /\ pc' = "crash" /\ Bets!Crash
           \/ pc = "reset_bets" /\ pc' = "create" /\ Bets!ResetRound
    BY <1>1, <1>3 DEF CloseBets, StartBets, CrashBets, ResetBets, Try, BetsOnly, rmVars
  <2>2. /\ CycleRound' = CycleRound
        /\ \/ Cycle!Moves("close", "start") /\ Cycle!CloseBetting
           \/ Cycle!Moves("start", "crash") /\ Cycle!StartRound
           \/ Cycle!Moves("crash", "reset") /\ Cycle!Crash
           \/ Cycle!Moves("reset", "create") /\ Cycle!ResetRound
    BY <2>1, CallsAreCycles DEF CycleRound, CycleStage, Cycle!Moves
  <2> QED
    BY <2>2 DEF Cycle!CycleNext, Cycle!Closes, Cycle!Starts, Cycle!Crashes, Cycle!Resets
<1> QED
  BY <1>2, <1>3

\* The loop ends, before a round, in a sleep, between ticks or without a seed.
LEMMA LoopEnds ==
  ASSUME PrepareFairness \/ Stop
  PROVE  UNCHANGED <<bmVars, CycleStage, CycleRound>> \/ Cycle!Ends
<1>1. CASE PrepareFairness
  BY <1>1 DEF PrepareFairness, rmVars, bmVars, CycleStage, CycleRound, Cycle!Ends, Cycle!vars
<1>2. CASE Stop
  BY <1>2 DEF Stop, rmVars, bmVars, CycleStage, CycleRound, Cycle!Ends, Cycle!vars
<1> QED
  BY <1>1, <1>2

LEMMA PlayersCycle ==
  ASSUME Inv, Players
  PROVE  UNCHANGED <<bmVars, CycleStage, CycleRound>> \/ Cycle!Plays
<1>1. ASSUME NEW u \in Users, NEW p \in Panels, NEW a \in Amounts, PlaceBet(u, p, a)
      PROVE  Cycle!Plays
  <2>1. UNCHANGED <<CycleStage, CycleRound>>
    BY <1>1 DEF PlaceBet, rmVars, CycleStage, CycleRound
  <2>2. Cycle!PlaceBet(u, p, a)
    BY <1>1, CallsAreCycles DEF PlaceBet
  <2> QED
    BY <2>1, <2>2 DEF Cycle!Plays
<1>2. ASSUME NEW c \in Callers, NEW i \in 1..nextBet, ReadMultiplier(c, i)
      PROVE  UNCHANGED <<bmVars, CycleStage, CycleRound>>
  BY <1>2 DEF ReadMultiplier, rmVars, CycleStage, CycleRound
<1>3. ASSUME NEW c \in Callers, Cashout(c)
      PROVE  UNCHANGED <<bmVars, CycleStage, CycleRound>> \/ Cycle!Plays
  <2> DEFINE i == calls[c].bet
             raw == calls[c].raw
  <2>1. UNCHANGED <<CycleStage, CycleRound>>
    BY <1>3 DEF Cashout, rmVars, CycleStage, CycleRound
  <2>2. CASE Bets!Cashout(i, raw)
    <3>1. i \in DOMAIN bets /\ running
      BY <2>2 DEF Bets!Cashout, Bets!CanCashout
    <3>2. ~AfterCrash
      BY <3>1 DEF Inv, PcInv, Flags, AfterCrash
    <3>3. raw \in Ticks \cup {1000}
      BY <3>1, <3>2 DEF Inv, CallInv, Fine
    <3>4. Cycle!Cashout(i, raw)
      BY <2>2, CashoutIsCycle
    <3> QED
      BY <2>1, <3>1, <3>3, <3>4 DEF Cycle!Plays
  <2>3. CASE UNCHANGED bmVars
    BY <2>1, <2>3
  <2> QED
    BY <1>3, <2>2, <2>3 DEF Cashout
<1> QED
  BY <1>1, <1>2, <1>3 DEF Players

LEMMA CycleStep ==
  ASSUME Inv, Inv', RevealInv, [Next]_vars
  PROVE  [Cycle!CycleNext]_Cycle!cycleVars
<1>1. CASE Forwarder \/ Cancel \/ UNCHANGED vars
  <2>1. UNCHANGED <<bmVars, CycleStage, CycleRound>>
    BY <1>1 DEF Forwarder, Receive, StopForwarding, Cancel, vars, rmVars, CycleStage, CycleRound
  <2> QED
    BY <2>1, CycleRests
<1>2. CASE Engine \/ Players
  BY <1>2, CycleRests, LoopRests, LoopCycles, LoopEnds, PlayersCycle
  DEF Engine, Cycle!CycleNext
<1> QED
  BY <1>1, <1>2 DEF Next

\* The calls on the bets come in the order of BetCycle, whatever the loop's
\* other steps, its consumer and the players do between them.
THEOREM EngineImplementsCycle == Spec => ImplementsCycle
<1>1. Init => Inv /\ RevealInv /\ Cycle!CycleInit
  <2>1. ASSUME Init PROVE Cycle!CycleInit
    BY <2>1 DEF Init, Rounds!Init, Bets!Init, Bets!Keys, CycleStage, CycleRound,
       Cycle!CycleInit, Cycle!Init, Cycle!Keys, Cycle!NoBet
  <2>2. Init => RevealInv
    BY DEF Init, Rounds!Init, RevealInv
  <2> QED
    BY <2>1, <2>2, InitStep
<1>2. Inv /\ RevealInv /\ [Next]_vars
        => Inv' /\ RevealInv' /\ [Cycle!CycleNext]_Cycle!cycleVars
  BY NextStep, RevealStepped, CycleStep
<1> QED
  BY <1>1, <1>2, PTL DEF Spec, ImplementsCycle, Cycle!CycleSpec

=============================================================================
