---------------------------- MODULE StakeFlowProofs ----------------------------
(***************************************************************************)
(* Proofs about StakeFlow, for any number of bet ids, handlers, rounds,    *)
(* errors of the database and restarts.                                    *)
(*                                                                         *)
(* The heart of the argument is what the next step of a handler, and of    *)
(* the sweeper, tells about the stake it is at work on (HandlerKnows,      *)
(* SweepKnows): whoever makes or decides a debit is alone with it          *)
(* (HandlersApart), for its entry was opened by one handler, and the       *)
(* sweeper takes it up only when no handler is making it.  The last part   *)
(* follows the stakes to who answers for them (Traced).                    *)
(***************************************************************************)
EXTENDS StakeFlow, TLAPS

BP == INSTANCE BetManagerProofs WITH
        Users <- {Player}, Panels <- {PanelOf[b] : b \in BetIds},
        Amounts <- {1}, RoundIds <- 1..MaxRounds, Raws <- {1000},
        MaxInt <- 1000, NoRound <- 0,
        stage <- CycleStage, round <- CycleRound

\* Steps at which a handler is making a debit, or the sweeper.
Debiting == {"debit", "confirm", "fail", "mark"}
Deciding == {"send", "mark", "confirm", "fail"}

\* The types, with what the bets of the engine and its loop need to keep them.
Types ==
  /\ TypeOK /\ BP!IInv
  /\ stage # "create" => round > 0

\* A bet id nobody has opened an entry for.
Untouched ==
  \A b \in BetIds : debit[b] = "NONE" => b \notin took /\ b \notin old /\ sends[b] = 0

\* A decision of the ledger about a debit is what the operator did.
LedgerTellsDebit ==
  \A b \in BetIds :
    /\ debit[b] = "CONFIRMED" => b \in took
    /\ debit[b] = "FAILED" => b \notin took

\* A stake is given back, or its refund is in the queue, only if it was taken.
RefundFollowsDebit ==
  /\ gave \subseteq took
  /\ \A b \in BetIds : queue[b] # "no" => b \in took

Backed == \A i \in 1..nextBet : backing[i] \in took

HandlerKnows ==
  \A h \in Handlers :
    LET b == BetOf(h) IN
    /\ handlers[h].step \in Debiting => debit[b] = "PENDING" /\ b \notin old
    /\ At(h, "debit") => b \notin took /\ sends[b] = 0
    /\ At(h, "fail") => b \notin took
    /\ handlers[h].step \in {"confirm", "marker", "place", "refund", "enqueue",
                             "enqueue_untracked"} => b \in took

HandlersApart ==
  \A g, h \in Handlers :
    handlers[g].step \in Debiting /\ handlers[h].step \in Debiting
      /\ BetOf(g) = BetOf(h) => g = h

SweepKnows ==
  LET b == sweep.bet IN
  /\ sweep.step \in Deciding => debit[b] = "PENDING" /\ ~Busy(b)
  /\ sweep.step \in {"mark", "confirm", "send_refund", "confirm_refund"} => b \in took
  /\ SweepAt("fail") => b \notin took
  /\ SweepAt("confirm") => b \notin old \/ refund[b] # "NONE"

Know ==
  /\ Untouched /\ LedgerTellsDebit /\ RefundFollowsDebit /\ Backed
  /\ HandlerKnows /\ HandlersApart /\ SweepKnows
  /\ SentOnce

Inv == Types /\ Know

-----------------------------------------------------------------------------
(* The bets of the engine.                                                 *)

\* The calls of StakeFlow are steps of BetManager.
LEMMA CallsAreSteps ==
  /\ \A r \in 1..MaxRounds : Bets!OpenRound(r) => BP!Next
  /\ Bets!CloseBetting => BP!Next
  /\ Bets!StartRound => BP!Next
  /\ Bets!Crash => BP!Next
  /\ Bets!ResetRound => BP!Next
  /\ \A b \in BetIds : Bets!PlaceBet(Player, PanelOf[b], 1) => BP!Next
  /\ \A i \in DOMAIN bets : Bets!Cashout(i, 1000) => BP!Next
<1>1. \A r \in 1..MaxRounds : Bets!OpenRound(r) => BP!OpenRound(r)
  BY DEF Bets!OpenRound, Bets!CanOpenRound, BP!OpenRound, BP!CanOpenRound
<1>2. Bets!CloseBetting => BP!CloseBetting
  BY DEF Bets!CloseBetting, Bets!CanCloseBetting, BP!CloseBetting, BP!CanCloseBetting
<1>3. Bets!StartRound => BP!StartRound
  BY DEF Bets!StartRound, Bets!CanStartRound, BP!StartRound, BP!CanStartRound
<1>4. Bets!Crash => BP!Crash
  BY DEF Bets!Crash, Bets!CanCrash, Bets!Losing, Bets!Pending, Bets!Settled, Bets!Key,
         Bets!Keys, Bets!NoBet, BP!Crash, BP!CanCrash, BP!Losing, BP!Pending, BP!Settled,
         BP!Key, BP!Keys, BP!NoBet
<1>5. Bets!ResetRound => BP!ResetRound
  BY DEF Bets!ResetRound, Bets!CanResetRound, Bets!Keys, Bets!NoBet,
         BP!ResetRound, BP!CanResetRound, BP!Keys, BP!NoBet
<1>6. \A b \in BetIds : Bets!PlaceBet(Player, PanelOf[b], 1) => BP!PlaceBet(Player, PanelOf[b], 1)
  BY DEF Bets!PlaceBet, Bets!PlaceBetResult, Bets!NoBet, BP!PlaceBet, BP!PlaceBetResult, BP!NoBet
<1>7. ASSUME NEW i \in DOMAIN bets, NEW raw, Bets!Cashout(i, raw)
      PROVE  BP!Cashout(i, raw)
  <2>1. Bets!Normalize(raw) = BP!Normalize(raw)
    BY DEF Bets!Normalize, BP!Normalize
  <2>2. Bets!ValidMultiplier(raw) => BP!ValidMultiplier(raw)
    <3>1. Bets!MaxMultiplier = BP!MaxMultiplier
      BY SMT DEF Bets!MaxMultiplier, BP!MaxMultiplier
    <3> QED
      BY <3>1 DEF Bets!ValidMultiplier, BP!ValidMultiplier
  <2>3. \A amount, cents : Bets!Payout(amount, cents) = BP!Payout(amount, cents)
    BY DEF Bets!Payout, BP!Payout, Bets!Wrap, BP!Wrap
  <2>4. \A amount, cents : Bets!PayoutAccepted(amount, cents) => BP!PayoutAccepted(amount, cents)
    BY <2>3 DEF Bets!PayoutAccepted, BP!PayoutAccepted
  <2>5. BP!CanCashout(i, raw)
    BY <1>7, <2>1, <2>2, <2>4 DEF Bets!Cashout, Bets!CanCashout, BP!CanCashout
  <2>6. \A b, multi, payout : Bets!Settled(b, "CASHED_OUT", multi, payout)
                             = BP!Settled(b, "CASHED_OUT", multi, payout)
    BY DEF Bets!Settled, BP!Settled
  <2>7. Bets!Key(bets[i]) = BP!Key(bets[i]) /\ Bets!NoBet = BP!NoBet
    BY DEF Bets!Key, BP!Key, Bets!NoBet, BP!NoBet
  <2>8. bets' = [bets EXCEPT ![i] = BP!Settled(bets[i], "CASHED_OUT", BP!Normalize(raw),
                                       BP!Payout(bets[i].amount, BP!Normalize(raw)))]
    BY <1>7, <2>1, <2>3, <2>6, Zenon DEF Bets!Cashout
  <2> QED
    BY <1>7, <2>5, <2>7, <2>8, Zenon DEF Bets!Cashout, BP!Cashout
<1> QED
  BY <1>1, <1>2, <1>3, <1>4, <1>5, <1>6, <1>7 DEF BP!Next

\* What the rest of the proof needs of BetManager, whose proofs apply.
LEMMA BetsTypes == BP!IInv => Bets!TypeOK
  BY DEF BP!IInv, BP!TypeOK, Bets!TypeOK, BP!Bet, Bets!Bet, BP!Keys, Bets!Keys,
         BP!BetStates, Bets!BetStates

LEMMA BetsAnew == BP!Init' => BP!IInv' /\ Bets!TypeOK'
<1>1. BP!Init => BP!IInv /\ Bets!TypeOK
  BY BP!InitInvariant, BetsTypes
<1> QED
  BY <1>1, PTL

LEMMA BetsStep == BP!IInv /\ (BP!Next \/ UNCHANGED bmVars) => BP!IInv' /\ Bets!TypeOK'
<1>1. BP!IInv /\ (BP!Next \/ UNCHANGED bmVars) => BP!IInv'
  BY BP!StepInvariant DEF bmVars, BP!vars
<1>2. BP!IInv' => Bets!TypeOK'
  BY BetsTypes, PTL
<1> QED
  BY <1>1, <1>2

-----------------------------------------------------------------------------
(* Steps of a handler and of the sweeper.                                  *)

HandlerSteps == {"begin", "wait", "marker", "debit", "confirm", "fail", "mark",
                 "place", "refund", "enqueue", "enqueue_untracked"}
SweepSteps == {"send", "mark", "confirm", "fail", "send_refund", "confirm_refund",
               "fail_refund"}

LEMMA HandlerShape ==
  ASSUME TypeOK, NEW h \in Handlers
  PROVE  /\ handlers[h] \in Handler
         /\ handlers[h] = Idle \/ handlers[h].step \in HandlerSteps
         /\ handlers[h].step \in HandlerSteps =>
              /\ handlers[h].bet \in BetIds /\ handlers[h].round \in 1..MaxRounds
              /\ handlers[h] = [step |-> handlers[h].step, bet |-> handlers[h].bet,
                                round |-> handlers[h].round]
<1>1. handlers[h] \in Handler
  BY DEF TypeOK
<1> QED
  BY <1>1 DEF Handler, HandlerSteps, Idle

LEMMA GotoFacts ==
  ASSUME TypeOK, NEW h \in Handlers, handlers[h].step \in HandlerSteps,
         NEW step \in HandlerSteps, Goto(h, step)
  PROVE  /\ handlers' \in [Handlers -> Handler]
         /\ handlers'[h].step = step
         /\ BetOf(h)' = BetOf(h) /\ BetOf(h) \in BetIds
         /\ \A g \in Handlers \ {h} : handlers'[g] = handlers[g]
<1>1. handlers[h] = [step |-> handlers[h].step, bet |-> handlers[h].bet,
                     round |-> handlers[h].round]
      /\ handlers[h].bet \in BetIds /\ handlers[h].round \in 1..MaxRounds
  BY HandlerShape
<1>2. handlers' = [handlers EXCEPT ![h] = [handlers[h] EXCEPT !.step = step]]
  BY DEF Goto
<1>3. [handlers[h] EXCEPT !.step = step]
      = [step |-> step, bet |-> handlers[h].bet, round |-> handlers[h].round]
  BY <1>1
<1>4. [handlers[h] EXCEPT !.step = step] \in Handler
  BY <1>1, <1>3 DEF Handler, HandlerSteps
<1> QED
  BY <1>1, <1>2, <1>3, <1>4 DEF TypeOK, BetOf

LEMMA FinishFacts ==
  ASSUME TypeOK, NEW h \in Handlers, Finish(h)
  PROVE  /\ handlers' \in [Handlers -> Handler]
         /\ handlers'[h].step = "idle"
         /\ \A g \in Handlers \ {h} : handlers'[g] = handlers[g]
  BY DEF TypeOK, Finish, Handler, Idle

LEMMA SweepShape ==
  ASSUME TypeOK
  PROVE  /\ sweep = Idle \/ sweep.step \in SweepSteps
         /\ sweep.step \in SweepSteps =>
              /\ sweep.bet \in BetIds
              /\ sweep.marked \in BOOLEAN /\ sweep.pending \in BOOLEAN
              /\ sweep = [step |-> sweep.step, bet |-> sweep.bet,
                          marked |-> sweep.marked, pending |-> sweep.pending]
<1>1. sweep \in Sweep
  BY DEF TypeOK
<1> QED
  BY <1>1 DEF Sweep, SweepSteps, Idle

LEMMA SweepGotoFacts ==
  ASSUME TypeOK, sweep.step \in SweepSteps, NEW step \in SweepSteps, SweepGoto(step)
  PROVE  sweep' \in Sweep /\ sweep'.step = step /\ sweep'.bet = sweep.bet
<1>1. sweep = [step |-> sweep.step, bet |-> sweep.bet,
               marked |-> sweep.marked, pending |-> sweep.pending]
      /\ sweep.bet \in BetIds /\ sweep.marked \in BOOLEAN /\ sweep.pending \in BOOLEAN
  BY SweepShape
<1>2. sweep' = [step |-> step, bet |-> sweep.bet,
                marked |-> sweep.marked, pending |-> sweep.pending]
  BY <1>1 DEF SweepGoto
<1> QED
  BY <1>1, <1>2 DEF Sweep, SweepSteps

LEMMA SweepEndsFacts ==
  ASSUME SweepEnds
  PROVE  sweep' \in Sweep /\ sweep'.step = "idle"
  BY DEF SweepEnds, Sweep, Idle

LEMMA TargetFacts ==
  ASSUME TypeOK, NEW b \in BetIds, NEW step \in SweepSteps, sweep' = Target(step, b)
  PROVE  sweep' \in Sweep /\ sweep'.step = step /\ sweep'.bet = b
  BY DEF TypeOK, Target, Sweep, SweepSteps, Statuses

-----------------------------------------------------------------------------
(* The types.                                                              *)

LEMMA InitTypes == Init => Types
<1> SUFFICES ASSUME Init PROVE Types
  OBVIOUS
<1>1. BP!IInv
  <2>1. BP!Init
    BY DEF Init, Bets!Init, BP!Init, Bets!Keys, BP!Keys, Bets!NoBet, BP!NoBet
  <2> QED
    BY <2>1, BP!InitInvariant
<1>2. DOMAIN backing = 1..nextBet
  BY DEF Init, Bets!Init
<1> QED
  BY <1>1, <1>2, BetsTypes, StakeConstants
  DEF Init, Types, TypeOK, Bets!Init, Statuses, Handler, Sweep

\* A step that leaves the engine alone.
LEMMA EngineQuiet ==
  ASSUME Types, UNCHANGED engineVars
  PROVE  /\ BP!IInv' /\ Bets!TypeOK'
         /\ (stage # "create" => round > 0)'
         /\ stage' \in {"create", "open", "close", "start", "crash", "reset"}
         /\ round' \in 0..MaxRounds
<1>1. BP!IInv' /\ Bets!TypeOK'
  BY BetsStep DEF Types, engineVars
<1> QED
  BY <1>1 DEF Types, TypeOK, engineVars

LEMMA HandlerTypes ==
  ASSUME Types, NEW h \in Handlers, HandlerStep(h)
  PROVE  Types'
<1> USE DEF Types
<1>1. ASSUME NEW b \in BetIds, Receive(h, b) PROVE Types'
  <2>1. handlers' \in [Handlers -> Handler]
    BY <1>1 DEF TypeOK, Receive, Handler
  <2> QED
    BY <1>1, <2>1, EngineQuiet
    DEF Receive, TypeOK, HandlerOnly, entryVars, moneyVars, histVars, betHist, engineVars, bmVars, queueVars
<1>2. CASE Begin(h)
  <2>1. handlers[h].step \in HandlerSteps /\ BetOf(h) \in BetIds /\ handlers[h].round \in 1..MaxRounds
    BY <1>2, HandlerShape DEF Begin, At, HandlerSteps, BetOf
  <2>2. Existing(BetOf(h), handlers[h].round) \in HandlerSteps \cup {"idle"}
    BY DEF Existing, HandlerSteps
  <2>3. handlers' \in [Handlers -> Handler]
    BY <1>2, <2>1, <2>2, GotoFacts, FinishFacts DEF Begin, Continue, HandlerSteps
  <2>4. debit' \in [BetIds -> Statuses] /\ ref' \in [BetIds -> 0..MaxRounds]
    <3>1. debit' = debit \/ debit' = Opened(debit, BetOf(h))
      BY <1>2 DEF Begin
    <3>2. ref' = ref \/ ref' = [ref EXCEPT ![BetOf(h)] = handlers[h].round]
      BY <1>2 DEF Begin
    <3> QED
      BY <2>1, <3>1, <3>2, StakeConstants DEF Opened, Statuses, TypeOK
  <2>5. faults' \in 0..MaxFaults
    BY <1>2, StakeConstants DEF Begin, Fault, TypeOK
  <2>6. abandoned' \subseteq BetIds
    BY <1>2, <2>1 DEF Begin, Abandons, TypeOK
  <2> QED
    BY <1>2, <2>3, <2>4, <2>5, <2>6, EngineQuiet
    DEF Begin, TypeOK, HandlerOnly, moneyVars, histVars, betHist, engineVars, bmVars, queueVars
<1>3. CASE Wait(h) \/ CheckMarker(h)
  <2>1. handlers[h].step \in HandlerSteps
    BY <1>3 DEF Wait, CheckMarker, At, HandlerSteps
  <2>2. handlers' \in [Handlers -> Handler]
    BY <1>3, <2>1, GotoFacts, FinishFacts DEF Wait, CheckMarker, HandlerSteps
  <2> QED
    BY <1>3, <2>2, EngineQuiet
    DEF Wait, CheckMarker, TypeOK, HandlerOnly, entryVars, moneyVars, histVars, betHist, engineVars, bmVars, queueVars
<1>4. CASE Debit(h)
  <2>1. handlers[h].step \in HandlerSteps /\ BetOf(h) \in BetIds
    BY <1>4, HandlerShape DEF Debit, At, HandlerSteps, BetOf
  <2>2. handlers' \in [Handlers -> Handler]
    BY <1>4, <2>1, GotoFacts DEF Debit, AfterDebit, HandlerSteps
  <2>3. took' \subseteq BetIds /\ sends' \in [BetIds -> Nat]
    BY <1>4, <2>1 DEF Debit, Asked, TypeOK
  <2> QED
    BY <1>4, <2>2, <2>3, EngineQuiet
    DEF Debit, TypeOK, HandlerOnly, entryVars, engineVars, bmVars, queueVars
<1>5. CASE Confirm(h) \/ Fail(h)
  <2>1. handlers[h].step \in HandlerSteps /\ BetOf(h) \in BetIds
    BY <1>5, HandlerShape DEF Confirm, Fail, At, HandlerSteps, BetOf
  <2>2. handlers' \in [Handlers -> Handler]
    BY <1>5, <2>1, GotoFacts, FinishFacts DEF Confirm, Fail, HandlerSteps
  <2>3. debit' \in [BetIds -> Statuses]
    BY <1>5, <2>1 DEF Opened, Decided, Statuses, Decisions, Confirm, Fail, TypeOK
  <2>4. faults' \in 0..MaxFaults
    BY <1>5, StakeConstants DEF Confirm, Fail, Fault, TypeOK
  <2>5. abandoned' \subseteq BetIds
    BY <1>5, <2>1 DEF Confirm, Fail, Abandons, TypeOK, histVars
  <2> QED
    BY <1>5, <2>2, <2>3, <2>4, <2>5, EngineQuiet
    DEF Confirm, Fail, TypeOK, HandlerOnly, moneyVars, histVars, betHist, engineVars, bmVars, queueVars
<1>6. CASE Mark(h) \/ Refund(h)
  <2>1. handlers[h].step \in HandlerSteps /\ BetOf(h) \in BetIds
    BY <1>6, HandlerShape DEF Mark, Refund, At, HandlerSteps, BetOf
  <2>2. handlers' \in [Handlers -> Handler]
    BY <1>6, <2>1, GotoFacts, FinishFacts DEF Mark, Refund, HandlerSteps
  <2>3. refund' \in [BetIds -> Statuses]
    BY <1>6, <2>1 DEF Opened, Decided, Statuses, Decisions, Mark, Refund, OpensRefund, TypeOK
  <2>4. faults' \in 0..MaxFaults
    BY <1>6, StakeConstants DEF Mark, Refund, Fault, TypeOK
  <2>5. abandoned' \subseteq BetIds
    BY <1>6, <2>1 DEF Mark, Refund, Abandons, TypeOK, histVars
  <2> QED
    BY <1>6, <2>2, <2>3, <2>4, <2>5, EngineQuiet
    DEF Mark, Refund, TypeOK, HandlerOnly, moneyVars, histVars, betHist, engineVars, bmVars, queueVars
<1>7. CASE PlaceBet(h)
  <2>1. handlers[h].step \in HandlerSteps /\ BetOf(h) \in BetIds
    BY <1>7, HandlerShape DEF PlaceBet, CanPlace, At, HandlerSteps, BetOf
  <2>2. handlers' \in [Handlers -> Handler]
    BY <1>7, <2>1, GotoFacts, FinishFacts DEF PlaceBet, HandlerSteps
  <2>3. BP!IInv' /\ Bets!TypeOK'
    BY <1>7, <2>1, BetsStep, CallsAreSteps DEF PlaceBet
  <2>4. nextBet \in Nat /\ nextBet' \in Nat
    BY <2>3 DEF TypeOK, Bets!TypeOK
  <2>5. /\ DOMAIN backing' = 1..nextBet' /\ \A i \in DOMAIN backing' : backing'[i] \in BetIds
        /\ staked' \in [BetIds -> Nat]
    <3>1. CASE Bets!PlaceBet(Player, PanelOf[BetOf(h)], 1)
      <4>1. nextBet' = nextBet + 1
        BY <3>1 DEF Bets!PlaceBet
      <4>2. /\ backing' = [i \in 1..nextBet' |-> IF i = nextBet' THEN BetOf(h) ELSE backing[i]]
            /\ staked' = [staked EXCEPT ![BetOf(h)] = @ + 1]
        BY <1>7, <4>1, <2>4 DEF PlaceBet, bmVars
      <4> QED
        <5>1. staked' \in [BetIds -> Nat]
          BY <2>1, <4>2 DEF TypeOK
        <5>2. \A i \in 1..nextBet' : i = nextBet' \/ i \in 1..nextBet
          BY <2>4, <4>1
        <5>3. DOMAIN backing = 1..nextBet /\ \A i \in 1..nextBet : backing[i] \in BetIds
          BY DEF TypeOK
        <5> QED
          BY <2>1, <4>2, <5>1, <5>2, <5>3
    <3>2. CASE ~Bets!PlaceBet(Player, PanelOf[BetOf(h)], 1)
      BY <1>7, <3>2 DEF PlaceBet, TypeOK, bmVars
    <3> QED
      BY <3>1, <3>2
  <2>6. asked' \in [BetIds -> SUBSET PlayableRounds] /\ played' \in [BetIds -> SUBSET PlayableRounds]
    <3>1. ThisRound \in PlayableRounds
      BY DEF ThisRound, PlayableRounds, TypeOK
    <3>2. asked' = [asked EXCEPT ![BetOf(h)] = @ \cup {ThisRound}]
      BY <1>7 DEF PlaceBet
    <3>3. played' = played \/ played' = [played EXCEPT ![BetOf(h)] = @ \cup {ThisRound}]
      BY <1>7 DEF PlaceBet
    <3>4. /\ asked \in [BetIds -> SUBSET PlayableRounds]
          /\ played \in [BetIds -> SUBSET PlayableRounds]
      BY DEF TypeOK
    <3> QED
      BY <2>1, <3>1, <3>2, <3>3, <3>4
  <2> QED
    BY <1>7, <2>2, <2>3, <2>5, <2>6
    DEF PlaceBet, TypeOK, entryVars, moneyVars, queueVars
<1>8. CASE Enqueue(h)
  <2>1. handlers[h].step \in HandlerSteps /\ BetOf(h) \in BetIds
    BY <1>8, HandlerShape DEF Enqueue, At, HandlerSteps, BetOf
  <2>2. handlers' \in [Handlers -> Handler]
    BY <1>8, <2>1, FinishFacts DEF Enqueue
  <2>3. queue' \in [BetIds -> {"no", "tracked", "untracked"}] /\ faults' \in 0..MaxFaults
    <3>1. \/ queue' = queue
          \/ \E kind \in {"tracked", "untracked"} :
               queue' = [queue EXCEPT ![BetOf(h)] = IF @ = "no" THEN kind ELSE @]
      BY <1>8 DEF Enqueue
    <3>2. faults' = faults \/ Fault
      BY <1>8 DEF Enqueue
    <3>3. faults' \in 0..MaxFaults
      BY <3>2, StakeConstants DEF TypeOK, Fault
    <3>4. queue \in [BetIds -> {"no", "tracked", "untracked"}]
      BY DEF TypeOK
    <3> QED
      BY <2>1, <3>1, <3>3, <3>4
  <2>4. abandoned' \subseteq BetIds
    BY <1>8, <2>1 DEF Enqueue, Abandons, TypeOK
  <2> QED
    BY <1>8, <2>2, <2>3, <2>4, EngineQuiet
    DEF Enqueue, TypeOK, entryVars, moneyVars, histVars, betHist, engineVars, bmVars
<1> QED
  BY <1>1, <1>2, <1>3, <1>4, <1>5, <1>6, <1>7, <1>8 DEF HandlerStep

LEMMA SweepTypes ==
  ASSUME Types, SweepStep
  PROVE  Types'
<1> USE DEF Types
<1>1. ASSUME NEW b \in BetIds, SweepDebit(b) \/ SweepMoney(b) PROVE Types'
  <2>1. MoneyStep(b) \in SweepSteps \cup {"idle"}
    BY DEF MoneyStep, SweepSteps
  <2>2. sweep' \in Sweep
    BY <1>1, <2>1, TargetFacts DEF SweepDebit, SweepMoney, SweepSteps
  <2> QED
    BY <1>1, <2>2, EngineQuiet
    DEF SweepDebit, SweepMoney, SweepOnly, TypeOK, moneyVars, queueVars, histVars, betHist, engineVars, bmVars
<1>2. CASE SweepSend \/ SweepSendRefund
  <2>1. sweep.step \in SweepSteps /\ sweep.bet \in BetIds
    BY <1>2, SweepShape DEF SweepSend, SweepSendRefund, SweepAt, SweepSteps
  <2>2. sweep' \in Sweep
    BY <1>2, <2>1, SweepGotoFacts, SweepEndsFacts DEF SweepSend, SweepSendRefund, SweepSteps
  <2>3. took' \subseteq BetIds /\ gave' \subseteq BetIds
    BY <1>2, <2>1 DEF SweepSend, SweepSendRefund, Asked, TypeOK
  <2> QED
    BY <1>2, <2>2, <2>3, EngineQuiet
    DEF SweepSend, SweepSendRefund, SweepOnly, TypeOK, queueVars, histVars, betHist, engineVars, bmVars
<1>3. CASE SweepMark
  <2>1. sweep.step \in SweepSteps /\ sweep.bet \in BetIds
    BY <1>3, SweepShape DEF SweepMark, SweepAt, SweepSteps
  <2>2. sweep' \in Sweep
    <3>1. CASE SweepEnds
      BY <3>1, SweepEndsFacts
    <3>2. CASE sweep' = [step |-> "confirm", bet |-> sweep.bet, marked |-> TRUE,
                         pending |-> refund'[sweep.bet] = "PENDING"]
      BY <2>1, <3>2 DEF Sweep
    <3> QED
      BY <1>3, <3>1, <3>2 DEF SweepMark
  <2>3. refund' \in [BetIds -> Statuses]
    <3>1. refund' = refund \/ refund' = Opened(refund, sweep.bet)
      BY <1>3 DEF SweepMark, OpensRefund
    <3> QED
      BY <2>1, <3>1 DEF Opened, Statuses, TypeOK
  <2>4. faults' \in 0..MaxFaults
    BY <1>3, StakeConstants DEF SweepMark, Fault, TypeOK
  <2> QED
    BY <1>3, <2>2, <2>3, <2>4, EngineQuiet
    DEF SweepMark, SweepOnly, TypeOK, moneyVars, queueVars, histVars, betHist, engineVars, bmVars
<1>4. CASE SweepConfirm \/ SweepFail
  <2>1. sweep.step \in SweepSteps /\ sweep.bet \in BetIds
    BY <1>4, SweepShape DEF SweepConfirm, SweepFail, SweepAt, SweepSteps
  <2>2. sweep' \in Sweep
    BY <1>4, <2>1, SweepGotoFacts, SweepEndsFacts DEF SweepConfirm, SweepFail, SweepSteps
  <2>3. debit' \in [BetIds -> Statuses]
    <3>1. debit' = debit \/ \E to \in Decisions : debit' = Decided(debit, sweep.bet, to)
      BY <1>4 DEF SweepConfirm, SweepFail, Decisions
    <3> QED
      BY <2>1, <3>1 DEF Decided, Statuses, TypeOK
  <2>4. faults' \in 0..MaxFaults
    BY <1>4, StakeConstants DEF SweepConfirm, SweepFail, Fault, TypeOK
  <2> QED
    BY <1>4, <2>2, <2>3, <2>4, EngineQuiet
    DEF SweepConfirm, SweepFail, SweepOnly, TypeOK, moneyVars, queueVars, histVars, betHist, engineVars, bmVars
<1>5. CASE SweepResolveRefund
  <2>1. sweep.step \in SweepSteps /\ sweep.bet \in BetIds
    BY <1>5, SweepShape DEF SweepResolveRefund, SweepAt, SweepSteps
  <2>2. sweep' \in Sweep
    BY <1>5, SweepEndsFacts DEF SweepResolveRefund
  <2>3. refund' \in [BetIds -> Statuses]
    BY <1>5, <2>1 DEF Opened, Decided, Statuses, Decisions, SweepResolveRefund, TypeOK
  <2>4. faults' \in 0..MaxFaults
    BY <1>5, StakeConstants DEF SweepResolveRefund, Fault, TypeOK
  <2> QED
    BY <1>5, <2>2, <2>3, <2>4, EngineQuiet
    DEF SweepResolveRefund, SweepOnly, TypeOK, moneyVars, queueVars, histVars, betHist, engineVars, bmVars
<1> QED
  BY <1>1, <1>2, <1>3, <1>4, <1>5 DEF SweepStep

LEMMA OtherTypes ==
  ASSUME Types,
         Engine \/ Cashout \/ Restart \/ \E b \in BetIds : Deliver(b)
  PROVE  Types'
<1> USE DEF Types
<1>1. CASE CreateRound
  <2>1. BP!IInv' /\ Bets!TypeOK'
    BY <1>1, BetsStep DEF CreateRound
  <2>2. round' \in 0..MaxRounds /\ round' > 0
    BY <1>1, StakeConstants DEF CreateRound, TypeOK
  <2> QED
    BY <1>1, <2>1, <2>2
    DEF CreateRound, EngineStep, TypeOK, bmVars, entryVars, moneyVars, queueVars, histVars, betHist
<1>2. CASE Engine /\ ~CreateRound
  <2>1. round' = round /\ round \in 0..MaxRounds
    BY <1>2 DEF Engine, TypeOK
  <2>2. BP!Next
    <3>1. CASE EngineStep("open", "close") /\ Bets!OpenRound(round)
      <4>1. round \in 1..MaxRounds
        BY <2>1, <3>1, StakeConstants DEF EngineStep
      <4> QED
        BY <3>1, <4>1, CallsAreSteps
    <3> QED
      BY <1>2, <3>1, CallsAreSteps DEF Engine
  <2>3. BP!IInv' /\ Bets!TypeOK'
    BY <2>2, BetsStep
  <2>4. nextBet' = nextBet
    BY <1>2 DEF Engine, Bets!OpenRound, Bets!CloseBetting, Bets!StartRound, Bets!Crash, Bets!ResetRound
  <2>5. /\ stage # "create" /\ stage' \in {"create", "open", "close", "start", "crash", "reset"}
        /\ UNCHANGED <<entryVars, moneyVars, queueVars, handlers, sweep, old, histVars, faults, restarts>>
    BY <1>2 DEF Engine, EngineStep
  <2> QED
    BY <2>1, <2>3, <2>4, <2>5 DEF TypeOK, entryVars, moneyVars, queueVars, histVars, betHist
<1>3. CASE Cashout
  <2>1. BP!IInv' /\ Bets!TypeOK'
    BY <1>3, BetsStep, CallsAreSteps DEF Cashout
  <2>2. nextBet' = nextBet
    BY <1>3 DEF Cashout, Bets!Cashout
  <2> QED
    BY <1>3, <2>1, <2>2 DEF Cashout, TypeOK, entryVars, moneyVars, queueVars, histVars, betHist
<1>4. CASE Restart
  <2>1. BP!Init'
    BY <1>4 DEF Restart, BP!Init, Bets!Keys, BP!Keys, Bets!NoBet, BP!NoBet
  <2>2. BP!IInv' /\ Bets!TypeOK'
    BY <2>1, BetsAnew
  <2>3. handlers' \in [Handlers -> Handler] /\ sweep' \in Sweep
    BY <1>4 DEF Restart, Handler, Sweep
  <2>4. restarts' \in 0..MaxRestarts /\ round' \in 0..MaxRounds
    BY <1>4, StakeConstants DEF Restart, TypeOK
  <2>5. DOMAIN backing' = 1..nextBet'
    BY <1>4 DEF Restart
  <2>6. old' \subseteq BetIds
    BY <1>4 DEF Restart
  <2>7. abandoned' \subseteq BetIds
    BY <1>4 DEF Restart, TypeOK
  <2> QED
    BY <1>4, <2>2, <2>3, <2>4, <2>5, <2>6, <2>7
    DEF Restart, TypeOK, entryVars, moneyVars, queueVars
<1>5. ASSUME NEW b \in BetIds, Deliver(b) PROVE Types'
  <2>1. gave' \subseteq BetIds /\ alerts' \subseteq BetIds
    BY <1>5 DEF Deliver, Asked, TypeOK
  <2>2. refund' = refund \/ \E to \in Decisions : refund' = Decided(refund, b, to)
    BY <1>5 DEF Deliver, Decisions
  <2>3. refund' \in [BetIds -> Statuses]
    BY <2>2 DEF Decided, Statuses, TypeOK
  <2>4. queue' \in [BetIds -> {"no", "tracked", "untracked"}]
    BY <1>5 DEF Deliver, TypeOK
  <2> QED
    BY <1>5, <2>1, <2>3, <2>4, EngineQuiet DEF Deliver, TypeOK, histVars, betHist, engineVars, bmVars
<1> QED
  BY <1>1, <1>2, <1>3, <1>4, <1>5

LEMMA TypesKept == Types /\ [Next]_vars => Types'
<1> SUFFICES ASSUME Types, [Next]_vars PROVE Types'
  OBVIOUS
<1>1. CASE Next
  BY <1>1, HandlerTypes, SweepTypes, OtherTypes DEF Next
<1>2. CASE UNCHANGED vars
  BY <1>2, EngineQuiet
  DEF vars, Types, TypeOK, entryVars, moneyVars, queueVars, histVars, betHist, engineVars, bmVars
<1> QED
  BY <1>1, <1>2

\* The types of every reachable state.
THEOREM StakeTypes == Spec => []TypeOK
<1>1. Types => TypeOK
  BY DEF Types
<1> QED
  BY <1>1, InitTypes, TypesKept, PTL DEF Spec

-----------------------------------------------------------------------------
(* What handlers and sweeper know.                                         *)

LEMMA InitKnow == Init => Know
  BY DEF Init, Know, Untouched, LedgerTellsDebit, RefundFollowsDebit, Backed, HandlerKnows,
     HandlersApart, SweepKnows, SentOnce, Bets!Init, Idle, At, BetOf, SweepAt, Debiting, Deciding

\* A handler goes on to, or ends at, a step where no debit is made, and nothing
\* but refunds changes.
LEMMA QuietStep ==
  ASSUME Inv, NEW h \in Handlers, UNCHANGED <<debit, took, gave, queue, old, sends, sweep>>,
         UNCHANGED <<nextBet, backing>>,
         \A b \in BetIds : refund[b] # "NONE" => refund'[b] # "NONE",
         \A g \in Handlers \ {h} : handlers'[g] = handlers[g],
         handlers'[h].step \notin Debiting,
         handlers'[h].step \in {"marker", "place", "refund", "enqueue", "enqueue_untracked"}
           => BetOf(h)' \in took
  PROVE  Know'
<1>1. HandlerKnows' /\ HandlersApart'
  BY DEF Inv, Know, HandlerKnows, HandlersApart, At, BetOf, Debiting
<1>2. SweepKnows'
  <2>1. sweep.step \in Deciding \cup {"mark"} => sweep.bet \in BetIds
    BY SweepShape DEF Inv, Types, Deciding, SweepSteps, Idle
  <2>2. \A b \in BetIds : Busy(b)' => Busy(b)
    BY DEF Busy, BetOf, Debiting
  <2> QED
    BY <2>1, <2>2 DEF Inv, Know, SweepKnows, SweepAt, Deciding
<1> QED
  BY <1>1, <1>2 DEF Inv, Know, Untouched, LedgerTellsDebit, RefundFollowsDebit, Backed, SentOnce

LEMMA ReceiveKnow ==
  ASSUME Inv, NEW h \in Handlers, NEW b \in BetIds, Receive(h, b)
  PROVE  Know'
<1>1. /\ handlers'[h].step = "begin"
      /\ \A g \in Handlers \ {h} : handlers'[g] = handlers[g]
  BY DEF Receive, Inv, Types, TypeOK
<1> QED
  BY <1>1, QuietStep
  DEF Receive, HandlerOnly, engineVars, bmVars, queueVars, entryVars, moneyVars, histVars, betHist, Debiting

LEMMA BeginKnow ==
  ASSUME Inv, NEW h \in Handlers, Begin(h)
  PROVE  Know'
<1> DEFINE b == BetOf(h)
           r == handlers[h].round
<1>1. handlers[h].step \in HandlerSteps /\ b \in BetIds
  BY HandlerShape DEF Begin, At, HandlerSteps, BetOf, Inv, Types
<1>2. UNCHANGED <<took, gave, queue, old, sends, sweep, nextBet, backing, refund>>
  BY DEF Begin, HandlerOnly, moneyVars, histVars, betHist, engineVars, bmVars, queueVars
<1>3. debit[b] = "CONFIRMED" => b \in took
  BY <1>1 DEF Inv, Know, LedgerTellsDebit
<1>4. CASE debit[b] # "NONE"
  <2>1. debit' = debit /\ Continue(h, Existing(b, r))
    BY <1>4 DEF Begin
  <2>2. \/ Finish(h) \/ Goto(h, "wait")
        \/ Goto(h, "marker") /\ b \in took
    <3>1. debit[b] \in Statuses
      BY <1>1 DEF Inv, Types, TypeOK
    <3> QED
      BY <1>3, <1>4, <2>1, <3>1 DEF Continue, Existing, Statuses, Decisions
  <2>3. /\ handlers'[h].step \in {"idle", "wait", "marker"}
        /\ handlers'[h].step = "marker" => BetOf(h)' \in took
        /\ \A g \in Handlers \ {h} : handlers'[g] = handlers[g]
    BY <1>1, <2>2, GotoFacts, FinishFacts DEF Inv, Types, HandlerSteps
  <2> QED
    BY <1>2, <2>1, <2>3, QuietStep DEF Debiting
<1>5. CASE debit[b] = "NONE"
  <2>1. debit' = debit \/ debit' = Opened(debit, b)
    BY <1>5 DEF Begin
  <2>2. \/ Goto(h, "debit") /\ debit' = Opened(debit, b)
        \/ Finish(h)
    BY <1>5 DEF Begin
  <2>3. /\ handlers'[h].step \in {"idle", "debit"}
        /\ handlers'[h].step = "debit" => BetOf(h)' = b /\ debit' = Opened(debit, b)
        /\ \A g \in Handlers \ {h} : handlers'[g] = handlers[g]
    BY <1>1, <2>2, GotoFacts, FinishFacts DEF Inv, Types, HandlerSteps
  <2>4. /\ \A c \in BetIds \ {b} : debit'[c] = debit[c]
        /\ debit'[b] \in {"NONE", "PENDING"}
        /\ debit' = Opened(debit, b) => debit'[b] = "PENDING"
    BY <1>1, <1>5, <2>1 DEF Opened, Inv, Types, TypeOK
  <2>5. b \notin took /\ b \notin old /\ sends[b] = 0
    BY <1>1, <1>5 DEF Inv, Know, Untouched
  <2>6. \A g \in Handlers : handlers[g].step \in Debiting => BetOf(g) # b /\ BetOf(g) \in BetIds
    BY <1>5, HandlerShape DEF Inv, Types, Know, HandlerKnows, BetOf, Debiting, HandlerSteps
  <2>7. sweep.step \in Deciding => sweep.bet # b /\ sweep.bet \in BetIds
    BY <1>5, SweepShape DEF Inv, Types, Know, SweepKnows, Deciding, SweepSteps
  <2>8. HandlerKnows'
    BY <1>2, <2>3, <2>4, <2>5, <2>6 DEF Inv, Know, HandlerKnows, At, BetOf, Debiting
  <2>9. HandlersApart'
    BY <2>3, <2>6 DEF Inv, Know, HandlersApart, BetOf, Debiting
  <2>10. SweepKnows'
    <3>1. \A c \in BetIds \ {b} : Busy(c)' => Busy(c)
      BY <2>3 DEF Busy, BetOf
    <3> QED
      BY <1>2, <2>4, <2>7, <3>1 DEF Inv, Know, SweepKnows, SweepAt, Deciding
  <2>11. Untouched' /\ LedgerTellsDebit'
    BY <1>2, <2>4, <2>5 DEF Inv, Know, Untouched, LedgerTellsDebit
  <2> QED
    BY <1>2, <2>8, <2>9, <2>10, <2>11 DEF Inv, Know, RefundFollowsDebit, Backed, SentOnce
<1> QED
  BY <1>4, <1>5

LEMMA WaitKnow ==
  ASSUME Inv, NEW h \in Handlers, Wait(h) \/ CheckMarker(h)
  PROVE  Know'
<1>1. handlers[h].step \in {"wait", "marker"} /\ handlers[h].step \in HandlerSteps
      /\ BetOf(h) \in BetIds
  BY HandlerShape DEF Wait, CheckMarker, At, HandlerSteps, BetOf, Inv, Types
<1>2. \/ Finish(h)
      \/ (Goto(h, "marker") \/ Goto(h, "place")) /\ BetOf(h) \in took
  BY <1>1 DEF Wait, CheckMarker, Inv, Know, LedgerTellsDebit, HandlerKnows, At
<1>3. /\ handlers'[h].step \in {"idle", "marker", "place"}
      /\ handlers'[h].step # "idle" => BetOf(h)' \in took
      /\ \A g \in Handlers \ {h} : handlers'[g] = handlers[g]
  <2>1. UNCHANGED took
    BY DEF Wait, CheckMarker, moneyVars
  <2> QED
    BY <1>1, <1>2, <2>1, GotoFacts, FinishFacts DEF Inv, Types, HandlerSteps
<1> QED
  BY <1>3, QuietStep DEF Wait, CheckMarker, HandlerOnly, engineVars, bmVars, queueVars,
     entryVars, moneyVars, histVars, betHist, Debiting

LEMMA DebitKnow ==
  ASSUME Inv, NEW h \in Handlers, Debit(h)
  PROVE  Know'
<1> DEFINE b == BetOf(h)
<1>1. handlers[h].step = "debit" /\ handlers[h].step \in HandlerSteps /\ b \in BetIds
  BY HandlerShape DEF Debit, At, HandlerSteps, BetOf, Inv, Types
<1>2. UNCHANGED <<debit, gave, queue, old, sweep, nextBet, backing, refund>>
  BY DEF Debit, HandlerOnly, entryVars, engineVars, bmVars, queueVars
<1>3. debit[b] = "PENDING" /\ b \notin old /\ b \notin took /\ sends[b] = 0
  BY <1>1 DEF Inv, Know, HandlerKnows, At, Debiting
<1>4. /\ took' \in {took, took \cup {b}}
      /\ \/ Goto(h, "confirm") /\ b \in took'
         \/ Goto(h, "fail") /\ took' = took
         \/ Goto(h, "mark")
  BY DEF Debit, Asked, AfterDebit
<1>5. /\ handlers'[h].step \in {"confirm", "fail", "mark"} /\ BetOf(h)' = b
      /\ handlers'[h].step = "confirm" => b \in took'
      /\ handlers'[h].step = "fail" => b \notin took'
      /\ \A g \in Handlers \ {h} : handlers'[g] = handlers[g]
  BY <1>1, <1>3, <1>4, GotoFacts DEF Inv, Types, HandlerSteps
<1>6. /\ sends'[b] = 1
      /\ \A c \in BetIds \ {b} : sends'[c] = sends[c]
  BY <1>1, <1>3 DEF Debit, Inv, Types, TypeOK
<1>7. \A g \in Handlers \ {h} : handlers[g].step \in Debiting => BetOf(g) # b /\ BetOf(g) \in BetIds
  BY <1>1, HandlerShape DEF Inv, Types, Know, HandlersApart, BetOf, Debiting, HandlerSteps
<1>8. sweep.step \in Deciding => sweep.bet # b /\ sweep.bet \in BetIds
  BY <1>1, SweepShape DEF Inv, Types, Know, SweepKnows, Deciding, SweepSteps, Busy
<1>9. HandlerKnows'
  BY <1>2, <1>3, <1>4, <1>5, <1>6, <1>7 DEF Inv, Know, HandlerKnows, At, BetOf, Debiting
<1>10. HandlersApart'
  BY <1>5, <1>7 DEF Inv, Know, HandlersApart, BetOf, Debiting
<1>11. SweepKnows'
  <2>1. \A c \in BetIds \ {b} : Busy(c)' => Busy(c)
    BY <1>5 DEF Busy, BetOf
  <2> QED
    BY <1>2, <1>4, <1>8, <2>1 DEF Inv, Know, SweepKnows, SweepAt, Deciding
<1>12. Untouched' /\ LedgerTellsDebit' /\ SentOnce'
  BY <1>2, <1>3, <1>4, <1>6 DEF Inv, Know, Untouched, LedgerTellsDebit, SentOnce
<1>13. RefundFollowsDebit' /\ Backed'
  BY <1>2, <1>4 DEF Inv, Know, RefundFollowsDebit, Backed
<1> QED
  BY <1>9, <1>10, <1>11, <1>12, <1>13 DEF Know

LEMMA DecideKnow ==
  ASSUME Inv, NEW h \in Handlers, Confirm(h) \/ Fail(h)
  PROVE  Know'
<1> DEFINE b == BetOf(h)
           to == IF handlers[h].step = "confirm" THEN "CONFIRMED" ELSE "FAILED"
<1>1. handlers[h].step \in {"confirm", "fail"} /\ handlers[h].step \in HandlerSteps /\ b \in BetIds
  BY HandlerShape DEF Confirm, Fail, At, HandlerSteps, BetOf, Inv, Types
<1>2. UNCHANGED <<took, gave, queue, old, sends, sweep, nextBet, backing, refund>>
  BY DEF Confirm, Fail, HandlerOnly, moneyVars, histVars, betHist, engineVars, bmVars, queueVars
<1>3. /\ debit[b] = "PENDING" /\ b \notin old
      /\ handlers[h].step = "confirm" => b \in took
      /\ handlers[h].step = "fail" => b \notin took
  BY <1>1 DEF Inv, Know, HandlerKnows, At, Debiting
<1>4. /\ debit' = debit \/ debit' = Decided(debit, b, to)
      /\ Finish(h) \/ (Goto(h, "place") /\ handlers[h].step = "confirm")
  BY <1>1 DEF Confirm, Fail, At
<1>5. /\ handlers'[h].step \in {"idle", "place"}
      /\ handlers'[h].step = "place" => BetOf(h)' \in took
      /\ \A g \in Handlers \ {h} : handlers'[g] = handlers[g]
  BY <1>1, <1>3, <1>4, GotoFacts, FinishFacts DEF Inv, Types, HandlerSteps
<1>6. debit'[b] \in {"PENDING", to} /\ \A c \in BetIds \ {b} : debit'[c] = debit[c]
  BY <1>1, <1>3, <1>4 DEF Decided, Inv, Types, TypeOK
<1>7. \A g \in Handlers \ {h} : handlers[g].step \in Debiting => BetOf(g) # b /\ BetOf(g) \in BetIds
  BY <1>1, HandlerShape DEF Inv, Types, Know, HandlersApart, BetOf, Debiting, HandlerSteps
<1>8. sweep.step \in Deciding => sweep.bet # b /\ sweep.bet \in BetIds
  BY <1>1, SweepShape DEF Inv, Types, Know, SweepKnows, Deciding, SweepSteps, Busy
<1>9. HandlerKnows' /\ HandlersApart'
  BY <1>2, <1>5, <1>6, <1>7 DEF Inv, Know, HandlerKnows, HandlersApart, At, BetOf, Debiting
<1>10. SweepKnows'
  <2>1. \A c \in BetIds : Busy(c)' => Busy(c)
    BY <1>5 DEF Busy, BetOf
  <2> QED
    BY <1>2, <1>6, <1>8, <2>1 DEF Inv, Know, SweepKnows, SweepAt, Deciding
<1>11. Untouched' /\ LedgerTellsDebit'
  BY <1>1, <1>2, <1>3, <1>6 DEF Inv, Know, Untouched, LedgerTellsDebit
<1> QED
  BY <1>2, <1>9, <1>10, <1>11 DEF Inv, Know, RefundFollowsDebit, Backed, SentOnce

LEMMA RefundKnow ==
  ASSUME Inv, NEW h \in Handlers, Mark(h) \/ Refund(h)
  PROVE  Know'
<1>1. handlers[h].step \in {"mark", "refund"} /\ handlers[h].step \in HandlerSteps
      /\ BetOf(h) \in BetIds
  BY HandlerShape DEF Mark, Refund, At, HandlerSteps, BetOf, Inv, Types
<1>2. /\ refund' = refund \/ refund' = Opened(refund, BetOf(h))
      /\ \/ Finish(h)
         \/ /\ handlers[h].step = "refund"
            /\ Goto(h, "enqueue") \/ Goto(h, "enqueue_untracked")
  BY <1>1 DEF Mark, Refund, OpensRefund, At
<1>3. \A b \in BetIds : refund[b] # "NONE" => refund'[b] # "NONE"
  BY <1>1, <1>2 DEF Opened, Inv, Types, TypeOK
<1>4. handlers[h].step = "refund" => BetOf(h) \in took
  BY DEF Inv, Know, HandlerKnows
<1>5. UNCHANGED <<debit, took, gave, queue, old, sends, sweep, nextBet, backing>>
  BY DEF Mark, Refund, HandlerOnly, moneyVars, histVars, betHist, engineVars, bmVars, queueVars
<1>6. /\ handlers'[h].step \in {"idle", "enqueue", "enqueue_untracked"}
      /\ handlers'[h].step # "idle" => BetOf(h)' \in took
      /\ \A g \in Handlers \ {h} : handlers'[g] = handlers[g]
  BY <1>1, <1>2, <1>4, <1>5, GotoFacts, FinishFacts DEF Inv, Types, HandlerSteps
<1> QED
  BY <1>3, <1>5, <1>6, QuietStep DEF Debiting

\* A handler that is past its debit, and moves what a bet or a refund stands on.
LEMMA PaidStep ==
  ASSUME Inv, NEW h \in Handlers, UNCHANGED <<debit, took, gave, old, sends, sweep, refund>>,
         \A g \in Handlers \ {h} : handlers'[g] = handlers[g],
         handlers'[h].step \in {"idle", "refund"},
         handlers'[h].step = "refund" => BetOf(h)' \in took,
         Backed', \A b \in BetIds : queue'[b] # "no" => b \in took
  PROVE  Know'
<1>1. HandlerKnows' /\ HandlersApart'
  BY DEF Inv, Know, HandlerKnows, HandlersApart, At, BetOf, Debiting
<1>2. SweepKnows'
  <2>1. \A b : Busy(b)' => Busy(b)
    BY DEF Busy, BetOf
  <2> QED
    BY <2>1 DEF Inv, Know, SweepKnows, SweepAt, Deciding
<1> QED
  BY <1>1, <1>2 DEF Inv, Know, Untouched, LedgerTellsDebit, RefundFollowsDebit, SentOnce

LEMMA PlaceKnow ==
  ASSUME Inv, NEW h \in Handlers, PlaceBet(h)
  PROVE  Know'
<1> DEFINE b == BetOf(h)
<1>1. handlers[h].step = "place" /\ handlers[h].step \in HandlerSteps /\ b \in BetIds
  BY HandlerShape DEF PlaceBet, CanPlace, At, HandlerSteps, BetOf, Inv, Types
<1>2. b \in took
  BY <1>1 DEF Inv, Know, HandlerKnows
<1>3. UNCHANGED <<debit, took, gave, old, sends, sweep, refund, queue>>
  BY DEF PlaceBet, entryVars, moneyVars, queueVars
<1>4. /\ handlers'[h].step \in {"idle", "refund"}
      /\ handlers'[h].step = "refund" => BetOf(h)' \in took
      /\ \A g \in Handlers \ {h} : handlers'[g] = handlers[g]
  <2>1. Finish(h) \/ Goto(h, "refund")
    BY DEF PlaceBet
  <2> QED
    BY <1>1, <1>2, <2>1, GotoFacts, FinishFacts DEF Inv, Types, HandlerSteps
<1>5. Backed'
  <2>1. nextBet \in Nat
    BY DEF Inv, Types, TypeOK, Bets!TypeOK
  <2>2. CASE UNCHANGED <<nextBet, backing>>
    BY <1>3, <2>2 DEF Inv, Know, Backed
  <2>3. CASE /\ nextBet' = nextBet + 1
             /\ backing' = [i \in 1..nextBet' |-> IF i = nextBet' THEN b ELSE backing[i]]
    <3>1. \A i \in 1..nextBet' : i = nextBet' \/ i \in 1..nextBet
      BY <2>1, <2>3
    <3> QED
      BY <1>2, <1>3, <2>3, <3>1 DEF Inv, Know, Backed
  <2> QED
    BY <2>2, <2>3 DEF PlaceBet, Bets!PlaceBet, bmVars
<1> QED
  BY <1>3, <1>4, <1>5, PaidStep DEF Inv, Know, RefundFollowsDebit

LEMMA EnqueueKnow ==
  ASSUME Inv, NEW h \in Handlers, Enqueue(h)
  PROVE  Know'
<1>1. handlers[h].step \in {"enqueue", "enqueue_untracked"} /\ BetOf(h) \in BetIds
  BY HandlerShape DEF Enqueue, At, HandlerSteps, BetOf, Inv, Types
<1>2. BetOf(h) \in took
  BY <1>1 DEF Inv, Know, HandlerKnows
<1>3. UNCHANGED <<debit, took, gave, old, sends, sweep, refund, nextBet, backing>>
  BY DEF Enqueue, entryVars, moneyVars, engineVars, bmVars, histVars, betHist
<1>4. /\ handlers'[h].step = "idle"
      /\ \A g \in Handlers \ {h} : handlers'[g] = handlers[g]
  BY FinishFacts DEF Enqueue, Inv, Types
<1>5. \A b \in BetIds \ {BetOf(h)} : queue'[b] = queue[b]
  <2>1. \/ queue' = queue
        \/ \E kind \in {"tracked", "untracked"} :
             queue' = [queue EXCEPT ![BetOf(h)] = IF @ = "no" THEN kind ELSE @]
    BY DEF Enqueue
  <2>2. queue \in [BetIds -> {"no", "tracked", "untracked"}]
    BY DEF Inv, Types, TypeOK
  <2> QED
    BY <2>1, <2>2
<1>6. Backed'
  BY <1>3 DEF Inv, Know, Backed
<1> QED
  BY <1>2, <1>3, <1>4, <1>5, <1>6, PaidStep DEF Inv, Know, RefundFollowsDebit

\* A step that is at work on a debit no handler is making: it may be taken, or
\* decided as the operator did.
LEMMA AloneStep ==
  ASSUME Inv, UNCHANGED <<handlers, queue, gave, old, sends, nextBet, backing>>,
         NEW b \in BetIds, debit[b] = "PENDING", ~Busy(b),
         took' \in {took, took \cup {b}},
         \A c \in BetIds \ {b} : debit'[c] = debit[c],
         \/ debit'[b] = "PENDING"
         \/ debit'[b] = "CONFIRMED" /\ b \in took'
         \/ debit'[b] = "FAILED" /\ b \notin took',
         SweepKnows'
  PROVE  Know'
<1>1. \A h \in Handlers : handlers[h].step \in Debiting => BetOf(h) # b /\ BetOf(h) \in BetIds
  BY HandlerShape DEF Inv, Types, Busy, BetOf, Debiting, HandlerSteps
<1>2. HandlerKnows' /\ HandlersApart'
  BY <1>1 DEF Inv, Know, HandlerKnows, HandlersApart, At, BetOf, Debiting
<1>3. Untouched' /\ LedgerTellsDebit'
  BY DEF Inv, Know, Untouched, LedgerTellsDebit
<1> QED
  BY <1>2, <1>3 DEF Inv, Know, RefundFollowsDebit, Backed, SentOnce

\* A step that leaves the debits and the handlers alone, and returns or enqueues
\* nothing but what was taken.
LEMMA GivesStep ==
  ASSUME Inv, UNCHANGED <<debit, took, handlers, old, sends, nextBet, backing>>,
         gave' \subseteq took, \A b \in BetIds : queue'[b] # "no" => b \in took,
         SweepKnows'
  PROVE  Know'
<1>1. HandlerKnows' /\ HandlersApart'
  BY DEF Inv, Know, HandlerKnows, HandlersApart, At, BetOf, Debiting
<1> QED
  BY <1>1 DEF Inv, Know, Untouched, LedgerTellsDebit, RefundFollowsDebit, Backed, SentOnce

LEMMA SweepTakesKnow ==
  ASSUME Inv, NEW b \in BetIds, SweepDebit(b) \/ SweepMoney(b)
  PROVE  Know'
<1>1. UNCHANGED <<debit, took, gave, queue, refund, handlers, old, sends, nextBet, backing>>
  BY DEF SweepDebit, SweepMoney, SweepOnly, moneyVars, queueVars, histVars, betHist, engineVars, bmVars
<1>2. Busy(b)' <=> Busy(b)
  BY <1>1 DEF Busy, BetOf
<1>3. SweepKnows'
  <2>1. CASE SweepDebit(b)
    <3>1. sweep'.step = "send" /\ sweep'.bet = b /\ debit[b] = "PENDING" /\ ~Busy(b)
      BY <2>1, TargetFacts DEF SweepDebit, Inv, Types, SweepSteps
    <3> QED
      BY <1>1, <1>2, <3>1 DEF SweepKnows, SweepAt, Deciding
  <2>2. CASE SweepMoney(b)
    <3>1. \/ MoneyStep(b) = "send_refund" /\ debit[b] = "CONFIRMED"
          \/ MoneyStep(b) = "fail_refund"
      BY <2>2, Zenon DEF SweepMoney, MoneyStep
    <3>2. /\ sweep'.step = MoneyStep(b) /\ sweep'.bet = b
      BY <2>2, <3>1, TargetFacts DEF SweepMoney, Inv, Types, SweepSteps
    <3>3. debit[b] = "CONFIRMED" => b \in took
      BY DEF Inv, Know, LedgerTellsDebit
    <3> QED
      BY <1>1, <3>1, <3>2, <3>3 DEF SweepKnows, SweepAt, Deciding
  <2> QED
    BY <2>1, <2>2
<1> QED
  BY <1>1, <1>3, GivesStep DEF Inv, Know, RefundFollowsDebit

LEMMA SweepSendKnow ==
  ASSUME Inv, SweepSend
  PROVE  Know'
<1> DEFINE b == sweep.bet
<1>1. sweep.step = "send" /\ sweep.step \in SweepSteps /\ b \in BetIds
  BY SweepShape DEF SweepSend, SweepAt, SweepSteps, Inv, Types
<1>2. UNCHANGED <<debit, gave, queue, refund, handlers, old, sends, nextBet, backing>>
  BY DEF SweepSend, SweepOnly, queueVars, histVars, betHist, engineVars, bmVars
<1>3. debit[b] = "PENDING" /\ ~Busy(b)
  BY <1>1 DEF Inv, Know, SweepKnows, Deciding
<1>4. \A c : Busy(c)' <=> Busy(c)
  BY <1>2 DEF Busy, BetOf
<1>5. /\ took' \in {took, took \cup {b}}
      /\ \/ /\ b \in took'
            /\ \/ SweepGoto("mark")
               \/ SweepGoto("confirm") /\ b \notin old
         \/ SweepGoto("fail") /\ b \notin took'
         \/ SweepEnds
  BY DEF SweepSend, Asked, OwesRefund
<1>6. \/ sweep'.step = "mark" /\ sweep'.bet = b /\ b \in took'
      \/ sweep'.step = "confirm" /\ sweep'.bet = b /\ b \in took' /\ b \notin old
      \/ sweep'.step = "fail" /\ sweep'.bet = b /\ b \notin took'
      \/ sweep'.step = "idle"
  BY <1>1, <1>5, SweepGotoFacts, SweepEndsFacts DEF Inv, Types, SweepSteps
<1>7. SweepKnows'
  BY <1>2, <1>3, <1>4, <1>6 DEF SweepKnows, SweepAt, Deciding
<1> QED
  BY <1>1, <1>2, <1>3, <1>5, <1>7, AloneStep

LEMMA SweepMarkKnow ==
  ASSUME Inv, SweepMark
  PROVE  Know'
<1> DEFINE b == sweep.bet
<1>1. sweep.step = "mark" /\ b \in BetIds
  BY SweepShape DEF SweepMark, SweepAt, SweepSteps, Inv, Types
<1>2. UNCHANGED <<debit, took, gave, queue, handlers, old, sends, nextBet, backing>>
  BY DEF SweepMark, SweepOnly, moneyVars, queueVars, histVars, betHist, engineVars, bmVars
<1>3. debit[b] = "PENDING" /\ ~Busy(b) /\ b \in took
  BY <1>1 DEF Inv, Know, SweepKnows, Deciding
<1>4. \A c : Busy(c)' <=> Busy(c)
  BY <1>2 DEF Busy, BetOf
<1>5. OpensRefund(b) => refund'[b] # "NONE"
  BY <1>1 DEF OpensRefund, Opened, Inv, Types, TypeOK
<1>6. \/ sweep'.step = "confirm" /\ sweep'.bet = b /\ refund'[b] # "NONE"
      \/ sweep'.step = "idle"
  BY <1>5, SweepEndsFacts DEF SweepMark
<1>7. SweepKnows'
  BY <1>2, <1>3, <1>4, <1>6 DEF SweepKnows, SweepAt, Deciding
<1> QED
  BY <1>2, <1>7, GivesStep DEF Inv, Know, RefundFollowsDebit

LEMMA SweepDecideKnow ==
  ASSUME Inv, SweepConfirm \/ SweepFail
  PROVE  Know'
<1> DEFINE b == sweep.bet
           to == IF sweep.step = "confirm" THEN "CONFIRMED" ELSE "FAILED"
<1>1. sweep.step \in {"confirm", "fail"} /\ sweep.step \in SweepSteps /\ b \in BetIds
  BY SweepShape DEF SweepConfirm, SweepFail, SweepAt, SweepSteps, Inv, Types
<1>2. UNCHANGED <<took, gave, queue, refund, handlers, old, sends, nextBet, backing>>
  BY DEF SweepConfirm, SweepFail, SweepOnly, moneyVars, queueVars, histVars, betHist, engineVars, bmVars
<1>3. /\ debit[b] = "PENDING" /\ ~Busy(b)
      /\ sweep.step = "confirm" => b \in took
      /\ sweep.step = "fail" => b \notin took
  BY <1>1 DEF Inv, Know, SweepKnows, SweepAt, Deciding
<1>4. /\ debit' \in {debit, Decided(debit, b, to)}
      /\ \/ SweepGoto("send_refund") /\ sweep.step = "confirm"
         \/ SweepGoto("fail_refund")
         \/ SweepEnds
  BY DEF SweepConfirm, SweepFail, SweepAt
<1>5. debit'[b] \in {"PENDING", to} /\ \A c \in BetIds \ {b} : debit'[c] = debit[c]
  BY <1>1, <1>3, <1>4 DEF Decided, Inv, Types, TypeOK
<1>6. \/ sweep'.step = "send_refund" /\ sweep'.bet = b /\ b \in took
      \/ sweep'.step \in {"fail_refund", "idle"}
  BY <1>1, <1>3, <1>4, SweepGotoFacts, SweepEndsFacts DEF Inv, Types, SweepSteps
<1>7. SweepKnows'
  BY <1>2, <1>6 DEF SweepKnows, SweepAt, Deciding
<1>8. \/ debit'[b] = "PENDING"
      \/ debit'[b] = "CONFIRMED" /\ b \in took'
      \/ debit'[b] = "FAILED" /\ b \notin took'
  BY <1>1, <1>2, <1>3, <1>5
<1> QED
  BY <1>1, <1>2, <1>3, <1>5, <1>7, <1>8, AloneStep

LEMMA SweepGivesKnow ==
  ASSUME Inv, SweepSendRefund \/ SweepResolveRefund
  PROVE  Know'
<1>1. /\ sweep.step \in {"send_refund", "confirm_refund", "fail_refund"}
      /\ sweep.step \in SweepSteps /\ sweep.bet \in BetIds
  BY SweepShape DEF SweepSendRefund, SweepResolveRefund, SweepAt, SweepSteps, Inv, Types
<1>2. UNCHANGED <<debit, took, queue, handlers, old, sends, nextBet, backing>>
  BY DEF SweepSendRefund, SweepResolveRefund, SweepOnly, moneyVars, queueVars, histVars, betHist,
         engineVars, bmVars
<1>3. sweep.step = "send_refund" => sweep.bet \in took
  BY DEF Inv, Know, SweepKnows
<1>4. /\ gave' \in {gave, gave \cup {sweep.bet}}
      /\ gave' # gave => sweep.step = "send_refund"
      /\ \/ SweepGoto("confirm_refund") /\ sweep.step = "send_refund"
         \/ SweepGoto("fail_refund")
         \/ SweepEnds
  BY DEF SweepSendRefund, SweepResolveRefund, SweepAt, Asked, moneyVars
<1>5. \/ sweep'.step = "confirm_refund" /\ sweep'.bet \in took
      \/ sweep'.step \in {"fail_refund", "idle"}
  BY <1>1, <1>3, <1>4, SweepGotoFacts, SweepEndsFacts DEF Inv, Types, SweepSteps
<1>6. SweepKnows'
  BY <1>2, <1>5 DEF SweepKnows, SweepAt, Deciding
<1> QED
  BY <1>2, <1>3, <1>4, <1>6, GivesStep DEF Inv, Know, RefundFollowsDebit

LEMMA OtherKnow ==
  ASSUME Inv, \/ Engine \/ Cashout \/ UNCHANGED vars \/ Restart
              \/ \E b \in BetIds : Deliver(b)
  PROVE  Know'
<1> USE DEF Inv
<1>1. CASE Engine \/ Cashout \/ UNCHANGED vars
  <2>1. nextBet' = nextBet
    BY <1>1 DEF Engine, CreateRound, Cashout, vars, engineVars, bmVars, Bets!OpenRound,
       Bets!CloseBetting, Bets!StartRound, Bets!Crash, Bets!ResetRound, Bets!Cashout
  <2>2. UNCHANGED <<entryVars, moneyVars, queueVars, handlers, sweep, old, histVars>>
    BY <1>1 DEF Engine, CreateRound, EngineStep, Cashout, vars
  <2>3. UNCHANGED <<debit, refund, took, gave, queue, backing, sends, handlers, sweep, old>>
    BY <2>2 DEF entryVars, moneyVars, queueVars, histVars, betHist
  <2>4. \A c : Busy(c)' <=> Busy(c)
    BY <2>3 DEF Busy, BetOf
  <2>5. SweepKnows'
    BY <2>3, <2>4 DEF Know, SweepKnows, SweepAt
  <2> QED
    BY <2>1, <2>3, <2>5, GivesStep DEF Know, RefundFollowsDebit
<1>2. CASE Restart
  <2>1. UNCHANGED <<debit, refund, took, gave, queue, sends>>
    BY <1>2 DEF Restart, entryVars, moneyVars, queueVars
  <2>2. /\ handlers' = [h \in Handlers |-> Idle] /\ sweep' = Idle
        /\ old' = {b \in BetIds : debit[b] # "NONE"} /\ nextBet' = 0
    BY <1>2 DEF Restart
  <2>3. HandlerKnows' /\ HandlersApart' /\ SweepKnows'
    BY <2>2 DEF HandlerKnows, HandlersApart, SweepKnows, SweepAt, At, BetOf, Idle, Debiting, Deciding
  <2> QED
    BY <2>1, <2>2, <2>3
    DEF Know, Untouched, LedgerTellsDebit, RefundFollowsDebit, Backed, SentOnce
<1>3. ASSUME NEW b \in BetIds, Deliver(b) PROVE Know'
  <2>1. UNCHANGED <<debit, took, handlers, old, sends, nextBet, backing, sweep>>
    BY <1>3 DEF Deliver, engineVars, bmVars, histVars, betHist
  <2>2. b \in took /\ gave' \in {gave, gave \cup {b}}
    BY <1>3 DEF Deliver, Asked, Know, RefundFollowsDebit
  <2>3. \A c \in BetIds : queue'[c] # "no" => queue[c] # "no"
    BY <1>3 DEF Deliver, Types, TypeOK
  <2>4. refund' = refund \/ \E to \in Decisions : refund' = Decided(refund, b, to)
    BY <1>3 DEF Deliver, Decisions
  <2>5. \A c \in BetIds : refund[c] # "NONE" => refund'[c] # "NONE"
    BY <2>4 DEF Decided, Decisions, Types, TypeOK
  <2>6. \A c : Busy(c)' <=> Busy(c)
    BY <2>1 DEF Busy, BetOf
  <2>7. sweep.step = "confirm" => sweep.bet \in BetIds
    BY SweepShape DEF Types, SweepSteps
  <2>8. SweepKnows'
    BY <2>1, <2>5, <2>6, <2>7 DEF Know, SweepKnows, SweepAt
  <2> QED
    BY <2>1, <2>2, <2>3, <2>8, GivesStep DEF Know, RefundFollowsDebit
<1> QED
  BY <1>1, <1>2, <1>3

LEMMA InvKept == Inv /\ [Next]_vars => Inv'
<1> SUFFICES ASSUME Inv, [Next]_vars PROVE Inv'
  OBVIOUS
<1>1. Types'
  BY TypesKept DEF Inv
<1>2. ASSUME NEW h \in Handlers, HandlerStep(h) PROVE Know'
  <2>1. ASSUME NEW b \in BetIds, Receive(h, b) PROVE Know'
    BY <2>1, ReceiveKnow
  <2>2. CASE Begin(h)
    BY <2>2, BeginKnow
  <2>3. CASE Wait(h) \/ CheckMarker(h)
    BY <2>3, WaitKnow
  <2>4. CASE Debit(h)
    BY <2>4, DebitKnow
  <2>5. CASE Confirm(h) \/ Fail(h)
    BY <2>5, DecideKnow
  <2>6. CASE Mark(h) \/ Refund(h)
    BY <2>6, RefundKnow
  <2>7. CASE PlaceBet(h)
    BY <2>7, PlaceKnow
  <2>8. CASE Enqueue(h)
    BY <2>8, EnqueueKnow
  <2> QED
    BY <1>2, <2>1, <2>2, <2>3, <2>4, <2>5, <2>6, <2>7, <2>8 DEF HandlerStep
<1>3. ASSUME SweepStep PROVE Know'
  <2>1. ASSUME NEW b \in BetIds, SweepDebit(b) \/ SweepMoney(b) PROVE Know'
    BY <2>1, SweepTakesKnow
  <2>2. CASE SweepSend
    BY <2>2, SweepSendKnow
  <2>3. CASE SweepMark
    BY <2>3, SweepMarkKnow
  <2>4. CASE SweepConfirm \/ SweepFail
    BY <2>4, SweepDecideKnow
  <2>5. CASE SweepSendRefund \/ SweepResolveRefund
    BY <2>5, SweepGivesKnow
  <2> QED
    BY <1>3, <2>1, <2>2, <2>3, <2>4, <2>5 DEF SweepStep
<1>4. Know'
  BY <1>2, <1>3, OtherKnow DEF Next
<1> QED
  BY <1>1, <1>4 DEF Inv

LEMMA Invariance == Spec => []Inv
<1>1. Init => Inv
  BY InitTypes, InitKnow DEF Inv
<1> QED
  BY <1>1, InvKept, PTL DEF Spec

\* No retry, restart or error of the database makes the handlers ask the
\* operator twice for the stake of a bet id.
THEOREM StakeSentOnce == Spec => []SentOnce
<1>1. Inv => SentOnce
  BY DEF Inv, Know
<1> QED
  BY <1>1, Invariance, PTL

\* Every bet the engine holds is backed by a stake the operator took.
THEOREM BetsArePaid == Spec => []BetIsPaid
<1>1. Inv => BetIsPaid
  <2> SUFFICES ASSUME Inv, NEW i \in DOMAIN bets PROVE backing[i] \in took
    BY DEF BetIsPaid
  <2>1. i \in 1..nextBet
    BY DEF Inv, Types, TypeOK, Bets!TypeOK
  <2> QED
    BY <2>1 DEF Inv, Know, Backed
<1> QED
  BY <1>1, Invariance, PTL

\* What the ledger decides of a debit is what the operator did with it.
THEOREM LedgerTells == Spec => []LedgerTellsDebit
<1>1. Inv => LedgerTellsDebit
  BY DEF Inv, Know
<1> QED
  BY <1>1, Invariance, PTL

\* Nothing is given back, or sent to be given back, that was not taken.
THEOREM RefundsFollow == Spec => []RefundFollowsDebit
<1>1. Inv => RefundFollowsDebit
  BY DEF Inv, Know
<1> QED
  BY <1>1, Invariance, PTL

-----------------------------------------------------------------------------
(* The debits of a process that died.                                      *)

\* A debit left behind by a process that died is confirmed only once its refund
\* is on record.
THEOREM LateConfirmsRefund == Spec => LateConfirmRefunds
<1>1. Inv /\ [Next]_vars =>
        [\A b \in old : debit[b] = "PENDING" /\ debit'[b] = "CONFIRMED" => refund[b] # "NONE"]_vars
  <2> SUFFICES ASSUME Inv, Next, NEW b \in old, debit[b] = "PENDING", debit'[b] = "CONFIRMED"
               PROVE  refund[b] # "NONE"
    OBVIOUS
  <2>1. b \in BetIds
    BY DEF Inv, Types, TypeOK
  <2>2. \A c \in BetIds : Opened(debit, c)[b] # "CONFIRMED"
    BY <2>1 DEF Opened, Inv, Types, TypeOK
  <2>3. \A c \in BetIds : Decided(debit, c, "FAILED")[b] # "CONFIRMED"
    BY <2>1 DEF Decided, Inv, Types, TypeOK
  <2>4. \A c \in BetIds \ {b} : Decided(debit, c, "CONFIRMED")[b] # "CONFIRMED"
    BY <2>1 DEF Decided, Inv, Types, TypeOK
  <2>5. ASSUME NEW h \in Handlers, HandlerStep(h) PROVE FALSE
    <3>1. CASE Begin(h)
      <4>1. BetOf(h) \in BetIds /\ debit' \in {debit, Opened(debit, BetOf(h))}
        BY <3>1, HandlerShape DEF Begin, At, HandlerSteps, BetOf, Inv, Types
      <4> QED
        BY <2>2, <4>1
    <3>2. CASE Confirm(h)
      <4>1. BetOf(h) \in BetIds /\ BetOf(h) \notin old
        BY <3>2, HandlerShape
        DEF Confirm, At, HandlerSteps, BetOf, Inv, Types, Know, HandlerKnows, Debiting
      <4>2. debit' \in {debit, Decided(debit, BetOf(h), "CONFIRMED")}
        BY <3>2 DEF Confirm
      <4> QED
        BY <2>4, <4>1, <4>2
    <3>3. CASE Fail(h)
      <4>1. BetOf(h) \in BetIds
        BY <3>3, HandlerShape DEF Fail, At, HandlerSteps, BetOf, Inv, Types
      <4>2. debit' \in {debit, Decided(debit, BetOf(h), "FAILED")}
        BY <3>3 DEF Fail
      <4> QED
        BY <2>3, <4>1, <4>2
    <3>4. CASE ~(Begin(h) \/ Confirm(h) \/ Fail(h))
      BY <2>5, <3>4 DEF HandlerStep, Receive, Wait, CheckMarker, Debit, Mark, PlaceBet, Refund,
         Enqueue, entryVars
    <3> QED
      BY <3>1, <3>2, <3>3, <3>4
  <2>6. CASE SweepConfirm
    <3>1. sweep.bet \in BetIds /\ (sweep.bet \in old => refund[sweep.bet] # "NONE")
      BY <2>6, SweepShape DEF SweepConfirm, SweepAt, SweepSteps, Inv, Types, Know, SweepKnows
    <3>2. debit' \in {debit, Decided(debit, sweep.bet, "CONFIRMED")}
      BY <2>6 DEF SweepConfirm
    <3> QED
      BY <2>4, <3>1, <3>2
  <2>7. CASE SweepFail
    <3>1. sweep.bet \in BetIds
      BY <2>7, SweepShape DEF SweepFail, SweepAt, SweepSteps, Inv, Types
    <3>2. debit' \in {debit, Decided(debit, sweep.bet, "FAILED")}
      BY <2>7 DEF SweepFail
    <3> QED
      BY <2>3, <3>1, <3>2
  <2>8. ASSUME SweepStep, ~SweepConfirm, ~SweepFail PROVE FALSE
    BY <2>8 DEF SweepStep, SweepDebit, SweepMoney, SweepSend, SweepMark, SweepSendRefund,
       SweepResolveRefund
  <2>9. ASSUME Engine \/ Cashout \/ Restart \/ \E c \in BetIds : Deliver(c) PROVE FALSE
    BY <2>9 DEF Engine, CreateRound, EngineStep, Cashout, Restart, Deliver, entryVars
  <2> QED
    BY <2>5, <2>6, <2>7, <2>8, <2>9 DEF Next
<1> QED
  BY <1>1, Invariance, PTL DEF Spec, LateConfirmRefunds

-----------------------------------------------------------------------------
(* The purse.                                                              *)

Money == [b \in BetIds |-> IF b \in gave THEN "back"
                           ELSE IF b \in took THEN "operator" ELSE "player"]

LEMMA PurseStutters ==
  UNCHANGED <<debit, took, gave>> => [Purse!PurseNext]_(Purse!purse)
<1> SUFFICES ASSUME UNCHANGED <<debit, took, gave>> PROVE UNCHANGED <<Money, debit>>
  BY DEF Purse!purse, Money
<1> QED
  BY DEF Money

\* A debit that is announced, or decided as the operator did.
LEMMA PurseSays ==
  ASSUME Inv, UNCHANGED <<took, gave>>, NEW b \in BetIds,
         \/ debit' = debit
         \/ debit[b] = "NONE" /\ debit' = Opened(debit, b)
         \/ b \in took /\ debit' = Decided(debit, b, "CONFIRMED")
         \/ b \notin took /\ debit' = Decided(debit, b, "FAILED")
  PROVE  [Purse!PurseNext]_(Purse!purse)
<1>1. Money' = Money
  BY DEF Money
<1>2. CASE debit' = debit
  BY <1>2, PurseStutters
<1>3. CASE debit[b] = "NONE" /\ debit' = Opened(debit, b)
  <2>1. Purse!Announce(b)
    BY <1>1, <1>3 DEF Purse!Announce, Purse!Says, Opened, Money
  <2> QED
    BY <2>1 DEF Purse!PurseNext
<1>4. CASE debit[b] = "PENDING" /\ b \in took /\ debit' = [debit EXCEPT ![b] = "CONFIRMED"]
  <2>1. Money[b] # "player"
    BY <1>4 DEF Money
  <2>2. Purse!Accept(b)
    BY <1>1, <1>4, <2>1 DEF Purse!Accept, Purse!Says, Money
  <2> QED
    BY <2>2 DEF Purse!PurseNext
<1>5. CASE debit[b] = "PENDING" /\ b \notin took /\ debit' = [debit EXCEPT ![b] = "FAILED"]
  <2>1. Money[b] = "player"
    BY <1>5 DEF Money, Inv, Know, RefundFollowsDebit
  <2>2. Purse!Refuse(b)
    BY <1>1, <1>5, <2>1 DEF Purse!Refuse, Purse!Says, Money
  <2> QED
    BY <2>2 DEF Purse!PurseNext
<1> QED
  BY <1>2, <1>3, <1>4, <1>5 DEF Decided

\* A stake that is taken.
LEMMA PurseTakes ==
  ASSUME Inv, UNCHANGED <<debit, gave>>, NEW b \in BetIds, debit[b] = "PENDING",
         took' \in {took, took \cup {b}}
  PROVE  [Purse!PurseNext]_(Purse!purse)
<1>1. CASE took' = took
  BY <1>1, PurseStutters
<1>2. CASE b \notin took /\ took' = took \cup {b}
  <2>1. b \notin gave
    BY <1>2 DEF Inv, Know, RefundFollowsDebit
  <2>2. Money[b] = "player" /\ Money' = [Money EXCEPT ![b] = "operator"]
    BY <1>2, <2>1 DEF Money
  <2>3. Purse!Take(b)
    BY <2>2 DEF Purse!Take, Purse!Moves, Money
  <2> QED
    BY <2>3 DEF Purse!PurseNext
<1> QED
  BY <1>1, <1>2

\* A stake that comes back.
LEMMA PurseReturns ==
  ASSUME UNCHANGED <<debit, took>>, NEW b \in BetIds, b \in took,
         gave' \in {gave, gave \cup {b}}
  PROVE  [Purse!PurseNext]_(Purse!purse)
<1>1. CASE gave' = gave
  BY <1>1, PurseStutters
<1>2. CASE b \notin gave /\ gave' = gave \cup {b}
  <2>1. Money[b] = "operator" /\ Money' = [Money EXCEPT ![b] = "back"]
    BY <1>2 DEF Money
  <2>2. Purse!Return(b)
    BY <2>1 DEF Purse!Return, Purse!Moves, Money
  <2> QED
    BY <2>2 DEF Purse!PurseNext
<1> QED
  BY <1>1, <1>2

LEMMA HandlerPurse ==
  ASSUME Inv, NEW h \in Handlers, HandlerStep(h)
  PROVE  [Purse!PurseNext]_(Purse!purse)
<1> DEFINE b == BetOf(h)
<1>1. handlers[h].step \in HandlerSteps => b \in BetIds
  BY HandlerShape DEF BetOf, Inv, Types
<1>2. CASE Begin(h)
  <2>1. b \in BetIds /\ UNCHANGED <<took, gave>>
    BY <1>1, <1>2 DEF Begin, At, HandlerSteps, moneyVars
  <2>2. debit' = debit \/ (debit[b] = "NONE" /\ debit' = Opened(debit, b))
    BY <1>2 DEF Begin
  <2> QED
    BY <2>1, <2>2, PurseSays
<1>3. CASE Confirm(h)
  <2>1. b \in BetIds /\ UNCHANGED <<took, gave>> /\ b \in took
    BY <1>1, <1>3 DEF Confirm, At, HandlerSteps, moneyVars, Inv, Know, HandlerKnows
  <2>2. debit' = debit \/ debit' = Decided(debit, b, "CONFIRMED")
    BY <1>3 DEF Confirm
  <2> QED
    BY <2>1, <2>2, PurseSays
<1>4. CASE Fail(h)
  <2>1. b \in BetIds /\ UNCHANGED <<took, gave>> /\ b \notin took
    BY <1>1, <1>4 DEF Fail, At, HandlerSteps, moneyVars, Inv, Know, HandlerKnows
  <2>2. debit' = debit \/ debit' = Decided(debit, b, "FAILED")
    BY <1>4 DEF Fail
  <2> QED
    BY <2>1, <2>2, PurseSays
<1>5. CASE Debit(h)
  <2>1. b \in BetIds /\ UNCHANGED <<debit, gave>> /\ debit[b] = "PENDING"
    BY <1>1, <1>5 DEF Debit, At, HandlerSteps, entryVars, Inv, Know, HandlerKnows, Debiting
  <2>2. took' \in {took, took \cup {b}}
    BY <1>5 DEF Debit, Asked
  <2> QED
    BY <2>1, <2>2, PurseTakes
<1>6. CASE ~(Begin(h) \/ Confirm(h) \/ Fail(h) \/ Debit(h))
  <2>1. UNCHANGED <<debit, took, gave>>
    BY <1>6 DEF HandlerStep, Receive, Wait, CheckMarker, Mark, PlaceBet, Refund, Enqueue,
       entryVars, moneyVars
  <2> QED
    BY <2>1, PurseStutters
<1> QED
  BY <1>2, <1>3, <1>4, <1>5, <1>6

LEMMA SweepPurse ==
  ASSUME Inv, SweepStep
  PROVE  [Purse!PurseNext]_(Purse!purse)
<1> DEFINE b == sweep.bet
<1>1. sweep.step \in SweepSteps => b \in BetIds
  BY SweepShape DEF Inv, Types
<1>2. CASE SweepConfirm
  <2>1. b \in BetIds /\ UNCHANGED <<took, gave>> /\ b \in took
    BY <1>1, <1>2 DEF SweepConfirm, SweepAt, SweepSteps, moneyVars, Inv, Know, SweepKnows
  <2>2. debit' = debit \/ debit' = Decided(debit, b, "CONFIRMED")
    BY <1>2 DEF SweepConfirm
  <2> QED
    BY <2>1, <2>2, PurseSays
<1>3. CASE SweepFail
  <2>1. b \in BetIds /\ UNCHANGED <<took, gave>> /\ b \notin took
    BY <1>1, <1>3 DEF SweepFail, SweepAt, SweepSteps, moneyVars, Inv, Know, SweepKnows
  <2>2. debit' = debit \/ debit' = Decided(debit, b, "FAILED")
    BY <1>3 DEF SweepFail
  <2> QED
    BY <2>1, <2>2, PurseSays
<1>4. CASE SweepSend
  <2>1. b \in BetIds /\ UNCHANGED <<debit, gave>> /\ debit[b] = "PENDING"
    BY <1>1, <1>4 DEF SweepSend, SweepAt, SweepSteps, Inv, Know, SweepKnows, Deciding
  <2>2. took' \in {took, took \cup {b}}
    BY <1>4 DEF SweepSend, Asked
  <2> QED
    BY <2>1, <2>2, PurseTakes
<1>5. CASE SweepSendRefund
  <2>1. b \in BetIds /\ UNCHANGED <<debit, took>> /\ b \in took
    BY <1>1, <1>5 DEF SweepSendRefund, SweepAt, SweepSteps, Inv, Know, SweepKnows
  <2>2. gave' \in {gave, gave \cup {b}}
    BY <1>5 DEF SweepSendRefund, Asked
  <2> QED
    BY <2>1, <2>2, PurseReturns
<1>6. CASE ~(SweepConfirm \/ SweepFail \/ SweepSend \/ SweepSendRefund)
  <2>1. UNCHANGED <<debit, took, gave>>
    BY <1>6 DEF SweepStep, SweepDebit, SweepMoney, SweepMark, SweepResolveRefund, moneyVars
  <2> QED
    BY <2>1, PurseStutters
<1> QED
  BY <1>2, <1>3, <1>4, <1>5, <1>6

LEMMA StepPurse == Inv /\ [Next]_vars => [Purse!PurseNext]_(Purse!purse)
<1> SUFFICES ASSUME Inv, [Next]_vars PROVE [Purse!PurseNext]_(Purse!purse)
  OBVIOUS
<1>1. ASSUME NEW b \in BetIds, Deliver(b) PROVE [Purse!PurseNext]_(Purse!purse)
  <2>1. UNCHANGED <<debit, took>> /\ b \in took /\ gave' \in {gave, gave \cup {b}}
    BY <1>1 DEF Deliver, Asked, Inv, Know, RefundFollowsDebit
  <2> QED
    BY <2>1, PurseReturns
<1>2. ASSUME Engine \/ Cashout \/ Restart \/ UNCHANGED vars
      PROVE  [Purse!PurseNext]_(Purse!purse)
  <2>1. UNCHANGED <<debit, took, gave>>
    BY <1>2 DEF Engine, CreateRound, EngineStep, Cashout, Restart, vars, entryVars, moneyVars
  <2> QED
    BY <2>1, PurseStutters
<1> QED
  BY <1>1, <1>2, HandlerPurse, SweepPurse DEF Next

\* Handlers, sweeper and queue implement the purse: a stake is taken once, after
\* its debit was announced and before it is decided, comes back only if it was
\* taken, and the word of the ledger is final and true.
THEOREM StakesImplementPurse == Spec => ImplementsPurse
<1>1. Init => Purse!PurseInit
  BY DEF Init, Purse!PurseInit
<1> QED
  BY <1>1, StepPurse, Invariance, PTL DEF Spec, ImplementsPurse, Purse!PurseSpec

-----------------------------------------------------------------------------
(* A debit backs one bet at a time.                                        *)

\* Bets are placed at one stage of the engine and settled at another, so that
\* the panel of a bet is not freed while bets are placed.
Window ==
  /\ stage \in {"create", "open"} => DOMAIN bets = {}
  /\ bettingOpen => stage = "close"
  /\ running => stage = "crash"
  /\ stage = "close" => \A i \in DOMAIN bets : bets[i].state = "PENDING"

Seated == \A i \in DOMAIN bets : bets[i].panel = PanelOf[backing[i]]
SeatsApart == \A i, j \in DOMAIN bets : bets[i].panel = bets[j].panel => i = j

Seats == Window /\ Seated /\ SeatsApart

\* A step after which the same bets are on the same panels.
LEMMA SameSeats ==
  ASSUME Seats, DOMAIN bets' = DOMAIN bets, UNCHANGED backing,
         \A i \in DOMAIN bets : bets'[i].panel = bets[i].panel
  PROVE  Seated' /\ SeatsApart'
BY DEF Seats, Seated, SeatsApart

LEMMA QuietSeats ==
  ASSUME Seats, UNCHANGED <<engineVars, backing>>
  PROVE  Seats'
BY DEF Seats, Window, Seated, SeatsApart, engineVars, bmVars

LEMMA EngineSeats ==
  ASSUME Seats, Engine
  PROVE  Seats'
<1>1. UNCHANGED backing
  BY DEF Engine, CreateRound, EngineStep, histVars, betHist
<1>2. CASE EngineStep("reset", "create") /\ Bets!ResetRound
  <2>1. DOMAIN bets' = {} /\ ~bettingOpen' /\ ~running' /\ stage' = "create"
    BY <1>2 DEF Bets!ResetRound, EngineStep
  <2> QED
    BY <2>1 DEF Seats, Window, Seated, SeatsApart
<1>3. CASE EngineStep("crash", "reset") /\ Bets!Crash
  <2>1. /\ DOMAIN bets' = DOMAIN bets
        /\ \A i \in DOMAIN bets : bets'[i].panel = bets[i].panel
    BY <1>3 DEF Bets!Crash, Bets!Settled
  <2>2. ~running' /\ ~bettingOpen' /\ stage' = "reset"
    BY <1>3 DEF Bets!Crash, EngineStep, Seats, Window
  <2> QED
    BY <1>1, <2>1, <2>2, SameSeats DEF Seats, Window
<1>4. CASE UNCHANGED bets
  <2>1. Window'
    BY <1>4 DEF Engine, CreateRound, EngineStep, Seats, Window, bmVars, Bets!OpenRound,
       Bets!CloseBetting, Bets!StartRound, Bets!CanStartRound, Bets!Crash, Bets!ResetRound
  <2> QED
    BY <1>1, <1>4, <2>1 DEF Seats, Seated, SeatsApart
<1> QED
  BY <1>2, <1>3, <1>4
  DEF Engine, CreateRound, bmVars, Bets!OpenRound, Bets!CloseBetting, Bets!StartRound

LEMMA CashoutSeats ==
  ASSUME Seats, Cashout
  PROVE  Seats'
<1>1. running /\ UNCHANGED <<stage, bettingOpen, running, backing>>
  BY DEF Cashout, Bets!Cashout, Bets!CanCashout, histVars, betHist
<1>2. /\ DOMAIN bets' = DOMAIN bets
      /\ \A i \in DOMAIN bets : bets'[i].panel = bets[i].panel
  BY DEF Cashout, Bets!Cashout, Bets!Settled
<1>3. Window'
  BY <1>1 DEF Seats, Window
<1> QED
  BY <1>1, <1>2, <1>3, SameSeats DEF Seats

\* While betting is open a panel without a pending bet has no bet.
LEMMA FreePanel ==
  ASSUME Inv, Seats, NEW b \in BetIds,
         Bets!PlaceBetResult(Player, PanelOf[b]) = "OK"
  PROVE  \A i \in DOMAIN bets : bets[i].panel # PanelOf[b]
<1> SUFFICES ASSUME NEW i \in DOMAIN bets, bets[i].panel = PanelOf[b] PROVE FALSE
  OBVIOUS
<1>1. bettingOpen /\ activePanels[<<Player, PanelOf[b]>>] = Bets!NoBet
  BY DEF Bets!PlaceBetResult
<1>2. bets[i].state = "PENDING"
  BY <1>1 DEF Seats, Window
<1>3. /\ bets[i].user = Player /\ i \in Nat \ {0}
  BY DEF Inv, Types, TypeOK, Bets!TypeOK, Bets!Bet
<1>4. activePanels[<<bets[i].user, bets[i].panel>>] = i
  BY <1>2 DEF Inv, Types, BP!IInv, BP!PanelIndexExact, BP!Pending, BP!Key
<1> QED
  BY <1>1, <1>3, <1>4 DEF Bets!NoBet

LEMMA PlaceSeats ==
  ASSUME Inv, Seats, NEW h \in Handlers, PlaceBet(h)
  PROVE  Seats'
<1> DEFINE b == BetOf(h)
           n == nextBet + 1
<1>1. b \in BetIds
  BY HandlerShape DEF PlaceBet, CanPlace, At, HandlerSteps, BetOf, Inv, Types
<1>2. CASE UNCHANGED <<bmVars, backing>>
  <2>1. UNCHANGED engineVars
    BY <1>2 DEF PlaceBet, engineVars
  <2> QED
    BY <1>2, <2>1, QuietSeats
<1>3. CASE /\ Bets!PlaceBet(Player, PanelOf[b], 1)
           /\ backing' = [i \in 1..nextBet' |-> IF i = nextBet' THEN b ELSE backing[i]]
  <2>1. nextBet \in Nat /\ DOMAIN bets \subseteq 1..nextBet
    BY DEF Inv, Types, TypeOK, Bets!TypeOK
  <2>2. /\ nextBet' = n /\ DOMAIN bets' = DOMAIN bets \cup {n} /\ n \notin DOMAIN bets
        /\ bets'[n].panel = PanelOf[b] /\ bets'[n].state = "PENDING"
        /\ \A i \in DOMAIN bets : bets'[i] = bets[i]
    BY <1>3, <2>1 DEF Bets!PlaceBet
  <2>3. backing'[n] = b /\ \A i \in DOMAIN bets : backing'[i] = backing[i]
    BY <1>3, <2>1, <2>2
  <2>4. \A i \in DOMAIN bets : bets[i].panel # PanelOf[b]
    BY <1>1, <1>3, FreePanel DEF Bets!PlaceBet
  <2>5. bettingOpen /\ UNCHANGED <<stage, bettingOpen, running>>
    BY <1>3 DEF PlaceBet, Bets!PlaceBet, Bets!PlaceBetResult
  <2>6. Window'
    BY <2>2, <2>5 DEF Seats, Window
  <2>7. Seated' /\ SeatsApart'
    BY <2>2, <2>3, <2>4 DEF Seats, Seated, SeatsApart
  <2> QED
    BY <2>6, <2>7 DEF Seats
<1> QED
  BY <1>2, <1>3 DEF PlaceBet

LEMMA SeatsKept == Inv /\ Seats /\ [Next]_vars => Seats'
<1> SUFFICES ASSUME Inv, Seats, [Next]_vars PROVE Seats'
  OBVIOUS
<1>1. CASE Restart
  <2>1. DOMAIN bets' = {} /\ ~bettingOpen' /\ ~running' /\ stage' = "create"
    BY <1>1 DEF Restart
  <2> QED
    BY <2>1 DEF Seats, Window, Seated, SeatsApart
<1>2. ASSUME NEW h \in Handlers, HandlerStep(h) PROVE Seats'
  <2>1. CASE PlaceBet(h)
    BY <2>1, PlaceSeats
  <2>2. CASE ~PlaceBet(h)
    <3>1. UNCHANGED <<engineVars, backing>>
      BY <1>2, <2>2 DEF HandlerStep, Receive, Begin, Wait, CheckMarker, Debit, Confirm, Fail,
         Mark, Refund, Enqueue, HandlerOnly, histVars, betHist
    <3> QED
      BY <3>1, QuietSeats
  <2> QED
    BY <2>1, <2>2
<1>3. ASSUME SweepStep \/ (\E b \in BetIds : Deliver(b)) \/ UNCHANGED vars PROVE Seats'
  <2>1. UNCHANGED <<engineVars, backing>>
    BY <1>3 DEF SweepStep, SweepDebit, SweepMoney, SweepSend, SweepMark, SweepConfirm,
       SweepFail, SweepSendRefund, SweepResolveRefund, SweepOnly, Deliver, histVars, betHist, vars
  <2> QED
    BY <2>1, QuietSeats
<1> QED
  BY <1>1, <1>2, <1>3, EngineSeats, CashoutSeats DEF Next

\* Whatever is sent again, on however many connections, a stake backs one bet of
\* the engine at a time, for as long as the round keeps its bets.
THEOREM StakesBackOneBet == Spec => []StakeBacksOneBet
<1>1. Init => Seats
  BY DEF Init, Bets!Init, Seats, Window, Seated, SeatsApart
<1>2. Seats => StakeBacksOneBet
  BY DEF Seats, Seated, SeatsApart, StakeBacksOneBet
<1> QED
  BY <1>1, <1>2, SeatsKept, Invariance, PTL DEF Spec

-----------------------------------------------------------------------------
(* The stakes on their way, with errors and restarts.                      *)

\* Steps of a handler that has the stake in hand.
Holding == {"place", "refund", "enqueue", "enqueue_untracked"}
Owned(b) == \E h \in Handlers : handlers[h].step \in Holding /\ BetOf(h) = b

\* A stake somebody answers for, or that is known to be lost.
Accounted(b) ==
  \/ Busy(b) \/ Owned(b)
  \/ staked[b] # 0
  \/ refund[b] \in {"PENDING", "FAILED"}
  \/ queue[b] # "no" \/ b \in alerts
  \/ b \in gave
  \/ PanelTaken(b) \/ b \in abandoned

\* A debit that is confirmed is accounted for, and before it is confirmed too,
\* unless its process died: then the sweeper refunds it before it confirms.
BetTraced(b) ==
  /\ refund[b] = "CONFIRMED" => b \in gave
  /\ debit[b] = "PENDING" => b \in old \/ Accounted(b)
  /\ debit[b] = "CONFIRMED" => Accounted(b)

SweepGives == SweepAt("confirm_refund") => sweep.bet \in gave

\* The history tells of the bets there are.
BetsPlayed ==
  \A i \in DOMAIN bets : staked[backing[i]] # 0 /\ ThisRound \in played[backing[i]]

Traced ==
  /\ \A b \in BetIds : BetTraced(b)
  /\ SweepGives /\ BetsPlayed

\* What only the engine, a restart or a handler that places a bet changes.
Aside == UNCHANGED <<bets, backing, staked, asked, played, round, restarts>>

LEMMA SameBets == Traced /\ Aside => BetsPlayed'
  BY DEF Traced, BetsPlayed, Aside, ThisRound

LEMMA TakenStays ==
  ASSUME NEW b \in BetIds, PanelTaken(b),
         \A c \in BetIds : asked[c] \subseteq asked'[c] /\ played[c] \subseteq played'[c]
  PROVE  PanelTaken(b)'
<1>1. PICK c \in BetIds \ {b} : PanelOf[c] = PanelOf[b] /\ asked[b] \cap played[c] # {}
  BY DEF PanelTaken
<1>2. asked'[b] \cap played'[c] # {}
  BY <1>1
<1> QED
  BY <1>1, <1>2 DEF PanelTaken

\* The work of another handler on a bet id goes on.
LEMMA OthersStay ==
  ASSUME NEW h \in Handlers, \A g \in Handlers \ {h} : handlers'[g] = handlers[g],
         NEW c \in BetIds, handlers[h].step \in Debiting \cup Holding => BetOf(h) # c
  PROVE  (Busy(c) => Busy(c)') /\ (Owned(c) => Owned(c)')
<1>1. Busy(c) => Busy(c)'
  BY DEF Busy, BetOf, Debiting
<1>2. Owned(c) => Owned(c)'
  BY DEF Owned, BetOf
<1> QED
  BY <1>1, <1>2

\* A bet id of which nothing is taken back stays traced.
LEMMA StaysTraced ==
  ASSUME NEW c \in BetIds, BetTraced(c),
         debit'[c] = debit[c], refund'[c] = refund[c], queue'[c] = queue[c],
         staked'[c] = staked[c], c \in old => c \in old', c \in gave => c \in gave',
         c \in alerts => c \in alerts', abandoned \subseteq abandoned',
         \A d \in BetIds : asked[d] \subseteq asked'[d] /\ played[d] \subseteq played'[d],
         Busy(c) => Busy(c)', Owned(c) => Owned(c)'
  PROVE  BetTraced(c)'
<1>1. PanelTaken(c) => PanelTaken(c)'
  BY TakenStays
<1>2. Accounted(c) => Accounted(c)'
  BY <1>1 DEF Accounted
<1> QED
  BY <1>2 DEF BetTraced

\* A step of a handler on its bet id.
LEMMA HandlerTraced ==
  ASSUME Inv, Traced, NEW h \in Handlers, NEW b \in BetIds,
         handlers[h].step \in HandlerSteps => BetOf(h) = b,
         \A g \in Handlers \ {h} : handlers'[g] = handlers[g],
         \A c \in BetIds \ {b} :
           /\ debit'[c] = debit[c] /\ refund'[c] = refund[c]
           /\ queue'[c] = queue[c] /\ staked'[c] = staked[c],
         \A c \in BetIds : asked[c] \subseteq asked'[c] /\ played[c] \subseteq played'[c],
         abandoned \subseteq abandoned', UNCHANGED <<gave, alerts, sweep, old>>,
         BetTraced(b)', BetsPlayed'
  PROVE  Traced'
<1>1. ASSUME NEW c \in BetIds \ {b} PROVE BetTraced(c)'
  <2>1. (Busy(c) => Busy(c)') /\ (Owned(c) => Owned(c)')
    BY OthersStay DEF Debiting, Holding, HandlerSteps
  <2>2. BetTraced(c)
    BY DEF Traced
  <2> QED
    BY <2>1, <2>2, StaysTraced
<1>2. SweepGives'
  BY DEF Traced, SweepGives, SweepAt
<1> QED
  BY <1>1, <1>2 DEF Traced

\* A step of the sweeper or of the queue on one bet id.
LEMMA WorkTraced ==
  ASSUME Inv, Traced, Aside, NEW b \in BetIds, UNCHANGED <<handlers, abandoned, old>>,
         \A c \in BetIds \ {b} :
           /\ debit'[c] = debit[c] /\ refund'[c] = refund[c] /\ queue'[c] = queue[c]
           /\ (c \in gave => c \in gave') /\ (c \in alerts => c \in alerts'),
         BetTraced(b)', SweepGives'
  PROVE  Traced'
<1>1. ASSUME NEW c \in BetIds \ {b} PROVE BetTraced(c)'
  <2>1. (Busy(c) => Busy(c)') /\ (Owned(c) => Owned(c)')
    BY DEF Busy, Owned, BetOf
  <2>2. BetTraced(c)
    BY DEF Traced
  <2> QED
    BY <2>1, <2>2, StaysTraced DEF Aside
<1> QED
  BY <1>1, SameBets DEF Traced

\* What is known of a bet id that the sweeper or the queue is at work on.
LEMMA WorkAccounted ==
  ASSUME Aside, UNCHANGED <<handlers, abandoned>>, NEW b \in BetIds, Accounted(b),
         refund[b] \in {"PENDING", "FAILED"} => refund'[b] \in {"PENDING", "FAILED"} \/ b \in gave',
         queue[b] # "no" => queue'[b] # "no" \/ b \in gave' \/ b \in alerts',
         b \in gave => b \in gave', b \in alerts => b \in alerts'
  PROVE  Accounted(b)'
<1>1. PanelTaken(b) => PanelTaken(b)'
  BY TakenStays DEF Aside
<1>2. (Busy(b) => Busy(b)') /\ (Owned(b) => Owned(b)')
  BY DEF Busy, Owned, BetOf
<1> QED
  BY <1>1, <1>2 DEF Accounted, Aside

\* The bets of the engine are lost, cashed out or cleared; a round is created
\* when there are none.
LEMMA EngineTraced ==
  ASSUME Inv, Seats, Traced, Engine \/ Cashout \/ UNCHANGED vars
  PROVE  Traced'
<1>1. UNCHANGED <<debit, refund, queue, alerts, gave, handlers, sweep, old, histVars, restarts>>
  BY DEF Engine, CreateRound, EngineStep, Cashout, vars, entryVars, queueVars, moneyVars
<1>2. UNCHANGED <<backing, staked, asked, played, abandoned>>
  BY <1>1 DEF histVars, betHist
<1>3. DOMAIN bets' \subseteq DOMAIN bets /\ (round' = round \/ DOMAIN bets' = {})
  <2>1. CASE CreateRound
    BY <2>1 DEF CreateRound, EngineStep, bmVars, Seats, Window
  <2>2. CASE Cashout
    BY <2>2 DEF Cashout, Bets!Cashout
  <2>3. CASE Engine /\ ~CreateRound
    BY <2>3 DEF Engine, Bets!OpenRound, Bets!CloseBetting, Bets!StartRound, Bets!Crash,
       Bets!ResetRound
  <2>4. CASE UNCHANGED vars
    BY <2>4 DEF vars, engineVars, bmVars
  <2> QED
    BY <2>1, <2>2, <2>3, <2>4
<1>4. BetsPlayed'
  BY <1>1, <1>2, <1>3 DEF Traced, BetsPlayed, ThisRound
<1>5. SweepGives'
  BY <1>1 DEF Traced, SweepGives, SweepAt
<1>6. ASSUME NEW c \in BetIds PROVE BetTraced(c)'
  <2>1. (Busy(c) => Busy(c)') /\ (Owned(c) => Owned(c)')
    BY <1>1 DEF Busy, Owned, BetOf
  <2>2. BetTraced(c)
    BY DEF Traced
  <2> QED
    BY <1>1, <1>2, <2>1, <2>2, StaysTraced
<1> QED
  BY <1>4, <1>5, <1>6 DEF Traced

\* A debit that was not confirmed is old now, and a stake in hand abandoned.
LEMMA RestartTraced ==
  ASSUME Inv, Traced, Restart
  PROVE  Traced'
<1>1. UNCHANGED <<debit, refund, gave, queue, alerts, staked, asked, played>>
  BY DEF Restart, entryVars, moneyVars, queueVars
<1>2. SweepGives' /\ BetsPlayed'
  BY DEF Restart, SweepGives, SweepAt, BetsPlayed, Idle
<1>3. ASSUME NEW b \in BetIds PROVE BetTraced(b)'
  <2>1. debit[b] = "PENDING" => b \in old'
    BY DEF Restart
  <2>2. ASSUME debit[b] = "CONFIRMED" PROVE Accounted(b)'
    <3>1. Accounted(b)
      BY <2>2 DEF Traced, BetTraced
    <3>2. ~Busy(b)
      BY <2>2 DEF Busy, Inv, Know, HandlerKnows, Debiting
    <3>3. Owned(b) => b \in abandoned' \/ refund[b] # "NONE" \/ queue[b] # "no"
      BY <2>2 DEF Owned, Holding, Restart, InHand
    <3>4. PanelTaken(b) => PanelTaken(b)'
      BY <1>1, TakenStays
    <3>5. b \in abandoned => b \in abandoned'
      BY DEF Restart
    <3>6. refund[b] \in {"NONE", "PENDING", "FAILED"} \/ b \in gave
      BY DEF Traced, BetTraced, Inv, Types, TypeOK, Statuses, Decisions
    <3> QED
      BY <1>1, <3>1, <3>2, <3>3, <3>4, <3>5, <3>6 DEF Accounted
  <2> QED
    BY <1>1, <2>1, <2>2 DEF Traced, BetTraced
<1> QED
  BY <1>2, <1>3 DEF Traced

\* A handler moves on, and nothing else does, before its debit or on the way to
\* the marker of a refund.
LEMMA QuietTraced ==
  ASSUME Inv, Traced, Aside, NEW h \in Handlers, NEW b \in BetIds,
         handlers[h].step \in HandlerSteps => BetOf(h) = b,
         \A g \in Handlers \ {h} : handlers'[g] = handlers[g],
         UNCHANGED <<debit, refund, queue, gave, alerts, sweep, old, abandoned>>,
         handlers[h].step \notin Debiting \cup Holding
  PROVE  Traced'
<1>1. (Busy(b) => Busy(b)') /\ (Owned(b) => Owned(b)')
  BY OthersStay
<1>2. BetTraced(b)'
  BY <1>1, StaysTraced DEF Traced, Aside
<1> QED
  BY <1>2, SameBets, HandlerTraced DEF Aside

LEMMA ReceiveTraced ==
  ASSUME Inv, Traced, NEW h \in Handlers, NEW b \in BetIds, Receive(h, b)
  PROVE  Traced'
<1>1. handlers[h].step = "idle"
      /\ \A g \in Handlers \ {h} : handlers'[g] = handlers[g]
  BY DEF Receive, Idle, Inv, Types, TypeOK
<1>2. Aside /\ UNCHANGED <<debit, refund, queue, gave, alerts, sweep, old, abandoned>>
  BY DEF Receive, HandlerOnly, engineVars, bmVars, queueVars, entryVars, moneyVars,
         histVars, betHist, Aside
<1> QED
  BY <1>1, <1>2, QuietTraced DEF Debiting, Holding, HandlerSteps

LEMMA BeginTraced ==
  ASSUME Inv, Traced, NEW h \in Handlers, NEW b \in BetIds, BetOf(h) = b, Begin(h)
  PROVE  Traced'
<1> DEFINE r == handlers[h].round
<1>1. handlers[h].step = "begin" /\ handlers[h].step \in HandlerSteps
  BY DEF Begin, At, HandlerSteps
<1>2. Aside /\ UNCHANGED <<refund, queue, gave, alerts, sweep, old>>
  BY DEF Begin, HandlerOnly, moneyVars, betHist, engineVars, bmVars, queueVars, Aside
<1>3. /\ abandoned \subseteq abandoned'
      /\ debit' = debit => abandoned' = abandoned
      /\ handlers'[h] = Idle /\ debit' # debit => b \in abandoned'
  BY DEF Begin, Abandons
<1>4. \/ Finish(h)
      \/ \E step \in {"wait", "marker"} : Goto(h, step) /\ debit' = debit
      \/ Goto(h, "debit") /\ debit[b] = "NONE"
  <2>1. Continue(h, Existing(b, r)) => Finish(h) \/ Goto(h, "wait") \/ Goto(h, "marker")
    BY DEF Continue, Existing
  <2> QED
    BY <2>1 DEF Begin
<1>5. \A g \in Handlers \ {h} : handlers'[g] = handlers[g]
  BY <1>1, <1>4, GotoFacts, FinishFacts DEF Inv, Types, HandlerSteps
<1>6. CASE debit' = debit
  BY <1>1, <1>2, <1>3, <1>5, <1>6, QuietTraced DEF Debiting, Holding
<1>7. CASE debit' # debit
  <2>1. debit' = Opened(debit, b)
    BY <1>7 DEF Begin
  <2>2. debit'[b] = "PENDING" /\ \A c \in BetIds \ {b} : debit'[c] = debit[c]
    BY <2>1 DEF Opened, Inv, Types, TypeOK
  <2>3. CASE Finish(h)
    <3>1. handlers'[h] = Idle
      BY <2>3 DEF Finish, Inv, Types, TypeOK
    <3>2. BetTraced(b)'
      BY <1>2, <1>3, <1>7, <2>2, <3>1 DEF Traced, BetTraced, Accounted
    <3> QED
      BY <1>1, <1>2, <1>3, <1>5, <2>2, <3>2, SameBets, HandlerTraced DEF Aside
  <2>4. CASE Goto(h, "debit")
    <3>1. handlers'[h].step = "debit" /\ BetOf(h)' = b
      BY <1>1, <2>4, GotoFacts DEF Inv, Types, HandlerSteps
    <3>2. Busy(b)'
      BY <3>1 DEF Busy
    <3>3. BetTraced(b)'
      BY <1>2, <2>2, <3>2 DEF Traced, BetTraced, Accounted
    <3> QED
      BY <1>1, <1>2, <1>3, <1>5, <2>2, <3>3, SameBets, HandlerTraced DEF Aside
  <2> QED
    BY <1>4, <1>7, <2>3, <2>4
<1> QED
  BY <1>6, <1>7

LEMMA WaitTraced ==
  ASSUME Inv, Traced, NEW h \in Handlers, NEW b \in BetIds, BetOf(h) = b,
         Wait(h) \/ CheckMarker(h)
  PROVE  Traced'
<1>1. handlers[h].step \in {"wait", "marker"} /\ handlers[h].step \in HandlerSteps
  BY DEF Wait, CheckMarker, At, HandlerSteps
<1>2. Finish(h) \/ Goto(h, "marker") \/ Goto(h, "place")
  BY DEF Wait, CheckMarker
<1>3. \A g \in Handlers \ {h} : handlers'[g] = handlers[g]
  BY <1>1, <1>2, GotoFacts, FinishFacts DEF Inv, Types, HandlerSteps
<1>4. Aside /\ UNCHANGED <<debit, refund, queue, gave, alerts, sweep, old, abandoned>>
  BY DEF Wait, CheckMarker, HandlerOnly, engineVars, bmVars, queueVars, entryVars,
         moneyVars, histVars, betHist, Aside
<1> QED
  BY <1>1, <1>3, <1>4, QuietTraced DEF Debiting, Holding

LEMMA DebitTraced ==
  ASSUME Inv, Traced, NEW h \in Handlers, NEW b \in BetIds, BetOf(h) = b, Debit(h)
  PROVE  Traced'
<1>1. handlers[h].step = "debit" /\ handlers[h].step \in HandlerSteps
  BY DEF Debit, At, HandlerSteps
<1>2. Aside /\ UNCHANGED <<debit, refund, queue, gave, alerts, sweep, old, abandoned>>
  BY DEF Debit, HandlerOnly, entryVars, queueVars, engineVars, bmVars, Aside
<1>3. Goto(h, "confirm") \/ Goto(h, "fail") \/ Goto(h, "mark")
  BY DEF Debit, AfterDebit
<1>4. /\ handlers'[h].step \in {"confirm", "fail", "mark"} /\ BetOf(h)' = b
      /\ \A g \in Handlers \ {h} : handlers'[g] = handlers[g]
  BY <1>1, <1>3, GotoFacts DEF Inv, Types, HandlerSteps
<1>5. Busy(b)'
  BY <1>4 DEF Busy
<1>6. BetTraced(b)'
  BY <1>2, <1>5 DEF Traced, BetTraced, Accounted
<1> QED
  BY <1>1, <1>2, <1>4, <1>6, SameBets, HandlerTraced DEF Aside

\* Confirmed or not, the handler goes on to place the bet; a debit it could not
\* fail is left to the sweeper.
LEMMA DecideTraced ==
  ASSUME Inv, Traced, NEW h \in Handlers, NEW b \in BetIds, BetOf(h) = b,
         Confirm(h) \/ Fail(h)
  PROVE  Traced'
<1>1. handlers[h].step \in {"confirm", "fail"} /\ handlers[h].step \in HandlerSteps
  BY DEF Confirm, Fail, At, HandlerSteps
<1>2. Aside /\ UNCHANGED <<refund, queue, gave, alerts, sweep, old>>
  BY DEF Confirm, Fail, HandlerOnly, moneyVars, histVars, betHist, engineVars, bmVars,
         queueVars, Aside
<1>3. PICK to \in Decisions : debit' = debit \/ debit' = Decided(debit, b, to)
  BY DEF Confirm, Fail, Decisions
<1>4. \A c \in BetIds \ {b} : debit'[c] = debit[c]
  BY <1>3 DEF Decided, Inv, Types, TypeOK
<1>5. /\ \A g \in Handlers \ {h} : handlers'[g] = handlers[g]
      /\ Confirm(h) => handlers'[h].step = "place" /\ BetOf(h)' = b
  BY <1>1, GotoFacts, FinishFacts DEF Confirm, Fail, Inv, Types, HandlerSteps
<1>6. abandoned \subseteq abandoned'
  BY DEF Confirm, Fail, Abandons, histVars
<1>7. CASE Confirm(h)
  <2>1. Owned(b)'
    BY <1>5, <1>7 DEF Owned, Holding
  <2>2. BetTraced(b)'
    BY <1>2, <2>1 DEF Traced, BetTraced, Accounted
  <2> QED
    BY <1>1, <1>2, <1>4, <1>5, <1>6, <2>2, SameBets, HandlerTraced DEF Aside
<1>8. CASE Fail(h)
  <2>1. debit[b] = "PENDING"
    BY <1>1 DEF Inv, Know, HandlerKnows, Debiting
  <2>2. debit'[b] \in {"FAILED", "PENDING"}
    BY <1>8, <2>1 DEF Fail, Decided, Inv, Types, TypeOK
  <2>3. debit'[b] = "PENDING" => b \in abandoned'
    BY <1>8 DEF Fail, Abandons
  <2>4. BetTraced(b)'
    BY <1>2, <2>2, <2>3 DEF Traced, BetTraced, Accounted
  <2> QED
    BY <1>1, <1>2, <1>4, <1>5, <1>6, <2>4, SameBets, HandlerTraced DEF Aside
<1> QED
  BY <1>7, <1>8

LEMMA MarkTraced ==
  ASSUME Inv, Traced, NEW h \in Handlers, NEW b \in BetIds, BetOf(h) = b, Mark(h)
  PROVE  Traced'
<1>1. handlers[h].step = "mark" /\ handlers[h].step \in HandlerSteps
  BY DEF Mark, At, HandlerSteps
<1>2. Aside /\ UNCHANGED <<debit, queue, gave, alerts, sweep, old>>
  BY DEF Mark, HandlerOnly, moneyVars, betHist, engineVars, bmVars, queueVars, Aside
<1>3. /\ refund'[b] = refund[b] \/ (refund[b] = "NONE" /\ refund'[b] = "PENDING")
      /\ \A c \in BetIds \ {b} : refund'[c] = refund[c]
  BY DEF Mark, OpensRefund, Opened, Inv, Types, TypeOK
<1>4. \A g \in Handlers \ {h} : handlers'[g] = handlers[g]
  BY FinishFacts DEF Mark, Inv, Types
<1>5. abandoned \subseteq abandoned' /\ (refund'[b] = "NONE" => b \in abandoned')
  BY DEF Mark, Abandons
<1>6. refund[b] \in Statuses
  BY DEF Inv, Types, TypeOK
<1>7. BetTraced(b)'
  BY <1>2, <1>3, <1>5, <1>6 DEF Traced, BetTraced, Accounted, Statuses, Decisions
<1> QED
  BY <1>1, <1>2, <1>3, <1>4, <1>5, <1>7, SameBets, HandlerTraced DEF Aside

\* The bet found on the panel is one placed in this round, for the same bet id
\* or for another one.
LEMMA FoundBet ==
  ASSUME Inv, Seats, Traced, NEW b \in BetIds,
         Bets!PlaceBetResult(Player, PanelOf[b]) = "BET_EXISTS",
         played' = played, ThisRound \in asked'[b]
  PROVE  staked[b] # 0 \/ PanelTaken(b)'
<1> DEFINE k == <<Player, PanelOf[b]>>
           i == activePanels[k]
<1>1. i # BP!NoBet /\ k \in BP!Keys
  BY DEF Bets!PlaceBetResult, Bets!NoBet, BP!NoBet, BP!Keys
<1>2. i \in DOMAIN bets /\ bets[i].panel = PanelOf[b]
  BY <1>1 DEF Inv, Types, BP!IInv, BP!PanelIndexExact, BP!Pending, BP!Key
<1>3. backing[i] \in BetIds /\ PanelOf[backing[i]] = PanelOf[b]
  BY <1>2 DEF Inv, Types, TypeOK, Bets!TypeOK, Seats, Seated
<1>4. staked[backing[i]] # 0 /\ ThisRound \in played[backing[i]]
  BY <1>2 DEF Traced, BetsPlayed
<1>5. CASE backing[i] = b
  BY <1>4, <1>5
<1>6. CASE backing[i] # b
  BY <1>3, <1>4, <1>6 DEF PanelTaken
<1> QED
  BY <1>5, <1>6

LEMMA PlaceTraced ==
  ASSUME Inv, Seats, Traced, NEW h \in Handlers, NEW b \in BetIds, BetOf(h) = b,
         PlaceBet(h)
  PROVE  Traced'
<1> DEFINE result == Bets!PlaceBetResult(Player, PanelOf[b])
<1>1. handlers[h].step = "place" /\ handlers[h].step \in HandlerSteps
  BY DEF PlaceBet, CanPlace, At, HandlerSteps
<1>2. UNCHANGED <<debit, refund, queue, gave, alerts, sweep, old, abandoned, round, restarts>>
  BY DEF PlaceBet, entryVars, moneyVars, queueVars
<1>3. /\ ThisRound \in asked'[b]
      /\ \A c \in BetIds : asked[c] \subseteq asked'[c]
  BY DEF PlaceBet, Inv, Types, TypeOK
<1>4. CASE /\ Bets!PlaceBet(Player, PanelOf[b], 1)
           /\ backing' = [i \in 1..nextBet' |-> IF i = nextBet' THEN b ELSE backing[i]]
           /\ staked' = [staked EXCEPT ![b] = @ + 1]
           /\ played' = [played EXCEPT ![b] = @ \cup {ThisRound}]
           /\ Finish(h)
  <2>1. \A g \in Handlers \ {h} : handlers'[g] = handlers[g]
    BY <1>4, FinishFacts DEF Inv, Types
  <2>2. /\ staked'[b] # 0
        /\ \A c \in BetIds \ {b} : staked'[c] = staked[c]
    BY <1>4 DEF Inv, Types, TypeOK
  <2>3. ThisRound \in played'[b] /\ \A c \in BetIds : played[c] \subseteq played'[c]
    BY <1>4 DEF Inv, Types, TypeOK
  <2>4. BetsPlayed'
    <3>1. /\ nextBet \in Nat /\ DOMAIN bets \subseteq 1..nextBet
          /\ \A i \in 1..nextBet : backing[i] \in BetIds
      BY DEF Inv, Types, TypeOK, Bets!TypeOK
    <3>2. nextBet' = nextBet + 1 /\ DOMAIN bets' = DOMAIN bets \cup {nextBet'}
      BY <1>4, <3>1 DEF Bets!PlaceBet
    <3>3. /\ backing'[nextBet'] = b
          /\ \A i \in 1..nextBet : backing'[i] = backing[i]
      BY <1>4, <3>1, <3>2
    <3> SUFFICES ASSUME NEW i \in DOMAIN bets'
                 PROVE  staked'[backing'[i]] # 0 /\ ThisRound' \in played'[backing'[i]]
      BY DEF BetsPlayed
    <3>4. ThisRound' = ThisRound
      BY <1>2 DEF ThisRound
    <3>5. CASE i = nextBet'
      BY <2>2, <2>3, <3>3, <3>4, <3>5
    <3>6. CASE i # nextBet'
      <4>1. i \in DOMAIN bets /\ i \in 1..nextBet /\ backing'[i] = backing[i]
        BY <3>1, <3>2, <3>3, <3>6
      <4>2. backing[i] \in BetIds /\ staked[backing[i]] # 0 /\ ThisRound \in played[backing[i]]
        BY <3>1, <4>1 DEF Traced, BetsPlayed
      <4> QED
        BY <2>2, <2>3, <3>4, <4>1, <4>2
    <3> QED
      BY <3>5, <3>6
  <2>5. BetTraced(b)'
    BY <1>2, <2>2 DEF Traced, BetTraced, Accounted
  <2> QED
    BY <1>1, <1>2, <1>3, <2>1, <2>2, <2>3, <2>4, <2>5, HandlerTraced
<1>5. CASE /\ result = "BET_EXISTS" /\ Finish(h)
           /\ UNCHANGED <<bmVars, backing, staked, played>>
  <2>1. \A g \in Handlers \ {h} : handlers'[g] = handlers[g]
    BY <1>5, FinishFacts DEF Inv, Types
  <2>2. staked'[b] # 0 \/ PanelTaken(b)'
    BY <1>3, <1>5, FoundBet
  <2>3. BetTraced(b)'
    BY <1>2, <2>2 DEF Traced, BetTraced, Accounted
  <2>4. BetsPlayed'
    BY <1>2, <1>5 DEF Traced, BetsPlayed, ThisRound, bmVars
  <2> QED
    BY <1>1, <1>2, <1>3, <1>5, <2>1, <2>3, <2>4, HandlerTraced
<1>6. CASE Goto(h, "refund") /\ UNCHANGED <<bmVars, backing, staked, played>>
  <2>1. /\ handlers'[h].step = "refund" /\ BetOf(h)' = b
        /\ \A g \in Handlers \ {h} : handlers'[g] = handlers[g]
    BY <1>1, <1>6, GotoFacts DEF Inv, Types, HandlerSteps
  <2>2. Owned(b)'
    BY <2>1 DEF Owned, Holding
  <2>3. BetTraced(b)'
    BY <1>2, <2>2 DEF Traced, BetTraced, Accounted
  <2>4. BetsPlayed'
    BY <1>2, <1>6 DEF Traced, BetsPlayed, ThisRound, bmVars
  <2> QED
    BY <1>1, <1>2, <1>3, <1>6, <2>1, <2>3, <2>4, HandlerTraced
<1> QED
  BY <1>4, <1>5, <1>6 DEF PlaceBet

LEMMA RefundTraced ==
  ASSUME Inv, Traced, NEW h \in Handlers, NEW b \in BetIds, BetOf(h) = b, Refund(h)
  PROVE  Traced'
<1>1. handlers[h].step = "refund" /\ handlers[h].step \in HandlerSteps
  BY DEF Refund, At, HandlerSteps
<1>2. Aside /\ UNCHANGED <<debit, queue, gave, alerts, sweep, old, abandoned>>
  BY DEF Refund, HandlerOnly, moneyVars, histVars, betHist, engineVars, bmVars,
         queueVars, Aside
<1>3. /\ refund'[b] = refund[b] \/ (refund[b] = "NONE" /\ refund'[b] = "PENDING")
      /\ \A c \in BetIds \ {b} : refund'[c] = refund[c]
  BY DEF Refund, OpensRefund, Opened, Inv, Types, TypeOK
<1>4. Goto(h, "enqueue") \/ Goto(h, "enqueue_untracked")
  BY DEF Refund
<1>5. /\ handlers'[h].step \in Holding /\ BetOf(h)' = b
      /\ \A g \in Handlers \ {h} : handlers'[g] = handlers[g]
  BY <1>1, <1>4, GotoFacts DEF Inv, Types, HandlerSteps, Holding
<1>6. Owned(b)'
  BY <1>5 DEF Owned
<1>7. BetTraced(b)'
  BY <1>2, <1>3, <1>6 DEF Traced, BetTraced, Accounted
<1> QED
  BY <1>1, <1>2, <1>3, <1>5, <1>7, SameBets, HandlerTraced DEF Aside

\* Of the entry of the refund and its callback, one was written, or the stake is
\* abandoned.
LEMMA EnqueueTraced ==
  ASSUME Inv, Traced, NEW h \in Handlers, NEW b \in BetIds, BetOf(h) = b, Enqueue(h)
  PROVE  Traced'
<1>1. handlers[h].step \in {"enqueue", "enqueue_untracked"}
  BY DEF Enqueue, At
<1>2. Aside /\ UNCHANGED <<debit, refund, gave, alerts, sweep, old>>
  BY DEF Enqueue, entryVars, moneyVars, betHist, engineVars, bmVars, Aside
<1>3. \A c \in BetIds \ {b} : queue'[c] = queue[c]
  BY DEF Enqueue, Inv, Types, TypeOK
<1>4. \A g \in Handlers \ {h} : handlers'[g] = handlers[g]
  BY FinishFacts DEF Enqueue, Inv, Types
<1>5. /\ abandoned \subseteq abandoned'
      /\ queue'[b] = "no" /\ refund[b] = "NONE" => b \in abandoned'
  BY DEF Enqueue, Abandons
<1>6. refund[b] \in Statuses
  BY DEF Inv, Types, TypeOK
<1>7. BetTraced(b)'
  BY <1>2, <1>5, <1>6 DEF Traced, BetTraced, Accounted, Statuses, Decisions
<1> QED
  BY <1>2, <1>3, <1>4, <1>5, <1>7, SameBets, HandlerTraced DEF Aside

\* The sweeper takes up an entry, or asks the operator about a debit.
LEMMA SweepMovesTraced ==
  ASSUME Inv, Traced, NEW b \in BetIds,
         \/ SweepDebit(b) \/ SweepMoney(b)
         \/ SweepSend /\ sweep.bet = b
  PROVE  Traced'
<1>1. Aside /\ UNCHANGED <<debit, refund, queue, alerts, gave, handlers, old, abandoned>>
  BY DEF SweepDebit, SweepMoney, SweepSend, SweepOnly, moneyVars, queueVars, histVars,
         betHist, engineVars, bmVars, Aside
<1>2. SweepGives'
  <2>1. CASE SweepDebit(b)
    BY <2>1, TargetFacts DEF SweepDebit, SweepSteps, SweepGives, SweepAt, Inv, Types
  <2>2. CASE SweepMoney(b)
    <3>1. MoneyStep(b) \in {"send_refund", "fail_refund"}
      BY <2>2, Zenon DEF SweepMoney, MoneyStep
    <3>2. sweep'.step = MoneyStep(b)
      BY <2>2, <3>1, TargetFacts DEF SweepMoney, SweepSteps, Inv, Types
    <3> QED
      BY <3>1, <3>2 DEF SweepGives, SweepAt
  <2>3. CASE SweepSend
    <3>1. sweep.step \in SweepSteps
      BY <2>3 DEF SweepSend, SweepAt, SweepSteps
    <3>2. sweep'.step \in {"mark", "confirm", "fail", "idle"}
      <4>1. SweepGoto("mark") \/ SweepGoto("confirm") \/ SweepGoto("fail") \/ SweepEnds
        BY <2>3 DEF SweepSend
      <4> QED
        BY <3>1, <4>1, SweepGotoFacts, SweepEndsFacts DEF SweepSteps, Inv, Types
    <3> QED
      BY <3>2 DEF SweepGives, SweepAt
  <2> QED
    BY <2>1, <2>2, <2>3
<1>3. Accounted(b) => Accounted(b)'
  BY <1>1, WorkAccounted
<1>4. BetTraced(b)'
  BY <1>1, <1>3 DEF Traced, BetTraced
<1> QED
  BY <1>1, <1>2, <1>4, WorkTraced

LEMMA SweepMarkTraced ==
  ASSUME Inv, Traced, NEW b \in BetIds, sweep.bet = b, SweepMark
  PROVE  Traced'
<1>1. Aside /\ UNCHANGED <<debit, queue, alerts, gave, handlers, old, abandoned>>
  BY DEF SweepMark, SweepOnly, moneyVars, queueVars, histVars, betHist, engineVars,
         bmVars, Aside
<1>2. /\ refund'[b] = refund[b] \/ (refund[b] = "NONE" /\ refund'[b] = "PENDING")
      /\ \A c \in BetIds \ {b} : refund'[c] = refund[c]
  BY DEF SweepMark, OpensRefund, Opened, Inv, Types, TypeOK
<1>3. sweep'.step \in {"confirm", "idle"}
  BY SweepEndsFacts DEF SweepMark
<1>4. Accounted(b) => Accounted(b)'
  BY <1>1, <1>2, WorkAccounted
<1>5. BetTraced(b)'
  BY <1>1, <1>2, <1>4 DEF Traced, BetTraced
<1>6. SweepGives'
  BY <1>3 DEF SweepGives, SweepAt
<1> QED
  BY <1>1, <1>2, <1>5, <1>6, WorkTraced

\* The sweeper confirms a debit that is accounted for, or of a process that died,
\* and then only with its refund on record.
LEMMA SweepDecideTraced ==
  ASSUME Inv, Traced, NEW b \in BetIds, sweep.bet = b, SweepConfirm \/ SweepFail
  PROVE  Traced'
<1>1. sweep.step \in {"confirm", "fail"} /\ sweep.step \in SweepSteps
  BY DEF SweepConfirm, SweepFail, SweepAt, SweepSteps
<1>2. Aside /\ UNCHANGED <<refund, queue, alerts, gave, handlers, old, abandoned>>
  BY DEF SweepConfirm, SweepFail, SweepOnly, moneyVars, queueVars, histVars, betHist,
         engineVars, bmVars, Aside
<1>3. debit[b] = "PENDING"
  BY <1>1 DEF Inv, Know, SweepKnows, Deciding
<1>4. /\ \A c \in BetIds \ {b} : debit'[c] = debit[c]
      /\ SweepFail => debit'[b] \in {"PENDING", "FAILED"}
  BY <1>3 DEF SweepConfirm, SweepFail, Decided, Inv, Types, TypeOK
<1>5. sweep'.step \in {"send_refund", "fail_refund", "idle"}
  <2>1. SweepGoto("send_refund") \/ SweepGoto("fail_refund") \/ SweepEnds
    BY DEF SweepConfirm, SweepFail
  <2> QED
    BY <1>1, <2>1, SweepGotoFacts, SweepEndsFacts DEF SweepSteps, Inv, Types
<1>6. SweepGives'
  BY <1>5 DEF SweepGives, SweepAt
<1>7. Accounted(b) => Accounted(b)'
  BY <1>2, WorkAccounted
<1>8. SweepConfirm => Accounted(b)
  <2>1. refund[b] \in Statuses
    BY DEF Inv, Types, TypeOK
  <2>2. CASE refund[b] # "NONE"
    BY <2>1, <2>2 DEF Accounted, Traced, BetTraced, Statuses, Decisions
  <2>3. CASE refund[b] = "NONE"
    BY <1>3, <2>3 DEF SweepConfirm, Inv, Know, SweepKnows, Traced, BetTraced
  <2> QED
    BY <2>2, <2>3
<1>9. BetTraced(b)'
  BY <1>2, <1>3, <1>4, <1>7, <1>8 DEF Traced, BetTraced
<1> QED
  BY <1>2, <1>4, <1>6, <1>9, WorkTraced

\* A refund is confirmed only once the operator gave the stake back.
LEMMA SweepGivesTraced ==
  ASSUME Inv, Traced, NEW b \in BetIds, sweep.bet = b,
         SweepSendRefund \/ SweepResolveRefund
  PROVE  Traced'
<1>1. sweep.step \in SweepSteps
  BY DEF SweepSendRefund, SweepResolveRefund, SweepAt, SweepSteps
<1>2. Aside /\ UNCHANGED <<debit, queue, alerts, handlers, old, abandoned>>
  BY DEF SweepSendRefund, SweepResolveRefund, SweepOnly, moneyVars, queueVars, histVars,
         betHist, engineVars, bmVars, Aside
<1>3. CASE SweepSendRefund
  <2>1. refund' = refund /\ gave' \in {gave, gave \cup {b}}
    BY <1>3 DEF SweepSendRefund, Asked
  <2>2. \/ SweepGoto("confirm_refund") /\ b \in gave'
        \/ SweepGoto("fail_refund")
        \/ SweepEnds
    BY <1>3 DEF SweepSendRefund, Asked
  <2>3. \/ sweep'.step = "confirm_refund" /\ sweep'.bet = b /\ b \in gave'
        \/ sweep'.step \in {"fail_refund", "idle"}
    BY <1>1, <2>2, SweepGotoFacts, SweepEndsFacts DEF SweepSteps, Inv, Types
  <2>4. SweepGives'
    BY <2>3 DEF SweepGives, SweepAt
  <2>5. Accounted(b) => Accounted(b)'
    BY <1>2, <2>1, WorkAccounted
  <2>6. BetTraced(b)'
    BY <1>2, <2>1, <2>5 DEF Traced, BetTraced
  <2> QED
    BY <1>2, <2>1, <2>4, <2>6, WorkTraced
<1>4. CASE SweepResolveRefund
  <2>1. gave' = gave /\ sweep'.step = "idle"
    BY <1>4, SweepEndsFacts DEF SweepResolveRefund, moneyVars
  <2>2. PICK to \in Decisions : /\ refund' = refund \/ refund' = Decided(refund, b, to)
                                /\ to = "CONFIRMED" => b \in gave
    BY <1>4 DEF SweepResolveRefund, Decisions, Traced, SweepGives
  <2>3. /\ refund'[b] = refund[b] \/ (refund[b] = "PENDING" /\ refund'[b] = to)
        /\ \A c \in BetIds \ {b} : refund'[c] = refund[c]
    BY <2>2 DEF Decided, Inv, Types, TypeOK
  <2>4. Accounted(b) => Accounted(b)'
    BY <1>2, <2>1, <2>2, <2>3, WorkAccounted DEF Decisions
  <2>5. BetTraced(b)'
    BY <1>2, <2>1, <2>2, <2>3, <2>4 DEF Traced, BetTraced
  <2>6. SweepGives'
    BY <2>1 DEF SweepGives, SweepAt
  <2> QED
    BY <1>2, <2>1, <2>3, <2>5, <2>6, WorkTraced
<1> QED
  BY <1>3, <1>4

\* The queue gives the stake back, or leaves it to a dead letter.
LEMMA DeliverTraced ==
  ASSUME Inv, Traced, NEW b \in BetIds, Deliver(b)
  PROVE  Traced'
<1>1. Aside /\ UNCHANGED <<debit, handlers, sweep, old, abandoned>>
  BY DEF Deliver, histVars, betHist, engineVars, bmVars, Aside
<1>2. PICK to \in Decisions :
        /\ refund' = refund \/ refund' = Decided(refund, b, to)
        /\ to = "CONFIRMED" => b \in gave'
        /\ gave' \in {gave, gave \cup {b}}
        /\ b \in gave' \/ b \in alerts'
        /\ alerts' \in {alerts, alerts \cup {b}}
  BY DEF Deliver, Asked, Decisions
<1>3. /\ refund'[b] = refund[b] \/ (refund[b] = "PENDING" /\ refund'[b] = to)
      /\ \A c \in BetIds \ {b} : refund'[c] = refund[c]
  BY <1>2 DEF Decided, Inv, Types, TypeOK
<1>4. \A c \in BetIds \ {b} : queue'[c] = queue[c]
  BY DEF Deliver, Inv, Types, TypeOK
<1>5. Accounted(b) => Accounted(b)'
  BY <1>1, <1>2, <1>3, WorkAccounted DEF Decisions
<1>6. BetTraced(b)'
  BY <1>1, <1>2, <1>3, <1>5 DEF Traced, BetTraced
<1>7. SweepGives'
  BY <1>1, <1>2 DEF Traced, SweepGives, SweepAt
<1> QED
  BY <1>1, <1>2, <1>3, <1>4, <1>6, <1>7, WorkTraced

LEMMA TracedKept == Inv /\ Seats /\ Traced /\ [Next]_vars => Traced'
<1> SUFFICES ASSUME Inv, Seats, Traced, [Next]_vars PROVE Traced'
  OBVIOUS
<1>1. ASSUME NEW h \in Handlers, HandlerStep(h) PROVE Traced'
  <2>1. ASSUME NEW b \in BetIds, Receive(h, b) PROVE Traced'
    BY <2>1, ReceiveTraced
  <2>2. ASSUME Begin(h) \/ Wait(h) \/ CheckMarker(h) \/ Debit(h) \/ Confirm(h) \/ Fail(h)
               \/ Mark(h) \/ PlaceBet(h) \/ Refund(h) \/ Enqueue(h)
        PROVE  Traced'
    <3>1. handlers[h].step \in HandlerSteps
      BY <2>2 DEF Begin, Wait, CheckMarker, Debit, Confirm, Fail, Mark, PlaceBet, CanPlace,
         Refund, Enqueue, At, HandlerSteps
    <3>2. PICK b \in BetIds : BetOf(h) = b
      BY <3>1, HandlerShape DEF BetOf, Inv, Types
    <3> QED
      BY <2>2, <3>2, BeginTraced, WaitTraced, DebitTraced, DecideTraced, MarkTraced,
         PlaceTraced, RefundTraced, EnqueueTraced
  <2> QED
    BY <1>1, <2>1, <2>2 DEF HandlerStep
<1>2. ASSUME SweepStep PROVE Traced'
  <2>1. ASSUME NEW b \in BetIds, SweepDebit(b) \/ SweepMoney(b) PROVE Traced'
    BY <2>1, SweepMovesTraced
  <2>2. ASSUME SweepSend \/ SweepMark \/ SweepConfirm \/ SweepFail
               \/ SweepSendRefund \/ SweepResolveRefund
        PROVE  Traced'
    <3>1. sweep.step \in SweepSteps
      BY <2>2 DEF SweepSend, SweepMark, SweepConfirm, SweepFail, SweepSendRefund,
         SweepResolveRefund, SweepAt, SweepSteps
    <3>2. PICK b \in BetIds : sweep.bet = b
      BY <3>1, SweepShape DEF Inv, Types
    <3> QED
      BY <2>2, <3>2, SweepMovesTraced, SweepMarkTraced, SweepDecideTraced, SweepGivesTraced
  <2> QED
    BY <1>2, <2>1, <2>2 DEF SweepStep
<1>3. ASSUME NEW b \in BetIds, Deliver(b) PROVE Traced'
  BY <1>3, DeliverTraced
<1>4. CASE Engine \/ Cashout \/ UNCHANGED vars
  BY <1>4, EngineTraced
<1>5. CASE Restart
  BY <1>5, RestartTraced
<1> QED
  BY <1>1, <1>2, <1>3, <1>4, <1>5 DEF Next

\* What is traced is not lost, but for the two ways that are known.
LEMMA TracedStakes == Inv /\ Traced => StakeTraced
<1> SUFFICES ASSUME Inv, Traced, NEW b \in BetIds, Lost(b)
             PROVE  PanelTaken(b) \/ b \in abandoned
  BY DEF StakeTraced
<1>1. debit[b] = "CONFIRMED"
  BY DEF Lost, Inv, Types, TypeOK, Know, Untouched, LedgerTellsDebit, Statuses, Decisions
<1>2. ~Busy(b) /\ ~Owned(b)
  BY DEF Lost, Busy, Owned, Holding, Idle
<1> QED
  BY <1>1, <1>2 DEF Lost, Traced, BetTraced, Accounted

\* Whatever retries, errors of the database and restarts come, with any bet ids
\* on any panels, a stake that was taken made a bet, came back, or is still in
\* hand, by someone at work on it or by something durable: it is only lost to
\* another bet id on its panel in the same round, or because an error or a
\* restart kept a handler from writing what becomes of it.
THEOREM StakesTraced == Spec => []StakeTraced
<1>1. Init => Traced
  BY DEF Init, Bets!Init, Traced, BetTraced, SweepGives, BetsPlayed, SweepAt, Idle
<1>2. Init => Seats
  BY DEF Init, Bets!Init, Seats, Window, Seated, SeatsApart
<1> QED
  BY <1>1, <1>2, TracedKept, TracedStakes, SeatsKept, Invariance, PTL DEF Spec

-----------------------------------------------------------------------------
(* The engine makes its calls in the order of BetCycle.                    *)

\* The calls on the bets are those of BetCycle.
LEMMA CallsAreCycles ==
  /\ \A r \in 1..MaxRounds : Bets!OpenRound(r) => Cycle!OpenRound(r)
  /\ Bets!CloseBetting => Cycle!CloseBetting
  /\ Bets!StartRound => Cycle!StartRound
  /\ Bets!Crash => Cycle!Crash
  /\ Bets!ResetRound => Cycle!ResetRound
  /\ \A b \in BetIds : Bets!PlaceBet(Player, PanelOf[b], 1) => Cycle!PlaceBet(Player, PanelOf[b], 1)
<1>1. \A r \in 1..MaxRounds : Bets!OpenRound(r) => Cycle!OpenRound(r)
  BY DEF Bets!OpenRound, Bets!CanOpenRound, Cycle!OpenRound, Cycle!CanOpenRound
<1>2. Bets!CloseBetting => Cycle!CloseBetting
  BY DEF Bets!CloseBetting, Bets!CanCloseBetting, Cycle!CloseBetting, Cycle!CanCloseBetting
<1>3. Bets!StartRound => Cycle!StartRound
  BY DEF Bets!StartRound, Bets!CanStartRound, Cycle!StartRound, Cycle!CanStartRound
<1>4. Bets!Crash => Cycle!Crash
  BY DEF Bets!Crash, Bets!CanCrash, Bets!Losing, Bets!Pending, Bets!Settled, Bets!Key,
     Bets!Keys, Bets!NoBet, Cycle!Crash, Cycle!CanCrash, Cycle!Losing, Cycle!Pending,
     Cycle!Settled, Cycle!Key, Cycle!Keys, Cycle!NoBet
<1>5. Bets!ResetRound => Cycle!ResetRound
  BY DEF Bets!ResetRound, Bets!CanResetRound, Bets!Keys, Bets!NoBet,
     Cycle!ResetRound, Cycle!CanResetRound, Cycle!Keys, Cycle!NoBet
<1>6. \A b \in BetIds : Bets!PlaceBet(Player, PanelOf[b], 1) => Cycle!PlaceBet(Player, PanelOf[b], 1)
  BY DEF Bets!PlaceBet, Bets!PlaceBetResult, Bets!NoBet, Cycle!PlaceBet, Cycle!PlaceBetResult, Cycle!NoBet
<1> QED
  BY <1>1, <1>2, <1>3, <1>4, <1>5, <1>6

LEMMA CashoutIsCycle ==
  ASSUME NEW i, NEW raw, Bets!Cashout(i, raw)
  PROVE  Cycle!Cashout(i, raw)
<1>1. Bets!Normalize(raw) = Cycle!Normalize(raw)
  BY DEF Bets!Normalize, Cycle!Normalize
<1>2. Bets!ValidMultiplier(raw) => Cycle!ValidMultiplier(raw)
  <2>1. Bets!MaxMultiplier = Cycle!MaxMultiplier
    BY SMT DEF Bets!MaxMultiplier, Cycle!MaxMultiplier
  <2> QED
    BY <2>1 DEF Bets!ValidMultiplier, Cycle!ValidMultiplier
<1>3. \A amount, cents : Bets!Payout(amount, cents) = Cycle!Payout(amount, cents)
  BY DEF Bets!Payout, Cycle!Payout, Bets!Wrap, Cycle!Wrap
<1>4. \A amount, cents : Bets!PayoutAccepted(amount, cents) => Cycle!PayoutAccepted(amount, cents)
  BY <1>3 DEF Bets!PayoutAccepted, Cycle!PayoutAccepted
<1>5. Cycle!CanCashout(i, raw)
  BY <1>1, <1>2, <1>4 DEF Bets!Cashout, Bets!CanCashout, Cycle!CanCashout
<1>6. \A b, multi, payout : Bets!Settled(b, "CASHED_OUT", multi, payout)
                           = Cycle!Settled(b, "CASHED_OUT", multi, payout)
  BY DEF Bets!Settled, Cycle!Settled
<1>7. Bets!Key(bets[i]) = Cycle!Key(bets[i]) /\ Bets!NoBet = Cycle!NoBet
  BY DEF Bets!Key, Bets!NoBet, Cycle!Key, Cycle!NoBet
<1>8. bets' = [bets EXCEPT ![i] = Cycle!Settled(bets[i], "CASHED_OUT", Cycle!Normalize(raw),
                                     Cycle!Payout(bets[i].amount, Cycle!Normalize(raw)))]
  BY <1>1, <1>3, <1>6, Zenon DEF Bets!Cashout
<1> QED
  BY <1>5, <1>7, <1>8, Zenon DEF Bets!Cashout, Cycle!Cashout

\* The calls of the engine; a round that is only created stutters.
LEMMA EngineCycles ==
  ASSUME Inv, Engine
  PROVE  Cycle!CycleNext \/ UNCHANGED <<bmVars, CycleStage, CycleRound>>
<1>1. round \in 0..MaxRounds /\ (stage # "create" => round > 0)
  BY DEF Inv, Types, TypeOK
<1>2. CASE CreateRound
  BY <1>1, <1>2 DEF CreateRound, EngineStep, CycleStage, CycleRound
<1>3. CASE EngineStep("open", "close") /\ Bets!OpenRound(round) /\ UNCHANGED round
  <2>1. /\ CycleStage = "create" /\ CycleStage' = "close"
        /\ CycleRound' = round /\ CycleRound = round - 1 /\ round \in 1..MaxRounds
    BY <1>1, <1>3, StakeConstants DEF EngineStep, CycleStage, CycleRound
  <2>2. Cycle!OpenRound(CycleRound')
    BY <1>3, <2>1, CallsAreCycles
  <2>3. CycleRound' = CycleRound + 1 /\ CycleRound' \in 1..MaxRounds
    BY <2>1, StakeConstants
  <2> QED
    BY <2>1, <2>2, <2>3 DEF Cycle!CycleNext, Cycle!Opens, Cycle!Moves
<1>4. CASE /\ UNCHANGED round
           /\ \/ EngineStep("close", "start") /\ Bets!CloseBetting
              \/ EngineStep("start", "crash") /\ Bets!StartRound
              \/ EngineStep("crash", "reset") /\ Bets!Crash
              \/ EngineStep("reset", "create") /\ Bets!ResetRound
  <2>1. /\ CycleRound' = CycleRound
        /\ \/ Cycle!Moves("close", "start") /\ Cycle!CloseBetting
           \/ Cycle!Moves("start", "crash") /\ Cycle!StartRound
           \/ Cycle!Moves("crash", "reset") /\ Cycle!Crash
           \/ Cycle!Moves("reset", "create") /\ Cycle!ResetRound
    BY <1>4, CallsAreCycles DEF EngineStep, CycleStage, CycleRound, Cycle!Moves
  <2> QED
    BY <2>1 DEF Cycle!CycleNext, Cycle!Closes, Cycle!Starts, Cycle!Crashes, Cycle!Resets
<1> QED
  BY <1>2, <1>3, <1>4 DEF Engine

\* The players' calls, and a restart.
LEMMA OthersCycle ==
  ASSUME Inv, Cashout \/ Restart \/ \E h \in Handlers : PlaceBet(h)
  PROVE  Cycle!CycleNext \/ UNCHANGED <<bmVars, CycleStage, CycleRound>>
<1>1. CASE Cashout
  <2>1. PICK i \in DOMAIN bets : Bets!Cashout(i, 1000)
    BY <1>1 DEF Cashout
  <2>2. Cycle!Plays
    BY <1>1, <2>1, CashoutIsCycle DEF Cashout, CycleStage, CycleRound, Cycle!Plays
  <2> QED
    BY <2>2 DEF Cycle!CycleNext
<1>2. CASE Restart
  <2>1. Cycle!Forgets
    BY <1>2 DEF Restart, Bets!Keys, Bets!NoBet, CycleStage, CycleRound,
                Cycle!Forgets, Cycle!Keys, Cycle!NoBet
  <2> QED
    BY <2>1 DEF Cycle!CycleNext
<1>3. ASSUME NEW h \in Handlers, PlaceBet(h)
      PROVE  Cycle!CycleNext \/ UNCHANGED <<bmVars, CycleStage, CycleRound>>
  <2>1. UNCHANGED <<CycleStage, CycleRound>>
    BY <1>3 DEF PlaceBet, CycleStage, CycleRound
  <2>2. CASE Bets!PlaceBet(Player, PanelOf[BetOf(h)], 1)
    <3>1. BetOf(h) \in BetIds
      BY <1>3, HandlerShape DEF PlaceBet, CanPlace, At, BetOf, HandlerSteps, Inv, Types
    <3>2. Cycle!Plays
      BY <2>1, <2>2, <3>1, CallsAreCycles DEF Cycle!Plays
    <3> QED
      BY <3>2 DEF Cycle!CycleNext
  <2>3. CASE UNCHANGED bmVars
    BY <2>1, <2>3
  <2> QED
    BY <1>3, <2>2, <2>3 DEF PlaceBet
<1> QED
  BY <1>1, <1>2, <1>3

\* The engine StakeFlow is composed with keeps to the order that CrashEngine is
\* proved to keep, restarts included.
THEOREM StakesImplementCycle == Spec => ImplementsCycle
<1>1. Init => Cycle!CycleInit
  BY DEF Init, Bets!Init, Bets!Keys, Bets!NoBet, CycleStage, CycleRound,
         Cycle!CycleInit, Cycle!Init, Cycle!Keys, Cycle!NoBet
<1>2. Inv /\ [Next]_vars => [Cycle!CycleNext]_Cycle!cycleVars
  <2> SUFFICES ASSUME Inv, [Next]_vars
               PROVE  Cycle!CycleNext \/ UNCHANGED <<bmVars, CycleStage, CycleRound>>
    BY DEF bmVars, Cycle!cycleVars, Cycle!vars
  <2>1. CASE UNCHANGED engineVars
    BY <2>1 DEF engineVars, CycleStage, CycleRound
  <2>2. CASE SweepStep \/ (\E b \in BetIds : Deliver(b)) \/ UNCHANGED vars
    <3>1. UNCHANGED engineVars
      BY <2>2 DEF SweepStep, SweepDebit, SweepMoney, SweepSend, SweepMark, SweepConfirm, SweepFail,
                  SweepSendRefund, SweepResolveRefund, MoneyStep, SweepOnly, Deliver, vars
    <3> QED
      BY <2>1, <3>1
  <2>3. ASSUME NEW h \in Handlers, HandlerStep(h), ~PlaceBet(h)
        PROVE  UNCHANGED engineVars
    BY <2>3 DEF HandlerStep, HandlerOnly, Receive, Begin, Wait, CheckMarker, Debit, Confirm,
                Fail, Mark, Refund, Enqueue
  <2> QED
    BY <2>1, <2>2, <2>3, EngineCycles, OthersCycle DEF Next
<1> QED
  BY <1>1, <1>2, Invariance, PTL DEF Spec, ImplementsCycle, Cycle!CycleSpec

=============================================================================
