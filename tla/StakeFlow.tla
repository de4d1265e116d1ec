------------------------------ MODULE StakeFlow ------------------------------
(***************************************************************************)
(* The stakes of a player: cmd/server/gateway.go (handleBet and what it    *)
(* calls), recovery_hooks.go and internal/provider/recovery, composed with *)
(* the bets of the engine (BetManager), the ledger (used through its       *)
(* contract, LedgerContract) and the operator's wallet.                    *)
(*                                                                         *)
(* A handler is a connection of the player; it serves one message at a     *)
(* time, and two overlap when the player reconnects or bets from two pages. *)
(* A message is known by its bet id, and may be sent again at any time;    *)
(* its panel and amount do not change (a message that changes them is      *)
(* refused as one of another round is).  Every access to the ledger, the   *)
(* wallet, the queue or the engine is a step.  A restart ends every        *)
(* handler and the sweep under way, and forgets the engine and its rounds. *)
(*                                                                         *)
(* Time: a handler's debit is over, answered or given up, in 6 s, and the  *)
(* sweeper looks at debits older than 30 s: it meets a debit a handler is  *)
(* still making only after a restart.  Otherwise nothing bounds a step.    *)
(***************************************************************************)
EXTENDS Integers, FiniteSets

CONSTANTS
  BetIds,
  PanelOf,      \* bet id -> its panel
  Handlers,
  MaxRounds,    \* bound on the rounds of a process
  MaxBets,      \* bound on the bets of a process
  MaxFaults,    \* bound on errors of the database
  MaxRestarts

ASSUME StakeConstants ==
  /\ MaxRounds \in Nat /\ MaxBets \in Nat
  /\ MaxFaults \in Nat /\ MaxRestarts \in Nat

VARIABLES
  bmRound, bettingOpen, running, bets, activePanels, nextBet, \* e.bets
  stage,     \* next step of the engine
  round,     \* the current round, 0 before the first
  debit,     \* bet id -> status of the DEBIT entry, or "NONE"
  ref,       \* bet id -> round in the ExternalRef of the entry
  refund,    \* bet id -> status of the ROLLBACK entry, or "NONE"
  took,      \* debits the operator applied
  gave,      \* rollbacks the operator applied
  queue,     \* bet id -> rollback callback: "no", "tracked" or "untracked"
  alerts,    \* rollbacks in the dead letters
  handlers,  \* handler -> what it is doing
  sweep,     \* what the sweeper is doing
  old,       \* debits begun before the process started
  backing,   \* history: bet -> bet id it was placed for
  staked,    \* history: bet id -> number of bets placed for it
  sends,     \* history: bet id -> debits the handlers sent
  asked,     \* history: bet id -> rounds in which the engine was asked for its bet
  played,    \* history: bet id -> rounds in which a bet was placed for it
  abandoned, \* history: bet ids a handler left without a mark, failed by the
             \* database or ended by a restart
  faults, restarts

bmVars == <<bmRound, bettingOpen, running, bets, activePanels, nextBet>>
engineVars == <<bmVars, stage, round>>
entryVars == <<debit, ref, refund>>
moneyVars == <<took, gave>>
queueVars == <<queue, alerts>>
betHist == <<backing, staked, sends, asked, played>>
histVars == <<betHist, abandoned>>
vars == <<engineVars, entryVars, moneyVars, queueVars, handlers, sweep, old,
          histVars, faults, restarts>>

Player == "player"
Bets == INSTANCE BetManager WITH
          Users <- {Player}, Panels <- {PanelOf[b] : b \in BetIds},
          Amounts <- {1}, RoundIds <- 1..MaxRounds, Raws <- {1000},
          MaxInt <- 1000, NoRound <- 0

Decisions == {"CONFIRMED", "FAILED"}
Statuses == {"NONE", "PENDING"} \cup Decisions
Idle == [step |-> "idle"]
Handler == {Idle}
  \cup [step: {"begin", "wait", "marker", "debit", "confirm", "fail", "mark",
               "place", "refund", "enqueue", "enqueue_untracked"},
        bet: BetIds, round: 1..MaxRounds]
Sweep == {Idle}
  \cup [step: {"send", "mark", "confirm", "fail", "send_refund",
               "confirm_refund", "fail_refund"},
        bet: BetIds, marked: BOOLEAN, pending: BOOLEAN]

\* A round, of any process: the numbers start again with each.
PlayableRounds == (0..MaxRestarts) \X (0..MaxRounds)
ThisRound == <<restarts, round>>

TypeOK ==
  /\ Bets!TypeOK
  /\ stage \in {"create", "open", "close", "start", "crash", "reset"}
  /\ round \in 0..MaxRounds
  /\ debit \in [BetIds -> Statuses] /\ refund \in [BetIds -> Statuses]
  /\ ref \in [BetIds -> 0..MaxRounds]
  /\ took \subseteq BetIds /\ gave \subseteq BetIds
  /\ queue \in [BetIds -> {"no", "tracked", "untracked"}]
  /\ alerts \subseteq BetIds /\ old \subseteq BetIds
  /\ handlers \in [Handlers -> Handler]
  /\ sweep \in Sweep
  /\ DOMAIN backing = 1..nextBet /\ \A i \in DOMAIN backing : backing[i] \in BetIds
  /\ staked \in [BetIds -> Nat] /\ sends \in [BetIds -> Nat]
  /\ asked \in [BetIds -> SUBSET PlayableRounds]
  /\ played \in [BetIds -> SUBSET PlayableRounds]
  /\ abandoned \subseteq BetIds
  /\ faults \in 0..MaxFaults /\ restarts \in 0..MaxRestarts

Init ==
  /\ Bets!Init
  /\ stage = "create" /\ round = 0
  /\ debit = [b \in BetIds |-> "NONE"] /\ refund = [b \in BetIds |-> "NONE"]
  /\ ref = [b \in BetIds |-> 0]
  /\ took = {} /\ gave = {}
  /\ queue = [b \in BetIds |-> "no"] /\ alerts = {}
  /\ handlers = [h \in Handlers |-> Idle] /\ sweep = Idle /\ old = {}
  /\ backing = [i \in {} |-> 0]
  /\ staked = [b \in BetIds |-> 0] /\ sends = [b \in BetIds |-> 0]
  /\ asked = [b \in BetIds |-> {}] /\ played = [b \in BetIds |-> {}]
  /\ abandoned = {}
  /\ faults = 0 /\ restarts = 0

Fault == faults < MaxFaults /\ faults' = faults + 1

-----------------------------------------------------------------------------
(* The ledger, the operator.                                               *)

Opened(status, b) == [status EXCEPT ![b] = "PENDING"]

\* A decision changes a pending entry only; a conflict is an error.
Decided(status, b, to) ==
  IF status[b] = "PENDING" THEN [status EXCEPT ![b] = to] ELSE status

\* The operator's answer about b, given what it did before: done is took or
\* gave.  An applied operation is accepted again, and no answer proves nothing.
Asked(done, b, outcome, after) ==
  \/ outcome = "accepted" /\ after = done \cup {b}
  \/ outcome = "rejected" /\ b \notin done /\ after = done
  \/ outcome = "unknown" /\ after \in {done, done \cup {b}}

-----------------------------------------------------------------------------
(* The engine: the order of its calls is that of CrashEngine.              *)

EngineStep(from, to) ==
  /\ stage = from
  /\ stage' = to
  /\ UNCHANGED <<entryVars, moneyVars, queueVars, handlers, sweep, old,
                 histVars, faults, restarts>>

CreateRound ==
  /\ EngineStep("create", "open")
  /\ round < MaxRounds
  /\ round' = round + 1
  /\ UNCHANGED bmVars

Engine ==
  \/ CreateRound
  \/ /\ UNCHANGED round
     /\ \/ EngineStep("open", "close") /\ Bets!OpenRound(round)
        \/ EngineStep("close", "start") /\ Bets!CloseBetting
        \/ EngineStep("start", "crash") /\ Bets!StartRound
        \/ EngineStep("crash", "reset") /\ Bets!Crash
        \/ EngineStep("reset", "create") /\ Bets!ResetRound

\* A player's cashout, by hand or automatic.
Cashout ==
  /\ \E i \in DOMAIN bets : Bets!Cashout(i, 1000)
  /\ UNCHANGED <<stage, round, entryVars, moneyVars, queueVars, handlers, sweep,
                 old, histVars, faults, restarts>>

-----------------------------------------------------------------------------
(* handleBet.                                                              *)

At(h, step) == handlers[h].step = step
BetOf(h) == handlers[h].bet
Goto(h, step) == handlers' = [handlers EXCEPT ![h].step = step]
Finish(h) == handlers' = [handlers EXCEPT ![h] = Idle]

HandlerOnly == UNCHANGED <<engineVars, queueVars, sweep, old, restarts>>

\* A handler of b is done, and nothing it wrote tells what is left to do.
Abandons(b, unmarked) ==
  abandoned' = IF unmarked THEN abandoned \cup {b} ELSE abandoned

\* The message arrives, for the first time or again, and CurrentRound answers.
Receive(h, b) ==
  /\ handlers[h] = Idle
  /\ round > 0
  /\ handlers' = [handlers EXCEPT ![h] = [step |-> "begin", bet |-> b, round |-> round]]
  /\ HandlerOnly
  /\ UNCHANGED <<entryVars, moneyVars, histVars, faults>>

\* Mutant: the handler of an entry that exists calls the wallet too.
ExistingDebits(b, r) ==
  IF ref[b] # r \/ debit[b] = "FAILED" THEN "idle"
  ELSE IF debit[b] = "PENDING" THEN "debit" ELSE "marker"

\* Where a message whose entry exists goes on.
Existing(b, r) ==
  IF ref[b] # r \/ debit[b] = "FAILED" THEN "idle"
  ELSE IF debit[b] = "PENDING" THEN "wait" ELSE "marker"

Continue(h, step) == IF step = "idle" THEN Finish(h) ELSE Goto(h, step)

Begin(h) ==
  /\ At(h, "begin")
  /\ LET b == BetOf(h)
         r == handlers[h].round
         Opens == debit' = Opened(debit, b) /\ ref' = [ref EXCEPT ![b] = r]
     IN \/ debit[b] = "NONE" /\ Opens /\ Goto(h, "debit") /\ UNCHANGED faults
        \/ /\ debit[b] # "NONE"
           /\ Continue(h, Existing(b, r))
           /\ UNCHANGED <<debit, ref, faults>>
        \/ /\ debit[b] = "NONE"
           /\ Fault /\ Finish(h)
           /\ Opens \/ UNCHANGED <<debit, ref>>
  /\ Abandons(BetOf(h), handlers'[h] = Idle /\ debit' # debit)
  /\ HandlerOnly
  /\ UNCHANGED <<refund, moneyVars, betHist>>

\* waitForLedgerResolution: the entry is decided, or the wait ends.
Wait(h) ==
  /\ At(h, "wait")
  /\ \/ debit[BetOf(h)] = "CONFIRMED" /\ Goto(h, "marker")
     \/ Finish(h)
  /\ HandlerOnly
  /\ UNCHANGED <<entryVars, moneyVars, histVars, faults>>

\* debitMarkedForRefund: a refund, or an error, refuses the bet.
CheckMarker(h) ==
  /\ At(h, "marker")
  /\ \/ refund[BetOf(h)] = "NONE" /\ Goto(h, "place")
     \/ Finish(h)
  /\ HandlerOnly
  /\ UNCHANGED <<entryVars, moneyVars, histVars, faults>>

\* Mutant: a debit without an answer is failed like one that is refused.
AfterDebitFails(outcome) ==
  IF outcome = "accepted" THEN "confirm" ELSE "fail"

AfterDebit(outcome) ==
  IF outcome = "accepted" THEN "confirm"
  ELSE IF outcome = "rejected" THEN "fail" ELSE "mark"

Debit(h) ==
  /\ At(h, "debit")
  /\ \E outcome \in {"accepted", "rejected", "unknown"} :
       /\ Asked(took, BetOf(h), outcome, took')
       /\ Goto(h, AfterDebit(outcome))
  /\ sends' = [sends EXCEPT ![BetOf(h)] = @ + 1]
  /\ HandlerOnly
  /\ UNCHANGED <<entryVars, gave, backing, staked, asked, played, abandoned, faults>>

\* The bet is placed whether the ledger confirms or not.
Confirm(h) ==
  /\ At(h, "confirm")
  /\ Goto(h, "place")
  /\ \/ debit' = Decided(debit, BetOf(h), "CONFIRMED") /\ UNCHANGED faults
     \/ Fault /\ debit' \in {debit, Decided(debit, BetOf(h), "CONFIRMED")}
  /\ HandlerOnly
  /\ UNCHANGED <<ref, refund, moneyVars, histVars>>

Fail(h) ==
  /\ At(h, "fail")
  /\ Finish(h)
  /\ \/ debit' = Decided(debit, BetOf(h), "FAILED") /\ UNCHANGED faults
     \/ Fault /\ debit' \in {debit, Decided(debit, BetOf(h), "FAILED")}
  /\ Abandons(BetOf(h), debit'[BetOf(h)] = "PENDING")
  /\ HandlerOnly
  /\ UNCHANGED <<ref, refund, moneyVars, betHist>>

OpensRefund(b) == refund' = IF refund[b] = "NONE" THEN Opened(refund, b) ELSE refund

\* Mutant: the refund of a debit without an answer is not marked.
MarkNothing(h) ==
  /\ At(h, "mark")
  /\ Finish(h)
  /\ HandlerOnly
  /\ UNCHANGED <<entryVars, moneyVars, histVars, faults>>

\* markDebitForRefund: an error is only logged.
Mark(h) ==
  /\ At(h, "mark")
  /\ Finish(h)
  /\ \/ OpensRefund(BetOf(h)) /\ UNCHANGED faults
     \/ Fault /\ (OpensRefund(BetOf(h)) \/ UNCHANGED refund)
  /\ Abandons(BetOf(h), refund'[BetOf(h)] = "NONE")
  /\ HandlerOnly
  /\ UNCHANGED <<debit, ref, moneyVars, betHist>>

\* Mutant: the bet is placed while the debit is being made.
PlaceEarly(h) == At(h, "place") \/ At(h, "debit")

CanPlace(h) == At(h, "place")

\* placeBetOrReuse: a bet on the panel is reused, any other error refunds.
PlaceBet(h) ==
  /\ CanPlace(h)
  /\ LET b == BetOf(h)
         result == Bets!PlaceBetResult(Player, PanelOf[b])
     IN \/ /\ Bets!PlaceBet(Player, PanelOf[b], 1)
           /\ backing' = [i \in 1..nextBet' |-> IF i = nextBet' THEN b ELSE backing[i]]
           /\ staked' = [staked EXCEPT ![b] = @ + 1]
           /\ played' = [played EXCEPT ![b] = @ \cup {ThisRound}]
           /\ Finish(h)
        \/ /\ result = "BET_EXISTS" /\ Finish(h)
           /\ UNCHANGED <<bmVars, backing, staked, played>>
        \/ /\ result \notin {"OK", "BET_EXISTS"} /\ Goto(h, "refund")
           /\ UNCHANGED <<bmVars, backing, staked, played>>
  /\ asked' = [asked EXCEPT ![BetOf(h)] = @ \cup {ThisRound}]
  /\ UNCHANGED <<stage, round, entryVars, moneyVars, queueVars, sweep, old,
                 sends, abandoned, faults, restarts>>

\* Mutant: nothing is enqueued when the entry could not be opened.
RefundOrNothing(h) ==
  /\ At(h, "refund")
  /\ \/ OpensRefund(BetOf(h)) /\ Goto(h, "enqueue") /\ UNCHANGED faults
     \/ /\ Fault /\ Finish(h)
        /\ OpensRefund(BetOf(h)) \/ UNCHANGED refund
  /\ HandlerOnly
  /\ UNCHANGED <<debit, ref, moneyVars, histVars>>

\* rollbackConfirmedDebit: the callback is enqueued even if its entry could
\* not be opened ...
Refund(h) ==
  /\ At(h, "refund")
  /\ \/ OpensRefund(BetOf(h)) /\ Goto(h, "enqueue") /\ UNCHANGED faults
     \/ /\ Fault /\ Goto(h, "enqueue_untracked")
        /\ OpensRefund(BetOf(h)) \/ UNCHANGED refund
  /\ HandlerOnly
  /\ UNCHANGED <<debit, ref, moneyVars, histVars>>

\* ... unless one with its id is there; an error is only logged.
Enqueue(h) ==
  /\ At(h, "enqueue") \/ At(h, "enqueue_untracked")
  /\ Finish(h)
  /\ LET b == BetOf(h)
         kind == IF At(h, "enqueue") THEN "tracked" ELSE "untracked"
         added == [queue EXCEPT ![b] = IF @ = "no" THEN kind ELSE @]
     IN \/ queue' = added /\ UNCHANGED faults
        \/ Fault /\ queue' \in {queue, added}
  /\ Abandons(BetOf(h), queue'[BetOf(h)] = "no" /\ refund[BetOf(h)] = "NONE")
  /\ UNCHANGED <<engineVars, entryVars, moneyVars, alerts, sweep, old, betHist,
                 restarts>>

HandlerStep(h) ==
  \/ \E b \in BetIds : Receive(h, b)
  \/ Begin(h) \/ Wait(h) \/ CheckMarker(h) \/ Debit(h) \/ Confirm(h) \/ Fail(h)
  \/ Mark(h) \/ PlaceBet(h) \/ Refund(h) \/ Enqueue(h)

-----------------------------------------------------------------------------
(* The callback queue, in one step (CallbackQueue has the details).        *)

Deliver(b) ==
  /\ queue[b] # "no"
  /\ queue' = [queue EXCEPT ![b] = "no"]
  /\ \E outcome \in {"accepted", "rejected", "unknown"} :
       LET to == IF outcome = "accepted" THEN "CONFIRMED" ELSE "FAILED"
           resolves == queue[b] = "tracked" /\ outcome # "unknown"
       IN /\ Asked(gave, b, outcome, gave')
          /\ refund' = IF resolves THEN Decided(refund, b, to) ELSE refund
          /\ alerts' = IF outcome = "accepted" /\ (~resolves \/ refund'[b] = to)
                       THEN alerts ELSE alerts \cup {b}
  /\ UNCHANGED <<engineVars, debit, ref, took, handlers, sweep, old, histVars,
                 faults, restarts>>

-----------------------------------------------------------------------------
(* The recovery sweeper.                                                   *)

Busy(b) == \E h \in Handlers : /\ handlers[h].step \in {"debit", "confirm", "fail", "mark"}
                               /\ BetOf(h) = b

SweepAt(step) == sweep.step = step
SweepGoto(step) == sweep' = [sweep EXCEPT !.step = step]
SweepEnds == sweep' = Idle
Target(step, b) == [step |-> step, bet |-> b, marked |-> refund[b] # "NONE",
                    pending |-> refund[b] = "PENDING"]

SweepOnly == UNCHANGED <<engineVars, ref, queueVars, handlers, old, histVars, restarts>>

\* recoverDebit: an old debit, still pending, and its marker.
SweepDebit(b) ==
  /\ sweep = Idle
  /\ debit[b] = "PENDING" /\ ~Busy(b)
  /\ sweep' = Target("send", b)
  /\ SweepOnly /\ UNCHANGED <<debit, refund, moneyVars, faults>>

\* Mutant: the age of the debit is not looked at.
OwesRefundIfMarked(b, marked) == marked

\* A debit accepted now is to be refunded if its handler said so, or died
\* with another process.
OwesRefund(b, marked) == marked \/ b \in old

SweepSend ==
  /\ SweepAt("send")
  /\ \E outcome \in {"accepted", "rejected", "unknown"} :
       /\ Asked(took, sweep.bet, outcome, took')
       /\ \/ /\ outcome = "accepted"
             /\ SweepGoto(IF OwesRefund(sweep.bet, sweep.marked) THEN "mark" ELSE "confirm")
          \/ outcome = "rejected" /\ SweepGoto("fail")
          \/ outcome = "unknown" /\ SweepEnds
  /\ SweepOnly /\ UNCHANGED <<debit, refund, gave, faults>>

\* The ROLLBACK entry is opened before the DEBIT is confirmed.
SweepMark ==
  /\ SweepAt("mark")
  /\ \/ /\ OpensRefund(sweep.bet)
        /\ sweep' = [step |-> "confirm", bet |-> sweep.bet, marked |-> TRUE,
                     pending |-> refund'[sweep.bet] = "PENDING"]
        /\ UNCHANGED faults
     \/ Fault /\ SweepEnds /\ (OpensRefund(sweep.bet) \/ UNCHANGED refund)
  /\ SweepOnly /\ UNCHANGED <<debit, moneyVars>>

SweepConfirm ==
  /\ SweepAt("confirm")
  /\ \/ /\ debit' = Decided(debit, sweep.bet, "CONFIRMED")
        /\ IF sweep.marked /\ sweep.pending THEN SweepGoto("send_refund") ELSE SweepEnds
        /\ UNCHANGED faults
     \/ /\ Fault /\ SweepEnds
        /\ debit' \in {debit, Decided(debit, sweep.bet, "CONFIRMED")}
  /\ SweepOnly /\ UNCHANGED <<refund, moneyVars>>

SweepFail ==
  /\ SweepAt("fail")
  /\ \/ /\ debit' = Decided(debit, sweep.bet, "FAILED")
        /\ IF sweep.marked /\ sweep.pending THEN SweepGoto("fail_refund") ELSE SweepEnds
        /\ UNCHANGED faults
     \/ /\ Fault /\ SweepEnds
        /\ debit' \in {debit, Decided(debit, sweep.bet, "FAILED")}
  /\ SweepOnly /\ UNCHANGED <<refund, moneyVars>>

MoneyStep(b) ==
  CASE debit[b] = "CONFIRMED" -> "send_refund"
    [] debit[b] = "FAILED" -> "fail_refund"
    [] OTHER -> "idle"

\* recoverMoney: an old rollback, still pending, whose debit is decided.
SweepMoney(b) ==
  /\ sweep = Idle
  /\ refund[b] = "PENDING"
  /\ MoneyStep(b) # "idle"
  /\ sweep' = Target(MoneyStep(b), b)
  /\ SweepOnly /\ UNCHANGED <<debit, refund, moneyVars, faults>>

SweepSendRefund ==
  /\ SweepAt("send_refund")
  /\ \E outcome \in {"accepted", "rejected", "unknown"} :
       /\ Asked(gave, sweep.bet, outcome, gave')
       /\ \/ outcome = "accepted" /\ SweepGoto("confirm_refund")
          \/ outcome = "rejected" /\ SweepGoto("fail_refund")
          \/ outcome = "unknown" /\ SweepEnds
  /\ SweepOnly /\ UNCHANGED <<debit, refund, took, faults>>

SweepResolveRefund ==
  /\ SweepAt("confirm_refund") \/ SweepAt("fail_refund")
  /\ SweepEnds
  /\ LET to == IF SweepAt("confirm_refund") THEN "CONFIRMED" ELSE "FAILED"
     IN \/ refund' = Decided(refund, sweep.bet, to) /\ UNCHANGED faults
        \/ Fault /\ refund' \in {refund, Decided(refund, sweep.bet, to)}
  /\ SweepOnly /\ UNCHANGED <<debit, moneyVars>>

SweepStep ==
  \/ \E b \in BetIds : SweepDebit(b) \/ SweepMoney(b)
  \/ SweepSend \/ SweepMark \/ SweepConfirm \/ SweepFail
  \/ SweepSendRefund \/ SweepResolveRefund

-----------------------------------------------------------------------------
\* The stake of b was in a handler's hands alone: it was about to place the bet,
\* or to give the stake back, and no entry or callback says that it is to be.
InHand(b) ==
  /\ \E h \in Handlers :
       /\ handlers[h].step \in {"place", "refund", "enqueue", "enqueue_untracked"}
       /\ BetOf(h) = b
  /\ debit[b] # "PENDING" /\ refund[b] = "NONE" /\ queue[b] = "no"

Restart ==
  /\ restarts < MaxRestarts
  /\ restarts' = restarts + 1
  /\ stage' = "create" /\ round' = 0
  /\ bmRound' = 0 /\ bettingOpen' = FALSE /\ running' = FALSE
  /\ bets' = [i \in {} |-> 0] /\ activePanels' = [k \in Bets!Keys |-> Bets!NoBet]
  /\ nextBet' = 0
  /\ backing' = [i \in {} |-> 0]
  /\ handlers' = [h \in Handlers |-> Idle] /\ sweep' = Idle
  /\ old' = {b \in BetIds : debit[b] # "NONE"}
  /\ abandoned' = abandoned \cup {b \in BetIds : InHand(b)}
  /\ UNCHANGED <<entryVars, moneyVars, queueVars, staked, sends, asked, played, faults>>

Next ==
  \/ Engine \/ Cashout \/ SweepStep \/ Restart
  \/ \E h \in Handlers : HandlerStep(h)
  \/ \E b \in BetIds : Deliver(b)

Spec == Init /\ [][Next]_vars

-----------------------------------------------------------------------------
(* What holds.                                                             *)

\* One handler, for ever, asks the operator for the stake of a bet id,
\* whatever retries, restarts and database errors come.
SentOnce == \A b \in BetIds : sends[b] <= 1

\* A bet of the engine is backed by a stake the operator took.
BetIsPaid == \A i \in DOMAIN bets : backing[i] \in took

\* While a round keeps its bets, a debit backs one of them: a bet id sent again
\* finds its panel taken, or betting closed, also after its bet was cashed out.
\* gateway.go:570 says it of any time (DebitBacksOneBet).
StakeBacksOneBet ==
  \A i, j \in DOMAIN bets : backing[i] = backing[j] => i = j

\* A debit left behind by a process that died is confirmed only once its
\* refund is on record: a crash in between loses nothing.
LateConfirmRefunds ==
  [][\A b \in old : debit[b] = "PENDING" /\ debit'[b] = "CONFIRMED" => refund[b] # "NONE"]_vars

\* Whatever the handlers, the queue and the sweeper do, with errors and restarts:
\* a stake is taken once, after its entry is opened and before it is decided,
\* comes back only if it was taken, and what the ledger decides is what the
\* operator did.
Purse == INSTANCE Purse WITH
  money <- [b \in BetIds |-> IF b \in gave THEN "back"
                            ELSE IF b \in took THEN "operator" ELSE "player"],
  word <- debit
ImplementsPurse == Purse!PurseSpec

\* The engine here makes its calls on the bets in the order that CrashEngine is
\* held to as well, that of BetCycle, with restarts.  A round that is created
\* has a number before its bets open.
CycleStage == IF stage = "open" THEN "create" ELSE stage
CycleRound == IF stage = "open" THEN round - 1 ELSE round

Cycle == INSTANCE BetCycle WITH
           Users <- {Player}, Panels <- {PanelOf[b] : b \in BetIds},
           Amounts <- {1}, RoundIds <- 1..MaxRounds, Raws <- {1000},
           MaxInt <- 1000, NoRound <- 0,
           stage <- CycleStage, round <- CycleRound

ImplementsCycle == Cycle!CycleSpec

\* gateway.go:578 takes a bet on the panel for one of the same bet id: it may be
\* that of another bet id, placed in the round in which b asks for its own.
PanelTaken(b) ==
  \E c \in BetIds \ {b} : PanelOf[c] = PanelOf[b] /\ asked[b] \cap played[c] # {}

\* A stake that is nowhere: taken, not given back, no bet made of it, nobody at
\* work on it, and nothing durable that will bring it up again.
Lost(b) ==
  /\ b \in took \ gave
  /\ staked[b] = 0
  /\ \A h \in Handlers : handlers[h] # Idle => BetOf(h) # b
  /\ sweep # Idle => sweep.bet # b
  /\ debit[b] # "PENDING"
  /\ refund[b] \notin {"PENDING", "FAILED"}
  /\ queue[b] = "no"
  /\ b \notin alerts

\* Whatever retries, errors and restarts come, a stake is only lost to another
\* bet id on its panel in the same round, or because an error or a restart kept
\* a handler from writing what becomes of it.  Of a refund one failed write is
\* not enough: its entry and its callback make up for each other.
StakeTraced == \A b \in BetIds : Lost(b) => PanelTaken(b) \/ b \in abandoned

-----------------------------------------------------------------------------
(* What the comments say, and the code does not always do.                 *)

\* gateway.go:573: neither the one who places the bet nor the one who finds it
\* triggers a new movement of money: a bet of the engine is not refunded.
PlayedNotRefunded == \A i \in DOMAIN bets : refund[backing[i]] = "NONE"

\* recovery_hooks.go:39: a refund exists for this debit, the bet must never be
\* placed then.
RefundedNotPlaced ==
  [][\A i \in DOMAIN bets' \ DOMAIN bets : refund[backing'[i]] = "NONE"]_vars

\* gateway.go:570: a confirmed debit never makes two bets in the engine.
DebitBacksOneBet == \A b \in BetIds : staked[b] <= 1

\* gateway.go:573: a bet found on the panel is the one of this bet id, and needs
\* no movement of money: a stake is lost to nothing but a failed write.
PanelIsOwn == \A b \in BetIds : Lost(b) => b \in abandoned

\* recovery.go:266: a debit of this process that the sweeper confirms without
\* a refund is one whose bet was placed.
PresumedPlaced == SweepAt("confirm") /\ ~sweep.marked => staked[sweep.bet] > 0
=============================================================================
