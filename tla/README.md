# A TLA+ verification of 223Crash

223Crash is the server of a crash game. A multiplier climbs from 1.00 until a
point drawn in advance; a player stakes an amount before the flight and wins
the stake times the multiplier if he cashes out before the crash. Stakes and
wins move in the operator's wallet, over the network, and every movement is
recorded in a ledger kept in MongoDB.

This directory holds TLA+ modules translated from the Go code, the TLC
configurations that check them on small instances, and proofs checked by TLAPS
that hold for every value of the constants. `PROJECT.json` lists the components,
the runs, the mutants that show each property can be broken by a plausible bug,
the source lines of each definition, the findings, the hazards and the theorems.

    tlc -config MCStakeFlow.cfg MCStakeFlow
    tlapm LedgerProofs.tla

## 1. Inventory

| component | source | state | operations | what is hard |
|---|---|---|---|---|
| Bet manager | `internal/game/bet_manager.go` | bets and panels of a round, two flags, a counter | OpenRound, CloseBetting, StartRound, PlaceBet, Cashout, Crash, ResetRound | concurrent settlement, arithmetic of payouts |
| Round manager | `internal/game/round_manager.go` | current round, stamps, a bounded channel | CreateRound, OpenBetting, CloseBetting, Start, Crash, Settle, Reset | order of transitions and stamps, dropped events |
| Crash engine | `internal/engine/crash_engine.go` | the loop's position, seeds, crash point, multiplier, event channel | the loop of Run; PlaceBet and Cashout of any goroutine | three locks, stale multiplier, blocking sends, cancellation |
| Fairness | `internal/engine/fairness.go` | none | seed, crash point | rounding, HMAC |
| Ledger | `internal/provider/ledger` | entries, unique by idempotency key | Begin, Confirm, Fail, reads | lost replies, concurrent decisions |
| Callback queue | `internal/wallet/queue.go`, `queue_mongo.go` | durable callbacks, leases, dead letters | Enqueue, lease, send, resolve, retry, dead letter, remove | expired leases, failure between any two writes |
| Wallet client | `internal/wallet/client.go` | none | Send, Debit, GetBalance | an answer that never comes |
| Recovery sweeper | `internal/provider/recovery` | the list and the count of the sweep under way | RunOnce, recoverDebit, recoverMoney | races with handlers and the queue, restarts, a bounded batch |
| Gateway: stakes | `cmd/server/gateway.go`, `recovery_hooks.go` | none of its own | handleBet, placeBetOrReuse, rollbackConfirmedDebit, the refund marker | retries of a bet id, restarts, unknown debits |
| Gateway: cashouts | `cmd/server/gateway.go`, `main.go` | connections, activeBets | register, rehydrate, handleCashout, checkAutoCashout, notifyLostBets | stale ticks, reconnection, competing settlements |
| Credit settlement | `cmd/server/credit_settle.go` | settlements under way | Settle and its background retries | restarts, lost replies, repeated keys |
| Gateway: sending, admission | `gateway.go`, `wssec.go` | clients, sockets, done, send buffers, connection count, rate limits | handleUpgrade, readPump, writePump, acquire, release, trySend, broadcast, validateToken | three goroutines per connection, replaced connections, silent peers |
| Mongo bridge | `internal/mongobridge` | a capped collection of published events | publish, store, subscribe | lost publications, eviction |
| Verification endpoint | `cmd/server/verify.go` | none | handleVerify | two reads among publications, numbers used again after a restart |
| Join and balance helpers | `join_sync.go`, `balance_push.go`, `prodguard.go` | none | syncRoundState, refreshBalance | order of messages to the page |
| Tools, mock wallet, translations, front end | `cmd/gentoken`, `cmd/mongoinspect`, `cmd/mockwallet`, `internal/i18n`, `cmd/*_i18n`, `*.js`, `index.html` | none of the game | | |

How they interact. The engine's loop drives the round manager and the bet
manager, each under its own mutex, and puts events in a channel that
`forwardEvents` drains. A connection's reader (`readPump`) serves the player's
messages one by one: a bet opens a DEBIT entry in the ledger, asks the
operator's wallet for the stake, decides the entry, and then places the bet in
the engine; when the bet is refused it opens a ROLLBACK entry and enqueues a
callback. A cashout, by hand or by `forwardEvents` on a tick, takes the bet in
the engine and then settles the win: a CREDIT entry, and a callback. The queue
delivers callbacks and decides their entries. The sweeper takes up the entries
that stay PENDING, whoever left them so. `forwardEvents` also publishes the hash of
a round's seed when its betting opens and the seed when it has crashed;
`handleVerify`, on another port, reads both back.

What makes each part correct:
- bets: one pending bet per panel, settled once, paid exactly;
- rounds and engine: the two state machines stay in step, no cashout pays above
  the crash point, neither the crash point nor the seed of a round is told to the
  players before its bets are over (the crash point is in the engine's events from the
  betting on, and what `forwardEvents` passes on keeps it secret), rounds end;
- ledger: one creator per key, decisions are final, answers are true;
- queue: a callback never vanishes, CONFIRMED means applied, disagreements stay
  visible, the queue drains;
- stakes: one debit per bet id, a bet is backed by a stake, a stake that made no
  bet comes back or is on record (unless another bet id had the panel), a stake in
  play is not refunded;
- wins: settled once, in the end, and never sent without a ledger entry;
- sweeper: whatever can be decided is reached, whatever stays undecided;
- connections: the count is exact on every path, a player served is known, places
  come back;
- verification: no seed is out before its crash, an honest round is not denied.

## 2. Modules

| module | models | relies on |
|---|---|---|
| `BetManager` | bet manager, arithmetic of `calculatePayout` included | |
| `RoundManager` | round manager | |
| `CrashEngine` | the loop, statement by statement, with players and consumer | INSTANCE `BetManager`, `RoundManager`; implements `CrashGame`, `BetCycle` |
| `CrashGame` | abstract: what the game promises to a player | |
| `BetCycle` | abstract: what the other parts rely on in the loop, the order of its calls on the bets | EXTENDS `BetManager` |
| `LedgerContract` | abstract: what the other parts rely on in the ledger | |
| `Ledger` | the ledger over its database | implements `LedgerContract` |
| `Outbox` | abstract: what is promised about callbacks, the ledger's word and the dead letters | |
| `CallbackQueue` | queue, operator, and a sweeper beside them | the ledger by its contract; implements `Outbox` |
| `Purse` | abstract: where a stake is and what the ledger says of it | |
| `StakeFlow` | handleBet, recovery hooks, sweeper, restarts | INSTANCE `BetManager`, the ledger by its contract; implements `Purse`, `BetCycle` |
| `AutoCashout` | connections, cashouts, `forwardEvents` | INSTANCE `BetManager`; implements `BetCycle` |
| `CreditSettle` | settlement of wins, restarts | the ledger by its contract |
| `Sweep` | RunOnce: the list, the batch, the ages | entries as the ledger keeps them |
| `Connections` | handleUpgrade, readPump, writePump, the count of connections | |
| `Verification` | the published announcement and end of each round, handleVerify, restarts | EXTENDS `RoundManager` |
| `*Proofs` | proofs of `BetManager`, `CrashEngine`, `Ledger`, `CallbackQueue`, `StakeFlow`, `Verification`; `WinProofs` is about `AutoCashout` and `CreditSettle`, `LimitsProofs` about `Connections` and `Sweep` | TLAPS |
| `MC*` | values for TLC | |

### How state and actions correspond to the code

*BetManager.* Every method holds `bm.mu`, so each is one action; its guard is the
conjunction of the early returns. `bets` maps the number of a bet (`bet-N` in the
code) to its record and `activePanels` is the map of the same name. A raw
multiplier is in thousandths and `Normalize` cuts it to hundredths as
`normalizeMultiplier` does. `Wrap` is two's complement arithmetic at a
parameterised width (`MaxInt`), so the overflow test of `calculatePayout` is checked with
products that really wrap.

*RoundManager.* The five transitions share `Transition`, as the code does. `Publish`
drops the event when the channel is full. `Verification` calls its methods in any order
with any time stamp: refusals are then visible. `Reset` and the manager's own channel have no
caller in the program; `MCRoundManager.cfg` checks the module by itself.

*CrashEngine.* `pc` names the next critical section of the loop. Anything that takes
a lock is a step; calls of players fall between any two. `Cashout` is two steps,
because it reads the multiplier under `e.mu` and uses it under `bm.mu`. `Emit`
drops when the channel is full, whereas `SendRoundCreated` and `SendCrash` wait,
like the two bare sends of the code. `Stop` models the select of `sleep`. An event
carries what the code puts in it: every one of `emit` has the crash point of its round, which
is drawn before the bets open. `Forwarder` is `forwardEvents`: `Receive` takes an event and
`Tells` says whether it passes the crash point or the seed on (`told` remembers for which rounds);
`StopForwarding` returns on the context that stops the loop too, so it may be gone first.

*Ledger.* Each access to MongoDB is a step which may fail, before or after its
effect. `Begin` is `Insert`, then `Reread` on a duplicate; `Confirm` and `Fail` are
`Update`, then `Check` when nothing PENDING was found.

*CallbackQueue.* `place` is where a callback is (not yet enqueued, due, leased or
delayed, removed); `work` is a worker's copy of it. A lease may expire while its
holder still works. The operator honours idempotency keys, may apply a callback
and lose the answer, and may refuse what it has not applied.

*StakeFlow.* A handler is a connection's reader inside `handleBet`; its `step` is the
next access to the ledger, the wallet, the queue or the engine. `took` and
`gave` are what the operator really applied. Of each bet id the histories `asked` and `played`
keep the rounds, of any process, in which its bet was asked for and placed, and `abandoned` the bet ids
a handler left, failed by the database or ended by a restart, with nothing written that says what
to do. `Restart` forgets the handlers, the
sweep and the engine, whose rounds and bets are numbered from one again, and
keeps the ledger and the queue.

*AutoCashout.* `active` is `activeBets`; `readers` and `forwarder` hold what each
goroutine read and has not yet used. `Receive` copies the connected clients as
`checkAutoCashout` does, and `Check` looks at one of them.

*CreditSettle.* `BeginOnce` is run by `Settle` and then by the goroutine of
`scheduleBeginRetry`; a database error may hide an entry that was inserted.

*Sweep.* `list` maps what the sweep has still to look at, in the order of creation, to
its age when the list was read, and `handled` counts as the variable of the code does; what
is done with one entry is one step. `seen` and `erred` are history: what the sweep under way
has looked at, and what met an error of the database or a lost answer.
An entry the operator never answers is `mute`. Meanwhile entries are opened,
decided, and grow older through the three ages the code compares with.

*Connections.* A connection is a slot with a step for each of its goroutines
(`upgrades`, `readers`, `writers`). `acquire` is two steps, as its two atomic additions
are. A socket is `open` until someone of the server closes it and `alive` while its peer answers;
a read fails when it is either closed or silent past its deadline.

*Verification.* A round of the world is a process and a number, and stands for its
seed, its hash and its crash point. `channel` is the engine's channel, `docs` the
capped collection: a publication may fail, the oldest document may go, a restart
loses the channel and keeps the collection. `request` is between the two reads of
handleVerify or has answered.

*BetCycle.* `stage` is the call the loop makes next and `round` the last round opened. The bets
are those of `BetManager`, whose calls it puts in order. `CrashEngine` maps `pc` to the
stage; `AutoCashout` and `StakeFlow` have a stage of their own, with one or two names
more. A restart, of `StakeFlow`, begins another cycle.

*Purse.* `money` is where a stake is (player, operator, back) and `word` the status of
its DEBIT. `StakeFlow` maps `took` and `gave` to the first and `debit` to the second.

*Outbox.* `held` is whether a callback was enqueued, is in the queue or has left it, and
`word` the status of its entry. Leases, attempts, workers, sweepers and crashes are gone: `CallbackQueue`
maps `place` to the first and `ledger` to the second, and every step of a worker is one of
the six movements or a stutter. A worker whose lease expired may thus decide
nothing that is decided, and remove only what is accounted for.

## 3. Runs

Twelve runs, one for each question. Each passing property has a mutant: a variant of one definition, as a plausible
bug would write it, under which TLC finds the property violated in the same run.

| run | instance | what it shows |
|---|---|---|
| `bet_manager` | 2 players, 2 panels, 3 bets, 2 rounds, 9-bit integers | PanelIndexExact, PayoutExact, SettledOnce, BetNumbersFresh |
| `verification` | 2 processes of 2 rounds, 3 instants | StampsFollowLife, ProcessMovesForward, NoEarlyReveal, HonestVerifies |
| `crash_engine` | 1 player, 2 panels, a concurrent cashout, 2 rounds, channel of 1 | CashoutUnderCrash, PhasesAgree, NeverRefused, RevealAfterPlay, ImplementsGame; in the end RoundsSettle, BetsResolve, CancelStops |
| `ledger` | 2 callers, 2 keys, 2 transactions | OneOwner, AnswersTrue, ImplementsContract |
| `callback_queue` | 2 processes, a callback with an entry or without, 2 attempts, 2 errors or crashes | NothingVanishes, DisagreementTraced, ImplementsOutbox; in the end Drains |
| `stake_flow` | 2 connections, 2 rounds: 1 bet id with 2 errors, or 1 and a restart; or 2 bet ids on one panel | SentOnce, BetIsPaid, StakeBacksOneBet, LateConfirmRefunds, StakeTraced, ImplementsPurse |
| `auto_cashout` | 1 player, 2 connections one after the other, 2 rounds, channel of 1 | WinsSettledOnce; in the end WinsSettled |
| `credit_settle` | 2 bets per process, 2 errors, 1 restart, 1 background attempt | TracedBeforeSent, OneCallback; in the end WinsRegistered |
| `connections` | 2 connections of a player and 1 of another, 2 places | CountExact, NeverOver, ServedIsKnown; in the end PlacesReturn |
| `sweep` | a batch of 2, 3 entries, 1 error | PassedIsDecided; in the end Reached |

TypeOK and ImplementsCycle are proved and have no run (section 5); TLC agrees on the instances
of these runs. ConfirmedIsApplied is part of ImplementsOutbox. `MCCallbackQueue` follows one callback at a time, with
a ledger entry or without: callbacks share nothing but workers, and a worker
holds one of them. Drains would fail with callbacks enqueued again for ever, since
the lease takes any callback that is due; the program enqueues a
callback a bounded number of times.

Some properties carry their condition in their statement. StakeTraced allows a stake to be lost
for two reasons: a bet of another bet id was placed on its panel in a round in which
its own was to be placed (`PanelTaken`, which the code takes for a retry), or an error or a restart
kept a handler from writing what becomes of it (`abandoned`). A bet of another round is no
reason, nor is one failed write of a refund, whose entry and callback make up for each
other. `stake_flow` checks it with errors and a restart, and with two bet ids on the panel in one round and in
two. Its two constraints bound the instance: `FailureBound` on errors and restarts, `TogetherBound`
on behaviours with both bet ids (neither error nor restart, and one connection at work at a time from the second
round on); the theorem StakesTraced has no such bound. RoundsSettle, BetsResolve and CancelStops end with the loop, or with a loop that is
`Stranded`: cancelled, at a bare send on a full channel, its consumer gone. WinsRegistered asks that
the process lives and the database fails at most as often as the goroutine tries;
without that it does not hold, and the code says so in its logs. Reached asks
that from some time on fewer than a batch of entries are stuck (`Stuck`: muted, or the rollback
of a debit nobody decides): a batch of them starves the rest. HonestVerifies
names the three ways an honest round goes unverified: its announcement was lost or is
gone, it could not be read, or an earlier process announced the same number.

Why the bounds are enough to be of interest: every disjunct of every next-state
relation fires; there are two of whatever competes (callers, processes,
connections), two rounds wherever something may survive a round, a
channel small enough to be full in every phase, one restart wherever something
durable is found again, and fewer attempts than errors can consume wherever
giving up is a case. In `stake_flow` the connections are interchangeable, and so are the bet ids, whose panel
is the same: a symmetry set says so. A property that survives them may still fail on larger
instances; the theorems of section 5 close that gap where there is one.

### Disagreements between the code and what it says

Each of these two runs checks one property that a comment states, and TLC shows
how the code breaks it.

| run | property | what happens |
|---|---|---|
| `stake_retry` | PlayedNotRefunded | a bet id sent again after betting has closed is refunded although its bet is in play |
| `credit_keys` | KnownIsMine | bets are numbered from one in every process: a later win finds an old entry and is taken for it |

Nine more were met while modelling. Their configurations are kept to be run by
hand, and end with the counterexample:

| configuration | property | what happens |
|---|---|---|
| `MCStakeFlowPanel.cfg` | PanelIsOwn | two bet ids on one panel: the second is debited, answered with the first one's bet, and never refunded (`gateway.go:573`) |
| `MCAutoCashoutTracked.cfg` | LiveBetTracked | a page reloaded while its bet waits for the wallet: the new connection never tracks the bet (`recovery_hooks.go:54`) |
| `MCSweepStarved.cfg` | ReachedAnyway | a batch of entries that no sweep can decide keeps every later one from being looked at (`recovery.go:74`) |
| `MCVerificationRestart.cfg` | HashOfTheRound | a round is checked against the hash an earlier process announced under its number (`verify.go:17`) |
| `MCStakeFlowMarked.cfg` | RefundedNotPlaced | the check of the refund marker and the placing are two steps: a refund opened in between is not seen (`recovery_hooks.go:39`) |
| `MCStakeFlowTwice.cfg` | DebitBacksOneBet | after a restart, in the round of the same number, a confirmed debit backs a second bet (`gateway.go:570`) |
| `MCStakeFlowPresumed.cfg` | PresumedPlaced | when the marker could not be written, the sweeper confirms a debit that made no bet (`recovery.go:266`) |
| `MCAutoCashoutStale.cfg` | AutoAtTarget | a tick left in the channel is served in the next round and cashes out under the target (`gateway.go:221`) |
| `MCCrashEngineStuck.cfg` | EventNeverBlocks | two events are bare sends (`crash_engine.go:257`, `382`), and the consumer returns on the loop's own context (`main.go:184`): the loop may wait for ever at a full channel (`crash_engine.go:416`) |

Only part of the comments is refuted: a stake is lost to another bet id of its panel and round, or to
failed writes, and to nothing else (StakeTraced); the other properties of `stake_flow` survive
errors and a restart. A debit backs one bet for as long as the round keeps its bets
(StakeBacksOneBet), so DebitBacksOneBet needs a restart or a next round. A win answered as known
always has an entry of its key and its amount (KnownIsNamesake, proved), which is its own until
the first restart: KnownIsMine fails by repeated numbers and by nothing else.

## 4. Fairness

- `CrashEngine`: weak fairness of the loop (the scheduler runs it; every wait of
  the loop is a timer, or a send) and of the consumer, `forwardEvents`, until it returns: it
  has the loop's context, so once that is cancelled it need not receive again, and the fairness of
  `Forwarder` only says that it receives or returns. That its handling of an event comes to an end
  is an assumption about the driver: a send to a page drops when its buffer is full, but a publication has no time
  limit of its own beyond the 10 s the driver gives to finding a server (`store.go:35`) and its watch on connections.
  No fairness on players, ticks beyond the loop's own, or cancellation.
- `CallbackQueue`: weak fairness of each worker (`Run` polls every second) and of the
  passage of time. None on the operator, which may never answer, nor on the sweeper.
- `AutoCashout`: weak fairness of `forwardEvents` and of a reader that is serving a
  message: every access has a timeout, and publications are taken to end as above. None on
  players or on the engine.
- `Connections`: weak fairness of each goroutine (`Handshake`, `Reader`, `Writer` of each
  connection): the wallet and the socket have time limits, so none waits for ever. `Read` is
  not in it: a peer need not send anything, nor anyone connect, nor a peer go.
- `Sweep`: weak fairness of the sweeper: `Run` is a ticker, and every call of a sweep answers or times out. None on
  handlers, the queue, or the passage of time.
- `CreditSettle`: weak fairness of each settlement, which is a goroutine with a
  timer. None on the queue or the sweeper.

## 5. Proofs

| module | theorems | for every |
|---|---|---|
| `BetManagerProofs` | TypeOK, PanelIndexExact, BetsOfCurrentRound, PayoutExact, SettledOnce, BetNumbersFresh | players, panels, amounts, multipliers, width of integers |
| | of `BetCycle`: FlagsTellStage, NonePending | the same |
| `CrashEngineProofs` | TypeOK, CashoutUnderCrash, NeverRefused, PhasesAgree, RevealAfterPlay, ImplementsGame, ImplementsCycle | players, concurrent calls, crash points, ticks, channel size |
| `LedgerProofs` | TypeOK, OneOwner, AnswersTrue, DecisionsFinal, ImplementsContract | callers, keys, transactions |
| `CallbackQueueProofs` | TypeOK, NothingVanishes, ConfirmedIsApplied, DisagreementTraced, ImplementsOutbox | callbacks, processes, attempts, number of errors |
| `StakeFlowProofs` | TypeOK, SentOnce, BetIsPaid, StakeBacksOneBet, LedgerTellsDebit, RefundFollowsDebit, LateConfirmRefunds, ImplementsPurse, ImplementsCycle, StakeTraced | bet ids, handlers, rounds, bets, errors, restarts |
| `WinProofs` | of `AutoCashout`: TypeOK, WinsSettledOnce, ImplementsCycle | players, connections, targets, ticks, rounds, bets |
| | of `CreditSettle`: CreditTypeOK, TracedBeforeSent, OneCallback, KnownIsNamesake, KnownIsMine before a restart, WinsAccounted, RegisteredInTime | bets, amounts, attempts, errors, restarts |
| `LimitsProofs` | of `Connections`: TypeOK, CountExact, NeverOver, ServedIsKnown | connections, players, places |
| | of `Sweep`: SweepTypeOK, PassedIsDecided, FullBatchDecides | batch, entries, errors |
| `VerificationProofs` | VerificationTypeOK, StampsFollowLife, NoEarlyReveal, HonestVerifies, ProcessMovesForward | rounds, instants, processes |

*BetManager.* `IInv` is TypeOK with PanelIndexExact and BetsOfCurrentRound: none of
the last two is inductive alone, for Crash frees the panels of the bets of the
round only, and a stale bet would keep its panel. PayoutExact rests on
`AcceptedPayout`: the test before the product bounds it so that it cannot wrap.

*CrashEngine.* `pc` determines the state of both machines (`PcInv`), which gives
PhasesAgree and NeverRefused. CashoutUnderCrash needs `CallInv` on top: a
multiplier read for a bet that is still in the map was read in that bet's own
round, and is under its crash point unless the flight is over, in which case the
bet cannot be paid any more.

RevealAfterPlay needs `RevealInv`: the rounds are numbered in order; each event in the channel is
`Harmless`, one that is a crash or has a seed being of a round that is over (`RoundOver`); and so is
each round told. No later step can undo it, for a round that is over stays so. Nothing is said of the crash
point in the other events: that those are not passed on is `Tells`, as in the code.

ImplementsGame adds `GameInv`: the invariant of BetManager (by INSTANCE of its proofs), a
crash point drawn as soon as the bets have a round, and no payout on a pending bet.
`StepKinds` sorts the steps into those that touch the bets (`GameMoves`) and the rest, which
stutter; a bet placed is a wager on a free seat because the index of panels is exact, and
a cashout wins the exact product because `AcceptedPayout` rules out a wrapped one.

ImplementsCycle needs of the invariants that `pc` tells where the machines are, that the round whose
bets open is the last one created, and that a bet in flight is paid a tick or 1.00
(`Fine`). `AutoCashout` and `StakeFlow` are proved to implement the same `BetCycle`
with simple engines of their own, so no result about them rests on an order of
calls the loop never makes. (That their engines allow all that the loop does is read off the
two modules, not proved.) Of BetCycle itself `CycleInv` shows that the flags tell the
stage, and that no bet is pending when the bets are reset, which would drop it.

*Ledger.* `IInv` adds to TypeOK that pending calls only know transactions that
exist (`CallsKnown`) and that an entry, once there, keeps its key. The refinement
maps an entry to the operation of its key, and each answer to the one told.

*CallbackQueue.* The strengthening (`WorkOK`, `SweepOK`) says what each position of a
worker or a sweeper knows: a copy about to be removed is accounted for. `Shape`
sums every action up as one of four effects on the shared state (ask, rule, bury,
rest); what a worker knows is stable under all four (`SoundKept`), so a step of
one process does not disturb the others. For ImplementsOutbox one more fact is needed, that
the callback a worker has was enqueued (`WorkPlaced`): the four effects are then movements of
`Outbox`, and a crash, a lease or a delay stutters.

*StakeFlow.* What a handler knows of its stake is said for each of its steps
(`HandlerKnows`), likewise for the sweeper (`SweepKnows`), and whoever makes or decides
a debit is alone with it (`HandlersApart`): its entry was opened by one handler, and the sweeper
takes it up only when that handler is not at work on it. With `LedgerTellsDebit` and
`RefundFollowsDebit` these are inductive, and give SentOnce and BetIsPaid.
ImplementsPurse maps every step to a movement, a word of the ledger, or a stutter (`StepPurse`). The bets of
the engine bring in `BetManagerProofs` by INSTANCE, and `Restart` begins them anew.

StakeTraced is proved from `Traced`, without an assumption on panels, errors or restarts. A debit that is
confirmed is accounted for (`Accounted`): a handler is at work on it, its bet was placed, its refund
has an entry, a callback or an alert, or came back; or else its panel was taken or it was abandoned. A
debit that is pending is so too, unless it is of a process that died: then the sweeper confirms it only
with its refund on record. The hard case is a bet found on the panel. It was placed in the
round that still holds it (`BetsPlayed`), so it is the bet of this bet id, or another bet id's of the very round in
which this one is asked for, which is what `PanelTaken` says and no later step takes back.

StakeBacksOneBet: a bet is on the panel of its bet id (`Seated`) and
alone there (`SeatsApart`). That a cashout frees the panel would break the second, but a bet is placed
at one stage of the engine and settled at another (`Window`): while betting is open every bet
of the round is pending, and a free panel has none (PanelIndexExact, `FreePanel`).

*AutoCashout.* The invariant says who holds a win that is not yet settled: a reader or the forwarder,
and no two of them (`HeldByOne`); a win nobody holds was settled once (`SettledOrHeld`). A pending
bet was not won (`PendingUnwon`), and the engine refuses to cash out any other, so the win is
handed to who asked, once, whatever ticks and clients he remembers. The bets bring in
`BetManagerProofs` by INSTANCE.

*CreditSettle.* A key without an entry was never enqueued (`KeyUntouched`), and who is
about to enqueue created the entry and is alone to do so (`EnqueuesAlone`). An entry is of a win
under its key and of that win's amount (`EntryOfWin`), and the wins of a process are under
numbers it has given (`WinsNumbered`): the entry a win is taken for is its own, or one of an
earlier process.

WinsAccounted says of a settlement that is over why its win may not be on record under its key: its
process died, or it was given up after more errors than it tries. An attempt is only put off by an
error, so that `tries` never exceeds `faults` (TriesAreFaults); and who enqueues has opened the
entry itself (EnqueuesOwn). RegisteredInTime, the safety half of WinsRegistered,
follows: of a settlement that is over before the first restart, with no more errors than
tries, the win is on record as its own. That a settlement is over in the end is left to TLC.

*Connections.* The place of a connection is held by its upgrade or its reader, never
by both (`OneHolder`), so the count is a cardinality that each step changes by one
as it changes `conns`. ServedIsKnown is inductive from the registration on.

*Sweep.* `SweepInv`. The entries only grow (`Grown`): more of them, older, each decided once and never again; that
is shown of each action once and used everywhere. The list is in order and behind it
lies what was seen (`InOrder`). The hard case is a refund that is looked at while its debit is undecided, which
happens although a refund is always younger than its debit: the debit was then pending when the
list was read, so it was listed (`DebitsListed`), passed before, and is itself excused. A batch counts
the places it took (`BatchExact`), a cardinality, so a batch that is full without an error
and decided nothing consists of entries without an answer, or refunds of such: `Hopeless` ones.

*Verification.* The documents are in the order of their processes (`DocsInOrder`), and
whatever tells the end of a round has its announcement ahead of it, in the
collection or the channel, or lost (`Announced`). So the oldest announcement of a number found is
the round's own or that of an earlier process. The oldest exists because the indices
are well-founded (`LeastExists`).

Assumptions are those named in the modules (`CreditConstants`, `LedgerConstants`,
...): bounds are naturals, a foreign transaction is not one that can be drawn.
TLC evaluates them in every run.

Only model-checked: all liveness (RoundsSettle, BetsResolve, CancelStops, Drains, WinsSettled,
WinsRegistered, PlacesReturn, Reached), which is out of the prover's reach. Every invariant and action
property of the passing runs, and every refinement, is proved.

## 6. What is not modelled

- Time, apart from order: delays, leases and ages are events that may happen at
  any moment; how late a settlement is cannot be said. In StakeFlow the 30 s age
  before a sweep keeps it from meeting a debit its handler is still making.
- Cryptography and floating point: the crash point is any of `CrashPoints`.
- The arithmetic of backoff and of the rate limiter (time and floating point), the
  conversion of a message's amount, the contents of outgoing buffers.
- The order of the messages a page receives (`join_sync.go`, `balance_push.go`): what they do is in
  the page.
- Of the Mongo bridge, ticks, player events and commands, which have no reader in the server.
- Authentication, HTTP, signing, translations, the front end, command line tools.

## 7. Plan

Order of work, the most important behaviour first.

1. Done: the modules of section 2 and the proofs of section 5.
2. Left: `CrashPoint` (the arithmetic of crashFromX in integers: bounds and
   monotonicity) and the page's view of a round, if the front end is ever modelled.
3. Left: a property for the stake that is played and then refunded by the sweeper after
   a failed Confirm and a restart, which the hazards list without one.
