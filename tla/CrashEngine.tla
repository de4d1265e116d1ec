----------------------------- MODULE CrashEngine -----------------------------
(***************************************************************************)
(* internal/engine/crash_engine.go: the goroutine that plays the rounds,   *)
(* composed with the round state machine, the bets, the players' calls and *)
(* the consumer of the engine's events.                                    *)
(*                                                                         *)
(* Three locks meet here: RoundManager.mu, BetManager.mu and e.mu.  Every  *)
(* critical section of the loop is an action of its own, so players'       *)
(* calls fall between any two of them; pc says which comes next.  A call   *)
(* of emit follows its transition in the same action (the channel has one  *)
(* producer, this loop).  Cashout is two steps: the multiplier is read     *)
(* under e.mu, and used under BetManager.mu later.                         *)
(*                                                                         *)
(* Data: a seed is the number of its generation; its hash, and the client  *)
(* seed derived from it, are that number too (hashes do not collide); 0 is *)
(* a secret or absent seed.  The crash point is in hundredths, the         *)
(* multiplier, a raw float in the code, in thousandths.  Time stamps       *)
(* are not compared in the loop: every one is instant 1.                   *)
(***************************************************************************)
EXTENDS Integers, Sequences, FiniteSets

CONSTANTS
  Users, Panels, Amounts, MaxInt,
  CrashPoints,  \* crash points a round may draw
  Ticks,        \* raw multipliers the ticker may observe
  Callers,      \* goroutines that call Cashout
  MaxRounds,    \* bound on rounds played
  MaxBets,      \* bound on bets placed
  EventBuffer,  \* capacity of both event channels
  NoRound

MaxCrashPoint == 500000

ASSUME EngineConstants ==
  /\ Amounts \subseteq Nat \ {0}
  /\ MaxInt \in Nat
  /\ CrashPoints \subseteq 100..MaxCrashPoint
  /\ \A t \in Ticks : t \in Nat /\ t > 1000
  /\ MaxRounds \in Nat
  /\ EventBuffer \in Nat \ {0}

VARIABLES
  current, nextRound, rmEvents,                             \* e.rounds
  bmRound, bettingOpen, running, bets, activePanels, nextBet, \* e.bets
  pc,             \* next step of runRoundCycle
  nonce, serverSeed, clientSeed, lastServerSeed, crashPoint, multiplier,
  lostBets,       \* local of the cycle: what bets.Crash returned
  channel,        \* e.events
  calls,          \* caller -> its Cashout in progress, or NoCall
  ctxDone,
  forwarding,     \* forwardEvents is running
  told            \* history: rounds whose crash point or seed was told to players

rmVars == <<current, nextRound, rmEvents>>
bmVars == <<bmRound, bettingOpen, running, bets, activePanels, nextBet>>
fairVars == <<nonce, serverSeed, clientSeed, lastServerSeed, crashPoint, multiplier>>
outside == <<ctxDone, forwarding, told>>
vars == <<rmVars, bmVars, pc, fairVars, lostBets, channel, calls, outside>>

Rounds == INSTANCE RoundManager WITH events <- rmEvents, MaxTime <- 1
Bets == INSTANCE BetManager WITH RoundIds <- 1..MaxRounds, NoRound <- 0,
                                 Raws <- Ticks
ASSUME NoRoundIsNoRound == NoRound \notin Rounds!Round

Now == 1
NoCall == [bet |-> 0, raw |-> 0]

PCs == {"create", "fairness", "open_bets", "send_created", "open_betting",
        "betting", "close_bets", "close_betting", "start_bets", "start",
        "ticking", "crash_bets", "crash", "reveal", "send_crash", "settle",
        "settled", "reset_bets", "stopped", "no_seed", "refused"}

EventTypes == {"ROUND_CREATED", "BETTING_OPEN", "BETTING_CLOSED",
               "ROUND_RUNNING", "TICK", "CRASH", "ROUND_SETTLED"}
Event == [type: EventTypes, round: 1..MaxRounds, mult: Nat,
          commit: Nat, reveal: Nat, crash: Nat, lost: SUBSET Nat]

TypeOK ==
  /\ Rounds!TypeOK
  /\ Bets!TypeOK
  /\ pc \in PCs
  /\ nonce \in Nat /\ serverSeed \in Nat /\ clientSeed \in Nat
  /\ lastServerSeed \in Nat
  /\ crashPoint \in CrashPoints \cup {0}
  /\ multiplier \in Nat
  /\ lostBets \in SUBSET Nat
  /\ channel \in Seq(Event) /\ Len(channel) <= EventBuffer
  /\ calls \in [Callers -> [bet: Nat, raw: Nat]]
  /\ ctxDone \in BOOLEAN /\ forwarding \in BOOLEAN
  /\ told \in SUBSET (1..MaxRounds)

Init ==
  /\ Rounds!Init
  /\ Bets!Init
  /\ pc = "create"
  /\ nonce = 0 /\ serverSeed = 0 /\ clientSeed = 0 /\ lastServerSeed = 0
  /\ crashPoint = 0 /\ multiplier = 0
  /\ lostBets = {}
  /\ channel = <<>>
  /\ calls = [c \in Callers |-> NoCall]
  /\ ctxDone = FALSE /\ forwarding = TRUE
  /\ told = {}

-----------------------------------------------------------------------------
(* Events.                                                                 *)

\* The crash point is in every event of emit, long before the crash.
NewEvent(type, mult) ==
  [type |-> type, round |-> current.id, mult |-> mult,
   commit |-> serverSeed, reveal |-> 0, crash |-> crashPoint, lost |-> {}]

ChannelFull == Len(channel) >= EventBuffer

\* Mutant: emit waits for room like the two sends below.
EmitWaiting(type, mult) ==
  ~ChannelFull /\ channel' = Append(channel, NewEvent(type, mult))

\* emit: a full channel drops the event.
Emit(type, mult) ==
  channel' = IF ChannelFull THEN channel ELSE Append(channel, NewEvent(type, mult))

\* The two sends without a default case: the loop waits for room, and does
\* not listen to the context while it waits.
SendRoundCreated ==
  /\ pc = "send_created"
  /\ ~ChannelFull
  /\ channel' = Append(channel, [NewEvent("ROUND_CREATED", 1000) EXCEPT !.crash = 0])
  /\ pc' = "open_betting"
  /\ UNCHANGED <<rmVars, bmVars, fairVars, lostBets, calls, outside>>

RevealEvent(e) == [e EXCEPT !.reveal = serverSeed, !.lost = lostBets]

SendCrash ==
  /\ pc = "send_crash"
  /\ ~ChannelFull
  /\ channel' = Append(channel, RevealEvent(NewEvent("CRASH", 10 * crashPoint)))
  /\ pc' = "settle"
  /\ UNCHANGED <<rmVars, bmVars, fairVars, lostBets, calls, outside>>

\* Mutant: the ticks are broadcast with all that is in their event.
TellsEverything(e) == e.type \in {"TICK", "CRASH"}

\* What forwardEvents publishes and broadcasts of an event: the crash point and
\* the seed of a crash, and nothing secret of the others.
Tells(e) == e.type = "CRASH" /\ (e.crash # 0 \/ e.reveal # 0)

\* Mutant: the goroutine returns when an event could not be published.
ReceiveOrFail ==
  /\ forwarding
  /\ channel # <<>>
  /\ channel' = Tail(channel)
  /\ told' = IF Tells(Head(channel)) THEN told \cup {Head(channel).round} ELSE told
  /\ forwarding' \in BOOLEAN
  /\ UNCHANGED <<rmVars, bmVars, pc, fairVars, lostBets, calls, ctxDone>>

\* The consumer takes the oldest event ...
Receive ==
  /\ forwarding
  /\ channel # <<>>
  /\ channel' = Tail(channel)
  /\ told' = IF Tells(Head(channel)) THEN told \cup {Head(channel).round} ELSE told
  /\ UNCHANGED <<rmVars, bmVars, pc, fairVars, lostBets, calls, ctxDone, forwarding>>

\* ... or returns, on the context that ends the loop as well: it may be gone
\* while the loop still sends.
StopForwarding ==
  /\ forwarding
  /\ ctxDone
  /\ forwarding' = FALSE
  /\ UNCHANGED <<rmVars, bmVars, pc, fairVars, lostBets, channel, calls, ctxDone, told>>

Forwarder == Receive \/ StopForwarding

-----------------------------------------------------------------------------
(* The loop.                                                               *)

\* One critical section of the cycle: when the call is refused, Run returns
\* its error and the loop is over.
Try(from, can, step, to) ==
  /\ pc = from
  /\ IF can
     THEN pc' = to /\ step
     ELSE pc' = "refused" /\ UNCHANGED <<rmVars, bmVars, fairVars, lostBets, channel>>
  /\ UNCHANGED <<calls, outside>>

BetsOnly == UNCHANGED <<rmVars, fairVars, channel>>
RoundsOnly == UNCHANGED <<bmVars, nonce, serverSeed, clientSeed, lastServerSeed,
                          crashPoint, lostBets>>

\* A transition of the round, then its event, with the multiplier set between.
Announce(type, mult) ==
  /\ multiplier' = mult
  /\ Emit(type, mult)
  /\ RoundsOnly

Goto(from, to) ==
  /\ pc = from
  /\ pc' = to
  /\ UNCHANGED <<rmVars, bmVars, fairVars, lostBets, channel, calls, outside>>

CreateRound ==
  ~ctxDone /\ Try("create", Rounds!CanCreateRound(Now),
                  Rounds!CreateRound(Now) /\ RoundsOnly
                    /\ UNCHANGED <<multiplier, channel>>,
                  "fairness")

\* Mutant: the multiplier of the last round is kept.
PrepareFairnessKeepsMultiplier ==
  /\ pc = "fairness"
  /\ nonce' = nonce + 1
  /\ clientSeed' = lastServerSeed
  /\ serverSeed' = nonce + 1
  /\ crashPoint' \in CrashPoints
  /\ pc' = "open_bets"
  /\ UNCHANGED <<multiplier, rmVars, bmVars, lastServerSeed, lostBets, channel,
                 calls, outside>>

\* NextNonce cannot fail (in-memory counter); the generation of a seed can.
PrepareFairness ==
  /\ pc = "fairness"
  /\ nonce' = nonce + 1
  /\ \/ /\ clientSeed' = lastServerSeed
        /\ serverSeed' = nonce + 1
        /\ crashPoint' \in CrashPoints
        /\ multiplier' = 1000
        /\ pc' = "open_bets"
     \/ /\ pc' = "no_seed"
        /\ UNCHANGED <<serverSeed, clientSeed, crashPoint, multiplier>>
  /\ UNCHANGED <<rmVars, bmVars, lastServerSeed, lostBets, channel, calls, outside>>

OpenBets ==
  Try("open_bets", Bets!CanOpenRound(current.id),
      Bets!OpenRound(current.id) /\ BetsOnly /\ UNCHANGED lostBets, "send_created")

OpenBetting ==
  Try("open_betting", Rounds!CanMove("CREATED", Now),
      Rounds!OpenBetting(Now) /\ Announce("BETTING_OPEN", multiplier), "betting")

\* Mutant: the bets are not closed.
BettingElapsedOpen == Goto("betting", "close_betting")

BettingElapsed == Goto("betting", "close_bets")

CloseBets ==
  Try("close_bets", Bets!CanCloseBetting,
      Bets!CloseBetting /\ BetsOnly /\ UNCHANGED lostBets, "close_betting")

CloseBetting ==
  Try("close_betting", Rounds!CanMove("BETTING_OPEN", Now),
      Rounds!CloseBetting(Now) /\ Announce("BETTING_CLOSED", multiplier), "start_bets")

StartBets ==
  Try("start_bets", Bets!CanStartRound,
      Bets!StartRound /\ BetsOnly /\ UNCHANGED lostBets, "start")

Start ==
  Try("start", Rounds!CanMove("BETTING_CLOSED", Now),
      Rounds!Start(Now) /\ Announce("ROUND_RUNNING", 1000), "ticking")

\* A tick observes a later point of the curve, under the crash point ...
Tick ==
  /\ pc = "ticking"
  /\ \E raw \in Ticks :
       /\ multiplier < raw /\ raw < 10 * crashPoint
       /\ multiplier' = raw
       /\ Emit("TICK", raw)
  /\ UNCHANGED <<rmVars, bmVars, pc, nonce, serverSeed, clientSeed,
                 lastServerSeed, crashPoint, lostBets, calls, outside>>

\* ... or at or over it, and ends the flight.
CrashReached == Goto("ticking", "crash_bets")

CrashBets ==
  Try("crash_bets", Bets!CanCrash,
      Bets!Crash /\ lostBets' = Bets!Losing /\ BetsOnly, "crash")

CrashRound ==
  Try("crash", Rounds!CanMove("RUNNING", Now),
      Rounds!Crash(Now) /\ RoundsOnly /\ UNCHANGED <<multiplier, channel>>, "reveal")

Reveal ==
  /\ pc = "reveal"
  /\ multiplier' = 10 * crashPoint
  /\ lastServerSeed' = serverSeed
  /\ pc' = "send_crash"
  /\ UNCHANGED <<rmVars, bmVars, nonce, serverSeed, clientSeed, crashPoint,
                 lostBets, channel, calls, outside>>

Settle ==
  Try("settle", Rounds!CanMove("CRASHED", Now),
      Rounds!Settle(Now) /\ Announce("ROUND_SETTLED", multiplier), "settled")

\* Mutant: the bets are not reset between rounds.
PauseElapsedNoReset == Goto("settled", "create")

PauseElapsed == Goto("settled", "reset_bets")

\* The locals of a cycle end with it.
ResetBets ==
  Try("reset_bets", Bets!CanResetRound,
      Bets!ResetRound /\ lostBets' = {} /\ BetsOnly, "create")

\* The context is looked at between rounds, in both sleeps and between ticks.
Stop ==
  /\ pc \in {"create", "betting", "ticking", "settled"}
  /\ ctxDone
  /\ pc' = "stopped"
  /\ UNCHANGED <<rmVars, bmVars, fairVars, lostBets, channel, calls, outside>>

Engine ==
  \/ CreateRound \/ PrepareFairness \/ OpenBets \/ SendRoundCreated
  \/ OpenBetting \/ BettingElapsed \/ CloseBets \/ CloseBetting
  \/ StartBets \/ Start \/ Tick \/ CrashReached \/ CrashBets \/ CrashRound
  \/ Reveal \/ SendCrash \/ Settle \/ PauseElapsed \/ ResetBets \/ Stop

-----------------------------------------------------------------------------
(* The players' goroutines.                                                *)

PlaceBet(u, p, a) ==
  /\ Bets!PlaceBet(u, p, a)
  /\ UNCHANGED <<rmVars, pc, fairVars, lostBets, channel, calls, outside>>

\* Cashout, first half: the caller knows the id of some bet placed earlier,
\* perhaps in an earlier round.
ReadMultiplier(c, i) ==
  /\ calls[c] = NoCall
  /\ calls' = [calls EXCEPT ![c] = [bet |-> i, raw |-> multiplier]]
  /\ UNCHANGED <<rmVars, bmVars, pc, fairVars, lostBets, channel, outside>>

\* Second half: bets.Cashout with the multiplier read before, or its error.
Cashout(c) ==
  /\ calls[c] # NoCall
  /\ calls' = [calls EXCEPT ![c] = NoCall]
  /\ IF Bets!CanCashout(calls[c].bet, calls[c].raw)
     THEN Bets!Cashout(calls[c].bet, calls[c].raw)
     ELSE UNCHANGED bmVars
  /\ UNCHANGED <<rmVars, pc, fairVars, lostBets, channel, outside>>

Players ==
  \/ \E u \in Users, p \in Panels, a \in Amounts : PlaceBet(u, p, a)
  \/ \E c \in Callers : \/ \E i \in 1..nextBet : ReadMultiplier(c, i)
                        \/ Cashout(c)

Cancel ==
  /\ ~ctxDone
  /\ ctxDone' = TRUE
  /\ UNCHANGED <<rmVars, bmVars, pc, fairVars, lostBets, channel, calls,
                 forwarding, told>>

Next == Engine \/ Players \/ Forwarder \/ Cancel

Spec == Init /\ [][Next]_vars

\* The loop's goroutine is always scheduled, and so is its consumer's, until it
\* returns: once cancelled, that one may receive no more.
FairSpec == Spec /\ WF_vars(Engine) /\ WF_vars(Forwarder)

-----------------------------------------------------------------------------
(* Safety.                                                                 *)

\* A bet cashed out in a round was cashed out under that round's crash point,
\* although the multiplier is read before the bets are locked and the two
\* reads may be rounds apart.  (A multiplier of exactly 1.00 is always paid,
\* even in a round that crashes at 1.00.)
CashoutUnderCrash ==
  \A i \in DOMAIN bets : bets[i].state = "CASHED_OUT" =>
    bets[i].multi = 100 \/ bets[i].multi < crashPoint

\* The two machines the loop moves one after the other never drift apart: bets
\* open only in a round created or open, run only between betting closed and
\* crash, are those of the current round, and a settled round owes no bet.
PhasesAgree ==
  /\ bmRound # 0 => current # NoRound /\ current.id = bmRound
  /\ bettingOpen => bmRound # 0 /\ current.state \in {"CREATED", "BETTING_OPEN"}
  /\ running => bmRound # 0 /\ current.state \in {"BETTING_CLOSED", "RUNNING"}
  /\ current # NoRound /\ current.state \in {"CRASHED", "SETTLED"}
       => Bets!Pending(bets) = {}

\* The loop never has a call refused, whatever the players do meanwhile: Run
\* only returns when it is cancelled or no seed can be drawn.
NeverRefused == pc # "refused"

\* The bets of a round can neither be placed nor cashed out any more.
PlayOver(r) == bmRound = r => ~bettingOpen /\ ~running /\ Bets!Pending(bets) = {}

\* Neither the crash point of a round, nor the seed that gives it, is told to
\* the players as long as its bets can be placed or cashed out, however late
\* its consumer is.  The seed is not even in an event before; the crash point
\* is, from the betting on, and only what forwardEvents tells keeps it secret.
RevealAfterPlay ==
  /\ \A r \in told : PlayOver(r)
  /\ \A n \in 1..Len(channel) : channel[n].reveal # 0 =>
       channel[n].reveal = channel[n].commit /\ PlayOver(channel[n].round)

-----------------------------------------------------------------------------
(* The promise to the players: CrashGame, with the round's crash point, and *)
(* the phase read off the two flags of the bets.                           *)

GamePhase ==
  CASE bmRound = 0 -> "none"
    [] bmRound # 0 /\ bettingOpen -> "betting"
    [] bmRound # 0 /\ running /\ ~bettingOpen -> "flying"
    [] OTHER -> IF pc \in {"close_betting", "start_bets"} THEN "closed" ELSE "over"

GameOutcome(state) ==
  CASE state = "PENDING" -> "OPEN" [] state = "CASHED_OUT" -> "WON"
    [] state = "LOST" -> "LOST"

GameWagers ==
  [i \in DOMAIN bets |-> [seat |-> Bets!Key(bets[i]), stake |-> bets[i].amount,
                          outcome |-> GameOutcome(bets[i].state),
                          prize |-> bets[i].payout]]

Game == INSTANCE CrashGame WITH
          Seats <- Users \X Panels, Stakes <- Amounts,
          phase <- GamePhase, wagers <- GameWagers,
          crash <- IF bmRound = 0 THEN 0 ELSE crashPoint

\* Every behaviour of the engine, its players and its consumer is a behaviour
\* of the abstract game.
ImplementsGame == Game!Spec

-----------------------------------------------------------------------------
(* The promise to the other parts: BetCycle, with the rounds counted when  *)
(* their bets open.                                                        *)

CycleStage ==
  CASE pc \in {"create", "fairness", "open_bets"} -> "create"
    [] pc \in {"send_created", "open_betting", "betting", "close_bets"} -> "close"
    [] pc \in {"close_betting", "start_bets"} -> "start"
    [] pc \in {"start", "ticking", "crash_bets"} -> "crash"
    [] pc \in {"stopped", "no_seed", "refused"} -> "over"
    [] OTHER -> "reset"

CycleRound == IF pc \in {"fairness", "open_bets", "no_seed"} THEN nextRound - 1 ELSE nextRound

Cycle == INSTANCE BetCycle WITH RoundIds <- 1..MaxRounds, NoRound <- 0,
                                Raws <- Ticks \cup {1000},
                                stage <- CycleStage, round <- CycleRound

\* The loop makes the calls of BetCycle in their order, whatever its other
\* steps, its consumer and the players do between them.
ImplementsCycle == Cycle!CycleSpec

-----------------------------------------------------------------------------
(* Liveness.                                                               *)

Over == pc \in {"stopped", "no_seed"}

Settled(r) ==
  /\ current # NoRound
  /\ current.id = r
  /\ current.state = "SETTLED"

\* The loop waits at one of its two bare sends for a consumer that returned: it
\* takes a cancellation to get there, and the process ends soon after.
Stranded ==
  /\ ctxDone /\ ~forwarding
  /\ ChannelFull /\ pc \in {"send_created", "send_crash"}

\* Every round that is created is settled, unless the loop ends first or is
\* left without a consumer by the cancellation.
RoundsSettle ==
  \A r \in 1..MaxRounds :
    (nextRound = r) ~> Settled(r) \/ Over \/ Stranded

\* A pending bet is won or lost in the end: it does not stay pending for ever,
\* nor does it vanish with the round, unless the cancellation ends the loop or
\* strands it first.  Then the bet stays pending: nobody drives its manager.
BetsResolve ==
  \A i \in 1..MaxBets :
    (i \in Bets!Pending(bets)) ~>
      (i \in DOMAIN bets /\ bets[i].state # "PENDING") \/ Over \/ Stranded

\* A cancelled loop returns, or waits at a bare send that nobody will serve: no
\* other wait of it depends on the consumer, who is cancelled with it.
CancelStops == ctxDone ~> Over \/ Stranded

\* crash_engine.go:416: on a full channel, the loop of the engine is never
\* blocked; a loop that is neither over nor out of rounds comes back to its start.
EventNeverBlocks == []<>(pc = "create" \/ Over)
=============================================================================
