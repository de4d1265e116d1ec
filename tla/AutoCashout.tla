----------------------------- MODULE AutoCashout -----------------------------
(***************************************************************************)
(* Cashing out, by hand and automatically: cmd/server/gateway.go (register *)
(* and the connections, activeBets, handleCashout, checkAutoCashout,       *)
(* settleCashout, notifyLostBets), recovery_hooks.go (rehydrateBets) and   *)
(* main.go (forwardEvents), composed with the bets of the engine.          *)
(*                                                                         *)
(* A connection remembers the player's live bets in activeBets.  Its       *)
(* reader serves the player's messages one by one; the forwarder receives  *)
(* the engine's events one by one and, on a tick, cashes out the bets of   *)
(* the connected players whose target is reached.  Both are slow: a bet    *)
(* waits for the wallet, a settlement for the ledger, a publication for    *)
(* the database.  Each lock is held for one step only.                     *)
(*                                                                         *)
(* Data: a player bets on one panel; the debit that comes before a bet is  *)
(* StakeFlow's, the credit that follows a win is CallbackQueue's: here it  *)
(* is only counted.  Events that move no bet are left out.  A multiplier   *)
(* is read and used in one step (CrashEngine takes two).                   *)
(***************************************************************************)
EXTENDS Integers, Sequences, FiniteSets

CONSTANTS
  Users,
  MaxConns,     \* bound on the connections of a player
  Targets,      \* automatic cashout targets, in thousandths
  Ticks,        \* multipliers the ticker observes, in thousandths
  MaxRounds,    \* bound on rounds
  MaxBets,      \* bound on bets
  EventBuffer   \* capacity of the engine's channel

ASSUME CashoutConstants ==
  /\ Targets \subseteq Nat
  /\ \A t \in Ticks : t \in Nat /\ t > 1000
  /\ MaxConns \in Nat /\ MaxRounds \in Nat /\ MaxBets \in Nat
  /\ EventBuffer \in Nat \ {0}

VARIABLES
  bmRound, bettingOpen, running, bets, activePanels, nextBet, \* e.bets
  stage,       \* next step of the engine
  round,       \* number of the current round
  multiplier,  \* e.multiplier
  lostBets,    \* what bets.Crash returned
  channel,     \* e.events
  registered,  \* player -> its current connection, or 0 (gw.clients)
  active,      \* connection -> its activeBets: a bet, or NoBet
  readers,     \* connection -> what its reader is doing
  forwarder,   \* what forwardEvents is doing
  target,      \* bet -> CashoutTarget
  autoPaid,    \* history: bets the forwarder cashed out
  won,         \* history: bets cashed out
  credited     \* history: bet -> number of settlements of its win

bmVars == <<bmRound, bettingOpen, running, bets, activePanels, nextBet>>
engineVars == <<bmVars, stage, round, multiplier, lostBets>>
histVars == <<autoPaid, won, credited>>
vars == <<engineVars, channel, registered, active, readers, forwarder, target, histVars>>

Panel == 1
Bets == INSTANCE BetManager WITH
          Panels <- {Panel}, Amounts <- {1}, RoundIds <- 1..MaxRounds,
          Raws <- Ticks, MaxInt <- 100000, NoRound <- 0

Conns == Users \X (1..MaxConns)
NoBet == Bets!NoBet
User(c) == c[1]

Event == [type: {"TICK"}, mult: Ticks] \cup [type: {"CRASH"}, lost: SUBSET Users]

ReaderSteps == {"off", "rehydrate", "restore", "ready", "debit", "placed",
                "exists", "cashout", "settle", "gone"}
Reader == [step: ReaderSteps, bet: 0..MaxBets]

Idle == [step |-> "idle"]
Forwarder == {Idle}
  \cup [step: {"tick"}, mult: Ticks, todo: SUBSET Conns]
  \cup [step: {"cashout", "settle"}, mult: Ticks, todo: SUBSET Conns,
        conn: Conns, bet: 1..MaxBets]

TypeOK ==
  /\ Bets!TypeOK
  /\ stage \in {"create", "close", "start", "fly", "send", "reset"}
  /\ round \in 0..MaxRounds
  /\ multiplier \in Ticks \cup {1000}
  /\ lostBets \subseteq Users
  /\ channel \in Seq(Event) /\ Len(channel) <= EventBuffer
  /\ registered \in [Users -> 0..MaxConns]
  /\ active \in [Conns -> 0..MaxBets]
  /\ readers \in [Conns -> Reader]
  /\ forwarder \in Forwarder
  /\ target \in [1..nextBet -> Targets]
  /\ autoPaid \subseteq won /\ won \subseteq 1..nextBet
  /\ credited \in [1..MaxBets -> Nat]

Init ==
  /\ Bets!Init
  /\ stage = "create" /\ round = 0 /\ multiplier = 1000 /\ lostBets = {}
  /\ channel = <<>>
  /\ registered = [u \in Users |-> 0]
  /\ active = [c \in Conns |-> NoBet]
  /\ readers = [c \in Conns |-> [step |-> "off", bet |-> NoBet]]
  /\ forwarder = Idle
  /\ target = [i \in {} |-> 0]
  /\ autoPaid = {} /\ won = {} /\ credited = [i \in 1..MaxBets |-> 0]

-----------------------------------------------------------------------------
(* The engine: the order of its calls, and the two events that matter.     *)

EngineStep(from, to) ==
  /\ stage = from
  /\ stage' = to
  /\ UNCHANGED <<registered, active, readers, forwarder, target, histVars>>

OpenRound ==
  /\ EngineStep("create", "close")
  /\ round < MaxRounds
  /\ round' = round + 1
  /\ Bets!OpenRound(round')
  /\ UNCHANGED <<multiplier, lostBets, channel>>

StartRound ==
  /\ EngineStep("start", "fly")
  /\ Bets!StartRound
  /\ multiplier' = 1000
  /\ UNCHANGED <<round, lostBets, channel>>

\* A full channel drops the tick.
Tick ==
  /\ EngineStep("fly", "fly")
  /\ \E m \in Ticks :
       /\ multiplier < m
       /\ multiplier' = m
       /\ channel' = IF Len(channel) < EventBuffer
                     THEN Append(channel, [type |-> "TICK", mult |-> m]) ELSE channel
  /\ UNCHANGED <<bmVars, round, lostBets>>

CrashBets ==
  /\ EngineStep("fly", "send")
  /\ Bets!Crash
  /\ lostBets' = {bets[i].user : i \in Bets!Losing}
  /\ UNCHANGED <<round, multiplier, channel>>

SendCrash ==
  /\ EngineStep("send", "reset")
  /\ Len(channel) < EventBuffer
  /\ channel' = Append(channel, [type |-> "CRASH", lost |-> lostBets])
  /\ UNCHANGED <<bmVars, round, multiplier, lostBets>>

Engine ==
  \/ OpenRound \/ StartRound \/ Tick \/ CrashBets \/ SendCrash
  \/ /\ UNCHANGED <<round, multiplier, lostBets, channel>>
     /\ \/ EngineStep("close", "start") /\ Bets!CloseBetting
        \/ EngineStep("reset", "create") /\ Bets!ResetRound

-----------------------------------------------------------------------------
(* Cashing out.                                                            *)

\* Mutant: the error of eng.Cashout is not looked at.
PaysAnyway(i) ==
  /\ IF Bets!CanCashout(i, multiplier) THEN Bets!Cashout(i, multiplier) ELSE UNCHANGED bmVars
  /\ won' = won \cup {i}

\* eng.Cashout pays the multiplier of the moment.
Pays(i) ==
  /\ Bets!Cashout(i, multiplier)
  /\ won' = won \cup {i}

Refuses(i) == ~Bets!CanCashout(i, multiplier) /\ UNCHANGED <<bmVars, won>>

\* settleCashout: the win is settled, then the panel is no longer tracked.
Credits(i) == credited' = [credited EXCEPT ![i] = @ + 1]
Untracks(c) == active' = [active EXCEPT ![c] = NoBet]

-----------------------------------------------------------------------------
(* The connections.                                                        *)

At(c, step) == readers[c].step = step
Reads(c, step, bet) == readers' = [readers EXCEPT ![c] = [step |-> step, bet |-> bet]]
Ready(c) == Reads(c, "ready", NoBet)
PanelBet(c) == activePanels[<<User(c), Panel>>]

ReaderOnly == UNCHANGED <<stage, round, multiplier, lostBets, channel, forwarder, autoPaid>>
Quiet == UNCHANGED <<bmVars, won, credited, target>>

\* A new connection replaces the player's: its reader fails when it next reads.
Register(c) ==
  /\ At(c, "off")
  /\ c[2] > 1 => ~At(<<User(c), c[2] - 1>>, "off")
  /\ registered' = [registered EXCEPT ![User(c)] = c[2]]
  /\ Reads(c, "rehydrate", NoBet)
  /\ ReaderOnly /\ Quiet /\ UNCHANGED active

\* rehydrateBets reads the engine, then writes activeBets.
Rehydrate(c) ==
  /\ At(c, "rehydrate")
  /\ IF PanelBet(c) = NoBet THEN Ready(c) ELSE Reads(c, "restore", PanelBet(c))
  /\ ReaderOnly /\ Quiet /\ UNCHANGED <<registered, active>>

\* Either way of tracking a bet: rehydrated, placed or found to exist.
Track(c) ==
  /\ At(c, "restore") \/ At(c, "placed")
  /\ active' = [active EXCEPT ![c] = readers[c].bet]
  /\ Ready(c)
  /\ ReaderOnly /\ Quiet /\ UNCHANGED registered

Connected(c) == registered[User(c)] = c[2]

Unregister(c) ==
  /\ At(c, "ready")
  /\ Reads(c, "gone", NoBet)
  /\ registered' = IF Connected(c) THEN [registered EXCEPT ![User(c)] = 0] ELSE registered
  /\ ReaderOnly /\ Quiet /\ UNCHANGED active

\* A message to bet: its stake is debited first, which takes time ...
Bet(c) ==
  /\ At(c, "ready") /\ Connected(c)
  /\ Reads(c, "debit", NoBet)
  /\ ReaderOnly /\ Quiet /\ UNCHANGED <<registered, active>>

\* ... then placeBetOrReuse.
PlaceBet(c) ==
  /\ At(c, "debit")
  /\ LET result == Bets!PlaceBetResult(User(c), Panel) IN
     \/ /\ Bets!PlaceBet(User(c), Panel, 1)
        /\ \E t \in Targets :
             target' = [i \in 1..nextBet' |-> IF i = nextBet' THEN t ELSE target[i]]
        /\ Reads(c, "placed", nextBet')
     \/ /\ result = "BET_EXISTS" /\ Reads(c, "exists", NoBet)
        /\ UNCHANGED <<bmVars, target>>
     \/ /\ result \notin {"OK", "BET_EXISTS"} /\ Ready(c)
        /\ UNCHANGED <<bmVars, target>>
  /\ ReaderOnly /\ UNCHANGED <<won, credited, registered, active>>

Reuse(c) ==
  /\ At(c, "exists")
  /\ IF PanelBet(c) = NoBet THEN Ready(c) ELSE Reads(c, "placed", PanelBet(c))
  /\ ReaderOnly /\ Quiet /\ UNCHANGED <<registered, active>>

\* handleCashout.
AskCashout(c) ==
  /\ At(c, "ready") /\ Connected(c)
  /\ active[c] # NoBet
  /\ Reads(c, "cashout", active[c])
  /\ ReaderOnly /\ Quiet /\ UNCHANGED <<registered, active>>

Cashout(c) ==
  /\ At(c, "cashout")
  /\ LET i == readers[c].bet IN
     \/ Pays(i) /\ Reads(c, "settle", i)
     \/ Refuses(i) /\ Ready(c)
  /\ ReaderOnly /\ UNCHANGED <<registered, active, credited, target>>

Settle(c) ==
  /\ At(c, "settle")
  /\ Credits(readers[c].bet)
  /\ Untracks(c)
  /\ Ready(c)
  /\ ReaderOnly /\ UNCHANGED <<bmVars, won, target, registered>>

\* What a reader does by itself, once a message has come.
Serve(c) ==
  \/ Rehydrate(c) \/ Track(c) \/ PlaceBet(c) \/ Reuse(c) \/ Cashout(c) \/ Settle(c)

-----------------------------------------------------------------------------
(* forwardEvents.                                                          *)

ForwarderOnly == UNCHANGED <<engineVars, registered, readers, target>>

\* A tick begins with a copy of the clients; a crash makes notifyLostBets
\* forget the bets of the losers that are connected.
Receive ==
  /\ forwarder = Idle /\ channel # <<>>
  /\ channel' = Tail(channel)
  /\ LET ev == Head(channel) IN
     \/ /\ ev.type = "TICK"
        /\ forwarder' = [step |-> "tick", mult |-> ev.mult,
                         todo |-> {c \in Conns : Connected(c)}]
        /\ UNCHANGED active
     \/ /\ ev.type = "CRASH"
        /\ active' = [c \in Conns |-> IF Connected(c) /\ User(c) \in ev.lost
                                      THEN NoBet ELSE active[c]]
        /\ UNCHANGED forwarder
  /\ ForwarderOnly /\ UNCHANGED histVars

Reached(c, m) == active[c] # NoBet /\ target[active[c]] <= m

\* One client of the copy: its bet, if the target is reached.
Check(c) ==
  /\ forwarder.step = "tick" /\ c \in forwarder.todo
  /\ LET rest == forwarder.todo \ {c} IN
     forwarder' = IF Reached(c, forwarder.mult)
                  THEN [step |-> "cashout", mult |-> forwarder.mult, todo |-> rest,
                        conn |-> c, bet |-> active[c]]
                  ELSE [forwarder EXCEPT !.todo = rest]
  /\ ForwarderOnly /\ UNCHANGED <<channel, active, histVars>>

NextClient == forwarder' = [step |-> "tick", mult |-> forwarder.mult, todo |-> forwarder.todo]

AutoCashout ==
  /\ forwarder.step = "cashout"
  /\ LET i == forwarder.bet IN
     \/ /\ Pays(i)
        /\ autoPaid' = autoPaid \cup {i}
        /\ forwarder' = [forwarder EXCEPT !.step = "settle"]
     \/ /\ Refuses(i)
        /\ NextClient
        /\ UNCHANGED autoPaid
  /\ UNCHANGED <<stage, round, multiplier, lostBets, channel, registered, active,
                 readers, target, credited>>

\* Mutant: nothing is settled for a player who has gone.
AutoSettleConnected ==
  /\ forwarder.step = "settle"
  /\ IF Connected(forwarder.conn) THEN Credits(forwarder.bet) ELSE UNCHANGED credited
  /\ Untracks(forwarder.conn)
  /\ NextClient
  /\ ForwarderOnly /\ UNCHANGED <<channel, autoPaid, won>>

AutoSettle ==
  /\ forwarder.step = "settle"
  /\ Credits(forwarder.bet)
  /\ Untracks(forwarder.conn)
  /\ NextClient
  /\ ForwarderOnly /\ UNCHANGED <<channel, autoPaid, won>>

\* The tick is over.
TickDone ==
  /\ forwarder.step = "tick" /\ forwarder.todo = {}
  /\ forwarder' = Idle
  /\ ForwarderOnly /\ UNCHANGED <<channel, active, histVars>>

Forward ==
  \/ Receive \/ AutoCashout \/ AutoSettle \/ TickDone
  \/ \E c \in Conns : Check(c)

-----------------------------------------------------------------------------
Next ==
  \/ Engine \/ Forward
  \/ \E c \in Conns :
       Register(c) \/ Unregister(c) \/ Bet(c) \/ AskCashout(c) \/ Serve(c)

Spec == Init /\ [][Next]_vars

\* The wallet and the ledger answer or time out: readers and forwarder go on.
FairSpec ==
  /\ Spec
  /\ WF_vars(Forward)
  /\ \A c \in Conns : WF_vars(Serve(c))

-----------------------------------------------------------------------------
\* A win is settled once, and by who cashed it out: until then someone holds
\* it, though a reader and the forwarder compete for the bet, its connection
\* may be replaced or gone, and its round over.
WinsSettledOnce ==
  \A i \in 1..MaxBets :
    LET holders == {c \in Conns : At(c, "settle") /\ readers[c].bet = i}
        held == Cardinality(holders)
                + IF forwarder.step = "settle" /\ forwarder.bet = i THEN 1 ELSE 0
    IN credited[i] + held = IF i \in won THEN 1 ELSE 0

\* Every win is settled in the end.
WinsSettled == \A i \in 1..MaxBets : (i \in won) ~> (credited[i] = 1)

\* The engine here makes its calls on the bets in the order that CrashEngine is
\* held to as well, that of BetCycle.
CycleStage ==
  CASE stage = "fly" -> "crash"
    [] stage = "send" -> "reset"
    [] OTHER -> stage

Cycle == INSTANCE BetCycle WITH
           Panels <- {Panel}, Amounts <- {1}, RoundIds <- 1..MaxRounds,
           Raws <- Ticks \cup {1000}, MaxInt <- 100000, NoRound <- 0,
           stage <- CycleStage

ImplementsCycle == Cycle!CycleSpec

-----------------------------------------------------------------------------
(* What the comments say, and the code does not always do.                 *)

\* gateway.go:221: the forwarder cashes out a bet when its CashoutTarget is
\* reached.
AutoAtTarget == \A i \in autoPaid \cap DOMAIN bets : 10 * bets[i].multi >= target[i]

\* recovery_hooks.go:54: after a reconnection the live bet of the player is
\* tracked again, for the cashout and the automatic cashout.
LiveBetTracked ==
  \A c \in Conns : Connected(c) /\ At(c, "ready") /\ running
                     /\ (\A d \in Conns \ {c} : readers[d].step \in {"off", "gone"})
                     /\ PanelBet(c) # NoBet
    => active[c] = PanelBet(c)
=============================================================================
