---------------------------- MODULE RoundManager ----------------------------
(***************************************************************************)
(* internal/game/round_manager.go: the state machine of the current round. *)
(* Every method holds the manager's mutex, so each is one atomic step; a   *)
(* call that fails (wrong state, time running backwards) changes nothing.  *)
(* As for BetManager, Next lets any caller call any method at any time     *)
(* with any time stamp, and CrashEngine restricts the callers.             *)
(*                                                                         *)
(* Time is a natural number, 0 being Go's zero time.Time.  events is the   *)
(* manager's own channel: no part of the program receives from it today,   *)
(* Receive stands for the consumer its comment announces.                  *)
(***************************************************************************)
EXTENDS Integers, Sequences

CONSTANTS
  MaxRounds,    \* bound on the number of rounds ever created
  MaxTime,      \* bound on time stamps
  EventBuffer,  \* capacity of the channel
  NoRound       \* the nil round

ASSUME RoundConstants ==
  /\ MaxRounds \in Nat
  /\ MaxTime \in Nat
  /\ EventBuffer \in Nat \ {0}

VARIABLES
  current,    \* the current round, or NoRound
  nextRound,  \* nextID: the number of the last round created
  events      \* the channel of round events

vars == <<current, nextRound, events>>

States == {"CREATED", "BETTING_OPEN", "BETTING_CLOSED",
           "RUNNING", "CRASHED", "SETTLED"}
Times == 0..MaxTime

\* at[s] is the time the round entered state s (CreatedAt, ...), 0 if it has not.
Round == [id: 1..MaxRounds, state: States, at: [States -> Times]]
RoundEvent == [id: 1..MaxRounds, state: States]

ASSUME NoRoundAssumption == NoRound \notin Round

TypeOK ==
  /\ current \in Round \cup {NoRound}
  /\ nextRound \in 0..MaxRounds
  /\ events \in Seq(RoundEvent)
  /\ Len(events) <= EventBuffer

Init ==
  /\ current = NoRound
  /\ nextRound = 0
  /\ events = <<>>

\* publishEventLocked: a full channel drops the event.
Publish(id, state) ==
  events' = IF Len(events) < EventBuffer
            THEN Append(events, [id |-> id, state |-> state])
            ELSE events

-----------------------------------------------------------------------------
CanCreateRound(now) ==
  /\ now # 0
  /\ current # NoRound => current.state = "SETTLED"

\* Mutant: the number of the last round is not kept.
CreateRoundUncounted(now) ==
  /\ CanCreateRound(now)
  /\ nextRound < MaxRounds
  /\ current' = [id |-> nextRound + 1, state |-> "CREATED",
                 at |-> [s \in States |-> IF s = "CREATED" THEN now ELSE 0]]
  /\ Publish(nextRound + 1, "CREATED")
  /\ UNCHANGED nextRound

CreateRound(now) ==
  /\ CanCreateRound(now)
  /\ nextRound < MaxRounds
  /\ nextRound' = nextRound + 1
  /\ current' = [id |-> nextRound + 1, state |-> "CREATED",
                 at |-> [s \in States |-> IF s = "CREATED" THEN now ELSE 0]]
  /\ Publish(nextRound + 1, "CREATED")

\* Mutant: the new time is only compared with the creation.
ValidSinceCreation(now) == current.at["CREATED"] <= now

\* isValidTimestamp: no stamp already set is later than now.
ValidTimestamp(now) == \A s \in States : current.at[s] <= now

CanMove(from, now) ==
  /\ current # NoRound
  /\ now # 0
  /\ current.state = from
  /\ ValidTimestamp(now)

Transition(from, to, now) ==
  /\ CanMove(from, now)
  /\ current' = [id |-> current.id, state |-> to,
                 at |-> [current.at EXCEPT ![to] = now]]
  /\ Publish(current.id, to)
  /\ UNCHANGED nextRound

OpenBetting(now)  == Transition("CREATED", "BETTING_OPEN", now)
CloseBetting(now) == Transition("BETTING_OPEN", "BETTING_CLOSED", now)
Start(now)        == Transition("BETTING_CLOSED", "RUNNING", now)
Crash(now)        == Transition("RUNNING", "CRASHED", now)
Settle(now)       == Transition("CRASHED", "SETTLED", now)

Reset ==
  /\ current # NoRound
  /\ current.state = "SETTLED"
  /\ current' = NoRound
  /\ UNCHANGED <<nextRound, events>>

Receive ==
  /\ events # <<>>
  /\ events' = Tail(events)
  /\ UNCHANGED <<current, nextRound>>

Next ==
  \/ \E now \in Times :
       \/ CreateRound(now)
       \/ OpenBetting(now)
       \/ CloseBetting(now)
       \/ Start(now)
       \/ Crash(now)
       \/ Settle(now)
  \/ Reset
  \/ Receive

Spec == Init /\ [][Next]_vars

-----------------------------------------------------------------------------
Rank(s) ==
  CASE s = "CREATED" -> 1       [] s = "BETTING_OPEN" -> 2
    [] s = "BETTING_CLOSED" -> 3 [] s = "RUNNING" -> 4
    [] s = "CRASHED" -> 5       [] s = "SETTLED" -> 6

\* The stamps of a round tell its history: exactly the states reached are
\* stamped, and the stamps never run backwards, though callers pass the time.
StampsFollowLife ==
  current # NoRound =>
    /\ \A s \in States : current.at[s] # 0 <=> Rank(s) <= Rank(current.state)
    /\ \A s, t \in States : Rank(s) <= Rank(t) /\ Rank(t) <= Rank(current.state)
                              => current.at[s] <= current.at[t]

\* Before(d, e): d comes strictly before e in the life of the rounds.
Before(d, e) == d.id < e.id \/ (d.id = e.id /\ Rank(d.state) < Rank(e.state))

\* A round number is never used again and a round never leaves a state for an
\* earlier one: seen from outside, rounds only move forward.
RoundsMoveForward ==
  [][/\ current # NoRound /\ current' # NoRound /\ current' # current
          => Before(current, current')
     /\ current = NoRound /\ current' # NoRound => nextRound < current'.id
     /\ nextRound <= nextRound']_vars
=============================================================================
