----------------------------- MODULE CrashGame -----------------------------
(***************************************************************************)
(* What the game promises to a player, without goroutines, locks or        *)
(* events: the crash point is drawn before the first wager and does not    *)
(* change until the round is cleared; a seat has at most one open wager; a *)
(* wager wins at most once, only in flight, at a multiplier under the      *)
(* crash point (or at 1.00); the crash loses all the others.  CrashEngine  *)
(* implements it.                                                          *)
(***************************************************************************)
EXTENDS Integers

CONSTANTS
  Seats,        \* a player's panel
  Stakes,
  CrashPoints   \* in hundredths

VARIABLES
  phase,
  crash,   \* crash point of the round, 0 between rounds
  wagers   \* wager number -> wager

gameVars == <<phase, crash, wagers>>

Open == {i \in DOMAIN wagers : wagers[i].outcome = "OPEN"}

Init ==
  /\ phase = "none"
  /\ crash = 0
  /\ wagers = [i \in {} |-> 0]

Deal ==
  /\ phase = "none"
  /\ phase' = "betting"
  /\ crash' \in CrashPoints
  /\ UNCHANGED wagers

Wager(seat, stake) ==
  /\ phase = "betting"
  /\ \A i \in Open : wagers[i].seat # seat
  /\ \E i \in DOMAIN wagers' :
       /\ i \notin DOMAIN wagers
       /\ wagers' = [j \in DOMAIN wagers \cup {i} |->
                       IF j = i THEN [seat |-> seat, stake |-> stake,
                                      outcome |-> "OPEN", prize |-> 0]
                       ELSE wagers[j]]
  /\ UNCHANGED <<phase, crash>>

Close ==
  /\ phase = "betting"
  /\ phase' = "closed"
  /\ UNCHANGED <<crash, wagers>>

TakeOff ==
  /\ phase = "closed"
  /\ phase' = "flying"
  /\ UNCHANGED <<crash, wagers>>

Win(i) ==
  /\ phase = "flying"
  /\ i \in Open
  /\ \E cents \in 100..crash :
       /\ cents = 100 \/ cents < crash
       /\ wagers' = [wagers EXCEPT ![i] =
                       [@ EXCEPT !.outcome = "WON",
                                 !.prize = (wagers[i].stake * cents) \div 100]]
  /\ UNCHANGED <<phase, crash>>

Bust ==
  /\ phase = "flying"
  /\ phase' = "over"
  /\ wagers' = [i \in DOMAIN wagers |->
                  IF i \in Open THEN [wagers[i] EXCEPT !.outcome = "LOST"]
                  ELSE wagers[i]]
  /\ UNCHANGED crash

Clear ==
  /\ phase = "over"
  /\ phase' = "none"
  /\ crash' = 0
  /\ wagers' = [i \in {} |-> 0]

Next ==
  \/ Deal \/ Close \/ TakeOff \/ Bust \/ Clear
  \/ \E seat \in Seats, stake \in Stakes : Wager(seat, stake)
  \/ \E i \in DOMAIN wagers : Win(i)

Spec == Init /\ [][Next]_gameVars
=============================================================================
