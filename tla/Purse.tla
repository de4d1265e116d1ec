-------------------------------- MODULE Purse --------------------------------
(***************************************************************************)
(* What the server promises about the stakes of a player, whatever is      *)
(* retried, lost, swept or restarted: abstract specification of StakeFlow. *)
(*                                                                         *)
(* A stake is with the player, then with the operator, then perhaps back   *)
(* with the player, and never leaves twice.  The word of the ledger is     *)
(* final, and true when it is given: CONFIRMED of a stake that was taken,  *)
(* FAILED of one that was not and never will be.                           *)
(***************************************************************************)
CONSTANT BetIds

VARIABLES
  money,  \* bet id -> where its stake is
  word    \* bet id -> what the ledger says of its debit

purse == <<money, word>>

PurseTypeOK ==
  /\ money \in [BetIds -> {"player", "operator", "back"}]
  /\ word \in [BetIds -> {"NONE", "PENDING", "CONFIRMED", "FAILED"}]

PurseInit ==
  /\ money = [b \in BetIds |-> "player"]
  /\ word = [b \in BetIds |-> "NONE"]

Moves(b, from, to) ==
  /\ money[b] = from
  /\ money' = [money EXCEPT ![b] = to]
  /\ UNCHANGED word

Says(b, from, to) ==
  /\ word[b] = from
  /\ word' = [word EXCEPT ![b] = to]
  /\ UNCHANGED money

\* A debit is announced, and only then asked for, until it is decided.
Announce(b) == Says(b, "NONE", "PENDING")
Take(b) == word[b] = "PENDING" /\ Moves(b, "player", "operator")

Accept(b) == money[b] # "player" /\ Says(b, "PENDING", "CONFIRMED")
Refuse(b) == money[b] = "player" /\ Says(b, "PENDING", "FAILED")

\* A refund, of what was taken.
Return(b) == Moves(b, "operator", "back")

PurseNext ==
  \E b \in BetIds : Announce(b) \/ Take(b) \/ Accept(b) \/ Refuse(b) \/ Return(b)

PurseSpec == PurseInit /\ [][PurseNext]_purse
=============================================================================
