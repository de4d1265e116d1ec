------------------------------- MODULE Outbox -------------------------------
(***************************************************************************)
(* What the server promises about the callbacks that owe a player money,   *)
(* whatever is leased twice, retried, lost or swept: abstract              *)
(* specification of CallbackQueue.                                         *)
(*                                                                         *)
(* The operator is asked for a callback that has no ledger entry only once *)
(* it was enqueued, and what the operator applied stays applied.  The word *)
(* of the ledger is final, and CONFIRMED only of what was applied.  A dead *)
(* letter is for ever.  A callback leaves the queue when nothing more is   *)
(* owed, or when a dead letter says what is.                               *)
(***************************************************************************)
CONSTANTS Callbacks, Untracked

VARIABLES
  held,     \* callback -> "out" (never enqueued), "queued" or "gone"
  dead,     \* callbacks a human has to look at
  applied,  \* callbacks the operator applied
  word      \* callback -> what the ledger says of its entry

outbox == <<held, dead, applied, word>>

OutboxInit ==
  /\ held = [cb \in Callbacks |-> "out"]
  /\ dead = {} /\ applied = {}
  /\ word = [cb \in Callbacks |-> "PENDING"]

Put(cb) ==
  /\ held[cb] # "queued"
  /\ held' = [held EXCEPT ![cb] = "queued"]
  /\ UNCHANGED <<dead, applied, word>>

\* A callback with an entry may be asked for by the sweeper, queued or not.
Apply(cb) ==
  /\ cb \in Untracked => held[cb] # "out"
  /\ applied' = applied \cup {cb}
  /\ UNCHANGED <<held, dead, word>>

Says(cb, to) ==
  /\ cb \notin Untracked /\ word[cb] = "PENDING"
  /\ word' = [word EXCEPT ![cb] = to]
  /\ UNCHANGED <<held, dead, applied>>

Confirm(cb) == cb \in applied /\ Says(cb, "CONFIRMED")
Fail(cb) == Says(cb, "FAILED")

Bury(cb) ==
  /\ held[cb] # "out"
  /\ dead' = dead \cup {cb}
  /\ UNCHANGED <<held, applied, word>>

Paid(cb) == cb \in applied /\ (cb \in Untracked \/ word[cb] = "CONFIRMED")

Leave(cb) ==
  /\ held[cb] = "queued"
  /\ cb \in dead \/ Paid(cb)
  /\ held' = [held EXCEPT ![cb] = "gone"]
  /\ UNCHANGED <<dead, applied, word>>

OutboxNext ==
  \E cb \in Callbacks :
    Put(cb) \/ Apply(cb) \/ Confirm(cb) \/ Fail(cb) \/ Bury(cb) \/ Leave(cb)

OutboxSpec == OutboxInit /\ [][OutboxNext]_outbox
=============================================================================
