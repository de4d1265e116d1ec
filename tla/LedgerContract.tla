--------------------------- MODULE LedgerContract ---------------------------
(***************************************************************************)
(* What the gateway, the settlement of wins, the callback queue and the    *)
(* recovery sweeper rely on when they use the ledger: an operation is      *)
(* opened once under its idempotency key and decided once, and an answer   *)
(* is the truth about the operation from then on.  An answer may be lost.  *)
(* Ledger implements it.                                                   *)
(***************************************************************************)
CONSTANT Keys

VARIABLES
  status,   \* key -> state of the operation
  answers   \* what callers were told: <<key, verdict>>

contractVars == <<status, answers>>

Decisions == {"CONFIRMED", "FAILED"}

Init ==
  /\ status = [k \in Keys |-> "NONE"]
  /\ answers = {}

\* The caller is told, or its answer is lost.
Tell(k, verdict) == answers' \in {answers, answers \cup {<<k, verdict>>}}

Open(k) ==
  /\ status[k] = "NONE"
  /\ status' = [status EXCEPT ![k] = "PENDING"]
  /\ Tell(k, "created")

Find(k) ==
  /\ status[k] # "NONE"
  /\ answers' = answers \cup {<<k, "existing">>}
  /\ UNCHANGED status

Decide(k, to) ==
  /\ status[k] = "PENDING"
  /\ status' = [status EXCEPT ![k] = to]
  /\ Tell(k, to)

Repeat(k, to) ==
  /\ status[k] = to
  /\ answers' = answers \cup {<<k, to>>}
  /\ UNCHANGED status

Refuse(k, to) ==
  /\ status[k] \in Decisions \ {to}
  /\ answers' = answers \cup {<<k, "conflict">>}
  /\ UNCHANGED status

Next ==
  \E k \in Keys :
    \/ Open(k)
    \/ Find(k)
    \/ \E to \in Decisions : Decide(k, to) \/ Repeat(k, to) \/ Refuse(k, to)

Spec == Init /\ [][Next]_contractVars
=============================================================================
