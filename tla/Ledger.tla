------------------------------- MODULE Ledger -------------------------------
(***************************************************************************)
(* internal/provider/ledger: the durable record of every movement of money *)
(* and the store of idempotency keys.  Callers are goroutines of one or    *)
(* several processes; each access to the database is one atomic step, so   *)
(* Begin is an insertion then perhaps a read, and Confirm or Fail an       *)
(* update of a PENDING entry then perhaps a read.                          *)
(*                                                                         *)
(* An access can fail, and a failed write may have been applied all the    *)
(* same; a caller that dies between two steps is one whose second step     *)
(* fails.  A call whose arguments validate() refuses changes nothing.      *)
(* Amounts, references, times and reasons are data nobody compares here.   *)
(***************************************************************************)
EXTENDS FiniteSets

CONSTANTS
  Callers,
  Keys,      \* idempotency keys
  Txns,      \* transaction ids Begin may draw
  Foreign,   \* a transaction id of no entry
  NoEntry

ASSUME LedgerConstants == Foreign \notin Txns

VARIABLES
  entries,  \* transaction id -> entry
  calls,    \* caller -> its call in progress
  told      \* history: the answers given, for the properties

vars == <<entries, calls, told>>

Decisions == {"CONFIRMED", "FAILED"}
Entry == [key: Keys, status: {"PENDING"} \cup Decisions]
Verdicts == {"created", "existing", "conflict", "absent"} \cup Decisions
Answer == [txn: Txns \cup {Foreign}, verdict: Verdicts]

Idle == [step |-> "idle"]
Call == {Idle}
        \cup [step: {"insert", "reread"}, key: Keys, txn: Txns]
        \cup [step: {"update", "check"}, txn: Txns \cup {Foreign}, to: Decisions]

ASSUME NoEntryIsNoEntry == NoEntry \notin Entry

TypeOK ==
  /\ entries \in [Txns \cup {Foreign} -> Entry \cup {NoEntry}]
  /\ calls \in [Callers -> Call]
  /\ told \subseteq Answer

Init ==
  /\ entries = [t \in Txns \cup {Foreign} |-> NoEntry]
  /\ calls = [c \in Callers |-> Idle]
  /\ told = {}

Known == {t \in Txns : entries[t] # NoEntry}
WithKey(k) == {t \in Known : entries[t].key = k}

-----------------------------------------------------------------------------
Return(c) == calls' = [calls EXCEPT ![c] = Idle]

Answers(c, txn, verdict) ==
  /\ Return(c)
  /\ told' = told \cup {[txn |-> txn, verdict |-> verdict]}

Continue(c, call) == calls' = [calls EXCEPT ![c] = call] /\ UNCHANGED <<entries, told>>

\* An infrastructure error: the caller learns nothing about the entry.
Errs(c) == Return(c) /\ UNCHANGED told

-----------------------------------------------------------------------------
(* Begin.                                                                  *)

BeginCall(c, k) ==
  /\ calls[c] = Idle
  /\ \E t \in Txns : Continue(c, [step |-> "insert", key |-> k, txn |-> t])

\* Mutant: only the transaction id is unique.
DuplicateTxn(k, t) == t \in Known

\* Both indexes are unique.
Duplicate(k, t) == WithKey(k) # {} \/ t \in Known

Insert(c) ==
  /\ calls[c].step = "insert"
  /\ LET k == calls[c].key
         t == calls[c].txn
     IN \/ /\ Duplicate(k, t)
           /\ Continue(c, [step |-> "reread", key |-> k, txn |-> t])
        \/ /\ ~Duplicate(k, t)
           /\ entries' = [entries EXCEPT ![t] = [key |-> k, status |-> "PENDING"]]
           /\ Answers(c, t, "created") \/ Errs(c)
        \/ Errs(c) /\ UNCHANGED entries

\* A collision of transaction ids finds no entry under the key: an error.
Reread(c) ==
  /\ calls[c].step = "reread"
  /\ \/ \E t \in WithKey(calls[c].key) : Answers(c, t, "existing")
     \/ Errs(c)
  /\ UNCHANGED entries

-----------------------------------------------------------------------------
(* Confirm and Fail: transition to a decision.                             *)

\* A caller has the transaction id of an entry it was given, or a wrong one.
ResolveCall(c, t, to) ==
  /\ calls[c] = Idle
  /\ t \in Known \cup {Foreign}
  /\ Continue(c, [step |-> "update", txn |-> t, to |-> to])

IsPending(t) == entries[t] # NoEntry /\ entries[t].status = "PENDING"

\* Mutant: the update does not require the entry to be pending.
UpdateAnyStatus(c) ==
  /\ calls[c].step = "update"
  /\ LET t == calls[c].txn
         to == calls[c].to
     IN \/ /\ entries[t] # NoEntry
           /\ entries' = [entries EXCEPT ![t] = [key |-> entries[t].key, status |-> to]]
           /\ Answers(c, t, to) \/ Errs(c)
        \/ /\ entries[t] = NoEntry
           /\ Continue(c, [step |-> "check", txn |-> t, to |-> to])
        \/ Errs(c) /\ UNCHANGED entries

Update(c) ==
  /\ calls[c].step = "update"
  /\ LET t == calls[c].txn
         to == calls[c].to
     IN \/ /\ IsPending(t)
           /\ entries' = [entries EXCEPT ![t] = [key |-> entries[t].key, status |-> to]]
           /\ Answers(c, t, to) \/ Errs(c)
        \/ /\ ~IsPending(t)
           /\ Continue(c, [step |-> "check", txn |-> t, to |-> to])
        \/ Errs(c) /\ UNCHANGED entries

Verdict(t, to) ==
  IF entries[t] = NoEntry THEN "absent"
  ELSE IF entries[t].status = to THEN to ELSE "conflict"

\* Mutant: a read that failed is reported as an entry that does not exist.
CheckMasked(c) ==
  /\ calls[c].step = "check"
  /\ LET t == calls[c].txn
     IN Answers(c, t, Verdict(t, calls[c].to)) \/ Answers(c, t, "absent")
  /\ UNCHANGED entries

Check(c) ==
  /\ calls[c].step = "check"
  /\ LET t == calls[c].txn
     IN Answers(c, t, Verdict(t, calls[c].to)) \/ Errs(c)
  /\ UNCHANGED entries

-----------------------------------------------------------------------------
Next ==
  \E c \in Callers :
    \/ \E k \in Keys : BeginCall(c, k)
    \/ Insert(c)
    \/ Reread(c)
    \/ \E t \in Txns \cup {Foreign}, to \in Decisions : ResolveCall(c, t, to)
    \/ Update(c)
    \/ Check(c)

Spec == Init /\ [][Next]_vars

-----------------------------------------------------------------------------
\* An operation has one owner: whatever calls race and fail, a key has one
\* entry, so at most one caller is ever told to move the money of a key.
OneOwner ==
  \A s, t \in Known : entries[s].key = entries[t].key => s = t

\* What an answer says of the entries.
IsTrue(a) ==
  CASE a.verdict \in {"created", "existing"} -> entries[a.txn] # NoEntry
    [] a.verdict \in Decisions -> /\ entries[a.txn] # NoEntry
                                  /\ entries[a.txn].status = a.verdict
    [] a.verdict = "conflict" -> /\ entries[a.txn] # NoEntry
                                 /\ entries[a.txn].status \in Decisions
    [] a.verdict = "absent" -> entries[a.txn] = NoEntry

\* An answer stays the truth: who was told CONFIRMED or FAILED can rely on it
\* for ever, a conflict means that the opposite was decided, and an absent
\* entry is never an entry that could not be read.
AnswersTrue == \A a \in told : IsTrue(a)

\* The ledger is an audit trail: an entry never disappears, keeps its key, and
\* a decision is never changed or taken back.
DecisionsFinal ==
  [][\A t \in Known :
       /\ entries'[t] # NoEntry
       /\ entries'[t].key = entries[t].key
       /\ entries[t].status \in Decisions => entries'[t] = entries[t]]_vars

-----------------------------------------------------------------------------
StatusOf(k) == IF WithKey(k) = {} THEN "NONE"
               ELSE entries[CHOOSE t \in WithKey(k) : TRUE].status

\* What the contract sees: keys instead of transactions.
Stati == [k \in Keys |-> StatusOf(k)]
Mapped == {<<entries[a.txn].key, a.verdict>> : a \in {b \in told : b.txn # Foreign}}

Contract == INSTANCE LedgerContract WITH status <- Stati, answers <- Mapped

\* The two-step calls on a store that loses answers behave as atomic ones.
ImplementsContract == Contract!Spec
=============================================================================
