--------------------------------- MODULE Sweep ---------------------------------
(***************************************************************************)
(* A sweep of internal/provider/recovery: which of the pending entries of  *)
(* the ledger RunOnce takes up, in what order, and how many.               *)
(*                                                                         *)
(* The list is read once, with the time of the beginning of the sweep, and *)
(* is in the order of creation: the store asks for none.  What is done     *)
(* with one entry is one step here, StakeFlow and CallbackQueue have the   *)
(* steps of it; meanwhile handlers and the callback queue decide entries,  *)
(* open new ones, and time passes.  A restart would only end the sweep:    *)
(* nothing but lastStale, which is for the log, outlives one.              *)
(*                                                                         *)
(* Time is told by the three ages the code compares with: 30 s             *)
(* (debitAfter), 5 min (moneyAfter) and 72 h (maxAge).                     *)
(***************************************************************************)
EXTENDS Integers, Sequences, FiniteSets

CONSTANTS
  Batch,        \* s.batch
  MaxEntries,   \* bound on the entries
  MaxFaults     \* bound on errors of the database and answers that are lost

ASSUME SweepConstants ==
  Batch \in Nat /\ MaxEntries \in Nat /\ MaxFaults \in Nat

VARIABLES
  entries,   \* the entries, in the order of their creation
  list,      \* what the sweep has still to look at: id -> age when it was listed
  handled,   \* entries counted against the batch
  seen,      \* history: what the sweep has looked at: id -> age when it was listed
  erred,     \* history: those of seen that met an error or a lost answer
  faults

history == <<seen, erred>>
sweepVars == <<entries, list, handled, history, faults>>

\* Ages: under debitAfter, under moneyAfter, under maxAge, over it.
Fresh == 0
Young == 1
Due == 2
Stale == 3

Kinds == {"DEBIT", "CREDIT", "ROLLBACK"}
\* parent is the debit of a rollback; an entry is mute when the operator never
\* answers its callback, or its idempotency key is not recognised.
Entry == [kind: Kinds, parent: 0..MaxEntries, mute: BOOLEAN, age: Fresh..Stale,
          status: {"PENDING", "CONFIRMED", "FAILED"}]

Ids == DOMAIN entries
Pending(i) == entries[i].status = "PENDING"
Parent(i) == entries[i].parent
HasRollback(d) == \E i \in Ids : Parent(i) = d

Listing == UNION {[listed -> Young..Stale] : listed \in SUBSET Ids}

SweepTypeOK ==
  /\ entries \in Seq(Entry) /\ Len(entries) <= MaxEntries
  /\ \A i, j \in Ids : i < j => entries[j].age <= entries[i].age
  /\ \A i \in Ids : IF entries[i].kind # "ROLLBACK" THEN Parent(i) = 0
                    ELSE Parent(i) \in 1..(i - 1) /\ entries[Parent(i)].kind = "DEBIT"
  /\ list \in Listing /\ seen \in Listing /\ erred \subseteq DOMAIN seen
  /\ handled \in 0..Batch
  /\ faults \in 0..MaxFaults

Nothing == [i \in {} |-> Stale]

SweepInit ==
  /\ entries = <<>> /\ list = Nothing /\ handled = 0
  /\ seen = Nothing /\ erred = {} /\ faults = 0

Fault == faults < MaxFaults /\ faults' = faults + 1

-----------------------------------------------------------------------------
(* Handlers, settlements and the queue.                                    *)

\* The entries, with one more.
Opened(kind, parent, mute) ==
  Append(entries, [kind |-> kind, parent |-> parent, mute |-> mute,
                   age |-> Fresh, status |-> "PENDING"])

\* Room is left for the rollbacks the sweeper may open.
Begin ==
  /\ \E kind \in {"DEBIT", "CREDIT"}, mute \in BOOLEAN :
       entries' = Opened(kind, 0, mute)
  /\ LET owing == {i \in DOMAIN entries' :
                     entries'[i].kind = "DEBIT" /\ entries'[i].status = "PENDING"
                     /\ \A j \in DOMAIN entries' : entries'[j].parent # i}
     IN Len(entries') + Cardinality(owing) <= MaxEntries
  /\ UNCHANGED <<list, handled, history, faults>>

\* markDebitForRefund.
Mark(d) ==
  /\ entries[d].kind = "DEBIT" /\ Pending(d) /\ ~HasRollback(d)
  /\ \E mute \in BOOLEAN : entries' = Opened("ROLLBACK", d, mute)
  /\ UNCHANGED <<list, handled, history, faults>>

Resolve(i) ==
  /\ Pending(i)
  /\ \E to \in {"CONFIRMED", "FAILED"} : entries' = [entries EXCEPT ![i].status = to]
  /\ UNCHANGED <<list, handled, history, faults>>

\* An entry is never older than one created before it.
Age(i) ==
  /\ entries[i].age < Stale
  /\ i > 1 => entries[i].age < entries[i - 1].age
  /\ entries' = [entries EXCEPT ![i].age = @ + 1]
  /\ UNCHANGED <<list, handled, history, faults>>

-----------------------------------------------------------------------------
(* RunOnce.                                                                *)

Listed == [i \in {j \in Ids : Pending(j) /\ entries[j].age >= Young} |-> entries[i].age]

\* ListPendingOlderThan; with nothing to list, or an error, the sweep is over.
Start ==
  /\ DOMAIN list = {} /\ DOMAIN Listed # {}
  /\ list' = Listed /\ handled' = 0
  /\ seen' = Nothing /\ erred' = {}
  /\ UNCHANGED <<entries, faults>>

\* Mutant: the newest entry of the list comes first.
Newest(i) == i \in DOMAIN list /\ \A j \in DOMAIN list : j <= i

First(i) == i \in DOMAIN list /\ \A j \in DOMAIN list : i <= j

\* The loop has looked at i.
Looked(i) ==
  /\ list' = [j \in DOMAIN list \ {i} |-> list[j]]
  /\ seen' = [j \in DOMAIN seen \cup {i} |-> IF j = i THEN list[i] ELSE seen[j]]

\* Mutant: the entries that are too old count against the batch.
SkipCounting(i) ==
  /\ list[i] = Stale
  /\ IF handled >= Batch
     THEN list' = Nothing /\ UNCHANGED <<handled, seen>>
     ELSE Looked(i) /\ handled' = handled + 1
  /\ UNCHANGED <<entries, erred, faults>>

\* An entry over maxAge is passed over, and does not count.
Skip(i) ==
  /\ list[i] = Stale
  /\ Looked(i)
  /\ UNCHANGED <<entries, handled, erred, faults>>

\* The batch is full: the rest waits for the next sweep.
Full(i) ==
  /\ list[i] # Stale /\ handled >= Batch
  /\ list' = Nothing
  /\ UNCHANGED <<entries, handled, history, faults>>

TooYoung(i) == entries[i].kind # "DEBIT" /\ list[i] = Young

\* A credit or rollback under moneyAfter is left to the queue.
Leave(i) ==
  /\ list[i] # Stale /\ handled < Batch /\ TooYoung(i)
  /\ Looked(i)
  /\ UNCHANGED <<entries, handled, erred, faults>>

Takes(i) ==
  /\ list[i] # Stale /\ handled < Batch /\ ~TooYoung(i)
  /\ handled' = handled + 1
  /\ Looked(i)

Errs(i) == Fault /\ erred' = erred \cup {i}
NoFault == UNCHANGED <<faults, erred>>

\* What becomes of an entry whose callback is sent: no answer leaves it.
Decided(es, i) ==
  {IF es[i].mute THEN es ELSE [es EXCEPT ![i].status = to] : to \in {"CONFIRMED", "FAILED"}}

\* recoverDebit, the debit rejected: its marker fails with it.
DebitRejected(d) ==
  entries' = [i \in Ids |->
    IF Pending(i) /\ (i = d \/ Parent(i) = d)
    THEN [entries[i] EXCEPT !.status = "FAILED"] ELSE entries[i]]

\* The entries, or those with a refund of d as well.
WithRefund(d) ==
  IF HasRollback(d) THEN {entries}
  ELSE {Opened("ROLLBACK", d, mute) : mute \in BOOLEAN}

Confirmed(es, d) == [es EXCEPT ![d].status = "CONFIRMED"]

\* recoverDebit, the debit accepted: it is to be refunded if it has a marker or
\* is of an earlier process, and the refund is sent in the same sweep.
DebitAccepted(d) ==
  \/ ~HasRollback(d) /\ entries' = Confirmed(entries, d)
  \/ \E es \in WithRefund(d) :
       \E i \in DOMAIN es :
         /\ es[i].parent = d
         /\ IF es[i].status = "PENDING" THEN entries' \in Decided(Confirmed(es, d), i)
            ELSE entries' = Confirmed(es, d)

\* An error, or an answer that does not come: the refund may be on record, the
\* debit decided, and its refund not.
DebitLeft(d) ==
  \/ UNCHANGED entries
  \/ \E es \in WithRefund(d) : entries' \in {es, Confirmed(es, d)}
  \/ HasRollback(d) /\ entries' = [entries EXCEPT ![d].status = "FAILED"]

RecoverDebit(i) ==
  /\ entries[i].kind = "DEBIT"
  /\ Takes(i)
  /\ \/ /\ ~Pending(i) \/ entries[i].mute
        /\ UNCHANGED entries /\ NoFault
     \/ /\ Pending(i) /\ ~entries[i].mute
        /\ \/ (DebitRejected(i) \/ DebitAccepted(i)) /\ NoFault
           \/ Errs(i) /\ DebitLeft(i)

\* recoverMoney: a rollback waits for its debit, and fails with it.
RecoverMoney(i) ==
  /\ entries[i].kind # "DEBIT"
  /\ Takes(i)
  /\ LET parent == IF entries[i].kind = "ROLLBACK" THEN entries[Parent(i)].status ELSE "NONE" IN
     \/ /\ ~Pending(i) \/ parent = "PENDING"
        /\ UNCHANGED entries /\ NoFault
     \/ /\ Pending(i) /\ parent = "FAILED"
        /\ entries' = [entries EXCEPT ![i].status = "FAILED"] /\ NoFault
     \/ /\ Pending(i) /\ parent \in {"CONFIRMED", "NONE"}
        /\ entries' \in Decided(entries, i) /\ NoFault
     \/ Pending(i) /\ Errs(i) /\ UNCHANGED entries

Sweep ==
  \/ Start
  \/ \E i \in DOMAIN list :
       First(i) /\ (Skip(i) \/ Full(i) \/ Leave(i) \/ RecoverDebit(i) \/ RecoverMoney(i))

-----------------------------------------------------------------------------
SweepNext ==
  \/ Begin \/ Sweep
  \/ \E i \in Ids : Mark(i) \/ Resolve(i) \/ Age(i)

\* The ticker of Run starts sweeps, whose calls answer or time out.
SweepSpec == SweepInit /\ [][SweepNext]_sweepVars
SweepFairSpec == SweepSpec /\ WF_sweepVars(Sweep)

-----------------------------------------------------------------------------
\* An entry that takes a place of the batch and that no sweep can decide.
Orphan(i) == entries[i].kind = "ROLLBACK" /\ Pending(Parent(i))
             /\ (entries[Parent(i)].mute \/ entries[Parent(i)].age = Stale)
Stuck(i) == /\ Pending(i) /\ entries[i].age \in {Young, Due}
            /\ Orphan(i) \/ (entries[i].mute /\ ~(entries[i].kind = "ROLLBACK"
                                                   /\ entries[Parent(i)].status = "FAILED"))
Room == Cardinality({i \in Ids : Stuck(i)}) < Batch

\* Why the sweep under way may have passed an entry that is pending: it was too
\* old or too young for it when listed, has no answer, or met an error.
Excused(i) ==
  \/ seen[i] = Stale
  \/ seen[i] = Young /\ entries[i].kind # "DEBIT"
  \/ entries[i].mute
  \/ i \in erred

\* A sweep leaves behind it no entry it could have decided, whatever is opened,
\* decided or marked meanwhile: what it passed and is still pending is excused,
\* or is the refund of a debit it passed before and that is excused.
PassedIsDecided ==
  \A i \in DOMAIN seen : Pending(i) =>
    \/ Excused(i)
    \/ entries[i].kind = "ROLLBACK" /\ Parent(i) \in DOMAIN seen /\ Excused(Parent(i))

\* A batch is never spent in vain: when it is full without an error, something
\* it looked at is decided, unless a batch of entries cannot be.
Hopeless(i) == Pending(i) /\ (entries[i].mute \/ Orphan(i))
FullBatchDecides ==
  /\ handled = Batch /\ erred = {}
  /\ Cardinality({i \in Ids : Hopeless(i)}) < Batch
  => \E i \in DOMAIN seen : ~Pending(i)

\* An entry of an age to be taken up, that can be decided.
Waits(i) == /\ i \in Ids
            /\ Pending(i) /\ ~Stuck(i)
            /\ entries[i].age = Due \/ (entries[i].kind = "DEBIT" /\ entries[i].age = Young)

\* As long as fewer than a batch of the entries cannot be decided, every entry
\* that can is decided, unless it is over maxAge before: neither the entries
\* too old or too young, nor those without an answer, keep a sweep from it,
\* whatever is opened or decided meanwhile.
Reached == <>[]Room => \A i \in 1..MaxEntries : Waits(i) ~> ~Waits(i)

\* recovery.go:1: the package resolves the entries that stayed pending, however
\* many of the older ones have no answer.
ReachedAnyway == \A i \in 1..MaxEntries : Waits(i) ~> ~Waits(i)
=============================================================================
