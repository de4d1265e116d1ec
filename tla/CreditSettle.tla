---------------------------- MODULE CreditSettle ----------------------------
(***************************************************************************)
(* cmd/server/credit_settle.go: the settlement of a win.  Settle opens the *)
(* CREDIT entry of the win in the ledger, under a key made of the bet's    *)
(* id, and the caller that creates the entry enqueues the callback.  When  *)
(* the entry cannot be opened a goroutine tries again until it can.        *)
(*                                                                         *)
(* A process numbers its bets from 1 (BetManager), and a restart forgets   *)
(* the numbers as it forgets the settlements under way; the entries, their *)
(* keys and the queue are durable.  A bet is won once, and settled once by *)
(* who cashed it out (AutoCashout), so a process has one settlement per    *)
(* key and the test of inflight never bites.                               *)
(*                                                                         *)
(* Data: one player; a stake and the payout are a single amount.           *)
(***************************************************************************)
EXTENDS Integers, FiniteSets

CONSTANTS
  MaxNumbers,   \* bound on the bets of a process
  Amounts,      \* payouts
  MaxTries,     \* attempts of the background goroutine (8640)
  MaxFaults,    \* bound on database errors
  MaxRestarts

ASSUME CreditConstants ==
  /\ MaxNumbers \in Nat /\ MaxTries \in Nat \ {0}
  /\ MaxFaults \in Nat /\ MaxRestarts \in Nat

VARIABLES
  process,   \* number of the process
  numbered,  \* bets numbered by this process
  wins,      \* <<process, bet>> -> the settlement of its win
  entries,   \* bet (the key) -> its CREDIT entry, or NoEntry
  queue,     \* keys of the callbacks in the queue
  enqueued,  \* history: key -> callbacks ever enqueued
  paid,      \* keys the operator applied
  faults

creditVars == <<process, numbered, wins, entries, queue, enqueued, paid, faults>>

Numbers == 1..MaxNumbers
Processes == 0..MaxRestarts
Steps == {"begin", "deferred", "enqueue", "queued", "recoverable", "known",
          "review", "unregistered", "died"}
Win == [amount: Amounts, step: Steps, tries: 0..MaxTries]
Entry == [win: Processes \X Numbers, amount: Amounts,
          status: {"PENDING", "CONFIRMED", "FAILED"}]
NoEntry == [status |-> "NONE"]

CreditTypeOK ==
  /\ process \in Processes
  /\ numbered \in 0..MaxNumbers
  /\ DOMAIN wins \subseteq Processes \X Numbers
  /\ wins \in [DOMAIN wins -> Win]
  /\ entries \in [Numbers -> Entry \cup {NoEntry}]
  /\ queue \subseteq Numbers /\ paid \subseteq Numbers
  /\ enqueued \in [Numbers -> Nat]
  /\ faults \in 0..MaxFaults

CreditInit ==
  /\ process = 0 /\ numbered = 0
  /\ wins = [w \in {} |-> 0]
  /\ entries = [n \in Numbers |-> NoEntry]
  /\ queue = {} /\ paid = {}
  /\ enqueued = [n \in Numbers |-> 0]
  /\ faults = 0

Fault == faults < MaxFaults /\ faults' = faults + 1

Goto(w, step) == wins' = [wins EXCEPT ![w].step = step]
Live == {w \in DOMAIN wins : w[1] = process}

-----------------------------------------------------------------------------
\* A bet is placed, and won or not.
NewBet ==
  /\ numbered < MaxNumbers
  /\ numbered' = numbered + 1
  /\ \/ UNCHANGED wins
     \/ \E a \in Amounts :
          LET w == <<process, numbered + 1>> IN
          wins' = [v \in DOMAIN wins \cup {w} |->
                     IF v = w THEN [amount |-> a, step |-> "begin", tries |-> 0]
                     ELSE wins[v]]
  /\ UNCHANGED <<process, entries, queue, enqueued, paid, faults>>

\* Mutant: an entry that exists is enqueued too.
ExistingEnqueues(entry, amount) ==
  IF entry.amount = amount THEN "enqueue" ELSE "review"

\* existing: an entry of another amount, or one that failed, needs a human.
Existing(entry, amount) ==
  IF entry.amount # amount \/ entry.status = "FAILED" THEN "review" ELSE "known"

\* Mutant: a win whose entry cannot be opened is only logged.
NotDeferred(win) == "unregistered"

\* scheduleBeginRetry: the goroutine gives up after its last attempt.
Deferred(win) ==
  IF win.tries >= MaxTries THEN "unregistered" ELSE "deferred"

\* Mutant: the callback is enqueued although the entry was not opened.
DefersAndSends(w) ==
  wins' = [wins EXCEPT ![w].step = "enqueue"]

Defers(w) ==
  wins' = [wins EXCEPT ![w].step = Deferred(wins[w]),
                       ![w].tries = IF @ < MaxTries THEN @ + 1 ELSE @]

\* beginOnce and what follows, first by Settle, then by the goroutine.
BeginOnce(w) ==
  /\ wins[w].step \in {"begin", "deferred"}
  /\ LET n == w[2]
         Opens == entries' = [entries EXCEPT ![n] =
                    [win |-> w, amount |-> wins[w].amount, status |-> "PENDING"]]
     IN \/ entries[n] = NoEntry /\ Opens /\ Goto(w, "enqueue") /\ UNCHANGED faults
        \/ /\ entries[n] # NoEntry
           /\ Goto(w, Existing(entries[n], wins[w].amount))
           /\ UNCHANGED <<entries, faults>>
        \/ /\ Fault /\ Defers(w)
           /\ (entries[n] = NoEntry /\ Opens) \/ UNCHANGED entries
  /\ UNCHANGED <<process, numbered, queue, enqueued, paid>>

Enqueues(n) ==
  /\ queue' = queue \cup {n}
  /\ enqueued' = [enqueued EXCEPT ![n] = @ + 1]

\* afterBegin: the entry is created.  An error leaves it to the sweeper, and may
\* hide a callback that was enqueued.
Enqueue(w) ==
  /\ wins[w].step = "enqueue"
  /\ \/ Enqueues(w[2]) /\ Goto(w, "queued") /\ UNCHANGED faults
     \/ /\ Fault /\ Goto(w, "recoverable")
        /\ Enqueues(w[2]) \/ UNCHANGED <<queue, enqueued>>
  /\ UNCHANGED <<process, numbered, entries, paid>>

SettleWin(w) == BeginOnce(w) \/ Enqueue(w)

-----------------------------------------------------------------------------
(* The queue and the sweeper, in one step each (CallbackQueue has more).   *)

Resolved(n, to) ==
  entries' = IF entries[n].status = "PENDING" THEN [entries EXCEPT ![n].status = to]
             ELSE entries

\* Accepted, refused, or without an answer until the attempts are exhausted:
\* the last two go to the dead letters.
Deliver(n) ==
  /\ n \in queue
  /\ queue' = queue \ {n}
  /\ \/ paid' = paid \cup {n} /\ Resolved(n, "CONFIRMED")
     \/ n \notin paid /\ Resolved(n, "FAILED") /\ UNCHANGED paid
     \/ paid' \in {paid, paid \cup {n}} /\ UNCHANGED entries
  /\ UNCHANGED <<process, numbered, wins, enqueued, faults>>

Sweep(n) ==
  /\ entries[n].status = "PENDING"
  /\ \/ paid' = paid \cup {n} /\ Resolved(n, "CONFIRMED")
     \/ n \notin paid /\ Resolved(n, "FAILED") /\ UNCHANGED paid
  /\ UNCHANGED <<process, numbered, wins, queue, enqueued, faults>>

\* The settlements under way die with their goroutines.
Restart ==
  /\ process < MaxRestarts
  /\ process' = process + 1
  /\ numbered' = 0
  /\ wins' = [w \in DOMAIN wins |->
                IF wins[w].step \in {"begin", "deferred", "enqueue"}
                THEN [amount |-> wins[w].amount, step |-> "died", tries |-> wins[w].tries]
                ELSE wins[w]]
  /\ UNCHANGED <<entries, queue, enqueued, paid, faults>>

CreditNext ==
  \/ NewBet \/ Restart
  \/ \E w \in Live : SettleWin(w)
  \/ \E n \in Numbers : Deliver(n) \/ Sweep(n)

CreditSpec == CreditInit /\ [][CreditNext]_creditVars

\* Settle runs in its caller, then in a goroutine that only stops at the end.
CreditFairSpec ==
  CreditSpec /\ \A p \in Processes, n \in Numbers :
                  WF_creditVars(<<p, n>> \in Live /\ SettleWin(<<p, n>>))

-----------------------------------------------------------------------------
\* The invariant of the header: no CREDIT callback is in the queue, and none
\* was applied, without an entry of the ledger.
TracedBeforeSent ==
  \A n \in Numbers : n \in queue \cup paid => entries[n] # NoEntry

\* Only who creates the entry enqueues its callback, whoever retries.
OneCallback == \A n \in Numbers : enqueued[n] <= 1

\* Unless the process dies, or the database fails more often than the goroutine
\* tries, every win ends on record under its own key.
WinsRegistered ==
  \A n \in Numbers :
    (<<0, n>> \in DOMAIN wins) ~>
      \/ process > 0 \/ faults > MaxTries
      \/ entries[n] # NoEntry /\ entries[n].win = <<0, n>>

-----------------------------------------------------------------------------
\* credit_settle.go:21: a win is never abandoned silently.  A win answered
\* "already known" is the one of the entry.
KnownIsMine ==
  \A w \in DOMAIN wins : wins[w].step = "known" => entries[w[2]].win = w
=============================================================================
