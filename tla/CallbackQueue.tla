---------------------------- MODULE CallbackQueue ----------------------------
(***************************************************************************)
(* internal/wallet/queue.go: the durable queue of CREDIT and ROLLBACK      *)
(* callbacks, with the operator's wallet, the ledger entries the callbacks *)
(* resolve, and the recovery sweeper that resends what stays PENDING.      *)
(*                                                                         *)
(* A process has one worker, the loop of Queue.Run, and one sweeper; two   *)
(* processes overlap when one replaces another.  Each access to the        *)
(* database or to the operator is one step, and a crash between two steps  *)
(* forgets the worker's copy of the callback.  Time is abstracted: a      *)
(* leased or retried callback becomes due again at any moment, also while  *)
(* a worker still holds it (a lease lasts 30 s, an access to the database  *)
(* has no limit).                                                          *)
(* The ledger is used through its contract (LedgerContract): a decision is *)
(* atomic, and told or lost.                                               *)
(*                                                                         *)
(* The operator honours idempotency keys: what it applied once it accepts  *)
(* for ever and never applies again; what it has not applied it may refuse. *)
(***************************************************************************)
EXTENDS Integers, FiniteSets

CONSTANTS
  Callbacks,
  Untracked,    \* callbacks enqueued without a ledger transaction
  Processes,
  MaxAttempts,
  MaxFaults     \* bound on store errors and crashes

ASSUME QueueConstants ==
  /\ Untracked \subseteq Callbacks
  /\ MaxAttempts \in Nat \ {0}
  /\ MaxFaults \in Nat

VARIABLES
  place,     \* callback -> "out" (not enqueued), "due", "later" or "removed"
  attempts,  \* callback -> attempts stored in the queue
  dead,      \* the dead-letter collection
  ledger,    \* callback -> status of its entry
  applied,   \* what the operator applied
  work,      \* process -> what its worker is doing
  sweep,     \* process -> what its sweeper is doing
  faults

vars == <<place, attempts, dead, ledger, applied, work, sweep, faults>>

Decisions == {"CONFIRMED", "FAILED"}
Idle == [step |-> "idle"]
Steps == {"send", "resolve", "retry", "dead", "remove"}
Outcomes == {"accepted", "rejected", "unknown"}
Work == {Idle} \cup [step: Steps, cb: Callbacks, tries: Nat, outcome: Outcomes]
Sweep == {Idle} \cup [step: {"send", "resolve"}, cb: Callbacks, outcome: Outcomes]

TypeOK ==
  /\ place \in [Callbacks -> {"out", "due", "later", "removed"}]
  /\ attempts \in [Callbacks -> 0..MaxAttempts - 1]
  /\ dead \subseteq Callbacks
  /\ ledger \in [Callbacks -> {"PENDING"} \cup Decisions]
  /\ applied \subseteq Callbacks
  /\ work \in [Processes -> Work]
  /\ sweep \in [Processes -> Sweep]
  /\ faults \in 0..MaxFaults

Init ==
  /\ place = [cb \in Callbacks |-> "out"]
  /\ attempts = [cb \in Callbacks |-> 0]
  /\ dead = {}
  /\ ledger = [cb \in Callbacks |-> "PENDING"]
  /\ applied = {}
  /\ work = [w \in Processes |-> Idle]
  /\ sweep = [w \in Processes |-> Idle]
  /\ faults = 0

InQueue(cb) == place[cb] \in {"due", "later"}

Fault == faults < MaxFaults /\ faults' = faults + 1

-----------------------------------------------------------------------------
(* The operator and the ledger.                                            *)

\* Client.Send: the operator applies or refuses, and its answer may be lost.
Answers(cb, outcome) ==
  \/ outcome = "accepted" /\ applied' = applied \cup {cb}
  \/ outcome = "rejected" /\ cb \notin applied /\ UNCHANGED applied
  \/ outcome = "unknown" /\ applied' \in {applied, applied \cup {cb}}

Decision(outcome) == IF outcome = "accepted" THEN "CONFIRMED" ELSE "FAILED"

\* Mutant: the update does not ask for an entry that is PENDING.
DecidesAgain(cb, to) == ledger' = [ledger EXCEPT ![cb] = to]

Decides(cb, to) ==
  ledger' = IF ledger[cb] = "PENDING" THEN [ledger EXCEPT ![cb] = to] ELSE ledger

Conflict(cb, to) == ledger[cb] \in Decisions \ {to}

-----------------------------------------------------------------------------
(* The queue.                                                              *)

\* One callback per id at a time; the rollback of a debit can be enqueued again
\* once it was removed.  An error may hide a callback that was written.
Enqueue(cb) ==
  /\ ~InQueue(cb)
  /\ place' = [place EXCEPT ![cb] = "due"]
  /\ attempts' = [attempts EXCEPT ![cb] = 0]
  /\ UNCHANGED <<dead, ledger, applied, work, sweep, faults>>

\* dueAt has come: the end of a lease, or of a backoff.
BecomesDue(cb) ==
  /\ place[cb] = "later"
  /\ place' = [place EXCEPT ![cb] = "due"]
  /\ UNCHANGED <<attempts, dead, ledger, applied, work, sweep, faults>>

Goto(w, step) == work' = [work EXCEPT ![w].step = step]
Finish(w) == work' = [work EXCEPT ![w] = Idle]

Lease(w, cb) ==
  /\ work[w] = Idle
  /\ place[cb] = "due"
  /\ place' = [place EXCEPT ![cb] = "later"]
  /\ work' = [work EXCEPT ![w] = [step |-> "send", cb |-> cb, tries |-> attempts[cb],
                                  outcome |-> "unknown"]]
  /\ UNCHANGED <<attempts, dead, ledger, applied, sweep, faults>>

\* Send classifies the answer: no answer proves nothing.
Classified(outcome) == outcome

AfterSend(cb, outcome) ==
  IF outcome = "unknown" THEN "retry"
  ELSE IF cb \notin Untracked THEN "resolve"
  ELSE IF outcome = "accepted" THEN "remove" ELSE "dead"

Send(w) ==
  /\ work[w].step = "send"
  /\ \E answer \in Outcomes :
       LET outcome == Classified(answer) IN
       /\ Answers(work[w].cb, answer)
       /\ work' = [work EXCEPT ![w].outcome = outcome,
                               ![w].step = AfterSend(work[w].cb, outcome)]
  /\ UNCHANGED <<place, attempts, dead, ledger, sweep, faults>>

\* Mutant: a decision in conflict with the ledger's is taken for a success.
AfterConflictRemove(w) == Goto(w, "remove")

\* A definitive inconsistency goes to the dead letters.
AfterConflict(w) == Goto(w, "dead")

Resolve(w) ==
  /\ work[w].step = "resolve"
  /\ LET cb == work[w].cb
         to == Decision(work[w].outcome)
     IN \/ /\ ~Conflict(cb, to)
           /\ Decides(cb, to)
           /\ Goto(w, IF work[w].outcome = "accepted" THEN "remove" ELSE "dead")
           /\ UNCHANGED faults
        \/ /\ Conflict(cb, to)
           /\ AfterConflict(w)
           /\ UNCHANGED <<ledger, faults>>
        \/ /\ Fault
           /\ Goto(w, "retry")
           /\ Decides(cb, to) \/ UNCHANGED ledger
  /\ UNCHANGED <<place, attempts, dead, applied, sweep>>

\* Mutant: the attempts are not counted.
TriesKept(w) == work[w].tries

Tries(w) == work[w].tries + 1

Exhausted(n) == n >= MaxAttempts

\* scheduleRetry updates a document, if it is still there.
Reschedule(cb, n) ==
  IF InQueue(cb)
  THEN /\ attempts' = [attempts EXCEPT ![cb] = n]
       /\ place' = [place EXCEPT ![cb] = "later"]
  ELSE UNCHANGED <<attempts, place>>

Retry(w) ==
  /\ work[w].step = "retry"
  /\ \/ /\ Exhausted(Tries(w))
        /\ Goto(w, "dead")
        /\ UNCHANGED <<place, attempts, faults>>
     \/ /\ ~Exhausted(Tries(w))
        /\ Finish(w)
        /\ \/ Reschedule(work[w].cb, Tries(w)) /\ UNCHANGED faults
           \/ Fault /\ UNCHANGED <<place, attempts>>
  /\ UNCHANGED <<dead, ledger, applied, sweep>>

Written(cb) == dead' = dead \cup {cb}

\* Mutant: the callback is removed although its dead letter was not written.
DeadLetterAnyway(w) ==
  /\ work[w].step = "dead"
  /\ \/ Written(work[w].cb) /\ Goto(w, "remove") /\ UNCHANGED faults
     \/ Fault /\ UNCHANGED dead /\ Goto(w, "remove")
  /\ UNCHANGED <<place, attempts, ledger, applied, sweep>>

\* deadLetterAndRemove: an error leaves the callback in the queue.
DeadLetter(w) ==
  /\ work[w].step = "dead"
  /\ \/ Written(work[w].cb) /\ Goto(w, "remove") /\ UNCHANGED faults
     \/ Fault /\ (Written(work[w].cb) \/ UNCHANGED dead) /\ Finish(w)
  /\ UNCHANGED <<place, attempts, ledger, applied, sweep>>

Remove(w) ==
  /\ work[w].step = "remove"
  /\ Finish(w)
  /\ \/ place' = [place EXCEPT ![work[w].cb] = "removed"] /\ UNCHANGED faults
     \/ Fault /\ UNCHANGED place
  /\ UNCHANGED <<attempts, dead, ledger, applied, sweep>>

-----------------------------------------------------------------------------
(* The sweeper: recoverMoney and sendAndResolve of recovery.go, for an     *)
(* entry that is old and, when it looks again, still PENDING.  Its age     *)
(* does not keep it from meeting a worker: a queue that could not reach    *)
(* its database is as late as it is.                                       *)

SweepEntry(w, cb) ==
  /\ sweep[w] = Idle
  /\ cb \notin Untracked
  /\ ledger[cb] = "PENDING"
  /\ sweep' = [sweep EXCEPT ![w] = [step |-> "send", cb |-> cb, outcome |-> "unknown"]]
  /\ UNCHANGED <<place, attempts, dead, ledger, applied, work, faults>>

SweepSend(w) ==
  /\ sweep[w].step = "send"
  /\ \E answer \in Outcomes :
       LET outcome == Classified(answer) IN
       /\ Answers(sweep[w].cb, answer)
       /\ sweep' = [sweep EXCEPT ![w] =
                      IF outcome = "unknown" THEN Idle
                      ELSE [step |-> "resolve", cb |-> sweep[w].cb, outcome |-> outcome]]
  /\ UNCHANGED <<place, attempts, dead, ledger, work, faults>>

\* A conflict or an error is only logged.
SweepResolve(w) ==
  /\ sweep[w].step = "resolve"
  /\ sweep' = [sweep EXCEPT ![w] = Idle]
  /\ \/ Decides(sweep[w].cb, Decision(sweep[w].outcome)) /\ UNCHANGED faults
     \/ Fault /\ UNCHANGED ledger
  /\ UNCHANGED <<place, attempts, dead, applied, work>>

Crash(w) ==
  /\ Fault
  /\ work' = [work EXCEPT ![w] = Idle]
  /\ sweep' = [sweep EXCEPT ![w] = Idle]
  /\ UNCHANGED <<place, attempts, dead, ledger, applied>>

-----------------------------------------------------------------------------
Worker(w) ==
  \/ \E cb \in Callbacks : Lease(w, cb)
  \/ Send(w) \/ Resolve(w) \/ Retry(w) \/ DeadLetter(w) \/ Remove(w)

Sweeper(w) ==
  \/ \E cb \in Callbacks : SweepEntry(w, cb)
  \/ SweepSend(w) \/ SweepResolve(w)

Next ==
  \/ \E cb \in Callbacks : Enqueue(cb) \/ BecomesDue(cb)
  \/ \E w \in Processes : Worker(w) \/ Sweeper(w) \/ Crash(w)

Spec == Init /\ [][Next]_vars

\* Run polls its queue for ever, and time passes; nothing forces an operator
\* to answer, or the sweeper to run.
FairSpec ==
  /\ Spec
  /\ \A w \in Processes : WF_vars(Worker(w))
  /\ \A cb \in Callbacks : WF_vars(BecomesDue(cb))

-----------------------------------------------------------------------------
\* A callback that left the queue was applied, and its entry confirmed, or it
\* is in the dead letters: no error, crash or late worker makes money due
\* vanish without a trace.
NothingVanishes ==
  \A cb \in Callbacks : place[cb] = "removed" =>
    \/ cb \in dead
    \/ cb \in applied /\ (cb \in Untracked \/ ledger[cb] = "CONFIRMED")

\* CONFIRMED in the ledger means that the operator applied the callback.
ConfirmedIsApplied ==
  \A cb \in Callbacks : ledger[cb] = "CONFIRMED" => cb \in applied

\* When the ledger says FAILED and the operator applied the callback all the
\* same (the queue and a sweeper got opposite answers), an enqueued callback is
\* still queued or in the dead letters, where a human will find it.
DisagreementTraced ==
  \A cb \in Callbacks :
    ledger[cb] = "FAILED" /\ cb \in applied /\ place[cb] # "out" =>
      InQueue(cb) \/ cb \in dead

\* Workers, sweepers and crashes together keep the promises of Outbox: the word
\* of the ledger is final, what is dead or applied stays so, and a callback,
\* also one enqueued again, leaves the queue only when it is accounted for.
Outbox == INSTANCE Outbox WITH
  held <- [cb \in Callbacks |-> IF place[cb] = "out" THEN "out"
                               ELSE IF InQueue(cb) THEN "queued" ELSE "gone"],
  word <- ledger
ImplementsOutbox == Outbox!OutboxSpec

\* A callback does not stay in the queue for ever: applied, refused or without
\* an answer MaxAttempts times, it leaves it once the faults stop.
Drains == \A cb \in Callbacks : InQueue(cb) ~> ~InQueue(cb)
=============================================================================
