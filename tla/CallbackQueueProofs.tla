------------------------ MODULE CallbackQueueProofs ------------------------
(***************************************************************************)
(* Proofs about CallbackQueue, for any number of callbacks, processes,     *)
(* attempts and faults.  What a worker or a sweeper remembers of an answer *)
(* it got (WorkSound, SweepSound) is what makes the invariants inductive.  *)
(***************************************************************************)
EXTENDS CallbackQueue, TLAPS

\* Money that is accounted for.
Accounted(cb) ==
  \/ cb \in dead
  \/ cb \in applied /\ (cb \in Untracked \/ ledger[cb] = "CONFIRMED")

WorkOK(w) ==
  /\ work[w].step = "resolve" =>
       /\ work[w].cb \notin Untracked
       /\ work[w].outcome = "accepted" => work[w].cb \in applied
  /\ work[w].step = "remove" => Accounted(work[w].cb)

SweepOK(w) ==
  /\ sweep[w].step \in {"send", "resolve"} => sweep[w].cb \notin Untracked
  /\ sweep[w].step = "resolve" /\ sweep[w].outcome = "accepted" =>
       sweep[w].cb \in applied

WorkSound == \A w \in Processes : WorkOK(w)
SweepSound == \A w \in Processes : SweepOK(w)

UntrackedPending == \A cb \in Untracked : ledger[cb] = "PENDING"

IInv ==
  /\ TypeOK /\ NothingVanishes /\ ConfirmedIsApplied
  /\ WorkSound /\ SweepSound /\ UntrackedPending

-----------------------------------------------------------------------------
(* The records of a worker and of a sweeper.                               *)

LEMMA WorkFields ==
  ASSUME TypeOK, NEW w \in Processes, work[w].step # "idle"
  PROVE  /\ work[w] \in [step: Steps, cb: Callbacks, tries: Nat, outcome: Outcomes]
         /\ work[w].cb \in Callbacks /\ work[w].outcome \in Outcomes
<1>1. work[w] \in Work
  BY DEF TypeOK
<1> QED
  BY <1>1 DEF Work, Idle

LEMMA SweepFields ==
  ASSUME TypeOK, NEW w \in Processes, sweep[w].step # "idle"
  PROVE  /\ sweep[w] \in [step: {"send", "resolve"}, cb: Callbacks, outcome: Outcomes]
         /\ sweep[w].cb \in Callbacks /\ sweep[w].outcome \in Outcomes
<1>1. sweep[w] \in Sweep
  BY DEF TypeOK
<1> QED
  BY <1>1 DEF Sweep, Idle

\* What only grows: the dead letters, what was applied, what was confirmed.
Grows ==
  /\ dead \subseteq dead'
  /\ applied \subseteq applied'
  /\ \A cb \in Callbacks : ledger[cb] = "CONFIRMED" => ledger'[cb] = "CONFIRMED"

LEMMA AccountedKept ==
  ASSUME Grows, NEW cb \in Callbacks, Accounted(cb)
  PROVE  Accounted(cb)'
BY DEF Grows, Accounted

LEMMA DecidesEffect ==
  ASSUME TypeOK, NEW cb \in Callbacks, NEW to \in Decisions, Decides(cb, to)
  PROVE  /\ ledger' \in [Callbacks -> {"PENDING"} \cup Decisions]
         /\ \A d \in Callbacks : d # cb => ledger'[d] = ledger[d]
         /\ ledger[cb] # "PENDING" => ledger'[cb] = ledger[cb]
         /\ ledger[cb] = "PENDING" => ledger'[cb] = to
BY DEF Decides, TypeOK

LEMMA DecisionType ==
  ASSUME NEW o PROVE Decision(o) \in Decisions
BY DEF Decision, Decisions

\* The shapes of a step, seen from the money: nothing moves; an answer of the
\* operator; a decision that rests on an answer; a dead letter.
Asks == \E cb \in Callbacks :
  applied' \in {applied, applied \cup {cb}} /\ UNCHANGED <<dead, ledger>>

Rules == \E cb \in Callbacks \ Untracked, to \in Decisions :
  /\ Decides(cb, to)
  /\ to = "CONFIRMED" => cb \in applied
  /\ UNCHANGED <<dead, applied>>

Buries == \E cb \in Callbacks : Written(cb) /\ UNCHANGED <<applied, ledger>>

Rests == UNCHANGED <<dead, applied, ledger>>

Shape == Asks \/ Rules \/ Buries \/ Rests

LEMMA ShapeFacts ==
  ASSUME TypeOK, ConfirmedIsApplied, UntrackedPending, Shape
  PROVE  /\ Grows
         /\ ConfirmedIsApplied' /\ UntrackedPending'
         /\ dead' \subseteq Callbacks /\ applied' \subseteq Callbacks
         /\ ledger' \in [Callbacks -> {"PENDING"} \cup Decisions]
<1>1. CASE Asks
  BY <1>1 DEF Asks, Grows, ConfirmedIsApplied, UntrackedPending, TypeOK
<1>2. CASE Rules
  <2> PICK cb \in Callbacks \ Untracked, to \in Decisions :
        /\ Decides(cb, to)
        /\ to = "CONFIRMED" => cb \in applied
        /\ UNCHANGED <<dead, applied>>
    BY <1>2 DEF Rules
  <2>1. /\ ledger' \in [Callbacks -> {"PENDING"} \cup Decisions]
        /\ \A d \in Callbacks : d # cb => ledger'[d] = ledger[d]
        /\ ledger[cb] # "PENDING" => ledger'[cb] = ledger[cb]
        /\ ledger[cb] = "PENDING" => ledger'[cb] = to
    BY DecidesEffect
  <2>2. Grows
    BY <2>1 DEF Grows
  <2>3. ConfirmedIsApplied'
    BY <2>1 DEF ConfirmedIsApplied
  <2>4. UntrackedPending'
    BY <2>1, QueueConstants DEF UntrackedPending
  <2> QED
    BY <2>1, <2>2, <2>3, <2>4 DEF TypeOK
<1>3. CASE Buries
  BY <1>3 DEF Buries, Written, Grows, ConfirmedIsApplied, UntrackedPending, TypeOK
<1>4. CASE Rests
  BY <1>4 DEF Rests, Grows, ConfirmedIsApplied, UntrackedPending, TypeOK
<1> QED
  BY <1>1, <1>2, <1>3, <1>4 DEF Shape

-----------------------------------------------------------------------------
(* One step of a process.                                                  *)

\* The step is w's: the others keep their work, and w's is typed and sound.
WorkBy(w) ==
  /\ \E x \in Work : work' = [work EXCEPT ![w] = x]
  /\ WorkOK(w)'

SweepBy(w) ==
  /\ \E x \in Sweep : sweep' = [sweep EXCEPT ![w] = x]
  /\ SweepOK(w)'

\* The queue itself: typed, and no callback leaves it unaccounted for.
Books ==
  /\ place' \in [Callbacks -> {"out", "due", "later", "removed"}]
  /\ attempts' \in [Callbacks -> 0..MaxAttempts - 1]
  /\ faults' \in 0..MaxFaults
  /\ \A cb \in Callbacks :
       place'[cb] = "removed" => place[cb] = "removed" \/ Accounted(cb)'

LEMMA BooksKept ==
  ASSUME TypeOK, UNCHANGED <<place, attempts>>, UNCHANGED faults \/ Fault
  PROVE  Books
<1>1. faults' \in 0..MaxFaults
  BY QueueConstants DEF TypeOK, Fault
<1> QED
  BY <1>1 DEF Books, TypeOK

LEMMA LeaseStep ==
  ASSUME IInv, NEW w \in Processes, NEW cb \in Callbacks, Lease(w, cb)
  PROVE  Shape /\ WorkBy(w) /\ UNCHANGED sweep /\ Books
<1>1. Shape /\ UNCHANGED sweep
  BY DEF Lease, Shape, Rests
<1>2. WorkBy(w)
  <2> DEFINE x == [step |-> "send", cb |-> cb, tries |-> attempts[cb],
                   outcome |-> "unknown"]
  <2>1. attempts[cb] \in Nat
    BY QueueConstants DEF IInv, TypeOK
  <2>2. x \in Work
    BY <2>1 DEF Work, Steps, Outcomes
  <2>3. work' = [work EXCEPT ![w] = x] /\ work'[w] = x
    BY DEF Lease, IInv, TypeOK
  <2>4. work'[w].step = "send"
    BY <2>3
  <2>5. WorkOK(w)'
    BY <2>4 DEF WorkOK
  <2> QED
    BY <2>2, <2>3, <2>5 DEF WorkBy
<1>3. Books
  BY DEF Lease, Books, IInv, TypeOK
<1> QED
  BY <1>1, <1>2, <1>3

LEMMA SendStep ==
  ASSUME IInv, NEW w \in Processes, Send(w)
  PROVE  Shape /\ WorkBy(w) /\ UNCHANGED sweep /\ Books
<1> DEFINE cb == work[w].cb
<1> PICK o \in Outcomes :
      /\ Answers(cb, o)
      /\ work' = [work EXCEPT ![w].outcome = o, ![w].step = AfterSend(cb, o)]
  BY DEF Send, Classified
<1>0. /\ work[w] \in [step: Steps, cb: Callbacks, tries: Nat, outcome: Outcomes]
      /\ cb \in Callbacks
  BY WorkFields DEF IInv, Send
<1> DEFINE x == [work[w] EXCEPT !.outcome = o, !.step = AfterSend(cb, o)]
<1>1. work' = [work EXCEPT ![w] = x] /\ work'[w] = x
  BY DEF IInv, TypeOK
<1>2. /\ x.cb = cb /\ x.outcome = o /\ x.step = AfterSend(cb, o)
      /\ x \in [step: Steps, cb: Callbacks, tries: Nat, outcome: Outcomes]
  BY <1>0 DEF AfterSend, Steps
<1>3. applied' \in {applied, applied \cup {cb}} /\ (o = "accepted" => cb \in applied')
  BY DEF Answers
<1>4. UNCHANGED <<place, attempts, dead, ledger, sweep, faults>>
  BY DEF Send
<1>5. Shape /\ Books
  BY <1>0, <1>3, <1>4, BooksKept DEF Shape, Asks, IInv
<1>6. WorkOK(w)'
  BY <1>1, <1>2, <1>3, <1>4 DEF WorkOK, AfterSend, Accounted
<1> QED
  BY <1>1, <1>2, <1>4, <1>5, <1>6 DEF WorkBy, Work

LEMMA GotoStep ==
  ASSUME TypeOK, NEW w \in Processes, NEW step \in Steps,
         work[w].step # "idle", Goto(w, step)
  PROVE  /\ \E x \in Work : work' = [work EXCEPT ![w] = x]
         /\ work'[w].step = step
         /\ work'[w].cb = work[w].cb /\ work'[w].outcome = work[w].outcome
<1> DEFINE x == [work[w] EXCEPT !.step = step]
<1>1. work[w] \in [step: Steps, cb: Callbacks, tries: Nat, outcome: Outcomes]
  BY WorkFields
<1>2. work' = [work EXCEPT ![w] = x] /\ work'[w] = x
  BY DEF Goto, TypeOK
<1>3. /\ x \in [step: Steps, cb: Callbacks, tries: Nat, outcome: Outcomes]
      /\ x.step = step /\ x.cb = work[w].cb /\ x.outcome = work[w].outcome
  BY <1>1
<1>4. x \in Work
  BY <1>3 DEF Work
<1> QED
  BY <1>2, <1>3, <1>4

LEMMA GotoWork ==
  ASSUME TypeOK, NEW w \in Processes, NEW step \in Steps,
         work[w].step # "idle", Goto(w, step), WorkOK(w)'
  PROVE  WorkBy(w)
<1>1. \E x \in Work : work' = [work EXCEPT ![w] = x]
  BY GotoStep
<1> QED
  BY <1>1 DEF WorkBy

LEMMA FinishStep ==
  ASSUME TypeOK, NEW w \in Processes, Finish(w)
  PROVE  WorkBy(w)
<1>1. work' = [work EXCEPT ![w] = Idle] /\ work'[w].step = "idle"
  BY DEF Finish, TypeOK, Idle
<1>2. WorkOK(w)'
  BY <1>1 DEF WorkOK
<1> QED
  BY <1>1, <1>2 DEF WorkBy, Work

LEMMA ResolveStep ==
  ASSUME IInv, NEW w \in Processes, Resolve(w)
  PROVE  Shape /\ WorkBy(w) /\ UNCHANGED sweep /\ Books
<1> DEFINE cb == work[w].cb
           o == work[w].outcome
           to == Decision(o)
<1>0. /\ cb \in Callbacks \ Untracked /\ o \in Outcomes /\ to \in Decisions
      /\ o = "accepted" => cb \in applied
      /\ TypeOK /\ work[w].step = "resolve"
      /\ to = "CONFIRMED" => o = "accepted"
  BY WorkFields, DecisionType DEF IInv, Resolve, WorkSound, WorkOK, Decision
<1>1. UNCHANGED <<place, attempts, dead, applied, sweep>>
  BY DEF Resolve
<1>2. Books
  BY <1>0, <1>1, BooksKept DEF Resolve
<1>3. Decides(cb, to) \/ UNCHANGED ledger
  BY DEF Resolve
<1>4. Shape
  BY <1>0, <1>1, <1>3 DEF Shape, Rules, Rests
<1>5. WorkBy(w)
  <2>1. CASE /\ ~Conflict(cb, to)
             /\ Decides(cb, to)
             /\ Goto(w, IF o = "accepted" THEN "remove" ELSE "dead")
    <3>1. CASE o = "accepted"
      <4>1. to = "CONFIRMED" /\ Goto(w, "remove")
        BY <2>1, <3>1 DEF Decision
      <4>2. /\ \E x \in Work : work' = [work EXCEPT ![w] = x]
            /\ work'[w].step = "remove" /\ work'[w].cb = cb
        BY <1>0, <4>1, GotoStep DEF Steps
      <4>3. ledger'[cb] = "CONFIRMED"
        BY <1>0, <2>1, <4>1, DecidesEffect DEF Conflict, Decisions, TypeOK
      <4>4. WorkOK(w)'
        BY <1>0, <1>1, <3>1, <4>2, <4>3 DEF WorkOK, Accounted
      <4> QED
        BY <1>0, <4>1, <4>4, GotoWork DEF Steps
    <3>2. CASE o # "accepted"
      <4>1. /\ \E x \in Work : work' = [work EXCEPT ![w] = x]
            /\ work'[w].step = "dead"
        BY <1>0, <2>1, <3>2, GotoStep DEF Steps
      <4>2. WorkOK(w)'
        BY <4>1 DEF WorkOK
      <4> QED
        BY <1>0, <2>1, <3>2, <4>2, GotoWork DEF Steps
    <3> QED
      BY <3>1, <3>2
  <2>2. CASE AfterConflict(w)
    <3>1. /\ \E x \in Work : work' = [work EXCEPT ![w] = x]
          /\ work'[w].step = "dead"
      BY <1>0, <2>2, GotoStep DEF Steps, AfterConflict
    <3>2. WorkOK(w)'
      BY <3>1 DEF WorkOK
    <3> QED
      BY <1>0, <2>2, <3>2, GotoWork DEF Steps, AfterConflict
  <2>3. CASE Goto(w, "retry")
    <3>1. /\ \E x \in Work : work' = [work EXCEPT ![w] = x]
          /\ work'[w].step = "retry"
      BY <1>0, <2>3, GotoStep DEF Steps
    <3>2. WorkOK(w)'
      BY <3>1 DEF WorkOK
    <3> QED
      BY <1>0, <2>3, <3>2, GotoWork DEF Steps
  <2> QED
    BY <2>1, <2>2, <2>3 DEF Resolve
<1> QED
  BY <1>1, <1>2, <1>4, <1>5

LEMMA RetryStep ==
  ASSUME IInv, NEW w \in Processes, Retry(w)
  PROVE  Shape /\ WorkBy(w) /\ UNCHANGED sweep /\ Books
<1>0. TypeOK /\ work[w].step = "retry"
  BY DEF IInv, Retry
<1>1. UNCHANGED <<dead, ledger, applied, sweep>> /\ Shape
  BY DEF Retry, Shape, Rests
<1>2. CASE Exhausted(Tries(w)) /\ Goto(w, "dead") /\ UNCHANGED <<place, attempts, faults>>
  <2>1. /\ \E x \in Work : work' = [work EXCEPT ![w] = x]
        /\ work'[w].step = "dead"
    BY <1>0, <1>2, GotoStep DEF Steps
  <2>2. WorkOK(w)'
    BY <2>1 DEF WorkOK
  <2>3. Books
    BY <1>0, <1>2, BooksKept
  <2> QED
    BY <1>1, <2>1, <2>2, <2>3 DEF WorkBy
<1>3. CASE ~Exhausted(Tries(w)) /\ Finish(w)
  <2>1. WorkBy(w)
    BY <1>0, <1>3, FinishStep
  <2>2. CASE Reschedule(work[w].cb, Tries(w)) /\ UNCHANGED faults
    <3>1. work[w].tries \in Nat
      BY <1>0, WorkFields
    <3>2. Tries(w) \in 0..MaxAttempts - 1
      BY <1>3, <3>1, QueueConstants DEF Exhausted, Tries
    <3>3. attempts' \in [Callbacks -> 0..MaxAttempts - 1]
      BY <1>0, <2>2, <3>2 DEF Reschedule, TypeOK
    <3>4. /\ place' \in [Callbacks -> {"out", "due", "later", "removed"}]
          /\ \A cb \in Callbacks : place'[cb] = "removed" => place[cb] = "removed"
      BY <1>0, <2>2 DEF Reschedule, TypeOK
    <3> QED
      BY <1>0, <1>1, <2>1, <2>2, <3>3, <3>4 DEF Books, TypeOK
  <2>3. CASE Fault /\ UNCHANGED <<place, attempts>>
    BY <1>0, <1>1, <2>1, <2>3, BooksKept
  <2> QED
    BY <1>3, <2>2, <2>3 DEF Retry
<1> QED
  BY <1>2, <1>3 DEF Retry

LEMMA DeadLetterStep ==
  ASSUME IInv, NEW w \in Processes, DeadLetter(w)
  PROVE  Shape /\ WorkBy(w) /\ UNCHANGED sweep /\ Books
<1>0. TypeOK /\ work[w].step = "dead" /\ work[w].cb \in Callbacks
  BY WorkFields DEF IInv, DeadLetter
<1>1. UNCHANGED <<place, attempts, ledger, applied, sweep>>
  BY DEF DeadLetter
<1>2. Books
  BY <1>0, <1>1, BooksKept DEF DeadLetter
<1>3. Shape
  BY <1>0, <1>1 DEF DeadLetter, Shape, Buries, Rests
<1>4. CASE Written(work[w].cb) /\ Goto(w, "remove")
  <2>1. /\ \E x \in Work : work' = [work EXCEPT ![w] = x]
        /\ work'[w].step = "remove" /\ work'[w].cb = work[w].cb
    BY <1>0, <1>4, GotoStep DEF Steps
  <2>2. WorkOK(w)'
    BY <1>4, <2>1 DEF WorkOK, Accounted, Written
  <2> QED
    BY <1>1, <1>2, <1>3, <2>1, <2>2 DEF WorkBy
<1>5. CASE Finish(w)
  BY <1>0, <1>1, <1>2, <1>3, <1>5, FinishStep
<1> QED
  BY <1>4, <1>5 DEF DeadLetter

LEMMA RemoveStep ==
  ASSUME IInv, NEW w \in Processes, Remove(w)
  PROVE  Shape /\ WorkBy(w) /\ UNCHANGED sweep /\ Books
<1>0. /\ TypeOK /\ work[w].step = "remove" /\ work[w].cb \in Callbacks
      /\ Accounted(work[w].cb)
  BY WorkFields DEF IInv, Remove, WorkSound, WorkOK
<1>1. UNCHANGED <<attempts, dead, ledger, applied, sweep>>
  BY DEF Remove
<1>2. Shape
  BY <1>1 DEF Shape, Rests
<1>3. \A cb \in Callbacks : cb = work[w].cb => Accounted(cb)'
  BY <1>0, <1>1 DEF Accounted
<1>4. Books
  <2>1. \A cb \in Callbacks : place'[cb] = "removed" =>
          place[cb] = "removed" \/ cb = work[w].cb
    BY <1>0 DEF Remove, TypeOK
  <2>2. faults' \in 0..MaxFaults
    BY <1>0, QueueConstants DEF Remove, TypeOK, Fault
  <2>3. place' \in [Callbacks -> {"out", "due", "later", "removed"}]
    BY <1>0 DEF Remove, TypeOK
  <2> QED
    BY <1>0, <1>1, <1>3, <2>1, <2>2, <2>3 DEF Books, TypeOK
<1>5. WorkBy(w)
  BY <1>0, FinishStep DEF Remove
<1> QED
  BY <1>1, <1>2, <1>4, <1>5

LEMMA SweepEntryStep ==
  ASSUME IInv, NEW w \in Processes, NEW cb \in Callbacks, SweepEntry(w, cb)
  PROVE  Shape /\ SweepBy(w) /\ UNCHANGED work /\ Books
<1> DEFINE x == [step |-> "send", cb |-> cb, outcome |-> "unknown"]
<1>1. x \in Sweep /\ cb \notin Untracked
  BY DEF Sweep, Outcomes, SweepEntry
<1>2. sweep' = [sweep EXCEPT ![w] = x] /\ sweep'[w] = x
  BY DEF SweepEntry, IInv, TypeOK
<1>3. sweep'[w].step = "send" /\ sweep'[w].cb = cb
  BY <1>2
<1>4. SweepOK(w)'
  BY <1>1, <1>3 DEF SweepOK
<1>5. UNCHANGED <<place, attempts, dead, ledger, applied, work, faults>>
  BY DEF SweepEntry
<1>6. Shape /\ Books
  BY <1>5, BooksKept DEF Shape, Rests, IInv
<1> QED
  BY <1>1, <1>2, <1>4, <1>5, <1>6 DEF SweepBy

LEMMA SweepSendStep ==
  ASSUME IInv, NEW w \in Processes, SweepSend(w)
  PROVE  Shape /\ SweepBy(w) /\ UNCHANGED work /\ Books
<1> DEFINE cb == sweep[w].cb
<1>0. cb \in Callbacks \ Untracked /\ TypeOK
  BY SweepFields DEF IInv, SweepSend, SweepSound, SweepOK
<1> PICK o \in Outcomes :
      /\ Answers(cb, o)
      /\ sweep' = [sweep EXCEPT ![w] =
                     IF o = "unknown" THEN Idle
                     ELSE [step |-> "resolve", cb |-> cb, outcome |-> o]]
  BY DEF SweepSend, Classified
<1> DEFINE x == [step |-> "resolve", cb |-> cb, outcome |-> o]
<1>1. applied' \in {applied, applied \cup {cb}} /\ (o = "accepted" => cb \in applied')
  BY DEF Answers
<1>2. UNCHANGED <<place, attempts, dead, ledger, work, faults>>
  BY DEF SweepSend
<1>3. Shape /\ Books
  BY <1>0, <1>1, <1>2, BooksKept DEF Shape, Asks
<1>4. SweepBy(w)
  <2>1. CASE o = "unknown"
    <3>1. sweep' = [sweep EXCEPT ![w] = Idle] /\ sweep'[w].step = "idle"
      BY <1>0, <2>1 DEF TypeOK, Idle
    <3> QED
      BY <3>1 DEF SweepBy, SweepOK, Sweep
  <2>2. CASE o # "unknown"
    <3>1. sweep' = [sweep EXCEPT ![w] = x] /\ sweep'[w] = x
      BY <1>0, <2>2 DEF TypeOK
    <3>2. x \in Sweep
      BY <1>0 DEF Sweep
    <3>3. sweep'[w].step = "resolve" /\ sweep'[w].cb = cb /\ sweep'[w].outcome = o
      BY <3>1
    <3>4. SweepOK(w)'
      BY <1>0, <1>1, <3>3 DEF SweepOK
    <3> QED
      BY <3>1, <3>2, <3>4 DEF SweepBy
  <2> QED
    BY <2>1, <2>2
<1> QED
  BY <1>2, <1>3, <1>4

LEMMA SweepResolveStep ==
  ASSUME IInv, NEW w \in Processes, SweepResolve(w)
  PROVE  Shape /\ SweepBy(w) /\ UNCHANGED work /\ Books
<1> DEFINE cb == sweep[w].cb
           to == Decision(sweep[w].outcome)
<1>0. /\ cb \in Callbacks \ Untracked /\ to \in Decisions /\ TypeOK
      /\ to = "CONFIRMED" => cb \in applied
  BY SweepFields, DecisionType
     DEF IInv, SweepResolve, SweepSound, SweepOK, Decision
<1>1. UNCHANGED <<place, attempts, dead, applied, work>>
  BY DEF SweepResolve
<1>2. Books
  BY <1>0, <1>1, BooksKept DEF SweepResolve
<1>3. Decides(cb, to) \/ UNCHANGED ledger
  BY DEF SweepResolve
<1>4. Shape
  BY <1>0, <1>1, <1>3 DEF Shape, Rules, Rests
<1>5. sweep' = [sweep EXCEPT ![w] = Idle] /\ sweep'[w].step = "idle"
  BY <1>0 DEF SweepResolve, TypeOK, Idle
<1>6. SweepBy(w)
  BY <1>5 DEF SweepBy, SweepOK, Sweep
<1> QED
  BY <1>1, <1>2, <1>4, <1>6

-----------------------------------------------------------------------------
(* Every step keeps the invariant.                                         *)

\* The steps of the queue, the operator and the ledger, whoever takes them,
\* disturb nobody's memory of an answer.
LEMMA MemoryKept ==
  ASSUME Grows, NEW v \in Processes
  PROVE  /\ TypeOK /\ WorkOK(v) /\ work'[v] = work[v] => WorkOK(v)'
         /\ TypeOK /\ SweepOK(v) /\ sweep'[v] = sweep[v] => SweepOK(v)'
<1>1. ASSUME TypeOK, WorkOK(v), work'[v] = work[v] PROVE WorkOK(v)'
  <2>1. CASE work[v].step = "remove"
    <3>1. Accounted(work[v].cb) /\ work[v].cb \in Callbacks
      BY <1>1, <2>1, WorkFields DEF WorkOK
    <3>2. \A cb \in Callbacks : Accounted(cb) => Accounted(cb)'
      BY AccountedKept
    <3> QED
      BY <1>1, <2>1, <3>1, <3>2 DEF WorkOK, Accounted
  <2>2. CASE work[v].step # "remove"
    BY <1>1, <2>2 DEF WorkOK, Grows
  <2> QED
    BY <2>1, <2>2
<1>2. ASSUME TypeOK, SweepOK(v), sweep'[v] = sweep[v] PROVE SweepOK(v)'
  BY <1>2 DEF SweepOK, Grows
<1> QED
  BY <1>1, <1>2

WorkMoves == UNCHANGED work \/ \E w \in Processes : WorkBy(w)
SweepMoves == UNCHANGED sweep \/ \E w \in Processes : SweepBy(w)

LEMMA SoundKept ==
  ASSUME IInv, Shape, WorkMoves, SweepMoves
  PROVE  /\ work' \in [Processes -> Work] /\ WorkSound'
         /\ sweep' \in [Processes -> Sweep] /\ SweepSound'
<1>0. TypeOK /\ WorkSound /\ SweepSound /\ Grows
  BY ShapeFacts DEF IInv
<1>1. work' \in [Processes -> Work] /\ WorkSound'
  <2>1. CASE UNCHANGED work
    BY <1>0, <2>1, MemoryKept DEF WorkSound, TypeOK
  <2>2. ASSUME NEW w \in Processes, WorkBy(w)
        PROVE  work' \in [Processes -> Work] /\ WorkSound'
    <3>1. PICK x \in Work : work' = [work EXCEPT ![w] = x]
      BY <2>2 DEF WorkBy
    <3>2. \A v \in Processes \ {w} : work'[v] = work[v]
      BY <1>0, <3>1 DEF TypeOK
    <3> QED
      BY <1>0, <2>2, <3>1, <3>2, MemoryKept DEF WorkSound, TypeOK, WorkBy
  <2> QED
    BY <2>1, <2>2 DEF WorkMoves
<1>2. sweep' \in [Processes -> Sweep] /\ SweepSound'
  <2>1. CASE UNCHANGED sweep
    BY <1>0, <2>1, MemoryKept DEF SweepSound, TypeOK
  <2>2. ASSUME NEW w \in Processes, SweepBy(w)
        PROVE  sweep' \in [Processes -> Sweep] /\ SweepSound'
    <3>1. PICK x \in Sweep : sweep' = [sweep EXCEPT ![w] = x]
      BY <2>2 DEF SweepBy
    <3>2. \A v \in Processes \ {w} : sweep'[v] = sweep[v]
      BY <1>0, <3>1 DEF TypeOK
    <3> QED
      BY <1>0, <2>2, <3>1, <3>2, MemoryKept DEF SweepSound, TypeOK, SweepBy
  <2> QED
    BY <2>1, <2>2 DEF SweepMoves
<1> QED
  BY <1>1, <1>2

LEMMA ShapeInvariant ==
  ASSUME IInv, Shape, WorkMoves, SweepMoves, Books
  PROVE  IInv'
<1>1. /\ Grows /\ ConfirmedIsApplied' /\ UntrackedPending'
      /\ dead' \subseteq Callbacks /\ applied' \subseteq Callbacks
      /\ ledger' \in [Callbacks -> {"PENDING"} \cup Decisions]
  BY ShapeFacts DEF IInv
<1>2. /\ work' \in [Processes -> Work] /\ WorkSound'
      /\ sweep' \in [Processes -> Sweep] /\ SweepSound'
  BY SoundKept
<1>3. TypeOK'
  BY <1>1, <1>2 DEF TypeOK, Books
<1>4. \A cb \in Callbacks : place'[cb] = "removed" => Accounted(cb)'
  <2>1. \A cb \in Callbacks : place[cb] = "removed" => Accounted(cb)
    BY DEF IInv, NothingVanishes, Accounted
  <2>2. \A cb \in Callbacks : Accounted(cb) => Accounted(cb)'
    BY <1>1, AccountedKept
  <2> QED
    BY <2>1, <2>2 DEF Books
<1>5. NothingVanishes'
  BY <1>4 DEF NothingVanishes, Accounted
<1> QED
  BY <1>1, <1>2, <1>3, <1>5 DEF IInv

LEMMA StepInvariant ==
  ASSUME IInv, [Next]_vars
  PROVE  IInv'
<1>0. TypeOK
  BY DEF IInv
<1>1. ASSUME NEW cb \in Callbacks, Enqueue(cb) \/ BecomesDue(cb) PROVE IInv'
  <2>1. Shape /\ WorkMoves /\ SweepMoves
    BY <1>1 DEF Enqueue, BecomesDue, Shape, Rests, WorkMoves, SweepMoves
  <2>2. Books
    BY <1>0, <1>1, QueueConstants DEF Enqueue, BecomesDue, InQueue, Books, TypeOK
  <2> QED
    BY <2>1, <2>2, ShapeInvariant
<1>2. ASSUME NEW w \in Processes, Worker(w) PROVE IInv'
  <2>1. Shape /\ WorkBy(w) /\ UNCHANGED sweep /\ Books
    <3>1. CASE \E cb \in Callbacks : Lease(w, cb)
      BY <3>1, LeaseStep
    <3>2. CASE Send(w)
      BY <3>2, SendStep
    <3>3. CASE Resolve(w)
      BY <3>3, ResolveStep
    <3>4. CASE Retry(w)
      BY <3>4, RetryStep
    <3>5. CASE DeadLetter(w)
      BY <3>5, DeadLetterStep
    <3>6. CASE Remove(w)
      BY <3>6, RemoveStep
    <3> QED
      BY <1>2, <3>1, <3>2, <3>3, <3>4, <3>5, <3>6 DEF Worker
  <2> QED
    BY <2>1, ShapeInvariant DEF WorkMoves, SweepMoves
<1>3. ASSUME NEW w \in Processes, Sweeper(w) PROVE IInv'
  <2>1. Shape /\ SweepBy(w) /\ UNCHANGED work /\ Books
    <3>1. CASE \E cb \in Callbacks : SweepEntry(w, cb)
      BY <3>1, SweepEntryStep
    <3>2. CASE SweepSend(w)
      BY <3>2, SweepSendStep
    <3>3. CASE SweepResolve(w)
      BY <3>3, SweepResolveStep
    <3> QED
      BY <1>3, <3>1, <3>2, <3>3 DEF Sweeper
  <2> QED
    BY <2>1, ShapeInvariant DEF WorkMoves, SweepMoves
<1>4. ASSUME NEW w \in Processes, Crash(w) PROVE IInv'
  <2>1. Shape
    BY <1>4 DEF Crash, Shape, Rests
  <2>2. Books
    BY <1>0, <1>4, BooksKept DEF Crash
  <2>3. WorkBy(w)
    BY <1>0, <1>4, FinishStep DEF Crash, Finish
  <2>4. sweep' = [sweep EXCEPT ![w] = Idle] /\ sweep'[w].step = "idle"
    BY <1>0, <1>4 DEF Crash, TypeOK, Idle
  <2>5. SweepBy(w)
    BY <2>4 DEF SweepBy, SweepOK, Sweep
  <2> QED
    BY <2>1, <2>2, <2>3, <2>5, ShapeInvariant DEF WorkMoves, SweepMoves
<1>5. CASE UNCHANGED vars
  <2>1. Shape /\ WorkMoves /\ SweepMoves
    BY <1>5 DEF vars, Shape, Rests, WorkMoves, SweepMoves
  <2>2. Books
    BY <1>0, <1>5, BooksKept DEF vars
  <2> QED
    BY <2>1, <2>2, ShapeInvariant
<1> QED
  BY <1>1, <1>2, <1>3, <1>4, <1>5 DEF Next

LEMMA InitInvariant ==
  ASSUME Init PROVE IInv
<1>1. TypeOK
  BY QueueConstants DEF Init, TypeOK, Work, Sweep
<1>2. WorkSound /\ SweepSound
  BY DEF Init, WorkSound, SweepSound, WorkOK, SweepOK, Idle
<1>3. NothingVanishes /\ ConfirmedIsApplied /\ UntrackedPending
  BY QueueConstants DEF Init, NothingVanishes, ConfirmedIsApplied, UntrackedPending
<1> QED
  BY <1>1, <1>2, <1>3 DEF IInv

LEMMA Invariant == Spec => []IInv
<1> QED
  BY InitInvariant, StepInvariant, PTL DEF Spec

-----------------------------------------------------------------------------
\* The variables of the queue keep their types; an attempt counter never
\* reaches MaxAttempts in the queue.
THEOREM QueueTypes == Spec => []TypeOK
<1>1. IInv => TypeOK
  BY DEF IInv
<1> QED
  BY <1>1, Invariant, PTL

\* With any number of overlapping workers, sweepers, faults and crashes, a
\* callback removed from the queue was applied and confirmed, or is in the
\* dead letters (deadLetterAndRemove writes before it removes).
THEOREM NothingEverVanishes == Spec => []NothingVanishes
<1>1. IInv => NothingVanishes
  BY DEF IInv
<1> QED
  BY <1>1, Invariant, PTL

\* The ledger confirms only what the operator applied: Unknown never becomes
\* a decision.
THEOREM ConfirmedAlwaysApplied == Spec => []ConfirmedIsApplied
<1>1. IInv => ConfirmedIsApplied
  BY DEF IInv
<1> QED
  BY <1>1, Invariant, PTL

\* An entry that FAILED although the operator applied its callback stays
\* visible, in the queue or in the dead letters.
THEOREM DisagreementAlwaysTraced == Spec => []DisagreementTraced
<1>1. ASSUME IInv PROVE DisagreementTraced
  <2> SUFFICES ASSUME NEW cb \in Callbacks,
                      ledger[cb] = "FAILED", place[cb] # "out", cb \notin dead
               PROVE  InQueue(cb)
    BY DEF DisagreementTraced
  <2>1. cb \notin Untracked
    BY <1>1 DEF IInv, UntrackedPending
  <2>2. place[cb] # "removed"
    BY <1>1, <2>1 DEF IInv, NothingVanishes
  <2> QED
    BY <1>1, <2>2 DEF IInv, TypeOK, InQueue
<1> QED
  BY <1>1, Invariant, PTL
-----------------------------------------------------------------------------
(* The queue implements the outbox.                                        *)

\* Who works on a callback found it in the queue: only what was enqueued is
\* asked for or buried by a worker.
WorkPlaced ==
  \A w \in Processes : work[w].step # "idle" => place[work[w].cb] # "out"

OInv == IInv /\ WorkPlaced

\* A callback that was enqueued once never looks new again.
NeverOut == \A cb \in Callbacks : place[cb] # "out" => place'[cb] # "out"

\* After a step the worker of w is idle, or has the callback it had.
SameCopy(w) ==
  /\ \E x \in Work : work' = [work EXCEPT ![w] = x]
  /\ work'[w].step # "idle" => work[w].step # "idle" /\ work'[w].cb = work[w].cb

LEMMA GotoCopies ==
  ASSUME TypeOK, NEW w \in Processes, NEW step \in Steps,
         work[w].step # "idle", Goto(w, step)
  PROVE  SameCopy(w)
BY GotoStep DEF SameCopy

LEMMA FinishCopies ==
  ASSUME TypeOK, NEW w \in Processes, Finish(w)
  PROVE  SameCopy(w)
<1>1. work' = [work EXCEPT ![w] = Idle] /\ work'[w].step = "idle"
  BY DEF Finish, TypeOK, Idle
<1> QED
  BY <1>1 DEF SameCopy, Work

LEMMA SendCopies ==
  ASSUME TypeOK, NEW w \in Processes, Send(w)
  PROVE  SameCopy(w)
<1>1. /\ work[w] \in [step: Steps, cb: Callbacks, tries: Nat, outcome: Outcomes]
      /\ work[w].step = "send"
  BY WorkFields DEF Send
<1> PICK o \in Outcomes :
      work' = [work EXCEPT ![w].outcome = o, ![w].step = AfterSend(work[w].cb, o)]
  BY DEF Send, Classified
<1> DEFINE x == [work[w] EXCEPT !.outcome = o, !.step = AfterSend(work[w].cb, o)]
<1>2. work' = [work EXCEPT ![w] = x] /\ work'[w] = x
  BY DEF TypeOK
<1>3. /\ x \in [step: Steps, cb: Callbacks, tries: Nat, outcome: Outcomes]
      /\ x.cb = work[w].cb
  BY <1>1 DEF AfterSend, Steps
<1>4. x \in Work
  BY <1>3 DEF Work
<1> QED
  BY <1>1, <1>2, <1>3, <1>4 DEF SameCopy

\* After a lease, a step of a worker keeps to its callback.
LEMMA WorkerCopies ==
  ASSUME TypeOK, NEW w \in Processes,
         Send(w) \/ Resolve(w) \/ Retry(w) \/ DeadLetter(w) \/ Remove(w) \/ Crash(w)
  PROVE  SameCopy(w)
<1>1. CASE Send(w)
  BY <1>1, SendCopies
<1>2. CASE Resolve(w)
  <2>1. work[w].step # "idle" /\ \E step \in Steps : Goto(w, step)
    BY <1>2 DEF Resolve, AfterConflict, Steps
  <2> QED
    BY <2>1, GotoCopies
<1>3. CASE Retry(w)
  <2>1. work[w].step # "idle" /\ (Finish(w) \/ \E step \in Steps : Goto(w, step))
    BY <1>3 DEF Retry, Steps
  <2> QED
    BY <2>1, GotoCopies, FinishCopies
<1>4. CASE DeadLetter(w)
  <2>1. work[w].step # "idle" /\ (Finish(w) \/ \E step \in Steps : Goto(w, step))
    BY <1>4 DEF DeadLetter, Steps
  <2> QED
    BY <2>1, GotoCopies, FinishCopies
<1>5. CASE Remove(w) \/ Crash(w)
  BY <1>5, FinishCopies DEF Remove, Crash, Finish
<1> QED
  BY <1>1, <1>2, <1>3, <1>4, <1>5

LEMMA CopiesPlaced ==
  ASSUME TypeOK, WorkPlaced, NeverOut, NEW w \in Processes, SameCopy(w)
  PROVE  WorkPlaced'
<1>1. PICK x \in Work : work' = [work EXCEPT ![w] = x]
  BY DEF SameCopy
<1> SUFFICES ASSUME NEW v \in Processes, work'[v].step # "idle"
             PROVE  place'[work'[v].cb] # "out"
  BY DEF WorkPlaced
<1>2. work[v].step # "idle" /\ work'[v].cb = work[v].cb
  BY <1>1 DEF SameCopy, TypeOK
<1>3. work[v].cb \in Callbacks /\ place[work[v].cb] # "out"
  BY <1>2, WorkFields DEF WorkPlaced
<1> QED
  BY <1>2, <1>3 DEF NeverOut

LEMMA StepNeverOut ==
  ASSUME TypeOK, [Next]_vars
  PROVE  NeverOut
<1>1. ASSUME NEW cb \in Callbacks, Enqueue(cb) \/ BecomesDue(cb) PROVE NeverOut
  BY <1>1 DEF Enqueue, BecomesDue, NeverOut, TypeOK
<1>2. ASSUME NEW w \in Processes, Worker(w) PROVE NeverOut
  <2>1. ASSUME NEW cb \in Callbacks, Lease(w, cb) PROVE NeverOut
    BY <2>1 DEF Lease, NeverOut, TypeOK
  <2>2. CASE Send(w) \/ Resolve(w) \/ DeadLetter(w)
    BY <2>2 DEF Send, Resolve, DeadLetter, NeverOut
  <2>3. CASE Retry(w)
    BY <2>3 DEF Retry, Reschedule, NeverOut, TypeOK
  <2>4. CASE Remove(w)
    BY <2>4 DEF Remove, NeverOut, TypeOK
  <2> QED
    BY <1>2, <2>1, <2>2, <2>3, <2>4 DEF Worker
<1>3. ASSUME NEW w \in Processes, Sweeper(w) \/ Crash(w) PROVE NeverOut
  BY <1>3 DEF Sweeper, SweepEntry, SweepSend, SweepResolve, Crash, NeverOut
<1>4. CASE UNCHANGED vars
  BY <1>4 DEF vars, NeverOut
<1> QED
  BY <1>1, <1>2, <1>3, <1>4 DEF Next

LEMMA StepPlaced ==
  ASSUME OInv, [Next]_vars
  PROVE  OInv'
<1>0. TypeOK /\ WorkPlaced /\ NeverOut /\ IInv'
  BY StepNeverOut, StepInvariant DEF OInv, IInv
<1>1. CASE UNCHANGED work
  <2> SUFFICES ASSUME NEW v \in Processes, work[v].step # "idle"
               PROVE  place'[work[v].cb] # "out"
    BY <1>0, <1>1 DEF OInv, WorkPlaced
  <2> QED
    BY <1>0, WorkFields DEF WorkPlaced, NeverOut
<1>2. ASSUME NEW w \in Processes, NEW cb \in Callbacks, Lease(w, cb) PROVE OInv'
  <2> SUFFICES ASSUME NEW v \in Processes, work'[v].step # "idle"
               PROVE  place'[work'[v].cb] # "out"
    BY <1>0 DEF OInv, WorkPlaced
  <2>1. CASE v = w
    <3>1. work'[v].cb = cb /\ place'[cb] = "later"
      BY <1>0, <1>2, <2>1 DEF Lease, TypeOK
    <3> QED
      BY <3>1
  <2>2. CASE v # w
    <3>1. work'[v] = work[v]
      BY <1>0, <1>2, <2>2 DEF Lease, TypeOK
    <3> QED
      BY <1>0, <3>1, WorkFields DEF WorkPlaced, NeverOut
  <2> QED
    BY <2>1, <2>2
<1>3. ASSUME NEW w \in Processes,
             Send(w) \/ Resolve(w) \/ Retry(w) \/ DeadLetter(w) \/ Remove(w) \/ Crash(w)
      PROVE  OInv'
  BY <1>0, <1>3, WorkerCopies, CopiesPlaced DEF OInv
<1>4. ASSUME NEW w \in Processes, Sweeper(w) PROVE UNCHANGED work
  BY <1>4 DEF Sweeper, SweepEntry, SweepSend, SweepResolve
<1>5. ASSUME NEW cb \in Callbacks, Enqueue(cb) \/ BecomesDue(cb) PROVE UNCHANGED work
  BY <1>5 DEF Enqueue, BecomesDue
<1>6. CASE UNCHANGED vars
  BY <1>1, <1>6 DEF vars
<1> QED
  BY <1>1, <1>2, <1>3, <1>4, <1>5, <1>6 DEF Next, Worker

LEMMA OutboxInvariant == Spec => []OInv
<1>1. Init => OInv
  BY InitInvariant DEF OInv, Init, WorkPlaced, Idle
<1> QED
  BY <1>1, StepPlaced, PTL DEF Spec

\* Where the outbox has a callback.
HeldIn(cb) == IF place[cb] = "out" THEN "out" ELSE IF InQueue(cb) THEN "queued" ELSE "gone"
HeldAll == [cb \in Callbacks |-> HeldIn(cb)]

OutboxStep == [Outbox!OutboxNext]_(Outbox!outbox)

LEMMA HeldSame ==
  ASSUME \A cb \in Callbacks : HeldIn(cb)' = HeldIn(cb)
  PROVE  HeldAll' = HeldAll
BY DEF HeldAll

LEMMA PlaceSame == UNCHANGED place => UNCHANGED HeldAll
BY DEF HeldAll, HeldIn, InQueue

LEMMA OutboxStutters == UNCHANGED <<HeldAll, dead, applied, ledger>> => OutboxStep
BY DEF OutboxStep, Outbox!outbox, HeldAll, HeldIn

\* The callbacks but cb stay where they were.
LEMMA HeldMoves ==
  ASSUME NEW cb \in Callbacks, NEW h, HeldIn(cb)' = h,
         \A d \in Callbacks \ {cb} : place'[d] = place[d]
  PROVE  HeldAll' = [HeldAll EXCEPT ![cb] = h]
BY DEF HeldAll, HeldIn, InQueue

\* The operator is asked.
LEMMA OutboxAsks ==
  ASSUME NEW cb \in Callbacks, cb \in Untracked => place[cb] # "out",
         applied' \in {applied, applied \cup {cb}}, UNCHANGED <<place, dead, ledger>>
  PROVE  OutboxStep
<1>1. UNCHANGED HeldAll
  BY PlaceSame
<1>2. CASE applied' = applied
  BY <1>1, <1>2, OutboxStutters
<1>3. CASE applied' = applied \cup {cb}
  <2>1. Outbox!Apply(cb)
    BY <1>1, <1>3 DEF Outbox!Apply, HeldAll, HeldIn
  <2> QED
    BY <2>1 DEF OutboxStep, Outbox!OutboxNext
<1> QED
  BY <1>2, <1>3

\* The ledger decides, or had decided.
LEMMA OutboxRules ==
  ASSUME TypeOK, NEW cb \in Callbacks \ Untracked, NEW to \in Decisions,
         Decides(cb, to), to = "CONFIRMED" => cb \in applied,
         UNCHANGED <<place, dead, applied>>
  PROVE  OutboxStep
<1>1. UNCHANGED HeldAll
  BY PlaceSame
<1>2. CASE ledger[cb] # "PENDING"
  BY <1>1, <1>2, OutboxStutters DEF Decides
<1>3. CASE ledger[cb] = "PENDING"
  <2>1. Outbox!Says(cb, to)
    BY <1>1, <1>3 DEF Outbox!Says, Decides, HeldAll, HeldIn
  <2>2. Outbox!Confirm(cb) \/ Outbox!Fail(cb)
    BY <2>1 DEF Outbox!Confirm, Outbox!Fail, Decisions
  <2> QED
    BY <2>2 DEF OutboxStep, Outbox!OutboxNext
<1> QED
  BY <1>2, <1>3

\* A callback is removed, again perhaps, by a worker that has accounted for it.
LEMMA RemoveOutbox ==
  ASSUME OInv, TypeOK, NEW w \in Processes, Remove(w),
         NEW cb \in Callbacks, cb = work[w].cb, Accounted(cb)
  PROVE  OutboxStep
<1>1. UNCHANGED <<dead, ledger, applied>>
  BY DEF Remove
<1>2. CASE UNCHANGED place
  BY <1>1, <1>2, PlaceSame, OutboxStutters
<1>3. CASE place' = [place EXCEPT ![cb] = "removed"] /\ place[cb] = "removed"
  <2>1. UNCHANGED place
    BY <1>3 DEF TypeOK
  <2> QED
    BY <1>2, <2>1
<1>4. CASE place' = [place EXCEPT ![cb] = "removed"] /\ InQueue(cb)
  <2>1. HeldIn(cb)' = "gone" /\ \A d \in Callbacks \ {cb} : place'[d] = place[d]
    BY <1>4 DEF HeldIn, InQueue, TypeOK
  <2>2. HeldAll' = [HeldAll EXCEPT ![cb] = "gone"] /\ HeldAll[cb] = "queued"
    BY <1>4, <2>1, HeldMoves DEF HeldAll, HeldIn, InQueue
  <2>3. Outbox!Leave(cb)
    BY <1>1, <2>2 DEF Outbox!Leave, Outbox!Paid, Accounted, HeldAll, HeldIn
  <2> QED
    BY <2>3 DEF OutboxStep, Outbox!OutboxNext
<1>5. place[cb] # "out"
  BY DEF OInv, WorkPlaced, Remove
<1> QED
  BY <1>2, <1>3, <1>4, <1>5 DEF Remove, InQueue, TypeOK

LEMMA WorkerOutbox ==
  ASSUME OInv, NEW w \in Processes, Worker(w)
  PROVE  OutboxStep
<1> DEFINE cb == work[w].cb
<1>0. /\ TypeOK /\ WorkOK(w)
      /\ work[w].step # "idle" =>
           cb \in Callbacks /\ work[w].outcome \in Outcomes /\ place[cb] # "out"
  BY WorkFields DEF OInv, IInv, WorkSound, WorkPlaced
<1>1. ASSUME NEW d \in Callbacks, Lease(w, d) PROVE OutboxStep
  <2>1. \A c \in Callbacks : HeldIn(c)' = HeldIn(c)
    BY <1>0, <1>1 DEF Lease, HeldIn, InQueue, TypeOK
  <2> QED
    BY <1>1, <2>1, HeldSame, OutboxStutters DEF Lease
<1>2. CASE Send(w)
  <2>1. applied' \in {applied, applied \cup {cb}}
    BY <1>2 DEF Send, Answers
  <2>2. cb \in Callbacks /\ place[cb] # "out" /\ UNCHANGED <<place, dead, ledger>>
    BY <1>0, <1>2 DEF Send
  <2> QED
    BY <2>1, <2>2, OutboxAsks
<1>3. CASE Resolve(w)
  <2> DEFINE to == Decision(work[w].outcome)
  <2>1. /\ cb \in Callbacks \ Untracked /\ to \in Decisions
        /\ to = "CONFIRMED" => cb \in applied
    BY <1>0, <1>3, DecisionType DEF Resolve, WorkOK, Decision
  <2>2. UNCHANGED <<place, dead, applied>> /\ (Decides(cb, to) \/ UNCHANGED ledger)
    BY <1>3 DEF Resolve
  <2> QED
    BY <1>0, <2>1, <2>2, OutboxRules, OutboxStutters, PlaceSame
<1>4. CASE Retry(w)
  <2>1. \A c \in Callbacks : HeldIn(c)' = HeldIn(c)
    BY <1>0, <1>4 DEF Retry, Reschedule, HeldIn, InQueue, TypeOK
  <2> QED
    BY <1>4, <2>1, HeldSame, OutboxStutters DEF Retry
<1>5. CASE DeadLetter(w)
  <2>1. UNCHANGED <<place, ledger, applied, HeldAll>>
    BY <1>5, PlaceSame DEF DeadLetter
  <2>2. CASE UNCHANGED dead
    BY <2>1, <2>2, OutboxStutters
  <2>3. CASE Written(cb)
    <3>1. cb \in Callbacks /\ HeldAll[cb] # "out"
      BY <1>0, <1>5 DEF DeadLetter, HeldAll, HeldIn
    <3>2. Outbox!Bury(cb)
      BY <2>1, <2>3, <3>1 DEF Outbox!Bury, Written, HeldAll, HeldIn
    <3> QED
      BY <3>1, <3>2 DEF OutboxStep, Outbox!OutboxNext
  <2> QED
    BY <1>5, <2>2, <2>3 DEF DeadLetter
<1>6. CASE Remove(w)
  <2>1. cb \in Callbacks /\ Accounted(cb)
    BY <1>0, <1>6 DEF Remove, WorkOK
  <2> QED
    BY <1>0, <1>6, <2>1, RemoveOutbox
<1> QED
  BY <1>1, <1>2, <1>3, <1>4, <1>5, <1>6 DEF Worker

LEMMA SweeperOutbox ==
  ASSUME OInv, NEW w \in Processes, Sweeper(w)
  PROVE  OutboxStep
<1> DEFINE cb == sweep[w].cb
<1>0. TypeOK /\ SweepOK(w) /\ (sweep[w].step # "idle" => cb \in Callbacks)
  BY SweepFields DEF OInv, IInv, SweepSound
<1>1. UNCHANGED <<place, dead>>
  BY DEF Sweeper, SweepEntry, SweepSend, SweepResolve
<1>2. CASE \E d \in Callbacks : SweepEntry(w, d)
  BY <1>1, <1>2, PlaceSame, OutboxStutters DEF SweepEntry
<1>3. CASE SweepSend(w)
  <2>1. applied' \in {applied, applied \cup {cb}}
    BY <1>3 DEF SweepSend, Answers
  <2>2. cb \in Callbacks /\ cb \notin Untracked /\ UNCHANGED ledger
    BY <1>0, <1>3 DEF SweepSend, SweepOK
  <2> QED
    BY <1>1, <2>1, <2>2, OutboxAsks
<1>4. CASE SweepResolve(w)
  <2> DEFINE to == Decision(sweep[w].outcome)
  <2>1. /\ cb \in Callbacks \ Untracked /\ to \in Decisions
        /\ to = "CONFIRMED" => cb \in applied
    BY <1>0, <1>4, DecisionType DEF SweepResolve, SweepOK, Decision
  <2>2. UNCHANGED applied /\ (Decides(cb, to) \/ UNCHANGED ledger)
    BY <1>4 DEF SweepResolve
  <2> QED
    BY <1>0, <1>1, <2>1, <2>2, OutboxRules, OutboxStutters, PlaceSame
<1> QED
  BY <1>2, <1>3, <1>4 DEF Sweeper

LEMMA StepOutbox ==
  ASSUME OInv, [Next]_vars
  PROVE  OutboxStep
<1>0. TypeOK
  BY DEF OInv, IInv
<1>1. ASSUME NEW cb \in Callbacks, Enqueue(cb) PROVE OutboxStep
  <2>1. HeldIn(cb)' = "queued" /\ \A d \in Callbacks \ {cb} : place'[d] = place[d]
    BY <1>0, <1>1 DEF Enqueue, HeldIn, InQueue, TypeOK
  <2>2. HeldAll' = [HeldAll EXCEPT ![cb] = "queued"] /\ HeldAll[cb] # "queued"
    BY <1>1, <2>1, HeldMoves DEF Enqueue, HeldAll, HeldIn
  <2>3. Outbox!Put(cb)
    BY <1>1, <2>2 DEF Enqueue, Outbox!Put, HeldAll, HeldIn
  <2> QED
    BY <2>3 DEF OutboxStep, Outbox!OutboxNext
<1>2. ASSUME NEW cb \in Callbacks, BecomesDue(cb) PROVE OutboxStep
  <2>1. \A c \in Callbacks : HeldIn(c)' = HeldIn(c)
    BY <1>0, <1>2 DEF BecomesDue, HeldIn, InQueue, TypeOK
  <2> QED
    BY <1>2, <2>1, HeldSame, OutboxStutters DEF BecomesDue
<1>3. ASSUME NEW w \in Processes, Crash(w) PROVE OutboxStep
  BY <1>3, PlaceSame, OutboxStutters DEF Crash
<1>4. CASE UNCHANGED vars
  BY <1>4, PlaceSame, OutboxStutters DEF vars
<1> QED
  BY <1>1, <1>2, <1>3, <1>4, WorkerOutbox, SweeperOutbox DEF Next

\* The queue, its workers, the sweepers and their crashes implement the outbox:
\* only what was enqueued or has an entry is asked for, decisions are final, and
\* a callback leaves the queue, the last time as the first, when it is accounted for.
THEOREM QueueImplementsOutbox == Spec => ImplementsOutbox
<1>1. Init => Outbox!OutboxInit
  BY DEF Init, Outbox!OutboxInit
<1>2. OInv /\ [Next]_vars => [Outbox!OutboxNext]_(Outbox!outbox)
  BY StepOutbox DEF OutboxStep
<1> QED
  BY <1>1, <1>2, OutboxInvariant, PTL DEF Spec, ImplementsOutbox, Outbox!OutboxSpec
=============================================================================
