---------------------------- MODULE LedgerProofs ----------------------------
(***************************************************************************)
(* Proofs about Ledger, for any number of callers, keys and transactions.  *)
(* The truth of the answers is not inductive alone: a check must be known  *)
(* to look at an entry that is decided (CallsKnown), and an absent id to   *)
(* be one that is never drawn (AbsentForeign).  A step is first reduced to *)
(* one of five shapes, then each invariant is shown for each shape.        *)
(***************************************************************************)
EXTENDS Ledger, TLAPS

ForeignAbsent == entries[Foreign] = NoEntry

\* A call that looks for an entry knows its id, and looks at a decided entry
\* if its update found it not pending.
CallsKnown ==
  \A c \in Callers :
    /\ calls[c].step \in {"update", "check"} => calls[c].txn \in Known \cup {Foreign}
    /\ calls[c].step = "check" => ~IsPending(calls[c].txn)

AbsentForeign == \A a \in told : a.verdict = "absent" => a.txn = Foreign

IInv ==
  /\ TypeOK /\ OneOwner /\ AnswersTrue
  /\ ForeignAbsent /\ CallsKnown /\ AbsentForeign

-----------------------------------------------------------------------------
(* What the step of a call says about its fields.                          *)

LEMMA InsertFields ==
  ASSUME TypeOK, NEW c \in Callers, calls[c].step \in {"insert", "reread"}
  PROVE  calls[c].key \in Keys /\ calls[c].txn \in Txns
<1>1. calls[c] \in Call
  BY DEF TypeOK
<1> QED
  BY <1>1 DEF Call, Idle

LEMMA ResolveFields ==
  ASSUME TypeOK, NEW c \in Callers, calls[c].step \in {"update", "check"}
  PROVE  calls[c].txn \in Txns \cup {Foreign} /\ calls[c].to \in Decisions
<1>1. calls[c] \in Call
  BY DEF TypeOK
<1> QED
  BY <1>1 DEF Call, Idle

-----------------------------------------------------------------------------
(* The shapes of a step: what it does to the entries and to the answers.   *)

Opens(t, k) ==
  /\ t \in Txns /\ k \in Keys
  /\ ~Duplicate(k, t)
  /\ entries' = [entries EXCEPT ![t] = [key |-> k, status |-> "PENDING"]]
  /\ told' \in {told, told \cup {[txn |-> t, verdict |-> "created"]}}

Finds(t) ==
  /\ t \in Known
  /\ told' = told \cup {[txn |-> t, verdict |-> "existing"]}
  /\ entries' = entries

Decides(t, to) ==
  /\ t \in Known /\ to \in Decisions
  /\ IsPending(t)
  /\ entries' = [entries EXCEPT ![t] = [key |-> entries[t].key, status |-> to]]
  /\ told' \in {told, told \cup {[txn |-> t, verdict |-> to]}}

Judges(t, to) ==
  /\ t \in Known \cup {Foreign} /\ to \in Decisions
  /\ ~IsPending(t)
  /\ told' = told \cup {[txn |-> t, verdict |-> Verdict(t, to)]}
  /\ entries' = entries

Silent == entries' = entries /\ told' = told

Shape ==
  \/ \E t \in Txns, k \in Keys : Opens(t, k)
  \/ \E t \in Txns : Finds(t)
  \/ \E t \in Txns, to \in Decisions : Decides(t, to)
  \/ \E t \in Txns \cup {Foreign}, to \in Decisions : Judges(t, to)
  \/ Silent

LEMMA StepShape ==
  ASSUME TypeOK, ForeignAbsent, CallsKnown, Next
  PROVE  Shape
<1> PICK c \in Callers :
      \/ \E k \in Keys : BeginCall(c, k)
      \/ Insert(c)
      \/ Reread(c)
      \/ \E t \in Txns \cup {Foreign}, to \in Decisions : ResolveCall(c, t, to)
      \/ Update(c)
      \/ Check(c)
  BY DEF Next
<1>1. CASE \E k \in Keys : BeginCall(c, k)
  BY <1>1 DEF BeginCall, Continue, Shape, Silent
<1>2. CASE Insert(c)
  <2> DEFINE k == calls[c].key
             t == calls[c].txn
  <2>0. k \in Keys /\ t \in Txns
    BY <1>2, InsertFields DEF Insert
  <2>1. CASE Duplicate(k, t) /\ Continue(c, [step |-> "reread", key |-> k, txn |-> t])
    BY <2>1 DEF Continue, Shape, Silent
  <2>2. CASE /\ ~Duplicate(k, t)
             /\ entries' = [entries EXCEPT ![t] = [key |-> k, status |-> "PENDING"]]
             /\ Answers(c, t, "created") \/ Errs(c)
    <3>1. told' \in {told, told \cup {[txn |-> t, verdict |-> "created"]}}
      BY <2>2 DEF Answers, Errs
    <3>2. Opens(t, k)
      BY <2>0, <2>2, <3>1 DEF Opens
    <3> QED
      BY <2>0, <3>2 DEF Shape
  <2>3. CASE Errs(c) /\ UNCHANGED entries
    BY <2>3 DEF Errs, Shape, Silent
  <2> QED
    BY <1>2, <2>1, <2>2, <2>3 DEF Insert
<1>3. CASE Reread(c)
  <2>1. CASE \E t \in WithKey(calls[c].key) : Answers(c, t, "existing")
    <3> PICK t \in WithKey(calls[c].key) : Answers(c, t, "existing")
      BY <2>1
    <3>1. t \in Txns /\ t \in Known
      BY DEF WithKey, Known
    <3>2. Finds(t)
      BY <1>3, <3>1 DEF Reread, Finds, Answers
    <3> QED
      BY <3>1, <3>2 DEF Shape
  <2>2. CASE Errs(c)
    BY <1>3, <2>2 DEF Reread, Errs, Shape, Silent
  <2> QED
    BY <1>3, <2>1, <2>2 DEF Reread
<1>4. CASE \E t \in Txns \cup {Foreign}, to \in Decisions : ResolveCall(c, t, to)
  BY <1>4 DEF ResolveCall, Continue, Shape, Silent
<1>5. CASE Update(c)
  <2> DEFINE t == calls[c].txn
             to == calls[c].to
  <2>0. t \in Known \cup {Foreign} /\ to \in Decisions
    BY <1>5, ResolveFields DEF Update, CallsKnown
  <2>1. CASE /\ IsPending(t)
             /\ entries' = [entries EXCEPT ![t] = [key |-> entries[t].key, status |-> to]]
             /\ Answers(c, t, to) \/ Errs(c)
    <3>1. told' \in {told, told \cup {[txn |-> t, verdict |-> to]}}
      BY <2>1 DEF Answers, Errs
    <3>2. t \in Known
      BY <2>0, <2>1 DEF IsPending, ForeignAbsent
    <3>3. Decides(t, to)
      BY <2>0, <2>1, <3>1, <3>2 DEF Decides
    <3> QED
      BY <2>0, <3>2, <3>3 DEF Shape, Known
  <2>2. CASE ~IsPending(t) /\ Continue(c, [step |-> "check", txn |-> t, to |-> to])
    BY <2>2 DEF Continue, Shape, Silent
  <2>3. CASE Errs(c) /\ UNCHANGED entries
    BY <2>3 DEF Errs, Shape, Silent
  <2> QED
    BY <1>5, <2>1, <2>2, <2>3 DEF Update
<1>6. CASE Check(c)
  <2> DEFINE t == calls[c].txn
             to == calls[c].to
  <2>0. t \in Known \cup {Foreign} /\ to \in Decisions /\ ~IsPending(t)
    BY <1>6, ResolveFields DEF Check, CallsKnown
  <2>1. CASE Answers(c, t, Verdict(t, to))
    <3>1. Judges(t, to)
      BY <1>6, <2>0, <2>1 DEF Check, Judges, Answers
    <3> QED
      BY <2>0, <3>1 DEF Shape, Known
  <2>2. CASE Errs(c)
    BY <1>6, <2>2 DEF Check, Errs, Shape, Silent
  <2> QED
    BY <1>6, <2>1, <2>2 DEF Check
<1> QED
  BY <1>1, <1>2, <1>3, <1>4, <1>5, <1>6

-----------------------------------------------------------------------------
(* What every shape preserves.                                             *)

\* An entry stays, with its key, and with its status once decided.
Kept(t) ==
  /\ entries'[t] # NoEntry
  /\ entries'[t].key = entries[t].key
  /\ entries[t].status \in Decisions => entries'[t] = entries[t]

LEMMA EntriesKept ==
  ASSUME TypeOK, Shape, NEW t \in Known
  PROVE  Kept(t)
<1>0. t \in Txns /\ entries[t] # NoEntry /\ entries[t] \in Entry
  BY DEF Known, TypeOK
<1>1. CASE \E s \in Txns, k \in Keys : Opens(s, k)
  <2> PICK s \in Txns, k \in Keys : Opens(s, k)
    BY <1>1
  <2>1. s # t
    BY DEF Opens, Duplicate
  <2>2. entries'[t] = entries[t]
    BY <1>0, <2>1 DEF Opens, TypeOK
  <2> QED
    BY <1>0, <2>2 DEF Kept
<1>2. CASE \E s \in Txns, to \in Decisions : Decides(s, to)
  <2> PICK s \in Txns, to \in Decisions : Decides(s, to)
    BY <1>2
  <2>1. CASE s = t
    <3>1. entries'[t] = [key |-> entries[t].key, status |-> to]
      BY <1>0, <2>1 DEF Decides, TypeOK
    <3>2. entries[t].status = "PENDING"
      BY <2>1 DEF Decides, IsPending
    <3>3. entries'[t] \in Entry
      BY <1>0, <3>1 DEF Entry
    <3> QED
      BY <3>1, <3>2, <3>3, NoEntryIsNoEntry DEF Kept, Decisions
  <2>2. CASE s # t
    <3>1. entries'[t] = entries[t]
      BY <1>0, <2>2 DEF Decides, TypeOK
    <3> QED
      BY <1>0, <3>1 DEF Kept
  <2> QED
    BY <2>1, <2>2
<1>3. CASE entries' = entries
  BY <1>0, <1>3 DEF Kept
<1> QED
  BY <1>1, <1>2, <1>3 DEF Shape, Finds, Judges, Silent

LEMMA EntriesTyped ==
  ASSUME TypeOK, ForeignAbsent, Shape
  PROVE  /\ entries' \in [Txns \cup {Foreign} -> Entry \cup {NoEntry}]
         /\ told' \subseteq Answer
         /\ ForeignAbsent'
<1>1. CASE \E s \in Txns, k \in Keys : Opens(s, k)
  <2> PICK s \in Txns, k \in Keys : Opens(s, k)
    BY <1>1
  <2>1. [key |-> k, status |-> "PENDING"] \in Entry
    BY DEF Entry
  <2>2. [txn |-> s, verdict |-> "created"] \in Answer
    BY DEF Answer, Verdicts
  <2> QED
    BY <2>1, <2>2, LedgerConstants DEF Opens, TypeOK, ForeignAbsent
<1>2. CASE \E s \in Txns : Finds(s)
  BY <1>2 DEF Finds, TypeOK, ForeignAbsent, Answer, Verdicts
<1>3. CASE \E s \in Txns, to \in Decisions : Decides(s, to)
  <2> PICK s \in Txns, to \in Decisions : Decides(s, to)
    BY <1>3
  <2>0. entries[s] \in Entry
    BY DEF Decides, Known, TypeOK
  <2>1. [key |-> entries[s].key, status |-> to] \in Entry
    BY <2>0 DEF Entry
  <2>2. [txn |-> s, verdict |-> to] \in Answer
    BY DEF Answer, Verdicts
  <2> QED
    BY <2>1, <2>2, LedgerConstants DEF Decides, TypeOK, ForeignAbsent
<1>4. CASE \E s \in Txns \cup {Foreign}, to \in Decisions : Judges(s, to)
  <2> PICK s \in Txns \cup {Foreign}, to \in Decisions : Judges(s, to)
    BY <1>4
  <2>1. Verdict(s, to) \in Verdicts
    BY DEF Verdict, Verdicts
  <2>2. [txn |-> s, verdict |-> Verdict(s, to)] \in Answer
    BY <2>1 DEF Answer
  <2> QED
    BY <2>2 DEF Judges, TypeOK, ForeignAbsent
<1>5. CASE Silent
  BY <1>5 DEF Silent, TypeOK, ForeignAbsent
<1> QED
  BY <1>1, <1>2, <1>3, <1>4, <1>5 DEF Shape

LEMMA OwnersKept ==
  ASSUME TypeOK, ForeignAbsent, OneOwner, Shape
  PROVE  OneOwner'
<1> SUFFICES ASSUME NEW s \in Known', NEW t \in Known',
                    entries'[s].key = entries'[t].key
             PROVE  s = t
  BY DEF OneOwner
<1>0. s \in Txns /\ t \in Txns /\ entries'[s] # NoEntry /\ entries'[t] # NoEntry
  BY DEF Known
<1>1. CASE \E u \in Txns, k \in Keys : Opens(u, k)
  <2> PICK u \in Txns, k \in Keys : Opens(u, k)
    BY <1>1
  <2>1. \A v \in Txns : v # u => entries'[v] = entries[v]
    BY DEF Opens, TypeOK
  <2>2. entries'[u].key = k
    BY DEF Opens, TypeOK
  <2>3. \A v \in Known : entries[v].key # k
    BY DEF Opens, Duplicate, WithKey
  <2>4. CASE s # u /\ t # u
    BY <1>0, <2>1, <2>4 DEF OneOwner, Known
  <2>5. CASE s = u /\ t # u
    BY <1>0, <2>1, <2>2, <2>3, <2>5 DEF Known
  <2>6. CASE s # u /\ t = u
    BY <1>0, <2>1, <2>2, <2>3, <2>6 DEF Known
  <2> QED
    BY <2>4, <2>5, <2>6
<1>2. CASE \E u \in Txns, to \in Decisions : Decides(u, to)
  <2> PICK u \in Txns, to \in Decisions : Decides(u, to)
    BY <1>2
  <2>1. \A v \in Txns : entries'[v] # NoEntry =>
          entries[v] # NoEntry /\ entries'[v].key = entries[v].key
    BY DEF Decides, TypeOK, Known
  <2> QED
    BY <1>0, <2>1 DEF OneOwner, Known
<1>3. CASE entries' = entries
  BY <1>3 DEF OneOwner, Known
<1> QED
  BY <1>1, <1>2, <1>3 DEF Shape, Finds, Judges, Silent

-----------------------------------------------------------------------------
(* The answers.                                                            *)

\* An answer that was true stays true.
LEMMA OldAnswers ==
  ASSUME TypeOK, ForeignAbsent, AbsentForeign, AnswersTrue, Shape, NEW a \in told
  PROVE  IsTrue(a)'
<1>0. /\ a \in Answer
      /\ IsTrue(a)
      /\ a.verdict = "absent" => a.txn = Foreign
  BY DEF TypeOK, AnswersTrue, AbsentForeign
<1>1. CASE a.verdict = "absent"
  <2>1. entries'[Foreign] = NoEntry
    BY EntriesTyped DEF ForeignAbsent
  <2> QED
    BY <1>0, <1>1, <2>1 DEF IsTrue, Decisions
<1>2. CASE a.verdict # "absent"
  <2>1. entries[a.txn] # NoEntry
    BY <1>0, <1>2 DEF IsTrue, Answer, Verdicts
  <2>2. a.txn \in Known
    BY <1>0, <2>1 DEF Known, Answer, ForeignAbsent
  <2>3. Kept(a.txn)
    BY <2>2, EntriesKept
  <2>4. CASE a.verdict \in {"created", "existing"}
    BY <2>3, <2>4 DEF IsTrue, Kept, Decisions
  <2>5. CASE a.verdict \in Decisions
    BY <1>0, <2>3, <2>5 DEF IsTrue, Kept, Decisions
  <2>6. CASE a.verdict = "conflict"
    BY <1>0, <2>3, <2>6 DEF IsTrue, Kept, Decisions
  <2> QED
    BY <1>0, <1>2, <2>4, <2>5, <2>6 DEF Answer, Verdicts
<1> QED
  BY <1>1, <1>2

\* The answer a step gives is true.
LEMMA NewAnswers ==
  ASSUME TypeOK, ForeignAbsent, Shape, NEW a \in told', a \notin told
  PROVE  IsTrue(a)' /\ (a.verdict = "absent" => a.txn = Foreign)
<1>1. CASE \E t \in Txns, k \in Keys : Opens(t, k)
  <2> PICK t \in Txns, k \in Keys : Opens(t, k)
    BY <1>1
  <2>1. a = [txn |-> t, verdict |-> "created"]
    BY DEF Opens
  <2>2. entries'[t] = [key |-> k, status |-> "PENDING"]
    BY DEF Opens, TypeOK
  <2>3. entries'[t] # NoEntry
    BY <2>2, NoEntryIsNoEntry DEF Entry
  <2> QED
    BY <2>1, <2>3 DEF IsTrue, Decisions
<1>2. CASE \E t \in Txns : Finds(t)
  <2> PICK t \in Txns : Finds(t)
    BY <1>2
  <2>1. a = [txn |-> t, verdict |-> "existing"] /\ entries'[t] # NoEntry
    BY DEF Finds, Known
  <2> QED
    BY <2>1 DEF IsTrue, Decisions
<1>3. CASE \E t \in Txns, to \in Decisions : Decides(t, to)
  <2> PICK t \in Txns, to \in Decisions : Decides(t, to)
    BY <1>3
  <2>1. a = [txn |-> t, verdict |-> to]
    BY DEF Decides
  <2>2. entries[t] \in Entry
    BY DEF Decides, Known, TypeOK
  <2>3. entries'[t] = [key |-> entries[t].key, status |-> to]
    BY DEF Decides, TypeOK
  <2>4. entries'[t] # NoEntry
    BY <2>2, <2>3, NoEntryIsNoEntry DEF Entry
  <2>5. entries'[t].status = to
    BY <2>3
  <2>6. a.txn = t /\ a.verdict = to /\ to \in Decisions
    BY <2>1
  <2> QED
    BY <2>4, <2>5, <2>6 DEF IsTrue, Decisions
<1>4. CASE \E t \in Txns \cup {Foreign}, to \in Decisions : Judges(t, to)
  <2> PICK t \in Txns \cup {Foreign}, to \in Decisions : Judges(t, to)
    BY <1>4
  <2>1. a = [txn |-> t, verdict |-> Verdict(t, to)] /\ entries' = entries
    BY DEF Judges
  <2>2. CASE entries[t] = NoEntry
    <3>1. t = Foreign
      BY <2>2 DEF Judges, Known
    <3> QED
      BY <2>1, <2>2, <3>1 DEF IsTrue, Verdict, Decisions
  <2>3. CASE entries[t] # NoEntry
    <3>1. entries[t] \in Entry
      BY <2>3 DEF TypeOK
    <3>2. entries[t].status \in Decisions
      BY <2>3, <3>1 DEF Judges, IsPending, Entry
    <3>3. CASE entries[t].status = to
      BY <2>1, <2>3, <3>2, <3>3 DEF IsTrue, Verdict, Decisions
    <3>4. CASE entries[t].status # to
      BY <2>1, <2>3, <3>2, <3>4 DEF IsTrue, Verdict, Decisions
    <3> QED
      BY <3>3, <3>4
  <2> QED
    BY <2>2, <2>3
<1>5. CASE Silent
  BY <1>5 DEF Silent
<1> QED
  BY <1>1, <1>2, <1>3, <1>4, <1>5 DEF Shape

LEMMA AnswersKept ==
  ASSUME TypeOK, ForeignAbsent, AbsentForeign, AnswersTrue, Shape
  PROVE  AnswersTrue' /\ AbsentForeign'
<1> SUFFICES ASSUME NEW a \in told'
             PROVE  IsTrue(a)' /\ (a.verdict = "absent" => a.txn = Foreign)
  BY DEF AnswersTrue, AbsentForeign
<1>1. CASE a \in told
  BY <1>1, OldAnswers DEF AbsentForeign
<1>2. CASE a \notin told
  BY <1>2, NewAnswers
<1> QED
  BY <1>1, <1>2

-----------------------------------------------------------------------------
(* The calls: their types, and what they know.                             *)

LEMMA CallsTyped ==
  ASSUME TypeOK, Next
  PROVE  calls' \in [Callers -> Call]
<1> PICK c \in Callers :
      \/ \E k \in Keys : BeginCall(c, k)
      \/ Insert(c)
      \/ Reread(c)
      \/ \E t \in Txns \cup {Foreign}, to \in Decisions : ResolveCall(c, t, to)
      \/ Update(c)
      \/ Check(c)
  BY DEF Next
<1>1. \E call \in Call : calls' = [calls EXCEPT ![c] = call]
  <2>0. Idle \in Call
    BY DEF Call
  <2>1. CASE \E k \in Keys : BeginCall(c, k)
    BY <2>1 DEF BeginCall, Continue, Call
  <2>2. CASE Insert(c)
    <3>1. calls[c].key \in Keys /\ calls[c].txn \in Txns
      BY <2>2, InsertFields DEF Insert
    <3>2. [step |-> "reread", key |-> calls[c].key, txn |-> calls[c].txn] \in Call
      BY <3>1 DEF Call
    <3> QED
      BY <2>0, <2>2, <3>2 DEF Insert, Continue, Answers, Errs, Return
  <2>3. CASE Reread(c)
    BY <2>0, <2>3 DEF Reread, Answers, Errs, Return
  <2>4. CASE \E t \in Txns \cup {Foreign}, to \in Decisions : ResolveCall(c, t, to)
    BY <2>4 DEF ResolveCall, Continue, Call
  <2>5. CASE Update(c)
    <3>1. calls[c].txn \in Txns \cup {Foreign} /\ calls[c].to \in Decisions
      BY <2>5, ResolveFields DEF Update
    <3>2. [step |-> "check", txn |-> calls[c].txn, to |-> calls[c].to] \in Call
      BY <3>1 DEF Call
    <3> QED
      BY <2>0, <2>5, <3>2 DEF Update, Continue, Answers, Errs, Return
  <2>6. CASE Check(c)
    BY <2>0, <2>6 DEF Check, Answers, Errs, Return
  <2> QED
    BY <2>1, <2>2, <2>3, <2>4, <2>5, <2>6
<1> QED
  BY <1>1 DEF TypeOK

\* Who may look for t keeps that right, and t stays decided if it was.
LEMMA RightKept ==
  ASSUME TypeOK, ForeignAbsent, Shape, NEW t \in Known \cup {Foreign}
  PROVE  /\ t \in Known' \cup {Foreign}
         /\ ~IsPending(t) => ~IsPending(t)'
<1>1. CASE t = Foreign
  BY <1>1, EntriesTyped DEF ForeignAbsent, IsPending
<1>2. CASE t \in Known
  <2>1. Kept(t) /\ t \in Txns
    BY <1>2, EntriesKept DEF Known
  <2>2. entries[t] \in Entry
    BY <1>2 DEF Known, TypeOK
  <2>3. t \in Known'
    BY <2>1 DEF Kept, Known
  <2>4. ~IsPending(t) => entries[t].status \in Decisions
    BY <1>2, <2>2 DEF IsPending, Entry, Known
  <2>5. entries[t].status \in Decisions => entries'[t].status # "PENDING"
    BY <2>1 DEF Kept, Decisions
  <2> QED
    BY <2>3, <2>4, <2>5 DEF IsPending
<1> QED
  BY <1>1, <1>2

LEMMA CallsKept ==
  ASSUME TypeOK, ForeignAbsent, CallsKnown, Next
  PROVE  CallsKnown'
<1> SUFFICES ASSUME NEW d \in Callers
             PROVE  /\ calls'[d].step \in {"update", "check"}
                         => calls'[d].txn \in Known' \cup {Foreign}
                    /\ calls'[d].step = "check" =>
                         ~ /\ entries'[calls'[d].txn] # NoEntry
                           /\ entries'[calls'[d].txn].status = "PENDING"
  BY DEF CallsKnown, IsPending
<1>0. \A t \in Known \cup {Foreign} :
        /\ t \in Known' \cup {Foreign}
        /\ ~IsPending(t) => ~(entries'[t] # NoEntry /\ entries'[t].status = "PENDING")
  BY StepShape, RightKept DEF IsPending
<1>1. CASE calls'[d] = calls[d]
  BY <1>0, <1>1 DEF CallsKnown
<1>2. CASE calls'[d] # calls[d]
  <2> PICK c \in Callers :
        \/ \E k \in Keys : BeginCall(c, k)
        \/ Insert(c)
        \/ Reread(c)
        \/ \E t \in Txns \cup {Foreign}, to \in Decisions : ResolveCall(c, t, to)
        \/ Update(c)
        \/ Check(c)
    BY DEF Next
  <2>1. \A call : calls' = [calls EXCEPT ![c] = call] => c = d /\ calls'[d] = call
    BY <1>2 DEF TypeOK
  <2>2. CASE \E k \in Keys : BeginCall(c, k)
    <3> PICK k \in Keys, t \in Txns :
               calls' = [calls EXCEPT ![c] = [step |-> "insert", key |-> k, txn |-> t]]
      BY <2>2 DEF BeginCall, Continue
    <3>1. calls'[d].step = "insert"
      BY <2>1
    <3> QED
      BY <3>1
  <2>3. CASE Insert(c)
    <3>1. calls'[d].step \in {"reread", "idle"}
      BY <2>1, <2>3 DEF Insert, Continue, Answers, Errs, Return, Idle
    <3> QED
      BY <3>1
  <2>4. CASE Reread(c)
    <3>1. calls'[d].step = "idle"
      BY <2>1, <2>4 DEF Reread, Answers, Errs, Return, Idle
    <3> QED
      BY <3>1
  <2>5. CASE \E t \in Txns \cup {Foreign}, to \in Decisions : ResolveCall(c, t, to)
    <3> PICK t \in Txns \cup {Foreign}, to \in Decisions : ResolveCall(c, t, to)
      BY <2>5
    <3>1. calls'[d] = [step |-> "update", txn |-> t, to |-> to]
      BY <2>1 DEF ResolveCall, Continue
    <3> QED
      BY <1>0, <3>1 DEF ResolveCall
  <2>6. CASE Update(c)
    <3> DEFINE t == calls[c].txn
               to == calls[c].to
    <3>0. t \in Known \cup {Foreign}
      BY <2>6 DEF Update, CallsKnown
    <3>1. CASE ~IsPending(t) /\ Continue(c, [step |-> "check", txn |-> t, to |-> to])
      <4>1. calls'[d] = [step |-> "check", txn |-> t, to |-> to]
        BY <2>1, <3>1 DEF Continue
      <4> QED
        BY <1>0, <3>0, <3>1, <4>1
    <3>2. CASE Return(c)
      <4>1. calls'[d].step = "idle"
        BY <2>1, <3>2 DEF Return, Idle
      <4> QED
        BY <4>1
    <3> QED
      BY <2>6, <3>1, <3>2 DEF Update, Answers, Errs
  <2>7. CASE Check(c)
    <3>1. calls'[d].step = "idle"
      BY <2>1, <2>7 DEF Check, Answers, Errs, Return, Idle
    <3> QED
      BY <3>1
  <2> QED
    BY <2>2, <2>3, <2>4, <2>5, <2>6, <2>7
<1> QED
  BY <1>1, <1>2

-----------------------------------------------------------------------------
(* The theorems.                                                           *)

LEMMA InitInvariant == Init => IInv
<1> SUFFICES ASSUME Init
             PROVE  IInv
  OBVIOUS
<1>1. TypeOK
  BY DEF Init, TypeOK, Call
<1>2. ForeignAbsent /\ AbsentForeign /\ AnswersTrue
  BY DEF Init, ForeignAbsent, AbsentForeign, AnswersTrue
<1>3. OneOwner
  BY DEF Init, OneOwner, Known
<1>4. CallsKnown
  BY DEF Init, CallsKnown, Idle
<1> QED
  BY <1>1, <1>2, <1>3, <1>4 DEF IInv

LEMMA StepInvariant == IInv /\ [Next]_vars => IInv'
<1> SUFFICES ASSUME IInv, [Next]_vars
             PROVE  IInv'
  OBVIOUS
<1>1. CASE Next
  <2>1. Shape
    BY <1>1, StepShape DEF IInv
  <2>2. TypeOK' /\ ForeignAbsent'
    BY <1>1, <2>1, EntriesTyped, CallsTyped DEF IInv, TypeOK
  <2>3. OneOwner'
    BY <2>1, OwnersKept DEF IInv
  <2>4. AnswersTrue' /\ AbsentForeign'
    BY <2>1, AnswersKept DEF IInv
  <2>5. CallsKnown'
    BY <1>1, CallsKept DEF IInv
  <2> QED
    BY <2>2, <2>3, <2>4, <2>5 DEF IInv
<1>2. CASE UNCHANGED vars
  BY <1>2 DEF IInv, vars, TypeOK, OneOwner, AnswersTrue, IsTrue, ForeignAbsent,
              CallsKnown, IsPending, AbsentForeign, Known
<1> QED
  BY <1>1, <1>2

\* The entries, the calls and the answers keep their types.
THEOREM LedgerTypes == Spec => []TypeOK
<1>1. IInv => TypeOK
  BY DEF IInv
<1> QED
  BY InitInvariant, StepInvariant, <1>1, PTL DEF Spec

\* Begin opens a key once, whoever races and whatever fails (ledger.go:252).
THEOREM OwnersUnique == Spec => []OneOwner
<1>1. IInv => OneOwner
  BY DEF IInv
<1> QED
  BY InitInvariant, StepInvariant, <1>1, PTL DEF Spec

\* The answers of Begin, Confirm and Fail stay true for ever (ledger.go:312).
THEOREM AnswersAlwaysTrue == Spec => []AnswersTrue
<1>1. IInv => AnswersTrue
  BY DEF IInv
<1> QED
  BY InitInvariant, StepInvariant, <1>1, PTL DEF Spec

\* No step of any caller undoes a decision or loses an entry.
THEOREM DecisionsAlwaysFinal == Spec => DecisionsFinal
<1> DEFINE Final == \A t \in Known : Kept(t)
<1>1. IInv /\ [Next]_vars => [Final]_vars
  BY StepShape, EntriesKept DEF IInv
<1> QED
  BY InitInvariant, StepInvariant, <1>1, PTL DEF Spec, DecisionsFinal, Kept

-----------------------------------------------------------------------------
(* Ledger implements LedgerContract.                                       *)

\* The status of a key is that of its only entry.
LEMMA StatusOfEntry ==
  ASSUME OneOwner, NEW t \in Known
  PROVE  StatusOf(entries[t].key) = entries[t].status
<1>1. WithKey(entries[t].key) = {t}
  BY DEF WithKey, OneOwner
<1> QED
  BY <1>1 DEF StatusOf

\* The known answers, as the contract sees them, only grow.
LEMMA MappedKept ==
  ASSUME TypeOK, ForeignAbsent, AnswersTrue, AbsentForeign, Shape,
         NEW a \in told, a.txn # Foreign
  PROVE  entries'[a.txn].key = entries[a.txn].key
<1>1. a \in Answer /\ IsTrue(a)
  BY DEF TypeOK, AnswersTrue
<1>2. a.txn \in Txns /\ a.verdict # "absent"
  BY <1>1 DEF Answer, AbsentForeign
<1>3. entries[a.txn] # NoEntry
  BY <1>1, <1>2 DEF IsTrue, Answer, Verdicts
<1>4. Kept(a.txn)
  BY <1>2, <1>3, EntriesKept DEF Known
<1> QED
  BY <1>4 DEF Kept

\* The image of the answers when one is added, or none.
LEMMA MappedGrows ==
  ASSUME TypeOK, ForeignAbsent, AnswersTrue, AbsentForeign, Shape,
         NEW t \in Txns, NEW v, t # Foreign
  PROVE  /\ told' = told => Mapped' = Mapped
         /\ told' = told \cup {[txn |-> t, verdict |-> v]} =>
              Mapped' = Mapped \cup {<<entries'[t].key, v>>}
<1>1. \A a \in told : a.txn # Foreign => entries'[a.txn].key = entries[a.txn].key
  BY MappedKept
<1>2. ASSUME told' = told
      PROVE  Mapped' = Mapped
  BY <1>1, <1>2 DEF Mapped
<1>3. ASSUME told' = told \cup {[txn |-> t, verdict |-> v]}
      PROVE  Mapped' = Mapped \cup {<<entries'[t].key, v>>}
  <2> DEFINE new == [txn |-> t, verdict |-> v]
  <2>1. new.txn = t /\ new.verdict = v
    OBVIOUS
  <2>2. \A x \in Mapped' : x \in Mapped \/ x = <<entries'[t].key, v>>
    BY <1>1, <1>3, <2>1 DEF Mapped
  <2>3. Mapped \subseteq Mapped'
    BY <1>1, <1>3 DEF Mapped
  <2>4. <<entries'[t].key, v>> \in Mapped'
    <3>1. new \in told'
      BY <1>3
    <3> QED
      BY <2>1, <3>1 DEF Mapped
  <2> QED
    BY <2>2, <2>3, <2>4
<1> QED
  BY <1>2, <1>3

LEMMA OpenedStatus ==
  ASSUME TypeOK, NEW t \in Txns, NEW k \in Keys, Opens(t, k)
  PROVE  Stati[k] = "NONE" /\ Stati' = [Stati EXCEPT ![k] = "PENDING"]
<1>1. WithKey(k) = {} /\ t \notin Known
  BY DEF Opens, Duplicate
<1>2. /\ entries'[t] = [key |-> k, status |-> "PENDING"]
      /\ \A u \in Txns : u # t => entries'[u] = entries[u]
  BY DEF Opens, TypeOK
<1>3. entries'[t] # NoEntry
  BY <1>2, NoEntryIsNoEntry DEF Entry
<1>4. WithKey(k)' = {t}
  BY <1>1, <1>2, <1>3 DEF WithKey, Known
<1>5. StatusOf(k)' = "PENDING"
  BY <1>2, <1>4 DEF StatusOf
<1>6. ASSUME NEW j \in Keys, j # k
      PROVE  StatusOf(j)' = StatusOf(j)
  <2>1. WithKey(j)' = WithKey(j) /\ t \notin WithKey(j)
    BY <1>1, <1>2, <1>6 DEF WithKey, Known
  <2>2. \A u \in WithKey(j) : entries'[u] = entries[u]
    BY <1>2, <2>1 DEF WithKey, Known
  <2>3. CASE WithKey(j) = {}
    BY <2>1, <2>3 DEF StatusOf
  <2>4. CASE WithKey(j) # {}
    <3>1. (CHOOSE u \in WithKey(j) : TRUE) \in WithKey(j)
      BY <2>4
    <3> QED
      BY <2>1, <2>2, <2>4, <3>1 DEF StatusOf
  <2> QED
    BY <2>3, <2>4
<1> QED
  BY <1>1, <1>5, <1>6 DEF Stati, StatusOf

LEMMA DecidedStatus ==
  ASSUME TypeOK, OneOwner, OneOwner', NEW t \in Known, NEW to \in Decisions, Decides(t, to)
  PROVE  /\ entries[t].key \in Keys /\ entries'[t].key = entries[t].key
         /\ Stati[entries[t].key] = "PENDING"
         /\ Stati' = [Stati EXCEPT ![entries[t].key] = to]
<1> DEFINE k == entries[t].key
<1>0. entries[t] \in Entry /\ k \in Keys /\ t \in Txns
  BY DEF Known, TypeOK, Entry
<1>1. /\ entries'[t] = [key |-> k, status |-> to]
      /\ \A u \in Txns : u # t => entries'[u] = entries[u]
  BY <1>0 DEF Decides, TypeOK
<1>2. entries'[t] # NoEntry
  <2>1. [key |-> k, status |-> to] \in Entry
    BY <1>0 DEF Entry
  <2> QED
    BY <1>1, <2>1, NoEntryIsNoEntry
<1>3. WithKey(k) = {t} /\ WithKey(k)' = {t}
  <2>1. WithKey(k) = {t}
    BY DEF WithKey, OneOwner
  <2>2. \A u \in Txns : u \in WithKey(k)' <=> u \in WithKey(k)
    BY <1>1, <1>2, <2>1 DEF WithKey, Known
  <2> QED
    BY <2>1, <2>2 DEF WithKey, Known
<1>4. StatusOf(k) = "PENDING" /\ StatusOf(k)' = to
  BY <1>1, <1>3 DEF StatusOf, Decides, IsPending
<1>5. ASSUME NEW j \in Keys, j # k
      PROVE  StatusOf(j)' = StatusOf(j)
  <2>1. WithKey(j)' = WithKey(j) /\ t \notin WithKey(j)
    BY <1>1, <1>5 DEF WithKey, Known
  <2>2. \A u \in WithKey(j) : entries'[u] = entries[u]
    BY <1>1, <2>1 DEF WithKey, Known
  <2>3. CASE WithKey(j) = {}
    BY <2>1, <2>3 DEF StatusOf
  <2>4. CASE WithKey(j) # {}
    <3>1. (CHOOSE u \in WithKey(j) : TRUE) \in WithKey(j)
      BY <2>4
    <3> QED
      BY <2>1, <2>2, <2>4, <3>1 DEF StatusOf
  <2> QED
    BY <2>3, <2>4
<1> QED
  BY <1>0, <1>1, <1>4, <1>5 DEF Stati

LEMMA ContractInit == Init => Contract!Init
<1> SUFFICES ASSUME Init
             PROVE  Contract!Init
  OBVIOUS
<1>1. \A k \in Keys : StatusOf(k) = "NONE"
  BY DEF Init, StatusOf, WithKey, Known
<1>2. Mapped = {}
  BY DEF Init, Mapped
<1> QED
  BY <1>1, <1>2 DEF Contract!Init, Stati

LEMMA ContractStep ==
  ASSUME IInv, IInv', [Next]_vars
  PROVE  [Contract!Next]_Contract!contractVars
<1> USE DEF Contract!Decisions, Decisions
<1>0. CASE UNCHANGED vars
  BY <1>0 DEF vars, Contract!contractVars, Stati, StatusOf, WithKey, Known, Mapped
<1>a. CASE Next
 <2>0. Shape
   BY <1>a, StepShape DEF IInv
 <2>s. ASSUME entries' = entries
       PROVE  Stati' = Stati
   BY <2>s DEF Stati, StatusOf, WithKey, Known
 <2>1. CASE \E t \in Txns, k \in Keys : Opens(t, k)
   <3> PICK t \in Txns, k \in Keys : Opens(t, k)
     BY <2>1
   <3>1. Stati[k] = "NONE" /\ Stati' = [Stati EXCEPT ![k] = "PENDING"]
     BY OpenedStatus DEF IInv
   <3>2. entries'[t].key = k
     BY DEF Opens, IInv, TypeOK
   <3>3. Mapped' \in {Mapped, Mapped \cup {<<k, "created">>}}
     BY <2>0, <3>2, MappedGrows, LedgerConstants DEF Opens, IInv
   <3>4. Contract!Open(k)
     BY <3>1, <3>3 DEF Contract!Open, Contract!Tell
   <3> QED
     BY <3>4 DEF Contract!Next
 <2>2. CASE \E t \in Txns : Finds(t)
   <3> PICK t \in Txns : Finds(t)
     BY <2>2
   <3> DEFINE k == entries[t].key
   <3>1. entries' = entries /\ k \in Keys /\ entries[t].status # "NONE"
     BY DEF Finds, Known, IInv, TypeOK, Entry
   <3>2. Stati[k] # "NONE"
     BY <3>1, StatusOfEntry DEF Finds, IInv, Stati
   <3>3. Mapped' = Mapped \cup {<<k, "existing">>}
     BY <2>0, <3>1, MappedGrows, LedgerConstants DEF Finds, IInv
   <3>4. Contract!Find(k)
     BY <2>s, <3>1, <3>2, <3>3 DEF Contract!Find
   <3> QED
     BY <3>1, <3>4 DEF Contract!Next
 <2>3. CASE \E t \in Txns, to \in Decisions : Decides(t, to)
   <3> PICK t \in Txns, to \in Decisions : Decides(t, to)
     BY <2>3
   <3> DEFINE k == entries[t].key
   <3>1. /\ k \in Keys /\ entries'[t].key = k
         /\ Stati[k] = "PENDING"
         /\ Stati' = [Stati EXCEPT ![k] = to]
     BY DecidedStatus DEF IInv, Decides
   <3>2. Mapped' \in {Mapped, Mapped \cup {<<k, to>>}}
     BY <2>0, <3>1, MappedGrows, LedgerConstants DEF Decides, IInv
   <3>3. Contract!Decide(k, to)
     BY <3>1, <3>2 DEF Contract!Decide, Contract!Tell
   <3> QED
     BY <3>1, <3>3 DEF Contract!Next
 <2>4. CASE \E t \in Txns \cup {Foreign}, to \in Decisions : Judges(t, to)
   <3> PICK t \in Txns \cup {Foreign}, to \in Decisions : Judges(t, to)
     BY <2>4
   <3>0. entries' = entries
     BY DEF Judges
   <3>1. CASE t = Foreign
     <4>1. Mapped' = Mapped
       BY <3>0, <3>1 DEF Judges, Mapped
     <4> QED
       BY <2>s, <3>0, <4>1 DEF Contract!contractVars
   <3>2. CASE t # Foreign
     <4> DEFINE k == entries[t].key
     <4>1. /\ t \in Txns /\ t \in Known
           /\ entries[t] \in Entry /\ entries[t] # NoEntry
       BY <3>2 DEF Judges, Known, IInv, TypeOK
     <4>2. k \in Keys /\ entries[t].status \in Decisions
       BY <4>1 DEF Judges, IsPending, Entry
     <4>3. Stati[k] = entries[t].status
       BY <4>1, <4>2, StatusOfEntry DEF IInv, Stati
     <4>4. Mapped' = Mapped \cup {<<k, Verdict(t, to)>>}
       BY <2>0, <3>0, <3>2, <4>1, MappedGrows DEF Judges, IInv
     <4>5. CASE entries[t].status = to
       <5>1. Contract!Repeat(k, to)
         BY <2>s, <3>0, <4>1, <4>3, <4>4, <4>5 DEF Contract!Repeat, Verdict
       <5> QED
         BY <4>2, <5>1 DEF Contract!Next
     <4>6. CASE entries[t].status # to
       <5>1. Contract!Refuse(k, to)
         BY <2>s, <3>0, <4>1, <4>2, <4>3, <4>4, <4>6 DEF Contract!Refuse, Verdict
       <5> QED
         BY <4>2, <5>1 DEF Contract!Next
     <4> QED
       BY <4>5, <4>6
   <3> QED
     BY <3>1, <3>2
 <2>5. CASE Silent
   <3>1. Mapped' = Mapped
     BY <2>5 DEF Silent, Mapped
   <3> QED
     BY <2>5, <2>s, <3>1 DEF Silent, Contract!contractVars
 <2> QED
   BY <2>0, <2>1, <2>2, <2>3, <2>4, <2>5 DEF Shape
<1> QED
  BY <1>0, <1>a

\* The ledger on its faulty store implements the atomic contract that the
\* modules of the money path rely on.
THEOREM LedgerImplementsContract == Spec => ImplementsContract
<1>1. Init => Contract!Init
  BY ContractInit
<1>2. IInv /\ IInv' /\ [Next]_vars => [Contract!Next]_Contract!contractVars
  BY ContractStep
<1> QED
  BY <1>1, <1>2, InitInvariant, StepInvariant, PTL
     DEF Spec, ImplementsContract, Contract!Spec
=============================================================================
