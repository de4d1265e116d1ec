--------------------------- MODULE VerificationProofs ---------------------------
(***************************************************************************)
(* Proofs about Verification, for any number of processes, rounds and      *)
(* instants, and any capacity of the channel of RoundManager.              *)
(*                                                                         *)
(* The documents are in the order of their processes (DocsInOrder), so the *)
(* oldest announcement of a number is by the process of the round or by an *)
(* earlier one; and a round that was announced has its announcement ahead  *)
(* of its end, in the collection or in the channel, unless it is lost      *)
(* (Announced): so whoever finds the end finds an announcement.            *)
(***************************************************************************)
EXTENDS Verification, WellFoundedInduction, TLAPS

\* The announcement of r is in docs, or gone.
Shown(r) ==
  r \in lost \/ \E i \in DOMAIN docs : docs[i].type = "ROUND_START" /\ docs[i].round = r

RoundKnows ==
  /\ current # NoRound => current.id = nextRound
  /\ sent => current # NoRound /\ current.state \in {"CRASHED", "SETTLED"}

ChannelKnows ==
  \A i \in DOMAIN channel : channel[i].round[1] = process /\ channel[i].round[2] <= nextRound

DocsInOrder ==
  /\ \A i \in DOMAIN docs : docs[i].round[1] <= process
  /\ \A i, j \in DOMAIN docs : i <= j => docs[i].round[1] <= docs[j].round[1]

InChannel(r, i) == \E j \in DOMAIN channel : j < i /\ channel[j] = [type |-> "ROUND_START", round |-> r]

Announced ==
  /\ \A i \in DOMAIN docs : docs[i].type = "CRASH" => Shown(docs[i].round)
  /\ \A i \in DOMAIN channel : channel[i].type = "CRASH" =>
       Shown(channel[i].round) \/ InChannel(channel[i].round, i)
  /\ current # NoRound /\ current.state # "CREATED" =>
       Shown(This) \/ InChannel(This, Len(channel) + 1)
  /\ request.step = "crash_read" => Shown(request.crash)

IInv ==
  /\ VerificationTypeOK /\ StampsFollowLife /\ RoundKnows /\ ChannelKnows
  /\ DocsInOrder /\ Announced /\ NoEarlyReveal /\ HonestVerifies

-----------------------------------------------------------------------------
(* Rounds and sequences.                                                   *)

LEMMA Ranks ==
  /\ Rank("CREATED") = 1 /\ Rank("BETTING_OPEN") = 2 /\ Rank("BETTING_CLOSED") = 3
  /\ Rank("RUNNING") = 4 /\ Rank("CRASHED") = 5 /\ Rank("SETTLED") = 6
  BY DEF Rank

LEMMA LeastExists ==
  ASSUME NEW S \in SUBSET Nat, S # {}
  PROVE  \E i \in S : \A j \in S : i <= j
<1>1. \A R, N, X : IsWellFoundedOn(R, N) /\ X \subseteq N /\ X # {} =>
                     \E x \in X : \A y \in X : ~ (<<y, x>> \in R)
  BY WFMin
<1>2. \E x \in S : \A y \in S : ~ (<<y, x>> \in OpToRel(<, Nat))
  BY NatLessThanWellFounded, <1>1
<1>3. \A x, y \in S : y < x => <<y, x>> \in OpToRel(<, Nat)
  BY DEF OpToRel
<1>4. \E x \in S : \A y \in S : ~ (y < x)
  BY <1>2, <1>3, Zenon
<1> QED
  BY <1>4

LEMMA AppendFacts ==
  ASSUME NEW T, NEW s \in Seq(T), NEW e \in T, NEW t, t = Append(s, e)
  PROVE  /\ t \in Seq(T) /\ Len(t) = Len(s) + 1 /\ Len(s) \in Nat
         /\ DOMAIN s = 1..Len(s) /\ DOMAIN t = 1..(Len(s) + 1)
         /\ \A i \in DOMAIN s : t[i] = s[i]
         /\ t[Len(s) + 1] = e
  OBVIOUS

LEMMA TailFacts ==
  ASSUME NEW T, NEW s \in Seq(T), s # <<>>, NEW t, t = Tail(s)
  PROVE  /\ t \in Seq(T) /\ Len(t) = Len(s) - 1 /\ Len(s) \in Nat \ {0}
         /\ DOMAIN s = 1..Len(s) /\ DOMAIN t = 1..(Len(s) - 1)
         /\ \A i \in DOMAIN t : t[i] = s[i + 1]
         /\ Head(s) = s[1] /\ Head(s) \in T
  OBVIOUS

LEMMA DocFacts ==
  /\ \A r \in Rounds : r[1] \in 1..MaxProcesses /\ r[2] \in 1..MaxRounds /\ r = <<r[1], r[2]>>
                       /\ Number(r) = r[2] /\ r # NoHash
  /\ \A d \in Doc : d.round \in Rounds /\ d.type \in {"ROUND_START", "CRASH"}
  BY NoHashAssumption DEF Rounds, Doc, Number

\* The round of a step of RoundManager.
LEMMA RoundTypes ==
  ASSUME TypeOK, current # NoRound
  PROVE  /\ current \in Round /\ current.id \in 1..MaxRounds /\ current.state \in States
         /\ current.at \in [States -> Times]
  BY DEF TypeOK, Round

LEMMA PublishTypes ==
  ASSUME TypeOK, NEW id \in 1..MaxRounds, NEW state \in States, Publish(id, state)
  PROVE  events' \in Seq(RoundEvent) /\ Len(events') <= EventBuffer
<1>1. [id |-> id, state |-> state] \in RoundEvent
  BY DEF RoundEvent
<1> QED
  BY <1>1, RoundConstants DEF Publish, TypeOK

-----------------------------------------------------------------------------
(* The rounds.                                                             *)

\* What a step of the round manager does to its variables.
LEMMA CreateFacts ==
  ASSUME TypeOK, StampsFollowLife, NEW now \in Times, CreateRound(now)
  PROVE  /\ TypeOK' /\ StampsFollowLife'
         /\ nextRound' = nextRound + 1 /\ nextRound \in Nat
         /\ current' # NoRound /\ current'.id = nextRound + 1 /\ current'.state = "CREATED"
<1>1. /\ nextRound \in Nat /\ nextRound + 1 \in 1..MaxRounds /\ now # 0
      /\ nextRound' = nextRound + 1
  BY RoundConstants DEF CreateRound, CanCreateRound, TypeOK
<1>2. [s \in States |-> IF s = "CREATED" THEN now ELSE 0] \in [States -> Times]
  BY RoundConstants DEF Times
<1>3. current' \in Round
  BY <1>1, <1>2 DEF CreateRound, Round, States
<1>4. TypeOK'
  BY <1>1, <1>3, PublishTypes DEF CreateRound, TypeOK, States
<1>5. StampsFollowLife'
  BY <1>1, Ranks DEF CreateRound, StampsFollowLife, States, Times
<1> QED
  BY <1>1, <1>3, <1>4, <1>5, NoRoundAssumption DEF CreateRound

LEMMA MoveFacts ==
  ASSUME TypeOK, StampsFollowLife, NEW now \in Times, NEW from \in States, NEW to \in States,
         Rank(to) = Rank(from) + 1, Transition(from, to, now)
  PROVE  /\ TypeOK' /\ StampsFollowLife' /\ UNCHANGED nextRound
         /\ current # NoRound /\ current.state = from
         /\ current' # NoRound /\ current'.id = current.id /\ current'.state = to
<1>1. /\ current # NoRound /\ current.state = from /\ now # 0 /\ ValidTimestamp(now)
      /\ current' = [id |-> current.id, state |-> to, at |-> [current.at EXCEPT ![to] = now]]
      /\ UNCHANGED nextRound /\ Publish(current.id, to)
  BY DEF Transition, CanMove
<1>2. /\ current.id \in 1..MaxRounds /\ current.at \in [States -> Times]
  BY <1>1, RoundTypes
<1>3. current' \in Round
  BY <1>1, <1>2 DEF Round
<1>4. TypeOK'
  BY <1>1, <1>2, <1>3, PublishTypes DEF TypeOK
<1>5. StampsFollowLife'
  <2>1. \A s \in States : Rank(s) \in Nat /\ (Rank(s) = Rank(to) => s = to)
    BY Ranks DEF States
  <2>2. \A s \in States : current.at[s] \in Nat /\ current.at[s] <= now
    BY <1>1, <1>2 DEF ValidTimestamp, Times
  <2>3. /\ current'.state = to /\ current'.at[to] = now
        /\ \A s \in States \ {to} : current'.at[s] = current.at[s]
    BY <1>1, <1>2
  <2>4. /\ \A s \in States : current.at[s] # 0 <=> Rank(s) <= Rank(from)
        /\ \A s, t \in States : Rank(s) <= Rank(t) /\ Rank(t) <= Rank(from)
                                  => current.at[s] <= current.at[t]
    BY <1>1 DEF StampsFollowLife
  <2>5. \A s \in States \ {to} : Rank(s) <= Rank(to) <=> Rank(s) <= Rank(from)
    BY <2>1
  <2>6. \A s \in States : current'.at[s] # 0 <=> Rank(s) <= Rank(to)
    BY <1>1, <2>1, <2>3, <2>4, <2>5
  <2>7. ASSUME NEW s \in States, NEW t \in States, Rank(s) <= Rank(t), Rank(t) <= Rank(to)
        PROVE  current'.at[s] <= current'.at[t]
    <3>1. CASE t = to
      <4>1. now \in Nat
        BY DEF Times
      <4> QED
        BY <2>2, <2>3, <3>1, <4>1
    <3>2. CASE t # to
      <4>1. Rank(t) <= Rank(from) /\ s # to
        BY <2>1, <2>5, <2>7, <3>2
      <4> QED
        BY <2>3, <2>4, <2>7, <3>2, <4>1
    <3> QED
      BY <3>1, <3>2
  <2> QED
    BY <2>3, <2>6, <2>7 DEF StampsFollowLife
<1> QED
  BY <1>1, <1>3, <1>4, <1>5, NoRoundAssumption

-----------------------------------------------------------------------------
(* The steps.                                                              *)

\* The variables of a process that starts.
LEMMA EmptyFacts ==
  /\ <<>> \in Seq(Doc) /\ <<>> \in Seq(RoundEvent)
  /\ Len(<<>>) <= EventBuffer /\ DOMAIN <<>> = {}
  /\ Idle \in Request /\ 0 \in 0..MaxRounds /\ 1 \in 1..MaxProcesses
<1>1. Len(<<>>) = 0 /\ DOMAIN <<>> = {}
  OBVIOUS
<1>2. <<>> \in Seq(Doc) /\ <<>> \in Seq(RoundEvent)
  OBVIOUS
<1> QED
  BY <1>1, <1>2, RoundConstants, VerificationConstants DEF Request

LEMMA InitInv == VerificationInit => IInv
<1> SUFFICES ASSUME VerificationInit PROVE IInv
  OBVIOUS
<1>1. VerificationTypeOK
  BY EmptyFacts DEF VerificationInit, Init, VerificationTypeOK, TypeOK
<1>2. DOMAIN docs = {} /\ DOMAIN channel = {} /\ current = NoRound /\ request = Idle /\ ~sent
  BY EmptyFacts DEF VerificationInit, Init
<1> QED
  BY <1>1, <1>2
  DEF IInv, StampsFollowLife, RoundKnows, ChannelKnows, DocsInOrder, Announced, NoEarlyReveal,
      HonestVerifies, Idle

\* The elements of the two sequences, and the current round.
LEMMA Elements ==
  ASSUME IInv
  PROVE  /\ \A i \in DOMAIN docs : docs[i] \in Doc /\ docs[i].round \in Rounds
         /\ \A i \in DOMAIN channel : channel[i] \in Doc /\ channel[i].round \in Rounds
         /\ DOMAIN docs = 1..Len(docs) /\ Len(docs) \in Nat
         /\ DOMAIN channel = 1..Len(channel) /\ Len(channel) \in Nat
         /\ process \in Nat /\ nextRound \in Nat
         /\ current # NoRound =>
              /\ This \in Rounds /\ This[1] = process /\ This[2] = nextRound
              /\ current.id = nextRound
<1>1. docs \in Seq(Doc) /\ channel \in Seq(Doc) /\ process \in 1..MaxProcesses
      /\ nextRound \in 0..MaxRounds
  BY DEF IInv, VerificationTypeOK, TypeOK
<1>2. current # NoRound => current.id \in 1..MaxRounds /\ current.id = nextRound
  BY RoundTypes DEF IInv, VerificationTypeOK, RoundKnows
<1> QED
  BY <1>1, <1>2, DocFacts, RoundConstants, VerificationConstants DEF This, Rounds

\* What was over stays over, while the process lives.
LEMMA OverStays ==
  ASSUME IInv, process' = process, nextRound <= nextRound', nextRound' \in Nat,
         current # NoRound /\ nextRound' = nextRound =>
           /\ current' # NoRound /\ current'.id = current.id
           /\ current.state \in {"CRASHED", "SETTLED"} => current'.state \in {"CRASHED", "SETTLED"},
         NEW r \in Rounds, Over(r)
  PROVE  Over(r)'
<1>1. Number(r) \in Nat /\ Number(r)' = Number(r)
  BY DocFacts, RoundConstants DEF Number
<1>2. CASE r[1] < process \/ Number(r) < nextRound
  BY <1>1, <1>2, Elements DEF Over
<1>3. CASE current # NoRound /\ r = This /\ current.state \in {"CRASHED", "SETTLED"}
  <2>1. Number(r) = nextRound
    BY <1>3, Elements DEF Number
  <2>2. CASE nextRound' = nextRound
    BY <1>3, <2>2 DEF Over, This
  <2>3. CASE nextRound' # nextRound
    BY <1>1, <2>1, <2>3, Elements DEF Over
  <2> QED
    BY <2>2, <2>3
<1> QED
  BY <1>2, <1>3 DEF Over

\* A new round, or a round that moves on: the publications are left alone.
LEMMA RoundInv ==
  ASSUME IInv, UNCHANGED <<process, docs, request, channel, lost>>,
         TypeOK', StampsFollowLife', RoundKnows', sent' \in BOOLEAN,
         nextRound <= nextRound', nextRound' \in Nat,
         current # NoRound /\ nextRound' = nextRound =>
           /\ current' # NoRound /\ current'.id = current.id
           /\ current.state \in {"CRASHED", "SETTLED"} => current'.state \in {"CRASHED", "SETTLED"},
         \/ current'.state = "CREATED"
         \/ current # NoRound /\ current.state # "CREATED" /\ current'.id = current.id
  PROVE  IInv'
<1>1. VerificationTypeOK'
  BY DEF IInv, VerificationTypeOK
<1>2. ChannelKnows'
  BY Elements, DocFacts, RoundConstants DEF IInv, ChannelKnows
<1>3. Announced'
  BY DEF IInv, Announced, Shown, InChannel, This
<1>4. NoEarlyReveal'
  <2>1. request # Idle => request.crash \in Rounds
    BY DEF IInv, VerificationTypeOK, Request
  <2> QED
    BY <2>1, OverStays, Elements DEF IInv, NoEarlyReveal
<1> QED
  BY <1>1, <1>2, <1>3, <1>4 DEF IInv, DocsInOrder, HonestVerifies

LEMMA OpenRoundInv ==
  ASSUME IInv, NEW now \in Times, OpenRound(now)
  PROVE  IInv'
<1>1. /\ TypeOK' /\ StampsFollowLife' /\ nextRound' = nextRound + 1 /\ nextRound \in Nat
      /\ current' # NoRound /\ current'.id = nextRound + 1 /\ current'.state = "CREATED"
  BY CreateFacts DEF OpenRound, IInv, VerificationTypeOK
<1>2. UNCHANGED <<process, docs, request, channel, lost>> /\ sent' = FALSE
  BY DEF OpenRound, PublicUnchanged
<1>3. RoundKnows'
  BY <1>1, <1>2 DEF RoundKnows
<1>4. nextRound <= nextRound' /\ nextRound' \in Nat /\ nextRound' # nextRound
  BY <1>1
<1>5. sent' \in BOOLEAN
  BY <1>2
<1> QED
  BY <1>1, <1>2, <1>3, <1>4, <1>5, RoundInv

LEMMA PlayInv ==
  ASSUME IInv, NEW now \in Times, Play(now)
  PROVE  IInv'
<1>1. UNCHANGED <<process, docs, request, channel, lost, sent>>
  BY DEF Play, PublicUnchanged
<1>2. /\ TypeOK' /\ StampsFollowLife' /\ UNCHANGED nextRound
      /\ current # NoRound /\ current' # NoRound /\ current'.id = current.id
      /\ \/ current.state \in {"BETTING_OPEN", "BETTING_CLOSED"}
         \/ current.state = "RUNNING" /\ current'.state = "CRASHED"
         \/ current.state = "CRASHED" /\ current'.state = "SETTLED"
  BY MoveFacts, Ranks
  DEF Play, CloseBetting, Start, Crash, Settle, IInv, VerificationTypeOK, States
<1>3. RoundKnows'
  BY <1>1, <1>2 DEF IInv, RoundKnows
<1>4. nextRound \in Nat /\ sent' \in BOOLEAN
  BY <1>1, Elements DEF IInv, VerificationTypeOK
<1> QED
  BY <1>1, <1>2, <1>3, <1>4, RoundInv

\* An event of the current round enters the channel, or is dropped.
LEMMA OpenBetsInv ==
  ASSUME IInv, NEW now \in Times, OpenBets(now)
  PROVE  IInv'
<1>1. /\ TypeOK' /\ StampsFollowLife' /\ UNCHANGED nextRound
      /\ current # NoRound /\ current.state = "CREATED"
      /\ current' # NoRound /\ current'.id = current.id /\ current'.state = "BETTING_OPEN"
  BY MoveFacts, Ranks DEF OpenBets, OpenBetting, IInv, VerificationTypeOK, States
<1>2. UNCHANGED <<process, docs, request, sent>> /\ This' = This /\ This \in Rounds
      /\ ~sent
  BY <1>1, Elements DEF OpenBets, PublicUnchanged, This, IInv, RoundKnows
<1> DEFINE e == [type |-> "ROUND_START", round |-> This]
<1>3. e \in Doc
  BY <1>2 DEF Doc
<1>4. RoundKnows' /\ DocsInOrder'
  BY <1>1, <1>2 DEF IInv, RoundKnows, DocsInOrder
<1>5. \A r \in Rounds : Over(r) => Over(r)'
  BY <1>1, <1>2, Elements, OverStays
<1>6. request # Idle => request.crash \in Rounds
  BY DEF IInv, VerificationTypeOK, Request
<1>7. CASE channel' = Append(channel, e) /\ UNCHANGED lost
  <2>1. /\ channel' \in Seq(Doc) /\ Len(channel') = Len(channel) + 1 /\ Len(channel) \in Nat
        /\ DOMAIN channel = 1..Len(channel) /\ DOMAIN channel' = 1..(Len(channel) + 1)
        /\ \A i \in DOMAIN channel : channel'[i] = channel[i]
        /\ channel'[Len(channel) + 1] = e
    BY <1>3, <1>7, AppendFacts DEF IInv, VerificationTypeOK
  <2>2. VerificationTypeOK'
    BY <1>1, <1>2, <1>7, <2>1 DEF IInv, VerificationTypeOK
  <2>3. ChannelKnows'
    BY <1>1, <1>2, <2>1, Elements DEF IInv, ChannelKnows
  <2>4. \A r, i : InChannel(r, i) => InChannel(r, i)'
    BY <2>1 DEF InChannel
  <2>5. InChannel(This, Len(channel) + 1)'
    BY <1>2, <2>1 DEF InChannel
  <2>6. Announced'
    BY <1>2, <1>7, <2>1, <2>4, <2>5 DEF IInv, Announced, Shown
  <2>7. NoEarlyReveal'
    BY <1>2, <1>5, <1>6, <2>1, Elements DEF IInv, NoEarlyReveal
  <2> QED
    BY <1>1, <1>2, <1>4, <1>7, <2>2, <2>3, <2>6, <2>7 DEF IInv, HonestVerifies
<1>8. CASE lost' = lost \cup {This} /\ UNCHANGED channel
  <2>1. VerificationTypeOK'
    BY <1>1, <1>2, <1>8 DEF IInv, VerificationTypeOK
  <2>2. Announced'
    BY <1>2, <1>8 DEF IInv, Announced, Shown, InChannel
  <2>3. NoEarlyReveal'
    BY <1>2, <1>5, <1>6, <1>8, Elements DEF IInv, NoEarlyReveal
  <2> QED
    BY <1>1, <1>2, <1>4, <1>8, <2>1, <2>2, <2>3 DEF IInv, HonestVerifies, ChannelKnows
<1> QED
  BY <1>7, <1>8 DEF OpenBets

LEMMA SendCrashInv ==
  ASSUME IInv, SendCrash
  PROVE  IInv'
<1>1. /\ current # NoRound /\ current.state = "CRASHED" /\ sent' = TRUE
      /\ UNCHANGED <<current, nextRound, events, process, docs, request, lost>>
      /\ This' = This /\ This \in Rounds
  BY Elements DEF SendCrash, CanReveal, PublicUnchanged, rmVars, This
<1> DEFINE e == [type |-> "CRASH", round |-> This]
<1>2. e \in Doc /\ channel' = Append(channel, e)
  BY <1>1 DEF Doc, SendCrash
<1>3. /\ channel' \in Seq(Doc) /\ Len(channel') = Len(channel) + 1 /\ Len(channel) \in Nat
      /\ DOMAIN channel = 1..Len(channel) /\ DOMAIN channel' = 1..(Len(channel) + 1)
      /\ \A i \in DOMAIN channel : channel'[i] = channel[i]
      /\ channel'[Len(channel) + 1] = e
  BY <1>2, AppendFacts DEF IInv, VerificationTypeOK
<1>4. VerificationTypeOK' /\ StampsFollowLife' /\ RoundKnows' /\ DocsInOrder' /\ HonestVerifies'
  BY <1>1, <1>3
  DEF IInv, VerificationTypeOK, TypeOK, StampsFollowLife, RoundKnows, DocsInOrder, HonestVerifies
<1>5. ChannelKnows'
  BY <1>1, <1>3, Elements DEF IInv, ChannelKnows
<1>6. \A r, i : InChannel(r, i) => InChannel(r, i)'
  BY <1>3 DEF InChannel
<1>7. Announced'
  <2>1. \A r : Shown(r)' <=> Shown(r)
    BY <1>1 DEF Shown
  <2>2. Shown(This) \/ InChannel(This, Len(channel) + 1)
    BY <1>1 DEF IInv, Announced
  <2>3. InChannel(This, Len(channel) + 1) => InChannel(This, Len(channel) + 1)'
    BY <1>1, <1>3 DEF InChannel
  <2>4. \A i \in DOMAIN channel' : channel'[i].type = "CRASH" =>
          Shown(channel[i].round)' \/ InChannel(channel[i].round, i)'
    <3> SUFFICES ASSUME NEW i \in DOMAIN channel', channel'[i].type = "CRASH"
                 PROVE  Shown(channel[i].round)' \/ InChannel(channel[i].round, i)'
      OBVIOUS
    <3>1. CASE i \in DOMAIN channel
      BY <1>3, <1>6, <2>1, <3>1 DEF IInv, Announced
    <3>2. CASE i = Len(channel) + 1
      <4>1. channel'[i].round = This
        BY <1>3, <3>2
      <4> QED
        BY <1>6, <2>1, <2>2, <3>2, <4>1
    <3> QED
      BY <1>3, <3>1, <3>2
  <2> QED
    BY <1>1, <2>1, <2>2, <2>3, <2>4 DEF IInv, Announced
<1>8. NoEarlyReveal'
  <2>1. \A r : Over(r)' <=> Over(r)
    BY <1>1 DEF Over, Number, This
  <2>2. Over(This)
    BY <1>1 DEF Over
  <2> QED
    BY <1>1, <1>3, <2>1, <2>2 DEF IInv, NoEarlyReveal
<1> QED
  BY <1>4, <1>5, <1>7, <1>8 DEF IInv

LEMMA RestartInv ==
  ASSUME IInv, Restart
  PROVE  IInv'
<1>1. /\ process' = process + 1 /\ process' \in 1..MaxProcesses
      /\ current' = NoRound /\ nextRound' = 0 /\ events' = <<>> /\ channel' = <<>>
      /\ sent' = FALSE /\ request' = Idle /\ docs' = docs /\ lost \subseteq lost'
  BY Elements, VerificationConstants DEF Restart, IInv, VerificationTypeOK
<1>2. lost' \subseteq Rounds
  BY Elements DEF Restart, IInv, VerificationTypeOK
<1>3. VerificationTypeOK'
  <2>1. docs \in Seq(Doc)
    BY DEF IInv, VerificationTypeOK
  <2> QED
    BY <1>1, <1>2, <2>1, EmptyFacts DEF VerificationTypeOK, TypeOK
<1>4. StampsFollowLife' /\ RoundKnows' /\ ChannelKnows' /\ HonestVerifies'
  BY <1>1 DEF StampsFollowLife, RoundKnows, ChannelKnows, HonestVerifies, Idle
<1>5. DocsInOrder'
  BY <1>1, Elements, DocFacts, VerificationConstants DEF IInv, DocsInOrder
<1>6. Announced'
  BY <1>1 DEF IInv, Announced, Shown, Idle
<1>7. NoEarlyReveal'
  <2>1. \A i \in DOMAIN docs : docs[i].round[1] < process'
    BY <1>1, Elements, DocFacts, VerificationConstants DEF IInv, DocsInOrder
  <2> QED
    BY <1>1, <2>1 DEF NoEarlyReveal, Over
<1> QED
  BY <1>3, <1>4, <1>5, <1>6, <1>7 DEF IInv

LEMMA ForwardInv ==
  ASSUME IInv, Forward
  PROVE  IInv'
<1> DEFINE d == Head(channel)
<1>1. /\ channel # <<>> /\ channel' = Tail(channel) /\ lost \subseteq lost'
      /\ UNCHANGED <<current, nextRound, events, process, sent, request>>
  BY DEF Forward, rmVars
<1>2. /\ channel' \in Seq(Doc) /\ Len(channel') = Len(channel) - 1 /\ Len(channel) \in Nat \ {0}
      /\ DOMAIN channel = 1..Len(channel) /\ DOMAIN channel' = 1..(Len(channel) - 1)
      /\ \A i \in DOMAIN channel' : channel'[i] = channel[i + 1]
      /\ d = channel[1] /\ d \in Doc
  BY <1>1, TailFacts DEF IInv, VerificationTypeOK
<1>3. d.round \in Rounds /\ d.type \in {"ROUND_START", "CRASH"}
  BY <1>2, DocFacts
<1>4. \/ docs' = Append(docs, d) /\ UNCHANGED lost
      \/ /\ docs' = docs /\ lost' \subseteq Rounds
         /\ d.type = "ROUND_START" => d.round \in lost'
  BY <1>3 DEF Forward, IInv, VerificationTypeOK
<1>5. /\ docs' \in Seq(Doc) /\ lost' \subseteq Rounds
      /\ \A i \in DOMAIN docs : i \in DOMAIN docs' /\ docs'[i] = docs[i]
      /\ \A i \in DOMAIN docs' \ DOMAIN docs : docs'[i] = d /\ i = Len(docs) + 1
      /\ DOMAIN docs = 1..Len(docs) /\ Len(docs) \in Nat
      /\ d.type = "ROUND_START" => \A r : r = d.round => Shown(r)'
  <2>1. CASE docs' = Append(docs, d) /\ UNCHANGED lost
    <3>1. /\ docs' \in Seq(Doc) /\ DOMAIN docs = 1..Len(docs) /\ Len(docs) \in Nat
          /\ DOMAIN docs' = 1..(Len(docs) + 1)
          /\ \A i \in DOMAIN docs : docs'[i] = docs[i]
          /\ docs'[Len(docs) + 1] = d
      BY <1>2, <2>1, AppendFacts DEF IInv, VerificationTypeOK
    <3>2. d.type = "ROUND_START" => \A r : r = d.round => Shown(r)'
      BY <3>1, <1>1, <1>2 DEF Shown
    <3> QED
      BY <2>1, <3>1, <3>2 DEF IInv, VerificationTypeOK
  <2>2. CASE docs' = docs /\ lost' \subseteq Rounds /\ (d.type = "ROUND_START" => d.round \in lost')
    BY <2>2, Elements DEF IInv, VerificationTypeOK, Shown
  <2> QED
    BY <1>4, <2>1, <2>2
<1>6. VerificationTypeOK' /\ StampsFollowLife' /\ RoundKnows' /\ HonestVerifies'
  BY <1>1, <1>2, <1>5
  DEF IInv, VerificationTypeOK, TypeOK, StampsFollowLife, RoundKnows, HonestVerifies
<1>7. ChannelKnows'
  BY <1>1, <1>2 DEF IInv, ChannelKnows
<1>8. d.round[1] = process
  BY <1>2 DEF IInv, ChannelKnows
<1>9. DocsInOrder'
  BY <1>1, <1>5, <1>8, Elements DEF IInv, DocsInOrder
<1>10. \A r : Shown(r) => Shown(r)'
  BY <1>1, <1>5 DEF Shown
<1>11. ASSUME NEW r, NEW i \in Nat, InChannel(r, i + 1), i + 1 <= Len(channel) + 1
       PROVE  Shown(r)' \/ InChannel(r, i)'
  <2>1. PICK j \in DOMAIN channel : j < i + 1 /\ channel[j] = [type |-> "ROUND_START", round |-> r]
    BY <1>11 DEF InChannel
  <2>2. CASE j = 1
    BY <1>2, <1>5, <2>1, <2>2
  <2>3. CASE j # 1
    <3>1. j - 1 \in DOMAIN channel' /\ j - 1 < i
          /\ channel'[j - 1] = [type |-> "ROUND_START", round |-> r]
      BY <1>2, <2>1, <2>3
    <3> QED
      BY <3>1 DEF InChannel
  <2> QED
    BY <2>2, <2>3
<1>12. Announced'
  <2>1. \A i \in DOMAIN docs' : docs'[i].type = "CRASH" => Shown(docs[i].round)'
    <3>1. d.type = "CRASH" => Shown(d.round)
      <4>1. 1 \in DOMAIN channel /\ \A r : ~InChannel(r, 1)
        BY <1>2 DEF InChannel
      <4> QED
        BY <1>2, <4>1 DEF IInv, Announced
    <3> QED
      BY <1>5, <1>10, <3>1 DEF IInv, Announced
  <2>2. \A i \in DOMAIN channel' : channel'[i].type = "CRASH" =>
          Shown(channel[i].round)' \/ InChannel(channel[i].round, i)'
    <3> SUFFICES ASSUME NEW i \in DOMAIN channel', channel'[i].type = "CRASH"
                 PROVE  Shown(channel[i].round)' \/ InChannel(channel[i].round, i)'
      OBVIOUS
    <3>1. /\ i \in Nat /\ i + 1 \in DOMAIN channel /\ i + 1 <= Len(channel) + 1
          /\ channel'[i] = channel[i + 1]
      BY <1>2
    <3>2. Shown(channel'[i].round) \/ InChannel(channel'[i].round, i + 1)
      BY <3>1 DEF IInv, Announced
    <3>3. InChannel(channel'[i].round, i + 1) =>
            Shown(channel[i].round)' \/ InChannel(channel[i].round, i)'
      BY <1>11, <3>1 DEF Shown, InChannel
    <3> QED
      BY <1>10, <3>2, <3>3 DEF Shown
  <2>3. current' # NoRound /\ current'.state # "CREATED" =>
          Shown(This)' \/ InChannel(This, Len(channel) + 1)'
    <3>1. This' = This
      BY <1>1 DEF This
    <3>2. current # NoRound /\ current.state # "CREATED" =>
            Shown(This) \/ InChannel(This, Len(channel) + 1)
      BY DEF IInv, Announced
    <3>3. InChannel(This, Len(channel) + 1) =>
            (\A r : r = This => Shown(r)') \/ \E j \in DOMAIN channel' : j < Len(channel)
                              /\ channel'[j] = [type |-> "ROUND_START", round |-> This]
      BY <1>2, <1>11, <3>1 DEF Shown, InChannel
    <3> QED
      BY <1>1, <1>2, <1>10, <3>1, <3>2, <3>3 DEF InChannel
  <2> QED
    BY <1>1, <1>2, <1>10, <2>1, <2>2, <2>3 DEF IInv, Announced, Shown, InChannel
<1>13. NoEarlyReveal'
  <2>1. \A r : Over(r)' <=> Over(r)
    BY <1>1 DEF Over, Number, This
  <2>2. d.type = "CRASH" => Over(d.round)
    BY <1>2 DEF IInv, NoEarlyReveal
  <2> QED
    BY <1>1, <1>2, <1>5, <2>1, <2>2 DEF IInv, NoEarlyReveal
<1> QED
  BY <1>6, <1>7, <1>9, <1>12, <1>13 DEF IInv

LEMMA EvictInv ==
  ASSUME IInv, Evict
  PROVE  IInv'
<1>1. /\ docs # <<>> /\ docs' = Tail(docs) /\ lost \subseteq lost'
      /\ UNCHANGED <<current, nextRound, events, process, channel, sent, request>>
  BY DEF Evict, rmVars
<1>2. /\ docs' \in Seq(Doc) /\ Len(docs) \in Nat \ {0}
      /\ DOMAIN docs = 1..Len(docs) /\ DOMAIN docs' = 1..(Len(docs) - 1)
      /\ \A i \in DOMAIN docs' : docs'[i] = docs[i + 1]
      /\ Head(docs) = docs[1] /\ Head(docs) \in Doc
  BY <1>1, TailFacts DEF IInv, VerificationTypeOK
<1>3. lost' \subseteq Rounds
  BY <1>2, DocFacts DEF Evict, IInv, VerificationTypeOK
<1>4. \A r : Shown(r) => Shown(r)'
  <2> SUFFICES ASSUME NEW r, NEW i \in DOMAIN docs, docs[i].type = "ROUND_START", docs[i].round = r
               PROVE  Shown(r)'
    BY <1>1 DEF Shown
  <2>1. CASE i = 1
    BY <1>2, <2>1 DEF Evict, Shown
  <2>2. CASE i # 1
    <3>1. i - 1 \in DOMAIN docs' /\ docs'[i - 1] = docs[i]
      BY <1>2, <2>2
    <3> QED
      BY <3>1 DEF Shown
  <2> QED
    BY <2>1, <2>2
<1>5. VerificationTypeOK' /\ StampsFollowLife' /\ RoundKnows' /\ ChannelKnows' /\ HonestVerifies'
  BY <1>1, <1>2, <1>3
  DEF IInv, VerificationTypeOK, TypeOK, StampsFollowLife, RoundKnows, ChannelKnows, HonestVerifies
<1>6. DocsInOrder'
  <2>1. \A i \in DOMAIN docs' : i + 1 \in DOMAIN docs /\ docs'[i] = docs[i + 1]
    BY <1>2
  <2>2. \A i, j \in DOMAIN docs' : i <= j => i + 1 <= j + 1
    BY <1>2
  <2> QED
    BY <1>1, <2>1, <2>2 DEF IInv, DocsInOrder
<1>7. \A i \in DOMAIN docs' : i + 1 \in DOMAIN docs
  BY <1>2
<1>8. Announced'
  BY <1>1, <1>2, <1>4, <1>7 DEF IInv, Announced, InChannel, This
<1>9. NoEarlyReveal'
  <2>1. \A r : Over(r)' <=> Over(r)
    BY <1>1 DEF Over, Number, This
  <2> QED
    BY <1>1, <1>2, <1>7, <2>1 DEF IInv, NoEarlyReveal
<1> QED
  BY <1>5, <1>6, <1>8, <1>9 DEF IInv

\* A read, which changes nothing but the request.
LEMMA ReadInv ==
  ASSUME IInv, VerifyUnchanged, request' \in Request, HonestVerifies',
         request' # Idle => Over(request'.crash),
         request'.step = "crash_read" => Shown(request'.crash)
  PROVE  IInv'
<1>1. UNCHANGED <<current, nextRound, events, process, channel, sent, docs, lost>>
  BY DEF VerifyUnchanged, rmVars
<1>2. VerificationTypeOK' /\ StampsFollowLife' /\ RoundKnows' /\ ChannelKnows' /\ DocsInOrder'
  BY <1>1
  DEF IInv, VerificationTypeOK, TypeOK, StampsFollowLife, RoundKnows, ChannelKnows, DocsInOrder
<1>3. Announced'
  BY <1>1 DEF IInv, Announced, Shown, InChannel, This
<1>4. NoEarlyReveal'
  BY <1>1 DEF IInv, NoEarlyReveal, Over, Number, This
<1> QED
  BY <1>2, <1>3, <1>4 DEF IInv

\* The oldest of the documents that match.
LEMMA OldestFacts ==
  ASSUME IInv, NEW type, NEW n, Found(type, n) # {}
  PROVE  \E i \in Found(type, n) :
           /\ Oldest(type, n) = docs[i].round
           /\ \A j \in Found(type, n) : i <= j
<1>1. Found(type, n) \in SUBSET Nat
  BY Elements DEF Found
<1>2. \E i \in Found(type, n) : \A j \in Found(type, n) : i <= j
  BY <1>1, LeastExists
<1> QED
  BY <1>2 DEF Oldest

LEMMA ReadCrashInv ==
  ASSUME IInv, NEW n \in 1..MaxRounds, ReadCrash(n)
  PROVE  IInv'
<1>1. CASE /\ Found("CRASH", n) # {}
           /\ request' = [step |-> "crash_read", crash |-> Oldest("CRASH", n)]
  <2>1. PICK i \in Found("CRASH", n) : Oldest("CRASH", n) = docs[i].round
    BY <1>1, OldestFacts
  <2>2. i \in DOMAIN docs /\ docs[i].type = "CRASH"
    BY DEF Found
  <2>3. /\ docs[i].round \in Rounds /\ Over(docs[i].round) /\ Shown(docs[i].round)
    BY <2>2, Elements DEF IInv, NoEarlyReveal, Announced
  <2>4. request'.step = "crash_read" /\ request'.crash = docs[i].round /\ request' \in Request
    BY <1>1, <2>1, <2>3 DEF Request
  <2>5. HonestVerifies'
    BY <2>4 DEF HonestVerifies
  <2> QED
    BY <2>3, <2>4, <2>5, ReadInv DEF ReadCrash
<1>2. CASE request' = Idle
  <2>1. request' \in Request /\ HonestVerifies' /\ request'.step # "crash_read"
    BY <1>2 DEF Request, HonestVerifies, Idle
  <2> QED
    BY <1>2, <2>1, ReadInv DEF ReadCrash
<1> QED
  BY <1>1, <1>2 DEF ReadCrash

LEMMA ReadStartInv ==
  ASSUME IInv, ReadStart
  PROVE  IInv'
<1> DEFINE r == request.crash
           n == Number(r)
<1>1. request.step = "crash_read" /\ r \in Rounds
  BY DEF ReadStart, IInv, VerificationTypeOK, Request, Idle
<1>2. Over(r) /\ Shown(r)
  BY <1>1 DEF IInv, NoEarlyReveal, Announced, Idle
<1>3. PICK failed \in BOOLEAN :
        request' = [step |-> "answered", crash |-> r,
                    hash |-> IF failed \/ Found("ROUND_START", n) = {} THEN NoHash
                             ELSE Oldest("ROUND_START", n),
                    failed |-> failed]
  BY DEF ReadStart
<1>4. Found("ROUND_START", n) # {} =>
        \E i \in Found("ROUND_START", n) :
          /\ Oldest("ROUND_START", n) = docs[i].round
          /\ \A j \in Found("ROUND_START", n) : i <= j
  BY OldestFacts
<1>5. \A i \in Found("ROUND_START", n) : docs[i].round \in Rounds /\ Number(docs[i].round) = n
  BY Elements DEF Found
<1>6. /\ request'.step = "answered" /\ request'.crash = r /\ request'.failed = failed
      /\ request'.hash = IF failed \/ Found("ROUND_START", n) = {} THEN NoHash
                         ELSE Oldest("ROUND_START", n)
  BY <1>3
<1>7. request' \in Request
  <2>1. request'.hash \in Rounds \cup {NoHash}
    BY <1>4, <1>5, <1>6
  <2> QED
    BY <1>1, <1>3, <1>6, <2>1 DEF Request
<1>8. HonestVerifies'
  <2> SUFFICES ASSUME request'.hash # r, r \notin lost, ~failed
               PROVE  request'.hash # NoHash /\ request'.hash[1] < r[1]
    BY <1>6 DEF HonestVerifies, ReadStart, VerifyUnchanged
  <2>1. PICK k \in DOMAIN docs : docs[k].type = "ROUND_START" /\ docs[k].round = r
    BY <1>2 DEF Shown
  <2>2. k \in Found("ROUND_START", n)
    BY <2>1 DEF Found
  <2>3. PICK i \in Found("ROUND_START", n) : Oldest("ROUND_START", n) = docs[i].round /\ i <= k
    BY <1>4, <2>2
  <2>4. request'.hash = docs[i].round /\ docs[i].round \in Rounds /\ Number(docs[i].round) = n
    BY <1>5, <1>6, <2>2, <2>3
  <2>5. docs[i].round[1] <= r[1]
    BY <2>1, <2>3 DEF IInv, DocsInOrder, Found
  <2>6. docs[i].round[1] # r[1]
    BY <1>1, <2>4, DocFacts DEF Number
  <2> QED
    BY <1>1, <2>4, <2>5, <2>6, DocFacts, VerificationConstants
<1> QED
  BY <1>2, <1>6, <1>7, <1>8, ReadInv DEF ReadStart

LEMMA StepInv == IInv /\ [VerificationNext]_verVars => IInv'
<1> SUFFICES ASSUME IInv, [VerificationNext]_verVars PROVE IInv'
  OBVIOUS
<1>1. ASSUME NEW now \in Times, OpenRound(now) \/ OpenBets(now) \/ Play(now) PROVE IInv'
  BY <1>1, OpenRoundInv, OpenBetsInv, PlayInv
<1>2. ASSUME SendCrash \/ Restart \/ Forward \/ Evict \/ ReadStart PROVE IInv'
  BY <1>2, SendCrashInv, RestartInv, ForwardInv, EvictInv, ReadStartInv
<1>3. ASSUME NEW n \in 1..MaxRounds, ReadCrash(n) PROVE IInv'
  BY <1>3, ReadCrashInv
<1>4. CASE UNCHANGED verVars
  BY <1>4 DEF verVars, rmVars, IInv, VerificationTypeOK, TypeOK, StampsFollowLife, RoundKnows,
     ChannelKnows, DocsInOrder, Announced, Shown, InChannel, This, NoEarlyReveal, Over, Number,
     HonestVerifies
<1> QED
  BY <1>1, <1>2, <1>3, <1>4 DEF VerificationNext

LEMMA Invariance == VerificationSpec => []IInv
  BY InitInv, StepInv, PTL DEF VerificationSpec

-----------------------------------------------------------------------------
\* The types of every reachable state.
THEOREM VerificationTypes == VerificationSpec => []VerificationTypeOK
<1>1. IInv => VerificationTypeOK
  BY DEF IInv
<1> QED
  BY <1>1, Invariance, PTL

\* Whatever times the engine passes, the stamps of a round tell its history.
THEOREM StampsTell == VerificationSpec => []StampsFollowLife
<1>1. IInv => StampsFollowLife
  BY DEF IInv
<1> QED
  BY <1>1, Invariance, PTL

\* No seed is published, under way or answered before its round has crashed.
THEOREM NothingRevealedEarly == VerificationSpec => []NoEarlyReveal
<1>1. IInv => NoEarlyReveal
  BY DEF IInv
<1> QED
  BY <1>1, Invariance, PTL

\* An honest round is denied only if its announcement is lost, could not be
\* read, or has that of an earlier process before it.
THEOREM HonestIsVerified == VerificationSpec => []HonestVerifies
<1>1. IInv => HonestVerifies
  BY DEF IInv
<1> QED
  BY <1>1, Invariance, PTL

\* Within a process the rounds only move forward.
THEOREM RoundsForward == VerificationSpec => ProcessMovesForward
<1>1. IInv /\ [VerificationNext]_verVars =>
        [process' = process =>
           /\ current # NoRound /\ current' # NoRound /\ current' # current
                => Before(current, current')
           /\ current = NoRound /\ current' # NoRound => nextRound < current'.id
           /\ nextRound <= nextRound']_verVars
  <2> SUFFICES ASSUME IInv, VerificationNext, process' = process
               PROVE  /\ current # NoRound /\ current' # NoRound /\ current' # current
                           => Before(current, current')
                      /\ current = NoRound /\ current' # NoRound => nextRound < current'.id
                      /\ nextRound <= nextRound'
    OBVIOUS
  <2>1. nextRound \in Nat /\ (current # NoRound => current.id = nextRound)
    BY Elements
  <2>2. ASSUME NEW now \in Times, OpenRound(now)
        PROVE  nextRound' = nextRound + 1 /\ current'.id = nextRound + 1
    BY <2>2, CreateFacts DEF OpenRound, IInv, VerificationTypeOK
  <2>3. ASSUME NEW now \in Times, OpenBets(now) \/ Play(now)
        PROVE  /\ UNCHANGED nextRound /\ current # NoRound /\ current'.id = current.id
               /\ Rank(current.state) < Rank(current'.state)
    BY <2>3, MoveFacts, Ranks
    DEF OpenBets, Play, OpenBetting, CloseBetting, Start, Crash, Settle, IInv, VerificationTypeOK,
        States
  <2>4. ASSUME SendCrash \/ Forward \/ Evict \/ ReadStart \/ \E n \in 1..MaxRounds : ReadCrash(n)
        PROVE  UNCHANGED <<current, nextRound>>
    BY <2>4 DEF SendCrash, Forward, Evict, ReadStart, ReadCrash, VerifyUnchanged, rmVars
  <2>5. ~Restart
    BY <2>1, Elements DEF Restart
  <2>6. CASE UNCHANGED <<current, nextRound>>
    BY <2>1, <2>6
  <2> QED
    BY <2>1, <2>2, <2>3, <2>4, <2>5, <2>6 DEF VerificationNext, Before
<1> QED
  BY <1>1, Invariance, PTL DEF VerificationSpec, ProcessMovesForward
=============================================================================
