------------------------------ MODULE LimitsProofs ------------------------------
(***************************************************************************)
(* Proofs about what the server bounds: the connections it serves          *)
(* (Connections, for any finite number of them and any number of players   *)
(* and places), and the entries a sweep takes up (Sweep, for any batch,    *)
(* any number of entries and of faults).                                   *)
(*                                                                         *)
(* The place of a connection is held by the handler of its upgrade, then   *)
(* by its reader, never by both (OneHolder): so the count is that of the   *)
(* connections one of them holds.  And of a player's connections at most   *)
(* one is both open and registered: the one the player is known by.        *)
(*                                                                         *)
(* A sweep goes through its list in order (InOrder) while the entries only *)
(* grow (Grown): more of them, older, each decided once.  A refund that it *)
(* finds before its debit is decided can only be one whose debit it has    *)
(* listed (DebitsListed), so has passed, so is excused.                    *)
(***************************************************************************)
EXTENDS Connections, Sweep, FiniteSetTheorems, SequenceTheorems, TLAPS

(***************************************************************************)
(* The connections.                                                        *)
(***************************************************************************)

Counted == {c \in Conns : Holds(c) \/ ~Reading(c, "off")}
Admitted == {c \in Conns : ~Reading(c, "off") \/ Upgrading(c, "upgrade")
                           \/ Upgrading(c, "register") \/ Upgrading(c, "start")}

OneHolder == \A c \in Conns : Holds(c) => Reading(c, "off")

\* ServedIsKnown, from the registration on.
RegisteredIsKnown ==
  \A c \in open : Upgrading(c, "start") \/ Reading(c, "read") \/ Reading(c, "serve")
    => clients[PlayerOf[c]] = c

IInv == TypeOK /\ OneHolder /\ CountExact /\ NeverOver /\ RegisteredIsKnown

-----------------------------------------------------------------------------
(* The sets that are counted.                                              *)

LEMMA SetsFinite ==
  /\ IsFiniteSet(Counted) /\ IsFiniteSet(Admitted)
  /\ Cardinality(Counted) \in Nat /\ Cardinality(Admitted) \in Nat
<1>1. Counted \subseteq Conns /\ Admitted \subseteq Conns
  BY DEF Counted, Admitted
<1> QED
  BY <1>1, FS_Subset, FS_CardinalityType, ConnectionConstants

LEMMA SetsFinite2 ==
  /\ IsFiniteSet(Counted') /\ IsFiniteSet(Admitted')
  /\ Cardinality(Counted') \in Nat /\ Cardinality(Admitted') \in Nat
<1>1. Counted' \subseteq Conns /\ Admitted' \subseteq Conns
  BY DEF Counted, Admitted
<1> QED
  BY <1>1, FS_Subset, FS_CardinalityType, ConnectionConstants

LEMMA Counts ==
  /\ CountExact <=> conns = Cardinality(Counted)
  /\ CountExact' <=> conns' = Cardinality(Counted')
  /\ NeverOver <=> Cardinality(Admitted) <= MaxConns
  /\ NeverOver' <=> Cardinality(Admitted') <= MaxConns
  BY DEF CountExact, NeverOver, Counted, Admitted

\* A step that takes no place and gives none back.
LEMMA SameCount ==
  ASSUME IInv, conns' = conns, Counted' = Counted, Admitted' \subseteq Admitted
  PROVE  CountExact' /\ NeverOver'
<1>1. Cardinality(Admitted') <= Cardinality(Admitted)
  BY SetsFinite, FS_Subset
<1> QED
  BY <1>1, SetsFinite, SetsFinite2, Counts, ConnectionConstants DEF IInv

\* A step that takes a place.
LEMMA OneMore ==
  ASSUME IInv, NEW c \in Conns, c \notin Counted, conns' = conns + 1,
         Counted' = Counted \cup {c},
         \/ Admitted' \subseteq Admitted
         \/ Admitted' \subseteq Counted' /\ conns' <= MaxConns
  PROVE  CountExact' /\ NeverOver'
<1>1. Cardinality(Counted') = Cardinality(Counted) + 1
  BY SetsFinite, FS_AddElement
<1>2. CountExact'
  BY <1>1, Counts DEF IInv
<1>3. CASE Admitted' \subseteq Admitted
  <2>1. Cardinality(Admitted') <= Cardinality(Admitted)
    BY <1>3, SetsFinite, FS_Subset
  <2> QED
    BY <1>2, <2>1, SetsFinite, SetsFinite2, Counts, ConnectionConstants DEF IInv
<1>4. CASE Admitted' \subseteq Counted' /\ conns' <= MaxConns
  <2>1. Cardinality(Admitted') <= Cardinality(Counted')
    BY <1>4, SetsFinite2, FS_Subset
  <2> QED
    BY <1>2, <1>4, <2>1, SetsFinite2, Counts, ConnectionConstants
<1> QED
  BY <1>3, <1>4

\* A step that gives a place back.
LEMMA OneLess ==
  ASSUME IInv, NEW c \in Counted, conns' = conns - 1,
         Counted' = Counted \ {c}, Admitted' \subseteq Admitted
  PROVE  CountExact' /\ NeverOver' /\ conns' \in Nat
<1>1. Cardinality(Counted') = Cardinality(Counted) - 1
  BY SetsFinite, FS_RemoveElement
<1>2. Cardinality(Admitted') <= Cardinality(Admitted)
  BY SetsFinite, FS_Subset
<1>3. CountExact' /\ conns' \in Nat
  BY <1>1, Counts, SetsFinite2 DEF IInv
<1> QED
  BY <1>2, <1>3, SetsFinite, SetsFinite2, Counts, ConnectionConstants DEF IInv

-----------------------------------------------------------------------------
LEMMA InitInv == Init => IInv
<1> SUFFICES ASSUME Init PROVE IInv
  OBVIOUS
<1>1. Counted = {} /\ Admitted = {}
  BY DEF Init, Counted, Admitted, Holds, Reading, Upgrading
<1>2. CountExact /\ NeverOver
  BY <1>1, Counts, FS_EmptySet, ConnectionConstants DEF Init
<1> QED
  BY <1>2, ConnectionConstants
  DEF Init, IInv, TypeOK, OneHolder, RegisteredIsKnown, Holds, Upgrading, Reading, UpgradeSteps,
      ReaderSteps, WriterSteps

\* acquire, the upgrade, register and the start of the pumps.
LEMMA UpgradeInv ==
  ASSUME IInv, NEW c \in Conns, Acquire(c) \/ Handshake(c)
  PROVE  IInv'
<1> USE DEF IInv
<1> DEFINE Rest == UNCHANGED <<readers, writers, clients, open>>
<1>1. CASE Acquire(c)
  <2>1. /\ upgrades[c] = "off" /\ readers[c] = "off"
        /\ upgrades' \in [Conns -> UpgradeSteps]
        /\ upgrades'[c] = IF conns' > MaxConns THEN "refused" ELSE "upgrade"
        /\ \A d \in Conns \ {c} : upgrades'[d] = upgrades[d]
        /\ conns' = conns + 1 /\ UNCHANGED <<clients, readers, writers, open, alive, done>>
    BY <1>1 DEF Acquire, Free, Upgrading, UpgradeTo, TypeOK, UpgradeSteps, sockets
  <2>2. c \notin Counted /\ Counted' = Counted \cup {c}
    BY <2>1 DEF Counted, Holds, Upgrading, Reading
  <2>3. \/ Admitted' \subseteq Admitted
        \/ Admitted' \subseteq Counted' /\ conns' <= MaxConns
    <3>1. CASE conns' > MaxConns
      BY <2>1, <3>1 DEF Admitted, Upgrading, Reading
    <3>2. CASE ~(conns' > MaxConns)
      BY <2>1, <3>2, ConnectionConstants DEF Admitted, Counted, Holds, Upgrading, Reading, TypeOK
    <3> QED
      BY <3>1, <3>2
  <2>4. CountExact' /\ NeverOver'
    BY <2>1, <2>2, <2>3, OneMore
  <2> QED
    BY <2>1, <2>4 DEF TypeOK, OneHolder, RegisteredIsKnown, Holds, Upgrading, Reading
<1>2. CASE GiveBack(c)
  <2>1. /\ upgrades[c] \in {"refused", "failed"} /\ conns' = conns - 1
        /\ upgrades' \in [Conns -> UpgradeSteps] /\ upgrades'[c] = "off"
        /\ \A d \in Conns \ {c} : upgrades'[d] = upgrades[d]
        /\ UNCHANGED <<clients, readers, writers, open, alive, done>>
    BY <1>2 DEF GiveBack, Upgrading, UpgradeTo, TypeOK, UpgradeSteps, sockets
  <2>2. c \in Counted /\ Counted' = Counted \ {c} /\ Admitted' \subseteq Admitted
    BY <2>1 DEF Counted, Admitted, OneHolder, Holds, Upgrading, Reading
  <2>3. CountExact' /\ NeverOver' /\ conns' \in Nat
    BY <2>1, <2>2, OneLess
  <2> QED
    BY <2>1, <2>3 DEF TypeOK, OneHolder, RegisteredIsKnown, Holds, Upgrading, Reading
<1>3. CASE Upgrade(c)
  <2>1. /\ upgrades[c] = "upgrade"
        /\ upgrades' \in [Conns -> UpgradeSteps] /\ upgrades'[c] \in {"failed", "register"}
        /\ \A d \in Conns \ {c} : upgrades'[d] = upgrades[d]
        /\ UNCHANGED <<conns, clients, readers, writers>>
        /\ open' \subseteq open \cup {c} /\ alive' \subseteq Conns /\ done' \subseteq Conns
    BY <1>3 DEF Upgrade, Upgrading, UpgradeTo, TypeOK, UpgradeSteps, sockets
  <2>2. Counted' = Counted /\ Admitted' \subseteq Admitted
    BY <2>1 DEF Counted, Admitted, Holds, Upgrading, Reading
  <2>3. CountExact' /\ NeverOver'
    BY <2>1, <2>2, SameCount
  <2>4. readers[c] = "off"
    BY <2>1 DEF OneHolder, Holds, Upgrading, Reading
  <2> QED
    BY <2>1, <2>3, <2>4 DEF TypeOK, OneHolder, RegisteredIsKnown, Holds, Upgrading, Reading
<1>4. CASE Register(c)
  <2>1. /\ upgrades[c] = "register"
        /\ upgrades' \in [Conns -> UpgradeSteps] /\ upgrades'[c] = "start"
        /\ \A d \in Conns \ {c} : upgrades'[d] = upgrades[d]
        /\ clients' = [clients EXCEPT ![PlayerOf[c]] = c]
        /\ open' = open \ {clients[PlayerOf[c]]}
        /\ UNCHANGED <<conns, readers, writers, alive, done>>
    BY <1>4 DEF Register, Upgrading, UpgradeTo, TypeOK, UpgradeSteps
  <2>2. Counted' = Counted /\ Admitted' \subseteq Admitted
    BY <2>1 DEF Counted, Admitted, Holds, Upgrading, Reading
  <2>3. CountExact' /\ NeverOver'
    BY <2>1, <2>2, SameCount
  <2>4. /\ clients' \in [Players -> Conns \cup {NoConn}]
        /\ \A p \in Players : clients'[p] # NoConn => PlayerOf[clients'[p]] = p
    BY <2>1, ConnectionConstants DEF TypeOK
  <2>5. RegisteredIsKnown'
    <3> SUFFICES ASSUME NEW d \in open',
                        (Upgrading(d, "start") \/ Reading(d, "read") \/ Reading(d, "serve"))'
                 PROVE  clients'[PlayerOf[d]] = d
      BY DEF RegisteredIsKnown
    <3>1. d \in Conns /\ d \in open /\ PlayerOf[d] \in Players /\ PlayerOf[c] \in Players
      BY <2>1, ConnectionConstants DEF TypeOK
    <3>2. CASE d = c
      BY <2>1, <3>1, <3>2 DEF TypeOK
    <3>3. CASE d # c
      <4>1. clients[PlayerOf[d]] = d
        BY <2>1, <3>1, <3>3 DEF RegisteredIsKnown, Upgrading, Reading
      <4>2. PlayerOf[d] # PlayerOf[c]
        BY <2>1, <4>1
      <4> QED
        BY <2>1, <3>1, <4>1, <4>2 DEF TypeOK
    <3> QED
      BY <3>2, <3>3
  <2> QED
    BY <2>1, <2>3, <2>4, <2>5 DEF TypeOK, OneHolder, Holds, Upgrading, Reading
<1>5. CASE StartPumps(c) \/ Greet(c)
  <2>1. /\ upgrades[c] = "start" \/ (upgrades[c] = "greet" /\ UNCHANGED <<readers, writers>>)
        /\ upgrades[c] = "start" =>
             /\ upgrades'[c] = "greet" /\ readers' = [readers EXCEPT ![c] = "read"]
             /\ writers' = [writers EXCEPT ![c] = "write"]
        /\ upgrades' \in [Conns -> UpgradeSteps] /\ upgrades'[c] \in {"off", "greet"}
        /\ \A d \in Conns \ {c} : upgrades'[d] = upgrades[d]
        /\ UNCHANGED <<conns, clients, open, alive, done>>
    BY <1>5 DEF StartPumps, Greet, Upgrading, UpgradeTo, TypeOK, UpgradeSteps, sockets
  <2>2. /\ readers' \in [Conns -> ReaderSteps] /\ writers' \in [Conns -> WriterSteps]
        /\ \A d \in Conns \ {c} : readers'[d] = readers[d]
        /\ upgrades[c] = "start" => readers'[c] = "read"
        /\ upgrades[c] = "greet" => readers'[c] = readers[c]
    BY <2>1 DEF TypeOK, ReaderSteps, WriterSteps
  <2>3. Counted' = Counted /\ Admitted' \subseteq Admitted
    BY <2>1, <2>2 DEF Counted, Admitted, Holds, Upgrading, Reading
  <2>4. CountExact' /\ NeverOver'
    BY <2>1, <2>3, SameCount
  <2> QED
    BY <2>1, <2>2, <2>4 DEF TypeOK, OneHolder, RegisteredIsKnown, Holds, Upgrading, Reading
<1> QED
  BY <1>1, <1>2, <1>3, <1>4, <1>5 DEF Handshake

LEMMA ReaderInv ==
  ASSUME IInv, NEW c \in Conns, Read(c) \/ Reader(c)
  PROVE  IInv'
<1> USE DEF IInv
<1>1. UNCHANGED <<upgrades, writers, alive>>
  BY DEF Read, Reader, Served, ReadFails, Unregister, End, CloseSocket, Release, sockets
<1>2. /\ readers[c] \in ReaderSteps \ {"off"}
      /\ readers' \in [Conns -> ReaderSteps]
      /\ \A d \in Conns \ {c} : readers'[d] = readers[d]
      /\ readers'[c] = "read" => readers[c] = "serve"
      /\ readers'[c] = "serve" => readers[c] = "read"
      /\ readers'[c] = "off" <=> readers[c] = "release"
  BY DEF Read, Reader, Served, ReadFails, Unregister, End, CloseSocket, Release, Reading, ReaderTo,
         TypeOK, ReaderSteps
<1>3. upgrades[c] \in {"off", "greet"}
  BY <1>2 DEF OneHolder, Holds, Upgrading, Reading, TypeOK, UpgradeSteps
<1>4. /\ open' \subseteq open /\ done' \subseteq Conns
      /\ \/ UNCHANGED clients
         \/ /\ readers'[c] = "end" /\ clients[PlayerOf[c]] = c
            /\ clients' = [clients EXCEPT ![PlayerOf[c]] = NoConn]
  BY DEF Read, Reader, Served, ReadFails, Unregister, End, CloseSocket, Release, Reading, ReaderTo,
         TypeOK, sockets
<1>5. CountExact' /\ NeverOver' /\ conns' \in Nat
  <2>1. CASE readers[c] = "release"
    <3>1. conns' = conns - 1
      BY <2>1 DEF Read, Reader, Served, ReadFails, Unregister, End, CloseSocket, Release, Reading
    <3>2. c \in Counted /\ Counted' = Counted \ {c} /\ Admitted' \subseteq Admitted
      BY <1>1, <1>2, <1>3, <2>1 DEF Counted, Admitted, Holds, Upgrading, Reading
    <3> QED
      BY <3>1, <3>2, OneLess
  <2>2. CASE readers[c] # "release"
    <3>1. conns' = conns
      BY <2>2 DEF Read, Reader, Served, ReadFails, Unregister, End, CloseSocket, Release, Reading
    <3>2. Counted' = Counted /\ Admitted' \subseteq Admitted
      BY <1>1, <1>2, <1>3, <2>2 DEF Counted, Admitted, Holds, Upgrading, Reading
    <3> QED
      BY <3>1, <3>2, SameCount DEF TypeOK
  <2> QED
    BY <2>1, <2>2
<1>6. RegisteredIsKnown'
  <2> SUFFICES ASSUME NEW d \in open',
                      (Upgrading(d, "start") \/ Reading(d, "read") \/ Reading(d, "serve"))'
               PROVE  clients'[PlayerOf[d]] = d
    BY DEF RegisteredIsKnown
  <2>1. d \in Conns /\ d \in open /\ PlayerOf[d] \in Players
    BY <1>4, ConnectionConstants DEF TypeOK
  <2>2. clients[PlayerOf[d]] = d
    BY <1>1, <1>2, <2>1 DEF RegisteredIsKnown, Upgrading, Reading
  <2>3. clients' # clients => d # c
    BY <1>1, <1>3, <1>4 DEF Upgrading, Reading
  <2> QED
    BY <1>4, <2>1, <2>2, <2>3, ConnectionConstants DEF TypeOK
<1>7. TypeOK'
  <2>1. /\ clients' \in [Players -> Conns \cup {NoConn}]
        /\ \A p \in Players : clients'[p] # NoConn => PlayerOf[clients'[p]] = p
    BY <1>4, ConnectionConstants DEF TypeOK
  <2> QED
    BY <1>1, <1>2, <1>4, <1>5, <2>1 DEF TypeOK
<1>8. OneHolder'
  BY <1>1, <1>2, <1>3 DEF OneHolder, Holds, Upgrading, Reading
<1> QED
  BY <1>5, <1>6, <1>7, <1>8

LEMMA WriterInv ==
  ASSUME IInv, NEW c \in Conns, Writer(c) \/ PeerGoes(c) \/ UNCHANGED vars
  PROVE  IInv'
<1> USE DEF IInv
<1>1. /\ UNCHANGED <<conns, clients, upgrades, readers>>
      /\ open' \subseteq open /\ alive' \subseteq Conns /\ done' \subseteq Conns
      /\ writers' \in [Conns -> WriterSteps]
  BY DEF Writer, WriteFails, WriterDone, WriterOnly, PeerGoes, vars, sockets, TypeOK, WriterSteps
<1>2. Counted' = Counted /\ Admitted' = Admitted
  BY <1>1 DEF Counted, Admitted, Holds, Upgrading, Reading
<1>3. CountExact' /\ NeverOver'
  BY <1>1, <1>2, SameCount
<1> QED
  BY <1>1, <1>3 DEF TypeOK, OneHolder, RegisteredIsKnown, Holds, Upgrading, Reading

LEMMA StepInv == IInv /\ [Next]_vars => IInv'
<1> SUFFICES ASSUME IInv, [Next]_vars PROVE IInv'
  OBVIOUS
<1>1. ASSUME NEW c \in Conns, Acquire(c) \/ Handshake(c) PROVE IInv'
  BY <1>1, UpgradeInv
<1>2. ASSUME NEW c \in Conns, Read(c) \/ Reader(c) PROVE IInv'
  BY <1>2, ReaderInv
<1>3. ASSUME NEW c \in Conns, Writer(c) \/ PeerGoes(c) PROVE IInv'
  BY <1>3, WriterInv
<1>4. CASE UNCHANGED vars
  <2>1. UNCHANGED <<conns, clients, upgrades, readers, writers, open, alive, done>>
    BY <1>4 DEF vars, sockets
  <2>2. CountExact' /\ NeverOver'
    BY <2>1 DEF IInv, CountExact, NeverOver, Holds, Upgrading, Reading
  <2> QED
    BY <2>1, <2>2 DEF IInv, TypeOK, OneHolder, RegisteredIsKnown, Holds, Upgrading, Reading
<1> QED
  BY <1>1, <1>2, <1>3, <1>4 DEF Next

LEMMA Invariance == Spec => []IInv
  BY InitInv, StepInv, PTL DEF Spec

-----------------------------------------------------------------------------
\* The types of every reachable state.
THEOREM ConnectionTypes == Spec => []TypeOK
<1>1. IInv => TypeOK
  BY DEF IInv
<1> QED
  BY <1>1, Invariance, PTL

\* The count of connections is exact between any two steps of their goroutines.
THEOREM CountIsExact == Spec => []CountExact
<1>1. IInv => CountExact
  BY DEF IInv
<1> QED
  BY <1>1, Invariance, PTL

\* No more connections are served than there are places.
THEOREM PlacesSuffice == Spec => []NeverOver
<1>1. IInv => NeverOver
  BY DEF IInv
<1> QED
  BY <1>1, Invariance, PTL

\* A connection that is open and served is the one its player is known by.
THEOREM ServedAreKnown == Spec => []ServedIsKnown
<1>1. IInv => ServedIsKnown
  BY DEF IInv, RegisteredIsKnown, ServedIsKnown
<1> QED
  BY <1>1, Invariance, PTL

(***************************************************************************)
(* The sweeps.                                                             *)
(***************************************************************************)

\* The debits of es that may still be marked.
OwingIn(es) ==
  {d \in DOMAIN es : /\ es[d].kind = "DEBIT" /\ es[d].status = "PENDING"
                     /\ \A j \in DOMAIN es : es[j].parent # d}

\* The older entries come first.
Sorted(es) == \A i, j \in DOMAIN es : i < j => es[j].age <= es[i].age

\* An entry as it is opened.
NewEntry(kind, parent, mute) ==
  [kind |-> kind, parent |-> parent, mute |-> mute, age |-> Fresh, status |-> "PENDING"]

\* SweepTypeOK on the entries, and room for the refunds that may be opened.
WellFormed(es) ==
  /\ es \in Seq(Entry)
  /\ Sorted(es)
  /\ \A i \in DOMAIN es : IF es[i].kind # "ROLLBACK" THEN es[i].parent = 0
                          ELSE es[i].parent \in 1..(i - 1) /\ es[es[i].parent].kind = "DEBIT"
  /\ Len(es) + Cardinality(OwingIn(es)) <= MaxEntries

\* What becomes of the entries es: more of them, older, decided once.
Grown(es, later) ==
  /\ Len(es) <= Len(later)
  /\ \A i \in DOMAIN es :
       /\ later[i].kind = es[i].kind /\ later[i].parent = es[i].parent
       /\ later[i].mute = es[i].mute /\ es[i].age <= later[i].age
       /\ es[i].status # "PENDING" => later[i].status # "PENDING"

\* later is es with e opened.
OpenedIn(es, later, e) ==
  /\ later \in Seq(Entry) /\ Len(later) = Len(es) + 1 /\ Grown(es, later) /\ Sorted(later)
  /\ DOMAIN later = DOMAIN es \cup {Len(es) + 1}
  /\ \A i \in DOMAIN es : later[i] = es[i]
  /\ later[Len(es) + 1] = e

\* later is es with i decided.
DecidedIn(es, later, i) ==
  /\ WellFormed(later) /\ Grown(es, later) /\ DOMAIN later = DOMAIN es
  /\ later[i].status # "PENDING" /\ \A j \in DOMAIN es \ {i} : later[j] = es[j]

\* The entries of seen that took a place of the batch.
Places == {i \in DOMAIN seen :
              seen[i] # Stale /\ ~(entries[i].kind # "DEBIT" /\ seen[i] = Young)}

AgedSince ==
  /\ \A i \in DOMAIN list : list[i] <= entries[i].age
  /\ \A i \in DOMAIN seen : seen[i] <= entries[i].age

InOrder == \A i \in DOMAIN seen, j \in DOMAIN list : i < j

\* With the refund, the sweep has listed the debit.
DebitsListed ==
  \A i \in DOMAIN list :
    entries[i].kind = "ROLLBACK" /\ Pending(Parent(i))
    => Parent(i) \in DOMAIN list \cup DOMAIN seen

BatchExact == handled = Cardinality(Places)

SweepInv ==
  /\ SweepTypeOK /\ WellFormed(entries)
  /\ AgedSince /\ InOrder /\ DebitsListed /\ BatchExact /\ PassedIsDecided

-----------------------------------------------------------------------------
(* The entries.                                                            *)

LEMMA EntryFields ==
  ASSUME NEW e \in Entry
  PROVE  /\ e.kind \in Kinds /\ e.parent \in 0..MaxEntries /\ e.mute \in BOOLEAN
         /\ e.age \in Fresh..Stale /\ e.status \in {"PENDING", "CONFIRMED", "FAILED"}
  BY DEF Entry

LEMMA EntrySeqs ==
  ASSUME NEW es \in Seq(Entry)
  PROVE  /\ Len(es) \in Nat /\ DOMAIN es = 1..Len(es)
         /\ \A i \in 1..Len(es) : es[i] \in Entry /\ es[i].age \in Fresh..Stale
                                 /\ es[i].age \in Int
         /\ IsFiniteSet(OwingIn(es)) /\ Cardinality(OwingIn(es)) \in Nat
<1>1. Len(es) \in Nat /\ DOMAIN es = 1..Len(es) /\ \A i \in 1..Len(es) : es[i] \in Entry
  BY LenProperties, ElementOfSeq
<1>3. \A i \in 1..Len(es) : es[i].age \in Fresh..Stale /\ es[i].age \in Int
  BY <1>1, EntryFields DEF Fresh, Stale
<1>2. IsFiniteSet(1..Len(es)) /\ OwingIn(es) \subseteq 1..Len(es)
  BY <1>1, FS_Interval DEF OwingIn
<1> QED
  BY <1>1, <1>2, <1>3, FS_Subset, FS_CardinalityType

LEMMA FunctionsAreSeqs ==
  ASSUME NEW n \in Nat, NEW f \in [1..n -> Entry]
  PROVE  f \in Seq(Entry) /\ Len(f) = n
<1>1. f \in Seq(Entry)
  BY SeqDef
<1> QED
  BY <1>1, LenProperties

LEMMA GrownIsTransitive ==
  ASSUME NEW es \in Seq(Entry), NEW next \in Seq(Entry), NEW later \in Seq(Entry),
         Grown(es, next), Grown(next, later)
  PROVE  Grown(es, later)
<1>1. /\ Len(es) \in Nat /\ Len(next) \in Nat /\ Len(later) \in Nat
      /\ DOMAIN es = 1..Len(es) /\ DOMAIN next = 1..Len(next)
  BY EntrySeqs
<1>2. ASSUME NEW i \in DOMAIN es
      PROVE  i \in DOMAIN next /\ {es[i].age, next[i].age, later[i].age} \subseteq Int
  <2>1. i \in 1..Len(es) /\ i \in 1..Len(next) /\ i \in 1..Len(later)
    BY <1>1 DEF Grown
  <2> QED
    BY <1>1, <2>1, EntrySeqs
<1> QED
  BY <1>1, <1>2 DEF Grown

LEMMA GrownIsReflexive ==
  ASSUME NEW es \in Seq(Entry)
  PROVE  Grown(es, es)
<1>1. Len(es) \in Nat /\ \A i \in DOMAIN es : es[i].age \in Int
  BY EntrySeqs
<1> QED
  BY <1>1 DEF Grown

\* Entries that only are decided, and only grow older, the older ones first.
LEMMA SameLength ==
  ASSUME NEW es, WellFormed(es), NEW later \in Seq(Entry),
         Len(later) = Len(es), Grown(es, later), Sorted(later)
  PROVE  WellFormed(later)
<1>1. /\ es \in Seq(Entry) /\ DOMAIN later = 1..Len(later) /\ DOMAIN es = 1..Len(es)
      /\ Len(es) \in Nat
  BY EntrySeqs DEF WellFormed
<1>2. OwingIn(later) \subseteq OwingIn(es)
  BY <1>1 DEF OwingIn, Grown
<1>3. Cardinality(OwingIn(later)) <= Cardinality(OwingIn(es))
  BY <1>1, <1>2, EntrySeqs, FS_Subset
<1>4. Len(later) + Cardinality(OwingIn(later)) <= MaxEntries
  BY <1>1, <1>3, EntrySeqs, SweepConstants DEF WellFormed
<1>5. ASSUME NEW i \in DOMAIN later
      PROVE  IF later[i].kind # "ROLLBACK" THEN later[i].parent = 0
             ELSE later[i].parent \in 1..(i - 1) /\ later[later[i].parent].kind = "DEBIT"
  <2>1. later[i].kind = es[i].kind /\ later[i].parent = es[i].parent /\ i \in 1..Len(es)
    BY <1>1 DEF Grown
  <2>2. CASE es[i].kind = "ROLLBACK"
    <3>1. es[i].parent \in 1..(i - 1) /\ es[es[i].parent].kind = "DEBIT"
      BY <1>1, <2>1, <2>2 DEF WellFormed
    <3> QED
      BY <1>1, <2>1, <2>2, <3>1 DEF Grown
  <2> QED
    BY <1>1, <2>1, <2>2 DEF WellFormed
<1> QED
  BY <1>1, <1>4, <1>5 DEF WellFormed

\* A step that decides an entry of es.
LEMMA DecidedGrows ==
  ASSUME NEW es, WellFormed(es), NEW i \in DOMAIN es, NEW to \in {"CONFIRMED", "FAILED"}
  PROVE  DecidedIn(es, [es EXCEPT ![i].status = to], i)
<1> DEFINE later == [es EXCEPT ![i].status = to]
<1>1. /\ es \in Seq(Entry) /\ Len(es) \in Nat /\ DOMAIN es = 1..Len(es)
      /\ \A j \in 1..Len(es) : es[j] \in Entry
  BY EntrySeqs DEF WellFormed
<1> DEFINE e == [es[i] EXCEPT !.status = to]
<1>2. /\ e \in Entry /\ e.kind = es[i].kind /\ e.parent = es[i].parent
      /\ e.mute = es[i].mute /\ e.age = es[i].age /\ e.status = to
  BY <1>1 DEF Entry
<1>3. /\ later \in Seq(Entry) /\ Len(later) = Len(es)
      /\ \A j \in 1..Len(es) : later[j] = IF j = i THEN e ELSE es[j]
  <2>1. later = [es EXCEPT ![i] = e]
    OBVIOUS
  <2>2. i \in 1..Len(es)
    BY <1>1
  <2> HIDE DEF e
  <2> QED
    BY <1>1, <1>2, <2>1, <2>2, ExceptSeq
<1>4. \A j \in 1..Len(es) : es[j].age \in Int
  BY <1>1, EntryFields DEF Fresh, Stale
<1> HIDE DEF e, later
<1>5. Grown(es, later)
  BY <1>1, <1>2, <1>3, <1>4 DEF Grown
<1>6. WellFormed(later)
  <2>1. \A j \in DOMAIN es : later[j].age = es[j].age
    BY <1>1, <1>2, <1>3
  <2>2. Sorted(later)
    BY <1>1, <1>3, <2>1, EntrySeqs DEF WellFormed, Sorted
  <2> QED
    BY <1>3, <1>5, <2>2, SameLength
<1>7. DOMAIN later = DOMAIN es
  BY <1>1, <1>3, EntrySeqs
<1> QED
  BY <1>1, <1>2, <1>3, <1>5, <1>6, <1>7 DEF DecidedIn, later

\* A step that opens an entry, with the time of its creation.
LEMMA Opens ==
  ASSUME NEW es, WellFormed(es), NEW kind \in Kinds, NEW parent \in 0..MaxEntries,
         NEW mute \in BOOLEAN
  PROVE  OpenedIn(es, Append(es, NewEntry(kind, parent, mute)), NewEntry(kind, parent, mute))
<1> DEFINE later == Append(es, NewEntry(kind, parent, mute))
<1> DEFINE e == NewEntry(kind, parent, mute)
<1>1. /\ es \in Seq(Entry) /\ Len(es) \in Nat /\ DOMAIN es = 1..Len(es)
      /\ \A j \in 1..Len(es) : es[j] \in Entry
  BY EntrySeqs DEF WellFormed
<1>2. e \in Entry
  BY DEF Entry, NewEntry, Fresh, Stale
<1>3. /\ later \in Seq(Entry) /\ Len(later) = Len(es) + 1
      /\ \A i \in 1..Len(es) : later[i] = es[i] /\ later[Len(es) + 1] = e
  <2> HIDE DEF e
  <2>1. later = Append(es, e)
    BY DEF e
  <2> QED
    BY <1>1, <1>2, <2>1, AppendProperties
<1>3b. later[Len(es) + 1] = e
  <2> HIDE DEF e
  <2>1. later = Append(es, e)
    BY DEF e
  <2> QED
    BY <1>1, <1>2, <2>1, AppendProperties
<1> HIDE DEF later
<1>4. \A j \in 1..Len(es) : es[j].age \in Int /\ es[j].age >= 0
  BY <1>1, EntryFields DEF Fresh, Stale
<1>5. DOMAIN later = 1..(Len(es) + 1)
  BY <1>3, EntrySeqs
<1>6. DOMAIN later = DOMAIN es \cup {Len(es) + 1}
  BY <1>1, <1>5
<1>7. Grown(es, later)
  BY <1>1, <1>3, <1>4 DEF Grown
<1>8. ASSUME NEW i \in DOMAIN later, NEW j \in DOMAIN later, i < j
      PROVE  later[j].age <= later[i].age
  <2>1. CASE j = Len(es) + 1
    BY <1>1, <1>3, <1>3b, <1>4, <1>5, <1>8, <2>1 DEF Fresh, NewEntry
  <2>2. CASE j # Len(es) + 1
    BY <1>1, <1>3, <1>5, <1>8, <2>2 DEF WellFormed, Sorted
  <2> QED
    BY <2>1, <2>2
<1> QED
  BY <1>1, <1>3, <1>3b, <1>6, <1>7, <1>8 DEF Sorted, OpenedIn, later

\* The refund of a debit of es that may still be marked.
LEMMA RefundGrows ==
  ASSUME NEW es, WellFormed(es), NEW d \in OwingIn(es), NEW mute \in BOOLEAN, NEW later,
         OpenedIn(es, later, NewEntry("ROLLBACK", d, mute))
  PROVE  WellFormed(later)
<1>1. /\ es \in Seq(Entry) /\ Len(es) \in Nat /\ DOMAIN es = 1..Len(es)
      /\ IsFiniteSet(OwingIn(es)) /\ Cardinality(OwingIn(es)) \in Nat
      /\ Len(es) + Cardinality(OwingIn(es)) <= MaxEntries
  BY EntrySeqs DEF WellFormed
<1>2. Cardinality(OwingIn(es) \ {d}) = Cardinality(OwingIn(es)) - 1 /\ IsFiniteSet(OwingIn(es) \ {d})
  BY <1>1, FS_RemoveElement
<1>3. "ROLLBACK" \in Kinds /\ d \in 0..MaxEntries /\ d \in 1..Len(es) /\ es[d].kind = "DEBIT"
  BY <1>1, SweepConstants DEF OwingIn, Kinds
<1>4. /\ later \in Seq(Entry) /\ Len(later) = Len(es) + 1 /\ Grown(es, later)
      /\ DOMAIN later = DOMAIN es \cup {Len(es) + 1}
      /\ \A i \in DOMAIN es : later[i] = es[i]
      /\ later[Len(es) + 1] = NewEntry("ROLLBACK", d, mute)
      /\ Sorted(later)
  BY DEF OpenedIn
<1>5. LET e == later[Len(es) + 1] IN e.kind = "ROLLBACK" /\ e.parent = d
  BY <1>4 DEF NewEntry
<1>6. OwingIn(later) \subseteq OwingIn(es) \ {d}
  BY <1>1, <1>4, <1>5 DEF OwingIn
<1>7. Cardinality(OwingIn(later)) <= Cardinality(OwingIn(es)) - 1
  BY <1>2, <1>6, FS_Subset
<1>8. Len(later) + Cardinality(OwingIn(later)) <= MaxEntries
  <2>1. Cardinality(OwingIn(later)) \in Nat
    BY <1>4, EntrySeqs
  <2> QED
    BY <1>1, <1>4, <1>7, <2>1, SweepConstants
<1>9. ASSUME NEW i \in DOMAIN later
      PROVE  IF later[i].kind # "ROLLBACK" THEN later[i].parent = 0
             ELSE later[i].parent \in 1..(i - 1) /\ later[later[i].parent].kind = "DEBIT"
  <2>1. CASE i = Len(es) + 1
    BY <1>1, <1>3, <1>4, <1>5, <2>1
  <2>2. CASE i \in DOMAIN es
    <3>1. later[i] = es[i]
      BY <1>4, <2>2
    <3>2. CASE es[i].kind = "ROLLBACK"
      <4>1. es[i].parent \in 1..(i - 1) /\ es[es[i].parent].kind = "DEBIT"
        BY <2>2, <3>2 DEF WellFormed
      <4> QED
        BY <1>1, <1>4, <2>2, <3>1, <3>2, <4>1
    <3> QED
      BY <2>2, <3>1, <3>2 DEF WellFormed
  <2> QED
    BY <1>4, <2>1, <2>2
<1> QED
  BY <1>4, <1>5, <1>8, <1>9 DEF WellFormed

-----------------------------------------------------------------------------
(* The steps.                                                              *)

Grows == WellFormed(entries') /\ Grown(entries, entries')

LEMMA OpenedGrows ==
  ASSUME WellFormed(entries), NEW d \in Ids, NEW mute \in BOOLEAN,
         entries[d].kind = "DEBIT", Pending(d), ~HasRollback(d), NEW es,
         es = Opened("ROLLBACK", d, mute)
  PROVE  /\ WellFormed(es) /\ Grown(entries, es)
         /\ OpenedIn(entries, es, NewEntry("ROLLBACK", d, mute))
<1>1. d \in OwingIn(entries)
  BY DEF OwingIn, HasRollback, Pending, Parent, Ids
<1>2. d \in 0..MaxEntries /\ "ROLLBACK" \in Kinds
  BY EntrySeqs, SweepConstants DEF Ids, WellFormed, Kinds
<1>3. es = Append(entries, NewEntry("ROLLBACK", d, mute))
  BY DEF Opened, NewEntry
<1>4. OpenedIn(entries, es, NewEntry("ROLLBACK", d, mute))
  BY <1>2, <1>3, Opens
<1> QED
  BY <1>1, <1>4, RefundGrows DEF OpenedIn

LEMMA DecidesGrows ==
  ASSUME WellFormed(entries), NEW i \in Ids, NEW to \in {"CONFIRMED", "FAILED"},
         entries' = [entries EXCEPT ![i].status = to]
  PROVE  Grows /\ ~Pending(i)'
<1>1. i \in DOMAIN entries
  BY DEF Ids
<1>2. DecidedIn(entries, entries', i)
  BY <1>1, DecidedGrows
<1> QED
  BY <1>2 DEF Grows, Pending, DecidedIn

LEMMA OutsideGrows ==
  ASSUME WellFormed(entries), Begin \/ \E i \in Ids : Mark(i) \/ Resolve(i) \/ Age(i)
  PROVE  Grows
<1>0. /\ entries \in Seq(Entry) /\ Len(entries) \in Nat /\ DOMAIN entries = 1..Len(entries)
      /\ \A i \in 1..Len(entries) : entries[i] \in Entry /\ entries[i].age \in Fresh..Stale
  BY EntrySeqs DEF WellFormed
<1>1. CASE Begin
  <2>1. PICK kind \in {"DEBIT", "CREDIT"}, mute \in BOOLEAN : entries' = Opened(kind, 0, mute)
    BY <1>1 DEF Begin
  <2>2. Len(entries') + Cardinality(OwingIn(entries')) <= MaxEntries
    BY <1>1 DEF Begin, OwingIn
  <2>3. kind \in Kinds /\ 0 \in 0..MaxEntries
    BY SweepConstants DEF Kinds
  <2>4. /\ entries' \in Seq(Entry) /\ Len(entries') = Len(entries) + 1 /\ Grown(entries, entries')
        /\ DOMAIN entries' = DOMAIN entries \cup {Len(entries) + 1}
        /\ \A i \in DOMAIN entries : entries'[i] = entries[i]
        /\ entries'[Len(entries) + 1] = NewEntry(kind, 0, mute)
        /\ Sorted(entries')
    <3>1. entries' = Append(entries, NewEntry(kind, 0, mute))
      BY <2>1 DEF Opened, NewEntry
    <3>2. OpenedIn(entries, entries', NewEntry(kind, 0, mute))
      BY <2>3, <3>1, Opens
    <3> QED
      BY <3>2 DEF OpenedIn
  <2>5. LET e == entries'[Len(entries) + 1] IN e.kind = kind /\ e.parent = 0
    BY <2>4 DEF NewEntry
  <2>6. ASSUME NEW i \in DOMAIN entries'
        PROVE  IF entries'[i].kind # "ROLLBACK" THEN entries'[i].parent = 0
               ELSE /\ entries'[i].parent \in 1..(i - 1)
                    /\ entries'[entries'[i].parent].kind = "DEBIT"
    <3>1. CASE i = Len(entries) + 1
      BY <2>5, <3>1
    <3>2. CASE i \in DOMAIN entries
      <4>1. entries'[i] = entries[i]
        BY <2>4, <3>2
      <4>2. CASE entries[i].kind = "ROLLBACK"
        <5>1. entries[i].parent \in 1..(i - 1) /\ entries[entries[i].parent].kind = "DEBIT"
          BY <3>2, <4>2 DEF WellFormed
        <5> QED
          BY <1>0, <2>4, <3>2, <4>1, <4>2, <5>1
      <4> QED
        BY <3>2, <4>1, <4>2 DEF WellFormed
    <3> QED
      BY <2>4, <3>1, <3>2
  <2> QED
    BY <2>2, <2>4, <2>6 DEF Grows, WellFormed
<1>2. ASSUME NEW d \in Ids, Mark(d) PROVE Grows
  <2>1. PICK mute \in BOOLEAN : entries' = Opened("ROLLBACK", d, mute)
    BY <1>2 DEF Mark
  <2> QED
    BY <1>2, <2>1, OpenedGrows DEF Mark, Grows
<1>3. ASSUME NEW i \in Ids, Resolve(i) PROVE Grows
  BY <1>3, DecidesGrows DEF Resolve
<1>4. ASSUME NEW i \in Ids, Age(i) PROVE Grows
  <2> DEFINE e == [entries[i] EXCEPT !.age = @ + 1]
  <2>0. entries[i] \in Entry /\ entries[i].age \in 0..2
    BY <1>0, <1>4 DEF Age, Ids, Fresh, Stale
  <2>1. /\ e \in Entry /\ e.kind = entries[i].kind /\ e.parent = entries[i].parent
        /\ e.mute = entries[i].mute /\ e.age = entries[i].age + 1 /\ e.status = entries[i].status
    BY <2>0 DEF Entry, Fresh, Stale
  <2>2. entries' = [entries EXCEPT ![i] = e]
    BY <1>4 DEF Age
  <2>3. i \in 1..Len(entries)
    BY <1>0 DEF Ids
  <2> HIDE DEF e
  <2>4. /\ entries' \in Seq(Entry) /\ Len(entries') = Len(entries)
        /\ \A j \in 1..Len(entries) : entries'[j] = IF j = i THEN e ELSE entries[j]
    BY <1>0, <2>1, <2>2, <2>3, ExceptSeq
  <2>5. \A j \in 1..Len(entries) : entries[j].age \in Int
    BY <1>0, EntrySeqs
  <2>6. Grown(entries, entries')
    BY <1>0, <2>1, <2>4, <2>5 DEF Grown
  <2>7. ASSUME NEW j \in DOMAIN entries, NEW k \in DOMAIN entries, j < k
        PROVE  entries'[k].age <= entries'[j].age
    <3>1. entries[k].age <= entries[j].age
      BY <2>7 DEF WellFormed, Sorted
    <3>2. CASE k = i
      <4>1. entries[i].age < entries[i - 1].age /\ i - 1 \in DOMAIN entries
        BY <1>0, <1>4, <2>7, <3>2 DEF Age, Ids
      <4>2. entries[i - 1].age <= entries[j].age
        <5>1. j = i - 1 \/ j < i - 1
          BY <1>0, <2>7, <3>2
        <5> QED
          BY <1>0, <2>5, <4>1, <5>1 DEF WellFormed, Sorted
      <4>3. {entries[i].age, entries[i - 1].age, entries[j].age} \subseteq Int
        BY <1>0, <2>5, <4>1, <2>3
      <4>4. entries'[k].age = entries[i].age + 1 /\ entries'[j].age = entries[j].age
        BY <1>0, <2>1, <2>3, <2>4, <2>7, <3>2
      <4> QED
        BY <4>1, <4>2, <4>3, <4>4
    <3>3. CASE k # i
      BY <1>0, <2>1, <2>4, <2>5, <2>7, <3>1, <3>3
    <3> QED
      BY <3>2, <3>3
  <2> QED
    <3>1. Sorted(entries')
      BY <1>0, <2>4, <2>7, EntrySeqs DEF Sorted
    <3> QED
      BY <2>4, <2>6, <3>1, SameLength DEF Grows
<1> QED
  BY <1>1, <1>2, <1>3, <1>4

\* An entry whose callback is sent is decided, unless it has no answer.
LEMMA AnswerGrows ==
  ASSUME NEW es, WellFormed(es), NEW i \in DOMAIN es, NEW later \in Decided(es, i)
  PROVE  /\ WellFormed(later) /\ Grown(es, later) /\ DOMAIN later = DOMAIN es
         /\ es[i].mute \/ later[i].status # "PENDING"
         /\ \A j \in DOMAIN es \ {i} : later[j] = es[j]
<1>1. CASE es[i].mute
  <2>1. later = es
    BY <1>1 DEF Decided
  <2> QED
    BY <1>1, <2>1, GrownIsReflexive DEF WellFormed
<1>2. CASE ~es[i].mute
  <2>1. PICK to \in {"CONFIRMED", "FAILED"} : later = [es EXCEPT ![i].status = to]
    BY <1>2 DEF Decided
  <2> QED
    BY <2>1, DecidedGrows DEF DecidedIn
<1> QED
  BY <1>1, <1>2

LEMMA WithRefundGrows ==
  ASSUME WellFormed(entries), NEW d \in Ids, entries[d].kind = "DEBIT", Pending(d),
         NEW es \in WithRefund(d)
  PROVE  /\ WellFormed(es) /\ Grown(entries, es)
         /\ d \in DOMAIN es /\ es[d] = entries[d]
<1>1. CASE HasRollback(d)
  BY <1>1, GrownIsReflexive DEF WithRefund, WellFormed, Ids
<1>2. CASE ~HasRollback(d)
  <2>1. PICK mute \in BOOLEAN : es = Opened("ROLLBACK", d, mute)
    BY <1>2 DEF WithRefund
  <2>2. WellFormed(es) /\ Grown(entries, es) /\ OpenedIn(entries, es, NewEntry("ROLLBACK", d, mute))
    BY <1>2, <2>1, OpenedGrows
  <2> QED
    BY <2>2 DEF OpenedIn, Ids
<1> QED
  BY <1>1, <1>2

LEMMA ConfirmedGrows ==
  ASSUME WellFormed(entries), NEW d \in Ids, entries[d].kind = "DEBIT", Pending(d),
         NEW es \in WithRefund(d), NEW later, later = Confirmed(es, d)
  PROVE  /\ WellFormed(later) /\ Grown(entries, later) /\ DOMAIN later = DOMAIN es
         /\ later[d].status # "PENDING"
         /\ \A j \in DOMAIN es \ {d} : later[j] = es[j]
<1>1. WellFormed(es) /\ Grown(entries, es) /\ d \in DOMAIN es
  BY WithRefundGrows
<1>2. DecidedIn(es, later, d)
  BY <1>1, DecidedGrows DEF Confirmed
<1> QED
  BY <1>1, <1>2, GrownIsTransitive DEF DecidedIn, WellFormed

LEMMA RejectedGrows ==
  ASSUME WellFormed(entries), NEW d \in Ids, Pending(d), DebitRejected(d)
  PROVE  Grows /\ ~Pending(d)'
<1>1. /\ entries \in Seq(Entry) /\ Len(entries) \in Nat /\ Ids = 1..Len(entries)
      /\ DOMAIN entries = Ids
      /\ \A i \in Ids : entries[i] \in Entry /\ entries[i].age \in Int
  BY EntrySeqs DEF WellFormed, Ids
<1>2. \A i \in Ids : [entries[i] EXCEPT !.status = "FAILED"] \in Entry
  BY <1>1 DEF Entry
<1>3. entries' \in [Ids -> Entry]
  BY <1>1, <1>2 DEF DebitRejected
<1>4. entries' \in Seq(Entry) /\ Len(entries') = Len(entries)
  BY <1>1, <1>3, FunctionsAreSeqs
<1>5. \A i \in Ids : /\ entries'[i].kind = entries[i].kind /\ entries'[i].age = entries[i].age
                     /\ entries'[i].parent = entries[i].parent
                     /\ entries'[i].mute = entries[i].mute
                     /\ ~Pending(i) => entries'[i] = entries[i]
  <2>1. ASSUME NEW i \in Ids
        PROVE  \/ entries'[i] = entries[i]
               \/ Pending(i) /\ entries'[i] = [entries[i] EXCEPT !.status = "FAILED"]
    BY <2>1 DEF DebitRejected
  <2> QED
    BY <1>1, <2>1 DEF Entry
<1>6. entries'[d].status = "FAILED"
  <2>1. entries'[d] = [entries[d] EXCEPT !.status = "FAILED"]
    BY DEF DebitRejected
  <2> QED
    BY <1>1, <2>1 DEF Entry
<1>7. Grown(entries, entries')
  BY <1>1, <1>4, <1>5 DEF Grown, Pending
<1>8. Sorted(entries')
  BY <1>1, <1>4, <1>5, EntrySeqs DEF Sorted, WellFormed
<1> QED
  BY <1>4, <1>6, <1>7, <1>8, SameLength DEF Grows, Pending

LEMMA AcceptedGrows ==
  ASSUME WellFormed(entries), NEW d \in Ids, entries[d].kind = "DEBIT", Pending(d),
         DebitAccepted(d)
  PROVE  Grows /\ ~Pending(d)'
<1>1. CASE ~HasRollback(d) /\ entries' = Confirmed(entries, d)
  <2>1. DecidedIn(entries, entries', d)
    BY <1>1, DecidedGrows DEF Confirmed, Ids
  <2> QED
    BY <2>1 DEF DecidedIn, Grows, Pending
<1>2. ASSUME NEW es \in WithRefund(d), NEW i \in DOMAIN es, es[i].parent = d,
             IF es[i].status = "PENDING" THEN entries' \in Decided(Confirmed(es, d), i)
             ELSE entries' = Confirmed(es, d)
      PROVE  Grows /\ ~Pending(d)'
  <2> DEFINE between == Confirmed(es, d)
  <2>1. /\ WellFormed(between) /\ Grown(entries, between) /\ DOMAIN between = DOMAIN es
        /\ between[d].status # "PENDING"
    BY ConfirmedGrows
  <2>2. d \in DOMAIN es /\ i # d
    <3>1. WellFormed(es) /\ d \in DOMAIN es /\ es[d].kind = "DEBIT"
      BY WithRefundGrows
    <3>2. es[d].parent = 0 /\ d # 0
      BY <3>1, EntrySeqs DEF WellFormed
    <3> QED
      BY <1>2, <3>1, <3>2
  <2> HIDE DEF between
  <2>3. CASE entries' = between
    BY <2>1, <2>3 DEF Grows, Pending
  <2>4. CASE entries' \in Decided(between, i)
    <3>1. WellFormed(entries') /\ Grown(between, entries') /\ entries'[d] = between[d]
      BY <2>1, <2>2, <2>4, AnswerGrows
    <3> QED
      BY <2>1, <3>1, GrownIsTransitive DEF Grows, Pending, WellFormed
  <2> QED
    BY <1>2, <2>3, <2>4 DEF between
<1> QED
  BY <1>1, <1>2 DEF DebitAccepted

LEMMA LeftGrows ==
  ASSUME WellFormed(entries), NEW d \in Ids, entries[d].kind = "DEBIT", Pending(d),
         DebitLeft(d)
  PROVE  Grows
<1>1. CASE UNCHANGED entries
  BY <1>1, GrownIsReflexive DEF Grows, WellFormed
<1>2. ASSUME NEW es \in WithRefund(d), entries' \in {es, Confirmed(es, d)} PROVE Grows
  BY <1>2, WithRefundGrows, ConfirmedGrows DEF Grows
<1>3. CASE entries' = [entries EXCEPT ![d].status = "FAILED"]
  BY <1>3, DecidesGrows
<1> QED
  BY <1>1, <1>2, <1>3 DEF DebitLeft

\* An entry that is taken up is decided, unless it has no answer, an error is
\* met, or it is the refund of a debit that is not decided.
LEMMA TakenGrows ==
  ASSUME WellFormed(entries), NEW i \in Ids, RecoverDebit(i) \/ RecoverMoney(i)
  PROVE  /\ Grows /\ Takes(i)
         /\ NoFault \/ Errs(i)
         /\ \/ ~Pending(i)'
            \/ entries[i].mute
            \/ i \in erred'
            \/ entries[i].kind = "ROLLBACK" /\ Pending(Parent(i)) /\ UNCHANGED entries
<1>1. CASE RecoverDebit(i)
  <2>1. CASE (~Pending(i) \/ entries[i].mute) /\ UNCHANGED entries /\ NoFault
    BY <1>1, <2>1, GrownIsReflexive DEF RecoverDebit, Grows, WellFormed, Pending
  <2>2. CASE Pending(i) /\ (DebitRejected(i) \/ DebitAccepted(i)) /\ NoFault
    BY <1>1, <2>2, RejectedGrows, AcceptedGrows DEF RecoverDebit
  <2>3. CASE Pending(i) /\ Errs(i) /\ DebitLeft(i)
    BY <1>1, <2>3, LeftGrows DEF RecoverDebit, Errs
  <2> QED
    BY <1>1, <2>1, <2>2, <2>3 DEF RecoverDebit
<1>2. CASE RecoverMoney(i)
  <2> DEFINE parent == IF entries[i].kind = "ROLLBACK" THEN entries[Parent(i)].status ELSE "NONE"
  <2>1. CASE (~Pending(i) \/ parent = "PENDING") /\ UNCHANGED entries /\ NoFault
    BY <1>2, <2>1, GrownIsReflexive DEF RecoverMoney, Grows, WellFormed, Pending
  <2>2. CASE Pending(i) /\ parent = "FAILED" /\ NoFault
             /\ entries' = [entries EXCEPT ![i].status = "FAILED"]
    BY <1>2, <2>2, DecidesGrows DEF RecoverMoney
  <2>3. CASE Pending(i) /\ entries' \in Decided(entries, i) /\ NoFault
    BY <1>2, <2>3, AnswerGrows DEF RecoverMoney, Grows, Pending, Ids
  <2>4. CASE Pending(i) /\ Errs(i) /\ UNCHANGED entries
    BY <1>2, <2>4, GrownIsReflexive DEF RecoverMoney, Errs, Grows, WellFormed
  <2> QED
    BY <1>2, <2>1, <2>2, <2>3, <2>4 DEF RecoverMoney
<1> QED
  BY <1>1, <1>2

-----------------------------------------------------------------------------
(* The sweep.                                                              *)

\* PassedIsDecided, of one entry.
Passed(i) ==
  Pending(i) =>
    \/ Excused(i)
    \/ entries[i].kind = "ROLLBACK" /\ Parent(i) \in DOMAIN seen /\ Excused(Parent(i))

CountsIn(i) == seen[i] # Stale /\ ~(entries[i].kind # "DEBIT" /\ seen[i] = Young)

LEMMA Facts ==
  ASSUME SweepInv
  PROVE  /\ entries \in Seq(Entry) /\ Len(entries) \in Nat /\ Ids = 1..Len(entries)
         /\ \A i \in Ids : entries[i].age \in Int
         /\ DOMAIN list \subseteq Ids /\ list \in [DOMAIN list -> Young..Stale]
         /\ DOMAIN seen \subseteq Ids /\ seen \in [DOMAIN seen -> Young..Stale]
         /\ erred \subseteq DOMAIN seen /\ handled \in 0..Batch /\ faults \in 0..MaxFaults
         /\ IsFiniteSet(Places) /\ Places = {i \in DOMAIN seen : CountsIn(i)}
         /\ \A i \in DOMAIN seen : Passed(i)
         /\ \A i \in Ids : entries[i].kind = "ROLLBACK" => Parent(i) \in Ids
<1>1. /\ entries \in Seq(Entry) /\ Len(entries) \in Nat /\ Ids = 1..Len(entries)
      /\ \A i \in Ids : entries[i].age \in Int
  BY EntrySeqs DEF SweepInv, WellFormed, Ids
<1>2. /\ DOMAIN list \subseteq Ids /\ list \in [DOMAIN list -> Young..Stale]
      /\ DOMAIN seen \subseteq Ids /\ seen \in [DOMAIN seen -> Young..Stale]
      /\ erred \subseteq DOMAIN seen /\ handled \in 0..Batch /\ faults \in 0..MaxFaults
  BY DEF SweepInv, SweepTypeOK, Listing
<1>3. IsFiniteSet(Places)
  <2>1. Places \subseteq 1..Len(entries)
    BY <1>1, <1>2 DEF Places
  <2>2. IsFiniteSet(1..Len(entries))
    BY <1>1, FS_Interval
  <2> QED
    BY <2>1, <2>2, FS_Subset
<1>4. Places = {i \in DOMAIN seen : CountsIn(i)}
  BY DEF Places, CountsIn
<1>5. \A i \in DOMAIN seen : Passed(i)
  BY DEF SweepInv, PassedIsDecided, Passed
<1>6. \A i \in Ids : entries[i].kind = "ROLLBACK" => Parent(i) \in Ids
  BY <1>1 DEF SweepInv, WellFormed, Parent, Ids
<1> QED
  BY <1>1, <1>2, <1>3, <1>4, <1>5, <1>6

\* What the growth of the entries says of those there are.
LEMMA GrowthFacts ==
  ASSUME SweepInv, Grows
  PROVE  /\ entries' \in Seq(Entry) /\ Len(entries') \in Nat /\ Ids' = 1..Len(entries')
         /\ Ids \subseteq Ids' /\ \A i \in Ids' : entries'[i].age \in Int
         /\ \A i \in Ids : /\ entries'[i].kind = entries[i].kind
                           /\ Parent(i)' = Parent(i) /\ entries'[i].mute = entries[i].mute
                           /\ entries[i].age <= entries'[i].age
                           /\ Pending(i)' => Pending(i)
         /\ Len(entries') <= MaxEntries
         /\ \A i, j \in Ids' : i < j => entries'[j].age <= entries'[i].age
         /\ \A i \in Ids' : IF entries'[i].kind # "ROLLBACK" THEN Parent(i)' = 0
                            ELSE /\ Parent(i)' \in 1..(i - 1)
                                 /\ entries'[Parent(i)'].kind = "DEBIT"
<1>1. /\ entries' \in Seq(Entry) /\ Len(entries') \in Nat /\ Ids' = 1..Len(entries')
      /\ \A i \in Ids' : entries'[i].age \in Int
  BY EntrySeqs DEF Grows, WellFormed, Ids
<1>2. Ids = 1..Len(entries) /\ Len(entries) \in Nat /\ Len(entries) <= Len(entries')
  BY Facts DEF Grows, Grown
<1>3. Ids \subseteq Ids'
  BY <1>1, <1>2
<1>4. \A i \in Ids : /\ entries'[i].kind = entries[i].kind
                     /\ Parent(i)' = Parent(i) /\ entries'[i].mute = entries[i].mute
                     /\ entries[i].age <= entries'[i].age
                     /\ Pending(i)' => Pending(i)
  BY DEF Grows, Grown, Parent, Pending, Ids
<1>5. Len(entries') <= MaxEntries
  <2>1. Cardinality(OwingIn(entries')) \in Nat
    BY <1>1, EntrySeqs
  <2> QED
    BY <1>1, <2>1, SweepConstants DEF Grows, WellFormed
<1> QED
  BY <1>1, <1>3, <1>4, <1>5 DEF Grows, WellFormed, Sorted, Ids, Parent

\* A step that leaves the sweep alone.
LEMMA OutsideInv ==
  ASSUME SweepInv, Grows, UNCHANGED <<list, handled, seen, erred, faults>>
  PROVE  SweepInv'
<1>1. SweepTypeOK'
  <2>1. list' \in Listing' /\ seen' \in Listing'
    BY Facts, GrowthFacts DEF Listing
  <2> QED
    BY <2>1, Facts, GrowthFacts DEF SweepTypeOK
<1>2. AgedSince'
  <2>1. ASSUME NEW i \in Ids, NEW a \in Young..Stale, a <= entries[i].age
        PROVE  a <= entries'[i].age
    BY <2>1, Facts, GrowthFacts DEF Young, Stale
  <2> QED
    BY <2>1, Facts DEF SweepInv, AgedSince
<1>3. InOrder'
  BY DEF SweepInv, InOrder
<1>4. DebitsListed'
  BY Facts, GrowthFacts DEF SweepInv, DebitsListed
<1>5. BatchExact'
  <2>1. Places' = Places
    BY Facts, GrowthFacts DEF Places
  <2> QED
    BY <2>1 DEF SweepInv, BatchExact
<1>6. PassedIsDecided'
  <2>1. ASSUME NEW i \in DOMAIN seen, Excused(i) PROVE Excused(i)'
    BY <2>1, Facts, GrowthFacts DEF Excused
  <2> QED
    BY <2>1, Facts, GrowthFacts DEF SweepInv, PassedIsDecided
<1> QED
  BY <1>1, <1>2, <1>3, <1>4, <1>5, <1>6 DEF SweepInv, Grows

\* The loop goes on to the next entry.
LEMMA LooksInv ==
  ASSUME SweepInv, Grows, NEW i \in DOMAIN list, First(i), Looked(i), NoFault \/ Errs(i),
         handled' \in 0..Batch, Passed(i)',
         handled' = IF CountsIn(i)' THEN handled + 1 ELSE handled
  PROVE  SweepInv'
<1>1. /\ DOMAIN list' = DOMAIN list \ {i} /\ DOMAIN seen' = DOMAIN seen \cup {i}
      /\ seen'[i] = list[i]
      /\ \A j \in DOMAIN list' : list'[j] = list[j]
      /\ \A j \in DOMAIN seen : j # i => seen'[j] = seen[j]
      /\ list' \in [DOMAIN list \ {i} -> Young..Stale]
      /\ seen' \in [DOMAIN seen \cup {i} -> Young..Stale]
  BY Facts DEF Looked
<1>2. i \in Ids /\ i \notin DOMAIN seen
  BY Facts DEF SweepInv, InOrder
<1>3. /\ erred \subseteq erred' /\ erred' \subseteq DOMAIN seen'
      /\ faults' \in 0..MaxFaults
  BY <1>1, Facts, SweepConstants DEF NoFault, Errs, Fault
<1>4. SweepTypeOK'
  <2>1. list' \in Listing' /\ seen' \in Listing'
    <3>1. DOMAIN list \ {i} \in SUBSET Ids' /\ DOMAIN seen \cup {i} \in SUBSET Ids'
      BY <1>2, Facts, GrowthFacts
    <3> QED
      BY <1>1, <3>1 DEF Listing
  <2> QED
    BY <1>3, <2>1, Facts, GrowthFacts DEF SweepTypeOK
<1>5. AgedSince'
  <2>1. ASSUME NEW j \in Ids, NEW a \in Young..Stale, a <= entries[j].age
        PROVE  a <= entries'[j].age
    BY <2>1, Facts, GrowthFacts DEF Young, Stale
  <2> QED
    BY <1>1, <1>2, <2>1, Facts DEF SweepInv, AgedSince
<1>6. InOrder'
  <2>1. ASSUME NEW j \in DOMAIN list' PROVE i < j
    BY <1>1, <1>2, <2>1, Facts DEF First
  <2> QED
    BY <1>1, <2>1 DEF SweepInv, InOrder
<1>7. DebitsListed'
  BY <1>1, Facts, GrowthFacts DEF SweepInv, DebitsListed
<1>8. BatchExact'
  <2>1. \A j \in DOMAIN seen : CountsIn(j)' = CountsIn(j)
    BY <1>1, <1>2, Facts, GrowthFacts DEF CountsIn
  <2>2. Places' = {j \in DOMAIN seen' : CountsIn(j)'}
    BY DEF Places, CountsIn
  <2>3. Places' = IF CountsIn(i)' THEN Places \cup {i} ELSE Places
    BY <1>1, <1>2, <2>1, <2>2, Facts
  <2>4. i \notin Places
    BY <1>2 DEF Places
  <2> QED
    BY <2>3, <2>4, Facts, FS_AddElement DEF SweepInv, BatchExact
<1>9. PassedIsDecided'
  <2>1. ASSUME NEW j \in DOMAIN seen, Excused(j) PROVE Excused(j)'
    BY <1>1, <1>2, <1>3, <2>1, Facts, GrowthFacts DEF Excused
  <2>2. ASSUME NEW j \in DOMAIN seen PROVE Passed(j)'
    BY <1>1, <2>1, Facts, GrowthFacts DEF Passed
  <2>3. \A j \in DOMAIN seen' : Passed(j)'
    BY <1>1, <2>2
  <2> QED
    BY <2>3 DEF PassedIsDecided, Passed
<1> QED
  BY <1>4, <1>5, <1>6, <1>7, <1>8, <1>9 DEF SweepInv, Grows

LEMMA StillGrows ==
  ASSUME SweepInv, UNCHANGED entries
  PROVE  Grows
  BY GrownIsReflexive DEF SweepInv, WellFormed, Grows

LEMMA StartInv ==
  ASSUME SweepInv, Start
  PROVE  SweepInv'
<1>1. /\ DOMAIN list' \subseteq Ids /\ seen' = Nothing /\ erred' = {} /\ handled' = 0
      /\ \A i \in DOMAIN list' : list'[i] = entries[i].age
      /\ \A i \in Ids : Pending(i) /\ entries[i].age >= Young => i \in DOMAIN list'
      /\ \A i \in DOMAIN list' : entries[i].age >= Young
      /\ DOMAIN seen' = {}
      /\ UNCHANGED <<entries, faults>>
  BY DEF Start, Listed, Nothing
<1>2. SweepTypeOK'
  <2>1. \A i \in Ids : entries[i].age \in Fresh..Stale
    BY EntrySeqs DEF SweepInv, WellFormed, Ids
  <2>2. list' \in [DOMAIN list' -> Young..Stale]
    BY <1>1, <2>1 DEF Start, Listed, Young, Stale, Fresh
  <2>3. list' \in Listing' /\ seen' \in Listing'
    <3>1. seen' \in [{} -> Young..Stale]
      BY <1>1 DEF Nothing
    <3> QED
      BY <1>1, <2>2, <3>1 DEF Listing, Ids
  <2>4. erred' \subseteq DOMAIN seen' /\ handled' \in 0..Batch
    BY <1>1, SweepConstants
  <2> QED
    BY <1>1, <2>3, <2>4 DEF SweepInv, SweepTypeOK, Ids, Parent
<1>3. AgedSince'
  BY <1>1, Facts DEF AgedSince
<1>4. InOrder'
  BY <1>1 DEF InOrder
<1>5. DebitsListed'
  <2>1. ASSUME NEW i \in DOMAIN list', entries[i].kind = "ROLLBACK", Pending(Parent(i))
        PROVE  Parent(i) \in DOMAIN list'
    <3>1. /\ i \in Ids /\ Parent(i) \in Ids /\ Parent(i) < i
          /\ entries[i].age <= entries[Parent(i)].age
      <4>1. i \in Ids /\ Ids = DOMAIN entries /\ Sorted(entries)
        BY <1>1, <2>1 DEF SweepInv, WellFormed, Ids
      <4>2. Parent(i) \in 1..(i - 1)
        BY <2>1, <4>1 DEF SweepInv, WellFormed, Parent
      <4>3. Parent(i) \in Ids /\ Parent(i) < i
        BY <4>1, <4>2, Facts
      <4> QED
        BY <4>1, <4>3 DEF Sorted
    <3>2. entries[Parent(i)].age >= Young
      BY <1>1, <3>1, Facts DEF Young
    <3> QED
      BY <1>1, <2>1, <3>1, <3>2
  <2> QED
    BY <1>1, <2>1 DEF DebitsListed, Pending, Parent
<1>6. BatchExact'
  <2>1. Places' = {}
    BY <1>1 DEF Places
  <2> QED
    BY <1>1, <2>1, FS_EmptySet DEF BatchExact
<1>7. PassedIsDecided'
  BY <1>1 DEF PassedIsDecided
<1> QED
  BY <1>1, <1>2, <1>3, <1>4, <1>5, <1>6, <1>7 DEF SweepInv

\* What the sweep does with the entry that is first.
LEMMA EntryInv ==
  ASSUME SweepInv, NEW i \in DOMAIN list, First(i),
         Skip(i) \/ Full(i) \/ Leave(i) \/ RecoverDebit(i) \/ RecoverMoney(i)
  PROVE  SweepInv'
<1>0. /\ i \in Ids /\ list[i] \in Young..Stale
      /\ Looked(i) => seen'[i] = list[i] /\ DOMAIN seen' = DOMAIN seen \cup {i}
      /\ handled \in 0..Batch
  BY Facts DEF Looked
<1>1. CASE Skip(i)
  <2>1. Grows /\ Looked(i) /\ NoFault /\ handled' = handled /\ UNCHANGED entries
    BY <1>1, StillGrows DEF Skip, NoFault
  <2>2. ~CountsIn(i)' /\ Passed(i)'
    BY <1>0, <1>1, <2>1 DEF Skip, CountsIn, Passed, Excused
  <2> QED
    BY <1>0, <2>1, <2>2, LooksInv
<1>2. CASE Full(i)
  <2>1. /\ DOMAIN list' = {} /\ UNCHANGED <<entries, handled, seen, erred, faults>>
        /\ list' = Nothing
    BY <1>2 DEF Full, Nothing, history
  <2>2. SweepTypeOK'
    <3>1. list' \in [{} -> Young..Stale]
      BY <2>1 DEF Nothing
    <3>2. list' \in Listing' /\ seen' \in Listing'
      BY <2>1, <3>1 DEF SweepInv, SweepTypeOK, Listing, Ids
    <3> QED
      BY <2>1, <3>2 DEF SweepInv, SweepTypeOK, Ids, Parent
  <2> QED
    BY <2>1, <2>2
    DEF SweepInv, AgedSince, InOrder, DebitsListed, BatchExact, Places, PassedIsDecided,
        Excused, Pending, Parent, Ids
<1>3. CASE Leave(i)
  <2>1. Grows /\ Looked(i) /\ NoFault /\ handled' = handled /\ UNCHANGED entries
    BY <1>3, StillGrows DEF Leave, NoFault
  <2>2. ~CountsIn(i)' /\ Passed(i)'
    BY <1>0, <1>3, <2>1 DEF Leave, TooYoung, CountsIn, Passed, Excused
  <2> QED
    BY <1>0, <2>1, <2>2, LooksInv
<1>4. CASE RecoverDebit(i) \/ RecoverMoney(i)
  <2>1. /\ Grows /\ Takes(i) /\ (NoFault \/ Errs(i))
        /\ \/ ~Pending(i)'
           \/ entries[i].mute
           \/ i \in erred'
           \/ entries[i].kind = "ROLLBACK" /\ Pending(Parent(i)) /\ UNCHANGED entries
    BY <1>0, <1>4, TakenGrows DEF SweepInv
  <2>2. /\ Looked(i) /\ handled' = handled + 1 /\ handled' \in 0..Batch
        /\ list[i] # Stale /\ ~TooYoung(i)
    BY <1>0, <2>1, SweepConstants DEF Takes
  <2>3. CountsIn(i)'
    BY <1>0, <2>1, <2>2, GrowthFacts DEF CountsIn, TooYoung
  <2>4. Passed(i)'
    <3>1. CASE ~Pending(i)' \/ entries[i].mute \/ i \in erred'
      BY <1>0, <2>1, <3>1, GrowthFacts DEF Passed, Excused
    <3>2. CASE entries[i].kind = "ROLLBACK" /\ Pending(Parent(i)) /\ UNCHANGED entries
      <4>1. Parent(i) \in Ids /\ Parent(i) < i /\ entries[Parent(i)].kind = "DEBIT"
        BY <1>0, <3>2, Facts DEF SweepInv, WellFormed, Parent, Ids
      <4>2. Parent(i) \in DOMAIN seen
        <5>1. Parent(i) \notin DOMAIN list
          BY <1>0, <4>1, Facts DEF First
        <5> QED
          BY <3>2, <5>1 DEF SweepInv, DebitsListed
      <4>3. Excused(Parent(i))
        BY <3>2, <4>1, <4>2, Facts DEF Passed
      <4>4. Excused(Parent(i))'
        <5>1. seen'[Parent(i)] = seen[Parent(i)]
          BY <1>0, <2>2, <4>1, <4>2, Facts DEF Looked
        <5>2. erred \subseteq erred'
          BY <2>1 DEF NoFault, Errs
        <5> QED
          BY <3>2, <4>3, <5>1, <5>2 DEF Excused, Parent
      <4> QED
        BY <1>0, <2>2, <3>2, <4>2, <4>4 DEF Passed, Parent
    <3> QED
      BY <2>1, <3>1, <3>2
  <2> QED
    BY <2>1, <2>2, <2>3, <2>4, LooksInv
<1> QED
  BY <1>1, <1>2, <1>3, <1>4

LEMMA SweepInitInv == SweepInit => SweepInv
<1> SUFFICES ASSUME SweepInit PROVE SweepInv
  OBVIOUS
<1>1. /\ entries = <<>> /\ list = Nothing /\ seen = Nothing /\ erred = {}
      /\ handled = 0 /\ faults = 0 /\ DOMAIN list = {} /\ DOMAIN seen = {}
      /\ Ids = {}
  BY DEF SweepInit, Nothing, Ids
<1>2. OwingIn(entries) = {} /\ Places = {}
  BY <1>1 DEF OwingIn, Places, Ids
<1>3. entries \in Seq(Entry) /\ Len(entries) = 0
  BY <1>1, EmptySeq
<1>4. WellFormed(entries)
  BY <1>1, <1>2, <1>3, FS_EmptySet, SweepConstants DEF WellFormed, Sorted, Ids
<1>5. SweepTypeOK
  <2>1. Nothing \in [{} -> Young..Stale]
    BY DEF Nothing
  <2> QED
    BY <1>1, <1>3, <2>1, SweepConstants DEF SweepTypeOK, Listing
<1> QED
  BY <1>1, <1>2, <1>4, <1>5, FS_EmptySet
  DEF SweepInv, AgedSince, InOrder, DebitsListed, BatchExact, PassedIsDecided

LEMMA SweepStepInv == SweepInv /\ [SweepNext]_sweepVars => SweepInv'
<1> SUFFICES ASSUME SweepInv, [SweepNext]_sweepVars PROVE SweepInv'
  OBVIOUS
<1>1. CASE Begin \/ \E i \in Ids : Mark(i) \/ Resolve(i) \/ Age(i)
  <2>1. UNCHANGED <<list, handled, seen, erred, faults>>
    BY <1>1 DEF Begin, Mark, Resolve, Age, history
  <2> QED
    BY <1>1, <2>1, OutsideGrows, OutsideInv DEF SweepInv
<1>2. CASE Sweep
  BY <1>2, StartInv, EntryInv DEF Sweep
<1>3. CASE UNCHANGED sweepVars
  <2>1. UNCHANGED <<list, handled, seen, erred, faults>> /\ UNCHANGED entries
    BY <1>3 DEF sweepVars, history
  <2> QED
    BY <2>1, StillGrows, OutsideInv
<1> QED
  BY <1>1, <1>2, <1>3 DEF SweepNext

LEMMA SweepInvariance == SweepSpec => []SweepInv
  BY SweepInitInv, SweepStepInv, PTL DEF SweepSpec

-----------------------------------------------------------------------------
\* The types of every reachable state: the entries are in the order of their
\* ages, a rollback has the debit before it, and there is room for every refund
\* a sweep may open.
THEOREM SweepTypes == SweepSpec => []SweepTypeOK
<1>1. SweepInv => SweepTypeOK
  BY DEF SweepInv
<1> QED
  BY <1>1, SweepInvariance, PTL

\* A sweep leaves behind it no entry it could have decided.
THEOREM PassedAreDecided == SweepSpec => []PassedIsDecided
<1>1. SweepInv => PassedIsDecided
  BY DEF SweepInv
<1> QED
  BY <1>1, SweepInvariance, PTL

LEMMA FullBatch == SweepInv => FullBatchDecides
<1> SUFFICES ASSUME SweepInv, handled = Batch, erred = {},
                    Cardinality({i \in Ids : Hopeless(i)}) < Batch,
                    \A i \in DOMAIN seen : Pending(i)
             PROVE  FALSE
  BY DEF FullBatchDecides
<1> DEFINE H == {i \in Ids : Hopeless(i)}
<1>1. IsFiniteSet(H) /\ Cardinality(H) \in Nat
  <2>1. Len(entries) \in Nat /\ H \subseteq 1..Len(entries)
    BY Facts
  <2>2. IsFiniteSet(1..Len(entries))
    BY <2>1, FS_Interval
  <2> QED
    BY <2>1, <2>2, FS_Subset, FS_CardinalityType
<1>2. ASSUME NEW i \in Places PROVE i \in H
  <2>1. i \in DOMAIN seen /\ i \in Ids /\ Pending(i) /\ seen[i] # Stale
        /\ ~(entries[i].kind # "DEBIT" /\ seen[i] = Young)
    BY <1>2, Facts DEF Places
  <2>2. Excused(i) => entries[i].mute
    BY <2>1 DEF Excused
  <2>3. CASE ~Excused(i)
    <3>1. /\ entries[i].kind = "ROLLBACK" /\ Parent(i) \in DOMAIN seen
          /\ Excused(Parent(i)) /\ Pending(Parent(i))
      BY <2>1, <2>3, Facts DEF Passed
    <3>2. entries[Parent(i)].kind = "DEBIT"
      BY <2>1, <3>1 DEF SweepInv, SweepTypeOK, Parent
    <3>3. entries[Parent(i)].mute \/ entries[Parent(i)].age = Stale
      <4>1. CASE seen[Parent(i)] = Stale
        <5>1. Stale <= entries[Parent(i)].age /\ entries[Parent(i)].age \in Fresh..Stale
          BY <3>1, <4>1, Facts, EntrySeqs DEF SweepInv, AgedSince
        <5> QED
          BY <5>1 DEF Stale, Fresh
      <4> QED
        BY <3>1, <3>2, <4>1 DEF Excused
    <3> QED
      BY <2>1, <3>1, <3>3 DEF Hopeless, Orphan
  <2> QED
    BY <2>1, <2>2, <2>3 DEF Hopeless
<1>3. Cardinality(Places) <= Cardinality(H)
  BY <1>1, <1>2, FS_Subset
<1> QED
  BY <1>1, <1>3, Facts, SweepConstants DEF SweepInv, BatchExact

\* A batch is never spent in vain.
THEOREM FullBatchesDecide == SweepSpec => []FullBatchDecides
  BY FullBatch, SweepInvariance, PTL
=============================================================================
