----------------------------- MODULE Connections -----------------------------
(***************************************************************************)
(* The connections of cmd/server: gateway.go (handleUpgrade, register,     *)
(* unregister, readPump, writePump) and the count of connections of        *)
(* wssec.go (acquire, release).                                            *)
(*                                                                         *)
(* Three goroutines serve a connection: the handler of the upgrade, which  *)
(* ends once it has greeted the player, the reader and the writer.  They   *)
(* share its socket, which any of them may close, and so may the upgrade   *)
(* of the player's next connection, and done, which is closed once.  The   *)
(* peer may go silent without closing.                                     *)
(*                                                                         *)
(* A connection is a slot of the model: it is used again once all three    *)
(* goroutines have ended.  What is sent, and what a message makes the      *)
(* reader do, is left to the other modules; a token that is refused        *)
(* changes nothing.  Whether the rate limiter lets a message in, or cuts   *)
(* the connection, is left open.                                           *)
(***************************************************************************)
EXTENDS Integers, FiniteSets

CONSTANTS
  Conns,
  Players,
  PlayerOf,   \* connection -> its player
  MaxConns,   \* s.maxConns
  NoConn      \* the player is not connected

ASSUME ConnectionConstants ==
  /\ IsFiniteSet(Conns) /\ NoConn \notin Conns
  /\ PlayerOf \in [Conns -> Players]
  /\ MaxConns \in Nat \ {0}

VARIABLES
  conns,     \* s.conns
  clients,   \* gw.clients: player -> connection
  upgrades,  \* connection -> next step of handleUpgrade
  readers,   \* connection -> next step of readPump
  writers,   \* connection -> next step of writePump
  open,      \* sockets the server has not closed
  alive,     \* sockets with a peer that answers pings
  done       \* connections whose c.done is closed

sockets == <<open, alive>>
vars == <<conns, clients, upgrades, readers, writers, sockets, done>>

UpgradeSteps == {"off", "refused", "upgrade", "failed", "register", "start", "greet"}
ReaderSteps == {"off", "read", "serve", "unregister", "end", "close", "release"}
WriterSteps == {"off", "write"}

TypeOK ==
  /\ conns \in Nat
  /\ clients \in [Players -> Conns \cup {NoConn}]
  /\ \A p \in Players : clients[p] # NoConn => PlayerOf[clients[p]] = p
  /\ upgrades \in [Conns -> UpgradeSteps]
  /\ readers \in [Conns -> ReaderSteps]
  /\ writers \in [Conns -> WriterSteps]
  /\ open \subseteq Conns /\ alive \subseteq Conns /\ done \subseteq Conns

Init ==
  /\ conns = 0
  /\ clients = [p \in Players |-> NoConn]
  /\ upgrades = [c \in Conns |-> "off"]
  /\ readers = [c \in Conns |-> "off"]
  /\ writers = [c \in Conns |-> "off"]
  /\ open = {} /\ alive = {} /\ done = {}

-----------------------------------------------------------------------------
(* handleUpgrade.                                                          *)

Upgrading(c, step) == upgrades[c] = step
UpgradeTo(c, step) == upgrades' = [upgrades EXCEPT ![c] = step]
Free(c) == Upgrading(c, "off") /\ readers[c] = "off" /\ writers[c] = "off"

\* Mutant: the count is compared before it is raised.
AcquireOneMore(c) ==
  /\ Free(c)
  /\ conns' = conns + 1
  /\ UpgradeTo(c, IF conns > MaxConns THEN "refused" ELSE "upgrade")
  /\ UNCHANGED <<clients, readers, writers, sockets, done>>

\* acquire counts first and looks afterwards ...
Acquire(c) ==
  /\ Free(c)
  /\ conns' = conns + 1
  /\ UpgradeTo(c, IF conns' > MaxConns THEN "refused" ELSE "upgrade")
  /\ UNCHANGED <<clients, readers, writers, sockets, done>>

\* Mutant: an upgrade that fails keeps its place.
GiveBackRefused(c) ==
  /\ Upgrading(c, "refused") \/ Upgrading(c, "failed")
  /\ conns' = IF Upgrading(c, "refused") THEN conns - 1 ELSE conns
  /\ UpgradeTo(c, "off")
  /\ UNCHANGED <<clients, readers, writers, sockets, done>>

\* ... and gives back what it counted too many, as a failed upgrade does.
GiveBack(c) ==
  /\ Upgrading(c, "refused") \/ Upgrading(c, "failed")
  /\ conns' = conns - 1
  /\ UpgradeTo(c, "off")
  /\ UNCHANGED <<clients, readers, writers, sockets, done>>

\* upgrader.Upgrade, and the new client.
Upgrade(c) ==
  /\ Upgrading(c, "upgrade")
  /\ \/ /\ UpgradeTo(c, "failed")
        /\ UNCHANGED <<sockets, done>>
     \/ /\ UpgradeTo(c, "register")
        /\ open' = open \cup {c} /\ alive' = alive \cup {c}
        /\ done' = done \ {c}
  /\ UNCHANGED <<conns, clients, readers, writers>>

\* Mutant: the connection that is replaced is left open.
RegisterBeside(c) ==
  /\ Upgrading(c, "register")
  /\ UpgradeTo(c, "start")
  /\ clients' = [clients EXCEPT ![PlayerOf[c]] = c]
  /\ UNCHANGED <<conns, readers, writers, sockets, done>>

\* register: the player's connection of before is closed.
Register(c) ==
  /\ Upgrading(c, "register")
  /\ UpgradeTo(c, "start")
  /\ clients' = [clients EXCEPT ![PlayerOf[c]] = c]
  /\ open' = open \ {clients[PlayerOf[c]]}
  /\ UNCHANGED <<conns, readers, writers, alive, done>>

StartPumps(c) ==
  /\ Upgrading(c, "start")
  /\ UpgradeTo(c, "greet")
  /\ readers' = [readers EXCEPT ![c] = "read"]
  /\ writers' = [writers EXCEPT ![c] = "write"]
  /\ UNCHANGED <<conns, clients, sockets, done>>

\* CONNECTED, syncRoundState and BALANCE, for which the wallet is asked: the
\* connection may be over by then.
Greet(c) ==
  /\ Upgrading(c, "greet")
  /\ UpgradeTo(c, "off")
  /\ UNCHANGED <<conns, clients, readers, writers, sockets, done>>

Handshake(c) ==
  GiveBack(c) \/ Upgrade(c) \/ Register(c) \/ StartPumps(c) \/ Greet(c)

-----------------------------------------------------------------------------
(* readPump.                                                               *)

Reading(c, step) == readers[c] = step
ReaderTo(c, step) == readers' = [readers EXCEPT ![c] = step]

\* A message of the peer: passed over, served, or one too many.
Read(c) ==
  /\ Reading(c, "read") /\ c \in open \cap alive
  /\ ReaderTo(c, "serve") \/ ReaderTo(c, "unregister")
  /\ UNCHANGED <<conns, clients, upgrades, writers, sockets, done>>

Served(c) ==
  /\ Reading(c, "serve")
  /\ ReaderTo(c, "read")
  /\ UNCHANGED <<conns, clients, upgrades, writers, sockets, done>>

\* The socket is closed, or no pong has come for wsPongWait.
ReadFails(c) ==
  /\ Reading(c, "read") /\ c \notin open \cap alive
  /\ ReaderTo(c, "unregister")
  /\ UNCHANGED <<conns, clients, upgrades, writers, sockets, done>>

\* Mutant: whatever connection the player has is taken out.
UnregisterPlayer(c) ==
  /\ Reading(c, "unregister")
  /\ ReaderTo(c, "end")
  /\ clients' = [clients EXCEPT ![PlayerOf[c]] = NoConn]
  /\ UNCHANGED <<conns, upgrades, writers, sockets, done>>

\* unregister takes out the connection if it is still the player's ...
Unregister(c) ==
  /\ Reading(c, "unregister")
  /\ ReaderTo(c, "end")
  /\ clients' = IF clients[PlayerOf[c]] = c
                THEN [clients EXCEPT ![PlayerOf[c]] = NoConn] ELSE clients
  /\ UNCHANGED <<conns, upgrades, writers, sockets, done>>

\* ... and closes done, for the writer.
End(c) ==
  /\ Reading(c, "end")
  /\ ReaderTo(c, "close")
  /\ done' = done \cup {c}
  /\ UNCHANGED <<conns, clients, upgrades, writers, sockets>>

CloseSocket(c) ==
  /\ Reading(c, "close")
  /\ ReaderTo(c, "release")
  /\ open' = open \ {c}
  /\ UNCHANGED <<conns, clients, upgrades, writers, alive, done>>

Release(c) ==
  /\ Reading(c, "release")
  /\ ReaderTo(c, "off")
  /\ conns' = conns - 1
  /\ UNCHANGED <<clients, upgrades, writers, sockets, done>>

Reader(c) ==
  \/ Served(c) \/ ReadFails(c) \/ Unregister(c) \/ End(c) \/ CloseSocket(c) \/ Release(c)

-----------------------------------------------------------------------------
(* writePump.                                                              *)

WriterOnly == UNCHANGED <<conns, clients, upgrades, readers, alive, done>>

\* A message, or a ping, cannot be written: the writer closes the socket.
WriteFails(c) ==
  /\ writers[c] = "write" /\ c \notin open \cap alive
  /\ writers' = [writers EXCEPT ![c] = "off"]
  /\ open' = open \ {c}
  /\ WriterOnly

WriterDone(c) ==
  /\ writers[c] = "write" /\ c \in done
  /\ writers' = [writers EXCEPT ![c] = "off"]
  /\ WriterOnly /\ UNCHANGED <<open>>

Writer(c) == WriteFails(c) \/ WriterDone(c)

\* The peer goes away, with or without a word.
PeerGoes(c) ==
  /\ c \in alive
  /\ alive' = alive \ {c}
  /\ UNCHANGED <<conns, clients, upgrades, readers, writers, open, done>>

-----------------------------------------------------------------------------
Next ==
  \E c \in Conns : Acquire(c) \/ Handshake(c) \/ Read(c) \/ Reader(c) \/ Writer(c)
                  \/ PeerGoes(c)

\* Each goroutine goes on by itself: its waits have time limits.  A peer need
\* not send anything, nor anyone connect.
Spec ==
  /\ Init /\ [][Next]_vars
  /\ \A c \in Conns : WF_vars(Handshake(c)) /\ WF_vars(Reader(c)) /\ WF_vars(Writer(c))

-----------------------------------------------------------------------------
\* The count is what the goroutines have taken and not given back, on every way
\* a connection can end or fail to begin.
Holds(c) == ~Upgrading(c, "off") /\ ~Upgrading(c, "greet")
CountExact ==
  conns = Cardinality({c \in Conns : Holds(c) \/ ~Reading(c, "off")})

\* No more connections than maxConns are served, though the count goes over it
\* between its two steps.
NeverOver ==
  Cardinality({c \in Conns : ~Reading(c, "off") \/ Upgrading(c, "upgrade")
                             \/ Upgrading(c, "register") \/ Upgrading(c, "start")}) <= MaxConns

\* A connection being served whose socket is open is the one its player is
\* known by, whoever connects and whatever connection ends meanwhile: a player
\* is never left connected and without the broadcasts.
ServedIsKnown ==
  \A c \in open : Reading(c, "read") \/ Reading(c, "serve") => clients[PlayerOf[c]] = c

\* A connection that was replaced, or whose peer has gone, ends, and all its
\* goroutines with it: its place is free again.
PlacesReturn ==
  \A c \in Conns :
    (Reading(c, "read") /\ (c \notin alive \/ clients[PlayerOf[c]] # c)) ~> Free(c)
=============================================================================
