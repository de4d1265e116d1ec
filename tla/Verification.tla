----------------------------- MODULE Verification -----------------------------
(***************************************************************************)
(* What the public can check of a round: cmd/server/verify.go reads in the *)
(* collection crash_broadcast of internal/mongobridge what forwardEvents   *)
(* (cmd/server/main.go) published there of the engine's events.  Composed  *)
(* with the rounds of RoundManager, to which the engine passes the time of *)
(* each transition: here, any time.                                        *)
(*                                                                         *)
(* A round of the world is a process and a number: a new process numbers   *)
(* its rounds and nonces from one again, while the collection remains.     *)
(* The seed, its hash and the crash point of a round are the round itself  *)
(* (seeds are random, hashes do not collide and CrashPoint is a function). *)
(* The ticks are left out; they fill the engine's channel, so that the     *)
(* event that opens the betting may be dropped, and the collection, which  *)
(* is capped: its oldest document may go at any time.                      *)
(***************************************************************************)
EXTENDS RoundManager

CONSTANTS
  MaxProcesses,  \* bound on the processes
  NoHash         \* no serverSeedHash was found

ASSUME VerificationConstants == MaxProcesses \in Nat \ {0}

VARIABLES
  process,   \* number of the process
  channel,   \* e.events: the two events that are published
  sent,      \* the CRASH event of the current round was sent
  docs,      \* crash_broadcast, in the order of insertion
  request,   \* what handleVerify is doing
  lost       \* history: rounds whose ROUND_START is not, or no more, in docs

rmVars == <<current, nextRound, events>>
verVars == <<rmVars, process, channel, sent, docs, request, lost>>

Rounds == (1..MaxProcesses) \X (1..MaxRounds)
ASSUME NoHashAssumption == NoHash \notin Rounds

Doc == [type: {"ROUND_START", "CRASH"}, round: Rounds]
Number(round) == round[2]
This == <<process, current.id>>

Idle == [step |-> "idle"]
Request == {Idle} \cup [step: {"crash_read"}, crash: Rounds]
  \cup [step: {"answered"}, crash: Rounds, hash: Rounds \cup {NoHash}, failed: BOOLEAN]

VerificationTypeOK ==
  /\ TypeOK
  /\ process \in 1..MaxProcesses
  /\ channel \in Seq(Doc) /\ docs \in Seq(Doc)
  /\ sent \in BOOLEAN
  /\ request \in Request
  /\ lost \subseteq Rounds

VerificationInit ==
  /\ Init
  /\ process = 1 /\ channel = <<>> /\ sent = FALSE /\ docs = <<>>
  /\ request = Idle /\ lost = {}

-----------------------------------------------------------------------------
(* The engine.                                                             *)

PublicUnchanged == UNCHANGED <<process, docs, request>>

OpenRound(now) ==
  /\ CreateRound(now)
  /\ sent' = FALSE
  /\ PublicUnchanged /\ UNCHANGED <<channel, lost>>

\* emit drops the event when the channel is full.
OpenBets(now) ==
  /\ OpenBetting(now)
  /\ \/ /\ channel' = Append(channel, [type |-> "ROUND_START", round |-> This])
        /\ UNCHANGED lost
     \/ lost' = lost \cup {This} /\ UNCHANGED channel
  /\ PublicUnchanged /\ UNCHANGED sent

Play(now) ==
  /\ CloseBetting(now) \/ Start(now) \/ Crash(now) \/ (sent /\ Settle(now))
  /\ PublicUnchanged /\ UNCHANGED <<channel, sent, lost>>

\* Mutant: the seed is published with the start of the flight.
RevealsEarly == current # NoRound /\ current.state \in {"RUNNING", "CRASHED"}

CanReveal == current # NoRound /\ current.state = "CRASHED"

\* The event that reveals the seed waits for room.
SendCrash ==
  /\ CanReveal /\ ~sent
  /\ sent' = TRUE
  /\ channel' = Append(channel, [type |-> "CRASH", round |-> This])
  /\ PublicUnchanged /\ UNCHANGED <<rmVars, lost>>

\* Events under way are lost with their process; so are the rounds, of which
\* the collection keeps what was published.
Restart ==
  /\ process < MaxProcesses
  /\ process' = process + 1
  /\ current' = NoRound /\ nextRound' = 0 /\ events' = <<>>
  /\ channel' = <<>> /\ sent' = FALSE
  /\ request' = Idle
  /\ lost' = lost \cup {channel[i].round :
                         i \in {j \in DOMAIN channel : channel[j].type = "ROUND_START"}}
  /\ UNCHANGED docs

-----------------------------------------------------------------------------
(* forwardEvents and the collection.                                       *)

\* A publication that fails is only logged.
Forward ==
  /\ channel # <<>>
  /\ channel' = Tail(channel)
  /\ \/ docs' = Append(docs, Head(channel)) /\ UNCHANGED lost
     \/ /\ lost' = IF Head(channel).type = "ROUND_START"
                   THEN lost \cup {Head(channel).round} ELSE lost
        /\ UNCHANGED docs
  /\ UNCHANGED <<rmVars, process, sent, request>>

Evict ==
  /\ docs # <<>>
  /\ docs' = Tail(docs)
  /\ lost' = IF Head(docs).type = "ROUND_START" THEN lost \cup {Head(docs).round} ELSE lost
  /\ UNCHANGED <<rmVars, process, channel, sent, request>>

-----------------------------------------------------------------------------
(* handleVerify.                                                           *)

Found(type, n) == {i \in DOMAIN docs : docs[i].type = type /\ Number(docs[i].round) = n}

\* Mutant: the latest of the documents that match.
Newest(type, n) ==
  docs[CHOOSE i \in Found(type, n) : \A j \in Found(type, n) : i >= j].round

\* FindOne: the oldest of the documents that match.
Oldest(type, n) ==
  docs[CHOOSE i \in Found(type, n) : \A j \in Found(type, n) : i <= j].round

VerifyUnchanged == UNCHANGED <<rmVars, process, channel, sent, docs, lost>>

\* The end of the round is read first: without it there is nothing to tell.
ReadCrash(n) ==
  /\ request.step \in {"idle", "answered"}
  /\ \/ /\ Found("CRASH", n) # {}
        /\ request' = [step |-> "crash_read", crash |-> Oldest("CRASH", n)]
     \/ Found("CRASH", n) = {} /\ request' = Idle
  /\ VerifyUnchanged

\* An error of the second read is taken for an announcement never made.
ReadStart ==
  /\ request.step = "crash_read"
  /\ \E failed \in BOOLEAN :
       LET n == Number(request.crash)
           hash == IF failed \/ Found("ROUND_START", n) = {} THEN NoHash
                   ELSE Oldest("ROUND_START", n)
       IN request' = [step |-> "answered", crash |-> request.crash,
                      hash |-> hash, failed |-> failed]
  /\ VerifyUnchanged

-----------------------------------------------------------------------------
VerificationNext ==
  \/ \E now \in Times : OpenRound(now) \/ OpenBets(now) \/ Play(now)
  \/ SendCrash \/ Restart \/ Forward \/ Evict \/ ReadStart
  \/ \E n \in 1..MaxRounds : ReadCrash(n)

VerificationSpec == VerificationInit /\ [][VerificationNext]_verVars

-----------------------------------------------------------------------------
\* What is published, or on its way, and what is answered reveals the seed of
\* no round of this process that has not crashed: a number used again by a new
\* process never opens the round being played.
Over(round) ==
  \/ round[1] < process
  \/ Number(round) < nextRound
  \/ current # NoRound /\ round = This /\ current.state \in {"CRASHED", "SETTLED"}
NoEarlyReveal ==
  /\ \A i \in DOMAIN docs : docs[i].type = "CRASH" => Over(docs[i].round)
  /\ \A i \in DOMAIN channel : channel[i].type = "CRASH" => Over(channel[i].round)
  /\ request # Idle => Over(request.crash)

\* An honest round is not denied: the hash of its seed is found, however the
\* reads fall among the publications, unless its announcement is lost or gone,
\* could not be read, or an earlier process announced a round of that number.
HonestVerifies ==
  request.step = "answered" /\ request.hash # request.crash =>
    \/ request.crash \in lost
    \/ request.failed
    \/ request.hash # NoHash /\ request.hash[1] < request.crash[1]

\* A round leaves its states in order and numbers are not used again, as long
\* as the process lives.
ProcessMovesForward ==
  [][process' = process =>
     /\ current # NoRound /\ current' # NoRound /\ current' # current
          => Before(current, current')
     /\ current = NoRound /\ current' # NoRound => nextRound < current'.id
     /\ nextRound <= nextRound']_verVars

-----------------------------------------------------------------------------
(* What the comment says, and the code does not always do.                 *)

\* verify.go:17: the seed is checked against the hash published before the
\* round: unless that is lost or cannot be read, the hash of that very round.
HashOfTheRound ==
  request.step = "answered" /\ request.hash # request.crash =>
    request.crash \in lost \/ request.failed
=============================================================================
