---------------------------- MODULE MCCallbackQueue ----------------------------
(* Instance of CallbackQueue for TLC.  Callbacks share nothing but workers, so *)
(* a behaviour follows one of them, with a ledger entry or without.            *)
EXTENDS CallbackQueue

Untouched(cb) ==
  /\ place[cb] = "out" /\ ledger[cb] = "PENDING"
  /\ \A w \in Processes : sweep[w] # Idle => sweep[w].cb # cb

Follows(cb) == \A d \in Callbacks \ {cb} : Untouched(d)

OneSpec ==
  /\ Init /\ [][Next /\ \E cb \in Callbacks : Follows(cb)']_vars
  /\ \A w \in Processes : WF_vars(Worker(w))
  /\ \A cb \in Callbacks : WF_vars(BecomesDue(cb))
=============================================================================
