---------------------------- MODULE MCStakeFlow ----------------------------
(* Instances of StakeFlow for TLC: one bet id, or two on the same panel.   *)
EXTENDS StakeFlow, TLC

CONSTANTS b1, b2

OneBet == {b1}
TwoBets == {b1, b2}
OnePanel == [b \in TwoBets |-> 1]

\* No two handlers are told apart, nor two bet ids on one panel.
Symmetry == Permutations(TwoBets) \cup Permutations(Handlers)

AtWork == {h \in Handlers : handlers[h] # Idle}
InPlay == {b \in BetIds : debit[b] # "NONE" \/ \E h \in AtWork : BetOf(h) = b}

\* Bound on what goes wrong: an error or a restart, twice in all.
FailureBound == faults + restarts <= 2

\* Bound on what two bet ids do in one behaviour: nothing goes wrong, and from the
\* second round on one connection is at work at a time.
TogetherBound ==
  Cardinality(InPlay) > 1 =>
    /\ faults = 0 /\ restarts = 0
    /\ round < 2 \/ Cardinality(AtWork) < 2
=============================================================================
