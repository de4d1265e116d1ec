------------------------------ MODULE MCLedger ------------------------------
(* Instance of Ledger for TLC: two callers, so that a decision races with  *)
(* its opposite and an insertion with another; two keys and two ids, so    *)
(* that drawn ids collide.  Callers, keys and ids are interchangeable, and *)
(* every property is a safety property: the symmetry is sound.             *)
EXTENDS Ledger, TLC

Symmetry == Permutations(Callers) \cup Permutations(Keys) \cup Permutations(Txns)
=============================================================================
