-------------------------- MODULE MCMiningRuntime --------------------------
(* Small instances of MiningRuntime for TLC.                               *)
EXTENDS MiningRuntime, TLC

CONSTANTS o1, o2, p1, p2, t1, t2

\* Sound for the safety properties: none of them names an element of these sets.
Symmetry == Permutations(Threads) \cup Permutations(Ops) \cup Permutations(Players)
=============================================================================
