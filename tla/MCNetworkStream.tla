-------------------------- MODULE MCNetworkStream --------------------------
(* Small instances of NetworkStream for TLC.                               *)
EXTENDS NetworkStream, TLC

CONSTANTS s1, h1, h2, p1, p2

\* The one session subscribes to "mine"; "other" is every row its channel filters out.
MCSubscription == [s \in Sessions |-> "mine"]

\* Sound for the safety properties: none of them names a handler or a publisher.
Symmetry == Permutations(Handlers) \cup Permutations(Publishers)
=============================================================================
