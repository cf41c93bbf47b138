----------------------------- MODULE MCOperations -----------------------------
(* Small instances of the operations for TLC.                                 *)
EXTENDS Operations, TLC

CONSTANTS p1, p2, e1, e2, r1, r2

\* Two forks, either of which may stay without branches.
MCEndOrder == <<e1, e2>>
MCBranches == <<"a", "b">>
MCForkPlayers == <<p1>>
MCMaxWork == e1 :> 0 @@ e2 :> 0

\* Two players of the snapshot, of whom one asks for the second tier.
MCRequested == p1 :> 0 @@ p2 :> 2

\* A balance below zero, two that end in a half either way and one above the limit; the ids 3 and 4
\* are ids of production players as well.
MCBeta == 1 .. 4
MCBetaBalance == [b \in MCBeta |-> 10 * b - 15]

\* Two processes that serve one thread each.
MCProcessOf == r1 :> 1 @@ r2 :> 2
MCSettable == {[tested |-> 0, other |-> 1]}
MCDigest == p1 :> 1

\* Three versions: one adds a nested file, one drops a file and has a delta of the other.
MCManifest == <<{"exe"}, {"exe", "pak"}, {"pak"}>>
MCDeltas == <<{}, {}, {"pak"}>>
=============================================================================
