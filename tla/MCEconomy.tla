------------------------------ MODULE MCEconomy ------------------------------
(* Three players, of whom carol only trades, two hardware tiers of which alice*)
(* may buy the second, one listing and two requests in flight.  Credits are   *)
(* counted so that the fee of a trade (5 % of 20) is a whole number.          *)
EXTENDS Economy, TLC

CONSTANTS alice, bob, carol, rig, rack, r1, r2, k1, k2

MCPlayers == {alice, bob, carol}
MCItems == {rig, rack}
MCLimit == rig :> 2
MCPrice == [i \in MCItems |-> 20]
MCUnlocked == {<<alice, rig>>, <<alice, rack>>, <<bob, rig>>}
MCStartable == {<<alice, rack>>}
Symmetry == Permutations({r1, r2})
=============================================================================
