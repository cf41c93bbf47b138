------------------------------ MODULE MCServices ------------------------------
(* Small instances of the services for TLC.                                   *)
EXTENDS Services, Integers, TLC

CONSTANTS p1, k1, k2, e1

\* One fork of two branches, one player, and a ledger that moves.
MCEndOrder == <<e1>>
MCBranches == <<"a", "b">>
MCForkPlayers == <<p1>>
MCMaxWork == e1 :> 1

\* Two loads of one profile, and a second, faster machine.
MCRate == k1 :> 1 @@ k2 :> 2
MCCap == <<1, 2, 3>>

\* A negative reward too, as an event may make one; and events of -1, 0, 1/2, 1 and 2.
MCRewards == {-1, 1, 2, 5, 7}
MCModifiers == {-2, 0, 1, 2, 4}

\* Two fields, each with a subscription of its own, that change twice.
MCFieldsOf == "hash" :> {"rate"} @@ "tier" :> {"tier"}
=============================================================================
