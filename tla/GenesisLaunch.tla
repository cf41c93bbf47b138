---------------------------- MODULE GenesisLaunch ----------------------------
(* GenesisService (server/domain/genesis/service.py).  Creating, announcing  *)
(* and rolling back a genesis each read the record in one transaction and    *)
(* write in another one, which looks at nothing again; they share            *)
(* blockchain_active_block and blockchain_finalized_blocks with the mining   *)
(* runtime.                                                                  *)
EXTENDS Integers, FiniteSets

CONSTANTS Geneses,      \* ids of genesis records
          Admins,       \* handlers of administrators' calls
          MaxBlock,     \* bound: the highest block the mining runtime finalizes
          MaxRollbacks, \* bound: rollbacks of one record
          Players,      \* players of the snapshot
          Requested,    \* player -> the tier asked for it
          None

LaunchAssumption == None \notin Int /\ Requested \in [Players -> Int]

VARIABLES record,    \* genesis -> [exists, announced, archived]
          posted,    \* genesis -> starting balances on the ledger, less those taken back
          tier,      \* player -> players.player_tier
          chain,     \* [active: block number or None, genesis, mined: finalized block numbers]
          admin,     \* handler -> the call it serves
          lapses     \* not program state: what went wrong so far, see Lapses

vars == <<record, posted, tier, chain, admin, lapses>>

\* overlap: two calls were open at once; again: an archived genesis was rolled back;
\* mined: a genesis was created or rolled back on a chain with mined blocks.
Lapses == {"overlap", "again", "mined"}

Idle == [step |-> "idle", genesis |-> None, seen |-> [exists |-> FALSE, announced |-> FALSE, archived |-> FALSE]]

Init ==
  /\ record = [g \in Geneses |-> [exists |-> FALSE, announced |-> FALSE, archived |-> FALSE]]
  /\ posted = [g \in Geneses |-> 0]
  /\ tier = [p \in Players |-> 1]
  /\ chain = [active |-> None, genesis |-> FALSE, mined |-> {}]
  /\ admin = [a \in Admins |-> Idle]
  /\ lapses = {}

Current == {g \in Geneses : record[g].exists /\ ~record[g].archived}

Finalized == chain.mined \cup (IF chain.genesis THEN {1} ELSE {})

\* What _normalize_player_snapshots makes of a requested tier.
StartingTier(p) == IF Requested[p] < 1 THEN 1 ELSE Requested[p]

\* The readiness probe that create_genesis_block does not ask.
CleanSlate == \A n \in Finalized : n <= 1

\* get_genesis_status
Status ==
  IF Current = {} THEN "pre-genesis"
  ELSE IF \A g \in Current : ~record[g].announced THEN "genesis-created"
  ELSE IF ~CleanSlate THEN "post-genesis" ELSE "genesis-announced"

Reads(a, step, g) ==
  /\ admin[a].step = "idle"
  /\ admin' = [admin EXCEPT ![a] = [step |-> step, genesis |-> g, seen |-> record[g]]]
  /\ lapses' = lapses \cup {l \in {"overlap"} : \E b \in Admins : admin[b].step # "idle"}
  /\ UNCHANGED <<record, posted, tier, chain>>

\* create_genesis_block finds no record that is not archived.
CreateChecks(a, g) ==
  /\ Current = {}
  /\ ~record[g].exists
  /\ \A b \in Admins : admin[b].genesis # g
  /\ Reads(a, "create", g)

CreatePersists(a) ==
  LET g == admin[a].genesis IN
  /\ admin[a].step = "create"
  /\ record' = [record EXCEPT ![g].exists = TRUE]
  /\ posted' = [posted EXCEPT ![g] = @ + 1]
  /\ tier' = [p \in Players |-> StartingTier(p)]
  /\ chain' = [chain EXCEPT !.genesis = @ \/ 1 \notin chain.mined, !.active = 2]
  /\ admin' = [admin EXCEPT ![a] = Idle]
  /\ lapses' = lapses \cup {l \in {"mined"} : ~CleanSlate}

AnnounceChecks(a, g) ==
  /\ record[g].exists
  /\ ~record[g].archived
  /\ ~record[g].announced
  /\ Reads(a, "announce", g)

\* The row is written as it was read, with the announcement and not archived.
AnnounceStores(a) ==
  LET g == admin[a].genesis IN
  /\ admin[a].step = "announce"
  /\ record' = [record EXCEPT ![g].announced = TRUE, ![g].archived = FALSE]
  /\ admin' = [admin EXCEPT ![a] = Idle]
  /\ UNCHANGED <<posted, tier, chain, lapses>>

RollbackChecks(a, g) ==
  /\ record[g].exists
  /\ ~record[g].announced
  /\ posted[g] > 1 - MaxRollbacks
  /\ Reads(a, "rollback", g)

\* Mutant: the starting balances are not taken back.
RollbackKeepsBalances(a) ==
  LET g == admin[a].genesis IN
  /\ admin[a].step = "rollback"
  /\ record' = [record EXCEPT ![g].archived = TRUE]
  /\ tier' = [p \in Players |-> 1]
  /\ chain' = [chain EXCEPT !.genesis = FALSE, !.active = None]
  /\ admin' = [admin EXCEPT ![a] = Idle]
  /\ lapses' = lapses \cup {l \in {"again"} : admin[a].seen.archived} \cup {l \in {"mined"} : chain.mined # {}}
  /\ UNCHANGED <<posted>>

RollbackPersists(a) ==
  LET g == admin[a].genesis IN
  /\ admin[a].step = "rollback"
  /\ record' = [record EXCEPT ![g].archived = TRUE]
  /\ posted' = [posted EXCEPT ![g] = @ - 1]
  /\ tier' = [p \in Players |-> 1]
  /\ chain' = [chain EXCEPT !.genesis = FALSE, !.active = None]
  /\ admin' = [admin EXCEPT ![a] = Idle]
  /\ lapses' = lapses \cup {l \in {"again"} : admin[a].seen.archived} \cup {l \in {"mined"} : chain.mined # {}}

\* The mining runtime finalizes its active block, block 1 when there is no active row.
MineBlock ==
  LET n == IF chain.active = None THEN 1 ELSE chain.active IN
  /\ n <= MaxBlock
  /\ chain' = [chain EXCEPT !.active = n + 1,
                            !.mined = IF n \in Finalized THEN @ ELSE @ \cup {n}]
  /\ UNCHANGED <<record, posted, tier, admin, lapses>>

Next ==
  \/ \E a \in Admins, g \in Geneses : CreateChecks(a, g) \/ AnnounceChecks(a, g) \/ RollbackChecks(a, g)
  \/ \E a \in Admins : CreatePersists(a) \/ AnnounceStores(a) \/ RollbackPersists(a)
  \/ MineBlock

Spec == Init /\ [][Next]_vars

TypeOK ==
  /\ record \in [Geneses -> [exists : BOOLEAN, announced : BOOLEAN, archived : BOOLEAN]]
  /\ posted \in [Geneses -> Int]
  /\ tier \in [Players -> Nat \ {0}]
  /\ chain \in [active : Nat \cup {None}, genesis : BOOLEAN, mined : SUBSET Nat]
  /\ admin \in [Admins -> [step : {"idle", "create", "announce", "rollback"}, genesis : Geneses \cup {None},
                           seen : [exists : BOOLEAN, announced : BOOLEAN, archived : BOOLEAN]]]
  /\ lapses \subseteq Lapses

Stage(status) ==
  CASE status = "post-genesis" -> 2 [] status = "genesis-announced" -> 1 [] OTHER -> 0

Advances == "overlap" \notin lapses' => Stage(Status') >= Stage(Status)

\* As long as administrators' calls do not overlap, the launch status players are shown never
\* falls back once the genesis is announced (service.py:162-167, 210-213, 233-251).
LaunchNeverRegresses == [][Advances]_vars

\* Without overlaps and repeated rollbacks, the ledger holds the starting balances of the
\* current genesis only, and the tiers are its tiers while there is one (service.py:464-501, 551-601).
LedgerFollowsGenesis ==
  lapses \cap {"overlap", "again"} = {} =>
    /\ \A g \in Geneses : posted[g] = IF g \in Current THEN 1 ELSE 0
    /\ \A p \in Players : tier[p] = IF Current = {} THEN 1 ELSE StartingTier(p)

\* Unless a genesis was created over mined blocks beyond the first, or rolled back with any,
\* the block being mined is not one that is finalized (service.py:502-526, 581-588).
ActiveBlockIsNew ==
  "mined" \notin lapses => chain.active \notin Finalized

\* An announced genesis is immutable to a rollback (test_genesis_service.py:113): it is never archived.
\* False: a rollback reads the record before it writes, without a lock (service.py:210-235).
AnnouncedIsImmutable == \A g \in Geneses : ~(record[g].announced /\ record[g].archived)
=============================================================================
