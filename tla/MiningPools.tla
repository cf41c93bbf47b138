----------------------------- MODULE MiningPools -----------------------------
(* PoolService (server/domain/pools/service.py) over the tables mining_pools *)
(* and pool_members.  Every call is one READ COMMITTED transaction, so its   *)
(* statements see what committed before each of them: joining reads the      *)
(* pool, then the player's memberships, then inserts, and dissolving sweeps  *)
(* the members it sees and commits later.  No unique index covers a player's *)
(* active membership.                                                        *)
EXTENDS Naturals, FiniteSets

CONSTANTS Players,   \* player ids
          Pools,     \* the pool ids create_pool may draw
          Requests,  \* handlers that may serve join and dissolve calls at once
          None       \* no player, no pool

VARIABLES pool,       \* pool id -> [owner, status]
          membership, \* pool id -> player -> "never" | "active" | "left"
          request     \* handler -> where it stands in its transaction

vars == <<pool, membership, request>>

Statuses == {"free", "active", "dissolved"}
Steps == {"idle", "poolSeen", "clear", "owns", "swept"}

Idle == [step |-> "idle", player |-> None, pool |-> None, swept |-> {}]

Init ==
  /\ pool = [k \in Pools |-> [owner |-> None, status |-> "free"]]
  /\ membership = [k \in Pools |-> [p \in Players |-> "never"]]
  /\ request = [r \in Requests |-> Idle]

ActivePools(p) == {k \in Pools : membership[k][p] = "active"}

ActiveMembers(k) == {p \in Players : membership[k][p] = "active"}

Begin(r, step, p, k) ==
  request' = [request EXCEPT ![r] = [Idle EXCEPT !.step = step, !.player = p, !.pool = k]]

End(r) == request' = [request EXCEPT ![r] = Idle]

\* A row that an uncommitted dissolution updated makes any other writer of it wait.
Locked(k, p) ==
  \E r \in Requests : request[r].step = "swept" /\ request[r].pool = k /\ p \in request[r].swept

CreatePool(p, k) ==
  /\ pool[k].status = "free"
  /\ pool' = [pool EXCEPT ![k] = [owner |-> p, status |-> "active"]]
  /\ membership' = [membership EXCEPT ![k][p] = "active"]
  /\ UNCHANGED request

JoinSeesPool(r, p, k) ==
  /\ request[r].step = "idle"
  /\ pool[k].status = "active"
  /\ Begin(r, "poolSeen", p, k)
  /\ UNCHANGED <<pool, membership>>

JoinSeesNoMembership(r) ==
  /\ request[r].step = "poolSeen"
  /\ ActivePools(request[r].player) = {}
  /\ request' = [request EXCEPT ![r].step = "clear"]
  /\ UNCHANGED <<pool, membership>>

JoinRefused(r) ==
  /\ request[r].step = "poolSeen"
  /\ ActivePools(request[r].player) # {}
  /\ End(r)
  /\ UNCHANGED <<pool, membership>>

JoinInserts(r) ==
  LET p == request[r].player
      k == request[r].pool IN
  /\ request[r].step = "clear"
  /\ ~Locked(k, p)
  /\ membership' = [membership EXCEPT ![k][p] = "active"]
  /\ End(r)
  /\ UNCHANGED pool

LeavePool(p, k) ==
  /\ membership[k][p] = "active"
  /\ ~Locked(k, p)
  /\ membership' = [membership EXCEPT ![k][p] = "left"]
  /\ UNCHANGED <<pool, request>>

DissolveChecks(r, k) ==
  /\ request[r].step = "idle"
  /\ pool[k].status = "active"
  /\ Begin(r, "owns", pool[k].owner, k)
  /\ UNCHANGED <<pool, membership>>

DissolveSweeps(r) ==
  LET k == request[r].pool IN
  /\ request[r].step = "owns"
  /\ \A p \in ActiveMembers(k) : ~Locked(k, p)
  /\ request' = [request EXCEPT ![r].step = "swept", ![r].swept = ActiveMembers(k)]
  /\ UNCHANGED <<pool, membership>>

DissolveCommits(r) ==
  LET k == request[r].pool IN
  /\ request[r].step = "swept"
  /\ membership' = [membership EXCEPT ![k] =
       [p \in Players |-> IF p \in request[r].swept THEN "left" ELSE @[p]]]
  /\ pool' = [pool EXCEPT ![k].status = "dissolved"]
  /\ End(r)

Next ==
  \/ \E p \in Players, k \in Pools : CreatePool(p, k) \/ LeavePool(p, k)
  \/ \E r \in Requests :
       \/ \E p \in Players, k \in Pools : JoinSeesPool(r, p, k)
       \/ \E k \in Pools : DissolveChecks(r, k)
       \/ JoinSeesNoMembership(r) \/ JoinRefused(r) \/ JoinInserts(r)
       \/ DissolveSweeps(r) \/ DissolveCommits(r)

Spec == Init /\ [][Next]_vars

TypeOK ==
  /\ pool \in [Pools -> [owner : Players \cup {None}, status : Statuses]]
  /\ membership \in [Pools -> [Players -> {"never", "active", "left"}]]
  /\ request \in [Requests -> [step : Steps, player : Players \cup {None},
       pool : Pools \cup {None}, swept : SUBSET Players]]

\* A player who founded no pool is in one pool at most (tests/integration/test_pools_api.py:156).
\* False: two joins may overlap (service.py:117-131).
OnePoolEach ==
  \A p \in Players : (\A k \in Pools : pool[k].owner # p) => Cardinality(ActivePools(p)) <= 1

\* Nobody joins a pool that was dissolved (tests/integration/test_pools_api.py:160).  False: the
\* status is read without a lock (service.py:106-131).
DissolvedIsEmpty == \A k \in Pools : pool[k].status = "dissolved" => ActiveMembers(k) = {}

=============================================================================
