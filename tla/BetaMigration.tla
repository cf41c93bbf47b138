---------------------------- MODULE BetaMigration ----------------------------
(* BetaMigrationService (server/domain/genesis/migration.py).  A migration   *)
(* runs under the service's lock: it moves the profile in memory, remembers  *)
(* the pair and posts the ledger entry last, in a transaction that may fail. *)
(* All but the ledger is memory of the process and lost with it.             *)
EXTENDS Integers, FiniteSets, Functions

CONSTANTS Beta,         \* ids of beta profiles
          Production,   \* ids of production players; may overlap Beta
          BetaBalance,  \* beta id -> balance in the smallest unit (millionths)
          BalanceLimit, \* the highest balance that is migrated
          MaxRestarts   \* bound: restarts of the process

MigrationAssumption ==
  IsFiniteSet(Beta) /\ IsFiniteSet(Production) /\ BetaBalance \in [Beta -> Int]

Pairs == Beta \X Production

VARIABLES balance,    \* production id -> balance of its profile
          migrated,   \* _migrated_pairs
          audit,      \* pairs with an audit entry
          ledger,     \* pair -> number of its beta_migration entries, each of what is transferred
          failed,     \* not program state: pairs of this life without a ledger entry of it
          restarts    \* not program state: restarts so far

vars == <<balance, migrated, audit, ledger, failed, restarts>>

Init ==
  /\ balance = [p \in Production |-> 0]
  /\ migrated = {}
  /\ audit = {}
  /\ ledger = [c \in Pairs |-> 0]
  /\ failed = {}
  /\ restarts = 0

\* Decimal.quantize rounds half to even: n tenths to a whole number of units.
Quantize(n) ==
  LET q == n \div 10
      r == n % 10 IN
  IF r > 5 \/ (r = 5 /\ q % 2 = 1) THEN q + 1 ELSE q

\* calculate_migration_loss_tax
LossTax(b) == Quantize(BetaBalance[b])

Transferred(b) == Quantize(9 * BetaBalance[b])

\* verify_migration_data
Valid(b, p) ==
  /\ b # p
  /\ <<b, p>> \notin migrated
  /\ BetaBalance[b] >= 0 /\ BetaBalance[b] <= BalanceLimit

MoveProfile(b, p) ==
  /\ Valid(b, p)
  /\ balance' = [balance EXCEPT ![p] = @ + Transferred(b)]
  /\ migrated' = migrated \cup {<<b, p>>}
  /\ audit' = audit \cup {<<b, p>>}
  /\ UNCHANGED restarts

MigrateBetaPlayer(b, p) ==
  /\ MoveProfile(b, p)
  /\ ledger' = [ledger EXCEPT ![<<b, p>>] = @ + 1]
  /\ UNCHANGED failed

\* The ledger transaction raises after the profile was moved, or there is no database to post to.
LedgerFails(b, p) ==
  /\ MoveProfile(b, p)
  /\ failed' = failed \cup {<<b, p>>}
  /\ UNCHANGED ledger

\* The service is made anew: its profiles, pairs and audit entries are gone, the ledger is not.
Restart ==
  /\ restarts < MaxRestarts
  /\ balance' = [p \in Production |-> 0]
  /\ migrated' = {}
  /\ audit' = {}
  /\ failed' = {}
  /\ restarts' = restarts + 1
  /\ UNCHANGED ledger

Next ==
  \/ \E b \in Beta, p \in Production : MigrateBetaPlayer(b, p) \/ LedgerFails(b, p)
  \/ Restart

Spec == Init /\ [][Next]_vars

TypeOK ==
  /\ balance \in [Production -> Int]
  /\ {migrated, audit, failed} \subseteq SUBSET Pairs
  /\ ledger \in [Pairs -> Nat]
  /\ restarts \in Nat

\* What the pairs of c bring.
Brought(c) == SumFunctionOnSet([d \in Pairs |-> Transferred(d[1])], c)

\* However often migrations are tried again, a life of the process pays a pair once: profiles hold
\* exactly what the pairs migrated in it brought, and all but one of a pair's ledger entries, or all
\* of them when its entry failed, are of earlier lives.  Both parts are rounded, so together they
\* may miss the beta balance, by one unit (migration.py:40-119).
PaidOncePerLife ==
  /\ \A p \in Production :
       balance[p] = Brought({c \in migrated : c[2] = p})
  /\ \A c \in Pairs : ledger[c] <= restarts + (IF c \in migrated \ failed THEN 1 ELSE 0)
  /\ \A c \in migrated \ failed : ledger[c] > 0
  /\ \A b \in Beta : Transferred(b) + LossTax(b) - BetaBalance[b] \in -1 .. 1

\* A pair that was migrated is rejected (test_beta_migration_service.py:42): the ledger never has
\* two entries of one pair.  False: a restart forgets the pair (migration.py:36).
PairsPaidOnce == \A c \in Pairs : ledger[c] <= 1
=============================================================================
