------------------------------ MODULE Operations -------------------------------
(* What operators, workers and the launcher do, side by side.  As in Services,*)
(* "focus" says which of them runs, of those in "Parts".                      *)
EXTENDS Naturals, Sequences

CONSTANTS
  Parts,                                                       \* the parts an instance looks at
  Events, EndOrder, Branches, ForkPlayers, Handlers, Worker,   \* forks
  MaxWork, MaxBalance, TopRanks,
  Emissions, Firsts, BatchSize, MaxTries, MaxCrashes,          \* telemetry
  Window, MaxRequests, Interval, BackoffMax, MaxFailures,      \* cleanups
  MaxElapsed, Lags,
  Geneses, Admins, MaxBlock, MaxRollbacks, Players, Requested, \* genesis; Admins: console too
  Beta, Production, BetaBalance, BalanceLimit, MaxRestarts,    \* beta migration
  Processes, Threads, ProcessOf, Values, Settable, Initial,    \* economy; Values: console too
  Winning, TestPlayers, Digest, MaxVersion,
  ContentVersions, Roles, Stages,                              \* content packs
  Items,                                                       \* content validator
  MaxAudit, MaxSum,                                            \* admin console
  Files, Manifest, Deltas, Nested, MaxStops,                  \* launcher
  None

VARIABLES focus,
          event, branch, score, rewards, snapshot, balance, call, queue, resolved, announced,
          buffer, pending, sending, stored, marked, posts, fate, crashes, outage,
          persisted, limiter, stamps, worker, granted,
          record, posted, tier, chain, admin, slips,
          profile, migrated, moves, ledger, failed, restarts,
          rows, past, known, thread, experiment, assigned, inserting, assignment,
          version, active,
          graph, roots, frames, visited, cycles,
          config, lock, switch, sum, entries, cancelled, clock, audit, staff,
          released, download, installed, backup, current, last, step, wanted, todo, stops, torn

eventVars == <<event, branch, score, rewards, snapshot, balance, call, queue, resolved, announced>>
telemetryVars == <<buffer, pending, sending, stored, marked, posts, fate, crashes, outage>>
cleanupVars == <<persisted, limiter, stamps, worker, granted>>
genesisVars == <<record, posted, tier, chain, admin, slips>>
migrationVars == <<profile, migrated, moves, ledger, failed, restarts>>
tuningVars == <<rows, past, known, thread, experiment, assigned, inserting, assignment>>
contentVars == <<version, active>>
graphVars == <<graph, roots, frames, visited, cycles>>
consoleVars == <<config, lock, switch, sum, entries, cancelled, clock, audit, staff>>
launcherVars == <<released, download, installed, backup, current, last, step, wanted, todo, stops, torn>>
vars == <<focus, eventVars, telemetryVars, cleanupVars, genesisVars, migrationVars, tuningVars,
          contentVars, graphVars, consoleVars, launcherVars>>

Forks == INSTANCE GameEvents WITH Players <- ForkPlayers

Metrics == INSTANCE Telemetry WITH Events <- Emissions

Cleanup == INSTANCE Maintenance

Launch == INSTANCE GenesisLaunch WITH lapses <- slips

Migration == INSTANCE BetaMigration WITH balance <- profile, audit <- moves

Tuning == INSTANCE EconomyTuning WITH stored <- rows, history <- past, Players <- TestPlayers

Content == INSTANCE ContentPipeline WITH Versions <- ContentVersions

Validator == INSTANCE ContentValidator WITH active <- frames

Console == INSTANCE AdminConsole WITH
  balance <- sum, posted <- entries, call <- staff, MaxBalance <- MaxSum

Launcher == INSTANCE LauncherUpdate

ASSUME OperationsAssumption ==
  /\ Validator!ItemsAssumption /\ Console!AdminAssumption /\ Launcher!LauncherAssumption
  /\ Tuning!TuningAssumption /\ Forks!EventsAssumption /\ Cleanup!MaintenanceAssumption
  /\ Launch!LaunchAssumption /\ Migration!MigrationAssumption /\ Content!ContentAssumption
  /\ Metrics!TelemetryAssumption

Init ==
  /\ focus \in Parts
  /\ Forks!Init /\ Metrics!Init /\ Launch!Init /\ Migration!Init /\ Tuning!Init /\ Content!Init
  /\ Console!Init /\ Launcher!Init
  /\ Cleanup!Init /\ (persisted \/ focus = "cleanup")
  /\ Validator!Init /\ (graph = [n \in {} |-> {}] \/ focus = "graph")

Others(own) ==
  /\ UNCHANGED focus
  /\ own # "forks" => UNCHANGED eventVars
  /\ own # "metrics" => UNCHANGED telemetryVars
  /\ own # "cleanup" => UNCHANGED cleanupVars
  /\ own # "launch" => UNCHANGED genesisVars
  /\ own # "migration" => UNCHANGED migrationVars
  /\ own # "tuning" => UNCHANGED tuningVars
  /\ own # "content" => UNCHANGED contentVars
  /\ own # "graph" => UNCHANGED graphVars
  /\ own # "console" => UNCHANGED consoleVars
  /\ own # "launcher" => UNCHANGED launcherVars

Next ==
  \/ focus = "forks" /\ Forks!Next /\ Others("forks")
  \/ focus = "metrics" /\ Metrics!Next /\ Others("metrics")
  \/ focus = "cleanup" /\ Cleanup!Next /\ Others("cleanup")
  \/ focus = "launch" /\ Launch!Next /\ Others("launch")
  \/ focus = "migration" /\ Migration!Next /\ Others("migration")
  \/ focus = "tuning" /\ Tuning!Next /\ Others("tuning")
  \/ focus = "content" /\ Content!Next /\ Others("content")
  \/ focus = "graph" /\ Validator!Next /\ Others("graph")
  \/ focus = "console" /\ Console!Next /\ Others("console")
  \/ focus = "launcher" /\ Launcher!Next /\ Others("launcher")

\* The fairness of each module, of the one that runs.
Fairness ==
  /\ WF_vars(focus = "forks" /\ Forks!WorkerStep /\ Others("forks"))
  /\ WF_vars(focus = "metrics" /\ Metrics!WorkerTurn /\ Others("metrics"))
  /\ WF_vars(focus = "cleanup" /\ Cleanup!HalfSecond /\ Others("cleanup"))
  /\ WF_vars(focus = "cleanup" /\ (Cleanup!WorkerWakes \/ Cleanup!WorkerCalls) /\ Others("cleanup"))

Spec == Init /\ [][Next]_vars /\ Fairness

\* The types of every part.
TypeOK ==
  /\ Forks!TypeOK /\ Metrics!TypeOK /\ Cleanup!TypeOK /\ Launch!TypeOK /\ Migration!TypeOK
  /\ Tuning!TypeOK /\ Content!TypeOK /\ Validator!TypeOK /\ Console!TypeOK /\ Launcher!TypeOK

\* The worker resolves every fork whose end has passed, unless an active fork without two
\* branches raises in its round (events/service.py:435-461).
ExpiredForksAreResolved == Forks!ExpiredForksAreResolved

\* Every queued event is flushed, alone if need be, unless the process stops first
\* (telemetry/service.py:196-262).
QueuedIsFlushed == Metrics!QueuedIsFlushed

\* In no stretch that is shorter than the window by half a second and the longest wait are more
\* cleanups let through than two windows take, less one, and none more than the limit itself by a
\* server that counts in memory (blockchain.py:263-316, 668-684).
CleanupsAreLimited == Cleanup!CleanupsAreLimited

\* Whatever failed, the worker asks for the next cleanup, unless it died (worker.py:149-201).
WorkerComesBack == Cleanup!WorkerComesBack

\* As long as administrators' calls do not overlap, the launch status never falls back once it is
\* announced, the ledger holds the starting balances of the current genesis only, and no finalized
\* block becomes active again (genesis/service.py:162-251, 464-601); and however often a migration
\* is tried again, a life of the process pays a pair of accounts once (genesis/migration.py:40-119).
LaunchIsSound ==
  [][/\ Launch!Advances
     /\ (Launch!LedgerFollowsGenesis /\ Launch!ActiveBlockIsNew /\ Migration!PaidOncePerLife)']_vars

\* A version of the economy parameters that a process knows, and may roll back to, is the one the
\* table holds, however processes race, restart and have statements fail (parameters.py:94-163).
ProcessesAgreeWithTables == Tuning!ProcessesAgreeWithTables

\* The version active in a stage lists it, whatever was activated and rolled back before
\* (content/service.py:116-180), and the validator reports a cycle of dependencies if and only if
\* the pack has one (tools/validate_content.py).
ContentIsSound == Content!ActiveVersionListsItsStage /\ Validator!CyclesAreFound

\* The entry of a configuration key with the latest created_at tells the value in force, however
\* administrators' reads, writes, times and commits interleave (admin/service.py:123-151, 322).
ConfigIsAudited == Console!ConfigIsAudited

\* Every file of the version the launcher has recorded is the one its manifest's checksums verify,
\* unless an apply was cut short or rolled back since (launcher-windows/src/Updater.cs:88-223).
RecordedIsInstalled == Launcher!RecordedIsInstalled
=============================================================================
