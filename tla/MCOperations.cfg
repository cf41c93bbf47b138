SPECIFICATION Spec
CONSTANTS
  Parts = {"forks", "metrics", "cleanup", "launch", "migration", "content", "graph", "launcher",
    "tuning", "console"}
  p1 = p1
  p2 = p2
  e1 = e1
  e2 = e2
  r1 = r1
  r2 = r2
  None = None
  \* forks: two of them, without work or balances
  Events = {e1, e2}
  EndOrder <- MCEndOrder
  Branches <- MCBranches
  ForkPlayers <- MCForkPlayers
  Handlers = {h1}
  Worker = w
  MaxWork <- MCMaxWork
  MaxBalance = 0
  TopRanks = 1
  \* telemetry: three emissions, two of them of _emit_once, and one stop
  Emissions = {1, 2, 3}
  Firsts = {1, 2}
  BatchSize = 2
  MaxTries = 2
  MaxCrashes = 1
  \* cleanups: two in two seconds, back-off up to two seconds
  Window = 2
  MaxRequests = 2
  Interval = 1
  BackoffMax = 2
  MaxFailures = 2
  MaxElapsed = 2
  Lags = {0, 1}
  \* genesis: two records, two administrators, three blocks
  Geneses = {e1, e2}
  Admins = {h1, h2}
  MaxBlock = 3
  MaxRollbacks = 2
  Players = {p1, p2}
  Requested <- MCRequested
  \* beta migration: one restart
  Beta <- MCBeta
  Production = {3, 4}
  BetaBalance <- MCBetaBalance
  BalanceLimit = 15
  MaxRestarts = 1
  \* economy parameters: two processes of a thread each, one version beyond the first
  Processes = {1, 2}
  Threads = {r1, r2}
  ProcessOf <- MCProcessOf
  Values = {0, 1}
  Settable <- MCSettable
  Initial = 0
  Winning = 1
  TestPlayers = {p1}
  Digest <- MCDigest
  MaxVersion = 2
  \* content: two packs, two roles, two stages; three items to validate
  ContentVersions = {1, 2}
  Roles = {"economy", "legal"}
  Stages = {"staging", "production"}
  Items = {1, 2, 3}
  \* admin console: two administrators and two entries of the audit log
  MaxAudit = 2
  MaxSum = 1
  \* launcher: three versions of two files and a delta, two stops
  Files = {"exe", "pak"}
  Manifest <- MCManifest
  Deltas <- MCDeltas
  Nested = {"pak"}
  MaxStops = 2
CHECK_DEADLOCK FALSE
INVARIANTS
  TypeOK
  CleanupsAreLimited
  ContentIsSound
  RecordedIsInstalled
  ProcessesAgreeWithTables
  ConfigIsAudited
PROPERTIES
  ExpiredForksAreResolved
  QueuedIsFlushed
  WorkerComesBack
  
