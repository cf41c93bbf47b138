SPECIFICATION Spec
CONSTANTS
  p1 = p1
  k1 = k1
  k2 = k2
  e1 = e1
  None = None
  \* mining pools: two players, two pools, two calls in flight
  Players = {p1, p2}
  Pools = {k1, k2}
  Requests = {q1, q2}
  \* forks: one event of two branches, one player, and a ledger that moves
  Events = {e1}
  EndOrder <- MCEndOrder
  Branches <- MCBranches
  ForkPlayers <- MCForkPlayers
  Handlers = {h1}
  Worker = w
  MaxWork <- MCMaxWork
  MaxBalance = 2
  TopRanks = 1
  \* sessions: two requests on one session of one account, four tokens
  Emails = {p1}
  Ids = {e1}
  MaxTokens = 4
  \* profiles: two loads of one profile, and a second, faster machine
  Loads = {q1, q2}
  Hardware = {k1, k2}
  Starter = k1
  Rate <- MCRate
  Cap <- MCCap
  TierTwoAt = 1
  TierThreeAt = 2
  MaxHeat = 1
  MaxBlocks = 2
  MaxNow = 2
  \* leaderboards: two players, one pool, and room for one row on each board
  RankedPlayers = {1, 2}
  RankedPools = {1}
  Limit = 1
  MaxMoves = 1
  MaxToggles = 1
  \* moderation: two members of the staff, one sanction and two appeals against it
  Staff = {h1, h2}
  Sanctions = {k1}
  Appeals = {e1, e2}
  Durations = {1}
  MaxClock = 1
  \* player stream: two fields, each with a subscription of its own, that change twice
  Fields = {"rate", "tier"}
  FieldsOf <- MCFieldsOf
  MaxChanges = 2
  \* settlement rules: a target of 6 and steps around it make every clamp and tie happen
  Rewarded = {1, 2, 3}
  Rewards <- MCRewards
  Modifiers <- MCModifiers
  Scale = 2
  Works = {0, 1, 2, 30}
  Fees = {0, 5}
  Elapsed = {0, 1, 5, 6, 7, 20}
  Target = 6
  Minimum = 1
  \* interval slices, and running reward events: time in whole seconds, two boundaries
  Multipliers = {1, 2}
  Parts = 1
  MaxTime = 3
  MaxEvents = 2
CHECK_DEADLOCK FALSE
INVARIANTS
  TypeOK
  OfflineTimePaidOnce
  HiddenStayHidden
  LiftedStaysLifted
  RulesHold
  OnlyFillingBreaksParity
PROPERTIES
  ForksAreSettled
  CancelRestoresBalances
  EndedStaysEnded
  ViewMovesForward
