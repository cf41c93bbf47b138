------------------------------- MODULE Services -------------------------------
(* The services players meet, side by side: they share no state, so each      *)
(* behaviour explores one of them, which "focus", chosen initially, names,    *)
(* while the others stay as they start.                                       *)
EXTENDS Naturals, Sequences

CONSTANTS
  Players, Pools,     \* of the mining pools
  Requests,           \* request handlers of pools, sessions and leaderboards
  Events, EndOrder, Branches, ForkPlayers, Handlers, Worker,   \* forks
  MaxWork, MaxBalance, TopRanks,
  Emails, Ids, MaxTokens,                                      \* sessions
  Loads, Hardware, Starter, Rate, Cap, TierTwoAt, TierThreeAt, \* profiles
  MaxHeat, MaxBlocks, MaxNow,
  RankedPlayers, RankedPools, Limit, MaxMoves, MaxToggles,     \* leaderboards
  Staff, Sanctions, Appeals, Durations, MaxClock,              \* moderation
  Fields, FieldsOf, MaxChanges,                                \* player stream
  Rewarded, Rewards, Works, Fees, Elapsed, Target, Minimum, Modifiers, Scale,   \* settlement rules
  Parts, Multipliers, MaxTime, MaxEvents,                      \* interval slices
  None

VARIABLES focus,
          pool, membership, request,
          event, branch, score, rewards, snapshot, balance, call, queue, resolved, announced,
          account, session, tokens, held, req,
          now, blocks, count, tier, hardware, heat, cached, last, work, load, credited,
          figure, member, hidden, board, lock, asked, moves, toggles,
          clock, status, firstResponse, sanction, appeal, staff, lifted,
          state, conn, profile, subscriptions, listening, channel, view,
          calc,
          processed, multiplier, paused, pending, done, history

poolVars == <<pool, membership, request>>
eventVars == <<event, branch, score, rewards, snapshot, balance, call, queue, resolved, announced>>
sessionVars == <<account, session, tokens, held, req>>
profileVars == <<now, blocks, count, tier, hardware, heat, cached, last, work, load, credited>>
boardVars == <<figure, member, hidden, board, lock, asked, moves, toggles>>
deskVars == <<clock, status, firstResponse, sanction, appeal, staff, lifted>>
streamVars == <<state, conn, profile, subscriptions, listening, channel, view>>
sliceVars == <<processed, multiplier, paused, pending, done, history>>
vars == <<focus, poolVars, eventVars, sessionVars, profileVars, boardVars, deskVars, streamVars,
          calc, sliceVars>>

Guilds == INSTANCE MiningPools

Forks == INSTANCE GameEvents WITH Players <- ForkPlayers

Accounts == INSTANCE Sessions

Profiles == INSTANCE PlayerProfiles WITH clock <- now, MaxClock <- MaxNow

Boards == INSTANCE Leaderboards WITH
  call <- asked, Players <- RankedPlayers, Pools <- RankedPools

Desk == INSTANCE Moderation WITH call <- staff

Stream == INSTANCE PlayerStream

Rules == INSTANCE SettlementRules WITH Players <- Rewarded

Slices == INSTANCE IntervalSlices WITH last <- processed, credited <- done, Unsaid <- None

ASSUME ServicesAssumption ==
  /\ Forks!EventsAssumption /\ Boards!LeaderboardsAssumption /\ Desk!ModerationAssumption /\ Stream!StreamAssumption
  /\ Rules!RulesAssumption /\ Profiles!ProfilesAssumption /\ Slices!SlicesAssumption
  /\ MaxTokens \in Nat \ {0}

Init ==
  /\ focus \in {"pools", "forks", "accounts", "profiles", "boards", "desk", "stream", "rules", "slices"}
  /\ Guilds!Init /\ Forks!Init /\ Accounts!Init /\ Profiles!Init /\ Boards!Init /\ Desk!Init
  /\ Stream!Init /\ Rules!Init /\ Slices!Init

Others(own) ==
  /\ UNCHANGED focus
  /\ own # "pools" => UNCHANGED poolVars
  /\ own # "forks" => UNCHANGED eventVars
  /\ own # "accounts" => UNCHANGED sessionVars
  /\ own # "profiles" => UNCHANGED profileVars
  /\ own # "boards" => UNCHANGED boardVars
  /\ own # "desk" => UNCHANGED deskVars
  /\ own # "stream" => UNCHANGED streamVars
  /\ own # "rules" => UNCHANGED calc
  /\ own # "slices" => UNCHANGED sliceVars

Next ==
  \/ focus = "pools" /\ Guilds!Next /\ Others("pools")
  \/ focus = "forks" /\ Forks!Next /\ Others("forks")
  \/ focus = "accounts" /\ Accounts!Next /\ Others("accounts")
  \/ focus = "profiles" /\ Profiles!Next /\ Others("profiles")
  \/ focus = "boards" /\ Boards!Next /\ Others("boards")
  \/ focus = "desk" /\ Desk!Next /\ Others("desk")
  \/ focus = "stream" /\ Stream!Next /\ Others("stream")
  \/ focus = "rules" /\ Rules!Next /\ Others("rules")
  \/ focus = "slices" /\ Slices!Next /\ Others("slices")

Spec == Init /\ [][Next]_vars

\* The types of every service.
TypeOK ==
  /\ Guilds!TypeOK /\ Forks!TypeOK /\ Accounts!TypeOK /\ Profiles!TypeOK /\ Boards!TypeOK
  /\ Desk!TypeOK /\ Stream!TypeOK /\ Rules!TypeOK /\ Slices!TypeOK

\* The worker pays the rewards of a fork at most once, unless a handler meddles, and whoever
\* resolves it crowns the branch with the most work, unless work was recorded after it had read
\* the branches (events/service.py:182-254, 435-461).
ForksAreSettled == [][Forks!Crowns /\ Forks!WorkerPaysOnce']_vars

\* A cancellation brings the balance of whoever had ledger entries at the activation back to what it
\* was then, and leaves the others alone, unless a ledger moved between the two halves of the
\* cancellation (events/service.py:264-316).
CancelRestoresBalances == [][Forks!Restores]_vars

\* A refresh does not revive a session that was revoked or expired after its token had been
\* verified (auth/repository.py:73-87).
EndedStaysEnded == [][Accounts!KeepsEnded]_vars

\* Racing profile loads pay no second of offline time twice (players/repository.py:216-258).
OfflineTimePaidOnce == Profiles!OfflineTimePaidOnce

\* No board lists a player who was hidden when it was asked for and has been since, whatever
\* other requests refresh meanwhile (leaderboards/service.py:66-150).
HiddenStayHidden == Boards!HiddenStayHidden

\* A sanction ended by an approved appeal never binds again (moderation/service.py:149-190).
LiftedStaysLifted == Desk!LiftedStaysLifted

\* What a client is shown of a player's state never goes back to an older value, over full
\* states, deltas and reconnects (api/v1/stream.py:105-183).
ViewMovesForward == [][Stream!Forward]_vars

\* Shares and fees add up to a reward that is not negative and are fair up to their rounding, and
\* one retarget moves the difficulty by a tenth at most, and never below its minimum (economy/reward_settlement.py:34-77,
\* pools/service.py:297-348, difficulty/service.py:26-64).
RulesHold == Rules!SettlementAddsUp /\ Rules!RewardIsFloored /\ Rules!DifficultyIsDamped

\* However often an operation is polled, and whenever an event of it became known, the same
\* history credits the same work, when polls fall on whole seconds and a replay takes every event
\* for what it was taken for (mining/service.py:129-165, 213-249).
OnlyFillingBreaksParity == Slices!OnlyFillingBreaksParity
=============================================================================
