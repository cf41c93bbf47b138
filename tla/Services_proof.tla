---------------------------- MODULE Services_proof ----------------------------
(* What the runs check of the services on small instances holds for any       *)
(* number of players, requests, sessions, sanctions and fields.  A behaviour  *)
(* of Services is one of a service and leaves the others where they start, so *)
(* each property follows from an invariant of its own service (Steps).        *)
EXTENDS Services, Integers, FiniteSets, FiniteSums, SequenceTheorems, TLAPS

\* A step of the whole is a step, or none, of every service.
LEMMA Steps ==
  ASSUME [Next]_vars
  PROVE  /\ [Guilds!Next]_poolVars /\ [Forks!Next]_eventVars /\ [Accounts!Next]_sessionVars
         /\ [Profiles!Next]_profileVars /\ [Boards!Next]_boardVars /\ [Desk!Next]_deskVars
         /\ [Stream!Next]_streamVars /\ [Rules!Next]_calc /\ [Slices!Next]_sliceVars
  BY DEF Next, Others, vars

-----------------------------------------------------------------------------
(* Mining pools: a call is about a pool, and a join about a player.         *)

GuildCalls ==
  [step : Guilds!Steps, player : Players \cup {None}, pool : Pools \cup {None}, swept : SUBSET Players]

GuildAbout(c) ==
  /\ c.step # "idle" => c.pool \in Pools
  /\ c.step \in {"poolSeen", "clear"} => c.player \in Players

GuildsInv == Guilds!TypeOK /\ \A r \in Requests : GuildAbout(request[r])

GuildMemberships == [Pools -> [Players -> {"never", "active", "left"}]]

LEMMA GuildTypes ==
  ASSUME GuildsInv
  PROVE  /\ pool \in [Pools -> [owner : Players \cup {None}, status : Guilds!Statuses]]
         /\ membership \in GuildMemberships /\ request \in [Requests -> GuildCalls]
  BY DEF GuildsInv, Guilds!TypeOK, GuildCalls, GuildMemberships

LEMMA GuildIdleIsCall == Guilds!Idle \in GuildCalls /\ GuildAbout(Guilds!Idle)
  BY DEF Guilds!Idle, GuildCalls, Guilds!Steps, GuildAbout

\* A call begins, moves on or ends.
LEMMA GuildCallMoves ==
  ASSUME GuildsInv, NEW r \in Requests, NEW c \in GuildCalls, GuildAbout(c),
         request' = [request EXCEPT ![r] = c],
         pool' \in [Pools -> [owner : Players \cup {None}, status : Guilds!Statuses]],
         membership' \in GuildMemberships
  PROVE  GuildsInv'
  <1>1. Guilds!TypeOK'
    BY GuildTypes DEF Guilds!TypeOK, GuildCalls, GuildMemberships
  <1>2. ASSUME NEW q \in Requests
        PROVE  GuildAbout(request'[q])
    BY GuildTypes DEF GuildsInv
  <1> QED
    BY <1>1, <1>2 DEF GuildsInv, GuildAbout

LEMMA GuildStepInvariant == GuildsInv /\ [Guilds!Next]_poolVars => GuildsInv'
  <1> SUFFICES ASSUME GuildsInv, [Guilds!Next]_poolVars PROVE GuildsInv'
    OBVIOUS
  <1>1. ASSUME NEW p \in Players, NEW k \in Pools, Guilds!CreatePool(p, k)
        PROVE  GuildsInv'
    <2>1. pool' \in [Pools -> [owner : Players \cup {None}, status : Guilds!Statuses]]
      BY <1>1, GuildTypes DEF Guilds!CreatePool, Guilds!Statuses
    <2>2. membership' \in GuildMemberships /\ request' = request
      BY <1>1, GuildTypes DEF Guilds!CreatePool, GuildMemberships
    <2> QED
      BY <2>1, <2>2 DEF GuildsInv, Guilds!TypeOK, GuildMemberships, GuildAbout
  <1>2. ASSUME NEW p \in Players, NEW k \in Pools, Guilds!LeavePool(p, k)
        PROVE  GuildsInv'
    <2>1. membership' \in GuildMemberships /\ pool' = pool /\ request' = request
      BY <1>2, GuildTypes DEF Guilds!LeavePool, GuildMemberships
    <2> QED
      BY <2>1 DEF GuildsInv, Guilds!TypeOK, GuildMemberships, GuildAbout
  <1>3. ASSUME NEW r \in Requests, NEW p \in Players, NEW k \in Pools, Guilds!JoinSeesPool(r, p, k)
        PROVE  GuildsInv'
    <2>1. PICK c : c = [Guilds!Idle EXCEPT !.step = "poolSeen", !.player = p, !.pool = k]
      OBVIOUS
    <2>2. c \in GuildCalls /\ GuildAbout(c)
      BY <2>1 DEF Guilds!Idle, GuildCalls, Guilds!Steps, GuildAbout
    <2> QED
      BY <1>3, <2>1, <2>2, GuildCallMoves, GuildTypes DEF Guilds!JoinSeesPool, Guilds!Begin
  <1>4. ASSUME NEW r \in Requests, NEW k \in Pools, Guilds!DissolveChecks(r, k)
        PROVE  GuildsInv'
    <2>1. PICK o \in Players \cup {None} : o = pool[k].owner
      BY GuildTypes
    <2>2. PICK c : c = [Guilds!Idle EXCEPT !.step = "owns", !.player = o, !.pool = k]
      OBVIOUS
    <2>3. c \in GuildCalls /\ GuildAbout(c)
      BY <2>2 DEF Guilds!Idle, GuildCalls, Guilds!Steps, GuildAbout
    <2> QED
      BY <1>4, <2>1, <2>2, <2>3, GuildCallMoves, GuildTypes DEF Guilds!DissolveChecks, Guilds!Begin
  <1>5. ASSUME NEW r \in Requests, Guilds!JoinSeesNoMembership(r)
        PROVE  GuildsInv'
    <2>1. PICK t \in GuildCalls : t = request[r] /\ GuildAbout(t)
      BY GuildTypes DEF GuildsInv
    <2>2. PICK c : c = [t EXCEPT !.step = "clear"]
      OBVIOUS
    <2>3. c \in GuildCalls /\ GuildAbout(c)
      BY <1>5, <2>1, <2>2 DEF Guilds!JoinSeesNoMembership, GuildCalls, Guilds!Steps, GuildAbout
    <2>4. request' = [request EXCEPT ![r] = c]
      BY <1>5, <2>1, <2>2, GuildTypes DEF Guilds!JoinSeesNoMembership
    <2> QED
      BY <1>5, <2>3, <2>4, GuildCallMoves, GuildTypes DEF Guilds!JoinSeesNoMembership
  <1>6. ASSUME NEW r \in Requests, Guilds!JoinRefused(r)
        PROVE  GuildsInv'
    BY <1>6, GuildIdleIsCall, GuildCallMoves, GuildTypes DEF Guilds!JoinRefused, Guilds!End
  <1>7. ASSUME NEW r \in Requests, Guilds!JoinInserts(r)
        PROVE  GuildsInv'
    <2>1. request[r].player \in Players /\ request[r].pool \in Pools
      BY <1>7 DEF Guilds!JoinInserts, GuildsInv, GuildAbout
    <2>2. membership' \in GuildMemberships
      BY <1>7, <2>1, GuildTypes DEF Guilds!JoinInserts, GuildMemberships
    <2> QED
      BY <1>7, <2>2, GuildIdleIsCall, GuildCallMoves, GuildTypes DEF Guilds!JoinInserts, Guilds!End
  <1>8. ASSUME NEW r \in Requests, Guilds!DissolveSweeps(r)
        PROVE  GuildsInv'
    <2>1. PICK t \in GuildCalls : t = request[r] /\ GuildAbout(t)
      BY GuildTypes DEF GuildsInv
    <2>2. PICK c : c = [t EXCEPT !.step = "swept", !.swept = Guilds!ActiveMembers(t.pool)]
      OBVIOUS
    <2>3. c \in GuildCalls /\ GuildAbout(c)
      BY <1>8, <2>1, <2>2
         DEF Guilds!DissolveSweeps, Guilds!ActiveMembers, GuildCalls, Guilds!Steps, GuildAbout
    <2>4. request' = [request EXCEPT ![r] = c]
      BY <1>8, <2>1, <2>2, GuildTypes DEF Guilds!DissolveSweeps
    <2> QED
      BY <1>8, <2>3, <2>4, GuildCallMoves, GuildTypes DEF Guilds!DissolveSweeps
  <1>9. ASSUME NEW r \in Requests, Guilds!DissolveCommits(r)
        PROVE  GuildsInv'
    <2>1. PICK t \in GuildCalls : t = request[r] /\ t.pool \in Pools
      BY <1>9, GuildTypes DEF Guilds!DissolveCommits, GuildsInv, GuildAbout
    <2>2. /\ membership' = [membership EXCEPT ![t.pool] =
               [p \in Players |-> IF p \in t.swept THEN "left" ELSE @[p]]]
          /\ pool' = [pool EXCEPT ![t.pool].status = "dissolved"]
          /\ request' = [request EXCEPT ![r] = Guilds!Idle]
      BY <1>9, <2>1 DEF Guilds!DissolveCommits, Guilds!End
    <2>3. membership' \in GuildMemberships
      BY <2>1, <2>2, GuildTypes DEF GuildMemberships
    <2>4. pool' \in [Pools -> [owner : Players \cup {None}, status : Guilds!Statuses]]
      BY <2>1, <2>2, GuildTypes DEF Guilds!Statuses
    <2> QED
      BY <2>2, <2>3, <2>4, GuildIdleIsCall, GuildCallMoves
  <1>10. CASE UNCHANGED poolVars
    BY <1>10 DEF poolVars, GuildsInv, Guilds!TypeOK, GuildAbout
  <1> QED
    BY <1>1, <1>2, <1>3, <1>4, <1>5, <1>6, <1>7, <1>8, <1>9, <1>10 DEF Guilds!Next

LEMMA GuildInitInvariant == Guilds!Init => GuildsInv
  <1> SUFFICES ASSUME Guilds!Init PROVE GuildsInv
    OBVIOUS
  <1>1. Guilds!TypeOK
    BY GuildIdleIsCall DEF Guilds!Init, Guilds!TypeOK, GuildCalls, Guilds!Statuses
  <1> QED
    BY <1>1, GuildIdleIsCall DEF Guilds!Init, GuildsInv

-----------------------------------------------------------------------------
(* Player profiles: the compare-and-set of the offline window.             *)

ProfileLoadStates == [step : {"idle", "counted", "progressed", "computed"}, count : Nat,
                      hardware : Hardware \cup {Starter},
               heat : Int, now : Nat, last : Nat]

\* A window that was read lies in the past, and the windows paid so far cover the time up to last.
ProfilesInv ==
  /\ now \in Nat /\ last \in Nat /\ credited \in Nat /\ blocks \in Nat
  /\ hardware \in Hardware \cup {Starter} /\ heat \in Int
  /\ load \in [Loads -> ProfileLoadStates]
  /\ \A l \in Loads : load[l].now <= now
  /\ credited = last /\ last <= now

LEMMA ProfileInitInvariant ==
  ASSUME MaxHeat \in Int
  PROVE  Profiles!Init => ProfilesInv
  BY DEF Profiles!Init, ProfilesInv, ProfileLoadStates, Profiles!Idle

LEMMA ProfileReadsStateStep ==
  ASSUME ProfilesInv, NEW l \in Loads, Profiles!ReadsState(l)
  PROVE  ProfilesInv'
  <1>1. PICK h \in Profiles!Cooled(heat) :
          load' = [load EXCEPT ![l].step = "computed", ![l].hardware = hardware, ![l].heat = h,
                               ![l].now = now, ![l].last = last]
    BY DEF Profiles!ReadsState
  <1>2. h \in Int
    BY <1>1 DEF Profiles!Cooled, ProfilesInv
  <1>3. PICK t \in ProfileLoadStates : t = load[l]
    BY DEF ProfilesInv
  <1>4. PICK s : s = [t EXCEPT !.step = "computed", !.hardware = hardware, !.heat = h, !.now = now, !.last = last]
    OBVIOUS
  <1>5. s \in ProfileLoadStates /\ s.now = now
    BY <1>2, <1>4 DEF ProfileLoadStates, ProfilesInv
  <1>6. load' = [load EXCEPT ![l] = s]
    BY <1>1, <1>3, <1>4 DEF ProfilesInv
  <1>7. UNCHANGED <<now, blocks, hardware, heat, last, credited>>
    BY DEF Profiles!ReadsState, Profiles!row
  <1>8. load' \in [Loads -> ProfileLoadStates] /\ \A k \in Loads : load'[k].now <= now
    BY <1>5, <1>6 DEF ProfilesInv
  <1> QED
    BY <1>7, <1>8 DEF ProfilesInv

LEMMA ProfileWritesStateStep ==
  ASSUME ProfilesInv, NEW l \in Loads, Profiles!WritesState(l)
  PROVE  ProfilesInv'
  <1>1. PICK t \in ProfileLoadStates : t = load[l] /\ t.now <= now
    BY DEF ProfilesInv
  <1>2. load' = [load EXCEPT ![l] = Profiles!Idle] /\ Profiles!Idle \in ProfileLoadStates /\ Profiles!Idle.now = 0
    BY DEF Profiles!WritesState, Profiles!Idle, ProfileLoadStates
  <1>3. UNCHANGED <<now, blocks, hardware>> /\ heat' = t.heat
    BY <1>1 DEF Profiles!WritesState
  <1>4. CASE t.now > t.last /\ last = t.last
    <2>1. last' = t.now /\ credited' = credited + t.now - t.last
      BY <1>1, <1>4 DEF Profiles!WritesState, Profiles!PaysWindow
    <2> QED
      BY <1>1, <1>2, <1>3, <1>4, <2>1 DEF ProfilesInv, ProfileLoadStates
  <1>5. CASE ~(t.now > t.last /\ last = t.last)
    <2>1. UNCHANGED <<last, credited>>
      BY <1>1, <1>5 DEF Profiles!WritesState, Profiles!PaysWindow
    <2> QED
      BY <1>1, <1>2, <1>3, <2>1 DEF ProfilesInv, ProfileLoadStates
  <1> QED
    BY <1>4, <1>5

LEMMA ProfileStepInvariant == ProfilesInv /\ [Profiles!Next]_profileVars => ProfilesInv'
  <1> SUFFICES ASSUME ProfilesInv, [Profiles!Next]_profileVars PROVE ProfilesInv'
    OBVIOUS
  <1>1. CASE Profiles!Tick
    BY <1>1 DEF Profiles!Tick, Profiles!row, ProfilesInv, ProfileLoadStates
  <1>2. CASE Profiles!BlockFinalized
    BY <1>2 DEF Profiles!BlockFinalized, Profiles!row, ProfilesInv
  <1>3. ASSUME NEW h \in Hardware, Profiles!HardwareInstalled(h) \/ Profiles!HardwareAssigned(h)
        PROVE  ProfilesInv'
    BY <1>3 DEF Profiles!HardwareInstalled, Profiles!HardwareAssigned, ProfilesInv
  <1>4. ASSUME NEW l \in Loads, Profiles!CountsBlocks(l)
        PROVE  ProfilesInv'
    <2>1. PICK s : s = [Profiles!Idle EXCEPT !.step = "counted", !.count = blocks]
      OBVIOUS
    <2>2. Profiles!Idle \in ProfileLoadStates /\ Profiles!Idle.now = 0 /\ blocks \in Nat
      BY DEF Profiles!Idle, ProfileLoadStates, ProfilesInv
    <2>3. s \in ProfileLoadStates /\ s.now = 0
      BY <2>1, <2>2 DEF ProfileLoadStates
    <2>4. UNCHANGED <<now, blocks, hardware, heat, last, credited>> /\ load' = [load EXCEPT ![l] = s]
      BY <1>4, <2>1 DEF Profiles!CountsBlocks, Profiles!row
    <2> QED
      BY <2>3, <2>4 DEF ProfilesInv
  <1>5. ASSUME NEW l \in Loads, Profiles!WritesProgression(l)
        PROVE  ProfilesInv'
    BY <1>5 DEF Profiles!WritesProgression, ProfilesInv, ProfileLoadStates
  <1>6. ASSUME NEW l \in Loads, Profiles!ReadsState(l)
        PROVE  ProfilesInv'
    BY <1>6, ProfileReadsStateStep
  <1>7. ASSUME NEW l \in Loads, Profiles!WritesState(l)
        PROVE  ProfilesInv'
    BY <1>7, ProfileWritesStateStep
  <1>8. CASE UNCHANGED profileVars
    BY <1>8 DEF profileVars, Profiles!row, ProfilesInv
  <1> QED
    BY <1>1, <1>2, <1>3, <1>4, <1>5, <1>6, <1>7, <1>8 DEF Profiles!Next

\* However many profile loads race, the windows they pay for add up to the time until the last of
\* them.
THEOREM OfflineTimeIsPaidOnce == Spec => []OfflineTimePaidOnce
  <1>1. Init => ProfilesInv
    BY ServicesAssumption, ProfileInitInvariant DEF Init, ServicesAssumption, Profiles!ProfilesAssumption
  <1>2. ProfilesInv /\ [Next]_vars => ProfilesInv'
    BY ProfileStepInvariant, Steps
  <1>3. ProfilesInv => OfflineTimePaidOnce
    BY DEF ProfilesInv, Profiles!OfflineTimePaidOnce, OfflineTimePaidOnce
  <1> QED
    BY <1>1, <1>2, <1>3, PTL DEF Spec

-----------------------------------------------------------------------------
(* Sessions: the guard of the rotating UPDATE keeps an ended session as it is. *)

AccountRows == [owner : Emails \cup {None}, token : 0 .. MaxTokens, status : {"unused", "active", "revoked"},
                expired : BOOLEAN]

AccountCalls == [step : {"idle", "creating", "profile", "session", "rotating", "revoking"},
          email : Emails \cup {None}, id : Ids \cup {None}, token : 0 .. MaxTokens]

\* What a call was given stays in it.
AccountGiven ==
  \A r \in Requests :
    /\ req[r].step \in {"creating", "profile", "session"} => req[r].email \in Emails
    /\ req[r].step = "rotating" => req[r].token > 0

AccountsInv == Accounts!TypeOK /\ AccountGiven

LEMMA AccountIdleIsCall ==
  ASSUME MaxTokens \in Nat
  PROVE  Accounts!Idle \in AccountCalls /\ Accounts!Idle.step = "idle"
  BY DEF Accounts!Idle, AccountCalls

LEMMA AccountInitInvariant ==
  ASSUME MaxTokens \in Nat
  PROVE  Accounts!Init => AccountsInv
  BY DEF Accounts!Init, AccountsInv, Accounts!TypeOK, AccountGiven, Accounts!Idle

\* A call begins, moves on or ends.
LEMMA AccountCallMoves ==
  ASSUME AccountsInv, NEW r \in Requests, NEW c \in AccountCalls, req' = [req EXCEPT ![r] = c],
         c.step \in {"creating", "profile", "session"} => c.email \in Emails,
         c.step = "rotating" => c.token > 0
  PROVE  req' \in [Requests -> AccountCalls] /\ AccountGiven'
  BY DEF AccountsInv, Accounts!TypeOK, AccountGiven, AccountCalls

LEMMA AccountStepInvariant ==
  ASSUME MaxTokens \in Nat \ {0}, AccountsInv, [Accounts!Next]_sessionVars
  PROVE  AccountsInv'
  <1> USE AccountIdleIsCall
  <1>1. /\ account \in [Emails -> {"none", "player", "ready"}] /\ session \in [Ids -> AccountRows]
        /\ tokens \in [Ids -> 0 .. MaxTokens] /\ held \in [Ids -> SUBSET (1 .. MaxTokens)]
        /\ req \in [Requests -> AccountCalls] /\ AccountGiven
    BY DEF AccountsInv, Accounts!TypeOK, AccountRows, AccountCalls
  <1>2. ASSUME NEW r \in Requests, NEW e \in Emails, Accounts!RegisterChecks(r, e) \/ Accounts!LoginReads(r, e)
        PROVE  AccountsInv'
    <2>1. PICK st \in {"creating", "session"} :
            req' = [req EXCEPT ![r] = [Accounts!Idle EXCEPT !.step = st, !.email = e]]
      BY <1>2 DEF Accounts!RegisterChecks, Accounts!LoginReads
    <2>2. PICK c : c = [Accounts!Idle EXCEPT !.step = st, !.email = e]
      OBVIOUS
    <2>3. c \in AccountCalls /\ c.email = e /\ c.step = st
      BY <2>2 DEF AccountCalls
    <2>4. req' \in [Requests -> AccountCalls] /\ AccountGiven'
      BY <2>1, <2>2, <2>3, AccountCallMoves
    <2> QED
      BY <1>1, <1>2, <2>4 DEF Accounts!RegisterChecks, Accounts!LoginReads, AccountsInv,
          Accounts!TypeOK, AccountRows, AccountCalls
  <1>3. ASSUME NEW r \in Requests, Accounts!CreatePlayer(r) \/ Accounts!CreateProfile(r)
        PROVE  AccountsInv'
    <2>1. PICK c \in AccountCalls : c = req[r]
      BY <1>1
    <2>2. PICK st \in {"profile", "session"} :
            req' = [req EXCEPT ![r] = Accounts!Idle] \/ req' = [req EXCEPT ![r] = [c EXCEPT !.step = st]]
      BY <1>1, <1>3, <2>1 DEF Accounts!CreatePlayer, Accounts!CreateProfile, Accounts!Step
    <2>3. [c EXCEPT !.step = st] \in AccountCalls /\ [c EXCEPT !.step = st].email = c.email
          /\ [c EXCEPT !.step = st].step = st /\ c.email \in Emails
      BY <1>1, <1>3, <2>1 DEF AccountCalls, AccountGiven, Accounts!CreatePlayer, Accounts!CreateProfile
    <2>4. req' \in [Requests -> AccountCalls] /\ AccountGiven'
      BY <2>2, <2>3, AccountCallMoves
    <2> QED
      BY <1>1, <1>3, <2>1, <2>3, <2>4 DEF Accounts!CreatePlayer, Accounts!CreateProfile,
          AccountsInv, Accounts!TypeOK, AccountRows, AccountCalls
  <1>4. ASSUME NEW r \in Requests, Accounts!Dies(r)
        PROVE  AccountsInv'
    <2>1. req' \in [Requests -> AccountCalls] /\ AccountGiven'
      BY <1>4, AccountCallMoves DEF Accounts!Dies
    <2> QED
      BY <1>1, <1>4, <2>1 DEF Accounts!Dies, AccountsInv, Accounts!TypeOK, AccountRows, AccountCalls
  <1>5. ASSUME NEW r \in Requests, Accounts!Rotates(r)
        PROVE  AccountsInv'
    <2>1. req' \in [Requests -> AccountCalls] /\ AccountGiven'
      BY <1>5, AccountCallMoves DEF Accounts!Rotates
    <2>2. req[r].token \in 1 .. MaxTokens
      BY <1>1, <1>5 DEF AccountCalls, AccountGiven, Accounts!Rotates
    <2>3. session' \in [Ids -> AccountRows]
      <3>1. CASE Accounts!Live(req[r].id) /\ req[r].id \in Ids
        <4>1. PICK w \in AccountRows : w = session[req[r].id]
          BY <1>1, <3>1
        <4>2. PICK n \in 0 .. MaxTokens : n = req[r].token
          BY <2>2
        <4>3. [w EXCEPT !.token = n] \in AccountRows
          BY DEF AccountRows
        <4> QED
          BY <1>1, <1>5, <3>1, <4>1, <4>2, <4>3 DEF Accounts!Rotates
      <3>2. CASE ~(Accounts!Live(req[r].id) /\ req[r].id \in Ids)
        BY <1>1, <1>5, <3>2 DEF Accounts!Rotates
      <3> QED
        BY <3>1, <3>2
    <2>4. held' \in [Ids -> SUBSET (1 .. MaxTokens)]
      BY <1>1, <1>5, <2>2 DEF Accounts!Rotates
    <2> QED
      BY <1>1, <1>5, <2>1, <2>3, <2>4 DEF Accounts!Rotates, AccountsInv, Accounts!TypeOK,
          AccountRows, AccountCalls
  <1>6. ASSUME NEW r \in Requests, Accounts!Revokes(r)
        PROVE  AccountsInv'
    <2>1. req' \in [Requests -> AccountCalls] /\ AccountGiven'
      BY <1>6, AccountCallMoves DEF Accounts!Revokes
    <2>2. session' \in [Ids -> AccountRows]
      BY <1>1, <1>6 DEF Accounts!Revokes, AccountRows
    <2> QED
      BY <1>1, <1>6, <2>1, <2>2 DEF Accounts!Revokes, AccountsInv, Accounts!TypeOK, AccountRows,
          AccountCalls
  <1>7. ASSUME NEW r \in Requests, NEW i \in Ids, Accounts!CreateSession(r, i)
        PROVE  AccountsInv'
    <2>1. req' \in [Requests -> AccountCalls] /\ AccountGiven'
      BY <1>7, AccountCallMoves DEF Accounts!CreateSession
    <2>2. [owner |-> req[r].email, token |-> 1, status |-> "active", expired |-> FALSE] \in AccountRows
      BY <1>1, <1>7 DEF Accounts!CreateSession, AccountGiven, AccountRows
    <2> QED
      BY <1>1, <1>7, <2>1, <2>2 DEF Accounts!CreateSession, AccountsInv, Accounts!TypeOK,
          AccountRows, AccountCalls
  <1>8. ASSUME NEW r \in Requests, NEW i \in Ids, NEW t \in 1 .. MaxTokens, Accounts!RefreshReads(r, i, t)
        PROVE  AccountsInv'
    <2>1. PICK c : c = [Accounts!Idle EXCEPT !.step = "rotating", !.id = i, !.token = tokens[i] + 1]
      OBVIOUS
    <2>2. tokens[i] + 1 \in 1 .. MaxTokens
      BY <1>1, <1>8 DEF Accounts!RefreshReads
    <2>3. c \in AccountCalls /\ c.step = "rotating" /\ c.token > 0
      <3>1. PICK n \in 1 .. MaxTokens : n = tokens[i] + 1
        BY <2>2
      <3>2. n \in 0 .. MaxTokens /\ n > 0
        OBVIOUS
      <3>3. c = [[Accounts!Idle EXCEPT !.step = "rotating", !.id = i] EXCEPT !.token = n]
        BY <2>1, <3>1
      <3>4. PICK d : d = [Accounts!Idle EXCEPT !.step = "rotating", !.id = i]
        OBVIOUS
      <3>5. d \in AccountCalls /\ d.step = "rotating"
        BY <3>4 DEF AccountCalls
      <3> QED
        BY <3>2, <3>3, <3>4, <3>5 DEF AccountCalls
    <2>4. req' \in [Requests -> AccountCalls] /\ AccountGiven'
      BY <1>8, <2>1, <2>3, AccountCallMoves DEF Accounts!RefreshReads
    <2>5. tokens' \in [Ids -> 0 .. MaxTokens]
      BY <1>1, <1>8, <2>2 DEF Accounts!RefreshReads
    <2> QED
      BY <1>1, <1>8, <2>4, <2>5 DEF Accounts!RefreshReads, AccountsInv, Accounts!TypeOK,
          AccountRows, AccountCalls
  <1>9. ASSUME NEW r \in Requests, NEW i \in Ids, NEW t \in 1 .. MaxTokens, Accounts!LogoutReads(r, i, t)
        PROVE  AccountsInv'
    <2>1. PICK c : c = [Accounts!Idle EXCEPT !.step = "revoking", !.id = i]
      OBVIOUS
    <2>2. c \in AccountCalls /\ c.step = "revoking"
      BY <2>1 DEF AccountCalls
    <2>3. req' \in [Requests -> AccountCalls] /\ AccountGiven'
      BY <1>9, <2>1, <2>2, AccountCallMoves DEF Accounts!LogoutReads
    <2> QED
      BY <1>1, <1>9, <2>3 DEF Accounts!LogoutReads, AccountsInv, Accounts!TypeOK, AccountRows, AccountCalls
  <1>10. ASSUME NEW i \in Ids, Accounts!Expires(i)
         PROVE  AccountsInv'
    <2>1. session' \in [Ids -> AccountRows]
      BY <1>1, <1>10 DEF Accounts!Expires, AccountRows
    <2> QED
      BY <1>1, <1>10, <2>1 DEF Accounts!Expires, AccountsInv, Accounts!TypeOK, AccountGiven,
          AccountRows, AccountCalls
  <1>11. CASE UNCHANGED sessionVars
    BY <1>1, <1>11 DEF sessionVars, AccountsInv, Accounts!TypeOK, AccountGiven, AccountRows, AccountCalls
  <1> QED
    BY <1>2, <1>3, <1>4, <1>5, <1>6, <1>7, <1>8, <1>9, <1>10, <1>11 DEF Accounts!Next

\* No step gives an ended session a new token or brings it back.
LEMMA AccountEndedSessionKept ==
  ASSUME AccountsInv, [Accounts!Next]_sessionVars, NEW i \in Ids, session[i].status # "unused", ~Accounts!Live(i)
  PROVE  session'[i].token = session[i].token /\ ~Accounts!Live(i)'
  <1>1. session \in [Ids -> AccountRows] /\ session[i] \in AccountRows
    BY DEF AccountsInv, Accounts!TypeOK, AccountRows
  <1>2. ASSUME NEW r \in Requests, Accounts!Rotates(r)
        PROVE  session'[i].token = session[i].token /\ ~Accounts!Live(i)'
    <2>1. CASE req[r].id = i \/ ~Accounts!Live(req[r].id)
      <3>1. session' = session
        BY <1>2, <2>1 DEF Accounts!Rotates
      <3> QED
        BY <3>1 DEF Accounts!Live
    <2>2. CASE req[r].id # i /\ Accounts!Live(req[r].id)
      <3>1. session'[i] = session[i]
        BY <1>1, <1>2, <2>2 DEF Accounts!Rotates
      <3> QED
        BY <3>1 DEF Accounts!Live
    <2> QED
      BY <2>1, <2>2
  <1>3. ASSUME NEW r \in Requests, Accounts!Revokes(r)
        PROVE  session'[i].token = session[i].token /\ ~Accounts!Live(i)'
    BY <1>1, <1>3 DEF Accounts!Revokes, AccountRows, Accounts!Live
  <1>4. ASSUME NEW r \in Requests, NEW k \in Ids, Accounts!CreateSession(r, k)
        PROVE  session'[i].token = session[i].token /\ ~Accounts!Live(i)'
    BY <1>1, <1>4 DEF Accounts!CreateSession, Accounts!Live
  <1>5. ASSUME NEW k \in Ids, Accounts!Expires(k)
        PROVE  session'[i].token = session[i].token /\ ~Accounts!Live(i)'
    BY <1>1, <1>5 DEF Accounts!Expires, AccountRows, Accounts!Live
  <1>6. CASE UNCHANGED session
    BY <1>6 DEF Accounts!Live
  <1> QED
    BY <1>2, <1>3, <1>4, <1>5, <1>6
       DEF Accounts!Next, sessionVars, Accounts!RegisterChecks, Accounts!LoginReads,
           Accounts!CreatePlayer, Accounts!CreateProfile, Accounts!Dies, Accounts!RefreshReads,
           Accounts!LogoutReads

\* A refresh that verified its token before a logout or an expiry leaves the session ended.
THEOREM EndedSessionsStayEnded == Spec => EndedStaysEnded
  <1>1. Init => AccountsInv
    BY ServicesAssumption, AccountInitInvariant DEF Init, ServicesAssumption
  <1>2. AccountsInv /\ [Next]_vars => AccountsInv'
    BY ServicesAssumption, AccountStepInvariant, Steps DEF ServicesAssumption
  <1>3. AccountsInv /\ [Next]_vars => [Accounts!KeepsEnded]_vars
    BY Steps, AccountEndedSessionKept DEF Accounts!KeepsEnded
  <1> QED
    BY <1>1, <1>2, <1>3, PTL DEF Spec, EndedStaysEnded

-----------------------------------------------------------------------------
(* Moderation: what an approved review has ended stays ended.              *)

DeskCalls == [op : {"idle", "reply", "review"}, at : Nat, on : Appeals \cup {None}, approved : BOOLEAN]

\* A review is stamped with a time that has passed, and is of an appeal against a stored sanction.
DeskInv ==
  /\ clock \in Nat
  /\ sanction \in [Sanctions -> Desk!SanctionRows \cup {None}]
  /\ appeal \in [Appeals -> Desk!AppealRows \cup {None}]
  /\ \A a \in Appeals : appeal[a] # None => sanction[appeal[a].against] # None
  /\ staff \in [Staff -> DeskCalls]
  /\ \A u \in Staff : /\ staff[u].at <= clock
                      /\ staff[u].op = "review" => staff[u].on \in Appeals /\ appeal[staff[u].on] # None
  /\ lifted \subseteq Sanctions
  /\ \A s \in lifted : sanction[s] # None /\ sanction[s].expires \in Nat /\ sanction[s].expires <= clock

LEMMA DeskIdleIsCall == Desk!Idle \in DeskCalls /\ Desk!Idle.op = "idle" /\ Desk!Idle.at = 0
  BY DEF Desk!Idle, DeskCalls

LEMMA DeskInitInvariant == Desk!Init => DeskInv
  BY DeskIdleIsCall DEF Desk!Init, DeskInv

LEMMA DeskTakeStep ==
  ASSUME Desk!ModerationAssumption, DeskInv, NEW s \in Sanctions, NEW v \in Desk!SanctionRows,
         sanction[s] = None, sanction' = [sanction EXCEPT ![s] = v],
         UNCHANGED <<clock, appeal, staff, lifted>>
  PROVE  DeskInv'
  BY DEF DeskInv, Desk!ModerationAssumption, Desk!AppealRows

LEMMA DeskReviewStep ==
  ASSUME Desk!ModerationAssumption, DeskInv, NEW u \in Staff, Desk!ReviewAppeal(u)
  PROVE  DeskInv'
  <1>1. PICK r \in DeskCalls : r = staff[u]
    BY DEF DeskInv
  <1>2. r.op = "review" /\ r.at <= clock /\ r.at \in Nat /\ r.on \in Appeals /\ appeal[r.on] # None
    BY <1>1 DEF Desk!ReviewAppeal, DeskInv, DeskCalls
  <1>3. PICK a \in Desk!AppealRows : a = appeal[r.on]
    BY <1>2 DEF DeskInv
  <1>4. a.against \in Sanctions /\ sanction[a.against] # None
    BY <1>2, <1>3 DEF DeskInv, Desk!AppealRows
  <1>5. PICK v \in Desk!SanctionRows : v = sanction[a.against]
    BY <1>4 DEF DeskInv
  <1>6. PICK e : e = IF r.approved THEN r.at ELSE v.expires
    OBVIOUS
  <1>7. /\ [v EXCEPT !.expires = e] \in Desk!SanctionRows /\ [v EXCEPT !.expires = e].expires = e
        /\ [v EXCEPT !.expires = e] # None
    BY <1>2, <1>6 DEF Desk!SanctionRows, Desk!ModerationAssumption
  <1>8. PICK st \in {"approved", "denied"} : appeal' = [appeal EXCEPT ![r.on].status = st]
    BY <1>1 DEF Desk!ReviewAppeal
  <1>9. /\ [a EXCEPT !.status = st] \in Desk!AppealRows /\ [a EXCEPT !.status = st].against = a.against
        /\ [a EXCEPT !.status = st] # None
    BY DEF Desk!AppealRows, Desk!ModerationAssumption
  <1>10. /\ sanction' = [sanction EXCEPT ![a.against].expires = e]
         /\ lifted' = IF r.approved THEN lifted \cup {a.against} ELSE lifted
         /\ staff' = [staff EXCEPT ![u] = Desk!Idle] /\ clock' = clock
    BY <1>1, <1>3, <1>5, <1>6 DEF Desk!ReviewAppeal, Desk!ExpiryOf
  <1>11. sanction' \in [Sanctions -> Desk!SanctionRows \cup {None}]
    BY <1>4, <1>5, <1>7, <1>10 DEF DeskInv
  <1>12. \A s \in Sanctions : (sanction'[s] = None <=> sanction[s] = None)
                              /\ (s # a.against => sanction'[s] = sanction[s])
    BY <1>4, <1>5, <1>7, <1>10 DEF DeskInv
  <1>13. sanction'[a.against].expires = e
    BY <1>4, <1>5, <1>7, <1>10 DEF DeskInv
  <1>14. appeal' \in [Appeals -> Desk!AppealRows \cup {None}]
    BY <1>2, <1>3, <1>8, <1>9 DEF DeskInv
  <1>15. \A b \in Appeals : (appeal'[b] = None <=> appeal[b] = None) /\ appeal'[b].against = appeal[b].against
    BY <1>2, <1>3, <1>8, <1>9 DEF DeskInv
  <1>16. \A b \in Appeals : appeal'[b] # None => sanction'[appeal'[b].against] # None
    BY <1>12, <1>15 DEF DeskInv, Desk!AppealRows
  <1>17. /\ staff' \in [Staff -> DeskCalls]
         /\ \A x \in Staff : /\ staff'[x].at <= clock
                             /\ staff'[x].op = "review" => staff'[x].on \in Appeals /\ appeal'[staff'[x].on] # None
    BY <1>10, <1>15, DeskIdleIsCall DEF DeskInv
  <1>18. ASSUME NEW s \in lifted'
         PROVE  s \in Sanctions /\ sanction'[s] # None /\ sanction'[s].expires \in Nat /\ sanction'[s].expires <= clock
    <2>1. CASE s = a.against
      <3>1. e \in Nat /\ e <= clock
        BY <1>2, <1>5, <1>6, <1>10, <1>18, <2>1 DEF DeskInv
      <3> QED
        BY <1>4, <1>12, <1>13, <2>1, <3>1
    <2>2. CASE s # a.against
      BY <1>10, <1>12, <1>18, <2>2 DEF DeskInv
    <2> QED
      BY <2>1, <2>2
  <1> QED
    BY <1>10, <1>11, <1>14, <1>16, <1>17, <1>18 DEF DeskInv

LEMMA DeskStepInvariant ==
  ASSUME Desk!ModerationAssumption, DeskInv, [Desk!Next]_deskVars
  PROVE  DeskInv'
  <1>1. CASE Desk!Tick
    BY <1>1 DEF Desk!Tick, DeskInv, DeskCalls
  <1>2. CASE \/ Desk!CreateTicket \/ Desk!CloseTicket \/ (\E st \in Desk!TicketStatuses : Desk!UpdateTicketStatus(st))
             \/ UNCHANGED deskVars
    BY <1>2 DEF Desk!CreateTicket, Desk!CloseTicket, Desk!UpdateTicketStatus, deskVars, DeskInv
  <1>3. ASSUME NEW u \in Staff, Desk!ReplyStarts(u)
        PROVE  DeskInv'
    <2>1. PICK c : c = [Desk!Idle EXCEPT !.op = "reply", !.at = clock]
      OBVIOUS
    <2>2. c \in DeskCalls /\ c.op = "reply" /\ c.at = clock
      BY <2>1, DeskIdleIsCall DEF DeskCalls, DeskInv
    <2> QED
      BY <1>3, <2>1, <2>2 DEF Desk!ReplyStarts, DeskInv
  <1>4. ASSUME NEW u \in Staff, Desk!ReplyCommits(u)
        PROVE  DeskInv'
    BY <1>4, DeskIdleIsCall DEF Desk!ReplyCommits, DeskInv
  <1>5. ASSUME NEW u \in Staff, Desk!ReviewAppeal(u)
        PROVE  DeskInv'
    BY <1>5, DeskReviewStep
  <1>6. ASSUME NEW s \in Sanctions, Desk!QueueForReview(s)
        PROVE  DeskInv'
    <2>1. [type |-> "escalate", expires |-> None] \in Desk!SanctionRows
      BY DEF Desk!SanctionRows
    <2> QED
      BY <1>6, <2>1, DeskTakeStep DEF Desk!QueueForReview
  <1>7. ASSUME NEW s \in Sanctions, NEW d \in Durations \cup {None}, Desk!TakeModerationAction(s, d)
        PROVE  DeskInv'
    <2>1. PICK e : e = IF d = None THEN None ELSE clock + d
      OBVIOUS
    <2>2. e \in Nat \cup {None}
      BY <2>1 DEF DeskInv, Desk!ModerationAssumption
    <2>3. [type |-> "sanction", expires |-> e] \in Desk!SanctionRows
      BY <2>2 DEF Desk!SanctionRows
    <2> QED
      BY <1>7, <2>1, <2>3, DeskTakeStep DEF Desk!TakeModerationAction
  <1>8. ASSUME NEW s \in Sanctions, NEW a \in Appeals, Desk!SubmitAppeal(a, s)
        PROVE  DeskInv'
    <2>1. PICK v : v = [against |-> s, status |-> "pending"]
      OBVIOUS
    <2>2. v \in Desk!AppealRows /\ v.against = s /\ v # None
      BY <2>1 DEF Desk!AppealRows, Desk!ModerationAssumption
    <2>3. appeal' = [appeal EXCEPT ![a] = v] /\ sanction[s] # None
          /\ UNCHANGED <<clock, sanction, staff, lifted>>
      BY <1>8, <2>1 DEF Desk!SubmitAppeal
    <2> QED
      BY <2>2, <2>3 DEF DeskInv
  <1>9. ASSUME NEW u \in Staff, NEW a \in Appeals, NEW ok \in BOOLEAN, Desk!ReviewStarts(u, a, ok)
        PROVE  DeskInv'
    <2>1. [op |-> "review", at |-> clock, on |-> a, approved |-> ok] \in DeskCalls
      BY DEF DeskCalls, DeskInv
    <2> QED
      BY <1>9, <2>1 DEF Desk!ReviewStarts, DeskInv
  <1> QED
    BY <1>1, <1>2, <1>3, <1>4, <1>5, <1>6, <1>7, <1>8, <1>9 DEF Desk!Next

\* However many reviews of however many appeals are in flight, a lifted sanction never binds again.
THEOREM LiftedSanctionsStayLifted == Spec => []LiftedStaysLifted
  <1>1. Init => DeskInv
    BY DeskInitInvariant DEF Init
  <1>2. DeskInv /\ [Next]_vars => DeskInv'
    BY ServicesAssumption, DeskStepInvariant, Steps DEF ServicesAssumption
  <1>3. DeskInv => LiftedStaysLifted
    BY ServicesAssumption DEF ServicesAssumption, DeskInv, Desk!LiftedStaysLifted,
        LiftedStaysLifted, Desk!InForce, Desk!ModerationAssumption
  <1> QED
    BY <1>1, <1>2, <1>3, PTL DEF Spec

-----------------------------------------------------------------------------
(* Player stream: what a client is shown never goes back.                  *)

Deltas == UNION {[S -> Nat] : S \in SUBSET Fields}

StreamTypesOK ==
  /\ state \in [Fields -> Nat] /\ profile \in [Fields -> Nat] /\ view \in [Fields -> Nat]
  /\ conn \in {"closed", "accepted", "read", "open"}
  /\ channel \in Seq(Deltas)
  /\ ~listening => channel = <<>>
  /\ listening => conn = "open"

\* Nothing is newer than the server's state, and what a request has read is not older than
\* what the client was shown before.
StreamReadsOK ==
  /\ \A f \in Fields : view[f] <= state[f]
  /\ conn = "read" => \A f \in Fields : view[f] <= profile[f] /\ profile[f] <= state[f]

\* The deltas on their way are in the order of the changes, and not older than the view.
StreamChannelOK ==
  /\ \A i \in DOMAIN channel : \A f \in DOMAIN channel[i] :
       view[f] <= channel[i][f] /\ channel[i][f] <= state[f]
  /\ \A i, j \in DOMAIN channel : \A f \in DOMAIN channel[i] \cap DOMAIN channel[j] :
       i <= j => channel[i][f] <= channel[j][f]

StreamInv == StreamTypesOK /\ StreamReadsOK /\ StreamChannelOK

LEMMA DeltaIsOfFields ==
  ASSUME NEW d \in Deltas
  PROVE  DOMAIN d \subseteq Fields /\ \A f \in DOMAIN d : d[f] \in Nat
  BY DEF Deltas

LEMMA StreamInitInvariant == Stream!Init => StreamInv
  BY DEF Stream!Init, StreamInv, StreamTypesOK, StreamReadsOK, StreamChannelOK

\* A delta that is published is newer than those before it.
LEMMA ChangesStep ==
  ASSUME StreamInv, NEW S \in SUBSET Fields, Stream!Changes(S)
  PROVE  StreamInv'
  <1> DEFINE next == [f \in Fields |-> IF f \in S THEN state[f] + 1 ELSE state[f]]
             delta == [f \in {g \in Fields : next[g] # state[g]} |-> next[f]]
  <1>1. /\ state' = next /\ UNCHANGED <<conn, profile, listening, view>>
        /\ channel' = channel \/ (listening /\ channel' = Append(channel, delta))
    BY DEF Stream!Changes, Stream!EncodeDelta
  <1>2. next \in [Fields -> Nat] /\ \A f \in Fields : state[f] <= next[f]
    BY DEF StreamInv, StreamTypesOK
  <1>3. delta \in Deltas /\ DOMAIN delta \subseteq Fields /\ \A f \in DOMAIN delta : delta[f] = next[f]
    BY <1>2 DEF Deltas
  <1> HIDE DEF next, delta
  <1>4. /\ \A f \in Fields : view[f] \in Nat /\ state[f] \in Nat /\ profile[f] \in Nat /\ next[f] \in Nat
        /\ \A i \in DOMAIN channel : channel[i] \in Deltas
    BY <1>2, ElementOfSeq DEF StreamInv, StreamTypesOK
  <1>5. StreamReadsOK'
    BY <1>1, <1>2, <1>4 DEF StreamInv, StreamReadsOK
  <1>6. \A i \in DOMAIN channel : \A f \in DOMAIN channel[i] :
          f \in Fields /\ channel[i][f] \in Nat /\ channel[i][f] <= next[f]
    <2> TAKE i \in DOMAIN channel
    <2> TAKE f \in DOMAIN channel[i]
    <2>1. f \in Fields /\ channel[i][f] \in Nat
      BY <1>4, DeltaIsOfFields
    <2>2. channel[i][f] <= state[f] /\ state[f] <= next[f]
      BY <1>2, <2>1 DEF StreamInv, StreamChannelOK
    <2> QED
      BY <1>4, <2>1, <2>2
  <1>7. CASE channel' = channel
    <2>1. StreamChannelOK'
      BY <1>1, <1>6, <1>7 DEF StreamInv, StreamChannelOK
    <2> QED
      BY <1>1, <1>2, <1>5, <1>7, <2>1 DEF StreamInv, StreamTypesOK
  <1>8. CASE listening /\ channel' = Append(channel, delta)
    <2>1. channel \in Seq(Deltas)
      BY DEF StreamInv, StreamTypesOK
    <2>2. /\ channel' \in Seq(Deltas) /\ Len(channel') = Len(channel) + 1
          /\ channel'[Len(channel) + 1] = delta
          /\ \A i \in 1 .. Len(channel) : channel'[i] = channel[i]
      BY <1>3, <1>8, <2>1, AppendProperties
    <2>3. DOMAIN channel = 1 .. Len(channel) /\ DOMAIN channel' = 1 .. Len(channel) + 1 /\ Len(channel) \in Nat
      BY <2>1, <2>2, LenProperties
    <2>4. \A i \in DOMAIN channel' : (i \in DOMAIN channel /\ channel'[i] = channel[i]) \/ channel'[i] = delta
      BY <2>2, <2>3
    <2>5. \A i \in DOMAIN channel' : \A f \in DOMAIN channel'[i] :
            view'[f] <= channel'[i][f] /\ channel'[i][f] <= state'[f]
      <3> TAKE i \in DOMAIN channel'
      <3>1. CASE i \in DOMAIN channel /\ channel'[i] = channel[i]
        BY <1>1, <1>6, <3>1 DEF StreamInv, StreamChannelOK
      <3>2. CASE channel'[i] = delta
        <4>1. \A f \in DOMAIN delta : f \in Fields /\ delta[f] = next[f]
          BY <1>3
        <4>2. \A f \in Fields : view[f] <= next[f] /\ next[f] <= next[f]
          BY <1>2, <1>4 DEF StreamInv, StreamReadsOK
        <4> QED
          BY <1>1, <3>2, <4>1, <4>2
      <3> QED
        BY <2>4, <3>1, <3>2
    <2>6. \A i, j \in DOMAIN channel' : \A f \in DOMAIN channel'[i] \cap DOMAIN channel'[j] :
            i <= j => channel'[i][f] <= channel'[j][f]
      <3> SUFFICES ASSUME NEW i \in DOMAIN channel', NEW j \in DOMAIN channel', i <= j,
                          NEW f \in DOMAIN channel'[i], f \in DOMAIN channel'[j]
                   PROVE  channel'[i][f] <= channel'[j][f]
        OBVIOUS
      <3>1. CASE j \in DOMAIN channel
        <4>1. i \in DOMAIN channel /\ channel'[i] = channel[i] /\ channel'[j] = channel[j]
          BY <2>2, <2>3, <3>1
        <4> QED
          BY <3>1, <4>1 DEF StreamInv, StreamChannelOK
      <3>2. CASE j \notin DOMAIN channel
        <4>1. channel'[j] = delta
          BY <2>4, <3>2
        <4>2. channel'[j][f] = state'[f] /\ state'[f] \in Nat
          BY <1>1, <1>3, <1>4, <4>1
        <4> QED
          BY <2>5, <4>2
      <3> QED
        BY <3>1, <3>2
    <2>7. StreamChannelOK'
      BY <2>5, <2>6 DEF StreamChannelOK
    <2>8. StreamTypesOK'
      BY <1>1, <1>2, <1>8, <2>2 DEF StreamInv, StreamTypesOK
    <2> QED
      BY <1>5, <2>7, <2>8 DEF StreamInv
  <1> QED
    BY <1>1, <1>7, <1>8

\* What is forwarded is the oldest delta; the others are newer.
LEMMA ForwardsStep ==
  ASSUME StreamInv, Stream!ListenerForwards
  PROVE  StreamInv' /\ \A f \in Fields : view[f] <= view'[f]
  <1>1. channel \in Seq(Deltas) /\ channel # <<>>
    BY DEF Stream!ListenerForwards, StreamInv, StreamTypesOK
  <1>2. PICK d \in Deltas : d = channel[1] /\ d = Head(channel)
    BY <1>1, ElementOfSeq, HeadTailProperties
  <1>3. DOMAIN d \subseteq Fields /\ \A f \in DOMAIN d : d[f] \in Nat
    BY <1>2, DeltaIsOfFields
  <1>4. PICK S : /\ S \subseteq DOMAIN d
                 /\ Stream!Filtered(d) = [f \in S |-> d[f]]
    BY DEF Stream!Filtered
  <1>5. /\ channel' = Tail(channel) /\ UNCHANGED <<state, conn, profile, listening>> /\ listening
        /\ conn = "open"
        /\ view' = [f \in Fields |-> IF f \in S THEN d[f] ELSE view[f]]
    <2>1. view' = [f \in Fields |-> IF f \in DOMAIN [g \in S |-> d[g]] THEN [g \in S |-> d[g]][f] ELSE view[f]]
      BY <1>2, <1>4 DEF Stream!ListenerForwards, Stream!Sent
    <2>2. DOMAIN [g \in S |-> d[g]] = S /\ \A f \in S : [g \in S |-> d[g]][f] = d[f]
      OBVIOUS
    <2> QED
      BY <2>1, <2>2 DEF Stream!ListenerForwards
  <1>6. /\ channel' \in Seq(Deltas) /\ Len(channel') = Len(channel) - 1 /\ Len(channel) \in Nat \ {0}
        /\ \A i \in 1 .. Len(channel') : channel'[i] = channel[i + 1]
        /\ DOMAIN channel = 1 .. Len(channel) /\ DOMAIN channel' = 1 .. Len(channel')
    BY <1>1, <1>5, HeadTailProperties, LenProperties, EmptySeq
  <1>7. \A f \in Fields : view[f] \in Nat /\ state[f] \in Nat /\ view'[f] \in Nat
    BY <1>3, <1>4, <1>5 DEF StreamInv, StreamTypesOK
  <1>8. \A f \in DOMAIN d : view[f] <= d[f] /\ d[f] <= state[f]
    BY <1>2, <1>6 DEF StreamInv, StreamChannelOK
  <1>9. \A f \in Fields : view[f] <= view'[f] /\ view'[f] <= state[f]
    BY <1>3, <1>4, <1>5, <1>7, <1>8 DEF StreamInv, StreamReadsOK
  <1>10. \A i \in DOMAIN channel' : i + 1 \in DOMAIN channel /\ channel'[i] = channel[i + 1] /\ i \in Nat
    BY <1>6
  <1>11. \A i \in DOMAIN channel : \A f \in DOMAIN channel[i] : view'[f] <= channel[i][f]
    <2> TAKE i \in DOMAIN channel
    <2> TAKE f \in DOMAIN channel[i]
    <2>1. f \in Fields /\ channel[i][f] \in Nat
      BY <1>1, ElementOfSeq, DeltaIsOfFields
    <2>2. CASE f \in S
      <3>1. 1 \in DOMAIN channel /\ 1 <= i /\ f \in DOMAIN channel[1]
        BY <1>2, <1>4, <1>6, <2>2
      <3>2. channel[1][f] <= channel[i][f]
        BY <3>1 DEF StreamInv, StreamChannelOK
      <3> QED
        BY <1>2, <1>5, <2>1, <2>2, <3>2
    <2>3. CASE f \notin S
      BY <1>5, <2>1, <2>3 DEF StreamInv, StreamChannelOK
    <2> QED
      BY <2>2, <2>3
  <1>12. StreamChannelOK'
    <2>1. \A i \in DOMAIN channel' : \A f \in DOMAIN channel'[i] :
            view'[f] <= channel'[i][f] /\ channel'[i][f] <= state'[f]
      BY <1>5, <1>10, <1>11 DEF StreamInv, StreamChannelOK
    <2>2. ASSUME NEW i \in DOMAIN channel', NEW j \in DOMAIN channel', i <= j,
                 NEW f \in DOMAIN channel'[i] \cap DOMAIN channel'[j]
          PROVE  channel'[i][f] <= channel'[j][f]
      <3>1. i + 1 <= j + 1 /\ i + 1 \in DOMAIN channel /\ j + 1 \in DOMAIN channel
        BY <1>10, <2>2
      <3>2. channel'[i] = channel[i + 1] /\ channel'[j] = channel[j + 1]
        BY <1>10
      <3>3. f \in DOMAIN channel[i + 1] \cap DOMAIN channel[j + 1]
        BY <2>2, <3>2
      <3> QED
        BY <3>1, <3>2, <3>3 DEF StreamInv, StreamChannelOK
    <2> QED
      BY <2>1, <2>2 DEF StreamChannelOK
  <1>13. StreamTypesOK'
    BY <1>5, <1>6, <1>7 DEF StreamInv, StreamTypesOK
  <1>14. StreamReadsOK'
    BY <1>5, <1>9 DEF StreamReadsOK
  <1> QED
    BY <1>9, <1>12, <1>13, <1>14 DEF StreamInv

LEMMA SendsStep ==
  ASSUME StreamInv, Stream!SendFullState
  PROVE  StreamInv' /\ \A f \in Fields : view[f] <= view'[f]
  <1>1. view' = profile /\ conn = "read" /\ conn' = "open" /\ UNCHANGED <<state, profile, listening, channel>>
    BY DEF Stream!SendFullState, Stream!Sent, StreamInv, StreamTypesOK
  <1>2. channel = <<>> /\ ~listening
    BY <1>1 DEF StreamInv, StreamTypesOK
  <1> QED
    BY <1>1, <1>2 DEF StreamInv, StreamTypesOK, StreamReadsOK, StreamChannelOK

LEMMA StreamStepInvariant ==
  ASSUME StreamInv, [Stream!Next]_streamVars
  PROVE  StreamInv' /\ \A f \in Fields : view[f] <= view'[f]
  <1>1. ASSUME NEW S \in SUBSET Fields, Stream!Changes(S)
        PROVE  StreamInv' /\ view' = view
    BY <1>1, ChangesStep DEF Stream!Changes
  <1>2. CASE Stream!ReadProfile
    <2>1. StreamInv' /\ view' = view
      BY <1>2 DEF Stream!ReadProfile, StreamInv, StreamTypesOK, StreamReadsOK, StreamChannelOK
    <2> QED
      BY <2>1 DEF StreamInv, StreamTypesOK
  <1>3. CASE \/ Stream!Connect \/ Stream!Disconnect \/ Stream!ListenerSubscribes \/ UNCHANGED streamVars
             \/ \E S \in SUBSET DOMAIN FieldsOf : Stream!ClientSubscribes(S)
    <2>1. UNCHANGED <<view, state, profile>> /\ (conn' = "read" => conn = "read")
      BY <1>3 DEF Stream!Connect, Stream!Disconnect, Stream!ListenerSubscribes,
          Stream!ClientSubscribes, streamVars
    <2>2. /\ conn' \in {"closed", "accepted", "read", "open"} /\ (listening' => conn' = "open")
          /\ \/ channel' = channel /\ (listening => listening')
             \/ channel' = <<>> /\ ~listening'
      BY <1>3 DEF Stream!Connect, Stream!Disconnect, Stream!ListenerSubscribes,
          Stream!ClientSubscribes, streamVars,
                  StreamInv, StreamTypesOK
    <2>3. StreamTypesOK'
      BY <2>1, <2>2, EmptySeq DEF StreamInv, StreamTypesOK
    <2> QED
      BY <2>1, <2>2, <2>3 DEF StreamInv, StreamTypesOK, StreamReadsOK, StreamChannelOK
  <1>4. view' = view => \A f \in Fields : view[f] <= view'[f]
    BY DEF StreamInv, StreamTypesOK
  <1> QED
    BY <1>1, <1>2, <1>3, <1>4, ForwardsStep, SendsStep DEF Stream!Next

\* Whatever changes while a connection is opened, and whatever is in flight when it is closed.
THEOREM ViewsMoveForward == Spec => ViewMovesForward
  <1>1. Init => StreamInv
    BY StreamInitInvariant DEF Init
  <1>2. StreamInv /\ [Next]_vars => StreamInv' /\ [Stream!Forward]_vars
    <2> SUFFICES ASSUME StreamInv, [Next]_vars
                 PROVE  StreamInv' /\ Stream!Forward
      OBVIOUS
    <2>1. StreamInv' /\ \A f \in Fields : view[f] <= view'[f]
      BY StreamStepInvariant, Steps
    <2>2. view \in [Fields -> Nat] /\ view' \in [Fields -> Nat]
      BY <2>1 DEF StreamInv, StreamTypesOK
    <2> QED
      BY <2>1, <2>2 DEF Stream!Forward
  <1> QED
    BY <1>1, <1>2, PTL DEF Spec, ViewMovesForward

-----------------------------------------------------------------------------
(* Forks: what a resolution crowns and pays, what a cancellation restores. *)

ForkCalls == [step : {"idle", "resolving", "cancelling"}, event : Events \cup {None},
              winner : Forks!BranchSet \cup {None}, delta : [Forks!PlayerSet -> Int],
              late : BOOLEAN, moved : SUBSET Forks!PlayerSet]
ForkEvents == [status : {"scheduled", "active", "completed", "cancelled"}, ended : BOOLEAN,
               winner : Forks!BranchSet \cup {None}, meddled : BOOLEAN]

ForkTypesOK ==
  /\ event \in [Events -> ForkEvents]
  /\ branch \in [Events -> [Forks!BranchSet -> Nat \cup {None}]]
  /\ rewards \in [Events -> [Forks!PlayerSet -> Nat]]
  /\ snapshot \in [Events -> [Forks!PlayerSet -> Int \cup {None}]]
  /\ balance \in [Forks!PlayerSet -> Int \cup {None}]
  /\ call \in [Forks!Actors -> ForkCalls]
  /\ queue \subseteq Events

\* The branch an open resolution will crown has the most work, unless it grew since it was read.
WinnersOK ==
  \A a \in Forks!Actors : call[a].step = "resolving" =>
    /\ call[a].event \in Events
    /\ ~call[a].late => /\ call[a].winner \in Forks!Created(call[a].event)
                        /\ \A b \in Forks!Created(call[a].event) :
                             branch[call[a].event][call[a].winner] >= branch[call[a].event][b]

\* An open cancellation will set every balance that has not moved to its snapshot.
Due(e, p, d) == IF snapshot[e][p] = None THEN d = 0 ELSE Forks!Credits(p) + d = snapshot[e][p]
DeltasOK ==
  \A a \in Forks!Actors : call[a].step = "cancelling" =>
    /\ call[a].event \in Events
    /\ \A p \in Forks!PlayerSet \ call[a].moved : Due(call[a].event, p, call[a].delta[p])

\* What only the worker has touched is paid when it is completed, and waits while it is active.
PaidOK ==
  \A e \in Events : ~event[e].meddled =>
    /\ \A p \in Forks!PlayerSet : rewards[e][p] <= 1 /\ (rewards[e][p] = 0 \/ event[e].status = "completed")
    /\ e \in queue => event[e].status = "active"

WorkerOK ==
  /\ call[Worker].step # "cancelling"
  /\ call[Worker].step = "resolving" => call[Worker].event \in queue

ForksInv == ForkTypesOK /\ WinnersOK /\ DeltasOK /\ PaidOK /\ WorkerOK

LEMMA CreditsAreInt ==
  ASSUME ForkTypesOK, NEW p \in Forks!PlayerSet
  PROVE  Forks!Credits(p) \in Int
  BY DEF ForkTypesOK, Forks!Credits

LEMMA ForkIdle ==
  /\ Forks!Idle \in ForkCalls
  /\ Forks!Idle.step = "idle"
  BY DEF Forks!Idle, ForkCalls

\* Calls that are open are marked; nothing else of them changes.
LEMMA MovedCalls ==
  ASSUME NEW c \in [Forks!Actors -> ForkCalls], NEW S \in SUBSET Forks!PlayerSet
  PROVE  /\ Forks!Moved(c, S) \in [Forks!Actors -> ForkCalls]
         /\ \A a \in Forks!Actors :
              /\ Forks!Moved(c, S)[a].step = c[a].step /\ Forks!Moved(c, S)[a].event = c[a].event
              /\ Forks!Moved(c, S)[a].winner = c[a].winner /\ Forks!Moved(c, S)[a].delta = c[a].delta
              /\ Forks!Moved(c, S)[a].late = c[a].late
              /\ c[a].step # "idle" => Forks!Moved(c, S)[a].moved = c[a].moved \cup S
  <1>1. ASSUME NEW r \in ForkCalls
        PROVE  [r EXCEPT !.moved = r.moved \cup S] \in ForkCalls
    BY DEF ForkCalls
  <1>2. ASSUME NEW a \in Forks!Actors
        PROVE  /\ Forks!Moved(c, S)[a] \in ForkCalls
               /\ Forks!Moved(c, S)[a].step = c[a].step /\ Forks!Moved(c, S)[a].event = c[a].event
               /\ Forks!Moved(c, S)[a].winner = c[a].winner /\ Forks!Moved(c, S)[a].delta = c[a].delta
               /\ Forks!Moved(c, S)[a].late = c[a].late
               /\ c[a].step # "idle" => Forks!Moved(c, S)[a].moved = c[a].moved \cup S
    <2>1. PICK r \in ForkCalls : r = c[a]
      OBVIOUS
    <2>2. Forks!Moved(c, S)[a] = IF r.step = "idle" THEN r ELSE [r EXCEPT !.moved = r.moved \cup S]
      BY <2>1 DEF Forks!Moved
    <2>3. PICK q : q = [r EXCEPT !.moved = r.moved \cup S]
      OBVIOUS
    <2>4. /\ q \in ForkCalls /\ q.step = r.step /\ q.event = r.event /\ q.winner = r.winner
          /\ q.delta = r.delta /\ q.late = r.late /\ q.moved = r.moved \cup S
      BY <1>1, <2>3 DEF ForkCalls
    <2> QED
      BY <2>1, <2>2, <2>3, <2>4
  <1>3. Forks!Moved(c, S) = [a \in Forks!Actors |-> Forks!Moved(c, S)[a]]
    BY DEF Forks!Moved
  <1> QED
    BY <1>2, <1>3

\* Of two branches, the one with more work, or the first of equals, leads.
LEMMA LeaderLeads ==
  ASSUME Forks!EventsAssumption, ForkTypesOK, NEW e \in Events, Forks!Cardinality(Forks!Created(e)) >= 2
  PROVE  /\ Forks!Leader(e) \in Forks!Created(e)
         /\ \A b \in Forks!Created(e) : branch[e][Forks!Leader(e)] >= branch[e][b]
  <1>1. PICK x, y : x = Branches[1] /\ y = Branches[2] /\ Forks!BranchSet = {x, y}
    BY DEF Forks!EventsAssumption, Forks!BranchSet, Forks!Range
  <1>2. Forks!Created(e) \subseteq {x, y} /\ \A b \in Forks!Created(e) : branch[e][b] \in Nat
    BY <1>1 DEF Forks!Created, ForkTypesOK
  <1>3. Forks!Created(e) # {}
    <2>1. Forks!Cardinality({}) = Cardinality({})
      BY DEF Forks!Cardinality, Cardinality
    <2> QED
      BY <2>1, FS_EmptySet
  <1> DEFINE Leads(b) == \A c \in Forks!Created(e) \ {b} :
               branch[e][b] > branch[e][c] \/ (branch[e][b] = branch[e][c] /\ b = x)
  <1>4. \E b \in Forks!Created(e) : Leads(b)
    <2>1. CASE x \in Forks!Created(e) /\ (y \in Forks!Created(e) => branch[e][x] >= branch[e][y])
      BY <1>2, <2>1
    <2>2. CASE y \in Forks!Created(e) /\ (x \in Forks!Created(e) => branch[e][y] > branch[e][x])
      BY <1>2, <2>2
    <2> QED
      BY <1>2, <1>3, <2>1, <2>2
  <1>5. Forks!Leader(e) = CHOOSE b \in Forks!Created(e) : Leads(b)
    BY <1>1 DEF Forks!Leader
  <1>6. Forks!Leader(e) \in Forks!Created(e) /\ Leads(Forks!Leader(e))
    BY <1>4, <1>5
  <1> QED
    BY <1>2, <1>6

LEMMA ForksInitInvariant ==
  ASSUME Forks!EventsAssumption, Forks!Init
  PROVE  ForksInv
  <1>1. ForkTypesOK
    BY ForkIdle DEF Forks!Init, ForkTypesOK, ForkEvents
  <1>2. Worker \in Forks!Actors
    BY DEF Forks!Actors
  <1> QED
    BY <1>1, <1>2, ForkIdle DEF Forks!Init, ForksInv, WinnersOK, DeltasOK, PaidOK, WorkerOK

\* A step that leaves calls, branches and balances alone.
LEMMA ActivatesStep ==
  ASSUME Forks!EventsAssumption, ForksInv, NEW e \in Events, Forks!ActivateEvent(e)
  PROVE  ForksInv'
  <1>1. /\ event' = [event EXCEPT ![e].status = "active",
                                ![e].meddled = event[e].meddled \/ event[e].status # "scheduled"]
        /\ snapshot' = [snapshot EXCEPT ![e] =
             [p \in Forks!PlayerSet |-> IF snapshot[e][p] = None THEN balance[p] ELSE snapshot[e][p]]]
        /\ UNCHANGED <<branch, rewards, balance, call, queue>>
    BY DEF Forks!ActivateEvent, Forks!round
  <1>2. ForkTypesOK'
    <2>1. PICK r \in ForkEvents : r = event[e]
      BY DEF ForksInv, ForkTypesOK
    <2>2. [r EXCEPT !.status = "active", !.meddled = r.meddled \/ r.status # "scheduled"] \in ForkEvents
      BY DEF ForkEvents
    <2>3. event' \in [Events -> ForkEvents]
      BY <1>1, <2>1, <2>2 DEF ForksInv, ForkTypesOK
    <2>4. snapshot' \in [Events -> [Forks!PlayerSet -> Int \cup {None}]]
      BY <1>1 DEF ForksInv, ForkTypesOK
    <2> QED
      BY <1>1, <2>3, <2>4 DEF ForksInv, ForkTypesOK
  <1>3. WinnersOK'
    BY <1>1 DEF ForksInv, WinnersOK, Forks!Created
  <1>4. DeltasOK'
    <2> SUFFICES ASSUME NEW a \in Forks!Actors, call[a].step = "cancelling"
                 PROVE  /\ call[a].event \in Events
                        /\ \A p \in Forks!PlayerSet \ call[a].moved : Due(call[a].event, p, call[a].delta[p])'
      BY <1>1 DEF DeltasOK
    <2>1. PICK f \in Events : f = call[a].event
      BY DEF ForksInv, DeltasOK
    <2>2. ASSUME NEW p \in Forks!PlayerSet \ call[a].moved
          PROVE  IF snapshot'[f][p] = None THEN call[a].delta[p] = 0
                 ELSE Forks!Credits(p) + call[a].delta[p] = snapshot'[f][p]
      <3>1. IF snapshot[f][p] = None THEN call[a].delta[p] = 0
              ELSE Forks!Credits(p) + call[a].delta[p] = snapshot[f][p]
        BY <2>1 DEF ForksInv, DeltasOK, Due
      <3>2. balance[p] = None \/ (balance[p] \in Int /\ Forks!Credits(p) = balance[p])
        <4>1. balance[p] \in Int \cup {None}
          BY DEF ForksInv, ForkTypesOK
        <4>2. CASE balance[p] = None
          BY <4>2
        <4>3. CASE balance[p] # None
          BY <4>1, <4>3 DEF Forks!Credits
        <4> QED
          BY <4>2, <4>3
      <3>3. snapshot'[f][p] = IF f = e /\ snapshot[f][p] = None THEN balance[p] ELSE snapshot[f][p]
        BY <1>1 DEF ForksInv, ForkTypesOK
      <3> QED
        BY <3>1, <3>2, <3>3
    <2> QED
      BY <1>1, <2>1, <2>2 DEF Due, Forks!Credits
  <1>5. PaidOK'
    <2>1. \A f \in Events : /\ event'[f].status = IF f = e THEN "active" ELSE event[f].status
                            /\ event'[f].meddled = IF f = e THEN event[f].meddled \/ event[f].status # "scheduled"
                                                   ELSE event[f].meddled
      BY <1>1 DEF ForksInv, ForkTypesOK, ForkEvents
    <2> QED
      BY <1>1, <2>1 DEF ForksInv, PaidOK
  <1> QED
    BY <1>1, <1>2, <1>3, <1>4, <1>5 DEF ForksInv, WorkerOK

LEMMA CreatesBranchStep ==
  ASSUME Forks!EventsAssumption, ForksInv, NEW e \in Events, NEW b \in Forks!BranchSet, Forks!CreateBranch(e, b)
  PROVE  ForksInv'
  <1>1. /\ branch[e][b] = None /\ branch' = [branch EXCEPT ![e][b] = 0]
        /\ UNCHANGED <<event, rewards, snapshot, balance, call, queue>>
    BY DEF Forks!CreateBranch, Forks!round
  <1>2. ForkTypesOK'
    BY <1>1 DEF ForksInv, ForkTypesOK
  <1>3. \A f \in Events, c \in Forks!BranchSet :
          branch'[f][c] = IF f = e /\ c = b THEN 0 ELSE branch[f][c]
    BY <1>1 DEF ForksInv, ForkTypesOK
  <1>4. WinnersOK'
    <2> SUFFICES ASSUME NEW a \in Forks!Actors, call[a].step = "resolving"
                 PROVE  /\ call[a].event \in Events
                        /\ ~call[a].late => /\ call[a].winner \in Forks!Created(call[a].event)'
                                            /\ \A c \in Forks!Created(call[a].event)' :
                                                 branch'[call[a].event][call[a].winner] >= branch'[call[a].event][c]
      BY <1>1 DEF WinnersOK
    <2>1. PICK f \in Events : f = call[a].event
      BY DEF ForksInv, WinnersOK
    <2>2. ASSUME ~call[a].late
          PROVE  /\ call[a].winner \in Forks!Created(f)'
                 /\ \A c \in Forks!Created(f)' : branch'[f][call[a].winner] >= branch'[f][c]
      <3>1. PICK w \in Forks!BranchSet : w = call[a].winner /\ branch[f][w] # None
              /\ \A c \in Forks!BranchSet : branch[f][c] # None => branch[f][w] >= branch[f][c]
        BY <2>1, <2>2 DEF ForksInv, WinnersOK, Forks!Created
      <3>2. branch[f][w] \in Nat
        BY <3>1 DEF ForksInv, ForkTypesOK
      <3>3. branch'[f][w] = branch[f][w]
        BY <1>1, <1>3, <3>1
      <3>4. \A c \in Forks!BranchSet : branch'[f][c] # None => branch'[f][w] >= branch'[f][c]
        BY <1>3, <3>1, <3>2, <3>3
      <3> QED
        BY <3>1, <3>3, <3>4 DEF Forks!Created
    <2> QED
      BY <1>1, <2>1, <2>2 DEF Forks!Created
  <1>5. DeltasOK' /\ PaidOK' /\ WorkerOK'
    BY <1>1 DEF ForksInv, DeltasOK, Due, Forks!Credits, PaidOK, WorkerOK
  <1> QED
    BY <1>2, <1>4, <1>5 DEF ForksInv

LEMMA ContributesStep ==
  ASSUME Forks!EventsAssumption, ForksInv, NEW e \in Events, NEW b \in Forks!BranchSet, NEW p \in Forks!PlayerSet,
         Forks!RecordBranchContribution(e, b, p)
  PROVE  ForksInv'
  <1>1. /\ branch[e][b] # None /\ branch' = [branch EXCEPT ![e][b] = branch[e][b] + 1]
        /\ call' = [a \in Forks!Actors |-> IF call[a].event = e THEN [call[a] EXCEPT !.late = TRUE] ELSE call[a]]
        /\ UNCHANGED <<event, rewards, snapshot, balance, queue>>
    BY DEF Forks!RecordBranchContribution, Forks!round
  <1>2. ASSUME NEW a \in Forks!Actors
        PROVE  /\ call'[a] \in ForkCalls /\ call'[a].step = call[a].step /\ call'[a].event = call[a].event
               /\ call'[a].winner = call[a].winner /\ call'[a].delta = call[a].delta /\ call'[a].moved = call[a].moved
               /\ call'[a].late = (call[a].late \/ call[a].event = e)
    <2>1. PICK r \in ForkCalls : r = call[a]
      BY DEF ForksInv, ForkTypesOK
    <2>2. PICK q : q = [r EXCEPT !.late = TRUE]
      OBVIOUS
    <2>3. /\ q \in ForkCalls /\ q.step = r.step /\ q.event = r.event /\ q.winner = r.winner
          /\ q.delta = r.delta /\ q.late = TRUE /\ q.moved = r.moved
      BY <2>2 DEF ForkCalls
    <2>4. call'[a] = IF r.event = e THEN q ELSE r
      BY <1>1, <2>1, <2>2
    <2>5. r.late \in BOOLEAN
      BY DEF ForkCalls
    <2>6. CASE r.event = e
      BY <2>1, <2>3, <2>4, <2>6
    <2>7. CASE r.event # e
      BY <2>1, <2>4, <2>5, <2>7
    <2> QED
      BY <2>6, <2>7
  <1>3. call' \in [Forks!Actors -> ForkCalls]
    <2>1. call' = [a \in Forks!Actors |-> call'[a]]
      BY <1>1
    <2> QED
      BY <1>2, <2>1
  <1>4. ForkTypesOK'
    <2>1. branch[e][b] + 1 \in Nat
      BY <1>1 DEF ForksInv, ForkTypesOK
    <2> QED
      BY <1>1, <1>3, <2>1 DEF ForksInv, ForkTypesOK
  <1>5. \A f \in Events \ {e}, c \in Forks!BranchSet : branch'[f][c] = branch[f][c]
    BY <1>1 DEF ForksInv, ForkTypesOK
  <1>6. WinnersOK'
    <2> SUFFICES ASSUME NEW a \in Forks!Actors, call[a].step = "resolving"
                 PROVE  /\ call'[a].event \in Events
                        /\ ~call'[a].late => /\ call'[a].winner \in Forks!Created(call[a].event)'
                                             /\ \A c \in Forks!Created(call[a].event)' :
                                                  branch'[call'[a].event][call'[a].winner] >= branch'[call'[a].event][c]
      BY <1>2 DEF WinnersOK
    <2>1. PICK f \in Events : f = call[a].event
      BY DEF ForksInv, WinnersOK
    <2>2. ASSUME ~call'[a].late
          PROVE  /\ call'[a].winner \in Forks!Created(f)'
                 /\ \A c \in Forks!Created(f)' : branch'[f][call'[a].winner] >= branch'[f][c]
      <3>1. f # e /\ ~call[a].late
        BY <1>2, <2>1, <2>2
      <3>2. Forks!Created(f)' = Forks!Created(f)
        BY <1>5, <3>1 DEF Forks!Created
      <3>3. Forks!Created(f) \subseteq Forks!BranchSet
        BY DEF Forks!Created
      <3> QED
        BY <1>2, <1>5, <2>1, <3>1, <3>2, <3>3 DEF ForksInv, WinnersOK
    <2> QED
      BY <1>2, <2>1, <2>2 DEF Forks!Created
  <1>7. DeltasOK'
    BY <1>1, <1>2 DEF ForksInv, DeltasOK, Due, Forks!Credits
  <1>8. PaidOK' /\ WorkerOK'
    <2>1. Worker \in Forks!Actors
      BY DEF Forks!Actors
    <2> QED
      BY <1>1, <1>2, <2>1 DEF ForksInv, PaidOK, WorkerOK
  <1> QED
    BY <1>4, <1>6, <1>7, <1>8 DEF ForksInv

LEMMA EndsStep ==
  ASSUME ForksInv, NEW e \in Events, Forks!EndPasses(e)
  PROVE  ForksInv'
  <1>1. event' = [event EXCEPT ![e].ended = TRUE] /\ UNCHANGED <<branch, rewards, snapshot, balance, call, queue>>
    BY DEF Forks!EndPasses, Forks!round
  <1>2. PICK r \in ForkEvents : r = event[e]
    BY DEF ForksInv, ForkTypesOK
  <1>3. PICK q : q = [r EXCEPT !.ended = TRUE]
    OBVIOUS
  <1>4. q \in ForkEvents /\ q.status = r.status /\ q.meddled = r.meddled
    BY <1>3 DEF ForkEvents
  <1>5. event' \in [Events -> ForkEvents] /\ \A f \in Events :
          event'[f].status = event[f].status /\ event'[f].meddled = event[f].meddled
    BY <1>1, <1>2, <1>3, <1>4 DEF ForksInv, ForkTypesOK
  <1> QED
    BY <1>1, <1>5 DEF ForksInv, ForkTypesOK, WinnersOK, Forks!Created, DeltasOK, Due, Forks!Credits,
                       PaidOK, WorkerOK

LEMMA LedgerStep ==
  ASSUME ForksInv, NEW p \in Forks!PlayerSet, NEW n \in {-1, 1}, Forks!LedgerMoves(p, n)
  PROVE  ForksInv'
  <1>1. /\ balance' = [balance EXCEPT ![p] = Forks!Credits(p) + n] /\ call' = Forks!Moved(call, {p})
        /\ UNCHANGED <<event, branch, rewards, snapshot, queue>>
    BY DEF Forks!LedgerMoves, Forks!round
  <1>2. /\ call' \in [Forks!Actors -> ForkCalls]
        /\ \A a \in Forks!Actors :
             /\ call'[a].step = call[a].step /\ call'[a].event = call[a].event
             /\ call'[a].winner = call[a].winner /\ call'[a].delta = call[a].delta
             /\ call'[a].late = call[a].late
             /\ call[a].step # "idle" => call'[a].moved = call[a].moved \cup {p}
    <2>1. PICK S \in SUBSET Forks!PlayerSet : S = {p}
      OBVIOUS
    <2>2. PICK c \in [Forks!Actors -> ForkCalls] : c = call
      BY DEF ForksInv, ForkTypesOK
    <2>3. call' = Forks!Moved(c, S)
      BY <1>1, <2>1, <2>2
    <2> QED
      BY <2>1, <2>2, <2>3, MovedCalls
  <1>3. ForkTypesOK'
    <2>1. Forks!Credits(p) + n \in Int
      BY CreditsAreInt DEF ForksInv
    <2> QED
      BY <1>1, <1>2, <2>1 DEF ForksInv, ForkTypesOK
  <1>4. \A o \in Forks!PlayerSet \ {p} : balance'[o] = balance[o]
    BY <1>1 DEF ForksInv, ForkTypesOK
  <1>5. WinnersOK'
    BY <1>1, <1>2 DEF ForksInv, WinnersOK, Forks!Created
  <1>6. DeltasOK'
    <2> SUFFICES ASSUME NEW a \in Forks!Actors, call'[a].step = "cancelling"
                 PROVE  /\ call'[a].event \in Events
                        /\ \A o \in Forks!PlayerSet \ call'[a].moved : Due(call[a].event, o, call[a].delta[o])'
      BY DEF DeltasOK
    <2>1. call[a].step = "cancelling" /\ call'[a].moved = call[a].moved \cup {p}
      BY <1>2
    <2>2. call[a].event \in Events /\ \A o \in Forks!PlayerSet \ call[a].moved : Due(call[a].event, o, call[a].delta[o])
      BY <2>1 DEF ForksInv, DeltasOK
    <2>3. call'[a].event = call[a].event /\ call'[a].delta = call[a].delta
      BY <1>2
    <2>4. ASSUME NEW o \in Forks!PlayerSet \ call'[a].moved
          PROVE  Due(call[a].event, o, call[a].delta[o])'
      <3>1. o \in Forks!PlayerSet \ call[a].moved /\ o # p
        BY <2>1
      <3> QED
        BY <1>1, <1>4, <2>2, <2>3, <3>1 DEF Due, Forks!Credits
    <2> QED
      BY <2>2, <2>3, <2>4
  <1>7. PaidOK' /\ WorkerOK'
    <2>1. Worker \in Forks!Actors
      BY DEF Forks!Actors
    <2> QED
      BY <1>1, <1>2, <2>1 DEF ForksInv, PaidOK, WorkerOK
  <1> QED
    BY <1>3, <1>5, <1>6, <1>7 DEF ForksInv

\* An actor starts a call.
LEMMA StartsStep ==
  ASSUME ForksInv, NEW a \in Forks!Actors, NEW r \in ForkCalls, call' = [call EXCEPT ![a] = r],
         UNCHANGED <<event, branch, rewards, snapshot, balance, queue>>,
         r.event \in Events,
         r.step = "resolving" => /\ r.winner \in Forks!Created(r.event)
                                 /\ \A b \in Forks!Created(r.event) : branch[r.event][r.winner] >= branch[r.event][b],
         r.step = "cancelling" => \A p \in Forks!PlayerSet : Due(r.event, p, r.delta[p]),
         a = Worker => r.step = "resolving" /\ r.event \in queue
  PROVE  ForksInv'
  <1>1. ForkTypesOK'
    BY DEF ForksInv, ForkTypesOK
  <1>2. call'[a] = r /\ \A o \in Forks!Actors \ {a} : call'[o] = call[o]
    BY DEF ForksInv, ForkTypesOK
  <1>3. WinnersOK'
    BY <1>2 DEF ForksInv, WinnersOK, Forks!Created
  <1>4. DeltasOK'
    BY <1>2 DEF ForksInv, DeltasOK, Due, Forks!Credits
  <1>5. Worker \in Forks!Actors
    BY DEF Forks!Actors
  <1> QED
    BY <1>1, <1>2, <1>3, <1>4, <1>5 DEF ForksInv, PaidOK, WorkerOK

LEMMA ReadsStep ==
  ASSUME Forks!EventsAssumption, ForksInv, NEW a \in Forks!Actors, NEW e \in Events,
         Forks!Cardinality(Forks!Created(e)) >= 2,
         Forks!Reads(a, e), UNCHANGED <<event, branch, rewards, snapshot, balance, queue>>,
         a = Worker => e \in queue
  PROVE  ForksInv'
  <1>1. PICK w : w = Forks!Leader(e)
    OBVIOUS
  <1>2. /\ w \in Forks!Created(e) /\ w \in Forks!BranchSet
        /\ \A b \in Forks!Created(e) : branch[e][w] >= branch[e][b]
    BY <1>1, LeaderLeads DEF ForksInv, Forks!Created
  <1>3. PICK r : r = [Forks!Idle EXCEPT !.step = "resolving", !.event = e, !.winner = w]
    OBVIOUS
  <1>4. r \in ForkCalls /\ r.step = "resolving" /\ r.event = e /\ r.winner = w
    BY <1>2, <1>3, ForkIdle DEF ForkCalls
  <1>5. call' = [call EXCEPT ![a] = r]
    BY <1>1, <1>3 DEF Forks!Reads
  <1> QED
    BY <1>2, <1>4, <1>5, StartsStep

LEMMA CancelReadsStep ==
  ASSUME Forks!EventsAssumption, ForksInv, NEW h \in Handlers, NEW e \in Events, Forks!CancelReads(h, e)
  PROVE  ForksInv'
  <1>1. PICK d : d = [p \in Forks!PlayerSet |-> IF snapshot[e][p] = None THEN 0 ELSE snapshot[e][p] - Forks!Credits(p)]
    OBVIOUS
  <1>2. d \in [Forks!PlayerSet -> Int] /\ \A p \in Forks!PlayerSet : Due(e, p, d[p])
    <2>1. ASSUME NEW p \in Forks!PlayerSet
          PROVE  d[p] \in Int /\ Due(e, p, d[p])
      <3>1. PICK x \in Int \cup {None}, y \in Int : x = snapshot[e][p] /\ y = Forks!Credits(p)
        BY CreditsAreInt DEF ForksInv, ForkTypesOK
      <3>2. d[p] = IF x = None THEN 0 ELSE x - y
        BY <1>1, <3>1
      <3> QED
        BY <3>1, <3>2 DEF Due
    <2> QED
      BY <1>1, <2>1
  <1>3. PICK r : r = [Forks!Idle EXCEPT !.step = "cancelling", !.event = e, !.delta = d]
    OBVIOUS
  <1>4. r \in ForkCalls /\ r.step = "cancelling" /\ r.event = e /\ r.delta = d
    BY <1>2, <1>3, ForkIdle DEF ForkCalls
  <1>5. call' = [call EXCEPT ![h] = r] /\ UNCHANGED <<event, branch, rewards, snapshot, balance, queue>>
    BY <1>1, <1>3 DEF Forks!CancelReads, Forks!world, Forks!round
  <1>6. h \in Forks!Actors /\ h # Worker
    BY DEF Forks!Actors, Forks!EventsAssumption
  <1> QED
    BY <1>2, <1>4, <1>5, <1>6, StartsStep

LEMMA ResolutionStep ==
  ASSUME Forks!EventsAssumption, ForksInv, NEW a \in Forks!Actors, Forks!Resolution(a),
         queue' = IF a = Worker THEN queue \ {call[a].event} ELSE queue
  PROVE  ForksInv'
  <1>1. PICK c \in ForkCalls : c = call[a] /\ c.step = "resolving"
    BY DEF Forks!Resolution, ForksInv, ForkTypesOK
  <1>2. PICK e \in Events : e = c.event
    BY <1>1 DEF ForksInv, WinnersOK
  <1>3. PICK R : R = {p \in Forks!Contributors(e) : Forks!ComputedRank(e, p) <= TopRanks}
    OBVIOUS
  <1>4. /\ event' = [event EXCEPT ![e].status = "completed", ![e].winner = c.winner,
                                  ![e].meddled = event[e].meddled \/ a # Worker]
        /\ rewards' = [rewards EXCEPT ![e] = [p \in Forks!PlayerSet |->
             IF p \in R /\ rewards[e][p] < 2 THEN rewards[e][p] + 1 ELSE rewards[e][p]]]
        /\ call' = [call EXCEPT ![a] = Forks!Idle]
        /\ UNCHANGED <<branch, snapshot, balance>>
    BY <1>1, <1>2, <1>3 DEF Forks!Resolution
  <1>5. PICK r \in ForkEvents : r = event[e]
    BY DEF ForksInv, ForkTypesOK
  <1>6. PICK q : q = [r EXCEPT !.status = "completed", !.winner = c.winner, !.meddled = r.meddled \/ a # Worker]
    OBVIOUS
  <1>7. q \in ForkEvents /\ q.status = "completed" /\ q.meddled = (r.meddled \/ a # Worker)
    BY <1>6 DEF ForkEvents, ForkCalls
  <1>8. event' = [event EXCEPT ![e] = q]
    BY <1>4, <1>5, <1>6
  <1>9. event' \in [Events -> ForkEvents] /\ event'[e] = q /\ \A f \in Events \ {e} : event'[f] = event[f]
    BY <1>7, <1>8 DEF ForksInv, ForkTypesOK
  <1>10. /\ rewards' \in [Events -> [Forks!PlayerSet -> Nat]]
         /\ \A p \in Forks!PlayerSet : rewards'[e][p] \in {rewards[e][p], rewards[e][p] + 1}
         /\ \A f \in Events \ {e} : rewards'[f] = rewards[f]
    BY <1>4 DEF ForksInv, ForkTypesOK
  <1>11. /\ call' \in [Forks!Actors -> ForkCalls] /\ call'[a].step = "idle"
         /\ \A o \in Forks!Actors \ {a} : call'[o] = call[o]
    BY <1>4, ForkIdle DEF ForksInv, ForkTypesOK
  <1>12. ForkTypesOK'
    BY <1>4, <1>9, <1>10, <1>11 DEF ForksInv, ForkTypesOK
  <1>13. WinnersOK'
    BY <1>4, <1>11 DEF ForksInv, WinnersOK, Forks!Created
  <1>14. DeltasOK'
    BY <1>4, <1>11 DEF ForksInv, DeltasOK, Due, Forks!Credits
  <1>15. PaidOK'
    <2> SUFFICES ASSUME NEW f \in Events, ~event'[f].meddled
                 PROVE  /\ \A p \in Forks!PlayerSet : rewards'[f][p] <= 1 /\ (rewards'[f][p] = 0 \/ event'[f].status = "completed")
                        /\ f \in queue' => event'[f].status = "active"
      BY DEF PaidOK
    <2>1. CASE f # e
      BY <1>9, <1>10, <2>1 DEF ForksInv, PaidOK
    <2>2. CASE f = e
      <3>1. a = Worker /\ ~event[e].meddled /\ event'[e].status = "completed"
        BY <1>5, <1>7, <1>9, <2>2
      <3>2. e \in queue /\ e \notin queue'
        BY <1>1, <1>2, <3>1 DEF ForksInv, WorkerOK
      <3>3. event[e].status = "active"
        BY <3>1, <3>2 DEF ForksInv, PaidOK
      <3>4. \A p \in Forks!PlayerSet : rewards[e][p] = 0
        BY <3>1, <3>3 DEF ForksInv, PaidOK
      <3> QED
        BY <1>10, <2>2, <3>1, <3>2, <3>4
    <2> QED
      BY <2>1, <2>2
  <1>16. WorkerOK'
    <2>1. Worker \in Forks!Actors
      BY DEF Forks!Actors
    <2>2. CASE a = Worker
      BY <1>11, <2>2 DEF WorkerOK
    <2>3. CASE a # Worker
      BY <1>11, <2>1, <2>3 DEF ForksInv, WorkerOK
    <2> QED
      BY <2>2, <2>3
  <1> QED
    BY <1>12, <1>13, <1>14, <1>15, <1>16 DEF ForksInv

LEMMA CancelCommitsStep ==
  ASSUME Forks!EventsAssumption, ForksInv, NEW h \in Handlers, Forks!CancelCommits(h)
  PROVE  ForksInv'
  <1>1. h \in Forks!Actors /\ h # Worker /\ Worker \in Forks!Actors
    BY DEF Forks!Actors, Forks!EventsAssumption
  <1>2. PICK c \in ForkCalls : c = call[h] /\ c.step = "cancelling"
    BY <1>1 DEF Forks!CancelCommits, ForksInv, ForkTypesOK
  <1>3. PICK e \in Events : e = c.event
    BY <1>1, <1>2 DEF ForksInv, DeltasOK
  <1>4. PICK d \in [Forks!PlayerSet -> Int] : d = c.delta
    BY DEF ForkCalls
  <1>5. PICK S \in SUBSET Forks!PlayerSet : S = {p \in Forks!PlayerSet : d[p] # 0}
    OBVIOUS
  <1>6. PICK k : k = [call EXCEPT ![h] = Forks!Idle]
    OBVIOUS
  <1>7. /\ balance' = [p \in Forks!PlayerSet |-> IF d[p] = 0 THEN balance[p] ELSE Forks!Credits(p) + d[p]]
        /\ event' = [event EXCEPT ![e].status = "cancelled", ![e].meddled = TRUE]
        /\ call' = Forks!Moved(k, S)
        /\ UNCHANGED <<branch, rewards, snapshot, queue>>
    BY <1>2, <1>3, <1>4, <1>5, <1>6 DEF Forks!CancelCommits, Forks!round
  <1>8. k \in [Forks!Actors -> ForkCalls] /\ k[h].step = "idle" /\ \A a \in Forks!Actors \ {h} : k[a] = call[a]
    BY <1>1, <1>6, ForkIdle DEF ForksInv, ForkTypesOK
  <1>9. /\ call' \in [Forks!Actors -> ForkCalls] /\ call'[h].step = "idle"
        /\ \A a \in Forks!Actors \ {h} :
             /\ call'[a].step = call[a].step /\ call'[a].event = call[a].event
             /\ call'[a].winner = call[a].winner /\ call'[a].delta = call[a].delta
             /\ call'[a].late = call[a].late
             /\ call[a].step # "idle" => call'[a].moved = call[a].moved \cup S
    BY <1>1, <1>7, <1>8, MovedCalls
  <1>10. PICK r \in ForkEvents : r = event[e]
    BY DEF ForksInv, ForkTypesOK
  <1>11. PICK q : q = [r EXCEPT !.status = "cancelled", !.meddled = TRUE]
    OBVIOUS
  <1>12. q \in ForkEvents /\ q.meddled = TRUE
    BY <1>11 DEF ForkEvents
  <1>13. event' = [event EXCEPT ![e] = q]
    BY <1>7, <1>10, <1>11
  <1>14. event' \in [Events -> ForkEvents] /\ event'[e].meddled /\ \A f \in Events \ {e} : event'[f] = event[f]
    BY <1>12, <1>13 DEF ForksInv, ForkTypesOK
  <1>15. /\ balance' \in [Forks!PlayerSet -> Int \cup {None}]
         /\ \A p \in Forks!PlayerSet \ S : balance'[p] = balance[p]
    <2>1. ASSUME NEW p \in Forks!PlayerSet
          PROVE  (IF d[p] = 0 THEN balance[p] ELSE Forks!Credits(p) + d[p]) \in Int \cup {None}
      <3>1. Forks!Credits(p) + d[p] \in Int
        BY <1>4, CreditsAreInt DEF ForksInv
      <3> QED
        BY <3>1 DEF ForksInv, ForkTypesOK
    <2> QED
      BY <1>5, <1>7, <2>1
  <1>16. ForkTypesOK'
    BY <1>7, <1>9, <1>14, <1>15 DEF ForksInv, ForkTypesOK
  <1>17. WinnersOK'
    BY <1>7, <1>9 DEF ForksInv, WinnersOK, Forks!Created
  <1>18. DeltasOK'
    <2> SUFFICES ASSUME NEW a \in Forks!Actors, call'[a].step = "cancelling"
                 PROVE  /\ call'[a].event \in Events
                        /\ \A p \in Forks!PlayerSet \ call'[a].moved : Due(call[a].event, p, call[a].delta[p])'
      BY DEF DeltasOK
    <2>1. /\ call[a].step = "cancelling" /\ call'[a].moved = call[a].moved \cup S
          /\ call'[a].event = call[a].event /\ call'[a].delta = call[a].delta
      BY <1>9
    <2>2. call[a].event \in Events /\ \A p \in Forks!PlayerSet \ call[a].moved : Due(call[a].event, p, call[a].delta[p])
      BY <2>1 DEF ForksInv, DeltasOK
    <2>3. ASSUME NEW p \in Forks!PlayerSet \ call'[a].moved
          PROVE  Due(call[a].event, p, call[a].delta[p])'
      <3>1. p \in Forks!PlayerSet \ call[a].moved /\ p \notin S
        BY <2>1
      <3> QED
        BY <1>7, <1>15, <2>1, <2>2, <3>1 DEF Due, Forks!Credits
    <2> QED
      BY <2>1, <2>2, <2>3
  <1>19. PaidOK'
    BY <1>7, <1>14 DEF ForksInv, PaidOK
  <1>20. WorkerOK'
    BY <1>1, <1>7, <1>9 DEF ForksInv, WorkerOK
  <1> QED
    BY <1>16, <1>17, <1>18, <1>19, <1>20 DEF ForksInv

LEMMA ForksStepInvariant ==
  ASSUME Forks!EventsAssumption, ForksInv, [Forks!Next]_eventVars
  PROVE  ForksInv'
  <1>1. Worker \in Forks!Actors /\ Handlers \subseteq Forks!Actors /\ Worker \notin Handlers
    BY DEF Forks!Actors, Forks!EventsAssumption
  <1>2. ASSUME NEW h \in Handlers, NEW e \in Events, Forks!ResolveReads(h, e)
        PROVE  ForksInv'
    <2>1. /\ h \in Forks!Actors /\ h # Worker /\ Forks!Cardinality(Forks!Created(e)) >= 2
          /\ Forks!Reads(h, e) /\ UNCHANGED <<event, branch, rewards, snapshot, balance, queue>>
      BY <1>1, <1>2 DEF Forks!ResolveReads, Forks!world, Forks!round
    <2> QED
      BY <2>1, ReadsStep
  <1>3. ASSUME NEW h \in Handlers, Forks!ResolveCommits(h)
        PROVE  ForksInv'
    BY <1>1, <1>3, ResolutionStep DEF Forks!ResolveCommits, Forks!round
  <1>4. CASE Forks!WorkerReads
    <2>1. PICK e \in queue : Forks!Cardinality(Forks!Created(e)) >= 2 /\ Forks!Reads(Worker, e)
      BY <1>4 DEF Forks!WorkerReads
    <2>2. e \in Events /\ UNCHANGED <<event, branch, rewards, snapshot, balance, queue>>
      BY <1>4 DEF Forks!WorkerReads, Forks!world, Forks!round, ForksInv, ForkTypesOK
    <2> QED
      BY <1>1, <2>1, <2>2, ReadsStep
  <1>5. CASE Forks!WorkerCommits
    BY <1>1, <1>5, ResolutionStep DEF Forks!WorkerCommits
  <1>6. ASSUME Forks!WorkerSelects \/ Forks!WorkerRaises \/ Forks!WorkerAnnounces \/ UNCHANGED eventVars
        PROVE  ForksInv'
    <2>1. UNCHANGED <<event, branch, rewards, snapshot, balance, call>>
      BY <1>6 DEF Forks!WorkerSelects, Forks!WorkerRaises, Forks!WorkerAnnounces, Forks!world, eventVars
    <2>2. /\ \A e \in queue' : e \in queue \/ (e \in Events /\ event[e].status = "active")
          /\ queue' = queue \/ call[Worker].step = "idle"
      BY <1>6 DEF Forks!WorkerSelects, Forks!WorkerRaises, Forks!WorkerAnnounces, eventVars
    <2>3. ForkTypesOK'
      BY <2>1, <2>2 DEF ForksInv, ForkTypesOK
    <2>4. WinnersOK' /\ DeltasOK'
      BY <2>1 DEF ForksInv, WinnersOK, DeltasOK, Due, Forks!Credits, Forks!Created
    <2>5. PaidOK' /\ WorkerOK'
      BY <2>1, <2>2 DEF ForksInv, PaidOK, WorkerOK
    <2> QED
      BY <2>3, <2>4, <2>5 DEF ForksInv
  <1> QED
    BY <1>2, <1>3, <1>4, <1>5, <1>6, ActivatesStep, CreatesBranchStep, ContributesStep, EndsStep,
        LedgerStep,
       CancelReadsStep, CancelCommitsStep DEF Forks!Next

\* Only a commit ends a resolution or a cancellation.
LEMMA OnlyCommitsEndCalls ==
  ASSUME Forks!EventsAssumption, ForksInv, [Forks!Next]_eventVars, NEW a \in Forks!Actors,
         call[a].step # "idle", call'[a].step = "idle"
  PROVE  Forks!Resolution(a) \/ (a \in Handlers /\ Forks!CancelCommits(a))
  <1>1. Worker \in Forks!Actors /\ Handlers \subseteq Forks!Actors
    BY DEF Forks!Actors
  <1>2. ASSUME call' = call
        PROVE  FALSE
    BY <1>2
  <1>3. ASSUME NEW p \in Forks!PlayerSet, NEW n \in {-1, 1}, Forks!LedgerMoves(p, n)
        PROVE  FALSE
    <2>1. PICK S \in SUBSET Forks!PlayerSet, c \in [Forks!Actors -> ForkCalls] : S = {p} /\ c = call
      BY DEF ForksInv, ForkTypesOK
    <2>2. call' = Forks!Moved(c, S)
      BY <1>3, <2>1 DEF Forks!LedgerMoves
    <2> QED
      BY <2>1, <2>2, MovedCalls
  <1>4. ASSUME NEW e \in Events, NEW b \in Forks!BranchSet, NEW p \in Forks!PlayerSet,
               Forks!RecordBranchContribution(e, b, p)
        PROVE  FALSE
    <2>1. PICK r \in ForkCalls : r = call[a]
      BY DEF ForksInv, ForkTypesOK
    <2>2. [r EXCEPT !.late = TRUE].step = r.step
      BY DEF ForkCalls
    <2>3. call'[a] = r \/ call'[a] = [r EXCEPT !.late = TRUE]
      BY <1>4, <2>1 DEF Forks!RecordBranchContribution
    <2> QED
      BY <2>1, <2>2, <2>3
  <1>5. ASSUME NEW o \in Forks!Actors, NEW e, Forks!Reads(o, e)
        PROVE  FALSE
    <2>1. [Forks!Idle EXCEPT !.step = "resolving", !.event = e, !.winner = Forks!Leader(e)].step = "resolving"
      BY DEF Forks!Idle
    <2> QED
      BY <1>5, <2>1 DEF Forks!Reads, ForksInv, ForkTypesOK
  <1>6. ASSUME NEW h \in Handlers, NEW e \in Events, Forks!CancelReads(h, e)
        PROVE  FALSE
    <2>1. PICK d : call' = [call EXCEPT ![h] = [Forks!Idle EXCEPT !.step = "cancelling", !.event = e, !.delta = d]]
      BY <1>6 DEF Forks!CancelReads
    <2>2. [Forks!Idle EXCEPT !.step = "cancelling", !.event = e, !.delta = d].step = "cancelling"
      BY DEF Forks!Idle
    <2> QED
      BY <1>1, <2>1, <2>2 DEF ForksInv, ForkTypesOK
  <1>7. ASSUME NEW o \in Forks!Actors, Forks!Resolution(o)
        PROVE  o = a
    BY <1>7 DEF Forks!Resolution, ForksInv, ForkTypesOK
  <1>8. ASSUME NEW h \in Handlers, Forks!CancelCommits(h)
        PROVE  h = a
    <2>1. PICK S \in SUBSET Forks!PlayerSet : call' = Forks!Moved([call EXCEPT ![h] = Forks!Idle], S)
      BY <1>8 DEF Forks!CancelCommits
    <2>2. PICK c \in [Forks!Actors -> ForkCalls] : c = [call EXCEPT ![h] = Forks!Idle]
      BY <1>1, ForkIdle DEF ForksInv, ForkTypesOK
    <2>3. call'[a].step = c[a].step
      BY <2>1, <2>2, MovedCalls
    <2> QED
      BY <2>2, <2>3 DEF ForksInv, ForkTypesOK
  <1> QED
    BY <1>1, <1>2, <1>3, <1>4, <1>5, <1>6, <1>7, <1>8
       DEF Forks!Next, eventVars, Forks!ActivateEvent, Forks!EndPasses, Forks!CreateBranch,
           Forks!ResolveReads,
           Forks!ResolveCommits, Forks!WorkerSelects, Forks!WorkerReads, Forks!WorkerRaises, Forks!WorkerCommits,
           Forks!WorkerAnnounces

LEMMA StepsCrown ==
  ASSUME Forks!EventsAssumption, ForksInv, [Forks!Next]_eventVars
  PROVE  Forks!Crowns
  <1> SUFFICES ASSUME NEW a \in Forks!Actors, call[a].step = "resolving", call'[a].step = "idle", ~call[a].late,
                      NEW b \in Forks!Created(call[a].event)
               PROVE  branch[call[a].event][event'[call[a].event].winner] >= branch[call[a].event][b]
    BY DEF Forks!Crowns
  <1>1. Forks!Resolution(a)
    BY OnlyCommitsEndCalls DEF Forks!CancelCommits
  <1>2. call[a].event \in Events /\ branch[call[a].event][call[a].winner] >= branch[call[a].event][b]
    BY DEF ForksInv, WinnersOK
  <1>3. PICK e \in Events : e = call[a].event
    BY <1>2
  <1>4. event'[e].winner = call[a].winner
    <2>1. PICK r \in ForkEvents : r = event[e]
      BY DEF ForksInv, ForkTypesOK
    <2>2. PICK m : event' = [event EXCEPT ![e].status = "completed", ![e].winner = call[a].winner, ![e].meddled = m]
      BY <1>1, <1>3 DEF Forks!Resolution
    <2>3. PICK w : w = call[a].winner
      OBVIOUS
    <2>4. [r EXCEPT !.status = "completed", !.winner = w, !.meddled = m].winner = w
      BY DEF ForkEvents
    <2>5. event'[e] = [r EXCEPT !.status = "completed", !.winner = w, !.meddled = m]
      BY <2>1, <2>2, <2>3 DEF ForksInv, ForkTypesOK
    <2> QED
      BY <2>3, <2>4, <2>5
  <1> QED
    BY <1>2, <1>3, <1>4

LEMMA StepsRestore ==
  ASSUME Forks!EventsAssumption, ForksInv, [Forks!Next]_eventVars
  PROVE  Forks!Restores
  <1> SUFFICES ASSUME NEW a \in Forks!Actors, call[a].step = "cancelling", call'[a].step = "idle",
                      NEW p \in Forks!PlayerSet \ call[a].moved
               PROVE  IF snapshot[call[a].event][p] # None
                      THEN Forks!Credits(p)' = snapshot[call[a].event][p]
                      ELSE balance'[p] = balance[p]
    BY DEF Forks!Restores
  <1>1. Forks!CancelCommits(a)
    BY OnlyCommitsEndCalls DEF Forks!Resolution
  <1>2. PICK d \in Int : d = call[a].delta[p]
    BY DEF ForksInv, ForkTypesOK, ForkCalls
  <1>3. balance'[p] = IF d = 0 THEN balance[p] ELSE Forks!Credits(p) + d
    BY <1>1, <1>2 DEF Forks!CancelCommits
  <1>4. Due(call[a].event, p, d)
    BY <1>2 DEF ForksInv, DeltasOK
  <1>5. Forks!Credits(p) \in Int
    BY CreditsAreInt DEF ForksInv
  <1>6. Forks!Credits(p)' = IF balance'[p] = None THEN 0 ELSE balance'[p]
    BY DEF Forks!Credits
  <1>7. Forks!Credits(p)' = Forks!Credits(p) + d
    <2>1. CASE d = 0
      BY <1>3, <1>5, <1>6, <2>1 DEF Forks!Credits
    <2>2. CASE d # 0
      <3>1. balance'[p] \in Int /\ balance'[p] # None
        BY <1>2, <1>3, <1>5, <2>2 DEF Forks!EventsAssumption
      <3> QED
        BY <1>3, <1>6, <2>2, <3>1
    <2> QED
      BY <2>1, <2>2
  <1> QED
    BY <1>3, <1>4, <1>7 DEF Due

\* Whatever work, resolutions, cancellations and activations come between the reads and the writes
\* of a resolution.
THEOREM ForksSettle == Spec => ForksAreSettled
  <1>1. Init => ForksInv
    BY ServicesAssumption, ForksInitInvariant DEF Init, ServicesAssumption
  <1>2. ForksInv /\ [Next]_vars => ForksInv' /\ [Forks!Crowns /\ Forks!WorkerPaysOnce']_vars
    <2> SUFFICES ASSUME ForksInv, [Next]_vars
                 PROVE  ForksInv' /\ Forks!Crowns /\ Forks!WorkerPaysOnce'
      OBVIOUS
    <2>1. ForksInv' /\ Forks!Crowns
      BY ServicesAssumption, ForksStepInvariant, StepsCrown, Steps DEF ServicesAssumption
    <2>2. Forks!WorkerPaysOnce'
      BY <2>1 DEF ForksInv, PaidOK, Forks!WorkerPaysOnce
    <2> QED
      BY <2>1, <2>2
  <1> QED
    BY <1>1, <1>2, PTL DEF Spec, ForksAreSettled

\* Whatever other cancellations and other services post meanwhile: a player whose ledger they leave
\* alone gets the balance of the activation back, or, without entries then, keeps the balance.
THEOREM CancellationsRestore == Spec => CancelRestoresBalances
  <1>1. Init => ForksInv
    BY ServicesAssumption, ForksInitInvariant DEF Init, ServicesAssumption
  <1>2. ForksInv /\ [Next]_vars => ForksInv' /\ [Forks!Restores]_vars
    BY ServicesAssumption, ForksStepInvariant, StepsRestore, Steps DEF ServicesAssumption
  <1> QED
    BY <1>1, <1>2, PTL DEF Spec, CancelRestoresBalances

-----------------------------------------------------------------------------
(* Leaderboards: who hides stays hidden.                                   *)

LEMMA CountsAgree ==
  ASSUME NEW S
  PROVE  Boards!Cardinality(S) = Cardinality(S)
  BY DEF Boards!Cardinality, Cardinality

\* Every rank up to the number of rows is that of one of them.
LEMMA RankedAreRows ==
  ASSUME NEW S \in SUBSET Nat, IsFiniteSet(S), NEW points, \A x \in S : points[x] \in Nat, Limit \in Nat
  PROVE  Boards!RankedRows(S, points) \in Seq(S)
  <1> DEFINE Better(x) == {y \in S : points[y] > points[x] \/ (points[y] = points[x] /\ y < x)}
             n == Cardinality(S)
             m == IF n < Limit THEN n ELSE Limit
             rank == [x \in S |-> 1 + Cardinality(Better(x))]
  <1>1. n \in Nat
    BY FS_CardinalityType
  <1>2. ASSUME NEW x \in S
        PROVE  /\ IsFiniteSet(Better(x)) /\ Cardinality(Better(x)) \in Nat
               /\ x \notin Better(x) /\ Cardinality(Better(x)) < n
    <2>1. IsFiniteSet(S \ {x}) /\ Cardinality(S \ {x}) = n - 1
      BY FS_RemoveElement
    <2>2. x \notin Better(x)
      OBVIOUS
    <2>3. Better(x) \in SUBSET (S \ {x})
      BY <2>2
    <2> HIDE DEF Better, n
    <2>4. IsFiniteSet(Better(x)) /\ Cardinality(Better(x)) <= n - 1
      BY <2>1, <2>3, FS_Subset
    <2> QED
      BY <1>1, <2>2, <2>4, FS_CardinalityType
  <1>3. ASSUME NEW x \in S, NEW y \in S, x \in Better(y)
        PROVE  Cardinality(Better(x)) < Cardinality(Better(y))
    <2>1. Better(x) \subseteq Better(y)
      <3> SUFFICES ASSUME NEW z \in Better(x)
                   PROVE  z \in Better(y)
        OBVIOUS
      <3>1. z \in S /\ z \in Nat /\ x \in Nat /\ y \in Nat /\ points[x] \in Nat /\ points[y] \in Nat /\ points[z] \in Nat
        OBVIOUS
      <3> QED
        BY <1>3, <3>1
    <2>2. x \notin Better(x) /\ IsFiniteSet(Better(x)) /\ IsFiniteSet(Better(y))
          /\ Cardinality(Better(x)) \in Nat /\ Cardinality(Better(y)) \in Nat
      BY <1>2
    <2> HIDE DEF Better
    <2>3. Better(x) \in SUBSET Better(y) /\ Better(x) # Better(y)
      BY <1>3, <2>1, <2>2
    <2> QED
      BY <2>2, <2>3, FS_Subset
  <1>4. ASSUME NEW x \in S, NEW y \in S, x # y
        PROVE  rank[x] # rank[y]
    <2>1. x \in Better(y) \/ y \in Better(x)
      BY <1>4
    <2>2. Cardinality(Better(x)) # Cardinality(Better(y))
      <3> HIDE DEF Better
      <3> QED
        BY <1>2, <1>3, <2>1
    <2>3. Cardinality(Better(x)) \in Nat /\ Cardinality(Better(y)) \in Nat
      BY <1>2
    <2> HIDE DEF Better
    <2> QED
      BY <2>2, <2>3
  <1>5. rank \in [S -> 1 .. n]
    <2> HIDE DEF Better, n
    <2> QED
      BY <1>1, <1>2
  <1>6. ASSUME NEW i \in 1 .. n
        PROVE  \E x \in S : rank[x] = i
    <2> HIDE DEF rank, n
    <2> SUFFICES ASSUME \A x \in S : rank[x] # i
                 PROVE  FALSE
      OBVIOUS
    <2>1. rank \in [S -> (1 .. n) \ {i}]
      BY <1>5
    <2>2. IsFiniteSet(1 .. n) /\ Cardinality(1 .. n) = n
      BY <1>1, FS_Interval
    <2>3. IsFiniteSet((1 .. n) \ {i}) /\ Cardinality((1 .. n) \ {i}) = n - 1
      <3>1. PICK T : T = 1 .. n
        OBVIOUS
      <3>2. IsFiniteSet(T) /\ Cardinality(T) = n /\ i \in T
        BY <2>2, <3>1
      <3>3. IsFiniteSet(T \ {i}) /\ Cardinality(T \ {i}) = n - 1
        BY <3>2, FS_RemoveElement
      <3> QED
        BY <3>1, <3>3
    <2>4. Cardinality((1 .. n) \ {i}) < Cardinality(S)
      BY <1>1, <2>3 DEF n
    <2>5. \E x, y \in S : x # y /\ rank[x] = rank[y]
      <3>1. PICK T : T = (1 .. n) \ {i}
        OBVIOUS
      <3>2. IsFiniteSet(T) /\ Cardinality(T) < Cardinality(S) /\ rank \in [S -> T]
        BY <2>1, <2>3, <2>4, <3>1
      <3> QED
        BY <3>2, FS_PigeonHole
    <2> QED
      BY <1>4, <2>5
  <1>7. Boards!RankedRows(S, points) =
          [i \in 1 .. m |-> CHOOSE x \in S : 1 + Boards!Cardinality(Better(x)) = i]
    <2>1. n = Boards!Cardinality(S)
      BY CountsAgree
    <2> QED
      BY <2>1 DEF Boards!RankedRows
  <1>8. m \in Nat /\ 1 .. m \subseteq 1 .. n
    <2> HIDE DEF n
    <2> QED
      BY <1>1
  <1>9. ASSUME NEW i \in 1 .. m
        PROVE  (CHOOSE x \in S : 1 + Boards!Cardinality(Better(x)) = i) \in S
    <2>1. i \in 1 .. n
      BY <1>8
    <2>2. \E x \in S : rank[x] = i
      BY <1>6, <2>1
    <2> HIDE DEF Better
    <2>3. \E x \in S : 1 + Boards!Cardinality(Better(x)) = i
      BY <2>2, CountsAgree
    <2> QED
      BY <2>3
  <1> HIDE DEF n, m, rank, Better
  <1>10. PICK f : f = [i \in 1 .. m |-> CHOOSE x \in S : 1 + Boards!Cardinality(Better(x)) = i]
    OBVIOUS
  <1>11. \A i \in 1 .. m : f[i] \in S
    BY <1>9, <1>10
  <1>12. DOMAIN f = 1 .. m /\ f = [i \in 1 .. m |-> f[i]]
    BY <1>10
  <1>13. f \in Seq(S)
    BY <1>8, <1>11, <1>12
  <1> QED
    BY <1>7, <1>10, <1>13

\* No more rows than the board's limit.
LEMMA RankedAreFew ==
  ASSUME NEW S \in SUBSET Nat, IsFiniteSet(S), NEW points, \A x \in S : points[x] \in Nat, Limit \in Nat
  PROVE  Len(Boards!RankedRows(S, points)) <= Limit
  <1>1. PICK rows \in Seq(S) : rows = Boards!RankedRows(S, points)
    BY RankedAreRows
  <1>2. PICK n \in Nat : n = Boards!Cardinality(S)
    BY CountsAgree, FS_CardinalityType
  <1>3. PICK m \in Nat : m = (IF n < Limit THEN n ELSE Limit) /\ m <= Limit
    OBVIOUS
  <1>4. DOMAIN rows = 1 .. m
    BY <1>1, <1>2, <1>3 DEF Boards!RankedRows
  <1>5. DOMAIN rows = 1 .. Len(rows) /\ Len(rows) \in Nat
    BY <1>1, LenProperties
  <1>6. Len(rows) <= m
    BY <1>4, <1>5
  <1> QED
    BY <1>1, <1>3, <1>5, <1>6

\* Rows of a board: pools on that of the pools, players on the others, as many as there is room for.
RowsFit(rows, b) ==
  rows \in Seq(IF b = "pools" THEN RankedPools ELSE RankedPlayers) /\ Len(rows) <= Limit

LEMMA SeqWiden ==
  ASSUME NEW S, NEW T, S \subseteq T, NEW s \in Seq(S)
  PROVE  s \in Seq(T)
  <1>1. Len(s) \in Nat /\ s \in [1 .. Len(s) -> S]
    BY LenProperties
  <1>2. s \in [1 .. Len(s) -> T]
    BY <1>1
  <1> QED
    BY <1>1, <1>2

BoardCalls == [step : {"idle", "refresh", "commit", "read", "done"},
               wants : Boards!Boards \cup {"", "position", "visibility"}, at : 0 .. 4,
               rows : Seq(Nat), answer : Seq(Nat), since : SUBSET RankedPlayers]

BoardTypesOK ==
  /\ figure \in [Boards!PlayerBoards -> [RankedPlayers -> Nat]]
  /\ hidden \subseteq RankedPlayers
  /\ board \in [Boards!Boards -> Seq(Nat)]
  /\ lock \in [Boards!Boards -> Requests \cup {None}]
  /\ asked \in [Requests -> BoardCalls]
  /\ \A r \in Requests : asked[r].step \in {"refresh", "commit"} => asked[r].at \in 1 .. 4

\* A transaction that has truncated a board holds its lock.
LocksOK == \A r \in Requests : asked[r].step = "commit" => lock[Boards!Order[asked[r].at]] = r

\* The boards a request has refreshed.
Passed(r) ==
  IF asked[r].step \in {"read", "done"} THEN Boards!Boards
  ELSE {b \in Boards!Boards : \E i \in 1 .. 4 : i < asked[r].at /\ Boards!Order[i] = b}

\* Rows list nobody that a request that passed the board found hidden: neither those committed
\* nor those a transaction is about to commit.
Lists(rows, S) == \E i \in DOMAIN rows : rows[i] \in S

SincesOK ==
  \A r \in Requests :
    /\ asked[r].since \subseteq hidden
    /\ asked[r].step = "commit" /\ Boards!Order[asked[r].at] \in Boards!PlayerBoards =>
         ~Lists(asked[r].rows, asked[r].since)
    /\ \A b \in Boards!PlayerBoards \cap Passed(r) :
         /\ ~Lists(board[b], asked[r].since)
         /\ \A s \in Requests : asked[s].step = "commit" /\ Boards!Order[asked[s].at] = b =>
              ~Lists(asked[s].rows, asked[r].since)

BoardsInv == BoardTypesOK /\ LocksOK /\ SincesOK /\ Boards!HiddenStayHidden

LEMMA BoardIdle ==
  /\ Boards!Idle \in BoardCalls /\ Boards!Idle.step = "idle" /\ Boards!Idle.at = 0 /\ Boards!Idle.since = {}
  BY EmptySeq DEF Boards!Idle, BoardCalls

LEMMA BoardsInitInvariant ==
  ASSUME Boards!Init
  PROVE  BoardsInv
  <1>1. BoardTypesOK
    BY BoardIdle, EmptySeq DEF Boards!Init, BoardTypesOK
  <1>2. LocksOK /\ Boards!HiddenStayHidden
    BY BoardIdle DEF Boards!Init, LocksOK, Boards!HiddenStayHidden
  <1>3. \A r \in Requests : asked[r].step = "idle" /\ asked[r].at = 0 /\ asked[r].since = {}
    BY BoardIdle DEF Boards!Init
  <1>4. \A r \in Requests : Passed(r) = {}
    BY <1>3 DEF Passed
  <1>5. SincesOK
    BY <1>3, <1>4 DEF SincesOK
  <1> QED
    BY <1>1, <1>2, <1>5 DEF BoardsInv

\* What a refresh ranks is not hidden.
LEMMA RefreshedAreVisible ==
  ASSUME Boards!LeaderboardsAssumption, BoardTypesOK, NEW b \in Boards!PlayerBoards
  PROVE  Boards!Rows(b) \in Seq(RankedPlayers \ hidden) /\ Len(Boards!Rows(b)) <= Limit
  <1>1. /\ RankedPlayers \subseteq Nat /\ IsFiniteSet(RankedPlayers) /\ Limit \in Nat
        /\ figure \in [Boards!PlayerBoards -> [RankedPlayers -> Nat]]
    BY DEF Boards!LeaderboardsAssumption, BoardTypesOK, Boards!IsFiniteSet, IsFiniteSet
  <1>2. PICK S \in SUBSET (RankedPlayers \ hidden) : Boards!Rows(b) = Boards!RankedRows(S, figure[b])
    <2>1. CASE b = "hashrate"
      BY <2>1 DEF Boards!Rows, Boards!HashrateRows
    <2>2. CASE b = "weekly"
      <3>1. Boards!Rows(b) = Boards!RankedRows({p \in RankedPlayers : figure["weekly"][p] > 0} \ hidden, figure[b])
        BY <2>2 DEF Boards!Rows, Boards!WeeklyRows
      <3> QED
        BY <3>1
    <2>3. CASE b = "wealth"
      <3>1. Boards!Rows(b) = Boards!RankedRows({p \in RankedPlayers : figure["wealth"][p] > 0} \ hidden, figure[b])
        BY <2>3 DEF Boards!Rows, Boards!WealthRows
      <3> QED
        BY <3>1
    <2> QED
      BY <2>1, <2>2, <2>3 DEF Boards!PlayerBoards
  <1>3. \A x \in S : figure[b][x] \in Nat
    BY <1>1
  <1>4. IsFiniteSet(S) /\ S \in SUBSET Nat
    BY <1>1, FS_Subset
  <1>5. Boards!RankedRows(S, figure[b]) \in Seq(S) /\ Len(Boards!RankedRows(S, figure[b])) <= Limit
    <2>1. PICK f : f = figure[b]
      OBVIOUS
    <2>2. Boards!RankedRows(S, f) \in Seq(S) /\ Len(Boards!RankedRows(S, f)) <= Limit
      BY <1>1, <1>3, <1>4, <2>1, RankedAreRows, RankedAreFew
    <2> QED
      BY <2>1, <2>2
  <1> QED
    BY <1>2, <1>5

LEMMA SumsAgree ==
  ASSUME NEW f, NEW S
  PROVE  Boards!SumFunctionOnSet(f, S) = SumFunctionOnSet(f, S)
  BY DEF Boards!SumFunctionOnSet, SumFunctionOnSet, Boards!FoldFunctionOnSet, FoldFunctionOnSet,
         Boards!MapThenFoldSet, MapThenFoldSet

LEMMA OrderIsOfBoards ==
  /\ \A i \in 1 .. 4 : Boards!Order[i] \in Boards!Boards
  /\ \A i, j \in 1 .. 4 : Boards!Order[i] = Boards!Order[j] => i = j
  /\ \A b \in Boards!Boards : \E i \in 1 .. 4 : Boards!Order[i] = b
  <1>1. \A i \in 1 .. 4 : i \in {1, 2, 3, 4}
    OBVIOUS
  <1>2. /\ Boards!Order[1] = "hashrate" /\ Boards!Order[2] = "pools"
        /\ Boards!Order[3] = "weekly" /\ Boards!Order[4] = "wealth"
    BY DEF Boards!Order
  <1>3. Boards!Boards = {"hashrate", "weekly", "wealth", "pools"}
    BY DEF Boards!Boards, Boards!PlayerBoards
  <1> QED
    BY <1>1, <1>2, <1>3

LEMMA RowsAreNumbers ==
  ASSUME Boards!LeaderboardsAssumption, BoardTypesOK, NEW b \in Boards!Boards
  PROVE  Boards!Rows(b) \in Seq(Nat) /\ RowsFit(Boards!Rows(b), b)
  <1>1. CASE b \in Boards!PlayerBoards
    <2>1. /\ Boards!Rows(b) \in Seq(RankedPlayers \ hidden) /\ RankedPlayers \subseteq Nat
          /\ Len(Boards!Rows(b)) <= Limit
      BY <1>1, RefreshedAreVisible DEF Boards!LeaderboardsAssumption
    <2>2. RankedPlayers \ hidden \subseteq Nat /\ RankedPlayers \ hidden \subseteq RankedPlayers
      BY <2>1
    <2>3. Boards!Rows(b) \in Seq(RankedPlayers) /\ Boards!Rows(b) \in Seq(Nat)
      BY <2>1, <2>2, SeqWiden
    <2>4. b # "pools"
      BY <1>1 DEF Boards!PlayerBoards
    <2> QED
      BY <2>1, <2>3, <2>4 DEF RowsFit
  <1>2. CASE b = "pools"
    <2> DEFINE members(k) == {p \in RankedPlayers : member[p] = k}
               S == {k \in RankedPools : members(k) # {}}
               sums == [k \in RankedPools |-> Boards!SumFunctionOnSet(figure["hashrate"], members(k))]
    <2>1. /\ RankedPlayers \subseteq Nat /\ IsFiniteSet(RankedPlayers) /\ IsFiniteSet(RankedPools) /\ Limit \in Nat
          /\ RankedPools \subseteq Nat /\ figure["hashrate"] \in [RankedPlayers -> Nat]
      BY DEF Boards!LeaderboardsAssumption, BoardTypesOK, Boards!PlayerBoards, Boards!IsFiniteSet,
          IsFiniteSet
    <2>2. ASSUME NEW k \in RankedPools
          PROVE  sums[k] \in Nat
      <3>1. members(k) \in SUBSET RankedPlayers
        OBVIOUS
      <3>2. PICK T, f : T = members(k) /\ f = figure["hashrate"]
        OBVIOUS
      <3>3. IsFiniteSet(T) /\ \A p \in T : f[p] \in Nat
        BY <2>1, <3>1, <3>2, FS_Subset
      <3>4. SumFunctionOnSet(f, T) \in Nat
        BY <3>3, SumNat
      <3> QED
        BY <3>2, <3>4, SumsAgree
    <2>3. S \in SUBSET RankedPools
      OBVIOUS
    <2>4. Boards!Rows(b) = Boards!RankedRows(S, sums)
      BY <1>2 DEF Boards!Rows, Boards!PoolRows, Boards!PlayerBoards
    <2> HIDE DEF S, sums, members
    <2>5. S \in SUBSET Nat /\ IsFiniteSet(S) /\ \A k \in S : sums[k] \in Nat
      BY <2>1, <2>2, <2>3, FS_Subset
    <2>6. Boards!RankedRows(S, sums) \in Seq(S) /\ Len(Boards!RankedRows(S, sums)) <= Limit
      BY <2>1, <2>5, RankedAreRows, RankedAreFew
    <2>7. Boards!Rows(b) \in Seq(RankedPools) /\ Boards!Rows(b) \in Seq(Nat)
      BY <2>3, <2>4, <2>5, <2>6, SeqWiden
    <2> QED
      BY <1>2, <2>4, <2>6, <2>7 DEF RowsFit
  <1> QED
    BY <1>1, <1>2 DEF Boards!Boards

\* A call that has nothing to commit and less to remember.
LEMMA BoardStartsStep ==
  ASSUME BoardsInv, NEW r \in Requests, NEW q \in BoardCalls, q.step = "refresh", q.at = 1,
         NEW S \in SUBSET RankedPlayers, hidden' \subseteq RankedPlayers, hidden \ S \subseteq hidden',
         q.since \subseteq hidden',
         asked' = [s \in Requests |-> IF s = r THEN q ELSE [asked[s] EXCEPT !.since = asked[s].since \ S]],
         asked[r].step \in {"idle", "done"}, UNCHANGED <<figure, board, lock>>
  PROVE  BoardsInv'
  <1>1. ASSUME NEW s \in Requests, s # r
        PROVE  /\ asked'[s] \in BoardCalls /\ asked'[s].step = asked[s].step /\ asked'[s].wants = asked[s].wants
               /\ asked'[s].at = asked[s].at /\ asked'[s].rows = asked[s].rows /\ asked'[s].answer = asked[s].answer
               /\ asked'[s].since = asked[s].since \ S
    <2>1. PICK c \in BoardCalls : c = asked[s]
      BY DEF BoardsInv, BoardTypesOK
    <2>2. PICK d : d = [c EXCEPT !.since = c.since \ S]
      OBVIOUS
    <2>3. /\ d \in BoardCalls /\ d.step = c.step /\ d.wants = c.wants /\ d.at = c.at
          /\ d.rows = c.rows /\ d.answer = c.answer /\ d.since = c.since \ S
      BY <2>2 DEF BoardCalls
    <2> QED
      BY <1>1, <2>1, <2>2, <2>3
  <1>2. asked'[r] = q
    OBVIOUS
  <1>3. BoardTypesOK'
    <2>1. asked' \in [Requests -> BoardCalls]
      <3>1. \A s \in Requests : asked'[s] \in BoardCalls
        BY <1>1, <1>2
      <3>2. asked' = [s \in Requests |-> asked'[s]]
        OBVIOUS
      <3> QED
        BY <3>1, <3>2
    <2>2. \A s \in Requests : asked'[s].step \in {"refresh", "commit"} => asked'[s].at \in 1 .. 4
      BY <1>1, <1>2 DEF BoardsInv, BoardTypesOK
    <2> QED
      BY <2>1, <2>2 DEF BoardsInv, BoardTypesOK
  <1>4. LocksOK' /\ Boards!HiddenStayHidden'
    <2>1. LocksOK'
      BY <1>1, <1>2 DEF BoardsInv, LocksOK
    <2>2. Boards!HiddenStayHidden'
      <3> SUFFICES ASSUME NEW s \in Requests, asked'[s].step = "done",
                          asked'[s].wants \in Boards!PlayerBoards \cup {"position"},
                          NEW i \in 1 .. Len(asked'[s].answer)
                   PROVE  asked'[s].answer[i] \notin asked'[s].since
        BY DEF Boards!HiddenStayHidden
      <3>1. s # r
        BY <1>2
      <3> QED
        BY <1>1, <3>1 DEF BoardsInv, Boards!HiddenStayHidden
    <2> QED
      BY <2>1, <2>2
  <1>5. Passed(r)' = {}
    BY <1>2 DEF Passed
  <1>6. \A s \in Requests \ {r} : Passed(s)' = Passed(s)
    BY <1>1 DEF Passed
  <1>7. SincesOK'
    <2> SUFFICES ASSUME NEW s \in Requests
                 PROVE  /\ asked'[s].since \subseteq hidden'
                        /\ asked'[s].step = "commit" /\ Boards!Order[asked'[s].at] \in Boards!PlayerBoards =>
                             ~Lists(asked'[s].rows, asked'[s].since)
                        /\ \A b \in Boards!PlayerBoards \cap Passed(s)' :
                             /\ ~Lists(board[b], asked'[s].since)
                             /\ \A t \in Requests : asked'[t].step = "commit" /\ Boards!Order[asked'[t].at] = b =>
                                  ~Lists(asked'[t].rows, asked'[s].since)
      BY DEF SincesOK
    <2>1. CASE s = r
      BY <1>2, <1>5, <2>1
    <2>2. CASE s # r
      <3>1. asked[s].since \subseteq hidden
        BY DEF BoardsInv, SincesOK
      <3>2. \A t \in Requests : asked'[t].step = "commit" =>
              t # r /\ asked[t].step = "commit" /\ asked'[t].at = asked[t].at /\ asked'[t].rows = asked[t].rows
        BY <1>1, <1>2
      <3>3. \A R : ~Lists(R, asked[s].since) => ~Lists(R, asked'[s].since)
        BY <1>1, <2>2 DEF Lists
      <3>4. Passed(s)' = Passed(s)
        BY <1>6, <2>2
      <3>5. asked'[s].since \subseteq hidden'
        BY <1>1, <2>2, <3>1
      <3>6. asked'[s].step = asked[s].step /\ asked'[s].at = asked[s].at /\ asked'[s].rows = asked[s].rows
        BY <1>1, <2>2
      <3>7. asked[s].step = "commit" /\ Boards!Order[asked[s].at] \in Boards!PlayerBoards =>
              ~Lists(asked[s].rows, asked[s].since)
        BY DEF BoardsInv, SincesOK
      <3>8. ASSUME NEW b \in Boards!PlayerBoards \cap Passed(s)
            PROVE  /\ ~Lists(board[b], asked'[s].since)
                   /\ \A t \in Requests : asked'[t].step = "commit" /\ Boards!Order[asked'[t].at] = b =>
                        ~Lists(asked'[t].rows, asked'[s].since)
        <4>1. /\ ~Lists(board[b], asked[s].since)
              /\ \A t \in Requests : asked[t].step = "commit" /\ Boards!Order[asked[t].at] = b =>
                   ~Lists(asked[t].rows, asked[s].since)
          BY DEF BoardsInv, SincesOK
        <4>2. ~Lists(board[b], asked'[s].since)
          BY <3>3, <4>1
        <4>3. ASSUME NEW t \in Requests, asked'[t].step = "commit", Boards!Order[asked'[t].at] = b
              PROVE  ~Lists(asked'[t].rows, asked'[s].since)
          BY <3>2, <3>3, <4>1, <4>3
        <4> QED
          BY <4>2, <4>3
      <3> QED
        BY <3>3, <3>4, <3>5, <3>6, <3>7, <3>8
    <2> QED
      BY <2>1, <2>2
  <1> QED
    BY <1>3, <1>4, <1>7 DEF BoardsInv

\* A request that truncates a board ranks what is visible.
LEMMA RefreshesStep ==
  ASSUME Boards!LeaderboardsAssumption, BoardsInv, NEW r \in Requests, Boards!Refreshes(r)
  PROVE  BoardsInv'
  <1>1. PICK k \in BoardCalls : k = asked[r]
    BY DEF BoardsInv, BoardTypesOK
  <1>2. PICK b \in Boards!Boards : b = Boards!Order[k.at] /\ k.at \in 1 .. 4
    <2>1. k.at \in 1 .. 4
      BY <1>1 DEF Boards!Refreshes, BoardsInv, BoardTypesOK
    <2> QED
      BY <2>1, OrderIsOfBoards
  <1>3. PICK R \in Seq(Nat) : R = Boards!Rows(b)
    BY RowsAreNumbers DEF BoardsInv
  <1>4. PICK q : q = [k EXCEPT !.step = "commit", !.rows = R]
    OBVIOUS
  <1>5. /\ q \in BoardCalls /\ q.step = "commit" /\ q.at = k.at /\ q.rows = R /\ q.since = k.since
        /\ q.wants = k.wants /\ q.answer = k.answer
    BY <1>4 DEF BoardCalls
  <1>6. /\ asked' = [asked EXCEPT ![r] = q] /\ k.step = "refresh" /\ lock[b] = None
        /\ lock' = [lock EXCEPT ![b] = r] /\ UNCHANGED <<figure, hidden, board>>
    BY <1>1, <1>2, <1>3, <1>4 DEF Boards!Refreshes, Boards!Unmoved
  <1>7. BoardTypesOK'
    BY <1>2, <1>5, <1>6 DEF BoardsInv, BoardTypesOK
  <1>8. asked'[r] = q /\ \A s \in Requests \ {r} : asked'[s] = asked[s]
    BY <1>6 DEF BoardsInv, BoardTypesOK
  <1>9. lock'[b] = r /\ \A c \in Boards!Boards \ {b} : lock'[c] = lock[c]
    BY <1>6 DEF BoardsInv, BoardTypesOK
  <1>10. None \notin Requests
    BY DEF Boards!LeaderboardsAssumption
  <1>11. LocksOK'
    <2> SUFFICES ASSUME NEW s \in Requests, asked'[s].step = "commit"
                 PROVE  lock'[Boards!Order[asked'[s].at]] = s
      BY DEF LocksOK
    <2>1. CASE s = r
      BY <1>2, <1>5, <1>8, <1>9, <2>1
    <2>2. CASE s # r
      <3>1. asked[s].step = "commit" /\ asked'[s].at = asked[s].at /\ asked[s].at \in 1 .. 4
        BY <1>8, <2>2 DEF BoardsInv, BoardTypesOK
      <3>2. lock[Boards!Order[asked[s].at]] = s
        BY <3>1 DEF BoardsInv, LocksOK
      <3>3. Boards!Order[asked[s].at] \in Boards!Boards \ {b}
        BY <1>6, <1>10, <3>1, <3>2, OrderIsOfBoards
      <3> QED
        BY <1>9, <3>1, <3>2, <3>3
    <2> QED
      BY <2>1, <2>2
  <1>12. Boards!HiddenStayHidden'
    <2> SUFFICES ASSUME NEW s \in Requests, asked'[s].step = "done",
                        asked'[s].wants \in Boards!PlayerBoards \cup {"position"},
                        NEW i \in 1 .. Len(asked'[s].answer)
                 PROVE  asked'[s].answer[i] \notin asked'[s].since
      BY DEF Boards!HiddenStayHidden
    <2>1. s # r
      BY <1>5, <1>8
    <2> QED
      BY <1>8, <2>1 DEF BoardsInv, Boards!HiddenStayHidden
  <1>13. ASSUME NEW s \in Requests
         PROVE  Passed(s)' = Passed(s) /\ asked'[s].since = asked[s].since /\ asked[s].since \subseteq hidden
    <2>1. asked[s].since \subseteq hidden
      BY DEF BoardsInv, SincesOK
    <2>2. CASE s = r
      BY <1>1, <1>5, <1>6, <1>8, <2>1, <2>2 DEF Passed
    <2>3. CASE s # r
      BY <1>8, <2>1, <2>3 DEF Passed
    <2> QED
      BY <2>2, <2>3
  <1>14. ASSUME b \in Boards!PlayerBoards, NEW s \in Requests
         PROVE  ~Lists(R, asked[s].since)
    <2>1. R \in Seq(RankedPlayers \ hidden)
      BY <1>3, <1>14, RefreshedAreVisible DEF BoardsInv
    <2>2. \A i \in DOMAIN R : R[i] \in RankedPlayers \ hidden
      BY <2>1, ElementOfSeq, LenProperties
    <2>3. asked[s].since \subseteq hidden
      BY <1>13
    <2> QED
      BY <2>2, <2>3 DEF Lists
  <1>15. SincesOK'
    <2> SUFFICES ASSUME NEW s \in Requests
                 PROVE  /\ asked'[s].since \subseteq hidden'
                        /\ asked'[s].step = "commit" /\ Boards!Order[asked'[s].at] \in Boards!PlayerBoards =>
                             ~Lists(asked'[s].rows, asked'[s].since)
                        /\ \A c \in Boards!PlayerBoards \cap Passed(s)' :
                             /\ ~Lists(board'[c], asked'[s].since)
                             /\ \A t \in Requests : asked'[t].step = "commit" /\ Boards!Order[asked'[t].at] = c =>
                                  ~Lists(asked'[t].rows, asked'[s].since)
      BY DEF SincesOK
    <2>1. asked'[s].since \subseteq hidden'
      BY <1>6, <1>13
    <2>2. asked'[s].step = "commit" /\ Boards!Order[asked'[s].at] \in Boards!PlayerBoards =>
            ~Lists(asked'[s].rows, asked'[s].since)
      <3>1. CASE s = r
        BY <1>2, <1>5, <1>8, <1>13, <1>14, <3>1
      <3>2. CASE s # r
        BY <1>8, <3>2 DEF BoardsInv, SincesOK
      <3> QED
        BY <3>1, <3>2
    <2>3. ASSUME NEW c \in Boards!PlayerBoards \cap Passed(s)
          PROVE  /\ ~Lists(board[c], asked[s].since)
                 /\ \A t \in Requests : asked'[t].step = "commit" /\ Boards!Order[asked'[t].at] = c =>
                      ~Lists(asked'[t].rows, asked[s].since)
      <3>1. /\ ~Lists(board[c], asked[s].since)
            /\ \A t \in Requests : asked[t].step = "commit" /\ Boards!Order[asked[t].at] = c =>
                  ~Lists(asked[t].rows, asked[s].since)
        BY DEF BoardsInv, SincesOK
      <3>2. ASSUME NEW t \in Requests, asked'[t].step = "commit", Boards!Order[asked'[t].at] = c
            PROVE  ~Lists(asked'[t].rows, asked[s].since)
        <4>1. CASE t = r
          BY <1>2, <1>5, <1>8, <1>14, <3>2, <4>1
        <4>2. CASE t # r
          BY <1>8, <3>1, <3>2, <4>2
        <4> QED
          BY <4>1, <4>2
      <3> QED
        BY <3>1, <3>2
    <2> QED
      BY <1>6, <1>13, <2>1, <2>2, <2>3
  <1> QED
    BY <1>7, <1>11, <1>12, <1>15 DEF BoardsInv

\* A commit publishes rows that list nobody a request that passed the board found hidden.
LEMMA CommitsStep ==
  ASSUME Boards!LeaderboardsAssumption, BoardsInv, NEW r \in Requests, Boards!Commits(r)
  PROVE  BoardsInv'
  <1>1. PICK k \in BoardCalls : k = asked[r]
    BY DEF BoardsInv, BoardTypesOK
  <1>2. PICK b \in Boards!Boards : b = Boards!Order[k.at] /\ k.at \in 1 .. 4
    <2>1. k.at \in 1 .. 4
      BY <1>1 DEF Boards!Commits, BoardsInv, BoardTypesOK
    <2> QED
      BY <2>1, OrderIsOfBoards
  <1>3. PICK q : q = [k EXCEPT !.rows = <<>>, !.at = IF k.at < 4 THEN k.at + 1 ELSE 0,
                        !.step = IF k.at < 4 THEN "refresh"
                                 ELSE IF k.wants = "visibility" THEN "done" ELSE "read"]
    OBVIOUS
  <1>4. /\ q \in BoardCalls /\ q.since = k.since /\ q.wants = k.wants
        /\ q.step = "refresh" => k.at < 4 /\ q.at = k.at + 1 /\ q.at \in 1 .. 4
        /\ q.step = "done" => k.wants = "visibility"
        /\ q.step \in {"read", "done"} => k.at = 4
        /\ q.step \in {"refresh", "read", "done"}
    <2>1. PICK i : i = IF k.at < 4 THEN k.at + 1 ELSE 0
      OBVIOUS
    <2>2. PICK e : e = IF k.at < 4 THEN "refresh" ELSE IF k.wants = "visibility" THEN "done" ELSE "read"
      OBVIOUS
    <2>3. /\ i \in 0 .. 4 /\ e \in {"refresh", "read", "done"}
          /\ e = "refresh" => k.at < 4 /\ i = k.at + 1 /\ i \in 1 .. 4
      BY <1>2, <2>1, <2>2
    <2>4. (e = "done" => k.wants = "visibility") /\ (e \in {"read", "done"} => k.at = 4)
      BY <1>2, <2>2
    <2>5. q = [k EXCEPT !.rows = <<>>, !.at = i, !.step = e]
      BY <1>3, <2>1, <2>2
    <2>6. PICK w \in Seq(Nat) : w = <<>>
      BY EmptySeq
    <2>7. q = [k EXCEPT !.rows = w, !.at = i, !.step = e]
      BY <2>5, <2>6
    <2>8. q \in BoardCalls /\ q.since = k.since /\ q.wants = k.wants /\ q.step = e /\ q.at = i
      BY <2>3, <2>7 DEF BoardCalls
    <2> QED
      BY <2>3, <2>4, <2>8
  <1>5. /\ asked' = [asked EXCEPT ![r] = q] /\ k.step = "commit"
        /\ board' = [board EXCEPT ![b] = k.rows]
        /\ lock' = [lock EXCEPT ![b] = None] /\ UNCHANGED <<figure, hidden>>
    BY <1>1, <1>2, <1>3 DEF Boards!Commits, Boards!Unmoved
  <1>6. k.rows \in Seq(Nat)
    BY DEF BoardCalls
  <1>7. BoardTypesOK'
    BY <1>2, <1>4, <1>5, <1>6 DEF BoardsInv, BoardTypesOK
  <1>8. asked'[r] = q /\ \A s \in Requests \ {r} : asked'[s] = asked[s]
    BY <1>5 DEF BoardsInv, BoardTypesOK
  <1>9. /\ \A c \in Boards!Boards \ {b} : lock'[c] = lock[c] /\ board'[c] = board[c]
        /\ board'[b] = k.rows
    BY <1>5 DEF BoardsInv, BoardTypesOK
  <1>10. ASSUME NEW s \in Requests, asked'[s].step = "commit"
         PROVE  /\ s # r /\ asked'[s] = asked[s] /\ asked[s].step = "commit"
                /\ Boards!Order[asked[s].at] \in Boards!Boards \ {b}
    <2>1. s # r
      BY <1>4, <1>8, <1>10
    <2>2. asked'[s] = asked[s] /\ asked[s].step = "commit" /\ asked[s].at \in 1 .. 4
      BY <1>8, <1>10, <2>1 DEF BoardsInv, BoardTypesOK
    <2>3. lock[Boards!Order[asked[s].at]] = s /\ lock[b] = r
      BY <1>1, <1>2, <1>5, <2>2 DEF BoardsInv, LocksOK
    <2>4. Boards!Order[asked[s].at] \in Boards!Boards
      BY <2>2, OrderIsOfBoards
    <2> QED
      BY <2>1, <2>2, <2>3, <2>4
  <1>11. LocksOK'
    <2> SUFFICES ASSUME NEW s \in Requests, asked'[s].step = "commit"
                 PROVE  lock'[Boards!Order[asked'[s].at]] = s
      BY DEF LocksOK
    <2> QED
      BY <1>9, <1>10 DEF BoardsInv, LocksOK
  <1>12. Boards!HiddenStayHidden'
    <2> SUFFICES ASSUME NEW s \in Requests, asked'[s].step = "done",
                        asked'[s].wants \in Boards!PlayerBoards \cup {"position"},
                        NEW i \in 1 .. Len(asked'[s].answer)
                 PROVE  asked'[s].answer[i] \notin asked'[s].since
      BY DEF Boards!HiddenStayHidden
    <2>1. s # r
      BY <1>4, <1>8 DEF Boards!PlayerBoards
    <2> QED
      BY <1>8, <2>1 DEF BoardsInv, Boards!HiddenStayHidden
  <1>13. ASSUME NEW s \in Requests
         PROVE  asked'[s].since = asked[s].since /\ asked[s].since \subseteq hidden
    BY <1>1, <1>4, <1>8 DEF BoardsInv, SincesOK
  <1>14. \A s \in Requests \ {r} : Passed(s)' = Passed(s)
    BY <1>8 DEF Passed
  <1>15. Passed(r)' \subseteq Passed(r) \cup {b}
    <2>1. ASSUME NEW c \in Boards!Boards, NEW i \in 1 .. 4, Boards!Order[i] = c, i <= k.at
          PROVE  c \in Passed(r) \cup {b}
      <3>1. CASE i = k.at
        BY <1>2, <2>1, <3>1
      <3>2. CASE i < k.at
        BY <1>1, <1>5, <2>1, <3>2 DEF Passed
      <3> QED
        BY <1>2, <2>1, <3>1, <3>2
    <2>2. CASE q.step = "refresh"
      <3>1. \A i \in 1 .. 4 : i < q.at => i <= k.at
        BY <1>2, <1>4, <2>2
      <3>2. Passed(r)' = {c \in Boards!Boards : \E i \in 1 .. 4 : i < q.at /\ Boards!Order[i] = c}
        BY <1>8, <2>2 DEF Passed
      <3> QED
        BY <2>1, <3>1, <3>2
    <2>3. CASE q.step \in {"read", "done"}
      <3>1. \A c \in Boards!Boards : \E i \in 1 .. 4 : Boards!Order[i] = c /\ i <= k.at
        BY <1>4, <2>3, OrderIsOfBoards
      <3>2. Passed(r)' = Boards!Boards
        BY <1>8, <2>3 DEF Passed
      <3> QED
        BY <2>1, <3>1, <3>2
    <2> QED
      BY <1>4, <2>2, <2>3
  <1>16. SincesOK'
    <2> SUFFICES ASSUME NEW s \in Requests
                 PROVE  /\ asked'[s].since \subseteq hidden'
                        /\ asked'[s].step = "commit" /\ Boards!Order[asked'[s].at] \in Boards!PlayerBoards =>
                             ~Lists(asked'[s].rows, asked'[s].since)
                        /\ \A c \in Boards!PlayerBoards \cap Passed(s)' :
                             /\ ~Lists(board'[c], asked'[s].since)
                             /\ \A t \in Requests : asked'[t].step = "commit" /\ Boards!Order[asked'[t].at] = c =>
                                  ~Lists(asked'[t].rows, asked'[s].since)
      BY DEF SincesOK
    <2>1. asked'[s].since \subseteq hidden'
      BY <1>5, <1>13
    <2>2. asked'[s].step = "commit" /\ Boards!Order[asked'[s].at] \in Boards!PlayerBoards =>
            ~Lists(asked'[s].rows, asked'[s].since)
      BY <1>10 DEF BoardsInv, SincesOK
    <2>3. ASSUME NEW c \in Boards!PlayerBoards \cap Passed(s)'
          PROVE  /\ ~Lists(board'[c], asked[s].since)
                 /\ \A t \in Requests : asked'[t].step = "commit" /\ Boards!Order[asked'[t].at] = c =>
                      ~Lists(asked'[t].rows, asked[s].since)
      <3>1. CASE c = b
        <4>1. ~Lists(k.rows, asked[s].since)
          <5>1. CASE s = r
            BY <1>1, <1>2, <1>5, <3>1, <5>1 DEF BoardsInv, SincesOK
          <5>2. CASE s # r
            <6>1. c \in Boards!PlayerBoards \cap Passed(s)
              BY <1>14, <5>2
            <6>2. \A t \in Requests : asked[t].step = "commit" /\ Boards!Order[asked[t].at] = c =>
                    ~Lists(asked[t].rows, asked[s].since)
              BY <6>1 DEF BoardsInv, SincesOK
            <6> QED
              BY <1>1, <1>2, <1>5, <3>1, <6>2
          <5> QED
            BY <5>1, <5>2
        <4> QED
          BY <1>9, <1>10, <3>1, <4>1
      <3>2. CASE c # b
        <4>1. c \in Passed(s) /\ c \in Boards!Boards
          BY <1>14, <1>15, <3>2 DEF Boards!Boards
        <4>2. /\ ~Lists(board[c], asked[s].since)
              /\ \A t \in Requests : asked[t].step = "commit" /\ Boards!Order[asked[t].at] = c =>
                    ~Lists(asked[t].rows, asked[s].since)
          BY <4>1 DEF BoardsInv, SincesOK
        <4> QED
          BY <1>9, <1>10, <3>2, <4>1, <4>2
      <3> QED
        BY <3>1, <3>2
    <2> QED
      BY <1>13, <2>1, <2>2, <2>3
  <1> QED
    BY <1>7, <1>11, <1>12, <1>16 DEF BoardsInv

\* An answer is read when the request has passed every board.
LEMMA AnswersStep ==
  ASSUME BoardsInv, NEW r \in Requests, NEW A \in Seq(Nat), asked[r].step = "read",
         asked' = [asked EXCEPT ![r] = [asked[r] EXCEPT !.step = "done", !.answer = A]],
         asked[r].wants \in Boards!PlayerBoards \cup {"position"} => ~Lists(A, asked[r].since),
         UNCHANGED <<figure, hidden, board, lock>>
  PROVE  BoardsInv'
  <1>1. PICK k \in BoardCalls : k = asked[r]
    BY DEF BoardsInv, BoardTypesOK
  <1>2. PICK q : q = [k EXCEPT !.step = "done", !.answer = A]
    OBVIOUS
  <1>3. /\ q \in BoardCalls /\ q.step = "done" /\ q.at = k.at /\ q.since = k.since
        /\ q.wants = k.wants /\ q.answer = A
    BY <1>2 DEF BoardCalls
  <1>4. asked' = [asked EXCEPT ![r] = q]
    BY <1>1, <1>2
  <1>5. asked'[r] = q /\ \A s \in Requests \ {r} : asked'[s] = asked[s]
    BY <1>4 DEF BoardsInv, BoardTypesOK
  <1>6. BoardTypesOK'
    BY <1>3, <1>4 DEF BoardsInv, BoardTypesOK
  <1>7. ASSUME NEW s \in Requests
        PROVE  /\ Passed(s)' = Passed(s) /\ asked'[s].since = asked[s].since
               /\ asked'[s].step = "commit" => asked'[s] = asked[s]
    <2>1. CASE s = r
      BY <1>1, <1>3, <1>5, <2>1 DEF Passed
    <2>2. CASE s # r
      BY <1>5, <2>2 DEF Passed
    <2> QED
      BY <2>1, <2>2
  <1>8. LocksOK'
    BY <1>7 DEF BoardsInv, LocksOK
  <1>9. SincesOK'
    <2> SUFFICES ASSUME NEW s \in Requests
                 PROVE  /\ asked[s].since \subseteq hidden
                        /\ asked'[s].step = "commit" /\ Boards!Order[asked'[s].at] \in Boards!PlayerBoards =>
                             ~Lists(asked'[s].rows, asked[s].since)
                        /\ \A c \in Boards!PlayerBoards \cap Passed(s) :
                             /\ ~Lists(board[c], asked[s].since)
                             /\ \A t \in Requests : asked'[t].step = "commit" /\ Boards!Order[asked'[t].at] = c =>
                                  ~Lists(asked'[t].rows, asked[s].since)
      BY <1>7 DEF SincesOK
    <2>1. /\ asked[s].since \subseteq hidden
          /\ asked[s].step = "commit" /\ Boards!Order[asked[s].at] \in Boards!PlayerBoards =>
               ~Lists(asked[s].rows, asked[s].since)
          /\ \A c \in Boards!PlayerBoards \cap Passed(s) :
               /\ ~Lists(board[c], asked[s].since)
               /\ \A t \in Requests : asked[t].step = "commit" /\ Boards!Order[asked[t].at] = c =>
                    ~Lists(asked[t].rows, asked[s].since)
      BY DEF BoardsInv, SincesOK
    <2> QED
      BY <1>7, <2>1
  <1>10. Boards!HiddenStayHidden'
    <2> SUFFICES ASSUME NEW s \in Requests, asked'[s].step = "done",
                        asked'[s].wants \in Boards!PlayerBoards \cup {"position"},
                        NEW i \in 1 .. Len(asked'[s].answer)
                 PROVE  asked'[s].answer[i] \notin asked'[s].since
      BY DEF Boards!HiddenStayHidden
    <2>1. CASE s = r
      <3>1. ~Lists(A, k.since)
        BY <1>1, <1>3, <1>5, <2>1
      <3>2. i \in DOMAIN A
        BY <1>3, <1>5, <2>1, LenProperties
      <3> QED
        BY <1>3, <1>5, <2>1, <3>1, <3>2 DEF Lists
    <2>2. CASE s # r
      BY <1>5, <2>2 DEF BoardsInv, Boards!HiddenStayHidden
    <2> QED
      BY <2>1, <2>2
  <1> QED
    BY <1>6, <1>8, <1>9, <1>10 DEF BoardsInv

LEMMA BoardsInvariantStep ==
  ASSUME Boards!LeaderboardsAssumption, BoardsInv, [Boards!Next]_boardVars
  PROVE  BoardsInv'
  <1>1. CASE UNCHANGED boardVars
    BY <1>1 DEF boardVars, BoardsInv, BoardTypesOK, LocksOK, SincesOK, Passed, Boards!HiddenStayHidden
  <1>2. ASSUME NEW p \in RankedPlayers, NEW b \in Boards!PlayerBoards, Boards!FigureMoves(b, p)
        PROVE  BoardsInv'
    <2>1. figure' \in [Boards!PlayerBoards -> [RankedPlayers -> Nat]]
      <3>1. PICK f \in [RankedPlayers -> Nat] : f = figure[b]
        BY DEF BoardsInv, BoardTypesOK
      <3>2. PICK g : g = [f EXCEPT ![p] = f[p] + 1]
        OBVIOUS
      <3>3. g \in [RankedPlayers -> Nat]
        BY <3>2
      <3>4. figure' = [figure EXCEPT ![b] = g]
        BY <1>2, <3>1, <3>2 DEF Boards!FigureMoves
      <3> QED
        BY <3>3, <3>4 DEF BoardsInv, BoardTypesOK
    <2>2. UNCHANGED <<hidden, board, lock, asked>>
      BY <1>2 DEF Boards!FigureMoves
    <2> QED
      BY <2>1, <2>2 DEF BoardsInv, BoardTypesOK, LocksOK, SincesOK, Passed, Boards!HiddenStayHidden
  <1>3. ASSUME NEW p \in RankedPlayers, NEW k \in RankedPools \cup {None}, Boards!MemberMoves(p, k)
        PROVE  BoardsInv'
    BY <1>3 DEF Boards!MemberMoves, BoardsInv, BoardTypesOK, LocksOK, SincesOK, Passed,
        Boards!HiddenStayHidden
  <1>4. ASSUME NEW r \in Requests, NEW p \in RankedPlayers, Boards!Toggle(r, p)
        PROVE  BoardsInv'
    <2>1. PICK q : q = [Boards!Idle EXCEPT !.step = "refresh", !.at = 1, !.wants = "visibility"]
      OBVIOUS
    <2>2. q \in BoardCalls /\ q.step = "refresh" /\ q.at = 1 /\ q.since = {}
      <3>1. PICK k \in BoardCalls : k = Boards!Idle /\ k.since = {}
        BY BoardIdle
      <3>2. PICK w \in Boards!Boards \cup {"", "position", "visibility"}, i \in 0 .. 4 : w = "visibility" /\ i = 1
        <4>1. 1 \in 0 .. 4 /\ "visibility" \in Boards!Boards \cup {"", "position", "visibility"}
          OBVIOUS
        <4> QED
          BY <4>1, Zenon
      <3>3. q = [k EXCEPT !.step = "refresh", !.at = i, !.wants = w]
        BY <2>1, <3>1, <3>2
      <3>4. q \in BoardCalls /\ q.step = "refresh" /\ q.at = i /\ q.since = k.since
        BY <3>3 DEF BoardCalls
      <3> QED
        BY <3>1, <3>2, <3>4
    <2>3. \A s \in Requests : [asked[s] EXCEPT !.since = @ \ {p}] = [asked[s] EXCEPT !.since = asked[s].since \ {p}]
      OBVIOUS
    <2>4. asked' = [s \in Requests |-> IF s = r THEN q ELSE [asked[s] EXCEPT !.since = asked[s].since \ {p}]]
      BY <1>4, <2>1 DEF Boards!Toggle
    <2>5. /\ hidden' \subseteq RankedPlayers /\ hidden \ {p} \subseteq hidden'
          /\ asked[r].step \in {"idle", "done"} /\ UNCHANGED <<figure, board, lock>>
      BY <1>4 DEF Boards!Toggle, BoardsInv, BoardTypesOK
    <2>6. {p} \in SUBSET RankedPlayers /\ q.since \subseteq hidden'
      BY <2>2
    <2> QED
      BY <2>2, <2>4, <2>5, <2>6, BoardStartsStep
  <1>5. ASSUME NEW r \in Requests, NEW b \in Boards!Boards \cup {"position"}, Boards!Asks(r, b)
        PROVE  BoardsInv'
    <2>1. PICK H \in SUBSET RankedPlayers : H = hidden
      BY DEF BoardsInv, BoardTypesOK
    <2>2. PICK q : q = [Boards!Idle EXCEPT !.step = "refresh", !.at = 1, !.wants = b, !.since = H]
      OBVIOUS
    <2>3. q \in BoardCalls /\ q.step = "refresh" /\ q.at = 1 /\ q.since = H
      <3>1. PICK k \in BoardCalls : k = Boards!Idle
        BY BoardIdle
      <3>2. PICK w \in Boards!Boards \cup {"", "position", "visibility"}, i \in 0 .. 4 : w = b /\ i = 1
        <4>1. 1 \in 0 .. 4
          OBVIOUS
        <4>2. b \in Boards!Boards \cup {"", "position", "visibility"}
          BY Zenon
        <4> QED
          BY <4>1, <4>2, Zenon
      <3>3. q = [k EXCEPT !.step = "refresh", !.at = i, !.wants = w, !.since = H]
        BY <2>2, <3>1, <3>2
      <3>4. q \in BoardCalls /\ q.step = "refresh" /\ q.at = i /\ q.since = H
        BY <3>3 DEF BoardCalls
      <3> QED
        BY <3>2, <3>4
    <2>4. asked' = [asked EXCEPT ![r] = q] /\ asked[r].step \in {"idle", "done"}
          /\ UNCHANGED <<figure, board, lock, hidden>>
      BY <1>5, <2>1, <2>2 DEF Boards!Asks, Boards!Unmoved
    <2>5. asked' = [s \in Requests |-> IF s = r THEN q ELSE [asked[s] EXCEPT !.since = asked[s].since \ {}]]
      <3>1. ASSUME NEW s \in Requests
            PROVE  [asked[s] EXCEPT !.since = asked[s].since \ {}] = asked[s]
        <4>1. PICK c \in BoardCalls : c = asked[s]
          BY DEF BoardsInv, BoardTypesOK
        <4>2. c.since \ {} = c.since
          OBVIOUS
        <4>3. [c EXCEPT !.since = c.since] = c
          BY DEF BoardCalls
        <4> QED
          BY <4>1, <4>2, <4>3
      <3>2. asked' = [s \in Requests |-> IF s = r THEN q ELSE asked[s]]
        BY <2>4 DEF BoardsInv, BoardTypesOK
      <3> QED
        BY <3>1, <3>2
    <2>6. hidden' \subseteq RankedPlayers /\ hidden \ {} \subseteq hidden' /\ q.since \subseteq hidden'
      BY <2>1, <2>3, <2>4
    <2>7. PICK S \in SUBSET RankedPlayers : S = {}
      OBVIOUS
    <2>8. /\ hidden \ S \subseteq hidden'
          /\ asked' = [s \in Requests |-> IF s = r THEN q ELSE [asked[s] EXCEPT !.since = asked[s].since \ S]]
      BY <2>5, <2>6, <2>7
    <2> QED
      BY <2>3, <2>4, <2>6, <2>8, BoardStartsStep
  <1>6. ASSUME NEW r \in Requests, Boards!Answers(r)
        PROVE  BoardsInv'
    <2>1. PICK A \in Seq(Nat) : A = board[asked[r].wants]
      BY <1>6 DEF Boards!Answers, BoardsInv, BoardTypesOK
    <2>2. /\ asked[r].step = "read" /\ asked[r].wants \in Boards!Boards
          /\ asked' = [asked EXCEPT ![r] = [asked[r] EXCEPT !.step = "done", !.answer = A]]
          /\ UNCHANGED <<figure, hidden, board, lock>>
      BY <1>6, <2>1 DEF Boards!Answers, Boards!Unmoved
    <2>3. Passed(r) = Boards!Boards
      BY <2>2 DEF Passed
    <2>4. asked[r].wants \in Boards!PlayerBoards \cup {"position"} => ~Lists(A, asked[r].since)
      <3>1. asked[r].wants # "position"
        BY <2>2 DEF Boards!Boards, Boards!PlayerBoards
      <3> QED
        BY <2>1, <2>2, <2>3, <3>1 DEF BoardsInv, SincesOK
    <2> QED
      BY <2>2, <2>4, AnswersStep
  <1>7. ASSUME NEW r \in Requests, NEW p \in RankedPlayers, Boards!PositionRanks(r, p)
        PROVE  BoardsInv'
    <2>1. PICK B \in Seq(Nat) : B = board["hashrate"]
      BY DEF BoardsInv, BoardTypesOK, Boards!Boards, Boards!PlayerBoards
    <2>2. PICK A : A = IF p \in Boards!Range(B) THEN <<p>> ELSE <<>>
      OBVIOUS
    <2>3. /\ asked[r].step = "read"
          /\ asked' = [asked EXCEPT ![r] = [asked[r] EXCEPT !.step = "done", !.answer = A]]
          /\ UNCHANGED <<figure, hidden, board, lock>>
      BY <1>7, <2>1, <2>2 DEF Boards!PositionRanks, Boards!Unmoved
    <2>4. A \in Seq(Nat)
      <3>1. p \in Nat
        BY DEF Boards!LeaderboardsAssumption
      <3>2. <<p>> \in Seq(Nat) /\ <<>> \in Seq(Nat)
        BY <3>1, EmptySeq
      <3> QED
        BY <2>2, <3>2
    <2>5. ~Lists(B, asked[r].since)
      <3>1. "hashrate" \in Boards!PlayerBoards /\ Boards!PlayerBoards \subseteq Passed(r)
        BY <2>3 DEF Passed, Boards!Boards, Boards!PlayerBoards
      <3> QED
        BY <2>1, <3>1 DEF BoardsInv, SincesOK
    <2>6. ~Lists(A, asked[r].since)
      <3>1. CASE p \in Boards!Range(B)
        <4>1. p \notin asked[r].since
          BY <2>5, <3>1 DEF Lists, Boards!Range
        <4>2. \A i \in DOMAIN <<p>> : <<p>>[i] = p
          OBVIOUS
        <4> QED
          BY <2>2, <3>1, <4>1, <4>2 DEF Lists
      <3>2. CASE p \notin Boards!Range(B)
        <4>1. DOMAIN A = {}
          BY <2>2, <3>2
        <4> QED
          BY <4>1 DEF Lists
      <3> QED
        BY <3>1, <3>2
    <2> QED
      BY <2>3, <2>4, <2>6, AnswersStep
  <1>8. CASE Boards!Next
    BY <1>2, <1>3, <1>4, <1>5, <1>6, <1>7, <1>8, RefreshesStep, CommitsStep DEF Boards!Next
  <1> QED
    BY <1>1, <1>8

\* No answer of a board lists a player who was hidden when it was asked for and has been
\* since, whatever other requests refresh meanwhile (leaderboards/service.py:66-150).
THEOREM HiddenPlayersStayHidden == Spec => []HiddenStayHidden
  <1>1. Init => BoardsInv
    BY BoardsInitInvariant DEF Init
  <1>2. BoardsInv /\ [Next]_vars => BoardsInv'
    BY ServicesAssumption, BoardsInvariantStep, Steps DEF ServicesAssumption
  <1>3. BoardsInv => HiddenStayHidden
    BY DEF BoardsInv, HiddenStayHidden
  <1> QED
    BY <1>1, <1>2, <1>3, PTL DEF Spec

-----------------------------------------------------------------------------
(* Settlement rules: shares add up and are fair, the difficulty is damped.  *)

\* R is a strict total order of S.
Orders(R, S) ==
  /\ \A p \in S : <<p, p>> \notin R
  /\ \A p, q, r \in S : <<p, q>> \in R /\ <<q, r>> \in R => <<p, r>> \in R
  /\ \A p, q \in S : p # q => <<p, q>> \in R \/ <<q, p>> \in R

\* Exactly k members of an ordered set have fewer than k others before them.
LEMMA FirstRanks ==
  ASSUME NEW S, IsFiniteSet(S), NEW R, Orders(R, S),
         NEW k \in Nat, k <= Cardinality(S),
         NEW F, F = {p \in S : Cardinality({q \in S : <<q, p>> \in R}) < k}
  PROVE  Cardinality(F) = k
  <1> USE DEF Orders
  <1> DEFINE Before(p) == {q \in S : <<q, p>> \in R}
             rank == [p \in S |-> Cardinality(Before(p))]
             A == {p \in S : rank[p] < k}
             firsts == [p \in A |-> rank[p]]
  <1>1. PICK n \in Nat : n = Cardinality(S)
    BY FS_CardinalityType
  <1>2. \A p \in S : IsFiniteSet(Before(p)) /\ rank[p] \in Nat /\ rank[p] = Cardinality(Before(p))
    <2> TAKE p \in S
    <2>1. Before(p) \in SUBSET S
      OBVIOUS
    <2>2. IsFiniteSet(Before(p))
      BY <2>1, FS_Subset
    <2> QED
      BY <2>2, FS_CardinalityType
  <1>3. \A p, q \in S : <<p, q>> \in R => rank[p] < rank[q]
    <2> SUFFICES ASSUME NEW p \in S, NEW q \in S, <<p, q>> \in R PROVE rank[p] < rank[q]
      OBVIOUS
    <2>1. Before(p) \cup {p} \in SUBSET Before(q) /\ p \notin Before(p)
      OBVIOUS
    <2> HIDE DEF Before
    <2>2. Cardinality(Before(p) \cup {p}) = Cardinality(Before(p)) + 1
      BY <1>2, <2>1, FS_AddElement
    <2>3. Cardinality(Before(p) \cup {p}) <= Cardinality(Before(q))
      BY <1>2, <2>1, FS_Subset
    <2> HIDE DEF rank
    <2> QED
      BY <1>2, <2>2, <2>3
  <1>4. \A p \in S : rank[p] <= n - 1
    <2> TAKE p \in S
    <2>1. Before(p) \in SUBSET (S \ {p})
      OBVIOUS
    <2>2. IsFiniteSet(S \ {p}) /\ Cardinality(S \ {p}) = n - 1
      BY <1>1, FS_RemoveElement
    <2> HIDE DEF Before
    <2>3. Cardinality(Before(p)) <= n - 1
      BY <2>1, <2>2, FS_Subset
    <2> QED
      BY <1>2, <2>3
  <1>5. rank \in Injection(S, 0 .. n - 1)
    <2>1. rank \in [S -> 0 .. n - 1]
      <3>1. \A p \in S : rank[p] \in 0 .. n - 1
        <4>1. \A p \in S : rank[p] \in Nat /\ rank[p] <= n - 1
          BY <1>2, <1>4
        <4> HIDE DEF rank
        <4> QED BY <4>1
      <3> HIDE DEF Before
      <3> QED BY <3>1
    <2>2. \A p, q \in S : rank[p] = rank[q] => p = q
      <3>1. \A p \in S : rank[p] \in Nat
        BY <1>2
      <3> SUFFICES ASSUME NEW p \in S, NEW q \in S, rank[p] = rank[q], p # q PROVE FALSE
        OBVIOUS
      <3>2. <<p, q>> \in R \/ <<q, p>> \in R
        OBVIOUS
      <3>3. rank[p] < rank[q] \/ rank[q] < rank[p]
        BY <1>3, <3>2
      <3> HIDE DEF rank
      <3> QED BY <3>1, <3>3
    <2> HIDE DEF rank
    <2> QED
      BY <2>1, <2>2 DEF Injection, IsInjective
  <1>6. \A i \in 0 .. n - 1 : \E p \in S : rank[p] = i
    <2>1. IsFiniteSet(0 .. n - 1) /\ Cardinality(0 .. n - 1) = n
      <3>1. 0 \in Int /\ n - 1 \in Int
        OBVIOUS
      <3>2. IsFiniteSet(0 .. n - 1) /\ Cardinality(0 .. n - 1) = IF 0 > n - 1 THEN 0 ELSE (n - 1) - 0 + 1
        BY <3>1, FS_Interval, Zenon
      <3> QED
        BY <3>2
    <2> HIDE DEF rank
    <2>2. rank \in Surjection(S, 0 .. n - 1)
      BY <1>1, <1>5, <2>1, FS_Injection
    <2> QED
      BY <2>2 DEF Surjection
  <1>7. firsts \in Bijection(A, 0 .. k - 1)
    <2>1. firsts \in [A -> 0 .. k - 1]
      <3>1. \A p \in A : rank[p] \in 0 .. k - 1
        <4>1. \A p \in A : p \in S /\ rank[p] < k
          OBVIOUS
        <4>2. \A p \in S : rank[p] \in Nat
          BY <1>2
        <4> HIDE DEF rank, A
        <4> QED BY <4>1, <4>2
      <3> HIDE DEF rank, A
      <3> QED BY <3>1
    <2>2. \A p, q \in A : firsts[p] = firsts[q] => p = q
      <3>1. \A p, q \in S : rank[p] = rank[q] => p = q
        <4> HIDE DEF rank
        <4> QED BY <1>5 DEF Injection, IsInjective
      <3>2. A \subseteq S
        OBVIOUS
      <3> HIDE DEF rank, A
      <3> QED BY <3>1, <3>2
    <2>3. \A i \in 0 .. k - 1 : \E p \in A : firsts[p] = i
      <3> TAKE i \in 0 .. k - 1
      <3>1. i \in 0 .. n - 1 /\ i < k
        BY <1>1
      <3>2. PICK p \in S : rank[p] = i
        BY <1>6, <3>1
      <3>3. p \in A
        <4> HIDE DEF rank
        <4> QED BY <3>1, <3>2
      <3> HIDE DEF rank, A
      <3> QED BY <3>2, <3>3
    <2> HIDE DEF firsts, A
    <2> QED
      BY <2>1, <2>2, <2>3 DEF Bijection, Injection, IsInjective, Surjection
  <1>8. A \in SUBSET S /\ IsFiniteSet(A)
    <2>1. A \in SUBSET S
      OBVIOUS
    <2> HIDE DEF A
    <2> QED BY <2>1, FS_Subset
  <1>9. IsFiniteSet(0 .. k - 1) /\ Cardinality(0 .. k - 1) = k
    BY FS_Interval
  <1>10. Cardinality(A) = k
    <2> HIDE DEF firsts, A
    <2> QED
      BY <1>7, <1>8, <1>9, FS_Bijection DEF ExistsBijection
  <1>11. A = F
    OBVIOUS
  <1> QED
    BY <1>10, <1>11

LEMMA RuleInputs ==
  ASSUME Rules!RulesAssumption
  PROVE  /\ IsFiniteSet(Rewarded) /\ Rewarded \subseteq Int /\ Cardinality(Rewarded) \in Nat
         /\ \A f \in [Rewarded -> Nat] : /\ Rules!Total(f) = SumFunctionOnSet(f, Rewarded)
                                          /\ Rules!Total(f) \in Nat
  <1>1. IsFiniteSet(Rewarded) /\ Rewarded \subseteq Int
    BY DEF Rules!RulesAssumption, Rules!IsFiniteSet, IsFiniteSet
  <1>2. \A f, S : Rules!SumFunctionOnSet(f, S) = SumFunctionOnSet(f, S)
    BY DEF Rules!SumFunctionOnSet, SumFunctionOnSet, Rules!FoldFunctionOnSet, FoldFunctionOnSet,
           Rules!MapThenFoldSet, MapThenFoldSet
  <1>3. ASSUME NEW f \in [Rewarded -> Nat]
        PROVE  Rules!Total(f) = SumFunctionOnSet(f, Rewarded) /\ Rules!Total(f) \in Nat
    <2>1. Rules!Total(f) = SumFunctionOnSet(f, Rewarded)
      BY <1>2 DEF Rules!Total
    <2>2. SumFunctionOnSet(f, Rewarded) \in Nat
      BY <1>1, SumNat
    <2> QED
      BY <2>1, <2>2
  <1> QED
    BY <1>1, <1>3, FS_CardinalityType

LEMMA RuleCounts ==
  ASSUME NEW S
  PROVE  Rules!Cardinality(S) = Cardinality(S)
  BY DEF Rules!Cardinality, Cardinality

\* Either neighbour of a quotient that is no farther than a half from it.
LEMMA NearestIsNear ==
  ASSUME NEW n \in Nat, NEW d \in Nat \ {0}, NEW r \in Rules!Nearest(n, d)
  PROVE  r \in Nat /\ 2 * (n - r * d) <= d /\ 2 * (r * d - n) <= d
  <1>1. PICK k \in Nat : k = n \div d
    OBVIOUS
  <1>2. r \in {k, k + 1} /\ 2 * (n - r * d) <= d /\ 2 * (r * d - n) <= d
    BY <1>1 DEF Rules!Nearest
  <1> QED
    BY <1>2

\* What is near, in whole numbers; and back.
LEMMA NearInHalves ==
  ASSUME NEW a \in Nat, NEW w \in Nat, NEW t \in Nat, NEW r \in Nat,
         2 * (a * w - r * t) <= t, 2 * (r * t - a * w) <= t
  PROVE  /\ (2 * a) * w <= (2 * t) * r + t
         /\ (2 * t) * r <= (2 * a) * w + (IF r > 0 THEN t ELSE 0)
  <1>1. PICK x \in Nat : x = a * w
    OBVIOUS
  <1>2. PICK y \in Nat : y = r * t
    OBVIOUS
  <1>3. (2 * a) * w = 2 * x /\ (2 * t) * r = 2 * y /\ (r = 0 => y = 0)
    BY <1>1, <1>2
  <1> QED
    BY <1>1, <1>2, <1>3

LEMMA CancelFactor ==
  ASSUME NEW t \in Nat \ {0}, NEW a \in Int, NEW b \in Int, NEW c \in Int
  PROVE  /\ (2 * a) * t <= (2 * t) * b + t * c => 2 * (a - b) <= c
         /\ (2 * t) * b <= (2 * a) * t + t * c => 2 * (b - a) <= c
  OBVIOUS

\* At most one unit is missing for each who got something, and less than one left for each.
LEMMA ResidualIsSmall ==
  ASSUME NEW S, IsFiniteSet(S), NEW reward \in Nat, NEW effort \in [S -> Nat], NEW rounded \in [S -> Nat],
         NEW t \in Nat \ {0}, t = SumFunctionOnSet(effort, S),
         NEW s \in Nat, s = SumFunctionOnSet(rounded, S),
         \A p \in S : /\ 2 * (reward * effort[p] - rounded[p] * t) <= t
                      /\ 2 * (rounded[p] * t - reward * effort[p]) <= t
  PROVE  /\ 2 * (reward - s) <= Cardinality(S)
         /\ 2 * (s - reward) <= Cardinality({p \in S : rounded[p] > 0})
  <1>1. PICK P \in SUBSET S : P = {p \in S : rounded[p] > 0}
    OBVIOUS
  <1>2. PICK n \in Nat : n = Cardinality(S)
    BY FS_CardinalityType
  <1>3. PICK c \in Nat : c = Cardinality(P)
    BY FS_Subset, FS_CardinalityType
  <1>4. \A p \in S : effort[p] \in Nat /\ rounded[p] \in Nat
    OBVIOUS
  <1>5. PICK x \in Nat, y \in Nat : x = 2 * t /\ y = 2 * reward
    OBVIOUS
  <1>6. PICK given : given = [p \in S |-> x * rounded[p]]
    OBVIOUS
  <1>7. PICK due : due = [p \in S |-> y * effort[p]]
    OBVIOUS
  <1>8. PICK once : once = [p \in S |-> t * (IF p \in S THEN 1 ELSE 0)]
    OBVIOUS
  <1>9. PICK twice : twice = [p \in S |-> t * (IF p \in P THEN 1 ELSE 0)]
    OBVIOUS
  <1>10. \A p \in S : /\ given[p] = x * rounded[p] /\ due[p] = y * effort[p]
                      /\ once[p] = t /\ twice[p] = (IF rounded[p] > 0 THEN t ELSE 0)
    <2> TAKE p \in S
    <2>1. twice[p] = t * (IF rounded[p] > 0 THEN 1 ELSE 0) /\ once[p] = t * 1
      BY <1>1, <1>8, <1>9
    <2>2. t * 1 = t /\ t * 0 = 0
      OBVIOUS
    <2> QED
      BY <1>6, <1>7, <2>1, <2>2
  <1>11. \A p \in S : given[p] \in Int /\ due[p] \in Int /\ once[p] \in Int /\ twice[p] \in Int
    BY <1>4, <1>10
  <1>12. SumFunctionOnSet(given, S) = x * s
    <2>1. \A p \in S : rounded[p] \in Int /\ given[p] = x * rounded[p]
      BY <1>4, <1>10
    <2> QED
      BY <2>1, SumScaled
  <1>13. SumFunctionOnSet(due, S) = y * t
    <2>1. \A p \in S : effort[p] \in Int /\ due[p] = y * effort[p]
      BY <1>4, <1>10
    <2> QED
      BY <2>1, SumScaled
  <1>14. SumFunctionOnSet(once, S) = t * n /\ SumFunctionOnSet(twice, S) = t * c
    <2>1. \A I : SumFunctionOnSet([p \in S |-> t * (IF p \in I THEN 1 ELSE 0)], S) = t * Cardinality(S \cap I)
      <3> TAKE I
      <3> DEFINE one == [p \in S |-> IF p \in I THEN 1 ELSE 0]
                 f == [p \in S |-> t * (IF p \in I THEN 1 ELSE 0)]
      <3>1. \A p \in S : one[p] = (IF p \in I THEN 1 ELSE 0) /\ one[p] \in Int /\ f[p] = t * one[p]
        OBVIOUS
      <3> HIDE DEF one
      <3>2. SumFunctionOnSet(one, S) = Cardinality(S \cap I)
        BY <3>1, SumIndicator
      <3> HIDE DEF f
      <3>3. SumFunctionOnSet(f, S) = t * SumFunctionOnSet(one, S)
        BY <3>1, SumScaled
      <3>4. SumFunctionOnSet(f, S) = t * Cardinality(S \cap I)
        BY <3>2, <3>3
      <3> QED
        BY <3>4 DEF f
    <2>2. S \cap P = P /\ S \cap S = S
      OBVIOUS
    <2> QED
      BY <1>2, <1>3, <1>8, <1>9, <2>1, <2>2
  <1>15. \A p \in S : due[p] <= given[p] + once[p] /\ given[p] <= due[p] + twice[p]
    <2> TAKE p \in S
    <2>1. PICK w \in Nat, r \in Nat : w = effort[p] /\ r = rounded[p]
      BY <1>4
    <2>2. 2 * (reward * w - r * t) <= t /\ 2 * (r * t - reward * w) <= t
      BY <2>1
    <2>3. /\ (2 * reward) * w <= (2 * t) * r + t
          /\ (2 * t) * r <= (2 * reward) * w + (IF r > 0 THEN t ELSE 0)
      BY <2>2, NearInHalves
    <2>4. due[p] <= given[p] + once[p]
      BY <1>5, <1>10, <2>1, <2>3
    <2>5. given[p] <= due[p] + twice[p]
      BY <1>5, <1>10, <2>1, <2>3
    <2> QED
      BY <2>4, <2>5
  <1>16. y * t <= x * s + t * n
    <2> DEFINE most == [p \in S |-> given[p] + once[p]]
    <2>1. \A p \in S : most[p] = given[p] + once[p] /\ most[p] \in Int /\ due[p] <= most[p]
      BY <1>11, <1>15
    <2> HIDE DEF most
    <2>2. SumFunctionOnSet(most, S) = SumFunctionOnSet(given, S) + SumFunctionOnSet(once, S)
      BY <1>11, <2>1, SumPlus
    <2>3. SumFunctionOnSet(due, S) <= SumFunctionOnSet(most, S)
      BY <1>11, <2>1, SumBound
    <2> QED
      BY <1>12, <1>13, <1>14, <2>2, <2>3
  <1>17. x * s <= y * t + t * c
    <2> DEFINE most == [p \in S |-> due[p] + twice[p]]
    <2>1. \A p \in S : most[p] = due[p] + twice[p] /\ most[p] \in Int /\ given[p] <= most[p]
      BY <1>11, <1>15
    <2> HIDE DEF most
    <2>2. SumFunctionOnSet(most, S) = SumFunctionOnSet(due, S) + SumFunctionOnSet(twice, S)
      BY <1>11, <2>1, SumPlus
    <2>3. SumFunctionOnSet(given, S) <= SumFunctionOnSet(most, S)
      BY <1>11, <2>1, SumBound
    <2> QED
      BY <1>12, <1>13, <1>14, <2>2, <2>3
  <1>18. 2 * (reward - s) <= n /\ 2 * (s - reward) <= c
    BY <1>5, <1>16, <1>17, CancelFactor
  <1> QED
    BY <1>1, <1>2, <1>3, <1>18

\* An allocation adds up, takes from nobody, and is in the order of the contributions.
LEMMA AllocationIsFair ==
  ASSUME Rules!RulesAssumption, NEW reward \in Nat, NEW effort \in [Rewarded -> Works],
         Rules!Total(effort) > 0, NEW rounded \in [Rewarded -> 0 .. reward],
         \A p \in Rewarded : rounded[p] \in Rules!Nearest(reward * effort[p], Rules!Total(effort)),
         NEW share, share = Rules!SpreadsResidual(reward, effort, rounded)
  PROVE  /\ share \in [Rewarded -> Nat]
         /\ Rules!Total(share) = reward
         /\ \A p \in Rewarded :
              /\ Rules!Within(share[p], reward * effort[p], Rules!Total(effort), 3)
              /\ \A q \in Rewarded : effort[p] > effort[q] => share[p] >= share[q]
  <1>0. IsFiniteSet(Rewarded)
    BY RuleInputs
  <1>1. \A p \in Rewarded : p \in Int
    BY RuleInputs
  <1>2. reward \in Nat /\ effort \in [Rewarded -> Nat] /\ rounded \in [Rewarded -> Nat]
    <2>1. reward \in Nat /\ Works \subseteq Nat
      BY DEF Rules!RulesAssumption
    <2>2. 0 .. reward \subseteq Nat
      BY <2>1
    <2> QED
      BY <2>1, <2>2
  <1>3. PICK t \in Nat \ {0} : t = Rules!Total(effort) /\ t = SumFunctionOnSet(effort, Rewarded)
    BY <1>2, RuleInputs
  <1>4. PICK s \in Nat : s = Rules!Total(rounded) /\ s = SumFunctionOnSet(rounded, Rewarded)
    BY <1>2, RuleInputs
  <1>5. \A p \in Rewarded : rounded[p] \in Nat /\ effort[p] \in Nat /\ reward * effort[p] \in Nat
    BY <1>2
  <1>6. \A p \in Rewarded : /\ 2 * (reward * effort[p] - rounded[p] * t) <= t
                            /\ 2 * (rounded[p] * t - reward * effort[p]) <= t
    <2> TAKE p \in Rewarded
    <2>1. rounded[p] \in Rules!Nearest(reward * effort[p], t)
      BY <1>3
    <2> QED
      BY <1>5, <2>1, NearestIsNear
  <1>7. PICK n \in Nat : n = Cardinality(Rewarded) /\ n > 0
    <2>1. Rewarded # {}
      BY <1>3, SumEmpty
    <2> QED
      BY <1>0, <2>1, FS_CardinalityType, FS_EmptySet
  <1>8. 2 * (reward - s) <= n /\ 2 * (s - reward) <= Cardinality({p \in Rewarded : rounded[p] > 0})
    <2>1. effort \in [Rewarded -> Nat] /\ rounded \in [Rewarded -> Nat] /\ reward \in Nat
      BY <1>2
    <2>2. t = SumFunctionOnSet(effort, Rewarded) /\ s = SumFunctionOnSet(rounded, Rewarded)
      BY <1>3, <1>4
    <2> QED
      BY <1>0, <1>6, <1>7, <2>1, <2>2, ResidualIsSmall
  \* Whoever contributed more is due no less.
  <1>9. \A p, q \in Rewarded : effort[p] > effort[q] => rounded[p] >= rounded[q]
    <2> SUFFICES ASSUME NEW p \in Rewarded, NEW q \in Rewarded, effort[p] > effort[q]
                 PROVE  rounded[p] >= rounded[q]
      OBVIOUS
    <2>1. PICK a \in Nat, b \in Nat : a = reward * effort[p] /\ b = reward * effort[q]
      BY <1>5
    <2>2. PICK x \in Nat, y \in Nat : x = rounded[p] /\ y = rounded[q]
      BY <1>5
    <2>3. 2 * (a - x * t) <= t /\ 2 * (x * t - a) <= t /\ 2 * (b - y * t) <= t /\ 2 * (y * t - b) <= t
      BY <1>6, <2>1, <2>2
    <2>4. CASE reward = 0
      <3>1. x \in 0 .. 0 /\ y \in 0 .. 0
        BY <2>2, <2>4
      <3> QED
        BY <2>2, <3>1
    <2>5. CASE reward > 0
      <3>1. a > b
        <4>1. \A c \in Nat \ {0}, d, e \in Nat : d > e => c * d > c * e
          OBVIOUS
        <4> QED
          BY <1>2, <1>5, <2>1, <2>5, <4>1
      <3>2. x >= y
        BY <2>3, <3>1
      <3> QED
        BY <2>2, <3>2
    <2> QED
      BY <1>2, <2>4, <2>5
  <1>10. CASE reward >= s
    <2>1. PICK k \in Nat : k = reward - s /\ k < n
      BY <1>2, <1>7, <1>8, <1>10
    <2>2. k \div n = 0 /\ k % n = k
      BY <1>7, <2>1
    <2>3. PICK A \in SUBSET Rewarded : A = {p \in Rewarded : Rules!RankDown(effort, p) < k}
      OBVIOUS
    <2>4. Cardinality(A) = k
      <3> DEFINE R == {pair \in Rewarded \X Rewarded : Rules!Larger(effort, pair[1], pair[2])}
      <3>1. \A p, q \in Rewarded : <<p, q>> \in R <=>
              effort[p] > effort[q] \/ (effort[p] = effort[q] /\ p > q)
        BY DEF Rules!Larger
      <3>2. \A p \in Rewarded : Rules!RankDown(effort, p) = Cardinality({q \in Rewarded : <<q, p>> \in R})
        <4> TAKE p \in Rewarded
        <4>1. {q \in Rewarded : Rules!Larger(effort, q, p)} = {q \in Rewarded : <<q, p>> \in R}
          BY <3>1 DEF Rules!Larger
        <4> HIDE DEF R
        <4> QED
          BY <4>1, RuleCounts DEF Rules!RankDown
      <3> HIDE DEF R
      <3>3. \A p \in Rewarded : p \in Int /\ effort[p] \in Int
        BY <1>1, <1>5
      <3>4. \A p \in Rewarded : <<p, p>> \notin R
        BY <3>1, <3>3
      <3>5. \A p, q, r \in Rewarded : <<p, q>> \in R /\ <<q, r>> \in R => <<p, r>> \in R
        BY <3>1, <3>3
      <3>6. \A p, q \in Rewarded : p # q => <<p, q>> \in R \/ <<q, p>> \in R
        <4> TAKE p, q \in Rewarded
        <4>1. p \in Int /\ q \in Int /\ effort[p] \in Int /\ effort[q] \in Int
          BY <3>3
        <4>2. p # q => effort[p] > effort[q] \/ effort[q] > effort[p]
                         \/ (effort[p] = effort[q] /\ (p > q \/ q > p))
          BY <4>1
        <4> QED
          BY <3>1, <4>2
      <3>7. k <= Cardinality(Rewarded)
        BY <1>7, <2>1
      <3>8. Orders(R, Rewarded)
        BY <3>4, <3>5, <3>6 DEF Orders
      <3>9. A = {p \in Rewarded : Cardinality({q \in Rewarded : <<q, p>> \in R}) < k}
        BY <2>3, <3>2
      <3> QED
        BY <1>0, <3>7, <3>8, <3>9, FirstRanks
    <2>5. share = [p \in Rewarded |-> rounded[p] + (IF p \in A THEN 1 ELSE 0)]
      <3>1. share = [p \in Rewarded |-> rounded[p] + k \div n + (IF Rules!RankDown(effort, p) < k % n THEN 1 ELSE 0)]
        <4>1. reward - Rules!Total(rounded) = k /\ k >= 0 /\ Rules!Cardinality(Rewarded) = n
          BY <1>4, <1>7, <2>1, RuleCounts
        <4> QED
          BY <4>1 DEF Rules!SpreadsResidual
      <3>2. \A p \in Rewarded : rounded[p] + 0 = rounded[p]
        BY <1>5
      <3> QED
        BY <2>2, <2>3, <3>1, <3>2
    <2>6. \A p \in Rewarded : share[p] = rounded[p] + (IF p \in A THEN 1 ELSE 0)
      BY <2>5
    <2>7. share \in [Rewarded -> Nat]
      BY <1>5, <2>5
    <2>8. Rules!Total(share) = reward
      <3> DEFINE one == [p \in Rewarded |-> IF p \in A THEN 1 ELSE 0]
      <3>1. \A p \in Rewarded : one[p] = (IF p \in A THEN 1 ELSE 0) /\ one[p] \in Int /\ share[p] = rounded[p] + one[p]
        BY <2>6
      <3> HIDE DEF one
      <3>2. Rewarded \cap A = A
        OBVIOUS
      <3>3. SumFunctionOnSet(one, Rewarded) = k
        <4>1. \A p \in Rewarded : one[p] = (IF p \in A THEN 1 ELSE 0)
          BY <3>1
        <4>2. SumFunctionOnSet(one, Rewarded) = Cardinality(Rewarded \cap A)
          BY <1>0, <4>1, SumIndicator
        <4> QED
          BY <2>4, <3>2, <4>2
      <3>4. \A p \in Rewarded : rounded[p] \in Int
        BY <1>5
      <3>5. SumFunctionOnSet(share, Rewarded) = SumFunctionOnSet(rounded, Rewarded) + SumFunctionOnSet(one, Rewarded)
        BY <1>0, <3>1, <3>4, SumPlus
      <3> QED
        BY <1>2, <1>4, <2>1, <2>7, <3>3, <3>5, RuleInputs
    <2>9. \A p \in Rewarded : Rules!Within(share[p], reward * effort[p], t, 3)
      <3> TAKE p \in Rewarded
      <3>1. PICK a \in Nat, x \in Nat, y \in Nat : a = reward * effort[p] /\ x = rounded[p] /\ y = share[p]
        BY <1>5, <2>7
      <3>2. y = x \/ y = x + 1
        BY <2>6, <3>1
      <3>3. 2 * (a - x * t) <= t /\ 2 * (x * t - a) <= t
        BY <1>6, <3>1
      <3>4. (x + 1) * t = x * t + t
        OBVIOUS
      <3>5. 2 * (a - y * t) <= 3 * t /\ 2 * (y * t - a) <= 3 * t
        BY <3>2, <3>3, <3>4
      <3> QED
        BY <3>1, <3>5 DEF Rules!Within
    <2>10. \A p, q \in Rewarded : effort[p] > effort[q] => share[p] >= share[q]
      <3> SUFFICES ASSUME NEW p \in Rewarded, NEW q \in Rewarded, effort[p] > effort[q]
                   PROVE  share[p] >= share[q]
        OBVIOUS
      <3>1. rounded[p] >= rounded[q]
        BY <1>9
      <3>2. q \in A => p \in A
        <4>1. {r \in Rewarded : Rules!Larger(effort, r, p)} \in SUBSET {r \in Rewarded : Rules!Larger(effort, r, q)}
          <5>1. \A r \in Rewarded : effort[r] \in Int /\ r \in Int
            BY <1>1, <1>5
          <5>2. \A r \in Rewarded : Rules!Larger(effort, r, p) => Rules!Larger(effort, r, q)
            BY <5>1 DEF Rules!Larger
          <5> QED
            BY <5>2
        <4>2. IsFiniteSet({r \in Rewarded : Rules!Larger(effort, r, p)}) /\ IsFiniteSet({r \in Rewarded : Rules!Larger(effort, r, q)})
          BY <1>0, FS_Subset
        <4>3. Cardinality({r \in Rewarded : Rules!Larger(effort, r, p)}) <= Cardinality({r \in Rewarded : Rules!Larger(effort, r, q)})
          BY <4>1, <4>2, FS_Subset
        <4>4. PICK i \in Nat, j \in Nat : i = Rules!RankDown(effort, p) /\ j = Rules!RankDown(effort, q)
          BY <4>2, RuleCounts, FS_CardinalityType DEF Rules!RankDown
        <4>5. i <= j
          BY <4>3, <4>4, RuleCounts DEF Rules!RankDown
        <4> QED
          BY <2>1, <2>3, <4>4, <4>5
      <3> QED
        BY <1>5, <2>6, <3>1, <3>2
    <2> QED
      BY <1>3, <2>7, <2>8, <2>9, <2>10
  <1>11. CASE reward < s
    <2>1. PICK P \in SUBSET Rewarded : P = {p \in Rewarded : rounded[p] > 0}
      OBVIOUS
    <2>2. IsFiniteSet(P) /\ Cardinality(P) \in Nat
      BY <1>0, FS_Subset, FS_CardinalityType
    <2>3. PICK k \in Nat : k = s - reward /\ k > 0 /\ k <= Cardinality(P)
      <3>1. PICK c \in Nat : c = Cardinality(P)
        BY <2>2
      <3>2. 2 * (s - reward) <= c
        BY <1>8, <2>1, <3>1
      <3> QED
        BY <1>2, <1>11, <3>1, <3>2
    <2>4. PICK A \in SUBSET P : A = {p \in P : Rules!RankUp(effort, rounded, p) < k}
      OBVIOUS
    <2>5. Cardinality(A) = k
      <3> DEFINE R == {pair \in P \X P : Rules!Larger(effort, pair[2], pair[1])}
      <3>1. \A p, q \in P : <<p, q>> \in R <=>
              effort[q] > effort[p] \/ (effort[q] = effort[p] /\ q > p)
        BY DEF Rules!Larger
      <3>2. \A p \in P : Rules!RankUp(effort, rounded, p) = Cardinality({q \in P : <<q, p>> \in R})
        <4> TAKE p \in P
        <4>1. {q \in Rewarded : rounded[q] > 0 /\ Rules!Larger(effort, p, q)} = {q \in P : <<q, p>> \in R}
          BY <2>1, <3>1 DEF Rules!Larger
        <4> HIDE DEF R
        <4> QED
          BY <4>1, RuleCounts DEF Rules!RankUp
      <3> HIDE DEF R
      <3>3. \A p \in P : p \in Int /\ effort[p] \in Int
        BY <1>1, <1>5
      <3>4. \A p \in P : <<p, p>> \notin R
        BY <3>1, <3>3
      <3>5. \A p, q, r \in P : <<p, q>> \in R /\ <<q, r>> \in R => <<p, r>> \in R
        BY <3>1, <3>3
      <3>6. \A p, q \in P : p # q => <<p, q>> \in R \/ <<q, p>> \in R
        BY <3>1, <3>3
      <3>7. Orders(R, P) /\ IsFiniteSet(P) /\ k <= Cardinality(P)
        BY <2>2, <2>3, <3>4, <3>5, <3>6 DEF Orders
      <3>8. A = {p \in P : Cardinality({q \in P : <<q, p>> \in R}) < k}
        BY <2>4, <3>2
      <3> QED
        BY <3>7, <3>8, FirstRanks
    <2>6. share = [p \in Rewarded |-> IF p \in A THEN rounded[p] - 1 ELSE rounded[p]]
      <3>1. PICK z \in Int : z = reward - s /\ z < 0 /\ -z = k
        BY <1>2, <2>3
      <3>2. reward - Rules!Total(rounded) = z
        BY <1>4, <3>1
      <3>3. share = [p \in Rewarded |-> IF rounded[p] > 0 /\ Rules!RankUp(effort, rounded, p) < k
                                        THEN rounded[p] - 1 ELSE rounded[p]]
        BY <3>1, <3>2 DEF Rules!SpreadsResidual
      <3>4. \A p \in Rewarded : p \in A <=> rounded[p] > 0 /\ Rules!RankUp(effort, rounded, p) < k
        BY <2>1, <2>4
      <3> QED
        BY <3>3, <3>4
    <2>7. \A p \in Rewarded : /\ share[p] = IF p \in A THEN rounded[p] - 1 ELSE rounded[p]
                              /\ p \in A => rounded[p] > 0
      BY <2>1, <2>6
    <2>8. share \in [Rewarded -> Nat]
      <3>1. \A p \in Rewarded : share[p] \in Nat
        BY <1>5, <2>7
      <3> QED
        BY <2>6, <3>1
    <2>9. Rules!Total(share) = reward
      <3> DEFINE one == [p \in Rewarded |-> IF p \in A THEN 1 ELSE 0]
      <3>1. \A p \in Rewarded : /\ one[p] = (IF p \in A THEN 1 ELSE 0) /\ one[p] \in Int
                                /\ share[p] \in Int /\ rounded[p] = share[p] + one[p]
        BY <1>5, <2>7
      <3> HIDE DEF one
      <3>2. Rewarded \cap A = A
        OBVIOUS
      <3>3. SumFunctionOnSet(one, Rewarded) = k
        <4>1. \A p \in Rewarded : one[p] = (IF p \in A THEN 1 ELSE 0)
          BY <3>1
        <4>2. SumFunctionOnSet(one, Rewarded) = Cardinality(Rewarded \cap A)
          BY <1>0, <4>1, SumIndicator
        <4> QED
          BY <2>5, <3>2, <4>2
      <3>4. SumFunctionOnSet(rounded, Rewarded) = SumFunctionOnSet(share, Rewarded) + SumFunctionOnSet(one, Rewarded)
        BY <1>0, <3>1, SumPlus
      <3>5. Rules!Total(share) = SumFunctionOnSet(share, Rewarded) /\ Rules!Total(share) \in Nat
        BY <2>8, RuleInputs
      <3>6. PICK a \in Nat : a = Rules!Total(share)
        BY <3>5
      <3>7. s = a + k
        BY <1>4, <3>3, <3>4, <3>5, <3>6
      <3>8. a = reward
        BY <1>2, <2>3, <3>7
      <3> QED
        BY <3>6, <3>8
    <2>10. \A p \in Rewarded : Rules!Within(share[p], reward * effort[p], t, 3)
      <3> TAKE p \in Rewarded
      <3>1. PICK a \in Nat, x \in Nat, y \in Nat : a = reward * effort[p] /\ x = rounded[p] /\ y = share[p]
        BY <1>5, <2>8
      <3>2. y = x \/ x = y + 1
        BY <2>7, <3>1
      <3>3. 2 * (a - x * t) <= t /\ 2 * (x * t - a) <= t
        BY <1>6, <3>1
      <3>4. (y + 1) * t = y * t + t
        OBVIOUS
      <3>5. 2 * (a - y * t) <= 3 * t /\ 2 * (y * t - a) <= 3 * t
        BY <3>2, <3>3, <3>4
      <3> QED
        BY <3>1, <3>5 DEF Rules!Within
    <2>11. \A p, q \in Rewarded : effort[p] > effort[q] => share[p] >= share[q]
      <3> SUFFICES ASSUME NEW p \in Rewarded, NEW q \in Rewarded, effort[p] > effort[q]
                   PROVE  share[p] >= share[q]
        OBVIOUS
      <3>1. rounded[p] >= rounded[q]
        BY <1>9
      <3>2. p \in A /\ q \in P => q \in A
        <4> SUFFICES ASSUME p \in A, q \in P PROVE q \in A
          OBVIOUS
        <4> DEFINE Above(x) == {r \in Rewarded : rounded[r] > 0 /\ Rules!Larger(effort, x, r)}
        <4>1. Above(q) \in SUBSET Above(p)
          <5>1. \A r \in Rewarded : effort[r] \in Int /\ r \in Int
            BY <1>1, <1>5
          <5>2. \A r \in Rewarded : Rules!Larger(effort, q, r) => Rules!Larger(effort, p, r)
            BY <5>1 DEF Rules!Larger
          <5> QED
            BY <5>2
        <4>2. IsFiniteSet(Above(p)) /\ IsFiniteSet(Above(q))
          BY <1>0, FS_Subset
        <4>3. \A x \in {p, q} : Rules!RankUp(effort, rounded, x) = Cardinality(Above(x))
          BY RuleCounts DEF Rules!RankUp
        <4> HIDE DEF Above
        <4>4. Cardinality(Above(q)) <= Cardinality(Above(p)) /\ Cardinality(Above(p)) \in Nat /\ Cardinality(Above(q)) \in Nat
          BY <4>1, <4>2, FS_Subset, FS_CardinalityType
        <4>5. Cardinality(Above(p)) < k
          BY <2>4, <4>3
        <4>6. Cardinality(Above(q)) < k
          BY <4>4, <4>5
        <4> QED
          BY <2>4, <4>3, <4>6
      <3>3. q \notin P => rounded[q] = 0
        BY <1>5, <2>1
      <3>4. share[p] \in Nat
        BY <2>8
      <3> QED
        BY <1>5, <2>7, <3>1, <3>2, <3>3, <3>4
    <2> QED
      BY <1>3, <2>8, <2>9, <2>10, <2>11
  <1> QED
    BY <1>2, <1>10, <1>11

LEMMA Division ==
  ASSUME NEW n \in Nat, NEW d \in Nat \ {0}
  PROVE  /\ n \div d \in Nat /\ n % d \in 0 .. d - 1
         /\ (n \div d) * d <= n /\ n < (n \div d) * d + d
         /\ n % d = 0 => n = (n \div d) * d
  OBVIOUS

\* What is rounded down, or misses a whole number, is at most one unit short.
LEMMA FlooredIsNear ==
  ASSUME NEW n \in Nat, NEW d \in Nat \ {0}, NEW r \in Rules!Floored(n, d)
  PROVE  r \in Int /\ r * d <= n /\ n <= r * d + d
  <1>1. PICK k \in Nat : k = n \div d
    BY Division
  <1>2. k * d <= n /\ n < k * d + d /\ (n % d = 0 => n = k * d)
    BY <1>1, Division
  <1>3. r = k \/ (r = k - 1 /\ n % d = 0)
    BY <1>1 DEF Rules!Floored
  <1>4. (k - 1) * d = k * d - d
    OBVIOUS
  <1> QED
    BY <1>2, <1>3, <1>4

\* Fee and shares of a pool add up, each share within a unit.
LEMMA PoolSharesAddUp ==
  ASSUME Rules!RulesAssumption, NEW reward \in Nat, NEW fee \in Fees, NEW rate \in [Rewarded -> Works],
         NEW left, left = reward - Rules!OwnerFee(reward, fee),
         Rules!Total(rate) > 0, NEW floored \in [Rewarded -> 0 .. left],
         \A p \in Rewarded : floored[p] \in Rules!Floored(left * rate[p], Rules!Total(rate)),
         NEW share, share = [p \in Rewarded |-> floored[p] + Rules!RemainderBonus(left - Rules!Total(floored), p)]
  PROVE  /\ Rules!OwnerFee(reward, fee) + Rules!Total(share) = reward
         /\ \A p \in Rewarded : Rules!Within(share[p], left * rate[p], Rules!Total(rate), 2)
  <1>1. IsFiniteSet(Rewarded)
    BY RuleInputs
  <1>2. \A p \in Rewarded : p \in Int
    BY RuleInputs
  <1>3. reward \in Nat /\ fee \in 0 .. 10 /\ rate \in [Rewarded -> Nat]
    BY DEF Rules!RulesAssumption
  <1>4. PICK l \in Nat : l = left /\ l + Rules!OwnerFee(reward, fee) = reward
    <2>1. PICK k \in Int : k = (reward * fee) \div 100
      BY <1>3
    <2>2. reward * fee \in Nat /\ reward * fee <= reward * 10
      BY <1>3
    <2>3. 0 <= k /\ k <= reward
      BY <1>3, <2>1, <2>2
    <2> QED
      BY <1>3, <2>1, <2>3 DEF Rules!OwnerFee
  <1>5. PICK t \in Nat \ {0} : t = Rules!Total(rate) /\ t = SumFunctionOnSet(rate, Rewarded)
    BY <1>3, RuleInputs
  <1>6. floored \in [Rewarded -> Nat]
    <2>1. 0 .. left \subseteq Nat
      BY <1>4
    <2> QED
      BY <2>1
  <1>7. PICK s \in Nat : s = Rules!Total(floored) /\ s = SumFunctionOnSet(floored, Rewarded)
    BY <1>6, RuleInputs
  <1>8. PICK n \in Nat : n = Cardinality(Rewarded)
    BY <1>1, FS_CardinalityType
  <1>9. \A p \in Rewarded : floored[p] \in Nat /\ rate[p] \in Nat /\ l * rate[p] \in Nat
    BY <1>3, <1>6
  <1>10. \A p \in Rewarded : floored[p] * t <= l * rate[p] /\ l * rate[p] <= floored[p] * t + t
    <2> TAKE p \in Rewarded
    <2>1. PICK m \in Nat : m = l * rate[p]
      BY <1>9
    <2>2. floored[p] \in Rules!Floored(m, t)
      BY <1>4, <1>5, <2>1
    <2> QED
      BY <2>1, <2>2, FlooredIsNear
  <1>11. PICK given : given = [p \in Rewarded |-> t * floored[p]]
    OBVIOUS
  <1>12. PICK due : due = [p \in Rewarded |-> l * rate[p]]
    OBVIOUS
  <1>13. PICK once : once = [p \in Rewarded |-> t * 1]
    OBVIOUS
  <1>14. \A p \in Rewarded : /\ given[p] = t * floored[p] /\ given[p] \in Int
                             /\ due[p] = l * rate[p] /\ due[p] \in Int
                             /\ once[p] = t * 1 /\ once[p] \in Int
    BY <1>9, <1>11, <1>12, <1>13
  <1>15. /\ SumFunctionOnSet(given, Rewarded) = t * s /\ SumFunctionOnSet(due, Rewarded) = l * t
         /\ SumFunctionOnSet(once, Rewarded) = t * n
    <2>1. \A p \in Rewarded : floored[p] \in Int /\ given[p] = t * floored[p]
      BY <1>9, <1>14
    <2>2. \A p \in Rewarded : rate[p] \in Int /\ due[p] = l * rate[p]
      BY <1>9, <1>14
    <2> DEFINE one == [p \in Rewarded |-> IF p \in Rewarded THEN 1 ELSE 0]
    <2>3. \A p \in Rewarded : one[p] = (IF p \in Rewarded THEN 1 ELSE 0)
      OBVIOUS
    <2>4. \A p \in Rewarded : one[p] \in Int /\ once[p] = t * one[p]
      BY <1>14
    <2> HIDE DEF one
    <2>5. SumFunctionOnSet(given, Rewarded) = t * s
      BY <1>1, <1>7, <2>1, SumScaled
    <2>6. SumFunctionOnSet(due, Rewarded) = l * t
      BY <1>1, <1>5, <2>2, SumScaled
    <2>7. Rewarded \cap Rewarded = Rewarded
      OBVIOUS
    <2>8. SumFunctionOnSet(one, Rewarded) = Cardinality(Rewarded \cap Rewarded)
      BY <1>1, <2>3, SumIndicator
    <2>9. SumFunctionOnSet(once, Rewarded) = t * SumFunctionOnSet(one, Rewarded)
      BY <1>1, <2>4, SumScaled
    <2> QED
      BY <1>8, <2>5, <2>6, <2>7, <2>8, <2>9
  <1>16. t * s <= l * t
    <2>1. \A p \in Rewarded : given[p] \in Int /\ due[p] \in Int /\ given[p] <= due[p]
      <3> TAKE p \in Rewarded
      <3>1. floored[p] * t = t * floored[p]
        BY <1>9
      <3> QED
        BY <1>10, <1>14, <3>1
    <2> QED
      BY <1>1, <1>15, <2>1, SumBound
  <1>17. l * t <= t * s + t * n
    <2> DEFINE most == [p \in Rewarded |-> given[p] + once[p]]
    <2>1. \A p \in Rewarded : most[p] = given[p] + once[p] /\ most[p] \in Int /\ due[p] <= most[p]
      <3> TAKE p \in Rewarded
      <3>1. floored[p] * t = t * floored[p] /\ t * 1 = t
        BY <1>9
      <3> QED
        BY <1>10, <1>14, <3>1
    <2> HIDE DEF most
    <2>2. SumFunctionOnSet(most, Rewarded) = SumFunctionOnSet(given, Rewarded) + SumFunctionOnSet(once, Rewarded)
      BY <1>1, <1>14, <2>1, SumPlus
    <2>3. SumFunctionOnSet(due, Rewarded) <= SumFunctionOnSet(most, Rewarded)
      BY <1>1, <1>14, <2>1, SumBound
    <2> QED
      BY <1>15, <2>2, <2>3
  <1>18. PICK k \in Nat : k = l - s /\ k <= n
    <2>1. s <= l
      BY <1>16
    <2>2. l <= s + n
      BY <1>17
    <2> QED
      BY <2>1, <2>2
  <1>19. PICK A \in SUBSET Rewarded : A = {p \in Rewarded : Cardinality({q \in Rewarded : q < p}) < k}
    OBVIOUS
  <1>20. Cardinality(A) = k
    <2> DEFINE R == {pair \in Rewarded \X Rewarded : pair[1] < pair[2]}
    <2>1. \A p, q \in Rewarded : <<p, q>> \in R <=> p < q
      OBVIOUS
    <2> HIDE DEF R
    <2>2. Orders(R, Rewarded)
      BY <1>2, <2>1 DEF Orders
    <2>3. \A p \in Rewarded : {q \in Rewarded : q < p} = {q \in Rewarded : <<q, p>> \in R}
      BY <2>1
    <2>4. A = {p \in Rewarded : Cardinality({q \in Rewarded : <<q, p>> \in R}) < k}
      BY <1>19, <2>3
    <2>5. k <= Cardinality(Rewarded)
      BY <1>8, <1>18
    <2> QED
      BY <1>1, <2>2, <2>4, <2>5, FirstRanks
  <1>21. \A p \in Rewarded : share[p] = floored[p] + (IF p \in A THEN 1 ELSE 0)
    <2>1. left - Rules!Total(floored) = k
      BY <1>4, <1>7, <1>18
    <2> QED
      BY <1>19, <2>1, RuleCounts DEF Rules!RemainderBonus
  <1>22. share \in [Rewarded -> Nat]
    <2>1. \A p \in Rewarded : share[p] \in Nat
      BY <1>9, <1>21
    <2> QED
      BY <2>1
  <1>23. Rules!OwnerFee(reward, fee) + Rules!Total(share) = reward
    <2> DEFINE one == [p \in Rewarded |-> IF p \in A THEN 1 ELSE 0]
    <2>1. \A p \in Rewarded : one[p] = (IF p \in A THEN 1 ELSE 0)
      OBVIOUS
    <2>2. \A p \in Rewarded : floored[p] \in Int /\ one[p] \in Int /\ share[p] = floored[p] + one[p]
      BY <1>9, <1>21
    <2> HIDE DEF one
    <2>3. Rewarded \cap A = A
      OBVIOUS
    <2>4. SumFunctionOnSet(one, Rewarded) = Cardinality(Rewarded \cap A)
      BY <1>1, <2>1, SumIndicator
    <2>5. SumFunctionOnSet(share, Rewarded) = SumFunctionOnSet(floored, Rewarded) + SumFunctionOnSet(one, Rewarded)
      BY <1>1, <2>2, SumPlus
    <2>6. Rules!Total(share) = SumFunctionOnSet(share, Rewarded)
      BY <1>22, RuleInputs
    <2>7. Rules!Total(share) = l
      <3>1. Rules!Total(share) = s + k
        BY <1>7, <1>20, <2>3, <2>4, <2>5, <2>6
      <3>2. s + k = l
        BY <1>18
      <3> QED
        BY <3>1, <3>2
    <2>8. PICK c \in Int : c = Rules!OwnerFee(reward, fee)
      BY <1>3 DEF Rules!OwnerFee
    <2> QED
      BY <1>4, <2>7, <2>8
  <1>24. \A p \in Rewarded : Rules!Within(share[p], left * rate[p], t, 2)
    <2> TAKE p \in Rewarded
    <2>1. PICK m \in Nat, x \in Nat, y \in Nat : m = l * rate[p] /\ x = floored[p] /\ y = share[p]
      BY <1>9, <1>22
    <2>2. y = x \/ y = x + 1
      BY <1>21, <2>1
    <2>3. x * t <= m /\ m <= x * t + t
      BY <1>10, <2>1
    <2>4. (x + 1) * t = x * t + t
      OBVIOUS
    <2>5. 2 * (m - y * t) <= 2 * t /\ 2 * (y * t - m) <= 2 * t
      BY <2>2, <2>3, <2>4
    <2> QED
      BY <1>4, <2>1, <2>5 DEF Rules!Within
  <1> QED
    BY <1>5, <1>23, <1>24

\* Within a tenth and a rounding of the required work.
LEMMA TenthIsDamped ==
  ASSUME NEW required \in Nat, NEW n \in Nat, NEW d \in Nat \ {0}, NEW r \in Nat,
         9 * (required * d) <= 10 * n, 10 * n <= 11 * (required * d),
         2 * (n - r * d) <= d, 2 * (r * d - n) <= d
  PROVE  2 * (required - r) <= (required \div 5) + 2 /\ 2 * (r - required) <= (required \div 5) + 2
  <1>1. 10 * r <= 11 * required + 5 /\ 10 * r >= 9 * required - 5
    OBVIOUS
  <1> QED
    BY <1>1

\* The nearest whole numbers to no less than the required work are no less.
LEMMA NearestKeepsUp ==
  ASSUME NEW required \in Nat, NEW n \in Nat, NEW d \in Nat \ {0}, NEW r \in Nat,
         required * d <= n, 2 * (n - r * d) <= d
  PROVE  r >= required
  OBVIOUS

LEMMA HalfUpIsNear ==
  ASSUME NEW n \in Nat, NEW d \in Nat \ {0}
  PROVE  /\ Rules!HalfUp(n, d) \in Nat
         /\ 2 * (n - Rules!HalfUp(n, d) * d) <= d /\ 2 * (Rules!HalfUp(n, d) * d - n) <= d
  <1>1. PICK r \in Int : r = (2 * n + d) \div (2 * d)
    OBVIOUS
  <1>2. r \in Nat /\ 2 * (n - r * d) <= d /\ 2 * (r * d - n) <= d
    BY <1>1
  <1> QED
    BY <1>1, <1>2 DEF Rules!HalfUp

\* The clamped ratio is within a tenth of 1, and at least 1 when blocks came too fast.
LEMMA AdjustmentIsClamped ==
  ASSUME Rules!RulesAssumption, NEW elapsed \in Nat \ {0}
  PROVE  \E num \in Nat, den \in Nat \ {0} :
           /\ Rules!Adjustment(elapsed) = <<num, den>>
           /\ 9 * den <= 10 * num /\ 10 * num <= 11 * den
           /\ elapsed <= Target => den <= num
  <1>1. Target \in Nat \ {0}
    BY DEF Rules!RulesAssumption
  <1>2. CASE 10 * Target > 11 * elapsed
    <2>1. Rules!Adjustment(elapsed) = <<11, 10>>
      BY <1>2 DEF Rules!Adjustment
    <2> QED
      BY <2>1
  <1>3. CASE ~(10 * Target > 11 * elapsed) /\ 10 * Target < 9 * elapsed
    <2>1. Rules!Adjustment(elapsed) = <<9, 10>>
      BY <1>3 DEF Rules!Adjustment
    <2> QED
      BY <1>1, <1>3, <2>1
  <1>4. CASE ~(10 * Target > 11 * elapsed) /\ ~(10 * Target < 9 * elapsed)
    <2>1. Rules!Adjustment(elapsed) = <<Target, elapsed>>
      BY <1>4 DEF Rules!Adjustment
    <2> QED
      BY <1>1, <1>4, <2>1
  <1> QED
    BY <1>2, <1>3, <1>4

LEMMA RetargetIsDamped ==
  ASSUME Rules!RulesAssumption, NEW required \in Works, NEW elapsed \in Elapsed, required >= Minimum,
         NEW modifier, Rules!Unmodified(modifier),
         NEW next \in Rules!NextRequiredWork(required, elapsed, modifier)
  PROVE  /\ Rules!Within(next, required, 1, required \div 5 + 2)
         /\ elapsed <= Target => next >= required
  <1>1. required \in Nat /\ elapsed \in Nat /\ Minimum \in Nat
    BY DEF Rules!RulesAssumption
  <1>2. PICK v \in Nat : v = required \div 5
    BY <1>1
  <1>3. PICK r \in Nat : /\ next = Rules!AtLeast(r, Minimum)
                         /\ 2 * (required - r) <= v + 2 /\ 2 * (r - required) <= v + 2
                         /\ elapsed <= Target => r >= required
    <2>1. CASE elapsed = 0
      <3>1. next = Rules!AtLeast(required, Minimum)
        BY <2>1 DEF Rules!NextRequiredWork
      <3>2. 2 * (required - required) <= v + 2
        BY <1>1
      <3> QED
        BY <1>1, <3>1, <3>2
    <2>2. CASE elapsed # 0
      <3>1. PICK num \in Nat, den \in Nat \ {0} :
              /\ Rules!Adjustment(elapsed) = <<num, den>>
              /\ 9 * den <= 10 * num /\ 10 * num <= 11 * den
              /\ elapsed <= Target => den <= num
        BY <1>1, <2>2, AdjustmentIsClamped
      <3>2. PICK n \in Nat : n = required * num
        BY <1>1
      <3>4. PICK r : /\ next = Rules!AtLeast(r, Minimum)
                     /\ r = Rules!HalfUp(n, den) \/ r \in Rules!Nearest(n, den)
        <4>1. next \in {Rules!AtLeast(w, Minimum) :
                 w \in IF den = 10 THEN {Rules!HalfUp(n, 10)} ELSE Rules!Nearest(n, den)}
          BY <2>2, <3>1, <3>2 DEF Rules!NextRequiredWork
        <4> QED
          BY <4>1
      <3>5. r \in Nat /\ 2 * (n - r * den) <= den /\ 2 * (r * den - n) <= den
        BY <3>4, HalfUpIsNear, NearestIsNear
      <3>6. 9 * (required * den) <= 10 * n /\ 10 * n <= 11 * (required * den)
        <4>1. \A a, b, c \in Nat : a <= b => c * a <= c * b
          OBVIOUS
        <4>2. required * (9 * den) <= required * (10 * num) /\ required * (10 * num) <= required * (11 * den)
          BY <1>1, <3>1, <4>1
        <4>3. /\ required * (9 * den) = 9 * (required * den) /\ required * (11 * den) = 11 * (required * den)
              /\ required * (10 * num) = 10 * (required * num)
          BY <1>1
        <4> QED
          BY <3>2, <4>2, <4>3
      <3>7. 2 * (required - r) <= v + 2 /\ 2 * (r - required) <= v + 2
        BY <1>1, <1>2, <3>5, <3>6, TenthIsDamped
      <3>8. elapsed <= Target => r >= required
        <4> SUFFICES ASSUME elapsed <= Target PROVE r >= required
          OBVIOUS
        <4>1. den <= num
          BY <3>1
        <4>2. \A a, b, c \in Nat : a <= b => c * a <= c * b
          OBVIOUS
        <4>3. required * den <= n
          BY <1>1, <3>2, <4>1, <4>2
        <4> QED
          BY <1>1, <3>5, <4>3, NearestKeepsUp
      <3> QED
        BY <3>4, <3>5, <3>7, <3>8
    <2> QED
      BY <2>1, <2>2
  <1>4. next = IF r < Minimum THEN Minimum ELSE r
    BY <1>3 DEF Rules!AtLeast
  <1>5. 2 * (required - next) <= v + 2 /\ 2 * (next - required) <= v + 2 /\ next \in Nat
    BY <1>1, <1>3, <1>4
  <1>6. elapsed <= Target => next >= required
    BY <1>1, <1>3, <1>4
  <1>7. Rules!Within(next, required, 1, v + 2)
    <2>1. next * 1 = next /\ (v + 2) * 1 = v + 2
      BY <1>5
    <2> QED
      BY <1>5, <2>1 DEF Rules!Within
  <1> QED
    BY <1>2, <1>6, <1>7

\* No event pushes the next requirement below the minimum.
LEMMA RetargetIsFloored ==
  ASSUME Rules!RulesAssumption, NEW required \in Works, NEW elapsed \in Elapsed,
         NEW modifier \in Modifiers \cup {None}, NEW next \in Rules!NextRequiredWork(required, elapsed, modifier)
  PROVE  next >= Minimum
  <1>1. required \in Nat /\ elapsed \in Nat /\ Minimum \in Nat \ {0} /\ Scale \in Nat \ {0} /\ Modifiers \subseteq Int
    BY DEF Rules!RulesAssumption
  <1>2. \A n \in Int, d \in Nat \ {0} : Rules!Nearest(n, d) \subseteq Int
    <2> TAKE n \in Int, d \in Nat \ {0}
    <2>1. n \div d \in Int
      OBVIOUS
    <2> QED
      BY <2>1 DEF Rules!Nearest
  <1>3. PICK raw \in Int : next = Rules!AtLeast(raw, Minimum)
    <2>1. CASE elapsed = 0
      BY <1>1, <2>1 DEF Rules!NextRequiredWork
    <2>2. CASE elapsed # 0
      <3>1. PICK num \in Nat, den \in Nat \ {0} : Rules!Adjustment(elapsed) = <<num, den>>
        BY <1>1, <2>2, AdjustmentIsClamped
      <3>2. PICK n \in Nat : n = required * num
        BY <1>1
      <3>3. Rules!HalfUp(n, 10) \in Int /\ Rules!Nearest(n, den) \subseteq Int
        BY <1>2, <3>2, HalfUpIsNear
      <3>4. ~Rules!Unmodified(modifier) => Rules!Divided(n, den, modifier) \subseteq Int
        <4> SUFFICES ASSUME ~Rules!Unmodified(modifier)
                     PROVE  Rules!Divided(n, den, modifier) \subseteq Int
          OBVIOUS
        <4>1. modifier \in Int /\ modifier # 0
          BY <1>1 DEF Rules!Unmodified
        <4>2. PICK x \in Int : x = n * Scale
          BY <1>1
        <4>3. CASE modifier > 0
          <5>1. PICK d \in Nat \ {0} : d = den * modifier
            BY <4>1, <4>3
          <5>2. Rules!Divided(n, den, modifier) = Rules!Nearest(x, d)
            BY <4>2, <4>3, <5>1 DEF Rules!Divided
          <5> QED
            BY <1>2, <5>2
        <4>4. CASE ~(modifier > 0)
          <5>1. PICK k \in Nat \ {0} : k = -modifier
            BY <4>1, <4>4
          <5>2. PICK d \in Nat \ {0} : d = den * k
            OBVIOUS
          <5>3. PICK y \in Int : y = -x
            OBVIOUS
          <5>4. Rules!Divided(n, den, modifier) = Rules!Nearest(y, d)
            BY <4>2, <4>4, <5>1, <5>2, <5>3 DEF Rules!Divided
          <5> QED
            BY <1>2, <5>4
        <4> QED
          BY <4>3, <4>4
      <3>5. next \in {Rules!AtLeast(w, Minimum) :
               w \in IF ~Rules!Unmodified(modifier) THEN Rules!Divided(n, den, modifier)
                     ELSE IF den = 10 THEN {Rules!HalfUp(n, 10)} ELSE Rules!Nearest(n, den)}
        BY <2>2, <3>1, <3>2 DEF Rules!NextRequiredWork
      <3> QED
        BY <3>3, <3>4, <3>5
    <2> QED
      BY <2>1, <2>2
  <1> QED
    BY <1>1, <1>3 DEF Rules!AtLeast

LEMMA BaseRewardIsFloored ==
  ASSUME Rules!RulesAssumption, NEW base \in Nat, NEW required \in Works
  PROVE  Rules!BaseReward(base, required) \in Nat /\ Rules!BaseReward(base, required) >= Minimum
  <1>1. required \in Nat /\ Target \in Nat \ {0} /\ Minimum \in Nat \ {0}
    BY DEF Rules!RulesAssumption
  <1>2. base * required \in Nat
    BY <1>1
  <1>3. Rules!HalfUp(base * required, Target) \in Nat
    BY <1>1, <1>2, HalfUpIsNear
  <1> QED
    BY <1>1, <1>3 DEF Rules!BaseReward, Rules!AtLeast

LEMMA RulesStepHolds ==
  ASSUME Rules!RulesAssumption, Rules!Next
  PROVE  RulesHold'
  <1>1. CASE Rules!AllocatePlayerRewards
    <2>0. PICK reward \in Rewards, effort \in [Rewarded -> Works] :
            /\ Rules!Total(effort) > 0
            /\ \E rounded \in [Rewarded -> (IF reward < 0 THEN reward .. 0 ELSE 0 .. reward)] :
                 /\ \A p \in Rewarded : rounded[p] \in Rules!Nearest(reward * effort[p], Rules!Total(effort))
                 /\ calc' = [rule |-> "allocate", reward |-> reward, work |-> effort,
                             share |-> [p \in Rewarded |->
                               Rules!AtLeast(Rules!SpreadsResidual(reward, effort, rounded)[p], 0)]]
      BY <1>1 DEF Rules!AllocatePlayerRewards
    <2>1. PICK rounded \in [Rewarded -> (IF reward < 0 THEN reward .. 0 ELSE 0 .. reward)] :
            /\ Rules!Total(effort) > 0
            /\ \A p \in Rewarded : rounded[p] \in Rules!Nearest(reward * effort[p], Rules!Total(effort))
            /\ calc' = [rule |-> "allocate", reward |-> reward, work |-> effort,
                        share |-> [p \in Rewarded |->
                          Rules!AtLeast(Rules!SpreadsResidual(reward, effort, rounded)[p], 0)]]
      BY <2>0
    <2>2. PICK share, given : /\ given = Rules!SpreadsResidual(reward, effort, rounded)
                             /\ share = [p \in Rewarded |-> Rules!AtLeast(given[p], 0)]
      OBVIOUS
    <2>3. /\ calc'.rule = "allocate" /\ calc'.reward = reward /\ calc'.work = effort /\ calc'.share = share
      BY <2>1, <2>2
    <2>4. CASE reward < 0
      <3>1. ~(calc'.reward >= 0)
        BY <2>3, <2>4 DEF Rules!RulesAssumption
      <3> QED
        BY <2>3, <3>1 DEF RulesHold, Rules!SettlementAddsUp, Rules!RewardIsFloored, Rules!DifficultyIsDamped
    <2>5. CASE ~(reward < 0)
      <3>1. reward \in Nat /\ rounded \in [Rewarded -> 0 .. reward]
        BY <2>5 DEF Rules!RulesAssumption
      <3>2. /\ given \in [Rewarded -> Nat]
            /\ Rules!Total(given) = reward
            /\ \A p \in Rewarded :
                 /\ Rules!Within(given[p], reward * effort[p], Rules!Total(effort), 3)
                 /\ \A q \in Rewarded : effort[p] > effort[q] => given[p] >= given[q]
        BY <2>1, <2>2, <3>1, AllocationIsFair
      <3>3. share = given
        <4>1. \A p \in Rewarded : Rules!AtLeast(given[p], 0) = given[p]
          BY <3>2 DEF Rules!AtLeast
        <4> QED
          BY <2>2, <3>2, <4>1
      <3> QED
        BY <2>3, <3>2, <3>3 DEF RulesHold, Rules!SettlementAddsUp, Rules!RewardIsFloored,
            Rules!DifficultyIsDamped
    <2> QED
      BY <2>4, <2>5
  <1>2. CASE Rules!ComputeBlockReward
    <2>1. PICK base \in Rewards \cap Nat, required \in Works, modifier \in Modifiers \cup {None} :
            calc' = [rule |-> "reward", modifier |-> modifier,
                     reward |-> IF modifier = None THEN Rules!BaseReward(base, required)
                                ELSE Rules!HalfEven(modifier * Rules!BaseReward(base, required), Scale)]
      BY <1>2 DEF Rules!ComputeBlockReward
    <2>2. /\ calc'.rule = "reward" /\ calc'.modifier = modifier
          /\ modifier = None => calc'.reward = Rules!BaseReward(base, required)
      BY <2>1
    <2>3. Rules!BaseReward(base, required) \in Nat /\ Rules!BaseReward(base, required) >= Minimum
      BY BaseRewardIsFloored
    <2> QED
      BY <2>2, <2>3 DEF RulesHold, Rules!SettlementAddsUp, Rules!RewardIsFloored, Rules!DifficultyIsDamped
  <1>3. CASE Rules!CalculateRewardShares
    <2>1. PICK reward \in Rewards \cap Nat, fee \in Fees, rate \in [Rewarded -> Works] :
            LET left == reward - Rules!OwnerFee(reward, fee) IN
            \/ Rules!Total(rate) = 0 /\ Rules!PoolShares(reward, fee, rate, reward, [p \in {} |-> 0])
            \/ /\ Rules!Total(rate) > 0
               /\ \E floored \in [Rewarded -> 0 .. left] :
                    /\ \A p \in Rewarded : floored[p] \in Rules!Floored(left * rate[p], Rules!Total(rate))
                    /\ Rules!PoolShares(reward, fee, rate, Rules!OwnerFee(reward, fee),
                         [p \in Rewarded |-> floored[p] + Rules!RemainderBonus(left - Rules!Total(floored), p)])
      BY <1>3 DEF Rules!CalculateRewardShares
    <2>2. CASE Rules!Total(rate) = 0 /\ Rules!PoolShares(reward, fee, rate, reward, [p \in {} |-> 0])
      <3>1. PICK share : share = [p \in {} |-> 0]
        OBVIOUS
      <3>2. calc'.rule = "pool" /\ calc'.reward = reward /\ calc'.owner = reward /\ calc'.share = share
        BY <2>2, <3>1 DEF Rules!PoolShares
      <3>3. DOMAIN share = {}
        BY <3>1
      <3>4. Rules!Total(share) = 0
        <4>1. Rules!Total(share) = SumFunctionOnSet(share, {})
          BY <3>3 DEF Rules!Total, Rules!SumFunctionOnSet, SumFunctionOnSet, Rules!FoldFunctionOnSet,
                      FoldFunctionOnSet, Rules!MapThenFoldSet, MapThenFoldSet
        <4> QED
          BY <4>1, SumEmpty
      <3>5. reward + 0 = reward
        OBVIOUS
      <3> QED
        BY <3>2, <3>3, <3>4, <3>5 DEF RulesHold, Rules!SettlementAddsUp, Rules!RewardIsFloored,
            Rules!DifficultyIsDamped
    <2>3. CASE ~(Rules!Total(rate) = 0 /\ Rules!PoolShares(reward, fee, rate, reward, [p \in {} |-> 0]))
      <3>1. PICK left : left = reward - Rules!OwnerFee(reward, fee)
        OBVIOUS
      <3>2. PICK floored \in [Rewarded -> 0 .. left] :
              /\ Rules!Total(rate) > 0
              /\ \A p \in Rewarded : floored[p] \in Rules!Floored(left * rate[p], Rules!Total(rate))
              /\ Rules!PoolShares(reward, fee, rate, Rules!OwnerFee(reward, fee),
                   [p \in Rewarded |-> floored[p] + Rules!RemainderBonus(left - Rules!Total(floored), p)])
        BY <2>1, <2>3, <3>1
      <3>3. PICK share :
              share = [p \in Rewarded |-> floored[p] + Rules!RemainderBonus(left - Rules!Total(floored), p)]
        OBVIOUS
      <3>4. /\ Rules!OwnerFee(reward, fee) + Rules!Total(share) = reward
            /\ \A p \in Rewarded : Rules!Within(share[p], left * rate[p], Rules!Total(rate), 2)
        BY <3>1, <3>2, <3>3, PoolSharesAddUp
      <3>5. /\ calc'.rule = "pool" /\ calc'.reward = reward /\ calc'.rate = rate
            /\ calc'.owner = Rules!OwnerFee(reward, fee) /\ calc'.share = share
        BY <3>2, <3>3 DEF Rules!PoolShares
      <3>6. DOMAIN share = Rewarded
        BY <3>3
      <3> QED
        BY <3>1, <3>4, <3>5, <3>6 DEF RulesHold, Rules!SettlementAddsUp, Rules!RewardIsFloored,
            Rules!DifficultyIsDamped
    <2> QED
      BY <2>2, <2>3
  <1>4. CASE Rules!AdjustDifficulty
    <2>1. PICK required \in Works, elapsed \in Elapsed, modifier \in Modifiers \cup {None} :
            \E next \in Rules!NextRequiredWork(required, elapsed, modifier) :
              calc' = [rule |-> "difficulty", required |-> required, elapsed |-> elapsed,
                       modifier |-> modifier, next |-> next]
      BY <1>4 DEF Rules!AdjustDifficulty
    <2>2. PICK next \in Rules!NextRequiredWork(required, elapsed, modifier) :
            calc' = [rule |-> "difficulty", required |-> required, elapsed |-> elapsed,
                     modifier |-> modifier, next |-> next]
      BY <2>1
    <2>3. /\ calc'.rule = "difficulty" /\ calc'.required = required /\ calc'.elapsed = elapsed
          /\ calc'.modifier = modifier /\ calc'.next = next
      BY <2>2
    <2>4. Rules!Unmodified(modifier) /\ required >= Minimum =>
            /\ Rules!Within(next, required, 1, required \div 5 + 2)
            /\ elapsed <= Target => next >= required
      BY RetargetIsDamped
    <2>5. next >= Minimum
      BY RetargetIsFloored
    <2> QED
      BY <2>3, <2>4, <2>5 DEF RulesHold, Rules!SettlementAddsUp, Rules!RewardIsFloored,
          Rules!DifficultyIsDamped
  <1> QED
    BY <1>1, <1>2, <1>3, <1>4 DEF Rules!Next

\* Shares and fees add up and are fair up to their rounding, and a retarget moves the difficulty
\* by a tenth and its rounding, for any number of players and any rewards, work, fees and block times
\* (economy/reward_settlement.py:34-77, pools/service.py:297-348, difficulty/service.py:26-64).
THEOREM SettlementsAddUp == Spec => []RulesHold
  <1>1. Init => RulesHold
    <2>1. Init => calc.rule = "none"
      BY DEF Init, Rules!Init
    <2> QED
      BY <2>1 DEF RulesHold, Rules!SettlementAddsUp, Rules!RewardIsFloored, Rules!DifficultyIsDamped
  <1>2. RulesHold /\ [Next]_vars => RulesHold'
    <2> SUFFICES ASSUME RulesHold, [Next]_vars PROVE RulesHold'
      OBVIOUS
    <2>1. [Rules!Next]_calc
      BY Steps
    <2>2. CASE Rules!Next
      BY <2>2, ServicesAssumption, RulesStepHolds DEF ServicesAssumption
    <2>3. CASE calc' = calc
      BY <2>3 DEF RulesHold, Rules!SettlementAddsUp, Rules!RewardIsFloored, Rules!DifficultyIsDamped
    <2> QED
      BY <2>1, <2>2, <2>3
  <1> QED
    BY <1>1, <1>2, PTL DEF Spec

-----------------------------------------------------------------------------
(* Interval slices: when the clock keeps whole seconds, it does not matter   *)
(* where the ticks cut the time.                                             *)

SliceBoundaries == [at : Nat, multiplier : Nat, paused : BOOLEAN]

\* What holds once the boundaries B have taken effect, from multiplier m and pause p on.
AfterAll(B, m, p) == IF B = {} THEN <<m, p>> ELSE <<Slices!Latest(B).multiplier, Slices!Latest(B).paused>>

Off == FALSE

\* What a replay is told.
Heard == {Slices!Filled(h.said, 1, Off) : h \in history}

Past == {b \in Heard : b.at < processed}

Agreed == \A h \in history : h.boundary = Slices!Filled(h.said, 1, Off)

SlicesInv ==
  /\ processed \in Nat /\ multiplier \in Nat /\ paused \in BOOLEAN
  /\ pending \subseteq SliceBoundaries /\ Heard \subseteq SliceBoundaries
  /\ IsFiniteSet(pending) /\ IsFiniteSet(Heard)
  /\ \A b : b \in Heard /\ b.at >= processed <=> b \in pending /\ b.at >= processed
  /\ AfterAll(Past, 1, Off) = <<multiplier, paused>>
  /\ done = Slices!Slices(0, 1, Off, Past, processed)

\* Work over an interval is the work over its parts.
LEMMA SliceWorkAdds ==
  ASSUME Parts = 1, NEW a \in Nat, NEW b \in Nat, NEW c \in Nat, NEW m \in Nat, NEW p \in BOOLEAN
  PROVE  /\ Slices!SliceWork(a, b, m, p) \in Int
         /\ Slices!SliceWork(a, a, m, p) = 0
         /\ Slices!SliceWork(a, c, m, p) = Slices!SliceWork(a, b, m, p) + Slices!SliceWork(b, c, m, p)
  <1>1. \A x, y \in Nat : (y - x) \div 1 = y - x
    OBVIOUS
  <1>2. \A x, y \in Nat : Slices!SliceWork(x, y, m, p) = IF p THEN 0 ELSE m * (y - x)
    BY <1>1 DEF Slices!SliceWork
  <1>3. m * (a - a) = 0 /\ m * (c - a) = m * (b - a) + m * (c - b) /\ m * (b - a) \in Int
    OBVIOUS
  <1> QED
    BY <1>2, <1>3

LEMMA EarlierOrders ==
  /\ \A b \in SliceBoundaries : ~Slices!Earlier(b, b)
  /\ \A b, c \in SliceBoundaries : Slices!Earlier(b, c) => ~Slices!Earlier(c, b) /\ b.at <= c.at
  /\ \A b, c \in SliceBoundaries : b.at < c.at => Slices!Earlier(b, c)
  /\ \A b, c \in SliceBoundaries : b # c => Slices!Earlier(b, c) \/ Slices!Earlier(c, b)
  /\ \A b, c, d \in SliceBoundaries : Slices!Earlier(b, c) /\ Slices!Earlier(c, d) => Slices!Earlier(b, d)
  <1>1. \A b \in SliceBoundaries : b.at \in Nat /\ b.multiplier \in Nat /\ b.paused \in BOOLEAN
    BY DEF SliceBoundaries
  <1>2. \A b, c \in SliceBoundaries :
          b.at = c.at /\ b.multiplier = c.multiplier /\ b.paused = c.paused => b = c
    BY DEF SliceBoundaries
  <1> QED
    BY <1>1, <1>2 DEF Slices!Earlier

LEMMA LatestIs ==
  ASSUME NEW B \in SUBSET SliceBoundaries, NEW b \in B, \A c \in B \ {b} : Slices!Earlier(c, b)
  PROVE  Slices!Latest(B) = b
  <1>1. \A d \in B : (\A c \in B \ {d} : Slices!Earlier(c, d)) => d = b
    BY EarlierOrders
  <1> QED
    BY <1>1 DEF Slices!Latest

LEMMA LatestExists ==
  ASSUME NEW B \in SUBSET SliceBoundaries, IsFiniteSet(B), B # {}
  PROVE  /\ Slices!Latest(B) \in B
         /\ \A c \in B \ {Slices!Latest(B)} : Slices!Earlier(c, Slices!Latest(B))
  <1> DEFINE Has(s) == s # {} => \E b \in s : \A c \in s \ {b} : Slices!Earlier(c, b)
             T == {s \in SUBSET B : Has(s)}
  <1>1. ASSUME NEW s \in SUBSET B, \A r \in SUBSET s : r # s => r \in T
        PROVE  s \in T
    <2>1. CASE s = {}
      BY <2>1
    <2>2. CASE s # {}
      <3>1. PICK d \in s : TRUE
        BY <2>2
      <3>2. Has(s \ {d})
        <4>1. s \ {d} \in SUBSET s /\ s \ {d} # s
          BY <3>1
        <4>2. s \ {d} \in T
          BY <1>1, <4>1
        <4> QED
          BY <4>2
      <3>3. CASE s \ {d} = {}
        <4>1. \A c \in s \ {d} : Slices!Earlier(c, d)
          BY <3>3
        <4> QED
          BY <3>1, <4>1
      <3>4. CASE s \ {d} # {}
        <4>1. PICK b \in s \ {d} : \A c \in (s \ {d}) \ {b} : Slices!Earlier(c, b)
          BY <3>2, <3>4
        <4>2. b \in SliceBoundaries /\ d \in SliceBoundaries /\ \A c \in s : c \in SliceBoundaries
          BY <3>1, <4>1
        <4>3. CASE Slices!Earlier(d, b)
          <5>1. \A c \in s \ {b} : Slices!Earlier(c, b)
            BY <4>1, <4>3
          <5> QED
            BY <4>1, <5>1
        <4>4. CASE Slices!Earlier(b, d)
          <5>1. \A c \in s \ {d} : Slices!Earlier(c, d)
            BY <4>1, <4>2, <4>4, EarlierOrders
          <5> QED
            BY <3>1, <5>1
        <4> QED
          BY <4>1, <4>2, <4>3, <4>4, EarlierOrders
      <3> QED
        BY <3>3, <3>4
    <2> QED
      BY <2>1, <2>2
  <1> HIDE DEF T
  <1>2. \A s \in SUBSET B : s \in T
    BY <1>1, SubsetInduction
  <1>3. \E b \in B : \A c \in B \ {b} : Slices!Earlier(c, b)
    BY <1>2 DEF T
  <1> QED
    BY <1>3 DEF Slices!Latest

\* The earliest of the times there are, or the end.
LEMMA UntilIs ==
  ASSUME NEW B \in SUBSET SliceBoundaries, NEW end \in Nat, NEW x \in {end} \cup {b.at : b \in B},
         x <= end, \A b \in B : x <= b.at
  PROVE  Slices!Until(B, end) = x
  <1>1. \A b \in B : b.at \in Nat
    BY DEF SliceBoundaries
  <1>2. PICK A \in SUBSET Nat : A = {end} \cup {b.at : b \in B}
    BY <1>1
  <1>3. \A y \in A : x <= y
    BY <1>2
  <1>4. x \in A /\ \A y \in A : (\A z \in A : y <= z) => y = x
    BY <1>2, <1>3
  <1> QED
    BY <1>2, <1>3, <1>4 DEF Slices!Until, Slices!Min

LEMMA UntilExists ==
  ASSUME NEW B \in SUBSET SliceBoundaries, IsFiniteSet(B), NEW end \in Nat
  PROVE  /\ Slices!Until(B, end) \in {end} \cup {b.at : b \in B} /\ Slices!Until(B, end) \in Nat
         /\ Slices!Until(B, end) <= end
         /\ \A b \in B : Slices!Until(B, end) <= b.at
  <1>1. \A b \in B : b.at \in Nat
    BY DEF SliceBoundaries
  <1>2. PICK A : A = {b.at : b \in B}
    OBVIOUS
  <1>3. IsFiniteSet(A)
    <2> DEFINE f == [b \in B |-> b.at]
    <2>1. f \in [B -> A] /\ \A a \in A : \E b \in B : f[b] = a
      BY <1>2
    <2> HIDE DEF f
    <2>2. f \in Surjection(B, A)
      BY <2>1 DEF Surjection
    <2> QED
      BY <2>2, FS_Surjection
  <1>4. PICK C : C = A \cup {end}
    OBVIOUS
  <1>5. IsFiniteSet(C)
    BY <1>3, <1>4, FS_AddElement
  <1>6. C \subseteq Nat /\ C \subseteq Int /\ C # {}
    BY <1>1, <1>2, <1>4
  <1>7. \E m \in C : \A y \in C : m <= y
    BY <1>5, <1>6, LeastExists
  <1>8. C = {end} \cup {b.at : b \in B}
    BY <1>2, <1>4
  <1>9. Slices!Until(B, end) \in C /\ \A y \in C : Slices!Until(B, end) <= y
    BY <1>7, <1>8 DEF Slices!Until, Slices!Min
  <1> QED
    BY <1>6, <1>8, <1>9


\* Boundaries at or after the end of a window do not shorten a slice that one in it ends.
LEMMA UntilJoins ==
  ASSUME NEW H \in SUBSET SliceBoundaries, IsFiniteSet(H), H # {}, NEW W \in SUBSET SliceBoundaries,
         NEW mid \in Nat, NEW end \in Nat, mid <= end,
         \A b \in H : b.at < mid, \A b \in W : mid <= b.at
  PROVE  Slices!Until(H \cup W, end) = Slices!Until(H, mid)
  <1>1. PICK x \in Nat : x = Slices!Until(H, mid)
    BY UntilExists
  <1>2. x \in {mid} \cup {b.at : b \in H} /\ \A b \in H : x <= b.at
    BY <1>1, UntilExists
  <1>3. \A b \in H \cup W : b.at \in Nat
    BY DEF SliceBoundaries
  <1>4. x < mid
    <2>1. PICK b \in H : TRUE
      OBVIOUS
    <2> QED
      BY <1>2, <1>3, <2>1
  <1>5. x \in {end} \cup {b.at : b \in H \cup W}
    BY <1>2, <1>4
  <1>6. x <= end /\ \A b \in H \cup W : x <= b.at
    BY <1>2, <1>3, <1>4
  <1>7. H \cup W \in SUBSET SliceBoundaries
    OBVIOUS
  <1> QED
    BY <1>1, <1>5, <1>6, <1>7, UntilIs

LEMMA SliceSumsAgree ==
  ASSUME NEW f, NEW S
  PROVE  Slices!SumFunctionOnSet(f, S) = SumFunctionOnSet(f, S)
  BY DEF Slices!SumFunctionOnSet, SumFunctionOnSet, Slices!FoldFunctionOnSet, FoldFunctionOnSet,
         Slices!MapThenFoldSet, MapThenFoldSet

\* The slices of boundaries B, one for each.
SliceOf(B, end) ==
  [b \in B |-> Slices!SliceWork(b.at, Slices!Until({c \in B : Slices!Earlier(b, c)}, end), b.multiplier, b.paused)]

LEMMA SlicesAre ==
  ASSUME NEW from, NEW m, NEW p, NEW B, NEW end
  PROVE  Slices!Slices(from, m, p, B, end)
           = Slices!SliceWork(from, Slices!Until(B, end), m, p) + SumFunctionOnSet(SliceOf(B, end), B)
  BY SliceSumsAgree DEF Slices!Slices, SliceOf

LEMMA SliceOfIsInt ==
  ASSUME Parts = 1, NEW B \in SUBSET SliceBoundaries, IsFiniteSet(B), NEW end \in Nat
  PROVE  \A b \in B : SliceOf(B, end)[b] \in Int
  <1> SUFFICES ASSUME NEW b \in B PROVE SliceOf(B, end)[b] \in Int
    OBVIOUS
  <1>1. PICK C : C = {c \in B : Slices!Earlier(b, c)}
    OBVIOUS
  <1>2. C \in SUBSET SliceBoundaries
    BY <1>1
  <1>3. IsFiniteSet(C)
    BY <1>1, FS_Subset
  <1>4. Slices!Until(C, end) \in Nat
    BY <1>2, <1>3, UntilExists
  <1>5. b.at \in Nat /\ b.multiplier \in Nat /\ b.paused \in BOOLEAN
    BY DEF SliceBoundaries
  <1> QED
    BY <1>1, <1>4, <1>5, SliceWorkAdds DEF SliceOf

\* H are boundaries before mid, W those from mid on.
Split(H, W, mid, end) ==
  /\ H \subseteq SliceBoundaries /\ W \subseteq SliceBoundaries
  /\ IsFiniteSet(H) /\ IsFiniteSet(W)
  /\ mid \in Nat /\ end \in Nat /\ mid <= end
  /\ \A b \in H : b.at < mid
  /\ \A b \in W : mid <= b.at

LEMMA SplitOrders ==
  ASSUME NEW H, NEW W, NEW mid, NEW end, Split(H, W, mid, end)
  PROVE  /\ H \cap W = {}
         /\ \A b \in H, c \in W : Slices!Earlier(b, c) /\ ~Slices!Earlier(c, b)
         /\ \A b \in H \cup W : b \in SliceBoundaries /\ b.at \in Nat /\ b.multiplier \in Nat /\ b.paused \in BOOLEAN
  <1>1. \A b \in H \cup W : b \in SliceBoundaries /\ b.at \in Nat /\ b.multiplier \in Nat /\ b.paused \in BOOLEAN
    BY DEF Split, SliceBoundaries
  <1>2. \A b \in H, c \in W : b.at < c.at
    BY <1>1 DEF Split
  <1>3. \A b \in H, c \in W : Slices!Earlier(b, c) /\ ~Slices!Earlier(c, b)
    BY <1>1, <1>2, EarlierOrders
  <1>4. H \cap W = {}
    BY <1>1, <1>2
  <1> QED
    BY <1>1, <1>3, <1>4

\* The slices of the late boundaries are the same without the early ones, ...
LEMMA LateSlices ==
  ASSUME NEW H, NEW W, NEW mid, NEW end, Split(H, W, mid, end), NEW b \in W
  PROVE  SliceOf(H \cup W, end)[b] = SliceOf(W, end)[b]
  <1>1. {c \in H \cup W : Slices!Earlier(b, c)} = {c \in W : Slices!Earlier(b, c)}
    BY SplitOrders
  <1> QED
    BY <1>1 DEF SliceOf

\* ... and so are those of the early boundaries without the late ones, ...
LEMMA EarlySlices ==
  ASSUME NEW H, NEW W, NEW mid, NEW end, Split(H, W, mid, end), NEW b \in H, b # Slices!Latest(H)
  PROVE  SliceOf(H \cup W, end)[b] = SliceOf(H, mid)[b]
  <1>1. PICK C : C = {c \in H : Slices!Earlier(b, c)}
    OBVIOUS
  <1>2. {c \in H \cup W : Slices!Earlier(b, c)} = C \cup W
    BY <1>1, SplitOrders
  <1>3. C # {}
    <2>1. H \in SUBSET SliceBoundaries /\ IsFiniteSet(H) /\ H # {}
      BY DEF Split
    <2>2. Slices!Latest(H) \in H /\ Slices!Earlier(b, Slices!Latest(H))
      BY <2>1, LatestExists
    <2> QED
      BY <1>1, <2>2
  <1>4. IsFiniteSet(C)
    BY <1>1, FS_Subset DEF Split
  <1>5. C \in SUBSET SliceBoundaries /\ W \in SUBSET SliceBoundaries /\ mid \in Nat /\ end \in Nat /\ mid <= end
        /\ (\A c \in C : c.at < mid) /\ (\A c \in W : mid <= c.at)
    BY <1>1 DEF Split
  <1>6. Slices!Until(C \cup W, end) = Slices!Until(C, mid)
    BY <1>3, <1>4, <1>5, UntilJoins
  <1> QED
    BY <1>1, <1>2, <1>6 DEF SliceOf

\* ... but for the latest of them, which lasts into the second window.
LEMMA LastSlice ==
  ASSUME Parts = 1, NEW H, NEW W, NEW mid, NEW end, Split(H, W, mid, end), NEW b \in H, b = Slices!Latest(H)
  PROVE  SliceOf(H \cup W, end)[b] =
           SliceOf(H, mid)[b] + Slices!SliceWork(mid, Slices!Until(W, end), b.multiplier, b.paused)
  <1>1. H \in SUBSET SliceBoundaries /\ IsFiniteSet(H) /\ H # {}
    BY DEF Split
  <1>2. \A c \in H \ {b} : Slices!Earlier(c, b)
    BY <1>1, LatestExists
  <1>3. b \in SliceBoundaries /\ (\A c \in H : c \in SliceBoundaries)
    BY <1>1
  <1>4. \A c \in H : ~Slices!Earlier(b, c)
    BY <1>2, <1>3, EarlierOrders
  <1>5. {c \in H : Slices!Earlier(b, c)} = {} /\ {c \in H \cup W : Slices!Earlier(b, c)} = W
    BY <1>4, SplitOrders
  <1>6. mid \in Nat /\ end \in Nat /\ W \in SUBSET SliceBoundaries /\ IsFiniteSet(W)
    BY DEF Split
  <1>7. {} \in SUBSET SliceBoundaries /\ mid \in {mid} \cup {c.at : c \in {}} /\ mid <= mid /\ \A c \in {} : mid <= c.at
    BY <1>6
  <1>8. Slices!Until({}, mid) = mid
    BY <1>6, <1>7, UntilIs
  <1>9. Slices!Until(W, end) \in Nat
    BY <1>6, UntilExists
  <1>10. b.at \in Nat /\ b.multiplier \in Nat /\ b.paused \in BOOLEAN
    BY SplitOrders
  <1>11. Slices!SliceWork(b.at, Slices!Until(W, end), b.multiplier, b.paused)
           = Slices!SliceWork(b.at, mid, b.multiplier, b.paused)
             + Slices!SliceWork(mid, Slices!Until(W, end), b.multiplier, b.paused)
    <2>1. PICK a \in Nat, u \in Nat, m \in Nat, p \in BOOLEAN :
            a = b.at /\ u = Slices!Until(W, end) /\ m = b.multiplier /\ p = b.paused
      BY <1>9, <1>10
    <2>2. Slices!SliceWork(a, u, m, p) = Slices!SliceWork(a, mid, m, p) + Slices!SliceWork(mid, u, m, p)
      BY <1>6, SliceWorkAdds
    <2> QED
      BY <2>1, <2>2
  <1>12. SliceOf(H \cup W, end)[b] = Slices!SliceWork(b.at, Slices!Until(W, end), b.multiplier, b.paused)
    BY <1>5 DEF SliceOf
  <1>13. SliceOf(H, mid)[b] = Slices!SliceWork(b.at, mid, b.multiplier, b.paused)
    BY <1>5, <1>8 DEF SliceOf
  <1> QED
    BY <1>11, <1>12, <1>13

\* Two windows one after the other are worth what one window over both is.
LEMMA SlicesJoin ==
  ASSUME Parts = 1, NEW H, NEW W, NEW mid, NEW end, Split(H, W, mid, end),
         NEW from \in Nat, NEW m \in Nat, NEW p \in BOOLEAN
  PROVE  Slices!Slices(from, m, p, H \cup W, end) =
           Slices!Slices(from, m, p, H, mid)
             + Slices!Slices(mid, AfterAll(H, m, p)[1], AfterAll(H, m, p)[2], W, end)
  <1>1. /\ H \in SUBSET SliceBoundaries /\ W \in SUBSET SliceBoundaries /\ IsFiniteSet(H) /\ IsFiniteSet(W)
        /\ mid \in Nat /\ end \in Nat /\ H \cup W \in SUBSET SliceBoundaries
    BY DEF Split
  <1>2. IsFiniteSet(H \cup W)
    BY <1>1, FS_Union
  <1>3. PICK J : J = H \cup W
    OBVIOUS
  <1>4. PICK f : f = SliceOf(J, end)
    OBVIOUS
  <1>5. PICK g : g = SliceOf(H, mid)
    OBVIOUS
  <1>6. PICK h : h = SliceOf(W, end)
    OBVIOUS
  <1>7. /\ \A b \in J : f[b] \in Int
        /\ \A b \in H : g[b] \in Int
        /\ \A b \in W : h[b] \in Int
    <2>1. \A b \in J : f[b] \in Int
      BY <1>1, <1>2, <1>3, <1>4, SliceOfIsInt
    <2>2. \A b \in H : g[b] \in Int
      BY <1>1, <1>5, SliceOfIsInt
    <2>3. \A b \in W : h[b] \in Int
      BY <1>1, <1>6, SliceOfIsInt
    <2> QED
      BY <2>1, <2>2, <2>3
  <1>8. PICK u \in Nat : u = Slices!Until(W, end)
    BY <1>1, UntilExists
  <1>9. PICK x \in Int : x = SumFunctionOnSet(f, W)
    BY <1>1, <1>3, <1>7, SumInt
  <1>10. SumFunctionOnSet(h, W) = x
    <2>1. \A b \in W : f[b] = h[b]
      BY <1>3, <1>4, <1>6, LateSlices
    <2> QED
      BY <1>1, <1>9, <2>1, SumSame
  <1>11. CASE H = {}
    <2>1. AfterAll(H, m, p) = <<m, p>>
      BY <1>11 DEF AfterAll
    <2>2. J = W
      BY <1>3, <1>11
    <2>3. Slices!Until({}, mid) = mid
      <3>1. {} \in SUBSET SliceBoundaries /\ mid \in {mid} \cup {c.at : c \in {}} /\ mid <= mid /\ \A c \in {} : mid <= c.at
        BY <1>1
      <3> QED
        BY <1>1, <3>1, UntilIs
    <2>4. SumFunctionOnSet(g, {}) = 0
      BY SumEmpty
    <2>5. PICK y \in Int : y = Slices!SliceWork(from, mid, m, p)
      BY <1>1, SliceWorkAdds
    <2>6. PICK z \in Int : z = Slices!SliceWork(mid, u, m, p)
      BY <1>1, SliceWorkAdds
    <2>7. Slices!SliceWork(from, u, m, p) = y + z
      BY <1>1, <2>5, <2>6, SliceWorkAdds
    <2>8. Slices!Slices(from, m, p, J, end) = (y + z) + x
      BY <1>4, <1>8, <1>9, <2>2, <2>7, SlicesAre
    <2>9. Slices!Slices(from, m, p, H, mid) = y + 0
      BY <1>5, <1>11, <2>3, <2>4, <2>5, SlicesAre
    <2>10. Slices!Slices(mid, m, p, W, end) = z + x
      BY <1>6, <1>8, <1>10, <2>6, SlicesAre
    <2>11. (y + z) + x = (y + 0) + (z + x)
      OBVIOUS
    <2>12. AfterAll(H, m, p)[1] = m /\ AfterAll(H, m, p)[2] = p
      BY <2>1
    <2> QED
      BY <1>3, <2>8, <2>9, <2>10, <2>11, <2>12
  <1>12. CASE H # {}
    <2>1. PICK b \in H : b = Slices!Latest(H)
      BY <1>1, <1>12, LatestExists
    <2>2. AfterAll(H, m, p)[1] = b.multiplier /\ AfterAll(H, m, p)[2] = b.paused
      BY <1>12, <2>1 DEF AfterAll
    <2>3. b.multiplier \in Nat /\ b.paused \in BOOLEAN
      BY SplitOrders
    <2>4. PICK z \in Int : z = Slices!SliceWork(mid, u, b.multiplier, b.paused)
      <3>1. PICK k \in Nat, q \in BOOLEAN : k = b.multiplier /\ q = b.paused
        BY <2>3
      <3>2. Slices!SliceWork(mid, u, k, q) \in Int
        BY <1>1, SliceWorkAdds
      <3> QED
        BY <3>1, <3>2
    <2>5. f[b] = g[b] + z
      BY <1>3, <1>4, <1>5, <1>8, <2>1, <2>4, LastSlice
    <2>6. \A c \in H \ {b} : f[c] = g[c]
      BY <1>3, <1>4, <1>5, <2>1, EarlySlices
    <2>7. PICK a \in Int : a = SumFunctionOnSet(g, H)
      BY <1>1, <1>7, SumInt
    <2>8. SumFunctionOnSet(f, H) = a + z
      <3>1. \A c \in H : g[c] \in Int /\ f[c] \in Int
        BY <1>3, <1>7
      <3>2. SumFunctionOnSet(f, H) = SumFunctionOnSet(g, H) + (f[b] - g[b])
        BY <1>1, <2>6, <3>1, SumUpdate
      <3>3. g[b] \in Int
        BY <1>7
      <3> QED
        BY <2>5, <2>7, <3>2, <3>3
    <2>9. SumFunctionOnSet(f, J) = (a + z) + x
      <3>1. H \cap W = {}
        BY SplitOrders
      <3>2. \A c \in H \cup W : f[c] \in Int
        BY <1>3, <1>7
      <3>3. SumFunctionOnSet(f, H \cup W) = SumFunctionOnSet(f, H) + SumFunctionOnSet(f, W)
        BY <1>1, <3>1, <3>2, SumUnion
      <3> QED
        BY <1>3, <1>9, <2>8, <3>3
    <2>10. Slices!Until(J, end) = Slices!Until(H, mid)
      BY <1>1, <1>3, <1>12, UntilJoins DEF Split
    <2>11. PICK y \in Int : y = Slices!SliceWork(from, Slices!Until(H, mid), m, p)
      <3>1. Slices!Until(H, mid) \in Nat
        BY <1>1, UntilExists
      <3> QED
        BY <3>1, SliceWorkAdds
    <2>12. Slices!Slices(from, m, p, J, end) = y + ((a + z) + x)
      BY <1>4, <2>9, <2>10, <2>11, SlicesAre
    <2>13. Slices!Slices(from, m, p, H, mid) = y + a
      BY <1>5, <2>7, <2>11, SlicesAre
    <2>14. Slices!Slices(mid, b.multiplier, b.paused, W, end) = z + x
      BY <1>6, <1>8, <1>10, <2>4, SlicesAre
    <2>15. y + ((a + z) + x) = (y + a) + (z + x)
      OBVIOUS
    <2> QED
      BY <1>3, <2>2, <2>12, <2>13, <2>14, <2>15
  <1> QED
    BY <1>11, <1>12

LEMMA AfterBoth ==
  ASSUME NEW H, NEW W, NEW mid, NEW end, Split(H, W, mid, end), NEW m, NEW p
  PROVE  AfterAll(H \cup W, m, p) = AfterAll(W, AfterAll(H, m, p)[1], AfterAll(H, m, p)[2])
  <1>1. CASE W = {}
    <2>1. H \cup W = H
      BY <1>1
    <2>2. AfterAll(H, m, p) = <<AfterAll(H, m, p)[1], AfterAll(H, m, p)[2]>>
      BY DEF AfterAll
    <2> QED
      BY <1>1, <2>1, <2>2 DEF AfterAll
  <1>2. CASE W # {}
    <2>1. W \in SUBSET SliceBoundaries /\ IsFiniteSet(W) /\ H \cup W \in SUBSET SliceBoundaries
      BY DEF Split
    <2>2. PICK b \in W : b = Slices!Latest(W)
      BY <1>2, <2>1, LatestExists
    <2>3. \A c \in W \ {b} : Slices!Earlier(c, b)
      BY <1>2, <2>1, <2>2, LatestExists
    <2>4. \A c \in (H \cup W) \ {b} : Slices!Earlier(c, b)
      BY <2>3, SplitOrders
    <2>5. Slices!Latest(H \cup W) = b
      BY <2>1, <2>4, LatestIs
    <2> QED
      BY <1>2, <2>2, <2>5 DEF AfterAll
  <1> QED
    BY <1>1, <1>2

LEMMA SlicesInit ==
  ASSUME Parts = 1, Slices!Init
  PROVE  SlicesInv
  <1>1. processed = 0 /\ multiplier = 1 /\ paused = FALSE /\ pending = {} /\ done = 0 /\ Heard = {}
    BY DEF Slices!Init, Heard
  <1>2. Past = {}
    BY <1>1 DEF Past
  <1>3. AfterAll(Past, 1, Off) = <<multiplier, paused>>
    BY <1>1, <1>2 DEF AfterAll, Off
  <1>4. Slices!Until({}, 0) = 0
    <2>1. {} \in SUBSET SliceBoundaries /\ 0 \in {0} \cup {c.at : c \in {}} /\ 0 <= 0 /\ \A c \in {} : 0 <= c.at
      OBVIOUS
    <2> QED
      BY <2>1, UntilIs
  <1>5. Slices!SliceWork(0, 0, 1, Off) = 0
    BY SliceWorkAdds DEF Off
  <1>6. Slices!Slices(0, 1, Off, {}, 0) = 0 + 0
    BY <1>4, <1>5, SlicesAre, SumEmpty
  <1>7. done = Slices!Slices(0, 1, Off, Past, processed)
    BY <1>1, <1>2, <1>6
  <1>8. IsFiniteSet(pending) /\ IsFiniteSet(Heard)
    BY <1>1, FS_EmptySet
  <1>9. pending \subseteq SliceBoundaries /\ Heard \subseteq SliceBoundaries
        /\ \A b : b \in Heard /\ b.at >= processed <=> b \in pending /\ b.at >= processed
    BY <1>1
  <1>10. processed \in Nat /\ multiplier \in Nat /\ paused \in BOOLEAN
    BY <1>1
  <1> QED
    BY <1>3, <1>7, <1>8, <1>9, <1>10 DEF SlicesInv

\* A boundary event does not change what was processed.
LEMMA AddsStep ==
  ASSUME Multipliers \subseteq Nat \ {0}, SlicesInv, NEW told \in Slices!Event,
         Slices!ApplyBoundaryEvent(told), Agreed'
  PROVE  SlicesInv'
  <1>1. PICK boundary : boundary = Slices!Filled(told, multiplier, paused)
    OBVIOUS
  <1>2. PICK h : h = [said |-> told, boundary |-> boundary]
    OBVIOUS
  <1>3. /\ pending' = pending \cup {boundary}
        /\ history' = IF told.at >= processed THEN history \cup {h} ELSE history
        /\ UNCHANGED <<processed, multiplier, paused, done>>
    BY <1>1, <1>2 DEF Slices!ApplyBoundaryEvent
  <1>4. /\ told.at \in Nat
        /\ told.multiplier = None \/ told.multiplier \in Nat
        /\ told.paused = None \/ told.paused \in BOOLEAN
    <2>1. /\ told.at \in Slices!Times
          /\ told.multiplier \in Multipliers \cup {None}
          /\ told.paused \in BOOLEAN \cup {None}
      BY Zenon DEF Slices!Event
    <2>2. told.at \in Nat
      BY <2>1 DEF Slices!Times
    <2>3. told.multiplier = None \/ told.multiplier \in Nat
      BY <2>1
    <2> QED
      BY <2>1, <2>2, <2>3, Zenon
  <1>5. boundary \in SliceBoundaries /\ boundary.at = told.at
    BY <1>1, <1>4 DEF SlicesInv, SliceBoundaries, Slices!Filled
  <1>6. Heard' = IF told.at >= processed THEN Heard \cup {boundary} ELSE Heard
    <2>1. CASE told.at >= processed
      <3>1. h \in history' /\ h.boundary = boundary /\ h.said = told
        BY <1>2, <1>3, <2>1
      <3>2. boundary = Slices!Filled(told, 1, Off)
        BY <3>1 DEF Agreed
      <3> QED
        BY <1>3, <2>1, <3>1, <3>2 DEF Heard
    <2>2. CASE ~(told.at >= processed)
      BY <1>3, <2>2 DEF Heard
    <2> QED
      BY <2>1, <2>2
  <1>7. boundary.at \in Nat /\ processed \in Nat
    BY <1>4, <1>5 DEF SlicesInv
  <1>8. Past' = Past
    BY <1>3, <1>5, <1>6, <1>7 DEF Past
  <1>9. IsFiniteSet(pending') /\ IsFiniteSet(Heard')
    BY <1>3, <1>6, FS_AddElement DEF SlicesInv
  <1>10. \A b : b \in Heard' /\ b.at >= processed <=> b \in pending' /\ b.at >= processed
    BY <1>3, <1>5, <1>6 DEF SlicesInv
  <1>11. pending' \subseteq SliceBoundaries /\ Heard' \subseteq SliceBoundaries
    BY <1>3, <1>5, <1>6 DEF SlicesInv
  <1>12. processed' = processed /\ multiplier' = multiplier /\ paused' = paused /\ done' = done
    BY <1>3
  <1> QED
    BY <1>8, <1>9, <1>10, <1>11, <1>12 DEF SlicesInv

\* A tick takes the boundaries of its window, and those are the ones Heard has there.
LEMMA TickStep ==
  ASSUME Parts = 1, SlicesInv, NEW end \in Nat, Slices!ProcessTick(end)
  PROVE  SlicesInv'
  <1>1. PICK W : W = Slices!Window(end)
    OBVIOUS
  <1>2. /\ end > processed
        /\ done' = done + Slices!Slices(processed, multiplier, paused, W, end)
        /\ processed' = end
        /\ pending' = {b \in pending : b.at >= end}
        /\ multiplier' = IF W = {} THEN multiplier ELSE Slices!Latest(W).multiplier
        /\ paused' = IF W = {} THEN paused ELSE Slices!Latest(W).paused
        /\ Heard' = Heard
    BY <1>1 DEF Slices!ProcessTick, Heard
  <1>3. W = {b \in pending : processed <= b.at /\ b.at < end}
    BY <1>1 DEF Slices!Window
  <1>4. /\ processed \in Nat /\ multiplier \in Nat /\ paused \in BOOLEAN
        /\ pending \subseteq SliceBoundaries /\ Heard \subseteq SliceBoundaries
        /\ IsFiniteSet(pending) /\ IsFiniteSet(Heard)
    BY DEF SlicesInv
  <1>5. \A b \in pending \cup Heard : b.at \in Nat /\ b.multiplier \in Nat /\ b.paused \in BOOLEAN
    BY <1>4 DEF SliceBoundaries
  <1>6. \A b : b \in Heard /\ b.at >= processed <=> b \in pending /\ b.at >= processed
    BY DEF SlicesInv
  <1>7. W = {b \in Heard : processed <= b.at /\ b.at < end}
    BY <1>3, <1>4, <1>5, <1>6
  <1>8. Past' = Past \cup W
    <2>1. Past' = {b \in Heard : b.at < end}
      BY <1>2 DEF Past
    <2> QED
      BY <1>2, <1>4, <1>5, <1>7, <2>1 DEF Past
  <1>9. IsFiniteSet(Past) /\ IsFiniteSet(W)
    <2>1. Past \in SUBSET Heard /\ W \in SUBSET Heard
      BY <1>7 DEF Past
    <2> QED
      BY <1>4, <2>1, FS_Subset
  <1>10. Split(Past, W, processed, end)
    BY <1>2, <1>4, <1>7, <1>9 DEF Split, Past
  <1>11. AfterAll(Past, 1, Off)[1] = multiplier /\ AfterAll(Past, 1, Off)[2] = paused
    <2>1. AfterAll(Past, 1, Off) = <<multiplier, paused>>
      BY DEF SlicesInv
    <2> QED
      BY <2>1
  <1>12. AfterAll(Past', 1, Off) = <<multiplier', paused'>>
    <2>1. AfterAll(Past \cup W, 1, Off) = AfterAll(W, multiplier, paused)
      <3>1. PICK H, mid : H = Past /\ mid = processed
        OBVIOUS
      <3>2. Split(H, W, mid, end)
        BY <1>10, <3>1
      <3>3. AfterAll(H \cup W, 1, Off) = AfterAll(W, AfterAll(H, 1, Off)[1], AfterAll(H, 1, Off)[2])
        BY <3>2, AfterBoth
      <3> QED
        BY <1>11, <3>1, <3>3
    <2>2. AfterAll(W, multiplier, paused) = <<multiplier', paused'>>
      BY <1>2 DEF AfterAll
    <2> QED
      BY <1>8, <2>1, <2>2
  <1>13. done' = Slices!Slices(0, 1, Off, Past', processed')
    <2>1. Slices!Slices(0, 1, Off, Past \cup W, end) =
            Slices!Slices(0, 1, Off, Past, processed) + Slices!Slices(processed, multiplier, paused, W, end)
      <3>1. PICK H, mid : H = Past /\ mid = processed
        OBVIOUS
      <3>2. Split(H, W, mid, end)
        BY <1>10, <3>1
      <3>3. Slices!Slices(0, 1, Off, H \cup W, end) =
              Slices!Slices(0, 1, Off, H, mid)
                + Slices!Slices(mid, AfterAll(H, 1, Off)[1], AfterAll(H, 1, Off)[2], W, end)
        <4>1. 0 \in Nat /\ 1 \in Nat /\ Off \in BOOLEAN
          BY DEF Off
        <4> QED
          BY <3>2, <4>1, SlicesJoin
      <3> QED
        BY <1>11, <3>1, <3>3
    <2>2. done = Slices!Slices(0, 1, Off, Past, processed)
      BY DEF SlicesInv
    <2> QED
      BY <1>2, <1>8, <2>1, <2>2
  <1>14. multiplier' \in Nat /\ paused' \in BOOLEAN
    <2>1. CASE W = {}
      BY <1>2, <1>4, <2>1
    <2>2. CASE W # {}
      <3>1. Slices!Latest(W) \in W
        BY <1>4, <1>7, <1>9, <2>2, LatestExists
      <3> QED
        BY <1>2, <1>3, <1>5, <2>2, <3>1
    <2> QED
      BY <2>1, <2>2
  <1>15. \A b : b \in Heard' /\ b.at >= processed' <=> b \in pending' /\ b.at >= processed'
    BY <1>2, <1>4, <1>5, <1>6
  <1>16. pending' \subseteq SliceBoundaries /\ Heard' \subseteq SliceBoundaries /\ processed' \in Nat
         /\ IsFiniteSet(pending') /\ IsFiniteSet(Heard')
    <2>1. pending' \in SUBSET pending
      BY <1>2
    <2>2. IsFiniteSet(pending')
      BY <1>4, <2>1, FS_Subset
    <2> QED
      BY <1>2, <1>4, <2>1, <2>2
  <1> QED
    BY <1>12, <1>13, <1>14, <1>15, <1>16 DEF SlicesInv

\* Events are never forgotten: those that agree after a step agreed before it.
LEMMA AgreedBefore ==
  ASSUME [Slices!Next]_sliceVars, Agreed'
  PROVE  Agreed
  <1>1. history \subseteq history'
    <2>1. ASSUME NEW told, Slices!ApplyBoundaryEvent(told)
          PROVE  history \subseteq history'
      BY <2>1 DEF Slices!ApplyBoundaryEvent
    <2>2. ASSUME NEW end, Slices!ProcessTick(end)
          PROVE  history \subseteq history'
      BY <2>2 DEF Slices!ProcessTick
    <2>3. CASE UNCHANGED sliceVars
      BY <2>3 DEF sliceVars
    <2> QED
      BY <2>1, <2>2, <2>3 DEF Slices!Next, Slices!Pause, Slices!Resume, Slices!Change
  <1> QED
    BY <1>1 DEF Agreed

LEMMA SlicesStep ==
  ASSUME Parts = 1, Multipliers \subseteq Nat \ {0}, Agreed => SlicesInv, [Slices!Next]_sliceVars
  PROVE  Agreed' => SlicesInv'
  <1> SUFFICES ASSUME Agreed'
               PROVE  SlicesInv'
    OBVIOUS
  <1>1. SlicesInv
    BY AgreedBefore
  <1>2. ASSUME NEW at \in Slices!Times, NEW m \in Multipliers \cup {None}, NEW p \in BOOLEAN \cup {None},
               Slices!ApplyBoundaryEvent([at |-> at, multiplier |-> m, paused |-> p])
        PROVE  SlicesInv'
    <2>1. [at |-> at, multiplier |-> m, paused |-> p] \in Slices!Event
      BY DEF Slices!Event
    <2> QED
      BY <1>1, <1>2, <2>1, AddsStep
  <1>3. ASSUME NEW at \in Slices!Times, Slices!Pause(at) \/ Slices!Resume(at)
        PROVE  SlicesInv'
    <2>1. PICK on \in BOOLEAN : Slices!ApplyBoundaryEvent([at |-> at, multiplier |-> None, paused |-> on])
      BY <1>3 DEF Slices!Pause, Slices!Resume
    <2> QED
      BY <1>2, <2>1
  <1>4. ASSUME NEW end \in Slices!Times, Slices!ProcessTick(end)
        PROVE  SlicesInv'
    <2>1. end \in Nat
      BY DEF Slices!Times
    <2> QED
      BY <1>1, <1>4, <2>1, TickStep
  <1>5. CASE UNCHANGED sliceVars
    <2>1. processed' = processed /\ multiplier' = multiplier /\ paused' = paused /\ pending' = pending
          /\ done' = done /\ history' = history
      BY <1>5 DEF sliceVars
    <2>2. Heard' = Heard
      BY <2>1 DEF Heard
    <2>3. Past' = Past
      BY <2>1, <2>2 DEF Past
    <2> QED
      BY <1>1, <2>1, <2>2, <2>3 DEF SlicesInv
  <1> QED
    BY <1>2, <1>3, <1>4, <1>5 DEF Slices!Next, Slices!Change

\* When times are whole seconds, however the ticks cut the time and whenever events became known,
\* the work credited is that of a replay of the same history, as long as the replay fills what
\* events leave unsaid with what they were filled with (mining/service.py:129-165, 213-249).
THEOREM ReplayKeepsParity ==
  ASSUME Parts = 1
  PROVE  Spec => []OnlyFillingBreaksParity
  <1> DEFINE Inv == Agreed => SlicesInv
  <1>1. Init => Inv
    BY SlicesInit DEF Init
  <1>2. Inv /\ [Next]_vars => Inv'
    BY ServicesAssumption, SlicesStep, Steps DEF ServicesAssumption, Slices!SlicesAssumption
  <1>3. Inv => OnlyFillingBreaksParity
    <2> SUFFICES ASSUME SlicesInv
                 PROVE  Slices!ReplayParity
      BY DEF Agreed, Off, OnlyFillingBreaksParity, Slices!OnlyFillingBreaksParity
    <2>1. Past = {Slices!Filled(h.said, 1, FALSE) : h \in {g \in history : g.said.at < processed}}
      <3>1. \A e : Slices!Filled(e, 1, Off).at = e.at
        BY DEF Slices!Filled
      <3>2. ASSUME NEW b
            PROVE  b \in Past <=> \E h \in history : b = Slices!Filled(h.said, 1, Off) /\ h.said.at < processed
        BY <3>1 DEF Past, Heard
      <3>3. ASSUME NEW b
            PROVE  b \in {Slices!Filled(h.said, 1, FALSE) : h \in {g \in history : g.said.at < processed}}
                     <=> \E h \in history : b = Slices!Filled(h.said, 1, Off) /\ h.said.at < processed
        BY DEF Off
      <3> QED
        BY <3>2, <3>3
    <2> QED
      BY <2>1 DEF SlicesInv, Off, Slices!ReplayParity, Slices!Replay
  <1> QED
    BY <1>1, <1>2, <1>3, PTL DEF Spec

-----------------------------------------------------------------------------
(* Types of the services whose own invariant leaves some out.  Names that    *)
(* end in Kinds are sets of records, the invariants end in Typed.            *)

ProfileKinds == [step : {"idle", "counted", "progressed", "computed"}, count : Nat,
                 hardware : Hardware, heat : Nat, now : Nat, last : Nat]

\* What a load has read is not newer than the clock and counts no block that is not there.
ProfileFits(l) ==
  /\ load[l].count <= blocks /\ load[l].heat <= MaxHeat
  /\ load[l].last <= load[l].now /\ load[l].now <= now

ProfilesTyped ==
  /\ now \in Nat /\ blocks \in Nat /\ count \in Nat /\ count <= blocks /\ tier \in 1 .. 3
  /\ hardware \in Hardware /\ heat \in Nat /\ heat <= MaxHeat /\ cached \in {Rate[h] : h \in Hardware}
  /\ last \in Nat /\ last <= now /\ work \in Nat /\ credited \in Nat
  /\ load \in [Loads -> ProfileKinds]
  /\ \A l \in Loads : ProfileFits(l)

LEMMA OfflineWorkIsNat ==
  ASSUME Profiles!ProfilesAssumption, NEW t \in ProfileKinds, t.last <= t.now
  PROVE  Profiles!OfflineWork(t) \in Nat
  <1>1. Profiles!TierOf(t.count) \in 1 .. 3
    BY DEF Profiles!TierOf
  <1>2. Cap[Profiles!TierOf(t.count)] \in Nat /\ Rate[t.hardware] \in Nat
    BY <1>1 DEF Profiles!ProfilesAssumption, ProfileKinds
  <1>3. PICK r \in Nat, d \in Nat : r = Rate[t.hardware] /\ d = t.now - t.last
    BY <1>2 DEF ProfileKinds
  <1>4. r * d \in Nat
    OBVIOUS
  <1> QED
    BY <1>2, <1>3, <1>4 DEF Profiles!OfflineWork, Profiles!Least

\* A load moves on, and nothing else changes.
LEMMA ProfileLoadMoves ==
  ASSUME ProfilesTyped, NEW l \in Loads, NEW t \in ProfileKinds, load' = [load EXCEPT ![l] = t],
         t.count <= blocks, t.heat <= MaxHeat, t.last <= t.now, t.now <= now,
         UNCHANGED <<now, blocks>>
  PROVE  load' \in [Loads -> ProfileKinds] /\ \A k \in Loads : ProfileFits(k)'
  <1>1. load' \in [Loads -> ProfileKinds]
    BY DEF ProfilesTyped
  <1>2. \A k \in Loads : load'[k] = IF k = l THEN t ELSE load[k]
    BY DEF ProfilesTyped
  <1> QED
    BY <1>1, <1>2 DEF ProfilesTyped, ProfileFits

LEMMA ProfilesTypedStep ==
  ASSUME Profiles!ProfilesAssumption, ProfilesTyped, [Profiles!Next]_profileVars
  PROVE  ProfilesTyped'
  <1> USE DEF Profiles!row
  <1>1. CASE Profiles!Tick
    BY <1>1 DEF Profiles!Tick, ProfilesTyped, ProfileFits, ProfileKinds
  <1>2. CASE Profiles!BlockFinalized
    BY <1>2 DEF Profiles!BlockFinalized, ProfilesTyped, ProfileFits, ProfileKinds
  <1>3. ASSUME NEW h \in Hardware, Profiles!HardwareInstalled(h) \/ Profiles!HardwareAssigned(h)
        PROVE  ProfilesTyped'
    BY <1>3 DEF Profiles!HardwareInstalled, Profiles!HardwareAssigned, ProfilesTyped, ProfileFits,
         Profiles!ProfilesAssumption
  <1>4. Profiles!Idle \in ProfileKinds /\ Profiles!Idle.count = 0 /\ Profiles!Idle.heat = 0
        /\ Profiles!Idle.now = 0 /\ Profiles!Idle.last = 0
    BY DEF Profiles!Idle, ProfileKinds, Profiles!ProfilesAssumption
  <1>5. ASSUME NEW l \in Loads, Profiles!CountsBlocks(l)
        PROVE  ProfilesTyped'
    <2>1. PICK t : t = [Profiles!Idle EXCEPT !.step = "counted", !.count = blocks]
      OBVIOUS
    <2>2. load' = [load EXCEPT ![l] = t] /\ UNCHANGED <<now, blocks, count, tier, hardware, heat, cached, last, work, credited>>
      BY <1>5, <2>1 DEF Profiles!CountsBlocks
    <2>3. t \in ProfileKinds /\ t.count = blocks /\ t.heat = 0 /\ t.now = 0 /\ t.last = 0
      BY <2>1, <1>4 DEF ProfilesTyped, ProfileKinds
    <2>4. load' \in [Loads -> ProfileKinds] /\ \A k \in Loads : ProfileFits(k)'
      <3>1. t.count <= blocks /\ t.heat <= MaxHeat /\ t.last <= t.now /\ t.now <= now
        BY <2>3 DEF ProfilesTyped, Profiles!ProfilesAssumption
      <3> QED
        BY <2>2, <2>3, <3>1, ProfileLoadMoves
    <2> QED
      BY <2>2, <2>4 DEF ProfilesTyped
  <1>6. ASSUME NEW l \in Loads, Profiles!WritesProgression(l)
        PROVE  ProfilesTyped'
    <2>1. PICK t : t = [load[l] EXCEPT !.step = "progressed"]
      OBVIOUS
    <2>2. load' = [load EXCEPT ![l] = t] /\ count' = load[l].count /\ tier' = Profiles!TierOf(load[l].count)
          /\ UNCHANGED <<now, blocks, hardware, heat, cached, last, work, credited>>
      BY <1>6, <2>1 DEF Profiles!WritesProgression
    <2>3. load[l] \in ProfileKinds /\ ProfileFits(l)
      BY DEF ProfilesTyped
    <2>4. t \in ProfileKinds /\ t.count = load[l].count /\ t.heat = load[l].heat /\ t.now = load[l].now /\ t.last = load[l].last
      BY <2>1, <2>3 DEF ProfileKinds
    <2>5. load' \in [Loads -> ProfileKinds] /\ \A k \in Loads : ProfileFits(k)'
      BY <2>2, <2>3, <2>4, ProfileLoadMoves DEF ProfileFits
    <2>6. count' \in Nat /\ count' <= blocks /\ tier' \in 1 .. 3
      BY <2>2, <2>3 DEF ProfileFits, ProfileKinds, Profiles!TierOf
    <2> QED
      BY <2>2, <2>5, <2>6 DEF ProfilesTyped
  <1>7. ASSUME NEW l \in Loads, Profiles!ReadsState(l)
        PROVE  ProfilesTyped'
    <2>1. PICK h \in 0 .. heat :
            /\ load' = [load EXCEPT ![l].step = "computed", ![l].hardware = hardware, ![l].heat = h,
                                    ![l].now = now, ![l].last = last]
            /\ UNCHANGED <<now, blocks, count, tier, hardware, heat, cached, last, work, credited>>
      BY <1>7 DEF Profiles!ReadsState, Profiles!Cooled
    <2>2. PICK t : t = [load[l] EXCEPT !.step = "computed", !.hardware = hardware, !.heat = h, !.now = now, !.last = last]
      OBVIOUS
    <2>3. load' = [load EXCEPT ![l] = t]
      BY <2>1, <2>2 DEF ProfilesTyped
    <2>4. load[l] \in ProfileKinds /\ ProfileFits(l) /\ h \in Nat /\ h <= MaxHeat
      BY <2>1 DEF ProfilesTyped, Profiles!ProfilesAssumption
    <2>5. t \in ProfileKinds /\ t.count = load[l].count /\ t.heat = h /\ t.now = now /\ t.last = last
      BY <2>2, <2>4 DEF ProfileKinds, ProfilesTyped
    <2>6. load' \in [Loads -> ProfileKinds] /\ \A k \in Loads : ProfileFits(k)'
      BY <2>1, <2>3, <2>4, <2>5, ProfileLoadMoves DEF ProfileFits, ProfilesTyped
    <2> QED
      BY <2>1, <2>6 DEF ProfilesTyped
  <1>8. ASSUME NEW l \in Loads, Profiles!WritesState(l)
        PROVE  ProfilesTyped'
    <2>1. PICK t : t = load[l]
      OBVIOUS
    <2>2. t \in ProfileKinds /\ ProfileFits(l)
      BY <2>1 DEF ProfilesTyped
    <2>3. load' = [load EXCEPT ![l] = Profiles!Idle] /\ cached' = Rate[t.hardware] /\ heat' = t.heat
          /\ UNCHANGED <<now, blocks, count, tier, hardware>>
      BY <1>8, <2>1 DEF Profiles!WritesState
    <2>4. \/ last' = t.now /\ work' = work + Profiles!OfflineWork(t) /\ credited' = credited + t.now - t.last
          \/ UNCHANGED <<last, work, credited>>
      BY <1>8, <2>1 DEF Profiles!WritesState
    <2>5. t.count \in Nat /\ t.heat \in Nat /\ t.now \in Nat /\ t.last \in Nat /\ t.hardware \in Hardware
          /\ t.heat <= MaxHeat /\ t.last <= t.now /\ t.now <= now
      BY <2>1, <2>2 DEF ProfileKinds, ProfileFits
    <2>6. Profiles!OfflineWork(t) \in Nat
      BY <2>2, <2>5, OfflineWorkIsNat
    <2>7. last' \in Nat /\ last' <= now /\ work' \in Nat /\ credited' \in Nat
      BY <2>4, <2>5, <2>6 DEF ProfilesTyped
    <2>8. load' \in [Loads -> ProfileKinds] /\ \A k \in Loads : ProfileFits(k)'
      <3>1. PICK i : i = Profiles!Idle
        OBVIOUS
      <3>2. i \in ProfileKinds /\ i.count <= blocks /\ i.heat <= MaxHeat /\ i.last <= i.now /\ i.now <= now
        BY <1>4, <3>1 DEF ProfilesTyped, Profiles!ProfilesAssumption
      <3> QED
        BY <2>3, <3>1, <3>2, ProfileLoadMoves
    <2> QED
      BY <2>3, <2>5, <2>7, <2>8 DEF ProfilesTyped
  <1>9. CASE UNCHANGED profileVars
    BY <1>9 DEF profileVars, ProfilesTyped, ProfileFits
  <1> QED
    BY <1>1, <1>2, <1>3, <1>5, <1>6, <1>7, <1>8, <1>9 DEF Profiles!Next

LEMMA ProfilesTypedInit ==
  ASSUME Profiles!ProfilesAssumption, Profiles!Init
  PROVE  ProfilesTyped
  BY DEF Profiles!Init, ProfilesTyped, ProfileFits, ProfileKinds, Profiles!Idle, Profiles!ProfilesAssumption

LEMMA ProfilesAreTyped == Spec => []Profiles!TypeOK
  <1>1. Init => ProfilesTyped
    BY ServicesAssumption, ProfilesTypedInit DEF Init, ServicesAssumption
  <1>2. ProfilesTyped /\ [Next]_vars => ProfilesTyped'
    BY ServicesAssumption, ProfilesTypedStep, Steps DEF ServicesAssumption
  <1>3. ProfilesTyped => Profiles!TypeOK
    <2>1. ASSUME ProfilesTyped, NEW l \in Loads
          PROVE  load[l].step \in {"idle", "counted", "progressed", "computed"} /\ load[l].last <= load[l].now
      <3>1. load[l] \in ProfileKinds /\ ProfileFits(l)
        BY <2>1 DEF ProfilesTyped
      <3> QED
        BY <3>1 DEF ProfileKinds, ProfileFits
    <2> QED
      BY <2>1 DEF ProfilesTyped, Profiles!TypeOK
  <1> QED
    BY <1>1, <1>2, <1>3, PTL DEF Spec


\* Scores and rewards count, and the worker's sets hold events.
ForksTyped ==
  /\ ForksInv
  /\ score \in [Events -> [Forks!PlayerSet -> Nat \cup {None}]]
  /\ rewards \in [Events -> [Forks!PlayerSet -> 0 .. 2]]
  /\ resolved \subseteq Events /\ announced \subseteq Events

LEMMA ForksTypedInit ==
  ASSUME Forks!EventsAssumption, Forks!Init
  PROVE  ForksTyped
  BY ForksInitInvariant DEF Forks!Init, ForksTyped

\* What a resolution pays.
LEMMA ResolutionPays ==
  ASSUME ForksTyped, NEW a \in Forks!Actors, Forks!Resolution(a)
  PROVE  call[a].event \in Events /\ rewards' \in [Events -> [Forks!PlayerSet -> 0 .. 2]]
  <1>1. PICK e \in Events : e = call[a].event
    BY DEF Forks!Resolution, ForksTyped, ForksInv, WinnersOK
  <1>2. PICK f : f = [p \in Forks!PlayerSet |->
          IF p \in {q \in Forks!Contributors(e) : Forks!ComputedRank(e, q) <= TopRanks} /\ rewards[e][p] < 2
            THEN rewards[e][p] + 1 ELSE rewards[e][p]]
    OBVIOUS
  <1>3. rewards' = [rewards EXCEPT ![e] = f]
    BY <1>1, <1>2 DEF Forks!Resolution
  <1>4. ASSUME NEW p \in Forks!PlayerSet
        PROVE  f[p] \in 0 .. 2
    <2>1. PICK n \in 0 .. 2 : n = rewards[e][p]
      BY DEF ForksTyped
    <2>2. (f[p] = n + 1 /\ n < 2) \/ f[p] = n
      BY <1>2, <2>1
    <2> QED
      BY <2>2
  <1>5. f \in [Forks!PlayerSet -> 0 .. 2]
    BY <1>2, <1>4
  <1> QED
    BY <1>1, <1>3, <1>5 DEF ForksTyped

LEMMA ForksTypedStep ==
  ASSUME Forks!EventsAssumption, ForksTyped, [Forks!Next]_eventVars
  PROVE  ForksTyped'
  <1>1. ForksInv'
    BY ForksStepInvariant DEF ForksTyped
  <1>2. Worker \in Forks!Actors /\ Handlers \subseteq Forks!Actors
    BY DEF Forks!Actors
  <1>3. ASSUME UNCHANGED <<score, rewards, resolved, announced>>
        PROVE  ForksTyped'
    BY <1>1, <1>3 DEF ForksTyped
  <1>4. ASSUME NEW e \in Events, NEW b \in Forks!BranchSet, NEW p \in Forks!PlayerSet,
               Forks!RecordBranchContribution(e, b, p)
        PROVE  ForksTyped'
    <2>1. PICK n : n = (IF score[e][p] = None THEN 0 ELSE score[e][p]) + 1
      OBVIOUS
    <2>2. n \in Nat
      BY <2>1 DEF ForksTyped
    <2>3. score' = [score EXCEPT ![e][p] = n] /\ UNCHANGED <<rewards, resolved, announced>>
      BY <1>4, <2>1 DEF Forks!RecordBranchContribution, Forks!round
    <2>4. score' \in [Events -> [Forks!PlayerSet -> Nat \cup {None}]]
      BY <2>2, <2>3 DEF ForksTyped
    <2> QED
      BY <1>1, <2>3, <2>4 DEF ForksTyped
  <1>5. ASSUME NEW h \in Handlers, Forks!ResolveCommits(h)
        PROVE  ForksTyped'
    <2>1. rewards' \in [Events -> [Forks!PlayerSet -> 0 .. 2]]
      BY <1>2, <1>5, ResolutionPays DEF Forks!ResolveCommits
    <2>2. UNCHANGED <<score, resolved, announced>>
      BY <1>5 DEF Forks!ResolveCommits, Forks!Resolution, Forks!round
    <2> QED
      BY <1>1, <2>1, <2>2 DEF ForksTyped
  <1>6. CASE Forks!WorkerCommits
    <2>1. call[Worker].event \in Events /\ rewards' \in [Events -> [Forks!PlayerSet -> 0 .. 2]]
      BY <1>2, <1>6, ResolutionPays DEF Forks!WorkerCommits
    <2>2. resolved' = resolved \cup {call[Worker].event} /\ UNCHANGED <<score, announced>>
      BY <1>6 DEF Forks!WorkerCommits, Forks!Resolution
    <2> QED
      BY <1>1, <2>1, <2>2 DEF ForksTyped
  <1>7. CASE Forks!WorkerRaises \/ Forks!WorkerAnnounces
    BY <1>1, <1>7 DEF ForksTyped, Forks!WorkerRaises, Forks!WorkerAnnounces, Forks!world
  <1>8. ASSUME NEW e \in Events, Forks!ActivateEvent(e) \/ Forks!EndPasses(e)
        PROVE  ForksTyped'
    BY <1>3, <1>8 DEF Forks!ActivateEvent, Forks!EndPasses, Forks!round
  <1>9. ASSUME NEW e \in Events, NEW b \in Forks!BranchSet, Forks!CreateBranch(e, b)
        PROVE  ForksTyped'
    BY <1>3, <1>9 DEF Forks!CreateBranch, Forks!round
  <1>10. ASSUME NEW p \in Forks!PlayerSet, NEW n \in {-1, 1}, Forks!LedgerMoves(p, n)
         PROVE  ForksTyped'
    BY <1>3, <1>10 DEF Forks!LedgerMoves, Forks!round
  <1>11. ASSUME NEW h \in Handlers, NEW e \in Events, Forks!ResolveReads(h, e) \/ Forks!CancelReads(h, e)
         PROVE  ForksTyped'
    BY <1>3, <1>11 DEF Forks!ResolveReads, Forks!CancelReads, Forks!world, Forks!round
  <1>12. ASSUME NEW h \in Handlers, Forks!CancelCommits(h)
         PROVE  ForksTyped'
    BY <1>3, <1>12 DEF Forks!CancelCommits, Forks!round
  <1>13. CASE Forks!WorkerSelects \/ Forks!WorkerReads \/ UNCHANGED eventVars
    BY <1>3, <1>13 DEF Forks!WorkerSelects, Forks!WorkerReads, Forks!world, Forks!round, eventVars
  <1> QED
    BY <1>4, <1>5, <1>6, <1>7, <1>8, <1>9, <1>10, <1>11, <1>12, <1>13 DEF Forks!Next

LEMMA ForksAreTyped == Spec => []Forks!TypeOK
  <1>1. Init => ForksTyped
    BY ServicesAssumption, ForksTypedInit DEF Init, ServicesAssumption
  <1>2. ForksTyped /\ [Next]_vars => ForksTyped'
    BY ServicesAssumption, ForksTypedStep, Steps DEF ServicesAssumption
  <1>3. ForksTyped => Forks!TypeOK
    BY DEF ForksTyped, ForksInv, ForkTypesOK, ForkEvents, ForkCalls, Forks!TypeOK
  <1> QED
    BY <1>1, <1>2, <1>3, PTL DEF Spec


\* No figure has moved more often than there were moves, and rows fit their board.
BoardsTyped ==
  /\ BoardsInv
  /\ moves \in 0 .. MaxMoves /\ toggles \in 0 .. MaxToggles
  /\ \A b \in Boards!PlayerBoards, p \in RankedPlayers : figure[b][p] <= moves
  /\ member \in [RankedPlayers -> RankedPools \cup {None}]
  /\ \A b \in Boards!Boards : RowsFit(board[b], b)
  /\ \A r \in Requests : asked[r].step = "commit" => RowsFit(asked[r].rows, Boards!Order[asked[r].at])

LEMMA BoardsTypedInit ==
  ASSUME Boards!LeaderboardsAssumption, Boards!Init
  PROVE  BoardsTyped
  <1>1. BoardsInv
    BY BoardsInitInvariant
  <1>2. moves \in 0 .. MaxMoves /\ toggles \in 0 .. MaxToggles
    BY DEF Boards!Init, Boards!LeaderboardsAssumption
  <1>3. \A b \in Boards!PlayerBoards, p \in RankedPlayers : figure[b][p] <= moves
    BY DEF Boards!Init
  <1>4. member \in [RankedPlayers -> RankedPools \cup {None}]
    BY DEF Boards!Init
  <1>5. \A b \in Boards!Boards : RowsFit(board[b], b)
    <2>1. \A b \in Boards!Boards : board[b] = <<>>
      BY DEF Boards!Init
    <2>2. Len(<<>>) = 0 /\ Limit \in Nat
      BY EmptySeq DEF Boards!LeaderboardsAssumption
    <2>3. <<>> \in Seq(RankedPools) /\ <<>> \in Seq(RankedPlayers)
      BY EmptySeq
    <2>4. \A b : RowsFit(<<>>, b)
      BY <2>2, <2>3 DEF RowsFit
    <2> QED
      BY <2>1, <2>4
  <1>6. \A r \in Requests : asked[r].step = "idle"
    BY BoardIdle DEF Boards!Init
  <1> QED
    BY <1>1, <1>2, <1>3, <1>4, <1>5, <1>6 DEF BoardsTyped

\* Figures and members are left alone, and no request has other rows to commit.
LEMMA BoardsTypedKept ==
  ASSUME BoardsTyped, BoardsInv', UNCHANGED <<figure, member, moves, board>>, toggles' \in 0 .. MaxToggles,
         \A r \in Requests : asked'[r].step = "commit" =>
           asked[r].step = "commit" /\ asked'[r].rows = asked[r].rows /\ asked'[r].at = asked[r].at
  PROVE  BoardsTyped'
  BY DEF BoardsTyped

\* A request that starts is with the first board.
LEMMA CallStarts ==
  ASSUME NEW W, NEW w \in W, NEW S, NEW s \in S, NEW e \in Seq(Nat)
  PROVE  [step |-> "refresh", wants |-> w, at |-> 1, rows |-> e, answer |-> e, since |-> s]
           \in [step : {"idle", "refresh", "commit", "read", "done"}, wants : W, at : 0 .. 4,
                rows : Seq(Nat), answer : Seq(Nat), since : S]
  OBVIOUS

LEMMA BoardsTypedStep ==
  ASSUME Boards!LeaderboardsAssumption, BoardsTyped, [Boards!Next]_boardVars
  PROVE  BoardsTyped'
  <1>1. BoardsInv' /\ BoardTypesOK
    BY BoardsInvariantStep DEF BoardsTyped, BoardsInv
  <1>2. asked \in [Requests -> BoardCalls] /\ toggles \in 0 .. MaxToggles /\ moves \in 0 .. MaxMoves
        /\ board \in [Boards!Boards -> Seq(Nat)]
        /\ figure \in [Boards!PlayerBoards -> [RankedPlayers -> Nat]]
    BY DEF BoardsTyped, BoardsInv, BoardTypesOK
  <1>3. ASSUME NEW p \in RankedPlayers, NEW b \in Boards!PlayerBoards, Boards!FigureMoves(b, p)
        PROVE  BoardsTyped'
    <2>1. /\ moves < MaxMoves /\ moves' = moves + 1 /\ figure' = [figure EXCEPT ![b][p] = figure[b][p] + 1]
          /\ UNCHANGED <<member, board, asked, toggles>>
      BY <1>3 DEF Boards!FigureMoves
    <2>2. ASSUME NEW c \in Boards!PlayerBoards, NEW q \in RankedPlayers
          PROVE  figure'[c][q] <= moves'
      <3>1. figure[c][q] \in Nat /\ figure[c][q] <= moves
        BY <1>2 DEF BoardsTyped
      <3>2. figure'[c][q] = IF c = b /\ q = p THEN figure[c][q] + 1 ELSE figure[c][q]
        BY <1>2, <2>1
      <3> QED
        BY <1>2, <2>1, <3>1, <3>2
    <2>3. moves' \in 0 .. MaxMoves
      BY <1>2, <2>1 DEF Boards!LeaderboardsAssumption
    <2> QED
      BY <1>1, <2>1, <2>2, <2>3 DEF BoardsTyped
  <1>4. ASSUME NEW p \in RankedPlayers, NEW k \in RankedPools \cup {None}, Boards!MemberMoves(p, k)
        PROVE  BoardsTyped'
    <2>1. moves < MaxMoves /\ moves' = moves + 1 /\ member' = [member EXCEPT ![p] = k]
          /\ UNCHANGED <<figure, board, asked, toggles>>
      BY <1>4 DEF Boards!MemberMoves
    <2>2. moves' \in 0 .. MaxMoves
      BY <1>2, <2>1 DEF Boards!LeaderboardsAssumption
    <2>3. \A b \in Boards!PlayerBoards, q \in RankedPlayers : figure[b][q] <= moves'
      BY <1>2, <2>1 DEF BoardsTyped
    <2>4. member' \in [RankedPlayers -> RankedPools \cup {None}]
      BY <2>1 DEF BoardsTyped
    <2> QED
      BY <1>1, <2>1, <2>2, <2>3, <2>4 DEF BoardsTyped
  <1>5. ASSUME NEW r \in Requests, NEW p \in RankedPlayers, Boards!Toggle(r, p)
        PROVE  BoardsTyped'
    <2>1. /\ toggles < MaxToggles /\ toggles' = toggles + 1 /\ UNCHANGED <<figure, member, board, moves>>
          /\ asked' = [s \in Requests |->
               IF s = r THEN [Boards!Idle EXCEPT !.step = "refresh", !.at = 1, !.wants = "visibility"]
               ELSE [asked[s] EXCEPT !.since = asked[s].since \ {p}]]
      BY <1>5 DEF Boards!Toggle
    <2>2. PICK c : c = [Boards!Idle EXCEPT !.step = "refresh", !.at = 1, !.wants = "visibility"]
      OBVIOUS
    <2>3. c.step = "refresh"
      BY <2>2, BoardIdle DEF BoardCalls
    <2>4. ASSUME NEW s \in Requests, asked'[s].step = "commit"
          PROVE  asked[s].step = "commit" /\ asked'[s].rows = asked[s].rows /\ asked'[s].at = asked[s].at
      <3>1. s # r
        BY <2>1, <2>2, <2>3, <2>4
      <3>2. PICK k \in BoardCalls : k = asked[s]
        BY <1>2
      <3>3. asked'[s] = [k EXCEPT !.since = k.since \ {p}]
        BY <2>1, <3>1, <3>2
      <3> QED
        BY <2>4, <3>2, <3>3 DEF BoardCalls
    <2>5. toggles' \in 0 .. MaxToggles
      BY <1>2, <2>1 DEF Boards!LeaderboardsAssumption
    <2> QED
      BY <1>1, <2>1, <2>4, <2>5, BoardsTypedKept
  <1>6. ASSUME NEW r \in Requests, NEW c \in BoardCalls, asked' = [asked EXCEPT ![r] = c], c.step # "commit",
               UNCHANGED <<figure, member, moves, toggles, board>>
        PROVE  BoardsTyped'
    <2>1. \A s \in Requests : asked'[s].step = "commit" =>
            asked[s].step = "commit" /\ asked'[s].rows = asked[s].rows /\ asked'[s].at = asked[s].at
      BY <1>2, <1>6
    <2> QED
      BY <1>1, <1>2, <1>6, <2>1, BoardsTypedKept
  <1>7. ASSUME NEW r \in Requests, NEW b \in Boards!Boards \cup {"position"}, Boards!Asks(r, b)
        PROVE  BoardsTyped'
    <2>1. PICK c : c = [Boards!Idle EXCEPT !.step = "refresh", !.at = 1, !.wants = b, !.since = hidden]
      OBVIOUS
    <2>2. c = [step |-> "refresh", wants |-> b, at |-> 1, rows |-> <<>>, answer |-> <<>>, since |-> hidden]
      BY <2>1 DEF Boards!Idle
    <2>3. hidden \subseteq RankedPlayers
      BY <1>1 DEF BoardTypesOK
    <2>4. c \in BoardCalls /\ c.step = "refresh"
      <3>1. b \in Boards!Boards \cup {"", "position", "visibility"} /\ <<>> \in Seq(Nat) /\ hidden \in SUBSET RankedPlayers
        BY <1>7, <2>3, EmptySeq
      <3>2. c.step = "refresh"
        BY <2>2
      <3> QED
        BY <2>2, <3>1, <3>2, CallStarts DEF BoardCalls
    <2> QED
      BY <1>6, <1>7, <2>1, <2>4 DEF Boards!Asks, Boards!Unmoved
  <1>8. ASSUME NEW r \in Requests, Boards!Refreshes(r)
        PROVE  BoardsTyped'
    <2>1. PICK k \in BoardCalls : k = asked[r]
      BY <1>2
    <2>2. k.at \in 1 .. 4 /\ Boards!Order[k.at] \in Boards!Boards
      BY <1>1, <1>8, <2>1, OrderIsOfBoards DEF Boards!Refreshes, BoardTypesOK
    <2>3. PICK R : R = Boards!Rows(Boards!Order[k.at])
      OBVIOUS
    <2>4. RowsFit(R, Boards!Order[k.at])
      BY <1>1, <2>2, <2>3, RowsAreNumbers
    <2>5. asked' = [asked EXCEPT ![r].step = "commit", ![r].rows = R]
          /\ UNCHANGED <<figure, member, moves, toggles, board>>
      BY <1>8, <2>1, <2>3 DEF Boards!Refreshes, Boards!Unmoved
    <2>6. ASSUME NEW s \in Requests, asked'[s].step = "commit"
          PROVE  RowsFit(asked'[s].rows, Boards!Order[asked'[s].at])
      <3>1. CASE s = r
        <4>1. asked'[r].rows = R /\ asked'[r].at = k.at
          BY <1>2, <2>1, <2>5 DEF BoardCalls
        <4> QED
          BY <2>4, <3>1, <4>1
      <3>2. CASE s # r
        BY <1>2, <2>5, <2>6, <3>2 DEF BoardsTyped
      <3> QED
        BY <3>1, <3>2
    <2> QED
      BY <1>1, <2>5, <2>6 DEF BoardsTyped
  <1>9. ASSUME NEW r \in Requests, Boards!Commits(r)
        PROVE  BoardsTyped'
    <2>1. PICK k \in BoardCalls : k = asked[r]
      BY <1>2
    <2>2. k.step = "commit"
      BY <1>9, <2>1 DEF Boards!Commits
    <2>3. PICK b \in Boards!Boards : b = Boards!Order[k.at]
      BY <1>1, <2>1, <2>2, OrderIsOfBoards DEF BoardTypesOK
    <2>4. RowsFit(k.rows, b)
      BY <2>1, <2>2, <2>3 DEF BoardsTyped
    <2>5. /\ board' = [board EXCEPT ![b] = k.rows] /\ UNCHANGED <<figure, member, moves, toggles>>
          /\ \A s \in Requests \ {r} : asked'[s] = asked[s]
          /\ asked'[r].step \in {"refresh", "done", "read"}
      <3>a. PICK n : n = IF asked[r].at < 4 THEN asked[r].at + 1 ELSE 0
        OBVIOUS
      <3>b. PICK st \in {"refresh", "done", "read"} :
              st = IF asked[r].at < 4 THEN "refresh" ELSE IF asked[r].wants = "visibility" THEN "done" ELSE "read"
        OBVIOUS
      <3>1. asked' = [asked EXCEPT ![r].rows = <<>>, ![r].at = n, ![r].step = st]
        BY <1>9, <3>a, <3>b DEF Boards!Commits
      <3>2. asked'[r] = [k EXCEPT !.rows = <<>>, !.at = n, !.step = st]
        BY <1>2, <2>1, <3>1
      <3>3. asked'[r].step = st
        BY <3>2 DEF BoardCalls
      <3>4. \A s \in Requests \ {r} : asked'[s] = asked[s]
        BY <1>2, <3>1
      <3>5. board' = [board EXCEPT ![Boards!Order[asked[r].at]] = asked[r].rows]
            /\ UNCHANGED <<figure, member, moves, toggles>>
        BY <1>9 DEF Boards!Commits, Boards!Unmoved
      <3> QED
        BY <2>1, <2>3, <3>3, <3>4, <3>5
    <2>6. \A c \in Boards!Boards : RowsFit(board'[c], c)
      BY <1>2, <2>4, <2>5 DEF BoardsTyped
    <2>7. \A s \in Requests : asked'[s].step = "commit" => RowsFit(asked'[s].rows, Boards!Order[asked'[s].at])
      BY <2>5 DEF BoardsTyped
    <2> QED
      BY <1>1, <2>5, <2>6, <2>7 DEF BoardsTyped
  <1>10. ASSUME NEW r \in Requests, NEW A, asked' = [asked EXCEPT ![r].step = "done", ![r].answer = A],
                UNCHANGED <<figure, member, moves, toggles, board>>
         PROVE  BoardsTyped'
    <2>1. ASSUME NEW s \in Requests, asked'[s].step = "commit"
          PROVE  asked'[s] = asked[s]
      <3>1. asked[r] \in BoardCalls
        BY <1>2
      <3>2. asked'[r].step = "done"
        BY <1>2, <1>10, <3>1 DEF BoardCalls
      <3> QED
        BY <1>2, <1>10, <2>1, <3>2
    <2> QED
      BY <1>1, <1>2, <1>10, <2>1, BoardsTypedKept
  <1>11. CASE UNCHANGED boardVars
    BY <1>1, <1>2, <1>11, BoardsTypedKept DEF boardVars
  <1>12. ASSUME NEW r \in Requests, Boards!Answers(r)
         PROVE  BoardsTyped'
    BY <1>10, <1>12 DEF Boards!Answers, Boards!Unmoved
  <1>13. ASSUME NEW r \in Requests, NEW p \in RankedPlayers, Boards!PositionRanks(r, p)
         PROVE  BoardsTyped'
    BY <1>10, <1>13 DEF Boards!PositionRanks, Boards!Unmoved
  <1>14. CASE Boards!Next
    BY <1>3, <1>4, <1>5, <1>7, <1>8, <1>9, <1>12, <1>13, <1>14 DEF Boards!Next
  <1> QED
    BY <1>11, <1>14

LEMMA BoardsAreTyped == Spec => []Boards!TypeOK
  <1>1. Init => BoardsTyped
    BY ServicesAssumption, BoardsTypedInit DEF Init, ServicesAssumption
  <1>2. BoardsTyped /\ [Next]_vars => BoardsTyped'
    BY ServicesAssumption, BoardsTypedStep, Steps DEF ServicesAssumption
  <1>3. BoardsTyped => Boards!TypeOK
    <2> SUFFICES ASSUME BoardsTyped PROVE Boards!TypeOK
      OBVIOUS
    <2>1. /\ hidden \subseteq RankedPlayers /\ lock \in [Boards!Boards -> Requests \cup {None}]
          /\ figure \in [Boards!PlayerBoards -> [RankedPlayers -> Nat]]
      BY DEF BoardsTyped, BoardsInv, BoardTypesOK
    <2>2. \A b \in Boards!PlayerBoards, p \in RankedPlayers : figure[b][p] \in 0 .. MaxMoves
      <3> TAKE b \in Boards!PlayerBoards, p \in RankedPlayers
      <3>1. figure[b][p] \in Nat /\ figure[b][p] <= moves /\ moves \in 0 .. MaxMoves /\ MaxMoves \in Nat
        BY <2>1, ServicesAssumption DEF BoardsTyped, ServicesAssumption, Boards!LeaderboardsAssumption
      <3> QED
        BY <3>1
    <2>3. figure \in [Boards!PlayerBoards -> [RankedPlayers -> 0 .. MaxMoves]]
      BY <2>1, <2>2
    <2>4. \A b \in Boards!Boards :
            /\ Len(board[b]) <= Limit
            /\ \A i \in 1 .. Len(board[b]) : board[b][i] \in IF b = "pools" THEN RankedPools ELSE RankedPlayers
      BY ElementOfSeq DEF BoardsTyped, RowsFit
    <2> QED
      BY <2>1, <2>3, <2>4 DEF Boards!TypeOK, BoardsTyped
  <1> QED
    BY <1>1, <1>2, <1>3, PTL DEF Spec


\* The clock is bounded, and a ticket is stamped with a time that has passed.
DeskTyped ==
  /\ DeskInv
  /\ clock \in 0 .. MaxClock
  /\ status \in Desk!TicketStatuses \cup {None}
  /\ firstResponse \in 0 .. clock \cup {None}

LEMMA DeskTypedStep ==
  ASSUME Desk!ModerationAssumption, DeskTyped, [Desk!Next]_deskVars
  PROVE  DeskTyped'
  <1>1. DeskInv'
    BY DeskStepInvariant DEF DeskTyped
  <1>2. clock \in 0 .. MaxClock /\ status \in Desk!TicketStatuses \cup {None} /\ firstResponse \in 0 .. clock \cup {None}
    BY DEF DeskTyped
  <1>3. CASE Desk!Tick
    BY <1>1, <1>2, <1>3 DEF Desk!Tick, DeskTyped, Desk!ModerationAssumption
  <1>4. CASE Desk!CreateTicket \/ Desk!CloseTicket \/ \E st \in Desk!TicketStatuses : Desk!UpdateTicketStatus(st)
    BY <1>1, <1>2, <1>4
       DEF Desk!CreateTicket, Desk!CloseTicket, Desk!UpdateTicketStatus, DeskTyped, Desk!TicketStatuses
  <1>5. ASSUME NEW u \in Staff, Desk!ReplyCommits(u)
        PROVE  DeskTyped'
    <2>1. staff[u].at \in Nat /\ staff[u].at <= clock
      BY DEF DeskTyped, DeskInv, DeskCalls
    <2>2. firstResponse' \in {firstResponse, Desk!StampsReply(staff[u].at)} /\ UNCHANGED <<clock, status>>
      BY <1>5 DEF Desk!ReplyCommits
    <2>3. firstResponse' \in 0 .. clock \cup {None}
      BY <1>2, <2>1, <2>2 DEF Desk!StampsReply
    <2> QED
      BY <1>1, <1>2, <2>2, <2>3 DEF DeskTyped
  <1>6. CASE UNCHANGED <<clock, status, firstResponse>>
    BY <1>1, <1>2, <1>6 DEF DeskTyped
  <1>7. ASSUME NEW u \in Staff, Desk!ReplyStarts(u) \/ Desk!ReviewAppeal(u)
        PROVE  UNCHANGED <<clock, status, firstResponse>>
    BY <1>7 DEF Desk!ReplyStarts, Desk!ReviewAppeal
  <1>8. ASSUME NEW s \in Sanctions, NEW d, Desk!QueueForReview(s) \/ Desk!TakeModerationAction(s, d)
        PROVE  UNCHANGED <<clock, status, firstResponse>>
    BY <1>8 DEF Desk!QueueForReview, Desk!TakeModerationAction
  <1>9. ASSUME NEW s \in Sanctions, NEW a \in Appeals, Desk!SubmitAppeal(a, s)
         PROVE  UNCHANGED <<clock, status, firstResponse>>
    BY <1>9 DEF Desk!SubmitAppeal
  <1>10. ASSUME NEW u \in Staff, NEW a \in Appeals, NEW ok \in BOOLEAN, Desk!ReviewStarts(u, a, ok)
         PROVE  UNCHANGED <<clock, status, firstResponse>>
    BY <1>10 DEF Desk!ReviewStarts
  <1>11. CASE UNCHANGED deskVars
    BY <1>6, <1>11 DEF deskVars
  <1>12. CASE Desk!Next
    BY <1>3, <1>4, <1>5, <1>6, <1>7, <1>8, <1>9, <1>10, <1>12 DEF Desk!Next
  <1> QED
    BY <1>11, <1>12

LEMMA DeskIsTyped == Spec => []Desk!TypeOK
  <1>1. Init => DeskTyped
    <2> SUFFICES ASSUME Desk!Init PROVE DeskTyped
      BY DEF Init
    <2>1. clock = 0 /\ status = None /\ firstResponse = None /\ MaxClock \in Nat
      BY ServicesAssumption DEF Desk!Init, ServicesAssumption, Desk!ModerationAssumption
    <2> QED
      BY <2>1, DeskInitInvariant DEF DeskTyped
  <1>2. DeskTyped /\ [Next]_vars => DeskTyped'
    BY ServicesAssumption, DeskTypedStep, Steps DEF ServicesAssumption
  <1>3. DeskTyped => Desk!TypeOK
    BY DEF DeskTyped, DeskInv, DeskCalls, Desk!TypeOK
  <1> QED
    BY <1>1, <1>2, <1>3, PTL DEF Spec


\* A subscription is one of those there are, and what is on its way is a delta of some fields.
StreamTyped ==
  /\ state \in Stream!Values /\ profile \in Stream!Values /\ view \in Stream!Values
  /\ conn \in {"closed", "accepted", "read", "open"}
  /\ subscriptions \subseteq DOMAIN FieldsOf
  /\ listening \in BOOLEAN /\ channel \in Seq(Stream!Delta)
  /\ listening => conn = "open"

LEMMA DeltaValues ==
  ASSUME NEW d \in Stream!Delta
  PROVE  DOMAIN d \subseteq Fields /\ \A f \in DOMAIN d : d[f] \in 0 .. MaxChanges
  BY DEF Stream!Delta

\* What is sent is a value of every field it holds.
LEMMA SentIsValues ==
  ASSUME view \in Stream!Values, NEW values, \A f \in DOMAIN values \cap Fields : values[f] \in 0 .. MaxChanges,
         Stream!Sent(values)
  PROVE  view' \in Stream!Values
  BY DEF Stream!Sent, Stream!Values

LEMMA ChangesTyped ==
  ASSUME Stream!StreamAssumption, StreamTyped, NEW S \in SUBSET Fields, S # {}, Stream!Changes(S)
  PROVE  StreamTyped'
  <1>1. PICK next : next = [f \in Fields |-> IF f \in S THEN state[f] + 1 ELSE state[f]]
    OBVIOUS
  <1>2. PICK delta : delta = Stream!EncodeDelta(state, next)
    OBVIOUS
  <1>3. /\ \A f \in S : state[f] < MaxChanges
        /\ state' = next
        /\ channel' = channel \/ channel' = Append(channel, delta)
        /\ UNCHANGED <<conn, profile, subscriptions, listening, view>>
    BY <1>1, <1>2 DEF Stream!Changes
  <1>4. \A f \in Fields : state[f] \in 0 .. MaxChanges
    BY DEF StreamTyped, Stream!Values
  <1>5. \A f \in Fields : next[f] \in 0 .. MaxChanges /\ (f \in S => next[f] # state[f])
    <2> TAKE f \in Fields
    <2>1. PICK n \in Nat, m \in Nat : n = state[f] /\ m = MaxChanges /\ n <= m
      BY <1>4 DEF Stream!StreamAssumption
    <2>2. next[f] = IF f \in S THEN n + 1 ELSE n
      BY <1>1, <2>1
    <2>3. f \in S => n < m
      BY <1>3, <2>1
    <2> QED
      BY <2>1, <2>2, <2>3
  <1>6. next \in Stream!Values
    BY <1>1, <1>5 DEF Stream!Values
  <1>7. delta \in Stream!Delta
    <2>1. PICK D : D = {g \in Fields : next[g] # state[g]}
      OBVIOUS
    <2>2. delta = [f \in D |-> next[f]] /\ D \in SUBSET Fields
      BY <1>2, <2>1 DEF Stream!EncodeDelta
    <2>3. D # {}
      BY <1>5, <2>1
    <2>4. delta \in [D -> 0 .. MaxChanges]
      BY <1>5, <2>2
    <2>5. [D -> 0 .. MaxChanges] \in {[U -> 0 .. MaxChanges] : U \in (SUBSET Fields) \ {{}}}
      BY <2>2, <2>3
    <2> QED
      BY <2>4, <2>5 DEF Stream!Delta
  <1>8. channel' \in Seq(Stream!Delta)
    BY <1>3, <1>7, AppendProperties DEF StreamTyped
  <1> QED
    BY <1>3, <1>6, <1>8 DEF StreamTyped

LEMMA ForwardsTyped ==
  ASSUME StreamTyped, Stream!ListenerForwards
  PROVE  StreamTyped'
  <1>1. channel \in Seq(Stream!Delta) /\ channel # <<>> /\ channel' = Tail(channel)
        /\ Stream!Sent(Stream!Filtered(Head(channel)))
        /\ UNCHANGED <<state, conn, profile, subscriptions, listening>>
    BY DEF StreamTyped, Stream!ListenerForwards
  <1>2. PICK d \in Stream!Delta : d = Head(channel)
    BY <1>1, ElementOfSeq, HeadTailProperties
  <1>3. PICK S : S \subseteq DOMAIN d /\ Stream!Filtered(d) = [f \in S |-> d[f]]
    BY DEF Stream!Filtered
  <1>4. \A f \in S : [g \in S |-> d[g]][f] \in 0 .. MaxChanges
    BY <1>2, <1>3, DeltaValues
  <1>5. view' \in Stream!Values
    <2>1. view \in Stream!Values
      BY DEF StreamTyped
    <2>2. PICK values : values = [f \in S |-> d[f]]
      OBVIOUS
    <2>3. \A f \in DOMAIN values \cap Fields : values[f] \in 0 .. MaxChanges
      BY <1>4, <2>2
    <2>4. Stream!Sent(values)
      BY <1>1, <1>2, <1>3, <2>2
    <2> QED
      BY <2>1, <2>3, <2>4, SentIsValues
  <1>6. channel' \in Seq(Stream!Delta)
    BY <1>1, HeadTailProperties
  <1> QED
    BY <1>1, <1>5, <1>6 DEF StreamTyped

LEMMA StreamTypedStep ==
  ASSUME Stream!StreamAssumption, StreamTyped, [Stream!Next]_streamVars
  PROVE  StreamTyped'
  <1>1. ASSUME NEW S \in SUBSET Fields, S # {}, Stream!Changes(S)
        PROVE  StreamTyped'
    BY <1>1, ChangesTyped
  <1>2. CASE Stream!Connect \/ Stream!ReadProfile \/ Stream!ListenerSubscribes
    <2>1. CASE Stream!Connect
      BY <2>1 DEF Stream!Connect, StreamTyped
    <2>2. CASE Stream!ReadProfile
      BY <2>2 DEF Stream!ReadProfile, StreamTyped
    <2>3. CASE Stream!ListenerSubscribes
      <3>1. conn' = "open" /\ listening' = TRUE /\ UNCHANGED <<state, profile, view, subscriptions, channel>>
        BY <2>3 DEF Stream!ListenerSubscribes
      <3> QED
        BY <3>1 DEF StreamTyped
    <2> QED
      BY <1>2, <2>1, <2>2, <2>3
  <1>3. CASE Stream!SendFullState
    <2>1. view' \in Stream!Values
      BY <1>3, SentIsValues DEF Stream!SendFullState, StreamTyped, Stream!Values
    <2> QED
      BY <1>3, <2>1 DEF Stream!SendFullState, StreamTyped
  <1>4. CASE Stream!ListenerForwards
    BY <1>4, ForwardsTyped
  <1>5. ASSUME NEW S \in SUBSET DOMAIN FieldsOf, Stream!ClientSubscribes(S)
        PROVE  StreamTyped'
    BY <1>5 DEF Stream!ClientSubscribes, StreamTyped
  <1>6. CASE Stream!Disconnect
    BY <1>6, EmptySeq DEF Stream!Disconnect, StreamTyped
  <1>7. CASE UNCHANGED streamVars
    BY <1>7 DEF streamVars, StreamTyped
  <1>8. CASE \E S \in (SUBSET Fields) \ {{}} : Stream!Changes(S)
    BY <1>1, <1>8
  <1>9. CASE Stream!Next
    BY <1>2, <1>3, <1>4, <1>5, <1>6, <1>8, <1>9 DEF Stream!Next
  <1> QED
    BY <1>7, <1>9

LEMMA StreamIsTyped == Spec => []Stream!TypeOK
  <1>1. Init => StreamTyped
    <2> SUFFICES ASSUME Stream!Init PROVE StreamTyped
      BY DEF Init
    <2>1. 0 \in 0 .. MaxChanges
      BY ServicesAssumption DEF ServicesAssumption, Stream!StreamAssumption
    <2>2. state \in Stream!Values /\ profile \in Stream!Values /\ view \in Stream!Values
      BY <2>1 DEF Stream!Init, Stream!Values
    <2>3. channel \in Seq(Stream!Delta)
      BY EmptySeq DEF Stream!Init
    <2>4. conn = "closed" /\ subscriptions = {} /\ listening = FALSE
      BY DEF Stream!Init
    <2> QED
      BY <2>2, <2>3, <2>4 DEF StreamTyped
  <1>2. StreamTyped /\ [Next]_vars => StreamTyped'
    BY ServicesAssumption, StreamTypedStep, Steps DEF ServicesAssumption
  <1>3. StreamTyped => Stream!TypeOK
    <2>1. StreamTyped => \A i \in 1 .. Len(channel) : channel[i] \in Stream!Delta
      BY ElementOfSeq DEF StreamTyped
    <2> QED
      BY <2>1 DEF StreamTyped, Stream!TypeOK
  <1> QED
    BY <1>1, <1>2, <1>3, PTL DEF Spec


\* An event's value leaves a reward a whole number of units.
LEMMA RulesTypedStep ==
  ASSUME Rules!RulesAssumption, Rules!TypeOK, [Rules!Next]_calc
  PROVE  Rules!TypeOK'
  <1>1. CASE Rules!AllocatePlayerRewards
    <2>1. calc'.rule = "allocate"
      BY <1>1 DEF Rules!AllocatePlayerRewards
    <2> QED
      BY <2>1 DEF Rules!TypeOK
  <1>2. CASE Rules!ComputeBlockReward
    <2>1. PICK base \in Rewards \cap Nat, required \in Works, modifier \in Modifiers \cup {None} :
            calc' = [rule |-> "reward", modifier |-> modifier,
                     reward |-> IF modifier = None THEN Rules!BaseReward(base, required)
                                ELSE Rules!HalfEven(modifier * Rules!BaseReward(base, required), Scale)]
      BY <1>2 DEF Rules!ComputeBlockReward
    <2>2. Modifiers \subseteq Int /\ Scale \in Nat \ {0}
      BY DEF Rules!RulesAssumption
    <2>3. PICK r \in Nat : r = Rules!BaseReward(base, required)
      BY BaseRewardIsFloored
    <2>4. modifier # None => Rules!HalfEven(modifier * r, Scale) \in Int
      <3> SUFFICES ASSUME modifier # None
                   PROVE  Rules!HalfEven(modifier * r, Scale) \in Int
        OBVIOUS
      <3>1. PICK n \in Int : n = modifier * r
        BY <2>2
      <3>2. n \div Scale \in Int /\ (n \div Scale) + 1 \in Int
        BY <2>2
      <3> QED
        BY <3>1, <3>2 DEF Rules!HalfEven
    <2>5. calc'.rule = "reward" /\ calc'.reward \in Int
      BY <2>1, <2>3, <2>4
    <2> QED
      BY <2>5 DEF Rules!TypeOK
  <1>3. CASE Rules!CalculateRewardShares
    <2>1. calc'.rule = "pool"
      BY <1>3 DEF Rules!CalculateRewardShares, Rules!PoolShares
    <2> QED
      BY <2>1 DEF Rules!TypeOK
  <1>4. CASE Rules!AdjustDifficulty
    <2>1. calc'.rule = "difficulty"
      BY <1>4 DEF Rules!AdjustDifficulty
    <2> QED
      BY <2>1 DEF Rules!TypeOK
  <1>5. CASE calc' = calc
    BY <1>5 DEF Rules!TypeOK
  <1> QED
    BY <1>1, <1>2, <1>3, <1>4, <1>5 DEF Rules!Next

LEMMA RulesAreTyped == Spec => []Rules!TypeOK
  <1>1. Init => Rules!TypeOK
    BY DEF Init, Rules!Init, Rules!TypeOK
  <1>2. Rules!TypeOK /\ [Next]_vars => Rules!TypeOK'
    BY ServicesAssumption, RulesTypedStep, Steps DEF ServicesAssumption
  <1> QED
    BY <1>1, <1>2, PTL DEF Spec


\* A boundary event, and when it takes effect.
LEMMA SliceTimes ==
  ASSUME Slices!SlicesAssumption
  PROVE  /\ Slices!Boundary \subseteq SliceBoundaries
         /\ \A t \in Slices!Times : t \in Nat
         /\ \A b \in Slices!Boundary : b.at \in Nat /\ b.multiplier \in Multipliers /\ b.paused \in BOOLEAN
  <1>1. \A t \in Slices!Times : t \in Nat
    BY DEF Slices!Times
  <1>2. \A m \in Multipliers : m \in Nat
    BY DEF Slices!SlicesAssumption
  <1>3. \A b \in Slices!Boundary : b.at \in Nat /\ b.multiplier \in Multipliers /\ b.paused \in BOOLEAN
    BY <1>1 DEF Slices!Boundary
  <1>4. Slices!Boundary \subseteq SliceBoundaries
    BY <1>1, <1>2 DEF Slices!Boundary, SliceBoundaries
  <1> QED
    BY <1>1, <1>3, <1>4

LEMMA SliceWorkIsNat ==
  ASSUME Slices!SlicesAssumption, NEW a \in Nat, NEW b \in Nat, a <= b, NEW m \in Nat, NEW p \in BOOLEAN
  PROVE  Slices!SliceWork(a, b, m, p) \in Nat
  <1>1. PICK d \in Nat : d = b - a
    OBVIOUS
  <1>2. PICK n \in Nat \ {0} : n = Parts
    BY DEF Slices!SlicesAssumption
  <1>3. d \div n \in Nat
    OBVIOUS
  <1>4. \A k \in Nat : m * k \in Nat
    OBVIOUS
  <1> QED
    BY <1>1, <1>2, <1>3, <1>4 DEF Slices!SliceWork

\* No slice ends before it begins.
LEMMA SlicesAreNat ==
  ASSUME Slices!SlicesAssumption, NEW B \in SUBSET SliceBoundaries, IsFiniteSet(B),
         NEW from \in Nat, NEW end \in Nat, from <= end, \A b \in B : from <= b.at /\ b.at <= end,
         NEW m \in Nat, NEW p \in BOOLEAN
  PROVE  Slices!Slices(from, m, p, B, end) \in Nat
  <1>1. Slices!Until(B, end) \in Nat /\ from <= Slices!Until(B, end)
    <2>1. Slices!Until(B, end) \in {end} \cup {b.at : b \in B} /\ Slices!Until(B, end) \in Nat
      BY UntilExists
    <2> QED
      BY <2>1
  <1>2. Slices!SliceWork(from, Slices!Until(B, end), m, p) \in Nat
    BY <1>1, SliceWorkIsNat
  <1>3. PICK f : f = SliceOf(B, end)
    OBVIOUS
  <1>4. ASSUME NEW b \in B
        PROVE  f[b] \in Nat
    <2>1. PICK C : C = {c \in B : Slices!Earlier(b, c)}
      OBVIOUS
    <2>2. C \in SUBSET SliceBoundaries
      BY <2>1
    <2>3. IsFiniteSet(C)
      BY <2>1, FS_Subset
    <2>4. Slices!Until(C, end) \in {end} \cup {c.at : c \in C} /\ Slices!Until(C, end) \in Nat
      BY <2>2, <2>3, UntilExists
    <2>5. \A c \in C : b.at <= c.at
      BY <2>1, EarlierOrders
    <2>6. b.at <= end
      OBVIOUS
    <2>7. b.at <= Slices!Until(C, end)
      BY <2>4, <2>5, <2>6
    <2>8. PICK a \in Nat, u \in Nat, k \in Nat, q \in BOOLEAN :
            a = b.at /\ u = Slices!Until(C, end) /\ k = b.multiplier /\ q = b.paused
      BY <2>4 DEF SliceBoundaries
    <2>9. Slices!SliceWork(a, u, k, q) \in Nat
      BY <2>7, <2>8, SliceWorkIsNat
    <2> QED
      BY <1>3, <2>1, <2>8, <2>9 DEF SliceOf
  <1>5. SumFunctionOnSet(f, B) \in Nat
    BY <1>4, SumNat
  <1> QED
    BY <1>2, <1>3, <1>5, SlicesAre

SlicesTyped == Slices!TypeOK /\ IsFiniteSet(pending)

LEMMA SlicesTypedStep ==
  ASSUME Slices!SlicesAssumption, SlicesTyped, [Slices!Next]_sliceVars
  PROVE  SlicesTyped'
  <1>1. /\ processed \in Slices!Times /\ multiplier \in Multipliers /\ paused \in BOOLEAN
        /\ pending \subseteq Slices!Boundary /\ done \in Nat
        /\ history \subseteq [said : Slices!Event, boundary : Slices!Boundary]
        /\ IsFiniteSet(pending)
    BY DEF SlicesTyped, Slices!TypeOK
  <1>2. ASSUME NEW at \in Slices!Times, NEW m \in Multipliers \cup {None}, NEW p \in BOOLEAN \cup {None},
               Slices!ApplyBoundaryEvent([at |-> at, multiplier |-> m, paused |-> p])
        PROVE  SlicesTyped'
    <2>1. PICK told \in Slices!Event : told = [at |-> at, multiplier |-> m, paused |-> p]
      BY DEF Slices!Event
    <2>2. PICK b : b = Slices!Filled(told, multiplier, paused)
      OBVIOUS
    <2>3. b \in Slices!Boundary
      <3>1. told.at \in Slices!Times
        BY <2>1
      <3>2. (IF told.multiplier = None THEN multiplier ELSE told.multiplier) \in Multipliers
        BY <1>1, <2>1, Zenon
      <3>3. (IF told.paused = None THEN paused ELSE told.paused) \in BOOLEAN
        BY <1>1, <2>1, Zenon
      <3> QED
        BY <2>2, <3>1, <3>2, <3>3, Zenon DEF Slices!Filled, Slices!Boundary
    <2>4. PICK h \in [said : Slices!Event, boundary : Slices!Boundary] : h = [said |-> told, boundary |-> b]
      BY <2>3
    <2>5. pending' = pending \cup {b} /\ history' \subseteq history \cup {h}
          /\ UNCHANGED <<processed, multiplier, paused, done>>
      BY <1>2, <2>1, <2>2, <2>4 DEF Slices!ApplyBoundaryEvent
    <2>6. IsFiniteSet(pending')
      BY <1>1, <2>5, FS_AddElement
    <2> QED
      BY <1>1, <2>3, <2>4, <2>5, <2>6 DEF SlicesTyped, Slices!TypeOK
  <1>3. ASSUME NEW at \in Slices!Times, Slices!Pause(at) \/ Slices!Resume(at)
        PROVE  SlicesTyped'
    <2>1. PICK on \in BOOLEAN : Slices!ApplyBoundaryEvent([at |-> at, multiplier |-> None, paused |-> on])
      BY <1>3 DEF Slices!Pause, Slices!Resume
    <2> QED
      BY <1>2, <2>1
  <1>6. ASSUME NEW end \in Slices!Times, Slices!ProcessTick(end)
        PROVE  SlicesTyped'
    <2>1. PICK W : W = Slices!Window(end)
      OBVIOUS
    <2>2. /\ end > processed
          /\ done' = done + Slices!Slices(processed, multiplier, paused, W, end)
          /\ processed' = end
          /\ pending' \subseteq pending
          /\ multiplier' = IF W = {} THEN multiplier ELSE Slices!Latest(W).multiplier
          /\ paused' = IF W = {} THEN paused ELSE Slices!Latest(W).paused
          /\ history' = history
      BY <1>6, <2>1 DEF Slices!ProcessTick
    <2>3. W \subseteq pending /\ \A b \in W : processed <= b.at /\ b.at < end
      BY <2>1 DEF Slices!Window
    <2>4. IsFiniteSet(W) /\ IsFiniteSet(pending')
      BY <1>1, <2>2, <2>3, FS_Subset
    <2>5. W \in SUBSET SliceBoundaries /\ W \in SUBSET Slices!Boundary
      BY <1>1, <2>3, SliceTimes
    <2>6. end \in Nat /\ processed \in Nat /\ multiplier \in Nat
      BY <1>1, SliceTimes DEF Slices!SlicesAssumption
    <2>7. \A b \in W : processed <= b.at /\ b.at <= end
      BY <2>3, <2>5, <2>6, SliceTimes
    <2>8. Slices!Slices(processed, multiplier, paused, W, end) \in Nat
      <3>1. PICK s \in Nat, m \in Nat, p \in BOOLEAN : s = processed /\ m = multiplier /\ p = paused
        BY <1>1, <2>6
      <3>2. s <= end /\ \A b \in W : s <= b.at /\ b.at <= end
        BY <2>2, <2>6, <2>7, <3>1
      <3>3. Slices!Slices(s, m, p, W, end) \in Nat
        BY <2>4, <2>5, <2>6, <3>2, SlicesAreNat
      <3> QED
        BY <3>1, <3>3
    <2>9. multiplier' \in Multipliers /\ paused' \in BOOLEAN
      <3>1. CASE W = {}
        BY <1>1, <2>2, <3>1
      <3>2. CASE W # {}
        <4>1. Slices!Latest(W) \in W
          BY <2>4, <2>5, <3>2, LatestExists
        <4>2. Slices!Latest(W).multiplier \in Multipliers /\ Slices!Latest(W).paused \in BOOLEAN
          BY <2>5, <4>1, SliceTimes
        <4> QED
          BY <2>2, <3>2, <4>2
      <3> QED
        BY <3>1, <3>2
    <2>10. done' \in Nat
      BY <1>1, <2>2, <2>8
    <2> QED
      BY <1>1, <2>2, <2>4, <2>9, <2>10 DEF SlicesTyped, Slices!TypeOK
  <1>7. CASE UNCHANGED sliceVars
    BY <1>7 DEF sliceVars, SlicesTyped, Slices!TypeOK
  <1> QED
    BY <1>2, <1>3, <1>6, <1>7 DEF Slices!Next, Slices!Change

LEMMA SlicesAreTyped == Spec => []Slices!TypeOK
  <1>1. Init => SlicesTyped
    <2> SUFFICES ASSUME Slices!Init PROVE SlicesTyped
      BY DEF Init
    <2>1. processed = 0 /\ multiplier = 1 /\ paused = FALSE /\ pending = {} /\ done = 0 /\ history = {}
      BY DEF Slices!Init
    <2>2. 0 \in Slices!Times /\ 1 \in Multipliers
      BY ServicesAssumption DEF ServicesAssumption, Slices!SlicesAssumption, Slices!Times
    <2>3. IsFiniteSet(pending)
      BY <2>1, FS_EmptySet
    <2> QED
      BY <2>1, <2>2, <2>3 DEF SlicesTyped, Slices!TypeOK
  <1>2. SlicesTyped /\ [Next]_vars => SlicesTyped'
    BY ServicesAssumption, SlicesTypedStep, Steps DEF ServicesAssumption
  <1>3. SlicesTyped => Slices!TypeOK
    BY DEF SlicesTyped
  <1> QED
    BY <1>1, <1>2, <1>3, PTL DEF Spec


\* Every variable of every service keeps to its type, and counters to their bounds.
THEOREM TypeCorrect == Spec => []TypeOK
  <1>1. Spec => []Guilds!TypeOK
    <2>1. Init => GuildsInv
      BY GuildInitInvariant DEF Init
    <2>2. GuildsInv /\ [Next]_vars => GuildsInv'
      BY GuildStepInvariant, Steps
    <2>3. GuildsInv => Guilds!TypeOK
      BY DEF GuildsInv
    <2> QED
      BY <2>1, <2>2, <2>3, PTL DEF Spec
  <1>2. Spec => []Accounts!TypeOK
    <2>1. Init => AccountsInv
      BY ServicesAssumption, AccountInitInvariant DEF Init, ServicesAssumption
    <2>2. AccountsInv /\ [Next]_vars => AccountsInv'
      BY ServicesAssumption, AccountStepInvariant, Steps DEF ServicesAssumption
    <2>3. AccountsInv => Accounts!TypeOK
      BY DEF AccountsInv
    <2> QED
      BY <2>1, <2>2, <2>3, PTL DEF Spec
  <1>3. Guilds!TypeOK /\ Forks!TypeOK /\ Accounts!TypeOK /\ Profiles!TypeOK /\ Boards!TypeOK /\ Desk!TypeOK
        /\ Stream!TypeOK /\ Rules!TypeOK /\ Slices!TypeOK => TypeOK
    BY DEF TypeOK
  <1> QED
    BY <1>1, <1>2, <1>3, ForksAreTyped, ProfilesAreTyped, BoardsAreTyped, DeskIsTyped, StreamIsTyped,
       RulesAreTyped, SlicesAreTyped, PTL
=============================================================================
