---------------------------- MODULE PlayerProfiles ----------------------------
(* PlayerProfileService.get_profile over the row of one player, its hardware *)
(* definition and the ledger.  A load is four transactions: it counts the    *)
(* blocks, writes the progression, reads the state and writes what it        *)
(* computed, with a compare-and-set only for the offline window.             *)
EXTENDS Integers

CONSTANTS Loads,       \* profile loads in flight
          Hardware, Starter,
          Rate,        \* hardware -> work per unit of time at its effective hashrate
          Cap,         \* tier -> offline cap
          TierTwoAt, TierThreeAt,   \* 5 and 20 blocks in the code
          MaxHeat,     \* heat of a new machine
          MaxBlocks,   \* bound: blocks with a reward of the player
          MaxClock     \* bound: time

ProfilesAssumption ==
  /\ Starter \in Hardware
  /\ Rate \in [Hardware -> Nat] /\ Cap \in [1 .. 3 -> Nat]
  /\ MaxHeat \in Nat

VARIABLES clock, blocks,  \* blocks of the ledger that rewarded the player
          count, tier,    \* blocks_finalized_contributed_count, player_tier
          hardware, heat, cached,  \* hardware_id, heat_generated, effective_hashrate_cached
          last,           \* last_offline_progress_at
          work,           \* work of the mining.offline_progress.v1 entries
          load,           \* load -> what it read
          credited        \* not program state: length of the windows those entries cover

row == <<count, tier, hardware, heat, cached, last>>
vars == <<clock, blocks, row, work, load, credited>>

Idle == [step |-> "idle", count |-> 0, hardware |-> Starter, heat |-> 0, now |-> 0, last |-> 0]

\* calculate_player_tier
TierOf(n) == IF n >= TierThreeAt THEN 3 ELSE IF n >= TierTwoAt THEN 2 ELSE 1

Least(m, n) == IF m < n THEN m ELSE n

\* _apply_passive_dissipation: some of the heat is left, or all, as time and rate have it.
Cooled(h) == 0 .. h

\* simulate_offline_progress over the window of load t, capped for its tier.
OfflineWork(t) == Least(Rate[t.hardware] * (t.now - t.last), Cap[TierOf(t.count)])

\* The load asks for its window, which is whole seconds long, to be paid.
PaysWindow(t) == t.now > t.last

Init ==
  /\ clock = 0 /\ blocks = 0
  /\ count = 0 /\ tier = 1
  /\ hardware = Starter /\ heat = MaxHeat /\ cached = Rate[Starter]
  /\ last = 0 /\ work = 0 /\ credited = 0
  /\ load = [l \in Loads |-> Idle]

Tick ==
  /\ clock < MaxClock
  /\ clock' = clock + 1
  /\ UNCHANGED <<blocks, row, work, load, credited>>

BlockFinalized ==
  /\ blocks < MaxBlocks
  /\ blocks' = blocks + 1
  /\ UNCHANGED <<clock, row, work, load, credited>>

\* A purchase or a completed upgrade: new hardware starts cold.
HardwareInstalled(h) ==
  /\ hardware' = h
  /\ heat' = 0
  /\ UNCHANGED <<clock, blocks, count, tier, cached, last, work, load, credited>>

\* assign_hardware_state, before the profile load it ends with.
HardwareAssigned(h) ==
  /\ hardware' = h
  /\ UNCHANGED <<clock, blocks, count, tier, heat, cached, last, work, load, credited>>

CountsBlocks(l) ==
  /\ load[l].step = "idle"
  /\ load' = [load EXCEPT ![l] = [Idle EXCEPT !.step = "counted", !.count = blocks]]
  /\ UNCHANGED <<clock, blocks, row, work, credited>>

WritesProgression(l) ==
  /\ load[l].step = "counted"
  /\ count' = load[l].count
  /\ tier' = TierOf(load[l].count)
  /\ load' = [load EXCEPT ![l].step = "progressed"]
  /\ UNCHANGED <<clock, blocks, hardware, heat, cached, last, work, credited>>

ReadsState(l) ==
  /\ load[l].step = "progressed"
  /\ \E h \in Cooled(heat) :
       load' = [load EXCEPT ![l].step = "computed", ![l].hardware = hardware, ![l].heat = h,
                            ![l].now = clock, ![l].last = last]
  /\ UNCHANGED <<clock, blocks, row, work, credited>>

\* Mutant: the window is not compared with the row.
WritesWithoutCompare(l) ==
  LET t == load[l] IN
  /\ t.step = "computed"
  /\ cached' = Rate[t.hardware]
  /\ heat' = t.heat
  /\ IF PaysWindow(t)
     THEN /\ last' = t.now
          /\ work' = work + OfflineWork(t)
          /\ credited' = credited + t.now - t.last
     ELSE UNCHANGED <<last, work, credited>>
  /\ load' = [load EXCEPT ![l] = Idle]
  /\ UNCHANGED <<clock, blocks, count, tier, hardware>>

WritesState(l) ==
  LET t == load[l] IN
  /\ t.step = "computed"
  /\ cached' = Rate[t.hardware]
  /\ heat' = t.heat
  /\ IF PaysWindow(t) /\ last = t.last
     THEN /\ last' = t.now
          /\ work' = work + OfflineWork(t)
          /\ credited' = credited + t.now - t.last
     ELSE UNCHANGED <<last, work, credited>>
  /\ load' = [load EXCEPT ![l] = Idle]
  /\ UNCHANGED <<clock, blocks, count, tier, hardware>>

Next ==
  \/ Tick \/ BlockFinalized
  \/ \E h \in Hardware : HardwareInstalled(h) \/ HardwareAssigned(h)
  \/ \E l \in Loads : CountsBlocks(l) \/ WritesProgression(l) \/ ReadsState(l) \/ WritesState(l)

Spec == Init /\ [][Next]_vars

TypeOK ==
  /\ {clock, blocks, count, heat, last, work, credited} \subseteq Nat
  /\ tier \in 1 .. 3 /\ count <= blocks /\ heat <= MaxHeat
  /\ hardware \in Hardware /\ cached \in {Rate[h] : h \in Hardware}
  /\ \A l \in Loads : load[l].step \in {"idle", "counted", "progressed", "computed"} /\ load[l].last <= load[l].now

\* However many loads race, the windows paid as offline progress never overlap: what they
\* cover is the time up to the last of them (players/repository.py:216-258).
OfflineTimePaidOnce == credited = last /\ last <= clock

=============================================================================
