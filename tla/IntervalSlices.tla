---------------------------- MODULE IntervalSlices ----------------------------
(* One operation of MiningSimulationService: the boundary events that change  *)
(* its hashrate or pause it, and the ticks that credit the work of the window *)
(* since the last one, slice by slice (domain/mining/interval_slicer.py).     *)
(* A slice counts whole seconds; time here has Parts parts to a second.       *)
EXTENDS Integers, FiniteSets, FiniteSetsExt, Functions

CONSTANTS Parts,        \* parts of a second the clock tells apart
          Multipliers,  \* hashrate multipliers; a whole number of hashes per second each
          Unsaid,       \* what stands for a value an event does not give
          MaxTime,      \* bound: the end of time, in parts
          MaxEvents     \* bound: events that were not late, and boundaries pending

SlicesAssumption ==
  /\ Parts \in Nat \ {0} /\ MaxTime \in Nat
  /\ Multipliers \subseteq Nat \ {0} /\ 1 \in Multipliers

Times == 0 .. MaxTime
\* SimulationBoundaryEvent, and the state it is taken to begin.
Event == [at : Times, multiplier : Multipliers \cup {Unsaid}, paused : BOOLEAN \cup {Unsaid}]
Boundary == [at : Times, multiplier : Multipliers, paused : BOOLEAN]

VARIABLES last,        \* last_processed_at
          multiplier, paused,   \* current_multiplier, current_paused
          pending,     \* pending_boundaries; the order of equal ones makes no difference
          credited,    \* work added to blocks
          history      \* not program state: the events that were not late, and what they were taken for

vars == <<last, multiplier, paused, pending, credited, history>>

Init ==
  /\ last = 0
  /\ multiplier = 1
  /\ paused = FALSE
  /\ pending = {}
  /\ credited = 0
  /\ history = {}

\* _boundary_sort_key
Earlier(a, b) ==
  \/ a.at < b.at
  \/ a.at = b.at /\ b.paused /\ ~a.paused
  \/ a.at = b.at /\ a.paused = b.paused /\ a.multiplier < b.multiplier

\* _build_slice: only the whole seconds of a slice count.
SliceWork(from, to, m, p) == IF p THEN 0 ELSE m * ((to - from) \div Parts)

\* When the first of the boundaries B takes effect, or end.
Until(B, end) == Min({end} \cup {b.at : b \in B})

Latest(B) == CHOOSE b \in B : \A c \in B \ {b} : Earlier(c, b)

\* slice_progression_intervals, summed up: m and p hold from the start of the window until the
\* first of the boundaries B, and what each of them says holds until the next one.
Slices(from, m, p, B, end) ==
  LET slice == [b \in B |-> SliceWork(b.at, Until({c \in B : Earlier(b, c)}, end), b.multiplier, b.paused)]
  IN SliceWork(from, Until(B, end), m, p) + SumFunctionOnSet(slice, B)

\* What an event does not say is taken from the state the operation is in.
Filled(event, m, p) ==
  [at |-> event.at,
   multiplier |-> IF event.multiplier = Unsaid THEN m ELSE event.multiplier,
   paused |-> IF event.paused = Unsaid THEN p ELSE event.paused]

\* apply_boundary_event: the state is the one the last tick left, not the one at the event's time.
ApplyBoundaryEvent(event) ==
  LET boundary == Filled(event, multiplier, paused) IN
  /\ Cardinality(history) < MaxEvents /\ Cardinality(pending) < MaxEvents
  /\ pending' = pending \cup {boundary}
  /\ history' = IF event.at >= last THEN history \cup {[said |-> event, boundary |-> boundary]} ELSE history
  /\ UNCHANGED <<last, multiplier, paused, credited>>

Pause(at) == ApplyBoundaryEvent([at |-> at, multiplier |-> Unsaid, paused |-> TRUE])
Resume(at) == ApplyBoundaryEvent([at |-> at, multiplier |-> Unsaid, paused |-> FALSE])

\* A change of hardware, power, cooling, pool, modifier, maintenance or throttle gives either, both or none.
Change(at, m, p) == ApplyBoundaryEvent([at |-> at, multiplier |-> m, paused |-> p])

\* Mutant: a boundary at the very start of the window is left out.
OpenWindow(end) == {b \in pending : last < b.at /\ b.at < end}

Window(end) == {b \in pending : last <= b.at /\ b.at < end}

\* What is late is dropped with what was processed.
ProcessTick(end) ==
  LET B == Window(end) IN
  /\ end > last
  /\ credited' = credited + Slices(last, multiplier, paused, B, end)
  /\ last' = end
  /\ pending' = {b \in pending : b.at >= end}
  /\ multiplier' = IF B = {} THEN multiplier ELSE Latest(B).multiplier
  /\ paused' = IF B = {} THEN paused ELSE Latest(B).paused
  /\ UNCHANGED history

Next ==
  \/ \E at \in Times :
       \/ Pause(at)
       \/ Resume(at)
       \/ \E m \in Multipliers \cup {Unsaid}, p \in BOOLEAN \cup {Unsaid} : Change(at, m, p)
  \/ \E end \in Times : ProcessTick(end)

Spec == Init /\ [][Next]_vars

TypeOK ==
  /\ last \in Times
  /\ multiplier \in Multipliers /\ paused \in BOOLEAN
  /\ pending \subseteq Boundary
  /\ credited \in Nat
  /\ history \subseteq [said : Event, boundary : Boundary]

\* A new operation that is told the same history and then processes it in one window.
Replay == Slices(0, 1, FALSE, {Filled(h.said, 1, FALSE) : h \in {g \in history : g.said.at < last}}, last)

\* However the ticks cut the time, the work credited is the work of a replay of the same history
\* (docs/m1-slice-1-simulation-kernel-tick-contract.md:95, mining/service.py:129-165, 213-249).
ReplayParity == credited = Replay

\* The filling of what events leave unsaid is all that can tell them apart: as long as every
\* event was taken for what the replay takes it for, neither the cuts of the ticks nor the moment
\* an event became known change the work credited (mining/service.py:213-249).
OnlyFillingBreaksParity ==
  (\A h \in history : h.boundary = Filled(h.said, 1, FALSE)) => ReplayParity

=============================================================================
