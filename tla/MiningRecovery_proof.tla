------------------------- MODULE MiningRecovery_proof -------------------------
(* Memory agrees with the durable history, for any number of threads, operations *)
(* and crashes: whatever intents are in flight, what a recovery would rebuild of *)
(* an operation without a race is what memory holds (MemoryMatchesHistory).  The *)
(* induction follows every intent from its durable event to memory (HistoryOK).  *)
EXTENDS MiningRuntime_proof

\* A thread without an intent in flight has none; an operation without a race has at
\* most one.
AloneOK ==
  /\ \A t \in Threads : pc[t] \notin InFlight => intent[t] = NoIntent
  /\ \A t, u \in Threads, op \in Ops \ raced : intent[t].op = op /\ intent[u].op = op => t = u

\* The events of an operation are in the order of their times, and what is in flight comes
\* after them.
OrderOK ==
  /\ \A op \in Ops \ raced, i, j \in DOMAIN events :
       events[i].op = op /\ events[j].op = op /\ i <= j => events[i].at <= events[j].at
  /\ \A i \in DOMAIN events : events[i].at <= now
  /\ \A t \in Threads, op \in Ops \ raced, i \in DOMAIN events :
       intent[t].op = op /\ events[i].op = op => events[i].at <= intent[t].at
  /\ \A t \in Threads : intent[t].at <= now

\* Every start of op is followed by a stop.
Stopped(op) == \A k \in OfType("start", op) : \E j \in OfType("stop", op) : k < j

\* i is the last start of op, no stop follows it, and every earlier start was stopped
\* before it.
Runs(op, i) ==
  /\ i \in OfType("start", op)
  /\ \A j \in OfType("stop", op) : j < i
  /\ \A k \in OfType("start", op) : k # i => k < i /\ \E j \in OfType("stop", op) : k < j /\ j < i

\* Memory says of op what its events say.
Matches(op) ==
  IF Registered(op)
  THEN \E i \in DOMAIN events :
         /\ Runs(op, i) /\ operations[op].sid = events[i].sid
         /\ operations[op].player = events[i].player /\ operations[op].rate = events[i].rate
  ELSE Stopped(op)

\* Where t's intent for op stands between the durable event and memory.
IntentMatches(t, op) ==
  /\ pc[t] = "start_persist" => ~Registered(op) /\ Stopped(op)
  /\ pc[t] = "start_register" =>
       \E i \in DOMAIN events :
         /\ Runs(op, i) /\ intent[t].sid = events[i].sid
         /\ intent[t].player = events[i].player /\ intent[t].rate = events[i].rate
  /\ pc[t] = "stop_persist" => Registered(op) /\ Matches(op)
  /\ pc[t] = "stop_delete" => Stopped(op)

HistoryOK ==
  /\ \A op \in Ops \ raced : Stopped(op) \/ \E i \in DOMAIN events : Runs(op, i)
  /\ recovered => \A op \in Ops \ raced : (\A t \in Threads : intent[t].op # op) => Matches(op)
  /\ \A t \in Threads, op \in Ops \ raced : intent[t].op = op => IntentMatches(t, op)

HInv == IInv /\ AloneOK /\ OrderOK /\ HistoryOK

-----------------------------------------------------------------------------
(* What the durable events say of an operation.                            *)

LEMMA EventsAreTyped ==
  ASSUME TypeOK
  PROVE  /\ DOMAIN events = 1..Len(events) /\ Len(events) \in Nat /\ DOMAIN events \subseteq Int
         /\ \A i \in DOMAIN events : events[i] \in EventType /\ events[i].at \in Int
  <1>1. events \in Seq(EventType) /\ DOMAIN events = 1..Len(events) /\ Len(events) \in Nat
    BY DEF TypeOK
  <1>2. \A i \in DOMAIN events : events[i] \in EventType
    BY <1>1
  <1>3. \A e \in EventType : e.at \in Int
    BY RuntimeAssumption DEF EventType, Times
  <1> QED
    BY <1>1, <1>2, <1>3

\* Without a race the events of an operation are replayed in the order they were written.
LEMMA ReplayedInOrder ==
  ASSUME TypeOK, OrderOK, NEW op \in Ops \ raced, NEW i \in DOMAIN events, NEW j \in DOMAIN events,
         events[i].op = op, events[j].op = op
  PROVE  Before(i, j) <=> i < j
  <1>1. i \in Int /\ j \in Int /\ events[i].at \in Int /\ events[j].at \in Int
    BY EventsAreTyped
  <1>2. (i <= j => events[i].at <= events[j].at) /\ (j <= i => events[j].at <= events[i].at)
    BY DEF OrderOK
  <1> QED
    BY <1>1, <1>2 DEF Before

\* Replay registers an operation exactly when its last start was not stopped.
LEMMA ReplayedRuns ==
  ASSUME TypeOK, OrderOK, NEW op \in Ops \ raced, NEW i \in DOMAIN events, Runs(op, i)
  PROVE  Replayed(op) = [sid |-> events[i].sid, player |-> events[i].player,
                         rate |-> events[i].rate, last |-> events[i].at]
  <1> DEFINE S == OfType("start", op)
             T == OfType("stop", op)
  <1>1. \A j \in S \cup T : j \in DOMAIN events /\ events[j].op = op /\ j \in Int
    BY EventsAreTyped DEF OfType
  <1>2. \A j, k \in S \cup T : Before(j, k) <=> j < k
    BY <1>1, ReplayedInOrder
  <1>3. /\ i \in S /\ \A j \in T : j < i
        /\ \A k \in S : k # i => k < i /\ \E j \in T : k < j /\ j < i
    BY DEF Runs
  <1>4. i \in Int
    BY <1>1, <1>3
  <1> HIDE DEF S, T
  <1>5. Revives(i, op)
    <2>1. \A k \in S : Before(k, i) => \E j \in T : Before(k, j) /\ Before(j, i)
      BY <1>2, <1>3, <1>4
    <2>2. \A j \in T : Before(j, i)
      BY <1>2, <1>3
    <2> QED
      BY <1>3, <2>1, <2>2 DEF Revives, S, T
  <1>6. ASSUME NEW k \in DOMAIN events, Revives(k, op)
        PROVE  k = i
    <2>1. k \in S /\ \A j \in T : Before(j, k)
      BY <1>6 DEF Revives, S, T
    <2>2. SUFFICES ASSUME k # i PROVE FALSE
      OBVIOUS
    <2>3. PICK j \in T : k < j
      BY <1>3, <2>1, <2>2
    <2>4. j < k
      BY <1>2, <2>1
    <2> QED
      BY <1>1, <2>1, <2>3, <2>4
  <1>7. (CHOOSE k \in DOMAIN events : Revives(k, op)) = i
    BY <1>5, <1>6
  <1> QED
    BY <1>5, <1>7 DEF Replayed

LEMMA ReplayedStopped ==
  ASSUME TypeOK, OrderOK, NEW op \in Ops \ raced, Stopped(op)
  PROVE  Replayed(op) = Absent
  <1>1. ASSUME NEW i \in DOMAIN events, Revives(i, op)
        PROVE  FALSE
    <2>1. i \in OfType("start", op) /\ \A j \in OfType("stop", op) : Before(j, i)
      BY <1>1 DEF Revives
    <2>2. PICK j \in OfType("stop", op) : i < j
      BY <2>1 DEF Stopped
    <2>3. /\ j \in DOMAIN events /\ events[j].op = op /\ events[i].op = op
          /\ i \in Int /\ j \in Int
      BY <2>1, <2>2, EventsAreTyped DEF OfType
    <2>4. j < i
      BY <2>1, <2>2, <2>3, ReplayedInOrder
    <2> QED
      BY <2>2, <2>3, <2>4
  <1> QED
    BY <1>1 DEF Replayed

\* An event is written after all the others.
LEMMA EventAppended ==
  ASSUME TypeOK, NEW e \in EventType, events' = Append(events, e), NEW n, n = Len(events) + 1
  PROVE  /\ DOMAIN events' = DOMAIN events \cup {n} /\ events'[n] = e /\ n \notin DOMAIN events
         /\ \A i \in DOMAIN events : events'[i] = events[i] /\ i < n
         /\ n \in Int
  <1>1. events \in Seq(EventType) /\ DOMAIN events = 1..Len(events) /\ Len(events) \in Nat
    BY DEF TypeOK
  <1>2. DOMAIN events' = 1..n /\ events'[n] = e /\ \A i \in 1..Len(events) : events'[i] = events[i]
    BY <1>1
  <1>3. 1..n = 1..Len(events) \cup {n} /\ n \notin 1..Len(events) /\ n \in Int
        /\ \A i \in 1..Len(events) : i < n
    BY <1>1
  <1>4. DOMAIN events' = DOMAIN events \cup {n} /\ n \notin DOMAIN events
    BY <1>1, <1>2, <1>3
  <1>5. \A i \in DOMAIN events : events'[i] = events[i] /\ i < n
    BY <1>1, <1>2, <1>3
  <1>6. events'[n] = e /\ n \in Int
    BY <1>2, <1>3
  <1> QED
    BY <1>4, <1>5, <1>6

LEMMA StartAppended ==
  ASSUME TypeOK, NEW e \in EventType, events' = Append(events, e), NEW n, n = Len(events) + 1,
         e.type = "start", Stopped(e.op)
  PROVE  Runs(e.op, n)'
  <1>1. /\ OfType("start", e.op)' = OfType("start", e.op) \cup {n}
        /\ OfType("stop", e.op)' = OfType("stop", e.op)
    BY EventAppended DEF OfType
  <1>2. \A k \in OfType("start", e.op) \cup OfType("stop", e.op) : k < n
    BY EventAppended DEF OfType
  <1> QED
    BY <1>1, <1>2 DEF Runs, Stopped

LEMMA StopAppended ==
  ASSUME TypeOK, NEW e \in EventType, events' = Append(events, e), e.type = "stop"
  PROVE  Stopped(e.op)'
  <1>1. PICK n : n = Len(events) + 1
    OBVIOUS
  <1>2. /\ OfType("start", e.op)' = OfType("start", e.op)
        /\ OfType("stop", e.op)' = OfType("stop", e.op) \cup {n}
    BY <1>1, EventAppended DEF OfType
  <1>3. \A k \in OfType("start", e.op) : k < n
    BY <1>1, EventAppended DEF OfType
  <1> QED
    BY <1>2, <1>3 DEF Stopped

\* The events of the other operations say what they said.
LEMMA OthersAppended ==
  ASSUME TypeOK, NEW e \in EventType, events' = Append(events, e), NEW op, e.op # op
  PROVE  /\ Stopped(op)' <=> Stopped(op)
         /\ \A i \in DOMAIN events :
              /\ Runs(op, i) => Runs(op, i)'
              /\ events'[i] = events[i] /\ i \in DOMAIN events'
  <1>1. PICK n : n = Len(events) + 1
    OBVIOUS
  <1>2. /\ OfType("start", op)' = OfType("start", op)
        /\ OfType("stop", op)' = OfType("stop", op)
    BY <1>1, EventAppended DEF OfType
  <1>3. \A i \in DOMAIN events : events'[i] = events[i] /\ i \in DOMAIN events'
    BY <1>1, EventAppended
  <1> QED
    BY <1>2, <1>3 DEF Stopped, Runs

-----------------------------------------------------------------------------
(* Memory keeps saying what the events say.                                *)

\* A step that changes no intent, no event and, but for how far it was ticked, no
\* registration.
Unaffected ==
  /\ events' = events /\ raced' = raced /\ intent' = intent /\ recovered' = recovered
  /\ now' \in Times /\ now <= now'
  /\ \A t \in Threads : pc'[t] = pc[t] \/ (pc[t] \notin InFlight /\ pc'[t] \notin InFlight)
  /\ \A op \in Ops :
       /\ Registered(op)' <=> Registered(op)
       /\ operations'[op].sid = operations[op].sid /\ operations'[op].player = operations[op].player
       /\ operations'[op].rate = operations[op].rate

LEMMA UnaffectedMatches ==
  ASSUME HInv, Unaffected
  PROVE  AloneOK' /\ OrderOK' /\ HistoryOK'
  <1> USE DEF HInv, Unaffected
  <1>1. AloneOK'
    BY DEF AloneOK
  <1>2. OrderOK'
    <2>1. (\A i \in DOMAIN events : events[i].at \in Int) /\ now \in Int /\ now' \in Int
      BY EventsAreTyped, RuntimeAssumption DEF IInv, TypeOK, Times
    <2>2. \A t \in Threads : intent[t].at \in Int
      BY RuntimeAssumption DEF IInv, TypeOK, IntentType, Times
    <2>3. \A n \in Int : n <= now => n <= now'
      BY <2>1
    <2> QED
      BY <2>1, <2>2, <2>3 DEF OrderOK
  <1>3. \A op \in Ops : /\ Stopped(op)' <=> Stopped(op)
                        /\ \A i : Runs(op, i)' <=> Runs(op, i)
    BY DEF Stopped, Runs, OfType
  <1>4. \A op \in Ops : Matches(op) => Matches(op)'
    BY DEF Matches, Stopped, Runs, OfType
  <1>5. \A t \in Threads, op \in Ops : IntentMatches(t, op) => IntentMatches(t, op)'
    <2>1. ASSUME NEW t \in Threads, NEW op \in Ops, IntentMatches(t, op)
          PROVE  IntentMatches(t, op)'
      <3>1. CASE pc'[t] = pc[t]
        BY <2>1, <3>1, <1>4 DEF IntentMatches, Stopped, Runs, OfType
      <3>2. CASE pc'[t] \notin InFlight
        BY <3>2 DEF IntentMatches, InFlight
      <3> QED
        BY <3>1, <3>2
    <2> QED
      BY <2>1
  <1>6. HistoryOK'
    BY <1>3, <1>4, <1>5 DEF HistoryOK, Stopped, Runs, OfType
  <1> QED
    BY <1>1, <1>2, <1>6

\* The steps of an advance are such steps.
LEMMA AdvanceUnaffected ==
  ASSUME HInv, NEW t \in Threads, AdvanceBegin(t) \/ TickStep(t) \/ TickFails(t)
  PROVE  Unaffected
  <1> USE DEF HInv, memory, locals, database, bounds, history
  <1>1. now' = now /\ events' = events /\ raced' = raced /\ recovered' = recovered
    BY DEF AdvanceBegin, TickStep, TickFails, AdvanceEnd, TickUnregistered, TickUpToDate, TickRead, TickClaim,
           WorkAdded, BlockFinalized, PostPool, PostShares, Announce, PublishProgress, Credited
  <1>2. now \in Times /\ now <= now
    BY RuntimeAssumption DEF IInv, TypeOK, Times
  <1>3. /\ pc \in [Threads -> {"idle"} \cup InFlight \cup Ticking]
        /\ intent \in [Threads -> IntentType] /\ operations \in [Ops -> Registration]
    BY DEF IInv, TypeOK
  <1>4. \A u \in Threads : pc'[u] = pc[u] \/ (pc[u] \notin InFlight /\ pc'[u] \notin InFlight)
    BY <1>3 DEF AdvanceBegin, TickStep, TickFails, AdvanceEnd, TickUnregistered, TickUpToDate, TickRead, TickClaim,
           WorkAdded, BlockFinalized, PostPool, PostShares, Announce, PublishProgress, LeaveAdvance, Finish, Goto,
           CallsDatabase, InFlight
  <1>5. pc[t] \notin InFlight
    BY DEF AdvanceBegin, TickStep, TickFails, AdvanceEnd, TickUnregistered, TickUpToDate, TickRead, TickClaim,
           WorkAdded, BlockFinalized, PostPool, PostShares, Announce, PublishProgress, CallsDatabase, InFlight
  <1>6. intent' = intent \/ intent' = [intent EXCEPT ![t] = NoIntent]
    BY DEF AdvanceBegin, TickStep, TickFails, AdvanceEnd, TickUnregistered, TickUpToDate, TickRead, TickClaim,
           WorkAdded, BlockFinalized, PostPool, PostShares, Announce, PublishProgress, LeaveAdvance, Finish
  <1>7. intent' = intent
    BY <1>3, <1>5, <1>6 DEF AloneOK
  <1>8. CASE TickClaim(t)
    <2>1. tick[t].sid # 0
      BY <1>8 DEF TickClaim, IInv, ControlOK, TickOK, InTick, Crediting
    <2>2. \A op \in Ops : /\ operations'[op].sid = operations[op].sid
                          /\ operations'[op].player = operations[op].player
                          /\ operations'[op].rate = operations[op].rate
                          /\ operations'[op] = operations[op] \/ operations[op].sid = tick[t].sid
      BY <1>3, <1>8 DEF TickClaim, Registration
    <2>3. \A op \in Ops : Registered(op)' <=> Registered(op)
      BY <2>1, <2>2 DEF Registered, Absent
    <2> QED
      BY <1>1, <1>2, <1>4, <1>7, <2>2, <2>3 DEF Unaffected
  <1>9. CASE operations' = operations
    <2>1. \A op \in Ops : Registered(op)' <=> Registered(op)
      BY <1>9 DEF Registered
    <2> QED
      BY <1>1, <1>2, <1>4, <1>7, <1>9, <2>1 DEF Unaffected
  <1> QED
    BY <1>8, <1>9 DEF AdvanceBegin, TickStep, TickFails, AdvanceEnd, TickUnregistered, TickUpToDate, TickRead,
           WorkAdded, BlockFinalized, PostPool, PostShares, Announce, PublishProgress

\* A new intent finds memory and the events in agreement, or is a race.
LEMMA IntentBegins ==
  ASSUME HInv, NEW t \in Threads, NEW o \in Ops, pc[t] = "idle", recovered, recovered' = recovered,
         NEW label \in {"start_persist", "stop_persist"}, pc' = [pc EXCEPT ![t] = label],
         NEW x \in IntentType, x.op = o, x.at = now, intent' = [intent EXCEPT ![t] = x], Race(t, o),
         (label = "start_persist") <=> ~Registered(o),
         UNCHANGED <<now, operations, events>>
  PROVE  AloneOK' /\ OrderOK' /\ HistoryOK'
  <1> USE DEF HInv
  <1>1. /\ pc \in [Threads -> {"idle"} \cup InFlight \cup Ticking] /\ intent \in [Threads -> IntentType]
        /\ raced \subseteq Ops /\ None \notin Ops
    BY RuntimeAssumption DEF IInv, TypeOK
  <1>2. /\ intent[t] = NoIntent /\ intent'[t] = x /\ pc'[t] = label
        /\ \A u \in Threads \ {t} : intent'[u] = intent[u] /\ pc'[u] = pc[u]
    BY <1>1 DEF AloneOK, InFlight
  <1>3. raced \subseteq raced' /\ (o \notin raced' => \A u \in Threads \ {t} : intent[u].op # o)
    BY DEF Race, Overlapping
  <1>4. \A op \in Ops : intent[t].op # op
    BY <1>1, <1>2 DEF NoIntent
  <1>5. AloneOK'
    BY <1>2, <1>3 DEF AloneOK, InFlight
  <1>6. OrderOK'
    <2>1. now \in Int
      BY RuntimeAssumption DEF IInv, TypeOK, Times
    <2> QED
      BY <1>2, <1>3, <2>1 DEF OrderOK
  <1>7. \A op \in Ops : /\ Stopped(op)' <=> Stopped(op)
                        /\ \A i : Runs(op, i)' <=> Runs(op, i)
                        /\ Registered(op)' <=> Registered(op)
                        /\ Matches(op)' <=> Matches(op)
    BY DEF Stopped, Runs, OfType, Registered, Matches
  <1>8. o \notin raced' => Matches(o)
    BY <1>2, <1>3, <1>4 DEF HistoryOK
  <1>9. ASSUME NEW u \in Threads, NEW op \in Ops \ raced', intent'[u].op = op
        PROVE  IntentMatches(u, op)'
    <2>1. CASE u = t
      <3>1. op = o /\ op \notin raced'
        BY <1>2, <1>9, <2>1
      <3>2. Matches(op)
        BY <1>8, <3>1
      <3>3. Registered(op) \/ Stopped(op)
        BY <3>2 DEF Matches
      <3>4. Stopped(op)' <=> Stopped(op)
        BY DEF Stopped, OfType
      <3>5. Registered(op)' <=> Registered(op)
        BY DEF Registered
      <3>6. Matches(op)'
        BY <3>2 DEF Matches, Registered, Stopped, Runs, OfType
      <3> QED
        BY <1>2, <2>1, <3>1, <3>3, <3>4, <3>5, <3>6 DEF IntentMatches
    <2>2. CASE u # t
      <3>1. IntentMatches(u, op)
        BY <1>2, <1>3, <1>9, <2>2 DEF HistoryOK
      <3> QED
        BY <1>2, <2>2, <3>1 DEF IntentMatches, Stopped, Runs, OfType, Registered, Matches
    <2> QED
      BY <2>1, <2>2
  <1>10. HistoryOK'
    <2>1. \A op \in Ops \ raced' : (Stopped(op) \/ \E i \in DOMAIN events : Runs(op, i))'
      BY <1>3 DEF HistoryOK, Stopped, Runs, OfType
    <2>2. ASSUME NEW op \in Ops \ raced', \A u \in Threads : intent'[u].op # op
          PROVE  Matches(op)'
      <3>1. \A u \in Threads : intent[u].op # op
        BY <1>2, <1>4, <2>2
      <3>2. Matches(op)
        BY <1>3, <3>1 DEF HistoryOK
      <3> QED
        BY <3>2 DEF Matches, Registered, Stopped, Runs, OfType
    <2> QED
      BY <1>9, <2>1, <2>2 DEF HistoryOK
  <1> QED
    BY <1>5, <1>6, <1>10

\* A durable event of the operation an intent is about.
LEMMA EventPersisted ==
  ASSUME HInv, NEW t \in Threads, NEW o \in Ops, intent[t].op = o,
         NEW e \in EventType, e.op = o, e.at = intent[t].at, events' = Append(events, e),
         \/ /\ pc[t] = "start_persist" /\ pc' = [pc EXCEPT ![t] = "start_register"] /\ e.type = "start"
            /\ e.sid = intent[t].sid /\ e.player = intent[t].player /\ e.rate = intent[t].rate
         \/ pc[t] = "stop_persist" /\ pc' = [pc EXCEPT ![t] = "stop_delete"] /\ e.type = "stop",
         UNCHANGED <<now, operations, intent, recovered, raced>>
  PROVE  AloneOK' /\ OrderOK' /\ HistoryOK'
  <1> USE DEF HInv
  <1>1. pc \in [Threads -> {"idle"} \cup InFlight \cup Ticking] /\ \A u \in Threads \ {t} : pc'[u] = pc[u]
    BY DEF IInv, TypeOK
  <1>2. PICK n : n = Len(events) + 1
    OBVIOUS
  <1>3. /\ DOMAIN events' = DOMAIN events \cup {n} /\ events'[n] = e /\ n \notin DOMAIN events
        /\ \A i \in DOMAIN events : events'[i] = events[i] /\ i < n
        /\ n \in Int
    BY <1>2, EventAppended DEF IInv
  <1>4. AloneOK'
    BY <1>1 DEF AloneOK, InFlight
  <1>5. OrderOK'
    <2>1. intent[t].at <= now /\ intent[t].at \in Int /\ \A i \in DOMAIN events : i \in Int
      BY EventsAreTyped, RuntimeAssumption DEF OrderOK, IInv, TypeOK, IntentType, Times
    <2>2. ASSUME NEW op \in Ops \ raced, NEW i \in DOMAIN events', NEW j \in DOMAIN events',
                 events'[i].op = op, events'[j].op = op, i <= j
          PROVE  events'[i].at <= events'[j].at
      <3>1. CASE j \in DOMAIN events
        <4>1. i # n
          BY <1>3, <2>1, <2>2, <3>1
        <4>2. i \in DOMAIN events
          BY <1>3, <4>1
        <4> QED
          BY <1>3, <2>2, <3>1, <4>2 DEF OrderOK
      <3>2. CASE j = n
        <4>1. CASE i = n
          BY <1>3, <2>1, <3>2, <4>1
        <4>2. CASE i \in DOMAIN events
          BY <1>3, <2>2, <3>2, <4>2 DEF OrderOK
        <4> QED
          BY <1>3, <4>1, <4>2
      <3> QED
        BY <1>3, <3>1, <3>2
    <2>3. \A i \in DOMAIN events' : events'[i].at <= now
      BY <1>3, <2>1 DEF OrderOK
    <2>4. ASSUME NEW u \in Threads, NEW op \in Ops \ raced, NEW i \in DOMAIN events',
                 intent[u].op = op, events'[i].op = op
          PROVE  events'[i].at <= intent[u].at
      <3>1. CASE i = n
        <4>1. u = t
          BY <1>3, <2>4, <3>1 DEF AloneOK
        <4> QED
          BY <1>3, <2>1, <3>1, <4>1
      <3>2. CASE i \in DOMAIN events
        BY <1>3, <2>4, <3>2 DEF OrderOK
      <3> QED
        BY <1>3, <3>1, <3>2
    <2> QED
      BY <2>2, <2>3, <2>4 DEF OrderOK
  <1>6. ASSUME NEW op \in Ops, op # o
        PROVE  /\ Stopped(op)' <=> Stopped(op)
               /\ \A i \in DOMAIN events : (Runs(op, i) => Runs(op, i)') /\ events'[i] = events[i] /\ i \in DOMAIN events'
               /\ Registered(op)' <=> Registered(op)
               /\ Matches(op) => Matches(op)'
    <2>1. /\ Stopped(op)' <=> Stopped(op)
          /\ \A i \in DOMAIN events : (Runs(op, i) => Runs(op, i)') /\ events'[i] = events[i] /\ i \in DOMAIN events'
      BY <1>6, OthersAppended DEF IInv
    <2>2. Registered(op)' <=> Registered(op)
      BY DEF Registered
    <2>3. ASSUME Matches(op)
          PROVE  Matches(op)'
      <3>1. CASE Registered(op)
        <4>1. PICK i \in DOMAIN events :
                /\ Runs(op, i) /\ operations[op].sid = events[i].sid
                /\ operations[op].player = events[i].player /\ operations[op].rate = events[i].rate
          BY <2>3, <3>1 DEF Matches
        <4>2. Runs(op, i)' /\ events'[i] = events[i] /\ i \in DOMAIN events'
          BY <2>1, <4>1
        <4>3. operations' = operations
          OBVIOUS
        <4> QED
          BY <2>2, <3>1, <4>1, <4>2, <4>3 DEF Matches
      <3>2. CASE ~Registered(op)
        BY <2>1, <2>2, <2>3, <3>2 DEF Matches
      <3> QED
        BY <3>1, <3>2
    <2> QED
      BY <2>1, <2>2, <2>3
  <1>7. \/ IntentMatches(t, o)' /\ (Stopped(o)' \/ \E i \in DOMAIN events' : Runs(o, i)')
        \/ o \in raced
    <2>1. SUFFICES ASSUME o \notin raced
                   PROVE  IntentMatches(t, o)' /\ (Stopped(o)' \/ \E i \in DOMAIN events' : Runs(o, i)')
      OBVIOUS
    <2>2. IntentMatches(t, o)
      BY <2>1 DEF HistoryOK
    <2>3. CASE pc[t] = "start_persist"
      <3>1. Stopped(e.op)
        BY <2>2, <2>3 DEF IntentMatches
      <3>2. Runs(e.op, n)'
        BY <1>2, <2>3, <3>1, StartAppended DEF IInv
      <3>3. Runs(o, n)'
        BY <3>2
      <3>4. /\ pc'[t] = "start_register" /\ n \in DOMAIN events' /\ intent'[t].sid = events'[n].sid
            /\ intent'[t].player = events'[n].player /\ intent'[t].rate = events'[n].rate
        BY <1>1, <1>3, <2>3 DEF IInv, TypeOK
      <3> QED
        BY <3>3, <3>4 DEF IntentMatches
    <2>4. CASE pc[t] = "stop_persist"
      <3>1. Stopped(e.op)'
        BY <2>4, StopAppended DEF IInv
      <3>2. Stopped(o)'
        BY <3>1
      <3>3. pc'[t] = "stop_delete"
        BY <1>1, <2>4 DEF IInv, TypeOK
      <3> QED
        BY <3>2, <3>3 DEF IntentMatches
    <2> QED
      BY <2>3, <2>4
  <1>8. ASSUME NEW u \in Threads, NEW op \in Ops \ raced, intent[u].op = op
        PROVE  IntentMatches(u, op)'
    <2>1. CASE op = o
      <3>1. u = t
        BY <1>8, <2>1 DEF AloneOK
      <3> QED
        BY <1>7, <1>8, <2>1, <3>1
    <2>2. CASE op # o
      <3>1. u # t
        BY <1>8, <2>2
      <3>2. IntentMatches(u, op) /\ pc'[u] = pc[u] /\ intent'[u] = intent[u]
        BY <1>1, <1>8, <3>1 DEF HistoryOK
      <3>3. CASE pc[u] = "start_register"
        <4>1. PICK i \in DOMAIN events :
                /\ Runs(op, i) /\ intent[u].sid = events[i].sid
                /\ intent[u].player = events[i].player /\ intent[u].rate = events[i].rate
          BY <3>2, <3>3 DEF IntentMatches
        <4>2. Runs(op, i)' /\ events'[i] = events[i] /\ i \in DOMAIN events'
          BY <1>6, <2>2, <4>1
        <4> QED
          BY <3>2, <3>3, <4>1, <4>2 DEF IntentMatches
      <3>4. CASE pc[u] # "start_register"
        BY <1>6, <2>2, <3>2, <3>4 DEF IntentMatches
      <3> QED
        BY <3>3, <3>4
    <2> QED
      BY <2>1, <2>2
  <1>9. ASSUME NEW op \in Ops \ raced
        PROVE  (Stopped(op) \/ \E i \in DOMAIN events : Runs(op, i))'
    <2>1. CASE op = o
      BY <1>7, <1>9, <2>1
    <2>2. CASE op # o
      BY <1>6, <2>2 DEF HistoryOK
    <2> QED
      BY <2>1, <2>2
  <1>10. ASSUME NEW op \in Ops \ raced, recovered, \A u \in Threads : intent[u].op # op
         PROVE  Matches(op)'
    BY <1>6, <1>10 DEF HistoryOK
  <1>11. HistoryOK'
    <2>1. recovered' = recovered /\ raced' = raced /\ intent' = intent
      OBVIOUS
    <2> QED
      BY <1>8, <1>9, <1>10, <2>1 DEF HistoryOK
  <1> QED
    BY <1>4, <1>5, <1>11

\* An intent is over: what it made of memory is what the events say by then.
LEMMA IntentEnds ==
  ASSUME HInv, NEW t \in Threads, NEW o \in Ops, intent[t].op = o, pc' = [pc EXCEPT ![t] = "idle"],
         intent' = [intent EXCEPT ![t] = NoIntent], UNCHANGED <<now, events, recovered, raced>>,
         \A op \in Ops \ {o} : operations'[op] = operations[op],
         o \notin raced => Matches(o)'
  PROVE  AloneOK' /\ OrderOK' /\ HistoryOK'
  <1> USE DEF HInv
  <1>1. /\ pc \in [Threads -> {"idle"} \cup InFlight \cup Ticking] /\ intent \in [Threads -> IntentType]
        /\ None \notin Ops
    BY RuntimeAssumption DEF IInv, TypeOK
  <1>2. /\ intent'[t] = NoIntent /\ pc'[t] = "idle"
        /\ \A u \in Threads \ {t} : intent'[u] = intent[u] /\ pc'[u] = pc[u]
        /\ \A op \in Ops : NoIntent.op # op
    BY <1>1 DEF NoIntent
  <1>3. AloneOK'
    BY <1>2 DEF AloneOK, InFlight
  <1>4. OrderOK'
    <2>1. now \in Nat /\ NoIntent.at = 0
      BY RuntimeAssumption DEF IInv, TypeOK, Times, NoIntent
    <2> QED
      BY <1>2, <2>1 DEF OrderOK
  <1>5. ASSUME NEW op \in Ops, op # o
        PROVE  Matches(op)' <=> Matches(op)
    BY <1>5 DEF Matches, Registered, Stopped, Runs, OfType
  <1>6. ASSUME NEW u \in Threads, NEW op \in Ops \ raced, intent'[u].op = op
        PROVE  IntentMatches(u, op)'
    <2>1. u # t
      BY <1>2, <1>6
    <2>2. op # o
      BY <1>2, <1>6, <2>1 DEF AloneOK
    <2>3. IntentMatches(u, op)
      BY <1>2, <1>6, <2>1 DEF HistoryOK
    <2> QED
      BY <1>2, <2>1, <2>2, <2>3 DEF IntentMatches, Registered, Matches, Stopped, Runs, OfType
  <1>7. ASSUME NEW op \in Ops \ raced, recovered, \A u \in Threads : intent'[u].op # op
        PROVE  Matches(op)'
    <2>1. CASE op = o
      BY <1>7, <2>1
    <2>2. CASE op # o
      <3>1. \A u \in Threads : intent[u].op # op
        BY <1>2, <1>7, <2>2
      <3> QED
        BY <1>5, <1>7, <2>2, <3>1 DEF HistoryOK
    <2> QED
      BY <2>1, <2>2
  <1>8. HistoryOK'
    <2>1. \A op \in Ops \ raced : (Stopped(op) \/ \E i \in DOMAIN events : Runs(op, i))'
      BY DEF HistoryOK, Stopped, Runs, OfType
    <2> QED
      BY <1>6, <1>7, <2>1 DEF HistoryOK
  <1> QED
    BY <1>3, <1>4, <1>8

\* The initial states match.
LEMMA InitMatches == Init => HInv
  <1> SUFFICES ASSUME Init PROVE HInv
    OBVIOUS
  <1>1. IInv
    BY InitInvariant
  <1>2. events = <<>> /\ DOMAIN events = {} /\ now = 0
    BY DEF Init
  <1>3. \A t \in Threads : intent[t] = NoIntent /\ NoIntent.op = None /\ NoIntent.at = 0
    BY DEF Init, NoIntent
  <1>4. AloneOK
    BY <1>3, RuntimeAssumption DEF AloneOK
  <1>5. OrderOK
    BY <1>2, <1>3 DEF OrderOK
  <1>6. \A op \in Ops : Stopped(op) /\ Matches(op)
    BY <1>2 DEF Init, Stopped, Matches, OfType, Registered
  <1>7. HistoryOK
    BY <1>3, <1>6, RuntimeAssumption DEF HistoryOK
  <1> QED
    BY <1>1, <1>4, <1>5, <1>7 DEF HInv

\* A crash forgets the intents; a recovery replays the events.
LEMMA RestartMatches ==
  ASSUME HInv, Crash \/ Recover
  PROVE  AloneOK' /\ OrderOK' /\ HistoryOK'
  <1> USE DEF HInv, memory, locals, database, bounds, history
  <1>1. events' = events /\ raced' = raced /\ now' = now
    BY DEF Crash, Recover
  <1>2. \A t \in Threads : intent'[t] = NoIntent /\ NoIntent.op = None /\ NoIntent.at = 0 /\ None \notin Ops
    <2>1. CASE Crash
      BY <2>1, RuntimeAssumption DEF Crash, NoIntent
    <2>2. CASE Recover
      <3>1. \A t \in Threads : pc[t] = "idle" /\ intent'[t] = intent[t]
        BY <2>2 DEF Recover, IInv, ControlOK, QuietOK
      <3> QED
        BY <3>1, RuntimeAssumption DEF AloneOK, InFlight, NoIntent
    <2> QED
      BY <2>1, <2>2
  <1>3. AloneOK'
    BY <1>1, <1>2 DEF AloneOK
  <1>4. OrderOK'
    <2>1. now \in Nat
      BY RuntimeAssumption DEF IInv, TypeOK, Times
    <2> QED
      BY <1>1, <1>2, <2>1 DEF OrderOK
  <1>5. ASSUME NEW op \in Ops \ raced, recovered'
        PROVE  Matches(op)'
    <2>1. Recover
      BY <1>5 DEF Crash
    <2>2. operations'[op] = Replayed(op)
      BY <2>1 DEF Recover
    <2>3. CASE Stopped(op)
      <3>1. operations'[op] = Absent
        BY <2>2, <2>3, ReplayedStopped DEF IInv
      <3> QED
        BY <1>1, <2>3, <3>1 DEF Matches, Registered, Stopped, OfType
    <2>4. CASE \E i \in DOMAIN events : Runs(op, i)
      <3>1. PICK i \in DOMAIN events : Runs(op, i)
        BY <2>4
      <3>2. operations'[op] = [sid |-> events[i].sid, player |-> events[i].player,
                               rate |-> events[i].rate, last |-> events[i].at]
        BY <2>2, <3>1, ReplayedRuns DEF IInv
      <3>3. events[i].player \in Players /\ None \notin Players
        BY EventsAreTyped, RuntimeAssumption DEF IInv, EventType
      <3>4. operations'[op] # Absent
        BY <3>2, <3>3 DEF Absent
      <3> QED
        BY <1>1, <3>1, <3>2, <3>4 DEF Matches, Registered, Runs, OfType
    <2> QED
      BY <2>3, <2>4 DEF HistoryOK
  <1>6. HistoryOK'
    <2>1. \A op \in Ops \ raced : (Stopped(op) \/ \E i \in DOMAIN events : Runs(op, i))'
      BY <1>1 DEF HistoryOK, Stopped, Runs, OfType
    <2> QED
      BY <1>1, <1>2, <1>5, <2>1 DEF HistoryOK
  <1> QED
    BY <1>3, <1>4, <1>6

\* So does every step.
LEMMA StepMatches == HInv /\ [Next]_vars => HInv'
  <1> SUFFICES ASSUME HInv, [Next]_vars PROVE AloneOK' /\ OrderOK' /\ HistoryOK'
    BY StepInvariant DEF HInv
  <1> USE DEF memory, locals, database, bounds, history
  <1>1. /\ intent \in [Threads -> IntentType] /\ operations \in [Ops -> Registration]
        /\ now \in Times /\ pc \in [Threads -> {"idle"} \cup InFlight \cup Ticking]
    BY DEF HInv, IInv, TypeOK
  <1>2. CASE Clock \/ UNCHANGED vars
    <2>1. Unaffected
      <3>1. now' \in Times /\ now <= now'
        BY <1>1, <1>2, RuntimeAssumption DEF Clock, vars, Times
      <3>2. events' = events /\ raced' = raced /\ intent' = intent /\ recovered' = recovered
            /\ pc' = pc /\ operations' = operations
        BY <1>2 DEF Clock, vars
      <3>3. \A op \in Ops : Registered(op)' <=> Registered(op)
        BY <3>2 DEF Registered
      <3> QED
        BY <3>1, <3>2, <3>3 DEF Unaffected
    <2> QED
      BY <2>1, UnaffectedMatches
  <1>3. CASE Crash \/ Recover
    BY <1>3, RestartMatches
  <1>4. ASSUME NEW t \in Threads, NEW op \in Ops, NEW p \in Players, NEW r \in Rates, StartIntent(t, op, p, r)
        PROVE  AloneOK' /\ OrderOK' /\ HistoryOK'
    <2>1. PICK x : x = [op |-> op, player |-> p, rate |-> r, at |-> now, sid |-> started + 1]
      OBVIOUS
    <2>2. started + 1 \in 0..MaxStarts
      BY <1>4, RuntimeAssumption DEF StartIntent, HInv, IInv, TypeOK
    <2>3. x \in IntentType /\ x.op = op /\ x.at = now
      BY <1>1, <2>1, <2>2, RuntimeAssumption DEF IntentType
    <2>4. /\ pc[t] = "idle" /\ recovered /\ recovered' = recovered /\ pc' = [pc EXCEPT ![t] = "start_persist"]
          /\ intent' = [intent EXCEPT ![t] = x] /\ Race(t, op) /\ ~Registered(op)
          /\ UNCHANGED <<now, operations, events>>
      BY <1>4, <2>1 DEF StartIntent, Goto
    <2> QED
      BY <2>3, <2>4, IntentBegins
  <1>5. ASSUME NEW t \in Threads, NEW op \in Ops, NEW p \in Players, StopIntent(t, op, p)
        PROVE  AloneOK' /\ OrderOK' /\ HistoryOK'
    <2>1. PICK x : x = [op |-> op, player |-> p, rate |-> 0, at |-> now, sid |-> 0]
      OBVIOUS
    <2>2. 0 \in 0..MaxStarts
      BY RuntimeAssumption
    <2>3. x \in IntentType /\ x.op = op /\ x.at = now
      BY <1>1, <2>1, <2>2 DEF IntentType
    <2>4. /\ pc[t] = "idle" /\ recovered /\ recovered' = recovered /\ pc' = [pc EXCEPT ![t] = "stop_persist"]
          /\ intent' = [intent EXCEPT ![t] = x] /\ Race(t, op) /\ Registered(op)
          /\ UNCHANGED <<now, operations, events>>
      BY <1>5, <2>1 DEF StopIntent, Goto
    <2> QED
      BY <2>3, <2>4, IntentBegins
  <1>6. ASSUME NEW t \in Threads, StartPersist(t)
        PROVE  AloneOK' /\ OrderOK' /\ HistoryOK'
    <2>1. intent[t].op \in Ops /\ intent[t].player \in Players /\ intent[t] \in IntentType
      BY <1>1, <1>6 DEF StartPersist, HInv, IInv, ControlOK, IntentOK, InFlight
    <2>2. PICK e : e = [type |-> "start", op |-> intent[t].op, player |-> intent[t].player, rate |-> intent[t].rate,
                        at |-> intent[t].at, sid |-> intent[t].sid]
      OBVIOUS
    <2>3. /\ e \in EventType /\ e.op = intent[t].op /\ e.at = intent[t].at /\ e.type = "start"
          /\ e.sid = intent[t].sid /\ e.player = intent[t].player /\ e.rate = intent[t].rate
      BY <2>1, <2>2 DEF EventType, IntentType
    <2>4. /\ pc[t] = "start_persist" /\ pc' = [pc EXCEPT ![t] = "start_register"] /\ events' = Append(events, e)
          /\ UNCHANGED <<now, operations, intent, recovered, raced>>
      BY <1>6, <2>2 DEF StartPersist, Goto
    <2> QED
      BY <2>1, <2>3, <2>4, EventPersisted
  <1>7. ASSUME NEW t \in Threads, StopPersist(t)
        PROVE  AloneOK' /\ OrderOK' /\ HistoryOK'
    <2>1. intent[t].op \in Ops /\ intent[t].player \in Players /\ intent[t] \in IntentType
      BY <1>1, <1>7 DEF StopPersist, HInv, IInv, ControlOK, IntentOK, InFlight
    <2>2. PICK e : e = [type |-> "stop", op |-> intent[t].op, player |-> intent[t].player, rate |-> 0,
                        at |-> intent[t].at, sid |-> 0]
      OBVIOUS
    <2>3. e \in EventType /\ e.op = intent[t].op /\ e.at = intent[t].at /\ e.type = "stop"
      BY <2>1, <2>2, RuntimeAssumption DEF EventType, IntentType
    <2>4. /\ pc[t] = "stop_persist" /\ pc' = [pc EXCEPT ![t] = "stop_delete"] /\ events' = Append(events, e)
          /\ UNCHANGED <<now, operations, intent, recovered, raced>>
      BY <1>7, <2>2 DEF StopPersist, Goto
    <2> QED
      BY <2>1, <2>3, <2>4, EventPersisted
  <1>8. ASSUME NEW t \in Threads, StartRegister(t) \/ StopDelete(t) \/ PersistFails(t)
        PROVE  AloneOK' /\ OrderOK' /\ HistoryOK'
    <2>1. PICK o \in Ops : o = intent[t].op
      BY <1>8 DEF StartRegister, StopDelete, PersistFails, HInv, IInv, ControlOK, IntentOK, InFlight
    <2>2. /\ pc' = [pc EXCEPT ![t] = "idle"] /\ intent' = [intent EXCEPT ![t] = NoIntent]
          /\ UNCHANGED <<now, events, recovered, raced>>
      BY <1>8 DEF StartRegister, StopDelete, PersistFails, Finish, Goto
    <2>3. \A op \in Ops \ {o} : operations'[op] = operations[op]
      BY <1>1, <1>8, <2>1 DEF StartRegister, StopDelete, PersistFails
    <2>4. ASSUME o \notin raced
          PROVE  Matches(o)'
      <3>1. IntentMatches(t, o)
        BY <2>1, <2>4 DEF HInv, HistoryOK
      <3>2. CASE StartRegister(t)
        <4>1. operations'[o] = [sid |-> intent[t].sid, player |-> intent[t].player,
                                rate |-> intent[t].rate, last |-> intent[t].at]
          BY <1>1, <2>1, <3>2 DEF StartRegister
        <4>2. intent[t].player \in Players /\ None \notin Players /\ pc[t] = "start_register"
          BY <3>2, RuntimeAssumption DEF StartRegister, HInv, IInv, ControlOK, IntentOK, InFlight
        <4>3. operations'[o] # Absent
          BY <4>1, <4>2 DEF Absent
        <4> QED
          BY <2>2, <3>1, <4>1, <4>2, <4>3 DEF IntentMatches, Matches, Registered, Runs, OfType
      <3>3. CASE StopDelete(t)
        <4>1. operations'[o] = Absent /\ pc[t] = "stop_delete"
          BY <1>1, <2>1, <3>3 DEF StopDelete
        <4> QED
          BY <2>2, <3>1, <4>1 DEF IntentMatches, Matches, Registered, Stopped, OfType
      <3>4. CASE PersistFails(t)
        <4>1. operations' = operations /\ pc[t] \in {"start_persist", "stop_persist"}
          BY <3>4 DEF PersistFails
        <4>2. Matches(o)
          BY <3>1, <4>1 DEF IntentMatches, Matches
        <4> QED
          BY <2>2, <4>1, <4>2 DEF Matches, Registered, Stopped, Runs, OfType
      <3> QED
        BY <1>8, <3>2, <3>3, <3>4
    <2> QED
      BY <2>1, <2>2, <2>3, <2>4, IntentEnds
  <1>9. ASSUME NEW t \in Threads, AdvanceBegin(t) \/ TickStep(t) \/ TickFails(t)
        PROVE  AloneOK' /\ OrderOK' /\ HistoryOK'
    BY <1>9, AdvanceUnaffected, UnaffectedMatches
  <1> QED
    BY <1>2, <1>3, <1>4, <1>5, <1>6, <1>7, <1>8, <1>9 DEF Next, Request, IntentStep, Fault

\* The invariant says what a recovery needs.
LEMMA MatchingIsReplayed == HInv => MemoryMatchesHistory
  <1> SUFFICES ASSUME HInv, recovered, NEW op \in Ops \ raced, \A t \in Threads : intent[t].op # op
               PROVE  operations[op] = [Replayed(op) EXCEPT !.last = operations[op].last]
    BY DEF MemoryMatchesHistory
  <1>1. Matches(op)
    BY DEF HInv, HistoryOK
  <1>2. operations[op] \in Registration
    BY DEF HInv, IInv, TypeOK
  <1>3. CASE Registered(op)
    <2>1. PICK i \in DOMAIN events :
            /\ Runs(op, i) /\ operations[op].sid = events[i].sid
            /\ operations[op].player = events[i].player /\ operations[op].rate = events[i].rate
      BY <1>1, <1>3 DEF Matches
    <2>2. Replayed(op) = [sid |-> events[i].sid, player |-> events[i].player,
                          rate |-> events[i].rate, last |-> events[i].at]
      BY <2>1, ReplayedRuns DEF HInv, IInv
    <2>3. [Replayed(op) EXCEPT !.last = operations[op].last] =
            [sid |-> events[i].sid, player |-> events[i].player, rate |-> events[i].rate, last |-> operations[op].last]
      BY <2>2
    <2>4. operations[op] = [sid |-> operations[op].sid, player |-> operations[op].player,
                            rate |-> operations[op].rate, last |-> operations[op].last]
      BY <1>2 DEF Registration
    <2> QED
      BY <2>1, <2>3, <2>4
  <1>4. CASE ~Registered(op)
    <2>1. Replayed(op) = Absent
      BY <1>1, <1>4, ReplayedStopped DEF Matches, HInv, IInv
    <2>2. operations[op] = Absent
      BY <1>4 DEF Registered
    <2> QED
      BY <2>1, <2>2 DEF Absent
  <1> QED
    BY <1>3, <1>4

\* Replaying the events of an operation, in the order of their times, rebuilds what memory
\* holds of it, unless two requests raced for it or an intent is between the two.
THEOREM MemoryMatches == Spec => []MemoryMatchesHistory
  <1>1. Init => HInv
    BY InitMatches
  <1>2. HInv /\ [Next]_vars => HInv'
    BY StepMatches
  <1>3. HInv => MemoryMatchesHistory
    BY MatchingIsReplayed
  <1> QED
    BY <1>1, <1>2, <1>3, PTL DEF Spec
=============================================================================
