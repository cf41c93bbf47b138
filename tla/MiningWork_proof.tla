------------------------- MODULE MiningWork_proof -------------------------
(* No work is lost, counted twice or shared out beyond what was mined: the *)
(* sums that MiningRuntime's WorkConserved and AttributionBounded speak of *)
(* are followed through every step, with the lemmas of FiniteSums.  The    *)
(* induction needs to know where credited work comes from (BackedOK) and   *)
(* what the settlement under way holds (SharesOK).                         *)
EXTENDS MiningRuntime_proof, FiniteSums

StartEvents == {i \in DOMAIN events : events[i].type = "start"}
RunIds == {events[i].sid : i \in StartEvents}
BackedRuns == {<<events[i].sid, events[i].rate>> : i \in StartEvents}

\* Only a run with a durable start event is registered, ticked and credited, and
\* at the rate of that event.
MemoryOK ==
  /\ \A op \in Ops : Registered(op) => <<operations[op].sid, operations[op].rate>> \in BackedRuns
  /\ \A t \in Threads : pc[t] = "start_register" => <<intent[t].sid, intent[t].rate>> \in BackedRuns
  /\ \A t \in Threads : Crediting(t) => <<tick[t].sid, tick[t].rate>> \in BackedRuns

BackedOK == MemoryOK /\ \A s \in Sids \ RunIds, x \in Seconds : credit[s][x] = 0

\* What a thread is about to share out was work of the block it settles.
SharesOK ==
  \A t \in Threads : Settling(t) =>
    Total(settle[t].shares) <= finalized[settle[t].block].total

\* The last published progress is not ahead of the active block.
ProgressOK ==
  \/ progress.number < active.number
  \/ progress.number = active.number /\ progress.accumulated <= active.accumulated

WInv == IInv /\ BackedOK /\ WorkConserved /\ AttributionBounded /\ SharesOK /\ ProgressOK

-----------------------------------------------------------------------------
(* Which steps change what the sums are about.                             *)

\* The table of events grows by the persist steps only.
LEMMA EventsChange ==
  ASSUME [Next]_vars
  PROVE  events' = events \/ \E t \in Threads : StartPersist(t) \/ StopPersist(t)
PROOF
  <1>1. CASE Clock \/ Crash \/ Recover \/ UNCHANGED vars
    BY <1>1 DEF Clock, Crash, Recover, vars, database
  <1>2. ASSUME NEW t \in Threads, Request(t) \/ Fault(t)
        PROVE  events' = events
    BY <1>2 DEF Request, Fault, StartIntent, StopIntent, AdvanceBegin, PersistFails, TickFails, database
  <1>3. ASSUME NEW t \in Threads, IntentStep(t)
        PROVE  events' = events \/ StartPersist(t) \/ StopPersist(t)
    BY <1>3 DEF IntentStep, StartRegister, StopDelete, database
  <1>4. ASSUME NEW t \in Threads, TickStep(t)
        PROVE  events' = events
    BY <1>4 DEF TickStep, AdvanceEnd, TickUnregistered, TickUpToDate, TickRead, TickClaim, WorkAdded,
         BlockFinalized, PostPool, PostShares, Announce, PublishProgress, database
  <1> QED
    BY <1>1, <1>2, <1>3, <1>4 DEF Next

\* Blocks and credit change when add_work commits.
LEMMA WorkChanges ==
  ASSUME [Next]_vars
  PROVE  \/ UNCHANGED <<active, finalized, credit>>
         \/ \E t \in Threads : WorkAdded(t) \/ \E w \in RequiredWorks : BlockFinalized(t, w)
PROOF
  <1>1. CASE Clock \/ Crash \/ Recover \/ UNCHANGED vars
    BY <1>1 DEF Clock, Crash, Recover, vars, database, history
  <1>2. ASSUME NEW t \in Threads, Request(t) \/ Fault(t) \/ IntentStep(t)
        PROVE  UNCHANGED <<active, finalized, credit>>
    BY <1>2 DEF Request, Fault, StartIntent, StopIntent, AdvanceBegin, PersistFails, TickFails, IntentStep,
         StartPersist, StopPersist, StartRegister, StopDelete, database, history
  <1>3. ASSUME NEW t \in Threads, TickStep(t)
        PROVE  \/ UNCHANGED <<active, finalized, credit>>
               \/ WorkAdded(t) \/ \E w \in RequiredWorks : BlockFinalized(t, w)
    BY <1>3 DEF TickStep, AdvanceEnd, TickUnregistered, TickUpToDate, TickRead, TickClaim,
         PostPool, PostShares, Announce, PublishProgress, database, history
  <1> QED
    BY <1>1, <1>2, <1>3 DEF Next

-----------------------------------------------------------------------------
(* Backing.                                                                *)

\* A start event adds a run, and no step takes one away.
LEMMA RunsGrow ==
  ASSUME TypeOK, [Next]_vars
  PROVE  /\ StartEvents \subseteq StartEvents'
         /\ \A i \in StartEvents : events'[i] = events[i]
         /\ RunIds \subseteq RunIds' /\ BackedRuns \subseteq BackedRuns'
PROOF
  <1>1. events \in Seq(EventType)
    BY DEF TypeOK
  <1>2. /\ DOMAIN events \subseteq DOMAIN events'
        /\ \A i \in DOMAIN events : events'[i] = events[i]
    <2>1. CASE events' = events
      BY <2>1
    <2>2. ASSUME NEW t \in Threads, StartPersist(t) \/ StopPersist(t)
          PROVE  \E e : events' = Append(events, e)
      BY <2>2 DEF StartPersist, StopPersist
    <2>3. ASSUME NEW e, events' = Append(events, e)
          PROVE  <1>2!:
      BY <1>1, <2>3
    <2> QED
      BY <2>1, <2>2, <2>3, EventsChange
  <1>3. StartEvents \subseteq StartEvents' /\ \A i \in StartEvents : events'[i] = events[i]
    BY <1>2 DEF StartEvents
  <1> QED
    BY <1>3 DEF RunIds, BackedRuns

\* The thread that persists a start event adds that run.
LEMMA StartPersistRuns ==
  ASSUME TypeOK, IntentOK, NEW t \in Threads, StartPersist(t)
  PROVE  /\ DOMAIN events' = DOMAIN events \cup {Len(events) + 1}
         /\ StartEvents' = StartEvents \cup {Len(events) + 1}
         /\ Len(events) + 1 \notin DOMAIN events
         /\ events'[Len(events) + 1].sid = intent[t].sid
         /\ events'[Len(events) + 1].rate = intent[t].rate
         /\ \A i \in DOMAIN events : events'[i] = events[i]
PROOF
  <1> DEFINE e == [type |-> "start", op |-> intent[t].op, player |-> intent[t].player,
                   rate |-> intent[t].rate, at |-> intent[t].at, sid |-> intent[t].sid]
  <1>1. events \in Seq(EventType) /\ events' = Append(events, e)
    BY DEF TypeOK, StartPersist
  <1>2. e.type = "start" /\ e.sid = intent[t].sid /\ e.rate = intent[t].rate
    OBVIOUS
  <1> HIDE DEF e
  <1>3. /\ DOMAIN events' = DOMAIN events \cup {Len(events) + 1}
        /\ Len(events) + 1 \notin DOMAIN events
        /\ events'[Len(events) + 1] = e
        /\ \A i \in DOMAIN events : events'[i] = events[i]
    BY <1>1
  <1> QED
    BY <1>2, <1>3 DEF StartEvents

\* A stop event adds none.
LEMMA StopPersistRuns ==
  ASSUME TypeOK, NEW t \in Threads, StopPersist(t)
  PROVE  StartEvents' = StartEvents /\ \A i \in StartEvents : events'[i] = events[i]
PROOF
  <1> DEFINE e == [type |-> "stop", op |-> intent[t].op, player |-> intent[t].player,
                   rate |-> 0, at |-> intent[t].at, sid |-> 0]
  <1>1. events \in Seq(EventType) /\ events' = Append(events, e)
    BY DEF TypeOK, StopPersist
  <1>2. e.type = "stop"
    OBVIOUS
  <1> HIDE DEF e
  <1>3. /\ DOMAIN events' = DOMAIN events \cup {Len(events) + 1}
        /\ events'[Len(events) + 1] = e
        /\ \A i \in DOMAIN events : events'[i] = events[i]
    BY <1>1
  <1> QED
    BY <1>2, <1>3 DEF StartEvents

\* What the table revives is backed by it.
LEMMA ReplayedBacked ==
  ASSUME NEW op, Replayed(op) # Absent
  PROVE  <<Replayed(op).sid, Replayed(op).rate>> \in BackedRuns
PROOF
  <1>1. PICK i \in DOMAIN events : Revives(i, op) /\ Replayed(op) =
               [sid |-> events[i].sid, player |-> events[i].player,
                rate |-> events[i].rate, last |-> events[i].at]
    <2>1. PICK j \in DOMAIN events : Revives(j, op)
      BY DEF Replayed
    <2> DEFINE i == CHOOSE k \in DOMAIN events : Revives(k, op)
    <2>2. i \in DOMAIN events /\ Revives(i, op)
      BY <2>1
    <2> QED
      BY <2>1, <2>2 DEF Replayed
  <1>2. i \in StartEvents
    BY <1>1 DEF Revives, OfType, StartEvents
  <1> QED
    BY <1>1, <1>2 DEF BackedRuns

\* Registrations, intents and ticks stay backed as the table grows.
LEMMA MemoryStep ==
  ASSUME IInv, MemoryOK, [Next]_vars
  PROVE  MemoryOK'
PROOF
  <1> DEFINE OpsOK == \A op \in Ops :
                        Registered(op) => <<operations[op].sid, operations[op].rate>> \in BackedRuns
             IntentsOK == \A t \in Threads :
                        pc[t] = "start_register" => <<intent[t].sid, intent[t].rate>> \in BackedRuns
             TicksOK == \A t \in Threads : Crediting(t) => <<tick[t].sid, tick[t].rate>> \in BackedRuns
  <1>1. /\ operations \in [Ops -> Registration] /\ pc \in [Threads -> {"idle"} \cup InFlight \cup Ticking]
        /\ intent \in [Threads -> IntentType] /\ tick \in [Threads -> TickType]
        /\ IntentOK /\ RunOK /\ events \in Seq(EventType)
    BY DEF IInv, TypeOK, ControlOK
  <1>2. OpsOK /\ IntentsOK /\ TicksOK
    BY DEF MemoryOK
  <1>3. BackedRuns \subseteq BackedRuns'
    BY RunsGrow DEF IInv
  <1>4. SUFFICES OpsOK' /\ IntentsOK' /\ TicksOK'
    BY DEF MemoryOK
  <1>5. CASE Crash
    BY <1>5 DEF Crash, Registered, Crediting
  <1>6. CASE Recover
    <2>1. OpsOK'
      BY <1>3, <1>6, ReplayedBacked DEF Recover, Registered
    <2> QED
      BY <1>2, <1>3, <1>6, <2>1 DEF Recover, locals, Crediting
  <1>7. CASE Clock \/ UNCHANGED vars
    BY <1>2, <1>3, <1>7 DEF Clock, vars, memory, locals, Registered, Crediting
  <1>8. ASSUME NEW t \in Threads, Request(t)
        PROVE  OpsOK' /\ IntentsOK' /\ TicksOK'
    <2>1. /\ operations' = operations /\ tick' = tick
          /\ \A u \in Threads \ {t} : pc'[u] = pc[u] /\ intent'[u] = intent[u]
          /\ pc'[t] \in {"start_persist", "stop_persist", "scan"}
      BY <1>1, <1>8 DEF Request, StartIntent, StopIntent, AdvanceBegin, Goto, memory
    <2> QED
      BY <1>2, <1>3, <2>1 DEF Registered, Crediting
  <1>9. ASSUME NEW t \in Threads, StartPersist(t)
        PROVE  OpsOK' /\ IntentsOK' /\ TicksOK'
    <2>1. <<intent[t].sid, intent[t].rate>> \in BackedRuns'
      BY <1>1, <1>9, StartPersistRuns DEF BackedRuns, IInv
    <2> QED
      BY <1>1, <1>2, <1>3, <1>9, <2>1 DEF StartPersist, Goto, Registered, Crediting, memory
  <1>10. ASSUME NEW t \in Threads, StartRegister(t)
         PROVE  OpsOK' /\ IntentsOK' /\ TicksOK'
    BY <1>1, <1>2, <1>3, <1>10 DEF StartRegister, Finish, Goto, Registered, Crediting, memory
  <1>11. ASSUME NEW t \in Threads, StopPersist(t) \/ StopDelete(t)
         PROVE  OpsOK' /\ IntentsOK' /\ TicksOK'
    BY <1>1, <1>2, <1>3, <1>11 DEF StopPersist, StopDelete, Finish, Goto, Registered, Crediting, memory
  <1>12. ASSUME NEW t \in Threads, Fault(t) \/ AdvanceEnd(t) \/ \E op \in Ops : TickUnregistered(t, op)
         PROVE  OpsOK' /\ IntentsOK' /\ TicksOK'
    BY <1>1, <1>2, <1>3, <1>12 DEF Fault, PersistFails, TickFails, AdvanceEnd, TickUnregistered, LeaveAdvance,
         Finish, Goto, Registered, Crediting, memory
  <1>13. ASSUME NEW t \in Threads, NEW op \in Ops, TickUpToDate(t, op)
         PROVE  OpsOK' /\ IntentsOK' /\ TicksOK'
    BY <1>2, <1>3, <1>13 DEF TickUpToDate, Registered, Crediting, memory
  <1>14. ASSUME NEW t \in Threads, NEW op \in Ops, TickRead(t, op)
         PROVE  OpsOK' /\ IntentsOK' /\ TicksOK'
    <2>1. tick'[t].sid = operations[op].sid /\ tick'[t].rate = operations[op].rate /\ Registered(op)
      BY <1>1, <1>14 DEF TickRead
    <2>2. \A u \in Threads \ {t} : pc'[u] = pc[u] /\ tick'[u] = tick[u]
      BY <1>1, <1>14 DEF TickRead, Goto
    <2>3. pc' = [pc EXCEPT ![t] = "claim"] /\ operations' = operations /\ intent' = intent
      BY <1>14 DEF TickRead, Goto, memory
    <2> QED
      BY <1>1, <1>2, <1>3, <2>1, <2>2, <2>3 DEF Registered, Crediting
  <1>15. ASSUME NEW t \in Threads, TickClaim(t)
         PROVE  OpsOK' /\ IntentsOK' /\ TicksOK'
    <2>1. \A op \in Ops : operations'[op].sid = operations[op].sid /\ operations'[op].rate = operations[op].rate
      BY <1>1, <1>15 DEF TickClaim, Registration
    <2>2. \A op \in Ops : operations'[op] # Absent => Registered(op)
      <3>1. tick[t].sid # Absent.sid
        BY <1>15, RuntimeAssumption DEF TickClaim, IInv, ControlOK, TickOK, InTick, Crediting, Absent, TypeOK
      <3> QED
        BY <1>1, <1>15, <3>1 DEF TickClaim, Registered
    <2>3. pc' = [pc EXCEPT ![t] = "add"] /\ tick' = tick /\ intent' = intent /\ pc[t] = "claim"
      BY <1>15 DEF TickClaim, Goto
    <2> QED
      BY <1>1, <1>2, <1>3, <2>1, <2>2, <2>3 DEF Registered, Crediting
  <1>16. ASSUME NEW t \in Threads,
                \/ WorkAdded(t) \/ \E w \in RequiredWorks : BlockFinalized(t, w)
                \/ PostPool(t) \/ PostShares(t) \/ Announce(t) \/ PublishProgress(t)
         PROVE  OpsOK' /\ IntentsOK' /\ TicksOK'
    <2>1. /\ operations' = operations /\ intent' = intent
          /\ \A u \in Threads \ {t} : pc'[u] = pc[u] /\ tick'[u] = tick[u]
          /\ pc'[t] \in {"publish", "post_pool", "announce", "post_shares", "scan"}
      BY <1>1, <1>16 DEF WorkAdded, BlockFinalized, PostPool, PostShares, Announce, PublishProgress, Goto, memory
    <2> QED
      BY <1>2, <1>3, <2>1 DEF Registered, Crediting
  <1> HIDE DEF OpsOK, IntentsOK, TicksOK
  <1> QED
    BY <1>5, <1>6, <1>7, <1>8, <1>9, <1>10, <1>11, <1>12, <1>13, <1>14, <1>15, <1>16
       DEF Next, IntentStep, TickStep

-----------------------------------------------------------------------------
(* Sums of work.                                                           *)

\* The total of a function is the sum of its values.
LEMMA TotalIsSum ==
  ASSUME NEW w
  PROVE  Total(w) = SumFunctionOnSet(w, DOMAIN w)
  BY DEF Total, FoldFunction, SumFunctionOnSet

LEMMA TotalNat ==
  ASSUME NEW w, IsFiniteSet(DOMAIN w), \A x \in DOMAIN w : w[x] \in Nat
  PROVE  Total(w) \in Nat
  BY TotalIsSum, SumNat

LEMMA SecondsFinite == IsFiniteSet(Seconds)
PROOF
  <1>1. 0 \in Int /\ MaxTime - 1 \in Int
    BY RuntimeAssumption
  <1> QED
    BY <1>1, FS_Interval DEF Seconds

\* The credit of a run is a finite sum.
LEMMA CreditTotal ==
  ASSUME TypeOK, NEW s \in Sids
  PROVE  /\ DOMAIN credit[s] = Seconds
         /\ \A x \in Seconds : credit[s][x] \in Nat
         /\ Total(credit[s]) \in Nat
PROOF
  <1>1. credit[s] \in [Seconds -> Nat]
    BY DEF TypeOK
  <1> QED
    BY <1>1, SecondsFinite, TotalNat

\* A tick adds the length of its window to the credit of its run, and to no other.
LEMMA CreditGrows ==
  ASSUME IInv, NEW t \in Threads, pc[t] = "add", Credited(t)
  PROVE  /\ tick[t].sid \in Sids
         /\ Total(credit'[tick[t].sid]) = Total(credit[tick[t].sid]) + (tick[t].to - tick[t].from)
         /\ \A s \in Sids \ {tick[t].sid} : credit'[s] = credit[s]
PROOF
  <1> DEFINE s == tick[t].sid
             window == tick[t].from..(tick[t].to - 1)
             c == credit[s]
             d == credit'[s]
             one == [x \in Seconds |-> IF x \in window THEN 1 ELSE 0]
  <1>1. /\ tick[t] \in TickType /\ s \in 1..started /\ tick[t].from <= tick[t].to
        /\ credit \in [Sids -> [Seconds -> Nat]] /\ started \in 0..MaxStarts
    BY DEF IInv, TypeOK, ControlOK, TickOK, InTick, Crediting
  <1>2. s \in Sids /\ tick[t].from \in 0..MaxTime /\ tick[t].to \in 0..MaxTime
    BY <1>1, RuntimeAssumption DEF Sids, TickType, Times
  <1>3. credit' = [credit EXCEPT ![s] = [x \in Seconds |-> IF x \in window THEN c[x] + 1 ELSE c[x]]]
    BY <1>1, <1>2 DEF Credited
  <1> HIDE DEF window
  <1>4. /\ d = [x \in Seconds |-> IF x \in window THEN c[x] + 1 ELSE c[x]]
        /\ \A r \in Sids \ {s} : credit'[r] = credit[r]
    BY <1>1, <1>2, <1>3
  <1>5. /\ c \in [Seconds -> Nat] /\ one \in [Seconds -> Nat]
        /\ DOMAIN d = Seconds /\ \A x \in Seconds : d[x] = c[x] + one[x]
    BY <1>1, <1>2, <1>4
  <1> HIDE DEF c, d
  <1>6. SumFunctionOnSet(d, Seconds) = SumFunctionOnSet(c, Seconds) + SumFunctionOnSet(one, Seconds)
    <2>1. \A x \in Seconds : c[x] \in Int /\ one[x] \in Int /\ d[x] = c[x] + one[x]
      BY <1>5
    <2> HIDE DEF one
    <2> QED
      BY <2>1, SecondsFinite, SumPlus
  <1>7. SumFunctionOnSet(one, Seconds) = Cardinality(Seconds \cap window)
    <2>1. \A x \in Seconds : one[x] = IF x \in window THEN 1 ELSE 0
      OBVIOUS
    <2> HIDE DEF one
    <2> QED
      BY <2>1, SecondsFinite, SumIndicator
  <1>8. Seconds \cap window = window
    BY <1>1, <1>2, RuntimeAssumption DEF Seconds, window
  <1>9. Cardinality(window) = tick[t].to - tick[t].from
    <2>1. tick[t].from \in Int /\ tick[t].to - 1 \in Int
      BY <1>2
    <2>2. Cardinality(tick[t].from..(tick[t].to - 1)) =
            IF tick[t].from > tick[t].to - 1 THEN 0 ELSE (tick[t].to - 1) - tick[t].from + 1
      BY <2>1, FS_Interval
    <2> QED
      BY <1>1, <1>2, <2>2 DEF window
  <1>10. Total(d) = SumFunctionOnSet(d, Seconds) /\ Total(c) = SumFunctionOnSet(c, Seconds)
    <2>1. DOMAIN c = Seconds /\ DOMAIN d = Seconds
      BY <1>5
    <2> QED
      BY <2>1, TotalIsSum
  <1> QED
    BY <1>2, <1>4, <1>6, <1>7, <1>8, <1>9, <1>10 DEF c, d

\* The work every run was credited with, and the work the finalized blocks required.
RunWork == [i \in StartEvents |-> events[i].rate * Total(credit[events[i].sid])]
BlockWork == [i \in DOMAIN finalized |-> finalized[i].required]
CreditedWork == SumFunctionOnSet(RunWork, StartEvents)
MinedWork == SumFunctionOnSet(BlockWork, DOMAIN finalized)

BlocksInOrder ==
  /\ active.number = Len(finalized) + 1
  /\ \A i \in DOMAIN finalized : finalized[i].number = i /\ finalized[i].total >= finalized[i].required

LEMMA ConservedIsSum ==
  WorkConserved <=> BlocksInOrder /\ CreditedWork = MinedWork + active.accumulated
PROOF
  <1>1. DOMAIN RunWork = StartEvents /\ DOMAIN BlockWork = DOMAIN finalized
    BY DEF RunWork, BlockWork
  <1>2. Total(RunWork) = CreditedWork /\ Total(BlockWork) = MinedWork
    BY <1>1, TotalIsSum DEF CreditedWork, MinedWork
  <1> QED
    BY <1>2 DEF WorkConserved, BlocksInOrder, RunWork, BlockWork, StartEvents

LEMMA ConservedIsSumNext ==
  WorkConserved' <=> BlocksInOrder' /\ CreditedWork' = MinedWork' + active'.accumulated
PROOF
  <1>1. DOMAIN RunWork' = StartEvents' /\ DOMAIN BlockWork' = DOMAIN finalized'
    BY DEF RunWork, BlockWork
  <1>2. Total(RunWork') = CreditedWork' /\ Total(BlockWork') = MinedWork'
    BY <1>1, TotalIsSum DEF CreditedWork, MinedWork
  <1> QED
    BY <1>2 DEF WorkConserved, BlocksInOrder, RunWork, BlockWork, StartEvents

\* Both sums are finite sums of natural numbers.
LEMMA WorkTypes ==
  ASSUME IInv
  PROVE  /\ IsFiniteSet(StartEvents) /\ \A i \in StartEvents : RunWork[i] \in Nat
         /\ IsFiniteSet(DOMAIN finalized) /\ \A i \in DOMAIN finalized : BlockWork[i] \in Nat
         /\ CreditedWork \in Nat /\ MinedWork \in Nat
PROOF
  <1>1. events \in Seq(EventType) /\ finalized \in Seq([number : Nat, required : Nat, total : Nat])
    BY DEF IInv, TypeOK
  <1>2. DOMAIN events = 1..Len(events) /\ DOMAIN finalized = 1..Len(finalized)
        /\ Len(events) \in Int /\ Len(finalized) \in Int
    BY <1>1
  <1>3. IsFiniteSet(DOMAIN events) /\ IsFiniteSet(DOMAIN finalized)
    BY <1>2, FS_Interval
  <1>4. IsFiniteSet(StartEvents)
    BY <1>3, FS_Subset DEF StartEvents
  <1>5. \A i \in StartEvents : RunWork[i] \in Nat
    <2> SUFFICES ASSUME NEW i \in StartEvents PROVE RunWork[i] \in Nat
      OBVIOUS
    <2>1. events[i] \in EventType /\ events[i].sid \in 1..started
      BY <1>1 DEF StartEvents, IInv, ControlOK, RunOK
    <2>2. events[i].rate \in Nat /\ events[i].sid \in Sids
      BY <2>1, RuntimeAssumption DEF EventType, Sids, IInv, TypeOK
    <2>3. Total(credit[events[i].sid]) \in Nat
      BY <2>2, CreditTotal DEF IInv
    <2>4. \A m, n \in Nat : m * n \in Nat
      OBVIOUS
    <2> QED
      BY <2>2, <2>3, <2>4 DEF RunWork
  <1>6. \A i \in DOMAIN finalized : BlockWork[i] \in Nat
    <2> DEFINE B == [number : Nat, required : Nat, total : Nat]
    <2>1. \A i \in DOMAIN finalized : finalized[i] \in B
      <3>1. finalized \in Seq(B)
        BY <1>1
      <3> HIDE DEF B
      <3> QED
        BY <3>1
    <2> QED
      BY <2>1 DEF BlockWork
  <1> QED
    BY <1>3, <1>4, <1>5, <1>6, SumNat DEF CreditedWork, MinedWork

\* A tick's work is credited to one run, and adds to its sum.
LEMMA TickCredits ==
  ASSUME IInv, BackedOK, NEW t \in Threads, pc[t] = "add", Credited(t), events' = events
  PROVE  /\ CreditedWork' = CreditedWork + Amount(t)
         /\ \A s \in Sids \ RunIds, x \in Seconds : credit'[s][x] = 0
PROOF
  <1>1. PICK i \in StartEvents : events[i].sid = tick[t].sid /\ events[i].rate = tick[t].rate
    BY DEF BackedOK, MemoryOK, BackedRuns, Crediting
  <1>2. StartEvents' = StartEvents /\ RunIds' = RunIds
    BY DEF StartEvents, RunIds
  <1>3. \A j \in StartEvents \ {i} : events[j].sid # tick[t].sid
    BY <1>1 DEF IInv, SidOK, EventSidOK, StartEvents
  <1>4. \A j \in StartEvents : events[j].sid \in Sids /\ events[j].rate \in Nat
    <2> SUFFICES ASSUME NEW j \in StartEvents
                 PROVE  events[j].sid \in Sids /\ events[j].rate \in Nat
      OBVIOUS
    <2>1. events \in Seq(EventType) /\ j \in DOMAIN events /\ started \in 0..MaxStarts
      BY DEF StartEvents, IInv, TypeOK
    <2>2. events[j] \in EventType /\ events[j].sid \in 1..started
      BY <2>1 DEF StartEvents, IInv, ControlOK, RunOK
    <2> QED
      BY <2>1, <2>2, RuntimeAssumption DEF EventType, Sids
  <1>5. /\ tick[t].sid \in Sids
        /\ Total(credit'[tick[t].sid]) = Total(credit[tick[t].sid]) + (tick[t].to - tick[t].from)
        /\ \A s \in Sids \ {tick[t].sid} : credit'[s] = credit[s]
    BY CreditGrows
  <1>6. \A j \in StartEvents \ {i} : RunWork'[j] = RunWork[j]
    BY <1>2, <1>3, <1>4, <1>5 DEF RunWork
  <1>7. RunWork'[i] = RunWork[i] + Amount(t)
    <2>1. /\ RunWork[i] = tick[t].rate * Total(credit[tick[t].sid])
          /\ RunWork'[i] = tick[t].rate * Total(credit'[tick[t].sid])
      BY <1>1, <1>2 DEF RunWork
    <2>2. /\ tick[t].rate \in Nat /\ Total(credit[tick[t].sid]) \in Nat
          /\ tick[t].to \in Nat /\ tick[t].from \in Nat
      <3>1. tick[t] \in TickType
        BY DEF IInv, TypeOK
      <3> QED
        BY <3>1, <1>5, CreditTotal, RuntimeAssumption DEF IInv, TickType, Times
    <2>3. \A a, b, c, d \in Nat : a * (b + (c - d)) = a * b + a * (c - d)
      OBVIOUS
    <2> QED
      BY <1>5, <2>1, <2>2, <2>3 DEF Amount
  <1>8. Amount(t) \in Nat
    BY AmountType DEF IInv, ControlOK, InTick, Crediting
  <1>9. CreditedWork' = CreditedWork + Amount(t)
    <2>1. IsFiniteSet(StartEvents) /\ \A j \in StartEvents : RunWork[j] \in Nat
      BY WorkTypes
    <2> DEFINE f == RunWork
               g == RunWork'
    <2>2. /\ \A j \in StartEvents : f[j] \in Int /\ g[j] \in Int
          /\ \A j \in StartEvents \ {i} : g[j] = f[j]
          /\ g[i] - f[i] = Amount(t)
      BY <1>6, <1>7, <1>8, <2>1
    <2> HIDE DEF f, g
    <2>3. SumFunctionOnSet(g, StartEvents) = SumFunctionOnSet(f, StartEvents) + (g[i] - f[i])
      BY <2>1, <2>2, SumUpdate
    <2> QED
      BY <1>2, <2>2, <2>3 DEF CreditedWork, f, g
  <1>10. tick[t].sid \in RunIds
    BY <1>1 DEF RunIds
  <1>11. \A s \in Sids \ RunIds : credit'[s] = credit[s]
    BY <1>5, <1>10
  <1> QED
    BY <1>9, <1>11 DEF BackedOK

\* A persisted start event brings a run that was never credited.
LEMMA StartPersistCredits ==
  ASSUME IInv, BackedOK, NEW t \in Threads, StartPersist(t)
  PROVE  CreditedWork' = CreditedWork
PROOF
  <1> DEFINE n == Len(events) + 1
             f == RunWork
             g == RunWork'
  <1>1. /\ StartEvents' = StartEvents \cup {n} /\ n \notin StartEvents
        /\ events'[n].sid = intent[t].sid /\ events'[n].rate = intent[t].rate
        /\ \A i \in StartEvents : events'[i] = events[i]
        /\ credit' = credit
    BY StartPersistRuns DEF StartEvents, IInv, ControlOK, StartPersist, history
  <1>2. intent[t].sid \in Sids /\ intent[t].rate \in Nat
    <2>1. intent[t] \in IntentType /\ intent[t].sid \in 1..started /\ started \in 0..MaxStarts
      BY DEF IInv, TypeOK, ControlOK, IntentOK, Starting, StartPersist
    <2> QED
      BY <2>1, RuntimeAssumption DEF IntentType, Sids
  <1>3. intent[t].sid \notin RunIds
    BY DEF IInv, SidOK, EventSidOK, StartPersist, RunIds, StartEvents
  <1>4. Total(credit[intent[t].sid]) = 0
    <2>1. DOMAIN credit[intent[t].sid] = Seconds /\ \A x \in Seconds : credit[intent[t].sid][x] = 0
      BY <1>2, <1>3, CreditTotal DEF BackedOK, IInv
    <2> QED
      BY <2>1, TotalIsSum, SecondsFinite, SumZero
  <1>5. g[n] = 0
    <2>1. g[n] = intent[t].rate * Total(credit[intent[t].sid])
      BY <1>1 DEF RunWork
    <2> QED
      BY <1>2, <1>4, <2>1
  <1>6. \A i \in StartEvents : g[i] = f[i]
    BY <1>1 DEF RunWork
  <1>7. IsFiniteSet(StartEvents) /\ \A j \in StartEvents : f[j] \in Nat
    BY WorkTypes
  <1>8. CreditedWork \in Nat /\ CreditedWork = SumFunctionOnSet(f, StartEvents)
        /\ CreditedWork' = SumFunctionOnSet(g, StartEvents')
    BY WorkTypes DEF CreditedWork
  <1> HIDE DEF f, g, n
  <1>9. \A i \in StartEvents \cup {n} : g[i] \in Int
    BY <1>5, <1>6, <1>7
  <1>10. SumFunctionOnSet(g, StartEvents \cup {n}) = SumFunctionOnSet(g, StartEvents) + g[n]
    BY <1>1, <1>7, <1>9, SumInsert
  <1>11. SumFunctionOnSet(g, StartEvents) = SumFunctionOnSet(f, StartEvents)
    BY <1>6, <1>7, SumSame
  <1> QED
    BY <1>1, <1>5, <1>8, <1>10, <1>11

\* Nothing else credits work.
LEMMA OthersCredit ==
  ASSUME IInv, credit' = credit, events' = events \/ \E t \in Threads : StopPersist(t)
  PROVE  CreditedWork' = CreditedWork
PROOF
  <1>1. StartEvents' = StartEvents /\ \A i \in StartEvents : events'[i] = events[i]
    BY StopPersistRuns DEF IInv, StartEvents
  <1> DEFINE f == RunWork
             g == RunWork'
  <1>2. \A i \in StartEvents : g[i] = f[i]
    BY <1>1 DEF RunWork
  <1>3. IsFiniteSet(StartEvents)
    BY WorkTypes
  <1>4. CreditedWork = SumFunctionOnSet(f, StartEvents) /\ CreditedWork' = SumFunctionOnSet(g, StartEvents)
    BY <1>1 DEF CreditedWork
  <1> HIDE DEF f, g
  <1>5. SumFunctionOnSet(g, StartEvents) = SumFunctionOnSet(f, StartEvents)
    BY <1>2, <1>3, SumSame
  <1> QED
    BY <1>4, <1>5

\* A finalized block adds what it required.
LEMMA BlockIsMined ==
  ASSUME IInv, NEW t \in Threads, NEW w \in RequiredWorks, BlockFinalized(t, w)
  PROVE  MinedWork' = MinedWork + active.required
PROOF
  <1> DEFINE n == Len(finalized) + 1
             f == BlockWork
             g == BlockWork'
             B == [number : Nat, required : Nat, total : Nat]
             b == [number |-> active.number, required |-> active.required,
                   total |-> active.accumulated + Amount(t)]
  <1>1. finalized \in Seq(B) /\ active.required \in Nat /\ finalized' = Append(finalized, b)
    BY DEF IInv, TypeOK, BlockFinalized
  <1>2. b.required = active.required
    OBVIOUS
  <1> HIDE DEF b, B
  <1>3. /\ DOMAIN finalized' = DOMAIN finalized \cup {n} /\ n \notin DOMAIN finalized
        /\ finalized'[n] = b /\ \A i \in DOMAIN finalized : finalized'[i] = finalized[i]
    BY <1>1
  <1>4. g[n] = active.required /\ \A i \in DOMAIN finalized : g[i] = f[i]
    BY <1>2, <1>3 DEF BlockWork
  <1>5. IsFiniteSet(DOMAIN finalized) /\ \A i \in DOMAIN finalized : f[i] \in Nat
    BY WorkTypes
  <1>6. MinedWork = SumFunctionOnSet(f, DOMAIN finalized) /\ MinedWork' = SumFunctionOnSet(g, DOMAIN finalized')
    BY DEF MinedWork
  <1> HIDE DEF f, g, n
  <1>7. \A i \in DOMAIN finalized \cup {n} : g[i] \in Int
    BY <1>1, <1>4, <1>5
  <1>8. SumFunctionOnSet(g, DOMAIN finalized \cup {n}) = SumFunctionOnSet(g, DOMAIN finalized) + g[n]
    BY <1>3, <1>5, <1>7, SumInsert
  <1>9. SumFunctionOnSet(g, DOMAIN finalized) = SumFunctionOnSet(f, DOMAIN finalized)
    BY <1>4, <1>5, SumSame
  <1> QED
    BY <1>3, <1>4, <1>6, <1>8, <1>9

\* Every step keeps the balance of work, and the backing it rests on.
LEMMA ConservedStep ==
  ASSUME IInv, BackedOK, WorkConserved, [Next]_vars
  PROVE  WorkConserved' /\ BackedOK'
PROOF
  <1> DEFINE Balanced == /\ BlocksInOrder' /\ CreditedWork' = MinedWork' + active'.accumulated
                         /\ \A s \in Sids \ RunIds', x \in Seconds : credit'[s][x] = 0
  <1>1. BlocksInOrder /\ CreditedWork = MinedWork + active.accumulated
    BY ConservedIsSum
  <1>2. SUFFICES Balanced
    <2>1. MemoryOK'
      BY MemoryStep DEF BackedOK
    <2> QED
      BY <1>2, <2>1, ConservedIsSumNext DEF BackedOK
  <1>3. RunIds \subseteq RunIds'
    BY RunsGrow DEF IInv
  <1>4. /\ CreditedWork \in Nat /\ MinedWork \in Nat
        /\ active \in [number : Nat \ {0}, required : Nat \ {0}, accumulated : Nat]
        /\ finalized \in Seq([number : Nat, required : Nat, total : Nat])
    BY WorkTypes DEF IInv, TypeOK
  <1>5. CASE UNCHANGED <<active, finalized, credit>>
    <2>1. CreditedWork' = CreditedWork
      BY <1>5, EventsChange, StartPersistCredits, OthersCredit
    <2>2. MinedWork' = MinedWork
      BY <1>5 DEF MinedWork, BlockWork
    <2> QED
      BY <1>1, <1>3, <1>5, <2>1, <2>2 DEF BlocksInOrder, BackedOK
  <1>6. ASSUME NEW t \in Threads, WorkAdded(t)
        PROVE  Balanced
    <2>1. pc[t] = "add" /\ Credited(t) /\ events' = events /\ finalized' = finalized
          /\ active' = [active EXCEPT !.accumulated = active.accumulated + Amount(t)]
      BY <1>6 DEF WorkAdded
    <2>2. CreditedWork' = CreditedWork + Amount(t) /\ \A s \in Sids \ RunIds, x \in Seconds : credit'[s][x] = 0
      BY <2>1, TickCredits
    <2>3. MinedWork' = MinedWork
      BY <2>1 DEF MinedWork, BlockWork
    <2>4. BlocksInOrder' /\ active'.accumulated = active.accumulated + Amount(t)
      BY <1>1, <1>4, <2>1 DEF BlocksInOrder
    <2>5. Amount(t) \in Nat
      BY <2>1, AmountType DEF IInv, ControlOK, InTick, Crediting
    <2> QED
      BY <1>1, <1>3, <1>4, <2>2, <2>3, <2>4, <2>5
  <1>7. ASSUME NEW t \in Threads, NEW w \in RequiredWorks, BlockFinalized(t, w)
        PROVE  Balanced
    <2>1. pc[t] = "add" /\ Credited(t) /\ events' = events
          /\ active'.number = active.number + 1
          /\ active'.accumulated = active.accumulated + Amount(t) - active.required
          /\ active.accumulated + Amount(t) >= active.required
      BY <1>7 DEF BlockFinalized, Residual
    <2>2. CreditedWork' = CreditedWork + Amount(t) /\ \A s \in Sids \ RunIds, x \in Seconds : credit'[s][x] = 0
      BY <2>1, TickCredits
    <2>3. MinedWork' = MinedWork + active.required
      BY <1>7, BlockIsMined
    <2>4. Amount(t) \in Nat
      BY <2>1, AmountType DEF IInv, ControlOK, InTick, Crediting
    <2>5. BlocksInOrder'
      <3> DEFINE b == [number |-> active.number, required |-> active.required,
                       total |-> active.accumulated + Amount(t)]
      <3>1. finalized' = Append(finalized, b)
        BY <1>7 DEF BlockFinalized
      <3>2. b.number = Len(finalized) + 1 /\ b.total >= b.required
        BY <1>1, <2>1 DEF BlocksInOrder
      <3> HIDE DEF b
      <3>3. /\ Len(finalized') = Len(finalized) + 1 /\ DOMAIN finalized' = DOMAIN finalized \cup {Len(finalized) + 1}
            /\ finalized'[Len(finalized) + 1] = b /\ \A i \in DOMAIN finalized : finalized'[i] = finalized[i]
        BY <1>4, <3>1
      <3> QED
        BY <1>1, <2>1, <3>2, <3>3 DEF BlocksInOrder
    <2> QED
      BY <1>1, <1>3, <1>4, <2>1, <2>2, <2>3, <2>4, <2>5
  <1> QED
    BY <1>5, <1>6, <1>7, WorkChanges

-----------------------------------------------------------------------------
(* Attribution.                                                            *)

\* What a player's work adds to a bucket, it adds to the bucket's total.
LEMMA BucketTotal ==
  ASSUME NEW w \in Work, NEW p \in Players, NEW n \in Nat
  PROVE  /\ Total(w) \in Nat
         /\ Total([w EXCEPT ![p] = w[p] + n]) = Total(w) + n
         /\ Total(NoWork) = 0
PROOF
  <1> DEFINE v == [w EXCEPT ![p] = w[p] + n]
  <1>1. IsFiniteSet(Players)
    BY RuntimeAssumption
  <1>2. DOMAIN w = Players /\ DOMAIN v = Players /\ \A q \in Players : w[q] \in Nat /\ v[q] \in Nat
    BY DEF Work
  <1>3. v[p] - w[p] = n /\ \A q \in Players \ {p} : v[q] = w[q]
    BY DEF Work
  <1>4. Total(NoWork) = 0
    <2>1. DOMAIN NoWork = Players /\ \A q \in Players : NoWork[q] = 0
      BY DEF NoWork
    <2> QED
      BY <1>1, <2>1, TotalIsSum, SumZero
  <1> HIDE DEF v
  <1>5. Total(v) = Total(w) + n
    <2>1. Total(v) = SumFunctionOnSet(v, Players) /\ Total(w) = SumFunctionOnSet(w, Players)
      BY <1>2, TotalIsSum
    <2>2. \A q \in Players : w[q] \in Int /\ v[q] \in Int
      BY <1>2
    <2>3. SumFunctionOnSet(v, Players) = SumFunctionOnSet(w, Players) + (v[p] - w[p])
      BY <1>1, <1>3, <2>2, SumUpdate
    <2> QED
      BY <1>3, <2>1, <2>3
  <1>6. Total(w) \in Nat
    BY <1>1, <1>2, TotalNat
  <1> QED
    BY <1>4, <1>5, <1>6 DEF v

\* The buckets of a tick that adds m to the active block and n to the next one.
LEMMA AttributedTotals ==
  ASSUME IInv, AttributionBounded, NEW t \in Threads, InTick(t), NEW m \in Nat, NEW n \in Nat
  PROVE  LET buckets == Attributed(t, m, n)
             k == active.number
         IN /\ DOMAIN buckets \subseteq {k, k + 1}
            /\ n = 0 => k + 1 \notin DOMAIN buckets
            /\ k \in DOMAIN buckets => Total(buckets[k]) <= active.accumulated + m
            /\ k + 1 \in DOMAIN buckets => Total(buckets[k + 1]) = n
PROOF
  <1> DEFINE k == active.number
             p == tick[t].player
             buckets == Attributed(t, m, n)
  <1>1. p \in Players /\ k \in Nat /\ active.accumulated \in Nat
    BY DEF IInv, TypeOK, ControlOK, TickOK
  <1>2. DOMAIN contributions \subseteq {k}
    BY DEF AttributionBounded
  <1>3. Bucket(k) \in Work /\ Total(Bucket(k)) <= active.accumulated
    <2>1. CASE k \in DOMAIN contributions
      BY <2>1 DEF Bucket, AttributionBounded, IInv, TypeOK
    <2>2. CASE k \notin DOMAIN contributions
      <3>1. Bucket(k) = NoWork /\ NoWork \in Work
        BY <2>2 DEF Bucket, NoWork, Work
      <3>2. Total(NoWork) = 0
        BY <1>1, <3>1, BucketTotal
      <3> QED
        BY <1>1, <3>1, <3>2
    <2> QED
      BY <2>1, <2>2
  <1>4. Bucket(k + 1) = NoWork /\ NoWork \in Work
    BY <1>1, <1>2 DEF Bucket, NoWork, Work
  <1>5. DOMAIN buckets = DOMAIN contributions \cup (IF m > 0 THEN {k} ELSE {})
                                              \cup (IF n > 0 THEN {k + 1} ELSE {})
    BY DEF Attributed
  <1>6. k \in DOMAIN buckets => Total(buckets[k]) <= active.accumulated + m
    <2>1. k \in DOMAIN buckets => buckets[k] = [Bucket(k) EXCEPT ![p] = Bucket(k)[p] + m]
      BY <1>3, <1>5 DEF Attributed
    <2>2. Total([Bucket(k) EXCEPT ![p] = Bucket(k)[p] + m]) = Total(Bucket(k)) + m
          /\ Total(Bucket(k)) \in Nat
      BY <1>1, <1>3, BucketTotal
    <2> QED
      BY <1>1, <1>3, <2>1, <2>2
  <1>7. k + 1 \in DOMAIN buckets => Total(buckets[k + 1]) = n
    <2>1. k + 1 \in DOMAIN buckets => buckets[k + 1] = [NoWork EXCEPT ![p] = NoWork[p] + n]
      BY <1>1, <1>4, <1>5 DEF Attributed
    <2>2. Total([NoWork EXCEPT ![p] = NoWork[p] + n]) = Total(NoWork) + n /\ Total(NoWork) = 0
      BY <1>1, <1>4, BucketTotal
    <2> QED
      BY <2>1, <2>2
  <1>8. DOMAIN buckets \subseteq {k, k + 1} /\ (n = 0 => k + 1 \notin DOMAIN buckets)
    BY <1>1, <1>2, <1>5
  <1> QED
    BY <1>6, <1>7, <1>8

\* The attribution bound in two parts, which different steps disturb.
BucketsOK == \A b \in DOMAIN contributions : b = active.number /\ Total(contributions[b]) <= active.accumulated

LedgerOK ==
  \A i \in DOMAIN ledger :
    ledger[i].kind = "shares" => Total(ledger[i].shares) <= finalized[ledger[i].block].total

\* The block stays open: its bucket takes the whole of the tick.
LEMMA WorkAddedBuckets ==
  ASSUME IInv, AttributionBounded, NEW t \in Threads, WorkAdded(t)
  PROVE  BucketsOK'
PROOF
  <1>1. InTick(t)
    BY DEF WorkAdded, InTick, Crediting
  <1>2. Amount(t) \in Nat
    BY <1>1, AmountType DEF IInv, ControlOK
  <1>3. 0 \in Nat
    OBVIOUS
  <1> DEFINE buckets == Attributed(t, Amount(t), 0)
  <1>4. /\ DOMAIN buckets \subseteq {active.number}
        /\ active.number \in DOMAIN buckets => Total(buckets[active.number]) <= active.accumulated + Amount(t)
    BY <1>1, <1>2, <1>3, AttributedTotals
  <1>5. contributions' = buckets
    BY DEF WorkAdded
  <1>6. active'.number = active.number /\ active'.accumulated = active.accumulated + Amount(t)
    BY DEF WorkAdded, IInv, TypeOK
  <1> HIDE DEF buckets
  <1> QED
    BY <1>4, <1>5, <1>6 DEF BucketsOK

\* The block closes: what it still required is shared out, the surplus is the bucket of
\* the next block.
LEMMA BlockFinalizedBuckets ==
  ASSUME IInv, AttributionBounded, NEW t \in Threads, NEW w \in RequiredWorks, BlockFinalized(t, w)
  PROVE  /\ BucketsOK'
         /\ Total(settle'[t].shares) <= active.accumulated + Amount(t)
         /\ settle'[t].block = active.number
PROOF
  <1>1. InTick(t)
    BY DEF BlockFinalized, InTick, Crediting
  <1>2. Amount(t) \in Nat
    BY <1>1, AmountType DEF IInv, ControlOK
  <1>3. active.accumulated \in Nat /\ active.required \in Nat /\ active.number \in Nat
    BY DEF IInv, TypeOK
  <1> DEFINE remaining == IF active.required > active.accumulated
                          THEN active.required - active.accumulated ELSE 0
             toBlock == IF Amount(t) < remaining THEN Amount(t) ELSE remaining
             toNext == Amount(t) - toBlock
             buckets == Attributed(t, toBlock, toNext)
  <1>4. /\ toBlock \in Nat /\ toNext \in Nat /\ toBlock <= Amount(t)
        /\ toNext <= active.accumulated + Amount(t) - active.required
    BY <1>2, <1>3 DEF BlockFinalized
  <1>5. /\ contributions' = [b \in DOMAIN buckets \ {active.number} |-> buckets[b]]
        /\ settle' = [settle EXCEPT ![t] =
                        [block |-> active.number,
                         shares |-> IF active.number \in DOMAIN buckets
                                    THEN buckets[active.number] ELSE NoWork]]
    BY DEF BlockFinalized
  <1> HIDE DEF remaining, toBlock, toNext
  <1>6. /\ DOMAIN buckets \subseteq {active.number, active.number + 1}
        /\ active.number \in DOMAIN buckets => Total(buckets[active.number]) <= active.accumulated + toBlock
        /\ active.number + 1 \in DOMAIN buckets => Total(buckets[active.number + 1]) = toNext
    BY <1>1, <1>4, AttributedTotals
  <1> HIDE DEF buckets
  <1>7. /\ active'.number = active.number + 1
        /\ active'.accumulated = active.accumulated + Amount(t) - active.required
    BY DEF BlockFinalized, Residual
  <1>8. BucketsOK'
    BY <1>3, <1>4, <1>5, <1>6, <1>7 DEF BucketsOK
  <1>9. settle'[t].block = active.number
        /\ settle'[t].shares = IF active.number \in DOMAIN buckets THEN buckets[active.number] ELSE NoWork
    BY <1>5 DEF IInv, TypeOK
  <1>10. Total(NoWork) = 0
    <2>1. NoWork \in Work /\ tick[t].player \in Players
      BY <1>1 DEF NoWork, Work, IInv, ControlOK, TickOK
    <2> QED
      BY <1>2, <2>1, BucketTotal
  <1>11. \A n \in Nat : n <= active.accumulated + toBlock => n <= active.accumulated + Amount(t)
    BY <1>2, <1>3, <1>4
  <1>12. active.number \in DOMAIN buckets => Total(buckets[active.number]) \in Nat
    <2>1. \A b \in DOMAIN buckets : buckets[b] \in Work
      BY <1>1, <1>4, AttributedType DEF IInv, ControlOK, buckets
    <2> QED
      BY <1>1, <1>2, <2>1, BucketTotal DEF IInv, ControlOK, TickOK
  <1> QED
    BY <1>2, <1>3, <1>6, <1>8, <1>9, <1>10, <1>11, <1>12

\* Finalized blocks stay as they are.
LEMMA BlocksKept ==
  ASSUME IInv, [Next]_vars
  PROVE  /\ DOMAIN finalized \subseteq DOMAIN finalized'
         /\ \A i \in DOMAIN finalized : finalized'[i] = finalized[i]
PROOF
  <1> DEFINE B == [number : Nat, required : Nat, total : Nat]
  <1>1. finalized \in Seq(B)
    BY DEF IInv, TypeOK
  <1>2. ASSUME NEW b, finalized' = Append(finalized, b)
        PROVE  /\ DOMAIN finalized \subseteq DOMAIN finalized'
               /\ \A i \in DOMAIN finalized : finalized'[i] = finalized[i]
    <2> HIDE DEF B
    <2> QED
      BY <1>1, <1>2
  <1>3. finalized' = finalized \/ \E b : finalized' = Append(finalized, b)
    BY WorkChanges DEF WorkAdded, BlockFinalized
  <1> QED
    BY <1>2, <1>3

\* What a thread settles, and what the ledger holds, refers to finalized blocks.
LEMMA BlocksOfRewards ==
  ASSUME IInv
  PROVE  /\ \A t \in Threads : Settling(t) => settle[t].block \in DOMAIN finalized
         /\ \A i \in DOMAIN ledger : ledger[i].block \in DOMAIN finalized
PROOF
  <1>1. finalized \in Seq([number : Nat, required : Nat, total : Nat]) /\ SettleOK
    BY DEF IInv, TypeOK
  <1>2. DOMAIN finalized = 1..Len(finalized)
    BY <1>1
  <1> QED
    BY <1>1, <1>2 DEF SettleOK

\* Who settles after a step settled the same before it, or has just finalized a block.
LEMMA SharesStep ==
  ASSUME IInv, AttributionBounded, SharesOK, [Next]_vars
  PROVE  SharesOK'
PROOF
  <1>1. /\ pc \in [Threads -> {"idle"} \cup InFlight \cup Ticking]
        /\ settle \in [Threads -> [block : Nat, shares : Work]]
    BY DEF IInv, TypeOK
  <1> DEFINE Kept(t) == Settling(t) /\ settle'[t] = settle[t]
             Fresh(t) == \E w \in RequiredWorks : BlockFinalized(t, w)
  <1>2. \A t \in Threads : (pc[t] \in {"post_pool", "post_shares", "announce"})' => Kept(t) \/ Fresh(t)
    <2>1. CASE Clock \/ Crash \/ Recover \/ UNCHANGED vars
      BY <2>1, <1>1 DEF Clock, Crash, Recover, vars, locals, Settling
    <2>2. ASSUME NEW u \in Threads, Request(u) \/ IntentStep(u) \/ Fault(u)
          PROVE  \A t \in Threads : (pc[t] \in {"post_pool", "post_shares", "announce"})' => Kept(t) \/ Fresh(t)
      BY <2>2, <1>1 DEF Request, StartIntent, StopIntent, AdvanceBegin, IntentStep, StartPersist, StopPersist,
           StartRegister, StopDelete, Fault, PersistFails, TickFails, LeaveAdvance, Finish, Goto, Settling
    <2>3. ASSUME NEW u \in Threads, TickStep(u)
          PROVE  \A t \in Threads : (pc[t] \in {"post_pool", "post_shares", "announce"})' => Kept(t) \/ Fresh(t)
      <3>1. ASSUME AdvanceEnd(u) \/ (\E op \in Ops : TickUnregistered(u, op) \/ TickUpToDate(u, op) \/ TickRead(u, op))
                   \/ TickClaim(u) \/ WorkAdded(u)
            PROVE  \A t \in Threads : (pc[t] \in {"post_pool", "post_shares", "announce"})' => Kept(t)
        BY <3>1, <1>1 DEF AdvanceEnd, TickUnregistered, TickUpToDate, TickRead, TickClaim, WorkAdded,
             LeaveAdvance, Finish, Goto, Settling
      <3>2. ASSUME PostPool(u) \/ PostShares(u) \/ Announce(u) \/ PublishProgress(u)
            PROVE  \A t \in Threads : (pc[t] \in {"post_pool", "post_shares", "announce"})' => Kept(t)
        BY <3>2, <1>1 DEF PostPool, PostShares, Announce, PublishProgress, Goto, Settling
      <3>3. ASSUME NEW w \in RequiredWorks, BlockFinalized(u, w)
            PROVE  \A t \in Threads \ {u} : pc'[t] = pc[t] /\ settle'[t] = settle[t]
        BY <3>3, <1>1 DEF BlockFinalized, Goto
      <3> QED
        BY <2>3, <3>1, <3>2, <3>3 DEF TickStep, Settling
    <2> QED
      BY <2>1, <2>2, <2>3 DEF Next
  <1>3. SUFFICES ASSUME NEW t \in Threads, (pc[t] \in {"post_pool", "post_shares", "announce"})'
                 PROVE  Total(settle'[t].shares) <= finalized'[settle'[t].block].total
    BY DEF SharesOK, Settling
  <1>4. CASE Kept(t)
    <2>1. settle[t].block \in DOMAIN finalized
      BY <1>4, BlocksOfRewards
    <2>2. finalized'[settle[t].block] = finalized[settle[t].block]
      BY <2>1, BlocksKept
    <2> QED
      BY <1>4, <2>2 DEF SharesOK
  <1>5. ASSUME NEW w \in RequiredWorks, BlockFinalized(t, w)
        PROVE  Total(settle'[t].shares) <= finalized'[settle'[t].block].total
    <2> DEFINE b == [number |-> active.number, required |-> active.required,
                     total |-> active.accumulated + Amount(t)]
               B == [number : Nat, required : Nat, total : Nat]
    <2>1. finalized \in Seq(B) /\ finalized' = Append(finalized, b) /\ active.number = Len(finalized) + 1
      BY <1>5 DEF IInv, TypeOK, SettleOK, BlockFinalized
    <2>2. b.total = active.accumulated + Amount(t)
      OBVIOUS
    <2> HIDE DEF b, B
    <2>3. finalized'[active.number] = b
      BY <2>1
    <2> QED
      BY <1>5, <2>2, <2>3, BlockFinalizedBuckets
  <1> QED
    BY <1>2, <1>3, <1>4, <1>5

\* The ledger grows by what a thread shares out.
LEMMA LedgerStep ==
  ASSUME IInv, LedgerOK, SharesOK, [Next]_vars
  PROVE  LedgerOK'
PROOF
  <1> DEFINE E == [kind : {"pool", "shares"}, block : Nat, shares : Work]
  <1>1. ledger \in Seq(E) /\ \A i \in DOMAIN ledger : finalized'[ledger[i].block] = finalized[ledger[i].block]
    BY BlocksKept, BlocksOfRewards DEF IInv, TypeOK
  <1>2. CASE ledger' = ledger
    BY <1>1, <1>2 DEF LedgerOK
  <1>3. ASSUME NEW t \in Threads, PostPool(t) \/ PostShares(t)
        PROVE  \E e : /\ ledger' = Append(ledger, e)
                      /\ e.kind = "shares" => Total(e.shares) <= finalized'[e.block].total
    <2>1. CASE PostPool(t)
      <3> DEFINE e == [kind |-> "pool", block |-> settle[t].block, shares |-> NoWork]
      <3>1. ledger' = Append(ledger, e) /\ e.kind = "pool"
        BY <2>1 DEF PostPool, Post
      <3> HIDE DEF e
      <3> QED
        BY <3>1
    <2>2. CASE PostShares(t)
      <3> DEFINE e == [kind |-> "shares", block |-> settle[t].block, shares |-> settle[t].shares]
      <3>1. ledger' = Append(ledger, e) /\ e.block = settle[t].block /\ e.shares = settle[t].shares
        BY <2>2 DEF PostShares, Post
      <3>2. Settling(t) /\ finalized' = finalized
        BY <2>2 DEF PostShares, Settling
      <3> HIDE DEF e
      <3> QED
        BY <3>1, <3>2 DEF SharesOK
    <2> QED
      BY <1>3, <2>1, <2>2
  <1>4. ASSUME NEW e, ledger' = Append(ledger, e),
               e.kind = "shares" => Total(e.shares) <= finalized'[e.block].total
        PROVE  LedgerOK'
    <2> HIDE DEF E
    <2>1. /\ DOMAIN ledger' = DOMAIN ledger \cup {Len(ledger) + 1}
          /\ ledger'[Len(ledger) + 1] = e
          /\ \A i \in DOMAIN ledger : ledger'[i] = ledger[i]
      BY <1>1, <1>4
    <2> QED
      BY <1>1, <1>4, <2>1 DEF LedgerOK
  <1>5. CASE Clock \/ Crash \/ Recover \/ UNCHANGED vars
    BY <1>2, <1>5 DEF Clock, Crash, Recover, vars, database
  <1>6. ASSUME NEW t \in Threads, Request(t) \/ IntentStep(t) \/ Fault(t)
        PROVE  ledger' = ledger
    BY <1>6 DEF Request, StartIntent, StopIntent, AdvanceBegin, IntentStep, StartPersist, StopPersist,
         StartRegister, StopDelete, Fault, PersistFails, TickFails, database
  <1>7. ASSUME NEW t \in Threads, TickStep(t)
        PROVE  ledger' = ledger \/ PostPool(t) \/ PostShares(t)
    BY <1>7 DEF TickStep, AdvanceEnd, TickUnregistered, TickUpToDate, TickRead, TickClaim, WorkAdded,
         BlockFinalized, Announce, PublishProgress, database
  <1> QED
    BY <1>2, <1>3, <1>4, <1>5, <1>6, <1>7 DEF Next

\* Buckets change with the active block, or go with the process.
LEMMA BucketsStep ==
  ASSUME IInv, AttributionBounded, [Next]_vars
  PROVE  BucketsOK'
PROOF
  <1>1. BucketsOK
    BY DEF AttributionBounded, BucketsOK
  <1>2. CASE UNCHANGED <<contributions, active>>
    BY <1>1, <1>2 DEF BucketsOK
  <1>3. CASE Crash
    <2>1. contributions' = <<>>
      BY <1>3 DEF Crash
    <2> QED
      BY <2>1 DEF BucketsOK
  <1>4. CASE Clock \/ Recover \/ UNCHANGED vars
    BY <1>2, <1>4 DEF Clock, Recover, vars, memory, database
  <1>5. ASSUME NEW t \in Threads, Request(t) \/ IntentStep(t) \/ Fault(t)
        PROVE  UNCHANGED <<contributions, active>>
    BY <1>5 DEF Request, StartIntent, StopIntent, AdvanceBegin, IntentStep, StartPersist, StopPersist,
         StartRegister, StopDelete, Fault, PersistFails, TickFails, memory, database
  <1>6. ASSUME NEW t \in Threads, TickStep(t)
        PROVE  UNCHANGED <<contributions, active>> \/ WorkAdded(t) \/ \E w \in RequiredWorks : BlockFinalized(t, w)
    BY <1>6 DEF TickStep, AdvanceEnd, TickUnregistered, TickUpToDate, TickRead, TickClaim, PostPool,
         PostShares, Announce, PublishProgress, memory, database
  <1> QED
    BY <1>2, <1>3, <1>4, <1>5, <1>6, WorkAddedBuckets, BlockFinalizedBuckets DEF Next

-----------------------------------------------------------------------------
(* Published progress.                                                     *)

\* The active block fills up or is followed by the next one.
LEMMA ActiveAdvances ==
  ASSUME IInv, [Next]_vars
  PROVE  \/ active'.number > active.number
         \/ active'.number = active.number /\ active'.accumulated >= active.accumulated
PROOF
  <1>1. active \in [number : Nat \ {0}, required : Nat \ {0}, accumulated : Nat]
    BY DEF IInv, TypeOK
  <1>2. CASE active' = active
    BY <1>1, <1>2
  <1>3. ASSUME NEW t \in Threads, WorkAdded(t)
        PROVE  active'.number = active.number /\ active'.accumulated >= active.accumulated
    <2>1. Amount(t) \in Nat
      BY <1>3, AmountType DEF WorkAdded, InTick, Crediting, IInv, ControlOK
    <2> QED
      BY <1>1, <1>3, <2>1 DEF WorkAdded
  <1>4. ASSUME NEW t \in Threads, NEW w \in RequiredWorks, BlockFinalized(t, w)
        PROVE  active'.number > active.number
    BY <1>1, <1>4 DEF BlockFinalized
  <1> QED
    BY <1>2, <1>3, <1>4, WorkChanges

\* What is published is the active block of that moment.
LEMMA Publishes ==
  ASSUME [Next]_vars
  PROVE  \/ progress' = progress
         \/ progress' = [number |-> active.number, accumulated |-> active.accumulated] /\ active' = active
PROOF
  <1>1. CASE Clock \/ Crash \/ Recover \/ UNCHANGED vars
    BY <1>1 DEF Clock, Crash, Recover, vars, database
  <1>2. ASSUME NEW t \in Threads, Request(t) \/ IntentStep(t) \/ Fault(t)
        PROVE  progress' = progress
    BY <1>2 DEF Request, StartIntent, StopIntent, AdvanceBegin, IntentStep, StartPersist, StopPersist,
         StartRegister, StopDelete, Fault, PersistFails, TickFails, database
  <1>3. ASSUME NEW t \in Threads, TickStep(t)
        PROVE  progress' = progress \/ PublishProgress(t)
    BY <1>3 DEF TickStep, AdvanceEnd, TickUnregistered, TickUpToDate, TickRead, TickClaim, WorkAdded,
         BlockFinalized, PostPool, PostShares, Announce, database
  <1> QED
    BY <1>1, <1>2, <1>3 DEF Next, PublishProgress

\* The published progress stays behind the active block, and does not go back.
LEMMA ProgressStep ==
  ASSUME IInv, ProgressOK, [Next]_vars
  PROVE  /\ ProgressOK'
         /\ \/ progress' = progress
            \/ progress'.number > progress.number
            \/ progress'.number = progress.number /\ progress'.accumulated >= progress.accumulated
PROOF
  <1>1. /\ active \in [number : Nat \ {0}, required : Nat \ {0}, accumulated : Nat]
        /\ progress \in [number : Nat, accumulated : Nat]
        /\ active' \in [number : Nat \ {0}, required : Nat \ {0}, accumulated : Nat]
        /\ progress' \in [number : Nat, accumulated : Nat]
    BY StepInvariant DEF IInv, TypeOK
  <1>2. CASE progress' = progress
    BY <1>1, <1>2, ActiveAdvances DEF ProgressOK
  <1>3. CASE progress' = [number |-> active.number, accumulated |-> active.accumulated] /\ active' = active
    BY <1>1, <1>3 DEF ProgressOK
  <1> QED
    BY <1>2, <1>3, Publishes

-----------------------------------------------------------------------------
(* The theorems.                                                           *)

LEMMA InitWork == Init => WInv
PROOF
  <1> SUFFICES ASSUME Init PROVE WInv
    OBVIOUS
  <1>1. IInv
    BY InitInvariant
  <1>2. /\ events = <<>> /\ finalized = <<>> /\ ledger = <<>> /\ contributions = <<>>
        /\ active = [number |-> 1, required |-> InitialWork, accumulated |-> 0]
        /\ progress = [number |-> 0, accumulated |-> 0]
    BY DEF Init
  <1>3. StartEvents = {} /\ DOMAIN finalized = {} /\ DOMAIN ledger = {} /\ DOMAIN contributions = {}
    BY <1>2 DEF StartEvents
  <1>4. WorkConserved
    <2>1. CreditedWork = 0 /\ MinedWork = 0
      BY <1>3, SumEmpty DEF CreditedWork, MinedWork
    <2>2. active.number = Len(finalized) + 1 /\ active.accumulated = 0
      BY <1>2
    <2>3. BlocksInOrder
      BY <1>3, <2>2 DEF BlocksInOrder
    <2> QED
      BY <2>1, <2>2, <2>3, ConservedIsSum
  <1>5. AttributionBounded
    BY <1>3 DEF AttributionBounded
  <1>6. BackedOK
    BY DEF Init, BackedOK, MemoryOK, Registered, Crediting
  <1>7. SharesOK
    BY DEF Init, SharesOK, Settling
  <1>8. ProgressOK
    BY <1>2 DEF ProgressOK
  <1> QED
    BY <1>1, <1>4, <1>5, <1>6, <1>7, <1>8 DEF WInv

LEMMA StepWork == WInv /\ [Next]_vars => WInv'
PROOF
  <1> SUFFICES ASSUME WInv, [Next]_vars PROVE WInv'
    OBVIOUS
  <1>1. IInv /\ BackedOK /\ WorkConserved /\ AttributionBounded /\ SharesOK /\ ProgressOK
    BY DEF WInv
  <1>2. IInv'
    BY <1>1, StepInvariant
  <1>3. WorkConserved' /\ BackedOK'
    BY <1>1, ConservedStep
  <1>4. AttributionBounded'
    <2>1. LedgerOK
      BY <1>1 DEF AttributionBounded, LedgerOK
    <2>2. BucketsOK' /\ LedgerOK'
      BY <1>1, <2>1, BucketsStep, LedgerStep
    <2> QED
      BY <2>2 DEF AttributionBounded, BucketsOK, LedgerOK
  <1>5. SharesOK' /\ ProgressOK'
    BY <1>1, SharesStep, ProgressStep
  <1> QED
    BY <1>2, <1>3, <1>4, <1>5 DEF WInv

\* The balance of work, its attribution and the published progress are invariant together.
THEOREM WorkInvariant == Spec => []WInv
  BY InitWork, StepWork, PTL DEF Spec

\* No work is lost at a block boundary and none is counted twice: what the runs were
\* credited with is what the finalized blocks required and the active block holds.
THEOREM WorkIsConserved == Spec => []WorkConserved
PROOF
  <1>1. WInv => WorkConserved
    BY DEF WInv
  <1> QED
    BY <1>1, WorkInvariant, PTL

\* Contributions are for the active block and within its work; no block's rewards are
\* shared for more work than it received.
THEOREM AttributionIsBounded == Spec => []AttributionBounded
PROOF
  <1>1. WInv => AttributionBounded
    BY DEF WInv
  <1> QED
    BY <1>1, WorkInvariant, PTL

\* The block progress a client is shown never goes back.
THEOREM ProgressIsMonotone == Spec => ProgressMonotone
PROOF
  <1>1. WInv /\ [Next]_vars =>
          [\/ progress'.number > progress.number
           \/ progress'.number = progress.number /\ progress'.accumulated >= progress.accumulated]_progress
    BY ProgressStep DEF WInv
  <1> QED
    BY <1>1, WorkInvariant, PTL DEF Spec, ProgressMonotone
=============================================================================
