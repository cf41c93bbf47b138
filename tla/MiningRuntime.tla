--------------------------- MODULE MiningRuntime ---------------------------
(* The authoritative mining runtime of one server process:                 *)
(* server/api/v1/blockchain.py (start and stop intents, the advance that   *)
(* every status, snapshot and event request performs, recovery after a     *)
(* restart), server/domain/mining/service.py (process_tick), the Postgres  *)
(* block store and the ledger poster.  Request handlers run in a thread    *)
(* pool, so each is a sequence of steps of a thread; a step is a database  *)
(* commit or a read or write of process memory that another thread may     *)
(* come between.  A crash loses process memory and keeps the database.     *)
EXTENDS Integers, Sequences, FiniteSets, Functions

CONSTANTS
  Ops,            \* operation ids named by start intents
  Players,        \* players bound to the sessions of the intents
  Threads,        \* request-handler threads
  Rates,          \* base_hashrate_hps values of start intents
  RequiredWorks,  \* what the difficulty adjuster may answer
  InitialWork,    \* required_work of block 1
  None,           \* no operation, no lock holder
  MaxTime,        \* bound: the clock stops here
  MaxStarts,      \* bound: number of start intents that pass their checks
  MaxStops,       \* bound: number of stop intents that pass their checks
  MaxRestarts,    \* bound: number of crashes of the process
  MaxFailures     \* bound: number of database calls that raise

ASSUME RuntimeAssumption ==
  /\ Rates \subseteq Nat \ {0}
  /\ RequiredWorks \subseteq Nat \ {0}
  /\ RequiredWorks # {}
  /\ InitialWork \in Nat \ {0}
  /\ IsFiniteSet(Players)
  /\ MaxTime \in Nat /\ MaxStarts \in Nat /\ MaxStops \in Nat
  /\ MaxRestarts \in Nat /\ MaxFailures \in Nat
  /\ None \notin Threads
  /\ None \notin Ops
  /\ None \notin Players

VARIABLES
  now,            \* the server clock, whole seconds
  operations,     \* _runtime_mining_service.operations; sid 0: absent
  runtimeLock,    \* holder of _operation_runtime_lock, or None
  contributions,  \* _block_contributions: block -> player -> work
  recovered,      \* _runtime_recovery_complete
  pc,             \* where each thread is
  intent,         \* the intent a thread is serving
  todo,           \* operation ids the thread's advance has still to tick
  tick,           \* the tick the thread is processing
  settle,         \* the finalized block the thread is settling
  events,         \* table mining_operation_runtime_events, in commit order
  active,         \* table blockchain_active_block
  finalized,      \* table blockchain_finalized_blocks, in commit order
  ledger,         \* block and player ledger entries, in commit order
  announced,      \* blocks whose network.block_finalized.v1 is in the stream
  progress,       \* the last network.block_progress.v1 in the stream
  started,        \* start intents so far: gives every run of an operation its id
  stopped,        \* stop intents so far
  restarts,       \* crashes so far
  failures,       \* database calls that raised so far
  credit,         \* history: how often each second of each run was credited
  raced           \* history: operations with two intents in flight at once

memory == <<operations, runtimeLock, contributions, recovered>>
locals == <<pc, intent, todo, tick, settle>>
database == <<events, active, finalized, ledger, announced, progress>>
bounds == <<started, stopped, restarts, failures>>
history == <<credit, raced>>
vars == <<now, memory, locals, database, bounds, history>>

Sids == 1..MaxStarts
Times == 0..MaxTime
Seconds == 0..(MaxTime - 1)

-----------------------------------------------------------------------------
(* Shapes of the data.  An operation is a MiningOperationState; its "sid"  *)
(* is the id of the durable start event it stems from.  Nothing in the     *)
(* repository writes a boundary event for a runtime operation, so its      *)
(* multiplier stays 1 and it is never paused (IntervalSlicer models those).*)

Registration == [sid : 0..MaxStarts, player : Players \cup {None}, rate : Nat, last : Times]

Absent == [sid |-> 0, player |-> None, rate |-> 0, last |-> 0]

Registered(op) == operations[op] # Absent

NoIntent == [op |-> None, player |-> None, rate |-> 0, at |-> 0, sid |-> 0]
NoTick == [op |-> None, sid |-> 0, player |-> None, rate |-> 0, from |-> 0, to |-> 0]
NoWork == [p \in Players |-> 0]
NoSettle == [block |-> 0, shares |-> NoWork]

InFlight == {"start_persist", "start_register", "stop_persist", "stop_delete"}
Ticking == {"scan", "claim", "add", "post_pool", "post_shares", "announce", "publish"}

Init ==
  /\ now = 0
  /\ operations = [op \in Ops |-> Absent]
  /\ runtimeLock = None
  /\ contributions = <<>>
  /\ recovered = TRUE
  /\ pc = [t \in Threads |-> "idle"]
  /\ intent = [t \in Threads |-> NoIntent]
  /\ todo = [t \in Threads |-> {}]
  /\ tick = [t \in Threads |-> NoTick]
  /\ settle = [t \in Threads |-> NoSettle]
  /\ events = <<>>
  /\ active = [number |-> 1, required |-> InitialWork, accumulated |-> 0]
  /\ finalized = <<>>
  /\ ledger = <<>>
  /\ announced = {}
  /\ progress = [number |-> 0, accumulated |-> 0]
  /\ started = 0
  /\ stopped = 0
  /\ restarts = 0
  /\ failures = 0
  /\ credit = [s \in Sids |-> [x \in Seconds |-> 0]]
  /\ raced = {}

Goto(t, label) == pc' = [pc EXCEPT ![t] = label]

\* The request ends, whether it is answered or raises.
Finish(t) ==
  /\ Goto(t, "idle")
  /\ intent' = [intent EXCEPT ![t] = NoIntent]
  /\ todo' = [todo EXCEPT ![t] = {}]
  /\ tick' = [tick EXCEPT ![t] = NoTick]
  /\ settle' = [settle EXCEPT ![t] = NoSettle]

\* The "with" block of an advance is left, which releases the runtime lock.
LeaveAdvance(t) ==
  /\ Finish(t)
  /\ runtimeLock' = None

Clock ==
  /\ now < MaxTime
  /\ now' = now + 1
  /\ UNCHANGED <<memory, locals, database, bounds, history>>

-----------------------------------------------------------------------------
(* Start and stop intents.  Neither takes a lock: the check, the durable   *)
(* event and the change of memory are three steps.                         *)

Overlapping(t, op) == \E u \in Threads \ {t} : intent[u].op = op

Race(t, op) == raced' = IF Overlapping(t, op) THEN raced \cup {op} ELSE raced

StartIntent(t, op, p, r) ==
  /\ pc[t] = "idle"
  /\ recovered
  /\ ~Registered(op)
  /\ started < MaxStarts
  /\ started' = started + 1
  /\ intent' = [intent EXCEPT ![t] =
                  [op |-> op, player |-> p, rate |-> r, at |-> now, sid |-> started + 1]]
  /\ Goto(t, "start_persist")
  /\ Race(t, op)
  /\ UNCHANGED <<now, memory, todo, tick, settle, database, stopped, restarts, failures, credit>>

StartPersist(t) ==
  /\ pc[t] = "start_persist"
  /\ events' = Append(events, [type |-> "start", op |-> intent[t].op,
                               player |-> intent[t].player, rate |-> intent[t].rate,
                               at |-> intent[t].at, sid |-> intent[t].sid])
  /\ Goto(t, "start_register")
  /\ UNCHANGED <<now, memory, intent, todo, tick, settle, active, finalized, ledger,
                 announced, progress, bounds, history>>

\* register_operation: the dictionary entry is replaced, whoever put it there.
StartRegister(t) ==
  /\ pc[t] = "start_register"
  /\ operations' = [operations EXCEPT ![intent[t].op] =
                      [sid |-> intent[t].sid, player |-> intent[t].player,
                       rate |-> intent[t].rate, last |-> intent[t].at]]
  /\ Finish(t)
  /\ UNCHANGED <<now, runtimeLock, contributions, recovered, database, bounds, history>>

StopIntent(t, op, p) ==
  /\ pc[t] = "idle"
  /\ recovered
  /\ Registered(op)
  /\ operations[op].player = p
  /\ stopped < MaxStops
  /\ stopped' = stopped + 1
  /\ intent' = [intent EXCEPT ![t] =
                  [op |-> op, player |-> p, rate |-> 0, at |-> now, sid |-> 0]]
  /\ Goto(t, "stop_persist")
  /\ Race(t, op)
  /\ UNCHANGED <<now, memory, todo, tick, settle, database, started, restarts, failures, credit>>

StopPersist(t) ==
  /\ pc[t] = "stop_persist"
  /\ events' = Append(events, [type |-> "stop", op |-> intent[t].op,
                               player |-> intent[t].player, rate |-> 0,
                               at |-> intent[t].at, sid |-> 0])
  /\ Goto(t, "stop_delete")
  /\ UNCHANGED <<now, memory, intent, todo, tick, settle, active, finalized, ledger,
                 announced, progress, bounds, history>>

\* stop_operation deletes whatever is registered now, and credits no last tick.
StopDelete(t) ==
  /\ pc[t] = "stop_delete"
  /\ operations' = [operations EXCEPT ![intent[t].op] = Absent]
  /\ Finish(t)
  /\ UNCHANGED <<now, runtimeLock, contributions, recovered, database, bounds, history>>

\* Mutant of PersistFails: the exception is swallowed and the handler goes on.
PersistFailureSwallowed(t) ==
  /\ pc[t] \in {"start_persist", "stop_persist"}
  /\ failures < MaxFailures
  /\ failures' = failures + 1
  /\ Goto(t, IF pc[t] = "start_persist" THEN "start_register" ELSE "stop_delete")
  /\ UNCHANGED <<now, memory, intent, todo, tick, settle, database, started, stopped, restarts, history>>

\* The insert of the durable event raises: 503, and memory is left alone.
PersistFails(t) ==
  /\ pc[t] \in {"start_persist", "stop_persist"}
  /\ failures < MaxFailures
  /\ failures' = failures + 1
  /\ Finish(t)
  /\ UNCHANGED <<now, memory, database, started, stopped, restarts, history>>

-----------------------------------------------------------------------------
(* The advance every read request performs: under the runtime lock, one    *)
(* process_tick for each operation that was registered when it began.      *)

LockIgnored == TRUE  \* mutant of LockFree

LockFree == runtimeLock = None

AdvanceBegin(t) ==
  /\ pc[t] = "idle"
  /\ recovered
  /\ LockFree
  /\ runtimeLock' = t
  /\ todo' = [todo EXCEPT ![t] = {op \in Ops : Registered(op)}]
  /\ Goto(t, "scan")
  /\ UNCHANGED <<now, operations, contributions, recovered, intent, tick, settle,
                 database, bounds, history>>

AdvanceEnd(t) ==
  /\ pc[t] = "scan"
  /\ todo[t] = {}
  /\ LeaveAdvance(t)
  /\ UNCHANGED <<now, operations, contributions, recovered, database, bounds, history>>

\* Mutant of TickUnregistered: the error path keeps the lock.
TickUnregisteredHoldsLock(t, op) ==
  /\ pc[t] = "scan"
  /\ op \in todo[t]
  /\ ~Registered(op)
  /\ Finish(t)
  /\ UNCHANGED <<now, memory, database, bounds, history>>

\* The operation was stopped after the advance listed it: ValueError, and the
\* request ends without ticking the others.
TickUnregistered(t, op) ==
  /\ pc[t] = "scan"
  /\ op \in todo[t]
  /\ ~Registered(op)
  /\ LeaveAdvance(t)
  /\ UNCHANGED <<now, operations, contributions, recovered, database, bounds, history>>

\* tick_end <= last_processed_at: nothing to do for this operation.
TickUpToDate(t, op) ==
  /\ pc[t] = "scan"
  /\ op \in todo[t]
  /\ Registered(op)
  /\ now <= operations[op].last
  /\ todo' = [todo EXCEPT ![t] = @ \ {op}]
  /\ UNCHANGED <<now, memory, pc, intent, tick, settle, database, bounds, history>>

\* The operation object and the clock are read, the slices are computed.
TickRead(t, op) ==
  /\ pc[t] = "scan"
  /\ op \in todo[t]
  /\ Registered(op)
  /\ now > operations[op].last
  /\ todo' = [todo EXCEPT ![t] = @ \ {op}]
  /\ tick' = [tick EXCEPT ![t] =
                [op |-> op, sid |-> operations[op].sid, player |-> operations[op].player,
                 rate |-> operations[op].rate, from |-> operations[op].last, to |-> now]]
  /\ Goto(t, "claim")
  /\ UNCHANGED <<now, memory, intent, settle, database, bounds, history>>

\* last_processed_at is advanced on the object that was read, which a stop or
\* a second start may have taken out of the dictionary by now.
TickClaim(t) ==
  /\ pc[t] = "claim"
  /\ LET op == tick[t].op
     IN operations' = IF operations[op].sid = tick[t].sid
                      THEN [operations EXCEPT ![op].last = tick[t].to]
                      ELSE operations
  /\ Goto(t, "add")
  /\ UNCHANGED <<now, runtimeLock, contributions, recovered, intent, todo, tick, settle,
                 database, bounds, history>>

AmountReversed(t) == tick[t].rate * (tick[t].from - tick[t].to)  \* mutant of Amount

Amount(t) == tick[t].rate * (tick[t].to - tick[t].from)

Bucket(b) == IF b \in DOMAIN contributions THEN contributions[b] ELSE NoWork

\* Mutant of Attributed: the whole contribution is carried over.
AttributedWhole(t, toBlock, toNext) ==
  LET n == active.number
      put(b, w) == [Bucket(b) EXCEPT ![tick[t].player] = @ + w]
  IN [b \in DOMAIN contributions \cup {n} \cup (IF toNext > 0 THEN {n + 1} ELSE {})
      |-> IF b = n THEN put(b, toBlock) ELSE IF b = n + 1 THEN put(b, toBlock + toNext) ELSE Bucket(b)]

\* What the buckets hold once the tick's work is split at the block boundary.
Attributed(t, toBlock, toNext) ==
  LET n == active.number
      put(b, w) == [Bucket(b) EXCEPT ![tick[t].player] = @ + w]
  IN [b \in DOMAIN contributions
            \cup (IF toBlock > 0 THEN {n} ELSE {}) \cup (IF toNext > 0 THEN {n + 1} ELSE {})
      |-> IF b = n THEN put(b, toBlock) ELSE IF b = n + 1 THEN put(b, toNext) ELSE Bucket(b)]

Credited(t) ==
  credit' = [credit EXCEPT ![tick[t].sid] =
               [x \in Seconds |-> IF x \in tick[t].from..(tick[t].to - 1) THEN @[x] + 1 ELSE @[x]]]

\* add_work commits, the block stays open; the work is noted for the player.
WorkAdded(t) ==
  /\ pc[t] = "add"
  /\ active.accumulated + Amount(t) < active.required
  /\ active' = [active EXCEPT !.accumulated = @ + Amount(t)]
  /\ contributions' = Attributed(t, Amount(t), 0)
  /\ Credited(t)
  /\ Goto(t, "publish")
  /\ UNCHANGED <<now, operations, runtimeLock, recovered, intent, todo, tick, settle, events,
                 finalized, ledger, announced, progress, bounds, raced>>

ResidualDropped(t) == 0  \* mutant of Residual

Residual(t) == active.accumulated + Amount(t) - active.required

\* add_work commits and finalizes the block: the surplus is carried to the
\* next one, and the finalized block's bucket is taken for its rewards.
BlockFinalized(t, required) ==
  /\ pc[t] = "add"
  /\ active.accumulated + Amount(t) >= active.required
  /\ required \in RequiredWorks
  /\ finalized' = Append(finalized, [number |-> active.number, required |-> active.required,
                                     total |-> active.accumulated + Amount(t)])
  /\ active' = [number |-> active.number + 1, required |-> required,
                accumulated |-> Residual(t)]
  /\ LET remaining == IF active.required > active.accumulated
                      THEN active.required - active.accumulated ELSE 0
         toBlock == IF Amount(t) < remaining THEN Amount(t) ELSE remaining
         buckets == Attributed(t, toBlock, Amount(t) - toBlock)
     IN /\ contributions' = [b \in DOMAIN buckets \ {active.number} |-> buckets[b]]
        /\ settle' = [settle EXCEPT ![t] =
                        [block |-> active.number,
                         shares |-> IF active.number \in DOMAIN buckets
                                    THEN buckets[active.number] ELSE NoWork]]
  /\ Credited(t)
  /\ Goto(t, "post_pool")
  /\ UNCHANGED <<now, operations, runtimeLock, recovered, intent, todo, tick, events,
                 ledger, announced, progress, bounds, raced>>

Post(kind, t, shares) ==
  ledger' = Append(ledger, [kind |-> kind, block |-> settle[t].block, shares |-> shares])

\* post_block_finalization: its own transaction.
PostPool(t) ==
  /\ pc[t] = "post_pool"
  /\ Post("pool", t, NoWork)
  /\ Goto(t, IF settle[t].shares = NoWork THEN "announce" ELSE "post_shares")
  /\ UNCHANGED <<now, memory, intent, todo, tick, settle, events, active, finalized,
                 announced, progress, bounds, history>>

\* Mutant of PostShares: the block is not announced.
PostSharesQuietly(t) ==
  /\ pc[t] = "post_shares"
  /\ Post("shares", t, settle[t].shares)
  /\ Goto(t, "publish")
  /\ UNCHANGED <<now, memory, intent, todo, tick, settle, events, active, finalized,
                 announced, progress, bounds, history>>

\* post_player_reward_entries: one transaction for all the players; it is
\* skipped when nobody is to be rewarded.
PostShares(t) ==
  /\ pc[t] = "post_shares"
  /\ Post("shares", t, settle[t].shares)
  /\ Goto(t, "announce")
  /\ UNCHANGED <<now, memory, intent, todo, tick, settle, events, active, finalized,
                 announced, progress, bounds, history>>

\* The player_reward events, then block_finalized.
Announce(t) ==
  /\ pc[t] = "announce"
  /\ announced' = announced \cup {settle[t].block}
  /\ Goto(t, "publish")
  /\ UNCHANGED <<now, memory, intent, todo, tick, settle, events, active, finalized,
                 ledger, progress, bounds, history>>

\* Mutant of PublishProgress: the number is that of the block before the tick.
PublishNumberBefore(t) ==
  /\ pc[t] = "publish"
  /\ progress' = [number |-> IF settle[t].block > 0 THEN settle[t].block ELSE active.number,
                  accumulated |-> active.accumulated]
  /\ tick' = [tick EXCEPT ![t] = NoTick]
  /\ settle' = [settle EXCEPT ![t] = NoSettle]
  /\ Goto(t, "scan")
  /\ UNCHANGED <<now, memory, intent, todo, events, active, finalized, ledger, announced,
                 bounds, history>>

\* block_progress shows the active block as it is after the tick.
PublishProgress(t) ==
  /\ pc[t] = "publish"
  /\ progress' = [number |-> active.number, accumulated |-> active.accumulated]
  /\ tick' = [tick EXCEPT ![t] = NoTick]
  /\ settle' = [settle EXCEPT ![t] = NoSettle]
  /\ Goto(t, "scan")
  /\ UNCHANGED <<now, memory, intent, todo, events, active, finalized, ledger, announced,
                 bounds, history>>

\* Mutant of TickFails: the settlement is tried again from its first posting.
TickRetriesSettlement(t) ==
  /\ pc[t] \in {"post_shares", "announce"}
  /\ failures < MaxFailures
  /\ failures' = failures + 1
  /\ Goto(t, "post_pool")
  /\ UNCHANGED <<now, memory, intent, todo, tick, settle, database, started, stopped,
                 restarts, history>>

\* A database call of the tick is about to be made: the read of the active
\* block that an up-to-date operation makes do with counts too.
CallsDatabase(t) ==
  \/ pc[t] \in {"add", "post_pool", "post_shares", "announce", "publish"}
  \/ pc[t] = "scan" /\ \E op \in todo[t] : Registered(op) /\ now <= operations[op].last

\* A database call raises: the exception leaves process_tick and the advance;
\* what was committed stays, what memory had taken is gone.
TickFails(t) ==
  /\ CallsDatabase(t)
  /\ failures < MaxFailures
  /\ failures' = failures + 1
  /\ LeaveAdvance(t)
  /\ UNCHANGED <<now, operations, contributions, recovered, database, started, stopped,
                 restarts, history>>

-----------------------------------------------------------------------------
(* Crash and recovery.  Recovery replays the durable events in the order   *)
(* they occurred; events of the same second keep the order of insertion.   *)

Before(i, j) ==
  \/ events[i].at < events[j].at
  \/ events[i].at = events[j].at /\ i < j

OfType(type, op) == {i \in DOMAIN events : events[i].type = type /\ events[i].op = op}

\* The start event that leaves op registered when the whole table is replayed:
\* no stop follows it, and op was not registered when it was replayed.
Revives(i, op) ==
  /\ i \in OfType("start", op)
  /\ \A j \in OfType("stop", op) : Before(j, i)
  /\ \A k \in OfType("start", op) :
       Before(k, i) => \E j \in OfType("stop", op) : Before(k, j) /\ Before(j, i)

\* A revived operation is registered as of its start: last is events[i].at.
Replayed(op) ==
  IF \E i \in DOMAIN events : Revives(i, op)
  THEN LET i == CHOOSE i \in DOMAIN events : Revives(i, op)
       IN [sid |-> events[i].sid, player |-> events[i].player,
           rate |-> events[i].rate, last |-> events[i].at]
  ELSE Absent

Crash ==
  /\ restarts < MaxRestarts
  /\ restarts' = restarts + 1
  /\ operations' = [op \in Ops |-> Absent]
  /\ runtimeLock' = None
  /\ contributions' = <<>>
  /\ recovered' = FALSE
  /\ pc' = [t \in Threads |-> "idle"]
  /\ intent' = [t \in Threads |-> NoIntent]
  /\ todo' = [t \in Threads |-> {}]
  /\ tick' = [t \in Threads |-> NoTick]
  /\ settle' = [t \in Threads |-> NoSettle]
  /\ UNCHANGED <<now, database, started, stopped, failures, history>>

\* Every handler recovers first, under the runtime lock.
Recover ==
  /\ ~recovered
  /\ LockFree
  /\ recovered' = TRUE
  /\ operations' = [op \in Ops |-> Replayed(op)]
  /\ UNCHANGED <<now, runtimeLock, contributions, locals, database, bounds, history>>

-----------------------------------------------------------------------------
IntentStep(t) ==
  \/ StartPersist(t)
  \/ StartRegister(t)
  \/ StopPersist(t)
  \/ StopDelete(t)

TickStep(t) ==
  \/ AdvanceEnd(t)
  \/ \E op \in Ops : TickUnregistered(t, op) \/ TickUpToDate(t, op) \/ TickRead(t, op)
  \/ TickClaim(t)
  \/ WorkAdded(t)
  \/ \E w \in RequiredWorks : BlockFinalized(t, w)
  \/ PostPool(t)
  \/ PostShares(t)
  \/ Announce(t)
  \/ PublishProgress(t)

Request(t) ==
  \/ \E op \in Ops, p \in Players : StopIntent(t, op, p) \/ \E r \in Rates : StartIntent(t, op, p, r)
  \/ AdvanceBegin(t)

Fault(t) == PersistFails(t) \/ TickFails(t)

Next ==
  \/ Clock
  \/ Crash
  \/ Recover
  \/ \E t \in Threads : Request(t) \/ IntentStep(t) \/ TickStep(t) \/ Fault(t)

Spec == Init /\ [][Next]_vars

\* A handler that has begun runs on; nothing forces a request, a crash, a
\* database failure or the clock.
FairSpec == Spec /\ \A t \in Threads : WF_vars(IntentStep(t)) /\ WF_vars(TickStep(t))

-----------------------------------------------------------------------------
(* Properties.                                                             *)

Work == [Players -> Nat]

IntentType == [op : Ops \cup {None}, player : Players \cup {None}, rate : Nat,
               at : Times, sid : 0..MaxStarts]
TickType == [op : Ops \cup {None}, sid : 0..MaxStarts, player : Players \cup {None},
             rate : Nat, from : Times, to : Times]
EventType == [type : {"start", "stop"}, op : Ops, player : Players, rate : Nat,
              at : Times, sid : 0..MaxStarts]

\* Every variable has its type.
TypeOK ==
  /\ now \in Times
  /\ operations \in [Ops -> Registration]
  /\ runtimeLock \in Threads \cup {None}
  /\ DOMAIN contributions \subseteq Nat
  /\ \A b \in DOMAIN contributions : contributions[b] \in Work
  /\ recovered \in BOOLEAN
  /\ pc \in [Threads -> {"idle"} \cup InFlight \cup Ticking]
  /\ intent \in [Threads -> IntentType]
  /\ todo \in [Threads -> SUBSET Ops]
  /\ tick \in [Threads -> TickType]
  /\ settle \in [Threads -> [block : Nat, shares : Work]]
  /\ events \in Seq(EventType)
  /\ active \in [number : Nat \ {0}, required : Nat \ {0}, accumulated : Nat]
  /\ finalized \in Seq([number : Nat, required : Nat, total : Nat])
  /\ ledger \in Seq([kind : {"pool", "shares"}, block : Nat, shares : Work])
  /\ announced \subseteq Nat
  /\ progress \in [number : Nat, accumulated : Nat]
  /\ started \in 0..MaxStarts
  /\ stopped \in 0..MaxStops
  /\ restarts \in 0..MaxRestarts
  /\ failures \in 0..MaxFailures
  /\ credit \in [Sids -> [Seconds -> Nat]]
  /\ raced \subseteq Ops

Total(w) == FoldFunction(+, 0, w)

\* The one active block is the successor of the finalized ones, and the work
\* that every run was ever credited with is exactly the work the finalized
\* blocks required plus what the active block holds: none is lost at a block
\* boundary and none is counted twice, whatever crashes or fails.
WorkConserved ==
  /\ active.number = Len(finalized) + 1
  /\ \A i \in DOMAIN finalized : finalized[i].number = i /\ finalized[i].total >= finalized[i].required
  /\ LET starts == {i \in DOMAIN events : events[i].type = "start"}
     IN Total([i \in starts |-> events[i].rate * Total(credit[events[i].sid])])
          = Total([i \in DOMAIN finalized |-> finalized[i].required]) + active.accumulated

\* Within one life of the process a second of a run is credited at most once,
\* however the advances of several requests, stops and second starts of the
\* same operation interleave; a restart may credit it once more.
CreditedOncePerLife ==
  \A s \in Sids, x \in Seconds : credit[s][x] <= 1 + restarts

\* Contributions are kept for the active block only and never exceed the work
\* it holds, and no block's rewards are shared for more work than it received.
AttributionBounded ==
  /\ \A b \in DOMAIN contributions :
       b = active.number /\ Total(contributions[b]) <= active.accumulated
  /\ \A i \in DOMAIN ledger :
       ledger[i].kind = "shares" => Total(ledger[i].shares) <= finalized[ledger[i].block].total

\* Unless two intents for the same operation were in flight together, what
\* runs in memory is what the durable history says runs, so that a restart
\* neither resurrects a stopped operation nor forgets a started one.
MemoryMatchesHistory ==
  recovered =>
    \A op \in Ops \ raced :
      (\A t \in Threads : intent[t].op # op) =>
        operations[op] = [Replayed(op) EXCEPT !.last = operations[op].last]

\* The active block a client is shown never goes back, whichever thread ticks.
ProgressMonotone ==
  [][\/ progress'.number > progress.number
     \/ progress'.number = progress.number /\ progress'.accumulated >= progress.accumulated]_progress

Settlement == INSTANCE BlockSettlement WITH
  height <- Len(finalized),
  entries <- [i \in DOMAIN ledger |-> [kind |-> ledger[i].kind, block |-> ledger[i].block]],
  announced <- announced

\* Blocks are finalized, entered in the ledger and announced as BlockSettlement
\* says: once each and in that order.
SettlesBlocks == Settlement!Spec

\* An advance that has taken the runtime lock gives it back, on every path.
AdvanceCompletes == \A t \in Threads : runtimeLock = t ~> runtimeLock # t

\* Without a crash or a database failure every finalized block is announced,
\* hence entered in the ledger.
EveryBlockSettled ==
  \A b \in 1..(MaxTime * MaxStarts) :
    Len(finalized) >= b ~> (b \in announced \/ restarts > 0 \/ failures > 0)

\* server/api/v1/blockchain.py: "recovery never invents work".  No second of a
\* run is credited twice, restarts included.
RecoveryNeverInventsWork ==
  \A s \in Sids, x \in Seconds : credit[s][x] <= 1

\* docs/m1-slice-1-signoff-checklist.md: "Immutable reward entry coverage for
\* finalized block outcomes".  A finalized block no thread is settling has its
\* reward entry.
RewardEntryCoverage ==
  \A i \in DOMAIN finalized :
    \/ \E j \in DOMAIN ledger : ledger[j].kind = "pool" /\ ledger[j].block = i
    \/ \E t \in Threads : settle[t].block = i
=============================================================================
