------------------------ MODULE MiningRuntime_proof ------------------------
(* The inductive invariant of MiningRuntime and what follows from it for   *)
(* every number of threads, players, operations, restarts and failures:    *)
(* type correctness, no second credited twice in one life of the process,  *)
(* and that the runtime implements BlockSettlement.                        *)
EXTENDS MiningRuntime, TLAPS

Starting(t) == pc[t] \in {"start_persist", "start_register"}
Crediting(t) == pc[t] \in {"claim", "add"}
Settling(t) == pc[t] \in {"post_pool", "post_shares", "announce"}
InTick(t) == Crediting(t) \/ Settling(t) \/ pc[t] = "publish"

\* The runtime lock is held by the thread that advances, and by nobody else.
LockOK == \A t \in Threads : (runtimeLock = t) <=> (pc[t] \in Ticking)

\* What a thread that serves an intent, or ticks an operation, works on.
IntentOK ==
  \A t \in Threads :
    /\ pc[t] \in InFlight => intent[t].op \in Ops /\ intent[t].player \in Players
    /\ Starting(t) => intent[t].sid \in 1..started

TickOK ==
  \A t \in Threads :
    IF InTick(t)
    THEN /\ tick[t].op \in Ops
         /\ tick[t].sid \in 1..started
         /\ tick[t].player \in Players
         /\ tick[t].from <= tick[t].to
    ELSE tick[t] = NoTick

\* Runs are numbered by the start intents; they belong to a player.
RunOK ==
  /\ \A op \in Ops :
       Registered(op) => operations[op].sid \in 1..started /\ operations[op].player \in Players
  /\ \A i \in DOMAIN events : events[i].type = "start" => events[i].sid \in 1..started

\* Until recovery no handler gets past its first line.
QuietOK == ~recovered => runtimeLock = None /\ \A t \in Threads : pc[t] = "idle"

ControlOK == LockOK /\ IntentOK /\ TickOK /\ RunOK /\ QuietOK

\* The id of a run belongs to one start event ...
EventSidOK ==
  /\ \A i, j \in DOMAIN events :
       events[i].type = "start" /\ events[j].type = "start" /\ events[i].sid = events[j].sid => i = j
  /\ \A t \in Threads : pc[t] = "start_persist" =>
       \A i \in DOMAIN events : events[i].type = "start" => events[i].sid # intent[t].sid

\* ... to one start intent, which nothing else shares until it has registered ...
IntentSidOK ==
  /\ \A t, u \in Threads :
       Starting(t) /\ Starting(u) /\ intent[t].sid = intent[u].sid => t = u
  /\ \A t \in Threads : Starting(t) =>
       /\ \A op \in Ops : operations[op].sid # intent[t].sid
       /\ \A u \in Threads : tick[u].sid # intent[t].sid

\* ... and then to one operation and to the ticks of that operation.
HolderSidOK ==
  /\ \A op, oq \in Ops :
       operations[op].sid = operations[oq].sid /\ operations[op].sid # 0 => op = oq
  /\ \A t \in Threads, op \in Ops :
       operations[op].sid = tick[t].sid /\ operations[op].sid # 0 => op = tick[t].op

SidOK == EventSidOK /\ IntentSidOK /\ HolderSidOK

\* The seconds that this life of the process may still credit.
Creditable(s, x) ==
  \/ s > started
  \/ ~recovered
  \/ \E op \in Ops : operations[op].sid = s /\ x >= operations[op].last
  \/ \E t \in Threads : Starting(t) /\ intent[t].sid = s
  \/ \E t \in Threads : Crediting(t) /\ tick[t].sid = s /\ x >= tick[t].from

CreditOK ==
  /\ CreditedOncePerLife
  /\ \A s \in Sids, x \in Seconds : Creditable(s, x) => credit[s][x] <= restarts

\* An operation's last_processed_at moves when its tick claims the window.
ClaimOK ==
  \A t \in Threads, op \in Ops :
    Crediting(t) /\ operations[op].sid = tick[t].sid =>
      operations[op].last = IF pc[t] = "claim" THEN tick[t].from ELSE tick[t].to

\* How far the settlement of the last finalized block has come.
SettleOK ==
  /\ active.number = Len(finalized) + 1
  /\ \A i \in DOMAIN ledger : ledger[i].block \in 1..Len(finalized)
  /\ announced \subseteq 1..Len(finalized)
  /\ \A t \in Threads : Settling(t) =>
       /\ settle[t].block = Len(finalized)
       /\ settle[t].block \in 1..Len(finalized)
       /\ settle[t].block \notin announced
  /\ \A t \in Threads : pc[t] = "post_pool" =>
       \A i \in DOMAIN ledger : ledger[i].block # settle[t].block
  /\ \A t \in Threads : pc[t] = "post_shares" =>
       \A i \in DOMAIN ledger : ledger[i].kind = "shares" => ledger[i].block # settle[t].block
  /\ \A t \in Threads : pc[t] \in {"post_shares", "announce"} =>
       \E i \in DOMAIN ledger : ledger[i].kind = "pool" /\ ledger[i].block = settle[t].block

IInv == TypeOK /\ ControlOK /\ SidOK /\ ClaimOK /\ CreditOK /\ SettleOK


\* A tick's contribution is a natural number.
LEMMA AmountType ==
  ASSUME TypeOK, TickOK, NEW t \in Threads, InTick(t)
  PROVE  Amount(t) \in Nat
PROOF
  <1>1. tick[t].rate \in Nat /\ tick[t].to \in Nat /\ tick[t].from \in Nat
    <2>1. tick[t] \in TickType
      BY DEF TypeOK
    <2> QED
      BY <2>1, RuntimeAssumption DEF TickType, Times
  <1>2. tick[t].to - tick[t].from \in Nat
    BY <1>1 DEF TickOK
  <1>3. \A m, n \in Nat : m * n \in Nat
    OBVIOUS
  <1> QED
    BY <1>1, <1>2, <1>3 DEF Amount

\* Splitting the work of a tick between two buckets keeps the buckets well typed.
LEMMA AttributedType ==
  ASSUME TypeOK, TickOK, NEW t \in Threads, InTick(t), NEW m \in Nat, NEW n \in Nat
  PROVE  /\ DOMAIN Attributed(t, m, n) \subseteq Nat
         /\ \A b \in DOMAIN Attributed(t, m, n) : Attributed(t, m, n)[b] \in Work
PROOF
  <1>1. \A b \in Nat : Bucket(b) \in Work
    BY DEF Bucket, NoWork, Work, TypeOK
  <1>2. \A b \in Nat, w \in Nat : [Bucket(b) EXCEPT ![tick[t].player] = @ + w] \in Work
    BY <1>1 DEF Work, TickOK
  <1>3. active.number \in Nat /\ DOMAIN contributions \subseteq Nat
    BY DEF TypeOK
  <1> QED
    BY <1>1, <1>2, <1>3 DEF Attributed

\* Noting what a tick credits keeps the credit well typed.
LEMMA CreditedType ==
  ASSUME TypeOK, TickOK, NEW t \in Threads, InTick(t), Credited(t)
  PROVE  credit' \in [Sids -> [Seconds -> Nat]]
PROOF
  <1>1. tick[t].sid \in Sids
    BY RuntimeAssumption DEF TickOK, Sids, TypeOK
  <1>2. credit[tick[t].sid] \in [Seconds -> Nat]
    BY <1>1 DEF TypeOK
  <1>3. credit \in [Sids -> [Seconds -> Nat]]
    BY DEF TypeOK
  <1> QED
    BY <1>1, <1>2, <1>3 DEF Credited

\* Adding work that leaves the block open keeps the types.
LEMMA WorkAddedType ==
  ASSUME TypeOK, TickOK, NEW t \in Threads, WorkAdded(t)
  PROVE  TypeOK'
PROOF
  <1>1. InTick(t)
    BY DEF WorkAdded, InTick, Crediting
  <1>2. Amount(t) \in Nat
    BY <1>1, AmountType
  <1>3. active' \in [number : Nat \ {0}, required : Nat \ {0}, accumulated : Nat]
    <2>1. active \in [number : Nat \ {0}, required : Nat \ {0}, accumulated : Nat]
      BY DEF TypeOK
    <2> QED
      BY <1>2, <2>1 DEF WorkAdded
  <1>4. DOMAIN contributions' \subseteq Nat /\ \A b \in DOMAIN contributions' : contributions'[b] \in Work
    BY <1>1, <1>2, AttributedType DEF WorkAdded
  <1>5. credit' \in [Sids -> [Seconds -> Nat]]
    BY <1>1, CreditedType DEF WorkAdded
  <1>6. pc' \in [Threads -> {"idle"} \cup InFlight \cup Ticking]
    BY DEF WorkAdded, Goto, TypeOK, Ticking
  <1> QED
    BY <1>3, <1>4, <1>5, <1>6 DEF WorkAdded, TypeOK, bounds, history

\* Adding work that finalizes the block keeps the types.
LEMMA BlockFinalizedType ==
  ASSUME TypeOK, TickOK, NEW t \in Threads, NEW w \in RequiredWorks, BlockFinalized(t, w)
  PROVE  TypeOK'
PROOF
  <1>1. InTick(t)
    BY DEF BlockFinalized, InTick, Crediting
  <1>2. Amount(t) \in Nat
    BY <1>1, AmountType
  <1>3. active' \in [number : Nat \ {0}, required : Nat \ {0}, accumulated : Nat]
    <2>1. active \in [number : Nat \ {0}, required : Nat \ {0}, accumulated : Nat] /\ w \in Nat \ {0}
      BY RuntimeAssumption DEF TypeOK
    <2> QED
      BY <1>2, <2>1 DEF BlockFinalized, Residual
  <1>4. finalized' \in Seq([number : Nat, required : Nat, total : Nat])
    BY <1>2 DEF BlockFinalized, TypeOK
  <1> DEFINE remaining == IF active.required > active.accumulated
                          THEN active.required - active.accumulated ELSE 0
             toBlock == IF Amount(t) < remaining THEN Amount(t) ELSE remaining
             buckets == Attributed(t, toBlock, Amount(t) - toBlock)
  <1>5. toBlock \in Nat /\ Amount(t) - toBlock \in Nat
    <2>1. active.required \in Nat /\ active.accumulated \in Nat
      BY DEF TypeOK
    <2>2. remaining \in Nat
      BY <2>1
    <2> QED
      BY <1>2, <2>2
  <1>6. DOMAIN buckets \subseteq Nat /\ \A b \in DOMAIN buckets : buckets[b] \in Work
    <2> HIDE DEF toBlock
    <2> QED BY <1>1, <1>5, AttributedType
  <1>7. /\ contributions' = [b \in DOMAIN buckets \ {active.number} |-> buckets[b]]
        /\ settle' = [settle EXCEPT ![t] =
                        [block |-> active.number,
                         shares |-> IF active.number \in DOMAIN buckets
                                    THEN buckets[active.number] ELSE NoWork]]
    BY DEF BlockFinalized
  <1> HIDE DEF buckets
  <1>8. DOMAIN contributions' \subseteq Nat /\ \A b \in DOMAIN contributions' : contributions'[b] \in Work
    BY <1>6, <1>7
  <1>9. settle' \in [Threads -> [block : Nat, shares : Work]]
    BY <1>6, <1>7 DEF TypeOK, NoWork, Work
  <1>10. credit' \in [Sids -> [Seconds -> Nat]]
    BY <1>1, CreditedType DEF BlockFinalized
  <1>11. pc' \in [Threads -> {"idle"} \cup InFlight \cup Ticking]
    BY DEF BlockFinalized, Goto, TypeOK, Ticking
  <1> QED
    BY <1>3, <1>4, <1>8, <1>9, <1>10, <1>11 DEF BlockFinalized, TypeOK, bounds, history

\* Every step keeps the types.
LEMMA TypeStep ==
  ASSUME TypeOK, ControlOK, [Next]_vars
  PROVE  TypeOK'
PROOF
  <1> USE RuntimeAssumption DEF Registration, Absent, Registered, NoIntent, NoTick, NoSettle,
        NoWork, Work, IntentType, TickType, EventType, Times, Seconds, Sids, InFlight, Ticking
  <1>1. CASE Clock
    <2>1. now' \in Times
      BY <1>1 DEF Clock, TypeOK
    <2> QED
      BY <1>1, <2>1 DEF Clock, TypeOK, memory, locals,
         database, bounds, history
  <1>2. CASE Crash
    <2>1. operations' \in [Ops -> Registration]
      BY <1>2 DEF Crash, TypeOK
    <2>2. DOMAIN contributions' \subseteq Nat /\ \A b \in DOMAIN contributions' : contributions'[b] \in Work
      BY <1>2 DEF Crash, TypeOK
    <2>3. pc' \in [Threads -> {"idle"} \cup InFlight \cup Ticking]
      BY <1>2 DEF Crash, TypeOK
    <2>4. intent' \in [Threads -> IntentType]
      BY <1>2 DEF Crash, TypeOK
    <2>5. todo' \in [Threads -> SUBSET Ops]
      BY <1>2 DEF Crash, TypeOK
    <2>6. tick' \in [Threads -> TickType]
      BY <1>2 DEF Crash, TypeOK
    <2>7. settle' \in [Threads -> [block : Nat, shares : Work]]
      BY <1>2 DEF Crash, TypeOK
    <2>8. restarts' \in 0..MaxRestarts
      BY <1>2 DEF Crash, TypeOK
    <2> QED
      BY <1>2, <2>1, <2>2, <2>3, <2>4, <2>5, <2>6, <2>7, <2>8 DEF Crash, Goto, TypeOK, memory, locals,
         database, bounds, history
  <1>3. CASE Recover
    <2>1. operations' \in [Ops -> Registration]
      <3>1. \A i \in DOMAIN events : events[i] \in EventType
        <4>1. events \in Seq(EventType)
          BY DEF TypeOK
        <4> HIDE DEF EventType
        <4> QED
          BY <4>1
      <3>2. \A op \in Ops : Replayed(op) \in Registration
        <4> SUFFICES ASSUME NEW op \in Ops, NEW i \in DOMAIN events, Revives(i, op),
                            i = CHOOSE j \in DOMAIN events : Revives(j, op)
                     PROVE  [sid |-> events[i].sid, player |-> events[i].player,
                             rate |-> events[i].rate, last |-> events[i].at] \in Registration
          BY DEF Replayed
        <4> QED
          BY <3>1
      <3> QED
        BY <1>3, <3>2 DEF Recover
    <2> QED
      BY <1>3, <2>1 DEF Recover, Replayed, Revives, OfType, TypeOK, memory, locals,
         database, bounds, history
  <1>4. ASSUME NEW t \in Threads, NEW op \in Ops, NEW p \in Players, NEW r \in Rates, StartIntent(t, op, p, r)
       PROVE  TypeOK'
    <2>1. started' \in 0..MaxStarts
      BY <1>4 DEF StartIntent, TypeOK
    <2>2. intent' \in [Threads -> IntentType]
      BY <1>4 DEF StartIntent, TypeOK
    <2>3. pc' \in [Threads -> {"idle"} \cup InFlight \cup Ticking]
      BY <1>4 DEF StartIntent, Goto, TypeOK
    <2>4. raced' \subseteq Ops
      BY <1>4 DEF StartIntent, Race, TypeOK
    <2> QED
      BY <1>4, <2>1, <2>2, <2>3, <2>4 DEF StartIntent, Race, Goto, TypeOK, memory, locals,
         database, bounds, history
  <1>5. ASSUME NEW t \in Threads, NEW op \in Ops, NEW p \in Players, StopIntent(t, op, p)
       PROVE  TypeOK'
    <2>1. stopped' \in 0..MaxStops
      BY <1>5 DEF StopIntent, TypeOK
    <2>2. intent' \in [Threads -> IntentType]
      BY <1>5 DEF StopIntent, TypeOK
    <2>3. pc' \in [Threads -> {"idle"} \cup InFlight \cup Ticking]
      BY <1>5 DEF StopIntent, Goto, TypeOK
    <2>4. raced' \subseteq Ops
      BY <1>5 DEF StopIntent, Race, TypeOK
    <2> QED
      BY <1>5, <2>1, <2>2, <2>3, <2>4 DEF StopIntent, Race, Goto, TypeOK, memory, locals,
         database, bounds, history
  <1>6. ASSUME NEW t \in Threads, AdvanceBegin(t)
       PROVE  TypeOK'
    <2>1. todo' \in [Threads -> SUBSET Ops]
      BY <1>6 DEF AdvanceBegin, LockFree, TypeOK
    <2>2. pc' \in [Threads -> {"idle"} \cup InFlight \cup Ticking]
      BY <1>6 DEF AdvanceBegin, LockFree, Goto, TypeOK
    <2> QED
      BY <1>6, <2>1, <2>2 DEF AdvanceBegin, LockFree, Goto, TypeOK, memory, locals,
         database, bounds, history
  <1>7. ASSUME NEW t \in Threads, StartPersist(t)
       PROVE  TypeOK'
    <2>1. events' \in Seq(EventType)
      <3>1. intent[t] \in IntentType /\ events \in Seq(EventType)
        BY DEF TypeOK
      <3>2. intent[t].op \in Ops /\ intent[t].player \in Players
        BY <1>7 DEF StartPersist, ControlOK, IntentOK
      <3> QED
        BY <1>7, <3>1, <3>2 DEF StartPersist
    <2>2. pc' \in [Threads -> {"idle"} \cup InFlight \cup Ticking]
      BY <1>7 DEF StartPersist, Goto, TypeOK
    <2> QED
      BY <1>7, <2>1, <2>2 DEF StartPersist, Goto, TypeOK, memory, locals,
         database, bounds, history
  <1>8. ASSUME NEW t \in Threads, StartRegister(t)
       PROVE  TypeOK'
    <2>1. operations' \in [Ops -> Registration]
      BY <1>8 DEF StartRegister, Finish, Goto, ControlOK, IntentOK, Starting, TypeOK
    <2>2. pc' \in [Threads -> {"idle"} \cup InFlight \cup Ticking]
      BY <1>8 DEF StartRegister, Goto, Finish, TypeOK
    <2>3. intent' \in [Threads -> IntentType]
      BY <1>8 DEF StartRegister, Finish, Goto, TypeOK
    <2>4. todo' \in [Threads -> SUBSET Ops]
      BY <1>8 DEF StartRegister, Finish, Goto, TypeOK
    <2>5. tick' \in [Threads -> TickType]
      BY <1>8 DEF StartRegister, Finish, Goto, TypeOK
    <2>6. settle' \in [Threads -> [block : Nat, shares : Work]]
      BY <1>8 DEF StartRegister, Finish, Goto, TypeOK
    <2> QED
      BY <1>8, <2>1, <2>2, <2>3, <2>4, <2>5, <2>6 DEF StartRegister, Goto, Finish, TypeOK, memory, locals,
         database, bounds, history
  <1>9. ASSUME NEW t \in Threads, StopPersist(t)
       PROVE  TypeOK'
    <2>1. events' \in Seq(EventType)
      <3>1. intent[t] \in IntentType /\ events \in Seq(EventType)
        BY DEF TypeOK
      <3>2. intent[t].op \in Ops /\ intent[t].player \in Players
        BY <1>9 DEF StopPersist, ControlOK, IntentOK
      <3> QED
        BY <1>9, <3>1, <3>2 DEF StopPersist
    <2>2. pc' \in [Threads -> {"idle"} \cup InFlight \cup Ticking]
      BY <1>9 DEF StopPersist, Goto, TypeOK
    <2> QED
      BY <1>9, <2>1, <2>2 DEF StopPersist, Goto, TypeOK, memory, locals,
         database, bounds, history
  <1>10. ASSUME NEW t \in Threads, StopDelete(t)
       PROVE  TypeOK'
    <2>1. operations' \in [Ops -> Registration]
      BY <1>10 DEF StopDelete, Finish, Goto, ControlOK, IntentOK, Starting, TypeOK
    <2>2. pc' \in [Threads -> {"idle"} \cup InFlight \cup Ticking]
      BY <1>10 DEF StopDelete, Goto, Finish, TypeOK
    <2>3. intent' \in [Threads -> IntentType]
      BY <1>10 DEF StopDelete, Finish, Goto, TypeOK
    <2>4. todo' \in [Threads -> SUBSET Ops]
      BY <1>10 DEF StopDelete, Finish, Goto, TypeOK
    <2>5. tick' \in [Threads -> TickType]
      BY <1>10 DEF StopDelete, Finish, Goto, TypeOK
    <2>6. settle' \in [Threads -> [block : Nat, shares : Work]]
      BY <1>10 DEF StopDelete, Finish, Goto, TypeOK
    <2> QED
      BY <1>10, <2>1, <2>2, <2>3, <2>4, <2>5, <2>6 DEF StopDelete, Goto, Finish, TypeOK, memory, locals,
         database, bounds, history
  <1>11. ASSUME NEW t \in Threads, AdvanceEnd(t)
       PROVE  TypeOK'
    <2>1. pc' \in [Threads -> {"idle"} \cup InFlight \cup Ticking]
      BY <1>11 DEF AdvanceEnd, Goto, Finish, LeaveAdvance, TypeOK
    <2>2. intent' \in [Threads -> IntentType]
      BY <1>11 DEF AdvanceEnd, Finish, Goto, LeaveAdvance, TypeOK
    <2>3. todo' \in [Threads -> SUBSET Ops]
      BY <1>11 DEF AdvanceEnd, Finish, Goto, LeaveAdvance, TypeOK
    <2>4. tick' \in [Threads -> TickType]
      BY <1>11 DEF AdvanceEnd, Finish, Goto, LeaveAdvance, TypeOK
    <2>5. settle' \in [Threads -> [block : Nat, shares : Work]]
      BY <1>11 DEF AdvanceEnd, Finish, Goto, LeaveAdvance, TypeOK
    <2> QED
      BY <1>11, <2>1, <2>2, <2>3, <2>4, <2>5 DEF AdvanceEnd, Goto, Finish, LeaveAdvance, TypeOK, memory, locals,
         database, bounds, history
  <1>12. ASSUME NEW t \in Threads, NEW op \in Ops, TickUnregistered(t, op)
       PROVE  TypeOK'
    <2>1. pc' \in [Threads -> {"idle"} \cup InFlight \cup Ticking]
      BY <1>12 DEF TickUnregistered, Goto, Finish, LeaveAdvance, TypeOK
    <2>2. intent' \in [Threads -> IntentType]
      BY <1>12 DEF TickUnregistered, Finish, Goto, LeaveAdvance, TypeOK
    <2>3. todo' \in [Threads -> SUBSET Ops]
      BY <1>12 DEF TickUnregistered, Finish, Goto, LeaveAdvance, TypeOK
    <2>4. tick' \in [Threads -> TickType]
      BY <1>12 DEF TickUnregistered, Finish, Goto, LeaveAdvance, TypeOK
    <2>5. settle' \in [Threads -> [block : Nat, shares : Work]]
      BY <1>12 DEF TickUnregistered, Finish, Goto, LeaveAdvance, TypeOK
    <2> QED
      BY <1>12, <2>1, <2>2, <2>3, <2>4, <2>5 DEF TickUnregistered, Goto, Finish, LeaveAdvance, TypeOK, memory, locals,
         database, bounds, history
  <1>13. ASSUME NEW t \in Threads, NEW op \in Ops, TickUpToDate(t, op)
       PROVE  TypeOK'
    <2>1. todo' \in [Threads -> SUBSET Ops]
      BY <1>13 DEF TickUpToDate, TypeOK
    <2> QED
      BY <1>13, <2>1 DEF TickUpToDate, TypeOK, memory, locals,
         database, bounds, history
  <1>14. ASSUME NEW t \in Threads, NEW op \in Ops, TickRead(t, op)
       PROVE  TypeOK'
    <2>1. todo' \in [Threads -> SUBSET Ops]
      BY <1>14 DEF TickRead, TypeOK
    <2>2. tick' \in [Threads -> TickType]
      BY <1>14 DEF TickRead, TypeOK
    <2>3. pc' \in [Threads -> {"idle"} \cup InFlight \cup Ticking]
      BY <1>14 DEF TickRead, Goto, TypeOK
    <2> QED
      BY <1>14, <2>1, <2>2, <2>3 DEF TickRead, Goto, TypeOK, memory, locals,
         database, bounds, history
  <1>15. ASSUME NEW t \in Threads, TickClaim(t)
       PROVE  TypeOK'
    <2>1. operations' \in [Ops -> Registration]
      <3>1. tick[t] \in TickType /\ operations \in [Ops -> Registration]
        BY DEF TypeOK
      <3> QED
        BY <1>15, <3>1 DEF TickClaim
    <2>2. pc' \in [Threads -> {"idle"} \cup InFlight \cup Ticking]
      BY <1>15 DEF TickClaim, Goto, TypeOK
    <2> QED
      BY <1>15, <2>1, <2>2 DEF TickClaim, Goto, TypeOK, memory, locals,
         database, bounds, history
  <1>16. ASSUME NEW t \in Threads, WorkAdded(t)
       PROVE  TypeOK'
    BY <1>16, WorkAddedType DEF ControlOK
  <1>17. ASSUME NEW t \in Threads, NEW w \in RequiredWorks, BlockFinalized(t, w)
       PROVE  TypeOK'
    BY <1>17, BlockFinalizedType DEF ControlOK
  <1>18. ASSUME NEW t \in Threads, PostPool(t)
       PROVE  TypeOK'
    <2>1. ledger' \in Seq([kind : {"pool", "shares"}, block : Nat, shares : Work])
      <3>1. settle[t].block \in Nat /\ settle[t].shares \in Work
        BY DEF TypeOK
      <3>2. ledger \in Seq([kind : {"pool", "shares"}, block : Nat, shares : Work])
        BY DEF TypeOK
      <3> QED
        BY <1>18, <3>1, <3>2 DEF PostPool, Post
    <2>2. pc' \in [Threads -> {"idle"} \cup InFlight \cup Ticking]
      BY <1>18 DEF PostPool, Goto, TypeOK
    <2> QED
      BY <1>18, <2>1, <2>2 DEF PostPool, Post, Goto, TypeOK, memory, locals,
         database, bounds, history
  <1>19. ASSUME NEW t \in Threads, PostShares(t)
       PROVE  TypeOK'
    <2>1. ledger' \in Seq([kind : {"pool", "shares"}, block : Nat, shares : Work])
      <3>1. settle[t].block \in Nat /\ settle[t].shares \in Work
        BY DEF TypeOK
      <3>2. ledger \in Seq([kind : {"pool", "shares"}, block : Nat, shares : Work])
        BY DEF TypeOK
      <3> QED
        BY <1>19, <3>1, <3>2 DEF PostShares, Post
    <2>2. pc' \in [Threads -> {"idle"} \cup InFlight \cup Ticking]
      BY <1>19 DEF PostShares, Goto, TypeOK
    <2> QED
      BY <1>19, <2>1, <2>2 DEF PostShares, Post, Goto, TypeOK, memory, locals,
         database, bounds, history
  <1>20. ASSUME NEW t \in Threads, Announce(t)
       PROVE  TypeOK'
    <2>1. announced' \subseteq Nat
      <3>1. settle[t].block \in Nat /\ announced \subseteq Nat
        BY DEF TypeOK
      <3> QED
        BY <1>20, <3>1 DEF Announce
    <2>2. pc' \in [Threads -> {"idle"} \cup InFlight \cup Ticking]
      BY <1>20 DEF Announce, Goto, TypeOK
    <2> QED
      BY <1>20, <2>1, <2>2 DEF Announce, Goto, TypeOK, memory, locals,
         database, bounds, history
  <1>21. ASSUME NEW t \in Threads, PublishProgress(t)
       PROVE  TypeOK'
    <2>1. progress' \in [number : Nat, accumulated : Nat]
      BY <1>21 DEF PublishProgress, TypeOK
    <2>2. tick' \in [Threads -> TickType]
      BY <1>21 DEF PublishProgress, TypeOK
    <2>3. settle' \in [Threads -> [block : Nat, shares : Work]]
      BY <1>21 DEF PublishProgress, TypeOK
    <2>4. pc' \in [Threads -> {"idle"} \cup InFlight \cup Ticking]
      BY <1>21 DEF PublishProgress, Goto, TypeOK
    <2> QED
      BY <1>21, <2>1, <2>2, <2>3, <2>4 DEF PublishProgress, Goto, TypeOK, memory, locals,
         database, bounds, history
  <1>22. ASSUME NEW t \in Threads, PersistFails(t)
       PROVE  TypeOK'
    <2>1. failures' \in 0..MaxFailures
      BY <1>22 DEF PersistFails, Finish, Goto, TypeOK
    <2>2. pc' \in [Threads -> {"idle"} \cup InFlight \cup Ticking]
      BY <1>22 DEF PersistFails, Goto, Finish, TypeOK
    <2>3. intent' \in [Threads -> IntentType]
      BY <1>22 DEF PersistFails, Finish, Goto, TypeOK
    <2>4. todo' \in [Threads -> SUBSET Ops]
      BY <1>22 DEF PersistFails, Finish, Goto, TypeOK
    <2>5. tick' \in [Threads -> TickType]
      BY <1>22 DEF PersistFails, Finish, Goto, TypeOK
    <2>6. settle' \in [Threads -> [block : Nat, shares : Work]]
      BY <1>22 DEF PersistFails, Finish, Goto, TypeOK
    <2> QED
      BY <1>22, <2>1, <2>2, <2>3, <2>4, <2>5, <2>6 DEF PersistFails, Goto, Finish, TypeOK, memory, locals,
         database, bounds, history
  <1>23. ASSUME NEW t \in Threads, TickFails(t)
       PROVE  TypeOK'
    <2>1. failures' \in 0..MaxFailures
      <3>1. failures \in 0..MaxFailures
        BY DEF TypeOK
      <3> QED
        BY <1>23, <3>1 DEF TickFails, CallsDatabase
    <2>2. pc' \in [Threads -> {"idle"} \cup InFlight \cup Ticking]
      BY <1>23 DEF TickFails, CallsDatabase, Goto, Finish, LeaveAdvance, TypeOK
    <2>3. intent' \in [Threads -> IntentType]
      BY <1>23 DEF TickFails, CallsDatabase, Finish, Goto, LeaveAdvance, TypeOK
    <2>4. todo' \in [Threads -> SUBSET Ops]
      BY <1>23 DEF TickFails, CallsDatabase, Finish, Goto, LeaveAdvance, TypeOK
    <2>5. tick' \in [Threads -> TickType]
      BY <1>23 DEF TickFails, CallsDatabase, Finish, Goto, LeaveAdvance, TypeOK
    <2>6. settle' \in [Threads -> [block : Nat, shares : Work]]
      BY <1>23 DEF TickFails, CallsDatabase, Finish, Goto, LeaveAdvance, TypeOK
    <2> QED
      BY <1>23, <2>1, <2>2, <2>3, <2>4, <2>5, <2>6 DEF TickFails, CallsDatabase, Goto, Finish, LeaveAdvance, TypeOK, memory, locals,
         database, bounds, history
  <1>24. CASE UNCHANGED vars
    BY <1>24 DEF TypeOK, vars, memory, locals, database, bounds, history
  <1> QED
    BY <1>1, <1>2, <1>3, <1>4, <1>5, <1>6, <1>7, <1>8, <1>9, <1>10, <1>11, <1>12,
       <1>13, <1>14, <1>15, <1>16, <1>17, <1>18, <1>19, <1>20, <1>21, <1>22, <1>23, <1>24 DEF Next, Request, IntentStep, TickStep, Fault

\* Every step keeps the lock with the advancing thread.
LEMMA LockStep ==
  ASSUME TypeOK, LockOK, [Next]_vars
  PROVE  LockOK'
PROOF
  <1> USE DEF LockOK, InFlight, Ticking, memory, locals, database, bounds, history
  <1>1. pc \in [Threads -> {"idle"} \cup InFlight \cup Ticking]
    BY DEF TypeOK
  <1>2. None \notin Threads /\ runtimeLock \in Threads \cup {None}
    BY RuntimeAssumption DEF TypeOK
  <1>3. CASE Clock
    BY <1>3, <1>1, <1>2 DEF Clock
  <1>4. CASE Crash
    BY <1>4, <1>1, <1>2 DEF Crash
  <1>5. CASE Recover
    BY <1>5, <1>1, <1>2 DEF Recover
  <1>6. ASSUME NEW t \in Threads, NEW op \in Ops, NEW p \in Players, NEW r \in Rates, StartIntent(t, op, p, r)
       PROVE  LockOK'
    BY <1>6, <1>1, <1>2 DEF StartIntent, Goto
  <1>7. ASSUME NEW t \in Threads, NEW op \in Ops, NEW p \in Players, StopIntent(t, op, p)
       PROVE  LockOK'
    BY <1>7, <1>1, <1>2 DEF StopIntent, Goto
  <1>8. ASSUME NEW t \in Threads, AdvanceBegin(t)
       PROVE  LockOK'
    BY <1>8, <1>1, <1>2 DEF AdvanceBegin, LockFree, Goto
  <1>9. ASSUME NEW t \in Threads, StartPersist(t)
       PROVE  LockOK'
    BY <1>9, <1>1, <1>2 DEF StartPersist, Goto
  <1>10. ASSUME NEW t \in Threads, StartRegister(t)
       PROVE  LockOK'
    BY <1>10, <1>1, <1>2 DEF StartRegister, Goto, Finish
  <1>11. ASSUME NEW t \in Threads, StopPersist(t)
       PROVE  LockOK'
    BY <1>11, <1>1, <1>2 DEF StopPersist, Goto
  <1>12. ASSUME NEW t \in Threads, StopDelete(t)
       PROVE  LockOK'
    BY <1>12, <1>1, <1>2 DEF StopDelete, Goto, Finish
  <1>13. ASSUME NEW t \in Threads, AdvanceEnd(t)
       PROVE  LockOK'
    BY <1>13, <1>1, <1>2 DEF AdvanceEnd, Goto, Finish, LeaveAdvance
  <1>14. ASSUME NEW t \in Threads, NEW op \in Ops, TickUnregistered(t, op)
       PROVE  LockOK'
    BY <1>14, <1>1, <1>2 DEF TickUnregistered, Goto, Finish, LeaveAdvance
  <1>15. ASSUME NEW t \in Threads, NEW op \in Ops, TickUpToDate(t, op)
       PROVE  LockOK'
    BY <1>15, <1>1, <1>2 DEF TickUpToDate
  <1>16. ASSUME NEW t \in Threads, NEW op \in Ops, TickRead(t, op)
       PROVE  LockOK'
    BY <1>16, <1>1, <1>2 DEF TickRead, Goto
  <1>17. ASSUME NEW t \in Threads, TickClaim(t)
       PROVE  LockOK'
    BY <1>17, <1>1, <1>2 DEF TickClaim, Goto
  <1>18. ASSUME NEW t \in Threads, WorkAdded(t)
       PROVE  LockOK'
    BY <1>18, <1>1, <1>2 DEF WorkAdded, Goto
  <1>19. ASSUME NEW t \in Threads, NEW w \in RequiredWorks, BlockFinalized(t, w)
       PROVE  LockOK'
    BY <1>19, <1>1, <1>2 DEF BlockFinalized, Goto
  <1>20. ASSUME NEW t \in Threads, PostPool(t)
       PROVE  LockOK'
    BY <1>20, <1>1, <1>2 DEF PostPool, Goto
  <1>21. ASSUME NEW t \in Threads, PostShares(t)
       PROVE  LockOK'
    BY <1>21, <1>1, <1>2 DEF PostShares, Goto
  <1>22. ASSUME NEW t \in Threads, Announce(t)
       PROVE  LockOK'
    BY <1>22, <1>1, <1>2 DEF Announce, Goto
  <1>23. ASSUME NEW t \in Threads, PublishProgress(t)
       PROVE  LockOK'
    BY <1>23, <1>1, <1>2 DEF PublishProgress, Goto
  <1>24. ASSUME NEW t \in Threads, PersistFails(t)
       PROVE  LockOK'
    BY <1>24, <1>1, <1>2 DEF PersistFails, Goto, Finish
  <1>25. ASSUME NEW t \in Threads, TickFails(t)
       PROVE  LockOK'
    BY <1>25, <1>1, <1>2 DEF TickFails, CallsDatabase, Goto, Finish, LeaveAdvance
  <1>26. CASE UNCHANGED vars
    BY <1>26 DEF vars
  <1> QED
    BY <1>3, <1>4, <1>5, <1>6, <1>7, <1>8, <1>9, <1>10, <1>11, <1>12, <1>13, <1>14,
       <1>15, <1>16, <1>17, <1>18, <1>19, <1>20, <1>21, <1>22, <1>23, <1>24, <1>25, <1>26 DEF Next, Request, IntentStep, TickStep, Fault

\* Every step keeps the intents in flight well formed.
LEMMA IntentOKStep ==
  ASSUME TypeOK, IntentOK, [Next]_vars
  PROVE  IntentOK'
PROOF
  <1> USE DEF IntentOK, InFlight, Ticking, Starting, memory, locals, database, bounds, history
  <1>1. pc \in [Threads -> {"idle"} \cup InFlight \cup Ticking]
    BY DEF TypeOK
  <1>2. intent \in [Threads -> IntentType]
    BY DEF TypeOK
  <1>3. started \in Nat
    BY RuntimeAssumption DEF TypeOK
  <1>4. CASE Clock
    BY <1>4, <1>1, <1>2, <1>3 DEF Clock
  <1>5. CASE Crash
    BY <1>5, <1>1, <1>2, <1>3 DEF Crash
  <1>6. CASE Recover
    BY <1>6, <1>1, <1>2, <1>3 DEF Recover
  <1>7. ASSUME NEW t \in Threads, NEW op \in Ops, NEW p \in Players, NEW r \in Rates, StartIntent(t, op, p, r)
       PROVE  IntentOK'
    BY <1>7, <1>1, <1>2, <1>3 DEF StartIntent, Goto
  <1>8. ASSUME NEW t \in Threads, NEW op \in Ops, NEW p \in Players, StopIntent(t, op, p)
       PROVE  IntentOK'
    BY <1>8, <1>1, <1>2, <1>3 DEF StopIntent, Goto
  <1>9. ASSUME NEW t \in Threads, AdvanceBegin(t)
       PROVE  IntentOK'
    BY <1>9, <1>1, <1>2, <1>3 DEF AdvanceBegin, LockFree, Goto
  <1>10. ASSUME NEW t \in Threads, StartPersist(t)
       PROVE  IntentOK'
    BY <1>10, <1>1, <1>2, <1>3 DEF StartPersist, Goto
  <1>11. ASSUME NEW t \in Threads, StartRegister(t)
       PROVE  IntentOK'
    BY <1>11, <1>1, <1>2, <1>3 DEF StartRegister, Goto, Finish
  <1>12. ASSUME NEW t \in Threads, StopPersist(t)
       PROVE  IntentOK'
    BY <1>12, <1>1, <1>2, <1>3 DEF StopPersist, Goto
  <1>13. ASSUME NEW t \in Threads, StopDelete(t)
       PROVE  IntentOK'
    BY <1>13, <1>1, <1>2, <1>3 DEF StopDelete, Goto, Finish
  <1>14. ASSUME NEW t \in Threads, AdvanceEnd(t)
       PROVE  IntentOK'
    BY <1>14, <1>1, <1>2, <1>3 DEF AdvanceEnd, Goto, Finish, LeaveAdvance
  <1>15. ASSUME NEW t \in Threads, NEW op \in Ops, TickUnregistered(t, op)
       PROVE  IntentOK'
    BY <1>15, <1>1, <1>2, <1>3 DEF TickUnregistered, Goto, Finish, LeaveAdvance
  <1>16. ASSUME NEW t \in Threads, NEW op \in Ops, TickUpToDate(t, op)
       PROVE  IntentOK'
    BY <1>16, <1>1, <1>2, <1>3 DEF TickUpToDate
  <1>17. ASSUME NEW t \in Threads, NEW op \in Ops, TickRead(t, op)
       PROVE  IntentOK'
    BY <1>17, <1>1, <1>2, <1>3 DEF TickRead, Goto
  <1>18. ASSUME NEW t \in Threads, TickClaim(t)
       PROVE  IntentOK'
    BY <1>18, <1>1, <1>2, <1>3 DEF TickClaim, Goto
  <1>19. ASSUME NEW t \in Threads, WorkAdded(t)
       PROVE  IntentOK'
    BY <1>19, <1>1, <1>2, <1>3 DEF WorkAdded, Goto
  <1>20. ASSUME NEW t \in Threads, NEW w \in RequiredWorks, BlockFinalized(t, w)
       PROVE  IntentOK'
    BY <1>20, <1>1, <1>2, <1>3 DEF BlockFinalized, Goto
  <1>21. ASSUME NEW t \in Threads, PostPool(t)
       PROVE  IntentOK'
    BY <1>21, <1>1, <1>2, <1>3 DEF PostPool, Goto
  <1>22. ASSUME NEW t \in Threads, PostShares(t)
       PROVE  IntentOK'
    BY <1>22, <1>1, <1>2, <1>3 DEF PostShares, Goto
  <1>23. ASSUME NEW t \in Threads, Announce(t)
       PROVE  IntentOK'
    BY <1>23, <1>1, <1>2, <1>3 DEF Announce, Goto
  <1>24. ASSUME NEW t \in Threads, PublishProgress(t)
       PROVE  IntentOK'
    BY <1>24, <1>1, <1>2, <1>3 DEF PublishProgress, Goto
  <1>25. ASSUME NEW t \in Threads, PersistFails(t)
       PROVE  IntentOK'
    BY <1>25, <1>1, <1>2, <1>3 DEF PersistFails, Goto, Finish
  <1>26. ASSUME NEW t \in Threads, TickFails(t)
       PROVE  IntentOK'
    BY <1>26, <1>1, <1>2, <1>3 DEF TickFails, CallsDatabase, Goto, Finish, LeaveAdvance
  <1>27. CASE UNCHANGED vars
    BY <1>27 DEF vars
  <1> QED
    BY <1>4, <1>5, <1>6, <1>7, <1>8, <1>9, <1>10, <1>11, <1>12, <1>13, <1>14, <1>15,
       <1>16, <1>17, <1>18, <1>19, <1>20, <1>21, <1>22, <1>23, <1>24, <1>25, <1>26, <1>27 DEF Next, Request, IntentStep, TickStep, Fault

\* Every step keeps the ticks in progress well formed.
LEMMA TickOKStep ==
  ASSUME TypeOK, TickOK, RunOK, [Next]_vars
  PROVE  TickOK'
PROOF
  <1> USE DEF TickOK, InTick, Crediting, Settling, Ticking, InFlight, memory, locals, database, bounds, history
  <1>1. pc \in [Threads -> {"idle"} \cup InFlight \cup Ticking]
    BY DEF TypeOK
  <1>2. tick \in [Threads -> TickType]
    BY DEF TypeOK
  <1>3. started \in Nat
    BY RuntimeAssumption DEF TypeOK
  <1>4. CASE Clock
    BY <1>4, <1>1, <1>2, <1>3 DEF Clock
  <1>5. CASE Crash
    BY <1>5, <1>1, <1>2, <1>3 DEF Crash
  <1>6. CASE Recover
    BY <1>6, <1>1, <1>2, <1>3 DEF Recover
  <1>7. ASSUME NEW t \in Threads, NEW op \in Ops, NEW p \in Players, NEW r \in Rates, StartIntent(t, op, p, r)
       PROVE  TickOK'
    BY <1>7, <1>1, <1>2, <1>3 DEF StartIntent, Goto
  <1>8. ASSUME NEW t \in Threads, NEW op \in Ops, NEW p \in Players, StopIntent(t, op, p)
       PROVE  TickOK'
    BY <1>8, <1>1, <1>2, <1>3 DEF StopIntent, Goto
  <1>9. ASSUME NEW t \in Threads, AdvanceBegin(t)
       PROVE  TickOK'
    BY <1>9, <1>1, <1>2, <1>3 DEF AdvanceBegin, LockFree, Goto
  <1>10. ASSUME NEW t \in Threads, StartPersist(t)
       PROVE  TickOK'
    BY <1>10, <1>1, <1>2, <1>3 DEF StartPersist, Goto
  <1>11. ASSUME NEW t \in Threads, StartRegister(t)
       PROVE  TickOK'
    BY <1>11, <1>1, <1>2, <1>3 DEF StartRegister, Goto, Finish
  <1>12. ASSUME NEW t \in Threads, StopPersist(t)
       PROVE  TickOK'
    BY <1>12, <1>1, <1>2, <1>3 DEF StopPersist, Goto
  <1>13. ASSUME NEW t \in Threads, StopDelete(t)
       PROVE  TickOK'
    BY <1>13, <1>1, <1>2, <1>3 DEF StopDelete, Goto, Finish
  <1>14. ASSUME NEW t \in Threads, AdvanceEnd(t)
       PROVE  TickOK'
    BY <1>14, <1>1, <1>2, <1>3 DEF AdvanceEnd, Goto, Finish, LeaveAdvance
  <1>15. ASSUME NEW t \in Threads, NEW op \in Ops, TickUnregistered(t, op)
       PROVE  TickOK'
    BY <1>15, <1>1, <1>2, <1>3 DEF TickUnregistered, Goto, Finish, LeaveAdvance
  <1>16. ASSUME NEW t \in Threads, NEW op \in Ops, TickUpToDate(t, op)
       PROVE  TickOK'
    BY <1>16, <1>1, <1>2, <1>3 DEF TickUpToDate
  <1>17. ASSUME NEW t \in Threads, NEW op \in Ops, TickRead(t, op)
       PROVE  TickOK'
    <2>1. operations[op] \in Registration /\ now \in Times
      BY DEF TypeOK
    <2>2. operations[op].sid \in 1..started /\ operations[op].player \in Players
      BY <1>17 DEF TickRead, RunOK
    <2>3. operations[op].last <= now
      BY <1>17, <2>1, RuntimeAssumption DEF TickRead, Registration, Times
    <2> QED
      BY <1>17, <1>1, <1>2, <1>3, <2>2, <2>3 DEF TickRead, Goto
  <1>18. ASSUME NEW t \in Threads, TickClaim(t)
       PROVE  TickOK'
    BY <1>18, <1>1, <1>2, <1>3 DEF TickClaim, Goto
  <1>19. ASSUME NEW t \in Threads, WorkAdded(t)
       PROVE  TickOK'
    BY <1>19, <1>1, <1>2, <1>3 DEF WorkAdded, Goto
  <1>20. ASSUME NEW t \in Threads, NEW w \in RequiredWorks, BlockFinalized(t, w)
       PROVE  TickOK'
    BY <1>20, <1>1, <1>2, <1>3 DEF BlockFinalized, Goto
  <1>21. ASSUME NEW t \in Threads, PostPool(t)
       PROVE  TickOK'
    BY <1>21, <1>1, <1>2, <1>3 DEF PostPool, Goto
  <1>22. ASSUME NEW t \in Threads, PostShares(t)
       PROVE  TickOK'
    BY <1>22, <1>1, <1>2, <1>3 DEF PostShares, Goto
  <1>23. ASSUME NEW t \in Threads, Announce(t)
       PROVE  TickOK'
    BY <1>23, <1>1, <1>2, <1>3 DEF Announce, Goto
  <1>24. ASSUME NEW t \in Threads, PublishProgress(t)
       PROVE  TickOK'
    BY <1>24, <1>1, <1>2, <1>3 DEF PublishProgress, Goto
  <1>25. ASSUME NEW t \in Threads, PersistFails(t)
       PROVE  TickOK'
    BY <1>25, <1>1, <1>2, <1>3 DEF PersistFails, Goto, Finish
  <1>26. ASSUME NEW t \in Threads, TickFails(t)
       PROVE  TickOK'
    BY <1>26, <1>1, <1>2, <1>3 DEF TickFails, CallsDatabase, Goto, Finish, LeaveAdvance
  <1>27. CASE UNCHANGED vars
    BY <1>27 DEF vars
  <1> QED
    BY <1>4, <1>5, <1>6, <1>7, <1>8, <1>9, <1>10, <1>11, <1>12, <1>13, <1>14, <1>15,
       <1>16, <1>17, <1>18, <1>19, <1>20, <1>21, <1>22, <1>23, <1>24, <1>25, <1>26, <1>27 DEF Next, Request, IntentStep, TickStep, Fault

\* Every step keeps the runs numbered by the start intents.
LEMMA RunStep ==
  ASSUME TypeOK, IntentOK, TickOK, RunOK, [Next]_vars
  PROVE  RunOK'
PROOF
  <1> USE DEF RunOK, Registered, Absent, memory, locals, database, bounds, history
  <1>1. operations \in [Ops -> Registration]
    BY DEF TypeOK
  <1>2. events \in Seq(EventType)
    BY DEF TypeOK
  <1>3. started \in Nat
    BY RuntimeAssumption DEF TypeOK
  <1>4. CASE Clock
    BY <1>4, <1>1, <1>2, <1>3 DEF Clock
  <1>5. CASE Crash
    BY <1>5, <1>1, <1>2, <1>3 DEF Crash
  <1>6. CASE Recover
    <2>1. \A op \in Ops : operations'[op] = Replayed(op)
      BY <1>6 DEF Recover
    <2>2. \A i \in DOMAIN events : events[i] \in EventType
      BY <1>2
    <2>3. \A op \in Ops : Replayed(op) # Absent =>
            Replayed(op).sid \in 1..started /\ Replayed(op).player \in Players
      <3> SUFFICES ASSUME NEW op \in Ops, NEW i \in DOMAIN events, Revives(i, op),
                          i = CHOOSE j \in DOMAIN events : Revives(j, op)
                   PROVE  events[i].sid \in 1..started /\ events[i].player \in Players
        BY DEF Replayed
      <3>1. events[i].type = "start"
        BY DEF Revives, OfType
      <3> QED
        BY <2>2, <3>1 DEF EventType
    <2> QED
      BY <1>6, <2>1, <2>3 DEF Recover
  <1>7. ASSUME NEW t \in Threads, NEW op \in Ops, NEW p \in Players, NEW r \in Rates, StartIntent(t, op, p, r)
       PROVE  RunOK'
    BY <1>7, <1>1, <1>2, <1>3 DEF StartIntent, Goto
  <1>8. ASSUME NEW t \in Threads, NEW op \in Ops, NEW p \in Players, StopIntent(t, op, p)
       PROVE  RunOK'
    BY <1>8, <1>1, <1>2, <1>3 DEF StopIntent, Goto
  <1>9. ASSUME NEW t \in Threads, AdvanceBegin(t)
       PROVE  RunOK'
    BY <1>9, <1>1, <1>2, <1>3 DEF AdvanceBegin, LockFree, Goto
  <1>10. ASSUME NEW t \in Threads, StartPersist(t)
       PROVE  RunOK'
    BY <1>10, <1>1, <1>2, <1>3 DEF StartPersist, Goto, IntentOK, Starting
  <1>11. ASSUME NEW t \in Threads, StartRegister(t)
       PROVE  RunOK'
    BY <1>11, <1>1, <1>2, <1>3 DEF StartRegister, Goto, Finish, IntentOK, Starting, InFlight
  <1>12. ASSUME NEW t \in Threads, StopPersist(t)
       PROVE  RunOK'
    BY <1>12, <1>1, <1>2, <1>3 DEF StopPersist, Goto
  <1>13. ASSUME NEW t \in Threads, StopDelete(t)
       PROVE  RunOK'
    BY <1>13, <1>1, <1>2, <1>3 DEF StopDelete, Goto, Finish
  <1>14. ASSUME NEW t \in Threads, AdvanceEnd(t)
       PROVE  RunOK'
    BY <1>14, <1>1, <1>2, <1>3 DEF AdvanceEnd, Goto, Finish, LeaveAdvance
  <1>15. ASSUME NEW t \in Threads, NEW op \in Ops, TickUnregistered(t, op)
       PROVE  RunOK'
    BY <1>15, <1>1, <1>2, <1>3 DEF TickUnregistered, Goto, Finish, LeaveAdvance
  <1>16. ASSUME NEW t \in Threads, NEW op \in Ops, TickUpToDate(t, op)
       PROVE  RunOK'
    BY <1>16, <1>1, <1>2, <1>3 DEF TickUpToDate
  <1>17. ASSUME NEW t \in Threads, NEW op \in Ops, TickRead(t, op)
       PROVE  RunOK'
    BY <1>17, <1>1, <1>2, <1>3 DEF TickRead, Goto
  <1>18. ASSUME NEW t \in Threads, TickClaim(t)
       PROVE  RunOK'
    <2>1. tick[t].sid \in 1..started /\ tick[t].op \in Ops
      BY <1>18 DEF TickClaim, TickOK, InTick, Crediting
    <2>2. \A op \in Ops : /\ operations'[op].sid = operations[op].sid
                          /\ operations'[op].player = operations[op].player
                          /\ operations'[op] = Absent <=> operations[op] = Absent
      BY <1>18, <1>1, <2>1 DEF TickClaim, Registration
    <2> QED
      BY <1>18, <2>2 DEF TickClaim
  <1>19. ASSUME NEW t \in Threads, WorkAdded(t)
       PROVE  RunOK'
    BY <1>19, <1>1, <1>2, <1>3 DEF WorkAdded, Goto
  <1>20. ASSUME NEW t \in Threads, NEW w \in RequiredWorks, BlockFinalized(t, w)
       PROVE  RunOK'
    BY <1>20, <1>1, <1>2, <1>3 DEF BlockFinalized, Goto
  <1>21. ASSUME NEW t \in Threads, PostPool(t)
       PROVE  RunOK'
    BY <1>21, <1>1, <1>2, <1>3 DEF PostPool, Goto
  <1>22. ASSUME NEW t \in Threads, PostShares(t)
       PROVE  RunOK'
    BY <1>22, <1>1, <1>2, <1>3 DEF PostShares, Goto
  <1>23. ASSUME NEW t \in Threads, Announce(t)
       PROVE  RunOK'
    BY <1>23, <1>1, <1>2, <1>3 DEF Announce, Goto
  <1>24. ASSUME NEW t \in Threads, PublishProgress(t)
       PROVE  RunOK'
    BY <1>24, <1>1, <1>2, <1>3 DEF PublishProgress, Goto
  <1>25. ASSUME NEW t \in Threads, PersistFails(t)
       PROVE  RunOK'
    BY <1>25, <1>1, <1>2, <1>3 DEF PersistFails, Goto, Finish
  <1>26. ASSUME NEW t \in Threads, TickFails(t)
       PROVE  RunOK'
    BY <1>26, <1>1, <1>2, <1>3 DEF TickFails, CallsDatabase, Goto, Finish, LeaveAdvance
  <1>27. CASE UNCHANGED vars
    BY <1>27 DEF vars
  <1> QED
    BY <1>4, <1>5, <1>6, <1>7, <1>8, <1>9, <1>10, <1>11, <1>12, <1>13, <1>14, <1>15,
       <1>16, <1>17, <1>18, <1>19, <1>20, <1>21, <1>22, <1>23, <1>24, <1>25, <1>26, <1>27 DEF Next, Request, IntentStep, TickStep, Fault

\* Every step leaves the process quiet until it has recovered.
LEMMA QuietStep ==
  ASSUME TypeOK, QuietOK, LockOK, [Next]_vars
  PROVE  QuietOK'
PROOF
  <1> USE DEF QuietOK, LockOK, InFlight, Ticking, memory, locals, database, bounds, history
  <1>1. pc \in [Threads -> {"idle"} \cup InFlight \cup Ticking]
    BY DEF TypeOK
  <1>2. CASE Clock
    BY <1>2, <1>1 DEF Clock
  <1>3. CASE Crash
    BY <1>3, <1>1 DEF Crash
  <1>4. CASE Recover
    BY <1>4, <1>1 DEF Recover
  <1>5. ASSUME NEW t \in Threads, NEW op \in Ops, NEW p \in Players, NEW r \in Rates, StartIntent(t, op, p, r)
       PROVE  QuietOK'
    BY <1>5, <1>1 DEF StartIntent, Goto
  <1>6. ASSUME NEW t \in Threads, NEW op \in Ops, NEW p \in Players, StopIntent(t, op, p)
       PROVE  QuietOK'
    BY <1>6, <1>1 DEF StopIntent, Goto
  <1>7. ASSUME NEW t \in Threads, AdvanceBegin(t)
       PROVE  QuietOK'
    BY <1>7, <1>1 DEF AdvanceBegin, LockFree, Goto
  <1>8. ASSUME NEW t \in Threads, StartPersist(t)
       PROVE  QuietOK'
    BY <1>8, <1>1 DEF StartPersist, Goto
  <1>9. ASSUME NEW t \in Threads, StartRegister(t)
       PROVE  QuietOK'
    BY <1>9, <1>1 DEF StartRegister, Goto, Finish
  <1>10. ASSUME NEW t \in Threads, StopPersist(t)
       PROVE  QuietOK'
    BY <1>10, <1>1 DEF StopPersist, Goto
  <1>11. ASSUME NEW t \in Threads, StopDelete(t)
       PROVE  QuietOK'
    BY <1>11, <1>1 DEF StopDelete, Goto, Finish
  <1>12. ASSUME NEW t \in Threads, AdvanceEnd(t)
       PROVE  QuietOK'
    BY <1>12, <1>1 DEF AdvanceEnd, Goto, Finish, LeaveAdvance
  <1>13. ASSUME NEW t \in Threads, NEW op \in Ops, TickUnregistered(t, op)
       PROVE  QuietOK'
    BY <1>13, <1>1 DEF TickUnregistered, Goto, Finish, LeaveAdvance
  <1>14. ASSUME NEW t \in Threads, NEW op \in Ops, TickUpToDate(t, op)
       PROVE  QuietOK'
    BY <1>14, <1>1 DEF TickUpToDate
  <1>15. ASSUME NEW t \in Threads, NEW op \in Ops, TickRead(t, op)
       PROVE  QuietOK'
    BY <1>15, <1>1 DEF TickRead, Goto
  <1>16. ASSUME NEW t \in Threads, TickClaim(t)
       PROVE  QuietOK'
    BY <1>16, <1>1 DEF TickClaim, Goto
  <1>17. ASSUME NEW t \in Threads, WorkAdded(t)
       PROVE  QuietOK'
    BY <1>17, <1>1 DEF WorkAdded, Goto
  <1>18. ASSUME NEW t \in Threads, NEW w \in RequiredWorks, BlockFinalized(t, w)
       PROVE  QuietOK'
    BY <1>18, <1>1 DEF BlockFinalized, Goto
  <1>19. ASSUME NEW t \in Threads, PostPool(t)
       PROVE  QuietOK'
    BY <1>19, <1>1 DEF PostPool, Goto
  <1>20. ASSUME NEW t \in Threads, PostShares(t)
       PROVE  QuietOK'
    BY <1>20, <1>1 DEF PostShares, Goto
  <1>21. ASSUME NEW t \in Threads, Announce(t)
       PROVE  QuietOK'
    BY <1>21, <1>1 DEF Announce, Goto
  <1>22. ASSUME NEW t \in Threads, PublishProgress(t)
       PROVE  QuietOK'
    BY <1>22, <1>1 DEF PublishProgress, Goto
  <1>23. ASSUME NEW t \in Threads, PersistFails(t)
       PROVE  QuietOK'
    BY <1>23, <1>1 DEF PersistFails, Goto, Finish
  <1>24. ASSUME NEW t \in Threads, TickFails(t)
       PROVE  QuietOK'
    BY <1>24, <1>1 DEF TickFails, CallsDatabase, Goto, Finish, LeaveAdvance
  <1>25. CASE UNCHANGED vars
    BY <1>25 DEF vars
  <1> QED
    BY <1>2, <1>3, <1>4, <1>5, <1>6, <1>7, <1>8, <1>9, <1>10, <1>11, <1>12, <1>13,
       <1>14, <1>15, <1>16, <1>17, <1>18, <1>19, <1>20, <1>21, <1>22, <1>23, <1>24, <1>25 DEF Next, Request, IntentStep, TickStep, Fault

\* The parts of ControlOK together.
LEMMA ControlStep ==
  ASSUME TypeOK, ControlOK, [Next]_vars
  PROVE  ControlOK'
  BY LockStep, IntentOKStep, TickOKStep, QuietStep, RunStep DEF ControlOK

\* No id is beyond the last start intent.
LEMMA SidBounds ==
  ASSUME TypeOK, ControlOK
  PROVE  /\ \A op \in Ops : operations[op].sid \in 0..started
         /\ \A t \in Threads : tick[t].sid \in 0..started
         /\ \A t \in Threads : Starting(t) => intent[t].sid \in 1..started
         /\ \A i \in DOMAIN events : events[i].type = "start" => events[i].sid \in 1..started
PROOF
  <1>1. started \in Nat
    BY RuntimeAssumption DEF TypeOK
  <1>2. \A op \in Ops : operations[op].sid \in 0..started
    BY <1>1 DEF ControlOK, RunOK, Registered, Absent
  <1>3. \A t \in Threads : tick[t].sid \in 0..started
    BY <1>1 DEF ControlOK, TickOK, NoTick
  <1> QED
    BY <1>2, <1>3 DEF ControlOK, IntentOK, RunOK

\* Every step keeps the ids of start events apart.
LEMMA EventSidStep ==
  ASSUME TypeOK, ControlOK, IntentSidOK, EventSidOK, [Next]_vars
  PROVE  EventSidOK'
PROOF
  <1> USE DEF EventSidOK, memory, locals, database, bounds, history
  <1>1. pc \in [Threads -> {"idle"} \cup InFlight \cup Ticking]
    BY DEF TypeOK
  <1>2. intent \in [Threads -> IntentType]
    BY DEF TypeOK
  <1>3. events \in Seq(EventType)
    BY DEF TypeOK
  <1>4. started \in Nat
    BY RuntimeAssumption DEF TypeOK
  <1>5. /\ \A op \in Ops : operations[op].sid \in 0..started
        /\ \A t \in Threads : tick[t].sid \in 0..started
        /\ \A t \in Threads : Starting(t) => intent[t].sid \in 1..started
        /\ \A i \in DOMAIN events : events[i].type = "start" => events[i].sid \in 1..started
    BY SidBounds
  <1>6. CASE Clock
    BY <1>6, <1>1, <1>2, <1>3, <1>4, <1>5 DEF Clock
  <1>7. CASE Crash
    BY <1>7, <1>1, <1>2, <1>3, <1>4, <1>5 DEF Crash
  <1>8. CASE Recover
    BY <1>8, <1>1, <1>2, <1>3, <1>4, <1>5 DEF Recover
  <1>9. ASSUME NEW t \in Threads, NEW op \in Ops, NEW p \in Players, NEW r \in Rates, StartIntent(t, op, p, r)
       PROVE  EventSidOK'
    <2>1. intent'[t].sid = started + 1
      BY <1>9, <1>1, <1>2, <1>3, <1>4, <1>5 DEF StartIntent
    <2>2. \A u \in Threads : u # t => intent'[u] = intent[u] /\ pc'[u] = pc[u]
      BY <1>9, <1>1, <1>2, <1>3, <1>4, <1>5 DEF StartIntent, Goto
    <2>3. events' = events
      BY <1>9 DEF StartIntent
    <2>4. \A i \in DOMAIN events : events[i].type = "start" => events[i].sid # started + 1
      <3>1. \A n \in 1..started : n # started + 1
        BY <1>4
      <3> QED
        BY <1>5, <3>1
    <2> QED
      BY <2>1, <2>2, <2>3, <2>4
  <1>10. ASSUME NEW t \in Threads, NEW op \in Ops, NEW p \in Players, StopIntent(t, op, p)
       PROVE  EventSidOK'
    BY <1>10, <1>1, <1>2, <1>3, <1>4, <1>5 DEF StopIntent, Goto
  <1>11. ASSUME NEW t \in Threads, AdvanceBegin(t)
       PROVE  EventSidOK'
    BY <1>11, <1>1, <1>2, <1>3, <1>4, <1>5 DEF AdvanceBegin, LockFree, Goto
  <1>12. ASSUME NEW t \in Threads, StartPersist(t)
       PROVE  EventSidOK'
    <2> DEFINE e == [type |-> "start", op |-> intent[t].op, player |-> intent[t].player,
                     rate |-> intent[t].rate, at |-> intent[t].at, sid |-> intent[t].sid]
    <2>1. events' = Append(events, e)
      BY <1>12 DEF StartPersist
    <2>2. e.type = "start" /\ e.sid = intent[t].sid
      OBVIOUS
    <2> HIDE DEF e
    <2>3. /\ DOMAIN events' = DOMAIN events \cup {Len(events) + 1}
          /\ \A i \in DOMAIN events : events'[i] = events[i]
          /\ events'[Len(events) + 1] = e
      BY <2>1, <1>1, <1>2, <1>3, <1>4, <1>5
    <2>4. \A i \in DOMAIN events : events[i].type = "start" => events[i].sid # e.sid
      BY <1>12, <2>2 DEF StartPersist
    <2>5. \A u \in Threads : pc'[u] = "start_persist" =>
            pc[u] = "start_persist" /\ intent'[u] = intent[u] /\ intent[u].sid # e.sid
      BY <1>12, <1>1, <1>2, <1>3, <1>4, <1>5, <2>2 DEF StartPersist, Goto, IntentSidOK, Starting
    <2> QED
      BY <2>2, <2>3, <2>4, <2>5
  <1>13. ASSUME NEW t \in Threads, StartRegister(t)
       PROVE  EventSidOK'
    BY <1>13, <1>1, <1>2, <1>3, <1>4, <1>5 DEF StartRegister, Goto, Finish
  <1>14. ASSUME NEW t \in Threads, StopPersist(t)
       PROVE  EventSidOK'
    BY <1>14, <1>1, <1>2, <1>3, <1>4, <1>5 DEF StopPersist, Goto
  <1>15. ASSUME NEW t \in Threads, StopDelete(t)
       PROVE  EventSidOK'
    BY <1>15, <1>1, <1>2, <1>3, <1>4, <1>5 DEF StopDelete, Goto, Finish
  <1>16. ASSUME NEW t \in Threads, AdvanceEnd(t)
       PROVE  EventSidOK'
    BY <1>16, <1>1, <1>2, <1>3, <1>4, <1>5 DEF AdvanceEnd, Goto, Finish, LeaveAdvance
  <1>17. ASSUME NEW t \in Threads, NEW op \in Ops, TickUnregistered(t, op)
       PROVE  EventSidOK'
    BY <1>17, <1>1, <1>2, <1>3, <1>4, <1>5 DEF TickUnregistered, Goto, Finish, LeaveAdvance
  <1>18. ASSUME NEW t \in Threads, NEW op \in Ops, TickUpToDate(t, op)
       PROVE  EventSidOK'
    BY <1>18, <1>1, <1>2, <1>3, <1>4, <1>5 DEF TickUpToDate
  <1>19. ASSUME NEW t \in Threads, NEW op \in Ops, TickRead(t, op)
       PROVE  EventSidOK'
    BY <1>19, <1>1, <1>2, <1>3, <1>4, <1>5 DEF TickRead, Goto
  <1>20. ASSUME NEW t \in Threads, TickClaim(t)
       PROVE  EventSidOK'
    BY <1>20, <1>1, <1>2, <1>3, <1>4, <1>5 DEF TickClaim, Goto
  <1>21. ASSUME NEW t \in Threads, WorkAdded(t)
       PROVE  EventSidOK'
    BY <1>21, <1>1, <1>2, <1>3, <1>4, <1>5 DEF WorkAdded, Goto
  <1>22. ASSUME NEW t \in Threads, NEW w \in RequiredWorks, BlockFinalized(t, w)
       PROVE  EventSidOK'
    BY <1>22, <1>1, <1>2, <1>3, <1>4, <1>5 DEF BlockFinalized, Goto
  <1>23. ASSUME NEW t \in Threads, PostPool(t)
       PROVE  EventSidOK'
    BY <1>23, <1>1, <1>2, <1>3, <1>4, <1>5 DEF PostPool, Goto
  <1>24. ASSUME NEW t \in Threads, PostShares(t)
       PROVE  EventSidOK'
    BY <1>24, <1>1, <1>2, <1>3, <1>4, <1>5 DEF PostShares, Goto
  <1>25. ASSUME NEW t \in Threads, Announce(t)
       PROVE  EventSidOK'
    BY <1>25, <1>1, <1>2, <1>3, <1>4, <1>5 DEF Announce, Goto
  <1>26. ASSUME NEW t \in Threads, PublishProgress(t)
       PROVE  EventSidOK'
    BY <1>26, <1>1, <1>2, <1>3, <1>4, <1>5 DEF PublishProgress, Goto
  <1>27. ASSUME NEW t \in Threads, PersistFails(t)
       PROVE  EventSidOK'
    BY <1>27, <1>1, <1>2, <1>3, <1>4, <1>5 DEF PersistFails, Goto, Finish
  <1>28. ASSUME NEW t \in Threads, TickFails(t)
       PROVE  EventSidOK'
    BY <1>28, <1>1, <1>2, <1>3, <1>4, <1>5 DEF TickFails, CallsDatabase, Goto, Finish, LeaveAdvance
  <1>29. CASE UNCHANGED vars
    BY <1>29 DEF vars
  <1> QED
    BY <1>6, <1>7, <1>8, <1>9, <1>10, <1>11, <1>12, <1>13, <1>14, <1>15, <1>16, <1>17,
       <1>18, <1>19, <1>20, <1>21, <1>22, <1>23, <1>24, <1>25, <1>26, <1>27, <1>28, <1>29 DEF Next, Request, IntentStep, TickStep, Fault

\* Every step keeps the ids of start intents apart.
LEMMA IntentSidStep ==
  ASSUME TypeOK, ControlOK, IntentSidOK, [Next]_vars
  PROVE  IntentSidOK'
PROOF
  <1> USE DEF IntentSidOK, Starting, NoTick, Absent, memory, locals, database, bounds, history
  <1>1. pc \in [Threads -> {"idle"} \cup InFlight \cup Ticking]
    BY DEF TypeOK
  <1>2. intent \in [Threads -> IntentType]
    BY DEF TypeOK
  <1>3. tick \in [Threads -> TickType]
    BY DEF TypeOK
  <1>4. operations \in [Ops -> Registration]
    BY DEF TypeOK
  <1>5. started \in Nat
    BY RuntimeAssumption DEF TypeOK
  <1>6. /\ \A op \in Ops : operations[op].sid \in 0..started
        /\ \A t \in Threads : tick[t].sid \in 0..started
        /\ \A t \in Threads : Starting(t) => intent[t].sid \in 1..started
        /\ \A i \in DOMAIN events : events[i].type = "start" => events[i].sid \in 1..started
    BY SidBounds
  <1>7. CASE Clock
    BY <1>7, <1>1, <1>2, <1>3, <1>4, <1>5, <1>6 DEF Clock
  <1>8. CASE Crash
    BY <1>8, <1>1, <1>2, <1>3, <1>4, <1>5, <1>6 DEF Crash
  <1>9. CASE Recover
    BY <1>9 DEF Recover, ControlOK, QuietOK
  <1>10. ASSUME NEW t \in Threads, NEW op \in Ops, NEW p \in Players, NEW r \in Rates, StartIntent(t, op, p, r)
       PROVE  IntentSidOK'
    BY <1>10, <1>1, <1>2, <1>3, <1>4, <1>5, <1>6 DEF StartIntent, Goto
  <1>11. ASSUME NEW t \in Threads, NEW op \in Ops, NEW p \in Players, StopIntent(t, op, p)
       PROVE  IntentSidOK'
    BY <1>11, <1>1, <1>2, <1>3, <1>4, <1>5, <1>6 DEF StopIntent, Goto
  <1>12. ASSUME NEW t \in Threads, AdvanceBegin(t)
       PROVE  IntentSidOK'
    BY <1>12, <1>1, <1>2, <1>3, <1>4, <1>5, <1>6 DEF AdvanceBegin, LockFree, Goto
  <1>13. ASSUME NEW t \in Threads, StartPersist(t)
       PROVE  IntentSidOK'
    BY <1>13, <1>1, <1>2, <1>3, <1>4, <1>5, <1>6 DEF StartPersist, Goto
  <1>14. ASSUME NEW t \in Threads, StartRegister(t)
       PROVE  IntentSidOK'
    BY <1>14, <1>1, <1>2, <1>3, <1>4, <1>5, <1>6 DEF StartRegister, Goto, Finish
  <1>15. ASSUME NEW t \in Threads, StopPersist(t)
       PROVE  IntentSidOK'
    BY <1>15, <1>1, <1>2, <1>3, <1>4, <1>5, <1>6 DEF StopPersist, Goto
  <1>16. ASSUME NEW t \in Threads, StopDelete(t)
       PROVE  IntentSidOK'
    BY <1>16, <1>1, <1>2, <1>3, <1>4, <1>5, <1>6 DEF StopDelete, Goto, Finish
  <1>17. ASSUME NEW t \in Threads, AdvanceEnd(t)
       PROVE  IntentSidOK'
    BY <1>17, <1>1, <1>2, <1>3, <1>4, <1>5, <1>6 DEF AdvanceEnd, Goto, Finish, LeaveAdvance
  <1>18. ASSUME NEW t \in Threads, NEW op \in Ops, TickUnregistered(t, op)
       PROVE  IntentSidOK'
    BY <1>18, <1>1, <1>2, <1>3, <1>4, <1>5, <1>6 DEF TickUnregistered, Goto, Finish, LeaveAdvance
  <1>19. ASSUME NEW t \in Threads, NEW op \in Ops, TickUpToDate(t, op)
       PROVE  IntentSidOK'
    BY <1>19, <1>1, <1>2, <1>3, <1>4, <1>5, <1>6 DEF TickUpToDate
  <1>20. ASSUME NEW t \in Threads, NEW op \in Ops, TickRead(t, op)
       PROVE  IntentSidOK'
    BY <1>20, <1>1, <1>2, <1>3, <1>4, <1>5, <1>6 DEF TickRead, Goto
  <1>21. ASSUME NEW t \in Threads, TickClaim(t)
       PROVE  IntentSidOK'
    BY <1>21, <1>1, <1>2, <1>3, <1>4, <1>5, <1>6 DEF TickClaim, Goto
  <1>22. ASSUME NEW t \in Threads, WorkAdded(t)
       PROVE  IntentSidOK'
    BY <1>22, <1>1, <1>2, <1>3, <1>4, <1>5, <1>6 DEF WorkAdded, Goto
  <1>23. ASSUME NEW t \in Threads, NEW w \in RequiredWorks, BlockFinalized(t, w)
       PROVE  IntentSidOK'
    BY <1>23, <1>1, <1>2, <1>3, <1>4, <1>5, <1>6 DEF BlockFinalized, Goto
  <1>24. ASSUME NEW t \in Threads, PostPool(t)
       PROVE  IntentSidOK'
    BY <1>24, <1>1, <1>2, <1>3, <1>4, <1>5, <1>6 DEF PostPool, Goto
  <1>25. ASSUME NEW t \in Threads, PostShares(t)
       PROVE  IntentSidOK'
    BY <1>25, <1>1, <1>2, <1>3, <1>4, <1>5, <1>6 DEF PostShares, Goto
  <1>26. ASSUME NEW t \in Threads, Announce(t)
       PROVE  IntentSidOK'
    BY <1>26, <1>1, <1>2, <1>3, <1>4, <1>5, <1>6 DEF Announce, Goto
  <1>27. ASSUME NEW t \in Threads, PublishProgress(t)
       PROVE  IntentSidOK'
    BY <1>27, <1>1, <1>2, <1>3, <1>4, <1>5, <1>6 DEF PublishProgress, Goto
  <1>28. ASSUME NEW t \in Threads, PersistFails(t)
       PROVE  IntentSidOK'
    BY <1>28, <1>1, <1>2, <1>3, <1>4, <1>5, <1>6 DEF PersistFails, Goto, Finish
  <1>29. ASSUME NEW t \in Threads, TickFails(t)
       PROVE  IntentSidOK'
    BY <1>29, <1>1, <1>2, <1>3, <1>4, <1>5, <1>6 DEF TickFails, CallsDatabase, Goto, Finish, LeaveAdvance
  <1>30. CASE UNCHANGED vars
    BY <1>30 DEF vars
  <1> QED
    BY <1>7, <1>8, <1>9, <1>10, <1>11, <1>12, <1>13, <1>14, <1>15, <1>16, <1>17, <1>18,
       <1>19, <1>20, <1>21, <1>22, <1>23, <1>24, <1>25, <1>26, <1>27, <1>28, <1>29, <1>30 DEF Next, Request, IntentStep, TickStep, Fault

\* Every step keeps the ids of operations and ticks apart.
LEMMA HolderSidStep ==
  ASSUME TypeOK, ControlOK, IntentSidOK, HolderSidOK, EventSidOK, [Next]_vars
  PROVE  HolderSidOK'
PROOF
  <1> USE DEF HolderSidOK, NoTick, Absent, memory, locals, database, bounds, history
  <1>1. pc \in [Threads -> {"idle"} \cup InFlight \cup Ticking]
    BY DEF TypeOK
  <1>2. intent \in [Threads -> IntentType]
    BY DEF TypeOK
  <1>3. tick \in [Threads -> TickType]
    BY DEF TypeOK
  <1>4. operations \in [Ops -> Registration]
    BY DEF TypeOK
  <1>5. started \in Nat
    BY RuntimeAssumption DEF TypeOK
  <1>6. /\ \A op \in Ops : operations[op].sid \in 0..started
        /\ \A t \in Threads : tick[t].sid \in 0..started
        /\ \A t \in Threads : Starting(t) => intent[t].sid \in 1..started
        /\ \A i \in DOMAIN events : events[i].type = "start" => events[i].sid \in 1..started
    BY SidBounds
  <1>7. CASE Clock
    BY <1>7, <1>1, <1>2, <1>3, <1>4, <1>5, <1>6 DEF Clock
  <1>8. CASE Crash
    BY <1>8, <1>1, <1>2, <1>3, <1>4, <1>5, <1>6 DEF Crash
  <1>9. CASE Recover
    <2>1. \A op \in Ops : operations'[op] = Replayed(op)
      BY <1>9 DEF Recover
    <2>2. \A u \in Threads : tick'[u].sid = 0
      BY <1>9 DEF Recover, ControlOK, QuietOK, TickOK, InTick, Crediting, Settling
    <2>3. \A op, oq \in Ops :
            Replayed(op).sid = Replayed(oq).sid /\ Replayed(op).sid # 0 => op = oq
      <3>1. \A op \in Ops : Replayed(op).sid # 0 =>
              \E i \in DOMAIN events : /\ events[i].type = "start" /\ events[i].op = op
                                      /\ Replayed(op).sid = events[i].sid
        <4> SUFFICES ASSUME NEW op \in Ops, Replayed(op).sid # 0
                     PROVE  \E i \in DOMAIN events :
                              /\ events[i].type = "start" /\ events[i].op = op
                              /\ Replayed(op).sid = events[i].sid
          OBVIOUS
        <4>1. PICK i \in DOMAIN events : Revives(i, op) /\ i = CHOOSE j \in DOMAIN events : Revives(j, op)
          BY DEF Replayed
        <4>2. Replayed(op).sid = events[i].sid
          BY <4>1 DEF Replayed
        <4> QED
          BY <4>1, <4>2 DEF Revives, OfType
      <3> QED
        BY <3>1 DEF EventSidOK
    <2> QED
      BY <2>1, <2>2, <2>3
  <1>10. ASSUME NEW t \in Threads, NEW op \in Ops, NEW p \in Players, NEW r \in Rates, StartIntent(t, op, p, r)
       PROVE  HolderSidOK'
    BY <1>10, <1>1, <1>2, <1>3, <1>4, <1>5, <1>6 DEF StartIntent, Goto
  <1>11. ASSUME NEW t \in Threads, NEW op \in Ops, NEW p \in Players, StopIntent(t, op, p)
       PROVE  HolderSidOK'
    BY <1>11, <1>1, <1>2, <1>3, <1>4, <1>5, <1>6 DEF StopIntent, Goto
  <1>12. ASSUME NEW t \in Threads, AdvanceBegin(t)
       PROVE  HolderSidOK'
    BY <1>12, <1>1, <1>2, <1>3, <1>4, <1>5, <1>6 DEF AdvanceBegin, LockFree, Goto
  <1>13. ASSUME NEW t \in Threads, StartPersist(t)
       PROVE  HolderSidOK'
    BY <1>13, <1>1, <1>2, <1>3, <1>4, <1>5, <1>6 DEF StartPersist, Goto
  <1>14. ASSUME NEW t \in Threads, StartRegister(t)
       PROVE  HolderSidOK'
    BY <1>14, <1>1, <1>2, <1>3, <1>4, <1>5, <1>6 DEF StartRegister, Goto, Finish, Starting, IntentSidOK
  <1>15. ASSUME NEW t \in Threads, StopPersist(t)
       PROVE  HolderSidOK'
    BY <1>15, <1>1, <1>2, <1>3, <1>4, <1>5, <1>6 DEF StopPersist, Goto
  <1>16. ASSUME NEW t \in Threads, StopDelete(t)
       PROVE  HolderSidOK'
    BY <1>16, <1>1, <1>2, <1>3, <1>4, <1>5, <1>6 DEF StopDelete, Goto, Finish
  <1>17. ASSUME NEW t \in Threads, AdvanceEnd(t)
       PROVE  HolderSidOK'
    BY <1>17, <1>1, <1>2, <1>3, <1>4, <1>5, <1>6 DEF AdvanceEnd, Goto, Finish, LeaveAdvance
  <1>18. ASSUME NEW t \in Threads, NEW op \in Ops, TickUnregistered(t, op)
       PROVE  HolderSidOK'
    BY <1>18, <1>1, <1>2, <1>3, <1>4, <1>5, <1>6 DEF TickUnregistered, Goto, Finish, LeaveAdvance
  <1>19. ASSUME NEW t \in Threads, NEW op \in Ops, TickUpToDate(t, op)
       PROVE  HolderSidOK'
    BY <1>19, <1>1, <1>2, <1>3, <1>4, <1>5, <1>6 DEF TickUpToDate
  <1>20. ASSUME NEW t \in Threads, NEW op \in Ops, TickRead(t, op)
       PROVE  HolderSidOK'
    BY <1>20, <1>1, <1>2, <1>3, <1>4, <1>5, <1>6 DEF TickRead, Goto
  <1>21. ASSUME NEW t \in Threads, TickClaim(t)
       PROVE  HolderSidOK'
    BY <1>21, <1>1, <1>2, <1>3, <1>4, <1>5, <1>6 DEF TickClaim, Goto
  <1>22. ASSUME NEW t \in Threads, WorkAdded(t)
       PROVE  HolderSidOK'
    BY <1>22, <1>1, <1>2, <1>3, <1>4, <1>5, <1>6 DEF WorkAdded, Goto
  <1>23. ASSUME NEW t \in Threads, NEW w \in RequiredWorks, BlockFinalized(t, w)
       PROVE  HolderSidOK'
    BY <1>23, <1>1, <1>2, <1>3, <1>4, <1>5, <1>6 DEF BlockFinalized, Goto
  <1>24. ASSUME NEW t \in Threads, PostPool(t)
       PROVE  HolderSidOK'
    BY <1>24, <1>1, <1>2, <1>3, <1>4, <1>5, <1>6 DEF PostPool, Goto
  <1>25. ASSUME NEW t \in Threads, PostShares(t)
       PROVE  HolderSidOK'
    BY <1>25, <1>1, <1>2, <1>3, <1>4, <1>5, <1>6 DEF PostShares, Goto
  <1>26. ASSUME NEW t \in Threads, Announce(t)
       PROVE  HolderSidOK'
    BY <1>26, <1>1, <1>2, <1>3, <1>4, <1>5, <1>6 DEF Announce, Goto
  <1>27. ASSUME NEW t \in Threads, PublishProgress(t)
       PROVE  HolderSidOK'
    BY <1>27, <1>1, <1>2, <1>3, <1>4, <1>5, <1>6 DEF PublishProgress, Goto
  <1>28. ASSUME NEW t \in Threads, PersistFails(t)
       PROVE  HolderSidOK'
    BY <1>28, <1>1, <1>2, <1>3, <1>4, <1>5, <1>6 DEF PersistFails, Goto, Finish
  <1>29. ASSUME NEW t \in Threads, TickFails(t)
       PROVE  HolderSidOK'
    BY <1>29, <1>1, <1>2, <1>3, <1>4, <1>5, <1>6 DEF TickFails, CallsDatabase, Goto, Finish, LeaveAdvance
  <1>30. CASE UNCHANGED vars
    BY <1>30 DEF vars
  <1> QED
    BY <1>7, <1>8, <1>9, <1>10, <1>11, <1>12, <1>13, <1>14, <1>15, <1>16, <1>17, <1>18,
       <1>19, <1>20, <1>21, <1>22, <1>23, <1>24, <1>25, <1>26, <1>27, <1>28, <1>29, <1>30 DEF Next, Request, IntentStep, TickStep, Fault

\* The parts of SidOK together.
LEMMA SidStep ==
  ASSUME TypeOK, ControlOK, SidOK, [Next]_vars
  PROVE  SidOK'
  BY EventSidStep, IntentSidStep, HolderSidStep DEF SidOK

\* Every step keeps last_processed_at with the tick that claims.
LEMMA ClaimStep ==
  ASSUME TypeOK, ControlOK, SidOK, ClaimOK, [Next]_vars
  PROVE  ClaimOK'
PROOF
  <1> USE DEF ClaimOK, Crediting, NoTick, Absent, memory, locals, database, bounds, history
  <1>1. pc \in [Threads -> {"idle"} \cup InFlight \cup Ticking]
    BY DEF TypeOK
  <1>2. tick \in [Threads -> TickType]
    BY DEF TypeOK
  <1>3. operations \in [Ops -> Registration]
    BY DEF TypeOK
  <1>4. intent \in [Threads -> IntentType]
    BY DEF TypeOK
  <1>5. ~recovered => \A u \in Threads : pc[u] = "idle"
    BY DEF ControlOK, QuietOK
  <1>6. \A u, v \in Threads : pc[u] \in Ticking /\ pc[v] \in Ticking => u = v
    BY DEF ControlOK, LockOK
  <1>7. SidOK
    OBVIOUS
  <1>8. CASE Clock
    BY <1>8, <1>1, <1>2, <1>3, <1>4, <1>5, <1>6, <1>7 DEF Clock
  <1>9. CASE Crash
    BY <1>9, <1>1, <1>2, <1>3, <1>4, <1>5, <1>6, <1>7 DEF Crash
  <1>10. CASE Recover
    BY <1>10, <1>1, <1>2, <1>3, <1>4, <1>5, <1>6, <1>7 DEF Recover
  <1>11. ASSUME NEW t \in Threads, NEW op \in Ops, NEW p \in Players, NEW r \in Rates, StartIntent(t, op, p, r)
       PROVE  ClaimOK'
    BY <1>11, <1>1, <1>2, <1>3, <1>4, <1>5, <1>6, <1>7 DEF StartIntent, Goto
  <1>12. ASSUME NEW t \in Threads, NEW op \in Ops, NEW p \in Players, StopIntent(t, op, p)
       PROVE  ClaimOK'
    BY <1>12, <1>1, <1>2, <1>3, <1>4, <1>5, <1>6, <1>7 DEF StopIntent, Goto
  <1>13. ASSUME NEW t \in Threads, AdvanceBegin(t)
       PROVE  ClaimOK'
    BY <1>13, <1>1, <1>2, <1>3, <1>4, <1>5, <1>6, <1>7 DEF AdvanceBegin, LockFree, Goto
  <1>14. ASSUME NEW t \in Threads, StartPersist(t)
       PROVE  ClaimOK'
    BY <1>14, <1>1, <1>2, <1>3, <1>4, <1>5, <1>6, <1>7 DEF StartPersist, Goto
  <1>15. ASSUME NEW t \in Threads, StartRegister(t)
       PROVE  ClaimOK'
    BY <1>15, <1>1, <1>2, <1>3, <1>4, <1>5, <1>6, <1>7 DEF StartRegister, Goto, Finish, SidOK, IntentSidOK, Starting
  <1>16. ASSUME NEW t \in Threads, StopPersist(t)
       PROVE  ClaimOK'
    BY <1>16, <1>1, <1>2, <1>3, <1>4, <1>5, <1>6, <1>7 DEF StopPersist, Goto
  <1>17. ASSUME NEW t \in Threads, StopDelete(t)
       PROVE  ClaimOK'
    BY <1>17, <1>1, <1>2, <1>3, <1>4, <1>5, <1>6, <1>7 DEF StopDelete, Goto, Finish, ControlOK, TickOK, InTick
  <1>18. ASSUME NEW t \in Threads, AdvanceEnd(t)
       PROVE  ClaimOK'
    BY <1>18, <1>1, <1>2, <1>3, <1>4, <1>5, <1>6, <1>7 DEF AdvanceEnd, Goto, Finish, LeaveAdvance
  <1>19. ASSUME NEW t \in Threads, NEW op \in Ops, TickUnregistered(t, op)
       PROVE  ClaimOK'
    BY <1>19, <1>1, <1>2, <1>3, <1>4, <1>5, <1>6, <1>7 DEF TickUnregistered, Goto, Finish, LeaveAdvance
  <1>20. ASSUME NEW t \in Threads, NEW op \in Ops, TickUpToDate(t, op)
       PROVE  ClaimOK'
    BY <1>20, <1>1, <1>2, <1>3, <1>4, <1>5, <1>6, <1>7 DEF TickUpToDate
  <1>21. ASSUME NEW t \in Threads, NEW op \in Ops, TickRead(t, op)
       PROVE  ClaimOK'
    <2>1. operations[op].sid # 0 /\ pc[t] \in Ticking
      BY <1>21 DEF TickRead, ControlOK, RunOK, Registered, Ticking
    <2>2. \A oq \in Ops : operations[oq].sid = operations[op].sid => oq = op
      BY <2>1 DEF SidOK, HolderSidOK
    <2>3. \A u \in Threads : pc'[u] \in {"claim", "add"} => u = t
      BY <1>21, <1>1, <1>2, <1>3, <1>4, <1>5, <1>6, <1>7, <2>1 DEF TickRead, Goto, Ticking
    <2>4. /\ pc'[t] = "claim"
          /\ tick'[t].sid = operations[op].sid /\ tick'[t].from = operations[op].last
          /\ operations' = operations
      BY <1>21, <1>1, <1>2, <1>3, <1>4, <1>5, <1>6, <1>7 DEF TickRead, Goto
    <2> QED
      BY <2>2, <2>3, <2>4
  <1>22. ASSUME NEW t \in Threads, TickClaim(t)
       PROVE  ClaimOK'
    <2>1. tick[t].sid # 0 /\ tick[t].op \in Ops /\ pc[t] \in Ticking
      BY <1>22, SidBounds, RuntimeAssumption DEF TickClaim, ControlOK, TickOK, InTick, Ticking
    <2>2. \A oq \in Ops : operations[oq].sid = tick[t].sid => oq = tick[t].op
      BY <2>1 DEF SidOK, HolderSidOK
    <2>3. \A u \in Threads : pc'[u] \in {"claim", "add"} => u = t
      BY <1>22, <1>1, <1>2, <1>3, <1>4, <1>5, <1>6, <1>7, <2>1 DEF TickClaim, Goto, Ticking
    <2>4. pc'[t] = "add" /\ tick' = tick
      BY <1>22, <1>1, <1>2, <1>3, <1>4, <1>5, <1>6, <1>7 DEF TickClaim, Goto
    <2>5. \A oq \in Ops : operations'[oq].sid = tick[t].sid => operations'[oq].last = tick[t].to
      BY <1>22, <1>1, <1>2, <1>3, <1>4, <1>5, <1>6, <1>7, <2>1, <2>2 DEF TickClaim, Registration
    <2> QED
      BY <2>3, <2>4, <2>5
  <1>23. ASSUME NEW t \in Threads, WorkAdded(t)
       PROVE  ClaimOK'
    BY <1>23, <1>1, <1>2, <1>3, <1>4, <1>5, <1>6, <1>7 DEF WorkAdded, Goto
  <1>24. ASSUME NEW t \in Threads, NEW w \in RequiredWorks, BlockFinalized(t, w)
       PROVE  ClaimOK'
    BY <1>24, <1>1, <1>2, <1>3, <1>4, <1>5, <1>6, <1>7 DEF BlockFinalized, Goto
  <1>25. ASSUME NEW t \in Threads, PostPool(t)
       PROVE  ClaimOK'
    BY <1>25, <1>1, <1>2, <1>3, <1>4, <1>5, <1>6, <1>7 DEF PostPool, Goto
  <1>26. ASSUME NEW t \in Threads, PostShares(t)
       PROVE  ClaimOK'
    BY <1>26, <1>1, <1>2, <1>3, <1>4, <1>5, <1>6, <1>7 DEF PostShares, Goto
  <1>27. ASSUME NEW t \in Threads, Announce(t)
       PROVE  ClaimOK'
    BY <1>27, <1>1, <1>2, <1>3, <1>4, <1>5, <1>6, <1>7 DEF Announce, Goto
  <1>28. ASSUME NEW t \in Threads, PublishProgress(t)
       PROVE  ClaimOK'
    BY <1>28, <1>1, <1>2, <1>3, <1>4, <1>5, <1>6, <1>7 DEF PublishProgress, Goto
  <1>29. ASSUME NEW t \in Threads, PersistFails(t)
       PROVE  ClaimOK'
    BY <1>29, <1>1, <1>2, <1>3, <1>4, <1>5, <1>6, <1>7 DEF PersistFails, Goto, Finish
  <1>30. ASSUME NEW t \in Threads, TickFails(t)
       PROVE  ClaimOK'
    BY <1>30, <1>1, <1>2, <1>3, <1>4, <1>5, <1>6, <1>7 DEF TickFails, CallsDatabase, Goto, Finish, LeaveAdvance
  <1>31. CASE UNCHANGED vars
    BY <1>31 DEF vars
  <1> QED
    BY <1>8, <1>9, <1>10, <1>11, <1>12, <1>13, <1>14, <1>15, <1>16, <1>17, <1>18, <1>19,
       <1>20, <1>21, <1>22, <1>23, <1>24, <1>25, <1>26, <1>27, <1>28, <1>29, <1>30, <1>31 DEF Next, Request, IntentStep, TickStep, Fault

\* A tick's window does not end before it begins.
LEMMA TickFromTo ==
  ASSUME TypeOK, ControlOK, NEW t \in Threads, pc[t] = "claim"
  PROVE  /\ tick[t].from \in Nat /\ tick[t].to \in Nat /\ tick[t].from <= tick[t].to
         /\ tick[t].op \in Ops
PROOF
  <1>1. tick[t] \in TickType
    BY DEF TypeOK
  <1>2. tick[t].from <= tick[t].to /\ tick[t].op \in Ops
    BY DEF ControlOK, TickOK, InTick, Crediting
  <1> QED
    BY <1>1, <1>2, RuntimeAssumption DEF TickType, Times

\* A tick's credit goes to seconds that were creditable and no longer are.
LEMMA AddCredit ==
  ASSUME TypeOK, ControlOK, SidOK, ClaimOK, CreditOK, NEW t \in Threads, pc[t] = "add", Credited(t),
         NEW label \in {"publish", "post_pool"}, Goto(t, label),
         UNCHANGED <<operations, recovered, intent, tick, started, restarts>>
  PROVE  CreditOK'
PROOF
  <1>a. PICK S, W : S = tick[t].sid /\ W = tick[t].from .. (tick[t].to - 1)
    OBVIOUS
  <1>1. pc \in [Threads -> {"idle"} \cup InFlight \cup Ticking]
    BY DEF TypeOK
  <1>2. S \in Sids /\ S \in Nat /\ S <= started /\ S # 0 /\ tick[t].from \in Nat /\ tick[t].to \in Nat
    <2>1. tick[t] \in TickType
      BY DEF TypeOK
    <2>2. tick[t].sid \in 1..started /\ started \in 0..MaxStarts
      BY DEF TypeOK, ControlOK, TickOK, InTick, Crediting
    <2> QED
      BY <1>a, <2>1, <2>2, RuntimeAssumption DEF TickType, Times, Sids
  <1>3. \A x \in Seconds \cap W : Creditable(S, x)
    BY <1>a, <1>2 DEF Creditable, Crediting
  <1>4. \A x \in Seconds \cap W : ~Creditable(S, x)'
    <2> SUFFICES ASSUME NEW x \in Seconds \cap W, Creditable(S, x)'
                 PROVE  FALSE
      OBVIOUS
    <2>1. recovered /\ started \in Nat
      BY RuntimeAssumption DEF TypeOK, ControlOK, QuietOK
    <2>2. x < tick[t].to /\ x \in Int
      BY <1>a, <1>2 DEF Seconds
    <2>3. \A op \in Ops : operations[op].sid = S => operations[op].last = tick[t].to
      BY <1>a DEF ClaimOK, Crediting
    <2>4. \A u \in Threads : pc'[u] \in {"start_persist", "start_register"} => intent[u].sid # S
      BY <1>1, <1>a DEF Starting, Goto, SidOK, IntentSidOK
    <2>5. \A u \in Threads : pc'[u] \notin {"claim", "add"}
      BY <1>1 DEF Goto, ControlOK, LockOK, Ticking
    <2>6. \A op \in Ops : operations[op].sid = S => ~(x >= operations[op].last)
      BY <1>2, <2>2, <2>3
    <2>7. ~(S > started)
      BY <1>2, <2>1
    <2> QED
      BY <2>1, <2>4, <2>5, <2>6, <2>7 DEF Creditable, Starting, Crediting
  <1>5. \A s \in Sids, x \in Seconds : Creditable(s, x)' => Creditable(s, x)
    BY <1>1 DEF Creditable, Starting, Crediting, Goto
  <1>6. restarts \in Nat /\ credit \in [Sids -> [Seconds -> Nat]]
    BY RuntimeAssumption DEF TypeOK
  <1>7. \A s \in Sids, x \in Seconds :
          credit'[s][x] = IF s = S /\ x \in W THEN credit[s][x] + 1 ELSE credit[s][x]
    BY <1>2, <1>6, <1>a DEF Credited
  <1>8. \A s \in Sids, x \in Seconds :
          /\ credit[s][x] <= 1 + restarts
          /\ Creditable(s, x) => credit[s][x] <= restarts
          /\ credit[s][x] \in Nat
    BY <1>6 DEF CreditOK, CreditedOncePerLife
  <1>9. ASSUME NEW s \in Sids, NEW x \in Seconds
        PROVE  credit'[s][x] <= 1 + restarts /\ (Creditable(s, x)' => credit'[s][x] <= restarts)
    <2>1. CASE s = S /\ x \in W
      <3>1. Creditable(S, x) /\ ~Creditable(S, x)'
        BY <1>3, <1>4, <2>1
      <3>2. credit[S][x] <= restarts /\ credit[S][x] \in Nat /\ credit'[S][x] = credit[S][x] + 1
        BY <1>2, <1>7, <1>8, <2>1, <3>1
      <3> QED
        BY <1>6, <2>1, <3>1, <3>2
    <2>2. CASE ~(s = S /\ x \in W)
      BY <1>5, <1>7, <1>8, <2>2
    <2> QED
      BY <2>1, <2>2
  <1> QED
    BY <1>9 DEF CreditOK, CreditedOncePerLife

\* Every step credits creditable seconds only.
LEMMA CreditStep ==
  ASSUME TypeOK, ControlOK, SidOK, ClaimOK, CreditOK, [Next]_vars
  PROVE  CreditOK'
PROOF
  <1> USE DEF CreditOK, memory, locals, database, bounds, history
  <1>1. pc \in [Threads -> {"idle"} \cup InFlight \cup Ticking]
    BY DEF TypeOK
  <1>2. tick \in [Threads -> TickType]
    BY DEF TypeOK
  <1>3. operations \in [Ops -> Registration]
    BY DEF TypeOK
  <1>4. intent \in [Threads -> IntentType]
    BY DEF TypeOK
  <1>5. started \in Nat
    BY RuntimeAssumption DEF TypeOK
  <1>6. restarts \in Nat /\ credit \in [Sids -> [Seconds -> Nat]]
    BY RuntimeAssumption DEF TypeOK
  <1>7. ~recovered => \A u \in Threads : pc[u] = "idle"
    BY DEF ControlOK, QuietOK
  <1>8. \A s \in Sids : s \in Nat /\ s # 0
    BY RuntimeAssumption DEF Sids
  <1>9. \A op \in Ops : operations[op].last \in Nat
    BY RuntimeAssumption DEF TypeOK, Registration, Times
  <1>10. CASE Clock
    <2>1. \A s \in Sids, x \in Seconds : Creditable(s, x)' => Creditable(s, x)
      BY <1>10, <1>1, <1>2, <1>3, <1>4, <1>5, <1>6, <1>7, <1>8, <1>9 DEF Clock, Creditable, Starting, Crediting
    <2>2. credit' = credit /\ restarts' = restarts
      BY <1>10 DEF Clock
    <2> QED
      BY <1>1, <1>2, <1>3, <1>4, <1>5, <1>6, <1>7, <1>8, <1>9, <2>1, <2>2 DEF CreditedOncePerLife
  <1>11. CASE Crash
    <2>1. \A s \in Sids, x \in Seconds : credit'[s][x] <= restarts'
      BY <1>11, <1>1, <1>2, <1>3, <1>4, <1>5, <1>6, <1>7, <1>8, <1>9 DEF Crash, CreditedOncePerLife
    <2> QED
      BY <1>11, <1>1, <1>2, <1>3, <1>4, <1>5, <1>6, <1>7, <1>8, <1>9, <2>1 DEF Crash, CreditedOncePerLife
  <1>12. CASE Recover
    <2>1. \A s \in Sids, x \in Seconds : Creditable(s, x)' => Creditable(s, x)
      BY <1>12, <1>1, <1>2, <1>3, <1>4, <1>5, <1>6, <1>7, <1>8, <1>9 DEF Recover, Creditable, Starting, Crediting
    <2>2. credit' = credit /\ restarts' = restarts
      BY <1>12 DEF Recover
    <2> QED
      BY <1>1, <1>2, <1>3, <1>4, <1>5, <1>6, <1>7, <1>8, <1>9, <2>1, <2>2 DEF CreditedOncePerLife
  <1>13. ASSUME NEW t \in Threads, NEW op \in Ops, NEW p \in Players, NEW r \in Rates, StartIntent(t, op, p, r)
       PROVE  CreditOK'
    <2>1. \A s \in Sids, x \in Seconds : Creditable(s, x)' => Creditable(s, x)
      BY <1>13, <1>1, <1>2, <1>3, <1>4, <1>5, <1>6, <1>7, <1>8, <1>9 DEF StartIntent, Goto, Creditable, Starting, Crediting
    <2>2. credit' = credit /\ restarts' = restarts
      BY <1>13 DEF StartIntent
    <2> QED
      BY <1>1, <1>2, <1>3, <1>4, <1>5, <1>6, <1>7, <1>8, <1>9, <2>1, <2>2 DEF CreditedOncePerLife
  <1>14. ASSUME NEW t \in Threads, NEW op \in Ops, NEW p \in Players, StopIntent(t, op, p)
       PROVE  CreditOK'
    <2>1. \A s \in Sids, x \in Seconds : Creditable(s, x)' => Creditable(s, x)
      BY <1>14, <1>1, <1>2, <1>3, <1>4, <1>5, <1>6, <1>7, <1>8, <1>9 DEF StopIntent, Goto, Creditable, Starting, Crediting
    <2>2. credit' = credit /\ restarts' = restarts
      BY <1>14 DEF StopIntent
    <2> QED
      BY <1>1, <1>2, <1>3, <1>4, <1>5, <1>6, <1>7, <1>8, <1>9, <2>1, <2>2 DEF CreditedOncePerLife
  <1>15. ASSUME NEW t \in Threads, AdvanceBegin(t)
       PROVE  CreditOK'
    <2>1. \A s \in Sids, x \in Seconds : Creditable(s, x)' => Creditable(s, x)
      BY <1>15, <1>1, <1>2, <1>3, <1>4, <1>5, <1>6, <1>7, <1>8, <1>9 DEF AdvanceBegin, LockFree, Goto, Creditable, Starting, Crediting
    <2>2. credit' = credit /\ restarts' = restarts
      BY <1>15 DEF AdvanceBegin, LockFree
    <2> QED
      BY <1>1, <1>2, <1>3, <1>4, <1>5, <1>6, <1>7, <1>8, <1>9, <2>1, <2>2 DEF CreditedOncePerLife
  <1>16. ASSUME NEW t \in Threads, StartPersist(t)
       PROVE  CreditOK'
    <2>1. \A s \in Sids, x \in Seconds : Creditable(s, x)' => Creditable(s, x)
      BY <1>16, <1>1, <1>2, <1>3, <1>4, <1>5, <1>6, <1>7, <1>8, <1>9 DEF StartPersist, Goto, Creditable, Starting, Crediting
    <2>2. credit' = credit /\ restarts' = restarts
      BY <1>16 DEF StartPersist
    <2> QED
      BY <1>1, <1>2, <1>3, <1>4, <1>5, <1>6, <1>7, <1>8, <1>9, <2>1, <2>2 DEF CreditedOncePerLife
  <1>17. ASSUME NEW t \in Threads, StartRegister(t)
       PROVE  CreditOK'
    <2>1. \A s \in Sids, x \in Seconds : Creditable(s, x)' => Creditable(s, x)
      BY <1>17, <1>1, <1>2, <1>3, <1>4, <1>5, <1>6, <1>7, <1>8, <1>9 DEF StartRegister, Goto, Finish, ControlOK, IntentOK, Creditable, Starting, Crediting
    <2>2. credit' = credit /\ restarts' = restarts
      BY <1>17 DEF StartRegister
    <2> QED
      BY <1>1, <1>2, <1>3, <1>4, <1>5, <1>6, <1>7, <1>8, <1>9, <2>1, <2>2 DEF CreditedOncePerLife
  <1>18. ASSUME NEW t \in Threads, StopPersist(t)
       PROVE  CreditOK'
    <2>1. \A s \in Sids, x \in Seconds : Creditable(s, x)' => Creditable(s, x)
      BY <1>18, <1>1, <1>2, <1>3, <1>4, <1>5, <1>6, <1>7, <1>8, <1>9 DEF StopPersist, Goto, Creditable, Starting, Crediting
    <2>2. credit' = credit /\ restarts' = restarts
      BY <1>18 DEF StopPersist
    <2> QED
      BY <1>1, <1>2, <1>3, <1>4, <1>5, <1>6, <1>7, <1>8, <1>9, <2>1, <2>2 DEF CreditedOncePerLife
  <1>19. ASSUME NEW t \in Threads, StopDelete(t)
       PROVE  CreditOK'
    <2>1. \A s \in Sids, x \in Seconds : Creditable(s, x)' => Creditable(s, x)
      BY <1>19, <1>1, <1>2, <1>3, <1>4, <1>5, <1>6, <1>7, <1>8, <1>9 DEF StopDelete, Goto, Finish, Absent, ControlOK, IntentOK, InFlight, Creditable, Starting, Crediting
    <2>2. credit' = credit /\ restarts' = restarts
      BY <1>19 DEF StopDelete
    <2> QED
      BY <1>1, <1>2, <1>3, <1>4, <1>5, <1>6, <1>7, <1>8, <1>9, <2>1, <2>2 DEF CreditedOncePerLife
  <1>20. ASSUME NEW t \in Threads, AdvanceEnd(t)
       PROVE  CreditOK'
    <2>1. \A s \in Sids, x \in Seconds : Creditable(s, x)' => Creditable(s, x)
      BY <1>20, <1>1, <1>2, <1>3, <1>4, <1>5, <1>6, <1>7, <1>8, <1>9 DEF AdvanceEnd, Goto, Finish, LeaveAdvance, Creditable, Starting, Crediting
    <2>2. credit' = credit /\ restarts' = restarts
      BY <1>20 DEF AdvanceEnd
    <2> QED
      BY <1>1, <1>2, <1>3, <1>4, <1>5, <1>6, <1>7, <1>8, <1>9, <2>1, <2>2 DEF CreditedOncePerLife
  <1>21. ASSUME NEW t \in Threads, NEW op \in Ops, TickUnregistered(t, op)
       PROVE  CreditOK'
    <2>1. \A s \in Sids, x \in Seconds : Creditable(s, x)' => Creditable(s, x)
      BY <1>21, <1>1, <1>2, <1>3, <1>4, <1>5, <1>6, <1>7, <1>8, <1>9 DEF TickUnregistered, Goto, Finish, LeaveAdvance, Creditable, Starting, Crediting
    <2>2. credit' = credit /\ restarts' = restarts
      BY <1>21 DEF TickUnregistered
    <2> QED
      BY <1>1, <1>2, <1>3, <1>4, <1>5, <1>6, <1>7, <1>8, <1>9, <2>1, <2>2 DEF CreditedOncePerLife
  <1>22. ASSUME NEW t \in Threads, NEW op \in Ops, TickUpToDate(t, op)
       PROVE  CreditOK'
    <2>1. \A s \in Sids, x \in Seconds : Creditable(s, x)' => Creditable(s, x)
      BY <1>22, <1>1, <1>2, <1>3, <1>4, <1>5, <1>6, <1>7, <1>8, <1>9 DEF TickUpToDate, Creditable, Starting, Crediting
    <2>2. credit' = credit /\ restarts' = restarts
      BY <1>22 DEF TickUpToDate
    <2> QED
      BY <1>1, <1>2, <1>3, <1>4, <1>5, <1>6, <1>7, <1>8, <1>9, <2>1, <2>2 DEF CreditedOncePerLife
  <1>23. ASSUME NEW t \in Threads, NEW op \in Ops, TickRead(t, op)
       PROVE  CreditOK'
    <2>1. \A s \in Sids, x \in Seconds : Creditable(s, x)' => Creditable(s, x)
      BY <1>23, <1>1, <1>2, <1>3, <1>4, <1>5, <1>6, <1>7, <1>8, <1>9 DEF TickRead, Goto, Creditable, Starting, Crediting
    <2>2. credit' = credit /\ restarts' = restarts
      BY <1>23 DEF TickRead
    <2> QED
      BY <1>1, <1>2, <1>3, <1>4, <1>5, <1>6, <1>7, <1>8, <1>9, <2>1, <2>2 DEF CreditedOncePerLife
  <1>24. ASSUME NEW t \in Threads, TickClaim(t)
       PROVE  CreditOK'
    <2>1. ASSUME NEW s \in Sids, NEW x \in Seconds, Creditable(s, x)'
          PROVE  Creditable(s, x)
      <3>1. /\ pc[t] = "claim" /\ tick[t].from \in Nat /\ tick[t].to \in Nat
            /\ tick[t].from <= tick[t].to /\ tick[t].op \in Ops /\ x \in Nat
        BY <1>24, TickFromTo, RuntimeAssumption DEF TickClaim, Seconds
      <3>2. /\ \A u \in Threads : Starting(u)' => Starting(u)
            /\ \A u \in Threads : Crediting(u)' => Crediting(u)
            /\ UNCHANGED <<intent, tick, started, recovered>>
        BY <1>24, <1>1, <1>2, <1>3, <1>4, <1>5, <1>6, <1>7, <1>8, <1>9 DEF TickClaim, Goto, Starting, Crediting
      <3>3. \A op \in Ops : operations'[op].sid = s /\ x >= operations'[op].last =>
              \/ operations[op].sid = s /\ x >= operations[op].last
              \/ tick[t].sid = s /\ x >= tick[t].from
        BY <1>24, <1>1, <1>2, <1>3, <1>4, <1>5, <1>6, <1>7, <1>8, <1>9, <3>1 DEF TickClaim, Registration
      <3>4. Crediting(t)
        BY <3>1 DEF Crediting
      <3> QED
        BY <2>1, <3>2, <3>3, <3>4 DEF Creditable
    <2>2. credit' = credit /\ restarts' = restarts
      BY <1>24 DEF TickClaim
    <2> QED
      BY <1>1, <1>2, <1>3, <1>4, <1>5, <1>6, <1>7, <1>8, <1>9, <2>1, <2>2 DEF CreditedOncePerLife
  <1>25. ASSUME NEW t \in Threads, WorkAdded(t)
       PROVE  CreditOK'
    BY <1>25, AddCredit DEF WorkAdded
  <1>26. ASSUME NEW t \in Threads, NEW w \in RequiredWorks, BlockFinalized(t, w)
       PROVE  CreditOK'
    BY <1>26, AddCredit DEF BlockFinalized
  <1>27. ASSUME NEW t \in Threads, PostPool(t)
       PROVE  CreditOK'
    <2>1. \A s \in Sids, x \in Seconds : Creditable(s, x)' => Creditable(s, x)
      BY <1>27, <1>1, <1>2, <1>3, <1>4, <1>5, <1>6, <1>7, <1>8, <1>9 DEF PostPool, Goto, Creditable, Starting, Crediting
    <2>2. credit' = credit /\ restarts' = restarts
      BY <1>27 DEF PostPool
    <2> QED
      BY <1>1, <1>2, <1>3, <1>4, <1>5, <1>6, <1>7, <1>8, <1>9, <2>1, <2>2 DEF CreditedOncePerLife
  <1>28. ASSUME NEW t \in Threads, PostShares(t)
       PROVE  CreditOK'
    <2>1. \A s \in Sids, x \in Seconds : Creditable(s, x)' => Creditable(s, x)
      BY <1>28, <1>1, <1>2, <1>3, <1>4, <1>5, <1>6, <1>7, <1>8, <1>9 DEF PostShares, Goto, Creditable, Starting, Crediting
    <2>2. credit' = credit /\ restarts' = restarts
      BY <1>28 DEF PostShares
    <2> QED
      BY <1>1, <1>2, <1>3, <1>4, <1>5, <1>6, <1>7, <1>8, <1>9, <2>1, <2>2 DEF CreditedOncePerLife
  <1>29. ASSUME NEW t \in Threads, Announce(t)
       PROVE  CreditOK'
    <2>1. \A s \in Sids, x \in Seconds : Creditable(s, x)' => Creditable(s, x)
      BY <1>29, <1>1, <1>2, <1>3, <1>4, <1>5, <1>6, <1>7, <1>8, <1>9 DEF Announce, Goto, Creditable, Starting, Crediting
    <2>2. credit' = credit /\ restarts' = restarts
      BY <1>29 DEF Announce
    <2> QED
      BY <1>1, <1>2, <1>3, <1>4, <1>5, <1>6, <1>7, <1>8, <1>9, <2>1, <2>2 DEF CreditedOncePerLife
  <1>30. ASSUME NEW t \in Threads, PublishProgress(t)
       PROVE  CreditOK'
    <2>1. \A s \in Sids, x \in Seconds : Creditable(s, x)' => Creditable(s, x)
      BY <1>30, <1>1, <1>2, <1>3, <1>4, <1>5, <1>6, <1>7, <1>8, <1>9 DEF PublishProgress, Goto, Creditable, Starting, Crediting
    <2>2. credit' = credit /\ restarts' = restarts
      BY <1>30 DEF PublishProgress
    <2> QED
      BY <1>1, <1>2, <1>3, <1>4, <1>5, <1>6, <1>7, <1>8, <1>9, <2>1, <2>2 DEF CreditedOncePerLife
  <1>31. ASSUME NEW t \in Threads, PersistFails(t)
       PROVE  CreditOK'
    <2>1. \A s \in Sids, x \in Seconds : Creditable(s, x)' => Creditable(s, x)
      BY <1>31, <1>1, <1>2, <1>3, <1>4, <1>5, <1>6, <1>7, <1>8, <1>9 DEF PersistFails, Goto, Finish, Creditable, Starting, Crediting
    <2>2. credit' = credit /\ restarts' = restarts
      BY <1>31 DEF PersistFails
    <2> QED
      BY <1>1, <1>2, <1>3, <1>4, <1>5, <1>6, <1>7, <1>8, <1>9, <2>1, <2>2 DEF CreditedOncePerLife
  <1>32. ASSUME NEW t \in Threads, TickFails(t)
       PROVE  CreditOK'
    <2>1. \A s \in Sids, x \in Seconds : Creditable(s, x)' => Creditable(s, x)
      BY <1>32, <1>1, <1>2, <1>3, <1>4, <1>5, <1>6, <1>7, <1>8, <1>9 DEF TickFails, CallsDatabase, Goto, Finish, LeaveAdvance, Creditable, Starting, Crediting
    <2>2. credit' = credit /\ restarts' = restarts
      BY <1>32 DEF TickFails, CallsDatabase
    <2> QED
      BY <1>1, <1>2, <1>3, <1>4, <1>5, <1>6, <1>7, <1>8, <1>9, <2>1, <2>2 DEF CreditedOncePerLife
  <1>33. CASE UNCHANGED vars
    BY <1>33 DEF vars, CreditedOncePerLife, Creditable, Starting, Crediting
  <1> QED
    BY <1>10, <1>11, <1>12, <1>13, <1>14, <1>15, <1>16, <1>17, <1>18, <1>19, <1>20, <1>21,
       <1>22, <1>23, <1>24, <1>25, <1>26, <1>27, <1>28, <1>29, <1>30, <1>31, <1>32, <1>33 DEF Next, Request, IntentStep, TickStep, Fault

\* Every step keeps the settlement of the last finalized block in order.
LEMMA SettleStep ==
  ASSUME TypeOK, ControlOK, SettleOK, [Next]_vars
  PROVE  SettleOK'
PROOF
  <1> USE DEF SettleOK, Settling, memory, locals, database, bounds, history
  <1>1. pc \in [Threads -> {"idle"} \cup InFlight \cup Ticking]
    BY DEF TypeOK
  <1>2. \A u, v \in Threads : pc[u] \in Ticking /\ pc[v] \in Ticking => u = v
    BY DEF ControlOK, LockOK
  <1>3. settle \in [Threads -> [block : Nat, shares : Work]]
    BY DEF TypeOK
  <1>4. /\ finalized \in Seq([number : Nat, required : Nat, total : Nat])
        /\ ledger \in Seq([kind : {"pool", "shares"}, block : Nat, shares : Work])
    BY DEF TypeOK
  <1>5. CASE Clock
    BY <1>5, <1>1, <1>2, <1>3, <1>4 DEF Clock
  <1>6. CASE Crash
    BY <1>6, <1>1, <1>2, <1>3, <1>4 DEF Crash
  <1>7. CASE Recover
    BY <1>7, <1>1, <1>2, <1>3, <1>4 DEF Recover
  <1>8. ASSUME NEW t \in Threads, NEW op \in Ops, NEW p \in Players, NEW r \in Rates, StartIntent(t, op, p, r)
       PROVE  SettleOK'
    BY <1>8, <1>1, <1>2, <1>3, <1>4 DEF StartIntent, Goto
  <1>9. ASSUME NEW t \in Threads, NEW op \in Ops, NEW p \in Players, StopIntent(t, op, p)
       PROVE  SettleOK'
    BY <1>9, <1>1, <1>2, <1>3, <1>4 DEF StopIntent, Goto
  <1>10. ASSUME NEW t \in Threads, AdvanceBegin(t)
       PROVE  SettleOK'
    BY <1>10, <1>1, <1>2, <1>3, <1>4 DEF AdvanceBegin, LockFree, Goto
  <1>11. ASSUME NEW t \in Threads, StartPersist(t)
       PROVE  SettleOK'
    BY <1>11, <1>1, <1>2, <1>3, <1>4 DEF StartPersist, Goto
  <1>12. ASSUME NEW t \in Threads, StartRegister(t)
       PROVE  SettleOK'
    BY <1>12, <1>1, <1>2, <1>3, <1>4 DEF StartRegister, Goto, Finish
  <1>13. ASSUME NEW t \in Threads, StopPersist(t)
       PROVE  SettleOK'
    BY <1>13, <1>1, <1>2, <1>3, <1>4 DEF StopPersist, Goto
  <1>14. ASSUME NEW t \in Threads, StopDelete(t)
       PROVE  SettleOK'
    BY <1>14, <1>1, <1>2, <1>3, <1>4 DEF StopDelete, Goto, Finish
  <1>15. ASSUME NEW t \in Threads, AdvanceEnd(t)
       PROVE  SettleOK'
    BY <1>15, <1>1, <1>2, <1>3, <1>4 DEF AdvanceEnd, Goto, Finish, LeaveAdvance
  <1>16. ASSUME NEW t \in Threads, NEW op \in Ops, TickUnregistered(t, op)
       PROVE  SettleOK'
    BY <1>16, <1>1, <1>2, <1>3, <1>4 DEF TickUnregistered, Goto, Finish, LeaveAdvance
  <1>17. ASSUME NEW t \in Threads, NEW op \in Ops, TickUpToDate(t, op)
       PROVE  SettleOK'
    BY <1>17, <1>1, <1>2, <1>3, <1>4 DEF TickUpToDate
  <1>18. ASSUME NEW t \in Threads, NEW op \in Ops, TickRead(t, op)
       PROVE  SettleOK'
    BY <1>18, <1>1, <1>2, <1>3, <1>4 DEF TickRead, Goto
  <1>19. ASSUME NEW t \in Threads, TickClaim(t)
       PROVE  SettleOK'
    BY <1>19, <1>1, <1>2, <1>3, <1>4 DEF TickClaim, Goto
  <1>20. ASSUME NEW t \in Threads, WorkAdded(t)
       PROVE  SettleOK'
    BY <1>20, <1>1, <1>2, <1>3, <1>4 DEF WorkAdded, Goto, Ticking
  <1>21. ASSUME NEW t \in Threads, NEW w \in RequiredWorks, BlockFinalized(t, w)
       PROVE  SettleOK'
    <2>1. /\ Len(finalized') = Len(finalized) + 1 /\ Len(finalized) \in Nat
          /\ ledger' = ledger /\ announced' = announced
      BY <1>21, <1>1, <1>2, <1>3, <1>4 DEF BlockFinalized
    <2>2. active.number = Len(finalized) + 1
      BY DEF SettleOK
    <2>3. /\ pc'[t] = "post_pool" /\ settle'[t].block = Len(finalized) + 1
          /\ \A u \in Threads \ {t} : ~(pc'[u] \in {"post_pool", "post_shares", "announce"})
      BY <1>21, <1>1, <1>2, <1>3, <1>4, <2>2 DEF BlockFinalized, Goto, Ticking
    <2>4. \A n \in 1..Len(finalized) : n \in 1..Len(finalized') /\ n # Len(finalized) + 1
      BY <2>1
    <2>5. active'.number = Len(finalized') + 1
      BY <1>21, <2>1, <2>2 DEF BlockFinalized
    <2>6. Len(finalized) + 1 \in 1..Len(finalized') /\ Len(finalized') = Len(finalized) + 1
      BY <2>1
    <2>7. /\ \A i \in DOMAIN ledger : ledger[i].block \in 1..Len(finalized)
          /\ announced \subseteq 1..Len(finalized)
      BY DEF SettleOK
    <2> QED
      BY <2>1, <2>3, <2>4, <2>5, <2>6, <2>7
  <1>22. ASSUME NEW t \in Threads, PostPool(t)
       PROVE  SettleOK'
    <2> DEFINE e == [kind |-> "pool", block |-> settle[t].block,
                     shares |-> NoWork]
    <2>1. ledger' = Append(ledger, e)
      BY <1>22 DEF PostPool, Post
    <2>2. e.kind = "pool" /\ e.block = settle[t].block
      OBVIOUS
    <2> HIDE DEF e
    <2>3. /\ DOMAIN ledger' = DOMAIN ledger \cup {Len(ledger) + 1}
          /\ Len(ledger) + 1 \notin DOMAIN ledger
          /\ \A i \in DOMAIN ledger : ledger'[i] = ledger[i]
          /\ ledger'[Len(ledger) + 1] = e
      BY <2>1, <1>1, <1>2, <1>3, <1>4
    <2>4. /\ pc[t] = "post_pool" /\ pc'[t] \in {"announce", "post_shares"}
          /\ \A u \in Threads \ {t} : ~Settling(u) /\ pc'[u] = pc[u]
          /\ UNCHANGED <<settle, finalized, announced, active>>
      BY <1>22, <1>1, <1>2, <1>3, <1>4 DEF PostPool, Goto, Ticking
    <2>5. /\ active.number = Len(finalized) + 1
          /\ settle[t].block = Len(finalized) /\ settle[t].block \in 1..Len(finalized)
          /\ settle[t].block \notin announced /\ announced \subseteq 1..Len(finalized)
      BY <2>4
    <2>6. \A i \in DOMAIN ledger' : ledger'[i].block \in 1..Len(finalized)
      BY <2>2, <2>3, <2>5
    <2>7. \A u \in Threads : pc'[u] \in {"post_pool", "post_shares", "announce"} => u = t
      BY <2>4
    <2>8. \E i \in DOMAIN ledger' : ledger'[i].kind = "pool" /\ ledger'[i].block = settle[t].block
      BY <2>2, <2>3, <2>4
    <2>9. pc'[t] = "post_shares" =>
            \A i \in DOMAIN ledger' : ledger'[i].kind = "shares" => ledger'[i].block # settle[t].block
      BY <2>2, <2>3, <2>4
    <2> QED
      BY <2>4, <2>5, <2>6, <2>7, <2>8, <2>9
  <1>23. ASSUME NEW t \in Threads, PostShares(t)
       PROVE  SettleOK'
    <2> DEFINE e == [kind |-> "shares", block |-> settle[t].block,
                     shares |-> settle[t].shares]
    <2>1. ledger' = Append(ledger, e)
      BY <1>23 DEF PostShares, Post
    <2>2. e.kind = "shares" /\ e.block = settle[t].block
      OBVIOUS
    <2> HIDE DEF e
    <2>3. /\ DOMAIN ledger' = DOMAIN ledger \cup {Len(ledger) + 1}
          /\ Len(ledger) + 1 \notin DOMAIN ledger
          /\ \A i \in DOMAIN ledger : ledger'[i] = ledger[i]
          /\ ledger'[Len(ledger) + 1] = e
      BY <2>1, <1>1, <1>2, <1>3, <1>4
    <2>4. /\ pc[t] = "post_shares" /\ pc'[t] \in {"announce"}
          /\ \A u \in Threads \ {t} : ~Settling(u) /\ pc'[u] = pc[u]
          /\ UNCHANGED <<settle, finalized, announced, active>>
      BY <1>23, <1>1, <1>2, <1>3, <1>4 DEF PostShares, Goto, Ticking
    <2>5. /\ active.number = Len(finalized) + 1
          /\ settle[t].block = Len(finalized) /\ settle[t].block \in 1..Len(finalized)
          /\ settle[t].block \notin announced /\ announced \subseteq 1..Len(finalized)
      BY <2>4
    <2>6. \A i \in DOMAIN ledger' : ledger'[i].block \in 1..Len(finalized)
      BY <2>2, <2>3, <2>5
    <2>7. \A u \in Threads : pc'[u] \in {"post_pool", "post_shares", "announce"} => u = t
      BY <2>4
    <2>8. \E i \in DOMAIN ledger' : ledger'[i].kind = "pool" /\ ledger'[i].block = settle[t].block
      BY <2>2, <2>3, <2>4
    <2>9. pc'[t] = "post_shares" =>
            \A i \in DOMAIN ledger' : ledger'[i].kind = "shares" => ledger'[i].block # settle[t].block
      BY <2>2, <2>3, <2>4
    <2> QED
      BY <2>4, <2>5, <2>6, <2>7, <2>8, <2>9
  <1>24. ASSUME NEW t \in Threads, Announce(t)
       PROVE  SettleOK'
    BY <1>24, <1>1, <1>2, <1>3, <1>4 DEF Announce, Goto, Ticking
  <1>25. ASSUME NEW t \in Threads, PublishProgress(t)
       PROVE  SettleOK'
    BY <1>25, <1>1, <1>2, <1>3, <1>4 DEF PublishProgress, Goto
  <1>26. ASSUME NEW t \in Threads, PersistFails(t)
       PROVE  SettleOK'
    BY <1>26, <1>1, <1>2, <1>3, <1>4 DEF PersistFails, Goto, Finish
  <1>27. ASSUME NEW t \in Threads, TickFails(t)
       PROVE  SettleOK'
    BY <1>27, <1>1, <1>2, <1>3, <1>4 DEF TickFails, CallsDatabase, Goto, Finish, LeaveAdvance
  <1>28. CASE UNCHANGED vars
    BY <1>28 DEF vars
  <1> QED
    BY <1>5, <1>6, <1>7, <1>8, <1>9, <1>10, <1>11, <1>12, <1>13, <1>14, <1>15, <1>16,
       <1>17, <1>18, <1>19, <1>20, <1>21, <1>22, <1>23, <1>24, <1>25, <1>26, <1>27, <1>28 DEF Next, Request, IntentStep, TickStep, Fault

-----------------------------------------------------------------------------
\* The initial states satisfy the inductive invariant.
LEMMA InitInvariant == Init => IInv
PROOF
  <1> SUFFICES ASSUME Init
               PROVE  IInv
    OBVIOUS
  <1> USE RuntimeAssumption DEF Init, NoIntent, NoTick, NoSettle, NoWork, Absent, InFlight, Ticking
  <1>1. TypeOK
    BY DEF TypeOK, Registration, Work, IntentType, TickType, EventType, Times, Seconds, Sids
  <1>2. ControlOK
    BY DEF ControlOK, LockOK, IntentOK, TickOK, RunOK, QuietOK, Starting, InTick, Crediting,
           Settling, Registered
  <1>3. SidOK
    BY DEF SidOK, EventSidOK, IntentSidOK, HolderSidOK, Starting
  <1>4. ClaimOK
    BY DEF ClaimOK, Crediting
  <1>5. CreditOK
    BY DEF CreditOK, CreditedOncePerLife, Sids, Seconds
  <1>6. SettleOK
    BY DEF SettleOK, Settling
  <1> QED
    BY <1>1, <1>2, <1>3, <1>4, <1>5, <1>6 DEF IInv

\* It is kept by every step.
LEMMA StepInvariant ==
  ASSUME IInv, [Next]_vars
  PROVE  IInv'
  BY TypeStep, ControlStep, SidStep, ClaimStep, CreditStep, SettleStep DEF IInv

\* Every behaviour of the runtime satisfies the inductive invariant.
THEOREM Invariant == Spec => []IInv
  BY InitInvariant, StepInvariant, PTL DEF Spec

\* The variables keep their types, whatever crashes, fails or races.
THEOREM TypeCorrect == Spec => []TypeOK
PROOF
  <1>1. IInv => TypeOK
    BY DEF IInv
  <1> QED
    BY <1>1, Invariant, PTL

\* In one life of the process no second of a run is credited twice: the runtime
\* lock, and the claim of the window before its work is added, see to it.
THEOREM CreditedOnce == Spec => []CreditedOncePerLife
PROOF
  <1>1. IInv => CreditedOncePerLife
    BY DEF IInv, CreditOK
  <1> QED
    BY <1>1, Invariant, PTL

-----------------------------------------------------------------------------
(* The runtime implements BlockSettlement.                                 *)

Entries == [i \in DOMAIN ledger |-> [kind |-> ledger[i].kind, block |-> ledger[i].block]]

\* An entry appended to the ledger is appended to what BlockSettlement sees.
LEMMA EntriesAppend ==
  ASSUME NEW E, ledger \in Seq(E), NEW e \in E, ledger' = Append(ledger, e)
  PROVE  Entries' = Append(Entries, [kind |-> e.kind, block |-> e.block])
PROOF
  <1> DEFINE x == [kind |-> e.kind, block |-> e.block]
             R == [kind : {f.kind : f \in E}, block : {f.block : f \in E}]
  <1>1. /\ ledger' \in Seq(E) /\ Len(ledger') = Len(ledger) + 1
        /\ \A i \in 1..Len(ledger) : ledger'[i] = ledger[i]
        /\ ledger'[Len(ledger) + 1] = e
        /\ DOMAIN ledger' = 1..(Len(ledger) + 1) /\ DOMAIN ledger = 1..Len(ledger)
        /\ Len(ledger) \in Nat
    OBVIOUS
  <1>2. Entries \in Seq(R) /\ Len(Entries) = Len(ledger)
    BY <1>1 DEF Entries
  <1>3. Append(Entries, x) = [i \in 1..(Len(ledger) + 1) |->
                                IF i = Len(ledger) + 1 THEN x ELSE Entries[i]]
    BY <1>2
  <1>4. Entries' = [i \in 1..(Len(ledger) + 1) |->
                      [kind |-> ledger'[i].kind, block |-> ledger'[i].block]]
    BY <1>1 DEF Entries
  <1> QED
    BY <1>1, <1>3, <1>4 DEF Entries

\* Every step of the runtime is a step of BlockSettlement or changes nothing it sees.
LEMMA SettlementStep ==
  ASSUME IInv, [Next]_vars
  PROVE  [Settlement!Next]_(Settlement!vars)
PROOF
  <1> DEFINE Seen == Len(finalized') = Len(finalized) /\ Entries' = Entries /\ announced' = announced
             E == [kind : {"pool", "shares"}, block : Nat, shares : Work]
  <1>1. /\ SettleOK /\ ledger \in Seq(E) /\ settle \in [Threads -> [block : Nat, shares : Work]]
        /\ finalized \in Seq([number : Nat, required : Nat, total : Nat])
    BY DEF IInv, TypeOK
  <1>2. SUFFICES Settlement!Next \/ Seen
    BY DEF Settlement!vars, Entries
  <1>3. ASSUME UNCHANGED <<finalized, ledger, announced>>
        PROVE  Seen
    BY <1>3 DEF Entries
  <1>4. ASSUME NEW t \in Threads, NEW w \in RequiredWorks, BlockFinalized(t, w)
        PROVE  Settlement!Finalize
    <2>1. Len(finalized') = Len(finalized) + 1
      BY <1>1, <1>4 DEF BlockFinalized
    <2>2. Entries' = Entries /\ announced' = announced
      BY <1>4 DEF BlockFinalized, Entries
    <2> QED
      BY <2>1, <2>2 DEF Settlement!Finalize, Entries
  <1>5. ASSUME NEW t \in Threads, PostPool(t)
        PROVE  \E b \in 1..Len(finalized) : Settlement!PostPool(b)
    <2> DEFINE b == settle[t].block
               e == [kind |-> "pool", block |-> b, shares |-> NoWork]
    <2>1. b \in 1..Len(finalized) /\ \A i \in DOMAIN ledger : ledger[i].block # b
      BY <1>1, <1>5 DEF PostPool, SettleOK, Settling
    <2>2. e \in E /\ ledger' = Append(ledger, e)
      BY <1>1, <1>5 DEF PostPool, Post, NoWork, Work
    <2>3. Entries' = Append(Entries, [kind |-> e.kind, block |-> e.block])
      <3> HIDE DEF E, e
      <3> QED
        BY <1>1, <2>2, EntriesAppend
    <2>4. UNCHANGED <<finalized, announced>>
      BY <1>5 DEF PostPool
    <2>5. ~Settlement!Has("pool", b)
      BY <2>1 DEF Settlement!Has
    <2> QED
      BY <2>1, <2>3, <2>4, <2>5 DEF Settlement!PostPool, Entries
  <1>6. ASSUME NEW t \in Threads, PostShares(t)
        PROVE  \E b \in 1..Len(finalized) : Settlement!PostShares(b)
    <2> DEFINE b == settle[t].block
               e == [kind |-> "shares", block |-> b, shares |-> settle[t].shares]
    <2>1. /\ b \in 1..Len(finalized)
          /\ \A i \in DOMAIN ledger : ledger[i].kind = "shares" => ledger[i].block # b
          /\ \E i \in DOMAIN ledger : ledger[i].kind = "pool" /\ ledger[i].block = b
      BY <1>1, <1>6 DEF PostShares, SettleOK, Settling
    <2>2. e \in E /\ ledger' = Append(ledger, e)
      BY <1>1, <1>6 DEF PostShares, Post
    <2>3. Entries' = Append(Entries, [kind |-> e.kind, block |-> e.block])
      <3> HIDE DEF E, e
      <3> QED
        BY <1>1, <2>2, EntriesAppend
    <2>4. UNCHANGED <<finalized, announced>>
      BY <1>6 DEF PostShares
    <2>5. Settlement!Has("pool", b) /\ ~Settlement!Has("shares", b)
      BY <2>1 DEF Settlement!Has
    <2> QED
      BY <2>1, <2>3, <2>4, <2>5 DEF Settlement!PostShares, Entries
  <1>7. ASSUME NEW t \in Threads, Announce(t)
        PROVE  \E b \in 1..Len(finalized) : Settlement!Announce(b)
    <2> DEFINE b == settle[t].block
    <2>1. /\ b \in 1..Len(finalized) /\ b \notin announced
          /\ \E i \in DOMAIN ledger : ledger[i].kind = "pool" /\ ledger[i].block = b
      BY <1>1, <1>7 DEF Announce, SettleOK, Settling
    <2>2. UNCHANGED <<finalized, ledger>> /\ announced' = announced \cup {b}
      BY <1>7 DEF Announce
    <2>3. Settlement!Has("pool", b)
      BY <2>1 DEF Settlement!Has
    <2>4. Entries' = Entries
      BY <2>2 DEF Entries
    <2> QED
      BY <2>1, <2>2, <2>3, <2>4 DEF Settlement!Announce, Entries
  <1>8. CASE Clock \/ Crash \/ Recover
    BY <1>3, <1>8 DEF Clock, Crash, Recover, database
  <1>9. ASSUME NEW t \in Threads, Request(t) \/ IntentStep(t) \/ Fault(t)
        PROVE  Seen
    BY <1>3, <1>9 DEF Request, IntentStep, Fault, StartIntent, StopIntent, AdvanceBegin, StartPersist,
         StartRegister, StopPersist, StopDelete, PersistFails, TickFails, database
  <1>10. ASSUME NEW t \in Threads, TickStep(t)
         PROVE  Settlement!Next \/ Seen
    BY <1>3, <1>4, <1>5, <1>6, <1>7, <1>10 DEF TickStep, AdvanceEnd, TickUnregistered, TickUpToDate,
         TickRead, TickClaim, WorkAdded, PublishProgress, database, Settlement!Next
  <1>11. CASE UNCHANGED vars
    BY <1>3, <1>11 DEF vars, database
  <1> QED
    BY <1>8, <1>9, <1>10, <1>11 DEF Next

\* The runtime implements BlockSettlement: every finalized block is entered in
\* the ledger at most once, pool before shares, and announced once and after.
THEOREM RuntimeSettlesBlocks == Spec => SettlesBlocks
PROOF
  <1>1. Init => Settlement!Init
    BY DEF Init, Settlement!Init
  <1>2. IInv /\ [Next]_vars => [Settlement!Next]_(Settlement!vars)
    BY SettlementStep
  <1> QED
    BY <1>1, <1>2, Invariant, PTL DEF Spec, SettlesBlocks, Settlement!Spec
=============================================================================
