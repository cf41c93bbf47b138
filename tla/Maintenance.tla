------------------------------ MODULE Maintenance ------------------------------
(* The cleanup worker (workers/app/worker.py) and the endpoint it calls       *)
(* (server/api/v1/blockchain.py): a rate limit in the database or in the      *)
(* server's memory, which other callers use up as well, and the worker's      *)
(* back-off.  What a cleanup deletes is part of NetworkStream.                *)
EXTENDS Integers, Functions

CONSTANTS Window, MaxRequests,  \* the rate limit, its window in seconds
          Interval, BackoffMax, \* seconds between cleanups, and at most after failures
          MaxFailures,          \* bound: consecutive failures that differ
          MaxElapsed,           \* bound: whole seconds a call takes
          Lags                  \* half seconds by which a call's clock may be behind at its turn

\* The endpoint takes settings below 1 as 1, the worker those below 30 seconds as 30.
MaintenanceAssumption ==
  /\ {Window, MaxRequests, Interval, BackoffMax} \subseteq Nat \ {0} /\ MaxFailures \in Nat
  /\ Lags \subseteq Nat /\ \E l \in Lags : \A k \in Lags : k <= l

\* Ages are in half seconds.
VARIABLES persisted,  \* which of the limits is configured
          limiter,    \* the row: [age: since window_started_at, count]
          stamps,     \* _cleanup_request_timestamps: age -> how many
          worker,     \* [step, rest: half seconds to sleep, failures]
          granted     \* not program state: age -> requests let through (by this life of a
                      \* server that counts in memory)

vars == <<persisted, limiter, stamps, worker, granted>>

Lag == CHOOSE l \in Lags : \A k \in Lags : k <= l
Oldest == 2 * Window - 1 + Lag  \* ages beyond are not told apart
Ages == 0 .. Oldest
NoStamps == [a \in Ages |-> 0]

Recent(f) == SumFunctionOnSet(f, Ages)

\* The first call makes the row and counts itself, as the first of a window does.
Init ==
  /\ persisted \in BOOLEAN
  /\ limiter = [age |-> Oldest, count |-> 0]
  /\ stamps = NoStamps
  /\ worker = [step |-> "calling", rest |-> 0, failures |-> 0]
  /\ granted = NoStamps

Least(m, n) == IF m < n THEN m ELSE n

\* NOW() is the time the transaction began, which may be before it got the row; the cast
\* to INT rounds the seconds, so a window is over half a second early.
WindowOver(lag) == (limiter.age - lag + 1) \div 2 >= Window

\* Mutant: one request more than the limit.
PersistedGrantOneMore(lag) ==
  /\ WindowOver(lag) \/ limiter.count <= MaxRequests
  /\ limiter' = IF WindowOver(lag) THEN [age |-> lag, count |-> 1] ELSE [limiter EXCEPT !.count = @ + 1]
  /\ UNCHANGED stamps

\* _enforce_persisted_cleanup_rate_limit
PersistedGrant(lag) ==
  /\ WindowOver(lag) \/ limiter.count < MaxRequests
  /\ limiter' = IF WindowOver(lag) THEN [age |-> lag, count |-> 1] ELSE [limiter EXCEPT !.count = @ + 1]
  /\ UNCHANGED stamps

\* monotonic() is read before the lock is taken.
Unexpired(lag) == [a \in Ages |-> IF a - lag < 2 * Window THEN stamps[a] ELSE 0]

MemoryGrant(lag) ==
  /\ Recent(Unexpired(lag)) < MaxRequests
  /\ stamps' = [Unexpired(lag) EXCEPT ![lag] = @ + 1]
  /\ UNCHANGED limiter

\* A request is let through, whether its token is good is looked at only later.
LetThrough(lag) ==
  /\ IF persisted THEN PersistedGrant(lag) ELSE MemoryGrant(lag)
  /\ granted' = [granted EXCEPT ![0] = @ + 1]

Refused(lag) ==
  /\ IF persisted THEN ~WindowOver(lag) /\ limiter.count >= MaxRequests /\ UNCHANGED stamps
                  ELSE Recent(Unexpired(lag)) >= MaxRequests /\ stamps' = Unexpired(lag)
  /\ UNCHANGED <<limiter, granted>>

\* Administrators, and callers without a token.
OthersCall(lag) == (LetThrough(lag) \/ Refused(lag)) /\ UNCHANGED <<persisted, worker>>

Backoff(failures) == Least(BackoffMax, Interval * 2 ^ (failures - 1))

\* Mutant: the time the call took may exceed the time to sleep.
SleepLeft(elapsed, failures) ==
  (IF failures = 0 THEN Interval ELSE Backoff(failures)) - elapsed

SleepSeconds(elapsed, failures) ==
  LET rest == (IF failures = 0 THEN Interval ELSE Backoff(failures)) - elapsed IN
  IF rest < 1 THEN 1 ELSE rest

Sleeps(elapsed, failures) ==
  worker' = [step |-> "sleeping", rest |-> 2 * SleepSeconds(elapsed, failures), failures |-> failures]

Failed == Least(worker.failures + 1, MaxFailures)

WorkerSucceeds(elapsed, lag) ==
  /\ worker.step = "calling"
  /\ LetThrough(lag)
  /\ Sleeps(elapsed, 0)
  /\ UNCHANGED persisted

\* Refused, unreachable, or served without the answer coming back.
WorkerFails(elapsed, lag) ==
  /\ worker.step = "calling"
  /\ Refused(lag) \/ LetThrough(lag) \/ UNCHANGED <<limiter, stamps, granted>>
  /\ Sleeps(elapsed, Failed)
  /\ UNCHANGED persisted

\* A connection error outside the tuple of the except clause ends the worker.
WorkerDies ==
  /\ worker.step = "calling"
  /\ worker' = [worker EXCEPT !.step = "dead"]
  /\ UNCHANGED <<persisted, limiter, stamps, granted>>

WorkerWakes ==
  /\ worker.step = "sleeping"
  /\ worker.rest = 0
  /\ worker' = [worker EXCEPT !.step = "calling"]
  /\ UNCHANGED <<persisted, limiter, stamps, granted>>

Older(f) == [a \in Ages |-> IF a = 0 THEN 0 ELSE f[a - 1]]

HalfSecond ==
  /\ limiter' = [limiter EXCEPT !.age = Least(@ + 1, Oldest)]
  /\ stamps' = Older(stamps)
  /\ granted' = Older(granted)
  /\ worker' = [worker EXCEPT !.rest = IF @ > 0 THEN @ - 1 ELSE @]
  /\ UNCHANGED persisted

ServerRestarts ==
  /\ stamps' = NoStamps
  /\ granted' = IF persisted THEN granted ELSE NoStamps
  /\ UNCHANGED <<persisted, limiter, worker>>

WorkerCalls ==
  \/ WorkerDies
  \/ \E elapsed \in 0 .. MaxElapsed, lag \in Lags : WorkerSucceeds(elapsed, lag) \/ WorkerFails(elapsed, lag)

Next ==
  \/ \E lag \in Lags : OthersCall(lag)
  \/ WorkerCalls \/ WorkerWakes \/ HalfSecond \/ ServerRestarts

\* Time passes, and the worker's loop goes on.
Spec == Init /\ [][Next]_vars /\ WF_vars(HalfSecond) /\ WF_vars(WorkerWakes \/ WorkerCalls)

TypeOK ==
  /\ persisted \in BOOLEAN
  /\ limiter.age \in 0 .. Oldest /\ limiter.count \in 0 .. MaxRequests
  /\ \A a \in Ages : {stamps[a], granted[a]} \subseteq Nat
  /\ worker.step \in {"calling", "sleeping", "dead"}
  /\ worker.rest \in 0 .. 2 * (Interval + BackoffMax) /\ worker.failures \in 0 .. MaxFailures

\* What of f is younger than n half seconds.
Latest(f, n) == [a \in Ages |-> IF a < n THEN f[a] ELSE 0]

\* In no stretch that is shorter than the window by half a second and the longest wait are
\* more cleanups let through than two windows take, less the one that opened the first of them,
\* and none more than the limit itself by a server that counts in memory (blockchain.py:263-316,
\* 668-684).
CleanupsAreLimited ==
  Recent(Latest(granted, 2 * Window - 1 - Lag)) <= IF persisted THEN 2 * MaxRequests - 1 ELSE MaxRequests

\* Whatever failed, the worker asks for the next cleanup, unless it died (worker.py:149-201).
WorkerComesBack == worker.step = "sleeping" ~> worker.step # "sleeping"

=============================================================================
