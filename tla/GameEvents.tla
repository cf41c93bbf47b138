------------------------------ MODULE GameEvents ------------------------------
(* EventService (server/domain/events/service.py) over game_events,          *)
(* fork_event_branches, event_leaderboard, event_rewards and                 *)
(* event_balance_snapshots, with the worker of workers/event_processor.py    *)
(* that resolves forks whose end has passed.  A resolution and a             *)
(* cancellation read in one statement and write in later ones, and neither   *)
(* looks at the status of the event.                                         *)
EXTENDS Integers, FiniteSets, Sequences, SequencesExt

CONSTANTS Events,       \* event ids, every one a fork
          EndOrder,     \* the events as a sequence, the first to end first
          Branches,     \* <<first, second>>: branch names in order, the least first
          Players,      \* players as a sequence, the least id first
          Handlers,     \* handlers of resolve and cancel calls
          Worker,       \* the event processor, which resolves too
          MaxWork,      \* event -> bound: the work a branch of it may gather
          MaxBalance,   \* bound: the ledger sum up to which players earn and events are cancelled
          TopRanks,     \* placements that earn a reward (10 in the code)
          None

Actors == Handlers \cup {Worker}
PlayerSet == Range(Players)
BranchSet == Range(Branches)

EventsAssumption ==
  /\ Worker \notin Handlers /\ None \notin Events \cup Int
  /\ DOMAIN Branches = {1, 2}

VARIABLES event,     \* event -> [status, ended, winner]
          branch,    \* event -> branch name -> work, or None until it is created
          score,     \* event -> player -> event_contribution_score, or None
          rewards,   \* event -> player -> reward rows: none, one, or several (2)
          snapshot,  \* event -> player -> balance_before, or None
          balance,   \* player -> sum of the ledger entries in credits, or None without one
          call,      \* actor -> the call it serves
          queue,     \* the expired forks the worker has still to resolve, as a set
          resolved,  \* those it resolved in this round
          announced  \* events with an event_resolved message

vars == <<event, branch, score, rewards, snapshot, balance, call, queue, resolved, announced>>
world == <<event, branch, score, rewards, snapshot, balance>>
round == <<queue, resolved, announced>>

\* Not program state: "late" (work recorded since the call read), "moved" (players whose
\* ledger was written since) and "meddled" (a handler resolved or cancelled the event, or
\* activated it again).
Idle == [step |-> "idle", event |-> None, winner |-> None,
         delta |-> [p \in PlayerSet |-> 0], late |-> FALSE, moved |-> {}]

Init ==
  /\ event = [e \in Events |-> [status |-> "scheduled", ended |-> FALSE, winner |-> None, meddled |-> FALSE]]
  /\ branch = [e \in Events |-> [b \in BranchSet |-> None]]
  /\ score = [e \in Events |-> [p \in PlayerSet |-> None]]
  /\ rewards = [e \in Events |-> [p \in PlayerSet |-> 0]]
  /\ snapshot = [e \in Events |-> [p \in PlayerSet |-> None]]
  /\ balance = [p \in PlayerSet |-> None]
  /\ call = [a \in Actors |-> Idle]
  /\ queue = {}
  /\ resolved = {}
  /\ announced = {}

Created(e) == {b \in BranchSet : branch[e][b] # None}

\* ORDER BY accumulated_work DESC, branch_name ASC
Leader(e) ==
  CHOOSE b \in Created(e) : \A c \in Created(e) \ {b} :
    \/ branch[e][b] > branch[e][c]
    \/ branch[e][b] = branch[e][c] /\ b = Branches[1]

Contributors(e) == {p \in PlayerSet : score[e][p] # None}

Before(e, p, q) ==
  \/ score[e][p] > score[e][q]
  \/ score[e][p] = score[e][q] /\ IndexFirstSubSeq(<<p>>, Players) < IndexFirstSubSeq(<<q>>, Players)

ComputedRank(e, p) == 1 + Cardinality({q \in Contributors(e) \ {p} : Before(e, q, p)})

Moved(calls, ps) ==
  [a \in Actors |-> IF calls[a].step = "idle" THEN calls[a] ELSE [calls[a] EXCEPT !.moved = @ \cup ps]]

Credits(p) == IF balance[p] = None THEN 0 ELSE balance[p]

\* Only players with ledger entries are grouped; a snapshot taken before stays.
ActivateEvent(e) ==
  /\ event' = [event EXCEPT ![e].status = "active", ![e].meddled = @ \/ event[e].status # "scheduled"]
  /\ snapshot' = [snapshot EXCEPT ![e] = [p \in PlayerSet |-> IF @[p] = None THEN balance[p] ELSE @[p]]]
  /\ UNCHANGED <<branch, score, rewards, balance, call, round>>

CreateBranch(e, b) ==
  /\ branch[e][b] = None
  /\ branch' = [branch EXCEPT ![e][b] = 0]
  /\ UNCHANGED <<event, score, rewards, snapshot, balance, call, round>>

RecordBranchContribution(e, b, p) ==
  /\ branch[e][b] # None
  /\ branch[e][b] < MaxWork[e]
  /\ branch' = [branch EXCEPT ![e][b] = @ + 1]
  /\ score' = [score EXCEPT ![e][p] = (IF @ = None THEN 0 ELSE @) + 1]
  /\ call' = [a \in Actors |-> IF call[a].event = e THEN [call[a] EXCEPT !.late = TRUE] ELSE call[a]]
  /\ UNCHANGED <<event, rewards, snapshot, balance, round>>

EndPasses(e) ==
  /\ ~event[e].ended
  /\ \A i \in 1 .. Len(EndOrder) : EndOrder[i] = e => \A j \in 1 .. i - 1 : event[EndOrder[j]].ended
  /\ event' = [event EXCEPT ![e].ended = TRUE]
  /\ UNCHANGED <<branch, score, rewards, snapshot, balance, call, round>>

\* Rewards, purchases and trades of the player meanwhile (other services).
LedgerMoves(p, n) ==
  /\ Credits(p) + n \in 0 .. MaxBalance
  /\ balance' = [balance EXCEPT ![p] = Credits(p) + n]
  /\ call' = Moved(call, {p})
  /\ UNCHANGED <<event, branch, score, rewards, snapshot, round>>

Reads(a, e) ==
  call' = [call EXCEPT ![a] = [Idle EXCEPT !.step = "resolving", !.event = e, !.winner = Leader(e)]]

ResolveReads(h, e) ==
  /\ call[h].step = "idle"
  /\ Cardinality(Created(e)) >= 2
  /\ Reads(h, e)
  /\ UNCHANGED <<world, round>>

\* Mutant: the status is left alone.
ResolutionKeepsStatus(a) ==
  LET e == call[a].event IN
  /\ call[a].step = "resolving"
  /\ event' = [event EXCEPT ![e].winner = call[a].winner, ![e].meddled = @ \/ a # Worker]
  /\ call' = [call EXCEPT ![a] = Idle]
  /\ UNCHANGED <<branch, score, rewards, snapshot, balance>>

\* The second half of resolve_fork_event: branches, status, ranks and rewards, and commit.
Resolution(a) ==
  LET e == call[a].event
      rewarded == {p \in Contributors(e) : ComputedRank(e, p) <= TopRanks} IN
  /\ call[a].step = "resolving"
  /\ event' = [event EXCEPT ![e].status = "completed", ![e].winner = call[a].winner,
                            ![e].meddled = @ \/ a # Worker]
  /\ rewards' = [rewards EXCEPT ![e] = [p \in PlayerSet |->
       IF p \in rewarded /\ @[p] < 2 THEN @[p] + 1 ELSE @[p]]]
  /\ call' = [call EXCEPT ![a] = Idle]
  /\ UNCHANGED <<branch, score, snapshot, balance>>

ResolveCommits(h) ==
  /\ Resolution(h)
  /\ UNCHANGED round

\* Mutant: the adjustment has the wrong sign.
CancelReadsReversed(h, e) ==
  /\ call[h].step = "idle"
  /\ \A p \in PlayerSet : Credits(p) \in 0 .. MaxBalance
  /\ call' = [call EXCEPT ![h] = [Idle EXCEPT !.step = "cancelling", !.event = e,
       !.delta = [p \in PlayerSet |-> IF snapshot[e][p] = None THEN 0 ELSE Credits(p) - snapshot[e][p]]]]
  /\ UNCHANGED <<world, round>>

CancelReads(h, e) ==
  /\ call[h].step = "idle"
  /\ \A p \in PlayerSet : Credits(p) \in 0 .. MaxBalance
  /\ call' = [call EXCEPT ![h] = [Idle EXCEPT !.step = "cancelling", !.event = e,
       !.delta = [p \in PlayerSet |-> IF snapshot[e][p] = None THEN 0 ELSE snapshot[e][p] - Credits(p)]]]
  /\ UNCHANGED <<world, round>>

\* A player without a difference gets no entry.
CancelCommits(h) ==
  /\ call[h].step = "cancelling"
  /\ balance' = [p \in PlayerSet |->
       IF call[h].delta[p] = 0 THEN balance[p] ELSE Credits(p) + call[h].delta[p]]
  /\ event' = [event EXCEPT ![call[h].event].status = "cancelled", ![call[h].event].meddled = TRUE]
  /\ call' = Moved([call EXCEPT ![h] = Idle], {p \in PlayerSet : call[h].delta[p] # 0})
  /\ UNCHANGED <<branch, score, rewards, snapshot, round>>

\* Mutant: completed forks are selected again.
WorkerSelectsEnded ==
  /\ call[Worker].step = "idle" /\ queue = {} /\ resolved = {}
  /\ queue' = {e \in Events : event[e].ended}
  /\ queue' # {}
  /\ UNCHANGED <<world, call, resolved, announced>>

WorkerSelects ==
  /\ call[Worker].step = "idle" /\ queue = {} /\ resolved = {}
  /\ queue' = {e \in Events : event[e].status = "active" /\ event[e].ended}
  /\ queue' # {}
  /\ UNCHANGED <<world, call, resolved, announced>>

\* The first of the queue, ORDER BY end_time.
IsNext(e) ==
  /\ e \in queue
  /\ \A i \in 1 .. Len(EndOrder) : EndOrder[i] = e => \A j \in 1 .. i - 1 : EndOrder[j] \notin queue

WorkerReads ==
  /\ call[Worker].step = "idle"
  /\ \E e \in queue : IsNext(e) /\ Cardinality(Created(e)) >= 2 /\ Reads(Worker, e)
  /\ UNCHANGED <<world, round>>

\* A fork with fewer than two branches raises: the round ends, what it resolved is not announced.
WorkerRaises ==
  /\ call[Worker].step = "idle"
  /\ \E e \in queue : IsNext(e) /\ Cardinality(Created(e)) < 2
  /\ queue' = {}
  /\ resolved' = {}
  /\ UNCHANGED <<world, call, announced>>

WorkerCommits ==
  /\ Resolution(Worker)
  /\ queue' = queue \ {call[Worker].event}
  /\ resolved' = resolved \cup {call[Worker].event}
  /\ UNCHANGED announced

WorkerAnnounces ==
  /\ call[Worker].step = "idle"
  /\ queue = {}
  /\ resolved # {}
  /\ announced' = announced \cup resolved
  /\ resolved' = {}
  /\ UNCHANGED <<world, call, queue>>

WorkerStep == WorkerSelects \/ WorkerReads \/ WorkerRaises \/ WorkerCommits \/ WorkerAnnounces

Next ==
  \/ \E e \in Events : ActivateEvent(e) \/ EndPasses(e)
  \/ \E e \in Events, b \in BranchSet : CreateBranch(e, b)
  \/ \E e \in Events, b \in BranchSet, p \in PlayerSet : RecordBranchContribution(e, b, p)
  \/ \E p \in PlayerSet, n \in {-1, 1} : LedgerMoves(p, n)
  \/ \E h \in Handlers :
       (\E e \in Events : ResolveReads(h, e) \/ CancelReads(h, e)) \/ ResolveCommits(h) \/ CancelCommits(h)
  \/ WorkerSelects \/ WorkerReads \/ WorkerRaises \/ WorkerCommits \/ WorkerAnnounces

\* The processor runs a round every minute for ever.
Spec == Init /\ [][Next]_vars /\ WF_vars(WorkerStep)
TypeOK ==
  /\ event \in [Events -> [status : {"scheduled", "active", "completed", "cancelled"},
                           ended : BOOLEAN, winner : BranchSet \cup {None}, meddled : BOOLEAN]]
  /\ branch \in [Events -> [BranchSet -> Nat \cup {None}]]
  /\ \A e \in Events, p \in PlayerSet :
       /\ score[e][p] \in Nat \cup {None}
       /\ rewards[e][p] \in 0 .. 2
       /\ snapshot[e][p] \in Int \cup {None}
  /\ balance \in [PlayerSet -> Int \cup {None}]
  /\ \A a \in Actors : call[a].step \in {"idle", "resolving", "cancelling"}
  /\ queue \cup resolved \cup announced \subseteq Events

Crowns ==
  \A a \in Actors :
    call[a].step = "resolving" /\ call'[a].step = "idle" /\ ~call[a].late =>
      \A b \in Created(call[a].event) :
        branch[call[a].event][event'[call[a].event].winner] >= branch[call[a].event][b]

\* Unless work was recorded after a resolution read the branches (service.py:189), the
\* branch it crowns has at least the work of every other branch when it commits.
WinnerHadMostWork == [][Crowns]_vars

\* Unless a ledger moved between the two halves of a cancellation (service.py:264-310),
\* every player who had ledger entries at the activation has the balance of then again; whoever
\* first earned after it keeps what was earned.
Restores ==
  \A a \in Actors :
    call[a].step = "cancelling" /\ call'[a].step = "idle" =>
      \A p \in PlayerSet \ call[a].moved :
        IF snapshot[call[a].event][p] # None
        THEN Credits(p)' = snapshot[call[a].event][p]
        ELSE balance'[p] = balance[p]

CancelRestoresBalances == [][Restores]_vars

\* As long as no handler resolves, cancels or activates an event again, the processor pays
\* its rewards at most once (service.py:253-270, 446-460).
WorkerPaysOnce ==
  \A e \in Events, p \in PlayerSet : ~event[e].meddled => rewards[e][p] <= 1

Overdue(e) == event[e].status = "active" /\ event[e].ended

SomeUnresolvable == \E e \in Events : Overdue(e) /\ Cardinality(Created(e)) < 2

\* The processor resolves every fork whose end has passed, unless an active fork without
\* two branches raises in its round (service.py:446-460).
ExpiredForksAreResolved == \A e \in Events : Overdue(e) ~> ~Overdue(e) \/ SomeUnresolvable

=============================================================================
