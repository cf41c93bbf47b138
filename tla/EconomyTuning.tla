---------------------------- MODULE EconomyTuning ----------------------------
(* EconomyParameterService and EconomyExperimentService                      *)
(* (server/domain/economy/parameters.py, experiment.py): versioned economy   *)
(* parameters and experiments on them.  Every server process keeps its own   *)
(* versions under its own lock; the tables are shared, and each statement on *)
(* them is a transaction of its own, which may fail.  An experiment and its  *)
(* assignments live in the memory of the process that created it.            *)
EXTENDS Naturals, Sequences

CONSTANTS Processes, Threads,
          ProcessOf,     \* thread -> process
          Values,        \* values of a parameter
          Settable,      \* the parameters administrators set
          Initial,       \* the built-in value of each
          Winning,       \* the value the experiment's cohorts give the parameter "tested"
          Players,
          Digest,        \* player -> first byte of the hash of player and experiment
          MaxVersion,    \* bound: versions of the parameters
          None

Parameters == [tested : Values, other : Values]
InitialParameters == [tested |-> Initial, other |-> Initial]
Versions == 1 .. MaxVersion

TuningAssumption ==
  /\ ProcessOf \in [Threads -> Processes]
  /\ Settable \subseteq Parameters /\ {Initial, Winning} \subseteq Values
  /\ MaxVersion \in Nat \ {0}

VARIABLES stored,     \* economy_parameters: the versions from 2 on, as a sequence
          history,    \* economy_parameter_history: [version, previous, reverted]
          known,      \* process -> version -> what the process has in _versions, or None
          thread,     \* thread -> where it stands
          experiment, \* the process it lives in, its status there and its row in ab_experiments
          assigned,   \* player -> cohort in _assignments of that process, or None
          inserting,  \* players put in a cohort in memory whose INSERT is still to run
          assignment  \* experiment_cohort_assignment: player -> cohort, or None

tuning == <<stored, history, known, thread>>
cohorts == <<assigned, inserting, assignment>>
vars == <<stored, history, known, thread, experiment, assigned, inserting, assignment>>

Idle == [step |-> "idle", op |-> None, version |-> 0, value |-> InitialParameters]

FreshVersions == [v \in Versions |-> IF v = 1 THEN InitialParameters ELSE None]

Init ==
  /\ stored = <<>>
  /\ history = {}
  /\ known = [s \in Processes |-> FreshVersions]
  /\ thread = [t \in Threads |-> Idle]
  /\ experiment = [at |-> None, status |-> "none", row |-> "none"]
  /\ assigned = [p \in Players |-> None]
  /\ inserting = {}
  /\ assignment = [p \in Players |-> None]

Latest == Len(stored) + 1

\* get_current_parameters: the last row, or what the process was built with.
Current == IF stored = <<>> THEN InitialParameters ELSE stored[Len(stored)]

Locked(s) == \E t \in Threads : ProcessOf[t] = s /\ thread[t].step \in {"locked", "read", "inserted", "logged"}

Continue(t, step) == thread' = [thread EXCEPT ![t].step = step]

Finish(t) == thread' = [thread EXCEPT ![t] = Idle]

SetParameters(t, value) ==
  /\ thread[t].step = "idle"
  /\ ~Locked(ProcessOf[t])
  /\ thread' = [thread EXCEPT ![t] = [Idle EXCEPT !.step = "locked", !.op = "set", !.value = value]]
  /\ UNCHANGED <<stored, history, known, cohorts, experiment>>

\* Mutant: a version the process does not know is rolled back to.
RollbackToUnknown(t, v) ==
  /\ thread[t].step = "idle"
  /\ ~Locked(ProcessOf[t])
  /\ thread' = [thread EXCEPT ![t] =
       [Idle EXCEPT !.step = "locked", !.op = "rollback", !.value = known[ProcessOf[t]][v]]]
  /\ UNCHANGED <<stored, history, known, cohorts, experiment>>

RollbackToVersion(t, v) ==
  /\ thread[t].step = "idle"
  /\ ~Locked(ProcessOf[t])
  /\ known[ProcessOf[t]][v] # None
  /\ thread' = [thread EXCEPT ![t] =
       [Idle EXCEPT !.step = "locked", !.op = "rollback", !.value = known[ProcessOf[t]][v]]]
  /\ UNCHANGED <<stored, history, known, cohorts, experiment>>

\* The current values a promotion fills up with are read before set_parameters takes the lock.
PromoteReads(t) ==
  /\ thread[t].step = "idle"
  /\ experiment.at = ProcessOf[t]
  /\ thread' = [thread EXCEPT ![t] =
       [Idle EXCEPT !.step = "promoting", !.op = "promote", !.value = [Current EXCEPT !.tested = Winning]]]
  /\ UNCHANGED <<stored, history, known, cohorts, experiment>>

PromoteLocks(t) ==
  /\ thread[t].step = "promoting"
  /\ ~Locked(ProcessOf[t])
  /\ Continue(t, "locked")
  /\ UNCHANGED <<stored, history, known, cohorts, experiment>>

ReadsPrevious(t) ==
  /\ thread[t].step = "locked"
  /\ Latest < MaxVersion
  /\ thread' = [thread EXCEPT ![t].step = "read", ![t].version = Latest + 1]
  /\ UNCHANGED <<stored, history, known, cohorts, experiment>>

\* Mutant: a version that exists is skipped instead of raising.
InsertsIfAbsent(t) ==
  /\ thread[t].step = "read"
  /\ stored' = IF thread[t].version > Latest THEN Append(stored, thread[t].value) ELSE stored
  /\ Continue(t, "inserted")
  /\ UNCHANGED <<history, known, cohorts, experiment>>

\* The primary key lets one process insert a version; the others raise.
InsertsParameter(t) ==
  /\ thread[t].step = "read"
  /\ IF thread[t].version > Latest
     THEN stored' = Append(stored, thread[t].value) /\ Continue(t, "inserted")
     ELSE UNCHANGED stored /\ Finish(t)
  /\ UNCHANGED <<history, known, cohorts, experiment>>

InsertsHistory(t) ==
  /\ thread[t].step = "inserted"
  /\ history' = history \cup
       {[version |-> thread[t].version, previous |-> thread[t].version - 1, reverted |-> FALSE]}
  /\ Continue(t, "logged")
  /\ UNCHANGED <<stored, known, cohorts, experiment>>

\* A statement fails: after the version's, it stays without history, and unknown to the process.
StatementFails(t) ==
  /\ thread[t].step \in {"locked", "read", "inserted"}
  /\ Finish(t)
  /\ UNCHANGED <<stored, history, known, cohorts, experiment>>

Reverted(version) == {IF h.version = version THEN [h EXCEPT !.reverted = TRUE] ELSE h : h \in history}

\* Memory takes the version; the mark of a rollback is one more statement, which may fail.
Remembers(t) ==
  LET s == ProcessOf[t] IN
  /\ thread[t].step = "logged"
  /\ known' = [known EXCEPT ![s][thread[t].version] = thread[t].value]
  /\ history' \in IF thread[t].op = "rollback" THEN {Reverted(thread[t].version), history} ELSE {history}
  /\ experiment' = IF thread[t].op = "promote" THEN [experiment EXCEPT !.status = "completed"] ELSE experiment
  /\ Finish(t)
  /\ UNCHANGED <<stored, cohorts>>

\* Memory first; the INSERT follows without a lock.
CreateExperiment(s) ==
  /\ experiment.status = "none"
  /\ experiment' = [at |-> s, status |-> "active", row |-> "inserting"]
  /\ UNCHANGED <<tuning, cohorts>>

InsertsExperiment ==
  /\ experiment.row = "inserting"
  /\ \E row \in {"stored", "none"} : experiment' = [experiment EXCEPT !.row = row]
  /\ UNCHANGED <<tuning, cohorts>>

\* analyze_experiment_results, once the experiment's time is over.
CompletesExperiment ==
  /\ experiment.status = "active"
  /\ experiment' = [experiment EXCEPT !.status = "completed"]
  /\ UNCHANGED <<tuning, cohorts>>

Parity(p) == IF Digest[p] % 2 = 0 THEN "a" ELSE "b"

AssignPlayerToCohort(p) ==
  /\ experiment.status = "active" /\ assigned[p] = None
  /\ assigned' = [assigned EXCEPT ![p] = Parity(p)]
  /\ inserting' = inserting \cup {p}
  /\ UNCHANGED <<tuning, experiment, assignment>>

\* The row refers to the experiment's; a player whose INSERT fails is never tried again.
InsertsAssignment(p) ==
  /\ p \in inserting
  /\ inserting' = inserting \ {p}
  /\ \/ experiment.row = "stored" /\ assignment' = [assignment EXCEPT ![p] = assigned[p]]
     \/ UNCHANGED assignment
  /\ UNCHANGED <<tuning, experiment, assigned>>

\* What a restarted process created is in no process any more.
Restart(s) ==
  /\ known' = [known EXCEPT ![s] = FreshVersions]
  /\ thread' = [t \in Threads |-> IF ProcessOf[t] = s THEN Idle ELSE thread[t]]
  /\ IF experiment.at = s
     THEN /\ experiment' = [at |-> None, status |-> "lost",
                            row |-> IF experiment.row = "stored" THEN "stored" ELSE "none"]
          /\ assigned' = [p \in Players |-> None] /\ inserting' = {}
     ELSE UNCHANGED <<experiment, assigned, inserting>>
  /\ UNCHANGED <<stored, history, assignment>>

Next ==
  \/ \E t \in Threads :
       \/ \E value \in Settable : SetParameters(t, value)
       \/ \E v \in Versions : RollbackToVersion(t, v)
       \/ PromoteReads(t) \/ PromoteLocks(t) \/ ReadsPrevious(t) \/ InsertsParameter(t)
       \/ InsertsHistory(t) \/ StatementFails(t) \/ Remembers(t)
  \/ \E s \in Processes : Restart(s) \/ CreateExperiment(s)
  \/ \E p \in Players : AssignPlayerToCohort(p) \/ InsertsAssignment(p)
  \/ InsertsExperiment \/ CompletesExperiment

Spec == Init /\ [][Next]_vars

TypeOK ==
  /\ stored \in Seq(Parameters) /\ Latest <= MaxVersion
  /\ history \subseteq [version : Versions, previous : Versions, reverted : BOOLEAN]
  /\ known \in [Processes -> [Versions -> Parameters \cup {None}]]
  /\ thread \in [Threads -> [step : {"idle", "promoting", "locked", "read", "inserted", "logged"},
       op : {"set", "rollback", "promote", None}, version : 0 .. MaxVersion, value : Parameters]]
  /\ experiment \in [at : Processes \cup {None}, status : {"none", "active", "completed", "lost"},
       row : {"none", "inserting", "stored"}]
  /\ assigned \in [Players -> {"a", "b", None}] /\ inserting \subseteq Players
  /\ assignment \in [Players -> {"a", "b", None}]

\* However processes race, restart and have their statements fail, a version a process knows,
\* and may roll back to, is the one the table holds (parameters.py:94-163).
ProcessesAgreeWithTables ==
  \A s \in Processes : \A v \in Versions \ {1} :
    known[s][v] # None => v <= Latest /\ known[s][v] = stored[v - 1]
=============================================================================
