------------------------------ MODULE Telemetry ------------------------------
(* PlayerTelemetryService and _TelemetryWorker (domain/telemetry/service.py):*)
(* calls put events in a memory queue, a daemon thread flushes batches, first*)
(* to telemetry_events and then, in a thread per batch, to the analytics     *)
(* backend.                                                                  *)
EXTENDS Naturals, Sequences, FiniteSets, SequencesExt

CONSTANTS Events,     \* emissions
          Firsts,     \* those of _emit_once, all of one type and player
          BatchSize,  \* 100 in the code
          MaxTries,   \* 5 in the code
          MaxCrashes  \* bound: stops of the process

TelemetryAssumption == {BatchSize, MaxTries} \subseteq Nat \ {0}

VARIABLES buffer,    \* the queue.Queue
          pending,   \* events the worker has taken out, in order
          sending,   \* batches handed to a thread: [events, attempt]
          stored,    \* event_ids in telemetry_events
          marked,    \* those with sent_to_backend_at
          posts,     \* event -> requests to the backend that carried it
          fate,      \* not program state: event -> "unseen", "queued", "flushed", "dropped" or "lost"
          crashes,   \* not program state
          outage     \* not program state: the database was down for a flush

vars == <<buffer, pending, sending, stored, marked, posts, fate, crashes, outage>>

Init ==
  /\ buffer = <<>>
  /\ pending = <<>>
  /\ sending = {}
  /\ stored = {}
  /\ marked = {}
  /\ posts = [e \in Events |-> 0]
  /\ fate = [e \in Events |-> "unseen"]
  /\ crashes = 0
  /\ outage = FALSE

\* INSERT ... ON CONFLICT needs a unique constraint on exactly the columns it names.
PrimaryKey == {"event_id", "timestamp"}
ConflictTarget == {"event_id"}

Enqueue(e) ==
  /\ fate' = [fate EXCEPT ![e] = "queued"]
  /\ buffer' = Append(buffer, e)

\* The emit_* methods, and emit_client_event.
Emit(e) ==
  /\ e \notin Firsts
  /\ fate[e] = "unseen"
  /\ Enqueue(e)
  /\ UNCHANGED <<pending, sending, stored, marked, posts, crashes, outage>>

HasPriorEvent == Firsts \cap stored # {}

\* emit_first_*: looks in the table, not in the queue, for an earlier one.
EmitOnce(e) ==
  /\ e \in Firsts
  /\ fate[e] = "unseen"
  /\ IF HasPriorEvent
     THEN fate' = [fate EXCEPT ![e] = "dropped"] /\ UNCHANGED buffer
     ELSE Enqueue(e)
  /\ UNCHANGED <<pending, sending, stored, marked, posts, crashes, outage>>

\* With the database up or not.
Persist(batch) ==
  \E up \in BOOLEAN :
    /\ stored' = IF up /\ ConflictTarget = PrimaryKey THEN stored \cup Range(batch) ELSE stored
    /\ outage' = (outage \/ ~up)

\* Whether it was stored or not, a thread sends the batch.
Flush(batch) ==
  /\ Persist(batch)
  /\ sending' = sending \cup {[events |-> Range(batch), attempt |-> 1]}
  /\ fate' = [e \in Events |-> IF e \in Range(batch) THEN "flushed" ELSE fate[e]]
  /\ pending' = <<>>

\* Mutant: one event more than a batch holds.
WorkerGetsOneMore ==
  /\ buffer # <<>>
  /\ buffer' = Tail(buffer)
  /\ LET batch == Append(pending, Head(buffer)) IN
       \/ Flush(batch)
       \/ Len(batch) <= BatchSize /\ pending' = batch /\ UNCHANGED <<sending, stored, fate, outage>>
  /\ UNCHANGED <<marked, posts, crashes>>

WorkerGets ==
  /\ buffer # <<>>
  /\ buffer' = Tail(buffer)
  /\ LET batch == Append(pending, Head(buffer)) IN
       \/ Flush(batch)
       \/ Len(batch) < BatchSize /\ pending' = batch /\ UNCHANGED <<sending, stored, fate, outage>>
  /\ UNCHANGED <<marked, posts, crashes>>

\* Mutant: a timeout keeps what is pending for the next event.
WorkerTimesOutIdle ==
  /\ buffer = <<>>
  /\ pending # <<>>
  /\ UNCHANGED vars

WorkerTimesOut ==
  /\ buffer = <<>>
  /\ pending # <<>>
  /\ Flush(pending)
  /\ UNCHANGED <<buffer, marked, posts, crashes>>

Posted(b) == [e \in Events |-> IF e \in b.events THEN posts[e] + 1 ELSE posts[e]]

MarkSent(b) == marked' = marked \cup (b.events \cap stored)

\* _post_json swallows every failure, so the first attempt counts as sent.
Send(b) ==
  /\ posts' = Posted(b)
  /\ sending' = sending \ {b}
  /\ MarkSent(b)
  /\ UNCHANGED <<buffer, pending, stored, fate, crashes, outage>>

\* Threads and queue are daemons: what is not flushed goes with the process.
Crash ==
  /\ crashes < MaxCrashes
  /\ crashes' = crashes + 1
  /\ fate' = [e \in Events |-> IF fate[e] = "queued" THEN "lost" ELSE fate[e]]
  /\ buffer' = <<>>
  /\ pending' = <<>>
  /\ sending' = {}
  /\ UNCHANGED <<stored, marked, posts, outage>>

Next ==
  \/ \E e \in Events : Emit(e) \/ EmitOnce(e)
  \/ WorkerGets \/ WorkerTimesOut
  \/ \E b \in sending : Send(b)
  \/ Crash

WorkerTurn == WorkerGets \/ WorkerTimesOut

\* The worker thread loops for ever.
Spec == Init /\ [][Next]_vars /\ WF_vars(WorkerTurn)

TypeOK ==
  /\ {buffer, pending} \subseteq Seq(Events)
  /\ Len(pending) < BatchSize
  /\ \A b \in sending : b.events \subseteq Events /\ b.attempt \in 1 .. MaxTries
  /\ marked \subseteq stored /\ stored \subseteq Events
  /\ posts \in [Events -> Nat]
  /\ fate \in [Events -> {"unseen", "queued", "flushed", "dropped", "lost"}]

\* Every event of the queue is flushed, alone if need be, unless the process stops first.
QueuedIsFlushed == \A e \in Events : fate[e] = "queued" ~> fate[e] # "queued"
=============================================================================
