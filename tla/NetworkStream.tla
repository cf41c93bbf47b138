--------------------------- MODULE NetworkStream ---------------------------
(***************************************************************************)
(* The network event stream: network_events and its publishers, the        *)
(* websocket handlers that page through it, the per-session checkpoints,   *)
(* the retention job, and the client that acknowledges cursors.            *)
(*                                                                         *)
(* A row is its sequence number; what a channel's filter tells apart is    *)
(* its topic (the global channel's events, or one player's rewards).       *)
(* Postgres assigns a sequence at INSERT and shows the row at COMMIT. A    *)
(* handler reads the page and the latest sequence in two transactions.     *)
(***************************************************************************)
EXTENDS Integers, Sequences, FiniteSetsExt

CONSTANTS
  Publishers,    \* threads that may hold an open INSERT at the same time
  Sessions,      \* authenticated (player, session, channel) triples
  Handlers,      \* request handlers running in the server
  Topics,        \* what the channel filters tell apart
  Subscription,  \* the topic a session's channel lets through
  Limit,         \* the websocket's limit parameter
  PageFactor,    \* how many limits a channel's page reads: 4 in the code
  MaxKept,       \* max_network_events of the retention job
  None,          \* no row, no connection
  MaxEvents,     \* bound: rows inserted
  MaxConnects,   \* bound: connections and checkpoint reads started
  MaxInFlight    \* bound: messages in flight on one connection (the sender then waits)

ASSUME StreamAssumption ==
  /\ Subscription \in [Sessions -> Topics]
  /\ {Limit, PageFactor, MaxKept, MaxEvents, MaxConnects, MaxInFlight} \subseteq Nat
  /\ Limit > 0 /\ PageFactor > 0
  /\ None \notin Handlers \cup Nat

VARIABLES
  topic,       \* topic of every sequence number assigned so far
  inserted,    \* per publisher, its uncommitted row or None
  stored,      \* rows visible in network_events
  checkpoint,  \* per session, client_event_checkpoints.reconnect_cursor
  handler,     \* per handler, the request it serves
  client,      \* per session, the client's cursor and its connection
  starts,      \* requests started (bounded by MaxConnects)
  offered      \* history: highest cursor each session was given
vars == <<topic, inserted, stored, checkpoint, handler, client, starts, offered>>

Rows == 1..MaxEvents
Cursors == 0..MaxEvents
Phases == {"closed", "list", "latest", "reply", "checkpoint", "idle"}

\* base and jump are history: where the handler's stream begins, and the cursor of its first
\* reply if that carried no event (0 otherwise).
Closed == [session |-> None, kind |-> "ws", phase |-> "closed", initial |-> FALSE,
           cursor |-> 0, batch |-> {}, reply |-> 0, base |-> 0, jump |-> 0]

\* got and base are history: rows the client received, and where its history begins.
NewClient == [link |-> None, cursor |-> 0, inbox |-> <<>>, acks |-> <<>>,
              got |-> {}, base |-> 0]

Init ==
  /\ topic = <<>>
  /\ inserted = [p \in Publishers |-> None]
  /\ stored = {}
  /\ checkpoint = [s \in Sessions |-> None]
  /\ handler = [h \in Handlers |-> Closed]
  /\ client = [s \in Sessions |-> NewClient]
  /\ starts = 0
  /\ offered = [s \in Sessions |-> 0]

-----------------------------------------------------------------------------
(* The stream's table and its readers.                                     *)

Greater(m, n) == IF m > n THEN m ELSE n

Lowest(S, n) == {e \in S : Cardinality({d \in S : d <= e}) <= n}

LatestSequence == IF stored = {} THEN 0 ELSE Max(stored)

\* Mutant of ListAfter: the cursor's own row is listed again.
ListFrom(after, n) == Lowest({e \in stored : e >= after}, n)

\* SELECT ... WHERE sequence > after ORDER BY sequence LIMIT n
ListAfter(after, n) == Lowest({e \in stored : e > after}, n)

\* The channel's page: PageFactor times the limit is read, filtered, then trimmed.
Page(s, after, n) ==
  Lowest({e \in ListAfter(after, PageFactor * n) : topic[e] = Subscription[s]}, n)

\* Mutants of ReconnectCursor: the latest sequence although the page was trimmed (as
\* GET /network-events answers); the sequence after the last row sent.
LatestAlways(batch) == LatestSequence
NextRow(batch) == (IF batch = {} THEN LatestSequence ELSE Max(batch)) + 1

ReconnectCursor(batch) == IF batch = {} THEN LatestSequence ELSE Max(batch)

Insert(p, t) ==
  /\ inserted[p] = None
  /\ Len(topic) < MaxEvents
  /\ topic' = Append(topic, t)
  /\ inserted' = [inserted EXCEPT ![p] = Len(topic) + 1]
  /\ UNCHANGED <<stored, checkpoint, handler, client, starts, offered>>

Commit(p) ==
  /\ inserted[p] # None
  /\ stored' = stored \cup {inserted[p]}
  /\ inserted' = [inserted EXCEPT ![p] = None]
  /\ UNCHANGED <<topic, checkpoint, handler, client, starts, offered>>

\* The connection fails between the INSERT and the COMMIT: the number is never used.
Rollback(p) ==
  /\ inserted[p] # None
  /\ inserted' = [inserted EXCEPT ![p] = None]
  /\ UNCHANGED <<topic, stored, checkpoint, handler, client, starts, offered>>

\* One transaction: rows older than the age limit, rows beyond the newest MaxKept,
\* and the checkpoints nobody wrote for a while.
Cleanup ==
  /\ \E oldest \in 0..Len(topic), expired \in SUBSET {s \in Sessions : checkpoint[s] # None} :
       LET young == {e \in stored : e > oldest}
       IN /\ stored' = young \ Lowest(young, Cardinality(young) - MaxKept)
          /\ checkpoint' = [s \in Sessions |-> IF s \in expired THEN None ELSE checkpoint[s]]
  /\ UNCHANGED <<topic, inserted, handler, client, starts, offered>>

-----------------------------------------------------------------------------
(* The handlers.                                                           *)

\* The client still holds the connection this handler serves.
Linked(h) == handler[h].phase # "closed" /\ client[handler[h].session].link = h

Unlinked(c) == [c EXCEPT !.link = None, !.inbox = <<>>, !.acks = <<>>]

Begin(h, request) ==
  /\ handler[h].phase = "closed"
  /\ starts < MaxConnects
  /\ starts' = starts + 1
  /\ handler' = [handler EXCEPT ![h] = request]

\* A client opens the websocket, dropping the connection it had and all in flight on
\* it. With after_sequence the handler starts there, else from the checkpoint or 0.
Connect(s, h) ==
  /\ \E after \in {client[s].cursor, IF checkpoint[s] = None THEN 0 ELSE checkpoint[s]} :
       Begin(h, [Closed EXCEPT !.session = s, !.phase = "list", !.initial = TRUE,
                               !.cursor = after, !.base = after])
  /\ client' = [client EXCEPT ![s] = [Unlinked(@) EXCEPT !.link = h]]
  /\ UNCHANGED <<topic, inserted, stored, checkpoint, offered>>

\* GET /checkpoints/{channel} without a row reads one page of one event from 0.
ReadMissingCheckpoint(s, h) ==
  /\ checkpoint[s] = None
  /\ Begin(h, [Closed EXCEPT !.session = s, !.kind = "bootstrap", !.phase = "list"])
  /\ UNCHANGED <<topic, inserted, stored, checkpoint, client, offered>>

List(h) ==
  /\ handler[h].phase = "list"
  /\ LET n == IF handler[h].kind = "bootstrap" THEN 1 ELSE Limit
     IN handler' = [handler EXCEPT ![h].phase = "latest",
                                   ![h].batch = Page(handler[h].session, handler[h].cursor, n)]
  /\ UNCHANGED <<topic, inserted, stored, checkpoint, client, starts, offered>>

\* Mutant of ReadLatest: the checkpoint is written before the reply is sent.
CheckpointBeforeSend(h) ==
  /\ handler[h].phase = "latest"
  /\ handler' = [handler EXCEPT ![h].phase = "reply",
                                ![h].reply = ReconnectCursor(handler[h].batch)]
  /\ checkpoint' = [checkpoint EXCEPT ![handler[h].session] = ReconnectCursor(handler[h].batch)]
  /\ UNCHANGED <<topic, inserted, stored, client, starts, offered>>

\* latest_sequence is read in a second transaction, after the page.
ReadLatest(h) ==
  /\ handler[h].phase = "latest"
  /\ handler' = [handler EXCEPT ![h].phase = "reply",
                                ![h].reply = ReconnectCursor(handler[h].batch)]
  /\ UNCHANGED <<topic, inserted, stored, checkpoint, client, starts, offered>>

\* The first reply is always sent, a later one only when it carries events. What is
\* sent on a connection the client has dropped is lost without an error.
Send(h) ==
  LET req == handler[h]
      s == req.session
  IN /\ req.phase = "reply"
     /\ req.kind = "ws"
     /\ req.initial \/ req.batch # {}
     /\ Linked(h) => Len(client[s].inbox) < MaxInFlight
     /\ handler' = [handler EXCEPT ![h] = [req EXCEPT
          !.phase = "checkpoint", !.cursor = req.reply, !.initial = FALSE,
          !.batch = {}, !.reply = 0,
          !.jump = IF req.initial /\ req.batch = {} THEN req.reply ELSE @]]
     /\ client' = IF Linked(h)
                  THEN [client EXCEPT ![s].inbox =
                          Append(@, [events |-> req.batch, cursor |-> req.reply])]
                  ELSE client
     /\ offered' = [offered EXCEPT ![s] = Greater(@, req.reply)]
     /\ UNCHANGED <<topic, inserted, stored, checkpoint, starts>>

\* Nothing to send: the cursor stays where it is.
SkipEmpty(h) ==
  /\ handler[h].phase = "reply"
  /\ handler[h].kind = "ws"
  /\ ~handler[h].initial /\ handler[h].batch = {}
  /\ handler' = [handler EXCEPT ![h].phase = "idle", ![h].reply = 0]
  /\ UNCHANGED <<topic, inserted, stored, checkpoint, client, starts, offered>>

\* The checkpoint read answers; set_cursor takes the value as it is.
Restore(h) ==
  LET s == handler[h].session
  IN /\ handler[h].phase = "reply"
     /\ handler[h].kind = "bootstrap"
     /\ handler' = [handler EXCEPT ![h] = Closed]
     /\ client' = [client EXCEPT ![s].cursor = handler[h].reply]
     /\ offered' = [offered EXCEPT ![s] = Greater(@, handler[h].reply)]
     /\ UNCHANGED <<topic, inserted, stored, checkpoint, starts>>

\* The upsert is unconditional and comes after the send.
WriteCheckpoint(h) ==
  /\ handler[h].phase = "checkpoint"
  /\ checkpoint' = [checkpoint EXCEPT ![handler[h].session] = handler[h].cursor]
  /\ handler' = [handler EXCEPT ![h].phase = "idle"]
  /\ UNCHANGED <<topic, inserted, stored, client, starts, offered>>

\* "cursor:N" moves the handler to N, forwards or back.
TakeAck(h) ==
  LET s == handler[h].session
  IN /\ handler[h].phase = "idle"
     /\ Linked(h)
     /\ client[s].acks # <<>>
     /\ handler' = [handler EXCEPT ![h].phase = "list", ![h].cursor = Head(client[s].acks)]
     /\ client' = [client EXCEPT ![s].acks = Tail(@)]
     /\ UNCHANGED <<topic, inserted, stored, checkpoint, starts, offered>>

\* The receive times out (or reads a pong) and the loop goes round.
PollAgain(h) ==
  /\ handler[h].phase = "idle"
  /\ handler' = [handler EXCEPT ![h].phase = "list"]
  /\ UNCHANGED <<topic, inserted, stored, checkpoint, client, starts, offered>>

\* A stale connection is evicted, a disconnect is noticed, a database call or a send
\* raises, or the server stops: the handler is gone wherever it was, and what is in
\* flight on its connection with it.
End(h) ==
  /\ handler[h].phase # "closed"
  /\ handler' = [handler EXCEPT ![h] = Closed]
  /\ client' = IF Linked(h)
               THEN [client EXCEPT ![handler[h].session] = Unlinked(@)]
               ELSE client
  /\ UNCHANGED <<topic, inserted, stored, checkpoint, starts, offered>>

-----------------------------------------------------------------------------
(* The client.                                                             *)

\* A message is applied and its cursor acknowledged; cursor 0 is not.
Receive(s) ==
  /\ client[s].link # None
  /\ client[s].inbox # <<>>
  /\ LET c == client[s]
         m == Head(c.inbox)
     IN client' = [client EXCEPT ![s] = [c EXCEPT
          !.inbox = Tail(c.inbox),
          !.got = c.got \cup m.events,
          !.cursor = Greater(c.cursor, m.cursor),
          !.acks = IF m.cursor > 0 THEN Append(c.acks, m.cursor) ELSE c.acks]]
  /\ UNCHANGED <<topic, inserted, stored, checkpoint, handler, starts, offered>>

\* A snapshot stands for everything up to its sequence, so history begins there.
Refresh(s) ==
  /\ client' = [client EXCEPT ![s].cursor = Greater(@, LatestSequence),
                              ![s].base = Greater(@, LatestSequence)]
  /\ offered' = [offered EXCEPT ![s] = Greater(@, LatestSequence)]
  /\ UNCHANGED <<topic, inserted, stored, checkpoint, handler, starts>>

RestoreCheckpoint(s) ==
  /\ checkpoint[s] # None
  /\ client' = [client EXCEPT ![s].cursor = checkpoint[s]]
  /\ UNCHANGED <<topic, inserted, stored, checkpoint, handler, starts, offered>>

PersistCheckpoint(s) ==
  /\ checkpoint' = [checkpoint EXCEPT ![s] = client[s].cursor]
  /\ UNCHANGED <<topic, inserted, stored, handler, client, starts, offered>>

-----------------------------------------------------------------------------
HandlerStep(h) ==
  \/ List(h)
  \/ ReadLatest(h)
  \/ Send(h)
  \/ SkipEmpty(h)
  \/ Restore(h)
  \/ WriteCheckpoint(h)
  \/ TakeAck(h)
  \/ PollAgain(h)

Publish(p) == (\E t \in Topics : Insert(p, t)) \/ Commit(p) \/ Rollback(p)

ClientStep(s) ==
  \/ Receive(s)
  \/ Refresh(s)
  \/ RestoreCheckpoint(s)
  \/ PersistCheckpoint(s)
  \/ \E h \in Handlers : Connect(s, h) \/ ReadMissingCheckpoint(s, h)

Next ==
  \/ \E p \in Publishers : Publish(p)
  \/ \E h \in Handlers : HandlerStep(h) \/ End(h)
  \/ \E s \in Sessions : ClientStep(s)
  \/ Cleanup

Spec == Init /\ [][Next]_vars

\* The event loop keeps running a handler; a receive returns a message that has arrived,
\* so acknowledgements are not left waiting for ever; a client keeps reading its socket.
FairSpec ==
  /\ Spec
  /\ \A h \in Handlers : WF_vars(HandlerStep(h)) /\ SF_vars(TakeAck(h))
  /\ \A s \in Sessions : WF_vars(Receive(s))

-----------------------------------------------------------------------------
(* Properties.                                                             *)

\* Every variable stays in its range, and only what a request is doing decides which
\* rows it holds: a batch is held between the page read and the checkpoint.
TypeOK ==
  /\ topic \in Seq(Topics) /\ Len(topic) <= MaxEvents
  /\ inserted \in [Publishers -> 1..Len(topic) \cup {None}]
  /\ stored \subseteq 1..Len(topic)
  /\ checkpoint \in [Sessions -> Cursors \cup {None}]
  /\ handler \in [Handlers -> [session : Sessions \cup {None}, kind : {"ws", "bootstrap"},
       phase : Phases, initial : BOOLEAN, cursor : Cursors, batch : SUBSET Rows,
       reply : Cursors, base : Cursors, jump : Cursors]]
  /\ \A h \in Handlers : handler[h].phase # "closed" => handler[h].session \in Sessions
  /\ \A s \in Sessions :
       /\ DOMAIN client[s] = DOMAIN NewClient
       /\ client[s].link # None =>
            /\ client[s].link \in Handlers
            /\ Linked(client[s].link) /\ handler[client[s].link].session = s
       /\ client[s].cursor \in Cursors /\ client[s].base \in Cursors
       /\ client[s].got \subseteq Rows
       /\ client[s].acks \in Seq(1..MaxEvents)
       /\ client[s].inbox \in Seq([events : SUBSET Rows, cursor : Cursors])
  /\ starts \in 0..MaxConnects
  /\ offered \in [Sessions -> Cursors]

SkipsNothing(h, from) ==
  LET c == client[handler[h].session]
  IN \A e \in stored :
       /\ topic[e] = Subscription[handler[h].session]
       /\ from < e /\ e <= handler[h].cursor
       => e \in c.got \/ \E i \in DOMAIN c.inbox : e \in c.inbox[i].events

Streams(h) == Linked(h) /\ handler[h].kind = "ws"

\* While a websocket handler serves a connected client, only the jump of an empty first reply
\* takes its cursor past a row of its topic that is stored and that the client has not
\* received and will not receive next: the wider page, the trim, late acknowledgements and a
\* concurrent cleanup together skip nothing. It needs one publisher at a time.
OnlyEmptyFirstReplySkips ==
  \A h \in Handlers : Streams(h) => SkipsNothing(h, Greater(handler[h].base, handler[h].jump))

\* What the documents promise and the code does not do: the empty first reply of a
\* reconnect skips no row either (its page and its cursor are read in two transactions,
\* read_models.py:234).
NothingSkippedWhileStreaming == \A h \in Handlers : Streams(h) => SkipsNothing(h, handler[h].base)

\* A session's checkpoint never points past what the session was given in a reply, a
\* snapshot or a restored checkpoint, whichever handler or client wrote it, and in
\* whatever order their unconditional upserts land; nor does its client's own cursor.
CursorsWereOffered ==
  \A s \in Sessions :
    /\ checkpoint[s] # None => checkpoint[s] <= offered[s]
    /\ client[s].cursor <= offered[s]

Streaming(h) == handler[h].phase = "idle" /\ Streams(h)

Owed(h, e) ==
  /\ e \in stored
  /\ e > handler[h].cursor
  /\ topic[e] = Subscription[handler[h].session]

Received(h, e) == ~Linked(h) \/ e \notin stored \/ e \in client[handler[h].session].got

\* A streaming handler whose client stays connected delivers every row of its topic
\* that a page from its cursor can reach, however the trims, the client's late
\* acknowledgements and further publications interleave.
PageDelivered ==
  \A h \in Handlers, e \in Rows :
    (Streaming(h) /\ Owed(h, e) /\ e \in ListAfter(handler[h].cursor, PageFactor * Limit))
      ~> Received(h, e)

\* What the documents promise and the code does not do: a client that stays connected
\* receives every event of its channel.
EveryEventDelivered ==
  \A h \in Handlers, e \in Rows : (Streaming(h) /\ Owed(h, e)) ~> Received(h, e)

\* What the documents promise and the code does not do: a row of its topic that a
\* session's cursor has passed, and no snapshot stands for, was received by it.
ReconnectLosesNothing ==
  \A s \in Sessions, e \in stored :
    /\ topic[e] = Subscription[s]
    /\ client[s].base < e /\ e <= client[s].cursor
    => e \in client[s].got
=============================================================================
