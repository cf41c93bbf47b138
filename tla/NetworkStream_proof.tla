------------------------- MODULE NetworkStream_proof --------------------------
(* What the network stream delivers, for any number of topics, publishers,      *)
(* handlers, sessions and events: no cursor was not offered by the server, and  *)
(* as long as two INSERTs are never open at once, no row between the start of a *)
(* stream and its cursor is missing at the client or on its way to it.          *)
EXTENDS NetworkStream, FiniteSums, SequenceTheorems, TLAPS

Messages == [events : SUBSET Rows, cursor : Cursors]

Requests == [session : Sessions \cup {None}, kind : {"ws", "bootstrap"}, phase : Phases,
             initial : BOOLEAN, cursor : Cursors, batch : SUBSET Rows, reply : Cursors, base : Cursors, jump : Cursors]

Clients == [link : Handlers \cup {None}, cursor : Cursors, inbox : Seq(Messages),
            acks : Seq(1..MaxEvents), got : SUBSET Rows, base : Cursors]

Serves(h) == handler[h].phase # "closed"

Types ==
  /\ topic \in Seq(Topics) /\ Len(topic) <= MaxEvents
  /\ inserted \in [Publishers -> 1..Len(topic) \cup {None}]
  /\ stored \subseteq 1..Len(topic)
  /\ checkpoint \in [Sessions -> Cursors \cup {None}]
  /\ handler \in [Handlers -> Requests]
  /\ client \in [Sessions -> Clients]
  /\ starts \in 0..MaxConnects
  /\ offered \in [Sessions -> Cursors]

\* A handler at work has a session; the handler a client is connected to serves its websocket.
Links ==
  /\ \A h \in Handlers : Serves(h) => handler[h].session \in Sessions
  /\ \A s \in Sessions, h \in Handlers : client[s].link = h =>
       Serves(h) /\ handler[h].session = s /\ handler[h].kind = "ws"

\* No cursor of a session, wherever it is kept or in flight, was not offered.
Offers ==
  /\ \A s \in Sessions :
       /\ checkpoint[s] # None => checkpoint[s] <= offered[s]
       /\ client[s].cursor <= offered[s]
       /\ \A i \in DOMAIN client[s].inbox : client[s].inbox[i].cursor <= offered[s]
       /\ \A i \in DOMAIN client[s].acks : client[s].acks[i] <= offered[s]
  /\ \A h \in Handlers : Serves(h) => handler[h].cursor <= offered[handler[h].session]

IInv == Types /\ Links /\ Offers

\* Two INSERTs are never open at once: sequence numbers become visible in their order.
OneOpenInsert == \A p, q \in Publishers : inserted[p] # None /\ inserted[q] # None => p = q

\* Every sequence number a reply, a page, a snapshot or a stored row has shown so far.
Seen ==
  {0} \cup stored \cup {offered[s] : s \in Sessions}
      \cup {handler[h].reply : h \in Handlers} \cup UNION {handler[h].batch : h \in Handlers}

\* A row still to be committed comes after all that was seen.
OpenRowsAhead ==
  \A n \in Seen :
    /\ n <= Len(topic)
    /\ \A p \in Publishers : inserted[p] # None => n < inserted[p]

\* The client h serves, and the rows it has or that are on their way to it.
Peer(h) == client[handler[h].session]
Given(h) == Peer(h).got \cup UNION {Peer(h).inbox[i].events : i \in DOMAIN Peer(h).inbox}

\* The cursors up to which h's client has every stored row of its topic, counting from
\* where h's stream begins or its empty first reply jumped to.
From(h) == Greater(handler[h].base, handler[h].jump)

GivenUpTo(h) ==
  {n \in Cursors : \A e \in stored :
     topic[e] = Subscription[handler[h].session] /\ From(h) < e /\ e <= n => e \in Given(h)}

\* A page without gaps: all stored rows of the topic between the cursor and its last row.
NoGap(h) ==
  \A e \in stored, d \in handler[h].batch :
    topic[e] = Subscription[handler[h].session] /\ handler[h].cursor < e /\ e <= d
      => e \in handler[h].batch

\* The reply's cursor is the last row of its page.
EndsPage(h) ==
  handler[h].batch # {} =>
    handler[h].reply \in handler[h].batch /\ \A d \in handler[h].batch : d <= handler[h].reply

\* Every cursor h may be moved to has been delivered up to; the first reply finds nothing
\* in flight.
Delivered(h) ==
  /\ handler[h].phase \in {"latest", "reply"} => NoGap(h)
  /\ handler[h].phase = "reply" => EndsPage(h)
  /\ Streams(h) =>
       /\ handler[h].cursor \in GivenUpTo(h)
       /\ \A i \in DOMAIN Peer(h).inbox : Peer(h).inbox[i].cursor \in GivenUpTo(h)
       /\ \A i \in DOMAIN Peer(h).acks : Peer(h).acks[i] \in GivenUpTo(h)
       /\ handler[h].initial => Peer(h).inbox = <<>> /\ Peer(h).acks = <<>>

SInv == IInv /\ OpenRowsAhead /\ \A h \in Handlers : Delivered(h)

-----------------------------------------------------------------------------
(* What the page queries return.                                           *)

\* Only finitely many rows are stored.
LEMMA StoredIsFinite ==
  ASSUME Types
  PROVE  IsFiniteSet(stored) /\ stored \subseteq Rows /\ stored \subseteq Int
  <1>1. Len(topic) \in Nat /\ Len(topic) <= MaxEvents /\ stored \subseteq 1..Len(topic) /\ MaxEvents \in Nat
    BY StreamAssumption DEF Types
  <1>2. IsFiniteSet(1..Len(topic))
    BY <1>1, FS_Interval
  <1>3. stored \subseteq Rows /\ stored \subseteq Int
    BY <1>1 DEF Rows
  <1> QED
    BY <1>1, <1>2, <1>3, FS_Subset

\* The latest sequence number is that of a stored row, or 0.
LEMMA LatestIsGreatest ==
  ASSUME Types
  PROVE  /\ LatestSequence \in stored \cup {0} /\ LatestSequence \in Cursors
         /\ LatestSequence <= Len(topic)
         /\ \A e \in stored : e <= LatestSequence
  <1>1. Len(topic) \in Nat /\ Len(topic) <= MaxEvents /\ stored \subseteq 1..Len(topic) /\ MaxEvents \in Nat
    BY StreamAssumption DEF Types
  <1>2. stored # {} => Max(stored) \in stored /\ \A e \in stored : e <= Max(stored)
    BY StoredIsFinite, MaxIsGreatest
  <1>3. CASE stored = {}
    BY <1>1, <1>3 DEF LatestSequence, Cursors
  <1>4. CASE stored # {}
    <2>1. LatestSequence = Max(stored)
      BY <1>4 DEF LatestSequence
    <2>2. LatestSequence \in stored /\ \A e \in stored : e <= LatestSequence
      BY <1>2, <1>4, <2>1
    <2>3. LatestSequence \in 1..Len(topic)
      BY <1>1, <2>2
    <2> HIDE DEF LatestSequence
    <2> QED
      BY <1>1, <2>2, <2>3 DEF Cursors
  <1> QED
    BY <1>3, <1>4

\* A page has stored rows after the cursor only.
LEMMA PageIsStored ==
  ASSUME NEW s, NEW after, NEW n
  PROVE  Page(s, after, n) \subseteq {e \in stored : e > after}
  BY DEF Page, ListAfter, Lowest

\* The first n of a set are closed downwards.
LEMMA LowestIsClosed ==
  ASSUME NEW S, IsFiniteSet(S), S \subseteq Int, NEW n \in Int, NEW d \in Lowest(S, n),
         NEW e \in S, e <= d
  PROVE  e \in Lowest(S, n)
  <1> DEFINE below(x) == {y \in S : y <= x}
  <1>1. IsFiniteSet(below(d)) /\ IsFiniteSet(below(e))
    BY FS_Subset
  <1>2. below(e) \subseteq below(d)
    <2>1. d \in Int /\ e \in Int
      BY DEF Lowest
    <2>2. \A y \in S : y \in Int
      OBVIOUS
    <2>3. \A y \in Int : y <= e => y <= d
      BY <2>1
    <2> QED
      BY <2>2, <2>3
  <1>3. /\ Cardinality(below(e)) <= Cardinality(below(d))
        /\ Cardinality(below(e)) \in Nat /\ Cardinality(below(d)) \in Nat
    BY <1>1, <1>2, FS_Subset, FS_CardinalityType
  <1>4. Cardinality(below(d)) <= n
    BY DEF Lowest
  <1>5. Cardinality(below(e)) <= n
    <2> HIDE DEF below
    <2> QED BY <1>3, <1>4
  <1> QED
    BY <1>5 DEF Lowest

\* A page leaves out no stored row of its topic between the cursor and the page's last row:
\* neither the wider read nor the trim does.
LEMMA PageHasNoGap ==
  ASSUME Types, NEW s, NEW after \in Int, NEW n \in Nat, NEW d \in Page(s, after, n), NEW e \in stored,
         after < e, e <= d, topic[e] = Subscription[s]
  PROVE  e \in Page(s, after, n)
  <1> DEFINE rest == {x \in stored : x > after}
             wide == ListAfter(after, PageFactor * n)
             mine == {x \in wide : topic[x] = Subscription[s]}
  <1>1. PageFactor * n \in Int
    BY StreamAssumption
  <1>2. IsFiniteSet(rest) /\ rest \subseteq Int /\ e \in rest
    BY StoredIsFinite, FS_Subset
  <1>3. wide = Lowest(rest, PageFactor * n) /\ wide \subseteq rest /\ Page(s, after, n) = Lowest(mine, n)
    BY DEF ListAfter, Lowest, Page
  <1>4. d \in mine
    BY <1>3 DEF Lowest
  <1>5. e \in wide
    <2> HIDE DEF rest, wide
    <2>1. d \in Lowest(rest, PageFactor * n)
      BY <1>3, <1>4
    <2> QED
      BY <1>1, <1>2, <1>3, <2>1, LowestIsClosed
  <1>6. IsFiniteSet(mine) /\ mine \subseteq Int /\ e \in mine
    <2> HIDE DEF rest, wide
    <2> QED BY <1>2, <1>3, <1>5, FS_Subset
  <1> HIDE DEF mine
  <1> QED
    BY <1>3, <1>6, LowestIsClosed

\* The cursor of a reply is the last row of its page, or the latest stored when it is empty.
LEMMA CursorOfPage ==
  ASSUME Types, NEW batch \in SUBSET Rows
  PROVE  /\ ReconnectCursor(batch) \in Cursors
         /\ ReconnectCursor(batch) \in batch \cup stored \cup {0}
         /\ batch # {} => ReconnectCursor(batch) \in batch /\ \A e \in batch : e <= ReconnectCursor(batch)
  <1>1. MaxEvents \in Nat
    BY StreamAssumption
  <1>2. CASE batch = {}
    BY <1>2, LatestIsGreatest DEF ReconnectCursor
  <1>3. CASE batch # {}
    <2>1. IsFiniteSet(batch) /\ batch \subseteq Int
      <3>1. IsFiniteSet(Rows) /\ Rows \subseteq Int
        BY <1>1, FS_Interval DEF Rows
      <3> QED
        BY <3>1, FS_Subset
    <2>2. Max(batch) \in batch /\ \A e \in batch : e <= Max(batch)
      BY <1>3, <2>1, MaxIsGreatest
    <2>3. ReconnectCursor(batch) = Max(batch)
      BY <1>3 DEF ReconnectCursor
    <2>4. Rows \subseteq Cursors
      BY <1>1 DEF Rows, Cursors
    <2> QED
      BY <2>2, <2>3, <2>4
  <1> QED
    BY <1>2, <1>3

-----------------------------------------------------------------------------
(* Types, connections and offered cursors.                                 *)

LEMMA ClosedIsRequest ==
  /\ Closed \in Requests /\ Closed.phase = "closed" /\ Closed.reply = 0 /\ Closed.batch = {}
  /\ Closed = [session |-> None, kind |-> "ws", phase |-> "closed", initial |-> FALSE,
               cursor |-> 0, batch |-> {}, reply |-> 0, base |-> 0, jump |-> 0]
  BY StreamAssumption DEF Closed, Requests, Phases, Cursors

LEMMA CursorsAreInts == Cursors \subseteq Int /\ Rows \subseteq Int
  BY DEF Cursors, Rows

LEMMA UnlinkedIsClient ==
  ASSUME NEW c \in Clients
  PROVE  LET d == Unlinked(c)
         IN /\ d \in Clients /\ d.link = None /\ d.inbox = <<>> /\ d.acks = <<>>
            /\ d.cursor = c.cursor /\ d.got = c.got /\ d.base = c.base
  <1>1. PICK e : e = <<>>
    OBVIOUS
  <1>2. e \in Seq(Messages) /\ e \in Seq(1..MaxEvents)
    BY <1>1, EmptySeq
  <1>3. PICK d : d = [c EXCEPT !.link = None, !.inbox = e, !.acks = e]
    OBVIOUS
  <1>4. /\ d \in Clients /\ d.link = None /\ d.inbox = e /\ d.acks = e
        /\ d.cursor = c.cursor /\ d.got = c.got /\ d.base = c.base
    BY <1>2, <1>3 DEF Clients
  <1>5. Unlinked(c) = d
    BY <1>1, <1>3 DEF Unlinked
  <1> QED
    BY <1>1, <1>4, <1>5

LEMMA QueuesAreTyped ==
  ASSUME NEW c \in Clients
  PROVE  /\ c.inbox \in Seq(Messages) /\ c.acks \in Seq(1..MaxEvents) /\ c.cursor \in Cursors
         /\ \A i \in DOMAIN c.inbox : c.inbox[i] \in Messages /\ c.inbox[i].cursor \in Cursors
         /\ \A i \in DOMAIN c.acks : c.acks[i] \in 1..MaxEvents
  <1>1. c.inbox \in Seq(Messages) /\ c.acks \in Seq(1..MaxEvents) /\ c.cursor \in Cursors
    BY DEF Clients
  <1>2. DOMAIN c.inbox = 1..Len(c.inbox) /\ DOMAIN c.acks = 1..Len(c.acks)
    BY <1>1, LenProperties
  <1>3. \A i \in DOMAIN c.inbox : c.inbox[i] \in Messages
    BY <1>1, <1>2, ElementOfSeq
  <1>4. \A i \in DOMAIN c.acks : c.acks[i] \in 1..MaxEvents
    BY <1>1, <1>2, ElementOfSeq
  <1>5. \A m \in Messages : m.cursor \in Cursors
    BY DEF Messages
  <1> QED
    BY <1>1, <1>3, <1>4, <1>5

\* A step of handler h makes r of its request and c of the client of session s.
Moves(h, s, r, c) ==
  /\ handler' = [handler EXCEPT ![h] = r] /\ client' = [client EXCEPT ![s] = c]
  /\ UNCHANGED <<topic, inserted, stored>> /\ starts' \in 0..MaxConnects
  /\ checkpoint' \in [Sessions -> Cursors \cup {None}] /\ offered' \in [Sessions -> Cursors]
  /\ \A x \in Sessions : offered[x] <= offered'[x]
  /\ \A x \in Sessions : checkpoint'[x] # None => checkpoint'[x] <= offered'[x]
  /\ r.phase # "closed" => r.session = s /\ r.cursor <= offered'[s]
  /\ c.link = h => r.phase # "closed" /\ r.kind = "ws"
  /\ c.link \in {h, None, client[s].link}
  /\ \A x \in Sessions \ {s} : client[x].link # h
  /\ c.cursor <= offered'[s]
  /\ \A i \in DOMAIN c.inbox : c.inbox[i].cursor <= offered'[s]
  /\ \A i \in DOMAIN c.acks : c.acks[i] <= offered'[s]

\* Such a step leaves every other request and client alone.
LEMMA RequestMoves ==
  ASSUME IInv, NEW h \in Handlers, NEW s \in Sessions, NEW r \in Requests, NEW c \in Clients,
         Moves(h, s, r, c)
  PROVE  IInv'
  <1> USE DEF IInv, Moves
  <1>1. Types'
    BY DEF Types
  <1>2. /\ handler'[h] = r /\ \A g \in Handlers \ {h} : handler'[g] = handler[g]
        /\ client'[s] = c /\ \A x \in Sessions \ {s} : client'[x] = client[x]
    BY DEF Types
  <1>3. Links'
    <2>1. \A g \in Handlers : Serves(g)' => handler'[g].session \in Sessions
      BY <1>2 DEF Links, Serves
    <2>2. ASSUME NEW x \in Sessions, NEW g \in Handlers, client'[x].link = g
          PROVE  Serves(g)' /\ handler'[g].session = x /\ handler'[g].kind = "ws"
      <3>1. CASE g = h
        <4>1. x = s /\ c.link = h
          BY <1>2, <2>2, <3>1
        <4>2. handler'[g] = r
          BY <1>2, <3>1
        <4> QED
          BY <4>1, <4>2 DEF Serves
      <3>2. CASE g # h
        <4>1. g # None
          BY StreamAssumption
        <4>2. client[x].link = g
          BY <1>2, <2>2, <3>2, <4>1
        <4>3. handler'[g] = handler[g]
          BY <1>2, <3>2
        <4>4. Serves(g) /\ handler[g].session = x /\ handler[g].kind = "ws"
          BY <4>2 DEF Links
        <4> QED
          BY <4>3, <4>4 DEF Serves
      <3> QED
        BY <3>1, <3>2
    <2> QED
      BY <2>1, <2>2 DEF Links
  <1>4. Offers'
    <2>1. ASSUME NEW x \in Sessions \ {s}
          PROVE  /\ client'[x].cursor <= offered'[x]
                 /\ \A i \in DOMAIN client'[x].inbox : client'[x].inbox[i].cursor <= offered'[x]
                 /\ \A i \in DOMAIN client'[x].acks : client'[x].acks[i] <= offered'[x]
      <3>1. client'[x] = client[x] /\ client[x] \in Clients /\ offered[x] \in Cursors /\ offered'[x] \in Cursors
            /\ offered[x] <= offered'[x]
        BY <1>2 DEF Types
      <3>2. \A i \in DOMAIN client[x].inbox : client[x].inbox[i].cursor \in Int
        BY <3>1, QueuesAreTyped DEF Cursors
      <3>3. \A i \in DOMAIN client[x].acks : client[x].acks[i] \in Int
        BY <3>1, QueuesAreTyped
      <3>4. client[x].cursor \in Int /\ offered[x] \in Int /\ offered'[x] \in Int
        BY <3>1, QueuesAreTyped DEF Cursors
      <3>5. \A n \in Int : n <= offered[x] => n <= offered'[x]
        BY <3>1, <3>4
      <3> QED
        BY <3>1, <3>2, <3>3, <3>4, <3>5 DEF Offers
    <2>2. ASSUME NEW g \in Handlers \ {h}, Serves(g)'
          PROVE  handler'[g].cursor <= offered'[handler'[g].session]
      <3>1. Serves(g) /\ handler[g].session \in Sessions /\ handler[g].cursor \in Cursors
        BY <1>2, <2>2 DEF Serves, Links, Types, Requests
      <3>2. offered[handler[g].session] \in Int /\ offered'[handler[g].session] \in Int /\ handler[g].cursor \in Int
        <4>1. offered[handler[g].session] \in Cursors /\ offered'[handler[g].session] \in Cursors
          BY <3>1 DEF Types
        <4> QED
          BY <3>1, <4>1, CursorsAreInts
      <3>3. handler[g].cursor <= offered[handler[g].session] /\ offered[handler[g].session] <= offered'[handler[g].session]
        BY <3>1 DEF Offers
      <3> QED
        BY <1>2, <3>2, <3>3
    <2> QED
      BY <1>2, <2>1, <2>2 DEF Offers, Serves
  <1> QED
    BY <1>1, <1>3, <1>4

\* What a client does between its requests.
LEMMA ClientMoves ==
  ASSUME IInv, NEW s \in Sessions, NEW c \in Clients, client' = [client EXCEPT ![s] = c],
         UNCHANGED <<topic, inserted, stored, handler, starts>>,
         checkpoint' \in [Sessions -> Cursors \cup {None}], offered' \in [Sessions -> Cursors],
         \A x \in Sessions : offered[x] <= offered'[x],
         \A x \in Sessions : checkpoint'[x] # None => checkpoint'[x] <= offered'[x],
         c.link = client[s].link, c.cursor <= offered'[s],
         \A i \in DOMAIN c.inbox : c.inbox[i].cursor <= offered'[s],
         \A i \in DOMAIN c.acks : c.acks[i] <= offered'[s]
  PROVE  IInv'
  <1> USE DEF IInv
  <1>1. Types'
    BY DEF Types
  <1>2. client'[s] = c /\ \A x \in Sessions \ {s} : client'[x] = client[x]
    BY DEF Types
  <1>3. Links'
    <2>1. \A x \in Sessions : client'[x].link = client[x].link
      BY <1>2
    <2> QED
      BY <2>1 DEF Links, Serves
  <1>4. Offers'
    <2>1. ASSUME NEW x \in Sessions \ {s}
          PROVE  /\ client'[x].cursor <= offered'[x]
                 /\ \A i \in DOMAIN client'[x].inbox : client'[x].inbox[i].cursor <= offered'[x]
                 /\ \A i \in DOMAIN client'[x].acks : client'[x].acks[i] <= offered'[x]
      <3>1. client'[x] = client[x] /\ client[x] \in Clients /\ offered[x] \in Cursors /\ offered'[x] \in Cursors
            /\ offered[x] <= offered'[x]
        BY <1>2 DEF Types
      <3>2. \A i \in DOMAIN client[x].inbox : client[x].inbox[i].cursor \in Int
        BY <3>1, QueuesAreTyped DEF Cursors
      <3>3. \A i \in DOMAIN client[x].acks : client[x].acks[i] \in Int
        BY <3>1, QueuesAreTyped
      <3>4. client[x].cursor \in Int /\ offered[x] \in Int /\ offered'[x] \in Int
        BY <3>1, QueuesAreTyped DEF Cursors
      <3>5. \A n \in Int : n <= offered[x] => n <= offered'[x]
        BY <3>1, <3>4
      <3> QED
        BY <3>1, <3>2, <3>3, <3>4, <3>5 DEF Offers
    <2>2. ASSUME NEW g \in Handlers, Serves(g)'
          PROVE  handler'[g].cursor <= offered'[handler'[g].session]
      <3>1. Serves(g) /\ handler[g].session \in Sessions /\ handler[g].cursor \in Cursors
        BY <2>2 DEF Serves, Links, Types, Requests
      <3>2. offered[handler[g].session] \in Int /\ offered'[handler[g].session] \in Int /\ handler[g].cursor \in Int
        <4>1. offered[handler[g].session] \in Cursors /\ offered'[handler[g].session] \in Cursors
          BY <3>1 DEF Types
        <4> QED
          BY <3>1, <4>1, CursorsAreInts
      <3>3. handler[g].cursor <= offered[handler[g].session] /\ offered[handler[g].session] <= offered'[handler[g].session]
        BY <3>1 DEF Offers
      <3> QED
        BY <3>2, <3>3
    <2> QED
      BY <1>2, <2>1, <2>2 DEF Offers
  <1> QED
    BY <1>1, <1>3, <1>4

-----------------------------------------------------------------------------
(* What each step of a handler makes of its request and of the client.     *)

\* r is q with another phase; Keeps adds that the page and the reply stay.
Continues(r, q) ==
  /\ r.session = q.session /\ r.kind = q.kind /\ r.initial = q.initial /\ r.base = q.base /\ r.jump = q.jump

LEMMA ListEffect ==
  ASSUME IInv, NEW h \in Handlers, List(h)
  PROVE  \E r \in Requests, n \in Nat :
           /\ handler' = [handler EXCEPT ![h] = r] /\ Serves(h) /\ Continues(r, handler[h])
           /\ r.phase = "latest" /\ r.cursor = handler[h].cursor /\ r.reply = handler[h].reply
           /\ r.batch = Page(handler[h].session, handler[h].cursor, n)
  <1>1. PICK q \in Requests : q = handler[h]
    BY DEF IInv, Types
  <1>2. PICK n \in Nat : n = IF q.kind = "bootstrap" THEN 1 ELSE Limit
    BY StreamAssumption
  <1>3. PICK b \in SUBSET Rows : b = Page(q.session, q.cursor, n)
    BY PageIsStored, StoredIsFinite DEF IInv
  <1>4. PICK r : r = [q EXCEPT !.phase = "latest", !.batch = b]
    OBVIOUS
  <1>5. /\ r \in Requests /\ Continues(r, q) /\ r.phase = "latest" /\ r.cursor = q.cursor
        /\ r.reply = q.reply /\ r.batch = b
    BY <1>4 DEF Requests, Phases, Continues
  <1>6. q.phase = "list" /\ handler' = [handler EXCEPT ![h].phase = "latest", ![h].batch = b]
    BY <1>1, <1>2, <1>3 DEF List
  <1>7. handler' = [handler EXCEPT ![h] = r]
    BY <1>1, <1>4, <1>6 DEF IInv, Types
  <1> QED
    BY <1>1, <1>3, <1>5, <1>6, <1>7 DEF Serves

LEMMA ReadLatestEffect ==
  ASSUME IInv, NEW h \in Handlers, ReadLatest(h)
  PROVE  \E r \in Requests :
           /\ handler' = [handler EXCEPT ![h] = r] /\ Serves(h) /\ Continues(r, handler[h])
           /\ r.phase = "reply" /\ r.cursor = handler[h].cursor
           /\ r.batch = handler[h].batch /\ r.reply = ReconnectCursor(handler[h].batch)
  <1>1. PICK q \in Requests : q = handler[h]
    BY DEF IInv, Types
  <1>2. PICK n \in Cursors : n = ReconnectCursor(q.batch)
    BY CursorOfPage DEF IInv, Requests
  <1>3. PICK r : r = [q EXCEPT !.phase = "reply", !.reply = n]
    OBVIOUS
  <1>4. /\ r \in Requests /\ Continues(r, q) /\ r.phase = "reply" /\ r.cursor = q.cursor
        /\ r.reply = n /\ r.batch = q.batch
    BY <1>3 DEF Requests, Phases, Continues
  <1>5. q.phase = "latest" /\ handler' = [handler EXCEPT ![h].phase = "reply", ![h].reply = n]
    BY <1>1, <1>2 DEF ReadLatest
  <1>6. handler' = [handler EXCEPT ![h] = r]
    BY <1>1, <1>3, <1>5 DEF IInv, Types
  <1> QED
    BY <1>1, <1>2, <1>4, <1>5, <1>6 DEF Serves

LEMMA SendEffect ==
  ASSUME IInv, NEW h \in Handlers, Send(h)
  PROVE  LET q == handler[h]
             s == q.session
         IN \E r \in Requests, c \in Clients :
              /\ handler' = [handler EXCEPT ![h] = r] /\ Serves(h)
              /\ q.phase = "reply" /\ q.kind = "ws" /\ s \in Sessions
              /\ r.session = s /\ r.kind = "ws" /\ r.phase = "checkpoint" /\ ~r.initial
              /\ r.cursor = q.reply /\ r.batch = {} /\ r.reply = 0
              /\ r.base = q.base /\ r.jump = IF q.initial /\ q.batch = {} THEN q.reply ELSE q.jump
              /\ q.initial \/ q.batch # {}
              /\ client' = [client EXCEPT ![s] = c]
              /\ c.link = client[s].link /\ c.cursor = client[s].cursor
              /\ c.acks = client[s].acks /\ c.got = client[s].got
              /\ c.inbox = IF Linked(h) THEN Append(client[s].inbox, [events |-> q.batch, cursor |-> q.reply])
                           ELSE client[s].inbox
              /\ offered' = [offered EXCEPT ![s] = Greater(@, q.reply)]
  <1>1. PICK q \in Requests : q = handler[h]
    BY DEF IInv, Types
  <1>2. q.phase = "reply" /\ q.kind = "ws" /\ (q.initial \/ q.batch # {}) /\ Serves(h) /\ q.session \in Sessions
    BY <1>1 DEF Send, Serves, IInv, Links
  <1>3. PICK s \in Sessions : s = q.session
    BY <1>2
  <1>4. PICK d \in Clients : d = client[s]
    BY DEF IInv, Types
  <1>5. PICK b : b = IF q.initial /\ q.batch = {} THEN q.reply ELSE q.jump
    OBVIOUS
  <1>6. PICK r : r = [q EXCEPT !.phase = "checkpoint", !.cursor = q.reply, !.initial = FALSE,
                               !.batch = {}, !.reply = 0, !.jump = b]
    OBVIOUS
  <1>7. 0 \in Cursors
    BY StreamAssumption DEF Cursors
  <1>8. /\ r \in Requests /\ r.session = s /\ r.kind = "ws" /\ r.phase = "checkpoint" /\ ~r.initial
        /\ r.cursor = q.reply /\ r.batch = {} /\ r.reply = 0 /\ r.base = q.base /\ r.jump = b
    BY <1>2, <1>3, <1>5, <1>6, <1>7 DEF Requests, Phases
  <1>9. handler' = [handler EXCEPT ![h] = r]
    BY <1>1, <1>5, <1>6 DEF Send
  <1>10. [events |-> q.batch, cursor |-> q.reply] \in Messages
    BY DEF Requests, Messages
  <1>11. PICK i : i = IF Linked(h) THEN Append(d.inbox, [events |-> q.batch, cursor |-> q.reply]) ELSE d.inbox
    OBVIOUS
  <1>12. i \in Seq(Messages)
    BY <1>10, <1>11, QueuesAreTyped, AppendProperties
  <1>13. PICK c : c = [d EXCEPT !.inbox = i]
    OBVIOUS
  <1>14. /\ c \in Clients /\ c.link = d.link /\ c.cursor = d.cursor /\ c.acks = d.acks /\ c.got = d.got
         /\ c.inbox = i
    BY <1>12, <1>13 DEF Clients
  <1>15. client' = [client EXCEPT ![s] = c]
    <2>1. CASE Linked(h)
      <3>1. client' = [client EXCEPT ![s].inbox = Append(@, [events |-> q.batch, cursor |-> q.reply])]
        BY <1>1, <1>3, <2>1 DEF Send
      <3> QED
        BY <1>4, <1>11, <1>13, <2>1, <3>1 DEF IInv, Types
    <2>2. CASE ~Linked(h)
      <3>1. client' = client /\ c = d
        BY <1>1, <1>3, <1>11, <1>13, <2>2 DEF Send, Clients
      <3> QED
        BY <1>4, <3>1 DEF IInv, Types
    <2> QED
      BY <2>1, <2>2
  <1>16. offered' = [offered EXCEPT ![s] = Greater(@, q.reply)]
    BY <1>1, <1>3 DEF Send
  <1> QED
    BY <1>1, <1>2, <1>3, <1>4, <1>5, <1>8, <1>9, <1>11, <1>14, <1>15, <1>16

\* A step that only moves the request on: nothing to send, checkpoint written, next round.
LEMMA TurnEffect ==
  ASSUME IInv, NEW h \in Handlers, SkipEmpty(h) \/ WriteCheckpoint(h) \/ PollAgain(h)
  PROVE  \E r \in Requests :
           /\ handler' = [handler EXCEPT ![h] = r] /\ Serves(h) /\ Continues(r, handler[h])
           /\ r.phase \in {"idle", "list"} /\ r.cursor = handler[h].cursor
           /\ r.batch = handler[h].batch /\ r.reply \in {handler[h].reply, 0}
  <1>1. PICK q \in Requests : q = handler[h]
    BY DEF IInv, Types
  <1>2. PICK p \in {"idle", "list"}, n \in {q.reply, 0} :
          handler' = [handler EXCEPT ![h].phase = p, ![h].reply = n]
    <2>1. CASE SkipEmpty(h)
      BY <2>1 DEF SkipEmpty
    <2>2. CASE WriteCheckpoint(h) \/ PollAgain(h)
      <3>1. PICK p \in {"idle", "list"} : handler' = [handler EXCEPT ![h].phase = p]
        BY <2>2 DEF WriteCheckpoint, PollAgain
      <3>2. [handler EXCEPT ![h].phase = p] = [handler EXCEPT ![h].phase = p, ![h].reply = q.reply]
        BY <1>1 DEF IInv, Types, Requests
      <3> QED
        BY <3>1, <3>2
    <2> QED
      BY <2>1, <2>2
  <1>3. PICK r : r = [q EXCEPT !.phase = p, !.reply = n]
    OBVIOUS
  <1>4. 0 \in Cursors
    BY StreamAssumption DEF Cursors
  <1>5. /\ r \in Requests /\ Continues(r, q) /\ r.phase = p /\ r.cursor = q.cursor
        /\ r.reply = n /\ r.batch = q.batch
    BY <1>3, <1>4 DEF Requests, Phases, Continues
  <1>6. handler' = [handler EXCEPT ![h] = r]
    BY <1>1, <1>2, <1>3 DEF IInv, Types
  <1>7. q.phase # "closed"
    BY <1>1 DEF SkipEmpty, WriteCheckpoint, PollAgain
  <1> QED
    BY <1>1, <1>2, <1>5, <1>6, <1>7 DEF Serves

LEMMA TakeAckEffect ==
  ASSUME IInv, NEW h \in Handlers, TakeAck(h)
  PROVE  LET q == handler[h]
             s == q.session
         IN \E r \in Requests, c \in Clients :
              /\ handler' = [handler EXCEPT ![h] = r] /\ Serves(h) /\ Continues(r, q)
              /\ s \in Sessions /\ Linked(h) /\ client[s].acks # <<>>
              /\ r.phase = "list" /\ r.cursor = client[s].acks[1] /\ r.batch = q.batch /\ r.reply = q.reply
              /\ client' = [client EXCEPT ![s] = c]
              /\ c.link = client[s].link /\ c.cursor = client[s].cursor /\ c.got = client[s].got
              /\ c.inbox = client[s].inbox /\ c.acks = Tail(client[s].acks)
  <1>1. PICK q \in Requests : q = handler[h]
    BY DEF IInv, Types
  <1>2. q.phase = "idle" /\ Serves(h) /\ q.session \in Sessions /\ Linked(h) /\ client[q.session].acks # <<>>
    BY <1>1 DEF TakeAck, Serves, IInv, Links
  <1>3. PICK s \in Sessions : s = q.session
    BY <1>2
  <1>4. PICK d \in Clients : d = client[s]
    BY DEF IInv, Types
  <1>5. d.acks \in Seq(1..MaxEvents) /\ d.acks # <<>>
    BY <1>2, <1>3, <1>4, QueuesAreTyped
  <1>6. Head(d.acks) = d.acks[1] /\ Head(d.acks) \in 1..MaxEvents /\ Tail(d.acks) \in Seq(1..MaxEvents)
    <2>1. PICK a \in Seq(1..MaxEvents) : a = d.acks /\ a # <<>>
      BY <1>5
    <2>2. Head(a) \in 1..MaxEvents /\ Tail(a) \in Seq(1..MaxEvents)
      BY <2>1, HeadTailProperties
    <2>3. Head(a) = a[1]
      BY <2>1
    <2> QED
      BY <2>1, <2>2, <2>3
  <1>7. PICK n \in Cursors : n = d.acks[1]
    BY <1>6 DEF Cursors
  <1>8. PICK r : r = [q EXCEPT !.phase = "list", !.cursor = n]
    OBVIOUS
  <1>9. /\ r \in Requests /\ Continues(r, q) /\ r.phase = "list" /\ r.cursor = n
        /\ r.reply = q.reply /\ r.batch = q.batch
    BY <1>8 DEF Requests, Phases, Continues
  <1>10. handler' = [handler EXCEPT ![h].phase = "list", ![h].cursor = n]
    BY <1>1, <1>3, <1>4, <1>6, <1>7 DEF TakeAck
  <1>11. handler' = [handler EXCEPT ![h] = r]
    BY <1>1, <1>8, <1>10 DEF IInv, Types
  <1>12. PICK c : c = [d EXCEPT !.acks = Tail(d.acks)]
    OBVIOUS
  <1>13. /\ c \in Clients /\ c.link = d.link /\ c.cursor = d.cursor /\ c.got = d.got
         /\ c.inbox = d.inbox /\ c.acks = Tail(d.acks)
    BY <1>6, <1>12 DEF Clients
  <1>14. client' = [client EXCEPT ![s].acks = Tail(@)]
    BY <1>1, <1>3 DEF TakeAck
  <1>15. client' = [client EXCEPT ![s] = c]
    BY <1>4, <1>12, <1>14 DEF IInv, Types
  <1> QED
    BY <1>1, <1>2, <1>3, <1>4, <1>7, <1>9, <1>11, <1>13, <1>15

\* A request that is over: its handler is closed, its client may have lost the connection.
LEMMA EndEffect ==
  ASSUME IInv, NEW h \in Handlers, End(h)
  PROVE  LET s == handler[h].session
         IN \E c \in Clients :
              /\ handler' = [handler EXCEPT ![h] = Closed] /\ Serves(h) /\ s \in Sessions
              /\ client' = [client EXCEPT ![s] = c]
              /\ c.cursor = client[s].cursor /\ c.link # h
              /\ c = client[s] \/ (c.link = None /\ c.inbox = <<>> /\ c.acks = <<>>)
  <1>1. Serves(h) /\ handler[h].session \in Sessions
    BY DEF End, Serves, IInv, Links
  <1>2. PICK s \in Sessions : s = handler[h].session
    BY <1>1
  <1>3. PICK d \in Clients : d = client[s]
    BY DEF IInv, Types
  <1>4. handler' = [handler EXCEPT ![h] = Closed]
    BY DEF End
  <1>5. CASE Linked(h)
    <2>1. client' = [client EXCEPT ![s] = Unlinked(d)]
      BY <1>2, <1>3, <1>5 DEF End
    <2>2. /\ Unlinked(d) \in Clients /\ Unlinked(d).link = None /\ Unlinked(d).inbox = <<>>
          /\ Unlinked(d).acks = <<>> /\ Unlinked(d).cursor = d.cursor
      BY UnlinkedIsClient
    <2>3. None # h
      BY StreamAssumption
    <2> QED
      BY <1>1, <1>2, <1>3, <1>4, <2>1, <2>2, <2>3
  <1>6. CASE ~Linked(h)
    <2>1. client' = client /\ d.link # h
      BY <1>1, <1>2, <1>3, <1>6 DEF End, Linked, Serves
    <2>2. client' = [client EXCEPT ![s] = d]
      BY <1>3, <2>1 DEF IInv, Types
    <2>3. d = client[s] /\ d.cursor = client[s].cursor
      BY <1>3
    <2> QED
      BY <1>1, <1>2, <1>4, <2>1, <2>2, <2>3
  <1> QED
    BY <1>5, <1>6

LEMMA RestoreEffect ==
  ASSUME IInv, NEW h \in Handlers, Restore(h)
  PROVE  LET q == handler[h]
             s == q.session
         IN \E c \in Clients :
              /\ handler' = [handler EXCEPT ![h] = Closed] /\ Serves(h) /\ s \in Sessions /\ q.kind = "bootstrap"
              /\ client' = [client EXCEPT ![s] = c]
              /\ c.cursor = q.reply /\ c.link = client[s].link /\ c.inbox = client[s].inbox
              /\ c.acks = client[s].acks /\ c.got = client[s].got
              /\ offered' = [offered EXCEPT ![s] = Greater(@, q.reply)]
  <1>1. PICK q \in Requests : q = handler[h]
    BY DEF IInv, Types
  <1>2. Serves(h) /\ q.session \in Sessions /\ q.kind = "bootstrap"
    BY <1>1 DEF Restore, Serves, IInv, Links
  <1>3. PICK s \in Sessions : s = q.session
    BY <1>2
  <1>4. PICK d \in Clients : d = client[s]
    BY DEF IInv, Types
  <1>5. PICK n \in Cursors : n = q.reply
    BY DEF Requests
  <1>6. PICK c : c = [d EXCEPT !.cursor = n]
    OBVIOUS
  <1>7. /\ c \in Clients /\ c.link = d.link /\ c.cursor = n /\ c.got = d.got
        /\ c.inbox = d.inbox /\ c.acks = d.acks
    BY <1>6 DEF Clients
  <1>8. /\ handler' = [handler EXCEPT ![h] = Closed] /\ client' = [client EXCEPT ![s].cursor = n]
        /\ offered' = [offered EXCEPT ![s] = Greater(@, n)]
    BY <1>1, <1>3, <1>5 DEF Restore
  <1>9. client' = [client EXCEPT ![s] = c]
    BY <1>4, <1>6, <1>8 DEF IInv, Types
  <1> QED
    BY <1>1, <1>2, <1>3, <1>4, <1>5, <1>7, <1>8, <1>9

LEMMA ConnectEffect ==
  ASSUME IInv, NEW s \in Sessions, NEW h \in Handlers, Connect(s, h)
  PROVE  \E r \in Requests, c \in Clients :
           /\ handler' = [handler EXCEPT ![h] = r] /\ ~Serves(h) /\ starts' = starts + 1 /\ starts < MaxConnects
           /\ r.session = s /\ r.kind = "ws" /\ r.phase = "list" /\ r.initial /\ r.batch = {} /\ r.reply = 0
           /\ r.base = r.cursor /\ r.cursor <= offered[s]
           /\ client' = [client EXCEPT ![s] = c]
           /\ c.link = h /\ c.cursor = client[s].cursor /\ c.inbox = <<>> /\ c.acks = <<>>
  <1>1. PICK after \in {client[s].cursor, IF checkpoint[s] = None THEN 0 ELSE checkpoint[s]} :
          Begin(h, [Closed EXCEPT !.session = s, !.phase = "list", !.initial = TRUE,
                                  !.cursor = after, !.base = after])
    BY DEF Connect
  <1>2. after \in Cursors /\ after <= offered[s]
    <2>1. client[s] \in Clients /\ checkpoint[s] \in Cursors \cup {None} /\ offered[s] \in Cursors /\ 0 \in Cursors
      BY StreamAssumption DEF IInv, Types, Cursors
    <2>2. 0 <= offered[s]
      BY <2>1 DEF Cursors
    <2> QED
      BY <1>1, <2>1, <2>2 DEF IInv, Offers, Clients
  <1>3. PICK k \in Requests : k = Closed /\ k.kind = "ws" /\ k.batch = {} /\ k.reply = 0
    BY ClosedIsRequest
  <1>4. PICK r : r = [k EXCEPT !.session = s, !.phase = "list", !.initial = TRUE, !.cursor = after, !.base = after]
    OBVIOUS
  <1>5. /\ r \in Requests /\ r.session = s /\ r.kind = "ws" /\ r.phase = "list" /\ r.initial /\ r.batch = {}
        /\ r.reply = 0 /\ r.cursor = after /\ r.base = after
    BY <1>2, <1>3, <1>4 DEF Requests, Phases
  <1>6. handler' = [handler EXCEPT ![h] = r] /\ ~Serves(h) /\ starts' = starts + 1 /\ starts < MaxConnects
    BY <1>1, <1>3, <1>4 DEF Begin, Serves
  <1>7. PICK d \in Clients : d = client[s]
    BY DEF IInv, Types
  <1>8. PICK u \in Clients : u = Unlinked(d) /\ u.inbox = <<>> /\ u.acks = <<>> /\ u.cursor = d.cursor
    BY UnlinkedIsClient
  <1>9. PICK c : c = [u EXCEPT !.link = h]
    OBVIOUS
  <1>10. c \in Clients /\ c.link = h /\ c.cursor = d.cursor /\ c.inbox = <<>> /\ c.acks = <<>>
    BY <1>8, <1>9 DEF Clients
  <1>11. client' = [client EXCEPT ![s] = c]
    BY <1>7, <1>8, <1>9 DEF Connect
  <1> QED
    BY <1>2, <1>5, <1>6, <1>7, <1>10, <1>11

LEMMA ReadMissingEffect ==
  ASSUME IInv, NEW s \in Sessions, NEW h \in Handlers, ReadMissingCheckpoint(s, h)
  PROVE  \E r \in Requests :
           /\ handler' = [handler EXCEPT ![h] = r] /\ ~Serves(h) /\ starts' = starts + 1 /\ starts < MaxConnects
           /\ r.session = s /\ r.kind = "bootstrap" /\ r.phase = "list" /\ r.cursor = 0
           /\ r.batch = {} /\ r.reply = 0
  <1>1. PICK k \in Requests : k = Closed /\ k.batch = {} /\ k.reply = 0 /\ k.cursor = 0
    BY ClosedIsRequest
  <1>2. PICK r : r = [k EXCEPT !.session = s, !.kind = "bootstrap", !.phase = "list"]
    OBVIOUS
  <1>3. /\ r \in Requests /\ r.session = s /\ r.kind = "bootstrap" /\ r.phase = "list"
        /\ r.cursor = 0 /\ r.batch = {} /\ r.reply = 0
    BY <1>1, <1>2 DEF Requests, Phases
  <1>4. handler' = [handler EXCEPT ![h] = r] /\ ~Serves(h) /\ starts' = starts + 1 /\ starts < MaxConnects
    BY <1>1, <1>2 DEF ReadMissingCheckpoint, Begin, Serves
  <1> QED
    BY <1>3, <1>4

LEMMA ReceiveEffect ==
  ASSUME IInv, NEW s \in Sessions, Receive(s)
  PROVE  LET d == client[s]
             m == d.inbox[1]
         IN \E c \in Clients :
              /\ d.inbox # <<>> /\ m \in Messages
              /\ client' = [client EXCEPT ![s] = c] /\ c.link = d.link
              /\ c.inbox = Tail(d.inbox) /\ c.got = d.got \cup m.events
              /\ c.cursor = Greater(d.cursor, m.cursor)
              /\ c.acks = IF m.cursor > 0 THEN Append(d.acks, m.cursor) ELSE d.acks
  <1>1. PICK d \in Clients : d = client[s]
    BY DEF IInv, Types
  <1>2. PICK q \in Seq(Messages) : q = d.inbox /\ q # <<>>
    BY <1>1, QueuesAreTyped DEF Receive
  <1>3. Head(q) = q[1] /\ Head(q) \in Messages /\ Tail(q) \in Seq(Messages)
    <2>1. Head(q) \in Messages /\ Tail(q) \in Seq(Messages)
      BY <1>2, HeadTailProperties
    <2>2. Head(q) = q[1]
      BY <1>2
    <2> QED
      BY <2>1, <2>2
  <1>4. PICK m \in Messages : m = q[1] /\ m = Head(q)
    BY <1>3
  <1>5. m.cursor \in Cursors /\ m.events \in SUBSET Rows /\ d.got \in SUBSET Rows /\ d.cursor \in Cursors
    BY DEF Messages, Clients
  <1>6. PICK n \in Cursors : n = Greater(d.cursor, m.cursor)
    BY <1>5 DEF Greater
  <1>7. PICK a : a = IF m.cursor > 0 THEN Append(d.acks, m.cursor) ELSE d.acks
    OBVIOUS
  <1>8. a \in Seq(1..MaxEvents)
    <2>1. CASE m.cursor > 0
      <3>1. m.cursor \in 1..MaxEvents
        BY <1>5, <2>1 DEF Cursors
      <3> QED
        BY <1>7, <2>1, <3>1, QueuesAreTyped, AppendProperties
    <2>2. CASE ~(m.cursor > 0)
      BY <1>7, <2>2, QueuesAreTyped
    <2> QED
      BY <2>1, <2>2
  <1>9. PICK g \in SUBSET Rows : g = d.got \cup m.events
    BY <1>5
  <1>10. PICK t \in Seq(Messages) : t = Tail(q)
    BY <1>3
  <1>11. PICK c : c = [d EXCEPT !.inbox = t, !.got = g, !.cursor = n, !.acks = a]
    OBVIOUS
  <1>12. c \in Clients /\ c.link = d.link /\ c.inbox = t /\ c.got = g /\ c.cursor = n /\ c.acks = a
    BY <1>8, <1>11 DEF Clients
  <1>13. client' = [client EXCEPT ![s] = c]
    <2>1. client' = [client EXCEPT ![s] = [d EXCEPT
            !.inbox = Tail(q), !.got = d.got \cup m.events, !.cursor = Greater(d.cursor, m.cursor),
            !.acks = IF m.cursor > 0 THEN Append(d.acks, m.cursor) ELSE d.acks]]
      <3>1. client' = [client EXCEPT ![s] = [client[s] EXCEPT
              !.inbox = Tail(client[s].inbox), !.got = client[s].got \cup Head(client[s].inbox).events,
              !.cursor = Greater(client[s].cursor, Head(client[s].inbox).cursor),
              !.acks = IF Head(client[s].inbox).cursor > 0
                       THEN Append(client[s].acks, Head(client[s].inbox).cursor) ELSE client[s].acks]]
        BY DEF Receive
      <3> QED
        BY <1>1, <1>2, <1>4, <3>1
    <2> QED
      BY <1>6, <1>7, <1>9, <1>10, <1>11, <2>1
  <1> QED
    BY <1>1, <1>2, <1>4, <1>6, <1>7, <1>9, <1>10, <1>12, <1>13

LEMMA RefreshEffect ==
  ASSUME IInv, NEW s \in Sessions, Refresh(s) \/ RestoreCheckpoint(s)
  PROVE  \E c \in Clients :
           /\ client' = [client EXCEPT ![s] = c] /\ c.link = client[s].link /\ c.inbox = client[s].inbox
           /\ c.acks = client[s].acks /\ c.got = client[s].got
           /\ \/ /\ c.cursor = Greater(client[s].cursor, LatestSequence)
                 /\ offered' = [offered EXCEPT ![s] = Greater(@, LatestSequence)]
              \/ checkpoint[s] # None /\ c.cursor = checkpoint[s] /\ offered' = offered
  <1>1. PICK d \in Clients : d = client[s]
    BY DEF IInv, Types
  <1>2. CASE Refresh(s)
    <2>1. PICK n \in Cursors : n = Greater(d.cursor, LatestSequence)
      BY LatestIsGreatest DEF IInv, Clients, Greater
    <2>2. PICK c : c = [d EXCEPT !.cursor = n, !.base = Greater(@, LatestSequence)]
      OBVIOUS
    <2>3. Greater(d.base, LatestSequence) \in Cursors
      BY LatestIsGreatest DEF IInv, Clients, Greater
    <2>4. /\ c \in Clients /\ c.link = d.link /\ c.inbox = d.inbox /\ c.acks = d.acks
          /\ c.got = d.got /\ c.cursor = n
      BY <2>2, <2>3 DEF Clients
    <2>5. client' = [client EXCEPT ![s] = c]
      <3>1. client' = [client EXCEPT ![s].cursor = n, ![s].base = Greater(@, LatestSequence)]
        BY <1>1, <1>2, <2>1 DEF Refresh
      <3> QED
        BY <1>1, <2>2, <3>1 DEF IInv, Types
    <2>6. offered' = [offered EXCEPT ![s] = Greater(@, LatestSequence)]
      BY <1>2 DEF Refresh
    <2> QED
      BY <1>1, <2>1, <2>4, <2>5, <2>6
  <1>3. CASE RestoreCheckpoint(s)
    <2>1. PICK n \in Cursors : n = checkpoint[s] /\ checkpoint[s] # None
      BY <1>3 DEF RestoreCheckpoint, IInv, Types
    <2>2. PICK c : c = [d EXCEPT !.cursor = n]
      OBVIOUS
    <2>3. /\ c \in Clients /\ c.link = d.link /\ c.inbox = d.inbox /\ c.acks = d.acks
          /\ c.got = d.got /\ c.cursor = n
      BY <2>2 DEF Clients
    <2>4. client' = [client EXCEPT ![s].cursor = n] /\ offered' = offered
      BY <1>3, <2>1 DEF RestoreCheckpoint
    <2>5. client' = [client EXCEPT ![s] = c]
      BY <1>1, <2>2, <2>4 DEF IInv, Types
    <2> QED
      BY <1>1, <2>1, <2>3, <2>4, <2>5
  <1> QED
    BY <1>2, <1>3

-----------------------------------------------------------------------------
(* Every step keeps the types, the connections and the offers.             *)

LEMMA InitInvariant == Init => IInv
  <1> SUFFICES ASSUME Init PROVE IInv
    OBVIOUS
  <1>1. <<>> \in Seq(Topics) /\ <<>> \in Seq(Messages) /\ <<>> \in Seq(1..MaxEvents) /\ Len(<<>>) = 0
    BY EmptySeq
  <1>2. NewClient \in Clients /\ NewClient.link = None /\ NewClient.cursor = 0
        /\ NewClient.inbox = <<>> /\ NewClient.acks = <<>>
    <2>1. PICK e : e = <<>>
      OBVIOUS
    <2>2. e \in Seq(Messages) /\ e \in Seq(1..MaxEvents) /\ 0 \in Cursors
      BY <1>1, <2>1, StreamAssumption DEF Cursors
    <2>3. NewClient = [link |-> None, cursor |-> 0, inbox |-> e, acks |-> e, got |-> {}, base |-> 0]
      BY <2>1 DEF NewClient
    <2> QED
      BY <2>1, <2>2, <2>3 DEF Clients
  <1>3. Types
    BY <1>1, <1>2, ClosedIsRequest, StreamAssumption DEF Init, Types, Cursors
  <1>4. Links
    BY <1>2, ClosedIsRequest, StreamAssumption DEF Init, Links, Serves
  <1>5. Offers
    BY <1>1, <1>2, ClosedIsRequest DEF Init, Offers, Serves
  <1> QED
    BY <1>3, <1>4, <1>5 DEF IInv

\* Offering n leaves no cursor behind.
LEMMA OfferGrows ==
  ASSUME offered \in [Sessions -> Cursors], NEW s \in Sessions, NEW n \in Cursors,
         offered' = [offered EXCEPT ![s] = Greater(@, n)]
  PROVE  /\ offered' \in [Sessions -> Cursors]
         /\ \A x \in Sessions : offered[x] <= offered'[x] /\ (x # s => offered'[x] = offered[x])
         /\ n <= offered'[s] /\ offered'[s] \in {offered[s], n}
  <1>1. Greater(offered[s], n) \in {offered[s], n} /\ n <= Greater(offered[s], n) /\ offered[s] <= Greater(offered[s], n)
    <2>1. offered[s] \in Int /\ n \in Int
      BY CursorsAreInts
    <2> QED
      BY <2>1 DEF Greater
  <1>2. \A x \in Sessions : offered[x] <= offered[x]
    <2>1. \A x \in Sessions : offered[x] \in Int
      BY CursorsAreInts
    <2> QED
      BY <2>1
  <1> QED
    BY <1>1, <1>2

\* Cursors that were offered before are still offered, and checkpoints with them.
LEMMA OffersLast ==
  ASSUME IInv, NEW s \in Sessions,
         offered' \in [Sessions -> Cursors], \A x \in Sessions : offered[x] <= offered'[x]
  PROVE  /\ \A x \in Sessions : checkpoint[x] # None => checkpoint[x] <= offered'[x]
         /\ client[s].cursor <= offered'[s]
         /\ \A i \in DOMAIN client[s].inbox : client[s].inbox[i].cursor <= offered'[s]
         /\ \A i \in DOMAIN client[s].acks : client[s].acks[i] <= offered'[s]
  <1>1. \A x \in Sessions : offered[x] \in Int /\ offered'[x] \in Int /\ checkpoint[x] \in Int \cup {None}
    BY CursorsAreInts DEF IInv, Types
  <1>2. \A x \in Sessions : \A n \in Int : n <= offered[x] => n <= offered'[x]
    BY <1>1
  <1>3. PICK c \in Clients : c = client[s]
    BY DEF IInv, Types
  <1>4. c.cursor \in Int /\ (\A i \in DOMAIN c.inbox : c.inbox[i].cursor \in Int) /\ \A i \in DOMAIN c.acks : c.acks[i] \in Int
    <2>1. c.cursor \in Cursors /\ (\A i \in DOMAIN c.inbox : c.inbox[i].cursor \in Cursors)
      BY QueuesAreTyped
    <2>2. \A i \in DOMAIN c.acks : c.acks[i] \in 1..MaxEvents
      BY QueuesAreTyped
    <2> QED
      BY <2>1, <2>2, CursorsAreInts DEF Rows
  <1> QED
    BY <1>1, <1>2, <1>3, <1>4 DEF IInv, Offers

\* A client other than the one a handler serves is not connected to it.
LEMMA OthersNotLinked ==
  ASSUME IInv, NEW h \in Handlers, NEW s \in Sessions, Serves(h) => handler[h].session = s
  PROVE  /\ \A x \in Sessions \ {s} : client[x].link # h
         /\ client[s].link = h => Serves(h) /\ handler[h].kind = "ws"
  BY DEF IInv, Links

LEMMA HandlerStepInvariant ==
  ASSUME IInv, NEW h \in Handlers, HandlerStep(h) \/ End(h)
  PROVE  IInv'
  <1> DEFINE s == handler[h].session
  <1>1. /\ offered \in [Sessions -> Cursors] /\ checkpoint \in [Sessions -> Cursors \cup {None}]
        /\ starts \in 0..MaxConnects /\ client \in [Sessions -> Clients] /\ handler[h] \in Requests
        /\ \A x \in Sessions : offered[x] <= offered[x]
    <2>1. \A x \in Sessions : offered[x] \in Int
      BY CursorsAreInts DEF IInv, Types
    <2> QED
      BY <2>1 DEF IInv, Types
  \* A step that leaves the clients and what they were offered alone.
  <1>2. ASSUME NEW r \in Requests, handler' = [handler EXCEPT ![h] = r], Serves(h), Continues(r, handler[h]),
               r.phase # "closed", r.cursor = handler[h].cursor, UNCHANGED <<topic, inserted, stored, client, starts, offered>>,
               checkpoint' \in {checkpoint, [checkpoint EXCEPT ![s] = handler[h].cursor]}
        PROVE  IInv'
    <2>1. s \in Sessions /\ handler[h].cursor <= offered[s] /\ handler[h].cursor \in Cursors
      BY <1>1, <1>2 DEF IInv, Links, Offers, Requests
    <2>2. /\ checkpoint' \in [Sessions -> Cursors \cup {None}]
          /\ \A x \in Sessions : checkpoint'[x] # None => checkpoint'[x] <= offered'[x]
      BY <1>1, <1>2, <2>1 DEF IInv, Offers
    <2>3. client' = [client EXCEPT ![s] = client[s]] /\ client[s] \in Clients
      BY <1>1, <1>2, <2>1
    <2>4. /\ \A x \in Sessions \ {s} : client[x].link # h
          /\ client[s].link = h => handler[h].kind = "ws"
      BY <2>1, OthersNotLinked
    <2>5. /\ client[s].cursor <= offered'[s]
          /\ \A i \in DOMAIN client[s].inbox : client[s].inbox[i].cursor <= offered'[s]
          /\ \A i \in DOMAIN client[s].acks : client[s].acks[i] <= offered'[s]
      BY <1>2, <2>1 DEF IInv, Offers
    <2>6. r.session = s /\ r.kind = handler[h].kind /\ r.cursor <= offered'[s]
      BY <1>2, <2>1 DEF Continues
    <2> HIDE DEF s
    <2>20. Moves(h, s, r, client[s])
      BY <1>1, <1>2, <2>1, <2>2, <2>3, <2>4, <2>5, <2>6 DEF Moves
    <2> QED
      BY <1>2, <2>1, <2>3, <2>20, RequestMoves
  <1>3. CASE List(h)
    <2>1. PICK r \in Requests :
            /\ handler' = [handler EXCEPT ![h] = r] /\ Serves(h) /\ Continues(r, handler[h])
            /\ r.phase = "latest" /\ r.cursor = handler[h].cursor
      BY <1>3, ListEffect
    <2> QED
      BY <1>2, <1>3, <2>1 DEF List
  <1>4. CASE ReadLatest(h)
    <2>1. PICK r \in Requests :
            /\ handler' = [handler EXCEPT ![h] = r] /\ Serves(h) /\ Continues(r, handler[h])
            /\ r.phase = "reply" /\ r.cursor = handler[h].cursor
      BY <1>4, ReadLatestEffect
    <2> QED
      BY <1>2, <1>4, <2>1 DEF ReadLatest
  <1>5. CASE SkipEmpty(h) \/ WriteCheckpoint(h) \/ PollAgain(h)
    <2>1. PICK r \in Requests :
            /\ handler' = [handler EXCEPT ![h] = r] /\ Serves(h) /\ Continues(r, handler[h])
            /\ r.phase \in {"idle", "list"} /\ r.cursor = handler[h].cursor
      BY <1>5, TurnEffect
    <2>2. UNCHANGED <<topic, inserted, stored, client, starts, offered>>
          /\ checkpoint' \in {checkpoint, [checkpoint EXCEPT ![s] = handler[h].cursor]}
      BY <1>5 DEF SkipEmpty, WriteCheckpoint, PollAgain
    <2>3. r.phase # "closed"
      BY <2>1
    <2> QED
      BY <1>2, <2>1, <2>2, <2>3
  <1>6. CASE Send(h)
    <2>1. PICK r \in Requests, c \in Clients :
            /\ handler' = [handler EXCEPT ![h] = r] /\ Serves(h) /\ s \in Sessions /\ handler[h].kind = "ws"
            /\ r.session = s /\ r.kind = "ws" /\ r.phase = "checkpoint" /\ r.cursor = handler[h].reply
            /\ client' = [client EXCEPT ![s] = c]
            /\ c.link = client[s].link /\ c.cursor = client[s].cursor /\ c.acks = client[s].acks
            /\ c.inbox = IF Linked(h) THEN Append(client[s].inbox, [events |-> handler[h].batch, cursor |-> handler[h].reply])
                         ELSE client[s].inbox
            /\ offered' = [offered EXCEPT ![s] = Greater(@, handler[h].reply)]
      BY <1>6, SendEffect
    <2> HIDE DEF s
    <2>2. handler[h].reply \in Cursors /\ handler[h].batch \in SUBSET Rows
      BY <1>1 DEF Requests
    <2>3. /\ offered' \in [Sessions -> Cursors]
          /\ \A x \in Sessions : offered[x] <= offered'[x]
          /\ handler[h].reply <= offered'[s]
      BY <1>1, <2>1, <2>2, OfferGrows
    <2>4. UNCHANGED <<topic, inserted, stored, checkpoint, starts>>
      BY <1>6 DEF Send
    <2>5. /\ \A x \in Sessions : checkpoint[x] # None => checkpoint[x] <= offered'[x]
          /\ client[s].cursor <= offered'[s]
          /\ \A i \in DOMAIN client[s].inbox : client[s].inbox[i].cursor <= offered'[s]
          /\ \A i \in DOMAIN client[s].acks : client[s].acks[i] <= offered'[s]
      BY <2>1, <2>3, OffersLast
    <2>6. \A i \in DOMAIN c.inbox : c.inbox[i].cursor <= offered'[s]
      <3>1. PICK q \in Seq(Messages) : q = client[s].inbox
        BY <1>1, <2>1, QueuesAreTyped
      <3>2. PICK m \in Messages : m = [events |-> handler[h].batch, cursor |-> handler[h].reply]
        BY <2>2 DEF Messages
      <3>3. m.cursor <= offered'[s]
        BY <2>3, <3>2
      <3>4. DOMAIN Append(q, m) = 1..(Len(q) + 1) /\ Append(q, m)[Len(q) + 1] = m
            /\ \A i \in 1..Len(q) : Append(q, m)[i] = q[i]
        BY <3>1, AppendProperties, LenProperties
      <3>5. DOMAIN q = 1..Len(q) /\ Len(q) \in Nat
        BY <3>1, LenProperties
      <3>6. \A i \in 1..(Len(q) + 1) : i \in 1..Len(q) \/ i = Len(q) + 1
        BY <3>5
      <3> QED
        BY <2>1, <2>5, <3>1, <3>2, <3>3, <3>4, <3>5, <3>6
    <2>7. \A x \in Sessions \ {s} : client[x].link # h
      BY <2>1, OthersNotLinked DEF s
    <2>8. checkpoint' = checkpoint /\ starts' = starts /\ r.phase # "closed"
      BY <2>1, <2>4
    <2>20. Moves(h, s, r, c)
      BY <1>1, <2>1, <2>3, <2>4, <2>5, <2>6, <2>7, <2>8 DEF Moves
    <2> QED
      BY <2>1, <2>20, RequestMoves
  <1>7. CASE TakeAck(h)
    <2>1. PICK r \in Requests, c \in Clients :
            /\ handler' = [handler EXCEPT ![h] = r] /\ Serves(h) /\ Continues(r, handler[h])
            /\ s \in Sessions /\ client[s].acks # <<>>
            /\ r.phase = "list" /\ r.cursor = client[s].acks[1]
            /\ client' = [client EXCEPT ![s] = c]
            /\ c.link = client[s].link /\ c.cursor = client[s].cursor
            /\ c.inbox = client[s].inbox /\ c.acks = Tail(client[s].acks)
      BY <1>7, TakeAckEffect
    <2>2. r.session = s /\ r.kind = handler[h].kind
      BY <2>1 DEF Continues
    <2> HIDE DEF s
    <2>3. UNCHANGED <<topic, inserted, stored, checkpoint, starts, offered>>
      BY <1>7 DEF TakeAck
    <2>4. /\ \A x \in Sessions : checkpoint[x] # None => checkpoint[x] <= offered[x]
          /\ client[s].cursor <= offered[s]
          /\ \A i \in DOMAIN client[s].inbox : client[s].inbox[i].cursor <= offered[s]
          /\ \A i \in DOMAIN client[s].acks : client[s].acks[i] <= offered[s]
      BY <2>1 DEF IInv, Offers
    <2>5. r.cursor <= offered[s] /\ \A i \in DOMAIN c.acks : c.acks[i] <= offered[s]
      <3>1. PICK q \in Seq(1..MaxEvents) : q = client[s].acks /\ q # <<>>
        BY <1>1, <2>1, QueuesAreTyped
      <3>2. /\ DOMAIN q = 1..Len(q) /\ Len(q) \in Nat /\ Len(q) > 0
            /\ DOMAIN Tail(q) = 1..(Len(q) - 1) /\ \A i \in 1..(Len(q) - 1) : Tail(q)[i] = q[i + 1]
        BY <3>1
      <3> QED
        BY <2>1, <2>4, <3>1, <3>2
    <2>6. /\ \A x \in Sessions \ {s} : client[x].link # h
          /\ client[s].link = h => handler[h].kind = "ws"
      BY <2>1, OthersNotLinked DEF s
    <2>7. checkpoint' = checkpoint /\ starts' = starts /\ offered' = offered /\ r.phase # "closed"
      BY <2>1, <2>3
    <2>20. Moves(h, s, r, c)
      BY <1>1, <2>1, <2>2, <2>3, <2>4, <2>5, <2>6, <2>7 DEF Moves
    <2> QED
      BY <2>1, <2>20, RequestMoves
  <1>8. CASE Restore(h)
    <2>1. PICK c \in Clients :
            /\ handler' = [handler EXCEPT ![h] = Closed] /\ Serves(h) /\ s \in Sessions /\ handler[h].kind = "bootstrap"
            /\ client' = [client EXCEPT ![s] = c]
            /\ c.cursor = handler[h].reply /\ c.link = client[s].link /\ c.inbox = client[s].inbox
            /\ c.acks = client[s].acks
            /\ offered' = [offered EXCEPT ![s] = Greater(@, handler[h].reply)]
      BY <1>8, RestoreEffect
    <2>2. /\ \A x \in Sessions \ {s} : client[x].link # h
          /\ client[s].link # h
      BY <2>1, OthersNotLinked
    <2> HIDE DEF s
    <2>3. handler[h].reply \in Cursors
      BY <1>1 DEF Requests
    <2>4. /\ offered' \in [Sessions -> Cursors]
          /\ \A x \in Sessions : offered[x] <= offered'[x]
          /\ handler[h].reply <= offered'[s]
      BY <1>1, <2>1, <2>3, OfferGrows
    <2>5. UNCHANGED <<topic, inserted, stored, checkpoint, starts>>
      BY <1>8 DEF Restore
    <2>6. /\ \A x \in Sessions : checkpoint[x] # None => checkpoint[x] <= offered'[x]
          /\ \A i \in DOMAIN client[s].inbox : client[s].inbox[i].cursor <= offered'[s]
          /\ \A i \in DOMAIN client[s].acks : client[s].acks[i] <= offered'[s]
      BY <2>1, <2>4, OffersLast
    <2>7. checkpoint' = checkpoint /\ starts' = starts
      BY <2>5
    <2>20. Moves(h, s, Closed, c)
      BY <1>1, <2>1, <2>2, <2>4, <2>5, <2>6, <2>7, ClosedIsRequest DEF Moves
    <2> QED
      BY <2>1, <2>20, ClosedIsRequest, RequestMoves
  <1>9. CASE End(h)
    <2>1. PICK c \in Clients :
            /\ handler' = [handler EXCEPT ![h] = Closed] /\ Serves(h) /\ s \in Sessions
            /\ client' = [client EXCEPT ![s] = c]
            /\ c.cursor = client[s].cursor /\ c.link # h
            /\ c = client[s] \/ (c.link = None /\ c.inbox = <<>> /\ c.acks = <<>>)
      BY <1>9, EndEffect
    <2>2. \A x \in Sessions \ {s} : client[x].link # h
      BY <2>1, OthersNotLinked
    <2> HIDE DEF s
    <2>3. UNCHANGED <<topic, inserted, stored, checkpoint, starts, offered>>
      BY <1>9 DEF End
    <2>4. /\ \A x \in Sessions : checkpoint[x] # None => checkpoint[x] <= offered[x]
          /\ client[s].cursor <= offered[s]
          /\ \A i \in DOMAIN client[s].inbox : client[s].inbox[i].cursor <= offered[s]
          /\ \A i \in DOMAIN client[s].acks : client[s].acks[i] <= offered[s]
      BY <2>1 DEF IInv, Offers
    <2>5. /\ \A i \in DOMAIN c.inbox : c.inbox[i].cursor <= offered[s]
          /\ \A i \in DOMAIN c.acks : c.acks[i] <= offered[s]
      <3>1. CASE c = client[s]
        BY <2>4, <3>1
      <3>2. CASE c.inbox = <<>> /\ c.acks = <<>>
        BY <3>2
      <3> QED
        BY <2>1, <3>1, <3>2
    <2>6. checkpoint' = checkpoint /\ starts' = starts /\ offered' = offered
      BY <2>3
    <2>20. Moves(h, s, Closed, c)
      BY <1>1, <2>1, <2>2, <2>3, <2>4, <2>5, <2>6, ClosedIsRequest DEF Moves
    <2> QED
      BY <2>1, <2>20, ClosedIsRequest, RequestMoves
  <1> QED
    BY <1>3, <1>4, <1>5, <1>6, <1>7, <1>8, <1>9 DEF HandlerStep

LEMMA ClientStepInvariant ==
  ASSUME IInv, NEW s \in Sessions, ClientStep(s)
  PROVE  IInv'
  <1>1. /\ offered \in [Sessions -> Cursors] /\ checkpoint \in [Sessions -> Cursors \cup {None}]
        /\ starts \in 0..MaxConnects /\ client \in [Sessions -> Clients] /\ MaxConnects \in Nat
        /\ \A x \in Sessions : offered[x] <= offered[x]
    <2>1. \A x \in Sessions : offered[x] \in Int
      BY CursorsAreInts DEF IInv, Types
    <2> QED
      BY <2>1, StreamAssumption DEF IInv, Types
  <1>2. /\ \A x \in Sessions : checkpoint[x] # None => checkpoint[x] <= offered[x]
        /\ client[s].cursor <= offered[s]
        /\ \A i \in DOMAIN client[s].inbox : client[s].inbox[i].cursor <= offered[s]
        /\ \A i \in DOMAIN client[s].acks : client[s].acks[i] <= offered[s]
    BY DEF IInv, Offers
  <1>3. CASE Receive(s)
    <2>1. PICK d \in Clients : d = client[s]
      BY <1>1
    <2>2. PICK m \in Messages, c \in Clients :
            /\ d.inbox # <<>> /\ m = d.inbox[1]
            /\ client' = [client EXCEPT ![s] = c] /\ c.link = d.link
            /\ c.inbox = Tail(d.inbox) /\ c.cursor = Greater(d.cursor, m.cursor)
            /\ c.acks = IF m.cursor > 0 THEN Append(d.acks, m.cursor) ELSE d.acks
      BY <1>3, <2>1, ReceiveEffect
    <2>3. UNCHANGED <<topic, inserted, stored, checkpoint, handler, starts, offered>>
      BY <1>3 DEF Receive
    <2>4. PICK q \in Seq(Messages) : q = d.inbox /\ q # <<>>
      BY <2>2, QueuesAreTyped
    <2>5. /\ DOMAIN q = 1..Len(q) /\ Len(q) \in Nat /\ Len(q) > 0
          /\ DOMAIN Tail(q) = 1..(Len(q) - 1) /\ \A i \in 1..(Len(q) - 1) : Tail(q)[i] = q[i + 1]
      BY <2>4
    <2>6. m.cursor <= offered[s] /\ m.cursor \in Cursors
      <3>1. 1 \in DOMAIN q
        BY <2>5
      <3>2. m.cursor \in Cursors
        BY DEF Messages
      <3> QED
        BY <1>2, <2>1, <2>2, <2>4, <3>1, <3>2
    <2>7. \A i \in DOMAIN c.inbox : c.inbox[i].cursor <= offered[s]
      <3>1. c.inbox = Tail(q) /\ q = client[s].inbox
        BY <2>1, <2>2, <2>4
      <3>2. \A i \in 1..(Len(q) - 1) : i + 1 \in 1..Len(q)
        BY <2>5
      <3>3. \A i \in DOMAIN Tail(q) : Tail(q)[i] = q[i + 1] /\ i + 1 \in DOMAIN q
        BY <2>5, <3>2
      <3> QED
        BY <1>2, <3>1, <3>3
    <2>8. c.cursor <= offered[s]
      <3>1. Greater(d.cursor, m.cursor) \in {d.cursor, m.cursor}
        BY DEF Greater
      <3> QED
        BY <1>2, <2>1, <2>2, <2>6, <3>1
    <2>9. \A i \in DOMAIN c.acks : c.acks[i] <= offered[s]
      <3>1. CASE m.cursor > 0
        <4>1. PICK a \in Seq(1..MaxEvents) : a = d.acks
          BY QueuesAreTyped
        <4>2. PICK n \in 1..MaxEvents : n = m.cursor
          BY <2>6, <3>1 DEF Cursors
        <4>3. DOMAIN Append(a, n) = 1..(Len(a) + 1) /\ Append(a, n)[Len(a) + 1] = n
              /\ \A i \in 1..Len(a) : Append(a, n)[i] = a[i]
          BY <4>1, <4>2, AppendProperties, LenProperties
        <4>4. DOMAIN a = 1..Len(a) /\ Len(a) \in Nat
          BY <4>1, LenProperties
        <4>5. \A i \in 1..(Len(a) + 1) : i \in 1..Len(a) \/ i = Len(a) + 1
          BY <4>4
        <4> QED
          BY <1>2, <2>1, <2>2, <2>6, <3>1, <4>1, <4>2, <4>3, <4>4, <4>5
      <3>2. CASE ~(m.cursor > 0)
        BY <1>2, <2>1, <2>2, <3>2
      <3> QED
        BY <3>1, <3>2
    <2>10. c.link = client[s].link
      BY <2>1, <2>2
    <2> QED
      BY <1>1, <1>2, <2>2, <2>3, <2>7, <2>8, <2>9, <2>10, ClientMoves
  <1>4. CASE Refresh(s) \/ RestoreCheckpoint(s)
    <2>1. PICK c \in Clients :
            /\ client' = [client EXCEPT ![s] = c] /\ c.link = client[s].link /\ c.inbox = client[s].inbox
            /\ c.acks = client[s].acks
            /\ \/ /\ c.cursor = Greater(client[s].cursor, LatestSequence)
                  /\ offered' = [offered EXCEPT ![s] = Greater(@, LatestSequence)]
               \/ checkpoint[s] # None /\ c.cursor = checkpoint[s] /\ offered' = offered
      BY <1>4, RefreshEffect
    <2>2. UNCHANGED <<topic, inserted, stored, checkpoint, handler, starts>>
      BY <1>4 DEF Refresh, RestoreCheckpoint
    <2>3. LatestSequence \in Cursors
      BY LatestIsGreatest DEF IInv
    <2>4. /\ offered' \in [Sessions -> Cursors]
          /\ \A x \in Sessions : offered[x] <= offered'[x]
          /\ c.cursor <= offered'[s]
      <3>1. CASE c.cursor = Greater(client[s].cursor, LatestSequence)
                 /\ offered' = [offered EXCEPT ![s] = Greater(@, LatestSequence)]
        <4>1. /\ offered' \in [Sessions -> Cursors]
              /\ \A x \in Sessions : offered[x] <= offered'[x]
              /\ LatestSequence <= offered'[s]
          BY <1>1, <2>3, <3>1, OfferGrows
        <4>2. client[s].cursor <= offered'[s]
          BY <4>1, OffersLast
        <4>3. Greater(client[s].cursor, LatestSequence) \in {client[s].cursor, LatestSequence}
          BY DEF Greater
        <4> QED
          BY <3>1, <4>1, <4>2, <4>3
      <3>2. CASE checkpoint[s] # None /\ c.cursor = checkpoint[s] /\ offered' = offered
        BY <1>1, <1>2, <3>2
      <3> QED
        BY <2>1, <3>1, <3>2
    <2>5. /\ \A x \in Sessions : checkpoint'[x] # None => checkpoint'[x] <= offered'[x]
          /\ \A i \in DOMAIN c.inbox : c.inbox[i].cursor <= offered'[s]
          /\ \A i \in DOMAIN c.acks : c.acks[i] <= offered'[s]
      BY <2>1, <2>2, <2>4, OffersLast
    <2>6. checkpoint' \in [Sessions -> Cursors \cup {None}]
      BY <1>1, <2>2
    <2> QED
      BY <2>1, <2>2, <2>4, <2>5, <2>6, ClientMoves
  <1>5. CASE PersistCheckpoint(s)
    <2>1. UNCHANGED <<topic, inserted, stored, handler, client, starts, offered>>
          /\ checkpoint' = [checkpoint EXCEPT ![s] = client[s].cursor]
      BY <1>5 DEF PersistCheckpoint
    <2>2. client[s] \in Clients /\ client' = [client EXCEPT ![s] = client[s]] /\ client[s].cursor \in Cursors
      BY <1>1, <2>1, QueuesAreTyped
    <2>3. checkpoint' \in [Sessions -> Cursors \cup {None}]
          /\ \A x \in Sessions : checkpoint'[x] # None => checkpoint'[x] <= offered[x]
      BY <1>1, <1>2, <2>1, <2>2
    <2> QED
      BY <1>1, <1>2, <2>1, <2>2, <2>3, ClientMoves
  <1>6. ASSUME NEW h \in Handlers, Connect(s, h)
        PROVE  IInv'
    <2>1. PICK r \in Requests, c \in Clients :
            /\ handler' = [handler EXCEPT ![h] = r] /\ ~Serves(h) /\ starts' = starts + 1 /\ starts < MaxConnects
            /\ r.session = s /\ r.kind = "ws" /\ r.phase = "list" /\ r.cursor <= offered[s]
            /\ client' = [client EXCEPT ![s] = c]
            /\ c.link = h /\ c.cursor = client[s].cursor /\ c.inbox = <<>> /\ c.acks = <<>>
      BY <1>6, ConnectEffect
    <2>2. topic' = topic /\ inserted' = inserted /\ stored' = stored /\ checkpoint' = checkpoint /\ offered' = offered
      BY <1>6 DEF Connect
    <2>3. \A x \in Sessions \ {s} : client[x].link # h
      BY <2>1, OthersNotLinked
    <2>4. starts' \in 0..MaxConnects
      BY <1>1, <2>1
    <2>5. Moves(h, s, r, c)
      BY <1>1, <1>2, <2>1, <2>2, <2>3, <2>4 DEF Moves
    <2> QED
      BY <2>1, <2>5, RequestMoves
  <1>7. ASSUME NEW h \in Handlers, ReadMissingCheckpoint(s, h)
        PROVE  IInv'
    <2>1. PICK r \in Requests :
            /\ handler' = [handler EXCEPT ![h] = r] /\ ~Serves(h) /\ starts' = starts + 1 /\ starts < MaxConnects
            /\ r.session = s /\ r.phase = "list" /\ r.cursor = 0
      BY <1>7, ReadMissingEffect
    <2>2. topic' = topic /\ inserted' = inserted /\ stored' = stored /\ checkpoint' = checkpoint
          /\ offered' = offered /\ client' = client
      BY <1>7 DEF ReadMissingCheckpoint
    <2>3. (\A x \in Sessions \ {s} : client[x].link # h) /\ client[s].link # h
      BY <2>1, OthersNotLinked
    <2>4. starts' \in 0..MaxConnects
      BY <1>1, <2>1
    <2>5. client[s] \in Clients /\ client' = [client EXCEPT ![s] = client[s]] /\ 0 <= offered[s]
      <3>1. offered[s] \in Cursors
        BY <1>1
      <3> QED
        BY <1>1, <2>2, <3>1 DEF Cursors
    <2>6. Moves(h, s, r, client[s])
      BY <1>1, <1>2, <2>1, <2>2, <2>3, <2>4, <2>5 DEF Moves
    <2> QED
      BY <2>1, <2>5, <2>6, RequestMoves
  <1> QED
    BY <1>3, <1>4, <1>5, <1>6, <1>7 DEF ClientStep

\* A step of the table: it is typed, and checkpoints are kept or dropped.
LEMMA TableStepInvariant ==
  ASSUME IInv, (\E p \in Publishers : Publish(p)) \/ Cleanup
  PROVE  IInv'
  <1>1. topic \in Seq(Topics) /\ Len(topic) \in Nat /\ Len(topic) <= MaxEvents /\ MaxEvents \in Nat
        /\ inserted \in [Publishers -> 1..Len(topic) \cup {None}] /\ stored \subseteq 1..Len(topic)
    BY StreamAssumption DEF IInv, Types
  <1>2. UNCHANGED <<handler, client, starts, offered>>
    BY DEF Publish, Insert, Commit, Rollback, Cleanup
  <1>3. /\ checkpoint' \in [Sessions -> Cursors \cup {None}]
        /\ \A x \in Sessions : checkpoint'[x] \in {checkpoint[x], None}
    <2>1. checkpoint \in [Sessions -> Cursors \cup {None}]
      BY DEF IInv, Types
    <2>2. CASE \E p \in Publishers : Publish(p)
      BY <2>1, <2>2 DEF Publish, Insert, Commit, Rollback
    <2>3. CASE Cleanup
      <3>1. PICK expired : checkpoint' = [s \in Sessions |-> IF s \in expired THEN None ELSE checkpoint[s]]
        BY <2>3 DEF Cleanup
      <3> QED
        BY <2>1, <3>1
    <2> QED
      BY <2>2, <2>3
  <1>4. /\ topic' \in Seq(Topics) /\ Len(topic') <= MaxEvents
        /\ inserted' \in [Publishers -> 1..Len(topic') \cup {None}] /\ stored' \subseteq 1..Len(topic')
    <2>1. CASE \E p \in Publishers, t \in Topics : Insert(p, t)
      <3>1. PICK p \in Publishers, t \in Topics : Insert(p, t)
        BY <2>1
      <3>2. topic' = Append(topic, t) /\ Len(topic) < MaxEvents /\ stored' = stored
            /\ inserted' = [inserted EXCEPT ![p] = Len(topic) + 1]
        BY <3>1 DEF Insert
      <3>3. topic' \in Seq(Topics) /\ Len(topic') = Len(topic) + 1
        BY <1>1, <3>2, AppendProperties
      <3>4. 1..Len(topic) \subseteq 1..Len(topic') /\ Len(topic) + 1 \in 1..Len(topic')
        BY <1>1, <3>3
      <3> QED
        BY <1>1, <3>2, <3>3, <3>4
    <2>2. CASE \E p \in Publishers : Commit(p) \/ Rollback(p)
      BY <1>1, <2>2 DEF Commit, Rollback
    <2>3. CASE Cleanup
      <3>1. PICK oldest \in 0..Len(topic) :
              LET young == {e \in stored : e > oldest}
              IN stored' = young \ Lowest(young, Cardinality(young) - MaxKept)
        BY <2>3 DEF Cleanup
      <3>2. stored' \subseteq stored
        BY <3>1
      <3> QED
        BY <1>1, <2>3, <3>2 DEF Cleanup
    <2> QED
      BY <2>1, <2>2, <2>3 DEF Publish
  <1>5. Types'
    BY <1>2, <1>3, <1>4 DEF IInv, Types
  <1>6. Links'
    BY <1>2 DEF IInv, Links, Serves
  <1>7. Offers'
    BY <1>2, <1>3 DEF IInv, Offers, Serves
  <1> QED
    BY <1>5, <1>6, <1>7 DEF IInv

LEMMA StepInvariant == IInv /\ [Next]_vars => IInv'
  <1> SUFFICES ASSUME IInv, [Next]_vars PROVE IInv'
    OBVIOUS
  <1>1. CASE \E p \in Publishers : Publish(p)
    BY <1>1, TableStepInvariant
  <1>2. CASE \E h \in Handlers : HandlerStep(h) \/ End(h)
    BY <1>2, HandlerStepInvariant
  <1>3. CASE \E s \in Sessions : ClientStep(s)
    BY <1>3, ClientStepInvariant
  <1>4. CASE Cleanup
    BY <1>4, TableStepInvariant
  <1>5. CASE UNCHANGED vars
    BY <1>5 DEF vars, IInv, Types, Links, Offers, Serves
  <1> QED
    BY <1>1, <1>2, <1>3, <1>4, <1>5 DEF Next

\* What requests, clients, links and offers look like in every reachable state.
THEOREM Invariant == Spec => []IInv
  BY InitInvariant, StepInvariant, PTL DEF Spec

\* The types the runs check follow.
LEMMA InvariantImpliesTypeOK == IInv => TypeOK
  <1> SUFFICES ASSUME IInv PROVE TypeOK
    OBVIOUS
  <1>1. ASSUME NEW s \in Sessions
        PROVE  /\ DOMAIN client[s] = DOMAIN NewClient
               /\ client[s].link # None =>
                    /\ client[s].link \in Handlers
                    /\ Linked(client[s].link) /\ handler[client[s].link].session = s
               /\ client[s].cursor \in Cursors /\ client[s].base \in Cursors
               /\ client[s].got \subseteq Rows
               /\ client[s].acks \in Seq(1..MaxEvents)
               /\ client[s].inbox \in Seq([events : SUBSET Rows, cursor : Cursors])
    <2>1. PICK c \in Clients : c = client[s]
      BY DEF IInv, Types
    <2>2. DOMAIN c = {"link", "cursor", "inbox", "acks", "got", "base"}
      BY DEF Clients
    <2>3. DOMAIN NewClient = {"link", "cursor", "inbox", "acks", "got", "base"}
      <3>1. PICK e : e = <<>>
        OBVIOUS
      <3>2. NewClient = [link |-> None, cursor |-> 0, inbox |-> e, acks |-> e, got |-> {}, base |-> 0]
        BY <3>1 DEF NewClient
      <3> QED
        BY <3>2
    <2>4. /\ c.link \in Handlers \cup {None} /\ c.cursor \in Cursors /\ c.base \in Cursors
          /\ c.got \in SUBSET Rows /\ c.acks \in Seq(1..MaxEvents) /\ c.inbox \in Seq(Messages)
      BY DEF Clients
    <2>5. ASSUME c.link # None
          PROVE  c.link \in Handlers /\ Linked(c.link) /\ handler[c.link].session = s
      <3>1. PICK h \in Handlers : h = c.link
        BY <2>4, <2>5
      <3>2. Serves(h) /\ handler[h].session = s
        BY <2>1, <3>1 DEF IInv, Links
      <3>3. Linked(h)
        BY <2>1, <3>1, <3>2 DEF Linked, Serves
      <3> QED
        BY <3>1, <3>2, <3>3
    <2> QED
      BY <2>1, <2>2, <2>3, <2>4, <2>5 DEF Messages
  <1>2. handler \in [Handlers -> [session : Sessions \cup {None}, kind : {"ws", "bootstrap"},
          phase : Phases, initial : BOOLEAN, cursor : Cursors, batch : SUBSET Rows,
          reply : Cursors, base : Cursors, jump : Cursors]]
    BY DEF IInv, Types, Requests
  <1>3. \A h \in Handlers : handler[h].phase # "closed" => handler[h].session \in Sessions
    BY DEF IInv, Links, Serves
  <1> QED
    BY <1>1, <1>2, <1>3 DEF IInv, Types, TypeOK

\* The tables, the handlers and the clients keep their types.
THEOREM TypeCorrect == Spec => []TypeOK
  BY Invariant, InvariantImpliesTypeOK, PTL

\* Cursors of clients, checkpoints and streams are cursors the server has offered the session:
\* an acknowledgement of an arbitrary number never becomes one.
THEOREM CursorsOffered == Spec => []CursorsWereOffered
  <1>1. IInv => CursorsWereOffered
    BY DEF IInv, Offers, CursorsWereOffered
  <1> QED
    BY <1>1, Invariant, PTL

-----------------------------------------------------------------------------
(* What was seen stays behind the rows still to be shown.                  *)

\* All that was seen is numbers.
LEMMA SeenAreInts == IInv => Seen \subseteq Int
  <1> SUFFICES ASSUME IInv PROVE Seen \subseteq Int
    OBVIOUS
  <1>1. 0 \in Int /\ stored \subseteq Int
    BY StoredIsFinite DEF IInv
  <1>2. \A s \in Sessions : offered[s] \in Int
    BY CursorsAreInts DEF IInv, Types
  <1>3. \A h \in Handlers : handler[h].reply \in Int /\ handler[h].batch \subseteq Int
    <2>1. ASSUME NEW h \in Handlers
          PROVE  handler[h].reply \in Cursors /\ handler[h].batch \subseteq Rows
      BY DEF IInv, Types, Requests
    <2> QED
      BY <2>1, CursorsAreInts
  <1> QED
    BY <1>1, <1>2, <1>3 DEF Seen

\* Steps that show nothing new.
LEMMA SeenStays ==
  ASSUME OpenRowsAhead, topic' = topic, Seen' \subseteq Seen,
         \A p \in Publishers : inserted'[p] \in {inserted[p], None}
  PROVE  OpenRowsAhead'
  BY DEF OpenRowsAhead

\* A handler's or a client's step: what it replies, reads and offers was seen before.
LEMMA SeenBySteps ==
  ASSUME stored' \subseteq stored,
         \A x \in Sessions : offered'[x] \in Seen,
         \A g \in Handlers : handler'[g].reply \in Seen /\ handler'[g].batch \subseteq Seen
  PROVE  Seen' \subseteq Seen
  BY DEF Seen

\* A step of handler h that makes r of its request.
LEMMA SeenByHandler ==
  ASSUME IInv, NEW h \in Handlers, NEW r, handler' = [handler EXCEPT ![h] = r], stored' = stored,
         \A x \in Sessions : offered'[x] \in Seen, r.reply \in Seen, r.batch \subseteq Seen
  PROVE  Seen' \subseteq Seen
  <1>1. \A g \in Handlers : handler'[g] = IF g = h THEN r ELSE handler[g]
    BY DEF IInv, Types
  <1>2. \A g \in Handlers : handler[g].reply \in Seen /\ handler[g].batch \subseteq Seen
    BY DEF Seen
  <1>3. \A g \in Handlers : handler'[g].reply \in Seen /\ handler'[g].batch \subseteq Seen
    BY <1>1, <1>2
  <1> QED
    BY <1>3, SeenBySteps

LEMMA SeenHolds ==
  ASSUME IInv
  PROVE  /\ 0 \in Seen /\ stored \subseteq Seen /\ LatestSequence \in Seen
         /\ \A s \in Sessions : offered[s] \in Seen
         /\ \A h \in Handlers : handler[h].reply \in Seen /\ handler[h].batch \subseteq Seen
  BY LatestIsGreatest DEF Seen, IInv

\* What a session is offered was seen.
LEMMA OffersAreSeen ==
  ASSUME IInv, NEW s \in Sessions, NEW n \in Cursors, n \in Seen, offered' = [offered EXCEPT ![s] = Greater(@, n)]
  PROVE  \A x \in Sessions : offered'[x] \in Seen
  <1>1. offered \in [Sessions -> Cursors]
    BY DEF IInv, Types
  <1>2. \A x \in Sessions : offered'[x] \in {offered[x], n}
    BY <1>1, OfferGrows
  <1> QED
    BY <1>2, SeenHolds

LEMMA HandlerSees ==
  ASSUME IInv, OpenRowsAhead, NEW h \in Handlers, HandlerStep(h) \/ End(h)
  PROVE  OpenRowsAhead'
  <1>1. topic' = topic /\ inserted' = inserted /\ stored' = stored
    BY DEF HandlerStep, List, ReadLatest, Send, SkipEmpty, Restore, WriteCheckpoint, TakeAck, PollAgain, End
  <1>2. PICK q \in Requests : q = handler[h]
    BY DEF IInv, Types
  <1>3. q.reply \in Seen /\ q.batch \subseteq Seen /\ 0 \in Seen /\ q.reply \in Cursors
    BY <1>2, SeenHolds DEF Requests
  <1>4. \A x \in Sessions : offered'[x] \in Seen
    <2>1. CASE Send(h)
      <3>1. q.session \in Sessions /\ offered' = [offered EXCEPT ![q.session] = Greater(@, q.reply)]
        BY <1>2, <2>1, SendEffect
      <3> QED
        BY <1>3, <3>1, OffersAreSeen
    <2>2. CASE Restore(h)
      <3>1. q.session \in Sessions /\ offered' = [offered EXCEPT ![q.session] = Greater(@, q.reply)]
        BY <1>2, <2>2, RestoreEffect
      <3> QED
        BY <1>3, <3>1, OffersAreSeen
    <2>3. CASE List(h) \/ ReadLatest(h) \/ SkipEmpty(h) \/ WriteCheckpoint(h) \/ TakeAck(h) \/ PollAgain(h) \/ End(h)
      <3>1. offered' = offered
        BY <2>3 DEF List, ReadLatest, SkipEmpty, WriteCheckpoint, TakeAck, PollAgain, End
      <3> QED
        BY <3>1, SeenHolds
    <2> QED
      BY <2>1, <2>2, <2>3 DEF HandlerStep
  <1>5. \E r : handler' = [handler EXCEPT ![h] = r] /\ r.reply \in Seen /\ r.batch \subseteq Seen
    <2>1. CASE List(h)
      <3>1. PICK r \in Requests, n \in Nat :
              /\ handler' = [handler EXCEPT ![h] = r] /\ r.reply = q.reply
              /\ r.batch = Page(q.session, q.cursor, n)
        BY <1>2, <2>1, ListEffect
      <3>2. r.batch \subseteq stored
        BY <3>1, PageIsStored
      <3> QED
        BY <1>3, <3>1, <3>2, SeenHolds
    <2>2. CASE ReadLatest(h)
      <3>1. PICK r \in Requests :
              /\ handler' = [handler EXCEPT ![h] = r] /\ r.batch = q.batch /\ r.reply = ReconnectCursor(q.batch)
        BY <1>2, <2>2, ReadLatestEffect
      <3>2. ReconnectCursor(q.batch) \in q.batch \cup stored \cup {0}
        BY CursorOfPage DEF IInv, Requests
      <3> QED
        BY <1>3, <3>1, <3>2, SeenHolds
    <2>3. CASE Send(h)
      <3>1. PICK r \in Requests : handler' = [handler EXCEPT ![h] = r] /\ r.batch = {} /\ r.reply = 0
        BY <2>3, SendEffect
      <3> QED
        BY <1>3, <3>1
    <2>4. CASE SkipEmpty(h) \/ WriteCheckpoint(h) \/ PollAgain(h)
      <3>1. PICK r \in Requests :
              handler' = [handler EXCEPT ![h] = r] /\ r.batch = q.batch /\ r.reply \in {q.reply, 0}
        BY <1>2, <2>4, TurnEffect
      <3> QED
        BY <1>3, <3>1
    <2>5. CASE TakeAck(h)
      <3>1. PICK r \in Requests :
              handler' = [handler EXCEPT ![h] = r] /\ r.batch = q.batch /\ r.reply = q.reply
        BY <1>2, <2>5, TakeAckEffect
      <3> QED
        BY <1>3, <3>1
    <2>6. CASE Restore(h) \/ End(h)
      <3>1. handler' = [handler EXCEPT ![h] = Closed]
        BY <2>6 DEF Restore, End
      <3> QED
        BY <1>3, <3>1, ClosedIsRequest
    <2> QED
      BY <2>1, <2>2, <2>3, <2>4, <2>5, <2>6 DEF HandlerStep
  <1>6. Seen' \subseteq Seen
    BY <1>1, <1>4, <1>5, SeenByHandler
  <1> QED
    BY <1>1, <1>6, SeenStays

LEMMA ClientSees ==
  ASSUME IInv, OpenRowsAhead, NEW s \in Sessions, ClientStep(s)
  PROVE  OpenRowsAhead'
  <1>1. topic' = topic /\ inserted' = inserted /\ stored' = stored
    BY DEF ClientStep, Receive, Refresh, RestoreCheckpoint, PersistCheckpoint, Connect, ReadMissingCheckpoint
  <1>2. \A x \in Sessions : offered'[x] \in Seen
    <2>1. CASE Refresh(s)
      <3>1. offered' = [offered EXCEPT ![s] = Greater(@, LatestSequence)]
        BY <2>1 DEF Refresh
      <3> QED
        BY <3>1, OffersAreSeen, SeenHolds, LatestIsGreatest DEF IInv
    <2>2. CASE offered' = offered
      BY <2>2, SeenHolds
    <2> QED
      BY <2>1, <2>2 DEF ClientStep, Receive, RestoreCheckpoint, PersistCheckpoint, Connect, ReadMissingCheckpoint
  <1>3. Seen' \subseteq Seen
    <2>1. CASE handler' = handler
      BY <1>1, <1>2, <2>1, SeenHolds, SeenBySteps
    <2>2. CASE \E h \in Handlers : Connect(s, h) \/ ReadMissingCheckpoint(s, h)
      <3>1. PICK h \in Handlers : Connect(s, h) \/ ReadMissingCheckpoint(s, h)
        BY <2>2
      <3>2. PICK r : handler' = [handler EXCEPT ![h] = r] /\ r.reply = 0 /\ r.batch = {}
        BY <3>1, ConnectEffect, ReadMissingEffect
      <3> QED
        BY <1>1, <1>2, <3>2, SeenByHandler, SeenHolds
    <2> QED
      BY <2>1, <2>2 DEF ClientStep, Receive, Refresh, RestoreCheckpoint, PersistCheckpoint
  <1> QED
    BY <1>1, <1>3, SeenStays

\* A commit shows a row beyond all that was seen; it must be the only one open.
LEMMA TableSees ==
  ASSUME IInv, OpenRowsAhead, OneOpenInsert, (\E p \in Publishers : Publish(p)) \/ Cleanup
  PROVE  /\ OpenRowsAhead'
         /\ UNCHANGED <<handler, client, offered>>
         /\ \A e \in stored' : \/ e \in stored /\ topic'[e] = topic[e]
                               \/ \A n \in Seen : n < e
  <1>1. topic \in Seq(Topics) /\ Len(topic) \in Nat /\ stored \subseteq 1..Len(topic)
        /\ inserted \in [Publishers -> 1..Len(topic) \cup {None}]
    BY DEF IInv, Types
  <1>2. UNCHANGED <<handler, client, offered>>
    BY DEF Publish, Insert, Commit, Rollback, Cleanup
  <1>3. Seen \subseteq Int
    BY SeenAreInts
  <1>4. CASE \E p \in Publishers, t \in Topics : Insert(p, t)
    <2>1. PICK p \in Publishers, t \in Topics : Insert(p, t)
      BY <1>4
    <2>2. topic' = Append(topic, t) /\ stored' = stored /\ inserted' = [inserted EXCEPT ![p] = Len(topic) + 1]
      BY <2>1 DEF Insert
    <2>3. Len(topic') = Len(topic) + 1 /\ \A e \in 1..Len(topic) : topic'[e] = topic[e]
      BY <1>1, <2>2, AppendProperties
    <2>4. Seen' = Seen
      BY <1>2, <2>2 DEF Seen
    <2>5. \A n \in Seen : n <= Len(topic) + 1 /\ n < Len(topic) + 1
      <3>1. \A n \in Int : n <= Len(topic) => n <= Len(topic) + 1 /\ n < Len(topic) + 1
        BY <1>1
      <3> QED
        BY <1>3, <3>1 DEF OpenRowsAhead
    <2>6. OpenRowsAhead'
      <3>1. \A x \in Publishers : inserted'[x] = IF x = p THEN Len(topic) + 1 ELSE inserted[x]
        BY <1>1, <2>2
      <3> QED
        BY <2>3, <2>4, <2>5, <3>1 DEF OpenRowsAhead
    <2> QED
      BY <1>1, <1>2, <2>2, <2>3, <2>6
  <1>5. CASE \E p \in Publishers : Commit(p)
    <2>1. PICK p \in Publishers : Commit(p)
      BY <1>5
    <2>2. topic' = topic /\ stored' = stored \cup {inserted[p]} /\ inserted[p] # None
          /\ inserted' = [inserted EXCEPT ![p] = None]
      BY <2>1 DEF Commit
    <2>3. \A x \in Publishers : inserted'[x] = None
      BY <1>1, <2>2 DEF OneOpenInsert
    <2>4. Seen' \subseteq Seen \cup {inserted[p]}
      BY <1>2, <2>2 DEF Seen
    <2>5. inserted[p] <= Len(topic) /\ \A n \in Seen : n <= Len(topic) /\ n < inserted[p]
      BY <1>1, <2>2 DEF OpenRowsAhead
    <2>6. OpenRowsAhead'
      BY <2>2, <2>3, <2>4, <2>5 DEF OpenRowsAhead
    <2> QED
      BY <1>2, <2>2, <2>5, <2>6
  <1>6. CASE (\E p \in Publishers : Rollback(p)) \/ Cleanup
    <2>1. topic' = topic /\ stored' \subseteq stored
      BY <1>6 DEF Rollback, Cleanup
    <2>2. \A p \in Publishers : inserted'[p] \in {inserted[p], None}
      BY <1>1, <1>6 DEF Rollback, Cleanup
    <2>3. Seen' \subseteq Seen
      BY <1>2, <2>1 DEF Seen
    <2> QED
      BY <1>2, <2>1, <2>2, <2>3, SeenStays
  <1> QED
    BY <1>4, <1>5, <1>6 DEF Publish

-----------------------------------------------------------------------------
(* Nothing is skipped.                                                     *)

\* A handler that is left alone, whose client keeps its connection only with all that is
\* in flight on it.
LEMMA OthersDelivered ==
  ASSUME IInv, NEW s \in Sessions, NEW c \in Clients, client' = [client EXCEPT ![s] = c],
         UNCHANGED <<topic, stored>>, NEW g \in Handlers, handler'[g] = handler[g], Delivered(g),
         c.link = g => /\ c.link = client[s].link /\ c.inbox = client[s].inbox
                       /\ c.acks = client[s].acks /\ c.got = client[s].got
  PROVE  Delivered(g)'
  <1>1. client'[s] = c /\ \A x \in Sessions \ {s} : client'[x] = client[x]
    BY DEF IInv, Types
  <1>2. NoGap(g)' <=> NoGap(g)
    BY DEF NoGap
  <1>3. EndsPage(g)' <=> EndsPage(g)
    BY DEF EndsPage
  <1>4. ASSUME Streams(g)'
        PROVE  /\ Streams(g) /\ Peer(g)'.inbox = Peer(g).inbox
               /\ Peer(g)'.acks = Peer(g).acks /\ Peer(g)'.got = Peer(g).got
    <2>1. Serves(g) /\ handler[g].kind = "ws" /\ client'[handler[g].session].link = g
      BY <1>4 DEF Streams, Linked, Serves
    <2>2. handler[g].session \in Sessions
      BY <2>1 DEF IInv, Links
    <2>3. CASE handler[g].session = s
      BY <1>1, <2>1, <2>3 DEF Streams, Linked, Serves, Peer
    <2>4. CASE handler[g].session # s
      BY <1>1, <2>1, <2>2, <2>4 DEF Streams, Linked, Serves, Peer
    <2> QED
      BY <2>3, <2>4
  <1>5. Streams(g)' => GivenUpTo(g)' = GivenUpTo(g)
    <2>1. Streams(g)' => Given(g)' = Given(g)
      BY <1>4 DEF Given
    <2> QED
      BY <2>1 DEF GivenUpTo, From
  <1> QED
    BY <1>2, <1>3, <1>4, <1>5 DEF Delivered

\* A step of h that keeps its stream and its client: the phase, the page or the reply change.
LEMMA OwnRequestDelivered ==
  ASSUME IInv, NEW h \in Handlers, Delivered(h), NEW r \in Requests, handler' = [handler EXCEPT ![h] = r],
         UNCHANGED <<topic, stored, client>>, Serves(h), Continues(r, handler[h]), r.cursor = handler[h].cursor,
         r.phase # "closed",
         (r.phase \in {"latest", "reply"} => NoGap(h))', (r.phase = "reply" => EndsPage(h))'
  PROVE  Delivered(h)'
  <1>1. handler'[h] = r
    BY DEF IInv, Types
  <1>2. Streams(h)' => Streams(h)
    BY <1>1 DEF Streams, Linked, Continues, Serves
  <1>3. Peer(h)' = Peer(h)
    BY <1>1 DEF Peer, Continues
  <1>4. GivenUpTo(h)' = GivenUpTo(h)
    <2>1. Given(h)' = Given(h)
      BY <1>3 DEF Given
    <2> QED
      BY <1>1, <2>1 DEF GivenUpTo, From, Continues
  <1>5. r.initial = handler[h].initial
    BY DEF Continues
  <1> QED
    BY <1>1, <1>2, <1>3, <1>4, <1>5 DEF Delivered

LEMMA ListDelivers ==
  ASSUME IInv, NEW h \in Handlers, Delivered(h), List(h)
  PROVE  Delivered(h)'
  <1>1. PICK r \in Requests, n \in Nat :
          /\ handler' = [handler EXCEPT ![h] = r] /\ Serves(h) /\ Continues(r, handler[h])
          /\ r.phase = "latest" /\ r.cursor = handler[h].cursor
          /\ r.batch = Page(handler[h].session, handler[h].cursor, n)
    BY ListEffect
  <1>2. UNCHANGED <<topic, stored, client>>
    BY DEF List
  <1>3. handler'[h] = r /\ r.session = handler[h].session
    BY <1>1 DEF IInv, Types, Continues
  <1>4. handler[h].cursor \in Int
    BY CursorsAreInts DEF IInv, Types, Requests
  <1>5. NoGap(h)'
    <2>1. ASSUME NEW e \in stored, NEW d \in r.batch, topic[e] = Subscription[handler[h].session],
                 handler[h].cursor < e, e <= d
          PROVE  e \in r.batch
      BY <1>1, <1>4, <2>1, PageHasNoGap DEF IInv
    <2> QED
      BY <1>1, <1>2, <1>3, <2>1 DEF NoGap
  <1> QED
    BY <1>1, <1>2, <1>5, OwnRequestDelivered

LEMMA ReadLatestDelivers ==
  ASSUME IInv, NEW h \in Handlers, Delivered(h), ReadLatest(h)
  PROVE  Delivered(h)'
  <1>1. PICK r \in Requests :
          /\ handler' = [handler EXCEPT ![h] = r] /\ Serves(h) /\ Continues(r, handler[h])
          /\ r.phase = "reply" /\ r.cursor = handler[h].cursor
          /\ r.batch = handler[h].batch /\ r.reply = ReconnectCursor(handler[h].batch)
    BY ReadLatestEffect
  <1>2. UNCHANGED <<topic, stored, client>> /\ handler[h].phase = "latest"
    BY DEF ReadLatest
  <1>3. handler'[h] = r /\ r.session = handler[h].session
    BY <1>1 DEF IInv, Types, Continues
  <1>4. NoGap(h)'
    <2>1. NoGap(h)
      BY <1>2 DEF Delivered
    <2> QED
      BY <1>1, <1>2, <1>3, <2>1 DEF NoGap
  <1>5. EndsPage(h)'
    <2>1. handler[h].batch # {} =>
            /\ ReconnectCursor(handler[h].batch) \in handler[h].batch
            /\ \A e \in handler[h].batch : e <= ReconnectCursor(handler[h].batch)
      <3>1. handler[h].batch \in SUBSET Rows
        BY DEF IInv, Types, Requests
      <3> QED
        BY <3>1, CursorOfPage DEF IInv
    <2> QED
      BY <1>1, <1>3, <2>1 DEF EndsPage
  <1> QED
    BY <1>1, <1>2, <1>4, <1>5, OwnRequestDelivered

LEMMA TurnDelivers ==
  ASSUME IInv, NEW h \in Handlers, Delivered(h), SkipEmpty(h) \/ WriteCheckpoint(h) \/ PollAgain(h)
  PROVE  Delivered(h)'
  <1>1. PICK r \in Requests :
          /\ handler' = [handler EXCEPT ![h] = r] /\ Serves(h) /\ Continues(r, handler[h])
          /\ r.phase \in {"idle", "list"} /\ r.cursor = handler[h].cursor
    BY TurnEffect
  <1>2. UNCHANGED <<topic, stored, client>>
    BY DEF SkipEmpty, WriteCheckpoint, PollAgain
  <1>3. r.phase \notin {"latest", "reply", "closed"}
    BY <1>1
  <1> QED
    BY <1>1, <1>2, <1>3, OwnRequestDelivered

\* A reply moves the handler to the end of its page, and carries the page.
LEMMA SendDelivers ==
  ASSUME IInv, NEW h \in Handlers, Delivered(h), Send(h)
  PROVE  Delivered(h)'
  <1>1. PICK q \in Requests : q = handler[h]
    BY DEF IInv, Types
  <1>2. PICK s \in Sessions : s = q.session
    BY <1>1, SendEffect
  <1>3. PICK d \in Clients : d = client[s]
    BY DEF IInv, Types
  <1>4. PICK r \in Requests, c \in Clients :
          /\ handler' = [handler EXCEPT ![h] = r] /\ Serves(h)
          /\ q.phase = "reply" /\ q.kind = "ws"
          /\ r.session = s /\ r.kind = "ws" /\ r.phase = "checkpoint" /\ ~r.initial
          /\ r.cursor = q.reply /\ r.batch = {}
          /\ r.base = q.base /\ r.jump = IF q.initial /\ q.batch = {} THEN q.reply ELSE q.jump
          /\ q.initial \/ q.batch # {}
          /\ client' = [client EXCEPT ![s] = c]
          /\ c.link = d.link /\ c.acks = d.acks /\ c.got = d.got
          /\ c.inbox = IF Linked(h) THEN Append(d.inbox, [events |-> q.batch, cursor |-> q.reply]) ELSE d.inbox
    BY <1>1, <1>2, <1>3, SendEffect
  <1>5. UNCHANGED <<topic, stored>>
    BY DEF Send
  <1>6. handler'[h] = r /\ client'[s] = c /\ Peer(h)' = c /\ Peer(h) = d
    BY <1>1, <1>2, <1>3, <1>4 DEF IInv, Types, Peer
  <1>7. PICK m \in Messages : m = [events |-> q.batch, cursor |-> q.reply]
    BY DEF Messages, Requests
  <1>8. m.events = q.batch /\ m.cursor = q.reply /\ q.reply \in Cursors /\ q.batch \in SUBSET Rows /\ q.cursor \in Cursors
    BY <1>7 DEF Requests
  <1>9. PICK i \in Seq(Messages) : i = d.inbox
    BY QueuesAreTyped
  <1>10. /\ DOMAIN i = 1..Len(i) /\ Len(i) \in Nat
         /\ DOMAIN Append(i, m) = 1..(Len(i) + 1) /\ Append(i, m)[Len(i) + 1] = m
         /\ \A j \in 1..Len(i) : Append(i, m)[j] = i[j]
    BY AppendProperties, LenProperties
  <1>11. \A j \in 1..(Len(i) + 1) : j \in 1..Len(i) \/ j = Len(i) + 1
    BY <1>10
  <1>12. ASSUME Streams(h)'
         PROVE  /\ r.cursor \in GivenUpTo(h)'
                /\ \A j \in DOMAIN c.inbox : c.inbox[j].cursor \in GivenUpTo(h)'
                /\ \A j \in DOMAIN c.acks : c.acks[j] \in GivenUpTo(h)'
    <2>1. Linked(h) /\ Streams(h)
      BY <1>1, <1>2, <1>3, <1>4, <1>6, <1>12 DEF Streams, Linked, Serves, Peer
    <2>2. c.inbox = Append(i, m)
      BY <1>4, <1>7, <1>9, <2>1
    <2>3. Given(h) \cup q.batch \subseteq Given(h)'
      <3>1. Given(h) = d.got \cup UNION {i[j].events : j \in DOMAIN i}
        BY <1>6, <1>9 DEF Given
      <3>2. Given(h)' = c.got \cup UNION {c.inbox[j].events : j \in DOMAIN c.inbox}
        BY <1>6 DEF Given
      <3>3. \A j \in DOMAIN i : j \in DOMAIN c.inbox /\ c.inbox[j] = i[j]
        BY <1>10, <2>2
      <3>4. Len(i) + 1 \in DOMAIN c.inbox /\ c.inbox[Len(i) + 1].events = q.batch
        BY <1>8, <1>10, <2>2
      <3> QED
        BY <1>4, <3>1, <3>2, <3>3, <3>4
    <2>4. ASSUME q.batch # {} \/ ~q.initial, NEW n \in GivenUpTo(h)
          PROVE  n \in GivenUpTo(h)'
      <3>1. From(h)' = From(h)
        BY <1>1, <1>4, <1>6, <2>4 DEF From
      <3> QED
        BY <1>1, <1>2, <1>4, <1>5, <1>6, <2>3, <2>4, <3>1 DEF GivenUpTo
    <2>5. q.reply \in GivenUpTo(h)'
      <3>1. CASE q.batch = {}
        <4>1. r.jump = q.reply
          BY <1>4, <3>1
        <4>2. \A e \in stored : ~(From(h)' < e /\ e <= q.reply)
          <5>1. \A e \in stored : e \in Int
            BY StoredIsFinite DEF IInv
          <5>2. q.reply \in Int /\ r.base \in Int
            BY <1>8, CursorsAreInts DEF Requests
          <5>3. From(h)' = Greater(r.base, q.reply)
            BY <1>6, <4>1 DEF From
          <5> QED
            BY <5>1, <5>2, <5>3 DEF Greater
        <4> QED
          BY <1>5, <1>6, <1>8, <4>2 DEF GivenUpTo
      <3>2. CASE q.batch # {}
        <4>1. NoGap(h) /\ EndsPage(h) /\ q.cursor \in GivenUpTo(h)
          BY <1>1, <1>4, <2>1 DEF Delivered
        <4>2. ASSUME NEW e \in stored, topic[e] = Subscription[s], From(h)' < e, e <= q.reply
              PROVE  e \in Given(h)'
          <5>1. From(h)' = From(h)
            BY <1>1, <1>4, <1>6, <3>2 DEF From
          <5>2. e \in Int /\ q.cursor \in Int
            BY <1>8, CursorsAreInts, StoredIsFinite DEF IInv
          <5>3. CASE e <= q.cursor
            BY <1>1, <1>2, <2>3, <4>1, <4>2, <5>1, <5>3 DEF GivenUpTo
          <5>4. CASE q.cursor < e
            <6>1. q.reply \in q.batch
              BY <1>1, <3>2, <4>1 DEF EndsPage
            <6>2. e \in q.batch
              BY <1>1, <1>2, <4>1, <4>2, <5>4, <6>1 DEF NoGap
            <6> QED
              BY <2>3, <6>2
          <5> QED
            BY <5>2, <5>3, <5>4
        <4> QED
          BY <1>4, <1>5, <1>6, <1>8, <4>2 DEF GivenUpTo
      <3> QED
        BY <3>1, <3>2
    <2>6. (q.batch # {} \/ ~q.initial) \/ (i = <<>> /\ d.acks = <<>>)
      BY <1>1, <1>6, <1>9, <2>1 DEF Delivered
    <2>7. ASSUME NEW j \in DOMAIN c.inbox
          PROVE  c.inbox[j].cursor \in GivenUpTo(h)'
      <3>1. CASE j = Len(i) + 1
        BY <1>8, <1>10, <2>2, <2>5, <3>1
      <3>2. CASE j \in 1..Len(i)
        <4>1. i # <<>>
          BY <1>10, <3>2
        <4>2. i[j].cursor \in GivenUpTo(h)
          BY <1>6, <1>9, <1>10, <2>1, <3>2 DEF Delivered
        <4>3. c.inbox[j] = i[j]
          BY <1>10, <2>2, <3>2
        <4> QED
          BY <2>4, <2>6, <4>1, <4>2, <4>3
      <3> QED
        BY <1>10, <1>11, <2>2, <2>7, <3>1, <3>2
    <2>8. ASSUME NEW j \in DOMAIN c.acks
          PROVE  c.acks[j] \in GivenUpTo(h)'
      <3>1. d.acks # <<>>
        BY <1>4
      <3>2. d.acks[j] \in GivenUpTo(h)
        BY <1>4, <1>6, <2>1 DEF Delivered
      <3> QED
        BY <1>4, <2>4, <2>6, <3>1, <3>2
    <2> QED
      BY <1>4, <2>5, <2>7, <2>8
  <1> QED
    BY <1>4, <1>6, <1>12 DEF Delivered

\* An acknowledgement moves the handler to a cursor that was delivered up to.
LEMMA TakeAckDelivers ==
  ASSUME IInv, NEW h \in Handlers, Delivered(h), TakeAck(h)
  PROVE  Delivered(h)'
  <1>1. PICK s \in Sessions : s = handler[h].session
    BY TakeAckEffect
  <1>2. PICK d \in Clients : d = client[s]
    BY DEF IInv, Types
  <1>3. PICK r \in Requests, c \in Clients :
          /\ handler' = [handler EXCEPT ![h] = r] /\ Serves(h) /\ Continues(r, handler[h])
          /\ Linked(h) /\ d.acks # <<>>
          /\ r.phase = "list" /\ r.cursor = d.acks[1]
          /\ client' = [client EXCEPT ![s] = c]
          /\ c.link = d.link /\ c.got = d.got /\ c.inbox = d.inbox /\ c.acks = Tail(d.acks)
    BY <1>1, <1>2, TakeAckEffect
  <1>4. UNCHANGED <<topic, stored>>
    BY DEF TakeAck
  <1>5. handler'[h] = r /\ client'[s] = c /\ Peer(h)' = c /\ Peer(h) = d
    BY <1>1, <1>2, <1>3 DEF IInv, Types, Peer, Continues
  <1>6. PICK a \in Seq(1..MaxEvents) : a = d.acks /\ a # <<>>
    BY <1>3, QueuesAreTyped
  <1>7. /\ 1 \in DOMAIN a
        /\ \A j \in DOMAIN Tail(a) : j + 1 \in DOMAIN a /\ Tail(a)[j] = a[j + 1]
    <2>1. /\ DOMAIN a = 1..Len(a) /\ Len(a) \in Nat /\ Len(a) > 0
          /\ DOMAIN Tail(a) = 1..(Len(a) - 1) /\ \A i \in 1..(Len(a) - 1) : Tail(a)[i] = a[i + 1]
      BY <1>6
    <2> QED
      BY <2>1
  <1>8. ASSUME Streams(h)'
        PROVE  /\ r.cursor \in GivenUpTo(h)'
               /\ \A j \in DOMAIN c.inbox : c.inbox[j].cursor \in GivenUpTo(h)'
               /\ \A j \in DOMAIN c.acks : c.acks[j] \in GivenUpTo(h)'
               /\ ~r.initial
    <2>1. Streams(h)
      BY <1>3, <1>5, <1>8 DEF Streams, Linked, Continues
    <2>2. Given(h)' = Given(h)
      BY <1>3, <1>5 DEF Given
    <2>3. GivenUpTo(h)' = GivenUpTo(h)
      BY <1>3, <1>4, <1>5, <2>2 DEF GivenUpTo, From, Continues
    <2>4. \A j \in DOMAIN a : a[j] \in GivenUpTo(h)
      BY <1>5, <1>6, <2>1 DEF Delivered
    <2>5. \A j \in DOMAIN d.inbox : d.inbox[j].cursor \in GivenUpTo(h)
      BY <1>5, <2>1 DEF Delivered
    <2>6. ~handler[h].initial
      BY <1>3, <1>5, <2>1 DEF Delivered
    <2> QED
      BY <1>3, <1>6, <1>7, <2>3, <2>4, <2>5, <2>6 DEF Continues
  <1> QED
    BY <1>3, <1>5, <1>8 DEF Delivered

LEMMA HandlerDelivers ==
  ASSUME IInv, NEW h \in Handlers, HandlerStep(h) \/ End(h), NEW g \in Handlers, Delivered(g)
  PROVE  Delivered(g)'
  <1>1. CASE g = h
    <2>1. CASE Restore(h) \/ End(h)
      <3>1. handler'[g] = Closed
        BY <1>1, <2>1 DEF Restore, End, IInv, Types
      <3> QED
        BY <3>1, ClosedIsRequest DEF Delivered, Streams, Linked
    <2> QED
      BY <1>1, <2>1, ListDelivers, ReadLatestDelivers, TurnDelivers, SendDelivers, TakeAckDelivers DEF HandlerStep
  <1>2. CASE g # h
    <2>1. topic' = topic /\ stored' = stored
      BY DEF HandlerStep, List, ReadLatest, Send, SkipEmpty, Restore, WriteCheckpoint, TakeAck, PollAgain, End
    <2>2. PICK s \in Sessions : s = handler[h].session /\ Serves(h)
      BY DEF IInv, Links, HandlerStep, List, ReadLatest, Send, SkipEmpty, Restore, WriteCheckpoint, TakeAck,
             PollAgain, End, Serves
    <2>3. client[s] \in Clients /\ client \in [Sessions -> Clients] /\ handler \in [Handlers -> Requests] /\ g # None
      BY StreamAssumption DEF IInv, Types
    <2>4. CASE Send(h)
      <3>1. PICK r \in Requests, c \in Clients :
              /\ handler' = [handler EXCEPT ![h] = r] /\ client' = [client EXCEPT ![s] = c]
              /\ c.link = client[s].link /\ c.acks = client[s].acks /\ c.got = client[s].got
              /\ c.inbox = IF Linked(h)
                            THEN Append(client[s].inbox, [events |-> handler[h].batch, cursor |-> handler[h].reply])
                            ELSE client[s].inbox
        BY <2>2, <2>4, SendEffect
      <3>2. handler'[g] = handler[g] /\ (Linked(h) => client[s].link = h)
        BY <1>2, <2>2, <2>3, <3>1 DEF Linked
      <3> QED
        BY <1>2, <2>1, <3>1, <3>2, OthersDelivered
    <2>5. CASE TakeAck(h)
      <3>1. PICK r \in Requests, c \in Clients :
              /\ handler' = [handler EXCEPT ![h] = r] /\ client' = [client EXCEPT ![s] = c]
              /\ Linked(h) /\ c.link = client[s].link
        BY <2>2, <2>5, TakeAckEffect
      <3>2. handler'[g] = handler[g] /\ client[s].link = h
        BY <1>2, <2>2, <2>3, <3>1 DEF Linked
      <3> QED
        BY <1>2, <2>1, <3>1, <3>2, OthersDelivered
    <2>6. CASE Restore(h)
      <3>1. PICK c \in Clients :
              /\ handler' = [handler EXCEPT ![h] = Closed] /\ client' = [client EXCEPT ![s] = c]
              /\ c.link = client[s].link /\ c.inbox = client[s].inbox
              /\ c.acks = client[s].acks /\ c.got = client[s].got
        BY <2>2, <2>6, RestoreEffect
      <3>2. handler'[g] = handler[g]
        BY <1>2, <2>3, <3>1
      <3> QED
        BY <2>1, <3>1, <3>2, OthersDelivered
    <2>7. CASE End(h)
      <3>1. PICK c \in Clients :
              /\ handler' = [handler EXCEPT ![h] = Closed] /\ client' = [client EXCEPT ![s] = c]
              /\ c = client[s] \/ c.link = None
        BY <2>2, <2>7, EndEffect
      <3>2. handler'[g] = handler[g]
        BY <1>2, <2>3, <3>1
      <3> QED
        BY <2>1, <2>3, <3>1, <3>2, OthersDelivered
    <2>8. CASE List(h) \/ ReadLatest(h) \/ SkipEmpty(h) \/ WriteCheckpoint(h) \/ PollAgain(h)
      <3>1. client' = client
        BY <2>8 DEF List, ReadLatest, SkipEmpty, WriteCheckpoint, PollAgain
      <3>2. client' = [client EXCEPT ![s] = client[s]]
        BY <2>3, <3>1
      <3>3. \E r \in Requests : handler' = [handler EXCEPT ![h] = r]
        BY <2>8, ListEffect, ReadLatestEffect, TurnEffect
      <3>4. handler'[g] = handler[g]
        BY <1>2, <2>3, <3>3
      <3> QED
        BY <2>1, <2>3, <3>2, <3>4, OthersDelivered
    <2> QED
      BY <2>4, <2>5, <2>6, <2>7, <2>8 DEF HandlerStep
  <1> QED
    BY <1>1, <1>2

\* A message that is applied stays given, and its cursor may come back.
LEMMA ReceiveDelivers ==
  ASSUME IInv, NEW s \in Sessions, Receive(s), NEW g \in Handlers, Delivered(g)
  PROVE  Delivered(g)'
  <1>1. PICK d \in Clients : d = client[s]
    BY DEF IInv, Types
  <1>2. PICK m \in Messages, c \in Clients :
          /\ d.inbox # <<>> /\ m = d.inbox[1]
          /\ client' = [client EXCEPT ![s] = c] /\ c.link = d.link
          /\ c.inbox = Tail(d.inbox) /\ c.got = d.got \cup m.events
          /\ c.acks = IF m.cursor > 0 THEN Append(d.acks, m.cursor) ELSE d.acks
    BY <1>1, ReceiveEffect
  <1>3. UNCHANGED <<topic, stored, handler>>
    BY DEF Receive
  <1>4. CASE client[s].link = g
    <2>1. PICK q \in Seq(Messages) : q = d.inbox /\ q # <<>>
      BY <1>2, QueuesAreTyped
    <2>2. /\ DOMAIN q = 1..Len(q) /\ Len(q) \in Nat /\ Len(q) > 0
          /\ DOMAIN Tail(q) = 1..(Len(q) - 1) /\ \A i \in 1..(Len(q) - 1) : Tail(q)[i] = q[i + 1]
      BY <2>1
    <2>3. /\ 1 \in DOMAIN q
          /\ \A i \in DOMAIN Tail(q) : i + 1 \in DOMAIN q /\ Tail(q)[i] = q[i + 1]
          /\ \A i \in DOMAIN q : i = 1 \/ (i - 1 \in DOMAIN Tail(q) /\ Tail(q)[i - 1] = q[i])
      BY <2>2
    <2>4. handler[g].session = s /\ client'[s] = c /\ Peer(g)' = c /\ Peer(g) = d
      BY <1>1, <1>2, <1>3, <1>4 DEF IInv, Links, Types, Peer
    <2>5. Given(g) \subseteq Given(g)'
      <3>1. Given(g) = d.got \cup UNION {q[i].events : i \in DOMAIN q}
        BY <2>1, <2>4 DEF Given
      <3>2. Given(g)' = c.got \cup UNION {c.inbox[i].events : i \in DOMAIN c.inbox}
        BY <2>4 DEF Given
      <3>3. c.inbox = Tail(q) /\ c.got = d.got \cup m.events /\ m = q[1]
        BY <1>2, <2>1
      <3>4. ASSUME NEW i \in DOMAIN q, NEW e \in q[i].events
            PROVE  e \in Given(g)'
        <4>1. CASE i = 1
          BY <3>2, <3>3, <3>4, <4>1
        <4>2. CASE i - 1 \in DOMAIN Tail(q) /\ Tail(q)[i - 1] = q[i]
          BY <3>2, <3>3, <3>4, <4>2
        <4> QED
          BY <2>3, <4>1, <4>2
      <3> QED
        BY <3>1, <3>2, <3>3, <3>4
    <2>6. GivenUpTo(g) \subseteq GivenUpTo(g)'
      BY <1>3, <2>5 DEF GivenUpTo, From
    <2>7. ASSUME Streams(g)
          PROVE  /\ handler[g].cursor \in GivenUpTo(g)'
                 /\ \A i \in DOMAIN c.inbox : c.inbox[i].cursor \in GivenUpTo(g)'
                 /\ \A i \in DOMAIN c.acks : c.acks[i] \in GivenUpTo(g)'
                 /\ ~handler[g].initial
      <3>1. /\ handler[g].cursor \in GivenUpTo(g)
            /\ \A i \in DOMAIN q : q[i].cursor \in GivenUpTo(g)
            /\ \A i \in DOMAIN d.acks : d.acks[i] \in GivenUpTo(g)
            /\ ~handler[g].initial
        BY <2>1, <2>4, <2>7 DEF Delivered
      <3>2. \A i \in DOMAIN c.inbox : c.inbox[i].cursor \in GivenUpTo(g)
        BY <1>2, <2>1, <2>3, <3>1
      <3>3. \A i \in DOMAIN c.acks : c.acks[i] \in GivenUpTo(g)
        <4>1. CASE m.cursor > 0
          <5>1. PICK a \in Seq(1..MaxEvents) : a = d.acks
            BY QueuesAreTyped
          <5>2. m.cursor \in Cursors /\ m.cursor \in GivenUpTo(g)
            BY <1>2, <2>1, <2>3, <3>1 DEF Messages
          <5>3. PICK n \in 1..MaxEvents : n = m.cursor
            BY <4>1, <5>2 DEF Cursors
          <5>4. DOMAIN Append(a, n) = 1..(Len(a) + 1) /\ Append(a, n)[Len(a) + 1] = n
                /\ \A i \in 1..Len(a) : Append(a, n)[i] = a[i]
            BY <5>1, AppendProperties, LenProperties
          <5>5. DOMAIN a = 1..Len(a) /\ \A i \in 1..(Len(a) + 1) : i \in 1..Len(a) \/ i = Len(a) + 1
            <6>1. DOMAIN a = 1..Len(a) /\ Len(a) \in Nat
              BY LenProperties
            <6> QED
              BY <6>1
          <5>6. \A i \in DOMAIN Append(a, n) : Append(a, n)[i] \in GivenUpTo(g)
            BY <3>1, <5>1, <5>2, <5>3, <5>4, <5>5
          <5> QED
            BY <1>2, <4>1, <5>1, <5>3, <5>6
        <4>2. CASE ~(m.cursor > 0)
          BY <1>2, <3>1, <4>2
        <4> QED
          BY <4>1, <4>2
      <3> QED
        BY <2>6, <3>1, <3>2, <3>3
    <2>8. Streams(g)' => Streams(g)
      BY <1>2, <1>3, <1>4, <2>4 DEF Streams, Linked
    <2>9. (NoGap(g)' <=> NoGap(g)) /\ (EndsPage(g)' <=> EndsPage(g))
      BY <1>3 DEF NoGap, EndsPage
    <2> QED
      BY <1>3, <2>4, <2>7, <2>8, <2>9 DEF Delivered
  <1>5. CASE client[s].link # g
    BY <1>1, <1>2, <1>3, <1>5, OthersDelivered
  <1> QED
    BY <1>4, <1>5

LEMMA ClientDelivers ==
  ASSUME IInv, NEW s \in Sessions, ClientStep(s), NEW g \in Handlers, Delivered(g)
  PROVE  Delivered(g)'
  <1>1. topic' = topic /\ stored' = stored
    BY DEF ClientStep, Receive, Refresh, RestoreCheckpoint, PersistCheckpoint, Connect, ReadMissingCheckpoint
  <1>2. client[s] \in Clients /\ client \in [Sessions -> Clients] /\ handler \in [Handlers -> Requests] /\ g # None
    BY StreamAssumption DEF IInv, Types
  <1>3. CASE Receive(s)
    BY <1>3, ReceiveDelivers
  <1>4. CASE Refresh(s) \/ RestoreCheckpoint(s)
    <2>1. PICK c \in Clients :
            /\ client' = [client EXCEPT ![s] = c] /\ c.link = client[s].link /\ c.inbox = client[s].inbox
            /\ c.acks = client[s].acks /\ c.got = client[s].got
      BY <1>4, RefreshEffect
    <2>2. handler' = handler
      BY <1>4 DEF Refresh, RestoreCheckpoint
    <2> QED
      BY <1>1, <2>1, <2>2, OthersDelivered
  <1>5. CASE PersistCheckpoint(s)
    <2>1. handler' = handler /\ client' = [client EXCEPT ![s] = client[s]]
      BY <1>2, <1>5 DEF PersistCheckpoint
    <2> QED
      BY <1>1, <1>2, <2>1, OthersDelivered
  <1>6. ASSUME NEW h \in Handlers, Connect(s, h)
        PROVE  Delivered(g)'
    <2>1. PICK r \in Requests, c \in Clients :
            /\ handler' = [handler EXCEPT ![h] = r]
            /\ r.session = s /\ r.phase = "list" /\ r.base = r.cursor
            /\ client' = [client EXCEPT ![s] = c]
            /\ c.link = h /\ c.inbox = <<>> /\ c.acks = <<>>
      BY <1>6, ConnectEffect
    <2>2. CASE g = h
      <3>1. handler'[g] = r /\ client'[s] = c /\ Peer(g)' = c
        BY <1>2, <2>1, <2>2 DEF Peer
      <3>2. r.cursor \in GivenUpTo(g)'
        <4>1. r.cursor \in Cursors /\ r.cursor \in Int
          BY CursorsAreInts DEF Requests
        <4>2. \A e \in stored : ~(From(g)' < e /\ e <= r.cursor)
          <5>1. \A e \in stored : e \in Int
            BY StoredIsFinite DEF IInv
          <5>2. From(g)' = Greater(r.cursor, r.jump) /\ r.jump \in Int
            BY <2>1, <3>1, CursorsAreInts DEF From, Requests
          <5> QED
            BY <4>1, <5>1, <5>2 DEF Greater
        <4> QED
          BY <1>1, <3>1, <4>1, <4>2 DEF GivenUpTo
      <3>3. DOMAIN c.inbox = {} /\ DOMAIN c.acks = {}
        BY <2>1
      <3> QED
        BY <2>1, <3>1, <3>2, <3>3 DEF Delivered
    <2>3. CASE g # h
      <3>1. handler'[g] = handler[g]
        BY <1>2, <2>1, <2>3
      <3> QED
        BY <1>1, <2>1, <2>3, <3>1, OthersDelivered
    <2> QED
      BY <2>2, <2>3
  <1>7. ASSUME NEW h \in Handlers, ReadMissingCheckpoint(s, h)
        PROVE  Delivered(g)'
    <2>1. PICK r \in Requests :
            handler' = [handler EXCEPT ![h] = r] /\ r.kind = "bootstrap" /\ r.phase = "list"
      BY <1>7, ReadMissingEffect
    <2>2. client' = [client EXCEPT ![s] = client[s]]
      BY <1>2, <1>7 DEF ReadMissingCheckpoint
    <2>3. CASE g = h
      <3>1. handler'[g] = r
        BY <1>2, <2>1, <2>3
      <3> QED
        BY <2>1, <3>1 DEF Delivered, Streams
    <2>4. CASE g # h
      <3>1. handler'[g] = handler[g]
        BY <1>2, <2>1, <2>4
      <3> QED
        BY <1>1, <1>2, <2>2, <3>1, OthersDelivered
    <2> QED
      BY <2>3, <2>4
  <1> QED
    BY <1>3, <1>4, <1>5, <1>6, <1>7 DEF ClientStep

\* Rows that are committed come after every cursor; rows that are removed are owed no more.
LEMMA TableDelivers ==
  ASSUME IInv, UNCHANGED <<handler, client>>, NEW g \in Handlers, Delivered(g),
         \A e \in stored' : \/ e \in stored /\ topic'[e] = topic[e]
                            \/ \A n \in Seen : n < e,
         stored' \subseteq Int
  PROVE  Delivered(g)'
  <1>1. Seen \subseteq Int
    BY SeenAreInts
  <1>2. (Streams(g)' <=> Streams(g)) /\ Peer(g)' = Peer(g) /\ Given(g)' = Given(g)
    BY DEF Streams, Linked, Peer, Given
  <1>3. \A n \in GivenUpTo(g) : \A o \in Seen : n <= o => n \in GivenUpTo(g)'
    <2>1. ASSUME NEW n \in GivenUpTo(g), NEW o \in Seen, n <= o, NEW e \in stored',
                 topic'[e] = Subscription[handler[g].session], From(g) < e, e <= n
          PROVE  e \in Given(g)
      <3>1. n \in Int /\ o \in Int /\ e \in Int
        BY <1>1, CursorsAreInts DEF GivenUpTo
      <3>2. ~(o < e)
        BY <2>1, <3>1
      <3>3. e \in stored /\ topic'[e] = topic[e]
        BY <3>2
      <3> QED
        BY <2>1, <3>3 DEF GivenUpTo
    <2> QED
      BY <1>2, <2>1 DEF GivenUpTo, From
  <1>4. NoGap(g) => NoGap(g)'
    <2>1. ASSUME NoGap(g), NEW e \in stored', NEW d \in handler[g].batch,
                 topic'[e] = Subscription[handler[g].session], handler[g].cursor < e, e <= d
          PROVE  e \in handler[g].batch
      <3>1. d \in Seen
        BY DEF Seen
      <3>2. d \in Int /\ e \in Int
        BY <1>1, <3>1
      <3>3. ~(d < e)
        BY <2>1, <3>2
      <3>4. e \in stored /\ topic'[e] = topic[e]
        BY <3>1, <3>3
      <3> QED
        BY <2>1, <3>4 DEF NoGap
    <2> QED
      BY <2>1 DEF NoGap
  <1>5. EndsPage(g)' <=> EndsPage(g)
    BY DEF EndsPage
  <1>6. ASSUME Streams(g)
        PROVE  \E o \in Seen :
                 /\ handler[g].cursor <= o
                 /\ \A i \in DOMAIN Peer(g).inbox : Peer(g).inbox[i].cursor <= o
                 /\ \A i \in DOMAIN Peer(g).acks : Peer(g).acks[i] <= o
    <2>1. PICK s \in Sessions : s = handler[g].session /\ Serves(g)
      BY <1>6 DEF Streams, Linked, Serves, IInv, Links
    <2>2. offered[s] \in Seen
      BY DEF Seen
    <2> QED
      BY <2>1, <2>2 DEF IInv, Offers, Peer
  <1> QED
    BY <1>2, <1>3, <1>4, <1>5, <1>6 DEF Delivered

LEMMA InitDelivers == Init => SInv
  <1> SUFFICES ASSUME Init PROVE SInv
    OBVIOUS
  <1>1. IInv
    BY InitInvariant
  <1>2. \A h \in Handlers : handler[h] = Closed
    BY DEF Init
  <1>3. \A h \in Handlers : Delivered(h)
    BY <1>2, ClosedIsRequest DEF Delivered, Streams, Linked
  <1>4. Seen = {0}
    BY <1>2, ClosedIsRequest DEF Init, Seen
  <1>5. OpenRowsAhead
    <2>1. Len(topic) = 0 /\ \A p \in Publishers : inserted[p] = None
      BY EmptySeq DEF Init
    <2> QED
      BY <1>4, <2>1 DEF OpenRowsAhead
  <1> QED
    BY <1>1, <1>3, <1>5 DEF SInv

LEMMA StepDelivers == SInv /\ OneOpenInsert /\ [Next]_vars => SInv'
  <1> SUFFICES ASSUME SInv, OneOpenInsert, [Next]_vars PROVE SInv'
    OBVIOUS
  <1>1. IInv /\ IInv' /\ OpenRowsAhead /\ \A h \in Handlers : Delivered(h)
    BY StepInvariant DEF SInv
  <1>2. CASE (\E p \in Publishers : Publish(p)) \/ Cleanup
    <2>1. stored' \subseteq Int
      <3>1. Len(topic') \in Int /\ stored' \subseteq 1..Len(topic')
        BY <1>1 DEF IInv, Types
      <3> QED
        BY <3>1
    <2>2. /\ OpenRowsAhead' /\ UNCHANGED <<handler, client>>
          /\ \A e \in stored' : \/ e \in stored /\ topic'[e] = topic[e]
                                \/ \A n \in Seen : n < e
      BY <1>1, <1>2, TableSees
    <2> QED
      BY <1>1, <2>1, <2>2, TableDelivers DEF SInv
  <1>3. CASE \E h \in Handlers : HandlerStep(h) \/ End(h)
    BY <1>1, <1>3, HandlerSees, HandlerDelivers DEF SInv
  <1>4. CASE \E s \in Sessions : ClientStep(s)
    BY <1>1, <1>4, ClientSees, ClientDelivers DEF SInv
  <1>5. CASE UNCHANGED vars
    <2>1. topic' = topic /\ stored' = stored /\ handler' = handler /\ client' = client
          /\ inserted' = inserted /\ offered' = offered
      BY <1>5 DEF vars
    <2>2. Seen' = Seen
      BY <2>1 DEF Seen
    <2>3. OpenRowsAhead'
      BY <1>1, <2>1, <2>2 DEF OpenRowsAhead
    <2>4. stored \subseteq Int
      BY <1>1, StoredIsFinite DEF IInv
    <2> QED
      BY <1>1, <2>1, <2>3, <2>4, TableDelivers DEF SInv
  <1> QED
    BY <1>2, <1>3, <1>4, <1>5 DEF Next

LEMMA DeliveredSkipsNothing == SInv => OnlyEmptyFirstReplySkips
  <1> SUFFICES ASSUME SInv, NEW h \in Handlers, Streams(h), NEW e \in stored,
                      topic[e] = Subscription[handler[h].session],
                      From(h) < e, e <= handler[h].cursor
               PROVE  \/ e \in client[handler[h].session].got
                      \/ \E i \in DOMAIN client[handler[h].session].inbox :
                           e \in client[handler[h].session].inbox[i].events
    BY DEF OnlyEmptyFirstReplySkips, SkipsNothing, From
  <1>1. handler[h].cursor \in GivenUpTo(h)
    BY DEF SInv, Delivered
  <1>2. e \in Given(h)
    BY <1>1 DEF GivenUpTo
  <1> QED
    BY <1>2 DEF Given, Peer

\* On any behaviour on which two INSERTs are never open at once, the cursor of a connected
\* client passes no row of its topic that the client was not sent, but by the jump of an empty
\* first reply.
THEOREM SkipsUnlessOvertaken ==
  Spec /\ []OneOpenInsert => []OnlyEmptyFirstReplySkips
  <1>1. Init => SInv
    BY InitDelivers
  <1>2. SInv /\ OneOpenInsert /\ [Next]_vars => SInv'
    BY StepDelivers
  <1>3. SInv => OnlyEmptyFirstReplySkips
    BY DeliveredSkipsNothing
  <1> QED
    BY <1>1, <1>2, <1>3, PTL DEF Spec

\* With one publisher, as in the run, that is every behaviour.
THEOREM OnlyFirstRepliesSkip ==
  ASSUME \A p, q \in Publishers : p = q
  PROVE  Spec => []OnlyEmptyFirstReplySkips
  <1>1. OneOpenInsert
    BY DEF OneOpenInsert
  <1> QED
    BY <1>1, SkipsUnlessOvertaken, PTL
=============================================================================
