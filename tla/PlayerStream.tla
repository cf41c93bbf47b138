----------------------------- MODULE PlayerStream -----------------------------
(* One player's WebSocket stream: the full state is read and sent, then a     *)
(* background task subscribes to the player's Redis channel and forwards what *)
(* is published there, filtered by the subscriptions of the client.  The      *)
(* value of a field is the number of its changes.                             *)
EXTENDS Naturals, Sequences

CONSTANTS
  Fields,       \* fields of the player's state
  FieldsOf,     \* SUBSCRIPTION_FIELD_MAP: [subscription -> fields it covers]
  MaxChanges    \* bound: changes of the state

StreamAssumption ==
  /\ \A s \in DOMAIN FieldsOf : FieldsOf[s] \subseteq Fields
  /\ MaxChanges \in Nat

VARIABLES
  state,        \* [field -> value] as stored by the server
  conn,         \* the endpoint: closed, accepted, read, open
  profile,      \* what it read for the full state
  subscriptions,\* subscriptions_ref[0]
  listening,    \* the Redis task: off, on
  channel,      \* deltas published to it and not forwarded yet
  view          \* [field -> value the client was last sent]

vars == <<state, conn, profile, subscriptions, listening, channel, view>>

Delta == UNION {[S -> 0..MaxChanges] : S \in (SUBSET Fields) \ {{}}}
Values == [Fields -> 0..MaxChanges]

TypeOK ==
  /\ state \in Values /\ profile \in Values /\ view \in Values
  /\ conn \in {"closed", "accepted", "read", "open"}
  /\ subscriptions \subseteq DOMAIN FieldsOf
  /\ listening \in BOOLEAN /\ \A i \in 1..Len(channel) : channel[i] \in Delta
  /\ listening => conn = "open"

Init ==
  /\ state = [f \in Fields |-> 0] /\ profile = state /\ view = state
  /\ conn = "closed" /\ subscriptions = {} /\ listening = FALSE /\ channel = <<>>

\* encode_delta: the fields that changed, with their new values.
EncodeDelta(prev, curr) == [f \in {g \in Fields : curr[g] # prev[g]} |-> curr[f]]

\* get_fields_for_subscription; an empty list of subscriptions filters nothing.
Filtered(delta) ==
  LET allowed == UNION {FieldsOf[s] : s \in subscriptions}
      kept == IF subscriptions = {} THEN DOMAIN delta ELSE DOMAIN delta \cap allowed
  IN [f \in kept |-> delta[f]]

Sent(values) == view' = [f \in Fields |-> IF f \in DOMAIN values THEN values[f] ELSE view[f]]

-----------------------------------------------------------------------------
\* Some fields change and the delta is published: to the listener, to nobody
\* if there is none, or not at all if Redis fails, which is only logged.  The
\* server has no caller of publish_player_state_change yet: one that publishes
\* changes in their order, as part of the change, is assumed.
Changes(S) ==
  LET next == [f \in Fields |-> IF f \in S THEN state[f] + 1 ELSE state[f]]
  IN /\ \A f \in S : state[f] < MaxChanges
     /\ state' = next
     /\ channel' \in {channel} \cup
          (IF listening THEN {Append(channel, EncodeDelta(state, next))} ELSE {})
     /\ UNCHANGED <<conn, profile, subscriptions, listening, view>>

\* A connection with an active session of the player; any other is closed again.
Connect ==
  /\ conn = "closed" /\ conn' = "accepted"
  /\ UNCHANGED <<state, profile, subscriptions, listening, channel, view>>

ReadProfile ==
  /\ conn = "accepted" /\ conn' = "read" /\ profile' = state
  /\ UNCHANGED <<state, subscriptions, listening, channel, view>>

\* full_state, and offline_reconciliation with the same values when work was paid.
SendFullState ==
  /\ conn = "read" /\ conn' = "open" /\ Sent(profile)
  /\ subscriptions' = DOMAIN FieldsOf
  /\ UNCHANGED <<state, profile, listening, channel>>

\* Mutant: the channel is subscribed before the full state has been sent, so
\* that deltas wait which are older than it.
SubscribesEarly ==
  /\ conn \in {"accepted", "read", "open"} /\ ~listening /\ listening' = TRUE
  /\ UNCHANGED <<state, conn, profile, subscriptions, channel, view>>

ListenerSubscribes ==
  /\ conn = "open" /\ ~listening /\ listening' = TRUE
  /\ UNCHANGED <<state, conn, profile, subscriptions, channel, view>>

ListenerForwards ==
  /\ conn = "open" /\ listening /\ channel # <<>>
  /\ channel' = Tail(channel) /\ Sent(Filtered(Head(channel)))
  /\ UNCHANGED <<state, conn, profile, subscriptions, listening>>

\* {"action": "subscribe"} and {"action": "unsubscribe"}, at any time.
ClientSubscribes(S) ==
  /\ conn = "open" /\ subscriptions' \in {S, subscriptions \ S}
  /\ UNCHANGED <<state, conn, profile, listening, channel, view>>

Disconnect ==
  /\ conn # "closed" /\ conn' = "closed" /\ listening' = FALSE /\ channel' = <<>>
  /\ UNCHANGED <<state, profile, subscriptions, view>>

Next ==
  \/ \E S \in (SUBSET Fields) \ {{}} : Changes(S)
  \/ Connect \/ ReadProfile \/ SendFullState \/ ListenerSubscribes \/ ListenerForwards
  \/ \E S \in SUBSET DOMAIN FieldsOf : ClientSubscribes(S)
  \/ Disconnect

Spec == Init /\ [][Next]_vars

-----------------------------------------------------------------------------
Forward == \A f \in Fields : view'[f] >= view[f]

\* What a client is shown never goes back to an older value, over full states,
\* deltas, changed subscriptions and reconnects: the price of reading the
\* state before the channel is subscribed is a missed change, never an undone one.
ViewMovesForward == [][Forward]_vars
=============================================================================
