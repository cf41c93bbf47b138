----------------------------- MODULE Moderation -----------------------------
(* Support tickets, the sanctions taken on them and the appeals against the   *)
(* sanctions.  Every request is one transaction whose timestamps are those of *)
(* its start (NOW()), and whose blind updates wait for the rows' locks.       *)
EXTENDS Naturals

CONSTANTS
  Staff,        \* request handlers of staff and players
  Sanctions,    \* rows of moderation_actions that can be taken
  Appeals,      \* rows of moderation_appeals that can be submitted
  MaxClock,     \* bound: time
  Durations,    \* seconds a sanction may be taken for
  None

SanctionRows == [type : {"escalate", "sanction"}, expires : Nat \cup {None}]
AppealRows == [against : Sanctions, status : {"pending", "approved", "denied"}]

ModerationAssumption ==
  /\ MaxClock \in Nat /\ Durations \subseteq Nat
  /\ None \notin Nat \cup Sanctions \cup Appeals \cup SanctionRows \cup AppealRows

VARIABLES
  clock,
  status,       \* the ticket's status, None before it is created
  firstResponse,\* its first_response_at or None
  sanction,     \* [sanction -> [type, expires]] or None; expires None = never
  appeal,       \* [appeal -> [against, status]] or None
  call,         \* [staff -> the transaction it has open]
  lifted        \* not program state: sanctions an approved review has ended

vars == <<clock, status, firstResponse, sanction, appeal, call, lifted>>

TicketStatuses == {"open", "in_progress", "resolved", "closed"}
Idle == [op |-> "idle", at |-> 0, on |-> None, approved |-> FALSE]

TypeOK ==
  /\ clock \in 0..MaxClock
  /\ status \in TicketStatuses \cup {None} /\ firstResponse \in 0..clock \cup {None}
  /\ sanction \in [Sanctions -> SanctionRows \cup {None}]
  /\ appeal \in [Appeals -> AppealRows \cup {None}]
  /\ \A a \in Appeals : appeal[a] # None => sanction[appeal[a].against] # None
  /\ \A u \in Staff : call[u].op \in {"idle", "reply", "review"} /\ call[u].at <= clock
  /\ lifted \subseteq Sanctions

Init ==
  /\ clock = 0 /\ status = None /\ firstResponse = None
  /\ sanction = [s \in Sanctions |-> None] /\ appeal = [a \in Appeals |-> None]
  /\ call = [u \in Staff |-> Idle] /\ lifted = {}

InForce(s) == /\ sanction[s] # None
              /\ (sanction[s].expires = None \/ sanction[s].expires > clock)
Tick == /\ clock < MaxClock /\ clock' = clock + 1
        /\ UNCHANGED <<status, firstResponse, sanction, appeal, call, lifted>>

-----------------------------------------------------------------------------
(* Tickets *)
CreateTicket ==
  /\ status = None /\ status' = "open"
  /\ UNCHANGED <<clock, firstResponse, sanction, appeal, call, lifted>>

UpdateTicketStatus(st) ==
  /\ status # None /\ status' = st
  /\ UNCHANGED <<clock, firstResponse, sanction, appeal, call, lifted>>

CloseTicket ==
  /\ status # None /\ status' = "closed"
  /\ UNCHANGED <<clock, firstResponse, sanction, appeal, call, lifted>>

ReplyStarts(u) ==
  /\ call[u].op = "idle" /\ status # None
  /\ call' = [call EXCEPT ![u] = [Idle EXCEPT !.op = "reply", !.at = clock]]
  /\ UNCHANGED <<clock, status, firstResponse, sanction, appeal, lifted>>

\* COALESCE(first_response_at, NOW()), evaluated under the row's lock.
StampsReply(at) == IF firstResponse = None THEN at ELSE firstResponse

\* Only a reply of the staff is stamped; a player's message is just stored.
ReplyCommits(u) ==
  /\ call[u].op = "reply"
  /\ firstResponse' \in {firstResponse, StampsReply(call[u].at)}
  /\ call' = [call EXCEPT ![u] = Idle]
  /\ UNCHANGED <<clock, status, sanction, appeal, lifted>>

-----------------------------------------------------------------------------
(* Sanctions and appeals *)
TakeModerationAction(s, d) ==
  /\ sanction[s] = None
  /\ sanction' = [sanction EXCEPT ![s] =
                    [type |-> "sanction", expires |-> IF d = None THEN None ELSE clock + d]]
  /\ UNCHANGED <<clock, status, firstResponse, appeal, call, lifted>>

\* A report queued for review is a sanction of type "escalate" without expiry.
QueueForReview(s) ==
  /\ sanction[s] = None
  /\ sanction' = [sanction EXCEPT ![s] = [type |-> "escalate", expires |-> None]]
  /\ UNCHANGED <<clock, status, firstResponse, appeal, call, lifted>>

\* Any player may appeal against any stored sanction, more than once.
SubmitAppeal(a, s) ==
  /\ appeal[a] = None /\ sanction[s] # None
  /\ appeal' = [appeal EXCEPT ![a] = [against |-> s, status |-> "pending"]]
  /\ UNCHANGED <<clock, status, firstResponse, sanction, call, lifted>>

\* The review of an unknown appeal updates nothing, that of a decided one decides again.
ReviewStarts(u, a, ok) ==
  /\ call[u].op = "idle" /\ appeal[a] # None
  /\ call' = [call EXCEPT ![u] = [op |-> "review", at |-> clock, on |-> a, approved |-> ok]]
  /\ UNCHANGED <<clock, status, firstResponse, sanction, appeal, lifted>>

\* Mutant: a denial puts the sanction back in force.
ExpiryOfReinstating(r) == IF r.approved THEN r.at ELSE None
\* An approval ends the sanction as of the review, a denial leaves it alone.
ExpiryOf(r) == IF r.approved THEN r.at ELSE sanction[appeal[r.on].against].expires

ReviewAppeal(u) ==
  LET r == call[u]
      s == appeal[r.on].against
  IN /\ r.op = "review"
     /\ appeal' = [appeal EXCEPT ![r.on].status = IF r.approved THEN "approved" ELSE "denied"]
     /\ sanction' = [sanction EXCEPT ![s].expires = ExpiryOf(r)]
     /\ lifted' = IF r.approved THEN lifted \cup {s} ELSE lifted
     /\ call' = [call EXCEPT ![u] = Idle]
     /\ UNCHANGED <<clock, status, firstResponse>>

Next ==
  \/ Tick \/ CreateTicket \/ CloseTicket \/ \E st \in TicketStatuses : UpdateTicketStatus(st)
  \/ \E u \in Staff : ReplyStarts(u) \/ ReplyCommits(u) \/ ReviewAppeal(u)
  \/ \E s \in Sanctions : QueueForReview(s)
                          \/ \E d \in Durations \cup {None} : TakeModerationAction(s, d)
                          \/ \E a \in Appeals : SubmitAppeal(a, s)
  \/ \E u \in Staff, a \in Appeals, ok \in BOOLEAN : ReviewStarts(u, a, ok)

Spec == Init /\ [][Next]_vars

-----------------------------------------------------------------------------
\* A sanction ended by an approved appeal never binds again, whatever the
\* reviews of other appeals against it, or a second review of the same appeal,
\* decide meanwhile or later.
LiftedStaysLifted == \A s \in lifted : ~InForce(s)
=============================================================================
