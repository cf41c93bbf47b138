----------------------------- MODULE AdminConsole -----------------------------
(* AdminService: stored configuration, emergency switches kept in the memory  *)
(* of the server process, balance resets and event cancellations, and the     *)
(* audit log.  A configuration change and its audit entry are one             *)
(* transaction; a switch or a cancellation is audited in one of its own.  An  *)
(* entry carries the time the process took before it is inserted, and is      *)
(* there once its transaction commits.                                        *)
EXTENDS Integers

CONSTANTS
  Admins,       \* request handlers of administrators
  Values,       \* configuration values, and balances to reset to
  MaxAudit,     \* bound: audit entries whose time is taken
  MaxBalance,   \* bound: ledger entries posted by other services
  None

AdminAssumption ==
  /\ Values \subseteq Nat /\ None \notin Nat \cup Admins
  /\ {MaxAudit, MaxBalance} \subseteq Nat

Kinds == {"config", "reset", "switched", "cancelled"}
Steps == {"idle", "read", "written", "stamped"}

VARIABLES
  config,       \* committed value of one admin_config_values key, or None
  lock,         \* the transaction that has written its row
  switch,       \* _maintenance_state["pause_blocks"] of the process
  balance,      \* sum of all ledger entries of one player
  posted,       \* bound: entries posted meanwhile
  cancelled,    \* whether the event has been cancelled
  clock,        \* the process's datetime.now
  audit,        \* admin_audit_log: entries with their created_at
  call          \* [admin -> its request]

vars == <<config, lock, switch, balance, posted, cancelled, clock, audit, call>>

Idle == [step |-> "idle", kind |-> "config", value |-> 0, old |-> None, at |-> 0]

TypeOK ==
  /\ config \in Values \cup {None} /\ lock \in Admins \cup {None}
  /\ switch \in {0, 1} /\ balance \in Int /\ posted \in 0..MaxBalance
  /\ cancelled \in BOOLEAN /\ clock \in 0..MaxAudit
  /\ audit \subseteq [kind : Kinds, old : Int \cup {None}, new : Nat, at : 1..MaxAudit]
  /\ call \in [Admins -> [step : Steps, kind : Kinds, value : Nat, old : Int \cup {None}, at : 0..MaxAudit]]

Init ==
  /\ config = None /\ lock = None /\ switch = 0 /\ balance = 0 /\ posted = 0
  /\ cancelled = FALSE /\ clock = 0 /\ audit = {} /\ call = [a \in Admins |-> Idle]

Starts(a, kind, step, value, old) ==
  /\ call[a].step = "idle"
  /\ call' = [call EXCEPT ![a] = [step |-> step, kind |-> kind, value |-> value, old |-> old, at |-> 0]]

\* _insert_audit_log takes the time; until the commit nobody else sees the entry.
Stamps(a) ==
  /\ call[a].step = "written" /\ clock < MaxAudit
  /\ clock' = clock + 1
  /\ call' = [call EXCEPT ![a].step = "stamped", ![a].at = clock + 1]
  /\ UNCHANGED <<config, lock, switch, balance, posted, cancelled, audit>>

Entry(c) == [kind |-> c.kind, old |-> c.old, new |-> c.value, at |-> c.at]

Audits(a, kinds) ==
  /\ call[a].step = "stamped" /\ call[a].kind \in kinds
  /\ audit' = audit \cup {Entry(call[a])}
  /\ call' = [call EXCEPT ![a] = Idle]

-----------------------------------------------------------------------------
(* set_config: the value before is read without a lock; the upsert takes the  *)
(* row's lock, or waits for it, and holds it until the commit.                *)
ConfigReads(a, v) ==
  /\ Starts(a, "config", "read", v, config)
  /\ UNCHANGED <<config, lock, switch, balance, posted, cancelled, clock, audit>>

\* Mutant: the entry is made before the row is locked.
ConfigAuditsFirst(a) ==
  /\ call[a].step = "read" /\ lock' = None
  /\ call' = [call EXCEPT ![a].step = "written"]
  /\ UNCHANGED <<config, switch, balance, posted, cancelled, clock, audit>>

ConfigWrites(a) ==
  /\ call[a].step = "read" /\ lock = None /\ lock' = a
  /\ call' = [call EXCEPT ![a].step = "written"]
  /\ UNCHANGED <<config, switch, balance, posted, cancelled, clock, audit>>

ConfigCommits(a) ==
  /\ Audits(a, {"config"})
  /\ config' = call[a].value /\ lock' = None
  /\ UNCHANGED <<switch, balance, posted, cancelled, clock>>

-----------------------------------------------------------------------------
(* reset_player_balance: an entry of the difference to a sum read before. *)
ResetReads(a, v) ==
  /\ Starts(a, "reset", "written", v, balance)
  /\ UNCHANGED <<config, lock, switch, balance, posted, cancelled, clock, audit>>

ResetCommits(a) ==
  /\ Audits(a, {"reset"})
  /\ balance' = balance + (call[a].value - call[a].old)
  /\ UNCHANGED <<config, lock, switch, posted, cancelled, clock>>

OthersPost ==
  /\ posted < MaxBalance /\ posted' = posted + 1 /\ balance' = balance + 1
  /\ UNCHANGED <<config, lock, switch, cancelled, clock, audit, call>>

(* set_emergency_control and cancel_event act first and audit afterwards. *)
SwitchFlips(a, v) ==
  /\ Starts(a, "switched", "written", v, switch) /\ switch' = v
  /\ UNCHANGED <<config, lock, balance, posted, cancelled, clock, audit>>

EventCancelled(a) ==
  /\ Starts(a, "cancelled", "written", 1, None) /\ cancelled' = TRUE
  /\ UNCHANGED <<config, lock, switch, balance, posted, clock, audit>>

AuditsAfterwards(a) ==
  /\ Audits(a, {"switched", "cancelled"})
  /\ UNCHANGED <<config, lock, switch, balance, posted, cancelled, clock>>

\* A statement fails: the open transaction rolls back, what was done before it stays.
Fails(a) ==
  /\ call[a].step # "idle"
  /\ call' = [call EXCEPT ![a] = Idle] /\ lock' = IF lock = a THEN None ELSE lock
  /\ UNCHANGED <<config, switch, balance, posted, cancelled, clock, audit>>

\* The process restarts: open transactions roll back, the switches are off again.
Restart ==
  /\ call' = [a \in Admins |-> Idle] /\ lock' = None /\ switch' = 0
  /\ UNCHANGED <<config, balance, posted, cancelled, clock, audit>>

Next ==
  \/ OthersPost \/ Restart
  \/ \E a \in Admins :
       \/ \E v \in Values : ConfigReads(a, v) \/ ResetReads(a, v)
       \/ \E v \in {0, 1} : SwitchFlips(a, v)
       \/ ConfigWrites(a) \/ Stamps(a) \/ ConfigCommits(a) \/ ResetCommits(a)
       \/ EventCancelled(a) \/ AuditsAfterwards(a) \/ Fails(a)

Spec == Init /\ [][Next]_vars

-----------------------------------------------------------------------------
ConfigEntries == {e \in audit : e.kind = "config"}

\* The entry of the configuration with the latest created_at tells the value in force, in
\* whatever order administrators read, write, take the time and commit, and wherever their
\* calls fail or the server stops (admin/service.py:123-151, 322): as the row is locked before
\* the time is taken, the entries are ordered as the commits are.
ConfigIsAudited ==
  \/ ConfigEntries = {} /\ config = None
  \/ \E e \in ConfigEntries : config = e.new /\ \A d \in ConfigEntries : d.at <= e.at

\* An entry of the configuration names the value that was in force before it, that of the entry
\* before it ("full change traceability", docs/master-build-plan-v1.md:699).  False: the value
\* before is read without the row's lock (admin/service.py:128).
ChangesAreTraceable ==
  \A d, e \in ConfigEntries :
    d.at < e.at /\ (\A f \in ConfigEntries : f.at <= d.at \/ f.at >= e.at) => e.old = d.new

\* Once no administrator's call is open, an event an administrator cancelled has its entry ("audit
\* logging for all privileged actions", docs/implementation-plan-v1.md:747).  False: the entry
\* is a transaction after the cancellation's (admin/service.py:221-238).
CancellationsAreAudited ==
  cancelled /\ (\A a \in Admins : call[a].step = "idle") => \E e \in audit : e.kind = "cancelled"
=============================================================================
