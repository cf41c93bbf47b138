--------------------------- MODULE ContentPipeline ---------------------------
(* ContentPipelineService (server/domain/content/service.py): versions of    *)
(* the content pack, their review, and the stages they are active in.  All   *)
(* of it is memory of one process.                                           *)
EXTENDS Naturals, FiniteSets, FiniteSetsExt

CONSTANTS Versions,  \* version ids
          Roles,     \* REQUIRED_REVIEW_ROLES
          Stages,    \* ROLLOUT_STAGES
          None

\* A version's record, and what its status may be.
Statuses == {"draft", "review_requested", "approved", "active_rollback", "rolled_back"} \cup Stages
Records == [number : Nat, status : Statuses, approvals : SUBSET Roles, stages : SUBSET Stages]

ContentAssumption == IsFiniteSet(Versions) /\ None \notin Versions \cup Records

VARIABLES version,   \* version id -> its record, or None
          active     \* stage -> version id or None: _active_versions_by_stage

vars == <<version, active>>

Init ==
  /\ version = [v \in Versions |-> None]
  /\ active = [s \in Stages |-> None]

Staged == {v \in Versions : version[v] # None}

HasRequiredApprovals(v) == Roles \subseteq version[v].approvals

StageContentVersion(v) ==
  /\ version[v] = None
  /\ version' = [version EXCEPT ![v] =
       [number |-> Max({version[u].number : u \in Staged} \cup {0}) + 1,
        status |-> "draft", approvals |-> {}, stages |-> {}]]
  /\ UNCHANGED active

RequestReview(v) ==
  /\ v \in Staged
  /\ version' = [version EXCEPT ![v].status = "review_requested"]
  /\ UNCHANGED active

ApproveForRollout(v, role) ==
  /\ v \in Staged
  /\ version' = [version EXCEPT ![v].approvals = @ \cup {role},
       ![v].status = IF Roles \subseteq version[v].approvals \cup {role} THEN "approved" ELSE "review_requested"]
  /\ UNCHANGED active

\* The version active in the stage before keeps the stage in its list.
ActivateContent(v, stage) ==
  /\ v \in Staged
  /\ HasRequiredApprovals(v)
  /\ active' = [active EXCEPT ![stage] = v]
  /\ version' = [version EXCEPT ![v].stages = @ \cup {stage}, ![v].status = stage]

\* Every active stage moves to the target; nothing asks whether it was reviewed.
RollbackContent(v) ==
  /\ v \in Staged
  /\ active' = [s \in Stages |-> IF active[s] = None THEN None ELSE v]
  /\ version' = [u \in Versions |->
       IF u \notin Staged THEN None
       ELSE [version[u] EXCEPT
         !.stages = {s \in Stages : active'[s] = u},
         !.status = IF u = v THEN "active_rollback" ELSE IF @ \in Stages THEN "rolled_back" ELSE @]]

Next ==
  \E v \in Versions :
    \/ StageContentVersion(v) \/ RequestReview(v) \/ RollbackContent(v)
    \/ \E role \in Roles : ApproveForRollout(v, role)
    \/ \E stage \in Stages : ActivateContent(v, stage)

Spec == Init /\ [][Next]_vars

TypeOK ==
  /\ \A v \in Staged :
       /\ version[v].number \in 1 .. Cardinality(Versions)
       /\ version[v] \in Records
  /\ active \in [Stages -> Versions \cup {None}]

\* The version active in a stage lists it, whatever was activated and rolled back before,
\* and versions are numbered without gaps or repeats (service.py:116-151, 178-180).
ActiveVersionListsItsStage ==
  /\ \A s \in Stages : active[s] # None => active[s] \in Staged /\ s \in version[active[s]].stages
  /\ {version[v].number : v \in Staged} = 1 .. Cardinality(Staged)
=============================================================================
