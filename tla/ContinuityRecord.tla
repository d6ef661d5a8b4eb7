-------------------------- MODULE ContinuityRecord --------------------------
(***************************************************************************)
(* The records of clustered work (compiler/mesh-rt/src/dist/continuity.rs) *)
(* and the registry of one node as a value: how a record is submitted,     *)
(* acknowledged, rejected, completed, marked when a node is lost, merged   *)
(* with one from another node, and projected on a change of authority.     *)
(*                                                                         *)
(* An attempt id is its token; the result is a function of the phase; the  *)
(* error text, the ingress node and the name of the handler are left out.  *)
(***************************************************************************)
EXTENDS Integers

CONSTANTS Nodes,   \* the nodes, numbered in the order of their stable hash
          NoNode,  \* the absence of a replica, or of an execution node
          Keys,    \* the request keys: a key is its own hash
          Hashes   \* the payload hashes

ASSUME NodesAssumption == Nodes \subseteq Nat /\ NoNode \notin Nodes

ASSUME KeysAssumption == Keys \subseteq Nat

Roles == {"primary", "standby"}
Phases == {"submitted", "completed", "rejected"}
Statuses == {"unassigned", "preparing", "mirrored", "owner_lost", "degraded", "rejected"}
Healths == {"local_only", "unavailable", "degraded", "healthy"}

Record == [hash : Hashes, attempt : Nat, phase : Phases, owner : Nodes,
           replica : Nodes \cup {NoNode}, status : Statuses, role : Roles,
           epoch : Nat, health : Healths, exec : Nodes \cup {NoNode}]

NoRecord == [phase |-> "none"]

\* The registry of a node: the authority, the next attempt token, the records.
Registry == [role : Roles, epoch : Nat, token : Nat,
             requests : [Keys -> Record \cup {NoRecord}]]

Held(st, k) == st.requests[k] # NoRecord
Put(st, k, r) == [st EXCEPT !.requests[k] = r]
Larger(a, b) == IF a >= b THEN a ELSE b

\* ContinuityRecord::validate, for what can be wrong in a record at all.
Valid(r) == r.replica # r.owner /\ ~(r.role = "standby" /\ r.status = "owner_lost")

Pending(r) == r.phase = "submitted"

-----------------------------------------------------------------------------
(* Which of two records is kept.                                           *)

StatusRank == [s \in Statuses |->
    CASE s = "unassigned" -> 0 [] s = "preparing" -> 1 [] s = "mirrored" -> 2
      [] s = "owner_lost" -> 3 [] s = "degraded" -> 4 [] s = "rejected" -> 5]

HealthRank == [h \in Healths |->
    CASE h = "local_only" -> 0 [] h = "unavailable" -> 1
      [] h = "degraded" -> 2 [] h = "healthy" -> 3]

\* Mutants: a terminal record before the attempt; no phase at all.
Precedence_TerminalFirst(r) == <<r.epoch, IF Pending(r) THEN 0 ELSE 1, r.attempt,
                                 StatusRank[r.status], HealthRank[r.health]>>

Precedence_NoPhase(r) == <<r.epoch, r.attempt, 0, StatusRank[r.status], HealthRank[r.health]>>

\* What preferred_record compares, in this order.
Precedence(r) == <<r.epoch, r.attempt, IF Pending(r) THEN 0 ELSE 1,
                   StatusRank[r.status], HealthRank[r.health]>>

Precedes(p, q) == \E i \in 1..5 : p[i] < q[i] /\ \A j \in 1..(i - 1) : p[j] = q[j]

\* preferred_record: the incoming record unless the existing one has precedence.
Preferred(existing, incoming) ==
    IF Precedes(Precedence(incoming), Precedence(existing)) THEN existing ELSE incoming

-----------------------------------------------------------------------------
(* Transitions of a record.                                                *)

\* continuity_submitted_record.
Submitted(req, token) ==
    [hash |-> req.hash, attempt |-> token, phase |-> "submitted", owner |-> req.owner,
     replica |-> req.replica, role |-> req.role, epoch |-> req.epoch,
     status |-> IF req.replica = NoNode THEN "unassigned" ELSE "preparing",
     health |-> "local_only", exec |-> NoNode]

\* continuity_owner_loss_recovery_eligible.
RecoveryEligible(r, req) == /\ r.role = "primary" /\ req.role = "primary"
                            /\ Pending(r) /\ r.status = "owner_lost"
                            /\ req.epoch >= r.epoch
                            /\ r.owner # req.owner

\* transition_replica_ack_record.
Acknowledged(r) ==
    IF r.replica = NoNode \/ r.phase = "rejected" \/ r.status \in {"degraded", "owner_lost"}
    THEN r
    ELSE [r EXCEPT !.status = "mirrored", !.health = "healthy"]

\* transition_rejected_record; a completed record cannot be rejected.
CanReject(r, attempt) == r # NoRecord /\ r.attempt = attempt /\ r.phase # "completed"
Rejected(r) ==
    IF r.phase = "rejected" THEN r
    ELSE [r EXCEPT !.phase = "rejected", !.status = "rejected", !.health = "unavailable"]

\* Mutant: whatever attempt the handler ran.
CanComplete_AnyAttempt(r, attempt, n) ==
    r # NoRecord /\ (Pending(r) \/ (r.phase = "completed" /\ r.exec = n))

\* transition_completed_record; completing again on the same node is accepted.
Completed(r, n) == [r EXCEPT !.phase = "completed", !.exec = n]
CanComplete(r, attempt, n) ==
    r # NoRecord /\ r.attempt = attempt /\ (Pending(r) \/ (r.phase = "completed" /\ r.exec = n))

\* transition_owner_lost_record.
OwnerLost(r, m) ==
    IF /\ r.role = "primary" /\ r.owner = m /\ Pending(r)
       /\ r.status \in {"preparing", "mirrored"} /\ r.replica # NoNode
    THEN [r EXCEPT !.status = "owner_lost", !.health = "unavailable"]
    ELSE r

\* transition_degraded_record.
Degraded(r, m) ==
    IF r.role = "primary" /\ r.replica = m /\ Pending(r) /\ r.status = "mirrored"
    THEN [r EXCEPT !.status = "degraded", !.health = "degraded"]
    ELSE r

\* transition_replication_health_record.
HealthDegraded(r, m) ==
    IF r.role = "standby" /\ Pending(r) /\ r.health # "unavailable" /\ m \in {r.owner, r.replica}
    THEN [r EXCEPT !.health = "degraded"]
    ELSE r

-----------------------------------------------------------------------------
(* Authority.                                                              *)

\* project_record_for_authority_change.
Reprojected(r, fromRole, toRole, epoch) ==
    LET moved == [r EXCEPT !.role = toRole, !.epoch = epoch]
    IN  CASE toRole = "standby" ->
               [moved EXCEPT !.health = "healthy",
                             !.status = IF @ = "owner_lost" THEN "mirrored" ELSE @]
          [] toRole = "primary" /\ fromRole = "primary" -> moved
          [] toRole = "primary" /\ fromRole # "primary" ->
               IF Pending(r) /\ r.replica # NoNode
               THEN [moved EXCEPT !.status = "owner_lost", !.health = "unavailable"]
               ELSE [moved EXCEPT !.health = IF r.replica = NoNode THEN "local_only"
                                             ELSE IF @ = "healthy" THEN "unavailable" ELSE @]

\* A registry takes a new authority: every record it holds is reprojected.
ChangeAuthority(st, role, epoch) ==
    [st EXCEPT !.role = role, !.epoch = epoch,
               !.requests = [k \in Keys |-> IF Held(st, k)
                                            THEN Reprojected(@[k], st.role, role, epoch)
                                            ELSE NoRecord]]

\* Mutants: a promotion within the epoch; an observer of any other epoch.
Promoted_SameEpoch(st) == ChangeAuthority(st, "primary", st.epoch)

Observe_AnyEpoch(st, epoch) ==
    IF epoch # st.epoch THEN ChangeAuthority(st, "standby", epoch) ELSE st

\* promote_authority, when it is not refused.
CanPromote(st) == st.role = "standby" /\ \E k \in Keys : Held(st, k)
Promoted(st) == ChangeAuthority(st, "primary", st.epoch + 1)

\* observe_remote_authority: a higher epoch makes this node its follower.
Observe(st, epoch) == IF epoch > st.epoch THEN ChangeAuthority(st, "standby", epoch) ELSE st

\* project_remote_record, before its validation.
Projected(r, st) ==
    [r EXCEPT !.role = st.role, !.epoch = st.epoch,
              !.health = IF r.role = st.role THEN @ ELSE "healthy"]

\* update_next_attempt_token.
RaiseToken(st, token) == [st EXCEPT !.token = Larger(@, token)]

\* Mutant: the projected record is not validated.
Merge_Unvalidated(st, watermark, k, r) ==
    LET seen == Observe(RaiseToken(st, Larger(watermark, r.attempt + 1)), r.epoch)
        mine == Projected(r, seen)
    IN  CASE ~Valid(r) -> st
          [] Valid(r) /\ r.epoch < seen.epoch -> seen
          [] Valid(r) /\ r.epoch >= seen.epoch ->
               IF ~Held(seen, k) THEN Put(seen, k, mine)
               ELSE IF seen.requests[k].hash = mine.hash
                    THEN Put(seen, k, Preferred(seen.requests[k], mine))
                    ELSE seen

\* merge_remote_record, and merge_snapshot for each of its records.
Merge(st, watermark, k, r) ==
    LET seen == Observe(RaiseToken(st, Larger(watermark, r.attempt + 1)), r.epoch)
        mine == Projected(r, seen)
    IN  CASE ~Valid(r) -> st
          [] Valid(r) /\ (r.epoch < seen.epoch \/ ~Valid(mine)) -> seen
          [] Valid(r) /\ r.epoch >= seen.epoch /\ Valid(mine) ->
               IF ~Held(seen, k) THEN Put(seen, k, mine)
               ELSE IF seen.requests[k].hash = mine.hash
                    THEN Put(seen, k, Preferred(seen.requests[k], mine))
                    ELSE seen

\* Mutant: the token stays where it was.
Mirrored_KeepsToken(st, k, r) ==
    Put(st, k, IF Held(st, k) THEN Preferred(st.requests[k], r) ELSE r)

\* mirror_prepare: the record is kept as the owner sent it.
CanMirror(st, k, r) ==
    /\ Valid(r) /\ r.replica # NoNode
    /\ Held(st, k) => LET old == st.requests[k]
                      IN  /\ old.hash = r.hash /\ old.attempt = r.attempt
                          /\ old.owner = r.owner /\ old.replica = r.replica
Mirrored(st, k, r) ==
    Put(RaiseToken(st, r.attempt + 1), k,
        IF Held(st, k) THEN Preferred(st.requests[k], r) ELSE r)

\* The records a registry holds become new, a function on their keys.
HeldKeys(st) == {k \in Keys : Held(st, k)}
Replaced(st, new) ==
    [st EXCEPT !.requests = [k \in Keys |-> IF Held(st, k) THEN new[k] ELSE NoRecord]]
=============================================================================
