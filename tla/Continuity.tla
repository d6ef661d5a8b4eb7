----------------------------- MODULE Continuity -----------------------------
(***************************************************************************)
(* Clustered work that survives the loss of a node: the continuity         *)
(* registries of the nodes (compiler/mesh-rt/src/dist/continuity.rs) and   *)
(* the part of dist/node.rs that drives them: submission with placement,   *)
(* preparation of the replica, dispatch and completion; replication by     *)
(* upserts and by the synchronisation of a new session; the loss of a      *)
(* session, with automatic promotion of a standby.                         *)
(*                                                                         *)
(* A step is what happens under one acquisition of a registry's lock, with *)
(* the broadcast that follows it.  Threads broadcast after releasing the   *)
(* lock, so messages of one session are not ordered by the changes they    *)
(* report: msgs is a set.  A message is lost when the receiver loses the   *)
(* session before it has read it, or had lost it when it was sent.         *)
(***************************************************************************)
EXTENDS ContinuityRecord, Sequences, FiniteSets

CONSTANTS Primaries,  \* nodes configured as primary; the others are standbys
          Ingress,    \* nodes that receive submissions
          Required,   \* the required_replica_count values of the submissions
          StartupKeys,\* the keys of the work submitted when the nodes start
          MaxToken,   \* bound on the attempts a node mints
          MaxEpoch,   \* bound on the promotions
          MaxCuts,    \* bound on the sessions that break
          MaxCrashes  \* bound on the nodes that crash and restart

ASSUME RequiredAssumption == Required \subseteq {0, 1, 2}

ASSUME NodeSetsAssumption == /\ IsFiniteSet(Nodes)
                             /\ Primaries \subseteq Nodes /\ Ingress \subseteq Nodes

ASSUME StartupAssumption == StartupKeys \subseteq Keys

ASSUME BoundsAssumption == {MaxToken, MaxEpoch, MaxCuts, MaxCrashes} \subseteq Nat

VARIABLES
    reg,       \* the continuity registry of each node
    sessions,  \* NodeState.sessions of each node
    loss,      \* where handle_node_disconnect is, per node and lost peer
    call,      \* the submission each node is carrying out
    tasks,     \* declared handlers that run: on which node, for which attempt
    recovering,\* automatic recoveries spawned, not yet started
    msgs,      \* messages on the wire
    cuts, crashes

bounds == <<cuts, crashes>>
vars   == <<reg, sessions, loss, call, tasks, recovering, msgs, bounds>>

Idle == [at |-> "idle"]
Stages == {"submit", "finalize", "prepare", "ack", "reject", "dispatch"}
Request == [hash : Hashes, owner : Nodes, replica : Nodes \cup {NoNode},
            role : Roles, epoch : Nat]
Call == [at : Stages, key : Keys, req : Request, required : Required \cup {0},
         rec : Record \cup {NoRecord}]

\* The authority a node is configured with.
Fresh(n) == [role |-> IF n \in Primaries THEN "primary" ELSE "standby", epoch |-> 0, token |-> 0,
             requests |-> [k \in Keys |-> NoRecord]]

Init == /\ reg = [n \in Nodes |-> Fresh(n)]
        /\ sessions = [n \in Nodes |-> Nodes \ {n}]
        /\ loss = [n \in Nodes |-> [m \in Nodes |-> "none"]]
        /\ call = [n \in Nodes |-> Idle]
        /\ tasks = {}
        /\ recovering = {}
        /\ msgs = {}
        /\ cuts = 0
        /\ crashes = 0

Message(type, n, m, k, token, r) ==
    [type |-> type, from |-> n, to |-> m, key |-> k, token |-> token, rec |-> r]

\* broadcast_continuity_upsert: to every session n has.
Upserts(n, k, st) ==
    {Message("upsert", n, m, k, st.token, st.requests[k]) : m \in sessions[n]}

\* The registry of n becomes st, and the records of keys ks are broadcast.
Change(n, st, ks) == /\ reg' = [reg EXCEPT ![n] = st]
                     /\ msgs' = msgs \cup UNION {Upserts(n, k, st) : k \in ks}

Goto(n, at) == call' = [call EXCEPT ![n].at = at]
Return(n) == call' = [call EXCEPT ![n] = Idle]

-----------------------------------------------------------------------------
(* submit_declared_work, on one node.                                      *)

\* canonical_declared_membership, in the order of the stable hash.
Membership(n) ==
    LET members == {n} \cup sessions[n]
    IN  [i \in 1..Cardinality(members) |->
            CHOOSE m \in members : Cardinality({l \in members : l < m}) = i - 1]

\* declared_work_placement: the owner by the hash of the key, then the next.
Placed(n, k, i) == LET ms == Membership(n) IN ms[((k + i) % Len(ms)) + 1]

\* The placement and the authority are read before the registry is locked.
Prepared(n, k, h, required) ==
    [at |-> "submit", key |-> k, required |-> required, rec |-> NoRecord,
     req |-> [hash |-> h, owner |-> Placed(n, k, 0),
              replica |-> IF sessions[n] = {} THEN NoNode ELSE Placed(n, k, 1),
              role |-> reg[n].role, epoch |-> reg[n].epoch]]

Submit(n) ==
    /\ n \in Ingress
    /\ call[n] = Idle
    /\ \E k \in Keys, h \in Hashes, required \in Required :
         call' = [call EXCEPT ![n] = Prepared(n, k, h, required)]
    /\ UNCHANGED <<reg, sessions, loss, tasks, recovering, msgs, bounds>>

\* automatic_recovery_submit_entry: startup work without a peer needs no replica.
Recover(n) ==
    /\ call[n] = Idle
    /\ \E job \in recovering, required \in Required :
         /\ job.node = n
         /\ recovering' = recovering \ {job}
         /\ call' = [call EXCEPT ![n] = Prepared(n, job.key, job.hash,
                       IF job.key \in StartupKeys /\ sessions[n] = {} /\ required = 1
                       THEN 0 ELSE required)]
    /\ UNCHANGED <<reg, sessions, loss, tasks, msgs, bounds>>

\* A new key, or a lost owner's pending record taken over: an attempt is minted.
Mints(n) == LET old == reg[n].requests[call[n].key]
            IN  \/ old = NoRecord
                \/ old # NoRecord /\ old.hash = call[n].req.hash
                   /\ RecoveryEligible(old, call[n].req)

\* Mutant: the token is not consumed.
MintAttempt_KeepsToken(n) ==
    /\ call[n].at = "submit"
    /\ Mints(n)
    /\ reg[n].token < MaxToken
    /\ LET r == Submitted(call[n].req, reg[n].token)
       IN  /\ reg' = [reg EXCEPT ![n] = Put(@, call[n].key, r)]
           /\ call' = [call EXCEPT ![n].at = "finalize", ![n].rec = r]
    /\ UNCHANGED <<sessions, loss, tasks, recovering, msgs, bounds>>

MintAttempt(n) ==
    /\ call[n].at = "submit"
    /\ Mints(n)
    /\ reg[n].token < MaxToken
    /\ LET r == Submitted(call[n].req, reg[n].token)
       IN  /\ reg' = [reg EXCEPT ![n] = Put([reg[n] EXCEPT !.token = @ + 1], call[n].key, r)]
           /\ call' = [call EXCEPT ![n].at = "finalize", ![n].rec = r]
    /\ UNCHANGED <<sessions, loss, tasks, recovering, msgs, bounds>>

\* A duplicate or a conflict.
Refuse(n) == /\ call[n].at = "submit"
             /\ ~Mints(n)
             /\ Return(n)
             /\ UNCHANGED <<reg, sessions, loss, tasks, recovering, msgs, bounds>>

\* finalize_submit_decision and prepare_continuity_replica, up to the wait for
\* the answer of the replica.
Finalize(n) ==
    /\ call[n].at = "finalize"
    /\ LET c == call[n]
           r == c.rec
       IN  \/ /\ c.required > 1
              /\ Goto(n, "reject") /\ UNCHANGED msgs
           \/ /\ c.required = 0
              /\ msgs' = msgs \cup {Message("upsert", n, m, c.key, r.attempt + 1, r) :
                                    m \in sessions[n]}
              /\ Goto(n, "dispatch")
           \/ /\ c.required = 1 /\ r.replica = n
              /\ Goto(n, "ack") /\ UNCHANGED msgs
           \/ /\ c.required = 1 /\ r.replica # n /\ r.replica \notin sessions[n]
              /\ Goto(n, "reject") /\ UNCHANGED msgs
           \/ /\ c.required = 1 /\ r.replica \in sessions[n]
              /\ msgs' = msgs \cup {Message("prepare", n, r.replica, c.key, 0, r)}
              /\ Goto(n, "prepare")
    /\ UNCHANGED <<reg, sessions, loss, tasks, recovering, bounds>>

\* Mutant: silence counts as consent.
PrepareTimeout_Acks(n) == /\ call[n].at = "prepare"
                          /\ Goto(n, "ack")
                          /\ UNCHANGED <<reg, sessions, loss, tasks, recovering, msgs, bounds>>

\* Five seconds pass, or the session is gone: a later answer is ignored.
PrepareTimeout(n) == /\ call[n].at = "prepare"
                     /\ Goto(n, "reject")
                     /\ UNCHANGED <<reg, sessions, loss, tasks, recovering, msgs, bounds>>

\* acknowledge_replica_prepare: if the record has been replaced, an error.
AckPrepare(n) ==
    /\ call[n].at = "ack"
    /\ LET k == call[n].key
           r == reg[n].requests[k]
       IN  IF r = NoRecord \/ r.attempt # call[n].rec.attempt
           THEN Return(n) /\ UNCHANGED <<reg, msgs>>
           ELSE /\ Change(n, Put(reg[n], k, Acknowledged(r)), {k})
                /\ call' = [call EXCEPT ![n] = IF r.phase = "rejected" THEN Idle
                               ELSE [@ EXCEPT !.at = "dispatch", !.rec = Acknowledged(r)]]
    /\ UNCHANGED <<sessions, loss, tasks, recovering, bounds>>

\* reject_durable_request, with its error paths; of the messages on the wire
\* `rest` stay there.
RejectDurable(n, k, attempt, rest) ==
    LET r  == reg[n].requests[k]
        st == Put(reg[n], k, Rejected(r))
    IN  IF CanReject(r, attempt)
        THEN reg' = [reg EXCEPT ![n] = st] /\ msgs' = rest \cup Upserts(n, k, st)
        ELSE msgs' = rest /\ UNCHANGED reg

RejectRequest(n) ==
    /\ call[n].at = "reject"
    /\ RejectDurable(n, call[n].key, call[n].rec.attempt, msgs)
    /\ Return(n)
    /\ UNCHANGED <<sessions, loss, tasks, recovering, bounds>>

\* spawn_declared_work_local or _remote.  The remote spawn finds a session to
\* the owner, or makes one (a Connect in between), or fails; a session that a
\* write finds broken is lost and made again in the same way.  The actor that
\* sent it goes on waiting for the reply, while others submit.
Dispatch(n) ==
    /\ call[n].at = "dispatch"
    /\ LET c == call[n]
       IN  \/ /\ c.req.owner = n
              /\ tasks' = tasks \cup {[node |-> n, key |-> c.key, attempt |-> c.rec.attempt]}
              /\ Return(n) /\ UNCHANGED msgs
           \/ /\ c.req.owner # n /\ c.rec.owner \in sessions[n]
              /\ msgs' = msgs \cup {Message("spawn", n, c.rec.owner, c.key, 0, c.rec)}
              /\ Return(n) /\ UNCHANGED tasks
           \/ /\ c.req.owner # n /\ c.rec.owner \notin sessions[n]
              /\ Goto(n, "reject") /\ UNCHANGED <<tasks, msgs>>
    /\ UNCHANGED <<reg, sessions, loss, recovering, bounds>>

\* complete_declared_work, when the handler has run: mark_completed.
Complete(t) ==
    /\ t \in tasks
    /\ tasks' = tasks \ {t}
    /\ LET r == reg[t.node].requests[t.key]
       IN  IF CanComplete(r, t.attempt, t.node)
           THEN Change(t.node, Put(reg[t.node], t.key, Completed(r, t.node)), {t.key})
           ELSE UNCHANGED <<reg, msgs>>
    /\ UNCHANGED <<sessions, loss, call, recovering, bounds>>

-----------------------------------------------------------------------------
(* Messages.                                                               *)

Receive(msg) == msg \in msgs /\ msg.from \in sessions[msg.to]

\* DIST_CONTINUITY_UPSERT, or one record of DIST_CONTINUITY_SYNC.
ReceiveUpsert(msg) ==
    /\ Receive(msg) /\ msg.type = "upsert"
    /\ reg' = [reg EXCEPT ![msg.to] = Merge(@, msg.token, msg.key, msg.rec)]
    /\ msgs' = msgs \ {msg}
    /\ UNCHANGED <<sessions, loss, call, tasks, recovering, bounds>>

\* DIST_CONTINUITY_PREPARE: the record is mirrored and broadcast, and the
\* outcome is sent back.
ReceivePrepare(msg) ==
    /\ Receive(msg) /\ msg.type = "prepare"
    /\ LET n  == msg.to
           k  == msg.key
           ok == CanMirror(reg[n], k, msg.rec)
           st == IF ok THEN Mirrored(reg[n], k, msg.rec) ELSE reg[n]
           answer == Message(IF ok THEN "ack" ELSE "nack", n, msg.from, k, 0, msg.rec)
       IN  /\ reg' = [reg EXCEPT ![n] = st]
           /\ msgs' = (msgs \ {msg}) \cup {answer} \cup IF ok THEN Upserts(n, k, st) ELSE {}
    /\ UNCHANGED <<sessions, loss, call, tasks, recovering, bounds>>

\* DIST_CONTINUITY_PREPARE_ACK: it concerns the call that waits for it, if any.
ReceiveAnswer(msg) ==
    /\ Receive(msg) /\ msg.type \in {"ack", "nack"}
    /\ msgs' = msgs \ {msg}
    /\ LET c == call[msg.to]
       IN  IF c.at = "prepare" /\ c.key = msg.key /\ c.rec = msg.rec
           THEN Goto(msg.to, IF msg.type = "ack" THEN "ack" ELSE "reject")
           ELSE UNCHANGED call
    /\ UNCHANGED <<reg, sessions, loss, tasks, recovering, bounds>>

\* DIST_SPAWN of a declared handler: it runs, or the program of this node has
\* no such function and the reply says so.  (A reply of success changes nothing.)
ReceiveSpawn(msg) ==
    /\ Receive(msg) /\ msg.type = "spawn"
    /\ \/ /\ msgs' = msgs \ {msg}
          /\ tasks' = tasks \cup {[node |-> msg.to, key |-> msg.key, attempt |-> msg.rec.attempt]}
       \/ /\ msgs' = (msgs \ {msg}) \cup {Message("failed", msg.to, msg.from, msg.key, 0, msg.rec)}
          /\ UNCHANGED tasks
    /\ UNCHANGED <<reg, sessions, loss, call, recovering, bounds>>

\* DIST_SPAWN_REPLY with a status: mesh_node_spawn returns 0 to the actor that
\* waits for it, in submit_declared_work, and the attempt is rejected.
ReceiveFailure(msg) ==
    /\ Receive(msg) /\ msg.type = "failed"
    /\ RejectDurable(msg.to, msg.key, msg.rec.attempt, msgs \ {msg})
    /\ UNCHANGED <<sessions, loss, call, tasks, recovering, bounds>>

-----------------------------------------------------------------------------
(* Sessions.                                                               *)

\* Mutant: every key, whether the registry holds it or not.
Snapshot_AllKeys(n, m) ==
    {Message("upsert", n, m, k, reg[n].token, reg[n].requests[k]) : k \in Keys}

\* Mutant: only one of the two sides sends one.
Snapshot_OneWay(n, m) ==
    {Message("upsert", n, m, k, reg[n].token, reg[n].requests[k]) :
        k \in {j \in Keys : n > m /\ Held(reg[n], j)}}

\* send_continuity_sync: the records n holds, each merged by m on its own.
Snapshot(n, m) ==
    {Message("upsert", n, m, k, reg[n].token, reg[n].requests[k]) :
        k \in {j \in Keys : Held(reg[n], j)}}

\* A session is established; each side sends its snapshot.  What was written
\* to the session before it, and not read, is gone.
Connect(n, m) ==
    /\ n < m /\ n \notin sessions[m] /\ m \notin sessions[n]
    /\ sessions' = [sessions EXCEPT ![n] = @ \cup {m}, ![m] = @ \cup {n}]
    /\ msgs' = {msg \in msgs : {msg.from, msg.to} # {n, m}} \cup Snapshot(n, m) \cup Snapshot(m, n)
    /\ UNCHANGED <<reg, loss, call, tasks, recovering, bounds>>

\* n finds its session with m gone (it failed, or m has closed or lost it) and
\* removes it: cleanup_session_if_current, then handle_node_disconnect.
LoseSession(n, m) ==
    /\ m \in sessions[n]
    /\ loss[n][m] = "none"
    /\ IF n \in sessions[m] THEN cuts < MaxCuts /\ cuts' = cuts + 1 ELSE UNCHANGED cuts
    /\ sessions' = [sessions EXCEPT ![n] = @ \ {m}]
    /\ msgs' = {msg \in msgs : ~(msg.to = n /\ msg.from = m)}
    /\ loss' = [loss EXCEPT ![n][m] = "owner"]
    /\ UNCHANGED <<reg, call, tasks, recovering, crashes>>

\* One pass over the records under the lock; those that change are broadcast.
LossPass(n, m, at, next, new) ==
    /\ loss[n][m] = at
    /\ loss' = [loss EXCEPT ![n][m] = next]
    /\ LET st == Replaced(reg[n], new)
       IN  Change(n, st, {k \in Keys : st.requests[k] # reg[n].requests[k]})
    /\ UNCHANGED <<sessions, call, tasks, recovering, bounds>>

\* mark_owner_loss_records_for_node_loss.
MarkOwnerLoss(n, m) == LossPass(n, m, "owner", "replica",
    [k \in HeldKeys(reg[n]) |-> OwnerLost(reg[n].requests[k], m)])

\* degrade_replica_records_for_node_loss.
DegradeReplica(n, m) == LossPass(n, m, "replica", "health",
    [k \in HeldKeys(reg[n]) |-> Degraded(reg[n].requests[k], m)])

\* degrade_replication_health_for_node_loss.
DegradeHealth(n, m) == LossPass(n, m, "health", "check",
    [k \in HeldKeys(reg[n]) |-> HealthDegraded(reg[n].requests[k], m)])

\* automatic_promotion_reason: every pending record is a standby's copy, its
\* owner is the lost node and its replica is here, and there is one.
Promotable(n, m) ==
    LET pending == {reg[n].requests[k] : k \in {j \in Keys : Pending(reg[n].requests[j])}}
    IN  /\ reg[n].role = "standby"
        /\ sessions[n] = {}
        /\ pending # {}
        /\ \A r \in pending : /\ r.role = "standby" /\ r.owner = m /\ r.replica = n
                              /\ r.status \in {"preparing", "mirrored"}

CheckPromotion(n, m) ==
    /\ loss[n][m] = "check"
    /\ loss' = [loss EXCEPT ![n][m] = IF Promotable(n, m) THEN "promote" ELSE "none"]
    /\ UNCHANGED <<reg, sessions, call, tasks, recovering, msgs, bounds>>

\* promote_authority, under the lock, after the check.
Promote(n, m) ==
    /\ loss[n][m] = "promote"
    /\ reg[n].epoch < MaxEpoch
    /\ IF CanPromote(reg[n])
       THEN /\ Change(n, Promoted(reg[n]), {k \in Keys : Held(reg[n], k)})
            /\ loss' = [loss EXCEPT ![n][m] = "resume"]
       ELSE /\ loss' = [loss EXCEPT ![n][m] = "none"]
            /\ UNCHANGED <<reg, msgs>>
    /\ UNCHANGED <<sessions, call, tasks, recovering, bounds>>

\* automatic_recovery_candidates, of a snapshot taken after the promotion.
Resume(n, m) ==
    /\ loss[n][m] = "resume"
    /\ loss' = [loss EXCEPT ![n][m] = "none"]
    /\ LET lost(k) == LET r == reg[n].requests[k]
                      IN  Pending(r) /\ r.role = "primary" /\ r.status = "owner_lost" /\ r.owner = m
       IN  recovering' = recovering \cup {[node |-> n, key |-> k, hash |-> reg[n].requests[k].hash] :
                                          k \in {j \in Keys : lost(j)}}
    /\ UNCHANGED <<reg, sessions, call, tasks, msgs, bounds>>

\* A node dies and restarts with nothing but its configuration.  What it sent
\* may still be read by peers that have not noticed.
Crash(n) == /\ crashes < MaxCrashes
            /\ crashes' = crashes + 1
            /\ reg' = [reg EXCEPT ![n] = Fresh(n)]
            /\ sessions' = [sessions EXCEPT ![n] = {}]
            /\ loss' = [loss EXCEPT ![n] = [m \in Nodes |-> "none"]]
            /\ call' = [call EXCEPT ![n] = Idle]
            /\ tasks' = {t \in tasks : t.node # n}
            /\ recovering' = {job \in recovering : job.node # n}
            /\ msgs' = {msg \in msgs : msg.to # n}
            /\ UNCHANGED cuts

-----------------------------------------------------------------------------
CallNext(n) == \/ Submit(n) \/ Recover(n) \/ MintAttempt(n) \/ Refuse(n) \/ Finalize(n) \/ PrepareTimeout(n)
               \/ AckPrepare(n) \/ RejectRequest(n) \/ Dispatch(n)

Deliver(msg) == \/ ReceiveUpsert(msg) \/ ReceivePrepare(msg) \/ ReceiveAnswer(msg)
                \/ ReceiveSpawn(msg) \/ ReceiveFailure(msg)

PeerNext(n, m) == \/ Connect(n, m) \/ LoseSession(n, m)
                  \/ MarkOwnerLoss(n, m) \/ DegradeReplica(n, m) \/ DegradeHealth(n, m)
                  \/ CheckPromotion(n, m) \/ Promote(n, m) \/ Resume(n, m)

Next == \/ \E n \in Nodes : CallNext(n) \/ Crash(n) \/ \E m \in Nodes : PeerNext(n, m)
        \/ \E t \in tasks : Complete(t)
        \/ \E msg \in msgs : Deliver(msg)

Spec == Init /\ [][Next]_vars

-----------------------------------------------------------------------------
Messages == [type : {"upsert", "prepare", "ack", "nack", "spawn", "failed"}, from : Nodes, to : Nodes,
             key : Keys, token : Nat, rec : Record]

\* The type of every variable.
TypeOK == /\ reg \in [Nodes -> Registry]
          /\ sessions \in [Nodes -> SUBSET Nodes]
          /\ loss \in [Nodes -> [Nodes -> {"none", "owner", "replica", "health",
                                           "check", "promote", "resume"}]]
          /\ call \in [Nodes -> Call \cup {Idle}]
          /\ tasks \subseteq [node : Nodes, key : Keys, attempt : Nat]
          /\ recovering \subseteq [node : Nodes, key : Keys, hash : Hashes]
          /\ msgs \subseteq Messages
          /\ cuts \in Nat /\ crashes \in Nat

\* No registry mints an attempt that it holds: its next token is ahead of every
\* one it has stored, whoever minted it.  (Another node, or this one when it has
\* restarted, may mint the same; see OneOwner.)
TokenAhead == \A n \in Nodes : \A k \in Keys :
    Held(reg[n], k) => reg[n].requests[k].attempt < reg[n].token

\* The debug_assert of project_record_for_authority_change, on every record
\* and after every change: in particular no standby holds an owner_lost record.
ValidRecords == \A n \in Nodes : \A k \in Keys :
    Held(reg[n], k) => Valid(reg[n].requests[k])

\* ContinuityRegistry: every record is one validate_record accepts, and no
\* attempt a node mints is one it already holds.
RecordsAreSound == TypeOK /\ ValidRecords /\ TokenAhead

\* A node follows or leads an epoch, and never an older one again: unless it
\* restarts, its epoch only grows, and its role changes only with the epoch.
AuthorityOnlyAdvances ==
    crashes' = crashes => \A n \in Nodes :
        /\ reg'[n].epoch >= reg[n].epoch
        /\ reg'[n].epoch = reg[n].epoch => reg'[n].role = reg[n].role

\* No two nodes are primary in the same epoch.
OnePrimaryPerEpoch == \A n, m \in Nodes :
    reg[n].role = "primary" /\ reg[m].role = "primary" /\ reg[n].epoch = reg[m].epoch => n = m

\* What the owner counts as mirrored is held by the replica, at that attempt or
\* a later one, as long as no node restarts.
MirroredIsHeld == \A n \in Nodes, k \in Keys :
    LET r == reg[n].requests[k]
    IN  (r # NoRecord /\ r.status = "mirrored" /\ crashes = 0)
            => /\ Held(reg[r.replica], k)
               /\ reg[r.replica].requests[k].attempt >= r.attempt

\* No node has restarted and mints its attempts again, and either one node takes
\* all submissions (recoveries apart) or no session has been lost, so that all
\* nodes place a key in the same way.
Undivided == crashes = 0 /\ (Cardinality(Ingress) <= 1 \/ cuts = 0)

\* An attempt is completed by the node that owns it, on every copy of the
\* record.
CompletedByOwner == Undivided => \A n \in Nodes, k \in Keys :
    LET r == reg[n].requests[k]
    IN  r.phase = "completed" => r.exec = r.owner

\* The attempt id fences: two nodes that hold the same attempt of a key agree
\* on the node that owns it (.gsd/DECISIONS.md, D159).  Two nodes that have lost
\* each other mint one id for two owners, see the README.
OneOwner == Undivided => \A n, m \in Nodes, k \in Keys :
    LET r == reg[n].requests[k]
        s == reg[m].requests[k]
    IN  (r # NoRecord /\ s # NoRecord /\ r.attempt = s.attempt) => r.owner = s.owner

\* Nothing is under way and every node has a session with every other.
Quiet == /\ msgs = {} /\ tasks = {} /\ recovering = {}
         /\ \A n \in Nodes : call[n] = Idle /\ sessions[n] = Nodes \ {n}
         /\ \A n, m \in Nodes : loss[n][m] = "none"

\* Replication converges: once it is quiet, the two nodes of a pair that hold a
\* key hold the same attempt of it, whoever submitted it and whatever was lost,
\* unless a node has restarted with an older token.  (Of three nodes a standby
\* that never heard of an attempt refuses its owner_lost record, see the README.)
QuietAgreement == Quiet /\ crashes = 0 /\ Cardinality(Nodes) = 2 =>
    \A n, m \in Nodes, k \in Keys :
        (Held(reg[n], k) /\ Held(reg[m], k))
            => reg[m].requests[k].attempt = reg[n].requests[k].attempt

\* "Stale completed truth cannot overwrite an active retry": whoever submits, the
\* attempt held for a key never goes back, except to a record of a later epoch.
AttemptNeverRegresses ==
    crashes' = crashes => \A n \in Nodes, k \in Keys :
        LET r == reg[n].requests[k]
            s == reg'[n].requests[k]
        IN  Held(reg[n], k) => s.attempt >= r.attempt \/ s.epoch > r.epoch

\* An attempt that has ended is not pending again on any node, whoever submits;
\* and a completed one stays completed when one node takes the submissions:
\* neither a rejection, a lost node, a new authority nor an older copy takes it
\* back, as long as no node restarts (one that does mints its attempts again).
EndIsFinal ==
    crashes' = 0 => \A n \in Nodes, k \in Keys :
        LET r == reg[n].requests[k]
            s == reg'[n].requests[k]
        IN  (Held(reg[n], k) /\ ~Pending(r) /\ s.attempt = r.attempt)
                => /\ ~Pending(s)
                   /\ Cardinality(Ingress) <= 1 /\ r.phase = "completed" => s.phase = "completed"

-----------------------------------------------------------------------------
(* Promises of the documentation that TLC refutes; see the README.          *)

\* Once it is quiet, what a node holds as completed every other node holds as
\* completed (.gsd/milestones/M043/slices/S01/S01-PLAN.md: the standby observes
\* mirrored request truth).
CompletionIsSeen == Quiet => \A n, m \in Nodes, k \in Keys :
    (reg[n].requests[k].phase = "completed" /\ Held(reg[m], k))
        => reg[m].requests[k].phase = "completed"

\* A standby that has lost its only peer, and mirrors all that was pending
\* there, is promoted (.gsd/REQUIREMENTS.md, R068).
MirrorPromotable == \A n, m \in Nodes :
    LET pending == {k \in Keys : Pending(reg[n].requests[k])}
    IN  (/\ loss[n][m] = "check" /\ reg[n].role = "standby" /\ sessions[n] = {}
         /\ pending # {}
         /\ \A k \in pending : LET r == reg[n].requests[k]
                               IN  r.owner = m /\ r.replica = n /\ r.status # "degraded")
            => Promotable(n, m)
=============================================================================
