-------------------------- MODULE ContinuityProofs --------------------------
(***************************************************************************)
(* Proofs about the continuity of clustered work, for any finite set of    *)
(* nodes and any keys, payloads and bounds: every registry holds valid     *)
(* records, all behind the next attempt to be minted; an authority only    *)
(* advances; and of two nodes that do not restart exactly one leads.       *)
(*                                                                         *)
(* The operators on records and registries come first, then what a step    *)
(* may do to a registry (RegistryStep), on which the theorems rest.  The   *)
(* clustered route, which uses the records, is at the end.                 *)
(***************************************************************************)
EXTENDS Continuity, ClusteredRoute, FiniteSetTheorems, SequenceTheorems, TLAPS

-----------------------------------------------------------------------------
(* What the operators on one record and on one registry return.            *)

\* Every transition of a record gives a record.
LEMMA SubmittedType ==
  ASSUME NEW req \in Request, NEW token \in Nat
  PROVE  Submitted(req, token) \in Record
BY DEF Submitted, Request, Record, Phases, Statuses, Healths

LEMMA TransitionType ==
  ASSUME NEW r \in Record, NEW m \in Nodes
  PROVE  \A s \in {Acknowledged(r), Rejected(r), Completed(r, m),
                   OwnerLost(r, m), Degraded(r, m), HealthDegraded(r, m)} :
            s \in Record /\ s.attempt = r.attempt /\ s.epoch = r.epoch /\ (Valid(r) => Valid(s))
<1> DEFINE Fine(s) == s \in Record /\ s.attempt = r.attempt /\ s.epoch = r.epoch /\ (Valid(r) => Valid(s))
<1>1. Fine(Acknowledged(r))
  BY DEF Acknowledged, Record, Phases, Statuses, Healths, Valid
<1>2. Fine(Rejected(r))
  BY DEF Rejected, Record, Phases, Statuses, Healths, Valid
<1>3. Fine(Completed(r, m))
  BY DEF Completed, Record, Phases, Statuses, Healths, Valid
<1>4. Fine(OwnerLost(r, m))
  BY DEF OwnerLost, Record, Phases, Statuses, Healths, Valid
<1>5. Fine(Degraded(r, m))
  BY DEF Degraded, Record, Phases, Statuses, Healths, Valid
<1>6. Fine(HealthDegraded(r, m))
  BY DEF HealthDegraded, Record, Phases, Statuses, Healths, Valid
<1> HIDE DEF Fine
<1>7. \A s \in {Acknowledged(r), Rejected(r), Completed(r, m),
                OwnerLost(r, m), Degraded(r, m), HealthDegraded(r, m)} : Fine(s)
  BY <1>1, <1>2, <1>3, <1>4, <1>5, <1>6
<1> QED BY <1>7 DEF Fine

LEMMA ReprojectedType ==
  ASSUME NEW r \in Record, NEW fromRole \in Roles, NEW toRole \in Roles, NEW epoch \in Nat
  PROVE  /\ Reprojected(r, fromRole, toRole, epoch) \in Record
         /\ Reprojected(r, fromRole, toRole, epoch).epoch = epoch
         /\ Reprojected(r, fromRole, toRole, epoch).attempt = r.attempt
         /\ Valid(r) => Valid(Reprojected(r, fromRole, toRole, epoch))
BY DEF Reprojected, Record, Phases, Statuses, Healths, Roles, Valid

\* A record is not the absence of one.
LEMMA RecordIsHeld == NoRecord \notin Record
BY DEF NoRecord, Record, Phases

LEMMA PutType ==
  ASSUME NEW st \in Registry, NEW k \in Keys, NEW r \in Record
  PROVE  /\ Put(st, k, r) \in Registry
         /\ Put(st, k, r).role = st.role /\ Put(st, k, r).epoch = st.epoch
         /\ Put(st, k, r).token = st.token
         /\ Put(st, k, r).requests = [st.requests EXCEPT ![k] = r]
BY DEF Put, Registry

LEMMA RaiseType ==
  ASSUME NEW st \in Registry, NEW token \in Nat
  PROVE  /\ RaiseToken(st, token) \in Registry
         /\ RaiseToken(st, token) = [st EXCEPT !.token = Larger(st.token, token)]
         /\ RaiseToken(st, token).token >= st.token /\ RaiseToken(st, token).token >= token
BY DEF RaiseToken, Larger, Registry

LEMMA AuthorityType ==
  ASSUME NEW st \in Registry, NEW role \in Roles, NEW epoch \in Nat
  PROVE  /\ ChangeAuthority(st, role, epoch) \in Registry
         /\ ChangeAuthority(st, role, epoch).role = role
         /\ ChangeAuthority(st, role, epoch).epoch = epoch
         /\ ChangeAuthority(st, role, epoch).token = st.token
         /\ ChangeAuthority(st, role, epoch).requests =
                               [k \in Keys |-> IF Held(st, k)
                                  THEN Reprojected(st.requests[k], st.role, role, epoch)
                                  ELSE NoRecord]
<1> DEFINE rs == [k \in Keys |-> IF Held(st, k)
                                 THEN Reprojected(st.requests[k], st.role, role, epoch)
                                 ELSE NoRecord]
<1>1. ChangeAuthority(st, role, epoch) = [st EXCEPT !.role = role, !.epoch = epoch, !.requests = rs]
  BY DEF ChangeAuthority
<1>2. rs \in [Keys -> Record \cup {NoRecord}]
  <2>1. ASSUME NEW k \in Keys, Held(st, k)
        PROVE  Reprojected(st.requests[k], st.role, role, epoch) \in Record
    <3>1. st.requests[k] \in Record /\ st.role \in Roles
      BY <2>1 DEF Held, Registry
    <3> QED BY <3>1, ReprojectedType
  <2> QED BY <2>1
<1> HIDE DEF rs
<1>3. /\ [st EXCEPT !.role = role, !.epoch = epoch, !.requests = rs] \in Registry
      /\ [st EXCEPT !.role = role, !.epoch = epoch, !.requests = rs].role = role
      /\ [st EXCEPT !.role = role, !.epoch = epoch, !.requests = rs].epoch = epoch
      /\ [st EXCEPT !.role = role, !.epoch = epoch, !.requests = rs].token = st.token
      /\ [st EXCEPT !.role = role, !.epoch = epoch, !.requests = rs].requests = rs
  BY <1>2 DEF Registry
<1> QED BY <1>1, <1>3 DEF rs

LEMMA ReplacedType ==
  ASSUME NEW st \in Registry, NEW new, \A k \in HeldKeys(st) : new[k] \in Record
  PROVE  /\ Replaced(st, new) \in Registry
         /\ Replaced(st, new).role = st.role /\ Replaced(st, new).epoch = st.epoch
         /\ Replaced(st, new).token = st.token
         /\ Replaced(st, new).requests = [k \in Keys |-> IF Held(st, k) THEN new[k] ELSE NoRecord]
BY DEF Replaced, HeldKeys, Registry

-----------------------------------------------------------------------------
(* What keeps a registry sound, by itself.                                 *)

\* Every record is one validate_record accepts, and its attempt is behind the
\* next one to be minted.
Sound(st) == \A k \in Keys : Held(st, k) => /\ Valid(st.requests[k])
                                            /\ st.requests[k].attempt < st.token

\* The authority a change leaves is the one before it or one of a later epoch.
Advances(st, new) == /\ new.epoch >= st.epoch
                     /\ new.epoch = st.epoch => new.role = st.role

\* The changes a registry may go through.
Fine(st, new) == new \in Registry /\ Advances(st, new) /\ (Sound(st) => Sound(new))

LEMMA PutFine ==
  ASSUME NEW st \in Registry, NEW k \in Keys, NEW r \in Record, Valid(r), r.attempt < st.token
  PROVE  Fine(st, Put(st, k, r))
<1> DEFINE new == Put(st, k, r)
<1>1. /\ new \in Registry /\ new.role = st.role /\ new.epoch = st.epoch
      /\ new.token = st.token /\ new.requests = [st.requests EXCEPT ![k] = r]
  BY PutType
<1> HIDE DEF new
<1>2. st.requests \in [Keys -> Record \cup {NoRecord}] /\ st.epoch \in Nat
  BY DEF Registry
<1>3. Advances(st, new)
  BY <1>1, <1>2 DEF Advances
<1>4. Sound(st) => Sound(new)
  BY <1>1, <1>2 DEF Sound, Held
<1> QED BY <1>1, <1>3, <1>4 DEF Fine, new

LEMMA MintFine ==
  ASSUME NEW st \in Registry, NEW k \in Keys, NEW req \in Request, req.replica # req.owner
  PROVE  Fine(st, Put([st EXCEPT !.token = st.token + 1], k, Submitted(req, st.token)))
<1> DEFINE next == [st EXCEPT !.token = st.token + 1]
           r == Submitted(req, st.token)
<1>1. /\ next \in Registry /\ next.epoch = st.epoch /\ next.role = st.role
      /\ next.requests = st.requests /\ next.token = st.token + 1 /\ st.token \in Nat
  BY DEF Registry
<1>2. r \in Record
  BY <1>1, SubmittedType
<1>3. r.attempt = st.token /\ Valid(r)
  BY DEF Submitted, Valid
<1> HIDE DEF next, r
<1>4. Fine(next, Put(next, k, r))
  BY <1>1, <1>2, <1>3, PutFine
<1>5. Sound(st) => Sound(next)
  <2>1. \A j \in Keys : Held(st, j) => st.requests[j] \in Record
    BY DEF Registry, Held
  <2>2. \A j \in Keys : Held(st, j) => st.requests[j].attempt \in Nat
    BY <2>1 DEF Record
  <2> QED BY <1>1, <2>2 DEF Sound, Held
<1>6. Fine(st, Put(next, k, r))
  BY <1>1, <1>4, <1>5 DEF Fine, Advances
<1> QED BY <1>6 DEF next, r

\* A transition of a held record.
LEMMA KeepFine ==
  ASSUME NEW st \in Registry, NEW k \in Keys, Held(st, k), NEW r \in Record,
         r.attempt = st.requests[k].attempt, Valid(st.requests[k]) => Valid(r)
  PROVE  Fine(st, Put(st, k, r))
<1> DEFINE new == Put(st, k, r)
<1>1. /\ new \in Registry /\ new.role = st.role /\ new.epoch = st.epoch
      /\ new.token = st.token /\ new.requests = [st.requests EXCEPT ![k] = r]
  BY PutType
<1> HIDE DEF new
<1>2. st.requests \in [Keys -> Record \cup {NoRecord}] /\ st.epoch \in Nat
  BY DEF Registry
<1>3. Advances(st, new)
  BY <1>1, <1>2 DEF Advances
<1>4. Sound(st) => Sound(new)
  BY <1>1, <1>2 DEF Sound, Held
<1> QED BY <1>1, <1>3, <1>4 DEF Fine, new

LEMMA ReplacedFine ==
  ASSUME NEW st \in Registry, NEW new,
         \A k \in HeldKeys(st) : /\ new[k] \in Record
                                 /\ new[k].attempt = st.requests[k].attempt
                                 /\ Valid(st.requests[k]) => Valid(new[k])
  PROVE  Fine(st, Replaced(st, new))
<1> DEFINE after == Replaced(st, new)
<1>1. /\ after \in Registry /\ after.role = st.role /\ after.epoch = st.epoch
      /\ after.token = st.token
      /\ after.requests = [k \in Keys |-> IF Held(st, k) THEN new[k] ELSE NoRecord]
  BY ReplacedType
<1> HIDE DEF after
<1>2. st.epoch \in Nat
  BY DEF Registry
<1>3. Advances(st, after)
  BY <1>1, <1>2 DEF Advances
<1>4. Sound(st) => Sound(after)
  BY <1>1 DEF Sound, Held, HeldKeys
<1> QED BY <1>1, <1>3, <1>4 DEF Fine, after

LEMMA AuthorityFine ==
  ASSUME NEW st \in Registry, NEW role \in Roles, NEW epoch \in Nat, epoch > st.epoch
  PROVE  Fine(st, ChangeAuthority(st, role, epoch))
<1> DEFINE new == ChangeAuthority(st, role, epoch)
<1>1. /\ new \in Registry /\ new.role = role /\ new.epoch = epoch /\ new.token = st.token
      /\ new.requests = [k \in Keys |-> IF Held(st, k)
                                        THEN Reprojected(st.requests[k], st.role, role, epoch)
                                        ELSE NoRecord]
  BY AuthorityType
<1> HIDE DEF new
<1>2. st.epoch \in Nat /\ st.role \in Roles
  BY DEF Registry
<1>3. Advances(st, new)
  BY <1>1, <1>2 DEF Advances
<1>4. Sound(st) => Sound(new)
  <2>1. ASSUME NEW k \in Keys, Held(st, k)
        PROVE  /\ new.requests[k].attempt = st.requests[k].attempt
               /\ Valid(st.requests[k]) => Valid(new.requests[k])
    <3>1. st.requests[k] \in Record
      BY <2>1 DEF Registry, Held
    <3>2. new.requests[k] = Reprojected(st.requests[k], st.role, role, epoch)
      BY <1>1, <2>1
    <3> QED BY <1>2, <3>1, <3>2, ReprojectedType
  <2> QED BY <1>1, <2>1 DEF Sound, Held
<1> QED BY <1>1, <1>3, <1>4 DEF Fine, new

LEMMA FineTrans ==
  ASSUME NEW st \in Registry, NEW mid, NEW new, Fine(st, mid), Fine(mid, new)
  PROVE  Fine(st, new)
BY DEF Fine, Advances, Registry

\* The authority after a message of some epoch: that of before, or a follower's.
Follows(st, new, epoch) ==
    \/ new.epoch = st.epoch /\ new.role = st.role
    \/ new.epoch = epoch /\ epoch > st.epoch /\ new.role = "standby"

\* No record of a registry, nor its authority, is of a later epoch than e.
Within(st, e) == st.epoch <= e /\ \A k \in Keys : Held(st, k) => st.requests[k].epoch <= e

LEMMA RaiseFine ==
  ASSUME NEW st \in Registry, NEW token \in Nat
  PROVE  LET new == RaiseToken(st, token) IN
         /\ Fine(st, new) /\ new.token >= token
         /\ new.role = st.role /\ new.epoch = st.epoch /\ new.requests = st.requests
<1> DEFINE new == RaiseToken(st, token)
<1>1. /\ new \in Registry /\ new = [st EXCEPT !.token = Larger(st.token, token)]
      /\ new.token >= st.token /\ new.token >= token
  BY RaiseType
<1>2. new.role = st.role /\ new.epoch = st.epoch /\ new.requests = st.requests
  BY <1>1 DEF Registry
<1> HIDE DEF new
<1>3. Advances(st, new)
  BY <1>2 DEF Advances, Registry
<1>4. \A k \in Keys : Held(st, k) => st.requests[k].attempt \in Nat
  <2>1. \A k \in Keys : Held(st, k) => st.requests[k] \in Record
    BY DEF Registry, Held
  <2> QED BY <2>1 DEF Record
<1>5. st.token \in Nat /\ new.token \in Nat
  BY <1>1 DEF Registry
<1>6. Sound(st) => Sound(new)
  BY <1>1, <1>2, <1>4, <1>5 DEF Sound, Held
<1> QED BY <1>1, <1>2, <1>3, <1>6 DEF Fine, new

LEMMA ObserveFine ==
  ASSUME NEW st \in Registry, NEW epoch \in Nat
  PROVE  LET new == Observe(st, epoch) IN
         /\ Fine(st, new) /\ Follows(st, new, epoch) /\ new.token = st.token
         /\ \A e \in Nat : Within(st, e) /\ epoch <= e => Within(new, e)
<1> DEFINE new == Observe(st, epoch)
<1>1. CASE epoch > st.epoch
  <2>1. new = ChangeAuthority(st, "standby", epoch)
    BY <1>1 DEF Observe
  <2>2. "standby" \in Roles
    BY DEF Roles
  <2>3. /\ new.role = "standby" /\ new.epoch = epoch /\ new.token = st.token
        /\ new.requests = [k \in Keys |-> IF Held(st, k)
                                          THEN Reprojected(st.requests[k], st.role, "standby", epoch)
                                          ELSE NoRecord]
    BY <2>1, <2>2, AuthorityType
  <2>4. Fine(st, new)
    BY <1>1, <2>1, <2>2, AuthorityFine
  <2> HIDE DEF new
  <2>5. \A k \in Keys : Held(new, k) => new.requests[k].epoch = epoch
    <3>1. ASSUME NEW k \in Keys, Held(st, k)
          PROVE  Reprojected(st.requests[k], st.role, "standby", epoch).epoch = epoch
      <4>1. st.requests[k] \in Record /\ st.role \in Roles
        BY <3>1 DEF Registry, Held
      <4> QED BY <2>2, <4>1, ReprojectedType
    <3> QED BY <2>3, <3>1 DEF Held
  <2> QED BY <1>1, <2>3, <2>4, <2>5 DEF Follows, Within, new
<1>2. CASE ~(epoch > st.epoch)
  <2>1. new = st
    BY <1>2 DEF Observe
  <2> QED BY <2>1 DEF Fine, Advances, Follows, Registry
<1> QED BY <1>1, <1>2

LEMMA ProjectedType ==
  ASSUME NEW r \in Record, NEW st \in Registry
  PROVE  /\ Projected(r, st) \in Record
         /\ Projected(r, st).attempt = r.attempt /\ Projected(r, st).epoch = st.epoch
BY DEF Projected, Record, Registry, Phases, Statuses, Healths, Roles

LEMMA PutWithin ==
  ASSUME NEW st \in Registry, NEW k \in Keys, NEW r \in Record, NEW e \in Nat,
         Within(st, e), r.epoch <= e
  PROVE  Within(Put(st, k, r), e)
<1> DEFINE new == Put(st, k, r)
<1>1. new.epoch = st.epoch /\ new.requests = [st.requests EXCEPT ![k] = r]
  BY PutType
<1>2. st.requests \in [Keys -> Record \cup {NoRecord}]
  BY DEF Registry
<1> HIDE DEF new
<1>3. Within(new, e)
  BY <1>1, <1>2 DEF Within, Held
<1> QED BY <1>3 DEF new

LEMMA MergeFine ==
  ASSUME NEW st \in Registry, NEW watermark \in Nat, NEW k \in Keys, NEW r \in Record
  PROVE  LET new == Merge(st, watermark, k, r) IN
         /\ Fine(st, new) /\ Follows(st, new, r.epoch)
         /\ \A e \in Nat : Within(st, e) /\ r.epoch <= e => Within(new, e)
<1> DEFINE token == Larger(watermark, r.attempt + 1)
           raised == RaiseToken(st, token)
           seen == Observe(raised, r.epoch)
           mine == Projected(r, seen)
           old == seen.requests[k]
           new == Merge(st, watermark, k, r)
           Goal == /\ Fine(st, new) /\ Follows(st, new, r.epoch)
                   /\ \A e \in Nat : Within(st, e) /\ r.epoch <= e => Within(new, e)
<1> SUFFICES Goal
  OBVIOUS
<1>1. r.attempt \in Nat /\ r.epoch \in Nat /\ token \in Nat /\ token > r.attempt
  BY DEF Record, Larger
<1>2. /\ raised \in Registry /\ Fine(st, raised) /\ raised.token >= token
      /\ raised.role = st.role /\ raised.epoch = st.epoch /\ raised.requests = st.requests
  BY <1>1, RaiseFine DEF Fine
<1>3. /\ seen \in Registry /\ Fine(raised, seen) /\ Follows(raised, seen, r.epoch)
      /\ seen.token = raised.token
      /\ \A e \in Nat : Within(raised, e) /\ r.epoch <= e => Within(seen, e)
  BY <1>1, <1>2, ObserveFine DEF Fine
<1>4. mine \in Record /\ mine.attempt = r.attempt /\ mine.epoch = seen.epoch
  BY <1>3, ProjectedType
<1>5. new \in {st, seen} \/ (Valid(mine) /\ new = Put(seen, k, mine))
         \/ (Held(seen, k) /\ Valid(mine) /\ new = Put(seen, k, Preferred(old, mine)))
  <2>1. r.epoch < seen.epoch \/ r.epoch >= seen.epoch
    BY <1>1, <1>3 DEF Registry
  <2> QED BY <2>1 DEF Merge
<1> HIDE DEF token, raised, seen, mine, new
<1>6. Fine(st, seen) /\ Follows(st, seen, r.epoch)
  BY <1>2, <1>3, FineTrans DEF Follows
<1>7. \A e \in Nat : Within(st, e) /\ r.epoch <= e => Within(seen, e)
  BY <1>2, <1>3 DEF Within, Held
<1>8. mine.attempt < seen.token
  BY <1>1, <1>2, <1>3, <1>4 DEF Registry
<1>9. CASE new = st
  BY <1>9 DEF Fine, Advances, Follows, Registry
<1>10. CASE new = seen
  BY <1>6, <1>7, <1>10
<1>11. CASE Valid(mine) /\ new = Put(seen, k, mine)
  <2>1. Fine(seen, new) /\ new.epoch = seen.epoch /\ new.role = seen.role
    BY <1>3, <1>4, <1>8, <1>11, PutFine, PutType
  <2>2. \A e \in Nat : Within(st, e) /\ r.epoch <= e => Within(new, e)
    <3>1. \A e \in Nat : Within(seen, e) => mine.epoch <= e
      BY <1>4 DEF Within
    <3> QED BY <1>3, <1>4, <1>7, <1>11, <3>1, PutWithin
  <2>3. Fine(st, new)
    BY <1>3, <1>6, <2>1, FineTrans
  <2> QED BY <1>6, <2>1, <2>2, <2>3 DEF Follows
<1>12. CASE Held(seen, k) /\ Valid(mine) /\ new = Put(seen, k, Preferred(old, mine))
  <2>1. Preferred(old, mine) \in {old, mine}
    BY DEF Preferred
  <2>2. CASE Preferred(old, mine) = mine
    BY <1>11, <1>12, <2>2
  <2>3. CASE Preferred(old, mine) = old
    <3>1. old \in Record /\ new = Put(seen, k, old) /\ seen \in Registry /\ Held(seen, k)
      BY <1>3, <1>12, <2>3 DEF Registry, Held
    <3>2. Fine(seen, new) /\ new.epoch = seen.epoch /\ new.role = seen.role
      BY <3>1, KeepFine, PutType
    <3>3. \A e \in Nat : Within(st, e) /\ r.epoch <= e => Within(new, e)
      <4>1. \A e \in Nat : Within(seen, e) => old.epoch <= e
        BY <1>12 DEF Within
      <4> QED BY <1>3, <1>7, <3>1, <4>1, PutWithin
    <3>4. Fine(st, new)
      BY <1>3, <1>6, <3>2, FineTrans
    <3> QED BY <1>6, <3>2, <3>3, <3>4 DEF Follows
  <2> QED BY <2>1, <2>2, <2>3
<1> QED BY <1>5, <1>9, <1>10, <1>11, <1>12

LEMMA MirroredFine ==
  ASSUME NEW st \in Registry, NEW k \in Keys, NEW r \in Record, CanMirror(st, k, r)
  PROVE  LET new == Mirrored(st, k, r) IN
         /\ Fine(st, new) /\ new.epoch = st.epoch /\ new.role = st.role
         /\ \A e \in Nat : Within(st, e) /\ r.epoch <= e => Within(new, e)
<1> DEFINE raised == RaiseToken(st, r.attempt + 1)
           old == st.requests[k]
           new == Mirrored(st, k, r)
           Goal == /\ Fine(st, new) /\ new.epoch = st.epoch /\ new.role = st.role
                   /\ \A e \in Nat : Within(st, e) /\ r.epoch <= e => Within(new, e)
<1> SUFFICES Goal
  OBVIOUS
<1>1. r.attempt \in Nat /\ r.epoch \in Nat /\ Valid(r)
  BY DEF Record, CanMirror
<1>2. /\ raised \in Registry /\ Fine(st, raised) /\ raised.token >= r.attempt + 1
      /\ raised.role = st.role /\ raised.epoch = st.epoch /\ raised.requests = st.requests
  <2>1. r.attempt + 1 \in Nat
    BY <1>1
  <2> QED BY <2>1, RaiseFine DEF Fine
<1>3. new = Put(raised, k, r) \/ (Held(st, k) /\ new = Put(raised, k, Preferred(old, r)))
  BY DEF Mirrored
<1> HIDE DEF raised, new
<1>4. \A e \in Nat : Within(st, e) => Within(raised, e)
  BY <1>2 DEF Within, Held
<1>5. CASE new = Put(raised, k, r)
  <2>1. r.attempt < raised.token
    BY <1>1, <1>2 DEF Registry
  <2>2. Fine(raised, new) /\ new.epoch = raised.epoch /\ new.role = raised.role
    BY <1>1, <1>2, <1>5, <2>1, PutFine, PutType
  <2>3. Fine(st, new)
    BY <1>2, <2>2, FineTrans
  <2>4. \A e \in Nat : Within(st, e) /\ r.epoch <= e => Within(new, e)
    BY <1>2, <1>4, <1>5, PutWithin
  <2> QED BY <1>2, <2>2, <2>3, <2>4
<1>6. CASE Held(st, k) /\ new = Put(raised, k, Preferred(old, r))
  <2>1. Preferred(old, r) \in {old, r}
    BY DEF Preferred
  <2>2. CASE Preferred(old, r) = r
    BY <1>5, <1>6, <2>2
  <2>3. CASE Preferred(old, r) = old
    <3>1. old \in Record /\ new = Put(raised, k, old) /\ Held(raised, k) /\ old = raised.requests[k]
      BY <1>2, <1>6, <2>3 DEF Registry, Held
    <3>2. Fine(raised, new) /\ new.epoch = raised.epoch /\ new.role = raised.role
      BY <1>2, <3>1, KeepFine, PutType
    <3>3. Fine(st, new)
      BY <1>2, <3>2, FineTrans
    <3>4. \A e \in Nat : Within(st, e) => old.epoch <= e
      BY <1>6 DEF Within
    <3>5. \A e \in Nat : Within(st, e) /\ r.epoch <= e => Within(new, e)
      BY <1>2, <1>4, <3>1, <3>4, PutWithin
    <3> QED BY <1>2, <3>2, <3>3, <3>5
  <2> QED BY <2>1, <2>2, <2>3
<1> QED BY <1>3, <1>5, <1>6

-----------------------------------------------------------------------------
(* The placement of declared work.                                         *)

\* The members of a finite set of numbers have one rank each, and every rank.
LEMMA Ranks ==
  ASSUME NEW S \in SUBSET Nat, IsFiniteSet(S), NEW i \in 1..Cardinality(S)
  PROVE  \E m \in S : Cardinality({l \in S : l < m}) = i - 1
<1> DEFINE n == Cardinality(S)
           Less(m) == {l \in S : l < m}
           f == [m \in S |-> Cardinality(Less(m)) + 1]
<1>1. n \in Nat
  BY FS_CardinalityType
<1>2. ASSUME NEW m \in S
      PROVE  IsFiniteSet(Less(m)) /\ Cardinality(Less(m)) \in Nat /\ Cardinality(Less(m)) + 1 \in 1..n
  <2>1. Less(m) \subseteq S \ {m}
    OBVIOUS
  <2>2. IsFiniteSet(S \ {m}) /\ Cardinality(S \ {m}) = n - 1
    BY FS_RemoveElement
  <2> HIDE DEF Less
  <2>3. IsFiniteSet(Less(m)) /\ Cardinality(Less(m)) <= n - 1
    BY <2>1, <2>2, FS_Subset
  <2>4. Cardinality(Less(m)) \in Nat
    BY <2>3, FS_CardinalityType
  <2> HIDE DEF n
  <2> QED BY <1>1, <2>3, <2>4
<1>3. ASSUME NEW m \in S, NEW p \in S, m < p PROVE Cardinality(Less(m)) < Cardinality(Less(p))
  <2>1. Less(m) \subseteq Less(p) /\ m \in Less(p) /\ m \notin Less(m)
    <3>1. \A l \in S : l \in Nat
      OBVIOUS
    <3>2. m \in Nat /\ p \in Nat /\ ~(m < m) /\ \A l \in S : l < m => l < p
      BY <1>3, <3>1
    <3> QED BY <1>3, <3>2
  <2> HIDE DEF Less
  <2>2. /\ Cardinality(Less(m)) <= Cardinality(Less(p))
        /\ Cardinality(Less(p)) = Cardinality(Less(m)) => Less(p) = Less(m)
    BY <1>2, <2>1, FS_Subset
  <2>3. Cardinality(Less(m)) # Cardinality(Less(p))
    BY <2>1, <2>2
  <2> QED BY <1>2, <2>2, <2>3
<1>4. f \in [S -> 1..n]
  BY <1>2
<1>5. ASSUME NEW m \in S, NEW p \in S, f[m] = f[p] PROVE m = p
  <2>1. m < p \/ p < m \/ m = p
    OBVIOUS
  <2>2. Cardinality(Less(m)) = Cardinality(Less(p))
    BY <1>2, <1>5
  <2>3. Cardinality(Less(m)) \in Nat
    BY <1>2
  <2> HIDE DEF Less, f
  <2> QED BY <1>3, <2>1, <2>2, <2>3
<1>6. f \in Injection(S, 1..n)
  <2> HIDE DEF f
  <2> QED BY <1>4, <1>5 DEF Injection, IsInjective
<1>7. IsFiniteSet(1..n) /\ Cardinality(1..n) = n
  <2>1. Cardinality(1..n) = IF 1 > n THEN 0 ELSE n - 1 + 1
    BY <1>1, FS_Interval
  <2>2. IsFiniteSet(1..n)
    BY <1>1, FS_Interval
  <2> HIDE DEF n
  <2> QED BY <1>1, <2>1, <2>2
<1>8. f \in Surjection(S, 1..n)
  <2> HIDE DEF f
  <2> QED BY <1>6, <1>7, FS_Injection
<1>9. PICK m \in S : f[m] = i
  <2> HIDE DEF f
  <2> QED BY <1>8 DEF Surjection
<1>10. Cardinality(Less(m)) + 1 = i
  BY <1>9
<1>11. Cardinality(Less(m)) = i - 1
  <2>1. i \in Nat
    OBVIOUS
  <2> HIDE DEF Less, n
  <2> QED BY <1>2, <1>10, <2>1
<1> QED BY <1>11

\* declared_work_placement: owner and replica are members; with a peer, they
\* are two.
LEMMA Placement ==
  ASSUME sessions \in [Nodes -> SUBSET Nodes], NEW n \in Nodes, n \notin sessions[n], NEW k \in Keys
  PROVE  /\ Placed(n, k, 0) \in Nodes /\ Placed(n, k, 1) \in Nodes
         /\ sessions[n] # {} => Placed(n, k, 0) # Placed(n, k, 1)
<1> DEFINE members == {n} \cup sessions[n]
           c == Cardinality(members)
           At(i) == CHOOSE m \in members : Cardinality({l \in members : l < m}) = i - 1
<1>1. members \subseteq Nodes /\ members \in SUBSET Nat
  BY NodesAssumption
<1>2. IsFiniteSet(members)
  BY <1>1, NodeSetsAssumption, FS_Subset
<1>3. c \in Nat /\ c >= 1
  <2>1. c \in Nat /\ c # 0
    BY <1>2, FS_CardinalityType, FS_EmptySet
  <2> HIDE DEF c
  <2> QED BY <2>1
<1>4. sessions[n] # {} => c >= 2
  <2>1. ASSUME sessions[n] # {} PROVE c # 1
    <3>1. PICK m : m \in sessions[n] /\ m # n
      BY <2>1
    <3>2. ASSUME NEW x, members = {x} PROVE FALSE
      BY <3>1, <3>2
    <3> QED BY <1>2, <3>2, FS_Singleton
  <2> HIDE DEF c
  <2> QED BY <1>3, <2>1
<1>5. ASSUME NEW i \in 1..c
      PROVE  At(i) \in members /\ Cardinality({l \in members : l < At(i)}) = i - 1
  <2>1. \E m \in members : Cardinality({l \in members : l < m}) = i - 1
    BY <1>1, <1>2, Ranks
  <2> HIDE DEF members
  <2> QED BY <2>1
<1>6. ASSUME NEW i \in {0, 1}
      PROVE  ((k + i) % c) + 1 \in 1..c /\ Placed(n, k, i) = At(((k + i) % c) + 1)
  <2>1. Membership(n) = [j \in 1..c |-> At(j)]
    BY DEF Membership
  <2>2. Len(Membership(n)) = c
    <3> HIDE DEF c, At
    <3> QED BY <1>3, <2>1
  <2>3. k \in Nat
    BY KeysAssumption
  <2>4. ((k + i) % c) + 1 \in 1..c
    <3> HIDE DEF c
    <3> QED BY <1>3, <2>3
  <2>5. Placed(n, k, i) = Membership(n)[((k + i) % Len(Membership(n))) + 1]
    BY DEF Placed
  <2> HIDE DEF c, At
  <2> QED BY <2>1, <2>2, <2>4, <2>5
<1>7. Placed(n, k, 0) \in Nodes /\ Placed(n, k, 1) \in Nodes
  <2> HIDE DEF At
  <2> QED BY <1>1, <1>5, <1>6
<1>8. ASSUME sessions[n] # {} PROVE ((k + 0) % c) + 1 # ((k + 1) % c) + 1
  <2>1. k \in Nat
    BY KeysAssumption
  <2> HIDE DEF c
  <2> QED BY <1>4, <1>3, <1>8, <2>1
<1>9. ASSUME sessions[n] # {}, Placed(n, k, 0) = Placed(n, k, 1) PROVE FALSE
  <2> DEFINE i == ((k + 0) % c) + 1
             j == ((k + 1) % c) + 1
  <2>1. i \in 1..c /\ j \in 1..c /\ At(i) = At(j)
    BY <1>6, <1>9
  <2>2. i # j
    BY <1>8, <1>9
  <2> HIDE DEF i, j, c
  <2>3. i - 1 = j - 1
    BY <1>5, <2>1
  <2> QED BY <1>3, <2>1, <2>2, <2>3
<1> QED BY <1>7, <1>9

-----------------------------------------------------------------------------
(* What a step does to the registries.                                     *)

\* A node has no session with itself; the owner and the replica of a submission
\* are two; a call past the minting of its attempt has a record.
CallsOK == \A n \in Nodes :
    /\ n \notin sessions[n]
    /\ call[n] # Idle => call[n].req.replica # call[n].req.owner
    /\ call[n] # Idle /\ call[n].at # "submit" => call[n].rec \in Record

\* How an authority moves: it follows a message, or a standby takes the lead.
Moves(st, new) ==
    \/ new.epoch = st.epoch /\ new.role = st.role
    \/ /\ new.epoch > st.epoch /\ new.role = "standby"
       /\ \E msg \in msgs : msg.rec.epoch = new.epoch
    \/ st.role = "standby" /\ new.role = "primary" /\ new.epoch = st.epoch + 1

\* A step changes one registry at most.
OneChanges ==
    \/ reg' = reg
    \/ \E n \in Nodes : \E st : /\ reg' = [reg EXCEPT ![n] = st]
                                /\ Fine(reg[n], st) /\ Moves(reg[n], st)

\* A call that is under way is a call.
LEMMA CallUnderWay ==
  ASSUME TypeOK, NEW n \in Nodes, call[n].at # "idle"
  PROVE  /\ call[n] \in Call /\ call[n] # Idle
         /\ call[n].key \in Keys /\ call[n].req \in Request
BY DEF TypeOK, Idle, Call

\* reject_durable_request rejects the record of its key, if it changes any.
LEMMA RejectChanges ==
  ASSUME NEW n, NEW k, NEW attempt, NEW rest, RejectDurable(n, k, attempt, rest)
  PROVE  \/ UNCHANGED reg /\ msgs' = rest
         \/ LET st == Put(reg[n], k, Rejected(reg[n].requests[k]))
            IN  Held(reg[n], k) /\ reg' = [reg EXCEPT ![n] = st] /\ msgs' = rest \cup Upserts(n, k, st)
BY DEF RejectDurable, CanReject, Held

LEMMA RegistryStep == TypeOK /\ CallsOK /\ [Next]_vars => OneChanges \/ \E n \in Nodes : Crash(n)
<1> SUFFICES ASSUME TypeOK, CallsOK, [Next]_vars, \A n \in Nodes : ~Crash(n) PROVE OneChanges
  OBVIOUS
<1>a. ASSUME NEW n \in Nodes, NEW k \in Keys, Held(reg[n], k), NEW r,
             r \in {Acknowledged(reg[n].requests[k]), Rejected(reg[n].requests[k]),
                    Completed(reg[n].requests[k], n)},
             reg' = [reg EXCEPT ![n] = Put(reg[n], k, r)]
      PROVE  OneChanges
  <2>1. reg[n] \in Registry /\ reg[n].requests[k] \in Record
    BY <1>a DEF TypeOK, Registry, Held
  <2>2. /\ r \in Record /\ r.attempt = reg[n].requests[k].attempt
        /\ Valid(reg[n].requests[k]) => Valid(r)
    BY <1>a, <2>1, TransitionType
  <2>3. Fine(reg[n], Put(reg[n], k, r))
    BY <1>a, <2>1, <2>2, KeepFine
  <2>4. Moves(reg[n], Put(reg[n], k, r))
    BY <2>1, <2>2, PutType DEF Moves
  <2> QED BY <1>a, <2>3, <2>4 DEF OneChanges
<1>b. ASSUME NEW n \in Nodes, NEW m \in Nodes, NEW new,
             \A k \in HeldKeys(reg[n]) :
                new[k] \in {OwnerLost(reg[n].requests[k], m), Degraded(reg[n].requests[k], m),
                            HealthDegraded(reg[n].requests[k], m)},
             reg' = [reg EXCEPT ![n] = Replaced(reg[n], new)]
      PROVE  OneChanges
  <2>1. reg[n] \in Registry /\ \A k \in HeldKeys(reg[n]) : reg[n].requests[k] \in Record
    BY DEF TypeOK, Registry, HeldKeys, Held
  <2>2. ASSUME NEW k \in HeldKeys(reg[n])
        PROVE  /\ new[k] \in Record /\ new[k].attempt = reg[n].requests[k].attempt
               /\ Valid(reg[n].requests[k]) => Valid(new[k])
    BY <1>b, <2>1, TransitionType
  <2>3. Fine(reg[n], Replaced(reg[n], new))
    BY <2>1, <2>2, ReplacedFine
  <2>4. Moves(reg[n], Replaced(reg[n], new))
    BY <2>1, <2>2, ReplacedType DEF Moves
  <2> QED BY <1>b, <2>3, <2>4 DEF OneChanges
<1>1. ASSUME NEW n \in Nodes, Submit(n) PROVE OneChanges
  BY <1>1 DEF Submit, OneChanges
<1>2. ASSUME NEW n \in Nodes, Recover(n) PROVE OneChanges
  BY <1>2 DEF Recover, OneChanges
<1>3. ASSUME NEW n \in Nodes, MintAttempt(n) PROVE OneChanges
  <2> DEFINE k == call[n].key
             st == Put([reg[n] EXCEPT !.token = reg[n].token + 1], k,
                       Submitted(call[n].req, reg[n].token))
  <2>1. reg' = [reg EXCEPT ![n] = st]
    BY <1>3 DEF MintAttempt
  <2>2. k \in Keys /\ call[n].req \in Request /\ call[n].req.replica # call[n].req.owner
    BY <1>3, CallUnderWay DEF MintAttempt, CallsOK
  <2>3. reg[n] \in Registry
    BY DEF TypeOK
  <2>4. Fine(reg[n], st)
    BY <2>2, <2>3, MintFine
  <2>5. st.role = reg[n].role /\ st.epoch = reg[n].epoch
    <3> DEFINE next == [reg[n] EXCEPT !.token = reg[n].token + 1]
    <3>1. next \in Registry /\ next.role = reg[n].role /\ next.epoch = reg[n].epoch
      BY <2>3 DEF Registry
    <3>2. Submitted(call[n].req, reg[n].token) \in Record
      BY <2>2, <2>3, SubmittedType DEF Registry
    <3> HIDE DEF next
    <3>3. /\ Put(next, k, Submitted(call[n].req, reg[n].token)).role = next.role
          /\ Put(next, k, Submitted(call[n].req, reg[n].token)).epoch = next.epoch
      BY <2>2, <3>1, <3>2, PutType
    <3> QED BY <3>1, <3>3 DEF next
  <2> HIDE DEF st
  <2> QED BY <2>1, <2>4, <2>5 DEF OneChanges, Moves
<1>4. ASSUME NEW n \in Nodes, Refuse(n) PROVE OneChanges
  BY <1>4 DEF Refuse, OneChanges
<1>5. ASSUME NEW n \in Nodes, Finalize(n) PROVE OneChanges
  BY <1>5 DEF Finalize, OneChanges
<1>6. ASSUME NEW n \in Nodes, PrepareTimeout(n) PROVE OneChanges
  BY <1>6 DEF PrepareTimeout, OneChanges
<1>7. ASSUME NEW n \in Nodes, AckPrepare(n) PROVE OneChanges
  <2>1. \/ reg' = reg
        \/ /\ Held(reg[n], call[n].key)
           /\ reg' = [reg EXCEPT ![n] = Put(reg[n], call[n].key, Acknowledged(reg[n].requests[call[n].key]))]
    BY <1>7 DEF AckPrepare, Change, Held
  <2>2. call[n].key \in Keys
    BY <1>7, CallUnderWay DEF AckPrepare
  <2> QED BY <1>a, <2>1, <2>2 DEF OneChanges
<1>8. ASSUME NEW n \in Nodes, RejectRequest(n) PROVE OneChanges
  <2>1. \/ reg' = reg
        \/ /\ Held(reg[n], call[n].key)
           /\ reg' = [reg EXCEPT ![n] = Put(reg[n], call[n].key, Rejected(reg[n].requests[call[n].key]))]
    BY <1>8, RejectChanges DEF RejectRequest
  <2>2. call[n].key \in Keys
    BY <1>8, CallUnderWay DEF RejectRequest
  <2> QED BY <1>a, <2>1, <2>2 DEF OneChanges
<1>9. ASSUME NEW n \in Nodes, Dispatch(n) PROVE OneChanges
  BY <1>9 DEF Dispatch, OneChanges
<1>10. ASSUME NEW n \in Nodes, NEW m \in Nodes, Connect(n, m) PROVE OneChanges
  BY <1>10 DEF Connect, OneChanges
<1>11. ASSUME NEW n \in Nodes, NEW m \in Nodes, LoseSession(n, m) PROVE OneChanges
  BY <1>11 DEF LoseSession, OneChanges
<1>12. ASSUME NEW n \in Nodes, NEW m \in Nodes, MarkOwnerLoss(n, m) PROVE OneChanges
  <2> DEFINE new == [k \in HeldKeys(reg[n]) |-> OwnerLost(reg[n].requests[k], m)]
  <2>1. reg' = [reg EXCEPT ![n] = Replaced(reg[n], new)]
    BY <1>12 DEF MarkOwnerLoss, LossPass, Change
  <2>2. \A k \in HeldKeys(reg[n]) : new[k] = OwnerLost(reg[n].requests[k], m)
    OBVIOUS
  <2> HIDE DEF new
  <2> QED BY <1>b, <2>1, <2>2
<1>13. ASSUME NEW n \in Nodes, NEW m \in Nodes, DegradeReplica(n, m) PROVE OneChanges
  <2> DEFINE new == [k \in HeldKeys(reg[n]) |-> Degraded(reg[n].requests[k], m)]
  <2>1. reg' = [reg EXCEPT ![n] = Replaced(reg[n], new)]
    BY <1>13 DEF DegradeReplica, LossPass, Change
  <2>2. \A k \in HeldKeys(reg[n]) : new[k] = Degraded(reg[n].requests[k], m)
    OBVIOUS
  <2> HIDE DEF new
  <2> QED BY <1>b, <2>1, <2>2
<1>14. ASSUME NEW n \in Nodes, NEW m \in Nodes, DegradeHealth(n, m) PROVE OneChanges
  <2> DEFINE new == [k \in HeldKeys(reg[n]) |-> HealthDegraded(reg[n].requests[k], m)]
  <2>1. reg' = [reg EXCEPT ![n] = Replaced(reg[n], new)]
    BY <1>14 DEF DegradeHealth, LossPass, Change
  <2>2. \A k \in HeldKeys(reg[n]) : new[k] = HealthDegraded(reg[n].requests[k], m)
    OBVIOUS
  <2> HIDE DEF new
  <2> QED BY <1>b, <2>1, <2>2
<1>15. ASSUME NEW n \in Nodes, NEW m \in Nodes, CheckPromotion(n, m) PROVE OneChanges
  BY <1>15 DEF CheckPromotion, OneChanges
<1>16. ASSUME NEW n \in Nodes, NEW m \in Nodes, Promote(n, m) PROVE OneChanges
  <2>1. CASE ~CanPromote(reg[n])
    BY <1>16, <2>1 DEF Promote, OneChanges
  <2>2. CASE CanPromote(reg[n])
    <3>1. reg[n] \in Registry /\ reg[n].role = "standby" /\ "primary" \in Roles
      BY <2>2 DEF CanPromote, TypeOK, Roles
    <3>2. PICK e \in Nat : e = reg[n].epoch + 1 /\ e > reg[n].epoch
      BY <3>1 DEF Registry
    <3>3. PICK st : st = ChangeAuthority(reg[n], "primary", e)
      OBVIOUS
    <3>4. reg' = [reg EXCEPT ![n] = st]
      BY <1>16, <2>2, <3>2, <3>3 DEF Promote, Change, Promoted
    <3>5. Fine(reg[n], st)
      BY <3>1, <3>2, <3>3, AuthorityFine
    <3>6. st.role = "primary" /\ st.epoch = e
      BY <3>1, <3>3 DEF ChangeAuthority, Registry
    <3> QED BY <3>1, <3>2, <3>4, <3>5, <3>6 DEF OneChanges, Moves
  <2> QED BY <2>1, <2>2
<1>17. ASSUME NEW n \in Nodes, NEW m \in Nodes, Resume(n, m) PROVE OneChanges
  BY <1>17 DEF Resume, OneChanges
<1>18. ASSUME NEW t \in tasks, Complete(t) PROVE OneChanges
  <2>1. \/ reg' = reg
        \/ /\ Held(reg[t.node], t.key)
           /\ reg' = [reg EXCEPT ![t.node] = Put(reg[t.node], t.key,
                                                Completed(reg[t.node].requests[t.key], t.node))]
    BY <1>18 DEF Complete, Change, Held, CanComplete
  <2>2. t.node \in Nodes /\ t.key \in Keys
    BY DEF TypeOK
  <2> QED BY <1>a, <2>1, <2>2 DEF OneChanges
<1>19. ASSUME NEW msg \in msgs, ReceiveUpsert(msg) PROVE OneChanges
  <2> DEFINE st == Merge(reg[msg.to], msg.token, msg.key, msg.rec)
  <2>1. reg' = [reg EXCEPT ![msg.to] = st]
    BY <1>19 DEF ReceiveUpsert
  <2>2. /\ msg.to \in Nodes /\ reg[msg.to] \in Registry
        /\ msg.token \in Nat /\ msg.key \in Keys /\ msg.rec \in Record
    BY DEF TypeOK, Messages
  <2>3. Fine(reg[msg.to], st) /\ Follows(reg[msg.to], st, msg.rec.epoch)
    BY <2>2, MergeFine
  <2> HIDE DEF st
  <2> QED BY <2>1, <2>2, <2>3 DEF OneChanges, Moves, Follows
<1>20. ASSUME NEW msg \in msgs, ReceivePrepare(msg) PROVE OneChanges
  <2> DEFINE st == Mirrored(reg[msg.to], msg.key, msg.rec)
  <2>1. msg.to \in Nodes /\ reg[msg.to] \in Registry /\ msg.key \in Keys /\ msg.rec \in Record
    BY DEF TypeOK, Messages
  <2>2. CASE ~CanMirror(reg[msg.to], msg.key, msg.rec)
    BY <1>20, <2>1, <2>2 DEF ReceivePrepare, OneChanges, TypeOK
  <2>3. CASE CanMirror(reg[msg.to], msg.key, msg.rec)
    <3>1. reg' = [reg EXCEPT ![msg.to] = st]
      BY <1>20, <2>3 DEF ReceivePrepare
    <3>2. Fine(reg[msg.to], st) /\ st.epoch = reg[msg.to].epoch /\ st.role = reg[msg.to].role
      BY <2>1, <2>3, MirroredFine
    <3> HIDE DEF st
    <3> QED BY <2>1, <3>1, <3>2 DEF OneChanges, Moves
  <2> QED BY <2>2, <2>3
<1>21. ASSUME NEW msg \in msgs, ReceiveAnswer(msg) PROVE OneChanges
  BY <1>21 DEF ReceiveAnswer, OneChanges
<1>22. ASSUME NEW msg \in msgs, ReceiveSpawn(msg) PROVE OneChanges
  BY <1>22 DEF ReceiveSpawn, OneChanges
<1>24. ASSUME NEW msg \in msgs, ReceiveFailure(msg) PROVE OneChanges
  <2>1. \/ reg' = reg
        \/ /\ Held(reg[msg.to], msg.key)
           /\ reg' = [reg EXCEPT ![msg.to] = Put(reg[msg.to], msg.key, Rejected(reg[msg.to].requests[msg.key]))]
    BY <1>24, RejectChanges DEF ReceiveFailure
  <2>2. msg.to \in Nodes /\ msg.key \in Keys
    BY DEF TypeOK, Messages
  <2> QED BY <1>a, <2>1, <2>2 DEF OneChanges
<1>23. CASE UNCHANGED vars
  BY <1>23 DEF vars, OneChanges
<1> QED BY <1>1, <1>2, <1>3, <1>4, <1>5, <1>6, <1>7, <1>8, <1>9, <1>10, <1>11, <1>12, <1>13,
           <1>14, <1>15, <1>16, <1>17, <1>18, <1>19, <1>20, <1>21, <1>22, <1>23, <1>24
        DEF Next, CallNext, PeerNext, Deliver

-----------------------------------------------------------------------------
(* The types.                                                              *)

LEMMA MessageType ==
  ASSUME NEW type \in {"upsert", "prepare", "ack", "nack", "spawn", "failed"}, NEW n \in Nodes, NEW m \in Nodes,
         NEW k \in Keys, NEW token \in Nat, NEW r \in Record
  PROVE  Message(type, n, m, k, token, r) \in Messages
BY DEF Message, Messages

LEMMA UpsertsType ==
  ASSUME TypeOK, NEW n \in Nodes, NEW st \in Registry, NEW k \in Keys, Held(st, k)
  PROVE  Upserts(n, k, st) \subseteq Messages
<1>1. st.token \in Nat /\ st.requests[k] \in Record
  BY DEF Registry, Held
<1>2. \A m \in sessions[n] : m \in Nodes
  BY DEF TypeOK
<1>3. \A m \in sessions[n] : Message("upsert", n, m, k, st.token, st.requests[k]) \in Messages
  BY <1>1, <1>2, MessageType
<1> QED BY <1>3 DEF Upserts

LEMMA ChangeType ==
  ASSUME TypeOK, NEW n \in Nodes, NEW st \in Registry, NEW ks, \A k \in ks : k \in Keys /\ Held(st, k),
         Change(n, st, ks)
  PROVE  msgs' \subseteq Messages
<1>1. \A k \in ks : Upserts(n, k, st) \subseteq Messages
  BY UpsertsType
<1>2. msgs' = msgs \cup UNION {Upserts(n, k, st) : k \in ks}
  BY DEF Change
<1> QED BY <1>1, <1>2 DEF TypeOK

LEMMA SnapshotType ==
  ASSUME TypeOK, NEW n \in Nodes, NEW m \in Nodes
  PROVE  Snapshot(n, m) \subseteq Messages
<1>1. ASSUME NEW k \in Keys, Held(reg[n], k)
      PROVE  Message("upsert", n, m, k, reg[n].token, reg[n].requests[k]) \in Messages
  <2>1. reg[n].token \in Nat /\ reg[n].requests[k] \in Record
    BY <1>1 DEF TypeOK, Registry, Held
  <2> QED BY <2>1, MessageType
<1> QED BY <1>1 DEF Snapshot

\* A pass over the records changes held records only.
LEMMA LossPassType ==
  ASSUME TypeOK, NEW n \in Nodes, NEW m \in Nodes, NEW at, NEW next, NEW new,
         \A k \in HeldKeys(reg[n]) : new[k] \in Record, LossPass(n, m, at, next, new)
  PROVE  msgs' \subseteq Messages
<1> DEFINE st == Replaced(reg[n], new)
           ks == {k \in Keys : st.requests[k] # reg[n].requests[k]}
<1>1. reg[n] \in Registry
  BY DEF TypeOK
<1>2. st \in Registry /\ st.requests = [k \in Keys |-> IF Held(reg[n], k) THEN new[k] ELSE NoRecord]
  BY <1>1, ReplacedType
<1>3. Change(n, st, ks)
  BY DEF LossPass
<1> HIDE DEF st
<1>4. ASSUME NEW k \in ks PROVE k \in Keys /\ Held(st, k)
  <2>1. Held(reg[n], k)
    BY <1>2 DEF Held
  <2>2. st.requests[k] \in Record
    BY <1>2, <2>1 DEF HeldKeys
  <2> QED BY <2>2, RecordIsHeld DEF Held
<1> HIDE DEF ks
<1> QED BY <1>2, <1>3, <1>4, ChangeType

\* A record that is mirrored is held.
LEMMA MirroredHolds ==
  ASSUME NEW st \in Registry, NEW k \in Keys, NEW r \in Record, CanMirror(st, k, r)
  PROVE  Held(Mirrored(st, k, r), k)
<1>1. RaiseToken(st, r.attempt + 1) \in Registry /\ RaiseToken(st, r.attempt + 1).requests = st.requests
  <2>1. r.attempt + 1 \in Nat
    BY DEF Record
  <2> QED BY <2>1, RaiseFine DEF Fine
<1>2. PICK s \in Record : Mirrored(st, k, r) = Put(RaiseToken(st, r.attempt + 1), k, s)
  <2>1. Held(st, k) => Preferred(st.requests[k], r) \in Record
    BY DEF Preferred, Registry, Held
  <2> QED BY <2>1 DEF Mirrored
<1>3. Mirrored(st, k, r).requests = [st.requests EXCEPT ![k] = s]
  BY <1>1, <1>2, PutType
<1>4. Mirrored(st, k, r).requests[k] = s
  BY <1>3 DEF Registry
<1> QED BY <1>4, RecordIsHeld DEF Held

\* The call of a submission, whose placement and authority are read at once.
LEMMA PreparedType ==
  ASSUME TypeOK, CallsOK, NEW n \in Nodes, NEW k \in Keys, NEW h \in Hashes,
         NEW required \in Required \cup {0}
  PROVE  LET c == Prepared(n, k, h, required) IN
         /\ c \in Call /\ c.at = "submit" /\ c.req.replica # c.req.owner
<1>1. /\ Placed(n, k, 0) \in Nodes /\ Placed(n, k, 1) \in Nodes
      /\ sessions[n] # {} => Placed(n, k, 0) # Placed(n, k, 1)
  BY Placement DEF TypeOK, CallsOK
<1>2. reg[n].role \in Roles /\ reg[n].epoch \in Nat
  BY DEF TypeOK, Registry
<1>3. "submit" \in Stages
  BY DEF Stages
<1> QED BY <1>1, <1>2, <1>3, NodesAssumption DEF Prepared, Call, Request

\* What a step may make of the calls: nothing, or one call that is in order.
InOrder(c) == c \in Call /\ c.req.replica # c.req.owner /\ (c.at # "submit" => c.rec \in Record)

LEMMA CallType ==
  ASSUME TypeOK, CallsOK, NEW n \in Nodes, NEW c, c = Idle \/ InOrder(c),
         call' = [call EXCEPT ![n] = c], UNCHANGED sessions
  PROVE  call' \in [Nodes -> Call \cup {Idle}] /\ CallsOK'
BY DEF TypeOK, CallsOK, InOrder

LEMMA GotoType ==
  ASSUME TypeOK, CallsOK, NEW n \in Nodes, call[n].at \notin {"idle", "submit"},
         NEW at \in Stages \ {"submit"}, Goto(n, at), UNCHANGED sessions
  PROVE  call' \in [Nodes -> Call \cup {Idle}] /\ CallsOK'
<1>1. call[n] \in Call /\ call[n] # Idle
  BY CallUnderWay
<1>2. PICK c : c = [call[n] EXCEPT !.at = at]
  OBVIOUS
<1>3. c \in Call /\ c.at = at /\ c.req = call[n].req /\ c.rec = call[n].rec
  BY <1>1, <1>2 DEF Call
<1>4. InOrder(c)
  BY <1>1, <1>3 DEF InOrder, CallsOK
<1>5. call' = [call EXCEPT ![n] = c]
  BY <1>2 DEF Goto
<1> QED BY <1>4, <1>5, CallType

LEMMA RegistryType == TypeOK /\ CallsOK /\ [Next]_vars => reg' \in [Nodes -> Registry]
<1> SUFFICES ASSUME TypeOK, CallsOK, [Next]_vars PROVE reg' \in [Nodes -> Registry]
  OBVIOUS
<1>1. ASSUME OneChanges PROVE reg' \in [Nodes -> Registry]
  BY <1>1 DEF OneChanges, Fine, TypeOK
<1>2. ASSUME NEW n \in Nodes, Crash(n) PROVE reg' \in [Nodes -> Registry]
  <2>1. Fresh(n) \in Registry
    BY DEF Fresh, Registry, Roles
  <2> QED BY <1>2, <2>1 DEF Crash, TypeOK
<1> QED BY <1>1, <1>2, RegistryStep

LEMMA RejectWires ==
  ASSUME TypeOK, NEW n \in Nodes, NEW k \in Keys, NEW attempt, NEW rest \in SUBSET msgs,
         RejectDurable(n, k, attempt, rest)
  PROVE  msgs' \subseteq Messages
<1> DEFINE r == reg[n].requests[k]
           a == Rejected(r)
           st == Put(reg[n], k, a)
<1>1. CASE msgs' = rest
  BY <1>1 DEF TypeOK
<1>2. CASE Held(reg[n], k) /\ msgs' = rest \cup Upserts(n, k, st)
  <2>1. r \in Record /\ reg[n] \in Registry
    BY <1>2 DEF TypeOK, Registry, Held
  <2>2. a \in Record
    BY <2>1, TransitionType
  <2> HIDE DEF a
  <2>3. st \in Registry /\ st.requests = [reg[n].requests EXCEPT ![k] = a]
    BY <2>1, <2>2, PutType
  <2>4. st.requests[k] = a
    BY <2>1, <2>3 DEF Registry
  <2>5. Held(st, k)
    BY <2>2, <2>4, RecordIsHeld DEF Held
  <2> HIDE DEF st
  <2>6. Upserts(n, k, st) \subseteq Messages
    BY <2>3, <2>5, UpsertsType
  <2> QED BY <1>2, <2>6 DEF TypeOK
<1> QED BY <1>1, <1>2, RejectChanges

LEMMA TypeStep == TypeOK /\ CallsOK /\ [Next]_vars => TypeOK' /\ CallsOK'
<1> DEFINE Calls == call' \in [Nodes -> Call \cup {Idle}] /\ CallsOK'
           Losses == loss' \in [Nodes -> [Nodes -> {"none", "owner", "replica", "health",
                                                    "check", "promote", "resume"}]]
           Works == /\ tasks' \subseteq [node : Nodes, key : Keys, attempt : Nat]
                    /\ recovering' \subseteq [node : Nodes, key : Keys, hash : Hashes]
           Wires == sessions' \in [Nodes -> SUBSET Nodes] /\ msgs' \subseteq Messages
           Bounds == cuts' \in Nat /\ crashes' \in Nat
           Goal == TypeOK' /\ CallsOK'
<1> SUFFICES ASSUME TypeOK, CallsOK, [Next]_vars PROVE Goal
  OBVIOUS
<1>r. reg' \in [Nodes -> Registry]
  BY RegistryType
<1>g. ASSUME Calls, Losses, Works, Wires, Bounds PROVE Goal
  BY <1>g, <1>r DEF TypeOK
<1>c. ASSUME UNCHANGED <<call, sessions>> PROVE Calls
  BY <1>c DEF TypeOK, CallsOK
<1>l. ASSUME UNCHANGED loss PROVE Losses
  BY <1>l DEF TypeOK
<1>w. ASSUME UNCHANGED <<tasks, recovering>> PROVE Works
  BY <1>w DEF TypeOK
<1>m. ASSUME UNCHANGED <<sessions, msgs>> PROVE Wires
  BY <1>m DEF TypeOK
<1>b. ASSUME UNCHANGED bounds PROVE Bounds
  BY <1>b DEF TypeOK, bounds
<1>o. ASSUME NEW n \in Nodes, NEW m \in Nodes, NEW next, loss' = [loss EXCEPT ![n][m] = next],
             next \in {"none", "owner", "replica", "health", "check", "promote", "resume"}
      PROVE  Losses
  BY <1>o DEF TypeOK
<1> HIDE DEF Calls, Losses, Works, Wires, Bounds, Goal
<1>1. ASSUME NEW n \in Nodes, Submit(n) PROVE Goal
  <2>1. PICK k \in Keys, h \in Hashes, required \in Required :
           call' = [call EXCEPT ![n] = Prepared(n, k, h, required)]
    BY <1>1 DEF Submit
  <2>2. InOrder(Prepared(n, k, h, required))
    BY PreparedType DEF InOrder
  <2>3. Calls
    BY <1>1, <2>1, <2>2, CallType DEF Submit, Calls
  <2> QED BY <1>1, <1>g, <1>l, <1>w, <1>m, <1>b, <2>3 DEF Submit
<1>2. ASSUME NEW n \in Nodes, Recover(n) PROVE Goal
  <2>1. PICK job \in recovering, required \in Required \cup {0} :
           /\ call' = [call EXCEPT ![n] = Prepared(n, job.key, job.hash, required)]
           /\ recovering' = recovering \ {job}
    BY <1>2 DEF Recover
  <2>2. InOrder(Prepared(n, job.key, job.hash, required))
    <3>1. job.key \in Keys /\ job.hash \in Hashes
      BY DEF TypeOK
    <3> QED BY <3>1, PreparedType DEF InOrder
  <2>3. Calls
    BY <1>2, <2>1, <2>2, CallType DEF Recover, Calls
  <2>4. Works
    BY <1>2, <2>1 DEF Recover, Works, TypeOK
  <2> QED BY <1>2, <1>g, <1>l, <1>m, <1>b, <2>3, <2>4 DEF Recover
<1>3. ASSUME NEW n \in Nodes, MintAttempt(n) PROVE Goal
  <2>1. call[n] \in Call /\ call[n] # Idle /\ call[n].req \in Request
    BY <1>3, CallUnderWay DEF MintAttempt
  <2>2. PICK r : r = Submitted(call[n].req, reg[n].token)
    OBVIOUS
  <2>3. r \in Record
    <3>1. reg[n].token \in Nat
      BY DEF TypeOK, Registry
    <3> QED BY <2>1, <2>2, <3>1, SubmittedType
  <2>4. PICK c : c = [call[n] EXCEPT !.at = "finalize", !.rec = r]
    OBVIOUS
  <2>5. InOrder(c)
    <3>1. c \in Call /\ c.req = call[n].req /\ c.rec = r
      BY <2>1, <2>3, <2>4 DEF Call, Stages
    <3> QED BY <2>1, <2>3, <3>1 DEF InOrder, CallsOK
  <2>6. call' = [call EXCEPT ![n] = c]
    BY <1>3, <2>2, <2>4 DEF MintAttempt
  <2>7. Calls
    BY <1>3, <2>5, <2>6, CallType DEF MintAttempt, Calls
  <2> QED BY <1>3, <1>g, <1>l, <1>w, <1>m, <1>b, <2>7 DEF MintAttempt
<1>4. ASSUME NEW n \in Nodes, Refuse(n) PROVE Goal
  <2>1. Calls
    BY <1>4, CallType DEF Refuse, Return, Calls
  <2> QED BY <1>4, <1>g, <1>l, <1>w, <1>m, <1>b, <2>1 DEF Refuse
<1>5. ASSUME NEW n \in Nodes, Finalize(n) PROVE Goal
  <2>1. PICK at \in Stages \ {"submit"} : Goto(n, at)
    BY <1>5 DEF Finalize, Stages
  <2>2. Calls
    BY <1>5, <2>1, GotoType DEF Finalize, Calls
  <2>3. /\ call[n].key \in Keys /\ call[n].rec \in Record
        /\ call[n].rec.attempt + 1 \in Nat
    <3>1. call[n].key \in Keys /\ call[n].rec \in Record
      BY <1>5, CallUnderWay DEF Finalize, CallsOK
    <3> QED BY <3>1 DEF Record
  <2>4. sessions[n] \subseteq Nodes
    BY DEF TypeOK
  <2>5. msgs' \subseteq Messages
    <3>1. \A m \in sessions[n] :
             Message("upsert", n, m, call[n].key, call[n].rec.attempt + 1, call[n].rec) \in Messages
      BY <2>3, <2>4, MessageType
    <3>2. call[n].rec.replica \in sessions[n] =>
             Message("prepare", n, call[n].rec.replica, call[n].key, 0, call[n].rec) \in Messages
      BY <2>3, <2>4, MessageType
    <3> QED BY <1>5, <3>1, <3>2 DEF Finalize, TypeOK
  <2>6. Wires
    BY <1>5, <2>5 DEF Finalize, Wires, TypeOK
  <2> QED BY <1>5, <1>g, <1>l, <1>w, <1>b, <2>2, <2>6 DEF Finalize
<1>6. ASSUME NEW n \in Nodes, PrepareTimeout(n) PROVE Goal
  <2>1. Calls
    BY <1>6, GotoType DEF PrepareTimeout, Stages, Calls
  <2> QED BY <1>6, <1>g, <1>l, <1>w, <1>m, <1>b, <2>1 DEF PrepareTimeout
<1>7. ASSUME NEW n \in Nodes, AckPrepare(n) PROVE Goal
  <2> DEFINE k == call[n].key
             r == reg[n].requests[k]
  <2>1. call[n] \in Call /\ call[n] # Idle /\ k \in Keys
    BY <1>7, CallUnderWay DEF AckPrepare
  <2>2. CASE r = NoRecord \/ r.attempt # call[n].rec.attempt
    <3>1. UNCHANGED <<reg, msgs, sessions, loss, tasks, recovering, bounds>> /\ Return(n)
      BY <1>7, <2>2 DEF AckPrepare
    <3>2. Calls
      BY <3>1, CallType DEF Return, Calls
    <3> QED BY <1>g, <1>l, <1>w, <1>m, <1>b, <3>1, <3>2
  <2>3. CASE ~(r = NoRecord \/ r.attempt # call[n].rec.attempt)
    <3> DEFINE a == Acknowledged(r)
               st == Put(reg[n], k, a)
    <3>1. r \in Record /\ reg[n] \in Registry
      BY <2>1, <2>3 DEF TypeOK, Registry
    <3>2. a \in Record
      BY <1>7, <3>1, TransitionType
    <3>3. Change(n, st, {k}) /\ UNCHANGED <<sessions, loss, tasks, recovering, bounds>>
      BY <1>7, <2>3 DEF AckPrepare
    <3>4. call' = [call EXCEPT ![n] = IF r.phase = "rejected" THEN Idle
                                      ELSE [call[n] EXCEPT !.at = "dispatch", !.rec = a]]
      BY <1>7, <2>3 DEF AckPrepare
    <3> HIDE DEF a
    <3>5. st \in Registry /\ Held(st, k)
      <4>1. st \in Registry /\ st.requests = [reg[n].requests EXCEPT ![k] = a]
        BY <2>1, <3>1, <3>2, PutType
      <4>2. st.requests[k] = a
        BY <2>1, <3>1, <4>1 DEF Registry
      <4> QED BY <3>2, <4>1, <4>2, RecordIsHeld DEF Held
    <3>6. msgs' \subseteq Messages
      <4> HIDE DEF st, k
      <4> QED BY <2>1, <3>3, <3>5, ChangeType
    <3>7. PICK c : c = IF r.phase = "rejected" THEN Idle
                       ELSE [call[n] EXCEPT !.at = "dispatch", !.rec = a]
      OBVIOUS
    <3>8. c = Idle \/ InOrder(c)
      <4>1. CASE r.phase # "rejected"
        <5>1. c \in Call /\ c.req = call[n].req /\ c.rec = a
          BY <2>1, <3>2, <3>7, <4>1 DEF Call, Stages
        <5> QED BY <2>1, <3>2, <5>1 DEF InOrder, CallsOK
      <4>2. CASE r.phase = "rejected"
        BY <3>7, <4>2
      <4> QED BY <4>1, <4>2
    <3>9. Calls
      BY <3>3, <3>4, <3>7, <3>8, CallType DEF Calls
    <3>10. Wires
      BY <3>3, <3>6 DEF Wires, TypeOK
    <3> QED BY <1>g, <1>l, <1>w, <1>b, <3>3, <3>9, <3>10
  <2> QED BY <2>2, <2>3
<1>8. ASSUME NEW n \in Nodes, RejectRequest(n) PROVE Goal
  <2>1. call[n].key \in Keys
    BY <1>8, CallUnderWay DEF RejectRequest
  <2>2. msgs' \subseteq Messages
    BY <1>8, <2>1, RejectWires DEF RejectRequest
  <2>3. Calls
    BY <1>8, CallType DEF RejectRequest, Return, Calls
  <2>4. Wires
    BY <1>8, <2>2 DEF RejectRequest, Wires, TypeOK
  <2> QED BY <1>8, <1>g, <1>l, <1>w, <1>b, <2>3, <2>4 DEF RejectRequest
<1>9. ASSUME NEW n \in Nodes, Dispatch(n) PROVE Goal
  <2>1. call[n] \in Call /\ call[n] # Idle /\ call[n].key \in Keys /\ call[n].rec \in Record
    BY <1>9, CallUnderWay DEF Dispatch, CallsOK
  <2>2. Calls
    <3>1. CASE Return(n)
      BY <1>9, <3>1, CallType DEF Dispatch, Return, Calls
    <3>2. CASE Goto(n, "reject")
      BY <1>9, <3>2, GotoType DEF Dispatch, Stages, Calls
    <3> QED BY <1>9, <3>1, <3>2 DEF Dispatch
  <2>3. Wires
    <3>1. call[n].rec.owner \in sessions[n] =>
             Message("spawn", n, call[n].rec.owner, call[n].key, 0, call[n].rec) \in Messages
      BY <2>1, MessageType DEF TypeOK
    <3> QED BY <1>9, <3>1 DEF Dispatch, Wires, TypeOK
  <2>4. Works
    <3>1. call[n].rec.attempt \in Nat
      BY <2>1 DEF Record
    <3> QED BY <1>9, <2>1, <3>1 DEF Dispatch, Works, TypeOK
  <2> QED BY <1>9, <1>g, <1>l, <1>b, <2>2, <2>3, <2>4 DEF Dispatch
<1>10. ASSUME NEW n \in Nodes, Crash(n) PROVE Goal
  <2>1. Calls
    BY <1>10 DEF Crash, Calls, TypeOK, CallsOK
  <2>2. Losses
    BY <1>10 DEF Crash, Losses, TypeOK
  <2>3. Works
    BY <1>10 DEF Crash, Works, TypeOK
  <2>4. Wires
    BY <1>10 DEF Crash, Wires, TypeOK
  <2>5. Bounds
    BY <1>10 DEF Crash, Bounds, TypeOK
  <2> QED BY <1>g, <2>1, <2>2, <2>3, <2>4, <2>5
<1>11. ASSUME NEW n \in Nodes, NEW m \in Nodes, Connect(n, m) PROVE Goal
  <2>1. n # m
    BY <1>11, NodesAssumption DEF Connect
  <2>2. Calls
    BY <1>11, <2>1 DEF Connect, Calls, TypeOK, CallsOK
  <2>3. Wires
    <3>1. Snapshot(n, m) \subseteq Messages /\ Snapshot(m, n) \subseteq Messages
      BY <1>11, SnapshotType
    <3> QED BY <1>11, <3>1 DEF Connect, Wires, TypeOK
  <2> QED BY <1>11, <1>g, <1>l, <1>w, <1>b, <2>2, <2>3 DEF Connect
<1>12. ASSUME NEW n \in Nodes, NEW m \in Nodes, LoseSession(n, m) PROVE Goal
  <2>1. Calls
    BY <1>12 DEF LoseSession, Calls, TypeOK, CallsOK
  <2>2. Losses
    BY <1>12, <1>o DEF LoseSession
  <2>3. Wires
    BY <1>12 DEF LoseSession, Wires, TypeOK
  <2>4. Bounds
    BY <1>12 DEF LoseSession, Bounds, TypeOK
  <2> QED BY <1>12, <1>g, <1>w, <2>1, <2>2, <2>3, <2>4 DEF LoseSession
<1>13. ASSUME NEW n \in Nodes, NEW m \in Nodes, MarkOwnerLoss(n, m) PROVE Goal
  <2> DEFINE new == [k \in HeldKeys(reg[n]) |-> OwnerLost(reg[n].requests[k], m)]
  <2>1. LossPass(n, m, "owner", "replica", new)
    BY <1>13 DEF MarkOwnerLoss
  <2>2. \A k \in HeldKeys(reg[n]) : new[k] \in Record
    <3>1. \A k \in HeldKeys(reg[n]) : reg[n].requests[k] \in Record
      BY DEF HeldKeys, Held, TypeOK, Registry
    <3> QED BY <1>13, <3>1, TransitionType
  <2> HIDE DEF new
  <2>3. Wires
    <3>1. msgs' \subseteq Messages
      BY <1>13, <2>1, <2>2, LossPassType
    <3> QED BY <2>1, <3>1 DEF LossPass, Wires, TypeOK
  <2>4. Losses
    BY <1>13, <1>o, <2>1 DEF LossPass
  <2> QED BY <1>g, <1>c, <1>w, <1>b, <2>1, <2>3, <2>4 DEF LossPass
<1>14. ASSUME NEW n \in Nodes, NEW m \in Nodes, DegradeReplica(n, m) PROVE Goal
  <2> DEFINE new == [k \in HeldKeys(reg[n]) |-> Degraded(reg[n].requests[k], m)]
  <2>1. LossPass(n, m, "replica", "health", new)
    BY <1>14 DEF DegradeReplica
  <2>2. \A k \in HeldKeys(reg[n]) : new[k] \in Record
    <3>1. \A k \in HeldKeys(reg[n]) : reg[n].requests[k] \in Record
      BY DEF HeldKeys, Held, TypeOK, Registry
    <3> QED BY <1>14, <3>1, TransitionType
  <2> HIDE DEF new
  <2>3. Wires
    <3>1. msgs' \subseteq Messages
      BY <1>14, <2>1, <2>2, LossPassType
    <3> QED BY <2>1, <3>1 DEF LossPass, Wires, TypeOK
  <2>4. Losses
    BY <1>14, <1>o, <2>1 DEF LossPass
  <2> QED BY <1>g, <1>c, <1>w, <1>b, <2>1, <2>3, <2>4 DEF LossPass
<1>15. ASSUME NEW n \in Nodes, NEW m \in Nodes, DegradeHealth(n, m) PROVE Goal
  <2> DEFINE new == [k \in HeldKeys(reg[n]) |-> HealthDegraded(reg[n].requests[k], m)]
  <2>1. LossPass(n, m, "health", "check", new)
    BY <1>15 DEF DegradeHealth
  <2>2. \A k \in HeldKeys(reg[n]) : new[k] \in Record
    <3>1. \A k \in HeldKeys(reg[n]) : reg[n].requests[k] \in Record
      BY DEF HeldKeys, Held, TypeOK, Registry
    <3> QED BY <1>15, <3>1, TransitionType
  <2> HIDE DEF new
  <2>3. Wires
    <3>1. msgs' \subseteq Messages
      BY <1>15, <2>1, <2>2, LossPassType
    <3> QED BY <2>1, <3>1 DEF LossPass, Wires, TypeOK
  <2>4. Losses
    BY <1>15, <1>o, <2>1 DEF LossPass
  <2> QED BY <1>g, <1>c, <1>w, <1>b, <2>1, <2>3, <2>4 DEF LossPass
<1>16. ASSUME NEW n \in Nodes, NEW m \in Nodes, CheckPromotion(n, m) PROVE Goal
  <2>1. Losses
    BY <1>16, <1>o DEF CheckPromotion
  <2> QED BY <1>16, <1>g, <1>c, <1>w, <1>m, <1>b, <2>1 DEF CheckPromotion
<1>17. ASSUME NEW n \in Nodes, NEW m \in Nodes, Promote(n, m) PROVE Goal
  <2>1. Losses
    BY <1>17, <1>o DEF Promote
  <2>2. msgs' \subseteq Messages
    <3>1. CASE UNCHANGED msgs
      BY <3>1 DEF TypeOK
    <3>2. CASE Change(n, Promoted(reg[n]), {k \in Keys : Held(reg[n], k)})
      <4>1. PICK e \in Nat : e = reg[n].epoch + 1
        BY <1>17 DEF TypeOK, Registry
      <4>2. PICK st : st = ChangeAuthority(reg[n], "primary", e)
        OBVIOUS
      <4>3. /\ st \in Registry
            /\ st.requests = [k \in Keys |-> IF Held(reg[n], k)
                                              THEN Reprojected(reg[n].requests[k], reg[n].role, "primary", e)
                                              ELSE NoRecord]
        BY <1>17, <4>1, <4>2, AuthorityType DEF TypeOK, Roles
      <4>4. \A k \in Keys : Held(reg[n], k) => Held(st, k)
        <5>1. ASSUME NEW k \in Keys, Held(reg[n], k)
              PROVE  Reprojected(reg[n].requests[k], reg[n].role, "primary", e) \in Record
          <6>1. reg[n].requests[k] \in Record /\ reg[n].role \in Roles /\ "primary" \in Roles
            BY <1>17, <5>1 DEF TypeOK, Registry, Held, Roles
          <6> QED BY <4>1, <6>1, ReprojectedType
        <5> QED BY <4>3, <5>1, RecordIsHeld DEF Held
      <4>5. Change(n, st, {k \in Keys : Held(reg[n], k)})
        BY <3>2, <4>1, <4>2 DEF Promoted
      <4> QED BY <1>17, <4>3, <4>4, <4>5, ChangeType
    <3> QED BY <1>17, <3>1, <3>2 DEF Promote
  <2>3. Wires
    BY <1>17, <2>2 DEF Promote, Wires, TypeOK
  <2> QED BY <1>17, <1>g, <1>c, <1>w, <1>b, <2>1, <2>3 DEF Promote
<1>18. ASSUME NEW n \in Nodes, NEW m \in Nodes, Resume(n, m) PROVE Goal
  <2>1. Losses
    BY <1>18, <1>o DEF Resume
  <2>2. Works
    <3>1. \A k \in Keys : Pending(reg[n].requests[k]) => reg[n].requests[k].hash \in Hashes
      <4>1. ASSUME NEW k \in Keys, Pending(reg[n].requests[k])
            PROVE  reg[n].requests[k] \in Record
        BY <1>18, <4>1 DEF TypeOK, Registry, Pending, NoRecord
      <4> QED BY <4>1 DEF Record
    <3> QED BY <1>18, <3>1 DEF Resume, Works, TypeOK
  <2> QED BY <1>18, <1>g, <1>c, <1>m, <1>b, <2>1, <2>2 DEF Resume
<1>19. ASSUME NEW t \in tasks, Complete(t) PROVE Goal
  <2> DEFINE k == t.key
             r == reg[t.node].requests[k]
             a == Completed(r, t.node)
             st == Put(reg[t.node], k, a)
  <2>1. k \in Keys /\ t.node \in Nodes
    BY DEF TypeOK
  <2>2. msgs' \subseteq Messages
    <3>1. CASE UNCHANGED msgs
      BY <3>1 DEF TypeOK
    <3>2. CASE Held(reg[t.node], k) /\ Change(t.node, st, {k})
      <4>1. r \in Record /\ reg[t.node] \in Registry
        BY <2>1, <3>2 DEF TypeOK, Registry, Held
      <4>2. a \in Record
        BY <2>1, <4>1, TransitionType
      <4> HIDE DEF a
      <4>3. st \in Registry /\ st.requests = [reg[t.node].requests EXCEPT ![k] = a]
        BY <2>1, <4>1, <4>2, PutType
      <4>4. st.requests[k] = a
        BY <2>1, <4>1, <4>3 DEF Registry
      <4>5. Held(st, k)
        BY <4>2, <4>4, RecordIsHeld DEF Held
      <4> HIDE DEF st, k
      <4> QED BY <2>1, <3>2, <4>3, <4>5, ChangeType
    <3> QED BY <1>19, <3>1, <3>2 DEF Complete, Held, CanComplete
  <2>3. Wires
    BY <1>19, <2>2 DEF Complete, Wires, TypeOK
  <2>4. Works
    BY <1>19 DEF Complete, Works, TypeOK
  <2> QED BY <1>19, <1>g, <1>c, <1>l, <1>b, <2>3, <2>4 DEF Complete
<1>20. ASSUME NEW msg \in msgs, ReceiveUpsert(msg) PROVE Goal
  <2>1. Wires
    BY <1>20 DEF ReceiveUpsert, Wires, TypeOK
  <2> QED BY <1>20, <1>g, <1>c, <1>l, <1>w, <1>b, <2>1 DEF ReceiveUpsert
<1>21. ASSUME NEW msg \in msgs, ReceivePrepare(msg) PROVE Goal
  <2> DEFINE n == msg.to
             k == msg.key
             ok == CanMirror(reg[n], k, msg.rec)
             st == Mirrored(reg[n], k, msg.rec)
             answer == Message(IF ok THEN "ack" ELSE "nack", n, msg.from, k, 0, msg.rec)
  <2>1. n \in Nodes /\ msg.from \in Nodes /\ k \in Keys /\ msg.rec \in Record /\ reg[n] \in Registry
    BY DEF TypeOK, Messages
  <2>2. answer \in Messages
    BY <2>1, MessageType
  <2>3. ok => Upserts(n, k, st) \subseteq Messages
    <3>1. SUFFICES ASSUME ok PROVE Upserts(n, k, st) \subseteq Messages
      OBVIOUS
    <3>2. reg' = [reg EXCEPT ![n] = st]
      BY <1>21, <3>1 DEF ReceivePrepare
    <3>3. st \in Registry
      BY <1>r, <2>1, <3>2 DEF TypeOK
    <3>4. Held(st, k)
      BY <2>1, <3>1, MirroredHolds
    <3> HIDE DEF st, n, k
    <3> QED BY <2>1, <3>3, <3>4, UpsertsType
  <2>4. msgs' = (msgs \ {msg}) \cup {answer} \cup IF ok THEN Upserts(n, k, st) ELSE {}
    BY <1>21 DEF ReceivePrepare
  <2>5. Wires
    <3> HIDE DEF answer, ok, st, n, k
    <3> QED BY <1>21, <2>2, <2>3, <2>4 DEF ReceivePrepare, Wires, TypeOK
  <2> QED BY <1>21, <1>g, <1>c, <1>l, <1>w, <1>b, <2>5 DEF ReceivePrepare
<1>22. ASSUME NEW msg \in msgs, ReceiveAnswer(msg) PROVE Goal
  <2>1. Wires
    BY <1>22 DEF ReceiveAnswer, Wires, TypeOK
  <2>2. Calls
    <3>1. CASE UNCHANGED call
      BY <1>22, <1>c, <3>1 DEF ReceiveAnswer
    <3>2. CASE call[msg.to].at = "prepare" /\ \E at \in {"ack", "reject"} : Goto(msg.to, at)
      <4>1. msg.to \in Nodes
        BY DEF TypeOK, Messages
      <4> QED BY <1>22, <3>2, <4>1, GotoType DEF ReceiveAnswer, Calls, Stages
    <3> QED BY <1>22, <3>1, <3>2 DEF ReceiveAnswer
  <2> QED BY <1>22, <1>g, <1>l, <1>w, <1>b, <2>1, <2>2 DEF ReceiveAnswer
<1>23. ASSUME NEW msg \in msgs, ReceiveSpawn(msg) PROVE Goal
  <2>1. msg.to \in Nodes /\ msg.from \in Nodes /\ msg.key \in Keys /\ msg.rec \in Record /\ msg.rec.attempt \in Nat
    BY DEF TypeOK, Messages, Record
  <2>2. Message("failed", msg.to, msg.from, msg.key, 0, msg.rec) \in Messages
    BY <2>1, MessageType
  <2>3. Wires
    BY <1>23, <2>2 DEF ReceiveSpawn, Wires, TypeOK
  <2>4. Works
    BY <1>23, <2>1 DEF ReceiveSpawn, Works, TypeOK
  <2> QED BY <1>23, <1>g, <1>c, <1>l, <1>b, <2>3, <2>4 DEF ReceiveSpawn
<1>25. ASSUME NEW msg \in msgs, ReceiveFailure(msg) PROVE Goal
  <2>1. msg.to \in Nodes /\ msg.key \in Keys
    BY DEF TypeOK, Messages
  <2>2. msgs' \subseteq Messages
    BY <1>25, <2>1, RejectWires DEF ReceiveFailure
  <2>3. Wires
    BY <1>25, <2>2 DEF ReceiveFailure, Wires, TypeOK
  <2> QED BY <1>25, <1>g, <1>c, <1>l, <1>w, <1>b, <2>3 DEF ReceiveFailure
<1>24. CASE UNCHANGED vars
  BY <1>24, <1>g, <1>c, <1>l, <1>w, <1>m, <1>b DEF vars
<1> QED BY <1>1, <1>2, <1>3, <1>4, <1>5, <1>6, <1>7, <1>8, <1>9, <1>10, <1>11, <1>12, <1>13,
           <1>14, <1>15, <1>16, <1>17, <1>18, <1>19, <1>20, <1>21, <1>22, <1>23, <1>24, <1>25
        DEF Next, CallNext, PeerNext, Deliver

-----------------------------------------------------------------------------
(* Each registry by itself.                                                *)

LEMMA SoundRecords == (ValidRecords /\ TokenAhead) <=> \A n \in Nodes : Sound(reg[n])
BY DEF ValidRecords, TokenAhead, Sound

LEMMA SoundRecordsNext == (ValidRecords' /\ TokenAhead') <=> \A n \in Nodes : Sound(reg'[n])
BY DEF ValidRecords, TokenAhead, Sound, Held

LEMMA SoundStep ==
  TypeOK /\ CallsOK /\ ValidRecords /\ TokenAhead /\ [Next]_vars => ValidRecords' /\ TokenAhead'
<1> SUFFICES ASSUME TypeOK, CallsOK, \A n \in Nodes : Sound(reg[n]), [Next]_vars
             PROVE  \A n \in Nodes : Sound(reg'[n])
  BY SoundRecords, SoundRecordsNext
<1>1. CASE OneChanges
  BY <1>1 DEF OneChanges, Fine, TypeOK
<1>2. ASSUME NEW n \in Nodes, Crash(n) PROVE \A m \in Nodes : Sound(reg'[m])
  <2>1. Sound(Fresh(n))
    BY DEF Sound, Held, Fresh
  <2> QED BY <1>2, <2>1 DEF Crash, TypeOK
<1> QED BY <1>1, <1>2, RegistryStep

LEMMA AuthorityStep == TypeOK /\ CallsOK /\ [Next]_vars => AuthorityOnlyAdvances
<1> SUFFICES ASSUME TypeOK, CallsOK, [Next]_vars, crashes' = crashes, NEW n \in Nodes
             PROVE  /\ reg'[n].epoch >= reg[n].epoch
                    /\ reg'[n].epoch = reg[n].epoch => reg'[n].role = reg[n].role
  BY DEF AuthorityOnlyAdvances
<1>1. \A m \in Nodes : ~Crash(m)
  BY DEF Crash, TypeOK
<1>2. OneChanges
  BY <1>1, RegistryStep
<1>3. reg[n].epoch \in Nat
  BY DEF TypeOK, Registry
<1> QED BY <1>2, <1>3 DEF OneChanges, Fine, Advances, TypeOK

-----------------------------------------------------------------------------
(* Two nodes: which epochs there are, and who leads.                       *)

\* Nothing anywhere is of a later epoch than e.
EpochsWithin(e) ==
    /\ \A n \in Nodes : Within(reg[n], e)
    /\ \A msg \in msgs : msg.rec.epoch <= e
    /\ \A n \in Nodes : call[n] # Idle => /\ call[n].req.epoch <= e
                                          /\ call[n].rec \in Record => call[n].rec.epoch <= e

LEMMA EpochsLater ==
  ASSUME TypeOK, NEW d \in Nat, NEW e \in Nat, d <= e, EpochsWithin(d)
  PROVE  EpochsWithin(e)
<1>1. \A n \in Nodes : reg[n].epoch \in Nat /\ \A k \in Keys : Held(reg[n], k) => reg[n].requests[k].epoch \in Nat
  BY DEF TypeOK, Registry, Held, Record
<1>2. \A msg \in msgs : msg.rec.epoch \in Nat
  BY DEF TypeOK, Messages, Record
<1>3. ASSUME NEW n \in Nodes, call[n] # Idle
      PROVE  call[n].req.epoch \in Nat /\ (call[n].rec \in Record => call[n].rec.epoch \in Nat)
  BY <1>3 DEF TypeOK, Call, Request, Record
<1> QED BY <1>1, <1>2, <1>3 DEF EpochsWithin, Within

\* What a registry that is within e writes to the wire is within e.
LEMMA UpsertsWithin ==
  ASSUME NEW e \in Nat, NEW n, NEW st, Within(st, e), NEW ks, \A k \in ks : k \in Keys /\ Held(st, k)
  PROVE  \A msg \in UNION {Upserts(n, k, st) : k \in ks} : msg.rec.epoch <= e
BY DEF Within, Upserts, Message

LEMMA RegistryWithin ==
  ASSUME TypeOK, CallsOK, [Next]_vars, NEW e \in Nat, EpochsWithin(e),
         \A n \in Nodes : reg'[n].epoch <= e
  PROVE  \A n \in Nodes : Within(reg'[n], e)
<1> DEFINE Goal == \A n \in Nodes : Within(reg'[n], e)
<1>t. \A n \in Nodes : reg[n] \in Registry /\ Within(reg[n], e)
  BY DEF TypeOK, EpochsWithin
<1>u. ASSUME UNCHANGED reg PROVE Goal
  BY <1>u, <1>t
<1>s. ASSUME NEW n \in Nodes, NEW st, reg' = [reg EXCEPT ![n] = st], Within(st, e) PROVE Goal
  BY <1>s, <1>t DEF TypeOK
<1>a. ASSUME NEW n \in Nodes, NEW k \in Keys, Held(reg[n], k), NEW r,
             r \in {Acknowledged(reg[n].requests[k]), Rejected(reg[n].requests[k]),
                    Completed(reg[n].requests[k], n)},
             reg' = [reg EXCEPT ![n] = Put(reg[n], k, r)]
      PROVE  Goal
  <2>1. reg[n] \in Registry /\ reg[n].requests[k] \in Record
    BY <1>a DEF TypeOK, Registry, Held
  <2>2. r \in Record /\ r.epoch = reg[n].requests[k].epoch
    BY <1>a, <2>1, TransitionType
  <2>3. r.epoch <= e
    BY <1>a, <1>t, <2>2 DEF Within
  <2>4. Within(Put(reg[n], k, r), e)
    BY <1>a, <1>t, <2>1, <2>2, <2>3, PutWithin
  <2> QED BY <1>a, <1>s, <2>4
<1>b. ASSUME NEW n \in Nodes, NEW m \in Nodes, NEW new,
             \A k \in HeldKeys(reg[n]) :
                new[k] \in {OwnerLost(reg[n].requests[k], m), Degraded(reg[n].requests[k], m),
                            HealthDegraded(reg[n].requests[k], m)},
             reg' = [reg EXCEPT ![n] = Replaced(reg[n], new)]
      PROVE  Goal
  <2>1. reg[n] \in Registry /\ \A k \in HeldKeys(reg[n]) : reg[n].requests[k] \in Record
    BY DEF TypeOK, Registry, HeldKeys, Held
  <2>2. ASSUME NEW k \in HeldKeys(reg[n])
        PROVE  new[k] \in Record /\ new[k].epoch = reg[n].requests[k].epoch
    <3>1. PICK old \in Record : old = reg[n].requests[k]
      BY <2>1, <2>2
    <3>2. new[k] \in {OwnerLost(old, m), Degraded(old, m), HealthDegraded(old, m)}
      BY <1>b, <2>2, <3>1
    <3>3. new[k] \in Record /\ new[k].epoch = old.epoch
      BY <3>2, TransitionType
    <3> QED BY <3>1, <3>3
  <2>3. /\ Replaced(reg[n], new).epoch = reg[n].epoch
        /\ Replaced(reg[n], new).requests = [k \in Keys |-> IF Held(reg[n], k) THEN new[k] ELSE NoRecord]
    BY <2>1, <2>2, ReplacedType
  <2>4. Within(Replaced(reg[n], new), e)
    BY <1>t, <2>2, <2>3 DEF Within, Held, HeldKeys
  <2> QED BY <1>b, <1>s, <2>4
<1> HIDE DEF Goal
<1> SUFFICES Goal
  BY DEF Goal
<1>1. ASSUME NEW n \in Nodes, Submit(n) PROVE Goal
  BY <1>1, <1>u DEF Submit
<1>2. ASSUME NEW n \in Nodes, Recover(n) PROVE Goal
  BY <1>2, <1>u DEF Recover
<1>3. ASSUME NEW n \in Nodes, MintAttempt(n) PROVE Goal
  <2> DEFINE next == [reg[n] EXCEPT !.token = reg[n].token + 1]
             r == Submitted(call[n].req, reg[n].token)
  <2>1. reg' = [reg EXCEPT ![n] = Put(next, call[n].key, r)]
    BY <1>3 DEF MintAttempt
  <2>2. /\ call[n].key \in Keys /\ call[n].req \in Request /\ call[n].req.epoch <= e
    BY <1>3, CallUnderWay DEF MintAttempt, EpochsWithin
  <2>3. next \in Registry /\ Within(next, e)
    BY <1>t DEF Registry, Within, Held
  <2>4. r \in Record /\ r.epoch = call[n].req.epoch
    <3>1. reg[n].token \in Nat
      BY DEF TypeOK, Registry
    <3> QED BY <2>2, <3>1, SubmittedType DEF Submitted
  <2> HIDE DEF next, r
  <2>5. Within(Put(next, call[n].key, r), e)
    BY <2>2, <2>3, <2>4, PutWithin
  <2> QED BY <1>s, <2>1, <2>5
<1>4. ASSUME NEW n \in Nodes, Refuse(n) PROVE Goal
  BY <1>4, <1>u DEF Refuse
<1>5. ASSUME NEW n \in Nodes, Finalize(n) PROVE Goal
  BY <1>5, <1>u DEF Finalize
<1>6. ASSUME NEW n \in Nodes, PrepareTimeout(n) PROVE Goal
  BY <1>6, <1>u DEF PrepareTimeout
<1>7. ASSUME NEW n \in Nodes, AckPrepare(n) PROVE Goal
  <2>1. \/ reg' = reg
        \/ /\ Held(reg[n], call[n].key)
           /\ reg' = [reg EXCEPT ![n] = Put(reg[n], call[n].key, Acknowledged(reg[n].requests[call[n].key]))]
    BY <1>7 DEF AckPrepare, Change, Held
  <2>2. call[n].key \in Keys
    BY <1>7, CallUnderWay DEF AckPrepare
  <2> QED BY <1>a, <1>u, <2>1, <2>2
<1>8. ASSUME NEW n \in Nodes, RejectRequest(n) PROVE Goal
  <2>1. \/ reg' = reg
        \/ /\ Held(reg[n], call[n].key)
           /\ reg' = [reg EXCEPT ![n] = Put(reg[n], call[n].key, Rejected(reg[n].requests[call[n].key]))]
    BY <1>8, RejectChanges DEF RejectRequest
  <2>2. call[n].key \in Keys
    BY <1>8, CallUnderWay DEF RejectRequest
  <2> QED BY <1>a, <1>u, <2>1, <2>2
<1>9. ASSUME NEW n \in Nodes, Dispatch(n) PROVE Goal
  BY <1>9, <1>u DEF Dispatch
<1>10. ASSUME NEW n \in Nodes, Crash(n) PROVE Goal
  <2>1. Within(Fresh(n), e)
    BY DEF Within, Fresh, Held
  <2> QED BY <1>10, <1>s, <2>1 DEF Crash
<1>11. ASSUME NEW n \in Nodes, NEW m \in Nodes, Connect(n, m) PROVE Goal
  BY <1>11, <1>u DEF Connect
<1>12. ASSUME NEW n \in Nodes, NEW m \in Nodes, LoseSession(n, m) PROVE Goal
  BY <1>12, <1>u DEF LoseSession
<1>13. ASSUME NEW n \in Nodes, NEW m \in Nodes, MarkOwnerLoss(n, m) PROVE Goal
  <2> DEFINE new == [k \in HeldKeys(reg[n]) |-> OwnerLost(reg[n].requests[k], m)]
  <2>1. reg' = [reg EXCEPT ![n] = Replaced(reg[n], new)]
    BY <1>13 DEF MarkOwnerLoss, LossPass, Change
  <2>2. \A k \in HeldKeys(reg[n]) : new[k] = OwnerLost(reg[n].requests[k], m)
    OBVIOUS
  <2> HIDE DEF new
  <2> QED BY <1>13, <1>b, <2>1, <2>2
<1>14. ASSUME NEW n \in Nodes, NEW m \in Nodes, DegradeReplica(n, m) PROVE Goal
  <2> DEFINE new == [k \in HeldKeys(reg[n]) |-> Degraded(reg[n].requests[k], m)]
  <2>1. reg' = [reg EXCEPT ![n] = Replaced(reg[n], new)]
    BY <1>14 DEF DegradeReplica, LossPass, Change
  <2>2. \A k \in HeldKeys(reg[n]) : new[k] = Degraded(reg[n].requests[k], m)
    OBVIOUS
  <2> HIDE DEF new
  <2> QED BY <1>14, <1>b, <2>1, <2>2
<1>15. ASSUME NEW n \in Nodes, NEW m \in Nodes, DegradeHealth(n, m) PROVE Goal
  <2> DEFINE new == [k \in HeldKeys(reg[n]) |-> HealthDegraded(reg[n].requests[k], m)]
  <2>1. reg' = [reg EXCEPT ![n] = Replaced(reg[n], new)]
    BY <1>15 DEF DegradeHealth, LossPass, Change
  <2>2. \A k \in HeldKeys(reg[n]) : new[k] = HealthDegraded(reg[n].requests[k], m)
    OBVIOUS
  <2> HIDE DEF new
  <2> QED BY <1>15, <1>b, <2>1, <2>2
<1>16. ASSUME NEW n \in Nodes, NEW m \in Nodes, CheckPromotion(n, m) PROVE Goal
  BY <1>16, <1>u DEF CheckPromotion
<1>17. ASSUME NEW n \in Nodes, NEW m \in Nodes, Promote(n, m) PROVE Goal
  <2>1. CASE ~CanPromote(reg[n])
    BY <1>17, <1>u, <2>1 DEF Promote
  <2>2. CASE CanPromote(reg[n])
    <3>1. reg[n] \in Registry /\ reg[n].role \in Roles /\ "primary" \in Roles
      BY <1>t DEF Registry, Roles
    <3>2. PICK d \in Nat : d = reg[n].epoch + 1
      BY <3>1 DEF Registry
    <3>3. PICK st : st = ChangeAuthority(reg[n], "primary", d)
      OBVIOUS
    <3>4. reg' = [reg EXCEPT ![n] = st]
      BY <1>17, <2>2, <3>2, <3>3 DEF Promote, Change, Promoted
    <3>5. /\ st.epoch = d
          /\ st.requests = [k \in Keys |-> IF Held(reg[n], k)
                                            THEN Reprojected(reg[n].requests[k], reg[n].role, "primary", d)
                                            ELSE NoRecord]
      BY <3>1, <3>2, <3>3, AuthorityType
    <3>6. d <= e
      <4>1. reg'[n] = st
        BY <1>17, <3>4 DEF TypeOK
      <4> QED BY <1>17, <3>5, <4>1
    <3>7. \A k \in Keys : Held(reg[n], k) => Reprojected(reg[n].requests[k], reg[n].role, "primary", d).epoch = d
      <4>1. \A k \in Keys : Held(reg[n], k) => reg[n].requests[k] \in Record
        BY <3>1 DEF Registry, Held
      <4> QED BY <3>1, <3>2, <4>1, ReprojectedType
    <3>8. Within(st, e)
      BY <3>5, <3>6, <3>7 DEF Within, Held
    <3> QED BY <1>17, <1>s, <3>4, <3>8
  <2> QED BY <2>1, <2>2
<1>18. ASSUME NEW n \in Nodes, NEW m \in Nodes, Resume(n, m) PROVE Goal
  BY <1>18, <1>u DEF Resume
<1>19. ASSUME NEW t \in tasks, Complete(t) PROVE Goal
  <2>1. \/ reg' = reg
        \/ /\ Held(reg[t.node], t.key)
           /\ reg' = [reg EXCEPT ![t.node] = Put(reg[t.node], t.key,
                                                Completed(reg[t.node].requests[t.key], t.node))]
    BY <1>19 DEF Complete, Change, Held, CanComplete
  <2>2. t.node \in Nodes /\ t.key \in Keys
    BY DEF TypeOK
  <2> QED BY <1>a, <1>u, <2>1, <2>2
<1>20. ASSUME NEW msg \in msgs, ReceiveUpsert(msg) PROVE Goal
  <2> DEFINE st == Merge(reg[msg.to], msg.token, msg.key, msg.rec)
  <2>1. reg' = [reg EXCEPT ![msg.to] = st]
    BY <1>20 DEF ReceiveUpsert
  <2>2. /\ msg.to \in Nodes /\ reg[msg.to] \in Registry /\ Within(reg[msg.to], e)
        /\ msg.token \in Nat /\ msg.key \in Keys /\ msg.rec \in Record /\ msg.rec.epoch <= e
    BY <1>t DEF TypeOK, Messages, EpochsWithin
  <2>3. Within(st, e)
    BY <2>2, MergeFine
  <2> HIDE DEF st
  <2> QED BY <1>s, <2>1, <2>2, <2>3
<1>21. ASSUME NEW msg \in msgs, ReceivePrepare(msg) PROVE Goal
  <2> DEFINE st == Mirrored(reg[msg.to], msg.key, msg.rec)
  <2>1. /\ msg.to \in Nodes /\ reg[msg.to] \in Registry /\ Within(reg[msg.to], e)
        /\ msg.key \in Keys /\ msg.rec \in Record /\ msg.rec.epoch <= e
    BY <1>t DEF TypeOK, Messages, EpochsWithin
  <2>2. CASE ~CanMirror(reg[msg.to], msg.key, msg.rec)
    BY <1>21, <1>u, <2>1, <2>2 DEF ReceivePrepare, TypeOK
  <2>3. CASE CanMirror(reg[msg.to], msg.key, msg.rec)
    <3>1. reg' = [reg EXCEPT ![msg.to] = st]
      BY <1>21, <2>3 DEF ReceivePrepare
    <3>2. Within(st, e)
      BY <2>1, <2>3, MirroredFine
    <3> HIDE DEF st
    <3> QED BY <1>s, <2>1, <3>1, <3>2
  <2> QED BY <2>2, <2>3
<1>22. ASSUME NEW msg \in msgs, ReceiveAnswer(msg) PROVE Goal
  BY <1>22, <1>u DEF ReceiveAnswer
<1>23. ASSUME NEW msg \in msgs, ReceiveSpawn(msg) PROVE Goal
  BY <1>23, <1>u DEF ReceiveSpawn
<1>25. ASSUME NEW msg \in msgs, ReceiveFailure(msg) PROVE Goal
  <2>1. \/ reg' = reg
        \/ /\ Held(reg[msg.to], msg.key)
           /\ reg' = [reg EXCEPT ![msg.to] = Put(reg[msg.to], msg.key, Rejected(reg[msg.to].requests[msg.key]))]
    BY <1>25, RejectChanges DEF ReceiveFailure
  <2>2. msg.to \in Nodes /\ msg.key \in Keys
    BY DEF TypeOK, Messages
  <2> QED BY <1>a, <1>u, <2>1, <2>2
<1>24. CASE UNCHANGED vars
  BY <1>24, <1>u DEF vars
<1> QED BY <1>1, <1>2, <1>3, <1>4, <1>5, <1>6, <1>7, <1>8, <1>9, <1>10, <1>11, <1>12, <1>13,
           <1>14, <1>15, <1>16, <1>17, <1>18, <1>19, <1>20, <1>21, <1>22, <1>23, <1>24, <1>25
        DEF Next, CallNext, PeerNext, Deliver

\* A change of a registry that stays within e is told within e.
LEMMA ChangeWithin ==
  ASSUME TypeOK', NEW e \in Nat, EpochsWithin(e), NEW n \in Nodes, NEW st, Within(st, e),
         NEW ks \in SUBSET Keys, Change(n, st, ks)
  PROVE  \A msg \in msgs' : msg.rec.epoch <= e
<1> SUFFICES ASSUME NEW msg \in msgs' PROVE msg.rec.epoch <= e
  OBVIOUS
<1>1. CASE msg \in msgs
  BY <1>1 DEF EpochsWithin
<1>2. CASE \E k \in ks : msg \in Upserts(n, k, st)
  <2>1. PICK k \in ks : msg \in Upserts(n, k, st)
    BY <1>2
  <2>2. msg.rec = st.requests[k]
    BY <2>1 DEF Upserts, Message
  <2>3. msg.rec \in Record
    BY DEF TypeOK, Messages
  <2> QED BY <2>2, <2>3, RecordIsHeld DEF Within, Held
<1>3. msg \in msgs \/ \E k \in ks : msg \in Upserts(n, k, st)
  BY DEF Change
<1> QED BY <1>1, <1>2, <1>3

LEMMA MessagesWithin ==
  ASSUME TypeOK, CallsOK, TypeOK', [Next]_vars, NEW e \in Nat, EpochsWithin(e),
         \A n \in Nodes : Within(reg'[n], e)
  PROVE  \A msg \in msgs' : msg.rec.epoch <= e
<1> DEFINE Goal == \A msg \in msgs' : msg.rec.epoch <= e
<1>t. \A msg \in msgs : msg.rec.epoch <= e
  BY DEF EpochsWithin
<1>u. ASSUME msgs' \subseteq msgs PROVE Goal
  BY <1>t, <1>u
<1>c. ASSUME NEW n \in Nodes, NEW st, NEW ks \in SUBSET Keys, Change(n, st, ks) PROVE Goal
  <2>1. Within(st, e)
    <3>1. reg'[n] = st
      BY <1>c DEF Change, TypeOK
    <3> QED BY <3>1
  <2> QED BY <1>c, <2>1, ChangeWithin
<1>j. ASSUME NEW n \in Nodes, NEW k \in Keys, NEW attempt, NEW rest \in SUBSET msgs,
             RejectDurable(n, k, attempt, rest)
      PROVE  Goal
  <2> DEFINE st == Put(reg[n], k, Rejected(reg[n].requests[k]))
  <2>1. CASE msgs' = rest
    BY <1>u, <2>1
  <2>2. CASE reg' = [reg EXCEPT ![n] = st] /\ msgs' = rest \cup Upserts(n, k, st)
    <3>1. reg'[n] = st
      BY <2>2 DEF TypeOK
    <3>2. Within(st, e)
      BY <3>1
    <3> SUFFICES ASSUME NEW msg \in Upserts(n, k, st) PROVE msg.rec.epoch <= e
      BY <1>t, <2>2
    <3>3. msg.rec = st.requests[k] /\ msg \in msgs'
      BY <2>2 DEF Upserts, Message
    <3>4. msg.rec \in Record
      BY <3>3 DEF TypeOK, Messages
    <3> HIDE DEF st
    <3> QED BY <3>2, <3>3, <3>4, RecordIsHeld DEF Within, Held
  <2> QED BY <1>j, <2>1, <2>2, RejectChanges
<1> HIDE DEF Goal
<1> SUFFICES Goal
  BY DEF Goal
<1>1. ASSUME NEW n \in Nodes, Submit(n) PROVE Goal
  BY <1>1, <1>u DEF Submit
<1>2. ASSUME NEW n \in Nodes, Recover(n) PROVE Goal
  BY <1>2, <1>u DEF Recover
<1>3. ASSUME NEW n \in Nodes, MintAttempt(n) PROVE Goal
  BY <1>3, <1>u DEF MintAttempt
<1>4. ASSUME NEW n \in Nodes, Refuse(n) PROVE Goal
  BY <1>4, <1>u DEF Refuse
<1>5. ASSUME NEW n \in Nodes, Finalize(n) PROVE Goal
  <2>1. call[n].rec.epoch <= e
    BY <1>5, CallUnderWay DEF Finalize, CallsOK, EpochsWithin
  <2> QED BY <1>5, <1>t, <2>1 DEF Finalize, Message, Goal
<1>6. ASSUME NEW n \in Nodes, PrepareTimeout(n) PROVE Goal
  BY <1>6, <1>u DEF PrepareTimeout
<1>7. ASSUME NEW n \in Nodes, AckPrepare(n) PROVE Goal
  <2> DEFINE k == call[n].key
  <2>1. {k} \in SUBSET Keys
    BY <1>7, CallUnderWay DEF AckPrepare
  <2> HIDE DEF k
  <2>2. UNCHANGED msgs \/ \E st : Change(n, st, {k})
    BY <1>7 DEF AckPrepare, k
  <2> QED BY <1>c, <1>u, <2>1, <2>2
<1>8. ASSUME NEW n \in Nodes, RejectRequest(n) PROVE Goal
  <2>1. call[n].key \in Keys
    BY <1>8, CallUnderWay DEF RejectRequest
  <2> QED BY <1>8, <1>j, <2>1 DEF RejectRequest
<1>9. ASSUME NEW n \in Nodes, Dispatch(n) PROVE Goal
  <2>1. call[n].rec.epoch <= e
    BY <1>9, CallUnderWay DEF Dispatch, CallsOK, EpochsWithin
  <2> QED BY <1>9, <1>t, <2>1 DEF Dispatch, Message, Goal
<1>10. ASSUME NEW n \in Nodes, Crash(n) PROVE Goal
  BY <1>10, <1>u DEF Crash
<1>11. ASSUME NEW n \in Nodes, NEW m \in Nodes, Connect(n, m) PROVE Goal
  <2>1. \A k \in Keys : \A l \in Nodes : Held(reg[l], k) => reg[l].requests[k].epoch <= e
    BY DEF EpochsWithin, Within
  <2> QED BY <1>11, <1>t, <2>1 DEF Connect, Snapshot, Message, Goal
<1>12. ASSUME NEW n \in Nodes, NEW m \in Nodes, LoseSession(n, m) PROVE Goal
  BY <1>12, <1>u DEF LoseSession
<1>13. ASSUME NEW n \in Nodes, NEW m \in Nodes, MarkOwnerLoss(n, m) PROVE Goal
  <2>1. \E st : \E ks \in SUBSET Keys : Change(n, st, ks)
    BY <1>13 DEF MarkOwnerLoss, LossPass
  <2> QED BY <1>13, <1>c, <2>1
<1>14. ASSUME NEW n \in Nodes, NEW m \in Nodes, DegradeReplica(n, m) PROVE Goal
  <2>1. \E st : \E ks \in SUBSET Keys : Change(n, st, ks)
    BY <1>14 DEF DegradeReplica, LossPass
  <2> QED BY <1>14, <1>c, <2>1
<1>15. ASSUME NEW n \in Nodes, NEW m \in Nodes, DegradeHealth(n, m) PROVE Goal
  <2>1. \E st : \E ks \in SUBSET Keys : Change(n, st, ks)
    BY <1>15 DEF DegradeHealth, LossPass
  <2> QED BY <1>15, <1>c, <2>1
<1>16. ASSUME NEW n \in Nodes, NEW m \in Nodes, CheckPromotion(n, m) PROVE Goal
  BY <1>16, <1>u DEF CheckPromotion
<1>17. ASSUME NEW n \in Nodes, NEW m \in Nodes, Promote(n, m) PROVE Goal
  <2>1. UNCHANGED msgs \/ \E st : \E ks \in SUBSET Keys : Change(n, st, ks)
    BY <1>17 DEF Promote
  <2> QED BY <1>17, <1>c, <1>u, <2>1
<1>18. ASSUME NEW n \in Nodes, NEW m \in Nodes, Resume(n, m) PROVE Goal
  BY <1>18, <1>u DEF Resume
<1>19. ASSUME NEW t \in tasks, Complete(t) PROVE Goal
  <2>1. t.node \in Nodes /\ {t.key} \in SUBSET Keys
    BY DEF TypeOK
  <2>2. UNCHANGED msgs \/ \E st : Change(t.node, st, {t.key})
    BY <1>19 DEF Complete
  <2> QED BY <1>c, <1>u, <2>1, <2>2
<1>20. ASSUME NEW msg \in msgs, ReceiveUpsert(msg) PROVE Goal
  BY <1>20, <1>u DEF ReceiveUpsert
<1>21. ASSUME NEW msg \in msgs, ReceivePrepare(msg) PROVE Goal
  <2> DEFINE st == Mirrored(reg[msg.to], msg.key, msg.rec)
  <2>1. ASSUME NEW new \in msgs', new \notin msgs, new.rec # msg.rec PROVE new.rec.epoch <= e
    <3>1. /\ CanMirror(reg[msg.to], msg.key, msg.rec) /\ new \in Upserts(msg.to, msg.key, st)
      BY <1>21, <2>1 DEF ReceivePrepare, Message
    <3>2. new.rec = st.requests[msg.key]
      BY <3>1 DEF Upserts, Message
    <3>3. reg' = [reg EXCEPT ![msg.to] = st]
      BY <1>21, <3>1 DEF ReceivePrepare
    <3>4. msg.to \in Nodes /\ msg.key \in Keys
      BY DEF TypeOK, Messages
    <3>5. reg'[msg.to] = st
      BY <3>3, <3>4 DEF TypeOK
    <3>6. new.rec \in Record
      BY DEF TypeOK, Messages
    <3> HIDE DEF st
    <3> QED BY <3>2, <3>4, <3>5, <3>6, RecordIsHeld DEF Within, Held
  <2> QED BY <1>t, <2>1 DEF Goal
<1>22. ASSUME NEW msg \in msgs, ReceiveAnswer(msg) PROVE Goal
  BY <1>22, <1>u DEF ReceiveAnswer
<1>23. ASSUME NEW msg \in msgs, ReceiveSpawn(msg) PROVE Goal
  <2>1. msg.rec.epoch <= e
    BY <1>t
  <2> QED BY <1>23, <1>t, <2>1 DEF ReceiveSpawn, Message, Goal
<1>25. ASSUME NEW msg \in msgs, ReceiveFailure(msg) PROVE Goal
  <2>1. msg.to \in Nodes /\ msg.key \in Keys
    BY DEF TypeOK, Messages
  <2> QED BY <1>25, <1>j, <2>1 DEF ReceiveFailure
<1>24. CASE UNCHANGED vars
  BY <1>24, <1>u DEF vars
<1> QED BY <1>1, <1>2, <1>3, <1>4, <1>5, <1>6, <1>7, <1>8, <1>9, <1>10, <1>11, <1>12, <1>13,
           <1>14, <1>15, <1>16, <1>17, <1>18, <1>19, <1>20, <1>21, <1>22, <1>23, <1>24, <1>25
        DEF Next, CallNext, PeerNext, Deliver

LEMMA CallsWithin ==
  ASSUME TypeOK, CallsOK, [Next]_vars, NEW e \in Nat, EpochsWithin(e)
  PROVE  \A n \in Nodes : call'[n] # Idle =>
            call'[n].req.epoch <= e /\ (call'[n].rec \in Record => call'[n].rec.epoch <= e)
<1> DEFINE OK(c) == c # Idle => c.req.epoch <= e /\ (c.rec \in Record => c.rec.epoch <= e)
           Goal == \A n \in Nodes : OK(call'[n])
<1>t. \A n \in Nodes : OK(call[n])
  BY DEF EpochsWithin
<1>u. ASSUME UNCHANGED call PROVE Goal
  BY <1>t, <1>u
<1>i. OK(Idle)
  OBVIOUS
<1>a. ASSUME NEW n \in Nodes, NEW k, NEW h, NEW required PROVE OK(Prepared(n, k, h, required))
  <2>1. reg[n].epoch <= e
    BY DEF EpochsWithin, Within
  <2> QED BY <2>1, RecordIsHeld DEF Prepared
<1>g. ASSUME NEW n \in Nodes, call[n].at # "idle", NEW at, Goto(n, at) PROVE Goal
  <2>1. call[n] \in Call /\ call[n] # Idle
    BY <1>g, CallUnderWay
  <2>2. PICK c : c = [call[n] EXCEPT !.at = at]
    OBVIOUS
  <2>3. c.req = call[n].req /\ c.rec = call[n].rec
    BY <2>1, <2>2 DEF Call
  <2>4. OK(c)
    BY <1>t, <2>1, <2>3
  <2>5. call' = [call EXCEPT ![n] = c]
    BY <1>g, <2>2 DEF Goto
  <2> HIDE DEF OK
  <2> QED BY <1>t, <2>4, <2>5 DEF TypeOK
<1> HIDE DEF OK
<1>s. ASSUME NEW n \in Nodes, NEW c, OK(c), call' = [call EXCEPT ![n] = c] PROVE Goal
  BY <1>s, <1>t DEF TypeOK
<1> HIDE DEF Goal
<1> SUFFICES Goal
  BY DEF Goal, OK
<1>1. ASSUME NEW n \in Nodes, Submit(n) PROVE Goal
  BY <1>1, <1>s, <1>a DEF Submit
<1>2. ASSUME NEW n \in Nodes, Recover(n) PROVE Goal
  BY <1>2, <1>s, <1>a DEF Recover
<1>3. ASSUME NEW n \in Nodes, MintAttempt(n) PROVE Goal
  <2>1. call[n] \in Call /\ call[n] # Idle /\ call[n].req \in Request /\ call[n].req.epoch <= e
    BY <1>3, CallUnderWay DEF MintAttempt, EpochsWithin
  <2>2. PICK r : r = Submitted(call[n].req, reg[n].token)
    OBVIOUS
  <2>3. PICK c : c = [call[n] EXCEPT !.at = "finalize", !.rec = r]
    OBVIOUS
  <2>4. c.req = call[n].req /\ c.rec = r /\ r.epoch = call[n].req.epoch
    BY <2>1, <2>2, <2>3 DEF Call, Submitted
  <2>5. OK(c)
    BY <2>1, <2>4 DEF OK
  <2>6. call' = [call EXCEPT ![n] = c]
    BY <1>3, <2>2, <2>3 DEF MintAttempt
  <2> QED BY <1>3, <1>s, <2>5, <2>6
<1>4. ASSUME NEW n \in Nodes, Refuse(n) PROVE Goal
  BY <1>4, <1>s, <1>i DEF Refuse, Return
<1>5. ASSUME NEW n \in Nodes, Finalize(n) PROVE Goal
  BY <1>5, <1>g DEF Finalize
<1>6. ASSUME NEW n \in Nodes, PrepareTimeout(n) PROVE Goal
  BY <1>6, <1>g DEF PrepareTimeout
<1>7. ASSUME NEW n \in Nodes, AckPrepare(n) PROVE Goal
  <2> DEFINE k == call[n].key
             r == reg[n].requests[k]
  <2>1. call[n] \in Call /\ call[n] # Idle /\ k \in Keys /\ call[n].req.epoch <= e
    BY <1>7, CallUnderWay DEF AckPrepare, EpochsWithin
  <2>2. CASE Return(n)
    BY <1>7, <1>s, <1>i, <2>2 DEF Return
  <2>3. CASE ~Return(n)
    <3>1. /\ r # NoRecord
          /\ call' = [call EXCEPT ![n] = IF r.phase = "rejected" THEN Idle
                        ELSE [call[n] EXCEPT !.at = "dispatch", !.rec = Acknowledged(r)]]
      BY <1>7, <2>3 DEF AckPrepare
    <3>2. r \in Record /\ r.epoch <= e
      BY <2>1, <3>1 DEF TypeOK, Registry, EpochsWithin, Within, Held
    <3>3. PICK a : a = Acknowledged(r)
      OBVIOUS
    <3>4. a.epoch <= e
      BY <1>7, <3>2, <3>3, TransitionType
    <3>5. PICK c : c = IF r.phase = "rejected" THEN Idle
                       ELSE [call[n] EXCEPT !.at = "dispatch", !.rec = a]
      OBVIOUS
    <3>6. c = Idle \/ (c.req = call[n].req /\ c.rec = a)
      BY <2>1, <3>5 DEF Call
    <3>7. OK(c)
      BY <2>1, <3>4, <3>6 DEF OK
    <3> QED BY <1>7, <1>s, <3>1, <3>3, <3>5, <3>7
  <2> QED BY <2>2, <2>3
<1>8. ASSUME NEW n \in Nodes, RejectRequest(n) PROVE Goal
  BY <1>8, <1>s, <1>i DEF RejectRequest, Return
<1>9. ASSUME NEW n \in Nodes, Dispatch(n) PROVE Goal
  BY <1>9, <1>g, <1>s, <1>i DEF Dispatch, Return
<1>10. ASSUME NEW n \in Nodes, Crash(n) PROVE Goal
  BY <1>10, <1>s, <1>i DEF Crash
<1>11. ASSUME NEW n \in Nodes, NEW m \in Nodes, Connect(n, m) PROVE Goal
  BY <1>11, <1>u DEF Connect
<1>12. ASSUME NEW n \in Nodes, NEW m \in Nodes, LoseSession(n, m) PROVE Goal
  BY <1>12, <1>u DEF LoseSession
<1>13. ASSUME NEW n \in Nodes, NEW m \in Nodes, MarkOwnerLoss(n, m) PROVE Goal
  BY <1>13, <1>u DEF MarkOwnerLoss, LossPass
<1>14. ASSUME NEW n \in Nodes, NEW m \in Nodes, DegradeReplica(n, m) PROVE Goal
  BY <1>14, <1>u DEF DegradeReplica, LossPass
<1>15. ASSUME NEW n \in Nodes, NEW m \in Nodes, DegradeHealth(n, m) PROVE Goal
  BY <1>15, <1>u DEF DegradeHealth, LossPass
<1>16. ASSUME NEW n \in Nodes, NEW m \in Nodes, CheckPromotion(n, m) PROVE Goal
  BY <1>16, <1>u DEF CheckPromotion
<1>17. ASSUME NEW n \in Nodes, NEW m \in Nodes, Promote(n, m) PROVE Goal
  BY <1>17, <1>u DEF Promote
<1>18. ASSUME NEW n \in Nodes, NEW m \in Nodes, Resume(n, m) PROVE Goal
  BY <1>18, <1>u DEF Resume
<1>19. ASSUME NEW t \in tasks, Complete(t) PROVE Goal
  BY <1>19, <1>u DEF Complete
<1>20. ASSUME NEW msg \in msgs, ReceiveUpsert(msg) PROVE Goal
  BY <1>20, <1>u DEF ReceiveUpsert
<1>21. ASSUME NEW msg \in msgs, ReceivePrepare(msg) PROVE Goal
  BY <1>21, <1>u DEF ReceivePrepare
<1>22. ASSUME NEW msg \in msgs, ReceiveAnswer(msg) PROVE Goal
  <2>1. msg.to \in Nodes
    BY DEF TypeOK, Messages
  <2> QED BY <1>22, <1>g, <1>u, <2>1 DEF ReceiveAnswer
<1>23. ASSUME NEW msg \in msgs, ReceiveSpawn(msg) PROVE Goal
  BY <1>23, <1>u DEF ReceiveSpawn
<1>25. ASSUME NEW msg \in msgs, ReceiveFailure(msg) PROVE Goal
  BY <1>25, <1>u DEF ReceiveFailure
<1>24. CASE UNCHANGED vars
  BY <1>24, <1>u DEF vars
<1> QED BY <1>1, <1>2, <1>3, <1>4, <1>5, <1>6, <1>7, <1>8, <1>9, <1>10, <1>11, <1>12, <1>13,
           <1>14, <1>15, <1>16, <1>17, <1>18, <1>19, <1>20, <1>21, <1>22, <1>23, <1>24, <1>25
        DEF Next, CallNext, PeerNext, Deliver

LEMMA EpochStep ==
  ASSUME TypeOK, CallsOK, [Next]_vars, NEW e \in Nat, EpochsWithin(e),
         \A n \in Nodes : reg'[n].epoch <= e
  PROVE  EpochsWithin(e)'
<1>1. \A n \in Nodes : Within(reg'[n], e)
  BY RegistryWithin
<1>2. TypeOK'
  BY TypeStep
<1>3. \A msg \in msgs' : msg.rec.epoch <= e
  BY <1>1, <1>2, MessagesWithin
<1>4. \A n \in Nodes : call'[n] # Idle =>
         call'[n].req.epoch <= e /\ (call'[n].rec \in Record => call'[n].rec.epoch <= e)
  BY CallsWithin
<1> QED BY <1>1, <1>3, <1>4 DEF EpochsWithin, Within, Held

\* Of two nodes, n leads m: m follows it in its epoch, or is the primary it took
\* the lead from and has not heard of it.
Leads(n, m) ==
    /\ reg[n].role = "primary"
    /\ \/ reg[m].role = "standby" /\ reg[m].epoch = reg[n].epoch
       \/ reg[m].role = "primary" /\ reg[m].epoch + 1 = reg[n].epoch

\* One node leads, and nothing is of a later epoch than its own.
OneLeads == \E n, m \in Nodes : n # m /\ Leads(n, m) /\ EpochsWithin(reg[n].epoch)

LEMMA LeadStep ==
  ASSUME NEW a \in Nodes, NEW b \in Nodes, Nodes = {a, b}, MaxCrashes = 0,
         TypeOK, CallsOK, [Next]_vars, OneLeads
  PROVE  OneLeads'
<1>1. PICK n \in Nodes, m \in Nodes : n # m /\ Leads(n, m) /\ EpochsWithin(reg[n].epoch)
  BY DEF OneLeads
<1>2. Nodes = {n, m}
  BY <1>1
<1>3. OneChanges
  <2>1. \A l \in Nodes : ~Crash(l)
    BY DEF Crash, TypeOK
  <2> QED BY <2>1, RegistryStep
<1>4. PICK e \in Nat, d \in Nat : /\ e = reg[n].epoch /\ d = reg[m].epoch
                             /\ \A msg \in msgs : msg.rec.epoch <= e
  BY <1>1 DEF TypeOK, Registry, EpochsWithin
<1>5. \/ UNCHANGED reg
      \/ reg'[m] = reg[m] /\ Moves(reg[n], reg'[n])
      \/ reg'[n] = reg[n] /\ Moves(reg[m], reg'[m])
  BY <1>1, <1>2, <1>3 DEF OneChanges, TypeOK
<1>6. reg'[n].epoch \in Nat /\ reg'[m].epoch \in Nat
  BY <1>1, TypeStep DEF TypeOK, Registry
<1>7. CASE Leads(n, m)' /\ reg'[n].epoch = e
  <2>1. \A l \in Nodes : reg'[l].epoch <= e
    BY <1>2, <1>6, <1>7 DEF Leads
  <2>2. EpochsWithin(e)'
    BY <1>1, <1>4, <2>1, EpochStep
  <2>3. EpochsWithin(reg[n].epoch)'
    BY <1>7, <2>2 DEF EpochsWithin, Within, Held
  <2> QED BY <1>1, <1>7, <2>3 DEF OneLeads
<1>8. CASE Leads(m, n)' /\ reg'[m].epoch = e + 1
  <2>1. PICK f \in Nat : f = e + 1
    BY <1>4
  <2>2. \A l \in Nodes : reg'[l].epoch <= f
    BY <1>2, <1>4, <1>6, <1>8, <2>1 DEF Leads
  <2>3. EpochsWithin(f)
    BY <1>1, <1>4, <2>1, EpochsLater
  <2>4. EpochsWithin(f)'
    BY <2>2, <2>3, EpochStep
  <2>5. EpochsWithin(reg[m].epoch)'
    BY <1>8, <2>1, <2>4 DEF EpochsWithin, Within, Held
  <2> QED BY <1>1, <1>8, <2>5 DEF OneLeads
<1>9. \/ Leads(n, m)' /\ reg'[n].epoch = e
      \/ Leads(m, n)' /\ reg'[m].epoch = e + 1
  <2>1. CASE UNCHANGED reg
    BY <1>1, <1>4, <2>1 DEF Leads
  <2>2. CASE reg'[m] = reg[m] /\ Moves(reg[n], reg'[n])
    <3>1. reg'[n].role = "primary" /\ reg'[n].epoch = e
      BY <1>1, <1>4, <1>6, <2>2 DEF Moves, Leads
    <3> QED BY <1>1, <1>4, <2>2, <3>1 DEF Leads
  <2>3. CASE reg'[n] = reg[n] /\ Moves(reg[m], reg'[m])
    <3>1. CASE reg[m].role = "standby" /\ d = e
      BY <1>1, <1>4, <1>6, <2>3, <3>1 DEF Moves, Leads
    <3>2. CASE reg[m].role = "primary" /\ d + 1 = e
      BY <1>1, <1>4, <1>6, <2>3, <3>2 DEF Moves, Leads
    <3> QED BY <1>1, <1>4, <3>1, <3>2 DEF Leads
  <2> QED BY <1>5, <2>1, <2>2, <2>3
<1> QED BY <1>7, <1>8, <1>9

-----------------------------------------------------------------------------
(* The theorems.                                                           *)

LEMMA InitOK == Init => TypeOK /\ CallsOK /\ ValidRecords /\ TokenAhead
<1> SUFFICES ASSUME Init PROVE TypeOK /\ CallsOK /\ ValidRecords /\ TokenAhead
  OBVIOUS
<1>1. \A n \in Nodes : Fresh(n) \in Registry
  BY DEF Fresh, Registry, Roles
<1>2. TypeOK
  BY <1>1 DEF Init, TypeOK
<1>3. CallsOK
  BY DEF Init, CallsOK
<1>4. \A n \in Nodes, k \in Keys : ~Held(reg[n], k)
  BY DEF Init, Fresh, Held
<1> QED BY <1>2, <1>3, <1>4 DEF ValidRecords, TokenAhead

\* Every variable has its type; no node has a session with itself, and a call
\* past the minting of its attempt carries a record.
THEOREM TypeCorrect == Spec => [](TypeOK /\ CallsOK)
<1>1. Init => TypeOK /\ CallsOK
  BY InitOK
<1>2. (TypeOK /\ CallsOK) /\ [Next]_vars => (TypeOK /\ CallsOK)'
  BY TypeStep
<1> QED BY <1>1, <1>2, PTL DEF Spec

\* continuity.rs: every record a registry holds is one validate_record accepts,
\* and the attempt of every record is behind the next token, so that no attempt
\* a node mints is one it has stored: for any number of nodes, crashes and
\* promotions.
THEOREM RecordsSound == Spec => []RecordsAreSound
<1> DEFINE Inv == TypeOK /\ CallsOK /\ ValidRecords /\ TokenAhead
<1>1. Init => Inv
  BY InitOK
<1>2. Inv /\ [Next]_vars => Inv'
  BY TypeStep, SoundStep
<1>3. Inv => RecordsAreSound
  BY DEF RecordsAreSound
<1> QED BY <1>1, <1>2, <1>3, PTL DEF Spec

\* promote_authority and observe_remote_authority: unless the node restarts, its
\* epoch never goes back, and its role changes only with the epoch.
THEOREM AuthorityAdvances == Spec => [][AuthorityOnlyAdvances]_vars
<1>1. TypeOK /\ CallsOK /\ [Next]_vars => [AuthorityOnlyAdvances]_vars
  BY AuthorityStep
<1> QED BY <1>1, TypeCorrect, PTL DEF Spec

\* With a primary and a standby, neither of which restarts, one of the two is
\* always primary, and they never both are in one epoch, however often the
\* session breaks and the standby takes over.
THEOREM OnePrimary ==
  ASSUME NEW a \in Nodes, NEW b \in Nodes, a # b, Nodes = {a, b}, Primaries = {a}, MaxCrashes = 0
  PROVE  Spec => [](OnePrimaryPerEpoch /\ \E n \in Nodes : reg[n].role = "primary")
<1> DEFINE Inv == TypeOK /\ CallsOK /\ OneLeads
<1>1. Init => Inv
  <2> SUFFICES ASSUME Init PROVE OneLeads
    BY InitOK
  <2>1. reg = [n \in Nodes |-> Fresh(n)] /\ msgs = {} /\ \A n \in Nodes : call[n] = Idle
    BY DEF Init
  <2>2. Leads(a, b) /\ reg[a].epoch = 0
    BY <2>1 DEF Leads, Fresh
  <2>3. EpochsWithin(0)
    BY <2>1 DEF EpochsWithin, Within, Fresh, Held
  <2> QED BY <2>2, <2>3 DEF OneLeads
<1>2. Inv /\ [Next]_vars => Inv'
  BY TypeStep, LeadStep
<1>3. Inv => OnePrimaryPerEpoch /\ \E n \in Nodes : reg[n].role = "primary"
  <2> SUFFICES ASSUME Inv PROVE OnePrimaryPerEpoch /\ \E n \in Nodes : reg[n].role = "primary"
    OBVIOUS
  <2>1. PICK n \in Nodes, m \in Nodes : n # m /\ Leads(n, m)
    BY DEF OneLeads
  <2>2. Nodes = {n, m}
    BY <2>1
  <2>3. reg[n].epoch \in Nat /\ reg[m].epoch \in Nat
    BY DEF TypeOK, Registry
  <2>4. ~(reg[n].role = "primary" /\ reg[m].role = "primary" /\ reg[n].epoch = reg[m].epoch)
    BY <2>1, <2>3 DEF Leads
  <2> QED BY <2>1, <2>2, <2>4 DEF OnePrimaryPerEpoch, Leads
<1> QED BY <1>1, <1>2, <1>3, PTL DEF Spec

-----------------------------------------------------------------------------
(* One request of a clustered route: its record takes few forms, a node    *)
(* moves up among them only, and what a node holds the other one holds or  *)
(* is about to be sent.                                                    *)

\* The replica of the record, if any, and whether it has acknowledged it.
Replicas == [node : (Ends \ {owner}) \cup {NoNode}, acked : BOOLEAN]

\* The record of the request in phase f, with replica p.
Outcome(p, f) ==
    [hash |-> Payload, attempt |-> 0, phase |-> f, owner |-> owner, replica |-> p.node,
     status |-> IF f = "rejected" THEN "rejected" ELSE IF p.node = NoNode THEN "unassigned"
                ELSE IF p.acked THEN "mirrored" ELSE "preparing",
     role |-> "primary", epoch |-> 0,
     health |-> IF f = "rejected" THEN "unavailable" ELSE IF p.node # NoNode /\ p.acked THEN "healthy"
                ELSE "local_only",
     exec |-> IF f = "completed" THEN owner ELSE NoNode]
Outcomes(p) == {Outcome(p, f) : f \in Phases}

\* In the order of preferred_record: a rejection stands over a completion.
Level(r) == CASE r.phase = "none" -> 0 [] r.phase = "submitted" -> 1
              [] r.phase = "completed" -> 2 [] r.phase = "rejected" -> 3

RouteRegistry == [role : {"primary"}, epoch : {0}, token : 0..1, requests : [Keys -> Record \cup {NoRecord}]]
Upsert(p) == [token : 0..1, rec : Outcomes(p)]
OnTheWay(n) == {upserts[n][i] : i \in 1..Len(upserts[n])}

\* What node n holds is at the other one, or on its way there, and nothing
\* is on its way that n does not hold or has gone past.
Spreads(n) ==
    /\ \A u \in OnTheWay(Other(n)) : Level(u.rec) <= Level(Work(n))
    /\ \/ Level(Work(n)) <= Level(Work(Other(n)))
       \/ \E u \in OnTheWay(Other(n)) : Level(Work(n)) <= Level(u.rec)

UnderWay(p) ==
    /\ \A n \in Ends : /\ Work(n) \in Outcomes(p) \cup {NoRecord}
                       /\ upserts[n] \in Seq(Upsert(p))
                       /\ Spreads(n)
    /\ Work(Gateway) # NoRecord

NotYet ==
    /\ registry = [n \in Ends |-> EmptyRegistry] /\ upserts = [n \in Ends |-> <<>>]
    /\ query = "none" /\ handler = "none" /\ reply = "none"

\* How far the parties are.
PartiesFit ==
    /\ owner = Gateway => query = "none" /\ reply = "none"
    /\ owner = Gateway /\ client # "new" => (client = "waiting" <=> handler = "running")
    /\ query = "sent" => handler = "none"
    /\ reply # "none" \/ client = "ok" => handler = "ran"

\* What the parties know of the records.
Succeeded == client = "ok" \/ (reply = "ok" /\ client # "err")
AnswersFit ==
    /\ client = "waiting" /\ handler # "ran" => \A n \in Ends : Level(Work(n)) <= 1
    /\ Succeeded => Level(Work(owner)) = 2 /\ \A n \in Ends : Level(Work(n)) <= 2
    /\ client = "err" => \E n \in Ends : Level(Work(n)) >= 2

Stored ==
    /\ owner \in Ends
    /\ DOMAIN registry = Ends /\ DOMAIN upserts = Ends
    /\ \A n \in Ends : registry[n] \in RouteRegistry

RouteInv ==
    /\ RouteTypeOK /\ Stored /\ PartiesFit
    /\ client = "new" => NotYet
    /\ client # "new" => AnswersFit /\ \E p \in Replicas : UnderWay(p)

LEMMA TwoEnds ==
  /\ Gateway # Backend /\ Gateway \in Ends /\ Backend \in Ends /\ Ends \subseteq Nodes
  /\ \A n \in Ends : Other(n) \in Ends /\ Other(n) # n /\ Other(Other(n)) = n
  /\ \A n, m \in Ends : n # m => m = Other(n)
  /\ NoNode \notin Ends
BY RouteAssumption, NodesAssumption DEF Ends, Other

LEMMA OutcomeType ==
  ASSUME owner \in Ends, NEW p \in Replicas, NEW f \in Phases
  PROVE  /\ Outcome(p, f) \in Record /\ Valid(Outcome(p, f)) /\ Outcome(p, f) # NoRecord
         /\ Outcome(p, f).phase = f
         /\ Level(Outcome(p, f)) = IF f = "submitted" THEN 1 ELSE IF f = "completed" THEN 2 ELSE 3
<1>1. owner \in Nodes /\ p.node \in Nodes \cup {NoNode} /\ p.node # owner /\ Payload \in Hashes
  BY TwoEnds, RouteAssumption DEF Replicas
<1>2. Outcome(p, f) \in Record /\ Valid(Outcome(p, f))
  BY <1>1 DEF Outcome, Record, Valid, Phases, Statuses, Roles, Healths
<1>3. Outcome(p, f).phase = f /\ NoRecord.phase = "none"
  BY DEF Outcome, NoRecord
<1>4. Outcome(p, f) # NoRecord
  BY <1>3 DEF Phases
<1>5. Level(Outcome(p, f)) = IF f = "submitted" THEN 1 ELSE IF f = "completed" THEN 2 ELSE 3
  BY <1>3 DEF Level, Phases
<1> QED BY <1>2, <1>3, <1>4, <1>5

LEMMA Transitions ==
  ASSUME owner \in Ends, NEW p \in Replicas
  PROVE  /\ LET s == Submitted([hash |-> Payload, owner |-> owner, replica |-> p.node,
                                role |-> "primary", epoch |-> 0], 0)
            IN  /\ Outcome(p, "submitted") = IF p.acked THEN Acknowledged(s) ELSE s
                /\ Rejected(s) = Outcome(p, "rejected")
         /\ \A f \in {"submitted", "rejected"} : Rejected(Outcome(p, f)) = Outcome(p, "rejected")
         /\ \A f \in {"submitted", "completed"} : Completed(Outcome(p, f), owner) = Outcome(p, "completed")
         /\ \A f \in Phases : /\ CanReject(Outcome(p, f), 0) <=> f # "completed"
                              /\ CanComplete(Outcome(p, f), 0, owner) <=> f # "rejected"
<1> DEFINE s == Submitted([hash |-> Payload, owner |-> owner, replica |-> p.node, role |-> "primary", epoch |-> 0], 0)
<1>1. Outcome(p, "submitted") = (IF p.acked THEN Acknowledged(s) ELSE s) /\ Rejected(s) = Outcome(p, "rejected")
  <2>1. p.acked \in BOOLEAN
    BY DEF Replicas
  <2> QED BY <2>1 DEF Acknowledged, Rejected, Submitted, Outcome
<1>2. \A f \in {"submitted", "rejected"} : Rejected(Outcome(p, f)) = Outcome(p, "rejected")
  BY DEF Rejected, Outcome
<1>3. \A f \in {"submitted", "completed"} : Completed(Outcome(p, f), owner) = Outcome(p, "completed")
  <2> SUFFICES ASSUME NEW f \in {"submitted", "completed"}
               PROVE  Completed(Outcome(p, f), owner) = Outcome(p, "completed")
    OBVIOUS
  <2> DEFINE o == Outcome(p, f)
             c == Completed(o, owner)
             d == Outcome(p, "completed")
  <2>1. o \in Record /\ d \in Record
    BY OutcomeType DEF Phases
  <2>2. /\ d.phase = "completed" /\ d.exec = owner
        /\ o.hash = d.hash /\ o.attempt = d.attempt /\ o.owner = d.owner /\ o.replica = d.replica
        /\ o.status = d.status /\ o.role = d.role /\ o.epoch = d.epoch /\ o.health = d.health
    BY DEF Outcome
  <2>3. owner \in Nodes
    BY TwoEnds
  <2> HIDE DEF o, d
  <2>4. c \in Record /\ c.phase = d.phase /\ c.exec = d.exec
        /\ c.hash = d.hash /\ c.attempt = d.attempt /\ c.owner = d.owner /\ c.replica = d.replica
        /\ c.status = d.status /\ c.role = d.role /\ c.epoch = d.epoch /\ c.health = d.health
    BY <2>1, <2>2, <2>3 DEF Completed, Record, Phases
  <2> HIDE DEF c
  <2>5. c = d
    BY <2>1, <2>4 DEF Record
  <2> QED BY <2>5 DEF c, d, o
<1>4. \A f \in Phases : /\ CanReject(Outcome(p, f), 0) <=> f # "completed"
                        /\ CanComplete(Outcome(p, f), 0, owner) <=> f # "rejected"
  BY OutcomeType DEF CanReject, CanComplete, Pending, Outcome, Phases
<1> QED BY <1>1, <1>2, <1>3, <1>4

\* Of two outcomes the one of the higher level is kept.
LEMMA OutcomePreferred ==
  ASSUME owner \in Ends, NEW p \in Replicas, NEW f \in Phases, NEW g \in Phases
  PROVE  Preferred(Outcome(p, f), Outcome(p, g)) =
            IF Level(Outcome(p, f)) > Level(Outcome(p, g)) THEN Outcome(p, f) ELSE Outcome(p, g)
<1> DEFINE a == Precedence(Outcome(p, f))
           b == Precedence(Outcome(p, g))
           sr(x) == IF x = "rejected" THEN 5 ELSE IF p.node = NoNode THEN 0 ELSE IF p.acked THEN 2 ELSE 1
           hr(x) == IF x = "rejected" THEN 1 ELSE IF p.node # NoNode /\ p.acked THEN 3 ELSE 0
           pr(x) == IF x = "submitted" THEN 0 ELSE 1
<1>1. /\ StatusRank["unassigned"] = 0 /\ StatusRank["preparing"] = 1 /\ StatusRank["mirrored"] = 2 /\ StatusRank["rejected"] = 5
      /\ HealthRank["local_only"] = 0 /\ HealthRank["unavailable"] = 1 /\ HealthRank["healthy"] = 3
  BY DEF StatusRank, HealthRank, Statuses, Healths
<1>2. \A x \in Phases : Precedence(Outcome(p, x)) = <<0, 0, pr(x), sr(x), hr(x)>>
  BY <1>1 DEF Precedence, Outcome, Pending, Phases
<1>3. Precedes(b, a) <=> \/ pr(g) < pr(f)
                         \/ pr(g) = pr(f) /\ sr(g) < sr(f)
                         \/ pr(g) = pr(f) /\ sr(g) = sr(f) /\ hr(g) < hr(f)
  <2>1. a = <<0, 0, pr(f), sr(f), hr(f)>> /\ b = <<0, 0, pr(g), sr(g), hr(g)>>
    BY <1>2
  <2> HIDE DEF a, b, pr, sr, hr
  <2>2. \A i \in 1..5 : i = 1 \/ i = 2 \/ i = 3 \/ i = 4 \/ i = 5
    OBVIOUS
  <2>3. 1..(1 - 1) = {} /\ 1..(2 - 1) = {1} /\ 1..(3 - 1) = {1, 2} /\ 1..(4 - 1) = {1, 2, 3} /\ 1..(5 - 1) = {1, 2, 3, 4}
    OBVIOUS
  <2>4. /\ a[1] = 0 /\ a[2] = 0 /\ a[3] = pr(f) /\ a[4] = sr(f) /\ a[5] = hr(f)
        /\ b[1] = 0 /\ b[2] = 0 /\ b[3] = pr(g) /\ b[4] = sr(g) /\ b[5] = hr(g)
    BY <2>1
  <2> QED BY <2>2, <2>3, <2>4 DEF Precedes
<1>4. Precedes(b, a) <=> Level(Outcome(p, f)) > Level(Outcome(p, g))
  BY <1>3, OutcomeType DEF Phases
<1> QED BY <1>4 DEF Preferred

\* DIST_CONTINUITY_UPSERT: a registry with a record of the request, or none,
\* keeps the higher of it and the one that arrives.
LEMMA OutcomeMerged ==
  ASSUME owner \in Ends, NEW p \in Replicas, NEW st \in RouteRegistry, NEW u \in Upsert(p),
         st.requests[RouteKey] \in Outcomes(p) \cup {NoRecord}
  PROVE  LET r == st.requests[RouteKey]
             new == Merge(st, u.token, RouteKey, u.rec)
         IN  /\ new \in RouteRegistry
             /\ new.requests[RouteKey] = IF Level(r) > Level(u.rec) THEN r ELSE u.rec
<1> DEFINE r == st.requests[RouteKey]
           t == Larger(st.token, Larger(u.token, u.rec.attempt + 1))
           seen == [st EXCEPT !.token = t]
<1>1. PICK g \in Phases : u.rec = Outcome(p, g)
  BY DEF Upsert, Outcomes
<1>2. u.token \in 0..1 /\ u.rec \in Record /\ u.rec.attempt = 0 /\ u.rec.epoch = 0 /\ u.rec.role = "primary"
      /\ u.rec.hash = Payload /\ Valid(u.rec)
  BY <1>1, OutcomeType DEF Upsert, Outcome
<1>3. RouteKey \in Keys
  BY RouteAssumption
<1>4. t \in 0..1 /\ seen \in RouteRegistry /\ seen.requests = st.requests /\ seen.epoch = 0 /\ seen.role = "primary"
  BY <1>2 DEF Larger, RouteRegistry
<1>5. Observe(RaiseToken(st, Larger(u.token, u.rec.attempt + 1)), u.rec.epoch) = seen
  BY <1>2, <1>4 DEF RouteRegistry, Observe, RaiseToken
<1>6. Projected(u.rec, seen) = u.rec
  BY <1>2, <1>4 DEF Projected, Record
<1>7. Merge(st, u.token, RouteKey, u.rec)
        = IF ~Held(seen, RouteKey) THEN Put(seen, RouteKey, u.rec)
          ELSE IF seen.requests[RouteKey].hash = u.rec.hash
               THEN Put(seen, RouteKey, Preferred(seen.requests[RouteKey], u.rec))
               ELSE seen
  <2> HIDE DEF seen, t
  <2> QED BY <1>2, <1>4, <1>5, <1>6 DEF Merge
<1>8. CASE r = NoRecord
  <2>1. Merge(st, u.token, RouteKey, u.rec) = Put(seen, RouteKey, u.rec)
    BY <1>4, <1>7, <1>8 DEF Held
  <2>2. Level(r) = 0 /\ Level(u.rec) >= 1
    <3>1. r.phase = "none"
      BY <1>8 DEF NoRecord
    <3>2. Level(r) = 0
      BY <3>1 DEF Level
    <3> QED BY <1>1, <3>2, OutcomeType
  <2> HIDE DEF seen, t, r
  <2>3. Put(seen, RouteKey, u.rec) \in RouteRegistry /\ Put(seen, RouteKey, u.rec).requests[RouteKey] = u.rec
    BY <1>2, <1>3, <1>4 DEF Put, RouteRegistry
  <2> QED BY <1>1, <2>1, <2>2, <2>3, OutcomeType DEF r
<1>9. CASE r \in Outcomes(p)
  <2>1. PICK f \in Phases : r = Outcome(p, f)
    BY <1>9 DEF Outcomes
  <2>2. r # NoRecord /\ r \in Record /\ r.hash = Payload
    BY <2>1, OutcomeType DEF Outcome
  <2>3. Merge(st, u.token, RouteKey, u.rec) = Put(seen, RouteKey, Preferred(r, u.rec))
    BY <1>2, <1>4, <1>7, <2>2 DEF Held
  <2>4. Preferred(r, u.rec) = IF Level(r) > Level(u.rec) THEN r ELSE u.rec
    BY <1>1, <2>1, OutcomePreferred
  <2>5. Preferred(r, u.rec) \in Record
    BY <1>2, <2>2 DEF Preferred
  <2> HIDE DEF seen, t, r
  <2>6. \A q \in Record : Put(seen, RouteKey, q) \in RouteRegistry /\ Put(seen, RouteKey, q).requests[RouteKey] = q
    BY <1>3, <1>4 DEF Put, RouteRegistry
  <2> QED BY <2>3, <2>4, <2>5, <2>6 DEF r
<1> QED BY <1>8, <1>9

LEMMA SeqAppended ==
  ASSUME NEW S, NEW s \in Seq(S), NEW e \in S
  PROVE  /\ Append(s, e) \in Seq(S)
         /\ {Append(s, e)[i] : i \in 1..Len(Append(s, e))} = {s[i] : i \in 1..Len(s)} \cup {e}
<1> DEFINE t == Append(s, e)
<1>1. /\ t \in Seq(S) /\ Len(t) = Len(s) + 1 /\ Len(s) \in Nat
      /\ \A i \in 1..Len(s) : t[i] = s[i]
      /\ t[Len(s) + 1] = e
  BY AppendProperties, LenProperties
<1> HIDE DEF t
<1>2. \A i \in 1..Len(t) : t[i] \in {s[j] : j \in 1..Len(s)} \cup {e}
  BY <1>1
<1>3. \A i \in 1..Len(s) : s[i] \in {t[j] : j \in 1..Len(t)}
  BY <1>1
<1>4. e \in {t[j] : j \in 1..Len(t)}
  BY <1>1
<1>5. {t[i] : i \in 1..Len(t)} = {s[i] : i \in 1..Len(s)} \cup {e}
  BY <1>2, <1>3, <1>4
<1> QED BY <1>1, <1>5 DEF t

LEMMA SeqTaken ==
  ASSUME NEW S, NEW s \in Seq(S), s # <<>>
  PROVE  /\ Tail(s) \in Seq(S) /\ s[1] \in S
         /\ {s[i] : i \in 1..Len(s)} = {Tail(s)[i] : i \in 1..Len(Tail(s))} \cup {s[1]}
<1> DEFINE t == Tail(s)
<1>1. /\ t \in Seq(S) /\ Len(t) = Len(s) - 1 /\ Len(s) \in Nat /\ Len(s) >= 1
      /\ \A i \in 1..Len(t) : t[i] = s[i + 1]
      /\ \A i \in 1..Len(s) : s[i] \in S
  BY HeadTailProperties, EmptySeq, LenProperties, ElementOfSeq
<1> HIDE DEF t
<1>2. \A i \in 1..Len(t) : t[i] \in {s[j] : j \in 1..Len(s)}
  BY <1>1
<1>3. \A i \in 1..Len(s) : s[i] \in {t[j] : j \in 1..Len(t)} \cup {s[1]}
  <2> TAKE i \in 1..Len(s)
  <2>1. CASE i = 1
    BY <2>1
  <2>2. CASE i # 1
    <3>1. i - 1 \in 1..Len(t) /\ t[i - 1] = s[i]
      BY <1>1, <2>2
    <3> QED BY <3>1
  <2> QED BY <2>1, <2>2
<1>4. 1 \in 1..Len(s) /\ s[1] \in S
  BY <1>1
<1>5. {s[i] : i \in 1..Len(s)} = {t[i] : i \in 1..Len(t)} \cup {s[1]}
  BY <1>2, <1>3, <1>4
<1> QED BY <1>1, <1>4, <1>5 DEF t

-----------------------------------------------------------------------------
(* What a step does to the records.                                        *)
LEMMA SameOutcomes ==
  ASSUME owner' = owner, NEW p
  PROVE  Outcomes(p)' = Outcomes(p) /\ Upsert(p)' = Upsert(p) /\ Replicas' = Replicas
BY DEF Outcomes, Outcome, Upsert, Replicas

LEMMA LevelType ==
  ASSUME owner \in Ends, NEW p \in Replicas
  PROVE  \A r \in Outcomes(p) \cup {NoRecord} : Level(r) \in 0..3 /\ (Level(r) = 0 <=> r = NoRecord)
<1>1. Level(NoRecord) = 0
  <2>1. NoRecord.phase = "none"
    BY DEF NoRecord
  <2> QED BY <2>1 DEF Level
<1>2. \A f \in Phases : Level(Outcome(p, f)) \in 1..3 /\ Outcome(p, f) # NoRecord
  BY OutcomeType
<1> QED BY <1>1, <1>2 DEF Outcomes

\* A record changes at n, to one that is no lower, and is broadcast.
LEMMA BecomesStep ==
  ASSUME Stored, NEW p \in Replicas, UnderWay(p), owner' = owner,
         NEW n \in Ends, NEW f \in Phases, Level(Work(n)) <= Level(Outcome(p, f)),
         Becomes(n, Put(registry[n], RouteKey, Outcome(p, f)))
  PROVE  /\ Stored' /\ UnderWay(p)'
         /\ Work(n)' = Outcome(p, f) /\ Work(Other(n))' = Work(Other(n))
<1> DEFINE m == Other(n)
           r == Outcome(p, f)
           st == Put(registry[n], RouteKey, r)
           e == [token |-> st.token, rec |-> st.requests[RouteKey]]
<1>1. m \in Ends /\ m # n /\ Other(m) = n /\ \A q \in Ends : q = n \/ q = m
  BY TwoEnds
<1>2. r \in Record /\ r \in Outcomes(p) /\ r # NoRecord
  BY OutcomeType DEF Stored, Outcomes
<1>3. st \in RouteRegistry /\ st.requests[RouteKey] = r /\ st.token \in 0..1
  <2> HIDE DEF r
  <2>1. registry[n] \in RouteRegistry /\ RouteKey \in Keys
    BY RouteAssumption DEF Stored
  <2> QED BY <1>2, <2>1 DEF Put, RouteRegistry
<1>4. e \in Upsert(p) /\ e.rec = r
  <2> HIDE DEF r, st
  <2> QED BY <1>2, <1>3 DEF Upsert
<1>5. /\ registry' = [registry EXCEPT ![n] = st] /\ upserts' = [upserts EXCEPT ![m] = Append(@, e)]
  BY DEF Becomes
<1> HIDE DEF e, st, r
<1>6. /\ DOMAIN registry' = Ends /\ DOMAIN upserts' = Ends
      /\ registry'[n] = st /\ registry'[m] = registry[m]
      /\ upserts'[n] = upserts[n] /\ upserts'[m] = Append(upserts[m], e)
  BY <1>1, <1>5 DEF Stored
<1>7. Work(n)' = r /\ Work(m)' = Work(m)
  BY <1>3, <1>6 DEF Work
<1>8. Stored'
  BY <1>1, <1>3, <1>6 DEF Stored
<1>9. /\ upserts[m] \in Seq(Upsert(p)) /\ upserts[n] \in Seq(Upsert(p))
      /\ Work(n) \in Outcomes(p) \cup {NoRecord} /\ Work(m) \in Outcomes(p) \cup {NoRecord}
      /\ Spreads(n) /\ Spreads(m)
  BY <1>1 DEF UnderWay
<1>10. /\ upserts'[m] \in Seq(Upsert(p)) /\ OnTheWay(m)' = OnTheWay(m) \cup {e} /\ OnTheWay(n)' = OnTheWay(n)
  BY <1>4, <1>6, <1>9, SeqAppended DEF OnTheWay
<1>11. \A u \in OnTheWay(m) \cup OnTheWay(n) : u.rec \in Outcomes(p)
  <2>1. \A u \in Upsert(p) : u.rec \in Outcomes(p)
    BY DEF Upsert
  <2> QED BY <1>9, <2>1, ElementOfSeq DEF OnTheWay
<1>12. /\ Level(r) \in 0..3 /\ Level(Work(n)) \in 0..3 /\ Level(Work(m)) \in 0..3
       /\ \A u \in OnTheWay(m) \cup OnTheWay(n) : Level(u.rec) \in 0..3
  BY <1>2, <1>9, <1>11, LevelType DEF Stored
<1>13. Level(Work(n)) <= Level(r)
  BY DEF r
<1>14. /\ \A u \in OnTheWay(m)' : Level(u.rec) <= Level(r)
       /\ \E u \in OnTheWay(m)' : Level(r) <= Level(u.rec)
  BY <1>1, <1>4, <1>9, <1>10, <1>12, <1>13 DEF Spreads
<1>15. /\ \A u \in OnTheWay(n)' : Level(u.rec) <= Level(Work(m))
       /\ \/ Level(Work(m)) <= Level(r)
          \/ \E u \in OnTheWay(n)' : Level(Work(m)) <= Level(u.rec)
  BY <1>1, <1>9, <1>10, <1>12, <1>13 DEF Spreads
<1>16. Level(Work(n))' = Level(r) /\ Level(Work(m))' = Level(Work(m))
  BY <1>7 DEF Level
<1>17. Spreads(n)' /\ Spreads(m)'
  <2>1. \A u : Level(u.rec)' = Level(u.rec)
    BY DEF Level
  <2> QED BY <1>1, <1>14, <1>15, <1>7, <1>16, <2>1 DEF Spreads
<1>18. Work(Gateway)' # NoRecord
  BY <1>1, <1>2, <1>7, TwoEnds DEF UnderWay
<1>19. UnderWay(p)'
  BY <1>1, <1>2, <1>6, <1>7, <1>9, <1>10, <1>17, <1>18, SameOutcomes DEF UnderWay
<1> QED BY <1>7, <1>8, <1>19 DEF r

\* An upsert arrives at n.
LEMMA MergedStep ==
  ASSUME Stored, NEW p \in Replicas, UnderWay(p), owner' = owner, NEW n \in Ends, Merged(n)
  PROVE  /\ Stored' /\ UnderWay(p)'
         /\ Work(Other(n))' = Work(Other(n))
         /\ Level(Work(n)) <= Level(Work(n)')
         /\ Level(Work(n)') <= Level(Work(n)) \/ Level(Work(n)') <= Level(Work(Other(n)))
<1> DEFINE m == Other(n)
           u == upserts[n][1]
           st == Merge(registry[n], u.token, RouteKey, u.rec)
           r == IF Level(Work(n)) > Level(u.rec) THEN Work(n) ELSE u.rec
<1>1. m \in Ends /\ m # n /\ Other(m) = n /\ \A q \in Ends : q = n \/ q = m
  BY TwoEnds
<1>2. /\ upserts[m] \in Seq(Upsert(p)) /\ upserts[n] \in Seq(Upsert(p))
      /\ Work(n) \in Outcomes(p) \cup {NoRecord} /\ Work(m) \in Outcomes(p) \cup {NoRecord}
      /\ Spreads(n) /\ Spreads(m)
  BY <1>1 DEF UnderWay
<1>3. /\ upserts[n] # <<>> /\ upserts' = [upserts EXCEPT ![n] = Tail(@)]
      /\ registry' = [registry EXCEPT ![n] = st]
  BY DEF Merged
<1>4. /\ Tail(upserts[n]) \in Seq(Upsert(p)) /\ u \in Upsert(p)
      /\ OnTheWay(n) = {Tail(upserts[n])[i] : i \in 1..Len(Tail(upserts[n]))} \cup {u}
  BY <1>2, <1>3, SeqTaken DEF OnTheWay
<1>5. u.rec \in Outcomes(p)
  BY <1>4 DEF Upsert
<1>6. st \in RouteRegistry /\ st.requests[RouteKey] = r
  BY <1>2, <1>4, OutcomeMerged DEF Stored, Work
<1>7. /\ Level(Work(n)) \in 0..3 /\ Level(Work(m)) \in 0..3 /\ Level(u.rec) \in 0..3
      /\ u.rec # NoRecord
  <2>1. \A f \in Phases : Outcome(p, f) # NoRecord
    BY OutcomeType DEF Stored
  <2> QED BY <1>2, <1>5, <2>1, LevelType DEF Stored, Outcomes
<1> HIDE DEF st, u
<1>8. /\ DOMAIN registry' = Ends /\ DOMAIN upserts' = Ends
      /\ registry'[n] = st /\ registry'[m] = registry[m]
      /\ upserts'[n] = Tail(upserts[n]) /\ upserts'[m] = upserts[m]
  BY <1>1, <1>3 DEF Stored
<1>9. Work(n)' = r /\ Work(m)' = Work(m)
  BY <1>6, <1>8 DEF Work
<1>10. Stored'
  BY <1>1, <1>6, <1>8 DEF Stored
<1>11. OnTheWay(n) = OnTheWay(n)' \cup {u} /\ OnTheWay(m)' = OnTheWay(m)
  BY <1>4, <1>8 DEF OnTheWay
<1>12. \A w \in OnTheWay(m) \cup OnTheWay(n) : w.rec \in Outcomes(p)
  <2>1. \A w \in Upsert(p) : w.rec \in Outcomes(p)
    BY DEF Upsert
  <2> QED BY <1>2, <2>1, ElementOfSeq DEF OnTheWay
<1>13. \A w \in OnTheWay(m) \cup OnTheWay(n) : Level(w.rec) \in 0..3
  BY <1>12, LevelType DEF Stored
<1>14. /\ Level(u.rec) <= Level(Work(m))
       /\ Level(r) \in 0..3 /\ Level(Work(n)) <= Level(r) /\ Level(u.rec) <= Level(r)
       /\ (Level(r) <= Level(Work(n)) \/ Level(r) <= Level(Work(m)))
  <2>1. Level(u.rec) <= Level(Work(m))
    BY <1>1, <1>2, <1>11 DEF Spreads
  <2>2. CASE Level(Work(n)) > Level(u.rec)
    <3>1. r = Work(n)
      BY <2>2
    <3> HIDE DEF r, m
    <3> QED BY <1>7, <2>1, <2>2, <3>1
  <2>3. CASE ~(Level(Work(n)) > Level(u.rec))
    <3>1. r = u.rec
      BY <2>3
    <3> HIDE DEF r, m
    <3> QED BY <1>7, <2>1, <2>3, <3>1
  <2> QED BY <2>2, <2>3
<1> HIDE DEF r
<1>15. /\ \A w \in OnTheWay(m)' : Level(w.rec) <= Level(r)
       /\ \/ Level(r) <= Level(Work(m))
          \/ \E w \in OnTheWay(m)' : Level(r) <= Level(w.rec)
  <2>1. \A w \in OnTheWay(m) : Level(w.rec) <= Level(Work(n))
    BY <1>1, <1>2 DEF Spreads
  <2>2. Level(Work(n)) <= Level(Work(m)) \/ \E w \in OnTheWay(m) : Level(Work(n)) <= Level(w.rec)
    BY <1>1, <1>2 DEF Spreads
  <2> HIDE DEF m
  <2> QED BY <1>7, <1>11, <1>13, <1>14, <2>1, <2>2
<1>16. /\ \A w \in OnTheWay(n)' : Level(w.rec) <= Level(Work(m))
       /\ \/ Level(Work(m)) <= Level(r)
          \/ \E w \in OnTheWay(n)' : Level(Work(m)) <= Level(w.rec)
  <2>1. \A w \in OnTheWay(n) : Level(w.rec) <= Level(Work(m))
    BY <1>1, <1>2 DEF Spreads
  <2>2. Level(Work(m)) <= Level(Work(n)) \/ \E w \in OnTheWay(n) : Level(Work(m)) <= Level(w.rec)
    BY <1>1, <1>2 DEF Spreads
  <2> HIDE DEF m
  <2> QED BY <1>7, <1>11, <1>13, <1>14, <2>1, <2>2
<1>17. Level(Work(n))' = Level(r) /\ Level(Work(m))' = Level(Work(m))
  BY <1>9 DEF Level
<1>18. Spreads(n)' /\ Spreads(m)'
  <2>1. \A w : Level(w.rec)' = Level(w.rec)
    BY DEF Level
  <2> QED BY <1>1, <1>15, <1>16, <1>9, <1>17, <2>1 DEF Spreads
<1>19. r \in Outcomes(p) \cup {NoRecord} /\ (Work(n) # NoRecord => r # NoRecord)
  BY <1>2, <1>5, <1>7 DEF r
<1>20. Work(Gateway)' # NoRecord
  BY <1>1, <1>9, <1>19, TwoEnds DEF UnderWay
<1>21. UnderWay(p)'
  BY <1>1, <1>2, <1>4, <1>8, <1>9, <1>18, <1>19, <1>20, SameOutcomes DEF UnderWay
<1> QED BY <1>9, <1>10, <1>14, <1>21

LEMMA KeepStep ==
  ASSUME Stored, NEW p, owner' = owner, Keep
  PROVE  /\ Stored' /\ (UnderWay(p) => UnderWay(p)')
         /\ \A n : Work(n)' = Work(n)
<1>1. registry' = registry /\ upserts' = upserts
  BY DEF Keep
<1>2. Stored'
  BY <1>1 DEF Stored
<1>3. \A n : Work(n)' = Work(n) /\ OnTheWay(n)' = OnTheWay(n)
  BY <1>1 DEF Work, OnTheWay
<1>4. \A n : Level(Work(n))' = Level(Work(n))
  BY <1>3 DEF Level
<1>5. \A w : Level(w.rec)' = Level(w.rec)
  BY DEF Level
<1>6. \A n \in Ends : Spreads(n)' <=> Spreads(n)
  BY <1>3, <1>4, <1>5, TwoEnds DEF Spreads
<1>7. UnderWay(p) => UnderWay(p)'
  BY <1>1, <1>3, <1>6, SameOutcomes DEF UnderWay
<1> QED BY <1>2, <1>3, <1>7

LEMMA RejectStep ==
  ASSUME Stored, NEW p \in Replicas, UnderWay(p), owner' = owner, NEW n \in Ends, RejectRoute(n)
  PROVE  /\ Stored' /\ UnderWay(p)'
         /\ Work(Other(n))' = Work(Other(n))
         /\ Level(Work(n)) <= Level(Work(n)')
         /\ Work(n) # NoRecord => Level(Work(n)') >= 2
<1>1. Work(n) \in Outcomes(p) \cup {NoRecord}
  BY DEF UnderWay
<1>2. Other(n) \in Ends
  BY TwoEnds
<1>3. CASE Work(n) = NoRecord
  <2>1. ~CanReject(Work(n), 0)
    BY <1>3 DEF CanReject
  <2>2. Keep
    BY <2>1 DEF RejectRoute
  <2>3. Level(Work(n)) \in 0..3
    BY <1>1, LevelType DEF Stored
  <2> QED BY <1>3, <2>2, <2>3, KeepStep
<1>4. CASE Work(n) # NoRecord
  <2>1. PICK f \in Phases : Work(n) = Outcome(p, f)
    BY <1>1, <1>4 DEF Outcomes
  <2>2. CASE f = "completed"
    <3>1. Keep
      BY <2>1, <2>2, Transitions DEF RejectRoute, Stored
    <3>2. Level(Work(n)) = 2
      BY <2>1, <2>2, OutcomeType DEF Stored
    <3> QED BY <3>1, <3>2, KeepStep
  <2>3. CASE f # "completed"
    <3>1. Becomes(n, Put(registry[n], RouteKey, Outcome(p, "rejected")))
      BY <2>1, <2>3, Transitions DEF RejectRoute, Stored, Phases
    <3>2. Level(Work(n)) <= 3 /\ Level(Outcome(p, "rejected")) = 3 /\ "rejected" \in Phases
      BY <2>1, OutcomeType DEF Stored, Phases
    <3>3. Level(Work(n)) \in 0..3
      BY <1>1, LevelType DEF Stored
    <3> QED BY <3>1, <3>2, <3>3, BecomesStep
  <2> QED BY <2>2, <2>3
<1> QED BY <1>3, <1>4

LEMMA CompleteStep ==
  ASSUME Stored, NEW p \in Replicas, UnderWay(p), owner' = owner,
         CanComplete(Work(owner), 0, owner), CompleteRoute(owner)
  PROVE  /\ Stored' /\ UnderWay(p)'
         /\ Work(Other(owner))' = Work(Other(owner))
         /\ Level(Work(owner)) <= 2 /\ Level(Work(owner)') = 2
<1>1. Work(owner) \in Outcomes(p) \cup {NoRecord} /\ owner \in Ends
  BY DEF UnderWay, Stored
<1>2. Work(owner) # NoRecord
  BY DEF CanComplete
<1>3. PICK f \in Phases : Work(owner) = Outcome(p, f)
  BY <1>1, <1>2 DEF Outcomes
<1>4. f \in {"submitted", "completed"}
  BY <1>1, <1>3, Transitions DEF Phases
<1>5. Becomes(owner, Put(registry[owner], RouteKey, Outcome(p, "completed")))
  BY <1>1, <1>3, <1>4, Transitions DEF CompleteRoute
<1>6. Level(Work(owner)) <= 2 /\ Level(Outcome(p, "completed")) = 2 /\ "completed" \in Phases
      /\ Level(Work(owner)) <= Level(Outcome(p, "completed"))
  BY <1>1, <1>3, <1>4, OutcomeType DEF Phases
<1> QED BY <1>1, <1>5, <1>6, BecomesStep

\* The records and the parties, in each step.
Settings ==
    /\ client \in {"new", "waiting", "ok", "err"} /\ query \in {"none", "sent", "served", "closed"}
    /\ handler \in {"none", "running", "ran"} /\ reply \in {"none", "ok", "err"}

LEMMA RouteTypes == Stored /\ Settings <=> RouteTypeOK /\ Stored
<1>1. Stored => \A n \in Ends : registry[n] \in [role : Roles, epoch : {0}, token : 0..1,
                                                 requests : [Keys -> Record \cup {NoRecord}]]
  BY DEF Stored, RouteRegistry, Roles
<1> QED BY <1>1 DEF Stored, Settings, RouteTypeOK

Levels == \A n \in Ends : Level(Work(n)) \in 0..3

LEMMA LevelsFit ==
  ASSUME Stored, NEW p \in Replicas, UnderWay(p)
  PROVE  Levels /\ Level(Work(Gateway)) >= 1
<1>1. \A n \in Ends : Work(n) \in Outcomes(p) \cup {NoRecord}
  BY DEF UnderWay
<1>2. Levels
  BY <1>1, LevelType DEF Levels, Stored
<1>3. Work(Gateway) # NoRecord /\ Gateway \in Ends
  BY TwoEnds DEF UnderWay
<1>4. Level(Work(Gateway)) # 0
  BY <1>1, <1>3, LevelType DEF Stored
<1> QED BY <1>2, <1>3, <1>4 DEF Levels

LEMMA RouteStarts == RouteInit => RouteInv
<1> SUFFICES ASSUME RouteInit PROVE RouteInv
  OBVIOUS
<1>1. EmptyRegistry \in RouteRegistry
  BY DEF EmptyRegistry, RouteRegistry
<1>2. Stored /\ Settings
  BY <1>1 DEF RouteInit, Stored, Settings
<1>3. PartiesFit /\ NotYet /\ client = "new"
  BY DEF RouteInit, PartiesFit, NotYet
<1> QED BY <1>2, <1>3, RouteTypes DEF RouteInv

LEMMA RouteFits ==
  ASSUME RouteInv, owner' = owner, Stored', Settings', PartiesFit', AnswersFit', client' # "new",
         NEW p \in Replicas, UnderWay(p)'
  PROVE  RouteInv'
<1>1. p \in Replicas'
  BY SameOutcomes
<1>2. RouteTypeOK'
  BY RouteTypes, PTL
<1> QED BY <1>1, <1>2 DEF RouteInv

\* The request is submitted.
LEMMA SubmitRouteStep == RouteInv /\ SubmitRoute /\ owner' = owner => RouteInv'
<1> SUFFICES ASSUME RouteInv, SubmitRoute, owner' = owner PROVE RouteInv'
  OBVIOUS
<1>1. client = "new" /\ NotYet /\ Stored
  BY DEF SubmitRoute, RouteInv
<1>2. PICK replica \in (Ends \ {owner}) \cup {NoNode}, answer \in {"unasked", "acknowledged", "refused"} :
         LET r   == Submitted([hash |-> Payload, owner |-> owner, replica |-> replica,
                               role |-> "primary", epoch |-> 0], 0)
             rec == CASE answer = "unasked" -> r
                      [] answer = "acknowledged" -> Acknowledged(r)
                      [] answer = "refused" -> Rejected(r)
         IN  /\ client' = IF answer = "refused" THEN "err" ELSE "waiting"
             /\ Becomes(Gateway, Put(RaiseToken(registry[Gateway], 1), RouteKey, rec))
             /\ query' = IF owner # Gateway /\ answer # "refused" THEN "sent" ELSE query
             /\ handler' = IF owner = Gateway /\ answer # "refused" THEN "running" ELSE handler
             /\ UNCHANGED reply
  BY DEF SubmitRoute
<1> DEFINE p == [node |-> replica, acked |-> answer = "acknowledged"]
           f == IF answer = "refused" THEN "rejected" ELSE "submitted"
           l == IF answer = "refused" THEN 3 ELSE 1
           r == Outcome(p, f)
           st == Put(RaiseToken(registry[Gateway], 1), RouteKey, r)
           e == [token |-> st.token, rec |-> st.requests[RouteKey]]
<1>a. p \in Replicas /\ p.node = replica /\ (p.acked <=> answer = "acknowledged") /\ f \in Phases
  BY DEF Replicas, Phases
<1> HIDE DEF p
<1>3. r \in Record /\ r \in Outcomes(p) /\ r # NoRecord /\ Level(r) = l
  BY <1>1, <1>a, OutcomeType DEF Stored, Outcomes, Phases
<1>4. Becomes(Gateway, st)
  <2> DEFINE s == Submitted([hash |-> Payload, owner |-> owner, replica |-> p.node,
                             role |-> "primary", epoch |-> 0], 0)
  <2>1. /\ Outcome(p, "submitted") = IF p.acked THEN Acknowledged(s) ELSE s
        /\ Rejected(s) = Outcome(p, "rejected")
    BY <1>1, <1>a, Transitions DEF Stored
  <2>2. r = CASE answer = "unasked" -> s
              [] answer = "acknowledged" -> Acknowledged(s)
              [] answer = "refused" -> Rejected(s)
    <3> HIDE DEF s
    <3>1. CASE answer = "unasked"
      BY <1>a, <2>1, <3>1
    <3>2. CASE answer = "acknowledged"
      BY <1>a, <2>1, <3>2
    <3>3. CASE answer = "refused"
      BY <1>a, <2>1, <3>3
    <3> QED BY <3>1, <3>2, <3>3
  <2> QED BY <1>2, <1>a, <2>2
<1>5. Other(Gateway) = Backend /\ Gateway \in Ends /\ Backend \in Ends /\ Gateway # Backend
      /\ Other(Backend) = Gateway /\ \A n \in Ends : n = Gateway \/ n = Backend
  BY TwoEnds DEF Other, Ends
<1>b. l = IF answer = "refused" THEN 3 ELSE 1
  OBVIOUS
<1> HIDE DEF r, f, l
<1>6. st \in RouteRegistry /\ st.requests[RouteKey] = r /\ st.token \in 0..1
  <2> HIDE DEF st
  <2>1. registry[Gateway] \in RouteRegistry /\ RouteKey \in Keys
    BY <1>1, <1>5, RouteAssumption DEF Stored
  <2>2. \A x \in RouteRegistry : RaiseToken(x, 1) \in RouteRegistry
    BY DEF RaiseToken, Larger, RouteRegistry
  <2>3. \A x \in RouteRegistry : Put(x, RouteKey, r) \in RouteRegistry /\ Put(x, RouteKey, r).requests[RouteKey] = r
    BY <1>3, <2>1 DEF Put, RouteRegistry
  <2>4. st \in RouteRegistry /\ st.requests[RouteKey] = r
    BY <2>1, <2>2, <2>3 DEF st
  <2> QED BY <2>4 DEF RouteRegistry
<1>7. e \in Upsert(p) /\ e.rec = r
  <2> HIDE DEF st
  <2> QED BY <1>3, <1>6 DEF Upsert
<1>8. /\ registry' = [registry EXCEPT ![Gateway] = st] /\ upserts' = [upserts EXCEPT ![Backend] = Append(@, e)]
  BY <1>4, <1>5 DEF Becomes
<1> HIDE DEF st, e
<1>9. /\ DOMAIN registry' = Ends /\ DOMAIN upserts' = Ends
      /\ registry'[Gateway] = st /\ registry'[Backend] = registry[Backend]
      /\ upserts'[Gateway] = <<>> /\ upserts'[Backend] = <<e>>
  BY <1>1, <1>5, <1>8 DEF Stored, NotYet
<1>10. Stored'
  BY <1>1, <1>5, <1>6, <1>9 DEF Stored
<1>11. Work(Gateway)' = r /\ Work(Backend)' = NoRecord
  <2>1. RouteKey \in Keys
    BY RouteAssumption
  <2> QED BY <1>1, <1>5, <1>6, <1>9, <2>1 DEF Work, NotYet, EmptyRegistry
<1>12. OnTheWay(Gateway)' = {} /\ OnTheWay(Backend)' = {e}
  <2>1. \A w : {<<w>>[i] : i \in 1..Len(<<w>>)} = {w}
    OBVIOUS
  <2>2. upserts'[Gateway] = <<>> /\ upserts'[Backend] = <<e>>
    BY <1>9
  <2> QED BY <2>1, <2>2 DEF OnTheWay
<1>13. Level(NoRecord) = 0
  <2>1. NoRecord.phase = "none"
    BY DEF NoRecord
  <2> QED BY <2>1 DEF Level
<1>14. Level(Work(Gateway))' = l /\ Level(Work(Backend))' = 0 /\ Level(e.rec) = l
  <2>1. Level(Work(Gateway)') = l /\ Level(Work(Backend)') = 0
    BY <1>3, <1>11, <1>13
  <2>2. Level(Work(Gateway))' = Level(Work(Gateway)') /\ Level(Work(Backend))' = Level(Work(Backend)')
    BY DEF Level
  <2> QED BY <1>3, <1>7, <2>1, <2>2
<1>15. Spreads(Gateway)' /\ Spreads(Backend)'
  <2>1. \A w : Level(w.rec)' = Level(w.rec)
    BY DEF Level
  <2>2. l \in {1, 3}
    BY <1>b
  <2> QED BY <1>5, <1>12, <1>14, <2>1, <2>2 DEF Spreads
<1>16. UnderWay(p)'
  <2>1. \A S : \A w \in S : <<w>> \in Seq(S) /\ <<>> \in Seq(S)
    OBVIOUS
  <2>2. <<e>> \in Seq(Upsert(p)) /\ <<>> \in Seq(Upsert(p))
    BY <1>7, <2>1
  <2> QED BY <1>a, <1>3, <1>5, <1>9, <1>11, <1>15, <2>2, SameOutcomes DEF UnderWay
<1>17. /\ client' = IF answer = "refused" THEN "err" ELSE "waiting"
       /\ query' = IF owner # Gateway /\ answer # "refused" THEN "sent" ELSE query
       /\ handler' = IF owner = Gateway /\ answer # "refused" THEN "running" ELSE handler
       /\ UNCHANGED reply
  BY <1>2
<1>18. Settings' /\ PartiesFit'
  BY <1>1, <1>17 DEF Settings, PartiesFit, NotYet
<1>19. AnswersFit'
  BY <1>1, <1>5, <1>14, <1>17, <1>b DEF AnswersFit, Succeeded, NotYet
<1>20. client' # "new"
  BY <1>17
<1> QED BY <1>a, <1>10, <1>16, <1>18, <1>19, <1>20, RouteFits

\* Any other step: the invariant, and a replica the request has.
LEMMA RouteGoesOn ==
  ASSUME RouteInv, owner' = owner, client # "new",
         ASSUME NEW p \in Replicas, UnderWay(p), Stored, Settings, PartiesFit, AnswersFit, Levels,
                Level(Work(Gateway)) >= 1
         PROVE  Stored' /\ UnderWay(p)' /\ Settings' /\ PartiesFit' /\ AnswersFit' /\ client' # "new"
  PROVE  RouteInv'
<1>1. PICK p \in Replicas : UnderWay(p)
  BY DEF RouteInv
<1>2. Stored /\ Settings /\ PartiesFit /\ AnswersFit
  BY RouteTypes DEF RouteInv
<1>3. Levels /\ Level(Work(Gateway)) >= 1
  BY <1>1, <1>2, LevelsFit
<1>4. Stored' /\ UnderWay(p)' /\ Settings' /\ PartiesFit' /\ AnswersFit' /\ client' # "new"
  BY <1>1, <1>2, <1>3
<1> QED BY <1>4, RouteFits

\* No record changes.
LEMMA RecordsKept ==
  ASSUME \A n : Work(n)' = Work(n)
  PROVE  \A n : Level(Work(n))' = Level(Work(n)) /\ Level(Work(n)') = Level(Work(n))
BY DEF Level

LEMMA ServeQueryStep == RouteInv /\ (ServeQuery \/ OwnerGivesUp) /\ owner' = owner => RouteInv'
<1> SUFFICES ASSUME RouteInv, ServeQuery \/ OwnerGivesUp, owner' = owner PROVE RouteInv'
  OBVIOUS
<1>1. client # "new"
  BY DEF RouteInv, NotYet, ServeQuery, OwnerGivesUp
<1>2. ASSUME NEW p \in Replicas, UnderWay(p), Stored, Settings, PartiesFit, AnswersFit, Levels
      PROVE  Stored' /\ UnderWay(p)' /\ Settings' /\ PartiesFit' /\ AnswersFit' /\ client' # "new"
  <2>1. Keep /\ UNCHANGED <<client, reply>>
    BY DEF ServeQuery, OwnerGivesUp, Keep
  <2>2. Stored' /\ UnderWay(p)' /\ \A n : Work(n)' = Work(n)
    BY <1>2, <2>1, KeepStep
  <2>3. Settings' /\ PartiesFit'
    BY <1>1, <1>2, <2>1 DEF ServeQuery, OwnerGivesUp, Settings, PartiesFit
  <2>4. handler' = handler \/ (handler = "none" /\ handler' = "running")
    BY <1>2 DEF ServeQuery, OwnerGivesUp, PartiesFit
  <2>5. AnswersFit'
    BY <1>2, <2>1, <2>2, <2>4, RecordsKept DEF AnswersFit, Succeeded, Levels, Stored
  <2> QED BY <1>1, <2>1, <2>2, <2>3, <2>5
<1> QED BY <1>1, <1>2, RouteGoesOn

LEMMA MergedRouteStep ==
  ASSUME RouteInv, NEW n \in Ends, Merged(n), owner' = owner
  PROVE  RouteInv'
<1>1. client # "new"
  BY DEF RouteInv, NotYet, Merged
<1>2. ASSUME NEW p \in Replicas, UnderWay(p), Stored, Settings, PartiesFit, AnswersFit, Levels
      PROVE  Stored' /\ UnderWay(p)' /\ Settings' /\ PartiesFit' /\ AnswersFit' /\ client' # "new"
  <2>1. UNCHANGED <<client, query, handler, reply>>
    BY DEF Merged
  <2>2. /\ Stored' /\ UnderWay(p)'
        /\ Work(Other(n))' = Work(Other(n))
        /\ Level(Work(n)) <= Level(Work(n)')
        /\ Level(Work(n)') <= Level(Work(n)) \/ Level(Work(n)') <= Level(Work(Other(n)))
    BY <1>2, MergedStep
  <2>3. Settings' /\ PartiesFit'
    BY <1>2, <2>1 DEF Settings, PartiesFit
  <2>4. \A m \in Ends : m = n \/ m = Other(n)
    BY TwoEnds
  <2>5. Other(n) \in Ends /\ Level(Work(Other(n)))' = Level(Work(Other(n)))
        /\ Level(Work(n))' = Level(Work(n)') /\ Level(Work(Other(n)))' = Level(Work(Other(n))')
    BY <2>2, TwoEnds DEF Level
  <2>6. Levels'
    <3>1. p \in Replicas'
      BY SameOutcomes
    <3>2. \A q \in Ends : Work(q)' \in Outcomes(p) \cup {NoRecord}
      BY <2>2, SameOutcomes DEF UnderWay
    <3>3. \A q \in Ends : Level(Work(q)') \in 0..3
      BY <1>2, <3>2, LevelType DEF Stored
    <3>4. \A q : Level(Work(q))' = Level(Work(q)')
      BY DEF Level
    <3> QED BY <3>3, <3>4 DEF Levels
  <2>7. /\ \A q \in Ends : Level(Work(q)) <= Level(Work(q))'
        /\ \A k \in {1, 2} : (\A q \in Ends : Level(Work(q)) <= k) => (\A q \in Ends : Level(Work(q))' <= k)
    BY <1>2, <2>2, <2>4, <2>5, <2>6 DEF Levels
  <2>8. client = "waiting" /\ handler # "ran" => \A m \in Ends : Level(Work(m))' <= 1
    BY <1>2, <2>7 DEF AnswersFit
  <2>9. Succeeded => Level(Work(owner))' = 2 /\ \A m \in Ends : Level(Work(m))' <= 2
    BY <1>2, <2>6, <2>7 DEF AnswersFit, Levels, Stored
  <2>10. client = "err" => \E m \in Ends : Level(Work(m))' >= 2
    BY <1>2, <2>6, <2>7 DEF AnswersFit, Levels
  <2>11. AnswersFit'
    BY <2>1, <2>8, <2>9, <2>10 DEF AnswersFit, Succeeded
  <2> QED BY <1>1, <2>1, <2>2, <2>3, <2>11
<1> QED BY <1>1, <1>2, RouteGoesOn

\* The handler has run, whatever becomes of its record.
LEMMA HandlerEnds ==
  ASSUME RouteInv, handler = "running", handler' = "ran", owner' = owner,
         NEW result \in {"ok", "err"}, Answer(result),
         \/ result = "ok" /\ CanComplete(Work(owner), 0, owner) /\ CompleteRoute(owner)
         \/ result = "err" /\ RejectRoute(owner)
  PROVE  RouteInv'
<1>1. client # "new"
  BY DEF RouteInv, NotYet
<1>2. ASSUME NEW p \in Replicas, UnderWay(p), Stored, Settings, PartiesFit, AnswersFit, Levels,
             Level(Work(Gateway)) >= 1
      PROVE  Stored' /\ UnderWay(p)' /\ Settings' /\ PartiesFit' /\ AnswersFit' /\ client' # "new"
  <2>0. PICK m \in Ends : m = Other(owner)
    BY <1>2, TwoEnds DEF Stored
  <2>1. owner \in Ends /\ m \in Ends /\ Gateway \in Ends /\ \A n \in Ends : n = owner \/ n = m
    BY <1>2, <2>0, TwoEnds DEF Stored
  <2>2. /\ Stored' /\ UnderWay(p)' /\ Work(m)' = Work(m)
        /\ Level(Work(owner)) <= Level(Work(owner)')
        /\ result = "ok" => Level(Work(owner)') = 2
        /\ result = "err" /\ Work(owner) # NoRecord => Level(Work(owner)') >= 2
    <3>1. CASE result = "ok"
      BY <1>2, <2>0, <3>1, CompleteStep
    <3>2. CASE result = "err"
      BY <1>2, <2>0, <2>1, <3>2, RejectStep
    <3> QED BY <3>1, <3>2
  <2>3. /\ Level(Work(m))' = Level(Work(m)) /\ Level(Work(owner))' = Level(Work(owner)')
        /\ Level(Work(owner)) \in 0..3 /\ Level(Work(m)) \in 0..3
    <3>1. Level(Work(m))' = Level(Work(m))
      BY <2>2 DEF Level
    <3>2. Level(Work(owner))' = Level(Work(owner)')
      BY DEF Level
    <3> QED BY <1>2, <2>1, <3>1, <3>2 DEF Levels
  <2>4. Level(Work(owner))' \in 0..3
    <3>1. \A q \in Ends : Work(q)' \in Outcomes(p) \cup {NoRecord}
      BY <2>2, SameOutcomes DEF UnderWay
    <3>2. Work(owner)' \in Outcomes(p) \cup {NoRecord}
      BY <2>1, <3>1
    <3> QED BY <1>2, <2>3, <3>2, LevelType DEF Stored
  <2>5. CASE owner = Gateway
    <3>1. client = "waiting" /\ client' = result /\ UNCHANGED <<query, reply>> /\ reply = "none" /\ query = "none"
      BY <1>1, <1>2, <2>5 DEF Answer, PartiesFit
    <3>2. Settings' /\ PartiesFit'
      BY <1>2, <2>5, <3>1 DEF Settings, PartiesFit
    <3>3. Level(Work(m)) <= 1 /\ Level(Work(owner)) <= 1
      BY <1>2, <2>1, <3>1 DEF AnswersFit
    <3>4. Work(owner) # NoRecord
      BY <1>2, <2>5 DEF UnderWay
    <3>5. CASE result = "ok"
      <4>1. \A n \in Ends : Level(Work(n))' <= 2
        BY <2>1, <2>2, <2>3, <3>3, <3>5
      <4>2. Level(Work(owner))' = 2
        BY <2>2, <2>3, <3>5
      <4> QED BY <2>2, <3>1, <3>2, <3>5, <4>1, <4>2 DEF AnswersFit, Succeeded
    <3>6. CASE result = "err"
      <4>1. \E n \in Ends : Level(Work(n))' >= 2
        BY <2>1, <2>2, <2>3, <3>4, <3>6
      <4> QED BY <2>2, <3>1, <3>2, <3>6, <4>1 DEF AnswersFit, Succeeded
    <3> QED BY <3>5, <3>6
  <2>6. CASE owner # Gateway
    <3>1. client' = client /\ query' = query /\ reply = "none" /\ client # "ok"
          /\ reply' = IF query = "served" THEN result ELSE "none"
      BY <1>2, <2>6 DEF Answer, PartiesFit
    <3>2. Settings' /\ PartiesFit'
      BY <1>2, <2>6, <3>1 DEF Settings, PartiesFit
    <3>3. client = "err" => \E n \in Ends : Level(Work(n))' >= 2
      <4>1. Level(Work(owner)) <= Level(Work(owner))' /\ Level(Work(m)) <= Level(Work(m))'
        BY <2>2, <2>3
      <4>2. client = "err" => Level(Work(owner)) >= 2 \/ Level(Work(m)) >= 2
        BY <1>2, <2>1 DEF AnswersFit
      <4> QED BY <2>1, <2>3, <2>4, <4>1, <4>2
    <3>4. client = "waiting" /\ result = "ok" => Level(Work(owner))' = 2 /\ \A n \in Ends : Level(Work(n))' <= 2
      <4>1. client = "waiting" => Level(Work(m)) <= 1
        BY <1>2, <2>1 DEF AnswersFit
      <4> QED BY <2>1, <2>2, <2>3, <4>1
    <3>5. AnswersFit'
      BY <1>1, <1>2, <3>1, <3>3, <3>4 DEF AnswersFit, Succeeded, Settings
    <3> QED BY <1>1, <2>2, <3>1, <3>2, <3>5
  <2> QED BY <2>5, <2>6
<1> QED BY <1>1, <1>2, RouteGoesOn

LEMMA HandlerStep == RouteInv /\ (HandlerReturns \/ HandlerFails) /\ owner' = owner => RouteInv'
<1> SUFFICES ASSUME RouteInv, HandlerReturns \/ HandlerFails, owner' = owner PROVE RouteInv'
  OBVIOUS
<1>1. CASE HandlerReturns
  BY <1>1, HandlerEnds DEF HandlerReturns
<1>2. CASE HandlerFails
  BY <1>2, HandlerEnds DEF HandlerFails
<1> QED BY <1>1, <1>2

\* The ingress takes the reply, or gives up: on an error it rejects.
LEMMA IngressEnds ==
  ASSUME RouteInv, owner' = owner, client = "waiting", owner # Gateway, client' \in {"ok", "err"},
         UNCHANGED <<handler, reply>>, query' \in {query, "closed"},
         \/ client' = "ok" /\ reply = "ok" /\ Keep
         \/ client' = "err" /\ RejectRoute(Gateway)
  PROVE  RouteInv'
<1>1. ASSUME NEW p \in Replicas, UnderWay(p), Stored, Settings, PartiesFit, AnswersFit, Levels
      PROVE  Stored' /\ UnderWay(p)' /\ Settings' /\ PartiesFit' /\ AnswersFit' /\ client' # "new"
  <2>1. Gateway \in Ends /\ Work(Gateway) # NoRecord
    BY <1>1, TwoEnds DEF UnderWay
  <2>2. Settings' /\ PartiesFit'
    BY <1>1 DEF Settings, PartiesFit
  <2>3. CASE client' = "ok" /\ reply = "ok" /\ Keep
    <3>1. Stored' /\ UnderWay(p)' /\ \A n : Work(n)' = Work(n)
      BY <1>1, <2>3, KeepStep
    <3>2. Succeeded
      BY <2>3 DEF Succeeded
    <3>3. AnswersFit'
      BY <1>1, <2>3, <3>1, <3>2, RecordsKept DEF AnswersFit
    <3> QED BY <2>2, <2>3, <3>1, <3>3
  <2>4. CASE client' = "err" /\ RejectRoute(Gateway)
    <3>1. Stored' /\ UnderWay(p)' /\ Level(Work(Gateway)') >= 2
      BY <1>1, <2>1, <2>4, RejectStep
    <3>2. Level(Work(Gateway))' = Level(Work(Gateway)')
      BY DEF Level
    <3>3. AnswersFit'
      BY <2>1, <2>4, <3>1, <3>2 DEF AnswersFit, Succeeded
    <3> QED BY <2>2, <2>4, <3>1, <3>3
  <2> QED BY <2>3, <2>4
<1> QED BY <1>1, RouteGoesOn

LEMMA IngressStep == RouteInv /\ (TakeReply \/ IngressGivesUp) /\ owner' = owner => RouteInv'
<1> SUFFICES ASSUME RouteInv, TakeReply \/ IngressGivesUp, owner' = owner PROVE RouteInv'
  OBVIOUS
<1>1. CASE TakeReply
  <2>1. reply \in {"ok", "err"}
    BY <1>1 DEF TakeReply, RouteInv, RouteTypeOK
  <2> QED BY <1>1, <2>1, IngressEnds DEF TakeReply
<1>2. CASE IngressGivesUp
  BY <1>2, IngressEnds DEF IngressGivesUp
<1> QED BY <1>1, <1>2

LEMMA RouteStep == RouteInv /\ [RouteNext]_routeVars => RouteInv'
<1> SUFFICES ASSUME RouteInv, [RouteNext]_routeVars PROVE RouteInv'
  OBVIOUS
<1>1. CASE RouteNext
  BY <1>1, SubmitRouteStep, ServeQueryStep, MergedRouteStep, HandlerStep, IngressStep DEF RouteNext
<1>2. CASE UNCHANGED routeVars
  <2>1. RouteTypeOK' /\ Stored' /\ PartiesFit' /\ (client = "new" => NotYet') /\ client' = client /\ Keep
        /\ owner' = owner /\ (client # "new" => AnswersFit')
    <3>1. owner' = owner /\ Keep /\ client' = client /\ \A n : Work(n)' = Work(n)
      BY <1>2 DEF routeVars, Keep, Work
    <3>2. client # "new" => AnswersFit'
      BY <1>2, <3>1, RecordsKept DEF RouteInv, AnswersFit, Succeeded, routeVars
    <3> QED BY <1>2, <3>1, <3>2 DEF RouteInv, RouteTypeOK, Stored, PartiesFit, NotYet, routeVars
  <2>2. ASSUME NEW p \in Replicas, UnderWay(p) PROVE UnderWay(p)' /\ p \in Replicas'
    BY <2>1, <2>2, KeepStep, SameOutcomes DEF RouteInv
  <2> QED BY <2>1, <2>2 DEF RouteInv
<1> QED BY <1>1, <1>2

\* execute_clustered_http_route, mark_completed, reject_durable_request: a
\* request that was answered is completed work on both nodes once their
\* records have arrived, whoever gave up meanwhile; the nodes agree on what
\* became of it; and no work is left pending once the client has an answer.
THEOREM RouteSettled == RouteSpec => []RouteIsSettled
<1>1. RouteInv => RouteIsSettled
  <2> SUFFICES ASSUME RouteInv PROVE RouteIsSettled
    OBVIOUS
  <2>1. RouteTypeOK /\ Stored /\ Settings
    BY RouteTypes DEF RouteInv
  <2>2. ASSUME client # "new", RecordsArrived
        PROVE  /\ \A m, n \in Ends : Phase(m) = Phase(n)
               /\ client \in {"ok", "err"} => \A n \in Ends : Phase(n) # "submitted"
               /\ client = "ok" => \A n \in Ends : Phase(n) = "completed"
    <3>1. PICK p \in Replicas : UnderWay(p)
      BY <2>2 DEF RouteInv
    <3>2. AnswersFit
      BY <2>2 DEF RouteInv
    <3>3. Levels /\ Level(Work(Gateway)) >= 1
      BY <2>1, <3>1, LevelsFit
    <3>4. \A n \in Ends : OnTheWay(n) = {}
      BY <2>2 DEF RecordsArrived, OnTheWay
    <3>5. \A n \in Ends : Level(Work(n)) <= Level(Work(Other(n)))
      BY <3>1, <3>4, TwoEnds DEF UnderWay, Spreads
    <3>6. \A m, n \in Ends : Level(Work(m)) = Level(Work(n))
      BY <3>3, <3>5, TwoEnds DEF Levels
    <3>7. \A n \in Ends : Level(Work(n)) \in 1..3
      BY <3>3, <3>6, TwoEnds DEF Levels
    <3>8. \A n \in Ends : /\ Level(Work(n)) = 1 <=> Phase(n) = "submitted"
                          /\ Level(Work(n)) = 2 <=> Phase(n) = "completed"
                          /\ Level(Work(n)) = 3 <=> Phase(n) = "rejected"
      <4> SUFFICES ASSUME NEW n \in Ends
                   PROVE  /\ Level(Work(n)) = 1 <=> Phase(n) = "submitted"
                          /\ Level(Work(n)) = 2 <=> Phase(n) = "completed"
                          /\ Level(Work(n)) = 3 <=> Phase(n) = "rejected"
        OBVIOUS
      <4>1. Work(n) \in Outcomes(p) \cup {NoRecord} /\ Level(Work(n)) # 0
        BY <3>1, <3>7 DEF UnderWay
      <4>2. Work(n) # NoRecord
        BY <2>1, <4>1, LevelType DEF Stored
      <4>3. PICK f \in Phases : Work(n) = Outcome(p, f)
        BY <4>1, <4>2 DEF Outcomes
      <4> QED BY <2>1, <4>3, OutcomeType DEF Stored, Phase, Phases
    <3>9. \A m, n \in Ends : Phase(m) = Phase(n)
      BY <3>6, <3>7, <3>8
    <3>10. client \in {"ok", "err"} => \A n \in Ends : Level(Work(n)) # 1
      <4>1. client = "ok" => Level(Work(owner)) = 2 /\ owner \in Ends
        BY <2>1, <3>2 DEF AnswersFit, Succeeded, Stored
      <4>2. client = "err" => \E n \in Ends : Level(Work(n)) >= 2
        BY <3>2 DEF AnswersFit
      <4> QED BY <3>6, <3>7, <4>1, <4>2
    <3>11. client = "ok" => \A n \in Ends : Level(Work(n)) = 2
      BY <2>1, <3>2, <3>6 DEF AnswersFit, Succeeded, Stored
    <3> QED BY <3>8, <3>9, <3>10, <3>11
  <2> QED BY <2>1, <2>2 DEF RouteIsSettled, OkIsCompleted, NodesAgree, NothingPending
<1> QED BY <1>1, RouteStarts, RouteStep, PTL DEF RouteSpec
=============================================================================
