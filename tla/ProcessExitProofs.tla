------------------------- MODULE ProcessExitProofs -------------------------
(***************************************************************************)
(* Proofs about the end of processes, for any set of processes, names and  *)
(* references and any programs: what a process is told of the end of       *)
(* another is true, is told once, and links have two sides, whatever the   *)
(* locks let in between; and a process leaves no name behind that was its  *)
(* own when its cleanup began.                                             *)
(***************************************************************************)
EXTENDS ProcessExit, FiniteSetTheorems, TLAPS

\* A process in the middle of a call has somebody it is about, and a monitor
\* call has its reference.
InCall == \A p \in Pids :
    /\ pc[p] \in {"linking", "monitoring", "noproc", "demonitoring"} => target[p] \in Pids
    /\ pc[p] \in {"monitoring", "noproc", "demonitoring"} => ref[p] \in Refs

Steps == {"body", "linking", "monitoring", "noproc", "demonitoring", "propagate", "names", "mark", "gone"}

-----------------------------------------------------------------------------
\* A mailbox is a sequence of signals, and stays one when a signal is pushed.
LEMMA PushType ==
  ASSUME NEW q \in Pids, NEW msg \in Signals, mailbox \in [Pids -> Seq(Signals)], Push(q, msg)
  PROVE  mailbox' \in [Pids -> Seq(Signals)]
BY DEF Push

LEMMA SignalIsSignal ==
  ASSUME NEW tag \in {"EXIT", "DOWN"}, NEW r \in Refs \cup {0}, NEW p \in Pids \cup {Remote},
         NEW why \in {"Normal", "Error", "noproc"}
  PROVE  [tag |-> tag, ref |-> r, pid |-> p, reason |-> why] \in Signals
BY DEF Signals

\* What the end of a process does to a linked one keeps the types.
LEMMA SignalType ==
  ASSUME TypeOK, NEW from \in Pids \cup {Remote}, NEW why \in {"Normal", "Error"},
         NEW q \in Pids, SignalLinked(from, why, q)
  PROVE  /\ state' \in [Pids -> {"live", "Exited"}]
         /\ reason' \in [Pids -> {"none", "Normal", "Error", "Killed", "Linked"}]
         /\ links' \in [Pids -> SUBSET (Pids \cup {Remote})]
         /\ mailbox' \in [Pids -> Seq(Signals)]
<1>1. CASE state[q] = "Exited"
  BY <1>1 DEF SignalLinked, TypeOK
<1>2. CASE state[q] # "Exited" /\ (why \in {"Normal", "Shutdown"} \/ trap_exit[q])
  <2> DEFINE msg == [tag |-> "EXIT", ref |-> 0, pid |-> from, reason |-> why]
  <2>1. msg \in Signals
    BY SignalIsSignal
  <2>2. Push(q, msg) /\ UNCHANGED <<state, reason>> /\ links' = [links EXCEPT ![q] = @ \ {from}]
    BY <1>2 DEF SignalLinked
  <2>3. mailbox' \in [Pids -> Seq(Signals)]
    BY <2>1, <2>2, PushType DEF TypeOK
  <2>4. links' \in [Pids -> SUBSET (Pids \cup {Remote})]
    BY <2>2 DEF TypeOK
  <2>5. UNCHANGED state /\ UNCHANGED reason
    BY <2>2
  <2> QED BY <2>3, <2>4, <2>5 DEF TypeOK
<1>3. CASE state[q] # "Exited" /\ ~(why \in {"Normal", "Shutdown"} \/ trap_exit[q])
  <2>1. /\ state' = [state EXCEPT ![q] = "Exited"]
        /\ reason' = [reason EXCEPT ![q] = "Linked"]
        /\ links' = [links EXCEPT ![q] = @ \ {from}]
        /\ mailbox' = mailbox
    BY <1>3 DEF SignalLinked, Set
  <2> QED BY <2>1 DEF TypeOK
<1> QED BY <1>1, <1>2, <1>3

LEMMA TypeStep == TypeOK /\ InCall /\ [Next]_vars => TypeOK' /\ InCall'
<1> SUFFICES ASSUME TypeOK, InCall, [Next]_vars PROVE TypeOK' /\ InCall'
  OBVIOUS
<1> USE DEF TypeOK, InCall, Enter, Leave, Goto, Set, Runs, relation, call, ending, counters,
            registry
<1>1. ASSUME NEW p \in Pids, NEW q \in Pids, Link(p, q), UNCHANGED ops PROVE TypeOK' /\ InCall'
  BY <1>1, BoundsAssumption DEF Link, Reg!RegistryTypeOK
<1>2. ASSUME NEW p \in Pids, LinkTarget(p), UNCHANGED ops PROVE TypeOK' /\ InCall'
  BY <1>2, BoundsAssumption DEF LinkTarget, Reg!RegistryTypeOK
<1>3. ASSUME NEW p \in Pids, LinkRemote(p), UNCHANGED ops PROVE TypeOK' /\ InCall'
  BY <1>3, BoundsAssumption DEF LinkRemote, Reg!RegistryTypeOK
<1>4. ASSUME NEW p \in Pids, TrapExit(p), UNCHANGED ops PROVE TypeOK' /\ InCall'
  BY <1>4, BoundsAssumption DEF TrapExit, Reg!RegistryTypeOK
<1>5. ASSUME NEW p \in Pids, NEW q \in Pids, Monitor(p, q), UNCHANGED ops
      PROVE  TypeOK' /\ InCall'
  <2>1. next_ref \in Refs /\ next_ref' \in Nat
    BY <1>5, BoundsAssumption DEF Monitor
  <2>2. PICK loc \in {"noproc", "monitoring"} : Enter(p, loc, q, next_ref)
    BY <1>5 DEF Monitor
  <2>3. /\ pc' \in [Pids -> Steps]
        /\ target' \in [Pids -> Pids \cup {NoPid}]
        /\ ref' \in [Pids -> Refs \cup {0}]
        /\ InCall'
    BY <2>1, <2>2 DEF Steps
  <2>4. monitored_by' \in [Pids -> SUBSET (Refs \X Pids)]
    <3>1. monitored_by' = monitored_by
             \/ monitored_by' = [monitored_by EXCEPT ![q] = @ \cup {<<next_ref, p>>}]
      BY <1>5 DEF Monitor
    <3>2. <<next_ref, p>> \in Refs \X Pids
      BY <2>1
    <3>3. /\ monitored_by \in [Pids -> SUBSET (Refs \X Pids)]
          /\ monitored_by[q] \cup {<<next_ref, p>>} \in SUBSET (Refs \X Pids)
      BY <3>2
    <3> HIDE DEF TypeOK, InCall
    <3> QED BY <3>1, <3>3
  <2>5. UNCHANGED <<state, reason, trap_exit, mailbox, links, monitors, ending, kills, registry, ops>>
    BY <1>5 DEF Monitor
  <2> QED BY <2>1, <2>3, <2>4, <2>5 DEF Steps, Reg!RegistryTypeOK
<1>6. ASSUME NEW p \in Pids, MonitorRecord(p), UNCHANGED ops PROVE TypeOK' /\ InCall'
  BY <1>6, BoundsAssumption DEF MonitorRecord, Reg!RegistryTypeOK
<1>7. ASSUME NEW p \in Pids, MonitorNoproc(p), UNCHANGED ops PROVE TypeOK' /\ InCall'
  <2> DEFINE msg == [tag |-> "DOWN", ref |-> ref[p], pid |-> target[p], reason |-> "noproc"]
  <2>1. msg \in Signals
    <3>1. ref[p] \in Refs \cup {0} /\ target[p] \in Pids \cup {Remote}
      BY <1>7 DEF MonitorNoproc
    <3> QED BY <3>1, SignalIsSignal
  <2>2. mailbox' \in [Pids -> Seq(Signals)]
    BY <1>7, <2>1, PushType DEF MonitorNoproc
  <2> QED BY <1>7, <2>2 DEF MonitorNoproc, Reg!RegistryTypeOK
<1>8. ASSUME NEW p \in Pids, Demonitor(p), UNCHANGED ops PROVE TypeOK' /\ InCall'
  BY <1>8, BoundsAssumption DEF Demonitor, Reg!RegistryTypeOK
<1>9. ASSUME NEW p \in Pids, DemonitorTarget(p), UNCHANGED ops PROVE TypeOK' /\ InCall'
  <2>1. monitored_by' \in [Pids -> SUBSET (Refs \X Pids)]
    BY <1>9 DEF DemonitorTarget
  <2> QED BY <1>9, <2>1 DEF DemonitorTarget, Reg!RegistryTypeOK
<1>10. ASSUME NEW p \in Pids, RegisterName(p), UNCHANGED ops PROVE TypeOK' /\ InCall'
  <2>1. Reg!RegistryTypeOK'
    BY <1>10 DEF RegisterName, Reg!Register, Reg!RegistryTypeOK
  <2> QED BY <1>10, <2>1 DEF RegisterName
<1>11. ASSUME NEW p \in Pids, NEW q \in Pids, NEW why \in {"Killed", "Error"}, ActorExit(p, q,
              why), UNCHANGED ops
       PROVE  TypeOK' /\ InCall'
  <2>1. CASE why # "Killed" /\ trap_exit[q]
    <3> DEFINE msg == [tag |-> "EXIT", ref |-> 0, pid |-> q, reason |-> why]
    <3>1. msg \in Signals
      BY <2>1, SignalIsSignal
    <3>2. mailbox' \in [Pids -> Seq(Signals)]
      BY <1>11, <2>1, <3>1, PushType DEF ActorExit
    <3> QED BY <1>11, <2>1, <3>2, BoundsAssumption DEF ActorExit, Reg!RegistryTypeOK
  <2>2. CASE ~(why # "Killed" /\ trap_exit[q])
    <3>1. /\ state' = [state EXCEPT ![q] = "Exited"]
          /\ reason' = [reason EXCEPT ![q] = why]
          /\ kills' = kills + 1
          /\ UNCHANGED mailbox
      BY <1>11, <2>2 DEF ActorExit
    <3>2. UNCHANGED <<trap_exit, relation, call, ending, next_ref, registry, ops>>
      BY <1>11 DEF ActorExit
    <3>3. /\ state' \in [Pids -> {"live", "Exited"}]
          /\ reason' \in [Pids -> {"none", "Normal", "Error", "Killed", "Linked"}]
      BY <3>1
    <3> QED BY <3>1, <3>2, <3>3, BoundsAssumption DEF Reg!RegistryTypeOK
  <2> QED BY <2>1, <2>2
<1>12. ASSUME NEW p \in Pids, Yield(p), UNCHANGED ops PROVE TypeOK' /\ InCall'
  BY <1>12, BoundsAssumption DEF Yield, Reg!RegistryTypeOK
<1>13. ASSUME NEW q \in Pids, NEW why \in {"Normal", "Error"}, RemoteExit(q, why), UNCHANGED ops
       PROVE  TypeOK' /\ InCall'
  <2>1. /\ state' \in [Pids -> {"live", "Exited"}]
        /\ reason' \in [Pids -> {"none", "Normal", "Error", "Killed", "Linked"}]
        /\ links' \in [Pids -> SUBSET (Pids \cup {Remote})]
        /\ mailbox' \in [Pids -> Seq(Signals)]
    <3>1. SignalLinked(Remote, why, q) /\ TypeOK
      BY <1>13 DEF RemoteExit
    <3> QED BY <3>1, SignalType
  <2> QED BY <1>13, <2>1 DEF RemoteExit, Reg!RegistryTypeOK
<1>14. ASSUME NEW p \in Pids, Return(p), UNCHANGED ops PROVE TypeOK' /\ InCall'
  BY <1>14, BoundsAssumption DEF Return, Reg!RegistryTypeOK
<1>15. ASSUME NEW p \in Pids, PropagateExit(p), UNCHANGED ops PROVE TypeOK' /\ InCall'
  <2>1. PICK q \in linked_pids[p] : /\ linked_pids' = [linked_pids EXCEPT ![p] = @ \ {q}]
                                    /\ SignalLinked(p, "Normal", q)
    BY <1>15 DEF PropagateExit
  <2>2. q \in Pids
    OBVIOUS
  <2>3. /\ state' \in [Pids -> {"live", "Exited"}]
        /\ reason' \in [Pids -> {"none", "Normal", "Error", "Killed", "Linked"}]
        /\ links' \in [Pids -> SUBSET (Pids \cup {Remote})]
        /\ mailbox' \in [Pids -> Seq(Signals)]
    <3>1. TypeOK
      OBVIOUS
    <3> QED BY <2>1, <2>2, <3>1, SignalType
  <2> QED BY <1>15, <2>1, <2>3 DEF PropagateExit, Reg!RegistryTypeOK
<1>16. ASSUME NEW p \in Pids, DeliverDown(p), UNCHANGED ops PROVE TypeOK' /\ InCall'
  <2> DEFINE msg(d) == [tag |-> "DOWN", ref |-> d[1], pid |-> p, reason |-> "Normal"]
  <2>1. PICK d \in down_entries[p] :
           /\ down_entries' = [down_entries EXCEPT ![p] = @ \ {d}]
           /\ monitors' = [monitors EXCEPT ![d[2]] = {m \in @ : m[1] # d[1]}]
           /\ Push(d[2], msg(d))
    BY <1>16 DEF DeliverDown
  <2>2. d[1] \in Refs /\ d[2] \in Pids
    OBVIOUS
  <2>3. msg(d) \in Signals
    BY <2>2, SignalIsSignal
  <2>4. mailbox' \in [Pids -> Seq(Signals)]
    BY <2>1, <2>2, <2>3, PushType
  <2>5. /\ monitors' \in [Pids -> SUBSET (Refs \X Pids)]
        /\ down_entries' \in [Pids -> SUBSET (Refs \X Pids)]
    BY <2>1
  <2> QED BY <1>16, <2>4, <2>5 DEF DeliverDown, Reg!RegistryTypeOK
<1>17. ASSUME NEW p \in Pids, TakeNames(p), UNCHANGED ops PROVE TypeOK' /\ InCall'
  <2>1. Reg!RegistryTypeOK'
    BY <1>17 DEF TakeNames, Reg!CleanupTake, Reg!RegistryTypeOK
  <2> QED BY <1>17, <2>1 DEF TakeNames
<1>18. ASSUME NEW p \in Pids, RemoveNames(p), UNCHANGED ops PROVE TypeOK' /\ InCall'
  <2>1. Reg!RegistryTypeOK'
    BY <1>18 DEF RemoveNames, Reg!CleanupRemove, Reg!RegistryTypeOK
  <2> QED BY <1>18, <2>1 DEF RemoveNames
<1>19. ASSUME NEW p \in Pids, MarkExited(p), UNCHANGED ops PROVE TypeOK' /\ InCall'
  BY <1>19, BoundsAssumption DEF MarkExited, Reg!RegistryTypeOK
<1>20. CASE UNCHANGED vars
  BY <1>20 DEF vars, Reg!RegistryTypeOK
<1> QED BY <1>1, <1>2, <1>3, <1>4, <1>5, <1>6, <1>7, <1>8, <1>9, <1>10, <1>11, <1>12, <1>13,
           <1>14, <1>15, <1>16, <1>17, <1>18, <1>19, <1>20
           DEF Next, Others, Carry, Calls, Continues, Ends

-----------------------------------------------------------------------------
\* What the symmetry of links rests on: a process between the two locks of its
\* link call has the target in its own set, unless the target has returned.
LinkHalf == \A p \in Pids :
    pc[p] = "linking" /\ ~Ended(target[p]) => target[p] \in links[p]

\* The end of a process takes only that process out of the links of another.
LEMMA SignalLinks ==
  ASSUME links \in [Pids -> SUBSET (Pids \cup {Remote})], NEW from, NEW why, NEW q \in Pids,
         SignalLinked(from, why, q)
  PROVE  \A r \in Pids : \A u : u \in links'[r] <=> u \in links[r] /\ (u # from \/ u \in links'[r])
<1>1. links' = links \/ links' = [links EXCEPT ![q] = links[q] \ {from}]
  BY DEF SignalLinked
<1>2. ASSUME NEW r \in Pids, NEW u
      PROVE  u \in links'[r] <=> u \in links[r] /\ (u # from \/ u \in links'[r])
  <2>1. CASE links' = links
    BY <2>1
  <2>2. CASE links' = [links EXCEPT ![q] = links[q] \ {from}]
    BY <2>2
  <2> QED BY <1>1, <2>1, <2>2
<1> QED BY <1>2

LEMMA LinkStep == TypeOK /\ InCall /\ LinkSymmetric /\ LinkHalf /\ [Next]_vars
                     => LinkSymmetric' /\ LinkHalf'
<1> SUFFICES ASSUME TypeOK, InCall, LinkSymmetric, LinkHalf, [Next]_vars
             PROVE  LinkSymmetric' /\ LinkHalf'
  OBVIOUS
<1> USE DEF TypeOK, InCall, LinkSymmetric, LinkHalf, Ended, Enter, Leave, Goto, Set, Runs,
            relation, call, ending
<1>1. ASSUME NEW p \in Pids, NEW q \in Pids, Link(p, q) PROVE LinkSymmetric' /\ LinkHalf'
  BY <1>1 DEF Link
<1>2. ASSUME NEW p \in Pids, LinkTarget(p) PROVE LinkSymmetric' /\ LinkHalf'
  BY <1>2 DEF LinkTarget
<1>3. ASSUME NEW p \in Pids, LinkRemote(p) PROVE LinkSymmetric' /\ LinkHalf'
  BY <1>3, PidsAssumption DEF LinkRemote
<1>4. ASSUME NEW p \in Pids, TrapExit(p) PROVE LinkSymmetric' /\ LinkHalf'
  BY <1>4 DEF TrapExit
<1>5. ASSUME NEW p \in Pids, NEW q \in Pids, Monitor(p, q) PROVE LinkSymmetric' /\ LinkHalf'
  <2>1. PICK loc \in {"noproc", "monitoring"} : Enter(p, loc, q, next_ref)
    BY <1>5 DEF Monitor
  <2>2. pc[p] = "body" /\ links' = links
    BY <1>5 DEF Monitor
  <2> QED BY <2>1, <2>2
<1>6. ASSUME NEW p \in Pids, MonitorRecord(p) PROVE LinkSymmetric' /\ LinkHalf'
  BY <1>6 DEF MonitorRecord
<1>7. ASSUME NEW p \in Pids, MonitorNoproc(p) PROVE LinkSymmetric' /\ LinkHalf'
  BY <1>7 DEF MonitorNoproc
<1>8. ASSUME NEW p \in Pids, Demonitor(p) PROVE LinkSymmetric' /\ LinkHalf'
  BY <1>8 DEF Demonitor
<1>9. ASSUME NEW p \in Pids, DemonitorTarget(p) PROVE LinkSymmetric' /\ LinkHalf'
  BY <1>9 DEF DemonitorTarget
<1>10. ASSUME NEW p \in Pids, RegisterName(p) PROVE LinkSymmetric' /\ LinkHalf'
  BY <1>10 DEF RegisterName
<1>11. ASSUME NEW p \in Pids, NEW q \in Pids, NEW why \in {"Killed", "Error"}, ActorExit(p, q,
              why)
       PROVE  LinkSymmetric' /\ LinkHalf'
  BY <1>11 DEF ActorExit
<1>12. ASSUME NEW p \in Pids, Yield(p) PROVE LinkSymmetric' /\ LinkHalf'
  BY <1>12 DEF Yield
<1>13. ASSUME NEW q \in Pids, NEW why \in {"Normal", "Error"}, RemoteExit(q, why)
       PROVE  LinkSymmetric' /\ LinkHalf'
  <2>1. SignalLinked(Remote, why, q) /\ UNCHANGED <<pc, target>>
    BY <1>13 DEF RemoteExit
  <2>2. \A r, u \in Pids : u \in links'[r] <=> u \in links[r]
    BY <2>1, SignalLinks, PidsAssumption
  <2> QED BY <2>1, <2>2
<1>14. ASSUME NEW p \in Pids, Return(p) PROVE LinkSymmetric' /\ LinkHalf'
  BY <1>14 DEF Return
<1>15. ASSUME NEW p \in Pids, PropagateExit(p) PROVE LinkSymmetric' /\ LinkHalf'
  <2>1. PICK q \in linked_pids[p] : SignalLinked(p, "Normal", q)
    BY <1>15 DEF PropagateExit
  <2>2. UNCHANGED <<pc, target>> /\ Ended(p)
    BY <1>15 DEF PropagateExit
  <2>3. \A r, u \in Pids : u \in links'[r] <=> u \in links[r] /\ (u # p \/ u \in links'[r])
    BY <2>1, SignalLinks
  <2> QED BY <2>2, <2>3
<1>16. ASSUME NEW p \in Pids, DeliverDown(p) PROVE LinkSymmetric' /\ LinkHalf'
  BY <1>16 DEF DeliverDown
<1>17. ASSUME NEW p \in Pids, TakeNames(p) PROVE LinkSymmetric' /\ LinkHalf'
  BY <1>17 DEF TakeNames
<1>18. ASSUME NEW p \in Pids, RemoveNames(p) PROVE LinkSymmetric' /\ LinkHalf'
  BY <1>18 DEF RemoveNames
<1>19. ASSUME NEW p \in Pids, MarkExited(p) PROVE LinkSymmetric' /\ LinkHalf'
  BY <1>19 DEF MarkExited
<1>20. CASE UNCHANGED vars
  BY <1>20 DEF vars
<1> QED BY <1>1, <1>2, <1>3, <1>4, <1>5, <1>6, <1>7, <1>8, <1>9, <1>10, <1>11, <1>12, <1>13,
           <1>14, <1>15, <1>16, <1>17, <1>18, <1>19, <1>20
           DEF Next, Others, Carry, Calls, Continues, Ends

-----------------------------------------------------------------------------
\* What a push adds to a mailbox.
LEMMA PushReceived ==
  ASSUME mailbox \in [Pids -> Seq(Signals)], NEW q \in Pids, NEW msg \in Signals, Push(q, msg)
  PROVE  \A p \in Pids : Received(p)' = IF p = q THEN Received(p) \cup {msg} ELSE Received(p)
<1> DEFINE s == mailbox[q]
<1>1. s \in Seq(Signals) /\ mailbox' = [mailbox EXCEPT ![q] = Append(s, msg)]
  BY DEF Push
<1>2. {Append(s, msg)[i] : i \in DOMAIN Append(s, msg)} = {s[i] : i \in DOMAIN s} \cup {msg}
  <2>1. DOMAIN Append(s, msg) = DOMAIN s \cup {Len(s) + 1}
    BY <1>1
  <2>2. Append(s, msg)[Len(s) + 1] = msg /\ \A i \in DOMAIN s : Append(s, msg)[i] = s[i]
    BY <1>1
  <2> QED BY <2>1, <2>2
<1>3. ASSUME NEW p \in Pids
      PROVE  Received(p)' = IF p = q THEN Received(p) \cup {msg} ELSE Received(p)
  BY <1>1, <1>2 DEF Received
<1> QED BY <1>3

LEMMA PushDowns ==
  ASSUME mailbox \in [Pids -> Seq(Signals)], NEW q \in Pids, NEW msg \in Signals, Push(q, msg)
  PROVE  \A p \in Pids : \A r :
            Downs(p, r)' = IF p = q /\ msg.tag = "DOWN" /\ msg.ref = r
                           THEN Downs(p, r) \cup {Len(mailbox[q]) + 1} ELSE Downs(p, r)
<1> DEFINE s == mailbox[q]
           Of(t, r) == {i \in DOMAIN t : t[i].tag = "DOWN" /\ t[i].ref = r}
<1>1. s \in Seq(Signals) /\ mailbox' = [mailbox EXCEPT ![q] = Append(s, msg)]
  BY DEF Push
<1>2. ASSUME NEW r
      PROVE  Of(Append(s, msg), r) = IF msg.tag = "DOWN" /\ msg.ref = r
                                     THEN Of(s, r) \cup {Len(s) + 1} ELSE Of(s, r)
  <2>1. DOMAIN Append(s, msg) = DOMAIN s \cup {Len(s) + 1} /\ Len(s) + 1 \notin DOMAIN s
    BY <1>1
  <2>2. Append(s, msg)[Len(s) + 1] = msg /\ \A i \in DOMAIN s : Append(s, msg)[i] = s[i]
    BY <1>1
  <2> HIDE DEF s
  <2> QED BY <2>1, <2>2
<1>3. ASSUME NEW p \in Pids, NEW r
      PROVE  Downs(p, r)' = IF p = q /\ msg.tag = "DOWN" /\ msg.ref = r
                            THEN Downs(p, r) \cup {Len(mailbox[q]) + 1} ELSE Downs(p, r)
  <2>1. CASE p = q
    <3>1. Downs(p, r)' = Of(Append(s, msg), r) /\ Downs(p, r) = Of(s, r)
      BY <1>1, <2>1 DEF Downs
    <3> QED BY <1>2, <2>1, <3>1
  <2>2. CASE p # q
    BY <1>1, <2>2 DEF Downs
  <2> QED BY <2>1, <2>2
<1> QED BY <1>3

\* What the end of a process pushes, if it pushes at all.
LEMMA SignalPush ==
  ASSUME TypeOK, NEW from \in Pids \cup {Remote}, NEW why \in {"Normal", "Error"},
         NEW q \in Pids, SignalLinked(from, why, q)
  PROVE  \/ UNCHANGED mailbox
         \/ Push(q, [tag |-> "EXIT", ref |-> 0, pid |-> from, reason |-> why])
BY DEF SignalLinked

-----------------------------------------------------------------------------
\* A process that has returned stays so, and what is pushed to a mailbox is the
\* exit signal of the mailbox's own process or of a remote one, a noproc, or
\* something of a process that has returned.
News(p, m) == \/ m.tag = "EXIT" /\ m.pid \in {p, Remote}
              \/ m.tag = "DOWN" /\ m.reason = "noproc"
              \/ m.pid \in Pids /\ Ended(m.pid)

LEMMA NewsStep ==
  TypeOK /\ InCall /\ [Next]_vars
     => \A p \in Pids : /\ Ended(p) => Ended(p)'
                        /\ \A m \in Received(p)' : m \in Received(p) \/ News(p, m)
<1> DEFINE Goal == \A p \in Pids : /\ Ended(p) => Ended(p)'
                                   /\ \A m \in Received(p)' : m \in Received(p) \/ News(p, m)
<1> SUFFICES ASSUME TypeOK, InCall, [Next]_vars PROVE Goal
  OBVIOUS
<1>a. ASSUME NEW p \in Pids, Runs(p) \/ pc[p] \in {"linking", "monitoring", "noproc", "demonitoring"},
             NEW loc, pc' = [pc EXCEPT ![p] = loc], UNCHANGED mailbox
      PROVE  Goal
  BY <1>a DEF TypeOK, Ended, Runs, Received
<1>b. ASSUME UNCHANGED <<pc, mailbox>> PROVE Goal
  BY <1>b DEF Ended, Received
<1>c. ASSUME NEW q \in Pids, NEW msg \in Signals, Push(q, msg), News(q, msg),
             \A p \in Pids : Ended(p) => Ended(p)'
      PROVE  Goal
  BY <1>c, PushReceived DEF TypeOK
<1>d. ASSUME NEW from \in Pids \cup {Remote}, NEW q \in Pids, NEW why \in {"Normal", "Error"},
             SignalLinked(from, why, q), UNCHANGED pc, from \in Pids => Ended(from)
      PROVE  Goal
  <2> DEFINE msg == [tag |-> "EXIT", ref |-> 0, pid |-> from, reason |-> why]
  <2>1. msg \in Signals
    BY SignalIsSignal
  <2>2. News(q, msg)
    BY <1>d DEF News
  <2>3. \A p \in Pids : Ended(p) => Ended(p)'
    BY <1>d DEF Ended
  <2> QED BY <1>b, <1>c, <1>d, <2>1, <2>2, <2>3, SignalPush
<1>1. ASSUME NEW p \in Pids, NEW q \in Pids, Link(p, q) PROVE Goal
  BY <1>1, <1>a DEF Link, Enter, Leave, Goto, Set
<1>2. ASSUME NEW p \in Pids, LinkTarget(p) PROVE Goal
  BY <1>2, <1>a DEF LinkTarget, Enter, Leave, Goto, Set
<1>3. ASSUME NEW p \in Pids, LinkRemote(p) PROVE Goal
  BY <1>3, <1>b DEF LinkRemote, relation, call
<1>4. ASSUME NEW p \in Pids, TrapExit(p) PROVE Goal
  BY <1>4, <1>b DEF TrapExit, relation, call
<1>5. ASSUME NEW p \in Pids, NEW q \in Pids, Monitor(p, q) PROVE Goal
  <2>1. PICK loc \in {"noproc", "monitoring"} : Enter(p, loc, q, next_ref)
    BY <1>5 DEF Monitor
  <2> QED BY <1>5, <1>a, <2>1 DEF Monitor, Enter, Goto, Set
<1>6. ASSUME NEW p \in Pids, MonitorRecord(p) PROVE Goal
  BY <1>6, <1>a DEF MonitorRecord, Enter, Leave, Goto, Set
<1>7. ASSUME NEW p \in Pids, MonitorNoproc(p) PROVE Goal
  <2> DEFINE msg == [tag |-> "DOWN", ref |-> ref[p], pid |-> target[p], reason |-> "noproc"]
  <2>1. msg \in Signals /\ News(p, msg)
    <3>1. ref[p] \in Refs \cup {0} /\ target[p] \in Pids \cup {Remote}
      BY <1>7 DEF MonitorNoproc, InCall
    <3> QED BY <3>1, SignalIsSignal DEF News
  <2>2. \A r \in Pids : Ended(r) => Ended(r)'
    BY <1>7 DEF MonitorNoproc, Leave, Enter, Goto, Set, TypeOK, Ended
  <2> QED BY <1>7, <1>c, <2>1, <2>2 DEF MonitorNoproc
<1>8. ASSUME NEW p \in Pids, Demonitor(p) PROVE Goal
  BY <1>8, <1>a DEF Demonitor, Enter, Leave, Goto, Set
<1>9. ASSUME NEW p \in Pids, DemonitorTarget(p) PROVE Goal
  BY <1>9, <1>a DEF DemonitorTarget, Enter, Leave, Goto, Set
<1>10. ASSUME NEW p \in Pids, RegisterName(p) PROVE Goal
  BY <1>10, <1>b DEF RegisterName, relation, call
<1>11. ASSUME NEW p \in Pids, NEW q \in Pids, NEW why \in {"Killed", "Error"}, ActorExit(p, q, why)
      PROVE  Goal
  <2> DEFINE msg == [tag |-> "EXIT", ref |-> 0, pid |-> q, reason |-> why]
  <2>1. CASE why # "Killed" /\ trap_exit[q]
    <3>1. msg \in Signals /\ News(q, msg)
      BY <2>1, SignalIsSignal DEF News
    <3>2. \A r \in Pids : Ended(r) => Ended(r)'
      BY <1>11 DEF ActorExit, call, Ended
    <3> QED BY <1>11, <1>c, <2>1, <3>1, <3>2 DEF ActorExit
  <2>2. CASE ~(why # "Killed" /\ trap_exit[q])
    BY <1>11, <1>b, <2>2 DEF ActorExit, call
  <2> QED BY <2>1, <2>2
<1>12. ASSUME NEW p \in Pids, Yield(p) PROVE Goal
  BY <1>12, <1>b DEF Yield, relation, call
<1>13. ASSUME NEW q \in Pids, NEW why \in {"Normal", "Error"}, RemoteExit(q, why) PROVE Goal
  <2>1. SignalLinked(Remote, why, q) /\ UNCHANGED pc
    BY <1>13 DEF RemoteExit, call
  <2> QED BY <1>d, <2>1, PidsAssumption
<1>14. ASSUME NEW p \in Pids, Return(p) PROVE Goal
  BY <1>14, <1>a DEF Return, Enter, Leave, Goto, Set
<1>15. ASSUME NEW p \in Pids, PropagateExit(p) PROVE Goal
  <2>1. PICK q \in linked_pids[p] : SignalLinked(p, "Normal", q)
    BY <1>15 DEF PropagateExit
  <2>2. UNCHANGED pc /\ Ended(p) /\ q \in Pids
    BY <1>15 DEF PropagateExit, call, Ended, TypeOK
  <2> QED BY <1>d, <2>1, <2>2
<1>16. ASSUME NEW p \in Pids, DeliverDown(p) PROVE Goal
  <2> DEFINE msg(d) == [tag |-> "DOWN", ref |-> d[1], pid |-> p, reason |-> "Normal"]
  <2>1. PICK d \in down_entries[p] : Push(d[2], msg(d))
    BY <1>16 DEF DeliverDown
  <2>2. d[1] \in Refs /\ d[2] \in Pids
    BY DEF TypeOK
  <2>3. msg(d) \in Signals
    BY <2>2, SignalIsSignal
  <2>4. Ended(p) /\ UNCHANGED pc
    BY <1>16 DEF DeliverDown, Ended, call
  <2>5. News(d[2], msg(d)) /\ \A r \in Pids : Ended(r) => Ended(r)'
    BY <2>4 DEF News, Ended
  <2> QED BY <1>c, <2>1, <2>2, <2>3, <2>5
<1>17. ASSUME NEW p \in Pids, TakeNames(p) PROVE Goal
  <2>1. UNCHANGED mailbox /\ \A r \in Pids : Ended(r) => Ended(r)'
    BY <1>17 DEF TakeNames, Goto, Set, TypeOK, Ended
  <2> QED BY <2>1 DEF Received
<1>18. ASSUME NEW p \in Pids, RemoveNames(p) PROVE Goal
  <2>1. UNCHANGED mailbox /\ \A r \in Pids : Ended(r) => Ended(r)'
    BY <1>18 DEF RemoveNames, Goto, Set, TypeOK, Ended
  <2> QED BY <2>1 DEF Received
<1>19. ASSUME NEW p \in Pids, MarkExited(p) PROVE Goal
  <2>1. UNCHANGED mailbox /\ \A r \in Pids : Ended(r) => Ended(r)'
    BY <1>19 DEF MarkExited, Goto, Set, TypeOK, Ended
  <2> QED BY <2>1 DEF Received
<1>20. CASE UNCHANGED vars
  BY <1>20, <1>b DEF vars, call
<1> QED BY <1>1, <1>2, <1>3, <1>4, <1>5, <1>6, <1>7, <1>8, <1>9, <1>10, <1>11, <1>12, <1>13,
           <1>14, <1>15, <1>16, <1>17, <1>18, <1>19, <1>20
        DEF Next, Others, Carry, Calls, Continues, Ends

LEMMA ToldStep == TypeOK /\ InCall /\ ToldByTheEnd /\ [Next]_vars => ToldByTheEnd'
<1> SUFFICES ASSUME TypeOK, InCall, ToldByTheEnd, [Next]_vars, NEW p \in Pids, NEW q \in Pids
             PROVE  /\ (p # q /\ ExitsFrom(p, q) # {} => Ended(q))'
                    /\ (\A m \in Received(p) : m.tag = "DOWN" /\ m.pid = q /\ m.reason # "noproc" => Ended(q))'
  BY DEF ToldByTheEnd
<1>1. \A r, u \in Pids : ExitsFrom(r, u) # {} <=> \E m \in Received(r) : m.tag = "EXIT" /\ m.pid = u
  BY DEF ExitsFrom, Received
<1>2. (\A r, u \in Pids : ExitsFrom(r, u) # {} <=> \E m \in Received(r) : m.tag = "EXIT" /\ m.pid = u)'
  BY DEF ExitsFrom, Received
<1>3. ASSUME NEW m \in Received(p)', m.pid = q, (m.tag = "EXIT" /\ p # q) \/ (m.tag = "DOWN" /\ m.reason # "noproc")
      PROVE  Ended(q)'
  <2>1. m \in Received(p) \/ News(p, m)
    BY NewsStep
  <2>2. CASE m \in Received(p)
    BY <1>1, <1>3, <2>2, NewsStep DEF ToldByTheEnd
  <2>3. CASE News(p, m)
    BY <1>3, <2>3, NewsStep, PidsAssumption DEF News
  <2> QED BY <2>1, <2>2, <2>3
<1> QED BY <1>2, <1>3
-----------------------------------------------------------------------------
\* The stages a monitor reference goes through.  It is registered with the
\* monitored process, or taken by the end of that process, or about to be
\* answered with noproc, or delivered as a DOWN.
Stage(r, k, p, x) == \/ k = "watched" /\ <<r, x>> \in monitored_by[p]
                     \/ k = "due" /\ <<r, x>> \in down_entries[p]
                     \/ k = "noproc" /\ pc[p] = "noproc" /\ ref[p] = r /\ x = p
                     \/ k = "told" /\ x \in Downs(p, r)

\* A reference that has not been issued is in no stage, and every other is in
\* one at most, in one place.
OneMonitor == \A r \in Refs :
    /\ \A p, q \in Pids : \A k, x, l, y :
          Stage(r, k, p, x) /\ Stage(r, l, q, y) => k = l /\ p = q /\ x = y
    /\ r >= next_ref => \A p \in Pids : \A k, x : ~Stage(r, k, p, x)

\* A step that adds nothing to any stage.
Quiet == /\ \A p \in Pids : /\ \A r \in Refs : Downs(p, r)' = Downs(p, r)
                            /\ monitored_by'[p] \subseteq monitored_by[p]
                            /\ down_entries'[p] \subseteq down_entries[p]
                            /\ pc'[p] = "noproc" => pc[p] = "noproc" /\ ref'[p] = ref[p]
         /\ next_ref' = next_ref

LEMMA QuietStep == OneMonitor /\ Quiet => OneMonitor'
<1> SUFFICES ASSUME OneMonitor, Quiet PROVE OneMonitor'
  OBVIOUS
<1>1. ASSUME NEW r \in Refs, NEW k, NEW p \in Pids, NEW x, Stage(r, k, p, x)'
      PROVE  Stage(r, k, p, x)
  BY <1>1 DEF Stage, Quiet
<1> QED BY <1>1 DEF OneMonitor, Quiet

\* A signal of an end is no DOWN.
LEMMA SignalDowns ==
  ASSUME TypeOK, NEW from \in Pids \cup {Remote}, NEW why \in {"Normal", "Error"},
         NEW q \in Pids, SignalLinked(from, why, q)
  PROVE  \A p \in Pids : \A r \in Refs : Downs(p, r)' = Downs(p, r)
<1> DEFINE msg == [tag |-> "EXIT", ref |-> 0, pid |-> from, reason |-> why]
<1>1. msg \in Signals /\ msg.tag # "DOWN"
  BY SignalIsSignal
<1>2. CASE UNCHANGED mailbox
  BY <1>2 DEF Downs
<1>3. CASE Push(q, msg)
  BY <1>1, <1>3, PushDowns DEF TypeOK
<1> QED BY <1>2, <1>3, SignalPush

LEMMA MonitorStep == TypeOK /\ InCall /\ OneMonitor /\ [Next]_vars => OneMonitor'
<1> SUFFICES ASSUME TypeOK, InCall, OneMonitor, [Next]_vars PROVE OneMonitor'
  OBVIOUS
<1>1. ASSUME NEW p \in Pids, NEW q \in Pids, Link(p, q) PROVE OneMonitor'
  BY <1>1, QuietStep
     DEF Link, Quiet, Downs, Enter, Leave, Goto, Set, Runs, relation, call, ending, counters,
         TypeOK
<1>2. ASSUME NEW p \in Pids, LinkTarget(p) PROVE OneMonitor'
  BY <1>2, QuietStep
     DEF LinkTarget, Quiet, Downs, Enter, Leave, Goto, Set, Runs, relation, call, ending,
         counters, TypeOK
<1>3. ASSUME NEW p \in Pids, LinkRemote(p) PROVE OneMonitor'
  BY <1>3, QuietStep
     DEF LinkRemote, Quiet, Downs, Enter, Leave, Goto, Set, Runs, relation, call, ending,
         counters, TypeOK
<1>4. ASSUME NEW p \in Pids, TrapExit(p) PROVE OneMonitor'
  BY <1>4, QuietStep
     DEF TrapExit, Quiet, Downs, Enter, Leave, Goto, Set, Runs, relation, call, ending,
         counters, TypeOK
<1>5. ASSUME NEW p \in Pids, NEW q \in Pids, Monitor(p, q) PROVE OneMonitor'
  <2>1. /\ pc[p] = "body" /\ next_ref \in Refs /\ next_ref' = next_ref + 1
        /\ mailbox' = mailbox /\ down_entries' = down_entries
        /\ ref' = [ref EXCEPT ![p] = next_ref]
    BY <1>5 DEF Monitor, Runs, Enter, ending, Set
  <2>2. ASSUME NEW r \in Refs, r >= next_ref PROVE \A k, x : \A u \in Pids : ~Stage(r, k, u, x)
    BY <2>2 DEF OneMonitor
  <2>3. ASSUME NEW kind, NEW w \in Pids,
               \A r \in Refs : \A u \in Pids : \A k, x : Stage(r, k, u, x)' =>
                   Stage(r, k, u, x) \/ (r = next_ref /\ k = kind /\ u = w /\ x = p)
        PROVE  OneMonitor'
    <3>1. ASSUME NEW r \in Refs, r >= next_ref', NEW k, NEW u \in Pids, NEW x
          PROVE  ~Stage(r, k, u, x)'
      <4>1. r > next_ref
        BY <2>1, <3>1, BoundsAssumption DEF TypeOK
      <4>2. r >= next_ref /\ r # next_ref
        BY <2>1, <4>1, BoundsAssumption DEF TypeOK
      <4> QED BY <2>2, <2>3, <4>2
    <3>2. ASSUME NEW r \in Refs, NEW k, NEW u \in Pids, NEW x, Stage(r, k, u, x)',
                 NEW l, NEW v \in Pids, NEW y, Stage(r, l, v, y)'
          PROVE  k = l /\ u = v /\ x = y
      <4>1. CASE r = next_ref
        <5>1. r >= next_ref
          BY <4>1, BoundsAssumption DEF TypeOK
        <5> QED BY <2>2, <2>3, <3>2, <5>1
      <4>2. CASE r # next_ref
        BY <2>3, <3>2, <4>2 DEF OneMonitor
      <4> QED BY <4>1, <4>2
    <3> QED BY <3>1, <3>2 DEF OneMonitor
  <2>4. CASE state[q] = "Exited"
    <3>1. pc' = [pc EXCEPT ![p] = "noproc"] /\ monitored_by' = monitored_by
      BY <1>5, <2>4 DEF Monitor, Enter, Goto, Set
    <3>2. \A r \in Refs : \A u \in Pids : \A k, x : Stage(r, k, u, x)' =>
             Stage(r, k, u, x) \/ (r = next_ref /\ k = "noproc" /\ u = p /\ x = p)
      BY <2>1, <3>1 DEF Stage, Downs, TypeOK
    <3> QED BY <2>3, <3>2
  <2>5. CASE state[q] # "Exited"
    <3>1. /\ pc' = [pc EXCEPT ![p] = "monitoring"]
          /\ monitored_by' = [monitored_by EXCEPT ![q] = @ \cup {<<next_ref, p>>}]
      BY <1>5, <2>5 DEF Monitor, Enter, Goto, Set
    <3>2. \A r \in Refs : \A u \in Pids : \A x :
             <<r, x>> \in monitored_by'[u] =>
                 <<r, x>> \in monitored_by[u] \/ (r = next_ref /\ u = q /\ x = p)
      BY <3>1 DEF TypeOK
    <3>3. \A u \in Pids : pc'[u] = "noproc" => pc[u] = "noproc" /\ ref'[u] = ref[u]
      BY <2>1, <3>1 DEF TypeOK
    <3>4. \A r \in Refs : \A u \in Pids : \A k, x : Stage(r, k, u, x)' =>
             Stage(r, k, u, x) \/ (r = next_ref /\ k = "watched" /\ u = q /\ x = p)
      BY <2>1, <3>2, <3>3 DEF Stage, Downs
    <3> QED BY <2>3, <3>4
  <2> QED BY <2>4, <2>5
<1>6. ASSUME NEW p \in Pids, MonitorRecord(p) PROVE OneMonitor'
  BY <1>6, QuietStep
     DEF MonitorRecord, Quiet, Downs, Enter, Leave, Goto, Set, Runs, relation, call, ending,
         counters, TypeOK
<1>7. ASSUME NEW p \in Pids, MonitorNoproc(p) PROVE OneMonitor'
  <2> DEFINE msg == [tag |-> "DOWN", ref |-> ref[p], pid |-> target[p], reason |-> "noproc"]
  <2>1. /\ pc[p] = "noproc" /\ ref[p] \in Refs /\ next_ref' = next_ref
        /\ monitored_by' = monitored_by /\ down_entries' = down_entries
        /\ pc' = [pc EXCEPT ![p] = "body"]
        /\ ref' = [ref EXCEPT ![p] = 0]
    BY <1>7 DEF MonitorNoproc, InCall, Leave, Enter, Goto, Set, relation, ending, counters
  <2>2. msg \in Signals
    <3>1. target[p] \in Pids \cup {Remote}
      BY <2>1 DEF InCall
    <3> QED BY <2>1, <3>1, SignalIsSignal
  <2>3. \A u \in Pids : \A r \in Refs :
           Downs(u, r)' = IF u = p /\ r = ref[p] THEN Downs(u, r) \cup {Len(mailbox[p]) + 1}
                                                ELSE Downs(u, r)
    <3>1. Push(p, msg) /\ msg.tag = "DOWN" /\ msg.ref = ref[p]
      BY <1>7 DEF MonitorNoproc
    <3> HIDE DEF msg
    <3> QED BY <2>2, <3>1, PushDowns DEF TypeOK
  <2>4. ASSUME NEW r \in Refs, NEW k, NEW u \in Pids, NEW x, Stage(r, k, u, x)'
        PROVE  \/ Stage(r, k, u, x) /\ ~(r = ref[p] /\ k = "noproc" /\ u = p)
               \/ r = ref[p] /\ k = "told" /\ u = p /\ x = Len(mailbox[p]) + 1
    BY <2>1, <2>3, <2>4 DEF Stage, TypeOK
  <2>5. Stage(ref[p], "noproc", p, p)
    BY <2>1 DEF Stage
  <2> QED BY <2>1, <2>4, <2>5 DEF OneMonitor
<1>8. ASSUME NEW p \in Pids, Demonitor(p) PROVE OneMonitor'
  BY <1>8, QuietStep
     DEF Demonitor, Quiet, Downs, Enter, Leave, Goto, Set, Runs, relation, call, ending,
         counters, TypeOK
<1>9. ASSUME NEW p \in Pids, DemonitorTarget(p) PROVE OneMonitor'
  BY <1>9, QuietStep
     DEF DemonitorTarget, Quiet, Downs, Enter, Leave, Goto, Set, Runs, relation, call, ending,
         counters, TypeOK
<1>10. ASSUME NEW p \in Pids, RegisterName(p) PROVE OneMonitor'
  BY <1>10, QuietStep
     DEF RegisterName, Quiet, Downs, Enter, Leave, Goto, Set, Runs, relation, call, ending,
         counters, TypeOK
<1>11. ASSUME NEW p \in Pids, NEW q \in Pids, NEW why \in {"Killed", "Error"}, ActorExit(p, q, why)
      PROVE  OneMonitor'
  <2> DEFINE msg == [tag |-> "EXIT", ref |-> 0, pid |-> q, reason |-> why]
  <2>1. \A u \in Pids : \A r \in Refs : Downs(u, r)' = Downs(u, r)
    <3>1. CASE why # "Killed" /\ trap_exit[q]
      <4>1. msg \in Signals /\ msg.tag # "DOWN"
        BY <3>1, SignalIsSignal
      <4> QED BY <1>11, <3>1, <4>1, PushDowns DEF ActorExit, TypeOK
    <3>2. CASE ~(why # "Killed" /\ trap_exit[q])
      BY <1>11, <3>2 DEF ActorExit, Downs
    <3> QED BY <3>1, <3>2
  <2> QED BY <1>11, <2>1, QuietStep DEF ActorExit, Quiet, relation, call, ending
<1>12. ASSUME NEW p \in Pids, Yield(p) PROVE OneMonitor'
  BY <1>12, QuietStep
     DEF Yield, Quiet, Downs, Enter, Leave, Goto, Set, Runs, relation, call, ending, counters,
         TypeOK
<1>13. ASSUME NEW q \in Pids, NEW why \in {"Normal", "Error"}, RemoteExit(q, why)
       PROVE  OneMonitor'
  <2>1. \A u \in Pids : \A r \in Refs : Downs(u, r)' = Downs(u, r)
    <3>1. SignalLinked(Remote, why, q)
      BY <1>13 DEF RemoteExit
    <3> QED BY <3>1, SignalDowns
  <2> QED BY <1>13, <2>1, QuietStep DEF RemoteExit, Quiet, call, ending, counters
<1>14. ASSUME NEW p \in Pids, Return(p) PROVE OneMonitor'
  <2>1. /\ pc[p] = "body" /\ next_ref' = next_ref /\ mailbox' = mailbox /\ ref' = ref
        /\ monitored_by' = [monitored_by EXCEPT ![p] = {}]
        /\ down_entries' = [down_entries EXCEPT ![p] = monitored_by[p]]
        /\ pc' = [pc EXCEPT ![p] = "propagate"]
    BY <1>14 DEF Return, Runs, Goto, Set, counters
  <2>2. ASSUME NEW r \in Refs, NEW k, NEW u \in Pids, NEW x, Stage(r, k, u, x)'
        PROVE  \/ Stage(r, k, u, x) /\ ~(k \in {"watched", "due"} /\ u = p)
               \/ k = "due" /\ u = p /\ Stage(r, "watched", p, x)
    BY <2>1, <2>2 DEF Stage, Downs, TypeOK
  <2> QED BY <2>1, <2>2 DEF OneMonitor
<1>15. ASSUME NEW p \in Pids, PropagateExit(p) PROVE OneMonitor'
  <2>1. PICK q \in linked_pids[p] : SignalLinked(p, "Normal", q)
    BY <1>15 DEF PropagateExit
  <2>2. \A u \in Pids : \A r \in Refs : Downs(u, r)' = Downs(u, r)
    <3>1. q \in Pids
      BY DEF TypeOK
    <3> QED BY <2>1, <3>1, SignalDowns
  <2> QED BY <1>15, <2>2, QuietStep DEF PropagateExit, Quiet, call, counters
<1>16. ASSUME NEW p \in Pids, DeliverDown(p) PROVE OneMonitor'
  <2> DEFINE msg(d) == [tag |-> "DOWN", ref |-> d[1], pid |-> p, reason |-> "Normal"]
  <2>1. PICK d \in down_entries[p] : /\ down_entries' = [down_entries EXCEPT ![p] = @ \ {d}]
                                     /\ Push(d[2], msg(d))
    BY <1>16 DEF DeliverDown
  <2>2. d[1] \in Refs /\ d[2] \in Pids /\ d = <<d[1], d[2]>>
    BY DEF TypeOK
  <2>3. \A u \in Pids : \A r \in Refs :
           Downs(u, r)' = IF u = d[2] /\ r = d[1] THEN Downs(u, r) \cup {Len(mailbox[d[2]]) + 1}
                                                 ELSE Downs(u, r)
    <3>1. msg(d) \in Signals
      BY <2>2, SignalIsSignal
    <3>2. msg(d).tag = "DOWN" /\ msg(d).ref = d[1]
      OBVIOUS
    <3> HIDE DEF msg
    <3> QED BY <2>1, <2>2, <3>1, <3>2, PushDowns DEF TypeOK
  <2>4. UNCHANGED <<monitored_by, pc, ref, next_ref>>
    BY <1>16 DEF DeliverDown, call, counters
  <2>5. ASSUME NEW r \in Refs, NEW k, NEW u \in Pids, NEW x, Stage(r, k, u, x)'
        PROVE  \/ Stage(r, k, u, x) /\ ~(r = d[1] /\ k = "due" /\ u = p /\ x = d[2])
               \/ r = d[1] /\ k = "told" /\ u = d[2] /\ x = Len(mailbox[d[2]]) + 1
    BY <2>1, <2>2, <2>3, <2>4, <2>5 DEF Stage, TypeOK
  <2>6. Stage(d[1], "due", p, d[2])
    BY <2>1, <2>2 DEF Stage
  <2> QED BY <2>2, <2>4, <2>5, <2>6 DEF OneMonitor
<1>17. ASSUME NEW p \in Pids, TakeNames(p) PROVE OneMonitor'
  BY <1>17, QuietStep
     DEF TakeNames, Quiet, Downs, Enter, Leave, Goto, Set, Runs, relation, call, ending,
         counters, TypeOK
<1>18. ASSUME NEW p \in Pids, RemoveNames(p) PROVE OneMonitor'
  BY <1>18, QuietStep
     DEF RemoveNames, Quiet, Downs, Enter, Leave, Goto, Set, Runs, relation, call, ending,
         counters, TypeOK
<1>19. ASSUME NEW p \in Pids, MarkExited(p) PROVE OneMonitor'
  BY <1>19, QuietStep
     DEF MarkExited, Quiet, Downs, Enter, Leave, Goto, Set, Runs, relation, call, ending,
         counters, TypeOK
<1>20. CASE UNCHANGED vars
  BY <1>20, QuietStep DEF vars, Quiet, Downs, relation, call, ending, counters
<1> QED BY <1>1, <1>2, <1>3, <1>4, <1>5, <1>6, <1>7, <1>8, <1>9, <1>10, <1>11, <1>12, <1>13,
           <1>14, <1>15, <1>16, <1>17, <1>18, <1>19, <1>20
        DEF Next, Others, Carry, Calls, Continues, Ends
-----------------------------------------------------------------------------
\* A reference in one stage at most is delivered once, to one process, and is
\* then registered with nobody.
LEMMA OneMonitorOneDown == TypeOK /\ OneMonitor => DownAtMostOnce
<1> SUFFICES ASSUME TypeOK, OneMonitor, NEW r \in Refs
             PROVE  /\ \A p \in Pids : Cardinality(Downs(p, r)) <= 1
                    /\ \A p, q \in Pids : Downs(p, r) # {} /\ Downs(q, r) # {} => p = q
                    /\ \A p, q \in Pids : Downs(p, r) # {} =>
                                             <<r, p>> \notin monitored_by[q] \cup down_entries[q]
  BY DEF DownAtMostOnce
<1>1. ASSUME NEW p \in Pids PROVE Cardinality(Downs(p, r)) <= 1
  <2>1. CASE Downs(p, r) = {}
    BY <2>1, FS_EmptySet
  <2>2. CASE Downs(p, r) # {}
    <3>1. PICK i : i \in Downs(p, r)
      BY <2>2
    <3>2. \A j \in Downs(p, r) : j = i
      BY <3>1 DEF OneMonitor, Stage
    <3>3. Downs(p, r) = {i}
      BY <3>1, <3>2
    <3>4. Cardinality({i}) = 1
      BY FS_Singleton
    <3> QED BY <3>3, <3>4
  <2> QED BY <2>1, <2>2
<1>2. ASSUME NEW p \in Pids, NEW q \in Pids, Downs(p, r) # {}, Downs(q, r) # {} PROVE p = q
  <2>1. PICK i, j : Stage(r, "told", p, i) /\ Stage(r, "told", q, j)
    BY <1>2 DEF Stage
  <2> QED BY <2>1 DEF OneMonitor
<1>3. ASSUME NEW p \in Pids, NEW q \in Pids, Downs(p, r) # {}
      PROVE  <<r, p>> \notin monitored_by[q] \cup down_entries[q]
  <2>1. PICK i : Stage(r, "told", p, i)
    BY <1>3 DEF Stage
  <2>2. ~Stage(r, "watched", q, p) /\ ~Stage(r, "due", q, p)
    BY <2>1 DEF OneMonitor
  <2> QED BY <2>2 DEF Stage
<1> QED BY <1>1, <1>2, <1>3

\* A name is in the index of its owner or in the hands of its cleanup, and only
\* a cleanup that is between its two locks has names in its hands.
NamesTaken == /\ Reg!EveryNameIndexed
              /\ \A p \in Pids : removing[p] # {} => pc[p] = "names"

LEMMA NamesStep ==
  TypeOK /\ InCall /\ NamesTaken /\ [Next]_vars => NamesTaken'
<1> SUFFICES ASSUME TypeOK, InCall, NamesTaken, [Next]_vars
             PROVE  NamesTaken'
  OBVIOUS
<1> USE DEF NamesTaken, Reg!EveryNameIndexed, Enter, Leave, Goto, Set, Runs, registry
<1>1. ASSUME NEW p \in Pids, NEW q \in Pids, Link(p, q) PROVE NamesTaken'
  BY <1>1 DEF Link, TypeOK
<1>2. ASSUME NEW p \in Pids, LinkTarget(p) PROVE NamesTaken'
  BY <1>2 DEF LinkTarget, TypeOK
<1>3. ASSUME NEW p \in Pids, LinkRemote(p) PROVE NamesTaken'
  BY <1>3 DEF LinkRemote, call
<1>4. ASSUME NEW p \in Pids, TrapExit(p) PROVE NamesTaken'
  BY <1>4 DEF TrapExit, call
<1>5. ASSUME NEW p \in Pids, NEW q \in Pids, Monitor(p, q) PROVE NamesTaken'
  <2>1. PICK loc \in {"noproc", "monitoring"} : Enter(p, loc, q, next_ref)
    BY <1>5 DEF Monitor
  <2> QED BY <1>5, <2>1 DEF Monitor, TypeOK
<1>6. ASSUME NEW p \in Pids, MonitorRecord(p) PROVE NamesTaken'
  BY <1>6 DEF MonitorRecord, TypeOK
<1>7. ASSUME NEW p \in Pids, MonitorNoproc(p) PROVE NamesTaken'
  BY <1>7 DEF MonitorNoproc, TypeOK
<1>8. ASSUME NEW p \in Pids, Demonitor(p) PROVE NamesTaken'
  BY <1>8 DEF Demonitor, TypeOK
<1>9. ASSUME NEW p \in Pids, DemonitorTarget(p) PROVE NamesTaken'
  BY <1>9 DEF DemonitorTarget, TypeOK
<1>10. ASSUME NEW p \in Pids, RegisterName(p) PROVE NamesTaken'
  <2>1. PICK n \in Names, q \in Pids : Reg!Register(n, q)
    BY <1>10 DEF RegisterName
  <2>2. UNCHANGED pc
    BY <1>10 DEF RegisterName, call
  <2> QED BY <2>1, <2>2, PidsAssumption DEF Reg!Register, TypeOK, Reg!RegistryTypeOK
<1>11. ASSUME NEW p \in Pids, NEW q \in Pids, NEW why \in {"Killed", "Error"}, ActorExit(p, q, why)
      PROVE  NamesTaken'
  BY <1>11 DEF ActorExit, call
<1>12. ASSUME NEW p \in Pids, Yield(p) PROVE NamesTaken'
  BY <1>12 DEF Yield, call
<1>13. ASSUME NEW q \in Pids, NEW why \in {"Normal", "Error"}, RemoteExit(q, why)
       PROVE  NamesTaken'
  BY <1>13 DEF RemoteExit, call
<1>14. ASSUME NEW p \in Pids, Return(p) PROVE NamesTaken'
  BY <1>14 DEF Return, TypeOK
<1>15. ASSUME NEW p \in Pids, PropagateExit(p) PROVE NamesTaken'
  BY <1>15 DEF PropagateExit, call
<1>16. ASSUME NEW p \in Pids, DeliverDown(p) PROVE NamesTaken'
  BY <1>16 DEF DeliverDown, call
<1>17. ASSUME NEW p \in Pids, TakeNames(p) PROVE NamesTaken'
  <2>1. /\ pc[p] = "propagate" /\ names' = names
        /\ removing' = [removing EXCEPT ![p] = pid_names[p]]
        /\ pid_names' = [pid_names EXCEPT ![p] = {}]
        /\ pc' = [pc EXCEPT ![p] = "names"]
    BY <1>17 DEF TakeNames, Reg!CleanupTake
  <2>2. removing[p] = {}
    BY <2>1
  <2>3. /\ removing'[p] = pid_names[p] /\ pid_names'[p] = {} /\ pc'[p] = "names"
        /\ \A q \in Pids \ {p} : /\ removing'[q] = removing[q]
                                /\ pid_names'[q] = pid_names[q]
                                /\ pc'[q] = pc[q]
    BY <2>1 DEF TypeOK, Reg!RegistryTypeOK
  <2>4. ASSUME NEW n \in Names, names'[n] # NoPid
        PROVE  n \in pid_names'[names'[n]] \cup removing'[names'[n]]
    <3>1. names[n] \in Pids /\ n \in pid_names[names[n]] \cup removing[names[n]]
      BY <2>1, <2>4 DEF TypeOK, Reg!RegistryTypeOK
    <3> QED BY <2>1, <2>2, <2>3, <3>1
  <2> QED BY <2>3, <2>4
<1>18. ASSUME NEW p \in Pids, RemoveNames(p) PROVE NamesTaken'
  BY <1>18, PidsAssumption DEF RemoveNames, Reg!CleanupRemove, TypeOK, Reg!RegistryTypeOK
<1>19. ASSUME NEW p \in Pids, MarkExited(p) PROVE NamesTaken'
  BY <1>19 DEF MarkExited, TypeOK
<1>20. CASE UNCHANGED vars
  BY <1>20 DEF vars, call
<1> QED BY <1>1, <1>2, <1>3, <1>4, <1>5, <1>6, <1>7, <1>8, <1>9, <1>10, <1>11, <1>12, <1>13,
           <1>14, <1>15, <1>16, <1>17, <1>18, <1>19, <1>20
        DEF Next, Others, Carry, Calls, Continues, Ends

-----------------------------------------------------------------------------
LEMMA InitOK == Init => TypeOK /\ InCall /\ LinkSymmetric /\ LinkHalf /\ ToldByTheEnd
                             /\ OneMonitor /\ NamesTaken
<1> SUFFICES ASSUME Init PROVE TypeOK /\ InCall /\ LinkSymmetric /\ LinkHalf /\ ToldByTheEnd
                                      /\ OneMonitor /\ NamesTaken
  OBVIOUS
<1>1. TypeOK /\ InCall
  BY DEF Init, TypeOK, InCall, Reg!RegistryInit, Reg!RegistryTypeOK
<1>2. LinkSymmetric /\ LinkHalf
  BY DEF Init, LinkSymmetric, LinkHalf
<1>3. \A p \in Pids : mailbox[p] = << >> /\ DOMAIN mailbox[p] = {}
  BY DEF Init
<1>4. ToldByTheEnd
  BY <1>3 DEF ToldByTheEnd, ExitsFrom, Received
<1>5. OneMonitor
  BY <1>3 DEF Init, OneMonitor, Stage, Downs
<1>6. NamesTaken
  BY DEF Init, Reg!RegistryInit, NamesTaken, Reg!EveryNameIndexed
<1> QED BY <1>1, <1>2, <1>4, <1>5, <1>6

\* Every variable keeps its type, whatever runs between the locks.
THEOREM TypeCorrect == Spec => [](TypeOK /\ InCall)
BY InitOK, TypeStep, PTL DEF Spec

\* Links have two sides, whoever is told of an end is told of a true one, and a
\* monitor reference is delivered once, to one process, whatever mesh_actor_link,
\* mesh_process_monitor, mesh_process_demonitor, mesh_actor_exit and
\* handle_process_exit interleave between their locks.
THEOREM EndsTold == Spec => []EndsAreTold
<1>1. Spec => [](TypeOK /\ InCall)
  BY TypeCorrect
<1>2. Spec => [](LinkSymmetric /\ LinkHalf)
  BY <1>1, InitOK, LinkStep, PTL DEF Spec
<1>3. Spec => []ToldByTheEnd
  BY <1>1, InitOK, ToldStep, PTL DEF Spec
<1>4. Spec => []OneMonitor
  BY <1>1, InitOK, MonitorStep, PTL DEF Spec
<1>5. TypeOK /\ LinkSymmetric /\ ToldByTheEnd /\ OneMonitor => EndsAreTold
  BY OneMonitorOneDown DEF EndsAreTold
<1> QED BY <1>1, <1>2, <1>3, <1>4, <1>5, PTL

\* A process that is marked Exited has left no name behind that was its own
\* when its cleanup took the index entry, whoever registers what for whom between
\* the locks of cleanup_process and after them.
THEOREM NamesFreed == Spec => []NamesAreFreed
<1>1. Spec => [](TypeOK /\ InCall)
  BY TypeCorrect
<1>2. Spec => []NamesTaken
  BY <1>1, InitOK, NamesStep, PTL DEF Spec
<1>3. TypeOK /\ NamesTaken => NamesAreFreed
  <2> SUFFICES ASSUME TypeOK, NamesTaken, NEW p \in Pids, pc[p] \in {"mark", "gone"},
                      NEW n \in Names, names[n] = p
               PROVE  n \in pid_names[p]
    BY DEF NamesAreFreed
  <2>1. removing[p] = {}
    BY DEF NamesTaken
  <2> QED BY <2>1, PidsAssumption DEF NamesTaken, Reg!EveryNameIndexed
<1> QED BY <1>1, <1>2, <1>3, PTL
=============================================================================
