---------------------------- MODULE ActorProofs ----------------------------
(***************************************************************************)
(* Proofs about the actor runtime: the scheduler, for any finite set of    *)
(* actors, any set of workers, any kinds of receives and any bound on      *)
(* sends and kills, and the process registry, for any sets of names and    *)
(* processes and any set of names that are unregistered.                   *)
(*                                                                         *)
(* The inductive invariant of the scheduler adds to what is promised: a    *)
(* coroutine in a receive knows of which kind it is (else nobody knows     *)
(* where a null takes it), a process that was not spawned has not moved    *)
(* (else it could be counted as finished), and a pass of phase 1 visits no *)
(* more than what is suspended (else it would take the head of an empty    *)
(* queue). That nothing is lost and that the counter is exact need each    *)
(* other: only a process that is in one place is counted once, and only an *)
(* exact counter is never decremented below zero.                          *)
(***************************************************************************)
EXTENDS Scheduler, Registry, FiniteSetTheorems, SequenceTheorems, TLAPS

\* A coroutine that is inside a receive knows of which kind it is.
InReceive == \A p \in Actors :
    pc[p] \in {"block", "parked", "resumed", "empty", "scan"} => kind[p] # "none"

\* A process that was not spawned has not moved.
Unborn == \A p \in Actors : state[p] = "none" => pc[p] = "body"

\* A pass of phase 1 visits no more than what is suspended.
LeftWithin == \A w \in Workers : left[w] <= Len(suspended[w])

Shape == InReceive /\ Unborn /\ LeftWithin /\ WaitingIsParked

IInv == TypeOK /\ Shape /\ OnePlace /\ ActiveCountExact /\ StoppedHoldsNothing

-----------------------------------------------------------------------------
(* Queues without repetition.                                              *)

Distinct(s) == \A i, j \in DOMAIN s : s[i] = s[j] => i = j

\* Appending to a queue adds one element, and repeats none if it is new.
LEMMA Appended ==
  ASSUME NEW s \in Seq(Actors), NEW p \in Actors
  PROVE  /\ Append(s, p) \in Seq(Actors)
         /\ Len(Append(s, p)) = Len(s) + 1
         /\ Range2(Append(s, p)) = Range2(s) \cup {p}
         /\ Distinct(s) /\ p \notin Range2(s) => Distinct(Append(s, p))
<1> DEFINE t == Append(s, p)
<1>1. /\ t \in Seq(Actors)
      /\ Len(t) = Len(s) + 1
      /\ DOMAIN t = 1 .. Len(s) + 1
      /\ DOMAIN s = 1 .. Len(s)
      /\ Len(s) \in Nat
      /\ \A i \in 1 .. Len(s) : t[i] = s[i]
      /\ t[Len(s) + 1] = p
  BY AppendProperties, LenProperties
<1> HIDE DEF t
<1>2. Range2(t) = Range2(s) \cup {p}
  BY <1>1 DEF Range2
<1>3. Distinct(s) /\ p \notin Range2(s) => Distinct(t)
  BY <1>1 DEF Range2, Distinct
<1> QED BY <1>1, <1>2, <1>3 DEF t

\* Taking the head from a queue without repetition removes that element.
LEMMA HeadTaken ==
  ASSUME NEW s \in Seq(Actors), s # <<>>
  PROVE  /\ Head(s) \in Actors
         /\ Tail(s) \in Seq(Actors)
         /\ Len(Tail(s)) = Len(s) - 1
         /\ Range2(s) = Range2(Tail(s)) \cup {Head(s)}
         /\ Distinct(s) => Distinct(Tail(s)) /\ Head(s) \notin Range2(Tail(s))
<1> DEFINE t == Tail(s)
<1>1. /\ t \in Seq(Actors)
      /\ Head(s) \in Actors
      /\ Len(t) = Len(s) - 1
      /\ Len(s) \in Nat /\ Len(s) > 0
      /\ DOMAIN t = 1 .. Len(s) - 1
      /\ DOMAIN s = 1 .. Len(s)
      /\ \A i \in 1 .. Len(s) - 1 : t[i] = s[i + 1]
      /\ Head(s) = s[1]
  BY HeadTailProperties, LenProperties, EmptySeq
<1> HIDE DEF t
<1>2. Range2(s) = Range2(t) \cup {Head(s)}
  <2>1. ASSUME NEW x \in Range2(s) PROVE x \in Range2(t) \cup {Head(s)}
    <3>1. PICK i \in 1 .. Len(s) : x = s[i]
      BY <1>1 DEF Range2
    <3>2. i # 1 => i - 1 \in 1 .. Len(s) - 1 /\ s[(i - 1) + 1] = s[i]
      BY <1>1
    <3> QED BY <1>1, <3>1, <3>2 DEF Range2
  <2>2. ASSUME NEW x \in Range2(t) PROVE x \in Range2(s)
    <3>1. PICK i \in 1 .. Len(s) - 1 : x = t[i]
      BY <1>1 DEF Range2
    <3>2. i + 1 \in 1 .. Len(s) /\ x = s[i + 1]
      BY <1>1, <3>1
    <3> QED BY <1>1, <3>2 DEF Range2
  <2>3. Head(s) \in Range2(s)
    <3>1. 1 \in DOMAIN s
      BY <1>1
    <3> QED BY <1>1, <3>1 DEF Range2
  <2> QED BY <2>1, <2>2, <2>3
<1>3. Distinct(s) => Distinct(t) /\ Head(s) \notin Range2(t)
  <2> SUFFICES ASSUME Distinct(s) PROVE Distinct(t) /\ Head(s) \notin Range2(t)
    OBVIOUS
  <2>1. \A i \in 1 .. Len(s) - 1 : i + 1 \in 1 .. Len(s) /\ i + 1 # 1
    BY <1>1
  <2>2. Head(s) \notin Range2(t)
    BY <1>1, <2>1 DEF Range2, Distinct
  <2>3. ASSUME NEW i \in DOMAIN t, NEW j \in DOMAIN t, t[i] = t[j] PROVE i = j
    <3>1. s[i + 1] = s[j + 1] /\ i + 1 \in DOMAIN s /\ j + 1 \in DOMAIN s
      BY <1>1, <2>1, <2>3
    <3>2. i + 1 = j + 1
      BY <3>1 DEF Distinct
    <3> QED BY <1>1, <3>2
  <2> QED BY <2>2, <2>3 DEF Distinct
<1> QED BY <1>1, <1>2, <1>3 DEF t

-----------------------------------------------------------------------------
(* The places a process can be in.                                         *)

Held == injector \cup (UNION {SuspendedOn(w) : w \in Workers})
                 \cup ({running[w] : w \in Workers} \ {NoActor})

\* OnePlace, with the queues as sets.
Placed ==
    /\ \A w \in Workers : Distinct(suspended[w])
    /\ \A v, w \in Workers : v # w => SuspendedOn(v) \cap SuspendedOn(w) = {}
    /\ \A v, w \in Workers : v # w => running[v] # running[w] \/ running[v] = NoActor
    /\ \A v, w \in Workers : running[v] \notin SuspendedOn(w) \cup injector
    /\ \A w \in Workers : SuspendedOn(w) \cap injector = {}
    /\ Active = Held

LEMMA OnePlaceIs == (OnePlace => Placed) /\ (Placed' => OnePlace')
<1> HIDE DEF Active, SuspendedOn
<1> QED BY DEF OnePlace, Placed, Distinct, Held

\* A place holds active processes only.
LEMMA HeldActive ==
  ASSUME IInv
  PROVE  /\ injector \subseteq Active
         /\ \A w \in Workers : SuspendedOn(w) \subseteq Active
         /\ \A w \in Workers : running[w] # NoActor => running[w] \in Active
<1>1. Active = Held
  BY OnePlaceIs DEF IInv, Placed
<1>2. \A w \in Workers : SuspendedOn(w) \subseteq Held
  <2> HIDE DEF SuspendedOn
  <2> QED BY Zenon DEF Held
<1> QED BY <1>1, <1>2 DEF Held

LEMMA ActiveFinite == IsFiniteSet(Active) /\ Active \subseteq Actors /\ Cardinality(Active) \in Nat
<1>1. Active \subseteq Actors
  BY DEF Active, Spawned
<1> QED BY <1>1, SetsAssumption, FS_Subset, FS_CardinalityType

\* While a process is anywhere the counter is not zero.
LEMMA Counted ==
  ASSUME IInv, NEW p \in Active
  PROVE  active_count \in Nat /\ active_count > 0
<1>1. Cardinality(Active) # 0
  BY ActiveFinite, FS_EmptySet
<1> QED BY <1>1, ActiveFinite DEF IInv, ActiveCountExact

\* A process that runs code was spawned.
LEMMA RunningSpawned ==
  ASSUME IInv, NEW w \in Workers, NEW p \in Actors, running[w] = p
  PROVE  state[p] # "none" /\ p \in Active
<1>1. p \in Active
  BY HeldActive, SetsAssumption
<1> QED BY <1>1 DEF Active, Spawned

-----------------------------------------------------------------------------
(* Steps.                                                                  *)

\* A receive that returns null goes on in the body, ends the loop of a service,
\* or faults.
LEMMA Returned ==
  ASSUME TypeOK, InReceive, NEW p \in Actors, ReturnNull(p), pc[p] \in {"empty", "scan"}
  PROVE  /\ pc' \in [Actors -> {"body", "block", "parked", "resumed", "empty", "scan",
                                "ending", "fault", "done"}]
         /\ pc'[p] \in {"body", "ending", "fault"}
         /\ \A q \in Actors \ {p} : pc'[q] = pc[q]
<1>1. kind[p] \in {"timed", "service", "forever"}
  BY KindsAssumption DEF TypeOK, InReceive
<1>2. \E loc \in {"body", "ending", "fault"} : Goto(p, loc)
  BY <1>1 DEF ReturnNull
<1> QED BY <1>2 DEF TypeOK, Goto

\* A step of the system, action by action.
LEMMA Steps ==
  ASSUME [Next]_vars
  PROVE  \/ \E q \in Actors : Spawn(q)
         \/ \E q \in Actors : LocalSend(q)
         \/ SignalShutdown
         \/ \E p \in Actors : Deadline(p)
         \/ \E w \in Workers :
               \/ \E q \in Actors : ActorExit(q)
               \/ ReceiveNow(w) \/ ReceiveEmpty(w) \/ Complete(w) \/ SetWaiting(w) \/ RetryPop(w)
               \/ TimedOut(w) \/ BlockAgain(w) \/ ScanOthers(w) \/ ScanOther(w) \/ NoOthers(w)
               \/ SkipWaiting(w) \/ Resume(w) \/ EndResume(w) \/ TakeRequest(w) \/ NoRequest(w)
               \/ Yield(w) \/ Retire(w) \/ NoShutdown(w) \/ Stop(w) \/ CheckSuspended(w)
               \/ HasReady(w) \/ StartWake(w) \/ WakeSuspended(w) \/ EndWake(w)
         \/ UNCHANGED vars
BY Zenon DEF Next, MainSpawn, OutsideSend, Calls, ActorSpawn, ActorSend, ActorKill, Settles,
   Runtime

\* What a pass of phase 1 has still to visit is there.
LEMMA Queued ==
  ASSUME TypeOK, LeftWithin, NEW w \in Workers, left[w] > 0
  PROVE  suspended[w] # <<>> /\ suspended[w] \in Seq(Actors)
BY EmptySeq DEF TypeOK, LeftWithin

-----------------------------------------------------------------------------
\* Every step keeps the types: what phase 1 visits is there, and the counter is
\* not decremented below zero.
LEMMA TypeStep == ASSUME IInv, [Next]_vars PROVE TypeOK'
<1>i. TypeOK /\ LeftWithin
  BY DEF IInv, Shape
<1>1. ASSUME NEW q \in Actors, Spawn(q) PROVE TypeOK'
  BY <1>1, <1>i DEF Spawn, TypeOK, At, SetState, Goto, WGoto, coroutines, worker, global
<1>2. ASSUME NEW q \in Actors, LocalSend(q) PROVE TypeOK'
  <2>1. mailbox' \in [Actors -> Nat]
    BY <1>2, <1>i DEF LocalSend, TypeOK
  <2>2. state' \in [Actors -> {"none", "Ready", "Running", "Waiting", "Exited"}]
    BY <1>2, <1>i DEF LocalSend, TypeOK, SetState
  <2> QED BY <2>1, <2>2, <1>2, <1>i DEF LocalSend, TypeOK, coroutines, worker
<1>3. ASSUME SignalShutdown PROVE TypeOK'
  BY <1>3, <1>i
     DEF SignalShutdown, TypeOK, At, SetState, Goto, WGoto, coroutines, worker, global
<1>4. ASSUME NEW p \in Actors, Deadline(p) PROVE TypeOK'
  BY <1>4, <1>i DEF Deadline, TypeOK, At, SetState, Goto, WGoto, coroutines, worker, global
<1>5. ASSUME NEW q \in Actors, ActorExit(q) PROVE TypeOK'
  BY <1>5, <1>i DEF ActorExit, TypeOK, At, SetState, Goto, WGoto, coroutines, worker, global
<1>6. ASSUME NEW w \in Workers, ReceiveNow(w) PROVE TypeOK'
  BY <1>6, <1>i DEF ReceiveNow, TypeOK, At, SetState, Goto, WGoto, coroutines, worker, global
<1>7. ASSUME NEW w \in Workers, ReceiveEmpty(w) PROVE TypeOK'
  BY <1>7, <1>i DEF ReceiveEmpty, TypeOK, At, SetState, Goto, WGoto, coroutines, worker, global
<1>8. ASSUME NEW w \in Workers, Complete(w) PROVE TypeOK'
  BY <1>8, <1>i DEF Complete, TypeOK, At, SetState, Goto, WGoto, coroutines, worker, global
<1>9. ASSUME NEW w \in Workers, SetWaiting(w) PROVE TypeOK'
  BY <1>9, <1>i DEF SetWaiting, TypeOK, At, SetState, Goto, WGoto, coroutines, worker, global
<1>10. ASSUME NEW w \in Workers, RetryPop(w) PROVE TypeOK'
  <2>1. PICK p \in Actors : pc[p] = "resumed" /\ RetryPop(w)!(p)
    BY <1>10 DEF RetryPop, At
  <2>2. CASE mailbox[p] > 0
    <3>1. mailbox' \in [Actors -> Nat]
      <4>1. mailbox \in [Actors -> Nat] /\ mailbox[p] - 1 \in Nat
        BY <2>2, <1>i DEF TypeOK
      <4>2. mailbox' = [mailbox EXCEPT ![p] = mailbox[p] - 1]
        BY <2>1, <2>2
      <4> QED BY <4>1, <4>2
    <3>2. kind' \in [Actors -> Kinds \cup {"none"}] /\ late' \in [Actors -> BOOLEAN]
      BY <2>1, <2>2, <1>i DEF TypeOK
    <3> QED BY <3>1, <3>2, <2>1, <2>2, <1>i DEF TypeOK, Goto, worker, global
  <2>3. CASE ~(mailbox[p] > 0)
    BY <2>1, <2>3, <1>i DEF TypeOK, Goto, worker, global
  <2> QED BY <2>2, <2>3
<1>11. ASSUME NEW w \in Workers, TimedOut(w) PROVE TypeOK'
  BY <1>11, <1>i
     DEF TimedOut, ReturnNull, TypeOK, At, SetState, Goto, WGoto, coroutines, worker, global
<1>12. ASSUME NEW w \in Workers, BlockAgain(w) PROVE TypeOK'
  BY <1>12, <1>i DEF BlockAgain, TypeOK, At, SetState, Goto, WGoto, coroutines, worker, global
<1>13. ASSUME NEW w \in Workers, ScanOthers(w) PROVE TypeOK'
  <2>1. Spawned \subseteq Actors
    BY DEF Spawned
  <2> HIDE DEF Spawned
  <2>2. PICK p \in Actors : unseen' = [unseen EXCEPT ![w] = Spawned \ {p}] /\ Goto(p, "scan")
    BY <1>13 DEF ScanOthers
  <2>3. unseen' \in [Workers -> SUBSET Actors]
    BY <2>1, <2>2, <1>i DEF TypeOK
  <2> QED BY <1>13, <2>2, <2>3, <1>i DEF ScanOthers, TypeOK, Goto, global
<1>14. ASSUME NEW w \in Workers, ScanOther(w) PROVE TypeOK'
  <2>1. PICK p \in Actors, q \in unseen[w] :
           IF Idle(q)
           THEN unseen' = [unseen EXCEPT ![w] = @ \ {q}] /\ UNCHANGED pc
           ELSE unseen' = [unseen EXCEPT ![w] = {}] /\ Goto(p, "block")
    BY <1>14 DEF ScanOther
  <2>2. unseen' \in [Workers -> SUBSET Actors]
    <3>1. unseen[w] \ {q} \subseteq Actors
      BY <1>i DEF TypeOK
    <3>2. \E S \in SUBSET Actors : unseen' = [unseen EXCEPT ![w] = S]
      BY <2>1, <3>1
    <3> QED BY <3>2, <1>i DEF TypeOK
  <2>3. pc' \in [Actors -> {"body", "block", "parked", "resumed", "empty", "scan",
                           "ending", "fault", "done"}]
    BY <2>1, <1>i DEF TypeOK, Goto
  <2> QED BY <1>14, <2>2, <2>3, <1>i DEF ScanOther, TypeOK, global
<1>15. ASSUME NEW w \in Workers, NoOthers(w) PROVE TypeOK'
  <2>1. PICK p \in Actors : pc[p] = "scan" /\ ReturnNull(p) /\ UNCHANGED <<mailbox, worker, global>>
    BY <1>15 DEF NoOthers, At
  <2>2. pc' \in [Actors -> {"body", "block", "parked", "resumed", "empty", "scan",
                           "ending", "fault", "done"}]
    BY <2>1, <1>i, Returned DEF IInv, Shape
  <2> QED BY <2>1, <2>2, <1>i DEF ReturnNull, TypeOK, SetState, worker, global
<1>16. ASSUME NEW w \in Workers, SkipWaiting(w) PROVE TypeOK'
  <2>1. suspended[w] # <<>> /\ suspended[w] \in Seq(Actors)
    BY <1>16, <1>i, Queued DEF SkipWaiting
  <2>2. Append(Tail(suspended[w]), Head(suspended[w])) \in Seq(Actors)
    BY <2>1, HeadTaken, Appended
  <2>3. suspended' \in [Workers -> Seq(Actors)]
    BY <2>2, <1>16, <1>i DEF SkipWaiting, TypeOK
  <2>4. left' \in [Workers -> Nat]
    BY <1>16, <1>i DEF SkipWaiting, TypeOK
  <2> QED BY <2>3, <2>4, <1>16, <1>i DEF SkipWaiting, TypeOK, coroutines, global
<1>17. ASSUME NEW w \in Workers, Resume(w) PROVE TypeOK'
  <2>1. suspended[w] # <<>> /\ suspended[w] \in Seq(Actors)
    BY <1>17, <1>i, Queued DEF Resume
  <2>2. Tail(suspended[w]) \in Seq(Actors) /\ Head(suspended[w]) \in Actors
    BY <2>1, HeadTaken
  <2>3. suspended' \in [Workers -> Seq(Actors)]
    BY <2>2, <1>17, <1>i DEF Resume, TypeOK
  <2>4. left' \in [Workers -> Nat]
    BY <1>17, <1>i DEF Resume, TypeOK
  <2>5. running' \in [Workers -> Actors \cup {NoActor}]
    BY <2>2, <1>17, <1>i DEF Resume, TypeOK
  <2>6. pc' \in [Actors -> {"body", "block", "parked", "resumed", "empty", "scan",
                           "ending", "fault", "done"}]
    <3>1. pc' = [pc EXCEPT ![Head(suspended[w])] = "resumed"] \/ pc' = pc
      BY <1>17 DEF Resume, Goto
    <3> QED BY <3>1, <1>i DEF TypeOK
  <2> QED BY <2>3, <2>4, <2>5, <2>6, <1>17, <1>i DEF Resume, TypeOK, global
<1>18. ASSUME NEW w \in Workers, EndResume(w) PROVE TypeOK'
  BY <1>18, <1>i DEF EndResume, TypeOK, At, SetState, Goto, WGoto, coroutines, worker, global
<1>19. ASSUME NEW w \in Workers, TakeRequest(w) PROVE TypeOK'
  BY <1>19, <1>i DEF TakeRequest, TypeOK, At, SetState, Goto, WGoto, coroutines, worker, global
<1>20. ASSUME NEW w \in Workers, NoRequest(w) PROVE TypeOK'
  BY <1>20, <1>i DEF NoRequest, TypeOK, At, SetState, Goto, WGoto, coroutines, worker, global
<1>21. ASSUME NEW w \in Workers, Yield(w) PROVE TypeOK'
  BY <1>21, <1>i
     DEF Yield, NextPhase, TypeOK, At, SetState, Goto, WGoto, coroutines, worker, global
<1>22. ASSUME NEW w \in Workers, Retire(w) PROVE TypeOK'
  <2>1. PICK p \in Actors : running[w] = p
    BY <1>22 DEF Retire, At
  <2>2. active_count' \in Nat
    BY <2>1, <1>22, RunningSpawned, Counted DEF Retire
  <2> QED BY <2>2, <1>22, <1>i DEF Retire, NextPhase, TypeOK, WGoto, coroutines
<1>23. ASSUME NEW w \in Workers, NoShutdown(w) PROVE TypeOK'
  BY <1>23, <1>i
     DEF NoShutdown, Pass, TypeOK, At, SetState, Goto, WGoto, coroutines, worker, global
<1>24. ASSUME NEW w \in Workers, Stop(w) PROVE TypeOK'
  BY <1>24, <1>i DEF Stop, TypeOK, At, SetState, Goto, WGoto, coroutines, worker, global
<1>25. ASSUME NEW w \in Workers, CheckSuspended(w) PROVE TypeOK'
  <2>1. Spawned \subseteq Actors /\ Len(suspended[w]) \in Nat
    BY <1>i, LenProperties DEF Spawned, TypeOK
  <2> HIDE DEF Spawned
  <2>2. unseen' \in [Workers -> SUBSET Actors]
    BY <2>1, <1>25, <1>i DEF CheckSuspended, Pass, TypeOK
  <2>3. /\ left' \in [Workers -> Nat]
        /\ wpc' \in [Workers -> {"resume", "spawn", "check", "scan", "wake", "stopped"}]
    BY <2>1, <1>25, <1>i DEF CheckSuspended, Pass, TypeOK, WGoto
  <2> QED BY <2>2, <2>3, <1>25, <1>i DEF CheckSuspended, TypeOK, coroutines, global
<1>26. ASSUME NEW w \in Workers, HasReady(w) PROVE TypeOK'
  <2>1. PICK q \in unseen[w] :
           IF Idle(q)
           THEN unseen' = [unseen EXCEPT ![w] = @ \ {q}] /\ UNCHANGED <<wpc, left>>
           ELSE unseen' = [unseen EXCEPT ![w] = {}] /\ Pass(w)
    BY <1>26 DEF HasReady
  <2>2. unseen' \in [Workers -> SUBSET Actors]
    <3>1. unseen[w] \ {q} \subseteq Actors
      BY <1>i DEF TypeOK
    <3>2. \E S \in SUBSET Actors : unseen' = [unseen EXCEPT ![w] = S]
      BY <2>1, <3>1
    <3> QED BY <3>2, <1>i DEF TypeOK
  <2>3. Len(suspended[w]) \in Nat
    BY <1>i, LenProperties DEF TypeOK
  <2>4. /\ left' \in [Workers -> Nat]
        /\ wpc' \in [Workers -> {"resume", "spawn", "check", "scan", "wake", "stopped"}]
    BY <2>1, <2>3, <1>i DEF Pass, TypeOK, WGoto
  <2> QED BY <2>2, <2>4, <1>26, <1>i DEF HasReady, TypeOK, coroutines, global
<1>27. ASSUME NEW w \in Workers, StartWake(w) PROVE TypeOK'
  <2>1. Range2(suspended[w]) \subseteq Actors
    BY <1>i, LenProperties DEF TypeOK, Range2
  <2> HIDE DEF Range2
  <2>2. unseen' \in [Workers -> SUBSET Actors]
    BY <2>1, <1>27, <1>i DEF StartWake, TypeOK
  <2> QED BY <2>2, <1>27, <1>i DEF StartWake, TypeOK, WGoto, coroutines, global
<1>28. ASSUME NEW w \in Workers, WakeSuspended(w) PROVE TypeOK'
  BY <1>28, <1>i
     DEF WakeSuspended, TypeOK, At, SetState, Goto, WGoto, coroutines, worker, global
<1>29. ASSUME NEW w \in Workers, EndWake(w) PROVE TypeOK'
  BY <1>29, <1>i
     DEF EndWake, Pass, TypeOK, At, SetState, Goto, WGoto, coroutines, worker, global
<1>30. CASE UNCHANGED vars
  BY <1>30, <1>i DEF vars, TypeOK, At, SetState, Goto, WGoto, coroutines, worker, global
<1> QED BY <1>1, <1>2, <1>3, <1>4, <1>5, <1>6, <1>7, <1>8, <1>9, <1>10, <1>11, <1>12, <1>13,
           <1>14, <1>15, <1>16, <1>17, <1>18, <1>19, <1>20, <1>21, <1>22, <1>23, <1>24, <1>25,
           <1>26, <1>27, <1>28, <1>29, <1>30, Steps

\* A new pass visits everything that is suspended.
LEMMA Refilled ==
  ASSUME TypeOK, Shape, NEW w \in Workers, UNCHANGED <<state, pc, kind, suspended>>,
         left' = left \/ left' = [left EXCEPT ![w] = Len(suspended[w])]
  PROVE  Shape'
<1>1. Len(suspended[w]) \in Nat
  BY LenProperties DEF TypeOK
<1>2. LeftWithin'
  <2> SUFFICES ASSUME NEW v \in Workers PROVE left'[v] <= Len(suspended[v])
    BY DEF LeftWithin
  <2>1. left'[v] = left[v] \/ (v = w /\ left'[v] = Len(suspended[v]))
    BY DEF TypeOK
  <2> QED BY <1>1, <2>1 DEF Shape, LeftWithin
<1>3. InReceive' /\ Unborn' /\ WaitingIsParked'
  BY DEF Shape, InReceive, Unborn, WaitingIsParked
<1> QED BY <1>2, <1>3 DEF Shape

-----------------------------------------------------------------------------
\* Every step keeps what a coroutine's position says about its process: it is
\* set to Waiting only where it parks, and resumed only when it is not.
LEMMA ShapeStep == ASSUME IInv, [Next]_vars PROVE Shape'
<1>i. TypeOK /\ InReceive /\ Unborn /\ LeftWithin /\ WaitingIsParked
  BY DEF IInv, Shape
<1>t. TypeOK'
  BY TypeStep
<1>1. ASSUME NEW q \in Actors, Spawn(q) PROVE Shape'
  BY <1>1, <1>i, <1>t
     DEF Spawn, TypeOK, Shape, InReceive, Unborn, LeftWithin, WaitingIsParked, Spawned, At,
         SetState, Goto, WGoto, coroutines, worker, global
<1>2. ASSUME NEW q \in Actors, LocalSend(q) PROVE Shape'
  BY <1>2, <1>i, <1>t
     DEF LocalSend, TypeOK, Shape, InReceive, Unborn, LeftWithin, WaitingIsParked, Spawned, At,
         SetState, Goto, WGoto, coroutines, worker, global
<1>3. ASSUME SignalShutdown PROVE Shape'
  BY <1>3, <1>i, <1>t
     DEF SignalShutdown, TypeOK, Shape, InReceive, Unborn, LeftWithin, WaitingIsParked,
         Spawned, At, SetState, Goto, WGoto, coroutines, worker, global
<1>4. ASSUME NEW p \in Actors, Deadline(p) PROVE Shape'
  BY <1>4, <1>i, <1>t
     DEF Deadline, TypeOK, Shape, InReceive, Unborn, LeftWithin, WaitingIsParked, Spawned, At,
         SetState, Goto, WGoto, coroutines, worker, global
<1>5. ASSUME NEW q \in Actors, ActorExit(q) PROVE Shape'
  BY <1>5, <1>i, <1>t
     DEF ActorExit, TypeOK, Shape, InReceive, Unborn, LeftWithin, WaitingIsParked, Spawned, At,
         SetState, Goto, WGoto, coroutines, worker, global
<1>6. ASSUME NEW w \in Workers, ReceiveNow(w) PROVE Shape'
  BY <1>6, <1>i, <1>t
     DEF ReceiveNow, TypeOK, Shape, InReceive, Unborn, LeftWithin, WaitingIsParked, Spawned,
         At, SetState, Goto, WGoto, coroutines, worker, global
<1>7. ASSUME NEW w \in Workers, ReceiveEmpty(w) PROVE Shape'
  <2>1. PICK p \in Actors, k \in Kinds :
           /\ At(w, p, "body") /\ Goto(p, "block") /\ kind' = [kind EXCEPT ![p] = k]
           /\ UNCHANGED <<state, mailbox, late, worker, global>>
    BY <1>7 DEF ReceiveEmpty
  <2>2. state[p] # "none" /\ k # "none"
    BY <2>1, RunningSpawned, KindsAssumption DEF At
  <2> QED BY <2>1, <2>2, <1>i DEF TypeOK, Shape, InReceive, Unborn, LeftWithin, WaitingIsParked,
             At, Goto, worker
<1>8. ASSUME NEW w \in Workers, Complete(w) PROVE Shape'
  BY <1>8, <1>i, <1>t
     DEF Complete, TypeOK, Shape, InReceive, Unborn, LeftWithin, WaitingIsParked, Spawned, At,
         SetState, Goto, WGoto, coroutines, worker, global
<1>9. ASSUME NEW w \in Workers, SetWaiting(w) PROVE Shape'
  BY <1>9, <1>i, <1>t
     DEF SetWaiting, TypeOK, Shape, InReceive, Unborn, LeftWithin, WaitingIsParked, Spawned,
         At, SetState, Goto, WGoto, coroutines, worker, global
<1>10. ASSUME NEW w \in Workers, RetryPop(w) PROVE Shape'
  <2>1. PICK p \in Actors : pc[p] = "resumed" /\ RetryPop(w)!(p)
    BY <1>10 DEF RetryPop, At
  <2>2. UNCHANGED <<state, suspended, left>>
    BY <1>10 DEF RetryPop, worker
  <2>3. CASE mailbox[p] > 0
    <3>1. pc' = [pc EXCEPT ![p] = "body"] /\ kind' = [kind EXCEPT ![p] = "none"]
      BY <2>1, <2>3 DEF Goto
    <3> QED BY <3>1, <2>1, <2>2, <1>i
               DEF TypeOK, Shape, InReceive, Unborn, LeftWithin, WaitingIsParked
  <2>4. CASE ~(mailbox[p] > 0)
    <3>1. pc' = [pc EXCEPT ![p] = "empty"] /\ kind' = kind
      BY <2>1, <2>4 DEF Goto
    <3> QED BY <3>1, <2>1, <2>2, <1>i
               DEF TypeOK, Shape, InReceive, Unborn, LeftWithin, WaitingIsParked
  <2> QED BY <2>3, <2>4
<1>11. ASSUME NEW w \in Workers, TimedOut(w) PROVE Shape'
  BY <1>11, <1>i, <1>t
     DEF TimedOut, ReturnNull, TypeOK, Shape, InReceive, Unborn, LeftWithin, WaitingIsParked,
         Spawned, At, SetState, Goto, WGoto, coroutines, worker, global
<1>12. ASSUME NEW w \in Workers, BlockAgain(w) PROVE Shape'
  BY <1>12, <1>i, <1>t
     DEF BlockAgain, TypeOK, Shape, InReceive, Unborn, LeftWithin, WaitingIsParked, Spawned,
         At, SetState, Goto, WGoto, coroutines, worker, global
<1>13. ASSUME NEW w \in Workers, ScanOthers(w) PROVE Shape'
  BY <1>13, <1>i, <1>t
     DEF ScanOthers, TypeOK, Shape, InReceive, Unborn, LeftWithin, WaitingIsParked, Spawned,
         At, SetState, Goto, WGoto, coroutines, worker, global
<1>14. ASSUME NEW w \in Workers, ScanOther(w) PROVE Shape'
  BY <1>14, <1>i, <1>t
     DEF ScanOther, TypeOK, Shape, InReceive, Unborn, LeftWithin, WaitingIsParked, Spawned, At,
         SetState, Goto, WGoto, coroutines, worker, global
<1>15. ASSUME NEW w \in Workers, NoOthers(w) PROVE Shape'
  <2>1. PICK p \in Actors : pc[p] = "scan" /\ ReturnNull(p) /\ UNCHANGED <<mailbox, worker, global>>
    BY <1>15 DEF NoOthers, At
  <2>2. pc'[p] \in {"body", "ending", "fault"} /\ \A q \in Actors \ {p} : pc'[q] = pc[q]
    BY <2>1, <1>i, Returned
  <2>3. /\ state' = [state EXCEPT ![p] = "Ready"]
        /\ kind' = [kind EXCEPT ![p] = "none"]
        /\ UNCHANGED <<suspended, left>>
    BY <2>1 DEF ReturnNull, SetState, worker
  <2> QED BY <2>2, <2>3, <1>i DEF TypeOK, Shape, InReceive, Unborn, LeftWithin, WaitingIsParked
<1>16. ASSUME NEW w \in Workers, SkipWaiting(w) PROVE Shape'
  BY <1>16, <1>i, <1>t
     DEF SkipWaiting, TypeOK, Shape, InReceive, Unborn, LeftWithin, WaitingIsParked, Spawned,
         At, SetState, Goto, WGoto, coroutines, worker, global
<1>17. ASSUME NEW w \in Workers, Resume(w) PROVE Shape'
  BY <1>17, <1>i, <1>t
     DEF Resume, TypeOK, Shape, InReceive, Unborn, LeftWithin, WaitingIsParked, Spawned, At,
         SetState, Goto, WGoto, coroutines, worker, global
<1>18. ASSUME NEW w \in Workers, EndResume(w) PROVE Shape'
  BY <1>18, <1>i, <1>t
     DEF EndResume, TypeOK, Shape, InReceive, Unborn, LeftWithin, WaitingIsParked, Spawned, At,
         SetState, Goto, WGoto, coroutines, worker, global
<1>19. ASSUME NEW w \in Workers, TakeRequest(w) PROVE Shape'
  BY <1>19, <1>i, <1>t
     DEF TakeRequest, TypeOK, Shape, InReceive, Unborn, LeftWithin, WaitingIsParked, Spawned,
         At, SetState, Goto, WGoto, coroutines, worker, global
<1>20. ASSUME NEW w \in Workers, NoRequest(w) PROVE Shape'
  BY <1>20, <1>i, <1>t
     DEF NoRequest, TypeOK, Shape, InReceive, Unborn, LeftWithin, WaitingIsParked, Spawned, At,
         SetState, Goto, WGoto, coroutines, worker, global
<1>21. ASSUME NEW w \in Workers, Yield(w) PROVE Shape'
  BY <1>21, <1>i, <1>t
     DEF Yield, NextPhase, TypeOK, Shape, InReceive, Unborn, LeftWithin, WaitingIsParked,
         Spawned, At, SetState, Goto, WGoto, coroutines, worker, global
<1>22. ASSUME NEW w \in Workers, Retire(w) PROVE Shape'
  BY <1>22, <1>i, <1>t
     DEF Retire, NextPhase, TypeOK, Shape, InReceive, Unborn, LeftWithin, WaitingIsParked,
         Spawned, At, SetState, Goto, WGoto, coroutines, worker, global
<1>23. ASSUME NEW w \in Workers, NoShutdown(w) PROVE Shape'
  BY <1>23, <1>i, <1>t
     DEF NoShutdown, Pass, TypeOK, Shape, InReceive, Unborn, LeftWithin, WaitingIsParked,
         Spawned, At, SetState, Goto, WGoto, coroutines, worker, global
<1>24. ASSUME NEW w \in Workers, Stop(w) PROVE Shape'
  BY <1>24, <1>i, <1>t
     DEF Stop, TypeOK, Shape, InReceive, Unborn, LeftWithin, WaitingIsParked, Spawned, At,
         SetState, Goto, WGoto, coroutines, worker, global
<1>25. ASSUME NEW w \in Workers, CheckSuspended(w) PROVE Shape'
  <2>1. left' = left \/ left' = [left EXCEPT ![w] = Len(suspended[w])]
    BY <1>25 DEF CheckSuspended, Pass
  <2>2. UNCHANGED <<state, pc, kind, suspended>>
    BY <1>25 DEF CheckSuspended, coroutines
  <2> QED BY <2>1, <2>2, <1>i, Refilled DEF Shape
<1>26. ASSUME NEW w \in Workers, HasReady(w) PROVE Shape'
  <2>1. left' = left \/ left' = [left EXCEPT ![w] = Len(suspended[w])]
    BY <1>26 DEF HasReady, Pass
  <2>2. UNCHANGED <<state, pc, kind, suspended>>
    BY <1>26 DEF HasReady, coroutines
  <2> QED BY <2>1, <2>2, <1>i, Refilled DEF Shape
<1>27. ASSUME NEW w \in Workers, StartWake(w) PROVE Shape'
  BY <1>27, <1>i, <1>t
     DEF StartWake, TypeOK, Shape, InReceive, Unborn, LeftWithin, WaitingIsParked, Spawned, At,
         SetState, Goto, WGoto, coroutines, worker, global
<1>28. ASSUME NEW w \in Workers, WakeSuspended(w) PROVE Shape'
  BY <1>28, <1>i, <1>t
     DEF WakeSuspended, TypeOK, Shape, InReceive, Unborn, LeftWithin, WaitingIsParked, Spawned,
         At, SetState, Goto, WGoto, coroutines, worker, global
<1>29. ASSUME NEW w \in Workers, EndWake(w) PROVE Shape'
  BY <1>29, <1>i, <1>t
     DEF EndWake, Pass, TypeOK, Shape, InReceive, Unborn, LeftWithin, WaitingIsParked, Spawned,
         At, SetState, Goto, WGoto, coroutines, worker, global
<1>30. CASE UNCHANGED vars
  BY <1>30, <1>i, <1>t
     DEF vars, TypeOK, Shape, InReceive, Unborn, LeftWithin, WaitingIsParked, Spawned, At,
         SetState, Goto, WGoto, coroutines, worker, global
<1> QED BY <1>1, <1>2, <1>3, <1>4, <1>5, <1>6, <1>7, <1>8, <1>9, <1>10, <1>11, <1>12, <1>13,
           <1>14, <1>15, <1>16, <1>17, <1>18, <1>19, <1>20, <1>21, <1>22, <1>23, <1>24, <1>25,
           <1>26, <1>27, <1>28, <1>29, <1>30, Steps

-----------------------------------------------------------------------------
(* Steps that move no process.                                             *)

Unmoved == /\ UNCHANGED <<injector, suspended, running, active_count>>
           /\ \A p \in Actors : state'[p] = "none" <=> state[p] = "none"
           /\ \A p \in Actors : \/ pc'[p] = "done" <=> pc[p] = "done"
                                \/ \E w \in Workers : running[w] = p

\* They leave every process where it is, and count none.
LEMMA Still ==
  ASSUME IInv, Unmoved
  PROVE  OnePlace' /\ ActiveCountExact'
<1>1. Active' = Active
  BY DEF Active, Spawned, Unmoved
<1>2. Held' = Held /\ \A w \in Workers : SuspendedOn(w)' = SuspendedOn(w)
  BY DEF Held, SuspendedOn, Unmoved
<1>3. OnePlace'
  <2> HIDE DEF Active, Held, SuspendedOn
  <2>1. Placed'
    BY <1>1, <1>2, OnePlaceIs DEF IInv, Placed, Unmoved
  <2> QED BY <2>1, OnePlaceIs
<1>4. ActiveCountExact'
  BY <1>1 DEF IInv, ActiveCountExact, Unmoved
<1> QED BY <1>3, <1>4

-----------------------------------------------------------------------------
(* Steps that move a process.                                              *)

\* A process in a queue is not finished.
LEMMA QueuedUnfinished ==
  ASSUME IInv, NEW p \in Actors, p \in injector \/ \E w \in Workers : p \in SuspendedOn(w)
  PROVE  p \in Active /\ pc[p] # "done"
<1>1. p \in Active
  BY HeldActive
<1>2. \A v \in Workers : running[v] # p
  <2> HIDE DEF SuspendedOn
  <2> QED BY OnePlaceIs DEF IInv, Placed
<1> QED BY <1>1, <1>2 DEF Active

\* What is picked up or put down unfinished stays active.
LEMMA ActiveSame ==
  ASSUME NEW w \in Workers,
         \A v \in Workers \ {w} : running'[v] = running[v],
         \A p \in Actors : /\ state'[p] = "none" <=> state[p] = "none"
                           /\ pc'[p] = "done" <=> pc[p] = "done"
                           /\ p \in {running[w], running'[w]} => pc[p] # "done"
  PROVE  Active' = Active
<1>1. ASSUME NEW p \in Actors
      PROVE  p \in Active <=> p \in Active'
  <2>1. state'[p] = "none" <=> state[p] = "none"
    OBVIOUS
  <2>2. pc'[p] = "done" <=> pc[p] = "done"
    OBVIOUS
  <2>3. CASE pc[p] = "done"
    <3>1. running[w] # p /\ running'[w] # p
      BY <2>3
    <3>2. (\A v \in Workers : running[v] # p) <=> (\A v \in Workers : running'[v] # p)
      BY <3>1, Zenon
    <3> QED BY <2>1, <2>2, <3>2 DEF Active, Spawned
  <2>4. CASE pc[p] # "done"
    BY <2>1, <2>2, <2>4 DEF Active, Spawned
  <2> QED BY <2>3, <2>4
<1>2. Active \subseteq Actors /\ Active' \subseteq Actors
  BY DEF Active, Spawned
<1> QED BY <1>1, <1>2

\* A worker that only moves processes between its hands, its queue and the
\* requests keeps every process in one place.
LEMMA Rearranged ==
  ASSUME IInv, NEW w \in Workers,
         \A v \in Workers \ {w} : running'[v] = running[v] /\ suspended'[v] = suspended[v],
         Distinct(suspended'[w]),
         running'[w] \notin SuspendedOn(w)' \cup injector',
         SuspendedOn(w)' \cap injector' = {},
         injector' \subseteq injector,
         injector' \cup SuspendedOn(w)' \cup ({running'[w]} \ {NoActor})
            = injector \cup SuspendedOn(w) \cup ({running[w]} \ {NoActor}),
         NoActor \notin injector', \A v \in Workers : NoActor \notin SuspendedOn(v) \cup SuspendedOn(v)',
         Active' = Active
  PROVE  OnePlace'
<1>0. Placed
  BY OnePlaceIs DEF IInv
<1>1. \A v \in Workers \ {w} : SuspendedOn(v)' = SuspendedOn(v)
  BY DEF SuspendedOn
<1> HIDE DEF SuspendedOn, Active
<1>2. Held' = Held
  <2>1. \A x : x \in Held <=> \/ x \in injector \cup SuspendedOn(w) \cup ({running[w]} \ {NoActor})
                              \/ \E v \in Workers \ {w} : \/ x \in SuspendedOn(v)
                                                          \/ x = running[v] /\ x # NoActor
    BY Zenon DEF Held
  <2>2. \A x : x \in Held' <=> \/ x \in injector' \cup SuspendedOn(w)' \cup ({running'[w]} \ {NoActor})
                               \/ \E v \in Workers \ {w} : \/ x \in SuspendedOn(v)'
                                                           \/ x = running'[v] /\ x # NoActor
    BY Zenon DEF Held
  <2> HIDE DEF Held
  <2>3. \A x : x \in Held <=> x \in Held'
    BY <1>1, <2>1, <2>2
  <2> QED BY <2>3
<1>3. \A v \in Workers : Distinct(suspended'[v])
  BY <1>0 DEF Placed
<1>4. ASSUME NEW v \in Workers \ {w}
      PROVE  /\ SuspendedOn(v)' \cap SuspendedOn(w)' = {}
             /\ running'[v] # running'[w] \/ running'[v] = NoActor
             /\ running'[v] \notin SuspendedOn(w)' \cup injector'
             /\ running'[w] \notin SuspendedOn(v)'
             /\ SuspendedOn(v)' \cap injector' = {}
  <2>1. /\ SuspendedOn(v) \cap (SuspendedOn(w) \cup injector) = {}
        /\ running[w] \notin SuspendedOn(v)
        /\ running[v] # running[w] \/ running[v] = NoActor
        /\ running[v] \notin SuspendedOn(w) \cup injector
        /\ NoActor \notin SuspendedOn(v)
    BY <1>0, <1>4 DEF Placed
  <2>2. running'[v] = running[v] /\ SuspendedOn(v)' = SuspendedOn(v)
    BY <1>1, <1>4
  <2>3. SuspendedOn(v)' \cap SuspendedOn(w)' = {} /\ SuspendedOn(v)' \cap injector' = {}
    BY <2>1, <2>2
  <2>4. running'[v] # running'[w] \/ running'[v] = NoActor
    BY <2>1, <2>2
  <2>5. running'[v] \notin SuspendedOn(w)' \cup injector'
    BY <2>1, <2>2
  <2>6. running'[w] \notin SuspendedOn(v)'
    BY <2>1, <2>2
  <2> QED BY <2>3, <2>4, <2>5, <2>6
<1>5. ASSUME NEW u \in Workers \ {w}, NEW v \in Workers \ {w}
      PROVE  /\ u # v => SuspendedOn(u)' \cap SuspendedOn(v)' = {}
             /\ u # v => running'[u] # running'[v] \/ running'[u] = NoActor
             /\ running'[u] \notin SuspendedOn(v)' \cup injector'
  BY <1>0, <1>1 DEF Placed
<1>6. Placed'
  <2>1. Active' = Held'
    BY <1>0, <1>2 DEF Placed
  <2> HIDE DEF Distinct, Held
  <2> QED BY <2>1, <1>3, <1>4, <1>5 DEF Placed
<1> QED BY <1>6, OnePlaceIs

\* The steps that move no process: the other ones are those of the lemma below.
Moving(w) == SkipWaiting(w) \/ Resume(w) \/ TakeRequest(w) \/ Yield(w) \/ Retire(w)

LEMMA UnmovedStep ==
  ASSUME IInv, [Next]_vars
  PROVE  \/ Unmoved
         \/ \E w \in Workers : Moving(w)
         \/ \E q \in Actors : Spawn(q)
<1>i. TypeOK /\ InReceive
  BY DEF IInv, Shape
<1>1. ASSUME NEW q \in Actors, LocalSend(q) PROVE Unmoved
  BY <1>1, <1>i
     DEF LocalSend, Spawned, Unmoved, TypeOK, At, SetState, Goto, WGoto, coroutines, worker,
         global
<1>2. ASSUME SignalShutdown PROVE Unmoved
  BY <1>2, <1>i
     DEF SignalShutdown, Unmoved, TypeOK, At, SetState, Goto, WGoto, coroutines, worker, global
<1>3. ASSUME NEW p \in Actors, Deadline(p) PROVE Unmoved
  BY <1>3, <1>i
     DEF Deadline, Unmoved, TypeOK, At, SetState, Goto, WGoto, coroutines, worker, global
<1>4. ASSUME NEW q \in Actors, ActorExit(q) PROVE Unmoved
  BY <1>4, <1>i
     DEF ActorExit, Spawned, Unmoved, TypeOK, At, SetState, Goto, WGoto, coroutines, worker,
         global
<1>5. ASSUME NEW w \in Workers, ReceiveNow(w) PROVE Unmoved
  BY <1>5, <1>i
     DEF ReceiveNow, Unmoved, TypeOK, At, SetState, Goto, WGoto, coroutines, worker, global
<1>6. ASSUME NEW w \in Workers, ReceiveEmpty(w) PROVE Unmoved
  BY <1>6, <1>i
     DEF ReceiveEmpty, Unmoved, TypeOK, At, SetState, Goto, WGoto, coroutines, worker, global
<1>7. ASSUME NEW w \in Workers, Complete(w) PROVE Unmoved
  <2>1. PICK p \in Actors : /\ running[w] = p
                            /\ state' = [state EXCEPT ![p] = "Exited"]
                            /\ pc' = [pc EXCEPT ![p] = "done"]
    BY <1>7, SetsAssumption, <1>i DEF Complete, SetState, Goto
  <2>2. state[p] # "none"
    BY <2>1, RunningSpawned
  <2> QED BY <2>1, <2>2, <1>7, <1>i DEF Complete, TypeOK, Unmoved, worker, global
<1>8. ASSUME NEW w \in Workers, SetWaiting(w) PROVE Unmoved
  <2>1. PICK p \in Actors : /\ running[w] = p
                            /\ state' = [state EXCEPT ![p] = "Waiting"]
                            /\ pc' = [pc EXCEPT ![p] = "parked"]
    BY <1>8 DEF SetWaiting, SetState, Goto, At
  <2>2. state[p] # "none"
    BY <2>1, RunningSpawned
  <2> QED BY <2>1, <2>2, <1>8, <1>i DEF SetWaiting, TypeOK, Unmoved, worker, global
<1>9. ASSUME NEW w \in Workers, RetryPop(w) PROVE Unmoved
  <2>1. PICK p \in Actors : /\ running[w] = p
                            /\ \E loc \in {"body", "empty"} : pc' = [pc EXCEPT ![p] = loc]
    BY <1>9 DEF RetryPop, At, Goto
  <2> QED BY <2>1, <1>9, <1>i DEF RetryPop, TypeOK, Unmoved, worker, global
<1>10. ASSUME NEW w \in Workers, TimedOut(w) PROVE Unmoved
  <2>1. PICK p \in Actors : /\ running[w] = p
                            /\ pc[p] \in {"empty", "scan"}
                            /\ ReturnNull(p)
                            /\ UNCHANGED <<worker, global>>
    BY <1>10 DEF TimedOut, At
  <2>2. state[p] # "none"
    BY <2>1, RunningSpawned
  <2>3. \A q \in Actors \ {p} : pc'[q] = pc[q]
    BY <2>1, <1>i, Returned
  <2>4. state' = [state EXCEPT ![p] = "Ready"]
    BY <2>1 DEF ReturnNull, SetState
  <2> QED BY <2>1, <2>2, <2>3, <2>4, <1>i DEF TypeOK, Unmoved, worker, global
<1>11. ASSUME NEW w \in Workers, BlockAgain(w) PROVE Unmoved
  BY <1>11, <1>i
     DEF BlockAgain, Unmoved, TypeOK, At, SetState, Goto, WGoto, coroutines, worker, global
<1>12. ASSUME NEW w \in Workers, ScanOthers(w) PROVE Unmoved
  BY <1>12, <1>i
     DEF ScanOthers, Unmoved, TypeOK, At, SetState, Goto, WGoto, coroutines, worker, global
<1>13. ASSUME NEW w \in Workers, ScanOther(w) PROVE Unmoved
  BY <1>13, <1>i
     DEF ScanOther, Unmoved, TypeOK, At, SetState, Goto, WGoto, coroutines, worker, global
<1>14. ASSUME NEW w \in Workers, NoOthers(w) PROVE Unmoved
  <2>1. PICK p \in Actors : /\ running[w] = p
                            /\ pc[p] \in {"empty", "scan"}
                            /\ ReturnNull(p)
                            /\ UNCHANGED <<worker, global>>
    BY <1>14 DEF NoOthers, At
  <2>2. state[p] # "none"
    BY <2>1, RunningSpawned
  <2>3. \A q \in Actors \ {p} : pc'[q] = pc[q]
    BY <2>1, <1>i, Returned
  <2>4. state' = [state EXCEPT ![p] = "Ready"]
    BY <2>1 DEF ReturnNull, SetState
  <2> QED BY <2>1, <2>2, <2>3, <2>4, <1>i DEF TypeOK, Unmoved, worker, global
<1>15. ASSUME NEW w \in Workers, EndResume(w) PROVE Unmoved
  BY <1>15, <1>i
     DEF EndResume, Unmoved, TypeOK, At, SetState, Goto, WGoto, coroutines, worker, global
<1>16. ASSUME NEW w \in Workers, NoRequest(w) PROVE Unmoved
  BY <1>16, <1>i
     DEF NoRequest, Unmoved, TypeOK, At, SetState, Goto, WGoto, coroutines, worker, global
<1>17. ASSUME NEW w \in Workers, NoShutdown(w) PROVE Unmoved
  BY <1>17, <1>i
     DEF NoShutdown, Pass, Unmoved, TypeOK, At, SetState, Goto, WGoto, coroutines, worker,
         global
<1>18. ASSUME NEW w \in Workers, Stop(w) PROVE Unmoved
  BY <1>18, <1>i
     DEF Stop, Unmoved, TypeOK, At, SetState, Goto, WGoto, coroutines, worker, global
<1>19. ASSUME NEW w \in Workers, CheckSuspended(w) PROVE Unmoved
  BY <1>19, <1>i
     DEF CheckSuspended, Pass, Unmoved, TypeOK, At, SetState, Goto, WGoto, coroutines, worker,
         global
<1>20. ASSUME NEW w \in Workers, HasReady(w) PROVE Unmoved
  BY <1>20, <1>i
     DEF HasReady, Pass, Unmoved, TypeOK, At, SetState, Goto, WGoto, coroutines, worker, global
<1>21. ASSUME NEW w \in Workers, StartWake(w) PROVE Unmoved
  BY <1>21, <1>i
     DEF StartWake, Unmoved, TypeOK, At, SetState, Goto, WGoto, coroutines, worker, global
<1>22. ASSUME NEW w \in Workers, WakeSuspended(w) PROVE Unmoved
  BY <1>22, <1>i
     DEF WakeSuspended, Unmoved, TypeOK, At, SetState, Goto, WGoto, coroutines, worker, global
<1>23. ASSUME NEW w \in Workers, EndWake(w) PROVE Unmoved
  BY <1>23, <1>i
     DEF EndWake, Pass, Unmoved, TypeOK, At, SetState, Goto, WGoto, coroutines, worker, global
<1>24. CASE UNCHANGED vars
  BY <1>24 DEF vars, Unmoved, coroutines, worker, global
<1> QED BY <1>1, <1>2, <1>3, <1>4, <1>5, <1>6, <1>7, <1>8, <1>9, <1>10, <1>11, <1>12, <1>13,
           <1>14, <1>15, <1>16, <1>17, <1>18, <1>19, <1>20, <1>21, <1>22, <1>23, <1>24, Steps
           DEF Moving

\* The steps that move a process, and the one that creates one.
LEMMA SpawnStep ==
  ASSUME IInv, NEW q \in Actors, Spawn(q)
  PROVE  OnePlace' /\ ActiveCountExact'
<1>i. TypeOK /\ Unborn /\ Placed /\ ActiveCountExact
  BY OnePlaceIs DEF IInv, Shape
<1>1. /\ state[q] = "none" /\ state' = [state EXCEPT ![q] = "Ready"]
      /\ active_count' = active_count + 1
      /\ injector' = injector \cup {q}
      /\ UNCHANGED <<pc, suspended, running>>
  BY DEF Spawn, SetState, coroutines, worker
<1>2. q \notin Active /\ pc[q] = "body"
  BY <1>1, <1>i DEF Active, Spawned, Unborn
<1>3. Active' = Active \cup {q}
  BY <1>1, <1>2, <1>i DEF Active, Spawned, TypeOK
<1>4. \A v \in Workers : SuspendedOn(v)' = SuspendedOn(v)
  BY <1>1 DEF SuspendedOn
<1>5. /\ \A v \in Workers : q \notin SuspendedOn(v) /\ running[v] # q
  BY <1>2, HeldActive, SetsAssumption
<1> HIDE DEF Active, SuspendedOn
<1>6. Held' = Held \cup {q}
  BY <1>1, <1>4 DEF Held
<1>7. Placed'
  <2> HIDE DEF Held
  <2> QED BY <1>1, <1>3, <1>4, <1>5, <1>6, <1>i DEF Placed
<1>8. ActiveCountExact'
  BY <1>1, <1>2, <1>3, <1>i, ActiveFinite, FS_AddElement DEF ActiveCountExact
<1> QED BY <1>7, <1>8, OnePlaceIs

LEMMA SkipStep ==
  ASSUME IInv, NEW w \in Workers, SkipWaiting(w)
  PROVE  OnePlace' /\ ActiveCountExact'
<1>i. TypeOK /\ LeftWithin /\ Placed /\ ActiveCountExact
  BY OnePlaceIs DEF IInv, Shape
<1> DEFINE s == suspended[w]
<1>1. s # <<>> /\ s \in Seq(Actors)
  BY <1>i, Queued DEF SkipWaiting
<1>2. /\ suspended' = [suspended EXCEPT ![w] = Append(Tail(s), Head(s))]
      /\ UNCHANGED <<state, pc, injector, running, active_count>>
  BY DEF SkipWaiting, coroutines, global
<1>3. /\ Range2(Append(Tail(s), Head(s))) = Range2(s)
      /\ Distinct(s) => Distinct(Append(Tail(s), Head(s)))
  BY <1>1, HeadTaken, Appended
<1>4. suspended'[w] = Append(Tail(s), Head(s)) /\ \A v \in Workers \ {w} : suspended'[v] = suspended[v]
  BY <1>2, <1>i DEF TypeOK
<1>5. \A v \in Workers : SuspendedOn(v)' = SuspendedOn(v) /\ Distinct(suspended'[v])
  BY <1>3, <1>4, <1>i DEF SuspendedOn, Placed
<1>6. Active' = Active
  BY <1>2 DEF Active, Spawned
<1> HIDE DEF Active, SuspendedOn
<1>7. Held' = Held
  BY <1>2, <1>5 DEF Held
<1>8. Placed'
  <2> HIDE DEF Held
  <2> QED BY <1>2, <1>5, <1>6, <1>7, <1>i DEF Placed
<1>9. ActiveCountExact'
  BY <1>2, <1>6, <1>i DEF ActiveCountExact
<1> QED BY <1>8, <1>9, OnePlaceIs

LEMMA ResumeStep ==
  ASSUME IInv, NEW w \in Workers, Resume(w)
  PROVE  OnePlace' /\ ActiveCountExact'
<1>i. TypeOK /\ LeftWithin /\ Placed /\ ActiveCountExact
  BY OnePlaceIs DEF IInv, Shape
<1> DEFINE s == suspended[w]
           p == Head(s)
<1>1. s # <<>> /\ s \in Seq(Actors)
  BY <1>i, Queued DEF Resume
<1>2. /\ suspended' = [suspended EXCEPT ![w] = Tail(s)]
      /\ running[w] = NoActor /\ running' = [running EXCEPT ![w] = p]
      /\ pc' = pc \/ (pc[p] = "parked" /\ pc' = [pc EXCEPT ![p] = "resumed"])
      /\ UNCHANGED <<state, injector, active_count>>
  BY DEF Resume, Goto, global
<1>3. /\ p \in Actors
      /\ Range2(s) = Range2(Tail(s)) \cup {p}
      /\ Distinct(s) => Distinct(Tail(s)) /\ p \notin Range2(Tail(s))
  BY <1>1, HeadTaken
<1> HIDE DEF s, p
<1>4. /\ suspended'[w] = Tail(s) /\ running'[w] = p
      /\ \A v \in Workers \ {w} : suspended'[v] = suspended[v] /\ running'[v] = running[v]
  BY <1>2, <1>i DEF TypeOK
<1>5. /\ SuspendedOn(w) = SuspendedOn(w)' \cup {p}
      /\ p \notin SuspendedOn(w)'
      /\ Distinct(suspended'[w])
  BY <1>3, <1>4, <1>i DEF SuspendedOn, Placed, s
<1>6. p \in SuspendedOn(w) /\ pc[p] # "done"
  BY <1>3, <1>5, QueuedUnfinished
<1>7. Active' = Active
  <2>1. \A q \in Actors : /\ state'[q] = "none" <=> state[q] = "none"
                          /\ pc'[q] = "done" <=> pc[q] = "done"
                          /\ q \in {running[w], running'[w]} => pc[q] # "done"
    BY <1>2, <1>4, <1>6, <1>i, SetsAssumption DEF TypeOK
  <2> QED BY <1>4, <2>1, ActiveSame
<1>8. OnePlace'
  <2>1. p \notin injector /\ SuspendedOn(w) \cap injector = {}
    BY <1>6, <1>i DEF Placed
  <2>2. /\ NoActor \notin injector'
        /\ \A v \in Workers : NoActor \notin SuspendedOn(v) \cup SuspendedOn(v)'
    <3>1. \A v \in Workers : SuspendedOn(v) \subseteq Actors
      BY HeldActive, ActiveFinite
    <3>2. \A v \in Workers : SuspendedOn(v)' \subseteq SuspendedOn(v)
      BY <1>4, <1>5 DEF SuspendedOn
    <3> QED BY <3>1, <3>2, <1>2, <1>i, SetsAssumption DEF TypeOK
  <2> HIDE DEF SuspendedOn, Active
  <2>3. running'[w] \notin SuspendedOn(w)' \cup injector' /\ SuspendedOn(w)' \cap injector' = {}
    BY <2>1, <1>2, <1>4, <1>5
  <2>4. injector' \cup SuspendedOn(w)' \cup ({running'[w]} \ {NoActor})
            = injector \cup SuspendedOn(w) \cup ({running[w]} \ {NoActor})
    BY <1>2, <1>3, <1>4, <1>5, SetsAssumption
  <2> QED BY <2>2, <2>3, <2>4, <1>2, <1>4, <1>5, <1>7, Rearranged
<1>9. ActiveCountExact'
  BY <1>2, <1>7, <1>i DEF ActiveCountExact
<1> QED BY <1>8, <1>9

LEMMA TakeStep ==
  ASSUME IInv, NEW w \in Workers, TakeRequest(w)
  PROVE  OnePlace' /\ ActiveCountExact'
<1>i. TypeOK /\ Placed /\ ActiveCountExact
  BY OnePlaceIs DEF IInv
<1>1. PICK p \in injector :
        /\ injector' = injector \ {p}
        /\ state' = [state EXCEPT ![p] = "Running"]
        /\ running[w] = NoActor /\ running' = [running EXCEPT ![w] = p]
        /\ UNCHANGED <<pc, suspended, active_count>>
  BY DEF TakeRequest, SetState, coroutines
<1>2. p \in Actors /\ p \in Active /\ pc[p] # "done"
  BY <1>i, QueuedUnfinished DEF TypeOK
<1>3. running'[w] = p /\ \A v \in Workers \ {w} : running'[v] = running[v]
  BY <1>1, <1>i DEF TypeOK
<1>4. \A v \in Workers : SuspendedOn(v)' = SuspendedOn(v)
  BY <1>1 DEF SuspendedOn
<1>5. Active' = Active
  <2>1. state[p] # "none"
    BY <1>2 DEF Active, Spawned
  <2>2. \A q \in Actors : /\ state'[q] = "none" <=> state[q] = "none"
                          /\ pc'[q] = "done" <=> pc[q] = "done"
                          /\ q \in {running[w], running'[w]} => pc[q] # "done"
    BY <1>1, <1>2, <1>3, <2>1, <1>i, SetsAssumption DEF TypeOK
  <2> QED BY <1>3, <2>2, ActiveSame
<1>6. OnePlace'
  <2>1. /\ NoActor \notin injector'
        /\ \A v \in Workers : NoActor \notin SuspendedOn(v) \cup SuspendedOn(v)'
    <3>1. \A v \in Workers : SuspendedOn(v) \subseteq Actors
      BY HeldActive, ActiveFinite
    <3> QED BY <3>1, <1>1, <1>4, <1>i, SetsAssumption DEF TypeOK
  <2> HIDE DEF SuspendedOn, Active
  <2>2. running'[w] \notin SuspendedOn(w)' \cup injector' /\ SuspendedOn(w)' \cap injector' = {}
    BY <1>1, <1>3, <1>4, <1>i DEF Placed
  <2>3. injector' \cup SuspendedOn(w)' \cup ({running'[w]} \ {NoActor})
            = injector \cup SuspendedOn(w) \cup ({running[w]} \ {NoActor})
    BY <1>1, <1>2, <1>3, <1>4, SetsAssumption
  <2>4. Distinct(suspended'[w])
    BY <1>1, <1>i DEF Placed
  <2> QED BY <2>1, <2>2, <2>3, <2>4, <1>1, <1>3, <1>5, Rearranged
<1>7. ActiveCountExact'
  BY <1>1, <1>5, <1>i DEF ActiveCountExact
<1> QED BY <1>6, <1>7

LEMMA YieldStep ==
  ASSUME IInv, NEW w \in Workers, Yield(w)
  PROVE  OnePlace' /\ ActiveCountExact'
<1>i. TypeOK /\ Placed /\ ActiveCountExact
  BY OnePlaceIs DEF IInv
<1>1. PICK p \in Actors :
        /\ running[w] = p /\ pc[p] \in {"body", "parked"}
        /\ state' = state \/ state' = [state EXCEPT ![p] = "Ready"]
        /\ suspended' = [suspended EXCEPT ![w] = Append(@, p)]
        /\ running' = [running EXCEPT ![w] = NoActor]
        /\ UNCHANGED <<pc, injector, active_count>>
  BY DEF Yield, SetState, coroutines, global
<1>2. /\ suspended'[w] = Append(suspended[w], p) /\ running'[w] = NoActor
      /\ \A v \in Workers \ {w} : suspended'[v] = suspended[v] /\ running'[v] = running[v]
  BY <1>1, <1>i DEF TypeOK
<1>3. p \notin SuspendedOn(w) \cup injector
  BY <1>1, <1>i DEF Placed
<1>4. suspended[w] \in Seq(Actors) /\ Distinct(suspended[w])
  BY <1>i DEF TypeOK, Placed
<1>5. SuspendedOn(w)' = SuspendedOn(w) \cup {p} /\ Distinct(suspended'[w])
  BY <1>2, <1>3, <1>4, Appended DEF SuspendedOn
<1>6. Active' = Active
  <2>1. state[p] # "none"
    BY <1>1, RunningSpawned
  <2>2. \A q \in Actors : /\ state'[q] = "none" <=> state[q] = "none"
                          /\ pc'[q] = "done" <=> pc[q] = "done"
                          /\ q \in {running[w], running'[w]} => pc[q] # "done"
    BY <1>1, <1>2, <2>1, <1>i, SetsAssumption DEF TypeOK
  <2> QED BY <1>2, <2>2, ActiveSame
<1>7. OnePlace'
  <2>1. /\ NoActor \notin injector'
        /\ \A v \in Workers : NoActor \notin SuspendedOn(v) \cup SuspendedOn(v)'
    <3>1. \A v \in Workers : SuspendedOn(v) \subseteq Actors
      BY HeldActive, ActiveFinite
    <3>2. \A v \in Workers : SuspendedOn(v)' \subseteq SuspendedOn(v) \cup {p}
      BY <1>2, <1>5 DEF SuspendedOn
    <3> QED BY <3>1, <3>2, <1>1, <1>i, SetsAssumption DEF TypeOK
  <2> HIDE DEF SuspendedOn, Active
  <2>2. SuspendedOn(w)' \cap injector' = {}
    BY <1>1, <1>3, <1>5, <1>i DEF Placed
  <2>3. injector' \cup SuspendedOn(w)' \cup ({running'[w]} \ {NoActor})
            = injector \cup SuspendedOn(w) \cup ({running[w]} \ {NoActor})
    BY <1>1, <1>2, <1>5, SetsAssumption
  <2>4. running'[w] \notin SuspendedOn(w)' \cup injector'
    BY <1>2, <2>1
  <2> QED BY <2>1, <2>2, <2>3, <2>4, <1>1, <1>2, <1>5, <1>6, Rearranged
<1>8. ActiveCountExact'
  BY <1>1, <1>6, <1>i DEF ActiveCountExact
<1> QED BY <1>7, <1>8

LEMMA RetireStep ==
  ASSUME IInv, NEW w \in Workers, Retire(w)
  PROVE  OnePlace' /\ ActiveCountExact'
<1>i. TypeOK /\ Placed /\ ActiveCountExact
  BY OnePlaceIs DEF IInv
<1>1. PICK p \in Actors :
        /\ running[w] = p /\ pc[p] = "done"
        /\ active_count' = active_count - 1
        /\ running' = [running EXCEPT ![w] = NoActor]
        /\ UNCHANGED <<state, pc, suspended, injector>>
  BY DEF Retire, At, coroutines
<1>2. running'[w] = NoActor /\ \A v \in Workers \ {w} : running'[v] = running[v]
  BY <1>1, <1>i DEF TypeOK
<1>3. /\ p \in Active
      /\ p \notin injector /\ \A v \in Workers : p \notin SuspendedOn(v)
      /\ \A v \in Workers \ {w} : running[v] # p
  BY <1>1, <1>i, RunningSpawned, SetsAssumption DEF Placed
<1>4. Active' = Active \ {p}
  <2>1. ASSUME NEW q \in Actors PROVE q \in Active' <=> q \in Active /\ q # p
    <3>1. CASE q = p
      BY <3>1, <1>1, <1>2, <1>3, SetsAssumption DEF Active
    <3>2. CASE q # p
      <4>1. (\A v \in Workers : running'[v] # q) <=> (\A v \in Workers : running[v] # q)
        BY <3>2, <1>1, <1>2, SetsAssumption
      <4> QED BY <3>2, <4>1, <1>1 DEF Active, Spawned
    <3> QED BY <3>1, <3>2
  <2>2. Active \subseteq Actors /\ Active' \subseteq Actors
    BY DEF Active, Spawned
  <2> QED BY <2>1, <2>2
<1>5. \A v \in Workers : SuspendedOn(v)' = SuspendedOn(v)
  BY <1>1 DEF SuspendedOn
<1>6. \A v \in Workers : NoActor \notin SuspendedOn(v) \cup injector
  BY HeldActive, ActiveFinite, SetsAssumption
<1>7. Distinct(suspended'[w])
  BY <1>1, <1>i DEF Placed
<1>8. ActiveCountExact'
  BY <1>1, <1>3, <1>4, <1>i, ActiveFinite, FS_RemoveElement DEF ActiveCountExact
<1> HIDE DEF Active, SuspendedOn
<1>9. Held' = Held \ {p}
  <2>1. \A x : x \in Held <=> \/ x \in injector
                              \/ \E v \in Workers : \/ x \in SuspendedOn(v)
                                                    \/ x = running[v] /\ x # NoActor
    BY Zenon DEF Held
  <2>2. \A x : x \in Held' <=> \/ x \in injector'
                               \/ \E v \in Workers : \/ x \in SuspendedOn(v)'
                                                     \/ x = running'[v] /\ x # NoActor
    BY Zenon DEF Held
  <2> HIDE DEF Held
  <2>3. ASSUME NEW x PROVE x \in Held' <=> x \in Held /\ x # p
    <3>1. CASE x = p
      BY <3>1, <2>2, <1>1, <1>2, <1>3, <1>5
    <3>2. CASE x # p
      <4>1. \A v \in Workers : (x = running'[v] /\ x # NoActor) <=> (x = running[v] /\ x # NoActor)
        BY <3>2, <1>1, <1>2
      <4> QED BY <3>2, <4>1, <2>1, <2>2, <1>1, <1>5
    <3> QED BY <3>1, <3>2
  <2> QED BY <2>3
<1>10. Placed'
  <2>1. Active' = Held'
    BY <1>4, <1>9, <1>i DEF Placed
  <2> HIDE DEF Distinct, Held
  <2>2. \A u, v \in Workers : u # v => running'[u] # running'[v] \/ running'[u] = NoActor
    BY <1>2, <1>i DEF Placed
  <2>3. \A u, v \in Workers : running'[u] \notin SuspendedOn(v)' \cup injector'
    BY <1>1, <1>2, <1>5, <1>6, <1>i DEF Placed
  <2> QED BY <2>1, <2>2, <2>3, <1>1, <1>5, <1>i DEF Placed
<1> QED BY <1>8, <1>10, OnePlaceIs

\* Every step keeps every active process in exactly one place and the counter
\* equal to their number.
LEMMA PlaceStep == ASSUME IInv, [Next]_vars PROVE OnePlace' /\ ActiveCountExact'
<1>1. CASE \E q \in Actors : Spawn(q)
  BY <1>1, SpawnStep
<1>2. CASE \E w \in Workers : Moving(w)
  BY <1>2, SkipStep, ResumeStep, TakeStep, YieldStep, RetireStep DEF Moving
<1>3. CASE Unmoved
  BY <1>3, Still
<1> QED BY <1>1, <1>2, <1>3, UnmovedStep

-----------------------------------------------------------------------------
(* The end of a worker.                                                    *)

\* The counter is zero exactly if no process is in any place.
LEMMA Emptied ==
  ASSUME TypeOK, OnePlace, ActiveCountExact, active_count = 0
  PROVE  /\ injector = {}
         /\ \A v \in Workers : suspended[v] = <<>> /\ running[v] = NoActor
<1>1. Active = {}
  BY ActiveFinite, FS_EmptySet DEF ActiveCountExact
<1>2. Held = {}
  BY <1>1, OnePlaceIs DEF Placed
<1>3. injector = {}
  BY <1>2 DEF Held
<1>4. ASSUME NEW v \in Workers PROVE suspended[v] = <<>> /\ running[v] = NoActor
  <2>1. running[v] = NoActor
    BY <1>2 DEF Held
  <2>2. SuspendedOn(v) = {}
    <3> HIDE DEF SuspendedOn
    <3> QED BY <1>2, Zenon DEF Held
  <2>3. suspended[v] \in Seq(Actors)
    BY DEF TypeOK
  <2>4. suspended[v] = <<>>
    BY <2>2, <2>3, HeadTaken DEF SuspendedOn
  <2> QED BY <2>1, <2>4
<1> QED BY <1>3, <1>4

\* Shutdown is not taken back, and a worker stops only by deciding to.
Told == /\ shutdown => shutdown'
        /\ \A v \in Workers : wpc'[v] = "stopped" => wpc[v] = "stopped" \/ Stop(v)

LEMMA StopsOnce == ASSUME TypeOK, [Next]_vars PROVE Told
<1>i. TypeOK
  OBVIOUS
<1>1. ASSUME NEW q \in Actors, Spawn(q) PROVE Told
  BY <1>1, <1>i DEF Told, Spawn, TypeOK, WGoto, worker, global
<1>2. ASSUME NEW q \in Actors, LocalSend(q) PROVE Told
  BY <1>2, <1>i DEF Told, LocalSend, TypeOK, WGoto, worker, global
<1>3. ASSUME SignalShutdown PROVE Told
  BY <1>3, <1>i DEF Told, SignalShutdown, TypeOK, WGoto, worker, global
<1>4. ASSUME NEW p \in Actors, Deadline(p) PROVE Told
  BY <1>4, <1>i DEF Told, Deadline, TypeOK, WGoto, worker, global
<1>5. ASSUME NEW q \in Actors, ActorExit(q) PROVE Told
  BY <1>5, <1>i DEF Told, ActorExit, TypeOK, WGoto, worker, global
<1>6. ASSUME NEW w \in Workers, ReceiveNow(w) PROVE Told
  BY <1>6, <1>i DEF Told, ReceiveNow, TypeOK, WGoto, worker, global
<1>7. ASSUME NEW w \in Workers, ReceiveEmpty(w) PROVE Told
  BY <1>7, <1>i DEF Told, ReceiveEmpty, TypeOK, WGoto, worker, global
<1>8. ASSUME NEW w \in Workers, Complete(w) PROVE Told
  BY <1>8, <1>i DEF Told, Complete, TypeOK, WGoto, worker, global
<1>9. ASSUME NEW w \in Workers, SetWaiting(w) PROVE Told
  BY <1>9, <1>i DEF Told, SetWaiting, TypeOK, WGoto, worker, global
<1>10. ASSUME NEW w \in Workers, RetryPop(w) PROVE Told
  BY <1>10, <1>i DEF Told, RetryPop, TypeOK, WGoto, worker, global
<1>11. ASSUME NEW w \in Workers, TimedOut(w) PROVE Told
  BY <1>11, <1>i DEF Told, TimedOut, TypeOK, WGoto, worker, global
<1>12. ASSUME NEW w \in Workers, BlockAgain(w) PROVE Told
  BY <1>12, <1>i DEF Told, BlockAgain, TypeOK, WGoto, worker, global
<1>13. ASSUME NEW w \in Workers, ScanOthers(w) PROVE Told
  BY <1>13, <1>i DEF Told, ScanOthers, TypeOK, WGoto, worker, global
<1>14. ASSUME NEW w \in Workers, ScanOther(w) PROVE Told
  BY <1>14, <1>i DEF Told, ScanOther, TypeOK, WGoto, worker, global
<1>15. ASSUME NEW w \in Workers, NoOthers(w) PROVE Told
  BY <1>15, <1>i DEF Told, NoOthers, TypeOK, WGoto, worker, global
<1>16. ASSUME NEW w \in Workers, SkipWaiting(w) PROVE Told
  BY <1>16, <1>i DEF Told, SkipWaiting, TypeOK, WGoto, worker, global
<1>17. ASSUME NEW w \in Workers, Resume(w) PROVE Told
  BY <1>17, <1>i DEF Told, Resume, TypeOK, WGoto, worker, global
<1>18. ASSUME NEW w \in Workers, EndResume(w) PROVE Told
  BY <1>18, <1>i DEF Told, EndResume, TypeOK, WGoto, worker, global
<1>19. ASSUME NEW w \in Workers, TakeRequest(w) PROVE Told
  BY <1>19, <1>i DEF Told, TakeRequest, TypeOK, WGoto, worker, global
<1>20. ASSUME NEW w \in Workers, NoRequest(w) PROVE Told
  BY <1>20, <1>i DEF Told, NoRequest, TypeOK, WGoto, worker, global
<1>21. ASSUME NEW w \in Workers, Yield(w) PROVE Told
  BY <1>21, <1>i DEF Told, Yield, NextPhase, TypeOK, WGoto, worker, global
<1>22. ASSUME NEW w \in Workers, Retire(w) PROVE Told
  BY <1>22, <1>i DEF Told, Retire, NextPhase, TypeOK, WGoto, worker, global
<1>23. ASSUME NEW w \in Workers, NoShutdown(w) PROVE Told
  BY <1>23, <1>i DEF Told, NoShutdown, Pass, TypeOK, WGoto, worker, global
<1>24. ASSUME NEW w \in Workers, Stop(w) PROVE Told
  BY <1>24, <1>i DEF Told, Stop, TypeOK, WGoto, worker, global
<1>25. ASSUME NEW w \in Workers, CheckSuspended(w) PROVE Told
  BY <1>25, <1>i DEF Told, CheckSuspended, Pass, TypeOK, WGoto, worker, global
<1>26. ASSUME NEW w \in Workers, HasReady(w) PROVE Told
  BY <1>26, <1>i DEF Told, HasReady, Pass, TypeOK, WGoto, worker, global
<1>27. ASSUME NEW w \in Workers, StartWake(w) PROVE Told
  BY <1>27, <1>i DEF Told, StartWake, TypeOK, WGoto, worker, global
<1>28. ASSUME NEW w \in Workers, WakeSuspended(w) PROVE Told
  BY <1>28, <1>i DEF Told, WakeSuspended, TypeOK, WGoto, worker, global
<1>29. ASSUME NEW w \in Workers, EndWake(w) PROVE Told
  BY <1>29, <1>i DEF Told, EndWake, Pass, TypeOK, WGoto, worker, global
<1>30. CASE UNCHANGED vars
  BY <1>30 DEF Told, vars, worker, global
<1> QED BY <1>1, <1>2, <1>3, <1>4, <1>5, <1>6, <1>7, <1>8, <1>9, <1>10, <1>11, <1>12, <1>13,
           <1>14, <1>15, <1>16, <1>17, <1>18, <1>19, <1>20, <1>21, <1>22, <1>23, <1>24, <1>25,
           <1>26, <1>27, <1>28, <1>29, <1>30, Steps

\* A worker that has stopped is not moved, and one that stops has nothing.
LEMMA StopStep == ASSUME IInv, [Next]_vars PROVE StoppedHoldsNothing'
<1> SUFFICES ASSUME NEW w \in Workers, wpc'[w] = "stopped"
             PROVE  shutdown' /\ suspended'[w] = <<>> /\ running'[w] = NoActor
  BY DEF StoppedHoldsNothing
<1>1. Told
  BY StopsOnce DEF IInv
<1>2. CASE Stop(w)
  <2>1. suspended[w] = <<>> /\ running[w] = NoActor
    BY <1>2, Emptied DEF IInv, Stop
  <2> QED BY <1>1, <1>2, <2>1 DEF Told, Stop, global
<1>3. CASE wpc[w] = "stopped"
  <2>1. shutdown /\ suspended[w] = <<>> /\ running[w] = NoActor
    BY <1>3 DEF IInv, StoppedHoldsNothing
  <2>2. ~Moving(w)
    BY <1>3, <2>1, SetsAssumption
       DEF Moving, SkipWaiting, Resume, TakeRequest, Yield, Retire, At
  <2>3. ASSUME NEW v \in Workers \ {w}, Moving(v)
        PROVE  suspended'[w] = suspended[w] /\ running'[w] = running[w]
    BY <2>3 DEF Moving, SkipWaiting, Resume, TakeRequest, Yield, Retire, IInv, TypeOK
  <2>4. ASSUME NEW q \in Actors, Spawn(q)
        PROVE  suspended'[w] = suspended[w] /\ running'[w] = running[w]
    BY <2>4 DEF Spawn, worker
  <2> HIDE DEF Moving
  <2>5. suspended'[w] = suspended[w] /\ running'[w] = running[w]
    BY <2>2, <2>3, <2>4, UnmovedStep DEF Unmoved
  <2> QED BY <1>1, <2>1, <2>5 DEF Told
<1> QED BY <1>1, <1>2, <1>3 DEF Told

\* A worker leaves its loop only when no process is active.
LEMMA EndStep ==
  ASSUME IInv, [Next]_vars, NEW w \in Workers, Ends(w)
  PROVE  shutdown /\ Active = {}
<1>1. Stop(w)
  BY StopsOnce DEF IInv, Told, Ends
<1>2. Active = {}
  BY <1>1, ActiveFinite, FS_EmptySet DEF IInv, ActiveCountExact, Stop
<1> QED BY <1>1, <1>2 DEF Stop

-----------------------------------------------------------------------------
LEMMA InitInv == Init => IInv
<1> SUFFICES ASSUME Init PROVE IInv
  OBVIOUS
<1>1. TypeOK
  <2>1. suspended \in [Workers -> Seq(Actors)]
    BY EmptySeq DEF Init
  <2>2. running \in [Workers -> Actors \cup {NoActor}]
    BY DEF Init
  <2> QED BY <2>1, <2>2 DEF Init, TypeOK
<1>2. Shape
  BY DEF Init, Shape, InReceive, Unborn, LeftWithin, WaitingIsParked
<1>3. Active = {} /\ injector = {} /\ \A w \in Workers : suspended[w] = <<>> /\ running[w] = NoActor
  BY DEF Init, Active, Spawned
<1>4. \A w \in Workers : SuspendedOn(w) = {}
  BY <1>3 DEF SuspendedOn, Range2
<1>5. OnePlace
  <2>1. (UNION {SuspendedOn(w) : w \in Workers}) = {}
    BY <1>4
  <2>2. {running[w] : w \in Workers} \ {NoActor} = {}
    BY <1>3
  <2>3. \A w \in Workers : DOMAIN suspended[w] = {}
    BY <1>3
  <2> HIDE DEF SuspendedOn, Active
  <2> QED BY <1>3, <1>4, <2>1, <2>2, <2>3 DEF OnePlace
<1>6. ActiveCountExact
  BY <1>3, FS_EmptySet DEF ActiveCountExact, Init
<1>7. StoppedHoldsNothing
  BY DEF Init, StoppedHoldsNothing
<1> QED BY <1>1, <1>2, <1>5, <1>6, <1>7 DEF IInv

LEMMA Invariant == Spec => []IInv
<1>1. IInv /\ [Next]_vars => IInv'
  BY TypeStep, ShapeStep, PlaceStep, StopStep DEF IInv
<1> QED BY InitInv, <1>1, PTL DEF Spec

\* Every variable keeps its type: in particular the coroutine at the head of
\* the queue exists when phase 1 visits it, a receive knows its kind when it
\* returns null, and active_count, an AtomicU64, is not decremented below zero.
THEOREM TypeCorrect == Spec => []TypeOK
<1>1. IInv => TypeOK
  BY DEF IInv
<1> QED BY <1>1, Invariant, PTL

\* worker_loop, mesh_actor_receive: a process that was spawned and has not
\* ended is in exactly one place (a spawn request, one queue, once, or one
\* worker's hands), one that has ended is in none, whatever other actors write
\* over its state, and a Waiting process is parked in its receive.
THEOREM CoroutinesStay == Spec => []NothingIsLost
<1>1. IInv => NothingIsLost
  BY DEF IInv, Shape, NothingIsLost
<1> QED BY <1>1, Invariant, PTL

\* active_count is the number of coroutines that have not ended, so a worker
\* that reads zero there after the shutdown leaves nobody behind at that moment,
\* neither with itself nor with another worker nor in a queue of requests, and
\* has nothing in its hands from then on, although anybody may still spawn.
THEOREM StopsEmpty == Spec => StopIsRight
<1>1. IInv => ActiveCountExact /\ StoppedHoldsNothing
  BY DEF IInv
<1>2. IInv /\ [Next]_vars => [\A w \in Workers : Ends(w) => shutdown /\ Active = {}]_vars
  BY EndStep
<1> QED BY <1>1, <1>2, Invariant, PTL DEF Spec, StopIsRight, StopOnlyWhenDone
-----------------------------------------------------------------------------
(* The process registry. That no name is lost to its owner's cleanup holds *)
(* of every name; that the two maps agree, and that the registry is a      *)
(* table of names, holds of the names nobody unregisters however the       *)
(* others are used.                                                        *)

\* What the agreement of the two maps needs to be inductive: a name in the
\* hands of a cleanup is no longer in the index.
TakenOut == \A p \in Pids : Kept \cap pid_names[p] \cap removing[p] = {}

RegistryInv == RegistryTypeOK /\ IndexAgrees /\ TakenOut

-----------------------------------------------------------------------------
\* The maps keep their types, whoever calls what.
THEOREM NamesTypeCorrect == RegistrySpec => []RegistryTypeOK
<1>1. RegistryInit => RegistryTypeOK
  BY DEF RegistryInit, RegistryTypeOK
<1>2. RegistryTypeOK /\ [RegistryNext]_registry => RegistryTypeOK'
  <2> SUFFICES ASSUME RegistryTypeOK, [RegistryNext]_registry PROVE RegistryTypeOK'
    OBVIOUS
  <2>1. ASSUME NEW n \in Names, NEW p \in Pids, Register(n, p) PROVE RegistryTypeOK'
    BY <2>1 DEF RegistryTypeOK, Register
  <2>2. ASSUME NEW n \in Loose, Unregister(n) PROVE RegistryTypeOK'
    <3>1. n \in Names /\ names[n] \in Pids
      BY <2>2, LooseAssumption DEF RegistryTypeOK, Unregister
    <3> QED BY <2>2, <3>1 DEF RegistryTypeOK, Unregister
  <2>3. ASSUME NEW p \in Pids, CleanupTake(p) PROVE RegistryTypeOK'
    BY <2>3 DEF RegistryTypeOK, CleanupTake
  <2>4. ASSUME NEW p \in Pids, CleanupRemove(p) PROVE RegistryTypeOK'
    BY <2>4 DEF RegistryTypeOK, CleanupRemove
  <2>5. CASE UNCHANGED registry
    BY <2>5 DEF RegistryTypeOK, registry
  <2> QED BY <2>1, <2>2, <2>3, <2>4, <2>5 DEF RegistryNext
<1> QED BY <1>1, <1>2, PTL DEF RegistrySpec

\* No name outlives the cleanup of its owner for want of an index entry: what
\* register adds to the map it adds to the index, and cleanup_process takes
\* the index entry of a process as a whole.
THEOREM NamesIndexed == RegistrySpec => []EveryNameIndexed
<1>1. RegistryInit => EveryNameIndexed
  BY DEF RegistryInit, EveryNameIndexed
<1>2. RegistryTypeOK /\ EveryNameIndexed /\ [RegistryNext]_registry => EveryNameIndexed'
  <2> SUFFICES ASSUME RegistryTypeOK, EveryNameIndexed, [RegistryNext]_registry
               PROVE  EveryNameIndexed'
    OBVIOUS
  <2> USE DEF RegistryTypeOK, EveryNameIndexed
  <2>1. ASSUME NEW n \in Names, NEW p \in Pids, Register(n, p)
        PROVE  EveryNameIndexed'
    BY <2>1 DEF Register
  <2>2. ASSUME NEW n \in Loose, Unregister(n) PROVE EveryNameIndexed'
    BY <2>2, LooseAssumption DEF Unregister
  <2>3. ASSUME NEW p \in Pids, removing[p] = {}, CleanupTake(p)
        PROVE  EveryNameIndexed'
    BY <2>3 DEF CleanupTake
  <2>4. ASSUME NEW p \in Pids, CleanupRemove(p) PROVE EveryNameIndexed'
    BY <2>4 DEF CleanupRemove
  <2>5. CASE UNCHANGED registry
    BY <2>5 DEF registry
  <2> QED BY <2>1, <2>2, <2>3, <2>4, <2>5 DEF RegistryNext
<1> QED BY <1>1, <1>2, NamesTypeCorrect, PTL DEF RegistrySpec

-----------------------------------------------------------------------------
\* What the index or a cleanup holds of a process stays mapped to it.
LEMMA RegistryInvStep == RegistryInv /\ [RegistryNext]_registry => RegistryInv'
<1> SUFFICES ASSUME RegistryInv, [RegistryNext]_registry PROVE RegistryInv'
  OBVIOUS
<1> USE NoPidAssumption, LooseAssumption DEF RegistryInv, RegistryTypeOK, IndexAgrees, TakenOut, Kept
<1>1. ASSUME NEW n \in Names, NEW p \in Pids, Register(n, p) PROVE RegistryInv'
  <2>1. n \in Kept => \A q \in Pids : n \notin pid_names[q] \cup removing[q]
    BY <1>1 DEF Register
  <2> QED BY <1>1, <2>1 DEF Register
<1>2. ASSUME NEW n \in Loose, Unregister(n) PROVE RegistryInv'
  <2>1. n \in Names /\ names[n] \in Pids
    BY <1>2 DEF Unregister
  <2> QED BY <1>2, <2>1 DEF Unregister
<1>3. ASSUME NEW p \in Pids, removing[p] = {}, CleanupTake(p) PROVE RegistryInv'
  BY <1>3 DEF CleanupTake
<1>4. ASSUME NEW p \in Pids, CleanupRemove(p) PROVE RegistryInv'
  <2>1. \A q \in Pids \ {p} : \A n \in Kept \cap (pid_names[q] \cup removing[q]) : n \notin removing[p]
    OBVIOUS
  <2>2. RegistryTypeOK'
    BY <1>4 DEF CleanupRemove
  <2>3. IndexAgrees'
    BY <1>4, <2>1 DEF CleanupRemove
  <2>4. TakenOut'
    BY <1>4 DEF CleanupRemove
  <2> QED BY <2>2, <2>3, <2>4
<1>5. CASE UNCHANGED registry
  BY <1>5 DEF registry
<1> QED BY <1>1, <1>2, <1>3, <1>4, <1>5 DEF RegistryNext

\* The two maps agree on the names nobody unregisters: a cleanup never frees
\* one that belongs to another process.
THEOREM MapsAgree == RegistrySpec => []IndexAgrees
<1>1. RegistryInit => RegistryInv
  BY DEF RegistryInit, RegistryInv, RegistryTypeOK, IndexAgrees, TakenOut, Kept
<1>2. RegistryInv => IndexAgrees
  BY DEF RegistryInv
<1> QED BY <1>1, <1>2, RegistryInvStep, PTL DEF RegistrySpec

-----------------------------------------------------------------------------
\* The table the registry implements: its part for the names nobody unregisters.
tnames == [n \in Kept |-> names[n]]
tdropping == [p \in Pids |-> Kept \cap removing[p]]

\* A step of the registry is a step of the table, or a stutter.
LEMMA TableStep == RegistryInv /\ EveryNameIndexed /\ [RegistryNext]_registry
                      => [Table!Next]_<<tnames, tdropping>>
<1> SUFFICES ASSUME RegistryInv, EveryNameIndexed, [RegistryNext]_registry
             PROVE  [Table!Next]_<<tnames, tdropping>>
  OBVIOUS
<1> USE DEF tnames, tdropping
<1>1. ASSUME NEW n \in Names, NEW p \in Pids, Register(n, p)
      PROVE  [Table!Next]_<<tnames, tdropping>>
  <2>1. CASE n \in Kept
    <3>1. Table!Claim(n, p)
      BY <1>1, <2>1, LooseAssumption DEF Register, Table!Claim, Kept, RegistryInv, RegistryTypeOK
    <3> QED BY <2>1, <3>1 DEF Table!Next
  <2>2. CASE n \notin Kept
    BY <1>1, <2>2 DEF Register, RegistryInv, RegistryTypeOK
  <2> QED BY <2>1, <2>2
<1>2. ASSUME NEW n \in Loose, Unregister(n) PROVE UNCHANGED <<tnames, tdropping>>
  BY <1>2, LooseAssumption DEF Unregister, Kept, RegistryInv, RegistryTypeOK
<1>3. ASSUME NEW p \in Pids, removing[p] = {}, CleanupTake(p) PROVE Table!StartDrop(p)
  <2>1. Kept \cap pid_names[p] = {n \in Kept : tnames[n] = p}
    BY <1>3, NoPidAssumption DEF RegistryInv, RegistryTypeOK, IndexAgrees, EveryNameIndexed, Kept
  <2>2. tdropping' = [tdropping EXCEPT ![p] = {n \in Kept : tnames[n] = p}]
    BY <1>3, <2>1 DEF CleanupTake, RegistryInv, RegistryTypeOK
  <2>3. tdropping[p] = {} /\ UNCHANGED tnames
    BY <1>3 DEF CleanupTake
  <2> QED BY <2>2, <2>3 DEF Table!StartDrop
<1>4. ASSUME NEW p \in Pids, CleanupRemove(p) PROVE Table!Drop(p)
  <2>1. \A n \in tdropping[p] : tnames[n] = p
    BY DEF RegistryInv, IndexAgrees, Kept
  <2>2. tnames' = [n \in Kept |-> IF n \in tdropping[p] THEN NoPid ELSE tnames[n]]
    BY <1>4 DEF CleanupRemove, Kept
  <2>3. tdropping' = [tdropping EXCEPT ![p] = {}]
    BY <1>4 DEF CleanupRemove, RegistryInv, RegistryTypeOK
  <2> QED BY <2>1, <2>2, <2>3 DEF Table!Drop
<1>5. CASE UNCHANGED registry
  BY <1>5 DEF registry
<1> QED BY <1>1, <1>2, <1>3, <1>4, <1>5 DEF RegistryNext, Table!Next

\* The registry implements the table of names: the end of a process frees all
\* the names registered to it, in two critical sections, and nothing else.
THEOREM Implements == RegistrySpec => IsNameTable
<1>1. RegistryInit => RegistryInv /\ Table!Init
  BY LooseAssumption DEF RegistryInit, RegistryInv, RegistryTypeOK, IndexAgrees, TakenOut, Kept, Table!Init
<1>2. RegistryInv /\ EveryNameIndexed /\ [RegistryNext]_registry => [Table!Next]_<<tnames, tdropping>>
  BY TableStep
<1> QED BY <1>1, <1>2, RegistryInvStep, NamesIndexed, PTL
        DEF RegistrySpec, IsNameTable, Table!Spec, tnames, tdropping

\* Names are neither lost nor taken, for any number of processes and names.
THEOREM NamesStay == RegistrySpec => []NamesAreKept
<1>1. RegistryTypeOK /\ EveryNameIndexed /\ IndexAgrees => NamesAreKept
  BY DEF NamesAreKept
<1> QED BY <1>1, NamesTypeCorrect, NamesIndexed, MapsAgree, PTL
=============================================================================
