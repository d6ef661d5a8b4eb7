--------------------------- MODULE StorageProofs ----------------------------
(***************************************************************************)
(* Proofs about what a program keeps, in memory and in a database: the     *)
(* connection pool, the client of PostgreSQL, the migrations, the package  *)
(* registry service, and the heap of an actor, for any values of their     *)
(* constants.                                                              *)
(***************************************************************************)
EXTENDS Pool, Heap, Publish, PgClient, Migration, FiniteSetTheorems, SequenceTheorems,
        WellFoundedInduction, TLAPS

-----------------------------------------------------------------------------
(* The pool, for any number of clients and connections and any bounds.     *)
(* Accounting, exclusive use and the type of the counters depend on each   *)
(* other: a counter does not fall below zero because the client that       *)
(* lowers it occupies a slot, and what a client leaves in a transaction is *)
(* open because the client holds it.  The connections whose answers have   *)
(* all been read stay clean while they are idle because what ROLLBACK has  *)
(* just answered for stays with its client until it is returned.           *)

RestoringIsClean == \A c \in Clients : pc[c] = "restoring" /\ InStep(conn[c]) => conn[c] \notin dirty

Clean == StatusIsKnown /\ IdleIsClean /\ RestoringIsClean

PoolInv == TypeOK /\ SlotAccounting /\ ExclusiveConns /\ Clean

-----------------------------------------------------------------------------
(* How the clients that occupy a slot change in a step.                    *)

LEMMA OccupantsFinite == IsFiniteSet(Occupants) /\ Cardinality(Occupants) \in Nat
<1>1. Occupants \subseteq Clients
  BY DEF Occupants
<1>2. IsFiniteSet(Occupants)
  BY <1>1, ClientsAssumption, FS_Subset
<1> QED BY <1>2, FS_CardinalityType

\* Nobody takes or gives up a slot.
LEMMA Staying ==
  ASSUME \A d \in Clients : pc'[d] \in Occupying <=> pc[d] \in Occupying
  PROVE  Cardinality(Occupants') = Cardinality(Occupants)
<1>1. Occupants' = Occupants
  BY DEF Occupants
<1> QED BY <1>1

\* One client takes a slot.
LEMMA Entering ==
  ASSUME NEW c \in Clients, pc[c] \notin Occupying, pc'[c] \in Occupying,
         \A d \in Clients \ {c} : pc'[d] \in Occupying <=> pc[d] \in Occupying
  PROVE  Cardinality(Occupants') = Cardinality(Occupants) + 1
<1>1. Occupants' = Occupants \cup {c} /\ c \notin Occupants
  BY DEF Occupants
<1> QED BY <1>1, OccupantsFinite, FS_AddElement

\* One client gives up its slot, which it had.
LEMMA Leaving ==
  ASSUME NEW c \in Clients, pc[c] \in Occupying, pc'[c] \notin Occupying,
         \A d \in Clients \ {c} : pc'[d] \in Occupying <=> pc[d] \in Occupying
  PROVE  /\ Cardinality(Occupants') = Cardinality(Occupants) - 1
         /\ Cardinality(Occupants) >= 1
<1>1. Occupants' = Occupants \ {c} /\ c \in Occupants
  BY DEF Occupants
<1>2. Cardinality(Occupants') = Cardinality(Occupants) - 1
  BY <1>1, OccupantsFinite, FS_RemoveElement
<1>3. Cardinality(Occupants) # 0
  BY <1>1, OccupantsFinite, FS_EmptySet
<1> QED BY <1>2, <1>3, OccupantsFinite

\* notify_one moves the caller out and, if anybody waits, one waiter on.
LEMMA Notified ==
  ASSUME TypeOK, NEW c \in Clients, pc[c] # "waiting", NotifyOne(c)
  PROVE  /\ pc' \in [Clients -> Locations]
         /\ pc'[c] = "out"
         /\ \A d \in Clients \ {c} : \/ pc'[d] = pc[d]
                                     \/ pc[d] = "waiting" /\ pc'[d] = "checkout"
<1>1. CASE \A w \in Clients : pc[w] # "waiting"
  BY <1>1 DEF NotifyOne, Goto, TypeOK, Locations
<1>2. CASE \E w \in Clients : pc[w] = "waiting"
  <2>1. PICK w \in Clients : pc[w] = "waiting" /\ pc' = [pc EXCEPT ![c] = "out", ![w] = "checkout"]
    BY <1>2 DEF NotifyOne
  <2>2. w # c
    BY <2>1
  <2> QED BY <2>1, <2>2 DEF TypeOK, Locations
<1> QED BY <1>1, <1>2

\* An answer that leaves no other unread is that of the statement itself.
LEMMA AnswerRead ==
  ASSUME TypeOK, NEW h \in live, NEW after \in BOOLEAN, Answered(h, after)
  PROVE  /\ inTxn' \in SUBSET live /\ dirty' \in SUBSET live /\ late' \in [Conns -> Seq(BOOLEAN)]
         /\ late'[h] = <<>> => (h \in dirty' <=> after) /\ (h \in inTxn' <=> after)
         /\ \A g \in Conns \ {h} : /\ g \in dirty' <=> g \in dirty
                                   /\ g \in inTxn' <=> g \in inTxn
                                   /\ late'[g] = late[g]
<1> DEFINE old == late[h]
           answers == Append(old, after)
<1>1. h \in Conns /\ old \in Seq(BOOLEAN) /\ Len(old) \in Nat
  BY DEF TypeOK
<1>2. /\ inTxn' = With(inTxn, h, after) /\ dirty' = With(dirty, h, Head(answers))
      /\ late' = [late EXCEPT ![h] = Tail(answers)]
  BY DEF Answered
<1>3. answers \in Seq(BOOLEAN) /\ Len(answers) = Len(old) + 1
  BY <1>1
<1>4. Head(answers) \in BOOLEAN /\ Tail(answers) \in Seq(BOOLEAN) /\ Len(Tail(answers)) = Len(old)
  BY <1>1, <1>3
<1>5. Tail(answers) = <<>> => Head(answers) = after
  <2> SUFFICES ASSUME Tail(answers) = <<>> PROVE Head(answers) = after
    OBVIOUS
  <2>1. Len(old) = 0
    BY <1>4
  <2> QED BY <1>1, <2>1
<1>6. late'[h] = Tail(answers) /\ late' \in [Conns -> Seq(BOOLEAN)]
  BY <1>1, <1>2, <1>4 DEF TypeOK
<1> HIDE DEF answers
<1> QED BY <1>1, <1>2, <1>4, <1>5, <1>6 DEF With, TypeOK

\* A statement that gives up leaves its answer unread.
LEMMA AnswerLeft ==
  ASSUME TypeOK, NEW h \in live, NEW after \in BOOLEAN, GaveUp(h, after)
  PROVE  /\ inTxn' \in SUBSET live /\ dirty' \in SUBSET live /\ late' \in [Conns -> Seq(BOOLEAN)]
         /\ late'[h] # <<>>
         /\ \A g \in Conns \ {h} : /\ g \in dirty' <=> g \in dirty
                                   /\ g \in inTxn' <=> g \in inTxn
                                   /\ late'[g] = late[g]
<1> DEFINE answers == Append(late[h], after)
<1>1. h \in Conns /\ late[h] \in Seq(BOOLEAN)
  BY DEF TypeOK
<1>2. answers \in Seq(BOOLEAN) /\ answers # <<>>
  BY <1>1
<1>3. inTxn' = With(inTxn, h, after) /\ dirty' = dirty /\ late' = [late EXCEPT ![h] = answers]
  BY DEF GaveUp
<1> HIDE DEF answers
<1> QED BY <1>1, <1>2, <1>3 DEF With, TypeOK

\* The connection a health check lets through is the last in the list that is
\* not closed.
LEMMA TakenFromIdle ==
  ASSUME TypeOK, NEW c \in Clients, CheckoutIdle(c)
  PROVE  \E k \in 1..Len(idle) :
           LET gone == {idle[i] : i \in (k + 1)..Len(idle)}
           IN  /\ idle[k] \in Conns /\ gone \in SUBSET Conns
               /\ idle' = SubSeq(idle, 1, k - 1) /\ idle' \in Seq(Conns)
               /\ total_created' = total_created - (Len(idle) - k)
               /\ live' = live \ gone /\ dead' = dead \ gone /\ inTxn' = inTxn \ gone
               /\ conn' = [conn EXCEPT ![c] = idle[k]]
               /\ late' \in [Conns -> Seq(BOOLEAN)]
               /\ dirty' \subseteq (dirty \ gone) \cup {idle[k]}
               /\ \A g \in Conns \ (gone \cup {idle[k]}) : late'[g] = late[g] /\ (g \in dirty' <=> g \in dirty)
               /\ idle[k] \notin gone /\ late'[idle[k]] = <<>> => (idle[k] \in dirty' <=> idle[k] \in inTxn)
<1>1. PICK k \in DOMAIN idle :
        LET h == idle[k]
            gone == {idle[i] : i \in (k + 1)..Len(idle)}
            answers == Append(late[h], h \in inTxn)
        IN  /\ idle' = SubSeq(idle, 1, k - 1)
            /\ total_created' = total_created - (Len(idle) - k)
            /\ live' = live \ gone /\ dead' = dead \ gone /\ inTxn' = inTxn \ gone
            /\ dirty' = With(dirty \ gone, h, Head(answers))
            /\ late' = [g \in Conns |-> IF g \in gone THEN <<>>
                                        ELSE IF g = h THEN Tail(answers) ELSE late[g]]
            /\ conn' = [conn EXCEPT ![c] = h]
  BY DEF CheckoutIdle
<1> DEFINE h == idle[k]
           gone == {idle[i] : i \in (k + 1)..Len(idle)}
           old == late[h]
           now == h \in inTxn
           answers == Append(old, now)
<1>2. idle \in Seq(Conns) /\ Len(idle) \in Nat /\ k \in 1..Len(idle)
  BY DEF TypeOK
<1>3. h \in Conns /\ old \in Seq(BOOLEAN) /\ Len(old) \in Nat
  BY <1>2 DEF TypeOK
<1>4. gone \in SUBSET Conns
  BY <1>2
<1>5. SubSeq(idle, 1, k - 1) \in Seq(Conns)
  BY <1>2
<1>6. now \in BOOLEAN
  OBVIOUS
<1>8. /\ dirty' = With(dirty \ gone, h, Head(answers))
      /\ late' = [g \in Conns |-> IF g \in gone THEN <<>>
                                  ELSE IF g = h THEN Tail(answers) ELSE late[g]]
  BY <1>1
<1> HIDE DEF now
<1>7. /\ Head(answers) \in BOOLEAN /\ Tail(answers) \in Seq(BOOLEAN)
      /\ Tail(answers) = <<>> => Head(answers) = now
  <2>1. answers \in Seq(BOOLEAN) /\ Len(answers) = Len(old) + 1
    BY <1>3, <1>6
  <2>2. Head(answers) \in BOOLEAN /\ Tail(answers) \in Seq(BOOLEAN) /\ Len(Tail(answers)) = Len(old)
    BY <1>3, <2>1
  <2>3. Tail(answers) = <<>> => Head(answers) = now
    <3> SUFFICES ASSUME Tail(answers) = <<>> PROVE Head(answers) = now
      OBVIOUS
    <3>1. Len(old) = 0
      BY <2>2
    <3> QED BY <1>3, <1>6, <3>1
  <2> QED BY <2>2, <2>3
<1> HIDE DEF answers, h, gone, old
<1>9. late' \in [Conns -> Seq(BOOLEAN)]
  <2>1. \A g \in Conns : late[g] \in Seq(BOOLEAN)
    BY DEF TypeOK
  <2>2. <<>> \in Seq(BOOLEAN)
    OBVIOUS
  <2> QED BY <1>7, <1>8, <2>1, <2>2
<1>10. /\ dirty' \subseteq (dirty \ gone) \cup {h}
       /\ \A g \in Conns \ (gone \cup {h}) : late'[g] = late[g] /\ (g \in dirty' <=> g \in dirty)
       /\ h \notin gone /\ late'[h] = <<>> => (h \in dirty' <=> now)
  BY <1>3, <1>7, <1>8 DEF With
<1> QED BY <1>1, <1>2, <1>3, <1>4, <1>5, <1>9, <1>10 DEF h, gone, now

-----------------------------------------------------------------------------
\* The slots: what each step does to the two counters, the idle list and the
\* clients that occupy a slot.
LEMMA SlotStep == TypeOK /\ SlotAccounting /\ [Next]_vars => SlotAccounting'
<1> SUFFICES ASSUME TypeOK, SlotAccounting, [Next]_vars PROVE SlotAccounting'
  OBVIOUS
<1> USE OccupantsFinite, BoundsAssumption DEF SlotAccounting, TypeOK
<1>1. ASSUME NEW c \in Clients, ClientNext(c) PROVE SlotAccounting'
  <2>1. CASE CheckoutIdle(c)
    <3>1. Cardinality(Occupants') = Cardinality(Occupants) + 1
      BY <2>1, Entering DEF CheckoutIdle, Goto, Occupying
    <3>2. PICK k \in 1..Len(idle) : /\ idle' = SubSeq(idle, 1, k - 1)
                                    /\ total_created' = total_created - (Len(idle) - k)
      BY <2>1, TakenFromIdle
    <3>3. k \in 1..Len(idle) /\ Len(idle) \in Nat
      OBVIOUS
    <3>4. Len(idle') = k - 1
      BY <3>2, <3>3
    <3>5. active_count' = active_count + 1 /\ UNCHANGED closed /\ ~closed
      BY <2>1 DEF CheckoutIdle
    <3>6. total_created' <= MaxConns
      <4>1. total_created' = total_created - (Len(idle) - k)
        BY <3>2
      <4>2. k \in Int /\ k <= Len(idle) /\ Len(idle) \in Int /\ total_created \in Int /\ MaxConns \in Int
        BY <3>3
      <4>3. total_created <= MaxConns
        OBVIOUS
      <4> QED BY ONLY <4>1, <4>2, <4>3
    <3>7. active_count = Cardinality(Occupants) /\ total_created = active_count + Len(idle)
      BY <3>5
    <3>8. active_count' = Cardinality(Occupants')
      BY <3>1, <3>5, <3>7
    <3>9. total_created' = active_count' + Len(idle')
      <4>1. total_created' = (active_count + Len(idle)) - (Len(idle) - k)
        BY <3>2, <3>7
      <4>2. active_count' + Len(idle') = (active_count + 1) + (k - 1)
        BY <3>4, <3>5
      <4>3. k \in Int /\ Len(idle) \in Int /\ active_count \in Int
        BY <3>3
      <4> QED BY ONLY <4>1, <4>2, <4>3
    <3>10. active_count' \in Nat /\ Len(idle') \in Nat
      <4>1. k - 1 \in Nat
        BY <3>3
      <4> QED BY <3>4, <3>5, <4>1
    <3> QED BY ONLY <3>5, <3>6, <3>8, <3>9, <3>10, BoundsAssumption DEF SlotAccounting
  <2>2. CASE CheckoutEmpty(c)
    <3> DEFINE kept == total_created - Len(idle)
    <3>3. idle' = <<>> /\ UNCHANGED closed /\ ~closed
      BY <2>2 DEF CheckoutEmpty
    <3>4. Len(idle') = 0 /\ Len(idle) \in Nat
      BY <3>3
    <3>1. CASE kept < MaxConns
      <4>1. Cardinality(Occupants') = Cardinality(Occupants) + 1
        BY <2>2, <3>1, Entering DEF CheckoutEmpty, Goto, Occupying
      <4>2. total_created' = kept + 1 /\ active_count' = active_count + 1
        BY <2>2, <3>1 DEF CheckoutEmpty
      <4> QED BY <3>1, <3>3, <3>4, <4>1, <4>2
    <3>2. CASE ~(kept < MaxConns)
      <4>1. Cardinality(Occupants') = Cardinality(Occupants)
        BY <2>2, <3>2, Staying DEF CheckoutEmpty, Goto, Occupying
      <4>2. total_created' = kept /\ UNCHANGED active_count
        BY <2>2, <3>2 DEF CheckoutEmpty
      <4> QED BY <3>3, <3>4, <4>1, <4>2
    <3> QED BY <3>1, <3>2
  <2>3. CASE UndoReservation(c)
    <3>1. /\ Cardinality(Occupants') = Cardinality(Occupants) - 1
          /\ Cardinality(Occupants) >= 1
      BY <2>3, Leaving DEF UndoReservation, Goto, Occupying
    <3> QED BY <2>3, <3>1 DEF UndoReservation
  <2>4. CASE CheckinClosed(c)
    <3>1. /\ Cardinality(Occupants') = Cardinality(Occupants) - 1
          /\ Cardinality(Occupants) >= 1
      BY <2>4, Leaving DEF CheckinClosed, Goto, Occupying
    <3> QED BY <2>4, <3>1 DEF CheckinClosed, inner
  <2>5. CASE Discard(c)
    <3>1. /\ Cardinality(Occupants') = Cardinality(Occupants) - 1
          /\ Cardinality(Occupants) >= 1
      BY <2>5, Leaving, Notified DEF Discard, Occupying
    <3> QED BY <2>5, <3>1 DEF Discard
  <2>6. CASE ReturnToIdle(c)
    <3>1. /\ Cardinality(Occupants') = Cardinality(Occupants) - 1
          /\ Cardinality(Occupants) >= 1
      BY <2>6, Leaving DEF ReturnToIdle, Goto, Occupying
    <3>2. Len(idle') = Len(idle) + 1
      BY <2>6 DEF ReturnToIdle
    <3>3. active_count' = active_count - 1 /\ UNCHANGED <<total_created, closed>>
      BY <2>6 DEF ReturnToIdle
    <3>4. /\ Len(idle) \in Nat /\ active_count \in Nat /\ total_created \in Nat
          /\ Cardinality(Occupants) \in Nat
      OBVIOUS
    <3>5. SlotAccounting
      OBVIOUS
    <3> QED BY ONLY <3>1, <3>2, <3>3, <3>4, <3>5, BoundsAssumption DEF SlotAccounting
  <2>7. CASE CheckinNotify(c)
    <3>1. Cardinality(Occupants') = Cardinality(Occupants)
      BY <2>7, Staying, Notified DEF CheckinNotify, Occupying
    <3> QED BY <2>7, <3>1 DEF CheckinNotify, inner
  <2>8. CASE \/ Checkout(c) \/ CheckoutClosed(c) \/ ConnectOk(c) \/ ConnectErr(c)
             \/ CheckoutTimeout(c) \/ Use(c) \/ Checkin(c) \/ CheckinOpen(c)
             \/ Rollback(c) \/ RollbackErr(c)
    <3>1. Cardinality(Occupants') = Cardinality(Occupants)
      BY <2>8, Staying DEF Checkout, CheckoutClosed, ConnectOk, ConnectErr, CheckoutTimeout,
         Use, Checkin, CheckinOpen, Rollback, RollbackErr, Goto, Occupying
    <3>2. UNCHANGED inner
      BY <2>8 DEF Checkout, CheckoutClosed, ConnectOk, ConnectErr, CheckoutTimeout,
         Use, Checkin, CheckinOpen, Rollback, RollbackErr
    <3> QED BY <3>1, <3>2 DEF inner
  <2> QED BY <1>1, <2>1, <2>2, <2>3, <2>4, <2>5, <2>6, <2>7, <2>8 DEF ClientNext
<1>2. CASE CloseBegin
  <2>1. Cardinality(Occupants') = Cardinality(Occupants)
    BY <1>2, Staying DEF CloseBegin
  <2> QED BY <1>2, <2>1 DEF CloseBegin
<1>3. CASE CloseNotifyAll
  <2>1. Cardinality(Occupants') = Cardinality(Occupants)
    BY <1>3, Staying DEF CloseNotifyAll, Occupying
  <2> QED BY <1>3, <2>1 DEF CloseNotifyAll, inner
<1>4. CASE CloseDrain \/ ServerDrops \/ UNCHANGED vars
  <2>1. Cardinality(Occupants') = Cardinality(Occupants)
    BY <1>4, Staying DEF CloseDrain, ServerDrops, vars
  <2> QED BY <1>4, <2>1 DEF CloseDrain, ServerDrops, vars, inner
<1> QED BY <1>1, <1>2, <1>3, <1>4 DEF Next

-----------------------------------------------------------------------------
(* Exclusive use.                                                          *)

\* A client that holds a connection holds a real one, which is open.
LEMMA HeldOpen ==
  ASSUME TypeOK, ExclusiveConns, NEW c \in Clients, pc[c] \in Holding
  PROVE  conn[c] \in Conns /\ conn[c] \in live
BY DEF TypeOK, ExclusiveConns, Holders

\* Closing connections keeps the types.
LEMMA CloseTypes ==
  ASSUME TypeOK, NEW gone, CloseAtServer(gone)
  PROVE  /\ live' \in SUBSET Conns /\ dead' \in SUBSET live' /\ dirty' \in SUBSET live'
         /\ inTxn' \in SUBSET live' /\ late' \in [Conns -> Seq(BOOLEAN)]
<1>1. \A g \in Conns : late[g] \in Seq(BOOLEAN) /\ <<>> \in Seq(BOOLEAN)
  BY DEF TypeOK
<1> QED BY <1>1 DEF CloseAtServer, TypeOK

\* The types, given that counters are not lowered below zero and that what a
\* client uses is open.
LEMMA TypeStep == PoolInv /\ [Next]_vars => TypeOK'
<1> SUFFICES ASSUME PoolInv, [Next]_vars PROVE TypeOK'
  OBVIOUS
<1>t. TypeOK
  BY DEF PoolInv
<1>1. ASSUME NEW c \in Clients, ClientNext(c) PROVE TypeOK'
  <2>1. CASE CheckoutIdle(c)
    <3>1. PICK k \in 1..Len(idle) :
            LET gone == {idle[i] : i \in (k + 1)..Len(idle)}
            IN  /\ idle[k] \in Conns /\ gone \in SUBSET Conns
                /\ idle' = SubSeq(idle, 1, k - 1) /\ idle' \in Seq(Conns)
                /\ total_created' = total_created - (Len(idle) - k)
                /\ live' = live \ gone /\ dead' = dead \ gone /\ inTxn' = inTxn \ gone
                /\ conn' = [conn EXCEPT ![c] = idle[k]]
                /\ late' \in [Conns -> Seq(BOOLEAN)]
                /\ dirty' \subseteq (dirty \ gone) \cup {idle[k]}
                /\ idle[k] \notin gone
      <4>1. \A i, j \in DOMAIN idle : idle[i] = idle[j] => i = j
        BY DEF PoolInv, ExclusiveConns
      <4>2. \A j \in 1..Len(idle) : idle[j] \notin {idle[i] : i \in (j + 1)..Len(idle)}
        BY <1>t, <4>1 DEF TypeOK
      <4> QED BY <1>t, <2>1, <4>2, TakenFromIdle
    <3>2. k \in 1..Len(idle) /\ Len(idle) \in Nat /\ idle \in Seq(Conns)
      BY <1>t DEF TypeOK
    <3>3. /\ live' \in SUBSET Conns /\ dead' \in SUBSET live' /\ dirty' \in SUBSET live'
          /\ inTxn' \in SUBSET live'
      <4>1. idle[k] \in live
        BY <3>2 DEF PoolInv, ExclusiveConns, IdleSet
      <4> QED BY <1>t, <3>1, <4>1 DEF TypeOK
    <3>4. conn' \in [Clients -> Conns \cup {NoConn}]
      BY <1>t, <3>1, <3>2 DEF TypeOK
    <3>5. total_created >= active_count + Len(idle) /\ active_count \in Nat /\ total_created \in Nat
      BY <1>t DEF PoolInv, SlotAccounting, TypeOK
    <3>6. total_created' \in Nat /\ active_count' \in Nat
      BY <3>1, <3>2, <3>5, <2>1 DEF CheckoutIdle
    <3> QED BY <1>t, <2>1, <3>1, <3>3, <3>4, <3>6 DEF CheckoutIdle, Goto, Locations, TypeOK
  <2>2. CASE CheckoutEmpty(c)
    <3>1. total_created >= active_count + Len(idle) /\ active_count \in Nat /\ total_created \in Nat
          /\ Len(idle) \in Nat
      BY <1>t DEF PoolInv, SlotAccounting, TypeOK
    <3>2. total_created' \in Nat /\ active_count' \in Nat
      BY <2>2, <3>1 DEF CheckoutEmpty
    <3>3. pc' \in [Clients -> Locations]
      BY <1>t, <2>2 DEF CheckoutEmpty, Goto, Locations, TypeOK
    <3> QED BY <1>t, <2>2, <3>2, <3>3, CloseTypes DEF CheckoutEmpty, TypeOK
  <2>3. CASE UndoReservation(c) \/ Discard(c) \/ ReturnToIdle(c)
    <3>1. c \in Occupants
      BY <2>3 DEF UndoReservation, Discard, ReturnToIdle, Occupants, Occupying
    <3>2. Cardinality(Occupants) \in Nat /\ Cardinality(Occupants) # 0
      BY <3>1, OccupantsFinite, FS_EmptySet
    <3>3. active_count >= 1 /\ total_created >= 1
      BY <1>t, <3>2 DEF PoolInv, SlotAccounting, TypeOK
    <3>4. active_count' \in Nat /\ total_created' \in Nat
      BY <1>t, <2>3, <3>3 DEF UndoReservation, Discard, ReturnToIdle, TypeOK
    <3>5. pc' \in [Clients -> Locations]
      BY <1>t, <2>3, Notified DEF UndoReservation, Discard, ReturnToIdle, Goto, Locations, TypeOK
    <3>6. idle' \in Seq(Conns)
      <4>1. CASE ReturnToIdle(c)
        <5>1. pc[c] \in Holding /\ idle' = Append(idle, conn[c])
          BY <4>1 DEF ReturnToIdle, Holding
        <5>2. conn[c] \in Conns
          BY <1>t, <5>1, HeldOpen DEF PoolInv
        <5>3. idle \in Seq(Conns)
          BY <1>t DEF TypeOK
        <5> QED BY <5>1, <5>2, <5>3
      <4>2. CASE UndoReservation(c) \/ Discard(c)
        BY <1>t, <4>2 DEF UndoReservation, Discard, TypeOK
      <4> QED BY <2>3, <4>1, <4>2
    <3>7. conn' \in [Clients -> Conns \cup {NoConn}] /\ closed' \in BOOLEAN
      BY <1>t, <2>3 DEF UndoReservation, Discard, ReturnToIdle, TypeOK
    <3> QED BY <1>t, <2>3, <3>4, <3>5, <3>6, <3>7
            DEF UndoReservation, Discard, ReturnToIdle, server, TypeOK
  <2>4. CASE CheckinNotify(c)
    <3>1. pc' \in [Clients -> Locations]
      BY <1>t, <2>4, Notified DEF CheckinNotify
    <3> QED BY <1>t, <2>4, <3>1 DEF CheckinNotify, inner, server, TypeOK
  <2>5. CASE ConnectOk(c)
    BY <1>t, <2>5 DEF ConnectOk, inner, Goto, Locations, TypeOK
  <2>6. CASE Use(c)
    <3>1. conn[c] \in live
      BY <1>t, <2>6, HeldOpen DEF PoolInv, Use, Holding
    <3>2. PICK after \in BOOLEAN : Answered(conn[c], after) \/ GaveUp(conn[c], after)
      BY <2>6 DEF Use
    <3>3. inTxn' \in SUBSET live /\ dirty' \in SUBSET live /\ late' \in [Conns -> Seq(BOOLEAN)]
      BY <1>t, <3>1, <3>2, AnswerRead, AnswerLeft
    <3> QED BY <1>t, <2>6, <3>3 DEF Use, inner, TypeOK
  <2>7. CASE CheckinClosed(c) \/ RollbackErr(c)
    BY <1>t, <2>7, CloseTypes DEF CheckinClosed, RollbackErr, inner, Goto, Locations, TypeOK
  <2>8. CASE \/ Checkout(c) \/ CheckoutClosed(c) \/ ConnectErr(c) \/ CheckoutTimeout(c)
             \/ Checkin(c) \/ CheckinOpen(c)
    BY <1>t, <2>8 DEF Checkout, CheckoutClosed, ConnectErr, CheckoutTimeout,
       Checkin, CheckinOpen, inner, server, Goto, Locations, TypeOK
  <2>9. CASE Rollback(c)
    <3>1. conn[c] \in live
      BY <1>t, <2>9, HeldOpen DEF PoolInv, Rollback, Holding
    <3>2. inTxn' \in SUBSET live /\ dirty' \in SUBSET live /\ late' \in [Conns -> Seq(BOOLEAN)]
      BY <1>t, <2>9, <3>1, AnswerRead DEF Rollback
    <3>3. pc' \in [Clients -> Locations]
      BY <1>t, <2>9 DEF Rollback, Goto, Locations, TypeOK
    <3> QED BY <1>t, <2>9, <3>2, <3>3 DEF Rollback, inner, TypeOK
  <2> QED BY <1>1, <2>1, <2>2, <2>3, <2>4, <2>5, <2>6, <2>7, <2>8, <2>9 DEF ClientNext
<1>2. CASE CloseBegin
  BY <1>t, <1>2 DEF CloseBegin, server, TypeOK
<1>3. CASE CloseDrain
  BY <1>t, <1>3, CloseTypes DEF CloseDrain, inner, TypeOK
<1>4. CASE CloseNotifyAll
  BY <1>t, <1>4 DEF CloseNotifyAll, inner, server, Locations, TypeOK
<1>5. CASE ServerDrops
  BY <1>t, <1>5 DEF ServerDrops, inner, TypeOK
<1>6. CASE UNCHANGED vars
  BY <1>t, <1>6 DEF vars, inner, server, TypeOK
<1> QED BY <1>1, <1>2, <1>3, <1>4, <1>5, <1>6 DEF Next

\* No step puts a connection in two hands.
LEMMA ExclusiveStep == PoolInv /\ [Next]_vars => ExclusiveConns'
<1> SUFFICES ASSUME PoolInv, [Next]_vars PROVE ExclusiveConns'
  OBVIOUS
<1>t. TypeOK /\ ExclusiveConns
  BY DEF PoolInv
<1>1. ASSUME NEW c \in Clients, ClientNext(c) PROVE ExclusiveConns'
  <2>1. CASE CheckoutIdle(c)
    <3>1. PICK k \in 1..Len(idle) :
            /\ idle' = SubSeq(idle, 1, k - 1)
            /\ live' = live \ {idle[i] : i \in (k + 1)..Len(idle)}
            /\ conn' = [conn EXCEPT ![c] = idle[k]]
      BY <1>t, <2>1, TakenFromIdle
    <3>2. k \in 1..Len(idle) /\ Len(idle) \in Nat /\ idle \in Seq(Conns)
      BY <1>t DEF TypeOK
    <3>3. /\ DOMAIN idle' = 1..(k - 1)
          /\ \A i \in 1..(k - 1) : idle'[i] = idle[i] /\ i \in DOMAIN idle /\ i # k
      BY <3>1, <3>2
    <3>4. idle[k] \in Conns /\ idle[k] # NoConn /\ idle[k] \in IdleSet
      BY <3>2, NoConnAssumption DEF IdleSet
    <3>5. Holders' = Holders \cup {c} /\ c \notin Holders
      BY <1>t, <2>1 DEF CheckoutIdle, Goto, Holders, Holding, TypeOK
    <3>6. IdleSet' \subseteq IdleSet /\ idle[k] \notin IdleSet'
      BY <1>t, <3>2, <3>3 DEF IdleSet, ExclusiveConns
    <3>7. \A i \in (k + 1)..Len(idle) : /\ idle[i] \in IdleSet
                                        /\ idle[i] \notin IdleSet'
                                        /\ idle[i] # idle[k]
      BY <1>t, <3>2, <3>3 DEF IdleSet, ExclusiveConns
    <3>8. /\ live' = live \ {idle[i] : i \in (k + 1)..Len(idle)}
          /\ draining' = draining
      BY <2>1, <3>1 DEF CheckoutIdle
    <3>9. /\ conn'[c] = idle[k]
          /\ \A d \in Clients \ {c} : conn'[d] = conn[d]
      BY <1>t, <3>1 DEF TypeOK
    <3>10. \A d \in Clients : (conn'[d] # NoConn) <=> (d \in Holders')
      BY <1>t, <3>4, <3>5, <3>9 DEF ExclusiveConns
    <3>11. \A d, e \in Holders' : conn'[d] = conn'[e] => d = e
      <4>1. \A d \in Holders : conn[d] # idle[k] /\ d \in Clients /\ d # c
        BY <1>t, <3>4, <3>5 DEF ExclusiveConns, Holders
      <4> QED BY <1>t, <3>5, <3>9, <4>1 DEF ExclusiveConns
    <3>12. \A i, j \in DOMAIN idle' : idle'[i] = idle'[j] => i = j
      BY <1>t, <3>3 DEF ExclusiveConns
    <3>13. \A d \in Holders' : conn'[d] \in live' \ (IdleSet' \cup draining')
      <4>1. conn'[c] \in live' \ (IdleSet' \cup draining')
        BY <1>t, <3>4, <3>6, <3>7, <3>8, <3>9 DEF ExclusiveConns
      <4>2. \A d \in Holders : conn'[d] \in live' \ (IdleSet' \cup draining')
        BY <1>t, <3>5, <3>6, <3>7, <3>8, <3>9 DEF ExclusiveConns, Holders
      <4> QED BY <3>5, <4>1, <4>2
    <3>14. IdleSet' \cup draining' \subseteq live' /\ IdleSet' \cap draining' = {}
      BY <1>t, <3>6, <3>7, <3>8 DEF ExclusiveConns
    <3> QED BY <3>10, <3>11, <3>12, <3>13, <3>14 DEF ExclusiveConns
  <2>2. CASE CheckoutEmpty(c)
    <3>1. IdleSet' = {} /\ DOMAIN idle' = {}
      BY <2>2 DEF CheckoutEmpty, IdleSet
    <3>2. live' = live \ IdleSet /\ UNCHANGED <<conn, draining>>
      BY <2>2 DEF CheckoutEmpty, CloseAtServer, IdleSet
    <3>3. Holders' = Holders
      BY <1>t, <2>2 DEF CheckoutEmpty, Goto, Holders, Holding, TypeOK
    <3> QED BY <1>t, <3>1, <3>2, <3>3 DEF ExclusiveConns
  <2>3. CASE ConnectOk(c)
    <3>1. PICK h \in Conns \ live : live' = live \cup {h} /\ conn' = [conn EXCEPT ![c] = h]
      BY <2>3 DEF ConnectOk
    <3>2. Holders' = Holders \cup {c} /\ c \notin Holders
      BY <1>t, <2>3 DEF ConnectOk, Goto, Holders, Holding, TypeOK
    <3>3. UNCHANGED <<idle, draining>> /\ IdleSet' = IdleSet
      BY <2>3 DEF ConnectOk, inner, IdleSet
    <3>4. /\ conn'[c] = h
          /\ \A d \in Clients \ {c} : conn'[d] = conn[d]
      BY <1>t, <3>1 DEF TypeOK
    <3>5. \A d \in Holders : d \in Clients /\ conn[d] \in live /\ conn[d] # h /\ d # c
      BY <1>t, <3>1, <3>2 DEF ExclusiveConns, Holders
    <3>6. h \notin IdleSet \cup draining /\ h # NoConn
      BY <1>t, <3>1, NoConnAssumption DEF ExclusiveConns
    <3>7. /\ \A d \in Clients : (conn'[d] # NoConn) <=> (d \in Holders')
          /\ \A d, e \in Holders' : conn'[d] = conn'[e] => d = e
      BY <1>t, <3>2, <3>4, <3>5, <3>6 DEF ExclusiveConns
    <3>8. \A d \in Holders' : conn'[d] \in live' \ (IdleSet' \cup draining')
      BY <1>t, <3>1, <3>2, <3>3, <3>4, <3>5, <3>6 DEF ExclusiveConns
    <3> QED BY <1>t, <3>1, <3>3, <3>7, <3>8 DEF ExclusiveConns
  <2>4. CASE CheckinClosed(c) \/ RollbackErr(c)
    <3>1. Holders' = Holders \ {c} /\ c \in Holders
      BY <1>t, <2>4 DEF CheckinClosed, RollbackErr, Goto, Holders, Holding, TypeOK
    <3>2. /\ live' = live \ {conn[c]}
          /\ UNCHANGED <<idle, draining>> /\ IdleSet' = IdleSet
      BY <2>4 DEF CheckinClosed, RollbackErr, CloseAtServer, inner, IdleSet
    <3>3. conn' = [conn EXCEPT ![c] = NoConn]
      BY <2>4 DEF CheckinClosed, RollbackErr
    <3>4. /\ conn'[c] = NoConn
          /\ \A d \in Clients \ {c} : conn'[d] = conn[d]
      BY <1>t, <3>3 DEF TypeOK
    <3>5. Holders \subseteq Clients
      BY DEF Holders
    <3> QED BY <1>t, <3>1, <3>2, <3>4, <3>5 DEF ExclusiveConns
  <2>5. CASE ReturnToIdle(c)
    <3>1. Holders' = Holders \ {c} /\ c \in Holders /\ Holders \subseteq Clients
      BY <1>t, <2>5 DEF ReturnToIdle, Goto, Holders, Holding, TypeOK
    <3>2. conn[c] \in Conns /\ idle \in Seq(Conns) /\ Len(idle) \in Nat
      BY <1>t, <2>5, HeldOpen DEF ReturnToIdle, Holding, TypeOK
    <3>3. idle' = Append(idle, conn[c]) /\ UNCHANGED <<draining, live>>
      BY <2>5 DEF ReturnToIdle, server
    <3>4. /\ DOMAIN idle' = 1..(Len(idle) + 1) /\ DOMAIN idle = 1..Len(idle)
          /\ idle'[Len(idle) + 1] = conn[c]
          /\ \A i \in 1..Len(idle) : idle'[i] = idle[i]
      BY <3>2, <3>3
    <3>5. IdleSet' = IdleSet \cup {conn[c]}
      BY <3>2, <3>4 DEF IdleSet
    <3>6. conn[c] \notin IdleSet /\ conn[c] \notin draining /\ conn[c] \in live
      BY <1>t, <3>1 DEF ExclusiveConns
    <3>7. \A i, j \in DOMAIN idle' : idle'[i] = idle'[j] => i = j
      BY <1>t, <3>2, <3>4, <3>6 DEF IdleSet, ExclusiveConns
    <3>8. conn' = [conn EXCEPT ![c] = NoConn]
      BY <2>5 DEF ReturnToIdle
    <3>9. /\ conn'[c] = NoConn
          /\ \A d \in Clients \ {c} : conn'[d] = conn[d]
      BY <1>t, <3>8 DEF TypeOK
    <3>10. \A d \in Clients : (conn'[d] # NoConn) <=> (d \in Holders')
      BY <1>t, <3>1, <3>9 DEF ExclusiveConns
    <3>11. \A d, e \in Holders' : conn'[d] = conn'[e] => d = e
      BY <1>t, <3>1, <3>9 DEF ExclusiveConns
    <3>12. \A d \in Holders' : conn'[d] \in live' \ (IdleSet' \cup draining')
      BY <1>t, <3>1, <3>3, <3>5, <3>9 DEF ExclusiveConns
    <3>13. IdleSet' \cup draining' \subseteq live' /\ IdleSet' \cap draining' = {}
      BY <1>t, <3>3, <3>5, <3>6 DEF ExclusiveConns
    <3> QED BY <3>7, <3>10, <3>11, <3>12, <3>13 DEF ExclusiveConns
  <2>6. CASE Use(c) \/ Rollback(c)
    <3>1. Holders' = Holders
      BY <1>t, <2>6 DEF Use, Rollback, Goto, Holders, Holding, TypeOK
    <3>2. UNCHANGED <<idle, conn, draining, live>> /\ IdleSet' = IdleSet
      BY <2>6 DEF Use, Rollback, inner, IdleSet
    <3> QED BY <1>t, <3>1, <3>2 DEF ExclusiveConns
  <2>7. CASE \/ Checkout(c) \/ CheckoutClosed(c) \/ ConnectErr(c) \/ UndoReservation(c)
             \/ CheckoutTimeout(c) \/ Checkin(c) \/ CheckinOpen(c)
    <3>1. Holders' = Holders
      BY <1>t, <2>7 DEF Checkout, CheckoutClosed, ConnectErr, UndoReservation, CheckoutTimeout,
         Checkin, CheckinOpen, Goto, Holders, Holding, TypeOK
    <3>2. UNCHANGED <<idle, conn, draining, live>> /\ IdleSet' = IdleSet
      BY <2>7 DEF Checkout, CheckoutClosed, ConnectErr, UndoReservation, CheckoutTimeout,
         Checkin, CheckinOpen, inner, server, IdleSet
    <3> QED BY <1>t, <3>1, <3>2 DEF ExclusiveConns
  <2>8. CASE Discard(c) \/ CheckinNotify(c)
    <3>1. Holders' = Holders
      BY <1>t, <2>8, Notified DEF Discard, CheckinNotify, Holders, Holding
    <3>2. UNCHANGED <<idle, conn, draining, live>> /\ IdleSet' = IdleSet
      BY <2>8 DEF Discard, CheckinNotify, inner, server, IdleSet
    <3> QED BY <1>t, <3>1, <3>2 DEF ExclusiveConns
  <2> QED BY <1>1, <2>1, <2>2, <2>3, <2>4, <2>5, <2>6, <2>7, <2>8 DEF ClientNext
<1>2. CASE CloseBegin
  <2>1. IdleSet' = {} /\ DOMAIN idle' = {} /\ draining' = IdleSet
    BY <1>2 DEF CloseBegin, IdleSet
  <2>2. UNCHANGED <<conn, live>> /\ Holders' = Holders
    BY <1>2 DEF CloseBegin, server, Holders
  <2> QED BY <1>t, <2>1, <2>2 DEF ExclusiveConns
<1>3. CASE CloseDrain
  <2>1. live' = live \ draining /\ draining' = {}
    BY <1>3 DEF CloseDrain, CloseAtServer
  <2>2. UNCHANGED <<idle, conn>> /\ IdleSet' = IdleSet /\ Holders' = Holders
    BY <1>3 DEF CloseDrain, inner, IdleSet, Holders
  <2> QED BY <1>t, <2>1, <2>2 DEF ExclusiveConns
<1>4. CASE CloseNotifyAll
  <2>1. UNCHANGED <<idle, conn, draining, live>> /\ IdleSet' = IdleSet
    BY <1>4 DEF CloseNotifyAll, inner, server, IdleSet
  <2>2. Holders' = Holders
    BY <1>4 DEF CloseNotifyAll, Holders, Holding
  <2> QED BY <1>t, <2>1, <2>2 DEF ExclusiveConns
<1>5. CASE ServerDrops \/ UNCHANGED vars
  <2>1. UNCHANGED <<idle, conn, draining, live>> /\ IdleSet' = IdleSet /\ Holders' = Holders
    BY <1>5 DEF ServerDrops, vars, inner, server, IdleSet, Holders
  <2> QED BY <1>t, <2>1 DEF ExclusiveConns
<1> QED BY <1>1, <1>2, <1>3, <1>4, <1>5 DEF Next

\* What stays at the server stays as it was.
LEMMA OthersStay ==
  ASSUME TypeOK, NEW gone, CloseAtServer(gone)
  PROVE  /\ live' = live \ gone
         /\ \A g \in Conns \ gone : /\ g \in dirty' <=> g \in dirty
                                    /\ g \in inTxn' <=> g \in inTxn
                                    /\ late'[g] = late[g]
BY DEF CloseAtServer, TypeOK

\* Two clients do not hold the same connection, and what a client holds is not idle.
LEMMA HeldApart ==
  ASSUME TypeOK, ExclusiveConns, NEW c \in Clients, pc[c] \in Holding
  PROVE  /\ conn[c] \in Conns /\ conn[c] \in live /\ conn[c] \notin IdleSet \cup draining
         /\ \A d \in Clients : pc[d] \in Holding /\ conn[d] = conn[c] => d = c
BY HeldOpen DEF ExclusiveConns, Holders

\* A step that reads and sends on some connections only, none of them idle after
\* it, keeps what is known of the rest.
LEMMA CleanBut ==
  ASSUME PoolInv, NEW touched, live' \subseteq live, IdleSet' \subseteq IdleSet \ touched,
         \A g \in Conns \ touched : /\ g \in dirty' <=> g \in dirty
                                    /\ g \in inTxn' <=> g \in inTxn
                                    /\ late'[g] = late[g],
         \A g \in live' \cap touched : late'[g] = <<>> => (g \in dirty' <=> g \in inTxn'),
         \A d \in Clients : pc'[d] = "restoring" =>
            \/ pc[d] = "restoring" /\ conn'[d] = conn[d] /\ conn[d] \in Conns \ touched
            \/ late'[conn'[d]] = <<>> => conn'[d] \notin dirty'
  PROVE  Clean'
<1>1. live \subseteq Conns /\ IdleSet \subseteq Conns
  BY DEF PoolInv, TypeOK, ExclusiveConns
<1>2. StatusIsKnown'
  <2> SUFFICES ASSUME NEW g \in live', late'[g] = <<>> PROVE g \in dirty' <=> g \in inTxn'
    BY DEF StatusIsKnown, InStep
  <2>1. CASE g \in touched
    BY <2>1
  <2>2. CASE g \notin touched
    <3>1. g \in live /\ g \in Conns \ touched
      BY <1>1, <2>2
    <3>2. late[g] = <<>> /\ (g \in dirty' <=> g \in dirty) /\ (g \in inTxn' <=> g \in inTxn)
      BY <3>1
    <3> QED BY <3>1, <3>2 DEF PoolInv, Clean, StatusIsKnown, InStep
  <2> QED BY <2>1, <2>2
<1>3. IdleIsClean'
  <2> SUFFICES ASSUME NEW g \in IdleSet', late'[g] = <<>> PROVE g \notin dirty' \cup inTxn'
    BY DEF IdleIsClean, InStep
  <2>1. g \in IdleSet /\ g \in Conns \ touched
    BY <1>1
  <2>2. late[g] = <<>> /\ (g \in dirty' <=> g \in dirty) /\ (g \in inTxn' <=> g \in inTxn)
    BY <2>1
  <2>3. g \notin dirty /\ g \notin inTxn
    BY <2>1, <2>2 DEF PoolInv, Clean, IdleIsClean, InStep
  <2> QED BY <2>2, <2>3
<1>4. RestoringIsClean'
  <2> SUFFICES ASSUME NEW d \in Clients, pc'[d] = "restoring", late'[conn'[d]] = <<>> PROVE conn'[d] \notin dirty'
    BY DEF RestoringIsClean, InStep
  <2>1. CASE pc[d] = "restoring" /\ conn'[d] = conn[d] /\ conn[d] \in Conns \ touched
    <3>1. late[conn[d]] = <<>> /\ (conn[d] \in dirty' <=> conn[d] \in dirty)
      BY <2>1
    <3>2. conn[d] \notin dirty
      BY <2>1, <3>1 DEF PoolInv, Clean, RestoringIsClean, InStep
    <3> QED BY <2>1, <3>1, <3>2
  <2> QED BY <2>1
<1> QED BY <1>2, <1>3, <1>4 DEF Clean

\* No step puts a connection in the idle list in a transaction that the answers
\* that were read do not tell of.
LEMMA CleanStep == PoolInv /\ [Next]_vars => Clean'
<1> SUFFICES ASSUME PoolInv, [Next]_vars PROVE Clean'
  OBVIOUS
<1>t. TypeOK /\ ExclusiveConns
  BY DEF PoolInv
<1>a. /\ \A h \in live : late[h] = <<>> => (h \in dirty <=> h \in inTxn)
      /\ \A h \in IdleSet : late[h] = <<>> => h \notin dirty \cup inTxn
      /\ \A c \in Clients : pc[c] = "restoring" /\ late[conn[c]] = <<>> => conn[c] \notin dirty
  BY DEF PoolInv, Clean, StatusIsKnown, IdleIsClean, RestoringIsClean, InStep
<1>b. /\ live \subseteq Conns /\ dirty \subseteq live /\ inTxn \subseteq live /\ IdleSet \subseteq live
      /\ IdleSet \cap draining = {}
  BY <1>t DEF TypeOK, ExclusiveConns
<1>c. \A c \in Clients : pc[c] = "restoring" => pc[c] \in Holding
  BY DEF Holding
<1>d. ASSUME \A h \in live' : late'[h] = <<>> => (h \in dirty' <=> h \in inTxn'),
             \A h \in IdleSet' : late'[h] = <<>> => h \notin dirty' \cup inTxn',
             \A c \in Clients : pc'[c] = "restoring" /\ late'[conn'[c]] = <<>> => conn'[c] \notin dirty'
      PROVE  Clean'
  BY <1>d DEF Clean, StatusIsKnown, IdleIsClean, RestoringIsClean, InStep
<1>s. ASSUME \A c \in Clients : pc'[c] = "restoring" => pc[c] = "restoring" /\ conn'[c] = conn[c],
             IdleSet' \subseteq IdleSet, UNCHANGED server
      PROVE  Clean'
  <2>1. UNCHANGED <<live, dirty, inTxn, late>>
    BY <1>s DEF server
  <2> QED BY <1>a, <1>b, <1>d, <1>s, <2>1
<1>1. ASSUME NEW c \in Clients, ClientNext(c) PROVE Clean'
  <2>1. CASE CheckoutIdle(c)
    <3>1. PICK k \in 1..Len(idle) :
            LET gone == {idle[i] : i \in (k + 1)..Len(idle)}
            IN  /\ idle[k] \in Conns
                /\ idle' = SubSeq(idle, 1, k - 1)
                /\ live' = live \ gone /\ inTxn' = inTxn \ gone
                /\ conn' = [conn EXCEPT ![c] = idle[k]]
                /\ \A g \in Conns \ (gone \cup {idle[k]}) : late'[g] = late[g] /\ (g \in dirty' <=> g \in dirty)
                /\ idle[k] \notin gone /\ late'[idle[k]] = <<>> => (idle[k] \in dirty' <=> idle[k] \in inTxn)
      BY <1>t, <2>1, TakenFromIdle
    <3> DEFINE h == idle[k]
               gone == {idle[i] : i \in (k + 1)..Len(idle)}
    <3>2. k \in 1..Len(idle) /\ Len(idle) \in Nat /\ idle \in Seq(Conns)
      BY <1>t DEF TypeOK
    <3>3. /\ DOMAIN idle' = 1..(k - 1)
          /\ \A i \in 1..(k - 1) : idle'[i] = idle[i] /\ i \in DOMAIN idle /\ i # k
      BY <3>1, <3>2
    <3>4. \A i, j \in DOMAIN idle : idle[i] = idle[j] => i = j
      BY <1>t DEF ExclusiveConns
    <3>5. h \in IdleSet /\ gone \subseteq IdleSet /\ h \notin gone
      BY <3>2, <3>4 DEF IdleSet
    <3>6. IdleSet' \subseteq IdleSet \ (gone \cup {h})
      BY <3>2, <3>3, <3>4 DEF IdleSet
    <3>7. /\ live' = live \ gone /\ inTxn' = inTxn \ gone /\ conn' = [conn EXCEPT ![c] = h]
          /\ \A g \in Conns \ (gone \cup {h}) : late'[g] = late[g] /\ (g \in dirty' <=> g \in dirty)
          /\ late'[h] = <<>> => (h \in dirty' <=> h \in inTxn)
      BY <3>1, <3>5
    <3>8. \A d \in Clients : pc'[d] = "restoring" => /\ pc[d] = "restoring" /\ conn'[d] = conn[d]
                                                     /\ conn[d] \in Conns \ IdleSet
      <4>1. \A d \in Clients : pc'[d] = "restoring" => pc[d] = "restoring" /\ d # c
        BY <1>t, <2>1 DEF CheckoutIdle, Goto, TypeOK
      <4>2. \A d \in Clients : pc[d] = "restoring" => conn[d] \in Conns \ IdleSet
        BY <1>t, <1>c, HeldApart
      <4> QED BY <1>t, <3>7, <4>1, <4>2 DEF TypeOK
    <3> HIDE DEF h, gone
    <3> DEFINE touched == gone \cup {h}
    <3>9. \A g \in Conns \ touched : /\ g \in dirty' <=> g \in dirty
                                     /\ g \in inTxn' <=> g \in inTxn
                                     /\ late'[g] = late[g]
      BY <3>7
    <3>10. \A g \in live' \cap touched : late'[g] = <<>> => (g \in dirty' <=> g \in inTxn')
      <4> SUFFICES ASSUME late'[h] = <<>> PROVE h \in dirty' <=> h \in inTxn'
        BY <3>7
      <4>1. h \in inTxn' <=> h \in inTxn
        BY <3>5, <3>7
      <4> QED BY <3>7, <4>1
    <3>11. \A d \in Clients : pc'[d] = "restoring" => /\ pc[d] = "restoring" /\ conn'[d] = conn[d]
                                                      /\ conn[d] \in Conns \ touched
      BY <3>5, <3>8
    <3>12. live' \subseteq live /\ IdleSet' \subseteq IdleSet \ touched
      BY <3>6, <3>7
    <3> HIDE DEF touched
    <3> QED BY <3>9, <3>10, <3>11, <3>12, CleanBut
  <2>2. CASE CheckoutEmpty(c)
    <3>1. CloseAtServer(IdleSet) /\ IdleSet' = {} /\ UNCHANGED conn
      BY <2>2 DEF CheckoutEmpty, IdleSet
    <3>2. \A d \in Clients : pc'[d] = "restoring" => pc[d] = "restoring"
      BY <1>t, <2>2 DEF CheckoutEmpty, Goto, TypeOK
    <3>3. \A d \in Clients : pc[d] = "restoring" => conn[d] \in Conns \ IdleSet
      BY <1>t, <1>c, HeldApart
    <3>4. /\ live' = live \ IdleSet
          /\ \A g \in Conns \ IdleSet : /\ g \in dirty' <=> g \in dirty
                                        /\ g \in inTxn' <=> g \in inTxn
                                        /\ late'[g] = late[g]
      BY <1>t, <3>1, OthersStay
    <3> DEFINE touched == IdleSet
    <3>5. live' \subseteq live /\ live' \cap touched = {} /\ IdleSet' \subseteq IdleSet \ touched
      BY <3>1, <3>4
    <3>6. \A d \in Clients : pc'[d] = "restoring" => /\ pc[d] = "restoring" /\ conn'[d] = conn[d]
                                                     /\ conn[d] \in Conns \ touched
      BY <3>1, <3>2, <3>3
    <3>7. \A g \in Conns \ touched : /\ g \in dirty' <=> g \in dirty
                                     /\ g \in inTxn' <=> g \in inTxn
                                     /\ late'[g] = late[g]
      BY <3>4
    <3> HIDE DEF touched
    <3> QED BY <3>5, <3>6, <3>7, CleanBut
  <2>3. CASE ConnectOk(c)
    <3>1. PICK h \in Conns \ live : live' = live \cup {h} /\ conn' = [conn EXCEPT ![c] = h]
      BY <2>3 DEF ConnectOk
    <3>2. UNCHANGED <<dirty, inTxn, late>> /\ IdleSet' = IdleSet
      BY <2>3 DEF ConnectOk, inner, IdleSet
    <3>3. \A d \in Clients : pc'[d] = "restoring" => pc[d] = "restoring" /\ conn'[d] = conn[d]
      BY <1>t, <2>3, <3>1 DEF ConnectOk, Goto, TypeOK
    <3> QED BY <1>a, <1>b, <1>d, <3>1, <3>2, <3>3
  <2>4. CASE CheckinClosed(c) \/ RollbackErr(c)
    <3>1. CloseAtServer({conn[c]}) /\ pc[c] \in Holding /\ IdleSet' = IdleSet
      BY <2>4 DEF CheckinClosed, RollbackErr, Holding, inner, IdleSet
    <3>2. \A d \in Clients : pc'[d] = "restoring" => d # c /\ pc[d] = "restoring" /\ conn'[d] = conn[d]
      BY <1>t, <2>4 DEF CheckinClosed, RollbackErr, Goto, TypeOK
    <3>3. /\ conn[c] \notin IdleSet
          /\ \A d \in Clients : d # c /\ pc[d] = "restoring" => conn[d] \in Conns \ {conn[c]}
      BY <1>t, <1>c, <3>1, HeldApart
    <3>4. /\ live' = live \ {conn[c]}
          /\ \A g \in Conns \ {conn[c]} : /\ g \in dirty' <=> g \in dirty
                                          /\ g \in inTxn' <=> g \in inTxn
                                          /\ late'[g] = late[g]
      BY <1>t, <3>1, OthersStay
    <3> DEFINE touched == {conn[c]}
    <3>5. live' \subseteq live /\ live' \cap touched = {} /\ IdleSet' \subseteq IdleSet \ touched
      BY <3>1, <3>3, <3>4
    <3>6. \A d \in Clients : pc'[d] = "restoring" => /\ pc[d] = "restoring" /\ conn'[d] = conn[d]
                                                     /\ conn[d] \in Conns \ touched
      BY <3>2, <3>3
    <3>7. \A g \in Conns \ touched : /\ g \in dirty' <=> g \in dirty
                                     /\ g \in inTxn' <=> g \in inTxn
                                     /\ late'[g] = late[g]
      BY <3>4
    <3> HIDE DEF touched
    <3> QED BY <3>5, <3>6, <3>7, CleanBut
  <2>5. CASE ReturnToIdle(c)
    <3>1. /\ pc[c] \in Holding /\ idle' = Append(idle, conn[c]) /\ UNCHANGED server
          /\ pc[c] = "restoring" \/ conn[c] \notin dirty
      BY <2>5 DEF ReturnToIdle, Holding
    <3>2. conn[c] \in live /\ late[conn[c]] = <<>> => conn[c] \notin dirty \cup inTxn
      BY <1>a, <3>1
    <3>3. conn[c] \in live
      BY <1>t, <3>1, HeldOpen
    <3>4. IdleSet' \subseteq IdleSet \cup {conn[c]}
      <4>1. idle \in Seq(Conns) /\ conn[c] \in Conns /\ Len(idle) \in Nat
        BY <1>b, <1>t, <3>3 DEF TypeOK
      <4>2. /\ DOMAIN idle' = 1..(Len(idle) + 1) /\ DOMAIN idle = 1..Len(idle)
            /\ idle'[Len(idle) + 1] = conn[c] /\ \A i \in 1..Len(idle) : idle'[i] = idle[i]
        BY <3>1, <4>1
      <4> QED BY <4>1, <4>2 DEF IdleSet
    <3>5. \A d \in Clients : pc'[d] = "restoring" => pc[d] = "restoring" /\ conn'[d] = conn[d]
      BY <1>t, <2>5 DEF ReturnToIdle, Goto, TypeOK
    <3>6. UNCHANGED <<live, dirty, inTxn, late>>
      BY <3>1 DEF server
    <3> QED BY <1>a, <1>d, <3>2, <3>3, <3>4, <3>5, <3>6
  <2>6. CASE Use(c)
    <3>1. pc[c] \in Holding /\ UNCHANGED <<pc, conn, live>> /\ IdleSet' = IdleSet
      BY <2>6 DEF Use, Holding, inner, IdleSet
    <3>2. PICK after \in BOOLEAN : Answered(conn[c], after) \/ GaveUp(conn[c], after)
      BY <2>6 DEF Use
    <3>3. /\ conn[c] \in live /\ conn[c] \notin IdleSet
          /\ \A d \in Clients : pc[d] = "restoring" => conn[d] \in Conns \ {conn[c]}
      BY <1>t, <1>c, <2>6, <3>1, HeldApart DEF Use
    <3>4. /\ late'[conn[c]] = <<>> => (conn[c] \in dirty' <=> conn[c] \in inTxn')
          /\ \A g \in Conns \ {conn[c]} : /\ g \in dirty' <=> g \in dirty
                                          /\ g \in inTxn' <=> g \in inTxn
                                          /\ late'[g] = late[g]
      BY <1>t, <3>2, <3>3, AnswerRead, AnswerLeft
    <3> DEFINE touched == {conn[c]}
    <3>5. live' \subseteq live /\ IdleSet' \subseteq IdleSet \ touched
      BY <3>1, <3>3
    <3>6. \A d \in Clients : pc'[d] = "restoring" => /\ pc[d] = "restoring" /\ conn'[d] = conn[d]
                                                     /\ conn[d] \in Conns \ touched
      BY <3>1, <3>3
    <3>7. \A g \in live' \cap touched : late'[g] = <<>> => (g \in dirty' <=> g \in inTxn')
      BY <3>4
    <3>8. \A g \in Conns \ touched : /\ g \in dirty' <=> g \in dirty
                                     /\ g \in inTxn' <=> g \in inTxn
                                     /\ late'[g] = late[g]
      BY <3>4
    <3> HIDE DEF touched
    <3> QED BY <3>5, <3>6, <3>7, <3>8, CleanBut
  <2>7. CASE Rollback(c)
    <3>1. /\ pc[c] \in Holding /\ UNCHANGED <<conn, live>> /\ IdleSet' = IdleSet
          /\ Answered(conn[c], FALSE)
      BY <2>7 DEF Rollback, Holding, inner, IdleSet
    <3>2. \A d \in Clients \ {c} : pc'[d] = pc[d]
      BY <1>t, <2>7 DEF Rollback, Goto, TypeOK
    <3>3. /\ conn[c] \in live /\ conn[c] \notin IdleSet
          /\ \A d \in Clients \ {c} : pc[d] = "restoring" => conn[d] \in Conns \ {conn[c]}
      BY <1>t, <1>c, <3>1, HeldApart
    <3>4. /\ late'[conn[c]] = <<>> => conn[c] \notin dirty' /\ conn[c] \notin inTxn'
          /\ \A g \in Conns \ {conn[c]} : /\ g \in dirty' <=> g \in dirty
                                          /\ g \in inTxn' <=> g \in inTxn
                                          /\ late'[g] = late[g]
      BY <1>t, <3>1, <3>3, AnswerRead
    <3> DEFINE touched == {conn[c]}
    <3>5. live' \subseteq live /\ IdleSet' \subseteq IdleSet \ touched
      BY <3>1, <3>3
    <3>6. \A d \in Clients : pc'[d] = "restoring" =>
            \/ pc[d] = "restoring" /\ conn'[d] = conn[d] /\ conn[d] \in Conns \ touched
            \/ late'[conn'[d]] = <<>> => conn'[d] \notin dirty'
      BY <3>1, <3>2, <3>3, <3>4
    <3>7. \A g \in live' \cap touched : late'[g] = <<>> => (g \in dirty' <=> g \in inTxn')
      BY <3>4
    <3>8. \A g \in Conns \ touched : /\ g \in dirty' <=> g \in dirty
                                     /\ g \in inTxn' <=> g \in inTxn
                                     /\ late'[g] = late[g]
      BY <3>4
    <3> HIDE DEF touched
    <3> QED BY <3>5, <3>6, <3>7, <3>8, CleanBut
  <2>8. CASE \/ Checkout(c) \/ CheckoutClosed(c) \/ ConnectErr(c) \/ UndoReservation(c)
             \/ CheckoutTimeout(c) \/ Checkin(c) \/ CheckinOpen(c)
    <3>1. \A d \in Clients : pc'[d] = "restoring" => pc[d] = "restoring"
      BY <1>t, <2>8 DEF Checkout, CheckoutClosed, ConnectErr, UndoReservation, CheckoutTimeout,
         Checkin, CheckinOpen, Goto, TypeOK
    <3>2. UNCHANGED <<conn, server>> /\ IdleSet' = IdleSet
      BY <2>8 DEF Checkout, CheckoutClosed, ConnectErr, UndoReservation, CheckoutTimeout,
         Checkin, CheckinOpen, inner, IdleSet
    <3> QED BY <1>s, <3>1, <3>2
  <2>9. CASE Discard(c) \/ CheckinNotify(c)
    <3>1. \A d \in Clients : pc'[d] = "restoring" => pc[d] = "restoring"
      BY <1>t, <2>9, Notified DEF Discard, CheckinNotify
    <3>2. UNCHANGED <<conn, server>> /\ IdleSet' = IdleSet
      BY <2>9 DEF Discard, CheckinNotify, inner, IdleSet
    <3> QED BY <1>s, <3>1, <3>2
  <2> QED BY <1>1, <2>1, <2>2, <2>3, <2>4, <2>5, <2>6, <2>7, <2>8, <2>9 DEF ClientNext
<1>2. CASE CloseBegin
  <2>1. IdleSet' = {} /\ UNCHANGED <<pc, conn, server>>
    BY <1>2 DEF CloseBegin, IdleSet
  <2> QED BY <1>s, <2>1
<1>3. CASE CloseDrain
  <2>1. CloseAtServer(draining) /\ IdleSet' = IdleSet /\ UNCHANGED <<pc, conn>>
    BY <1>3 DEF CloseDrain, inner, IdleSet
  <2>2. \A d \in Clients : pc[d] = "restoring" => conn[d] \in Conns \ draining
    BY <1>t, <1>c, HeldApart
  <2>3. /\ live' = live \ draining
        /\ \A g \in Conns \ draining : /\ g \in dirty' <=> g \in dirty
                                       /\ g \in inTxn' <=> g \in inTxn
                                       /\ late'[g] = late[g]
    BY <1>t, <2>1, OthersStay
  <2> DEFINE touched == draining
  <2>4. live' \subseteq live /\ live' \cap touched = {} /\ IdleSet' \subseteq IdleSet \ touched
    BY <1>b, <2>1, <2>3
  <2>5. \A d \in Clients : pc'[d] = "restoring" => /\ pc[d] = "restoring" /\ conn'[d] = conn[d]
                                                   /\ conn[d] \in Conns \ touched
    BY <2>1, <2>2
  <2>6. \A g \in Conns \ touched : /\ g \in dirty' <=> g \in dirty
                                   /\ g \in inTxn' <=> g \in inTxn
                                   /\ late'[g] = late[g]
    BY <2>3
  <2> HIDE DEF touched
  <2> QED BY <2>4, <2>5, <2>6, CleanBut
<1>4. CASE CloseNotifyAll
  <2>1. \A d \in Clients : pc'[d] = "restoring" => pc[d] = "restoring"
    BY <1>4 DEF CloseNotifyAll
  <2>2. UNCHANGED <<conn, server>> /\ IdleSet' = IdleSet
    BY <1>4 DEF CloseNotifyAll, inner, IdleSet
  <2> QED BY <1>s, <2>1, <2>2
<1>5. CASE ServerDrops
  <2>1. UNCHANGED <<pc, conn, live, dirty, inTxn, late>> /\ IdleSet' = IdleSet
    BY <1>5 DEF ServerDrops, inner, IdleSet
  <2> QED BY <1>a, <1>d, <2>1
<1>6. CASE UNCHANGED vars
  <2>1. UNCHANGED <<pc, conn, server>> /\ IdleSet' = IdleSet
    BY <1>6 DEF vars, inner, IdleSet
  <2> QED BY <1>s, <2>1
<1> QED BY <1>1, <1>2, <1>3, <1>4, <1>5, <1>6 DEF Next

-----------------------------------------------------------------------------
\* The pool starts with min_conns idle connections and nobody inside.
LEMMA PoolStarts == Init => PoolInv
<1> SUFFICES ASSUME Init PROVE PoolInv
  OBVIOUS
<1>1. idle \in Seq(Conns) /\ Len(idle) = MinConns /\ DOMAIN idle = 1..MinConns
  BY BoundsAssumption DEF Init
<1>2. Occupants = {} /\ Holders = {}
  BY DEF Init, Occupants, Occupying, Holders, Holding
<1>3. Cardinality(Occupants) = 0
  BY <1>2, FS_EmptySet
<1>4. IdleSet = live
  BY <1>1 DEF Init, IdleSet
<1>5. TypeOK
  <2>1. active_count \in Nat /\ total_created \in Nat /\ closed \in BOOLEAN
    BY BoundsAssumption DEF Init
  <2>2. /\ pc \in [Clients -> Locations]
        /\ conn \in [Clients -> Conns \cup {NoConn}]
        /\ closer \in {"open", "drain", "notify", "done"}
    BY DEF Init, Locations
  <2>3. live \in SUBSET Conns
    BY <1>1, BoundsAssumption DEF Init
  <2>4. /\ draining \in SUBSET Conns /\ dead \in SUBSET live /\ dirty \in SUBSET live
        /\ inTxn \in SUBSET live /\ late \in [Conns -> Seq(BOOLEAN)]
    BY DEF Init
  <2> QED BY <1>1, <2>1, <2>2, <2>3, <2>4 DEF TypeOK
<1>6. SlotAccounting
  BY <1>1, <1>3, BoundsAssumption DEF Init, SlotAccounting
<1>7. ExclusiveConns
  BY <1>1, <1>2, <1>4 DEF Init, ExclusiveConns
<1>8. Clean
  BY DEF Init, Clean, StatusIsKnown, IdleIsClean, RestoringIsClean
<1> QED BY <1>5, <1>6, <1>7, <1>8 DEF PoolInv

LEMMA Invariance == Spec => []PoolInv
<1>1. PoolInv /\ [Next]_vars => PoolInv'
  BY TypeStep, SlotStep, ExclusiveStep, CleanStep DEF PoolInv
<1> QED BY <1>1, PoolStarts, PTL DEF Spec

\* Neither counter of the pool is lowered below zero (they are unsigned), and
\* every client, connection and list stays what it is meant to be.
THEOREM PoolTypeCorrect == Spec => []TypeOK
<1>1. PoolInv => TypeOK
  BY DEF PoolInv
<1> QED BY <1>1, Invariance, PTL

\* The pool accounts for at most max_conns slots, and while it is open for
\* exactly those that are idle or occupied by a client.
THEOREM SlotsAccounted == Spec => []SlotAccounting
<1>1. PoolInv => SlotAccounting
  BY DEF PoolInv
<1> QED BY <1>1, Invariance, PTL

\* A connection is in one place only: with one client, in the idle list once,
\* or with the closer.
THEOREM Exclusive == Spec => []ExclusiveConns
<1>1. PoolInv => ExclusiveConns
  BY DEF PoolInv
<1> QED BY <1>1, Invariance, PTL

\* As long as every answer of a connection has been read, the client's status of
\* it is the server's, and as an idle one it is outside every transaction.
THEOREM IdleClean == Spec => [](StatusIsKnown /\ IdleIsClean)
<1>1. PoolInv => StatusIsKnown /\ IdleIsClean
  BY DEF PoolInv, Clean
<1> QED BY <1>1, Invariance, PTL

-----------------------------------------------------------------------------
\* Why notify_all is enough: closed is set before it, and a client that finds
\* it set does not wait.
ClosedFirst == closer # "open" => closed

\* Nobody is left waiting by close.
THEOREM CloseWakes == Spec => []CloseWakesAll
<1>1. Init => ClosedFirst /\ CloseWakesAll
  BY DEF Init, ClosedFirst, CloseWakesAll
<1>2. TypeOK /\ TypeOK' /\ ClosedFirst /\ CloseWakesAll /\ [Next]_vars
         => ClosedFirst' /\ CloseWakesAll'
  <2> SUFFICES ASSUME TypeOK, TypeOK', ClosedFirst, CloseWakesAll, [Next]_vars
               PROVE  ClosedFirst' /\ CloseWakesAll'
    OBVIOUS
  <2>1. ASSUME NEW c \in Clients, ClientNext(c) PROVE ClosedFirst' /\ CloseWakesAll'
    <3>1. UNCHANGED <<closed, closer>>
      BY <2>1 DEF ClientNext, Checkout, CheckoutClosed, CheckoutIdle, CheckoutEmpty, ConnectOk,
         ConnectErr, UndoReservation, CheckoutTimeout, Use, Checkin, CheckinClosed, CheckinOpen,
         Rollback, RollbackErr, Discard, ReturnToIdle, CheckinNotify, inner
    <3>2. CASE Discard(c) \/ CheckinNotify(c)
      BY <3>1, <3>2, Notified DEF Discard, CheckinNotify, ClosedFirst, CloseWakesAll
    <3>3. CASE CheckoutEmpty(c)
      BY <3>1, <3>3 DEF CheckoutEmpty, ClosedFirst, CloseWakesAll
    <3>4. CASE \/ Checkout(c) \/ CheckoutClosed(c) \/ CheckoutIdle(c) \/ ConnectOk(c)
               \/ ConnectErr(c) \/ UndoReservation(c) \/ CheckoutTimeout(c) \/ Checkin(c)
               \/ CheckinClosed(c) \/ CheckinOpen(c) \/ RollbackErr(c) \/ ReturnToIdle(c)
               \/ Use(c) \/ Rollback(c)
      <4>1. \A d \in Clients : pc'[d] = "waiting" => pc[d] = "waiting"
        BY <3>4 DEF TypeOK, Checkout, CheckoutClosed, CheckoutIdle, ConnectOk, ConnectErr,
           UndoReservation, CheckoutTimeout, Checkin, CheckinClosed, CheckinOpen, RollbackErr,
           ReturnToIdle, Use, Rollback, Goto
      <4> QED BY <3>1, <4>1 DEF ClosedFirst, CloseWakesAll
    <3> QED BY <2>1, <3>2, <3>3, <3>4 DEF ClientNext
  <2>2. CASE CloseBegin
    BY <2>2 DEF CloseBegin, ClosedFirst, CloseWakesAll
  <2>3. CASE CloseDrain
    BY <2>3 DEF CloseDrain, inner, ClosedFirst, CloseWakesAll
  <2>4. CASE CloseNotifyAll
    BY <2>4 DEF CloseNotifyAll, inner, ClosedFirst, CloseWakesAll
  <2>5. CASE ServerDrops \/ UNCHANGED vars
    BY <2>5 DEF ServerDrops, vars, inner, ClosedFirst, CloseWakesAll
  <2> QED BY <2>1, <2>2, <2>3, <2>4, <2>5 DEF Next
<1> QED BY <1>1, <1>2, PoolTypeCorrect, PTL DEF Spec
-----------------------------------------------------------------------------
(* The bound on open connections.  Close empties the idle list and leaves  *)
(* the counters alone, so the slots of what it has still to close stay     *)
(* taken until they are closed.                                            *)

\* Every open connection is idle, with a client, or with the closer.
Placed == /\ live \subseteq IdleSet \cup draining \cup {conn[c] : c \in Holders}
          /\ closer = "open" => draining = {}

\* The connections close has still to close are accounted for.
Reserved == /\ IsFiniteSet(draining)
            /\ total_created >= active_count + Len(idle) + Cardinality(draining)

\* The idle list has no more members than it is long.
LEMMA IdleCount ==
  ASSUME TypeOK
  PROVE  IsFiniteSet(IdleSet) /\ Cardinality(IdleSet) <= Len(idle) /\ Len(idle) \in Nat
<1>1. Len(idle) \in Nat /\ DOMAIN idle = 1..Len(idle) /\ idle \in Seq(Conns)
  BY DEF TypeOK
<1>2. IsFiniteSet(DOMAIN idle) /\ Cardinality(DOMAIN idle) = Len(idle)
  BY SMTT(30), <1>1, FS_Interval
<1>3. idle \in [DOMAIN idle -> IdleSet]
  BY <1>1 DEF IdleSet
<1>4. idle \in Surjection(DOMAIN idle, IdleSet)
  BY <1>3 DEF Surjection, IdleSet
<1> QED BY <1>1, <1>2, <1>4, FS_Surjection

\* Clients hold no more connections than there are clients that occupy a slot.
LEMMA HeldCount ==
  LET taken == {conn[c] : c \in Holders}
  IN  IsFiniteSet(taken) /\ Cardinality(taken) <= Cardinality(Occupants)
<1> DEFINE taken == {conn[c] : c \in Holders}
<1>1. Holders \subseteq Occupants
  BY DEF Holders, Occupants, Holding, Occupying
<1>2. IsFiniteSet(Holders) /\ Cardinality(Holders) <= Cardinality(Occupants)
  BY <1>1, OccupantsFinite, FS_Subset
<1>3. [c \in Holders |-> conn[c]] \in Surjection(Holders, taken)
  BY DEF Surjection
<1>4. IsFiniteSet(taken) /\ Cardinality(taken) <= Cardinality(Holders)
  BY <1>2, <1>3, FS_Surjection
<1>5. Cardinality(taken) \in Nat /\ Cardinality(Holders) \in Nat
  BY <1>2, <1>4, FS_CardinalityType
<1> QED BY <1>2, <1>4, <1>5, OccupantsFinite

\* Every step keeps the slots of what is being closed reserved.
LEMMA ReservedStep == PoolInv /\ Reserved /\ [Next]_vars => Reserved'
<1> SUFFICES ASSUME PoolInv, Reserved, [Next]_vars PROVE Reserved'
  OBVIOUS
<1>t. TypeOK
  BY DEF PoolInv
<1> DEFINE taken == active_count + Len(idle) + Cardinality(draining)
<1>n. /\ active_count \in Nat /\ total_created \in Nat /\ Len(idle) \in Nat
      /\ IsFiniteSet(draining) /\ Cardinality(draining) \in Nat /\ total_created >= taken
  BY <1>t, FS_CardinalityType DEF TypeOK, Reserved
<1>1. ASSUME NEW c \in Clients, ClientNext(c) PROVE Reserved'
  <2>d. UNCHANGED draining
    BY <1>1 DEF ClientNext, Checkout, CheckoutClosed, CheckoutIdle, CheckoutEmpty, ConnectOk,
       ConnectErr, UndoReservation, CheckoutTimeout, Use, Checkin, CheckinClosed, CheckinOpen,
       Rollback, RollbackErr, Discard, ReturnToIdle, CheckinNotify
  <2>1. CASE CheckoutIdle(c)
    <3>1. PICK k \in 1..Len(idle) : /\ idle' = SubSeq(idle, 1, k - 1)
                                    /\ total_created' = total_created - (Len(idle) - k)
      BY <1>t, <2>1, TakenFromIdle
    <3>2. k \in 1..Len(idle)
      OBVIOUS
    <3>3. Len(idle') = k - 1
      BY <1>t, <3>1, <3>2 DEF TypeOK
    <3>4. active_count' = active_count + 1
      BY <2>1 DEF CheckoutIdle
    <3> QED BY <1>n, <2>d, <3>1, <3>2, <3>3, <3>4 DEF Reserved
  <2>2. CASE CheckoutEmpty(c)
    <3>1. Len(idle') = 0
      BY <2>2 DEF CheckoutEmpty
    <3>2. \/ /\ total_created' = total_created - Len(idle) + 1
             /\ active_count' = active_count + 1
          \/ total_created' = total_created - Len(idle) /\ UNCHANGED active_count
      BY <2>2 DEF CheckoutEmpty
    <3> QED BY <1>n, <2>d, <3>1, <3>2 DEF Reserved
  <2>3. CASE UndoReservation(c) \/ Discard(c)
    <3>1. /\ total_created' = total_created - 1 /\ active_count' = active_count - 1
          /\ UNCHANGED idle
      BY <2>3 DEF UndoReservation, Discard
    <3> QED BY <1>n, <2>d, <3>1 DEF Reserved
  <2>4. CASE ReturnToIdle(c)
    <3>1. active_count' = active_count - 1 /\ UNCHANGED total_created
      BY <2>4 DEF ReturnToIdle
    <3>2. Len(idle') = Len(idle) + 1
      BY <1>t, <2>4, HeldOpen DEF PoolInv, ReturnToIdle, Holding, TypeOK
    <3> QED BY <1>n, <2>d, <3>1, <3>2 DEF Reserved
  <2>5. CASE \/ Checkout(c) \/ CheckoutClosed(c) \/ ConnectOk(c) \/ ConnectErr(c)
             \/ CheckoutTimeout(c) \/ Use(c) \/ Checkin(c) \/ CheckinClosed(c)
             \/ CheckinOpen(c) \/ Rollback(c) \/ RollbackErr(c) \/ CheckinNotify(c)
    <3>1. UNCHANGED <<idle, active_count, total_created>>
      BY <2>5 DEF Checkout, CheckoutClosed, ConnectOk, ConnectErr, CheckoutTimeout, Use,
         Checkin, CheckinClosed, CheckinOpen, Rollback, RollbackErr, CheckinNotify, inner
    <3> QED BY <1>n, <2>d, <3>1 DEF Reserved
  <2> QED BY <1>1, <2>1, <2>2, <2>3, <2>4, <2>5 DEF ClientNext
<1>2. CASE CloseBegin
  <2>1. /\ Len(idle') = 0 /\ UNCHANGED <<active_count, total_created>>
        /\ draining' = IdleSet
    BY <1>2 DEF CloseBegin, IdleSet
  <2>2. IsFiniteSet(IdleSet) /\ Cardinality(IdleSet) <= Len(idle) /\ Cardinality(IdleSet) \in Nat
    BY <1>t, IdleCount, FS_CardinalityType
  <2> QED BY <1>n, <2>1, <2>2 DEF Reserved
<1>3. CASE CloseDrain
  <2>1. draining' = {} /\ UNCHANGED <<idle, active_count, total_created>>
    BY <1>3 DEF CloseDrain, inner
  <2> QED BY <1>n, <2>1, FS_EmptySet DEF Reserved
<1>4. CASE CloseNotifyAll \/ ServerDrops \/ UNCHANGED vars
  <2>1. UNCHANGED <<idle, active_count, total_created, draining>>
    BY <1>4 DEF CloseNotifyAll, ServerDrops, vars, inner
  <2> QED BY <1>n, <2>1 DEF Reserved
<1> QED BY <1>1, <1>2, <1>3, <1>4 DEF Next
\* Every step keeps track of the open connections.
LEMMA PlacedStep == PoolInv /\ Placed /\ [Next]_vars => Placed'
<1> SUFFICES ASSUME PoolInv, Placed, [Next]_vars PROVE Placed'
  OBVIOUS
<1>t. TypeOK
  BY DEF PoolInv
<1> DEFINE taken == {conn[c] : c \in Holders}
<1>1. ASSUME NEW c \in Clients, ClientNext(c) PROVE Placed'
  <2>d. UNCHANGED <<draining, closer>>
    BY <1>1 DEF ClientNext, Checkout, CheckoutClosed, CheckoutIdle, CheckoutEmpty, ConnectOk,
       ConnectErr, UndoReservation, CheckoutTimeout, Use, Checkin, CheckinClosed, CheckinOpen,
       Rollback, RollbackErr, Discard, ReturnToIdle, CheckinNotify
  <2>1. CASE CheckoutIdle(c)
    <3>1. PICK k \in 1..Len(idle) : /\ idle' = SubSeq(idle, 1, k - 1)
                                    /\ live' = live \ {idle[i] : i \in (k + 1)..Len(idle)}
                                    /\ conn' = [conn EXCEPT ![c] = idle[k]]
      BY <1>t, <2>1, TakenFromIdle
    <3>2. k \in 1..Len(idle) /\ Len(idle) \in Nat /\ idle \in Seq(Conns)
      BY <1>t DEF TypeOK
    <3>3. DOMAIN idle' = 1..(k - 1) /\ \A i \in 1..(k - 1) : idle'[i] = idle[i]
      BY <3>1, <3>2
    <3>4. IdleSet \subseteq IdleSet' \cup {idle[k]} \cup {idle[i] : i \in (k + 1)..Len(idle)}
      BY <3>2, <3>3 DEF IdleSet
    <3>5. Holders' = Holders \cup {c} /\ c \notin Holders
      BY <1>t, <2>1 DEF CheckoutIdle, Goto, Holders, Holding, TypeOK
    <3>6. conn'[c] = idle[k] /\ \A d \in Holders : conn'[d] = conn[d]
      BY <1>t, <3>1, <3>5 DEF TypeOK, Holders
    <3>7. taken' = taken \cup {idle[k]}
      BY <3>5, <3>6
    <3> QED BY <2>d, <3>1, <3>4, <3>7 DEF Placed
  <2>2. CASE CheckoutEmpty(c)
    <3>1. live' = live \ IdleSet /\ UNCHANGED conn
      BY <2>2 DEF CheckoutEmpty, CloseAtServer, IdleSet
    <3>2. Holders' = Holders
      BY <1>t, <2>2 DEF CheckoutEmpty, Goto, Holders, Holding, TypeOK
    <3> QED BY <2>d, <3>1, <3>2 DEF Placed
  <2>3. CASE ConnectOk(c)
    <3>1. PICK h \in Conns \ live : live' = live \cup {h} /\ conn' = [conn EXCEPT ![c] = h]
      BY <2>3 DEF ConnectOk
    <3>2. Holders' = Holders \cup {c} /\ c \notin Holders /\ IdleSet' = IdleSet
      BY <1>t, <2>3 DEF ConnectOk, Goto, Holders, Holding, TypeOK, IdleSet, inner
    <3>3. conn'[c] = h /\ \A d \in Holders : conn'[d] = conn[d]
      BY <1>t, <3>1, <3>2 DEF TypeOK, Holders
    <3>4. taken' = taken \cup {h}
      BY <3>2, <3>3
    <3> QED BY <2>d, <3>1, <3>2, <3>4 DEF Placed
  <2>4. CASE CheckinClosed(c) \/ RollbackErr(c)
    <3>1. Holders' = Holders \ {c} /\ IdleSet' = IdleSet
      BY <1>t, <2>4 DEF CheckinClosed, RollbackErr, Goto, Holders, Holding, TypeOK, IdleSet, inner
    <3>2. live' = live \ {conn[c]}
      BY <2>4 DEF CheckinClosed, RollbackErr, CloseAtServer
    <3>3. conn' = [conn EXCEPT ![c] = NoConn]
      BY <2>4 DEF CheckinClosed, RollbackErr
    <3>4. \A d \in Holders \ {c} : conn'[d] = conn[d]
      BY <1>t, <3>3 DEF TypeOK, Holders
    <3>5. taken \ {conn[c]} \subseteq taken'
      BY <3>1, <3>4
    <3> QED BY <2>d, <3>1, <3>2, <3>5 DEF Placed
  <2>5. CASE ReturnToIdle(c)
    <3>1. conn[c] \in Conns /\ idle \in Seq(Conns) /\ Len(idle) \in Nat
      BY <1>t, <2>5, HeldOpen DEF PoolInv, ReturnToIdle, Holding, TypeOK
    <3>2. /\ idle' = Append(idle, conn[c]) /\ UNCHANGED live
          /\ conn' = [conn EXCEPT ![c] = NoConn]
      BY <2>5 DEF ReturnToIdle, server
    <3>3. /\ DOMAIN idle' = 1..(Len(idle) + 1) /\ idle'[Len(idle) + 1] = conn[c]
          /\ \A i \in 1..Len(idle) : idle'[i] = idle[i]
      BY <3>1, <3>2
    <3>4. IdleSet' = IdleSet \cup {conn[c]}
      BY <3>1, <3>3 DEF IdleSet
    <3>5. Holders' = Holders \ {c}
      BY <1>t, <2>5 DEF ReturnToIdle, Goto, Holders, Holding, TypeOK
    <3>6. \A d \in Holders \ {c} : conn'[d] = conn[d]
      BY <1>t, <3>2 DEF TypeOK, Holders
    <3>7. taken \subseteq taken' \cup {conn[c]}
      BY <3>5, <3>6
    <3> QED BY <2>d, <3>2, <3>4, <3>7 DEF Placed
  <2>6. CASE \/ Checkout(c) \/ CheckoutClosed(c) \/ ConnectErr(c) \/ UndoReservation(c)
             \/ CheckoutTimeout(c) \/ Checkin(c) \/ CheckinOpen(c) \/ Use(c) \/ Rollback(c)
             \/ Discard(c) \/ CheckinNotify(c)
    <3>1. Holders' = Holders
      <4>1. CASE Discard(c) \/ CheckinNotify(c)
        BY <1>t, <4>1, Notified DEF Discard, CheckinNotify, Holders, Holding
      <4>2. CASE ~(Discard(c) \/ CheckinNotify(c))
        BY <1>t, <2>6, <4>2 DEF Checkout, CheckoutClosed, ConnectErr, UndoReservation,
           CheckoutTimeout, Checkin, CheckinOpen, Use, Rollback, Goto, Holders, Holding, TypeOK
      <4> QED BY <4>1, <4>2
    <3>2. UNCHANGED <<conn, live>> /\ IdleSet' = IdleSet
      BY <2>6 DEF Checkout, CheckoutClosed, ConnectErr, UndoReservation, CheckoutTimeout,
         Checkin, CheckinOpen, Use, Rollback, Discard, CheckinNotify, inner, server, IdleSet
    <3> QED BY <2>d, <3>1, <3>2 DEF Placed
  <2> QED BY <1>1, <2>1, <2>2, <2>3, <2>4, <2>5, <2>6 DEF ClientNext
<1>2. CASE CloseBegin
  <2>1. draining' = IdleSet /\ closer' = "drain" /\ UNCHANGED <<conn, live>> /\ closer = "open"
    BY <1>2 DEF CloseBegin, server, IdleSet
  <2>2. Holders' = Holders
    BY <1>2 DEF CloseBegin, Holders
  <2> QED BY <2>1, <2>2 DEF Placed
<1>3. CASE CloseDrain
  <2>1. live' = live \ draining /\ closer' = "notify" /\ UNCHANGED conn
    BY <1>3 DEF CloseDrain, CloseAtServer
  <2>2. Holders' = Holders /\ IdleSet' = IdleSet
    BY <1>3 DEF CloseDrain, inner, Holders, IdleSet
  <2> QED BY <2>1, <2>2 DEF Placed
<1>4. CASE CloseNotifyAll
  <2>1. closer' = "done" /\ UNCHANGED <<conn, live, draining>> /\ IdleSet' = IdleSet
    BY <1>4 DEF CloseNotifyAll, inner, server, IdleSet
  <2>2. Holders' = Holders
    BY <1>4 DEF CloseNotifyAll, Holders, Holding
  <2> QED BY <2>1, <2>2 DEF Placed
<1>5. CASE ServerDrops \/ UNCHANGED vars
  <2>1. UNCHANGED <<conn, live, draining, closer>> /\ IdleSet' = IdleSet /\ Holders' = Holders
    BY <1>5 DEF ServerDrops, vars, inner, server, IdleSet, Holders
  <2> QED BY <2>1 DEF Placed
<1> QED BY <1>1, <1>2, <1>3, <1>4, <1>5 DEF Next

\* The database never has more than max_conns connections of the pool open,
\* whatever fails and whoever closes the pool while connections are in use.
THEOREM ServerBounded == Spec => []ServerBound
<1>1. Init => Placed /\ Reserved
  <2> SUFFICES ASSUME Init PROVE Placed /\ Reserved
    OBVIOUS
  <2>1. TypeOK
    BY PoolStarts DEF PoolInv
  <2>2. Len(idle) = MinConns /\ DOMAIN idle = 1..MinConns
    BY BoundsAssumption DEF Init
  <2>3. live \subseteq IdleSet /\ draining = {}
    BY <2>2 DEF Init, IdleSet
  <2>4. Reserved
    BY <2>2, <2>3, FS_EmptySet, BoundsAssumption DEF Init, Reserved
  <2> QED BY <2>3, <2>4 DEF Placed
<1>2. PoolInv /\ Placed /\ Reserved => ServerBound
  <2> SUFFICES ASSUME PoolInv, Placed, Reserved PROVE ServerBound
    OBVIOUS
  <2> DEFINE taken == {conn[c] : c \in Holders}
             home == IdleSet \cup draining
  <2>t. TypeOK
    BY DEF PoolInv
  <2>1. IsFiniteSet(IdleSet) /\ Cardinality(IdleSet) <= Len(idle) /\ Len(idle) \in Nat
    BY <2>t, IdleCount
  <2>2. IsFiniteSet(taken) /\ Cardinality(taken) <= Cardinality(Occupants)
    BY HeldCount
  <2>3. IsFiniteSet(draining)
    BY DEF Reserved
  <2>4. /\ IsFiniteSet(home) /\ IsFiniteSet(IdleSet \cap draining)
        /\ Cardinality(home) = Cardinality(IdleSet) + Cardinality(draining)
                                - Cardinality(IdleSet \cap draining)
    BY <2>1, <2>3, FS_Union, FS_Intersection
  <2>5. /\ IsFiniteSet(home \cup taken) /\ IsFiniteSet(home \cap taken)
        /\ Cardinality(home \cup taken) = Cardinality(home) + Cardinality(taken)
                                         - Cardinality(home \cap taken)
    BY <2>2, <2>4, FS_Union, FS_Intersection
  <2>6. Cardinality(live) <= Cardinality(home \cup taken) /\ IsFiniteSet(live)
    <3>1. live \subseteq home \cup taken
      BY DEF Placed
    <3> QED BY <2>5, <3>1, FS_Subset
  <2>7. /\ Cardinality(live) \in Nat /\ Cardinality(IdleSet) \in Nat
        /\ Cardinality(draining) \in Nat /\ Cardinality(taken) \in Nat
        /\ Cardinality(home) \in Nat /\ Cardinality(home \cup taken) \in Nat
        /\ Cardinality(IdleSet \cap draining) \in Nat /\ Cardinality(home \cap taken) \in Nat
    BY <2>1, <2>2, <2>3, <2>4, <2>5, <2>6, FS_CardinalityType
  <2>8. Cardinality(live) <= Len(idle) + Cardinality(draining) + Cardinality(Occupants)
    BY SMTT(30), <2>1, <2>2, <2>4, <2>5, <2>6, <2>7, OccupantsFinite
  <2>9. /\ active_count >= Cardinality(Occupants) /\ total_created <= MaxConns
        /\ total_created >= active_count + Len(idle) + Cardinality(draining)
        /\ active_count \in Nat /\ total_created \in Nat
    BY <2>t DEF PoolInv, SlotAccounting, Reserved, TypeOK
  <2> QED BY SMTT(30), <2>1, <2>7, <2>8, <2>9, OccupantsFinite, BoundsAssumption DEF ServerBound
<1>3. PoolInv /\ Placed /\ Reserved /\ [Next]_vars => Placed' /\ Reserved'
  BY PlacedStep, ReservedStep
<1> QED BY <1>1, <1>2, <1>3, Invariance, PTL DEF Spec
\* The pool is bounded, for any number of clients and any bounds.
THEOREM Bounded == Spec => []SlotsAreBounded
<1>1. TypeOK /\ SlotAccounting /\ ServerBound => SlotsAreBounded
  BY DEF SlotsAreBounded
<1> QED BY <1>1, PoolTypeCorrect, SlotsAccounted, ServerBounded, PTL

\* What checkout returns is the client's alone; unless an answer of it was left
\* unread it is outside every transaction; and close leaves nobody waiting.
THEOREM Safe == Spec => []ConnsAreSafe
<1>1. ExclusiveConns /\ (StatusIsKnown /\ IdleIsClean) /\ CloseWakesAll => ConnsAreSafe
  BY DEF ConnsAreSafe
<1> QED BY <1>1, Exclusive, IdleClean, CloseWakes, PTL
-----------------------------------------------------------------------------
(* The package registry service, for any set of publications served at     *)
(* once, any versions and any tarballs: what is published has its tarball, *)
(* is never replaced, and the package names its greatest version, in       *)
(* whatever order the requests meet and fail.                              *)
(*                                                                         *)
(* What carries this is the lock of the package row: only its holder is    *)
(* inside insert_version, so what it read there (that the version is not   *)
(* published, and which one is the greatest) is still true when it commits.*)

\* A publication is inside insert_version exactly while it holds the row.
LockHeld == \A r \in Requests : request[r] \in {"locked", "inserted"} <=> lock = r

Greatest(m, S) == m \in S /\ \A x \in S : m >= x

\* The package names the greatest version (LatestIsGreatest follows, but says
\* nothing of a set without a greatest element, so it is not inductive).
LatestLeads == IF versions = {} THEN latest = 0 ELSE Greatest(latest, Committed)

\* What the holder of the row has found out is still so.
Current == \A r \in Requests :
    /\ request[r] \in {"new", "checked", "stored", "locked"} => mine[r] = 0
    /\ request[r] = "inserted" => /\ Version[r] \notin Committed
                                  /\ mine[r] # 0 => Greatest(mine[r], Committed \cup {Version[r]})

\* The tarball is stored before the transaction begins.
Stored == \A r \in Requests :
    request[r] \in {"stored", "locked", "inserted"} => Blob[r] \in blobs

PublishInv == PublishTypeOK /\ BlobBeforeRow /\ VersionsAreImmutable /\ LockHeld /\ LatestLeads
           /\ Current /\ Stored

-----------------------------------------------------------------------------
LEMMA ValueType ==
  ASSUME NEW r \in Requests
  PROVE  /\ Version[r] \in Range(Version) /\ Version[r] \in Nat \ {0}
         /\ Blob[r] \in Range(Blob)
         /\ r # "free"
BY RequestsAssumption, VersionAssumption DEF Range

LEMMA VersionsType == Range(Version) \subseteq Nat \ {0}
BY VersionAssumption DEF Range

\* The greatest of some numbers, if there is one, is their Max.
LEMMA GreatestIsMax ==
  ASSUME NEW S \in SUBSET Nat, NEW m, Greatest(m, S)
  PROVE  Max(S) = m
<1>1. \A y \in S : (\A x \in S : y >= x) => y = m
  BY DEF Greatest
<1> QED BY <1>1 DEF Max, Greatest

LEMMA CommittedType ==
  ASSUME PublishTypeOK
  PROVE  /\ Committed \subseteq Range(Version) /\ Committed \subseteq Nat
         /\ \A v \in versions : v[1] \in Committed /\ v[1] \in Range(Version)
BY VersionsType DEF PublishTypeOK, Committed

\* A download that is to be counted has fetched a version.
LEMMA Fetched ==
  ASSUME PublishTypeOK, Len(down) = 2
  PROVE  \E v \in Range(Version) : down = <<v, "fetched">>
<1>1. down # <<>> /\ \A v \in Range(Version) : down # <<v>>
  OBVIOUS
<1>2. down \in {<<>>} \cup {<<v>> : v \in Range(Version)} \cup {<<v, "fetched">> : v \in Range(Version)}
  BY DEF PublishTypeOK
<1> QED BY <1>1, <1>2, Zenon

\* Counting one more keeps counters what they are.
LEMMA Counted ==
  ASSUME NEW S, NEW f \in [S -> Nat], NEW i \in S, NEW j \in S
  PROVE  [f EXCEPT ![i] = f[i] + 1, ![j] = f[j] + 1] \in [S -> Nat]
<1>1. f[i] + 1 \in Nat /\ f[j] + 1 \in Nat
  OBVIOUS
<1> QED BY <1>1

\* derive_latest_version finds the greatest.
LEMMA Derived ==
  ASSUME PublishTypeOK, LatestLeads, NEW v \in Range(Version)
  PROVE  Greatest(Max(Committed \cup {v}), Committed \cup {v})
<1> DEFINE S == Committed \cup {v}
<1>1. S \subseteq Nat /\ v \in Nat
  BY CommittedType, VersionsType
<1>2. CASE versions = {}
  <2>1. Greatest(v, S)
    BY <1>1, <1>2 DEF Greatest, Committed
  <2> QED BY <1>1, <2>1, GreatestIsMax
<1>3. CASE versions # {}
  <2>1. latest \in Nat /\ Greatest(latest, Committed)
    BY <1>1, <1>3 DEF LatestLeads, Greatest
  <2>2. CASE v >= latest
    <3>1. Greatest(v, S)
      BY <1>1, <2>1, <2>2 DEF Greatest
    <3> QED BY <1>1, <3>1, GreatestIsMax
  <2>3. CASE ~(v >= latest)
    <3>1. Greatest(latest, S)
      BY <1>1, <2>1, <2>3 DEF Greatest
    <3> QED BY <1>1, <3>1, GreatestIsMax
  <2> QED BY <2>2, <2>3
<1> QED BY <1>2, <1>3

LEMMA PublishStep == PublishInv /\ [PublishNext]_publishVars => PublishInv'
<1> SUFFICES ASSUME PublishInv, [PublishNext]_publishVars PROVE PublishInv'
  OBVIOUS
<1> USE DEF PublishInv, PublishTypeOK, BlobBeforeRow, VersionsAreImmutable, LockHeld, LatestLeads,
            Current,
            Stored, Committed, Answers
<1>1. ASSUME NEW r \in Requests, Check(r) PROVE PublishInv'
  BY <1>1, ValueType DEF Check
<1>2. ASSUME NEW r \in Requests, Store(r) PROVE PublishInv'
  BY <1>2, ValueType DEF Store
<1>3. ASSUME NEW r \in Requests, Upsert(r) PROVE PublishInv'
  <2>1. PublishTypeOK' /\ BlobBeforeRow' /\ VersionsAreImmutable'
    BY <1>3, ValueType DEF Upsert
  <2>2. LockHeld' /\ Stored'
    BY <1>3, ValueType DEF Upsert
  <2>3. LatestLeads'
    BY <1>3 DEF Upsert
  <2>4. Current'
    BY <1>3 DEF Upsert
  <2> QED BY <2>1, <2>2, <2>3, <2>4
<1>4. ASSUME NEW r \in Requests, Insert(r) PROVE PublishInv'
  <2>1. CASE Version[r] \in Committed
    <3>1. /\ request[r] = "locked" /\ request' = [request EXCEPT ![r] = "conflict"]
          /\ lock' = "free" /\ lock = r
          /\ UNCHANGED <<versions, latest, mine, blobs, counts, down>>
      BY <1>4, <2>1 DEF Insert
    <3>2. Committed' = Committed
      BY <3>1
    <3>3. PublishTypeOK' /\ BlobBeforeRow' /\ VersionsAreImmutable'
      BY <3>1
    <3>4. LockHeld' /\ Stored'
      BY <3>1, ValueType
    <3>5. LatestLeads' /\ Current'
      <4> USE <3>2
      <4> HIDE DEF Committed
      <4> QED BY <3>1
    <3> QED BY <3>3, <3>4, <3>5
  <2>2. CASE Version[r] \notin Committed
    <3>1. /\ request[r] = "locked" /\ request' = [request EXCEPT ![r] = "inserted"]
          /\ UNCHANGED <<versions, latest, mine, lock, blobs, counts, down>>
      BY <1>4, <2>2 DEF Insert
    <3>2. Committed' = Committed
      BY <3>1
    <3>3. PublishTypeOK' /\ BlobBeforeRow' /\ VersionsAreImmutable'
      BY <3>1
    <3>4. LockHeld' /\ Stored'
      BY <3>1, ValueType
    <3>5. LatestLeads' /\ Current'
      <4> USE <3>2
      <4> HIDE DEF Committed
      <4> QED BY <2>2, <3>1
    <3> QED BY <3>3, <3>4, <3>5
  <2> QED BY <2>1, <2>2
<1>5. ASSUME NEW r \in Requests, Derive(r) PROVE PublishInv'
  <2> DEFINE m == Max(Committed \cup {Version[r]})
  <2>1. Greatest(m, Committed \cup {Version[r]})
    BY Derived, ValueType
  <2>2. m \in Range(Version)
    BY <2>1, ValueType, CommittedType DEF Greatest
  <2>3. mine' = [mine EXCEPT ![r] = m] /\ request[r] = "inserted"
        /\ UNCHANGED <<request, versions, latest, lock, blobs, counts, down>>
    BY <1>5 DEF Derive
  <2> HIDE DEF m
  <2> QED BY <2>1, <2>2, <2>3
<1>6. ASSUME NEW r \in Requests, Commit(r) PROVE PublishInv'
  <2> DEFINE row == <<Version[r], Blob[r]>>
  <2>1. /\ request[r] = "inserted" /\ lock = r /\ lock' = "free"
        /\ versions' = versions \cup {row} /\ latest' = mine[r]
        /\ request' = [request EXCEPT ![r] = "created"]
        /\ UNCHANGED <<mine, blobs, counts, down>>
    BY <1>6 DEF Commit
  <2>2. Version[r] \notin Committed /\ Greatest(mine[r], Committed \cup {Version[r]})
        /\ Blob[r] \in blobs
    BY <1>6 DEF Commit
  <2>3. Committed' = Committed \cup {Version[r]}
    <3>1. Committed' = {v[1] : v \in versions \cup {row}}
      BY <2>1
    <3>2. row[1] = Version[r]
      OBVIOUS
    <3>3. {v[1] : v \in versions \cup {row}} = {v[1] : v \in versions} \cup {row[1]}
      <4> HIDE DEF row
      <4> QED BY ZenonT(40)
    <3> QED BY <3>1, <3>2, <3>3
  <2>4. PublishTypeOK'
    BY <2>1, <2>2, ValueType, CommittedType DEF Greatest
  <2>5. BlobBeforeRow' /\ VersionsAreImmutable'
    BY <2>1, <2>2
  <2>6. LatestLeads'
    <3>1. versions' # {}
      BY <2>1
    <3> QED BY <2>1, <2>2, <2>3, <3>1 DEF Greatest
  <2>7. LockHeld' /\ Stored'
    BY <2>1, ValueType
  <2>8. Current'
    BY <2>1
  <2> QED BY <2>4, <2>5, <2>6, <2>7, <2>8
<1>7. ASSUME NEW r \in Requests, Fail(r) PROVE PublishInv'
  BY <1>7, ValueType DEF Fail
<1>8. ASSUME NEW v \in Committed, Download(v) PROVE PublishInv'
  BY <1>8, CommittedType DEF Download
<1>9. CASE Fetch
  BY <1>9, CommittedType DEF Fetch
<1>10. CASE increment_download
  <2>1. PICK v \in Range(Version) : down = <<v, "fetched">>
    BY <1>10, Fetched DEF increment_download
  <2>2. counts' \in [{0} \cup Range(Version) -> Nat]
    <3>1. counts' = [counts EXCEPT ![v] = counts[v] + 1, ![0] = counts[0] + 1]
      BY <1>10, <2>1, VersionsType DEF increment_download
    <3>2. counts \in [{0} \cup Range(Version) -> Nat]
      OBVIOUS
    <3> QED BY <3>1, <3>2, Counted
  <2> QED BY <1>10, <2>2 DEF increment_download
<1>11. CASE UNCHANGED publishVars
  BY <1>11 DEF publishVars
<1> QED BY <1>1, <1>2, <1>3, <1>4, <1>5, <1>6, <1>7, <1>8, <1>9, <1>10, <1>11 DEF PublishNext

LEMMA PublishStarts == PublishInit => PublishInv
BY RequestsAssumption, ValueType DEF PublishInit, PublishInv, PublishTypeOK, BlobBeforeRow,
   VersionsAreImmutable, LockHeld, LatestLeads, Current, Stored, Committed, Answers

\* Every variable of the service has its type.
THEOREM PublishTypeCorrect == PublishSpec => []PublishTypeOK
<1>1. PublishInv => PublishTypeOK
  BY DEF PublishInv
<1> QED BY <1>1, PublishStarts, PublishStep, PTL DEF PublishSpec

\* publish, insert_version: however many publications meet and fail, a version
\* that is listed has its tarball, keeps it, and the package names the greatest.
THEOREM PublishedStands == PublishSpec => []VersionsStand
<1>1. PublishInv => VersionsStand
  <2> SUFFICES ASSUME PublishInv PROVE LatestIsGreatest
    BY DEF PublishInv, VersionsStand
  <2>1. Committed \subseteq Nat
    BY CommittedType DEF PublishInv
  <2> QED BY <2>1, GreatestIsMax DEF PublishInv, LatestLeads, LatestIsGreatest
<1> QED BY <1>1, PublishStarts, PublishStep, PTL DEF PublishSpec
-----------------------------------------------------------------------------
(* The client of PostgreSQL, for any number of statements.  What it reads  *)
(* is the answer to what it asked because it asks only when the answer to  *)
(* the last request has been read to its ReadyForQuery; that is so until a *)
(* read gives up, which leaves the answer in the stream for the next one.  *)

Request(n) == {<<"run", k>> : k \in 1..n} \cup {<<"begin">>, <<"commit">>, <<"rollback">>}
Message(n) == {<<"D", k>> : k \in 1..n} \cup {<<"C">>, <<"E">>} \cup {<<"Z", s>> : s \in {"I", "T", "E"}}

\* The statement in hand, and what its answer may bring.
Asked(n) == Request(n) \X BOOLEAN \X SUBSET (1..n)
Own(r) == IF r[1] = "run" THEN {r[2]} ELSE {}

PgTypes ==
    /\ heard \in Nat /\ number \in Nat /\ timeouts \in Nat
    /\ requests \in Seq(Request(number)) /\ wire \in Seq(Message(number))
    /\ op = Idle \/ op \in Asked(number)
    /\ log \in Seq(Nat \X BOOLEAN \X SUBSET Nat)
    /\ result = <<>> \/ \E w \in {"ok", "err"}, S \in SUBSET (1..number) : result = <<w, S>>

\* Nothing is asked before the connection is up, and it is up once granted.
Granted ==
    /\ phase # "up" => /\ op = Idle /\ txn = "none" /\ requests = <<>> /\ wire = <<>>
                       /\ srv = "I" /\ txn_status = "I"
    /\ phase \in {"sync", "up"} => entitled
    /\ mode = "require" /\ phase \notin {"ssl", "failed"} => tls

\* The request is with the server.
Waiting == requests = <<op[1]>> /\ wire = <<>> /\ op[2] = FALSE /\ op[3] = {}

\* The rest of an answer that is no error, and of one that is.
Good ==
    /\ requests = <<>> /\ op[2] = FALSE
    /\ \/ wire = <<<<"D", op[1][2]>>, <<"C">>, <<"Z", srv>>>> /\ op[1][1] = "run" /\ op[3] = {}
       \/ wire = <<<<"C">>, <<"Z", srv>>>> /\ op[3] = Own(op[1])
       \/ wire = <<<<"Z", srv>>>> /\ op[3] = Own(op[1])
Bad ==
    /\ requests = <<>> /\ op[3] = {}
    /\ \/ wire = <<<<"E">>, <<"Z", srv>>>> /\ op[2] = FALSE
       \/ wire = <<<<"Z", srv>>>> /\ op[2] = TRUE

Quiet == op = Idle /\ requests = <<>> /\ wire = <<>> /\ txn_status = srv

Conversation == Quiet \/ (op # Idle /\ (Waiting \/ Good \/ Bad))

\* Where mesh_pg_transaction stands with the server.
Standing ==
    /\ txn = "begin" => op # Idle /\ op[1] = <<"begin">> /\ closure = {} /\ (Good => srv = "T")
    /\ txn = "body" => srv # "I" /\ (op # Idle => op[1][1] = "run" /\ op[1][2] \notin db)
    /\ txn = "commit" => op # Idle /\ op[1] = <<"commit">>
    /\ txn = "rollback" => op # Idle /\ op[1] = <<"rollback">> /\ (~Waiting => held = {})
    /\ txn \in {"begin", "body", "rollback"} \/ (txn = "commit" /\ ~Good) => closure \cap db = {}

\* What was undone stays undone: nothing that is under way is part of it.
Undone ==
    result # <<>> /\ result[1] = "err" =>
        /\ result[2] \cap (db \cup held) = {}
        /\ op # Idle /\ op[1][1] = "run" /\ Waiting => op[1][2] \notin result[2]

OwnAnswers == \A k \in 1..Len(log) : log[k][3] = IF log[k][2] THEN {} ELSE {log[k][1]}

Orderly == timeouts = 0 => Conversation /\ Standing /\ Undone /\ OwnAnswers

PgInv == PgTypeOK /\ PgTypes /\ Granted /\ Orderly

LEMMA AppendToOne ==
  ASSUME NEW a, NEW b
  PROVE  Append(<<a>>, b) = <<a, b>>
<1>1. <<a>> \in Seq({a, b}) /\ <<a, b>> \in Seq({a, b}) /\ Len(<<a>>) = 1
  OBVIOUS
<1>2. Append(<<a>>, b) \in Seq({a, b}) /\ Len(Append(<<a>>, b)) = 2
      /\ Append(<<a>>, b)[1] = a /\ Append(<<a>>, b)[2] = b
  BY <1>1, AppendProperties
<1>3. \A i \in 1..2 : Append(<<a>>, b)[i] = <<a, b>>[i]
  BY <1>2
<1> QED BY <1>1, <1>2, <1>3, SeqEqual

LEMMA AppendToTwo ==
  ASSUME NEW a, NEW b, NEW c
  PROVE  Append(<<a, b>>, c) = <<a, b, c>>
<1>1. <<a, b>> \in Seq({a, b, c}) /\ <<a, b, c>> \in Seq({a, b, c}) /\ Len(<<a, b>>) = 2
  OBVIOUS
<1>2. Append(<<a, b>>, c) \in Seq({a, b, c}) /\ Len(Append(<<a, b>>, c)) = 3
      /\ Append(<<a, b>>, c)[1] = a /\ Append(<<a, b>>, c)[2] = b /\ Append(<<a, b>>, c)[3] = c
  BY <1>1, AppendProperties
<1>3. \A i \in 1..3 : Append(<<a, b>>, c)[i] = <<a, b, c>>[i]
  BY <1>2
<1> QED BY <1>1, <1>2, <1>3, SeqEqual

LEMMA InThree ==
  ASSUME NEW a, NEW b, NEW c
  PROVE  <<>> \o <<a, b>> \o <<c>> = <<a, b, c>>
<1>1. <<>> \o <<a, b>> = <<a, b>>
  OBVIOUS
<1>2. <<a, b>> \o <<c>> = <<a, b, c>>
  <2>1. <<a, b>> \in Seq({a, b, c}) /\ c \in {a, b, c}
    OBVIOUS
  <2> QED BY <2>1, AppendIsConcat, AppendToTwo
<1> QED BY <1>1, <1>2

LEMMA Tuples ==
  ASSUME NEW a, NEW b, NEW c
  PROVE  /\ Head(<<a>>) = a /\ Head(<<a, b>>) = a /\ Head(<<a, b, c>>) = a
         /\ Tail(<<a>>) = <<>> /\ Tail(<<a, b>>) = <<b>> /\ Tail(<<a, b, c>>) = <<b, c>>
         /\ <<>> \o <<a, b>> \o <<c>> = <<a, b, c>> /\ <<>> \o <<a>> \o <<b>> = <<a, b>>
         /\ Append(<<>>, a) = <<a>>
<1>1. Head(<<a>>) = a /\ Head(<<a, b>>) = a /\ Head(<<a, b, c>>) = a
  OBVIOUS
<1>2. Tail(<<a>>) = <<>> /\ Tail(<<a, b>>) = <<b>> /\ Tail(<<a, b, c>>) = <<b, c>>
  OBVIOUS
<1>3. <<>> \o <<a, b>> \o <<c>> = <<a, b, c>>
  BY InThree
<1>4. <<>> \o <<a>> \o <<b>> = <<a, b>>
  <2>1. <<>> \o <<a>> = <<a>>
    OBVIOUS
  <2>2. <<a>> \o <<b>> = <<a, b>>
    <3>1. <<a>> \in Seq({a, b}) /\ b \in {a, b}
      OBVIOUS
    <3> QED BY <3>1, AppendIsConcat, AppendToOne
  <2> QED BY <2>1, <2>2
<1>5. Append(<<>>, a) = <<a>>
  OBVIOUS
<1> QED BY <1>1, <1>2, <1>3, <1>4, <1>5

LEMMA Grows ==
  ASSUME NEW n \in Nat
  PROVE  /\ Request(n) \subseteq Request(n + 1) /\ Message(n) \subseteq Message(n + 1)
         /\ Asked(n) \subseteq Asked(n + 1)
         /\ <<"run", n + 1>> \in Request(n + 1)
         /\ \A q \in Seq(Request(n)) : q \in Seq(Request(n + 1))
         /\ \A q \in Seq(Message(n)) : q \in Seq(Message(n + 1))
<1>1. 1..n \subseteq 1..n + 1 /\ n + 1 \in 1..n + 1
  OBVIOUS
<1>2. Request(n) \subseteq Request(n + 1) /\ <<"run", n + 1>> \in Request(n + 1)
  BY <1>1 DEF Request
<1>3. Message(n) \subseteq Message(n + 1)
  BY <1>1 DEF Message
<1>4. Asked(n) \subseteq Asked(n + 1)
  <2>1. SUBSET (1..n) \subseteq SUBSET (1..n + 1)
    BY <1>1
  <2> QED BY <1>2, <2>1 DEF Asked
<1>5. \A q \in Seq(Request(n)) : q \in Seq(Request(n + 1))
  BY <1>2
<1>6. \A q \in Seq(Message(n)) : q \in Seq(Message(n + 1))
  BY <1>3
<1> QED BY <1>2, <1>3, <1>4, <1>5, <1>6

\* A request is of one kind.
LEMMA Kinds ==
  ASSUME NEW n \in Nat, NEW r \in Request(n)
  PROVE  /\ r[1] \in {"run", "begin", "commit", "rollback"}
         /\ r[1] = "run" => r = <<"run", r[2]>> /\ r[2] \in 1..n
         /\ r[1] = "begin" => r = <<"begin">>
         /\ r[1] = "commit" => r = <<"commit">>
         /\ r[1] = "rollback" => r = <<"rollback">>
BY DEF Request

\* The statement in hand is not the idle one.
LEMMA InHand ==
  ASSUME NEW n \in Nat, NEW o \in Asked(n)
  PROVE  /\ o # Idle /\ o[1] \in Request(n) /\ o[2] \in BOOLEAN /\ o[3] \in SUBSET (1..n)
         /\ \A b \in BOOLEAN : /\ [o EXCEPT ![2] = b] \in Asked(n)
                               /\ [o EXCEPT ![2] = b] = <<o[1], b, o[3]>>
         /\ \A S \in SUBSET (1..n) : /\ [o EXCEPT ![3] = S] \in Asked(n)
                                     /\ [o EXCEPT ![3] = S] = <<o[1], o[2], S>>
<1>1. /\ o[1] \in Request(n) /\ o[2] \in BOOLEAN /\ o[3] \in SUBSET (1..n)
      /\ o = <<o[1], o[2], o[3]>>
  BY DEF Asked
<1>2. o # Idle
  <2>1. Len(o) = 3 /\ Len(Idle) = 1
    BY <1>1 DEF Idle
  <2> QED BY <2>1
<1>3. ASSUME NEW b \in BOOLEAN PROVE [o EXCEPT ![2] = b] = <<o[1], b, o[3]>>
  BY <1>1
<1>4. ASSUME NEW S \in SUBSET (1..n) PROVE [o EXCEPT ![3] = S] = <<o[1], o[2], S>>
  BY <1>1
<1>5. ASSUME NEW b \in BOOLEAN PROVE <<o[1], b, o[3]>> \in Asked(n)
  BY <1>1 DEF Asked
<1>6. ASSUME NEW S \in SUBSET (1..n) PROVE <<o[1], o[2], S>> \in Asked(n)
  BY <1>1 DEF Asked
<1> QED BY <1>1, <1>2, <1>3, <1>4, <1>5, <1>6

LEMMA AskedIs ==
  ASSUME NEW n \in Nat, NEW r \in Request(n)
  PROVE  <<r, FALSE, {}>> \in Asked(n)
BY DEF Asked

-----------------------------------------------------------------------------
\* Nothing of the statements changes while the connection is being made.
LEMMA HandshakeKeeps ==
  ASSUME PgInv, phase # "up", UNCHANGED statements, heard' \in Nat /\ heard' <= MaxMessages,
         phase' \in {"ssl", "auth", "continue", "final", "result", "sync", "up", "failed"},
         txn_status' = "I",
         phase' \in {"sync", "up"} => entitled',
         mode' = "require" /\ phase' \notin {"ssl", "failed"} => tls'
  PROVE  PgInv'
<1>1. UNCHANGED <<op, txn, requests, wire, srv, held, db, number, timeouts, log, closure, result>>
  BY DEF statements, atServer
<1>2. txn_status = "I"
  BY DEF PgInv, Granted
<1>3. PgTypeOK' /\ PgTypes'
  BY <1>1 DEF PgInv, PgTypeOK, PgTypes
<1>4. Granted'
  BY <1>1 DEF PgInv, Granted
<1>5. Orderly'
  <2>1. Good' <=> Good
    BY <1>1 DEF Good
  <2>2. Waiting' <=> Waiting
    BY <1>1 DEF Waiting
  <2>3. Bad' <=> Bad
    BY <1>1 DEF Bad
  <2>4. Conversation' <=> Conversation
    BY <1>1, <1>2, <2>1, <2>2, <2>3 DEF Conversation, Quiet
  <2>5. (Standing' <=> Standing) /\ (Undone' <=> Undone) /\ (OwnAnswers' <=> OwnAnswers)
    BY <1>1, <2>1, <2>2 DEF Standing, Undone, OwnAnswers
  <2> QED BY <1>1, <2>4, <2>5 DEF PgInv, Orderly
<1> QED BY <1>3, <1>4, <1>5 DEF PgInv

LEMMA HandshakeStep ==
  ASSUME PgInv
  PROVE  /\ \A answer \in {"S", "N", "?"} : NegotiateTls(answer) => PgInv'
         /\ \A tag \in {"R", "E", "Z"}, type \in {0, 3, 5, 10, 11, 12} : Authenticate(tag, type) => PgInv'
         /\ \A tag \in {"S", "E", "Z"} : Synchronise(tag) => PgInv'
         /\ ConnectFails => PgInv'
<1>1. heard \in Nat /\ MaxMessages \in Nat /\ heard <= MaxMessages
  BY PgBoundsAssumption DEF PgInv, PgTypes, PgTypeOK
<1>2. phase # "up" => txn_status = "I"
  BY DEF PgInv, Granted
<1>3. ASSUME NEW answer \in {"S", "N", "?"}, NegotiateTls(answer) PROVE PgInv'
  <2>1. heard' \in Nat /\ heard' <= MaxMessages /\ phase # "up" /\ txn_status' = "I" /\ UNCHANGED statements
    BY <1>1, <1>2, <1>3 DEF NegotiateTls
  <2>2. phase' \in {"auth", "failed"} /\ (mode' = "require" /\ phase' # "failed" => tls')
    BY <1>3 DEF NegotiateTls
  <2> QED BY <2>1, <2>2, HandshakeKeeps
<1>4. ASSUME NEW tag \in {"R", "E", "Z"}, NEW type \in {0, 3, 5, 10, 11, 12}, Authenticate(tag, type)
      PROVE  PgInv'
  <2>1. heard' \in Nat /\ heard' <= MaxMessages /\ phase # "up" /\ txn_status' = "I" /\ UNCHANGED statements
    BY <1>1, <1>2, <1>4 DEF Authenticate
  <2>2. /\ phase' \in {"sync", "result", "continue", "final", "failed"}
        /\ phase' = "sync" => entitled'
    <3>1. /\ phase \in {"auth", "continue", "final", "result"} /\ phase' = AfterAuth(tag, type)
          /\ entitled' = (entitled \/ (tag = "R" /\ type = 0))
      BY <1>4 DEF Authenticate
    <3>2. CASE tag # "R"
      BY <3>1, <3>2 DEF AfterAuth
    <3>3. CASE tag = "R" /\ phase = "auth"
      <4>1. type = 0 \/ type \in {3, 5} \/ type = 10 \/ type \notin {0, 3, 5, 10}
        OBVIOUS
      <4> QED BY <3>1, <3>3, <4>1 DEF AfterAuth
    <3>4. CASE tag = "R" /\ phase = "continue"
      BY <3>1, <3>4 DEF AfterAuth
    <3>5. CASE tag = "R" /\ phase = "final"
      BY <3>1, <3>5 DEF AfterAuth
    <3>6. CASE tag = "R" /\ phase = "result"
      BY <3>1, <3>6 DEF AfterAuth
    <3> QED BY <3>1, <3>2, <3>3, <3>4, <3>5, <3>6
  <2>3. mode' = "require" /\ phase' \notin {"ssl", "failed"} => tls'
    BY <1>4 DEF Authenticate, PgInv, Granted
  <2> QED BY <2>1, <2>2, <2>3, HandshakeKeeps
<1>5. ASSUME NEW tag \in {"S", "E", "Z"}, Synchronise(tag) PROVE PgInv'
  <2>1. heard' \in Nat /\ heard' <= MaxMessages /\ phase # "up" /\ txn_status' = "I" /\ UNCHANGED statements
    BY <1>1, <1>5 DEF Synchronise
  <2>2. phase' \in {"sync", "up", "failed"} /\ entitled'
    BY <1>5 DEF Synchronise, PgInv, Granted
  <2>3. mode' = "require" /\ phase' \notin {"ssl", "failed"} => tls'
    BY <1>5 DEF Synchronise, PgInv, Granted
  <2> QED BY <2>1, <2>2, <2>3, HandshakeKeeps
<1>6. ASSUME ConnectFails PROVE PgInv'
  <2>1. heard' = heard /\ phase # "up" /\ txn_status' = "I" /\ phase' = "failed" /\ UNCHANGED statements
    BY <1>2, <1>6 DEF ConnectFails
  <2> QED BY <1>1, <2>1, HandshakeKeeps
<1> QED BY <1>3, <1>4, <1>5, <1>6

-----------------------------------------------------------------------------
\* A request that nobody has asked before is asked when all is quiet.
LEMMA SendKeeps ==
  ASSUME PgInv, NEW r, Send(r), phase = "up", op = Idle, number' \in {number, number + 1},
         r \in Request(number'), r[1] = "run" => r[2] = number + 1,
         UNCHANGED <<handshake, txn_status, timeouts, log, result>>,
         closure' = closure \/ (closure' = {} /\ r = <<"begin">>),
         \/ txn' = "none" /\ txn = "none"
         \/ txn' = "body" /\ txn = "body" /\ r[1] = "run"
         \/ txn' = "begin" /\ r = <<"begin">> /\ closure' = {}
         \/ txn' = "commit" /\ txn = "body" /\ r = <<"commit">> /\ closure' = closure
         \/ txn' = "rollback" /\ txn = "body" /\ r = <<"rollback">> /\ closure' = closure
  PROVE  PgInv'
<1>1. /\ requests' = Append(requests, r) /\ op' = <<r, FALSE, {}>>
      /\ UNCHANGED <<wire, srv, held, db, mode, tls, phase, entitled, heard, txn_status, timeouts, log, result>>
  BY DEF Send, handshake
<1>2. number \in Nat /\ number' \in Nat /\ 1..number \subseteq 1..number' /\ number + 1 \notin 1..number
  BY DEF PgInv, PgTypes
<1>3. op' \in Asked(number') /\ op' # Idle
  BY <1>1, <1>2, AskedIs, InHand
<1>4. /\ requests \in Seq(Request(number')) /\ wire \in Seq(Message(number'))
  BY <1>2, Grows DEF PgInv, PgTypes
<1>5. PgTypeOK'
  BY <1>1, <1>2 DEF PgInv, PgTypeOK
<1>6. PgTypes'
  <2>1. requests' \in Seq(Request(number'))
    BY <1>1, <1>4
  <2>2. result = <<>> \/ \E w \in {"ok", "err"}, S \in SUBSET (1..number') : result = <<w, S>>
    BY <1>2 DEF PgInv, PgTypes
  <2> QED BY <1>1, <1>2, <1>3, <1>4, <2>1, <2>2 DEF PgInv, PgTypes
<1>7. Granted'
  BY <1>1 DEF PgInv, Granted
<1>8. ASSUME timeouts' = 0 PROVE Conversation' /\ Standing' /\ Undone' /\ OwnAnswers'
  <2>1. /\ Conversation /\ Standing /\ Undone /\ OwnAnswers
    BY <1>1, <1>8 DEF PgInv, Orderly
  <2>2. requests = <<>> /\ wire = <<>>
    BY <2>1 DEF Conversation, Quiet
  <2>3. requests' = <<r>>
    BY <1>1, <2>2, Tuples
  <2>4. op'[1] = r /\ op'[2] = FALSE /\ op'[3] = {}
    BY <1>1
  <2>5. Waiting'
    BY <1>1, <2>2, <2>3, <2>4 DEF Waiting
  <2>6. ~Good'
    BY <2>3 DEF Good
  <2>7. Conversation' /\ OwnAnswers'
    BY <1>1, <1>3, <2>1, <2>5 DEF Conversation, OwnAnswers
  <2>8. r[1] = "run" => r[2] \notin db /\ (result # <<>> => r[2] \notin result[2])
    <3>1. db \subseteq 1..number
      BY DEF PgInv, PgTypeOK
    <3>2. result # <<>> => result[2] \subseteq 1..number
      <4> SUFFICES ASSUME result # <<>> PROVE result[2] \subseteq 1..number
        OBVIOUS
      <4>1. PICK w \in {"ok", "err"}, S \in SUBSET (1..number) : result = <<w, S>>
        BY DEF PgInv, PgTypes
      <4> QED BY <4>1
    <3> QED BY <1>2, <3>1, <3>2
  <2>9. Standing'
    <3>1. txn = "body" => srv # "I" /\ closure \cap db = {}
      BY <2>1 DEF Standing
    <3> QED BY <1>1, <1>3, <2>4, <2>5, <2>6, <2>8, <3>1 DEF Standing
  <2>10. Undone'
    BY <1>1, <2>1, <2>4, <2>8 DEF Undone
  <2> QED BY <2>7, <2>9, <2>10
<1> QED BY <1>5, <1>6, <1>7, <1>8 DEF PgInv, Orderly

LEMMA SendStep ==
  ASSUME PgInv
  PROVE  /\ Statement \/ Begin => PgInv'
         /\ \A kind \in {"begin", "commit", "rollback"} : Command(kind) => PgInv'
         /\ \A ok \in BOOLEAN : BodyReturns(ok) => PgInv'
<1>1. number \in Nat
  BY DEF PgInv, PgTypes
<1>2. \A n \in Nat : {<<"begin">>, <<"commit">>, <<"rollback">>} \subseteq Request(n)
  BY DEF Request
<1>3. <<"begin">>[1] = "begin" /\ <<"commit">>[1] = "commit" /\ <<"rollback">>[1] = "rollback"
  OBVIOUS
<1>4. ASSUME Statement PROVE PgInv'
  <2> DEFINE r == <<"run", number + 1>>
  <2>1. /\ phase = "up" /\ op = Idle /\ txn \in {"none", "body"} /\ number' = number + 1 /\ Send(r)
        /\ UNCHANGED <<handshake, txn, txn_status, timeouts, log, closure, result>>
    BY <1>4 DEF Statement
  <2>2. r \in Request(number') /\ r[1] = "run" /\ r[2] = number + 1
    BY <1>1, <2>1, Grows
  <2> HIDE DEF r
  <2> QED BY <2>1, <2>2, SendKeeps
<1>5. ASSUME Begin PROVE PgInv'
  BY <1>1, <1>2, <1>3, <1>5, SendKeeps DEF Begin
<1>6. ASSUME NEW kind \in {"begin", "commit", "rollback"}, Command(kind) PROVE PgInv'
  <2> DEFINE r == <<kind>>
  <2>1. /\ phase = "up" /\ op = Idle /\ txn = "none" /\ number' = number + 1 /\ Send(r)
        /\ UNCHANGED <<handshake, txn, txn_status, timeouts, log, closure, result>>
    BY <1>6 DEF Command
  <2>2. r \in Request(number') /\ r[1] # "run"
    BY <1>1, <1>2, <2>1
  <2> HIDE DEF r
  <2> QED BY <2>1, <2>2, SendKeeps
<1>7. ASSUME NEW ok \in BOOLEAN, BodyReturns(ok) PROVE PgInv'
  <2>1. phase = "up"
    BY <1>7 DEF BodyReturns, PgInv, Granted
  <2>2. CASE ok = TRUE
    <3>1. /\ op = Idle /\ txn = "body" /\ txn' = "commit" /\ Send(<<"commit">>)
          /\ UNCHANGED <<handshake, txn_status, number, timeouts, log, closure, result>>
      BY <1>7, <2>2 DEF BodyReturns
    <3> QED BY <1>1, <1>2, <1>3, <2>1, <3>1, SendKeeps
  <2>3. CASE ok = FALSE
    <3>1. /\ op = Idle /\ txn = "body" /\ txn' = "rollback" /\ Send(<<"rollback">>)
          /\ UNCHANGED <<handshake, txn_status, number, timeouts, log, closure, result>>
      BY <1>7, <2>3 DEF BodyReturns
    <3> QED BY <1>1, <1>2, <1>3, <2>1, <3>1, SendKeeps
  <2> QED BY <2>2, <2>3
<1> QED BY <1>4, <1>5, <1>6, <1>7

-----------------------------------------------------------------------------
LEMMA MessageKinds ==
  ASSUME NEW n \in Nat, NEW m \in Message(n)
  PROVE  /\ m[1] = "D" => m[2] \in 1..n
         /\ m[1] = "Z" => m[2] \in {"I", "T", "E"}
BY DEF Message

\* Whatever a statement returns, and whenever, is of its type.
LEMMA ReturnTypes ==
  ASSUME PgTypeOK, PgTypes, op # Idle, NEW error \in BOOLEAN, Return(error)
  PROVE  /\ log' \in Seq(Nat \X BOOLEAN \X SUBSET Nat) /\ closure' \subseteq 1..number
         /\ txn' \in {"none", "begin", "body", "commit", "rollback"}
         /\ op' = Idle \/ op' \in Asked(number)
         /\ requests' \in Seq(Request(number))
         /\ result' = <<>> \/ \E w \in {"ok", "err"}, S \in SUBSET (1..number) : result' = <<w, S>>
<1>1. number \in Nat /\ op \in Asked(number) /\ closure \subseteq 1..number
      /\ txn \in {"none", "begin", "body", "commit", "rollback"}
  BY DEF PgTypes, PgTypeOK
<1>2. op[1] \in Request(number) /\ op[3] \in SUBSET (1..number) /\ (op[1][1] = "run" => op[1][2] \in 1..number)
  BY <1>1, InHand, Kinds
<1>3. <<"rollback">> \in Request(number) /\ <<<<"rollback">>, FALSE, {}>> \in Asked(number)
  BY <1>1, AskedIs DEF Request
<1>4. log' \in Seq(Nat \X BOOLEAN \X SUBSET Nat)
  <2>1. log \in Seq(Nat \X BOOLEAN \X SUBSET Nat)
    BY DEF PgTypes
  <2>2. CASE op[1][1] = "run"
    <3>1. log' = Append(log, <<op[1][2], error, op[3]>>)
      BY <2>2 DEF Return
    <3>2. <<op[1][2], error, op[3]>> \in Nat \X BOOLEAN \X SUBSET Nat
      BY <1>1, <1>2, <2>2
    <3> QED BY <2>1, <3>1, <3>2
  <2>3. CASE op[1][1] # "run"
    BY <2>1, <2>3 DEF Return
  <2> QED BY <2>2, <2>3
<1>5. closure' \subseteq 1..number
  BY <1>1, <1>2 DEF Return
<1>6. txn' \in {"none", "begin", "body", "commit", "rollback"}
  BY <1>1 DEF Return
<1>7. op' = Idle \/ op' \in Asked(number)
  BY <1>3 DEF Return
<1>8. requests' \in Seq(Request(number))
  <2>1. requests \in Seq(Request(number))
    BY DEF PgTypes
  <2>2. requests' = requests \/ requests' = Append(requests, <<"rollback">>)
    BY DEF Return
  <2>3. Append(requests, <<"rollback">>) \in Seq(Request(number))
    BY <1>3, <2>1, AppendProperties
  <2> QED BY <2>1, <2>2, <2>3
<1>9. result' = <<>> \/ \E w \in {"ok", "err"}, S \in SUBSET (1..number) : result' = <<w, S>>
  <2>1. result = <<>> \/ \E w \in {"ok", "err"}, S \in SUBSET (1..number) : result = <<w, S>>
    BY DEF PgTypes
  <2>2. result' = <<"err", {}>> \/ result' = <<"ok", closure>> \/ result' = <<"err", closure>> \/ result' = result
    BY <1>1 DEF Return
  <2>3. {} \in SUBSET (1..number) /\ closure \in SUBSET (1..number)
    BY <1>1
  <2> QED BY <2>1, <2>2, <2>3
<1> QED BY <1>4, <1>5, <1>6, <1>7, <1>8, <1>9

\* What the next message of an answer says of the rest.
LEMMA ReadForms ==
  ASSUME Conversation, op # Idle, wire # <<>>
  PROVE  /\ requests = <<>> /\ ~Waiting
         /\ Head(wire)[1] = "D" => /\ Good /\ Tail(wire) = <<<<"C">>, <<"Z", srv>>>> /\ op[1][1] = "run"
                                   /\ Head(wire)[2] = op[1][2] /\ op[2] = FALSE /\ op[3] = {}
         /\ Head(wire)[1] = "C" => /\ Good /\ Tail(wire) = <<<<"Z", srv>>>>
                                   /\ op[2] = FALSE /\ op[3] = Own(op[1])
         /\ Head(wire)[1] = "E" => /\ ~Good /\ Tail(wire) = <<<<"Z", srv>>>>
                                   /\ op[2] = FALSE /\ op[3] = {}
         /\ Head(wire)[1] = "Z" => /\ Head(wire)[2] = srv /\ Tail(wire) = <<>>
                                   /\ \/ Good /\ op[2] = FALSE /\ op[3] = Own(op[1])
                                      \/ ~Good /\ op[2] = TRUE /\ op[3] = {}
<1>1. ~Waiting /\ ~Quiet
  BY DEF Waiting, Quiet
<1>2. requests = <<>> /\ (Good \/ Bad)
  BY <1>1 DEF Conversation, Good, Bad
<1> DEFINE D == <<"D", op[1][2]>>
           C == <<"C">>
           E == <<"E">>
           Z == <<"Z", srv>>
<1>3. /\ D[1] = "D" /\ D[2] = op[1][2] /\ C[1] = "C" /\ E[1] = "E" /\ Z[1] = "Z" /\ Z[2] = srv
  OBVIOUS
<1>4. CASE Good /\ wire = <<D, C, Z>>
  <2>1. Head(wire) = D /\ Tail(wire) = <<C, Z>>
    BY <1>4, Tuples
  <2>2. wire # <<C, Z>> /\ wire # <<Z>>
    BY <1>4
  <2>3. op[1][1] = "run" /\ op[3] = {} /\ op[2] = FALSE
    BY <1>4, <2>2 DEF Good
  <2> QED BY <1>1, <1>2, <1>3, <1>4, <2>1, <2>3
<1>5. CASE Good /\ wire = <<C, Z>>
  <2>1. Head(wire) = C /\ Tail(wire) = <<Z>>
    BY <1>5, Tuples
  <2>2. wire # <<D, C, Z>> /\ wire # <<Z>>
    BY <1>5
  <2>3. op[3] = Own(op[1]) /\ op[2] = FALSE
    BY <1>5, <2>2 DEF Good
  <2> QED BY <1>1, <1>2, <1>3, <1>5, <2>1, <2>3
<1>6. CASE Good /\ wire = <<Z>>
  <2>1. Head(wire) = Z /\ Tail(wire) = <<>>
    BY <1>6, Tuples
  <2>2. wire # <<D, C, Z>> /\ wire # <<C, Z>>
    BY <1>6
  <2>3. op[3] = Own(op[1]) /\ op[2] = FALSE
    BY <1>6, <2>2 DEF Good
  <2> QED BY <1>1, <1>2, <1>3, <1>6, <2>1, <2>3
<1>7. CASE Bad /\ wire = <<E, Z>>
  <2>1. Head(wire) = E /\ Tail(wire) = <<Z>>
    BY <1>7, Tuples
  <2>2. wire # <<D, C, Z>> /\ wire # <<C, Z>> /\ wire # <<Z>>
    <3>1. Len(wire) = 2
      BY <1>7
    <3>2. Head(<<C, Z>>) = C
      BY Tuples
    <3> QED BY <1>3, <2>1, <3>1, <3>2
  <2>3. op[3] = {} /\ op[2] = FALSE /\ ~Good
    BY <1>7, <2>2 DEF Good, Bad
  <2> QED BY <1>1, <1>2, <1>3, <1>7, <2>1, <2>3
<1>8. CASE Bad /\ wire = <<Z>>
  <2>1. Head(wire) = Z /\ Tail(wire) = <<>>
    BY <1>8, Tuples
  <2>2. wire # <<E, Z>>
    BY <1>8
  <2>3. op[3] = {} /\ op[2] = TRUE /\ ~Good
    BY <1>8, <2>2 DEF Good, Bad
  <2> QED BY <1>1, <1>2, <1>3, <1>8, <2>1, <2>3
<1> QED BY <1>2, <1>4, <1>5, <1>6, <1>7, <1>8 DEF Good, Bad

\* While an answer is read, only how much of it is left changes.
LEMMA ReadingKeeps ==
  ASSUME Standing, Undone, OwnAnswers, op # Idle, op' # Idle, op'[1] = op[1], Good' <=> Good,
         ~Waiting, ~Waiting', UNCHANGED <<txn, srv, held, db, closure, log, result>>
  PROVE  Standing' /\ Undone' /\ OwnAnswers'
<1>1. Standing'
  BY DEF Standing
<1>2. Undone' /\ OwnAnswers'
  BY DEF Undone, OwnAnswers
<1> QED BY <1>1, <1>2

LEMMA ReadStep == ASSUME PgInv, Read PROVE PgInv'
<1>1. /\ op # Idle /\ wire # <<>> /\ wire' = Tail(wire)
      /\ UNCHANGED <<mode, tls, phase, entitled, heard, srv, held, db, number, timeouts>>
  BY DEF Read, handshake
<1>2. number \in Nat /\ op \in Asked(number) /\ phase = "up"
  BY <1>1 DEF PgInv, PgTypes, Granted
<1>3. Head(wire) \in Message(number) /\ Tail(wire) \in Seq(Message(number))
  BY <1>1, HeadTailProperties DEF PgInv, PgTypes
<1>4. Granted'
  BY <1>1, <1>2 DEF PgInv, Granted
<1>5. timeouts = 0 => Conversation /\ Standing /\ Undone /\ OwnAnswers
  BY DEF PgInv, Orderly
<1>6. CASE \/ Head(wire)[1] = "D" /\ op' = [op EXCEPT ![3] = @ \cup {Head(wire)[2]}]
              /\ UNCHANGED <<txn, txn_status, requests, log, closure, result>>
           \/ Head(wire)[1] = "E" /\ op' = [op EXCEPT ![2] = TRUE]
              /\ UNCHANGED <<txn, txn_status, requests, log, closure, result>>
           \/ Head(wire)[1] = "C" /\ UNCHANGED <<op, txn, txn_status, requests, log, closure, result>>
  <2>1. UNCHANGED <<txn, txn_status, requests, log, closure, result>>
    BY <1>6
  <2>2. op' \in Asked(number) /\ op'[1] = op[1]
        /\ op'[2] = (IF Head(wire)[1] = "E" THEN TRUE ELSE op[2])
        /\ op'[3] = (IF Head(wire)[1] = "D" THEN op[3] \cup {Head(wire)[2]} ELSE op[3])
    <3>1. CASE Head(wire)[1] = "D"
      <4>1. op' = [op EXCEPT ![3] = op[3] \cup {Head(wire)[2]}]
        BY <1>6, <3>1
      <4>2. op[3] \cup {Head(wire)[2]} \in SUBSET (1..number)
        BY <1>2, <1>3, <3>1, InHand, MessageKinds
      <4>3. op' \in Asked(number) /\ op' = <<op[1], op[2], op[3] \cup {Head(wire)[2]}>>
        <5>1. \A S \in SUBSET (1..number) : /\ [op EXCEPT ![3] = S] \in Asked(number)
                                            /\ [op EXCEPT ![3] = S] = <<op[1], op[2], S>>
          BY <1>2, InHand
        <5> QED BY <4>1, <4>2, <5>1
      <4> QED BY <3>1, <4>3
    <3>2. CASE Head(wire)[1] = "E"
      <4>1. op' = [op EXCEPT ![2] = TRUE]
        BY <1>6, <3>2
      <4>2. op' \in Asked(number) /\ op' = <<op[1], TRUE, op[3]>>
        BY <1>2, <4>1, InHand
      <4> QED BY <3>2, <4>2
    <3>3. CASE Head(wire)[1] = "C"
      BY <1>2, <1>6, <3>3
    <3> QED BY <1>6, <3>1, <3>2, <3>3
  <2>3. PgTypeOK' /\ PgTypes'
    BY <1>1, <1>3, <2>1, <2>2 DEF PgInv, PgTypeOK, PgTypes
  <2>4. ASSUME timeouts = 0 PROVE Conversation' /\ Standing' /\ Undone' /\ OwnAnswers'
    <3>1. /\ requests = <<>> /\ ~Waiting
          /\ Head(wire)[1] = "D" => /\ Good /\ Tail(wire) = <<<<"C">>, <<"Z", srv>>>> /\ op[1][1] = "run"
                                    /\ Head(wire)[2] = op[1][2] /\ op[2] = FALSE /\ op[3] = {}
          /\ Head(wire)[1] = "C" => /\ Good /\ Tail(wire) = <<<<"Z", srv>>>>
                                    /\ op[2] = FALSE /\ op[3] = Own(op[1])
          /\ Head(wire)[1] = "E" => /\ ~Good /\ Tail(wire) = <<<<"Z", srv>>>>
                                    /\ op[2] = FALSE /\ op[3] = {}
      BY <1>1, <1>5, <2>4, ReadForms
    <3>2. op' # Idle
      BY <1>2, <2>2, InHand
    <3>3. requests' = <<>>
      BY <2>1, <3>1
    <3>4. ~Waiting'
      BY <3>3 DEF Waiting
    <3>5. CASE Head(wire)[1] = "D"
      <4>1. Good /\ wire' = <<<<"C">>, <<"Z", srv'>>>> /\ op'[2] = FALSE /\ op'[3] = Own(op'[1])
        BY <1>1, <2>2, <3>1, <3>5 DEF Own
      <4>2. Good'
        BY <3>3, <4>1 DEF Good
      <4> QED BY <1>1, <1>5, <2>1, <2>2, <2>4, <3>1, <3>2, <3>4, <4>1, <4>2, ReadingKeeps DEF Conversation
    <3>6. CASE Head(wire)[1] = "C"
      <4>1. Good /\ wire' = <<<<"Z", srv'>>>> /\ op'[2] = FALSE /\ op'[3] = Own(op'[1])
        BY <1>1, <2>2, <3>1, <3>6
      <4>2. Good'
        BY <3>3, <4>1 DEF Good
      <4> QED BY <1>1, <1>5, <2>1, <2>2, <2>4, <3>1, <3>2, <3>4, <4>1, <4>2, ReadingKeeps DEF Conversation
    <3>7. CASE Head(wire)[1] = "E"
      <4>1. ~Good /\ wire' = <<<<"Z", srv'>>>> /\ op'[2] = TRUE /\ op'[3] = {}
        BY <1>1, <2>2, <3>1, <3>7
      <4>2. Bad' /\ ~Good'
        BY <3>3, <4>1 DEF Good, Bad
      <4> QED BY <1>1, <1>5, <2>1, <2>2, <2>4, <3>1, <3>2, <3>4, <4>1, <4>2, ReadingKeeps DEF Conversation
    <3> QED BY <1>6, <3>5, <3>6, <3>7
  <2> QED BY <1>1, <1>4, <2>3, <2>4 DEF PgInv, Orderly
<1>7. CASE Head(wire)[1] = "Z" /\ txn_status' = Head(wire)[2] /\ Return(op[2])
  <2>1. op[2] \in BOOLEAN /\ op[1] \in Request(number)
    BY <1>2, InHand
  <2>2. /\ log' \in Seq(Nat \X BOOLEAN \X SUBSET Nat) /\ closure' \subseteq 1..number
        /\ txn' \in {"none", "begin", "body", "commit", "rollback"}
        /\ op' = Idle \/ op' \in Asked(number)
        /\ requests' \in Seq(Request(number))
        /\ result' = <<>> \/ \E w \in {"ok", "err"}, S \in SUBSET (1..number) : result' = <<w, S>>
    BY <1>1, <1>7, <2>1, ReturnTypes DEF PgInv
  <2>3. PgTypes'
    BY <1>1, <1>3, <2>2 DEF PgInv, PgTypes
  <2>4. PgTypeOK'
    <3>1. txn_status' \in {"I", "T", "E"}
      BY <1>2, <1>3, <1>7, MessageKinds
    <3> QED BY <1>1, <2>2, <3>1 DEF PgInv, PgTypeOK
  <2>5. ASSUME timeouts = 0 PROVE Conversation' /\ Standing' /\ Undone' /\ OwnAnswers'
    <3>1. /\ requests = <<>> /\ ~Waiting /\ txn_status' = srv /\ wire' = <<>>
          /\ \/ Good /\ op[2] = FALSE /\ op[3] = Own(op[1])
             \/ ~Good /\ op[2] = TRUE /\ op[3] = {}
      BY <1>1, <1>5, <1>7, <2>5, ReadForms
    <3>2. Standing /\ Undone /\ OwnAnswers /\ txn \in {"none", "begin", "body", "commit", "rollback"}
      BY <1>5, <2>5 DEF PgInv, PgTypeOK
    <3> DEFINE undo == txn = "commit" /\ op[2]
    <3>3. /\ op' = (IF undo THEN <<<<"rollback">>, FALSE, {}>> ELSE Idle)
          /\ requests' = (IF undo THEN <<<<"rollback">>>> ELSE <<>>)
      BY <1>7, <3>1, Tuples DEF Return
    <3>4. undo => op' # Idle /\ op'[1] = <<"rollback">> /\ Waiting'
      <4>1. ASSUME undo PROVE op' \in Asked(number)
        BY <1>2, <3>3, <4>1, AskedIs DEF Request
      <4> QED BY <1>2, <3>1, <3>3, <4>1, InHand DEF Waiting
    <3>5. Conversation'
      <4>1. ~undo => Quiet'
        BY <1>1, <3>1, <3>3 DEF Quiet
      <4> QED BY <3>4, <4>1 DEF Conversation
    <3>6. OwnAnswers'
      <4>1. CASE op[1][1] = "run"
        <5>1. log' = Append(log, <<op[1][2], op[2], op[3]>>) /\ log \in Seq(Nat \X BOOLEAN \X SUBSET Nat)
          BY <1>7, <4>1 DEF Return, PgInv, PgTypes
        <5>2. <<op[1][2], op[2], op[3]>> \in Nat \X BOOLEAN \X SUBSET Nat
          BY <1>2, <2>1, <4>1, Kinds, InHand
        <5>3. op[3] = IF op[2] THEN {} ELSE {op[1][2]}
          BY <3>1, <4>1 DEF Own
        <5>4. /\ Len(log') = Len(log) + 1 /\ Len(log) \in Nat
              /\ \A k \in 1..Len(log) : log'[k] = log[k]
              /\ log'[Len(log) + 1] = <<op[1][2], op[2], op[3]>>
          BY <5>1, <5>2, AppendProperties
        <5>5. \A k \in 1..Len(log) : log'[k][3] = IF log'[k][2] THEN {} ELSE {log'[k][1]}
          BY <3>2, <5>4 DEF OwnAnswers
        <5>6. log'[Len(log) + 1][3] = IF log'[Len(log) + 1][2] THEN {} ELSE {log'[Len(log) + 1][1]}
          BY <5>3, <5>4
        <5>7. \A k \in 1..Len(log') : k \in 1..Len(log) \/ k = Len(log) + 1
          BY <5>4
        <5> QED BY <5>5, <5>6, <5>7 DEF OwnAnswers
      <4>2. CASE op[1][1] # "run"
        BY <1>7, <3>2, <4>2 DEF Return, OwnAnswers
      <4> QED BY <4>1, <4>2
    <3>7. Standing' /\ Undone'
      <4>0. <<"begin">>[1] # "run" /\ <<"commit">>[1] # "run" /\ <<"rollback">>[1] # "run"
        OBVIOUS
      <4>1. CASE txn = "begin" /\ op[2] = FALSE
        <5>1. txn' = "body" /\ result' = result /\ closure' = closure /\ op' = Idle /\ srv = "T" /\ closure = {}
          BY <1>7, <3>1, <3>2, <4>1 DEF Return, Standing
        <5> QED BY <1>1, <3>2, <5>1 DEF Standing, Undone
      <4>2. CASE txn = "begin" /\ op[2] = TRUE
        <5>1. txn' = "none" /\ result' = <<"err", {}>> /\ op' = Idle
          BY <1>7, <4>2 DEF Return
        <5>2. result'[2] = {}
          BY <5>1
        <5> QED BY <1>1, <5>1, <5>2 DEF Standing, Undone
      <4>3. CASE txn = "body"
        <5>1. txn' = "body" /\ result' = result /\ op' = Idle
          BY <1>7, <4>3 DEF Return
        <5>2. srv # "I" /\ op[1][2] \notin db /\ closure \cap db = {}
          BY <1>1, <3>2, <4>3 DEF Standing
        <5>3. closure' \subseteq closure \cup {op[1][2]}
          BY <1>7 DEF Return
        <5>4. closure' \cap db = {}
          BY <5>2, <5>3
        <5> QED BY <1>1, <3>2, <5>1, <5>2, <5>4 DEF Standing, Undone
      <4>4. CASE txn = "commit" /\ op[2] = FALSE
        <5>1. txn' = "none" /\ result' = <<"ok", closure>> /\ op' = Idle
          BY <1>7, <4>4 DEF Return
        <5>2. result'[1] = "ok"
          BY <5>1
        <5> QED BY <1>1, <5>1, <5>2 DEF Standing, Undone
      <4>5. CASE txn = "commit" /\ op[2] = TRUE
        <5>1. txn' = "rollback" /\ result' = result /\ closure' = closure /\ closure \cap db = {}
          BY <1>7, <3>1, <3>2, <4>0, <4>5 DEF Return, Standing
        <5>2. Standing'
          BY <1>1, <3>4, <4>5, <5>1 DEF Standing
        <5>3. Undone'
          BY <1>1, <3>2, <3>4, <4>0, <4>5, <5>1 DEF Undone
        <5> QED BY <5>2, <5>3
      <4>6. CASE txn = "rollback"
        <5>1. txn' = "none" /\ result' = <<"err", closure>> /\ op' = Idle /\ closure \cap db = {} /\ held = {}
          BY <1>7, <3>1, <3>2, <4>6 DEF Return, Standing
        <5>2. result'[2] = closure
          BY <5>1
        <5> QED BY <1>1, <5>1, <5>2 DEF Standing, Undone
      <4>7. CASE txn = "none"
        <5>1. txn' = "none" /\ result' = result /\ op' = Idle
          BY <1>7, <4>7 DEF Return
        <5> QED BY <1>1, <3>2, <5>1 DEF Standing, Undone
      <4> QED BY <2>1, <3>2, <4>1, <4>2, <4>3, <4>4, <4>5, <4>6, <4>7
    <3> QED BY <3>5, <3>6, <3>7
  <2> QED BY <1>1, <1>4, <2>3, <2>4, <2>5 DEF PgInv, Orderly
<1> QED BY <1>6, <1>7 DEF Read

LEMMA TimeoutStep == ASSUME PgInv, ReadTimesOut PROVE PgInv'
<1>1. /\ op # Idle /\ timeouts' = timeouts + 1 /\ Return(TRUE)
      /\ UNCHANGED <<mode, tls, phase, entitled, heard, txn_status, wire, srv, held, db, number>>
  BY DEF ReadTimesOut, handshake
<1>2. /\ log' \in Seq(Nat \X BOOLEAN \X SUBSET Nat) /\ closure' \subseteq 1..number
      /\ txn' \in {"none", "begin", "body", "commit", "rollback"}
      /\ op' = Idle \/ op' \in Asked(number)
      /\ requests' \in Seq(Request(number))
      /\ result' = <<>> \/ \E w \in {"ok", "err"}, S \in SUBSET (1..number) : result' = <<w, S>>
  BY <1>1, ReturnTypes DEF PgInv
<1>3. timeouts \in Nat /\ timeouts' \in Nat /\ timeouts' # 0
  BY <1>1 DEF PgInv, PgTypes
<1>4. PgTypes' /\ PgTypeOK'
  BY <1>1, <1>2, <1>3 DEF PgInv, PgTypes, PgTypeOK
<1>5. Granted'
  BY <1>1 DEF PgInv, Granted
<1> QED BY <1>3, <1>4, <1>5 DEF PgInv, Orderly

-----------------------------------------------------------------------------
\* An answer of the server is well formed.
LEMMA AnswerTypes ==
  ASSUME PgTypes, requests # <<>>, NEW ok \in BOOLEAN, NEW status \in {"I", "T", "E"},
         Answer(Head(requests), ok, status)
  PROVE  /\ requests' \in Seq(Request(number)) /\ wire' \in Seq(Message(number)) /\ srv' = status
         /\ Head(requests) \in Request(number)
<1>1. number \in Nat /\ requests \in Seq(Request(number)) /\ wire \in Seq(Message(number))
  BY DEF PgTypes
<1>2. Head(requests) \in Request(number) /\ Tail(requests) \in Seq(Request(number))
  BY <1>1, HeadTailProperties
<1> DEFINE r == Head(requests)
           start == IF ok THEN IF r[1] = "run" THEN <<<<"D", r[2]>>, <<"C">>>> ELSE <<<<"C">>>> ELSE <<<<"E">>>>
<1>3. start \in Seq(Message(number))
  <2>1. <<"C">> \in Message(number) /\ <<"E">> \in Message(number)
    BY DEF Message
  <2>2. r[1] = "run" => <<"D", r[2]>> \in Message(number)
    BY <1>1, <1>2, Kinds DEF Message
  <2> QED BY <2>1, <2>2
<1>4. <<<<"Z", status>>>> \in Seq(Message(number))
  <2>1. <<"Z", status>> \in Message(number)
    BY DEF Message
  <2> QED BY <2>1
<1>5. requests' = Tail(requests) /\ srv' = status /\ wire' = wire \o start \o <<<<"Z", status>>>>
  BY DEF Answer
<1>6. wire' \in Seq(Message(number))
  <2> HIDE DEF start
  <2>1. start \o <<<<"Z", status>>>> \in Seq(Message(number))
    BY <1>3, <1>4, ConcatProperties
  <2>2. wire \o start \in Seq(Message(number))
    BY <1>1, <1>3, ConcatProperties
  <2> QED BY <1>1, <1>3, <1>4, <1>5, <2>1, <2>2, ConcatProperties
<1> QED BY <1>2, <1>5, <1>6

\* When the client waits, the server answers what it waits for.
LEMMA AnswerForms ==
  ASSUME Conversation, requests # <<>>, NEW ok \in BOOLEAN, NEW status, Answer(Head(requests), ok, status),
         UNCHANGED op
  PROVE  /\ op # Idle /\ Waiting /\ ~Good /\ Head(requests) = op[1] /\ ~Waiting' /\ Conversation'
         /\ ok => Good'
         /\ ~ok => ~Good'
<1>1. op # Idle /\ Waiting /\ ~Good
  BY DEF Conversation, Quiet, Good, Bad
<1>2. Head(requests) = op[1] /\ Tail(requests) = <<>>
  BY <1>1, Tuples DEF Waiting
<1>3. requests' = <<>> /\ srv' = status
  BY <1>2 DEF Answer
<1>4. ~Waiting'
  BY <1>3 DEF Waiting
<1>5. wire = <<>> /\ op'[2] = FALSE /\ op'[3] = {} /\ op'[1] = op[1]
  BY <1>1 DEF Waiting
<1>6. CASE ok /\ op[1][1] = "run"
  <2>1. wire' = <<>> \o <<<<"D", op[1][2]>>, <<"C">>>> \o <<<<"Z", status>>>>
    BY <1>2, <1>5, <1>6 DEF Answer
  <2>2. wire' = <<<<"D", op'[1][2]>>, <<"C">>, <<"Z", srv'>>>>
    <3>1. wire' = <<<<"D", op[1][2]>>, <<"C">>, <<"Z", status>>>>
      BY <2>1, InThree
    <3> QED BY <1>3, <1>5, <3>1
  <2>3. Good'
    BY <1>3, <1>5, <1>6, <2>2 DEF Good
  <2> QED BY <1>1, <1>2, <1>4, <1>6, <2>3 DEF Conversation
<1>7. CASE ok /\ op[1][1] # "run"
  <2>1. wire' = <<>> \o <<<<"C">>>> \o <<<<"Z", status>>>>
    BY <1>2, <1>5, <1>7 DEF Answer
  <2>2. wire' = <<<<"C">>, <<"Z", srv'>>>>
    BY <1>3, <2>1, Tuples
  <2>3. Good'
    BY <1>3, <1>5, <1>7, <2>2 DEF Good, Own
  <2> QED BY <1>1, <1>2, <1>4, <1>7, <2>3 DEF Conversation
<1>8. CASE ~ok
  <2>1. wire' = <<>> \o <<<<"E">>>> \o <<<<"Z", status>>>>
    BY <1>2, <1>5, <1>8 DEF Answer
  <2>2. wire' = <<<<"E">>, <<"Z", srv'>>>>
    BY <1>3, <2>1, Tuples
  <2>3. Bad'
    BY <1>3, <1>5, <2>2 DEF Bad
  <2>4. ~Good'
    <3>1. Head(wire') = <<"E">> /\ Len(wire') = 2
      BY <2>2, Tuples
    <3>2. Head(<<<<"C">>, <<"Z", srv'>>>>) = <<"C">>
      BY Tuples
    <3>3. <<"C">>[1] = "C" /\ <<"E">>[1] = "E"
      OBVIOUS
    <3> QED BY <3>1, <3>2, <3>3 DEF Good
  <2> QED BY <1>1, <1>2, <1>4, <1>8, <2>3, <2>4 DEF Conversation
<1> QED BY <1>6, <1>7, <1>8

\* What the server has done for the statement in hand leaves the rest alone.
LEMMA AnswerKeeps ==
  ASSUME Standing, Undone, OwnAnswers, op # Idle, Waiting, ~Good, ~Waiting',
         UNCHANGED <<op, txn, closure, log, result>>,
         \/ op[1][1] = "run" /\ (srv # "I" => srv' # "I" /\ db' = db)
            /\ db' \cup held' \subseteq db \cup held \cup {op[1][2]}
         \/ op[1][1] = "begin" /\ (Good' => srv' = "T") /\ UNCHANGED <<db, held>>
         \/ op[1][1] = "commit" /\ held' = {} /\ db' \subseteq db \cup held /\ (~Good' => db' = db)
         \/ op[1][1] = "rollback" /\ held' = {} /\ db' = db
  PROVE  Standing' /\ Undone' /\ OwnAnswers'
<1>1. OwnAnswers'
  BY DEF OwnAnswers
<1>2. Undone'
  <2> SUFFICES ASSUME result # <<>>, result[1] = "err" PROVE result[2] \cap (db' \cup held') = {}
    BY DEF Undone
  <2>1. result[2] \cap (db \cup held) = {} /\ (op[1][1] = "run" => op[1][2] \notin result[2])
    BY DEF Undone
  <2>2. CASE op[1][1] = "run"
    BY <2>1, <2>2
  <2>3. CASE op[1][1] # "run"
    <3>1. db' \cup held' \subseteq db \cup held
      BY <2>3
    <3> QED BY <2>1, <3>1
  <2> QED BY <2>2, <2>3
<1>3. Standing'
  <2>1. /\ txn = "begin" => op[1][1] = "begin" /\ closure = {} /\ op[1] = <<"begin">>
        /\ txn = "body" => op[1][1] = "run" /\ srv # "I" /\ op[1][2] \notin db /\ closure \cap db = {}
        /\ txn = "commit" => op[1][1] = "commit" /\ closure \cap db = {} /\ op[1] = <<"commit">>
        /\ txn = "rollback" => op[1][1] = "rollback" /\ closure \cap db = {} /\ op[1] = <<"rollback">>
    BY DEF Standing
  <2>2. CASE txn = "begin"
    BY <2>1, <2>2 DEF Standing
  <2>3. CASE txn = "body"
    BY <2>1, <2>3 DEF Standing
  <2>4. CASE txn = "commit"
    BY <2>1, <2>4 DEF Standing
  <2>5. CASE txn = "rollback"
    BY <2>1, <2>5 DEF Standing
  <2>6. CASE txn \notin {"begin", "body", "commit", "rollback"}
    BY <2>6 DEF Standing
  <2> QED BY <2>2, <2>3, <2>4, <2>5, <2>6
<1> QED BY <1>1, <1>2, <1>3

LEMMA ServerStep == ASSUME PgInv, ServerRuns PROVE PgInv'
<1>1. /\ requests # <<>>
      /\ UNCHANGED <<mode, tls, phase, entitled, heard, op, txn, txn_status, number, timeouts, log, closure, result>>
  BY DEF ServerRuns, handshake
<1> DEFINE r == Head(requests)
<1>2. /\ PgTypeOK /\ PgTypes /\ Granted /\ number \in Nat /\ srv \in {"I", "T", "E"}
      /\ held \subseteq 1..number /\ db \subseteq 1..number
  BY DEF PgInv, PgTypes, PgTypeOK
<1>3. phase = "up"
  BY <1>1, <1>2 DEF Granted
\* What the server answers, and what that does at the server.
<1>4. PICK ok \in BOOLEAN, status \in {"I", "T", "E"} :
        /\ Answer(r, ok, status)
        /\ \/ r[1] = "run" /\ (srv # "I" => status # "I" /\ db' = db)
              /\ db' \cup held' \subseteq db \cup held \cup {r[2]}
           \/ r[1] = "begin" /\ (ok => status = "T") /\ UNCHANGED <<db, held>>
           \/ r[1] = "commit" /\ held' = {} /\ db' \subseteq db \cup held /\ (~ok => db' = db)
           \/ r[1] = "rollback" /\ held' = {} /\ db' = db
  <2>1. CASE /\ r[1] = "run" /\ srv # "E" /\ Answer(r, TRUE, srv)
             /\ IF srv = "I" THEN db' = db \cup {r[2]} /\ UNCHANGED held
                             ELSE held' = held \cup {r[2]} /\ UNCHANGED db
    BY <1>2, <2>1
  <2>2. CASE r[1] = "run" /\ Answer(r, FALSE, IF srv = "I" THEN "I" ELSE "E") /\ UNCHANGED <<held, db>>
    <3> DEFINE status == IF srv = "I" THEN "I" ELSE "E"
    <3>1. status \in {"I", "T", "E"} /\ (srv # "I" => status # "I")
      OBVIOUS
    <3> HIDE DEF status
    <3> QED BY <2>2, <3>1 DEF status
  <2>3. CASE /\ r[1] = "begin" /\ UNCHANGED <<held, db>>
             /\ IF srv = "E" THEN Answer(r, FALSE, "E") ELSE Answer(r, TRUE, "T")
    BY <2>3
  <2>4. CASE r[1] = "commit" /\ Answer(r, TRUE, "I") /\ held' = {} /\ db' = IF srv = "T" THEN db \cup held ELSE db
    BY <2>4
  <2>5. CASE r[1] = "commit" /\ srv = "T" /\ Answer(r, FALSE, "I") /\ held' = {} /\ UNCHANGED db
    BY <2>5
  <2>6. CASE r[1] = "rollback" /\ Answer(r, TRUE, "I") /\ held' = {} /\ UNCHANGED db
    BY <2>6
  <2> QED BY <2>1, <2>2, <2>3, <2>4, <2>5, <2>6 DEF ServerRuns
<1>5. /\ requests' \in Seq(Request(number)) /\ wire' \in Seq(Message(number)) /\ srv' = status
      /\ r \in Request(number)
  BY <1>1, <1>2, <1>4, AnswerTypes
<1>6. held' \subseteq 1..number /\ db' \subseteq 1..number
  <2>1. r[1] = "run" => r[2] \in 1..number
    BY <1>2, <1>5, Kinds
  <2> QED BY <1>2, <1>4, <2>1
<1>7. PgTypeOK' /\ PgTypes'
  BY <1>1, <1>2, <1>5, <1>6 DEF PgTypeOK, PgTypes
<1>8. Granted'
  BY <1>1, <1>2, <1>3 DEF Granted
<1>9. ASSUME timeouts = 0 PROVE Conversation' /\ Standing' /\ Undone' /\ OwnAnswers'
  <2>1. Conversation /\ Standing /\ Undone /\ OwnAnswers
    BY <1>9 DEF PgInv, Orderly
  <2>2. /\ op # Idle /\ Waiting /\ ~Good /\ r = op[1] /\ ~Waiting' /\ Conversation'
        /\ ok => Good'
        /\ ~ok => ~Good'
    BY <1>1, <1>4, <2>1, AnswerForms
  <2>3. \/ op[1][1] = "run" /\ (srv # "I" => srv' # "I" /\ db' = db)
           /\ db' \cup held' \subseteq db \cup held \cup {op[1][2]}
        \/ op[1][1] = "begin" /\ (Good' => srv' = "T") /\ UNCHANGED <<db, held>>
        \/ op[1][1] = "commit" /\ held' = {} /\ db' \subseteq db \cup held /\ (~Good' => db' = db)
        \/ op[1][1] = "rollback" /\ held' = {} /\ db' = db
    <3> HIDE DEF r
    <3> QED BY <1>4, <1>5, <2>2
  <2>4. Standing' /\ Undone' /\ OwnAnswers'
    BY <1>1, <2>1, <2>2, <2>3, AnswerKeeps
  <2> QED BY <2>2, <2>4
<1> QED BY <1>1, <1>7, <1>8, <1>9 DEF PgInv, Orderly

-----------------------------------------------------------------------------
LEMMA PgStarts == PgInit => PgInv
<1> SUFFICES ASSUME PgInit PROVE PgInv
  OBVIOUS
<1>1. PgTypeOK
  BY PgBoundsAssumption DEF PgInit, PgTypeOK
<1>2. PgTypes
  BY DEF PgInit, PgTypes
<1>3. Granted
  BY DEF PgInit, Granted
<1>4. Conversation /\ Standing /\ Undone /\ OwnAnswers
  BY DEF PgInit, Conversation, Quiet, Standing, Undone, OwnAnswers
<1> QED BY <1>1, <1>2, <1>3, <1>4 DEF PgInv, Orderly

LEMMA PgStep == PgInv /\ [PgNext]_pgVars => PgInv'
<1> SUFFICES ASSUME PgInv, [PgNext]_pgVars PROVE PgInv'
  OBVIOUS
<1>1. CASE UNCHANGED pgVars
  <2>1. UNCHANGED <<mode, tls, phase, entitled, heard, op, txn, txn_status, requests, wire, srv, held, db,
                    number, timeouts, log, closure, result>>
    BY <1>1 DEF pgVars, handshake, atServer
  <2>2. PgTypeOK' /\ PgTypes' /\ Granted'
    BY <2>1 DEF PgInv, PgTypeOK, PgTypes, Granted
  <2>3. (Good' <=> Good) /\ (Waiting' <=> Waiting) /\ (Bad' <=> Bad)
    BY <2>1 DEF Good, Waiting, Bad
  <2>4. Conversation' <=> Conversation
    BY <2>1, <2>3 DEF Conversation, Quiet
  <2>5. (Standing' <=> Standing) /\ (Undone' <=> Undone) /\ (OwnAnswers' <=> OwnAnswers)
    BY <2>1, <2>3 DEF Standing, Undone, OwnAnswers
  <2> QED BY <2>1, <2>2, <2>4, <2>5 DEF PgInv, Orderly
<1>2. CASE PgNext
  BY <1>2, HandshakeStep, SendStep, ReadStep, TimeoutStep, ServerStep DEF PgNext
<1> QED BY <1>1, <1>2

\* mesh_pg_connect, mesh_pg_query, mesh_pg_transaction: however statements,
\* transactions and failures follow each other, a connection is up only when
\* granted, and until a read has given up a statement returns its own answer,
\* the client knows the server's status between statements, and a transaction
\* that returned Err has left nothing.
THEOREM StatementsKeepTheirAnswers == PgSpec => []StatementsAnswered
<1>1. PgInv => StatementsAnswered
  <2> SUFFICES ASSUME PgInv PROVE StatementsAnswered
    OBVIOUS
  <2>1. PgTypeOK /\ UpIsEntitled
    BY DEF PgInv, Granted, UpIsEntitled
  <2>2. timeouts = 0 => AnswersMatch /\ StatusIsServers /\ ErrLeavesNothing
    <3> SUFFICES ASSUME timeouts = 0 PROVE AnswersMatch /\ StatusIsServers /\ ErrLeavesNothing
      OBVIOUS
    <3>1. Conversation /\ Undone /\ OwnAnswers
      BY DEF PgInv, Orderly
    <3> QED BY <3>1 DEF Conversation, Quiet, Undone, OwnAnswers, AnswersMatch, StatusIsServers, ErrLeavesNothing
  <2> QED BY <2>1, <2>2 DEF StatementsAnswered, AnswersMatch, StatusIsServers, ErrLeavesNothing
<1> QED BY <1>1, PgStarts, PgStep, PTL DEF PgSpec

-----------------------------------------------------------------------------
(* Migrations.  A command goes through pending from its head; the head is  *)
(* the only version for which the table may be behind the database, and    *)
(* what has run is below what is pending.                                  *)

LEMMA LeastNatural ==
  ASSUME NEW T, T \subseteq Nat, T # {}
  PROVE  \E m \in T : \A k \in T : m <= k
<1>1. PICK m \in T : \A k \in T : ~(<<k, m>> \in OpToRel(<, Nat))
  BY NatLessThanWellFounded, WFMin, Zenon
<1>2. \A k \in T : ~(k < m)
  BY <1>1, Zenon DEF OpToRel
<1> QED BY <1>2

InOrder(s) == \A i, j \in DOMAIN s : i < j => s[i] < s[j]

Orders(S) == {s \in [1..Cardinality(S) -> S] : InOrder(s)}

\* One version below all the others is put in front of them.
LEMMA PutInFront ==
  ASSUME NEW S, S \subseteq Nat, IsFiniteSet(S), NEW x \in S, \A y \in S : x <= y,
         Orders(S \ {x}) # {}
  PROVE  Orders(S) # {}
<1>1. Cardinality(S) \in Nat /\ Cardinality(S) # 0
  BY FS_CardinalityType, FS_EmptySet
<1>2. Cardinality(S \ {x}) = Cardinality(S) - 1
  BY FS_RemoveElement
<1> DEFINE n == Cardinality(S)
           R == S \ {x}
<1>3. PICK s \in [1..n - 1 -> R] : InOrder(s)
  BY <1>2 DEF Orders
<1> DEFINE t == [i \in 1..n |-> IF i = 1 THEN x ELSE s[i - 1]]
<1>4. n \in Nat /\ n # 0 /\ \A i \in 1..n : i # 1 => i - 1 \in 1..n - 1
  BY <1>1
<1>5. t \in [1..n -> S]
  <2> HIDE DEF n
  <2> QED BY <1>3, <1>4
<1>6. InOrder(t)
  <2> HIDE DEF n
  <2> SUFFICES ASSUME NEW i \in 1..n, NEW j \in 1..n, i < j PROVE t[i] < t[j]
    BY DEF InOrder
  <2>1. j # 1 /\ j - 1 \in 1..n - 1 /\ t[j] = s[j - 1] /\ s[j - 1] \in R
    BY <1>3, <1>4
  <2>2. CASE i = 1
    <3>1. t[i] = x /\ x <= s[j - 1] /\ s[j - 1] # x /\ s[j - 1] \in Nat /\ x \in Nat
      BY <1>4, <2>1, <2>2
    <3> QED BY <2>1, <3>1
  <2>3. CASE i # 1
    <3>1. i - 1 \in 1..n - 1 /\ t[i] = s[i - 1] /\ i - 1 < j - 1
      BY <1>4, <2>3
    <3>2. DOMAIN s = 1..n - 1
      BY <1>3
    <3> QED BY <1>3, <2>1, <3>1, <3>2 DEF InOrder
  <2> QED BY <2>2, <2>3
<1> QED BY <1>5, <1>6 DEF Orders

\* Any finite set of versions can be put in order: otherwise there would be a
\* smallest that cannot, and it has a least version.
LEMMA OrderExists ==
  ASSUME NEW S, S \subseteq Nat, IsFiniteSet(S)
  PROVE  Orders(S) # {}
<1> SUFFICES ASSUME Orders(S) = {} PROVE FALSE
  OBVIOUS
<1> DEFINE T == {n \in Nat : \E A \in SUBSET S : Cardinality(A) = n /\ Orders(A) = {}}
<1>1. Cardinality(S) \in T
  BY FS_CardinalityType
<1>2. PICK m \in T : \A k \in T : m <= k
  <2>1. T \subseteq Nat /\ T # {}
    BY <1>1
  <2> HIDE DEF T
  <2> QED BY <2>1, LeastNatural
<1>3. PICK A \in SUBSET S : Cardinality(A) = m /\ Orders(A) = {}
  OBVIOUS
<1>4. IsFiniteSet(A) /\ A \subseteq Nat
  BY FS_Subset
<1>5. A # {}
  <2> SUFFICES ASSUME A = {} PROVE FALSE
    OBVIOUS
  <2>1. Cardinality(A) = 0
    BY FS_EmptySet
  <2>2. [i \in 1..0 |-> 0] \in [1..0 -> A] /\ InOrder([i \in 1..0 |-> 0])
    BY DEF InOrder
  <2> QED BY <1>3, <2>1, <2>2 DEF Orders
<1>6. PICK x \in A : \A y \in A : x <= y
  BY <1>4, <1>5, LeastNatural
<1>7. Cardinality(A \ {x}) = m - 1 /\ m - 1 \in Nat /\ ~(m <= m - 1)
  <2>1. Cardinality(A \ {x}) = Cardinality(A) - 1
    BY <1>4, FS_RemoveElement
  <2>2. Cardinality(A) # 0 /\ Cardinality(A) \in Nat
    BY <1>4, <1>5, FS_EmptySet, FS_CardinalityType
  <2> QED BY <1>3, <2>1, <2>2
<1>8. Orders(A \ {x}) # {}
  BY <1>2, <1>7
<1> QED BY <1>3, <1>4, <1>6, <1>8, PutInFront

\* migrations.sort_by_key: every version, once, in order.
LEMMA SortedInOrder ==
  ASSUME NEW S, S \subseteq Nat, IsFiniteSet(S)
  PROVE  /\ Sorted(S) \in Seq(S) /\ InOrder(Sorted(S))
         /\ \A v \in S : \E i \in DOMAIN Sorted(S) : Sorted(S)[i] = v
<1> DEFINE n == Cardinality(S)
           s == Sorted(S)
<1>1. n \in Nat
  BY FS_CardinalityType
<1>2. s \in [1..n -> S] /\ InOrder(s)
  <2>1. PICK w \in [1..n -> S] : \A i, j \in DOMAIN w : i < j => w[i] < w[j]
    BY OrderExists DEF Orders, InOrder
  <2>2. s = CHOOSE t \in [1..n -> S] : \A i, j \in DOMAIN t : i < j => t[i] < t[j]
    BY DEF Sorted
  <2>3. s \in [1..n -> S] /\ \A i, j \in DOMAIN s : i < j => s[i] < s[j]
    <3> HIDE DEF n, s
    <3> QED BY <2>1, <2>2, Zenon
  <2> QED BY <2>3 DEF InOrder
<1> HIDE DEF s
<1>3. s \in Injection(1..n, S)
  <2> HIDE DEF n
  <2>1. DOMAIN s = 1..n /\ \A i \in 1..n : s[i] \in Nat
    BY <1>2
  <2>2. \A i, j \in 1..n : s[i] = s[j] => i = j
    BY <1>1, <1>2, <2>1 DEF InOrder
  <2> QED BY <1>2, <2>2 DEF Injection, IsInjective
<1>4. Cardinality(1..n) = n
  BY <1>1, FS_Interval
<1>5. s \in Surjection(1..n, S)
  BY <1>3, <1>4, FS_Injection
<1>6. \A v \in S : \E i \in 1..n : s[i] = v
  BY <1>5 DEF Surjection
<1>7. s \in Seq(S) /\ DOMAIN s = 1..n
  <2> HIDE DEF n
  <2> QED BY <1>1, <1>2
<1> QED BY <1>2, <1>6, <1>7 DEF s

\* Where a command is.
Going ==
    /\ pending \in Seq(files) /\ done \in Seq(files) /\ IsFiniteSet(files)
    /\ ran => /\ command # "idle" /\ pending # <<>>
              /\ schema[Head(pending)] = Whole
    /\ command # "idle" => failed = 0

\* The table is right but for what was cut or failed, and what has just run.
Told ==
    /\ \A v \in files : \/ schema[v] = IF v \in table THEN "whole" ELSE "none"
                       \/ v \in untold \/ (ran /\ v = Head(pending))
    /\ \A v \in Versions \ files : schema[v] = "none"

\* What has run is in order and below what has not.
Upwards ==
    /\ InOrder(pending) /\ InOrder(done)
    /\ \A i \in DOMAIN done, j \in DOMAIN pending :
          done[i] < pending[j] \/ (ran /\ j = 1 /\ done[i] = pending[1])
    /\ failed # 0 => \A i \in DOMAIN done : done[i] < failed

\* An up that is under way has before it whatever is not applied.
Before == command = "up" => \A v \in files \ table : \E i \in DOMAIN pending : pending[i] = v

MigrationInv == MigrationTypeOK /\ Going /\ Told /\ Upwards /\ Before

LEMMA NothingInRange == Range(<<>>) = {}
BY DEF Range

LEMMA MigrationStarts == MigrationInit => MigrationInv
<1> SUFFICES ASSUME MigrationInit PROVE MigrationInv
  OBVIOUS
<1>1. MigrationTypeOK
  BY NothingInRange DEF MigrationInit, MigrationTypeOK
<1>2. Going
  BY FS_EmptySet DEF MigrationInit, Going
<1>3. Told /\ Upwards /\ Before
  BY DEF MigrationInit, Told, Upwards, Before, InOrder
<1> QED BY <1>1, <1>2, <1>3 DEF MigrationInv

\* A command starts with a list in order.
LEMMA StartKeeps ==
  ASSUME MigrationInv, NEW c \in {"up", "down"}, NEW list \in Seq(files), Start(c, list), InOrder(list),
         c = "up" => \A v \in files \ table : \E i \in DOMAIN list : list[i] = v
  PROVE  MigrationInv'
<1>1. /\ command = "idle" /\ command' = c /\ pending' = list /\ done' = <<>> /\ failed' = 0
      /\ UNCHANGED <<files, table, schema, ran, untold>>
  BY DEF Start
<1>2. ran = FALSE
  BY <1>1 DEF MigrationInv, Going, MigrationTypeOK
<1>3. MigrationTypeOK'
  <2>1. Range(list) \subseteq files
    BY DEF Range
  <2> QED BY <1>1, <2>1, NothingInRange DEF MigrationInv, MigrationTypeOK
<1>4. Going' /\ Told'
  BY <1>1, <1>2 DEF MigrationInv, Going, Told, MigrationTypeOK
<1>5. Upwards' /\ Before'
  BY <1>1, <1>2 DEF MigrationInv, Upwards, Before, InOrder
<1> QED BY <1>3, <1>4, <1>5 DEF MigrationInv

\* The rest of what is pending.
LEMMA Rest ==
  ASSUME MigrationInv, pending # <<>>
  PROVE  /\ Head(pending) \in files /\ Head(pending) = pending[1] /\ Tail(pending) \in Seq(files)
         /\ Range(Tail(pending)) \subseteq files
         /\ \A i \in DOMAIN Tail(pending) : i + 1 \in DOMAIN pending /\ Tail(pending)[i] = pending[i + 1]
         /\ \A i \in DOMAIN pending : i = 1 \/ (i - 1 \in DOMAIN Tail(pending) /\ Tail(pending)[i - 1] = pending[i])
         /\ InOrder(Tail(pending)) /\ 1 \in DOMAIN pending
<1>1. pending \in Seq(files)
  BY DEF MigrationInv, Going
<1>2. /\ Head(pending) \in files /\ Head(pending) = pending[1] /\ Tail(pending) \in Seq(files)
      /\ Len(Tail(pending)) = Len(pending) - 1 /\ Len(pending) \in Nat /\ Len(pending) # 0
      /\ \A i \in 1..Len(pending) - 1 : Tail(pending)[i] = pending[i + 1]
      /\ DOMAIN pending = 1..Len(pending) /\ DOMAIN Tail(pending) = 1..Len(pending) - 1
  BY <1>1, HeadTailProperties
<1>3. \A i \in DOMAIN Tail(pending) : i + 1 \in DOMAIN pending /\ Tail(pending)[i] = pending[i + 1]
  BY <1>2
<1>4. \A i \in DOMAIN pending : i = 1 \/ (i - 1 \in DOMAIN Tail(pending) /\ Tail(pending)[i - 1] = pending[i])
  BY <1>2
<1>5. InOrder(Tail(pending))
  <2> SUFFICES ASSUME NEW i \in DOMAIN Tail(pending), NEW j \in DOMAIN Tail(pending), i < j
               PROVE  Tail(pending)[i] < Tail(pending)[j]
    BY DEF InOrder
  <2>1. i + 1 < j + 1
    BY <1>2
  <2>2. InOrder(pending)
    BY DEF MigrationInv, Upwards
  <2> QED BY <1>3, <2>1, <2>2 DEF InOrder
<1>6. Range(Tail(pending)) \subseteq files
  BY <1>2 DEF Range
<1> QED BY <1>2, <1>3, <1>4, <1>5, <1>6

LEMMA MigrationStep == MigrationInv /\ [MigrationNext]_migrationVars => MigrationInv'
<1> SUFFICES ASSUME MigrationInv, [MigrationNext]_migrationVars PROVE MigrationInv'
  OBVIOUS
<1>t. MigrationTypeOK /\ Going /\ Told /\ Upwards /\ Before
  BY DEF MigrationInv
<1>n. files \subseteq Nat \ {0} /\ IsFiniteSet(files)
  BY <1>t, VersionsAssumption DEF MigrationTypeOK, Going
<1>1. ASSUME NEW v \in Versions, generate_migration(v) PROVE MigrationInv'
  <2>1. /\ command = "idle" /\ files' = files \cup {v} /\ v \notin files
        /\ UNCHANGED <<table, schema, command, pending, ran, done, untold, failed>>
    BY <1>1 DEF generate_migration
  <2>2. ran = FALSE
    BY <1>t, <2>1 DEF Going, MigrationTypeOK
  <2>3. MigrationTypeOK'
    BY <1>t, <2>1 DEF MigrationTypeOK
  <2>4. Going'
    <3>1. IsFiniteSet(files')
      BY <1>n, <2>1, FS_AddElement
    <3>2. pending' \in Seq(files') /\ done' \in Seq(files')
      BY <1>t, <2>1 DEF Going
    <3> QED BY <1>t, <2>1, <2>2, <3>1, <3>2 DEF Going
  <2>5. Told'
    BY <1>t, <2>1, <2>2 DEF Told, MigrationTypeOK
  <2>6. Upwards' /\ Before'
    BY <1>t, <2>1 DEF Upwards, Before, InOrder
  <2> QED BY <2>3, <2>4, <2>5, <2>6 DEF MigrationInv
<1>2. CASE Up
  <2>1. files \ table \subseteq Nat /\ IsFiniteSet(files \ table)
    BY <1>n, FS_Subset
  <2> DEFINE list == Sorted(files \ table)
  <2>2. list \in Seq(files) /\ InOrder(list) /\ \A v \in files \ table : \E i \in DOMAIN list : list[i] = v
    <3>1. list \in Seq(files \ table) /\ InOrder(list)
          /\ \A v \in files \ table : \E i \in DOMAIN list : list[i] = v
      BY <2>1, SortedInOrder
    <3> HIDE DEF list
    <3> QED BY <3>1
  <2>3. Start("up", list)
    BY <1>2 DEF Up
  <2> HIDE DEF list
  <2> QED BY <2>2, <2>3, StartKeeps
<1>3. CASE Down
  <2> DEFINE last == CHOOSE v \in table : \A t \in table : t <= v
  <2>1. last \in files /\ Start("down", <<last>>)
    BY <1>3 DEF Down
  <2> HIDE DEF last
  <2>2. <<last>> \in Seq(files) /\ InOrder(<<last>>)
    BY <2>1 DEF InOrder
  <2> QED BY <2>1, <2>2, StartKeeps
<1>4. CASE Run
  <2>1. /\ command # "idle" /\ pending # <<>> /\ ran = FALSE /\ ran' = TRUE
        /\ schema' = [schema EXCEPT ![Head(pending)] = Whole]
        /\ done' = Append(done, Head(pending))
        /\ UNCHANGED <<files, table, command, pending, untold, failed>>
    BY <1>4, <1>t DEF Run, MigrationTypeOK
  <2>2. Head(pending) \in files /\ Head(pending) = pending[1] /\ 1 \in DOMAIN pending
    BY <2>1, Rest
  <2>3. /\ done' \in Seq(files) /\ DOMAIN done = 1..Len(done) /\ DOMAIN done' = 1..Len(done) + 1
        /\ Len(done) \in Nat
        /\ \A i \in 1..Len(done) : done'[i] = done[i]
        /\ done'[Len(done) + 1] = pending[1]
    BY <1>t, <2>1, <2>2, AppendProperties DEF Going
  <2>4. MigrationTypeOK'
    <3>1. Range(done') \subseteq files
      BY <2>3 DEF Range
    <3>2. schema' \in [Versions -> {"none", "part", "whole"}]
      BY <1>t, <2>1, <2>2 DEF MigrationTypeOK, Whole
    <3> QED BY <1>t, <2>1, <3>1, <3>2 DEF MigrationTypeOK
  <2>5. Going'
    BY <1>t, <2>1, <2>2, <2>3 DEF Going, Whole, MigrationTypeOK
  <2>6. Told'
    BY <1>t, <2>1, <2>2 DEF Told, MigrationTypeOK
  <2>7. InOrder(done')
    <3> SUFFICES ASSUME NEW i \in DOMAIN done', NEW j \in DOMAIN done', i < j PROVE done'[i] < done'[j]
      BY DEF InOrder
    <3>1. i \in DOMAIN done /\ done'[i] = done[i]
      BY <2>3
    <3>2. CASE j \in DOMAIN done
      BY <1>t, <2>3, <3>1, <3>2 DEF Upwards, InOrder
    <3>3. CASE j = Len(done) + 1
      BY <1>t, <2>1, <2>2, <2>3, <3>1, <3>3 DEF Upwards
    <3> QED BY <2>3, <3>2, <3>3
  <2>8. \A i \in DOMAIN done', j \in DOMAIN pending :
           done'[i] < pending[j] \/ (j = 1 /\ done'[i] = pending[1])
    <3> SUFFICES ASSUME NEW i \in DOMAIN done', NEW j \in DOMAIN pending
                 PROVE  done'[i] < pending[j] \/ (j = 1 /\ done'[i] = pending[1])
      OBVIOUS
    <3>1. CASE i \in DOMAIN done
      BY <1>t, <2>1, <2>3, <3>1 DEF Upwards
    <3>2. CASE i = Len(done) + 1
      <4>1. DOMAIN pending = 1..Len(pending) /\ Len(pending) \in Nat
        BY <1>t DEF Going
      <4>2. j = 1 \/ 1 < j
        BY <4>1
      <4> QED BY <1>t, <2>2, <2>3, <3>2, <4>2 DEF Upwards, InOrder
    <3> QED BY <2>3, <3>1, <3>2
  <2>9. Upwards' /\ Before'
    <3>1. failed' = 0
      BY <1>t, <2>1 DEF Going
    <3>2. InOrder(pending)'
      BY <1>t, <2>1 DEF Upwards, InOrder
    <3>3. InOrder(done)'
      BY <2>7 DEF InOrder
    <3>4. Upwards'
      BY <2>1, <2>8, <3>1, <3>2, <3>3 DEF Upwards
    <3>5. Before'
      BY <1>t, <2>1 DEF Before
    <3> QED BY <3>4, <3>5
  <2> QED BY <2>4, <2>5, <2>6, <2>9 DEF MigrationInv
<1>5. CASE RunFails
  <2>1. /\ command # "idle" /\ pending # <<>> /\ ran = FALSE
        /\ command' = "idle" /\ pending' = <<>> /\ failed' = Head(pending)
        /\ untold' = untold \cup {Head(pending)}
        /\ \E after \in {schema[Head(pending)], "part", Whole} :
              schema' = [schema EXCEPT ![Head(pending)] = after]
        /\ UNCHANGED <<files, table, ran, done>>
    BY <1>5, <1>t DEF RunFails, Leaves, MigrationTypeOK
  <2>2. Head(pending) \in files /\ Head(pending) = pending[1] /\ 1 \in DOMAIN pending
    BY <2>1, Rest
  <2>3. PICK after \in {"none", "part", "whole"} : schema' = [schema EXCEPT ![Head(pending)] = after]
    BY <1>t, <2>1, <2>2 DEF MigrationTypeOK, Whole
  <2>t. MigrationTypeOK'
    BY <1>t, <2>1, <2>2, <2>3, NothingInRange DEF MigrationTypeOK
  <2>4. Going' /\ Told' /\ Before'
    BY <1>t, <2>1, <2>2, <2>3 DEF Going, Told, Before, MigrationTypeOK
  <2>5. Upwards'
    BY <1>t, <2>1, <2>2 DEF Upwards, InOrder
  <2> QED BY <2>t, <2>4, <2>5 DEF MigrationInv
<1>6. CASE Record
  <2>1. /\ ran = TRUE /\ ran' = FALSE /\ pending # <<>> /\ pending' = Tail(pending)
        /\ table' = (IF command = "up" THEN table \cup {Head(pending)} ELSE table \ {Head(pending)})
        /\ untold' = untold \ {Head(pending)}
        /\ UNCHANGED <<files, schema, command, done, failed>>
    BY <1>6, <1>t DEF Record, Going, MigrationTypeOK
  <2>2. /\ Head(pending) \in files /\ Head(pending) = pending[1] /\ Tail(pending) \in Seq(files)
        /\ Range(Tail(pending)) \subseteq files
        /\ \A i \in DOMAIN Tail(pending) : i + 1 \in DOMAIN pending /\ Tail(pending)[i] = pending[i + 1]
        /\ \A i \in DOMAIN pending : i = 1 \/ (i - 1 \in DOMAIN Tail(pending) /\ Tail(pending)[i - 1] = pending[i])
        /\ InOrder(Tail(pending)) /\ 1 \in DOMAIN pending
    BY <2>1, Rest
  <2>3. MigrationTypeOK'
    BY <1>t, <2>1, <2>2 DEF MigrationTypeOK
  <2>4. Going'
    BY <1>t, <2>1, <2>2 DEF Going
  <2>5. Told'
    BY <1>t, <2>1, <2>2 DEF Told, Going, Whole, MigrationTypeOK
  <2>6. \A i \in DOMAIN done, j \in DOMAIN Tail(pending) : done[i] < Tail(pending)[j]
    <3> SUFFICES ASSUME NEW i \in DOMAIN done, NEW j \in DOMAIN Tail(pending) PROVE done[i] < Tail(pending)[j]
      OBVIOUS
    <3>1. j + 1 \in DOMAIN pending /\ Tail(pending)[j] = pending[j + 1]
      BY <2>2
    <3>2. j + 1 # 1
      BY <2>2
    <3> QED BY <1>t, <3>1, <3>2 DEF Upwards
  <2>7. Upwards'
    <3>1. InOrder(pending)' /\ InOrder(done)'
      BY <1>t, <2>1, <2>2 DEF InOrder, Upwards
    <3> QED BY <1>t, <2>1, <2>6, <3>1 DEF Upwards
  <2>8. Before'
    <3> SUFFICES ASSUME command = "up", NEW v \in files \ table, v # Head(pending)
                 PROVE  \E i \in DOMAIN Tail(pending) : Tail(pending)[i] = v
      BY <2>1 DEF Before
    <3>1. PICK i \in DOMAIN pending : pending[i] = v
      BY <1>t DEF Before
    <3> QED BY <2>2, <3>1
  <2> QED BY <2>3, <2>4, <2>5, <2>7, <2>8 DEF MigrationInv
<1>7. CASE Finish
  <2>1. /\ pending = <<>> /\ command' = "idle"
        /\ UNCHANGED <<files, table, schema, pending, ran, done, untold, failed>>
    BY <1>7 DEF Finish
  <2>2. MigrationTypeOK' /\ Going' /\ Told'
    BY <1>t, <2>1 DEF MigrationTypeOK, Going, Told, Whole
  <2>3. Upwards' /\ Before'
    BY <1>t, <2>1 DEF Upwards, Before, InOrder
  <2> QED BY <2>2, <2>3 DEF MigrationInv
<1>8. CASE Cut
  <2>1. /\ pending # <<>> /\ untold' = untold \cup {Head(pending)}
        /\ \/ UNCHANGED schema
           \/ \E after \in {schema[Head(pending)], "part", Whole} :
                 schema' = [schema EXCEPT ![Head(pending)] = after]
        /\ command' = "idle" /\ pending' = <<>> /\ ran' = FALSE
        /\ UNCHANGED <<files, table, done, failed>>
    BY <1>8 DEF Cut, Leaves
  <2>2. Head(pending) \in files
    BY <2>1, Rest
  <2>3. PICK after \in {"none", "part", "whole"} : schema' = [schema EXCEPT ![Head(pending)] = after]
    <3>1. CASE UNCHANGED schema
      BY <1>t, <2>2, <3>1 DEF MigrationTypeOK
    <3> QED BY <1>t, <2>1, <2>2, <3>1 DEF MigrationTypeOK, Whole
  <2>t. MigrationTypeOK'
    BY <1>t, <2>1, <2>2, <2>3, NothingInRange DEF MigrationTypeOK
  <2>4. Going' /\ Told'
    BY <1>t, <2>1, <2>2, <2>3 DEF Going, Told, MigrationTypeOK
  <2>5. Upwards' /\ Before'
    BY <1>t, <2>1 DEF Upwards, Before, InOrder
  <2> QED BY <2>t, <2>4, <2>5 DEF MigrationInv
<1>9. CASE UNCHANGED migrationVars
  <2>1. UNCHANGED <<files, table, schema, command, pending, ran, done, untold, failed>>
    BY <1>9 DEF migrationVars
  <2>2. MigrationTypeOK' /\ Going' /\ Told'
    BY <1>t, <2>1 DEF MigrationTypeOK, Going, Told, Whole
  <2>3. Upwards' /\ Before'
    BY <1>t, <2>1 DEF Upwards, Before, InOrder
  <2> QED BY <2>2, <2>3 DEF MigrationInv
<1> QED BY <1>1, <1>2, <1>3, <1>4, <1>5, <1>6, <1>7, <1>8, <1>9 DEF MigrationNext

\* run_migrations_up and _down: whichever migrations fail and wherever a
\* command is cut, the table tells what the database has, all of a migration
\* or nothing of it, but for migrations whose last run failed or was cut
\* before their row, and a command runs in order up to its first failure.
THEOREM MigrationsTold == MigrationSpec => []MigrationsAreTold
<1>1. MigrationInv => MigrationsAreTold
  BY DEF MigrationInv, MigrationsAreTold, Told, Upwards, InOrder, Going, TableTellsSchema, FailureStops,
     MigrationTypeOK
<1> QED BY <1>1, MigrationStarts, MigrationStep, PTL DEF MigrationSpec

\* run_migrations_up: gone through without a failure, it leaves no file
\* unapplied, in whatever order the files arrived.
THEOREM UpAppliesEveryFile == MigrationSpec => UpAppliesAll
<1>1. MigrationInv => UpApplies
  BY DEF MigrationInv, Before, UpApplies
<1>2. MigrationInv /\ [MigrationNext]_migrationVars => [UpApplies]_migrationVars
  BY <1>1
<1> QED BY <1>2, MigrationStarts, MigrationStep, PTL DEF MigrationSpec, UpAppliesAll

-----------------------------------------------------------------------------
(* The heap.  Every block is in one of three lists, the last two of which  *)
(* are what is left of the list of objects while it is swept: free, kept   *)
(* and still to be swept.  What the program can reach is in a set that is  *)
(* closed under the words of its blocks, but for those the mark has yet to *)
(* look into.                                                              *)

HeapTypes ==
    /\ size \in Seq(Sizes) /\ next \in [Blocks -> Blocks \cup {0}]
    /\ body \in [Blocks -> SUBSET Blocks] /\ flags \in [Blocks -> SUBSET {"marked", "free"}]
    /\ {head, freehead, current, prev, newhead} \subseteq Blocks \cup {0}
    /\ total \in Nat /\ roots \subseteq Blocks /\ stage \in {"run", "mark", "sweep"}
    /\ work \in Seq(Blocks) /\ first \in BOOLEAN /\ steps \in Nat /\ Len(size) <= MaxBlocks

(* The blocks that are kept, still to be swept, and free.                  *)
Parted(kept, rest, free) ==
    /\ IsInjective(kept) /\ IsInjective(rest) /\ IsInjective(free)
    /\ Range(kept) \cap Range(rest) = {} /\ Range(kept) \cap Range(free) = {}
    /\ Range(rest) \cap Range(free) = {}
    /\ Blocks = Range(kept) \cup Range(rest) \cup Range(free)

Threaded(kept, rest, free) ==
    /\ Links(freehead, free, 0)
    /\ IF stage = "sweep"
       THEN /\ Links(newhead, kept, current) /\ Links(current, rest, 0)
            /\ first = (kept = <<>>) /\ prev = IF kept = <<>> THEN 0 ELSE kept[Len(kept)]
       ELSE kept = <<>> /\ Links(head, rest, 0)

Marked == {b \in Blocks : "marked" \in flags[b]}

Flagged(rest, free) ==
    /\ \A b \in Blocks : "free" \in flags[b] <=> b \in Range(free)
    /\ Range(work) \subseteq Marked /\ Marked \subseteq Range(rest)
    /\ stage = "run" => Marked = {}
    /\ stage # "mark" => work = <<>>

(* What the program can reach: in one of these, and from there.            *)
Live(kept, rest) == IF stage = "run" THEN Range(rest) ELSE Range(kept) \cup Marked

Traced(kept, rest) ==
    /\ roots \subseteq Live(kept, rest)
    /\ \A b \in Live(kept, rest) : body[b] \subseteq Live(kept, rest) \/ b \in Range(work)
    /\ stage = "mark" => \A b \in Range(rest) : body[b] \subseteq Range(rest)

HeapAt(kept, rest, free) ==
    Parted(kept, rest, free) /\ Threaded(kept, rest, free) /\ Flagged(rest, free) /\ Traced(kept, rest)

HeapInv == HeapTypes /\ \E kept, rest, free \in Seq(Blocks) : HeapAt(kept, rest, free)

-----------------------------------------------------------------------------
LEMMA SeqIs ==
  ASSUME NEW S, NEW s \in Seq(S)
  PROVE  /\ Len(s) \in Nat /\ DOMAIN s = 1..Len(s) /\ (s = <<>> <=> Len(s) = 0)
         /\ \A i \in 1..Len(s) : s[i] \in S
BY EmptySeq

(* Links, for any pointers f.                                              *)
Led(f, h, s, e) ==
    /\ h = IF s = <<>> THEN e ELSE s[1]
    /\ \A i \in 1..Len(s) : f[s[i]] = IF i = Len(s) THEN e ELSE s[i + 1]

\* Only the pointers of the blocks of the list count.
LEMMA LedSame ==
  ASSUME NEW S, NEW s \in Seq(S), NEW f, NEW g, NEW h, NEW e, Led(f, h, s, e),
         \A b \in Range(s) : g[b] = f[b]
  PROVE  Led(g, h, s, e)
BY DEF Led, Range

\* A block is put in front.
LEMMA LedCons ==
  ASSUME NEW S, NEW s \in Seq(S), NEW f, NEW h, NEW e, Led(f, h, s, e),
         NEW b \in S, f[b] = h
  PROVE  /\ <<b>> \o s \in Seq(S) /\ Led(f, b, <<b>> \o s, e) /\ Range(<<b>> \o s) = Range(s) \cup {b}
         /\ IsInjective(s) /\ b \notin Range(s) => IsInjective(<<b>> \o s)
<1> DEFINE t == <<b>> \o s
<1>1. /\ t \in Seq(S) /\ Len(t) = Len(s) + 1 /\ t # <<>> /\ t[1] = b
      /\ \A i \in 1..Len(s) : t[i + 1] = s[i]
      /\ DOMAIN t = 1..Len(s) + 1 /\ DOMAIN s = 1..Len(s) /\ Len(s) \in Nat
  OBVIOUS
<1>2. \A i \in 1..Len(t) : i = 1 \/ (i - 1 \in 1..Len(s) /\ t[i] = s[i - 1])
  <2> SUFFICES ASSUME NEW i \in 1..Len(t), i # 1 PROVE i - 1 \in 1..Len(s) /\ t[i] = s[i - 1]
    OBVIOUS
  <2>1. i - 1 \in 1..Len(s) /\ (i - 1) + 1 = i
    BY <1>1
  <2> QED BY <1>1, <2>1
<1> HIDE DEF t
<1>3. Led(f, b, t, e)
  <2> SUFFICES ASSUME NEW i \in 1..Len(t) PROVE f[t[i]] = IF i = Len(t) THEN e ELSE t[i + 1]
    BY <1>1 DEF Led
  <2>1. CASE i = 1
    <3>1. f[t[i]] = h
      BY <2>1, <1>1
    <3>2. CASE s = <<>>
      <4>1. Len(t) = 1 /\ h = e
        BY <3>2, <1>1 DEF Led
      <4> QED BY <3>1, <4>1, <2>1
    <3>3. CASE s # <<>>
      <4>1. Len(s) >= 1 /\ h = s[1]
        BY <3>3, SeqIs DEF Led
      <4>2. t[2] = s[1] /\ Len(t) # 1
        BY <4>1, <1>1
      <4> QED BY <3>1, <4>1, <4>2, <2>1
    <3> QED BY <3>2, <3>3
  <2>2. CASE i # 1
    <3>1. i - 1 \in 1..Len(s) /\ t[i] = s[i - 1]
      BY <2>2, <1>2
    <3>2. f[t[i]] = IF i - 1 = Len(s) THEN e ELSE s[(i - 1) + 1]
      BY <3>1 DEF Led
    <3>3. i - 1 # Len(s) => t[i + 1] = s[i]
      BY <3>1, <1>1
    <3> QED BY <3>2, <3>3, <1>1
  <2> QED BY <2>1, <2>2
<1>4. Range(t) = Range(s) \cup {b}
  <2>1. \A y \in Range(t) : y \in Range(s) \cup {b}
    <3> SUFFICES ASSUME NEW i \in 1..Len(t) PROVE t[i] \in Range(s) \cup {b}
      BY <1>1 DEF Range
    <3>1. i # 1 => i - 1 \in DOMAIN s /\ t[i] = s[i - 1]
      BY <1>1, <1>2
    <3> QED BY <3>1, <1>1 DEF Range
  <2>2. \A y \in Range(s) : y \in Range(t)
    <3> SUFFICES ASSUME NEW i \in 1..Len(s) PROVE s[i] \in Range(t)
      BY <1>1 DEF Range
    <3>1. i + 1 \in DOMAIN t /\ t[i + 1] = s[i]
      BY <1>1
    <3> QED BY <3>1 DEF Range
  <2>3. b \in Range(t)
    BY <1>1 DEF Range
  <2> QED BY <2>1, <2>2, <2>3
<1>5. ASSUME IsInjective(s), b \notin Range(s) PROVE IsInjective(t)
  <2> SUFFICES ASSUME NEW i \in 1..Len(t), NEW j \in 1..Len(t), t[i] = t[j] PROVE i = j
    BY <1>1 DEF IsInjective
  <2>1. \A k \in 1..Len(s) : s[k] # b
    BY <1>5, <1>1 DEF Range
  <2>2. i = 1 \/ (i - 1 \in 1..Len(s) /\ t[i] = s[i - 1])
    BY <1>2
  <2>3. j = 1 \/ (j - 1 \in 1..Len(s) /\ t[j] = s[j - 1])
    BY <1>2
  <2>4. i # 1 /\ j # 1 => i - 1 = j - 1
    BY <2>2, <2>3, <1>5, <1>1 DEF IsInjective
  <2> QED BY <2>1, <2>2, <2>3, <2>4, <1>1
<1> QED BY <1>1, <1>3, <1>4, <1>5 DEF t

\* A block is put at the end.
LEMMA LedSnoc ==
  ASSUME NEW S, NEW s \in Seq(S), NEW f, NEW h, NEW b \in S, Led(f, h, s, b)
  PROVE  /\ Append(s, b) \in Seq(S) /\ Led(f, h, Append(s, b), f[b])
         /\ Range(Append(s, b)) = Range(s) \cup {b}
         /\ IsInjective(s) /\ b \notin Range(s) => IsInjective(Append(s, b))
<1> DEFINE t == Append(s, b)
<1>1. /\ t \in Seq(S) /\ Len(t) = Len(s) + 1 /\ t # <<>> /\ t[Len(t)] = b
      /\ \A i \in 1..Len(s) : t[i] = s[i]
      /\ DOMAIN t = 1..Len(s) + 1 /\ DOMAIN s = 1..Len(s) /\ Len(s) \in Nat
  OBVIOUS
<1> HIDE DEF t
<1>2. h = t[1]
  <2>1. CASE s = <<>>
    <3>1. Len(s) = 0 /\ h = b
      BY <2>1, SeqIs DEF Led
    <3> QED BY <3>1, <1>1
  <2>2. CASE s # <<>>
    <3>1. 1 \in 1..Len(s) /\ h = s[1]
      BY <2>2, SeqIs DEF Led
    <3> QED BY <3>1, <1>1
  <2> QED BY <2>1, <2>2
<1>3. Led(f, h, t, f[b])
  <2> SUFFICES ASSUME NEW i \in 1..Len(t) PROVE f[t[i]] = IF i = Len(t) THEN f[b] ELSE t[i + 1]
    BY <1>1, <1>2 DEF Led
  <2>1. CASE i = Len(t)
    BY <2>1, <1>1
  <2>2. CASE i # Len(t)
    <3>1. i \in 1..Len(s)
      BY <2>2, <1>1
    <3>2. t[i] = s[i] /\ f[s[i]] = IF i = Len(s) THEN b ELSE s[i + 1]
      BY <3>1, <1>1 DEF Led
    <3>3. i # Len(s) => i + 1 \in 1..Len(s)
      <4>1. Len(s) \in Nat
        BY SeqIs
      <4> QED BY <3>1, <4>1
    <3>4. i # Len(s) => t[i + 1] = s[i + 1]
      BY <3>3, <1>1
    <3>5. i = Len(s) => t[i + 1] = b
      BY <1>1
    <3> QED BY <3>2, <3>4, <3>5, <2>2
  <2> QED BY <2>1, <2>2
<1>4. Range(t) = Range(s) \cup {b}
  BY <1>1 DEF Range
<1>5. ASSUME IsInjective(s), b \notin Range(s) PROVE IsInjective(t)
  <2>1. \A k \in 1..Len(s) : s[k] # b
    BY <1>5, <1>1 DEF Range
  <2> QED BY <1>5, <1>1, <2>1 DEF IsInjective
<1> QED BY <1>1, <1>3, <1>4, <1>5 DEF t

\* The last block of a list is made to point to d.
LEMMA LedTurn ==
  ASSUME NEW S, NEW s \in Seq(S), NEW f, NEW g, NEW h, NEW e, NEW d, Led(f, h, s, e),
         s # <<>>, IsInjective(s), g[s[Len(s)]] = d,
         \A b \in Range(s) : b # s[Len(s)] => g[b] = f[b]
  PROVE  Led(g, h, s, d)
<1>1. Len(s) \in Nat /\ DOMAIN s = 1..Len(s)
  OBVIOUS
<1> SUFFICES ASSUME NEW i \in 1..Len(s) PROVE g[s[i]] = IF i = Len(s) THEN d ELSE s[i + 1]
  BY DEF Led
<1>2. Len(s) \in DOMAIN s /\ i \in DOMAIN s
  BY <1>1
<1>3. s[i] \in Range(s)
  BY <1>2 DEF Range
<1>4. i # Len(s) => s[i] # s[Len(s)]
  BY <1>2 DEF IsInjective
<1>5. f[s[i]] = IF i = Len(s) THEN e ELSE s[i + 1]
  BY DEF Led
<1> QED BY <1>3, <1>4, <1>5

Without(s, i) == [j \in 1..Len(s) - 1 |-> IF j < i THEN s[j] ELSE s[j + 1]]

\* A block is unlinked: its predecessor, if there is one, gets its pointer.
LEMMA LedRemove ==
  ASSUME NEW S, NEW s \in Seq(S), NEW f, NEW g, NEW h, NEW e, Led(f, h, s, e),
         NEW i \in 1..Len(s), IsInjective(s),
         i > 1 => g[s[i - 1]] = f[s[i]],
         \A b \in Range(s) : b # s[i] /\ (i > 1 => b # s[i - 1]) => g[b] = f[b]
  PROVE  /\ Without(s, i) \in Seq(S) /\ Led(g, IF i = 1 THEN f[s[i]] ELSE h, Without(s, i), e)
         /\ Range(Without(s, i)) = Range(s) \ {s[i]} /\ IsInjective(Without(s, i))
<1> DEFINE n == Len(s)
           t == Without(s, i)
<1>1. n \in Nat /\ n >= 1 /\ DOMAIN s = 1..n /\ s # <<>> /\ \A j \in 1..n : s[j] \in S
  BY SeqIs
<1>0. i \in Nat /\ i >= 1 /\ i <= n
  BY <1>1
<1>2. t \in [1..n - 1 -> S]
  BY <1>1 DEF Without
<1>3. t \in Seq(S) /\ Len(t) = n - 1 /\ DOMAIN t = 1..n - 1
  <2>1. n - 1 \in Nat
    BY <1>1
  <2> HIDE DEF n, t
  <2> QED BY <1>2, <2>1
<1>4. \A j \in 1..n - 1 : t[j] = IF j < i THEN s[j] ELSE s[j + 1]
  BY DEF Without
<1>5. \A j, k \in 1..n : s[j] = s[k] => j = k
  BY <1>1 DEF IsInjective
<1>6. \A j \in 1..n : f[s[j]] = IF j = n THEN e ELSE s[j + 1]
  BY DEF Led
<1>a. h = s[1]
  BY <1>1 DEF Led
<1>b. t = <<>> <=> n = 1
  <2> HIDE DEF t, n
  <2> QED BY <1>1, <1>3, SeqIs
<1> HIDE DEF t, n
<1>7. \A j \in 1..n : j # i /\ j # i - 1 => g[s[j]] = f[s[j]]
  <2> SUFFICES ASSUME NEW j \in 1..n, j # i, j # i - 1 PROVE g[s[j]] = f[s[j]]
    OBVIOUS
  <2>1. s[j] \in Range(s) /\ s[j] # s[i] /\ (i > 1 => s[j] # s[i - 1])
    BY <1>1, <1>5 DEF Range
  <2> QED BY <2>1
<1>8. (IF i = 1 THEN f[s[i]] ELSE h) = IF t = <<>> THEN e ELSE t[1]
  <2>1. CASE n = 1
    <3>1. t = <<>> /\ i = 1
      BY <2>1, <1>b, <1>0
    <3> QED BY <3>1, <2>1, <1>6
  <2>2. CASE n # 1
    <3>1. t # <<>> /\ 1 \in 1..n - 1
      BY <2>2, <1>b, <1>1
    <3>2. i = 1 => t[1] = s[2] /\ f[s[1]] = s[2]
      BY <3>1, <1>4, <1>6, <2>2, <1>1
    <3>3. i # 1 => t[1] = s[1] /\ h = s[1]
      BY <3>1, <1>4, <1>0, <1>a
    <3> QED BY <3>1, <3>2, <3>3
  <2> QED BY <2>1, <2>2
<1>9. ASSUME NEW j \in 1..n - 1 PROVE g[t[j]] = IF j = n - 1 THEN e ELSE t[j + 1]
  <2>1. CASE j < i - 1
    <3>0. j \in 1..n /\ j # n /\ j < i /\ j # i - 1 /\ j # i /\ j # n - 1
          /\ j + 1 \in 1..n - 1 /\ j + 1 < i
      BY <2>1, <1>0, <1>1
    <3>1. t[j] = s[j] /\ t[j + 1] = s[j + 1]
      BY <3>0, <1>4
    <3>2. g[s[j]] = f[s[j]] /\ f[s[j]] = s[j + 1]
      BY <3>0, <1>6, <1>7
    <3> QED BY <3>0, <3>1, <3>2
  <2>2. CASE j = i - 1
    <3>0. j < i /\ i > 1 /\ i = j + 1 /\ (j = n - 1 <=> i = n)
          /\ (j # n - 1 => j + 1 \in 1..n - 1 /\ ~(j + 1 < i))
      BY <2>2, <1>0, <1>1
    <3>1. t[j] = s[i - 1] /\ g[s[i - 1]] = f[s[i]]
      BY <3>0, <2>2, <1>4
    <3>2. f[s[i]] = IF i = n THEN e ELSE s[i + 1]
      BY <1>6, <1>0
    <3>3. j # n - 1 => t[j + 1] = s[(j + 1) + 1]
      BY <3>0, <1>4
    <3> QED BY <3>0, <3>1, <3>2, <3>3
  <2>3. CASE j >= i
    <3>0. ~(j < i) /\ j + 1 \in 1..n /\ j + 1 # i /\ j + 1 # i - 1 /\ (j = n - 1 <=> j + 1 = n)
          /\ (j # n - 1 => j + 1 \in 1..n - 1 /\ ~(j + 1 < i))
      BY <2>3, <1>0, <1>1
    <3>1. t[j] = s[j + 1]
      BY <3>0, <1>4
    <3>2. g[s[j + 1]] = IF j + 1 = n THEN e ELSE s[(j + 1) + 1]
      BY <3>0, <1>6, <1>7
    <3>3. j # n - 1 => t[j + 1] = s[(j + 1) + 1]
      BY <3>0, <1>4
    <3> QED BY <3>0, <3>1, <3>2, <3>3
  <2>4. j < i - 1 \/ j = i - 1 \/ j >= i
    BY <1>0, <1>1
  <2> QED BY <2>1, <2>2, <2>3, <2>4
<1>10. Led(g, IF i = 1 THEN f[s[i]] ELSE h, t, e)
  BY <1>3, <1>8, <1>9 DEF Led
<1>11. \A j \in 1..n - 1 : \E k \in 1..n : k # i /\ t[j] = s[k] /\ k = IF j < i THEN j ELSE j + 1
  BY <1>1, <1>4
<1>12. Range(t) = Range(s) \ {s[i]}
  <2>1. ASSUME NEW j \in 1..n - 1 PROVE t[j] \in Range(s) \ {s[i]}
    <3>1. PICK k \in 1..n : k # i /\ t[j] = s[k]
      BY <1>11
    <3>2. s[k] \in Range(s)
      BY <1>1 DEF Range
    <3>3. s[k] # s[i]
      BY <3>1, <1>5, <1>0, <1>1
    <3> QED BY <3>1, <3>2, <3>3
  <2>2. ASSUME NEW k \in 1..n, s[k] # s[i] PROVE s[k] \in Range(t)
    <3>1. k < i => k \in 1..n - 1 /\ t[k] = s[k]
      BY <1>1, <1>4
    <3>2. k > i => k - 1 \in 1..n - 1 /\ t[k - 1] = s[k]
      BY <1>1, <1>4
    <3>3. k # i
      BY <2>2
    <3> QED BY <3>1, <3>2, <3>3, <1>3, <1>1 DEF Range
  <2>3. Range(t) \subseteq Range(s) \ {s[i]}
    BY <2>1, <1>3 DEF Range
  <2>4. Range(s) \ {s[i]} \subseteq Range(t)
    <3> SUFFICES ASSUME NEW y \in Range(s), y # s[i] PROVE y \in Range(t)
      OBVIOUS
    <3>1. PICK k \in 1..n : y = s[k]
      BY <1>1 DEF Range
    <3> QED BY <3>1, <2>2
  <2> QED BY <2>3, <2>4
<1>13. IsInjective(t)
  <2> SUFFICES ASSUME NEW j \in 1..n - 1, NEW k \in 1..n - 1, t[j] = t[k] PROVE j = k
    BY <1>3 DEF IsInjective
  <2>1. (IF j < i THEN j ELSE j + 1) = (IF k < i THEN k ELSE k + 1)
    BY <1>11, <1>5
  <2> QED BY <2>1, <1>1
<1> QED BY <1>3, <1>10, <1>12, <1>13 DEF t

\* The pointers lead through one list only.
LEMMA LedUnique ==
  ASSUME NEW S, NEW s \in Seq(S), NEW t \in Seq(S), NEW f, NEW h, NEW e, e \notin S,
         Led(f, h, s, e), Led(f, h, t, e)
  PROVE  s = t
<1> DEFINE Apart == {i \in Nat \ {0} : i <= Len(s) /\ (i > Len(t) \/ s[i] # t[i])}
           Apart2 == {i \in Nat \ {0} : i <= Len(t) /\ (i > Len(s) \/ s[i] # t[i])}
<1>1. Len(s) \in Nat /\ Len(t) \in Nat /\ DOMAIN s = 1..Len(s) /\ DOMAIN t = 1..Len(t)
  OBVIOUS
<1>2. ASSUME NEW m \in Nat \ {0}, \A k \in 1..m - 1 : k <= Len(s) /\ k <= Len(t) /\ s[k] = t[k]
      PROVE  /\ m <= Len(s) => m <= Len(t) /\ s[m] = t[m]
             /\ m <= Len(t) => m <= Len(s) /\ s[m] = t[m]
  <2>1. CASE m = 1
    <3>1. m <= Len(s) => h = s[1] /\ s[1] \in S
      BY <2>1, SeqIs DEF Led
    <3>2. m <= Len(t) => h = t[1] /\ t[1] \in S
      BY <2>1, SeqIs DEF Led
    <3>3. ~(m <= Len(s)) => h = e
      BY <2>1, SeqIs DEF Led
    <3>4. ~(m <= Len(t)) => h = e
      BY <2>1, SeqIs DEF Led
    <3> QED BY <3>1, <3>2, <3>3, <3>4, <2>1
  <2>2. CASE m # 1
    <3> DEFINE k == m - 1
    <3>1. k \in 1..m - 1 /\ k + 1 = m /\ k <= Len(s) /\ k <= Len(t) /\ s[k] = t[k]
          /\ k \in 1..Len(s) /\ k \in 1..Len(t)
      BY <2>2, <1>2, <1>1
    <3>2. f[s[k]] = IF k = Len(s) THEN e ELSE s[k + 1]
      BY <3>1 DEF Led
    <3>3. f[t[k]] = IF k = Len(t) THEN e ELSE t[k + 1]
      BY <3>1 DEF Led
    <3>4. m <= Len(s) => k # Len(s) /\ s[m] \in S
      BY <3>1, <1>1
    <3>5. m <= Len(t) => k # Len(t) /\ t[m] \in S
      BY <3>1, <1>1
    <3>6. (k # Len(s) => m <= Len(s)) /\ (k # Len(t) => m <= Len(t))
      BY <3>1, <1>1
    <3> HIDE DEF k
    <3> QED BY <3>1, <3>2, <3>3, <3>4, <3>5, <3>6
  <2> QED BY <2>1, <2>2
<1>3. Apart \cup Apart2 = {}
  <2> SUFFICES ASSUME Apart \cup Apart2 # {} PROVE FALSE
    OBVIOUS
  <2>1. PICK m \in Apart \cup Apart2 : \A k \in Apart \cup Apart2 : m <= k
    <3>1. Apart \cup Apart2 \subseteq Nat
      OBVIOUS
    <3> HIDE DEF Apart, Apart2
    <3> QED BY <3>1, LeastNatural
  <2>2. ASSUME NEW k \in 1..m - 1 PROVE k <= Len(s) /\ k <= Len(t) /\ s[k] = t[k]
    <3>1. k \notin Apart /\ k \notin Apart2 /\ k \in Nat \ {0} /\ k < m /\ m \in Nat
      BY <2>1
    <3> QED BY <3>1, <2>1, <1>1
  <2>3. m \in Nat \ {0}
    OBVIOUS
  <2> QED BY <1>2, <2>2, <2>3, <1>1
<1>4. Len(s) = Len(t)
  <2>1. Len(s) > 0 => Len(s) <= Len(t)
    <3>1. Len(s) \notin Apart
      BY <1>3
    <3> QED BY <3>1, <1>1
  <2>2. Len(t) > 0 => Len(t) <= Len(s)
    <3>1. Len(t) \notin Apart2
      BY <1>3
    <3> QED BY <3>1, <1>1
  <2>3. Len(s) \in Nat /\ Len(t) \in Nat
    BY <1>1
  <2> HIDE DEF Apart, Apart2
  <2> QED BY <2>1, <2>2, <2>3
<1>5. \A i \in 1..Len(s) : s[i] = t[i]
  BY <1>3, <1>1
<1> HIDE DEF Apart, Apart2
<1> QED BY <1>1, <1>4, <1>5, SeqEqual

LEMMA InjectiveIsShort ==
  ASSUME NEW n \in Nat, NEW s \in Seq(1..n), IsInjective(s)
  PROVE  Len(s) <= n
<1>1. Len(s) \in Nat /\ s \in [1..Len(s) -> 1..n]
  BY SeqIs
<1>2. s \in Injection(1..Len(s), 1..n)
  BY <1>1 DEF Injection, IsInjective
<1>3. IsFiniteSet(1..n) /\ Cardinality(1..n) = n
  BY FS_Interval
<1>4. Cardinality(1..Len(s)) <= n
  BY <1>2, <1>3, FS_Injection
<1>5. Cardinality(1..Len(s)) = Len(s)
  <2> DEFINE m == Len(s)
  <2>1. m \in Nat
    BY <1>1
  <2> HIDE DEF m
  <2>2. Cardinality(1..m) = m
    BY <2>1, FS_Interval
  <2> QED BY <2>2 DEF m
<1> QED BY <1>4, <1>5

LEMMA ListsJoined ==
  ASSUME NEW S, NEW s \in Seq(S), NEW t \in Seq(S)
  PROVE  /\ s \o t \in Seq(S) /\ Range(s \o t) = Range(s) \cup Range(t)
         /\ IsInjective(s) /\ IsInjective(t) /\ Range(s) \cap Range(t) = {} => IsInjective(s \o t)
<1> DEFINE u == s \o t
           m == Len(s)
           n == Len(t)
<1>1. /\ u \in Seq(S) /\ m \in Nat /\ n \in Nat /\ DOMAIN u = 1..m + n
      /\ DOMAIN s = 1..m /\ DOMAIN t = 1..n
      /\ \A i \in 1..m : u[i] = s[i]
  OBVIOUS
<1>2. \A i \in 1..n : u[m + i] = t[i]
  OBVIOUS
<1> HIDE DEF u, m, n
<1>3. \A i \in 1..m + n : i \in 1..m \/ \E j \in 1..n : i = m + j
  <2> SUFFICES ASSUME NEW i \in 1..m + n, i \notin 1..m PROVE i - m \in 1..n /\ i = m + (i - m)
    OBVIOUS
  <2> QED BY <1>1
<1>a. m \in Nat /\ n \in Nat /\ DOMAIN s = 1..m /\ DOMAIN t = 1..n
  BY <1>1
<1>4. \A i \in 1..m : i \in 1..m + n /\ s[i] \in Range(s)
  <2>1. \A i \in 1..m : i \in 1..m + n
    BY <1>a
  <2>2. \A i \in DOMAIN s : s[i] \in Range(s)
    BY DEF Range
  <2> QED BY <2>1, <2>2, <1>a
<1>5. \A j \in 1..n : m + j \in 1..m + n /\ t[j] \in Range(t)
  <2>1. \A j \in 1..n : m + j \in 1..m + n
    BY <1>a
  <2>2. \A j \in DOMAIN t : t[j] \in Range(t)
    BY DEF Range
  <2> QED BY <2>1, <2>2, <1>a
<1>6. Range(u) = Range(s) \cup Range(t)
  <2>1. ASSUME NEW i \in 1..m + n PROVE u[i] \in Range(s) \cup Range(t)
    BY <1>1, <1>2, <1>3, <1>4, <1>5
  <2>2. ASSUME NEW i \in 1..m PROVE s[i] \in Range(u)
    BY <1>1, <1>4 DEF Range
  <2>3. ASSUME NEW j \in 1..n PROVE t[j] \in Range(u)
    BY <1>1, <1>2, <1>5 DEF Range
  <2>4. Range(u) \subseteq Range(s) \cup Range(t)
    BY <1>1, <2>1 DEF Range
  <2>5. Range(s) \subseteq Range(u) /\ Range(t) \subseteq Range(u)
    BY <1>1, <2>2, <2>3 DEF Range
  <2> QED BY <2>4, <2>5
<1>7. ASSUME IsInjective(s), IsInjective(t), Range(s) \cap Range(t) = {} PROVE IsInjective(u)
  <2> SUFFICES ASSUME NEW i \in 1..m + n, NEW j \in 1..m + n, u[i] = u[j] PROVE i = j
    BY <1>1 DEF IsInjective
  <2>1. CASE i \in 1..m /\ j \in 1..m
    BY <2>1, <1>1, <1>7 DEF IsInjective
  <2>2. CASE i \notin 1..m /\ j \notin 1..m
    <3>1. PICK k \in 1..n : i = m + k
      BY <2>2, <1>3
    <3>2. PICK l \in 1..n : j = m + l
      BY <2>2, <1>3
    <3>3. t[k] = t[l]
      BY <3>1, <3>2, <1>2
    <3>4. k = l
      BY <3>3, <1>1, <1>7 DEF IsInjective
    <3> QED BY <3>1, <3>2, <3>4
  <2>3. CASE i \in 1..m /\ j \notin 1..m
    <3>1. PICK l \in 1..n : j = m + l
      BY <2>3, <1>3
    <3> QED BY <3>1, <2>3, <1>1, <1>2, <1>4, <1>5, <1>7
  <2>4. CASE i \notin 1..m /\ j \in 1..m
    <3>1. PICK k \in 1..n : i = m + k
      BY <2>4, <1>3
    <3> QED BY <3>1, <2>4, <1>1, <1>2, <1>4, <1>5, <1>7
  <2> QED BY <2>1, <2>2, <2>3, <2>4
<1> QED BY <1>1, <1>6, <1>7 DEF u

LEMMA SetInSeq ==
  ASSUME NEW S, IsFiniteSet(S)
  PROVE  SetToSeq(S) \in Seq(S) /\ Range(SetToSeq(S)) = S
<1> DEFINE n == Cardinality(S)
<1>1. n \in Nat /\ ExistsBijection(1..n, S)
  BY FS_CardinalityType
<1>2. PICK f \in Bijection(1..n, S) : TRUE
  BY <1>1 DEF ExistsBijection
<1>3. f \in [1..n -> S] /\ IsInjective(f)
  BY <1>2 DEF Bijection, Injection, IsInjective
<1>4. SetToSeq(S) \in [1..n -> S] /\ IsInjective(SetToSeq(S))
  BY <1>3 DEF SetToSeq
<1> DEFINE s == SetToSeq(S)
<1>5. s \in [1..n -> S] /\ IsInjective(s)
  BY <1>4
<1> HIDE DEF s
<1>6. s \in Injection(1..n, S)
  BY <1>5 DEF Injection, IsInjective
<1>7. Cardinality(1..n) = n
  BY <1>1, FS_Interval
<1>8. s \in Surjection(1..n, S)
  BY <1>6, <1>7, FS_Injection
<1>9. Range(s) = S
  BY <1>5, <1>8 DEF Surjection, Range
<1>10. s \in Seq(S)
  <2> HIDE DEF n
  <2> QED BY <1>1, <1>5
<1> QED BY <1>9, <1>10 DEF s

LEMMA Appended ==
  ASSUME NEW T, NEW f \in Seq(T), NEW x \in T, NEW g, g = Append(f, x)
  PROVE  /\ g \in Seq(T) /\ Len(g) = Len(f) + 1 /\ g[Len(f) + 1] = x
         /\ \A i \in 1..Len(f) : g[i] = f[i]
OBVIOUS

LEMMA SeqIsFunction ==
  ASSUME NEW T, NEW f \in Seq(T), NEW n, n = Len(f)
  PROVE  f \in [1..n -> T]
OBVIOUS

LEMMA FunctionIsSeq ==
  ASSUME NEW T, NEW n \in Nat, NEW f \in [1..n -> T]
  PROVE  f \in Seq(T) /\ Len(f) = n
<1>1. f \in Seq(T)
  BY SeqDef, Zenon
<1>2. DOMAIN f = 1..n /\ DOMAIN f = 1..Len(f) /\ Len(f) \in Nat
  BY <1>1, LenProperties
<1> QED BY <1>1, <1>2

-----------------------------------------------------------------------------
LEMMA ChainIs ==
  ASSUME HeapTypes, NEW h, NEW s \in Seq(Blocks), IsInjective(s), Links(h, s, 0)
  PROVE  s \in Lists /\ Chain(h) = s
<1>1. Len(size) \in Nat
  BY DEF HeapTypes
<1>2. Len(s) \in Nat /\ Len(s) <= Len(size) /\ s \in [1..Len(s) -> Blocks]
  BY <1>1, InjectiveIsShort, SeqIs DEF Blocks
<1>3. s \in Lists
  <2>1. Len(s) \in 0..Len(size)
    BY <1>1, <1>2
  <2> QED BY <2>1, <1>2 DEF Lists
<1>4. Chain(h) \in Lists /\ Links(h, Chain(h), 0)
  BY <1>3 DEF Chain
<1>5. \A t \in Lists : t \in Seq(Blocks)
  BY <1>1 DEF Lists
<1>6. \A t \in Seq(Blocks) : Links(h, t, 0) => Led(next, h, t, 0)
  BY SeqIs DEF Links, Led
<1>7. 0 \notin Blocks
  BY DEF Blocks
<1>8. Chain(h) \in Seq(Blocks) /\ Led(next, h, Chain(h), 0) /\ Led(next, h, s, 0)
  BY <1>4, <1>5, <1>6
<1>9. Chain(h) = s
  BY <1>7, <1>8, LedUnique
<1> QED BY <1>3, <1>9

\* The invariant has in it what the property says.
LEMMA HeapInvIsSound == HeapInv => HeapIsSound
<1> SUFFICES ASSUME HeapInv PROVE HeapIsSound
  OBVIOUS
<1>1. HeapTypes
  BY DEF HeapInv
<1>2. PICK kept \in Seq(Blocks), rest \in Seq(Blocks), free \in Seq(Blocks) : HeapAt(kept, rest, free)
  BY DEF HeapInv
<1>3. Parted(kept, rest, free) /\ Threaded(kept, rest, free) /\ Flagged(rest, free) /\ Traced(kept, rest)
  BY <1>2 DEF HeapAt
<1>4. HeapTypeOK
  BY <1>1 DEF HeapTypes, HeapTypeOK
<1>5. ListsPartition
  <2> SUFFICES ASSUME stage = "run" PROVE ListsPartition!2
    BY DEF ListsPartition
  <2>1. kept = <<>> /\ Links(head, rest, 0) /\ Links(freehead, free, 0) /\ Range(kept) = {}
    BY <1>3 DEF Threaded, Range
  <2>2. rest \in Lists /\ free \in Lists
    BY <2>1, <1>1, <1>3, ChainIs DEF Parted
  <2>3. IsInjective(rest \o free) /\ Range(rest \o free) = Blocks
    BY <2>1, <1>3, ListsJoined DEF Parted
  <2>4. ASSUME NEW b \in Blocks PROVE flags[b] = IF b \in Range(free) THEN {"free"} ELSE {}
    <3>1. flags[b] \subseteq {"marked", "free"} /\ "marked" \notin flags[b]
      BY <1>1, <1>3 DEF HeapTypes, Flagged, Marked
    <3>2. "free" \in flags[b] <=> b \in Range(free)
      BY <1>3 DEF Flagged
    <3> QED BY <3>1, <3>2
  <2> QED BY <2>1, <2>2, <2>3, <2>4
<1>6. ReachableIsKept
  <2> DEFINE S == IF stage = "mark" THEN Range(rest) ELSE Live(kept, rest)
  <2>1. Marked \subseteq Range(rest) /\ (stage # "mark" => Range(work) = {})
    BY <1>3 DEF Flagged, Range
  <2>2. Closed(S)
    <3>1. CASE stage = "mark"
      <4>1. kept = <<>> /\ Range(kept) = {}
        BY <1>3, <3>1 DEF Threaded, Range
      <4> QED BY <4>1, <3>1, <2>1, <1>3 DEF Traced, Live, Closed
    <3>2. CASE stage # "mark"
      BY <3>2, <2>1, <1>3 DEF Traced, Closed
    <3> QED BY <3>1, <3>2
  <2>3. S \subseteq Blocks /\ S \cap Range(free) = {}
    BY <2>1, <1>3 DEF Live, Parted
  <2> HIDE DEF S
  <2> QED BY <2>2, <2>3, <1>3 DEF ReachableIsKept, Reached, Flagged
<1> QED BY <1>4, <1>5, <1>6 DEF HeapIsSound

\* What holds of the parts before a step, in the words of the lemmas.
LEMMA PartsKnown ==
  ASSUME HeapTypes, NEW kept \in Seq(Blocks), NEW rest \in Seq(Blocks), NEW free \in Seq(Blocks),
         HeapAt(kept, rest, free)
  PROVE  /\ Led(next, freehead, free, 0)
         /\ stage # "sweep" => kept = <<>> /\ Range(kept) = {} /\ Led(next, head, rest, 0)
         /\ stage = "sweep" => Led(next, newhead, kept, current) /\ Led(next, current, rest, 0)
         /\ stage # "mark" => work = <<>> /\ Range(work) = {}
<1>1. Parted(kept, rest, free) /\ Threaded(kept, rest, free) /\ Flagged(rest, free)
  BY DEF HeapAt
<1>2. ASSUME NEW t \in Seq(Blocks), NEW h, NEW e, Links(h, t, e) PROVE Led(next, h, t, e)
  BY <1>2, SeqIs DEF Links, Led
<1> QED BY <1>1, <1>2 DEF Threaded, Flagged, Range

\* Between collections everything reachable is in the list of objects.
LEMMA FreeChain ==
  ASSUME HeapTypes, NEW kept \in Seq(Blocks), NEW rest \in Seq(Blocks), NEW free \in Seq(Blocks),
         HeapAt(kept, rest, free)
  PROVE  /\ Chain(freehead) = free
         /\ stage # "sweep" => Chain(head) = rest /\ Objects = Range(rest)
<1>1. Parted(kept, rest, free) /\ Threaded(kept, rest, free) /\ Flagged(rest, free)
  BY DEF HeapAt
<1>2. Chain(freehead) = free
  BY <1>1, ChainIs DEF Parted, Threaded
<1>3. ASSUME stage # "sweep" PROVE Chain(head) = rest
  BY <1>1, <1>3, ChainIs DEF Parted, Threaded
<1>4. ASSUME stage # "sweep" PROVE Objects = Range(rest)
  BY <1>1, <1>3, <1>4 DEF Parted, Flagged, Objects
<1> QED BY <1>2, <1>3, <1>4

LEMMA NoneIs == Range(<<>>) = {} /\ IsInjective(<<>>) /\ \A S : <<>> \in Seq(S)
BY DEF Range, IsInjective

LEMMA AllocKeeps ==
  ASSUME HeapAssumption, HeapTypes, NEW kept \in Seq(Blocks), NEW rest \in Seq(Blocks), NEW free \in Seq(Blocks),
         HeapAt(kept, rest, free), NEW n \in Sizes, alloc_from_free_list(n)
  PROVE  HeapInv'
<1>1. Parted(kept, rest, free) /\ Flagged(rest, free) /\ Traced(kept, rest)
  BY DEF HeapAt
<1>2. stage = "run" /\ stage' = "run" /\ kept = <<>> /\ Range(kept) = {} /\ work = <<>> /\ Range(work) = {}
  BY PartsKnown DEF alloc_from_free_list, Operate
<1>3. Led(next, freehead, free, 0) /\ Led(next, head, rest, 0) /\ Chain(freehead) = free
  BY <1>2, PartsKnown, FreeChain
<1>4. DOMAIN free = 1..Len(free) /\ Len(free) \in Nat /\ \A j \in 1..Len(free) : free[j] \in Blocks
  BY SeqIs
<1>5. PICK i \in 1..Len(free) :
        /\ next' = [p \in Blocks |->
                   IF p = free[i] THEN head
                   ELSE IF i > 1 /\ p = free[i - 1] THEN next[free[i]] ELSE next[p]]
        /\ head' = free[i]
        /\ freehead' = IF i = 1 THEN next[free[i]] ELSE freehead
        /\ flags' = [flags EXCEPT ![free[i]] = {}] /\ body' = [body EXCEPT ![free[i]] = {}]
        /\ roots' = roots \cup {free[i]}
  BY <1>3, <1>4 DEF alloc_from_free_list, Fits
<1> DEFINE b == free[i]
           r == <<b>> \o rest
           f == Without(free, i)
<1>6. b \in Blocks /\ b \in Range(free) /\ b \notin Range(rest)
  BY <1>1, <1>4 DEF Range, Parted
<1>7. UNCHANGED <<size, total, stage, locals>> /\ Blocks' = Blocks
  BY DEF alloc_from_free_list, Blocks
<1>8. \A p \in Range(rest) : next'[p] = next[p]
  <2> SUFFICES ASSUME NEW p \in Range(rest) PROVE next'[p] = next[p]
    OBVIOUS
  <2>1. p \in Blocks /\ p \notin Range(free)
    BY <1>1 DEF Parted
  <2>2. \A j \in 1..Len(free) : p # free[j]
    BY <2>1, <1>4 DEF Range
  <2>3. i > 1 => i - 1 \in 1..Len(free)
    BY <1>4
  <2> QED BY <1>5, <2>1, <2>2, <2>3
<1>9. Led(next', head, rest, 0)
  BY <1>3, <1>8, LedSame
<1>10. next'[b] = head
  BY <1>5, <1>6
<1>11. /\ r \in Seq(Blocks) /\ Led(next', b, r, 0) /\ Range(r) = Range(rest) \cup {b}
       /\ IsInjective(rest) /\ b \notin Range(rest) => IsInjective(r)
  <2> HIDE DEF b
  <2> QED BY <1>6, <1>9, <1>10, LedCons
<1>12. i > 1 => next'[free[i - 1]] = next[b]
  <2> SUFFICES ASSUME i > 1 PROVE next'[free[i - 1]] = next[b]
    OBVIOUS
  <2>1. i - 1 \in DOMAIN free /\ i \in DOMAIN free /\ i - 1 # i
    BY <1>4
  <2>2. free[i - 1] # b /\ free[i - 1] \in Blocks
    BY <2>1, <1>1, <1>4 DEF Parted, IsInjective
  <2> QED BY <2>2, <1>5
<1>13. \A p \in Range(free) : p # b /\ (i > 1 => p # free[i - 1]) => next'[p] = next[p]
  BY <1>1, <1>5 DEF Parted
<1>14. /\ f \in Seq(Blocks) /\ Led(next', freehead', f, 0)
       /\ Range(f) = Range(free) \ {b} /\ IsInjective(f)
  <2>1. /\ f \in Seq(Blocks) /\ Led(next', IF i = 1 THEN next[b] ELSE freehead, f, 0)
        /\ Range(f) = Range(free) \ {b} /\ IsInjective(f)
    <3>1. IsInjective(free)
      BY <1>1 DEF Parted
    <3> QED BY <3>1, <1>3, <1>12, <1>13, LedRemove
  <2> QED BY <2>1, <1>5
<1> HIDE DEF b, r, f
<1>a. IsInjective(r) /\ IsInjective(f) /\ Range(r) \cap Range(f) = {}
      /\ Blocks = Range(r) \cup Range(f)
  BY <1>1, <1>2, <1>6, <1>11, <1>14 DEF Parted
<1>15. HeapTypes'
  <2>1. next[b] \in Blocks \cup {0} /\ freehead \in Blocks \cup {0} /\ head \in Blocks \cup {0}
    BY <1>6 DEF HeapTypes
  <2>2. next' \in [Blocks -> Blocks \cup {0}]
    BY <2>1, <1>5 DEF HeapTypes, b
  <2>3. body' \in [Blocks -> SUBSET Blocks] /\ flags' \in [Blocks -> SUBSET {"marked", "free"}]
    BY <1>5, <1>6 DEF HeapTypes, b
  <2>4. steps' \in Nat
    BY DEF HeapTypes, alloc_from_free_list, Operate
  <2> QED BY <2>1, <2>2, <2>3, <2>4, <1>5, <1>6, <1>7 DEF HeapTypes, locals, b
<1>16. Parted(<<>>, r, f)'
  BY <1>7, <1>a, NoneIs DEF Parted
<1>17. Threaded(<<>>, r, f)'
  <2>1. Links(freehead, f, 0)'
    BY <1>14, SeqIs DEF Led, Links
  <2>2. Links(head, r, 0)'
    BY <1>5, <1>11, SeqIs DEF Led, Links, b
  <2> QED BY <2>1, <2>2, <1>2 DEF Threaded
<1>18. Marked' = {}
  BY <1>1, <1>2, <1>5, <1>7 DEF Flagged, Marked, HeapTypes
<1>19. Flagged(r, f)'
  <2>1. ASSUME NEW p \in Blocks PROVE "free" \in flags'[p] <=> p \in Range(f)
    BY <1>1, <1>5, <1>6, <1>14 DEF Flagged, HeapTypes, b
  <2> QED BY <2>1, <1>2, <1>7, <1>18 DEF Flagged, locals
<1>20. Traced(<<>>, r)'
  <2>1. Live(<<>>, r)' = Range(r) /\ Live(kept, rest) = Range(rest)
    BY <1>2 DEF Live
  <2>2. \A p \in Range(r) : body'[p] \subseteq Range(r)
    BY <2>1, <1>1, <1>2, <1>5, <1>6, <1>11 DEF Traced, HeapTypes, Parted, b
  <2> QED BY <2>1, <2>2, <1>1, <1>2, <1>5, <1>11 DEF Traced, b
<1>21. r \in Seq(Blocks') /\ f \in Seq(Blocks')
  BY <1>7, <1>11, <1>14
<1>22. HeapAt(<<>>, r, f)'
  BY <1>16, <1>17, <1>19, <1>20 DEF HeapAt
<1> QED BY <1>15, <1>21, <1>22, NoneIs DEF HeapInv

LEMMA BumpKeeps ==
  ASSUME HeapAssumption, HeapTypes, NEW kept \in Seq(Blocks), NEW rest \in Seq(Blocks), NEW free \in Seq(Blocks),
         HeapAt(kept, rest, free), NEW n \in Sizes, bump_alloc_with_header(n)
  PROVE  HeapInv'
<1>0. PICK b : b = Len(size) + 1
  OBVIOUS
<1> DEFINE r == <<b>> \o rest
<1>1. Parted(kept, rest, free) /\ Flagged(rest, free) /\ Traced(kept, rest)
  BY DEF HeapAt
<1>2. stage = "run" /\ stage' = "run" /\ kept = <<>> /\ Range(kept) = {} /\ work = <<>> /\ Range(work) = {}
  BY PartsKnown DEF bump_alloc_with_header, Operate
<1>3. Led(next, freehead, free, 0) /\ Led(next, head, rest, 0)
  BY <1>2, PartsKnown
<1>4. /\ Len(size) \in Nat /\ size' \in Seq(Sizes) /\ Len(size') = Len(size) + 1
      /\ Blocks' = Blocks \cup {b} /\ b \notin Blocks
  BY <1>0 DEF bump_alloc_with_header, HeapTypes, Blocks
<1>5. /\ head' = b /\ roots' = roots \cup {b} /\ next' = Append(next, head) /\ body' = Append(body, {})
      /\ flags' = Append(flags, {}) /\ total' = total + n /\ Len(size) < MaxBlocks
      /\ UNCHANGED <<freehead, stage, locals>> /\ steps' = steps + 1
  BY <1>0 DEF bump_alloc_with_header, Operate
<1>6. /\ next' \in [1..b -> Blocks \cup {0}] /\ next'[b] = head
      /\ \A p \in Blocks : next'[p] = next[p]
  <2>1. next \in Seq(Blocks \cup {0}) /\ Len(next) = Len(size) /\ head \in Blocks \cup {0}
    <3>1. next \in [1..Len(size) -> Blocks \cup {0}] /\ head \in Blocks \cup {0}
      BY DEF HeapTypes, Blocks
    <3>2. Len(size) \in Nat
      BY <1>4
    <3> QED BY <3>1, <3>2, FunctionIsSeq
  <2>2. /\ next' \in Seq(Blocks \cup {0}) /\ Len(next') = Len(next) + 1 /\ next'[Len(next) + 1] = head
        /\ \A p \in 1..Len(next) : next'[p] = next[p]
    BY <2>1, <1>5, Appended
  <2>3. next' \in [1..b -> Blocks \cup {0}]
    BY <2>1, <2>2, <1>0, SeqIsFunction
  <2> QED BY <2>1, <2>2, <2>3, <1>0 DEF Blocks
<1>7. /\ body' \in [1..b -> SUBSET Blocks] /\ body'[b] = {}
      /\ \A p \in Blocks : body'[p] = body[p]
  <2>1. body \in Seq(SUBSET Blocks) /\ Len(body) = Len(size) /\ {} \in SUBSET Blocks
    <3>1. body \in [1..Len(size) -> SUBSET Blocks] /\ {} \in SUBSET Blocks
      BY DEF HeapTypes, Blocks
    <3>2. Len(size) \in Nat
      BY <1>4
    <3> QED BY <3>1, <3>2, FunctionIsSeq
  <2>2. /\ body' \in Seq(SUBSET Blocks) /\ Len(body') = Len(body) + 1 /\ body'[Len(body) + 1] = {}
        /\ \A p \in 1..Len(body) : body'[p] = body[p]
    BY <2>1, <1>5, Appended
  <2>3. body' \in [1..b -> SUBSET Blocks]
    BY <2>1, <2>2, <1>0, SeqIsFunction
  <2> QED BY <2>1, <2>2, <2>3, <1>0 DEF Blocks
<1>8. /\ flags' \in [1..b -> SUBSET {"marked", "free"}] /\ flags'[b] = {}
      /\ \A p \in Blocks : flags'[p] = flags[p]
  <2>1. flags \in Seq(SUBSET {"marked", "free"}) /\ Len(flags) = Len(size) /\ {} \in SUBSET {"marked", "free"}
    <3>1. flags \in [1..Len(size) -> SUBSET {"marked", "free"}] /\ {} \in SUBSET {"marked", "free"}
      BY DEF HeapTypes, Blocks
    <3>2. Len(size) \in Nat
      BY <1>4
    <3> QED BY <3>1, <3>2, FunctionIsSeq
  <2>2. /\ flags' \in Seq(SUBSET {"marked", "free"}) /\ Len(flags') = Len(flags) + 1 /\ flags'[Len(flags) + 1] = {}
        /\ \A p \in 1..Len(flags) : flags'[p] = flags[p]
    BY <2>1, <1>5, Appended
  <2>3. flags' \in [1..b -> SUBSET {"marked", "free"}]
    BY <2>1, <2>2, <1>0, SeqIsFunction
  <2> QED BY <2>1, <2>2, <2>3, <1>0 DEF Blocks
<1>9. Blocks' = 1..b
  BY <1>0, <1>4 DEF Blocks
<1>10. rest \in Seq(Blocks') /\ free \in Seq(Blocks')
  BY <1>4, SeqIs
<1>11. Led(next', freehead, free, 0) /\ Led(next', head, rest, 0)
  BY <1>1, <1>3, <1>6, LedSame DEF Parted
<1>12. b \notin Range(rest) /\ b \notin Range(free)
  BY <1>1, <1>4 DEF Parted
<1>13. /\ r \in Seq(Blocks') /\ Led(next', b, r, 0) /\ Range(r) = Range(rest) \cup {b}
       /\ IsInjective(rest) /\ b \notin Range(rest) => IsInjective(r)
  <2>1. b \in Blocks'
    BY <1>4
  <2> QED BY <2>1, <1>6, <1>10, <1>11, LedCons
<1> HIDE DEF r
<1>14. HeapTypes'
  <2>1. next' \in [Blocks' -> Blocks' \cup {0}]
    BY <1>4, <1>6, <1>9
  <2>2. body' \in [Blocks' -> SUBSET Blocks'] /\ flags' \in [Blocks' -> SUBSET {"marked", "free"}]
    BY <1>4, <1>7, <1>8, <1>9
  <2>3. n \in Nat /\ total' \in Nat /\ steps' \in Nat /\ Len(size') <= MaxBlocks
    <3>1. n \in Nat /\ total \in Nat /\ steps \in Nat /\ MaxBlocks \in Nat
      BY DEF HeapTypes, HeapAssumption
    <3> QED BY <3>1, <1>4, <1>5
  <2>4. {head, freehead, current, prev, newhead}' \subseteq Blocks' \cup {0} /\ roots' \subseteq Blocks'
        /\ work' \in Seq(Blocks')
    BY <1>2, <1>4, <1>5 DEF HeapTypes, locals
  <2> QED BY <2>1, <2>2, <2>3, <2>4, <1>2, <1>4, <1>5 DEF HeapTypes, locals
<1>a. IsInjective(r) /\ IsInjective(free) /\ Range(r) \cap Range(free) = {}
      /\ Blocks' = Range(r) \cup Range(free)
  BY <1>1, <1>2, <1>4, <1>12, <1>13 DEF Parted
<1>15. Parted(<<>>, r, free)'
  BY <1>a, NoneIs DEF Parted
<1>16. Threaded(<<>>, r, free)'
  <2>1. Links(freehead, free, 0)'
    BY <1>5, <1>10, <1>11, SeqIs DEF Led, Links
  <2>2. Links(head, r, 0)'
    BY <1>5, <1>13, SeqIs DEF Led, Links
  <2> QED BY <2>1, <2>2, <1>2 DEF Threaded
<1>17. Marked' = {}
  BY <1>1, <1>2, <1>4, <1>8 DEF Flagged, Marked
<1>18. Flagged(r, free)'
  <2>1. ASSUME NEW p \in Blocks' PROVE "free" \in flags'[p] <=> p \in Range(free)
    BY <1>1, <1>4, <1>8, <1>12 DEF Flagged
  <2> QED BY <2>1, <1>2, <1>5, <1>17 DEF Flagged, locals
<1>19. Traced(<<>>, r)'
  <2>1. Live(<<>>, r)' = Range(r) /\ Live(kept, rest) = Range(rest) /\ Range(rest) \subseteq Blocks
    BY <1>1, <1>2 DEF Live, Parted
  <2>2. \A p \in Range(r) : body'[p] \subseteq Range(r)
    BY <2>1, <1>1, <1>2, <1>7, <1>13 DEF Traced
  <2>3. roots' \subseteq Range(r)
    BY <2>1, <1>1, <1>5, <1>13 DEF Traced
  <2> QED BY <2>1, <2>2, <2>3, <1>2 DEF Traced
<1>20. HeapAt(<<>>, r, free)'
  BY <1>15, <1>16, <1>18, <1>19 DEF HeapAt
<1> QED BY <1>10, <1>13, <1>14, <1>20, NoneIs DEF HeapInv

\* Steps that move no block: what the program does to the words, and the mark.
LEMMA PartsStay ==
  ASSUME NEW kept, NEW rest, NEW free, HeapAt(kept, rest, free),
         UNCHANGED <<size, next, head, freehead>>,
         \/ stage # "sweep" /\ stage' # "sweep"
         \/ UNCHANGED <<stage, newhead, current, first, prev>>
  PROVE  Parted(kept, rest, free)' /\ Threaded(kept, rest, free)'
<1>1. Parted(kept, rest, free) /\ Threaded(kept, rest, free)
  BY DEF HeapAt
<1>2. Parted(kept, rest, free)'
  BY <1>1 DEF Parted, Blocks
<1>3. \A h, s, e : Links(h, s, e) <=> (h = IF s = <<>> THEN e ELSE s[1]) /\
                      \A i \in DOMAIN s : next'[s[i]] = IF i = Len(s) THEN e ELSE s[i + 1]
  BY DEF Links
<1>4. Threaded(kept, rest, free)'
  BY <1>1, <1>3 DEF Threaded, Links
<1> QED BY <1>2, <1>4

LEMMA ProgramKeeps ==
  ASSUME HeapAssumption, HeapTypes, NEW kept \in Seq(Blocks), NEW rest \in Seq(Blocks), NEW free \in Seq(Blocks),
         HeapAt(kept, rest, free), NEW b \in Blocks, NEW c \in Blocks,
         StorePointer(b, c) \/ LoadPointer(b, c) \/ Forget(b)
  PROVE  HeapInv'
<1>1. Flagged(rest, free) /\ Traced(kept, rest) /\ Parted(kept, rest, free)
  BY DEF HeapAt
<1>2. /\ UNCHANGED <<size, next, flags, head, freehead, total, stage, locals>>
      /\ stage = "run" /\ steps' = steps + 1
  BY DEF StorePointer, LoadPointer, Forget, Operate
<1>3. Blocks' = Blocks /\ Marked' = Marked /\ Range(work) = {}
  BY <1>2, PartsKnown DEF Blocks, Marked
<1>4. Live(kept, rest)' = Range(rest) /\ Live(kept, rest) = Range(rest)
  BY <1>2 DEF Live
<1>5. /\ roots \subseteq Range(rest) /\ \A p \in Range(rest) : body[p] \subseteq Range(rest)
      /\ Range(rest) \subseteq Blocks
  BY <1>1, <1>3, <1>4 DEF Traced, Parted
<1>6. /\ roots' \subseteq Range(rest) /\ body' \in [Blocks -> SUBSET Blocks]
      /\ \A p \in Range(rest) : body'[p] \subseteq Range(rest)
  <2>1. CASE StorePointer(b, c)
    BY <2>1, <1>5 DEF StorePointer, HeapTypes
  <2>2. CASE LoadPointer(b, c) \/ Forget(b)
    BY <2>2, <1>5 DEF LoadPointer, Forget, HeapTypes
  <2> QED BY <2>1, <2>2
<1>7. HeapTypes'
  BY <1>2, <1>3, <1>5, <1>6 DEF HeapTypes, locals
<1>8. Parted(kept, rest, free)' /\ Threaded(kept, rest, free)'
  BY <1>2, PartsStay
<1>9. Flagged(rest, free)'
  BY <1>1, <1>2, <1>3 DEF Flagged, locals
<1>10. Traced(kept, rest)'
  BY <1>2, <1>4, <1>6 DEF Traced
<1> QED BY <1>3, <1>7, <1>8, <1>9, <1>10 DEF HeapInv, HeapAt

\* The set of marks and the worklist change, and nothing else.
LEMMA CollectKeeps ==
  ASSUME HeapAssumption, HeapTypes, NEW kept \in Seq(Blocks), NEW rest \in Seq(Blocks), NEW free \in Seq(Blocks),
         HeapAt(kept, rest, free), Collect
  PROVE  HeapInv'
<1> DEFINE found == roots \cap Objects
<1>1. Flagged(rest, free) /\ Traced(kept, rest) /\ Parted(kept, rest, free)
  BY DEF HeapAt
<1>2. /\ stage = "run" /\ stage' = "mark" /\ steps' = steps + 1
      /\ flags' = [b \in Blocks |-> IF b \in found THEN flags[b] \cup {"marked"} ELSE flags[b]]
      /\ work' = SetToSeq(found)
      /\ UNCHANGED <<size, next, body, head, freehead, total, roots, current, prev, newhead, first>>
  BY DEF Collect, Operate
<1>3. Blocks' = Blocks /\ Marked = {} /\ Range(work) = {} /\ kept = <<>> /\ Range(kept) = {}
  BY <1>1, <1>2, PartsKnown DEF Blocks, Flagged
<1>4. /\ roots \subseteq Range(rest) /\ \A p \in Range(rest) : body[p] \subseteq Range(rest)
      /\ Range(rest) \subseteq Blocks
  BY <1>1, <1>2, <1>3 DEF Traced, Parted, Live
<1>5. found = roots
  BY <1>2, <1>4, FreeChain
<1>6. IsFiniteSet(found) /\ found \subseteq Blocks
  <2>1. IsFiniteSet(Blocks)
    BY FS_Interval DEF Blocks, HeapTypes
  <2> QED BY <2>1, <1>4, <1>5, FS_Subset
<1>7. work' \in Seq(found) /\ Range(work') = found
  BY <1>2, <1>6, SetInSeq
<1> HIDE DEF found
<1>8. Marked' = found
  BY <1>2, <1>3, <1>6 DEF Marked
<1>9. HeapTypes'
  <2>1. flags' \in [Blocks -> SUBSET {"marked", "free"}]
    BY <1>2 DEF HeapTypes
  <2>2. work' \in Seq(Blocks)
    BY <1>6, <1>7, SeqIs
  <2> QED BY <2>1, <2>2, <1>2, <1>3 DEF HeapTypes
<1>10. Parted(kept, rest, free)' /\ Threaded(kept, rest, free)'
  BY <1>2, PartsStay
<1>11. Flagged(rest, free)'
  <2>1. \A b \in Blocks : "free" \in flags'[b] <=> b \in Range(free)
    BY <1>1, <1>2 DEF Flagged
  <2> QED BY <2>1, <1>2, <1>3, <1>4, <1>5, <1>7, <1>8 DEF Flagged
<1>12. Traced(kept, rest)'
  <2>1. Live(kept, rest)' = found
    BY <1>2, <1>3, <1>8 DEF Live
  <2> QED BY <2>1, <1>2, <1>4, <1>5, <1>7 DEF Traced
<1>13. HeapAt(kept, rest, free)'
  BY <1>10, <1>11, <1>12 DEF HeapAt
<1> QED BY <1>3, <1>9, <1>13 DEF HeapInv

LEMMA FrontAndLast ==
  ASSUME NEW S, NEW s \in Seq(S), s # <<>>
  PROVE  /\ Last(s) \in Range(s) /\ Front(s) \in Seq(S)
         /\ Range(s) = Range(Front(s)) \cup {Last(s)}
<1>1. Len(s) \in Nat /\ Len(s) # 0 /\ DOMAIN s = 1..Len(s) /\ \A i \in 1..Len(s) : s[i] \in S
  BY SeqIs
<1>2. Front(s) = [i \in 1..Len(s) - 1 |-> s[i]]
  BY <1>1 DEF Front
<1>3. Front(s) \in Seq(S) /\ DOMAIN Front(s) = 1..Len(s) - 1
  BY <1>1, <1>2
<1>4. \A i \in 1..Len(s) - 1 : Front(s)[i] = s[i] /\ i \in 1..Len(s)
  BY <1>1, <1>2
<1>5. \A i \in 1..Len(s) : i \in 1..Len(s) - 1 \/ i = Len(s)
  <2> DEFINE n == Len(s)
  <2>1. n \in Nat
    BY <1>1
  <2> HIDE DEF n
  <2>2. \A i \in 1..n : i \in 1..n - 1 \/ i = n
    BY <2>1
  <2> QED BY <2>2 DEF n
<1>6. Last(s) = s[Len(s)] /\ Len(s) \in 1..Len(s)
  BY <1>1 DEF Last
<1>7. Range(Front(s)) = {s[i] : i \in 1..Len(s) - 1}
  BY <1>3, <1>4 DEF Range
<1>8. Range(s) = {s[i] : i \in 1..Len(s)}
  BY <1>1 DEF Range
<1> QED BY <1>3, <1>4, <1>5, <1>6, <1>7, <1>8

LEMMA MarkKeeps ==
  ASSUME HeapAssumption, HeapTypes, NEW kept \in Seq(Blocks), NEW rest \in Seq(Blocks), NEW free \in Seq(Blocks),
         HeapAt(kept, rest, free), Mark
  PROVE  HeapInv'
<1> DEFINE w == Last(work)
           found == {c \in body[w] \cap Objects : "marked" \notin flags[c]}
<1>1. Flagged(rest, free) /\ Traced(kept, rest) /\ Parted(kept, rest, free)
  BY DEF HeapAt
<1>2. /\ stage = "mark" /\ work # <<>>
      /\ flags' = [b \in Blocks |-> IF b \in found THEN flags[b] \cup {"marked"} ELSE flags[b]]
      /\ work' = Front(work) \o SetToSeq(found)
      /\ UNCHANGED <<size, next, body, head, freehead, total, roots, stage, current, prev, newhead, first, steps>>
  BY DEF Mark
<1>3. Blocks' = Blocks /\ kept = <<>> /\ Range(kept) = {} /\ Objects = Range(rest)
  BY <1>2, PartsKnown, FreeChain DEF Blocks
<1>4. work \in Seq(Blocks) /\ w \in Range(work) /\ Front(work) \in Seq(Blocks)
      /\ Range(work) = Range(Front(work)) \cup {w}
  BY <1>2, FrontAndLast DEF HeapTypes
<1>5. /\ Range(work) \subseteq Marked /\ Marked \subseteq Range(rest) /\ Range(rest) \subseteq Blocks
      /\ \A p \in Range(rest) : body[p] \subseteq Range(rest)
      /\ roots \subseteq Marked /\ \A p \in Marked : body[p] \subseteq Marked \/ p \in Range(work)
  BY <1>1, <1>2, <1>3 DEF Flagged, Traced, Live, Parted
<1>6. found \subseteq Range(rest) /\ found \subseteq Blocks /\ body[w] \subseteq Marked \cup found
  BY <1>3, <1>4, <1>5 DEF Marked
<1>7. IsFiniteSet(found)
  <2>1. IsFiniteSet(Blocks)
    BY FS_Interval DEF Blocks, HeapTypes
  <2> QED BY <2>1, <1>6, FS_Subset
<1>8. SetToSeq(found) \in Seq(found) /\ Range(SetToSeq(found)) = found
  BY <1>7, SetInSeq
<1> HIDE DEF found
<1>9. SetToSeq(found) \in Seq(Blocks)
  BY <1>6, <1>8, SeqIs
<1>10. work' \in Seq(Blocks) /\ Range(work') = Range(Front(work)) \cup found
  BY <1>2, <1>4, <1>8, <1>9, ListsJoined
<1> HIDE DEF w
<1>11. Marked' = Marked \cup found
  BY <1>2, <1>3, <1>6 DEF Marked
<1>12. HeapTypes'
  <2>1. flags' \in [Blocks -> SUBSET {"marked", "free"}]
    BY <1>2 DEF HeapTypes
  <2> QED BY <2>1, <1>2, <1>3, <1>10 DEF HeapTypes
<1>13. Parted(kept, rest, free)' /\ Threaded(kept, rest, free)'
  BY <1>2, PartsStay
<1>14. Flagged(rest, free)'
  <2>1. \A b \in Blocks : "free" \in flags'[b] <=> b \in Range(free)
    BY <1>1, <1>2 DEF Flagged
  <2> QED BY <2>1, <1>2, <1>3, <1>4, <1>5, <1>6, <1>10, <1>11 DEF Flagged
<1>15. Traced(kept, rest)'
  <2>1. Live(kept, rest)' = Marked \cup found
    BY <1>2, <1>3, <1>11 DEF Live
  <2>2. ASSUME NEW p \in Marked \cup found
        PROVE  body[p] \subseteq Marked \cup found \/ p \in Range(work')
    BY <1>4, <1>5, <1>6, <1>10
  <2> QED BY <2>1, <2>2, <1>2, <1>5 DEF Traced
<1>16. HeapAt(kept, rest, free)'
  BY <1>13, <1>14, <1>15 DEF HeapAt
<1> QED BY <1>3, <1>12, <1>16 DEF HeapInv

LEMMA StartSweepKeeps ==
  ASSUME HeapAssumption, HeapTypes, NEW kept \in Seq(Blocks), NEW rest \in Seq(Blocks), NEW free \in Seq(Blocks),
         HeapAt(kept, rest, free), StartSweep
  PROVE  HeapInv'
<1>1. Flagged(rest, free) /\ Traced(kept, rest) /\ Parted(kept, rest, free)
  BY DEF HeapAt
<1>2. /\ stage = "mark" /\ work = <<>> /\ stage' = "sweep"
      /\ current' = head /\ prev' = 0 /\ newhead' = head /\ first' = TRUE
      /\ UNCHANGED <<size, next, body, flags, head, freehead, total, roots, work, steps>>
  BY DEF StartSweep
<1>3. /\ kept = <<>> /\ Blocks' = Blocks /\ Marked' = Marked
      /\ Led(next, freehead, free, 0) /\ Led(next, head, rest, 0)
  BY <1>2, PartsKnown DEF Blocks, Marked
<1>4. HeapTypes'
  BY <1>2, <1>3 DEF HeapTypes
<1>5. Parted(kept, rest, free)'
  BY <1>1, <1>3 DEF Parted
<1>6. Threaded(kept, rest, free)'
  <2>1. Links(freehead, free, 0)' /\ Links(current, rest, 0)'
    BY <1>2, <1>3, SeqIs DEF Led, Links
  <2>2. Links(newhead, <<>>, current)'
    BY <1>2, <1>3 DEF Links
  <2> QED BY <2>1, <2>2, <1>2, <1>3 DEF Threaded
<1>7. Flagged(rest, free)'
  BY <1>1, <1>2, <1>3 DEF Flagged
<1>8. Traced(kept, rest)'
  <2>1. Live(kept, rest)' = Live(kept, rest)
    BY <1>2, <1>3 DEF Live
  <2> QED BY <2>1, <1>1, <1>2 DEF Traced
<1> QED BY <1>3, <1>4, <1>5, <1>6, <1>7, <1>8 DEF HeapInv, HeapAt

\* Without its first block a list begins where that block points.
LEMMA RestOfList ==
  ASSUME NEW S, NEW s \in Seq(S), NEW f, NEW h, NEW e, Led(f, h, s, e), h # e, IsInjective(s)
  PROVE  /\ h \in S /\ h \in Range(s)
         /\ Without(s, 1) \in Seq(S) /\ Led(f, f[h], Without(s, 1), e)
         /\ Range(Without(s, 1)) = Range(s) \ {h} /\ IsInjective(Without(s, 1))
<1>1. s # <<>> /\ h = s[1]
  BY DEF Led
<1>2. 1 \in 1..Len(s) /\ 1 \in DOMAIN s
  BY <1>1, SeqIs
<1>3. h \in S /\ h \in Range(s)
  BY <1>1, <1>2, SeqIs DEF Range
<1>4. /\ Without(s, 1) \in Seq(S) /\ Led(f, IF 1 = 1 THEN f[s[1]] ELSE h, Without(s, 1), e)
      /\ Range(Without(s, 1)) = Range(s) \ {s[1]} /\ IsInjective(Without(s, 1))
  BY <1>2, LedRemove
<1> QED BY <1>1, <1>3, <1>4

\* A marked block is kept.
LEMMA SweepKeepsMarked ==
  ASSUME HeapAssumption, HeapTypes, NEW kept \in Seq(Blocks), NEW rest \in Seq(Blocks), NEW free \in Seq(Blocks),
         HeapAt(kept, rest, free), SweepOne, "marked" \in flags[current]
  PROVE  HeapInv'
<1>0. PICK c : c = current
  OBVIOUS
<1> DEFINE k == Append(kept, c)
           r == Without(rest, 1)
<1>1. Flagged(rest, free) /\ Traced(kept, rest) /\ Parted(kept, rest, free) /\ Threaded(kept, rest, free)
  BY DEF HeapAt
<1>2. /\ stage = "sweep" /\ c # 0 /\ current' = next[c]
      /\ flags' = [flags EXCEPT ![c] = @ \ {"marked"}]
      /\ newhead' = (IF first THEN c ELSE newhead) /\ first' = FALSE /\ prev' = c
      /\ UNCHANGED <<size, next, body, head, freehead, total, roots, stage, work, steps>>
  BY <1>0 DEF SweepOne
<1>3. /\ Led(next, freehead, free, 0) /\ Led(next, newhead, kept, c) /\ Led(next, c, rest, 0)
      /\ Blocks' = Blocks /\ Range(work) = {}
  BY <1>0, <1>2, PartsKnown DEF Blocks
<1>4. /\ c \in Blocks /\ c \in Range(rest) /\ r \in Seq(Blocks) /\ Led(next, next[c], r, 0)
      /\ Range(r) = Range(rest) \ {c} /\ IsInjective(r)
  BY <1>1, <1>2, <1>3, RestOfList DEF Parted
<1>5. /\ k \in Seq(Blocks) /\ Led(next, newhead, k, next[c]) /\ Range(k) = Range(kept) \cup {c}
      /\ IsInjective(kept) /\ c \notin Range(kept) => IsInjective(k)
  BY <1>3, <1>4, LedSnoc
<1>6. k # <<>> /\ k[Len(k)] = c
  <2>1. Len(k) = Len(kept) + 1 /\ k[Len(kept) + 1] = c
    BY <1>4, Appended
  <2>2. Len(kept) \in Nat
    BY SeqIs
  <2>3. k # <<>>
    <3>1. Len(k) # 0
      BY <2>1, <2>2
    <3> QED BY <3>1, <1>5, SeqIs
  <2> QED BY <2>1, <2>3
<1> HIDE DEF k, r
<1>7. c \notin Range(kept) /\ c \notin Range(free)
  BY <1>1, <1>4 DEF Parted
<1>8. newhead' = newhead
  <2>1. first => newhead = c
    BY <1>0, <1>1, <1>2, <1>3 DEF Threaded, Led
  <2> QED BY <2>1, <1>2
<1>9. HeapTypes'
  <2>1. next[c] \in Blocks \cup {0} /\ flags' \in [Blocks -> SUBSET {"marked", "free"}]
    BY <1>2, <1>4 DEF HeapTypes
  <2>2. {head, freehead, current, prev, newhead}' \subseteq Blocks \cup {0} /\ first' \in BOOLEAN
    <3>1. head \in Blocks \cup {0} /\ freehead \in Blocks \cup {0} /\ newhead \in Blocks \cup {0}
      BY DEF HeapTypes
    <3>2. head' = head /\ freehead' = freehead /\ newhead' = newhead /\ current' = next[c] /\ prev' = c
          /\ first' = FALSE
      BY <1>2, <1>8
    <3> QED BY <3>1, <3>2, <2>1, <1>4
  <2> QED BY <2>1, <2>2, <1>2, <1>3 DEF HeapTypes
<1>10. Parted(k, r, free)'
  <2>1. /\ IsInjective(k) /\ IsInjective(r) /\ IsInjective(free)
        /\ Range(k) \cap Range(r) = {} /\ Range(k) \cap Range(free) = {} /\ Range(r) \cap Range(free) = {}
        /\ Blocks = Range(k) \cup Range(r) \cup Range(free)
    BY <1>1, <1>4, <1>5, <1>7 DEF Parted
  <2> QED BY <2>1, <1>3 DEF Parted
<1>11. Threaded(k, r, free)'
  <2>1. Links(freehead, free, 0)'
    <3>1. DOMAIN free = 1..Len(free)
      BY SeqIs
    <3> QED BY <3>1, <1>2, <1>3 DEF Led, Links
  <2>2. Links(newhead, k, current)'
    BY <1>2, <1>5, <1>8, SeqIs DEF Led, Links
  <2>3. Links(current, r, 0)'
    BY <1>2, <1>4, SeqIs DEF Led, Links
  <2> QED BY <2>1, <2>2, <2>3, <1>2, <1>6 DEF Threaded
<1>12. Marked' = Marked \ {c}
  BY <1>2, <1>3, <1>4 DEF Marked, HeapTypes
<1>13. Flagged(r, free)'
  <2>1. \A b \in Blocks : "free" \in flags'[b] <=> b \in Range(free)
    BY <1>1, <1>2, <1>4 DEF Flagged, HeapTypes
  <2> QED BY <2>1, <1>1, <1>2, <1>3, <1>4, <1>12 DEF Flagged
<1>14. Traced(k, r)'
  <2>1. c \in Marked
    BY <1>0, <1>4 DEF Marked
  <2>2. Live(k, r)' = Live(kept, rest)
    BY <2>1, <1>2, <1>5, <1>12 DEF Live
  <2> QED BY <2>2, <1>1, <1>2, <1>3 DEF Traced
<1>15. HeapAt(k, r, free)'
  BY <1>10, <1>11, <1>13, <1>14 DEF HeapAt
<1> QED BY <1>3, <1>4, <1>5, <1>9, <1>15 DEF HeapInv

\* Any other block goes from the list of objects to the head of the free list.
LEMMA SweepFreesUnmarked ==
  ASSUME HeapAssumption, HeapTypes, NEW kept \in Seq(Blocks), NEW rest \in Seq(Blocks), NEW free \in Seq(Blocks),
         HeapAt(kept, rest, free), SweepOne, "marked" \notin flags[current]
  PROVE  HeapInv'
<1>0. PICK c : c = current
  OBVIOUS
<1> DEFINE f == <<c>> \o free
           r == Without(rest, 1)
<1>1. Flagged(rest, free) /\ Traced(kept, rest) /\ Parted(kept, rest, free) /\ Threaded(kept, rest, free)
  BY DEF HeapAt
<1>2. /\ stage = "sweep" /\ c # 0 /\ current' = next[c]
      /\ total' = IF total > size[c] THEN total - size[c] ELSE 0
      /\ next' = [b \in Blocks |-> IF b = c THEN freehead ELSE IF b = prev THEN next[c] ELSE next[b]]
      /\ newhead' = IF prev = 0 THEN next[c] ELSE newhead
      /\ flags' = [flags EXCEPT ![c] = @ \cup {"free"}]
      /\ freehead' = c
      /\ UNCHANGED <<size, body, head, roots, stage, work, first, prev, steps>>
  BY <1>0 DEF SweepOne
<1>3. /\ Led(next, freehead, free, 0) /\ Led(next, newhead, kept, c) /\ Led(next, c, rest, 0)
      /\ Blocks' = Blocks /\ Range(work) = {}
  BY <1>0, <1>2, PartsKnown DEF Blocks
<1>4. /\ c \in Blocks /\ c \in Range(rest) /\ r \in Seq(Blocks) /\ Led(next, next[c], r, 0)
      /\ Range(r) = Range(rest) \ {c} /\ IsInjective(r)
  BY <1>1, <1>2, <1>3, RestOfList DEF Parted
<1> HIDE DEF r
<1>5. c \notin Range(kept) /\ c \notin Range(free)
  BY <1>1, <1>4 DEF Parted
<1>6. /\ first = (kept = <<>>) /\ (kept = <<>> => prev = 0 /\ newhead = c)
      /\ (kept # <<>> => prev = kept[Len(kept)] /\ prev \in Range(kept) /\ prev # 0)
  <2>1. /\ first = (kept = <<>>) /\ prev = IF kept = <<>> THEN 0 ELSE kept[Len(kept)]
        /\ (kept = <<>> => newhead = c)
    BY <1>1, <1>2, <1>3 DEF Threaded, Led
  <2>2. kept # <<>> => Len(kept) \in DOMAIN kept /\ kept[Len(kept)] \in Blocks
    BY SeqIs
  <2>3. 0 \notin Blocks
    BY DEF Blocks
  <2> QED BY <2>1, <2>2, <2>3 DEF Range
<1>7. \A b \in Range(r) \cup Range(free) : next'[b] = next[b]
  BY <1>1, <1>2, <1>4, <1>5, <1>6, SeqIs DEF Parted, Blocks
<1>8. Led(next', next[c], r, 0) /\ Led(next', freehead, free, 0)
  BY <1>3, <1>4, <1>7, LedSame
<1>9. Led(next', newhead', kept, next[c])
  <2>1. CASE kept = <<>>
    BY <2>1, <1>2, <1>6, SeqIs DEF Led
  <2>2. CASE kept # <<>>
    <3>1. newhead' = newhead /\ next'[kept[Len(kept)]] = next[c]
      BY <2>2, <1>1, <1>2, <1>5, <1>6 DEF Parted
    <3>2. \A b \in Range(kept) : b # kept[Len(kept)] => next'[b] = next[b]
      BY <2>2, <1>1, <1>2, <1>5, <1>6 DEF Parted
    <3>3. IsInjective(kept)
      BY <1>1 DEF Parted
    <3> QED BY <2>2, <3>1, <3>2, <3>3, <1>3, LedTurn
  <2> QED BY <2>1, <2>2
<1>10. next'[c] = freehead
  BY <1>2, <1>4
<1>11. /\ f \in Seq(Blocks) /\ Led(next', c, f, 0) /\ Range(f) = Range(free) \cup {c}
       /\ IsInjective(free) /\ c \notin Range(free) => IsInjective(f)
  BY <1>4, <1>8, <1>10, LedCons
<1> HIDE DEF f
<1>12. HeapTypes'
  <2>1. next[c] \in Blocks \cup {0} /\ flags' \in [Blocks -> SUBSET {"marked", "free"}]
    BY <1>2, <1>4 DEF HeapTypes
  <2>2. next' \in [Blocks -> Blocks \cup {0}]
    BY <2>1, <1>2 DEF HeapTypes
  <2>3. size[c] \in Nat /\ total' \in Nat
    <3>1. size \in Seq(Sizes) /\ c \in 1..Len(size) /\ Sizes \subseteq Nat /\ total \in Nat
      BY <1>4 DEF HeapTypes, Blocks, HeapAssumption
    <3>2. size[c] \in Nat
      BY <3>1, SeqIs
    <3> QED BY <3>1, <3>2, <1>2
  <2>4. newhead' \in Blocks \cup {0}
    BY <2>1, <1>2 DEF HeapTypes
  <2> QED BY <2>1, <2>2, <2>3, <2>4, <1>2, <1>3, <1>4 DEF HeapTypes
<1>13. Parted(kept, r, f)'
  <2>1. /\ IsInjective(kept) /\ IsInjective(r) /\ IsInjective(f)
        /\ Range(kept) \cap Range(r) = {} /\ Range(kept) \cap Range(f) = {} /\ Range(r) \cap Range(f) = {}
        /\ Blocks = Range(kept) \cup Range(r) \cup Range(f)
    BY <1>1, <1>4, <1>5, <1>11 DEF Parted
  <2> QED BY <2>1, <1>3 DEF Parted
<1>14. Threaded(kept, r, f)'
  <2>1. Links(freehead, f, 0)'
    BY <1>2, <1>11, SeqIs DEF Led, Links
  <2>2. Links(newhead, kept, current)'
    BY <1>2, <1>9, SeqIs DEF Led, Links
  <2>3. Links(current, r, 0)'
    <3>1. DOMAIN r = 1..Len(r)
      BY <1>4, SeqIs
    <3> QED BY <3>1, <1>2, <1>8 DEF Led, Links
  <2>4. first = (kept = <<>>) /\ prev = IF kept = <<>> THEN 0 ELSE kept[Len(kept)]
    BY <1>6
  <2> QED BY <2>1, <2>2, <2>3, <2>4, <1>2 DEF Threaded
<1>15. Marked' = Marked /\ c \notin Marked
  BY <1>0, <1>2, <1>3, <1>4 DEF Marked, HeapTypes
<1>16. Flagged(r, f)'
  <2>1. \A b \in Blocks : "free" \in flags'[b] <=> b \in Range(f)
    BY <1>1, <1>2, <1>4, <1>11 DEF Flagged, HeapTypes
  <2> QED BY <2>1, <1>1, <1>2, <1>3, <1>4, <1>15 DEF Flagged
<1>17. Traced(kept, r)'
  <2>1. Live(kept, r)' = Live(kept, rest)
    BY <1>2, <1>15 DEF Live
  <2> QED BY <2>1, <1>1, <1>2, <1>3 DEF Traced
<1>18. HeapAt(kept, r, f)'
  BY <1>13, <1>14, <1>16, <1>17 DEF HeapAt
<1> QED BY <1>3, <1>4, <1>11, <1>12, <1>18 DEF HeapInv

\* When all blocks are swept those that are kept are the list of objects.
LEMMA SweepEndsKeeps ==
  ASSUME HeapAssumption, HeapTypes, NEW kept \in Seq(Blocks), NEW rest \in Seq(Blocks), NEW free \in Seq(Blocks),
         HeapAt(kept, rest, free), SweepEnds
  PROVE  HeapInv'
<1>1. Flagged(rest, free) /\ Traced(kept, rest) /\ Parted(kept, rest, free) /\ Threaded(kept, rest, free)
  BY DEF HeapAt
<1>2. /\ stage = "sweep" /\ current = 0 /\ stage' = "run" /\ head' = IF first THEN 0 ELSE newhead
      /\ prev' = 0 /\ newhead' = 0 /\ first' = TRUE
      /\ UNCHANGED <<size, next, body, flags, freehead, total, roots, work, current, steps>>
  BY DEF SweepEnds
<1>3. /\ Led(next, freehead, free, 0) /\ Led(next, newhead, kept, 0) /\ Led(next, 0, rest, 0)
      /\ Blocks' = Blocks /\ Marked' = Marked /\ Range(work) = {} /\ work = <<>>
  BY <1>2, PartsKnown DEF Blocks, Marked
<1>4. rest = <<>>
  <2>1. rest # <<>> => 1 \in 1..Len(rest) /\ rest[1] \in Blocks /\ 0 = rest[1]
    BY <1>3, SeqIs DEF Led
  <2> QED BY <2>1 DEF Blocks
<1>5. Range(rest) = {} /\ Marked = {}
  BY <1>1, <1>4, NoneIs DEF Flagged
<1>6. Led(next, head', kept, 0)
  BY <1>1, <1>2, <1>3, SeqIs DEF Threaded, Led
<1>7. HeapTypes'
  BY <1>2, <1>3 DEF HeapTypes
<1>8. Parted(<<>>, kept, free)'
  <2>1. /\ IsInjective(kept) /\ IsInjective(free) /\ Range(kept) \cap Range(free) = {}
        /\ Blocks = Range(kept) \cup Range(free)
    BY <1>1, <1>5 DEF Parted
  <2> QED BY <2>1, <1>3, NoneIs DEF Parted
<1>9. Threaded(<<>>, kept, free)'
  <2>0. DOMAIN free = 1..Len(free) /\ DOMAIN kept = 1..Len(kept)
    BY SeqIs
  <2>1. Links(freehead, free, 0)' /\ Links(head, kept, 0)'
    BY <2>0, <1>2, <1>3, <1>6 DEF Led, Links
  <2> QED BY <2>1, <1>2 DEF Threaded
<1>10. Flagged(kept, free)'
  BY <1>1, <1>2, <1>3, <1>5 DEF Flagged
<1>11. Traced(<<>>, kept)'
  <2>1. Live(<<>>, kept)' = Range(kept) /\ Live(kept, rest) = Range(kept)
    BY <1>2, <1>5 DEF Live
  <2> QED BY <2>1, <1>1, <1>2, <1>3 DEF Traced
<1> QED BY <1>3, <1>7, <1>8, <1>9, <1>10, <1>11, NoneIs DEF HeapInv, HeapAt

LEMMA HeapStarts == ASSUME HeapAssumption, HeapInit PROVE HeapInv
<1>1. Blocks = {} /\ size = <<>> /\ next = <<>> /\ body = <<>> /\ flags = <<>> /\ work = <<>>
  BY DEF HeapInit, Blocks
<1>2. HeapTypes
  <2>1. next \in [Blocks -> Blocks \cup {0}] /\ body \in [Blocks -> SUBSET Blocks]
        /\ flags \in [Blocks -> SUBSET {"marked", "free"}]
    BY <1>1
  <2> QED BY <2>1, <1>1 DEF HeapInit, HeapTypes, HeapAssumption
<1>3. HeapAt(<<>>, <<>>, <<>>)
  <2>1. Parted(<<>>, <<>>, <<>>)
    BY <1>1, NoneIs DEF Parted
  <2>2. Threaded(<<>>, <<>>, <<>>)
    BY DEF Threaded, Links, HeapInit
  <2>3. Flagged(<<>>, <<>>) /\ Traced(<<>>, <<>>)
    BY <1>1, NoneIs DEF Flagged, Traced, Live, Marked, HeapInit
  <2> QED BY <2>1, <2>2, <2>3 DEF HeapAt
<1> QED BY <1>2, <1>3, NoneIs DEF HeapInv

LEMMA HeapStep ==
  ASSUME HeapAssumption, HeapInv, [HeapNext]_heapVars
  PROVE  HeapInv'
<1>1. HeapTypes
  BY DEF HeapInv
<1>2. PICK kept \in Seq(Blocks), rest \in Seq(Blocks), free \in Seq(Blocks) : HeapAt(kept, rest, free)
  BY DEF HeapInv
<1>3. ASSUME NEW n \in Sizes, alloc_from_free_list(n) PROVE HeapInv'
  BY <1>1, <1>2, <1>3, AllocKeeps
<1>4. ASSUME NEW n \in Sizes, bump_alloc_with_header(n) PROVE HeapInv'
  BY <1>1, <1>2, <1>4, BumpKeeps
<1>5. ASSUME NEW b \in Blocks, NEW c \in Blocks, StorePointer(b, c) \/ LoadPointer(b, c) \/ Forget(b) PROVE HeapInv'
  BY <1>1, <1>2, <1>5, ProgramKeeps
<1>6. CASE Collect
  BY <1>1, <1>2, <1>6, CollectKeeps
<1>7. CASE Mark
  BY <1>1, <1>2, <1>7, MarkKeeps
<1>8. CASE StartSweep
  BY <1>1, <1>2, <1>8, StartSweepKeeps
<1>9. CASE SweepOne
  BY <1>1, <1>2, <1>9, SweepKeepsMarked, SweepFreesUnmarked
<1>10. CASE SweepEnds
  BY <1>1, <1>2, <1>10, SweepEndsKeeps
<1>11. CASE UNCHANGED heapVars
  <2>1. UNCHANGED <<size, next, body, flags, head, freehead, total, roots, stage, work, current, prev,
                    newhead, first, steps>> /\ Blocks' = Blocks /\ Marked' = Marked
    BY <1>11 DEF heapVars, Blocks, Marked
  <2>2. HeapTypes'
    BY <1>1, <2>1 DEF HeapTypes
  <2>3. Parted(kept, rest, free)' /\ Threaded(kept, rest, free)'
    BY <1>2, <2>1, PartsStay
  <2>4. Flagged(rest, free)' /\ Traced(kept, rest)'
    BY <1>2, <2>1 DEF HeapAt, Flagged, Traced, Live
  <2> QED BY <2>1, <2>2, <2>3, <2>4 DEF HeapInv, HeapAt
<1> QED BY <1>3, <1>4, <1>5, <1>6, <1>7, <1>8, <1>9, <1>10, <1>11 DEF HeapNext

(* HeapIsSound: between collections every block is in the list of objects  *)
(* or in the free list, once, and what the program can reach is never put  *)
(* in the free list.                                                       *)
THEOREM HeapStaysSound == HeapSpec => []HeapIsSound
<1>1. HeapInit => HeapInv
  BY HeapAssumption, HeapStarts
<1>2. HeapInv /\ [HeapNext]_heapVars => HeapInv'
  BY HeapAssumption, HeapStep
<1>3. HeapInv => HeapIsSound
  BY HeapInvIsSound
<1> QED BY <1>1, <1>2, <1>3, PTL DEF HeapSpec
=============================================================================
