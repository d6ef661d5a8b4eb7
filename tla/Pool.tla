-------------------------------- MODULE Pool --------------------------------
(***************************************************************************)
(* The PostgreSQL connection pool of the Mesh runtime                      *)
(* (compiler/mesh-rt/src/db/pool.rs): a mutex-protected PoolInner, a       *)
(* condition variable, and callers that check connections out, use them    *)
(* and check them in, while the pool may be closed under them.             *)
(*                                                                         *)
(* A step is what happens between two releases of the pool's mutex, or one *)
(* piece of I/O done outside of it.  Connections are handles; the database *)
(* server is external and is (live, dead, inTxn, late): the connections    *)
(* open at the server, those of them that no longer answer, those that are *)
(* in a transaction, and the answers no statement has read: a statement    *)
(* gives up after 30 s (pg.rs:705), and its answer is left for the next.   *)
(***************************************************************************)
EXTENDS Integers, Sequences, FiniteSets

CONSTANTS Clients,    \* actors that use the pool
          Conns,      \* connection handles
          NoConn,     \* the absence of a connection
          MinConns,   \* min_conns, after the clamping of mesh_pool_open
          MaxConns,   \* max_conns, after the clamping of mesh_pool_open
          MaxLate     \* bound on the answers of a connection that are not read

\* The clamping in mesh_pool_open: max is at least 1 and at least min.
ASSUME BoundsAssumption == /\ MinConns \in Nat
                           /\ MaxConns \in Nat \ {0}
                           /\ MinConns <= MaxConns

ASSUME ClientsAssumption == IsFiniteSet(Clients)

ASSUME LateAssumption == MaxLate \in Nat

ASSUME NoConnAssumption == NoConn \notin Conns

VARIABLES
    idle,           \* PoolInner.idle, a Vec used as a stack
    active_count,   \* PoolInner.active_count
    total_created,  \* PoolInner.total_created
    closed,         \* PoolInner.closed
    pc,             \* where each client is inside the pool's functions
    conn,           \* the connection each client holds
    closer,         \* where the caller of mesh_pool_close is
    draining,       \* idle_conns: taken out of the pool by close, not yet closed
    live,           \* connections open at the server
    dead,           \* open connections that the server no longer serves
    dirty,          \* open connections with txn_status # 'I', as the client read it
    inTxn,          \* open connections that are in a transaction at the server
    late            \* late[h]: whether each answer not read tells of a transaction

inner  == <<idle, active_count, total_created, closed>>
server == <<live, dead, dirty, inTxn, late>>
vars   == <<inner, pc, conn, closer, draining, server>>

Locations == {"out",        \* outside the pool
              "checkout",   \* about to take the lock at the head of the loop
              "creating",   \* holds a reservation, connecting without the lock
              "undo",       \* the connect failed, about to undo the reservation
              "waiting",    \* blocked on the condition variable
              "using",      \* has a connection
              "checkin",    \* called checkin, about to read closed
              "returning",  \* read closed = FALSE, about to clean up and return
              "restoring",  \* ROLLBACK was answered, about to return
              "discard",    \* ROLLBACK failed, about to give up the slot
              "notify"}     \* returned the connection, about to notify_one

\* Clients that a slot of the pool is accounted to.
Occupying == {"creating", "undo", "using", "checkin", "returning", "restoring", "discard"}

\* Clients whose connection is open at the server.
Holding == {"using", "checkin", "returning", "restoring"}

Goto(c, loc) == pc' = [pc EXCEPT ![c] = loc]

\* mesh_pg_close: the handle is gone, with its transaction.
CloseAtServer(gone) == /\ live' = live \ gone
                       /\ dead' = dead \ gone
                       /\ dirty' = dirty \ gone
                       /\ inTxn' = inTxn \ gone
                       /\ late' = [h \in Conns |-> IF h \in gone THEN <<>> ELSE late[h]]

With(set, h, in) == IF in THEN set \cup {h} ELSE set \ {h}

\* A statement on h leaves h in a transaction or not (after), and reads the first
\* answer there is, up to the status of its ReadyForQuery ...
Answered(h, after) == LET answers == Append(late[h], after)
                      IN  /\ inTxn' = With(inTxn, h, after)
                          /\ dirty' = With(dirty, h, Head(answers))
                          /\ late' = [late EXCEPT ![h] = Tail(answers)]

\* ... or gives up, and an error is all the caller sees: the connection is kept.
GaveUp(h, after) == /\ Len(late[h]) < MaxLate
                    /\ inTxn' = With(inTxn, h, after)
                    /\ late' = [late EXCEPT ![h] = Append(@, after)]
                    /\ UNCHANGED dirty

-----------------------------------------------------------------------------
\* mesh_pool_open: min_conns connections, all idle.  (A failing connect closes
\* what was opened and returns no pool at all.)
Init == /\ idle \in [1..MinConns -> Conns]
        /\ \A i, j \in 1..MinConns : i # j => idle[i] # idle[j]
        /\ active_count = 0
        /\ total_created = MinConns
        /\ closed = FALSE
        /\ pc = [c \in Clients |-> "out"]
        /\ conn = [c \in Clients |-> NoConn]
        /\ closer = "open"
        /\ draining = {}
        /\ live = {idle[i] : i \in 1..MinConns}
        /\ dead = {}
        /\ dirty = {}
        /\ inTxn = {}
        /\ late = [h \in Conns |-> <<>>]

\* A client calls mesh_pool_checkout, directly or through mesh_pool_query,
\* mesh_pool_execute or mesh_pool_query_as.
Checkout(c) == /\ pc[c] = "out"
               /\ Goto(c, "checkout")
               /\ UNCHANGED <<inner, conn, closer, draining, server>>

\* The loop finds the pool closed.
CheckoutClosed(c) == /\ pc[c] = "checkout"
                     /\ closed
                     /\ Goto(c, "out")
                     /\ UNCHANGED <<inner, conn, closer, draining, server>>

\* The loop pops idle connections until one passes SELECT 1, and closes those
\* that fail: they are dead, give up, or read the error of a late answer.  The
\* lock is held across the health checks.
CheckoutIdle(c) ==
    /\ pc[c] = "checkout"
    /\ ~closed
    /\ \E k \in DOMAIN idle :
         LET h    == idle[k]
             gone == {idle[i] : i \in (k + 1)..Len(idle)}
             answers == Append(late[h], h \in inTxn)
         IN  /\ h \notin dead
             /\ idle' = SubSeq(idle, 1, k - 1)
             /\ total_created' = total_created - (Len(idle) - k)
             /\ live' = live \ gone /\ dead' = dead \ gone /\ inTxn' = inTxn \ gone
             /\ dirty' = With(dirty \ gone, h, Head(answers))
             /\ late' = [g \in Conns |-> IF g \in gone THEN <<>>
                                         ELSE IF g = h THEN Tail(answers) ELSE late[g]]
             /\ conn' = [conn EXCEPT ![c] = h]
    /\ active_count' = active_count + 1
    /\ Goto(c, "using")
    /\ UNCHANGED <<closed, closer, draining>>

\* Mutant: off by one against max_conns.
CheckoutEmpty_OffByOne(c) ==
    /\ pc[c] = "checkout"
    /\ ~closed
    /\ idle' = <<>>
    /\ CloseAtServer({idle[i] : i \in DOMAIN idle})
    /\ LET left == total_created - Len(idle)
       IN  IF left <= MaxConns
           THEN /\ total_created' = left + 1
                /\ active_count' = active_count + 1
                /\ Goto(c, "creating")
           ELSE /\ total_created' = left
                /\ UNCHANGED active_count
                /\ Goto(c, "waiting")
    /\ UNCHANGED <<closed, conn, closer, draining>>

\* No idle connection passes the health check: all of them are closed, and
\* the caller reserves a slot if there is one, or blocks.
CheckoutEmpty(c) ==
    /\ pc[c] = "checkout"
    /\ ~closed
    /\ idle' = <<>>
    /\ CloseAtServer({idle[i] : i \in DOMAIN idle})
    /\ LET left == total_created - Len(idle)
       IN  IF left < MaxConns
           THEN /\ total_created' = left + 1
                /\ active_count' = active_count + 1
                /\ Goto(c, "creating")
           ELSE /\ total_created' = left
                /\ UNCHANGED active_count
                /\ Goto(c, "waiting")
    /\ UNCHANGED <<closed, conn, closer, draining>>

\* create_connection succeeds.
ConnectOk(c) == /\ pc[c] = "creating"
                /\ \E h \in Conns \ live :
                     /\ live' = live \cup {h}
                     /\ conn' = [conn EXCEPT ![c] = h]
                /\ Goto(c, "using")
                /\ UNCHANGED <<inner, closer, draining, dead, dirty, inTxn, late>>

\* create_connection fails.
ConnectErr(c) == /\ pc[c] = "creating"
                 /\ Goto(c, "undo")
                 /\ UNCHANGED <<inner, conn, closer, draining, server>>

\* Mutant: the reservation of total_created is not undone.
UndoReservation_KeepsSlot(c) ==
    /\ pc[c] = "undo"
    /\ active_count' = active_count - 1
    /\ Goto(c, "out")
    /\ UNCHANGED <<idle, total_created, closed, conn, closer, draining, server>>

\* The failed caller takes the lock again and undoes its reservation.  Nobody
\* is notified.
UndoReservation(c) == /\ pc[c] = "undo"
                      /\ total_created' = total_created - 1
                      /\ active_count' = active_count - 1
                      /\ Goto(c, "out")
                      /\ UNCHANGED <<idle, closed, conn, closer, draining, server>>

\* wait_for returns because the timeout passed.
CheckoutTimeout(c) == /\ pc[c] = "waiting"
                      /\ Goto(c, "out")
                      /\ UNCHANGED <<inner, conn, closer, draining, server>>

-----------------------------------------------------------------------------
\* The holder runs a statement: it may leave a transaction open or finish one.
Use(c) == /\ pc[c] = "using"
          /\ conn[c] \notin dead
          /\ \E after \in BOOLEAN : Answered(conn[c], after) \/ GaveUp(conn[c], after)
          /\ UNCHANGED <<inner, pc, conn, closer, draining, live, dead>>

\* The holder calls mesh_pool_checkin.
Checkin(c) == /\ pc[c] = "using"
              /\ Goto(c, "checkin")
              /\ UNCHANGED <<inner, conn, closer, draining, server>>

\* Checkin reads closed under the lock, and closes the connection if it is set.
CheckinClosed(c) == /\ pc[c] = "checkin"
                    /\ closed
                    /\ CloseAtServer({conn[c]})
                    /\ conn' = [conn EXCEPT ![c] = NoConn]
                    /\ Goto(c, "out")
                    /\ UNCHANGED <<inner, closer, draining>>

\* Otherwise the lock is released before the transaction is cleaned up.
CheckinOpen(c) == /\ pc[c] = "checkin"
                  /\ ~closed
                  /\ Goto(c, "returning")
                  /\ UNCHANGED <<inner, conn, closer, draining, server>>

\* A dirty connection is rolled back first.  An answer without an error will do,
\* whatever status it tells of.
Rollback(c) == /\ pc[c] = "returning"
               /\ conn[c] \in dirty \ dead
               /\ Answered(conn[c], FALSE)
               /\ Goto(c, "restoring")
               /\ UNCHANGED <<inner, conn, closer, draining, live, dead>>

\* The reply to ROLLBACK is lost, late or an error.
RollbackErr(c) == /\ pc[c] = "returning"
                  /\ conn[c] \in dirty
                  /\ CloseAtServer({conn[c]})
                  /\ conn' = [conn EXCEPT ![c] = NoConn]
                  /\ Goto(c, "discard")
                  /\ UNCHANGED <<inner, closer, draining>>

\* notify_one wakes one of the blocked callers, if there is one; others names
\* what else happens to pc in the step.
NotifyOne(c) == \/ \E w \in Clients : /\ pc[w] = "waiting"
                                      /\ pc' = [pc EXCEPT ![c] = "out", ![w] = "checkout"]
                \/ /\ \A w \in Clients : pc[w] # "waiting"
                   /\ Goto(c, "out")

\* After a failed ROLLBACK the slot is given up and one waiter is notified,
\* with the lock held.
Discard(c) == /\ pc[c] = "discard"
              /\ total_created' = total_created - 1
              /\ active_count' = active_count - 1
              /\ NotifyOne(c)
              /\ UNCHANGED <<idle, closed, conn, closer, draining, server>>

\* Mutant: returned without looking at txn_status.
ReturnToIdle_NoRollback(c) ==
    /\ pc[c] = "returning"
    /\ active_count' = active_count - 1
    /\ idle' = Append(idle, conn[c])
    /\ conn' = [conn EXCEPT ![c] = NoConn]
    /\ Goto(c, "notify")
    /\ UNCHANGED <<total_created, closed, closer, draining, server>>

\* The connection goes back to idle, under the lock, whatever closed is now.
ReturnToIdle(c) == /\ \/ pc[c] = "restoring"
                      \/ pc[c] = "returning" /\ conn[c] \notin dirty
                   /\ active_count' = active_count - 1
                   /\ idle' = Append(idle, conn[c])
                   /\ conn' = [conn EXCEPT ![c] = NoConn]
                   /\ Goto(c, "notify")
                   /\ UNCHANGED <<total_created, closed, closer, draining, server>>

\* The notification comes after the lock is dropped.
CheckinNotify(c) == /\ pc[c] = "notify"
                    /\ NotifyOne(c)
                    /\ UNCHANGED <<inner, conn, closer, draining, server>>

-----------------------------------------------------------------------------
\* Mutant: close clears the counters that "will be cleaned up by close".
CloseBegin_ClearsCounters ==
    /\ closer = "open"
    /\ closed' = TRUE
    /\ idle' = <<>>
    /\ active_count' = 0
    /\ total_created' = 0
    /\ draining' = {idle[i] : i \in DOMAIN idle}
    /\ closer' = "drain"
    /\ UNCHANGED <<pc, conn, server>>

\* Mutant: idle is copied, not drained.
CloseBegin_CopiesIdle ==
    /\ closer = "open"
    /\ closed' = TRUE
    /\ draining' = {idle[i] : i \in DOMAIN idle}
    /\ closer' = "drain"
    /\ UNCHANGED <<idle, active_count, total_created, pc, conn, server>>

\* mesh_pool_close: closed is set and idle drained under the lock ...
CloseBegin == /\ closer = "open"
              /\ closed' = TRUE
              /\ idle' = <<>>
              /\ draining' = {idle[i] : i \in DOMAIN idle}
              /\ closer' = "drain"
              /\ UNCHANGED <<active_count, total_created, pc, conn, server>>

\* ... the drained connections are closed outside the lock ...
CloseDrain == /\ closer = "drain"
              /\ CloseAtServer(draining)
              /\ draining' = {}
              /\ closer' = "notify"
              /\ UNCHANGED <<inner, pc, conn>>

\* Mutant: notify_one in place of notify_all.
CloseNotifyAll_One ==
    /\ closer = "notify"
    /\ \/ \E w \in Clients : pc[w] = "waiting" /\ Goto(w, "checkout")
       \/ (\A w \in Clients : pc[w] # "waiting") /\ UNCHANGED pc
    /\ closer' = "done"
    /\ UNCHANGED <<inner, conn, draining, server>>

\* ... and every blocked caller is woken.
CloseNotifyAll ==
    /\ closer = "notify"
    /\ pc' = [c \in Clients |-> IF pc[c] = "waiting" THEN "checkout" ELSE pc[c]]
    /\ closer' = "done"
    /\ UNCHANGED <<inner, conn, draining, server>>

\* The server drops a connection, at any time.
ServerDrops == /\ \E h \in live \ dead : dead' = dead \cup {h}
               /\ UNCHANGED <<inner, pc, conn, closer, draining, live, dirty, inTxn, late>>

-----------------------------------------------------------------------------
ClientNext(c) == \/ Checkout(c) \/ CheckoutClosed(c) \/ CheckoutIdle(c)
                 \/ CheckoutEmpty(c) \/ ConnectOk(c) \/ ConnectErr(c)
                 \/ UndoReservation(c) \/ CheckoutTimeout(c)
                 \/ Use(c) \/ Checkin(c) \/ CheckinClosed(c) \/ CheckinOpen(c)
                 \/ Rollback(c) \/ RollbackErr(c) \/ Discard(c)
                 \/ ReturnToIdle(c) \/ CheckinNotify(c)

Next == \/ \E c \in Clients : ClientNext(c)
        \/ CloseBegin \/ CloseDrain \/ CloseNotifyAll
        \/ ServerDrops

Spec == Init /\ [][Next]_vars

-----------------------------------------------------------------------------
\* The type of every variable of the pool.  The counters are usize: that they
\* stay in Nat says that no path through checkout, checkin and close subtracts
\* from zero, which would wrap (and then never let anybody connect again).
TypeOK == /\ idle \in Seq(Conns)
          /\ active_count \in Nat
          /\ total_created \in Nat
          /\ closed \in BOOLEAN
          /\ pc \in [Clients -> Locations]
          /\ conn \in [Clients -> Conns \cup {NoConn}]
          /\ closer \in {"open", "drain", "notify", "done"}
          /\ draining \in SUBSET Conns
          /\ live \in SUBSET Conns
          /\ dead \in SUBSET live
          /\ dirty \in SUBSET live
          /\ inTxn \in SUBSET live
          /\ late \in [Conns -> Seq(BOOLEAN)]

IdleSet == {idle[i] : i \in DOMAIN idle}
Occupants == {c \in Clients : pc[c] \in Occupying}
Holders == {c \in Clients : pc[c] \in Holding}

\* "A bounded pool": the slots the pool accounts for never exceed max_conns,
\* and while the pool is open they are exactly the idle connections and the
\* clients inside checkout, using, or inside checkin; so neither unsigned
\* counter can wrap below zero.
SlotAccounting ==
    /\ total_created <= MaxConns
    /\ active_count >= Cardinality(Occupants)
    /\ total_created >= active_count + Len(idle)
    /\ ~closed => /\ active_count = Cardinality(Occupants)
                  /\ total_created = active_count + Len(idle)

\* The database never has more connections of this pool open than max_conns,
\* through creation outside the lock, failures, and close.
ServerBound == Cardinality(live) <= MaxConns

\* No connection is in two hands: held by two clients, idle while held or
\* being closed, or twice in the idle list; and every one of them is open.
ExclusiveConns ==
    /\ \A c \in Clients : (conn[c] # NoConn) <=> (c \in Holders)
    /\ \A c, d \in Holders : conn[c] = conn[d] => c = d
    /\ \A i, j \in DOMAIN idle : idle[i] = idle[j] => i = j
    /\ \A c \in Holders : conn[c] \in live \ (IdleSet \cup draining)
    /\ IdleSet \cup draining \subseteq live
    /\ IdleSet \cap draining = {}

\* As long as every answer of a connection has been read, the client knows
\* whether it is in a transaction, and as an idle one it is in none: the next
\* client finds nothing that the one before has left open.  (A statement that
\* gives up ends that, and the pool keeps the connection; see the README.)
InStep(h) == late[h] = <<>>
StatusIsKnown == \A h \in live : InStep(h) => (h \in dirty <=> h \in inTxn)
IdleIsClean == \A h \in IdleSet : InStep(h) => h \notin dirty \cup inTxn

\* Once mesh_pool_close has returned nobody is left blocked on the pool.
CloseWakesAll == closer = "done" => \A c \in Clients : pc[c] # "waiting"

\* The pool is bounded: its counters are right, and neither they nor the server
\* exceed max_conns.
SlotsAreBounded == TypeOK /\ SlotAccounting /\ ServerBound

\* What checkout returns is the client's alone and, unless an answer of it was not
\* read, clean, and nobody is left waiting for it after close.
ConnsAreSafe == ExclusiveConns /\ StatusIsKnown /\ IdleIsClean /\ CloseWakesAll

-----------------------------------------------------------------------------
(* Promises of the documentation that TLC refutes; see the README.          *)

\* "If the connection has an active transaction ... sends ROLLBACK to clean it up"
\* (mesh_pool_checkin): no idle connection is in a transaction.
IdleIsOutside == IdleSet \cap inTxn = {}

\* "Drains all idle connections ... Active connections will be closed when
\* checked in" (mesh_pool_close): once close has returned and no client is in
\* the middle of a call, no connection is left open at the server.
ClosedLeavesNothingOpen ==
    closer = "done" /\ (\A c \in Clients : pc[c] = "out") => live = {}

\* "Blocks with timeout if pool is exhausted" (mesh_pool_checkout): when every
\* client that can still notify is gone, none is blocked while the pool could
\* serve it.
BlockedOnlyIfExhausted ==
    (\E c \in Clients : pc[c] = "waiting") /\ (\A c \in Clients : pc[c] \in {"waiting", "out"})
        => closed \/ total_created >= MaxConns
=============================================================================
