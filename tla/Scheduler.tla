----------------------------- MODULE Scheduler -----------------------------
(***************************************************************************)
(* The M:N actor scheduler of the Mesh runtime and the blocking receive    *)
(* that cooperates with it (compiler/mesh-rt/src/actor/scheduler.rs and    *)
(* actor/mod.rs).  Worker threads resume coroutines that are pinned to     *)
(* them; actors send, receive, kill and spawn; the main thread spawns,     *)
(* sends and finally signals shutdown.                                     *)
(*                                                                         *)
(* A step is what happens under one acquisition of a process's mutex, or   *)
(* one control decision of a worker or of a coroutine between two of them. *)
(* A mailbox is a FIFO queue of messages nobody here inspects, so only its *)
(* length is kept.  Links, monitors and names are in ProcessExit.          *)
(***************************************************************************)
EXTENDS Integers, Sequences, FiniteSets

CONSTANTS Actors,    \* processes, other than the one of the main thread
          Workers,   \* worker threads of the scheduler
          NoActor,   \* no current process on a worker
          Kinds,     \* the kinds of blocking receive the actors use
          Killing,   \* whether mesh_actor_exit is called
          MaxCalls   \* bound on the sends and the kills of a behaviour

ASSUME SetsAssumption == IsFiniteSet(Actors) /\ NoActor \notin Actors

\* A receive with an `after` clause; a plain one (timeout -1); and the one of
\* a service loop (timeout -1, and the generated code tests for null).
ASSUME KindsAssumption == Kinds \subseteq {"timed", "forever", "service"}

ASSUME BoundsAssumption == MaxCalls \in Nat /\ Killing \in BOOLEAN

VARIABLES
    state,         \* Process.state; "none" before spawn
    mailbox,       \* length of Process.mailbox
    pc,            \* where each coroutine is
    kind,          \* the kind of the receive a coroutine is blocked in
    late,          \* the deadline of that receive has passed
    injector,      \* spawn requests no worker has taken
    suspended,     \* suspended coroutines of each worker, next to visit first
    left,          \* how many of them this pass of phase 1 still has to visit
    running,       \* the coroutine each worker is executing
    wpc,           \* the phase each worker is in
    unseen,        \* processes a scan on this worker has still to look at
    shutdown,      \* Scheduler.shutdown
    active_count,  \* Scheduler.active_count
    calls          \* sends and kills so far

coroutines == <<pc, kind, late>>
worker     == <<suspended, left, running, wpc, unseen>>
global     == <<injector, shutdown, active_count, calls>>
vars       == <<state, mailbox, coroutines, worker, global>>

Spawned == {p \in Actors : state[p] # "none"}
Range2(s) == {s[i] : i \in DOMAIN s}
SetState(p, s) == state' = [state EXCEPT ![p] = s]
Goto(p, loc) == pc' = [pc EXCEPT ![p] = loc]
WGoto(w, loc) == wpc' = [wpc EXCEPT ![w] = loc]

Init == /\ state = [p \in Actors |-> "none"]
        /\ mailbox = [p \in Actors |-> 0]
        /\ pc = [p \in Actors |-> "body"]
        /\ kind = [p \in Actors |-> "none"]
        /\ late = [p \in Actors |-> FALSE]
        /\ injector = {}
        /\ suspended = [w \in Workers |-> <<>>]
        /\ left = [w \in Workers |-> 0]
        /\ running = [w \in Workers |-> NoActor]
        /\ wpc = [w \in Workers |-> "resume"]
        /\ unseen = [w \in Workers |-> {}]
        /\ shutdown = FALSE
        /\ active_count = 0
        /\ calls = 0

-----------------------------------------------------------------------------
(* Operations any thread can call: they are bounded by MaxCalls.           *)

\* Scheduler::spawn: table entry in state Ready, counter, spawn request, and
\* no look at the shutdown flag.  Three atomic steps of one thread, merged at
\* the second: the entry alone only makes a worker go around once more, and a
\* request that is counted but not yet pushed is one nobody takes yet.
Spawn(p) == /\ state[p] = "none"
            /\ SetState(p, "Ready")
            /\ active_count' = active_count + 1
            /\ injector' = injector \cup {p}
            /\ UNCHANGED <<mailbox, coroutines, worker, shutdown, calls>>

\* local_send: push, and a Waiting target becomes Ready, under one lock.
LocalSend(q) == /\ calls < MaxCalls
                /\ calls' = calls + 1
                /\ q \in Spawned
                /\ mailbox' = [mailbox EXCEPT ![q] = @ + 1]
                /\ IF state[q] = "Waiting" THEN SetState(q, "Ready") ELSE UNCHANGED state
                /\ UNCHANGED <<coroutines, worker, injector, shutdown, active_count>>

\* Mutant: the exit signal retires the process in the counter, too.
ActorExit_CountsDown(q) == /\ Killing
                           /\ calls < MaxCalls
                           /\ calls' = calls + 1
                           /\ q \in Spawned /\ state[q] # "Exited"
                           /\ SetState(q, "Exited")
                           /\ active_count' = active_count - 1
                           /\ UNCHANGED <<mailbox, coroutines, worker, injector, shutdown>>

\* mesh_actor_exit with Killed, or with any reason when the target does not
\* trap exits.  (A trapped exit is a message, like LocalSend.)
ActorExit(q) == /\ Killing
                /\ calls < MaxCalls
                /\ calls' = calls + 1
                /\ q \in Spawned /\ state[q] # "Exited"
                /\ SetState(q, "Exited")
                /\ UNCHANGED <<mailbox, coroutines, worker, injector, shutdown, active_count>>

\* The main thread runs mesh_main; the threads that accept connections and the
\* readers of other nodes' frames spawn and send at any time, timers send.
MainSpawn == \E p \in Actors : Spawn(p)
OutsideSend == \E q \in Actors : LocalSend(q)

\* mesh_rt_run_scheduler, after mesh_main has returned.
SignalShutdown == /\ ~shutdown
                  /\ shutdown' = TRUE
                  /\ UNCHANGED <<state, mailbox, coroutines, worker, injector,
                                 active_count, calls>>

-----------------------------------------------------------------------------
(* Steps of the coroutine a worker is executing.                           *)

At(w, p, loc) == running[w] = p /\ p # NoActor /\ pc[p] = loc

ActorSpawn(w) == \E p, q \in Actors : At(w, p, "body") /\ Spawn(q)
ActorSend(w) == \E p, q \in Actors : At(w, p, "body") /\ LocalSend(q)
ActorKill(w) == \E p, q \in Actors : At(w, p, "body") /\ ActorExit(q)

\* mesh_actor_receive takes a message that is already there.
ReceiveNow(w) == \E p \in Actors :
    /\ At(w, p, "body")
    /\ mailbox[p] > 0
    /\ mailbox' = [mailbox EXCEPT ![p] = @ - 1]
    /\ UNCHANGED <<state, coroutines, worker, global>>

\* The mailbox was empty under the lock; the lock is released before the
\* process marks itself Waiting.
ReceiveEmpty(w) == \E p \in Actors :
    /\ At(w, p, "body")
    /\ mailbox[p] = 0
    /\ \E k \in Kinds : kind' = [kind EXCEPT ![p] = k]
    /\ Goto(p, "block")
    /\ UNCHANGED <<state, mailbox, late, worker, global>>

\* The head of the loop: state = Waiting, whatever it was.
SetWaiting(w) == \E p \in Actors :
    /\ At(w, p, "block")
    /\ SetState(p, "Waiting")
    /\ Goto(p, "parked")
    /\ UNCHANGED <<mailbox, kind, late, worker, global>>

\* After the resume: pop again.
RetryPop(w) == \E p \in Actors :
    /\ At(w, p, "resumed")
    /\ IF mailbox[p] > 0
       THEN /\ mailbox' = [mailbox EXCEPT ![p] = @ - 1]
            /\ Goto(p, "body")
            /\ kind' = [kind EXCEPT ![p] = "none"]
            /\ late' = [late EXCEPT ![p] = FALSE]
       ELSE Goto(p, "empty") /\ UNCHANGED <<mailbox, kind, late>>
    /\ UNCHANGED <<state, worker, global>>

\* What the caller does with a null: a timed receive runs its `after` clause,
\* a service loop returns, and the code generated for a plain receive loads
\* the message through the null pointer.
ReturnNull(p) == /\ Goto(p, CASE kind[p] = "timed"   -> "body"
                              [] kind[p] = "service" -> "ending"
                              [] kind[p] = "forever" -> "fault")
                 /\ SetState(p, "Ready")
                 /\ kind' = [kind EXCEPT ![p] = "none"]
                 /\ late' = [late EXCEPT ![p] = FALSE]

\* The deadline has passed: back to Ready, return null.
TimedOut(w) == \E p \in Actors :
    /\ At(w, p, "empty")
    /\ kind[p] = "timed" /\ late[p]
    /\ ReturnNull(p)
    /\ UNCHANGED <<mailbox, worker, global>>

\* No deadline passed, no shutdown: around the loop again.
BlockAgain(w) == \E p \in Actors :
    /\ At(w, p, "empty")
    /\ ~late[p]
    /\ ~shutdown
    /\ Goto(p, "block")
    /\ UNCHANGED <<state, mailbox, kind, late, worker, global>>

\* Under shutdown the process looks for another one that is neither Waiting
\* nor Exited, one table entry at a time ...
ScanOthers(w) == \E p \in Actors :
    /\ At(w, p, "empty")
    /\ ~late[p]
    /\ shutdown
    /\ unseen' = [unseen EXCEPT ![w] = Spawned \ {p}]
    /\ Goto(p, "scan")
    /\ UNCHANGED <<state, mailbox, kind, late, suspended, left, running, wpc, global>>

Idle(q) == state[q] \in {"Waiting", "Exited"}

ScanOther(w) == \E p \in Actors, q \in unseen[w] :
    /\ At(w, p, "scan")
    /\ IF Idle(q)
       THEN unseen' = [unseen EXCEPT ![w] = @ \ {q}] /\ UNCHANGED pc
       ELSE unseen' = [unseen EXCEPT ![w] = {}] /\ Goto(p, "block")
    /\ UNCHANGED <<state, mailbox, kind, late, suspended, left, running, wpc, global>>

\* ... and returns null if it saw none.
NoOthers(w) == \E p \in Actors :
    /\ At(w, p, "scan")
    /\ unseen[w] = {}
    /\ ReturnNull(p)
    /\ UNCHANGED <<mailbox, worker, global>>

\* A deadline passes, at any time.
Deadline(p) == /\ kind[p] = "timed"
               /\ ~late[p]
               /\ late' = [late EXCEPT ![p] = TRUE]
               /\ UNCHANGED <<state, mailbox, pc, kind, worker, global>>

-----------------------------------------------------------------------------
(* Steps of a worker thread.                                               *)

\* After the phase in which the coroutine ran: phase 1 goes on with the list,
\* phase 2 is followed by the shutdown check.
NextPhase(w) == WGoto(w, IF wpc[w] = "spawn" THEN "check" ELSE "resume")

\* Phase 1 leaves a Waiting process alone ...
SkipWaiting(w) ==
    /\ wpc[w] = "resume" /\ running[w] = NoActor /\ left[w] > 0
    /\ state[Head(suspended[w])] = "Waiting"
    /\ suspended' = [suspended EXCEPT ![w] = Append(Tail(@), Head(@))]
    /\ left' = [left EXCEPT ![w] = @ - 1]
    /\ UNCHANGED <<state, mailbox, coroutines, running, wpc, unseen, global>>

\* Mutant: only the coroutine's position is looked at, not the process state.
Resume_Waiting(w) ==
    /\ wpc[w] = "resume" /\ running[w] = NoActor /\ left[w] > 0
    /\ LET p == Head(suspended[w])
       IN  /\ running' = [running EXCEPT ![w] = p]
           /\ IF pc[p] = "parked" THEN Goto(p, "resumed") ELSE UNCHANGED pc
    /\ suspended' = [suspended EXCEPT ![w] = Tail(@)]
    /\ left' = [left EXCEPT ![w] = @ - 1]
    /\ UNCHANGED <<state, mailbox, kind, late, wpc, unseen, global>>

\* ... and resumes any other, whatever its state.
Resume(w) ==
    /\ wpc[w] = "resume" /\ running[w] = NoActor /\ left[w] > 0
    /\ LET p == Head(suspended[w])
       IN  /\ state[p] # "Waiting"
           /\ running' = [running EXCEPT ![w] = p]
           /\ IF pc[p] = "parked" THEN Goto(p, "resumed") ELSE UNCHANGED pc
    /\ suspended' = [suspended EXCEPT ![w] = Tail(@)]
    /\ left' = [left EXCEPT ![w] = @ - 1]
    /\ UNCHANGED <<state, mailbox, kind, late, wpc, unseen, global>>

\* Mutant: new requests are taken only when nothing is suspended.
EndResume_SuspendedFirst(w) ==
    /\ wpc[w] = "resume" /\ running[w] = NoActor /\ left[w] = 0
    /\ WGoto(w, IF suspended[w] = <<>> THEN "spawn" ELSE "check")
    /\ UNCHANGED <<state, mailbox, coroutines, suspended, left, running, unseen, global>>

EndResume(w) ==
    /\ wpc[w] = "resume" /\ running[w] = NoActor /\ left[w] = 0
    /\ WGoto(w, "spawn")
    /\ UNCHANGED <<state, mailbox, coroutines, suspended, left, running, unseen, global>>

\* Phase 2: a spawn request, from whichever queue it is in.
TakeRequest(w) ==
    /\ wpc[w] = "spawn" /\ running[w] = NoActor
    /\ \E p \in injector :
         /\ injector' = injector \ {p}
         /\ SetState(p, "Running")
         /\ running' = [running EXCEPT ![w] = p]
    /\ UNCHANGED <<mailbox, coroutines, suspended, left, wpc, unseen,
                   shutdown, active_count, calls>>

NoRequest(w) ==
    /\ wpc[w] = "spawn" /\ running[w] = NoActor
    /\ injector = {}
    /\ WGoto(w, "check")
    /\ UNCHANGED <<state, mailbox, coroutines, suspended, left, running, unseen, global>>

\* Mutant: a killed coroutine is thrown away when it yields.
Yield_DropsExited(w) == \E p \in Actors :
    /\ running[w] = p
    /\ pc[p] \in {"body", "parked"}
    /\ IF state[p] = "Exited"
       THEN UNCHANGED <<state, suspended>>
       ELSE /\ IF state[p] = "Waiting" THEN UNCHANGED state ELSE SetState(p, "Ready")
            /\ suspended' = [suspended EXCEPT ![w] = Append(@, p)]
    /\ running' = [running EXCEPT ![w] = NoActor]
    /\ NextPhase(w)
    /\ UNCHANGED <<mailbox, coroutines, left, unseen, global>>

\* The coroutine yields (in receive, at a reduction check, or in a sleep) and
\* the worker marks it Ready unless it is Waiting.
Yield(w) == \E p \in Actors :
    /\ running[w] = p
    /\ pc[p] \in {"body", "parked"}
    /\ IF state[p] = "Waiting" THEN UNCHANGED state ELSE SetState(p, "Ready")
    /\ suspended' = [suspended EXCEPT ![w] = Append(@, p)]
    /\ running' = [running EXCEPT ![w] = NoActor]
    /\ NextPhase(w)
    /\ UNCHANGED <<mailbox, coroutines, left, unseen, global>>

\* The actor function returns: handle_process_exit ...
Complete(w) == \E p \in Actors :
    /\ running[w] = p
    /\ pc[p] \in {"body", "ending"}
    /\ SetState(p, "Exited")
    /\ Goto(p, "done")
    /\ UNCHANGED <<mailbox, kind, late, worker, global>>

\* ... and then the counter.
Retire(w) == \E p \in Actors :
    /\ At(w, p, "done")
    /\ active_count' = active_count - 1
    /\ running' = [running EXCEPT ![w] = NoActor]
    /\ NextPhase(w)
    /\ UNCHANGED <<state, mailbox, coroutines, suspended, left, unseen,
                   injector, shutdown, calls>>

\* Phase 3, nothing to do: the next pass visits all suspended coroutines.
Pass(w) == /\ WGoto(w, "resume")
           /\ left' = [left EXCEPT ![w] = Len(suspended[w])]

NoShutdown(w) == /\ wpc[w] = "check"
                 /\ ~shutdown
                 /\ Pass(w)
                 /\ UNCHANGED <<state, mailbox, coroutines, suspended, running, unseen, global>>

\* Mutant: a worker stops when its own list is empty.
Stop_OwnListOnly(w) ==
    /\ wpc[w] = "check"
    /\ shutdown
    /\ suspended[w] = <<>>
    /\ WGoto(w, "stopped")
    /\ UNCHANGED <<state, mailbox, coroutines, suspended, left, running, unseen, global>>

Stop(w) == /\ wpc[w] = "check"
           /\ shutdown
           /\ active_count = 0
           /\ WGoto(w, "stopped")
           /\ UNCHANGED <<state, mailbox, coroutines, suspended, left, running, unseen, global>>

\* all_waiting: every coroutine suspended here is Waiting.  (Reading them one
\* after the other is no different: none becomes Waiting in between, because
\* only the coroutine itself does that, on this worker.)  Then has_ready looks
\* through the whole table, one entry at a time ...
CheckSuspended(w) ==
    /\ wpc[w] = "check"
    /\ shutdown
    /\ active_count > 0
    /\ IF suspended[w] # <<>> /\ \A p \in Range2(suspended[w]) : state[p] = "Waiting"
       THEN /\ WGoto(w, "scan")
            /\ unseen' = [unseen EXCEPT ![w] = Spawned]
            /\ UNCHANGED left
       ELSE Pass(w) /\ UNCHANGED unseen
    /\ UNCHANGED <<state, mailbox, coroutines, suspended, running, global>>

HasReady(w) ==
    /\ wpc[w] = "scan"
    /\ \E q \in unseen[w] :
         IF Idle(q)
         THEN /\ unseen' = [unseen EXCEPT ![w] = @ \ {q}]
              /\ UNCHANGED <<wpc, left>>
         ELSE /\ unseen' = [unseen EXCEPT ![w] = {}]
              /\ Pass(w)
    /\ UNCHANGED <<state, mailbox, coroutines, suspended, running, global>>

\* ... and if there is no Ready or Running process, the Waiting coroutines of
\* this worker are made Ready, one by one, so that they see the shutdown.
StartWake(w) ==
    /\ wpc[w] = "scan"
    /\ unseen[w] = {}
    /\ WGoto(w, "wake")
    /\ unseen' = [unseen EXCEPT ![w] = Range2(suspended[w])]
    /\ UNCHANGED <<state, mailbox, coroutines, suspended, left, running, global>>

\* Mutant: the processes are looked at and left as they are.
WakeSuspended_NoReady(w) ==
    /\ wpc[w] = "wake"
    /\ \E q \in unseen[w] : unseen' = [unseen EXCEPT ![w] = @ \ {q}]
    /\ UNCHANGED <<state, mailbox, coroutines, suspended, left, running, wpc, global>>

WakeSuspended(w) ==
    /\ wpc[w] = "wake"
    /\ \E q \in unseen[w] :
         /\ unseen' = [unseen EXCEPT ![w] = @ \ {q}]
         /\ IF state[q] = "Waiting" THEN SetState(q, "Ready") ELSE UNCHANGED state
    /\ UNCHANGED <<mailbox, coroutines, suspended, left, running, wpc, global>>

EndWake(w) ==
    /\ wpc[w] = "wake"
    /\ unseen[w] = {}
    /\ Pass(w)
    /\ UNCHANGED <<state, mailbox, coroutines, suspended, running, unseen, global>>

-----------------------------------------------------------------------------
\* What the program's own code does between its calls into the runtime.
Calls(w) == ActorSpawn(w) \/ ActorSend(w) \/ ActorKill(w)

\* The body reaches a receive or its end.
Settles(w, p) == running[w] = p /\ (ReceiveNow(w) \/ ReceiveEmpty(w) \/ Complete(w))

\* The steps of the runtime on a worker.
Runtime(w) == \/ SetWaiting(w) \/ RetryPop(w) \/ TimedOut(w) \/ BlockAgain(w)
              \/ ScanOthers(w) \/ ScanOther(w) \/ NoOthers(w)
              \/ SkipWaiting(w) \/ Resume(w) \/ EndResume(w) \/ TakeRequest(w)
              \/ NoRequest(w) \/ Yield(w) \/ Retire(w) \/ NoShutdown(w) \/ Stop(w)
              \/ CheckSuspended(w) \/ HasReady(w) \/ StartWake(w)
              \/ WakeSuspended(w) \/ EndWake(w)

Next == \/ MainSpawn \/ OutsideSend \/ SignalShutdown
        \/ \E p \in Actors : Deadline(p)
        \/ \E w \in Workers : Calls(w) \/ Runtime(w) \/ \E p \in Actors : Settles(w, p)

Spec == Init /\ [][Next]_vars

\* Worker threads keep running; an actor does not compute for ever between two
\* receives (it may yield in between any finite number of times); time passes.
\* Nothing obliges mesh_main to return.
Fairness == /\ \A w \in Workers : WF_vars(Runtime(w))
            /\ \A p \in Actors : /\ SF_vars(\E w \in Workers : Settles(w, p))
                                 /\ WF_vars(Deadline(p))

FairSpec == Spec /\ Fairness

-----------------------------------------------------------------------------
\* The type of every variable of the scheduler; active_count is an AtomicU64
\* that fetch_sub would wrap below zero.
TypeOK == /\ state \in [Actors -> {"none", "Ready", "Running", "Waiting", "Exited"}]
          /\ mailbox \in [Actors -> Nat]
          /\ pc \in [Actors -> {"body", "block", "parked", "resumed", "empty", "scan",
                             "ending", "fault", "done"}]
          /\ kind \in [Actors -> Kinds \cup {"none"}]
          /\ late \in [Actors -> BOOLEAN]
          /\ injector \in SUBSET Actors
          /\ suspended \in [Workers -> Seq(Actors)]
          /\ left \in [Workers -> Nat]
          /\ running \in [Workers -> Actors \cup {NoActor}]
          /\ wpc \in [Workers -> {"resume", "spawn", "check", "scan", "wake", "stopped"}]
          /\ unseen \in [Workers -> SUBSET Actors]
          /\ shutdown \in BOOLEAN
          /\ active_count \in Nat
          /\ calls \in Nat

\* Processes that were spawned and not yet retired.
Active == {p \in Spawned : ~(pc[p] = "done" /\ \A w \in Workers : running[w] # p)}

SuspendedOn(w) == Range2(suspended[w])

\* "Coroutines are pinned to their thread": every active process is in exactly
\* one place (a spawn request, the suspended list of one worker, once, or the
\* hands of one worker) and a retired one is nowhere, so no coroutine is ever
\* executed by two workers, executed twice after its end, or dropped.
OnePlace ==
    /\ \A w \in Workers : \A i, j \in DOMAIN suspended[w] :
          suspended[w][i] = suspended[w][j] => i = j
    /\ \A v, w \in Workers : v # w => SuspendedOn(v) \cap SuspendedOn(w) = {}
    /\ \A v, w \in Workers : v # w => running[v] # running[w] \/ running[v] = NoActor
    /\ \A v, w \in Workers : running[v] \notin SuspendedOn(w) \cup injector
    /\ \A w \in Workers : SuspendedOn(w) \cap injector = {}
    /\ Active = injector \cup (UNION {SuspendedOn(w) : w \in Workers})
                        \cup ({running[w] : w \in Workers} \ {NoActor})

\* active_count is the number of spawned processes not yet retired: the
\* condition under which every worker gives up its loop counts exactly the
\* coroutines that some worker still holds.
ActiveCountExact == active_count = Cardinality(Active)

\* A worker thread ends only when no process is left anywhere: no coroutine
\* dies unfinished with the thread it is pinned to, and no request that was
\* made before goes unanswered.  (One made afterwards may: nothing asks.)
Ends(w) == wpc[w] # "stopped" /\ wpc'[w] = "stopped"
StopOnlyWhenDone == [][\A w \in Workers : Ends(w) => shutdown /\ Active = {}]_vars

\* A worker that has stopped has nothing in its hands, now and for ever.
StoppedHoldsNothing == \A w \in Workers :
    wpc[w] = "stopped" => shutdown /\ suspended[w] = <<>> /\ running[w] = NoActor

\* A Waiting process is parked in its receive: whoever makes it Ready, by a
\* message or at shutdown, never does so under the feet of running code.
WaitingIsParked == \A p \in Actors : state[p] = "Waiting" => pc[p] = "parked"

AllStopped == \A w \in Workers : wpc[w] = "stopped"

\* A process woken at shutdown, until it waits again or ends.
Woken(w) == \E p \in Actors :
    \/ p \in SuspendedOn(w) /\ pc[p] = "parked" /\ state[p] = "Ready"
    \/ running[w] = p /\ pc[p] \in {"resumed", "empty", "scan", "block"}

\* Two workers have woken processes at the same time: each may be seen Ready
\* by the other, and both go back to Waiting.
InStep == shutdown /\ \E v, w \in Workers : v # w /\ Woken(v) /\ Woken(w)

\* Shutdown completes: once it is signalled every worker leaves its loop,
\* unless some actor makes timed receives for ever (their `after` clause keeps
\* it going), or the workers wake their processes in step for ever.
ShutdownCompletes ==
    (/\ <>[](\A p \in Actors : kind[p] # "timed")
     /\ <>[]~InStep)
        => (shutdown ~> AllStopped)

\* A spawned actor gets to run, unless it was spawned after the last worker
\* had left its loop.
SpawnedRuns == \A p \in Actors : p \in injector ~> (p \notin injector \/ AllStopped)

\* A Ready coroutine in a suspended list is resumed, however many others the
\* worker has to look after.
ReadyResumed == \A p \in Actors :
    (state[p] = "Ready" /\ \E w \in Workers : p \in SuspendedOn(w))
        ~> \E w \in Workers : running[w] = p

\* worker_loop: a spawned actor starts, and a ready one is resumed.
NobodyStarves == SpawnedRuns /\ ReadyResumed

\* Every coroutine is in one place, also while its state is overwritten by
\* others, and what waits is parked.
NothingIsLost == TypeOK /\ OnePlace /\ WaitingIsParked

\* active_count is the number of coroutines that have not ended, so a worker
\* stops only when there is none.
StopIsRight == [](ActiveCountExact /\ StoppedHoldsNothing) /\ StopOnlyWhenDone

-----------------------------------------------------------------------------
(* Promises of the documentation that TLC refutes; see the README.          *)

\* "When blocking, the actor yields to the scheduler (state = Waiting) and is
\* woken when a message is sent to its mailbox" (mesh_actor_receive): no
\* suspended process is Waiting with a message in its mailbox.
WokenByMessage == \A w \in Workers : \A p \in SuspendedOn(w) :
    state[p] = "Waiting" => mailbox[p] = 0

\* "... or the timeout expires" (mesh_actor_receive): a timed receive returns.
TimedReceiveReturns == \A p \in Actors : kind[p] = "timed" ~> kind[p] # "timed"

\* "The process is immediately terminated (untrappable)" (mesh_actor_exit): a
\* process that is Exited stays so.
ExitedIsFinal == [][\A p \in Actors : state[p] = "Exited" => state'[p] = "Exited"]_vars

\* "The runtime waits indefinitely (no null possible)" (codegen_actor_receive):
\* a receive without a timeout does not return null to code that loads it.
NoNullWithoutTimeout == \A p \in Actors : pc[p] # "fault"
=============================================================================
