---------------------------- MODULE Supervisor ----------------------------
(* A supervisor and its children (actor/supervisor.rs): the exit of a      *)
(* child is looked up by its pid, counted against the restart limit, and   *)
(* answered by the strategy, child by child, while the children go on      *)
(* running and ending on the workers. What drives handle_child_exit is the *)
(* receive loop of the supervising process, which is not in the runtime.   *)
EXTENDS Naturals, Sequences, FiniteSets, SequencesExt

CONSTANTS Strategies,  \* the strategies tried
          Families,    \* the sequences of child specifications tried
          MaxRestarts, \* SupervisorState.max_restarts
          Window,      \* SupervisorState.max_seconds
          MaxPids,     \* bound: processes started
          MaxClock     \* bound on the clock

ChildSpecs == [type : {"permanent", "transient", "temporary"}, trap : BOOLEAN, remote : BOOLEAN]

ASSUME SupervisorAssumption ==
    /\ Strategies \subseteq {"one_for_one", "one_for_all", "rest_for_one"}
    /\ Families \subseteq Seq(ChildSpecs)
    /\ MaxRestarts \in Nat /\ Window \in Nat /\ MaxPids \in Nat /\ MaxClock \in Nat

VARIABLES strategy,
          children,  \* SupervisorState.children: specification, pid (0: None), running
          proc,      \* proc[p]: none, run, exited (Exited is stored) or gone (retired)
          linked,    \* the pids that are linked to the supervisor
          inbox,     \* exit signals in the mailbox of the supervisor
          todo,      \* what is left of the operation in hand
          history,   \* SupervisorState.restart_history
          clock,
          granted,   \* the times of all restarts the limit has let pass
          failing,   \* the child whose exit is in hand, or 0
          outcome,   \* ok, limit or start: why the last operation returned Err
          crashed    \* the pids that ended by themselves

supervisorVars == <<strategy, children, proc, linked, inbox, todo, history, clock, granted, failing, outcome, crashed>>

Started == 1..MaxPids
Indices == 1..Len(children)

(* terminate_children_range and start_children over first..last.           *)
Stops(first, last) == [k \in 1..(last + 1 - first) |-> <<"stop", last + 1 - k>>]
Starts(first, last) == [k \in 1..(last + 1 - first) |-> <<"start", first + k - 1, first>>]

SupervisorInit ==
    /\ strategy \in Strategies
    /\ \E specs \in Families :
          children = [i \in 1..Len(specs) |-> [spec |-> specs[i], pid |-> 0, running |-> FALSE]]
    /\ proc = [p \in Started |-> "none"]
    /\ linked = {} /\ inbox = <<>> /\ history = <<>> /\ granted = <<>>
    /\ todo = Starts(1, Len(children))
    /\ clock = 0 /\ failing = 0 /\ outcome = "ok" /\ crashed = {}

Proceed(steps) == todo' = steps \o Tail(todo)

(* start_single_child: the process runs before it is linked.               *)
SpawnChild ==
    /\ todo # <<>> /\ todo[1][1] = "start"
    /\ \E p \in Started :
          /\ proc[p] = "none" /\ \A q \in Started : proc[q] = "none" => q >= p
          /\ proc' = [proc EXCEPT ![p] = "run"]
          /\ Proceed(<<<<"link", todo[1][2], p>>>>)
    /\ UNCHANGED <<strategy, children, linked, inbox, history, clock, granted, failing, outcome, crashed>>

LinkChild_Unlinked ==
    /\ todo # <<>> /\ todo[1][1] = "link"
    /\ children' = [children EXCEPT ![todo[1][2]].pid = todo[1][3], ![todo[1][2]].running = TRUE]
    /\ Proceed(<<>>)
    /\ UNCHANGED <<strategy, proc, linked, inbox, history, clock, granted, failing, outcome, crashed>>

LinkChild ==
    LET i == todo[1][2]
        p == todo[1][3]
    IN  /\ todo # <<>> /\ todo[1][1] = "link"
        /\ linked' = linked \cup {p}
        /\ children' = [children EXCEPT ![i].pid = p, ![i].running = TRUE]
        /\ Proceed(<<>>)
        /\ UNCHANGED <<strategy, proc, inbox, history, clock, granted, failing, outcome, crashed>>

(* Only a remote child can fail to start. What this batch has started is   *)
(* terminated, and the operation returns Err.                              *)
StartFails ==
    LET i == todo[1][2]
    IN  /\ todo # <<>> /\ todo[1][1] = "start" /\ children[i].spec.remote
        /\ todo' = Stops(todo[1][3], i - 1) \o <<<<"fail", "start">>>>
        /\ UNCHANGED <<strategy, children, proc, linked, inbox, history, clock, granted, failing, outcome, crashed>>

(* terminate_single_child up to its wait. A remote child is sent its exit  *)
(* signal and forgotten.                                                   *)
StopChild ==
    LET i == todo[1][2]
        c == children[i]
    IN  /\ todo # <<>> /\ todo[1][1] = "stop"
        /\ \/ /\ ~c.running
              /\ Proceed(<<>>) /\ UNCHANGED <<children, proc>>
           \/ /\ c.running /\ c.spec.remote
              /\ proc' = IF proc[c.pid] = "run" THEN [proc EXCEPT ![c.pid] = "exited"] ELSE proc
              /\ children' = [children EXCEPT ![i].pid = 0, ![i].running = FALSE]
              /\ Proceed(<<>>)
           \/ /\ c.running /\ ~c.spec.remote /\ ~c.spec.trap
              /\ proc' = IF proc[c.pid] = "run" THEN [proc EXCEPT ![c.pid] = "exited"] ELSE proc
              /\ Proceed(<<<<"unlink", i>>>>) /\ UNCHANGED children
           \/ /\ c.running /\ ~c.spec.remote /\ c.spec.trap
              /\ Proceed(<<<<"wait", i>>>>) /\ UNCHANGED <<children, proc>>
        /\ UNCHANGED <<strategy, linked, inbox, history, clock, granted, failing, outcome, crashed>>

(* The child has ended, or the deadline passes and it is killed.           *)
WaitChild ==
    LET p == children[todo[1][2]].pid
    IN  /\ todo # <<>> /\ todo[1][1] = "wait"
        /\ proc' = IF proc[p] = "run" THEN [proc EXCEPT ![p] = "exited"] ELSE proc
        /\ Proceed(<<<<"unlink", todo[1][2]>>>>)
        /\ UNCHANGED <<strategy, children, linked, inbox, history, clock, granted, failing, outcome, crashed>>

UnlinkChild ==
    LET i == todo[1][2]
    IN  /\ todo # <<>> /\ todo[1][1] = "unlink"
        /\ linked' = linked \ {children[i].pid}
        /\ children' = [children EXCEPT ![i].pid = 0, ![i].running = FALSE]
        /\ Proceed(<<>>)
        /\ UNCHANGED <<strategy, proc, inbox, history, clock, granted, failing, outcome, crashed>>

(* mesh_supervisor_terminate_child takes the child out of the list.        *)
RemoveChild ==
    /\ todo # <<>> /\ todo[1][1] = "remove"
    /\ children' = RemoveAt(children, todo[1][2])
    /\ Proceed(<<>>)
    /\ UNCHANGED <<strategy, proc, linked, inbox, history, clock, granted, failing, outcome, crashed>>

Fail ==
    /\ todo # <<>> /\ todo[1][1] = "fail"
    /\ outcome' = todo[1][2] /\ Proceed(<<>>)
    /\ UNCHANGED <<strategy, children, proc, linked, inbox, history, clock, granted, failing, crashed>>
-----------------------------------------------------------------------------
FirstOf(S) == CHOOSE k \in S : \A j \in S : k <= j

Recent_HalfOpen ==
    LET Fresh == {k \in 1..Len(history) + 1 : k <= Len(history) => clock - history[k] < Window}
    IN  SubSeq(history, FirstOf(Fresh), Len(history))

(* check_restart_limit: the history without what is older than the window  *)
(* at its front.                                                           *)
Recent ==
    LET Fresh == {k \in 1..Len(history) + 1 : k <= Len(history) => clock - history[k] <= Window}
    IN  SubSeq(history, FirstOf(Fresh), Len(history))

ShouldRestart(type, reason) == type = "permanent" \/ (type = "transient" /\ reason = "crash")

apply_strategy_NoStop(i) ==
    IF strategy = "one_for_one" THEN <<<<"start", i, i>>>> ELSE Starts(1, Len(children))

apply_strategy_RestIsAll(i) ==
    IF strategy = "one_for_one" THEN <<<<"start", i, i>>>>
    ELSE Stops(1, Len(children)) \o Starts(1, Len(children))

apply_strategy(i) ==
    CASE strategy = "one_for_one"  -> <<<<"start", i, i>>>>
      [] strategy = "one_for_all"  -> Stops(1, Len(children)) \o Starts(1, Len(children))
      [] strategy = "rest_for_one" -> Stops(i, Len(children)) \o Starts(i, Len(children))

OnLimit_Rest(i) == Stops(i, Len(children)) \o <<<<"fail", "limit">>>>

OnLimit(i) == Stops(1, Len(children)) \o <<<<"fail", "limit">>>>

HandleChildExit ==
    LET pid == inbox[1][1]
        i == CHOOSE j \in Indices : children[j].pid = pid
        type == children[i].spec.type
    IN  /\ todo = <<>> /\ outcome = "ok" /\ inbox # <<>>
        /\ inbox' = Tail(inbox)
        /\ IF \A j \in Indices : children[j].pid # pid
           THEN UNCHANGED <<children, todo, history, granted, failing>>
           ELSE /\ failing' = i
                /\ children' = IF type = "temporary" THEN RemoveAt(children, i)
                               ELSE [children EXCEPT ![i].pid = 0, ![i].running = FALSE]
                /\ IF ~ShouldRestart(type, inbox[1][2])
                   THEN UNCHANGED <<todo, history, granted>>
                   ELSE IF Len(Recent) >= MaxRestarts
                   THEN /\ todo' = OnLimit(i)
                        /\ history' = Recent
                        /\ UNCHANGED granted
                   ELSE /\ todo' = apply_strategy(i)
                        /\ history' = Append(Recent, clock)
                        /\ granted' = Append(granted, clock)
        /\ UNCHANGED <<strategy, proc, linked, clock, outcome, crashed>>

(* mesh_supervisor_terminate_child, called by any actor.                   *)
TerminateChild(i) ==
    /\ todo = <<>> /\ outcome = "ok" /\ i \in Indices /\ children[i].pid # 0
    /\ failing' = i
    /\ todo' = <<<<"stop", i>>, <<"remove", i>>>>
    /\ UNCHANGED <<strategy, children, proc, linked, inbox, history, clock, granted, outcome, crashed>>

(* A child ends by itself; what was made to exit is retired by its worker, *)
(* and its exit counts as normal (scheduler.rs:440).                       *)
ChildEnds(p, reason) ==
    /\ \/ proc[p] = "run" /\ crashed' = crashed \cup {p}
       \/ proc[p] = "exited" /\ reason = "normal" /\ UNCHANGED crashed
    /\ proc' = [proc EXCEPT ![p] = "gone"]
    /\ linked' = linked \ {p}
    /\ inbox' = IF p \in linked THEN Append(inbox, <<p, reason>>) ELSE inbox
    /\ UNCHANGED <<strategy, children, todo, history, clock, granted, failing, outcome>>

Tick ==
    /\ clock < MaxClock /\ clock' = clock + 1
    /\ UNCHANGED <<strategy, children, proc, linked, inbox, todo, history, granted, failing, outcome, crashed>>

SupervisorNext ==
    \/ SpawnChild \/ LinkChild \/ StartFails \/ StopChild \/ WaitChild \/ UnlinkChild \/ RemoveChild \/ Fail
    \/ HandleChildExit \/ Tick
    \/ \E i \in Indices : TerminateChild(i)
    \/ \E p \in Started, reason \in {"normal", "crash"} : ChildEnds(p, reason)

SupervisorSpec == SupervisorInit /\ [][SupervisorNext]_supervisorVars
-----------------------------------------------------------------------------
ChildStates == [spec : ChildSpecs, pid : {0} \cup Started, running : BOOLEAN]

Steps ==
    ({"stop", "wait", "unlink", "remove"} \X Nat) \cup ({"start"} \X Nat \X Nat)
        \cup ({"link"} \X Nat \X Started) \cup ({"fail"} \X {"start", "limit"})

SupervisorTypeOK ==
    /\ strategy \in Strategies
    /\ children \in Seq(ChildStates)
    /\ proc \in [Started -> {"none", "run", "exited", "gone"}]
    /\ linked \subseteq Started /\ crashed \subseteq Started
    /\ inbox \in Seq(Started \X {"normal", "crash"}) /\ todo \in Seq(Steps)
    /\ history \in Seq(Nat) /\ granted \in Seq(Nat) /\ clock \in Nat /\ failing \in Nat
    /\ outcome \in {"ok", "limit", "start"}
    /\ Len(history) <= MaxRestarts

(* Between operations every process that runs is a child the supervisor    *)
(* knows as running, whatever ended while it was stopping and starting     *)
(* others: nothing is restarted beside a process that is still there.      *)
NoOrphan ==
    todo = <<>> => \A p \in Started : proc[p] = "run" =>
        \E i \in Indices : children[i].pid = p /\ children[i].running

(* A child that is thought to run and does not has told the supervisor,    *)
(* unless it ended before it was linked, which nothing tells.              *)
DeathIsHeard ==
    todo = <<>> => \A i \in Indices :
        LET p == children[i].pid
        IN  p # 0 /\ proc[p] = "gone" => p \in linked \/ \E k \in 1..Len(inbox) : inbox[k][1] = p

(* Never more than max_restarts restarts fall within max_seconds.          *)
RestartRate ==
    \A k \in 1..Len(granted) :
        k > MaxRestarts => granted[k] - granted[k - MaxRestarts] > Window

(* When the limit is exceeded no child is left running.                    *)
LimitStopsAll ==
    outcome = "limit" => \A p \in Started : proc[p] # "run"

(* A restart touches only the children the strategy names: none but the    *)
(* failed one under one_for_one, none before it under rest_for_one.        *)
StaysInScope ==
    failing # 0 /\ failing' = failing /\ outcome' # "limit" /\ Len(children') = Len(children)
    /\ (todo = <<>> \/ Last(todo) # <<"fail", "limit">>)
    => \A i \in Indices :
          /\ strategy = "one_for_one" /\ i # failing => children'[i] = children[i]
          /\ strategy = "rest_for_one" /\ i < failing => children'[i] = children[i]
-----------------------------------------------------------------------------
(* handle_child_exit, apply_strategy: between operations what runs is a      *)
(* child the supervisor knows, a child that ended has told it, restarts stay *)
(* within max_restarts in max_seconds, and beyond them nothing is left.      *)
ChildrenAreKept == SupervisorTypeOK /\ NoOrphan /\ DeathIsHeard /\ RestartRate /\ LimitStopsAll

(* apply_strategy: a restart touches only the children it names.             *)
StrategyScope == [][StaysInScope]_supervisorVars
=============================================================================
