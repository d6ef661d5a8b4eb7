---------------------------- MODULE ProcessExit ----------------------------
(***************************************************************************)
(* Links, monitors, exit signals and the end of a process in the Mesh      *)
(* runtime (compiler/mesh-rt/src/actor/link.rs, the exit, link, monitor    *)
(* and demonitor calls of actor/mod.rs, and handle_process_exit of         *)
(* actor/scheduler.rs), composed with the registry of names.               *)
(*                                                                         *)
(* Every process is protected by its own mutex, and no operation holds two *)
(* of them: a step is what happens under one lock.  Any two processes may  *)
(* be on two workers, so their steps interleave freely.  How a process is  *)
(* scheduled is in Scheduler; of its state only "live" (Ready, Running or  *)
(* Waiting) and "Exited" are told apart here.                              *)
(***************************************************************************)
EXTENDS Integers, Sequences, FiniteSets

CONSTANTS Pids,      \* the local processes
          NoPid,     \* no process
          Remote,    \* a process on another node
          Names,     \* the names of the registry
          Refs,      \* monitor references, issued in increasing order
          Programs,  \* sets of calls: the actors of a behaviour make those of one set
          MaxKills   \* bound on mesh_actor_exit

ASSUME PidsAssumption == NoPid \notin Pids /\ Remote \notin Pids \cup {NoPid}

ASSUME BoundsAssumption == /\ Refs \subseteq Nat \ {0}
                           /\ MaxKills \in Nat

ASSUME ProgramsAssumption ==
    Programs \subseteq SUBSET {"link", "trap", "monitor", "demonitor", "kill",
                              "remote", "register", "registerOther"}

VARIABLES
    state,         \* Process.state: "live" or "Exited"
    reason,        \* the reason inside Exited, "none" while live
    trap_exit,     \* Process.trap_exit
    links,         \* Process.links
    monitors,      \* Process.monitors: pairs <<ref, monitored>>
    monitored_by,  \* Process.monitored_by: pairs <<ref, monitoring>>
    mailbox,       \* the signals pushed to Process.mailbox, in order
    pc,            \* where each process is in a call, or in its end
    target,        \* the other process of that call
    ref,           \* its monitor reference
    linked_pids,   \* links still to be told by handle_process_exit
    down_entries,  \* monitors still to be told by handle_process_exit
    next_ref,      \* MONITOR_REF_COUNTER
    kills,         \* calls of mesh_actor_exit so far
    names, pid_names, removing, \* the registry of names
    ops            \* the calls the actors make, chosen once

registry == <<names, pid_names, removing>>
relation == <<links, monitors, monitored_by>>
call     == <<pc, target, ref>>
ending   == <<linked_pids, down_entries>>
counters == <<next_ref, kills>>
vars     == <<state, reason, trap_exit, mailbox, relation, call, ending, counters, registry, ops>>

Reg == INSTANCE Registry WITH Loose <- {}

Set(f, p, v) == [f EXCEPT ![p] = v]
Push(p, msg) == mailbox' = [mailbox EXCEPT ![p] = Append(@, msg)]
Goto(p, loc) == pc' = Set(pc, p, loc)

\* p begins a call about process q and monitor r, or returns from it.
Enter(p, loc, q, r) == Goto(p, loc) /\ target' = Set(target, p, q) /\ ref' = Set(ref, p, r)
Leave(p) == Enter(p, "body", NoPid, 0)

Init == /\ state = [p \in Pids |-> "live"]
        /\ reason = [p \in Pids |-> "none"]
        /\ trap_exit = [p \in Pids |-> FALSE]
        /\ links = [p \in Pids |-> {}]
        /\ monitors = [p \in Pids |-> {}]
        /\ monitored_by = [p \in Pids |-> {}]
        /\ mailbox = [p \in Pids |-> <<>>]
        /\ pc = [p \in Pids |-> "body"]
        /\ target = [p \in Pids |-> NoPid]
        /\ ref = [p \in Pids |-> 0]
        /\ linked_pids = [p \in Pids |-> {}]
        /\ down_entries = [p \in Pids |-> {}]
        /\ next_ref = 1
        /\ kills = 0
        /\ Reg!RegistryInit
        /\ ops \in Programs

\* p runs its own code; whether it is marked Exited makes no difference.
Runs(p) == pc[p] = "body"

-----------------------------------------------------------------------------
\* mesh_actor_link, local: the caller's set under its lock ...
Link(p, q) == /\ "link" \in ops
              /\ Runs(p)
              /\ links' = [links EXCEPT ![p] = @ \cup {q}]
              /\ Enter(p, "linking", q, 0)
              /\ UNCHANGED <<state, reason, trap_exit, mailbox, monitors, monitored_by,
                             ending, counters, registry>>

\* Mutant: the target's side is left out.
LinkTarget_OneSided(p) == /\ pc[p] = "linking"
                          /\ Leave(p)
                          /\ UNCHANGED <<state, reason, trap_exit, mailbox, relation,
                                         ending, counters, registry>>

\* ... then the target's under its own, whatever has become of it.
LinkTarget(p) == /\ pc[p] = "linking"
                 /\ links' = [links EXCEPT ![target[p]] = @ \cup {p}]
                 /\ Leave(p)
                 /\ UNCHANGED <<state, reason, trap_exit, mailbox, monitors, monitored_by,
                                ending, counters, registry>>

\* mesh_actor_link, remote: recorded here, DIST_LINK is sent.
LinkRemote(p) == /\ "remote" \in ops
                 /\ Runs(p)
                 /\ links' = [links EXCEPT ![p] = @ \cup {Remote}]
                 /\ UNCHANGED <<state, reason, trap_exit, mailbox, monitors, monitored_by,
                                call, ending, counters, registry>>

\* mesh_actor_trap_exit.
TrapExit(p) == /\ "trap" \in ops
               /\ Runs(p)
               /\ trap_exit' = Set(trap_exit, p, TRUE)
               /\ UNCHANGED <<state, reason, mailbox, relation, call, ending, counters, registry>>

\* mesh_process_monitor: under the target's lock the monitor is registered, or
\* the target is found Exited.
Monitor(p, q) == /\ "monitor" \in ops
                 /\ Runs(p)
                 /\ next_ref \in Refs
                 /\ next_ref' = next_ref + 1
                 /\ IF state[q] = "Exited"
                    THEN Enter(p, "noproc", q, next_ref) /\ UNCHANGED monitored_by
                    ELSE /\ monitored_by' = [monitored_by EXCEPT ![q] = @ \cup {<<next_ref, p>>}]
                         /\ Enter(p, "monitoring", q, next_ref)
                 /\ UNCHANGED <<state, reason, trap_exit, mailbox, links, monitors,
                                ending, kills, registry>>

\* Then the caller's side, under its own lock ...
MonitorRecord(p) == /\ pc[p] = "monitoring"
                    /\ monitors' = [monitors EXCEPT ![p] = @ \cup {<<ref[p], target[p]>>}]
                    /\ Leave(p)
                    /\ UNCHANGED <<state, reason, trap_exit, mailbox, links, monitored_by,
                                   ending, counters, registry>>

\* Mutant: the DOWN of a process that is Exited already says Normal.
MonitorNoproc_Normal(p) == /\ pc[p] = "noproc"
                           /\ Push(p, [tag |-> "DOWN", ref |-> ref[p], pid |-> target[p],
                                       reason |-> "Normal"])
                           /\ Leave(p)
                           /\ UNCHANGED <<state, reason, trap_exit, relation,
                                          ending, counters, registry>>

\* ... or deliver_down_immediately.
MonitorNoproc(p) == /\ pc[p] = "noproc"
                    /\ Push(p, [tag |-> "DOWN", ref |-> ref[p], pid |-> target[p],
                                reason |-> "noproc"])
                    /\ Leave(p)
                    /\ UNCHANGED <<state, reason, trap_exit, relation,
                                   ending, counters, registry>>

\* mesh_process_demonitor: the caller's map gives the monitored process ...
Demonitor(p) == /\ "demonitor" \in ops
                /\ Runs(p)
                /\ \E m \in monitors[p] :
                     /\ monitors' = [monitors EXCEPT ![p] = @ \ {m}]
                     /\ Enter(p, "demonitoring", m[2], m[1])
                /\ UNCHANGED <<state, reason, trap_exit, mailbox, links, monitored_by,
                               ending, counters, registry>>

\* ... whose map is cleared next.
DemonitorTarget(p) ==
    /\ pc[p] = "demonitoring"
    /\ monitored_by' = [monitored_by EXCEPT ![target[p]] = @ \ {<<ref[p], p>>}]
    /\ Leave(p)
    /\ UNCHANGED <<state, reason, trap_exit, mailbox, links, monitors,
                   ending, counters, registry>>

\* mesh_actor_register and mesh_process_register: the latter takes any process.
RegisterName(p) == /\ Runs(p)
                   /\ \E n \in Names, q \in Pids :
                        /\ IF p = q THEN "register" \in ops ELSE "registerOther" \in ops
                        /\ Reg!Register(n, q)
                   /\ UNCHANGED <<state, reason, trap_exit, mailbox, relation, call,
                                  ending, counters>>

\* Mutant: Killed can be trapped, and a trapped exit names the caller.
ActorExit_TrapsKilled(p, q, why) ==
    /\ "kill" \in ops
    /\ Runs(p)
    /\ kills < MaxKills
    /\ kills' = kills + 1
    /\ state[q] # "Exited"
    /\ IF trap_exit[q]
       THEN /\ Push(q, [tag |-> "EXIT", ref |-> 0, pid |-> p, reason |-> why])
            /\ UNCHANGED <<state, reason>>
       ELSE /\ state' = Set(state, q, "Exited")
            /\ reason' = Set(reason, q, why)
            /\ UNCHANGED mailbox
    /\ UNCHANGED <<trap_exit, relation, call, ending, next_ref, registry>>

\* mesh_actor_exit: an Exited target is left alone; Killed cannot be trapped; a
\* trapped exit is a message that names the target itself.
ActorExit(p, q, why) ==
    /\ "kill" \in ops
    /\ Runs(p)
    /\ kills < MaxKills
    /\ kills' = kills + 1
    /\ state[q] # "Exited"
    /\ IF why # "Killed" /\ trap_exit[q]
       THEN /\ Push(q, [tag |-> "EXIT", ref |-> 0, pid |-> q, reason |-> why])
            /\ UNCHANGED <<state, reason>>
       ELSE /\ state' = Set(state, q, "Exited")
            /\ reason' = Set(reason, q, why)
            /\ UNCHANGED mailbox
    /\ UNCHANGED <<trap_exit, relation, call, ending, next_ref, registry>>

\* The worker resumes a suspended coroutine whatever its state, and marks it
\* Ready when it yields again.
Yield(p) == /\ Runs(p)
            /\ state[p] = "Exited"
            /\ state' = Set(state, p, "live")
            /\ reason' = Set(reason, p, "none")
            /\ UNCHANGED <<trap_exit, mailbox, relation, call, ending, counters, registry>>

-----------------------------------------------------------------------------
\* Mutant: a normal end is not worth a message.
SignalLinked_CrashesOnly(from, why, q) ==
    IF state[q] = "Exited"
    THEN UNCHANGED <<state, reason, links, mailbox>>
    ELSE /\ links' = [links EXCEPT ![q] = @ \ {from}]
         /\ CASE why \in {"Normal", "Shutdown"} -> UNCHANGED <<state, reason, mailbox>>
              [] why \notin {"Normal", "Shutdown"} /\ trap_exit[q] ->
                   /\ Push(q, [tag |-> "EXIT", ref |-> 0, pid |-> from, reason |-> why])
                   /\ UNCHANGED <<state, reason>>
              [] OTHER -> /\ state' = Set(state, q, "Exited")
                          /\ reason' = Set(reason, q, "Linked")
                          /\ UNCHANGED mailbox

\* What the end of process `from` does to a linked process q, under q's lock.
SignalLinked(from, why, q) ==
    IF state[q] = "Exited"
    THEN UNCHANGED <<state, reason, links, mailbox>>
    ELSE /\ links' = [links EXCEPT ![q] = @ \ {from}]
         /\ IF why \in {"Normal", "Shutdown"} \/ trap_exit[q]
            THEN /\ Push(q, [tag |-> "EXIT", ref |-> 0, pid |-> from, reason |-> why])
                 /\ UNCHANGED <<state, reason>>
            ELSE /\ state' = Set(state, q, "Exited")
                 /\ reason' = Set(reason, q, "Linked")
                 /\ UNCHANGED mailbox

\* DIST_EXIT arrives from the node of a linked remote process, which ends once.
RemoteExit(q, why) == /\ Remote \in links[q]
                      /\ \A i \in DOMAIN mailbox[q] : mailbox[q][i].pid # Remote
                      /\ SignalLinked(Remote, why, q)
                      /\ UNCHANGED <<trap_exit, monitors, monitored_by, call, ending,
                                     counters, registry>>

\* Mutant: monitored_by is cloned, and not emptied.
Return_ClonesMonitors(p) ==
    /\ Runs(p)
    /\ linked_pids' = Set(linked_pids, p, links[p] \ {Remote})
    /\ down_entries' = Set(down_entries, p, monitored_by[p])
    /\ links' = Set(links, p, {})
    /\ Goto(p, "propagate")
    /\ UNCHANGED <<state, reason, trap_exit, mailbox, monitors, monitored_by, target, ref,
                   counters, registry>>

\* Mutant: only the links are taken along.
Return_LinksOnly(p) ==
    /\ Runs(p)
    /\ linked_pids' = Set(linked_pids, p, links[p] \ {Remote})
    /\ links' = Set(links, p, {})
    /\ monitored_by' = Set(monitored_by, p, {})
    /\ Goto(p, "propagate")
    /\ UNCHANGED <<state, reason, trap_exit, mailbox, monitors, down_entries, target, ref,
                   counters, registry>>

\* The coroutine returns: handle_process_exit takes the links and the monitors
\* of the process under its lock, and releases it.
Return(p) == /\ Runs(p)
             /\ linked_pids' = Set(linked_pids, p, links[p] \ {Remote})
             /\ down_entries' = Set(down_entries, p, monitored_by[p])
             /\ links' = Set(links, p, {})
             /\ monitored_by' = Set(monitored_by, p, {})
             /\ Goto(p, "propagate")
             /\ UNCHANGED <<state, reason, trap_exit, mailbox, monitors, target, ref,
                            counters, registry>>

\* propagate_exit, one linked process at a time; the worker always passes
\* ExitReason::Normal.
PropagateExit(p) == /\ pc[p] = "propagate"
                    /\ \E q \in linked_pids[p] :
                         /\ linked_pids' = [linked_pids EXCEPT ![p] = @ \ {q}]
                         /\ SignalLinked(p, "Normal", q)
                    /\ UNCHANGED <<trap_exit, monitors, monitored_by, call, down_entries,
                                   counters, registry>>

\* DOWN to the monitoring processes, one at a time, Exited or not.
DeliverDown(p) == /\ pc[p] = "propagate"
                  /\ linked_pids[p] = {}
                  /\ \E d \in down_entries[p] :
                       /\ down_entries' = [down_entries EXCEPT ![p] = @ \ {d}]
                       /\ monitors' = [monitors EXCEPT ![d[2]] = {m \in @ : m[1] # d[1]}]
                       /\ Push(d[2], [tag |-> "DOWN", ref |-> d[1], pid |-> p, reason |-> "Normal"])
                  /\ UNCHANGED <<state, reason, trap_exit, links, monitored_by, call,
                                 linked_pids, counters, registry>>

\* The names, in the two steps of the registry.
TakeNames(p) == /\ pc[p] = "propagate"
                /\ linked_pids[p] = {} /\ down_entries[p] = {}
                /\ Reg!CleanupTake(p)
                /\ Goto(p, "names")
                /\ UNCHANGED <<state, reason, trap_exit, mailbox, relation, target, ref,
                               ending, counters>>

\* Mutant: only the index is cleaned up.
RemoveNames_IndexOnly(p) == /\ pc[p] = "names"
                            /\ Goto(p, "mark")
                            /\ UNCHANGED <<state, reason, trap_exit, mailbox, relation, target,
                                           ref, ending, counters, registry>>

RemoveNames(p) == /\ pc[p] = "names"
                  /\ Reg!CleanupRemove(p)
                  /\ Goto(p, "mark")
                  /\ UNCHANGED <<state, reason, trap_exit, mailbox, relation, target, ref,
                                 ending, counters>>

\* Only now is the process marked Exited.
MarkExited(p) == /\ pc[p] = "mark"
                 /\ state' = Set(state, p, "Exited")
                 /\ reason' = Set(reason, p, "Normal")
                 /\ Goto(p, "gone")
                 /\ UNCHANGED <<trap_exit, mailbox, relation, target, ref, ending,
                                counters, registry>>

-----------------------------------------------------------------------------
Calls(p) == \/ \E q \in Pids : Link(p, q) \/ Monitor(p, q)
            \/ \E q \in Pids, why \in {"Killed", "Error"} : ActorExit(p, q, why)
            \/ LinkRemote(p) \/ TrapExit(p) \/ Demonitor(p) \/ RegisterName(p)

Continues(p) == LinkTarget(p) \/ MonitorRecord(p) \/ MonitorNoproc(p) \/ DemonitorTarget(p)

Ends(p) == \/ PropagateExit(p) \/ DeliverDown(p)
           \/ TakeNames(p) \/ RemoveNames(p) \/ MarkExited(p)

Others == \/ \E p \in Pids : Calls(p) \/ Yield(p) \/ Return(p)
          \/ \E q \in Pids, why \in {"Normal", "Error"} : RemoteExit(q, why)

\* A call that has begun goes on, or the end of a process does.
Carry(p) == (Continues(p) \/ Ends(p)) /\ UNCHANGED ops

Next == (\E p \in Pids : Carry(p)) \/ (Others /\ UNCHANGED ops)

Spec == Init /\ [][Next]_vars

\* A worker carries a call of the runtime and the end of a process through.
\* Nothing obliges an actor to return.
FairSpec == Spec /\ \A p \in Pids : WF_vars(Carry(p))

-----------------------------------------------------------------------------
\* The type of every variable.
Signals == [tag : {"EXIT", "DOWN"}, ref : Refs \cup {0}, pid : Pids \cup {Remote},
            reason : {"Normal", "Error", "noproc"}]

TypeOK == /\ state \in [Pids -> {"live", "Exited"}]
          /\ reason \in [Pids -> {"none", "Normal", "Error", "Killed", "Linked"}]
          /\ trap_exit \in [Pids -> BOOLEAN]
          /\ links \in [Pids -> SUBSET (Pids \cup {Remote})]
          /\ monitors \in [Pids -> SUBSET (Refs \X Pids)]
          /\ monitored_by \in [Pids -> SUBSET (Refs \X Pids)]
          /\ mailbox \in [Pids -> Seq(Signals)]
          /\ pc \in [Pids -> {"body", "linking", "monitoring", "noproc", "demonitoring",
                              "propagate", "names", "mark", "gone"}]
          /\ target \in [Pids -> Pids \cup {NoPid}]
          /\ ref \in [Pids -> Refs \cup {0}]
          /\ linked_pids \in [Pids -> SUBSET Pids]
          /\ down_entries \in [Pids -> SUBSET (Refs \X Pids)]
          /\ next_ref \in Nat
          /\ kills \in Nat
          /\ Reg!RegistryTypeOK
          /\ ops \in Programs

Received(p) == {mailbox[p][i] : i \in DOMAIN mailbox[p]}
Downs(p, r) == {i \in DOMAIN mailbox[p] : mailbox[p][i].tag = "DOWN" /\ mailbox[p][i].ref = r}
ExitsFrom(p, q) == {i \in DOMAIN mailbox[p] : /\ mailbox[p][i].tag = "EXIT"
                                              /\ mailbox[p][i].pid = q}

\* A reference stands for one monitor: at most one process is ever told about
\* it, at most once, and once told it is not registered with anybody who could
\* tell it again.
DownAtMostOnce == \A r \in Refs :
    /\ \A p \in Pids : Cardinality(Downs(p, r)) <= 1
    /\ \A p, q \in Pids : Downs(p, r) # {} /\ Downs(q, r) # {} => p = q
    /\ \A p, q \in Pids : Downs(p, r) # {} => <<r, p>> \notin monitored_by[q] \cup down_entries[q]

\* The phases of handle_process_exit, and what comes after it.
Ended(p) == pc[p] \in {"propagate", "names", "mark", "gone"}

\* Links have two sides: between two processes that have not returned yet, one
\* has the other in its set and not the reverse only while its own link call
\* is between the two locks.
LinkSymmetric == \A p, q \in Pids :
    ~Ended(p) /\ ~Ended(q) /\ q \in links[p] /\ p \notin links[q]
        => pc[p] = "linking" /\ target[p] = q

\* Whoever is told that a process ended is told so by its end, and not before:
\* an exit signal or a DOWN other than noproc comes from a process that has
\* returned.
ToldByTheEnd == \A p, q \in Pids :
    /\ p # q /\ ExitsFrom(p, q) # {} => Ended(q)
    /\ \A m \in Received(p) : m.tag = "DOWN" /\ m.pid = q /\ m.reason # "noproc" => Ended(q)

\* A monitor that its target knows of is not forgotten when the target returns:
\* DOWN arrives, unless the caller is taking the monitor back.
MonitorFires == \A p, q \in Pids, r \in Refs :
    []( <<r, p>> \in monitored_by[q] /\ Runs(q) /\ <>Ended(q)
           => <>(Downs(p, r) # {} \/ (pc[p] = "demonitoring" /\ ref[p] = r)) )

\* A link that a process has is not forgotten when it returns: the linked
\* process gets its exit signal, unless it is Exited itself.
LinkFires == \A p, q \in Pids :
    []( q \in links[p] /\ Runs(p) /\ <>Ended(p)
           => <>(ExitsFrom(q, p) # {} \/ state[q] = "Exited") )

\* handle_process_exit: who linked or monitored in time hears of the end.
WatchersHear == MonitorFires /\ LinkFires

\* handle_process_exit: signals and DOWN messages come from ends, once, and
\* links have two sides, whatever runs between the locks.
EndsAreTold == TypeOK /\ LinkSymmetric /\ ToldByTheEnd /\ DownAtMostOnce

\* handle_process_exit, cleanup_process: before a process is marked Exited every
\* name is free that was its own when the cleanup took its index entry, whatever
\* others register between the two locks; what it leaves behind is only what
\* somebody registered for it since, and that is in a new index entry.
NamesAreFreed == \A p \in Pids : pc[p] \in {"mark", "gone"} =>
    \A n \in Names : names[n] = p => n \in pid_names[p]

-----------------------------------------------------------------------------
(* Promises of the documentation that TLC refutes; see the README.          *)

\* "When a process exits, all its registered names are automatically cleaned
\* up" (the registry's module documentation): no name stands for a process that
\* is gone.  mesh_process_register takes any process, so one does.
NoNameOfTheDead == \A n \in Names : names[n] # NoPid => pc[names[n]] # "gone"

\* "When the target process exits, the caller receives a DOWN message"
\* (mesh_process_monitor): a target that is gone knows of no monitor that has
\* not been told.
NoOrphanMonitor == \A p \in Pids : pc[p] = "gone" => monitored_by[p] = {}

\* "When either actor terminates, the other receives an exit signal"
\* (mesh_actor_link): when a process is gone, every live process whose link
\* call has returned has its signal, or is not linked to it any more.
NoOrphanLink == \A p, q \in Pids :
    pc[p] = "gone" /\ pc[q] = "body" /\ p \in links[q] => ExitsFrom(q, p) # {}

\* "A DOWN message containing the monitor reference, the monitored PID, and the
\* exit reason" (mesh_process_monitor): a process that was killed and ends is
\* reported with the reason in its state.
DownCarriesReason == \A p, q \in Pids : \A m \in Received(p) :
    m.tag = "DOWN" /\ m.pid = q /\ pc[q] = "propagate" /\ state[q] = "Exited"
        => m.reason \in {reason[q], "noproc"}
=============================================================================
