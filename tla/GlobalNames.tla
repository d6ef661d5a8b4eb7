---------------------------- MODULE GlobalNames ----------------------------
(* Cluster-wide names (dist/global.rs and its callers): each node holds a  *)
(* replica, changes it first and tells the other node second, sends a      *)
(* snapshot over every new session, and forgets the names of a node whose  *)
(* session it has lost. Two nodes and the sessions between them.           *)
EXTENDS Naturals, Sequences

CONSTANTS Nodes,       \* two nodes
          Names,
          Pids,        \* local ids of processes, the same on both nodes
          MaxSessions, \* bound: the sessions that follow each other
          Unregistering, \* the nodes whose programs call Global.unregister
          MaxOps       \* bound: registrations and calls of unregister

ASSUME NodesAssumption == \E n, m \in Nodes : n # m /\ Nodes = {n, m}

ASSUME BoundsAssumption == MaxSessions \in Nat /\ MaxOps \in Nat

VARIABLES reg,     \* reg[n]: the replica of n, with its two reverse indexes
          session, \* session[n]: the session n has registered, or 0
          left,    \* left[n]: the last session n has taken out
          snap,    \* snap[n]: a snapshot taken and not yet sent
          tell,    \* tell[n]: what threads of n have changed and not yet told
          wire,    \* wire[s][n]: what n has written to session s
          alive,   \* alive[n]: the processes of n that run
          ops      \* calls so far

vars == <<reg, session, left, snap, tell, wire, alive, ops>>

NoEntry == <<>>
Sessions == 1..MaxSessions
Other(n) == CHOOSE m \in Nodes : m # n
Pid(id, local) == [node |-> id, local |-> local]   \* node 0: a process of this node
EmptyReg == [names |-> [x \in Names |-> NoEntry], pid_names |-> {}, node_names |-> {}]

register(r, x, pid, node) ==
    IF r.names[x] # NoEntry THEN r
    ELSE [names |-> [r.names EXCEPT ![x] = <<pid, node>>],
          pid_names |-> r.pid_names \cup {<<pid, x>>},
          node_names |-> r.node_names \cup {<<node, x>>}]

(* cleanup_process and cleanup_node drop the entry of their own index and  *)
(* clean the other one by way of the names it listed; unregister cleans    *)
(* both by way of the name.                                                *)
unregister(r, x) ==
    IF r.names[x] = NoEntry THEN r
    ELSE [names |-> [r.names EXCEPT ![x] = NoEntry],
          pid_names |-> r.pid_names \ {<<r.names[x][1], x>>},
          node_names |-> r.node_names \ {<<r.names[x][2], x>>}]

cleanup_process_KeepsNode(r, pid) ==
    LET gone == {x \in Names : <<pid, x>> \in r.pid_names}
    IN  [r EXCEPT !.names = [x \in Names |-> IF x \in gone THEN NoEntry ELSE r.names[x]],
                  !.pid_names = {e \in r.pid_names : e[1] # pid}]

cleanup_process(r, pid) ==
    LET gone == {x \in Names : <<pid, x>> \in r.pid_names}
    IN  [names |-> [x \in Names |-> IF x \in gone THEN NoEntry ELSE r.names[x]],
         pid_names |-> {e \in r.pid_names : e[1] # pid},
         node_names |-> r.node_names \ {<<r.names[x][2], x>> : x \in {y \in gone : r.names[y] # NoEntry}}]

cleanup_node(r, node) ==
    LET gone == {x \in Names : <<node, x>> \in r.node_names}
    IN  [names |-> [x \in Names |-> IF x \in gone THEN NoEntry ELSE r.names[x]],
         pid_names |-> r.pid_names \ {<<r.names[x][1], x>> : x \in {y \in gone : r.names[y] # NoEntry}},
         node_names |-> {e \in r.node_names : e[1] # node}]

Qualify_Raw(pid, s) == pid

(* The reader gives a pid that is local to the sender the id of its own    *)
(* session; any other pid is taken as it came.                             *)
Qualify(pid, s) == IF pid.node = 0 THEN Pid(s, pid.local) ELSE pid

(* merge_snapshot skips the names that are registered.                     *)
merge_snapshot(r, entries, s) ==
    LET new == {e \in entries : r.names[e[1]] = NoEntry}
        Entry(x) == CHOOSE e \in new : e[1] = x
    IN  [names |-> [x \in Names |-> IF \E e \in new : e[1] = x
                                    THEN <<Qualify(Entry(x)[2], s), Entry(x)[3]>>
                                    ELSE r.names[x]],
         pid_names |-> r.pid_names \cup {<<Qualify(e[2], s), e[1]>> : e \in new},
         node_names |-> r.node_names \cup {<<e[3], e[1]>> : e \in new}]

snapshot(r) == {<<x, r.names[x][1], r.names[x][2]>> : x \in {y \in Names : r.names[y] # NoEntry}}

Init ==
    /\ reg = [n \in Nodes |-> EmptyReg]
    /\ session = [n \in Nodes |-> 0]
    /\ left = [n \in Nodes |-> 0]
    /\ snap = [n \in Nodes |-> <<>>]
    /\ tell = [n \in Nodes |-> {}]
    /\ wire = [s \in Sessions |-> [n \in Nodes |-> <<>>]]
    /\ alive = [n \in Nodes |-> Pids]
    /\ ops = 0

(* Any actor of n may register any process of n, and tells it after other  *)
(* actors have gone on.                                                    *)
GlobalRegister(n, x, p) ==
    /\ ops < MaxOps /\ p \in alive[n]
    /\ ops' = ops + 1
    /\ reg[n].names[x] = NoEntry
    /\ reg' = [reg EXCEPT ![n] = register(@, x, Pid(0, p), n)]
    /\ tell' = [tell EXCEPT ![n] = @ \cup {<<"register", x, Pid(0, p), n>>}]
    /\ UNCHANGED <<session, left, snap, wire, alive>>

GlobalUnregister(n, x) ==
    /\ n \in Unregistering /\ ops < MaxOps
    /\ ops' = ops + 1
    /\ reg[n].names[x] # NoEntry
    /\ reg' = [reg EXCEPT ![n] = unregister(@, x)]
    /\ tell' = [tell EXCEPT ![n] = @ \cup {<<"unregister", x>>}]
    /\ UNCHANGED <<session, left, snap, wire, alive>>

ProcessExits(n, p) ==
    /\ p \in alive[n]
    /\ alive' = [alive EXCEPT ![n] = @ \ {p}]
    /\ reg' = [reg EXCEPT ![n] = cleanup_process(@, Pid(0, p))]
    /\ tell' = [tell EXCEPT ![n] = @ \cup {<<"unregister", x>> :
                    x \in {y \in Names : <<Pid(0, p), y>> \in reg[n].pid_names}}]
    /\ UNCHANGED <<session, left, snap, wire, ops>>

(* A frame that n writes to s is lost when there is no session, or when    *)
(* the other end has left it.                                              *)
Written(n, s, m) ==
    IF s = 0 \/ left[Other(n)] >= s THEN wire ELSE [wire EXCEPT ![s][n] = Append(@, m)]

(* A broadcast goes to the sessions of the moment it is made.              *)
Broadcast(n, m) ==
    /\ m \in tell[n]
    /\ tell' = [tell EXCEPT ![n] = @ \ {m}]
    /\ wire' = Written(n, session[n], m)
    /\ UNCHANGED <<reg, session, left, snap, alive, ops>>

(* register_session, and the snapshot that send_global_sync takes and then *)
(* writes, unless it is empty.                                             *)
Join(n, s) ==
    /\ session[n] = 0 /\ s > left[n] /\ snap[n] = <<>>
    /\ session' = [session EXCEPT ![n] = s]
    /\ snap' = [snap EXCEPT ![n] = <<s, snapshot(reg[n])>>]
    /\ UNCHANGED <<reg, left, tell, wire, alive, ops>>

SendSync(n) ==
    /\ snap[n] # <<>>
    /\ snap' = [snap EXCEPT ![n] = <<>>]
    /\ wire' = IF snap[n][2] = {} THEN wire ELSE Written(n, snap[n][1], <<"sync", snap[n][2]>>)
    /\ UNCHANGED <<reg, session, left, tell, alive, ops>>

Read_Replaces(n, s) ==
    LET msg == Head(wire[s][Other(n)])
    IN  /\ session[n] = s /\ wire[s][Other(n)] # <<>>
        /\ wire' = [wire EXCEPT ![s][Other(n)] = Tail(@)]
        /\ reg' = [reg EXCEPT ![n] =
               CASE msg[1] = "register"   -> register(unregister(@, msg[2]), msg[2], Qualify(msg[3], s), msg[4])
                 [] msg[1] = "unregister" -> unregister(@, msg[2])
                 [] msg[1] = "sync"       -> merge_snapshot(@, msg[2], s)]
        /\ UNCHANGED <<session, left, snap, tell, alive, ops>>

(* The reader of session s at n takes the next frame.                      *)
Read(n, s) ==
    LET msg == Head(wire[s][Other(n)])
    IN  /\ session[n] = s /\ wire[s][Other(n)] # <<>>
        /\ wire' = [wire EXCEPT ![s][Other(n)] = Tail(@)]
        /\ reg' = [reg EXCEPT ![n] =
               CASE msg[1] = "register"   -> register(@, msg[2], Qualify(msg[3], s), msg[4])
                 [] msg[1] = "unregister" -> unregister(@, msg[2])
                 [] msg[1] = "sync"       -> merge_snapshot(@, msg[2], s)]
        /\ UNCHANGED <<session, left, snap, tell, alive, ops>>

(* cleanup_session_if_current takes the session out; the names of the node *)
(* are forgotten, by the name of the node, at the end of its disconnect.   *)
LoseSession(n) ==
    /\ session[n] # 0
    /\ session' = [session EXCEPT ![n] = 0]
    /\ left' = [left EXCEPT ![n] = session[n]]
    /\ tell' = [tell EXCEPT ![n] = @ \cup {<<"cleanup", session[n]>>}]
    /\ wire' = [wire EXCEPT ![session[n]][Other(n)] = <<>>]
    /\ UNCHANGED <<reg, snap, alive, ops>>

CleanupNames(n, s) ==
    /\ <<"cleanup", s>> \in tell[n]
    /\ reg' = [reg EXCEPT ![n] = cleanup_node(@, Other(n))]
    /\ tell' = [tell EXCEPT ![n] = (@ \ {<<"cleanup", s>>}) \cup
                    {<<"unregister", x>> : x \in {y \in Names : <<Other(n), y>> \in reg[n].node_names}}]
    /\ UNCHANGED <<session, left, snap, wire, alive, ops>>

Next ==
    \/ \E n \in Nodes :
          \/ \E x \in Names, p \in Pids : GlobalRegister(n, x, p)
          \/ \E x \in Names : GlobalUnregister(n, x)
          \/ \E p \in Pids : ProcessExits(n, p)
          \/ \E m \in tell[n] : m[1] # "cleanup" /\ Broadcast(n, m)
          \/ \E s \in Sessions : Join(n, s) \/ Read(n, s) \/ CleanupNames(n, s)
          \/ SendSync(n) \/ LoseSession(n)

Spec == Init /\ [][Next]_vars
-----------------------------------------------------------------------------
AnyPid == [node : {0} \cup Sessions, local : Pids]
Entries == {NoEntry} \cup (AnyPid \X Nodes)

Replica == [names : [Names -> Entries], pid_names : SUBSET (AnyPid \X Names),
            node_names : SUBSET (Nodes \X Names)]

TypeOK ==
    /\ reg \in [Nodes -> Replica]
    /\ {session, left} \subseteq [Nodes -> {0} \cup Sessions]
    /\ alive \in [Nodes -> SUBSET Pids]
    /\ ops \in 0..MaxOps

(* The two reverse indexes list exactly the names that are registered,     *)
(* under the process and the node they are registered for, whatever mix of *)
(* registrations, exits, disconnects and snapshots a replica has seen: the *)
(* cleanups rely on nothing else to find what they have to remove.         *)
IndexesAgree ==
    \A n \in Nodes :
        /\ reg[n].pid_names = {<<reg[n].names[x][1], x>> : x \in {y \in Names : reg[n].names[y] # NoEntry}}
        /\ reg[n].node_names = {<<reg[n].names[x][2], x>> : x \in {y \in Names : reg[n].names[y] # NoEntry}}

(* A name that belongs to another node never leads to a process of this    *)
(* one, along whichever message it arrived, although a node sends its own  *)
(* pids with node id 0.                                                    *)
RemoteNamesLeadAway ==
    \A n \in Nodes, x \in Names :
        reg[n].names[x] # NoEntry /\ reg[n].names[x][2] # n => reg[n].names[x][1].node # 0

(* GlobalRegistry: the replica of every node is in order.                  *)
NamesAgree == TypeOK /\ IndexesAgree /\ RemoteNamesLeadAway

(* The first registration of a name stands until it is removed: nobody     *)
(* takes a name over, neither by registering it nor by a snapshot.         *)
KeepsFirstWriter ==
    \A n \in Nodes, x \in Names :
        reg[n].names[x] # NoEntry => reg'[n].names[x] \in {NoEntry, reg[n].names[x]}

(* register, merge_snapshot: no step of any node does.                     *)
FirstWriterStands == [][KeepsFirstWriter]_vars
=============================================================================
