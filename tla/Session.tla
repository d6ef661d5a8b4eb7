------------------------------ MODULE Session ------------------------------
(* Authenticated sessions between nodes (dist/node.rs): both ends of a     *)
(* connection finish the handshake, register it under the name of the      *)
(* other node, where duplicates are resolved by direction, run a reader    *)
(* and a heartbeat thread, and take the session out again when it fails.   *)
(* The loss of a session is told to the processes that monitor its pids    *)
(* and to the watchers of the node; its id routes pids while it lasts.     *)
(* A connection is known by its number, which is also the node id either   *)
(* end gives to the other: assign_node_id never gives one twice.           *)
EXTENDS Naturals, FiniteSets

CONSTANTS NodeNames,     \* names of nodes, ordered like the strings: numbers
          Dials,     \* pairs <<n, m>>: n calls Node.connect with the name of m
          MaxDials,  \* bound: connections 1..MaxDials are opened by programs
          MaxConns,  \* bound: the rest answers peer lists
          MaxCuts,   \* bound on connections cut by the network
          Monitoring \* the nodes whose programs monitor remote pids

(* What the constants have to be: names are ordered, and programs dial     *)
(* names of nodes.                                                         *)
ASSUME SessionAssumption ==
    /\ NodeNames \subseteq Nat /\ Dials \subseteq NodeNames \X NodeNames
    /\ MaxConns \in Nat /\ MaxDials \in 0..MaxConns

VARIABLES ends,      \* ends[c]: the pair <<initiator, acceptor>>, or <<>>
          stage,     \* stage[c][n]: how far the end of c at n has come
          shut,      \* shut[c][n]: NodeSession.shutdown
          prev,      \* prev[c][n]: the session that c replaced at n, or 0
          sessions,  \* sessions[n][m]: NodeState.sessions, 0 when absent
          idmap,     \* idmap[n]: the ids in NodeState.node_id_map
          cut,       \* connections the network has cut
          lists,     \* lists[c][n]: a peer list on its way from n along c
          want,      \* want[n]: peers a thread of n is about to connect to
          mon,       \* mon[n]: ids of the remote pids a process of n monitors
          asking,    \* asking[n]: monitors recorded but not yet sent
          found,     \* found[c][n]: what the first phase of a disconnect found
          ups, downs \* ups[n][m], downs[n][m]: events told to the watcher at n

sessionVars == <<ends, stage, shut, prev, sessions, idmap, cut, lists, want, mon,
                 asking, found, ups, downs>>

Conns == 1..MaxConns

Stages == {"none", "shaken", "inserted", "up", "removed", "unmapped", "collected", "gone"}

Peer(c, n) == IF ends[c][1] = n THEN ends[c][2] ELSE ends[c][1]

Has(c, n) == ends[c] # <<>> /\ n \in {ends[c][1], ends[c][2]}

Direction(c, n) == IF ends[c][1] = n THEN "Outgoing" ELSE "Incoming"

preferred_session_direction_Own(n, m) == "Outgoing"

preferred_session_direction(n, m) == IF n < m THEN "Outgoing" ELSE "Incoming"

SessionInit ==
    /\ ends = [c \in Conns |-> <<>>]
    /\ stage = [c \in Conns |-> [n \in NodeNames |-> "none"]]
    /\ shut = [c \in Conns |-> [n \in NodeNames |-> FALSE]]
    /\ prev = [c \in Conns |-> [n \in NodeNames |-> 0]]
    /\ sessions = [n \in NodeNames |-> [m \in NodeNames |-> 0]]
    /\ idmap = [n \in NodeNames |-> {}]
    /\ cut = {}
    /\ lists = [c \in Conns |-> [n \in NodeNames |-> {}]]
    /\ want = [n \in NodeNames |-> {}]
    /\ mon = [n \in NodeNames |-> {}]
    /\ asking = [n \in NodeNames |-> {}]
    /\ found = [c \in Conns |-> [n \in NodeNames |-> FALSE]]
    /\ ups = [n \in NodeNames |-> [m \in NodeNames |-> 0]]
    /\ downs = [n \in NodeNames |-> [m \in NodeNames |-> 0]]

Open(c, n, m) ==
    /\ \A d \in Conns : ends[d] = <<>> => d >= c \/ (d <= MaxDials /\ c > MaxDials)
    /\ ends[c] = <<>>
    /\ ends' = [ends EXCEPT ![c] = <<n, m>>]
    /\ UNCHANGED <<stage, shut, prev, sessions, idmap, cut, lists, mon, asking, found, ups, downs>>

(* Node.connect dials whatever name it is given, connected or not.         *)
Dial(n, m) ==
    /\ \E c \in 1..MaxDials : Open(c, n, m)
    /\ UNCHANGED want

(* The thread that a peer list started.                                    *)
DialPeer(n, m) ==
    /\ m \in want[n]
    /\ \E c \in (MaxDials + 1)..MaxConns : Open(c, n, m)
    /\ want' = [want EXCEPT ![n] = @ \ {m}]

(* The acceptor has checked the reply and sent its ACK. One thread accepts *)
(* the connections of a node, one after the other.                         *)
AcceptorShakes(c) ==
    /\ ends[c] # <<>> /\ c \notin cut
    /\ stage[c][ends[c][2]] = "none" /\ stage[c][ends[c][1]] = "none"
    /\ \A d \in Conns : ends[d] # <<>> /\ ends[d][2] = ends[c][2]
                           => stage[d][ends[c][2]] \notin {"shaken", "inserted"}
    /\ stage' = [stage EXCEPT ![c][ends[c][2]] = "shaken"]
    /\ UNCHANGED <<ends, shut, prev, sessions, idmap, cut, lists, want, mon, asking, found, ups, downs>>

(* The initiator has checked the ACK, which outlives the end that sent it. *)
InitiatorShakes(c) ==
    /\ ends[c] # <<>> /\ c \notin cut
    /\ stage[c][ends[c][2]] # "none" /\ stage[c][ends[c][1]] = "none"
    /\ stage' = [stage EXCEPT ![c][ends[c][1]] = "shaken"]
    /\ UNCHANGED <<ends, shut, prev, sessions, idmap, cut, lists, want, mon, asking, found, ups, downs>>

(* A handshake on a cut connection fails and the stream is dropped.        *)
HandshakeFails(c, n) ==
    /\ Has(c, n) /\ c \in cut /\ stage[c][n] = "none"
    /\ stage' = [stage EXCEPT ![c][n] = "gone"]
    /\ UNCHANGED <<ends, shut, prev, sessions, idmap, cut, lists, want, mon, asking, found, ups, downs>>


Replaces(n, c, d) ==
    LET preferred == preferred_session_direction(n, Peer(c, n))
    IN  shut[d][n] \/ (Direction(d, n) # preferred /\ Direction(c, n) = preferred)

(* The first half of register_session, under the lock of the sessions.     *)
RegisterInsert(n, c) ==
    /\ Has(c, n) /\ stage[c][n] = "shaken"
    /\ LET d == sessions[n][Peer(c, n)]
       IN  IF d # 0 /\ ~Replaces(n, c, d)
           THEN /\ stage' = [stage EXCEPT ![c][n] = "gone"]
                /\ UNCHANGED <<sessions, shut, prev>>
           ELSE /\ stage' = [stage EXCEPT ![c][n] = "inserted"]
                /\ sessions' = [sessions EXCEPT ![n][Peer(c, n)] = c]
                /\ shut' = IF d = 0 THEN shut ELSE [shut EXCEPT ![d][n] = TRUE]
                /\ prev' = [prev EXCEPT ![c][n] = d]
    /\ UNCHANGED <<ends, idmap, cut, lists, want, mon, asking, found, ups, downs>>

RegisterIds_EveryUp(n, c) ==
    /\ Has(c, n) /\ stage[c][n] = "inserted"
    /\ stage' = [stage EXCEPT ![c][n] = "up"]
    /\ idmap' = [idmap EXCEPT ![n] = (@ \ {prev[c][n]}) \cup {c}]
    /\ ups' = [ups EXCEPT ![n][Peer(c, n)] = @ + 1]
    /\ UNCHANGED <<ends, shut, prev, sessions, cut, lists, want, mon, asking, found, downs>>

(* The second half, under the lock of the ids, handle_node_connect when    *)
(* the name is fresh, then the threads and the peer list.                  *)
RegisterIds(n, c) ==
    /\ Has(c, n) /\ stage[c][n] = "inserted"
    /\ stage' = [stage EXCEPT ![c][n] = "up"]
    /\ idmap' = [idmap EXCEPT ![n] = (@ \ {prev[c][n]}) \cup {c}]
    /\ ups' = IF prev[c][n] = 0 THEN [ups EXCEPT ![n][Peer(c, n)] = @ + 1] ELSE ups
    /\ lists' = [lists EXCEPT ![c][n] = {m \in NodeNames \ {Peer(c, n)} : sessions[n][m] # 0}]
    /\ UNCHANGED <<ends, shut, prev, sessions, cut, want, mon, asking, found, downs>>

handle_peer_list_Known(n, c) ==
    /\ Has(c, n) /\ stage[c][n] = "up" /\ ~shut[c][n] /\ lists[c][Peer(c, n)] # {}
    /\ want' = [want EXCEPT ![n] = @ \cup {p \in lists[c][Peer(c, n)] \ {n} : sessions[n][p] # 0}]
    /\ lists' = [lists EXCEPT ![c][Peer(c, n)] = {}]
    /\ UNCHANGED <<ends, stage, shut, prev, sessions, idmap, cut, mon, asking, found, ups, downs>>

handle_peer_list(n, c) ==
    LET m == Peer(c, n)
    IN  /\ Has(c, n) /\ stage[c][n] = "up" /\ ~shut[c][n] /\ lists[c][m] # {}
        /\ want' = [want EXCEPT ![n] = @ \cup {p \in lists[c][m] \ {n} : sessions[n][p] = 0}]
        /\ lists' = [lists EXCEPT ![c][m] = {}]
        /\ UNCHANGED <<ends, stage, shut, prev, sessions, idmap, cut, mon, asking, found, ups, downs>>

Cut(c) ==
    /\ ends[c] # <<>> /\ c \notin cut /\ Cardinality(cut) < MaxCuts
    /\ cut' = cut \cup {c}
    /\ UNCHANGED <<ends, stage, shut, prev, sessions, idmap, lists, want, mon, asking, found, ups, downs>>

(* The reader gets an error, or the pong of the heartbeat is overdue.      *)
SessionFails(n, c) ==
    /\ Has(c, n) /\ stage[c][n] = "up" /\ ~shut[c][n]
    /\ c \in cut \/ stage[c][Peer(c, n)] = "gone"
    /\ shut' = [shut EXCEPT ![c][n] = TRUE]
    /\ UNCHANGED <<ends, stage, prev, sessions, idmap, cut, lists, want, mon, asking, found, ups, downs>>

CleanupSession_ByName(n, c) ==
    /\ Has(c, n) /\ stage[c][n] = "up" /\ shut[c][n]
    /\ stage' = [stage EXCEPT ![c][n] = "removed"]
    /\ sessions' = [sessions EXCEPT ![n][Peer(c, n)] = 0]
    /\ UNCHANGED <<ends, shut, prev, idmap, cut, lists, want, mon, asking, found, ups, downs>>

(* cleanup_session_if_current, when the heartbeat thread leaves its loop.  *)
CleanupSession(n, c) ==
    /\ Has(c, n) /\ stage[c][n] = "up" /\ shut[c][n]
    /\ LET current == sessions[n][Peer(c, n)] = c
       IN  /\ stage' = [stage EXCEPT ![c][n] = IF current THEN "removed" ELSE "gone"]
           /\ sessions' = IF current THEN [sessions EXCEPT ![n][Peer(c, n)] = 0] ELSE sessions
    /\ UNCHANGED <<ends, shut, prev, idmap, cut, lists, want, mon, asking, found, ups, downs>>

CleanupIds_OfName(n, c) ==
    /\ stage[c][n] = "removed"
    /\ stage' = [stage EXCEPT ![c][n] = "unmapped"]
    /\ idmap' = [idmap EXCEPT ![n] = @ \ {c, sessions[n][Peer(c, n)]}]
    /\ UNCHANGED <<ends, shut, prev, sessions, cut, lists, want, mon, asking, found, ups, downs>>

CleanupIds(n, c) ==
    /\ stage[c][n] = "removed"
    /\ stage' = [stage EXCEPT ![c][n] = "unmapped"]
    /\ idmap' = [idmap EXCEPT ![n] = @ \ {c}]
    /\ UNCHANGED <<ends, shut, prev, sessions, cut, lists, want, mon, asking, found, ups, downs>>

(* handle_node_disconnect looks for monitors of the lost id under the lock *)
(* of the process table, and acts on what it found after releasing it.     *)
Collect(n, c) ==
    /\ stage[c][n] = "unmapped"
    /\ stage' = [stage EXCEPT ![c][n] = "collected"]
    /\ found' = [found EXCEPT ![c][n] = c \in mon[n]]
    /\ UNCHANGED <<ends, shut, prev, sessions, idmap, cut, lists, want, mon, asking, ups, downs>>

FireSignals(n, c) ==
    /\ stage[c][n] = "collected"
    /\ stage' = [stage EXCEPT ![c][n] = "gone"]
    /\ mon' = IF found[c][n] THEN [mon EXCEPT ![n] = @ \ {c}] ELSE mon
    /\ downs' = [downs EXCEPT ![n][Peer(c, n)] = @ + 1]
    /\ UNCHANGED <<ends, shut, prev, sessions, idmap, cut, lists, want, asking, found, ups>>

(* mesh_process_monitor of a remote pid: recorded first, and sent second,  *)
(* when the id and the name of its node still lead to a session.           *)
MonitorRecord(n, c) ==
    /\ n \in Monitoring
    /\ Has(c, n) /\ stage[c][n] \notin {"none", "shaken"} /\ c \notin mon[n] \cup asking[n]
    /\ mon' = [mon EXCEPT ![n] = @ \cup {c}]
    /\ asking' = [asking EXCEPT ![n] = @ \cup {c}]
    /\ UNCHANGED <<ends, stage, shut, prev, sessions, idmap, cut, lists, want, found, ups, downs>>

MonitorSend_NoFallback(n, c) ==
    /\ c \in asking[n]
    /\ asking' = [asking EXCEPT ![n] = @ \ {c}]
    /\ UNCHANGED <<ends, stage, shut, prev, sessions, idmap, cut, lists, want, mon, found, ups, downs>>

MonitorSend(n, c) ==
    LET route == IF c \in idmap[n] THEN sessions[n][Peer(c, n)] ELSE 0
    IN  /\ c \in asking[n]
        /\ asking' = [asking EXCEPT ![n] = @ \ {c}]
        /\ \/ route # 0 /\ UNCHANGED mon
           \/ /\ route = 0 \/ route \in cut   \* DOWN(noconnection) at once
              /\ mon' = [mon EXCEPT ![n] = @ \ {c}]
        /\ UNCHANGED <<ends, stage, shut, prev, sessions, idmap, cut, lists, want, found, ups, downs>>

SessionNext ==
    \/ \E p \in Dials : Dial(p[1], p[2])
    \/ \E n, m \in NodeNames : DialPeer(n, m)
    \/ \E c \in Conns : AcceptorShakes(c) \/ InitiatorShakes(c) \/ Cut(c)
    \/ \E n \in NodeNames, c \in Conns :
          \/ HandshakeFails(c, n) \/ RegisterInsert(n, c) \/ RegisterIds(n, c)
          \/ handle_peer_list(n, c) \/ SessionFails(n, c) \/ CleanupSession(n, c)
          \/ CleanupIds(n, c) \/ Collect(n, c) \/ FireSignals(n, c)
          \/ MonitorRecord(n, c) \/ MonitorSend(n, c)

SessionSpec == SessionInit /\ [][SessionNext]_sessionVars
-----------------------------------------------------------------------------
(* Ends of connections that no thread has anything left to do for.         *)
Settled(c, n) ==
    \/ stage[c][n] = "gone"
    \/ stage[c][n] = "up" /\ ~shut[c][n] /\ c \notin cut /\ stage[c][Peer(c, n)] # "gone"

Quiet ==
    /\ \A c \in Conns, n \in NodeNames : Has(c, n) => Settled(c, n) /\ lists[c][n] = {}
    /\ \A n \in NodeNames : want[n] = {} /\ asking[n] = {}

SessionTypeOK ==
    /\ ends \in [Conns -> {<<>>} \cup (NodeNames \X NodeNames)]
    /\ stage \in [Conns -> [NodeNames -> Stages]]
    /\ shut \in [Conns -> [NodeNames -> BOOLEAN]] /\ found \in [Conns -> [NodeNames -> BOOLEAN]]
    /\ prev \in [Conns -> [NodeNames -> 0..MaxConns]]
    /\ sessions \in [NodeNames -> [NodeNames -> 0..MaxConns]]
    /\ cut \subseteq Conns
    /\ lists \in [Conns -> [NodeNames -> SUBSET NodeNames]] /\ want \in [NodeNames -> SUBSET NodeNames]
    /\ idmap \in [NodeNames -> SUBSET Conns]
    /\ mon \in [NodeNames -> SUBSET Conns] /\ asking \in [NodeNames -> SUBSET Conns]
    /\ ups \in [NodeNames -> [NodeNames -> Nat]] /\ downs \in [NodeNames -> [NodeNames -> Nat]]

(* The two ends of a pair of nodes that has come to rest use the same      *)
(* connection, or none: register_session lets both keep the same transport *)
(* whichever of them connects, and however often.                          *)
SameTransport ==
    Quiet => \A n, m \in NodeNames : n # m => sessions[n][m] = sessions[m][n]

(* Two nodes that dial each other at the same time are left with a session *)
(* when none of the two connections is cut: both ends prefer the same one. *)
TieBreakKeepsOne ==
    Quiet /\ cut = {} /\ (\A c, d \in Conns : c # d /\ ends[c] # <<>> => ends[c] # ends[d])
        => \A c \in Conns : ends[c] # <<>> => sessions[ends[c][1]][ends[c][2]] # 0

(* A session that has been registered and not replaced is the one that its *)
(* id leads to, so that pids of the node can be sent to.                   *)
CurrentIsRouted ==
    \A n \in NodeNames, c \in Conns :
        Has(c, n) /\ stage[c][n] = "up" /\ sessions[n][Peer(c, n)] = c => c \in idmap[n]

(* Every :nodeup is followed by exactly one :nodedown, and a node with a   *)
(* session has one :nodeup more: replacing a transport tells nothing.      *)
EventsBalance ==
    Quiet => \A n, m \in NodeNames : ups[n][m] = downs[n][m] + IF sessions[n][m] = 0 THEN 0 ELSE 1

(* A monitor is answered when the session of its pid is lost, however the  *)
(* steps that record it fall among those of the disconnect. (A session     *)
(* that was replaced takes the monitors of its pids along.)                *)
MonitorsAreTold ==
    Quiet => \A n \in NodeNames : \A c \in mon[n] :
        sessions[n][Peer(c, n)] = c \/ \E d \in Conns : prev[d][n] = c

(* Peer lists connect every pair of nodes when no connection is lost.      *)
MeshForms ==
    Quiet /\ cut = {} /\ (\A p \in Dials : \E c \in Conns : ends[c] = p)
        => \A n, m \in NodeNames : n # m => sessions[n][m] # 0
-----------------------------------------------------------------------------
(* register_session: the ends of a connection agree which one to keep, keep  *)
(* one if none is cut, and ids lead to the session that is kept.             *)
SessionsAgree == SessionTypeOK /\ SameTransport /\ TieBreakKeepsOne /\ CurrentIsRouted

(* handle_node_connect, handle_node_disconnect: events of a node pair off,   *)
(* and the loss of a session reaches whoever monitors a pid of its node.     *)
LossIsTold == EventsBalance /\ MonitorsAreTold
=============================================================================
