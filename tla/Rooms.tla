------------------------------- MODULE Rooms -------------------------------
(* Rooms of WebSocket connections over a cluster (ws/rooms.rs): who is in  *)
(* a room of this node, and a broadcast that is written to the members one *)
(* by one, here and on every connected node, while they come and go.  What *)
(* is in a room is the handle of a connection, a pointer: ws_connection_entry *)
(* (ws/server.rs) frees it, and nothing keeps an actor from using it then.  *)
EXTENDS Naturals, FiniteSets, Sequences, SequencesExt

CONSTANTS Nodes, Conns, NodeOf,   \* NodeOf[c]: where connection c is served
          RoomNames, Broadcasts, From, Except, Room
          \* From[b], Except[b], Room[b]: the node that broadcasts b, the
          \* connection it leaves out or "none", and the room

\* Whom a broadcast leaves out is a connection of its own node, whose handle
\* mesh_ws_broadcast_except was given, or nobody.
ASSUME RoomsAssumption ==
    /\ NodeOf \in [Conns -> Nodes]
    /\ \A b \in Broadcasts : From[b] \in Nodes /\ Room[b] \in RoomNames
    /\ \A b \in Broadcasts : Except[b] \in Conns => NodeOf[Except[b]] = From[b]

VARIABLES rooms,      \* rooms[r]: the members of r, on their own nodes
          connrooms,  \* connrooms[c]: the rooms of c
          life,       \* life[c]: met (in on_connect), open, left (cleaned up), shut or freed
          stray,      \* history: rejected, or joined a room when no longer open
          wild,       \* whether a broadcast has used a handle that was freed
          stage,      \* stage[b]: new, local (being written to members here) or sent
          unsent,     \* unsent[n][b]: members of the snapshot still to be written to
          wire,       \* wire[n]: broadcasts on their way to node n
          got,        \* got[c]: broadcasts written to c, in order
          stayed      \* stayed[b]: members since b began that are not on their way out

roomVars == <<rooms, connrooms, life, stray, wild, stage, unsent, wire, got, stayed>>
tables == <<rooms, connrooms, life, stray, stayed>>
sending == <<wild, stage, unsent, wire, got>>

RoomsInit ==
    /\ rooms = [r \in RoomNames |-> {}] /\ connrooms = [c \in Conns |-> {}]
    /\ life = [c \in Conns |-> "met"] /\ stray = {} /\ wild = FALSE
    /\ stage = [b \in Broadcasts |-> "new"]
    /\ unsent = [n \in Nodes |-> [b \in Broadcasts |-> {}]]
    /\ wire = [n \in Nodes |-> <<>>] /\ got = [c \in Conns |-> <<>>]
    /\ stayed = [b \in Broadcasts |-> {}]

(* Both tables change under both locks.  Whoever has the handle may join    *)
(* with it and leave: on_connect, the callbacks, on_close after the cleanup, *)
(* and any actor it was sent to.                                            *)
join(c, r) ==
    /\ rooms' = [rooms EXCEPT ![r] = @ \cup {c}]
    /\ connrooms' = [connrooms EXCEPT ![c] = @ \cup {r}]
    /\ stray' = IF life[c] \in {"met", "open"} THEN stray ELSE stray \cup {c}
    /\ UNCHANGED <<life, stayed, sending>>

leave(c, r) ==
    /\ rooms' = [rooms EXCEPT ![r] = @ \ {c}]
    /\ connrooms' = [connrooms EXCEPT ![c] = @ \ {r}]
    /\ stayed' = [b \in Broadcasts |-> IF Room[b] = r THEN stayed[b] \ {c} ELSE stayed[b]]
    /\ UNCHANGED <<life, stray, sending>>

cleanup_connection_Index(c) ==
    /\ life[c] = "open" /\ life' = [life EXCEPT ![c] = "left"]
    /\ connrooms' = [connrooms EXCEPT ![c] = {}]
    /\ stayed' = [b \in Broadcasts |-> stayed[b] \ {c}]
    /\ UNCHANGED <<rooms, stray, sending>>

(* The reverse index says where the connection is to be removed.           *)
cleanup_connection(c) ==
    /\ life[c] = "open" /\ life' = [life EXCEPT ![c] = "left"]
    /\ rooms' = [r \in RoomNames |-> IF r \in connrooms[c] THEN rooms[r] \ {c} ELSE rooms[r]]
    /\ connrooms' = [connrooms EXCEPT ![c] = {}]
    /\ stayed' = [b \in Broadcasts |-> stayed[b] \ {c}]
    /\ UNCHANGED <<stray, sending>>

(* on_connect accepts.                                                      *)
Admit(c) ==
    /\ life[c] = "met" /\ life' = [life EXCEPT ![c] = "open"]
    /\ UNCHANGED <<rooms, connrooms, stray, stayed, sending>>

(* The flag is set: after the cleanup, or, with none, when on_connect has   *)
(* rejected the connection.                                                 *)
ShutDown(c) ==
    /\ life[c] \in {"met", "left"} /\ life' = [life EXCEPT ![c] = "shut"]
    /\ stray' = IF life[c] = "met" THEN stray \cup {c} ELSE stray
    /\ stayed' = [b \in Broadcasts |-> stayed[b] \ {c}]
    /\ UNCHANGED <<rooms, connrooms, sending>>

(* At the end, after on_close, the handle is freed.                         *)
Free(c) ==
    /\ life[c] = "shut" /\ life' = [life EXCEPT ![c] = "freed"]
    /\ UNCHANGED <<rooms, connrooms, stray, stayed, sending>>
-----------------------------------------------------------------------------
members(n, r) == {c \in rooms[r] : NodeOf[c] = n}
Writable(c) == life[c] \in {"met", "open", "left"}   \* alive, and its flag is not set

(* mesh_ws_broadcast and mesh_ws_broadcast_except take their snapshot.     *)
Broadcast(b) ==
    LET n == From[b]
    IN  /\ stage[b] = "new" /\ stage' = [stage EXCEPT ![b] = "local"]
        /\ unsent' = [unsent EXCEPT ![n][b] = members(n, Room[b]) \ {Except[b]}]
        /\ stayed' = [stayed EXCEPT ![b] = {c \in rooms[Room[b]] : Writable(c)}]
        /\ UNCHANGED <<rooms, connrooms, life, stray, wild, wire, got>>

(* One member of the snapshot: skipped when it is shutting down.  Of a handle *)
(* that was freed the flag is read all the same, and the stream: the write is *)
(* skipped, or made to whatever connection has come to lie there.             *)
Write(n, b) ==
    /\ \E c \in unsent[n][b] :
          /\ unsent' = [unsent EXCEPT ![n][b] = @ \ {c}]
          /\ wild' = (wild \/ life[c] = "freed")
          /\ \/ ~Writable(c) /\ UNCHANGED got
             \/ Writable(c) /\ got' = [got EXCEPT ![c] = Append(@, b)]
             \/ /\ life[c] = "freed"
                /\ \E d \in Conns : NodeOf[d] = n /\ got' = [got EXCEPT ![d] = Append(@, b)]
    /\ UNCHANGED <<tables, stage, wire>>

broadcast_room_to_cluster_OnlyWithMembers(b) ==
    LET n == From[b]
    IN  /\ stage[b] = "local" /\ unsent[n][b] = {}
        /\ stage' = [stage EXCEPT ![b] = "sent"]
        /\ wire' = IF members(n, Room[b]) = {} THEN wire
                   ELSE [m \in Nodes |-> IF m = n THEN wire[m] ELSE Append(wire[m], b)]
        /\ UNCHANGED <<tables, wild, unsent, got>>

(* To every connected node, when the local members have been written to.   *)
broadcast_room_to_cluster(b) ==
    LET n == From[b]
    IN  /\ stage[b] = "local" /\ unsent[n][b] = {}
        /\ stage' = [stage EXCEPT ![b] = "sent"]
        /\ wire' = [m \in Nodes |-> IF m = n THEN wire[m] ELSE Append(wire[m], b)]
        /\ UNCHANGED <<tables, wild, unsent, got>>

Deliver_Forwards(n) ==
    /\ wire[n] # <<>> /\ unsent[n] = [b \in Broadcasts |-> {}]
    /\ unsent' = [unsent EXCEPT ![n][Head(wire[n])] = members(n, Room[Head(wire[n])])]
    /\ wire' = [m \in Nodes |-> IF m = n THEN Tail(wire[m])
                                ELSE IF Len(wire[m]) < 2 THEN Append(wire[m], Head(wire[n]))
                                ELSE wire[m]]
    /\ UNCHANGED <<tables, wild, stage, got>>

(* DIST_ROOM_BROADCAST: delivery to the members of this node only, before  *)
(* the reader takes the next message.                                      *)
Deliver(n) ==
    /\ wire[n] # <<>> /\ \A b \in Broadcasts : From[b] # n => unsent[n][b] = {}
    /\ wire' = [wire EXCEPT ![n] = Tail(@)]
    /\ unsent' = [unsent EXCEPT ![n][Head(wire[n])] = members(n, Room[Head(wire[n])])]
    /\ UNCHANGED <<tables, wild, stage, got>>

RoomsNext ==
    \/ \E c \in Conns : (\E r \in RoomNames : join(c, r) \/ leave(c, r))
                           \/ Admit(c) \/ cleanup_connection(c) \/ ShutDown(c) \/ Free(c)
    \/ \E b \in Broadcasts : Broadcast(b) \/ broadcast_room_to_cluster(b)
    \/ \E n \in Nodes : Deliver(n) \/ \E b \in Broadcasts : Write(n, b)

RoomsSpec == RoomsInit /\ [][RoomsNext]_roomVars
-----------------------------------------------------------------------------
RoomsTypeOK ==
    /\ rooms \in [RoomNames -> SUBSET Conns] /\ connrooms \in [Conns -> SUBSET RoomNames]
    /\ life \in [Conns -> {"met", "open", "left", "shut", "freed"}]
    /\ stray \subseteq Conns /\ wild \in BOOLEAN /\ got \in [Conns -> Seq(Broadcasts)]
    /\ stage \in [Broadcasts -> {"new", "local", "sent"}] /\ stayed \in [Broadcasts -> SUBSET Conns]
    /\ unsent \in [Nodes -> [Broadcasts -> SUBSET Conns]] /\ wire \in [Nodes -> Seq(Broadcasts)]

(* RoomRegistry, "Remove a connection from all rooms. Called on disconnect":  *)
(* the two tables list the same memberships, and one that is no longer open   *)
(* is in no room, unless it was rejected, which skips the cleanup, or was     *)
(* made to join after it.                                                     *)
NoGhosts ==
    /\ \A c \in Conns, r \in RoomNames : c \in rooms[r] <=> r \in connrooms[c]
    /\ \A c \in Conns \ stray : life[c] \notin {"met", "open"} => connrooms[c] = {}

(* mesh_ws_broadcast: nobody is written a broadcast twice, and the one it  *)
(* leaves out is not written it at all, however the nodes are connected.   *)
WrittenOnce ==
    \A c \in Conns : IsInjective(got[c]) /\ \A b \in Range(got[c]) : Except[b] # c

(* mesh_ws_broadcast, DIST_ROOM_BROADCAST: a member, on any node, that has *)
(* stayed since the broadcast began has it when the broadcast is through.  *)
MembersAreReached ==
    \A b \in Broadcasts :
        /\ stage[b] = "sent"
        /\ \A n \in Nodes : b \notin Range(wire[n]) /\ unsent[n][b] = {}
        => \A c \in stayed[b] \ {Except[b]} : b \in Range(got[c])

(* RoomRegistry, mesh_ws_broadcast: both tables list the same and nobody who  *)
(* has left but as said above; every member that stays is written a broadcast, *)
(* once, as long as none was written to a handle that was freed (NeverWild).  *)
RoomsReachMembers ==
    /\ RoomsTypeOK /\ NoGhosts
    /\ ~wild => WrittenOnce /\ MembersAreReached

-----------------------------------------------------------------------------
(* Promises of the documentation that TLC refutes; see the README.           *)

(* "Remove a connection from all rooms. Called on disconnect"                *)
(* (RoomRegistry.cleanup_connection).                                        *)
NobodyGone == \A c \in Conns : life[c] = "freed" => connrooms[c] = {}

(* "Check shutdown flag to avoid writing to closing connections"             *)
(* (local_room_broadcast): a handle that was freed is not written to.        *)
NeverWild == ~wild
=============================================================================
