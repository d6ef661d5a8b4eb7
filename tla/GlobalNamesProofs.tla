------------------------- MODULE GlobalNamesProofs -------------------------
(***************************************************************************)
(* Proofs about the cluster-wide names, for any names and processes and    *)
(* any number of sessions and calls: the two reverse indexes of a replica  *)
(* list exactly its names, a name of the other node leads away from this   *)
(* one, and the first registration of a name stands until it is removed.   *)
(*                                                                         *)
(* Every step changes one replica, by one of the five operations of        *)
(* GlobalRegistry, and every operation keeps a replica in order (Fine).    *)
(***************************************************************************)
EXTENDS GlobalNames, TLAPS

\* A snapshot lists a name once.
Snapshots == {e \in SUBSET (Names \X AnyPid \X Nodes) : \A c, d \in e : c[1] = d[1] => c = d}

Frames == ({"register"} \X Names \X AnyPid \X Nodes) \cup ({"unregister"} \X Names)
             \cup ({"sync"} \X Snapshots)

\* What a node has still to tell, and what is on its way.
Carried ==
    /\ tell \in [Nodes -> SUBSET (Frames \cup ({"cleanup"} \X Sessions))]
    /\ snap \in [Nodes -> {<<>>} \cup (Sessions \X Snapshots)]
    /\ wire \in [Sessions -> [Nodes -> Seq(Frames)]]

-----------------------------------------------------------------------------
(* The operations of GlobalRegistry.                                       *)

Taken(r) == {x \in Names : r.names[x] # NoEntry}

\* Both indexes of a replica list the names that are taken.
Indexed(r) == /\ r.pid_names = {<<r.names[x][1], x>> : x \in Taken(r)}
              /\ r.node_names = {<<r.names[x][2], x>> : x \in Taken(r)}

\* The names of other nodes lead away from n.
LeadsAway(n, r) == \A x \in Taken(r) : r.names[x][2] # n => r.names[x][1].node # 0

\* What an operation may make of replica r of node n.
Fine(n, r, new) == /\ new \in Replica
                   /\ Indexed(r) => Indexed(new)
                   /\ LeadsAway(n, r) => LeadsAway(n, new)
                   /\ \A x \in Taken(r) : new.names[x] \in {NoEntry, r.names[x]}

LEMMA EntryType == \A pid \in AnyPid, node \in Nodes : <<pid, node>> \in Entries /\ <<pid, node>> # NoEntry
BY DEF Entries, NoEntry

\* A name that is taken has a process and a node.
LEMMA TakenType ==
  ASSUME NEW r \in Replica, NEW x \in Taken(r)
  PROVE  /\ x \in Names /\ r.names[x][1] \in AnyPid /\ r.names[x][2] \in Nodes
         /\ r.names[x] = <<r.names[x][1], r.names[x][2]>>
BY DEF Taken, Replica, Entries

LEMMA RegisterFine ==
  ASSUME NEW n \in Nodes, NEW r \in Replica, NEW x \in Names, NEW pid \in AnyPid, NEW node \in Nodes,
         node = n \/ pid.node # 0
  PROVE  Fine(n, r, register(r, x, pid, node))
<1> DEFINE new == register(r, x, pid, node)
<1>1. CASE r.names[x] # NoEntry
  BY <1>1 DEF Fine, register, Taken
<1>2. CASE r.names[x] = NoEntry
  <2>1. /\ new.names = [r.names EXCEPT ![x] = <<pid, node>>]
        /\ new.pid_names = r.pid_names \cup {<<pid, x>>}
        /\ new.node_names = r.node_names \cup {<<node, x>>}
        /\ new = [names |-> new.names, pid_names |-> new.pid_names, node_names |-> new.node_names]
    BY <1>2 DEF register
  <2>2. r.names \in [Names -> Entries]
    BY DEF Replica
  <2> HIDE DEF new
  <2>3. new \in Replica
    BY <2>1, <2>2, EntryType DEF Replica
  <2>4. /\ Taken(new) = Taken(r) \cup {x} /\ x \notin Taken(r)
        /\ new.names[x] = <<pid, node>>
        /\ \A y \in Taken(r) : new.names[y] = r.names[y]
    BY <1>2, <2>1, <2>2, EntryType DEF Taken
  <2>5. new.names[x][1] = pid /\ new.names[x][2] = node
    BY <2>4
  <2>6. ASSUME Indexed(r) PROVE Indexed(new)
    <3>1. /\ r.pid_names = {<<new.names[y][1], y>> : y \in Taken(r)}
          /\ r.node_names = {<<new.names[y][2], y>> : y \in Taken(r)}
      BY <2>4, <2>6 DEF Indexed
    <3>2. new.pid_names = {<<new.names[y][1], y>> : y \in Taken(new)}
      BY <2>1, <2>4, <2>5, <3>1
    <3>3. new.node_names = {<<new.names[y][2], y>> : y \in Taken(new)}
      BY <2>1, <2>4, <2>5, <3>1
    <3> QED BY <3>2, <3>3 DEF Indexed
  <2>7. LeadsAway(n, r) => LeadsAway(n, new)
    BY <2>4, <2>5 DEF LeadsAway
  <2>8. Fine(n, r, new)
    BY <2>3, <2>4, <2>6, <2>7 DEF Fine
  <2> QED BY <2>8 DEF new
<1> QED BY <1>1, <1>2

LEMMA SamePairs ==
  ASSUME NEW f, NEW g, NEW S, \A x \in S : f[x] = g[x]
  PROVE  /\ {<<f[x][1], x>> : x \in S} = {<<g[x][1], x>> : x \in S}
         /\ {<<f[x][2], x>> : x \in S} = {<<g[x][2], x>> : x \in S}
<1>1. \A x \in S : <<f[x][1], x>> = <<g[x][1], x>> /\ <<f[x][2], x>> = <<g[x][2], x>>
  OBVIOUS
<1> QED BY <1>1, Zenon

\* An operation that frees the names of gone, and takes out of each index what
\* is there of them.
LEMMA FreeFine ==
  ASSUME NEW n \in Nodes, NEW r \in Replica, NEW gone \in SUBSET Names, NEW new,
         new.names = [x \in Names |-> IF x \in gone THEN NoEntry ELSE r.names[x]],
         new \in [names : [Names -> Entries], pid_names : SUBSET r.pid_names,
                  node_names : SUBSET r.node_names],
         Indexed(r) => /\ new.pid_names = {e \in r.pid_names : e[2] \notin gone}
                       /\ new.node_names = {e \in r.node_names : e[2] \notin gone}
  PROVE  Fine(n, r, new)
<1>1. new \in Replica
  BY DEF Replica
<1>2. /\ Taken(new) = Taken(r) \ gone
      /\ \A x \in Taken(new) : new.names[x] = r.names[x]
  BY DEF Taken
<1>3. ASSUME Indexed(r) PROVE Indexed(new)
  <2>1. new.pid_names = {<<r.names[x][1], x>> : x \in Taken(r) \ gone}
    <3>1. r.pid_names = {<<r.names[x][1], x>> : x \in Taken(r)}
      BY <1>3 DEF Indexed
    <3>2. \A x \in Taken(r) : <<r.names[x][1], x>>[2] = x
      OBVIOUS
    <3> QED BY <1>3, <3>1, <3>2
  <2>2. new.node_names = {<<r.names[x][2], x>> : x \in Taken(r) \ gone}
    <3>1. r.node_names = {<<r.names[x][2], x>> : x \in Taken(r)}
      BY <1>3 DEF Indexed
    <3>2. \A x \in Taken(r) : <<r.names[x][2], x>>[2] = x
      OBVIOUS
    <3> QED BY <1>3, <3>1, <3>2
  <2>3. /\ {<<new.names[x][1], x>> : x \in Taken(r) \ gone} = {<<r.names[x][1], x>> : x \in Taken(r) \ gone}
        /\ {<<new.names[x][2], x>> : x \in Taken(r) \ gone} = {<<r.names[x][2], x>> : x \in Taken(r) \ gone}
    BY <1>2, SamePairs
  <2>4. new.pid_names = {<<new.names[x][1], x>> : x \in Taken(r) \ gone}
    BY <2>1, <2>3
  <2>5. new.node_names = {<<new.names[x][2], x>> : x \in Taken(r) \ gone}
    BY <2>2, <2>3
  <2> QED BY <1>2, <2>4, <2>5 DEF Indexed
<1>4. LeadsAway(n, r) => LeadsAway(n, new)
  BY <1>2 DEF LeadsAway
<1>5. \A x \in Taken(r) : new.names[x] \in {NoEntry, r.names[x]}
  BY DEF Taken
<1> QED BY <1>1, <1>3, <1>4, <1>5 DEF Fine

LEMMA UnregisterFine ==
  ASSUME NEW n \in Nodes, NEW r \in Replica, NEW x \in Names
  PROVE  Fine(n, r, unregister(r, x))
<1> DEFINE new == unregister(r, x)
<1>1. CASE r.names[x] = NoEntry
  BY <1>1 DEF Fine, unregister, Taken
<1>2. CASE r.names[x] # NoEntry
  <2>1. /\ new.names = [r.names EXCEPT ![x] = NoEntry]
        /\ new.pid_names = r.pid_names \ {<<r.names[x][1], x>>}
        /\ new.node_names = r.node_names \ {<<r.names[x][2], x>>}
        /\ new = [names |-> new.names, pid_names |-> new.pid_names, node_names |-> new.node_names]
    BY <1>2 DEF unregister
  <2> HIDE DEF new
  <2>2. new.names = [y \in Names |-> IF y \in {x} THEN NoEntry ELSE r.names[y]]
    BY <2>1 DEF Replica
  <2>3. new.names \in [Names -> Entries]
    BY <2>2 DEF Replica, Entries
  <2>4. ASSUME Indexed(r)
        PROVE  /\ new.pid_names = {e \in r.pid_names : e[2] \notin {x}}
               /\ new.node_names = {e \in r.node_names : e[2] \notin {x}}
    <3>1. \A e \in r.pid_names : e[2] = x <=> e = <<r.names[x][1], x>>
      BY <1>2, <2>4 DEF Indexed, Taken
    <3>2. \A e \in r.node_names : e[2] = x <=> e = <<r.names[x][2], x>>
      BY <1>2, <2>4 DEF Indexed, Taken
    <3> QED BY <2>1, <3>1, <3>2
  <2>5. /\ {x} \in SUBSET Names
        /\ new \in [names : [Names -> Entries], pid_names : SUBSET r.pid_names,
                   node_names : SUBSET r.node_names]
    BY <2>1, <2>3
  <2>6. Fine(n, r, new)
    BY <2>2, <2>4, <2>5, FreeFine
  <2> QED BY <2>6 DEF new
<1> QED BY <1>1, <1>2

\* The process it cleans up is found by way of its own index, the nodes by way
\* of the names found there.
LEMMA CleanupProcessFine ==
  ASSUME NEW n \in Nodes, NEW r \in Replica, NEW pid \in AnyPid
  PROVE  Fine(n, r, cleanup_process(r, pid))
<1> DEFINE gone == {x \in Names : <<pid, x>> \in r.pid_names}
           new == cleanup_process(r, pid)
<1>1. /\ new.names = [x \in Names |-> IF x \in gone THEN NoEntry ELSE r.names[x]]
      /\ new.pid_names = {e \in r.pid_names : e[1] # pid}
      /\ new.node_names = r.node_names \ {<<r.names[x][2], x>> : x \in {y \in gone : r.names[y] # NoEntry}}
      /\ new = [names |-> new.names, pid_names |-> new.pid_names, node_names |-> new.node_names]
  BY DEF cleanup_process
<1> HIDE DEF new
<1>2. new.names \in [Names -> Entries]
  BY <1>1 DEF Replica, Entries
<1>3. ASSUME Indexed(r)
      PROVE  /\ new.pid_names = {e \in r.pid_names : e[2] \notin gone}
             /\ new.node_names = {e \in r.node_names : e[2] \notin gone}
  <2>1. \A x \in Taken(r) : x \in gone <=> r.names[x][1] = pid
    BY <1>3 DEF Indexed, Taken
  <2>2. \A e \in r.pid_names : e[2] \in Taken(r) /\ e = <<r.names[e[2]][1], e[2]>>
    BY <1>3 DEF Indexed
  <2>3. \A e \in r.node_names : e[2] \in Taken(r) /\ e = <<r.names[e[2]][2], e[2]>>
    BY <1>3 DEF Indexed
  <2>4. \A e \in r.pid_names : e[1] # pid <=> e[2] \notin gone
    BY <2>1, <2>2
  <2>5. \A e \in r.node_names :
           e \in {<<r.names[x][2], x>> : x \in {y \in gone : r.names[y] # NoEntry}} <=> e[2] \in gone
    <3> HIDE DEF gone
    <3>1. SUFFICES ASSUME NEW e \in r.node_names
                   PROVE  (\E x \in gone : r.names[x] # NoEntry /\ e = <<r.names[x][2], x>>) <=> e[2] \in gone
      OBVIOUS
    <3>2. e[2] \in Taken(r) /\ e = <<r.names[e[2]][2], e[2]>>
      BY <2>3
    <3>3. PICK y : y = e[2]
      OBVIOUS
    <3> QED BY <3>2, <3>3 DEF Taken
  <2> HIDE DEF gone
  <2> QED BY <1>1, <2>4, <2>5
<1>4. Fine(n, r, new)
  BY <1>1, <1>2, <1>3, FreeFine
<1> QED BY <1>4 DEF new

LEMMA CleanupNodeFine ==
  ASSUME NEW n \in Nodes, NEW r \in Replica, NEW node \in Nodes
  PROVE  Fine(n, r, cleanup_node(r, node))
<1> DEFINE gone == {x \in Names : <<node, x>> \in r.node_names}
           new == cleanup_node(r, node)
<1>1. /\ new.names = [x \in Names |-> IF x \in gone THEN NoEntry ELSE r.names[x]]
      /\ new.pid_names = r.pid_names \ {<<r.names[x][1], x>> : x \in {y \in gone : r.names[y] # NoEntry}}
      /\ new.node_names = {e \in r.node_names : e[1] # node}
      /\ new = [names |-> new.names, pid_names |-> new.pid_names, node_names |-> new.node_names]
  BY DEF cleanup_node
<1> HIDE DEF new
<1>2. new.names \in [Names -> Entries]
  BY <1>1 DEF Replica, Entries
<1>3. ASSUME Indexed(r)
      PROVE  /\ new.pid_names = {e \in r.pid_names : e[2] \notin gone}
             /\ new.node_names = {e \in r.node_names : e[2] \notin gone}
  <2>1. \A x \in Taken(r) : x \in gone <=> r.names[x][2] = node
    BY <1>3 DEF Indexed, Taken
  <2>2. \A e \in r.pid_names : e[2] \in Taken(r) /\ e = <<r.names[e[2]][1], e[2]>>
    BY <1>3 DEF Indexed
  <2>3. \A e \in r.node_names : e[2] \in Taken(r) /\ e = <<r.names[e[2]][2], e[2]>>
    BY <1>3 DEF Indexed
  <2>4. \A e \in r.node_names : e[1] # node <=> e[2] \notin gone
    BY <2>1, <2>3
  <2>5. \A e \in r.pid_names :
           e \in {<<r.names[x][1], x>> : x \in {y \in gone : r.names[y] # NoEntry}} <=> e[2] \in gone
    <3> HIDE DEF gone
    <3>1. SUFFICES ASSUME NEW e \in r.pid_names
                   PROVE  (\E x \in gone : r.names[x] # NoEntry /\ e = <<r.names[x][1], x>>) <=> e[2] \in gone
      OBVIOUS
    <3>2. e[2] \in Taken(r) /\ e = <<r.names[e[2]][1], e[2]>>
      BY <2>2
    <3>3. PICK y : y = e[2]
      OBVIOUS
    <3> QED BY <3>2, <3>3 DEF Taken
  <2> HIDE DEF gone
  <2> QED BY <1>1, <2>4, <2>5
<1>4. Fine(n, r, new)
  BY <1>1, <1>2, <1>3, FreeFine
<1> QED BY <1>4 DEF new

\* A pid that another node sent leads to it, or away from both.
LEMMA QualifyType ==
  ASSUME NEW pid \in AnyPid, NEW s \in Sessions
  PROVE  Qualify(pid, s) \in AnyPid /\ Qualify(pid, s).node # 0
BY BoundsAssumption DEF Qualify, AnyPid, Pid, Sessions

LEMMA MergeFine ==
  ASSUME NEW n \in Nodes, NEW r \in Replica, NEW entries \in Snapshots, NEW s \in Sessions
  PROVE  Fine(n, r, merge_snapshot(r, entries, s))
<1> DEFINE new == {e \in entries : r.names[e[1]] = NoEntry}
           Entry(x) == CHOOSE e \in new : e[1] = x
           fresh == {e[1] : e \in new}
           m == merge_snapshot(r, entries, s)
<1>1. /\ m.names = [x \in Names |-> IF \E e \in new : e[1] = x
                                    THEN <<Qualify(Entry(x)[2], s), Entry(x)[3]>> ELSE r.names[x]]
      /\ m.pid_names = r.pid_names \cup {<<Qualify(e[2], s), e[1]>> : e \in new}
      /\ m.node_names = r.node_names \cup {<<e[3], e[1]>> : e \in new}
      /\ m = [names |-> m.names, pid_names |-> m.pid_names, node_names |-> m.node_names]
  BY DEF merge_snapshot
<1>2. \A e \in new : /\ e[1] \in Names /\ e[2] \in AnyPid /\ e[3] \in Nodes
                     /\ Qualify(e[2], s) \in AnyPid /\ Qualify(e[2], s).node # 0
                     /\ r.names[e[1]] = NoEntry
  BY QualifyType DEF Snapshots
<1>3. \A e \in new : Entry(e[1]) = e
  <2>1. \A c, d \in new : c[1] = d[1] => c = d
    BY DEF Snapshots
  <2> HIDE DEF new
  <2> QED BY <2>1
<1> HIDE DEF m, new, Entry
<1>4. \A e \in new : m.names[e[1]] = <<Qualify(e[2], s), e[3]>>
  BY <1>1, <1>2, <1>3
<1>5. \A x \in Names \ fresh : m.names[x] = r.names[x]
  BY <1>1
<1>6. fresh \subseteq Names
  BY <1>2
<1>7. m \in Replica
  <2>1. \A x \in Names : m.names[x] \in Entries
    <3>1. \A x \in fresh : m.names[x] \in Entries
      BY <1>2, <1>4, EntryType
    <3>2. \A x \in Names : r.names[x] \in Entries
      BY DEF Replica
    <3> HIDE DEF fresh
    <3> QED BY <1>5, <3>1, <3>2
  <2>2. m.names \in [Names -> Entries]
    BY <1>1, <2>1
  <2>3. m.pid_names \subseteq AnyPid \X Names /\ m.node_names \subseteq Nodes \X Names
    BY <1>1, <1>2 DEF Replica
  <2> QED BY <1>1, <2>2, <2>3 DEF Replica
<1>8. Taken(m) = Taken(r) \cup fresh /\ Taken(r) \cap fresh = {}
  <2>1. \A x \in fresh : m.names[x] # NoEntry /\ r.names[x] = NoEntry
    BY <1>2, <1>4, EntryType
  <2> HIDE DEF fresh
  <2> QED BY <1>5, <1>6, <2>1 DEF Taken
<1>9. ASSUME Indexed(r) PROVE Indexed(m)
  <2>1. /\ r.pid_names = {<<m.names[x][1], x>> : x \in Taken(r)}
        /\ r.node_names = {<<m.names[x][2], x>> : x \in Taken(r)}
    <3>1. \A x \in Taken(r) : m.names[x] = r.names[x]
      BY <1>5, <1>8 DEF Taken
    <3> QED BY <1>9, <3>1 DEF Indexed
  <2>2. \A e \in new : m.names[e[1]][1] = Qualify(e[2], s) /\ m.names[e[1]][2] = e[3]
    BY <1>4
  <2>3. {<<Qualify(e[2], s), e[1]>> : e \in new} = {<<m.names[x][1], x>> : x \in fresh}
    BY <2>2
  <2>4. {<<e[3], e[1]>> : e \in new} = {<<m.names[x][2], x>> : x \in fresh}
    BY <2>2
  <2> HIDE DEF fresh
  <2>5. m.pid_names = {<<m.names[x][1], x>> : x \in Taken(r) \cup fresh}
    <3>1. m.pid_names = {<<m.names[x][1], x>> : x \in Taken(r)} \cup {<<m.names[x][1], x>> : x \in fresh}
      BY <1>1, <2>1, <2>3, Zenon
    <3>2. PICK f : f = m.names
      OBVIOUS
    <3> QED BY <3>1, <3>2, Zenon
  <2>6. m.node_names = {<<m.names[x][2], x>> : x \in Taken(r) \cup fresh}
    <3>1. m.node_names = {<<m.names[x][2], x>> : x \in Taken(r)} \cup {<<m.names[x][2], x>> : x \in fresh}
      BY <1>1, <2>1, <2>4, Zenon
    <3>2. PICK f : f = m.names
      OBVIOUS
    <3> QED BY <3>1, <3>2, Zenon
  <2> QED BY <1>8, <2>5, <2>6 DEF Indexed
<1>10. LeadsAway(n, r) => LeadsAway(n, m)
  <2>1. \A x \in Taken(r) : m.names[x] = r.names[x]
    BY <1>5, <1>8 DEF Taken
  <2>2. \A e \in new : m.names[e[1]][1].node # 0
    BY <1>2, <1>4
  <2> QED BY <1>8, <2>1, <2>2 DEF LeadsAway
<1>11. \A x \in Taken(r) : m.names[x] \in {NoEntry, r.names[x]}
  BY <1>5, <1>8 DEF Taken
<1>12. Fine(n, r, m)
  BY <1>7, <1>9, <1>10, <1>11 DEF Fine
<1> QED BY <1>12 DEF m

-----------------------------------------------------------------------------
(* What nodes tell each other.                                             *)

LEMMA OtherType == ASSUME NEW n \in Nodes PROVE Other(n) \in Nodes
BY NodesAssumption DEF Other

LEMMA FrameType ==
  ASSUME NEW msg \in Frames
  PROVE  /\ msg[1] \in {"register", "unregister", "sync"}
         /\ msg[1] = "register" => msg[2] \in Names /\ msg[3] \in AnyPid /\ msg[4] \in Nodes
         /\ msg[1] = "unregister" => msg[2] \in Names
         /\ msg[1] = "sync" => msg[2] \in Snapshots
BY DEF Frames

LEMMA SnapshotType ==
  ASSUME NEW r \in Replica
  PROVE  snapshot(r) \in Snapshots
<1>1. snapshot(r) = {<<x, r.names[x][1], r.names[x][2]>> : x \in Taken(r)}
  BY DEF snapshot, Taken
<1>2. snapshot(r) \in SUBSET (Names \X AnyPid \X Nodes)
  BY <1>1, TakenType
<1>3. \A c, d \in snapshot(r) : c[1] = d[1] => c = d
  <2>1. SUFFICES ASSUME NEW x \in Taken(r), NEW y \in Taken(r), x = y
                 PROVE  <<x, r.names[x][1], r.names[x][2]>> = <<y, r.names[y][1], r.names[y][2]>>
    BY <1>1
  <2> QED BY <2>1
<1> QED BY <1>2, <1>3 DEF Snapshots

LEMMA WrittenType ==
  ASSUME Carried, NEW n \in Nodes, NEW s \in {0} \cup Sessions, NEW m \in Frames
  PROVE  Written(n, s, m) \in [Sessions -> [Nodes -> Seq(Frames)]]
<1>1. ASSUME s # 0 PROVE Append(wire[s][n], m) \in Seq(Frames)
  BY <1>1 DEF Carried
<1>2. ASSUME s # 0
      PROVE  [wire EXCEPT ![s][n] = Append(@, m)] \in [Sessions -> [Nodes -> Seq(Frames)]]
  BY <1>1, <1>2 DEF Carried
<1> QED BY <1>2 DEF Written, Carried

LEMMA HeadType ==
  ASSUME Carried, NEW n \in Nodes, NEW s \in Sessions, wire[s][n] # <<>>
  PROVE  /\ Head(wire[s][n]) \in Frames
         /\ Tail(wire[s][n]) \in Seq(Frames)
<1>1. wire[s][n] \in Seq(Frames)
  BY DEF Carried
<1> QED BY <1>1

-----------------------------------------------------------------------------
(* The steps.                                                              *)

\* A step changes one replica at most, by an operation that keeps it in order.
LEMMA ReplicaStep ==
  ASSUME TypeOK, Carried, [Next]_vars
  PROVE  \/ reg' = reg
         \/ \E n \in Nodes : \E new : reg' = [reg EXCEPT ![n] = new] /\ Fine(n, reg[n], new)
<1> DEFINE Goal == \/ reg' = reg
                   \/ \E n \in Nodes : \E new : reg' = [reg EXCEPT ![n] = new] /\ Fine(n, reg[n], new)
<1>u. ASSUME UNCHANGED reg PROVE Goal
  BY <1>u
<1>c. ASSUME NEW n \in Nodes, NEW new, reg' = [reg EXCEPT ![n] = new], Fine(n, reg[n], new)
      PROVE  Goal
  BY <1>c
<1>t. \A n \in Nodes : reg[n] \in Replica
  BY DEF TypeOK
<1>p. \A n \in Nodes : \A p \in alive[n] : Pid(0, p) \in AnyPid
  BY DEF TypeOK, AnyPid, Pid
<1> HIDE DEF Goal
<1> SUFFICES Goal
  BY DEF Goal
<1>1. ASSUME NEW n \in Nodes, NEW x \in Names, NEW p \in Pids, GlobalRegister(n, x, p)
      PROVE  Goal
  <2>1. p \in alive[n] /\ reg' = [reg EXCEPT ![n] = register(reg[n], x, Pid(0, p), n)]
    BY <1>1 DEF GlobalRegister
  <2>2. Fine(n, reg[n], register(reg[n], x, Pid(0, p), n))
    BY <1>t, <1>p, <2>1, RegisterFine
  <2> QED BY <1>c, <2>1, <2>2
<1>2. ASSUME NEW n \in Nodes, NEW x \in Names, GlobalUnregister(n, x) PROVE Goal
  <2>1. reg' = [reg EXCEPT ![n] = unregister(reg[n], x)]
    BY <1>2 DEF GlobalUnregister
  <2> QED BY <1>c, <1>t, <2>1, UnregisterFine
<1>3. ASSUME NEW n \in Nodes, NEW p \in Pids, ProcessExits(n, p) PROVE Goal
  <2>1. p \in alive[n] /\ reg' = [reg EXCEPT ![n] = cleanup_process(reg[n], Pid(0, p))]
    BY <1>3 DEF ProcessExits
  <2> QED BY <1>c, <1>t, <1>p, <2>1, CleanupProcessFine
<1>4. ASSUME NEW n \in Nodes, NEW m \in tell[n], Broadcast(n, m) PROVE Goal
  BY <1>4, <1>u DEF Broadcast
<1>5. ASSUME NEW n \in Nodes, NEW s \in Sessions, Join(n, s) PROVE Goal
  BY <1>5, <1>u DEF Join
<1>6. ASSUME NEW n \in Nodes, NEW s \in Sessions, Read(n, s) PROVE Goal
  <2> DEFINE msg == Head(wire[s][Other(n)])
             pid == Qualify(msg[3], s)
  <2>1. msg \in Frames
    BY <1>6, OtherType, HeadType DEF Read
  <2> HIDE DEF msg
  <2>2. /\ msg[1] = "register" => reg' = [reg EXCEPT ![n] = register(reg[n], msg[2], pid, msg[4])]
        /\ msg[1] = "unregister" => reg' = [reg EXCEPT ![n] = unregister(reg[n], msg[2])]
        /\ msg[1] = "sync" => reg' = [reg EXCEPT ![n] = merge_snapshot(reg[n], msg[2], s)]
    BY <1>6 DEF Read, msg
  <2>3. CASE msg[1] = "register"
    <3>1. pid \in AnyPid /\ pid.node # 0 /\ msg[2] \in Names /\ msg[4] \in Nodes
      BY <2>1, <2>3, FrameType, QualifyType
    <3> HIDE DEF pid
    <3>2. Fine(n, reg[n], register(reg[n], msg[2], pid, msg[4]))
      BY <1>t, <3>1, RegisterFine
    <3> QED BY <1>c, <2>2, <2>3, <3>2
  <2>4. CASE msg[1] = "unregister"
    BY <1>c, <1>t, <2>1, <2>2, <2>4, FrameType, UnregisterFine
  <2>5. CASE msg[1] = "sync"
    <3>1. Fine(n, reg[n], merge_snapshot(reg[n], msg[2], s))
      BY <1>t, <2>1, <2>5, FrameType, MergeFine
    <3> QED BY <1>c, <2>2, <2>5, <3>1
  <2> QED BY <2>1, <2>3, <2>4, <2>5, FrameType
<1>7. ASSUME NEW n \in Nodes, NEW s \in Sessions, CleanupNames(n, s) PROVE Goal
  <2>1. reg' = [reg EXCEPT ![n] = cleanup_node(reg[n], Other(n))]
    BY <1>7 DEF CleanupNames
  <2> QED BY <1>c, <1>t, <2>1, OtherType, CleanupNodeFine
<1>8. ASSUME NEW n \in Nodes, SendSync(n) PROVE Goal
  BY <1>8, <1>u DEF SendSync
<1>9. ASSUME NEW n \in Nodes, LoseSession(n) PROVE Goal
  BY <1>9, <1>u DEF LoseSession
<1>10. CASE UNCHANGED vars
  BY <1>10, <1>u DEF vars
<1> QED BY <1>1, <1>2, <1>3, <1>4, <1>5, <1>6, <1>7, <1>8, <1>9, <1>10 DEF Next

LEMMA CarriedStep ==
  ASSUME TypeOK, Carried, [Next]_vars
  PROVE  Carried'
<1> DEFINE Tells == tell' \in [Nodes -> SUBSET (Frames \cup ({"cleanup"} \X Sessions))]
           Snaps == snap' \in [Nodes -> {<<>>} \cup (Sessions \X Snapshots)]
           Wires == wire' \in [Sessions -> [Nodes -> Seq(Frames)]]
           Goal == Carried'
<1>g. ASSUME Tells, Snaps, Wires PROVE Goal
  BY <1>g DEF Carried
<1>t. ASSUME UNCHANGED tell PROVE Tells
  BY <1>t DEF Carried
<1>s. ASSUME UNCHANGED snap PROVE Snaps
  BY <1>s DEF Carried
<1>w. ASSUME UNCHANGED wire PROVE Wires
  BY <1>w DEF Carried
<1>m. ASSUME NEW n \in Nodes, NEW told,
             told \subseteq tell[n] \cup Frames \cup ({"cleanup"} \X Sessions),
             tell' = [tell EXCEPT ![n] = told]
      PROVE  Tells
  BY <1>m DEF Carried
<1> HIDE DEF Tells, Snaps, Wires, Goal
<1> SUFFICES Goal
  BY DEF Goal
<1>1. ASSUME NEW n \in Nodes, NEW x \in Names, NEW p \in Pids, GlobalRegister(n, x, p)
      PROVE  Goal
  <2>1. <<"register", x, Pid(0, p), n>> \in Frames
    BY DEF Frames, Pid, AnyPid
  <2>2. tell' = [tell EXCEPT ![n] = tell[n] \cup {<<"register", x, Pid(0, p), n>>}]
    BY <1>1 DEF GlobalRegister
  <2>3. Tells
    BY <1>m, <2>1, <2>2
  <2> QED BY <1>1, <1>g, <1>s, <1>w, <2>3 DEF GlobalRegister
<1>2. ASSUME NEW n \in Nodes, NEW x \in Names, GlobalUnregister(n, x) PROVE Goal
  <2>1. <<"unregister", x>> \in Frames
    BY DEF Frames
  <2>2. tell' = [tell EXCEPT ![n] = tell[n] \cup {<<"unregister", x>>}]
    BY <1>2 DEF GlobalUnregister
  <2>3. Tells
    BY <1>m, <2>1, <2>2
  <2> QED BY <1>2, <1>g, <1>s, <1>w, <2>3 DEF GlobalUnregister
<1>3. ASSUME NEW n \in Nodes, NEW p \in Pids, ProcessExits(n, p) PROVE Goal
  <2>1. \A x \in Names : <<"unregister", x>> \in Frames
    BY DEF Frames
  <2>2. PICK told : /\ told = tell[n] \cup {<<"unregister", x>> :
                                         x \in {y \in Names : <<Pid(0, p), y>> \in reg[n].pid_names}}
                    /\ tell' = [tell EXCEPT ![n] = told]
    BY <1>3 DEF ProcessExits
  <2>3. told \subseteq tell[n] \cup Frames
    BY <2>1, <2>2
  <2>4. Tells
    BY <1>m, <2>2, <2>3
  <2> QED BY <1>3, <1>g, <1>s, <1>w, <2>4 DEF ProcessExits
<1>4. ASSUME NEW n \in Nodes, NEW m \in tell[n], m[1] # "cleanup", Broadcast(n, m) PROVE Goal
  <2>1. m \in Frames
    BY <1>4 DEF Carried
  <2>2. session[n] \in {0} \cup Sessions
    BY DEF TypeOK
  <2>3. Wires
    BY <1>4, <2>1, <2>2, WrittenType DEF Broadcast, Wires
  <2>4. tell' = [tell EXCEPT ![n] = tell[n] \ {m}]
    BY <1>4 DEF Broadcast
  <2>5. Tells
    BY <1>m, <2>4
  <2> QED BY <1>4, <1>g, <1>s, <2>3, <2>5 DEF Broadcast
<1>5. ASSUME NEW n \in Nodes, NEW s \in Sessions, Join(n, s) PROVE Goal
  <2>1. snapshot(reg[n]) \in Snapshots
    BY SnapshotType DEF TypeOK
  <2>2. Snaps
    BY <1>5, <2>1 DEF Join, Snaps, Carried
  <2> QED BY <1>5, <1>g, <1>t, <1>w, <2>2 DEF Join
<1>6. ASSUME NEW n \in Nodes, NEW s \in Sessions, Read(n, s) PROVE Goal
  <2>1. Tail(wire[s][Other(n)]) \in Seq(Frames)
    BY <1>6, OtherType, HeadType DEF Read
  <2>2. Wires
    BY <1>6, <2>1 DEF Read, Wires, Carried
  <2> QED BY <1>6, <1>g, <1>t, <1>s, <2>2 DEF Read
<1>7. ASSUME NEW n \in Nodes, NEW s \in Sessions, CleanupNames(n, s) PROVE Goal
  <2>1. \A x \in Names : <<"unregister", x>> \in Frames
    BY DEF Frames
  <2>2. PICK told : /\ told = (tell[n] \ {<<"cleanup", s>>}) \cup
                           {<<"unregister", x>> : x \in {y \in Names : <<Other(n), y>> \in reg[n].node_names}}
                    /\ tell' = [tell EXCEPT ![n] = told]
    BY <1>7 DEF CleanupNames
  <2>3. told \subseteq tell[n] \cup Frames
    BY <2>1, <2>2
  <2>4. Tells
    BY <1>m, <2>2, <2>3
  <2> QED BY <1>7, <1>g, <1>s, <1>w, <2>4 DEF CleanupNames
<1>8. ASSUME NEW n \in Nodes, SendSync(n) PROVE Goal
  <2>1. snap[n] \in Sessions \X Snapshots
    BY <1>8 DEF SendSync, Carried
  <2>2. <<"sync", snap[n][2]>> \in Frames /\ snap[n][1] \in Sessions
    BY <2>1 DEF Frames
  <2>3. Wires
    BY <1>8, <1>w, <2>2, WrittenType DEF SendSync, Wires
  <2>4. Snaps
    BY <1>8 DEF SendSync, Snaps, Carried
  <2> QED BY <1>8, <1>g, <1>t, <2>3, <2>4 DEF SendSync
<1>9. ASSUME NEW n \in Nodes, LoseSession(n) PROVE Goal
  <2>1. session[n] \in Sessions
    BY <1>9 DEF LoseSession, TypeOK
  <2>2. tell' = [tell EXCEPT ![n] = tell[n] \cup {<<"cleanup", session[n]>>}]
    BY <1>9 DEF LoseSession
  <2>3. Tells
    <3>1. <<"cleanup", session[n]>> \in {"cleanup"} \X Sessions
      BY <2>1
    <3>2. tell[n] \cup {<<"cleanup", session[n]>>} \subseteq tell[n] \cup Frames \cup ({"cleanup"} \X Sessions)
      BY <3>1
    <3> QED BY <1>m, <2>2, <3>2
  <2>4. Wires
    <3>1. PICK s \in Sessions : s = session[n]
      BY <2>1
    <3>2. PICK o : o = Other(n)
      OBVIOUS
    <3>3. wire' = [wire EXCEPT ![s][o] = <<>>]
      BY <1>9, <3>1, <3>2 DEF LoseSession
    <3>4. <<>> \in Seq(Frames)
      OBVIOUS
    <3> QED BY <3>3, <3>4 DEF Wires, Carried
  <2> QED BY <1>9, <1>g, <1>s, <2>3, <2>4 DEF LoseSession
<1>10. CASE UNCHANGED vars
  BY <1>10, <1>g, <1>t, <1>s, <1>w DEF vars
<1> QED BY <1>1, <1>2, <1>3, <1>4, <1>5, <1>6, <1>7, <1>8, <1>9, <1>10 DEF Next

\* The small variables.
LEMMA TypeStep ==
  ASSUME TypeOK, Carried, [Next]_vars
  PROVE  TypeOK'
<1>1. reg' \in [Nodes -> Replica]
  BY ReplicaStep DEF TypeOK, Fine
<1>2. session' \in [Nodes -> {0} \cup Sessions] /\ left' \in [Nodes -> {0} \cup Sessions]
  <2>1. \/ UNCHANGED <<session, left>>
        \/ \E n \in Nodes, s \in Sessions : Join(n, s)
        \/ \E n \in Nodes : LoseSession(n)
    BY DEF Next, GlobalRegister, GlobalUnregister, ProcessExits, Broadcast, Read,
           CleanupNames, SendSync, vars
  <2>2. session \in [Nodes -> {0} \cup Sessions] /\ left \in [Nodes -> {0} \cup Sessions]
    BY DEF TypeOK
  <2>3. ASSUME NEW n \in Nodes, NEW s \in Sessions, Join(n, s)
        PROVE  session' = [session EXCEPT ![n] = s] /\ left' = left
    BY <2>3 DEF Join
  <2>4. ASSUME NEW n \in Nodes, LoseSession(n)
        PROVE  session' = [session EXCEPT ![n] = 0] /\ left' = [left EXCEPT ![n] = session[n]]
    BY <2>4 DEF LoseSession
  <2> QED BY <2>1, <2>2, <2>3, <2>4
<1>3. alive' \in [Nodes -> SUBSET Pids]
  <2>1. \/ UNCHANGED alive
        \/ \E n \in Nodes, p \in Pids : alive' = [alive EXCEPT ![n] = alive[n] \ {p}]
    BY DEF Next, GlobalRegister, GlobalUnregister, ProcessExits, Broadcast, Join, Read,
           CleanupNames, SendSync, LoseSession, vars
  <2>2. alive \in [Nodes -> SUBSET Pids]
    BY DEF TypeOK
  <2> QED BY <2>1, <2>2
<1>4. ops' \in 0..MaxOps
  <2>1. ops' = ops \/ (ops < MaxOps /\ ops' = ops + 1)
    BY DEF Next, GlobalRegister, GlobalUnregister, ProcessExits, Broadcast, Join, Read,
           CleanupNames, SendSync, LoseSession, vars
  <2> QED BY <2>1, BoundsAssumption DEF TypeOK
<1> QED BY <1>1, <1>2, <1>3, <1>4 DEF TypeOK

\* The properties of all replicas are those of each.
LEMMA OfEach ==
  /\ IndexesAgree <=> \A n \in Nodes : Indexed(reg[n])
  /\ RemoteNamesLeadAway <=> \A n \in Nodes : LeadsAway(n, reg[n])
BY DEF IndexesAgree, RemoteNamesLeadAway, Indexed, LeadsAway, Taken

LEMMA OrderStep ==
  ASSUME TypeOK, Carried, IndexesAgree, RemoteNamesLeadAway, [Next]_vars
  PROVE  IndexesAgree' /\ RemoteNamesLeadAway'
<1>1. \A n \in Nodes : Indexed(reg[n]) /\ LeadsAway(n, reg[n])
  BY OfEach
<1>2. \A n \in Nodes : Indexed(reg'[n]) /\ LeadsAway(n, reg'[n])
  BY <1>1, ReplicaStep DEF TypeOK, Fine
<1>3. IndexesAgree' <=> \A n \in Nodes : Indexed(reg'[n])
  BY DEF IndexesAgree, Indexed, Taken
<1>4. RemoteNamesLeadAway' <=> \A n \in Nodes : LeadsAway(n, reg'[n])
  BY DEF RemoteNamesLeadAway, LeadsAway, Taken
<1> QED BY <1>2, <1>3, <1>4

LEMMA WriterStep ==
  ASSUME TypeOK, Carried, [Next]_vars
  PROVE  KeepsFirstWriter
<1> SUFFICES ASSUME NEW n \in Nodes, NEW x \in Names, reg[n].names[x] # NoEntry
             PROVE  reg'[n].names[x] \in {NoEntry, reg[n].names[x]}
  BY DEF KeepsFirstWriter
<1>1. x \in Taken(reg[n])
  BY DEF Taken
<1>2. reg'[n] = reg[n] \/ Fine(n, reg[n], reg'[n])
  BY ReplicaStep DEF TypeOK
<1> QED BY <1>1, <1>2 DEF Fine

-----------------------------------------------------------------------------
(* The theorems.                                                           *)

LEMMA InitOK == Init => NamesAgree /\ Carried
<1> SUFFICES ASSUME Init PROVE NamesAgree /\ Carried
  OBVIOUS
<1>1. EmptyReg \in Replica
  BY DEF EmptyReg, Replica, Entries
<1>2. TypeOK
  BY <1>1, BoundsAssumption DEF Init, TypeOK
<1>3. \A n \in Nodes : Taken(reg[n]) = {}
  BY DEF Init, EmptyReg, Taken
<1>4. \A n \in Nodes : Indexed(reg[n]) /\ LeadsAway(n, reg[n])
  BY <1>3 DEF Init, EmptyReg, Indexed, LeadsAway
<1>5. Carried
  BY DEF Init, Carried
<1> QED BY <1>2, <1>4, <1>5, OfEach DEF NamesAgree

\* GlobalRegistry: whatever mix of registrations, exits, lost sessions and
\* snapshots a replica has seen, its two reverse indexes list exactly the names
\* that are registered, and no name of the other node leads to a process of its own.
THEOREM NamesInOrder == Spec => []NamesAgree
<1> DEFINE Inv == NamesAgree /\ Carried
<1>1. Init => Inv
  BY InitOK
<1>2. Inv /\ [Next]_vars => Inv'
  BY TypeStep, CarriedStep, OrderStep DEF NamesAgree
<1> QED BY <1>1, <1>2, PTL DEF Spec

\* register, merge_snapshot: the first registration of a name stands, on every
\* node, until it is removed.
THEOREM FirstWriter == Spec => FirstWriterStands
<1> DEFINE Inv == NamesAgree /\ Carried
<1>1. Init => Inv
  BY InitOK
<1>2. Inv /\ [Next]_vars => Inv'
  BY TypeStep, CarriedStep, OrderStep DEF NamesAgree
<1>3. Inv /\ [Next]_vars => [KeepsFirstWriter]_vars
  BY WriterStep DEF NamesAgree
<1> QED BY <1>1, <1>2, <1>3, PTL DEF Spec, FirstWriterStands
=============================================================================
