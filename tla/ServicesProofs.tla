--------------------------- MODULE ServicesProofs ---------------------------
(***************************************************************************)
(* Proofs about the services of a node.                                    *)
(***************************************************************************)
EXTENDS Rooms, Supervisor, Reply, WsConnection, SequenceTheorems, WellFoundedInduction, TLAPS

-----------------------------------------------------------------------------
(* Sequences.                                                              *)

LEMMA RangeAppend ==
  ASSUME NEW S, NEW s \in Seq(S), NEW e \in S
  PROVE  /\ Append(s, e) \in Seq(S)
         /\ Range(Append(s, e)) = Range(s) \cup {e}
         /\ IsInjective(s) /\ e \notin Range(s) => IsInjective(Append(s, e))
<1> DEFINE t == Append(s, e)
<1>1. /\ t \in Seq(S) /\ Len(t) = Len(s) + 1 /\ Len(s) \in Nat
      /\ \A i \in 1..Len(s) : t[i] = s[i]
      /\ t[Len(s) + 1] = e
      /\ DOMAIN t = 1..(Len(s) + 1) /\ DOMAIN s = 1..Len(s)
  BY AppendProperties, LenProperties
<1> HIDE DEF t
<1>2. Range(t) = Range(s) \cup {e}
  <2>1. \A i \in DOMAIN t : t[i] \in Range(s) \cup {e}
    BY <1>1 DEF Range
  <2>2. \A i \in DOMAIN s : s[i] \in Range(t)
    BY <1>1 DEF Range
  <2>3. e \in Range(t)
    BY <1>1 DEF Range
  <2> QED BY <2>1, <2>2, <2>3 DEF Range
<1>3. IsInjective(s) /\ e \notin Range(s) => IsInjective(t)
  BY <1>1 DEF IsInjective, Range
<1> QED BY <1>1, <1>2, <1>3 DEF t

LEMMA RangeTail ==
  ASSUME NEW S, NEW s \in Seq(S), s # <<>>
  PROVE  /\ Tail(s) \in Seq(S) /\ Head(s) \in S
         /\ Range(s) = {Head(s)} \cup Range(Tail(s))
         /\ IsInjective(s) => IsInjective(Tail(s)) /\ Head(s) \notin Range(Tail(s))
<1> DEFINE t == Tail(s)
<1>1. /\ t \in Seq(S) /\ Head(s) \in S /\ Len(t) = Len(s) - 1 /\ Len(s) \in Nat \ {0}
      /\ \A i \in 1..Len(t) : t[i] = s[i + 1]
      /\ Head(s) = s[1]
      /\ DOMAIN t = 1..Len(t) /\ DOMAIN s = 1..Len(s)
  BY HeadTailProperties, LenProperties, EmptySeq
<1> HIDE DEF t
<1>2. Range(s) = {Head(s)} \cup Range(t)
  <2>1. \A i \in DOMAIN s : i = 1 \/ (i - 1 \in DOMAIN t /\ s[i] = t[i - 1])
    BY <1>1
  <2>2. \A i \in DOMAIN s : s[i] \in {Head(s)} \cup Range(t)
    BY <1>1, <2>1 DEF Range
  <2>3. \A i \in DOMAIN t : t[i] \in Range(s)
    BY <1>1 DEF Range
  <2>4. Head(s) \in Range(s)
    BY <1>1 DEF Range
  <2> QED BY <2>2, <2>3, <2>4 DEF Range
<1>3. IsInjective(s) => IsInjective(t) /\ Head(s) \notin Range(t)
  <2> SUFFICES ASSUME IsInjective(s)
               PROVE  IsInjective(t) /\ Head(s) \notin Range(t)
    OBVIOUS
  <2>1. \A a, b \in 1..Len(s) : s[a] = s[b] => a = b
    BY <1>1 DEF IsInjective
  <2>2. \A a, b \in 1..Len(t) : t[a] = t[b] => a = b
    BY <1>1, <2>1
  <2>3. \A a \in 1..Len(t) : t[a] # Head(s)
    BY <1>1, <2>1
  <2> QED BY <1>1, <2>2, <2>3 DEF IsInjective, Range
<1> QED BY <1>1, <1>2, <1>3 DEF t

LEMMA RangeEmpty == Range(<<>>) = {} /\ IsInjective(<<>>)
BY EmptySeq, LenProperties DEF Range, IsInjective

\* The elements of a concatenation, by what it is made of.
LEMMA Concatenated ==
  ASSUME NEW S, NEW s \in Seq(S), NEW t \in Seq(S), NEW m \in Nat, NEW n \in Nat,
         Len(s) = m, Len(t) = n
  PROVE  /\ s \o t \in Seq(S) /\ Len(s \o t) = m + n
         /\ \A k \in 1..m : (s \o t)[k] = s[k]
         /\ \A k \in 1..n : (s \o t)[m + k] = t[k]
<1> DEFINE c == s \o t
<1>1. /\ c \in Seq(S) /\ Len(c) = Len(s) + Len(t)
      /\ \A k \in 1..Len(s) + Len(t) : c[k] = IF k <= Len(s) THEN s[k] ELSE t[k - Len(s)]
  BY ConcatProperties, Zenon
<1> HIDE DEF c
<1>2. \A k \in 1..m : k \in 1..(m + n) /\ k <= m
  OBVIOUS
<1>3. \A k \in 1..n : m + k \in 1..(m + n) /\ ~(m + k <= m) /\ m + k - m = k
  OBVIOUS
<1>4. \A k \in 1..m : c[k] = s[k]
  BY <1>1, <1>2
<1>5. ASSUME NEW k \in 1..n
      PROVE  c[m + k] = t[k]
  <2>1. m + k \in 1..Len(s) + Len(t) /\ ~(m + k <= Len(s)) /\ m + k - Len(s) = k
    BY <1>3
  <2>2. c[m + k] = IF m + k <= Len(s) THEN s[m + k] ELSE t[m + k - Len(s)]
    BY <1>1, <2>1
  <2> QED BY <2>1, <2>2
<1> QED BY <1>1, <1>4, <1>5 DEF c

-----------------------------------------------------------------------------
(* Rooms and their broadcasts (ws/rooms.rs).                               *)

\* Who has stayed in a room since a broadcast began is a member, on a connection
\* that is not shut down.
StayedAreMembers == \A b \in Broadcasts : \A c \in stayed[b] : c \in rooms[Room[b]] /\ Writable(c)

\* What is left of a snapshot is members of that node, who are to be written
\* the broadcast and have not been.
UnsentAreToBeSent ==
    \A n \in Nodes, b \in Broadcasts : \A c \in unsent[n][b] :
        NodeOf[c] = n /\ c # Except[b] /\ b \notin Range(got[c])

\* Where a broadcast is: at its node until it is sent, then on its way to
\* each other node once, and nowhere else.
InOnePlace ==
    /\ \A n \in Nodes : IsInjective(wire[n])
    /\ \A n \in Nodes, b \in Broadcasts :
          /\ unsent[n][b] # {} => stage[b] = IF n = From[b] THEN "local" ELSE "sent"
          /\ b \in Range(wire[n]) => stage[b] = "sent" /\ n # From[b] /\ unsent[n][b] = {}
    /\ \A b \in Broadcasts, c \in Conns :
          /\ stage[b] = "new" => stayed[b] = {}
          /\ b \in Range(got[c]) => /\ stage[b] = "sent" \/ (stage[b] = "local" /\ NodeOf[c] = From[b])
                                    /\ b \notin Range(wire[NodeOf[c]])

\* A member that has stayed has the broadcast, or it is on its way to it.
OnItsWay ==
    \A b \in Broadcasts : \A c \in stayed[b] \ {Except[b]} :
        \/ b \in Range(got[c]) \/ c \in unsent[NodeOf[c]][b]
        \/ NodeOf[c] # From[b] /\ (stage[b] = "local" \/ b \in Range(wire[NodeOf[c]]))

\* What holds of the broadcasts until one is written to a handle that was freed.
Reaching == WrittenOnce /\ StayedAreMembers /\ UnsentAreToBeSent /\ InOnePlace /\ OnItsWay

RoomsInv == RoomsTypeOK /\ NoGhosts /\ (~wild => Reaching)

LEMMA RoomsInitInv == RoomsInit => RoomsInv
<1> SUFFICES ASSUME RoomsInit PROVE RoomsInv
  OBVIOUS
<1>1. RoomsTypeOK
  <2>1. wild \in BOOLEAN /\ stray \subseteq Conns
    BY DEF RoomsInit
  <2>2. \A S : <<>> \in Seq(S)
    OBVIOUS
  <2>3. /\ rooms \in [RoomNames -> SUBSET Conns] /\ connrooms \in [Conns -> SUBSET RoomNames]
        /\ life \in [Conns -> {"met", "open", "left", "shut", "freed"}]
        /\ stage \in [Broadcasts -> {"new", "local", "sent"}] /\ stayed \in [Broadcasts -> SUBSET Conns]
        /\ unsent \in [Nodes -> [Broadcasts -> SUBSET Conns]]
    BY DEF RoomsInit
  <2>4. got \in [Conns -> Seq(Broadcasts)] /\ wire \in [Nodes -> Seq(Broadcasts)]
    BY <2>2 DEF RoomsInit
  <2> QED BY <2>1, <2>3, <2>4 DEF RoomsTypeOK
<1>2. NoGhosts /\ StayedAreMembers /\ UnsentAreToBeSent /\ OnItsWay
  BY RoomsAssumption DEF RoomsInit, NoGhosts, StayedAreMembers, UnsentAreToBeSent, OnItsWay
<1>3. WrittenOnce /\ InOnePlace
  BY RoomsAssumption, RangeEmpty DEF RoomsInit, WrittenOnce, InOnePlace
<1> QED BY <1>1, <1>2, <1>3 DEF RoomsInv, Reaching

\* What happens to a connection changes the two tables and its state only.
LEMMA TablesStep ==
  ASSUME RoomsInv, NEW c \in Conns,
         \/ \E r \in RoomNames : join(c, r) \/ leave(c, r)
         \/ Admit(c) \/ cleanup_connection(c) \/ ShutDown(c) \/ Free(c)
  PROVE  RoomsInv'
<1> USE RoomsAssumption DEF RoomsTypeOK
<1>t. RoomsTypeOK /\ NoGhosts
  BY DEF RoomsInv
<1>1. UNCHANGED <<wild, stage, unsent, wire, got>>
  BY DEF join, leave, Admit, cleanup_connection, ShutDown, Free, sending
<1>2. /\ stayed' \in [Broadcasts -> SUBSET Conns]
      /\ \A b \in Broadcasts : stayed'[b] \subseteq stayed[b]
  <2>1. ASSUME NEW r \in RoomNames, leave(c, r)
        PROVE  <1>2
    BY <1>t, <2>1 DEF leave
  <2>2. CASE cleanup_connection(c)
    BY <1>t, <2>2 DEF cleanup_connection
  <2>3. CASE ShutDown(c)
    BY <1>t, <2>3 DEF ShutDown
  <2>4. CASE UNCHANGED stayed
    BY <1>t, <2>4
  <2> QED BY <2>1, <2>2, <2>3, <2>4 DEF join, Admit, Free
<1>3. RoomsTypeOK'
  <2>1. ASSUME NEW r \in RoomNames, join(c, r)
        PROVE  RoomsTypeOK'
    BY <1>t, <1>1, <1>2, <2>1 DEF join
  <2>2. ASSUME NEW r \in RoomNames, leave(c, r)
        PROVE  RoomsTypeOK'
    BY <1>t, <1>1, <1>2, <2>2 DEF leave
  <2>3. CASE cleanup_connection(c)
    BY <1>t, <1>1, <1>2, <2>3 DEF cleanup_connection
  <2>4. CASE Admit(c)
    BY <1>t, <1>1, <1>2, <2>4 DEF Admit
  <2>5. CASE ShutDown(c)
    BY <1>t, <1>1, <1>2, <2>5 DEF ShutDown
  <2>6. CASE Free(c)
    BY <1>t, <1>1, <1>2, <2>6 DEF Free
  <2> QED BY <2>1, <2>2, <2>3, <2>4, <2>5, <2>6
<1>4. NoGhosts'
  <2>1. CASE \E r \in RoomNames : join(c, r)
    BY <1>t, <2>1 DEF join, NoGhosts
  <2>2. CASE \E r \in RoomNames : leave(c, r)
    BY <1>t, <2>2 DEF leave, NoGhosts
  <2>3. CASE cleanup_connection(c)
    BY <1>t, <2>3 DEF cleanup_connection, NoGhosts
  <2>4. CASE Admit(c)
    BY <1>t, <2>4 DEF Admit, NoGhosts
  <2>5. CASE ShutDown(c)
    BY <1>t, <2>5 DEF ShutDown, NoGhosts
  <2>6. CASE Free(c)
    BY <1>t, <2>6 DEF Free, NoGhosts
  <2> QED BY <2>1, <2>2, <2>3, <2>4, <2>5, <2>6
<1>5. ASSUME ~wild' PROVE Reaching'
  <2>r. Reaching
    BY <1>1, <1>5 DEF RoomsInv
  <2>1. StayedAreMembers'
    <3>r. \A b \in Broadcasts : \A d \in stayed[b] : d \in Conns /\ d \in rooms[Room[b]] /\ Writable(d)
      BY <1>t, <2>r DEF Reaching, StayedAreMembers
    <3>1. CASE \E r \in RoomNames : join(c, r)
      BY <1>t, <3>r, <3>1 DEF join, StayedAreMembers, Writable
    <3>2. CASE \E r \in RoomNames : leave(c, r)
      BY <1>t, <3>r, <3>2 DEF leave, StayedAreMembers, Writable
    <3>3. CASE cleanup_connection(c)
      BY <1>t, <3>r, <3>3 DEF cleanup_connection, StayedAreMembers, Writable
    <3>4. CASE Admit(c)
      BY <1>t, <3>r, <3>4 DEF Admit, StayedAreMembers, Writable
    <3>5. CASE ShutDown(c)
      BY <1>t, <3>r, <3>5 DEF ShutDown, StayedAreMembers, Writable
    <3>6. CASE Free(c)
      BY <1>t, <3>r, <3>6 DEF Free, StayedAreMembers, Writable
    <3> QED BY <3>1, <3>2, <3>3, <3>4, <3>5, <3>6
  <2>2. WrittenOnce' /\ UnsentAreToBeSent'
    BY <1>1, <2>r DEF Reaching, WrittenOnce, UnsentAreToBeSent
  <2>3. InOnePlace'
    BY <1>t, <1>1, <1>2, <2>r DEF Reaching, InOnePlace
  <2>4. OnItsWay'
    BY <1>t, <1>1, <1>2, <2>r DEF Reaching, OnItsWay
  <2> QED BY <2>1, <2>2, <2>3, <2>4 DEF Reaching
<1> QED BY <1>3, <1>4, <1>5 DEF RoomsInv

LEMMA BroadcastStep ==
  ASSUME RoomsInv, NEW b \in Broadcasts, Broadcast(b)
  PROVE  RoomsInv'
<1> USE RoomsAssumption DEF RoomsTypeOK
<1>t. RoomsTypeOK /\ NoGhosts /\ (~wild => Reaching)
  BY DEF RoomsInv
<1> DEFINE n == From[b]
<1>1. /\ stage[b] = "new" /\ stage' = [stage EXCEPT ![b] = "local"]
      /\ unsent' = [unsent EXCEPT ![n][b] = members(n, Room[b]) \ {Except[b]}]
      /\ stayed' = [stayed EXCEPT ![b] = {c \in rooms[Room[b]] : Writable(c)}]
      /\ UNCHANGED <<rooms, connrooms, life, stray, wild, wire, got>>
      /\ n \in Nodes
  BY <1>t DEF Broadcast
<1>2. members(n, Room[b]) \subseteq {c \in Conns : NodeOf[c] = n}
  BY <1>t DEF members
<1>3. RoomsTypeOK'
  BY <1>t, <1>1, <1>2
<1>4. NoGhosts'
  BY <1>t, <1>1 DEF NoGhosts
<1>5. ASSUME ~wild' PROVE Reaching'
  <2>r. Reaching
    BY <1>t, <1>1, <1>5
  <2>1. \A c \in Conns : b \notin Range(got[c])
    BY <1>t, <1>1, <2>r DEF Reaching, InOnePlace
  <2>2. WrittenOnce'
    BY <1>1, <2>r DEF Reaching, WrittenOnce
  <2>3. StayedAreMembers'
    BY <1>t, <1>1, <2>r DEF Reaching, StayedAreMembers, Writable
  <2>4. UnsentAreToBeSent'
    BY <1>t, <1>1, <1>2, <2>1, <2>r DEF Reaching, UnsentAreToBeSent
  <2>5. InOnePlace'
    BY <1>t, <1>1, <2>1, <2>r DEF Reaching, InOnePlace
  <2>6. OnItsWay'
    BY <1>t, <1>1, <1>2, <2>r DEF Reaching, OnItsWay, members
  <2> QED BY <2>2, <2>3, <2>4, <2>5, <2>6 DEF Reaching
<1> QED BY <1>3, <1>4, <1>5 DEF RoomsInv

\* Writing to one member takes it from the snapshot.
LEMMA WriteStep ==
  ASSUME RoomsInv, NEW n \in Nodes, NEW b \in Broadcasts, Write(n, b)
  PROVE  RoomsInv'
<1> USE RoomsAssumption DEF RoomsTypeOK
<1>t. RoomsTypeOK /\ NoGhosts /\ (~wild => Reaching)
  BY DEF RoomsInv
<1>1. PICK c \in unsent[n][b] :
         /\ unsent' = [unsent EXCEPT ![n][b] = @ \ {c}]
         /\ wild' = (wild \/ life[c] = "freed")
         /\ \/ ~Writable(c) /\ UNCHANGED got
            \/ Writable(c) /\ got' = [got EXCEPT ![c] = Append(@, b)]
            \/ /\ life[c] = "freed"
               /\ \E d \in Conns : NodeOf[d] = n /\ got' = [got EXCEPT ![d] = Append(@, b)]
         /\ UNCHANGED <<rooms, connrooms, life, stray, stayed, stage, wire>>
  BY DEF Write, tables
<1>2. c \in Conns /\ unsent[n][b] \subseteq Conns
  BY <1>t, <1>1
<1>3. \A d \in Conns : /\ Append(got[d], b) \in Seq(Broadcasts)
                       /\ Range(Append(got[d], b)) = Range(got[d]) \cup {b}
                       /\ b \notin Range(got[d]) /\ IsInjective(got[d]) => IsInjective(Append(got[d], b))
  BY <1>t, RangeAppend
<1>4. RoomsTypeOK'
  <2>1. got' \in [Conns -> Seq(Broadcasts)]
    <3>1. got \in [Conns -> Seq(Broadcasts)]
      BY <1>t
    <3>2. got' = got \/ \E d \in Conns : got' = [got EXCEPT ![d] = Append(@, b)]
      BY <1>1, <1>2
    <3> QED BY ONLY <3>1, <3>2, <1>3
  <2>2. wild' \in BOOLEAN
    BY <1>1
  <2> QED BY <1>t, <1>1, <2>1, <2>2
<1>5. NoGhosts'
  BY <1>t, <1>1 DEF NoGhosts
<1>6. ASSUME ~wild' PROVE Reaching'
  <2>r. Reaching /\ life[c] # "freed"
    BY <1>t, <1>1, <1>6
  <2>1. NodeOf[c] = n /\ c # Except[b] /\ b \notin Range(got[c])
    BY <2>r DEF Reaching, UnsentAreToBeSent
  <2>2. /\ \A d \in Conns \ {c} : got'[d] = got[d]
        /\ Range(got'[c]) \in {Range(got[c]), Range(got[c]) \cup {b}}
        /\ IsInjective(got[c]) => IsInjective(got'[c])
        /\ Writable(c) => b \in Range(got'[c])
    <3>1. got \in [Conns -> Seq(Broadcasts)]
      BY <1>t
    <3>2. (~Writable(c) /\ got' = got) \/ got' = [got EXCEPT ![c] = Append(@, b)]
      BY <1>1, <2>r
    <3> QED BY ONLY <3>1, <3>2, <1>2, <1>3, <2>1
  <2>3. StayedAreMembers'
    BY <1>1, <2>r DEF Reaching, StayedAreMembers, Writable
  <2>4. WrittenOnce'
    BY ZenonT(30), <1>2, <2>1, <2>2, <2>r DEF Reaching, WrittenOnce
  <2>5. UnsentAreToBeSent'
    BY <1>t, <1>1, <1>2, <2>1, <2>2, <2>r DEF Reaching, UnsentAreToBeSent
  <2>6. InOnePlace'
    <3>1. stage[b] = (IF n = From[b] THEN "local" ELSE "sent") /\ b \notin Range(wire[n])
      BY <1>1, <2>r DEF Reaching, InOnePlace
    <3> QED BY <1>t, <1>1, <1>2, <2>1, <2>2, <2>r, <3>1 DEF Reaching, InOnePlace
  <2>7. OnItsWay'
    <3>1. c \in stayed[b] => Writable(c)
      BY <1>2, <2>r DEF Reaching, StayedAreMembers
    <3> QED BY <1>t, <1>1, <1>2, <2>1, <2>2, <2>r, <3>1 DEF Reaching, OnItsWay
  <2> QED BY <2>3, <2>4, <2>5, <2>6, <2>7 DEF Reaching
<1> QED BY <1>4, <1>5, <1>6 DEF RoomsInv

LEMMA SendStep ==
  ASSUME RoomsTypeOK, Reaching, NEW b \in Broadcasts, broadcast_room_to_cluster(b)
  PROVE  Reaching'
<1> USE RoomsAssumption DEF Reaching, RoomsTypeOK
<1> DEFINE n == From[b]
<1>1. /\ stage[b] = "local" /\ unsent[n][b] = {} /\ n \in Nodes
      /\ stage' = [stage EXCEPT ![b] = "sent"]
      /\ wire' = [m \in Nodes |-> IF m = n THEN wire[m] ELSE Append(wire[m], b)]
      /\ UNCHANGED <<rooms, connrooms, life, stray, stayed, wild, unsent, got>>
  BY DEF broadcast_room_to_cluster, tables
<1>2. \A m \in Nodes : b \notin Range(wire[m])
  BY <1>1 DEF InOnePlace
<1>3. \A m \in Nodes : /\ Append(wire[m], b) \in Seq(Broadcasts)
                       /\ Range(Append(wire[m], b)) = Range(wire[m]) \cup {b}
                       /\ IsInjective(wire[m]) => IsInjective(Append(wire[m], b))
  BY <1>2, RangeAppend
<1>4. /\ wire' \in [Nodes -> Seq(Broadcasts)]
      /\ \A m \in Nodes : /\ Range(wire'[m]) = IF m = n THEN Range(wire[m]) ELSE Range(wire[m]) \cup {b}
                          /\ IsInjective(wire[m]) => IsInjective(wire'[m])
  BY <1>1, <1>3
<1>6. StayedAreMembers' /\ WrittenOnce' /\ UnsentAreToBeSent'
  BY <1>1 DEF StayedAreMembers, Writable, WrittenOnce, UnsentAreToBeSent
<1>9. stage'[b] = "sent" /\ \A d \in Broadcasts \ {b} : stage'[d] = stage[d]
  BY <1>1
<1>10. \A m \in Nodes : \A d \in Broadcasts \ {b} : d \in Range(wire'[m]) => d \in Range(wire[m])
  <2> SUFFICES ASSUME NEW m \in Nodes, NEW d \in Broadcasts \ {b}, d \in Range(wire'[m])
               PROVE  d \in Range(wire[m])
    OBVIOUS
  <2>1. Range(wire'[m]) \in {Range(wire[m]), Range(wire[m]) \cup {b}}
    BY <1>4
  <2> QED BY <2>1
<1>7. InOnePlace'
  <2>1. \A m \in Nodes : IsInjective(wire'[m])
    BY <1>4 DEF InOnePlace
  <2>2. ASSUME NEW m \in Nodes, NEW d \in Broadcasts
        PROVE  /\ unsent'[m][d] # {} => stage'[d] = IF m = From[d] THEN "local" ELSE "sent"
               /\ d \in Range(wire'[m]) => stage'[d] = "sent" /\ m # From[d] /\ unsent'[m][d] = {}
    <3>1. CASE d = b
      <4>1. m # n => unsent[m][b] = {}
        BY <1>1 DEF InOnePlace
      <4> QED BY <1>1, <1>2, <1>4, <1>9, <3>1, <4>1
    <3>2. CASE d # b
      <4>1. /\ stage'[d] = stage[d] /\ unsent'[m][d] = unsent[m][d]
            /\ d \in Range(wire'[m]) => d \in Range(wire[m])
        BY <1>1, <1>9, <1>10, <3>2
      <4>2. /\ unsent[m][d] # {} => stage[d] = IF m = From[d] THEN "local" ELSE "sent"
            /\ d \in Range(wire[m]) => stage[d] = "sent" /\ m # From[d] /\ unsent[m][d] = {}
        BY DEF InOnePlace
      <4> QED BY <4>1, <4>2
    <3> QED BY <3>1, <3>2
  <2>3. ASSUME NEW d \in Broadcasts, NEW c \in Conns
        PROVE  /\ stage'[d] = "new" => stayed'[d] = {}
               /\ d \in Range(got'[c]) =>
                     /\ stage'[d] = "sent" \/ (stage'[d] = "local" /\ NodeOf[c] = From[d])
                     /\ d \notin Range(wire'[NodeOf[c]])
    <3>1. NodeOf[c] \in Nodes
      OBVIOUS
    <3>2. CASE d = b
      BY <1>1, <1>2, <1>4, <1>9, <3>1, <3>2 DEF InOnePlace
    <3>3. CASE d # b
      <4>1. /\ stage'[d] = stage[d] /\ stayed' = stayed /\ got' = got
            /\ d \in Range(wire'[NodeOf[c]]) => d \in Range(wire[NodeOf[c]])
        BY <1>1, <1>9, <1>10, <3>1, <3>3
      <4>2. /\ stage[d] = "new" => stayed[d] = {}
            /\ d \in Range(got[c]) =>
                  /\ stage[d] = "sent" \/ (stage[d] = "local" /\ NodeOf[c] = From[d])
                  /\ d \notin Range(wire[NodeOf[c]])
        BY DEF InOnePlace
      <4> QED BY <4>1, <4>2
    <3> QED BY <3>2, <3>3
  <2> QED BY <2>1, <2>2, <2>3 DEF InOnePlace
<1>8. OnItsWay'
  <2> SUFFICES ASSUME NEW d \in Broadcasts, NEW c \in stayed[d] \ {Except[d]}
               PROVE  \/ d \in Range(got[c]) \/ c \in unsent[NodeOf[c]][d]
                      \/ /\ NodeOf[c] # From[d]
                         /\ stage'[d] = "local" \/ d \in Range(wire'[NodeOf[c]])
    BY <1>1 DEF OnItsWay
  <2>1. c \in Conns /\ NodeOf[c] \in Nodes
    OBVIOUS
  <2>2. \/ d \in Range(got[c]) \/ c \in unsent[NodeOf[c]][d]
        \/ /\ NodeOf[c] # From[d]
           /\ stage[d] = "local" \/ d \in Range(wire[NodeOf[c]])
    BY DEF OnItsWay
  <2>3. CASE d = b
    BY <1>4, <2>1, <2>2, <2>3
  <2>4. CASE d # b
    BY <1>4, <1>9, <2>1, <2>2, <2>4
  <2> QED BY <2>3, <2>4
<1> QED BY <1>6, <1>7, <1>8

LEMMA DeliverStep ==
  ASSUME RoomsTypeOK, Reaching, NEW n \in Nodes, Deliver(n)
  PROVE  Reaching'
<1> USE RoomsAssumption DEF Reaching, RoomsTypeOK
<1> DEFINE b == Head(wire[n])
<1>1. /\ wire[n] \in Seq(Broadcasts) /\ wire[n] # <<>>
      /\ wire' = [wire EXCEPT ![n] = Tail(@)]
      /\ unsent' = [unsent EXCEPT ![n][b] = members(n, Room[b])]
      /\ UNCHANGED <<rooms, connrooms, life, stray, stayed, wild, stage, got>>
  BY DEF Deliver, tables
<1>2. /\ Tail(wire[n]) \in Seq(Broadcasts) /\ b \in Broadcasts
      /\ Range(wire[n]) = {b} \cup Range(Tail(wire[n]))
      /\ IsInjective(Tail(wire[n])) /\ b \notin Range(Tail(wire[n]))
  BY <1>1, RangeTail DEF InOnePlace
<1> HIDE DEF b
<1>3. /\ wire' \in [Nodes -> Seq(Broadcasts)]
      /\ \A m \in Nodes : Range(wire'[m]) = (IF m = n THEN Range(wire[m]) \ {b} ELSE Range(wire[m]))
                          /\ IsInjective(wire'[m])
  <2>1. wire'[n] = Tail(wire[n]) /\ \A m \in Nodes \ {n} : wire'[m] = wire[m]
    BY <1>1
  <2>2. Range(Tail(wire[n])) = Range(wire[n]) \ {b}
    BY <1>2
  <2>3. \A m \in Nodes : IsInjective(wire[m])
    BY DEF InOnePlace
  <2>4. wire' \in [Nodes -> Seq(Broadcasts)]
    BY <1>1, <1>2
  <2> QED BY <1>2, <2>1, <2>2, <2>3, <2>4
<1>4. members(n, Room[b]) = {c \in rooms[Room[b]] : NodeOf[c] = n}
  BY DEF members
<1>5. /\ stage[b] = "sent" /\ n # From[b] /\ unsent[n][b] = {}
      /\ \A c \in Conns : NodeOf[c] = n => b \notin Range(got[c]) /\ c # Except[b]
  BY <1>2 DEF InOnePlace
<1>7. StayedAreMembers' /\ WrittenOnce'
  BY <1>1 DEF StayedAreMembers, Writable, WrittenOnce
<1>8. UnsentAreToBeSent'
  BY <1>1, <1>2, <1>4, <1>5 DEF UnsentAreToBeSent
<1>9. InOnePlace'
  BY <1>1, <1>2, <1>3, <1>5 DEF InOnePlace
<1>10. OnItsWay'
  BY <1>1, <1>2, <1>3, <1>4, <1>5 DEF OnItsWay, StayedAreMembers
<1> QED BY <1>7, <1>8, <1>9, <1>10

\* Sending and taking a message keep the types, and do not touch the tables.
LEMMA MessageStep ==
  ASSUME RoomsInv, (\E b \in Broadcasts : broadcast_room_to_cluster(b)) \/ \E n \in Nodes : Deliver(n)
  PROVE  RoomsInv'
<1>t. RoomsTypeOK /\ NoGhosts /\ (~wild => Reaching)
  BY DEF RoomsInv
<1>1. UNCHANGED <<rooms, connrooms, life, stray, stayed, wild, got>>
  BY DEF broadcast_room_to_cluster, Deliver, tables
<1>2. NoGhosts'
  BY <1>t, <1>1 DEF NoGhosts
<1>3. ASSUME NEW b \in Broadcasts, broadcast_room_to_cluster(b) PROVE RoomsInv'
  <2>1. /\ stage' = [stage EXCEPT ![b] = "sent"] /\ UNCHANGED unsent
        /\ wire' = [m \in Nodes |-> IF m = From[b] THEN wire[m] ELSE Append(wire[m], b)]
    BY <1>3 DEF broadcast_room_to_cluster
  <2>2. \A m \in Nodes : wire[m] \in Seq(Broadcasts) /\ Append(wire[m], b) \in Seq(Broadcasts)
    BY <1>t DEF RoomsTypeOK
  <2>3. RoomsTypeOK'
    BY <1>t, <1>1, <2>1, <2>2 DEF RoomsTypeOK
  <2> QED BY <1>t, <1>1, <1>2, <1>3, <2>3, SendStep DEF RoomsInv
<1>4. ASSUME NEW n \in Nodes, Deliver(n) PROVE RoomsInv'
  <2>1. /\ wire[n] # <<>> /\ wire' = [wire EXCEPT ![n] = Tail(@)] /\ UNCHANGED stage
        /\ unsent' = [unsent EXCEPT ![n][Head(wire[n])] = members(n, Room[Head(wire[n])])]
    BY <1>4 DEF Deliver
  <2>2. wire[n] \in Seq(Broadcasts) /\ Tail(wire[n]) \in Seq(Broadcasts) /\ Head(wire[n]) \in Broadcasts
    BY <1>t, <2>1 DEF RoomsTypeOK
  <2>3. members(n, Room[Head(wire[n])]) \subseteq Conns
    BY <1>t, <2>2, RoomsAssumption DEF members, RoomsTypeOK
  <2>4. RoomsTypeOK'
    BY <1>t, <1>1, <2>1, <2>2, <2>3 DEF RoomsTypeOK
  <2> QED BY <1>t, <1>1, <1>2, <1>4, <2>4, DeliverStep DEF RoomsInv
<1> QED BY <1>3, <1>4

LEMMA RoomsInvIsEnough == RoomsInv => RoomsReachMembers
<1> SUFFICES ASSUME RoomsInv, ~wild PROVE MembersAreReached
  BY DEF RoomsInv, Reaching, RoomsReachMembers
<1> QED BY RoomsAssumption DEF RoomsInv, Reaching, RoomsTypeOK, MembersAreReached, OnItsWay

\* RoomRegistry, mesh_ws_broadcast, DIST_ROOM_BROADCAST: for any connections
\* on any nodes and any broadcasts at once, whoever joins when, the two tables
\* list the same memberships, and a connection that is no longer open is in no
\* room unless it was rejected or made to join late.  Until a broadcast is
\* written to a handle that was freed, nobody is written one twice, and every
\* member that stays is written it by the time it is through.
THEOREM RoomsReach == RoomsSpec => []RoomsReachMembers
<1>1. RoomsInit => RoomsInv
  BY RoomsInitInv
<1>2. RoomsInv /\ [RoomsNext]_roomVars => RoomsInv'
  <2> SUFFICES ASSUME RoomsInv, [RoomsNext]_roomVars PROVE RoomsInv'
    OBVIOUS
  <2>1. CASE RoomsNext
    BY <2>1, TablesStep, BroadcastStep, WriteStep, MessageStep DEF RoomsNext
  <2>2. CASE UNCHANGED roomVars
    BY <2>2 DEF roomVars, RoomsInv, Reaching, RoomsTypeOK, NoGhosts, WrittenOnce, StayedAreMembers,
                Writable, UnsentAreToBeSent, InOnePlace, OnItsWay
  <2> QED BY <2>1, <2>2
<1>3. RoomsInv => RoomsReachMembers
  BY RoomsInvIsEnough
<1> QED BY <1>1, <1>2, <1>3, PTL DEF RoomsSpec
-----------------------------------------------------------------------------
(* Supervisors (actor/supervisor.rs).                                      *)

\* The step that is in hand, or waits, to end child i.
Ends(s, i) == s[1] \in {"stop", "wait", "unlink"} /\ s[2] = i

IsLimit(s) == s[1] = "fail" /\ s[2] = "limit"

\* What a child is said to run has been started, no two children have the
\* same process, and what the mailbox tells of has ended.
PidsAreKnown ==
    /\ \A i \in Indices : /\ children[i].running => children[i].pid # 0
                          /\ children[i].pid # 0 => proc[children[i].pid] # "none"
    /\ \A i, j \in Indices : children[i].pid = children[j].pid /\ children[i].pid # 0 => i = j
    /\ \A p \in linked : proc[p] # "none"
    /\ \A k \in 1..Len(inbox) : proc[inbox[k][1]] = "gone"

\* What each step is about, and where among the steps it can be.
IsStep(k) ==
    LET s == todo[k]
    IN  /\ s[1] \in {"stop", "start", "link", "wait", "unlink", "remove"} => s[2] \in Indices
        /\ s[1] \in {"link", "wait", "unlink"} => k = 1
        /\ s[1] \in {"fail", "remove"} => k = Len(todo)
        /\ s[1] = "start" => s[3] \in 1..s[2]
        /\ s[1] \in {"wait", "unlink"} => children[s[2]].running
        /\ s[1] = "unlink" => proc[children[s[2]].pid] # "run"
        /\ s[1] = "link" => proc[s[3]] # "none" /\ \A i \in Indices : children[i].pid # s[3]

StepsAreSound == \A k \in 1..Len(todo) : IsStep(k)

\* Child i of c does not run once the first n of the steps are done.
IsFree(c, steps, i, n) == ~c[i].running \/ \E k \in 1..n : Ends(steps[k], i)

\* A child is started only after it was stopped, and once; when the limit is
\* exceeded every child is stopped and none is started.
StopsComeFirst ==
    \A k \in 1..Len(todo) :
        /\ todo[k][1] \in {"start", "link", "remove"} => IsFree(children, todo, todo[k][2], k - 1)
        /\ todo[k][1] \in {"start", "remove"} =>
              \A j \in 1..(k - 1) : todo[j][1] \in {"start", "link"} => todo[j][2] # todo[k][2]
        /\ IsLimit(todo[k]) =>
              /\ \A i \in Indices : IsFree(children, todo, i, k - 1)
              /\ \A j \in 1..(k - 1) : todo[j][1] \notin {"start", "link"}

RunningIsKnown ==
    /\ outcome # "ok" => todo = <<>>
    /\ \A p \in Started : proc[p] = "run" =>
          \/ \E i \in Indices : children[i].pid = p /\ children[i].running
          \/ todo # <<>> /\ todo[1][1] = "link" /\ todo[1][3] = p

Told(p) == \E k \in 1..Len(inbox) : inbox[k][1] = p

EndsAreTold ==
    \A i \in Indices : children[i].pid # 0 => children[i].pid \in linked \/ Told(children[i].pid)

\* The history is the end of what was granted, and what is not in it any more
\* is older than the window.
InWindow ==
    LET n == Len(granted) - Len(history)
    IN  /\ n \in Nat
        /\ \A k \in 1..Len(granted) : granted[k] <= clock
        /\ \A k \in 1..Len(history) : history[k] = granted[n + k]
        /\ \A k \in 1..n : clock - granted[k] > Window

\* The steps of a restart are about the children its strategy names.
InScope ==
    failing # 0 /\ todo # <<>> /\ ~IsLimit(todo[Len(todo)]) =>
        \A k \in 1..Len(todo) : todo[k][1] # "fail" =>
            /\ strategy = "one_for_one" =>
                  todo[k][2] = failing /\ (todo[k][1] = "start" => todo[k][3] = failing)
            /\ strategy = "rest_for_one" =>
                  todo[k][2] >= failing /\ (todo[k][1] = "start" => todo[k][3] >= failing)

PlanInv == StepsAreSound /\ StopsComeFirst /\ InScope
PidsInv == PidsAreKnown /\ RunningIsKnown /\ EndsAreTold /\ LimitStopsAll
SupervisorInv == SupervisorTypeOK /\ PlanInv /\ PidsInv /\ InWindow /\ RestartRate

LEMMA StepKinds ==
  /\ \A s \in Steps :
        /\ s[1] \in {"stop", "wait", "unlink", "remove", "start", "link", "fail"}
        /\ s[1] # "fail" => s[2] \in Nat
        /\ s[1] = "start" => s[3] \in Nat
        /\ s[1] = "link" => s[3] \in Started
        /\ s[1] = "fail" => s[2] \in {"start", "limit"}
        /\ IsLimit(s) <=> s = <<"fail", "limit">>
  /\ \A i \in Nat : /\ <<"stop", i>> \in Steps /\ <<"wait", i>> \in Steps
                    /\ <<"unlink", i>> \in Steps /\ <<"remove", i>> \in Steps
                    /\ \A j \in Nat : <<"start", i, j>> \in Steps
                    /\ \A p \in Started : <<"link", i, p>> \in Steps
  /\ <<"fail", "start">> \in Steps /\ <<"fail", "limit">> \in Steps
<1>1. ASSUME NEW s \in Steps
      PROVE  /\ s[1] \in {"stop", "wait", "unlink", "remove", "start", "link", "fail"}
             /\ s[1] # "fail" => s[2] \in Nat
             /\ s[1] = "start" => s[3] \in Nat
             /\ s[1] = "link" => s[3] \in Started
             /\ s[1] = "fail" => s[2] \in {"start", "limit"}
             /\ IsLimit(s) <=> s = <<"fail", "limit">>
  <2>1. CASE s \in {"stop", "wait", "unlink", "remove"} \X Nat
    BY <2>1 DEF IsLimit
  <2>2. CASE s \in {"start"} \X Nat \X Nat
    BY <2>2 DEF IsLimit
  <2>3. CASE s \in {"link"} \X Nat \X Started
    BY <2>3 DEF IsLimit
  <2>4. CASE s \in {"fail"} \X {"start", "limit"}
    BY <2>4 DEF IsLimit
  <2> QED BY <2>1, <2>2, <2>3, <2>4 DEF Steps
<1>2. \A i \in Nat : /\ <<"stop", i>> \in Steps /\ <<"wait", i>> \in Steps
                     /\ <<"unlink", i>> \in Steps /\ <<"remove", i>> \in Steps
                     /\ \A j \in Nat : <<"start", i, j>> \in Steps
                     /\ \A p \in Started : <<"link", i, p>> \in Steps
  BY DEF Steps
<1>3. <<"fail", "start">> \in Steps /\ <<"fail", "limit">> \in Steps
  BY DEF Steps
<1> QED BY <1>1, <1>2, <1>3

LEMMA SeqOfLength ==
  ASSUME NEW S, NEW n \in Nat, NEW s \in [1..n -> S]
  PROVE  s \in Seq(S) /\ Len(s) = n
<1>1. s \in Seq(S)
  BY SeqDef
<1>2. Len(s) \in Nat /\ 1..Len(s) = 1..n
  BY <1>1, LenProperties
<1>3. ~(Len(s) < n) /\ ~(n < Len(s))
  BY <1>2
<1> QED BY <1>1, <1>2, <1>3

LEMMA StopsProperties ==
  ASSUME NEW first \in Nat \ {0}, NEW last \in Nat, first <= last + 1
  PROVE  /\ Stops(first, last) \in Seq(Steps) /\ Len(Stops(first, last)) = last + 1 - first
         /\ \A k \in 1..(last + 1 - first) :
               Stops(first, last)[k][1] = "stop" /\ Stops(first, last)[k][2] = last + 1 - k
<1> DEFINE n == last + 1 - first
<1>1. n \in Nat /\ \A k \in 1..n : last + 1 - k \in Nat
  OBVIOUS
<1>2. Stops(first, last) \in [1..n -> Steps]
  BY <1>1, StepKinds DEF Stops
<1>3. Stops(first, last) \in Seq(Steps) /\ Len(Stops(first, last)) = n
  BY <1>1, <1>2, SeqOfLength
<1> QED BY <1>3 DEF Stops

LEMMA StartsProperties ==
  ASSUME NEW first \in Nat \ {0}, NEW last \in Nat, first <= last + 1
  PROVE  /\ Starts(first, last) \in Seq(Steps) /\ Len(Starts(first, last)) = last + 1 - first
         /\ \A k \in 1..(last + 1 - first) :
               /\ Starts(first, last)[k][1] = "start" /\ Starts(first, last)[k][2] = first + k - 1
               /\ Starts(first, last)[k][3] = first
<1> DEFINE n == last + 1 - first
<1>1. n \in Nat /\ \A k \in 1..n : first + k - 1 \in Nat
  OBVIOUS
<1>2. Starts(first, last) \in [1..n -> Steps]
  BY <1>1, StepKinds DEF Starts
<1>3. Starts(first, last) \in Seq(Steps) /\ Len(Starts(first, last)) = n
  BY <1>1, <1>2, SeqOfLength
<1> QED BY <1>3 DEF Starts

LEMMA ProceedShort ==
  ASSUME todo \in Seq(Steps), todo # <<>>, Proceed(<<>>)
  PROVE  /\ todo' \in Seq(Steps) /\ Len(todo') = Len(todo) - 1 /\ Len(todo) \in Nat \ {0}
         /\ \A k \in 1..Len(todo') : todo'[k] = todo[k + 1]
BY HeadTailProperties, ConcatEmptySeq, EmptySeq DEF Proceed

LEMMA ProceedWith ==
  ASSUME todo \in Seq(Steps), todo # <<>>, NEW s \in Steps, Proceed(<<s>>)
  PROVE  /\ todo' \in Seq(Steps) /\ Len(todo') = Len(todo) /\ Len(todo) \in Nat \ {0}
         /\ todo'[1] = s /\ \A k \in 2..Len(todo) : todo'[k] = todo[k]
<1>1. /\ Tail(todo) \in Seq(Steps) /\ Len(Tail(todo)) = Len(todo) - 1
      /\ \A k \in 1..Len(Tail(todo)) : Tail(todo)[k] = todo[k + 1]
      /\ Len(todo) \in Nat \ {0}
  BY HeadTailProperties, EmptySeq
<1>2. <<s>> \in Seq(Steps) /\ Len(<<s>>) = 1 /\ <<s>>[1] = s
  OBVIOUS
<1> DEFINE t == <<s>> h == Tail(todo)
<1>3. /\ t \o h \in Seq(Steps) /\ Len(t \o h) = 1 + Len(h)
      /\ \A k \in 1..(1 + Len(h)) : (t \o h)[k] = IF k <= 1 THEN t[k] ELSE h[k - 1]
  <2> HIDE DEF t, h
  <2>1. t \in Seq(Steps) /\ h \in Seq(Steps) /\ Len(t) = 1
    BY <1>1, <1>2 DEF t, h
  <2>2. /\ t \o h \in Seq(Steps) /\ Len(t \o h) = Len(t) + Len(h)
        /\ \A k \in 1..Len(t) + Len(h) : (t \o h)[k] = IF k <= Len(t) THEN t[k] ELSE h[k - Len(t)]
    BY <2>1, ConcatProperties, Zenon
  <2> QED BY <2>1, <2>2
<1>4. todo' = t \o h
  BY DEF Proceed
<1> HIDE DEF h
<1> QED BY <1>1, <1>2, <1>3, <1>4 DEF h

\* Setting the pid and the state of one child.
LEMMA ChildSet ==
  ASSUME children \in Seq(ChildStates), NEW i \in Indices, NEW p \in {0} \cup Started, NEW r \in BOOLEAN,
         children' = [children EXCEPT ![i].pid = p, ![i].running = r]
  PROVE  /\ children' \in Seq(ChildStates) /\ Len(children') = Len(children) /\ Indices' = Indices
         /\ children'[i].pid = p /\ children'[i].running = r
         /\ \A j \in Indices : j # i => children'[j] = children[j]
<1> DEFINE e == [children[i] EXCEPT !.pid = p, !.running = r]
<1>1. children[i] \in ChildStates
  BY ElementOfSeq DEF Indices
<1>2. e \in ChildStates /\ e.pid = p /\ e.running = r
  BY <1>1 DEF ChildStates
<1>3. children' = [children EXCEPT ![i] = e]
  OBVIOUS
<1> HIDE DEF e
<1>4. children \in [1..Len(children) -> ChildStates] /\ Len(children) \in Nat /\ i \in 1..Len(children)
  BY LenProperties DEF Indices
<1> DEFINE n == Len(children) c == [children EXCEPT ![i] = e]
<1>5. /\ c \in [1..n -> ChildStates] /\ n \in Nat
      /\ c[i] = e /\ \A j \in 1..n : j # i => c[j] = children[j]
  BY <1>2, <1>4
<1>6. children' = c
  BY <1>3
<1> HIDE DEF c, n
<1>7. c \in Seq(ChildStates) /\ Len(c) = n
  BY <1>5, SeqOfLength
<1> QED BY <1>2, <1>5, <1>6, <1>7 DEF Indices, n

\* Taking one child out of the list.
LEMMA ChildOut ==
  ASSUME children \in Seq(ChildStates), NEW i \in Indices, children' = RemoveAt(children, i)
  PROVE  /\ children' \in Seq(ChildStates) /\ Len(children') = Len(children) - 1 /\ Len(children) \in Nat
         /\ \A j \in 1..(Len(children) - 1) :
               children'[j] = IF j < i THEN children[j] ELSE children[j + 1]
<1> DEFINE n == Len(children) a == SubSeq(children, 1, i - 1) b == SubSeq(children, i + 1, n)
<1>1. n \in Nat /\ i \in 1..n /\ \A j \in 1..n : children[j] \in ChildStates
  BY LenProperties, ElementOfSeq DEF Indices
<1>2. /\ a \in Seq(ChildStates) /\ Len(a) = i - 1
      /\ \A j \in 1..(i - 1) : a[j] = children[j]
  BY <1>1, SubSeqProperties
<1>3. /\ b \in Seq(ChildStates) /\ Len(b) = n - i
      /\ \A j \in 1..(n - i) : b[j] = children[i + j]
  BY <1>1, SubSeqProperties
<1>4. children' = a \o b
  BY DEF RemoveAt
<1> HIDE DEF a, b
<1>5. /\ a \o b \in Seq(ChildStates) /\ Len(a \o b) = n - 1
      /\ \A j \in 1..(n - 1) : (a \o b)[j] = IF j <= i - 1 THEN a[j] ELSE b[j - (i - 1)]
  <2>1. /\ a \o b \in Seq(ChildStates) /\ Len(a \o b) = Len(a) + Len(b)
        /\ \A j \in 1..Len(a) + Len(b) : (a \o b)[j] = IF j <= Len(a) THEN a[j] ELSE b[j - Len(a)]
    BY <1>2, <1>3, ConcatProperties, Zenon
  <2> QED BY SMTT(30), <1>1, <1>2, <1>3, <2>1
<1>6. ASSUME NEW j \in 1..(n - 1)
      PROVE  children'[j] = IF j < i THEN children[j] ELSE children[j + 1]
  <2>1. CASE j < i
    BY <1>1, <1>2, <1>4, <1>5, <2>1
  <2>2. CASE ~(j < i)
    <3>1. j - (i - 1) \in 1..(n - i) /\ i + (j - (i - 1)) = j + 1
      BY <1>1, <2>2
    <3> QED BY <1>1, <1>3, <1>4, <1>5, <2>2, <3>1
  <2> QED BY <2>1, <2>2
<1> QED BY <1>1, <1>4, <1>5, <1>6

LEMMA LeastNatural ==
  ASSUME NEW T, T \subseteq Nat, T # {}
  PROVE  \E m \in T : \A k \in T : m <= k
<1>1. PICK m \in T : \A k \in T : ~(<<k, m>> \in OpToRel(<, Nat))
  BY NatLessThanWellFounded, WFMin, Zenon
<1>2. \A k \in T : ~(k < m)
  BY <1>1, Zenon DEF OpToRel
<1> QED BY <1>2

\* What check_restart_limit takes from the front is older than the window.
LEMMA RecentIsTheEnd ==
  ASSUME history \in Seq(Nat), clock \in Nat
  PROVE  \E first \in 1..Len(history) + 1 :
            /\ Recent = SubSeq(history, first, Len(history))
            /\ \A k \in 1..(first - 1) : clock - history[k] > Window
<1> DEFINE Fresh == {k \in 1..Len(history) + 1 : k <= Len(history) => clock - history[k] <= Window}
           first == FirstOf(Fresh)
<1>1. Len(history) \in Nat /\ \A k \in 1..Len(history) : history[k] \in Nat
  BY LenProperties, ElementOfSeq
<1>2. Fresh \subseteq Nat /\ Len(history) + 1 \in Fresh
  BY <1>1
<1>3. first \in Fresh /\ \A k \in Fresh : first <= k
  <2>1. \E k \in Fresh : \A j \in Fresh : k <= j
    <3> HIDE DEF Fresh
    <3> QED BY <1>2, LeastNatural
  <2> QED BY <2>1 DEF FirstOf
<1>4. ASSUME NEW k \in 1..(first - 1)
      PROVE  clock - history[k] > Window
  <2>1. first \in 1..Len(history) + 1
    BY <1>3
  <2>2. k \notin Fresh /\ k \in 1..Len(history)
    BY <1>1, <1>3, <2>1
  <2> QED BY <1>1, <2>2, SupervisorAssumption
<1>5. Recent = SubSeq(history, first, Len(history))
  BY DEF Recent
<1> QED BY <1>3, <1>4, <1>5

LEMMA StepsTyped ==
  ASSUME todo \in Seq(Steps)
  PROVE  /\ Len(todo) \in Nat /\ (todo # <<>> => Len(todo) \in Nat \ {0})
         /\ \A k \in 1..Len(todo) : todo[k] \in Steps
BY EmptySeq, LenProperties, ElementOfSeq

\* The step in hand is done, and with it, unless it was another's start, what
\* it was to end.
LEMMA PopKeeps ==
  ASSUME SupervisorTypeOK, PlanInv, todo # <<>>, Proceed(<<>>), Indices' = Indices,
         UNCHANGED <<strategy, failing>>,
         \A i \in Indices : children'[i].running =>
            \/ children[i].running /\ ~Ends(todo[1], i)
            \/ todo[1][1] = "link" /\ todo[1][2] = i
  PROVE  PlanInv'
<1>1. /\ Len(todo') = Len(todo) - 1 /\ Len(todo) \in Nat \ {0}
      /\ \A k \in 1..Len(todo') : todo'[k] = todo[k + 1] /\ k + 1 \in 1..Len(todo)
  BY ProceedShort DEF SupervisorTypeOK
<1>2. StepsAreSound'
  <2> SUFFICES ASSUME NEW k \in 1..Len(todo') PROVE IsStep(k)'
    BY DEF PlanInv, StepsAreSound
  <2>1. IsStep(k + 1) /\ k + 1 # 1 /\ (k + 1 = Len(todo) => k = Len(todo'))
    BY <1>1 DEF PlanInv, StepsAreSound
  <2> QED BY <1>1, <2>1 DEF IsStep
<1>3. ASSUME NEW k \in 1..Len(todo'), NEW i \in Indices, IsFree(children, todo, i, k),
             ~(todo[1][1] = "link" /\ todo[1][2] = i)
      PROVE  IsFree(children', todo', i, k - 1)
  <2>1. CASE ~children[i].running \/ Ends(todo[1], i)
    BY <2>1, <1>3 DEF IsFree
  <2>2. CASE \E j \in 2..k : Ends(todo[j], i)
    <3>1. PICK j \in 2..k : Ends(todo[j], i)
      BY <2>2
    <3>2. j - 1 \in 1..(k - 1) /\ j - 1 \in 1..Len(todo') /\ todo'[j - 1] = todo[j]
      BY <1>1
    <3> QED BY <3>1, <3>2 DEF IsFree
  <2> QED BY <1>3, <2>1, <2>2 DEF IsFree
<1>4. StopsComeFirst'
  <2> SUFFICES ASSUME NEW k \in 1..Len(todo')
               PROVE  /\ todo'[k][1] \in {"start", "link", "remove"} => IsFree(children', todo', todo'[k][2], k - 1)
                      /\ todo'[k][1] \in {"start", "remove"} =>
                            \A j \in 1..(k - 1) :
                               todo'[j][1] \in {"start", "link"} => todo'[j][2] # todo'[k][2]
                      /\ IsLimit(todo'[k]) =>
                            /\ \A i \in Indices : IsFree(children', todo', i, k - 1)
                            /\ \A j \in 1..(k - 1) : todo'[j][1] \notin {"start", "link"}
    BY DEF PlanInv, StopsComeFirst, IsLimit
  <2> DEFINE m == k + 1
  <2>1. m \in 1..Len(todo) /\ todo'[k] = todo[m] /\ m - 1 = k /\ 1 \in 1..(m - 1) /\ m # 1
    BY <1>1
  <2>2. /\ todo[m][1] \in {"start", "link", "remove"} => IsFree(children, todo, todo[m][2], k)
        /\ todo[m][1] \in {"start", "remove"} =>
              \A j \in 1..k : todo[j][1] \in {"start", "link"} => todo[j][2] # todo[m][2]
        /\ IsLimit(todo[m]) =>
              /\ \A i \in Indices : IsFree(children, todo, i, k)
              /\ \A j \in 1..k : todo[j][1] \notin {"start", "link"}
    BY <2>1 DEF PlanInv, StopsComeFirst
  <2>3. todo[m][1] # "link" /\ (todo[m][1] \in {"start", "remove"} => todo[m][2] \in Indices)
    BY <2>1 DEF PlanInv, StepsAreSound, IsStep
  <2>4. \A j \in 1..(k - 1) : j + 1 \in 1..k /\ todo'[j] = todo[j + 1]
    BY <1>1
  <2> HIDE DEF m
  <2>5. ASSUME todo[m][1] \in {"start", "remove"}
        PROVE  /\ IsFree(children', todo', todo[m][2], k - 1)
               /\ \A j \in 1..(k - 1) :
                     todo'[j][1] \in {"start", "link"} => todo'[j][2] # todo[m][2]
    BY ZenonT(30), <1>3, <2>1, <2>2, <2>3, <2>4, <2>5
  <2>6. ASSUME IsLimit(todo[m])
        PROVE  /\ \A i \in Indices : IsFree(children', todo', i, k - 1)
               /\ \A j \in 1..(k - 1) : todo'[j][1] \notin {"start", "link"}
    BY <1>3, <2>1, <2>2, <2>4, <2>6
  <2> QED BY <2>1, <2>3, <2>5, <2>6
<1>5. InScope'
  <2> SUFFICES ASSUME failing # 0, todo' # <<>>, ~IsLimit(todo'[Len(todo')]), NEW k \in 1..Len(todo'),
                      todo'[k][1] # "fail"
               PROVE  /\ strategy = "one_for_one" =>
                            todo'[k][2] = failing /\ (todo'[k][1] = "start" => todo'[k][3] = failing)
                      /\ strategy = "rest_for_one" =>
                            todo'[k][2] >= failing /\ (todo'[k][1] = "start" => todo'[k][3] >= failing)
    BY DEF PlanInv, InScope, IsLimit
  <2>1. todo'[k] = todo[k + 1] /\ k + 1 \in 1..Len(todo) /\ todo'[Len(todo')] = todo[Len(todo)]
    BY <1>1
  <2> QED BY <2>1 DEF PlanInv, InScope
<1> QED BY <1>2, <1>4, <1>5 DEF PlanInv

\* The step in hand goes on as another about the same child.
LEMMA ReplaceKeeps ==
  ASSUME SupervisorTypeOK, PlanInv, todo # <<>>, NEW s \in Steps, Proceed(<<s>>),
         UNCHANGED <<strategy, failing, children>>, IsStep(1)', s[2] = todo[1][2],
         \/ s[1] = "link" /\ todo[1][1] = "start"
         \/ s[1] \in {"wait", "unlink"} /\ todo[1][1] \in {"stop", "wait"}
  PROVE  PlanInv'
<1>1. /\ Len(todo') = Len(todo) /\ Len(todo) \in Nat \ {0}
      /\ todo'[1] = s /\ \A k \in 2..Len(todo) : todo'[k] = todo[k]
  BY ProceedWith DEF SupervisorTypeOK
<1>2. StepsAreSound'
  <2> SUFFICES ASSUME NEW k \in 1..Len(todo) PROVE IsStep(k)'
    BY <1>1 DEF PlanInv, StepsAreSound
  <2>1. CASE k = 1
    BY <2>1
  <2>2. CASE k # 1
    <3>1. IsStep(k) /\ todo'[k] = todo[k]
      BY <1>1, <2>2 DEF PlanInv, StepsAreSound
    <3> QED BY <1>1, <2>2, <3>1 DEF IsStep, Indices
  <2> QED BY <2>1, <2>2
<1>3. ASSUME NEW k \in 1..Len(todo), NEW i \in Indices, IsFree(children, todo, i, k - 1)
      PROVE  IsFree(children', todo', i, k - 1)
  <2>1. CASE ~children[i].running
    BY <2>1 DEF IsFree
  <2>2. CASE \E j \in 1..(k - 1) : Ends(todo[j], i)
    <3>1. PICK j \in 1..(k - 1) : Ends(todo[j], i)
      BY <2>2
    <3>2. CASE j = 1
      <4>1. Ends(todo'[1], i)
        BY <1>1, <3>1, <3>2 DEF Ends
      <4> QED BY <3>2, <4>1 DEF IsFree
    <3>3. CASE j # 1
      <4>1. todo'[j] = todo[j]
        BY <1>1, <3>3
      <4> QED BY <3>1, <4>1 DEF IsFree
    <3> QED BY <3>2, <3>3
  <2> QED BY <1>3, <2>1, <2>2 DEF IsFree
<1>4. StopsComeFirst'
  <2> SUFFICES ASSUME NEW k \in 1..Len(todo)
               PROVE  /\ todo'[k][1] \in {"start", "link", "remove"} => IsFree(children', todo', todo'[k][2], k - 1)
                      /\ todo'[k][1] \in {"start", "remove"} =>
                            \A j \in 1..(k - 1) :
                               todo'[j][1] \in {"start", "link"} => todo'[j][2] # todo'[k][2]
                      /\ IsLimit(todo'[k]) =>
                            /\ \A i \in Indices' : IsFree(children', todo', i, k - 1)
                            /\ \A j \in 1..(k - 1) : todo'[j][1] \notin {"start", "link"}
    BY <1>1 DEF PlanInv, StopsComeFirst, IsLimit
  <2>1. CASE k = 1
    <3>1. s[1] = "link" => IsFree(children, todo, s[2], 0) /\ s[2] \in Indices
      BY <1>1 DEF PlanInv, StopsComeFirst, StepsAreSound, IsStep
    <3>2. s[1] = "link" => IsFree(children', todo', s[2], 0)
      BY <1>3, <3>1, <1>1
    <3> QED BY <1>1, <2>1, <3>2 DEF IsLimit
  <2>2. CASE k # 1
    <3>1. todo'[k] = todo[k]
      BY <1>1, <2>2
    <3>2. \A j \in 1..(k - 1) : /\ todo'[j][1] \in {"start", "link"} => todo[j][1] \in {"start", "link"}
                                /\ todo'[j][1] \in {"start", "link"} => todo'[j][2] = todo[j][2]
      BY <1>1
    <3>3. /\ todo[k][1] \in {"start", "link", "remove"} => IsFree(children, todo, todo[k][2], k - 1)
          /\ todo[k][1] \in {"start", "remove"} =>
                \A j \in 1..(k - 1) : todo[j][1] \in {"start", "link"} => todo[j][2] # todo[k][2]
          /\ IsLimit(todo[k]) =>
                /\ \A i \in Indices : IsFree(children, todo, i, k - 1)
                /\ \A j \in 1..(k - 1) : todo[j][1] \notin {"start", "link"}
      BY DEF PlanInv, StopsComeFirst
    <3>4. todo[k][1] \in {"start", "link", "remove"} => todo[k][2] \in Indices
      BY DEF PlanInv, StepsAreSound, IsStep
    <3>5. Indices' = Indices
      BY DEF Indices
    <3> QED BY <1>3, <3>1, <3>2, <3>3, <3>4, <3>5
  <2> QED BY <2>1, <2>2
<1>5. InScope'
  <2> SUFFICES ASSUME failing # 0, ~IsLimit(todo'[Len(todo)]), NEW k \in 1..Len(todo), todo'[k][1] # "fail"
               PROVE  /\ strategy = "one_for_one" =>
                            todo'[k][2] = failing /\ (todo'[k][1] = "start" => todo'[k][3] = failing)
                      /\ strategy = "rest_for_one" =>
                            todo'[k][2] >= failing /\ (todo'[k][1] = "start" => todo'[k][3] >= failing)
    BY <1>1 DEF PlanInv, InScope, IsLimit
  <2>1. ~IsLimit(todo[Len(todo)])
    <3>1. CASE Len(todo) = 1
      BY <3>1 DEF IsLimit
    <3>2. CASE Len(todo) # 1
      BY <1>1, <3>2
    <3> QED BY <3>1, <3>2
  <2>2. \A m \in 1..Len(todo) : todo[m][1] # "fail" =>
           /\ strategy = "one_for_one" =>
                 todo[m][2] = failing /\ (todo[m][1] = "start" => todo[m][3] = failing)
           /\ strategy = "rest_for_one" =>
                 todo[m][2] >= failing /\ (todo[m][1] = "start" => todo[m][3] >= failing)
    BY <2>1 DEF PlanInv, InScope
  <2>3. CASE k = 1
    BY <1>1, <2>2, <2>3
  <2>4. CASE k # 1
    <3>1. todo'[k] = todo[k]
      BY <1>1, <2>4
    <3> QED BY <2>2, <3>1
  <2> QED BY <2>3, <2>4
<1> QED BY <1>2, <1>4, <1>5 DEF PlanInv

LEMMA SupervisorFacts ==
  ASSUME SupervisorInv
  PROVE  /\ SupervisorTypeOK /\ PlanInv /\ PidsAreKnown /\ RunningIsKnown /\ EndsAreTold /\ LimitStopsAll
         /\ proc \in [Started -> {"none", "run", "exited", "gone"}] /\ 0 \notin Started
         /\ todo \in Seq(Steps) /\ children \in Seq(ChildStates)
         /\ Indices = 1..Len(children) /\ Len(children) \in Nat /\ linked \subseteq Started
         /\ \A i \in Indices : /\ children[i].pid \in {0} \cup Started /\ children[i].running \in BOOLEAN
                               /\ children[i].running => children[i].pid \in Started
         /\ todo # <<>> => /\ todo[1] \in Steps /\ IsStep(1) /\ Len(todo) \in Nat \ {0} /\ outcome = "ok"
                           /\ todo[1][1] # "fail" => todo[1][2] \in Indices
<1>1. SupervisorTypeOK /\ PlanInv /\ PidsAreKnown /\ RunningIsKnown /\ EndsAreTold /\ LimitStopsAll
  BY DEF SupervisorInv, PidsInv
<1>2. /\ proc \in [Started -> {"none", "run", "exited", "gone"}] /\ linked \subseteq Started
      /\ todo \in Seq(Steps) /\ children \in Seq(ChildStates)
  BY <1>1 DEF SupervisorTypeOK
<1>3. Indices = 1..Len(children) /\ Len(children) \in Nat /\ 0 \notin Started
  BY <1>2, LenProperties DEF Indices, Started
<1>4. ASSUME NEW i \in Indices
      PROVE  /\ children[i].pid \in {0} \cup Started /\ children[i].running \in BOOLEAN
             /\ children[i].running => children[i].pid \in Started
  <2>1. children[i] \in ChildStates
    BY <1>2, <1>3, ElementOfSeq
  <2>2. children[i].running => children[i].pid # 0
    BY <1>1 DEF PidsAreKnown
  <2> QED BY <2>1, <2>2 DEF ChildStates
<1>5. ASSUME todo # <<>>
      PROVE  /\ todo[1] \in Steps /\ IsStep(1) /\ Len(todo) \in Nat \ {0} /\ outcome = "ok"
             /\ todo[1][1] # "fail" => todo[1][2] \in Indices
  <2>1. todo[1] \in Steps /\ Len(todo) \in Nat \ {0}
    BY <1>2, <1>5, StepsTyped
  <2>2. IsStep(1)
    BY <1>1, <2>1 DEF PlanInv, StepsAreSound
  <2>3. todo[1][1] \in {"stop", "wait", "unlink", "remove", "start", "link", "fail"}
    BY <2>1, StepKinds
  <2>4. outcome = "ok"
    BY <1>1, <1>5 DEF RunningIsKnown
  <2> QED BY <2>1, <2>2, <2>3, <2>4 DEF IsStep
<1> QED BY <1>1, <1>2, <1>3, <1>4, <1>5

LEMMA WindowKept ==
  ASSUME InWindow, RestartRate, UNCHANGED <<history, granted, clock>>
  PROVE  InWindow' /\ RestartRate'
BY DEF InWindow, RestartRate

\* What is made to exit, if it runs.
LEMMA Killed ==
  ASSUME proc \in [Started -> {"none", "run", "exited", "gone"}], NEW q \in Started,
         proc' = IF proc[q] = "run" THEN [proc EXCEPT ![q] = "exited"] ELSE proc
  PROVE  /\ proc' \in [Started -> {"none", "run", "exited", "gone"}] /\ proc'[q] # "run"
         /\ \A p \in Started : /\ proc'[p] = "run" => proc[p] = "run" /\ p # q
                               /\ proc'[p] = "none" <=> proc[p] = "none"
                               /\ proc'[p] = "gone" <=> proc[p] = "gone"
OBVIOUS

\* Children may lose their processes, and processes end.
LEMMA PidsKept ==
  ASSUME SupervisorInv, Indices' = Indices, linked' \subseteq linked, inbox' = inbox,
         \A i \in Indices : /\ children'[i].pid \in {0, children[i].pid}
                            /\ children'[i].running => children[i].running /\ children'[i].pid = children[i].pid,
         \A p \in Started : /\ proc'[p] = "none" => proc[p] = "none"
                            /\ proc[p] = "gone" => proc'[p] = "gone"
  PROVE  PidsAreKnown'
<1>1. /\ PidsAreKnown /\ linked \subseteq Started /\ 0 \notin Started
      /\ \A i \in Indices : children[i].pid \in {0} \cup Started
  BY SupervisorFacts
<1>2. \A k \in 1..Len(inbox) : inbox[k][1] \in Started
  <2>1. inbox \in Seq(Started \X {"normal", "crash"})
    BY DEF SupervisorInv, SupervisorTypeOK
  <2> QED BY <2>1, ElementOfSeq
<1>3. \A i \in Indices : /\ children'[i].running => children'[i].pid # 0
                         /\ children'[i].pid # 0 => proc'[children'[i].pid] # "none"
  BY <1>1 DEF PidsAreKnown
<1>4. \A i, j \in Indices : children'[i].pid = children'[j].pid /\ children'[i].pid # 0 => i = j
  BY <1>1 DEF PidsAreKnown
<1>5. \A p \in linked' : proc'[p] # "none"
  BY <1>1 DEF PidsAreKnown
<1>6. \A k \in 1..Len(inbox) : proc'[inbox[k][1]] = "gone"
  BY <1>1, <1>2 DEF PidsAreKnown
<1> QED BY <1>3, <1>4, <1>5, <1>6 DEF PidsAreKnown

LEMMA SpawnStep == ASSUME SupervisorInv, SpawnChild PROVE SupervisorInv'
<1> DEFINE i == todo[1][2]
<1>1. /\ SupervisorTypeOK /\ PlanInv /\ PidsAreKnown /\ RunningIsKnown /\ EndsAreTold
      /\ proc \in [Started -> {"none", "run", "exited", "gone"}] /\ 0 \notin Started
      /\ todo \in Seq(Steps) /\ linked \subseteq Started
      /\ \A j \in Indices : children[j].pid \in {0} \cup Started
      /\ todo # <<>> /\ todo[1][1] = "start" /\ i \in Indices /\ i \in Nat /\ outcome = "ok"
  BY SupervisorFacts DEF SpawnChild
<1>2. PICK p \in Started : /\ proc[p] = "none" /\ proc' = [proc EXCEPT ![p] = "run"]
                           /\ Proceed(<<<<"link", i, p>>>>)
  BY DEF SpawnChild
<1>3. UNCHANGED <<strategy, children, linked, inbox, history, clock, granted, failing, outcome, crashed>>
  BY DEF SpawnChild
<1> DEFINE s == <<"link", i, p>>
<1>4. s \in Steps /\ s[1] = "link" /\ s[2] = i /\ s[3] = p
  BY <1>1, StepKinds
<1>5. /\ todo' \in Seq(Steps) /\ Len(todo') = Len(todo) /\ Len(todo) \in Nat \ {0} /\ todo'[1] = s
  BY <1>1, <1>2, <1>4, ProceedWith
<1> HIDE DEF i, s
<1>6. /\ proc' \in [Started -> {"none", "run", "exited", "gone"}] /\ proc'[p] = "run"
      /\ \A q \in Started : q # p => proc'[q] = proc[q]
  BY <1>1, <1>2
<1>7. \A j \in Indices : children[j].pid # p
  BY <1>1, <1>2 DEF PidsAreKnown
<1>8. Indices' = Indices
  BY <1>3 DEF Indices
<1>9. IsStep(1)'
  BY <1>1, <1>3, <1>4, <1>5, <1>6, <1>7, <1>8 DEF IsStep
<1>10. PlanInv'
  BY <1>1, <1>2, <1>3, <1>4, <1>9, ReplaceKeeps DEF s, i
<1>11. SupervisorTypeOK'
  BY <1>1, <1>3, <1>5, <1>6 DEF SupervisorTypeOK
<1>12. PidsAreKnown'
  <2>1. \A k \in 1..Len(inbox) : inbox[k][1] # p
    BY <1>2 DEF PidsAreKnown, SupervisorInv, PidsInv
  <2>2. \A k \in 1..Len(inbox) : inbox[k][1] \in Started
    <3>1. inbox \in Seq(Started \X {"normal", "crash"})
      BY <1>1 DEF SupervisorTypeOK
    <3> QED BY <3>1, ElementOfSeq
  <2> QED BY <1>1, <1>3, <1>6, <1>8, <2>1, <2>2 DEF PidsAreKnown
<1>13. RunningIsKnown'
  BY <1>1, <1>3, <1>4, <1>5, <1>6, <1>8 DEF RunningIsKnown
<1>14. EndsAreTold' /\ LimitStopsAll'
  BY <1>1, <1>3, <1>8 DEF EndsAreTold, Told, LimitStopsAll
<1>15. InWindow' /\ RestartRate'
  BY <1>3, WindowKept DEF SupervisorInv
<1> QED BY <1>10, <1>11, <1>12, <1>13, <1>14, <1>15 DEF SupervisorInv, PidsInv

LEMMA LinkStep == ASSUME SupervisorInv, LinkChild PROVE SupervisorInv'
<1> DEFINE i == todo[1][2] p == todo[1][3]
<1>1. /\ SupervisorTypeOK /\ PlanInv /\ PidsAreKnown /\ RunningIsKnown /\ EndsAreTold
      /\ 0 \notin Started /\ todo \in Seq(Steps) /\ linked \subseteq Started /\ children \in Seq(ChildStates)
      /\ todo # <<>> /\ todo[1][1] = "link" /\ i \in Indices /\ outcome = "ok" /\ IsStep(1)
      /\ p \in Started /\ Len(todo) \in Nat \ {0}
  BY SupervisorFacts, StepKinds DEF LinkChild
<1>2. /\ linked' = linked \cup {p} /\ Proceed(<<>>)
      /\ children' = [children EXCEPT ![i].pid = p, ![i].running = TRUE]
      /\ UNCHANGED <<strategy, proc, inbox, history, clock, granted, failing, outcome, crashed>>
  BY DEF LinkChild
<1>3. proc[p] # "none" /\ \A j \in Indices : children[j].pid # p
  BY <1>1 DEF IsStep
<1>4. ~children[i].running
  <2>1. IsFree(children, todo, todo[1][2], 1 - 1)
    BY <1>1 DEF PlanInv, StopsComeFirst
  <2> QED BY <2>1 DEF IsFree
<1> HIDE DEF i, p
<1>5. /\ children' \in Seq(ChildStates) /\ Indices' = Indices
      /\ children'[i].pid = p /\ children'[i].running = TRUE
      /\ \A j \in Indices : j # i => children'[j] = children[j]
  BY <1>1, <1>2, ChildSet
<1>6. todo' \in Seq(Steps)
  BY <1>1, <1>2, ProceedShort
<1>7. PlanInv'
  <2>1. \A j \in Indices : children'[j].running =>
            \/ children[j].running /\ ~Ends(todo[1], j)
            \/ todo[1][1] = "link" /\ todo[1][2] = j
    BY <1>1, <1>5 DEF Ends, i
  <2> QED BY <1>1, <1>2, <1>5, <2>1, PopKeeps
<1>8. SupervisorTypeOK'
  BY <1>1, <1>2, <1>5, <1>6 DEF SupervisorTypeOK
<1>9. PidsAreKnown'
  <2>1. \A j \in Indices : /\ children'[j].running => children'[j].pid # 0
                           /\ children'[j].pid # 0 => proc[children'[j].pid] # "none"
    <3>1. CASE TRUE
      BY <1>1, <1>3, <1>5 DEF PidsAreKnown
    <3> QED BY <3>1
  <2>2. \A j, k \in Indices : children'[j].pid = children'[k].pid /\ children'[j].pid # 0 => j = k
    BY <1>1, <1>3, <1>5 DEF PidsAreKnown
  <2>3. \A q \in linked' : proc[q] # "none"
    BY <1>1, <1>2, <1>3 DEF PidsAreKnown
  <2> QED BY <1>1, <1>2, <1>5, <2>1, <2>2, <2>3 DEF PidsAreKnown
<1>10. RunningIsKnown'
  <2>1. ASSUME NEW q \in Started, proc[q] = "run"
        PROVE  \E j \in Indices : children'[j].pid = q /\ children'[j].running
    <3>1. CASE q = p
      BY <1>1, <1>5, <3>1
    <3>2. CASE q # p
      <4>1. PICK j \in Indices : children[j].pid = q /\ children[j].running
        BY <1>1, <2>1, <3>2 DEF RunningIsKnown, p
      <4>2. j # i
        BY <1>4, <4>1
      <4> QED BY <1>5, <4>1, <4>2
    <3> QED BY <3>1, <3>2
  <2> QED BY <1>1, <1>2, <1>5, <2>1 DEF RunningIsKnown
<1>11. EndsAreTold'
  <2> SUFFICES ASSUME NEW j \in Indices, children'[j].pid # 0
               PROVE  children'[j].pid \in linked' \/ Told(children'[j].pid)
    BY <1>2, <1>5 DEF EndsAreTold, Told
  <2>1. CASE j = i
    BY <1>2, <1>5, <2>1
  <2>2. CASE j # i
    <3>1. children'[j] = children[j]
      BY <1>5, <2>2
    <3>2. children[j].pid \in linked \/ Told(children[j].pid)
      BY <1>1, <3>1 DEF EndsAreTold
    <3> QED BY <1>2, <3>1, <3>2
  <2> QED BY <2>1, <2>2
<1>12. LimitStopsAll'
  BY <1>1, <1>2 DEF LimitStopsAll
<1>13. InWindow' /\ RestartRate'
  BY <1>2, WindowKept DEF SupervisorInv
<1> QED BY <1>7, <1>8, <1>9, <1>10, <1>11, <1>12, <1>13 DEF SupervisorInv, PidsInv

LEMMA StartFailsStep == ASSUME SupervisorInv, StartFails PROVE SupervisorInv'
<1> DEFINE i == todo[1][2] f == todo[1][3] stops == Stops(f, i - 1)
<1>1. /\ SupervisorTypeOK /\ PlanInv /\ PidsAreKnown /\ RunningIsKnown /\ EndsAreTold
      /\ todo \in Seq(Steps) /\ Indices = 1..Len(children) /\ Len(children) \in Nat
      /\ todo # <<>> /\ todo[1][1] = "start" /\ i \in Indices /\ outcome = "ok" /\ IsStep(1)
      /\ Len(todo) \in Nat \ {0} /\ f \in Nat
  BY SupervisorFacts, StepKinds DEF StartFails
<1>2. /\ todo' = stops \o <<<<"fail", "start">>>>
      /\ UNCHANGED <<strategy, children, proc, linked, inbox, history, clock, granted, failing, outcome, crashed>>
  BY DEF StartFails
<1>3. f \in 1..i /\ i \in 1..Len(children)
  BY <1>1 DEF IsStep
<1> DEFINE n == i - f
<1>4. /\ n \in Nat /\ n + 1 \in 1..Len(children) /\ \A k \in 1..n : i - k \in f..i
  BY SMTT(30), <1>1, <1>3
<1>5. /\ stops \in Seq(Steps) /\ Len(stops) = n
      /\ \A k \in 1..n : stops[k][1] = "stop" /\ stops[k][2] = i - k
  <2>1. f \in Nat \ {0} /\ i - 1 \in Nat /\ f <= (i - 1) + 1 /\ (i - 1) + 1 = i
    BY <1>1, <1>3
  <2>2. /\ stops \in Seq(Steps) /\ Len(stops) = (i - 1) + 1 - f
        /\ \A k \in 1..((i - 1) + 1 - f) : stops[k][1] = "stop" /\ stops[k][2] = (i - 1) + 1 - k
    BY <2>1, StopsProperties, Zenon
  <2> HIDE DEF stops
  <2>3. (i - 1) + 1 - f = n
    BY <1>1, <1>3
  <2>4. \A k \in 1..n : (i - 1) + 1 - k = i - k
    BY <1>1, <1>3
  <2> HIDE DEF n
  <2> QED BY <2>2, <2>3, <2>4
<1> HIDE DEF stops, n
<1>6. /\ todo' \in Seq(Steps) /\ Len(todo') = n + 1 /\ todo'[n + 1] = <<"fail", "start">>
      /\ \A k \in 1..n : todo'[k] = stops[k]
  <2>1. <<<<"fail", "start">>>> \in Seq(Steps)
    BY StepKinds
  <2> DEFINE e == <<<<"fail", "start">>>>
  <2>2. Len(e) = 1 /\ e[1] = <<"fail", "start">>
    OBVIOUS
  <2> HIDE DEF e
  <2>3. /\ stops \o e \in Seq(Steps) /\ Len(stops \o e) = Len(stops) + Len(e)
        /\ \A k \in 1..Len(stops) + Len(e) :
              (stops \o e)[k] = IF k <= Len(stops) THEN stops[k] ELSE e[k - Len(stops)]
    BY <1>5, <2>1, ConcatProperties, Zenon DEF e
  <2>4. todo' = stops \o e
    BY <1>2 DEF e
  <2>5. n \in Nat
    BY <1>4
  <2> QED BY <1>5, <2>2, <2>3, <2>4, <2>5
<1>7. \A k \in 1..(n + 1) : \/ k = n + 1 /\ todo'[k][1] = "fail" /\ todo'[k][2] = "start"
                            \/ k \in 1..n /\ todo'[k][1] = "stop" /\ todo'[k][2] = i - k
  BY <1>4, <1>5, <1>6
<1> HIDE DEF i, f
<1>8. Indices' = Indices /\ todo' # <<>>
  <2>1. Len(todo') # 0
    BY <1>4, <1>6
  <2> QED BY <1>2, <2>1, EmptySeq DEF Indices
<1>9. StepsAreSound'
  <2> SUFFICES ASSUME NEW k \in 1..(n + 1) PROVE IsStep(k)'
    BY <1>6 DEF StepsAreSound
  <2>1. CASE k = n + 1 /\ todo'[k][1] = "fail"
    BY <1>6, <2>1 DEF IsStep
  <2>2. CASE k \in 1..n /\ todo'[k][1] = "stop" /\ todo'[k][2] = i - k
    <3>1. i - k \in Indices'
      BY <1>1, <1>3, <1>4, <1>8, <2>2
    <3> QED BY <2>2, <3>1 DEF IsStep
  <2> QED BY <1>7, <2>1, <2>2
<1>10. StopsComeFirst'
  BY <1>4, <1>6, <1>7 DEF StopsComeFirst, IsLimit
<1>11. InScope'
  <2> SUFFICES ASSUME failing # 0, NEW k \in 1..(n + 1), todo'[k][1] # "fail"
               PROVE  /\ strategy = "one_for_one" => todo'[k][2] = failing /\ todo'[k][1] # "start"
                      /\ strategy = "rest_for_one" => todo'[k][2] >= failing /\ todo'[k][1] # "start"
    BY <1>2, <1>6 DEF InScope
  <2>1. k \in 1..n /\ todo'[k][1] = "stop" /\ todo'[k][2] = i - k /\ i - k \in f..(i - 1)
    BY <1>1, <1>3, <1>7 DEF n
  <2>2. 1 \in 1..Len(todo) /\ ~IsLimit(todo[Len(todo)])
    <3>1. 1 \in 1..Len(todo) /\ Len(todo) \in 1..Len(todo)
      BY <1>1
    <3>2. IsLimit(todo[Len(todo)]) => \A j \in 1..(Len(todo) - 1) : todo[j][1] \notin {"start", "link"}
      BY <1>1, <3>1 DEF PlanInv, StopsComeFirst
    <3>3. Len(todo) = 1 => ~IsLimit(todo[Len(todo)])
      BY <1>1 DEF IsLimit
    <3>4. Len(todo) # 1 => 1 \in 1..(Len(todo) - 1)
      <4>1. Len(todo) \in Nat \ {0}
        BY <1>1
      <4>2. \A m \in Nat \ {0} : m # 1 => 1 \in 1..(m - 1)
        OBVIOUS
      <4> QED BY <4>1, <4>2, Zenon
    <3>5. todo[1][1] = "start"
      BY <1>1
    <3> QED BY <3>1, <3>2, <3>3, <3>4, <3>5
  <2>3. /\ strategy = "one_for_one" => i = failing /\ f = failing
        /\ strategy = "rest_for_one" => i >= failing /\ f >= failing
    BY <1>1, <2>2 DEF PlanInv, InScope, i, f
  <2>4. failing \in Nat
    BY <1>1 DEF SupervisorTypeOK
  <2> QED BY <1>1, <1>3, <2>1, <2>3, <2>4
<1>12. SupervisorTypeOK'
  BY <1>1, <1>2, <1>6 DEF SupervisorTypeOK
<1>13. PidsAreKnown'
  BY <1>1, <1>2, <1>8 DEF PidsAreKnown
<1>14. RunningIsKnown'
  BY <1>1, <1>2, <1>8 DEF RunningIsKnown
<1>15. EndsAreTold' /\ LimitStopsAll'
  BY <1>1, <1>2, <1>8 DEF EndsAreTold, Told, LimitStopsAll
<1>16. InWindow' /\ RestartRate'
  BY <1>2, WindowKept DEF SupervisorInv
<1> QED BY <1>9, <1>10, <1>11, <1>12, <1>13, <1>14, <1>15, <1>16 DEF SupervisorInv, PidsInv, PlanInv

LEMMA StopStep == ASSUME SupervisorInv, StopChild PROVE SupervisorInv'
<1> DEFINE i == todo[1][2] c == children[i] q == c.pid
<1>1. /\ SupervisorTypeOK /\ PlanInv /\ PidsAreKnown /\ RunningIsKnown /\ EndsAreTold
      /\ proc \in [Started -> {"none", "run", "exited", "gone"}] /\ 0 \notin Started
      /\ todo \in Seq(Steps) /\ children \in Seq(ChildStates)
      /\ todo # <<>> /\ todo[1][1] = "stop" /\ i \in Indices /\ i \in Nat /\ outcome = "ok"
      /\ \A j \in Indices : children[j].pid \in {0} \cup Started /\ children[j].running \in BOOLEAN
      /\ c.running => q \in Started
  BY SupervisorFacts, StepKinds DEF StopChild
<1>2. UNCHANGED <<strategy, linked, inbox, history, clock, granted, failing, outcome, crashed>>
  BY DEF StopChild
<1> HIDE DEF i
<1>3. InWindow' /\ RestartRate'
  BY <1>2, WindowKept DEF SupervisorInv
<1>4. CASE ~c.running /\ Proceed(<<>>) /\ UNCHANGED <<children, proc>>
  <2>1. todo' \in Seq(Steps)
    BY <1>1, <1>4, ProceedShort
  <2>2. Indices' = Indices
    BY <1>4 DEF Indices
  <2>3. \A j \in Indices : children'[j].running => children[j].running /\ ~Ends(todo[1], j)
    BY <1>1, <1>4 DEF Ends, i
  <2>4. PlanInv'
    BY <1>1, <1>2, <1>4, <2>2, <2>3, PopKeeps
  <2>5. SupervisorTypeOK'
    BY <1>1, <1>2, <1>4, <2>1 DEF SupervisorTypeOK
  <2>6. PidsAreKnown' /\ RunningIsKnown' /\ EndsAreTold' /\ LimitStopsAll'
    BY <1>1, <1>2, <1>4, <2>2 DEF PidsAreKnown, RunningIsKnown, EndsAreTold, Told, LimitStopsAll
  <2> QED BY <1>3, <2>4, <2>5, <2>6 DEF SupervisorInv, PidsInv
<1>5. CASE /\ c.running /\ Proceed(<<>>)
           /\ proc' = IF proc[q] = "run" THEN [proc EXCEPT ![q] = "exited"] ELSE proc
           /\ children' = [children EXCEPT ![i].pid = 0, ![i].running = FALSE]
  <2>1. todo' \in Seq(Steps)
    BY <1>1, <1>5, ProceedShort
  <2>2. /\ children' \in Seq(ChildStates) /\ Indices' = Indices
        /\ children'[i].pid = 0 /\ children'[i].running = FALSE
        /\ \A j \in Indices : j # i => children'[j] = children[j]
    BY <1>1, <1>5, ChildSet
  <2>3. /\ proc' \in [Started -> {"none", "run", "exited", "gone"}]
        /\ \A p \in Started : /\ proc'[p] = "run" => proc[p] = "run" /\ p # q
                              /\ proc'[p] = "none" <=> proc[p] = "none"
                              /\ proc'[p] = "gone" <=> proc[p] = "gone"
    BY <1>1, <1>5, Killed
  <2>4. \A j \in Indices : children'[j].running => children[j].running /\ ~Ends(todo[1], j)
    BY <1>1, <2>2 DEF Ends, i
  <2>5. PlanInv'
    BY <1>1, <1>2, <1>5, <2>2, <2>4, PopKeeps
  <2>6. SupervisorTypeOK'
    BY <1>1, <1>2, <2>1, <2>2, <2>3 DEF SupervisorTypeOK
  <2>7. PidsAreKnown'
    BY <1>2, <2>2, <2>3, PidsKept
  <2>8. RunningIsKnown'
    <3>1. ASSUME NEW p \in Started, proc'[p] = "run"
          PROVE  \E j \in Indices : children'[j].pid = p /\ children'[j].running
      <4>1. PICK j \in Indices : children[j].pid = p /\ children[j].running
        BY <1>1, <2>3, <3>1 DEF RunningIsKnown
      <4>2. j # i
        BY <2>3, <3>1, <4>1
      <4> QED BY <2>2, <4>1, <4>2
    <3> QED BY <1>1, <1>2, <2>2, <3>1 DEF RunningIsKnown
  <2>9. EndsAreTold' /\ LimitStopsAll'
    BY <1>1, <1>2, <2>2 DEF EndsAreTold, Told, LimitStopsAll
  <2> QED BY <1>3, <2>5, <2>6, <2>7, <2>8, <2>9 DEF SupervisorInv, PidsInv
<1>6. CASE /\ c.running /\ UNCHANGED children
           /\ \/ /\ Proceed(<<<<"unlink", i>>>>)
                 /\ proc' = IF proc[q] = "run" THEN [proc EXCEPT ![q] = "exited"] ELSE proc
              \/ Proceed(<<<<"wait", i>>>>) /\ UNCHANGED proc
  <2>1. PICK s \in {<<"unlink", i>>, <<"wait", i>>} :
            /\ Proceed(<<s>>)
            /\ s[1] = "unlink" => proc' = IF proc[q] = "run" THEN [proc EXCEPT ![q] = "exited"] ELSE proc
            /\ s[1] = "wait" => UNCHANGED proc
    <3>1. CASE /\ Proceed(<<<<"unlink", i>>>>)
               /\ proc' = IF proc[q] = "run" THEN [proc EXCEPT ![q] = "exited"] ELSE proc
      BY <3>1
    <3>2. CASE Proceed(<<<<"wait", i>>>>) /\ UNCHANGED proc
      BY <3>2
    <3> QED BY <1>6, <3>1, <3>2
  <2>2. s \in Steps /\ s[1] \in {"unlink", "wait"} /\ s[2] = i
    <3>1. <<"unlink", i>> \in Steps /\ <<"wait", i>> \in Steps
      BY <1>1, StepKinds
    <3>2. CASE s = <<"unlink", i>>
      BY <3>1, <3>2
    <3>3. CASE s = <<"wait", i>>
      BY <3>1, <3>3
    <3> QED BY <2>1, <3>2, <3>3
  <2>3. /\ todo' \in Seq(Steps) /\ todo'[1] = s
    BY <1>1, <2>1, <2>2, ProceedWith
  <2>4. Indices' = Indices
    BY <1>6 DEF Indices
  <2>5. /\ proc' \in [Started -> {"none", "run", "exited", "gone"}] /\ (s[1] = "unlink" => proc'[q] # "run")
        /\ \A p \in Started : /\ proc'[p] = "run" => proc[p] = "run"
                              /\ proc'[p] = "none" <=> proc[p] = "none"
                              /\ proc'[p] = "gone" <=> proc[p] = "gone"
    BY <1>1, <1>6, <2>1, <2>2, Killed
  <2>6. IsStep(1)'
    BY <1>1, <1>6, <2>2, <2>3, <2>4, <2>5 DEF IsStep
  <2>7. PlanInv'
    <3>1. s[2] = todo[1][2]
      BY <2>2 DEF i
    <3> QED BY <1>1, <1>2, <1>6, <2>1, <2>2, <2>6, <3>1, ReplaceKeeps
  <2>8. SupervisorTypeOK'
    BY <1>1, <1>2, <1>6, <2>3, <2>5 DEF SupervisorTypeOK
  <2>9. PidsAreKnown'
    <3>1. \A j \in Indices : /\ children'[j].pid \in {0, children[j].pid}
                             /\ children'[j].running => children[j].running /\ children'[j].pid = children[j].pid
      BY <1>6
    <3> QED BY <1>2, <2>4, <2>5, <3>1, PidsKept
  <2>10. RunningIsKnown'
    BY <1>1, <1>2, <1>6, <2>4, <2>5 DEF RunningIsKnown
  <2>11. EndsAreTold' /\ LimitStopsAll'
    BY <1>1, <1>2, <1>6, <2>4 DEF EndsAreTold, Told, LimitStopsAll
  <2> QED BY <1>3, <2>7, <2>8, <2>9, <2>10, <2>11 DEF SupervisorInv, PidsInv
<1> QED BY <1>4, <1>5, <1>6 DEF StopChild, i

LEMMA WaitStep == ASSUME SupervisorInv, WaitChild PROVE SupervisorInv'
<1> DEFINE i == todo[1][2] q == children[i].pid s == <<"unlink", i>>
<1>1. /\ SupervisorTypeOK /\ PlanInv /\ PidsAreKnown /\ RunningIsKnown /\ EndsAreTold
      /\ proc \in [Started -> {"none", "run", "exited", "gone"}]
      /\ todo \in Seq(Steps) /\ todo # <<>> /\ todo[1][1] = "wait" /\ i \in Indices /\ i \in Nat
      /\ outcome = "ok" /\ children[i].running /\ q \in Started
  <2>1. IsStep(1) /\ todo # <<>> /\ todo[1][1] = "wait"
    BY SupervisorFacts DEF WaitChild
  <2> QED BY <2>1, SupervisorFacts, StepKinds DEF IsStep
<1>2. /\ proc' = IF proc[q] = "run" THEN [proc EXCEPT ![q] = "exited"] ELSE proc
      /\ Proceed(<<s>>)
      /\ UNCHANGED <<strategy, children, linked, inbox, history, clock, granted, failing, outcome, crashed>>
  BY DEF WaitChild
<1>3. s \in Steps /\ s[1] = "unlink" /\ s[2] = i
  BY <1>1, StepKinds
<1> HIDE DEF s
<1>4. todo' \in Seq(Steps) /\ todo'[1] = s
  BY <1>1, <1>2, <1>3, ProceedWith
<1>5. Indices' = Indices
  BY <1>2 DEF Indices
<1>6. /\ proc' \in [Started -> {"none", "run", "exited", "gone"}] /\ proc'[q] # "run"
      /\ \A p \in Started : /\ proc'[p] = "run" => proc[p] = "run"
                            /\ proc'[p] = "none" <=> proc[p] = "none"
                            /\ proc'[p] = "gone" <=> proc[p] = "gone"
  BY <1>1, <1>2, Killed
<1>7. IsStep(1)'
  BY <1>1, <1>2, <1>3, <1>4, <1>5, <1>6 DEF IsStep
<1>8. PlanInv'
  BY <1>1, <1>2, <1>3, <1>7, ReplaceKeeps
<1>9. SupervisorTypeOK'
  BY <1>1, <1>2, <1>4, <1>6 DEF SupervisorTypeOK
<1>10. PidsAreKnown'
  <2>1. \A j \in Indices : /\ children'[j].pid \in {0, children[j].pid}
                           /\ children'[j].running => children[j].running /\ children'[j].pid = children[j].pid
    BY <1>2
  <2> QED BY <1>2, <1>5, <1>6, <2>1, PidsKept
<1>11. RunningIsKnown'
  BY <1>1, <1>2, <1>5, <1>6 DEF RunningIsKnown
<1>12. EndsAreTold' /\ LimitStopsAll'
  BY <1>1, <1>2, <1>5 DEF EndsAreTold, Told, LimitStopsAll
<1>13. InWindow' /\ RestartRate'
  BY <1>2, WindowKept DEF SupervisorInv
<1> QED BY <1>8, <1>9, <1>10, <1>11, <1>12, <1>13 DEF SupervisorInv, PidsInv

LEMMA UnlinkStep == ASSUME SupervisorInv, UnlinkChild PROVE SupervisorInv'
<1> DEFINE i == todo[1][2] q == children[i].pid
<1>1. /\ SupervisorTypeOK /\ PlanInv /\ PidsAreKnown /\ RunningIsKnown /\ EndsAreTold
      /\ proc \in [Started -> {"none", "run", "exited", "gone"}] /\ linked \subseteq Started
      /\ todo \in Seq(Steps) /\ children \in Seq(ChildStates)
      /\ todo # <<>> /\ todo[1][1] = "unlink" /\ i \in Indices
      /\ outcome = "ok" /\ children[i].running /\ q \in Started /\ proc[q] # "run"
      /\ \A j \in Indices : children[j].pid \in {0} \cup Started
  <2>1. IsStep(1) /\ todo # <<>> /\ todo[1][1] = "unlink"
    BY SupervisorFacts DEF UnlinkChild
  <2> QED BY <2>1, SupervisorFacts DEF IsStep
<1>2. /\ linked' = linked \ {q} /\ Proceed(<<>>)
      /\ children' = [children EXCEPT ![i].pid = 0, ![i].running = FALSE]
      /\ UNCHANGED <<strategy, proc, inbox, history, clock, granted, failing, outcome, crashed>>
  BY DEF UnlinkChild
<1> HIDE DEF i
<1>3. todo' \in Seq(Steps)
  BY <1>1, <1>2, ProceedShort
<1>4. /\ children' \in Seq(ChildStates) /\ Indices' = Indices
      /\ children'[i].pid = 0 /\ children'[i].running = FALSE
      /\ \A j \in Indices : j # i => children'[j] = children[j]
  BY <1>1, <1>2, ChildSet
<1>5. PlanInv'
  <2>1. \A j \in Indices : children'[j].running => children[j].running /\ ~Ends(todo[1], j)
    BY <1>1, <1>4 DEF Ends, i
  <2> QED BY <1>1, <1>2, <1>4, <2>1, PopKeeps
<1>6. SupervisorTypeOK'
  BY <1>1, <1>2, <1>3, <1>4 DEF SupervisorTypeOK
<1>7. PidsAreKnown'
  BY <1>1, <1>2, <1>4, PidsKept
<1>8. RunningIsKnown'
  <2>1. ASSUME NEW p \in Started, proc[p] = "run"
        PROVE  \E j \in Indices : children'[j].pid = p /\ children'[j].running
    <3>1. PICK j \in Indices : children[j].pid = p /\ children[j].running
      BY <1>1, <2>1 DEF RunningIsKnown
    <3>2. j # i
      BY <1>1, <2>1, <3>1
    <3> QED BY <1>4, <3>1, <3>2
  <2> QED BY <1>1, <1>2, <1>4, <2>1 DEF RunningIsKnown
<1>9. EndsAreTold'
  <2> SUFFICES ASSUME NEW j \in Indices, children'[j].pid # 0
               PROVE  children'[j].pid \in linked' \/ Told(children'[j].pid)
    BY <1>2, <1>4 DEF EndsAreTold, Told
  <2>1. j # i /\ children'[j] = children[j]
    BY <1>4
  <2>2. children[j].pid # q
    BY <1>1, <2>1 DEF PidsAreKnown
  <2> QED BY <1>1, <1>2, <2>1, <2>2 DEF EndsAreTold
<1>10. LimitStopsAll'
  BY <1>1, <1>2 DEF LimitStopsAll
<1>11. InWindow' /\ RestartRate'
  BY <1>2, WindowKept DEF SupervisorInv
<1> QED BY <1>5, <1>6, <1>7, <1>8, <1>9, <1>10, <1>11 DEF SupervisorInv, PidsInv

\* Which child was the j-th of those but i.
At(i, j) == IF j < i THEN j ELSE j + 1

LEMMA WithoutOne ==
  ASSUME SupervisorInv, NEW i \in Indices, children' = RemoveAt(children, i)
  PROVE  /\ children' \in Seq(ChildStates)
         /\ \A j \in Indices' : At(i, j) \in Indices \ {i} /\ children'[j] = children[At(i, j)]
         /\ \A j, k \in Indices' : At(i, j) = At(i, k) => j = k
         /\ \A k \in Indices \ {i} : \E j \in Indices' : At(i, j) = k
<1>1. children \in Seq(ChildStates) /\ Indices = 1..Len(children) /\ Len(children) \in Nat
  BY SupervisorFacts
<1> DEFINE n == Len(children)
<1>2. /\ children' \in Seq(ChildStates) /\ Len(children') = n - 1
      /\ \A j \in 1..(n - 1) : children'[j] = IF j < i THEN children[j] ELSE children[j + 1]
  BY <1>1, ChildOut
<1>3. Indices' = 1..(n - 1) /\ i \in 1..n /\ n \in Nat
  BY <1>1, <1>2 DEF Indices
<1> HIDE DEF n
<1>4. ASSUME NEW j \in 1..(n - 1)
      PROVE  At(i, j) \in (1..n) \ {i} /\ children'[j] = children[At(i, j)]
  BY <1>2, <1>3 DEF At
<1>5. \A j, k \in 1..(n - 1) : At(i, j) = At(i, k) => j = k
  BY <1>3 DEF At
<1>6. ASSUME NEW k \in (1..n) \ {i}
      PROVE  \E j \in 1..(n - 1) : At(i, j) = k
  <2>1. CASE k < i
    BY <1>3, <2>1 DEF At
  <2>2. CASE ~(k < i)
    <3>1. k - 1 \in 1..(n - 1) /\ At(i, k - 1) = k
      BY <1>3, <2>2 DEF At
    <3> QED BY <3>1
  <2> QED BY <2>1, <2>2
<1> QED BY <1>1, <1>2, <1>3, <1>4, <1>5, <1>6 DEF n

\* A child that does not run is not missed.
LEMMA PidsWithoutOne ==
  ASSUME SupervisorInv, NEW i \in Indices, children' = RemoveAt(children, i), UNCHANGED <<proc, linked>>,
         \A p \in Started : proc[p] = "run" =>
            \E k \in Indices \ {i} : children[k].pid = p /\ children[k].running
  PROVE  /\ \A j \in Indices' : /\ children'[j].running => children'[j].pid # 0
                                /\ children'[j].pid # 0 => proc'[children'[j].pid] # "none"
         /\ \A j, k \in Indices' : children'[j].pid = children'[k].pid /\ children'[j].pid # 0 => j = k
         /\ \A p \in Started : proc'[p] = "run" => \E j \in Indices' : children'[j].pid = p /\ children'[j].running
         /\ \A j \in Indices' : children'[j].pid # 0 =>
               /\ children'[j].pid \in linked' \/ Told(children'[j].pid)
               /\ children[i].pid # 0 => children'[j].pid # children[i].pid
<1>1. PidsAreKnown /\ EndsAreTold
  BY SupervisorFacts
<1>2. /\ \A j \in Indices' : At(i, j) \in Indices \ {i} /\ children'[j] = children[At(i, j)]
      /\ \A j, k \in Indices' : At(i, j) = At(i, k) => j = k
      /\ \A k \in Indices \ {i} : \E j \in Indices' : At(i, j) = k
  BY WithoutOne
<1>3. ASSUME NEW j \in Indices'
      PROVE  /\ children'[j].running => children'[j].pid # 0
             /\ children'[j].pid # 0 => /\ proc'[children'[j].pid] # "none"
                                        /\ children'[j].pid \in linked' \/ Told(children'[j].pid)
                                        /\ children[i].pid # 0 => children'[j].pid # children[i].pid
  <2> DEFINE k == At(i, j)
  <2>1. k \in Indices /\ k # i /\ children'[j] = children[k]
    BY <1>2
  <2> HIDE DEF k
  <2> QED BY <1>1, <2>1 DEF PidsAreKnown, EndsAreTold
<1>4. ASSUME NEW j \in Indices', NEW k \in Indices', children'[j].pid = children'[k].pid, children'[j].pid # 0
      PROVE  j = k
  <2>1. At(i, j) = At(i, k)
    BY <1>1, <1>2, <1>4 DEF PidsAreKnown
  <2> QED BY <1>2, <2>1
<1>5. ASSUME NEW p \in Started, proc'[p] = "run"
      PROVE  \E j \in Indices' : children'[j].pid = p /\ children'[j].running
  <2>1. PICK k \in Indices \ {i} : children[k].pid = p /\ children[k].running
    BY <1>5
  <2>2. PICK j \in Indices' : At(i, j) = k
    BY <1>2
  <2> QED BY <1>2, <2>1, <2>2
<1> QED BY <1>3, <1>4, <1>5

LEMMA NoPlan ==
  ASSUME todo' = <<>>
  PROVE  PlanInv' /\ todo' \in Seq(Steps)
<1>1. Len(todo') = 0 /\ todo' \in Seq(Steps)
  BY EmptySeq
<1> QED BY <1>1 DEF PlanInv, StepsAreSound, StopsComeFirst, InScope

LEMMA RemoveStep == ASSUME SupervisorInv, RemoveChild PROVE SupervisorInv'
<1> DEFINE i == todo[1][2]
<1>1. /\ SupervisorTypeOK /\ PlanInv /\ PidsAreKnown /\ RunningIsKnown /\ EndsAreTold
      /\ todo \in Seq(Steps) /\ todo # <<>> /\ todo[1][1] = "remove" /\ i \in Indices /\ outcome = "ok"
      /\ IsStep(1) /\ Len(todo) \in Nat \ {0}
  BY SupervisorFacts DEF RemoveChild
<1>2. /\ children' = RemoveAt(children, i) /\ Proceed(<<>>)
      /\ UNCHANGED <<strategy, proc, linked, inbox, history, clock, granted, failing, outcome, crashed>>
  BY DEF RemoveChild
<1>3. ~children[i].running
  <2>1. IsFree(children, todo, todo[1][2], 1 - 1)
    BY <1>1 DEF PlanInv, StopsComeFirst
  <2> QED BY <2>1 DEF IsFree
<1>4. todo' = <<>>
  <2>1. Len(todo) = 1
    BY <1>1 DEF IsStep
  <2>2. todo' \in Seq(Steps) /\ Len(todo') = 0
    BY <1>1, <1>2, <2>1, ProceedShort
  <2> QED BY <2>2, EmptySeq
<1> HIDE DEF i
<1>5. PlanInv' /\ todo' \in Seq(Steps)
  BY <1>4, NoPlan
<1>6. children' \in Seq(ChildStates)
  BY <1>1, <1>2, WithoutOne
<1>7. SupervisorTypeOK'
  BY <1>1, <1>2, <1>5, <1>6 DEF SupervisorTypeOK
<1>8. ASSUME NEW p \in Started, proc[p] = "run"
      PROVE  \E k \in Indices \ {i} : children[k].pid = p /\ children[k].running
  <2>1. PICK k \in Indices : children[k].pid = p /\ children[k].running
    BY <1>1, <1>8 DEF RunningIsKnown
  <2> QED BY <1>3, <2>1
<1>9. /\ \A j \in Indices' : /\ children'[j].running => children'[j].pid # 0
                             /\ children'[j].pid # 0 => proc'[children'[j].pid] # "none"
      /\ \A j, k \in Indices' : children'[j].pid = children'[k].pid /\ children'[j].pid # 0 => j = k
      /\ \A p \in Started : proc'[p] = "run" => \E j \in Indices' : children'[j].pid = p /\ children'[j].running
      /\ \A j \in Indices' : children'[j].pid # 0 => children'[j].pid \in linked' \/ Told(children'[j].pid)
  BY <1>1, <1>2, <1>8, PidsWithoutOne
<1>10. PidsAreKnown'
  BY <1>1, <1>2, <1>9 DEF PidsAreKnown
<1>11. RunningIsKnown'
  BY <1>1, <1>2, <1>9 DEF RunningIsKnown
<1>12. EndsAreTold'
  BY <1>2, <1>9 DEF EndsAreTold, Told
<1>13. LimitStopsAll'
  BY <1>1, <1>2 DEF LimitStopsAll
<1>14. InWindow' /\ RestartRate'
  BY <1>2, WindowKept DEF SupervisorInv
<1> QED BY <1>5, <1>7, <1>10, <1>11, <1>12, <1>13, <1>14 DEF SupervisorInv, PidsInv

LEMMA FailStep == ASSUME SupervisorInv, Fail PROVE SupervisorInv'
<1>1. /\ SupervisorTypeOK /\ PlanInv /\ PidsAreKnown /\ RunningIsKnown /\ EndsAreTold
      /\ todo \in Seq(Steps) /\ todo # <<>> /\ todo[1][1] = "fail" /\ IsStep(1)
      /\ Len(todo) \in Nat \ {0} /\ todo[1][2] \in {"start", "limit"}
  BY SupervisorFacts, StepKinds DEF Fail
<1>2. /\ outcome' = todo[1][2] /\ Proceed(<<>>)
      /\ UNCHANGED <<strategy, children, proc, linked, inbox, history, clock, granted, failing, crashed>>
  BY DEF Fail
<1>3. todo' = <<>>
  <2>1. Len(todo) = 1
    BY <1>1 DEF IsStep
  <2>2. todo' \in Seq(Steps) /\ Len(todo') = 0
    BY <1>1, <1>2, <2>1, ProceedShort
  <2> QED BY <2>2, EmptySeq
<1>4. PlanInv' /\ todo' \in Seq(Steps)
  BY <1>3, NoPlan
<1>5. SupervisorTypeOK'
  BY <1>1, <1>2, <1>4 DEF SupervisorTypeOK
<1>6. Indices' = Indices
  BY <1>2 DEF Indices
<1>7. PidsAreKnown' /\ EndsAreTold'
  BY <1>1, <1>2, <1>6 DEF PidsAreKnown, EndsAreTold, Told
<1>8. RunningIsKnown'
  BY <1>1, <1>2, <1>3, <1>6 DEF RunningIsKnown
<1>9. LimitStopsAll'
  <2> SUFFICES ASSUME todo[1][2] = "limit", NEW p \in Started, proc[p] = "run"
               PROVE  FALSE
    BY <1>2 DEF LimitStopsAll
  <2>1. \A i \in Indices : IsFree(children, todo, i, 1 - 1)
    BY <1>1 DEF PlanInv, StopsComeFirst, IsLimit
  <2>2. \A i \in Indices : ~children[i].running
    BY <2>1 DEF IsFree
  <2> QED BY <1>1, <2>2 DEF RunningIsKnown
<1>10. InWindow' /\ RestartRate'
  BY <1>2, WindowKept DEF SupervisorInv
<1> QED BY <1>4, <1>5, <1>7, <1>8, <1>9, <1>10 DEF SupervisorInv, PidsInv

LEMMA ChildEndsStep ==
  ASSUME SupervisorInv, NEW p \in Started, NEW reason \in {"normal", "crash"}, ChildEnds(p, reason)
  PROVE  SupervisorInv'
<1>1. /\ SupervisorTypeOK /\ PlanInv /\ PidsAreKnown /\ RunningIsKnown /\ EndsAreTold /\ LimitStopsAll
      /\ proc \in [Started -> {"none", "run", "exited", "gone"}] /\ linked \subseteq Started
      /\ inbox \in Seq(Started \X {"normal", "crash"}) /\ 0 \notin Started
      /\ \A j \in Indices : /\ children[j].pid \in {0} \cup Started
                            /\ children[j].running => children[j].pid \in Started
  BY SupervisorFacts DEF SupervisorTypeOK
<1>2. /\ proc[p] \in {"run", "exited"} /\ crashed' \in {crashed, crashed \cup {p}}
      /\ proc' = [proc EXCEPT ![p] = "gone"] /\ linked' = linked \ {p}
      /\ inbox' = IF p \in linked THEN Append(inbox, <<p, reason>>) ELSE inbox
      /\ UNCHANGED <<strategy, children, todo, history, clock, granted, failing, outcome>>
  BY DEF ChildEnds
<1>3. /\ proc' \in [Started -> {"none", "run", "exited", "gone"}] /\ proc'[p] = "gone"
      /\ \A q \in Started : q # p => proc'[q] = proc[q]
  BY <1>1, <1>2
<1>4. Indices' = Indices
  BY <1>2 DEF Indices
<1>5. PlanInv'
  <2>1. ASSUME NEW k \in 1..Len(todo)
        PROVE  IsStep(k)'
    <3>1. IsStep(k)
      BY <1>1 DEF PlanInv, StepsAreSound
    <3>2. todo[k] \in Steps
      BY <1>1, StepsTyped DEF SupervisorTypeOK
    <3>3. todo[k][1] = "link" => todo[k][3] \in Started /\ proc'[todo[k][3]] # "none"
      BY <1>3, <3>1, <3>2, StepKinds DEF IsStep
    <3>4. todo[k][1] = "unlink" => proc'[children[todo[k][2]].pid] # "run"
      BY <1>1, <1>3, <3>1 DEF IsStep
    <3> QED BY <1>2, <1>4, <3>1, <3>3, <3>4 DEF IsStep
  <2>2. StepsAreSound'
    BY <1>2, <2>1 DEF StepsAreSound
  <2>3. StopsComeFirst' /\ InScope'
    BY <1>1, <1>2, <1>4 DEF PlanInv, StopsComeFirst, InScope
  <2> QED BY <2>2, <2>3 DEF PlanInv
<1>6. /\ inbox' \in Seq(Started \X {"normal", "crash"}) /\ Len(inbox) \in Nat
      /\ Len(inbox') = IF p \in linked THEN Len(inbox) + 1 ELSE Len(inbox)
      /\ \A k \in 1..Len(inbox) : inbox'[k] = inbox[k] /\ inbox[k][1] \in Started
      /\ p \in linked => inbox'[Len(inbox) + 1] = <<p, reason>>
  <2>1. <<p, reason>> \in Started \X {"normal", "crash"}
    OBVIOUS
  <2>2. Len(inbox) \in Nat /\ \A k \in 1..Len(inbox) : inbox[k][1] \in Started
    BY <1>1, LenProperties, ElementOfSeq
  <2> DEFINE m == <<p, reason>>
  <2> HIDE DEF m
  <2>3. /\ Append(inbox, m) \in Seq(Started \X {"normal", "crash"}) /\ Len(Append(inbox, m)) = Len(inbox) + 1
        /\ \A k \in 1..Len(inbox) : Append(inbox, m)[k] = inbox[k]
        /\ Append(inbox, m)[Len(inbox) + 1] = m
    BY <1>1, <2>1, AppendProperties DEF m
  <2>4. inbox' = IF p \in linked THEN Append(inbox, m) ELSE inbox
    BY <1>2 DEF m
  <2> QED BY <1>1, <2>2, <2>3, <2>4 DEF m
<1>7. SupervisorTypeOK'
  BY <1>1, <1>2, <1>3, <1>6 DEF SupervisorTypeOK
<1>8. PidsAreKnown'
  <2>1. \A j \in Indices : children[j].pid # 0 => proc'[children[j].pid] # "none"
    BY <1>1, <1>3 DEF PidsAreKnown
  <2>2. \A q \in linked' : proc'[q] # "none"
    BY <1>1, <1>2, <1>3 DEF PidsAreKnown
  <2>3. ASSUME NEW k \in 1..Len(inbox')
        PROVE  proc'[inbox'[k][1]] = "gone"
    <3>1. CASE k \in 1..Len(inbox)
      BY <1>1, <1>3, <1>6, <3>1 DEF PidsAreKnown
    <3>2. CASE p \in linked /\ k = Len(inbox) + 1
      BY <1>3, <1>6, <3>2
    <3> QED BY <1>6, <3>1, <3>2
  <2> QED BY <1>1, <1>2, <1>4, <2>1, <2>2, <2>3 DEF PidsAreKnown
<1>9. RunningIsKnown'
  BY <1>1, <1>2, <1>3, <1>4 DEF RunningIsKnown
<1>10. EndsAreTold'
  <2> SUFFICES ASSUME NEW j \in Indices, children[j].pid # 0
               PROVE  children[j].pid \in linked' \/ \E k \in 1..Len(inbox') : inbox'[k][1] = children[j].pid
    BY <1>2, <1>4 DEF EndsAreTold, Told
  <2>1. children[j].pid \in linked \/ \E k \in 1..Len(inbox) : inbox[k][1] = children[j].pid
    BY <1>1 DEF EndsAreTold, Told
  <2>2. CASE children[j].pid = p /\ p \in linked
    <3>1. Len(inbox) + 1 \in 1..Len(inbox') /\ inbox'[Len(inbox) + 1][1] = p
      BY <1>6, <2>2
    <3> QED BY <2>2, <3>1
  <2>3. CASE children[j].pid # p /\ children[j].pid \in linked
    BY <1>2, <2>3
  <2>4. CASE \E k \in 1..Len(inbox) : inbox[k][1] = children[j].pid
    <3>1. PICK k \in 1..Len(inbox) : inbox[k][1] = children[j].pid
      BY <2>4
    <3>2. k \in 1..Len(inbox') /\ inbox'[k] = inbox[k]
      BY <1>6
    <3> QED BY <3>1, <3>2
  <2> QED BY <2>1, <2>2, <2>3, <2>4
<1>11. LimitStopsAll'
  BY <1>1, <1>2, <1>3 DEF LimitStopsAll
<1>12. InWindow' /\ RestartRate'
  BY <1>2, WindowKept DEF SupervisorInv
<1> QED BY <1>5, <1>7, <1>8, <1>9, <1>10, <1>11, <1>12 DEF SupervisorInv, PidsInv

LEMMA TickStep == ASSUME SupervisorInv, Tick PROVE SupervisorInv'
<1>1. /\ SupervisorTypeOK /\ PlanInv /\ PidsAreKnown /\ RunningIsKnown /\ EndsAreTold /\ LimitStopsAll
      /\ clock \in Nat /\ granted \in Seq(Nat)
  BY SupervisorFacts DEF SupervisorTypeOK
<1>2. /\ clock' = clock + 1
      /\ UNCHANGED <<strategy, children, proc, linked, inbox, todo, history, granted, failing, outcome, crashed>>
  BY DEF Tick
<1>3. PlanInv' /\ PidsAreKnown' /\ RunningIsKnown' /\ EndsAreTold' /\ LimitStopsAll'
  BY <1>1, <1>2 DEF PlanInv, StepsAreSound, IsStep, StopsComeFirst, InScope, Indices, PidsAreKnown,
                    RunningIsKnown, EndsAreTold, Told, LimitStopsAll
<1>4. SupervisorTypeOK'
  BY <1>1, <1>2 DEF SupervisorTypeOK
<1>5. InWindow' /\ RestartRate'
  <2>1. Len(granted) \in Nat /\ \A k \in 1..Len(granted) : granted[k] \in Nat
    BY <1>1, LenProperties, ElementOfSeq
  <2>2. InWindow /\ RestartRate /\ Len(history) \in Nat
    BY <1>1, LenProperties DEF SupervisorInv, SupervisorTypeOK
  <2>3. \A k \in 1..(Len(granted) - Len(history)) : k \in 1..Len(granted)
    BY <2>1, <2>2
  <2>4. InWindow'
    BY SMTT(30), <1>1, <1>2, <2>1, <2>2, <2>3, SupervisorAssumption DEF InWindow
  <2> QED BY <1>2, <2>2, <2>4 DEF RestartRate
<1> QED BY <1>3, <1>4, <1>5 DEF SupervisorInv, PidsInv

\* The plans of the operations (apply_strategy, the limit, terminate_child).
LEMMA OneStart ==
  ASSUME NEW i \in Indices', i \in Nat \ {0}, todo' = <<<<"start", i, i>>>>, ~children'[i].running, failing' = i
  PROVE  PlanInv' /\ todo' \in Seq(Steps)
<1>1. /\ todo' \in Seq(Steps) /\ Len(todo') = 1
      /\ todo'[1][1] = "start" /\ todo'[1][2] = i /\ todo'[1][3] = i
  <2>1. <<"start", i, i>> \in Steps
    BY StepKinds
  <2> QED BY <2>1
<1>2. \A k \in 1..Len(todo') : k = 1
  BY <1>1
<1>3. StepsAreSound'
  BY <1>1, <1>2 DEF StepsAreSound, IsStep
<1>4. StopsComeFirst'
  BY <1>1, <1>2 DEF StopsComeFirst, IsFree, IsLimit
<1>5. InScope'
  BY <1>1, <1>2 DEF InScope
<1> QED BY <1>1, <1>3, <1>4, <1>5 DEF PlanInv

LEMMA StopAndRemove ==
  ASSUME NEW i \in Indices', i \in Nat \ {0}, todo' = <<<<"stop", i>>, <<"remove", i>>>>, failing' = i
  PROVE  PlanInv' /\ todo' \in Seq(Steps)
<1>1. /\ todo' \in Seq(Steps) /\ Len(todo') = 2
      /\ todo'[1][1] = "stop" /\ todo'[1][2] = i /\ todo'[2][1] = "remove" /\ todo'[2][2] = i
  <2>1. <<"stop", i>> \in Steps /\ <<"remove", i>> \in Steps
    BY StepKinds
  <2> QED BY <2>1
<1>2. \A k \in 1..Len(todo') : k = 1 \/ k = 2
  BY <1>1
<1>3. StepsAreSound'
  BY <1>1, <1>2 DEF StepsAreSound, IsStep
<1>4. IsFree(children', todo', i, 2 - 1)
  <2>1. Ends(todo'[1], i)
    BY <1>1 DEF Ends
  <2> QED BY <2>1 DEF IsFree
<1>5. StopsComeFirst'
  BY <1>1, <1>2, <1>4 DEF StopsComeFirst, IsLimit
<1>6. InScope'
  BY <1>1, <1>2 DEF InScope
<1> QED BY <1>1, <1>3, <1>5, <1>6 DEF PlanInv

LEMMA StopsThenStarts ==
  ASSUME NEW n \in Nat, NEW f \in 1..n, Indices' = 1..n, todo' = Stops(f, n) \o Starts(f, n),
         strategy' # "one_for_one", strategy' = "rest_for_one" => f = failing'
  PROVE  PlanInv' /\ todo' \in Seq(Steps)
<1> DEFINE m == n + 1 - f a == Stops(f, n) b == Starts(f, n)
<1>1. /\ f \in Nat \ {0} /\ f <= n + 1 /\ m \in Nat
      /\ \A k \in 1..m : /\ n + 1 - k \in 1..n /\ n + 1 - k >= f
                         /\ f + k - 1 \in 1..n /\ f + k - 1 >= f /\ f \in 1..(f + k - 1)
                         /\ m + 1 - k \in 1..m /\ n + 1 - (m + 1 - k) = f + k - 1
  OBVIOUS
<1>2. /\ a \in Seq(Steps) /\ Len(a) = m
      /\ \A k \in 1..m : a[k][1] = "stop" /\ a[k][2] = n + 1 - k
  BY <1>1, StopsProperties
<1>3. /\ b \in Seq(Steps) /\ Len(b) = m
      /\ \A k \in 1..m : b[k][1] = "start" /\ b[k][2] = f + k - 1 /\ b[k][3] = f
  BY <1>1, StartsProperties
<1>4. todo' = a \o b
  OBVIOUS
<1> HIDE DEF a, b, m
<1>5. m \in Nat /\ \A j, k \in 1..m : f + j - 1 = f + k - 1 => j = k
  BY <1>1
<1>6. /\ todo' \in Seq(Steps) /\ Len(todo') = m + m
      /\ \A k \in 1..m : todo'[k][1] = "stop" /\ todo'[k][2] = n + 1 - k
      /\ \A k \in 1..m : /\ todo'[m + k][1] = "start" /\ todo'[m + k][2] = f + k - 1
                         /\ todo'[m + k][3] = f
  <2> DEFINE c == a \o b
  <2>1. /\ a \o b \in Seq(Steps) /\ Len(a \o b) = m + m
        /\ \A k \in 1..m : (a \o b)[k] = a[k]
        /\ \A k \in 1..m : (a \o b)[m + k] = b[k]
    <3>1. a \in Seq(Steps) /\ b \in Seq(Steps) /\ m \in Nat /\ Len(a) = m /\ Len(b) = m
      BY <1>2, <1>3, <1>5
    <3> QED BY <3>1, Concatenated
  <2>2. todo' = c
    BY <1>4
  <2>3. /\ c \in Seq(Steps) /\ Len(c) = m + m
        /\ \A k \in 1..m : c[k] = a[k]
        /\ \A k \in 1..m : c[m + k] = b[k]
    BY <2>1
  <2> HIDE DEF c
  <2>4. todo' \in Seq(Steps) /\ Len(todo') = m + m
    BY <2>2, <2>3
  <2>5. ASSUME NEW k \in 1..m PROVE todo'[k][1] = "stop" /\ todo'[k][2] = n + 1 - k
    <3>1. todo'[k] = a[k]
      BY <2>2, <2>3
    <3>2. a[k][1] = "stop" /\ a[k][2] = n + 1 - k
      BY <1>2
    <3> QED BY <3>1, <3>2
  <2>6. ASSUME NEW k \in 1..m
        PROVE  todo'[m + k][1] = "start" /\ todo'[m + k][2] = f + k - 1 /\ todo'[m + k][3] = f
    <3>1. todo'[m + k] = b[k]
      BY <2>2, <2>3
    <3>2. b[k][1] = "start" /\ b[k][2] = f + k - 1 /\ b[k][3] = f
      BY <1>3
    <3> QED BY <3>1, <3>2
  <2> QED BY <2>4, <2>5, <2>6
<1>7. \A k \in 1..(m + m) : k \in 1..m \/ \E j \in 1..m : k = m + j
  <2>1. \A k \in 1..(m + m) : k \in 1..m \/ (k - m \in 1..m /\ k = m + (k - m))
    BY <1>5
  <2> QED BY <2>1
<1>8. StepsAreSound'
  <2>1. ASSUME NEW k \in 1..m PROVE IsStep(k)'
    <3>1. todo'[k][1] = "stop" /\ todo'[k][2] \in Indices'
      BY <1>1, <1>6
    <3> QED BY <3>1 DEF IsStep
  <2>2. ASSUME NEW j \in 1..m PROVE IsStep(m + j)'
    <3>1. todo'[m + j][1] = "start" /\ todo'[m + j][2] \in Indices' /\ todo'[m + j][3] \in 1..todo'[m + j][2]
      BY <1>1, <1>6
    <3> QED BY <3>1 DEF IsStep
  <2>3. \A k \in 1..(m + m) : IsStep(k)'
    BY <1>7, <2>1, <2>2
  <2> QED BY <1>6, <2>3 DEF StepsAreSound
<1>9. StopsComeFirst'
  <2> DEFINE Good(k) ==
        /\ todo'[k][1] \in {"start", "link", "remove"} => IsFree(children', todo', todo'[k][2], k - 1)
        /\ todo'[k][1] \in {"start", "remove"} =>
              \A j \in 1..(k - 1) : todo'[j][1] \in {"start", "link"} => todo'[j][2] # todo'[k][2]
        /\ todo'[k][1] # "fail"
  <2>1. ASSUME NEW k \in 1..m PROVE Good(k)
    BY <1>6
  <2>2. ASSUME NEW j \in 1..m PROVE Good(m + j)
    <3> DEFINE p == m + 1 - j
    <3>1. p \in 1..m /\ n + 1 - p = f + j - 1
      BY <1>1
    <3>2. p \in 1..((m + j) - 1)
      BY <1>5
    <3> HIDE DEF p
    <3>3. Ends(todo'[p], f + j - 1)
      BY <1>6, <3>1 DEF Ends
    <3>4. IsFree(children', todo', f + j - 1, (m + j) - 1)
      BY <3>2, <3>3 DEF IsFree
    <3>5. ASSUME NEW k \in 1..((m + j) - 1), todo'[k][1] \in {"start", "link"}
          PROVE  todo'[k][2] # f + j - 1
      <4>1. k \in 1..(m + m)
        BY <1>5
      <4>2. k \notin 1..m
        BY <1>6, <3>5
      <4>3. PICK i \in 1..m : k = m + i
        BY <1>7, <4>1, <4>2
      <4>4. i # j
        BY <1>5, <4>3
      <4> QED BY <1>5, <1>6, <4>3, <4>4
    <3>6. todo'[m + j][1] = "start" /\ todo'[m + j][2] = f + j - 1
      BY <1>6
    <3>7. todo'[m + j][1] # "fail"
      BY <3>6
    <3>8. IsFree(children', todo', todo'[m + j][2], (m + j) - 1)
      BY <3>4, <3>6
    <3>9. \A k \in 1..((m + j) - 1) : todo'[k][1] \in {"start", "link"} => todo'[k][2] # todo'[m + j][2]
      BY <3>5, <3>6
    <3> QED BY <3>7, <3>8, <3>9
  <2>3. \A k \in 1..(m + m) : Good(k)
    <3> HIDE DEF Good
    <3> QED BY <1>7, <2>1, <2>2
  <2> QED BY <1>6, <2>3 DEF StopsComeFirst, IsLimit
<1>10. InScope'
  <2> SUFFICES ASSUME strategy' = "rest_for_one", NEW k \in 1..(m + m)
               PROVE  todo'[k][2] >= failing' /\ (todo'[k][1] = "start" => todo'[k][3] >= failing')
    BY <1>6 DEF InScope
  <2>1. CASE k \in 1..m
    BY <1>1, <1>6, <2>1
  <2>2. CASE \E j \in 1..m : k = m + j
    <3>1. PICK j \in 1..m : k = m + j
      BY <2>2
    <3>2. failing' = f /\ f \in Nat /\ f >= f /\ f + j - 1 >= f
      BY <1>1
    <3> QED BY <1>6, <3>1, <3>2
  <2> QED BY <1>7, <2>1, <2>2
<1> QED BY <1>6, <1>8, <1>9, <1>10 DEF PlanInv

LEMMA StopsAll ==
  ASSUME NEW n \in Nat, Indices' = 1..n, todo' = Stops(1, n) \o <<<<"fail", "limit">>>>
  PROVE  PlanInv' /\ todo' \in Seq(Steps)
<1> DEFINE a == Stops(1, n) e == <<<<"fail", "limit">>>>
<1>1. /\ a \in Seq(Steps) /\ Len(a) = n
      /\ \A k \in 1..n : a[k][1] = "stop" /\ a[k][2] = n + 1 - k
  <2>0. 1 \in Nat \ {0} /\ 1 <= n + 1
    OBVIOUS
  <2>1. /\ a \in Seq(Steps) /\ Len(a) = n + 1 - 1
        /\ \A k \in 1..(n + 1 - 1) : a[k][1] = "stop" /\ a[k][2] = n + 1 - k
    BY <2>0, StopsProperties, Zenon
  <2>2. n + 1 - 1 = n
    OBVIOUS
  <2> HIDE DEF a
  <2> QED BY <2>1, <2>2
<1>2. e \in Seq(Steps) /\ Len(e) = 1 /\ e[1] = <<"fail", "limit">>
  <2>1. <<"fail", "limit">> \in Steps
    BY StepKinds
  <2> QED BY <2>1
<1>3. todo' = a \o e
  OBVIOUS
<1> HIDE DEF a, e
<1>4. /\ todo' \in Seq(Steps) /\ Len(todo') = n + 1
      /\ \A k \in 1..n : todo'[k][1] = "stop" /\ todo'[k][2] = n + 1 - k
      /\ todo'[n + 1] = <<"fail", "limit">>
  <2> DEFINE x == <<"fail", "limit">> c == Append(a, x)
  <2>1. a \in Seq(Steps) /\ x \in Steps /\ n \in Nat /\ Len(a) = n
    BY <1>1, StepKinds
  <2>2. todo' = c
    <3> HIDE DEF x
    <3> QED BY <1>3, <2>1, AppendIsConcat DEF e, x
  <2>3. /\ c \in Seq(Steps) /\ Len(c) = n + 1 /\ c[n + 1] = x
        /\ \A k \in 1..n : c[k] = a[k]
    <3> HIDE DEF x
    <3> QED BY <2>1, AppendProperties
  <2> HIDE DEF c
  <2> QED BY <1>1, <2>2, <2>3
<1>5. \A k \in 1..(n + 1) : k \in 1..n \/ (k = n + 1 /\ IsLimit(todo'[k]))
  BY <1>4 DEF IsLimit
<1>6. StepsAreSound'
  <2> SUFFICES ASSUME NEW k \in 1..(n + 1) PROVE IsStep(k)'
    BY <1>4 DEF StepsAreSound
  <2>1. CASE k \in 1..n
    BY <1>4, <2>1 DEF IsStep
  <2>2. CASE k = n + 1
    BY <1>4, <2>2 DEF IsStep
  <2> QED BY <1>5, <2>1, <2>2
<1>7. \A i \in 1..n : IsFree(children', todo', i, (n + 1) - 1)
  <2> SUFFICES ASSUME NEW i \in 1..n PROVE \E k \in 1..((n + 1) - 1) : Ends(todo'[k], i)
    BY DEF IsFree
  <2>1. n + 1 - i \in 1..n /\ n + 1 - (n + 1 - i) = i /\ (n + 1) - 1 = n
    OBVIOUS
  <2> QED BY <1>4, <2>1 DEF Ends
<1>8. StopsComeFirst'
  <2> SUFFICES ASSUME NEW k \in 1..(n + 1)
               PROVE  /\ todo'[k][1] \notin {"start", "link", "remove"}
                      /\ IsLimit(todo'[k]) =>
                            /\ \A i \in Indices' : IsFree(children', todo', i, k - 1)
                            /\ \A j \in 1..(k - 1) : todo'[j][1] \notin {"start", "link"}
    BY <1>4 DEF StopsComeFirst, IsLimit
  <2>1. CASE k \in 1..n
    BY <1>4, <2>1 DEF IsLimit
  <2>2. CASE k = n + 1
    <3>1. (n + 1) - 1 = n
      OBVIOUS
    <3> QED BY <1>4, <1>7, <2>2, <3>1 DEF IsLimit
  <2> QED BY <1>5, <2>1, <2>2
<1>9. InScope'
  BY <1>4, <1>5 DEF InScope, IsLimit
<1> QED BY <1>4, <1>6, <1>8, <1>9 DEF PlanInv

LEMMA TerminateStep ==
  ASSUME SupervisorInv, NEW i \in Indices, TerminateChild(i)
  PROVE  SupervisorInv'
<1>1. /\ SupervisorTypeOK /\ PidsAreKnown /\ RunningIsKnown /\ EndsAreTold /\ LimitStopsAll
      /\ i \in Nat \ {0} /\ outcome = "ok" /\ todo = <<>>
  BY SupervisorFacts DEF TerminateChild
<1>2. /\ failing' = i /\ todo' = <<<<"stop", i>>, <<"remove", i>>>>
      /\ UNCHANGED <<strategy, children, proc, linked, inbox, history, clock, granted, outcome, crashed>>
  BY DEF TerminateChild
<1>3. Indices' = Indices
  BY <1>2 DEF Indices
<1>4. PlanInv' /\ todo' \in Seq(Steps)
  BY <1>1, <1>2, <1>3, StopAndRemove
<1>5. SupervisorTypeOK'
  BY <1>1, <1>2, <1>4 DEF SupervisorTypeOK
<1>6. PidsAreKnown' /\ EndsAreTold' /\ LimitStopsAll'
  BY <1>1, <1>2, <1>3 DEF PidsAreKnown, EndsAreTold, Told, LimitStopsAll
<1>7. RunningIsKnown'
  BY <1>1, <1>2, <1>3 DEF RunningIsKnown
<1>8. InWindow' /\ RestartRate'
  BY <1>2, WindowKept DEF SupervisorInv
<1> QED BY <1>4, <1>5, <1>6, <1>7, <1>8 DEF SupervisorInv, PidsInv

\* A restart is granted when fewer than max_restarts are left in the window,
\* so that the one max_restarts before it is not.
LEMMA WindowStep ==
  ASSUME SupervisorInv, clock' = clock,
         \/ history' = Recent /\ granted' = granted
         \/ /\ Len(Recent) < MaxRestarts
            /\ history' = Append(Recent, clock) /\ granted' = Append(granted, clock)
  PROVE  /\ InWindow' /\ RestartRate' /\ history' \in Seq(Nat) /\ granted' \in Seq(Nat)
         /\ Len(history') <= MaxRestarts
<1> DEFINE h == Len(history) g == Len(granted)
<1>1. /\ history \in Seq(Nat) /\ granted \in Seq(Nat) /\ clock \in Nat /\ h <= MaxRestarts
      /\ h \in Nat /\ g \in Nat
      /\ \A k \in 1..h : history[k] \in Nat
      /\ \A k \in 1..g : granted[k] \in Nat
  BY LenProperties, ElementOfSeq DEF SupervisorInv, SupervisorTypeOK
<1>2. PICK first \in 1..h + 1 :
         /\ Recent = SubSeq(history, first, h)
         /\ \A k \in 1..(first - 1) : clock - history[k] > Window
  BY <1>1, RecentIsTheEnd
<1> DEFINE n == g - h r == h + 1 - first m == n + first - 1
<1>3. /\ n \in Nat /\ \A k \in 1..g : granted[k] <= clock
      /\ \A k \in 1..h : history[k] = granted[n + k]
      /\ \A k \in 1..n : clock - granted[k] > Window
  BY DEF SupervisorInv, InWindow
<1>4. /\ Recent \in Seq(Nat) /\ Len(Recent) = r /\ r \in 0..h
      /\ \A k \in 1..r : Recent[k] = history[first + k - 1]
  <2>1. \A k \in first..h : history[k] \in Nat
    BY <1>1
  <2>2. /\ SubSeq(history, first, h) \in Seq(Nat)
        /\ Len(SubSeq(history, first, h)) = IF first <= h THEN h - first + 1 ELSE 0
        /\ \A k \in 1..(h - first + 1) : SubSeq(history, first, h)[k] = history[first + k - 1]
    BY <1>1, <2>1, SubSeqProperties
  <2> QED BY <1>1, <1>2, <2>2
<1>5. /\ m \in Nat /\ m + r = g /\ \A k \in 1..m : clock - granted[k] > Window
      /\ \A k \in 1..r : Recent[k] = granted[m + k]
  <2>1. m \in Nat /\ m + r = g
    BY <1>1, <1>3
  <2>2. ASSUME NEW k \in 1..m
        PROVE  clock - granted[k] > Window
    <3>1. CASE k \in 1..n
      BY <1>3, <3>1
    <3>2. CASE k \notin 1..n
      <4>1. k - n \in 1..(first - 1) /\ k - n \in 1..h /\ n + (k - n) = k
        BY <1>1, <1>3, <3>2
      <4>2. history[k - n] = granted[k]
        BY <1>3, <4>1
      <4> QED BY <1>2, <4>1, <4>2
    <3> QED BY <3>1, <3>2
  <2>3. ASSUME NEW k \in 1..r
        PROVE  Recent[k] = granted[m + k]
    <3>1. first + k - 1 \in 1..h /\ n + (first + k - 1) = m + k
      BY <1>1, <1>3
    <3> QED BY <1>3, <1>4, <3>1
  <2> QED BY <2>1, <2>2, <2>3
<1>6. RestartRate
  BY DEF SupervisorInv
<1> HIDE DEF h, g, n, r, m
<1>7. MaxRestarts \in Nat /\ Window \in Nat
  BY SupervisorAssumption
<1>8. CASE history' = Recent /\ granted' = granted
  <2>1. Len(granted') - Len(history') = m
    <3>1. Len(granted') = g /\ Len(history') = r /\ m \in Nat /\ r \in Nat /\ m + r = g
      BY <1>1, <1>4, <1>5, <1>8 DEF g
    <3> QED BY <3>1
  <2>2. InWindow'
    <3>1. /\ Len(granted') - Len(history') \in Nat
          /\ \A k \in 1..Len(granted') : granted'[k] <= clock'
          /\ \A k \in 1..Len(history') : history'[k] = granted'[(Len(granted') - Len(history')) + k]
          /\ \A k \in 1..(Len(granted') - Len(history')) : clock' - granted'[k] > Window
      BY <1>1, <1>3, <1>4, <1>5, <1>8, <2>1 DEF g
    <3> QED BY <3>1 DEF InWindow
  <2>3. RestartRate'
    BY <1>6, <1>8 DEF RestartRate
  <2> QED BY <1>1, <1>4, <1>7, <1>8, <2>2, <2>3
<1>9. CASE /\ Len(Recent) < MaxRestarts
           /\ history' = Append(Recent, clock) /\ granted' = Append(granted, clock)
  <2>1. /\ granted' \in Seq(Nat) /\ Len(granted') = g + 1 /\ granted'[g + 1] = clock
        /\ \A k \in 1..g : granted'[k] = granted[k]
    BY <1>1, <1>9, AppendProperties DEF g
  <2>2. /\ history' \in Seq(Nat) /\ Len(history') = r + 1 /\ history'[r + 1] = clock
        /\ \A k \in 1..r : history'[k] = Recent[k]
    BY <1>1, <1>4, <1>9, AppendProperties
  <2>3. (g + 1) - (r + 1) = m
    BY <1>1, <1>4, <1>5
  <2>4. InWindow'
    <3>1. \A k \in 1..(g + 1) : granted'[k] <= clock
      <4>1. \A k \in 1..(g + 1) : k \in 1..g \/ k = g + 1
        BY <1>1
      <4> QED BY <1>1, <1>3, <2>1, <4>1
    <3>2. \A k \in 1..(r + 1) : history'[k] = granted'[m + k]
      <4>1. \A k \in 1..(r + 1) : (k \in 1..r /\ m + k \in 1..g) \/ (k = r + 1 /\ m + k = g + 1)
        BY <1>1, <1>4, <1>5
      <4> QED BY <1>5, <2>1, <2>2, <4>1
    <3>3. \A k \in 1..m : clock - granted'[k] > Window
      <4>1. \A k \in 1..m : k \in 1..g
        BY <1>1, <1>4, <1>5
      <4> QED BY <1>5, <2>1, <4>1
    <3> QED BY <1>5, <2>1, <2>2, <2>3, <3>1, <3>2, <3>3 DEF InWindow
  <2>5. RestartRate'
    <3> SUFFICES ASSUME NEW k \in 1..(g + 1), k > MaxRestarts
                 PROVE  granted'[k] - granted'[k - MaxRestarts] > Window
      BY <2>1 DEF RestartRate
    <3>1. CASE k \in 1..g
      <4>1. k - MaxRestarts \in 1..g
        BY <1>1, <1>7, <3>1
      <4> QED BY <1>6, <2>1, <3>1, <4>1 DEF RestartRate, g
    <3>2. CASE k = g + 1
      <4>1. k - MaxRestarts \in 1..m /\ k - MaxRestarts \in 1..g
        BY <1>1, <1>4, <1>5, <1>7, <1>9, <3>2
      <4> QED BY <1>5, <2>1, <3>2, <4>1
    <3> QED BY <1>1, <3>1, <3>2
  <2> QED BY <1>4, <1>7, <1>9, <2>1, <2>2, <2>4, <2>5
<1> QED BY <1>8, <1>9
\* The first message of the mailbox is taken out of it.
LEMMA MailTaken ==
  ASSUME SupervisorInv, inbox # <<>>, inbox' = Tail(inbox), proc' = proc
  PROVE  /\ inbox' \in Seq(Started \X {"normal", "crash"})
         /\ inbox[1][1] \in Started /\ proc[inbox[1][1]] = "gone"
         /\ \A k \in 1..Len(inbox') : proc'[inbox'[k][1]] = "gone"
         /\ \A p : Told(p) /\ p # inbox[1][1] => \E k \in 1..Len(inbox') : inbox'[k][1] = p
<1>1. inbox \in Seq(Started \X {"normal", "crash"}) /\ PidsAreKnown
  BY SupervisorFacts DEF SupervisorTypeOK
<1>2. /\ Tail(inbox) \in Seq(Started \X {"normal", "crash"}) /\ Len(Tail(inbox)) = Len(inbox) - 1
      /\ \A k \in 1..Len(Tail(inbox)) : Tail(inbox)[k] = inbox[k + 1]
      /\ Len(inbox) \in Nat \ {0}
  BY <1>1, HeadTailProperties, EmptySeq
<1>3. /\ inbox' \in Seq(Started \X {"normal", "crash"}) /\ Len(inbox') = Len(inbox) - 1
      /\ \A k \in 1..Len(inbox') : inbox'[k] = inbox[k + 1]
  BY <1>2
<1>4. 1 \in 1..Len(inbox) /\ inbox[1] \in Started \X {"normal", "crash"}
  BY <1>1, <1>2, ElementOfSeq
<1>5. \A k \in 1..Len(inbox') : k + 1 \in 1..Len(inbox)
  BY <1>2, <1>3
<1>6. \A k \in 1..Len(inbox') : proc'[inbox'[k][1]] = "gone"
  BY <1>1, <1>3, <1>5 DEF PidsAreKnown
<1>7. ASSUME NEW p, Told(p), p # inbox[1][1]
      PROVE  \E k \in 1..Len(inbox') : inbox'[k][1] = p
  <2>1. PICK k \in 1..Len(inbox) : inbox[k][1] = p
    BY <1>7 DEF Told
  <2>2. k - 1 \in 1..Len(inbox') /\ (k - 1) + 1 = k
    BY <1>2, <1>3, <1>7, <2>1
  <2> QED BY <1>3, <2>1, <2>2
<1>8. inbox[1][1] \in Started /\ proc[inbox[1][1]] = "gone"
  BY <1>1, <1>4 DEF PidsAreKnown
<1> QED BY <1>3, <1>6, <1>7, <1>8

\* The child that ended is taken out of the list, or has no process any more.
LEMMA ChildForgotten ==
  ASSUME SupervisorInv, todo = <<>>, outcome = "ok", inbox # <<>>, inbox' = Tail(inbox),
         UNCHANGED <<proc, linked, outcome>>, NEW i \in Indices, children[i].pid = inbox[1][1],
         \/ children' = RemoveAt(children, i)
         \/ children' = [children EXCEPT ![i].pid = 0, ![i].running = FALSE]
  PROVE  /\ children' \in Seq(ChildStates) /\ PidsInv'
         /\ children' # RemoveAt(children, i) => Indices' = Indices /\ ~children'[i].running
<1> DEFINE pid == inbox[1][1]
<1>1. /\ SupervisorTypeOK /\ PidsAreKnown /\ RunningIsKnown /\ EndsAreTold /\ 0 \notin Started
      /\ children \in Seq(ChildStates) /\ linked \subseteq Started
      /\ \A j \in Indices : children[j].pid \in {0} \cup Started
  BY SupervisorFacts
<1>2. /\ inbox' \in Seq(Started \X {"normal", "crash"})
      /\ pid \in Started /\ proc[pid] = "gone"
      /\ \A k \in 1..Len(inbox') : proc'[inbox'[k][1]] = "gone"
      /\ \A p : Told(p) /\ p # pid => \E k \in 1..Len(inbox') : inbox'[k][1] = p
  BY MailTaken
<1>3. children[i].pid = pid /\ pid # 0
  BY <1>1, <1>2
<1> HIDE DEF pid
<1>4. \A p \in linked' : proc'[p] # "none"
  BY <1>1 DEF PidsAreKnown
<1>5. \A p \in Started : proc[p] = "run" =>
         \E k \in Indices \ {i} : children[k].pid = p /\ children[k].running
  BY <1>1, <1>2, <1>3 DEF RunningIsKnown
<1>6. LimitStopsAll'
  BY DEF LimitStopsAll
<1>7. CASE children' = RemoveAt(children, i)
  <2>1. children' \in Seq(ChildStates)
    BY <1>7, WithoutOne
  <2>2. /\ \A j \in Indices' : /\ children'[j].running => children'[j].pid # 0
                               /\ children'[j].pid # 0 => proc'[children'[j].pid] # "none"
        /\ \A j, k \in Indices' : children'[j].pid = children'[k].pid /\ children'[j].pid # 0 => j = k
        /\ \A p \in Started : proc'[p] = "run" => \E j \in Indices' : children'[j].pid = p /\ children'[j].running
        /\ \A j \in Indices' : children'[j].pid # 0 =>
              /\ children'[j].pid \in linked' \/ Told(children'[j].pid)
              /\ children[i].pid # 0 => children'[j].pid # children[i].pid
    BY <1>5, <1>7, PidsWithoutOne
  <2>3. PidsAreKnown'
    BY <1>2, <1>4, <2>2 DEF PidsAreKnown
  <2>4. RunningIsKnown'
    BY <2>2 DEF RunningIsKnown
  <2>5. \A j \in Indices' : children'[j].pid # 0 =>
           children'[j].pid \in linked' \/ \E k \in 1..Len(inbox') : inbox'[k][1] = children'[j].pid
    BY <1>2, <1>3, <2>2
  <2>6. EndsAreTold'
    BY <2>5 DEF EndsAreTold, Told
  <2> QED BY <1>6, <1>7, <2>1, <2>3, <2>4, <2>6 DEF PidsInv
<1>8. CASE children' = [children EXCEPT ![i].pid = 0, ![i].running = FALSE]
  <2>1. /\ children' \in Seq(ChildStates) /\ Indices' = Indices
        /\ children'[i].pid = 0 /\ ~children'[i].running
        /\ \A j \in Indices : j # i => children'[j] = children[j]
    <3>1. /\ children' \in Seq(ChildStates) /\ Indices' = Indices
          /\ children'[i].pid = 0 /\ children'[i].running = FALSE
          /\ \A j \in Indices : j # i => children'[j] = children[j]
      BY <1>1, <1>8, ChildSet
    <3> QED BY <3>1
  <2>2. PidsAreKnown'
    <3>1. \A j \in Indices' : /\ children'[j].running => children'[j].pid # 0
                              /\ children'[j].pid # 0 => proc'[children'[j].pid] # "none"
      BY <1>1, <2>1 DEF PidsAreKnown
    <3>2. \A j, k \in Indices' : children'[j].pid = children'[k].pid /\ children'[j].pid # 0 => j = k
      BY <1>1, <2>1 DEF PidsAreKnown
    <3> QED BY <1>2, <1>4, <3>1, <3>2 DEF PidsAreKnown
  <2>3. RunningIsKnown'
    BY <1>5, <2>1 DEF RunningIsKnown
  <2>4. ASSUME NEW j \in Indices', children'[j].pid # 0
        PROVE  children'[j].pid \in linked' \/ \E k \in 1..Len(inbox') : inbox'[k][1] = children'[j].pid
    <3>1. j \in Indices /\ j # i /\ children'[j] = children[j]
      BY <2>1, <2>4
    <3>2. children[j].pid # pid
      BY <1>1, <1>3, <2>4, <3>1 DEF PidsAreKnown
    <3>3. children[j].pid \in linked \/ Told(children[j].pid)
      BY <1>1, <2>4, <3>1 DEF EndsAreTold
    <3> QED BY <1>2, <3>1, <3>2, <3>3
  <2>5. EndsAreTold'
    BY <2>4 DEF EndsAreTold, Told
  <2> QED BY <1>6, <2>1, <2>2, <2>3, <2>5 DEF PidsInv
<1> QED BY <1>7, <1>8

LEMMA HandleStep == ASSUME SupervisorInv, HandleChildExit PROVE SupervisorInv'
<1> DEFINE pid == inbox[1][1]
           i == CHOOSE j \in Indices : children[j].pid = pid
           type == children[i].spec.type
<1>1. /\ SupervisorTypeOK /\ PidsAreKnown /\ RunningIsKnown /\ EndsAreTold
      /\ children \in Seq(ChildStates) /\ Indices = 1..Len(children) /\ Len(children) \in Nat
      /\ strategy \in Strategies
  BY SupervisorFacts DEF SupervisorTypeOK
<1>2. /\ todo = <<>> /\ outcome = "ok" /\ inbox # <<>> /\ inbox' = Tail(inbox)
      /\ UNCHANGED <<strategy, proc, linked, clock, outcome, crashed>>
  BY DEF HandleChildExit
<1>3. inbox' \in Seq(Started \X {"normal", "crash"})
  BY <1>2, MailTaken
<1>4. CASE \A j \in Indices : children[j].pid # pid
  <2>1. UNCHANGED <<children, todo, history, granted, failing>>
    BY <1>4 DEF HandleChildExit
  <2>2. PlanInv' /\ todo' \in Seq(Steps)
    BY <1>2, <2>1, NoPlan
  <2>3. Indices' = Indices
    BY <2>1 DEF Indices
  <2>4. SupervisorTypeOK'
    BY <1>1, <1>2, <1>3, <2>1, <2>2 DEF SupervisorTypeOK
  <2>5. PidsAreKnown'
    <3>1. \A k \in 1..Len(inbox') : proc'[inbox'[k][1]] = "gone"
      BY <1>2, MailTaken
    <3> QED BY <1>1, <1>2, <2>1, <2>3, <3>1 DEF PidsAreKnown
  <2>6. RunningIsKnown' /\ LimitStopsAll'
    BY <1>1, <1>2, <2>1, <2>3 DEF RunningIsKnown, LimitStopsAll
  <2>7. EndsAreTold'
    <3>1. \A p : Told(p) /\ p # pid => \E k \in 1..Len(inbox') : inbox'[k][1] = p
      BY <1>2, MailTaken
    <3>2. \A j \in Indices : children[j].pid # 0 => children[j].pid \in linked \/ Told(children[j].pid)
      BY <1>1 DEF EndsAreTold
    <3>3. \A j \in Indices' : children'[j].pid # 0 =>
             children'[j].pid \in linked' \/ \E k \in 1..Len(inbox') : inbox'[k][1] = children'[j].pid
      BY <1>2, <1>4, <2>1, <2>3, <3>1, <3>2
    <3> QED BY <3>3 DEF EndsAreTold, Told
  <2>8. InWindow' /\ RestartRate'
    BY <1>2, <2>1, WindowKept DEF SupervisorInv
  <2> QED BY <2>2, <2>4, <2>5, <2>6, <2>7, <2>8 DEF SupervisorInv, PidsInv
<1>5. CASE \E j \in Indices : children[j].pid = pid
  <2>1. i \in Indices /\ children[i].pid = pid
    BY <1>5
  <2>2. /\ failing' = i
        /\ children' = IF type = "temporary" THEN RemoveAt(children, i)
                       ELSE [children EXCEPT ![i].pid = 0, ![i].running = FALSE]
        /\ IF ~ShouldRestart(type, inbox[1][2])
           THEN UNCHANGED <<todo, history, granted>>
           ELSE IF Len(Recent) >= MaxRestarts
           THEN todo' = OnLimit(i) /\ history' = Recent /\ UNCHANGED granted
           ELSE todo' = apply_strategy(i) /\ history' = Append(Recent, clock) /\ granted' = Append(granted, clock)
    BY <1>5 DEF HandleChildExit
  <2> HIDE DEF i, type, pid
  <2>3. /\ children' \in Seq(ChildStates) /\ PidsInv'
        /\ children' # RemoveAt(children, i) => Indices' = Indices /\ ~children'[i].running
    <3>1. children' = RemoveAt(children, i) \/ children' = [children EXCEPT ![i].pid = 0, ![i].running = FALSE]
      BY <2>2
    <3> QED BY <1>2, <2>1, <3>1, ChildForgotten DEF pid
  <2>4. i \in Nat \ {0} /\ i \in 1..Len(children)
    BY <1>1, <2>1
  <2>5. CASE ~ShouldRestart(type, inbox[1][2])
    <3>1. UNCHANGED <<todo, history, granted>>
      BY <2>2, <2>5
    <3>2. PlanInv' /\ todo' \in Seq(Steps)
      BY <1>2, <3>1, NoPlan
    <3>3. InWindow' /\ RestartRate'
      BY <1>2, <3>1, WindowKept DEF SupervisorInv
    <3>4. SupervisorTypeOK'
      BY <1>1, <1>2, <1>3, <2>2, <2>3, <2>4, <3>1, <3>2 DEF SupervisorTypeOK
    <3> QED BY <2>3, <3>2, <3>3, <3>4 DEF SupervisorInv
  <2>6. CASE ShouldRestart(type, inbox[1][2])
    <3>1. type # "temporary"
      BY <2>6 DEF ShouldRestart
    <3>2. /\ children' = [children EXCEPT ![i].pid = 0, ![i].running = FALSE]
          /\ Indices' = Indices /\ ~children'[i].running
      <4>1. children' = [children EXCEPT ![i].pid = 0, ![i].running = FALSE]
        BY <2>2, <3>1
      <4>2. /\ Indices' = Indices /\ children'[i].running = FALSE
        BY <1>1, <2>1, <4>1, ChildSet
      <4> QED BY <4>1, <4>2
    <3>3. /\ InWindow' /\ RestartRate' /\ history' \in Seq(Nat) /\ granted' \in Seq(Nat)
          /\ Len(history') <= MaxRestarts
      <4>1. \/ history' = Recent /\ granted' = granted
            \/ /\ Len(Recent) < MaxRestarts
               /\ history' = Append(Recent, clock) /\ granted' = Append(granted, clock)
        <5>1. CASE Len(Recent) >= MaxRestarts
          BY <2>2, <2>6, <5>1
        <5>2. CASE ~(Len(Recent) >= MaxRestarts)
          <6>1. history' = Append(Recent, clock) /\ granted' = Append(granted, clock)
            BY <2>2, <2>6, <5>2
          <6>2. Len(Recent) \in Nat /\ MaxRestarts \in Nat
            <7>1. history \in Seq(Nat) /\ clock \in Nat
              BY <1>1 DEF SupervisorTypeOK
            <7>2. \E first \in 1..Len(history) + 1 : Recent = SubSeq(history, first, Len(history))
              BY <7>1, RecentIsTheEnd
            <7>3. Recent \in Seq(Nat)
              BY <7>1, <7>2, SubSeqProperties, LenProperties, ElementOfSeq
            <7> QED BY <7>3, LenProperties, SupervisorAssumption
          <6>3. Len(Recent) < MaxRestarts
            BY <5>2, <6>2
          <6> QED BY <6>1, <6>3
        <5> QED BY <5>1, <5>2
      <4> QED BY <1>2, <4>1, WindowStep
    <3>4. PlanInv' /\ todo' \in Seq(Steps)
      <4> DEFINE n == Len(children)
      <4>1. n \in Nat /\ Indices' = 1..n /\ i \in 1..n /\ strategy' = strategy /\ failing' = i
        BY <1>1, <1>2, <2>2, <2>4, <3>2
      <4>2. CASE Len(Recent) >= MaxRestarts
        <5>1. todo' = Stops(1, n) \o <<<<"fail", "limit">>>>
          BY <2>2, <2>6, <4>2 DEF OnLimit
        <5> HIDE DEF n
        <5> QED BY <4>1, <5>1, StopsAll
      <4>3. CASE ~(Len(Recent) >= MaxRestarts)
        <5>1. todo' = apply_strategy(i)
          BY <2>2, <2>6, <4>3
        <5>2. CASE strategy = "one_for_one"
          <6>1. todo' = <<<<"start", i, i>>>>
            BY <5>1, <5>2 DEF apply_strategy
          <6> QED BY <2>1, <2>4, <3>2, <4>1, <6>1, OneStart
        <5>3. CASE strategy = "one_for_all"
          <6> DEFINE f == 1
          <6>1. todo' = Stops(f, n) \o Starts(f, n)
            BY <5>1, <5>3 DEF apply_strategy
          <6>2. f \in 1..n /\ strategy' # "one_for_one" /\ strategy' # "rest_for_one"
            BY <4>1, <5>3
          <6> HIDE DEF n, f
          <6> QED BY <4>1, <6>1, <6>2, StopsThenStarts
        <5>4. CASE strategy = "rest_for_one"
          <6>1. todo' = Stops(i, n) \o Starts(i, n)
            BY <5>1, <5>4 DEF apply_strategy
          <6>2. strategy' # "one_for_one" /\ i = failing'
            BY <4>1, <5>4
          <6> HIDE DEF n
          <6> QED BY <4>1, <6>1, <6>2, StopsThenStarts
        <5> QED BY <1>1, <5>2, <5>3, <5>4, SupervisorAssumption
      <4> QED BY <4>2, <4>3
    <3>5. SupervisorTypeOK'
      BY <1>1, <1>2, <1>3, <2>2, <2>3, <2>4, <3>3, <3>4 DEF SupervisorTypeOK
    <3> QED BY <2>3, <3>3, <3>4, <3>5 DEF SupervisorInv
  <2> QED BY <2>5, <2>6
<1> QED BY <1>4, <1>5
LEMMA SupervisorInitInv == SupervisorInit => SupervisorInv
<1> SUFFICES ASSUME SupervisorInit PROVE SupervisorInv
  OBVIOUS
<1>1. PICK specs \in Families :
         children = [i \in 1..Len(specs) |-> [spec |-> specs[i], pid |-> 0, running |-> FALSE]]
  BY DEF SupervisorInit
<1> DEFINE n == Len(specs)
<1>2. specs \in Seq(ChildSpecs) /\ n \in Nat /\ \A i \in 1..n : specs[i] \in ChildSpecs
  BY <1>1, SupervisorAssumption, LenProperties, ElementOfSeq
<1>3. children \in [1..n -> ChildStates]
  BY <1>1, <1>2 DEF ChildStates
<1>4. /\ children \in Seq(ChildStates) /\ Len(children) = n /\ Indices = 1..n
      /\ \A i \in 1..n : children[i].pid = 0 /\ children[i].running = FALSE
  <2>1. \A i \in 1..n : children[i].pid = 0 /\ children[i].running = FALSE
    BY <1>1
  <2>2. children \in Seq(ChildStates) /\ Len(children) = n
    <3> HIDE DEF n
    <3> QED BY <1>2, <1>3, SeqOfLength
  <2> QED BY <2>1, <2>2 DEF Indices
<1> HIDE DEF n
<1>5. /\ strategy \in Strategies /\ proc = [p \in Started |-> "none"]
      /\ linked = {} /\ inbox = <<>> /\ history = <<>> /\ granted = <<>>
      /\ todo = Starts(1, n)
      /\ clock = 0 /\ failing = 0 /\ outcome = "ok" /\ crashed = {}
  BY <1>4 DEF SupervisorInit
<1>6. /\ todo \in Seq(Steps) /\ Len(todo) = n
      /\ \A k \in 1..n : todo[k][1] = "start" /\ todo[k][2] = k /\ todo[k][3] = 1
  <2> DEFINE f == 1 t == Starts(f, n)
  <2>1. f \in Nat \ {0} /\ f <= n + 1 /\ n + 1 - f = n /\ \A k \in 1..n : f + k - 1 = k
    BY <1>2
  <2> HIDE DEF f
  <2>2. /\ t \in Seq(Steps) /\ Len(t) = n + 1 - f
        /\ \A k \in 1..(n + 1 - f) : t[k][1] = "start" /\ t[k][2] = f + k - 1 /\ t[k][3] = f
    BY <1>2, <2>1, StartsProperties
  <2>3. todo = t
    BY <1>5 DEF f
  <2> HIDE DEF t
  <2> QED BY <2>1, <2>2, <2>3 DEF f
<1>7. /\ Len(inbox) = 0 /\ Len(history) = 0 /\ Len(granted) = 0
      /\ inbox \in Seq(Started \X {"normal", "crash"}) /\ history \in Seq(Nat) /\ granted \in Seq(Nat)
  BY <1>5, EmptySeq
<1>8. SupervisorTypeOK
  BY <1>4, <1>5, <1>6, <1>7, SupervisorAssumption DEF SupervisorTypeOK
<1>9. PlanInv
  <2>1. StepsAreSound
    <3>1. ASSUME NEW k \in 1..n PROVE IsStep(k)
      <4>1. 1 \in 1..k
        BY <1>2
      <4> QED BY <1>4, <1>6, <4>1 DEF IsStep
    <3> QED BY <1>6, <3>1 DEF StepsAreSound
  <2>2. StopsComeFirst
    <3>1. \A k \in 1..n : \A j \in 1..(k - 1) : j \in 1..n /\ j # k
      BY <1>2
    <3> QED BY <1>4, <1>6, <3>1 DEF StopsComeFirst, IsFree, IsLimit
  <2>3. InScope
    BY <1>5 DEF InScope
  <2> QED BY <2>1, <2>2, <2>3 DEF PlanInv
<1>10. PidsInv
  BY <1>4, <1>5, <1>7 DEF PidsInv, PidsAreKnown, RunningIsKnown, EndsAreTold, LimitStopsAll, Told
<1>11. InWindow /\ RestartRate
  BY <1>5, <1>7 DEF InWindow, RestartRate
<1> QED BY <1>8, <1>9, <1>10, <1>11 DEF SupervisorInv

LEMMA SupervisorInvSafe == SupervisorInv => ChildrenAreKept
<1> SUFFICES ASSUME SupervisorInv PROVE ChildrenAreKept
  OBVIOUS
<1>1. SupervisorTypeOK /\ LimitStopsAll /\ RestartRate /\ RunningIsKnown /\ EndsAreTold
  BY SupervisorFacts DEF SupervisorInv
<1>2. NoOrphan
  BY <1>1 DEF NoOrphan, RunningIsKnown
<1>3. DeathIsHeard
  BY <1>1 DEF DeathIsHeard, EndsAreTold, Told
<1> QED BY <1>1, <1>2, <1>3 DEF ChildrenAreKept

LEMMA SupervisorStep == SupervisorInv /\ [SupervisorNext]_supervisorVars => SupervisorInv'
<1> SUFFICES ASSUME SupervisorInv, [SupervisorNext]_supervisorVars PROVE SupervisorInv'
  OBVIOUS
<1>1. CASE SupervisorNext
  BY <1>1, SpawnStep, LinkStep, StartFailsStep, StopStep, WaitStep, UnlinkStep, RemoveStep, FailStep,
     HandleStep, TickStep, TerminateStep, ChildEndsStep DEF SupervisorNext
<1>2. CASE UNCHANGED supervisorVars
  <2>1. SupervisorTypeOK' /\ InWindow' /\ RestartRate'
    BY <1>2 DEF supervisorVars, SupervisorInv, SupervisorTypeOK, InWindow, RestartRate
  <2>2. PlanInv'
    BY <1>2 DEF supervisorVars, SupervisorInv, PlanInv, StepsAreSound, IsStep, StopsComeFirst, IsFree,
                Ends, IsLimit, InScope, Indices
  <2>3. PidsInv'
    BY <1>2 DEF supervisorVars, SupervisorInv, PidsInv, PidsAreKnown, RunningIsKnown, EndsAreTold, Told,
                LimitStopsAll, Indices
  <2> QED BY <2>1, <2>2, <2>3 DEF SupervisorInv
<1> QED BY <1>1, <1>2

\* handle_child_exit, terminate_children_range, start_children: whatever ends
\* while a supervisor stops and starts children, between operations what runs
\* is a child it knows, a child that ended has told it, restarts stay within
\* max_restarts in max_seconds, and beyond them nothing is left running.
THEOREM ChildrenKept == SupervisorSpec => []ChildrenAreKept
<1>1. SupervisorInit => SupervisorInv
  BY SupervisorInitInv
<1>2. SupervisorInv /\ [SupervisorNext]_supervisorVars => SupervisorInv'
  BY SupervisorStep
<1>3. SupervisorInv => ChildrenAreKept
  BY SupervisorInvSafe
<1> QED BY <1>1, <1>2, <1>3, PTL DEF SupervisorSpec
\* The step in hand is about a child its strategy names.
LEMMA HeadInScope ==
  ASSUME SupervisorInv, failing # 0, todo # <<>>, todo[1][1] # "fail", Last(todo) # <<"fail", "limit">>
  PROVE  /\ strategy = "one_for_one" => todo[1][2] = failing
         /\ strategy = "rest_for_one" => todo[1][2] >= failing
<1>1. /\ Len(todo) \in Nat \ {0} /\ todo \in Seq(Steps) /\ InScope
      /\ \A k \in 1..Len(todo) : todo[k] \in Steps
  BY SupervisorFacts, StepsTyped DEF PlanInv
<1>2. 1 \in 1..Len(todo) /\ Len(todo) \in 1..Len(todo)
  BY <1>1
<1>3. ~IsLimit(todo[Len(todo)])
  BY <1>1, <1>2, StepKinds DEF Last
<1> QED BY <1>1, <1>2, <1>3 DEF InScope

LEMMA OneChildInScope ==
  ASSUME SupervisorInv, NEW i \in Indices,
         \A j \in Indices : j # i => children'[j] = children[j],
         strategy = "one_for_one" => i = failing, strategy = "rest_for_one" => i >= failing
  PROVE  \A j \in Indices : /\ strategy = "one_for_one" /\ j # failing => children'[j] = children[j]
                            /\ strategy = "rest_for_one" /\ j < failing => children'[j] = children[j]
<1>1. Indices \subseteq Nat /\ failing \in Nat
  BY SupervisorFacts DEF SupervisorTypeOK
<1> QED BY <1>1

LEMMA ScopeStep == SupervisorInv /\ [SupervisorNext]_supervisorVars => [StaysInScope]_supervisorVars
<1> SUFFICES ASSUME SupervisorInv, SupervisorNext,
                    failing # 0, failing' = failing, Len(children') = Len(children),
                    todo = <<>> \/ Last(todo) # <<"fail", "limit">>
             PROVE  \A j \in Indices :
                       /\ strategy = "one_for_one" /\ j # failing => children'[j] = children[j]
                       /\ strategy = "rest_for_one" /\ j < failing => children'[j] = children[j]
  BY DEF StaysInScope
<1> DEFINE i == todo[1][2]
<1>1. /\ children \in Seq(ChildStates) /\ 0 \notin Started /\ Len(children) \in Nat
      /\ \A j \in Indices : children[j].running => children[j].pid \in Started
      /\ todo # <<>> => /\ todo[1] \in Steps
                        /\ todo[1][1] # "fail" => i \in Indices
  BY SupervisorFacts
<1>2. todo # <<>> /\ todo[1][1] # "fail" =>
         (strategy = "one_for_one" => i = failing) /\ (strategy = "rest_for_one" => i >= failing)
  BY HeadInScope
<1>3. CASE LinkChild
  <2>1. todo # <<>> /\ todo[1][1] = "link" /\ i \in Indices /\ todo[1][3] \in Started
    BY <1>1, <1>3, StepKinds DEF LinkChild
  <2>2. children' = [children EXCEPT ![i].pid = todo[1][3], ![i].running = TRUE]
    BY <1>3 DEF LinkChild
  <2> HIDE DEF i
  <2>3. \A j \in Indices : j # i => children'[j] = children[j]
    <3>1. todo[1][3] \in {0} \cup Started /\ TRUE \in BOOLEAN
      BY <2>1
    <3> QED BY <1>1, <2>1, <2>2, <3>1, ChildSet
  <2> QED BY <1>2, <2>1, <2>3, OneChildInScope
<1>4. CASE StopChild \/ UnlinkChild
  <2>1. todo # <<>> /\ todo[1][1] # "fail" /\ i \in Indices
    BY <1>1, <1>4 DEF StopChild, UnlinkChild
  <2>2. children' = children \/ children' = [children EXCEPT ![i].pid = 0, ![i].running = FALSE]
    BY <1>4 DEF StopChild, UnlinkChild
  <2> HIDE DEF i
  <2>3. \A j \in Indices : j # i => children'[j] = children[j]
    <3>1. CASE children' = children
      BY <3>1
    <3>2. CASE children' = [children EXCEPT ![i].pid = 0, ![i].running = FALSE]
      BY <1>1, <2>1, <3>2, ChildSet
    <3> QED BY <2>2, <3>1, <3>2
  <2> QED BY <1>2, <2>1, <2>3, OneChildInScope
<1>5. ASSUME NEW k \in Indices, children' = RemoveAt(children, k)
      PROVE  FALSE
  BY <1>1, <1>5, ChildOut
<1>6. CASE RemoveChild
  <2>1. i \in Indices /\ children' = RemoveAt(children, i)
    BY <1>1, <1>6 DEF RemoveChild
  <2> QED BY <1>5, <2>1
<1>7. CASE HandleChildExit
  <2> DEFINE pid == inbox[1][1]
             k == CHOOSE j \in Indices : children[j].pid = pid
  <2>1. CASE \A j \in Indices : children[j].pid # pid
    BY <1>7, <2>1 DEF HandleChildExit
  <2>2. CASE \E j \in Indices : children[j].pid = pid
    <3>1. k \in Indices
      BY <2>2
    <3>2. /\ failing' = k
          /\ \/ children' = RemoveAt(children, k)
             \/ children' = [children EXCEPT ![k].pid = 0, ![k].running = FALSE]
      BY <1>7, <2>2 DEF HandleChildExit
    <3> HIDE DEF k
    <3>3. children' = [children EXCEPT ![k].pid = 0, ![k].running = FALSE]
      BY <1>5, <3>1, <3>2
    <3>4. \A j \in Indices : j # k => children'[j] = children[j]
      BY <1>1, <3>1, <3>3, ChildSet
    <3>5. k = failing /\ k >= failing
      BY <3>1, <3>2, SupervisorFacts DEF SupervisorTypeOK
    <3> QED BY <3>1, <3>4, <3>5, OneChildInScope
  <2> QED BY <2>1, <2>2
<1>8. CASE SpawnChild \/ StartFails \/ WaitChild \/ Fail \/ Tick
  BY <1>8 DEF SpawnChild, StartFails, WaitChild, Fail, Tick
<1>9. CASE \E k \in Indices : TerminateChild(k)
  BY <1>9 DEF TerminateChild
<1>10. CASE \E p \in Started, reason \in {"normal", "crash"} : ChildEnds(p, reason)
  BY <1>10 DEF ChildEnds
<1> QED BY <1>3, <1>4, <1>6, <1>7, <1>8, <1>9, <1>10 DEF SupervisorNext

\* apply_strategy: a restart touches only the children its strategy names,
\* none but the failed one under one_for_one and none before it under
\* rest_for_one, over all the steps it takes and whatever ends between them.
THEOREM RestartsStayInScope == SupervisorSpec => StrategyScope
<1>1. SupervisorInit => SupervisorInv
  BY SupervisorInitInv
<1>2. SupervisorInv /\ [SupervisorNext]_supervisorVars => SupervisorInv'
  BY SupervisorStep
<1>3. SupervisorInv /\ [SupervisorNext]_supervisorVars => [StaysInScope]_supervisorVars
  BY ScopeStep
<1> QED BY <1>1, <1>2, <1>3, PTL DEF SupervisorSpec, StrategyScope
-----------------------------------------------------------------------------
(* Jobs and service calls (actor/job.rs, actor/service.rs).                *)

\* No service holds a call of c.
NoCall(c) == \A s \in Services : \A k \in 1..Len(mbox[s]) : mbox[s][k][2] # c

\* The services hold no call of c but the one it waits in, and that once.
OneCall(c) ==
    \A s \in Services : \A k \in 1..Len(mbox[s]) : mbox[s][k][2] = c =>
        /\ mbox[s][k] = <<"call", c, at[c][2]>>
        /\ \A t \in Services : \A l \in 1..Len(mbox[t]) : mbox[t][l][2] = c => s = t /\ k = l

\* The call of a process that only calls is with a service or answered.
Own(c) ==
    /\ at[c][1] \in {"idle", "call"}
    /\ at[c][1] = "idle" => mbox[c] = <<>> /\ NoCall(c)
    /\ at[c][1] = "call" =>
          \/ mbox[c] = <<>> /\ OneCall(c)
          \/ mbox[c] = <<<<"reply", c, at[c][2]>>>> /\ NoCall(c)

\* Until its first await returns, a process that only starts jobs has one.
FirstAwait(c) ==
    /\ at[c][1] \in {"idle", "await"}
    /\ log[c] = <<>> /\ at[c][1] = "idle" => mbox[c] = <<>> /\ \A j \in Jobs : job[j][2] # c
    /\ log[c] = <<>> /\ at[c][1] = "await" =>
          /\ \A i \in Jobs : job[i][2] = c => i = at[c][2]
          /\ job[at[c][2]][1] \in {"spawned", "linked"} => mbox[c] = <<>>
          /\ job[at[c][2]][1] = "sent" => mbox[c] # <<>>
          /\ mbox[c] # <<>> => mbox[c][1] \in {<<"result", at[c][2]>>, <<"exit", at[c][2], "crash">>}
    /\ log[c] # <<>> =>
          log[c][1][3] \in {<<"result", log[c][1][2]>>, <<"exit", log[c][1][2], "crash">>, <<"timeout">>}

\* The job a process awaits is its own, and has told it what it has to tell.
Awaited(c) ==
    at[c][1] = "await" =>
        /\ job[at[c][2]][2] = c
        /\ c \in alive /\ job[at[c][2]][1] \in {"sent", "ended"} => mbox[c] # <<>>

CallersAreKnown ==
    /\ \A s \in Services : \A k \in 1..Len(mbox[s]) :
          mbox[s][k][1] = "call" /\ "call" \in Uses[mbox[s][k][2]]
    /\ \A j \in Jobs : /\ job[j][1] = "none" <=> job[j][2] = "nobody"
                       /\ job[j][1] # "none" => Uses[job[j][2]] \cap {"job", "map"} # {}

ForCaller(c) ==
    /\ Awaited(c)
    /\ Uses[c] = {"call"} => Own(c)
    /\ Uses[c] = {"job"} => FirstAwait(c)

ReplyInv == ReplyTypeOK /\ CallersAreKnown /\ ReplyIsOwn /\ \A c \in Callers : ForCaller(c)

LEMMA MailKinds ==
  /\ \A c \in Callers, n \in Nat : <<"call", c, n>> \in MailItems /\ <<"reply", c, n>> \in MailItems
  /\ \A j \in Jobs : /\ <<"result", j>> \in MailItems
                     /\ <<"exit", j, "normal">> \in MailItems /\ <<"exit", j, "crash">> \in MailItems
  /\ \A m \in MailItems : m[1] = "call" => m[2] \in Callers /\ m[3] \in Nat /\ m = <<"call", m[2], m[3]>>
<1>1. ASSUME NEW m \in MailItems, m[1] = "call"
      PROVE  m[2] \in Callers /\ m[3] \in Nat /\ m = <<"call", m[2], m[3]>>
  <2>1. CASE m \in {"call", "reply"} \X Callers \X Nat
    BY <1>1, <2>1
  <2>2. CASE m \in {"result"} \X Jobs
    BY <1>1, <2>2
  <2>3. CASE m \in {"exit"} \X Jobs \X {"normal", "crash"}
    BY <1>1, <2>3
  <2> QED BY <2>1, <2>2, <2>3 DEF MailItems
<1>2. \A c \in Callers, n \in Nat : <<"call", c, n>> \in MailItems /\ <<"reply", c, n>> \in MailItems
  BY DEF MailItems
<1>3. \A j \in Jobs : /\ <<"result", j>> \in MailItems
                      /\ <<"exit", j, "normal">> \in MailItems /\ <<"exit", j, "crash">> \in MailItems
  BY DEF MailItems
<1> QED BY <1>1, <1>2, <1>3

LEMMA PlaceKinds ==
  /\ <<"idle">> \in Places
  /\ \A n \in Nat : <<"call", n>> \in Places
  /\ \A j \in Jobs : <<"await", j>> \in Places /\ \A s \in Seq(MailItems) : <<"map", j, s>> \in Places
  /\ \A p \in Places :
        /\ p[1] \in {"idle", "call", "await", "map"}
        /\ p[1] = "idle" <=> p = <<"idle">>
        /\ p[1] = "call" => p[2] \in Nat
        /\ p[1] \in {"await", "map"} => p[2] \in Jobs
        /\ p[1] = "map" => p[3] \in Seq(MailItems)
<1>1. ASSUME NEW p \in Places
      PROVE  /\ p[1] \in {"idle", "call", "await", "map"}
             /\ p[1] = "idle" <=> p = <<"idle">>
             /\ p[1] = "call" => p[2] \in Nat
             /\ p[1] \in {"await", "map"} => p[2] \in Jobs
             /\ p[1] = "map" => p[3] \in Seq(MailItems)
  <2>1. CASE p = <<"idle">>
    BY <2>1
  <2>2. CASE p \in {"call"} \X Nat
    BY <2>2
  <2>3. CASE p \in {"await"} \X Jobs
    BY <2>3
  <2>4. CASE p \in {"map"} \X Jobs \X Seq(MailItems)
    BY <2>4
  <2> QED BY <2>1, <2>2, <2>3, <2>4 DEF Places
<1>2. /\ <<"idle">> \in Places /\ \A n \in Nat : <<"call", n>> \in Places
      /\ \A j \in Jobs : <<"await", j>> \in Places /\ \A s \in Seq(MailItems) : <<"map", j, s>> \in Places
  BY DEF Places
<1> QED BY <1>1, <1>2

LEMMA ReplyFacts ==
  ASSUME ReplyInv
  PROVE  /\ at \in [Callers -> Places] /\ count \in [Callers -> 0..MaxUses] /\ alive \subseteq Callers \cup Services
         /\ mbox \in [Callers \cup Services -> Seq(MailItems)] /\ log \in [Callers -> Seq(Answers)]
         /\ job \in [Jobs -> {"none", "spawned", "linked", "sent", "ended"} \X (Callers \cup {"nobody"})]
         /\ \A j \in Jobs : /\ job[j][1] # "none" => job[j][2] \in Callers /\ Uses[job[j][2]] \cap {"job", "map"} # {}
                            /\ job[j][1] = "none" => job[j][2] = "nobody"
                            /\ job[j] = <<job[j][1], job[j][2]>>
         /\ \A c \in Callers : /\ c \notin Services /\ c # "nobody"
                               /\ at[c][1] \in {"idle", "call", "await", "map"}
                               /\ at[c][1] = "call" => at[c][2] \in Nat
                               /\ at[c][1] \in {"await", "map"} => at[c][2] \in Jobs
                               /\ at[c][1] = "map" => at[c][3] \in Seq(MailItems)
         /\ CallersAreKnown /\ ReplyIsOwn /\ \A c \in Callers : ForCaller(c)
<1>1. ReplyTypeOK /\ CallersAreKnown /\ ReplyIsOwn /\ \A c \in Callers : ForCaller(c)
  BY DEF ReplyInv
<1>2. /\ at \in [Callers -> Places] /\ count \in [Callers -> 0..MaxUses] /\ alive \subseteq Callers \cup Services
      /\ mbox \in [Callers \cup Services -> Seq(MailItems)] /\ log \in [Callers -> Seq(Answers)]
      /\ job \in [Jobs -> {"none", "spawned", "linked", "sent", "ended"} \X (Callers \cup {"nobody"})]
  BY <1>1 DEF ReplyTypeOK
<1>3. ASSUME NEW j \in Jobs
      PROVE  /\ job[j][1] # "none" => job[j][2] \in Callers /\ Uses[job[j][2]] \cap {"job", "map"} # {}
             /\ job[j][1] = "none" => job[j][2] = "nobody"
             /\ job[j] = <<job[j][1], job[j][2]>>
  <2>1. job[j] \in {"none", "spawned", "linked", "sent", "ended"} \X (Callers \cup {"nobody"})
    BY <1>2
  <2>2. job[j][2] \in Callers \cup {"nobody"} /\ job[j] = <<job[j][1], job[j][2]>>
    BY <2>1
  <2> QED BY <1>1, <2>2 DEF CallersAreKnown
<1>4. ASSUME NEW c \in Callers
      PROVE  /\ c \notin Services /\ c # "nobody"
             /\ at[c][1] \in {"idle", "call", "await", "map"}
             /\ at[c][1] = "call" => at[c][2] \in Nat
             /\ at[c][1] \in {"await", "map"} => at[c][2] \in Jobs
             /\ at[c][1] = "map" => at[c][3] \in Seq(MailItems)
  <2>1. at[c] \in Places
    BY <1>2
  <2> QED BY <2>1, PlaceKinds, ReplyAssumption
<1> QED BY <1>1, <1>2, <1>3, <1>4

LEMMA ReplyInitInv == ReplyInit => ReplyInv
<1> SUFFICES ASSUME ReplyInit PROVE ReplyInv
  OBVIOUS
<1>1. /\ at = [c \in Callers |-> <<"idle">>]
      /\ mbox = [p \in Callers \cup Services |-> <<>>]
      /\ alive = Callers \cup Services
      /\ job = [j \in Jobs |-> <<"none", "nobody">>]
      /\ count = [c \in Callers |-> 0]
      /\ log = [c \in Callers |-> <<>>]
  BY DEF ReplyInit
<1>2. <<>> \in Seq(MailItems) /\ <<>> \in Seq(Answers) /\ Len(<<>>) = 0
  BY EmptySeq
<1>3. ReplyTypeOK
  <2>1. at \in [Callers -> Places]
    BY <1>1, PlaceKinds
  <2>2. 0 \in 0..MaxUses
    BY ReplyAssumption
  <2>3. job \in [Jobs -> {"none", "spawned", "linked", "sent", "ended"} \X (Callers \cup {"nobody"})]
    BY <1>1
  <2> QED BY <1>1, <1>2, <2>1, <2>2, <2>3 DEF ReplyTypeOK
<1>4. CallersAreKnown
  <2>1. \A s \in Services : mbox[s] = <<>>
    BY <1>1
  <2>2. \A j \in Jobs : job[j][1] = "none" /\ job[j][2] = "nobody"
    BY <1>1
  <2> QED BY <1>2, <2>1, <2>2 DEF CallersAreKnown
<1>5. ReplyIsOwn
  BY <1>1, <1>2 DEF ReplyIsOwn
<1>6. ASSUME NEW c \in Callers
      PROVE  ForCaller(c)
  <2>1. at[c][1] = "idle" /\ mbox[c] = <<>> /\ log[c] = <<>>
    BY <1>1
  <2>2. \A j \in Jobs : job[j][2] # c
    BY <1>1, ReplyAssumption
  <2>3. NoCall(c)
    BY <1>1, <1>2 DEF NoCall
  <2> QED BY <2>1, <2>2, <2>3 DEF ForCaller, Awaited, Own, FirstAwait
<1> QED BY <1>3, <1>4, <1>5, <1>6 DEF ReplyInv

LEMMA Pushed ==
  ASSUME mbox \in [Callers \cup Services -> Seq(MailItems)], NEW p \in Callers \cup Services, NEW m \in MailItems,
         mbox' = Push(p, m)
  PROVE  /\ mbox' \in [Callers \cup Services -> Seq(MailItems)]
         /\ Len(mbox[p]) \in Nat /\ Len(mbox'[p]) = Len(mbox[p]) + 1
         /\ \A k \in 1..Len(mbox[p]) : mbox'[p][k] = mbox[p][k]
         /\ mbox'[p][Len(mbox[p]) + 1] = m /\ mbox'[p] # <<>>
         /\ mbox[p] = <<>> => mbox'[p] = <<m>>
         /\ mbox[p] # <<>> => mbox'[p][1] = mbox[p][1]
         /\ \A q \in Callers \cup Services : q # p => mbox'[q] = mbox[q]
<1>1. mbox[p] \in Seq(MailItems)
  OBVIOUS
<1> DEFINE b == mbox[p] n == Append(b, m)
<1>2. mbox' = [mbox EXCEPT ![p] = n]
  BY DEF Push
<1>3. /\ n \in Seq(MailItems) /\ Len(n) = Len(b) + 1 /\ n # <<>> /\ Len(b) \in Nat
      /\ \A k \in 1..Len(b) : n[k] = b[k] /\ n[Len(b) + 1] = m
      /\ n[Len(b) + 1] = m
  <2> HIDE DEF b
  <2>1. b \in Seq(MailItems)
    BY <1>1 DEF b
  <2> QED BY <2>1, AppendProperties, LenProperties
<1>4. b = <<>> => n = <<m>>
  OBVIOUS
<1>5. b # <<>> => 1 \in 1..Len(b)
  BY <1>1, EmptySeq, LenProperties
<1>6. mbox' \in [Callers \cup Services -> Seq(MailItems)] /\ mbox'[p] = n
      /\ \A q \in Callers \cup Services : q # p => mbox'[q] = mbox[q]
  <2> HIDE DEF n
  <2> QED BY <1>2, <1>3
<1> HIDE DEF n
<1> QED BY <1>3, <1>4, <1>5, <1>6

\* A caller that an action is not about.
LEMMA CallerKept ==
  ASSUME ReplyInv, NEW c \in Callers, at'[c] = at[c], mbox'[c] = mbox[c], log'[c] = log[c], alive' \subseteq alive,
         \A j \in Jobs : job'[j] = job[j] \/ (job[j][2] # c /\ job'[j][2] # c),
         NoCall(c) => NoCall(c)', OneCall(c) => OneCall(c)'
  PROVE  ForCaller(c)'
<1>1. Awaited(c)'
  BY ReplyFacts DEF ForCaller, Awaited
<1>2. ASSUME Uses[c] = {"call"} PROVE Own(c)'
  <2>1. Own(c)
    BY <1>2, ReplyFacts DEF ForCaller
  <2> QED BY <2>1 DEF Own
<1>3. ASSUME Uses[c] = {"job"} PROVE FirstAwait(c)'
  <2>1. FirstAwait(c) /\ Awaited(c) /\ (at[c][1] = "await" => at[c][2] \in Jobs)
    BY <1>3, ReplyFacts DEF ForCaller
  <2>2. at[c][1] = "await" => job'[at[c][2]] = job[at[c][2]]
    BY <2>1 DEF Awaited
  <2> QED BY <2>1, <2>2 DEF FirstAwait
<1> QED BY <1>1, <1>2, <1>3 DEF ForCaller

LEMMA ServicesKept ==
  ASSUME NEW c \in Callers, at'[c] = at[c], \A s \in Services : mbox'[s] = mbox[s]
  PROVE  (NoCall(c) => NoCall(c)') /\ (OneCall(c) => OneCall(c)')
BY DEF NoCall, OneCall

LEMMA OneCallKept ==
  ASSUME NEW c \in Callers, OneCall(c), at'[c] = at[c],
         \A s \in Services : \A k \in 1..Len(mbox'[s]) :
            mbox'[s][k][2] = c => k \in 1..Len(mbox[s]) /\ mbox'[s][k] = mbox[s][k]
  PROVE  OneCall(c)'
<1>1. ASSUME NEW s \in Services, NEW k \in 1..Len(mbox'[s]), mbox'[s][k][2] = c
      PROVE  /\ mbox'[s][k] = <<"call", c, at'[c][2]>>
             /\ \A t \in Services : \A l \in 1..Len(mbox'[t]) : mbox'[t][l][2] = c => s = t /\ k = l
  <2>1. k \in 1..Len(mbox[s]) /\ mbox[s][k] = mbox'[s][k]
    BY <1>1
  <2>2. /\ mbox[s][k] = <<"call", c, at[c][2]>>
        /\ \A t \in Services : \A l \in 1..Len(mbox[t]) : mbox[t][l][2] = c => s = t /\ k = l
    BY <1>1, <2>1 DEF OneCall
  <2> QED BY <2>1, <2>2
<1> QED BY <1>1 DEF OneCall

LEMMA ServiceCallStep ==
  ASSUME ReplyInv, NEW c \in Callers, NEW s \in Services, ServiceCall(c, s)
  PROVE  ReplyInv'
<1> DEFINE n == count[c] m == <<"call", c, n>>
<1>1. /\ at \in [Callers -> Places] /\ count \in [Callers -> 0..MaxUses]
      /\ mbox \in [Callers \cup Services -> Seq(MailItems)]
      /\ CallersAreKnown /\ ReplyIsOwn /\ \A d \in Callers : ForCaller(d) /\ d \notin Services
  BY ReplyFacts
<1>2. /\ at[c] = <<"idle">> /\ "call" \in Uses[c] /\ count[c] < MaxUses
      /\ count' = [count EXCEPT ![c] = @ + 1]
      /\ mbox' = Push(s, m)
      /\ at' = [at EXCEPT ![c] = <<"call", n>>]
      /\ UNCHANGED <<alive, job, log>>
  BY DEF ServiceCall, Begin
<1>3. n \in Nat /\ m \in MailItems /\ n + 1 \in 0..MaxUses
  <2>1. n \in 0..MaxUses /\ n < MaxUses /\ MaxUses \in Nat
    BY <1>1, <1>2, ReplyAssumption
  <2>2. n \in Nat /\ n + 1 \in 0..MaxUses
    BY <2>1
  <2> HIDE DEF n
  <2>3. m \in MailItems
    BY <2>2, MailKinds
  <2> QED BY <2>2, <2>3
<1> HIDE DEF n
<1>4. /\ m[1] = "call" /\ m[2] = c
      /\ at' \in [Callers -> Places] /\ at'[c] = <<"call", n>>
      /\ \A d \in Callers : d # c => at'[d] = at[d]
  BY <1>1, <1>2, <1>3, PlaceKinds
<1>5. /\ mbox' \in [Callers \cup Services -> Seq(MailItems)]
      /\ Len(mbox[s]) \in Nat /\ Len(mbox'[s]) = Len(mbox[s]) + 1
      /\ \A k \in 1..Len(mbox[s]) : mbox'[s][k] = mbox[s][k]
      /\ mbox'[s][Len(mbox[s]) + 1] = m
      /\ \A q \in Callers \cup Services : q # s => mbox'[q] = mbox[q]
  <2> HIDE DEF m
  <2> QED BY <1>1, <1>2, <1>3, Pushed
<1> HIDE DEF m
<1>6. ReplyTypeOK'
  <2>1. count' \in [Callers -> 0..MaxUses]
    BY <1>1, <1>2, <1>3 DEF n
  <2> QED BY <1>2, <1>4, <1>5, <2>1 DEF ReplyInv, ReplyTypeOK
<1>7. \A k \in 1..Len(mbox'[s]) : k \in 1..Len(mbox[s]) \/ (k = Len(mbox[s]) + 1 /\ k \notin 1..Len(mbox[s]))
  BY <1>5
<1>8. CallersAreKnown'
  <2>1. ASSUME NEW t \in Services, NEW k \in 1..Len(mbox'[t])
        PROVE  mbox'[t][k][1] = "call" /\ "call" \in Uses[mbox'[t][k][2]]
    <3>1. CASE k \in 1..Len(mbox[t]) /\ mbox'[t][k] = mbox[t][k]
      BY <1>1, <3>1 DEF CallersAreKnown
    <3>2. CASE mbox'[t][k] = m
      BY <1>2, <1>4, <3>2
    <3>3. CASE t # s
      BY <1>5, <3>1, <3>3
    <3> QED BY <1>5, <1>7, <3>1, <3>2, <3>3
  <2> QED BY <1>1, <1>2, <2>1 DEF CallersAreKnown
<1>9. ReplyIsOwn'
  BY <1>1, <1>2 DEF ReplyIsOwn
<1>10. ASSUME NEW d \in Callers, d # c
       PROVE  ForCaller(d)'
  <2>1. NoCall(d) => NoCall(d)'
    BY SMTT(30), <1>4, <1>5, <1>7, <1>10 DEF NoCall
  <2>2. OneCall(d) => OneCall(d)'
    <3> SUFFICES ASSUME OneCall(d) PROVE OneCall(d)'
      OBVIOUS
    <3>1. \A t \in Services : \A k \in 1..Len(mbox'[t]) :
             mbox'[t][k][2] = d => k \in 1..Len(mbox[t]) /\ mbox'[t][k] = mbox[t][k]
      BY <1>4, <1>5, <1>7, <1>10
    <3> QED BY <1>4, <1>10, <3>1, OneCallKept
  <2>3. mbox'[d] = mbox[d] /\ at'[d] = at[d] /\ log'[d] = log[d] /\ alive' \subseteq alive
        /\ \A j \in Jobs : job'[j] = job[j]
    BY <1>1, <1>2, <1>4, <1>5, <1>10
  <2> QED BY <2>1, <2>2, <2>3, CallerKept
<1>11. ForCaller(c)'
  <2>1. Awaited(c)'
    BY <1>4 DEF Awaited
  <2>2. Uses[c] # {"job"}
    BY <1>2
  <2>3. ASSUME Uses[c] = {"call"} PROVE Own(c)'
    <3>1. Own(c)
      BY <1>1, <2>3 DEF ForCaller
    <3>2. mbox[c] = <<>> /\ NoCall(c)
      BY <1>2, <3>1 DEF Own
    <3>3. mbox'[c] = <<>>
      BY <1>1, <1>5, <3>2
    <3>4. ASSUME NEW t \in Services, NEW k \in 1..Len(mbox'[t]), mbox'[t][k][2] = c
          PROVE  t = s /\ k = Len(mbox[s]) + 1
      BY <1>5, <1>7, <3>2, <3>4 DEF NoCall
    <3>5. m = <<"call", c, at'[c][2]>>
      BY <1>4 DEF m
    <3>6. OneCall(c)'
      BY <1>5, <3>4, <3>5 DEF OneCall
    <3> QED BY <1>4, <3>3, <3>6 DEF Own
  <2> QED BY <2>1, <2>2, <2>3 DEF ForCaller
<1> QED BY <1>6, <1>8, <1>9, <1>10, <1>11 DEF ReplyInv

\* The first message of a mailbox.
LEMMA Popped ==
  ASSUME NEW b \in Seq(MailItems), b # <<>>
  PROVE  /\ Head(b) \in MailItems /\ Head(b) = b[1] /\ 1 \in 1..Len(b) /\ Len(b) \in Nat
         /\ Tail(b) \in Seq(MailItems) /\ Len(Tail(b)) = Len(b) - 1
         /\ \A k \in 1..Len(Tail(b)) : k + 1 \in 1..Len(b) /\ Tail(b)[k] = b[k + 1]
<1>1. /\ Tail(b) \in Seq(MailItems) /\ Len(Tail(b)) = Len(b) - 1
      /\ \A k \in 1..Len(Tail(b)) : Tail(b)[k] = b[k + 1]
      /\ Len(b) \in Nat \ {0}
  BY HeadTailProperties, EmptySeq
<1>2. Head(b) = b[1] /\ 1 \in 1..Len(b) /\ b[1] \in MailItems
  BY <1>1, ElementOfSeq
<1>3. \A k \in 1..Len(Tail(b)) : k + 1 \in 1..Len(b)
  BY <1>1
<1> QED BY <1>1, <1>2, <1>3

LEMMA ServeStep ==
  ASSUME ReplyInv, NEW s \in Services, Serve(s)
  PROVE  ReplyInv'
<1> DEFINE m == Head(mbox[s])
<1>1. /\ mbox \in [Callers \cup Services -> Seq(MailItems)]
      /\ CallersAreKnown /\ ReplyIsOwn /\ \A d \in Callers : ForCaller(d) /\ d \notin Services
  BY ReplyFacts
<1>2. /\ mbox[s] # <<>> /\ UNCHANGED <<at, alive, job, count, log>>
      /\ mbox' = [mbox EXCEPT ![s] = Tail(@), ![m[2]] = Append(@, <<"reply", m[2], m[3]>>)]
  BY DEF Serve
<1>3. /\ m \in MailItems /\ m = mbox[s][1] /\ 1 \in 1..Len(mbox[s]) /\ Len(mbox[s]) \in Nat
      /\ Tail(mbox[s]) \in Seq(MailItems) /\ Len(Tail(mbox[s])) = Len(mbox[s]) - 1
      /\ \A k \in 1..Len(Tail(mbox[s])) : k + 1 \in 1..Len(mbox[s]) /\ Tail(mbox[s])[k] = mbox[s][k + 1]
  <2>1. mbox[s] \in Seq(MailItems)
    BY <1>1
  <2> QED BY <1>2, <2>1, Popped
<1>4. m[1] = "call" /\ "call" \in Uses[m[2]]
  BY <1>1, <1>3 DEF CallersAreKnown
<1>5. PICK c \in Callers : /\ c = m[2] /\ "call" \in Uses[c] /\ m[3] \in Nat /\ m = <<"call", c, m[3]>> /\ c # s
  BY <1>1, <1>3, <1>4, MailKinds
<1> DEFINE r == <<"reply", c, m[3]>>
<1>6. r \in MailItems
  BY <1>5, MailKinds
<1> HIDE DEF r, m
<1>7. /\ mbox' \in [Callers \cup Services -> Seq(MailItems)]
      /\ mbox'[s] = Tail(mbox[s]) /\ mbox'[c] = Append(mbox[c], r)
      /\ \A q \in Callers \cup Services : q # s /\ q # c => mbox'[q] = mbox[q]
  <2>1. Append(mbox[c], r) \in Seq(MailItems) /\ Tail(mbox[s]) \in Seq(MailItems)
    <3>1. mbox[c] \in Seq(MailItems)
      BY <1>1, <1>5
    <3> QED BY <1>3, <1>6, <3>1, AppendProperties
  <2>2. mbox' = [mbox EXCEPT ![s] = Tail(@), ![c] = Append(@, r)]
    BY <1>2, <1>5 DEF r
  <2> QED BY <1>1, <1>5, <2>1, <2>2
<1>8. ReplyTypeOK'
  BY <1>2, <1>7 DEF ReplyInv, ReplyTypeOK
<1>9. \A t \in Services : \A k \in 1..Len(mbox'[t]) :
         IF t = s THEN k + 1 \in 1..Len(mbox[t]) /\ mbox'[t][k] = mbox[t][k + 1]
         ELSE k \in 1..Len(mbox[t]) /\ mbox'[t][k] = mbox[t][k]
  BY SMTT(30), <1>1, <1>3, <1>5, <1>7
<1>10. CallersAreKnown'
  <2>1. ASSUME NEW t \in Services, NEW k \in 1..Len(mbox'[t])
        PROVE  mbox'[t][k][1] = "call" /\ "call" \in Uses[mbox'[t][k][2]]
    <3>1. PICK l \in 1..Len(mbox[t]) : mbox'[t][k] = mbox[t][l]
      BY <1>9
    <3>2. mbox[t][l][1] = "call" /\ "call" \in Uses[mbox[t][l][2]]
      BY <1>1 DEF CallersAreKnown
    <3> QED BY <3>1, <3>2
  <2> QED BY <1>1, <1>2, <2>1 DEF CallersAreKnown
<1>11. ReplyIsOwn'
  BY <1>1, <1>2 DEF ReplyIsOwn
<1>12. ASSUME NEW d \in Callers, NoCall(d)
       PROVE  NoCall(d)' /\ d # c
  <2>1. ASSUME NEW t \in Services, NEW k \in 1..Len(mbox'[t]) PROVE mbox'[t][k][2] # d
    <3>1. CASE t = s
      BY <1>9, <1>12, <3>1 DEF NoCall
    <3>2. CASE t # s
      BY <1>9, <1>12, <3>2 DEF NoCall
    <3> QED BY <3>1, <3>2
  <2>2. d # c
    BY <1>3, <1>5, <1>12 DEF NoCall
  <2> QED BY <2>1, <2>2 DEF NoCall
<1>13. ASSUME NEW d \in Callers, d # c
       PROVE  ForCaller(d)'
  <2>1. ASSUME OneCall(d) PROVE OneCall(d)'
    <3>1. ASSUME NEW t \in Services, NEW k \in 1..Len(mbox'[t]), mbox'[t][k][2] = d
          PROVE  /\ mbox'[t][k] = <<"call", d, at'[d][2]>>
                 /\ \A u \in Services : \A l \in 1..Len(mbox'[u]) : mbox'[u][l][2] = d => t = u /\ k = l
      <4> DEFINE a == IF t = s THEN k + 1 ELSE k
      <4>1. a \in 1..Len(mbox[t]) /\ mbox[t][a] = mbox'[t][k]
        BY <1>9
      <4>2. /\ mbox[t][a] = <<"call", d, at[d][2]>>
            /\ \A u \in Services : \A l \in 1..Len(mbox[u]) : mbox[u][l][2] = d => t = u /\ a = l
        <5> HIDE DEF a
        <5> QED BY <2>1, <3>1, <4>1 DEF OneCall
      <4>3. ASSUME NEW u \in Services, NEW l \in 1..Len(mbox'[u]), mbox'[u][l][2] = d
            PROVE  t = u /\ k = l
        <5> DEFINE b == IF u = s THEN l + 1 ELSE l
        <5>1. b \in 1..Len(mbox[u]) /\ mbox[u][b] = mbox'[u][l]
          BY <1>9
        <5> HIDE DEF a, b
        <5>2. t = u /\ a = b
          BY <4>2, <4>3, <5>1
        <5>3. k \in Nat /\ l \in Nat
          BY <1>7, LenProperties
        <5> QED BY <5>2, <5>3 DEF a, b
      <4> QED BY <1>2, <4>1, <4>2, <4>3
    <3> QED BY <3>1 DEF OneCall
  <2>2. mbox'[d] = mbox[d]
    BY <1>1, <1>7, <1>13
  <2> QED BY <1>2, <1>12, <2>1, <2>2, CallerKept
<1>14. ForCaller(c)'
  <2>1. Awaited(c) /\ mbox'[c] # <<>>
    <3>1. mbox[c] \in Seq(MailItems)
      BY <1>1, <1>5
    <3> QED BY <1>1, <1>5, <1>6, <1>7, <3>1, AppendProperties DEF ForCaller
  <2>2. Awaited(c)'
    BY <1>2, <2>1 DEF Awaited
  <2>3. Uses[c] # {"job"}
    BY <1>5
  <2>4. ASSUME Uses[c] = {"call"} PROVE Own(c)'
    <3>1. Own(c)
      BY <1>1, <1>5, <2>4 DEF ForCaller
    <3>2. ~NoCall(c)
      BY <1>5, <1>12
    <3>3. at[c][1] = "call" /\ mbox[c] = <<>> /\ OneCall(c)
      BY <3>1, <3>2 DEF Own
    <3>4. /\ m = <<"call", c, at[c][2]>>
          /\ \A u \in Services : \A l \in 1..Len(mbox[u]) : mbox[u][l][2] = c => s = u /\ 1 = l
      <4>1. mbox[s][1][2] = c
        BY <1>3, <1>5
      <4> QED BY <1>3, <3>3, <4>1 DEF OneCall
    <3>5. r = <<"reply", c, at[c][2]>>
      BY <1>5, <3>4 DEF r
    <3>6. mbox'[c] = <<<<"reply", c, at'[c][2]>>>>
      BY <1>2, <1>7, <3>3, <3>5
    <3>7. ASSUME NEW t \in Services, NEW k \in 1..Len(mbox'[t]) PROVE mbox'[t][k][2] # c
      <4>1. CASE t = s
        <5>1. k + 1 \in 1..Len(mbox[t]) /\ mbox'[t][k] = mbox[t][k + 1] /\ k + 1 # 1
          BY <1>9, <4>1
        <5> QED BY <3>4, <5>1
      <4>2. CASE t # s
        BY <1>9, <3>4, <4>2
      <4> QED BY <4>1, <4>2
    <3>8. NoCall(c)'
      BY <3>7 DEF NoCall
    <3> QED BY <1>2, <3>3, <3>6, <3>8 DEF Own
  <2> QED BY <2>2, <2>3, <2>4 DEF ForCaller
<1> QED BY <1>8, <1>10, <1>11, <1>13, <1>14 DEF ReplyInv

LEMMA ServiceEndsStep ==
  ASSUME ReplyInv, NEW s \in Services, ServiceEnds(s)
  PROVE  ReplyInv'
<1>1. alive' = alive \ {s} /\ UNCHANGED <<at, mbox, job, count, log>>
  BY DEF ServiceEnds
<1>2. ASSUME NEW c \in Callers PROVE ForCaller(c)'
  BY <1>1, ServicesKept, CallerKept
<1> QED BY <1>1, <1>2 DEF ReplyInv, ReplyTypeOK, CallersAreKnown, ReplyIsOwn

\* Nothing but jobs and who awaits them changes, and the services do not.
LEMMA KnownKept ==
  ASSUME CallersAreKnown, \A s \in Services : mbox'[s] = mbox[s],
         \A j \in Jobs : \/ job'[j] = job[j]
                         \/ /\ job'[j][1] # "none" /\ job'[j][2] # "nobody"
                            /\ Uses[job'[j][2]] \cap {"job", "map"} # {}
  PROVE  CallersAreKnown'
BY DEF CallersAreKnown

LEMMA JobAsyncStep ==
  ASSUME ReplyInv, NEW c \in Callers, NEW j \in Jobs, JobAsync(c, j)
  PROVE  ReplyInv'
<1>1. /\ at \in [Callers -> Places] /\ count \in [Callers -> 0..MaxUses]
      /\ job \in [Jobs -> {"none", "spawned", "linked", "sent", "ended"} \X (Callers \cup {"nobody"})]
      /\ CallersAreKnown /\ ReplyIsOwn /\ \A d \in Callers : ForCaller(d) /\ d # "nobody"
      /\ \A i \in Jobs : job[i][1] = "none" => job[i][2] = "nobody"
  BY ReplyFacts
<1>2. /\ at[c] = <<"idle">> /\ "job" \in Uses[c] /\ count[c] < MaxUses
      /\ count' = [count EXCEPT ![c] = @ + 1] /\ job[j][1] = "none"
      /\ job' = [job EXCEPT ![j] = <<"spawned", c>>]
      /\ at' = [at EXCEPT ![c] = <<"await", j>>]
      /\ UNCHANGED <<mbox, alive, log>>
  BY DEF JobAsync, Begin
<1>3. count' \in [Callers -> 0..MaxUses]
  <2>1. count[c] \in 0..MaxUses /\ MaxUses \in Nat
    BY <1>1, ReplyAssumption
  <2>2. count[c] + 1 \in 0..MaxUses
    BY <1>2, <2>1
  <2> QED BY <1>1, <1>2, <2>2
<1>4. /\ at' \in [Callers -> Places] /\ at'[c] = <<"await", j>>
      /\ \A d \in Callers : d # c => at'[d] = at[d]
  BY <1>1, <1>2, PlaceKinds
<1>5. /\ job' \in [Jobs -> {"none", "spawned", "linked", "sent", "ended"} \X (Callers \cup {"nobody"})]
      /\ job'[j] = <<"spawned", c>> /\ \A i \in Jobs : i # j => job'[i] = job[i]
  BY <1>1, <1>2
<1>6. job[j][2] = "nobody" /\ job'[j][1] = "spawned" /\ job'[j][2] = c
  BY <1>1, <1>2, <1>5
<1>7. ReplyTypeOK'
  BY <1>2, <1>3, <1>4, <1>5 DEF ReplyInv, ReplyTypeOK
<1>8. CallersAreKnown' /\ ReplyIsOwn'
  <2>1. \A s \in Services : mbox'[s] = mbox[s]
    BY <1>2
  <2>2. Uses[c] \cap {"job", "map"} # {}
    BY <1>2
  <2>3. "spawned" # "none" /\ c # "nobody"
    BY <1>1
  <2>4. \A i \in Jobs : \/ job'[i] = job[i]
                          \/ /\ job'[i][1] # "none" /\ job'[i][2] # "nobody"
                             /\ Uses[job'[i][2]] \cap {"job", "map"} # {}
    BY <1>5, <1>6, <2>2, <2>3
  <2>5. CallersAreKnown'
    BY <1>1, <2>1, <2>4, KnownKept
  <2>6. ReplyIsOwn'
    BY <1>1, <1>2 DEF ReplyIsOwn
  <2> QED BY <2>5, <2>6
<1>9. ASSUME NEW d \in Callers, d # c PROVE ForCaller(d)'
  <2>1. \A i \in Jobs : job'[i] = job[i] \/ (job[i][2] # d /\ job'[i][2] # d)
    BY <1>1, <1>5, <1>6, <1>9
  <2> QED BY <1>2, <1>4, <1>9, <2>1, ServicesKept, CallerKept
<1>10. ForCaller(c)'
  <2>1. Awaited(c)'
    BY <1>4, <1>6 DEF Awaited
  <2>2. Uses[c] # {"call"}
    BY <1>2
  <2>3. ASSUME Uses[c] = {"job"} PROVE FirstAwait(c)'
    <3>1. FirstAwait(c)
      BY <1>1, <2>3 DEF ForCaller
    <3>2. log[c] = <<>> => mbox[c] = <<>> /\ \A i \in Jobs : job[i][2] # c
      BY <1>2, <3>1 DEF FirstAwait
    <3>3. log[c] # <<>> =>
             log[c][1][3] \in {<<"result", log[c][1][2]>>, <<"exit", log[c][1][2], "crash">>, <<"timeout">>}
      BY <3>1 DEF FirstAwait
    <3>4. at'[c][1] = "await" /\ at'[c][2] = j
      BY <1>4
    <3> QED BY <1>2, <1>5, <1>6, <3>2, <3>3, <3>4 DEF FirstAwait
  <2> QED BY <2>1, <2>2, <2>3 DEF ForCaller
<1> QED BY <1>7, <1>8, <1>9, <1>10 DEF ReplyInv

LEMMA JobMapStep ==
  ASSUME ReplyInv, NEW c \in Callers, JobMap(c)
  PROVE  ReplyInv'
<1>1. /\ at \in [Callers -> Places] /\ count \in [Callers -> 0..MaxUses]
      /\ job \in [Jobs -> {"none", "spawned", "linked", "sent", "ended"} \X (Callers \cup {"nobody"})]
      /\ CallersAreKnown /\ ReplyIsOwn /\ \A d \in Callers : ForCaller(d) /\ d # "nobody"
      /\ \A i \in Jobs : job[i][1] = "none" => job[i][2] = "nobody"
  BY ReplyFacts
<1>2. PICK j \in Jobs :
         /\ \A i \in Jobs : job[i][1] = "none" <=> i >= j
         /\ job' = [i \in Jobs |-> IF i \in j..(j + MapSize - 1) THEN <<"spawned", c>> ELSE job[i]]
         /\ at' = [at EXCEPT ![c] = <<"map", j, <<>>>>]
  BY DEF JobMap
<1>3. /\ at[c] = <<"idle">> /\ "map" \in Uses[c] /\ count[c] < MaxUses
      /\ count' = [count EXCEPT ![c] = @ + 1]
      /\ UNCHANGED <<mbox, alive, log>>
  BY DEF JobMap, Begin
<1>4. count' \in [Callers -> 0..MaxUses]
  <2>1. count[c] \in 0..MaxUses /\ MaxUses \in Nat
    BY <1>1, ReplyAssumption
  <2>2. count[c] + 1 \in 0..MaxUses
    BY <1>3, <2>1
  <2> QED BY <1>1, <1>3, <2>2
<1>5. /\ at' \in [Callers -> Places] /\ at'[c][1] = "map"
      /\ \A d \in Callers : d # c => at'[d] = at[d]
  <2> DEFINE p == <<"map", j, <<>>>>
  <2>1. p \in Places /\ p[1] = "map"
    BY PlaceKinds, EmptySeq
  <2>2. at' = [at EXCEPT ![c] = p]
    BY <1>2
  <2> HIDE DEF p
  <2> QED BY <1>1, <2>1, <2>2
<1>6. ASSUME NEW i \in Jobs
      PROVE  \/ job'[i] = job[i]
             \/ job'[i] = <<"spawned", c>> /\ job[i][1] = "none"
  <2>1. j \in Int /\ i \in Int /\ (i \in j..(j + MapSize - 1) => i >= j)
    BY ReplyAssumption DEF Jobs
  <2> QED BY <1>2, <2>1
<1>7. job' \in [Jobs -> {"none", "spawned", "linked", "sent", "ended"} \X (Callers \cup {"nobody"})]
  BY <1>1, <1>2
<1>8. ReplyTypeOK'
  BY <1>3, <1>4, <1>5, <1>7 DEF ReplyInv, ReplyTypeOK
<1>9. CallersAreKnown' /\ ReplyIsOwn'
  <2>1. \A i \in Jobs : \/ job'[i] = job[i]
                        \/ /\ job'[i][1] # "none" /\ job'[i][2] # "nobody"
                           /\ Uses[job'[i][2]] \cap {"job", "map"} # {}
    BY <1>1, <1>3, <1>6
  <2> QED BY <1>1, <1>3, <2>1, KnownKept DEF ReplyIsOwn
<1>10. ASSUME NEW d \in Callers, d # c PROVE ForCaller(d)'
  <2>1. \A i \in Jobs : job'[i] = job[i] \/ (job[i][2] # d /\ job'[i][2] # d)
    BY <1>1, <1>6, <1>10
  <2> QED BY <1>3, <1>5, <1>10, <2>1, ServicesKept, CallerKept
<1>11. ForCaller(c)'
  <2>1. Awaited(c)' /\ Uses[c] # {"call"} /\ Uses[c] # {"job"}
    BY <1>3, <1>5 DEF Awaited
  <2> QED BY <2>1 DEF ForCaller
<1> QED BY <1>8, <1>9, <1>10, <1>11 DEF ReplyInv

LEMMA JobLinksStep ==
  ASSUME ReplyInv, NEW j \in Jobs, JobLinks(j)
  PROVE  ReplyInv'
<1>1. /\ job \in [Jobs -> {"none", "spawned", "linked", "sent", "ended"} \X (Callers \cup {"nobody"})]
      /\ CallersAreKnown /\ ReplyIsOwn /\ \A d \in Callers : ForCaller(d) /\ d # "nobody"
      /\ \A i \in Jobs : job[i][1] # "none" => job[i][2] \in Callers /\ Uses[job[i][2]] \cap {"job", "map"} # {}
      /\ \A d \in Callers : at[d][1] = "await" => at[d][2] \in Jobs
  BY ReplyFacts
<1>2. /\ job[j][1] = "spawned" /\ job' = [job EXCEPT ![j][1] = "linked"]
      /\ UNCHANGED <<at, mbox, alive, count, log>>
  BY DEF JobLinks
<1>3. /\ job' \in [Jobs -> {"none", "spawned", "linked", "sent", "ended"} \X (Callers \cup {"nobody"})]
      /\ job'[j][1] = "linked" /\ job'[j][2] = job[j][2] /\ \A i \in Jobs : i # j => job'[i] = job[i]
  BY <1>1, <1>2
<1>4. ReplyTypeOK'
  BY <1>2, <1>3 DEF ReplyInv, ReplyTypeOK
<1>5. CallersAreKnown' /\ ReplyIsOwn'
  <2>1. \A i \in Jobs : \/ job'[i] = job[i]
                        \/ /\ job'[i][1] # "none" /\ job'[i][2] # "nobody"
                           /\ Uses[job'[i][2]] \cap {"job", "map"} # {}
    BY <1>1, <1>2, <1>3
  <2>2. CallersAreKnown'
    BY <1>1, <1>2, <2>1, KnownKept
  <2>3. ReplyIsOwn'
    BY <1>1, <1>2 DEF ReplyIsOwn
  <2> QED BY <2>2, <2>3
<1>6. ASSUME NEW c \in Callers
      PROVE  ForCaller(c)'
  <2>1. CASE job[j][2] # c
    BY <1>2, <1>3, <2>1, ServicesKept, CallerKept
  <2>2. CASE job[j][2] = c
    <3>1. Uses[c] # {"call"}
      BY <1>1, <1>2, <2>2
    <3>2. Awaited(c)'
      BY <1>1, <1>2, <1>3 DEF ForCaller, Awaited
    <3>3. ASSUME Uses[c] = {"job"} PROVE FirstAwait(c)'
      <4>1. FirstAwait(c)
        BY <1>1, <3>3 DEF ForCaller
      <4> QED BY <1>1, <1>2, <1>3, <2>2, <4>1 DEF FirstAwait
    <3> QED BY <3>1, <3>2, <3>3 DEF ForCaller
  <2> QED BY <2>1, <2>2
<1> QED BY <1>4, <1>5, <1>6 DEF ReplyInv

LEMMA JobSet ==
  ASSUME job \in [Jobs -> {"none", "spawned", "linked", "sent", "ended"} \X (Callers \cup {"nobody"})],
         NEW j \in Jobs, NEW x \in {"sent", "ended"}, job' = [job EXCEPT ![j][1] = x]
  PROVE  /\ job' \in [Jobs -> {"none", "spawned", "linked", "sent", "ended"} \X (Callers \cup {"nobody"})]
         /\ job'[j][1] = x /\ job'[j][2] = job[j][2] /\ \A i \in Jobs : i # j => job'[i] = job[i]
<1> DEFINE X == {"none", "spawned", "linked", "sent", "ended"} Y == Callers \cup {"nobody"}
<1>1. PICK a \in X, b \in Y : job[j] = <<a, b>>
  OBVIOUS
<1>2. x \in X
  OBVIOUS
<1> HIDE DEF X, Y
<1>3. job' = [job EXCEPT ![j] = <<x, b>>]
  <2>1. [<<a, b>> EXCEPT ![1] = x] = <<x, b>>
    OBVIOUS
  <2>2. job' = [job EXCEPT ![j] = [job[j] EXCEPT ![1] = x]]
    OBVIOUS
  <2> QED BY <1>1, <2>1, <2>2
<1>4. <<x, b>> \in X \X Y
  BY <1>1, <1>2
<1>5. job \in [Jobs -> X \X Y]
  BY DEF X, Y
<1>6. job' \in [Jobs -> X \X Y]
  BY <1>3, <1>4, <1>5
<1> QED BY <1>1, <1>3, <1>5, <1>6 DEF X, Y

\* A job tells its caller, if it does, that it has its result or has ended.
LEMMA JobTells ==
  ASSUME ReplyInv, NEW j \in Jobs, NEW c \in Callers, NEW x \in {"sent", "ended"}, job[j][2] = c,
         job[j][1] # "none", job' = [job EXCEPT ![j][1] = x],
         UNCHANGED <<at, count, log>>, alive' \in {alive, alive \ {c}},
         \/ x = "sent" /\ job[j][1] = "linked" /\ alive' = alive /\ mbox' = Push(c, <<"result", j>>)
         \/ x = "ended" /\ job[j][1] = "linked" /\ alive' = alive /\ mbox' = Push(c, <<"exit", j, "crash">>)
         \/ x = "ended" /\ job[j][1] = "sent" /\ alive' = alive /\ mbox' = Push(c, <<"exit", j, "normal">>)
         \/ x = "ended" /\ job[j][1] \in {"linked", "sent"} /\ c \notin alive' /\ mbox' = mbox
  PROVE  ReplyInv'
<1>1. /\ job \in [Jobs -> {"none", "spawned", "linked", "sent", "ended"} \X (Callers \cup {"nobody"})]
      /\ mbox \in [Callers \cup Services -> Seq(MailItems)] /\ alive \subseteq Callers \cup Services
      /\ CallersAreKnown /\ ReplyIsOwn /\ \A d \in Callers : ForCaller(d) /\ d # "nobody" /\ d \notin Services
      /\ \A i \in Jobs : job[i][1] # "none" => job[i][2] \in Callers /\ Uses[job[i][2]] \cap {"job", "map"} # {}
      /\ \A d \in Callers : at[d][1] = "await" => at[d][2] \in Jobs
  BY ReplyFacts
<1>2. /\ job' \in [Jobs -> {"none", "spawned", "linked", "sent", "ended"} \X (Callers \cup {"nobody"})]
      /\ job'[j][1] = x /\ job'[j][2] = c /\ \A i \in Jobs : i # j => job'[i] = job[i]
  BY <1>1, JobSet
<1>4. /\ mbox' \in [Callers \cup Services -> Seq(MailItems)]
      /\ \A q \in Callers \cup Services : q # c => mbox'[q] = mbox[q]
      /\ mbox[c] # <<>> => mbox'[c] # <<>> /\ mbox'[c][1] = mbox[c][1]
      /\ \/ c \notin alive' /\ mbox'[c] = mbox[c] /\ job[j][1] \in {"linked", "sent"}
         \/ /\ mbox'[c] # <<>>
            /\ mbox[c] = <<>> =>
                  \/ job[j][1] = "linked" /\ mbox'[c] = <<<<"result", j>>>>
                  \/ job[j][1] = "linked" /\ mbox'[c] = <<<<"exit", j, "crash">>>>
                  \/ job[j][1] = "sent"
  <2>1. ASSUME NEW m \in MailItems, mbox' = Push(c, m)
        PROVE  /\ mbox' \in [Callers \cup Services -> Seq(MailItems)]
               /\ \A q \in Callers \cup Services : q # c => mbox'[q] = mbox[q]
               /\ mbox[c] # <<>> => mbox'[c] # <<>> /\ mbox'[c][1] = mbox[c][1]
               /\ mbox'[c] # <<>> /\ (mbox[c] = <<>> => mbox'[c] = <<m>>)
    BY <1>1, <2>1, Pushed
  <2>2. CASE x = "sent" /\ job[j][1] = "linked" /\ mbox' = Push(c, <<"result", j>>)
    BY <2>1, <2>2, MailKinds
  <2>3. CASE job[j][1] = "linked" /\ mbox' = Push(c, <<"exit", j, "crash">>)
    BY <2>1, <2>3, MailKinds
  <2>4. CASE job[j][1] = "sent" /\ mbox' = Push(c, <<"exit", j, "normal">>)
    BY <2>1, <2>4, MailKinds
  <2>5. CASE job[j][1] \in {"linked", "sent"} /\ c \notin alive' /\ mbox' = mbox
    BY <1>1, <2>5
  <2> QED BY <2>2, <2>3, <2>4, <2>5
<1>5. x = "sent" => mbox'[c] # <<>>
  <2>1. mbox' = Push(c, <<"result", j>>) => mbox'[c] # <<>>
    BY <1>1, Pushed, MailKinds
  <2> QED BY <2>1
<1>6. \A s \in Services : mbox'[s] = mbox[s]
  BY <1>1, <1>4
<1>7. ReplyTypeOK'
  <2>1. alive' \subseteq Callers \cup Services
    BY <1>1
  <2> QED BY <1>2, <1>4, <2>1 DEF ReplyInv, ReplyTypeOK
<1>8. CallersAreKnown' /\ ReplyIsOwn'
  <2>1. \A i \in Jobs : \/ job'[i] = job[i]
                        \/ /\ job'[i][1] # "none" /\ job'[i][2] # "nobody"
                           /\ Uses[job'[i][2]] \cap {"job", "map"} # {}
    <3>1. \A i \in Jobs : i # j => job'[i] = job[i]
      BY <1>2
    <3>2. job'[j][1] # "none" /\ job'[j][2] # "nobody" /\ Uses[job'[j][2]] \cap {"job", "map"} # {}
      <4>1. job'[j][1] # "none"
        BY <1>2
      <4>2. c # "nobody" /\ Uses[c] \cap {"job", "map"} # {}
        BY <1>1
      <4> QED BY <1>2, <4>1, <4>2
    <3> QED BY <3>1, <3>2
  <2>2. CallersAreKnown'
    BY <1>1, <1>6, <2>1, KnownKept
  <2>3. ReplyIsOwn'
    BY <1>1 DEF ReplyIsOwn
  <2> QED BY <2>2, <2>3
<1>9. ASSUME NEW d \in Callers, d # c
      PROVE  ForCaller(d)'
  <2>1. \A i \in Jobs : job'[i] = job[i] \/ (job[i][2] # d /\ job'[i][2] # d)
    BY <1>2, <1>9
  <2>2. mbox'[d] = mbox[d] /\ at'[d] = at[d] /\ log'[d] = log[d] /\ alive' \subseteq alive
    BY <1>4, <1>9
  <2> QED BY <1>6, <2>1, <2>2, ServicesKept, CallerKept
<1>10. ForCaller(c)'
  <2>1. Uses[c] # {"call"}
    BY <1>1
  <2>2. Awaited(c)'
    <3> SUFFICES ASSUME at[c][1] = "await"
                 PROVE  /\ job'[at[c][2]][2] = c
                        /\ c \in alive' => mbox'[c] # <<>> \/ job'[at[c][2]][1] \notin {"sent", "ended"}
      BY DEF Awaited
    <3>1. Awaited(c) /\ at[c][2] \in Jobs
      BY <1>1 DEF ForCaller
    <3>2. job'[at[c][2]][2] = c
      BY <1>2, <3>1 DEF Awaited
    <3>3. ASSUME c \in alive' PROVE mbox'[c] # <<>>
      BY <1>4, <3>3
    <3> QED BY <3>2, <3>3
  <2>3. ASSUME Uses[c] = {"job"} PROVE FirstAwait(c)'
    <3>1. FirstAwait(c)
      BY <1>1, <2>3 DEF ForCaller
    <3>2. log[c] = <<>> => at[c][1] = "await" /\ at[c][2] = j
      BY <3>1 DEF FirstAwait
    <3>3. ASSUME log[c] = <<>>
          PROVE  /\ \A i \in Jobs : job'[i][2] = c => i = at[c][2]
                 /\ job'[at[c][2]][1] = "sent" => mbox'[c] # <<>>
                 /\ mbox'[c] # <<>> =>
                       mbox'[c][1] \in {<<"result", at[c][2]>>, <<"exit", at[c][2], "crash">>}
      <4>1. \A i \in Jobs : job'[i][2] = c => i = at[c][2]
        BY <1>2, <3>1, <3>2, <3>3 DEF FirstAwait
      <4>2. job'[at[c][2]][1] = "sent" => mbox'[c] # <<>>
        BY <1>2, <1>5, <3>2, <3>3
      <4>3. CASE mbox[c] # <<>>
        BY <1>4, <3>1, <3>2, <3>3, <4>1, <4>2, <4>3 DEF FirstAwait
      <4>4. CASE mbox[c] = <<>>
        <5>1. job[j][1] # "sent"
          BY <3>1, <3>2, <3>3, <4>4 DEF FirstAwait
        <5>2. mbox'[c] # <<>> => mbox'[c] = <<<<"result", j>>>> \/ mbox'[c] = <<<<"exit", j, "crash">>>>
          BY <1>4, <4>4, <5>1
        <5> QED BY <3>2, <3>3, <4>1, <4>2, <5>2
      <4> QED BY <4>3, <4>4
    <3> QED BY <1>2, <3>1, <3>2, <3>3 DEF FirstAwait
  <2> QED BY <2>1, <2>2, <2>3 DEF ForCaller
<1> QED BY <1>7, <1>8, <1>9, <1>10 DEF ReplyInv

LEMMA JobSendsStep ==
  ASSUME ReplyInv, NEW j \in Jobs, JobSends(j)
  PROVE  ReplyInv'
<1>1. PICK c \in Callers : job[j][2] = c /\ job[j][1] = "linked"
  BY ReplyFacts DEF JobSends
<1>2. job' = [job EXCEPT ![j][1] = "sent"] /\ mbox' = Push(c, <<"result", j>>) /\ UNCHANGED <<at, alive, count, log>>
  BY <1>1 DEF JobSends
<1> QED BY <1>1, <1>2, JobTells

LEMMA JobEndsStep ==
  ASSUME ReplyInv, NEW j \in Jobs, JobEnds(j)
  PROVE  ReplyInv'
<1>1. PICK c \in Callers : job[j][2] = c /\ job[j][1] = "sent"
  BY ReplyFacts DEF JobEnds
<1>2. job' = [job EXCEPT ![j][1] = "ended"] /\ UNCHANGED <<at, alive, count, log>>
      /\ mbox' = IF c \in alive THEN Push(c, <<"exit", j, "normal">>) ELSE mbox
  BY <1>1 DEF JobEnds
<1> QED BY <1>1, <1>2, JobTells

LEMMA JobCrashesStep ==
  ASSUME ReplyInv, NEW j \in Jobs, JobCrashes(j)
  PROVE  ReplyInv'
<1>1. PICK c \in Callers : job[j][2] = c /\ job[j][1] = "linked"
  BY ReplyFacts DEF JobCrashes
<1>2. /\ job' = [job EXCEPT ![j][1] = "ended"] /\ UNCHANGED <<at, count, log>>
      /\ mbox' = IF c \in alive \cap Traps THEN Push(c, <<"exit", j, "crash">>) ELSE mbox
      /\ alive' = IF c \in Traps THEN alive ELSE alive \ {c}
  BY <1>1 DEF JobCrashes
<1> QED BY <1>1, <1>2, JobTells

\* An operation of c returns: no other caller is concerned.
LEMMA OthersKept ==
  ASSUME ReplyInv, NEW c \in Callers, UNCHANGED <<alive, job>>,
         \A d \in Callers : d # c => at'[d] = at[d] /\ mbox'[d] = mbox[d] /\ log'[d] = log[d],
         \A s \in Services : mbox'[s] = mbox[s]
  PROVE  /\ CallersAreKnown' /\ \A d \in Callers : d # c => ForCaller(d)'
<1>1. CallersAreKnown
  BY ReplyFacts
<1>2. CallersAreKnown'
  BY <1>1, KnownKept
<1>3. ASSUME NEW d \in Callers, d # c PROVE ForCaller(d)'
  BY <1>3, ServicesKept, CallerKept
<1> QED BY <1>2, <1>3

LEMMA LogGrows ==
  ASSUME log \in [Callers -> Seq(Answers)], NEW c \in Callers, NEW row \in Answers,
         log' = [log EXCEPT ![c] = Append(@, row)]
  PROVE  /\ log' \in [Callers -> Seq(Answers)]
         /\ \A d \in Callers : d # c => log'[d] = log[d]
         /\ Len(log[c]) \in Nat /\ Len(log'[c]) = Len(log[c]) + 1
         /\ log'[c] # <<>> /\ log'[c][Len(log[c]) + 1] = row
         /\ \A k \in 1..Len(log[c]) : log'[c][k] = log[c][k]
         /\ IF log[c] = <<>> THEN log'[c][1] = row ELSE log'[c][1] = log[c][1]
<1> DEFINE b == log[c] n == Append(b, row)
<1>1. b \in Seq(Answers)
  OBVIOUS
<1>2. log' \in [Callers -> Seq(Answers)] /\ log'[c] = n /\ \A d \in Callers : d # c => log'[d] = log[d]
  <2>1. n \in Seq(Answers)
    BY <1>1, AppendProperties
  <2> QED BY <2>1
<1> HIDE DEF b
<1>3. /\ Len(b) \in Nat /\ Len(n) = Len(b) + 1 /\ n # <<>> /\ n[Len(b) + 1] = row
      /\ \A k \in 1..Len(b) : n[k] = b[k]
  BY <1>1, AppendProperties, LenProperties
<1> HIDE DEF n
<1>4. IF b = <<>> THEN n[1] = row ELSE n[1] = b[1]
  <2>1. b # <<>> => 1 \in 1..Len(b)
    BY <1>1, EmptySeq, LenProperties
  <2>2. b = <<>> => Len(b) + 1 = 1
    BY <1>1, EmptySeq
  <2> QED BY <1>3, <2>1, <2>2
<1> QED BY <1>2, <1>3, <1>4 DEF b

LEMMA TakeStep ==
  ASSUME ReplyInv, NEW c \in Callers, Take(c)
  PROVE  ReplyInv'
<1> DEFINE m == Head(mbox[c])
           done == at[c][1] # "map" \/ Len(at[c][3]) + 1 = MapSize
           answer == IF at[c][1] = "map" THEN Append(at[c][3], m) ELSE m
           row == <<at[c][1], at[c][2], answer>>
           place == IF done THEN <<"idle">> ELSE <<"map", at[c][2], answer>>
<1>1. /\ at \in [Callers -> Places] /\ mbox \in [Callers \cup Services -> Seq(MailItems)]
      /\ log \in [Callers -> Seq(Answers)]
      /\ ReplyIsOwn /\ ForCaller(c) /\ \A d \in Callers : d \notin Services
      /\ at[c][1] \in {"idle", "call", "await", "map"}
      /\ at[c][1] = "call" => at[c][2] \in Nat
      /\ at[c][1] \in {"await", "map"} => at[c][2] \in Jobs
      /\ at[c][1] = "map" => at[c][3] \in Seq(MailItems)
  BY ReplyFacts
<1>2. /\ at[c][1] # "idle" /\ mbox[c] # <<>>
      /\ mbox' = [mbox EXCEPT ![c] = Tail(@)] /\ at' = [at EXCEPT ![c] = place]
      /\ log' = IF done THEN [log EXCEPT ![c] = Append(@, row)] ELSE log
      /\ UNCHANGED <<alive, job, count>>
  BY DEF Take
<1>3. /\ m \in MailItems /\ m = mbox[c][1] /\ Tail(mbox[c]) \in Seq(MailItems)
      /\ Len(Tail(mbox[c])) = Len(mbox[c]) - 1
  <2>1. mbox[c] \in Seq(MailItems)
    BY <1>1
  <2> QED BY <1>2, <2>1, Popped
<1> HIDE DEF m, done
<1>4. /\ answer \in MailItems \cup Seq(MailItems) /\ (~done => at[c][1] = "map" /\ answer \in Seq(MailItems))
      /\ at[c][1] # "map" => answer = m /\ done
  <2>1. at[c][1] = "map" => answer \in Seq(MailItems)
    BY <1>1, <1>3, AppendProperties
  <2>2. ~done => at[c][1] = "map"
    BY DEF done
  <2> QED BY <1>3, <2>1, <2>2
<1> HIDE DEF answer
<1>5. place \in Places /\ place[1] \in {"idle", "map"} /\ (done => place[1] = "idle")
  <2>1. CASE done
    BY <2>1, PlaceKinds
  <2>2. CASE ~done
    <3>1. /\ at[c][2] \in Jobs /\ answer \in Seq(MailItems)
      BY <1>1, <1>4, <2>2
    <3>2. place = <<"map", at[c][2], answer>>
      BY <2>2
    <3>3. place \in Places
      BY <3>1, <3>2, PlaceKinds
    <3>4. place[1] = "map"
      BY <3>2
    <3> QED BY <2>2, <3>3, <3>4
  <2> QED BY <2>1, <2>2
<1>6. row \in Answers /\ row[1] = at[c][1] /\ row[2] = at[c][2] /\ row[3] = answer
  <2>1. at[c][2] \in Nat
    BY <1>1, <1>2 DEF Jobs
  <2>2. at[c][1] \in {"call", "await", "map"}
    BY <1>1, <1>2
  <2>3. answer \in MailItems \cup {<<"timeout">>} \cup Seq(MailItems)
    BY <1>4
  <2>4. row \in Answers
    BY <2>1, <2>2, <2>3 DEF Answers
  <2> QED BY <2>4
<1> HIDE DEF place, row
<1>7. /\ at' \in [Callers -> Places] /\ at'[c] = place
      /\ \A d \in Callers : d # c => at'[d] = at[d]
  BY <1>1, <1>2, <1>5
<1>8. /\ mbox' \in [Callers \cup Services -> Seq(MailItems)] /\ mbox'[c] = Tail(mbox[c])
      /\ \A q \in Callers \cup Services : q # c => mbox'[q] = mbox[q]
  BY <1>1, <1>2, <1>3
<1>9. /\ log' \in [Callers -> Seq(Answers)]
      /\ \A d \in Callers : d # c => log'[d] = log[d]
      /\ ~done => log'[c] = log[c]
      /\ done => /\ Len(log[c]) \in Nat /\ Len(log'[c]) = Len(log[c]) + 1
                 /\ log'[c] # <<>> /\ log'[c][Len(log[c]) + 1] = row
                 /\ \A k \in 1..Len(log[c]) : log'[c][k] = log[c][k]
                 /\ IF log[c] = <<>> THEN log'[c][1] = row ELSE log'[c][1] = log[c][1]
  BY <1>1, <1>2, <1>6, LogGrows
<1>10. ReplyTypeOK'
  BY <1>2, <1>7, <1>8, <1>9 DEF ReplyInv, ReplyTypeOK
<1>11. CallersAreKnown' /\ \A d \in Callers : d # c => ForCaller(d)'
  <2>1. \A s \in Services : mbox'[s] = mbox[s]
    BY <1>1, <1>8
  <2>2. \A d \in Callers : d # c => mbox'[d] = mbox[d]
    BY <1>8
  <2> QED BY <1>2, <1>7, <1>9, <2>1, <2>2, OthersKept
<1>12. ASSUME Uses[c] = {"call"}
       PROVE  Own(c)' /\ done /\ row[3] = <<"reply", c, row[2]>>
  <2>1. Own(c)
    BY <1>1, <1>12 DEF ForCaller
  <2>2. at[c][1] = "call" /\ mbox[c] = <<<<"reply", c, at[c][2]>>>> /\ NoCall(c)
    BY <1>2, <2>1 DEF Own
  <2>3. done /\ row[3] = <<"reply", c, row[2]>>
    BY <1>3, <1>4, <1>6, <2>2
  <2>4. at'[c][1] = "idle"
    BY <1>5, <1>7, <2>3
  <2>5. mbox'[c] = <<>>
    BY <1>8, <2>2
  <2>6. NoCall(c)'
    <3>1. \A s \in Services : mbox'[s] = mbox[s]
      BY <1>1, <1>8
    <3> QED BY <2>2, <3>1 DEF NoCall
  <2> QED BY <2>3, <2>4, <2>5, <2>6 DEF Own
<1>13. ASSUME Uses[c] = {"job"} PROVE FirstAwait(c)'
  <2>1. FirstAwait(c)
    BY <1>1, <1>13 DEF ForCaller
  <2>2. at[c][1] = "await" /\ done
    BY <1>2, <1>4, <2>1 DEF FirstAwait
  <2>3. at'[c][1] = "idle" /\ log'[c] # <<>>
    BY <1>5, <1>7, <1>9, <2>2
  <2>4. log'[c][1][3] \in {<<"result", log'[c][1][2]>>, <<"exit", log'[c][1][2], "crash">>, <<"timeout">>}
    <3>1. CASE log[c] = <<>>
      <4>1. m \in {<<"result", at[c][2]>>, <<"exit", at[c][2], "crash">>}
        BY <1>2, <1>3, <2>1, <2>2, <3>1 DEF FirstAwait
      <4> QED BY <1>4, <1>6, <1>9, <2>2, <3>1, <4>1
    <3>2. CASE log[c] # <<>>
      BY <1>9, <2>1, <2>2, <3>2 DEF FirstAwait
    <3> QED BY <3>1, <3>2
  <2> QED BY <2>3, <2>4 DEF FirstAwait
<1>14. ForCaller(c)'
  <2>1. Awaited(c)'
    BY <1>5, <1>7 DEF Awaited
  <2> QED BY <1>12, <1>13, <2>1 DEF ForCaller
<1>15. ReplyIsOwn'
  <2> SUFFICES ASSUME NEW d \in Callers, Uses[d] = {"call"}, NEW k \in 1..Len(log'[d])
               PROVE  log'[d][k][3] = <<"reply", d, log'[d][k][2]>>
    BY DEF ReplyIsOwn
  <2>1. \A i \in 1..Len(log[d]) : log[d][i][3] = <<"reply", d, log[d][i][2]>>
    BY <1>1 DEF ReplyIsOwn
  <2>2. CASE d # c
    BY <1>9, <2>1, <2>2
  <2>3. CASE d = c
    <3>1. done /\ row[3] = <<"reply", c, row[2]>>
      BY <1>12, <2>3
    <3>2. CASE k \in 1..Len(log[c])
      BY <1>9, <2>1, <2>3, <3>1, <3>2
    <3>3. CASE k = Len(log[c]) + 1
      BY <1>9, <2>3, <3>1, <3>3
    <3>4. k \in 1..Len(log[c]) \/ k = Len(log[c]) + 1
      BY <1>9, <2>3, <3>1
    <3> QED BY <3>2, <3>3, <3>4
  <2> QED BY <2>2, <2>3
<1> QED BY <1>10, <1>11, <1>14, <1>15 DEF ReplyInv

LEMMA AwaitTimeoutStep ==
  ASSUME ReplyInv, NEW c \in Callers, AwaitTimeout(c)
  PROVE  ReplyInv'
<1> DEFINE row == <<"await", at[c][2], <<"timeout">>>>
<1>1. /\ at \in [Callers -> Places] /\ log \in [Callers -> Seq(Answers)] /\ ReplyIsOwn /\ ForCaller(c)
      /\ at[c][1] \in {"await", "map"} => at[c][2] \in Jobs
  BY ReplyFacts
<1>2. /\ at[c][1] = "await" /\ at' = [at EXCEPT ![c] = <<"idle">>]
      /\ log' = [log EXCEPT ![c] = Append(@, row)] /\ UNCHANGED <<mbox, alive, job, count>>
  BY DEF AwaitTimeout
<1>3. row \in Answers /\ row[3] = <<"timeout">>
  <2>1. at[c][2] \in Nat
    BY <1>1, <1>2 DEF Jobs
  <2> QED BY <2>1 DEF Answers
<1> HIDE DEF row
<1>4. /\ at' \in [Callers -> Places] /\ at'[c][1] = "idle" /\ \A d \in Callers : d # c => at'[d] = at[d]
  <2>1. <<"idle">> \in Places
    BY PlaceKinds
  <2> QED BY <1>1, <1>2, <2>1
<1>5. /\ log' \in [Callers -> Seq(Answers)]
      /\ \A d \in Callers : d # c => log'[d] = log[d]
      /\ log'[c] # <<>> /\ IF log[c] = <<>> THEN log'[c][1] = row ELSE log'[c][1] = log[c][1]
  BY <1>1, <1>2, <1>3, LogGrows
<1>6. ReplyTypeOK'
  BY <1>2, <1>4, <1>5 DEF ReplyInv, ReplyTypeOK
<1>7. CallersAreKnown' /\ \A d \in Callers : d # c => ForCaller(d)'
  BY <1>2, <1>4, <1>5, OthersKept
<1>8. Uses[c] # {"call"}
  BY <1>1, <1>2 DEF ForCaller, Own
<1>9. ReplyIsOwn'
  <2>1. \A d \in Callers : Uses[d] = {"call"} => log'[d] = log[d]
    BY <1>5, <1>8
  <2> QED BY ZenonT(30), <1>1, <2>1 DEF ReplyIsOwn
<1>10. ForCaller(c)'
  <2>1. ASSUME Uses[c] = {"job"} PROVE FirstAwait(c)'
    <3>1. FirstAwait(c)
      BY <1>1, <2>1 DEF ForCaller
    <3> QED BY <1>3, <1>4, <1>5, <3>1 DEF FirstAwait
  <2> QED BY <1>4, <1>8, <2>1 DEF ForCaller, Awaited
<1> QED BY <1>6, <1>7, <1>9, <1>10 DEF ReplyInv

LEMMA ReplyInvSafe == ReplyInv => RepliesMatch
<1> SUFFICES ASSUME ReplyInv PROVE RepliesMatch
  OBVIOUS
<1>1. ReplyTypeOK /\ ReplyIsOwn /\ \A c \in Callers : ForCaller(c)
  BY DEF ReplyInv
<1>2. FirstAwaitIsTrue
  BY <1>1 DEF FirstAwaitIsTrue, ForCaller, FirstAwait
<1>3. EndedJobIsHeard
  BY <1>1 DEF EndedJobIsHeard, ForCaller, Awaited
<1> QED BY <1>1, <1>2, <1>3 DEF RepliesMatch

\* mesh_service_call, mesh_job_async, mesh_job_await, job_entry: a process
\* that only calls services gets the reply to the call it made, the first
\* await of a process that only starts jobs returns what became of its job,
\* and nobody awaits a job that has ended for nothing.
THEOREM RepliesMatchCalls == ReplySpec => []RepliesMatch
<1>1. ReplyInit => ReplyInv
  BY ReplyInitInv
<1>2. ReplyInv /\ [ReplyNext]_replyVars => ReplyInv'
  <2> SUFFICES ASSUME ReplyInv, [ReplyNext]_replyVars PROVE ReplyInv'
    OBVIOUS
  <2>1. CASE ReplyNext
    BY <2>1, ServiceCallStep, ServeStep, ServiceEndsStep, JobAsyncStep, JobMapStep, JobLinksStep,
       JobSendsStep, JobEndsStep, JobCrashesStep, TakeStep, AwaitTimeoutStep DEF ReplyNext
  <2>2. CASE UNCHANGED replyVars
    <3>1. at' = at /\ mbox' = mbox /\ alive' = alive /\ job' = job /\ count' = count /\ log' = log
      BY <2>2 DEF replyVars
    <3>2. \A c \in Callers : ForCaller(c)'
      BY <3>1, ServicesKept, CallerKept
    <3> QED BY <3>1, <3>2 DEF ReplyInv, ReplyTypeOK, CallersAreKnown, ReplyIsOwn
  <2> QED BY <2>1, <2>2
<1>3. ReplyInv => RepliesMatch
  BY ReplyInvSafe
<1> QED BY <1>1, <1>2, <1>3, PTL DEF ReplySpec
-----------------------------------------------------------------------------
(* WebSocket connections (ws/server.rs).                                   *)

\* The reader runs while the actor does, and the flag is only for the reader.
StagesAgree ==
    /\ actor = "new" => reader = "none" /\ box = <<>> /\ closes = <<>> /\ told = <<>> /\ ~stopped
    /\ actor = "open" => ~stopped /\ reader # "none"

\* What is being assembled began with a frame that may begin a message.
FragBegins == frag # <<>> => sent[frag[1]].op \in {"text", "binary"}

NotClosedYet == actor # "freed" => \A t \in Range(told) : t[1] # "close"

\* A ping that is pending has no pong among what was read.
HeartbeatInv ==
    /\ pending # 0 => Pong(pings) \notin Range(sent)
    /\ 1001 \in Range(closes) => reader = "done" /\ Pong(pings) \notin Range(sent)

EndIsTold == reader = "done" /\ actor = "open" => <<"disconnect">> \in Range(box)

WsInv ==
    WsTypeOK /\ StagesAgree /\ FragBegins /\ NotClosedYet /\ HeartbeatInv /\ EndIsTold /\ CloseEndsIt

LEMMA SeqWider ==
  ASSUME NEW S, NEW T, NEW s \in Seq(S), \A k \in 1..Len(s) : s[k] \in T
  PROVE  s \in Seq(T)
<1>1. Len(s) \in Nat /\ DOMAIN s = 1..Len(s) /\ s \in [1..Len(s) -> S]
  BY LenProperties
<1>2. s \in [1..Len(s) -> T]
  BY <1>1
<1> QED BY <1>1, <1>2, SeqDef

LEMMA FrameKinds ==
  ASSUME pings \in Nat
  PROVE  \A f \in Frames : /\ f.op \in {"text", "binary", "cont", "ping", "close", "pong"}
                           /\ f.op = "pong" => f.of \in 1..pings /\ f = Pong(f.of)
                           /\ \A n : f = Pong(n) => f.op = "pong" /\ f.of = n
<1> SUFFICES ASSUME NEW f \in Frames
             PROVE  /\ f.op \in {"text", "binary", "cont", "ping", "close", "pong"}
                    /\ f.op = "pong" => f.of \in 1..pings /\ f = Pong(f.of)
                    /\ \A n : f = Pong(n) => f.op = "pong" /\ f.of = n
  OBVIOUS
<1>1. \A n : f = Pong(n) => f.op = "pong" /\ f.of = n
  BY DEF Pong
<1>2. CASE f \in Data
  BY <1>1, <1>2 DEF Data
<1>3. CASE f \in Garbled
  BY <1>1, <1>3 DEF Garbled
<1>4. CASE f = Ping \/ f = Close
  BY <1>1, <1>4 DEF Ping, Close
<1>5. CASE \E n \in 1..pings : f = Pong(n)
  BY <1>1, <1>5
<1> QED BY <1>2, <1>3, <1>4, <1>5 DEF Frames

LEMMA LetterKinds ==
  /\ \A m \in Letters : /\ m[1] \in {"text", "binary", "disconnect", "exit"}
                        /\ m[1] \in {"text", "binary"} => m[2] \in Seq(Nat)
                        /\ m[1] = "disconnect" <=> m = <<"disconnect">>
  /\ <<"disconnect">> \in Letters /\ <<"exit">> \in Letters
  /\ \A op \in {"text", "binary"}, s \in Seq(Nat) : <<op, s>> \in Letters
<1>1. ASSUME NEW m \in Letters
      PROVE  /\ m[1] \in {"text", "binary", "disconnect", "exit"}
             /\ m[1] \in {"text", "binary"} => m[2] \in Seq(Nat)
             /\ m[1] = "disconnect" <=> m = <<"disconnect">>
  <2>1. CASE m \in {"text", "binary"} \X Seq(Nat)
    BY <2>1
  <2>2. CASE m = <<"disconnect">> \/ m = <<"exit">>
    BY <2>2
  <2> QED BY <2>1, <2>2 DEF Letters
<1>2. /\ <<"disconnect">> \in Letters /\ <<"exit">> \in Letters
      /\ \A op \in {"text", "binary"}, s \in Seq(Nat) : <<op, s>> \in Letters
  BY DEF Letters
<1> QED BY <1>1, <1>2

LEMMA CallbackKinds ==
  /\ <<"connect">> \in Callbacks
  /\ \A s \in Seq(Nat) : <<"message", s>> \in Callbacks
  /\ \A n \in Nat : <<"close", n>> \in Callbacks
BY DEF Callbacks

LEMMA WsFacts ==
  ASSUME WsInv
  PROVE  /\ sent \in Seq(Frames) /\ Len(sent) \in Nat /\ Len(sent) <= MaxFrames
         /\ reader \in {"none", "top", "read", "done"} /\ pings \in 0..MaxPings /\ pings \in Nat
         /\ pending \in {0, pings} /\ frag \in Seq(1..Len(sent)) /\ Len(frag) <= Limit
         /\ actor \in {"new", "open", "crashed", "leaving", "freed"} /\ stopped \in BOOLEAN
         /\ box \in Seq(Letters) /\ told \in Seq(Callbacks) /\ closes \in Seq(Nat)
         /\ StagesAgree /\ FragBegins /\ NotClosedYet /\ HeartbeatInv /\ EndIsTold /\ CloseEndsIt
<1>1. WsTypeOK /\ StagesAgree /\ FragBegins /\ NotClosedYet /\ HeartbeatInv /\ EndIsTold /\ CloseEndsIt
  BY DEF WsInv
<1>2. pings \in Nat
  BY <1>1, WsAssumption DEF WsTypeOK
<1> QED BY <1>1, <1>2, LenProperties DEF WsTypeOK

LEMMA WsInitInv == WsInit => WsInv
<1> SUFFICES ASSUME WsInit PROVE WsInv
  OBVIOUS
<1>1. /\ sent = <<>> /\ reader = "none" /\ frag = <<>> /\ pings = 0 /\ pending = 0
      /\ actor = "new" /\ box = <<>> /\ stopped = FALSE /\ told = <<>> /\ closes = <<>>
  BY DEF WsInit
<1>2. Len(<<>>) = 0 /\ Range(<<>>) = {} /\ DOMAIN <<>> = {}
  BY EmptySeq, LenProperties DEF Range
<1>3. WsTypeOK
  <2>1. /\ <<>> \in Seq(Frames) /\ <<>> \in Seq(Letters) /\ <<>> \in Seq(Callbacks) /\ <<>> \in Seq(Nat)
        /\ <<>> \in Seq(1..Len(<<>>))
    OBVIOUS
  <2>2. 0 \in 0..MaxPings /\ 0 <= MaxFrames /\ 0 <= Limit
    BY WsAssumption
  <2>3. sent \in Seq(Frames) /\ box \in Seq(Letters) /\ told \in Seq(Callbacks) /\ closes \in Seq(Nat)
    BY <1>1, <2>1
  <2>4. frag \in Seq(1..Len(sent)) /\ Len(frag) <= Limit /\ Len(sent) <= MaxFrames
    BY <1>1, <1>2, <2>1, <2>2
  <2> QED BY <1>1, <2>2, <2>3, <2>4 DEF WsTypeOK
<1>4. HeartbeatInv /\ NotClosedYet /\ EndIsTold /\ CloseEndsIt
  BY <1>1, <1>2 DEF HeartbeatInv, NotClosedYet, EndIsTold, CloseEndsIt
<1> QED BY <1>1, <1>3, <1>4 DEF WsInv, StagesAgree, FragBegins

LEMMA AcceptStep == ASSUME WsInv, Accept \/ Reject PROVE WsInv'
<1>1. /\ sent \in Seq(Frames) /\ Len(sent) <= MaxFrames
      /\ pings \in 0..MaxPings /\ pending \in {0, pings} /\ frag \in Seq(1..Len(sent)) /\ Len(frag) <= Limit
      /\ box \in Seq(Letters) /\ stopped \in BOOLEAN /\ closes \in Seq(Nat) /\ StagesAgree /\ FragBegins /\ HeartbeatInv
  BY WsFacts
<1>2. /\ actor = "new" /\ told' = <<<<"connect">>>>
      /\ UNCHANGED <<sent, frag, pings, pending, box>>
      /\ \/ actor' = "open" /\ reader' = "top" /\ closes' = closes /\ stopped' = stopped
         \/ actor' = "freed" /\ reader' = reader /\ closes' = <<1008>> /\ stopped' = TRUE
  BY DEF Accept, Reject, readerVars
<1>3. reader = "none" /\ box = <<>> /\ closes = <<>> /\ ~stopped
  BY <1>1, <1>2 DEF StagesAgree
<1>4. /\ told' \in Seq(Callbacks) /\ Len(told') = 1 /\ told'[1] = <<"connect">> /\ DOMAIN told' = {1}
      /\ Range(told') = {<<"connect">>}
  <2>1. told' \in Seq(Callbacks) /\ Len(told') = 1 /\ told'[1] = <<"connect">>
    BY <1>2, CallbackKinds
  <2>2. DOMAIN told' = {1}
    BY <2>1, LenProperties
  <2> QED BY <2>1, <2>2 DEF Range
<1>5. closes' \in Seq(Nat) /\ 1001 \notin Range(closes')
  <2>1. Range(<<>>) = {} /\ <<>> \in Seq(Nat) /\ <<1008>> \in Seq(Nat) /\ Range(<<1008>>) = {1008}
    <3>1. Range(<<>>) = {} /\ <<>> \in Seq(Nat)
      BY EmptySeq, LenProperties DEF Range
    <3>2. <<1008>> \in Seq(Nat) /\ Len(<<1008>>) = 1 /\ <<1008>>[1] = 1008
      OBVIOUS
    <3>3. DOMAIN <<1008>> = {1}
      BY <3>2, LenProperties
    <3> QED BY <3>1, <3>2, <3>3 DEF Range
  <2>2. CASE closes' = closes
    BY <1>3, <2>1, <2>2
  <2>3. CASE closes' = <<1008>>
    BY <2>1, <2>3
  <2> QED BY <1>2, <2>2, <2>3
<1>6. Frames' = Frames
  BY <1>2 DEF Frames
<1>7. WsTypeOK'
  BY ZenonT(30), <1>1, <1>2, <1>3, <1>4, <1>5, <1>6 DEF WsTypeOK
<1>8. StagesAgree' /\ FragBegins' /\ EndIsTold'
  BY <1>1, <1>2, <1>3 DEF StagesAgree, FragBegins, EndIsTold
<1>9. NotClosedYet' /\ HeartbeatInv'
  BY <1>1, <1>2, <1>4, <1>5 DEF NotClosedYet, HeartbeatInv
<1>10. CloseEndsIt'
  BY <1>2, <1>3, <1>4 DEF CloseEndsIt
<1> QED BY <1>7, <1>8, <1>9, <1>10 DEF WsInv

\* A message is added to the mailbox of the actor.
LEMMA BoxGrows ==
  ASSUME box \in Seq(Letters), NEW m \in Letters, box' = Append(box, m)
  PROVE  box' \in Seq(Letters) /\ Range(box') = Range(box) \cup {m}
BY RangeAppend

\* What the reader does leaves the actor alone.
LEMMA ActorKept ==
  ASSUME WsInv, UNCHANGED actorVars, reader \in {"top", "read"}, reader' # "none"
  PROVE  /\ UNCHANGED <<actor, told, stopped>> /\ StagesAgree' /\ NotClosedYet' /\ CloseEndsIt'
<1>1. UNCHANGED <<actor, told, stopped>>
  BY DEF actorVars
<1>2. StagesAgree /\ NotClosedYet /\ CloseEndsIt
  BY WsFacts
<1>3. actor # "new"
  BY <1>2 DEF StagesAgree
<1> QED BY <1>1, <1>2, <1>3 DEF StagesAgree, NotClosedYet, CloseEndsIt

LEMMA ReaderTopStep ==
  ASSUME WsInv, ReaderStops \/ PongOverdue \/ SendPing \/ NothingDue
  PROVE  WsInv'
<1>1. /\ sent \in Seq(Frames) /\ Len(sent) \in Nat /\ Len(sent) <= MaxFrames
      /\ pings \in 0..MaxPings /\ pings \in Nat /\ pending \in {0, pings}
      /\ frag \in Seq(1..Len(sent)) /\ Len(frag) <= Limit
      /\ actor \in {"new", "open", "crashed", "leaving", "freed"} /\ stopped \in BOOLEAN
      /\ box \in Seq(Letters) /\ told \in Seq(Callbacks) /\ closes \in Seq(Nat)
      /\ StagesAgree /\ FragBegins /\ HeartbeatInv
  BY WsFacts
<1>2. reader = "top" /\ reader' \in {"read", "done"} /\ UNCHANGED <<sent, frag>> /\ UNCHANGED actorVars
  BY DEF ReaderStops, PongOverdue, SendPing, NothingDue, EndWith
<1>3. /\ UNCHANGED <<actor, told, stopped>> /\ StagesAgree' /\ NotClosedYet' /\ CloseEndsIt'
  BY <1>2, ActorKept
<1>4. 1001 \notin Range(closes)
  BY <1>1, <1>2 DEF HeartbeatInv
<1>5. FragBegins'
  BY <1>1, <1>2 DEF FragBegins
<1>6. CASE ReaderStops \/ NothingDue
  <2>1. /\ UNCHANGED <<pings, pending, box, closes>> /\ (reader' = "done" => stopped)
    BY <1>6 DEF ReaderStops, NothingDue
  <2>2. WsTypeOK'
    <3>1. Frames' = Frames
      BY <2>1 DEF Frames
    <3> QED BY <1>1, <1>2, <1>3, <2>1, <3>1 DEF WsTypeOK
  <2>3. HeartbeatInv' /\ EndIsTold'
    BY <1>1, <1>2, <1>3, <1>4, <2>1 DEF HeartbeatInv, EndIsTold, StagesAgree
  <2> QED BY <1>3, <1>5, <2>2, <2>3 DEF WsInv
<1>7. CASE PongOverdue
  <2>1. /\ pending # 0 /\ reader' = "done" /\ closes' = Append(closes, 1001)
        /\ box' = Append(box, <<"disconnect">>) /\ UNCHANGED <<pings, pending>>
    BY <1>7 DEF PongOverdue, EndWith, push_disconnect
  <2>2. box' \in Seq(Letters) /\ Range(box') = Range(box) \cup {<<"disconnect">>}
    BY <1>1, <2>1, LetterKinds, BoxGrows
  <2>3. closes' \in Seq(Nat)
    BY <1>1, <2>1, AppendProperties
  <2>4. WsTypeOK'
    <3>1. Frames' = Frames
      BY <2>1 DEF Frames
    <3> QED BY <1>1, <1>2, <1>3, <2>1, <2>2, <2>3, <3>1 DEF WsTypeOK
  <2>5. HeartbeatInv' /\ EndIsTold'
    BY <1>1, <1>2, <2>1, <2>2 DEF HeartbeatInv, EndIsTold
  <2> QED BY <1>3, <1>5, <2>4, <2>5 DEF WsInv
<1>8. CASE SendPing
  <2>1. /\ pings < MaxPings /\ pings' = pings + 1 /\ pending' = pings + 1 /\ reader' = "read"
        /\ UNCHANGED <<box, closes>>
    BY <1>8 DEF SendPing
  <2>2. pings' \in 0..MaxPings /\ pending' \in {0, pings'}
    BY <1>1, <2>1, WsAssumption
  <2>3. \A k \in 1..Len(sent) : sent[k] \in Frames' /\ sent[k] # Pong(pings')
    <3> SUFFICES ASSUME NEW k \in 1..Len(sent) PROVE sent[k] \in Frames' /\ sent[k] # Pong(pings')
      OBVIOUS
    <3>1. sent[k] \in Frames
      BY <1>1, ElementOfSeq
    <3>2. sent[k].op = "pong" => sent[k].of \in 1..pings
      BY <1>1, <3>1, FrameKinds
    <3>3. sent[k] # Pong(pings')
      BY <1>1, <2>1, <3>2 DEF Pong
    <3>4. 1..pings \subseteq 1..pings'
      BY <1>1, <2>1
    <3>5. sent[k] \in Frames'
      BY <3>1, <3>4 DEF Frames
    <3> QED BY <3>3, <3>5
  <2>4. sent' \in Seq(Frames')
    BY <1>1, <1>2, <2>3, SeqWider
  <2>5. Pong(pings') \notin Range(sent')
    BY <1>1, <1>2, <2>3, LenProperties DEF Range
  <2>6. WsTypeOK'
    BY <1>1, <1>2, <1>3, <2>1, <2>2, <2>4 DEF WsTypeOK
  <2>7. HeartbeatInv' /\ EndIsTold'
    BY <1>4, <2>1, <2>5 DEF HeartbeatInv, EndIsTold
  <2> QED BY <1>3, <1>5, <2>6, <2>7 DEF WsInv
<1> QED BY <1>6, <1>7, <1>8

\* A frame is read.
LEMMA Taken ==
  ASSUME WsInv, NEW f \in Frames, Takes(f), UNCHANGED pings
  PROVE  /\ reader = "read" /\ sent' \in Seq(Frames') /\ Len(sent') = Len(sent) + 1 /\ Len(sent') <= MaxFrames
         /\ sent'[Len(sent')] = f /\ \A k \in 1..Len(sent) : sent'[k] = sent[k]
         /\ Range(sent') = Range(sent) \cup {f}
         /\ frag \in Seq(1..Len(sent'))
         /\ frag # <<>> => sent'[frag[1]].op \in {"text", "binary"}
<1>1. /\ sent \in Seq(Frames) /\ Len(sent) \in Nat /\ frag \in Seq(1..Len(sent)) /\ FragBegins
  BY WsFacts
<1>2. reader = "read" /\ Len(sent) < MaxFrames /\ sent' = Append(sent, f)
  BY DEF Takes
<1>3. /\ sent' \in Seq(Frames) /\ Len(sent') = Len(sent) + 1
      /\ \A k \in 1..Len(sent) : sent'[k] = sent[k]
      /\ sent'[Len(sent) + 1] = f
  BY <1>1, <1>2, AppendProperties
<1>4. Range(sent') = Range(sent) \cup {f}
  BY <1>1, <1>2, RangeAppend
<1>5. Frames' = Frames
  BY DEF Frames
<1>6. Len(sent') <= MaxFrames
  BY <1>1, <1>2, <1>3, WsAssumption
<1>7. frag \in Seq(1..Len(sent'))
  <2>1. \A k \in 1..Len(frag) : frag[k] \in 1..Len(sent)
    BY <1>1, ElementOfSeq
  <2>2. 1..Len(sent) \subseteq 1..Len(sent')
    BY <1>1, <1>3
  <2>3. \A k \in 1..Len(frag) : frag[k] \in 1..Len(sent')
    BY <2>1, <2>2
  <2> QED BY <1>1, <2>3, SeqWider
<1>8. ASSUME frag # <<>> PROVE sent'[frag[1]].op \in {"text", "binary"}
  <2>1. 1 \in 1..Len(frag)
    BY <1>1, <1>8, EmptySeq, LenProperties
  <2>2. frag[1] \in 1..Len(sent)
    BY <1>1, <2>1, ElementOfSeq
  <2>3. sent'[frag[1]] = sent[frag[1]]
    BY <1>3, <2>2
  <2>4. sent[frag[1]].op \in {"text", "binary"}
    BY <1>1, <1>8 DEF FragBegins
  <2> QED BY <2>3, <2>4
<1> QED BY <1>2, <1>3, <1>4, <1>5, <1>6, <1>7, <1>8

\* What every step that reads a frame has to say of the rest of the state.
LEMMA ReadingKeeps ==
  ASSUME WsInv, NEW f \in Frames, Takes(f), UNCHANGED pings, UNCHANGED actorVars,
         reader' \in {"top", "done"},
         box' = box \/ \E m \in Letters : box' = Append(box, m),
         reader' = "done" => box' = Append(box, <<"disconnect">>),
         closes' = closes \/ \E code \in Nat \ {1001} : closes' = Append(closes, code),
         frag' \in Seq(1..Len(sent')), Len(frag') <= Limit, FragBegins',
         pending' \in {0, pings},
         pending' # 0 => pending = pings /\ pending # 0 /\ f # Pong(pings)
  PROVE  WsInv'
<1>1. /\ pings \in 0..MaxPings /\ pings \in Nat
      /\ actor \in {"new", "open", "crashed", "leaving", "freed"} /\ stopped \in BOOLEAN
      /\ box \in Seq(Letters) /\ told \in Seq(Callbacks) /\ closes \in Seq(Nat)
      /\ HeartbeatInv
  BY WsFacts
<1>2. /\ reader = "read" /\ sent' \in Seq(Frames') /\ Len(sent') <= MaxFrames
      /\ Range(sent') = Range(sent) \cup {f}
  BY Taken
<1>3. /\ UNCHANGED <<actor, told, stopped>> /\ StagesAgree' /\ NotClosedYet' /\ CloseEndsIt'
  BY <1>2, ActorKept
<1>4. box' \in Seq(Letters) /\ (reader' = "done" => <<"disconnect">> \in Range(box'))
  <2>1. box' \in Seq(Letters)
    BY <1>1, BoxGrows
  <2>2. ASSUME reader' = "done" PROVE <<"disconnect">> \in Range(box')
    <3>1. <<"disconnect">> \in Letters /\ box' = Append(box, <<"disconnect">>)
      BY <2>2, LetterKinds
    <3> QED BY <1>1, <3>1, BoxGrows
  <2> QED BY <2>1, <2>2
<1>5. closes' \in Seq(Nat) /\ 1001 \notin Range(closes')
  <2>1. 1001 \notin Range(closes)
    BY <1>1, <1>2 DEF HeartbeatInv
  <2>2. ASSUME NEW code \in Nat \ {1001}, closes' = Append(closes, code)
        PROVE  closes' \in Seq(Nat) /\ 1001 \notin Range(closes')
    <3>1. Append(closes, code) \in Seq(Nat) /\ Range(Append(closes, code)) = Range(closes) \cup {code}
      <4>1. closes \in Seq(Nat) /\ code \in Nat
        BY <1>1
      <4> QED BY <4>1, RangeAppend
    <3> QED BY <2>1, <2>2, <3>1
  <2> QED BY <1>1, <2>1, <2>2
<1>6. HeartbeatInv'
  BY <1>1, <1>2, <1>5 DEF HeartbeatInv
<1>7. EndIsTold'
  BY <1>4 DEF EndIsTold
<1>8. WsTypeOK'
  BY <1>1, <1>2, <1>3, <1>4, <1>5 DEF WsTypeOK
<1> QED BY <1>3, <1>6, <1>7, <1>8 DEF WsInv

LEMMA ReadControlStep ==
  ASSUME WsInv, NEW f \in Frames, ReadControl(f)
  PROVE  WsInv'
<1>1. /\ pings \in Nat /\ pending \in {0, pings} /\ frag \in Seq(1..Len(sent)) /\ Len(frag) <= Limit
  BY WsFacts
<1>2. Takes(f) /\ UNCHANGED pings /\ UNCHANGED actorVars /\ frag' = frag
  BY DEF ReadControl
<1>3. frag' \in Seq(1..Len(sent')) /\ Len(frag') <= Limit /\ FragBegins'
  BY <1>1, <1>2, Taken DEF FragBegins
<1>4. /\ <<"disconnect">> \in Letters
      /\ f.op = "pong" => f.of \in 1..pings
      /\ \A n : f = Pong(n) => f.op = "pong" /\ f.of = n
  BY <1>1, LetterKinds, FrameKinds
<1>5. CASE f.op = "pong" /\ reader' = "top" /\ box' = box /\ closes' = closes
           /\ pending' = IF f.of = pending THEN 0 ELSE pending
  <2>1. pending' \in {0, pings} /\ (pending' # 0 => pending = pings /\ pending # 0 /\ f # Pong(pings))
    BY <1>1, <1>4, <1>5
  <2> QED BY <1>2, <1>3, <1>5, <2>1, ReadingKeeps
<1>6. CASE f.op \in {"ping", "close"} /\ pending' = pending /\ reader' \in {"top", "done"}
           /\ (box' = box \/ box' = Append(box, <<"disconnect">>))
           /\ (reader' = "done" => box' = Append(box, <<"disconnect">>))
           /\ (closes' = closes \/ closes' = Append(closes, 1000))
  <2>1. pending' \in {0, pings} /\ (pending' # 0 => pending = pings /\ pending # 0 /\ f # Pong(pings))
    BY <1>1, <1>4, <1>6
  <2>2. /\ box' = box \/ \E m \in Letters : box' = Append(box, m)
        /\ closes' = closes \/ \E code \in Nat \ {1001} : closes' = Append(closes, code)
    BY <1>4, <1>6
  <2> QED BY <1>2, <1>3, <1>6, <2>1, <2>2, ReadingKeeps
<1> QED BY <1>5, <1>6 DEF ReadControl, EndWith, push_disconnect

\* A message is begun by a frame that may begin one, and is within the limit.
LEMMA Reassembled ==
  ASSUME WsInv, NEW f \in Frames, Takes(f), IsData(f), UNCHANGED pings, NEW r, r = reassemble(f)
  PROVE  /\ r[1] \in {"ProtocolError", "TooLarge", "Accumulating", "Complete"}
         /\ r[1] \in {"Accumulating", "Complete"} =>
              /\ r[2] \in Seq(1..Len(sent')) /\ r[2] \in Seq(Nat) /\ Len(r[2]) <= Limit
              /\ sent'[r[2][1]].op \in {"text", "binary"}
<1>1. /\ Len(sent) \in Nat /\ frag \in Seq(1..Len(sent)) /\ Len(frag) <= Limit
  BY WsFacts
<1>2. /\ Len(sent') = Len(sent) + 1 /\ sent'[Len(sent')] = f
      /\ frag \in Seq(1..Len(sent'))
      /\ frag # <<>> => sent'[frag[1]].op \in {"text", "binary"}
  BY Taken
<1>3. PICK all : all = Append(frag, Len(sent) + 1)
  OBVIOUS
<1>4. \/ r = <<"ProtocolError">> \/ r = <<"TooLarge">>
      \/ /\ r = <<"Accumulating", all>> \/ r = <<"Complete", all>>
         /\ (f.op = "cont") # (frag = <<>>)
         /\ Len(all) <= Limit \/ frag = <<>> \/ ~(Len(all) \in Nat)
  <2>1. ~(Len(all) > Limit /\ frag # <<>>) => Len(all) <= Limit \/ frag = <<>> \/ ~(Len(all) \in Nat)
    BY WsAssumption
  <2>2. CASE (f.op = "cont") = (frag = <<>>)
    BY <2>2 DEF reassemble
  <2>3. CASE (f.op = "cont") # (frag = <<>>) /\ Len(all) > Limit /\ frag # <<>>
    BY <1>3, <2>3 DEF reassemble
  <2>4. CASE (f.op = "cont") # (frag = <<>>) /\ ~(Len(all) > Limit /\ frag # <<>>)
    <3>1. r = <<"Accumulating", all>> \/ r = <<"Complete", all>>
      BY <1>3, <2>4 DEF reassemble
    <3> QED BY <2>1, <2>4, <3>1
  <2> QED BY <2>2, <2>3, <2>4
<1>5. /\ all \in Seq(1..Len(sent')) /\ Len(all) = Len(frag) + 1 /\ Len(frag) \in Nat
      /\ all[Len(frag) + 1] = Len(sent) + 1 /\ \A k \in 1..Len(frag) : all[k] = frag[k]
  <2>1. Len(sent) + 1 \in 1..Len(sent')
    BY <1>1, <1>2
  <2> QED BY <1>2, <1>3, <2>1, AppendProperties, LenProperties
<1>6. ASSUME (f.op = "cont") # (frag = <<>>), Len(all) <= Limit \/ frag = <<>>
      PROVE  Len(all) <= Limit /\ sent'[all[1]].op \in {"text", "binary"}
  <2>1. CASE frag = <<>>
    <3>1. Len(frag) = 0
      BY <2>1
    <3>2. all[1] = Len(sent') /\ Len(all) <= Limit
      BY <1>2, <1>5, <3>1, WsAssumption
    <3>3. f.op \in {"text", "binary"}
      BY <1>6, <2>1 DEF IsData
    <3> QED BY <1>2, <3>2, <3>3
  <2>2. CASE frag # <<>>
    <3>1. 1 \in 1..Len(frag)
      BY <1>1, <2>2, EmptySeq, LenProperties
    <3>2. all[1] = frag[1]
      BY <1>5, <3>1
    <3> QED BY <1>2, <1>6, <2>2, <3>2
  <2> QED BY <2>1, <2>2
<1>7. all \in Seq(Nat)
  <2>1. \A k \in 1..Len(all) : all[k] \in 1..Len(sent')
    BY <1>5, ElementOfSeq
  <2>2. \A k \in 1..Len(all) : all[k] \in Nat
    BY <2>1
  <2> QED BY <1>5, <2>2, SeqWider
<1>8. CASE r = <<"ProtocolError">> \/ r = <<"TooLarge">>
  BY <1>8
<1>9. CASE /\ r = <<"Accumulating", all>> \/ r = <<"Complete", all>>
           /\ (f.op = "cont") # (frag = <<>>)
           /\ Len(all) <= Limit \/ frag = <<>>
  <2>1. r[1] \in {"Accumulating", "Complete"} /\ r[2] = all
    BY <1>9
  <2>2. Len(all) <= Limit /\ sent'[all[1]].op \in {"text", "binary"}
    BY <1>6, <1>9
  <2> QED BY <1>5, <1>7, <2>1, <2>2
<1> QED BY <1>4, <1>5, <1>8, <1>9

LEMMA ReadDataStep ==
  ASSUME WsInv, NEW f \in Frames, ReadData(f)
  PROVE  WsInv'
<1>1. /\ pings \in Nat /\ pending \in {0, pings}
  BY WsFacts
<1>2. /\ Takes(f) /\ IsData(f) /\ UNCHANGED <<pings, pending>> /\ UNCHANGED actorVars
  BY DEF ReadData
<1>3. PICK r : r = reassemble(f)
  OBVIOUS
<1>4. /\ r[1] \in {"Accumulating", "Complete"} =>
           /\ r[2] \in Seq(1..Len(sent')) /\ r[2] \in Seq(Nat) /\ Len(r[2]) <= Limit
           /\ sent'[r[2][1]].op \in {"text", "binary"}
  BY <1>2, <1>3, Reassembled
<1>5. pending' \in {0, pings} /\ (pending' # 0 => pending = pings /\ pending # 0 /\ f # Pong(pings))
  <2>1. f.op # "pong"
    BY <1>2 DEF IsData
  <2>2. f # Pong(pings)
    BY <1>1, <2>1, FrameKinds
  <2> QED BY <1>1, <1>2, <2>2
<1>6. <<"disconnect">> \in Letters /\ \A op \in {"text", "binary"}, s \in Seq(Nat) : <<op, s>> \in Letters
  BY LetterKinds
<1>7. <<>> \in Seq(1..Len(sent')) /\ Len(<<>>) <= Limit
  BY WsAssumption, EmptySeq
<1>8. \/ /\ frag' = <<>> /\ reader' = "done" /\ box' = Append(box, <<"disconnect">>)
         /\ \E code \in {1002, 1007, 1009} : closes' = Append(closes, code)
      \/ /\ r[1] = "Complete" /\ frag' = <<>> /\ reader' = "top" /\ closes' = closes
         /\ box' = Append(box, <<sent'[r[2][1]].op, r[2]>>)
      \/ r[1] = "Accumulating" /\ reader' = "top" /\ frag' = r[2] /\ box' = box /\ closes' = closes
  BY <1>3 DEF ReadData, EndWith, push_disconnect
<1>9. CASE /\ frag' = <<>> /\ reader' = "done" /\ box' = Append(box, <<"disconnect">>)
           /\ \E code \in {1002, 1007, 1009} : closes' = Append(closes, code)
  <2>1. FragBegins'
    BY <1>9 DEF FragBegins
  <2>2. /\ box' = box \/ \E m \in Letters : box' = Append(box, m)
        /\ closes' = closes \/ \E code \in Nat \ {1001} : closes' = Append(closes, code)
        /\ reader' = "done" => box' = Append(box, <<"disconnect">>)
    BY <1>6, <1>9
  <2>3. frag' \in Seq(1..Len(sent')) /\ Len(frag') <= Limit /\ reader' \in {"top", "done"}
    BY <1>7, <1>9
  <2> QED BY <1>2, <1>5, <2>1, <2>2, <2>3, ReadingKeeps
<1>10. CASE /\ r[1] = "Complete" /\ frag' = <<>> /\ reader' = "top" /\ closes' = closes
            /\ box' = Append(box, <<sent'[r[2][1]].op, r[2]>>)
  <2>1. FragBegins'
    BY <1>10 DEF FragBegins
  <2>2. \E m \in Letters : box' = Append(box, m)
    BY <1>4, <1>6, <1>10
  <2>3. frag' \in Seq(1..Len(sent')) /\ Len(frag') <= Limit /\ reader' \in {"top", "done"} /\ reader' # "done"
    BY <1>7, <1>10
  <2> QED BY <1>2, <1>5, <1>10, <2>1, <2>2, <2>3, ReadingKeeps
<1>11. CASE r[1] = "Accumulating" /\ reader' = "top" /\ frag' = r[2] /\ box' = box /\ closes' = closes
  <2>1. frag' \in Seq(1..Len(sent')) /\ Len(frag') <= Limit /\ FragBegins'
    BY <1>4, <1>11 DEF FragBegins
  <2>2. reader' \in {"top", "done"} /\ reader' # "done"
    BY <1>11
  <2> QED BY <1>2, <1>5, <1>11, <2>1, <2>2, ReadingKeeps
<1> QED BY <1>8, <1>9, <1>10, <1>11

\* A read that fails, by its timeout or for good.
LEMMA ReadEndsStep ==
  ASSUME WsInv, ReadTimesOut \/ ReadFails
  PROVE  WsInv'
<1>1. /\ sent \in Seq(Frames) /\ Len(sent) <= MaxFrames
      /\ pings \in 0..MaxPings /\ pending \in {0, pings} /\ frag \in Seq(1..Len(sent)) /\ Len(frag) <= Limit
      /\ actor \in {"new", "open", "crashed", "leaving", "freed"} /\ stopped \in BOOLEAN
      /\ box \in Seq(Letters) /\ told \in Seq(Callbacks) /\ closes \in Seq(Nat)
      /\ StagesAgree /\ FragBegins /\ HeartbeatInv
  BY WsFacts
<1>2. /\ reader = "read" /\ reader' \in {"top", "done"}
      /\ UNCHANGED <<sent, frag, pings, pending, closes>> /\ UNCHANGED actorVars
      /\ \/ box' = box /\ (reader' = "done" => stopped)
         \/ box' = Append(box, <<"disconnect">>)
  BY DEF ReadTimesOut, ReadFails, push_disconnect
<1>3. UNCHANGED <<actor, told, stopped>> /\ StagesAgree' /\ NotClosedYet' /\ CloseEndsIt'
  BY <1>2, ActorKept
<1>4. box' \in Seq(Letters) /\ EndIsTold'
  <2>1. CASE box' = box /\ (reader' = "done" => stopped)
    BY <1>1, <1>3, <2>1 DEF StagesAgree, EndIsTold
  <2>2. CASE box' = Append(box, <<"disconnect">>)
    <3>1. box' \in Seq(Letters) /\ Range(box') = Range(box) \cup {<<"disconnect">>}
      BY <1>1, <2>2, LetterKinds, BoxGrows
    <3> QED BY <3>1 DEF EndIsTold
  <2> QED BY <1>2, <2>1, <2>2
<1>5. FragBegins' /\ HeartbeatInv'
  BY <1>1, <1>2 DEF FragBegins, HeartbeatInv
<1>6. Frames' = Frames
  BY <1>2 DEF Frames
<1>7. WsTypeOK'
  BY <1>1, <1>2, <1>3, <1>4, <1>6 DEF WsTypeOK
<1> QED BY <1>3, <1>4, <1>5, <1>7 DEF WsInv

\* What the actor does leaves the frames and the reader alone.
LEMMA ReaderKept ==
  ASSUME WsInv, UNCHANGED readerVars
  PROVE  UNCHANGED <<sent, reader, frag, pings, pending, Frames>> /\ FragBegins'
<1>1. UNCHANGED <<sent, reader, frag, pings, pending>>
  BY DEF readerVars
<1>2. FragBegins
  BY WsFacts
<1>3. Frames' = Frames
  BY <1>1 DEF Frames
<1> QED BY <1>1, <1>2, <1>3 DEF FragBegins

LEMMA ReceiveStep ==
  ASSUME WsInv, Receive
  PROVE  WsInv'
<1>1. /\ sent \in Seq(Frames) /\ Len(sent) <= MaxFrames
      /\ reader \in {"none", "top", "read", "done"}
      /\ pings \in 0..MaxPings /\ pending \in {0, pings} /\ frag \in Seq(1..Len(sent)) /\ Len(frag) <= Limit
      /\ stopped \in BOOLEAN /\ box \in Seq(Letters) /\ told \in Seq(Callbacks) /\ closes \in Seq(Nat)
      /\ StagesAgree /\ NotClosedYet /\ HeartbeatInv /\ EndIsTold
  BY WsFacts
<1>2. /\ actor = "open" /\ box # <<>> /\ box' = Tail(box)
      /\ UNCHANGED readerVars /\ UNCHANGED <<stopped, closes>>
      /\ \/ /\ Head(box)[1] \in {"text", "binary"} /\ actor' \in {"open", "crashed"}
            /\ told' = Append(told, <<"message", Head(box)[2]>>)
         \/ actor' = "leaving" /\ told' = told
  BY DEF Receive
<1>3. UNCHANGED <<sent, reader, frag, pings, pending, Frames>> /\ FragBegins'
  BY <1>2, ReaderKept
<1>4. box' \in Seq(Letters) /\ Head(box) \in Letters /\ Range(box) = {Head(box)} \cup Range(box')
  BY <1>1, <1>2, RangeTail
<1>5. /\ told' \in Seq(Callbacks) /\ \A t \in Range(told') : t[1] # "close"
      /\ actor' = "open" => Head(box)[1] # "disconnect"
  <2>1. \A t \in Range(told) : t[1] # "close"
    BY <1>1, <1>2 DEF NotClosedYet
  <2>2. CASE told' = told /\ actor' = "leaving"
    BY <1>1, <2>1, <2>2
  <2>3. CASE /\ Head(box)[1] \in {"text", "binary"}
             /\ told' = Append(told, <<"message", Head(box)[2]>>)
    <3>1. <<"message", Head(box)[2]>> \in Callbacks
      BY <1>4, <2>3, LetterKinds, CallbackKinds
    <3>2. PICK call \in Callbacks : told' = Append(told, call) /\ call[1] # "close"
      BY <2>3, <3>1
    <3>3. told' \in Seq(Callbacks) /\ Range(told') = Range(told) \cup {call}
      BY <1>1, <3>2, RangeAppend
    <3> QED BY <2>1, <2>3, <3>2, <3>3
  <2> QED BY <1>2, <2>2, <2>3
<1>6. EndIsTold'
  <2> SUFFICES ASSUME reader = "done", actor' = "open" PROVE <<"disconnect">> \in Range(box')
    BY <1>3 DEF EndIsTold
  <2>1. <<"disconnect">> \in Range(box)
    BY <1>1, <1>2 DEF EndIsTold
  <2>2. Head(box) # <<"disconnect">>
    BY <1>5
  <2> QED BY <1>4, <2>1, <2>2
<1>7. CloseEndsIt'
  <2>1. actor' # "freed"
    BY <1>2
  <2>2. \A k \in DOMAIN told' : told'[k][1] # "close"
    BY <1>5 DEF Range
  <2> QED BY <2>1, <2>2 DEF CloseEndsIt
<1>8. StagesAgree'
  <2>1. ~stopped /\ reader # "none"
    BY <1>1, <1>2 DEF StagesAgree
  <2> QED BY <1>2, <1>3, <2>1 DEF StagesAgree
<1>9. NotClosedYet' /\ HeartbeatInv'
  BY <1>1, <1>2, <1>3, <1>5 DEF NotClosedYet, HeartbeatInv
<1>10. WsTypeOK'
  BY <1>1, <1>2, <1>3, <1>4, <1>5 DEF WsTypeOK
<1> QED BY <1>3, <1>6, <1>7, <1>8, <1>9, <1>10 DEF WsInv

LEMMA ExitSignalStep ==
  ASSUME WsInv, ExitSignal
  PROVE  WsInv'
<1>1. /\ sent \in Seq(Frames) /\ Len(sent) <= MaxFrames
      /\ reader \in {"none", "top", "read", "done"}
      /\ pings \in 0..MaxPings /\ pending \in {0, pings} /\ frag \in Seq(1..Len(sent)) /\ Len(frag) <= Limit
      /\ stopped \in BOOLEAN /\ box \in Seq(Letters) /\ told \in Seq(Callbacks) /\ closes \in Seq(Nat)
      /\ StagesAgree /\ NotClosedYet /\ HeartbeatInv /\ EndIsTold /\ CloseEndsIt
  BY WsFacts
<1>2. /\ actor = "open" /\ box' = Append(box, <<"exit">>) /\ UNCHANGED readerVars
      /\ UNCHANGED <<actor, told, stopped, closes>>
  BY DEF ExitSignal, actorVars
<1>3. UNCHANGED <<sent, reader, frag, pings, pending, Frames>> /\ FragBegins'
  BY <1>2, ReaderKept
<1>4. box' \in Seq(Letters) /\ Range(box') = Range(box) \cup {<<"exit">>}
  BY <1>1, <1>2, LetterKinds, BoxGrows
<1>5. StagesAgree' /\ EndIsTold'
  BY <1>1, <1>2, <1>3, <1>4 DEF StagesAgree, EndIsTold
<1>6. NotClosedYet' /\ HeartbeatInv' /\ CloseEndsIt'
  BY <1>1, <1>2, <1>3 DEF NotClosedYet, HeartbeatInv, CloseEndsIt
<1>7. WsTypeOK'
  BY <1>1, <1>2, <1>3, <1>4 DEF WsTypeOK
<1> QED BY <1>3, <1>5, <1>6, <1>7 DEF WsInv

\* on_close is the last callback, and the first that is told of a close.
LEMMA EndStep ==
  ASSUME WsInv, Shutdown \/ Finish
  PROVE  WsInv'
<1>1. /\ sent \in Seq(Frames) /\ Len(sent) <= MaxFrames
      /\ reader \in {"none", "top", "read", "done"}
      /\ pings \in 0..MaxPings /\ pending \in {0, pings} /\ frag \in Seq(1..Len(sent)) /\ Len(frag) <= Limit
      /\ stopped \in BOOLEAN /\ box \in Seq(Letters) /\ told \in Seq(Callbacks) /\ closes \in Seq(Nat)
      /\ NotClosedYet /\ HeartbeatInv /\ CloseEndsIt
  BY WsFacts
<1>2. /\ actor \in {"leaving", "crashed"} /\ UNCHANGED readerVars /\ box' = box
      /\ stopped' = TRUE
      /\ \/ actor' = actor /\ told' = told /\ closes' = closes
         \/ /\ actor' = "freed"
            /\ closes' = closes \/ closes' = Append(closes, 1011)
            /\ \E code \in {1000, 1011} : told' = Append(told, <<"close", code>>)
  BY <1>1 DEF Shutdown, Finish
<1>3. UNCHANGED <<sent, reader, frag, pings, pending, Frames>> /\ FragBegins'
  BY <1>2, ReaderKept
<1>4. StagesAgree' /\ EndIsTold'
  BY <1>2 DEF StagesAgree, EndIsTold
<1>5. \A t \in Range(told) : t[1] # "close"
  BY <1>1, <1>2 DEF NotClosedYet
<1>6. CASE actor' = actor /\ told' = told /\ closes' = closes
  <2>1. NotClosedYet' /\ HeartbeatInv' /\ CloseEndsIt'
    BY <1>1, <1>3, <1>6 DEF NotClosedYet, HeartbeatInv, CloseEndsIt
  <2>2. WsTypeOK'
    BY <1>1, <1>2, <1>3, <1>6 DEF WsTypeOK
  <2> QED BY <1>3, <1>4, <2>1, <2>2 DEF WsInv
<1>7. CASE /\ actor' = "freed"
           /\ closes' = closes \/ closes' = Append(closes, 1011)
           /\ \E code \in {1000, 1011} : told' = Append(told, <<"close", code>>)
  <2>1. closes' \in Seq(Nat) /\ (1001 \in Range(closes') => 1001 \in Range(closes))
    <3>1. Append(closes, 1011) \in Seq(Nat) /\ Range(Append(closes, 1011)) = Range(closes) \cup {1011}
      BY <1>1, RangeAppend
    <3>2. CASE closes' = closes
      BY <1>1, <3>2
    <3>3. CASE closes' = Append(closes, 1011)
      BY <3>1, <3>3
    <3> QED BY <1>7, <3>2, <3>3
  <2>2. PICK last \in Callbacks : told' = Append(told, last) /\ last[1] = "close"
    <3>1. PICK code \in {1000, 1011} : told' = Append(told, <<"close", code>>)
      BY <1>7
    <3>2. <<"close", code>> \in Callbacks /\ <<"close", code>>[1] = "close"
      BY CallbackKinds
    <3> QED BY <3>1, <3>2
  <2>3. /\ told' \in Seq(Callbacks) /\ Len(told') = Len(told) + 1 /\ Len(told) \in Nat
        /\ told'[Len(told) + 1] = last /\ \A k \in 1..Len(told) : told'[k] = told[k]
        /\ DOMAIN told = 1..Len(told) /\ DOMAIN told' = 1..(Len(told) + 1)
    BY <1>1, <2>2, AppendProperties, LenProperties
  <2>4. \A k \in 1..Len(told) : told'[k][1] # "close"
    BY <1>5, <2>3 DEF Range
  <2>5. CloseEndsIt'
    BY <2>2, <2>3, <2>4 DEF CloseEndsIt
  <2>6. NotClosedYet' /\ HeartbeatInv'
    BY <1>1, <1>3, <1>7, <2>1 DEF NotClosedYet, HeartbeatInv
  <2>7. WsTypeOK'
    <3>1. told' \in Seq(Callbacks)
      BY <2>3
    <3>2. closes' \in Seq(Nat)
      BY <2>1
    <3>3. actor' = "freed" /\ stopped' \in BOOLEAN /\ box' \in Seq(Letters)
      BY <1>1, <1>2, <1>7
    <3> QED BY <1>1, <1>3, <3>1, <3>2, <3>3 DEF WsTypeOK
  <2> QED BY <1>3, <1>4, <2>5, <2>6, <2>7 DEF WsInv
<1> QED BY <1>2, <1>6, <1>7

LEMMA WsInvSafe == WsInv => WsTypeOK /\ ConversationEnds
<1> SUFFICES ASSUME WsInv PROVE WsTypeOK /\ ConversationEnds
  OBVIOUS
<1>1. /\ WsTypeOK /\ sent \in Seq(Frames) /\ box \in Seq(Letters) /\ HeartbeatInv /\ EndIsTold /\ CloseEndsIt
  BY WsFacts DEF WsInv
<1>2. ReaderEndIsTold
  BY <1>1 DEF ReaderEndIsTold, EndIsTold, Range
<1>3. LiveClientKept
  BY <1>1, LenProperties DEF LiveClientKept, HeartbeatInv, Range
<1> QED BY <1>1, <1>2, <1>3 DEF ConversationEnds

(* The two threads of a connection bring each other to an end: a reader that *)
(* stops by itself leaves the message that ends the actor, on_close is the   *)
(* last callback and comes before the handle is freed, and no client whose   *)
(* pong to the last ping was read is closed for the lack of one, for every   *)
(* limit and whatever frames the client sends.                               *)
THEOREM ConversationsEnd == WsSpec => [](WsTypeOK /\ ConversationEnds)
<1>1. WsInit => WsInv
  BY WsInitInv
<1>2. WsInv /\ [WsNext]_wsVars => WsInv'
  <2> SUFFICES ASSUME WsInv, [WsNext]_wsVars PROVE WsInv'
    OBVIOUS
  <2>1. CASE WsNext
    BY <2>1, AcceptStep, ReaderTopStep, ReadControlStep, ReadDataStep, ReadEndsStep, ReceiveStep,
       ExitSignalStep, EndStep DEF WsNext
  <2>2. CASE UNCHANGED wsVars
    <3>1. UNCHANGED <<sent, reader, frag, pings, pending, actor, box, stopped, told, closes>>
      BY <2>2 DEF wsVars
    <3>2. Frames' = Frames
      BY <3>1 DEF Frames
    <3>3. WsTypeOK' /\ StagesAgree' /\ FragBegins' /\ NotClosedYet' /\ HeartbeatInv' /\ EndIsTold' /\ CloseEndsIt'
      BY <3>1, <3>2 DEF WsInv, WsTypeOK, StagesAgree, FragBegins, NotClosedYet, HeartbeatInv, EndIsTold, CloseEndsIt
    <3> QED BY <3>3 DEF WsInv
  <2> QED BY <2>1, <2>2
<1>3. WsInv => WsTypeOK /\ ConversationEnds
  BY WsInvSafe
<1> QED BY <1>1, <1>2, <1>3, PTL DEF WsSpec
=============================================================================
