---------------------------- MODULE SessionProofs ----------------------------
(***************************************************************************)
(* Proofs about the sessions between nodes, for any set of numbered names, *)
(* any dials, and any numbers of connections and cuts.                     *)
(*                                                                         *)
(* The inductive invariant follows one end of one connection at a time:    *)
(* EndFits says which of its stages go with being in the table of sessions *)
(* and with having been replaced there. Two facts about several ends rest  *)
(* on it: the events that a node has been told balance the sessions it has *)
(* had, but for the ends between the table and the event (Balance), and a  *)
(* connection that both ends prefer is neither turned down nor replaced    *)
(* while none is cut (StrongKept).                                         *)
(***************************************************************************)
EXTENDS Session, FiniteSetTheorems, TLAPS

\* The session that the other sessions of n are measured against.
Current(c, n) == Has(c, n) /\ sessions[n][Peer(c, n)] = c

\* A later connection has taken the place of c at n.
Replaced(c, n) == \E d \in Conns : prev[d][n] = c

\* What an end goes through: from its place in the table, which it leaves to
\* a later connection or by its own cleanup, to the last monitor it had.
EndFits(st, down, current, replaced, routed, monitored, asked, seen) ==
    /\ st \in {"none", "shaken"} => ~down /\ ~monitored
    /\ replaced => st \in {"inserted", "up", "gone"} /\ down /\ ~current
    /\ st \in {"inserted", "up"} => current \/ replaced
    /\ current => st \in {"inserted", "up"}
    /\ st = "up" /\ current => routed
    /\ routed => st \in {"up", "removed"} \/ replaced
    /\ monitored /\ ~asked => current \/ replaced \/ st \in {"removed", "unmapped"} \/ (st = "collected" /\ seen)

EndInv(c, n) ==
    /\ stage[c][n] # "none" => Has(c, n)
    /\ stage[c][n] \in {"none", "shaken"} => prev[c][n] = 0
    /\ EndFits(stage[c][n], shut[c][n], Current(c, n), Replaced(c, n), c \in idmap[n], c \in mon[n],
               c \in asking[n], found[c][n])

TableInv == \A n, m \in NodeNames, c \in Conns : sessions[n][m] = c => Has(c, n) /\ Peer(c, n) = m

SessionInv == SessionTypeOK /\ TableInv /\ \A c \in Conns, n \in NodeNames : EndInv(c, n)

\* A node with a session has been told of one connect more, but for the steps
\* between the table and the event.
IsFresh(c, n) == stage[c][n] = "inserted" /\ prev[c][n] = 0
IsLeaving(c, n) == stage[c][n] \in {"removed", "unmapped", "collected"}
Fresh(n, m) == {c \in Conns : Has(c, n) /\ Peer(c, n) = m /\ IsFresh(c, n)}
Leaving(n, m) == {c \in Conns : Has(c, n) /\ Peer(c, n) = m /\ IsLeaving(c, n)}
Balance ==
    \A n, m \in NodeNames :
        ups[n][m] + Cardinality(Fresh(n, m))
        = (downs[n][m] + Cardinality(Leaving(n, m))) + (IF sessions[n][m] = 0 THEN 0 ELSE 1)

\* A connection that both ends prefer to any other between them.
Unique == \A c, d \in Conns : c # d /\ ends[c] # <<>> => ends[c] # ends[d]
Preferred(c) == ends[c] # <<>> /\ ends[c][1] < ends[c][2]
Strong(c) == ends[c] # <<>> /\ (Preferred(c) \/ \A d \in Conns \ {c} : ends[d] # <<ends[c][2], ends[c][1]>>)
StrongKept ==
    cut = {} /\ Unique =>
        \A c \in Conns, n \in NodeNames : Strong(c) /\ Has(c, n) =>
            stage[c][n] \in {"none", "shaken", "inserted", "up"} /\ ~shut[c][n]
-----------------------------------------------------------------------------
LEMMA SetAt ==
  ASSUME NEW A, NEW B, NEW V, NEW f \in [A -> [B -> V]], NEW a \in A, NEW b \in B, NEW v \in V
  PROVE  /\ [f EXCEPT ![a][b] = v] \in [A -> [B -> V]]
         /\ \A x \in A, y \in B : [f EXCEPT ![a][b] = v][x][y] = IF x = a /\ y = b THEN v ELSE f[x][y]
OBVIOUS

LEMMA SetOne ==
  ASSUME NEW A, NEW V, NEW f \in [A -> V], NEW a \in A, NEW v \in V
  PROVE  /\ [f EXCEPT ![a] = v] \in [A -> V]
         /\ \A x \in A : [f EXCEPT ![a] = v][x] = IF x = a THEN v ELSE f[x]
OBVIOUS

LEMMA ConnNumbers == Conns \subseteq Nat \ {0} /\ \A c \in Conns : c \in 0..MaxConns
BY SessionAssumption DEF Conns

LEMMA StageSet ==
  ASSUME SessionTypeOK, NEW c \in Conns, NEW n \in NodeNames, NEW st \in Stages, stage' = [stage EXCEPT ![c][n] = st]
  PROVE  /\ stage' \in [Conns -> [NodeNames -> Stages]]
         /\ \A d \in Conns, k \in NodeNames : stage'[d][k] = IF d = c /\ k = n THEN st ELSE stage[d][k]
<1>1. stage \in [Conns -> [NodeNames -> Stages]]
  BY DEF SessionTypeOK
<1> QED BY <1>1, SetAt

LEMMA PeerType ==
  ASSUME SessionTypeOK, NEW c \in Conns, NEW n, Has(c, n)
  PROVE  Peer(c, n) \in NodeNames /\ ends[c] \in NodeNames \X NodeNames
<1>1. ends[c] \in NodeNames \X NodeNames
  BY DEF SessionTypeOK, Has
<1> QED BY <1>1 DEF Peer

\* A step that only moves one end along, and takes ids off those replaced.
LEMMA OneEndStep ==
  ASSUME SessionInv, NEW c \in Conns, NEW n \in NodeNames,
         SessionTypeOK', ends' = ends, sessions' = sessions, prev' = prev,
         \A d \in Conns, k \in NodeNames : ~(d = c /\ k = n) =>
            /\ stage'[d][k] = stage[d][k] /\ shut'[d][k] = shut[d][k] /\ found'[d][k] = found[d][k]
            /\ d \in mon'[k] <=> d \in mon[k]
            /\ d \in asking'[k] <=> d \in asking[k]
            /\ d \in idmap'[k] => d \in idmap[k]
            /\ d \in idmap[k] => d \in idmap'[k] \/ Replaced(d, k),
         stage'[c][n] # "none" => Has(c, n),
         stage'[c][n] \in {"none", "shaken"} => prev[c][n] = 0,
         EndFits(stage'[c][n], shut'[c][n], Current(c, n), Replaced(c, n), c \in idmap'[n], c \in mon'[n],
                 c \in asking'[n], found'[c][n])
  PROVE  SessionInv'
<1>1. TableInv'
  BY DEF SessionInv, TableInv, Has, Peer
<1>2. ASSUME NEW d \in Conns, NEW k \in NodeNames PROVE EndInv(d, k)'
  <2>1. Has(d, k)' = Has(d, k) /\ Current(d, k)' = Current(d, k) /\ Replaced(d, k)' = Replaced(d, k)
    BY DEF Has, Current, Peer, Replaced
  <2>2. CASE d = c /\ k = n
    <3>1. /\ stage'[d][k] # "none" => Has(d, k)'
          /\ stage'[d][k] \in {"none", "shaken"} => prev'[d][k] = 0
      BY <2>1, <2>2
    <3>2. EndFits(stage'[d][k], shut'[d][k], Current(d, k)', Replaced(d, k)', d \in idmap'[k], d \in mon'[k],
                  d \in asking'[k], found'[d][k])
      BY <2>1, <2>2 DEF EndFits
    <3> QED BY <3>1, <3>2 DEF EndInv
  <2>3. CASE ~(d = c /\ k = n)
    <3>1. EndInv(d, k)
      BY DEF SessionInv
    <3>2. /\ stage'[d][k] # "none" => Has(d, k)'
          /\ stage'[d][k] \in {"none", "shaken"} => prev'[d][k] = 0
      BY <2>1, <2>3, <3>1 DEF EndInv
    <3>3. EndFits(stage'[d][k], shut'[d][k], Current(d, k)', Replaced(d, k)', d \in idmap'[k], d \in mon'[k],
                  d \in asking'[k], found'[d][k])
      BY <2>1, <2>3, <3>1 DEF EndInv, EndFits
    <3> QED BY <3>2, <3>3 DEF EndInv
  <2> QED BY <2>2, <2>3
<1> QED BY <1>1, <1>2 DEF SessionInv

LEMMA SessionInitInv == SessionInit => SessionInv
<1> SUFFICES ASSUME SessionInit PROVE SessionInv
  OBVIOUS
<1>1. 0 \in 0..MaxConns
  BY SessionAssumption
<1>2. SessionTypeOK
  BY <1>1 DEF SessionInit, SessionTypeOK, Stages
<1>3. TableInv
  BY ConnNumbers DEF SessionInit, TableInv
<1>4. ASSUME NEW c \in Conns, NEW n \in NodeNames PROVE EndInv(c, n)
  <2>1. /\ stage[c][n] = "none" /\ shut[c][n] = FALSE /\ prev[c][n] = 0 /\ ends[c] = <<>>
        /\ c \notin idmap[n] /\ c \notin mon[n]
    BY DEF SessionInit
  <2>2. ~Current(c, n) /\ ~Replaced(c, n)
    BY <2>1, ConnNumbers DEF Current, Replaced, Has, SessionInit
  <2> QED BY <2>1, <2>2 DEF EndInv, EndFits
<1> QED BY <1>2, <1>3, <1>4 DEF SessionInv

LEMMA OpenStep ==
  ASSUME SessionInv, NEW c \in Conns, NEW n \in NodeNames, NEW m \in NodeNames, Open(c, n, m),
         want' \in [NodeNames -> SUBSET NodeNames]
  PROVE  SessionInv'
<1>1. /\ ends[c] = <<>> /\ ends' = [ends EXCEPT ![c] = <<n, m>>]
      /\ UNCHANGED <<stage, shut, prev, sessions, idmap, cut, lists, mon, asking, found, ups, downs>>
  BY DEF Open
<1>2. SessionTypeOK /\ TableInv /\ ends \in [Conns -> {<<>>} \cup (NodeNames \X NodeNames)]
  BY DEF SessionInv, SessionTypeOK
<1>3. SessionTypeOK'
  <2>1. ends' \in [Conns -> {<<>>} \cup (NodeNames \X NodeNames)]
    BY <1>1, <1>2
  <2> QED BY <1>1, <1>2, <2>1 DEF SessionTypeOK
<1>4. \A d \in Conns \ {c} : ends'[d] = ends[d]
  BY <1>1, <1>2
<1>5. \A k : ~Has(c, k)
  BY <1>1 DEF Has
<1>6. \A k : \A d \in Conns \ {c} : Has(d, k)' = Has(d, k) /\ Peer(d, k)' = Peer(d, k)
  BY <1>4 DEF Has, Peer
<1>7. TableInv'
  <2> SUFFICES ASSUME NEW k \in NodeNames, NEW j \in NodeNames, NEW d \in Conns, sessions[k][j] = d
               PROVE  Has(d, k)' /\ Peer(d, k)' = j
    BY <1>1 DEF TableInv
  <2>1. Has(d, k) /\ Peer(d, k) = j
    BY <1>2 DEF TableInv
  <2> QED BY <1>5, <1>6, <2>1
<1>8. ASSUME NEW d \in Conns, NEW k \in NodeNames PROVE EndInv(d, k)'
  <2>1. EndInv(d, k) /\ Replaced(d, k)' = Replaced(d, k)
    BY <1>1 DEF SessionInv, Replaced
  <2>2. CASE d # c
    <3>1. Has(d, k)' = Has(d, k) /\ Current(d, k)' = Current(d, k)
      BY <1>1, <1>6, <2>2 DEF Current
    <3> QED BY <1>1, <2>1, <3>1 DEF EndInv, EndFits
  <2>3. CASE d = c
    <3>1. stage[d][k] = "none"
      BY <1>5, <2>1, <2>3 DEF EndInv
    <3>2. ~Current(d, k)'
      <4>1. \A j \in NodeNames : sessions[k][j] # d
        BY <1>2, <1>5, <2>3, ConnNumbers DEF TableInv
      <4>2. Has(d, k)' => Peer(d, k)' \in NodeNames
        BY <1>3, PeerType, <1>1, <2>3, <1>2 DEF Has, Peer
      <4> QED BY <1>1, <4>1, <4>2 DEF Current
    <3> QED BY <1>1, <2>1, <3>1, <3>2 DEF EndInv, EndFits
  <2> QED BY <2>2, <2>3
<1> QED BY <1>3, <1>7, <1>8 DEF SessionInv

\* The steps before the table: the handshake, done or failed.
LEMMA ShakeStep ==
  ASSUME SessionInv, NEW c \in Conns, NEW n \in NodeNames,
         \/ n = ends[c][2] /\ AcceptorShakes(c)
         \/ n = ends[c][1] /\ InitiatorShakes(c)
         \/ HandshakeFails(c, n)
  PROVE  SessionInv'
<1>1. SessionTypeOK /\ EndInv(c, n)
  BY DEF SessionInv
<1>2. PICK st \in {"shaken", "gone"} :
         /\ Has(c, n) /\ stage[c][n] = "none" /\ stage' = [stage EXCEPT ![c][n] = st]
         /\ UNCHANGED <<ends, shut, prev, sessions, idmap, cut, lists, want, mon, asking, found, ups, downs>>
  BY DEF AcceptorShakes, InitiatorShakes, HandshakeFails, Has
<1>3. /\ stage' \in [Conns -> [NodeNames -> Stages]]
      /\ \A d \in Conns, k \in NodeNames : stage'[d][k] = IF d = c /\ k = n THEN st ELSE stage[d][k]
  <2>1. st \in Stages
    BY DEF Stages
  <2> QED BY <1>1, <1>2, <2>1, StageSet
<1>4. SessionTypeOK'
  BY <1>1, <1>2, <1>3 DEF SessionTypeOK
<1>5. EndFits(stage'[c][n], shut'[c][n], Current(c, n), Replaced(c, n), c \in idmap'[n], c \in mon'[n],
              c \in asking'[n], found'[c][n])
  BY <1>1, <1>2, <1>3 DEF EndInv, EndFits
<1>6. prev[c][n] = 0
  BY <1>1, <1>2 DEF EndInv
<1> QED BY <1>2, <1>3, <1>4, <1>5, <1>6, OneEndStep

\* A connection is turned down, or takes the place of the one there was.
LEMMA RegisterInsertStep ==
  ASSUME SessionInv, NEW c \in Conns, NEW n \in NodeNames, RegisterInsert(n, c)
  PROVE  SessionInv'
<1>1. SessionTypeOK /\ TableInv /\ EndInv(c, n)
  BY DEF SessionInv
<1>2. PICK m \in NodeNames : m = Peer(c, n) /\ Has(c, n) /\ ends[c] \in NodeNames \X NodeNames
  BY <1>1, PeerType DEF RegisterInsert
<1>3. PICK d \in 0..MaxConns : d = sessions[n][m]
  <2>1. sessions \in [NodeNames -> [NodeNames -> 0..MaxConns]]
    BY <1>1 DEF SessionTypeOK
  <2> QED BY <2>1
<1>4. /\ stage[c][n] = "shaken"
      /\ UNCHANGED <<ends, idmap, cut, lists, want, mon, asking, found, ups, downs>>
      /\ \/ stage' = [stage EXCEPT ![c][n] = "gone"] /\ UNCHANGED <<sessions, shut, prev>>
         \/ /\ stage' = [stage EXCEPT ![c][n] = "inserted"]
            /\ sessions' = [sessions EXCEPT ![n][m] = c]
            /\ shut' = IF d = 0 THEN shut ELSE [shut EXCEPT ![d][n] = TRUE]
            /\ prev' = [prev EXCEPT ![c][n] = d]
  BY <1>2, <1>3 DEF RegisterInsert
<1>5. ~shut[c][n] /\ c \notin mon[n] /\ prev[c][n] = 0 /\ ~Current(c, n) /\ ~Replaced(c, n)
      /\ (c \in idmap[n] => FALSE)
  BY <1>1, <1>4 DEF EndInv, EndFits
<1>6. CASE stage' = [stage EXCEPT ![c][n] = "gone"] /\ UNCHANGED <<sessions, shut, prev>>
  <2>1. /\ stage' \in [Conns -> [NodeNames -> Stages]]
        /\ \A x \in Conns, k \in NodeNames : stage'[x][k] = IF x = c /\ k = n THEN "gone" ELSE stage[x][k]
    <3>1. "gone" \in Stages
      BY DEF Stages
    <3> QED BY <1>1, <1>6, <3>1, StageSet
  <2>2. SessionTypeOK'
    BY <1>1, <1>4, <1>6, <2>1 DEF SessionTypeOK
  <2>3. EndFits(stage'[c][n], shut'[c][n], Current(c, n), Replaced(c, n), c \in idmap'[n], c \in mon'[n],
                c \in asking'[n], found'[c][n])
    BY <1>4, <1>5, <1>6, <2>1 DEF EndFits
  <2> QED BY <1>2, <1>4, <1>5, <1>6, <2>1, <2>2, <2>3, OneEndStep
<1>7. CASE /\ stage' = [stage EXCEPT ![c][n] = "inserted"]
           /\ sessions' = [sessions EXCEPT ![n][m] = c]
           /\ shut' = IF d = 0 THEN shut ELSE [shut EXCEPT ![d][n] = TRUE]
           /\ prev' = [prev EXCEPT ![c][n] = d]
  <2>1. /\ stage' \in [Conns -> [NodeNames -> Stages]]
        /\ \A x \in Conns, k \in NodeNames : stage'[x][k] = IF x = c /\ k = n THEN "inserted" ELSE stage[x][k]
    <3>1. "inserted" \in Stages
      BY DEF Stages
    <3> QED BY <1>1, <1>7, <3>1, StageSet
  <2>2. /\ sessions' \in [NodeNames -> [NodeNames -> 0..MaxConns]]
        /\ \A k \in NodeNames, j \in NodeNames : sessions'[k][j] = IF k = n /\ j = m THEN c ELSE sessions[k][j]
    <3>1. c \in 0..MaxConns /\ sessions \in [NodeNames -> [NodeNames -> 0..MaxConns]]
      BY <1>1, ConnNumbers DEF SessionTypeOK
    <3> QED BY ZenonT(30), <1>7, <3>1, SetAt
  <2>3. /\ prev' \in [Conns -> [NodeNames -> 0..MaxConns]]
        /\ \A x \in Conns, k \in NodeNames : prev'[x][k] = IF x = c /\ k = n THEN d ELSE prev[x][k]
    <3>1. prev \in [Conns -> [NodeNames -> 0..MaxConns]]
      BY <1>1 DEF SessionTypeOK
    <3> QED BY <1>7, <3>1, SetAt
  <2>4. d # 0 => d \in Conns /\ d # c /\ Has(d, n) /\ Peer(d, n) = m /\ Current(d, n) /\ stage[d][n] \in {"inserted", "up"}
    <3> SUFFICES ASSUME d # 0
                 PROVE  d \in Conns /\ d # c /\ Has(d, n) /\ Peer(d, n) = m /\ Current(d, n)
                        /\ stage[d][n] \in {"inserted", "up"}
      OBVIOUS
    <3>1. d \in Conns
      BY SessionAssumption DEF Conns
    <3>2. Has(d, n) /\ Peer(d, n) = m /\ Current(d, n)
      BY <1>1, <1>3, <3>1 DEF TableInv, Current
    <3>3. stage[d][n] \in {"inserted", "up"}
      BY <3>1, <3>2 DEF SessionInv, EndInv, EndFits
    <3> QED BY <1>4, <3>1, <3>2, <3>3
  <2>5. /\ shut' \in [Conns -> [NodeNames -> BOOLEAN]]
        /\ \A x \in Conns, k \in NodeNames : shut'[x][k] = IF d # 0 /\ x = d /\ k = n THEN TRUE ELSE shut[x][k]
    <3>1. CASE d = 0
      BY <1>1, <1>7, <3>1 DEF SessionTypeOK
    <3>2. CASE d # 0
      <4>1. shut' = [shut EXCEPT ![d][n] = TRUE] /\ d \in Conns /\ shut \in [Conns -> [NodeNames -> BOOLEAN]]
        BY <1>1, <1>7, <2>4, <3>2 DEF SessionTypeOK
      <4>2. /\ shut' \in [Conns -> [NodeNames -> BOOLEAN]]
            /\ \A x \in Conns, k \in NodeNames : shut'[x][k] = IF x = d /\ k = n THEN TRUE ELSE shut[x][k]
        BY ZenonT(30), <4>1, SetAt
      <4> QED BY <3>2, <4>2
    <3> QED BY <3>1, <3>2
  <2>6. SessionTypeOK'
    BY <1>1, <1>4, <2>1, <2>2, <2>3, <2>5 DEF SessionTypeOK
  <2>7. \A x, k : Has(x, k)' = Has(x, k) /\ Peer(x, k)' = Peer(x, k)
    BY <1>4 DEF Has, Peer
  <2>8. TableInv'
    <3> SUFFICES ASSUME NEW k \in NodeNames, NEW j \in NodeNames, NEW x \in Conns, sessions'[k][j] = x
                 PROVE  Has(x, k)' /\ Peer(x, k)' = j
      BY DEF TableInv
    <3>1. CASE k = n /\ j = m
      BY <1>2, <2>2, <2>7, <3>1
    <3>2. CASE ~(k = n /\ j = m)
      <4>1. sessions[k][j] = x
        BY <2>2, <3>2
      <4>2. Has(x, k) /\ Peer(x, k) = j
        BY <1>1, <4>1 DEF TableInv
      <4> QED BY <2>7, <4>2
    <3> QED BY <3>1, <3>2
  <2>9. ASSUME NEW x \in Conns, NEW k \in NodeNames PROVE EndInv(x, k)'
    <3>1. EndInv(x, k)
      BY DEF SessionInv
    <3>2. Replaced(x, k)' <=> Replaced(x, k) \/ (d # 0 /\ x = d /\ k = n)
      BY <1>5, <2>3, <2>4, ConnNumbers DEF Replaced
    <3>3. Has(x, k) => Peer(x, k) \in NodeNames
      BY <1>1, PeerType
    <3>4. Current(x, k)' <=> (x = c /\ k = n) \/ (Current(x, k) /\ ~(d # 0 /\ x = d /\ k = n))
      <4>1. Current(x, k)' <=> Has(x, k) /\ sessions'[k][Peer(x, k)] = x
        BY <2>7 DEF Current
      <4>2. CASE x = c /\ k = n
        BY <1>2, <2>2, <4>1, <4>2
      <4>3. CASE ~(x = c /\ k = n)
        <5>1. Current(x, k)' <=> Has(x, k) /\ sessions[k][Peer(x, k)] = x /\ ~(k = n /\ Peer(x, k) = m)
          BY <2>2, <3>3, <4>1, <4>3
        <5>2. Current(x, k) /\ k = n /\ Peer(x, k) = m => x = d
          BY <1>3 DEF Current
        <5>3. d # 0 /\ x = d /\ k = n => Peer(x, k) = m
          BY <2>4
        <5>4. x # 0
          BY ConnNumbers
        <5> QED BY <4>3, <5>1, <5>2, <5>3, <5>4 DEF Current
      <4> QED BY <4>2, <4>3
    <3>5. /\ stage'[x][k] # "none" => Has(x, k)'
          /\ stage'[x][k] \in {"none", "shaken"} => prev'[x][k] = 0
      BY <1>2, <1>4, <2>1, <2>3, <2>7, <3>1 DEF EndInv
    <3>6. CASE x = c /\ k = n
      <4>1. /\ stage'[x][k] = "inserted" /\ shut'[x][k] = shut[x][k] /\ Current(x, k)' /\ ~Replaced(x, k)'
        BY <1>5, <2>1, <2>4, <2>5, <3>2, <3>4, <3>6
      <4>2. EndFits(stage'[x][k], shut'[x][k], Current(x, k)', Replaced(x, k)', x \in idmap'[k], x \in mon'[k],
                    x \in asking'[k], found'[x][k])
        BY <1>4, <1>5, <3>6, <4>1 DEF EndFits
      <4> QED BY <3>5, <4>2 DEF EndInv
    <3>7. CASE ~(x = c /\ k = n) /\ d # 0 /\ x = d /\ k = n
      <4>1. /\ stage'[x][k] = stage[x][k] /\ shut'[x][k] /\ ~Current(x, k)' /\ Replaced(x, k)'
            /\ stage[x][k] \in {"inserted", "up"}
        BY <2>1, <2>4, <2>5, <3>2, <3>4, <3>7
      <4>2. EndFits(stage'[x][k], shut'[x][k], Current(x, k)', Replaced(x, k)', x \in idmap'[k], x \in mon'[k],
                    x \in asking'[k], found'[x][k])
        BY <1>4, <4>1 DEF EndFits
      <4> QED BY <3>5, <4>2 DEF EndInv
    <3>8. CASE ~(x = c /\ k = n) /\ ~(d # 0 /\ x = d /\ k = n)
      <4>1. /\ stage'[x][k] = stage[x][k] /\ shut'[x][k] = shut[x][k]
            /\ Current(x, k)' <=> Current(x, k)
            /\ Replaced(x, k)' <=> Replaced(x, k)
        BY <2>1, <2>5, <3>2, <3>4, <3>8
      <4>2. EndFits(stage'[x][k], shut'[x][k], Current(x, k)', Replaced(x, k)', x \in idmap'[k], x \in mon'[k],
                    x \in asking'[k], found'[x][k])
        BY <1>4, <3>1, <4>1 DEF EndInv, EndFits
      <4> QED BY <3>5, <4>2 DEF EndInv
    <3> QED BY <3>6, <3>7, <3>8
  <2> QED BY <2>6, <2>8, <2>9 DEF SessionInv
<1> QED BY <1>4, <1>6, <1>7

LEMMA RegisterIdsStep ==
  ASSUME SessionInv, NEW c \in Conns, NEW n \in NodeNames, RegisterIds(n, c)
  PROVE  SessionInv'
<1>1. SessionTypeOK /\ EndInv(c, n)
  BY DEF SessionInv
<1>2. /\ Has(c, n) /\ stage[c][n] = "inserted"
      /\ stage' = [stage EXCEPT ![c][n] = "up"]
      /\ idmap' = [idmap EXCEPT ![n] = (@ \ {prev[c][n]}) \cup {c}]
      /\ ups' = IF prev[c][n] = 0 THEN [ups EXCEPT ![n][Peer(c, n)] = @ + 1] ELSE ups
      /\ lists' = [lists EXCEPT ![c][n] = {m \in NodeNames \ {Peer(c, n)} : sessions[n][m] # 0}]
      /\ UNCHANGED <<ends, shut, prev, sessions, cut, want, mon, asking, found, downs>>
  BY DEF RegisterIds
<1>3. PICK m \in NodeNames : m = Peer(c, n)
  BY <1>1, <1>2, PeerType
<1>4. /\ stage' \in [Conns -> [NodeNames -> Stages]]
      /\ \A d \in Conns, k \in NodeNames : stage'[d][k] = IF d = c /\ k = n THEN "up" ELSE stage[d][k]
  <2>1. "up" \in Stages
    BY DEF Stages
  <2> QED BY <1>1, <1>2, <2>1, StageSet
<1>5. /\ idmap' \in [NodeNames -> SUBSET Conns]
      /\ \A k \in NodeNames : idmap'[k] = IF k = n THEN (idmap[n] \ {prev[c][n]}) \cup {c} ELSE idmap[k]
  <2>1. idmap \in [NodeNames -> SUBSET Conns]
    BY <1>1 DEF SessionTypeOK
  <2> QED BY <1>2, <2>1
<1>6. ups' \in [NodeNames -> [NodeNames -> Nat]]
  <2>1. ups \in [NodeNames -> [NodeNames -> Nat]] /\ ups[n][m] + 1 \in Nat
    BY SMTT(30), <1>1 DEF SessionTypeOK
  <2>2. [ups EXCEPT ![n][m] = ups[n][m] + 1] \in [NodeNames -> [NodeNames -> Nat]]
    BY <2>1, SetAt
  <2> QED BY <1>2, <1>3, <2>1, <2>2
<1>7. lists' \in [Conns -> [NodeNames -> SUBSET NodeNames]]
  <2>1. lists \in [Conns -> [NodeNames -> SUBSET NodeNames]]
    BY <1>1 DEF SessionTypeOK
  <2>2. {j \in NodeNames \ {m} : sessions[n][j] # 0} \in SUBSET NodeNames
    OBVIOUS
  <2> QED BY <1>2, <1>3, <2>1, <2>2, SetAt
<1>8. SessionTypeOK'
  BY <1>1, <1>2, <1>4, <1>5, <1>6, <1>7 DEF SessionTypeOK
<1>9. \A d \in Conns, k \in NodeNames : ~(d = c /\ k = n) =>
         /\ d \in idmap'[k] => d \in idmap[k]
         /\ d \in idmap[k] => d \in idmap'[k] \/ Replaced(d, k)
  BY <1>5 DEF Replaced
<1>10. EndFits(stage'[c][n], shut'[c][n], Current(c, n), Replaced(c, n), c \in idmap'[n], c \in mon'[n],
               c \in asking'[n], found'[c][n])
  BY <1>1, <1>2, <1>4, <1>5 DEF EndInv, EndFits
<1> QED BY <1>2, <1>4, <1>8, <1>9, <1>10, OneEndStep

\* Steps that no end is moved by.
LEMMA NoEndStep ==
  ASSUME SessionInv,
         \/ \E c \in Conns, n \in NodeNames : handle_peer_list(n, c)
         \/ \E c \in Conns : Cut(c)
         \/ UNCHANGED sessionVars
  PROVE  SessionInv'
<1>1. SessionTypeOK /\ TableInv /\ \A c \in Conns, n \in NodeNames : EndInv(c, n)
  BY DEF SessionInv
<1>2. UNCHANGED <<ends, stage, shut, prev, sessions, idmap, mon, asking, found, ups, downs>>
  BY DEF handle_peer_list, Cut, sessionVars
<1>3. /\ want' \in [NodeNames -> SUBSET NodeNames] /\ lists' \in [Conns -> [NodeNames -> SUBSET NodeNames]]
      /\ cut' \subseteq Conns
  <2>1. /\ want \in [NodeNames -> SUBSET NodeNames] /\ lists \in [Conns -> [NodeNames -> SUBSET NodeNames]] /\ cut \subseteq Conns
    BY <1>1 DEF SessionTypeOK
  <2>2. ASSUME NEW c \in Conns, NEW n \in NodeNames, handle_peer_list(n, c)
        PROVE  want' \in [NodeNames -> SUBSET NodeNames] /\ lists' \in [Conns -> [NodeNames -> SUBSET NodeNames]] /\ cut' = cut
    <3>1. PICK m \in NodeNames : m = Peer(c, n)
      BY <1>1, <2>2, PeerType DEF handle_peer_list
    <3>2. /\ want' = [want EXCEPT ![n] = @ \cup {p \in lists[c][m] \ {n} : sessions[n][p] = 0}]
          /\ lists' = [lists EXCEPT ![c][m] = {}] /\ cut' = cut
      BY <2>2, <3>1 DEF handle_peer_list
    <3>3. want[n] \cup {p \in lists[c][m] \ {n} : sessions[n][p] = 0} \in SUBSET NodeNames
      BY <2>1
    <3>4. {} \in SUBSET NodeNames
      OBVIOUS
    <3>5. want' \in [NodeNames -> SUBSET NodeNames]
      BY <2>1, <3>2, <3>3
    <3>6. lists' \in [Conns -> [NodeNames -> SUBSET NodeNames]]
      BY <2>1, <3>2, <3>4, SetAt
    <3> QED BY <3>2, <3>5, <3>6
  <2>3. ASSUME NEW c \in Conns, Cut(c) PROVE want' = want /\ lists' = lists /\ cut' = cut \cup {c}
    BY <2>3 DEF Cut
  <2>4. ASSUME UNCHANGED sessionVars PROVE want' = want /\ lists' = lists /\ cut' = cut
    BY <2>4 DEF sessionVars
  <2> QED BY <2>1, <2>2, <2>3, <2>4
<1>4. SessionTypeOK'
  BY <1>1, <1>2, <1>3 DEF SessionTypeOK
<1>5. TableInv'
  BY <1>1, <1>2 DEF TableInv, Has, Peer
<1>6. ASSUME NEW c \in Conns, NEW n \in NodeNames PROVE EndInv(c, n)'
  <2>1. Has(c, n)' = Has(c, n) /\ Current(c, n)' = Current(c, n) /\ Replaced(c, n)' = Replaced(c, n)
    BY <1>2 DEF Has, Current, Peer, Replaced
  <2> QED BY <1>1, <1>2, <2>1 DEF EndInv, EndFits
<1> QED BY <1>4, <1>5, <1>6 DEF SessionInv

LEMMA SessionFailsStep ==
  ASSUME SessionInv, NEW c \in Conns, NEW n \in NodeNames, SessionFails(n, c)
  PROVE  SessionInv'
<1>1. SessionTypeOK /\ EndInv(c, n)
  BY DEF SessionInv
<1>2. /\ stage[c][n] = "up" /\ Has(c, n) /\ shut' = [shut EXCEPT ![c][n] = TRUE]
      /\ UNCHANGED <<ends, stage, prev, sessions, idmap, cut, lists, want, mon, asking, found, ups, downs>>
  BY DEF SessionFails
<1>3. /\ shut' \in [Conns -> [NodeNames -> BOOLEAN]]
      /\ \A d \in Conns, k \in NodeNames : shut'[d][k] = IF d = c /\ k = n THEN TRUE ELSE shut[d][k]
  <2>1. shut \in [Conns -> [NodeNames -> BOOLEAN]]
    BY <1>1 DEF SessionTypeOK
  <2> QED BY <1>2, <2>1
<1>4. SessionTypeOK'
  BY <1>1, <1>2, <1>3 DEF SessionTypeOK
<1>5. EndFits(stage'[c][n], shut'[c][n], Current(c, n), Replaced(c, n), c \in idmap'[n], c \in mon'[n],
              c \in asking'[n], found'[c][n])
  BY <1>1, <1>2, <1>3 DEF EndInv, EndFits
<1>6. /\ stage'[c][n] # "none" => Has(c, n)
      /\ stage'[c][n] \in {"none", "shaken"} => prev[c][n] = 0
      /\ \A d \in Conns, k \in NodeNames : ~(d = c /\ k = n) =>
            /\ stage'[d][k] = stage[d][k] /\ shut'[d][k] = shut[d][k] /\ found'[d][k] = found[d][k]
            /\ d \in mon'[k] <=> d \in mon[k]
            /\ d \in asking'[k] <=> d \in asking[k]
            /\ d \in idmap'[k] => d \in idmap[k]
            /\ d \in idmap[k] => d \in idmap'[k] \/ Replaced(d, k)
  BY <1>2, <1>3
<1> QED BY <1>2, <1>4, <1>5, <1>6, OneEndStep

\* The heartbeat thread takes its session out of the table, if it is there.
LEMMA CleanupSessionStep ==
  ASSUME SessionInv, NEW c \in Conns, NEW n \in NodeNames, CleanupSession(n, c)
  PROVE  SessionInv'
<1>1. SessionTypeOK /\ TableInv /\ EndInv(c, n)
  BY DEF SessionInv
<1>2. PICK m \in NodeNames : m = Peer(c, n) /\ Has(c, n)
  BY <1>1, PeerType DEF CleanupSession
<1>3. /\ stage[c][n] = "up" /\ shut[c][n]
      /\ stage' = [stage EXCEPT ![c][n] = IF sessions[n][m] = c THEN "removed" ELSE "gone"]
      /\ sessions' = IF sessions[n][m] = c THEN [sessions EXCEPT ![n][m] = 0] ELSE sessions
      /\ UNCHANGED <<ends, shut, prev, idmap, cut, lists, want, mon, asking, found, ups, downs>>
  BY <1>2 DEF CleanupSession
<1>4. /\ stage' \in [Conns -> [NodeNames -> Stages]]
      /\ \A d \in Conns, k \in NodeNames :
            stage'[d][k] = IF d = c /\ k = n THEN IF sessions[n][m] = c THEN "removed" ELSE "gone" ELSE stage[d][k]
  <2>1. PICK st \in Stages : st = IF sessions[n][m] = c THEN "removed" ELSE "gone"
    BY DEF Stages
  <2>2. stage' = [stage EXCEPT ![c][n] = st]
    BY <1>3, <2>1
  <2>3. /\ stage' \in [Conns -> [NodeNames -> Stages]]
        /\ \A d \in Conns, k \in NodeNames : stage'[d][k] = IF d = c /\ k = n THEN st ELSE stage[d][k]
    BY ZenonT(30), <1>1, <2>1, <2>2, StageSet
  <2> QED BY <2>1, <2>3
<1>5. CASE sessions[n][m] # c
  <2>1. SessionTypeOK' /\ sessions' = sessions
    BY <1>1, <1>3, <1>4, <1>5 DEF SessionTypeOK
  <2>2. EndFits(stage'[c][n], shut'[c][n], Current(c, n), Replaced(c, n), c \in idmap'[n], c \in mon'[n],
                c \in asking'[n], found'[c][n])
    BY <1>1, <1>2, <1>3, <1>4, <1>5 DEF EndInv, EndFits, Current
  <2> QED BY <1>2, <1>3, <1>4, <2>1, <2>2, OneEndStep
<1>6. CASE sessions[n][m] = c
  <2>1. /\ sessions' \in [NodeNames -> [NodeNames -> 0..MaxConns]]
        /\ \A k \in NodeNames, j \in NodeNames : sessions'[k][j] = IF k = n /\ j = m THEN 0 ELSE sessions[k][j]
    <3>1. 0 \in 0..MaxConns /\ sessions \in [NodeNames -> [NodeNames -> 0..MaxConns]]
      BY <1>1, SessionAssumption DEF SessionTypeOK
    <3> QED BY <1>3, <1>6, <3>1, SetAt
  <2>2. SessionTypeOK'
    BY <1>1, <1>3, <1>4, <2>1 DEF SessionTypeOK
  <2>3. \A x, k : Has(x, k)' = Has(x, k) /\ Peer(x, k)' = Peer(x, k)
    BY <1>3 DEF Has, Peer
  <2>4. TableInv'
    <3> SUFFICES ASSUME NEW k \in NodeNames, NEW j \in NodeNames, NEW x \in Conns, sessions'[k][j] = x
                 PROVE  Has(x, k)' /\ Peer(x, k)' = j
      BY DEF TableInv
    <3>1. sessions[k][j] = x
      BY <2>1, ConnNumbers
    <3> QED BY <1>1, <2>3, <3>1 DEF TableInv
  <2>5. ASSUME NEW x \in Conns, NEW k \in NodeNames PROVE EndInv(x, k)'
    <3>1. EndInv(x, k) /\ (Has(x, k) => Peer(x, k) \in NodeNames) /\ x # 0 /\ c # 0
      BY <1>1, PeerType, ConnNumbers DEF SessionInv
    <3>2. Replaced(x, k)' = Replaced(x, k)
      BY <1>3 DEF Replaced
    <3>3. Current(x, k)' <=> Current(x, k) /\ ~(x = c /\ k = n)
      <4>1. Current(x, k)' <=> Has(x, k) /\ sessions'[k][Peer(x, k)] = x
        BY <2>3 DEF Current
      <4>2. Current(x, k)' <=> Has(x, k) /\ sessions[k][Peer(x, k)] = x /\ ~(k = n /\ Peer(x, k) = m)
        BY <2>1, <3>1, <4>1
      <4> QED BY <1>2, <1>6, <4>2 DEF Current
    <3>4. /\ stage'[x][k] # "none" => Has(x, k)'
          /\ stage'[x][k] \in {"none", "shaken"} => prev'[x][k] = 0
      BY <1>2, <1>3, <1>4, <2>3, <3>1 DEF EndInv
    <3>5. CASE x = c /\ k = n
      <4>1. stage'[x][k] = "removed" /\ shut'[x][k] = shut[x][k] /\ ~Current(x, k)' /\ Current(x, k)
        BY <1>2, <1>3, <1>4, <1>6, <3>3, <3>5 DEF Current
      <4>2. EndFits(stage'[x][k], shut'[x][k], Current(x, k)', Replaced(x, k)', x \in idmap'[k], x \in mon'[k],
                    x \in asking'[k], found'[x][k])
        BY <1>3, <3>1, <3>2, <3>5, <4>1 DEF EndInv, EndFits
      <4> QED BY <3>4, <4>2 DEF EndInv
    <3>6. CASE ~(x = c /\ k = n)
      <4>1. stage'[x][k] = stage[x][k] /\ (Current(x, k)' <=> Current(x, k))
        BY <1>4, <3>3, <3>6
      <4>2. EndFits(stage'[x][k], shut'[x][k], Current(x, k)', Replaced(x, k)', x \in idmap'[k], x \in mon'[k],
                    x \in asking'[k], found'[x][k])
        BY <1>3, <3>1, <3>2, <4>1 DEF EndInv, EndFits
      <4> QED BY <3>4, <4>2 DEF EndInv
    <3> QED BY <3>5, <3>6
  <2> QED BY <2>2, <2>4, <2>5 DEF SessionInv
<1> QED BY <1>5, <1>6

LEMMA CleanupIdsStep ==
  ASSUME SessionInv, NEW c \in Conns, NEW n \in NodeNames, CleanupIds(n, c)
  PROVE  SessionInv'
<1>1. SessionTypeOK /\ EndInv(c, n)
  BY DEF SessionInv
<1>2. /\ stage[c][n] = "removed" /\ stage' = [stage EXCEPT ![c][n] = "unmapped"]
      /\ idmap' = [idmap EXCEPT ![n] = @ \ {c}]
      /\ UNCHANGED <<ends, shut, prev, sessions, cut, lists, want, mon, asking, found, ups, downs>>
  BY DEF CleanupIds
<1>3. /\ stage' \in [Conns -> [NodeNames -> Stages]]
      /\ \A d \in Conns, k \in NodeNames : stage'[d][k] = IF d = c /\ k = n THEN "unmapped" ELSE stage[d][k]
  <2>1. "unmapped" \in Stages
    BY DEF Stages
  <2> QED BY ZenonT(30), <1>1, <1>2, <2>1, StageSet
<1>4. /\ idmap' \in [NodeNames -> SUBSET Conns]
      /\ \A k \in NodeNames : idmap'[k] = IF k = n THEN idmap[n] \ {c} ELSE idmap[k]
  <2>1. idmap \in [NodeNames -> SUBSET Conns]
    BY <1>1 DEF SessionTypeOK
  <2> QED BY <1>2, <2>1
<1>5. SessionTypeOK'
  BY <1>1, <1>2, <1>3, <1>4 DEF SessionTypeOK
<1>6. Has(c, n) /\ \A d \in Conns, k \in NodeNames : ~(d = c /\ k = n) => (d \in idmap'[k] <=> d \in idmap[k])
  BY <1>1, <1>2, <1>4 DEF EndInv
<1>7. EndFits(stage'[c][n], shut'[c][n], Current(c, n), Replaced(c, n), c \in idmap'[n], c \in mon'[n],
              c \in asking'[n], found'[c][n])
  BY <1>1, <1>2, <1>3, <1>4 DEF EndInv, EndFits
<1> QED BY <1>2, <1>3, <1>5, <1>6, <1>7, OneEndStep

LEMMA DisconnectStep ==
  ASSUME SessionInv, NEW c \in Conns, NEW n \in NodeNames, Collect(n, c) \/ FireSignals(n, c)
  PROVE  SessionInv'
<1>1. SessionTypeOK /\ EndInv(c, n)
  BY DEF SessionInv
<1>2. PICK st \in {"collected", "gone"} : stage' = [stage EXCEPT ![c][n] = st]
  BY DEF Collect, FireSignals
<1>3. /\ stage' \in [Conns -> [NodeNames -> Stages]]
      /\ \A d \in Conns, k \in NodeNames : stage'[d][k] = IF d = c /\ k = n THEN st ELSE stage[d][k]
  <2>1. st \in Stages
    BY DEF Stages
  <2> QED BY <1>1, <1>2, <2>1, StageSet
<1>4. Has(c, n) /\ stage[c][n] \in {"unmapped", "collected"}
      /\ ~Current(c, n) /\ ~Replaced(c, n) /\ c \notin idmap[n]
  BY <1>1 DEF Collect, FireSignals, EndInv, EndFits
<1>5. UNCHANGED <<ends, shut, prev, sessions, idmap, cut, lists, want, asking>>
  BY DEF Collect, FireSignals
<1>6. CASE Collect(n, c)
  <2>1. stage[c][n] = "unmapped" /\ st = "collected" /\ found' = [found EXCEPT ![c][n] = c \in mon[n]]
        /\ UNCHANGED <<mon, ups, downs>>
    BY <1>1, <1>2, <1>3, <1>6 DEF Collect, SessionTypeOK
  <2>2. /\ found' \in [Conns -> [NodeNames -> BOOLEAN]]
        /\ \A d \in Conns, k \in NodeNames : ~(d = c /\ k = n) => found'[d][k] = found[d][k]
        /\ found'[c][n] <=> c \in mon[n]
    <3>1. found \in [Conns -> [NodeNames -> BOOLEAN]]
      BY <1>1 DEF SessionTypeOK
    <3>2. CASE c \in mon[n]
      <4>1. found' = [found EXCEPT ![c][n] = TRUE]
        BY <2>1, <3>2
      <4> QED BY <3>1, <3>2, <4>1
    <3>3. CASE c \notin mon[n]
      <4> DEFINE b == c \in mon[n]
      <4>0. b = FALSE
        BY <3>3
      <4>1. found' = [found EXCEPT ![c][n] = FALSE]
        <5>1. found' = [found EXCEPT ![c][n] = b]
          BY <2>1
        <5> HIDE DEF b
        <5> QED BY <4>0, <5>1
      <4> QED BY <3>1, <3>3, <4>1
    <3> QED BY <3>2, <3>3
  <2>3. SessionTypeOK'
    BY <1>1, <1>3, <1>5, <2>1, <2>2 DEF SessionTypeOK
  <2>4. EndFits(stage'[c][n], shut'[c][n], Current(c, n), Replaced(c, n), c \in idmap'[n], c \in mon'[n],
                c \in asking'[n], found'[c][n])
    BY <1>3, <1>4, <1>5, <2>1, <2>2 DEF EndFits
  <2>5. \A d \in Conns, k \in NodeNames : ~(d = c /\ k = n) =>
            /\ stage'[d][k] = stage[d][k] /\ shut'[d][k] = shut[d][k] /\ found'[d][k] = found[d][k]
            /\ d \in mon'[k] <=> d \in mon[k]
            /\ d \in asking'[k] <=> d \in asking[k]
            /\ d \in idmap'[k] <=> d \in idmap[k]
    BY <1>3, <1>5, <2>1, <2>2
  <2> QED BY <1>3, <1>4, <1>5, <2>1, <2>3, <2>4, <2>5, OneEndStep
<1>7. CASE FireSignals(n, c)
  <2>1. /\ stage[c][n] = "collected" /\ st = "gone"
        /\ mon' = IF found[c][n] THEN [mon EXCEPT ![n] = @ \ {c}] ELSE mon
        /\ downs' = [downs EXCEPT ![n][Peer(c, n)] = @ + 1]
        /\ UNCHANGED <<found, ups>>
    BY <1>1, <1>2, <1>3, <1>7 DEF FireSignals, SessionTypeOK
  <2>2. /\ mon' \in [NodeNames -> SUBSET Conns]
        /\ \A d \in Conns, k \in NodeNames :
              d \in mon'[k] <=> d \in mon[k] /\ ~(d = c /\ k = n /\ found[c][n])
    <3>1. mon \in [NodeNames -> SUBSET Conns]
      BY <1>1 DEF SessionTypeOK
    <3>2. CASE found[c][n]
      <4>1. /\ mon' \in [NodeNames -> SUBSET Conns]
            /\ \A k \in NodeNames : mon'[k] = IF k = n THEN mon[n] \ {c} ELSE mon[k]
        BY <2>1, <3>1, <3>2
      <4> QED BY <3>2, <4>1
    <3>3. CASE ~found[c][n]
      BY <2>1, <3>1, <3>3
    <3> QED BY <3>2, <3>3
  <2>3. downs' \in [NodeNames -> [NodeNames -> Nat]]
    <3>1. PICK m \in NodeNames : m = Peer(c, n)
      BY <1>1, <1>4, PeerType
    <3>2. downs \in [NodeNames -> [NodeNames -> Nat]] /\ downs[n][m] + 1 \in Nat
      BY SMTT(30), <1>1 DEF SessionTypeOK
    <3>3. downs' = [downs EXCEPT ![n][m] = downs[n][m] + 1]
      BY <2>1, <3>1
    <3> QED BY <3>2, <3>3, SetAt
  <2>4. SessionTypeOK'
    BY <1>1, <1>3, <1>5, <2>1, <2>2, <2>3 DEF SessionTypeOK
  <2>5. EndFits(stage'[c][n], shut'[c][n], Current(c, n), Replaced(c, n), c \in idmap'[n], c \in mon'[n],
                c \in asking'[n], found'[c][n])
    BY <1>1, <1>3, <1>4, <1>5, <2>1, <2>2 DEF EndInv, EndFits
  <2>6. \A d \in Conns, k \in NodeNames : ~(d = c /\ k = n) =>
            /\ stage'[d][k] = stage[d][k] /\ shut'[d][k] = shut[d][k] /\ found'[d][k] = found[d][k]
            /\ d \in mon'[k] <=> d \in mon[k]
            /\ d \in asking'[k] <=> d \in asking[k]
            /\ d \in idmap'[k] <=> d \in idmap[k]
    BY <1>3, <1>5, <2>1, <2>2
  <2> QED BY <1>3, <1>4, <1>5, <2>1, <2>4, <2>5, <2>6, OneEndStep
<1> QED BY <1>6, <1>7

\* A monitor is recorded before it is known whether it can be sent.
LEMMA MonitorStep ==
  ASSUME SessionInv, NEW c \in Conns, NEW n \in NodeNames, MonitorRecord(n, c) \/ MonitorSend(n, c)
  PROVE  SessionInv'
<1>1. SessionTypeOK /\ EndInv(c, n) /\ mon \in [NodeNames -> SUBSET Conns] /\ asking \in [NodeNames -> SUBSET Conns]
  BY DEF SessionInv, SessionTypeOK
<1>2. UNCHANGED <<ends, stage, shut, prev, sessions, idmap, cut, lists, want, found, ups, downs>>
  BY DEF MonitorRecord, MonitorSend
<1>3. /\ mon' \in [NodeNames -> SUBSET Conns] /\ asking' \in [NodeNames -> SUBSET Conns]
      /\ \A d \in Conns, k \in NodeNames : ~(d = c /\ k = n) =>
            (d \in mon'[k] <=> d \in mon[k]) /\ (d \in asking'[k] <=> d \in asking[k])
      /\ \/ c \in mon'[n] /\ c \in asking'[n] /\ stage[c][n] \notin {"none", "shaken"}
         \/ c \notin mon'[n]
         \/ c \in idmap[n] /\ (c \in mon'[n] => c \in mon[n])
  <2>1. CASE MonitorRecord(n, c)
    <3>1. /\ mon' = [mon EXCEPT ![n] = @ \cup {c}] /\ asking' = [asking EXCEPT ![n] = @ \cup {c}]
          /\ stage[c][n] \notin {"none", "shaken"}
      BY <2>1 DEF MonitorRecord
    <3> QED BY <1>1, <3>1
  <2>2. CASE MonitorSend(n, c)
    <3>1. /\ asking' = [asking EXCEPT ![n] = @ \ {c}]
          /\ \/ c \in idmap[n] /\ mon' = mon
             \/ mon' = [mon EXCEPT ![n] = @ \ {c}]
      BY <2>2 DEF MonitorSend
    <3>2. CASE c \in idmap[n] /\ mon' = mon
      BY <1>1, <3>1, <3>2
    <3>3. CASE mon' = [mon EXCEPT ![n] = @ \ {c}]
      BY <1>1, <3>1, <3>3
    <3> QED BY <3>1, <3>2, <3>3
  <2> QED BY <2>1, <2>2
<1>4. SessionTypeOK'
  BY <1>1, <1>2, <1>3 DEF SessionTypeOK
<1>5. EndFits(stage'[c][n], shut'[c][n], Current(c, n), Replaced(c, n), c \in idmap'[n], c \in mon'[n],
              c \in asking'[n], found'[c][n])
  <2>1. CASE c \in mon'[n] /\ c \in asking'[n] /\ stage[c][n] \notin {"none", "shaken"}
    BY <1>1, <1>2, <2>1 DEF EndInv, EndFits
  <2>2. CASE c \notin mon'[n]
    BY <1>1, <1>2, <2>2 DEF EndInv, EndFits
  <2>3. CASE c \in idmap[n] /\ (c \in mon'[n] => c \in mon[n])
    BY <1>1, <1>2, <2>3 DEF EndInv, EndFits
  <2> QED BY <1>3, <2>1, <2>2, <2>3
<1>6. /\ stage'[c][n] # "none" => Has(c, n)
      /\ stage'[c][n] \in {"none", "shaken"} => prev[c][n] = 0
  BY <1>1, <1>2 DEF EndInv
<1> QED BY <1>2, <1>3, <1>4, <1>5, <1>6, OneEndStep

LEMMA SessionInvStep ==
  ASSUME SessionInv, [SessionNext]_sessionVars
  PROVE  SessionInv'
<1>1. CASE UNCHANGED sessionVars
  BY <1>1, NoEndStep
<1>2. ASSUME NEW p \in Dials, Dial(p[1], p[2]) PROVE SessionInv'
  <2>1. PICK c \in 1..MaxDials : Open(c, p[1], p[2])
    BY <1>2 DEF Dial
  <2>2. c \in Conns /\ p[1] \in NodeNames /\ p[2] \in NodeNames
    BY SessionAssumption DEF Conns
  <2>3. want' \in [NodeNames -> SUBSET NodeNames]
    BY <1>2 DEF Dial, SessionInv, SessionTypeOK
  <2> QED BY <2>1, <2>2, <2>3, OpenStep
<1>3. ASSUME NEW n \in NodeNames, NEW m \in NodeNames, DialPeer(n, m) PROVE SessionInv'
  <2>1. PICK c \in (MaxDials + 1)..MaxConns : Open(c, n, m)
    BY <1>3 DEF DialPeer
  <2>2. c \in Conns
    BY SessionAssumption DEF Conns
  <2>3. want' \in [NodeNames -> SUBSET NodeNames]
    BY <1>3 DEF DialPeer, SessionInv, SessionTypeOK
  <2> QED BY <2>1, <2>2, <2>3, OpenStep
<1>4. ASSUME NEW c \in Conns, AcceptorShakes(c) \/ InitiatorShakes(c) PROVE SessionInv'
  <2>1. ends[c] \in NodeNames \X NodeNames
    BY <1>4 DEF AcceptorShakes, InitiatorShakes, SessionInv, SessionTypeOK
  <2>2. ends[c][1] \in NodeNames /\ ends[c][2] \in NodeNames
    BY <2>1
  <2> QED BY <1>4, <2>2, ShakeStep
<1>5. ASSUME NEW c \in Conns, Cut(c) PROVE SessionInv'
  BY <1>5, NoEndStep
<1>6. ASSUME NEW n \in NodeNames, NEW c \in Conns,
             \/ HandshakeFails(c, n) \/ RegisterInsert(n, c) \/ RegisterIds(n, c)
             \/ handle_peer_list(n, c) \/ SessionFails(n, c) \/ CleanupSession(n, c)
             \/ CleanupIds(n, c) \/ Collect(n, c) \/ FireSignals(n, c)
             \/ MonitorRecord(n, c) \/ MonitorSend(n, c)
      PROVE  SessionInv'
  BY <1>6, ShakeStep, RegisterInsertStep, RegisterIdsStep, NoEndStep, SessionFailsStep, CleanupSessionStep,
     CleanupIdsStep, DisconnectStep, MonitorStep
<1> QED BY <1>1, <1>2, <1>3, <1>4, <1>5, <1>6 DEF SessionNext
-----------------------------------------------------------------------------
LEMMA ConnsFinite == IsFiniteSet(Conns)
BY FS_Interval, SessionAssumption DEF Conns

\* One more, one less or as many, as c comes, goes or stays.
LEMMA CountMember ==
  ASSUME NEW S, NEW T, NEW c, IsFiniteSet(S), \A x : x # c => (x \in T <=> x \in S)
  PROVE  /\ Cardinality(S) \in Nat /\ Cardinality(T) \in Nat
         /\ (c \in S <=> c \in T) => Cardinality(T) = Cardinality(S)
         /\ c \notin S /\ c \in T => Cardinality(T) = Cardinality(S) + 1
         /\ c \in S /\ c \notin T => Cardinality(S) = Cardinality(T) + 1
<1>1. CASE c \in S <=> c \in T
  <2>1. S = T
    BY <1>1
  <2> QED BY <1>1, <2>1, FS_CardinalityType
<1>2. CASE c \notin S /\ c \in T
  <2>1. T = S \cup {c}
    BY <1>2
  <2>2. IsFiniteSet(T) /\ Cardinality(T) = Cardinality(S) + 1
    BY <1>2, <2>1, FS_AddElement
  <2> QED BY <1>2, <2>2, FS_CardinalityType
<1>3. CASE c \in S /\ c \notin T
  <2>1. T = S \ {c}
    BY <1>3
  <2>2. IsFiniteSet(T) /\ Cardinality(T) = Cardinality(S) - 1
    BY <1>3, <2>1, FS_RemoveElement
  <2>3. Cardinality(S) \in Nat /\ Cardinality(T) \in Nat
    BY <2>2, FS_CardinalityType
  <2> QED BY <1>3, <2>2, <2>3
<1> QED BY <1>1, <1>2, <1>3

\* Nothing that is counted changes.
LEMMA BalanceStays ==
  ASSUME SessionTypeOK, Balance, UNCHANGED <<stage, prev, sessions, ups, downs>>,
         \A d \in Conns, k \in NodeNames : stage[d][k] # "none" => ends'[d] = ends[d],
         \A d \in Conns, k \in NodeNames : Has(d, k)' /\ ~Has(d, k) => stage[d][k] = "none"
  PROVE  Balance'
<1> SUFFICES ASSUME NEW n \in NodeNames, NEW m \in NodeNames
             PROVE  ups'[n][m] + Cardinality(Fresh(n, m)')
                    = (downs'[n][m] + Cardinality(Leaving(n, m)')) + (IF sessions'[n][m] = 0 THEN 0 ELSE 1)
  BY DEF Balance
<1>1. \A d \in Conns : IsFresh(d, n)' = IsFresh(d, n) /\ IsLeaving(d, n)' = IsLeaving(d, n)
  BY DEF IsFresh, IsLeaving
<1>2. \A d \in Conns : stage[d][n] # "none" => Has(d, n)' = Has(d, n) /\ Peer(d, n)' = Peer(d, n)
  BY DEF Has, Peer
<1>3. \A d \in Conns : IsFresh(d, n) \/ IsLeaving(d, n) => stage[d][n] # "none"
  BY DEF IsFresh, IsLeaving
<1>4. Fresh(n, m)' = Fresh(n, m)
  BY <1>1, <1>2, <1>3 DEF Fresh, Conns
<1>5. Leaving(n, m)' = Leaving(n, m)
  BY <1>1, <1>2, <1>3 DEF Leaving, Conns
<1>6. ups[n][m] + Cardinality(Fresh(n, m))
        = (downs[n][m] + Cardinality(Leaving(n, m))) + (IF sessions[n][m] = 0 THEN 0 ELSE 1)
  BY DEF Balance
<1> QED BY <1>4, <1>5, <1>6

\* The five ways in which one end changes what is counted for its pair.
LEMMA BalanceStep ==
  ASSUME SessionTypeOK, SessionTypeOK', Balance, NEW c \in Conns, NEW n \in NodeNames, NEW m \in NodeNames,
         Has(c, n), Peer(c, n) = m, ends' = ends,
         \A d \in Conns, k \in NodeNames : ~(d = c /\ k = n) => stage'[d][k] = stage[d][k] /\ prev'[d][k] = prev[d][k],
         \A k \in NodeNames, j \in NodeNames : ~(k = n /\ j = m) =>
            ups'[k][j] = ups[k][j] /\ downs'[k][j] = downs[k][j] /\ sessions'[k][j] = sessions[k][j],
         \/ /\ IsFresh(c, n)' <=> IsFresh(c, n)
            /\ IsLeaving(c, n)' <=> IsLeaving(c, n)
            /\ ups'[n][m] = ups[n][m] /\ downs'[n][m] = downs[n][m]
            /\ sessions'[n][m] = 0 <=> sessions[n][m] = 0
         \/ /\ ~IsFresh(c, n) /\ IsFresh(c, n)' /\ (IsLeaving(c, n)' <=> IsLeaving(c, n))
            /\ ups'[n][m] = ups[n][m] /\ downs'[n][m] = downs[n][m]
            /\ sessions[n][m] = 0 /\ sessions'[n][m] # 0
         \/ /\ IsFresh(c, n) /\ ~IsFresh(c, n)' /\ (IsLeaving(c, n)' <=> IsLeaving(c, n))
            /\ ups'[n][m] = ups[n][m] + 1 /\ downs'[n][m] = downs[n][m]
            /\ sessions'[n][m] = sessions[n][m]
         \/ /\ ~IsLeaving(c, n) /\ IsLeaving(c, n)' /\ (IsFresh(c, n)' <=> IsFresh(c, n))
            /\ ups'[n][m] = ups[n][m] /\ downs'[n][m] = downs[n][m]
            /\ sessions[n][m] # 0 /\ sessions'[n][m] = 0
         \/ /\ IsLeaving(c, n) /\ ~IsLeaving(c, n)' /\ (IsFresh(c, n)' <=> IsFresh(c, n))
            /\ ups'[n][m] = ups[n][m] /\ downs'[n][m] = downs[n][m] + 1
            /\ sessions'[n][m] = sessions[n][m]
  PROVE  Balance'
<1>1. \A d, k : Has(d, k)' = Has(d, k) /\ Peer(d, k)' = Peer(d, k)
  BY DEF Has, Peer
<1>2. \A d \in Conns, k \in NodeNames : ~(d = c /\ k = n) =>
         (IsFresh(d, k)' <=> IsFresh(d, k)) /\ (IsLeaving(d, k)' <=> IsLeaving(d, k))
  BY DEF IsFresh, IsLeaving
<1>3. ASSUME NEW k \in NodeNames, NEW j \in NodeNames
      PROVE  /\ IsFiniteSet(Fresh(k, j)) /\ IsFiniteSet(Leaving(k, j))
             /\ \A d : d # c => (d \in Fresh(k, j)' <=> d \in Fresh(k, j))
             /\ \A d : d # c => (d \in Leaving(k, j)' <=> d \in Leaving(k, j))
  <2>1. Fresh(k, j) \subseteq Conns /\ Leaving(k, j) \subseteq Conns
    BY DEF Fresh, Leaving
  <2>2. IsFiniteSet(Fresh(k, j)) /\ IsFiniteSet(Leaving(k, j))
    BY <2>1, ConnsFinite, FS_Subset
  <2>3. \A d : d # c => (d \in Fresh(k, j)' <=> d \in Fresh(k, j))
    BY <1>1, <1>2 DEF Fresh, Conns
  <2>4. \A d : d # c => (d \in Leaving(k, j)' <=> d \in Leaving(k, j))
    BY <1>1, <1>2 DEF Leaving, Conns
  <2> QED BY <2>2, <2>3, <2>4
<1> SUFFICES ASSUME NEW k \in NodeNames, NEW j \in NodeNames
             PROVE  ups'[k][j] + Cardinality(Fresh(k, j)')
                    = (downs'[k][j] + Cardinality(Leaving(k, j)')) + (IF sessions'[k][j] = 0 THEN 0 ELSE 1)
  BY DEF Balance
<1>4. PICK F, G : F = Cardinality(Fresh(k, j)) /\ G = Cardinality(Fresh(k, j)')
  OBVIOUS
<1>5. PICK L, K : L = Cardinality(Leaving(k, j)) /\ K = Cardinality(Leaving(k, j)')
  OBVIOUS
<1>6. /\ F \in Nat /\ G \in Nat
      /\ (c \in Fresh(k, j) <=> c \in Fresh(k, j)') => G = F
      /\ c \notin Fresh(k, j) /\ c \in Fresh(k, j)' => G = F + 1
      /\ c \in Fresh(k, j) /\ c \notin Fresh(k, j)' => F = G + 1
  BY <1>3, <1>4, CountMember
<1>7. /\ L \in Nat /\ K \in Nat
      /\ (c \in Leaving(k, j) <=> c \in Leaving(k, j)') => K = L
      /\ c \notin Leaving(k, j) /\ c \in Leaving(k, j)' => K = L + 1
      /\ c \in Leaving(k, j) /\ c \notin Leaving(k, j)' => L = K + 1
  BY <1>3, <1>5, CountMember
<1>8. ups[k][j] + F = (downs[k][j] + L) + (IF sessions[k][j] = 0 THEN 0 ELSE 1)
  BY <1>4, <1>5 DEF Balance
<1>9. ups[k][j] \in Nat /\ downs[k][j] \in Nat /\ ups'[k][j] \in Nat /\ downs'[k][j] \in Nat
  BY DEF SessionTypeOK
<1>10. CASE ~(k = n /\ j = m)
  <2>1. (c \in Fresh(k, j) <=> c \in Fresh(k, j)') /\ (c \in Leaving(k, j) <=> c \in Leaving(k, j)')
    BY <1>1, <1>2, <1>10 DEF Fresh, Leaving, Conns
  <2>2. G = F /\ K = L
    BY <1>6, <1>7, <2>1
  <2>3. ups'[k][j] = ups[k][j] /\ downs'[k][j] = downs[k][j] /\ sessions'[k][j] = sessions[k][j]
    BY <1>10
  <2> QED BY <1>4, <1>5, <1>8, <2>2, <2>3
<1>11. CASE k = n /\ j = m
  <2>1. /\ c \in Fresh(k, j) <=> IsFresh(c, n)
        /\ c \in Fresh(k, j)' <=> IsFresh(c, n)'
        /\ c \in Leaving(k, j) <=> IsLeaving(c, n)
        /\ c \in Leaving(k, j)' <=> IsLeaving(c, n)'
    BY <1>1, <1>11 DEF Fresh, Leaving, Conns
  <2>2. \/ /\ G = F /\ K = L
           /\ ups'[k][j] = ups[k][j] /\ downs'[k][j] = downs[k][j]
           /\ sessions'[k][j] = 0 <=> sessions[k][j] = 0
        \/ /\ G = F + 1 /\ K = L
           /\ ups'[k][j] = ups[k][j] /\ downs'[k][j] = downs[k][j]
           /\ sessions[k][j] = 0 /\ sessions'[k][j] # 0
        \/ /\ F = G + 1 /\ K = L
           /\ ups'[k][j] = ups[k][j] + 1 /\ downs'[k][j] = downs[k][j]
           /\ sessions'[k][j] = sessions[k][j]
        \/ /\ G = F /\ K = L + 1
           /\ ups'[k][j] = ups[k][j] /\ downs'[k][j] = downs[k][j]
           /\ sessions[k][j] # 0 /\ sessions'[k][j] = 0
        \/ /\ G = F /\ L = K + 1
           /\ ups'[k][j] = ups[k][j] /\ downs'[k][j] = downs[k][j] + 1
           /\ sessions'[k][j] = sessions[k][j]
    BY <1>6, <1>7, <1>11, <2>1
  <2>3. ups'[k][j] + G = (downs'[k][j] + K) + (IF sessions'[k][j] = 0 THEN 0 ELSE 1)
    <3>1. PICK u \in Nat, v \in Nat, w \in Nat, x \in Nat :
             u = ups[k][j] /\ v = ups'[k][j] /\ w = downs[k][j] /\ x = downs'[k][j]
      BY <1>9
    <3>2. PICK y, z : y = (IF sessions[k][j] = 0 THEN 0 ELSE 1) /\ z = (IF sessions'[k][j] = 0 THEN 0 ELSE 1)
      OBVIOUS
    <3>3. /\ sessions[k][j] = 0 => y = 0
          /\ sessions[k][j] # 0 => y = 1
          /\ sessions'[k][j] = 0 => z = 0
          /\ sessions'[k][j] # 0 => z = 1
          /\ y \in 0..1 /\ z \in 0..1
      BY <3>2
    <3>4. u + F = (w + L) + y
      BY <1>8, <3>1, <3>2
    <3>5. \/ G = F /\ K = L /\ v = u /\ x = w /\ y = z
          \/ G = F + 1 /\ K = L /\ v = u /\ x = w /\ y = 0 /\ z = 1
          \/ F = G + 1 /\ K = L /\ v = u + 1 /\ x = w /\ y = z
          \/ G = F /\ K = L + 1 /\ v = u /\ x = w /\ y = 1 /\ z = 0
          \/ G = F /\ L = K + 1 /\ v = u /\ x = w + 1 /\ y = z
      BY <2>2, <3>1, <3>3
    <3>6. v + G = (x + K) + z
      BY <1>6, <1>7, <3>3, <3>4, <3>5
    <3> QED BY <3>1, <3>2, <3>6
  <2> QED BY <1>4, <1>5, <2>3
<1> QED BY <1>10, <1>11

LEMMA BalanceInit == SessionInit => Balance
<1> SUFFICES ASSUME SessionInit, NEW n \in NodeNames, NEW m \in NodeNames
             PROVE  ups[n][m] + Cardinality(Fresh(n, m))
                    = (downs[n][m] + Cardinality(Leaving(n, m))) + (IF sessions[n][m] = 0 THEN 0 ELSE 1)
  BY DEF Balance
<1>1. ups[n][m] = 0 /\ downs[n][m] = 0 /\ sessions[n][m] = 0
  BY DEF SessionInit
<1>2. Fresh(n, m) = {} /\ Leaving(n, m) = {}
  BY DEF SessionInit, Fresh, Leaving, IsFresh, IsLeaving
<1> QED BY <1>1, <1>2, FS_EmptySet

\* RegisterInsert counts a session that is told of later, unless it replaces.
LEMMA InsertBalance ==
  ASSUME SessionInv, SessionTypeOK', Balance, NEW c \in Conns, NEW n \in NodeNames, RegisterInsert(n, c)
  PROVE  Balance'
<1>1. SessionTypeOK /\ EndInv(c, n)
  BY DEF SessionInv
<1>2. PICK m \in NodeNames : m = Peer(c, n) /\ Has(c, n)
  BY <1>1, PeerType DEF RegisterInsert
<1>3. PICK d \in 0..MaxConns : d = sessions[n][m]
  <2>1. sessions \in [NodeNames -> [NodeNames -> 0..MaxConns]]
    BY <1>1 DEF SessionTypeOK
  <2> QED BY <2>1
<1>4. /\ stage[c][n] = "shaken"
      /\ UNCHANGED <<ends, ups, downs>>
      /\ \/ stage' = [stage EXCEPT ![c][n] = "gone"] /\ UNCHANGED <<sessions, prev>>
         \/ /\ stage' = [stage EXCEPT ![c][n] = "inserted"]
            /\ sessions' = [sessions EXCEPT ![n][m] = c]
            /\ prev' = [prev EXCEPT ![c][n] = d]
  BY <1>2, <1>3 DEF RegisterInsert
<1>5. ~IsFresh(c, n) /\ ~IsLeaving(c, n)
  BY <1>4 DEF IsFresh, IsLeaving
<1>6. CASE stage' = [stage EXCEPT ![c][n] = "gone"] /\ UNCHANGED <<sessions, prev>>
  <2>1. /\ stage'[c][n] = "gone"
        /\ \A x \in Conns, k \in NodeNames : ~(x = c /\ k = n) => stage'[x][k] = stage[x][k] /\ prev'[x][k] = prev[x][k]
    BY <1>1, <1>6 DEF SessionTypeOK
  <2>2. ~IsFresh(c, n)' /\ ~IsLeaving(c, n)'
    BY <2>1 DEF IsFresh, IsLeaving
  <2> QED BY <1>1, <1>2, <1>4, <1>5, <1>6, <2>1, <2>2, BalanceStep
<1>7. CASE /\ stage' = [stage EXCEPT ![c][n] = "inserted"]
           /\ sessions' = [sessions EXCEPT ![n][m] = c]
           /\ prev' = [prev EXCEPT ![c][n] = d]
  <2>1. /\ stage'[c][n] = "inserted" /\ prev'[c][n] = d
        /\ \A x \in Conns, k \in NodeNames : ~(x = c /\ k = n) => stage'[x][k] = stage[x][k] /\ prev'[x][k] = prev[x][k]
    <3>1. stage \in [Conns -> [NodeNames -> Stages]] /\ prev \in [Conns -> [NodeNames -> 0..MaxConns]]
      BY <1>1 DEF SessionTypeOK
    <3>2. /\ stage'[c][n] = "inserted"
          /\ \A x \in Conns, k \in NodeNames : ~(x = c /\ k = n) => stage'[x][k] = stage[x][k]
      BY <1>7, <3>1
    <3>3. /\ prev'[c][n] = d
          /\ \A x \in Conns, k \in NodeNames : ~(x = c /\ k = n) => prev'[x][k] = prev[x][k]
      BY <1>7, <3>1
    <3> QED BY <3>2, <3>3
  <2>2. /\ sessions'[n][m] = c /\ c # 0
        /\ \A k \in NodeNames, j \in NodeNames : ~(k = n /\ j = m) => sessions'[k][j] = sessions[k][j]
    BY <1>1, <1>7, ConnNumbers DEF SessionTypeOK
  <2>3. ~IsLeaving(c, n)' /\ (IsFresh(c, n)' <=> d = 0)
    BY <2>1 DEF IsFresh, IsLeaving
  <2>4. \A k \in NodeNames, j \in NodeNames : ~(k = n /\ j = m) =>
            ups'[k][j] = ups[k][j] /\ downs'[k][j] = downs[k][j] /\ sessions'[k][j] = sessions[k][j]
    BY <1>4, <2>2
  <2>5. CASE d = 0
    <3>1. /\ ~IsFresh(c, n) /\ IsFresh(c, n)' /\ (IsLeaving(c, n)' <=> IsLeaving(c, n))
          /\ ups'[n][m] = ups[n][m] /\ downs'[n][m] = downs[n][m]
          /\ sessions[n][m] = 0 /\ sessions'[n][m] # 0
      BY <1>3, <1>4, <1>5, <2>2, <2>3, <2>5
    <3> QED BY <1>1, <1>2, <1>4, <2>1, <2>4, <3>1, BalanceStep
  <2>6. CASE d # 0
    <3>1. /\ IsFresh(c, n)' <=> IsFresh(c, n)
          /\ IsLeaving(c, n)' <=> IsLeaving(c, n)
          /\ ups'[n][m] = ups[n][m] /\ downs'[n][m] = downs[n][m]
          /\ sessions'[n][m] = 0 <=> sessions[n][m] = 0
      BY <1>3, <1>4, <1>5, <2>2, <2>3, <2>6
    <3> QED BY <1>1, <1>2, <1>4, <2>1, <2>4, <3>1, BalanceStep
  <2> QED BY <2>5, <2>6
<1> QED BY <1>4, <1>6, <1>7

\* RegisterIds tells what RegisterInsert counted.
LEMMA IdsBalance ==
  ASSUME SessionInv, SessionTypeOK', Balance, NEW c \in Conns, NEW n \in NodeNames, RegisterIds(n, c)
  PROVE  Balance'
<1>1. SessionTypeOK
  BY DEF SessionInv
<1>2. PICK m \in NodeNames : m = Peer(c, n) /\ Has(c, n)
  BY <1>1, PeerType DEF RegisterIds
<1>3. /\ stage[c][n] = "inserted" /\ stage' = [stage EXCEPT ![c][n] = "up"]
      /\ ups' = IF prev[c][n] = 0 THEN [ups EXCEPT ![n][m] = @ + 1] ELSE ups
      /\ UNCHANGED <<ends, prev, sessions, downs>>
  BY <1>2 DEF RegisterIds
<1>4. /\ stage'[c][n] = "up"
      /\ \A x \in Conns, k \in NodeNames : ~(x = c /\ k = n) => stage'[x][k] = stage[x][k] /\ prev'[x][k] = prev[x][k]
  BY <1>1, <1>3 DEF SessionTypeOK
<1>5. ~IsLeaving(c, n) /\ ~IsLeaving(c, n)' /\ ~IsFresh(c, n)' /\ (IsFresh(c, n) <=> prev[c][n] = 0)
  BY <1>3, <1>4 DEF IsFresh, IsLeaving
<1>6. CASE prev[c][n] = 0
  <2>1. ups' = [ups EXCEPT ![n][m] = ups[n][m] + 1] /\ ups \in [NodeNames -> [NodeNames -> Nat]] /\ ups[n][m] + 1 \in Nat
    BY <1>1, <1>3, <1>6 DEF SessionTypeOK
  <2>2. \A k \in NodeNames, j \in NodeNames : ups'[k][j] = IF k = n /\ j = m THEN ups[n][m] + 1 ELSE ups[k][j]
    BY ZenonT(30), <2>1, SetAt
  <2>3. /\ IsFresh(c, n) /\ ~IsFresh(c, n)' /\ (IsLeaving(c, n)' <=> IsLeaving(c, n))
        /\ ups'[n][m] = ups[n][m] + 1 /\ downs'[n][m] = downs[n][m]
        /\ sessions'[n][m] = sessions[n][m]
    BY <1>3, <1>5, <1>6, <2>2
  <2>4. \A k \in NodeNames, j \in NodeNames : ~(k = n /\ j = m) =>
            ups'[k][j] = ups[k][j] /\ downs'[k][j] = downs[k][j] /\ sessions'[k][j] = sessions[k][j]
    BY <1>3, <2>2
  <2> QED BY <1>1, <1>2, <1>3, <1>4, <2>3, <2>4, BalanceStep
<1>7. CASE prev[c][n] # 0
  <2>1. /\ IsFresh(c, n)' <=> IsFresh(c, n)
        /\ IsLeaving(c, n)' <=> IsLeaving(c, n)
        /\ ups'[n][m] = ups[n][m] /\ downs'[n][m] = downs[n][m]
        /\ sessions'[n][m] = 0 <=> sessions[n][m] = 0
    BY <1>3, <1>5, <1>7
  <2>2. UNCHANGED <<ups, downs, sessions>>
    BY <1>3, <1>7
  <2> QED BY <1>1, <1>2, <1>3, <1>4, <2>1, <2>2, BalanceStep
<1> QED BY <1>6, <1>7

\* The table and what is left to do: one less and one more.
LEMMA CleanupBalance ==
  ASSUME SessionInv, SessionTypeOK', Balance, NEW c \in Conns, NEW n \in NodeNames, CleanupSession(n, c)
  PROVE  Balance'
<1>1. SessionTypeOK
  BY DEF SessionInv
<1>2. PICK m \in NodeNames : m = Peer(c, n) /\ Has(c, n)
  BY <1>1, PeerType DEF CleanupSession
<1>3. /\ stage[c][n] = "up"
      /\ stage' = [stage EXCEPT ![c][n] = IF sessions[n][m] = c THEN "removed" ELSE "gone"]
      /\ sessions' = IF sessions[n][m] = c THEN [sessions EXCEPT ![n][m] = 0] ELSE sessions
      /\ UNCHANGED <<ends, prev, ups, downs>>
  BY <1>2 DEF CleanupSession
<1>4. ~IsFresh(c, n) /\ ~IsLeaving(c, n)
  BY <1>3 DEF IsFresh, IsLeaving
<1>5. CASE sessions[n][m] = c
  <2>1. /\ stage'[c][n] = "removed"
        /\ \A x \in Conns, k \in NodeNames : ~(x = c /\ k = n) => stage'[x][k] = stage[x][k] /\ prev'[x][k] = prev[x][k]
    BY <1>1, <1>3, <1>5 DEF SessionTypeOK
  <2>2. /\ sessions'[n][m] = 0 /\ sessions[n][m] # 0
        /\ \A k \in NodeNames, j \in NodeNames : ~(k = n /\ j = m) => sessions'[k][j] = sessions[k][j]
    BY <1>1, <1>3, <1>5, ConnNumbers DEF SessionTypeOK
  <2>3. /\ ~IsLeaving(c, n) /\ IsLeaving(c, n)' /\ (IsFresh(c, n)' <=> IsFresh(c, n))
        /\ ups'[n][m] = ups[n][m] /\ downs'[n][m] = downs[n][m]
        /\ sessions[n][m] # 0 /\ sessions'[n][m] = 0
    <3>1. IsLeaving(c, n)' /\ ~IsFresh(c, n)'
      BY <2>1 DEF IsFresh, IsLeaving
    <3> QED BY <1>3, <1>4, <2>2, <3>1
  <2>4. \A k \in NodeNames, j \in NodeNames : ~(k = n /\ j = m) =>
            ups'[k][j] = ups[k][j] /\ downs'[k][j] = downs[k][j] /\ sessions'[k][j] = sessions[k][j]
    BY <1>3, <2>2
  <2> QED BY <1>1, <1>2, <1>3, <2>1, <2>3, <2>4, BalanceStep
<1>6. CASE sessions[n][m] # c
  <2>1. /\ stage'[c][n] = "gone" /\ sessions' = sessions
        /\ \A x \in Conns, k \in NodeNames : ~(x = c /\ k = n) => stage'[x][k] = stage[x][k] /\ prev'[x][k] = prev[x][k]
    BY <1>1, <1>3, <1>6 DEF SessionTypeOK
  <2>2. ~IsFresh(c, n)' /\ ~IsLeaving(c, n)'
    BY <2>1 DEF IsFresh, IsLeaving
  <2> QED BY <1>1, <1>2, <1>3, <1>4, <2>1, <2>2, BalanceStep
<1> QED BY <1>5, <1>6

\* The shaken ends, and those on their way from the table to the event.
LEMMA OtherBalance ==
  ASSUME SessionInv, SessionTypeOK', Balance, NEW c \in Conns, NEW n \in NodeNames,
         \/ n = ends[c][2] /\ AcceptorShakes(c)
         \/ n = ends[c][1] /\ InitiatorShakes(c)
         \/ HandshakeFails(c, n) \/ CleanupIds(n, c) \/ Collect(n, c)
  PROVE  Balance'
<1>1. SessionTypeOK /\ EndInv(c, n)
  BY DEF SessionInv
<1>2. /\ UNCHANGED <<ends, prev, sessions, ups, downs>>
      /\ \/ stage[c][n] = "none" /\ stage' = [stage EXCEPT ![c][n] = "shaken"]
         \/ stage[c][n] = "none" /\ stage' = [stage EXCEPT ![c][n] = "gone"]
         \/ stage[c][n] = "removed" /\ stage' = [stage EXCEPT ![c][n] = "unmapped"]
         \/ stage[c][n] = "unmapped" /\ stage' = [stage EXCEPT ![c][n] = "collected"]
  BY DEF AcceptorShakes, InitiatorShakes, HandshakeFails, CleanupIds, Collect
<1>3. PICK m \in NodeNames : m = Peer(c, n) /\ Has(c, n)
  <2>1. Has(c, n)
    BY <1>1 DEF EndInv, AcceptorShakes, InitiatorShakes, HandshakeFails, CleanupIds, Collect, Has
  <2> QED BY <1>1, <2>1, PeerType
<1>4. PICK st :
         /\ stage' = [stage EXCEPT ![c][n] = st]
         /\ \/ stage[c][n] = "none" /\ st \in {"shaken", "gone"}
            \/ stage[c][n] = "removed" /\ st = "unmapped"
            \/ stage[c][n] = "unmapped" /\ st = "collected"
  BY <1>2
<1>5. /\ stage'[c][n] = st
      /\ \A x \in Conns, k \in NodeNames : ~(x = c /\ k = n) => stage'[x][k] = stage[x][k]
  <2>1. stage \in [Conns -> [NodeNames -> Stages]]
    BY <1>1 DEF SessionTypeOK
  <2> QED BY <1>4, <2>1
<1>6. (IsFresh(c, n)' <=> IsFresh(c, n)) /\ (IsLeaving(c, n)' <=> IsLeaving(c, n))
  BY <1>4, <1>5 DEF IsFresh, IsLeaving
<1> QED BY <1>1, <1>2, <1>3, <1>5, <1>6, BalanceStep

LEMMA FireBalance ==
  ASSUME SessionInv, SessionTypeOK', Balance, NEW c \in Conns, NEW n \in NodeNames, FireSignals(n, c)
  PROVE  Balance'
<1>1. SessionTypeOK /\ EndInv(c, n)
  BY DEF SessionInv
<1>2. PICK m \in NodeNames : m = Peer(c, n) /\ Has(c, n)
  <2>1. Has(c, n)
    BY <1>1 DEF FireSignals, EndInv
  <2> QED BY <1>1, <2>1, PeerType
<1>3. /\ stage[c][n] = "collected" /\ stage' = [stage EXCEPT ![c][n] = "gone"]
      /\ downs' = [downs EXCEPT ![n][m] = downs[n][m] + 1]
      /\ UNCHANGED <<ends, prev, sessions, ups>>
  BY <1>2 DEF FireSignals
<1>4. /\ stage'[c][n] = "gone"
      /\ \A x \in Conns, k \in NodeNames : ~(x = c /\ k = n) => stage'[x][k] = stage[x][k] /\ prev'[x][k] = prev[x][k]
  BY <1>1, <1>3 DEF SessionTypeOK
<1>5. \A k \in NodeNames, j \in NodeNames : downs'[k][j] = IF k = n /\ j = m THEN downs[n][m] + 1 ELSE downs[k][j]
  <2>1. downs \in [NodeNames -> [NodeNames -> Nat]]
    BY <1>1 DEF SessionTypeOK
  <2>2. PICK v \in Nat : v = downs[n][m] + 1
    BY <2>1
  <2>3. downs' = [downs EXCEPT ![n][m] = v]
    BY <1>3, <2>2
  <2>4. \A k \in NodeNames, j \in NodeNames : downs'[k][j] = IF k = n /\ j = m THEN v ELSE downs[k][j]
    BY <2>1, <2>3
  <2> QED BY <2>2, <2>4
<1>6. /\ IsLeaving(c, n) /\ ~IsLeaving(c, n)' /\ (IsFresh(c, n)' <=> IsFresh(c, n))
      /\ ups'[n][m] = ups[n][m] /\ downs'[n][m] = downs[n][m] + 1
      /\ sessions'[n][m] = sessions[n][m]
  <2>1. IsLeaving(c, n) /\ ~IsLeaving(c, n)' /\ ~IsFresh(c, n)' /\ ~IsFresh(c, n)
    BY <1>3, <1>4 DEF IsLeaving, IsFresh
  <2> QED BY <1>3, <1>5, <2>1
<1>7. \A k \in NodeNames, j \in NodeNames : ~(k = n /\ j = m) =>
            ups'[k][j] = ups[k][j] /\ downs'[k][j] = downs[k][j] /\ sessions'[k][j] = sessions[k][j]
  BY <1>3, <1>5
<1> QED BY <1>1, <1>2, <1>3, <1>4, <1>6, <1>7, BalanceStep

LEMMA OpenBalance ==
  ASSUME SessionInv, Balance, NEW c \in Conns, NEW n \in NodeNames, NEW m \in NodeNames, Open(c, n, m)
  PROVE  Balance'
<1>1. /\ ends[c] = <<>> /\ ends' = [ends EXCEPT ![c] = <<n, m>>]
      /\ UNCHANGED <<stage, prev, sessions, ups, downs>>
  BY DEF Open
<1>2. SessionTypeOK /\ ends \in [Conns -> {<<>>} \cup (NodeNames \X NodeNames)]
  BY DEF SessionInv, SessionTypeOK
<1>3. \A d \in Conns \ {c} : ends'[d] = ends[d]
  BY <1>1, <1>2
<1>4. \A k \in NodeNames : stage[c][k] = "none"
  BY <1>1 DEF SessionInv, EndInv, Has
<1>5. \A d \in Conns, k \in NodeNames : stage[d][k] # "none" => ends'[d] = ends[d]
  BY <1>3, <1>4
<1>6. \A d \in Conns, k \in NodeNames : Has(d, k)' /\ ~Has(d, k) => stage[d][k] = "none"
  BY <1>3, <1>4 DEF Has
<1> QED BY <1>1, <1>2, <1>5, <1>6, BalanceStays

LEMMA BalanceNext ==
  ASSUME SessionInv, SessionInv', Balance, [SessionNext]_sessionVars
  PROVE  Balance'
<1>0. SessionTypeOK /\ SessionTypeOK'
  BY DEF SessionInv
<1>1. ASSUME UNCHANGED <<ends, stage, prev, sessions, ups, downs>> PROVE Balance'
  BY <1>0, <1>1, BalanceStays DEF Has
<1>2. CASE UNCHANGED sessionVars
  BY <1>1, <1>2 DEF sessionVars
<1>3. ASSUME NEW p \in Dials, Dial(p[1], p[2]) PROVE Balance'
  <2>1. PICK c \in 1..MaxDials : Open(c, p[1], p[2])
    BY <1>3 DEF Dial
  <2>2. c \in Conns /\ p[1] \in NodeNames /\ p[2] \in NodeNames
    BY SessionAssumption DEF Conns
  <2> QED BY <2>1, <2>2, OpenBalance
<1>4. ASSUME NEW n \in NodeNames, NEW m \in NodeNames, DialPeer(n, m) PROVE Balance'
  <2>1. PICK c \in (MaxDials + 1)..MaxConns : Open(c, n, m)
    BY <1>4 DEF DialPeer
  <2>2. c \in Conns
    BY SessionAssumption DEF Conns
  <2> QED BY <2>1, <2>2, OpenBalance
<1>5. ASSUME NEW c \in Conns, AcceptorShakes(c) \/ InitiatorShakes(c) PROVE Balance'
  <2>1. ends[c] \in NodeNames \X NodeNames
    BY <1>0, <1>5 DEF AcceptorShakes, InitiatorShakes, SessionTypeOK
  <2>2. ends[c][1] \in NodeNames /\ ends[c][2] \in NodeNames
    BY <2>1
  <2> QED BY <1>0, <1>5, <2>2, OtherBalance
<1>6. ASSUME NEW c \in Conns, Cut(c) PROVE Balance'
  BY <1>1, <1>6 DEF Cut
<1>7. ASSUME NEW n \in NodeNames, NEW c \in Conns,
             handle_peer_list(n, c) \/ SessionFails(n, c) \/ MonitorRecord(n, c) \/ MonitorSend(n, c)
      PROVE  Balance'
  BY <1>1, <1>7 DEF handle_peer_list, SessionFails, MonitorRecord, MonitorSend
<1>8. ASSUME NEW n \in NodeNames, NEW c \in Conns,
             \/ HandshakeFails(c, n) \/ RegisterInsert(n, c) \/ RegisterIds(n, c)
             \/ CleanupSession(n, c) \/ CleanupIds(n, c) \/ Collect(n, c) \/ FireSignals(n, c)
      PROVE  Balance'
  BY <1>0, <1>8, OtherBalance, InsertBalance, IdsBalance, CleanupBalance, FireBalance
<1> QED BY <1>2, <1>3, <1>4, <1>5, <1>6, <1>7, <1>8 DEF SessionNext
-----------------------------------------------------------------------------
\* Two connections of one pair are opposite ones when none has a double.
LEMMA Opposite ==
  ASSUME SessionTypeOK, Unique, NEW c \in Conns, NEW d \in Conns, c # d, NEW n \in NodeNames,
         Has(c, n), Has(d, n), Peer(c, n) = Peer(d, n)
  PROVE  /\ ends[d] = <<ends[c][2], ends[c][1]>> /\ ends[c] = <<ends[d][2], ends[d][1]>>
         /\ Direction(c, n) # Direction(d, n)
<1>1. ends[c] \in NodeNames \X NodeNames /\ ends[d] \in NodeNames \X NodeNames /\ ends[c] # ends[d]
  BY PeerType DEF Unique, Has
<1>2. PICK a \in NodeNames, b \in NodeNames : ends[c] = <<a, b>> /\ ends[c][1] = a /\ ends[c][2] = b
  BY <1>1
<1>3. PICK e \in NodeNames, f \in NodeNames : ends[d] = <<e, f>> /\ ends[d][1] = e /\ ends[d][2] = f
  BY <1>1
<1>4. a # e \/ b # f
  BY <1>1, <1>2, <1>3
<1>5. n \in {a, b} /\ n \in {e, f}
  BY <1>2, <1>3 DEF Has
<1>6. (IF a = n THEN b ELSE a) = (IF e = n THEN f ELSE e)
  BY <1>2, <1>3 DEF Peer
<1>7. a = f /\ b = e /\ (a = n <=> e # n)
  BY <1>4, <1>5, <1>6
<1>8. "Outgoing" # "Incoming"
  OBVIOUS
<1> QED BY <1>2, <1>3, <1>7, <1>8 DEF Direction

LEMMA PreferredHere ==
  ASSUME SessionTypeOK, NEW c \in Conns, NEW n \in NodeNames, Has(c, n), Preferred(c)
  PROVE  Direction(c, n) = preferred_session_direction(n, Peer(c, n))
<1>1. ends[c] \in NodeNames \X NodeNames
  BY PeerType
<1>2. PICK a \in Nat, b \in Nat : ends[c][1] = a /\ ends[c][2] = b
  BY <1>1, SessionAssumption
<1>3. a < b /\ n \in {a, b}
  BY <1>2 DEF Preferred, Has
<1> QED BY <1>2, <1>3 DEF Direction, Peer, preferred_session_direction

Keeps(c, n) == stage[c][n] \in {"none", "shaken", "inserted", "up"} /\ ~shut[c][n]

LEMMA StrongEnds ==
  ASSUME StrongKept, ends' = ends, cut' = {} => cut = {},
         ASSUME cut = {}, Unique, NEW c \in Conns, NEW n \in NodeNames, Strong(c), Has(c, n)
         PROVE  Keeps(c, n)'
  PROVE  StrongKept'
<1>1. Unique' = Unique
  BY DEF Unique
<1>2. \A c : Strong(c)' = Strong(c) /\ \A n : Has(c, n)' = Has(c, n)
  BY DEF Strong, Preferred, Has
<1> QED BY <1>1, <1>2 DEF StrongKept, Keeps

LEMMA StrongOpen ==
  ASSUME SessionInv, StrongKept, NEW e \in Conns, NEW n \in NodeNames, NEW m \in NodeNames, Open(e, n, m)
  PROVE  StrongKept'
<1>1. /\ ends[e] = <<>> /\ ends' = [ends EXCEPT ![e] = <<n, m>>] /\ UNCHANGED <<stage, shut, cut>>
  BY DEF Open
<1>2. \A d \in Conns \ {e} : ends'[d] = ends[d]
  BY <1>1 DEF SessionInv, SessionTypeOK
<1> SUFFICES ASSUME cut' = {}, Unique', NEW c \in Conns, NEW k \in NodeNames, Strong(c)', Has(c, k)'
             PROVE  stage'[c][k] \in {"none", "shaken", "inserted", "up"} /\ ~shut'[c][k]
  BY DEF StrongKept
<1>3. CASE c = e
  <2>1. stage[c][k] = "none"
    BY <1>1, <1>3 DEF SessionInv, EndInv, Has
  <2>2. ~shut[c][k]
    BY <2>1 DEF SessionInv, EndInv, EndFits
  <2> QED BY <1>1, <2>1, <2>2
<1>4. CASE c # e
  <2>1. Unique
    <3> SUFFICES ASSUME NEW x \in Conns, NEW y \in Conns, x # y, ends[x] # <<>> PROVE ends[x] # ends[y]
      BY DEF Unique
    <3>1. x # e /\ ends'[x] = ends[x] /\ ends'[x] # ends'[y]
      BY <1>1, <1>2 DEF Unique
    <3> QED BY <1>1, <1>2, <3>1
  <2>2. Has(c, k) /\ ends'[c] = ends[c]
    BY <1>2, <1>4 DEF Has
  <2>3. Strong(c)
    <3>1. ends[c] # <<>> /\ (Preferred(c) \/ \A d \in Conns \ {c} : ends'[d] # <<ends[c][2], ends[c][1]>>)
      BY <2>2 DEF Strong, Preferred
    <3>2. \A d \in Conns \ {c} : ends'[d] # <<ends[c][2], ends[c][1]>> => ends[d] # <<ends[c][2], ends[c][1]>>
      <4> SUFFICES ASSUME NEW d \in Conns, ends'[d] # <<ends[c][2], ends[c][1]>>
                   PROVE  ends[d] # <<ends[c][2], ends[c][1]>>
        OBVIOUS
      <4>1. CASE d = e
        <5>1. <<>> # <<ends[c][2], ends[c][1]>>
          OBVIOUS
        <5> QED BY <1>1, <4>1, <5>1
      <4>2. CASE d # e
        BY <1>2, <4>2
      <4> QED BY <4>1, <4>2
    <3> QED BY <3>1, <3>2 DEF Strong
  <2> QED BY <1>1, <2>1, <2>2, <2>3 DEF StrongKept
<1> QED BY <1>3, <1>4

\* Of two opposite connections the preferred one is never turned down, and
\* never replaced.
LEMMA StrongInsert ==
  ASSUME SessionInv, StrongKept, NEW c \in Conns, NEW n \in NodeNames, RegisterInsert(n, c)
  PROVE  StrongKept'
<1>1. SessionTypeOK /\ TableInv /\ SessionInv
  BY DEF SessionInv
<1>2. PICK m \in NodeNames : m = Peer(c, n) /\ Has(c, n)
  BY <1>1, PeerType DEF RegisterInsert
<1>3. PICK d \in 0..MaxConns : d = sessions[n][m]
  <2>1. sessions \in [NodeNames -> [NodeNames -> 0..MaxConns]]
    BY <1>1 DEF SessionTypeOK
  <2> QED BY <2>1
<1>4. /\ stage[c][n] = "shaken"
      /\ UNCHANGED <<ends, cut>>
      /\ \/ d # 0 /\ ~Replaces(n, c, d) /\ stage' = [stage EXCEPT ![c][n] = "gone"] /\ shut' = shut
         \/ /\ d = 0 \/ Replaces(n, c, d)
            /\ stage' = [stage EXCEPT ![c][n] = "inserted"]
            /\ shut' = IF d = 0 THEN shut ELSE [shut EXCEPT ![d][n] = TRUE]
  BY <1>2, <1>3 DEF RegisterInsert
<1>5. d # 0 => d \in Conns /\ d # c /\ Has(d, n) /\ Peer(d, n) = m
  <2> SUFFICES ASSUME d # 0 PROVE d \in Conns /\ d # c /\ Has(d, n) /\ Peer(d, n) = m
    OBVIOUS
  <2>1. d \in Conns
    BY SessionAssumption DEF Conns
  <2>2. Has(d, n) /\ Peer(d, n) = m /\ Current(d, n)
    BY <1>1, <1>3, <2>1 DEF TableInv, Current
  <2>3. stage[d][n] # "shaken"
    BY <2>1, <2>2 DEF SessionInv, EndInv, EndFits
  <2> QED BY <1>4, <2>1, <2>2, <2>3
<1>6. ASSUME cut = {}, Unique, d # 0
      PROVE  (Strong(c) => Replaces(n, c, d)) /\ (Strong(d) => ~Replaces(n, c, d))
  <2>1. /\ ends[d] = <<ends[c][2], ends[c][1]>> /\ ends[c] = <<ends[d][2], ends[d][1]>>
        /\ Direction(c, n) # Direction(d, n)
    BY <1>1, <1>2, <1>5, <1>6, Opposite
  <2>2. ASSUME Strong(c) PROVE Replaces(n, c, d)
    <3>1. Preferred(c)
      BY <1>5, <1>6, <2>1, <2>2 DEF Strong
    <3>2. Direction(c, n) = preferred_session_direction(n, Peer(c, n))
      BY <1>1, <1>2, <3>1, PreferredHere
    <3> QED BY <2>1, <3>2 DEF Replaces
  <2>3. ASSUME Strong(d) PROVE ~Replaces(n, c, d)
    <3>1. Preferred(d)
      BY <1>5, <1>6, <2>1, <2>3 DEF Strong
    <3>2. Direction(d, n) = preferred_session_direction(n, Peer(c, n))
      BY <1>1, <1>2, <1>5, <1>6, <3>1, PreferredHere
    <3>3. ~shut[d][n]
      BY <1>5, <1>6, <2>3 DEF StrongKept
    <3> QED BY <3>2, <3>3 DEF Replaces
  <2> QED BY <2>2, <2>3
<1>7. ASSUME cut = {}, Unique, NEW x \in Conns, NEW k \in NodeNames, Strong(x), Has(x, k)
      PROVE  Keeps(x, k)'
  <2>1. stage[x][k] \in {"none", "shaken", "inserted", "up"} /\ ~shut[x][k]
    BY <1>7 DEF StrongKept
  <2>2. CASE d # 0 /\ ~Replaces(n, c, d) /\ stage' = [stage EXCEPT ![c][n] = "gone"] /\ shut' = shut
    <3>1. ~(x = c /\ k = n)
      BY <1>6, <1>7, <2>2
    <3>2. stage'[x][k] = stage[x][k]
      BY <1>1, <2>2, <3>1 DEF SessionTypeOK
    <3> QED BY <2>1, <2>2, <3>2 DEF Keeps
  <2>3. CASE /\ d = 0 \/ Replaces(n, c, d)
             /\ stage' = [stage EXCEPT ![c][n] = "inserted"]
             /\ shut' = IF d = 0 THEN shut ELSE [shut EXCEPT ![d][n] = TRUE]
    <3>1. stage'[x][k] \in {"none", "shaken", "inserted", "up"}
      BY <1>1, <2>1, <2>3 DEF SessionTypeOK
    <3>2. shut'[x][k] = shut[x][k]
      <4>1. CASE d = 0
        BY <2>3, <4>1
      <4>2. CASE d # 0
        <5>1. ~(x = d /\ k = n)
          BY <1>6, <1>7, <2>3, <4>2
        <5>2. shut' = [shut EXCEPT ![d][n] = TRUE] /\ shut \in [Conns -> [NodeNames -> BOOLEAN]]
          BY <1>1, <2>3, <4>2 DEF SessionTypeOK
        <5> QED BY <5>1, <5>2
      <4> QED BY <4>1, <4>2
    <3> QED BY <2>1, <3>1, <3>2 DEF Keeps
  <2> QED BY <1>4, <2>2, <2>3
<1> QED BY <1>4, <1>7, StrongEnds

\* Every other step of an end, which goes on or is not of a strong connection.
LEMMA StrongMoves ==
  ASSUME SessionInv, StrongKept, NEW c \in Conns, NEW n \in NodeNames,
         \/ n = ends[c][2] /\ AcceptorShakes(c)
         \/ n = ends[c][1] /\ InitiatorShakes(c)
         \/ HandshakeFails(c, n) \/ RegisterIds(n, c) \/ SessionFails(n, c) \/ CleanupSession(n, c)
         \/ CleanupIds(n, c) \/ Collect(n, c) \/ FireSignals(n, c)
  PROVE  StrongKept'
<1>1. SessionTypeOK
  BY DEF SessionInv
<1>2. UNCHANGED <<ends, cut>>
  BY DEF AcceptorShakes, InitiatorShakes, HandshakeFails, RegisterIds, SessionFails, CleanupSession,
         CleanupIds, Collect, FireSignals
<1>3. /\ stage' = stage \/ \E st : stage' = [stage EXCEPT ![c][n] = st]
      /\ shut' = shut \/ shut' = [shut EXCEPT ![c][n] = TRUE]
  BY DEF AcceptorShakes, InitiatorShakes, HandshakeFails, RegisterIds, SessionFails, CleanupSession,
         CleanupIds, Collect, FireSignals
<1>4. \A x \in Conns, k \in NodeNames : ~(x = c /\ k = n) => stage'[x][k] = stage[x][k] /\ shut'[x][k] = shut[x][k]
  <2>1. stage \in [Conns -> [NodeNames -> Stages]] /\ shut \in [Conns -> [NodeNames -> BOOLEAN]]
    BY <1>1 DEF SessionTypeOK
  <2>2. \A x \in Conns, k \in NodeNames : ~(x = c /\ k = n) => stage'[x][k] = stage[x][k]
    BY <1>3, <2>1
  <2>3. \A x \in Conns, k \in NodeNames : ~(x = c /\ k = n) => shut'[x][k] = shut[x][k]
    BY <1>3, <2>1
  <2> QED BY <2>2, <2>3
<1>5. ASSUME cut = {}, Unique, Strong(c), Has(c, n) PROVE Keeps(c, n)'
  <2>1. stage[c][n] \in {"none", "shaken", "inserted", "up"} /\ ~shut[c][n]
    BY <1>5 DEF StrongKept
  <2>2. ~CleanupSession(n, c) /\ ~CleanupIds(n, c) /\ ~Collect(n, c) /\ ~FireSignals(n, c) /\ ~HandshakeFails(c, n)
    BY <1>5, <2>1 DEF CleanupSession, CleanupIds, Collect, FireSignals, HandshakeFails
  <2>3. ~SessionFails(n, c)
    <3>1. Peer(c, n) \in NodeNames /\ Has(c, Peer(c, n))
      BY <1>1, <1>5, PeerType DEF Has, Peer
    <3>2. stage[c][Peer(c, n)] # "gone"
      BY <1>5, <3>1 DEF StrongKept
    <3> QED BY <1>5, <3>2 DEF SessionFails
  <2>4. PICK st \in {"shaken", "up"} : stage' = [stage EXCEPT ![c][n] = st] /\ shut' = shut
    BY <2>2, <2>3 DEF AcceptorShakes, InitiatorShakes, RegisterIds
  <2>5. stage'[c][n] = st
    BY <1>1, <2>4 DEF SessionTypeOK
  <2> QED BY <2>1, <2>4, <2>5 DEF Keeps
<1>6. ASSUME cut = {}, Unique, NEW x \in Conns, NEW k \in NodeNames, Strong(x), Has(x, k)
      PROVE  Keeps(x, k)'
  <2>1. CASE x = c /\ k = n
    BY <1>5, <1>6, <2>1
  <2>2. CASE ~(x = c /\ k = n)
    BY <1>4, <1>6, <2>2 DEF StrongKept, Keeps
  <2> QED BY <2>1, <2>2
<1> QED BY <1>2, <1>6, StrongEnds

LEMMA StrongStays ==
  ASSUME StrongKept, UNCHANGED <<ends, stage, shut>>, cut' = {} => cut = {}
  PROVE  StrongKept'
<1>1. ASSUME cut = {}, Unique, NEW x \in Conns, NEW k \in NodeNames, Strong(x), Has(x, k)
      PROVE  Keeps(x, k)'
  BY <1>1 DEF StrongKept, Keeps
<1> QED BY <1>1, StrongEnds

LEMMA StrongNext ==
  ASSUME SessionInv, StrongKept, [SessionNext]_sessionVars
  PROVE  StrongKept'
<1>1. CASE UNCHANGED sessionVars
  BY <1>1, StrongStays DEF sessionVars
<1>2. ASSUME NEW p \in Dials, Dial(p[1], p[2]) PROVE StrongKept'
  <2>1. PICK c \in 1..MaxDials : Open(c, p[1], p[2])
    BY <1>2 DEF Dial
  <2>2. c \in Conns /\ p[1] \in NodeNames /\ p[2] \in NodeNames
    BY SessionAssumption DEF Conns
  <2> QED BY <2>1, <2>2, StrongOpen
<1>3. ASSUME NEW n \in NodeNames, NEW m \in NodeNames, DialPeer(n, m) PROVE StrongKept'
  <2>1. PICK c \in (MaxDials + 1)..MaxConns : Open(c, n, m)
    BY <1>3 DEF DialPeer
  <2>2. c \in Conns
    BY SessionAssumption DEF Conns
  <2> QED BY <2>1, <2>2, StrongOpen
<1>4. ASSUME NEW c \in Conns, AcceptorShakes(c) \/ InitiatorShakes(c) PROVE StrongKept'
  <2>1. ends[c] \in NodeNames \X NodeNames
    BY <1>4 DEF AcceptorShakes, InitiatorShakes, SessionInv, SessionTypeOK
  <2>2. ends[c][1] \in NodeNames /\ ends[c][2] \in NodeNames
    BY <2>1
  <2> QED BY <1>4, <2>2, StrongMoves
<1>5. ASSUME NEW c \in Conns, Cut(c) PROVE StrongKept'
  BY <1>5, StrongStays DEF Cut
<1>6. ASSUME NEW n \in NodeNames, NEW c \in Conns,
             handle_peer_list(n, c) \/ MonitorRecord(n, c) \/ MonitorSend(n, c)
      PROVE  StrongKept'
  BY <1>6, StrongStays DEF handle_peer_list, MonitorRecord, MonitorSend
<1>7. ASSUME NEW n \in NodeNames, NEW c \in Conns, RegisterInsert(n, c) PROVE StrongKept'
  BY <1>7, StrongInsert
<1>8. ASSUME NEW n \in NodeNames, NEW c \in Conns,
             \/ HandshakeFails(c, n) \/ RegisterIds(n, c) \/ SessionFails(n, c) \/ CleanupSession(n, c)
             \/ CleanupIds(n, c) \/ Collect(n, c) \/ FireSignals(n, c)
      PROVE  StrongKept'
  BY <1>8, StrongMoves
<1> QED BY <1>1, <1>2, <1>3, <1>4, <1>5, <1>6, <1>7, <1>8 DEF SessionNext
-----------------------------------------------------------------------------
\* At rest, an end that has not gone is the one in the table.
LEMMA UpIsCurrent ==
  ASSUME SessionInv, NEW c \in Conns, NEW n \in NodeNames, stage[c][n] = "up", ~shut[c][n]
  PROVE  Current(c, n)
BY DEF SessionInv, EndInv, EndFits

LEMMA Across ==
  ASSUME SessionInv, Quiet, NEW n \in NodeNames, NEW m \in NodeNames, n # m, sessions[n][m] # 0
  PROVE  sessions[m][n] = sessions[n][m]
<1>1. PICK c \in Conns : c = sessions[n][m]
  BY SessionAssumption DEF SessionInv, SessionTypeOK, Conns
<1>2. Has(c, n) /\ Peer(c, n) = m /\ Current(c, n)
  BY <1>1 DEF SessionInv, TableInv, Current
<1>3. Has(c, m) /\ Peer(c, m) = n
  BY <1>2 DEF Has, Peer
<1>4. stage[c][n] # "gone"
  BY <1>2 DEF SessionInv, EndInv, EndFits
<1>5. stage[c][m] # "gone"
  BY <1>2, <1>4 DEF Quiet, Settled
<1>6. stage[c][m] = "up" /\ ~shut[c][m]
  BY <1>3, <1>5 DEF Quiet, Settled
<1> QED BY <1>1, <1>3, <1>6, UpIsCurrent DEF Current

\* Of the connections between two nodes one is strong.
LEMMA StrongExists ==
  ASSUME SessionTypeOK, Unique, NEW c \in Conns, ends[c] # <<>>
  PROVE  \E d \in Conns : Strong(d) /\ Has(d, ends[c][1]) /\ Peer(d, ends[c][1]) = ends[c][2]
<1>1. PICK n \in NodeNames, m \in NodeNames : ends[c] = <<n, m>> /\ ends[c][1] = n /\ ends[c][2] = m
  BY DEF SessionTypeOK
<1>2. n \in Nat /\ m \in Nat
  BY SessionAssumption
<1>3. Has(c, n) /\ Peer(c, n) = m
  BY <1>1 DEF Has, Peer
<1>4. CASE Strong(c)
  BY <1>1, <1>3, <1>4
<1>5. CASE ~Strong(c)
  <2>1. ~(n < m) /\ \E d \in Conns \ {c} : ends[d] = <<m, n>>
    BY <1>1, <1>5 DEF Strong, Preferred
  <2>2. PICK d \in Conns \ {c} : ends[d] = <<m, n>>
    BY <2>1
  <2>3. ends[d] # <<>> /\ ends[d][1] = m /\ ends[d][2] = n /\ ends[c] # ends[d]
    <3>1. ends[c] # ends[d]
      BY <2>2 DEF Unique
    <3>2. ends[d] # <<>> /\ ends[d][1] = m /\ ends[d][2] = n
      BY <2>2
    <3> QED BY <3>1, <3>2
  <2>4. m < n
    BY <1>1, <1>2, <2>1, <2>2, <2>3
  <2>5. Strong(d) /\ Has(d, n) /\ Peer(d, n) = m
    BY <1>2, <2>3, <2>4 DEF Strong, Preferred, Has, Peer
  <2> QED BY <1>1, <2>5
<1> QED BY <1>4, <1>5

LEMMA SessionInvAgrees == SessionInv /\ StrongKept => SessionsAgree
<1> SUFFICES ASSUME SessionInv, StrongKept PROVE SessionsAgree
  OBVIOUS
<1>1. SessionTypeOK
  BY DEF SessionInv
<1>2. SameTransport
  <2> SUFFICES ASSUME Quiet, NEW n \in NodeNames, NEW m \in NodeNames, n # m PROVE sessions[n][m] = sessions[m][n]
    BY DEF SameTransport
  <2>1. sessions[n][m] # 0 => sessions[m][n] = sessions[n][m]
    BY Across
  <2>2. sessions[m][n] # 0 => sessions[n][m] = sessions[m][n]
    BY Across
  <2> QED BY <2>1, <2>2
<1>3. TieBreakKeepsOne
  <2> SUFFICES ASSUME Quiet, cut = {}, Unique, NEW c \in Conns, ends[c] # <<>>
               PROVE  sessions[ends[c][1]][ends[c][2]] # 0
    BY DEF TieBreakKeepsOne, Unique
  <2>1. PICK d \in Conns : Strong(d) /\ Has(d, ends[c][1]) /\ Peer(d, ends[c][1]) = ends[c][2]
    BY <1>1, StrongExists
  <2>2. PICK n \in NodeNames : n = ends[c][1]
    BY <1>1 DEF SessionTypeOK
  <2>3. stage[d][n] \in {"none", "shaken", "inserted", "up"} /\ ~shut[d][n]
    BY <2>1, <2>2 DEF StrongKept
  <2>4. stage[d][n] = "up"
    BY <2>1, <2>2, <2>3 DEF Quiet, Settled
  <2>5. sessions[n][Peer(d, n)] = d
    BY <2>3, <2>4, UpIsCurrent DEF Current
  <2> QED BY <2>1, <2>2, <2>5, ConnNumbers
<1>4. CurrentIsRouted
  BY DEF SessionInv, EndInv, EndFits, Current, CurrentIsRouted
<1> QED BY <1>1, <1>2, <1>3, <1>4 DEF SessionsAgree

LEMMA SessionInvTells == SessionInv /\ Balance => LossIsTold
<1> SUFFICES ASSUME SessionInv, Balance PROVE LossIsTold
  OBVIOUS
<1>1. EventsBalance
  <2> SUFFICES ASSUME Quiet, NEW n \in NodeNames, NEW m \in NodeNames
               PROVE  ups[n][m] = downs[n][m] + IF sessions[n][m] = 0 THEN 0 ELSE 1
    BY DEF EventsBalance
  <2>1. \A c \in Conns : Has(c, n) => stage[c][n] \in {"gone", "up"}
    BY DEF Quiet, Settled
  <2>2. Fresh(n, m) = {} /\ Leaving(n, m) = {}
    BY <2>1 DEF Fresh, Leaving, IsFresh, IsLeaving
  <2>3. ups[n][m] + 0 = (downs[n][m] + 0) + (IF sessions[n][m] = 0 THEN 0 ELSE 1)
    BY <2>2, FS_EmptySet DEF Balance
  <2>4. ups[n][m] \in Nat /\ downs[n][m] \in Nat
    BY DEF SessionInv, SessionTypeOK
  <2> QED BY <2>3, <2>4
<1>2. MonitorsAreTold
  <2> SUFFICES ASSUME Quiet, NEW n \in NodeNames, NEW c \in mon[n]
               PROVE  sessions[n][Peer(c, n)] = c \/ \E d \in Conns : prev[d][n] = c
    BY DEF MonitorsAreTold
  <2>1. c \in Conns /\ c \notin asking[n]
    BY DEF SessionInv, SessionTypeOK, Quiet
  <2>2. EndInv(c, n)
    BY <2>1 DEF SessionInv
  <2>3. Has(c, n)
    BY <2>2 DEF EndInv, EndFits
  <2>4. stage[c][n] \in {"gone", "up"}
    BY <2>1, <2>3 DEF Quiet, Settled
  <2>5. Current(c, n) \/ Replaced(c, n)
    BY <2>1, <2>2, <2>4 DEF EndInv, EndFits
  <2> QED BY <2>5 DEF Current, Replaced
<1> QED BY <1>1, <1>2 DEF LossIsTold

SessionProofInv == SessionInv /\ StrongKept /\ Balance

LEMMA SessionProofInvKept == SessionSpec => []SessionProofInv
<1>1. SessionInit => SessionProofInv
  <2>1. SessionInit => StrongKept
    BY DEF StrongKept, Has, SessionInit
  <2> QED BY <2>1, SessionInitInv, BalanceInit DEF SessionProofInv
<1>2. SessionProofInv /\ [SessionNext]_sessionVars => SessionProofInv'
  BY SessionInvStep, StrongNext, BalanceNext DEF SessionProofInv
<1> QED BY <1>1, <1>2, PTL DEF SessionSpec

(* register_session: however connections between any nodes are dialled, cut   *)
(* and registered, both ends of a pair at rest use the same one, they use one *)
(* when none was cut, and the id of the session in use leads to it.           *)
THEOREM SessionsKept == SessionSpec => []SessionsAgree
<1>1. SessionProofInv => SessionsAgree
  BY SessionInvAgrees DEF SessionProofInv
<1>2. SessionSpec => []SessionProofInv
  BY SessionProofInvKept
<1> QED BY <1>1, <1>2, PTL

(* handle_node_disconnect: every loss of a session that is not replaced is    *)
(* told once to the watchers of the node, and to all who monitor its pids,    *)
(* also to those whose monitor was recorded during the disconnect.            *)
THEOREM LossesAreTold == SessionSpec => []LossIsTold
<1>1. SessionProofInv => LossIsTold
  BY SessionInvTells DEF SessionProofInv
<1>2. SessionSpec => []SessionProofInv
  BY SessionProofInvKept
<1> QED BY <1>1, <1>2, PTL
=============================================================================
