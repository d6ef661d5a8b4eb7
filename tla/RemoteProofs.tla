---------------------------- MODULE RemoteProofs ----------------------------
(***************************************************************************)
(* Proofs about processes that are spawned on the other node, for any      *)
(* number of processes, requesters and sessions.                           *)
(*                                                                         *)
(* A call is in one place at a time: written, in the reader's hand,        *)
(* answered, in the hand of the reader at home, in the mailbox, or lost.   *)
(* The inductive invariant says of each requester where its call is and    *)
(* what goes with that place: which session the call names, whether the    *)
(* pending entry is there, and whether a process has been started for it.  *)
(***************************************************************************)
EXTENDS RemoteSignals, FiniteSetTheorems, SequenceTheorems, WellFoundedInduction, TLAPS

Reasons == {"normal", "crash", "linked", "noproc", "noconnection"}
Asks == {"spawn"} \X Requesters \X BOOLEAN
Answers == {"reply"} \X Requesters \X BOOLEAN \X ({0} \cup Ids)
Signals == ({"link", "monitor"} \X UsedPids \X UsedPids) \cup ({"exit", "down"} \X UsedPids \X UsedPids \X Reasons)
FramesOf(n) == (IF n = 1 THEN Asks ELSE Answers) \cup Signals
Returns == {"reply"} \X BOOLEAN \X ({0} \cup Ids)
Notices == {"down", "exit"} \X UsedPids \X Reasons
Calls == {<<"idle">>} \cup ({"wait", "retry"} \X SessionIds \X BOOLEAN)

RemoteTypeOK ==
    /\ status \in [Sides -> [Ids -> {"free", "run", "doomed", "done"}]]
    /\ reason \in [Sides -> [Ids -> {"none", "normal", "crash", "linked", "noconnection"}]]
    /\ links \in [Sides -> [Ids -> SUBSET UsedPids]]
    /\ mons \in [Sides -> [Ids -> SUBSET UsedPids]]
    /\ monby \in [Sides -> [Ids -> SUBSET UsedPids]]
    /\ mbox \in [Sides -> [Ids -> Seq(Returns \cup Notices)]]
    /\ origin \in [Sides -> [Ids -> {0} \cup Requesters]]
    /\ call \in [Requesters -> Calls]
    /\ pend \in [SessionIds -> SUBSET Requesters]
    /\ got \in [Requesters -> {<<>>} \cup (SessionIds \X Ids)]
    /\ cur \in [Sides -> {0} \cup SessionIds] /\ last \in SessionIds
    /\ DOMAIN sent = Sides /\ \A n \in Sides : sent[n] \in Seq(FramesOf(n))
    /\ DOMAIN hand = Sides /\ \A n \in Sides : hand[n] \in {<<>>} \cup (SessionIds \X FramesOf(OtherSide(n)))

\* A session is the last one made, or gone; an id is free while nothing was
\* ever started under it.
SidesFit ==
    /\ \A n \in Sides : cur[n] \in {0, last}
    /\ \A q \in Ids : status[2][q] = "free" <=> origin[2][q] = 0 /\ q > Locals[2]

Lacks(s, T) == \A k \in 1..Len(s) : s[k] \notin T
Once(s, T, R) == \E k \in 1..Len(s) : s[k] \in R /\ \A j \in 1..Len(s) : s[j] \in T => j = k

AskOf(p) == {"spawn"} \X {p} \X BOOLEAN
AnswerOf(p) == {"reply"} \X {p} \X BOOLEAN \X ({0} \cup Ids)

Spawned(p) == \E q \in Ids : origin[2][q] = p
Tells(p, ok, q) == IF ok THEN q \in Ids /\ origin[2][q] = p ELSE ~Spawned(p)
TrueAnswer(p) == {f \in AnswerOf(p) : Tells(p, f[3], f[4])}
TrueReturn(p) == {m \in Returns : Tells(p, m[2], m[3])}

Places == {"none", "written", "taken", "answered", "read", "told"}

Stands(p, w) ==
    /\ IF w = "written" THEN Once(sent[1], AskOf(p), AskOf(p)) ELSE Lacks(sent[1], AskOf(p))
    /\ IF w = "taken" THEN hand[2] # <<>> /\ hand[2][2] \in AskOf(p)
                      ELSE hand[2] # <<>> => hand[2][2] \notin AskOf(p)
    /\ IF w = "answered" THEN Once(sent[2], AnswerOf(p), TrueAnswer(p)) ELSE Lacks(sent[2], AnswerOf(p))
    /\ IF w = "read" THEN hand[1] # <<>> /\ hand[1][2] \in TrueAnswer(p)
                     ELSE hand[1] # <<>> => hand[1][2] \notin AnswerOf(p)
    /\ IF w = "told" THEN Once(mbox[1][p], Returns, TrueReturn(p)) ELSE Lacks(mbox[1][p], Returns)

CallFits(p, w) ==
    /\ w # "none" => call[p][1] = "wait"
    /\ w \in {"written", "answered"} => call[p][2] = last
    /\ w = "taken" => hand[2][1] = call[p][2]
    /\ w = "read" => hand[1][1] = call[p][2]
    /\ w \in {"written", "taken", "answered", "read"} => p \in pend[call[p][2]]
    /\ w \in {"written", "taken"} => ~Spawned(p)
    /\ call[p][1] = "wait" /\ cur[1] = call[p][2] /\ cur[2] = call[p][2] => w # "none"
    /\ call[p][1] # "wait" /\ got[p] = <<>> => ~Spawned(p)
    /\ call[p][1] # "idle" => call[p][2] <= last /\ got[p] = <<>>

RequesterInv(p) == \E w \in Places : Stands(p, w) /\ CallFits(p, w)

RemoteInv == RemoteTypeOK /\ SidesFit /\ ReturnedIsSpawned /\ SpawnedOnce /\ \A p \in Requesters : RequesterInv(p)

-----------------------------------------------------------------------------
(* Sides, ids and frames.                                                  *)
LEMMA Others == Sides = {1, 2} /\ OtherSide(1) = 2 /\ OtherSide(2) = 1 /\ 1 \in Sides /\ 2 \in Sides
BY DEF Sides, OtherSide

LEMMA IdsRange ==
  \E N \in Nat : /\ Ids = 1..N /\ Locals[1] <= N /\ Locals[2] + MaxSpawned <= N
                 /\ Locals[1] \in Nat /\ Locals[2] \in Nat /\ MaxSpawned \in Nat
<1>1. Locals[1] \in Nat /\ Locals[2] \in Nat /\ MaxSpawned \in Nat
  BY Others, RemoteAssumption
<1>2. CASE Locals[1] > Locals[2] + MaxSpawned
  <2>1. Ids = 1..Locals[1]
    BY <1>2 DEF Ids
  <2> QED BY <1>1, <1>2, <2>1
<1>3. CASE ~(Locals[1] > Locals[2] + MaxSpawned)
  <2>1. Ids = 1..(Locals[2] + MaxSpawned)
    BY <1>3 DEF Ids
  <2>2. Locals[2] + MaxSpawned \in Nat
    BY <1>1
  <2> QED BY <1>1, <1>3, <2>1, <2>2
<1> QED BY <1>2, <1>3

LEMMA RequestersAreIds ==
  Requesters \subseteq Ids /\ 0 \notin Ids /\ 0 \notin Requesters /\ Ids \subseteq Nat
<1>1. PICK N \in Nat : Ids = 1..N /\ Locals[1] <= N /\ Locals[1] \in Nat
  BY IdsRange
<1>2. Requesters \subseteq 1..Locals[1]
  BY RemoteAssumption
<1>3. 1..Locals[1] \subseteq 1..N
  BY <1>1
<1> QED BY <1>1, <1>2, <1>3

LEMMA PidKinds ==
  /\ \A p \in Ids : <<0, p>> \in UsedPids
  /\ \A s \in SessionIds, p \in Ids : <<s, p>> \in UsedPids
  /\ \A x \in UsedPids : x[2] \in Ids /\ x[1] \in {0} \cup SessionIds /\ x = <<x[1], x[2]>>
BY DEF UsedPids

LEMMA FrameKinds ==
  /\ \A p \in Requesters, l \in BOOLEAN :
        /\ <<"spawn", p, l>> \in AskOf(p) /\ <<"spawn", p, l>> \in FramesOf(1)
        /\ \A r : r # p => <<"spawn", p, l>> \notin AskOf(r)
  /\ \A p \in Requesters, ok \in BOOLEAN, q \in {0} \cup Ids :
        /\ <<"reply", p, ok, q>> \in AnswerOf(p) /\ <<"reply", p, ok, q>> \in FramesOf(2)
        /\ \A r : r # p => <<"reply", p, ok, q>> \notin AnswerOf(r)
  /\ \A n \in Sides : Signals \subseteq FramesOf(n)
<1>1. FramesOf(1) = Asks \cup Signals /\ FramesOf(2) = Answers \cup Signals
  BY DEF FramesOf
<1>2. \A p \in Requesters, l \in BOOLEAN : <<"spawn", p, l>> \in AskOf(p) /\ <<"spawn", p, l>> \in Asks
  BY DEF AskOf, Asks
<1>3. \A r : \A p \in Requesters, l \in BOOLEAN : r # p => <<"spawn", p, l>> \notin AskOf(r)
  BY DEF AskOf
<1>4. \A p \in Requesters, ok \in BOOLEAN, q \in {0} \cup Ids :
         <<"reply", p, ok, q>> \in AnswerOf(p) /\ <<"reply", p, ok, q>> \in Answers
  BY DEF AnswerOf, Answers
<1>5. \A r : \A p \in Requesters, ok \in BOOLEAN, q \in {0} \cup Ids : r # p => <<"reply", p, ok, q>> \notin AnswerOf(r)
  BY DEF AnswerOf
<1> QED BY <1>1, <1>2, <1>3, <1>4, <1>5 DEF FramesOf

\* What a frame in hand can be, by its first field.
LEMMA FrameFields ==
  ASSUME NEW n \in Sides, NEW f \in FramesOf(n)
  PROVE  /\ f[1] = "spawn" => n = 1 /\ f[2] \in Requesters /\ f[3] \in BOOLEAN /\ f = <<"spawn", f[2], f[3]>>
         /\ f[1] = "reply" => /\ n = 2 /\ f[2] \in Requesters /\ f[3] \in BOOLEAN /\ f[4] \in {0} \cup Ids
                              /\ f = <<"reply", f[2], f[3], f[4]>>
         /\ f[1] \in {"link", "monitor", "exit", "down"} => f \in Signals /\ f[2] \in UsedPids /\ f[3] \in UsedPids
         /\ f[1] \in {"exit", "down"} => f[4] \in Reasons
         /\ f \in Signals => f[1] \in {"link", "monitor", "exit", "down"}
<1>1. \A g \in Asks : /\ g[1] = "spawn" /\ g[2] \in Requesters /\ g[3] \in BOOLEAN /\ g = <<"spawn", g[2], g[3]>>
  BY DEF Asks
<1>2. \A g \in Answers : /\ g[1] = "reply" /\ g[2] \in Requesters /\ g[3] \in BOOLEAN /\ g[4] \in {0} \cup Ids
                         /\ g = <<"reply", g[2], g[3], g[4]>>
  BY DEF Answers
<1>3. \A g \in {"link", "monitor"} \X UsedPids \X UsedPids :
         g[1] \in {"link", "monitor"} /\ g[2] \in UsedPids /\ g[3] \in UsedPids
  OBVIOUS
<1>4. \A g \in {"exit", "down"} \X UsedPids \X UsedPids \X Reasons :
         g[1] \in {"exit", "down"} /\ g[2] \in UsedPids /\ g[3] \in UsedPids /\ g[4] \in Reasons
  OBVIOUS
<1>5. \A g \in Signals : /\ g[1] \in {"link", "monitor", "exit", "down"} /\ g[2] \in UsedPids /\ g[3] \in UsedPids
                         /\ g[1] \in {"exit", "down"} => g[4] \in Reasons
  BY <1>3, <1>4 DEF Signals
<1>6. CASE n = 1
  <2>1. f \in Asks \/ f \in Signals
    BY <1>6 DEF FramesOf
  <2>2. CASE f \in Asks
    BY <1>1, <1>5, <1>6, <2>2
  <2>3. CASE f \in Signals
    BY <1>5, <1>6, <2>3
  <2> QED BY <2>1, <2>2, <2>3
<1>7. CASE n = 2
  <2>1. f \in Answers \/ f \in Signals
    BY <1>7 DEF FramesOf
  <2>2. CASE f \in Answers
    BY <1>2, <1>5, <1>7, <2>2
  <2>3. CASE f \in Signals
    BY <1>5, <1>7, <2>3
  <2> QED BY <2>1, <2>2, <2>3
<1> QED BY <1>6, <1>7, Others

LEMMA SignalIsNoCall ==
  ASSUME NEW f \in Signals, NEW p
  PROVE  f \notin AskOf(p) /\ f \notin AnswerOf(p)
<1>1. f[1] \in {"link", "monitor", "exit", "down"}
  BY FrameFields, FrameKinds, Others
<1>2. \A g \in AskOf(p) : g[1] = "spawn"
  BY DEF AskOf
<1>3. \A g \in AnswerOf(p) : g[1] = "reply"
  BY DEF AnswerOf
<1> QED BY <1>1, <1>2, <1>3

LEMMA NoticeIsNoReturn ==
  /\ \A x \in UsedPids, w \in Reasons : <<"down", x, w>> \in Notices /\ <<"exit", x, w>> \in Notices
  /\ \A m \in Notices : m \notin Returns
  /\ \A m \in Returns : m[1] = "reply" /\ m[2] \in BOOLEAN /\ m[3] \in {0} \cup Ids /\ m = <<"reply", m[2], m[3]>>
  /\ \A m \in Notices : m[1] # "reply"
  /\ \A ok \in BOOLEAN, q \in {0} \cup Ids : <<"reply", ok, q>> \in Returns
<1>1. \A m \in Notices : m[1] = "down" \/ m[1] = "exit"
  BY DEF Notices
<1>2. \A m \in Returns : m[1] = "reply" /\ m[2] \in BOOLEAN /\ m[3] \in {0} \cup Ids /\ m = <<"reply", m[2], m[3]>>
  BY DEF Returns
<1>3. \A x \in UsedPids, w \in Reasons : <<"down", x, w>> \in Notices /\ <<"exit", x, w>> \in Notices
  BY DEF Notices
<1>4. \A ok \in BOOLEAN, q \in {0} \cup Ids : <<"reply", ok, q>> \in Returns
  BY DEF Returns
<1>5. \A m \in Notices : m[1] # "reply"
  BY <1>1
<1>6. \A m \in Notices : m \notin Returns
  BY <1>2, <1>5
<1> QED BY <1>2, <1>3, <1>4, <1>5, <1>6
-----------------------------------------------------------------------------
(* Sequences that lack a kind of element, or hold one of it once.          *)
LEMMA LacksAppended ==
  ASSUME NEW S, NEW s \in Seq(S), NEW t \in Seq(S), NEW T
  PROVE  Lacks(s \o t, T) <=> Lacks(s, T) /\ Lacks(t, T)
<1>1. /\ Len(s) \in Nat /\ Len(t) \in Nat /\ Len(s \o t) = Len(s) + Len(t)
      /\ \A i \in 1..Len(s) + Len(t) : (s \o t)[i] = IF i <= Len(s) THEN s[i] ELSE t[i - Len(s)]
  BY ConcatProperties, LenProperties
<1>2. ASSUME Lacks(s \o t, T) PROVE Lacks(s, T) /\ Lacks(t, T)
  <2>1. ASSUME NEW k \in 1..Len(s) PROVE s[k] \notin T
    BY <1>1, <1>2, k \in 1..Len(s) + Len(t) DEF Lacks
  <2>2. ASSUME NEW k \in 1..Len(t) PROVE t[k] \notin T
    <3>1. k + Len(s) \in 1..Len(s) + Len(t) /\ ~(k + Len(s) <= Len(s)) /\ (k + Len(s)) - Len(s) = k
      BY <1>1
    <3>2. (s \o t)[k + Len(s)] = t[k]
      BY <1>1, <3>1
    <3> QED BY <1>1, <1>2, <3>1, <3>2 DEF Lacks
  <2> QED BY <2>1, <2>2 DEF Lacks
<1>3. ASSUME Lacks(s, T), Lacks(t, T) PROVE Lacks(s \o t, T)
  <2>1. ASSUME NEW k \in 1..Len(s) + Len(t) PROVE (s \o t)[k] \notin T
    <3>1. CASE k <= Len(s)
      BY <1>1, <1>3, <3>1 DEF Lacks
    <3>2. CASE ~(k <= Len(s))
      <4>1. k - Len(s) \in 1..Len(t)
        BY <1>1, <3>2
      <4> QED BY <1>1, <1>3, <3>2, <4>1 DEF Lacks
    <3> QED BY <3>1, <3>2
  <2> QED BY <1>1, <2>1 DEF Lacks
<1> QED BY <1>2, <1>3

LEMMA OnceAppended ==
  ASSUME NEW S, NEW s \in Seq(S), NEW t \in Seq(S), NEW T, NEW R,
         (Once(s, T, R) /\ Lacks(t, T)) \/ (Lacks(s, T) /\ Once(t, T, R))
  PROVE  Once(s \o t, T, R)
<1>1. /\ Len(s) \in Nat /\ Len(t) \in Nat /\ Len(s \o t) = Len(s) + Len(t)
      /\ \A i \in 1..Len(s) + Len(t) : (s \o t)[i] = IF i <= Len(s) THEN s[i] ELSE t[i - Len(s)]
  BY ConcatProperties, LenProperties
<1>2. \A i \in 1..Len(s) : i \in 1..Len(s) + Len(t) /\ (s \o t)[i] = s[i]
  BY <1>1
<1>3. \A i \in 1..Len(t) : i + Len(s) \in 1..Len(s) + Len(t) /\ (s \o t)[i + Len(s)] = t[i]
  <2>1. TAKE i \in 1..Len(t)
  <2>2. i + Len(s) \in 1..Len(s) + Len(t) /\ ~(i + Len(s) <= Len(s)) /\ (i + Len(s)) - Len(s) = i
    BY <1>1
  <2> QED BY <1>1, <2>2
<1>4. \A j \in 1..Len(s) + Len(t) : j \in 1..Len(s) \/ \E i \in 1..Len(t) : j = i + Len(s)
  <2>1. TAKE j \in 1..Len(s) + Len(t)
  <2>2. j <= Len(s) \/ (j - Len(s) \in 1..Len(t) /\ j = (j - Len(s)) + Len(s))
    BY <1>1
  <2> QED BY <1>1, <2>2
<1>5. CASE Once(s, T, R) /\ Lacks(t, T)
  <2>1. PICK k \in 1..Len(s) : s[k] \in R /\ \A j \in 1..Len(s) : s[j] \in T => j = k
    BY <1>5 DEF Once
  <2>2. ASSUME NEW j \in 1..Len(s) + Len(t), (s \o t)[j] \in T PROVE j = k
    BY <1>2, <1>3, <1>4, <1>5, <2>1, <2>2 DEF Lacks
  <2> QED BY <1>1, <1>2, <2>1, <2>2 DEF Once
<1>6. CASE Lacks(s, T) /\ Once(t, T, R)
  <2>1. PICK k \in 1..Len(t) : t[k] \in R /\ \A j \in 1..Len(t) : t[j] \in T => j = k
    BY <1>6 DEF Once
  <2>2. ASSUME NEW j \in 1..Len(s) + Len(t), (s \o t)[j] \in T PROVE j = k + Len(s)
    BY <1>2, <1>3, <1>4, <1>6, <2>1, <2>2 DEF Lacks
  <2> QED BY <1>1, <1>3, <2>1, <2>2 DEF Once
<1> QED BY <1>5, <1>6

LEMMA OnceNotLacking ==
  ASSUME NEW s, NEW T, NEW R, R \subseteq T, Once(s, T, R)
  PROVE  ~Lacks(s, T)
BY DEF Once, Lacks

LEMMA TailKeeps ==
  ASSUME NEW S, NEW s \in Seq(S), s # <<>>, NEW T, NEW R
  PROVE  /\ Head(s) \in S /\ Tail(s) \in Seq(S)
         /\ Lacks(s, T) => Lacks(Tail(s), T) /\ Head(s) \notin T
         /\ Once(s, T, R) /\ Head(s) \in T => Head(s) \in R /\ Lacks(Tail(s), T)
         /\ Once(s, T, R) /\ Head(s) \notin T /\ R \subseteq T => Once(Tail(s), T, R)
<1>1. /\ Head(s) \in S /\ Tail(s) \in Seq(S) /\ Len(Tail(s)) = Len(s) - 1
      /\ \A i \in 1..Len(Tail(s)) : Tail(s)[i] = s[i + 1]
      /\ Len(s) \in Nat \ {0}
  BY HeadTailProperties, EmptySeq
<1>2. Head(s) = s[1] /\ 1 \in 1..Len(s)
  BY <1>1
<1>3. \A i \in 1..Len(Tail(s)) : i + 1 \in 1..Len(s) /\ i + 1 # 1 /\ Tail(s)[i] = s[i + 1]
  BY <1>1
<1>4. Lacks(s, T) => Lacks(Tail(s), T) /\ Head(s) \notin T
  BY <1>2, <1>3 DEF Lacks
<1>5. ASSUME Once(s, T, R), Head(s) \in T PROVE Head(s) \in R /\ Lacks(Tail(s), T)
  <2>1. PICK k \in 1..Len(s) : s[k] \in R /\ \A j \in 1..Len(s) : s[j] \in T => j = k
    BY <1>5 DEF Once
  <2>2. k = 1
    BY <1>2, <1>5, <2>1
  <2>3. \A i \in 1..Len(Tail(s)) : Tail(s)[i] \notin T
    BY <1>3, <2>1, <2>2
  <2> QED BY <1>2, <2>1, <2>2, <2>3 DEF Lacks
<1>6. ASSUME Once(s, T, R), Head(s) \notin T, R \subseteq T PROVE Once(Tail(s), T, R)
  <2>1. PICK k \in 1..Len(s) : s[k] \in R /\ \A j \in 1..Len(s) : s[j] \in T => j = k
    BY <1>6 DEF Once
  <2>2. k # 1
    BY <1>2, <1>6, <2>1
  <2>3. k - 1 \in 1..Len(Tail(s)) /\ (k - 1) + 1 = k
    BY <1>1, <2>2
  <2>4. Tail(s)[k - 1] \in R
    BY <1>3, <2>1, <2>3
  <2>5. ASSUME NEW i \in 1..Len(Tail(s)), Tail(s)[i] \in T PROVE i = k - 1
    <3>1. i + 1 = k
      BY <1>3, <2>1, <2>5
    <3> QED BY <1>1, <3>1
  <2> QED BY <2>3, <2>4, <2>5 DEF Once
<1> QED BY <1>1, <1>4, <1>5, <1>6

LEMMA CutOut ==
  ASSUME NEW S, NEW s \in Seq(S), NEW i \in 1..Len(s)
  PROVE  LET c == SubSeq(s, 1, i - 1) \o SubSeq(s, i + 1, Len(s))
         IN  c \in Seq(S) /\ \A k \in 1..Len(c) : \E j \in 1..Len(s) : j # i /\ c[k] = s[j]
<1> DEFINE a == SubSeq(s, 1, i - 1)
           b == SubSeq(s, i + 1, Len(s))
<1>1. Len(s) \in Nat /\ \A j \in 1..Len(s) : s[j] \in S
  BY LenProperties, ElementOfSeq
<1>2. 1 \in Int /\ i - 1 \in Int /\ i + 1 \in Int /\ Len(s) \in Int
  BY <1>1
<1>3. \A j \in 1..(i - 1) : s[j] \in S
  BY <1>1
<1>4. \A j \in (i + 1)..Len(s) : s[j] \in S
  BY <1>1
<1>5. /\ a \in Seq(S) /\ Len(a) = (IF 1 <= i - 1 THEN (i - 1) - 1 + 1 ELSE 0)
      /\ \A j \in 1..((i - 1) - 1 + 1) : a[j] = s[(1 + j) - 1]
  BY <1>2, <1>3, SubSeqProperties
<1>6. /\ b \in Seq(S) /\ Len(b) = (IF i + 1 <= Len(s) THEN (Len(s) - (i + 1)) + 1 ELSE 0)
      /\ \A j \in 1..((Len(s) - (i + 1)) + 1) : b[j] = s[((i + 1) + j) - 1]
  BY <1>2, <1>4, SubSeqProperties
<1>7. /\ a \o b \in Seq(S) /\ Len(a \o b) = Len(a) + Len(b) /\ Len(a) \in Nat /\ Len(b) \in Nat
      /\ \A k \in 1..Len(a) + Len(b) : (a \o b)[k] = IF k <= Len(a) THEN a[k] ELSE b[k - Len(a)]
  BY <1>5, <1>6, ConcatProperties, LenProperties
<1> HIDE DEF a, b
<1>8. \A k \in 1..Len(a) : k \in 1..Len(s) /\ k # i /\ a[k] = s[k]
  BY <1>1, <1>5
<1>9. \A k \in 1..Len(b) : k + i \in 1..Len(s) /\ k + i # i /\ b[k] = s[k + i]
  BY <1>1, <1>6
<1>10. ASSUME NEW k \in 1..Len(a) + Len(b)
       PROVE  \E j \in 1..Len(s) : j # i /\ (a \o b)[k] = s[j]
  <2>1. CASE k <= Len(a)
    <3>1. k \in 1..Len(a) /\ (a \o b)[k] = a[k]
      BY <1>7, <2>1
    <3> QED BY <1>8, <3>1
  <2>2. CASE ~(k <= Len(a))
    <3>1. k - Len(a) \in 1..Len(b)
      BY <1>7, <2>2
    <3>2. (a \o b)[k] = b[k - Len(a)]
      BY <1>7, <2>2
    <3> QED BY <1>9, <3>1, <3>2
  <2> QED BY <2>1, <2>2
<1> QED BY <1>7, <1>10 DEF a, b

\* Every element of a finite set in some order.
LEMMA SetToSeqTyped ==
  ASSUME NEW S, IsFiniteSet(S)
  PROVE  SetToSeq(S) \in Seq(S)
<1>1. PICK f : f \in Bijection(1..Cardinality(S), S)
  BY FS_CardinalityType DEF ExistsBijection
<1>2. f \in [1..Cardinality(S) -> S] /\ IsInjective(f)
  BY <1>1 DEF Bijection, Injection, IsInjective
<1>3. SetToSeq(S) \in [1..Cardinality(S) -> S]
  BY <1>2 DEF SetToSeq
<1>4. Cardinality(S) \in Nat
  BY FS_CardinalityType
<1> QED BY <1>3, <1>4, SeqDef

LEMMA SinglesAre ==
  ASSUME NEW S, NEW f \in S, NEW T, NEW R
  PROVE  /\ <<f>> \in Seq(S) /\ Lacks(<<>>, T) /\ <<>> \in Seq(S)
         /\ f \notin T => Lacks(<<f>>, T)
         /\ f \in R => Once(<<f>>, T, R)
<1>1. Len(<<f>>) = 1 /\ <<f>>[1] = f /\ <<f>> \in Seq(S) /\ Len(<<>>) = 0 /\ <<>> \in Seq(S)
  BY EmptySeq
<1>2. \A k \in 1..Len(<<f>>) : k = 1
  BY <1>1
<1> QED BY <1>1, <1>2 DEF Lacks, Once
-----------------------------------------------------------------------------
(* What leaves the call of a requester where it is.                        *)
SentGrows(n, T) == \E t \in Seq(FramesOf(n)) : sent'[n] = sent[n] \o t /\ Lacks(t, T)
MailGrows(p) == \E u \in Seq(Returns \cup Notices) : mbox'[1][p] = mbox[1][p] \o u /\ Lacks(u, Returns)
HandKeeps(n, p) ==
    \/ hand'[n] = hand[n]
    \/ hand'[n] = <<>> /\ (hand[n] # <<>> => hand[n][2] \notin AskOf(p) /\ hand[n][2] \notin AnswerOf(p))

Undisturbed(p) ==
    /\ SentGrows(1, AskOf(p)) /\ SentGrows(2, AnswerOf(p)) /\ MailGrows(p)
    /\ \A n \in Sides : HandKeeps(n, p)
    /\ call'[p] = call[p] /\ got'[p] = got[p] /\ cur' = cur /\ last' = last
    /\ \A s \in SessionIds : p \in pend[s] => p \in pend'[s]
    /\ \A q \in Ids : origin'[2][q] = p <=> origin[2][q] = p

LEMMA SentKept ==
  ASSUME RemoteTypeOK, NEW n \in Sides, NEW T, NEW R, R \subseteq T, SentGrows(n, T)
  PROVE  /\ Lacks(sent[n], T) => Lacks(sent'[n], T)
         /\ Once(sent[n], T, R) => Once(sent'[n], T, R)
<1>1. PICK t \in Seq(FramesOf(n)) : sent'[n] = sent[n] \o t /\ Lacks(t, T)
  BY DEF SentGrows
<1>2. sent[n] \in Seq(FramesOf(n))
  BY DEF RemoteTypeOK
<1>3. Lacks(sent[n] \o t, T) <=> Lacks(sent[n], T) /\ Lacks(t, T)
  BY <1>2, LacksAppended
<1>4. Once(sent[n], T, R) => Once(sent[n] \o t, T, R)
  BY <1>1, <1>2, OnceAppended
<1> QED BY <1>1, <1>3, <1>4

LEMMA MailKept ==
  ASSUME RemoteTypeOK, NEW p \in Ids, NEW R, R \subseteq Returns, MailGrows(p)
  PROVE  /\ Lacks(mbox[1][p], Returns) => Lacks(mbox'[1][p], Returns)
         /\ Once(mbox[1][p], Returns, R) => Once(mbox'[1][p], Returns, R)
<1>1. PICK u \in Seq(Returns \cup Notices) : mbox'[1][p] = mbox[1][p] \o u /\ Lacks(u, Returns)
  BY DEF MailGrows
<1>2. mbox[1][p] \in Seq(Returns \cup Notices)
  BY Others DEF RemoteTypeOK
<1>3. Lacks(mbox[1][p] \o u, Returns) <=> Lacks(mbox[1][p], Returns) /\ Lacks(u, Returns)
  BY <1>2, LacksAppended
<1>4. Once(mbox[1][p], Returns, R) => Once(mbox[1][p] \o u, Returns, R)
  BY <1>1, <1>2, OnceAppended
<1> QED BY <1>1, <1>3, <1>4

LEMMA TrueStays ==
  ASSUME NEW p, 0 \notin Ids, \A q \in Ids : origin'[2][q] = p <=> origin[2][q] = p
  PROVE  /\ TrueAnswer(p)' = TrueAnswer(p) /\ TrueReturn(p)' = TrueReturn(p) /\ Spawned(p)' = Spawned(p)
<1>1. Spawned(p)' <=> Spawned(p)
  BY DEF Spawned
<1>2. \A ok, q : Tells(p, ok, q)' <=> Tells(p, ok, q)
  BY <1>1 DEF Tells
<1>3. TrueAnswer(p)' = TrueAnswer(p)
  BY <1>2 DEF TrueAnswer
<1>4. TrueReturn(p)' = TrueReturn(p)
  BY <1>2 DEF TrueReturn
<1> QED BY <1>1, <1>3, <1>4 DEF Spawned

LEMMA RequesterKept ==
  ASSUME RemoteTypeOK, NEW p \in Requesters, RequesterInv(p), Undisturbed(p)
  PROVE  RequesterInv(p)'
<1>1. PICK w \in Places : Stands(p, w) /\ CallFits(p, w)
  BY DEF RequesterInv
<1>2. TrueAnswer(p)' = TrueAnswer(p) /\ TrueReturn(p)' = TrueReturn(p) /\ (Spawned(p)' <=> Spawned(p))
  BY TrueStays, RequestersAreIds DEF Undisturbed
<1>3. TrueAnswer(p) \subseteq AnswerOf(p) /\ TrueReturn(p) \subseteq Returns /\ p \in Ids
  BY RequestersAreIds DEF TrueAnswer, TrueReturn
<1>4. /\ Lacks(sent[1], AskOf(p)) => Lacks(sent'[1], AskOf(p))
      /\ Once(sent[1], AskOf(p), AskOf(p)) => Once(sent'[1], AskOf(p), AskOf(p))
  BY SentKept, Others DEF Undisturbed
<1>5. /\ Lacks(sent[2], AnswerOf(p)) => Lacks(sent'[2], AnswerOf(p))
      /\ Once(sent[2], AnswerOf(p), TrueAnswer(p)) => Once(sent'[2], AnswerOf(p), TrueAnswer(p))
  BY <1>3, SentKept, Others DEF Undisturbed
<1>6. /\ Lacks(mbox[1][p], Returns) => Lacks(mbox'[1][p], Returns)
      /\ Once(mbox[1][p], Returns, TrueReturn(p)) => Once(mbox'[1][p], Returns, TrueReturn(p))
  BY <1>3, MailKept DEF Undisturbed
<1>7. HandKeeps(1, p) /\ HandKeeps(2, p)
  BY Others DEF Undisturbed
<1>8. Stands(p, w)'
  <2>1. /\ IF w = "written" THEN Once(sent'[1], AskOf(p), AskOf(p)) ELSE Lacks(sent'[1], AskOf(p))
        /\ IF w = "answered" THEN Once(sent'[2], AnswerOf(p), TrueAnswer(p)) ELSE Lacks(sent'[2], AnswerOf(p))
        /\ IF w = "told" THEN Once(mbox'[1][p], Returns, TrueReturn(p)) ELSE Lacks(mbox'[1][p], Returns)
    BY <1>1, <1>4, <1>5, <1>6 DEF Stands
  <2>2. IF w = "taken" THEN hand'[2] # <<>> /\ hand'[2][2] \in AskOf(p)
                       ELSE hand'[2] # <<>> => hand'[2][2] \notin AskOf(p)
    BY <1>1, <1>7 DEF Stands, HandKeeps
  <2>3. IF w = "read" THEN hand'[1] # <<>> /\ hand'[1][2] \in TrueAnswer(p)
                      ELSE hand'[1] # <<>> => hand'[1][2] \notin AnswerOf(p)
    BY <1>1, <1>3, <1>7 DEF Stands, HandKeeps
  <2> QED BY <1>2, <2>1, <2>2, <2>3 DEF Stands, AskOf, AnswerOf, Returns
<1>9. CallFits(p, w)'
  <2>1. w = "taken" => hand'[2] = hand[2]
    BY <1>1, <1>7 DEF Stands, HandKeeps
  <2>2. w = "read" => hand'[1] = hand[1]
    BY <1>1, <1>3, <1>7 DEF Stands, HandKeeps
  <2>3. call'[p] = call[p] /\ got'[p] = got[p] /\ cur' = cur /\ last' = last
    BY DEF Undisturbed
  <2>4. call[p][1] = "wait" => call[p][2] \in SessionIds
    BY DEF RemoteTypeOK, Calls
  <2>5. w \in {"written", "taken", "answered", "read"} => p \in pend'[call'[p][2]]
    BY <1>1, <2>3, <2>4 DEF CallFits, Undisturbed, Places
  <2> QED BY <1>1, <1>2, <2>1, <2>2, <2>3, <2>5 DEF CallFits
<1> QED BY <1>8, <1>9 DEF RequesterInv, Places

LEMMA SidesKept ==
  ASSUME RemoteTypeOK, SidesFit, ReturnedIsSpawned, SpawnedOnce,
         UNCHANGED <<origin, got, cur, last>>,
         \A q \in Ids : status'[2][q] = "free" <=> status[2][q] = "free"
  PROVE  SidesFit' /\ ReturnedIsSpawned' /\ SpawnedOnce'
<1>1. SidesFit'
  BY DEF SidesFit
<1>2. \A p \in Requesters : got[p] # <<>> => got[p][2] \in Ids
  BY DEF RemoteTypeOK
<1>3. ReturnedIsSpawned'
  BY <1>2 DEF ReturnedIsSpawned
<1>4. SpawnedOnce'
  BY DEF SpawnedOnce
<1> QED BY <1>1, <1>3, <1>4
-----------------------------------------------------------------------------
(* Writing frames and delivering notices.                                  *)
LEMMA SeqWider ==
  ASSUME NEW S, NEW T, S \subseteq T, NEW s \in Seq(S)
  PROVE  s \in Seq(T)
<1>1. Len(s) \in Nat /\ s \in [1..Len(s) -> S]
  BY LenProperties
<1>2. s \in [1..Len(s) -> T]
  BY <1>1
<1> QED BY <1>1, <1>2, SeqDef

LEMMA SetAt ==
  ASSUME NEW T, NEW f \in [Sides -> [Ids -> T]], NEW n \in Sides, NEW p \in Ids, NEW v \in T
  PROVE  /\ [f EXCEPT ![n][p] = v] \in [Sides -> [Ids -> T]]
         /\ [f EXCEPT ![n][p] = v][n][p] = v
         /\ \A m \in Sides, q \in Ids : m # n \/ q # p => [f EXCEPT ![n][p] = v][m][q] = f[m][q]
<1>1. f[n] \in [Ids -> T]
  OBVIOUS
<1>2. [f EXCEPT ![n][p] = v] = [f EXCEPT ![n] = [f[n] EXCEPT ![p] = v]]
  OBVIOUS
<1>3. [f[n] EXCEPT ![p] = v] \in [Ids -> T]
  BY <1>1
<1> QED BY <1>1, <1>2, <1>3

LEMMA WrittenShape ==
  ASSUME RemoteTypeOK, NEW n \in Sides, NEW s, NEW F \in Seq(FramesOf(n)), sent' = WrittenTo(n, s, F)
  PROVE  /\ DOMAIN sent' = Sides /\ \A m \in Sides : sent'[m] \in Seq(FramesOf(m))
         /\ \A m \in Sides : m # n => sent'[m] = sent[m]
         /\ IF cur[n] = s /\ cur[OtherSide(n)] = s THEN sent'[n] = sent[n] \o F ELSE sent'[n] = sent[n]
<1>1. DOMAIN sent = Sides /\ \A m \in Sides : sent[m] \in Seq(FramesOf(m))
  BY DEF RemoteTypeOK
<1>2. sent[n] \o F \in Seq(FramesOf(n))
  BY <1>1, ConcatProperties
<1>3. CASE cur[n] = s /\ cur[OtherSide(n)] = s
  <2>1. sent' = [sent EXCEPT ![n] = sent[n] \o F]
    BY <1>3 DEF WrittenTo
  <2>2. sent'[n] = sent[n] \o F /\ DOMAIN sent' = Sides /\ \A m \in Sides : m # n => sent'[m] = sent[m]
    BY <1>1, <2>1
  <2> QED BY <1>1, <1>2, <1>3, <2>2
<1>4. CASE ~(cur[n] = s /\ cur[OtherSide(n)] = s)
  BY <1>1, <1>4 DEF WrittenTo
<1> QED BY <1>3, <1>4

\* What a quiet write does to the written frames.
SentQuietly ==
    /\ DOMAIN sent' = Sides /\ \A m \in Sides : sent'[m] \in Seq(FramesOf(m))
    /\ \A p \in Requesters : SentGrows(1, AskOf(p)) /\ SentGrows(2, AnswerOf(p))

LEMMA GrowsByNothing ==
  ASSUME RemoteTypeOK, NEW n \in Sides, sent'[n] = sent[n], NEW T
  PROVE  SentGrows(n, T)
<1>1. <<>> \in Seq(FramesOf(n)) /\ Lacks(<<>>, T)
  BY EmptySeq DEF Lacks
<1>2. sent[n] \in Seq(FramesOf(n))
  BY DEF RemoteTypeOK
<1>3. sent[n] \o <<>> = sent[n]
  BY <1>2, ConcatEmptySeq
<1> QED BY <1>1, <1>3 DEF SentGrows

LEMMA SignalsLack ==
  ASSUME NEW F \in Seq(Signals), NEW p
  PROVE  Lacks(F, AskOf(p)) /\ Lacks(F, AnswerOf(p)) /\ \A n \in Sides : F \in Seq(FramesOf(n))
<1>1. \A k \in 1..Len(F) : F[k] \in Signals
  BY ElementOfSeq
<1>2. \A n \in Sides : F \in Seq(FramesOf(n))
  BY SeqWider, FrameKinds
<1> QED BY <1>1, <1>2, SignalIsNoCall DEF Lacks

LEMMA SignalsWritten ==
  ASSUME RemoteTypeOK, NEW n \in Sides, NEW s, NEW F \in Seq(Signals), sent' = WrittenTo(n, s, F)
  PROVE  SentQuietly
<1>1. F \in Seq(FramesOf(n))
  BY SignalsLack
<1>2. /\ DOMAIN sent' = Sides /\ \A m \in Sides : sent'[m] \in Seq(FramesOf(m))
      /\ \A m \in Sides : m # n => sent'[m] = sent[m]
      /\ IF cur[n] = s /\ cur[OtherSide(n)] = s THEN sent'[n] = sent[n] \o F ELSE sent'[n] = sent[n]
  BY <1>1, WrittenShape
<1>3. ASSUME NEW m \in Sides, NEW T, Lacks(F, T) PROVE SentGrows(m, T)
  <2>1. CASE m = n /\ sent'[n] = sent[n] \o F
    BY <1>1, <1>3, <2>1 DEF SentGrows
  <2>2. CASE sent'[m] = sent[m]
    BY <2>2, GrowsByNothing
  <2> QED BY <1>2, <2>1, <2>2
<1>4. \A p : Lacks(F, AskOf(p)) /\ Lacks(F, AnswerOf(p))
  BY SignalsLack
<1> QED BY <1>2, <1>3, <1>4, Others DEF SentQuietly

LEMMA NothingWritten ==
  ASSUME RemoteTypeOK, sent' = sent
  PROVE  SentQuietly
BY GrowsByNothing, Others DEF SentQuietly, RemoteTypeOK

LEMMA MailQuiet ==
  ASSUME RemoteTypeOK, NEW p \in Ids,
         mbox'[1][p] = mbox[1][p] \/ \E m \in Notices : mbox'[1][p] = Append(mbox[1][p], m)
  PROVE  MailGrows(p)
<1>1. mbox[1][p] \in Seq(Returns \cup Notices)
  BY Others DEF RemoteTypeOK
<1>2. CASE mbox'[1][p] = mbox[1][p]
  <2>1. mbox[1][p] \o <<>> = mbox[1][p] /\ <<>> \in Seq(Returns \cup Notices) /\ Lacks(<<>>, Returns)
    BY <1>1, ConcatEmptySeq, EmptySeq DEF Lacks
  <2> QED BY <1>2, <2>1 DEF MailGrows
<1>3. CASE \E m \in Notices : mbox'[1][p] = Append(mbox[1][p], m)
  <2>1. PICK m \in Notices : mbox'[1][p] = Append(mbox[1][p], m)
    BY <1>3
  <2>2. m \in Returns \cup Notices /\ m \notin Returns
    BY NoticeIsNoReturn
  <2>3. <<m>> \in Seq(Returns \cup Notices) /\ Lacks(<<m>>, Returns)
    BY <2>2, SinglesAre
  <2>4. Append(mbox[1][p], m) = mbox[1][p] \o <<m>>
    BY <1>1, <2>2, AppendIsConcat
  <2> QED BY <2>1, <2>3, <2>4 DEF MailGrows
<1> QED BY <1>2, <1>3

\* A step in which no call moves.
LEMMA QuietStep ==
  ASSUME RemoteInv, RemoteTypeOK', SentQuietly, \A p \in Ids : MailGrows(p),
         \A n \in Sides, p \in Requesters : HandKeeps(n, p),
         UNCHANGED <<origin, call, pend, got, cur, last>>,
         \A q \in Ids : status'[2][q] = "free" <=> status[2][q] = "free"
  PROVE  RemoteInv'
<1>1. SidesFit' /\ ReturnedIsSpawned' /\ SpawnedOnce'
  BY SidesKept DEF RemoteInv
<1>2. ASSUME NEW p \in Requesters PROVE RequesterInv(p)'
  <2>1. Undisturbed(p)
    BY RequestersAreIds DEF Undisturbed, SentQuietly
  <2> QED BY <2>1, RequesterKept DEF RemoteInv
<1> QED BY <1>1, <1>2 DEF RemoteInv

LEMMA SameHand ==
  ASSUME hand' = hand
  PROVE  \A n \in Sides, p \in Requesters : HandKeeps(n, p)
BY DEF HandKeeps
-----------------------------------------------------------------------------
(* The steps in which no call moves.                                       *)
LEMMA MonitorStep ==
  ASSUME RemoteInv, NEW p \in Requesters, Monitor(p)
  PROVE  RemoteInv'
<1>1. /\ p \in Ids /\ got[p] # <<>> /\ hand' = hand
      /\ UNCHANGED <<status, reason, links, monby, origin, call, pend, got, cur, last, hand>>
  BY RequestersAreIds DEF Monitor
<1>2. RemoteTypeOK
  BY DEF RemoteInv
<1>3. got[p] \in UsedPids /\ <<0, p>> \in UsedPids
  <2>1. got[p] \in SessionIds \X Ids
    BY <1>1, <1>2 DEF RemoteTypeOK
  <2> QED BY <1>1, <2>1, PidKinds DEF UsedPids
<1>4. CASE cur[1] = got[p][1]
  <2>1. /\ mons' = [mons EXCEPT ![1][p] = mons[1][p] \cup {got[p]}]
        /\ sent' = Sent(1, got[p], <<"monitor", <<0, p>>, got[p]>>) /\ mbox' = mbox
    BY <1>4 DEF Monitor
  <2>2. mons \in [Sides -> [Ids -> SUBSET UsedPids]] /\ mons[1][p] \cup {got[p]} \in SUBSET UsedPids
    BY <1>1, <1>2, <1>3, Others DEF RemoteTypeOK
  <2>3. mons' \in [Sides -> [Ids -> SUBSET UsedPids]]
    BY <1>1, <2>1, <2>2, SetAt, Others
  <2>4. <<"monitor", <<0, p>>, got[p]>> \in Signals
    BY <1>3 DEF Signals
  <2>5. <<<<"monitor", <<0, p>>, got[p]>>>> \in Seq(Signals)
    BY <2>4, SinglesAre
  <2>6. SentQuietly
    BY <1>2, <2>1, <2>5, SignalsWritten, Others DEF Sent
  <2>7. RemoteTypeOK'
    BY <1>1, <1>2, <2>1, <2>3, <2>6 DEF RemoteTypeOK, SentQuietly
  <2>8. \A q \in Ids : MailGrows(q)
    BY <1>2, <2>1, MailQuiet
  <2> QED BY <1>1, <2>6, <2>7, <2>8, SameHand, QuietStep
<1>5. CASE cur[1] # got[p][1]
  <2>1. mbox' = [mbox EXCEPT ![1][p] = Append(mbox[1][p], <<"down", got[p], "noconnection">>)]
        /\ mons' = mons /\ sent' = sent
    BY <1>5 DEF Monitor, Deliver
  <2>2. <<"down", got[p], "noconnection">> \in Notices
    BY <1>3, NoticeIsNoReturn DEF Reasons
  <2>3. mbox \in [Sides -> [Ids -> Seq(Returns \cup Notices)]]
    BY <1>2 DEF RemoteTypeOK
  <2>4. Append(mbox[1][p], <<"down", got[p], "noconnection">>) \in Seq(Returns \cup Notices)
    BY <1>1, <2>2, <2>3, Others, AppendProperties
  <2>5. /\ mbox' \in [Sides -> [Ids -> Seq(Returns \cup Notices)]]
        /\ mbox'[1][p] = Append(mbox[1][p], <<"down", got[p], "noconnection">>)
        /\ \A q \in Ids : q # p => mbox'[1][q] = mbox[1][q]
    BY <1>1, <2>1, <2>3, <2>4, SetAt, Others
  <2>6. SentQuietly
    BY <1>2, <2>1, NothingWritten
  <2>7. RemoteTypeOK'
    BY <1>1, <1>2, <2>1, <2>5, <2>6 DEF RemoteTypeOK, SentQuietly
  <2>8. \A q \in Ids : MailGrows(q)
    BY <1>2, <2>2, <2>5, MailQuiet
  <2> QED BY <1>1, <2>6, <2>7, <2>8, SameHand, QuietStep
<1> QED BY <1>4, <1>5

LEMMA LinkStep ==
  ASSUME RemoteInv, NEW p \in Requesters, Link(p)
  PROVE  RemoteInv'
<1>1. /\ p \in Ids /\ got[p] # <<>> /\ hand' = hand /\ mbox' = mbox
      /\ UNCHANGED <<status, reason, mons, monby, mbox, origin, call, pend, got, cur, last, hand>>
      /\ links' = [links EXCEPT ![1][p] = links[1][p] \cup {got[p]}]
      /\ sent' = WrittenTo(1, got[p][1], <<<<"link", <<0, p>>, got[p]>>>>)
  BY RequestersAreIds DEF Link, Sent
<1>2. RemoteTypeOK
  BY DEF RemoteInv
<1>3. got[p] \in UsedPids /\ <<0, p>> \in UsedPids
  <2>1. got[p] \in SessionIds \X Ids
    BY <1>1, <1>2 DEF RemoteTypeOK
  <2> QED BY <1>1, <2>1, PidKinds DEF UsedPids
<1>4. links \in [Sides -> [Ids -> SUBSET UsedPids]] /\ links[1][p] \cup {got[p]} \in SUBSET UsedPids
  BY <1>1, <1>2, <1>3, Others DEF RemoteTypeOK
<1>5. links' \in [Sides -> [Ids -> SUBSET UsedPids]]
  BY <1>1, <1>4, SetAt, Others
<1>6. <<"link", <<0, p>>, got[p]>> \in Signals
  BY <1>3 DEF Signals
<1>7. <<<<"link", <<0, p>>, got[p]>>>> \in Seq(Signals)
  BY <1>6, SinglesAre
<1>8. SentQuietly
  BY <1>1, <1>2, <1>7, SignalsWritten, Others
<1>9. RemoteTypeOK'
  BY <1>1, <1>2, <1>5, <1>8 DEF RemoteTypeOK, SentQuietly
<1>10. \A q \in Ids : MailGrows(q)
  BY <1>1, <1>2, MailQuiet
<1> QED BY <1>1, <1>8, <1>9, <1>10, SameHand, QuietStep

LEMMA UsedPidsFinite == IsFiniteSet(UsedPids)
<1>1. PICK N \in Nat : Ids = 1..N
  BY IdsRange
<1>2. IsFiniteSet(Ids)
  BY <1>1, FS_Interval
<1>3. IsFiniteSet(SessionIds) /\ IsFiniteSet({0})
  <2>1. MaxSessionIds \in Nat /\ SessionIds = 1..MaxSessionIds
    BY RemoteAssumption DEF SessionIds
  <2>2. IsFiniteSet(1..MaxSessionIds)
    BY <2>1, FS_Interval
  <2> QED BY <2>1, <2>2, FS_Singleton
<1>4. IsFiniteSet({0} \cup SessionIds)
  BY <1>3, FS_Union
<1> QED BY <1>2, <1>4, FS_Product DEF UsedPids

\* The frames that an exit writes, in some order.
LEMMA ExitFrames ==
  ASSUME NEW kind \in {"exit", "down"}, NEW x \in UsedPids, NEW Far \in SUBSET UsedPids, NEW why \in Reasons
  PROVE  SetToSeq({<<kind, x, y, why>> : y \in Far}) \in Seq(Signals)
<1> DEFINE F == {<<kind, x, y, why>> : y \in Far}
           f == [y \in Far |-> <<kind, x, y, why>>]
<1>1. IsFiniteSet(Far)
  BY UsedPidsFinite, FS_Subset
<1>2. f \in Surjection(Far, F)
  BY DEF Surjection
<1>3. IsFiniteSet(F)
  BY <1>1, <1>2, FS_Surjection
<1>4. F \subseteq Signals
  BY DEF Signals
<1>5. SetToSeq(F) \in Seq(F)
  BY <1>3, SetToSeqTyped
<1> QED BY <1>4, <1>5, SeqWider

LEMMA ExitStep ==
  ASSUME RemoteInv, NEW n \in Sides, NEW p \in Ids, NEW why \in {"normal", "crash"}, Exit(n, p, why)
  PROVE  RemoteInv'
<1> DEFINE local == {q \in Ids : <<0, q>> \in links[n][p] /\ Running(n, q) /\ q # p}
           Away(pids) == {x \in pids : x[1] # 0 /\ x[1] = cur[n]}
           F == SetToSeq({<<"exit", <<0, p>>, x, why>> : x \in Away(links[n][p])})
           G == SetToSeq({<<"down", <<0, p>>, x, why>> : x \in Away(monby[n][p])})
<1>1. RemoteTypeOK
  BY DEF RemoteInv
<1>2. /\ status[n][p] = "run" \/ (status[n][p] = "doomed" /\ why = "normal")
      /\ status' = [status EXCEPT ![n] = [q \in Ids |->
               IF q = p THEN "done" ELSE IF q \in local /\ why # "normal" THEN "doomed" ELSE status[n][q]]]
      /\ reason' = [reason EXCEPT ![n] = [q \in Ids |->
               IF q = p /\ status[n][p] = "run" THEN why
               ELSE IF q \in local /\ why # "normal" THEN "linked" ELSE reason[n][q]]]
  BY DEF Exit
<1>3. /\ links' = [links EXCEPT ![n] = [q \in Ids |->
               IF q = p THEN {} ELSE IF q \in local THEN links[n][q] \ {<<0, p>>} ELSE links[n][q]]]
      /\ mbox' = IF why = "normal"
                 THEN [mbox EXCEPT ![n] = [q \in Ids |->
                         IF q \in local THEN Append(mbox[n][q], <<"exit", <<0, p>>, why>>) ELSE mbox[n][q]]]
                 ELSE mbox
      /\ sent' = WrittenTo(n, cur[n], F \o G)
      /\ monby' = [monby EXCEPT ![n][p] = {}]
      /\ UNCHANGED <<mons, origin, call, pend, got, cur, last, hand>>
  BY DEF Exit
<1>4. <<0, p>> \in UsedPids /\ why \in Reasons
  BY PidKinds DEF Reasons
<1>5. Away(links[n][p]) \in SUBSET UsedPids /\ Away(monby[n][p]) \in SUBSET UsedPids
  BY <1>1 DEF RemoteTypeOK
<1>6. F \in Seq(Signals) /\ G \in Seq(Signals)
  <2> HIDE DEF Away
  <2> QED BY <1>4, <1>5, ExitFrames
<1> HIDE DEF F, G
<1>7. F \o G \in Seq(Signals)
  BY <1>6, ConcatProperties
<1>8. SentQuietly
  BY <1>1, <1>3, <1>7, SignalsWritten
<1> HIDE DEF local
<1>9. status' \in [Sides -> [Ids -> {"free", "run", "doomed", "done"}]]
  BY <1>1, <1>2 DEF RemoteTypeOK
<1>10. reason' \in [Sides -> [Ids -> {"none", "normal", "crash", "linked", "noconnection"}]]
  BY <1>1, <1>2 DEF RemoteTypeOK
<1>11. links' \in [Sides -> [Ids -> SUBSET UsedPids]]
  <2>1. links \in [Sides -> [Ids -> SUBSET UsedPids]]
    BY <1>1 DEF RemoteTypeOK
  <2>2. [q \in Ids |-> IF q = p THEN {} ELSE IF q \in local THEN links[n][q] \ {<<0, p>>} ELSE links[n][q]]
           \in [Ids -> SUBSET UsedPids]
    BY <2>1
  <2> QED BY <1>3, <2>1, <2>2
<1>12. monby' \in [Sides -> [Ids -> SUBSET UsedPids]]
  <2>1. monby \in [Sides -> [Ids -> SUBSET UsedPids]] /\ {} \in SUBSET UsedPids
    BY <1>1 DEF RemoteTypeOK
  <2> QED BY <1>3, <2>1, SetAt
<1>13. /\ mbox' \in [Sides -> [Ids -> Seq(Returns \cup Notices)]]
       /\ \A q \in Ids : mbox'[1][q] = mbox[1][q] \/ \E m \in Notices : mbox'[1][q] = Append(mbox[1][q], m)
  <2>1. mbox \in [Sides -> [Ids -> Seq(Returns \cup Notices)]]
    BY <1>1 DEF RemoteTypeOK
  <2>2. <<"exit", <<0, p>>, why>> \in Notices
    BY <1>4, NoticeIsNoReturn
  <2>3. CASE why = "normal"
    <3> DEFINE m == <<"exit", <<0, p>>, why>>
               box == [q \in Ids |-> IF q \in local THEN Append(mbox[n][q], m) ELSE mbox[n][q]]
    <3> HIDE DEF m
    <3>1. \A q \in Ids : Append(mbox[n][q], m) \in Seq(Returns \cup Notices)
      BY <2>1, <2>2, AppendProperties DEF m
    <3>2. box \in [Ids -> Seq(Returns \cup Notices)]
      BY <2>1, <3>1
    <3>3. mbox' = [mbox EXCEPT ![n] = box]
      BY <1>3, <2>3 DEF m
    <3>4. \A q \in Ids : box[q] = mbox[n][q] \/ box[q] = Append(mbox[n][q], m)
      OBVIOUS
    <3> HIDE DEF box
    <3>5. \A q \in Ids : mbox'[1][q] = mbox[1][q] \/ mbox'[1][q] = Append(mbox[1][q], m)
      BY <2>1, <3>3, <3>4, Others
    <3>6. mbox' \in [Sides -> [Ids -> Seq(Returns \cup Notices)]]
      BY <2>1, <3>2, <3>3
    <3> QED BY <2>2, <3>5, <3>6 DEF m
  <2>4. CASE why # "normal"
    BY <1>3, <2>1, <2>4
  <2> QED BY <2>3, <2>4
<1>14. RemoteTypeOK'
  BY <1>1, <1>3, <1>8, <1>9, <1>10, <1>11, <1>12, <1>13 DEF RemoteTypeOK, SentQuietly
<1>15. \A q \in Ids : MailGrows(q)
  BY <1>1, <1>13, MailQuiet
<1>16. \A q \in Ids : status'[2][q] = "free" <=> status[2][q] = "free"
  <2>1. status \in [Sides -> [Ids -> {"free", "run", "doomed", "done"}]]
    BY <1>1 DEF RemoteTypeOK
  <2>2. \A q \in local : status[n][q] = "run"
    BY DEF local, Running
  <2> QED BY <1>2, <2>1, <2>2, Others
<1> QED BY <1>3, <1>8, <1>14, <1>15, <1>16, SameHand, QuietStep

\* The signal in hand: a reader has nothing of a call in its hand then.
LEMMA SignalInHand ==
  ASSUME RemoteTypeOK, NEW n \in Sides, hand[n] # <<>>, hand[n][2][1] \in {"link", "monitor", "exit", "down"},
         hand' = [hand EXCEPT ![n] = <<>>]
  PROVE  /\ hand[n][2] \in Signals /\ hand[n][2][2] \in UsedPids /\ hand[n][2][3] \in UsedPids
         /\ hand[n][2][1] \in {"exit", "down"} => hand[n][2][4] \in Reasons
         /\ \A m \in Sides, p \in Requesters : HandKeeps(m, p)
         /\ DOMAIN hand' = Sides /\ \A m \in Sides : hand'[m] \in {<<>>} \cup (SessionIds \X FramesOf(OtherSide(m)))
<1>1. DOMAIN hand = Sides /\ \A m \in Sides : hand[m] \in {<<>>} \cup (SessionIds \X FramesOf(OtherSide(m)))
  BY DEF RemoteTypeOK
<1>2. hand[n] \in SessionIds \X FramesOf(OtherSide(n)) /\ OtherSide(n) \in Sides
  BY <1>1, Others
<1>3. hand[n][2] \in FramesOf(OtherSide(n))
  BY <1>2
<1>4. /\ hand[n][2] \in Signals /\ hand[n][2][2] \in UsedPids /\ hand[n][2][3] \in UsedPids
      /\ hand[n][2][1] \in {"exit", "down"} => hand[n][2][4] \in Reasons
  BY <1>2, <1>3, FrameFields
<1>5. hand'[n] = <<>> /\ DOMAIN hand' = Sides /\ \A m \in Sides : m # n => hand'[m] = hand[m]
  BY <1>1
<1>6. \A p : hand[n][2] \notin AskOf(p) /\ hand[n][2] \notin AnswerOf(p)
  BY <1>4, SignalIsNoCall
<1>7. \A m \in Sides, p \in Requesters : HandKeeps(m, p)
  BY <1>5, <1>6 DEF HandKeeps
<1> QED BY <1>1, <1>4, <1>5, <1>7

LEMMA HandleSignalStep ==
  ASSUME RemoteInv, NEW n \in Sides, HandleSignal(n)
  PROVE  RemoteInv'
<1> DEFINE f == hand[n][2]
           known == Lookup(n, f[3])
           q == f[3][2]
<1>1. RemoteTypeOK
  BY DEF RemoteInv
<1>2. hand[n] # <<>> /\ f[1] \in {"link", "monitor", "exit", "down"} /\ hand' = [hand EXCEPT ![n] = <<>>]
  BY DEF HandleSignal
<1>3. /\ f \in Signals /\ f[2] \in UsedPids /\ f[3] \in UsedPids
      /\ f[1] \in {"exit", "down"} => f[4] \in Reasons
      /\ \A m \in Sides, p \in Requesters : HandKeeps(m, p)
      /\ DOMAIN hand' = Sides /\ \A m \in Sides : hand'[m] \in {<<>>} \cup (SessionIds \X FramesOf(OtherSide(m)))
  BY <1>1, <1>2, SignalInHand
<1>4. q \in Ids
  BY <1>3, PidKinds
<1>5. UNCHANGED <<reason, origin, call, pend, got, cur, last>>
  BY DEF HandleSignal
<1>6. links' \in [Sides -> [Ids -> SUBSET UsedPids]]
  <2>1. \/ links' = [links EXCEPT ![n][q] = links[n][q] \cup {f[2]}]
        \/ links' = [links EXCEPT ![n][q] = links[n][q] \ {f[2]}]
        \/ links' = links
    BY DEF HandleSignal
  <2>2. links \in [Sides -> [Ids -> SUBSET UsedPids]]
    BY <1>1 DEF RemoteTypeOK
  <2>3. links[n][q] \cup {f[2]} \in SUBSET UsedPids /\ links[n][q] \ {f[2]} \in SUBSET UsedPids
    BY <1>3, <1>4, <2>2
  <2> HIDE DEF f, q
  <2> QED BY <1>4, <2>1, <2>2, <2>3, SetAt
<1>7. monby' \in [Sides -> [Ids -> SUBSET UsedPids]]
  <2>1. monby' = [monby EXCEPT ![n][q] = monby[n][q] \cup {f[2]}] \/ monby' = monby
    BY DEF HandleSignal
  <2>2. monby \in [Sides -> [Ids -> SUBSET UsedPids]]
    BY <1>1 DEF RemoteTypeOK
  <2>3. monby[n][q] \cup {f[2]} \in SUBSET UsedPids
    BY <1>3, <1>4, <2>2
  <2> HIDE DEF f, q
  <2> QED BY <1>4, <2>1, <2>2, <2>3, SetAt
<1>8. mons' \in [Sides -> [Ids -> SUBSET UsedPids]]
  <2>1. mons' = [mons EXCEPT ![n][q] = mons[n][q] \ {f[2]}] \/ mons' = mons
    BY DEF HandleSignal
  <2>2. mons \in [Sides -> [Ids -> SUBSET UsedPids]]
    BY <1>1 DEF RemoteTypeOK
  <2>3. mons[n][q] \ {f[2]} \in SUBSET UsedPids
    BY <1>4, <2>2
  <2> HIDE DEF f, q
  <2> QED BY <1>4, <2>1, <2>2, <2>3, SetAt
<1>9. /\ mbox' \in [Sides -> [Ids -> Seq(Returns \cup Notices)]]
      /\ \A r \in Ids : mbox'[1][r] = mbox[1][r] \/ \E m \in Notices : mbox'[1][r] = Append(mbox[1][r], m)
  <2>1. \/ f[1] = "down" /\ mbox' = Deliver(n, q, <<"down", f[2], f[4]>>)
        \/ f[1] = "exit" /\ mbox' = Deliver(n, q, <<"exit", f[2], f[4]>>)
        \/ mbox' = mbox
    BY DEF HandleSignal
  <2>2. f[1] \in {"exit", "down"} => <<"down", f[2], f[4]>> \in Notices /\ <<"exit", f[2], f[4]>> \in Notices
    BY <1>3, NoticeIsNoReturn
  <2>3. mbox \in [Sides -> [Ids -> Seq(Returns \cup Notices)]]
    BY <1>1 DEF RemoteTypeOK
  <2>4. CASE mbox' = mbox
    BY <2>3, <2>4
  <2>5. CASE \E m \in Notices : mbox' = Deliver(n, q, m)
    <3>1. PICK m \in Notices : mbox' = Deliver(n, q, m)
      BY <2>5
    <3>2. mbox' = [mbox EXCEPT ![n][q] = Append(mbox[n][q], m)]
      BY <3>1 DEF Deliver
    <3> HIDE DEF f, q
    <3>3. Append(mbox[n][q], m) \in Seq(Returns \cup Notices)
      BY <1>4, <2>3, AppendProperties
    <3>4. /\ mbox' \in [Sides -> [Ids -> Seq(Returns \cup Notices)]]
          /\ mbox'[n][q] = Append(mbox[n][q], m)
          /\ \A o \in Sides, r \in Ids : o # n \/ r # q => mbox'[o][r] = mbox[o][r]
      BY <1>4, <2>3, <3>2, <3>3, SetAt
    <3> QED BY <3>1, <3>4, Others
  <2> HIDE DEF f, q
  <2> QED BY <2>1, <2>2, <2>4, <2>5
<1>10. /\ status' \in [Sides -> [Ids -> {"free", "run", "doomed", "done"}]]
       /\ \A r \in Ids : status'[2][r] = "free" <=> status[2][r] = "free"
  <2>1. (Running(n, q) /\ status' = [status EXCEPT ![n][q] = "doomed"]) \/ status' = status
    BY DEF HandleSignal
  <2>2. status \in [Sides -> [Ids -> {"free", "run", "doomed", "done"}]]
    BY <1>1 DEF RemoteTypeOK
  <2> HIDE DEF f, q
  <2>3. CASE status' = status
    BY <2>2, <2>3
  <2>4. CASE Running(n, q) /\ status' = [status EXCEPT ![n][q] = "doomed"]
    <3>1. /\ status' \in [Sides -> [Ids -> {"free", "run", "doomed", "done"}]]
          /\ status'[n][q] = "doomed"
          /\ \A o \in Sides, r \in Ids : o # n \/ r # q => status'[o][r] = status[o][r]
      BY <1>4, <2>2, <2>4, SetAt
    <3> QED BY <2>4, <3>1, Others DEF Running
  <2> QED BY <2>1, <2>3, <2>4
<1>11. SentQuietly
  <2>1. (f[1] = "monitor" /\ sent' = WrittenTo(n, hand[n][1], <<<<"down", f[3], f[2], "noproc">>>>)) \/ sent' = sent
    BY DEF HandleSignal
  <2>2. <<"down", f[3], f[2], "noproc">> \in Signals
    BY <1>3 DEF Signals, Reasons
  <2>3. <<<<"down", f[3], f[2], "noproc">>>> \in Seq(Signals)
    BY <2>2, SinglesAre
  <2> HIDE DEF f
  <2> QED BY <1>1, <2>1, <2>3, SignalsWritten, NothingWritten
<1>12. RemoteTypeOK'
  BY <1>1, <1>3, <1>5, <1>6, <1>7, <1>8, <1>9, <1>10, <1>11 DEF RemoteTypeOK, SentQuietly
<1>13. \A r \in Ids : MailGrows(r)
  BY <1>1, <1>9, MailQuiet
<1> QED BY <1>3, <1>5, <1>10, <1>11, <1>12, <1>13, QuietStep
-----------------------------------------------------------------------------
(* The reader takes a frame: the call goes from the wire into its hand.    *)
LEMMA TakeStep ==
  ASSUME RemoteInv, NEW n \in Sides, Take(n)
  PROVE  RemoteInv'
<1> DEFINE o == OtherSide(n)
<1>1. RemoteTypeOK /\ SidesFit
  BY DEF RemoteInv
<1>2. /\ o \in Sides /\ o # n /\ OtherSide(o) = n
      /\ cur[n] # 0 /\ cur[n] = last /\ hand[n] = <<>> /\ sent[o] # <<>>
      /\ hand' = [hand EXCEPT ![n] = <<last, Head(sent[o])>>]
      /\ sent' = [sent EXCEPT ![o] = Tail(sent[o])]
      /\ UNCHANGED <<status, reason, links, mons, monby, mbox, origin, call, pend, got, cur, last>>
  BY Others DEF Take
<1>3. DOMAIN sent = Sides /\ DOMAIN hand = Sides /\ last \in SessionIds
      /\ (\A m \in Sides : sent[m] \in Seq(FramesOf(m)))
      /\ (\A m \in Sides : hand[m] \in {<<>>} \cup (SessionIds \X FramesOf(OtherSide(m))))
  BY <1>1 DEF RemoteTypeOK
<1>4. /\ hand'[n] = <<last, Head(sent[o])>> /\ hand'[o] = hand[o] /\ sent'[o] = Tail(sent[o]) /\ sent'[n] = sent[n]
      /\ DOMAIN sent' = Sides /\ DOMAIN hand' = Sides /\ \A m \in Sides : m = n \/ m = o
  BY <1>2, <1>3, Others
<1> HIDE DEF o
<1>5. Head(sent[o]) \in FramesOf(o) /\ Tail(sent[o]) \in Seq(FramesOf(o))
  BY <1>2, <1>3, HeadTailProperties
<1>6. RemoteTypeOK'
  <2>1. \A m \in Sides : sent'[m] \in Seq(FramesOf(m))
    BY <1>3, <1>4, <1>5
  <2>2. hand'[n] \in SessionIds \X FramesOf(OtherSide(n))
    BY <1>3, <1>4, <1>5 DEF o
  <2>3. \A m \in Sides : hand'[m] \in {<<>>} \cup (SessionIds \X FramesOf(OtherSide(m)))
    BY <1>2, <1>3, <1>4, <2>2
  <2> QED BY <1>1, <1>2, <1>4, <2>1, <2>3 DEF RemoteTypeOK
<1>7. SidesFit' /\ ReturnedIsSpawned' /\ SpawnedOnce'
  BY <1>1, <1>2, SidesKept DEF RemoteInv
<1>8. ASSUME NEW p \in Requesters PROVE RequesterInv(p)'
  <2>1. PICK w \in Places : Stands(p, w) /\ CallFits(p, w)
    BY DEF RemoteInv, RequesterInv
  <2>2. TrueAnswer(p)' = TrueAnswer(p) /\ TrueReturn(p)' = TrueReturn(p) /\ (Spawned(p)' <=> Spawned(p))
    BY <1>2, TrueStays, RequestersAreIds
  <2>3. TrueAnswer(p) \subseteq AnswerOf(p)
    BY DEF TrueAnswer
  <2>4. \A T, R : /\ Lacks(sent[o], T) => Lacks(sent'[o], T) /\ Head(sent[o]) \notin T
                  /\ Once(sent[o], T, R) /\ Head(sent[o]) \in T => Head(sent[o]) \in R /\ Lacks(sent'[o], T)
                  /\ Once(sent[o], T, R) /\ Head(sent[o]) \notin T /\ R \subseteq T => Once(sent'[o], T, R)
    <3>1. sent[o] \in Seq(FramesOf(o)) /\ sent[o] # <<>>
      BY <1>2, <1>3
    <3>2. TAKE T, R
    <3>3. /\ Lacks(sent[o], T) => Lacks(Tail(sent[o]), T) /\ Head(sent[o]) \notin T
          /\ Once(sent[o], T, R) /\ Head(sent[o]) \in T => Head(sent[o]) \in R /\ Lacks(Tail(sent[o]), T)
          /\ Once(sent[o], T, R) /\ Head(sent[o]) \notin T /\ R \subseteq T => Once(Tail(sent[o]), T, R)
      BY <3>1, TailKeeps
    <3> QED BY <1>4, <3>3
  <2>5. hand'[n][1] = last /\ hand'[n][2] = Head(sent[o]) /\ hand'[n] # <<>>
    BY <1>4
  <2>6. CASE n = 2
    <3>1. o = 1 /\ hand[2] = <<>>
      BY <1>2, <2>6, Others DEF o
    <3>2. w # "taken"
      BY <2>1, <3>1 DEF Stands
    <3>3. CASE w = "written" /\ Head(sent[1]) \in AskOf(p)
      <4>1. Lacks(sent'[1], AskOf(p))
        BY <2>1, <2>4, <3>1, <3>3 DEF Stands
      <4>2. Stands(p, "taken")'
        BY <1>2, <1>4, <2>1, <2>2, <2>5, <2>6, <3>1, <3>3, <4>1 DEF Stands, AskOf, AnswerOf, Returns
      <4>3. CallFits(p, "taken")'
        BY <1>2, <2>1, <2>2, <2>5, <2>6, <3>3 DEF CallFits
      <4> QED BY <4>2, <4>3 DEF RequesterInv, Places
    <3>4. CASE ~(w = "written" /\ Head(sent[1]) \in AskOf(p))
      <4>1. Head(sent[1]) \notin AskOf(p)
        BY <2>1, <2>4, <3>1, <3>4 DEF Stands
      <4>2. IF w = "written" THEN Once(sent'[1], AskOf(p), AskOf(p)) ELSE Lacks(sent'[1], AskOf(p))
        BY <2>1, <2>4, <3>1, <4>1 DEF Stands
      <4>3. Stands(p, w)'
        BY <1>2, <1>4, <2>1, <2>2, <2>5, <2>6, <3>1, <3>2, <4>1, <4>2 DEF Stands, AskOf, AnswerOf, Returns
      <4>4. CallFits(p, w)'
        BY <1>2, <1>4, <2>1, <2>2, <2>6, <3>1, <3>2 DEF CallFits
      <4> QED BY <4>3, <4>4 DEF RequesterInv, Places
    <3> QED BY <3>3, <3>4
  <2>7. CASE n = 1
    <3>1. o = 2 /\ hand[1] = <<>>
      BY <1>2, <2>7, Others DEF o
    <3>2. w # "read"
      BY <2>1, <3>1 DEF Stands
    <3>3. CASE w = "answered" /\ Head(sent[2]) \in AnswerOf(p)
      <4>1. Lacks(sent'[2], AnswerOf(p)) /\ Head(sent[2]) \in TrueAnswer(p)
        BY <2>1, <2>4, <3>1, <3>3 DEF Stands
      <4>2. Stands(p, "read")'
        BY <1>2, <1>4, <2>1, <2>2, <2>5, <2>7, <3>1, <3>3, <4>1 DEF Stands, AskOf, AnswerOf, Returns
      <4>3. CallFits(p, "read")'
        BY <1>2, <2>1, <2>2, <2>5, <2>7, <3>3 DEF CallFits
      <4> QED BY <4>2, <4>3 DEF RequesterInv, Places
    <3>4. CASE ~(w = "answered" /\ Head(sent[2]) \in AnswerOf(p))
      <4>1. Head(sent[2]) \notin AnswerOf(p)
        BY <2>1, <2>4, <3>1, <3>4 DEF Stands
      <4>2. IF w = "answered" THEN Once(sent'[2], AnswerOf(p), TrueAnswer(p)) ELSE Lacks(sent'[2], AnswerOf(p))
        BY <2>1, <2>3, <2>4, <3>1, <4>1 DEF Stands
      <4>3. Stands(p, w)'
        BY <1>2, <1>4, <2>1, <2>2, <2>5, <2>7, <3>1, <3>2, <4>1, <4>2 DEF Stands, AskOf, AnswerOf, Returns
      <4>4. CallFits(p, w)'
        BY <1>2, <1>4, <2>1, <2>2, <2>7, <3>1, <3>2 DEF CallFits
      <4> QED BY <4>3, <4>4 DEF RequesterInv, Places
    <3> QED BY <3>3, <3>4
  <2> QED BY <2>6, <2>7, Others
<1> QED BY <1>6, <1>7, <1>8 DEF RemoteInv
-----------------------------------------------------------------------------
(* The session is lost, or made anew: what was written is gone.            *)
LEMMA DisconnectStep ==
  ASSUME RemoteInv, NEW n \in Sides, Disconnect(n)
  PROVE  RemoteInv'
<1> DEFINE o == OtherSide(n)
           s == cur[n]
           Hit(p) == \E x \in links[n][p] : x[1] = s
           down == [p \in Ids |-> <<"down", CHOOSE x \in mons[n][p] : x[1] = s, "noconnection">>]
           box == [p \in Ids |-> IF status[n][p] = "run" /\ \E x \in mons[n][p] : x[1] = s
                                 THEN Append(mbox[n][p], down[p]) ELSE mbox[n][p]]
<1>1. RemoteTypeOK /\ SidesFit
  BY DEF RemoteInv
<1>2. /\ s # 0 /\ cur' = [cur EXCEPT ![n] = 0] /\ sent' = [sent EXCEPT ![o] = <<>>]
      /\ status' = [status EXCEPT ![n] = [p \in Ids |-> IF Hit(p) /\ status[n][p] = "run" THEN "doomed" ELSE status[n][p]]]
      /\ reason' = [reason EXCEPT ![n] = [p \in Ids |->
               IF Hit(p) /\ status[n][p] = "run" THEN "noconnection" ELSE reason[n][p]]]
      /\ UNCHANGED <<monby, origin, call, pend, got, last, hand>>
  BY DEF Disconnect
<1>3. /\ links' = [links EXCEPT ![n] = [p \in Ids |->
               IF status[n][p] = "run" THEN {x \in links[n][p] : x[1] # s} ELSE links[n][p]]]
      /\ mons' = [mons EXCEPT ![n] = [p \in Ids |->
               IF status[n][p] = "run" THEN {x \in mons[n][p] : x[1] # s} ELSE mons[n][p]]]
  BY DEF Disconnect
<1>4. mbox' = [mbox EXCEPT ![n] = box]
  BY DEF Disconnect
<1>5. o \in Sides /\ o # n /\ \A m \in Sides : m = n \/ m = o
  BY Others
<1>6. DOMAIN sent = Sides /\ cur \in [Sides -> {0} \cup SessionIds] /\ \A m \in Sides : sent[m] \in Seq(FramesOf(m))
  BY <1>1 DEF RemoteTypeOK
<1>7. sent'[o] = <<>> /\ sent'[n] = sent[n] /\ DOMAIN sent' = Sides /\ cur'[n] = 0 /\ cur'[o] = cur[o]
      /\ cur' \in [Sides -> {0} \cup SessionIds]
  BY <1>2, <1>5, <1>6
<1> HIDE DEF o, Hit
<1>8. \A m \in Sides : sent'[m] \in Seq(FramesOf(m))
  BY <1>5, <1>6, <1>7, EmptySeq
<1>9. /\ status' \in [Sides -> [Ids -> {"free", "run", "doomed", "done"}]]
      /\ \A q \in Ids : status'[2][q] = "free" <=> status[2][q] = "free"
  <2>1. status \in [Sides -> [Ids -> {"free", "run", "doomed", "done"}]]
    BY <1>1 DEF RemoteTypeOK
  <2> QED BY <1>2, <2>1, Others
<1>10. reason' \in [Sides -> [Ids -> {"none", "normal", "crash", "linked", "noconnection"}]]
  BY <1>1, <1>2 DEF RemoteTypeOK
<1>11. links' \in [Sides -> [Ids -> SUBSET UsedPids]]
  <2>1. links \in [Sides -> [Ids -> SUBSET UsedPids]]
    BY <1>1 DEF RemoteTypeOK
  <2>2. [p \in Ids |-> IF status[n][p] = "run" THEN {x \in links[n][p] : x[1] # s} ELSE links[n][p]]
           \in [Ids -> SUBSET UsedPids]
    BY <2>1
  <2> QED BY <1>3, <2>1, <2>2
<1>12. mons' \in [Sides -> [Ids -> SUBSET UsedPids]]
  <2>1. mons \in [Sides -> [Ids -> SUBSET UsedPids]]
    BY <1>1 DEF RemoteTypeOK
  <2>2. [p \in Ids |-> IF status[n][p] = "run" THEN {x \in mons[n][p] : x[1] # s} ELSE mons[n][p]]
           \in [Ids -> SUBSET UsedPids]
    BY <2>1
  <2> QED BY <1>3, <2>1, <2>2
<1>13. /\ mbox' \in [Sides -> [Ids -> Seq(Returns \cup Notices)]]
       /\ \A q \in Ids : mbox'[1][q] = mbox[1][q] \/ \E m \in Notices : mbox'[1][q] = Append(mbox[1][q], m)
  <2>1. mbox \in [Sides -> [Ids -> Seq(Returns \cup Notices)]] /\ mons \in [Sides -> [Ids -> SUBSET UsedPids]]
    BY <1>1 DEF RemoteTypeOK
  <2>2. ASSUME NEW p \in Ids, \E x \in mons[n][p] : x[1] = s PROVE down[p] \in Notices
    <3>1. (CHOOSE x \in mons[n][p] : x[1] = s) \in UsedPids
      BY <2>1, <2>2
    <3>2. "noconnection" \in Reasons
      BY DEF Reasons
    <3> QED BY <3>1, <3>2, NoticeIsNoReturn
  <2> HIDE DEF down
  <2>3. \A p \in Ids : box[p] = mbox[n][p] \/ \E m \in Notices : box[p] = Append(mbox[n][p], m)
    BY <2>2
  <2>4. \A p \in Ids, m \in Notices : Append(mbox[n][p], m) \in Seq(Returns \cup Notices)
    BY <2>1, AppendProperties
  <2>5. ASSUME NEW p \in Ids PROVE box[p] \in Seq(Returns \cup Notices)
    <3> HIDE DEF box
    <3> QED BY <2>1, <2>3, <2>4
  <2>6. box \in [Ids -> Seq(Returns \cup Notices)]
    BY <2>5
  <2> HIDE DEF box
  <2>7. mbox' \in [Sides -> [Ids -> Seq(Returns \cup Notices)]]
    BY <1>4, <2>1, <2>6
  <2>8. \A q \in Ids : mbox'[1][q] = mbox[1][q] \/ (mbox'[1][q] = box[q] /\ n = 1)
    BY <1>4, <2>1, <2>6, Others
  <2> QED BY <2>3, <2>7, <2>8
<1>14. RemoteTypeOK'
  BY <1>1, <1>2, <1>7, <1>8, <1>9, <1>10, <1>11, <1>12, <1>13 DEF RemoteTypeOK
<1>15. SidesFit'
  BY <1>1, <1>2, <1>5, <1>7, <1>9 DEF SidesFit
<1>16. ReturnedIsSpawned' /\ SpawnedOnce'
  <2>1. \A p \in Requesters : got[p] # <<>> => got[p][2] \in Ids
    BY <1>1 DEF RemoteTypeOK
  <2> QED BY <1>2, <1>9, <2>1 DEF RemoteInv, ReturnedIsSpawned, SpawnedOnce
<1>17. ASSUME NEW p \in Requesters PROVE RequesterInv(p)'
  <2>1. PICK w \in Places : Stands(p, w) /\ CallFits(p, w)
    BY DEF RemoteInv, RequesterInv
  <2>2. TrueAnswer(p)' = TrueAnswer(p) /\ TrueReturn(p)' = TrueReturn(p) /\ (Spawned(p)' <=> Spawned(p))
    BY <1>2, TrueStays, RequestersAreIds
  <2>3. p \in Ids /\ TrueReturn(p) \subseteq Returns
    BY RequestersAreIds DEF TrueReturn
  <2>4. /\ Lacks(mbox[1][p], Returns) => Lacks(mbox'[1][p], Returns)
        /\ Once(mbox[1][p], Returns, TrueReturn(p)) => Once(mbox'[1][p], Returns, TrueReturn(p))
    BY <1>1, <1>13, <2>3, MailQuiet, MailKept
  <2>5. \A T : Lacks(sent'[o], T)
    BY <1>7, EmptySeq DEF Lacks
  <2>6. call[p][1] = "wait" => call[p][2] \in SessionIds /\ 0 \notin SessionIds
    BY <1>1 DEF RemoteTypeOK, Calls, SessionIds
  <2>7. PICK v \in Places :
          /\ v = w \/ v = "none"
          /\ IF v = "written" THEN Once(sent'[1], AskOf(p), AskOf(p)) ELSE Lacks(sent'[1], AskOf(p))
          /\ IF v = "answered" THEN Once(sent'[2], AnswerOf(p), TrueAnswer(p)) ELSE Lacks(sent'[2], AnswerOf(p))
          /\ w # v => w \in {"written", "answered"}
    <3>1. CASE (w = "written" /\ o = 1) \/ (w = "answered" /\ o = 2)
      <4>1. /\ Lacks(sent'[1], AskOf(p)) /\ Lacks(sent'[2], AnswerOf(p)) /\ "none" \in Places
        BY <1>5, <1>7, <2>1, <2>5, <3>1, Others DEF Stands, Places
      <4> QED BY <3>1, <4>1
    <3>2. CASE ~((w = "written" /\ o = 1) \/ (w = "answered" /\ o = 2))
      BY <1>5, <1>7, <2>1, <2>5, <3>2, Others DEF Stands
    <3> QED BY <3>1, <3>2
  <2>8. Stands(p, v)'
    BY <1>2, <2>1, <2>2, <2>4, <2>7 DEF Stands, AskOf, AnswerOf, Returns
  <2>9. CallFits(p, v)'
    <3>1. ~(call[p][1] = "wait" /\ cur'[1] = call[p][2] /\ cur'[2] = call[p][2])
      BY <1>5, <1>7, <2>6, Others
    <3> QED BY <1>2, <2>1, <2>2, <2>7, <3>1 DEF CallFits
  <2> QED BY <2>8, <2>9 DEF RequesterInv, Places
<1> QED BY <1>14, <1>15, <1>16, <1>17 DEF RemoteInv

LEMMA ConnectStep ==
  ASSUME RemoteInv, Connect
  PROVE  RemoteInv'
<1>1. RemoteTypeOK /\ SidesFit
  BY DEF RemoteInv
<1>2. /\ cur = [n \in Sides |-> 0] /\ last < MaxSessionIds
      /\ last' = last + 1 /\ cur' = [n \in Sides |-> last + 1] /\ sent' = [n \in Sides |-> <<>>]
      /\ UNCHANGED <<status, reason, links, mons, monby, mbox, origin, call, pend, got, hand>>
  BY DEF Connect
<1>3. last \in Nat /\ last + 1 \in SessionIds /\ SessionIds \subseteq Nat
  BY <1>1, <1>2, RemoteAssumption DEF RemoteTypeOK, SessionIds
<1>4. RemoteTypeOK'
  <2>1. \A m \in Sides : sent'[m] \in Seq(FramesOf(m))
    BY <1>2, EmptySeq
  <2> QED BY <1>1, <1>2, <1>3, <2>1 DEF RemoteTypeOK
<1>5. SidesFit'
  BY <1>1, <1>2 DEF SidesFit
<1>6. ReturnedIsSpawned' /\ SpawnedOnce'
  BY <1>2 DEF RemoteInv, ReturnedIsSpawned, SpawnedOnce
<1>7. ASSUME NEW p \in Requesters PROVE RequesterInv(p)'
  <2>1. PICK w \in Places : Stands(p, w) /\ CallFits(p, w)
    BY DEF RemoteInv, RequesterInv
  <2>2. TrueAnswer(p)' = TrueAnswer(p) /\ TrueReturn(p)' = TrueReturn(p) /\ (Spawned(p)' <=> Spawned(p))
    BY <1>2, TrueStays, RequestersAreIds
  <2>3. \A m \in Sides : \A T : Lacks(sent'[m], T)
    BY <1>2, EmptySeq DEF Lacks
  <2>4. call[p][1] # "idle" => call[p][2] \in SessionIds /\ call[p][2] <= last
    BY <1>1, <2>1 DEF RemoteTypeOK, Calls, CallFits
  <2>5. PICK v \in Places : v \notin {"written", "answered"} /\ (v = w \/ (v = "none" /\ w \in {"written", "answered"}))
    BY DEF Places
  <2>6. Stands(p, v)'
    BY <1>2, <2>1, <2>2, <2>3, <2>5, Others DEF Stands, AskOf, AnswerOf, Returns
  <2>7. CallFits(p, v)'
    <3>1. ~(call[p][1] = "wait" /\ cur'[1] = call[p][2] /\ cur'[2] = call[p][2])
      BY <1>2, <1>3, <2>4, Others
    <3>2. ASSUME call[p][1] # "idle" PROVE call[p][2] <= last'
      <4>1. call[p][2] \in Nat /\ call[p][2] <= last /\ last' = last + 1
        BY <1>2, <1>3, <2>4, <3>2
      <4> QED BY <1>3, <4>1
    <3> QED BY <1>2, <2>1, <2>2, <2>5, <3>1, <3>2 DEF CallFits
  <2> QED BY <2>6, <2>7 DEF RequesterInv, Places
<1> QED BY <1>4, <1>5, <1>6, <1>7 DEF RemoteInv
-----------------------------------------------------------------------------
(* mesh_node_spawn asks, and takes its reply.                              *)

\* What stays the same for a requester that is not the one of the step.
LEMMA OthersKept ==
  ASSUME RemoteInv, NEW r \in Requesters, Undisturbed(r)
  PROVE  RequesterInv(r)'
BY RequesterKept DEF RemoteInv

\* A requester that has no call out.
LEMMA NoCallOut ==
  ASSUME RemoteInv, NEW p \in Requesters, call[p][1] # "wait", got[p] = <<>>
  PROVE  Stands(p, "none") /\ CallFits(p, "none") /\ ~Spawned(p)
<1>1. PICK w \in Places : Stands(p, w) /\ CallFits(p, w)
  BY DEF RemoteInv, RequesterInv
<1>2. w = "none"
  BY <1>1 DEF CallFits
<1>3. ~Spawned(p)
  BY <1>1 DEF CallFits
<1> QED BY <1>1, <1>2, <1>3

LEMMA AskingStep ==
  ASSUME RemoteInv, NEW p \in Requesters, NEW l \in BOOLEAN,
         call[p][1] # "wait", got[p] = <<>>, cur[1] # 0,
         pend' = [pend EXCEPT ![cur[1]] = @ \cup {p}],
         call' = [call EXCEPT ![p] = <<"wait", cur[1], l>>],
         sent' = WrittenTo(1, cur[1], <<<<"spawn", p, l>>>>),
         UNCHANGED <<status, reason, links, mons, monby, mbox, origin, got, cur, last, hand>>
  PROVE  RemoteInv'
<1> DEFINE f == <<"spawn", p, l>>
<1>1. RemoteTypeOK /\ SidesFit
  BY DEF RemoteInv
<1>2. cur[1] = last /\ last \in SessionIds /\ p \in Ids /\ 0 \notin SessionIds
  BY <1>1, RequestersAreIds, Others DEF RemoteTypeOK, SidesFit, SessionIds
<1>3. /\ f \in AskOf(p) /\ f \in FramesOf(1)
      /\ \A r : r # p => f \notin AskOf(r)
  BY FrameKinds
<1> HIDE DEF f
<1>4. /\ <<f>> \in Seq(FramesOf(1)) /\ Once(<<f>>, AskOf(p), AskOf(p))
      /\ \A T : f \notin T => Lacks(<<f>>, T)
  BY <1>3, SinglesAre
<1>5. /\ DOMAIN sent' = Sides /\ \A m \in Sides : sent'[m] \in Seq(FramesOf(m))
      /\ sent'[2] = sent[2]
      /\ IF cur[1] = last /\ cur[2] = last THEN sent'[1] = sent[1] \o <<f>> ELSE sent'[1] = sent[1]
  <2>1. sent' = WrittenTo(1, last, <<f>>)
    BY <1>2 DEF f
  <2>2. /\ DOMAIN sent' = Sides /\ \A m \in Sides : sent'[m] \in Seq(FramesOf(m))
        /\ \A m \in Sides : m # 1 => sent'[m] = sent[m]
        /\ IF cur[1] = last /\ cur[OtherSide(1)] = last THEN sent'[1] = sent[1] \o <<f>> ELSE sent'[1] = sent[1]
    BY <1>1, <1>4, <2>1, WrittenShape, Others
  <2>3. sent'[2] = sent[2]
    BY <2>2, Others
  <2>4. IF cur[1] = last /\ cur[2] = last THEN sent'[1] = sent[1] \o <<f>> ELSE sent'[1] = sent[1]
    BY <2>2, Others
  <2> QED BY <2>2, <2>3, <2>4
<1>6. /\ call' \in [Requesters -> Calls] /\ call'[p] = <<"wait", last, l>>
      /\ \A r \in Requesters : r # p => call'[r] = call[r]
  <2>1. call \in [Requesters -> Calls] /\ <<"wait", last, l>> \in Calls
    BY <1>1, <1>2 DEF RemoteTypeOK, Calls
  <2> QED BY <1>2, <2>1
<1>7. /\ pend' \in [SessionIds -> SUBSET Requesters] /\ p \in pend'[last]
      /\ \A s \in SessionIds : pend[s] \subseteq pend'[s]
  <2>1. pend \in [SessionIds -> SUBSET Requesters]
    BY <1>1 DEF RemoteTypeOK
  <2> QED BY <1>2, <2>1
<1>8. RemoteTypeOK'
  BY <1>1, <1>5, <1>6, <1>7 DEF RemoteTypeOK
<1>9. SidesFit' /\ ReturnedIsSpawned' /\ SpawnedOnce'
  BY <1>1, SidesKept DEF RemoteInv
<1>10. ASSUME NEW r \in Requesters, r # p PROVE RequesterInv(r)'
  <2>1. SentGrows(1, AskOf(r))
    <3>1. CASE sent'[1] = sent[1]
      BY <1>1, <3>1, GrowsByNothing, Others
    <3>2. CASE sent'[1] = sent[1] \o <<f>>
      BY <1>3, <1>4, <1>10, <3>2 DEF SentGrows
    <3> QED BY <1>5, <3>1, <3>2
  <2>2. SentGrows(2, AnswerOf(r))
    BY <1>1, <1>5, GrowsByNothing, Others
  <2>3. MailGrows(r)
    BY <1>1, MailQuiet, RequestersAreIds
  <2>4. Undisturbed(r)
    BY <1>6, <1>7, <1>10, <2>1, <2>2, <2>3 DEF Undisturbed, HandKeeps
  <2> QED BY <2>4, OthersKept
<1>11. RequesterInv(p)'
  <2>1. Stands(p, "none") /\ CallFits(p, "none") /\ ~Spawned(p)
    BY NoCallOut
  <2>2. TrueAnswer(p)' = TrueAnswer(p) /\ TrueReturn(p)' = TrueReturn(p) /\ (Spawned(p)' <=> Spawned(p))
    BY TrueStays, RequestersAreIds
  <2>3. last \in Nat
    BY <1>2 DEF SessionIds
  <2>4. CASE cur[2] = last
    <3>1. sent'[1] = sent[1] \o <<f>> /\ sent[1] \in Seq(FramesOf(1)) /\ Lacks(sent[1], AskOf(p))
      BY <1>1, <1>2, <1>5, <2>1, <2>4, Others DEF RemoteTypeOK, Stands
    <3>2. Once(sent'[1], AskOf(p), AskOf(p))
      BY <1>4, <3>1, OnceAppended
    <3>3. Stands(p, "written")'
      BY <1>5, <2>1, <2>2, <3>2 DEF Stands, AskOf, AnswerOf, Returns
    <3>4. CallFits(p, "written")'
      BY <1>2, <1>6, <1>7, <2>1, <2>2, <2>3 DEF CallFits
    <3> QED BY <3>3, <3>4 DEF RequesterInv, Places
  <2>5. CASE cur[2] # last
    <3>1. sent'[1] = sent[1]
      BY <1>5, <2>5
    <3>2. Stands(p, "none")'
      BY <1>5, <2>1, <2>2, <3>1 DEF Stands, AskOf, AnswerOf, Returns
    <3>3. CallFits(p, "none")'
      BY <1>2, <1>6, <1>7, <2>1, <2>2, <2>3, <2>5 DEF CallFits
    <3> QED BY <3>2, <3>3 DEF RequesterInv, Places
  <2> QED BY <2>4, <2>5
<1> QED BY <1>8, <1>9, <1>10, <1>11 DEF RemoteInv

\* The call is given up, or waits for another session: nothing is written.
LEMMA NotAskingStep ==
  ASSUME RemoteInv, NEW p \in Requesters, NEW c \in Calls,
         call[p][1] # "wait", got[p] = <<>>, c[1] # "wait", c[1] # "idle" => c[2] <= last,
         call' = [call EXCEPT ![p] = c],
         UNCHANGED <<status, reason, links, mons, monby, mbox, origin, pend, got, cur, last, sent, hand>>
  PROVE  RemoteInv'
<1>1. RemoteTypeOK
  BY DEF RemoteInv
<1>2. /\ call' \in [Requesters -> Calls] /\ call'[p] = c
      /\ \A r \in Requesters : r # p => call'[r] = call[r]
  BY <1>1 DEF RemoteTypeOK
<1>3. RemoteTypeOK'
  BY <1>1, <1>2 DEF RemoteTypeOK
<1>4. SidesFit' /\ ReturnedIsSpawned' /\ SpawnedOnce'
  BY SidesKept DEF RemoteInv
<1>5. ASSUME NEW r \in Requesters, r # p PROVE RequesterInv(r)'
  <2>1. SentGrows(1, AskOf(r)) /\ SentGrows(2, AnswerOf(r))
    BY <1>1, GrowsByNothing, Others
  <2>2. MailGrows(r)
    BY <1>1, MailQuiet, RequestersAreIds
  <2>3. Undisturbed(r)
    BY <1>2, <1>5, <2>1, <2>2 DEF Undisturbed, HandKeeps
  <2> QED BY <2>3, OthersKept
<1>6. RequesterInv(p)'
  <2>1. Stands(p, "none") /\ CallFits(p, "none") /\ ~Spawned(p)
    BY NoCallOut
  <2>2. TrueAnswer(p)' = TrueAnswer(p) /\ TrueReturn(p)' = TrueReturn(p) /\ (Spawned(p)' <=> Spawned(p))
    BY TrueStays, RequestersAreIds
  <2>3. Stands(p, "none")'
    BY <2>1, <2>2 DEF Stands, AskOf, AnswerOf, Returns
  <2>4. CallFits(p, "none")'
    BY <1>2, <2>1, <2>2 DEF CallFits
  <2> QED BY <2>3, <2>4 DEF RequesterInv, Places
<1> QED BY <1>3, <1>4, <1>5, <1>6 DEF RemoteInv

LEMMA SpawnRequestStep ==
  ASSUME RemoteInv, NEW p \in Requesters, NEW l \in BOOLEAN, SpawnRequest(p, l)
  PROVE  RemoteInv'
<1>1. call[p] = <<"idle">> /\ got[p] = <<>> /\ cur[1] # 0
  BY DEF SpawnRequest
<1>2. call[p][1] # "wait"
  BY <1>1
<1>3. /\ pend' = [pend EXCEPT ![cur[1]] = @ \cup {p}]
      /\ call' = [call EXCEPT ![p] = <<"wait", cur[1], l>>]
      /\ sent' = WrittenTo(1, cur[1], <<<<"spawn", p, l>>>>)
      /\ UNCHANGED <<status, reason, links, mons, monby, mbox, origin, got, cur, last, hand>>
  BY DEF SpawnRequest
<1> QED BY <1>1, <1>2, <1>3, AskingStep

LEMMA SpawnWriteFailsStep ==
  ASSUME RemoteInv, NEW p \in Requesters, NEW l \in BOOLEAN, SpawnWriteFails(p, l)
  PROVE  RemoteInv'
<1>1. call[p] = <<"idle">> /\ got[p] = <<>> /\ cur[1] # 0
  BY DEF SpawnWriteFails
<1>2. call[p][1] # "wait"
  BY <1>1
<1>3. cur[1] = last /\ last \in SessionIds /\ last \in Nat
  BY <1>1, Others DEF RemoteInv, RemoteTypeOK, SidesFit, SessionIds
<1>4. <<"retry", cur[1], l>> \in Calls
  BY <1>3 DEF Calls
<1>5. <<"retry", cur[1], l>>[1] # "wait" /\ <<"retry", cur[1], l>>[2] <= last
  BY <1>3
<1>6. /\ call' = [call EXCEPT ![p] = <<"retry", cur[1], l>>]
      /\ UNCHANGED <<status, reason, links, mons, monby, mbox, origin, pend, got, cur, last, sent, hand>>
  BY DEF SpawnWriteFails
<1> QED BY <1>1, <1>2, <1>4, <1>5, <1>6, NotAskingStep

LEMMA SpawnRetriesStep ==
  ASSUME RemoteInv, NEW p \in Requesters, SpawnRetries(p)
  PROVE  RemoteInv'
<1>1. call[p][1] = "retry"
  BY DEF SpawnRetries
<1>2. call[p] \in Calls
  BY DEF RemoteInv, RemoteTypeOK
<1>3. call[p][3] \in BOOLEAN
  BY <1>1, <1>2 DEF Calls
<1>4. got[p] = <<>> /\ call[p][1] # "wait"
  <2>1. PICK w \in Places : CallFits(p, w)
    BY DEF RemoteInv, RequesterInv
  <2> QED BY <1>1, <2>1 DEF CallFits
<1>5. CASE cur[1] = 0
  <2>1. <<"idle">> \in Calls /\ <<"idle">>[1] = "idle"
    BY DEF Calls
  <2>2. /\ call' = [call EXCEPT ![p] = <<"idle">>]
        /\ UNCHANGED <<status, reason, links, mons, monby, mbox, origin, pend, got, cur, last, sent, hand>>
    BY <1>5 DEF SpawnRetries
  <2>3. <<"idle">>[1] # "wait" /\ (<<"idle">>[1] # "idle" => <<"idle">>[2] <= last)
    BY <2>1
  <2> QED BY <1>4, <2>1, <2>2, <2>3, NotAskingStep
<1>6. CASE cur[1] # 0
  <2> DEFINE l == call[p][3]
  <2>1. /\ pend' = [pend EXCEPT ![cur[1]] = @ \cup {p}]
        /\ call' = [call EXCEPT ![p] = <<"wait", cur[1], l>>]
        /\ sent' = WrittenTo(1, cur[1], <<<<"spawn", p, l>>>>)
        /\ UNCHANGED <<status, reason, links, mons, monby, mbox, origin, got, cur, last, hand>>
    BY <1>6 DEF SpawnRetries
  <2> HIDE DEF l
  <2>2. l \in BOOLEAN
    BY <1>3 DEF l
  <2> QED BY <1>4, <1>6, <2>1, <2>2, AskingStep
<1> QED BY <1>5, <1>6

LEMMA SpawnReturnsStep ==
  ASSUME RemoteInv, NEW p \in Requesters, SpawnReturns(p)
  PROVE  RemoteInv'
<1> DEFINE box == mbox[1][p]
           pidOf(m) == <<call[p][2], m[3]>>
<1>1. RemoteTypeOK /\ SidesFit
  BY DEF RemoteInv
<1>2. PICK i \in 1..Len(box) :
        /\ box[i][1] = "reply"
        /\ mbox' = [mbox EXCEPT ![1][p] = SubSeq(box, 1, i - 1) \o SubSeq(box, i + 1, Len(box))]
        /\ call' = [call EXCEPT ![p] = <<"idle">>]
        /\ got' = [got EXCEPT ![p] = IF box[i][2] THEN pidOf(box[i]) ELSE got[p]]
        /\ links' = IF box[i][2] /\ call[p][3] THEN [links EXCEPT ![1][p] = links[1][p] \cup {pidOf(box[i])}] ELSE links
  BY DEF SpawnReturns
<1>3. /\ call[p][1] = "wait"
      /\ UNCHANGED <<status, reason, mons, monby, origin, pend, cur, last, sent, hand>>
  BY DEF SpawnReturns
<1>4. p \in Ids /\ mbox \in [Sides -> [Ids -> Seq(Returns \cup Notices)]] /\ box \in Seq(Returns \cup Notices)
  BY <1>1, RequestersAreIds, Others DEF RemoteTypeOK
<1> DEFINE m == box[i]
           c == SubSeq(box, 1, i - 1) \o SubSeq(box, i + 1, Len(box))
<1>5. m \in Returns /\ m[2] \in BOOLEAN /\ m[3] \in {0} \cup Ids
  <2>1. m \in Returns \cup Notices
    BY <1>4, ElementOfSeq
  <2> QED BY <1>2, <2>1, NoticeIsNoReturn
<1>6. PICK w \in Places : Stands(p, w) /\ CallFits(p, w)
  BY DEF RemoteInv, RequesterInv
<1>7. w = "told" /\ Once(box, Returns, TrueReturn(p))
  BY <1>2, <1>5, <1>6 DEF Stands, Lacks
<1>8. got[p] = <<>> /\ call[p][2] \in SessionIds /\ call[p][2] <= last
  <2>1. call[p] \in Calls
    BY <1>1 DEF RemoteTypeOK
  <2> QED BY <1>3, <1>6, <2>1 DEF CallFits, Calls
<1>9. m \in TrueReturn(p) /\ \A j \in 1..Len(box) : box[j] \in Returns => j = i
  BY <1>2, <1>5, <1>7 DEF Once
<1>10. c \in Seq(Returns \cup Notices) /\ \A k \in 1..Len(c) : \E j \in 1..Len(box) : j # i /\ c[k] = box[j]
  <2> HIDE DEF box
  <2> QED BY <1>4, CutOut
<1> HIDE DEF c
<1>11. Lacks(c, Returns)
  BY <1>9, <1>10 DEF Lacks
<1>12. mbox' = [mbox EXCEPT ![1][p] = c]
  BY <1>2 DEF c
<1>13. /\ mbox' \in [Sides -> [Ids -> Seq(Returns \cup Notices)]]
       /\ mbox'[1][p] = c /\ \A q \in Ids : q # p => mbox'[1][q] = mbox[1][q]
  BY <1>4, <1>10, <1>12, SetAt, Others
<1>14. Tells(p, m[2], m[3])
  BY <1>9 DEF TrueReturn
<1>15. /\ m[2] => got'[p] = <<call[p][2], m[3]>> /\ m[3] \in Ids /\ origin[2][m[3]] = p
       /\ ~m[2] => got'[p] = <<>> /\ ~Spawned(p)
       /\ \A r \in Requesters : r # p => got'[r] = got[r]
       /\ got' \in [Requesters -> {<<>>} \cup (SessionIds \X Ids)]
  <2>1. got \in [Requesters -> {<<>>} \cup (SessionIds \X Ids)]
    BY <1>1 DEF RemoteTypeOK
  <2>2. /\ m[2] => m[3] \in Ids /\ origin[2][m[3]] = p
        /\ ~m[2] => ~Spawned(p)
    BY <1>5, <1>14 DEF Tells
  <2> HIDE DEF m
  <2>3. got' = [got EXCEPT ![p] = IF m[2] THEN <<call[p][2], m[3]>> ELSE got[p]]
    BY <1>2 DEF m
  <2>4. (IF m[2] THEN <<call[p][2], m[3]>> ELSE got[p]) \in {<<>>} \cup (SessionIds \X Ids)
    BY <1>8, <2>2
  <2> QED BY <1>8, <2>1, <2>2, <2>3, <2>4
<1>16. /\ call' \in [Requesters -> Calls] /\ call'[p] = <<"idle">>
       /\ \A r \in Requesters : r # p => call'[r] = call[r]
  BY <1>1, <1>2 DEF RemoteTypeOK, Calls
<1>17. links' \in [Sides -> [Ids -> SUBSET UsedPids]]
  <2>1. links \in [Sides -> [Ids -> SUBSET UsedPids]]
    BY <1>1 DEF RemoteTypeOK
  <2>2. CASE links' = links
    BY <2>1, <2>2
  <2>3. CASE m[2] /\ links' = [links EXCEPT ![1][p] = links[1][p] \cup {pidOf(m)}]
    <3>1. <<call[p][2], m[3]>> \in UsedPids
      BY <1>8, <1>15, <2>3, PidKinds
    <3>2. links[1][p] \cup {pidOf(m)} \in SUBSET UsedPids
      BY <1>4, <2>1, <3>1, Others
    <3> QED BY <1>4, <2>1, <2>3, <3>2, SetAt, Others
  <2> QED BY <1>2, <2>2, <2>3
<1> HIDE DEF m, box
<1>18. RemoteTypeOK'
  BY <1>1, <1>3, <1>13, <1>15, <1>16, <1>17 DEF RemoteTypeOK
<1>19. SidesFit' /\ SpawnedOnce'
  BY <1>1, <1>3 DEF RemoteInv, SidesFit, SpawnedOnce
<1>20. ReturnedIsSpawned'
  <2>1. ASSUME NEW r \in Requesters, got'[r] # <<>>
        PROVE  status'[2][got'[r][2]] # "free" /\ origin'[2][got'[r][2]] = r
    <3>1. CASE r = p
      <4>1. got'[r][2] = m[3] /\ m[3] \in Ids /\ origin[2][m[3]] = p
        BY <1>15, <2>1, <3>1
      <4>2. status[2][m[3]] # "free"
        BY <1>1, <4>1, RequestersAreIds DEF SidesFit
      <4> QED BY <1>3, <3>1, <4>1, <4>2
    <3>2. CASE r # p
      BY <1>3, <1>15, <2>1, <3>2 DEF RemoteInv, ReturnedIsSpawned
    <3> QED BY <3>1, <3>2
  <2> QED BY <2>1 DEF ReturnedIsSpawned
<1>21. ASSUME NEW r \in Requesters, r # p PROVE RequesterInv(r)'
  <2>1. SentGrows(1, AskOf(r)) /\ SentGrows(2, AnswerOf(r))
    BY <1>1, <1>3, GrowsByNothing, Others
  <2>2. r \in Ids /\ mbox'[1][r] = mbox[1][r]
    BY <1>13, <1>21, RequestersAreIds
  <2>3. MailGrows(r)
    BY <1>1, <2>2, MailQuiet
  <2>4. Undisturbed(r)
    BY <1>3, <1>15, <1>16, <1>21, <2>1, <2>3 DEF Undisturbed, HandKeeps
  <2> QED BY <2>4, OthersKept
<1>22. RequesterInv(p)'
  <2>1. TrueAnswer(p)' = TrueAnswer(p) /\ TrueReturn(p)' = TrueReturn(p) /\ (Spawned(p)' <=> Spawned(p))
    BY <1>3, TrueStays, RequestersAreIds
  <2>2. Stands(p, "none")'
    BY <1>3, <1>6, <1>7, <1>11, <1>13, <2>1 DEF Stands, AskOf, AnswerOf, Returns
  <2>3. CallFits(p, "none")'
    <3>1. got'[p] = <<>> => ~Spawned(p)
      BY <1>15
    <3>2. call'[p][1] = "idle"
      BY <1>16
    <3> QED BY <2>1, <3>1, <3>2 DEF CallFits
  <2> QED BY <2>2, <2>3 DEF RequesterInv, Places
<1> QED BY <1>18, <1>19, <1>20, <1>21, <1>22 DEF RemoteInv
-----------------------------------------------------------------------------
(* The reader of node 2 starts the process and answers.                    *)
LEMMA LeastNatural ==
  ASSUME NEW S \in SUBSET Nat, S # {}
  PROVE  \E n \in S : \A m \in S : n <= m
<1>1. IsWellFoundedOn(OpToRel(<, Nat), Nat)
  BY NatLessThanWellFounded
<1>2. PICK n \in S : \A m \in S : <<m, n>> \notin OpToRel(<, Nat)
  BY <1>1, WFMin
<1>3. \A m \in S : ~(m < n)
  BY <1>2 DEF OpToRel
<1> QED BY <1>3

\* While fewer processes than MaxSpawned were started from afar there is a
\* free id, so that the least one exists.
LEMMA FreeId ==
  ASSUME RemoteTypeOK, SidesFit, Cardinality({q \in Ids : origin[2][q] # 0}) < MaxSpawned
  PROVE  \E q \in Ids : status[2][q] = "free" /\ \A r \in 1..(q - 1) : status[2][r] # "free"
<1> DEFINE Used == {q \in Ids : origin[2][q] # 0}
           New == (Locals[2] + 1)..(Locals[2] + MaxSpawned)
           Free == {q \in Ids : status[2][q] = "free"}
<1>1. PICK N \in Nat : Ids = 1..N /\ Locals[2] + MaxSpawned <= N /\ Locals[2] \in Nat /\ MaxSpawned \in Nat
  BY IdsRange
<1>2. IsFiniteSet(Ids) /\ IsFiniteSet(Used)
  BY <1>1, FS_Interval, FS_Subset
<1>3. Cardinality(New) = MaxSpawned /\ New \subseteq Ids
  <2>1. Locals[2] + 1 \in Int /\ Locals[2] + MaxSpawned \in Int
    BY <1>1
  <2>2. Cardinality(New) = IF Locals[2] + 1 > Locals[2] + MaxSpawned THEN 0
                           ELSE ((Locals[2] + MaxSpawned) - (Locals[2] + 1)) + 1
    BY <2>1, FS_Interval
  <2> QED BY <1>1, <2>2
<1>4. Cardinality(Used) \in Nat
  BY <1>2, FS_CardinalityType
<1>5. ~(New \subseteq Used)
  <2>1. SUFFICES ASSUME New \subseteq Used PROVE FALSE
    OBVIOUS
  <2>2. Cardinality(New) <= Cardinality(Used)
    BY <1>2, <2>1, FS_Subset
  <2> QED BY <1>1, <1>3, <1>4, <2>2
<1>6. PICK q \in New : q \notin Used
  BY <1>5
<1>7. q \in Free
  BY <1>1, <1>3, <1>6 DEF SidesFit
<1>8. Free \in SUBSET Nat /\ Free # {}
  BY <1>1, <1>7
<1> HIDE DEF Free
<1>9. PICK k \in Free : \A m \in Free : k <= m
  BY <1>8, LeastNatural
<1>10. k \in Ids /\ status[2][k] = "free"
  BY DEF Free
<1>11. ASSUME NEW r \in 1..(k - 1) PROVE status[2][r] # "free"
  <2>1. r \in Ids /\ ~(k <= r)
    BY <1>1, <1>10
  <2> QED BY <1>9, <2>1 DEF Free
<1> QED BY <1>10, <1>11

LEMMA WrittenBack ==
  ASSUME RemoteTypeOK, NEW s, NEW F \in Seq(FramesOf(2)), sent' = WrittenTo(2, s, F)
  PROVE  /\ DOMAIN sent' = Sides /\ (\A m \in Sides : sent'[m] \in Seq(FramesOf(m)))
         /\ \A m \in Sides : m # 2 => sent'[m] = sent[m]
         /\ IF cur[2] = s /\ cur[OtherSide(2)] = s THEN sent'[2] = sent[2] \o F ELSE sent'[2] = sent[2]
BY WrittenShape, Others

\* What was asked, by the frame in hand.
LEMMA AskInHand ==
  ASSUME RemoteInv, NEW n \in Sides, hand[n] # <<>>, hand[n][2][1] = "spawn"
  PROVE  /\ n = 2 /\ hand[2][1] \in SessionIds /\ hand[2][2][2] \in Requesters
         /\ hand[2][2] \in AskOf(hand[2][2][2])
         /\ \A r : r # hand[2][2][2] => hand[2][2] \notin AskOf(r)
         /\ \A r : hand[2][2] \notin AnswerOf(r)
         /\ Stands(hand[2][2][2], "taken") /\ CallFits(hand[2][2][2], "taken")
<1>1. hand[n] \in SessionIds \X FramesOf(OtherSide(n)) /\ OtherSide(n) \in Sides
  BY Others DEF RemoteInv, RemoteTypeOK
<1>2. hand[n][2] \in FramesOf(OtherSide(n)) /\ hand[n][1] \in SessionIds
  BY <1>1
<1>3. /\ OtherSide(n) = 1 /\ hand[n][2][2] \in Requesters /\ hand[n][2][3] \in BOOLEAN
      /\ hand[n][2] = <<"spawn", hand[n][2][2], hand[n][2][3]>>
  BY <1>1, <1>2, FrameFields
<1>4. n = 2
  BY <1>3, Others
<1> DEFINE f == hand[2][2]
           p == f[2]
<1>5. p \in Requesters /\ f = <<"spawn", p, f[3]>> /\ f[3] \in BOOLEAN /\ f[1] = "spawn"
  BY <1>3, <1>4
<1>6. f \in AskOf(p) /\ \A r : r # p => f \notin AskOf(r)
  <2> HIDE DEF f
  <2>1. f[3] \in BOOLEAN /\ p \in Requesters
    BY <1>5
  <2>2. <<"spawn", p, f[3]>> \in AskOf(p) /\ \A r : r # p => <<"spawn", p, f[3]>> \notin AskOf(r)
    BY <2>1, FrameKinds
  <2> QED BY <1>5, <2>2
<1>7. \A r : f \notin AnswerOf(r)
  <2>1. \A r : \A g \in AnswerOf(r) : g[1] = "reply"
    BY DEF AnswerOf
  <2> QED BY <1>5, <2>1
<1>8. PICK w \in Places : Stands(p, w) /\ CallFits(p, w)
  BY <1>5 DEF RemoteInv, RequesterInv
<1>9. w = "taken"
  BY <1>4, <1>6, <1>8 DEF Stands
<1> QED BY <1>2, <1>4, <1>5, <1>6, <1>7, <1>8, <1>9

\* The answer, over the session of the call or lost with it. Two facts of
\* the new state are left to the two cases of the action: what the answer
\* tells is true, and no other requester is touched.
Answering(p, s, L, ok, v) ==
    /\ hand[2] # <<>> /\ hand[2][2][1] = "spawn" /\ hand' = [hand EXCEPT ![2] = <<>>]
    /\ p = hand[2][2][2] /\ s = hand[2][1]
    /\ sent' = WrittenTo(2, s, L \o <<<<"reply", p, ok, v>>>>)
    /\ status' \in [Sides -> [Ids -> {"free", "run", "doomed", "done"}]]
    /\ links' \in [Sides -> [Ids -> SUBSET UsedPids]]
    /\ origin' \in [Sides -> [Ids -> {0} \cup Requesters]]
    /\ IF ok THEN v \in Ids /\ origin'[2][v] = p ELSE \A q \in Ids : origin'[2][q] # p
    /\ \A r \in Requesters, q \in Ids : r # p => (origin'[2][q] = r <=> origin[2][q] = r)
    /\ UNCHANGED <<reason, mons, monby, mbox, call, pend, got, cur, last>>

LEMMA AnsweringStep ==
  ASSUME RemoteInv, SidesFit', ReturnedIsSpawned', SpawnedOnce',
         NEW p, NEW s, NEW L \in Seq(Signals), NEW ok \in BOOLEAN, NEW v \in {0} \cup Ids,
         Answering(p, s, L, ok, v)
  PROVE  RemoteInv'
<1>0. /\ hand[2] # <<>> /\ hand[2][2][1] = "spawn" /\ hand' = [hand EXCEPT ![2] = <<>>]
      /\ p = hand[2][2][2] /\ s = hand[2][1]
      /\ status' \in [Sides -> [Ids -> {"free", "run", "doomed", "done"}]]
      /\ links' \in [Sides -> [Ids -> SUBSET UsedPids]]
      /\ origin' \in [Sides -> [Ids -> {0} \cup Requesters]]
      /\ IF ok THEN v \in Ids /\ origin'[2][v] = p ELSE \A q \in Ids : origin'[2][q] # p
      /\ \A r \in Requesters, q \in Ids : r # p => (origin'[2][q] = r <=> origin[2][q] = r)
      /\ UNCHANGED <<reason, mons, monby, mbox, call, pend, got, cur, last>>
  BY DEF Answering
<1> DEFINE g == <<"reply", p, ok, v>>
           F == L \o <<g>>
<1>1. RemoteTypeOK /\ SidesFit
  BY DEF RemoteInv
<1>2. /\ s \in SessionIds /\ p \in Requesters /\ hand[2][2] \in AskOf(p)
      /\ \A r : r # p => hand[2][2] \notin AskOf(r)
      /\ \A r : hand[2][2] \notin AnswerOf(r)
      /\ Stands(p, "taken") /\ CallFits(p, "taken")
  BY <1>0, AskInHand, Others
<1>3. g \in AnswerOf(p) /\ g \in FramesOf(2) /\ \A r : r # p => g \notin AnswerOf(r)
  BY <1>2, FrameKinds
<1>4. g[3] = ok /\ g[4] = v
  OBVIOUS
<1> HIDE DEF g
<1>5. g \in TrueAnswer(p)'
  <2>1. g \in AnswerOf(p)' /\ Tells(p, g[3], g[4])'
    BY <1>0, <1>3, <1>4 DEF AnswerOf, Tells, Spawned
  <2> QED BY <2>1 DEF TrueAnswer
<1>6. /\ L \in Seq(FramesOf(2)) /\ <<g>> \in Seq(FramesOf(2)) /\ F \in Seq(FramesOf(2))
  BY <1>3, SignalsLack, SinglesAre, ConcatProperties, Others
<1>7. \A r \in Requesters : r # p => Lacks(F, AnswerOf(r))
  <2>1. TAKE r \in Requesters
  <2>2. SUFFICES ASSUME r # p PROVE Lacks(F, AnswerOf(r))
    OBVIOUS
  <2>3. Lacks(L, AnswerOf(r)) /\ Lacks(<<g>>, AnswerOf(r))
    BY <1>3, <2>2, SignalsLack, SinglesAre
  <2> QED BY <1>6, <2>3, LacksAppended
<1>8. Once(F, AnswerOf(p), TrueAnswer(p)')
  <2>1. Lacks(L, AnswerOf(p)) /\ Once(<<g>>, AnswerOf(p), TrueAnswer(p)')
    BY <1>3, <1>5, SignalsLack, SinglesAre
  <2> QED BY <1>6, <2>1, OnceAppended
<1>9. sent' = WrittenTo(2, s, F)
  BY DEF g, F, Answering
<1> HIDE DEF F
<1>10. /\ DOMAIN sent' = Sides /\ (\A m \in Sides : sent'[m] \in Seq(FramesOf(m)))
       /\ sent'[1] = sent[1]
       /\ IF cur[2] = s /\ cur[1] = s THEN sent'[2] = sent[2] \o F ELSE sent'[2] = sent[2]
  <2>1. /\ DOMAIN sent' = Sides /\ (\A m \in Sides : sent'[m] \in Seq(FramesOf(m)))
        /\ \A m \in Sides : m # 2 => sent'[m] = sent[m]
        /\ IF cur[2] = s /\ cur[OtherSide(2)] = s THEN sent'[2] = sent[2] \o F ELSE sent'[2] = sent[2]
    BY <1>1, <1>6, <1>9, WrittenBack
  <2>2. sent'[1] = sent[1]
    BY <2>1, Others
  <2>3. IF cur[2] = s /\ cur[1] = s THEN sent'[2] = sent[2] \o F ELSE sent'[2] = sent[2]
    BY <2>1, Others
  <2> QED BY <2>1, <2>2, <2>3
<1>11. hand'[2] = <<>> /\ hand'[1] = hand[1] /\ DOMAIN hand' = Sides
       /\ \A m \in Sides : hand'[m] \in {<<>>} \cup (SessionIds \X FramesOf(OtherSide(m)))
  BY <1>0, <1>1, Others DEF RemoteTypeOK
<1>12. RemoteTypeOK'
  BY <1>0, <1>1, <1>10, <1>11 DEF RemoteTypeOK
<1>13. ASSUME NEW r \in Requesters, r # p PROVE RequesterInv(r)'
  <2>1. SentGrows(1, AskOf(r))
    BY <1>0, <1>1, <1>10, GrowsByNothing, Others
  <2>2. SentGrows(2, AnswerOf(r))
    <3>1. CASE sent'[2] = sent[2]
      BY <1>0, <1>1, <3>1, GrowsByNothing, Others
    <3>2. CASE sent'[2] = sent[2] \o F
      BY <1>0, <1>6, <1>7, <1>13, <3>2 DEF SentGrows
    <3> QED BY <1>0, <1>10, <3>1, <3>2
  <2>3. MailGrows(r)
    BY <1>0, <1>1, MailQuiet, RequestersAreIds
  <2>4. \A m \in Sides : HandKeeps(m, r)
    BY <1>0, <1>2, <1>11, <1>13, Others DEF HandKeeps
  <2>5. \A q \in Ids : origin'[2][q] = r <=> origin[2][q] = r
    BY <1>0, <1>13
  <2>6. Undisturbed(r)
    BY <1>0, <2>1, <2>2, <2>3, <2>4, <2>5 DEF Undisturbed
  <2> QED BY <1>0, <2>6, OthersKept
<1>14. RequesterInv(p)'
  <2>1. call[p][1] = "wait" /\ call[p][2] = s /\ s \in Nat /\ got[p] = <<>> /\ call[p][2] <= last /\ p \in pend[s]
    BY <1>0, <1>2 DEF CallFits, SessionIds
  <2>2. /\ Lacks(sent'[1], AskOf(p)) /\ Lacks(sent[2], AnswerOf(p)) /\ Lacks(mbox'[1][p], Returns)
        /\ hand'[1] # <<>> => hand'[1][2] \notin AnswerOf(p)
    BY <1>0, <1>2, <1>10, <1>11 DEF Stands
  <2>3. CASE cur[2] = s /\ cur[1] = s
    <3>1. sent'[2] = sent[2] \o F /\ sent[2] \in Seq(FramesOf(2))
      BY <1>0, <1>1, <1>10, <2>3, Others DEF RemoteTypeOK
    <3>2. Once(sent'[2], AnswerOf(p), TrueAnswer(p)')
      <4>1. F \in Seq(FramesOf(2)) /\ Lacks(sent[2], AnswerOf(p))
        BY <1>0, <1>6, <2>2
      <4>2. Once(sent[2] \o F, AnswerOf(p), TrueAnswer(p)')
        BY <1>0, <1>8, <3>1, <4>1, OnceAppended
      <4> QED BY <1>0, <3>1, <4>2
    <3>3. s = last
      <4>1. s # 0
        BY <1>0, <1>2 DEF SessionIds
      <4> QED BY <1>0, <1>1, <2>3, <4>1, Others DEF SidesFit
    <3>4. Stands(p, "answered")'
      BY <1>0, <1>11, <2>2, <3>2 DEF Stands, AskOf, AnswerOf, Returns
    <3>5. CallFits(p, "answered")'
      BY <1>0, <2>1, <3>3 DEF CallFits
    <3> QED BY <1>0, <3>4, <3>5 DEF RequesterInv, Places
  <2>4. CASE ~(cur[2] = s /\ cur[1] = s)
    <3>1. sent'[2] = sent[2]
      BY <1>0, <1>10, <2>4
    <3>2. Stands(p, "none")'
      BY <1>0, <1>11, <2>2, <3>1 DEF Stands, AskOf, AnswerOf, Returns
    <3>3. CallFits(p, "none")'
      BY <1>0, <2>1, <2>4 DEF CallFits
    <3> QED BY <1>0, <3>2, <3>3 DEF RequesterInv, Places
  <2> QED BY <1>0, <2>3, <2>4
<1> QED BY <1>0, <1>12, <1>13, <1>14 DEF RemoteInv

LEMMA HandleSpawnStep ==
  ASSUME RemoteInv, NEW n \in Sides, HandleSpawn(n)
  PROVE  RemoteInv'
<1>0. PICK s, p, linked, new :
        /\ s = hand[2][1] /\ p = hand[2][2][2] /\ linked = hand[2][2][3]
        /\ new = CHOOSE q \in Ids : status[2][q] = "free" /\ \A r \in 1..(q - 1) : status[2][r] # "free"
  OBVIOUS
<1> DEFINE L == IF linked THEN <<<<"link", <<0, new>>, <<0, p>>>>>> ELSE <<>>
<1>1. RemoteTypeOK /\ SidesFit
  BY DEF RemoteInv
<1>2. hand[n] # <<>> /\ hand[n][2][1] = "spawn"
  BY DEF HandleSpawn
<1>3. /\ n = 2 /\ s \in SessionIds /\ p \in Requesters
      /\ Stands(p, "taken") /\ CallFits(p, "taken")
  BY <1>0, <1>2, AskInHand
<1>4. /\ hand[2] # <<>> /\ hand[2][2][1] = "spawn" /\ hand' = [hand EXCEPT ![2] = <<>>]
      /\ UNCHANGED <<reason, mons, monby, mbox, call, pend, got, cur, last>>
  BY <1>2, <1>3 DEF HandleSpawn
<1>5. ~Spawned(p) /\ p \in Ids /\ p # 0
  BY <1>3, RequestersAreIds DEF CallFits
<1>6. /\ status \in [Sides -> [Ids -> {"free", "run", "doomed", "done"}]]
      /\ links \in [Sides -> [Ids -> SUBSET UsedPids]]
      /\ origin \in [Sides -> [Ids -> {0} \cup Requesters]]
  BY <1>1 DEF RemoteTypeOK
<1>7. CASE /\ Cardinality({q \in Ids : origin[2][q] # 0}) < MaxSpawned
           /\ status' = [status EXCEPT ![2][new] = "run"]
           /\ origin' = [origin EXCEPT ![2][new] = p]
           /\ links' = IF linked THEN [links EXCEPT ![2][new] = {<<s, p>>}] ELSE links
           /\ sent' = WrittenTo(2, s, L \o <<<<"reply", p, TRUE, new>>>>)
  <2>1. new \in Ids /\ status[2][new] = "free"
    BY <1>0, <1>1, <1>7, FreeId
  <2>2. <<"link", <<0, new>>, <<0, p>>>> \in Signals
    BY <1>5, <2>1, PidKinds DEF Signals
  <2>3. L \in Seq(Signals)
    BY <2>2, SinglesAre
  <2> HIDE DEF L
  <2>4. /\ status' \in [Sides -> [Ids -> {"free", "run", "doomed", "done"}]]
        /\ status'[2][new] = "run"
        /\ \A m \in Sides, q \in Ids : m # 2 \/ q # new => status'[m][q] = status[m][q]
    BY <1>6, <1>7, <2>1, SetAt, Others
  <2>5. /\ origin' \in [Sides -> [Ids -> {0} \cup Requesters]]
        /\ origin'[2][new] = p
        /\ \A m \in Sides, q \in Ids : m # 2 \/ q # new => origin'[m][q] = origin[m][q]
    BY <1>3, <1>6, <1>7, <2>1, SetAt, Others
  <2>6. links' \in [Sides -> [Ids -> SUBSET UsedPids]]
    <3>1. {<<s, p>>} \in SUBSET UsedPids
      BY <1>3, <1>5, PidKinds
    <3>2. [links EXCEPT ![2][new] = {<<s, p>>}] \in [Sides -> [Ids -> SUBSET UsedPids]]
      BY <1>6, <2>1, <3>1, SetAt, Others
    <3> QED BY <1>6, <1>7, <3>2
  <2>7. origin[2][new] = 0
    BY <1>1, <2>1 DEF SidesFit
  <2>8. SidesFit'
    <3>1. \A m \in Sides : cur'[m] \in {0, last'}
      BY <1>1, <1>4 DEF SidesFit
    <3>2. ASSUME NEW q \in Ids PROVE status'[2][q] = "free" <=> origin'[2][q] = 0 /\ q > Locals[2]
      BY <1>1, <1>5, <2>4, <2>5, Others DEF SidesFit
    <3> QED BY <3>1, <3>2 DEF SidesFit
  <2>9. ReturnedIsSpawned'
    <3>1. ASSUME NEW r \in Requesters, got'[r] # <<>>
          PROVE  status'[2][got'[r][2]] # "free" /\ origin'[2][got'[r][2]] = r
      <4>1. got[r] # <<>> /\ got'[r] = got[r]
        BY <1>4, <3>1
      <4>2. got[r][2] \in Ids /\ status[2][got[r][2]] # "free" /\ origin[2][got[r][2]] = r
        BY <1>1, <4>1 DEF RemoteInv, RemoteTypeOK, ReturnedIsSpawned
      <4>3. got[r][2] # new
        BY <2>1, <4>2
      <4> QED BY <2>4, <2>5, <4>1, <4>2, <4>3, Others
    <3> QED BY <3>1 DEF ReturnedIsSpawned
  <2>10. SpawnedOnce'
    <3>1. ASSUME NEW r \in Requesters, NEW q \in Ids, NEW t \in Ids, origin'[2][q] = r, origin'[2][t] = r
          PROVE  q = t
      <4>1. \A k \in Ids : origin[2][k] # p
        BY <1>5 DEF Spawned
      <4>2. CASE r = p
        <5>1. q = new /\ t = new
          BY <2>5, <3>1, <4>1, <4>2, Others
        <5> QED BY <5>1
      <4>3. CASE r # p
        <5>1. origin[2][q] = r /\ origin[2][t] = r
          BY <2>5, <3>1, <4>3, Others
        <5> QED BY <5>1 DEF RemoteInv, SpawnedOnce
      <4> QED BY <4>2, <4>3
    <3> QED BY <3>1 DEF SpawnedOnce
  <2>11. IF TRUE THEN new \in Ids /\ origin'[2][new] = p ELSE \A q \in Ids : origin'[2][q] # p
    BY <2>1, <2>5
  <2>12. \A r \in Requesters, q \in Ids : r # p => (origin'[2][q] = r <=> origin[2][q] = r)
    BY <2>5, <2>7, RequestersAreIds, Others
  <2>13. new \in {0} \cup Ids /\ TRUE \in BOOLEAN
    BY <2>1
  <2>14. sent' = WrittenTo(2, s, L \o <<<<"reply", p, TRUE, new>>>>)
    BY <1>7
  <2>15. p = hand[2][2][2] /\ s = hand[2][1]
    BY <1>0
  <2>16. status' \in [Sides -> [Ids -> {"free", "run", "doomed", "done"}]]
    BY <2>4
  <2>17. origin' \in [Sides -> [Ids -> {0} \cup Requesters]]
    BY <2>5
  <2>18. Answering(p, s, L, TRUE, new)
    BY <1>4, <2>14, <2>15, <2>16, <2>17, <2>6, <2>11, <2>12 DEF Answering
  <2> QED BY <2>3, <2>8, <2>9, <2>10, <2>13, <2>18, AnsweringStep
<1>8. CASE sent' = WrittenTo(2, s, <<<<"reply", p, FALSE, 0>>>>) /\ UNCHANGED <<status, origin, links>>
  <2>1. SidesFit' /\ ReturnedIsSpawned' /\ SpawnedOnce'
    BY <1>1, <1>4, <1>8, SidesKept DEF RemoteInv
  <2>2. PICK N, ok : N = <<>> /\ ok = FALSE
    OBVIOUS
  <2>3. N \in Seq(Signals) /\ N \o <<<<"reply", p, ok, 0>>>> = <<<<"reply", p, FALSE, 0>>>>
    <3>1. PICK g : g = <<"reply", p, FALSE, 0>>
      OBVIOUS
    <3>2. <<g>> \in Seq({g})
      BY SinglesAre
    <3>3. N \o <<g>> = <<g>>
      BY <2>2, <3>2, ConcatEmptySeq
    <3>4. N \in Seq(Signals)
      BY <2>2, EmptySeq
    <3> QED BY <2>2, <3>1, <3>3, <3>4
  <2>4. sent' = WrittenTo(2, s, N \o <<<<"reply", p, ok, 0>>>>)
    BY <1>8, <2>3
  <2>5. IF ok THEN 0 \in Ids /\ origin'[2][0] = p ELSE \A q \in Ids : origin'[2][q] # p
    BY <1>5, <1>8, <2>2 DEF Spawned
  <2>6. \A r \in Requesters, q \in Ids : r # p => (origin'[2][q] = r <=> origin[2][q] = r)
    BY <1>8
  <2>7. 0 \in {0} \cup Ids /\ ok \in BOOLEAN
    BY <2>2
  <2>8. /\ status' \in [Sides -> [Ids -> {"free", "run", "doomed", "done"}]]
        /\ links' \in [Sides -> [Ids -> SUBSET UsedPids]]
        /\ origin' \in [Sides -> [Ids -> {0} \cup Requesters]]
    BY <1>6, <1>8
  <2>9. p = hand[2][2][2] /\ s = hand[2][1]
    BY <1>0
  <2> HIDE DEF L
  <2>10. Answering(p, s, N, ok, 0)
    BY <1>4, <2>4, <2>5, <2>6, <2>8, <2>9 DEF Answering
  <2>11. N \in Seq(Signals)
    BY <2>3
  <2> QED BY <2>1, <2>7, <2>10, <2>11, AnsweringStep
<1> QED BY <1>0, <1>3, <1>7, <1>8 DEF HandleSpawn
-----------------------------------------------------------------------------
(* The reader of node 1 gives the reply to the one that waits for it.      *)
LEMMA HandleReplyStep ==
  ASSUME RemoteInv, NEW n \in Sides, HandleReply(n)
  PROVE  RemoteInv'
<1>1. RemoteTypeOK /\ SidesFit
  BY DEF RemoteInv
<1>2. hand[n] # <<>> /\ hand[n][2][1] = "reply" /\ hand' = [hand EXCEPT ![n] = <<>>]
  BY DEF HandleReply
<1>3. hand[n] \in SessionIds \X FramesOf(OtherSide(n)) /\ OtherSide(n) \in Sides
  BY <1>1, <1>2, Others DEF RemoteTypeOK
<1>4. hand[n][2] \in FramesOf(OtherSide(n)) /\ hand[n][1] \in SessionIds
  BY <1>3
<1>5. OtherSide(n) = 2 /\ n = 1
  BY <1>2, <1>3, <1>4, FrameFields, Others
<1>0. PICK s, f, p, m : s = hand[1][1] /\ f = hand[1][2] /\ p = f[2] /\ m = <<"reply", f[3], f[4]>>
  OBVIOUS
<1>6. /\ p \in Requesters /\ f[3] \in BOOLEAN /\ f[4] \in {0} \cup Ids /\ f = <<"reply", p, f[3], f[4]>>
  BY <1>0, <1>2, <1>3, <1>4, <1>5, FrameFields
<1>7. f \in AnswerOf(p) /\ \A r : r # p => f \notin AnswerOf(r)
  <2>1. p \in Requesters /\ f[3] \in BOOLEAN /\ f[4] \in {0} \cup Ids
    BY <1>6
  <2>2. /\ <<"reply", p, f[3], f[4]>> \in AnswerOf(p)
        /\ \A r : r # p => <<"reply", p, f[3], f[4]>> \notin AnswerOf(r)
    <3> DEFINE a == f[3]
               b == f[4]
    <3>1. a \in BOOLEAN /\ b \in {0} \cup Ids
      BY <2>1
    <3> HIDE DEF a, b
    <3>2. <<"reply", p, a, b>> \in AnswerOf(p) /\ \A r : r # p => <<"reply", p, a, b>> \notin AnswerOf(r)
      BY <2>1, <3>1, FrameKinds
    <3> QED BY <3>2 DEF a, b
  <2> QED BY <1>6, <2>2
<1>8. \A r : f \notin AskOf(r)
  <2>1. \A r : \A g \in AskOf(r) : g[1] = "spawn"
    BY DEF AskOf
  <2>2. f[1] = "reply"
    BY <1>0, <1>2, <1>5
  <2> QED BY <2>1, <2>2
<1>9. PICK w \in Places : Stands(p, w) /\ CallFits(p, w)
  BY <1>6 DEF RemoteInv, RequesterInv
<1>10. w = "read" /\ f \in TrueAnswer(p) /\ s = call[p][2] /\ p \in pend[s] /\ s \in SessionIds
  BY <1>0, <1>2, <1>4, <1>5, <1>7, <1>9 DEF Stands, CallFits
<1>11. /\ mbox' = [mbox EXCEPT ![1][p] = Append(mbox[1][p], m)]
       /\ pend' = [pend EXCEPT ![s] = pend[s] \ {p}]
       /\ UNCHANGED <<status, reason, links, mons, monby, origin, call, got, cur, last, sent>>
  BY <1>0, <1>5, <1>10 DEF HandleReply, Deliver
<1>12. hand'[1] = <<>> /\ hand'[2] = hand[2] /\ DOMAIN hand' = Sides
       /\ \A k \in Sides : hand'[k] \in {<<>>} \cup (SessionIds \X FramesOf(OtherSide(k)))
  BY <1>1, <1>2, <1>5, Others DEF RemoteTypeOK
<1>13. m \in Returns /\ Tells(p, f[3], f[4])
  BY <1>0, <1>6, <1>10, NoticeIsNoReturn DEF TrueAnswer
<1>14. m \in TrueReturn(p)
  BY <1>0, <1>13 DEF TrueReturn
<1>15. p \in Ids /\ mbox \in [Sides -> [Ids -> Seq(Returns \cup Notices)]] /\ mbox[1][p] \in Seq(Returns \cup Notices)
  BY <1>1, <1>6, RequestersAreIds, Others DEF RemoteTypeOK
<1>16. Append(mbox[1][p], m) = mbox[1][p] \o <<m>> /\ Append(mbox[1][p], m) \in Seq(Returns \cup Notices)
  <2>1. m \in Returns \cup Notices
    BY <1>13
  <2>2. Append(mbox[1][p], m) = mbox[1][p] \o <<m>>
    BY <1>15, <2>1, AppendIsConcat
  <2>3. Append(mbox[1][p], m) \in Seq(Returns \cup Notices)
    BY <1>15, <2>1, AppendProperties
  <2> QED BY <2>2, <2>3
<1>17. /\ mbox' \in [Sides -> [Ids -> Seq(Returns \cup Notices)]]
       /\ mbox'[1][p] = mbox[1][p] \o <<m>> /\ \A q \in Ids : q # p => mbox'[1][q] = mbox[1][q]
  BY <1>11, <1>15, <1>16, SetAt, Others
<1>18. /\ pend' \in [SessionIds -> SUBSET Requesters]
       /\ \A k \in SessionIds, r \in Requesters : r # p => (r \in pend'[k] <=> r \in pend[k])
  <2>1. pend \in [SessionIds -> SUBSET Requesters]
    BY <1>1 DEF RemoteTypeOK
  <2> QED BY <1>10, <1>11, <2>1
<1>19. RemoteTypeOK'
  BY <1>1, <1>11, <1>12, <1>17, <1>18 DEF RemoteTypeOK
<1>20. SidesFit' /\ ReturnedIsSpawned' /\ SpawnedOnce'
  BY <1>1, <1>11, SidesKept DEF RemoteInv
<1>21. ASSUME NEW r \in Requesters, r # p PROVE RequesterInv(r)'
  <2>1. SentGrows(1, AskOf(r)) /\ SentGrows(2, AnswerOf(r))
    BY <1>1, <1>11, GrowsByNothing, Others
  <2>2. r \in Ids /\ mbox'[1][r] = mbox[1][r]
    BY <1>17, <1>21, RequestersAreIds
  <2>3. MailGrows(r)
    BY <1>1, <2>2, MailQuiet
  <2>4. \A k \in Sides : HandKeeps(k, r)
    BY <1>0, <1>7, <1>8, <1>12, <1>21, Others DEF HandKeeps
  <2>5. Undisturbed(r)
    BY <1>11, <1>18, <1>21, <2>1, <2>3, <2>4 DEF Undisturbed
  <2> QED BY <2>5, OthersKept
<1>22. RequesterInv(p)'
  <2>1. TrueAnswer(p)' = TrueAnswer(p) /\ TrueReturn(p)' = TrueReturn(p) /\ (Spawned(p)' <=> Spawned(p))
    BY <1>11, TrueStays, RequestersAreIds
  <2>2. Lacks(mbox[1][p], Returns) /\ m \in Returns \cup Notices
    BY <1>9, <1>10, <1>13 DEF Stands
  <2>3. <<m>> \in Seq(Returns \cup Notices) /\ Once(<<m>>, Returns, TrueReturn(p))
    BY <1>14, <2>2, SinglesAre
  <2>4. Once(mbox'[1][p], Returns, TrueReturn(p))
    BY <1>15, <1>17, <2>2, <2>3, OnceAppended
  <2>5. Stands(p, "told")'
    BY <1>9, <1>10, <1>11, <1>12, <2>1, <2>4 DEF Stands, AskOf, AnswerOf, Returns
  <2>6. CallFits(p, "told")'
    BY <1>9, <1>10, <1>11, <2>1 DEF CallFits
  <2> QED BY <2>5, <2>6 DEF RequesterInv, Places
<1> QED BY <1>19, <1>20, <1>21, <1>22 DEF RemoteInv
-----------------------------------------------------------------------------
LEMMA RemoteInit ==
  ASSUME SignalsInit
  PROVE  RemoteInv
<1>1. 1 \in SessionIds
  BY RemoteAssumption DEF SessionIds
<1>2. RemoteTypeOK
  <2>1. <<"idle">> \in Calls /\ <<>> \in Seq(Returns \cup Notices) /\ \A n \in Sides : <<>> \in Seq(FramesOf(n))
    BY EmptySeq DEF Calls
  <2> QED BY <1>1, <2>1 DEF SignalsInit, RemoteTypeOK
<1>3. SidesFit
  <2>1. Locals[2] \in Nat /\ Ids \subseteq Nat
    BY RemoteAssumption, RequestersAreIds, Others
  <2> QED BY <2>1, Others DEF SignalsInit, SidesFit
<1>4. ReturnedIsSpawned /\ SpawnedOnce
  BY RequestersAreIds, Others DEF SignalsInit, ReturnedIsSpawned, SpawnedOnce
<1>5. ASSUME NEW p \in Requesters PROVE RequesterInv(p)
  <2>1. p \in Ids /\ p # 0 /\ ~Spawned(p)
    BY RequestersAreIds, Others DEF SignalsInit, Spawned
  <2>2. /\ sent[1] = <<>> /\ sent[2] = <<>> /\ hand[1] = <<>> /\ hand[2] = <<>>
        /\ mbox[1][p] = <<>> /\ call[p] = <<"idle">>
    BY <2>1, Others DEF SignalsInit
  <2>3. \A T : Lacks(<<>>, T)
    BY EmptySeq DEF Lacks
  <2>4. Stands(p, "none")
    BY <2>2, <2>3 DEF Stands
  <2>5. CallFits(p, "none")
    BY <2>1, <2>2 DEF CallFits
  <2> QED BY <2>4, <2>5 DEF RequesterInv, Places
<1> QED BY <1>2, <1>3, <1>4, <1>5 DEF RemoteInv

LEMMA RemoteStep ==
  ASSUME RemoteInv, [SignalsNext]_signalVars
  PROVE  RemoteInv'
<1>1. CASE UNCHANGED signalVars
  <2>1. /\ UNCHANGED <<status, reason, links, mons, monby, mbox, sent, hand>>
        /\ UNCHANGED <<origin, call, pend, got, cur, last>>
    BY <1>1 DEF signalVars
  <2>2. RemoteTypeOK
    BY DEF RemoteInv
  <2>3. RemoteTypeOK'
    BY <2>1, <2>2 DEF RemoteTypeOK
  <2>4. SentQuietly
    BY <2>1, <2>2, NothingWritten
  <2>5. \A p \in Ids : MailGrows(p)
    BY <2>1, <2>2, MailQuiet
  <2> QED BY <2>1, <2>3, <2>4, <2>5, SameHand, QuietStep
<1>2. ASSUME NEW p \in Requesters,
             (\E l \in BOOLEAN : SpawnRequest(p, l) \/ SpawnWriteFails(p, l))
             \/ SpawnRetries(p) \/ SpawnReturns(p) \/ Monitor(p) \/ Link(p)
      PROVE  RemoteInv'
  BY <1>2, SpawnRequestStep, SpawnWriteFailsStep, SpawnRetriesStep, SpawnReturnsStep, MonitorStep, LinkStep
<1>3. ASSUME NEW n \in Sides,
             (\E p \in Ids, why \in {"normal", "crash"} : Exit(n, p, why))
             \/ Take(n) \/ HandleSpawn(n) \/ HandleReply(n) \/ HandleSignal(n) \/ Disconnect(n)
      PROVE  RemoteInv'
  BY <1>3, ExitStep, TakeStep, HandleSpawnStep, HandleReplyStep, HandleSignalStep, DisconnectStep
<1>4. CASE Connect
  BY <1>4, ConnectStep
<1> QED BY <1>1, <1>2, <1>3, <1>4 DEF SignalsNext

\* What the run checks is part of the invariant.
LEMMA RemoteInvSuffices ==
  ASSUME RemoteInv
  PROVE  SpawnIsAnswered
<1>1. SignalsTypeOK
  <2>1. \A p \in Requesters : got[p] \in {<<>>} \cup UsedPids
    BY DEF RemoteInv, RemoteTypeOK, UsedPids
  <2>2. got \in [Requesters -> {<<>>} \cup UsedPids]
    BY <2>1 DEF RemoteInv, RemoteTypeOK
  <2> QED BY <2>2 DEF RemoteInv, RemoteTypeOK, SignalsTypeOK
<1>2. ASSUME NEW p \in Requesters, call[p][1] = "wait", cur = [n \in Sides |-> call[p][2]],
             sent = [n \in Sides |-> <<>>], hand = [n \in Sides |-> <<>>]
      PROVE  \E i \in 1..Len(mbox[1][p]) : mbox[1][p][i][1] = "reply"
  <2>1. PICK w \in Places : Stands(p, w) /\ CallFits(p, w)
    BY DEF RemoteInv, RequesterInv
  <2>2. w # "none"
    BY <1>2, <2>1, Others DEF CallFits
  <2>3. \A T, R : ~Once(<<>>, T, R)
    BY EmptySeq DEF Once
  <2>4. w = "told"
    BY <1>2, <2>1, <2>2, <2>3, Others DEF Stands, Places
  <2>5. PICK i \in 1..Len(mbox[1][p]) : mbox[1][p][i] \in TrueReturn(p)
    BY <2>1, <2>4 DEF Stands, Once
  <2>6. mbox[1][p][i] \in Returns
    BY <2>5 DEF TrueReturn
  <2> QED BY <2>6, NoticeIsNoReturn
<1>3. AnsweredWhileUp
  BY <1>2 DEF AnsweredWhileUp
<1> QED BY <1>1, <1>3 DEF RemoteInv, SpawnIsAnswered

(* A call of mesh_node_spawn is in one place or lost with its session: the *)
(* pid it returns is that of a process started for this requester, no      *)
(* requester has two of them, and while the session stands a reply comes   *)
(* to the mailbox of the one that waits (dist/node.rs, actor/mod.rs).      *)
THEOREM SpawnAnswered == SignalsSpec => []SpawnIsAnswered
<1>1. SignalsInit => RemoteInv
  BY RemoteInit
<1>2. RemoteInv /\ [SignalsNext]_signalVars => RemoteInv'
  BY RemoteStep
<1>3. RemoteInv => SpawnIsAnswered
  BY RemoteInvSuffices
<1> QED BY <1>1, <1>2, <1>3, PTL DEF SignalsSpec
=============================================================================
