--------------------------- MODULE RemoteSignals ---------------------------
(* Processes of two nodes that spawn, link, monitor, send and exit across  *)
(* a session (dist/node.rs, actor/mod.rs). A pid is a pair of the id of a  *)
(* node, 0 for the node that uses it, and a local id. Ids are given by the *)
(* user of a pid, and frames carry them as they are.                       *)
EXTENDS Naturals, Sequences, SequencesExt

CONSTANTS Locals,      \* Locals[n]: processes of n at the start, 1..Locals[n]
          Requesters,  \* the processes of node 1 that run the programs below
          MaxSpawned,  \* bound: processes spawned from the other node
          MaxSessionIds, \* bound: sessions that follow each other
          MaxCalls     \* bound: calls of the requesters

Sides == {1, 2}
OtherSide(n) == 3 - n
Ids == 1..(IF Locals[1] > Locals[2] + MaxSpawned THEN Locals[1] ELSE Locals[2] + MaxSpawned)
SessionIds == 1..MaxSessionIds

ASSUME RemoteAssumption ==
    /\ Locals \in [Sides -> Nat] /\ Requesters \subseteq 1..Locals[1]
    /\ MaxSpawned \in Nat /\ MaxSessionIds \in Nat \ {0}

VARIABLES status,  \* status[n][p]: free, run, doomed (Exited stored) or done
          reason,  \* reason[n][p]: how the process ends
          links,   \* links[n][p]: Process.links
          mons,    \* mons[n][p]: the pids it monitors (one reference each)
          monby,   \* monby[n][p]: Process.monitored_by
          mbox,    \* mbox[n][p]: its mailbox
          origin,  \* origin[n][p]: the requester of a remotely spawned process
          call,    \* call[p]: where mesh_node_spawn of requester p stands
          pend,    \* pend[s]: NodeSession.pending_spawns on node 1
          got,     \* got[p]: the remote pid that p was given, or <<>>
          cur,     \* cur[n]: the session of n, or 0
          last,    \* the last session made
          sent,    \* sent[n]: frames written by n to the last session
          hand,    \* hand[n]: the frame that the reader of n has in hand
          steps      \* calls so far

signalVars == <<status, reason, links, mons, monby, mbox, origin, call, pend, got, cur, last, sent, hand, steps>>

UsedPids == ({0} \cup SessionIds) \X Ids

SignalsInit ==
    /\ status = [n \in Sides |-> [p \in Ids |-> IF p <= Locals[n] THEN "run" ELSE "free"]]
    /\ reason = [n \in Sides |-> [p \in Ids |-> "none"]]
    /\ links = [n \in Sides |-> [p \in Ids |-> {}]]
    /\ mons = [n \in Sides |-> [p \in Ids |-> {}]]
    /\ monby = [n \in Sides |-> [p \in Ids |-> {}]]
    /\ mbox = [n \in Sides |-> [p \in Ids |-> <<>>]]
    /\ origin = [n \in Sides |-> [p \in Ids |-> 0]]
    /\ call = [p \in Requesters |-> <<"idle">>]
    /\ pend = [s \in SessionIds |-> {}]
    /\ got = [p \in Requesters |-> <<>>]
    /\ cur = [n \in Sides |-> 1]
    /\ last = 1
    /\ sent = [n \in Sides |-> <<>>]
    /\ hand = [n \in Sides |-> <<>>]
    /\ steps = 0

(* get_process: the table of a node is keyed by pids with node id 0.       *)
Lookup(n, pid) == pid[1] = 0 /\ status[n][pid[2]] # "free"

Running(n, p) == status[n][p] = "run"

(* What n writes to session s is lost when either end has left it.         *)
WrittenTo(n, s, frames) ==
    IF cur[n] = s /\ cur[OtherSide(n)] = s THEN [sent EXCEPT ![n] = @ \o frames] ELSE sent

(* The senders route by the node id and drop what leads to no session.     *)
Sent(n, pid, frame) == WrittenTo(n, pid[1], <<frame>>)

Deliver(n, p, msg) == [mbox EXCEPT ![n][p] = Append(@, msg)]

-----------------------------------------------------------------------------
(* mesh_node_spawn, up to its wait: the pending entry, then the write; a   *)
(* failed write takes the session down and tries once more on a new one.   *)
SpawnRequest(p, link) ==
    /\ steps < MaxCalls /\ steps' = steps + 1
    /\ Running(1, p) /\ call[p] = <<"idle">> /\ got[p] = <<>> /\ cur[1] # 0
    /\ LET s == cur[1]
           frame == <<"spawn", p, link>>
       IN  /\ pend' = [pend EXCEPT ![s] = @ \cup {p}]
           /\ call' = [call EXCEPT ![p] = <<"wait", s, link>>]
           /\ sent' = WrittenTo(1, s, <<frame>>)
    /\ UNCHANGED <<status, reason, links, mons, monby, mbox, origin, got, cur, last, hand>>

(* The write fails: the session is taken down, which is Disconnect, and    *)
(* the request is repeated once if there is another.                       *)
SpawnWriteFails(p, link) ==
    /\ steps < MaxCalls /\ steps' = steps + 1
    /\ Running(1, p) /\ call[p] = <<"idle">> /\ got[p] = <<>> /\ cur[1] # 0 /\ cur[2] # cur[1]
    /\ call' = [call EXCEPT ![p] = <<"retry", cur[1], link>>]
    /\ UNCHANGED <<status, reason, links, mons, monby, mbox, origin, pend, got, cur, last, sent, hand>>

SpawnRetries_AfterWait(p) ==
    /\ Running(1, p) /\ call[p][1] \in {"retry", "wait"} /\ cur[1] \notin {0, call[p][2]}
    /\ pend' = [pend EXCEPT ![cur[1]] = @ \cup {p}]
    /\ call' = [call EXCEPT ![p] = <<"wait", cur[1], @[3]>>]
    /\ sent' = WrittenTo(1, cur[1], <<<<"spawn", p, call[p][3]>>>>)
    /\ UNCHANGED <<status, reason, links, mons, monby, mbox, origin, got, cur, last, hand, steps>>

SpawnRetries(p) ==
    /\ Running(1, p) /\ call[p][1] = "retry" /\ cur[1] # call[p][2]
    /\ IF cur[1] = 0
       THEN call' = [call EXCEPT ![p] = <<"idle">>] /\ UNCHANGED <<pend, sent>>
       ELSE /\ pend' = [pend EXCEPT ![cur[1]] = @ \cup {p}]
            /\ call' = [call EXCEPT ![p] = <<"wait", cur[1], @[3]>>]
            /\ sent' = WrittenTo(1, cur[1], <<<<"spawn", p, call[p][3]>>>>)
    /\ UNCHANGED <<status, reason, links, mons, monby, mbox, origin, got, cur, last, hand, steps>>

(* A new session, made by either node or for the request (see Session).    *)
Connect ==
    /\ cur = [n \in Sides |-> 0] /\ last < MaxSessionIds
    /\ last' = last + 1 /\ cur' = [n \in Sides |-> last + 1]
    /\ sent' = [n \in Sides |-> <<>>]
    /\ UNCHANGED <<status, reason, links, mons, monby, mbox, origin, call, pend, got, hand, steps>>

SpawnReturns_AnyStatus(p) ==
    /\ Running(1, p) /\ call[p][1] = "wait"
    /\ \E i \in 1..Len(mbox[1][p]) :
          LET m == mbox[1][p][i]
              pid == <<call[p][2], m[3]>>
          IN  /\ m[1] = "reply"
              /\ mbox' = [mbox EXCEPT ![1][p] = SubSeq(@, 1, i - 1) \o SubSeq(@, i + 1, Len(@))]
              /\ call' = [call EXCEPT ![p] = <<"idle">>]
              /\ got' = [got EXCEPT ![p] = pid]
              /\ links' = IF m[2] /\ call[p][3] THEN [links EXCEPT ![1][p] = @ \cup {pid}] ELSE links
    /\ UNCHANGED <<status, reason, mons, monby, origin, pend, cur, last, sent, hand, steps>>

(* The loop of mesh_node_spawn takes its reply from anywhere in the        *)
(* mailbox and qualifies the pid with the session it asked on.             *)
SpawnReturns(p) ==
    /\ Running(1, p) /\ call[p][1] = "wait"
    /\ \E i \in 1..Len(mbox[1][p]) :
          LET m == mbox[1][p][i]
              pid == <<call[p][2], m[3]>>
          IN  /\ m[1] = "reply"
              /\ mbox' = [mbox EXCEPT ![1][p] = SubSeq(@, 1, i - 1) \o SubSeq(@, i + 1, Len(@))]
              /\ call' = [call EXCEPT ![p] = <<"idle">>]
              /\ got' = [got EXCEPT ![p] = IF m[2] THEN pid ELSE @]
              /\ links' = IF m[2] /\ call[p][3] THEN [links EXCEPT ![1][p] = @ \cup {pid}] ELSE links
    /\ UNCHANGED <<status, reason, mons, monby, origin, pend, cur, last, sent, hand, steps>>

(* mesh_process_monitor, mesh_actor_link and mesh_actor_send with the pid. *)
Monitor(p) ==
    /\ steps < MaxCalls /\ steps' = steps + 1
    /\ Running(1, p) /\ got[p] # <<>> /\ got[p] \notin mons[1][p]
    /\ IF cur[1] = got[p][1]
       THEN /\ mons' = [mons EXCEPT ![1][p] = @ \cup {got[p]}]
            /\ sent' = Sent(1, got[p], <<"monitor", <<0, p>>, got[p]>>)
            /\ UNCHANGED mbox
       ELSE /\ mbox' = Deliver(1, p, <<"down", got[p], "noconnection">>)
            /\ UNCHANGED <<mons, sent>>
    /\ UNCHANGED <<status, reason, links, monby, origin, call, pend, got, cur, last, hand>>

Link(p) ==
    /\ steps < MaxCalls /\ steps' = steps + 1
    /\ Running(1, p) /\ got[p] # <<>> /\ got[p] \notin links[1][p]
    /\ links' = [links EXCEPT ![1][p] = @ \cup {got[p]}]
    /\ sent' = Sent(1, got[p], <<"link", <<0, p>>, got[p]>>)
    /\ UNCHANGED <<status, reason, mons, monby, mbox, origin, call, pend, got, cur, last, hand>>

(* A process ends by itself, or is found Exited at its next yield, and     *)
(* handle_process_exit tells its links: local ones in place, others by     *)
(* frame. What was doomed by a link ends as Normal (scheduler.rs:440).     *)
Exit(n, p, why) ==
    LET local == {q \in Ids : <<0, q>> \in links[n][p] /\ Running(n, q) /\ q # p}
        Away(pids) == {x \in pids : x[1] # 0 /\ x[1] = cur[n]}
    IN  /\ status[n][p] = "run" \/ (status[n][p] = "doomed" /\ why = "normal")
        /\ status' = [status EXCEPT ![n] = [q \in Ids |->
               IF q = p THEN "done" ELSE IF q \in local /\ why # "normal" THEN "doomed" ELSE @[q]]]
        /\ reason' = [reason EXCEPT ![n] = [q \in Ids |->
               IF q = p /\ status[n][p] = "run" THEN why
               ELSE IF q \in local /\ why # "normal" THEN "linked" ELSE @[q]]]
        /\ links' = [links EXCEPT ![n] = [q \in Ids |->
               IF q = p THEN {} ELSE IF q \in local THEN @[q] \ {<<0, p>>} ELSE @[q]]]
        /\ mbox' = IF why = "normal"
                   THEN [mbox EXCEPT ![n] = [q \in Ids |->
                            IF q \in local THEN Append(@[q], <<"exit", <<0, p>>, why>>) ELSE @[q]]]
                   ELSE mbox
        /\ sent' = WrittenTo(n, cur[n], SetToSeq({<<"exit", <<0, p>>, x, why>> : x \in Away(links[n][p])})
                                    \o SetToSeq({<<"down", <<0, p>>, x, why>> : x \in Away(monby[n][p])}))
        /\ monby' = [monby EXCEPT ![n][p] = {}]
        /\ UNCHANGED <<mons, origin, call, pend, got, cur, last, hand, steps>>
-----------------------------------------------------------------------------
(* The reader of n takes a frame; it may be the last one of its session.   *)
Take(n) ==
    /\ cur[n] # 0 /\ cur[n] = last /\ hand[n] = <<>> /\ sent[OtherSide(n)] # <<>>
    /\ hand' = [hand EXCEPT ![n] = <<cur[n], Head(sent[OtherSide(n)])>>]
    /\ sent' = [sent EXCEPT ![OtherSide(n)] = Tail(@)]
    /\ UNCHANGED <<status, reason, links, mons, monby, mbox, origin, call, pend, got, cur, last, steps>>

HandleSpawn_RepliesRequester(n) ==
    LET s == hand[n][1]
        p == hand[n][2][2]
        linked == hand[n][2][3]
        new == CHOOSE q \in Ids : status[n][q] = "free" /\ \A r \in 1..(q - 1) : status[n][r] # "free"
    IN  /\ hand[n] # <<>> /\ hand[n][2][1] = "spawn"
        /\ hand' = [hand EXCEPT ![n] = <<>>]
        /\ \/ /\ Cardinality({q \in Ids : origin[n][q] # 0}) < MaxSpawned
              /\ status' = [status EXCEPT ![n][new] = "run"]
              /\ origin' = [origin EXCEPT ![n][new] = p]
              /\ links' = IF linked THEN [links EXCEPT ![n][new] = {<<s, p>>}] ELSE links
              /\ sent' = WrittenTo(n, s, (IF linked THEN <<<<"link", <<0, new>>, <<0, p>>>>>> ELSE <<>>)
                                     \o <<<<"reply", p, TRUE, p>>>>)
           \/ /\ sent' = WrittenTo(n, s, <<<<"reply", p, FALSE, 0>>>>)   \* no such function
              /\ UNCHANGED <<status, origin, links>>
        /\ UNCHANGED <<reason, mons, monby, mbox, call, pend, got, cur, last, steps>>

HandleSpawn_NoErrorReply(n) ==
    /\ hand[n] # <<>> /\ hand[n][2][1] = "spawn"
    /\ hand' = [hand EXCEPT ![n] = <<>>]
    /\ UNCHANGED <<status, reason, links, mons, monby, mbox, origin, call, pend, got, cur, last, sent, steps>>

(* DIST_SPAWN: the process, its link to the requester qualified with the   *)
(* session, a DIST_LINK that carries both pids as they are, the reply.     *)
HandleSpawn(n) ==
    LET s == hand[n][1]
        p == hand[n][2][2]
        linked == hand[n][2][3]
        new == CHOOSE q \in Ids : status[n][q] = "free" /\ \A r \in 1..(q - 1) : status[n][r] # "free"
    IN  /\ hand[n] # <<>> /\ hand[n][2][1] = "spawn"
        /\ hand' = [hand EXCEPT ![n] = <<>>]
        /\ \/ /\ Cardinality({q \in Ids : origin[n][q] # 0}) < MaxSpawned
              /\ status' = [status EXCEPT ![n][new] = "run"]
              /\ origin' = [origin EXCEPT ![n][new] = p]
              /\ links' = IF linked THEN [links EXCEPT ![n][new] = {<<s, p>>}] ELSE links
              /\ sent' = WrittenTo(n, s, (IF linked THEN <<<<"link", <<0, new>>, <<0, p>>>>>> ELSE <<>>)
                                     \o <<<<"reply", p, TRUE, new>>>>)
           \/ /\ sent' = WrittenTo(n, s, <<<<"reply", p, FALSE, 0>>>>)   \* no such function
              /\ UNCHANGED <<status, origin, links>>
        /\ UNCHANGED <<reason, mons, monby, mbox, call, pend, got, cur, last, steps>>

HandleReply(n) ==
    LET s == hand[n][1]
        p == hand[n][2][2]
    IN  /\ hand[n] # <<>> /\ hand[n][2][1] = "reply"
        /\ hand' = [hand EXCEPT ![n] = <<>>]
        /\ mbox' = IF p \in pend[s] THEN Deliver(n, p, <<"reply", hand[n][2][3], hand[n][2][4]>>) ELSE mbox
        /\ pend' = [pend EXCEPT ![s] = @ \ {p}]
        /\ UNCHANGED <<status, reason, links, mons, monby, origin, call, got, cur, last, sent, steps>>

(* DIST_LINK, DIST_MONITOR, DIST_EXIT and DIST_MONITOR_EXIT look their     *)
(* target up as it is written in the frame.                                *)
HandleSignal(n) ==
    LET s == hand[n][1]
        f == hand[n][2]
        known == Lookup(n, f[3])
        q == f[3][2]
    IN  /\ hand[n] # <<>> /\ f[1] \in {"link", "monitor", "exit", "down"}
        /\ hand' = [hand EXCEPT ![n] = <<>>]
        /\ links' = CASE f[1] = "link" /\ known -> [links EXCEPT ![n][q] = @ \cup {f[2]}]
                      [] f[1] = "exit" /\ known -> [links EXCEPT ![n][q] = @ \ {f[2]}]
                      [] OTHER -> links
        /\ monby' = IF f[1] = "monitor" /\ known /\ Running(n, q)
                    THEN [monby EXCEPT ![n][q] = @ \cup {f[2]}] ELSE monby
        /\ mons' = IF f[1] = "down" /\ known THEN [mons EXCEPT ![n][q] = @ \ {f[2]}] ELSE mons
        /\ mbox' = CASE f[1] = "down" /\ known -> Deliver(n, q, <<"down", f[2], f[4]>>)
                     [] f[1] = "exit" /\ known /\ f[4] = "normal" -> Deliver(n, q, <<"exit", f[2], f[4]>>)
                     [] OTHER -> mbox
        /\ status' = IF f[1] = "exit" /\ known /\ f[4] # "normal" /\ Running(n, q)
                     THEN [status EXCEPT ![n][q] = "doomed"] ELSE status
        /\ sent' = IF f[1] = "monitor" /\ (~known \/ ~Running(n, q))
                   THEN WrittenTo(n, s, <<<<"down", f[3], f[2], "noproc">>>>) ELSE sent
        /\ UNCHANGED <<reason, origin, call, pend, got, cur, last, steps>>

(* The session is lost at n: handle_node_disconnect ends the processes     *)
(* that link to its pids (none traps) and answers the monitors.            *)
Disconnect(n) ==
    LET s == cur[n]
        Hit(p) == \E x \in links[n][p] : x[1] = s
    IN  /\ s # 0
        /\ cur' = [cur EXCEPT ![n] = 0]
        /\ sent' = [sent EXCEPT ![OtherSide(n)] = <<>>]
        /\ status' = [status EXCEPT ![n] = [p \in Ids |-> IF Hit(p) /\ @[p] = "run" THEN "doomed" ELSE @[p]]]
        /\ reason' = [reason EXCEPT ![n] = [p \in Ids |->
               IF Hit(p) /\ status[n][p] = "run" THEN "noconnection" ELSE @[p]]]
        /\ links' = [links EXCEPT ![n] = [p \in Ids |->
               IF status[n][p] = "run" THEN {x \in @[p] : x[1] # s} ELSE @[p]]]
        /\ mons' = [mons EXCEPT ![n] = [p \in Ids |->
               IF status[n][p] = "run" THEN {x \in @[p] : x[1] # s} ELSE @[p]]]
        /\ mbox' = [mbox EXCEPT ![n] = [p \in Ids |->
               IF status[n][p] = "run" /\ \E x \in mons[n][p] : x[1] = s
               THEN Append(@[p], <<"down", CHOOSE x \in mons[n][p] : x[1] = s, "noconnection">>) ELSE @[p]]]
        /\ UNCHANGED <<monby, origin, call, pend, got, last, hand, steps>>

SignalsNext ==
    \/ \E p \in Requesters :
          \/ \E l \in BOOLEAN : SpawnRequest(p, l) \/ SpawnWriteFails(p, l)
          \/ SpawnRetries(p) \/ SpawnReturns(p) \/ Monitor(p) \/ Link(p)
    \/ \E n \in Sides :
          \/ \E p \in Ids, why \in {"normal", "crash"} : Exit(n, p, why)
          \/ Take(n) \/ HandleSpawn(n) \/ HandleReply(n) \/ HandleSignal(n) \/ Disconnect(n)
    \/ Connect

SignalsSpec == SignalsInit /\ [][SignalsNext]_signalVars
-----------------------------------------------------------------------------
SignalsTypeOK ==
    /\ status \in [Sides -> [Ids -> {"free", "run", "doomed", "done"}]]
    /\ reason \in [Sides -> [Ids -> {"none", "normal", "crash", "linked", "noconnection"}]]
    /\ {links, mons, monby} \subseteq [Sides -> [Ids -> SUBSET UsedPids]]
    /\ origin \in [Sides -> [Ids -> {0} \cup Requesters]]
    /\ pend \in [SessionIds -> SUBSET Requesters]
    /\ got \in [Requesters -> {<<>>} \cup UsedPids]
    /\ cur \in [Sides -> {0} \cup SessionIds] /\ last \in SessionIds

(* The pid a spawn returns leads, over the session it was asked on, to a   *)
(* process that the other node started for this very requester.            *)
ReturnedIsSpawned ==
    \A p \in Requesters : got[p] # <<>> =>
        status[2][got[p][2]] # "free" /\ origin[2][got[p][2]] = p

(* A requester never has two processes started for one call, although the  *)
(* request is repeated after a failed write.                               *)
SpawnedOnce ==
    \A p \in Requesters, q, r \in Ids : origin[2][q] = p /\ origin[2][r] = p => q = r

(* While the session of a call stands, the call is answered: when nothing  *)
(* is on its way any more, a waiting requester has its reply.              *)
AnsweredWhileUp ==
    \A p \in Requesters :
        /\ Running(1, p) /\ call[p][1] = "wait" /\ cur = [n \in Sides |-> call[p][2]]
        /\ sent = [n \in Sides |-> <<>>] /\ hand = [n \in Sides |-> <<>>]
        => \E i \in 1..Len(mbox[1][p]) : mbox[1][p][i][1] = "reply"

(* What a process of one node may count on when it spawns on the other.    *)
SpawnIsAnswered == SignalsTypeOK /\ ReturnedIsSpawned /\ SpawnedOnce /\ AnsweredWhileUp
=============================================================================
