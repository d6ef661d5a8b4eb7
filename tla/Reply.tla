------------------------------- MODULE Reply -------------------------------
(* Jobs (actor/job.rs) and service calls (actor/service.rs): both send and *)
(* then take the next message of the mailbox of the caller, whatever it is *)
(* and whoever sent it. A job is linked to its caller, so its end is told  *)
(* as well as its result.                                                  *)
EXTENDS Naturals, Sequences

CONSTANTS Callers,   \* processes that call
          Uses,      \* Uses[c]: what c calls, among call, job and map
          Traps,     \* the callers that trap exits
          Services,
          MapSize,   \* the length of the list of mesh_job_map
          MaxJobs,   \* bound: jobs 1..MaxJobs are started
          MaxUses    \* bound: operations of one caller

ASSUME ReplyAssumption ==
    /\ Callers \cap Services = {} /\ "nobody" \notin Callers
    /\ MapSize \in Nat /\ MaxJobs \in Nat /\ MaxUses \in Nat

VARIABLES at,    \* at[c]: the operation c waits in, or <<"idle">>
          mbox,  \* mbox[p]: the mailbox of a caller or a service
          alive, \* callers and services that run
          job,   \* job[j]: how far job j has come, and its caller
          count, \* count[c]: operations begun
          log    \* log[c]: what they returned: <<operation, what it was about, answer>>

replyVars == <<at, mbox, alive, job, count, log>>

Jobs == 1..MaxJobs

ReplyInit ==
    /\ at = [c \in Callers |-> <<"idle">>]
    /\ mbox = [p \in Callers \cup Services |-> <<>>]
    /\ alive = Callers \cup Services
    /\ job = [j \in Jobs |-> <<"none", "nobody">>]
    /\ count = [c \in Callers |-> 0]
    /\ log = [c \in Callers |-> <<>>]

Push(p, m) == [mbox EXCEPT ![p] = Append(@, m)]

Begin(c, use) ==
    /\ c \in alive /\ at[c] = <<"idle">> /\ use \in Uses[c] /\ count[c] < MaxUses
    /\ count' = [count EXCEPT ![c] = @ + 1]

(* The table keeps processes that have ended, and their mailboxes.         *)
ServiceCall(c, s) ==
    /\ Begin(c, "call")
    /\ mbox' = Push(s, <<"call", c, count[c]>>)
    /\ at' = [at EXCEPT ![c] = <<"call", count[c]>>]
    /\ UNCHANGED <<alive, job, log>>

Serve_AnyCaller(s) ==
    LET m == Head(mbox[s])
    IN  /\ s \in alive /\ mbox[s] # <<>>
        /\ \E c \in Callers : mbox' = [mbox EXCEPT ![s] = Tail(@), ![c] = Append(@, <<"reply", m[2], m[3]>>)]
        /\ UNCHANGED <<at, alive, job, count, log>>

(* The loop of the service: a handler, and mesh_service_reply.             *)
Serve(s) ==
    LET m == Head(mbox[s])
    IN  /\ s \in alive /\ mbox[s] # <<>>
        /\ mbox' = [mbox EXCEPT ![s] = Tail(@), ![m[2]] = Append(@, <<"reply", m[2], m[3]>>)]
        /\ UNCHANGED <<at, alive, job, count, log>>

ServiceEnds(s) ==
    /\ s \in alive /\ alive' = alive \ {s}
    /\ UNCHANGED <<at, mbox, job, count, log>>

JobAsync(c, j) ==
    /\ Begin(c, "job") /\ job[j][1] = "none" /\ \A i \in 1..(j - 1) : job[i][1] # "none"
    /\ job' = [job EXCEPT ![j] = <<"spawned", c>>]
    /\ at' = [at EXCEPT ![c] = <<"await", j>>]   \* awaited by the step below
    /\ UNCHANGED <<mbox, alive, log>>

JobMap(c) ==
    /\ Begin(c, "map")
    /\ \E j \in Jobs :
          /\ j + MapSize <= MaxJobs + 1 /\ \A i \in Jobs : job[i][1] = "none" <=> i >= j
          /\ job' = [i \in Jobs |-> IF i \in j..(j + MapSize - 1) THEN <<"spawned", c>> ELSE job[i]]
          /\ at' = [at EXCEPT ![c] = <<"map", j, <<>>>>]
    /\ UNCHANGED <<mbox, alive, log>>

(* job_entry: the link first, the result when the function has returned,   *)
(* and the end of the process, which tells the link.                       *)
JobLinks(j) ==
    /\ job[j][1] = "spawned"
    /\ job' = [job EXCEPT ![j][1] = "linked"]
    /\ UNCHANGED <<at, mbox, alive, count, log>>

JobSends_ExitFirst(j) ==
    /\ job[j][1] = "linked"
    /\ job' = [job EXCEPT ![j][1] = "sent"]
    /\ mbox' = [mbox EXCEPT ![job[j][2]] = @ \o <<<<"exit", j, "normal">>, <<"result", j>>>>]
    /\ UNCHANGED <<at, alive, count, log>>

JobSends_Nothing(j) ==
    /\ job[j][1] = "linked"
    /\ job' = [job EXCEPT ![j][1] = "ended"]
    /\ UNCHANGED <<at, mbox, alive, count, log>>

JobSends(j) ==
    /\ job[j][1] = "linked"
    /\ job' = [job EXCEPT ![j][1] = "sent"]
    /\ mbox' = Push(job[j][2], <<"result", j>>)
    /\ UNCHANGED <<at, alive, count, log>>

JobEnds(j) ==
    /\ job[j][1] = "sent"
    /\ job' = [job EXCEPT ![j][1] = "ended"]
    /\ mbox' = IF job[j][2] \in alive THEN Push(job[j][2], <<"exit", j, "normal">>) ELSE mbox
    /\ UNCHANGED <<at, alive, count, log>>

(* A job that crashes takes a caller that does not trap exits with it.     *)
JobCrashes(j) ==
    LET c == job[j][2]
    IN  /\ job[j][1] = "linked"
        /\ job' = [job EXCEPT ![j][1] = "ended"]
        /\ mbox' = IF c \in alive \cap Traps THEN Push(c, <<"exit", j, "crash">>) ELSE mbox
        /\ alive' = IF c \in Traps THEN alive ELSE alive \ {c}
        /\ UNCHANGED <<at, count, log>>

(* mesh_actor_receive pops what comes first.                               *)
Take(c) ==
    LET m == Head(mbox[c])
        done == at[c][1] # "map" \/ Len(at[c][3]) + 1 = MapSize
        answer == IF at[c][1] = "map" THEN Append(at[c][3], m) ELSE m
    IN  /\ c \in alive /\ at[c][1] # "idle" /\ mbox[c] # <<>>
        /\ mbox' = [mbox EXCEPT ![c] = Tail(@)]
        /\ at' = [at EXCEPT ![c] = IF done THEN <<"idle">> ELSE <<"map", at[c][2], answer>>]
        /\ log' = IF done THEN [log EXCEPT ![c] = Append(@, <<at[c][1], at[c][2], answer>>)] ELSE log
        /\ UNCHANGED <<alive, job, count>>

(* mesh_job_await_timeout returns Err("timeout").                          *)
AwaitTimeout(c) ==
    /\ c \in alive /\ at[c][1] = "await" /\ mbox[c] = <<>>
    /\ at' = [at EXCEPT ![c] = <<"idle">>]
    /\ log' = [log EXCEPT ![c] = Append(@, <<"await", at[c][2], <<"timeout">>>>)]
    /\ UNCHANGED <<mbox, alive, job, count>>

ReplyNext ==
    \/ \E c \in Callers :
          \/ \E s \in Services : ServiceCall(c, s)
          \/ \E j \in Jobs : JobAsync(c, j)
          \/ JobMap(c) \/ Take(c) \/ AwaitTimeout(c)
    \/ \E s \in Services : Serve(s) \/ ServiceEnds(s)
    \/ \E j \in Jobs : JobLinks(j) \/ JobSends(j) \/ JobEnds(j) \/ JobCrashes(j)

ReplySpec == ReplyInit /\ [][ReplyNext]_replyVars
-----------------------------------------------------------------------------
MailItems ==
    ({"call", "reply"} \X Callers \X Nat) \cup ({"result"} \X Jobs)
        \cup ({"exit"} \X Jobs \X {"normal", "crash"})

Places == {<<"idle">>} \cup ({"call"} \X Nat) \cup ({"await"} \X Jobs) \cup ({"map"} \X Jobs \X Seq(MailItems))

Answers == {"call", "await", "map"} \X Nat \X (MailItems \cup {<<"timeout">>} \cup Seq(MailItems))

ReplyTypeOK ==
    /\ alive \subseteq Callers \cup Services
    /\ at \in [Callers -> Places] /\ count \in [Callers -> 0..MaxUses]
    /\ mbox \in [Callers \cup Services -> Seq(MailItems)] /\ log \in [Callers -> Seq(Answers)]
    /\ job \in [Jobs -> {"none", "spawned", "linked", "sent", "ended"} \X (Callers \cup {"nobody"})]

(* A process that only calls services gets the reply to the call it made,  *)
(* from whichever service, however the calls of others fall in between.    *)
ReplyIsOwn ==
    \A c \in Callers : Uses[c] = {"call"} =>
        \A k \in 1..Len(log[c]) : log[c][k][3] = <<"reply", c, log[c][k][2]>>

(* The first await of a process returns what became of its job: its result *)
(* before the exit that follows it, a crash, or a timeout.                 *)
FirstAwaitIsTrue ==
    \A c \in Callers : Uses[c] = {"job"} /\ log[c] # <<>> =>
        log[c][1][3] \in {<<"result", log[c][1][2]>>, <<"exit", log[c][1][2], "crash">>, <<"timeout">>}

(* Whoever awaits a job that has ended has a message to take, or has ended *)
(* with it: an await of a job never waits for nothing.                     *)
EndedJobIsHeard ==
    \A c \in alive \cap Callers : at[c][1] = "await" /\ job[at[c][2]][1] = "ended" => mbox[c] # <<>>

(* mesh_job_map spawns parallel jobs and is said to "collect results in    *)
(* order".                                                                 *)
MapInOrder ==
    \A c \in Callers, k \in 1..MaxUses : k <= Len(log[c]) /\ log[c][k][1] = "map" =>
        \A i \in 1..MapSize : log[c][k][3][i] \in {<<"result", log[c][k][2] + i - 1>>,
                                                  <<"exit", log[c][k][2] + i - 1, "crash">>}

(* mesh_service_call, mesh_job_await: replies go with their calls, the first *)
(* await returns what became of the job, and an ended job is heard of.       *)
RepliesMatch == ReplyTypeOK /\ ReplyIsOwn /\ FirstAwaitIsTrue /\ EndedJobIsHeard
=============================================================================
