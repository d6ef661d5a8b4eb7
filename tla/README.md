# A verification project for Mesh

Mesh is a language with actors, supervision and clustering. This repository
holds its compiler (`compiler/mesh-lexer` ... `mesh-codegen`, `meshc`), its runtime
(`compiler/mesh-rt`), its package registry (`registry`) and its tools. This directory
models them in TLA+, checks the models with TLC, and proves with TLAPS what the
models of the runtime, its storage and its cluster promise. Two kinds of code are hard to test here, for different reasons:

* the **runtime**: an M:N scheduler that pins coroutines to worker threads,
  processes that link, monitor and end under one mutex each, a pool that blocks
  threads, a collector that scans stacks, a database client whose reads time out, and
  a cluster whose nodes dial each other, lose sessions, replicate names and work
  records, promote a standby and retry. Its models interleave every critical section;
* the **compiler**: sequential passes in which two tables, or two passes, have to
  agree about every program. Its models run the passes over every program of a
  bounded shape and compare the outcome with a definition of what is meant.

Paths without a crate are relative to `compiler/mesh-rt/src`.

## The system

| part | state | operations | how it interacts | what is hard |
|---|---|---|---|---|
| scheduler, receive (`actor/scheduler.rs`, `actor/mod.rs`) | process table (one mutex each), spawn queues, a list of suspended coroutines per worker, `active_count`, `shutdown` | spawn, send, blocking receive, exit, the three phases of `worker_loop` | called by every actor, by the main thread and by timers; calls `handle_process_exit` | wake-up against block, shutdown while actors wait, starvation |
| exit, links, monitors (`actor/link.rs`, `handle_process_exit`) | links, monitors, monitored_by, trap_exit, state of each process | link, monitor, demonitor, trap_exit, exit, and the end of a process | takes one process lock at a time; ends with the registry's cleanup | two-lock calls against a process that ends |
| name registry (`actor/registry.rs`) | name to pid, pid to names, under two locks | register, unregister, whereis, cleanup_process | called by actors and by the end of a process | cleanup works under one lock, then under the other |
| supervisors (`actor/supervisor.rs`) | children, restart window | start, terminate, restart, apply a strategy | linked to its children | restarts half way, ends during a restart |
| jobs, services (`actor/job.rs`, `service.rs`) | the mailbox of the caller | async, await, map; call, cast, reply | over one mailbox | a reply that is another message |
| heap and collector (`actor/heap.rs`) | pages, object list, free list, marks | alloc, collect | per actor | reachability, reuse |
| sessions (`dist/node.rs`) | sessions by name and by id, peers, pending calls | dial, accept, handshake, register, heartbeat, reader, disconnect | drives names, continuity and the actors | duplicate connections, locks released between check and act |
| remote processes (`dist/node.rs`, `actor/mod.rs`) | remote monitors and links, pending spawns | spawn, link, monitor, send, exit across nodes | over sessions | lost replies, ids that differ by node |
| cluster names (`dist/global.rs`) | names, two reverse indexes | register, unregister, broadcast, snapshot, merge, cleanup | over sessions | conflicting registrations, late messages |
| continuity registry (`dist/continuity.rs`) and its driver (`dist/node.rs`) | authority (role, epoch), next attempt token, one record per request key | submit, prepare, acknowledge, reject, complete, merge, promote, recover | upserts and snapshots to every session | replicas that disagree, stale messages, attempts minted twice |
| clustered routes (`dist/node.rs`, `http/server.rs`) | a request and its record | submit, dispatch, run, answer | on continuity and a connection of its own | three parties that time out separately |
| connection pool (`db/pool.rs`) | idle stack, two counters, `closed`, a condition variable | open, checkout, checkin, close | connects, rolls back and closes outside its lock | everything that happens while the lock is released |
| database client (`db/pg.rs`) | a connection and its transaction status | connect, execute, begin, commit, rollback, transaction | used by the pool and by migrations | answers that come late |
| queries and repository (`db/query.rs`, `db/repo.rs`) | clauses and parameters in separate lists | the builder calls; select, insert, update, delete | make SQL for the client | numbering of parameters |
| migrations (`meshc/src/migrate.rs`) | tracking table, schema | up, down | each migration is a program of its own | a command cut between two steps |
| package registry (`registry/src`) | packages, versions, blobs | publish, download | a table store and a blob store | two stores, concurrent requests |
| WebSocket connections and rooms (`ws/server.rs`, `ws/rooms.rs`) | reader thread and actor; room to connections | frames, ping, close; join, leave, broadcast | one actor per connection, and the cluster | either thread ends first, members that leave during a broadcast |
| parser (`mesh-parser`) | tokens, events, a tree | every construct of the language | the accessors feed all later passes | newlines, trailing closures, lookahead |
| type checker (`mesh-typeck`) | type variables, levels, traits, patterns | inference, exhaustiveness | types every expression for lowering | generalization, what is taken on trust |
| lowering and code generation (`mesh-codegen`) | decision trees, basic blocks, derived functions | case, loops, tail calls, deriving, library calls | calls the runtime by name | tables that must agree, control flow |
| the rest | | lexer, formatter, language server, command line, web sites | | see `PROJECT.json` for each |

Correctness, per part:

* scheduler: a coroutine is in one place; the count of active processes is
  exact; workers stop when there is nothing left, and then do; a waiting process
  is parked; what is ready runs;
* exit: links have two sides, a monitor answers once and no sooner than the
  end, nobody who was registered before the end is forgotten, the names it had are free;
* registry: both maps agree; cleanup frees what the process owns and nothing else;
* supervisors: no child runs unknown to its supervisor, restarts stay within the
  window, a strategy touches only the children it names;
* jobs and services: a reply goes with its call; what ended is heard of;
* heap: what is reachable is never handed out; no block is lost or listed twice;
* sessions: both ends keep the same one of two connections, the loss of a session
  is told to whoever monitored over it, up and down events pair off;
* cluster names: indexes agree with names, the first writer stands;
* continuity: one owner per attempt, only the owner completes it (both while nodes
  can hear each other), attempts and authority do not go back within an epoch, replicas agree
  when quiet;
* pool: slots are accounted for, the server never sees more than `max_conns`,
  a connection has one user and comes clean unless it has an answer outstanding, close wakes
  everybody;
* storage: a statement returns its own answer, a placeholder is bound to its own
  value, the tracking table tells the truth, a published version stands;
* compiler: what is written is read, what is typed is so typed, an accepted match
  misses nothing, the tree takes the first arm that matches, blocks do what the body
  means, derived functions obey their laws, library calls fit their declarations.

## The modules

| module | models | run by | proofs |
|---|---|---|---|
| `Scheduler` | `worker_loop`, spawn, send, blocking receive, shutdown | `MCServices`; its liveness by itself | `ActorProofs` |
| `ProcessExit` | links, monitors, exit, `handle_process_exit`; composed with `Registry` (`INSTANCE`) | itself | `ProcessExitProofs` |
| `NameTable` | what a table of names promises (abstract) | `MCServices` | `ActorProofs` |
| `Registry` | `actor/registry.rs`; refines `NameTable` | `MCServices` | `ActorProofs` |
| `Supervisor`, `Reply` | `actor/supervisor.rs`; `actor/job.rs` and `service.rs` | `MCServices` | `ServicesProofs` |
| `WsConnection`, `Rooms` | `ws/server.rs`; `ws/rooms.rs` on two nodes | `MCServices` | `ServicesProofs` |
| `ClusteredRoute` | `execute_clustered_http_route` and what it calls, on `ContinuityRecord` | `MCContinuity` | `ContinuityProofs` |
| `ContinuityRecord` | the pure part of `dist/continuity.rs`: records, precedence, transitions, merge, promotion, as functions of one registry | `MCContinuity` | `ContinuityProofs` |
| `Continuity` | nodes, sessions and messages around it: submission, prepare, dispatch, completion, upserts and snapshots, the disconnect passes, promotion, recovery, crashes | `MCContinuity` | `ContinuityProofs` |
| `Session`, `RemoteSignals` | `dist/node.rs`: connections and their end; processes across a session | `MCCluster` | `SessionProofs`, `RemoteProofs` |
| `GlobalNames` | `dist/global.rs` | `MCCluster` | `GlobalNamesProofs` |
| `Pool` | `db/pool.rs` | `MCStorage` | `StorageProofs` |
| `PgClient` | `db/pg.rs` | `MCStorage` | `StorageProofs` |
| `SqlBuilder` | `db/query.rs` and `db/repo.rs` | `MCStorage` | |
| `Migration` | `meshc/src/migrate.rs` | `MCStorage` | `StorageProofs` |
| `Publish` | `registry/src` | `MCStorage` | `StorageProofs` |
| `Heap` | `actor/heap.rs` | `MCStorage` | `StorageProofs` |
| `Grammar`, `Syntax` | the machine of `mesh-parser` and its parse functions; the accessors of its tree | `MCLanguage` | |
| `Inference` | `mesh-typeck/src/unify.rs` and `traits.rs`; `infer.rs` | `MCLanguage` | |
| `Typing` | the types a program has, by rules that guess (the reference); the programs are in `MCLanguage` | `MCLanguage` | |
| `Patterns`, `Exhaustive`, `DecisionTree` | patterns; `exhaustiveness.rs`; `mesh-codegen/src/pattern/compile.rs` | `MCCompiler` | |
| `LibraryTypes`, `LibraryRuntime`, `LibraryCall` | what every library function takes and returns in the checker, in lowering, in the LLVM declarations and in the JIT; a call on its way through them | `MCCompiler` | |
| `BasicBlocks` | the control flow of `codegen/expr.rs` | `MCCompiler` | |
| `Deriving` | the functions made for `deriving`, in `mir/lower.rs`, and the runtime's `json.rs`, `hash.rs`, `db/row.rs` they call | `MCCompiler` | |

An MC module that runs several components has a variable `part`: a behaviour belongs
to the part it starts in and leaves the variables of the others alone. One module
gathers the parts that have no reason to meet, so that a run says one thing about each.

**The grain of a step.** Wherever the code holds a mutex, what happens under one
acquisition is one action; where it releases it, the model may interleave
anything. Two acquisitions in one function are two actions with a program
counter in between, however short the window. A definition whose name carries a
suffix, such as `Return_LinksOnly`, is not part of any specification: it is the
action with a plausible bug, kept beside it to show that a property notices.

**Registry.** `names` and `pid_names` are updated together by `register` and
`unregister` (both write locks are held); `cleanup_process` takes the index
entry under one lock (`CleanupTake`; `removing` is what it holds meanwhile) and
removes those names under the other (`CleanupRemove`). `Loose` is the set of
names somebody may unregister. In the repository only tests call `unregister`,
and the reason for the constant is that the guarantee depends on it: a name
that is unregistered and taken by another process between the two locks of its
former owner's cleanup is removed from its new owner (`cleanup_process` removes
by name, without comparing the owner). `IndexAgrees` and the refinement speak of
the other names, `EveryNameIndexed` of all.

**Pool.** A client is a program counter over the critical sections of
`mesh_pool_checkout` and `mesh_pool_checkin`. Connections are handles; the server
is external and is the set of connections open at it (`live`), those it no longer
answers (`dead`), those in a transaction (`inTxn`), and per connection the answers that
nobody has read (`late`). `dirty` is what the client has read of the status
(`txn_status`). A statement, the ROLLBACK of checkin and the health check read the first
answer there is; a statement may give up (the 30 s of `pg.rs:705`), which leaves its
answer to the next one, and the pool keeps the connection. The health check and the
closes that `checkout` does with the lock held are part of its action. A client
checks in what it checked out, once: that is the contract of compiled code.

**Scheduler.** A coroutine has a program counter through `mesh_actor_receive`, a
worker one through `worker_loop`. Scans of the process table lock one entry at a
time, so they are one step per entry. Mailboxes are lengths. Injector, local
queues and steals are one set of requests: which worker takes which is open. Anybody may
spawn at any time, after shutdown was signalled and after workers have left too: the
accept threads of servers and the readers of sessions do, and `Scheduler::spawn` does
not look at `shutdown`.
Left out: reductions (a yield can happen at any point of a body), the spinning
receive of the main thread, what a coroutine computes.

**ProcessExit.** Each call takes the locks in the order of the code. The end of a
process is `Return` (links and monitors taken under its lock), `PropagateExit` and
`DeliverDown` (one other process at a time), `TakeNames` and `RemoveNames` (the
registry), `MarkExited`. A remote link partner is an input that may end at any
time. Left out: the terminate callback (user code, taken as returning), the
cleanup of cluster-wide names, DOWN and EXIT sent to other nodes, unlink (nothing
in the runtime calls it).

**Continuity.** One registry per node with its role, epoch, token and records. A
submission is a program counter from the decision to the dispatch; placement
reads authority and membership before the registry is locked, as the code does.
Threads broadcast after they release the lock, so messages of one session may
overtake each other: the network is a set. A session breaks at either end, at any
time; what was written to it is lost with it, and a new session carries the
snapshots of both sides. A snapshot is merged record by record (the code takes the
lock once per snapshot: the model has more interleavings). Handlers run for as
long as they like. A dispatch may fail, at once or in the reply to the remote spawn; the
request is then rejected as the code rejects it. Any node of `Ingress` submits; two parts
of the run let both nodes do it. Then two nodes that have lost each other may mint one
attempt id with two owners: `OneOwner` and `CompletedByOwner` are stated for
`Undivided` systems (no restart, and one node that submits or no session lost),
everything else for all.

**Sessions, remote processes, cluster names.** `Session` numbers connections; a dial
is the handshake as one exchange that may fail, then registration at each end under
the lock of its table, in either order; the tie-break, the reader, the heartbeat and
the disconnect passes are steps of their own. `RemoteSignals` keeps pids as pairs of a
node id and a local id, as the frames carry them: an id means a node only to the
node that gave it. `GlobalNames` changes the replica first and broadcasts second;
frames of a session arrive in order, a snapshot is taken and written in two steps.
Left out: the bytes of frames and the cookie's digest; discovery, which only dials.

**Supervisor, Reply.** `handle_child_exit` with its strategy is a queue of
operations, one per child, between which children run, end and are linked. What drives
it is the receive loop of compiled code: in the repository `supervisor_noop` ends at
once and `handle_child_exit` has no caller, so the module models the functions as
they are meant to be called. `Reply` takes the next message of the mailbox whatever it
is, as `mesh_job_await` and `mesh_service_call` do.

**WsConnection, Rooms, ClusteredRoute.** The reader thread and the actor share a
mailbox and a flag; frames are text, fragments, ping, pong, close or broken. A
broadcast takes its snapshot under the lock and writes to members one by one. A handle
has a life (`met` in `on_connect`, `open`, `left` after the cleanup, `shut`, `freed`); as in the code
whoever has it may join with it at any stage, a rejected connection is shut and freed with no
cleanup, and a broadcast reads a freed handle like any other: it skips it, or writes to
whatever connection lies there now. `stray` and `wild` are history: who was rejected or
joined late, and whether a freed handle was used. A
clustered route is three parties, each with its own timeout, and the records of
`ContinuityRecord`; its record may be mirrored, refused by the replica, or not asked for.

**Heap.** Blocks in one pointer field's lists, as in the code: list of objects or free
list; `Chain` follows the pointers from a head. The stack is the set of blocks its words point to. Sizes are small numbers; first fit,
and blocks that keep their size for ever, are the code's.

**Migration, Publish, SqlBuilder, PgClient.** A migration runs as its own program, whose
statements no transaction surrounds, then its row is written: a migration may fail, and a
command be cut, with some of the statements applied (`schema` is `none`, `part` or `whole`
for each version). `Publish` has a table store
with transactions and a blob store without. `SqlBuilder` keeps a text as the sequence
of its placeholders and compares each with the value it was written for. `PgClient`
has the server as a queue of answers that are told apart only by the ReadyForQuery
that ends each; a read may time out and leave its answer behind.

**The compiler.** A pass is an operator of its input, so a behaviour is: an input
grows, or is chosen; each property compares what the pass yields with a reference.

* *Matches*: a `case` grows arm by arm. The reference is the first arm that matches a
  value, over all values of a small type.
* *Library*: every function of the modules, as call, field and method. The reference
  is that four tables written by hand agree.
* *Blocks*: functions of two parameters. The reference is `Meaning`, an evaluator of the
  body; the blocks must have one terminator each and complete phis, and compute and
  tell the same, with a check of the reductions in every loop.
* *Deriving*: types that are declared, with their values. The reference is the laws:
  equality of the parts, total order, equal values hash alike, what is written is read.
* *Source*: texts with their meaning; newlines, comments and stray tokens are put into
  each. The reference is the same tree, or an error that names what is lost.
* *Types*: programs of twelve families. The reference, `Typing`, gives the set of
  ground types a program has by rules that guess instead of solving; inference must find
  that type and no narrower one. Inference notes what it takes without looking
  (`trusts`) and what it puts off (`owed`); both are listed below, and the soundness
  half of the comparison leaves out programs that rest on them.

## What the runs check

| run | parts and bounds | shows |
|---|---|---|
| `SchedulerLive` | 2 workers, 2 actors, 1 send or kill, timed and service receives | `ShutdownCompletes`, `NobodyStarves` |
| `ProcessExit` | 2 processes, 2 references, 2 names, 1 kill, five programs | `EndsAreTold`, `NamesAreFreed`, `WatchersHear` (liveness) |
| `Continuity` | 2 nodes, 1 key, 2 attempts. requests: submitted on one node and placed on the other, 0 or 1 replica, 1 cut. payloads: the same with two payloads, mirrored. startup: 1 promotion, 1 cut. crash: 2 crashes, 2 promotions, 1 or 2 replicas asked. both: both nodes submit, two payloads, 0 or 1 replica, no cut. split: both nodes submit one mirrored request, 1 cut, 1 promotion, 1 message on the wire to a node at a time. route: 1 request on 2 nodes | `RecordsAreSound`, `OwnersAgree`, `OnePrimaryPerEpoch`, `NothingGoesBack`, `RouteIsSettled` |
| `Cluster` | pair: 2 nodes that dial each other, a cut, a monitor. triple: 3 connections. mesh: 3 nodes, two learn of each other from the third. lost: 1 registration, 2 sessions. rivals: 1 session, 3 calls. signals: one node asks for 2 processes on another, 2 sessions, 3 calls | `SessionsAgree`, `PeersMeet`, `LossIsTold`, `NamesAgree`, `SpawnIsAnswered`, `FirstWriterStands` |
| `Services` | scheduler: 2 workers, 2 actors, spawned when they like, 2 sends or kills, timed and service receives. registry: 3 processes, 3 names, one loose. tree: 3 strategies, three pairs of children, 1 restart per window, 5 pids. calls: 2 callers, a job starter, 2 services. maps: a map of 2. connection: 4 frames, limit 2, 1 ping. lobby: 3 connections on 2 nodes, 2 broadcasts; one of them leaves, is rejected, joins late, is shut down and freed, and a behaviour ends with the first use of the freed handle; the others are admitted before the first broadcast | `NothingIsLost`, `StopIsRight`, `NamesAreKept`, `IsNameTable` (refinement), `ChildrenAreKept`, `StrategyScope`, `RepliesMatch`, `ConversationIsWhole`, `ConversationEnds`, `RoomsReachMembers` |
| `Storage` | pool: 4 clients, 3 handles, 1 to 2 connections, 1 unread answer on each. heap: 3 blocks, 8 steps. migrations: 3 versions, 4 commands, 2 cuts, failures half way. publishing: 3 requests, two of one version. builder: texts with `?`, `$n`, repeated and out of order, 3 calls. client: 3 TLS modes, 2 statements, 1 timeout | `SlotsAreBounded`, `ConnsAreSafe`, `HeapIsSound`, `MigrationsAreTold`, `UpAppliesAll`, `VersionsStand`, `ParametersBind`, `StatementsAnswered` |
| `Compiler` | matches: 7 types, up to 3 arms, guards. library: every function; methods of `string` and `list`. blocks: loops up to 5 turns. derived: 17 types | `MatchesAreRight`, `CallsFit`, `BlocksAreTheBody`, `DerivedImplsAgree` |
| `Language` | source: 39 texts, each with one layout token or one edit. types: some 2,300 programs | `WrittenIsRead`, `TypesAreFound` |
| `SchedulerLostWakeup`, `ProcessExitOrphanMonitor`, `CompilerGuard`, `CompilerNames` | as small as the trace needs | something the sources say that the code does not do |

A property of a run is a conjunction of the properties of its parts, each stated and
commented in the component's module; the MC module says in a sentence what each means.
The largest runs are `Continuity` (1,331,000 distinct states), `Services` (1,035,000) and
`Cluster` (646,000); each run ends within four minutes. The run that checks liveness
of the scheduler has two workers, and two conditions on `ShutdownCompletes`. An actor
that makes timed receives for ever is never done, and no shutdown waits it out: some
day there are no more of them. Two workers can wake their waiting actors in step
(`InStep`): each actor sees the other worker's ready, and waits again. That may go
on for ever, as the table of refuted formulas says, and is a matter of timing alone:
some day they no longer do. What the run shows is that nothing else keeps a worker.

Why the bounds are enough to be interesting. Two workers and two actors are what
a race between a worker, an actor and a second worker needs; two calls let one
actor be woken and killed, or woken twice (the liveness run has one call, which is a wake
or a kill that meets a shutdown). Four clients on two connections leave
two blocked when the pool is full, so a lost notification strands somebody; three
handles are one more than the pool may open, so an overshoot is visible. Two
processes give every pair of calls on both sides of a link. Two attempts are one
retry; two sessions are a loss and a return, which is where late frames and stale ids
meet their successor. Two nodes that dial each other give the duplicate the tie-break
is for, a third connection one that is older than both, a third node one that is known
by name only. One restart per window makes the second one exceed it. Two of three
publications of one version race, the third does not. Three arms are what it takes
for a row to be split by a switch above it and fall through below it. The texts of
the parser hold each construct; an edit puts one token where it does not belong.

The programs of `ProcessExit` split its calls in five families (links with traps
and kills, remote links, monitors with demonitors and kills, monitors with names, names
that processes register for themselves and for each other)
because all calls at once exceed what TLC finishes; calls of different families
touch disjoint fields except for the state of the process, which each family has.
Deadlock is not checked: a part may stop, for its bounds or since nobody calls again.

### Fairness

* `Scheduler`: workers keep running (`WF` of the runtime's steps on each worker:
  they are OS threads in a loop), deadlines pass (`WF`), and an actor that is
  resumed again and again reaches a receive or its end (`SF` of `Settles` for each
  actor: without it an actor may compute for ever, which no runtime can repair).
  Nothing obliges the main thread to return or anybody to send.
* `ProcessExit`: a worker carries through a call of the runtime, or the end of a
  process, that it has begun (`WF` per process): these are straight-line code under
  locks that are released. Nothing obliges an actor to return.

Everything else is safety, checked without fairness.

## Where the code and its documentation part

Kept as runs, each with the quotation in `PROJECT.json`:

* a message that arrives between the empty pop and the store of `Waiting` in
  `mesh_actor_receive` wakes nobody (`WokenByMessage`);
* a monitor set up after a process has handed out its monitors and before it is
  marked `Exited` never fires (`NoOrphanMonitor`);
* `compile_matrix` says that a failed guard falls through to the remaining rows; the row
  below is taken as it stands, its patterns not tested and its names not bound
  (`GuardFallsThrough`);
* `codegen_leaf` takes a local that bears a pattern's name for the arm's own, so after
  `let x = 1` an arm `Some(x)` overwrites the outer `x` (`PatternNamesAreFresh`).

Stated in the modules and refuted by TLC on small instances (put the name in a
`.cfg` to see the trace); they are not kept as runs:

| formula | what TLC shows |
|---|---|
| `Scheduler!TimedReceiveReturns` | nothing resumes a timed receive when its deadline passes: `worker_loop` skips what is `Waiting` and there is no timer |
| `Scheduler!ExitedIsFinal` | a process killed while it runs is `Ready` again after its next yield |
| `Scheduler!NoNullWithoutTimeout` | at shutdown a receive without timeout (kind `"forever"`) returns null to code generated on the ground that it cannot |
| `Scheduler!ShutdownCompletes` without `<>[]~InStep` | two workers can wake their waiting actors in step, each actor sees the other ready and waits again, for ever; it takes that timing each round |
| `Pool!BlockedOnlyIfExhausted` | a failed connect gives its slot back without a notification; a notification may be spent on a caller that times out |
| `Pool!IdleIsOutside` | a BEGIN that gives up after 30 s leaves `txn_status` as it was; checkin returns the connection to the idle list with the server in the transaction |
| `Pool!ClosedLeavesNothingOpen` | checkin reads `closed`, releases the lock and returns the connection to the idle list of a pool closed meanwhile |
| `ProcessExit!NoOrphanLink` | a link to a process that ends or has ended is never signalled |
| `ProcessExit!DownCarriesReason` | `worker_loop` ends every process with `Normal`, so the DOWN of a killed one says so |
| `ProcessExit!NoNameOfTheDead` | `Process.register` takes any pid, dead ones included |
| `Continuity!CompletionIsSeen` | an owner-lost record of the primary projects to a standby record that `validate` refuses, so the standby keeps its older copy |
| `Continuity!MirrorPromotable` | `mirror_prepare` keeps the sender's role, which `automatic_promotion_reason` takes for ambiguous until an upsert comes |
| `Continuity!OneOwner`, `CompletedByOwner` without `Undivided`, 2 ingress nodes and 1 cut | two nodes that submit the same work while disconnected mint one attempt id with two owners (`continuity.rs:563`) |
| the same with crashes | a restarted node counts attempts from zero and reuses ids its peers hold |
| `Continuity!EndIsFinal` for completed attempts with 2 ingress nodes | two copies of one attempt, submitted on either node, end in two ways, and a rejected one may replace the completed |
| `Continuity!AttemptNeverRegresses` without "except to a later epoch", 2 keys, 2 ingress nodes | precedence compares epochs before attempts, and a submission stamps an authority it read before it locked |
| `Continuity!QuietAgreement` with 3 nodes and 2 cuts | a standby that never heard of an attempt refuses its owner-lost record |
| `Reply!MapInOrder` | each job's place takes the next message, so results come in the order they arrive |
| `Rooms!NobodyGone` | a connection that joined in `on_connect` and is rejected, or is made to join after its cleanup, is freed and still in the room |
| `Rooms!NeverWild` | a broadcast then takes the flag and the stream of the freed handle; so does one whose snapshot is older than the end of a member |
| `Migration!TableIsTrue` | `up()` runs without a transaction, so a migration that fails half way leaves part of itself, with no row |
| `Heap!TotalIsAllocated` | a block from the free list is not added to the total it is subtracted from when it is swept |
| `PgClient!OkIsCommitted` | the server answers the COMMIT of a failed transaction with ROLLBACK and no error, and the client returns Ok |
| `Exhaustive!ConsClaimedExhaustive` | a `case` on a list whose only arm is a cons pattern is accepted |
| `LibraryCall!MethodIsItsOwn` for other modules than `string` and `list` | a method name is typed as one module's function and lowered to another's (`lower.rs:8450`, `infer.rs:9501`) |
| `Deriving!OptionReturns` | a field of type Option reads null as an error and never yields `Some` (`lower.rs:7267`) |
| `Deriving!MapKeysAreFound` | `mesh_json_to_map` builds a map that compares keys as integers, so a string key is not found in it |

Seen while modelling. The models contain what they say a model of, with properties
stated so as to leave it out, each at its place; what no model contains is marked (n):

* **Sessions.** A `:nodedown` may be told after the `:nodeup` that follows it; the end of
  the losing duplicate, when it comes before the winner registers, is told as a loss;
  two dials in the same direction can drop both sessions; links and monitors over a
  replaced session never fire, for its id is gone, and an entry of the id map may be
  stale; node ids wrap at 65,536 (`node.rs:83`); the accept loop handshakes on its own
  thread without a timeout.
* **Remote processes.** A link to a pid whose session is gone is never answered; a
  monitor may be told that a running process does not exist; a message to a pid of the
  third node is dropped where it arrives; a demonitor is not sent (`mod.rs:1223`); a remote
  spawn waits for ever when its session is lost.
* **Cluster names.** A late `cleanup_node` removes names of the live replacement; an
  unregistration is broadcast by name and removes another's registration
  (`global.rs:118`); names of third nodes are forwarded with ids of the sender; a
  snapshot that is written after a removal brings the name back.
* **Supervisors, jobs.** `child_template` is never set, so `start_child` fails; a failed
  restart of a remote child leaves the other children; a second await takes the normal
  exit of the first job; a result after its timeout is the next call's reply; a call to a
  service that has ended waits for ever; `WS_TEXT_TAG` equals `JOB_RESULT_TAG`.
* **WebSocket, routes.** A read that times out inside a frame loses its bytes (n: `WsConnection`
  starts at what `read_frame` returns); a connection that is rejected skips its cleanup, and a
  broadcast may write to a handle that was freed (both in the table above); a final status of a clustered request can be replaced by another.
* **Storage.** Two migration commands at once apply a version twice; `where_sub` and texts
  that mix `?` and `$n` bind other values (n for `where_sub`); after a read timeout, the next statement, or
  the health check of the pool, takes the late answer for its own.
* **Matches and library.** A `case` that covers a tuple, or a bool by a nested or-pattern, is
  rejected; redundancy counts guarded arms; or-patterns below the top are not expanded; an
  as-pattern's name is unbound; `Changeset.valid` is typed Bool and is a pointer;
  `List.contains` of strings returns an i8; `JSON.encode` accepts anything; the JIT table
  resolves 261 of 454 symbols; the validators of changesets are declared unlike they are
  implemented; the target of `try_into` depends on the order of a HashMap.
* **Blocks.** `a and b` whose left side does not end in the entry block has a phi with the wrong
  block (`e2e_m032_limit_nested_and` keeps this as a known limit; equality of structs of three
  fields is of that form); `return f(x)` of a self call gives a block two terminators
  (`lower.rs:14351`); a self call after a `let` that rebinds a parameter stores into the new
  local (`expr.rs:264`, `TailCallStoresParameters`); a `receive` compiles its first arm only;
  locals of loops grow the stack.
* **Deriving.** Options of sums, lists of Option or Float, and collections inside sums
  are written as raw pointers; a Float that is not finite is written as null; `0.0` and
  `-0.0` are equal and hash apart; sums and collections in fields hash by address; what a
  field must implement is not checked; comparison of lists of strings is never 1, and lists
  of structs are equal by address; `Some("")` of a row comes back as `None`; Row is ignored
  for a sum; the timestamps of a schema are not read from a row.
* **Parser.** Newlines inside delimiters stay insignificant in closures there; a condition in
  parentheses still suppresses trailing closures; in `for ... when f(x) do` the `do` becomes a
  closure of `f`; a trailing closure is read by no pass, nor are a guard of a receive arm, the
  base of a struct literal that is not a name, expressions in a module's body, a second
  `strategy` of a supervisor, a second `fn` of a service; separators of some lists may be
  missing; a closure without parentheses takes one expression on its line; `do ||` lexes as
  an operator; a negative literal pattern loses its sign; the parser stops at its first error.
* **Type checker.** Levels are not adjusted when variables are bound, so a `let` may generalize a
  variable of its surroundings (`unify.rs:452`); the names of or-pattern alternatives are not
  unified with each other; annotations of clauses and closures are dropped or cut to their
  outer name; `return` is not compared with the result; an `if` without `else` has the type
  of its branch; a first branch of type Never gives its type to the rest; operators on type
  variables are put off and not taken up; `++` and `<>` accept anything; indexing and
  ranges give a fresh type; a forward reference is not checked; a block opens no scope; calls
  through a bare pipe skip bounds; looking up an impl for a type that holds an unsolved
  variable, and calling a bounded function on a type parameter or one of several clauses,
  panic; which of two impls is found depends on the order of a HashMap; a function whose
  clauses are not exhaustive is warned of only.

## What is proved

Run `tlapm` on `ActorProofs.tla`, `ProcessExitProofs.tla`, `ServicesProofs.tla`,
`ContinuityProofs.tla`, `SessionProofs.tla`, `RemoteProofs.tla`, `GlobalNamesProofs.tla` and
`StorageProofs.tla`. Every theorem holds for every value of the constants that meets
the assumptions of the module it is about; one (`OnePrimary`) has a hypothesis of its own, which is
part of its statement and is explained below. Nothing else is assumed. Where a run checks a
property by the same name, the theorem states that very definition.

Where an argument needs an induction (a list of operations, a window of restarts, a
sort), it is the least-number principle on a set of numbers (`WFMin`): the set of those that fail
has no least element, so it is empty.

**`ActorProofs`: the scheduler**, for any finite set of actors, any set of workers, any kinds
of receives, with or without kills, and any bound on calls.

| theorem | says |
|---|---|
| `TypeCorrect` | phase 1 never takes the head of an empty queue, `active_count` is not decremented below zero |
| `CoroutinesStay` | `NothingIsLost`: a process that runs is one request, in one queue once, or in one worker's hands; one that has ended is in none; what is Waiting is parked |
| `StopsEmpty` | `StopIsRight`: `active_count` is exact, when a worker stops there is no coroutine and no request anywhere, and it holds nothing from then on |

`IInv` is the types, `Shape`, `OnePlace`, `ActiveCountExact` and `StoppedHoldsNothing`. The parts
need each other: the counter is exact because the coroutine that `Retire` counts down
is in one place, so it is counted once; it is a natural number because it is exact; a
queue is not empty when phase 1 takes its head because a pass visits no more than it
found (`LeftWithin`). `StopOnlyWhenDone` is an action property, for what holds when a worker
leaves need not hold later: others may spawn after it, and a request that nobody is left
to take stays where it is. A stop needs `active_count = 0`, which by the first two
parts means that no place holds anything. Most actions
move no coroutine: `UnmovedStep` deals with these at once, and `Rearranged` with those that
move one from place to place.

**`ActorProofs`: the registry**, for any sets of names and processes and any set `Loose`
of names that are unregistered (`LooseAssumption`: they are names).

| theorem | says |
|---|---|
| `NamesTypeCorrect` | the types; a cleanup always finds a set to take, if only the empty one |
| `NamesIndexed` | no name of a process is outside both its index and its cleanup |
| `MapsAgree` | what the index or a cleanup holds of a process is mapped to that process |
| `NamesStay` | the three together: `NamesAreKept`, which the run checks |
| `Implements` | `IsNameTable`: `RegistrySpec`, of the two-lock registry, implies `Spec` of `NameTable` on the names nobody unregisters |

`IndexAgrees` alone is not inductive: `CleanupRemove` deletes from `names` what it
took from the index earlier, so one must know that a name on its way out is not in
the index again; `TakenOut` says so, and
`RegistryInv == RegistryTypeOK /\ IndexAgrees /\ TakenOut` is. `NamesIndexed` needs only the types.
`Implements` uses both: the first critical
section of `cleanup_process` maps to `StartDrop`, which takes *every* name the
process owns (no name is missing from the index), the second to `Drop`, which
frees names that are still its own (no name of another process is in its hands),
and `unregister` to a stutter, for the names it touches are not part of the table.

**`ProcessExitProofs`**, for any set of processes, names and references, any programs
(which calls a behaviour may make) and any bound on kills. The sets need not be finite.

| theorem | says |
|---|---|
| `TypeCorrect` | the types, and that a call between its two locks knows whom it is about |
| `EndsTold` | `EndsAreTold`: links have two sides, an exit signal or a DOWN tells of a true end and no sooner, a monitor answers at most once (that it answers is liveness) |
| `NamesFreed` | `NamesAreFreed`: when a process is marked Exited, every name it had when its index entry was taken is free, whoever registered it; what still leads to it was registered later |

The three parts of `EndsAreTold` need three different strengthenings. *Symmetry*
speaks of processes that have not ended; what carries it through the second lock of
`mesh_actor_link` is `LinkHalf`: the caller still has its target, unless the target
has returned meanwhile. *Truth* (`ToldByTheEnd`) rests on `NewsStep`: a step adds to a
mailbox only what the end of the sender, a remote end or a noproc puts there, and an
end is for good. *Once* (`DownAtMostOnce`) is inductive only with the stages before
the mailbox: `OneMonitor` says that a reference is in one stage (watched, handed out
by the end, answered noproc, delivered), at one process, for one caller, and that an
unissued one is in none. `NamesFreed` goes through `Registry`: what is mapped to a process is in
its index entry or in the hands of its cleanup, so when that has deleted what it held, a
name that leads to the process is in a new entry. It needs no hypothesis on who
registers whom: `Process.register` takes any pid, and the run has programs that do.

**`ServicesProofs`**, for any connections on any nodes and any broadcasts
(`RoomsAssumption`: who is excepted is on the node that broadcasts), any family of children and
any limit and window (`SupervisorAssumption`), any callers and services
(`ReplyAssumption`: nobody is both), and any limit on messages (`WsAssumption`).

| theorem | says |
|---|---|
| `RoomsReach` | `RoomsReachMembers`: both tables list the same memberships, no room has one that is no longer open unless it was rejected or joined late, and, until a freed handle is written to, a member that stays is written a broadcast, once |
| `ChildrenKept` | `ChildrenAreKept`: between operations what runs is a known child, an end is heard, restarts stay within the window, beyond it nothing is left running |
| `RestartsStayInScope` | `StrategyScope`, an action property: a restart touches only what its strategy names |
| `RepliesMatchCalls` | `RepliesMatch`: a service's reply goes with its call, the first await returns its own job, nobody awaits an ended job for nothing |
| `ConversationsEnd` | `ConversationEnds`: the end of reader or actor reaches the other, `on_close` is last, a client that answers is kept |

*Rooms.* A member that stays is reached because at every moment the broadcast is, for it,
in one place (`InOnePlace`): written, in the snapshot still to be sent, or on its way to
the member's node (`OnItsWay`); that the places exclude each other gives "once".
*Supervisor.* `handle_child_exit` is a queue of operations, so the invariant speaks of what is left
of the queue: `PlanInv` (each operation is about a child that exists, what is started has been stopped before,
within the scope of the strategy), `PidsInv` (who runs is a child or about
to be linked as one, whose end is in the inbox is known) and `InWindow`, from which the rate
follows: any `MaxRestarts + 1` restarts span more than the window.
*Reply.* `ForCaller` has a part per kind of program: for one that only calls, its mailbox holds at
most the reply to the call it waits in (`Own`); for one that only starts jobs, before its first await
there is no message but of that job (`FirstAwait`). A caller that mixes both has no such
part, and the property makes no promise to it.
*WebSocket.* `HeartbeatInv` says which ping a pending payload stands for and that no pong to it
has been read; `EndIsTold` that the reader's end leaves its message; `StagesAgree` and
`NotClosedYet` how far actor and callbacks are.

**`ContinuityProofs`**, for any finite set of nodes, any keys, payloads, replica counts
and bounds, any number of crashes, cuts and promotions.

| theorem | says |
|---|---|
| `TypeCorrect` | the types of registries, messages and calls; a call past the minting of its attempt carries a record |
| `RecordsSound` | `RecordsAreSound`: every record passes `validate_record`, and its attempt is behind the next token of the registry that holds it, so no registry mints an attempt it holds (each registry by itself: ids may meet across nodes) |
| `AuthorityAdvances` | unless the node restarts its epoch never decreases and its role changes only with the epoch |
| `OnePrimary` | `OnePrimaryPerEpoch`, and one node is always primary, for two nodes that do not restart |

The proof does not go through the 24 actions once per property. Each transition
of `ContinuityRecord` has a lemma (`PutFine`, `MergeFine`, `MirroredFine`, ...) that says it is
`Fine`: it keeps a registry sound and its authority advances. `RegistryStep` says
that every step of the system changes at most one registry, by a `Fine` change whose
authority `Moves`: it stays, follows a message, or is a standby's promotion. What is
about one registry follows from that alone. `OnePrimary` relates two: `OneLeads` says
that one node leads the other (same epoch and the other a standby, or one epoch
ahead of a primary it has taken over from) and that nothing anywhere, in a record, a
message or a call, is of a later epoch than the leader's. The hypothesis is what the
documentation promises it for: one primary and one standby. With a third node two
standbys may promote at once. A restarted primary takes epoch 0 again: the theorem does not
speak of restarts, the run does, with two crashes and two promotions, and finds no epoch
with two primaries there. `NothingGoesBack` has other parts (attempts, ended records)
that are only model-checked.

**`ContinuityProofs`: clustered routes**, for any two nodes as ingress and the other, any key and
payload (`RouteAssumption`).

| theorem | says |
|---|---|
| `RouteSettled` | `RouteIsSettled`: an answered request is completed work on both nodes once the records have arrived, the nodes agree on what became of it, and none is left pending after its answer |

The ingress, the accept loop and the owner give up each in its own time, so what is invariant is not
who knows what but in which order a record may change. It has four forms (`Level`: none, submitted, completed,
rejected); a node only moves up, because `Merge` prefers the later form and a rejection stands. `Spreads`: what a
node holds the other holds too, or it is on its way there, and nothing on its way is beyond what its
sender holds. So when nothing is on its way both hold the same. `PartiesFit` and `AnswersFit` relate the three
parties to the forms: while the client waits and the handler has not run no node is beyond submitted; after a
success the owner's record is completed and nobody's is rejected; after an error one node is
beyond submitted.

**`SessionProofs`**, for any nodes, named by numbers, any set of pairs that dial and any
bounds on dials, connections and cuts (`SessionAssumption`).

| theorem | says |
|---|---|
| `SessionsKept` | `SessionsAgree`: both ends of a pair at rest use the same connection, they use one when none was cut, and the id in use leads to it |
| `LossesAreTold` | `LossIsTold`: the loss of a session that is not replaced is told once to the watchers of the node and to all who monitor its pids |

`SessionInv` says, for the end of a connection at a node, what goes with each
stage of its life (`EndFits`): whether it is current, replaced, routed by id, down, and who is asked to be told
of it. That is a table of stages, and a step moves one end along it. Two things are about more than one end.
`StrongKept`: of the connections between two nodes one is preferred by both ends, and it is neither turned
down nor replaced while nothing is cut; this is why the two ends, which decide under
different locks, keep the same one. `Balance`: of each peer, connects told are losses told and one more if
there is a session, but for the ends between the table and the event.

**`RemoteProofs`**, for any numbers of processes on two nodes, any requesters among them,
any numbers of sessions, calls and spawned processes (`RemoteAssumption`).

| theorem | says |
|---|---|
| `SpawnAnswered` | `SpawnIsAnswered`: the pid a remote spawn returns is of a process started for that requester, no two are given the same, and while the session stands the reply reaches the mailbox of the requester |

A call is in one place: not made, in the pending table and on the wire, taken by the peer,
answered on the wire back, read, or told to the requester. `CallFits` says for each
what table, wire, mailbox and the peer's processes hold of it, and `RemoteInv` that every requester has a place. It was
checked by TLC before it was proved, with two requesters at once as well (3.77 million states).
What the other signals (links, monitors, exits, messages) do to mailboxes and wires has to be shown not to
disturb this: most of the proof is that.

**`GlobalNamesProofs`**, for two nodes (`NodesAssumption`: the module is about the two ends
of a session), any names and processes, any numbers of sessions and calls.

| theorem | says |
|---|---|
| `NamesInOrder` | `NamesAgree`: the types, both reverse indexes list exactly the names, and a name of the other node leads to no process of this one |
| `FirstWriter` | `FirstWriterStands`: a name changes only by being removed first |

Again each operation of `GlobalRegistry` has a lemma (`RegisterFine`, `MergeFine`, ...) that
it is `Fine` for a replica, and `ReplicaStep` says that each step changes one replica, by one
of them. The invariant is `NamesAgree /\ Carried`: what is on the wire, to be told, or in
a snapshot being written lists a name once and is of the right type. `MergeFine` is a merge of a
whole snapshot, so it is proved without induction, from what the merged replica is.

**`StorageProofs`: the pool**, for any set of handles, any finite set of clients
(`ClientsAssumption`), any bounds with `MinConns <= MaxConns`, `MaxConns >= 1`
(`BoundsAssumption`: the clamping of `mesh_pool_open`), and a `NoConn` that is no
handle (`NoConnAssumption`).

| theorem | says |
|---|---|
| `PoolTypeCorrect` | neither unsigned counter is lowered below zero |
| `SlotsAccounted` | at most `max_conns` slots; while open, exactly the idle connections and the clients inside |
| `Exclusive` | a connection is with one client, in the idle list once, or with the closer |
| `IdleClean` | while every answer of a connection has been read, the client's status is the server's, and an idle one has no transaction open |
| `ServerBounded` | never more than `max_conns` connections open at the server |
| `CloseWakes` | nobody is left blocked once close has returned |
| `Bounded` | `SlotsAreBounded`: the types, the accounting and the server's bound |
| `Safe` | `ConnsAreSafe`: exclusive connections, clean ones as far as their answers were read, and nobody blocked after close |

The first four are one invariant, `PoolInv`, because each step of the argument uses
another part: a counter is not lowered below zero since the client that lowers it
is one of `Occupants`, whose number bounds it; the idle list keeps its type since
what is returned to it is a connection its client holds; a client that leaves a
transaction open, or an answer unread, touches no idle connection since it alone holds its
own. `StatusIsKnown` is why the test of `txn_status` in checkin is enough, and holds as long as
the client is in step with the server; after a statement has given up nothing is said.
`ServerBounded` adds two parts. `Placed`: every open connection is idle, held, or
in the hands of close. `Reserved`: the slots of what close has still to close are
counted, which is why it is right that `mesh_pool_close` empties the idle list and
does not touch the counters. The number of open connections is then bounded by
those three sets, these by the slots, and the slots by `max_conns`. `CloseWakes`
rests on `ClosedFirst`: close sets `closed` before it broadcasts, and no path of
checkout blocks once `closed` is set.

**`StorageProofs`: publishing**, for any set of requests served at once, any versions
(positive numbers in the order of semver, `VersionAssumption`) and any tarballs.

| theorem | says |
|---|---|
| `PublishTypeCorrect` | the types |
| `PublishedStands` | `VersionsStand`: a listed version has its tarball and keeps it, who was told CREATED finds its own there, the package names the greatest |

The argument is the lock of the package row: a request is inside `insert_version` exactly while
it holds it (`LockHeld`), so what it read there, that the version is not listed and which is
the greatest, is so when it commits (`Current`). `LatestIsGreatest` compares with a maximum
that exists only if the set has one; `LatestLeads` says which element it is, and is inductive.

**`StorageProofs`: the client**, for any modes of TLS and any numbers of statements,
messages and timeouts (`PgBoundsAssumption`).

| theorem | says |
|---|---|
| `StatementsKeepTheirAnswers` | `StatementsAnswered`: the connection is up only when granted; until a read has given up, a statement returns its own answer, the client knows the server's status between statements, and a transaction that returned Err has left nothing |

The client tells answers apart only by the message that ends each, so what has to be
invariant is what is still to be read. `Conversation` says it: nothing when the client is idle, and otherwise the
rest of exactly one answer, a good or a bad one, or a statement the server has still to read. `Standing` says where the transaction stands at the server for each point
of `mesh_pg_transaction`, and `Undone` that what was rolled back is in no table. All three hold while no read has timed out
(`Orderly`); after the first timeout they are false, as listed above.

**`StorageProofs`: migrations**, for any versions (`VersionsAssumption`: positive numbers,
as `generate_migration` makes them) and any numbers of commands and cuts.

| theorem | says |
|---|---|
| `MigrationsTold` | `MigrationsAreTold`: the tracking table tells what the database has, all of a migration or nothing, but for those whose last run failed, perhaps half way, or was cut before its row; a command runs in order and stops at its first failure |
| `UpAppliesEveryFile` | `UpAppliesAll`, an action property: an up that goes through leaves no file unapplied |

`MigrationInv` relates what a command has still to do with the table: `Before`, an up has before it all that is
not applied; `Told`, table and schema differ only in what failed or was cut (`untold`) and in the migration in hand.
A command begins by sorting the files. `SortedInOrder` shows that any finite set of versions can be sorted, and that the
sort has each of them.

**`StorageProofs`: the heap**, for any number of blocks, any sizes and any number of steps
(`HeapAssumption`).

| theorem | says |
|---|---|
| `HeapStaysSound` | `HeapIsSound`: between collections every block is in the list of objects or in the free list, once, the one its FREE bit says, nothing is marked, and what the program can reach is never in the free list |

The lists exist only as pointers, so `HeapInv` says that three sequences exist that the pointers thread
(`Threaded`): free blocks, kept blocks, and what is still to be swept. Between collections the
last is the list of objects; during a sweep the kept blocks end where the rest begins, `prev` is the
last of them and `newhead` the first, and this is why the sweep may unlink in place. What an operation does to a list has a
lemma each: a block in front (`LedCons`), at the end (`LedSnoc`), unlinked anywhere (`LedRemove`), the end
turned to another block (`LedTurn`); `LedUnique` says that the pointers thread one list only, by the
least place where two would differ. *Reachable* is a least fixed point, and the proof needs no more than one closed set: `Traced`
names it, the list of objects when the program runs, what is marked or kept in a sweep, and
during the mark all is closed but the blocks in the worklist. The counter `total_allocated`
is not part of this: it is a sum over a list, and it is not the bytes of the objects, as listed above.

## What is only model-checked

* **Liveness** (`ShutdownCompletes`, `NobodyStarves`, `WatchersHear`): temporal reasoning under
  fairness needs `ENABLED`, which the prover does not have.
* **The compiler**: its modules are recursive functions of trees (`RECURSIVE` operators), so
  what they compute is checked by TLC over bounded programs; induction over data is
  out of reach, and so are modules with such operators. `Syntax`, `Typing`, `Deriving`,
  `BasicBlocks`, `DecisionTree`, `Exhaustive` and the library's tables are of this kind.
* **Query building** (`ParametersBind`) and **message assembly** (`ConversationIsWhole`): the first
  compares folds over lists of clauses, the second counts frames with `SelectSeq` and
  `SetToSortSeq`: inductions over data again.
* **Continuity**: `OwnersAgree` and the parts of `NothingGoesBack` about attempts and
  ended records. They relate the replicas of a record to calls and messages in
  flight; some hold only under conditions on who submits and who restarts, which are
  part of their statement (see the table of refuted formulas for what happens
  without them).
* **Peers** (`PeersMeet`): whether two nodes that only know each other by name connect
  depends on who dials whom; TLC checks it for the mesh of three.

## What is not modelled, and why

`PROJECT.json` lists every component with its reason. In short:

* the lexer, the formatter and the language server: tools over text and tree without
  state of their own that outlives a request;
* the type checker's fields, actors, imports, overloads, methods, and the structs, sums,
  interfaces and impls a program declares: `Inference` has the impls the compiler knows;
* the rest of lowering and of the generator: layouts of values, names of symbols, LLVM;
* the wire format and the rows of drivers: encodings. SQLite: a library behind an FFI;
* discovery, bootstrap, the HTTP client and router, the operator's queries, the command
  line and package resolution: I/O around calls that are modelled, or reads only;
* web sites, examples, scripts and benchmarks: not the program.

## Plan

What is left, in this order:

1. A proof of `OwnersAgree` of `Continuity`, under its conditions.
2. `Continuity` with three nodes and two keys.
3. `Inference`: structs, sums, interfaces and impls that the program declares.
4. The lexer's modes, and idempotence of the formatter over the trees of `Grammar`.
