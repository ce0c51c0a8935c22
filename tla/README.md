# SteelWorldGen in TLA+

Specifications, TLC runs and TLAPS proofs for SteelWorldGen: the Rust server
`steel-provider`, which generates Minecraft chunks with SteelMC, and the Java
client that starts it, talks to it and restarts it.

Source paths below are relative to the repository. `requests.rs`, `lib.rs`,
`main.rs`, `transport.rs` and `bin/bench.rs` are those of `steel-provider/src`,
`build.rs` is that of `steel-provider`, `harness.rs` that of `benchmark/src`; the
Java files are those of `java-client/bridge`, but for the two of the Minestom
provider, which are in `java-client/minestom`.

## The system

| Part | State | Operations | Hard about it |
| --- | --- | --- | --- |
| Request coordinator (`requests.rs`) | `active`, `retired` under a mutex; `next_id`, `inflight` atomics; one ticket handle per request | `request`, `prune`, `begin`, `end`, `wake`, `idle`, `wait` | any number of threads at any step; the two lock sections and what lies between; panics that leave `request` half done; wrapping coordinates |
| Worldgen context (`lib.rs`) | driver thread, `driver_stop`, chunk map, runtime | `new`, driver loop, `generate_with_structures`, `Drop` | the wake-up and the wait of the driver, the order of `Drop` against running tasks |
| Provider server (`main.rs`, `transport.rs`) | context cache in a mutex, one thread per connection, sweeper | `accept`, `handle_connection`, `get_or_create_context`, sweep | lock poisoning, eviction against use, one reply per request on every path |
| Connection pool (`ConnectionPool.java`) | semaphore, idle queue, set of all channels | `borrow`, `release`, `discard`, `closeAll` | no lock of its own; `closeAll` against everything |
| Client (`SteelWorldGenServer.java`) | process, `restartLock`, `closed`, `lastRestartNanos` | `requestChunk`, `restart`, `close` | crash and retry, several threads seeing one crash, close against requests |
| Minestom provider (`SteelWorldGenProvider.java`, `SteelWorldGenerator.java`) | a static server under a lock | `startServer`, `useServer`, `setServer`, `getGenerator`, `closeServer` | a read outside the lock |
| Socket file (`main.rs`, `transport.rs`, `SteelWorldGenServer.java`) | one path in the file system | `remove_file`, `bind`, `SocketFileGuard`, `deleteSocket` | successive processes and the client share it; a process that leaves late removes what it finds |
| Data version translation (`build.rs`, `lib.rs`) | two tables | table construction, palette remapping | totality of the tables; three parties that number biomes, each by its own sorted list |
| Chunk pipeline (`lib.rs`) | the sections of the shared world, a private copy | `clone_from_chunk`, `serialize_chunk_sections` | the copy takes one lock per section while other threads make the world decorate |
| Benchmarks (`bin/bench.rs`, `benchmark/`, `demo`) | a shared counter; a child process and its output | workers, `run_trial`, `kill_tree`, `trial_order` | markers, termination and end of output racing; a worker that panics |

How they interact: a client thread borrows a channel, writes a request and
reads one reply; the server's handler of that channel finds or creates the
context of the world and calls it; the context's coordinator asks steel-core's
chunk map, which the context's driver thread keeps going; the reply goes back.
The sweeper takes contexts away, `restart` takes the whole server away and
brings another at the same socket path. What goes back is a copy of the chunk,
translated to the client's data version, which the Minestom generator reads with
a table of its own. The benchmark calls the context without a server in between,
and the harness follows its output. steel-core itself is not part of the repository.

Correctness, part by part: the coordinator's live count, active list and
tickets agree with what its callers are doing, and no ticket near a request in
flight is released; a context brings every request back and leaves no task
behind; the server has one context per world, never evicts one in use and
replies once to every request; the pool loses no permit and shares no channel;
the client runs one process at a time and none after `close`, and the file at
its path is that of the process that serves; a served chunk has all decorations
and the client's IDs; the Minestom provider closes every server it made; a
benchmark that is reported generated every chunk once.

## Modules

| Module | Models | Main correspondence |
| --- | --- | --- |
| `Regions` | `region_of`, `regions_overlap` | machine integers `-MaxInt-1..MaxInt` with `Wrap`; `Near` is the distance the test is meant to decide |
| `RequestCoordinator` | `RequestCoordinator::request` with `DriverSignal`'s count, `generate_with_structures` | `pc[t]` is a thread's place between two shared accesses; `active`, `retired`, `inflight`, `nextId` are the fields; `handle[i]` is what became of a ticket |
| `WorldgenContext` | driver loop, `wait`/`wake`, `Drop` | extends the coordinator; `driver` and `lifecycle` are places in the two functions; `work` and `refill` stand for steel-core's tasks |
| `WireProtocol` | abstract: what a server promises on its connections | a connection is closed, idle, pending or answered; `WireSafety` is the protocol, `WireSpec` adds that every request is answered |
| `ProviderServer` | `serve`, `handle_connection`, `get_or_create_context`, sweeper | `lock`/`poisoned` is the cache's mutex, `cache`/`age` its entries, `keyOf` which contexts exist, `dropping` the `Drop`s the sweeper runs under the lock |
| `ConnectionPool` | `borrow`, `release`, `discard`, `closeAll` | one action per access to the semaphore, the queue, the set or a channel's state |
| `Supervisor` | abstract: what the client promises of the process it owns | processes started so far, the life of the last one, the client open, closing or closed; no threads, locks or connections |
| `SteelWorldGenServer` | `requestChunk`, `restart`, `close` | extends the pool; `call[t]` is a thread's place outside the pool, `state[p]` the life of each spawned process |
| `SocketFile` | `main` of the server as far as it touches the file, `SocketFileGuard`, `deleteSocket` | extends the client; `file` is the process whose socket the path leads to, `stage[p]` a process's place in `main` |
| `Translation` | `build.rs`, `remap_block_states`, `remap_biomes`, the lookup of biomes in `SteelWorldGenerator` | constant operators; `Builds` is what the build does not panic on |
| `ChunkPipeline` | `generate_with_structures`, `clone_from_chunk`, `serialize_chunk_sections` | extends the translation; `decorated` is steel-core's world, `copy[t]` the private sections of a thread, `stage[t]` its place |
| `Benchmark` | `bin/bench.rs`, `run_trial` for it | extends the pipeline; `next`, `done`, `sum` are the program's counters, `out` its output not yet read, `status` the process, `trial` the harness's place |
| `MinestomProvider` | `SteelWorldGenProvider`, the class initialization of `SteelWorldGenerator` | extends the translation; `server` and `lock` are the static fields, `life[s]` each client's state, `snapshot` the biomes in the static table |

`WorldgenContext` composes the coordinator with its driver: its steps are the
coordinator's, in the company of the driver's, so what is proved of the coordinator
holds of it by construction. `SteelWorldGenServer` composes the pool with the client,
whose run checks that the pool's specification, fairness included, is implemented. `SocketFile` composes that client with the
server processes it starts, and `FileKeepsClient` proves that it adds nothing to
what the client does. `Benchmark` composes the chunk pipeline of several threads
with the program and with the harness. `ProviderServer` is shown to implement
`WireProtocol` under a refinement mapping (`Stage`, at the end of the module), and
`SteelWorldGenServer` to implement `Supervisor` (`Service`, likewise): its crashes,
its failing calls and its queue at `restartLock` come down to one process that is
replaced only when it is dead and the client open, and that `close` ends for good.
Each `MC` module gives the constants of its component small values. Each
`...Proofs` module holds the theorems of its component (those of `Regions` are in
`RequestCoordinatorProofs`, those of `SocketFile` in `SteelWorldGenServerProofs`,
those of `ChunkPipeline` in `BenchmarkProofs`).

In every component a few definitions are preceded by one called a mutant of
it: the same definition with one plausible bug. No specification uses them;
with the mutant in the place of the original, TLC finds a property violated,
which is how we know that the property depends on the code it is about.

### What is abstracted

- steel-core's chunk map: a pending request may be answered at any time
  (`RequestCoordinator`), or after `Stages` scheduling stages (`WorldgenContext`).
  It may cancel, or be too late, as `Failures` allows. Chunks have no content
  there; in `ChunkPipeline`, where they have, a request is ready once its square
  is decorated, which is what the coordinator's poll loop waits for.
- `WorldgenContext::new` and the thread pools: one initial state.
- In `ProviderServer` a context is an identity; the request inside it is one
  step that takes up to `RequestTicks`. The server's clock counts sweeper
  intervals; that a request's 60 seconds end before the idle timeout's 5
  minutes is the assumption `RequestTicks < IdleTicks`.
- Messages are whole requests and whole replies. A handler that loses its peer
  in the middle of one closes the connection, which `Eof` and `WriteFails` are.
- In `ConnectionPool` a thread's request succeeds only on an open channel and
  may always fail. The iteration of `closeAll` is that of a concurrent set: it
  meets every channel present from start to end and may or may not meet one
  added meanwhile.
- `SteelWorldGenServer` is the client that owns its process, its constructor
  having returned. A client of an external server uses the pool and nothing else
  of the module. `stopProcess` ends with the process gone; a thread interrupted
  in it kills the process without waiting, which is taken as the same.
  `elapsed` is the time since the last restart, counted up to the cooldown; it
  moves on where `restart` is about to read the clock, the only place that does.
- `ChunkPipeline`: the blocks of a section are any function of the decorated
  chunks of its square (the constant `Blocks`), biomes do not change; chunks
  outside the instance's `Chunks` are left out of a square. Blocks and biomes use
  the same `Cells`, though a section has 4096 of the one and 64 of the other. A
  palette is what `finalize_building` makes of its cells.
- A block state is its name, the pair of block and property string; a biome key
  is a number. The chains of jar, JSON and generated source are the tables.
- `Benchmark`: a chunk has sections, so the workers' assertion holds. The reader
  threads of the harness are part of the queue `out`; a sample can always be
  taken before the child is reaped; `kill_tree` meets the program alone, which
  starts no process.
- `MinestomProvider`: a client is open or closed. What the generator does with
  the sections it has received is copying.

## Runs

| Run | Instance | Question and answer |
| --- | --- | --- |
| `coordinator` | 3 threads, 3 requests, 4 chunks, 8-bit coordinates, cancel and timeout | live count and active list are exact, each held ticket has one owner, neighbours stay retained, tickets are released only in traffic |
| `context` | 2 threads, 2 requests, 2 chunks, 2 stages | chunks are copied after all stages; requests return; the driver rests after a burst; `Drop` ends and leaves no task |
| `pool` | 3 threads, 2 permits, 3 channels, `closeAll` at any time | permits conserved and returned, queue never full for a working channel, channels exclusive, open ones kept but at `closeAll`'s clearing |
| `server` | 2 connections, 2 worlds, 3 context identities, idle timeout 2 ticks | one context per world, none evicted in use, idle ones evicted; implements `WireProtocol` |
| `client` (`MCSocketFile`) | 2 threads, 2 connections, 2 channels, 3 processes, cooldown of 1 tick | one process at a time, none after `close`; who waits for `restartLock` holds no permit; the file is that of the process that serves, none is left |
| `client_live` | 2 threads, 1 connection, 2 channels, 2 processes | implements `ConnectionPool` and `Supervisor`; calls return; `close` completes |
| `bench` | 2 workers, 9 chunks of 2 sections, 3 block states, 3 biomes | chunks served as generated and translated; positions taken once; trials end with the right verdict |
| `minestom` | 2 callers, 2 servers to make, 1 given, 3 custom biomes | no server lost; a generator without a server only after a close; biomes right but after an earlier custom one |
| `coordinator_quiet` | as `coordinator`, cancel only | violated: see below |
| `context_cadence` | as `context`, no failures | violated: see below |
| `pool_orphans` | as `pool` | violated: see below |
| `client_retry` | as `client`, 2 processes | violated: see below |

Why the bounds are enough to mean something. In `coordinator` the margin is the
code's 11 and integers have eight bits, so the four chunks cover: two at the
largest distance that still overlaps, one a single chunk out of reach, one
whose region wraps. Three threads are the smallest number in which a finishing
request can prune the ticket of a second because of a third. In `pool` threads
outnumber permits, and one channel more than permits lets a stale one be
replaced; `PermitsReturn` would fail as soon as a single path kept a permit. In
`server` the idle timeout is one tick longer than a request, the closest the
assumption allows, and the spare context identity keeps creation from waiting
for a `Drop`. In `client` a third process is needed to see that a second thread
that noticed the same crash does not start another one over the second, and a
tick lets it past the cooldown; with `SocketFile` two successors
also mean that a late guard would meet a newer file, had it survived. `bench` has
a center whose square is whole and eight chunks whose squares are not, a section
that changes from homogeneous to heterogeneous with its last decoration and one
that is heterogeneous in its biomes only, a state that the client numbers first
and a biome that it numbers in between; two workers are the fewest that can race
for the counter, and one may panic while the other goes on. In `minestom` the
custom biomes lie before, between and after the client's own, and the two servers
to make let one be lost behind the other. `client_live` has a single
connection so that a call really waits for a permit. The channel, request
and process limits bound a behaviour's length, not who may interleave
with whom. Deadlock is not checked: a behaviour at its bound has nothing left
to do, and a server without requests is idle by design.

### Fairness

- `context`: callers run on once in a call, the driver thread runs, queued work
  is started and ends, a `Drop` that began continues: threads of the operating
  system and of a pool. Nobody has to call, cancel, expire or drop. The timed
  wait makes `DriverTimeout` part of the driver's own steps; with an untimed
  wait `RequestsReturn` fails.
- `server`: strong fairness for a handler at the cache mutex and for the
  sweeper, since neither Rust's mutex nor the operating system promises an
  order but both let a waiter through eventually; strong fairness of time, which
  only stops at a request that used up its timeout. A peer owes no request, but it
  reads its replies or goes away: a `write_all` that blocks for ever on a peer that
  does neither is not modelled.
- `bench`: the program's threads run on, a worker's request ends because it
  becomes ready or its deadline passes (`WorkerPanics` is a step of its own), and
  the harness reads on. Nobody has to send a signal, and steel-core owes nothing.
- `pool`, `client_live`: a thread inside a call goes on. Java's semaphore here
  is not fair and neither is a monitor, so that a waiter is not passed over for
  ever is an assumption of `CallsReturn`. A read ends because the server replies
  to every request (`ImplementsWire`) or dies.

### What the violated runs show

- `coordinator_quiet` (`requests.rs:135`). A cancelled request panics without
  `end()` and without leaving `active`. The live count never reaches zero again,
  so the driver keeps its 1 ms cadence for ever, and the ghost region keeps
  retired tickets near it. The timeout path calls `end()` and leaves the ghost.
  `InflightExact` and `ActiveExact` say exactly what is left behind, and that
  nothing else is.
- `context_cadence` (`lib.rs:193`). `idle()` and `wait()` are two steps and
  `begin()` does not take the mutex, so the first wake-up can be lost. The timed
  wait bounds the harm to 100 ms.
- `pool_orphans` (`ConnectionPool.java:91`). A channel that is opened, or given
  back, while `closeAll` runs can end up open and in no collection.
- `client_retry` (`SteelWorldGenServer.java:150`). Whether a call is retried
  depends on `isAlive()` when its thread looks, not on why it failed: of two
  calls that fail on one crash, the slower one throws once the faster one has
  restarted the process.

Noticed and not turned into a run: the comment at `SteelWorldGenServer.java:216`
says that requests in flight keep their connections across a restart, while
`closeAll` closes borrowed channels too; `lastRestartNanos` starts at 0, which
`System.nanoTime` need not exceed by the cooldown at the first restart, so that it
may be refused (as in `client`, whose clock starts at 0). `bin/bench.rs:115` says that the
harness ends the program by SIGTERM, while `kill_tree` sends SIGKILL; the verdict
of a trial does not depend on it. `setServer` with the server that is registered
already closes it and registers the closed one, which is why `MadeAreOpen`
speaks of servers that the provider made.

## Proofs

All theorems hold for every value of the constants that the named assumptions
allow. The runs check the properties among them on the instances above, with two
exceptions that are proved only: the type invariants of all modules but the server's, and `PoisonIsFinal`.

- `RequestCoordinatorProofs`. From `RegionsAssumption` (the margin is small
  against the integer range): away from the border the overlap test is true if
  and only if two chunks are within `2 * margin + 2` on both axes
  (`OverlapIsNear`); of two chunks that near, it is false as soon as one of them is at
  the border, on either end of either axis (`BorderLosesNeighbours`), so that `prune`
  gives up tickets it ought to keep there (`BorderPrunesNeighbours`). The inductive invariant `CoordinatorInv` adds to
  the properties that ids of threads differ and lie below `nextId`, that a
  handle's state fits its thread's place, and that each entry carries its
  request's own region. `ActiveExact` and `TicketsOwned` are not inductive
  without it: a finishing thread could otherwise remove another's entry. From it
  follow type correctness, `ActiveExact`, `TicketsOwned` (no ticket with two owners, none
  held without one) and, with `OverlapIsNear`, the
  action property `NeighboursRetained`. `InflightExact` needs cardinalities: each
  step that changes the count adds or removes one element of one of two sets.
  `ReleasesNeedTraffic` shows what the early return of `prune` means: an entry that
  keeps `prune` going belongs to another request under way or to one that
  panicked. `QuietLeavesLost` and `QuietUnlessPanicked` turn the finding of
  `coordinator_quiet` round: what panics left is all that is ever left, and without
  them the comments are true.
- `WorldgenContextProofs`. Every step of the context is a step of the
  coordinator or leaves it alone, so the coordinator's theorems carry over.
  `NoTaskOutlives` uses an invariant that says which steps of `Drop` have
  happened at each stage of it. `ContextTypeCorrect` needs that a request whose
  work is still to come has stages left (`StagesLeft`). `ReadsFindAllStages` goes on
  from there: an answer is given with the last stage and nothing works on an
  answered request, so its stages stay done while its ticket is retired, pruned and
  gone (`AnswersKept`). `DropIsAlone`: no thread is in a request while `Drop` runs.
- `ConnectionPoolProofs`. `PoolInv` joins the properties with the fact that no
  channel number is used twice. The two counting properties go action by action
  over the sets of threads that hold a permit or a slot. A slot is held from the
  moment a channel is about to be opened until it is closed, so `IdleHasRoom` bounds
  the queue and everything that may still be offered to it. `ConnectionsAreKept` and
  `OrphansNeedCloseAll` delimit the finding of `pool_orphans`: without the clearing
  in `closeAll` no open channel is lost, and at most `MaxConnections` are open.
- `ProviderServerProofs`. `ServerInv` says what is true of a handler in each
  place, of the lock, and of each context: that it is cached for its key or being
  dropped. `OneContextPerKey` needs all three: creation relies on the key missing
  from the cache while the lock is held, and eviction on nobody using an entry
  that old, which is `age[k] <= busy[c]`. A process that has ended is left out.
  `PoisonStaysFinal`: a poisoned cache admits no handler, no creation and no
  eviction any more. `ServerKeepsWire` proves the safety part of `ImplementsWire`: every step is one of
  the protocol's on one connection, the end of all of them, or invisible; it needs
  that a handler carries a request and a reply exactly between two reads
  (`FramesInStep`) and that what a context generates is what was asked for, which
  is `ServerInv`. `ContextsAreFew` counts contexts by the injection into the worlds
  that `OneContextPerKey` is; the same count shows that the bound `CtxIds` of the
  model cuts no behaviour off (`CreationHasIdentity`).
- `SteelWorldGenServerProofs`. Every step of the client is a pool step or leaves
  the pool alone, so `PoolInv` carries over. `LockInv` says who holds
  `restartLock`, that a thread about to spawn has seen the process dead, and that
  `closed` shuts the door for good. For the file, every step of `SocketFile` is a
  step of the client or leaves it alone; the two file properties are inductive
  together with `LockInv`: at most one process runs, so one that removes or binds
  the file, or drops its guard, meets no other that serves, and after `close` none
  runs that could bind. `ClientSupervises` proves the safety part of
  `ImplementsSupervisor` from `LockInv`: a process is started by the holder of the
  lock, on a dead one, with `closed` unset, and `close` gets the lock only when no
  start is under way. `WaitersHoldNothing` follows from where in the pool a thread can
  be, given where its call is (`CallInPool`); with the pool's counting it also gives
  that all permits are back when no call is under way.
- `TranslationProofs`. For any two versions that the build accepts, by counting:
  the checks on the IDs of the older version leave room for neither a gap nor a
  pair of states with one ID, so the table keeps names although nothing in
  `build.rs` looks for duplicates (`BlockStatesKeepNames`). For biomes, ranks in a
  finite set of keys determine the key. `build.rs:130` casts a rank to `u16` without
  looking: whatever the sizes, an entry is the rank in the newer version if and only
  if that rank fits (`BiomesKeepRanks`). That the newer version's biomes can be counted
  with a `u16` is a hypothesis, `BiomesFit`, and nothing the build checks; under it the
  table maps ranks to ranks and keeps their order (`BiomesStayInOrder`), and the client
  shows a served biome as itself if and only if nothing foreign in its registry sorts
  before it (`BiomeShown`). The pipeline and the Minestom provider assume `BiomesFit` of
  their version. `SecondRemap` says what a second call of
  `serialize_chunk_sections` on one chunk would do.
- `BenchmarkProofs`. The invariant of the pipeline says that a thread between
  `Ready` and `served` has its whole square decorated, so that later decorations
  cannot change what it copies, and what the copied sections are. The invariant of
  the program ties `next` to the indices taken, generated or given up, and `sum`
  to the sets of the workers joined; the assertion of `main` follows by counting
  disjoint subsets of `0..Total - 1`. The trial's verdict follows from the order of
  the lines in `out`. `ServedBiomesAreShown` joins the pipeline to the client's table:
  a served cell is shown with the biome generated there if and only if no biome of
  the client's registry alone sorts before it.
- `MinestomProviderProofs`. The lock's holder is the caller in a locked place
  (`LockHeld`), every open server of the provider's making is registered
  (`MadeTracked`), a caller after `startServer` that has seen no clearing finds a
  server (`GettersServed`), and the registry only grows; `BiomesAreShown` rests on
  `BiomeShown`.

Only model-checked: all liveness (`RequestsReturn`, `DriverRests`, `DropCompletes`,
`PermitsReturn`, `IdleIsEvicted`, `CallsReturn`, `CloseCompletes`, `TrialEnds`), and the
fairness part of three refinements: `ImplementsWire`, `ImplementsSupervisor` and
`Spec` in `client_live`. Their safety parts are the theorems `ServerKeepsWire`,
`ClientSupervises` and `ClientUsesPool`. Liveness under fairness is out of the
prover's reach; every invariant and every action property of the runs is proved.

## Not modelled

- steel-core, tokio, rayon, the operating system's sockets.
- The bytes of a section, which steel-core writes and Minestom reads.
- `parse_endpoint` and `isTcpEndpoint`, TCP listeners, clients of an external
  server beyond their pool.
- The Fabric servers of the harness, its sampling, `trial_order`; the demo.
- Debug builds, where the sums of `regions_overlap` panic at the border.
- Java `Error`s (out of memory in the middle of a request).
- Downloads, provisioning, process sampling, reports, the Gradle build.

## Plan

Done, in this order: `Regions`, `RequestCoordinator`, `WorldgenContext`,
`ConnectionPool`, `WireProtocol` with `ProviderServer`, `Supervisor` with
`SteelWorldGenServer`,
`Translation`, `ChunkPipeline`, `Benchmark`, `MinestomProvider`, `SocketFile`,
each with its proofs.

Next:

1. Endpoint classification on both sides (`parse_endpoint`, `isTcpEndpoint`)
   against one definition of a `host:port`.
2. The idle queue after a restart: which channels of the dead process a later
   request may still meet.
3. `trial_order`, and the Fabric servers' side of `run_trial`.
