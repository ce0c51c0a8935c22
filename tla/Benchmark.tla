----------------------------- MODULE Benchmark -----------------------------
(***************************************************************************)
(* A trial of the provider benchmark: the program bin/bench.rs, whose      *)
(* workers share a counter of positions and use the context at the same    *)
(* time, and run_trial of the harness, which starts it, follows its output *)
(* and kills it at the end marker (benchmark/src/harness.rs).              *)
(*                                                                         *)
(* A worker's place is the stage of its chunk while worker[w] = "work".    *)
(***************************************************************************)
EXTENDS ChunkPipeline

CONSTANTS
    Workers,  \* WORKERS
    Side      \* PREGEN_SIZE

Half == Side \div 2
Total == Side * Side

\* positions[i]: rows of dz, dx running fastest.
PositionAt(i) == [x |-> (i % Side) - Half, z |-> (i \div Side) - Half]

ASSUME BenchmarkAssumption ==
    /\ Workers \in Nat \ {0} /\ Threads = 1..Workers
    /\ Side \in Nat /\ Side % 2 = 1 /\ Total \in Nat
    /\ \A i \in 0..Total - 1 : PositionAt(i) \in Chunks

VARIABLES
    next,       \* next: the counter of the workers
    worker,     \* where each worker is
    taken,      \* i: the index each worker last got
    done,       \* done of each worker
    generated,  \* the indices each worker has generated, for the properties
    main,       \* where main is
    joined,     \* how many workers main has joined
    sum,        \* done of main
    oneShot,    \* BENCH_EXIT_AFTER is set
    status,     \* of the process
    out,        \* marker lines the harness has not read
    started,    \* benchmark_start is set
    trial       \* where run_trial is, or what it has returned

workerVars == <<next, worker, taken, done, generated>>
mainVars == <<main, joined, sum, oneShot>>
trialVars == <<started, trial>>
benchVars == <<pipelineVars, workerVars, mainVars, status, out, trialVars>>

BenchmarkTypeOK ==
    /\ PipelineTypeOK
    /\ next \in 0..Total + Workers
    /\ worker \in [Threads -> {"fetch", "work", "finished", "panicked"}]
    /\ taken \in [Threads -> Nat]
    /\ done \in [Threads -> 0..Total]
    /\ generated \in [Threads -> SUBSET (0..Total - 1)]
    /\ main \in {"setup", "join", "stay"}
    /\ joined \in 0..Workers
    /\ sum \in 0..Total
    /\ oneShot \in BOOLEAN
    /\ status \in {"running", "zero", "panic", "killed"}
    /\ out \in Seq({"start", "end"})
    /\ started \in BOOLEAN
    /\ trial \in {"reading", "terminated", "disconnected", "ok", "error"}

BenchmarkInit ==
    /\ target = [w \in Threads |-> PositionAt(0)]
    /\ PipelineInit
    /\ next = 0
    /\ worker = [w \in Threads |-> "fetch"]
    /\ taken = [w \in Threads |-> 0]
    /\ done = [w \in Threads |-> 0]
    /\ generated = [w \in Threads |-> {}]
    /\ main = "setup"
    /\ joined = 0
    /\ sum = 0
    /\ oneShot \in BOOLEAN
    /\ status = "running"
    /\ out = <<>>
    /\ started = FALSE
    /\ trial = "reading"

Exit(code) == status' = code

----------------------------------------------------------------------------
(***************************************************************************)
(* The workers of bench.rs                                                 *)
(***************************************************************************)

WorkerGoto(w, from, to) == worker[w] = from /\ worker' = [worker EXCEPT ![w] = to]

\* Mutant of FetchAdd: a load and a store, between which another may store.
FetchAddTorn == next' \in {next, next + 1}

FetchAdd == next' = next + 1

Fetch(w) ==
    /\ FetchAdd
    /\ IF next < Total
       THEN /\ WorkerGoto(w, "fetch", "work")
            /\ taken' = [taken EXCEPT ![w] = next]
            /\ Request(w, PositionAt(next))
       ELSE /\ WorkerGoto(w, "fetch", "finished")
            /\ UNCHANGED <<taken, pipelineVars>>
    /\ UNCHANGED <<done, generated, mainVars, status, out, trialVars>>

Generate(w) ==
    /\ Ready(w) \/ CloneSection(w) \/ Serialize(w)
    /\ UNCHANGED <<workerVars, mainVars, status, out, trialVars>>

WorkerPanics(w) ==
    /\ Panics(w)
    /\ WorkerGoto(w, "work", "panicked")
    /\ UNCHANGED <<next, taken, done, generated, mainVars, status, out, trialVars>>

\* The chunk has sections, so the assertion on it holds.
Count(w) ==
    /\ WorkerGoto(w, "work", "fetch")
    /\ StageGoto(w, "served", "idle")
    /\ done' = [done EXCEPT ![w] = @ + 1]
    /\ generated' = [generated EXCEPT ![w] = @ \cup {taken[w]}]
    /\ UNCHANGED <<target, decorated, copy, next, taken, mainVars, status, out, trialVars>>

SteelCore ==
    /\ \E d \in Chunks : Decorate(d)
    /\ UNCHANGED <<workerVars, mainVars, status, out, trialVars>>

WorkerStep(w) == Fetch(w) \/ Generate(w) \/ WorkerPanics(w) \/ Count(w)

----------------------------------------------------------------------------
(***************************************************************************)
(* main of bench.rs                                                        *)
(***************************************************************************)

MainGoto(from, to) == main = from /\ main' = to

Announce ==
    /\ MainGoto("setup", "join")
    /\ out' = Append(out, "start")
    /\ UNCHANGED <<pipelineVars, workerVars, joined, sum, oneShot, status, trialVars>>

\* Mutant of Join: a worker that panicked is counted and passed over.
JoinLenient ==
    /\ main = "join" /\ joined < Workers
    /\ worker[joined + 1] \in {"finished", "panicked"}
    /\ joined' = joined + 1
    /\ sum' = sum + done[joined + 1]
    /\ UNCHANGED <<pipelineVars, workerVars, main, oneShot, status, out, trialVars>>

\* join().expect of the workers in the order in which they were spawned.
Join ==
    /\ main = "join" /\ joined < Workers
    /\ \/ /\ worker[joined + 1] = "finished"
          /\ joined' = joined + 1
          /\ sum' = sum + done[joined + 1]
          /\ UNCHANGED status
       \/ /\ worker[joined + 1] = "panicked"
          /\ Exit("panic")
          /\ UNCHANGED <<joined, sum>>
    /\ UNCHANGED <<pipelineVars, workerVars, main, oneShot, out, trialVars>>

\* assert_eq!(done, total), then the end marker.
Report ==
    /\ joined = Workers
    /\ IF sum = Total
       THEN MainGoto("join", "stay") /\ out' = Append(out, "end") /\ UNCHANGED status
       ELSE main = "join" /\ Exit("panic") /\ UNCHANGED <<main, out>>
    /\ UNCHANGED <<pipelineVars, workerVars, joined, sum, oneShot, trialVars>>

\* Otherwise main sleeps until a signal comes.
ExitAfter ==
    /\ main = "stay" /\ oneShot
    /\ Exit("zero")
    /\ UNCHANGED <<pipelineVars, workerVars, mainVars, out, trialVars>>

\* handle_sigterm, for anybody's signal.
Sigterm ==
    /\ Exit("zero")
    /\ UNCHANGED <<pipelineVars, workerVars, mainVars, out, trialVars>>

MainStep == Announce \/ Join \/ Report \/ ExitAfter

\* A process that has ended takes no step.
ProcessStep ==
    /\ status = "running"
    /\ \/ MainStep \/ SteelCore \/ Sigterm
       \/ main # "setup" /\ \E w \in Threads : WorkerStep(w)

----------------------------------------------------------------------------
(***************************************************************************)
(* run_trial                                                               *)
(***************************************************************************)

\* kill_tree; the child is not reaped before the loop has ended.
Kill == status' = IF status = "running" THEN "killed" ELSE status

ReadLine ==
    /\ trial = "reading" /\ out # <<>>
    /\ out' = Tail(out)
    /\ \/ Head(out) = "start" /\ started' = TRUE /\ UNCHANGED <<trial, status>>
       \/ Head(out) = "end" /\ trial' = "terminated" /\ Kill /\ UNCHANGED started
    /\ UNCHANGED <<pipelineVars, workerVars, mainVars>>

\* Mutant of OutputEnds: the child's exit is looked at before the rest of its output.
OutputEndsAtExit ==
    /\ trial = "reading" /\ trial' = "disconnected"
    /\ status # "running"
    /\ UNCHANGED <<pipelineVars, workerVars, mainVars, status, out, started>>

\* Mutant of OutputEnds: the end of the output is taken for a timeout of recv.
OutputEndsIgnored ==
    /\ trial = "reading" /\ status # "running" /\ out = <<>>
    /\ UNCHANGED benchVars

\* Both readers have met the end of their stream, and every line is read.
OutputEnds ==
    /\ trial = "reading" /\ trial' = "disconnected"
    /\ status # "running" /\ out = <<>>
    /\ UNCHANGED <<pipelineVars, workerVars, mainVars, status, out, started>>

\* Mutant of Reap: the process's status alone decides.
ReapStatus ==
    /\ trial \in {"terminated", "disconnected"} /\ status # "running"
    /\ trial' = IF status = "zero" THEN "ok" ELSE "error"
    /\ UNCHANGED <<pipelineVars, workerVars, mainVars, status, out, started>>

\* wait, and the result: the process ended well or was killed by us, and both
\* markers were seen.  CPU samples exist: a child can be sampled until reaped.
Reap ==
    /\ trial \in {"terminated", "disconnected"} /\ status # "running"
    /\ trial' = IF /\ status = "zero" \/ trial = "terminated"
                   /\ started /\ trial = "terminated"
                THEN "ok" ELSE "error"
    /\ UNCHANGED <<pipelineVars, workerVars, mainVars, status, out, started>>

TrialStep == ReadLine \/ OutputEnds \/ Reap

----------------------------------------------------------------------------

BenchmarkNext == ProcessStep \/ TrialStep

\* The process's threads and the harness run on.  A request ends, because it
\* becomes ready or its deadline passes.
BenchmarkFairness ==
    /\ \A w \in Threads : WF_benchVars(status = "running" /\ main # "setup" /\ WorkerStep(w))
    /\ WF_benchVars(status = "running" /\ MainStep)
    /\ WF_benchVars(TrialStep)

BenchmarkSpec == BenchmarkInit /\ [][BenchmarkNext]_benchVars /\ BenchmarkFairness

----------------------------------------------------------------------------

\* bench.rs:62-66: however the workers' steps on the shared counter interleave,
\* no position is generated by two workers or twice by one, which would count it
\* twice, and none that is being worked on was generated before or is in the hands
\* of another worker.
PositionsOnce ==
    /\ \A v, w \in Threads :
         v # w => /\ generated[v] \cap generated[w] = {}
                  /\ worker[v] = "work" /\ worker[w] = "work" => taken[v] # taken[w]
    /\ \A v, w \in Threads : worker[v] = "work" => taken[v] \notin generated[w]
    /\ \A w \in Threads : done[w] = Cardinality(generated[w])

\* bench.rs:82-86: once every worker is joined the assertion on their counts
\* holds; a worker that gave up its position never gets the program so far.
AssertHolds == joined = Workers => sum = Total

\* harness.rs:520-609: a trial that is reported measured every chunk of the
\* square, and its process is gone.
TrialSound ==
    trial = "ok" =>
        /\ status # "running"
        /\ UNION {generated[w] : w \in Threads} = 0..Total - 1

\* harness.rs:520-609: an end marker is never lost, also when the process ends
\* by itself right after it: only a benchmark that did not finish is an error.
ResultNotLost == trial = "error" => main # "stay"

\* harness.rs:520-609: a trial comes to its end, whatever becomes of its
\* process; in particular it never waits for a child that nobody stops.
TrialEnds == <>(trial \in {"ok", "error"})
=============================================================================
