--------------------------- MODULE WorldgenContext ---------------------------
(***************************************************************************)
(* One WorldgenContext (steel-provider/src/lib.rs): the callers of         *)
(* RequestCoordinator together with the scheduling driver thread, its      *)
(* DriverSignal, the generation tasks of the chunk map and the Drop that   *)
(* takes everything down in order.                                         *)
(*                                                                         *)
(* The chunk map is steel-core's and external.  What the code relies on:   *)
(* tick_game queues the next stage of work of every live ticket, a refill  *)
(* loop starts queued work on the generation pool, and a request is ready  *)
(* once all its stages are done.  Work that runs outlives its ticket.      *)
(***************************************************************************)
EXTENDS RequestCoordinator

CONSTANT Stages   \* stages of scheduling one request needs

ASSUME StagesAssumption == Stages \in Nat \ {0}

VARIABLES
    driver,       \* where the driver thread is in its loop
    driverStop,   \* driver_stop
    lifecycle,    \* how far Drop has come
    refill,       \* whether the chunk map's generation refill loop runs
    work,         \* the task of each request: none, queued or running
    stagesDone    \* stages of each request's work that are done

contextVars == <<driver, driverStop, lifecycle, refill, work, stagesDone>>
allVars == <<vars, contextVars>>

Driver == {"loop", "tick", "check", "wait", "waiting", "sleep", "stopped"}
Lifecycle == {"alive", "join", "stopRefill", "drain", "dropped"}
Work == {"none", "queued", "running"}

ContextTypeOK ==
    /\ TypeOK
    /\ driver \in Driver
    /\ driverStop \in BOOLEAN
    /\ lifecycle \in Lifecycle
    /\ refill \in BOOLEAN
    /\ work \in [Ids -> Work]
    /\ stagesDone \in [Ids -> 0..Stages]

ContextInit ==
    /\ Init
    /\ driver = "loop"
    /\ driverStop = FALSE
    /\ lifecycle = "alive"
    /\ refill = TRUE
    /\ work = [i \in Ids |-> "none"]
    /\ stagesDone = [i \in Ids |-> 0]

----------------------------------------------------------------------------
(***************************************************************************)
(* Callers.  They hold the context through an Arc, so no call starts once  *)
(* Drop runs and Drop does not start while a call is under way.            *)
(***************************************************************************)

CallContext(t) ==
    /\ lifecycle = "alive"
    /\ Call(t)
    /\ UNCHANGED contextVars

\* notify_one under the mutex: it reaches the driver only if the driver is
\* already parked in the wait.
WakeDriver(t) ==
    /\ Wake(t)
    /\ driver' = IF driver = "waiting" THEN "loop" ELSE driver
    /\ UNCHANGED <<driverStop, lifecycle, refill, work, stagesDone>>

RequestStep(t) ==
    /\ \/ Register(t) \/ Issue(t) \/ Begin(t)
       \/ PollReady(t) \/ PollCancelled(t)
       \/ End(t) \/ Finish(t) \/ Read(t)
    /\ UNCHANGED contextVars

RequestExpires(t) ==
    /\ PollExpired(t)
    /\ UNCHANGED contextVars

----------------------------------------------------------------------------
(***************************************************************************)
(* The driver thread.                                                      *)
(***************************************************************************)

DriverGoto(from, to) == driver = from /\ driver' = to

DriverLoop ==
    /\ DriverGoto("loop", IF driverStop THEN "stopped" ELSE "tick")
    /\ UNCHANGED <<vars, driverStop, lifecycle, refill, work, stagesDone>>

\* World::chunk_map.tick_game.
DriverTick ==
    /\ DriverGoto("tick", "check")
    /\ work' = [i \in Ids |-> IF handle[i] = "pending" /\ work[i] = "none"
                              THEN "queued" ELSE work[i]]
    /\ UNCHANGED <<vars, driverStop, lifecycle, refill, stagesDone>>

\* DriverSignal::idle, read without the mutex of the wait.
DriverCheck ==
    /\ DriverGoto("check", IF inflight = 0 THEN "wait" ELSE "sleep")
    /\ UNCHANGED <<vars, driverStop, lifecycle, refill, work, stagesDone>>

DriverPark ==
    /\ DriverGoto("wait", "waiting")
    /\ UNCHANGED <<vars, driverStop, lifecycle, refill, work, stagesDone>>

\* Mutant of DriverTimeout: only a notification ends the wait.
DriverUntimedWait ==
    /\ FALSE
    /\ UNCHANGED allVars

\* The wait is timed (100 ms) and may also return spuriously.
DriverTimeout ==
    /\ DriverGoto("waiting", "loop")
    /\ UNCHANGED <<vars, driverStop, lifecycle, refill, work, stagesDone>>

\* The 1 ms cadence while a request is live.
DriverSlept ==
    /\ DriverGoto("sleep", "loop")
    /\ UNCHANGED <<vars, driverStop, lifecycle, refill, work, stagesDone>>

DriverStep ==
    DriverLoop \/ DriverTick \/ DriverCheck \/ DriverPark \/ DriverTimeout \/ DriverSlept

----------------------------------------------------------------------------
(***************************************************************************)
(* The chunk map's refill loop and generation pool (external).             *)
(***************************************************************************)

StartTask(i) ==
    /\ refill
    /\ work[i] = "queued"
    /\ work' = [work EXCEPT ![i] = "running"]
    /\ UNCHANGED <<vars, driver, driverStop, lifecycle, refill, stagesDone>>

\* The last stage makes a request that is still pending ready.
FinishTask(i) ==
    /\ work[i] = "running"
    /\ work' = [work EXCEPT ![i] = "none"]
    /\ stagesDone' = [stagesDone EXCEPT ![i] = @ + 1]
    /\ IF stagesDone'[i] = Stages /\ handle[i] = "pending"
       THEN Generated(i)
       ELSE UNCHANGED vars
    /\ UNCHANGED <<driver, driverStop, lifecycle, refill>>

CancelRequest(i) ==
    /\ Cancel(i)
    /\ UNCHANGED contextVars

----------------------------------------------------------------------------
(***************************************************************************)
(* impl Drop for WorldgenContext.  The fields go last: the retired tickets *)
(* of the coordinator with it, then the world.                             *)
(***************************************************************************)

LifecycleGoto(from, to) == lifecycle = from /\ lifecycle' = to

\* Mutant of DropContext: the driver is joined before it is told to stop.
DropContextUnflagged ==
    /\ LifecycleGoto("alive", "join")
    /\ \A t \in Threads : pc[t] = "idle"
    /\ UNCHANGED <<vars, driver, driverStop, refill, work, stagesDone>>

DropContext ==
    /\ LifecycleGoto("alive", "join")
    /\ \A t \in Threads : pc[t] = "idle"
    /\ driverStop' = TRUE
    /\ UNCHANGED <<vars, driver, refill, work, stagesDone>>

JoinDriver ==
    /\ LifecycleGoto("join", "stopRefill")
    /\ driver = "stopped"
    /\ UNCHANGED <<vars, driver, driverStop, refill, work, stagesDone>>

\* stop_generation_refill_loop, then the task tracker is closed.
StopRefill ==
    /\ LifecycleGoto("stopRefill", "drain")
    /\ refill' = FALSE
    /\ UNCHANGED <<vars, driver, driverStop, work, stagesDone>>

\* Mutant of Drain: the tracker is closed and not waited for.
DrainUnwaited ==
    /\ LifecycleGoto("drain", "dropped")
    /\ UNCHANGED <<vars, driver, driverStop, refill, work, stagesDone>>

\* The tracker's wait is over once no task runs.
Drain ==
    /\ LifecycleGoto("drain", "dropped")
    /\ \A i \in Ids : work[i] # "running"
    /\ UNCHANGED <<vars, driver, driverStop, refill, work, stagesDone>>

Drop == DropContext \/ JoinDriver \/ StopRefill \/ Drain

----------------------------------------------------------------------------

Caller(t) == CallContext(t) \/ WakeDriver(t) \/ RequestStep(t) \/ RequestExpires(t)

Generation == \E i \in Ids : StartTask(i) \/ FinishTask(i) \/ CancelRequest(i)

ContextNext == (\E t \in Threads : Caller(t)) \/ DriverStep \/ Generation \/ Drop

\* Threads that are in a call run on; the driver thread runs; queued work is
\* started and ends.  Nobody is obliged to call, to cancel, to let a deadline
\* pass or to drop the context, but a Drop that began continues.
Fairness ==
    /\ \A t \in Threads : WF_allVars(WakeDriver(t) \/ RequestStep(t))
    /\ WF_allVars(DriverStep)
    /\ \A i \in Ids : WF_allVars(StartTask(i)) /\ WF_allVars(FinishTask(i))
    /\ WF_allVars(JoinDriver \/ StopRefill \/ Drain)

ContextSpec == ContextInit /\ [][ContextNext]_allVars /\ Fairness

----------------------------------------------------------------------------

\* lib.rs:274-277: no generation task runs, or can still be started, once the
\* world is dropped, although tasks of expired and cancelled requests outlive
\* their callers.
NoTaskOutlivesWorld ==
    lifecycle = "dropped" =>
        /\ driver = "stopped"
        /\ ~refill
        /\ \A i \in Ids : work[i] # "running"

\* requests.rs:131-163 and lib.rs:228-234: whatever expires, is cancelled or is
\* worked on without a caller meanwhile, a thread that comes out of the wait and
\* copies its chunk holds a request all of whose stages are done.
ReadsAreComplete ==
    \A t \in Threads :
        pc[t] \in {"end", "finish", "read"} => stagesDone[req[t].id] = Stages

\* requests.rs:116: every call of request comes back.  The wake-up of the
\* first request can be lost between idle() and wait(); the call still comes
\* back because the wait of an idle driver is timed.
RequestsReturn == \A t \in Threads : pc[t] = "register" ~> pc[t] = "idle"

\* requests.rs:20-22 and lib.rs:190-198: the driver "sleeps long when idle so it
\* burns no CPU between bursts".  After every burst, with calls that came back and
\* calls that expired at any stage of their work, it reaches the long wait unless
\* another call comes first.  A cancelled request is the exception: its panic
\* leaves the count up.
DriverRests ==
    (\A t \in Threads : pc[t] = "idle") /\ (\A i \in Ids : handle[i] # "failed")
        ~> driver \in {"waiting", "stopped"} \/ \E t \in Threads : pc[t] # "idle"

\* lib.rs:278-287: a Drop that began ends; nothing wakes the driver for it.
DropCompletes == lifecycle = "join" ~> lifecycle = "dropped"

\* The comment of DriverSignal (requests.rs:20-22): the driver "advances
\* scheduling on a fixed cadence while any request is live", so it is not in
\* the long wait once a request is live and has done its wake-up.
CadenceWhileLive ==
    (\E t \in Threads : pc[t] = "poll") /\ (\A t \in Threads : pc[t] # "wake")
        => driver # "waiting"
=============================================================================
