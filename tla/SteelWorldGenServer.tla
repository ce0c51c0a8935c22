------------------------ MODULE SteelWorldGenServer ------------------------
(***************************************************************************)
(* The Java client (SteelWorldGenServer.java) in the mode in which it owns *)
(* the steel-provider process: chunk requests over the ConnectionPool, the *)
(* restart of a process that died with the one retry it allows, and close. *)
(*                                                                         *)
(* Requests run without a lock.  restart and close run under restartLock,  *)
(* against the requests and against each other.  A client of an external   *)
(* server has the pool and nothing else of this.                           *)
(***************************************************************************)
EXTENDS ConnectionPool

CONSTANTS
    Free, Closer,   \* restartLock is free, or held by close
    MaxProcesses,   \* bound on the processes of a behaviour
    Cooldown,       \* RESTART_COOLDOWN_MS, in ticks
    Uptime          \* what nanoTime shows at first, in ticks up to the cooldown

ASSUME ClientAssumption ==
    /\ Free \notin Threads /\ Closer \notin Threads /\ Free # Closer
    /\ MaxProcesses \in Nat \ {0}
    /\ Cooldown \in Nat /\ Uptime \in 0..Cooldown

VARIABLES
    call,         \* where each thread is in requestChunk, outside the pool
    attempt,      \* attempt
    answered,     \* the reply to each thread's request is in its channel
    cause,        \* why each thread's attempt failed; the code does not know
    peer,         \* the process at the other end of each channel
    process,      \* process: the last one spawned
    state,        \* the state of each process
    restartLock,  \* who holds restartLock
    closed,       \* closed
    closer,       \* where close is
    elapsed       \* nanoTime() - lastRestartNanos in ticks, counted up to the cooldown

callVars == <<call, attempt, answered, cause>>
processVars == <<process, state>>
lockVars == <<restartLock, closed, closer>>
clientVars == <<callVars, peer, processVars, lockVars, elapsed>>
allVars == <<poolVars, clientVars>>

Processes == 1..MaxProcesses
ProcessState == {"unborn", "starting", "listening", "dead"}

Running(p) == state[p] \in {"starting", "listening"}

ClientTypeOK ==
    /\ TypeOK
    /\ call \in [Threads -> {"idle", "request", "done", "failed", "enter",
                             "restart", "wait", "stop"}]
    /\ attempt \in [Threads -> 0..1]
    /\ answered \in [Threads -> BOOLEAN]
    /\ cause \in [Threads -> {"none", "died", "other"}]
    /\ peer \in [Channels -> Processes]
    /\ process \in Processes
    /\ state \in [Processes -> ProcessState]
    /\ restartLock \in Threads \cup {Free, Closer}
    /\ closed \in BOOLEAN
    /\ closer \in {"off", "closing", "stop", "done"}
    /\ elapsed \in 0..Cooldown

\* The constructor has started the first process and reached it; lastRestartNanos
\* is 0.
ClientInit ==
    /\ Init
    /\ call = [t \in Threads |-> "idle"]
    /\ attempt = [t \in Threads |-> 0]
    /\ answered = [t \in Threads |-> FALSE]
    /\ cause = [t \in Threads |-> "none"]
    /\ peer = [c \in Channels |-> 1]
    /\ process = 1
    /\ state = [p \in Processes |-> IF p = 1 THEN "listening" ELSE "unborn"]
    /\ restartLock = Free
    /\ closed = FALSE
    /\ closer = "off"
    /\ elapsed = Uptime

CallGoto(t, from, to) == call[t] = from /\ call' = [call EXCEPT ![t] = to]

----------------------------------------------------------------------------
(***************************************************************************)
(* requestChunk                                                            *)
(***************************************************************************)

\* A turn of the loop over attempt.
Try(t, n) ==
    /\ attempt' = [attempt EXCEPT ![t] = n]
    /\ cause' = [cause EXCEPT ![t] = "none"]

\* The call returns or throws.
Leave(t, from) ==
    /\ CallGoto(t, from, "idle")
    /\ Try(t, 0)

\* The channel of a request is read to its reply's end or is discarded.
Consume(t) == answered' = [answered EXCEPT ![t] = FALSE]

\* A closed client refuses the call.
RequestChunk(t) ==
    /\ CallGoto(t, "idle", "request")
    /\ ~closed
    /\ UNCHANGED <<poolVars, attempt, answered, cause, peer, processVars, lockVars, elapsed>>

\* The steps of borrow, release and discard that only touch the pool.
PoolOnly(t) ==
    /\ call[t] \in {"request", "done", "failed"}
    /\ \/ call[t] = "request" /\ Acquire(t)
       \/ PollIdle(t) \/ PollEmpty(t) \/ ReuseOpen(t) \/ DropStale(t) \/ AddOpened(t)
       \/ GiveBack(t)
    /\ UNCHANGED clientVars

\* Interrupted while it waits for a permit.
AcquireInterrupted(t) ==
    /\ CallGoto(t, "request", "failed")
    /\ pc[t] = "out"
    /\ cause' = [cause EXCEPT ![t] = "other"]
    /\ UNCHANGED <<poolVars, attempt, answered, peer, processVars, lockVars, elapsed>>

\* All processes listen on the same path, one after the other.
Connect(t) ==
    /\ state[process] = "listening"
    /\ OpenOk(t)
    /\ peer' = [peer EXCEPT ![nextChannel] = process]
    /\ UNCHANGED <<callVars, processVars, lockVars, elapsed>>

FailedBecause(t, died) ==
    /\ CallGoto(t, "request", "failed")
    /\ cause' = [cause EXCEPT ![t] = IF died THEN "died" ELSE "other"]

ConnectFails(t) ==
    /\ OpenFails(t)
    /\ FailedBecause(t, state[process] = "dead")
    /\ UNCHANGED <<attempt, answered, peer, processVars, lockVars, elapsed>>

\* The server has read the request and its whole reply is under way.
ServerAnswers(t) ==
    /\ pc[t] = "using" /\ call[t] = "request"
    /\ chan[t] \in open /\ state[peer[chan[t]]] = "listening"
    /\ answered' = [answered EXCEPT ![t] = TRUE]
    /\ UNCHANGED <<poolVars, call, attempt, cause, peer, processVars, lockVars, elapsed>>

Receive(t) ==
    /\ answered[t]
    /\ RequestOk(t)
    /\ CallGoto(t, "request", "done")
    /\ Consume(t)
    /\ UNCHANGED <<attempt, cause, peer, processVars, lockVars, elapsed>>

\* Mutant of RequestBreaks: the channel is given back instead of discarded.
RequestBreaksReleased(t) ==
    /\ Goto(t, "using", "release")
    /\ FailedBecause(t, state[peer[chan[t]]] = "dead" /\ ~answered[t])
    /\ Consume(t)
    /\ UNCHANGED <<permits, idle, all, open, chan, nextChannel, closing, toClose>>
    /\ UNCHANGED <<attempt, peer, processVars, lockVars, elapsed>>

\* The process died, the channel was closed, the reply is an error, or the
\* thread was interrupted.
RequestBreaks(t) ==
    /\ RequestFails(t)
    /\ FailedBecause(t, state[peer[chan[t]]] = "dead" /\ ~answered[t])
    /\ Consume(t)
    /\ UNCHANGED <<attempt, peer, processVars, lockVars, elapsed>>

Return(t) ==
    /\ pc[t] = "out"
    /\ Leave(t, "done")
    /\ UNCHANGED <<poolVars, answered, peer, processVars, lockVars, elapsed>>

\* Mutant of GiveUpOrRestart: the catch clause restarts before it discards.
RestartBeforeDiscard(t) ==
    /\ IF attempt[t] = 0 /\ ~Running(process)
       THEN CallGoto(t, "failed", "enter") /\ UNCHANGED <<attempt, cause>>
       ELSE pc[t] = "out" /\ Leave(t, "failed")
    /\ UNCHANGED <<poolVars, answered, peer, processVars, lockVars, elapsed>>

\* The catch clause once the channel is discarded: only the first attempt of
\* a call whose process is dead by now goes on to restart; others throw.
GiveUpOrRestart(t) ==
    /\ pc[t] = "out"
    /\ IF attempt[t] = 0 /\ ~Running(process)
       THEN CallGoto(t, "failed", "enter") /\ UNCHANGED <<attempt, cause>>
       ELSE Leave(t, "failed")
    /\ UNCHANGED <<poolVars, answered, peer, processVars, lockVars, elapsed>>

----------------------------------------------------------------------------
(***************************************************************************)
(* restart, under restartLock                                              *)
(***************************************************************************)

TooRecent == elapsed < Cooldown

\* Thrown to the caller: the client is closed, or the cooldown has not passed.
RestartRefused(t) ==
    /\ Leave(t, "enter")
    /\ restartLock = Free
    /\ closed \/ (~Running(process) /\ TooRecent)
    /\ UNCHANGED <<poolVars, answered, peer, processVars, lockVars, elapsed>>

\* Another thread already brought the process back.
RestartNotNeeded(t) ==
    /\ CallGoto(t, "enter", "request")
    /\ restartLock = Free
    /\ ~closed /\ Running(process)
    /\ Try(t, 1)
    /\ UNCHANGED <<poolVars, answered, peer, processVars, lockVars, elapsed>>

\* Mutant of RestartBegins: the lock is taken after the last look at isAlive.
RestartBeginsUnchecked(t) ==
    /\ CallGoto(t, "enter", "restart")
    /\ restartLock = Free /\ restartLock' = t
    /\ ~closed /\ ~TooRecent
    /\ elapsed' = 0
    /\ CloseAll
    /\ UNCHANGED <<attempt, answered, cause, peer, processVars, closed, closer>>

\* Mutant of RestartBegins: closed is not looked at again.
RestartBeginsClosed(t) ==
    /\ CallGoto(t, "enter", "restart")
    /\ restartLock = Free /\ restartLock' = t
    /\ ~Running(process) /\ ~TooRecent
    /\ elapsed' = 0
    /\ CloseAll
    /\ UNCHANGED <<attempt, answered, cause, peer, processVars, closed, closer>>

RestartBegins(t) ==
    /\ CallGoto(t, "enter", "restart")
    /\ restartLock = Free /\ restartLock' = t
    /\ ~closed /\ ~Running(process) /\ ~TooRecent
    /\ elapsed' = 0
    /\ CloseAll
    /\ UNCHANGED <<attempt, answered, cause, peer, processVars, closed, closer>>

Unlock == restartLock' = Free /\ UNCHANGED <<closed, closer>>

\* spawn, once closeAll has come to its end.
Spawn(t) ==
    /\ CallGoto(t, "restart", "wait")
    /\ closing = "off"
    /\ process < MaxProcesses
    /\ process' = process + 1
    /\ state' = [state EXCEPT ![process'] = "starting"]
    /\ UNCHANGED <<poolVars, attempt, answered, cause, peer, lockVars, elapsed>>

SpawnFails(t) ==
    /\ Leave(t, "restart")
    /\ closing = "off"
    /\ Unlock
    /\ UNCHANGED <<poolVars, answered, peer, processVars, elapsed>>

\* waitForSocket reached the process: the call goes on with its second attempt.
SocketReady(t) ==
    /\ state[process] = "listening"
    /\ CallGoto(t, "wait", "request")
    /\ Try(t, 1)
    /\ Unlock
    /\ UNCHANGED <<poolVars, answered, peer, processVars, elapsed>>

\* Mutant of StartupFails: waitForSocket has no deadline.
StartupFailsIfDead(t) ==
    /\ state[process] = "dead"
    /\ CallGoto(t, "wait", "stop")
    /\ UNCHANGED <<poolVars, attempt, answered, cause, peer, processVars, lockVars, elapsed>>

\* The process exited, did not listen in time, or the thread was interrupted.
StartupFails(t) ==
    /\ CallGoto(t, "wait", "stop")
    /\ UNCHANGED <<poolVars, attempt, answered, cause, peer, processVars, lockVars, elapsed>>

\* stopProcess: the process is gone when it returns.
Stop == state' = [state EXCEPT ![process] = "dead"]

StopStarted(t) ==
    /\ Leave(t, "stop")
    /\ Stop
    /\ Unlock
    /\ UNCHANGED <<poolVars, answered, peer, process, elapsed>>

----------------------------------------------------------------------------
(***************************************************************************)
(* close, of a user or of the shutdown hook; a second one returns at once  *)
(***************************************************************************)

CloserGoto(from, to) == closer = from /\ closer' = to

Close ==
    /\ CloserGoto("off", "closing")
    /\ restartLock = Free /\ restartLock' = Closer
    /\ closed' = TRUE
    /\ CloseAll
    /\ UNCHANGED <<callVars, peer, processVars, elapsed>>

\* Mutant of ClosePool: the calls under way are waited for, under the lock.
ClosePoolAfterCalls ==
    /\ CloserGoto("closing", "stop")
    /\ closing = "off"
    /\ \A t \in Threads : call[t] = "idle"
    /\ UNCHANGED <<poolVars, callVars, peer, processVars, restartLock, closed, elapsed>>

ClosePool ==
    /\ CloserGoto("closing", "stop")
    /\ closing = "off"
    /\ UNCHANGED <<poolVars, callVars, peer, processVars, restartLock, closed, elapsed>>

\* Mutant of CloseReturns: the process is left to end by itself.
CloseReturnsUnstopped ==
    /\ CloserGoto("stop", "done")
    /\ restartLock' = Free
    /\ UNCHANGED <<poolVars, callVars, peer, processVars, closed, elapsed>>

\* stopProcess and deleteSocket.
CloseReturns ==
    /\ CloserGoto("stop", "done")
    /\ Stop
    /\ restartLock' = Free
    /\ UNCHANGED <<poolVars, callVars, peer, process, closed, elapsed>>

\* The rest of closeAll, whoever called it.
CloseAllRuns ==
    /\ CloseOne \/ CloseEnd \/ ClearAll \/ ClearIdle
    /\ UNCHANGED clientVars

----------------------------------------------------------------------------
(***************************************************************************)
(* The steel-provider process (main.rs), and time                          *)
(***************************************************************************)

Listen ==
    /\ state[process] = "starting"
    /\ state' = [state EXCEPT ![process] = "listening"]
    /\ UNCHANGED <<poolVars, callVars, peer, process, lockVars, elapsed>>

Crash ==
    /\ Running(process)
    /\ state' = [state EXCEPT ![process] = "dead"]
    /\ UNCHANGED <<poolVars, callVars, peer, process, lockVars, elapsed>>

\* Only restart reads the clock, under restartLock, so it is enough that time
\* passes before a call that is about to take the lock.
Tick ==
    /\ restartLock = Free /\ \E t \in Threads : call[t] = "enter"
    /\ TooRecent
    /\ elapsed' = elapsed + 1
    /\ UNCHANGED <<poolVars, callVars, peer, processVars, lockVars>>

----------------------------------------------------------------------------

Attempt(t) ==
    \/ PoolOnly(t) \/ Connect(t) \/ ConnectFails(t) \/ Receive(t) \/ RequestBreaks(t)
    \/ Return(t) \/ GiveUpOrRestart(t)

EnterRestart(t) == RestartRefused(t) \/ RestartNotNeeded(t) \/ RestartBegins(t)

Restart(t) ==
    Spawn(t) \/ SpawnFails(t) \/ SocketReady(t) \/ StartupFails(t) \/ StopStarted(t)

CloseStep == ClosePool \/ CloseReturns

ClientNext ==
    \/ \E t \in Threads :
         \/ RequestChunk(t) \/ AcquireInterrupted(t) \/ ServerAnswers(t)
         \/ Attempt(t) \/ EnterRestart(t) \/ Restart(t)
    \/ Close \/ CloseStep \/ CloseAllRuns
    \/ Listen \/ Crash \/ Tick

\* Threads run on.  A thread that waits for a permit or for restartLock gets
\* it when it is free again and again: neither is fair, so this is assumed.
\* Reading a reply ends because the server answers every request or dies;
\* startup ends by its timeout.
ClientFairness ==
    /\ \A t \in Threads :
         /\ SF_allVars(Attempt(t))
         /\ SF_allVars(EnterRestart(t))
         /\ WF_allVars(Restart(t))
    /\ WF_allVars(CloseAllRuns)
    /\ WF_allVars(CloseStep)

ClientSpec == ClientInit /\ [][ClientNext]_allVars /\ ClientFairness

----------------------------------------------------------------------------

\* SteelWorldGenServer.java:213-246: however many threads see a process die,
\* and whatever close does meanwhile, one process runs at a time; two would
\* fight for the socket path.
OneProcess ==
    \A p, q \in Processes : Running(p) /\ Running(q) => p = q

\* SteelWorldGenServer.java:161-176 and 220: once close has returned, no
\* process runs and no late failure of a request starts another.
NothingAfterClose ==
    closer = "done" => \A p \in Processes : ~Running(p)

\* SteelWorldGenServer.java:134-158: every call of requestChunk comes back,
\* although it may wait for permits, for restartLock and for a new process.
CallsReturn == \A t \in Threads : call[t] = "request" ~> call[t] = "idle"

\* SteelWorldGenServer.java:161-176: close comes to its end, whatever calls
\* are doing on the channels it closes.
CloseCompletes == closer = "closing" ~> closer = "done"

\* SteelWorldGenServer.java:144-152 and 219: a permit is in the hands of a call
\* that is at an attempt.  A call that waits for restartLock, restarts under it
\* or has returned holds none, so calls that wait for a permit never wait for a
\* restart or for close.
NoHoldAndWait ==
    \A t \in Threads : HoldsPermit(t) => call[t] \in {"request", "done", "failed"}

\* The client, as its process sees it.
Service ==
    CASE closer = "off" -> "open"
      [] closer \in {"closing", "stop"} -> "closing"
      [] closer = "done" -> "closed"

Super == INSTANCE Supervisor WITH
    count <- process, life <- state[process], service <- Service

\* SteelWorldGenServer.java:161-176 and 218-246: calls that fail, threads that
\* queue for restartLock and a close among them amount to one supervised
\* process, whose start and whose end both come about.
ImplementsSupervisor == Super!SuperSpec

\* The comment of requestChunk (SteelWorldGenServer.java:138): "If the request
\* fails because an owned process died, restart it and retry once", so the
\* first attempt of a call does not throw for that reason.
DiedMeansRetry ==
    [][\A t \in Threads :
         call[t] = "failed" /\ attempt[t] = 0 /\ cause[t] = "died" => call'[t] # "idle"]_allVars
=============================================================================
