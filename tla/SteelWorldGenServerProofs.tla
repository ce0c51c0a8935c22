--------------------- MODULE SteelWorldGenServerProofs ---------------------
(***************************************************************************)
(* Theorems about SteelWorldGenServer: its requests, restart and close use *)
(* the pool as ConnectionPool says, and never run two processes; and about *)
(* SocketFile: the processes do not take the file from each other.         *)
(***************************************************************************)
EXTENDS SocketFile, ConnectionPoolProofs

\* Every step of the client is a step of the pool or leaves it alone.
LEMMA ClientIsPool ==
    /\ ClientInit => Init
    /\ [ClientNext]_allVars => [Next]_poolVars
<1>0. ClientInit => Init  BY DEF ClientInit
<1> SUFFICES ASSUME [ClientNext]_allVars PROVE [Next]_poolVars  BY <1>0
<1>1. ASSUME NEW t \in Threads, PoolOnly(t)
      PROVE  Next
  BY <1>1 DEF PoolOnly, Next, PoolStep, Borrow
<1>2. ASSUME NEW t \in Threads,
             Connect(t) \/ ConnectFails(t) \/ Receive(t) \/ RequestBreaks(t)
      PROVE  Next
  BY <1>2 DEF Connect, ConnectFails, Receive, RequestBreaks, Next, PoolStep, Borrow
<1>3. ASSUME NEW t \in Threads,
             \/ RequestChunk(t) \/ AcquireInterrupted(t) \/ ServerAnswers(t)
             \/ Return(t) \/ GiveUpOrRestart(t)
      PROVE  UNCHANGED poolVars
  BY <1>3 DEF RequestChunk, AcquireInterrupted, ServerAnswers, Return, GiveUpOrRestart
<1>4. ASSUME NEW t \in Threads, EnterRestart(t)
      PROVE  [Next]_poolVars
  BY <1>4 DEF EnterRestart, RestartRefused, RestartNotNeeded, RestartBegins, Next,
              CloseAllStep
<1>5. ASSUME NEW t \in Threads, Restart(t)
      PROVE  UNCHANGED poolVars
  BY <1>5 DEF Restart, Spawn, SpawnFails, SocketReady, StartupFails, StopStarted
<1>6. CASE Close \/ CloseStep \/ CloseAllRuns
  BY <1>6 DEF Close, CloseStep, ClosePool, CloseReturns, CloseAllRuns, Next, CloseAllStep
<1>7. CASE Listen \/ Crash \/ Tick
  BY <1>7 DEF Listen, Crash, Tick
<1>8. CASE UNCHANGED allVars  BY <1>8 DEF allVars
<1>9. QED BY <1>1, <1>2, <1>3, <1>4, <1>5, <1>6, <1>7, <1>8 DEF ClientNext, Attempt

\* SteelWorldGenServer.java:134-246: every step of the client is a step of the
\* pool or leaves it alone.
THEOREM ClientUsesPool == ClientSpec => Init /\ [][Next]_poolVars
BY ClientIsPool, PTL DEF ClientSpec

\* ConnectionPool.java:43-84: through retries, restarts and close, no permit
\* is lost, no two requests share a channel, no working channel is refused, and
\* none is lost but by closeAll.
THEOREM ClientKeepsPool ==
    ClientSpec => /\ [](PermitsConserved /\ IdleHasRoom /\ ChannelsExclusive)
                  /\ ConnectionsKept
<1>1. PoolInv => PermitsConserved /\ IdleHasRoom /\ ChannelsExclusive  BY DEF PoolInv
<1>2. QED BY <1>1, ClientUsesPool, PoolSafety, ConnectionsAreKept, PTL

----------------------------------------------------------------------------

\* A thread that is in the part of restart that holds the lock.
InRestart(t) == call[t] \in {"restart", "wait", "stop"}

\* The inductive invariant: who holds restartLock, and which processes may run.
LockInv ==
    /\ process \in Processes
    /\ state \in [Processes -> ProcessState]
    /\ call \in [Threads -> {"idle", "request", "done", "failed", "enter",
                             "restart", "wait", "stop"}]
    /\ closer \in {"off", "closing", "stop", "done"}
    /\ \A t \in Threads : InRestart(t) => restartLock = t
    /\ closer \in {"closing", "stop"} <=> restartLock = Closer
    /\ closed <=> closer # "off"
    /\ \A t \in Threads : call[t] = "restart" => ~Running(process)
    /\ \A p \in Processes : Running(p) => p = process
    /\ closer = "done" => ~Running(process) /\ restartLock = Free

LEMMA CallStep ==
    ASSUME LockInv, NEW t \in Threads,
           \/ RequestChunk(t) \/ AcquireInterrupted(t) \/ ServerAnswers(t) \/ Attempt(t)
    PROVE  LockInv'
<1>1. /\ UNCHANGED <<processVars, lockVars>>
      /\ \A u \in Threads \ {t} : call'[u] = call[u]
      /\ call' \in [Threads -> {"idle", "request", "done", "failed", "enter",
                                "restart", "wait", "stop"}]
      /\ call'[t] = call[t] \/ ~InRestart(t)'
  BY DEF LockInv, InRestart, RequestChunk, AcquireInterrupted, ServerAnswers, Attempt,
         PoolOnly, Connect, ConnectFails, Receive, RequestBreaks, Return, GiveUpOrRestart,
         FailedBecause, Leave, CallGoto, callVars, clientVars
<1>2. QED BY <1>1 DEF LockInv, InRestart, Running, processVars, lockVars

LEMMA EnterStep ==
    ASSUME LockInv, NEW t \in Threads, EnterRestart(t)
    PROVE  LockInv'
<1> USE DEF LockInv, InRestart, Running, processVars, lockVars
<1>0. Free # Closer /\ Closer \notin Threads /\ Free \notin Threads  BY ClientAssumption
<1>1. CASE RestartRefused(t) \/ RestartNotNeeded(t)
  <2>1. /\ UNCHANGED <<processVars, lockVars>>
        /\ call' = [call EXCEPT ![t] = "idle"] \/ call' = [call EXCEPT ![t] = "request"]
    BY <1>1 DEF RestartRefused, RestartNotNeeded, Leave, CallGoto
  <2>2. QED BY <2>1
<1>2. CASE RestartBegins(t)
  <2>1. /\ UNCHANGED <<process, state, closed, closer>>
        /\ restartLock = Free /\ restartLock' = t
        /\ ~closed /\ ~Running(process)
        /\ call' = [call EXCEPT ![t] = "restart"]
    BY <1>2 DEF RestartBegins, CallGoto
  <2>2. \A u \in Threads : ~InRestart(u)  BY <1>0, <2>1
  <2>3. QED BY <1>0, <2>1, <2>2
<1>3. QED BY <1>1, <1>2 DEF EnterRestart

LEMMA RestartStep ==
    ASSUME LockInv, NEW t \in Threads, Restart(t)
    PROVE  LockInv'
<1> USE DEF LockInv, InRestart, processVars, lockVars
<1>0. /\ Free # Closer /\ Closer \notin Threads /\ Free \notin Threads
      /\ MaxProcesses \in Nat \ {0}
  BY ClientAssumption
<1>1. CASE Spawn(t)
  <2>1. /\ call[t] = "restart" /\ call' = [call EXCEPT ![t] = "wait"]
        /\ process' = process + 1 /\ process < MaxProcesses
        /\ state' = [state EXCEPT ![process + 1] = "starting"]
        /\ UNCHANGED lockVars
    BY <1>1 DEF Spawn, CallGoto
  <2>2. process' \in Processes  BY <1>0, <2>1 DEF Processes
  <2>3. \A p \in Processes : ~Running(p)  BY <2>1
  <2>4. \A p \in Processes : Running(p)' => p = process'  BY <2>1, <2>2, <2>3 DEF Running
  <2>5. state' \in [Processes -> ProcessState]  BY <2>1 DEF ProcessState
  <2>6. restartLock = t  BY <2>1
  <2>7. \A u \in Threads \ {t} : call'[u] = call[u] /\ ~InRestart(u)  BY <2>1, <2>6
  <2>8. closer # "done" /\ closer \notin {"closing", "stop"}  BY <1>0, <2>6
  <2>9. QED BY <2>1, <2>2, <2>4, <2>5, <2>6, <2>7, <2>8
<1>2. CASE SpawnFails(t) \/ SocketReady(t)
  <2>1. /\ InRestart(t) /\ restartLock' = Free
        /\ call' = [call EXCEPT ![t] = "idle"] \/ call' = [call EXCEPT ![t] = "request"]
        /\ UNCHANGED <<process, state, closed, closer>>
    BY <1>2 DEF SpawnFails, SocketReady, Unlock, Leave, CallGoto
  <2>2. restartLock = t /\ \A u \in Threads \ {t} : ~InRestart(u)  BY <2>1
  <2>3. QED BY <1>0, <2>1, <2>2 DEF Running
<1>3. CASE StartupFails(t)
  <2>1. /\ call[t] = "wait" /\ call' = [call EXCEPT ![t] = "stop"]
        /\ UNCHANGED <<processVars, lockVars>>
    BY <1>3 DEF StartupFails, CallGoto
  <2>2. QED BY <2>1 DEF Running
<1>4. CASE StopStarted(t)
  <2>1. /\ InRestart(t) /\ restartLock' = Free
        /\ call' = [call EXCEPT ![t] = "idle"]
        /\ state' = [state EXCEPT ![process] = "dead"]
        /\ UNCHANGED <<process, closed, closer>>
    BY <1>4 DEF StopStarted, Stop, Unlock, Leave, CallGoto
  <2>2. restartLock = t /\ \A u \in Threads \ {t} : ~InRestart(u)  BY <2>1
  <2>3. QED BY <1>0, <2>1, <2>2 DEF Running, ProcessState
<1>5. QED BY <1>1, <1>2, <1>3, <1>4 DEF Restart

LEMMA CloseKeepsLock ==
    ASSUME LockInv, Close \/ CloseStep \/ CloseAllRuns
    PROVE  LockInv'
<1> USE DEF LockInv, InRestart, processVars, lockVars, callVars, clientVars
<1>0. Free # Closer /\ Closer \notin Threads /\ Free \notin Threads  BY ClientAssumption
<1>1. CASE Close
  <2>1. /\ UNCHANGED <<call, process, state>>
        /\ restartLock = Free /\ restartLock' = Closer
        /\ closer' = "closing" /\ closed' = TRUE
    BY <1>1 DEF Close, CloserGoto
  <2>2. \A u \in Threads : ~InRestart(u)  BY <1>0, <2>1
  <2>3. QED BY <2>1, <2>2 DEF Running
<1>2. CASE ClosePool
  BY <1>2 DEF ClosePool, CloserGoto, Running
<1>3. CASE CloseReturns
  <2>1. /\ UNCHANGED <<call, process, closed>>
        /\ closer = "stop" /\ closer' = "done"
        /\ restartLock' = Free
        /\ state' = [state EXCEPT ![process] = "dead"]
    BY <1>3 DEF CloseReturns, CloserGoto, Stop
  <2>2. restartLock = Closer /\ \A u \in Threads : ~InRestart(u)  BY <1>0, <2>1
  <2>3. QED BY <1>0, <2>1, <2>2 DEF Running, ProcessState
<1>4. CASE CloseAllRuns
  BY <1>4 DEF CloseAllRuns, Running
<1>5. QED BY <1>1, <1>2, <1>3, <1>4 DEF CloseStep

LEMMA ProcessStep ==
    ASSUME LockInv, Listen \/ Crash \/ Tick \/ UNCHANGED allVars
    PROVE  LockInv'
<1> USE DEF LockInv, InRestart, processVars, lockVars, callVars, clientVars
<1>1. CASE Listen
  <2>1. /\ UNCHANGED <<call, process, lockVars>>
        /\ Running(process)
        /\ state' = [state EXCEPT ![process] = "listening"]
    BY <1>1 DEF Listen, Running
  <2>2. QED BY <2>1 DEF Running, ProcessState
<1>2. CASE Crash
  <2>1. /\ UNCHANGED <<call, process, lockVars>>
        /\ state' = [state EXCEPT ![process] = "dead"]
    BY <1>2 DEF Crash
  <2>2. QED BY <2>1 DEF Running, ProcessState
<1>3. CASE Tick \/ UNCHANGED allVars
  BY <1>3 DEF Tick, allVars, Running
<1>4. QED BY <1>1, <1>2, <1>3

LEMMA LockInitial == ClientInit => LockInv
<1>1. Free # Closer /\ 1 \in Processes  BY ClientAssumption DEF Processes
<1>2. QED BY <1>1 DEF ClientInit, LockInv, InRestart, Running, ProcessState

LEMMA LockStep == LockInv /\ [ClientNext]_allVars => LockInv'
BY CallStep, EnterStep, RestartStep, CloseKeepsLock, ProcessStep DEF ClientNext

\* SteelWorldGenServer.java:218-246: restartLock has one holder, and it alone
\* starts a process, after a look that found none.
THEOREM LockInvariant == ClientSpec => []LockInv
BY LockInitial, LockStep, PTL DEF ClientSpec

\* SteelWorldGenServer.java:213-246: one process at a time, for every number
\* of threads and of processes that die.
THEOREM OneProcessAtATime == ClientSpec => []OneProcess
<1>1. LockInv => OneProcess  BY DEF LockInv, OneProcess
<1>2. QED BY <1>1, LockInvariant, PTL

\* SteelWorldGenServer.java:161-176: nothing runs, or is started, after close.
THEOREM NothingRunsAfterClose == ClientSpec => []NothingAfterClose
<1>1. LockInv => NothingAfterClose  BY DEF LockInv, NothingAfterClose
<1>2. QED BY <1>1, LockInvariant, PTL

----------------------------------------------------------------------------
(***************************************************************************)
(* The types of the client's state                                         *)
(***************************************************************************)

\* What ClientTypeOK adds to the types of the pool.
ClientTypes ==
    /\ call \in [Threads -> {"idle", "request", "done", "failed", "enter",
                             "restart", "wait", "stop"}]
    /\ attempt \in [Threads -> 0..1]
    /\ answered \in [Threads -> BOOLEAN]
    /\ cause \in [Threads -> {"none", "died", "other"}]
    /\ peer \in [Channels -> Processes]
    /\ process \in Processes
    /\ state \in [Processes -> ProcessState]
    /\ restartLock \in Threads \cup {Free, Closer}
    /\ closed \in BOOLEAN
    /\ closer \in {"off", "closing", "stop", "done"}
    /\ elapsed \in 0..Cooldown

LEMMA ClientTypesInitially ==
    ASSUME ClientInit
    PROVE  ClientTypes
<1>1. 1 \in Processes /\ Uptime \in 0..Cooldown
  BY ClientAssumption DEF Processes
<1>2. state \in [Processes -> ProcessState] /\ peer \in [Channels -> Processes]
  BY <1>1 DEF ClientInit, ProcessState
<1>3. /\ call \in [Threads -> {"idle", "request", "done", "failed", "enter",
                              "restart", "wait", "stop"}]
      /\ attempt \in [Threads -> 0..1]
      /\ answered \in [Threads -> BOOLEAN]
      /\ cause \in [Threads -> {"none", "died", "other"}]
  BY DEF ClientInit
<1>4. QED BY <1>1, <1>2, <1>3 DEF ClientInit, ClientTypes

LEMMA CallTypes ==
    ASSUME ClientTypes, NEW t \in Threads,
           \/ RequestChunk(t) \/ AcquireInterrupted(t) \/ ServerAnswers(t) \/ Attempt(t)
    PROVE  ClientTypes'
<1> USE DEF ClientTypes, callVars, processVars, lockVars, clientVars
<1>1. CASE RequestChunk(t)  BY <1>1 DEF RequestChunk, CallGoto
<1>2. CASE AcquireInterrupted(t)  BY <1>2 DEF AcquireInterrupted, CallGoto
<1>3. CASE ServerAnswers(t)  BY <1>3 DEF ServerAnswers
<1>4. CASE PoolOnly(t)  BY <1>4 DEF PoolOnly
<1>5. CASE Connect(t)  BY <1>5 DEF Connect
<1>6. CASE ConnectFails(t)  BY <1>6 DEF ConnectFails, FailedBecause, CallGoto
<1>7. CASE Receive(t)  BY <1>7 DEF Receive, Consume, CallGoto
<1>8. CASE RequestBreaks(t)  BY <1>8 DEF RequestBreaks, FailedBecause, Consume, CallGoto
<1>9. CASE Return(t)  BY <1>9 DEF Return, Leave, Try, CallGoto
<1>10. CASE GiveUpOrRestart(t)  BY <1>10 DEF GiveUpOrRestart, Leave, Try, CallGoto
<1>11. QED
  BY <1>1, <1>2, <1>3, <1>4, <1>5, <1>6, <1>7, <1>8, <1>9, <1>10 DEF Attempt

LEMMA RestartTypes ==
    ASSUME ClientTypes, NEW t \in Threads, EnterRestart(t) \/ Restart(t)
    PROVE  ClientTypes'
<1> USE DEF ClientTypes, processVars, lockVars
<1>1. CASE RestartRefused(t)  BY <1>1 DEF RestartRefused, Leave, Try, CallGoto
<1>2. CASE RestartNotNeeded(t)  BY <1>2 DEF RestartNotNeeded, Try, CallGoto
<1>3. CASE RestartBegins(t)
  <2>1. 0 \in 0..Cooldown  BY ClientAssumption
  <2>2. QED BY <1>3, <2>1 DEF RestartBegins, CallGoto
<1>4. CASE Spawn(t)
  <2>1. process + 1 \in Processes
    BY <1>4, ClientAssumption DEF Spawn, Processes
  <2>2. QED BY <1>4, <2>1 DEF Spawn, CallGoto, ProcessState
<1>5. CASE SpawnFails(t)  BY <1>5 DEF SpawnFails, Unlock, Leave, Try, CallGoto
<1>6. CASE SocketReady(t)  BY <1>6 DEF SocketReady, Unlock, Try, CallGoto
<1>7. CASE StartupFails(t)  BY <1>7 DEF StartupFails, CallGoto
<1>8. CASE StopStarted(t)
  BY <1>8 DEF StopStarted, Stop, Unlock, Leave, Try, CallGoto, ProcessState
<1>9. QED
  BY <1>1, <1>2, <1>3, <1>4, <1>5, <1>6, <1>7, <1>8 DEF EnterRestart, Restart

LEMMA OtherTypes ==
    ASSUME ClientTypes,
           \/ Close \/ CloseStep \/ CloseAllRuns
           \/ Listen \/ Crash \/ Tick \/ UNCHANGED allVars
    PROVE  ClientTypes'
<1> USE DEF ClientTypes, callVars, processVars, lockVars, clientVars, ProcessState
<1>1. CASE Close  BY <1>1 DEF Close, CloserGoto
<1>2. CASE CloseStep
  BY <1>2 DEF CloseStep, ClosePool, CloseReturns, CloserGoto, Stop
<1>3. CASE CloseAllRuns  BY <1>3 DEF CloseAllRuns
<1>4. CASE Listen  BY <1>4 DEF Listen
<1>5. CASE Crash  BY <1>5 DEF Crash
<1>6. CASE Tick
  <2>1. elapsed + 1 \in 0..Cooldown  BY <1>6, ClientAssumption DEF Tick, TooRecent
  <2>2. QED BY <1>6, <2>1 DEF Tick
<1>7. CASE UNCHANGED allVars  BY <1>7 DEF allVars
<1>8. QED BY <1>1, <1>2, <1>3, <1>4, <1>5, <1>6, <1>7

\* SteelWorldGenServer.java:50-53 and ConnectionPool.java:25-28: the types of
\* the client's state, through every request, restart and close.
THEOREM ClientTypeCorrect == ClientSpec => []ClientTypeOK
<1>1. ClientInit => ClientTypes  BY ClientTypesInitially
<1>2. ClientTypes /\ [ClientNext]_allVars => ClientTypes'
  BY CallTypes, RestartTypes, OtherTypes DEF ClientNext
<1>3. PoolInv /\ ClientTypes => ClientTypeOK
  BY DEF PoolInv, ClientTypes, ClientTypeOK
<1>4. QED BY <1>1, <1>2, <1>3, ClientUsesPool, PoolSafety, PTL DEF ClientSpec

----------------------------------------------------------------------------
(***************************************************************************)
(* The client as the supervisor of one process                             *)
(***************************************************************************)

\* A process starts only while the thread that spawned it waits, or gave up
\* waiting, and holds restartLock.
StartHasThread ==
    /\ state[process] # "unborn"
    /\ state[process] = "starting" => \E t \in Threads : call[t] \in {"wait", "stop"}

LEMMA StartHasThreadInitially == ClientInit => StartHasThread
<1>1. 1 \in Processes  BY ClientAssumption DEF Processes
<1>2. QED BY <1>1 DEF ClientInit, StartHasThread

\* What is left of StartHasThread when the process does not change and no
\* thread leaves the wait for it.
LEMMA ThreadStays ==
    ASSUME StartHasThread, UNCHANGED <<process, state>>,
           \A t \in Threads : call[t] \in {"wait", "stop"} => call'[t] \in {"wait", "stop"}
    PROVE  StartHasThread'
BY DEF StartHasThread

\* Requests, and what leads to restart, leave process and client's lifecycle alone.
LEMMA CallSupervised ==
    ASSUME LockInv, StartHasThread, NEW t \in Threads,
           \/ RequestChunk(t) \/ AcquireInterrupted(t) \/ ServerAnswers(t) \/ Attempt(t)
           \/ EnterRestart(t) \/ SpawnFails(t) \/ StartupFails(t)
    PROVE  StartHasThread' /\ UNCHANGED <<process, state, closer>>
<1>1. UNCHANGED <<process, state, closer>>
  BY DEF RequestChunk, AcquireInterrupted, ServerAnswers, Attempt, PoolOnly, Connect,
         ConnectFails, Receive, RequestBreaks, Return, GiveUpOrRestart, EnterRestart,
         RestartRefused, RestartNotNeeded, RestartBegins, SpawnFails, StartupFails, Unlock,
         processVars, lockVars, clientVars
<1>2. \A u \in Threads : call[u] \in {"wait", "stop"} => call'[u] \in {"wait", "stop"}
  BY DEF LockInv, RequestChunk, AcquireInterrupted, ServerAnswers, Attempt, PoolOnly,
         Connect, ConnectFails, Receive, RequestBreaks, Return, GiveUpOrRestart,
         EnterRestart, RestartRefused, RestartNotNeeded, RestartBegins, SpawnFails,
         StartupFails, FailedBecause, Leave, CallGoto, callVars, clientVars
<1>3. QED BY <1>1, <1>2, ThreadStays

\* The holder of restartLock starts the process, sees it listen or stops it.
LEMMA RestartSupervised ==
    ASSUME LockInv, StartHasThread, NEW t \in Threads,
           Spawn(t) \/ SocketReady(t) \/ StopStarted(t)
    PROVE  StartHasThread' /\ [Super!SuperNext]_Super!superVars
<1> USE DEF LockInv, StartHasThread, InRestart
<1>0. Free # Closer /\ Closer \notin Threads /\ Free \notin Threads  BY ClientAssumption
<1>1. restartLock = t /\ closer = "off"
  BY <1>0 DEF Spawn, SocketReady, StopStarted, Leave, CallGoto, Running
<1>2. CASE Spawn(t)
  <2>1. /\ call[t] = "restart" /\ call' = [call EXCEPT ![t] = "wait"]
        /\ process' = process + 1 /\ process < MaxProcesses
        /\ state' = [state EXCEPT ![process + 1] = "starting"]
        /\ UNCHANGED closer
    BY <1>2 DEF Spawn, CallGoto, lockVars
  <2>2. process + 1 \in Processes  BY <2>1, ClientAssumption DEF Processes
  <2>3. state[process] = "dead"  BY <2>1 DEF Running, ProcessState
  <2>4. StartHasThread'  BY <2>1, <2>2
  <2>5. Super!Start  BY <1>1, <2>1, <2>2, <2>3 DEF Super!Start, Service
  <2>6. QED BY <2>4, <2>5 DEF Super!SuperNext
<1>3. CASE SocketReady(t)
  <2>1. UNCHANGED <<process, state, closer>> /\ state[process] = "listening"
    BY <1>3 DEF SocketReady, Unlock, processVars
  <2>2. QED BY <2>1 DEF Super!superVars, Service
<1>4. CASE StopStarted(t)
  <2>1. state' = [state EXCEPT ![process] = "dead"] /\ UNCHANGED <<process, closer>>
    BY <1>4 DEF StopStarted, Stop, Unlock
  <2>2. state'[process'] = "dead"  BY <2>1
  <2>3. CASE state[process] = "dead"
    BY <2>1, <2>2, <2>3 DEF Super!superVars, Service
  <2>4. CASE state[process] # "dead"
    <3>1. state[process] \in {"starting", "listening"}  BY <2>4 DEF ProcessState
    <3>2. Super!Dies  BY <2>1, <2>2, <3>1 DEF Super!Dies, Service
    <3>3. QED BY <2>2, <3>2 DEF Super!SuperNext
  <2>5. QED BY <2>3, <2>4
<1>5. QED BY <1>2, <1>3, <1>4

LEMMA CloseSupervised ==
    ASSUME LockInv, StartHasThread, Close \/ CloseStep \/ CloseAllRuns
    PROVE  StartHasThread' /\ [Super!SuperNext]_Super!superVars
<1> USE DEF LockInv, StartHasThread, InRestart
<1>0. Free # Closer /\ Closer \notin Threads /\ Free \notin Threads  BY ClientAssumption
<1>1. CASE Close
  <2>1. /\ UNCHANGED <<call, process, state>> /\ restartLock = Free
        /\ closer = "off" /\ closer' = "closing"
    BY <1>1 DEF Close, CloserGoto, callVars, processVars
  <2>2. state[process] # "starting"  BY <1>0, <2>1
  <2>3. Super!BeginClose  BY <2>1, <2>2 DEF Super!BeginClose, Service
  <2>4. QED BY <2>1, <2>3 DEF Super!SuperNext
<1>2. CASE ClosePool
  <2>1. /\ UNCHANGED <<call, process, state>>
        /\ closer = "closing" /\ closer' = "stop"
    BY <1>2 DEF ClosePool, CloserGoto, callVars, processVars
  <2>2. QED BY <2>1 DEF Super!superVars, Service
<1>3. CASE CloseReturns
  <2>1. /\ closer = "stop" /\ closer' = "done" /\ UNCHANGED process
        /\ state' = [state EXCEPT ![process] = "dead"]
    BY <1>3 DEF CloseReturns, CloserGoto, Stop
  <2>2. Super!EndClose  BY <2>1 DEF Super!EndClose, Service
  <2>3. QED BY <2>1, <2>2 DEF Super!SuperNext
<1>4. CASE CloseAllRuns
  BY <1>4 DEF CloseAllRuns, clientVars, callVars, processVars, lockVars,
              Super!superVars, Service
<1>5. QED BY <1>1, <1>2, <1>3, <1>4 DEF CloseStep

LEMMA ProcessSupervised ==
    ASSUME LockInv, StartHasThread, Listen \/ Crash \/ Tick \/ UNCHANGED allVars
    PROVE  StartHasThread' /\ [Super!SuperNext]_Super!superVars
<1> USE DEF LockInv, StartHasThread, InRestart
<1>0. Free # Closer /\ Closer \notin Threads /\ Free \notin Threads  BY ClientAssumption
<1>1. CASE Listen
  <2>1. /\ state[process] = "starting" /\ UNCHANGED <<process, closer>>
        /\ state' = [state EXCEPT ![process] = "listening"]
    BY <1>1 DEF Listen, lockVars
  <2>2. closer = "off"  BY <1>0, <2>1 DEF Running
  <2>3. Super!Listens  BY <2>1, <2>2 DEF Super!Listens, Service
  <2>4. QED BY <2>1, <2>3 DEF Super!SuperNext
<1>2. CASE Crash
  <2>1. /\ state[process] \in {"starting", "listening"} /\ UNCHANGED <<process, closer>>
        /\ state' = [state EXCEPT ![process] = "dead"]
    BY <1>2 DEF Crash, Running, lockVars
  <2>2. Super!Dies  BY <2>1 DEF Super!Dies, Service
  <2>3. QED BY <2>1, <2>2 DEF Super!SuperNext
<1>3. CASE Tick \/ UNCHANGED allVars
  BY <1>3 DEF Tick, allVars, clientVars, callVars, processVars, lockVars,
              Super!superVars, Service
<1>4. QED BY <1>1, <1>2, <1>3

\* SteelWorldGenServer.java:161-176 and 218-246: whatever the threads do, what
\* happens to the process is what Supervisor allows: a start only of a dead
\* process of an open client, none that close overtakes, none after close.
THEOREM ClientSupervises == ClientSpec => Super!SuperSafety
<1>1. ClientInit => Super!SuperInit
  <2> SUFFICES ASSUME ClientInit PROVE Super!SuperInit  OBVIOUS
  <2>1. 1 \in Processes  BY ClientAssumption DEF Processes
  <2>2. QED BY <2>1 DEF ClientInit, Super!SuperInit, Service
<1>2. LockInv /\ StartHasThread /\ [ClientNext]_allVars =>
        StartHasThread' /\ [Super!SuperNext]_Super!superVars
  <2> SUFFICES ASSUME LockInv, StartHasThread, [ClientNext]_allVars
               PROVE  StartHasThread' /\ [Super!SuperNext]_Super!superVars
    OBVIOUS
  <2>1. ASSUME NEW t \in Threads,
               \/ RequestChunk(t) \/ AcquireInterrupted(t) \/ ServerAnswers(t) \/ Attempt(t)
               \/ EnterRestart(t) \/ SpawnFails(t) \/ StartupFails(t)
        PROVE  StartHasThread' /\ [Super!SuperNext]_Super!superVars
    <3>1. StartHasThread' /\ UNCHANGED <<process, state, closer>>
      BY <2>1, CallSupervised
    <3>2. QED BY <3>1 DEF Super!superVars, Service
  <2>2. ASSUME NEW t \in Threads, Spawn(t) \/ SocketReady(t) \/ StopStarted(t)
        PROVE  StartHasThread' /\ [Super!SuperNext]_Super!superVars
    BY <2>2, RestartSupervised
  <2>3. CASE \/ Close \/ CloseStep \/ CloseAllRuns
             \/ Listen \/ Crash \/ Tick \/ UNCHANGED allVars
    BY <2>3, CloseSupervised, ProcessSupervised
  <2>4. QED BY <2>1, <2>2, <2>3 DEF ClientNext, Restart
<1>3. QED
  BY <1>1, <1>2, StartHasThreadInitially, LockInvariant, PTL
     DEF ClientSpec, Super!SuperSafety

----------------------------------------------------------------------------
(***************************************************************************)
(* The socket file                                                         *)
(***************************************************************************)

\* What a step of the client that leaves the file alone may do to processes:
\* none gets to listen, and close does not come to its end.
LEMMA ClientStepKeeps ==
    ASSUME LockInv, ClientStep
    PROVE  /\ [ClientNext]_allVars
           /\ \A p \in Processes : state'[p] = "listening" => state[p] = "listening"
           /\ closer' = "done" => closer = "done"
<1> USE DEF LockInv, callVars, processVars, lockVars, clientVars
<1>1. ASSUME NEW t \in Threads,
             \/ RequestChunk(t) \/ AcquireInterrupted(t) \/ ServerAnswers(t)
             \/ PoolOnly(t) \/ ConnectFails(t)
             \/ Receive(t) \/ RequestBreaks(t) \/ Return(t) \/ GiveUpOrRestart(t)
             \/ EnterRestart(t) \/ SpawnFails(t) \/ StartupFails(t)
             \/ Connect(t) \/ SocketReady(t)
      PROVE  ClientNext /\ UNCHANGED <<state, closer>>
  BY <1>1 DEF RequestChunk, AcquireInterrupted, ServerAnswers, PoolOnly, ConnectFails, Receive,
       RequestBreaks, Return, GiveUpOrRestart, EnterRestart, RestartRefused,
       RestartNotNeeded, RestartBegins, SpawnFails, StartupFails, Connect, SocketReady,
       Unlock, ClientNext, Attempt, Restart
<1>2. ASSUME NEW t \in Threads, Spawn(t) \/ StopStarted(t)
      PROVE  /\ ClientNext
             /\ \A p \in Processes : state'[p] = "listening" => state[p] = "listening"
             /\ closer' = closer
  BY <1>2 DEF Spawn, StopStarted, Stop, Unlock, ClientNext, Restart
<1>3. CASE Close \/ ClosePool \/ CloseAllRuns
  BY <1>3 DEF Close, ClosePool, CloserGoto, CloseAllRuns, ClientNext, CloseStep
<1>4. CASE Crash \/ Tick
  BY <1>4 DEF Crash, Tick, ClientNext
<1>5. QED BY <1>1, <1>2, <1>3, <1>4 DEF ClientStep

\* Every step of SocketFile is one of the client or leaves its state alone.
LEMMA FileStepClient == LockInv /\ [FileNext]_fileVars => [ClientNext]_allVars
<1> SUFFICES ASSUME LockInv, [FileNext]_fileVars PROVE [ClientNext]_allVars  OBVIOUS
<1>1. CASE ClientStep  BY <1>1, ClientStepKeeps
<1>2. CASE CloseDeletes  BY <1>2 DEF CloseDeletes, ClientNext, CloseStep
<1>3. CASE Bind  BY <1>3 DEF Bind, ClientNext
<1>4. ASSUME NEW p \in Processes, RemoveStale(p) \/ AcceptFails(p) \/ DropGuard(p)
      PROVE  UNCHANGED allVars
  BY <1>4 DEF RemoveStale, AcceptFails, DropGuard
<1>5. CASE UNCHANGED fileVars  BY <1>5 DEF fileVars
<1>6. QED BY <1>1, <1>2, <1>3, <1>4, <1>5 DEF FileNext

\* The inductive invariant: with one process at a time, whatever removes the
\* file cannot remove the file of another one.
FileInv ==
    /\ file \in Processes \cup {NoFile}
    /\ stage \in [Processes -> Stages]
    /\ ServedIsReachable
    /\ NothingLeft

LEMMA FileStep ==
    ASSUME LockInv, FileInv, [FileNext]_fileVars
    PROVE  FileInv'
<1> USE DEF FileInv, ServedIsReachable, NothingLeft
<1>0. \A p, q \in Processes : Running(p) /\ Running(q) => p = q  BY DEF LockInv
<1>1. CASE ClientStep
  <2>1. /\ \A p \in Processes : state'[p] = "listening" => state[p] = "listening"
        /\ closer' = "done" => closer = "done"
    BY <1>1, ClientStepKeeps
  <2>2. Ended /\ UNCHANGED file  BY <1>1 DEF ClientStep
  <2>3. /\ stage' \in [Processes -> Stages]
        /\ \A p \in Processes : stage'[p] = "serve" => stage[p] = "serve"
    BY <2>2 DEF Ended, Stages
  <2>4. QED BY <2>1, <2>2, <2>3
<1>2. CASE CloseDeletes
  <2>1. /\ Ended /\ file' = NoFile
        /\ closer = "stop"
        /\ state' = [state EXCEPT ![process] = "dead"]
    BY <1>2 DEF CloseDeletes, CloseReturns, CloserGoto, Stop
  <2>2. \A p \in Processes : state'[p] # "listening"
    BY <2>1 DEF LockInv, Running
  <2>3. stage' \in [Processes -> Stages]  BY <2>1 DEF Ended, Stages
  <2>4. QED BY <2>1, <2>2, <2>3
<1>3. CASE Bind
  <2>1. /\ state[process] = "starting"
        /\ state' = [state EXCEPT ![process] = "listening"]
        /\ stage' = [stage EXCEPT ![process] = "serve"]
        /\ file' = process
        /\ UNCHANGED closer
        /\ process \in Processes
    BY <1>3 DEF Bind, StageGoto, Listen, lockVars, LockInv
  <2>2. \A p \in Processes : state[p] = "listening" => p = process
    BY <1>0, <2>1 DEF Running
  <2>3. closer # "done"  BY <2>1 DEF LockInv, Running
  <2>4. QED BY <2>1, <2>2, <2>3 DEF Stages, LockInv
<1>4. ASSUME NEW p \in Processes, RemoveStale(p) \/ AcceptFails(p) \/ DropGuard(p)
      PROVE  FileInv'
  <2>1. UNCHANGED <<state, closer>>
    BY <1>4 DEF RemoveStale, AcceptFails, DropGuard, allVars, clientVars, processVars, lockVars
  <2>2. CASE RemoveStale(p)
    <3>1. /\ state[p] = "starting" /\ file' = NoFile
          /\ stage' = [stage EXCEPT ![p] = "bind"]
      BY <2>2 DEF RemoveStale, StageGoto
    <3>2. \A q \in Processes : state[q] # "listening"  BY <1>0, <3>1 DEF Running
    <3>3. QED BY <2>1, <3>1, <3>2 DEF Stages
  <2>3. CASE AcceptFails(p)
    <3>1. UNCHANGED file /\ stage' = [stage EXCEPT ![p] = "drop"]
      BY <2>3 DEF AcceptFails, StageGoto
    <3>2. QED BY <2>1, <3>1 DEF Stages
  <2>4. CASE DropGuard(p)
    <3>1. /\ state[p] = "listening" /\ stage[p] = "drop" /\ file' = NoFile
          /\ stage' = [stage EXCEPT ![p] = "exit"]
      BY <2>4 DEF DropGuard, StageGoto
    <3>2. \A q \in Processes : state[q] = "listening" => q = p  BY <1>0, <3>1 DEF Running
    <3>3. QED BY <2>1, <3>1, <3>2 DEF Stages
  <2>5. QED BY <1>4, <2>2, <2>3, <2>4
<1>5. CASE UNCHANGED fileVars
  <2>1. UNCHANGED <<state, closer, file, stage>>
    BY <1>5 DEF fileVars, allVars, clientVars, processVars, lockVars
  <2>2. QED BY <2>1
<1>6. QED BY <1>1, <1>2, <1>3, <1>4, <1>5 DEF FileNext

LEMMA FileInvariant == FileSpec => [](LockInv /\ FileInv)
<1>1. FileInit => LockInv /\ FileInv
  <2> SUFFICES ASSUME FileInit PROVE LockInv /\ FileInv  OBVIOUS
  <2>1. ClientInit /\ LockInv  BY LockInitial DEF FileInit
  <2>2. 1 \in Processes  BY ClientAssumption DEF Processes
  <2>3. file = 1 /\ closer = "off" /\ \A p \in Processes : state[p] = "listening" => p = 1
    BY <2>1, <2>2 DEF FileInit, ClientInit
  <2>4. stage \in [Processes -> Stages]  BY DEF FileInit, Stages
  <2>5. QED BY <2>1, <2>2, <2>3, <2>4 DEF FileInv, ServedIsReachable, NothingLeft
<1>2. LockInv /\ FileInv /\ [FileNext]_fileVars => (LockInv /\ FileInv)'
  BY LockStep, FileStepClient, FileStep
<1>3. QED BY <1>1, <1>2, PTL DEF FileSpec

\* SteelWorldGenServer.java:55-106 and main.rs:46-64: with the file between
\* them, client and processes do nothing but what SteelWorldGenServer says.
THEOREM FileKeepsClient == FileSpec => ClientInit /\ [][ClientNext]_allVars
<1>1. FileInit => ClientInit  BY DEF FileInit
<1>2. QED BY <1>1, FileInvariant, FileStepClient, PTL DEF FileSpec

\* main.rs:48-63 and transport.rs:75-81: a process that serves is reachable,
\* for every number of processes that died before it, in whichever way.
THEOREM ServedAreReachable == FileSpec => []ServedIsReachable
<1>1. FileInv => ServedIsReachable  BY DEF FileInv
<1>2. QED BY <1>1, FileInvariant, PTL

\* SteelWorldGenServer.java:161-176: close leaves no file behind.
THEOREM NothingIsLeft == FileSpec => []NothingLeft
<1>1. FileInv => NothingLeft  BY DEF FileInv
<1>2. QED BY <1>1, FileInvariant, PTL

\* SteelWorldGenServer.java:50-53 and main.rs:46-64: the types of the state.
THEOREM FileTypeCorrect == FileSpec => []FileTypeOK
<1>1. ClientInit => ClientTypes  BY ClientTypesInitially
<1>2. ClientTypes /\ [ClientNext]_allVars => ClientTypes'
  BY CallTypes, RestartTypes, OtherTypes DEF ClientNext
<1>3. ClientInit /\ [][ClientNext]_allVars => Init /\ [][Next]_poolVars
  BY ClientIsPool, PTL
<1>4. PoolInv /\ ClientTypes /\ FileInv => FileTypeOK
  BY DEF PoolInv, ClientTypes, ClientTypeOK, FileInv, FileTypeOK
<1>5. QED BY <1>1, <1>2, <1>3, <1>4, FileKeepsClient, FileInvariant, PoolSafety, PTL

----------------------------------------------------------------------------
(***************************************************************************)
(* Permits and restartLock                                                 *)
(***************************************************************************)

\* Where in the pool a thread can be, given where its call is.
CallInPool ==
    /\ NoHoldAndWait
    /\ \A t \in Threads :
         /\ call[t] = "request" => pc[t] \in {"out", "poll", "check", "open", "add", "using"}
         /\ call[t] = "done" => pc[t] \in {"out", "release", "offer", "discard", "post"}
         /\ call[t] = "failed" => pc[t] \in {"out", "discard", "post"}

\* The invariant with the types it is about.
PermitInv ==
    /\ CallInPool
    /\ pc \in [Threads -> PC]
    /\ call \in [Threads -> {"idle", "request", "done", "failed", "enter",
                             "restart", "wait", "stop"}]

LEMMA PoolOnlyStep ==
    ASSUME PermitInv, NEW t \in Threads, PoolOnly(t)
    PROVE  CallInPool'
<1> USE DEF PermitInv, CallInPool, NoHoldAndWait, HoldsPermit
<1>1. UNCHANGED call  BY DEF PoolOnly, clientVars, callVars
<1>2. \A u \in Threads \ {t} : pc'[u] = pc[u]
  BY DEF PoolOnly, Acquire, PollIdle, PollEmpty, ReuseOpen, DropStale, AddOpened, GiveBack,
         ReleaseCheck, Offer, Discard, ReleasePermit, Goto
<1>3. CASE Acquire(t) /\ call[t] = "request"
  BY <1>1, <1>2, <1>3 DEF Acquire, Goto
<1>4. CASE PollIdle(t) \/ PollEmpty(t) \/ ReuseOpen(t) \/ DropStale(t) \/ AddOpened(t)
  <2>1. /\ pc[t] \in {"poll", "check", "open", "add"}
        /\ pc'[t] \in {"check", "open", "using"}
    BY <1>4 DEF PollIdle, PollEmpty, ReuseOpen, DropStale, AddOpened, Goto
  <2>2. QED BY <1>1, <1>2, <2>1
<1>5. CASE GiveBack(t)
  <2>1. /\ pc[t] \in {"release", "offer", "discard", "post"}
        /\ pc'[t] \in {"offer", "discard", "post", "out"}
        /\ pc[t] \in {"discard", "post"} => pc'[t] \in {"post", "out"}
    BY <1>5 DEF GiveBack, ReleaseCheck, Offer, Discard, ReleasePermit, Goto
  <2>2. QED BY <1>1, <1>2, <2>1
<1>6. QED BY <1>3, <1>4, <1>5 DEF PoolOnly

LEMMA CallInPoolStep ==
    ASSUME PermitInv, [ClientNext]_allVars
    PROVE  CallInPool'
<1> USE DEF PermitInv, CallInPool, NoHoldAndWait, HoldsPermit
<1>1. ASSUME NEW t \in Threads, PoolOnly(t) PROVE CallInPool'
  BY <1>1, PoolOnlyStep
<1>2. ASSUME NEW t \in Threads, Connect(t) \/ ServerAnswers(t) PROVE CallInPool'
  BY <1>2 DEF Connect, OpenOk, ServerAnswers, Goto, callVars, poolVars
<1>3. ASSUME NEW t \in Threads, ConnectFails(t) \/ Receive(t) \/ RequestBreaks(t)
      PROVE  CallInPool'
  BY <1>3 DEF ConnectFails, OpenFails, Receive, RequestOk, RequestBreaks, RequestFails,
              FailedBecause, Goto, CallGoto
<1>4. ASSUME NEW t \in Threads,
             \/ RequestChunk(t) \/ AcquireInterrupted(t) \/ Return(t)
             \/ GiveUpOrRestart(t) \/ EnterRestart(t) \/ Restart(t)
      PROVE  CallInPool'
  <2>1. UNCHANGED pc /\ pc[t] = "out" /\ \A u \in Threads \ {t} : call'[u] = call[u]
    BY <1>4 DEF RequestChunk, AcquireInterrupted, Return, GiveUpOrRestart, EnterRestart,
                RestartRefused, RestartNotNeeded, RestartBegins, CloseAll, Restart, Spawn,
                SpawnFails, SocketReady, StartupFails, StopStarted, Leave, CallGoto, poolVars
  <2>2. QED BY <2>1
<1>5. CASE \/ Close \/ CloseStep \/ CloseAllRuns
           \/ Listen \/ Crash \/ Tick \/ UNCHANGED allVars
  <2>1. UNCHANGED <<pc, call>>
    BY <1>5 DEF Close, CloseAll, CloseStep, ClosePool, CloseReturns, CloseAllRuns, CloseOne,
                CloseEnd, ClearAll, ClearIdle, Listen, Crash, Tick, allVars, callVars,
                clientVars, poolVars
  <2>2. QED BY <2>1
<1>6. QED BY <1>1, <1>2, <1>3, <1>4, <1>5 DEF ClientNext, Attempt

LEMMA CallInPoolInvariant == ClientInit /\ [][ClientNext]_allVars => [](PermitInv /\ PoolInv)
<1>1. ClientInit => CallInPool
  BY DEF ClientInit, Init, CallInPool, NoHoldAndWait, HoldsPermit
<1>2. PoolInv /\ ClientTypes => pc \in [Threads -> PC] /\ (CallInPool => PermitInv)
  BY DEF PoolInv, TypeOK, ClientTypes, PermitInv
<1>3. ClientInit => ClientTypes  BY ClientTypesInitially
<1>4. ClientTypes /\ [ClientNext]_allVars => ClientTypes'
  BY CallTypes, RestartTypes, OtherTypes DEF ClientNext
<1>5. ClientInit /\ [][ClientNext]_allVars => Init /\ [][Next]_poolVars
  BY ClientIsPool, PTL
<1>6. PermitInv /\ [ClientNext]_allVars => CallInPool'  BY CallInPoolStep
<1>7. QED BY <1>1, <1>2, <1>3, <1>4, <1>5, <1>6, PoolSafety, PTL

\* SteelWorldGenServer.java:144-152 and 219: no call that waits for restartLock,
\* restarts or has returned keeps a permit from the others.
THEOREM WaitersHoldNothing == FileSpec => []NoHoldAndWait
<1>1. PermitInv => NoHoldAndWait  BY DEF PermitInv, CallInPool
<1>2. QED BY <1>1, CallInPoolInvariant, FileKeepsClient, PTL

\* SteelWorldGenServer.java:134-158: when every call has returned, all permits
\* are back, whatever failed, restarted or closed meanwhile.
THEOREM QuietClientHasAllPermits ==
    ClientSpec => []((\A t \in Threads : call[t] = "idle") => permits = MaxConnections)
<1>1. PermitInv /\ PoolInv =>
        ((\A t \in Threads : call[t] = "idle") => permits = MaxConnections)
  <2> SUFFICES ASSUME PermitInv, PoolInv, \A t \in Threads : call[t] = "idle"
               PROVE  permits = MaxConnections
    OBVIOUS
  <2>1. {t \in Threads : HoldsPermit(t)} = {}
    BY DEF PermitInv, CallInPool, NoHoldAndWait
  <2>2. Cardinality({t \in Threads : HoldsPermit(t)}) = 0  BY <2>1, FS_EmptySet
  <2>3. permits \in Int  BY DEF PoolInv, TypeOK
  <2>4. QED BY <2>2, <2>3 DEF PoolInv, PermitsConserved
<1>2. QED BY <1>1, CallInPoolInvariant, PTL DEF ClientSpec
=============================================================================
