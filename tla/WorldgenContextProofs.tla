------------------------ MODULE WorldgenContextProofs ------------------------
(***************************************************************************)
(* Theorems about WorldgenContext: it is a RequestCoordinator, so what     *)
(* RequestCoordinatorProofs shows holds of it, and its Drop is safe.       *)
(***************************************************************************)
EXTENDS WorldgenContext, RequestCoordinatorProofs

\* requests.rs and lib.rs: with the driver, its signal, the generation tasks
\* and Drop around them, the callers still do nothing but what
\* RequestCoordinator lets them do.
LEMMA ContextImplementsCoordinator == ContextSpec => Spec
<1>1. ContextInit => Init  BY DEF ContextInit
<1>2. [ContextNext]_allVars => [Next]_vars
  <2> SUFFICES ASSUME [ContextNext]_allVars PROVE [Next]_vars  OBVIOUS
  <2>1. ASSUME NEW t \in Threads, Caller(t) PROVE Next
    BY <2>1 DEF Caller, CallContext, WakeDriver, RequestStep, RequestExpires, Next, Request
  <2>2. CASE DriverStep
    BY <2>2 DEF DriverStep, DriverLoop, DriverTick, DriverCheck, DriverPark,
                DriverTimeout, DriverSlept
  <2>3. ASSUME NEW i \in Ids, StartTask(i) \/ FinishTask(i) \/ CancelRequest(i)
        PROVE  [Next]_vars
    BY <2>3 DEF StartTask, FinishTask, CancelRequest, Next, ChunkMap
  <2>4. CASE Drop  BY <2>4 DEF Drop, DropContext, JoinDriver, StopRefill, Drain
  <2>5. CASE UNCHANGED allVars  BY <2>5 DEF allVars
  <2>6. QED BY <2>1, <2>2, <2>3, <2>4, <2>5 DEF ContextNext, Generation
<1>3. QED BY <1>1, <1>2, PTL DEF ContextSpec, Spec

\* requests.rs:3-8: in a running context, too, no neighbour of a request in
\* flight is released.
THEOREM ContextKeepsNeighbours == ContextSpec => NeighboursRetained
BY ContextImplementsCoordinator, NeighboursStayRetained, PTL

\* requests.rs:127 and 147: in a running context the driver's count is exact.
THEOREM ContextCountsInflight == ContextSpec => []InflightExact
BY ContextImplementsCoordinator, InflightIsExact, PTL

----------------------------------------------------------------------------

\* The inductive invariant of Drop: each of its steps leaves behind what the
\* next ones rely on.
DropInv ==
    /\ lifecycle \in Lifecycle
    /\ lifecycle \in {"stopRefill", "drain", "dropped"} => driver = "stopped"
    /\ lifecycle \in {"drain", "dropped"} => refill = FALSE
    /\ lifecycle = "dropped" => \A i \in Ids : work[i] # "running"

LEMMA DropStep ==
    ASSUME DropInv, [ContextNext]_allVars, work \in [Ids -> Work]
    PROVE  DropInv'
<1> USE DEF DropInv, Lifecycle
<1>1. ASSUME NEW t \in Threads, Caller(t) PROVE DropInv'
  BY <1>1 DEF Caller, CallContext, WakeDriver, RequestStep, RequestExpires, contextVars
<1>2. CASE DriverStep
  <2>1. UNCHANGED <<lifecycle, refill>> /\ driver # "stopped"
    BY <1>2 DEF DriverStep, DriverLoop, DriverTick, DriverCheck, DriverPark,
                DriverTimeout, DriverSlept, DriverGoto
  <2>2. QED BY <2>1
<1>3. ASSUME NEW i \in Ids, StartTask(i) PROVE DropInv'
  BY <1>3 DEF StartTask
<1>4. ASSUME NEW i \in Ids, FinishTask(i) PROVE DropInv'
  BY <1>4 DEF FinishTask
<1>5. ASSUME NEW i \in Ids, CancelRequest(i) PROVE DropInv'
  BY <1>5 DEF CancelRequest, contextVars
<1>6. CASE Drop
  BY <1>6 DEF Drop, DropContext, JoinDriver, StopRefill, Drain, LifecycleGoto
<1>7. CASE UNCHANGED allVars  BY <1>7 DEF allVars, contextVars
<1>8. QED BY <1>1, <1>2, <1>3, <1>4, <1>5, <1>6, <1>7 DEF ContextNext, Generation

LEMMA WorkType ==
    ASSUME work \in [Ids -> Work], [ContextNext]_allVars
    PROVE  work' \in [Ids -> Work]
BY DEF Work, ContextNext, Caller, CallContext, WakeDriver, RequestStep, RequestExpires,
       DriverStep, DriverLoop, DriverTick, DriverCheck, DriverPark, DriverTimeout,
       DriverSlept, Generation, StartTask, FinishTask, CancelRequest, Drop, DropContext,
       JoinDriver, StopRefill, Drain, allVars, contextVars

\* lib.rs:274-287: once the world is dropped the driver has stopped, no task
\* runs and none can be started, however many requests expired before.
THEOREM NoTaskOutlives == ContextSpec => []NoTaskOutlivesWorld
<1> DEFINE Typed == work \in [Ids -> Work]
<1>1. ContextInit => DropInv /\ Typed
  BY DEF ContextInit, DropInv, Lifecycle, Work
<1>2. DropInv /\ Typed /\ [ContextNext]_allVars => (DropInv /\ Typed)'
  BY DropStep, WorkType
<1>3. DropInv => NoTaskOutlivesWorld  BY DEF DropInv, NoTaskOutlivesWorld
<1>4. QED BY <1>1, <1>2, <1>3, PTL DEF ContextSpec

----------------------------------------------------------------------------
(***************************************************************************)
(* Types.  A task counts one stage, so what bounds stagesDone is that only *)
(* requests with stages left have a task.                                  *)
(***************************************************************************)

ContextTypes ==
    /\ driver \in Driver
    /\ driverStop \in BOOLEAN
    /\ lifecycle \in Lifecycle
    /\ refill \in BOOLEAN
    /\ work \in [Ids -> Work]
    /\ stagesDone \in [Ids -> 0..Stages]

\* Requests with stages left: those that wait, and those that have a task.
StagesLeft ==
    \A i \in Ids :
        /\ handle[i] = "unissued" => work[i] = "none"
        /\ \/ handle[i] \in {"unissued", "pending"}
           \/ work[i] # "none"
           => stagesDone[i] < Stages

\* A request gets its handle once, in issue, and never waits again after it
\* was answered or dropped.
LEMMA CallerHandles ==
    ASSUME CoordinatorInv, NEW t \in Threads, Caller(t), NEW i \in Ids
    PROVE  \/ handle'[i] = handle[i]
           \/ handle[i] = "unissued" /\ handle'[i] = "pending"
           \/ handle'[i] \notin {"unissued", "pending"} /\ handle[i] # "unissued"
<1> USE DEF CoordinatorInv, TypeOK, Goto
<1>1. CASE Issue(t)
  <2>1. handle[req[t].id] = "unissued"
    BY <1>1 DEF Issue, HandlesInStep, HandleOf
  <2>2. handle' = [handle EXCEPT ![req[t].id] = "pending"]  BY <1>1 DEF Issue
  <2>3. QED BY <2>1, <2>2
<1>2. CASE PollCancelled(t) \/ PollExpired(t)
  BY <1>2 DEF PollCancelled, PollExpired, HandleOf
<1>3. CASE Finish(t)
  <2>1. CASE i = req[t].id
    <3>1. handle[i] # "unissued"
      BY <1>3, <2>1 DEF Finish, HandlesInStep, Holding, HandleOf, LiveHandle
    <3>2. QED BY <1>3, <3>1 DEF Finish
  <2>2. CASE \E r \in retired : r.id = i
    <3>1. handle[i] # "unissued"  BY <2>2 DEF RetiredInStep, LiveHandle
    <3>2. QED BY <1>3, <3>1 DEF Finish
  <2>3. CASE i # req[t].id /\ ~ \E r \in retired : r.id = i
    BY <1>3, <2>3 DEF Finish, EntryOf
  <2>4. QED BY <2>1, <2>2, <2>3
<1>4. CASE \/ Call(t) \/ Register(t) \/ Begin(t) \/ Wake(t)
           \/ PollReady(t) \/ End(t) \/ Read(t)
  BY <1>4 DEF Call, Register, Begin, Wake, PollReady, End, Read
<1>5. QED BY <1>1, <1>2, <1>3, <1>4
          DEF Caller, CallContext, WakeDriver, RequestStep, RequestExpires

LEMMA ContextTypesStep ==
    ASSUME CoordinatorInv, ContextTypes, StagesLeft, [ContextNext]_allVars
    PROVE  (ContextTypes /\ StagesLeft)'
<1> USE DEF ContextTypes, StagesLeft, Driver, Lifecycle, Work
<1>0. Stages \in Nat \ {0}  BY StagesAssumption
<1>1. ASSUME NEW t \in Threads, Caller(t) PROVE (ContextTypes /\ StagesLeft)'
  <2>1. /\ UNCHANGED <<driverStop, lifecycle, refill, work, stagesDone>>
        /\ driver' \in Driver
    BY <1>1 DEF Caller, CallContext, WakeDriver, RequestStep, RequestExpires, contextVars
  <2>2. StagesLeft'  BY <1>1, <2>1, CallerHandles
  <2>3. QED BY <2>1, <2>2
<1>2. CASE DriverStep
  <2>1. /\ UNCHANGED <<handle, driverStop, lifecycle, refill, stagesDone>>
        /\ driver' \in Driver
        /\ \/ UNCHANGED work
           \/ work' = [i \in Ids |-> IF handle[i] = "pending" /\ work[i] = "none"
                                     THEN "queued" ELSE work[i]]
    BY <1>2 DEF DriverStep, DriverLoop, DriverTick, DriverCheck, DriverPark,
                DriverTimeout, DriverSlept, DriverGoto, vars
  <2>2. QED BY <2>1
<1>3. ASSUME NEW i \in Ids, StartTask(i) PROVE (ContextTypes /\ StagesLeft)'
  BY <1>3 DEF StartTask, vars
<1>4. ASSUME NEW i \in Ids, FinishTask(i) PROVE (ContextTypes /\ StagesLeft)'
  <2>1. /\ UNCHANGED <<driver, driverStop, lifecycle, refill>>
        /\ work[i] = "running" /\ work' = [work EXCEPT ![i] = "none"]
        /\ stagesDone' = [stagesDone EXCEPT ![i] = stagesDone[i] + 1]
    BY <1>4 DEF FinishTask
  <2>2. /\ stagesDone[i] \in 0..Stages /\ stagesDone[i] < Stages
        /\ handle[i] # "unissued"
    BY <2>1
  <2>3. ContextTypes'  BY <1>0, <2>1, <2>2
  <2>4. /\ \A j \in Ids \ {i} : handle'[j] = handle[j]
        /\ handle'[i] # "unissued"
        /\ handle'[i] = "pending" => stagesDone'[i] < Stages
    <3>1. CASE stagesDone'[i] = Stages /\ handle[i] = "pending"
      BY <1>4, <3>1 DEF FinishTask, Generated, Answer, CoordinatorInv, TypeOK
    <3>2. CASE ~(stagesDone'[i] = Stages /\ handle[i] = "pending")
      <4>1. UNCHANGED handle  BY <1>4, <3>2 DEF FinishTask, vars
      <4>2. stagesDone'[i] \in 0..Stages  BY <2>3
      <4>3. QED BY <1>0, <2>2, <3>2, <4>1, <4>2
    <3>3. QED BY <3>1, <3>2
  <2>5. StagesLeft'  BY <2>1, <2>4
  <2>6. QED BY <2>3, <2>5
<1>5. ASSUME NEW i \in Ids, CancelRequest(i) PROVE (ContextTypes /\ StagesLeft)'
  BY <1>5 DEF CancelRequest, Cancel, Answer, contextVars, CoordinatorInv, TypeOK
<1>6. CASE Drop
  BY <1>6 DEF Drop, DropContext, JoinDriver, StopRefill, Drain, LifecycleGoto, vars
<1>7. CASE UNCHANGED allVars  BY <1>7 DEF allVars, contextVars, vars
<1>8. QED BY <1>1, <1>2, <1>3, <1>4, <1>5, <1>6, <1>7 DEF ContextNext, Generation

\* lib.rs:182-199: only requests with stages left have a task, always.
LEMMA ContextTypesInvariant == ContextSpec => [](ContextTypes /\ StagesLeft)
<1>1. ContextInit => ContextTypes /\ StagesLeft
  <2> SUFFICES ASSUME ContextInit PROVE ContextTypes /\ StagesLeft  OBVIOUS
  <2>1. stagesDone \in [Ids -> 0..Stages] /\ work \in [Ids -> Work]
    BY StagesAssumption DEF ContextInit, Work
  <2>2. ContextTypes  BY <2>1 DEF ContextInit, ContextTypes, Driver, Lifecycle
  <2>3. StagesLeft  BY StagesAssumption DEF ContextInit, Init, StagesLeft
  <2>4. QED BY <2>2, <2>3
<1>2. CoordinatorInv /\ ContextTypes /\ StagesLeft /\ [ContextNext]_allVars
        => (ContextTypes /\ StagesLeft)'
  BY ContextTypesStep
<1>3. QED BY <1>1, <1>2, ContextImplementsCoordinator, CoordinatorInvariant, PTL
          DEF ContextSpec

\* requests.rs:89-112 and lib.rs:182-199: the types of the context's state; in
\* particular a request is never worked on beyond its last stage.
THEOREM ContextTypeCorrect == ContextSpec => []ContextTypeOK
<1>1. CoordinatorInv /\ ContextTypes => ContextTypeOK
  BY DEF CoordinatorInv, ContextTypes, ContextTypeOK
<1>2. QED BY <1>1, ContextTypesInvariant, ContextImplementsCoordinator,
             CoordinatorInvariant, PTL

----------------------------------------------------------------------------
(***************************************************************************)
(* Answers.                                                                *)
(***************************************************************************)

\* A request that was answered has had all its stages, before and after its
\* ticket is released, and only answered requests are retired.
AnswersKept ==
    /\ \A i \in Ids : handle[i] \in {"ready", "released"} => stagesDone[i] = Stages
    /\ \A t \in Threads : pc[t] \in {"end", "finish"} => HandleOf(t) = "ready"
    /\ \A r \in retired : handle[r.id] = "ready"
    /\ \A t \in Threads : pc[t] = "read" =>
          req[t].id \in Ids /\ stagesDone[req[t].id] = Stages

\* A caller changes its own request, and in Finish what is retired.
LEMMA CallerAnswers ==
    ASSUME CoordinatorInv, AnswersKept, NEW t \in Threads, Caller(t)
    PROVE  AnswersKept'
<1> USE DEF AnswersKept, HandleOf
<1>0. UNCHANGED stagesDone
  BY DEF Caller, CallContext, WakeDriver, RequestStep, RequestExpires, contextVars
<1>1. /\ TypeOK /\ IdsDrawn /\ HandlesInStep /\ RetiredInStep
      /\ \A u \in Threads : InRequest(u) => req[u].id \in Ids
  BY EntryType DEF CoordinatorInv
<1>2. \A u \in Threads \ {t} : InRequest(u) /\ InRequest(t) => req[u].id # req[t].id
  BY <1>1 DEF IdsDrawn
<1> USE DEF TypeOK, Goto, InRequest
<1>3. CASE Issue(t)
  <2>1. /\ pc[t] = "issue" /\ pc' = [pc EXCEPT ![t] = "begin"]
        /\ handle' = [handle EXCEPT ![req[t].id] = "pending"]
        /\ UNCHANGED <<req, retired>>
    BY <1>3 DEF Issue
  <2>2. \A r \in retired : r.id # req[t].id  BY <1>1, <2>1 DEF RetiredInStep
  <2>3. QED BY <1>0, <1>1, <1>2, <2>1, <2>2
<1>4. ASSUME NEW lost \in {"failed", "expired"},
             pc[t] = "poll", pc' = [pc EXCEPT ![t] = "idle"],
             handle' = [handle EXCEPT ![req[t].id] = lost], UNCHANGED <<req, retired>>
      PROVE  AnswersKept'
  <2>1. \A r \in retired : r.id # req[t].id  BY <1>1, <1>4 DEF RetiredInStep
  <2>2. QED BY <1>0, <1>1, <1>2, <1>4, <2>1
<1>5. CASE PollCancelled(t) \/ PollExpired(t)
  BY <1>4, <1>5 DEF PollCancelled, PollExpired
<1>6. CASE Finish(t)
  <2> DEFINE all == retired \cup {EntryOf(t)}
  <2>1. /\ pc[t] = "finish" /\ pc' = [pc EXCEPT ![t] = "read"]
        /\ handle' = [i \in Ids |-> IF \E r \in all \ retired' : r.id = i
                                    THEN "released" ELSE handle[i]]
        /\ retired' \subseteq all /\ UNCHANGED req
    BY <1>6 DEF Finish, Prune
  <2>2. /\ req[t].id \in Ids /\ handle[req[t].id] = "ready" /\ EntryOf(t).id = req[t].id
        /\ stagesDone[req[t].id] = Stages
    BY <1>1, <2>1 DEF EntryOf
  <2>3. \A r \in all : r.id \in Ids /\ handle[r.id] = "ready"
    BY <1>1, <2>2 DEF Entry
  <2>4. \A i \in Ids : handle'[i] \in {"ready", "released"} => stagesDone[i] = Stages
    BY <2>1, <2>3
  <2>5. \A r, s \in all : r.id = s.id => r = s
    BY <1>1, <2>1, <2>2 DEF RetiredInStep
  <2>6. \A r \in retired' : handle'[r.id] = "ready"
    BY <2>1, <2>3, <2>5
  <2>7. \A u \in Threads : pc'[u] \in {"end", "finish"} => handle'[req[u].id] = "ready"
    <3> SUFFICES ASSUME NEW u \in Threads, pc'[u] \in {"end", "finish"}
                 PROVE  handle'[req[u].id] = "ready"
      OBVIOUS
    <3>1. u # t /\ pc[u] = pc'[u]  BY <1>1, <2>1
    <3>2. req[u].id \in Ids /\ handle[req[u].id] = "ready"  BY <1>1, <3>1
    <3>3. \A r \in all : r.id # req[u].id
      BY <1>1, <1>2, <2>1, <2>2, <3>1 DEF RetiredInStep
    <3>4. QED BY <2>1, <3>2, <3>3
  <2>8. \A u \in Threads : pc'[u] = "read" =>
           req[u].id \in Ids /\ stagesDone[req[u].id] = Stages
    BY <2>1, <2>2
  <2>9. QED BY <1>0, <2>1, <2>4, <2>6, <2>7, <2>8
<1>7. CASE Call(t)
  BY <1>0, <1>7 DEF Call
<1>8. CASE Register(t) \/ Begin(t) \/ Wake(t) \/ PollReady(t) \/ End(t) \/ Read(t)
  BY <1>0, <1>1, <1>8 DEF Register, Begin, Wake, PollReady, End, Read
<1>9. QED BY <1>3, <1>5, <1>6, <1>7, <1>8
          DEF Caller, CallContext, WakeDriver, RequestStep, RequestExpires

\* Only the last stage of a pending request makes an answer.
LEMMA AnswersStep ==
    ASSUME CoordinatorInv, ContextTypes, StagesLeft, AnswersKept, [ContextNext]_allVars
    PROVE  AnswersKept'
<1> USE DEF AnswersKept, HandleOf
<1>0. /\ Stages \in Nat \ {0} /\ handle \in [Ids -> HandleState]
      /\ \A u \in Threads : pc[u] \in {"end", "finish"} => req[u].id \in Ids
      /\ \A r \in retired : r.id \in Ids
  BY StagesAssumption, EntryType DEF CoordinatorInv, TypeOK, InRequest, Entry
<1>1. ASSUME NEW t \in Threads, Caller(t) PROVE AnswersKept'
  BY <1>1, CallerAnswers
<1>2. CASE DriverStep
  BY <1>2 DEF DriverStep, DriverLoop, DriverTick, DriverCheck, DriverPark,
              DriverTimeout, DriverSlept, vars
<1>3. ASSUME NEW i \in Ids, StartTask(i) PROVE AnswersKept'
  BY <1>3 DEF StartTask, vars
<1>4. ASSUME NEW i \in Ids, FinishTask(i) PROVE AnswersKept'
  <2>1. /\ work[i] = "running"
        /\ stagesDone' = [stagesDone EXCEPT ![i] = stagesDone[i] + 1]
        /\ UNCHANGED <<pc, req, retired>>
    BY <1>4 DEF FinishTask, Generated, Answer, vars
  <2>2. stagesDone \in [Ids -> 0..Stages] /\ stagesDone[i] < Stages
    BY <2>1 DEF ContextTypes, StagesLeft
  <2>3. handle[i] \notin {"ready", "released"}  BY <2>2
  <2>4. \/ UNCHANGED handle
        \/ /\ handle' = [handle EXCEPT ![i] = "ready"] /\ stagesDone'[i] = Stages
    BY <1>4 DEF FinishTask, Generated, Answer, vars
  <2>5. \A u \in Threads : pc[u] = "read" => req[u].id # i  BY <1>0, <2>2
  <2>6. QED BY <1>0, <2>1, <2>2, <2>3, <2>4, <2>5
<1>5. ASSUME NEW i \in Ids, CancelRequest(i) PROVE AnswersKept'
  BY <1>0, <1>5 DEF CancelRequest, Cancel, Answer, contextVars
<1>6. CASE Drop
  BY <1>6 DEF Drop, DropContext, JoinDriver, StopRefill, Drain, vars
<1>7. CASE UNCHANGED allVars  BY <1>7 DEF allVars, contextVars, vars
<1>8. QED BY <1>1, <1>2, <1>3, <1>4, <1>5, <1>6, <1>7 DEF ContextNext, Generation

\* requests.rs:131-163 and lib.rs:228-234: a thread that comes out of the wait
\* copies its chunk from a world in which all the stages it asked for are done,
\* although its ticket may be released before the copy.
THEOREM ReadsFindAllStages == ContextSpec => []ReadsAreComplete
<1>1. ContextInit => AnswersKept
  BY DEF ContextInit, Init, AnswersKept, HandleOf
<1>2. CoordinatorInv /\ ContextTypes /\ StagesLeft /\ AnswersKept /\ [ContextNext]_allVars
        => AnswersKept'
  BY AnswersStep
<1>3. CoordinatorInv /\ AnswersKept => ReadsAreComplete
  <2> SUFFICES ASSUME CoordinatorInv, AnswersKept, NEW t \in Threads,
                      pc[t] \in {"end", "finish", "read"}
               PROVE  stagesDone[req[t].id] = Stages
    BY DEF ReadsAreComplete
  <2>1. pc[t] # "read" => req[t].id \in Ids
    BY EntryType DEF CoordinatorInv, InRequest
  <2>2. QED BY <2>1 DEF AnswersKept, HandleOf
<1>4. QED BY <1>1, <1>2, <1>3, ContextTypesInvariant, ContextImplementsCoordinator,
             CoordinatorInvariant, PTL DEF ContextSpec

\* No caller is inside the context once Drop runs.
Deserted == lifecycle # "alive" => \A t \in Threads : pc[t] = "idle"

\* lib.rs:265-287 and requests.rs:24: Drop finds no request under way; what is
\* left in the live count is the requests that were cancelled, so the driver
\* that Drop joins is in its long wait unless one of them keeps it awake.
THEOREM DropIsAlone ==
    ContextSpec => [](lifecycle # "alive" =>
                        /\ \A t \in Threads : pc[t] = "idle"
                        /\ inflight = Cardinality(FailedIds)
                        /\ {a.id : a \in active} = {i \in Ids : handle[i] \in Lost})
<1>1. ContextInit => Deserted  BY DEF ContextInit, Init, Deserted
<1>2. Deserted /\ [ContextNext]_allVars => Deserted'
  <2> SUFFICES ASSUME Deserted, [ContextNext]_allVars PROVE Deserted'  OBVIOUS
  <2> USE DEF Deserted
  <2>1. ASSUME NEW t \in Threads, Caller(t) PROVE Deserted'
    <3>1. UNCHANGED lifecycle
      BY <2>1 DEF Caller, CallContext, WakeDriver, RequestStep, RequestExpires, contextVars
    <3>2. lifecycle = "alive"
      BY <2>1 DEF Caller, CallContext, WakeDriver, RequestStep, RequestExpires, Wake,
                  Register, Issue, Begin, PollReady, PollCancelled, PollExpired, End,
                  Finish, Read, Goto
    <3>3. QED BY <3>1, <3>2
  <2>2. CASE DriverStep
    BY <2>2 DEF DriverStep, DriverLoop, DriverTick, DriverCheck, DriverPark,
                DriverTimeout, DriverSlept, vars
  <2>3. ASSUME NEW i \in Ids, StartTask(i) \/ FinishTask(i) \/ CancelRequest(i)
        PROVE  Deserted'
    BY <2>3 DEF StartTask, FinishTask, CancelRequest, Generated, Cancel, Answer,
                contextVars, vars
  <2>4. CASE Drop
    BY <2>4 DEF Drop, DropContext, JoinDriver, StopRefill, Drain, LifecycleGoto, vars
  <2>5. CASE UNCHANGED allVars  BY <2>5 DEF allVars, contextVars, vars
  <2>6. QED BY <2>1, <2>2, <2>3, <2>4, <2>5 DEF ContextNext, Generation
<1>3. Deserted /\ QuietResidue =>
        (lifecycle # "alive" =>
            /\ \A t \in Threads : pc[t] = "idle"
            /\ inflight = Cardinality(FailedIds)
            /\ {a.id : a \in active} = {i \in Ids : handle[i] \in Lost})
  BY DEF Deserted, QuietResidue
<1>4. QED BY <1>1, <1>2, <1>3, QuietLeavesLost, ContextImplementsCoordinator, PTL
          DEF ContextSpec
=============================================================================
