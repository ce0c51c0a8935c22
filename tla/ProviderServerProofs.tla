------------------------ MODULE ProviderServerProofs ------------------------
(***************************************************************************)
(* Theorems about ProviderServer, for every set of connections, of worlds  *)
(* and of contexts, and every idle timeout longer than a request.          *)
(***************************************************************************)
EXTENDS ProviderServer, FiniteSetTheorems, TLAPS

\* A context in use is the cached one and was used no longer ago than its
\* user began; nobody else holds one.
UseInStep ==
    /\ \A c \in Conns : pc[c] = "generating" =>
         /\ req[c] \in Keys /\ ctx[c] \in CtxIds
         /\ cache[req[c]] = ctx[c]
         /\ age[req[c]] <= busy[c]
    /\ \A c \in Conns : pc[c] # "generating" => ctx[c] = NoCtx
    /\ \A c \in Conns : pc[c] = "lookup" => req[c] \in Requests

\* Who holds the mutex, and what it protects meanwhile.
LockInStep ==
    /\ \A c \in Conns : pc[c] = "creating" =>
         lock = c /\ req[c] \in Keys /\ cache[req[c]] = NoCtx
    /\ sweeper = "dropping" <=> lock = Sweeper
    /\ sweeper # "dropping" => dropping = {}

\* Every context is the one cached for its key or is being dropped.
ContextsInStep ==
    /\ \A k \in Keys : cache[k] # NoCtx => keyOf[cache[k]] = k
    /\ \A i \in CtxIds : keyOf[i] # NoKey => cache[keyOf[i]] = i \/ i \in dropping
    /\ \A i \in dropping : keyOf[i] \in Keys /\ cache[keyOf[i]] = NoCtx
    /\ \A i, j \in dropping : keyOf[i] = keyOf[j] => i = j

\* The inductive invariant.
ServerInv ==
    /\ TypeOK /\ InUseIsCached /\ OneContextPerKey
    /\ running => UseInStep /\ LockInStep /\ ContextsInStep

----------------------------------------------------------------------------

LEMMA OneContext ==
    ASSUME TypeOK, ContextsInStep
    PROVE  OneContextPerKey
<1> SUFFICES ASSUME NEW i \in CtxIds, NEW j \in CtxIds,
                    keyOf[i] # NoKey, keyOf[i] = keyOf[j]
             PROVE  i = j
  BY DEF OneContextPerKey
<1>1. NoCtx \notin CtxIds  BY ServerAssumption
<1>2. QED BY <1>1 DEF ContextsInStep

LEMMA TypeStep ==
    ASSUME TypeOK, [Next]_vars, running => UseInStep /\ LockInStep /\ ContextsInStep
    PROVE  TypeOK'
<1> USE DEF TypeOK, PC
<1>0. RequestTicks \in Nat /\ IdleTicks \in Nat /\ SweepTicks \in Nat
  BY ServerAssumption
<1>1. ASSUME NEW c \in Conns,
             Accept(c) \/ ReadRequest(c) \/ Eof(c) \/ WriteResponse(c) \/ WriteFails(c)
      PROVE  TypeOK'
  BY <1>1 DEF Accept, ReadRequest, Eof, WriteResponse, WriteFails, Forget, Goto,
              cacheVars, sweeperVars
<1>2. ASSUME NEW c \in Conns, RefuseDimension(c) \/ LookupPoisoned(c) \/ CreatePanics(c)
      PROVE  TypeOK'
  <2>1. req[c] \in Requests
    BY <1>2 DEF RefuseDimension, LookupPoisoned, CreatePanics, Goto, Requests, LockInStep, UseInStep
  <2>2. reply' \in [Conns -> Replies \cup {NoRequest}]
    BY <1>2, <2>1 DEF RefuseDimension, LookupPoisoned, CreatePanics, Error, Replies
  <2>3. pc' \in [Conns -> PC] /\ lock' \in Conns \cup {Free, Sweeper} /\ poisoned' \in BOOLEAN
    BY <1>2 DEF RefuseDimension, LookupPoisoned, CreatePanics, Goto, cacheVars
  <2>4. UNCHANGED <<running, req, ctx, busy, cache, age, keyOf, sweeper, timer, dropping>>
    BY <1>2 DEF RefuseDimension, LookupPoisoned, CreatePanics, cacheVars, sweeperVars
  <2>5. QED BY <2>2, <2>3, <2>4
<1>3. ASSUME NEW c \in Conns, Hit(c) PROVE TypeOK'
  BY <1>0, <1>3 DEF Hit, Goto, Use, Missing, sweeperVars
<1>4. ASSUME NEW c \in Conns, Miss(c) PROVE TypeOK'
  BY <1>4 DEF Miss, Goto, sweeperVars
<1>5. ASSUME NEW c \in Conns, Create(c) PROVE TypeOK'
  <2>1. PICK i \in CtxIds : /\ keyOf' = [keyOf EXCEPT ![i] = req[c]]
                            /\ cache' = [cache EXCEPT ![req[c]] = i]
                            /\ Use(c, i)
    BY <1>5 DEF Create, Unborn
  <2>2. req[c] \in Keys  BY <1>5 DEF Create, Goto, LockInStep
  <2>3. keyOf' \in [CtxIds -> Keys \cup {NoKey}] /\ cache' \in [Keys -> CtxIds \cup {NoCtx}]
    BY <2>1, <2>2
  <2>4. ctx' \in [Conns -> CtxIds \cup {NoCtx}] /\ busy' \in [Conns -> 0..RequestTicks]
    BY <1>0, <2>1 DEF Use
  <2>5. age' \in [Keys -> 0..IdleTicks]  BY <1>0, <1>5, <2>2 DEF Create
  <2>6. pc' \in [Conns -> PC] /\ lock' = Free  BY <1>5 DEF Create, Goto
  <2>7. UNCHANGED <<running, req, reply, poisoned, sweeper, timer, dropping>>
    BY <1>5 DEF Create, sweeperVars
  <2>8. QED BY <2>3, <2>4, <2>5, <2>6, <2>7
<1>6. ASSUME NEW c \in Conns, Generate(c) \/ GeneratePanics(c) PROVE TypeOK'
  <2>1. ctx[c] \in CtxIds /\ cache[req[c]] = ctx[c] /\ req[c] \in Keys
    BY <1>6 DEF Generate, GeneratePanics, Goto, UseInStep
  <2>2. keyOf' = keyOf
    BY <1>6, <2>1 DEF Generate, GeneratePanics, Release
  <2>3. Release(c) /\ ctx' \in [Conns -> CtxIds \cup {NoCtx}] /\ busy' \in [Conns -> 0..RequestTicks]
    BY <1>0, <1>6 DEF Generate, GeneratePanics, Release
  <2>4. pc' \in [Conns -> PC]  BY <1>6 DEF Generate, GeneratePanics, Goto
  <2>5. UNCHANGED <<running, req, lock, poisoned, cache, age, sweeperVars>>
    BY <1>6 DEF Generate, GeneratePanics
  <2>6. reply' \in [Conns -> Replies \cup {NoRequest}]
    <3>1. CASE GeneratePanics(c)
      BY <3>1, <2>1 DEF GeneratePanics, Error, Replies, Requests
    <3>2. CASE Generate(c)
      <4>1. reply' = [reply EXCEPT ![c] = [of |-> keyOf[ctx[c]], status |-> "ok"]]
        BY <3>2 DEF Generate
      <4>2. keyOf[ctx[c]] \in Requests
        BY <2>1, <3>2, ServerAssumption DEF Generate, Goto, ContextsInStep, Requests
      <4>3. QED BY <4>1, <4>2 DEF Replies
    <3>3. QED BY <1>6, <3>1, <3>2
  <2>7. QED BY <2>2, <2>3, <2>4, <2>5, <2>6 DEF sweeperVars
<1>7. CASE Sweep
  <2>1. dropping' \subseteq CtxIds
    BY <1>7 DEF Sweep, Expired, Missing
  <2>2. cache' \in [Keys -> CtxIds \cup {NoCtx}]  BY <1>7 DEF Sweep
  <2>3. QED BY <1>7, <2>1, <2>2 DEF Sweep, handlerVars
<1>8. CASE SweepEnds  BY <1>0, <1>8 DEF SweepEnds, handlerVars
<1>9. CASE SweeperDies  BY <1>9 DEF SweeperDies, handlerVars, cacheVars
<1>10. CASE Tick
  <2>1. busy' \in [Conns -> 0..RequestTicks]
    BY <1>0, <1>10 DEF Tick
  <2>2. age' \in [Keys -> 0..IdleTicks]  BY <1>0, <1>10 DEF Tick
  <2>3. timer' \in 0..SweepTicks  BY <1>0, <1>10 DEF Tick
  <2>4. QED BY <1>10, <2>1, <2>2, <2>3 DEF Tick
<1>11. CASE AcceptFails  BY <1>11 DEF AcceptFails, cacheVars, sweeperVars
<1>12. CASE UNCHANGED vars  BY <1>12 DEF vars, handlerVars, cacheVars, sweeperVars
<1>13. QED
  BY <1>1, <1>2, <1>3, <1>4, <1>5, <1>6, <1>7, <1>8, <1>9, <1>10, <1>11, <1>12
     DEF Next, Peer, Lookup, Work

----------------------------------------------------------------------------
(***************************************************************************)
(* The steps, by what they touch.                                          *)
(***************************************************************************)

Structure == UseInStep /\ LockInStep /\ ContextsInStep

\* Reading, refusing, writing and closing leave contexts and mutex alone.
LEMMA FramingStep ==
    ASSUME TypeOK, Structure, NEW c \in Conns,
           \/ Accept(c) \/ ReadRequest(c) \/ Eof(c) \/ RefuseDimension(c)
           \/ LookupPoisoned(c) \/ WriteResponse(c) \/ WriteFails(c)
    PROVE  Structure'
<1>1. /\ UNCHANGED <<ctx, busy, cacheVars, sweeperVars>>
      /\ \A d \in Conns \ {c} : pc'[d] = pc[d] /\ req'[d] = req[d]
      /\ pc[c] \notin {"generating", "creating"} /\ pc'[c] \notin {"generating", "creating"}
      /\ pc'[c] = "lookup" => req'[c] \in Requests
  BY DEF Accept, ReadRequest, Eof, RefuseDimension, LookupPoisoned, WriteResponse,
         WriteFails, Forget, Goto, TypeOK
<1>2. UseInStep'  BY <1>1 DEF Structure, UseInStep, cacheVars
<1>3. LockInStep'  BY <1>1 DEF Structure, LockInStep, cacheVars, sweeperVars
<1>4. ContextsInStep'  BY <1>1 DEF Structure, ContextsInStep, cacheVars, sweeperVars
<1>5. QED BY <1>2, <1>3, <1>4 DEF Structure

\* main.rs:114-117: a hit makes the cached context young again.
LEMMA HitStep ==
    ASSUME TypeOK, Structure, NEW c \in Conns, Hit(c)
    PROVE  Structure'
<1>0. NoCtx \notin CtxIds /\ RequestTicks \in Nat /\ IdleTicks \in Nat  BY ServerAssumption
<1>1. /\ pc[c] = "lookup" /\ pc' = [pc EXCEPT ![c] = "generating"]
      /\ req[c] \in Keys /\ cache[req[c]] \in CtxIds
      /\ ctx' = [ctx EXCEPT ![c] = cache[req[c]]] /\ busy' = [busy EXCEPT ![c] = 0]
      /\ age' = [age EXCEPT ![req[c]] = 0]
      /\ UNCHANGED <<req, lock, cache, keyOf, sweeperVars>>
  BY DEF Hit, Goto, Use, Missing, TypeOK
<1>2. UseInStep'
  <2>1. ASSUME NEW d \in Conns, pc'[d] = "generating"
        PROVE  /\ req'[d] \in Keys /\ ctx'[d] \in CtxIds
               /\ cache'[req'[d]] = ctx'[d] /\ age'[req'[d]] <= busy'[d]
    <3>1. CASE d = c  BY <1>0, <1>1, <3>1 DEF TypeOK
    <3>2. CASE d # c
      <4>1. pc[d] = "generating" /\ ctx'[d] = ctx[d] /\ busy'[d] = busy[d]
        BY <1>1, <2>1, <3>2 DEF TypeOK
      <4>2. age'[req[d]] = 0 \/ age'[req[d]] = age[req[d]]
        BY <1>1, <4>1 DEF TypeOK, Structure, UseInStep
      <4>3. busy[d] \in 0..RequestTicks  BY DEF TypeOK
      <4>4. QED BY <1>0, <1>1, <4>1, <4>2, <4>3 DEF Structure, UseInStep
    <3>3. QED BY <3>1, <3>2
  <2>2. ASSUME NEW d \in Conns, pc'[d] # "generating" PROVE ctx'[d] = NoCtx
    BY <1>1, <2>2 DEF TypeOK, Structure, UseInStep
  <2>3. ASSUME NEW d \in Conns, pc'[d] = "lookup" PROVE req'[d] \in Requests
    BY <1>1, <2>3 DEF TypeOK, Structure, UseInStep
  <2>4. QED BY <2>1, <2>2, <2>3 DEF UseInStep
<1>3. LockInStep'  BY <1>1 DEF Structure, LockInStep, sweeperVars, TypeOK
<1>4. ContextsInStep'  BY <1>1 DEF Structure, ContextsInStep, sweeperVars
<1>5. QED BY <1>2, <1>3, <1>4 DEF Structure

\* main.rs:119: the creator of a missing context keeps the mutex.
LEMMA MissStep ==
    ASSUME TypeOK, Structure, NEW c \in Conns, Miss(c)
    PROVE  Structure'
<1>1. /\ pc[c] = "lookup" /\ pc' = [pc EXCEPT ![c] = "creating"]
      /\ req[c] \in Keys /\ cache[req[c]] = NoCtx /\ lock = Free /\ lock' = c
      /\ UNCHANGED <<req, ctx, busy, cache, age, keyOf, sweeperVars>>
  BY DEF Miss, Goto, LockCache, Missing
<1>2. UseInStep'  BY <1>1 DEF Structure, UseInStep, TypeOK
<1>3. LockInStep'
  BY <1>1, ServerAssumption DEF Structure, LockInStep, sweeperVars, TypeOK
<1>4. ContextsInStep'  BY <1>1 DEF Structure, ContextsInStep, sweeperVars
<1>5. QED BY <1>2, <1>3, <1>4 DEF Structure


\* main.rs:119-121: the key of a new context has no other one, because the
\* mutex was not given up since it was missed.
LEMMA CreateStep ==
    ASSUME TypeOK, Structure, NEW c \in Conns, Create(c)
    PROVE  Structure'
<1>0. /\ NoCtx \notin CtxIds /\ RequestTicks \in Nat /\ IdleTicks \in Nat
      /\ Free # Sweeper /\ \A d \in Conns : d # Sweeper /\ d # Free
      /\ NoKey \notin Keys
  BY ServerAssumption DEF NoKey
<1>1. PICK i \in CtxIds : /\ keyOf[i] = NoKey
                          /\ keyOf' = [keyOf EXCEPT ![i] = req[c]]
                          /\ cache' = [cache EXCEPT ![req[c]] = i]
                          /\ ctx' = [ctx EXCEPT ![c] = i]
                          /\ busy' = [busy EXCEPT ![c] = 0]
  BY DEF Create, Unborn, Use
<1>2. /\ pc[c] = "creating" /\ pc' = [pc EXCEPT ![c] = "generating"]
      /\ age' = [age EXCEPT ![req[c]] = 0] /\ lock' = Free
      /\ UNCHANGED <<req, sweeperVars>>
  BY DEF Create, Goto
<1>3. lock = c /\ req[c] \in Keys /\ cache[req[c]] = NoCtx /\ dropping = {}
  BY <1>0, <1>2 DEF Structure, LockInStep
<1>4. UseInStep'
  <2>1. ASSUME NEW d \in Conns, pc'[d] = "generating"
        PROVE  /\ req'[d] \in Keys /\ ctx'[d] \in CtxIds
               /\ cache'[req'[d]] = ctx'[d] /\ age'[req'[d]] <= busy'[d]
    <3>1. CASE d = c  BY <1>0, <1>1, <1>2, <1>3, <3>1 DEF TypeOK
    <3>2. CASE d # c
      <4>1. pc[d] = "generating" /\ ctx'[d] = ctx[d] /\ busy'[d] = busy[d]
        BY <1>1, <1>2, <2>1, <3>2 DEF TypeOK
      <4>2. req[d] # req[c]
        BY <1>0, <1>3, <4>1 DEF Structure, UseInStep
      <4>3. QED BY <1>1, <1>2, <1>3, <4>1, <4>2 DEF TypeOK, Structure, UseInStep
    <3>3. QED BY <3>1, <3>2
  <2>2. ASSUME NEW d \in Conns, pc'[d] # "generating" PROVE ctx'[d] = NoCtx
    BY <1>1, <1>2, <2>2 DEF TypeOK, Structure, UseInStep
  <2>3. ASSUME NEW d \in Conns, pc'[d] = "lookup" PROVE req'[d] \in Requests
    BY <1>2, <2>3 DEF TypeOK, Structure, UseInStep
  <2>4. QED BY <2>1, <2>2, <2>3 DEF UseInStep
<1>5. LockInStep'
  <2>1. \A d \in Conns : pc[d] = "creating" => d = c
    BY <1>3 DEF Structure, LockInStep
  <2>2. \A d \in Conns : pc'[d] # "creating"
    BY <1>2, <2>1 DEF TypeOK
  <2>3. QED BY <1>0, <1>2, <1>3, <2>2 DEF Structure, LockInStep, sweeperVars
<1>6. ContextsInStep'
  <2>1. \A k \in Keys : cache'[k] # NoCtx => keyOf'[cache'[k]] = k
    <3> SUFFICES ASSUME NEW k \in Keys, cache'[k] # NoCtx PROVE keyOf'[cache'[k]] = k
      OBVIOUS
    <3>1. CASE k = req[c]  BY <1>1, <1>3, <3>1 DEF TypeOK
    <3>2. CASE k # req[c]
      <4>1. cache'[k] = cache[k] /\ keyOf[cache[k]] = k /\ cache[k] \in CtxIds
        BY <1>1, <3>2 DEF TypeOK, Structure, ContextsInStep
      <4>2. cache[k] # i  BY <1>0, <1>1, <4>1
      <4>3. QED BY <1>1, <4>1, <4>2 DEF TypeOK
    <3>3. QED BY <3>1, <3>2
  <2>2. \A j \in CtxIds : keyOf'[j] # NoKey => cache'[keyOf'[j]] = j
    <3> SUFFICES ASSUME NEW j \in CtxIds, keyOf'[j] # NoKey PROVE cache'[keyOf'[j]] = j
      OBVIOUS
    <3>1. CASE j = i  BY <1>1, <1>3, <3>1 DEF TypeOK
    <3>2. CASE j # i
      <4>1. keyOf'[j] = keyOf[j] /\ cache[keyOf[j]] = j /\ keyOf[j] \in Keys
        BY <1>1, <1>3, <3>2 DEF TypeOK, Structure, ContextsInStep
      <4>2. keyOf[j] # req[c]  BY <1>0, <1>3, <4>1
      <4>3. QED BY <1>1, <4>1, <4>2 DEF TypeOK
    <3>3. QED BY <3>1, <3>2
  <2>3. dropping' = {}  BY <1>2, <1>3 DEF sweeperVars
  <2>4. QED BY <2>1, <2>2, <2>3 DEF ContextsInStep
<1>7. QED BY <1>4, <1>5, <1>6 DEF Structure

\* main.rs:161-165: neither a panic of the creation nor the end of a request
\* moves a context.
LEMMA ReleaseStep ==
    ASSUME TypeOK, Structure, NEW c \in Conns,
           CreatePanics(c) \/ Generate(c) \/ GeneratePanics(c)
    PROVE  Structure'
<1>0. NoCtx \notin CtxIds /\ Free # Sweeper /\ \A d \in Conns : d # Sweeper /\ d # Free
  BY ServerAssumption
<1>1. CASE CreatePanics(c)
  <2>1. /\ pc[c] = "creating" /\ pc' = [pc EXCEPT ![c] = "respond"]
        /\ lock = c /\ lock' = Free
        /\ UNCHANGED <<req, ctx, busy, cache, age, keyOf, sweeperVars>>
    BY <1>1 DEF CreatePanics, Goto, Structure, LockInStep
  <2>2. UseInStep'  BY <2>1 DEF Structure, UseInStep, TypeOK
  <2>3. LockInStep'  BY <1>0, <2>1 DEF Structure, LockInStep, TypeOK, sweeperVars
  <2>4. ContextsInStep'  BY <2>1 DEF Structure, ContextsInStep, sweeperVars
  <2>5. QED BY <2>2, <2>3, <2>4 DEF Structure
<1>2. CASE Generate(c) \/ GeneratePanics(c)
  <2>1. /\ pc[c] = "generating" /\ pc' = [pc EXCEPT ![c] = "respond"]
        /\ ctx' = [ctx EXCEPT ![c] = NoCtx] /\ busy' = [busy EXCEPT ![c] = 0]
        /\ UNCHANGED <<req, lock, cache, age, sweeperVars>>
    BY <1>2 DEF Generate, GeneratePanics, Goto, Release
  <2>2. keyOf' = keyOf
    BY <1>2, <2>1 DEF Generate, GeneratePanics, Release, Structure, UseInStep
  <2>3. UseInStep'  BY <2>1 DEF Structure, UseInStep, TypeOK
  <2>4. LockInStep'  BY <2>1 DEF Structure, LockInStep, TypeOK, sweeperVars
  <2>5. ContextsInStep'  BY <2>1, <2>2 DEF Structure, ContextsInStep, sweeperVars
  <2>6. QED BY <2>3, <2>4, <2>5 DEF Structure
<1>3. QED BY <1>1, <1>2

\* main.rs:131-135: a context that is in use is younger than the idle timeout,
\* so everything the sweeper evicts is its own to drop.
LEMMA SweepStep ==
    ASSUME TypeOK, Structure, Sweep
    PROVE  Structure'
<1>0. /\ NoCtx \notin CtxIds /\ RequestTicks \in Nat /\ IdleTicks \in Nat
      /\ RequestTicks < IdleTicks /\ Free # Sweeper
      /\ \A d \in Conns : d # Sweeper /\ d # Free
  BY ServerAssumption
<1>1. /\ cache' = [k \in Keys |-> IF Expired(k) THEN NoCtx ELSE cache[k]]
      /\ dropping' = {cache[k] : k \in {j \in Keys :
                        Expired(j) /\ \A c \in Conns : ctx[c] # cache[j]}}
      /\ sweeper = "asleep" /\ sweeper' = "dropping" /\ lock = Free /\ lock' = Sweeper
      /\ UNCHANGED <<handlerVars, age, keyOf>>
  BY DEF Sweep, LockCache
<1>2. ASSUME NEW c \in Conns, pc[c] = "generating" PROVE ~Expired(req[c])
  <2>1. req[c] \in Keys /\ age[req[c]] <= busy[c]
    BY <1>2 DEF Structure, UseInStep
  <2>2. busy[c] \in 0..RequestTicks /\ age[req[c]] \in 0..IdleTicks
    BY <2>1 DEF TypeOK
  <2>3. QED BY <1>0, <2>1, <2>2 DEF Expired
<1>3. ASSUME NEW k \in Keys, Expired(k)
      PROVE  cache[k] \in CtxIds /\ keyOf[cache[k]] = k /\ cache[k] \in dropping'
  <2>1. cache[k] \in CtxIds /\ keyOf[cache[k]] = k
    BY <1>3 DEF Expired, Missing, TypeOK, Structure, ContextsInStep
  <2>2. ASSUME NEW c \in Conns, ctx[c] = cache[k] PROVE FALSE
    <3>1. pc[c] = "generating"  BY <1>0, <2>1, <2>2 DEF Structure, UseInStep
    <3>2. req[c] \in Keys /\ cache[req[c]] = cache[k]  BY <2>2, <3>1 DEF Structure, UseInStep
    <3>3. req[c] = k  BY <1>0, <2>1, <3>2 DEF Structure, ContextsInStep
    <3>4. QED BY <1>2, <1>3, <3>1, <3>3
  <2>3. QED BY <1>1, <1>3, <2>1, <2>2
<1>4. ASSUME NEW i \in dropping'
      PROVE  \E k \in Keys : Expired(k) /\ i = cache[k] /\ keyOf[i] = k /\ cache'[k] = NoCtx
  BY <1>1, <1>3, <1>4
<1>5. UseInStep'
  <2>1. ASSUME NEW c \in Conns, pc[c] = "generating"
        PROVE  req[c] \in Keys /\ cache'[req[c]] = cache[req[c]]
    BY <1>1, <1>2, <2>1 DEF Structure, UseInStep
  <2>2. QED BY <1>1, <2>1 DEF Structure, UseInStep, handlerVars
<1>6. LockInStep'
  <2>1. \A c \in Conns : pc[c] # "creating"
    BY <1>0, <1>1 DEF Structure, LockInStep
  <2>2. QED BY <1>1, <2>1 DEF LockInStep, handlerVars
<1>7. ContextsInStep'
  <2>1. \A k \in Keys : cache'[k] # NoCtx => keyOf'[cache'[k]] = k
    BY <1>1 DEF Structure, ContextsInStep
  <2>2. \A i \in CtxIds : keyOf'[i] # NoKey => cache'[keyOf'[i]] = i \/ i \in dropping'
    <3> SUFFICES ASSUME NEW i \in CtxIds, keyOf[i] # NoKey
                 PROVE  cache'[keyOf[i]] = i \/ i \in dropping'
      BY <1>1
    <3>1. dropping = {}  BY <1>1 DEF Structure, LockInStep
    <3>2. keyOf[i] \in Keys /\ cache[keyOf[i]] = i
      BY <3>1 DEF TypeOK, Structure, ContextsInStep
    <3>3. QED BY <1>1, <1>3, <3>2
  <2>3. \A i \in dropping' : keyOf'[i] \in Keys /\ cache'[keyOf'[i]] = NoCtx
    BY <1>1, <1>4
  <2>4. \A i, j \in dropping' : keyOf'[i] = keyOf'[j] => i = j
    BY <1>1, <1>4
  <2>5. QED BY <2>1, <2>2, <2>3, <2>4 DEF ContextsInStep
<1>8. QED BY <1>5, <1>6, <1>7 DEF Structure

\* main.rs:136: the mutex is given back when the evicted contexts are gone.
LEMMA SweepEndsStep ==
    ASSUME TypeOK, Structure, SweepEnds
    PROVE  Structure'
<1>0. Free # Sweeper /\ \A d \in Conns : d # Sweeper /\ d # Free /\ NoKey \notin Keys
  BY ServerAssumption DEF NoKey
<1>1. /\ keyOf' = [i \in CtxIds |-> IF i \in dropping THEN NoKey ELSE keyOf[i]]
      /\ dropping' = {} /\ sweeper = "dropping" /\ lock = Sweeper
      /\ sweeper' = "asleep" /\ lock' = Free
      /\ UNCHANGED <<handlerVars, cache, age>>
  BY DEF SweepEnds, Structure, LockInStep
<1>2. UseInStep'  BY <1>1 DEF Structure, UseInStep, handlerVars
<1>3. LockInStep'
  BY <1>0, <1>1 DEF Structure, LockInStep, handlerVars
<1>4. ContextsInStep'
  <2>1. ASSUME NEW k \in Keys, cache[k] # NoCtx PROVE keyOf'[cache[k]] = k
    <3>1. cache[k] \in CtxIds /\ keyOf[cache[k]] = k
      BY <2>1 DEF TypeOK, Structure, ContextsInStep
    <3>2. cache[k] \notin dropping  BY <2>1, <3>1 DEF Structure, ContextsInStep
    <3>3. QED BY <1>1, <3>1, <3>2
  <2>2. QED BY <1>0, <1>1, <2>1 DEF Structure, ContextsInStep
<1>5. QED BY <1>2, <1>3, <1>4 DEF Structure

\* Time makes a cached context older no faster than its users.
LEMMA TickStep ==
    ASSUME TypeOK, Structure, Tick
    PROVE  Structure'
<1>0. RequestTicks \in Nat /\ IdleTicks \in Nat  BY ServerAssumption
<1>1. /\ \A c \in Conns : pc[c] = "generating" => busy'[c] = busy[c] + 1
      /\ \A k \in Keys : age'[k] = age[k] + 1 \/ age'[k] = age[k]
      /\ UNCHANGED <<pc, req, ctx, lock, cache, keyOf, sweeper, dropping>>
  BY DEF Tick, TypeOK
<1>2. UseInStep'
  <2>1. ASSUME NEW c \in Conns, pc[c] = "generating" PROVE age'[req[c]] <= busy'[c]
    <3>1. req[c] \in Keys /\ age[req[c]] <= busy[c]  BY <2>1 DEF Structure, UseInStep
    <3>2. age[req[c]] \in Nat /\ busy[c] \in Nat  BY <1>0, <3>1 DEF TypeOK
    <3>3. QED BY <1>1, <2>1, <3>1, <3>2
  <2>2. QED BY <1>1, <2>1 DEF Structure, UseInStep
<1>3. LockInStep'  BY <1>1 DEF Structure, LockInStep
<1>4. ContextsInStep'  BY <1>1 DEF Structure, ContextsInStep
<1>5. QED BY <1>2, <1>3, <1>4 DEF Structure

LEMMA SweeperDiesStep ==
    ASSUME TypeOK, Structure, SweeperDies
    PROVE  Structure'
<1>1. /\ UNCHANGED <<handlerVars, cacheVars, dropping>>
      /\ sweeper = "asleep" /\ sweeper' = "dead"
  BY DEF SweeperDies
<1>2. QED
  BY <1>1 DEF Structure, UseInStep, LockInStep, ContextsInStep, handlerVars, cacheVars

----------------------------------------------------------------------------

\* A process that has ended stays as it is.
LEMMA EndedStep ==
    ASSUME ServerInv, ~running, [Next]_vars
    PROVE  UNCHANGED vars
BY DEF Next, Peer, Lookup, Work, Accept, ReadRequest, Eof, RefuseDimension, Hit, Miss,
       LookupPoisoned, Create, CreatePanics, Generate, GeneratePanics, WriteResponse,
       WriteFails, Sweep, SweepEnds, SweeperDies, Tick, AcceptFails, Goto

\* The invariant is one.
THEOREM ServerInvariant == Spec => []ServerInv
<1>1. Init => ServerInv
  <2> SUFFICES ASSUME Init PROVE ServerInv  OBVIOUS
  <2>0. RequestTicks \in Nat /\ IdleTicks \in Nat /\ SweepTicks \in Nat /\ Free # Sweeper
    BY ServerAssumption
  <2>1. TypeOK
    <3>1. /\ running \in BOOLEAN /\ pc \in [Conns -> PC]
          /\ req \in [Conns -> Requests \cup {NoRequest}]
          /\ ctx \in [Conns -> CtxIds \cup {NoCtx}]
      BY DEF Init, PC
    <3>2. busy \in [Conns -> 0..RequestTicks] /\ age \in [Keys -> 0..IdleTicks]
      BY <2>0 DEF Init
    <3>3. /\ reply \in [Conns -> Replies \cup {NoRequest}]
          /\ cache \in [Keys -> CtxIds \cup {NoCtx}]
          /\ keyOf \in [CtxIds -> Keys \cup {NoKey}]
      BY DEF Init
    <3>4. /\ lock \in Conns \cup {Free, Sweeper} /\ poisoned \in BOOLEAN
          /\ sweeper \in {"asleep", "dropping", "dead"} /\ dropping \subseteq CtxIds
      BY DEF Init
    <3>5. timer \in 0..SweepTicks  BY <2>0 DEF Init
    <3>6. QED BY <3>1, <3>2, <3>3, <3>4, <3>5 DEF TypeOK
  <2>2. UseInStep /\ LockInStep /\ ContextsInStep
    BY <2>0 DEF Init, UseInStep, LockInStep, ContextsInStep
  <2>3. InUseIsCached /\ OneContextPerKey
    BY DEF Init, InUseIsCached, OneContextPerKey
  <2>4. QED BY <2>1, <2>2, <2>3 DEF ServerInv
<1>2. ServerInv /\ [Next]_vars => ServerInv'
  <2> SUFFICES ASSUME ServerInv, [Next]_vars PROVE ServerInv'  OBVIOUS
  <2>1. TypeOK'  BY TypeStep DEF ServerInv
  <2>2. CASE ~running
    <3>1. UNCHANGED vars  BY <2>2, EndedStep
    <3>2. QED BY <2>1, <2>2, <3>1
              DEF ServerInv, vars, handlerVars, cacheVars, InUseIsCached, OneContextPerKey
  <2>3. CASE running /\ AcceptFails
    <3>1. ~running' /\ keyOf' = keyOf /\ \A c \in Conns : pc'[c] = "closed"
      BY <2>3 DEF AcceptFails, cacheVars
    <3>2. QED BY <2>1, <3>1 DEF ServerInv, InUseIsCached, OneContextPerKey
  <2>4. CASE running /\ ~AcceptFails
    <3>1. Structure /\ TypeOK  BY <2>4 DEF ServerInv, Structure
    <3>2. Structure'
      <4>1. CASE UNCHANGED vars
        BY <3>1, <4>1 DEF Structure, UseInStep, LockInStep, ContextsInStep,
                          vars, handlerVars, cacheVars, sweeperVars
      <4>2. CASE Next
        BY <2>4, <3>1, <4>2, FramingStep, HitStep, MissStep, CreateStep, ReleaseStep, SweepStep,
           SweepEndsStep, TickStep, SweeperDiesStep DEF Next, Peer, Lookup, Work
      <4>3. QED BY <4>1, <4>2
    <3>3. OneContextPerKey'
      <4>1. (TypeOK /\ ContextsInStep => OneContextPerKey)'
        <5>1. NoCtx \notin CtxIds  BY ServerAssumption
        <5>2. QED BY <5>1 DEF ContextsInStep, OneContextPerKey
      <4>2. QED BY <2>1, <3>2, <4>1 DEF Structure
    <3>4. InUseIsCached'  BY <3>2 DEF Structure, UseInStep, InUseIsCached
    <3>5. QED BY <2>1, <3>2, <3>3, <3>4 DEF ServerInv, Structure
  <2>5. QED BY <2>2, <2>3, <2>4
<1>3. QED BY <1>1, <1>2, PTL DEF Spec

\* main.rs:28: the types of the server's state.
THEOREM TypeCorrect == Spec => []TypeOK
<1>1. ServerInv => TypeOK  BY DEF ServerInv
<1>2. QED BY <1>1, ServerInvariant, PTL

\* main.rs:104-107: of the contexts that exist no two have the same key.
THEOREM OneContextForEachKey == Spec => []OneContextPerKey
<1>1. ServerInv => OneContextPerKey  BY DEF ServerInv
<1>2. QED BY <1>1, ServerInvariant, PTL

\* main.rs:133-135: a context in use is never evicted.
THEOREM InUseStaysCached == Spec => []InUseIsCached
<1>1. ServerInv => InUseIsCached  BY DEF ServerInv
<1>2. QED BY <1>1, ServerInvariant, PTL

----------------------------------------------------------------------------
(***************************************************************************)
(* The server implements the wire protocol.  A context, the cache and the  *)
(* sweeper are invisible to peers; every step is one of the protocol's on  *)
(* one connection, or the end of all of them, or nothing.                  *)
(***************************************************************************)

\* Between two requests a handler has neither a request nor a reply; the reply
\* that it is about to write is about its request.
FramesInStep ==
    /\ \A c \in Conns :
         pc[c] \in {"closed", "reading"} => req[c] = NoRequest /\ reply[c] = NoRequest
    /\ \A c \in Conns :
         pc[c] = "respond" => /\ reply[c].of = req[c]
                              /\ req[c] = BadRequest => reply[c].status = "error"

\* A reply that is made is about the request it is made for: what the context
\* in use generates is what was asked for.
LEMMA ReplyMade ==
    ASSUME ServerInv, NEW c \in Conns,
           \/ RefuseDimension(c) \/ LookupPoisoned(c) \/ CreatePanics(c)
           \/ Generate(c) \/ GeneratePanics(c)
    PROVE  \E status \in {"ok", "error"} :
               /\ req[c] = BadRequest => status = "error"
               /\ reply' = [reply EXCEPT ![c] = [of |-> req[c], status |-> status]]
               /\ pc[c] \in {"lookup", "creating", "generating"}
               /\ pc' = [pc EXCEPT ![c] = "respond"] /\ req' = req
<1>1. CASE RefuseDimension(c) \/ LookupPoisoned(c) \/ CreatePanics(c) \/ GeneratePanics(c)
  BY <1>1 DEF RefuseDimension, LookupPoisoned, CreatePanics, GeneratePanics, Goto, Error
<1>2. CASE Generate(c)
  <2>1. UseInStep /\ ContextsInStep /\ pc[c] = "generating"
    BY <1>2 DEF ServerInv, Generate, Goto
  <2>2. req[c] \in Keys /\ cache[req[c]] = ctx[c] /\ ctx[c] \in CtxIds
    BY <2>1 DEF UseInStep
  <2>3. keyOf[ctx[c]] = req[c] /\ req[c] # BadRequest
    BY <2>1, <2>2, ServerAssumption DEF ContextsInStep
  <2>4. QED BY <1>2, <2>1, <2>3 DEF Generate, Goto
<1>3. QED BY <1>1, <1>2

LEMMA FramesStep ==
    ASSUME ServerInv, FramesInStep, [Next]_vars
    PROVE  FramesInStep'
<1> USE DEF FramesInStep, Goto
<1>0. /\ pc \in [Conns -> PC] /\ req \in [Conns -> Requests \cup {NoRequest}]
      /\ reply \in [Conns -> Replies \cup {NoRequest}]
  BY DEF ServerInv, TypeOK
<1>1. ASSUME NEW c \in Conns, Peer(c) PROVE FramesInStep'
  BY <1>0, <1>1 DEF Peer, Accept, ReadRequest, Eof
<1>2. ASSUME NEW c \in Conns,
             \/ RefuseDimension(c) \/ LookupPoisoned(c) \/ CreatePanics(c)
             \/ Generate(c) \/ GeneratePanics(c)
      PROVE  FramesInStep'
  <2>1. PICK status \in {"ok", "error"} :
               /\ req[c] = BadRequest => status = "error"
               /\ reply' = [reply EXCEPT ![c] = [of |-> req[c], status |-> status]]
               /\ pc' = [pc EXCEPT ![c] = "respond"] /\ req' = req
    BY <1>2, ReplyMade
  <2>2. QED BY <1>0, <2>1
<1>3. ASSUME NEW c \in Conns, Hit(c) \/ Miss(c) \/ Create(c) PROVE FramesInStep'
  BY <1>0, <1>3 DEF Hit, Miss, Create
<1>4. ASSUME NEW c \in Conns, WriteResponse(c) \/ WriteFails(c) PROVE FramesInStep'
  BY <1>0, <1>4 DEF WriteResponse, WriteFails, Forget
<1>5. CASE Sweep \/ SweepEnds \/ SweeperDies \/ Tick
  BY <1>5 DEF Sweep, SweepEnds, SweeperDies, Tick, handlerVars
<1>6. CASE AcceptFails  BY <1>6 DEF AcceptFails
<1>7. CASE UNCHANGED vars  BY <1>7 DEF vars, handlerVars
<1>8. QED BY <1>1, <1>2, <1>3, <1>4, <1>5, <1>6, <1>7 DEF Next, Lookup, Work

\* main.rs:148-180: the framing holds in every reachable state.
LEMMA FramesInvariant == Spec => []FramesInStep
<1>1. Init => FramesInStep  BY DEF Init, FramesInStep
<1>2. ServerInv /\ FramesInStep /\ [Next]_vars => FramesInStep'  BY FramesStep
<1>3. QED BY <1>1, <1>2, ServerInvariant, PTL DEF Spec

\* A handler's move, as its peer sees it.
LEMMA Seen ==
    ASSUME pc \in [Conns -> PC], NEW c \in Conns, NEW to, pc' = [pc EXCEPT ![c] = to]
    PROVE  Wire!Goes(c, Stage(c), Stage(c)')
<1>1. \A d \in Conns : d # c => Stage(d)' = Stage(d)  BY DEF Stage
<1>2. [d \in Conns |-> Stage(d)]' = [[d \in Conns |-> Stage(d)] EXCEPT ![c] = Stage(c)']
  BY <1>1
<1>3. QED BY <1>2 DEF Wire!Goes

\* main.rs:148-180: every way through one turn of the loop is a request that
\* gets the one reply that is about it.
LEMMA WireStep ==
    ASSUME ServerInv, FramesInStep, [Next]_vars
    PROVE  [Wire!WireNext]_(Wire!wireVars)
<1> DEFINE W == Wire!WireNext \/ UNCHANGED Wire!wireVars
<1> SUFFICES W  BY DEF Wire!wireVars
<1>0. TypeOK  BY DEF ServerInv
<1>1. ASSUME NEW c \in Conns, Accept(c) PROVE W
  <2>1. Wire!Goes(c, "closed", "idle")
    <3>1. \E to \in PC : pc' = [pc EXCEPT ![c] = to]  BY <1>1 DEF Accept, Goto, PC
    <3>2. Stage(c) = "closed" /\ Stage(c)' = "idle"
      BY <1>0, <1>1 DEF Accept, Goto, Stage, TypeOK
    <3>3. QED BY <1>0, <3>1, <3>2, Seen DEF TypeOK
  <2>2. QED BY <1>1, <2>1 DEF Accept, Wire!Connect, Wire!WireNext
<1>2. ASSUME NEW c \in Conns, ReadRequest(c) PROVE W
  <2>1. Wire!Goes(c, "idle", "pending")
    <3>1. \E to \in PC : pc' = [pc EXCEPT ![c] = to]  BY <1>2 DEF ReadRequest, Goto, PC
    <3>2. Stage(c) = "idle" /\ Stage(c)' = "pending"
      BY <1>0, <1>2 DEF ReadRequest, Goto, Stage, TypeOK
    <3>3. QED BY <1>0, <3>1, <3>2, Seen DEF TypeOK
  <2>2. QED BY <1>2, <2>1 DEF ReadRequest, Wire!Ask, Wire!WireNext
<1>3. ASSUME NEW c \in Conns,
             \/ RefuseDimension(c) \/ LookupPoisoned(c) \/ CreatePanics(c)
             \/ Generate(c) \/ GeneratePanics(c)
      PROVE  W
  <2>1. PICK status \in {"ok", "error"} :
               /\ req[c] = BadRequest => status = "error"
               /\ reply' = [reply EXCEPT ![c] = [of |-> req[c], status |-> status]]
               /\ pc[c] \in {"lookup", "creating", "generating"}
               /\ pc' = [pc EXCEPT ![c] = "respond"] /\ req' = req
    BY <1>3, ReplyMade
  <2>2. Stage(c) = "pending" /\ Stage(c)' = "answered"  BY <1>0, <2>1 DEF Stage, TypeOK
  <2>3. Wire!Goes(c, "pending", "answered")  BY <1>0, <2>1, <2>2, Seen DEF TypeOK
  <2>4. Wire!Answer(c)  BY <2>1, <2>3 DEF Wire!Answer
  <2>5. QED BY <2>4 DEF Wire!WireNext
<1>6. ASSUME NEW c \in Conns, Hit(c) \/ Miss(c) \/ Create(c) PROVE W
  <2>1. /\ pc[c] \in {"lookup", "creating"}
        /\ \E to \in {"creating", "generating"} : pc' = [pc EXCEPT ![c] = to]
        /\ UNCHANGED <<req, reply>>
    BY <1>6 DEF Hit, Miss, Create, Goto
  <2>2. \A d \in Conns : Stage(d)' = Stage(d)
    BY <1>0, <2>1 DEF Stage, TypeOK
  <2>3. QED BY <2>1, <2>2 DEF Wire!wireVars
<1>7. ASSUME NEW c \in Conns, WriteResponse(c) PROVE W
  <2>1. Wire!Goes(c, "answered", "idle")
    <3>1. \E to \in PC : pc' = [pc EXCEPT ![c] = to]  BY <1>7 DEF WriteResponse, Goto, PC
    <3>2. Stage(c) = "answered" /\ Stage(c)' = "idle"
      BY <1>0, <1>7 DEF WriteResponse, Goto, Stage, TypeOK
    <3>3. QED BY <1>0, <3>1, <3>2, Seen DEF TypeOK
  <2>2. QED BY <1>7, <2>1 DEF WriteResponse, Forget, Wire!Deliver, Wire!WireNext
<1>8. ASSUME NEW c \in Conns, Eof(c) \/ WriteFails(c) PROVE W
  <2>1. /\ pc' = [pc EXCEPT ![c] = "closed"]
        /\ req' = [req EXCEPT ![c] = NoRequest] /\ reply' = [reply EXCEPT ![c] = NoRequest]
    BY <1>0, <1>8 DEF Eof, WriteFails, Goto, Forget, FramesInStep, TypeOK
  <2>2. \A d \in Conns : Stage(d)' = IF d \in {c} THEN "closed" ELSE Stage(d)
    BY <1>0, <2>1 DEF Stage, TypeOK
  <2>3. Wire!Close({c})
    BY <1>0, <2>1, <2>2 DEF Wire!Close, TypeOK
  <2>4. QED BY <2>3 DEF Wire!WireNext
<1>9. CASE AcceptFails
  <2>1. \A d \in Conns : Stage(d)' = "closed"  BY <1>9 DEF AcceptFails, Stage
  <2>2. Wire!Close(Conns)  BY <1>9, <2>1 DEF AcceptFails, Wire!Close
  <2>3. QED BY <2>2 DEF Wire!WireNext
<1>10. CASE Sweep \/ SweepEnds \/ SweeperDies \/ Tick \/ UNCHANGED vars
  <2>1. UNCHANGED <<pc, req, reply>>
    BY <1>10 DEF Sweep, SweepEnds, SweeperDies, Tick, vars, handlerVars
  <2>2. QED BY <2>1 DEF Wire!wireVars, Stage
<1>11. QED
  BY <1>1, <1>2, <1>3, <1>6, <1>7, <1>8, <1>9, <1>10 DEF Next, Peer, Lookup, Work

\* PROTOCOL.md "Connection semantics": the server does nothing on its
\* connections but what the wire protocol allows.
THEOREM ServerKeepsWire == Spec => Wire!WireSafety
<1>1. Init => Wire!WireInit
  BY DEF Init, Wire!WireInit, Stage
<1>2. ServerInv /\ FramesInStep /\ [Next]_vars => [Wire!WireNext]_(Wire!wireVars)
  BY WireStep
<1>3. QED BY <1>1, <1>2, ServerInvariant, FramesInvariant, PTL DEF Spec, Wire!WireSafety

\* PROTOCOL.md "Response frame": a reply is about the request of its own
\* connection, and a request of an unknown dimension never gets a chunk.
THEOREM RepliesAreOwn == Spec => []Wire!OwnReplies
<1>1. FramesInStep => Wire!OwnReplies
  BY DEF FramesInStep, Wire!OwnReplies, Stage
<1>2. QED BY <1>1, FramesInvariant, PTL

----------------------------------------------------------------------------
(***************************************************************************)
(* The mutex after a panic                                                 *)
(***************************************************************************)

\* Nobody is in the section that a poisoned mutex protects.
PoisonedIsFree == running /\ poisoned => lock = Free

LEMMA PoisonedStep ==
    ASSUME ServerInv, PoisonedIsFree, [Next]_vars
    PROVE  PoisonedIsFree'
<1> USE DEF PoisonedIsFree
<1>0. /\ Free \notin Conns /\ Free # Sweeper
      /\ running => \A c \in Conns : pc[c] = "creating" => lock = c
  BY ServerAssumption DEF ServerInv, LockInStep
<1>1. ASSUME NEW c \in Conns, Hit(c) \/ Miss(c) PROVE PoisonedIsFree'
  BY <1>1 DEF Hit, Miss, LockCache
<1>2. ASSUME NEW c \in Conns, Create(c) \/ CreatePanics(c) PROVE PoisonedIsFree'
  BY <1>2 DEF Create, CreatePanics
<1>3. ASSUME NEW c \in Conns,
             \/ Peer(c) \/ RefuseDimension(c) \/ LookupPoisoned(c)
             \/ Generate(c) \/ GeneratePanics(c) \/ WriteResponse(c) \/ WriteFails(c)
      PROVE  PoisonedIsFree'
  BY <1>3 DEF Peer, Accept, ReadRequest, Eof, RefuseDimension, LookupPoisoned, Generate,
              GeneratePanics, WriteResponse, WriteFails, cacheVars
<1>4. CASE Sweep \/ SweepEnds
  BY <1>4 DEF Sweep, SweepEnds, LockCache
<1>5. CASE SweeperDies \/ Tick \/ AcceptFails \/ UNCHANGED vars
  BY <1>5 DEF SweeperDies, Tick, AcceptFails, cacheVars, vars
<1>6. QED BY <1>1, <1>2, <1>3, <1>4, <1>5 DEF Next, Lookup, Work

\* main.rs:113, 119 and 132: a poisoned cache stays as it is, and nobody gets
\* into it.
THEOREM PoisonStaysFinal == Spec => PoisonIsFinal
<1> DEFINE Final ==
      poisoned => /\ poisoned' /\ cache' = cache
                  /\ \A c \in Conns : pc'[c] \in {"creating", "generating"} =>
                       pc[c] = "generating"
<1>1. Init => PoisonedIsFree  BY DEF Init, PoisonedIsFree
<1>2. ServerInv /\ PoisonedIsFree /\ [Next]_vars => PoisonedIsFree'
  BY PoisonedStep
<1>3. ServerInv /\ PoisonedIsFree /\ [Next]_vars => (Final \/ UNCHANGED vars)
  <2> SUFFICES ASSUME ServerInv, PoisonedIsFree, Next, poisoned PROVE Final
    OBVIOUS
  <2>1. \A c \in Conns : running => pc[c] # "creating"
    BY ServerAssumption DEF PoisonedIsFree, ServerInv, LockInStep
  <2>2. running => sweeper # "dropping"
    BY ServerAssumption DEF PoisonedIsFree, ServerInv, LockInStep
  <2>3. ASSUME NEW c \in Conns, Create(c) \/ CreatePanics(c) \/ Hit(c) \/ Miss(c)
        PROVE  FALSE
    BY <2>1, <2>3 DEF Create, CreatePanics, Hit, Miss, Goto, LockCache
  <2>4. ASSUME NEW c \in Conns,
               \/ Accept(c) \/ ReadRequest(c) \/ Eof(c) \/ RefuseDimension(c)
               \/ LookupPoisoned(c) \/ Generate(c) \/ GeneratePanics(c)
               \/ WriteResponse(c) \/ WriteFails(c)
        PROVE  Final
    <3>1. /\ UNCHANGED <<poisoned, cache>> /\ running
          /\ \E to \in {"reading", "lookup", "closed", "respond"} : pc' = [pc EXCEPT ![c] = to]
      BY <2>4 DEF Accept, ReadRequest, Eof, RefuseDimension, LookupPoisoned, Generate,
                  GeneratePanics, WriteResponse, WriteFails, Goto, cacheVars
    <3>2. pc \in [Conns -> PC]  BY DEF ServerInv, TypeOK
    <3>3. QED BY <2>1, <3>1, <3>2
  <2>5. Sweep => FALSE  BY DEF Sweep, LockCache
  <2>6. CASE SweepEnds \/ SweeperDies \/ Tick \/ AcceptFails
    <3>1. UNCHANGED <<poisoned, cache>> /\ running
      BY <2>6 DEF SweepEnds, SweeperDies, Tick, AcceptFails, cacheVars
    <3>2. pc' = pc \/ \A c \in Conns : pc'[c] = "closed"
      BY <2>6 DEF SweepEnds, SweeperDies, Tick, AcceptFails, handlerVars
    <3>3. QED BY <2>1, <3>1, <3>2
  <2>7. QED BY <2>3, <2>4, <2>5, <2>6 DEF Next, Peer, Lookup, Work
<1>4. [][Final]_vars <=> PoisonIsFinal  BY DEF PoisonIsFinal
<1>5. QED BY <1>1, <1>2, <1>3, <1>4, ServerInvariant, PTL DEF Spec

----------------------------------------------------------------------------
(***************************************************************************)
(* The contexts that exist                                                 *)
(***************************************************************************)

Born == {i \in CtxIds : keyOf[i] # NoKey}

\* main.rs:104-107: there are never more contexts, each with its runtime, its
\* pool and its driver, than there are worlds.
THEOREM ContextsAreFew ==
    ASSUME IsFiniteSet(Keys)
    PROVE  Spec => [](IsFiniteSet(Born) /\ Cardinality(Born) <= Cardinality(Keys))
<1>1. TypeOK /\ OneContextPerKey =>
        IsFiniteSet(Born) /\ Cardinality(Born) <= Cardinality(Keys)
  <2> SUFFICES ASSUME TypeOK, OneContextPerKey
               PROVE  IsFiniteSet(Born) /\ Cardinality(Born) <= Cardinality(Keys)
    OBVIOUS
  <2> DEFINE world == [i \in Born |-> keyOf[i]]
  <2>1. world \in Injection(Born, Keys)
    BY DEF Born, TypeOK, NoKey, OneContextPerKey, Injection, IsInjective
  <2> HIDE DEF world
  <2>2. QED BY <2>1, FS_Injection
<1>2. QED BY <1>1, TypeCorrect, OneContextForEachKey, PTL

\* The bound CtxIds of the model cuts nothing off: with one identity per world
\* a creation finds a free one.
THEOREM CreationHasIdentity ==
    ASSUME IsFiniteSet(Keys), IsFiniteSet(CtxIds), Cardinality(Keys) <= Cardinality(CtxIds)
    PROVE  Spec => [](running /\ (\E c \in Conns : pc[c] = "creating") => Unborn # {})
<1>1. ServerInv => (running /\ (\E c \in Conns : pc[c] = "creating") => Unborn # {})
  <2> SUFFICES ASSUME ServerInv, running, NEW c \in Conns, pc[c] = "creating"
               PROVE  Unborn # {}
    OBVIOUS
  <2> DEFINE Others == Keys \ {req[c]}
             world == [i \in Born |-> keyOf[i]]
  <2>1. lock = c /\ req[c] \in Keys /\ cache[req[c]] = NoCtx /\ dropping = {}
    BY ServerAssumption DEF ServerInv, LockInStep
  <2>2. \A i \in Born : keyOf[i] \in Others
    BY <2>1, ServerAssumption DEF Born, ServerInv, TypeOK, ContextsInStep
  <2>3. world \in Injection(Born, Others)
    BY <2>2 DEF Born, ServerInv, OneContextPerKey, Injection, IsInjective
  <2>4. IsFiniteSet(Others) /\ Cardinality(Others) = Cardinality(Keys) - 1
    BY <2>1, FS_RemoveElement
  <2>5. Cardinality(Born) <= Cardinality(Keys) - 1
    <3> HIDE DEF world, Others
    <3>1. QED BY <2>3, <2>4, FS_Injection
  <2>6. Cardinality(Born) # Cardinality(CtxIds)
    <3>1. Cardinality(Keys) \in Nat /\ Cardinality(CtxIds) \in Nat
      BY FS_CardinalityType
    <3>2. IsFiniteSet(Born)  BY FS_Subset DEF Born
    <3>3. Cardinality(Born) \in Nat  BY <3>2, FS_CardinalityType
    <3>4. QED BY <2>5, <3>1, <3>3
  <2>7. Born # CtxIds  BY <2>6
  <2>8. QED BY <2>7 DEF Born, Unborn
<1>2. QED BY <1>1, ServerInvariant, PTL
=============================================================================
