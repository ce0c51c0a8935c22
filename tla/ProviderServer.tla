--------------------------- MODULE ProviderServer ---------------------------
(***************************************************************************)
(* The steel-provider server (steel-provider/src/main.rs): the accept      *)
(* loop, one handler thread per connection, the cache of WorldgenContexts  *)
(* they share behind one mutex, and the sweeper that evicts idle contexts. *)
(*                                                                         *)
(* Time passes in ticks of one SWEEP_INTERVAL.  A context's age counts the *)
(* ticks since it was last used and stops at the idle timeout.             *)
(***************************************************************************)
EXTENDS Integers, FiniteSets

CONSTANTS
    Conns,         \* connections
    Keys,          \* (seed, dimension) pairs
    BadRequest,    \* a request whose dimension byte is unknown
    CtxIds,        \* identities of contexts, reused once a context is gone
    NoRequest, NoCtx, Free, Sweeper,
    IdleTicks,     \* CONTEXT_IDLE_TIMEOUT
    RequestTicks,  \* the longest a request keeps a context in use
    SweepTicks     \* SWEEP_INTERVAL

\* A request ends within REQUEST_TIMEOUT, a fifth of the idle timeout.
ASSUME ServerAssumption ==
    /\ BadRequest \notin Keys
    /\ NoRequest \notin Keys \cup {BadRequest}
    /\ NoCtx \notin CtxIds
    /\ Free \notin Conns /\ Sweeper \notin Conns /\ Free # Sweeper
    /\ RequestTicks \in Nat /\ SweepTicks \in Nat /\ IdleTicks \in Nat
    /\ RequestTicks < IdleTicks

VARIABLES
    running,   \* the process serves
    pc,        \* where each connection's handler is
    req,       \* the request each handler works on
    ctx,       \* the context each handler holds an Arc of
    busy,      \* ticks since a handler began to use its context
    reply,     \* the result a handler writes back
    lock,      \* who holds the cache mutex across steps
    poisoned,  \* the cache mutex is poisoned
    cache,     \* the context cached for each key
    age,       \* ticks since the cached context was last used
    keyOf,     \* the key of each context that exists
    sweeper,   \* where the sweeper is
    timer,     \* ticks the sweeper has slept
    dropping   \* evicted contexts whose Drop runs in the sweeper

handlerVars == <<pc, req, ctx, busy, reply>>
cacheVars == <<lock, poisoned, cache, age, keyOf>>
sweeperVars == <<sweeper, timer, dropping>>
vars == <<running, handlerVars, cacheVars, sweeperVars>>

Requests == Keys \cup {BadRequest}

Replies == [of : Requests, status : {"ok", "error"}]

\* The key of a context that does not exist.
NoKey == NoRequest

PC == {"closed", "reading", "lookup", "creating", "generating", "respond"}

TypeOK ==
    /\ running \in BOOLEAN
    /\ pc \in [Conns -> PC]
    /\ req \in [Conns -> Requests \cup {NoRequest}]
    /\ ctx \in [Conns -> CtxIds \cup {NoCtx}]
    /\ busy \in [Conns -> 0..RequestTicks]
    /\ reply \in [Conns -> Replies \cup {NoRequest}]
    /\ lock \in Conns \cup {Free, Sweeper}
    /\ poisoned \in BOOLEAN
    /\ cache \in [Keys -> CtxIds \cup {NoCtx}]
    /\ age \in [Keys -> 0..IdleTicks]
    /\ keyOf \in [CtxIds -> Keys \cup {NoKey}]
    /\ sweeper \in {"asleep", "dropping", "dead"}
    /\ timer \in 0..SweepTicks
    /\ dropping \subseteq CtxIds

Init ==
    /\ running = TRUE
    /\ pc = [c \in Conns |-> "closed"]
    /\ req = [c \in Conns |-> NoRequest]
    /\ ctx = [c \in Conns |-> NoCtx]
    /\ busy = [c \in Conns |-> 0]
    /\ reply = [c \in Conns |-> NoRequest]
    /\ lock = Free
    /\ poisoned = FALSE
    /\ cache = [k \in Keys |-> NoCtx]
    /\ age = [k \in Keys |-> 0]
    /\ keyOf = [i \in CtxIds |-> NoKey]
    /\ sweeper = "asleep"
    /\ timer = 0
    /\ dropping = {}

Goto(c, from, to) == running /\ pc[c] = from /\ pc' = [pc EXCEPT ![c] = to]

Error(c) == [reply EXCEPT ![c] = [of |-> req[c], status |-> "error"]]

----------------------------------------------------------------------------
(***************************************************************************)
(* serve and the framing of handle_connection                              *)
(***************************************************************************)

\* accept, and the spawn of the handler thread.
Accept(c) ==
    /\ Goto(c, "closed", "reading")
    /\ UNCHANGED <<running, req, ctx, busy, reply, cacheVars, sweeperVars>>

\* The listener failed: serve returns, main with it, and the process ends.
\* What is left of its state no longer matters.
AcceptFails ==
    /\ running
    /\ running' = FALSE
    /\ pc' = [c \in Conns |-> "closed"]
    /\ req' = [c \in Conns |-> NoRequest]
    /\ reply' = [c \in Conns |-> NoRequest]
    /\ UNCHANGED <<ctx, busy, cacheVars, sweeperVars>>

\* A whole request was read.
ReadRequest(c) ==
    /\ Goto(c, "reading", "lookup")
    /\ \E r \in Requests : req' = [req EXCEPT ![c] = r]
    /\ UNCHANGED <<running, ctx, busy, reply, cacheVars, sweeperVars>>

\* Mutant of RefuseDimension: the handler continues without a reply.
RefuseSilently(c) ==
    /\ req[c] \notin Keys
    /\ Goto(c, "lookup", "reading")
    /\ req' = [req EXCEPT ![c] = NoRequest]
    /\ UNCHANGED <<running, ctx, busy, reply, cacheVars, sweeperVars>>

\* Dimension::from_byte found nothing.
RefuseDimension(c) ==
    /\ req[c] \notin Keys
    /\ Goto(c, "lookup", "respond")
    /\ reply' = Error(c)
    /\ UNCHANGED <<running, req, ctx, busy, cacheVars, sweeperVars>>

\* The peer closed, between two requests or in the middle of one.
Eof(c) ==
    /\ Goto(c, "reading", "closed")
    /\ UNCHANGED <<running, req, ctx, busy, reply, cacheVars, sweeperVars>>

\* The request and its result are locals of one turn of the loop.
Forget(c) ==
    /\ req' = [req EXCEPT ![c] = NoRequest]
    /\ reply' = [reply EXCEPT ![c] = NoRequest]

WriteResponse(c) ==
    /\ Goto(c, "respond", "reading")
    /\ Forget(c)
    /\ UNCHANGED <<running, ctx, busy, cacheVars, sweeperVars>>

\* The peer went away: the write fails and the handler ends.
WriteFails(c) ==
    /\ Goto(c, "respond", "closed")
    /\ Forget(c)
    /\ UNCHANGED <<running, ctx, busy, cacheVars, sweeperVars>>

----------------------------------------------------------------------------
(***************************************************************************)
(* get_or_create_context                                                   *)
(***************************************************************************)

LockCache == lock = Free /\ ~poisoned

Missing(k) == cache[k] = NoCtx

Use(c, i) ==
    /\ ctx' = [ctx EXCEPT ![c] = i]
    /\ busy' = [busy EXCEPT ![c] = 0]

\* Mutant of Hit: last_used is set at creation only.
HitUntouched(c) ==
    /\ Goto(c, "lookup", "generating")
    /\ req[c] \in Keys /\ LockCache
    /\ ~Missing(req[c])
    /\ Use(c, cache[req[c]])
    /\ UNCHANGED <<running, req, reply, lock, poisoned, cache, age, keyOf, sweeperVars>>

Hit(c) ==
    /\ Goto(c, "lookup", "generating")
    /\ req[c] \in Keys /\ LockCache
    /\ ~Missing(req[c])
    /\ Use(c, cache[req[c]])
    /\ age' = [age EXCEPT ![req[c]] = 0]
    /\ UNCHANGED <<running, req, reply, lock, poisoned, cache, keyOf, sweeperVars>>

\* Mutant of Miss: the lock is let go for the creation.
MissUnlocked(c) ==
    /\ Goto(c, "lookup", "creating")
    /\ req[c] \in Keys /\ LockCache
    /\ Missing(req[c])
    /\ UNCHANGED <<running, req, ctx, busy, reply, cacheVars, sweeperVars>>

\* The creation of a missing context keeps the lock.
Miss(c) ==
    /\ Goto(c, "lookup", "creating")
    /\ req[c] \in Keys /\ LockCache
    /\ Missing(req[c])
    /\ lock' = c
    /\ UNCHANGED <<running, req, ctx, busy, reply, poisoned, cache, age, keyOf, sweeperVars>>

\* lock().unwrap() panics, which catch_unwind turns into an error reply.
LookupPoisoned(c) ==
    /\ Goto(c, "lookup", "respond")
    /\ req[c] \in Keys /\ lock = Free /\ poisoned
    /\ reply' = Error(c)
    /\ UNCHANGED <<running, req, ctx, busy, cacheVars, sweeperVars>>

Unborn == {i \in CtxIds : keyOf[i] = NoKey}

Create(c) ==
    /\ Goto(c, "creating", "generating")
    /\ Unborn # {}
    /\ LET i == CHOOSE j \in Unborn : TRUE IN
         /\ keyOf' = [keyOf EXCEPT ![i] = req[c]]
         /\ cache' = [cache EXCEPT ![req[c]] = i]
         /\ Use(c, i)
    /\ age' = [age EXCEPT ![req[c]] = 0]
    /\ lock' = Free
    /\ UNCHANGED <<running, req, reply, poisoned, sweeperVars>>

\* WorldgenContext::new panics while the guard is held.
CreatePanics(c) ==
    /\ Goto(c, "creating", "respond")
    /\ reply' = Error(c)
    /\ lock' = Free
    /\ poisoned' = TRUE
    /\ UNCHANGED <<running, req, ctx, busy, cache, age, keyOf, sweeperVars>>

----------------------------------------------------------------------------
(***************************************************************************)
(* The rest of the unwind-protected part: generation and serialization     *)
(***************************************************************************)

\* The handler's Arc goes away at the end of the closure; the last one takes
\* the context with it.
Release(c) ==
    /\ ctx' = [ctx EXCEPT ![c] = NoCtx]
    /\ busy' = [busy EXCEPT ![c] = 0]
    /\ keyOf' = IF \/ \E k \in Keys : cache[k] = ctx[c]
                   \/ \E d \in Conns \ {c} : ctx[d] = ctx[c]
                THEN keyOf
                ELSE [keyOf EXCEPT ![ctx[c]] = NoKey]

Generate(c) ==
    /\ Goto(c, "generating", "respond")
    /\ reply' = [reply EXCEPT ![c] = [of |-> keyOf[ctx[c]], status |-> "ok"]]
    /\ Release(c)
    /\ UNCHANGED <<running, req, lock, poisoned, cache, age, sweeperVars>>

GeneratePanics(c) ==
    /\ Goto(c, "generating", "respond")
    /\ reply' = Error(c)
    /\ Release(c)
    /\ UNCHANGED <<running, req, lock, poisoned, cache, age, sweeperVars>>

----------------------------------------------------------------------------
(***************************************************************************)
(* The sweeper, and time                                                   *)
(***************************************************************************)

\* Mutant of Expired: the predicate of retain, not negated.
ExpiredInverted(k) == ~Missing(k) /\ age[k] < IdleTicks

Expired(k) == ~Missing(k) /\ age[k] >= IdleTicks

\* Evicted contexts that nobody else holds are dropped right here, under the
\* cache lock: their Drop joins a thread and drains tasks.
Sweep ==
    /\ running
    /\ sweeper = "asleep" /\ timer = SweepTicks
    /\ LockCache
    /\ cache' = [k \in Keys |-> IF Expired(k) THEN NoCtx ELSE cache[k]]
    /\ dropping' = {cache[k] : k \in {j \in Keys :
                        Expired(j) /\ \A c \in Conns : ctx[c] # cache[j]}}
    /\ lock' = Sweeper
    /\ sweeper' = "dropping"
    /\ UNCHANGED <<running, handlerVars, poisoned, age, keyOf, timer>>

SweepEnds ==
    /\ running
    /\ sweeper = "dropping"
    /\ keyOf' = [i \in CtxIds |-> IF i \in dropping THEN NoKey ELSE keyOf[i]]
    /\ dropping' = {}
    /\ lock' = Free
    /\ sweeper' = "asleep"
    /\ timer' = 0
    /\ UNCHANGED <<running, handlerVars, poisoned, cache, age>>

\* The sweeper's own lock().unwrap() panics and its thread is gone.
SweeperDies ==
    /\ running
    /\ sweeper = "asleep" /\ timer = SweepTicks
    /\ lock = Free /\ poisoned
    /\ sweeper' = "dead"
    /\ UNCHANGED <<running, handlerVars, cacheVars, timer, dropping>>

\* Mutant of Tick: requests have no deadline.
TickPastDeadline ==
    /\ running
    /\ busy' = [c \in Conns |-> IF pc[c] = "generating" THEN busy[c] + 1 ELSE busy[c]]
    /\ age' = [k \in Keys |-> IF age[k] < IdleTicks THEN age[k] + 1 ELSE age[k]]
    /\ timer' = IF sweeper = "asleep" /\ timer < SweepTicks THEN timer + 1 ELSE timer
    /\ UNCHANGED <<running, pc, req, ctx, reply, lock, poisoned, cache, keyOf, sweeper, dropping>>

\* No time for a request that used up its timeout.
Tick ==
    /\ running
    /\ \A c \in Conns : pc[c] = "generating" => busy[c] < RequestTicks
    /\ busy' = [c \in Conns |-> IF pc[c] = "generating" THEN busy[c] + 1 ELSE busy[c]]
    /\ age' = [k \in Keys |-> IF age[k] < IdleTicks THEN age[k] + 1 ELSE age[k]]
    /\ timer' = IF sweeper = "asleep" /\ timer < SweepTicks THEN timer + 1 ELSE timer
    /\ UNCHANGED <<running, pc, req, ctx, reply, lock, poisoned, cache, keyOf, sweeper, dropping>>

----------------------------------------------------------------------------

Lookup(c) == RefuseDimension(c) \/ Hit(c) \/ Miss(c) \/ LookupPoisoned(c)

Work(c) ==
    \/ Create(c) \/ CreatePanics(c) \/ Generate(c) \/ GeneratePanics(c)
    \/ WriteResponse(c) \/ WriteFails(c)

Peer(c) == Accept(c) \/ ReadRequest(c) \/ Eof(c)

Next ==
    \/ \E c \in Conns : Peer(c) \/ Lookup(c) \/ Work(c)
    \/ Sweep \/ SweepEnds \/ SweeperDies \/ Tick \/ AcceptFails

\* Handlers run on, no thread that waits for the mutex is passed over for
\* ever, the sweeper and time go on.  Peers do as they like.
Fairness ==
    /\ \A c \in Conns : SF_vars(Lookup(c)) /\ WF_vars(Work(c))
    /\ SF_vars(Sweep) /\ WF_vars(SweepEnds)
    /\ SF_vars(Tick)

Spec == Init /\ [][Next]_vars /\ Fairness

----------------------------------------------------------------------------

\* main.rs:104-107 and PROTOCOL.md "one WorldgenContext per (seed, dimension)":
\* of the contexts that exist, cached, in use or being dropped, no two are of
\* the same key, so no key ever has two drivers and two pools at once.
OneContextPerKey ==
    \A i, j \in CtxIds : keyOf[i] # NoKey /\ keyOf[i] = keyOf[j] => i = j

\* main.rs:133-135: the sweeper never evicts a context that a handler is
\* using, because the idle timeout is longer than any request.
InUseIsCached ==
    \A c \in Conns : pc[c] = "generating" => cache[req[c]] = ctx[c]

\* main.rs:113 and 132: one panic of WorldgenContext::new ends the service of
\* every world.  From then on no handler enters a context, neither a cached nor a
\* new one, and none is evicted; only handlers that generate already go on.
PoisonIsFinal ==
    [][poisoned => /\ poisoned' /\ cache' = cache
                   /\ \A c \in Conns : pc'[c] \in {"creating", "generating"} =>
                        pc[c] = "generating"]_vars

\* main.rs:124: while the mutex is not poisoned, a context that is not asked
\* for any more is evicted and gone for good.
IdleIsEvicted ==
    \A k \in Keys :
        /\ <>[](\A c \in Conns : req[c] # k)
        /\ [](running /\ ~poisoned)
        => <>[](cache[k] = NoCtx /\ \A i \in CtxIds : keyOf[i] # k)

\* The stage of the wire protocol a handler is at.  A reply that is computed
\* and not yet written is an answer; the end of the process closes everything.
Stage(c) ==
    CASE pc[c] = "closed" -> "closed"
      [] pc[c] = "reading" -> "idle"
      [] pc[c] = "respond" -> "answered"
      [] OTHER -> "pending"

Wire == INSTANCE WireProtocol
            WITH stage <- [c \in Conns |-> Stage(c)], asked <- req,
                 Invalid <- {BadRequest}, Nothing <- NoRequest

\* PROTOCOL.md "Connection semantics": every connection is synchronous and
\* serial, a reply is about its own request whatever the other connections,
\* the cache and the sweeper do, and no request waits for ever.
ImplementsWire == Wire!WireSpec
=============================================================================
