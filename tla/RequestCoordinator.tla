------------------------- MODULE RequestCoordinator -------------------------
(***************************************************************************)
(* The concurrent chunk requests of one WorldgenContext                    *)
(* (steel-provider/src/requests.rs, and generate_with_structures of        *)
(* lib.rs, its only caller).                                               *)
(*                                                                         *)
(* A thread that serves a connection calls request(center): it registers   *)
(* the region in `active` under the lock, asks the chunk map for a ticket, *)
(* counts itself in `inflight`, polls until the chunk map has an answer or *)
(* the deadline passes, and under the lock again moves its handle to       *)
(* `retired` and prunes it.  Dropping a handle releases its ticket.        *)
(*                                                                         *)
(* The chunk map is steel-core's: here it may answer any pending request   *)
(* at any time.  WorldgenContext adds the driver thread that makes it      *)
(* answer.                                                                 *)
(***************************************************************************)
EXTENDS Regions, FiniteSets

CONSTANTS
    Threads,      \* connection threads of the server that share the context
    Centers,      \* chunk positions clients ask for
    MaxRequests,  \* bound on the requests of a behaviour
    Failures      \* how the chunk map may fail: a subset of FailureKinds

\* A chunk map may cancel a request, or not answer before the deadline.
FailureKinds == {"cancel", "timeout"}

ASSUME CoordinatorAssumption ==
    /\ Centers \subseteq Position
    /\ MaxRequests \in Nat
    /\ Failures \subseteq FailureKinds
    /\ IsFiniteSet(Threads)

VARIABLES
    pc,        \* where each thread is in request / generate_with_structures
    req,       \* the id and the center of each thread's current request
    nextId,    \* next_id
    active,    \* Inner.active, as a set of [id, region]
    retired,   \* Inner.retired, as a set of [id, region]
    inflight,  \* DriverSignal.inflight
    handle     \* what became of the handle of each request id

vars == <<pc, req, nextId, active, retired, inflight, handle>>

Ids == 0..(MaxRequests - 1)

Entry == [id : Ids, region : Region]

\* A live handle is pending, ready or cancelled.  A dropped one was released
\* by prune, or lost to the panic of a cancelled or of an expired request.
LiveHandle == {"pending", "ready", "cancelled"}
HandleState == LiveHandle \cup {"unissued", "released", "failed", "expired"}

PC == {"idle", "register", "issue", "begin", "wake", "poll", "end", "finish", "read"}

EntryOf(t) == [id |-> req[t].id, region |-> RegionOf(req[t].center)]

\* The handle of a thread's current request.
HandleOf(t) == handle[req[t].id]

----------------------------------------------------------------------------

\* The request of a thread that never called is a placeholder.
Init ==
    /\ pc = [t \in Threads |-> "idle"]
    /\ \E c \in Centers : req = [t \in Threads |-> [id |-> 0, center |-> c]]
    /\ nextId = 0
    /\ active = {}
    /\ retired = {}
    /\ inflight = 0
    /\ handle = [i \in Ids |-> "unissued"]

Goto(t, from, to) == pc[t] = from /\ pc' = [pc EXCEPT ![t] = to]

\* generate_with_structures enters request: the region is computed and the id
\* is drawn before the lock is taken.
Call(t) ==
    /\ Goto(t, "idle", "register")
    /\ nextId < MaxRequests
    /\ \E c \in Centers : req' = [req EXCEPT ![t] = [id |-> nextId, center |-> c]]
    /\ nextId' = nextId + 1
    /\ UNCHANGED <<active, retired, inflight, handle>>

Register(t) ==
    /\ Goto(t, "register", "issue")
    /\ active' = active \cup {EntryOf(t)}
    /\ UNCHANGED <<req, nextId, retired, inflight, handle>>

\* ChunkMap::request_square: a ticket on the 3x3 neighbourhood.
Issue(t) ==
    /\ Goto(t, "issue", "begin")
    /\ handle' = [handle EXCEPT ![req[t].id] = "pending"]
    /\ UNCHANGED <<req, nextId, active, retired, inflight>>

\* DriverSignal::begin; the first live request has to wake the driver.
Begin(t) ==
    /\ Goto(t, "begin", IF inflight = 0 THEN "wake" ELSE "poll")
    /\ inflight' = inflight + 1
    /\ UNCHANGED <<req, nextId, active, retired, handle>>

Wake(t) ==
    /\ Goto(t, "wake", "poll")
    /\ UNCHANGED <<req, nextId, active, retired, inflight, handle>>

\* Mutant of PollReady: a cancelled request leaves the loop like a ready one.
PollAnswered(t) ==
    /\ Goto(t, "poll", "end")
    /\ HandleOf(t) # "pending"
    /\ UNCHANGED <<req, nextId, active, retired, inflight, handle>>

\* A poll that finds the request ready leaves the loop.  One that finds it
\* pending before the deadline sleeps and changes nothing.
PollReady(t) ==
    /\ Goto(t, "poll", "end")
    /\ HandleOf(t) = "ready"
    /\ UNCHANGED <<req, nextId, active, retired, inflight, handle>>

\* The panic unwinds out of request and drops the handle.  Neither `active`
\* nor the live count is put back.
PollCancelled(t) ==
    /\ Goto(t, "poll", "idle")
    /\ HandleOf(t) = "cancelled"
    /\ handle' = [handle EXCEPT ![req[t].id] = "failed"]
    /\ UNCHANGED <<req, nextId, active, retired, inflight>>

\* Mutant of PollExpired: the panic comes before DriverSignal::end.
PollExpiredUncounted(t) ==
    /\ "timeout" \in Failures
    /\ Goto(t, "poll", "idle")
    /\ HandleOf(t) = "pending"
    /\ handle' = [handle EXCEPT ![req[t].id] = "expired"]
    /\ UNCHANGED <<req, nextId, active, retired, inflight>>

\* The deadline passed: the live count is put back before the panic, the
\* entry of `active` is not.
PollExpired(t) ==
    /\ "timeout" \in Failures
    /\ Goto(t, "poll", "idle")
    /\ HandleOf(t) = "pending"
    /\ inflight' = inflight - 1
    /\ handle' = [handle EXCEPT ![req[t].id] = "expired"]
    /\ UNCHANGED <<req, nextId, active, retired>>

End(t) ==
    /\ Goto(t, "end", "finish")
    /\ inflight' = inflight - 1
    /\ UNCHANGED <<req, nextId, active, retired, handle>>

\* Mutant of Prune: no early return when nothing is active.
PruneAlways(act, ret) ==
    {r \in ret : \E a \in act : RegionsOverlap(a.region, r.region)}

\* prune: the retired entries that stay, given what is active.
Prune(act, ret) ==
    IF act = {} THEN ret
    ELSE {r \in ret : \E a \in act : RegionsOverlap(a.region, r.region)}

\* Mutant of Finish: the entry is looked up by its region instead of its id.
FinishByRegion(t) ==
    /\ Goto(t, "finish", "read")
    /\ active' = {a \in active : a.region # RegionOf(req[t].center)}
    /\ retired' = Prune(active', retired \cup {EntryOf(t)})
    /\ handle' = [i \in Ids |->
                    IF \E r \in (retired \cup {EntryOf(t)}) \ retired' : r.id = i
                    THEN "released" ELSE handle[i]]
    /\ UNCHANGED <<req, nextId, inflight>>

\* Mutant of Finish: the handle leaves with the holder and is not retired.
FinishUnretired(t) ==
    /\ Goto(t, "finish", "read")
    /\ active' = {a \in active : a.id # req[t].id}
    /\ retired' = Prune(active', retired)
    /\ handle' = [i \in Ids |->
                    IF \E r \in retired \ retired' : r.id = i
                    THEN "released" ELSE handle[i]]
    /\ UNCHANGED <<req, nextId, inflight>>

\* Under the lock: leave `active`, retire the handle, prune.  The handles
\* that prune removes are dropped, which releases their tickets.
Finish(t) ==
    /\ Goto(t, "finish", "read")
    /\ active' = {a \in active : a.id # req[t].id}
    /\ retired' = Prune(active', retired \cup {EntryOf(t)})
    /\ handle' = [i \in Ids |->
                    IF \E r \in (retired \cup {EntryOf(t)}) \ retired' : r.id = i
                    THEN "released" ELSE handle[i]]
    /\ UNCHANGED <<req, nextId, inflight>>

\* generate_with_structures clones the chunk out of the returned holder.
Read(t) ==
    /\ Goto(t, "read", "idle")
    /\ UNCHANGED <<req, nextId, active, retired, inflight, handle>>

----------------------------------------------------------------------------
(***************************************************************************)
(* The chunk map (external): it answers a request whose ticket is held.    *)
(***************************************************************************)

Answer(i, answer) ==
    /\ handle[i] = "pending"
    /\ handle' = [handle EXCEPT ![i] = answer]
    /\ UNCHANGED <<pc, req, nextId, active, retired, inflight>>

Generated(i) == Answer(i, "ready")

Cancel(i) == "cancel" \in Failures /\ Answer(i, "cancelled")

----------------------------------------------------------------------------

Request(t) ==
    \/ Call(t) \/ Register(t) \/ Issue(t) \/ Begin(t) \/ Wake(t)
    \/ PollReady(t) \/ PollCancelled(t) \/ PollExpired(t)
    \/ End(t) \/ Finish(t) \/ Read(t)

ChunkMap == \E i \in Ids : Generated(i) \/ Cancel(i)

Next == (\E t \in Threads : Request(t)) \/ ChunkMap

Spec == Init /\ [][Next]_vars

----------------------------------------------------------------------------

\* A thread between its registration and the lock section that ends it.
Registered(t) == pc[t] \in {"issue", "begin", "wake", "poll", "end", "finish"}

\* A thread that counts as a live request.
Live(t) == pc[t] \in {"wake", "poll", "end"}

\* A thread that owns the handle of its request.
Holding(t) == pc[t] \in {"begin", "wake", "poll", "end", "finish"}

TypeOK ==
    /\ pc \in [Threads -> PC]
    /\ req \in [Threads -> [id : Nat, center : Centers]]
    /\ nextId \in 0..MaxRequests
    /\ active \subseteq Entry
    /\ retired \subseteq Entry
    /\ inflight \in Int
    /\ handle \in [Ids -> HandleState]

\* requests.rs:127 and 147: the live count the driver reads is the number of
\* threads between begin and end plus one for every cancelled request whose
\* panic skipped end.  In particular no other path counts twice or not at
\* all, and the driver never believes it is idle while a request is live.
InflightExact ==
    inflight = Cardinality({t \in Threads : Live(t)})
               + Cardinality({i \in Ids : handle[i] = "failed"})

\* requests.rs:119 and 159: `active` holds one entry per registered request
\* and, besides those, exactly the entries that panicking requests left behind.
ActiveExact ==
    {a.id : a \in active} =
        {req[t].id : t \in {u \in Threads : Registered(u)}}
        \cup {i \in Ids : handle[i] \in {"failed", "expired"}}

\* requests.rs:82-87 and 160: a ticket that is held has exactly one owner, a
\* thread in request or an entry of `retired`, so that its release has one place
\* and happens; what has been released or was lost to a panic has none.
TicketsOwned ==
    \A i \in Ids :
        LET holders == {t \in Threads : Holding(t) /\ req[t].id = i}
            kept == {r \in retired : r.id = i}
        IN  Cardinality(holders) + Cardinality(kept)
                = IF handle[i] \in LiveHandle THEN 1 ELSE 0

\* requests.rs:3-8: while a request is in flight, no step of any other thread
\* releases the ticket of a completed request near it.  Stated on true
\* distances, for positions whose margins stay inside the integer range.
NeighboursRetained ==
    [][\A t \in Threads : \A r \in retired : \A c \in Centers :
         /\ Registered(t) /\ Registered(t)' /\ req[t]' = req[t]
         /\ r.region = RegionOf(c)
         /\ InlandPosition(c) /\ InlandPosition(req[t].center)
         /\ Near(c, req[t].center)
         => r \in retired']_vars

\* requests.rs:166-168: "While nothing is active, all retired handles are
\* kept".  A ticket is released only while some other request stays in flight,
\* or after a panic left an entry in `active`: a client that asks for one chunk
\* at a time keeps every ticket it ever held.
ReleaseNeedsTraffic ==
    [][\A i \in Ids : handle[i] # "released" /\ handle'[i] = "released" =>
         \/ \E t \in Threads : Registered(t) /\ Registered(t)'
         \/ \E j \in Ids : handle[j] \in {"failed", "expired"}]_vars

\* The comments of DriverSignal and Inner: inflight is the "Number of live
\* requests" (requests.rs:24) and `active` is kept "for every request
\* currently in flight" (requests.rs:91), so with no thread in request both
\* are empty.
QuietMeansEmpty ==
    (\A t \in Threads : pc[t] = "idle") => inflight = 0 /\ active = {}
=============================================================================
