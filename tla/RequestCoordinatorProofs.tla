---------------------- MODULE RequestCoordinatorProofs ----------------------
(***************************************************************************)
(* Theorems about the overlap test of Regions and about RequestCoordinator *)
(* that prunes by it, for every set of threads, every set of chunk         *)
(* positions, every number of requests, every integer width and margin.    *)
(***************************************************************************)
EXTENDS RequestCoordinator, FiniteSetTheorems, TLAPS

\* requests.rs:179-186: a region has machine coordinates, also where it wraps.
LEMMA RegionOfType ==
    ASSUME NEW p \in Position
    PROVE  RegionOf(p) \in Region
BY RegionsAssumption, SMT
   DEF RegionOf, Region, Position, Wrap, MachineInt, MinInt

\* requests.rs:189-196: the test does not depend on the order of its operands.
LEMMA OverlapSymmetric ==
    ASSUME NEW a, NEW b
    PROVE  RegionsOverlap(a, b) <=> RegionsOverlap(b, a)
BY DEF RegionsOverlap

\* One coordinate of the test, inside the integer range.
LEMMA InlandReach ==
    ASSUME NEW i \in Int, NEW j \in Int, Inland(i), Inland(j)
    PROVE  Reaches(Wrap(i - 1), Wrap(j + 1)) <=> i - j <= 2 * RetentionMargin + 2
BY RegionsAssumption, SMT DEF Reaches, Wrap, Inland, MinInt

\* requests.rs:188-196: as long as the widened regions stay inside the integer
\* range, the test is exactly "at most 2 * margin + 2 chunks apart".
THEOREM OverlapIsNear ==
    ASSUME NEW p \in Position, NEW q \in Position,
           InlandPosition(p), InlandPosition(q)
    PROVE  RegionsOverlap(RegionOf(p), RegionOf(q)) <=> Near(p, q)
<1>1. /\ p.x \in Int /\ p.z \in Int /\ q.x \in Int /\ q.z \in Int
      /\ Inland(p.x) /\ Inland(p.z) /\ Inland(q.x) /\ Inland(q.z)
  BY RegionsAssumption DEF Position, MachineInt, MinInt, InlandPosition
<1>2. RegionsOverlap(RegionOf(p), RegionOf(q)) <=>
        /\ p.x - q.x <= 2 * RetentionMargin + 2
        /\ q.x - p.x <= 2 * RetentionMargin + 2
        /\ p.z - q.z <= 2 * RetentionMargin + 2
        /\ q.z - p.z <= 2 * RetentionMargin + 2
  BY <1>1, InlandReach DEF RegionsOverlap, RegionOf
<1>3. Near(p, q) <=>
        /\ p.x - q.x <= 2 * RetentionMargin + 2
        /\ q.x - p.x <= 2 * RetentionMargin + 2
        /\ p.z - q.z <= 2 * RetentionMargin + 2
        /\ q.z - p.z <= 2 * RetentionMargin + 2
  BY <1>1, RegionsAssumption, SMT DEF Near, Within
<1>4. QED BY <1>2, <1>3

\* One coordinate of the test where the widened region leaves the range.
LEMMA BorderReach ==
    ASSUME NEW i \in MachineInt, NEW j \in MachineInt, Within(i, j), ~Inland(i)
    PROVE  ~(/\ Reaches(Wrap(i - 1), Wrap(j + 1))
             /\ Reaches(Wrap(j - 1), Wrap(i + 1)))
<1>1. /\ i \in Int /\ j \in Int /\ MaxInt \in Int /\ RetentionMargin \in Int
      /\ RetentionMargin >= 0 /\ 4 * RetentionMargin + 8 < MaxInt
      /\ i >= -MaxInt - 1 /\ i <= MaxInt /\ j >= -MaxInt - 1 /\ j <= MaxInt
      /\ i - j <= 2 * RetentionMargin + 2 /\ j - i <= 2 * RetentionMargin + 2
      /\ i < -MaxInt + RetentionMargin \/ i > MaxInt - RetentionMargin - 1
  BY RegionsAssumption, SMT DEF MachineInt, MinInt, Within, Inland
<1>2. CASE i > MaxInt - RetentionMargin - 1
  <2>1. ~Reaches(Wrap(j - 1), Wrap(i + 1))  BY <1>1, <1>2, SMT DEF Reaches, Wrap, MinInt
  <2>2. QED BY <2>1
<1>3. CASE i < -MaxInt + RetentionMargin
  <2>1. ~Reaches(Wrap(i - 1), Wrap(j + 1))  BY <1>1, <1>3, SMT DEF Reaches, Wrap, MinInt
  <2>2. QED BY <2>1
<1>4. QED BY <1>1, <1>2, <1>3

\* requests.rs:192-195: of two regions whose generation halos can touch, the
\* wrapped test finds the overlap if and only if no widened region leaves the
\* integer range.  At the border, on either end of either axis, a region
\* overlaps none of its neighbours, nor itself.
THEOREM BorderLosesNeighbours ==
    ASSUME NEW p \in Position, NEW q \in Position, Near(p, q)
    PROVE  RegionsOverlap(RegionOf(p), RegionOf(q))
             <=> InlandPosition(p) /\ InlandPosition(q)
<1>1. /\ p.x \in MachineInt /\ p.z \in MachineInt
      /\ q.x \in MachineInt /\ q.z \in MachineInt
      /\ Within(p.x, q.x) /\ Within(p.z, q.z)
  BY DEF Position, Near
<1>2. Within(q.x, p.x) /\ Within(q.z, p.z)
  BY <1>1, RegionsAssumption, SMT DEF Within, MachineInt, MinInt
<1>3. ASSUME ~(InlandPosition(p) /\ InlandPosition(q))
      PROVE  ~RegionsOverlap(RegionOf(p), RegionOf(q))
  <2>1. ~Inland(p.x) \/ ~Inland(p.z) \/ ~Inland(q.x) \/ ~Inland(q.z)
    BY <1>3 DEF InlandPosition
  <2>2. CASE ~Inland(p.x)  BY <1>1, <2>2, BorderReach DEF RegionsOverlap, RegionOf
  <2>3. CASE ~Inland(p.z)  BY <1>1, <2>3, BorderReach DEF RegionsOverlap, RegionOf
  <2>4. CASE ~Inland(q.x)  BY <1>1, <1>2, <2>4, BorderReach DEF RegionsOverlap, RegionOf
  <2>5. CASE ~Inland(q.z)  BY <1>1, <1>2, <2>5, BorderReach DEF RegionsOverlap, RegionOf
  <2>6. QED BY <2>1, <2>2, <2>3, <2>4, <2>5
<1>4. QED BY <1>3, OverlapIsNear

\* requests.rs:170-176: while all that is active lies at the border and near a
\* completed request, prune gives its ticket up.
THEOREM BorderPrunesNeighbours ==
    ASSUME NEW act, act # {}, NEW ret, NEW r \in ret, NEW q \in Position,
           r.region = RegionOf(q),
           \A a \in act : \E p \in Position :
               a.region = RegionOf(p) /\ Near(p, q) /\ ~InlandPosition(p)
    PROVE  r \notin Prune(act, ret)
BY BorderLosesNeighbours DEF Prune

----------------------------------------------------------------------------

\* A thread whose request has an id of its own.
InRequest(t) == pc[t] \notin {"idle", "read"}

\* Ids are drawn once: what is in a request has an id below next_id, and two
\* requests that are under way have different ones.
IdsDrawn ==
    /\ \A t \in Threads : InRequest(t) => req[t].id < nextId
    /\ \A t, u \in Threads :
         InRequest(t) /\ InRequest(u) /\ req[t].id = req[u].id => t = u

\* The handle of an id goes with the place its request has reached.
HandlesInStep ==
    /\ \A i \in Ids : i >= nextId => handle[i] = "unissued"
    /\ \A t \in Threads : pc[t] \in {"register", "issue"} => HandleOf(t) = "unissued"
    /\ \A t \in Threads : Holding(t) => HandleOf(t) \in LiveHandle
    /\ \A i \in Ids : handle[i] \in LiveHandle =>
         \/ \E t \in Threads : Holding(t) /\ req[t].id = i
         \/ \E r \in retired : r.id = i

Lost == {"failed", "expired"}

\* `active` holds what is registered and what panics left behind.
ActiveInStep ==
    /\ \A t \in Threads : Registered(t) => EntryOf(t) \in active
    /\ \A a \in active : \/ \E t \in Threads : Registered(t) /\ req[t].id = a.id
                         \/ handle[a.id] \in Lost
    /\ \A i \in Ids : handle[i] \in Lost => \E a \in active : a.id = i

\* `retired` holds live handles that no thread has any more, each once.
RetiredInStep ==
    /\ \A r \in retired : handle[r.id] \in LiveHandle
    /\ \A r \in retired : \A t \in Threads : InRequest(t) => req[t].id # r.id
    /\ \A r, s \in retired : r.id = s.id => r = s

\* The inductive invariant.
CoordinatorInv == TypeOK /\ IdsDrawn /\ HandlesInStep /\ ActiveInStep /\ RetiredInStep

----------------------------------------------------------------------------

\* The entry of a request that is under way is well formed.
LEMMA EntryType ==
    ASSUME TypeOK, IdsDrawn, NEW t \in Threads, InRequest(t)
    PROVE  req[t].id \in Ids /\ EntryOf(t) \in Entry
<1>1. req[t].id \in Nat /\ req[t].center \in Position
  BY CoordinatorAssumption DEF TypeOK
<1>2. req[t].id \in Ids
  BY <1>1, CoordinatorAssumption DEF TypeOK, IdsDrawn, Ids
<1>3. RegionOf(req[t].center) \in Region  BY <1>1, RegionOfType
<1>4. QED BY <1>2, <1>3 DEF EntryOf, Entry

\* requests.rs:89-112: the coordinator's state keeps its types.
LEMMA TypeStep ==
    ASSUME TypeOK, IdsDrawn, [Next]_vars
    PROVE  TypeOK'
<1> USE DEF TypeOK
<1>1. ASSUME NEW t \in Threads, Call(t) PROVE TypeOK'
  BY <1>1, CoordinatorAssumption DEF Call, Goto, PC
<1>2. ASSUME NEW t \in Threads, Register(t) PROVE TypeOK'
  <2>1. EntryOf(t) \in Entry  BY <1>2, EntryType DEF Register, Goto, InRequest
  <2>2. QED BY <1>2, <2>1 DEF Register, Goto, PC
<1>3. ASSUME NEW t \in Threads, Issue(t) PROVE TypeOK'
  BY <1>3 DEF Issue, Goto, PC, HandleState, LiveHandle
<1>4. ASSUME NEW t \in Threads, Begin(t) PROVE TypeOK'
  BY <1>4 DEF Begin, Goto, PC
<1>5. ASSUME NEW t \in Threads, Wake(t) PROVE TypeOK'
  BY <1>5 DEF Wake, Goto, PC
<1>6. ASSUME NEW t \in Threads, PollReady(t) PROVE TypeOK'
  BY <1>6 DEF PollReady, Goto, PC
<1>7. ASSUME NEW t \in Threads, PollCancelled(t) PROVE TypeOK'
  BY <1>7 DEF PollCancelled, Goto, PC, HandleState, LiveHandle
<1>8. ASSUME NEW t \in Threads, PollExpired(t) PROVE TypeOK'
  <2>1. inflight' \in Int  BY <1>8 DEF PollExpired
  <2>2. pc' \in [Threads -> PC]  BY <1>8 DEF PollExpired, Goto, PC
  <2>3. handle' \in [Ids -> HandleState]
    BY <1>8 DEF PollExpired, HandleState, LiveHandle
  <2>4. QED BY <1>8, <2>1, <2>2, <2>3 DEF PollExpired
<1>9. ASSUME NEW t \in Threads, End(t) PROVE TypeOK'
  BY <1>9 DEF End, Goto, PC
<1>10. ASSUME NEW t \in Threads, Finish(t) PROVE TypeOK'
  <2>1. EntryOf(t) \in Entry  BY <1>10, EntryType DEF Finish, Goto, InRequest
  <2>2. retired' \subseteq Entry  BY <1>10, <2>1 DEF Finish, Prune
  <2>3. handle' \in [Ids -> HandleState]
    BY <1>10 DEF Finish, HandleState, LiveHandle
  <2>4. pc' \in [Threads -> PC]  BY <1>10 DEF Finish, Goto, PC
  <2>5. QED BY <1>10, <2>2, <2>3, <2>4 DEF Finish
<1>11. ASSUME NEW t \in Threads, Read(t) PROVE TypeOK'
  BY <1>11 DEF Read, Goto, PC
<1>12. ASSUME NEW i \in Ids, Generated(i) \/ Cancel(i) PROVE TypeOK'
  BY <1>12 DEF Generated, Cancel, Answer, HandleState, LiveHandle
<1>13. CASE UNCHANGED vars  BY <1>13 DEF vars
<1>14. QED
  BY <1>1, <1>2, <1>3, <1>4, <1>5, <1>6, <1>7, <1>8, <1>9, <1>10, <1>11, <1>12, <1>13
     DEF Next, Request, ChunkMap

LEMMA InitInv == Init => CoordinatorInv
<1> SUFFICES ASSUME Init PROVE CoordinatorInv  OBVIOUS
<1>1. TypeOK
  BY CoordinatorAssumption DEF Init, TypeOK, PC, HandleState
<1>2. QED
  BY <1>1 DEF Init, CoordinatorInv, IdsDrawn, HandlesInStep, ActiveInStep, RetiredInStep,
              InRequest, Holding, Registered, Lost, LiveHandle, HandleOf

----------------------------------------------------------------------------
(***************************************************************************)
(* The steps.  Every lemma of this section is about one conjunct of the    *)
(* invariant and has one step per action that can disturb it.              *)
(***************************************************************************)

\* requests.rs:118: an id is never drawn twice.
LEMMA IdsStep ==
    ASSUME TypeOK, IdsDrawn, [Next]_vars
    PROVE  IdsDrawn'
<1> USE DEF TypeOK, IdsDrawn, InRequest
<1>1. ASSUME NEW t \in Threads, Call(t) PROVE IdsDrawn'
  BY <1>1 DEF Call, Goto
<1>2. ASSUME NEW t \in Threads, Register(t) \/ Issue(t) \/ Wake(t) \/ PollReady(t)
      PROVE  IdsDrawn'
  BY <1>2 DEF Register, Issue, Wake, PollReady, Goto
<1>3. ASSUME NEW t \in Threads, Begin(t) PROVE IdsDrawn'
  BY <1>3 DEF Begin, Goto
<1>4. ASSUME NEW t \in Threads, PollCancelled(t) \/ PollExpired(t) \/ Read(t)
      PROVE  IdsDrawn'
  BY <1>4 DEF PollCancelled, PollExpired, Read, Goto
<1>5. ASSUME NEW t \in Threads, End(t) \/ Finish(t) PROVE IdsDrawn'
  BY <1>5 DEF End, Finish, Goto
<1>6. ASSUME NEW i \in Ids, Generated(i) \/ Cancel(i) PROVE IdsDrawn'
  BY <1>6 DEF Generated, Cancel, Answer
<1>7. CASE UNCHANGED vars  BY <1>7 DEF vars
<1>8. QED
  BY <1>1, <1>2, <1>3, <1>4, <1>5, <1>6, <1>7 DEF Next, Request, ChunkMap


\* What Finish does to `retired`, `active` and the handles.
LEMMA FinishStep ==
    ASSUME CoordinatorInv, NEW t \in Threads, Finish(t)
    PROVE  /\ req[t].id \in Ids /\ HandleOf(t) \in LiveHandle
           /\ retired' \subseteq retired \cup {EntryOf(t)}
           /\ \A r, s \in retired \cup {EntryOf(t)} : r.id = s.id => r = s
           /\ \A r \in retired' : handle'[r.id] = handle[r.id]
           /\ \A i \in Ids : handle'[i] = handle[i] \/ handle'[i] = "released"
           /\ \A i \in Ids : handle'[i] \in LiveHandle => handle'[i] = handle[i]
           /\ \A i \in Ids : handle'[i] # handle[i] =>
                handle'[i] = "released" /\ \E r \in retired \cup {EntryOf(t)} : r.id = i
           /\ \A r \in retired \cup {EntryOf(t)} :
                r \in retired' \/ handle'[r.id] = "released"
<1> DEFINE all == retired \cup {EntryOf(t)}
<1>1. /\ pc[t] = "finish" /\ retired' = Prune(active', all)
      /\ handle' = [i \in Ids |-> IF \E r \in all \ retired' : r.id = i
                                 THEN "released" ELSE handle[i]]
  BY DEF Finish, Goto
<1>2. req[t].id \in Ids /\ EntryOf(t) \in Entry
  BY <1>1, EntryType DEF CoordinatorInv, InRequest
<1>3. HandleOf(t) \in LiveHandle  BY <1>1 DEF CoordinatorInv, HandlesInStep, Holding
<1>4. retired' \subseteq all  BY <1>1 DEF Prune
<1>5. \A r, s \in all : r.id = s.id => r = s
  BY <1>1 DEF CoordinatorInv, RetiredInStep, InRequest, EntryOf
<1>6. all \subseteq Entry  BY <1>2 DEF CoordinatorInv, TypeOK
<1>7. \A r \in all : r.id \in Ids  BY <1>6 DEF Entry
<1>8. ASSUME NEW r \in retired' PROVE handle'[r.id] = handle[r.id]
  <2>1. ~\E s \in all \ retired' : s.id = r.id  BY <1>4, <1>5
  <2>2. QED BY <2>1, <1>1, <1>4, <1>7
<1>9. \A i \in Ids : handle'[i] # handle[i] =>
         handle'[i] = "released" /\ \E r \in all : r.id = i
  BY <1>1
<1>10. \A r \in all : r \in retired' \/ handle'[r.id] = "released"
  BY <1>1, <1>7
<1>11. \A i \in Ids : handle'[i] \in LiveHandle => handle'[i] = handle[i]
  BY <1>9 DEF LiveHandle
<1>12. QED BY <1>2, <1>3, <1>4, <1>5, <1>8, <1>9, <1>10, <1>11

\* requests.rs:82-87: handles move with their requests.
LEMMA HandlesStep ==
    ASSUME CoordinatorInv, [Next]_vars
    PROVE  HandlesInStep'
<1> USE DEF HandlesInStep, Holding, HandleOf
<1>0. TypeOK /\ IdsDrawn /\ nextId \in Nat /\ Ids \subseteq Nat
  BY DEF CoordinatorInv, TypeOK, Ids
<1>1. ASSUME NEW t \in Threads, Call(t) PROVE HandlesInStep'
  <2>1. nextId \in Ids  BY <1>0, <1>1, CoordinatorAssumption DEF Call, Ids
  <2>2. handle[nextId] = "unissued"  BY <2>1, <1>0 DEF CoordinatorInv
  <2>3. QED BY <1>0, <1>1, <2>2 DEF Call, Goto, CoordinatorInv, TypeOK
<1>2. ASSUME NEW t \in Threads, Register(t) \/ Wake(t) \/ PollReady(t) \/ Begin(t) \/ End(t)
      PROVE  HandlesInStep'
  BY <1>0, <1>2 DEF Register, Wake, PollReady, Begin, End, Goto, CoordinatorInv, TypeOK
<1>3. ASSUME NEW t \in Threads, Issue(t) PROVE HandlesInStep'
  <2>1. req[t].id \in Ids /\ req[t].id < nextId
    BY <1>0, <1>3, EntryType DEF Issue, Goto, InRequest, IdsDrawn
  <2>2. \A u \in Threads : u # t /\ pc[u] \notin {"idle", "read"} => req[u].id # req[t].id
    BY <1>0, <1>3 DEF Issue, Goto, IdsDrawn, InRequest
  <2>3. QED BY <1>0, <1>3, <2>1, <2>2 DEF Issue, Goto, CoordinatorInv, TypeOK, LiveHandle
<1>4. ASSUME NEW t \in Threads, PollCancelled(t) \/ PollExpired(t) PROVE HandlesInStep'
  <2>1. req[t].id \in Ids /\ req[t].id < nextId
    BY <1>0, <1>4, EntryType DEF PollCancelled, PollExpired, Goto, InRequest, IdsDrawn
  <2>2. \A u \in Threads : u # t /\ pc[u] \notin {"idle", "read"} => req[u].id # req[t].id
    BY <1>0, <1>4 DEF PollCancelled, PollExpired, Goto, IdsDrawn, InRequest
  <2>3. /\ pc[t] = "poll" /\ pc' = [pc EXCEPT ![t] = "idle"]
        /\ \E s \in Lost : handle' = [handle EXCEPT ![req[t].id] = s]
        /\ req' = req /\ nextId' = nextId /\ retired' = retired
    BY <1>4 DEF PollCancelled, PollExpired, Goto, HandleOf, Lost
  <2>4. QED BY <1>0, <2>1, <2>2, <2>3 DEF CoordinatorInv, TypeOK, LiveHandle, Lost
<1>5. ASSUME NEW t \in Threads, Finish(t) PROVE HandlesInStep'
  <2>1. /\ pc[t] = "finish" /\ pc' = [pc EXCEPT ![t] = "read"]
        /\ req' = req /\ nextId' = nextId
    BY <1>5 DEF Finish, Goto
  <2>2. \A i \in Ids : i >= nextId => handle'[i] = "unissued"
    BY <1>0, <1>5, FinishStep DEF CoordinatorInv, RetiredInStep, EntryOf, LiveHandle, HandleOf
  <2>3. \A u \in Threads : pc'[u] \in {"register", "issue"} => handle'[req[u].id] = "unissued"
    <3> SUFFICES ASSUME NEW u \in Threads, pc'[u] \in {"register", "issue"}
                 PROVE  handle'[req[u].id] = "unissued"
      OBVIOUS
    <3>1. u # t /\ pc[u] \in {"register", "issue"}  BY <1>0, <2>1 DEF TypeOK
    <3>2. req[u].id \in Ids /\ handle[req[u].id] = "unissued"
      BY <1>0, <3>1, EntryType DEF CoordinatorInv, InRequest
    <3>3. QED BY <3>2, <1>5, FinishStep DEF CoordinatorInv, RetiredInStep, EntryOf, LiveHandle, HandleOf
  <2>4. \A u \in Threads : pc'[u] \in {"begin", "wake", "poll", "end", "finish"} =>
                 handle'[req[u].id] \in LiveHandle
    <3> SUFFICES ASSUME NEW u \in Threads, pc'[u] \in {"begin", "wake", "poll", "end", "finish"}
                 PROVE  handle'[req[u].id] \in LiveHandle
      OBVIOUS
    <3>1. u # t /\ pc[u] \in {"begin", "wake", "poll", "end", "finish"}  BY <1>0, <2>1 DEF TypeOK
    <3>2. req[u].id \in Ids /\ handle[req[u].id] \in LiveHandle /\ req[u].id # req[t].id
      BY <1>0, <2>1, <3>1, EntryType DEF CoordinatorInv, InRequest, IdsDrawn
    <3>3. \A r \in retired \cup {EntryOf(t)} : r.id # req[u].id
      BY <3>1, <3>2 DEF CoordinatorInv, RetiredInStep, InRequest, EntryOf
    <3>4. QED BY <3>2, <3>3, <1>5, FinishStep
  <2>5. \A i \in Ids : handle'[i] \in LiveHandle =>
         \/ \E u \in Threads : pc'[u] \in {"begin", "wake", "poll", "end", "finish"} /\ req[u].id = i
         \/ \E r \in retired' : r.id = i
    <3> SUFFICES ASSUME NEW i \in Ids, handle'[i] \in LiveHandle
                 PROVE  \/ \E u \in Threads : /\ pc'[u] \in {"begin", "wake", "poll", "end", "finish"}
                                              /\ req[u].id = i
                        \/ \E r \in retired' : r.id = i
      OBVIOUS
    <3>1. handle[i] \in LiveHandle /\ handle'[i] # "released"
      BY <1>5, FinishStep DEF LiveHandle
    <3>2. CASE \E r \in retired \cup {EntryOf(t)} : r.id = i
      BY <3>1, <3>2, <1>5, FinishStep
    <3>3. CASE \E u \in Threads : /\ pc[u] \in {"begin", "wake", "poll", "end", "finish"}
                                  /\ req[u].id = i /\ u # t
      BY <3>3, <1>0, <2>1 DEF TypeOK
    <3>4. QED BY <3>1, <3>2, <3>3 DEF CoordinatorInv, EntryOf
  <2>6. QED BY <2>1, <2>2, <2>3, <2>4, <2>5
<1>6. ASSUME NEW t \in Threads, Read(t) PROVE HandlesInStep'
  BY <1>0, <1>6 DEF Read, Goto, CoordinatorInv, TypeOK
<1>7. ASSUME NEW i \in Ids, Generated(i) \/ Cancel(i) PROVE HandlesInStep'
  <2>1. PICK answer \in {"ready", "cancelled"} : Answer(i, answer)
    BY <1>7 DEF Generated, Cancel
  <2>2. QED BY <1>0, <2>1 DEF Answer, CoordinatorInv, TypeOK, LiveHandle
<1>8. CASE UNCHANGED vars  BY <1>8 DEF vars, CoordinatorInv
<1>9. QED
  BY <1>1, <1>2, <1>3, <1>4, <1>5, <1>6, <1>7, <1>8 DEF Next, Request, ChunkMap


\* requests.rs:119 and 159: entries of `active` come and go with requests.
LEMMA ActiveStep ==
    ASSUME CoordinatorInv, [Next]_vars
    PROVE  ActiveInStep'
<1> USE DEF ActiveInStep, Registered, HandleOf, EntryOf
<1>0. TypeOK /\ IdsDrawn /\ active \subseteq Entry /\ \A a \in active : a.id \in Ids
  BY DEF CoordinatorInv, TypeOK, Entry
<1>1. ASSUME NEW t \in Threads, Call(t) PROVE ActiveInStep'
  BY <1>0, <1>1 DEF Call, Goto, CoordinatorInv, TypeOK
<1>2. ASSUME NEW t \in Threads, Register(t) PROVE ActiveInStep'
  BY <1>0, <1>2 DEF Register, Goto, CoordinatorInv, TypeOK
<1>3. ASSUME NEW t \in Threads, Wake(t) \/ PollReady(t) \/ Begin(t) \/ End(t) \/ Read(t)
      PROVE  ActiveInStep'
  BY <1>0, <1>3 DEF Wake, PollReady, Begin, End, Read, Goto, CoordinatorInv, TypeOK
<1>4. ASSUME NEW t \in Threads, Issue(t) PROVE ActiveInStep'
  <2>1. req[t].id \in Ids /\ HandleOf(t) = "unissued"
    BY <1>0, <1>4, EntryType DEF Issue, Goto, InRequest, CoordinatorInv, HandlesInStep
  <2>2. QED BY <1>0, <1>4, <2>1 DEF Issue, Goto, CoordinatorInv, TypeOK, Lost
<1>5. ASSUME NEW t \in Threads, PollCancelled(t) \/ PollExpired(t) PROVE ActiveInStep'
  <2>1. req[t].id \in Ids /\ EntryOf(t) \in active
    BY <1>0, <1>5, EntryType DEF PollCancelled, PollExpired, Goto, InRequest, CoordinatorInv
  <2>2. /\ pc[t] = "poll" /\ pc' = [pc EXCEPT ![t] = "idle"]
        /\ \E s \in Lost : handle' = [handle EXCEPT ![req[t].id] = s]
        /\ req' = req /\ active' = active
    BY <1>5 DEF PollCancelled, PollExpired, Goto, Lost
  <2>3. QED BY <1>0, <2>1, <2>2 DEF CoordinatorInv, TypeOK
<1>6. ASSUME NEW t \in Threads, Finish(t) PROVE ActiveInStep'
  <2>1. /\ pc[t] = "finish" /\ pc' = [pc EXCEPT ![t] = "read"] /\ req' = req
        /\ active' = {a \in active : a.id # req[t].id}
    BY <1>6 DEF Finish, Goto
  <2>2. \A i \in Ids : handle'[i] \in Lost <=> handle[i] \in Lost
    <3>1. \A r \in retired \cup {EntryOf(t)} : handle[r.id] \notin Lost
      BY <1>6, FinishStep DEF CoordinatorInv, RetiredInStep, LiveHandle, Lost
    <3>2. QED BY <3>1, <1>6, FinishStep DEF Lost
  <2>3. \A u \in Threads : u # t /\ pc[u] \notin {"idle", "read"} => req[u].id # req[t].id
    BY <1>0, <2>1 DEF IdsDrawn, InRequest
  <2>4. HandleOf(t) \notin Lost  BY <1>6, FinishStep DEF LiveHandle, Lost
  <2>5. QED BY <1>0, <2>1, <2>2, <2>3, <2>4 DEF CoordinatorInv, TypeOK
<1>7. ASSUME NEW i \in Ids, Generated(i) \/ Cancel(i) PROVE ActiveInStep'
  <2>1. PICK answer \in {"ready", "cancelled"} : Answer(i, answer)
    BY <1>7 DEF Generated, Cancel
  <2>2. QED BY <1>0, <2>1 DEF Answer, CoordinatorInv, TypeOK, Lost
<1>8. CASE UNCHANGED vars  BY <1>8 DEF vars, CoordinatorInv
<1>9. QED
  BY <1>1, <1>2, <1>3, <1>4, <1>5, <1>6, <1>7, <1>8 DEF Next, Request, ChunkMap

\* requests.rs:160 and 175: `retired` gains the handle of a request that ends
\* and keeps nothing it has released.
LEMMA RetiredStep ==
    ASSUME CoordinatorInv, [Next]_vars
    PROVE  RetiredInStep'
<1> USE DEF RetiredInStep, InRequest, HandleOf
<1>0. TypeOK /\ IdsDrawn /\ retired \subseteq Entry /\ \A r \in retired : r.id \in Ids
  BY DEF CoordinatorInv, TypeOK, Entry
<1>1. ASSUME NEW t \in Threads, Call(t) PROVE RetiredInStep'
  <2>1. nextId \in Ids /\ handle[nextId] = "unissued"
    BY <1>0, <1>1, CoordinatorAssumption DEF Call, Ids, TypeOK, CoordinatorInv, HandlesInStep
  <2>2. \A r \in retired : r.id # nextId
    BY <2>1 DEF CoordinatorInv, LiveHandle
  <2>3. QED BY <1>0, <1>1, <2>2 DEF Call, Goto, CoordinatorInv, TypeOK
<1>2. ASSUME NEW t \in Threads,
             Register(t) \/ Wake(t) \/ PollReady(t) \/ Begin(t) \/ End(t) \/ Read(t)
      PROVE  RetiredInStep'
  BY <1>0, <1>2 DEF Register, Wake, PollReady, Begin, End, Read, Goto, CoordinatorInv, TypeOK
<1>3. ASSUME NEW t \in Threads, Issue(t) \/ PollCancelled(t) \/ PollExpired(t)
      PROVE  RetiredInStep'
  <2>1. \A r \in retired : r.id # req[t].id
    BY <1>3 DEF Issue, PollCancelled, PollExpired, Goto, CoordinatorInv
  <2>2. QED BY <1>0, <1>3, <2>1
               DEF Issue, PollCancelled, PollExpired, Goto, CoordinatorInv, TypeOK
<1>4. ASSUME NEW t \in Threads, Finish(t) PROVE RetiredInStep'
  <2>1. pc[t] = "finish" /\ pc' = [pc EXCEPT ![t] = "read"] /\ req' = req
    BY <1>4 DEF Finish, Goto
  <2>2. \A u \in Threads : u # t /\ pc[u] \notin {"idle", "read"} => req[u].id # req[t].id
    BY <1>0, <2>1 DEF IdsDrawn
  <2>3. \A r \in retired' : handle'[r.id] \in LiveHandle
    BY <1>4, FinishStep DEF CoordinatorInv, EntryOf
  <2>4. \A r, q \in retired' : r.id = q.id => r = q
    BY <1>4, FinishStep
  <2>5. \A r \in retired' : \A u \in Threads : pc'[u] \notin {"idle", "read"} => req[u].id # r.id
    <3> SUFFICES ASSUME NEW r \in retired', NEW u \in Threads, pc'[u] \notin {"idle", "read"}
                 PROVE  req[u].id # r.id
      OBVIOUS
    <3>1. u # t /\ pc[u] \notin {"idle", "read"}  BY <1>0, <2>1 DEF TypeOK
    <3>2. r \in retired \/ r.id = req[t].id  BY <1>4, FinishStep DEF EntryOf
    <3>3. QED BY <3>1, <3>2, <2>2 DEF CoordinatorInv
  <2>6. QED BY <2>1, <2>3, <2>4, <2>5
<1>5. ASSUME NEW i \in Ids, Generated(i) \/ Cancel(i) PROVE RetiredInStep'
  <2>1. PICK answer \in {"ready", "cancelled"} : Answer(i, answer)
    BY <1>5 DEF Generated, Cancel
  <2>2. QED BY <1>0, <2>1 DEF Answer, CoordinatorInv, TypeOK, LiveHandle
<1>6. CASE UNCHANGED vars  BY <1>6 DEF vars, CoordinatorInv
<1>7. QED
  BY <1>1, <1>2, <1>3, <1>4, <1>5, <1>6 DEF Next, Request, ChunkMap

----------------------------------------------------------------------------

\* The invariant is one.
THEOREM CoordinatorInvariant == Spec => []CoordinatorInv
<1>1. Init => CoordinatorInv  BY InitInv
<1>2. CoordinatorInv /\ [Next]_vars => CoordinatorInv'
  BY TypeStep, IdsStep, HandlesStep, ActiveStep, RetiredStep DEF CoordinatorInv
<1>3. QED BY <1>1, <1>2, PTL DEF Spec

\* requests.rs:89-112: the types of the coordinator's state.
THEOREM TypeCorrect == Spec => []TypeOK
<1>1. CoordinatorInv => TypeOK  BY DEF CoordinatorInv
<1>2. QED BY <1>1, CoordinatorInvariant, PTL

\* requests.rs:119 and 159: `active` is what is registered and what panics left.
THEOREM ActiveIsExact == Spec => []ActiveExact
<1>1. CoordinatorInv => ActiveExact
  <2> SUFFICES ASSUME CoordinatorInv PROVE ActiveExact  OBVIOUS
  <2>1. \A a \in active : a.id \in Ids  BY DEF CoordinatorInv, TypeOK, Entry
  <2>2. ASSUME NEW a \in active
        PROVE  \/ \E t \in Threads : Registered(t) /\ req[t].id = a.id
               \/ a.id \in Ids /\ handle[a.id] \in Lost
    BY <2>1 DEF CoordinatorInv, ActiveInStep
  <2>3. ASSUME NEW t \in Threads, Registered(t)
        PROVE  \E a \in active : a.id = req[t].id
    BY <2>3 DEF CoordinatorInv, ActiveInStep, EntryOf
  <2>4. ASSUME NEW i \in Ids, handle[i] \in Lost
        PROVE  \E a \in active : a.id = i
    BY <2>4 DEF CoordinatorInv, ActiveInStep
  <2>5. QED BY <2>2, <2>3, <2>4 DEF ActiveExact, Lost
<1>2. QED BY <1>1, CoordinatorInvariant, PTL

\* requests.rs:82-87 and 160: every held ticket has its one owner, no other has any.
THEOREM TicketsAreOwned == Spec => []TicketsOwned
<1>1. CoordinatorInv => TicketsOwned
  <2> SUFFICES ASSUME CoordinatorInv, NEW i \in Ids
               PROVE  Cardinality({t \in Threads : Holding(t) /\ req[t].id = i})
                        + Cardinality({r \in retired : r.id = i})
                          = IF handle[i] \in LiveHandle THEN 1 ELSE 0
    BY DEF TicketsOwned
  <2> DEFINE holders == {t \in Threads : Holding(t) /\ req[t].id = i}
             kept == {r \in retired : r.id = i}
  <2>1. \A t \in holders : t \in Threads /\ req[t].id = i /\ InRequest(t)
                             /\ handle[i] \in LiveHandle
    BY DEF CoordinatorInv, HandlesInStep, HandleOf, Holding, InRequest
  <2>2. \A r \in kept : r \in retired /\ r.id = i /\ handle[i] \in LiveHandle
    BY DEF CoordinatorInv, RetiredInStep
  <2>3. \A t, u \in holders : t = u  BY <2>1 DEF CoordinatorInv, IdsDrawn
  <2>4. \A r, s \in kept : r = s  BY <2>2 DEF CoordinatorInv, RetiredInStep
  <2>5. holders = {} \/ kept = {}
    BY <2>1, <2>2 DEF CoordinatorInv, RetiredInStep
  <2>6. Cardinality({}) = 0 /\ \A x : Cardinality({x}) = 1
    BY FS_EmptySet, FS_Singleton
  <2>7. CASE handle[i] \notin LiveHandle
    <3>1. holders = {} /\ kept = {}  BY <2>1, <2>2, <2>7
    <3>2. QED BY <2>6, <2>7, <3>1
  <2>8. CASE handle[i] \in LiveHandle
    <3>1. holders # {} \/ kept # {}  BY <2>8 DEF CoordinatorInv, HandlesInStep
    <3>2. CASE holders # {}
      <4>1. PICK t : t \in holders  BY <3>2
      <4>2. holders = {t} /\ kept = {}  BY <2>3, <2>5, <4>1
      <4>3. Cardinality(holders) = 1 /\ Cardinality(kept) = 0  BY <2>6, <4>2
      <4> HIDE DEF holders, kept
      <4>4. Cardinality(holders) + Cardinality(kept) = 1  BY <4>3
      <4>5. QED BY <2>8, <4>4 DEF holders, kept
    <3>3. CASE kept # {}
      <4>1. PICK r : r \in kept  BY <3>3
      <4>2. kept = {r} /\ holders = {}  BY <2>4, <2>5, <4>1
      <4>3. Cardinality(holders) = 0 /\ Cardinality(kept) = 1  BY <2>6, <4>2
      <4> HIDE DEF holders, kept
      <4>4. Cardinality(holders) + Cardinality(kept) = 1  BY <4>3
      <4>5. QED BY <2>8, <4>4 DEF holders, kept
    <3>4. QED BY <3>1, <3>2, <3>3
  <2>9. QED BY <2>7, <2>8
<1>2. QED BY <1>1, CoordinatorInvariant, PTL

\* requests.rs:3-8 and 170-176: no step releases a retired ticket near a
\* request that is in flight, wherever coordinates do not wrap.
THEOREM NeighboursStayRetained == Spec => NeighboursRetained
<1> DEFINE Kept ==
      \A t \in Threads : \A r \in retired : \A c \in Centers :
         /\ Registered(t) /\ Registered(t)' /\ req[t]' = req[t]
         /\ r.region = RegionOf(c)
         /\ InlandPosition(c) /\ InlandPosition(req[t].center)
         /\ Near(c, req[t].center)
         => r \in retired'
<1>1. CoordinatorInv /\ [Next]_vars => Kept
  <2> SUFFICES ASSUME CoordinatorInv, [Next]_vars,
                      NEW t \in Threads, NEW r \in retired, NEW c \in Centers,
                      Registered(t), Registered(t)', req[t]' = req[t],
                      r.region = RegionOf(c), InlandPosition(c),
                      InlandPosition(req[t].center), Near(c, req[t].center)
               PROVE  r \in retired'
    OBVIOUS
  <2>1. RegionsOverlap(RegionOf(req[t].center), r.region)
    <3>1. c \in Position /\ req[t].center \in Position
      BY CoordinatorAssumption DEF CoordinatorInv, TypeOK
    <3>2. RegionsOverlap(RegionOf(c), RegionOf(req[t].center))  BY <3>1, OverlapIsNear
    <3>3. QED BY <3>2, OverlapSymmetric
  <2>2. EntryOf(t) \in active  BY DEF CoordinatorInv, ActiveInStep
  <2>3. ASSUME NEW u \in Threads, Finish(u) PROVE r \in retired'
    <3>1. u # t  BY <2>3 DEF Finish, Goto, Registered, CoordinatorInv, TypeOK
    <3>2. req[t].id # req[u].id
      BY <2>3, <3>1 DEF Finish, Goto, Registered, CoordinatorInv, IdsDrawn, InRequest
    <3>3. EntryOf(t) \in active'  BY <2>2, <2>3, <3>2 DEF Finish, EntryOf
    <3>4. QED BY <2>1, <2>3, <3>3 DEF Finish, Prune, EntryOf
  <2>4. ASSUME NEW u \in Threads, Request(u), ~Finish(u) PROVE retired' = retired
    BY <2>4 DEF Request, Call, Register, Issue, Begin, Wake, PollReady, PollCancelled,
                PollExpired, End, Read
  <2>5. ChunkMap => retired' = retired  BY DEF ChunkMap, Generated, Cancel, Answer
  <2>6. UNCHANGED vars => retired' = retired  BY DEF vars
  <2>7. QED BY <2>3, <2>4, <2>5, <2>6 DEF Next
<1>2. [][Kept]_vars <=> NeighboursRetained  BY DEF NeighboursRetained
<1>3. QED BY <1>1, <1>2, CoordinatorInvariant, PTL DEF Spec


----------------------------------------------------------------------------
(***************************************************************************)
(* The live count.                                                         *)
(***************************************************************************)

LiveThreads == {t \in Threads : Live(t)}
FailedIds == {i \in Ids : handle[i] = "failed"}

LEMMA CountsAreFinite ==
    /\ IsFiniteSet(LiveThreads) /\ IsFiniteSet(FailedIds)
    /\ Cardinality(LiveThreads) \in Nat /\ Cardinality(FailedIds) \in Nat
<1>1. IsFiniteSet(Ids)
  BY FS_Interval, CoordinatorAssumption DEF Ids
<1>2. IsFiniteSet(LiveThreads) /\ IsFiniteSet(FailedIds)
  BY <1>1, FS_Subset, CoordinatorAssumption DEF LiveThreads, FailedIds
<1>3. QED BY <1>2, FS_CardinalityType

\* requests.rs:58-65: begin and end count, the cancelled panic does not.
LEMMA InflightStep ==
    ASSUME CoordinatorInv, InflightExact, [Next]_vars
    PROVE  InflightExact'
<1> DEFINE Sum == Cardinality(LiveThreads) + Cardinality(FailedIds)
<1> USE DEF Live
<1>0. TypeOK /\ inflight = Sum /\ (InflightExact' <=> inflight' = Sum')
  BY DEF CoordinatorInv, InflightExact, LiveThreads, FailedIds
<1>1. ASSUME LiveThreads' = LiveThreads, FailedIds' = FailedIds, inflight' = inflight
      PROVE  InflightExact'
  BY <1>0, <1>1
<1>2. ASSUME NEW t \in Threads,
             Call(t) \/ Register(t) \/ Wake(t) \/ PollReady(t) \/ Read(t)
      PROVE  InflightExact'
  <2>1. LiveThreads' = LiveThreads
    BY <1>0, <1>2 DEF Call, Register, Wake, PollReady, Read, Goto, LiveThreads, TypeOK
  <2>2. FailedIds' = FailedIds /\ inflight' = inflight
    BY <1>2 DEF Call, Register, Wake, PollReady, Read, FailedIds
  <2>3. QED BY <2>1, <2>2, <1>1
<1>3. ASSUME NEW t \in Threads, Issue(t) PROVE InflightExact'
  <2>1. HandleOf(t) = "unissued" /\ req[t].id \in Ids
    BY <1>0, <1>3, EntryType DEF Issue, Goto, CoordinatorInv, HandlesInStep, InRequest
  <2>2. LiveThreads' = LiveThreads  BY <1>0, <1>3 DEF Issue, Goto, LiveThreads, TypeOK
  <2>3. FailedIds' = FailedIds
    BY <1>0, <1>3, <2>1 DEF Issue, FailedIds, HandleOf, TypeOK
  <2>4. QED BY <2>2, <2>3, <1>1, <1>3 DEF Issue
<1>4. ASSUME NEW t \in Threads, Begin(t) PROVE InflightExact'
  <2>1. t \notin LiveThreads /\ LiveThreads' = LiveThreads \cup {t}
    BY <1>0, <1>4 DEF Begin, Goto, LiveThreads, TypeOK
  <2>2. Cardinality(LiveThreads') = Cardinality(LiveThreads) + 1
    BY <2>1, CountsAreFinite, FS_AddElement
  <2>3. FailedIds' = FailedIds  BY <1>4 DEF Begin, FailedIds
  <2>4. QED BY <1>0, <1>4, <2>2, <2>3, CountsAreFinite DEF Begin
<1>5. ASSUME NEW t \in Threads, PollCancelled(t) PROVE InflightExact'
  <2>1. HandleOf(t) = "cancelled" /\ req[t].id \in Ids
    BY <1>0, <1>5, EntryType DEF PollCancelled, Goto, CoordinatorInv, InRequest
  <2>2. t \in LiveThreads /\ LiveThreads' = LiveThreads \ {t}
    BY <1>0, <1>5 DEF PollCancelled, Goto, LiveThreads, TypeOK
  <2>3. req[t].id \notin FailedIds /\ FailedIds' = FailedIds \cup {req[t].id}
    BY <1>0, <1>5, <2>1 DEF PollCancelled, FailedIds, HandleOf, TypeOK
  <2>4. Cardinality(LiveThreads') = Cardinality(LiveThreads) - 1
    BY <2>2, CountsAreFinite, FS_RemoveElement
  <2>5. Cardinality(FailedIds') = Cardinality(FailedIds) + 1
    BY <2>3, CountsAreFinite, FS_AddElement
  <2>6. QED BY <1>0, <1>5, <2>4, <2>5, CountsAreFinite DEF PollCancelled
<1>6. ASSUME NEW t \in Threads, PollExpired(t) \/ End(t) PROVE InflightExact'
  <2>1. t \in LiveThreads /\ LiveThreads' = LiveThreads \ {t}
    BY <1>0, <1>6 DEF PollExpired, End, Goto, LiveThreads, TypeOK
  <2>2. FailedIds' = FailedIds
    <3>1. CASE End(t)  BY <3>1 DEF End, FailedIds
    <3>2. CASE PollExpired(t)
      <4>1. HandleOf(t) = "pending" /\ req[t].id \in Ids
        BY <1>0, <3>2, EntryType DEF PollExpired, Goto, CoordinatorInv, InRequest
      <4>2. QED BY <1>0, <3>2, <4>1 DEF PollExpired, FailedIds, HandleOf, TypeOK
    <3>3. QED BY <1>6, <3>1, <3>2
  <2>3. Cardinality(LiveThreads') = Cardinality(LiveThreads) - 1
    BY <2>1, CountsAreFinite, FS_RemoveElement
  <2>4. QED BY <1>0, <1>6, <2>2, <2>3, CountsAreFinite DEF PollExpired, End
<1>7. ASSUME NEW t \in Threads, Finish(t) PROVE InflightExact'
  <2>1. LiveThreads' = LiveThreads  BY <1>0, <1>7 DEF Finish, Goto, LiveThreads, TypeOK
  <2>2. \A r \in retired \cup {EntryOf(t)} : handle[r.id] # "failed"
    BY <1>7, FinishStep DEF CoordinatorInv, RetiredInStep, EntryOf, HandleOf, LiveHandle
  <2>3. \A i \in Ids : handle'[i] = "failed" <=> handle[i] = "failed"
    BY <2>2, <1>7, FinishStep
  <2>4. FailedIds' = FailedIds  BY <2>3 DEF FailedIds
  <2>5. QED BY <2>1, <2>4, <1>1, <1>7 DEF Finish
<1>8. ASSUME NEW i \in Ids, Generated(i) \/ Cancel(i) PROVE InflightExact'
  <2>1. PICK answer \in {"ready", "cancelled"} : Answer(i, answer)
    BY <1>8 DEF Generated, Cancel
  <2>2. LiveThreads' = LiveThreads  BY <2>1 DEF Answer, LiveThreads
  <2>3. FailedIds' = FailedIds  BY <1>0, <2>1 DEF Answer, FailedIds, TypeOK
  <2>4. QED BY <2>1, <2>2, <2>3, <1>1 DEF Answer
<1>9. CASE UNCHANGED vars
  BY <1>9, <1>1 DEF vars, LiveThreads, FailedIds
<1>10. QED
  BY <1>2, <1>3, <1>4, <1>5, <1>6, <1>7, <1>8, <1>9 DEF Next, Request, ChunkMap

\* requests.rs:24, 127 and 147: the driver's count is the live requests plus
\* the cancelled ones, and nothing else.
THEOREM InflightIsExact == Spec => []InflightExact
<1>1. Init => InflightExact
  <2> SUFFICES ASSUME Init PROVE InflightExact  OBVIOUS
  <2>1. {t \in Threads : Live(t)} = {}  BY DEF Init, Live
  <2>2. {i \in Ids : handle[i] = "failed"} = {}  BY DEF Init
  <2>3. /\ Cardinality({t \in Threads : Live(t)}) = 0
        /\ Cardinality({i \in Ids : handle[i] = "failed"}) = 0
    BY <2>1, <2>2, FS_EmptySet
  <2>4. inflight = 0  BY DEF Init
  <2>5. QED BY <2>3, <2>4 DEF InflightExact
<1>2. CoordinatorInv /\ InflightExact /\ [Next]_vars => InflightExact'
  BY InflightStep
<1>3. QED BY <1>1, <1>2, CoordinatorInvariant, PTL DEF Spec

----------------------------------------------------------------------------

\* requests.rs:166-172: prune releases nothing while no other request is in
\* flight, for as long as no request has panicked.
THEOREM ReleasesNeedTraffic == Spec => ReleaseNeedsTraffic
<1> DEFINE Driven ==
      \A i \in Ids : handle[i] # "released" /\ handle'[i] = "released" =>
         \/ \E t \in Threads : Registered(t) /\ Registered(t)'
         \/ \E j \in Ids : handle[j] \in {"failed", "expired"}
<1>1. CoordinatorInv /\ [Next]_vars => Driven
  <2> SUFFICES ASSUME CoordinatorInv, [Next]_vars,
                      NEW i \in Ids, handle[i] # "released", handle'[i] = "released"
               PROVE  \/ \E t \in Threads : Registered(t) /\ Registered(t)'
                      \/ \E j \in Ids : handle[j] \in {"failed", "expired"}
    OBVIOUS
  <2>1. ASSUME NEW u \in Threads, Finish(u)
        PROVE  \/ \E t \in Threads : Registered(t) /\ Registered(t)'
               \/ \E j \in Ids : handle[j] \in {"failed", "expired"}
    <3>1. \E r \in (retired \cup {EntryOf(u)}) \ retired' : r.id = i
      BY <2>1 DEF Finish
    <3>2. active' # {}  BY <2>1, <3>1 DEF Finish, Prune
    <3>3. PICK a \in active : a.id # req[u].id  BY <2>1, <3>2 DEF Finish
    <3>4. a.id \in Ids  BY DEF CoordinatorInv, TypeOK, Entry
    <3>5. ASSUME NEW t \in Threads, Registered(t), req[t].id = a.id
          PROVE  Registered(t)'
      BY <2>1, <3>3, <3>5 DEF Finish, Goto, Registered, CoordinatorInv, TypeOK
    <3>6. QED BY <3>4, <3>5 DEF CoordinatorInv, ActiveInStep, Lost
  <2>2. ASSUME NEW u \in Threads, Request(u), ~Finish(u) PROVE FALSE
    BY <2>2 DEF Request, Call, Register, Issue, Begin, Wake, PollReady, PollCancelled,
                PollExpired, End, Read, CoordinatorInv, TypeOK
  <2>3. ChunkMap => FALSE
    BY DEF ChunkMap, Generated, Cancel, Answer, CoordinatorInv, TypeOK
  <2>4. UNCHANGED vars => FALSE  BY DEF vars
  <2>5. QED BY <2>1, <2>2, <2>3, <2>4 DEF Next
<1>2. [][Driven]_vars <=> ReleaseNeedsTraffic  BY DEF ReleaseNeedsTraffic
<1>3. QED BY <1>1, <1>2, CoordinatorInvariant, PTL DEF Spec

\* What is left when no thread is in a request: the cancelled requests in the
\* live count, and the requests that panicked in `active`.
QuietResidue ==
    (\A t \in Threads : pc[t] = "idle") =>
        /\ inflight = Cardinality(FailedIds)
        /\ {a.id : a \in active} = {i \in Ids : handle[i] \in Lost}

\* requests.rs:24 and 91: with no thread in a request, the live count and
\* `active` are exactly what panics left behind.
THEOREM QuietLeavesLost == Spec => []QuietResidue
<1>1. CoordinatorInv /\ InflightExact /\ ActiveExact => QuietResidue
  <2> SUFFICES ASSUME CoordinatorInv, InflightExact, ActiveExact,
                      \A t \in Threads : pc[t] = "idle"
               PROVE  /\ inflight = Cardinality(FailedIds)
                      /\ {a.id : a \in active} = {i \in Ids : handle[i] \in Lost}
    BY DEF QuietResidue
  <2>1. {t \in Threads : Live(t)} = {} /\ {u \in Threads : Registered(u)} = {}
    BY DEF Live, Registered
  <2>2. Cardinality({t \in Threads : Live(t)}) = 0  BY <2>1, FS_EmptySet
  <2>3. inflight = Cardinality(FailedIds)
    BY <2>2, CountsAreFinite DEF InflightExact, FailedIds
  <2>4. QED BY <2>1, <2>3 DEF ActiveExact, Lost
<1>2. QED BY <1>1, CoordinatorInvariant, InflightIsExact, ActiveIsExact, PTL

\* requests.rs:24 and 91: the comments are true of a coordinator none of whose
\* requests has panicked, and a request that expires spares the live count.
THEOREM QuietUnlessPanicked ==
    Spec => []/\ (\A i \in Ids : handle[i] \notin Lost) => QuietMeansEmpty
              /\ (\A i \in Ids : handle[i] # "failed") =>
                   ((\A t \in Threads : pc[t] = "idle") => inflight = 0)
<1> DEFINE Truth ==
      /\ (\A i \in Ids : handle[i] \notin Lost) => QuietMeansEmpty
      /\ (\A i \in Ids : handle[i] # "failed") =>
           ((\A t \in Threads : pc[t] = "idle") => inflight = 0)
<1>1. QuietResidue => Truth
  <2> SUFFICES ASSUME QuietResidue PROVE Truth  OBVIOUS
  <2>1. ASSUME \A i \in Ids : handle[i] # "failed" PROVE Cardinality(FailedIds) = 0
    <3>1. FailedIds = {}  BY <2>1 DEF FailedIds
    <3>2. QED BY <3>1, FS_EmptySet
  <2>2. ASSUME \A i \in Ids : handle[i] \notin Lost, {a.id : a \in active} =
                     {i \in Ids : handle[i] \in Lost}
        PROVE  active = {}
    BY <2>2
  <2>3. QED BY <2>1, <2>2 DEF QuietResidue, QuietMeansEmpty, Lost
<1>2. QED BY <1>1, QuietLeavesLost, PTL
=============================================================================
