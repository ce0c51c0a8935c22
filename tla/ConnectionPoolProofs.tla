------------------------ MODULE ConnectionPoolProofs ------------------------
(***************************************************************************)
(* Theorems about ConnectionPool, for every finite set of threads, every   *)
(* pool size and every number of channels.                                 *)
(***************************************************************************)
EXTENDS ConnectionPool, FiniteSetTheorems, TLAPS

Holders == {t \in Threads : HoldsPermit(t)}
Slots == {t \in Threads : HoldsSlot(t)}

\* Channels in somebody's hands and in the queue exist.
ChannelsKnown ==
    /\ \A t \in Threads : HoldsChannel(t) => chan[t] \in Channels /\ chan[t] < nextChannel
    /\ \A i \in DOMAIN idle : idle[i] < nextChannel

\* The inductive invariant.
PoolInv ==
    /\ TypeOK /\ ChannelsKnown
    /\ PermitsConserved /\ IdleHasRoom /\ ChannelsExclusive

----------------------------------------------------------------------------

LEMMA CountsAreFinite ==
    /\ IsFiniteSet(Holders) /\ IsFiniteSet(Slots)
    /\ Cardinality(Holders) \in Nat /\ Cardinality(Slots) \in Nat
    /\ Cardinality(Slots) <= Cardinality(Holders)
<1>1. IsFiniteSet(Holders)  BY FS_Subset, PoolAssumption DEF Holders
<1>2. Slots \subseteq Holders  BY DEF Slots, Holders, HoldsSlot, HoldsPermit
<1>3. IsFiniteSet(Slots) /\ Cardinality(Slots) <= Cardinality(Holders)
  BY <1>1, <1>2, FS_Subset
<1>4. QED BY <1>1, <1>3, FS_CardinalityType

\* A thread enters or leaves the holders of permits; the rest stay.
LEMMA HoldersStep ==
    ASSUME pc \in [Threads -> PC], NEW t \in Threads, NEW to \in PC,
           pc' = [pc EXCEPT ![t] = to]
    PROVE  /\ Holders' = IF to = "out" THEN Holders \ {t} ELSE Holders \cup {t}
           /\ Cardinality(Holders') =
                IF pc[t] = "out" /\ to # "out" THEN Cardinality(Holders) + 1
                ELSE IF pc[t] # "out" /\ to = "out" THEN Cardinality(Holders) - 1
                ELSE Cardinality(Holders)
<1>1. Holders' = IF to = "out" THEN Holders \ {t} ELSE Holders \cup {t}
  BY DEF Holders, HoldsPermit
<1>2. t \in Holders <=> pc[t] # "out"  BY DEF Holders, HoldsPermit
<1>3. QED BY <1>1, <1>2, CountsAreFinite, FS_AddElement, FS_RemoveElement

SlotPC == {"check", "open", "add", "using", "release", "offer", "discard"}

\* The same for the slots of the idle queue.
LEMMA SlotsStep ==
    ASSUME pc \in [Threads -> PC], NEW t \in Threads, NEW to \in PC,
           pc' = [pc EXCEPT ![t] = to]
    PROVE  Cardinality(Slots') =
                IF pc[t] \notin SlotPC /\ to \in SlotPC THEN Cardinality(Slots) + 1
                ELSE IF pc[t] \in SlotPC /\ to \notin SlotPC THEN Cardinality(Slots) - 1
                ELSE Cardinality(Slots)
<1>1. Slots' = IF to \in SlotPC THEN Slots \cup {t} ELSE Slots \ {t}
  BY DEF Slots, HoldsSlot, SlotPC
<1>2. t \in Slots <=> pc[t] \in SlotPC  BY DEF Slots, HoldsSlot, SlotPC
<1>3. QED BY <1>1, <1>2, CountsAreFinite, FS_AddElement, FS_RemoveElement

----------------------------------------------------------------------------

\* ConnectionPool.java:43-84: the permits stay conserved.
LEMMA PermitsStep ==
    ASSUME PoolInv, [Next]_poolVars
    PROVE  PermitsConserved' /\ permits' \in 0..MaxConnections
<1> DEFINE N == Cardinality(Holders)
<1>0. /\ pc \in [Threads -> PC] /\ permits \in Int /\ permits \in 0..MaxConnections
      /\ N \in Nat /\ N' \in Nat /\ MaxConnections \in Nat
      /\ permits + N = MaxConnections
      /\ PermitsConserved' <=> permits' + N' = MaxConnections
  <2>1. N \in Nat  BY CountsAreFinite
  <2>2. N' \in Nat
    <3>1. IsFiniteSet(Holders')  BY FS_Subset, PoolAssumption DEF Holders
    <3>2. QED BY <3>1, FS_CardinalityType
  <2>3. QED BY <2>1, <2>2, PoolAssumption
               DEF PoolInv, TypeOK, PermitsConserved, Holders
<1>1. ASSUME permits' + N' = MaxConnections, permits' \in Int, permits' >= 0
      PROVE  PermitsConserved' /\ permits' \in 0..MaxConnections
  BY <1>0, <1>1
<1>2. ASSUME NEW t \in Threads, Acquire(t)
      PROVE  PermitsConserved' /\ permits' \in 0..MaxConnections
  <2>1. pc[t] = "out" /\ pc' = [pc EXCEPT ![t] = "poll"] /\ "poll" \in PC
    BY <1>2 DEF Acquire, Goto, PC
  <2>2. N' = N + 1  BY <1>0, <2>1, HoldersStep
  <2>3. QED BY <1>0, <1>1, <1>2, <2>2 DEF Acquire
<1>3. ASSUME NEW t \in Threads, OpenFails(t) \/ ReleasePermit(t)
      PROVE  PermitsConserved' /\ permits' \in 0..MaxConnections
  <2>1. pc[t] # "out" /\ pc' = [pc EXCEPT ![t] = "out"] /\ "out" \in PC
    BY <1>3 DEF OpenFails, ReleasePermit, Goto, PC
  <2>2. N' = N - 1  BY <1>0, <2>1, HoldersStep
  <2>3. QED BY <1>0, <1>1, <1>3, <2>2 DEF OpenFails, ReleasePermit
<1>4. ASSUME NEW t \in Threads,
             \/ PollIdle(t) \/ PollEmpty(t) \/ ReuseOpen(t) \/ DropStale(t)
             \/ OpenOk(t) \/ AddOpened(t) \/ RequestOk(t) \/ RequestFails(t)
             \/ ReleaseCheck(t) \/ Offer(t) \/ Discard(t)
      PROVE  PermitsConserved' /\ permits' \in 0..MaxConnections
  <2>1. /\ pc[t] # "out" /\ permits' = permits
        /\ \E to \in PC \ {"out"} : pc' = [pc EXCEPT ![t] = to]
    BY <1>4 DEF PollIdle, PollEmpty, ReuseOpen, DropStale, OpenOk, AddOpened, RequestOk,
                RequestFails, ReleaseCheck, Offer, Discard, Goto, PC
  <2>2. N' = N  BY <1>0, <2>1, HoldersStep
  <2>3. QED BY <1>0, <1>1, <2>1, <2>2
<1>5. CASE CloseAllStep \/ UNCHANGED poolVars
  <2>1. permits' = permits /\ pc' = pc
    BY <1>5 DEF CloseAllStep, CloseAll, CloseOne, CloseEnd, ClearAll, ClearIdle, poolVars
  <2>2. Holders' = Holders  BY <2>1 DEF Holders, HoldsPermit
  <2>3. QED BY <1>0, <1>1, <2>1, <2>2
<1>6. QED BY <1>2, <1>3, <1>4, <1>5 DEF Next, PoolStep, Borrow, GiveBack

\* ConnectionPool.java:52-70: the idle queue keeps its free slots.
LEMMA RoomStep ==
    ASSUME PoolInv, [Next]_poolVars
    PROVE  IdleHasRoom'
<1> DEFINE N == Cardinality(Slots)
<1>0. /\ pc \in [Threads -> PC] /\ idle \in Seq(Channels) /\ Len(idle) \in Nat
      /\ N \in Nat /\ MaxConnections \in Nat
      /\ Len(idle) + N <= MaxConnections
      /\ IdleHasRoom' <=> Len(idle') + N' <= MaxConnections
  BY CountsAreFinite, PoolAssumption DEF PoolInv, TypeOK, IdleHasRoom, Slots
<1>1. ASSUME NEW t \in Threads, PollIdle(t) PROVE IdleHasRoom'
  <2>1. /\ pc[t] = "poll" /\ pc' = [pc EXCEPT ![t] = "check"] /\ "check" \in PC
        /\ Len(idle') = Len(idle) - 1
    BY <1>0, <1>1 DEF PollIdle, Goto, PC
  <2>2. N' = N + 1  BY <1>0, <2>1, SlotsStep DEF SlotPC
  <2>3. QED BY <1>0, <2>1, <2>2
<1>2. ASSUME NEW t \in Threads, PollEmpty(t) PROVE IdleHasRoom'
  <2>1. Len(idle') = 0  BY <1>2 DEF PollEmpty
  <2>2. N' <= Cardinality(Holders')
    <3>1. IsFiniteSet(Holders')  BY FS_Subset, PoolAssumption DEF Holders
    <3>2. Slots' \subseteq Holders'  BY DEF Slots, Holders, HoldsSlot, HoldsPermit
    <3>3. QED BY <3>1, <3>2, FS_Subset
  <2>3. Cardinality(Holders') <= MaxConnections
    <3>1. permits' + Cardinality(Holders') = MaxConnections /\ permits' \in 0..MaxConnections
      BY PermitsStep DEF PermitsConserved, Holders
    <3>2. IsFiniteSet(Holders')  BY FS_Subset, PoolAssumption DEF Holders
    <3>3. Cardinality(Holders') \in Nat  BY <3>2, FS_CardinalityType
    <3>4. QED BY <1>0, <3>1, <3>3
  <2>4. N' \in Nat
    <3>1. IsFiniteSet(Slots')  BY FS_Subset, PoolAssumption DEF Slots
    <3>2. QED BY <3>1, FS_CardinalityType
  <2>5. Cardinality(Holders') \in Nat
    <3>1. IsFiniteSet(Holders')  BY FS_Subset, PoolAssumption DEF Holders
    <3>2. QED BY <3>1, FS_CardinalityType
  <2>6. QED BY <1>0, <2>1, <2>2, <2>3, <2>4, <2>5
<1>3. ASSUME NEW t \in Threads, Offer(t) PROVE IdleHasRoom'
  <2>1. CASE Len(idle) < MaxConnections
    <3>1. /\ pc[t] = "offer" /\ pc' = [pc EXCEPT ![t] = "post"] /\ "post" \in PC
          /\ idle' = Append(idle, chan[t])
      BY <1>3, <2>1 DEF Offer, Goto, PC
    <3>2. N' = N - 1  BY <1>0, <3>1, SlotsStep DEF SlotPC
    <3>3. chan[t] \in Channels  BY <3>1 DEF PoolInv, ChannelsKnown, HoldsChannel
    <3>4. Len(idle') = Len(idle) + 1  BY <1>0, <3>1, <3>3
    <3>5. QED BY <1>0, <3>2, <3>4
  <2>2. CASE ~(Len(idle) < MaxConnections)
    <3>1. /\ pc[t] = "offer" /\ pc' = [pc EXCEPT ![t] = "discard"] /\ "discard" \in PC
          /\ idle' = idle
      BY <1>3, <2>2 DEF Offer, Goto, PC
    <3>2. N' = N  BY <1>0, <3>1, SlotsStep DEF SlotPC
    <3>3. QED BY <1>0, <3>1, <3>2
  <2>3. QED BY <2>1, <2>2
<1>4. ASSUME NEW t \in Threads,
             \/ Acquire(t) \/ ReuseOpen(t) \/ DropStale(t) \/ OpenOk(t) \/ OpenFails(t)
             \/ AddOpened(t) \/ RequestOk(t) \/ RequestFails(t) \/ ReleaseCheck(t)
             \/ Discard(t) \/ ReleasePermit(t)
      PROVE  IdleHasRoom'
  <2>1. /\ idle' = idle
        /\ \E to \in PC : /\ pc' = [pc EXCEPT ![t] = to]
                          /\ pc[t] \in SlotPC \/ to \notin SlotPC
    BY <1>4 DEF Acquire, ReuseOpen, DropStale, OpenOk, OpenFails, AddOpened, RequestOk,
                RequestFails, ReleaseCheck, Discard, ReleasePermit, Goto, PC, SlotPC
  <2>2. N' = N \/ N' = N - 1  BY <1>0, <2>1, SlotsStep
  <2>3. QED BY <1>0, <2>1, <2>2
<1>5. CASE CloseAllStep \/ UNCHANGED poolVars
  <2>1. pc' = pc /\ (idle' = idle \/ idle' = <<>>)
    BY <1>5 DEF CloseAllStep, CloseAll, CloseOne, CloseEnd, ClearAll, ClearIdle, poolVars
  <2>2. N' = N  BY <2>1 DEF Slots, HoldsSlot
  <2>3. Len(idle') <= Len(idle)  BY <1>0, <2>1
  <2>4. Len(idle') \in Nat  BY <1>0, <2>1
  <2>5. QED BY <1>0, <2>2, <2>3, <2>4
<1>6. QED BY <1>1, <1>2, <1>3, <1>4, <1>5 DEF Next, PoolStep, Borrow, GiveBack

\* ConnectionPool.java:25-28: types, given the bounds of the permits.
LEMMA TypeStep ==
    ASSUME PoolInv, [Next]_poolVars
    PROVE  TypeOK'
<1> USE DEF TypeOK
<1>0. /\ TypeOK /\ permits' \in 0..MaxConnections
      /\ \A t \in Threads : HoldsChannel(t) => chan[t] \in Channels
  BY PermitsStep DEF PoolInv, ChannelsKnown
<1>1. ASSUME NEW t \in Threads, PollIdle(t) PROVE TypeOK'
  <2>1. Head(idle) \in Channels /\ Tail(idle) \in Seq(Channels)
    BY <1>0, <1>1 DEF PollIdle
  <2>2. pc' \in [Threads -> PC]  BY <1>0, <1>1 DEF PollIdle, Goto, PC
  <2>3. QED BY <1>0, <1>1, <2>1, <2>2 DEF PollIdle
<1>2. ASSUME NEW t \in Threads, OpenOk(t) PROVE TypeOK'
  <2>1. nextChannel \in Channels /\ nextChannel' \in 1..(MaxChannels + 1)
    BY <1>0, <1>2, PoolAssumption DEF OpenOk, Channels
  <2>2. pc' \in [Threads -> PC]  BY <1>0, <1>2 DEF OpenOk, Goto, PC
  <2>3. QED BY <1>0, <1>2, <2>1, <2>2 DEF OpenOk
<1>3. ASSUME NEW t \in Threads, Offer(t) PROVE TypeOK'
  <2>1. chan[t] \in Channels  BY <1>0, <1>3 DEF Offer, Goto, HoldsChannel
  <2>2. pc' \in [Threads -> PC]  BY <1>0, <1>3 DEF Offer, Goto, PC
  <2>3. Append(idle, chan[t]) \in Seq(Channels)  BY <1>0, <2>1
  <2>4. idle' \in Seq(Channels)  BY <1>0, <1>3, <2>3 DEF Offer
  <2>5. chan' \in [Threads -> Channels \cup {NoChannel}]  BY <1>0, <1>3 DEF Offer
  <2>6. UNCHANGED <<all, open, nextChannel, closing, toClose>>  BY <1>3 DEF Offer
  <2>7. QED BY <1>0, <2>2, <2>4, <2>5, <2>6
<1>4. ASSUME NEW t \in Threads, AddOpened(t) PROVE TypeOK'
  <2>1. chan[t] \in Channels  BY <1>0, <1>4 DEF AddOpened, Goto, HoldsChannel
  <2>2. pc' \in [Threads -> PC]  BY <1>0, <1>4 DEF AddOpened, Goto, PC
  <2>3. QED BY <1>0, <1>4, <2>1, <2>2 DEF AddOpened
<1>5. ASSUME NEW t \in Threads,
             \/ Acquire(t) \/ PollEmpty(t) \/ ReuseOpen(t) \/ OpenFails(t) \/ RequestOk(t)
             \/ RequestFails(t) \/ ReleaseCheck(t) \/ ReleasePermit(t)
      PROVE  TypeOK'
  <2>1. pc' \in [Threads -> PC]
    BY <1>0, <1>5 DEF Acquire, PollEmpty, ReuseOpen, OpenFails, RequestOk, RequestFails,
                      ReleaseCheck, ReleasePermit, Goto, PC
  <2>2. UNCHANGED <<idle, all, open, chan, nextChannel, closing, toClose>>
    BY <1>5 DEF Acquire, PollEmpty, ReuseOpen, OpenFails, RequestOk, RequestFails,
                ReleaseCheck, ReleasePermit
  <2>3. QED BY <1>0, <2>1, <2>2
<1>6. ASSUME NEW t \in Threads, DropStale(t) \/ Discard(t) PROVE TypeOK'
  <2>1. pc' \in [Threads -> PC]  BY <1>0, <1>6 DEF DropStale, Discard, Goto, PC
  <2>2. QED BY <1>0, <1>6, <2>1 DEF DropStale, Discard
<1>7. CASE CloseAllStep
  <2>1. UNCHANGED <<pc, chan, nextChannel>>
    BY <1>7 DEF CloseAllStep, CloseAll, CloseOne, CloseEnd, ClearAll, ClearIdle
  <2>2. idle' = idle \/ idle' = <<>>
    BY <1>7 DEF CloseAllStep, CloseAll, CloseOne, CloseEnd, ClearAll, ClearIdle
  <2>3. all' \subseteq Channels /\ open' \subseteq Channels /\ toClose' \subseteq Channels
    BY <1>0, <1>7 DEF CloseAllStep, CloseAll, CloseOne, CloseEnd, ClearAll, ClearIdle
  <2>4. closing' \in {"off", "closing", "clearAll", "clearIdle"}
    BY <1>0, <1>7 DEF CloseAllStep, CloseAll, CloseOne, CloseEnd, ClearAll, ClearIdle
  <2>5. idle' \in Seq(Channels)
    <3>1. idle \in Seq(Channels)  BY <1>0
    <3>2. << >> \in Seq(Channels)  OBVIOUS
    <3>3. QED BY <3>1, <3>2, <2>2
  <2>6. QED BY <1>0, <2>1, <2>3, <2>4, <2>5
<1>8. CASE UNCHANGED poolVars  BY <1>0, <1>8 DEF poolVars
<1>9. QED BY <1>1, <1>2, <1>3, <1>4, <1>5, <1>6, <1>7, <1>8
             DEF Next, PoolStep, Borrow, GiveBack

\* ConnectionPool.java:58: a channel is new when the factory opens it.
LEMMA KnownStep ==
    ASSUME PoolInv, [Next]_poolVars
    PROVE  ChannelsKnown'
<1> USE DEF ChannelsKnown, HoldsChannel
<1>0. /\ TypeOK /\ ChannelsKnown /\ nextChannel \in Nat /\ Channels \subseteq Nat
      /\ pc \in [Threads -> PC] /\ chan \in [Threads -> Channels \cup {NoChannel}]
      /\ idle \in Seq(Channels)
  BY DEF PoolInv, TypeOK, Channels
<1>1. ASSUME NEW t \in Threads, PollIdle(t) PROVE ChannelsKnown'
  <2>1. /\ Head(idle) \in Channels /\ Head(idle) < nextChannel
        /\ \A i \in DOMAIN Tail(idle) : Tail(idle)[i] < nextChannel
    BY <1>0, <1>1 DEF PollIdle
  <2>2. QED BY <1>0, <1>1, <2>1 DEF PollIdle, Goto
<1>2. ASSUME NEW t \in Threads, OpenOk(t) PROVE ChannelsKnown'
  <2>1. nextChannel \in Channels  BY <1>0, <1>2 DEF OpenOk, Channels, TypeOK
  <2>2. \A n \in Channels : n < nextChannel => n < nextChannel + 1
    BY <1>0
  <2>3. \A i \in DOMAIN idle : idle[i] \in Channels  BY <1>0
  <2>4. /\ idle' = idle /\ nextChannel' = nextChannel + 1
        /\ pc' = [pc EXCEPT ![t] = "add"] /\ chan' = [chan EXCEPT ![t] = nextChannel]
    BY <1>2 DEF OpenOk, Goto
  <2>5. \A i \in DOMAIN idle' : idle'[i] < nextChannel'
    BY <1>0, <2>2, <2>3, <2>4
  <2>6. ASSUME NEW u \in Threads, HoldsChannel(u)'
        PROVE  chan'[u] \in Channels /\ chan'[u] < nextChannel'
    <3>1. CASE u = t  BY <1>0, <2>1, <2>4, <3>1
    <3>2. CASE u # t
      <4>1. HoldsChannel(u) /\ chan'[u] = chan[u]  BY <1>0, <2>4, <2>6, <3>2
      <4>2. QED BY <1>0, <2>2, <2>4, <4>1
    <3>3. QED BY <3>1, <3>2
  <2>7. QED BY <2>5, <2>6
<1>3. ASSUME NEW t \in Threads, Offer(t) PROVE ChannelsKnown'
  <2>1. chan[t] \in Channels /\ chan[t] < nextChannel  BY <1>0, <1>3 DEF Offer, Goto
  <2>2. CASE Len(idle) < MaxConnections
    <3>1. \A i \in DOMAIN Append(idle, chan[t]) : Append(idle, chan[t])[i] < nextChannel
      BY <1>0, <2>1
    <3>2. QED BY <1>0, <1>3, <2>2, <3>1 DEF Offer, Goto
  <2>3. CASE ~(Len(idle) < MaxConnections)
    BY <1>0, <1>3, <2>3 DEF Offer, Goto
  <2>4. QED BY <2>2, <2>3
<1>4. ASSUME NEW t \in Threads,
             \/ Acquire(t) \/ PollEmpty(t) \/ ReuseOpen(t) \/ OpenFails(t) \/ AddOpened(t)
             \/ RequestOk(t) \/ RequestFails(t) \/ ReleaseCheck(t) \/ ReleasePermit(t)
      PROVE  ChannelsKnown'
  <2>1. UNCHANGED <<idle, chan, nextChannel>>
    BY <1>4 DEF Acquire, PollEmpty, ReuseOpen, OpenFails, AddOpened, RequestOk,
                RequestFails, ReleaseCheck, ReleasePermit
  <2>2. \A u \in Threads : pc'[u] \in {"check", "add", "using", "release", "offer", "discard"}
          => pc[u] \in {"check", "add", "using", "release", "offer", "discard"}
    BY <1>0, <1>4 DEF Acquire, PollEmpty, ReuseOpen, OpenFails, AddOpened, RequestOk,
                      RequestFails, ReleaseCheck, ReleasePermit, Goto
  <2>3. QED BY <1>0, <2>1, <2>2
<1>5. ASSUME NEW t \in Threads, DropStale(t) \/ Discard(t) PROVE ChannelsKnown'
  BY <1>0, <1>5 DEF DropStale, Discard, Goto
<1>6. CASE CloseAllStep \/ UNCHANGED poolVars
  <2>1. pc' = pc /\ chan' = chan /\ nextChannel' = nextChannel /\ (idle' = idle \/ idle' = <<>>)
    BY <1>6 DEF CloseAllStep, CloseAll, CloseOne, CloseEnd, ClearAll, ClearIdle, poolVars
  <2>2. QED BY <1>0, <2>1
<1>7. QED BY <1>1, <1>2, <1>3, <1>4, <1>5, <1>6 DEF Next, PoolStep, Borrow, GiveBack

\* ConnectionPool.java:52 and 70: a channel changes hands, it is never shared.
LEMMA ExclusiveStep ==
    ASSUME PoolInv, [Next]_poolVars
    PROVE  ChannelsExclusive'
<1> USE DEF ChannelsExclusive, HoldsChannel
<1>0. /\ TypeOK /\ ChannelsKnown /\ ChannelsExclusive
      /\ pc \in [Threads -> PC] /\ chan \in [Threads -> Channels \cup {NoChannel}]
      /\ idle \in Seq(Channels) /\ nextChannel \in Nat /\ Channels \subseteq Nat
  BY DEF PoolInv, TypeOK, Channels
<1>1. ASSUME NEW t \in Threads, PollIdle(t) PROVE ChannelsExclusive'
  <2>1. /\ Head(idle) = idle[1] /\ 1 \in DOMAIN idle
        /\ \A i \in DOMAIN Tail(idle) : i + 1 \in DOMAIN idle /\ Tail(idle)[i] = idle[i + 1]
        /\ \A i \in DOMAIN Tail(idle) : i \in Nat \ {0}
    BY <1>0, <1>1 DEF PollIdle
  <2>2. \A i \in DOMAIN Tail(idle) : Tail(idle)[i] # Head(idle)
    BY <1>0, <2>1
  <2>3. \A i, j \in DOMAIN Tail(idle) : Tail(idle)[i] = Tail(idle)[j] => i = j
    BY <1>0, <2>1
  <2>4. \A u \in Threads : HoldsChannel(u) => chan[u] # Head(idle)
    BY <1>0, <2>1
  <2>5. \A u \in Threads : HoldsChannel(u) => \A i \in DOMAIN Tail(idle) : Tail(idle)[i] # chan[u]
    BY <1>0, <2>1
  <2>6. QED BY <1>0, <1>1, <2>2, <2>3, <2>4, <2>5 DEF PollIdle, Goto
<1>2. ASSUME NEW t \in Threads, OpenOk(t) PROVE ChannelsExclusive'
  <2>1. \A u \in Threads : HoldsChannel(u) => chan[u] # nextChannel
    BY <1>0 DEF ChannelsKnown
  <2>2. \A i \in DOMAIN idle : idle[i] # nextChannel
    BY <1>0 DEF ChannelsKnown
  <2>3. QED BY <1>0, <1>2, <2>1, <2>2 DEF OpenOk, Goto
<1>3. ASSUME NEW t \in Threads, Offer(t) PROVE ChannelsExclusive'
  <2>1. pc[t] = "offer" /\ chan[t] \in Channels
    BY <1>0, <1>3 DEF Offer, Goto, ChannelsKnown
  <2>2. CASE Len(idle) < MaxConnections
    <3> DEFINE new == Append(idle, chan[t])
    <3>1. \A i \in DOMAIN new : (i \in DOMAIN idle /\ new[i] = idle[i])
                              \/ (i = Len(idle) + 1 /\ new[i] = chan[t])
      BY <1>0, <2>1
    <3>2. \A i, j \in DOMAIN new : new[i] = new[j] => i = j
      BY <1>0, <2>1, <3>1
    <3>3. \A u \in Threads : u # t /\ HoldsChannel(u) => \A i \in DOMAIN new : new[i] # chan[u]
      BY <1>0, <2>1, <3>1
    <3>4. QED BY <1>0, <1>3, <2>1, <2>2, <3>2, <3>3 DEF Offer, Goto
  <2>3. CASE ~(Len(idle) < MaxConnections)
    BY <1>0, <1>3, <2>3 DEF Offer, Goto
  <2>4. QED BY <2>2, <2>3
<1>4. ASSUME NEW t \in Threads,
             \/ Acquire(t) \/ PollEmpty(t) \/ ReuseOpen(t) \/ OpenFails(t) \/ AddOpened(t)
             \/ RequestOk(t) \/ RequestFails(t) \/ ReleaseCheck(t) \/ ReleasePermit(t)
      PROVE  ChannelsExclusive'
  <2>1. idle' = idle /\ chan' = chan
    BY <1>4 DEF Acquire, PollEmpty, ReuseOpen, OpenFails, AddOpened, RequestOk,
                RequestFails, ReleaseCheck, ReleasePermit
  <2>2. \A u \in Threads : HoldsChannel(u)' => HoldsChannel(u)
    BY <1>0, <1>4 DEF Acquire, PollEmpty, ReuseOpen, OpenFails, AddOpened, RequestOk,
                      RequestFails, ReleaseCheck, ReleasePermit, Goto
  <2>3. QED BY <1>0, <2>1, <2>2
<1>5. ASSUME NEW t \in Threads, DropStale(t) \/ Discard(t) PROVE ChannelsExclusive'
  BY <1>0, <1>5 DEF DropStale, Discard, Goto
<1>6. CASE CloseAllStep \/ UNCHANGED poolVars
  <2>1. pc' = pc /\ chan' = chan /\ (idle' = idle \/ idle' = <<>>)
    BY <1>6 DEF CloseAllStep, CloseAll, CloseOne, CloseEnd, ClearAll, ClearIdle, poolVars
  <2>2. QED BY <1>0, <2>1
<1>7. QED BY <1>1, <1>2, <1>3, <1>4, <1>5, <1>6 DEF Next, PoolStep, Borrow, GiveBack

----------------------------------------------------------------------------

\* The invariant is one, fair threads or not.
THEOREM PoolSafety == Init /\ [][Next]_poolVars => []PoolInv
<1>1. Init => PoolInv
  <2> SUFFICES ASSUME Init PROVE PoolInv  OBVIOUS
  <2>1. TypeOK  BY PoolAssumption DEF Init, TypeOK, PC, Channels
  <2>2. ChannelsKnown /\ ChannelsExclusive
    BY DEF Init, ChannelsKnown, ChannelsExclusive, HoldsChannel
  <2>3. {t \in Threads : HoldsPermit(t)} = {} /\ {t \in Threads : HoldsSlot(t)} = {}
    BY DEF Init, HoldsPermit, HoldsSlot
  <2>4. /\ Cardinality({t \in Threads : HoldsPermit(t)}) = 0
        /\ Cardinality({t \in Threads : HoldsSlot(t)}) = 0
    BY <2>3, FS_EmptySet
  <2>5. permits = MaxConnections /\ Len(idle) = 0  BY DEF Init
  <2>6. PermitsConserved /\ IdleHasRoom
    BY <2>4, <2>5, PoolAssumption DEF PermitsConserved, IdleHasRoom
  <2>7. QED BY <2>1, <2>2, <2>6 DEF PoolInv
<1>2. PoolInv /\ [Next]_poolVars => PoolInv'
  BY TypeStep, KnownStep, PermitsStep, RoomStep, ExclusiveStep DEF PoolInv
<1>3. QED BY <1>1, <1>2, PTL

THEOREM PoolInvariant == Spec => []PoolInv
BY PoolSafety, PTL DEF Spec

\* ConnectionPool.java:25-28: the types of the pool's state.
THEOREM TypeCorrect == Spec => []TypeOK
<1>1. PoolInv => TypeOK  BY DEF PoolInv
<1>2. QED BY <1>1, PoolInvariant, PTL

\* ConnectionPool.java:43-84: no path loses a permit or gives one back twice.
THEOREM PermitsAreConserved == Spec => []PermitsConserved
<1>1. PoolInv => PermitsConserved  BY DEF PoolInv
<1>2. QED BY <1>1, PoolInvariant, PTL

\* ConnectionPool.java:70: offer always finds room.
THEOREM IdleAlwaysHasRoom == Spec => []IdleHasRoom
<1>1. PoolInv => IdleHasRoom  BY DEF PoolInv
<1>2. QED BY <1>1, PoolInvariant, PTL

\* ConnectionPool.java:52 and 70: no two requests share a connection.
THEOREM ChannelsAreExclusive == Spec => []ChannelsExclusive
<1>1. PoolInv => ChannelsExclusive  BY DEF PoolInv
<1>2. QED BY <1>1, PoolInvariant, PTL

----------------------------------------------------------------------------

\* ConnectionPool.java:50-84: no path of a request loses an open channel.
LEMMA PooledStep ==
    ASSUME TypeOK, [Next]_poolVars, ~ClearIdle,
           NEW c \in open', c \in open => Pooled(c)
    PROVE  Pooled(c)'
<1> USE DEF Pooled, HoldsChannel
<1>0. /\ pc \in [Threads -> PC] /\ chan \in [Threads -> Channels \cup {NoChannel}]
      /\ idle \in Seq(Channels)
  BY DEF TypeOK
<1>1. ASSUME NEW t \in Threads, PollIdle(t) PROVE Pooled(c)'
  <2>1. \A i \in DOMAIN idle : idle[i] = Head(idle) \/ \E j \in DOMAIN Tail(idle) : Tail(idle)[j] = idle[i]
    <3> SUFFICES ASSUME NEW i \in DOMAIN idle, i # 1
                 PROVE  \E j \in DOMAIN Tail(idle) : Tail(idle)[j] = idle[i]
      BY <1>0, <1>1 DEF PollIdle
    <3>1. i - 1 \in DOMAIN Tail(idle) /\ Tail(idle)[i - 1] = idle[i]
      BY <1>0, <1>1 DEF PollIdle
    <3>2. QED BY <3>1
  <2>2. /\ pc[t] = "poll" /\ pc' = [pc EXCEPT ![t] = "check"]
        /\ chan' = [chan EXCEPT ![t] = Head(idle)] /\ idle' = Tail(idle) /\ open' = open
    BY <1>1 DEF PollIdle, Goto
  <2>3. QED BY <1>0, <2>1, <2>2
<1>2. ASSUME NEW t \in Threads, OpenOk(t) PROVE Pooled(c)'
  BY <1>0, <1>2 DEF OpenOk, Goto
<1>3. ASSUME NEW t \in Threads, Offer(t) PROVE Pooled(c)'
  <2>1. CASE Len(idle) < MaxConnections
    <3>1. /\ pc[t] = "offer" /\ pc' = [pc EXCEPT ![t] = "post"]
          /\ chan' = [chan EXCEPT ![t] = NoChannel]
          /\ idle' = Append(idle, chan[t]) /\ open' = open
      BY <1>3, <2>1 DEF Offer, Goto
    <3>2. /\ \A i \in DOMAIN idle : i \in DOMAIN idle' /\ idle'[i] = idle[i]
          /\ Len(idle) + 1 \in DOMAIN idle' /\ idle'[Len(idle) + 1] = chan[t]
      BY <1>0, <3>1
    <3>3. QED BY <1>0, <3>1, <3>2
  <2>2. CASE ~(Len(idle) < MaxConnections)
    BY <1>0, <1>3, <2>2 DEF Offer, Goto
  <2>3. QED BY <2>1, <2>2
<1>4. ASSUME NEW t \in Threads, DropStale(t) \/ Discard(t) PROVE Pooled(c)'
  BY <1>0, <1>4 DEF DropStale, Discard, Goto
<1>5. ASSUME NEW t \in Threads,
             \/ Acquire(t) \/ PollEmpty(t) \/ ReuseOpen(t) \/ OpenFails(t) \/ AddOpened(t)
             \/ RequestOk(t) \/ RequestFails(t) \/ ReleaseCheck(t) \/ ReleasePermit(t)
      PROVE  Pooled(c)'
  <2>1. UNCHANGED <<idle, open, chan>>
    BY <1>5 DEF Acquire, PollEmpty, ReuseOpen, OpenFails, AddOpened, RequestOk,
                RequestFails, ReleaseCheck, ReleasePermit
  <2>2. \A u \in Threads : HoldsChannel(u) => HoldsChannel(u)'
    BY <1>0, <1>5 DEF Acquire, PollEmpty, ReuseOpen, OpenFails, AddOpened, RequestOk,
                      RequestFails, ReleaseCheck, ReleasePermit, Goto
  <2>3. QED BY <2>1, <2>2
<1>6. CASE (CloseAllStep /\ ~ClearIdle) \/ UNCHANGED poolVars
  <2>1. pc' = pc /\ chan' = chan /\ idle' = idle /\ open' \subseteq open
    BY <1>6 DEF CloseAllStep, CloseAll, CloseOne, CloseEnd, ClearAll, poolVars
  <2>2. QED BY <2>1
<1>7. QED BY <1>1, <1>2, <1>3, <1>4, <1>5, <1>6 DEF Next, PoolStep, Borrow, GiveBack

\* ConnectionPool.java:50-84: only the end of closeAll loses an open channel,
\* fair threads or not.
THEOREM ConnectionsAreKept == Init /\ [][Next]_poolVars => ConnectionsKept
<1> DEFINE Kept == ClearIdle \/ \A c \in open' : (c \in open => Pooled(c)) => Pooled(c)'
<1>1. PoolInv /\ [Next]_poolVars => Kept
  BY PooledStep DEF PoolInv
<1>2. [][Kept]_poolVars <=> ConnectionsKept  BY DEF ConnectionsKept
<1>3. QED BY <1>1, <1>2, PoolSafety, PTL

AllPooled == \A c \in open : Pooled(c)

\* A function's range is no larger than its domain.
LEMMA RangeIsFew ==
    ASSUME NEW f, NEW S, f = [x \in S |-> f[x]], IsFiniteSet(S)
    PROVE  IsFiniteSet({f[x] : x \in S}) /\ Cardinality({f[x] : x \in S}) <= Cardinality(S)
<1>1. f \in Surjection(S, {f[x] : x \in S})  BY DEF Surjection
<1>2. QED BY <1>1, FS_Surjection

\* The channels in somebody's hands or in the queue are few enough.
LEMMA PooledFew ==
    ASSUME PoolInv, AllPooled
    PROVE  IsFiniteSet(open) /\ Cardinality(open) <= MaxConnections
<1> DEFINE Hands == {chan[t] : t \in Slots}
           Queue == {idle[i] : i \in 1..Len(idle)}
<1>0. /\ idle \in Seq(Channels) /\ Len(idle) \in Nat /\ DOMAIN idle = 1..Len(idle)
      /\ Cardinality(Slots) \in Nat /\ IsFiniteSet(Slots) /\ MaxConnections \in Nat
      /\ Len(idle) + Cardinality(Slots) <= MaxConnections
  BY CountsAreFinite, PoolAssumption DEF PoolInv, TypeOK, IdleHasRoom, Slots
<1>1. IsFiniteSet(Hands) /\ Cardinality(Hands) <= Cardinality(Slots)
  <2> DEFINE f == [t \in Slots |-> chan[t]]
  <2>1. IsFiniteSet({f[t] : t \in Slots}) /\ Cardinality({f[t] : t \in Slots}) <= Cardinality(Slots)
    <3>1. f = [t \in Slots |-> f[t]]  OBVIOUS
    <3> HIDE DEF f
    <3>2. QED BY <1>0, <3>1, RangeIsFew
  <2>2. {f[t] : t \in Slots} = Hands  OBVIOUS
  <2>3. QED BY <2>1, <2>2
<1>2. IsFiniteSet(1..Len(idle)) /\ Cardinality(1..Len(idle)) = Len(idle)
  <2>1. IsFiniteSet(1..Len(idle)) /\ Cardinality(1..Len(idle)) =
                    IF 1 > Len(idle) THEN 0 ELSE Len(idle) - 1 + 1
    BY <1>0, 1 \in Int, Len(idle) \in Int, FS_Interval
  <2>2. QED BY <1>0, <2>1
<1>3. IsFiniteSet(Queue) /\ Cardinality(Queue) <= Len(idle)
  <2> DEFINE f == [i \in 1..Len(idle) |-> idle[i]]
  <2>1. /\ IsFiniteSet({f[i] : i \in 1..Len(idle)})
        /\ Cardinality({f[i] : i \in 1..Len(idle)}) <= Cardinality(1..Len(idle))
    <3>1. f = [i \in 1..Len(idle) |-> f[i]]  OBVIOUS
    <3> HIDE DEF f
    <3>2. QED BY <1>2, <3>1, RangeIsFew
  <2>2. {f[i] : i \in 1..Len(idle)} = Queue  OBVIOUS
  <2>3. QED BY <1>2, <2>1, <2>2
<1>4. /\ IsFiniteSet(Hands \cup Queue)
      /\ Cardinality(Hands \cup Queue) <= Cardinality(Hands) + Cardinality(Queue)
  <2>1. /\ IsFiniteSet(Hands \cup Queue) /\ IsFiniteSet(Hands \cap Queue)
        /\ Cardinality(Hands \cup Queue) =
             Cardinality(Hands) + Cardinality(Queue) - Cardinality(Hands \cap Queue)
    <3>1. IsFiniteSet(Hands \cap Queue)  BY <1>1, FS_Subset
    <3> HIDE DEF Hands, Queue
    <3>2. QED BY <1>1, <1>3, <3>1, FS_Union
  <2>2. /\ Cardinality(Hands) \in Nat /\ Cardinality(Queue) \in Nat
        /\ Cardinality(Hands \cap Queue) \in Nat
    BY <1>1, <1>3, <2>1, FS_CardinalityType
  <2>3. QED BY <2>1, <2>2
<1>5. open \subseteq Hands \cup Queue
  BY <1>0 DEF AllPooled, Pooled, HoldsChannel, Slots, HoldsSlot
<1>6. IsFiniteSet(open) /\ Cardinality(open) <= Cardinality(Hands \cup Queue)
  BY <1>4, <1>5, FS_Subset
<1>7. /\ Cardinality(open) \in Nat /\ Cardinality(Hands \cup Queue) \in Nat
      /\ Cardinality(Hands) \in Nat /\ Cardinality(Queue) \in Nat
  BY <1>1, <1>3, <1>4, <1>6, FS_CardinalityType
<1>8. QED BY <1>0, <1>1, <1>3, <1>4, <1>6, <1>7

\* ConnectionPool.java:50-84: as long as no closeAll clears the queue, every
\* open channel can be found, and there are never more than MaxConnections.
THEOREM OrphansNeedCloseAll ==
    Spec /\ [][~ClearIdle]_poolVars =>
        [](NoneOrphaned /\ IsFiniteSet(open) /\ Cardinality(open) <= MaxConnections)
<1>1. Init => AllPooled  BY DEF Init, AllPooled
<1>2. PoolInv /\ AllPooled /\ [Next]_poolVars /\ [~ClearIdle]_poolVars => AllPooled'
  <2> SUFFICES ASSUME PoolInv, AllPooled, [Next]_poolVars, [~ClearIdle]_poolVars
               PROVE  AllPooled'
    OBVIOUS
  <2>1. CASE UNCHANGED poolVars
    BY <2>1 DEF AllPooled, Pooled, HoldsChannel, poolVars
  <2>2. CASE ~ClearIdle
    BY <2>2, PooledStep DEF AllPooled, PoolInv
  <2>3. QED BY <2>1, <2>2
<1>3. AllPooled => NoneOrphaned  BY DEF AllPooled, NoneOrphaned
<1>4. PoolInv /\ AllPooled => IsFiniteSet(open) /\ Cardinality(open) <= MaxConnections
  BY PooledFew
<1>5. QED BY <1>1, <1>2, <1>3, <1>4, PoolInvariant, PTL DEF Spec
=============================================================================
