--------------------------- MODULE ConnectionPool ---------------------------
(***************************************************************************)
(* The Java client's pool of connections (ConnectionPool.java) with the    *)
(* threads that borrow from it and give back, and the closeAll that a      *)
(* restart or a close of the client runs against them.                     *)
(*                                                                         *)
(* The pool has no lock of its own: the semaphore, the queue of idle       *)
(* channels and the set of all channels are each atomic, and everything    *)
(* between two of them interleaves.  closeAll runs under the client's      *)
(* restartLock, so there is one at a time.                                 *)
(***************************************************************************)
EXTENDS Integers, Sequences, FiniteSets

CONSTANTS
    Threads,         \* threads that request chunks
    MaxConnections,  \* permits of the semaphore, capacity of the idle queue
    MaxChannels      \* bound on the channels opened in a behaviour

ASSUME PoolAssumption ==
    /\ IsFiniteSet(Threads)
    /\ MaxConnections \in Nat \ {0}
    /\ MaxChannels \in Nat

VARIABLES
    permits,      \* permits
    idle,         \* idleConnections, head first
    all,          \* allConnections
    open,         \* channels whose isOpen is true
    pc,           \* where each thread is in borrow, its request, release or discard
    chan,         \* the channel each thread holds, or NoChannel
    nextChannel,  \* the next channel the factory hands out
    closing,      \* where closeAll is
    toClose       \* channels its iterator has not come to yet

poolVars == <<permits, idle, all, open, pc, chan, nextChannel, closing, toClose>>

NoChannel == 0
Channels == 1..MaxChannels

\* borrow: out, poll, check, open, add; the request itself: using;
\* release: release, offer; discard: discard; the permit goes last: post.
PC == {"out", "poll", "check", "open", "add", "using", "release", "offer", "discard", "post"}

TypeOK ==
    /\ permits \in 0..MaxConnections
    /\ idle \in Seq(Channels)
    /\ all \subseteq Channels
    /\ open \subseteq Channels
    /\ pc \in [Threads -> PC]
    /\ chan \in [Threads -> Channels \cup {NoChannel}]
    /\ nextChannel \in 1..(MaxChannels + 1)
    /\ closing \in {"off", "closing", "clearAll", "clearIdle"}
    /\ toClose \subseteq Channels

Init ==
    /\ permits = MaxConnections
    /\ idle = <<>>
    /\ all = {}
    /\ open = {}
    /\ pc = [t \in Threads |-> "out"]
    /\ chan = [t \in Threads |-> NoChannel]
    /\ nextChannel = 1
    /\ closing = "off"
    /\ toClose = {}

Goto(t, from, to) == pc[t] = from /\ pc' = [pc EXCEPT ![t] = to]

----------------------------------------------------------------------------
(***************************************************************************)
(* borrow                                                                  *)
(***************************************************************************)

\* Mutant of Acquire: the result of a tryAcquire is ignored.
AcquireUnchecked(t) ==
    /\ Goto(t, "out", "poll")
    /\ permits' = IF permits > 0 THEN permits - 1 ELSE permits
    /\ UNCHANGED <<idle, all, open, chan, nextChannel, closing, toClose>>

\* An interrupted acquire throws and changes nothing.
Acquire(t) ==
    /\ Goto(t, "out", "poll")
    /\ permits > 0
    /\ permits' = permits - 1
    /\ UNCHANGED <<idle, all, open, chan, nextChannel, closing, toClose>>

\* Mutant of PollIdle: peek instead of poll.
PeekIdle(t) ==
    /\ idle # <<>>
    /\ Goto(t, "poll", "check")
    /\ chan' = [chan EXCEPT ![t] = Head(idle)]
    /\ UNCHANGED <<permits, idle, all, open, nextChannel, closing, toClose>>

PollIdle(t) ==
    /\ idle # <<>>
    /\ Goto(t, "poll", "check")
    /\ chan' = [chan EXCEPT ![t] = Head(idle)]
    /\ idle' = Tail(idle)
    /\ UNCHANGED <<permits, all, open, nextChannel, closing, toClose>>

PollEmpty(t) ==
    /\ idle = <<>>
    /\ Goto(t, "poll", "open")
    /\ UNCHANGED <<permits, idle, all, open, chan, nextChannel, closing, toClose>>

ReuseOpen(t) ==
    /\ chan[t] \in open
    /\ Goto(t, "check", "using")
    /\ UNCHANGED <<permits, idle, all, open, chan, nextChannel, closing, toClose>>

DropStale(t) ==
    /\ chan[t] \notin open
    /\ Goto(t, "check", "open")
    /\ all' = all \ {chan[t]}
    /\ chan' = [chan EXCEPT ![t] = NoChannel]
    /\ UNCHANGED <<permits, idle, open, nextChannel, closing, toClose>>

OpenOk(t) ==
    /\ nextChannel <= MaxChannels
    /\ Goto(t, "open", "add")
    /\ chan' = [chan EXCEPT ![t] = nextChannel]
    /\ open' = open \cup {nextChannel}
    /\ nextChannel' = nextChannel + 1
    /\ UNCHANGED <<permits, idle, all, closing, toClose>>

\* Mutant of OpenFails: the exception leaves without the permit.
OpenFailsWithPermit(t) ==
    /\ Goto(t, "open", "out")
    /\ UNCHANGED <<permits, idle, all, open, chan, nextChannel, closing, toClose>>

\* The factory's IOException gives the permit back and is thrown on.
OpenFails(t) ==
    /\ Goto(t, "open", "out")
    /\ permits' = permits + 1
    /\ UNCHANGED <<idle, all, open, chan, nextChannel, closing, toClose>>

AddOpened(t) ==
    /\ Goto(t, "add", "using")
    /\ all' = all \cup {chan[t]}
    /\ UNCHANGED <<permits, idle, open, chan, nextChannel, closing, toClose>>

----------------------------------------------------------------------------
(***************************************************************************)
(* The request on the borrowed channel, release and discard                *)
(***************************************************************************)

RequestOk(t) ==
    /\ chan[t] \in open
    /\ Goto(t, "using", "release")
    /\ UNCHANGED <<permits, idle, all, open, chan, nextChannel, closing, toClose>>

RequestFails(t) ==
    /\ Goto(t, "using", "discard")
    /\ UNCHANGED <<permits, idle, all, open, chan, nextChannel, closing, toClose>>

ReleaseCheck(t) ==
    /\ Goto(t, "release", IF chan[t] \in open THEN "offer" ELSE "discard")
    /\ UNCHANGED <<permits, idle, all, open, chan, nextChannel, closing, toClose>>

Offer(t) ==
    /\ IF Len(idle) < MaxConnections
       THEN /\ Goto(t, "offer", "post")
            /\ idle' = Append(idle, chan[t])
            /\ chan' = [chan EXCEPT ![t] = NoChannel]
       ELSE /\ Goto(t, "offer", "discard")
            /\ UNCHANGED <<idle, chan>>
    /\ UNCHANGED <<permits, all, open, nextChannel, closing, toClose>>

\* Mutant of Discard: the connection goes and the permit stays away.
DiscardWithPermit(t) ==
    /\ Goto(t, "discard", "out")
    /\ all' = all \ {chan[t]}
    /\ open' = open \ {chan[t]}
    /\ chan' = [chan EXCEPT ![t] = NoChannel]
    /\ UNCHANGED <<permits, idle, nextChannel, closing, toClose>>

\* Mutant of Discard: the connection is forgotten and not closed.
DiscardUnclosed(t) ==
    /\ Goto(t, "discard", "post")
    /\ all' = all \ {chan[t]}
    /\ chan' = [chan EXCEPT ![t] = NoChannel]
    /\ UNCHANGED <<permits, idle, open, nextChannel, closing, toClose>>

\* allConnections.remove and closeQuietly, the same in release and discard.
Discard(t) ==
    /\ Goto(t, "discard", "post")
    /\ all' = all \ {chan[t]}
    /\ open' = open \ {chan[t]}
    /\ chan' = [chan EXCEPT ![t] = NoChannel]
    /\ UNCHANGED <<permits, idle, nextChannel, closing, toClose>>

ReleasePermit(t) ==
    /\ Goto(t, "post", "out")
    /\ permits' = permits + 1
    /\ UNCHANGED <<idle, all, open, chan, nextChannel, closing, toClose>>

----------------------------------------------------------------------------
(***************************************************************************)
(* closeAll.  The iterator of a concurrent set is weakly consistent: it    *)
(* comes to every channel that was there when it began and stays, and may  *)
(* or may not come to one that is added meanwhile.                         *)
(***************************************************************************)

CloseAll ==
    /\ closing = "off"
    /\ closing' = "closing"
    /\ toClose' = all
    /\ UNCHANGED <<permits, idle, all, open, pc, chan, nextChannel>>

CloseOne ==
    /\ closing = "closing"
    /\ \E c \in toClose \cup all :
         /\ open' = open \ {c}
         /\ toClose' = toClose \ {c}
    /\ UNCHANGED <<permits, idle, all, pc, chan, nextChannel, closing>>

CloseEnd ==
    /\ closing = "closing"
    /\ toClose \cap all = {}
    /\ closing' = "clearAll"
    /\ toClose' = {}
    /\ UNCHANGED <<permits, idle, all, open, pc, chan, nextChannel>>

ClearAll ==
    /\ closing = "clearAll"
    /\ closing' = "clearIdle"
    /\ all' = {}
    /\ UNCHANGED <<permits, idle, open, pc, chan, nextChannel, toClose>>

ClearIdle ==
    /\ closing = "clearIdle"
    /\ closing' = "off"
    /\ idle' = <<>>
    /\ UNCHANGED <<permits, all, open, pc, chan, nextChannel, toClose>>

----------------------------------------------------------------------------

Borrow(t) ==
    \/ Acquire(t) \/ PollIdle(t) \/ PollEmpty(t) \/ ReuseOpen(t) \/ DropStale(t)
    \/ OpenOk(t) \/ OpenFails(t) \/ AddOpened(t)

GiveBack(t) == ReleaseCheck(t) \/ Offer(t) \/ Discard(t) \/ ReleasePermit(t)

PoolStep(t) == Borrow(t) \/ RequestOk(t) \/ RequestFails(t) \/ GiveBack(t)

CloseAllStep == CloseAll \/ CloseOne \/ CloseEnd \/ ClearAll \/ ClearIdle

Next == (\E t \in Threads : PoolStep(t)) \/ CloseAllStep

\* Every request on a borrowed channel ends, one way or the other.
PoolFairness == \A t \in Threads : WF_poolVars(PoolStep(t) /\ pc[t] # "out")

Spec == Init /\ [][Next]_poolVars /\ PoolFairness

----------------------------------------------------------------------------

\* A thread that has taken a permit and not given it back.
HoldsPermit(t) == pc[t] # "out"

\* A thread that has a connection, or is about to open one.
HoldsSlot(t) == pc[t] \in {"check", "open", "add", "using", "release", "offer", "discard"}

\* A thread that holds a channel.
HoldsChannel(t) == pc[t] \in {"check", "add", "using", "release", "offer", "discard"}

\* A channel in somebody's hands or in the idle queue.
Pooled(c) ==
    \/ \E t \in Threads : HoldsChannel(t) /\ chan[t] = c
    \/ \E i \in DOMAIN idle : idle[i] = c

\* ConnectionPool.java:43-84: on every path through borrow, the request,
\* release and discard a permit is given back once, so the permits that are
\* missing are those of threads on the way.
PermitsConserved ==
    permits + Cardinality({t \in Threads : HoldsPermit(t)}) = MaxConnections

\* ConnectionPool.java:52 and 70: the channels in the queue, those that are out
\* and those about to be opened are at most MaxConnections.  The queue has a free
\* slot for whatever comes back, so offer never refuses a channel and no working
\* connection is closed on its way back.
IdleHasRoom ==
    Len(idle) + Cardinality({t \in Threads : HoldsSlot(t)}) <= MaxConnections

\* ConnectionPool.java:52 and 70: a channel is held by one thread, or once in
\* the idle queue, or by nobody; two requests never share a connection.
ChannelsExclusive ==
    /\ \A t, u \in Threads :
         HoldsChannel(t) /\ HoldsChannel(u) /\ chan[t] = chan[u] => t = u
    /\ \A i, j \in DOMAIN idle : idle[i] = idle[j] => i = j
    /\ \A t \in Threads : HoldsChannel(t) => \A i \in DOMAIN idle : idle[i] # chan[t]

\* ConnectionPool.java:45 and 63-83: permits come back for ever, whatever
\* requests fail and whenever closeAll strikes, so borrow does not block for good.
PermitsReturn == []<>(permits > 0)

\* ConnectionPool.java:50-84: an open channel stays in somebody's hands or in the
\* queue until it is closed, whichever path borrow, release and discard take;
\* only the end of closeAll, where the queue is cleared, can lose one.
ConnectionsKept ==
    [][ClearIdle \/ \A c \in open' : (c \in open => Pooled(c)) => Pooled(c)']_poolVars

\* The comment of closeAll (ConnectionPool.java:86): it "Closes every pooled
\* connection".  An open channel is therefore in the hands of a thread, in the
\* idle queue, or among those closeAll can still find.
NoneOrphaned == \A c \in open : c \in all \/ Pooled(c)
=============================================================================
