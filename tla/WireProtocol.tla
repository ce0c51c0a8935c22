---------------------------- MODULE WireProtocol ----------------------------
(***************************************************************************)
(* What a steel-provider server promises its clients, seen from outside:   *)
(* many connections, each synchronous and serial.  A request on a          *)
(* connection gets one reply, the reply is about that request, and the     *)
(* next request is read only after it.                                     *)
(***************************************************************************)
CONSTANTS
    Conns,     \* connections
    Requests,  \* what can be asked for
    Invalid,   \* the requests the server can only refuse
    Nothing    \* no request, no reply

VARIABLES
    stage,  \* stage of each connection
    asked,  \* the request each connection is at
    reply   \* the reply to it: what it is about and its status

wireVars == <<stage, asked, reply>>

WireInit ==
    /\ stage = [c \in Conns |-> "closed"]
    /\ asked = [c \in Conns |-> Nothing]
    /\ reply = [c \in Conns |-> Nothing]

Goes(c, from, to) == stage[c] = from /\ stage' = [stage EXCEPT ![c] = to]

Connect(c) ==
    /\ Goes(c, "closed", "idle")
    /\ UNCHANGED <<asked, reply>>

Ask(c) ==
    /\ Goes(c, "idle", "pending")
    /\ \E r \in Requests : asked' = [asked EXCEPT ![c] = r]
    /\ UNCHANGED reply

\* A reply carries what was asked for, or an error.
Answer(c) ==
    /\ Goes(c, "pending", "answered")
    /\ \E status \in {"ok", "error"} :
         /\ asked[c] \in Invalid => status = "error"
         /\ reply' = [reply EXCEPT ![c] = [of |-> asked[c], status |-> status]]
    /\ UNCHANGED asked

Deliver(c) ==
    /\ Goes(c, "answered", "idle")
    /\ asked' = [asked EXCEPT ![c] = Nothing]
    /\ reply' = [reply EXCEPT ![c] = Nothing]

\* The peer may close at any time; a server that exits closes everything.
Close(cs) ==
    /\ stage' = [c \in Conns |-> IF c \in cs THEN "closed" ELSE stage[c]]
    /\ asked' = [c \in Conns |-> IF c \in cs THEN Nothing ELSE asked[c]]
    /\ reply' = [c \in Conns |-> IF c \in cs THEN Nothing ELSE reply[c]]

WireNext ==
    \/ \E c \in Conns : Connect(c) \/ Ask(c) \/ Answer(c) \/ Deliver(c)
    \/ \E cs \in SUBSET Conns : Close(cs)

\* No request stays without its reply, unless the connection goes away.
WireFairness ==
    \A c \in Conns : WF_wireVars(Answer(c)) /\ WF_wireVars(Deliver(c))

WireSafety == WireInit /\ [][WireNext]_wireVars

WireSpec == WireSafety /\ WireFairness

----------------------------------------------------------------------------

\* PROTOCOL.md "Response frame": the reply a client reads next is about the
\* request it sent last, a request that cannot be served is never answered
\* with a chunk, and a connection without a request has no reply on its way.
OwnReplies ==
    \A c \in Conns :
        /\ stage[c] = "answered" =>
             /\ reply[c].of = asked[c]
             /\ asked[c] \in Invalid => reply[c].status = "error"
        /\ stage[c] \in {"closed", "idle"} => asked[c] = Nothing /\ reply[c] = Nothing
=============================================================================
