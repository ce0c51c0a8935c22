----------------------------- MODULE Supervisor -----------------------------
(***************************************************************************)
(* What the Java client promises of the steel-provider process it owns,    *)
(* seen from outside, without threads, locks and connections: there is one *)
(* process, it is replaced only when it has died and the client is open,   *)
(* close waits for a start that is under way, and when close returns the   *)
(* process is gone for good.                                               *)
(***************************************************************************)
EXTENDS Naturals

CONSTANT MaxProcesses  \* bound on the processes of a behaviour

VARIABLES
    count,   \* processes started so far
    life,    \* the last one: starting, listening or dead
    service  \* the client: open, closing or closed

superVars == <<count, life, service>>

\* The constructor returns once the first process listens.
SuperInit ==
    /\ count = 1
    /\ life = "listening"
    /\ service = "open"

Start ==
    /\ service = "open" /\ life = "dead"
    /\ count < MaxProcesses
    /\ count' = count + 1
    /\ life' = "starting"
    /\ UNCHANGED service

Listens ==
    /\ service = "open" /\ life = "starting"
    /\ life' = "listening"
    /\ UNCHANGED <<count, service>>

\* It crashed, or it is stopped because it did not come up in time.
Dies ==
    /\ life \in {"starting", "listening"}
    /\ life' = "dead"
    /\ UNCHANGED <<count, service>>

BeginClose ==
    /\ service = "open" /\ life # "starting"
    /\ service' = "closing"
    /\ UNCHANGED <<count, life>>

EndClose ==
    /\ service = "closing"
    /\ service' = "closed"
    /\ life' = "dead"
    /\ UNCHANGED count

SuperNext == Start \/ Listens \/ Dies \/ BeginClose \/ EndClose

\* A start comes to its end, one way or the other, and so does a close.
Settle == life = "starting" /\ (Listens \/ Dies)

SuperFairness == WF_superVars(Settle) /\ WF_superVars(EndClose)

SuperSafety == SuperInit /\ [][SuperNext]_superVars

SuperSpec == SuperSafety /\ SuperFairness
=============================================================================
