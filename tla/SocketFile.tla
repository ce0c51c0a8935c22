----------------------------- MODULE SocketFile -----------------------------
(***************************************************************************)
(* SteelWorldGenServer with the file that its processes listen on, one     *)
(* after the other.  A starting process removes what it finds there and    *)
(* binds (main.rs); one that fails to accept drops its SocketFileGuard,    *)
(* which removes the file (transport.rs), and goes on living until its     *)
(* exit; one that is killed leaves the file; close of the client removes   *)
(* it.  The file is created by the client's constructor, which has         *)
(* returned.                                                               *)
(***************************************************************************)
EXTENDS SteelWorldGenServer

VARIABLES
    file,   \* the process whose socket is at socketPath, or NoFile
    stage   \* where each process is in main

fileVars == <<allVars, file, stage>>

NoFile == 0

\* main, as far as it touches the file: remove_file, bind, serve, the drop of
\* the guard, and what is left until the process is gone.
Stages == {"remove", "bind", "serve", "drop", "exit"}

FileTypeOK ==
    /\ ClientTypeOK
    /\ file \in Processes \cup {NoFile}
    /\ stage \in [Processes -> Stages]

FileInit ==
    /\ ClientInit
    /\ file = 1
    /\ stage = [p \in Processes |-> IF p = 1 THEN "serve" ELSE "remove"]

\* Processes that the step ends are past main.
Ended == stage' = [p \in Processes |-> IF state'[p] = "dead" THEN "exit" ELSE stage[p]]

StageGoto(p, from, to) == stage[p] = from /\ stage' = [stage EXCEPT ![p] = to]

----------------------------------------------------------------------------

RemoveStale(p) ==
    /\ state[p] = "starting"
    /\ StageGoto(p, "remove", "bind")
    /\ file' = NoFile
    /\ UNCHANGED allVars

\* Mutant of Bind: the guard is not kept for as long as serve runs.
BindUnguarded ==
    /\ StageGoto(process, "bind", "serve")
    /\ file = NoFile /\ UNCHANGED file
    /\ Listen

\* A bind to a file that exists fails, and the process panics (Crash).
Bind ==
    /\ StageGoto(process, "bind", "serve")
    /\ file = NoFile /\ file' = process
    /\ Listen

\* listener.accept returns an error and the loop of serve ends.
AcceptFails(p) ==
    /\ state[p] = "listening"
    /\ StageGoto(p, "serve", "drop")
    /\ UNCHANGED <<allVars, file>>

\* Whatever the path leads to by now is removed.
DropGuard(p) ==
    /\ state[p] = "listening"
    /\ StageGoto(p, "drop", "exit")
    /\ file' = NoFile
    /\ UNCHANGED allVars

\* connect reaches the socket at the path, also one that nobody accepts from.
Reached == file = process

\* The steps of the client that leave the file alone.
ClientStep ==
    /\ \/ \E t \in Threads :
            \/ RequestChunk(t) \/ AcquireInterrupted(t) \/ ServerAnswers(t)
            \/ PoolOnly(t) \/ ConnectFails(t)
            \/ Receive(t) \/ RequestBreaks(t) \/ Return(t) \/ GiveUpOrRestart(t)
            \/ EnterRestart(t)
            \/ Spawn(t) \/ SpawnFails(t)
            \/ StartupFails(t) \/ StopStarted(t)
            \/ /\ Reached
               /\ Connect(t) \/ SocketReady(t)
       \/ Close \/ ClosePool \/ CloseAllRuns
       \/ Crash \/ Tick
    /\ Ended
    /\ UNCHANGED file

\* Mutant of CloseDeletes: the file is left to the guard of the process.
CloseLeavesFile ==
    /\ CloseReturns /\ Ended
    /\ UNCHANGED file

\* stopProcess, then deleteSocket.
CloseDeletes ==
    /\ CloseReturns /\ Ended
    /\ file' = NoFile

FileNext ==
    \/ ClientStep
    \/ CloseDeletes
    \/ Bind
    \/ \E p \in Processes : RemoveStale(p) \/ AcceptFails(p) \/ DropGuard(p)

FileSpec == FileInit /\ [][FileNext]_fileVars

----------------------------------------------------------------------------

\* main.rs:48-63 and transport.rs:75-81: the file of a process that serves is
\* neither removed by a process that leaves late nor replaced by a new one.
ServedIsReachable ==
    \A p \in Processes : state[p] = "listening" /\ stage[p] = "serve" => file = p

\* SteelWorldGenServer.java:161-176: close leaves no file behind, whichever
\* way the processes died and whatever late failures of requests do.
NothingLeft == closer = "done" => file = NoFile
=============================================================================
