---------------------------- MODULE MCSocketFile ----------------------------
(***************************************************************************)
(* A small instance of SocketFile: two threads, two connections, a process *)
(* that may be replaced twice, and a cooldown of one tick.                 *)
(***************************************************************************)
EXTENDS SocketFile, TLC

CONSTANTS t1, t2

MCThreads == {t1, t2}

MCSymmetry == Permutations(MCThreads)
=============================================================================
