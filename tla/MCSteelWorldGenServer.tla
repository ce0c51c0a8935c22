----------------------- MODULE MCSteelWorldGenServer -----------------------
(***************************************************************************)
(* A small instance of SteelWorldGenServer: two threads, a process that    *)
(* may be replaced once, and a cooldown of one tick.                       *)
(***************************************************************************)
EXTENDS SteelWorldGenServer, TLC

CONSTANTS t1, t2

MCThreads == {t1, t2}

MCSymmetry == Permutations(MCThreads)
=============================================================================
