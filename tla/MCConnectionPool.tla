-------------------------- MODULE MCConnectionPool --------------------------
(***************************************************************************)
(* A small instance of ConnectionPool: three threads compete for two       *)
(* permits, and a third channel replaces one of two.                       *)
(***************************************************************************)
EXTENDS ConnectionPool

CONSTANTS t1, t2, t3

MCThreads == {t1, t2, t3}
=============================================================================
