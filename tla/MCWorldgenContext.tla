------------------------- MODULE MCWorldgenContext -------------------------
(***************************************************************************)
(* A small instance of WorldgenContext: two connection threads, two chunks *)
(* out of each other's reach, two scheduling stages per request.           *)
(***************************************************************************)
EXTENDS WorldgenContext

CONSTANTS t1, t2

MCThreads == {t1, t2}

At(x, z) == [x |-> x, z |-> z]

MCCenters == {At(0, 0), At(49, -24)}
=============================================================================
