------------------------ MODULE MCRequestCoordinator ------------------------
(***************************************************************************)
(* Small instances of RequestCoordinator.  Integers have eight bits: with  *)
(* the margin of the code, chunks 24 apart still overlap, chunks 25 apart  *)
(* do not, and the region of a chunk at the border wraps.                  *)
(***************************************************************************)
EXTENDS RequestCoordinator, TLC

CONSTANTS t1, t2, t3

MCThreads == {t1, t2, t3}

At(x, z) == [x |-> x, z |-> z]

\* Two chunks at the largest overlapping distance, one chunk just out of reach
\* of both, one at the border.
MCCenters == {At(0, 0), At(24, -24), At(49, -24), At(-1, 127)}

MCSymmetry == Permutations(MCThreads)
=============================================================================
