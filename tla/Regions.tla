------------------------------ MODULE Regions ------------------------------
(***************************************************************************)
(* The chunk-space geometry of steel-provider/src/requests.rs: the 3x3     *)
(* region a request covers and the test that decides whether the           *)
(* generation halos of two regions can still touch.                        *)
(*                                                                         *)
(* Coordinates are two's complement machine integers of the range          *)
(* MinInt..MaxInt.  A release build wraps, so every sum the code computes  *)
(* goes through Wrap.                                                      *)
(***************************************************************************)
EXTENDS Integers

CONSTANTS
    MaxInt,           \* largest machine integer, i32::MAX in the code
    RetentionMargin   \* RETENTION_MARGIN, 11 in the code

\* The margin is small against the integer range, so that one sum of the
\* overlap test leaves the range at most once.
ASSUME RegionsAssumption ==
    /\ MaxInt \in Nat
    /\ RetentionMargin \in Nat
    /\ 4 * RetentionMargin + 8 < MaxInt

MinInt == -MaxInt - 1

MachineInt == MinInt..MaxInt

\* A machine sum of two operands at most one range apart: out of range
\* results come back at the other end.
Wrap(i) ==
    IF i > MaxInt THEN i - 2 * (MaxInt + 1)
    ELSE IF i < MinInt THEN i + 2 * (MaxInt + 1)
    ELSE i

Position == [x : MachineInt, z : MachineInt]

Region == [x0 : MachineInt, z0 : MachineInt, x1 : MachineInt, z1 : MachineInt]

\* The 3x3 region around the requested chunk.
RegionOf(center) ==
    [x0 |-> Wrap(center.x - 1), z0 |-> Wrap(center.z - 1),
     x1 |-> Wrap(center.x + 1), z1 |-> Wrap(center.z + 1)]

\* Mutant of Reaches: only one of the two regions is widened.
ReachesOneSided(lo, hi) == lo <= Wrap(hi + RetentionMargin)

\* lo of one region against hi of the other, both widened by the margin.
Reaches(lo, hi) == Wrap(lo - RetentionMargin) <= Wrap(hi + RetentionMargin)

RegionsOverlap(a, b) ==
    /\ Reaches(a.x0, b.x1) /\ Reaches(b.x0, a.x1)
    /\ Reaches(a.z0, b.z1) /\ Reaches(b.z0, a.z1)

----------------------------------------------------------------------------
(***************************************************************************)
(* What the test is meant to decide, stated without machine integers.      *)
(***************************************************************************)

\* Chebyshev distance at most 2 * margin + 2: each of the two chunks reaches
\* one chunk (its 3x3 region) plus the margin towards the other.
Within(i, j) == i - j \in -(2 * RetentionMargin + 2)..(2 * RetentionMargin + 2)

Near(p, q) == Within(p.x, q.x) /\ Within(p.z, q.z)

\* A coordinate whose widened region stays inside the integer range.
Inland(i) == i \in (MinInt + RetentionMargin + 1)..(MaxInt - RetentionMargin - 1)

InlandPosition(p) == Inland(p.x) /\ Inland(p.z)
=============================================================================
