------------------------- MODULE MCMinestomProvider -------------------------
(***************************************************************************)
(* A small instance of MinestomProvider: two callers, two servers the      *)
(* provider may make, one that is given, and custom biomes before, between *)
(* and after those of the client.                                          *)
(***************************************************************************)
EXTENDS MinestomProvider, TLC

CONSTANTS c1, c2, stone

MCCallers == {c1, c2}
MCNames == {stone}
MCBiomeKeys == 1..6
MCCells == {1}
MCCustom == {1, 4, 6}

MCFrom == [stateId |-> [n \in {stone} |-> 0], biomes |-> {3, 5}]
MCTo == [stateId |-> [n \in {stone} |-> 0], biomes |-> {2, 3, 5}]

MCSymmetry == Permutations(MCCallers)
=============================================================================
