---------------------------- MODULE MCBenchmark ----------------------------
(***************************************************************************)
(* A small instance of Benchmark: two workers share a square of nine       *)
(* chunks, each of one section that is uniform until all its decorations   *)
(* are there and one that is uniform for good.  The client's version has   *)
(* a state that comes first and a biome in between.                        *)
(***************************************************************************)
EXTENDS Benchmark

CONSTANTS stone, log, moss

MCThreads == 1..2
MCChunks == [x : -1..1, z : -1..1]
MCNames == {stone, log, moss}
MCBiomeKeys == 1..3
MCCells == 1..2

MCFrom ==
    [stateId |-> [n \in {stone, log} |-> IF n = stone THEN 0 ELSE 1], biomes |-> {1, 3}]

MCTo ==
    [stateId |-> [n \in MCNames |-> CASE n = moss -> 0 [] n = stone -> 1 [] n = log -> 2],
     biomes |-> MCBiomeKeys]

MCNear(c) == {d \in MCChunks : d.x - c.x \in -1..1 /\ d.z - c.z \in -1..1}

\* The tree in the first section needs every chunk around.
MCBlocks ==
    [place \in MCChunks \X (1..2) \X SUBSET MCChunks |->
        [p \in MCCells |->
            IF place[2] = 2 \/ (p = 1 /\ place[3] = MCNear(place[1])) THEN log ELSE stone]]

MCBiomes ==
    [place \in MCChunks \X (1..2) |-> [p \in MCCells |-> IF place[2] = p THEN 1 ELSE 3]]
=============================================================================
