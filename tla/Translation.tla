---------------------------- MODULE Translation ----------------------------
(***************************************************************************)
(* The translation from SteelMC's registry IDs to the client's: the tables *)
(* build.rs computes from two data versions, their use on the palettes of  *)
(* a section (steel-provider/src/lib.rs), and the reading of the biome IDs *)
(* by the Minestom client.                                                 *)
(*                                                                         *)
(* A block state is known by its name, the pair of its block key and its   *)
(* property string.  A biome key is a number: keys compare as numbers the  *)
(* way the strings compare alphabetically.                                 *)
(***************************************************************************)
EXTENDS Integers, FiniteSets

CONSTANTS
    Names,      \* names of block states
    BiomeKeys,  \* keys of biomes
    Cells,      \* the positions in a section
    MaxU16      \* u16::MAX

ASSUME TranslationAssumption ==
    /\ IsFiniteSet(Names)
    /\ BiomeKeys \subseteq Nat /\ IsFiniteSet(BiomeKeys)
    /\ Cells # {}
    /\ MaxU16 \in Nat

\* block.json and biome.json of one version.
DataVersion ==
    [stateId : UNION {[S -> 0..MaxU16] : S \in SUBSET Names}, biomes : SUBSET BiomeKeys]

----------------------------------------------------------------------------
(***************************************************************************)
(* Block states                                                            *)
(***************************************************************************)

StateNames(v) == DOMAIN v.stateId

TotalStates(v) == Cardinality(StateNames(v))

Named(v, i) == {n \in StateNames(v) : v.stateId[n] = i}

\* u16::MAX marks an ID that no state has.  Of two states with one ID the last
\* in the order of the names wins; CHOOSE stands for it, since a table with
\* such an ID also has one that no state has, and is refused.
BlockStateTranslation(from, to) ==
    [i \in 0..TotalStates(from) - 1 |->
        IF Named(from, i) = {} THEN MaxU16
        ELSE to.stateId[CHOOSE n \in Named(from, i) : TRUE]]

\* Every name exists in both versions, every ID fits the table, and every entry
\* of the table is filled; build.rs panics otherwise.
BlockStatesBuild(from, to) ==
    /\ StateNames(from) \subseteq StateNames(to)
    /\ \A n \in StateNames(from) : from.stateId[n] < TotalStates(from)
    /\ \A i \in 0..TotalStates(from) - 1 : BlockStateTranslation(from, to)[i] # MaxU16

----------------------------------------------------------------------------
(***************************************************************************)
(* Biomes                                                                  *)
(***************************************************************************)

\* The index of a key in the sorted list of the keys in S.
Rank(S, k) == Cardinality({j \in S : j < k})

KeyAt(S, r) == CHOOSE k \in S : Rank(S, k) = r

\* Mutant of BiomeTranslation: ranks among the biomes of the wrong version.
BiomeTranslationSelf(from, to) ==
    [i \in 0..Cardinality(from.biomes) - 1 |-> i]

BiomeTranslation(from, to) ==
    [i \in 0..Cardinality(from.biomes) - 1 |->
        Rank(to.biomes, KeyAt(from.biomes, i)) % (MaxU16 + 1)]

\* The ranks of a version fit a u16.  build.rs casts them without looking.
BiomesFit(v) == Cardinality(v.biomes) <= MaxU16 + 1

\* build.rs panics on a biome that the client's version lacks.
BiomesBuild(from, to) == from.biomes \subseteq to.biomes

Builds(from, to) == BlockStatesBuild(from, to) /\ BiomesBuild(from, to)

\* BIOMES_BY_STEEL_ID: the biome at an index of the client's sorted keys.
ClientBiome(registry, r) == KeyAt(registry, r)

----------------------------------------------------------------------------
(***************************************************************************)
(* Palettes.  One value stands for all the cells of a homogeneous one.     *)
(***************************************************************************)

Uniform(cells) == \A c, d \in Cells : cells[c] = cells[d]

\* finalize_building.
Finalized(cells) ==
    [kind |-> IF Uniform(cells) THEN "homogeneous" ELSE "heterogeneous", cells |-> cells]

\* remap_block_states and remap_biomes.
Remap(palette, table) ==
    IF palette.kind = "homogeneous"
    THEN LET value == palette.cells[CHOOSE c \in Cells : TRUE]
         IN  [palette EXCEPT !.cells = [c \in Cells |-> table[value]]]
    ELSE Finalized([c \in Cells |-> table[palette.cells[c]]])
=============================================================================
