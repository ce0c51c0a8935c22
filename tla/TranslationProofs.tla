------------------------- MODULE TranslationProofs -------------------------
(***************************************************************************)
(* Theorems about Translation: a table that build.rs agrees to build keeps *)
(* names, for every pair of data versions, and so do the remaps and the    *)
(* client's lookup as far as the client's registry allows it.              *)
(***************************************************************************)
EXTENDS Translation, FiniteSetTheorems, TLAPS

LEMMA IndicesCounted ==
    ASSUME NEW n \in Nat
    PROVE  IsFiniteSet(0..n - 1) /\ Cardinality(0..n - 1) = n
<1>1. 0 \in Int /\ n - 1 \in Int  OBVIOUS
<1>2. /\ IsFiniteSet(0..n - 1)
      /\ Cardinality(0..n - 1) = IF 0 > n - 1 THEN 0 ELSE n - 1 - 0 + 1
  BY <1>1, FS_Interval
<1>3. QED BY <1>2

LEMMA VersionFinite ==
    ASSUME NEW v \in DataVersion
    PROVE  /\ IsFiniteSet(StateNames(v)) /\ StateNames(v) \subseteq Names
           /\ TotalStates(v) \in Nat
           /\ v.stateId \in [StateNames(v) -> 0..MaxU16]
           /\ IsFiniteSet(v.biomes) /\ v.biomes \subseteq Nat
           /\ Cardinality(v.biomes) \in Nat
<1>1. PICK S \in SUBSET Names : v.stateId \in [S -> 0..MaxU16]  BY DEF DataVersion
<1>2. StateNames(v) = S  BY <1>1 DEF StateNames
<1>3. v.biomes \in SUBSET BiomeKeys  BY DEF DataVersion
<1>4. IsFiniteSet(StateNames(v)) /\ IsFiniteSet(v.biomes)
  BY <1>2, <1>3, FS_Subset, TranslationAssumption
<1>5. TotalStates(v) \in Nat /\ Cardinality(v.biomes) \in Nat
  BY <1>4, FS_CardinalityType DEF TotalStates
<1>6. v.biomes \subseteq Nat  BY <1>3, TranslationAssumption
<1>7. v.stateId \in [StateNames(v) -> 0..MaxU16]  BY <1>1, <1>2
<1>8. QED BY <1>2, <1>4, <1>5, <1>6, <1>7

\* build.rs:109-117: the two checks on the IDs of the older version leave no
\* room for two states that share an ID.
LEMMA IdsDiffer ==
    ASSUME NEW from \in DataVersion, NEW to \in DataVersion, BlockStatesBuild(from, to),
           NEW m \in StateNames(from), NEW n \in StateNames(from),
           from.stateId[m] = from.stateId[n]
    PROVE  m = n
<1> DEFINE Ids == 0..TotalStates(from) - 1
<1>1. /\ IsFiniteSet(StateNames(from)) /\ TotalStates(from) \in Nat
      /\ from.stateId \in [StateNames(from) -> 0..MaxU16]
  BY VersionFinite
<1>2. IsFiniteSet(Ids) /\ Cardinality(Ids) = Cardinality(StateNames(from))
  BY <1>1, IndicesCounted DEF TotalStates
<1>3. from.stateId \in [StateNames(from) -> Ids]
  <2>1. \A k \in StateNames(from) : from.stateId[k] \in Ids
    BY <1>1 DEF BlockStatesBuild
  <2>2. QED BY <1>1, <2>1
<1>4. \A i \in Ids : Named(from, i) # {}
  <2> SUFFICES ASSUME NEW i \in Ids, Named(from, i) = {} PROVE FALSE  OBVIOUS
  <2>1. BlockStateTranslation(from, to)[i] = MaxU16  BY DEF BlockStateTranslation
  <2>2. QED BY <2>1 DEF BlockStatesBuild
<1>5. from.stateId \in Surjection(StateNames(from), Ids)
  BY <1>3, <1>4 DEF Surjection, Named
<1>6. from.stateId \in Injection(StateNames(from), Ids)
  BY <1>1, <1>2, <1>5, FS_SurjSameCardinalityImpliesInj
<1>7. QED BY <1>1, <1>6 DEF Injection, IsInjective

\* build.rs:90-119: a table that is built sends the ID of every state of the
\* older version to the ID of the state with the same name.
THEOREM BlockStatesKeepNames ==
    ASSUME NEW from \in DataVersion, NEW to \in DataVersion, BlockStatesBuild(from, to),
           NEW n \in StateNames(from)
    PROVE  /\ from.stateId[n] \in DOMAIN BlockStateTranslation(from, to)
           /\ BlockStateTranslation(from, to)[from.stateId[n]] = to.stateId[n]
<1> DEFINE i == from.stateId[n]
<1>1. i \in 0..TotalStates(from) - 1
  BY VersionFinite DEF BlockStatesBuild
<1>2. Named(from, i) = {n}
  BY IdsDiffer DEF Named
<1>3. (CHOOSE m \in Named(from, i) : TRUE) = n  BY <1>2
<1>4. QED BY <1>1, <1>2, <1>3 DEF BlockStateTranslation

----------------------------------------------------------------------------

LEMMA BelowFinite ==
    ASSUME NEW S, IsFiniteSet(S), NEW k
    PROVE  /\ IsFiniteSet({j \in S : j < k}) /\ Rank(S, k) \in Nat
           /\ Rank(S, k) <= Cardinality(S)
<1>1. {j \in S : j < k} \in SUBSET S  OBVIOUS
<1>2. QED BY <1>1, FS_Subset, FS_CardinalityType DEF Rank

\* Ranks follow the order of the keys.
LEMMA RankIncreases ==
    ASSUME NEW S \in SUBSET Nat, IsFiniteSet(S), NEW j \in S, NEW k \in Nat, j < k
    PROVE  Rank(S, j) < Rank(S, k)
<1> DEFINE A == {i \in S : i < j}
           B == {i \in S : i < k}
<1>1. A \in SUBSET B /\ j \in B /\ j \notin A
  <2>1. j \in Nat /\ (\A i \in S : i \in Nat)  OBVIOUS
  <2>2. \A i \in S : i < j => i < k
    <3> SUFFICES ASSUME NEW i \in S, i < j PROVE i < k  OBVIOUS
    <3>1. i \in Int /\ j \in Int /\ k \in Int  BY <2>1
    <3>2. QED BY <3>1
  <2>3. j \notin A  BY <2>1
  <2>4. QED BY <2>2, <2>3
<1>2. IsFiniteSet(A) /\ IsFiniteSet(B)  BY BelowFinite
<1>3. Cardinality(A) <= Cardinality(B) /\ Cardinality(A) # Cardinality(B)
  BY <1>1, <1>2, FS_Subset
<1>4. Cardinality(A) \in Nat /\ Cardinality(B) \in Nat  BY <1>2, FS_CardinalityType
<1>5. QED BY <1>3, <1>4 DEF Rank

LEMMA RankInRange ==
    ASSUME NEW S \in SUBSET Nat, IsFiniteSet(S), NEW k \in S
    PROVE  Rank(S, k) \in 0..Cardinality(S) - 1
<1> DEFINE A == {i \in S : i < k}
<1>1. A \in SUBSET S /\ A # S  OBVIOUS
<1>2. Cardinality(A) <= Cardinality(S) /\ Cardinality(A) # Cardinality(S)
  BY <1>1, FS_Subset
<1>3. Cardinality(S) \in Nat  BY FS_CardinalityType
<1>4. QED BY <1>2, <1>3, BelowFinite DEF Rank

LEMMA RankInjective ==
    ASSUME NEW S \in SUBSET Nat, IsFiniteSet(S), NEW j \in S, NEW k \in S,
           Rank(S, j) = Rank(S, k)
    PROVE  j = k
<1>1. j \in Nat /\ k \in Nat /\ Rank(S, j) \in Nat  BY BelowFinite
<1>2. ~(j < k)  BY <1>1, RankIncreases
<1>3. ~(k < j)  BY <1>1, RankIncreases
<1>4. QED BY <1>1, <1>2, <1>3

\* The key at an index of the sorted list is the one with that rank.
LEMMA KeyAtRank ==
    ASSUME NEW S \in SUBSET Nat, IsFiniteSet(S), NEW k \in S
    PROVE  KeyAt(S, Rank(S, k)) = k
<1>1. \A j \in S : Rank(S, j) = Rank(S, k) => j = k  BY RankInjective
<1>2. QED BY <1>1 DEF KeyAt

\* Every index of the sorted list is the rank of a key.
LEMMA KeyAtExists ==
    ASSUME NEW S \in SUBSET Nat, IsFiniteSet(S), NEW r \in 0..Cardinality(S) - 1
    PROVE  KeyAt(S, r) \in S /\ Rank(S, KeyAt(S, r)) = r
<1> DEFINE f == [k \in S |-> Rank(S, k)]
           T == 0..Cardinality(S) - 1
<1>0. Cardinality(S) \in Nat  BY FS_CardinalityType
<1>1. f \in [S -> T]  BY RankInRange
<1>2. \A j, k \in S : f[j] = f[k] => j = k  BY RankInjective
<1>3. f \in Injection(S, T)  BY <1>1, <1>2 DEF Injection, IsInjective
<1>4. IsFiniteSet(T) /\ Cardinality(T) = Cardinality(S)
  BY <1>0, IndicesCounted
<1>5. f \in Surjection(S, T)  BY <1>3, <1>4, FS_Injection
<1>6. \E k \in S : Rank(S, k) = r  BY <1>5 DEF Surjection
<1>7. QED BY <1>6 DEF KeyAt

----------------------------------------------------------------------------

\* build.rs:130: what the cast to u16 makes of a rank.
LEMMA CastRank ==
    ASSUME NEW r \in Nat
    PROVE  r % (MaxU16 + 1) \in 0..MaxU16 /\ (r % (MaxU16 + 1) = r <=> r <= MaxU16)
<1>1. MaxU16 \in Nat  BY TranslationAssumption
<1>2. r % (MaxU16 + 1) \in 0..MaxU16  BY <1>1
<1>3. r <= MaxU16 => r % (MaxU16 + 1) = r  BY <1>1
<1>4. QED BY <1>1, <1>2, <1>3

\* build.rs:121-145: a biome table that is built has an entry for every biome of
\* the older version, the cast of its rank among those of the newer one.
LEMMA BiomeEntryCast ==
    ASSUME NEW from \in DataVersion, NEW to \in DataVersion, BiomesBuild(from, to),
           NEW k \in from.biomes
    PROVE  /\ Rank(from.biomes, k) \in DOMAIN BiomeTranslation(from, to)
           /\ BiomeTranslation(from, to)[Rank(from.biomes, k)]
                = Rank(to.biomes, k) % (MaxU16 + 1)
           /\ Rank(to.biomes, k) \in 0..Cardinality(to.biomes) - 1
<1> DEFINE r == Rank(from.biomes, k)
<1>1. /\ from.biomes \in SUBSET Nat /\ IsFiniteSet(from.biomes)
      /\ to.biomes \in SUBSET Nat /\ IsFiniteSet(to.biomes)
  BY VersionFinite
<1>2. r \in 0..Cardinality(from.biomes) - 1 /\ KeyAt(from.biomes, r) = k
  BY <1>1, RankInRange, KeyAtRank
<1>3. k \in to.biomes  BY DEF BiomesBuild
<1>4. Rank(to.biomes, k) \in 0..Cardinality(to.biomes) - 1  BY <1>1, <1>3, RankInRange
<1>5. QED BY <1>2, <1>4 DEF BiomeTranslation

\* The entry is the rank itself if all ranks of the newer version fit.
LEMMA BiomeEntry ==
    ASSUME NEW from \in DataVersion, NEW to \in DataVersion,
           BiomesBuild(from, to), BiomesFit(to), NEW k \in from.biomes
    PROVE  /\ Rank(from.biomes, k) \in DOMAIN BiomeTranslation(from, to)
           /\ BiomeTranslation(from, to)[Rank(from.biomes, k)] = Rank(to.biomes, k)
           /\ Rank(to.biomes, k) \in 0..MaxU16
<1>1. Cardinality(to.biomes) \in Nat /\ MaxU16 \in Nat
  BY VersionFinite, TranslationAssumption
<1>2. Rank(to.biomes, k) \in 0..MaxU16  BY <1>1, BiomeEntryCast DEF BiomesFit
<1>3. Rank(to.biomes, k) % (MaxU16 + 1) = Rank(to.biomes, k)  BY <1>1, <1>2, CastRank
<1>4. QED BY <1>2, <1>3, BiomeEntryCast

\* build.rs:121-145: whatever the sizes of the two versions, every biome of the
\* older one has its entry, a u16, and the entry is its rank in the newer one
\* exactly if that rank fits a u16.  The build does not check that it does.
THEOREM BiomesKeepRanks ==
    ASSUME NEW from \in DataVersion, NEW to \in DataVersion, BiomesBuild(from, to),
           NEW k \in from.biomes
    PROVE  LET table == BiomeTranslation(from, to)
               r == Rank(from.biomes, k)
           IN  /\ r \in DOMAIN table /\ table[r] \in 0..MaxU16
               /\ table[r] = Rank(to.biomes, k) <=> Rank(to.biomes, k) <= MaxU16
<1>1. Rank(to.biomes, k) \in Nat  BY VersionFinite, BelowFinite
<1>2. QED BY <1>1, BiomeEntryCast, CastRank

\* lib.rs:464-491 (biome_translation_is_total_and_alphabetical): as long as the
\* newer version's biomes can be counted with a u16, the table has an entry for
\* the rank of every key of the older version and none besides, the entry is the
\* key's rank in the newer version, and the entries increase strictly.
THEOREM BiomesStayInOrder ==
    ASSUME NEW from \in DataVersion, NEW to \in DataVersion,
           BiomesBuild(from, to), BiomesFit(to)
    PROVE  LET table == BiomeTranslation(from, to)
           IN  /\ DOMAIN table = {Rank(from.biomes, k) : k \in from.biomes}
               /\ \A k \in from.biomes : table[Rank(from.biomes, k)] = Rank(to.biomes, k)
               /\ \A i, j \in DOMAIN table : i < j => table[i] < table[j]
<1> DEFINE table == BiomeTranslation(from, to)
<1>1. /\ from.biomes \in SUBSET Nat /\ IsFiniteSet(from.biomes)
      /\ to.biomes \in SUBSET Nat /\ IsFiniteSet(to.biomes)
      /\ DOMAIN table = 0..Cardinality(from.biomes) - 1
  BY VersionFinite DEF BiomeTranslation
<1>2. ASSUME NEW i \in DOMAIN table
      PROVE  /\ KeyAt(from.biomes, i) \in from.biomes
             /\ Rank(from.biomes, KeyAt(from.biomes, i)) = i
  BY <1>1, <1>2, KeyAtExists
<1>3. DOMAIN table = {Rank(from.biomes, k) : k \in from.biomes}
  <2>1. \A k \in from.biomes : Rank(from.biomes, k) \in DOMAIN table  BY BiomeEntry
  <2>2. QED BY <1>2, <2>1
<1>4. \A k \in from.biomes : table[Rank(from.biomes, k)] = Rank(to.biomes, k)
  BY BiomeEntry
<1>5. ASSUME NEW i \in DOMAIN table, NEW j \in DOMAIN table, i < j
      PROVE  table[i] < table[j]
  <2> DEFINE k == KeyAt(from.biomes, i)
             l == KeyAt(from.biomes, j)
  <2>1. /\ k \in from.biomes /\ Rank(from.biomes, k) = i
        /\ l \in from.biomes /\ Rank(from.biomes, l) = j
    BY <1>2
  <2>2. k \in Nat /\ l \in Nat /\ k \in to.biomes /\ l \in to.biomes
    BY <1>1, <2>1 DEF BiomesBuild
  <2>3. i \in Int /\ j \in Int /\ i < j  BY <1>1, <1>5, VersionFinite
  <2>4. k # l  BY <2>1, <2>3
  <2>5. ~(l < k)
    <3> SUFFICES ASSUME l < k PROVE FALSE  OBVIOUS
    <3>1. Rank(from.biomes, l) < Rank(from.biomes, k)  BY <1>1, <2>1, <2>2, RankIncreases
    <3>2. QED BY <3>1, <2>1, <2>3
  <2>6. k < l  BY <2>2, <2>4, <2>5
  <2>7. Rank(to.biomes, k) < Rank(to.biomes, l)  BY <1>1, <2>2, <2>6, RankIncreases
  <2>8. table[i] = Rank(to.biomes, k) /\ table[j] = Rank(to.biomes, l)  BY <1>4, <2>1
  <2>9. QED BY <2>7, <2>8
<1>6. QED BY <1>3, <1>4, <1>5

\* lib.rs:291-300 and SteelWorldGenerator.java:42-52: a client whose registry
\* has at least the newer version's biomes shows a served biome as the one that
\* was generated if and only if none it has besides sorts before it.
THEOREM BiomeShown ==
    ASSUME NEW from \in DataVersion, NEW to \in DataVersion,
           BiomesBuild(from, to), BiomesFit(to),
           NEW registry \in SUBSET Nat, IsFiniteSet(registry), to.biomes \subseteq registry,
           NEW k \in from.biomes
    PROVE  ClientBiome(registry, BiomeTranslation(from, to)[Rank(from.biomes, k)]) = k
             <=> ~ \E f \in registry \ to.biomes : f < k
<1> DEFINE r == Rank(to.biomes, k)
           A == {j \in to.biomes : j < k}
           B == {j \in registry : j < k}
<1>1. /\ to.biomes \in SUBSET Nat /\ IsFiniteSet(to.biomes) /\ k \in to.biomes
      /\ k \in registry /\ k \in Nat
  BY VersionFinite DEF BiomesBuild
<1>2. BiomeTranslation(from, to)[Rank(from.biomes, k)] = r  BY BiomeEntry
<1>3. A \in SUBSET B /\ IsFiniteSet(B) /\ IsFiniteSet(A)  BY <1>1, BelowFinite
<1>4. r = Cardinality(A) /\ Rank(registry, k) = Cardinality(B)  BY DEF Rank
<1>5. (~ \E f \in registry \ to.biomes : f < k) <=> A = B  OBVIOUS
<1>6. A = B <=> r = Rank(registry, k)  BY <1>3, <1>4, FS_Subset
<1>7. r = Rank(registry, k) => KeyAt(registry, r) = k  BY <1>1, KeyAtRank
<1>8. KeyAt(registry, r) = k => r = Rank(registry, k)
  <2>1. Cardinality(to.biomes) <= Cardinality(registry)
        /\ Cardinality(to.biomes) \in Nat /\ Cardinality(registry) \in Nat
    BY <1>1, FS_Subset, FS_CardinalityType
  <2>2. r \in 0..Cardinality(to.biomes) - 1  BY <1>1, RankInRange
  <2>3. r \in 0..Cardinality(registry) - 1  BY <2>1, <2>2
  <2>4. Rank(registry, KeyAt(registry, r)) = r  BY <2>3, KeyAtExists
  <2>5. QED BY <2>4
<1>9. QED BY <1>2, <1>5, <1>6, <1>7, <1>8 DEF ClientBiome

----------------------------------------------------------------------------

\* lib.rs:302-359: the shortcut of a homogeneous palette and the loop over the
\* cells do the same, and leave the palette as finalize_building would.
THEOREM RemapMapsCells ==
    ASSUME NEW X, NEW cells \in [Cells -> X], NEW table
    PROVE  Remap(Finalized(cells), table) = Finalized([c \in Cells |-> table[cells[c]]])
<1> DEFINE p == Finalized(cells)
           mapped == [c \in Cells |-> table[cells[c]]]
<1>1. CASE ~Uniform(cells)
  BY <1>1 DEF Remap, Finalized
<1>2. CASE Uniform(cells)
  <2> DEFINE one == CHOOSE c \in Cells : TRUE
  <2>1. one \in Cells  BY TranslationAssumption
  <2>2. p = [kind |-> "homogeneous", cells |-> cells]  BY <1>2 DEF Finalized
  <2>3. [c \in Cells |-> table[cells[one]]] = mapped  BY <1>2, <2>1 DEF Uniform
  <2>4. Uniform(mapped)  BY <1>2 DEF Uniform
  <2>5. Remap(p, table) = [kind |-> "homogeneous", cells |-> mapped]
    BY <2>2, <2>3 DEF Remap
  <2>6. QED BY <2>4, <2>5 DEF Finalized
<1>3. QED BY <1>1, <1>2

\* lib.rs:361-382: the sections are translated in place behind a shared
\* reference, so what a second call would write is the translation of the
\* translation.  It repeats the first one exactly if the table leaves every ID
\* it put into the section alone.
THEOREM SecondRemap ==
    ASSUME NEW X, NEW cells \in [Cells -> X], NEW table
    PROVE  LET once == Remap(Finalized(cells), table)
           IN  /\ Remap(once, table) = Finalized([c \in Cells |-> table[table[cells[c]]]])
               /\ Remap(once, table) = once
                    <=> \A c \in Cells : table[table[cells[c]]] = table[cells[c]]
<1> DEFINE first == [c \in Cells |-> table[cells[c]]]
           second == [c \in Cells |-> table[table[cells[c]]]]
           once == Remap(Finalized(cells), table)
<1>1. once = Finalized(first)  BY RemapMapsCells
<1>2. first \in [Cells -> {table[cells[c]] : c \in Cells}]  OBVIOUS
<1>3. Remap(Finalized(first), table) = Finalized([c \in Cells |-> table[first[c]]])
  BY <1>2, RemapMapsCells
<1>4. [c \in Cells |-> table[first[c]]] = second  OBVIOUS
<1>5. Remap(once, table) = Finalized(second)  BY <1>1, <1>3, <1>4
<1>6. Finalized(first).cells = first /\ Finalized(second).cells = second
  BY DEF Finalized
<1>7. Finalized(second) = Finalized(first) <=> second = first  BY <1>6
<1>8. second = first <=> \A c \in Cells : table[table[cells[c]]] = table[cells[c]]
  OBVIOUS
<1>9. QED BY <1>1, <1>5, <1>7, <1>8
=============================================================================
