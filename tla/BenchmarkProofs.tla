-------------------------- MODULE BenchmarkProofs --------------------------
(***************************************************************************)
(* Theorems about Benchmark and the ChunkPipeline in it, for every world,  *)
(* every pair of data versions that builds, every number of workers and    *)
(* every square.                                                           *)
(***************************************************************************)
EXTENDS Benchmark, TranslationProofs, SequenceTheorems

----------------------------------------------------------------------------
(***************************************************************************)
(* The pipeline                                                            *)
(***************************************************************************)

\* What a section of a chunk is, once everything around it is decorated.
Whole(c, s) == Generated(c, s, Square(c))

\* From the moment a request is ready its square is decorated, so what is
\* cloned is whole; what is served is its translation.
ChunkInv(t) ==
    /\ stage[t] \in {"cloning", "cloned", "served"} => Square(target[t]) \subseteq decorated
    /\ stage[t] = "requested" => copy[t] = <<>>
    /\ stage[t] = "cloning" => Len(copy[t]) < NumSections
    /\ stage[t] \in {"cloned", "served"} => Len(copy[t]) = NumSections
    /\ stage[t] \in {"cloning", "cloned"} =>
           \A s \in 1..Len(copy[t]) : copy[t][s] = Whole(target[t], s)
    /\ stage[t] = "served" =>
           \A s \in 1..Len(copy[t]) : copy[t][s] = Translated(Whole(target[t], s))

PipelineInv == PipelineTypeOK /\ \A t \in Threads : ChunkInv(t)

PipelineStep(t) ==
    \/ \E c \in Chunks : Request(t, c)
    \/ Ready(t) \/ Panics(t) \/ CloneSection(t) \/ Serialize(t)
    \/ StageGoto(t, "served", "idle") /\ UNCHANGED <<target, decorated, copy>>

LEMMA TableTypes ==
    /\ \A i \in DOMAIN BlockStateTranslation(From, To) : BlockStateTranslation(From, To)[i] \in Nat
    /\ \A i \in DOMAIN BiomeTranslation(From, To) : BiomeTranslation(From, To)[i] \in Nat
<1>1. From \in DataVersion /\ To \in DataVersion  BY PipelineAssumption
<1>2. BlockStatesBuild(From, To) /\ BiomesBuild(From, To)  BY PipelineAssumption DEF Builds
<1>3. MaxU16 \in Nat  BY TranslationAssumption
<1>4. ASSUME NEW i \in DOMAIN BlockStateTranslation(From, To)
      PROVE  BlockStateTranslation(From, To)[i] \in Nat
  <2>1. i \in 0..TotalStates(From) - 1  BY DEF BlockStateTranslation
  <2>2. CASE Named(From, i) = {}
    BY <1>3, <2>1, <2>2 DEF BlockStateTranslation
  <2>3. CASE Named(From, i) # {}
    <3> DEFINE n == CHOOSE m \in Named(From, i) : TRUE
    <3>1. n \in Named(From, i)  BY <2>3
    <3>2. n \in StateNames(To)  BY <1>2, <3>1 DEF Named, BlockStatesBuild
    <3>3. To.stateId[n] \in 0..MaxU16  BY <1>1, <3>2, VersionFinite
    <3>4. BlockStateTranslation(From, To)[i] = To.stateId[n]
      BY <2>1, <2>3 DEF BlockStateTranslation
    <3>5. QED BY <1>3, <3>3, <3>4
  <2>4. QED BY <2>2, <2>3
<1>5. ASSUME NEW i \in DOMAIN BiomeTranslation(From, To)
      PROVE  BiomeTranslation(From, To)[i] \in Nat
  <2>1. i \in 0..Cardinality(From.biomes) - 1  BY DEF BiomeTranslation
  <2>2. IsFiniteSet(To.biomes)  BY <1>1, VersionFinite
  <2>3. Rank(To.biomes, KeyAt(From.biomes, i)) \in Nat  BY <2>2, BelowFinite
  <2>4. QED BY <1>3, <2>1, <2>3 DEF BiomeTranslation
<1>6. QED BY <1>4, <1>5

\* What is generated at a place, and what its translation shows the client.
LEMMA GeneratedTranslated ==
    ASSUME NEW c \in Chunks, NEW s \in Sections, NEW D \in SUBSET Chunks
    PROVE  /\ Generated(c, s, D) \in Section
           /\ Translated(Generated(c, s, D)) \in Section
           /\ \A p \in Cells :
                /\ Translated(Generated(c, s, D)).states.cells[p] =
                       To.stateId[Blocks[<<c, s, D>>][p]]
                /\ Translated(Generated(c, s, D)).biomes.cells[p] =
                       Rank(To.biomes, Biomes[<<c, s>>][p])
<1> DEFINE names == Blocks[<<c, s, D>>]
           keys == Biomes[<<c, s>>]
           ids == [p \in Cells |-> From.stateId[names[p]]]
           ranks == [p \in Cells |-> Rank(From.biomes, keys[p])]
           blockTable == BlockStateTranslation(From, To)
           biomeTable == BiomeTranslation(From, To)
           newIds == [p \in Cells |-> blockTable[ids[p]]]
           newRanks == [p \in Cells |-> biomeTable[ranks[p]]]
<1>1. /\ From \in DataVersion /\ To \in DataVersion
      /\ BlockStatesBuild(From, To) /\ BiomesBuild(From, To) /\ BiomesFit(To)
      /\ names \in [Cells -> StateNames(From)] /\ keys \in [Cells -> From.biomes]
  BY PipelineAssumption DEF Builds
<1>2. ASSUME NEW p \in Cells
      PROVE  /\ ids[p] \in Nat /\ ids[p] \in DOMAIN blockTable
             /\ newIds[p] = To.stateId[names[p]] /\ newIds[p] \in Nat
  <2>1. names[p] \in StateNames(From)  BY <1>1
  <2>2. ids[p] \in DOMAIN blockTable /\ blockTable[ids[p]] = To.stateId[names[p]]
    BY <1>1, <2>1, BlockStatesKeepNames
  <2>3. ids[p] \in Nat  BY <2>2 DEF BlockStateTranslation
  <2>4. QED BY <2>2, <2>3, TableTypes
<1>3. ASSUME NEW p \in Cells
      PROVE  /\ ranks[p] \in Nat /\ ranks[p] \in DOMAIN biomeTable
             /\ newRanks[p] = Rank(To.biomes, keys[p]) /\ newRanks[p] \in Nat
  <2>1. keys[p] \in From.biomes  BY <1>1
  <2>2. ranks[p] \in DOMAIN biomeTable /\ biomeTable[ranks[p]] = Rank(To.biomes, keys[p])
    BY <1>1, <2>1, BiomeEntry
  <2>3. ranks[p] \in Nat  BY <2>2 DEF BiomeTranslation
  <2>4. QED BY <2>2, <2>3, TableTypes
<1>4. ids \in [Cells -> Nat] /\ newIds \in [Cells -> Nat]  BY <1>2
<1>5. ranks \in [Cells -> Nat] /\ newRanks \in [Cells -> Nat]  BY <1>3
<1>6. Generated(c, s, D) = [states |-> Finalized(ids), biomes |-> Finalized(ranks)]
  BY DEF Generated
<1>7. Translated(Generated(c, s, D)) =
          [states |-> Finalized(newIds), biomes |-> Finalized(newRanks)]
  <2>1. Remap(Finalized(ids), blockTable) = Finalized(newIds)  BY <1>4, RemapMapsCells
  <2>2. Remap(Finalized(ranks), biomeTable) = Finalized(newRanks)  BY <1>5, RemapMapsCells
  <2>3. QED BY <1>6, <2>1, <2>2 DEF Translated
<1>8. \A cells \in [Cells -> Nat] :
        /\ Finalized(cells) \in [kind : {"homogeneous", "heterogeneous"}, cells : [Cells -> Nat]]
        /\ Finalized(cells).cells = cells
  BY DEF Finalized
<1>9. Generated(c, s, D) \in Section /\ Translated(Generated(c, s, D)) \in Section
  <2> DEFINE Palette == [kind : {"homogeneous", "heterogeneous"}, cells : [Cells -> Nat]]
  <2>1. /\ Finalized(ids) \in Palette /\ Finalized(ranks) \in Palette
        /\ Finalized(newIds) \in Palette /\ Finalized(newRanks) \in Palette
    BY <1>4, <1>5, <1>8
  <2>2. Section = [states : Palette, biomes : Palette]  BY DEF Section
  <2> HIDE DEF Palette, ids, ranks, newIds, newRanks
  <2>3. QED BY <1>6, <1>7, <2>1, <2>2
<1>10. Translated(Generated(c, s, D)).states.cells = newIds
       /\ Translated(Generated(c, s, D)).biomes.cells = newRanks
  <2>1. Finalized(newIds).cells = newIds  BY <1>4, <1>8
  <2>2. Finalized(newRanks).cells = newRanks  BY <1>5, <1>8
  <2> HIDE DEF ids, ranks, newIds, newRanks
  <2>3. QED BY <1>7, <2>1, <2>2
<1>11. QED BY <1>2, <1>3, <1>9, <1>10

\* A served chunk is right when the invariant holds.
LEMMA PipelineServes ==
    ASSUME PipelineInv
    PROVE  ServedIsGenerated
<1> SUFFICES ASSUME NEW t \in Threads, stage[t] = "served"
             PROVE  /\ Len(copy[t]) = NumSections
                    /\ \A s \in Sections, p \in Cells :
                        /\ copy[t][s].states.cells[p] =
                               To.stateId[Blocks[<<target[t], s, Square(target[t])>>][p]]
                        /\ copy[t][s].biomes.cells[p] =
                               Rank(To.biomes, Biomes[<<target[t], s>>][p])
  BY DEF ServedIsGenerated
<1>1. /\ target[t] \in Chunks /\ Len(copy[t]) = NumSections
      /\ \A s \in Sections : copy[t][s] = Translated(Whole(target[t], s))
  BY DEF PipelineInv, ChunkInv, PipelineTypeOK, Sections
<1>2. Square(target[t]) \in SUBSET Chunks  BY DEF Square
<1>3. QED BY <1>1, <1>2, GeneratedTranslated DEF Whole

LEMMA PipelineStarts ==
    ASSUME PipelineInit
    PROVE  PipelineInv
BY DEF PipelineInit, PipelineInv, PipelineTypeOK, ChunkInv, Stage

\* A step of another thread, or a decoration, does not disturb a chunk.
LEMMA ChunkUndisturbed ==
    ASSUME NEW t \in Threads, ChunkInv(t), decorated \subseteq decorated',
           stage'[t] = stage[t], target'[t] = target[t], copy'[t] = copy[t]
    PROVE  ChunkInv(t)'
<1>1. \A s : Whole(target[t], s)' = Whole(target[t], s)
  BY DEF Whole, Generated, Finalized, Uniform, Square, Within, Rank
<1>2. Square(target[t])' = Square(target[t])  BY DEF Square, Within
<1>3. QED BY <1>1, <1>2 DEF ChunkInv, Translated, Remap, Finalized, Uniform

LEMMA PipelineKept ==
    ASSUME PipelineInv,
           \/ \E t \in Threads : PipelineStep(t)
           \/ \E d \in Chunks : Decorate(d)
           \/ UNCHANGED pipelineVars
    PROVE  PipelineInv'
<1>1. /\ stage \in [Threads -> Stage] /\ target \in [Threads -> Chunks]
      /\ decorated \in SUBSET Chunks /\ copy \in [Threads -> Seq(Section)]
      /\ \A u \in Threads : ChunkInv(u)
  BY DEF PipelineInv, PipelineTypeOK
<1>2. CASE (\E d \in Chunks : Decorate(d)) \/ UNCHANGED pipelineVars
  <2>1. /\ stage' = stage /\ target' = target /\ copy' = copy
        /\ decorated \subseteq decorated' /\ decorated' \in SUBSET Chunks
    BY <1>1, <1>2 DEF Decorate, pipelineVars
  <2>2. \A u \in Threads : ChunkInv(u)'  BY <1>1, <2>1, ChunkUndisturbed
  <2>3. QED BY <1>1, <2>1, <2>2 DEF PipelineInv, PipelineTypeOK
<1>3. ASSUME NEW t \in Threads, PipelineStep(t) PROVE PipelineInv'
  <2>1. decorated' = decorated
    BY <1>3 DEF PipelineStep, Request, Ready, Panics, CloneSection, Serialize
  <2>2. \A u \in Threads \ {t} :
          stage'[u] = stage[u] /\ target'[u] = target[u] /\ copy'[u] = copy[u]
    BY <1>1, <1>3
       DEF PipelineStep, Request, Ready, Panics, CloneSection, Serialize, StageGoto
  <2>3. \A u \in Threads \ {t} : ChunkInv(u)'  BY <1>1, <2>1, <2>2, ChunkUndisturbed
  <2>4. ASSUME PipelineTypeOK', ChunkInv(t)' PROVE PipelineInv'
    BY <2>3, <2>4 DEF PipelineInv
  <2>6. CASE \E c \in Chunks : Request(t, c)
    <3>1. PipelineTypeOK'
      BY <1>1, <2>6 DEF Request, StageGoto, Stage, PipelineTypeOK
    <3>2. stage'[t] = "requested" /\ copy'[t] = <<>>
      BY <1>1, <2>6 DEF Request, StageGoto
    <3>3. QED BY <2>4, <3>1, <3>2 DEF ChunkInv
  <2>7. CASE Ready(t)
    <3>1. PipelineTypeOK'  BY <1>1, <2>7 DEF Ready, StageGoto, Stage, PipelineTypeOK
    <3>2. /\ stage'[t] = "cloning" /\ target' = target /\ copy' = copy
          /\ copy[t] = <<>> /\ Square(target[t]) \subseteq decorated
      BY <1>1, <2>7 DEF Ready, StageGoto, ChunkInv
    <3>3. Len(copy[t]) = 0 /\ Len(copy[t]) < NumSections  BY <3>2, PipelineAssumption
    <3>4. Square(target[t])' = Square(target[t])  BY <3>2 DEF Square, Within
    <3>5. QED BY <2>1, <2>4, <3>1, <3>2, <3>3, <3>4 DEF ChunkInv
  <2>8. CASE Panics(t) \/ (StageGoto(t, "served", "idle") /\ UNCHANGED <<target, decorated, copy>>)
    <3>1. PipelineTypeOK' /\ stage'[t] \in {"panicked", "idle"}
      BY <1>1, <2>8 DEF Panics, StageGoto, Stage, PipelineTypeOK
    <3>2. QED BY <2>4, <3>1 DEF ChunkInv
  <2>9. CASE CloneSection(t)
    <3> DEFINE n == Len(copy[t])
               c == target[t]
    <3>1. /\ stage[t] = "cloning" /\ target' = target /\ c \in Chunks
          /\ n \in Nat /\ n < NumSections /\ NumSections \in Nat /\ copy[t] \in Seq(Section)
          /\ decorated \cap Square(c) = Square(c)
          /\ \A s \in 1..n : copy[t][s] = Whole(c, s)
      <4>1. stage[t] = "cloning" /\ target' = target
        BY <2>9 DEF CloneSection, StageGoto
      <4>2. NumSections \in Nat  BY PipelineAssumption
      <4>3. c \in Chunks /\ copy[t] \in Seq(Section) /\ ChunkInv(t)  BY <1>1
      <4>4. /\ n < NumSections /\ Square(c) \subseteq decorated
            /\ \A s \in 1..n : copy[t][s] = Whole(c, s)
        BY <4>1, <4>3 DEF ChunkInv
      <4>5. QED BY <4>1, <4>2, <4>3, <4>4
    <3>2. copy' = [copy EXCEPT ![t] = Append(copy[t], Whole(c, n + 1))]
      BY <1>1, <2>9, <3>1 DEF CloneSection, Whole
    <3>3. n + 1 \in Sections /\ Square(c) \in SUBSET Chunks
      BY <3>1 DEF Sections, Square
    <3>4. Whole(c, n + 1) \in Section  BY <3>1, <3>3, GeneratedTranslated DEF Whole
    <3>5. copy'[t] = Append(copy[t], Whole(c, n + 1))  BY <1>1, <3>2
    <3>6. /\ Append(copy[t], Whole(c, n + 1)) \in Seq(Section)
          /\ Len(copy'[t]) = n + 1
          /\ \A s \in 1..n + 1 : copy'[t][s] = Whole(c, s)
      BY <3>1, <3>4, <3>5
    <3>7. stage' = [stage EXCEPT ![t] = IF n + 1 = NumSections THEN "cloned" ELSE "cloning"]
      BY <2>9 DEF CloneSection, StageGoto
    <3>8. PipelineTypeOK'
      BY <1>1, <2>1, <3>1, <3>2, <3>6, <3>7 DEF PipelineTypeOK, Stage
    <3>9. /\ stage'[t] \in {"cloning", "cloned"}
          /\ stage'[t] = "cloned" => Len(copy'[t]) = NumSections
          /\ stage'[t] = "cloning" => Len(copy'[t]) < NumSections
      BY <1>1, <3>1, <3>6, <3>7
    <3>10. target'[t] = c /\ Square(target[t])' = Square(c) /\ Square(c) \subseteq decorated'
      BY <2>1, <3>1 DEF Square, Within
    <3>11. \A s : Whole(target[t], s)' = Whole(c, s)
      BY <3>10 DEF Whole, Generated, Finalized, Uniform, Rank
    <3>12. QED BY <2>4, <3>6, <3>8, <3>9, <3>10, <3>11 DEF ChunkInv
  <2>10. CASE Serialize(t)
    <3> DEFINE c == target[t]
               new == [s \in DOMAIN copy[t] |-> Translated(copy[t][s])]
    <3>1. /\ stage[t] = "cloned" /\ target' = target /\ c \in Chunks
          /\ copy[t] \in Seq(Section) /\ Len(copy[t]) = NumSections /\ NumSections \in Nat
          /\ Square(c) \subseteq decorated
          /\ \A s \in 1..NumSections : copy[t][s] = Whole(c, s)
      BY <1>1, <2>10, PipelineAssumption DEF Serialize, StageGoto, ChunkInv
    <3>2. copy' = [copy EXCEPT ![t] = new]  BY <2>10 DEF Serialize
    <3>3. new = [s \in 1..NumSections |-> Translated(Whole(c, s))]  BY <3>1
    <3>4. \A s \in 1..NumSections : Translated(Whole(c, s)) \in Section
      BY <3>1, GeneratedTranslated DEF Whole, Sections, Square
    <3>5. new \in Seq(Section) /\ Len(new) = NumSections  BY <3>1, <3>3, <3>4
    <3>6. copy'[t] = new /\ stage' = [stage EXCEPT ![t] = "served"] /\ stage'[t] = "served"
      BY <1>1, <2>10, <3>2 DEF Serialize, StageGoto
    <3>7. PipelineTypeOK'
      BY <1>1, <2>1, <3>1, <3>2, <3>5, <3>6 DEF PipelineTypeOK, Stage
    <3>8. target'[t] = c /\ Square(target[t])' = Square(c) /\ Square(c) \subseteq decorated'
      BY <2>1, <3>1 DEF Square, Within
    <3>9. \A s : Translated(Whole(target[t], s))' = Translated(Whole(c, s))
      BY <3>8 DEF Translated, Remap, Whole, Generated, Finalized, Uniform, Rank
    <3>10. QED BY <2>4, <3>3, <3>5, <3>6, <3>7, <3>8, <3>9 DEF ChunkInv
  <2>11. QED BY <1>3, <2>6, <2>7, <2>8, <2>9, <2>10 DEF PipelineStep
<1>4. QED BY <1>2, <1>3

----------------------------------------------------------------------------
(***************************************************************************)
(* The counter of the workers                                              *)
(***************************************************************************)

Indices == 0..Total - 1

\* No index is with two workers.
Apart ==
    \A v, w \in Threads :
        v # w => /\ generated[v] \cap generated[w] = {}
                 /\ worker[v] = "work" =>
                        /\ taken[v] \notin generated[w]
                        /\ worker[w] = "work" => taken[v] # taken[w]

\* Every index below the counter is generated, or held by a worker that is at
\* it or that panicked at it; a worker only finishes at the end.
WorkInv ==
    /\ next \in Nat
    /\ worker \in [Threads -> {"fetch", "work", "finished", "panicked"}]
    /\ taken \in [Threads -> Nat]
    /\ generated \in [Threads -> SUBSET Indices]
    /\ \A w \in Threads :
        /\ \A i \in generated[w] : i < next
        /\ worker[w] = "work" => taken[w] \in Indices /\ taken[w] < next
        /\ worker[w] = "work" => taken[w] \notin generated[w]
        /\ worker[w] = "finished" => next >= Total
    /\ \A i \in Indices : i < next =>
        \E w \in Threads :
            i \in generated[w] \/ (worker[w] \in {"work", "panicked"} /\ taken[w] = i)
    /\ Apart

LEMMA WorkKept ==
    ASSUME WorkInv, [BenchmarkNext]_benchVars
    PROVE  WorkInv'
<1>0. /\ next \in Nat /\ Total \in Nat /\ generated \in [Threads -> SUBSET Indices]
      /\ worker \in [Threads -> {"fetch", "work", "finished", "panicked"}]
      /\ taken \in [Threads -> Nat]
      /\ \A i \in Indices : i \in Nat /\ i < Total
  BY BenchmarkAssumption DEF WorkInv, Indices
<1>1. ASSUME NEW w \in Threads, Fetch(w), next < Total PROVE WorkInv'
  <2>1. /\ next' = next + 1 /\ generated' = generated /\ worker[w] = "fetch"
        /\ worker' = [worker EXCEPT ![w] = "work"] /\ taken' = [taken EXCEPT ![w] = next]
    BY <1>1 DEF Fetch, FetchAdd, WorkerGoto
  <2>2. next \in Indices  BY <1>0, <1>1 DEF Indices
  <2>3. \A v \in Threads :
          /\ \A i \in generated[v] : i \in Nat /\ i < next
          /\ worker[v] = "work" => taken[v] < next /\ taken[v] \in Nat
    BY <1>0 DEF WorkInv
  <2>4. Apart'
    BY <1>0, <2>1, <2>3 DEF WorkInv, Apart
  <2>5. ASSUME NEW i \in Indices, i < next'
        PROVE  \E v \in Threads :
                 i \in generated'[v] \/ (worker'[v] \in {"work", "panicked"} /\ taken'[v] = i)
    <3>1. CASE i = next  BY <1>0, <2>1, <3>1
    <3>2. CASE i < next
      <4>1. PICK v \in Threads :
              i \in generated[v] \/ (worker[v] \in {"work", "panicked"} /\ taken[v] = i)
        BY <3>2 DEF WorkInv
      <4>2. QED BY <1>0, <2>1, <4>1
    <3>3. QED BY <1>0, <2>1, <2>5, <3>1, <3>2
  <2>6. \A v \in Threads :
          /\ \A i \in generated'[v] : i < next'
          /\ worker'[v] = "work" => taken'[v] \in Indices /\ taken'[v] < next'
          /\ worker'[v] = "work" => taken'[v] \notin generated'[v]
          /\ worker'[v] = "finished" => next' >= Total
    BY <1>0, <1>1, <2>1, <2>2, <2>3 DEF WorkInv
  <2>7. /\ next' \in Nat /\ worker' \in [Threads -> {"fetch", "work", "finished", "panicked"}]
        /\ taken' \in [Threads -> Nat] /\ generated' \in [Threads -> SUBSET Indices]
    BY <1>0, <2>1
  <2>8. Indices' = Indices  BY DEF Indices
  <2>9. QED BY <2>4, <2>5, <2>6, <2>7, <2>8 DEF WorkInv
<1>2. ASSUME NEW w \in Threads, Fetch(w), ~(next < Total) PROVE WorkInv'
  <2>1. /\ next' = next + 1 /\ generated' = generated /\ taken' = taken
        /\ worker[w] = "fetch" /\ worker' = [worker EXCEPT ![w] = "finished"]
    BY <1>2 DEF Fetch, FetchAdd, WorkerGoto
  <2>2. Apart'  BY <1>0, <2>1 DEF WorkInv, Apart
  <2>3. ASSUME NEW i \in Indices
        PROVE  \E v \in Threads :
                 i \in generated'[v] \/ (worker'[v] \in {"work", "panicked"} /\ taken'[v] = i)
    <3>1. i < next  BY <1>0, <1>2
    <3>2. PICK v \in Threads :
            i \in generated[v] \/ (worker[v] \in {"work", "panicked"} /\ taken[v] = i)
      BY <3>1 DEF WorkInv
    <3>3. QED BY <1>0, <2>1, <3>2
  <2>4. \A v \in Threads :
          /\ \A i \in generated'[v] : i < next'
          /\ worker'[v] = "work" => taken'[v] \in Indices /\ taken'[v] < next'
          /\ worker'[v] = "work" => taken'[v] \notin generated'[v]
          /\ worker'[v] = "finished" => next' >= Total
    BY <1>0, <1>2, <2>1 DEF WorkInv, Indices
  <2>5. QED BY <1>0, <2>1, <2>2, <2>3, <2>4 DEF WorkInv, Indices
<1>3. ASSUME NEW w \in Threads, WorkerPanics(w) PROVE WorkInv'
  <2>1. /\ next' = next /\ generated' = generated /\ taken' = taken
        /\ worker[w] = "work" /\ worker' = [worker EXCEPT ![w] = "panicked"]
    BY <1>3 DEF WorkerPanics, WorkerGoto
  <2>2. Apart'  BY <1>0, <2>1 DEF WorkInv, Apart
  <2>3. QED BY <1>0, <2>1, <2>2 DEF WorkInv, Indices
<1>4. ASSUME NEW w \in Threads, Count(w) PROVE WorkInv'
  <2>1. /\ next' = next /\ taken' = taken
        /\ generated' = [generated EXCEPT ![w] = generated[w] \cup {taken[w]}]
        /\ worker[w] = "work" /\ worker' = [worker EXCEPT ![w] = "fetch"]
    BY <1>4 DEF Count, WorkerGoto
  <2>2. taken[w] \in Indices /\ taken[w] < next  BY <2>1 DEF WorkInv
  <2>3. Apart'  BY <1>0, <2>1 DEF WorkInv, Apart
  <2>4. ASSUME NEW i \in Indices, i < next
        PROVE  \E v \in Threads :
                 i \in generated'[v] \/ (worker'[v] \in {"work", "panicked"} /\ taken'[v] = i)
    <3>1. PICK v \in Threads :
            i \in generated[v] \/ (worker[v] \in {"work", "panicked"} /\ taken[v] = i)
      BY <2>4 DEF WorkInv
    <3>2. CASE v = w  BY <1>0, <2>1, <3>1, <3>2
    <3>3. CASE v # w  BY <1>0, <2>1, <3>1, <3>3
    <3>4. QED BY <3>2, <3>3
  <2>5. \A v \in Threads :
          /\ \A i \in generated'[v] : i < next'
          /\ worker'[v] = "work" => taken'[v] \in Indices /\ taken'[v] < next'
          /\ worker'[v] = "work" => taken'[v] \notin generated'[v]
          /\ worker'[v] = "finished" => next' >= Total
    BY <1>0, <2>1, <2>2 DEF WorkInv
  <2>6. QED BY <1>0, <2>1, <2>2, <2>3, <2>4, <2>5 DEF WorkInv, Indices
<1>5. ASSUME UNCHANGED workerVars PROVE WorkInv'
  BY <1>5 DEF WorkInv, Apart, Indices, workerVars
<1>6. QED
  <2>1. CASE \E w \in Threads : WorkerStep(w)
    BY <1>1, <1>2, <1>3, <1>4, <1>5, <2>1 DEF WorkerStep, Generate
  <2>2. CASE MainStep \/ SteelCore \/ Sigterm \/ TrialStep \/ UNCHANGED benchVars
    BY <1>5, <2>2 DEF MainStep, Announce, Join, Report, ExitAfter, SteelCore, Sigterm,
                      TrialStep, ReadLine, OutputEnds, Reap, benchVars
  <2>3. QED BY <2>1, <2>2 DEF BenchmarkNext, ProcessStep

----------------------------------------------------------------------------
(***************************************************************************)
(* What main adds up                                                       *)
(***************************************************************************)

By(n) == UNION {generated[w] : w \in 1..n}

\* The counts are those of the sets of generated indices.
SumInv ==
    /\ joined \in 0..Workers
    /\ \A w \in 1..joined : worker[w] = "finished"
    /\ \A w \in Threads : done[w] = Cardinality(generated[w])
    /\ done = [w \in Threads |-> done[w]]
    /\ sum = Cardinality(By(joined))
    /\ main \in {"setup", "join", "stay"}
    /\ main = "stay" => joined = Workers

LEMMA IndicesFinite ==
    /\ IsFiniteSet(Indices) /\ Cardinality(Indices) = Total /\ Total \in Nat
    /\ \A S \in SUBSET Indices :
         IsFiniteSet(S) /\ Cardinality(S) \in Nat /\ Cardinality(S) <= Total
<1>1. Total \in Nat  BY BenchmarkAssumption
<1>2. IsFiniteSet(Indices) /\ Cardinality(Indices) = Total
  BY <1>1, IndicesCounted DEF Indices
<1>3. QED BY <1>1, <1>2, FS_Subset, FS_CardinalityType

LEMMA SumKept ==
    ASSUME WorkInv, SumInv, [BenchmarkNext]_benchVars
    PROVE  SumInv'
<1>0. /\ Workers \in Nat /\ Threads = 1..Workers /\ joined \in 0..Workers
      /\ generated \in [Threads -> SUBSET Indices]
      /\ worker \in [Threads -> {"fetch", "work", "finished", "panicked"}]
  BY BenchmarkAssumption DEF WorkInv, SumInv
<1>1. ASSUME NEW w \in Threads, Fetch(w) \/ WorkerPanics(w) PROVE SumInv'
  <2>1. /\ generated' = generated /\ done' = done /\ UNCHANGED mainVars
        /\ worker[w] # "finished"
        /\ \E to \in {"work", "finished", "panicked"} : worker' = [worker EXCEPT ![w] = to]
    BY <1>1 DEF Fetch, WorkerPanics, WorkerGoto
  <2>2. \A v \in 1..joined : worker'[v] = "finished"  BY <1>0, <2>1 DEF SumInv
  <2>3. QED BY <2>1, <2>2 DEF SumInv, By, mainVars
<1>2. ASSUME NEW w \in Threads, Count(w) PROVE SumInv'
  <2>1. /\ generated' = [generated EXCEPT ![w] = generated[w] \cup {taken[w]}]
        /\ done' = [done EXCEPT ![w] = done[w] + 1] /\ UNCHANGED mainVars
        /\ worker[w] = "work" /\ worker' = [worker EXCEPT ![w] = "fetch"]
    BY <1>2 DEF Count, WorkerGoto
  <2>2. taken[w] \in Indices /\ taken[w] \notin generated[w]  BY <2>1 DEF WorkInv
  <2>3. Cardinality(generated[w] \cup {taken[w]}) = Cardinality(generated[w]) + 1
    BY <1>0, <2>2, IndicesFinite, FS_AddElement
  <2>4. \A v \in Threads : done'[v] = Cardinality(generated'[v])
    BY <1>0, <2>1, <2>3 DEF SumInv
  <2>5. w \notin 1..joined  BY <2>1 DEF SumInv
  <2>6. \A v \in 1..joined : v \in Threads /\ v # w /\ generated'[v] = generated[v]
    BY <1>0, <2>1, <2>5
  <2>7. By(joined)' = By(joined)  BY <2>1, <2>6 DEF By, mainVars
  <2>8. \A v \in 1..joined : worker'[v] = "finished"  BY <1>0, <2>1, <2>6 DEF SumInv
  <2>9. done' = [v \in Threads |-> done'[v]]  BY <2>1 DEF SumInv
  <2>10. QED BY <2>1, <2>4, <2>7, <2>8, <2>9 DEF SumInv, mainVars
<1>3. ASSUME Join PROVE SumInv'
  <2> DEFINE w == joined + 1
  <2>1. /\ UNCHANGED workerVars /\ main' = main /\ main = "join" /\ joined < Workers
        /\ w \in Threads
    BY <1>0, <1>3 DEF Join
  <2>2. CASE joined' = joined /\ sum' = sum
    BY <2>1, <2>2 DEF SumInv, By, workerVars
  <2>3. CASE worker[w] = "finished" /\ joined' = joined + 1 /\ sum' = sum + done[w]
    <3>1. By(joined + 1) = By(joined) \cup generated[w]
      <4>1. 1..joined + 1 = (1..joined) \cup {w}  BY <1>0
      <4>2. QED BY <4>1 DEF By
    <3>2. By(joined) \in SUBSET Indices /\ generated[w] \in SUBSET Indices
      <4>1. \A v \in 1..joined : generated[v] \in SUBSET Indices  BY <1>0
      <4>2. QED BY <1>0, <2>1, <4>1 DEF By
    <3>3. By(joined) \cap generated[w] = {}
      <4>1. \A v \in 1..joined : v \in Threads /\ v # w  BY <1>0
      <4>2. \A v \in 1..joined : generated[v] \cap generated[w] = {}
        BY <2>1, <4>1 DEF WorkInv, Apart
      <4>3. QED BY <4>2 DEF By
    <3>4. Cardinality(By(joined + 1)) = Cardinality(By(joined)) + Cardinality(generated[w])
      <4>1. Cardinality(By(joined) \cap generated[w]) = 0  BY <3>3, FS_EmptySet
      <4>2. /\ IsFiniteSet(By(joined)) /\ IsFiniteSet(generated[w])
            /\ Cardinality(By(joined)) \in Nat /\ Cardinality(generated[w]) \in Nat
        BY <3>2, IndicesFinite
      <4>3. Cardinality(By(joined) \cup generated[w]) =
              Cardinality(By(joined)) + Cardinality(generated[w])
                - Cardinality(By(joined) \cap generated[w])
        BY <4>2, FS_Union
      <4>4. Cardinality(By(joined + 1)) = Cardinality(By(joined) \cup generated[w])
        BY <3>1
      <4> HIDE DEF w
      <4>5. QED BY <4>1, <4>2, <4>3, <4>4
    <3>5. sum' = Cardinality(By(joined + 1))  BY <2>1, <2>3, <3>4 DEF SumInv
    <3>6. By(joined)' = By(joined + 1)  BY <2>1, <2>3 DEF By, workerVars
    <3>7. joined' \in 0..Workers  BY <1>0, <2>1, <2>3
    <3>8. \A v \in 1..joined' : worker'[v] = "finished"
      <4>1. \A v \in 1..joined + 1 : v \in 1..joined \/ v = w  BY <1>0
      <4>2. QED BY <2>1, <2>3, <4>1 DEF SumInv, workerVars
    <3>9. QED BY <2>1, <3>5, <3>6, <3>7, <3>8 DEF SumInv, workerVars
  <2>4. QED BY <1>3, <2>2, <2>3 DEF Join
<1>4. ASSUME UNCHANGED workerVars, joined' = joined, sum' = sum,
             main' = main \/ main' = "join" \/ (main' = "stay" /\ joined = Workers)
      PROVE  SumInv'
  BY <1>4 DEF SumInv, By, workerVars
<1>5. QED
  <2>1. CASE \E w \in Threads : WorkerStep(w)
    BY <1>1, <1>2, <1>4, <2>1 DEF WorkerStep, Generate, mainVars
  <2>2. CASE Join  BY <1>3, <2>2
  <2>3. CASE \/ Announce \/ Report \/ ExitAfter \/ SteelCore \/ Sigterm \/ TrialStep
             \/ UNCHANGED benchVars
    BY <1>4, <2>3 DEF Announce, Report, ExitAfter, SteelCore, Sigterm, MainGoto, mainVars,
                      TrialStep, ReadLine, OutputEnds, Reap, benchVars
  <2>4. QED BY <2>1, <2>2, <2>3 DEF BenchmarkNext, ProcessStep, MainStep

\* All workers joined: nothing of the square is missing.
LEMMA AllJoined ==
    ASSUME WorkInv, SumInv, joined = Workers
    PROVE  /\ UNION {generated[w] : w \in Threads} = Indices
           /\ sum = Total
<1>1. Threads = 1..Workers /\ Workers \in Nat \ {0}  BY BenchmarkAssumption
<1>2. \A w \in Threads : worker[w] = "finished"  BY <1>1 DEF SumInv
<1>3. next >= Total /\ next \in Nat /\ Total \in Nat
  <2>1. 1 \in Threads  BY <1>1
  <2>2. QED BY <1>2, <2>1, BenchmarkAssumption DEF WorkInv
<1>4. ASSUME NEW i \in Indices PROVE \E w \in Threads : i \in generated[w]
  <2>1. i < next  BY <1>3 DEF Indices
  <2>2. QED BY <1>2, <2>1 DEF WorkInv
<1>5. \A w \in Threads : generated[w] \in SUBSET Indices  BY DEF WorkInv
<1>6. UNION {generated[w] : w \in Threads} = Indices  BY <1>4, <1>5
<1>7. By(joined) = Indices  BY <1>1, <1>6 DEF By
<1>8. QED BY <1>6, <1>7, IndicesFinite DEF SumInv

----------------------------------------------------------------------------
(***************************************************************************)
(* Markers and the trial                                                   *)
(***************************************************************************)

\* What the harness still has to read, and what it has concluded, follows from
\* where main is; a trial that stopped reading has an ended process.
MarkerInv ==
    /\ status \in {"running", "zero", "panic", "killed"} /\ started \in BOOLEAN
    /\ trial \in {"reading", "terminated", "disconnected", "ok", "error"}
    /\ trial # "reading" => status # "running"
    /\ main = "setup" =>
           out = <<>> /\ ~started /\ trial \notin {"terminated", "ok"}
    /\ main = "join" =>
           /\ (out = <<"start">> /\ ~started) \/ (out = <<>> /\ started)
           /\ trial \notin {"terminated", "ok"}
    /\ main = "stay" =>
           \/ trial = "reading" /\ out = <<"start", "end">> /\ ~started
           \/ trial = "reading" /\ out = <<"end">> /\ started
           \/ trial \in {"terminated", "ok"} /\ out = <<>> /\ started

LEMMA MarkerKept ==
    ASSUME MarkerInv, SumInv, [BenchmarkNext]_benchVars
    PROVE  MarkerInv'
<1>1. CASE ProcessStep
  <2>0. status = "running" /\ trial = "reading"  BY <1>1 DEF ProcessStep, MarkerInv
  <2>1. CASE Announce
    <3>1. /\ main = "setup" /\ main' = "join" /\ out = <<>> /\ out' = Append(out, "start")
          /\ ~started /\ started' = started /\ trial' = trial /\ status' = status
      BY <2>1 DEF Announce, MainGoto, trialVars, MarkerInv
    <3>2. out' = <<"start">>  BY <3>1
    <3>3. QED BY <2>0, <3>1, <3>2 DEF MarkerInv
  <2>2. CASE Report
    <3>1. /\ main = "join" /\ started' = started /\ trial' = trial
          /\ \/ main' = "stay" /\ out' = Append(out, "end") /\ status' = status
             \/ main' = main /\ out' = out /\ status' = "panic"
      BY <2>2 DEF Report, MainGoto, Exit, trialVars
    <3>2. (out = <<"start">> /\ ~started) \/ (out = <<>> /\ started)
      BY <3>1 DEF MarkerInv
    <3>3. Append(<<"start">>, "end") = <<"start", "end">>
      <4> DEFINE s == Append(<<"start">>, "end")
      <4>1. <<"start">> \in Seq({"start", "end"}) /\ Len(<<"start">>) = 1  OBVIOUS
      <4>2. s \in Seq({"start", "end"}) /\ Len(s) = 2 /\ s[1] = "start" /\ s[2] = "end"
        BY <4>1
      <4>3. <<"start", "end">> \in Seq({"start", "end"}) /\ Len(<<"start", "end">>) = 2
        OBVIOUS
      <4> DEFINE t == <<"start", "end">>
      <4>4. Len(s) = Len(t) /\ \A i \in 1..Len(s) : s[i] = t[i]  BY <4>2, <4>3
      <4>5. t \in Seq({"start", "end"})  BY <4>3
      <4> HIDE DEF s, t
      <4>6. s = t  BY <4>2, <4>4, <4>5, SeqEqual
      <4>7. QED BY <4>6 DEF s, t
    <3>4. Append(<<>>, "end") = <<"end">>  OBVIOUS
    <3>5. QED BY <2>0, <3>1, <3>2, <3>3, <3>4 DEF MarkerInv
  <2>3. CASE Join \/ ExitAfter \/ Sigterm \/ SteelCore \/ \E w \in Threads : WorkerStep(w)
    <3>1. /\ main' = main /\ out' = out /\ started' = started /\ trial' = trial
          /\ status' \in {"running", "zero", "panic"}
      BY <2>0, <2>3 DEF Join, ExitAfter, Sigterm, SteelCore, WorkerStep, Fetch, Generate,
                        WorkerPanics, Count, Exit, mainVars, trialVars
    <3>2. QED BY <2>0, <3>1 DEF MarkerInv
  <2>4. QED BY <1>1, <2>1, <2>2, <2>3 DEF ProcessStep, MainStep
<1>2. CASE ReadLine
  <2>1. /\ trial = "reading" /\ out # <<>> /\ out' = Tail(out) /\ main' = main
        /\ \/ Head(out) = "start" /\ started' = TRUE /\ trial' = trial /\ status' = status
           \/ /\ Head(out) = "end" /\ trial' = "terminated" /\ started' = started
              /\ status' # "running" /\ status' \in {"zero", "panic", "killed"}
    BY <1>2 DEF ReadLine, Kill, mainVars, MarkerInv
  <2>2. CASE main = "setup"  BY <2>1, <2>2 DEF MarkerInv
  <2>3. CASE main = "join"
    <3>1. out = <<"start">> /\ ~started  BY <2>1, <2>3 DEF MarkerInv
    <3>2. Head(out) = "start" /\ Tail(out) = <<>>  BY <3>1
    <3>3. QED BY <2>1, <2>3, <3>2 DEF MarkerInv
  <2>4. CASE main = "stay"
    <3>1. CASE out = <<"start", "end">>
      <4>1. Head(out) = "start" /\ Tail(out) = <<"end">>  BY <3>1
      <4>2. QED BY <2>1, <2>4, <4>1 DEF MarkerInv
    <3>2. CASE out = <<"end">> /\ started
      <4>1. Head(out) = "end" /\ Tail(out) = <<>>  BY <3>2
      <4>2. QED BY <2>1, <2>4, <3>2, <4>1 DEF MarkerInv
    <3>3. QED BY <2>1, <2>4, <3>1, <3>2 DEF MarkerInv
  <2>5. QED BY <2>2, <2>3, <2>4 DEF SumInv
<1>3. CASE OutputEnds
  BY <1>3 DEF OutputEnds, mainVars, MarkerInv
<1>4. CASE Reap
  BY <1>4 DEF Reap, mainVars, MarkerInv
<1>5. CASE UNCHANGED benchVars
  BY <1>5 DEF benchVars, mainVars, trialVars, MarkerInv
<1>6. QED BY <1>1, <1>2, <1>3, <1>4, <1>5 DEF BenchmarkNext, TrialStep

----------------------------------------------------------------------------
(***************************************************************************)
(* Bounds, and the theorems                                                *)
(***************************************************************************)

Finished == {w \in Threads : worker[w] = "finished"}

\* Only a worker that then finishes takes the counter past the end.
NextBounded == next <= Total + Cardinality(Finished)

LEMMA NextKept ==
    ASSUME WorkInv, NextBounded, [BenchmarkNext]_benchVars
    PROVE  NextBounded'
<1>0. /\ next \in Nat /\ Total \in Nat /\ Total' = Total
      /\ worker \in [Threads -> {"fetch", "work", "finished", "panicked"}]
      /\ IsFiniteSet(Finished) /\ Cardinality(Finished) \in Nat
      /\ next <= Total + Cardinality(Finished)
  <2>1. IsFiniteSet(Threads)  BY BenchmarkAssumption, FS_Interval
  <2>2. IsFiniteSet(Finished)  BY <2>1, FS_Subset DEF Finished
  <2>3. QED BY <2>2, FS_CardinalityType, BenchmarkAssumption DEF WorkInv, NextBounded
<1>1. ASSUME NEW w \in Threads, Fetch(w) PROVE NextBounded'
  <2>1. next' = next + 1 /\ worker[w] = "fetch"
    BY <1>1 DEF Fetch, FetchAdd, WorkerGoto
  <2>2. CASE next < Total
    <3>1. worker' = [worker EXCEPT ![w] = "work"]
      BY <1>1, <2>2 DEF Fetch, WorkerGoto
    <3>2. Finished' = Finished  BY <1>0, <2>1, <3>1 DEF Finished
    <3>3. QED BY <1>0, <2>1, <2>2, <3>2 DEF NextBounded
  <2>3. CASE ~(next < Total)
    <3>1. worker' = [worker EXCEPT ![w] = "finished"]
      BY <1>1, <2>3 DEF Fetch, WorkerGoto
    <3>2. Finished' = Finished \cup {w} /\ w \notin Finished
      BY <1>0, <2>1, <3>1 DEF Finished
    <3>3. Cardinality(Finished') = Cardinality(Finished) + 1
      BY <1>0, <3>2, FS_AddElement
    <3>4. QED BY <1>0, <2>1, <3>3 DEF NextBounded
  <2>4. QED BY <2>2, <2>3
<1>2. ASSUME NEW w \in Threads, Count(w) \/ WorkerPanics(w) PROVE NextBounded'
  <2>1. /\ next' = next /\ worker[w] = "work"
        /\ \E to \in {"fetch", "panicked"} : worker' = [worker EXCEPT ![w] = to]
    BY <1>2 DEF Count, WorkerPanics, WorkerGoto
  <2>2. Finished' = Finished  BY <1>0, <2>1 DEF Finished
  <2>3. QED BY <1>0, <2>1, <2>2 DEF NextBounded
<1>3. ASSUME UNCHANGED workerVars PROVE NextBounded'
  BY <1>0, <1>3 DEF NextBounded, Finished, workerVars
<1>4. QED
  <2>1. CASE \E w \in Threads : WorkerStep(w)
    BY <1>1, <1>2, <1>3, <2>1 DEF WorkerStep, Generate
  <2>2. CASE MainStep \/ SteelCore \/ Sigterm \/ TrialStep \/ UNCHANGED benchVars
    BY <1>3, <2>2 DEF MainStep, Announce, Join, Report, ExitAfter, SteelCore, Sigterm,
                      TrialStep, ReadLine, OutputEnds, Reap, benchVars
  <2>3. QED BY <2>1, <2>2 DEF BenchmarkNext, ProcessStep

\* The inductive invariant.
BenchInv ==
    /\ PipelineInv /\ WorkInv /\ SumInv /\ MarkerInv /\ NextBounded
    /\ oneShot \in BOOLEAN

LEMMA BenchStarts ==
    ASSUME BenchmarkInit
    PROVE  BenchInv
<1>1. PipelineInv  BY PipelineStarts DEF BenchmarkInit
<1>2. WorkInv
  BY BenchmarkAssumption DEF BenchmarkInit, WorkInv, Apart, Indices
<1>3. SumInv
  <2>1. joined = 0 /\ sum = 0 /\ main = "setup" /\ done = [w \in Threads |-> 0]
        /\ generated = [w \in Threads |-> {}]
    BY DEF BenchmarkInit
  <2>2. By(joined) = {}  BY <2>1 DEF By
  <2>3. Cardinality(By(joined)) = 0  BY <2>2, FS_EmptySet
  <2>4. \A w \in Threads : done[w] = Cardinality(generated[w])  BY <2>1, FS_EmptySet
  <2>5. joined \in 0..Workers /\ 1..joined = {}  BY <2>1, BenchmarkAssumption
  <2>6. done = [w \in Threads |-> done[w]]  BY <2>1
  <2>7. QED BY <2>1, <2>3, <2>4, <2>5, <2>6 DEF SumInv
<1>4. MarkerInv  BY DEF BenchmarkInit, MarkerInv
<1>5. NextBounded
  <2>1. Finished = {}  BY DEF BenchmarkInit, Finished
  <2>2. QED BY <2>1, FS_EmptySet, BenchmarkAssumption DEF BenchmarkInit, NextBounded
<1>6. QED BY <1>1, <1>2, <1>3, <1>4, <1>5 DEF BenchInv, BenchmarkInit

LEMMA BenchKept ==
    ASSUME BenchInv, [BenchmarkNext]_benchVars
    PROVE  BenchInv'
<1>1. PipelineInv'
  <2>1. CASE \E w \in Threads : WorkerStep(w)
    <3>1. PICK w \in Threads : WorkerStep(w)  BY <2>1
    <3>2. ASSUME Fetch(w), next < Total PROVE \E c \in Chunks : Request(w, c)
      <4>1. next \in 0..Total - 1  BY <3>2, BenchmarkAssumption DEF BenchInv, WorkInv
      <4>2. PositionAt(next) \in Chunks  BY <4>1, BenchmarkAssumption
      <4>3. QED BY <3>2, <4>2 DEF Fetch
    <3>3. PipelineStep(w) \/ UNCHANGED pipelineVars
      BY <3>1, <3>2 DEF WorkerStep, Fetch, Generate, WorkerPanics, Count, PipelineStep
    <3>4. QED BY <3>3, PipelineKept DEF BenchInv
  <2>2. CASE SteelCore  BY <2>2, PipelineKept DEF SteelCore, BenchInv
  <2>3. CASE MainStep \/ Sigterm \/ TrialStep \/ UNCHANGED benchVars
    <3>1. UNCHANGED pipelineVars
      BY <2>3 DEF MainStep, Announce, Join, Report, ExitAfter, Sigterm,
                  TrialStep, ReadLine, OutputEnds, Reap, benchVars
    <3>2. QED BY <3>1, PipelineKept DEF BenchInv
  <2>4. QED BY <2>1, <2>2, <2>3 DEF BenchmarkNext, ProcessStep
<1>2. oneShot' = oneShot
  BY DEF BenchmarkNext, ProcessStep, MainStep, Announce, Join, Report, ExitAfter, Sigterm,
         SteelCore, WorkerStep, Fetch, Generate, WorkerPanics, Count, TrialStep, ReadLine,
         OutputEnds, Reap, mainVars, benchVars
<1>3. QED BY <1>1, <1>2, WorkKept, SumKept, MarkerKept, NextKept DEF BenchInv

LEMMA BenchInvariant == BenchmarkSpec => []BenchInv
BY BenchStarts, BenchKept, PTL DEF BenchmarkSpec

\* Type correctness: in particular the counter passes the end at most once per
\* worker, and no count exceeds the square.
THEOREM BenchmarkTypes == BenchmarkSpec => []BenchmarkTypeOK
<1>1. ASSUME BenchInv PROVE BenchmarkTypeOK
  <2>1. IsFiniteSet(Threads) /\ Cardinality(Threads) = Workers /\ Workers \in Nat
    BY BenchmarkAssumption, FS_Interval
  <2>2. Finished \in SUBSET Threads  BY DEF Finished
  <2>3. Cardinality(Finished) \in Nat /\ Cardinality(Finished) <= Workers
    BY <2>1, <2>2, FS_Subset, FS_CardinalityType
  <2>4. Total \in Nat /\ next \in Nat /\ next <= Total + Cardinality(Finished)
    BY <1>1, BenchmarkAssumption DEF BenchInv, WorkInv, NextBounded
  <2>5. next \in 0..Total + Workers  BY <2>1, <2>3, <2>4
  <2>6. done \in [Threads -> 0..Total]
    <3>1. \A w \in Threads : done[w] \in 0..Total
      BY <1>1, IndicesFinite DEF BenchInv, SumInv, WorkInv
    <3>2. QED BY <1>1, <3>1 DEF BenchInv, SumInv
  <2>7. sum \in 0..Total
    <3>1. \A w \in 1..joined : w \in Threads
      BY <1>1, BenchmarkAssumption DEF BenchInv, SumInv
    <3>2. By(joined) \in SUBSET Indices
      BY <1>1, <3>1 DEF BenchInv, WorkInv, By
    <3>3. QED BY <1>1, <3>2, IndicesFinite DEF BenchInv, SumInv
  <2>8. out \in Seq({"start", "end"})
    <3>1. out \in {<<>>, <<"start">>, <<"end">>, <<"start", "end">>}
      BY <1>1 DEF BenchInv, SumInv, MarkerInv
    <3>2. /\ <<>> \in Seq({"start", "end"}) /\ <<"start">> \in Seq({"start", "end"})
          /\ <<"end">> \in Seq({"start", "end"})
      OBVIOUS
    <3>3. <<"start", "end">> \in Seq({"start", "end"})  OBVIOUS
    <3>4. QED BY <3>1, <3>2, <3>3
  <2>9. QED
    BY <1>1, <2>5, <2>6, <2>7, <2>8
       DEF BenchInv, PipelineInv, WorkInv, SumInv, MarkerInv, BenchmarkTypeOK, Indices
<1>2. QED BY <1>1, BenchInvariant, PTL

\* lib.rs:215-269 and 361-382: what a worker is handed is whole and translated.
THEOREM BenchmarkServes == BenchmarkSpec => []ServedIsGenerated
<1>1. BenchInv => ServedIsGenerated  BY PipelineServes DEF BenchInv
<1>2. QED BY <1>1, BenchInvariant, PTL

\* lib.rs:236-300, 361-382 and SteelWorldGenerator.java:42-52: from generation
\* through copy, translation and the client's table, a cell of a served chunk is
\* shown with the biome that SteelMC generated there if and only if the client's
\* registry has no biome of its own that sorts before that one.
THEOREM ServedBiomesAreShown ==
    ASSUME NEW registry \in SUBSET Nat, IsFiniteSet(registry), To.biomes \subseteq registry
    PROVE  BenchmarkSpec =>
             [](\A t \in Threads : stage[t] = "served" =>
                  \A s \in Sections, p \in Cells :
                    LET biome == Biomes[<<target[t], s>>][p]
                    IN  ClientBiome(registry, copy[t][s].biomes.cells[p]) = biome
                          <=> ~ \E f \in registry \ To.biomes : f < biome)
<1> DEFINE Shown ==
      \A t \in Threads : stage[t] = "served" =>
        \A s \in Sections, p \in Cells :
          LET biome == Biomes[<<target[t], s>>][p]
          IN  ClientBiome(registry, copy[t][s].biomes.cells[p]) = biome
                <=> ~ \E f \in registry \ To.biomes : f < biome
<1>1. BenchInv /\ ServedIsGenerated => Shown
  <2> SUFFICES ASSUME BenchInv, ServedIsGenerated, NEW t \in Threads, stage[t] = "served",
                      NEW s \in Sections, NEW p \in Cells
               PROVE  LET biome == Biomes[<<target[t], s>>][p]
                      IN  ClientBiome(registry, copy[t][s].biomes.cells[p]) = biome
                            <=> ~ \E f \in registry \ To.biomes : f < biome
    OBVIOUS
  <2> DEFINE biome == Biomes[<<target[t], s>>][p]
  <2>1. target[t] \in Chunks  BY DEF BenchInv, PipelineInv, PipelineTypeOK
  <2>2. biome \in From.biomes  BY <2>1, PipelineAssumption
  <2>3. From \in DataVersion /\ To \in DataVersion /\ BiomesBuild(From, To) /\ BiomesFit(To)
    BY PipelineAssumption DEF Builds
  <2>4. copy[t][s].biomes.cells[p] = Rank(To.biomes, biome)  BY DEF ServedIsGenerated
  <2>5. BiomeTranslation(From, To)[Rank(From.biomes, biome)] = Rank(To.biomes, biome)
    BY <2>2, <2>3, BiomeEntry
  <2>6. QED BY <2>2, <2>3, <2>4, <2>5, BiomeShown
<1>2. QED BY <1>1, BenchInvariant, BenchmarkServes, PTL

\* bench.rs:62-66: no position twice.
THEOREM PositionsTakenOnce == BenchmarkSpec => []PositionsOnce
<1>1. BenchInv => PositionsOnce  BY DEF BenchInv, WorkInv, Apart, SumInv, PositionsOnce
<1>2. QED BY <1>1, BenchInvariant, PTL

\* bench.rs:82-86: the counts add up whenever the assertion is reached.
THEOREM AssertionHolds == BenchmarkSpec => []AssertHolds
<1>1. BenchInv => AssertHolds  BY AllJoined DEF BenchInv, AssertHolds
<1>2. QED BY <1>1, BenchInvariant, PTL

\* harness.rs:520-609: a reported trial measured the whole square.
THEOREM TrialsAreSound == BenchmarkSpec => []TrialSound
<1>1. ASSUME BenchInv PROVE TrialSound
  <2> SUFFICES ASSUME trial = "ok"
               PROVE  status # "running" /\ UNION {generated[w] : w \in Threads} = 0..Total - 1
    BY DEF TrialSound
  <2>1. status # "running" /\ main = "stay" /\ joined = Workers
    BY <1>1 DEF BenchInv, MarkerInv, SumInv
  <2>2. QED BY <1>1, <2>1, AllJoined DEF BenchInv, Indices
<1>2. QED BY <1>1, BenchInvariant, PTL

\* harness.rs:520-609: an end marker that was printed is read.
THEOREM ResultsNotLost == BenchmarkSpec => []ResultNotLost
<1>1. BenchInv => ResultNotLost  BY DEF BenchInv, MarkerInv, ResultNotLost
<1>2. QED BY <1>1, BenchInvariant, PTL
=============================================================================
