--------------------------- MODULE ChunkPipeline ---------------------------
(***************************************************************************)
(* What one thread does with a chunk inside the provider, and what the     *)
(* other threads may do meanwhile: the request of the 3x3 neighbourhood,   *)
(* the copy of the chunk out of the shared world section by section        *)
(* (generate_with_structures, clone_from_chunk), and the translation of    *)
(* the copy (serialize_chunk_sections).                                    *)
(*                                                                         *)
(* The scheduling of a request is RequestCoordinator's; here a request may *)
(* only become ready once steel-core has decorated its square.  Decorating *)
(* a chunk writes into the chunks around it, so the blocks of a section    *)
(* depend on which chunks near it have been decorated.                     *)
(***************************************************************************)
EXTENDS Translation, Sequences

CONSTANTS
    Threads,       \* threads that ask the context for chunks
    Chunks,        \* the chunks of the world, as [x, z]
    NumSections,   \* sections of a chunk
    From, To,      \* the data versions of SteelMC and of the client
    Blocks,        \* names of a section's states once some chunks near it are decorated
    Biomes         \* keys of a section's biomes

Sections == 1..NumSections

ASSUME PipelineAssumption ==
    /\ Chunks \subseteq [x : Int, z : Int]
    /\ NumSections \in Nat \ {0}
    /\ From \in DataVersion /\ To \in DataVersion /\ Builds(From, To) /\ BiomesFit(To)
    /\ Blocks \in [Chunks \X Sections \X SUBSET Chunks -> [Cells -> StateNames(From)]]
    /\ Biomes \in [Chunks \X Sections -> [Cells -> From.biomes]]

VARIABLES
    stage,       \* how far each thread is with its chunk
    target,      \* the chunk each thread last asked for
    decorated,   \* the chunks that have reached Features
    copy         \* the sections each thread has cloned, in order

pipelineVars == <<stage, target, decorated, copy>>

Stage == {"idle", "requested", "panicked", "cloning", "cloned", "served"}

Section == LET Palette == [kind : {"homogeneous", "heterogeneous"}, cells : [Cells -> Nat]]
           IN  [states : Palette, biomes : Palette]

PipelineTypeOK ==
    /\ stage \in [Threads -> Stage]
    /\ target \in [Threads -> Chunks]
    /\ decorated \in SUBSET Chunks
    /\ copy \in [Threads -> Seq(Section)]

PipelineInit ==
    /\ stage = [t \in Threads |-> "idle"]
    /\ target \in [Threads -> Chunks]
    /\ decorated = {}
    /\ copy = [t \in Threads |-> <<>>]

Within(c, d, r) == d.x - c.x \in -r..r /\ d.z - c.z \in -r..r

\* request_square(center, 1, Features); chunks outside Chunks are left out.
Square(c) == {d \in Chunks : Within(c, d, 1)}

StageGoto(t, from, to) == stage[t] = from /\ stage' = [stage EXCEPT ![t] = to]

----------------------------------------------------------------------------

Request(t, c) ==
    /\ StageGoto(t, "idle", "requested")
    /\ target' = [target EXCEPT ![t] = c]
    /\ copy' = [copy EXCEPT ![t] = <<>>]
    /\ UNCHANGED decorated

\* steel-core brings a chunk that a live request needs to Features.
Decorate(d) ==
    /\ d \in Chunks \ decorated
    /\ \E t \in Threads : stage[t] = "requested" /\ d \in Square(target[t])
    /\ decorated' = decorated \cup {d}
    /\ UNCHANGED <<stage, target, copy>>

\* Mutant of Ready: the centre alone is requested.
ReadyCentre(t) ==
    /\ StageGoto(t, "requested", "cloning")
    /\ target[t] \in decorated
    /\ UNCHANGED <<target, decorated, copy>>

Ready(t) ==
    /\ StageGoto(t, "requested", "cloning")
    /\ Square(target[t]) \subseteq decorated
    /\ UNCHANGED <<target, decorated, copy>>

\* The request was cancelled or ran into its deadline.
Panics(t) ==
    /\ StageGoto(t, "requested", "panicked")
    /\ UNCHANGED <<target, decorated, copy>>

\* A section as it is in the world after the decorations of D, finalized:
\* SteelMC numbers biomes by the order of their keys.
Generated(c, s, D) ==
    [states |-> Finalized([p \in Cells |-> From.stateId[Blocks[<<c, s, D>>][p]]]),
     biomes |-> Finalized([p \in Cells |-> Rank(From.biomes, Biomes[<<c, s>>][p])])]

\* One turn of the loop, under the lock of that section alone.
CloneSection(t) ==
    LET s == Len(copy[t]) + 1
        c == target[t]
    IN  /\ StageGoto(t, "cloning", IF s = NumSections THEN "cloned" ELSE "cloning")
        /\ copy' = [copy EXCEPT ![t] = Append(@, Generated(c, s, decorated \cap Square(c)))]
        /\ UNCHANGED <<target, decorated>>

Translated(section) ==
    [states |-> Remap(section.states, BlockStateTranslation(From, To)),
     biomes |-> Remap(section.biomes, BiomeTranslation(From, To))]

\* The chunk is the thread's own by now, so its sections are translated in place.
Serialize(t) ==
    /\ StageGoto(t, "cloned", "served")
    /\ copy' = [copy EXCEPT ![t] = [s \in DOMAIN @ |-> Translated(@[s])]]
    /\ UNCHANGED <<target, decorated>>

----------------------------------------------------------------------------

\* lib.rs:215-220, 236-269 and 361-382: whatever other threads make the world
\* generate meanwhile, every section of a served chunk has the decorations of
\* the whole square, and each of its IDs is the client's ID of the state, and
\* the client's rank of the biome, that SteelMC generated there.
ServedIsGenerated ==
    \A t \in Threads :
        stage[t] = "served" =>
            /\ Len(copy[t]) = NumSections
            /\ \A s \in Sections, p \in Cells :
                LET c == target[t]
                IN  /\ copy[t][s].states.cells[p] =
                           To.stateId[Blocks[<<c, s, Square(c)>>][p]]
                    /\ copy[t][s].biomes.cells[p] = Rank(To.biomes, Biomes[<<c, s>>][p])
=============================================================================
