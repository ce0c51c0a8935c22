-------------------------- MODULE MinestomProvider --------------------------
(***************************************************************************)
(* The Minestom module: the static registration of a server client         *)
(* (SteelWorldGenProvider.java), which callers replace, close and use from *)
(* any thread, and the generator's reading of biome IDs by a table made    *)
(* once from the registry of biomes (SteelWorldGenerator.java).            *)
(*                                                                         *)
(* A server is a SteelWorldGenServer.  The provider makes some of them;    *)
(* others are made by callers, who hand them over and may close them.      *)
(***************************************************************************)
EXTENDS Translation

CONSTANTS
    Callers,     \* threads that call the provider
    Made,        \* servers the provider may make
    Given,       \* servers of the callers
    Null,        \* no server, or nobody
    From, To,    \* the data versions of SteelMC and of the client
    Custom       \* biomes that are registered beside the client's own

ASSUME MinestomAssumption ==
    /\ Made \cap Given = {} /\ "make" \notin Given /\ "none" \notin Given
    /\ Null \notin Made \cup Given \cup Callers
    /\ From \in DataVersion /\ To \in DataVersion /\ BiomesBuild(From, To) /\ BiomesFit(To)
    /\ Custom \subseteq Nat /\ IsFiniteSet(Custom) /\ Custom \cap To.biomes = {}

VARIABLES
    server,     \* server
    lock,       \* who is inside synchronized (lock)
    life,       \* whether each server was made, and closed
    pc,         \* where each caller is
    given,      \* the server each caller hands over
    generator,  \* the server of the generator each caller got
    cleared,    \* server became null since the caller's startServer returned
    registry,   \* Minestom's biomes
    snapshot    \* the keys in BIOMES_BY_STEEL_ID once the class is initialized

serverVars == <<server, lock, life>>
callerVars == <<pc, given, generator, cleared>>
biomeVars == <<registry, snapshot>>
minestomVars == <<serverVars, callerVars, biomeVars>>

Servers == Made \cup Given

\* Callers between startServer and the read in getGenerator.
Getting == {"new", "read"}
Locked == {"close", "clear", "assign", "construct", "constructForGenerator"}

MinestomTypeOK ==
    /\ server \in Servers \cup {Null}
    /\ lock \in Callers \cup {Null}
    /\ life \in [Servers -> {"unborn", "open", "closed"}]
    /\ pc \in [Callers -> {"idle", "holding"} \cup Getting \cup Locked]
    /\ given \in [Callers -> Given \cup {"make", "none"}]
    /\ generator \in [Callers -> Servers \cup {Null}]
    /\ cleared \in [Callers -> BOOLEAN]
    /\ registry \in SUBSET (To.biomes \cup Custom)
    /\ snapshot \in SUBSET (To.biomes \cup Custom)

MinestomInit ==
    /\ server = Null
    /\ lock = Null
    /\ life = [s \in Servers |-> IF s \in Given THEN "open" ELSE "unborn"]
    /\ pc = [c \in Callers |-> "idle"]
    /\ given = [c \in Callers |-> "none"]
    /\ generator = [c \in Callers |-> Null]
    /\ cleared = [c \in Callers |-> FALSE]
    /\ registry = To.biomes
    /\ snapshot = {}

Goto(c, from, to) == pc[c] = from /\ pc' = [pc EXCEPT ![c] = to]

Acquire(c) == lock = Null /\ lock' = c
Leave(c) == lock = c /\ lock' = Null

----------------------------------------------------------------------------
(***************************************************************************)
(* startServer, by itself or first in getGenerator                         *)
(***************************************************************************)

StartServer(c) ==
    /\ lock = Null
    /\ IF server = Null
       THEN Goto(c, "idle", "construct") /\ lock' = c
       ELSE UNCHANGED <<pc, lock>>
    /\ UNCHANGED <<server, life, given, generator, cleared, biomeVars>>

\* The first statement of getGenerator.
GetGenerator(c) ==
    /\ lock = Null
    /\ IF server = Null
       THEN Goto(c, "idle", "constructForGenerator") /\ lock' = c
       ELSE Goto(c, "idle", "new") /\ UNCHANGED lock
    /\ cleared' = [cleared EXCEPT ![c] = FALSE]
    /\ UNCHANGED <<server, life, given, generator, biomeVars>>

\* The constructor returns, and its result is registered.
Constructed(c) ==
    \E s \in Made :
        /\ life[s] = "unborn" /\ life' = [life EXCEPT ![s] = "open"]
        /\ server' = s
        /\ \/ Goto(c, "construct", "idle")
           \/ Goto(c, "constructForGenerator", "new")
        /\ Leave(c)
        /\ UNCHANGED <<given, generator, cleared, biomeVars>>

\* Mutant of ConstructorThrows: getGenerator goes on after the exception.
ConstructorThrowsIgnored(c) ==
    /\ Goto(c, "construct", "idle") \/ Goto(c, "constructForGenerator", "new")
    /\ Leave(c)
    /\ UNCHANGED <<server, life, given, generator, cleared, biomeVars>>

ConstructorThrows(c) ==
    /\ Goto(c, "construct", "idle") \/ Goto(c, "constructForGenerator", "idle")
    /\ Leave(c)
    /\ UNCHANGED <<server, life, given, generator, cleared, biomeVars>>

----------------------------------------------------------------------------
(***************************************************************************)
(* closeServer, useServer and setServer: the last two close what is        *)
(* registered, under the same lock, before they register their own         *)
(***************************************************************************)

\* What follows the closing: nothing, the constructor, or a given server.
After(what) == CASE what = "none" -> "idle"
                 [] what = "make" -> "construct"
                 [] what \in Given -> "assign"

\* Mutant of Replace: the registered server is only closed by closeServer.
ReplaceUnclosed(c, what) ==
    /\ Acquire(c)
    /\ given' = [given EXCEPT ![c] = what]
    /\ Goto(c, "idle", IF server # Null /\ what = "none" THEN "close" ELSE "clear")
    /\ UNCHANGED <<server, life, generator, cleared, biomeVars>>

Replace(c, what) ==
    /\ Acquire(c)
    /\ given' = [given EXCEPT ![c] = what]
    /\ Goto(c, "idle", IF server # Null THEN "close" ELSE "clear")
    /\ UNCHANGED <<server, life, generator, cleared, biomeVars>>

\* server.close(); one that is closed already stays so.
CloseRegistered(c) ==
    /\ Goto(c, "close", "clear")
    /\ life' = [life EXCEPT ![server] = "closed"]
    /\ UNCHANGED <<server, lock, given, generator, cleared, biomeVars>>

\* Mutant of Clear: a server that is closed stays registered.
ClearNothing(c) ==
    /\ Goto(c, "clear", After(given[c]))
    /\ IF After(given[c]) = "idle" THEN Leave(c) ELSE lock = c /\ UNCHANGED lock
    /\ UNCHANGED <<server, life, given, generator, cleared, biomeVars>>

Clear(c) ==
    /\ Goto(c, "clear", After(given[c]))
    /\ IF After(given[c]) = "idle" THEN Leave(c) ELSE lock = c /\ UNCHANGED lock
    /\ server' = Null
    /\ cleared' = [d \in Callers |-> cleared[d] \/ pc[d] \in Getting]
    /\ UNCHANGED <<life, given, generator, biomeVars>>

SetServer(c) ==
    /\ Goto(c, "assign", "idle")
    /\ server' = given[c]
    /\ Leave(c)
    /\ UNCHANGED <<life, given, generator, cleared, biomeVars>>

\* The owner closes a server, handed over or not.
OwnerCloses(s) ==
    /\ life[s] = "open" /\ life' = [life EXCEPT ![s] = "closed"]
    /\ UNCHANGED <<server, lock, callerVars, biomeVars>>

----------------------------------------------------------------------------
(***************************************************************************)
(* new SteelWorldGenerator(seed, dimension, server), outside the lock: the *)
(* class is initialized before the argument is read                        *)
(***************************************************************************)

NewGenerator(c) ==
    /\ Goto(c, "new", "read")
    /\ snapshot' = IF snapshot = {} THEN registry ELSE snapshot
    /\ UNCHANGED <<serverVars, given, generator, cleared, registry>>

ReadServer(c) ==
    /\ Goto(c, "read", "holding")
    /\ generator' = [generator EXCEPT ![c] = server]
    /\ UNCHANGED <<serverVars, given, cleared, biomeVars>>

\* The caller is done with its generator.
Forget(c) ==
    /\ Goto(c, "holding", "idle")
    /\ generator' = [generator EXCEPT ![c] = Null]
    /\ UNCHANGED <<serverVars, given, cleared, biomeVars>>

\* The game server registers a biome of its own.
RegisterBiome(b) ==
    /\ b \notin registry /\ registry' = registry \cup {b}
    /\ UNCHANGED <<serverVars, callerVars, snapshot>>

----------------------------------------------------------------------------

CallerStep(c) ==
    \/ StartServer(c) \/ GetGenerator(c) \/ Constructed(c) \/ ConstructorThrows(c)
    \/ \E what \in Given \cup {"make", "none"} : Replace(c, what)
    \/ CloseRegistered(c) \/ Clear(c) \/ SetServer(c)
    \/ NewGenerator(c) \/ ReadServer(c) \/ Forget(c)

MinestomNext ==
    \/ \E c \in Callers : CallerStep(c)
    \/ \E s \in Given : OwnerCloses(s)
    \/ \E b \in Custom : RegisterBiome(b)

MinestomSpec == MinestomInit /\ [][MinestomNext]_minestomVars

----------------------------------------------------------------------------

\* SteelWorldGenProvider.java:10-72: a server the provider made and has not
\* closed is the registered one, so a later close reaches it and its process.
NoServerLost == \A s \in Made : life[s] = "open" => server = s

\* SteelWorldGenProvider.java:22-47: outside the lock a closed server is only
\* registered when its owner closed it or handed over one that was registered.
MadeAreOpen == server \in Made /\ lock = Null => life[server] = "open"

\* SteelWorldGenProvider.java:60-63: a generator without a server, whose first
\* chunk fails, comes only of a close that ran after startServer returned.
GeneratorHasServer ==
    \A c \in Callers : pc[c] = "holding" /\ generator[c] = Null => cleared[c]

\* SteelWorldGenerator.java:42-62 with build.rs:121-145: the generator shows
\* the biome that SteelMC chose if and only if no custom biome that was there
\* when the class was initialized sorts before it.
BiomesShown ==
    snapshot # {} =>
        \A k \in From.biomes :
            ClientBiome(snapshot, BiomeTranslation(From, To)[Rank(From.biomes, k)]) = k
                <=> ~ \E f \in snapshot \cap Custom : f < k
=============================================================================
