----------------------- MODULE MinestomProviderProofs -----------------------
(***************************************************************************)
(* Theorems about MinestomProvider, for every number of callers, servers   *)
(* and biomes: no server the provider made is lost or handed out closed,   *)
(* and what its generators show.                                           *)
(***************************************************************************)
EXTENDS MinestomProvider, TranslationProofs

----------------------------------------------------------------------------
(***************************************************************************)
(* The inductive invariant                                                 *)
(***************************************************************************)

\* Who is inside a synchronized block, and what is registered at each place.
LockHeld ==
    /\ \A c \in Callers : pc[c] \in Locked <=> lock = c
    /\ \A c \in Callers : pc[c] = "close" => server # Null
    /\ \A c \in Callers : pc[c] = "clear" => server = Null \/ life[server] = "closed"
    /\ \A c \in Callers :
         pc[c] \in {"assign", "construct", "constructForGenerator"} => server = Null
    /\ \A c \in Callers : pc[c] = "assign" => given[c] \in Given

\* A made server is registered while it is open, and open while it is
\* registered, save inside the block that takes it away.
MadeTracked ==
    /\ NoServerLost
    /\ server \in Made =>
         \/ life[server] = "open"
         \/ life[server] = "closed" /\ \E c \in Callers : pc[c] = "clear"

\* What a caller relies on between startServer and the read of server.
GettersServed ==
    /\ \A c \in Callers : pc[c] \in Getting => server # Null \/ cleared[c]
    /\ GeneratorHasServer

\* Biomes are only added.
BiomesGrow ==
    /\ To.biomes \subseteq registry
    /\ snapshot # {} => To.biomes \subseteq snapshot

MinestomInv ==
    MinestomTypeOK /\ LockHeld /\ MadeTracked /\ GettersServed /\ BiomesGrow

LEMMA Distinct ==
    /\ Made \cap Given = {} /\ Null \notin Servers /\ Null \notin Callers
    /\ "make" \notin Given /\ "none" \notin Given
BY MinestomAssumption DEF Servers

----------------------------------------------------------------------------

\* A step that leaves the servers alone.
LEMMA QuietStep ==
    ASSUME MinestomInv, NEW c \in Callers, StartServer(c) \/ GetGenerator(c)
    PROVE  MinestomInv'
<1> USE DEF MinestomInv, MinestomTypeOK, LockHeld, MadeTracked, GettersServed, BiomesGrow,
            NoServerLost, GeneratorHasServer, Locked, Getting, biomeVars
<1>0. Null \notin Callers  BY Distinct
<1>1. CASE StartServer(c)
  <2>1. /\ lock = Null
        /\ UNCHANGED <<server, life, given, generator, cleared, registry, snapshot>>
    BY <1>1 DEF StartServer
  <2>2. CASE server = Null
    <3>1. pc[c] = "idle" /\ pc' = [pc EXCEPT ![c] = "construct"] /\ lock' = c
      BY <1>1, <2>2 DEF StartServer, Goto
    <3>2. \A d \in Callers : pc[d] \notin Locked  BY <1>0, <2>1
    <3>3. MinestomTypeOK' /\ LockHeld'  BY <2>1, <2>2, <3>1, <3>2
    <3>4. MadeTracked' /\ GettersServed' /\ BiomesGrow'  BY <2>1, <2>2, <3>1, <3>2
    <3>5. QED BY <3>3, <3>4
  <2>3. CASE server # Null
    <3>1. UNCHANGED <<pc, lock>>  BY <1>1, <2>3 DEF StartServer
    <3>2. QED BY <2>1, <3>1
  <2>4. QED BY <2>2, <2>3
<1>2. CASE GetGenerator(c)
  <2>1. /\ lock = Null /\ pc[c] = "idle"
        /\ cleared' = [cleared EXCEPT ![c] = FALSE]
        /\ UNCHANGED <<server, life, given, generator, registry, snapshot>>
    BY <1>2 DEF GetGenerator, Goto
  <2>2. \A d \in Callers : pc[d] \notin Locked  BY <1>0, <2>1
  <2>3. \/ server = Null /\ lock' = c
              /\ pc' = [pc EXCEPT ![c] = "constructForGenerator"]
        \/ server # Null /\ lock' = Null /\ pc' = [pc EXCEPT ![c] = "new"]
    BY <1>2, <2>1 DEF GetGenerator, Goto
  <2>4. MinestomTypeOK' /\ LockHeld'  BY <1>0, <2>1, <2>2, <2>3
  <2>5. MadeTracked' /\ BiomesGrow'  BY <2>1, <2>2, <2>3
  <2>6. GettersServed'  BY <2>1, <2>3
  <2>7. QED BY <2>4, <2>5, <2>6
<1>3. QED BY <1>1, <1>2

LEMMA ConstructorStep ==
    ASSUME MinestomInv, NEW c \in Callers, Constructed(c) \/ ConstructorThrows(c)
    PROVE  MinestomInv'
<1> USE DEF MinestomInv, MinestomTypeOK, LockHeld, MadeTracked, GettersServed, BiomesGrow,
            NoServerLost, GeneratorHasServer, Locked, Getting, biomeVars
<1>0. Null \notin Callers /\ Null \notin Servers  BY Distinct
<1>1. /\ pc[c] \in {"construct", "constructForGenerator"} /\ server = Null
      /\ lock = c /\ lock' = Null
      /\ UNCHANGED <<given, generator, cleared, registry, snapshot>>
  BY DEF Constructed, ConstructorThrows, Goto, Leave
<1>2. \A d \in Callers \ {c} : pc[d] \notin Locked  BY <1>1
<1>3. CASE ConstructorThrows(c)
  <2>1. pc' = [pc EXCEPT ![c] = "idle"] /\ UNCHANGED <<server, life>>
    BY <1>3 DEF ConstructorThrows, Goto
  <2>2. QED BY <1>0, <1>1, <1>2, <2>1
<1>4. CASE Constructed(c)
  <2>1. PICK s \in Made :
          /\ life[s] = "unborn" /\ life' = [life EXCEPT ![s] = "open"] /\ server' = s
          /\ \/ pc' = [pc EXCEPT ![c] = "idle"]
             \/ pc' = [pc EXCEPT ![c] = "new"]
    BY <1>4 DEF Constructed, Goto
  <2>2. s \in Servers /\ s # Null  BY <1>0 DEF Servers
  <2>3. \A d \in Callers : pc'[d] \notin Locked  BY <1>2, <2>1
  <2>4. MinestomTypeOK' /\ LockHeld'  BY <1>0, <1>1, <2>1, <2>2, <2>3
  <2>5. MadeTracked'
    <3>1. \A m \in Made : m \in Servers  BY DEF Servers
    <3>2. \A m \in Made : life[m] # "open"  BY <1>0, <1>1, <3>1
    <3>3. life'[s] = "open" /\ \A m \in Made \ {s} : life'[m] # "open"
      BY <2>1, <2>2, <3>1, <3>2
    <3>4. QED BY <2>1, <3>3
  <2>6. GettersServed' /\ BiomesGrow'  BY <1>1, <2>1, <2>2
  <2>7. QED BY <2>4, <2>5, <2>6
<1>5. QED BY <1>3, <1>4

LEMMA ReplaceStep ==
    ASSUME MinestomInv, NEW c \in Callers,
           NEW what \in Given \cup {"make", "none"}, Replace(c, what)
    PROVE  MinestomInv'
<1> USE DEF MinestomInv, MinestomTypeOK, LockHeld, MadeTracked, GettersServed, BiomesGrow,
            NoServerLost, GeneratorHasServer, Locked, Getting, biomeVars
<1>0. Null \notin Callers  BY Distinct
<1>1. /\ lock = Null /\ lock' = c /\ pc[c] = "idle"
      /\ given' = [given EXCEPT ![c] = what]
      /\ UNCHANGED <<server, life, generator, cleared, registry, snapshot>>
      /\ \/ server # Null /\ pc' = [pc EXCEPT ![c] = "close"]
         \/ server = Null /\ pc' = [pc EXCEPT ![c] = "clear"]
  BY DEF Replace, Acquire, Goto
<1>2. \A d \in Callers : pc[d] \notin Locked  BY <1>0, <1>1
<1>3. MinestomTypeOK'  BY <1>1
<1>4. LockHeld'  BY <1>1, <1>2
<1>5. MadeTracked' /\ GettersServed' /\ BiomesGrow'  BY <1>1, <1>2
<1>6. QED BY <1>3, <1>4, <1>5

LEMMA CloseRegisteredStep ==
    ASSUME MinestomInv, NEW c \in Callers, CloseRegistered(c)
    PROVE  MinestomInv'
<1> USE DEF MinestomInv, MinestomTypeOK, LockHeld, MadeTracked, GettersServed, BiomesGrow,
            NoServerLost, GeneratorHasServer, Locked, Getting, biomeVars
<1>1. /\ pc[c] = "close" /\ pc' = [pc EXCEPT ![c] = "clear"]
      /\ life' = [life EXCEPT ![server] = "closed"]
      /\ UNCHANGED <<server, lock, given, generator, cleared, registry, snapshot>>
  BY DEF CloseRegistered, Goto
<1>2. server \in Servers /\ lock = c  BY <1>1
<1>3. \A d \in Callers \ {c} : pc[d] \notin Locked  BY <1>2
<1>4. life'[server] = "closed"  BY <1>1, <1>2
<1>5. MinestomTypeOK' /\ LockHeld'  BY <1>1, <1>2, <1>3, <1>4
<1>6. MadeTracked'
  <2>1. \A m \in Made : m \in Servers  BY DEF Servers
  <2>2. \A m \in Made : life'[m] # "open"  BY <1>1, <1>2, <2>1
  <2>3. pc'[c] = "clear"  BY <1>1
  <2>4. QED BY <1>1, <1>4, <2>2, <2>3
<1>7. GettersServed' /\ BiomesGrow'  BY <1>1
<1>8. QED BY <1>5, <1>6, <1>7

LEMMA ClearStep ==
    ASSUME MinestomInv, NEW c \in Callers, Clear(c)
    PROVE  MinestomInv'
<1> USE DEF MinestomInv, MinestomTypeOK, LockHeld, MadeTracked, GettersServed, BiomesGrow,
            NoServerLost, GeneratorHasServer, Locked, Getting, biomeVars
<1>0. Null \notin Callers /\ Null \notin Servers  BY Distinct
<1>1. /\ pc[c] = "clear" /\ lock = c
      /\ pc' = [pc EXCEPT ![c] = After(given[c])]
      /\ server' = Null
      /\ cleared' = [d \in Callers |-> cleared[d] \/ pc[d] \in Getting]
      /\ UNCHANGED <<life, given, generator, registry, snapshot>>
  BY DEF Clear, Goto, Leave
<1>2. \/ After(given[c]) = "idle" /\ lock' = Null
      \/ After(given[c]) = "construct" /\ lock' = c
      \/ After(given[c]) = "assign" /\ given[c] \in Given /\ lock' = c
  <2>1. given[c] \in Given \cup {"make", "none"}  OBVIOUS
  <2>2. \/ given[c] = "none" /\ After(given[c]) = "idle"
        \/ given[c] = "make" /\ After(given[c]) = "construct"
        \/ given[c] \in Given /\ After(given[c]) = "assign"
    BY <2>1, Distinct DEF After
  <2>3. QED BY <1>1, <2>2 DEF Clear, Leave
<1>3. \A d \in Callers \ {c} : pc[d] \notin Locked  BY <1>1
<1>4. MinestomTypeOK'  BY <1>1, <1>2
<1>5. LockHeld'  BY <1>0, <1>1, <1>2, <1>3
<1>6. MadeTracked'
  <2>1. \A m \in Made : life[m] # "open"  BY <1>0, <1>1 DEF Servers
  <2>2. server' \notin Made  BY <1>0, <1>1 DEF Servers
  <2>3. QED BY <1>1, <2>1, <2>2
<1>7. GettersServed' /\ BiomesGrow'  BY <1>1, <1>2
<1>8. QED BY <1>4, <1>5, <1>6, <1>7

LEMMA SetServerStep ==
    ASSUME MinestomInv, NEW c \in Callers, SetServer(c)
    PROVE  MinestomInv'
<1> USE DEF MinestomInv, MinestomTypeOK, LockHeld, MadeTracked, GettersServed, BiomesGrow,
            NoServerLost, GeneratorHasServer, Locked, Getting, biomeVars
<1>0. Made \cap Given = {} /\ Null \notin Callers /\ Null \notin Servers  BY Distinct
<1>1. /\ pc[c] = "assign" /\ pc' = [pc EXCEPT ![c] = "idle"]
      /\ server' = given[c] /\ lock = c /\ lock' = Null
      /\ UNCHANGED <<life, given, generator, cleared, registry, snapshot>>
  BY DEF SetServer, Goto, Leave
<1>2. \A d \in Callers : pc'[d] \notin Locked  BY <1>1
<1>3. given[c] \in Given /\ server = Null /\ given[c] # Null  BY <1>0, <1>1 DEF Servers
<1>4. MinestomTypeOK'  BY <1>1, <1>3 DEF Servers
<1>5. LockHeld'  BY <1>0, <1>1, <1>2
<1>6. MadeTracked'  BY <1>0, <1>1, <1>3 DEF Servers
<1>7. GettersServed' /\ BiomesGrow'  BY <1>1, <1>3
<1>8. QED BY <1>4, <1>5, <1>6, <1>7

LEMMA OwnerStep ==
    ASSUME MinestomInv, NEW s \in Given, OwnerCloses(s)
    PROVE  MinestomInv'
<1> USE DEF MinestomInv, MinestomTypeOK, LockHeld, MadeTracked, GettersServed, BiomesGrow,
            NoServerLost, GeneratorHasServer, Locked, Getting, biomeVars
<1>1. /\ life' = [life EXCEPT ![s] = "closed"]
      /\ UNCHANGED <<server, lock, pc, given, generator, cleared, registry, snapshot>>
  BY DEF OwnerCloses, callerVars
<1>2. s \in Servers /\ s \notin Made  BY Distinct DEF Servers
<1>3. MinestomTypeOK'  BY <1>1, <1>2
<1>4. LockHeld'
  <2>1. \A d \in Callers : pc[d] = "clear" => server' = Null \/ life'[server] = "closed"
    BY <1>1
  <2>2. QED BY <1>1, <2>1
<1>5. MadeTracked' /\ GettersServed' /\ BiomesGrow'  BY <1>1, <1>2 DEF Servers
<1>6. QED BY <1>3, <1>4, <1>5

LEMMA GeneratorStep ==
    ASSUME MinestomInv,
           \/ \E c \in Callers : NewGenerator(c) \/ ReadServer(c) \/ Forget(c)
           \/ \E b \in Custom : RegisterBiome(b)
    PROVE  MinestomInv'
<1> USE DEF MinestomInv, MinestomTypeOK, LockHeld, MadeTracked, GettersServed, BiomesGrow,
            NoServerLost, GeneratorHasServer, Locked, Getting, serverVars, biomeVars,
            callerVars
<1>1. ASSUME NEW c \in Callers, NewGenerator(c) PROVE MinestomInv'
  <2>1. /\ pc[c] = "new" /\ pc' = [pc EXCEPT ![c] = "read"]
        /\ snapshot' = registry \/ (snapshot # {} /\ snapshot' = snapshot)
        /\ UNCHANGED <<server, lock, life, given, generator, cleared, registry>>
    BY <1>1 DEF NewGenerator, Goto
  <2>2. MinestomTypeOK' /\ BiomesGrow'  BY <2>1
  <2>3. LockHeld' /\ MadeTracked' /\ GettersServed'  BY <2>1
  <2>4. QED BY <2>2, <2>3
<1>2. ASSUME NEW c \in Callers, ReadServer(c) PROVE MinestomInv'
  <2>1. /\ pc[c] = "read" /\ pc' = [pc EXCEPT ![c] = "holding"]
        /\ generator' = [generator EXCEPT ![c] = server]
        /\ UNCHANGED <<server, lock, life, given, cleared, registry, snapshot>>
    BY <1>2 DEF ReadServer, Goto
  <2>2. QED BY <2>1
<1>3. ASSUME NEW c \in Callers, Forget(c) PROVE MinestomInv'
  <2>1. /\ pc[c] = "holding" /\ pc' = [pc EXCEPT ![c] = "idle"]
        /\ generator' = [generator EXCEPT ![c] = Null]
        /\ UNCHANGED <<server, lock, life, given, cleared, registry, snapshot>>
    BY <1>3 DEF Forget, Goto
  <2>2. QED BY <2>1
<1>4. ASSUME NEW b \in Custom, RegisterBiome(b) PROVE MinestomInv'
  <2>1. /\ registry' = registry \cup {b}
        /\ UNCHANGED <<server, lock, life, pc, given, generator, cleared, snapshot>>
    BY <1>4 DEF RegisterBiome
  <2>2. QED BY <2>1
<1>5. QED BY <1>1, <1>2, <1>3, <1>4

LEMMA MinestomInvariant == MinestomSpec => []MinestomInv
<1>1. MinestomInit => MinestomInv
  <2> SUFFICES ASSUME MinestomInit PROVE MinestomInv  OBVIOUS
  <2>1. MinestomTypeOK  BY DEF MinestomInit, MinestomTypeOK
  <2>2. LockHeld  BY Distinct DEF MinestomInit, LockHeld, Locked
  <2>3. MadeTracked
    BY Distinct DEF MinestomInit, MadeTracked, NoServerLost, Servers
  <2>4. GettersServed /\ BiomesGrow
    BY DEF MinestomInit, GettersServed, Getting, GeneratorHasServer, BiomesGrow
  <2>5. QED BY <2>1, <2>2, <2>3, <2>4 DEF MinestomInv
<1>2. MinestomInv /\ [MinestomNext]_minestomVars => MinestomInv'
  <2> SUFFICES ASSUME MinestomInv, [MinestomNext]_minestomVars PROVE MinestomInv'  OBVIOUS
  <2>1. CASE UNCHANGED minestomVars
    BY <2>1 DEF minestomVars, serverVars, callerVars, biomeVars, MinestomInv,
                MinestomTypeOK, LockHeld, MadeTracked, GettersServed, BiomesGrow,
                NoServerLost, GeneratorHasServer
  <2>2. QED
    BY <2>1, QuietStep, ConstructorStep, ReplaceStep, CloseRegisteredStep, ClearStep,
       SetServerStep, OwnerStep, GeneratorStep
       DEF MinestomNext, CallerStep
<1>3. QED BY <1>1, <1>2, PTL DEF MinestomSpec

----------------------------------------------------------------------------

\* SteelWorldGenProvider.java:7-8 and SteelWorldGenerator.java:27-39: the types
\* of the state of provider and generators.
THEOREM MinestomTypeCorrect == MinestomSpec => []MinestomTypeOK
<1>1. MinestomInv => MinestomTypeOK  BY DEF MinestomInv
<1>2. QED BY <1>1, MinestomInvariant, PTL

\* SteelWorldGenProvider.java:10-72: however calls interleave, a server the
\* provider made is the registered one until it is closed.
THEOREM NoServerIsLost == MinestomSpec => []NoServerLost
<1>1. MinestomInv => NoServerLost  BY DEF MinestomInv, MadeTracked
<1>2. QED BY <1>1, MinestomInvariant, PTL

\* SteelWorldGenProvider.java:22-47: outside the lock, a registered server that
\* the provider made is open.
THEOREM RegisteredAreOpen == MinestomSpec => []MadeAreOpen
<1>1. MinestomInv => MadeAreOpen
  <2> SUFFICES ASSUME MinestomInv, server \in Made, lock = Null
               PROVE  life[server] = "open"
    BY DEF MadeAreOpen
  <2>1. \A c \in Callers : pc[c] # "clear"
    BY Distinct DEF MinestomInv, LockHeld, Locked
  <2>2. QED BY <2>1 DEF MinestomInv, MadeTracked
<1>2. QED BY <1>1, MinestomInvariant, PTL

\* SteelWorldGenProvider.java:60-63: a generator is without a server only if a
\* close came between startServer and the read.
THEOREM GeneratorsHaveServers == MinestomSpec => []GeneratorHasServer
<1>1. MinestomInv => GeneratorHasServer  BY DEF MinestomInv, GettersServed
<1>2. QED BY <1>1, MinestomInvariant, PTL

\* SteelWorldGenerator.java:42-62: whatever is registered, and whenever the
\* class is initialized, it shows exactly the biomes of lower keys than every
\* custom one that was there.
THEOREM BiomesAreShown == MinestomSpec => []BiomesShown
<1>1. MinestomInv => BiomesShown
  <2> SUFFICES ASSUME MinestomInv, snapshot # {}, NEW k \in From.biomes
               PROVE  ClientBiome(snapshot, BiomeTranslation(From, To)[Rank(From.biomes, k)]) = k
                        <=> ~ \E f \in snapshot \cap Custom : f < k
    BY DEF BiomesShown
  <2>1. /\ From \in DataVersion /\ To \in DataVersion /\ BiomesBuild(From, To)
        /\ BiomesFit(To)
        /\ Custom \subseteq Nat /\ IsFiniteSet(Custom) /\ Custom \cap To.biomes = {}
    BY MinestomAssumption
  <2>2. /\ To.biomes \subseteq snapshot /\ snapshot \subseteq To.biomes \cup Custom
    BY DEF MinestomInv, MinestomTypeOK, BiomesGrow
  <2>3. To.biomes \subseteq Nat /\ IsFiniteSet(To.biomes)  BY <2>1, VersionFinite
  <2>4. snapshot \in SUBSET Nat /\ IsFiniteSet(snapshot)
    <3>1. IsFiniteSet(To.biomes \cup Custom)  BY <2>1, <2>3, FS_Union
    <3>2. IsFiniteSet(snapshot)  BY <2>2, <3>1, FS_Subset
    <3>3. QED BY <2>1, <2>2, <2>3, <3>2
  <2>5. snapshot \ To.biomes = snapshot \cap Custom  BY <2>1, <2>2
  <2>6. QED BY <2>1, <2>2, <2>4, <2>5, BiomeShown
<1>2. QED BY <1>1, MinestomInvariant, PTL
=============================================================================
