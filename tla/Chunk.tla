-------------------------------- MODULE Chunk --------------------------------
(***************************************************************************)
(* The storage of one chunk (internal/world/types.go) and the flat world   *)
(* generator that fills it (internal/world/flat.go).                       *)
(*                                                                         *)
(* A chunk is cut into sub-chunks from the bottom of the dimension, which  *)
(* may lie below zero, to its top.  A sub-chunk keeps only the blocks that *)
(* are not air, in a map per layer that is made with the first block and   *)
(* dropped with the last, and the chunk keeps only the biomes that are not *)
(* the default one.  Two history variables keep the plain arrays that      *)
(* these maps stand for.                                                   *)
(***************************************************************************)
EXTENDS Integers, Sequences

CONSTANTS
    Width,         \* blocks along an edge of a sub-chunk (16)
    MinY, MaxY,    \* Dimension.minY and maxY
    Layers,        \* block layers in use: bytes, and one more is counted in a byte
    BlockIDs,      \* block runtime IDs in use
    Air,           \* the runtime ID of air
    BiomeIDs,      \* biome IDs in use
    BaseY,         \* FlatGenerator.BaseY
    FlatLayers,    \* FlatGenerator.Layers: runtime IDs upwards from BaseY
    FlatBiome,     \* FlatGenerator.BiomeData.ID
    MaxEdits       \* bound of the model: changes to a chunk after its creation

ASSUME ChunkAssumption ==
    /\ Width \in Nat \ {0}
    /\ MinY \in Int /\ MaxY \in Int /\ MinY < MaxY
    /\ Layers \subseteq 0..254 /\ 0 \in Layers
    /\ Air \in BlockIDs
    /\ BaseY \in Int
    /\ FlatLayers \in Seq(BlockIDs)
    /\ 0 \in BiomeIDs /\ FlatBiome \in BiomeIDs
    /\ MaxEdits \in Nat

\* Mutant: the division of the language, which rounds towards zero.
truncDiv16(value) == IF value >= 0 THEN value \div Width ELSE -((-value) \div Width)

floorDiv16(value) ==
    IF value >= 0 THEN value \div Width ELSE -((-value + Width - 1) \div Width)

MinSubY == floorDiv16(MinY)
MaxSubY == floorDiv16(MaxY)
SubIndices == 0..(MaxSubY - MinSubY)
SubIndex(y) == floorDiv16(y) - MinSubY
SubY(index) == (MinSubY + index) * Width

blockOffset(x, y, z) == <<x, z, y % Width>>

Side == 0..(Width - 1)
Heights == MinY..MaxY
Cells == Side \X Heights \X Side
Offsets == Side \X Side \X Side

\* checkBlockPosition, and the test that RuntimeID and BiomeID start with.
inRange(x, y, z) == x \in Side /\ z \in Side /\ y \in Heights

VARIABLES
    phase,           \* "generating", "ready", or "failed": no chunk came of it
    column,          \* the next block of the generator's loops
    subChunks,       \* index |-> layer |-> offset |-> runtime ID, all partial
    defaultBiomeID,
    biomeOverrides,  \* <<index, offset>> |-> biome ID, partial
    edits,           \* counts the changes, for the bound
    blocks,          \* history: the block last set, per layer and cell
    biomes           \* history: the biome last set, per cell

chunkVars == <<phase, column, subChunks, defaultBiomeID, biomeOverrides, edits,
               blocks, biomes>>

NoMap == [k \in {} |-> Air]
Put(map, key, value) == [k \in DOMAIN map \cup {key} |-> IF k = key THEN value ELSE map[k]]
Delete(map, key) == [k \in DOMAIN map \ {key} |-> map[k]]

\* NewChunk, for a caller of its own or for FlatGenerator.Chunk, which goes on
\* with FillBiomeID.
ChunkInit ==
    /\ phase \in {"generating", "ready"}
    /\ column = 0
    /\ subChunks = [i \in SubIndices |-> NoMap]
    /\ defaultBiomeID = IF phase = "generating" THEN FlatBiome ELSE 0
    /\ biomeOverrides = NoMap
    /\ edits = 0
    /\ blocks = [l \in Layers |-> [c \in Cells |-> Air]]
    /\ biomes = [c \in Cells |-> defaultBiomeID]

-----------------------------------------------------------------------------
(* Changing a chunk *)

\* Mutant: a layer stays when its last block goes.
deleteKeepsLayer(layers, layer, offset) ==
    IF layer \notin DOMAIN layers THEN layers
    ELSE Put(layers, layer, Delete(layers[layer], offset))

deleteRuntimeID(layers, layer, offset) ==
    IF layer \notin DOMAIN layers THEN layers
    ELSE LET kept == Delete(layers[layer], offset)
         IN IF DOMAIN kept = {} THEN Delete(layers, layer) ELSE Put(layers, layer, kept)

putRuntimeID(layers, layer, offset, id) ==
    Put(layers, layer, Put(IF layer \in DOMAIN layers THEN layers[layer] ELSE NoMap, offset, id))

\* SetRuntimeID for a position in range; any other is an error.
storeBlock(x, y, z, layer, id) ==
    /\ LET offset == blockOffset(x, y, z)
       IN subChunks' = [subChunks EXCEPT ![SubIndex(y)] =
                          IF id = Air THEN deleteRuntimeID(@, layer, offset)
                                      ELSE putRuntimeID(@, layer, offset, id)]
    /\ blocks' = [blocks EXCEPT ![layer] = [@ EXCEPT ![<<x, y, z>>] = id]]

edit == phase = "ready" /\ edits < MaxEdits /\ edits' = edits + 1

SetRuntimeID(x, y, z, layer, id) ==
    /\ edit
    /\ IF inRange(x, y, z) THEN storeBlock(x, y, z, layer, id)
                           ELSE UNCHANGED <<subChunks, blocks>>
    /\ UNCHANGED <<phase, column, defaultBiomeID, biomeOverrides, biomes>>

FillBiomeID(id) ==
    /\ edit
    /\ defaultBiomeID' = id
    /\ biomeOverrides' = NoMap
    /\ biomes' = [c \in Cells |-> id]
    /\ UNCHANGED <<phase, column, subChunks, blocks>>

biomeOffset(x, y, z) == <<SubIndex(y), blockOffset(x, y, z)>>

SetBiomeID(x, y, z, id) ==
    /\ edit
    /\ IF inRange(x, y, z)
       THEN /\ biomeOverrides' = IF id = defaultBiomeID
                                 THEN Delete(biomeOverrides, biomeOffset(x, y, z))
                                 ELSE Put(biomeOverrides, biomeOffset(x, y, z), id)
            /\ biomes' = [biomes EXCEPT ![<<x, y, z>>] = id]
       ELSE UNCHANGED <<biomeOverrides, biomes>>
    /\ UNCHANGED <<phase, column, subChunks, defaultBiomeID, blocks>>

\* The loops of FlatGenerator.Chunk: over x, over z, over the layers.
generateBlock ==
    LET n == Len(FlatLayers)
        x == column \div (Width * n)
        z == (column \div n) % Width
        y == BaseY + (column % n)
    IN  /\ phase = "generating" /\ column < Width * Width * n
        /\ IF inRange(x, y, z)
           THEN /\ storeBlock(x, y, z, 0, FlatLayers[(column % n) + 1])
                /\ column' = column + 1
                /\ UNCHANGED phase
           ELSE phase' = "failed" /\ UNCHANGED <<column, subChunks, blocks>>
        /\ UNCHANGED <<defaultBiomeID, biomeOverrides, edits, biomes>>

generated ==
    /\ phase = "generating" /\ column = Width * Width * Len(FlatLayers)
    /\ phase' = "ready"
    /\ UNCHANGED <<column, subChunks, defaultBiomeID, biomeOverrides, edits, blocks, biomes>>

\* The context is looked at before each column.
generationCancelled ==
    /\ phase = "generating" /\ column < Width * Width * Len(FlatLayers)
    /\ column % Len(FlatLayers) = 0
    /\ phase' = "failed"
    /\ UNCHANGED <<column, subChunks, defaultBiomeID, biomeOverrides, edits, blocks, biomes>>

ChunkNext ==
    \/ generateBlock \/ generated \/ generationCancelled
    \/ \E x, z \in 0..Width, y \in (MinY - 1)..(MaxY + 1), l \in Layers, id \in BlockIDs :
          SetRuntimeID(x, y, z, l, id)
    \/ \E id \in BiomeIDs : FillBiomeID(id)
    \/ \E x, z \in 0..Width, y \in (MinY - 1)..(MaxY + 1), id \in BiomeIDs :
          SetBiomeID(x, y, z, id)

ChunkSpec == ChunkInit /\ [][ChunkNext]_chunkVars

-----------------------------------------------------------------------------
(* Reading a chunk *)

\* A lookup in the two nested maps.
storedAt(layers, layer, offset) ==
    IF layer \in DOMAIN layers /\ offset \in DOMAIN layers[layer]
    THEN layers[layer][offset] ELSE Air

RuntimeID(x, y, z, layer) ==
    IF inRange(x, y, z) THEN storedAt(subChunks[SubIndex(y)], layer, blockOffset(x, y, z)) ELSE Air

BiomeID(x, y, z) ==
    IF inRange(x, y, z) /\ biomeOffset(x, y, z) \in DOMAIN biomeOverrides
    THEN biomeOverrides[biomeOffset(x, y, z)] ELSE defaultBiomeID

\* subChunk.empty: layers that are there have blocks.
SubChunkEmpty(index) ==
    \A l \in DOMAIN subChunks[index] : DOMAIN subChunks[index][l] = {}

-----------------------------------------------------------------------------
(* Properties *)

LayersOK(layers) ==
    /\ DOMAIN layers \subseteq Layers
    /\ \A l \in DOMAIN layers :
          /\ DOMAIN layers[l] \subseteq Offsets
          /\ \A o \in DOMAIN layers[l] : layers[l][o] \in BlockIDs

\* Every variable has its type.
ChunkTypeOK ==
    /\ phase \in {"generating", "ready", "failed"}
    /\ column \in Nat
    /\ DOMAIN subChunks = SubIndices
    /\ \A i \in SubIndices : LayersOK(subChunks[i])
    /\ defaultBiomeID \in BiomeIDs
    /\ DOMAIN biomeOverrides \subseteq SubIndices \X Offsets
    /\ \A k \in DOMAIN biomeOverrides : biomeOverrides[k] \in BiomeIDs
    /\ edits \in 0..MaxEdits
    /\ blocks \in [Layers -> [Cells -> BlockIDs]]
    /\ biomes \in [Cells -> BiomeIDs]

BlocksExact ==
    \A c \in Cells, l \in Layers : RuntimeID(c[1], c[2], c[3], l) = blocks[l][c]
BiomesExact ==
    \A c \in Cells : BiomeID(c[1], c[2], c[3]) = biomes[c]

\* The maps lose nothing: SetRuntimeID, FillBiomeID and SetBiomeID in any order,
\* below and above zero, leave RuntimeID and BiomeID returning for every cell
\* what was last set for it, and for no cell what was set for another.
StorageExact == BlocksExact /\ BiomesExact

NoAirIn(layers) ==
    \A l \in DOMAIN layers :
        /\ DOMAIN layers[l] # {}
        /\ \A o \in DOMAIN layers[l] : layers[l][o] # Air

\* Nothing is kept for air, and no layer without blocks: SubChunkEmpty and the
\* layer count tell what the cells hold however they came to hold it.
NothingKeptForAir == \A i \in SubIndices : NoAirIn(subChunks[i])
=============================================================================
