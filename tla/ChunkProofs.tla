----------------------------- MODULE ChunkProofs -----------------------------
(***************************************************************************)
(* Proofs about Chunk and ChunkPublisher: for every width of a sub-chunk,  *)
(* every dimension and every sequence of changes the maps hold exactly what*)
(* was set, and the packets made of them tell it.                          *)
(***************************************************************************)
EXTENDS ChunkPublisher, FoldProofs, SequenceTheorems

\* A cell is named by the index of its sub-chunk and its offset there: what
\* floorDiv16 rounds away below and above zero is what y % Width keeps.
LEMMA DivMod ==
    ASSUME NEW v \in Int
    PROVE  /\ v \div Width \in Int
           /\ v % Width \in Side
           /\ v = Width * (v \div Width) + (v % Width)
  BY ChunkAssumption, Z3 DEF Side

\* floorDiv16 of types.go rounds down.
LEMMA FloorDiv ==
    ASSUME NEW v \in Int
    PROVE  floorDiv16(v) = v \div Width
<1>1. CASE v >= 0
  BY <1>1 DEF floorDiv16
<1>2. CASE v < 0
  <2> DEFINE q == v \div Width
             r == v % Width
             p == (-v + Width - 1) \div Width
             s == (-v + Width - 1) % Width
  <2>1. q \in Int /\ r \in 0..(Width - 1) /\ v = Width * q + r
    BY DivMod DEF Side
  <2>2. -v + Width - 1 \in Int
    BY ChunkAssumption
  <2>3. p \in Int /\ s \in 0..(Width - 1) /\ -v + Width - 1 = Width * p + s
    BY <2>2, DivMod DEF Side
  <2> HIDE DEF q, r, p, s
  <2>w. Width \in Nat \ {0}
    BY ChunkAssumption
  <2>4. Width * (p + q) = Width - 1 - r - s
    <3>1. Width * (p + q) = Width * p + Width * q
      BY <2>1, <2>3, <2>w, Z3
    <3>2. Width * p \in Int /\ Width * q \in Int
      BY <2>1, <2>3, <2>w
    <3> QED
      BY <2>1, <2>3, <2>w, <3>1, <3>2
  <2>5. p + q < 1
    <3> SUFFICES ASSUME p + q >= 1 PROVE FALSE
      BY <2>1, <2>3
    <3>1. Width * (p + q) >= Width
      BY <2>1, <2>3, <2>w, Z3
    <3> QED
      BY <2>1, <2>3, <2>4, <2>w, <3>1
  <2>6. p + q > -1
    <3> SUFFICES ASSUME p + q <= -1 PROVE FALSE
      BY <2>1, <2>3
    <3>1. Width * (p + q) <= -Width
      BY <2>1, <2>3, <2>w, Z3
    <3> QED
      BY <2>1, <2>3, <2>4, <2>w, <3>1
  <2>7. q = -p
    BY <2>1, <2>3, <2>5, <2>6
  <2> QED
    BY <1>2, <2>7 DEF floorDiv16, p, q
<1> QED
  BY <1>1, <1>2

\* The sub-chunk of a cell is one of the chunk's, its offset one of the sub-chunk.
LEMMA CellTypes ==
    ASSUME NEW x \in Side, NEW y \in Heights, NEW z \in Side
    PROVE  SubIndex(y) \in SubIndices /\ blockOffset(x, y, z) \in Offsets
<1>1. y \in Int /\ MinY <= y /\ y <= MaxY
  BY ChunkAssumption DEF Heights
<1>2. MinY \div Width <= y \div Width
  <2>1. MinY \div Width \in Int /\ MinY % Width \in 0..(Width - 1)
        /\ MinY = Width * (MinY \div Width) + (MinY % Width)
    BY DivMod, ChunkAssumption DEF Side
  <2>2. y \div Width \in Int /\ y % Width \in 0..(Width - 1)
        /\ y = Width * (y \div Width) + (y % Width)
    BY DivMod, <1>1 DEF Side
  <2> QED
    BY <2>1, <2>2, <1>1, ChunkAssumption, Z3
<1>3. y \div Width <= MaxY \div Width
  <2>1. MaxY \div Width \in Int /\ MaxY % Width \in 0..(Width - 1)
        /\ MaxY = Width * (MaxY \div Width) + (MaxY % Width)
    BY DivMod, ChunkAssumption DEF Side
  <2>2. y \div Width \in Int /\ y % Width \in 0..(Width - 1)
        /\ y = Width * (y \div Width) + (y % Width)
    BY DivMod, <1>1 DEF Side
  <2> QED
    BY <2>1, <2>2, <1>1, ChunkAssumption, Z3
<1>4. y \div Width \in Int /\ MinY \div Width \in Int /\ MaxY \div Width \in Int
  BY DivMod, <1>1, ChunkAssumption
<1>5. SubIndex(y) \in SubIndices
  <2>1. floorDiv16(y) = y \div Width
    BY <1>1, FloorDiv
  <2>2. MinSubY = MinY \div Width /\ MaxSubY = MaxY \div Width
    BY FloorDiv, ChunkAssumption DEF MinSubY, MaxSubY
  <2> QED
    BY <1>2, <1>3, <1>4, <2>1, <2>2 DEF SubIndex, SubIndices
<1>6. y % Width \in Side
  BY DivMod, <1>1
<1> QED
  BY <1>5, <1>6 DEF blockOffset, Offsets

\* Two cells of one sub-chunk with the same offset are the same cell.
LEMMA CellsApart ==
    ASSUME NEW x \in Side, NEW y \in Heights, NEW z \in Side,
           NEW u \in Side, NEW v \in Heights, NEW w \in Side,
           SubIndex(y) = SubIndex(v), blockOffset(x, y, z) = blockOffset(u, v, w)
    PROVE  x = u /\ y = v /\ z = w
<1>1. y \in Int /\ v \in Int
  BY ChunkAssumption DEF Heights
<1>2. x = u /\ z = w /\ y % Width = v % Width
  BY DEF blockOffset
<1>3. y \div Width \in Int /\ v \div Width \in Int /\ MinY \div Width \in Int
  BY <1>1, DivMod, ChunkAssumption
<1>4. y \div Width = v \div Width
  <2>1. floorDiv16(y) = y \div Width /\ floorDiv16(v) = v \div Width
    BY <1>1, FloorDiv
  <2>2. MinSubY = MinY \div Width
    BY FloorDiv, ChunkAssumption DEF MinSubY
  <2> QED
    BY <1>3, <2>1, <2>2 DEF SubIndex
<1>5. y = v
  BY <1>1, <1>2, <1>4, DivMod
<1> QED
  BY <1>2, <1>5

-----------------------------------------------------------------------------
(* The nested maps of a sub-chunk *)

\* putRuntimeID changes what is stored at one offset of one layer.
LEMMA PutLayer ==
    ASSUME NEW layers, LayersOK(layers), NoAirIn(layers),
           NEW layer \in Layers, NEW offset \in Offsets, NEW id \in BlockIDs, id # Air
    PROVE  LET new == putRuntimeID(layers, layer, offset, id)
           IN /\ LayersOK(new) /\ NoAirIn(new)
              /\ \A l \in Layers, o \in Offsets :
                    storedAt(new, l, o) = IF l = layer /\ o = offset THEN id
                                          ELSE storedAt(layers, l, o)
<1> DEFINE old == IF layer \in DOMAIN layers THEN layers[layer] ELSE NoMap
           map == Put(old, offset, id)
           new == Put(layers, layer, map)
<1>1. DOMAIN new = DOMAIN layers \cup {layer} /\ new[layer] = map
      /\ \A l \in DOMAIN layers : l # layer => new[l] = layers[l]
  BY DEF Put
<1>2. DOMAIN map = DOMAIN old \cup {offset} /\ map[offset] = id
      /\ \A o \in DOMAIN old : o # offset => map[o] = old[o]
  BY DEF Put
<1>3. DOMAIN NoMap = {}
  BY DEF NoMap
<1>4. /\ DOMAIN old \subseteq Offsets
      /\ \A o \in DOMAIN old : old[o] \in BlockIDs /\ old[o] # Air
  BY <1>3 DEF LayersOK, NoAirIn
<1> HIDE DEF map, new
<1>5. LayersOK(new)
  BY <1>1, <1>2, <1>4 DEF LayersOK
<1>6. NoAirIn(new)
  BY <1>1, <1>2, <1>4 DEF NoAirIn
<1>7. ASSUME NEW l \in Layers, NEW o \in Offsets
      PROVE  storedAt(new, l, o) = IF l = layer /\ o = offset THEN id ELSE storedAt(layers, l, o)
  <2>1. CASE l # layer
    BY <2>1, <1>1 DEF storedAt
  <2>2. CASE l = layer /\ o = offset
    BY <2>2, <1>1, <1>2 DEF storedAt
  <2>3. CASE l = layer /\ o # offset
    BY <2>3, <1>1, <1>2, <1>3 DEF storedAt
  <2> QED
    BY <2>1, <2>2, <2>3
<1> QED
  BY <1>5, <1>6, <1>7 DEF new, map, putRuntimeID

\* deleteRuntimeID likewise, with the layer that it may drop.
LEMMA DeleteLayer ==
    ASSUME NEW layers, LayersOK(layers), NoAirIn(layers),
           NEW layer \in Layers, NEW offset \in Offsets
    PROVE  LET new == deleteRuntimeID(layers, layer, offset)
           IN /\ LayersOK(new) /\ NoAirIn(new)
              /\ \A l \in Layers, o \in Offsets :
                    storedAt(new, l, o) = IF l = layer /\ o = offset THEN Air
                                          ELSE storedAt(layers, l, o)
<1> DEFINE new == deleteRuntimeID(layers, layer, offset)
           kept == Delete(layers[layer], offset)
<1>0. DOMAIN kept = DOMAIN layers[layer] \ {offset}
      /\ \A o \in DOMAIN kept : kept[o] = layers[layer][o]
  BY DEF Delete
<1> HIDE DEF kept
<1>1. CASE layer \notin DOMAIN layers
  <2>1. new = layers
    BY <1>1 DEF deleteRuntimeID
  <2> QED
    BY <1>1, <2>1 DEF storedAt
<1>2. CASE layer \in DOMAIN layers /\ DOMAIN kept = {}
  <2>1. new = Delete(layers, layer)
    BY <1>2 DEF deleteRuntimeID, kept
  <2>2. DOMAIN new = DOMAIN layers \ {layer} /\ \A l \in DOMAIN new : new[l] = layers[l]
    BY <2>1 DEF Delete
  <2> HIDE DEF new
  <2>3. LayersOK(new) /\ NoAirIn(new)
    BY <2>2 DEF LayersOK, NoAirIn
  <2>4. ASSUME NEW l \in Layers, NEW o \in Offsets
        PROVE  storedAt(new, l, o) = IF l = layer /\ o = offset THEN Air ELSE storedAt(layers, l, o)
    BY <1>0, <1>2, <2>2 DEF storedAt
  <2> QED
    BY <2>3, <2>4 DEF new
<1>3. CASE layer \in DOMAIN layers /\ DOMAIN kept # {}
  <2>1. new = Put(layers, layer, kept)
    BY <1>3 DEF deleteRuntimeID, kept
  <2>2. DOMAIN new = DOMAIN layers /\ new[layer] = kept
        /\ \A l \in DOMAIN layers : l # layer => new[l] = layers[l]
    BY <2>1, <1>3 DEF Put
  <2> HIDE DEF new
  <2>3. LayersOK(new) /\ NoAirIn(new)
    BY <1>0, <1>3, <2>2 DEF LayersOK, NoAirIn
  <2>4. ASSUME NEW l \in Layers, NEW o \in Offsets
        PROVE  storedAt(new, l, o) = IF l = layer /\ o = offset THEN Air ELSE storedAt(layers, l, o)
    BY <1>0, <1>3, <2>2 DEF storedAt
  <2> QED
    BY <2>3, <2>4 DEF new
<1> QED
  BY <1>1, <1>2, <1>3

-----------------------------------------------------------------------------
(* The chunk *)

BlocksOK ==
    /\ DOMAIN subChunks = SubIndices
    /\ \A i \in SubIndices : LayersOK(subChunks[i])
    /\ blocks \in [Layers -> [Cells -> BlockIDs]]

BiomesOK ==
    /\ defaultBiomeID \in BiomeIDs
    /\ DOMAIN biomeOverrides \subseteq SubIndices \X Offsets
    /\ \A k \in DOMAIN biomeOverrides : biomeOverrides[k] \in BiomeIDs
    /\ biomes \in [Cells -> BiomeIDs]

\* SetRuntimeID, and each block that the generator sets.
LEMMA StoreBlock ==
    ASSUME BlocksOK, BlocksExact, NothingKeptForAir,
           NEW x \in Side, NEW y \in Heights, NEW z \in Side,
           NEW layer \in Layers, NEW id \in BlockIDs,
           storeBlock(x, y, z, layer, id)
    PROVE  BlocksOK' /\ BlocksExact' /\ NothingKeptForAir'
<1> DEFINE index == SubIndex(y)
           offset == blockOffset(x, y, z)
           new == IF id = Air THEN deleteRuntimeID(subChunks[index], layer, offset)
                              ELSE putRuntimeID(subChunks[index], layer, offset, id)
<1>1. index \in SubIndices /\ offset \in Offsets
  BY CellTypes
<1>2. /\ LayersOK(new) /\ NoAirIn(new)
      /\ \A l \in Layers, o \in Offsets :
            storedAt(new, l, o) = IF l = layer /\ o = offset THEN id
                                  ELSE storedAt(subChunks[index], l, o)
  <2>1. LayersOK(subChunks[index]) /\ NoAirIn(subChunks[index])
    BY <1>1 DEF BlocksOK, NothingKeptForAir
  <2> HIDE DEF index, offset
  <2>2. CASE id = Air
    BY <1>1, <2>1, <2>2, DeleteLayer
  <2>3. CASE id # Air
    BY <1>1, <2>1, <2>3, PutLayer
  <2> QED
    BY <2>2, <2>3
<1>3. /\ DOMAIN subChunks' = SubIndices
      /\ subChunks'[index] = new
      /\ \A i \in SubIndices : i # index => subChunks'[i] = subChunks[i]
  BY <1>1 DEF storeBlock, BlocksOK
<1>4. <<x, y, z>> \in Cells
  BY DEF Cells
<1>5. /\ blocks' \in [Layers -> [Cells -> BlockIDs]]
      /\ \A l \in Layers, c \in Cells :
            blocks'[l][c] = IF l = layer /\ c = <<x, y, z>> THEN id ELSE blocks[l][c]
  BY <1>4 DEF storeBlock, BlocksOK
<1> HIDE DEF index, offset, new
<1>6. BlocksOK'
  BY <1>1, <1>2, <1>3, <1>5 DEF BlocksOK
<1>7. NothingKeptForAir'
  BY <1>1, <1>2, <1>3 DEF NothingKeptForAir
<1>8. ASSUME NEW c \in Cells, NEW l \in Layers
      PROVE  RuntimeID(c[1], c[2], c[3], l)' = blocks'[l][c]
  <2> DEFINE u == c[1]
             v == c[2]
             w == c[3]
  <2>1. u \in Side /\ v \in Heights /\ w \in Side /\ c = <<u, v, w>>
    BY DEF Cells
  <2>2. SubIndex(v) \in SubIndices /\ blockOffset(u, v, w) \in Offsets
    BY <2>1, CellTypes
  <2>3. inRange(u, v, w)
    BY <2>1 DEF inRange
  <2>4. /\ RuntimeID(u, v, w, l)' = storedAt(subChunks'[SubIndex(v)], l, blockOffset(u, v, w))
        /\ RuntimeID(u, v, w, l) = storedAt(subChunks[SubIndex(v)], l, blockOffset(u, v, w))
    BY <2>3 DEF RuntimeID, storedAt
  <2>5. storedAt(subChunks[SubIndex(v)], l, blockOffset(u, v, w)) = blocks[l][c]
    BY <2>4 DEF BlocksExact
  <2> HIDE DEF u, v, w
  <2>6. CASE SubIndex(v) # index
    <3>1. c # <<x, y, z>>
      BY <2>1, <2>6 DEF index
    <3> QED
      BY <2>2, <2>4, <2>5, <2>6, <3>1, <1>3, <1>5 DEF u, v, w
  <2>7. CASE SubIndex(v) = index /\ blockOffset(u, v, w) # offset
    <3>1. c # <<x, y, z>>
      BY <2>1, <2>7 DEF offset
    <3>2. storedAt(new, l, blockOffset(u, v, w)) = blocks[l][c]
      BY <1>2, <2>2, <2>5, <2>7
    <3> QED
      BY <2>4, <2>7, <3>1, <3>2, <1>3, <1>5 DEF u, v, w
  <2>8. CASE SubIndex(v) = index /\ blockOffset(u, v, w) = offset
    <3>1. c = <<x, y, z>>
      BY <2>1, <2>8, CellsApart DEF index, offset
    <3>2. storedAt(new, l, offset) = IF l = layer THEN id ELSE blocks[l][c]
      BY <1>1, <1>2, <2>5, <2>8
    <3> QED
      BY <2>4, <2>8, <3>1, <3>2, <1>3, <1>5 DEF u, v, w
  <2> QED
    BY <2>6, <2>7, <2>8
<1> QED
  BY <1>6, <1>7, <1>8 DEF BlocksExact

\* SetBiomeID changes what BiomeID returns for one cell.
LEMMA StoreBiome ==
    ASSUME BiomesOK, BiomesExact,
           NEW x \in Side, NEW y \in Heights, NEW z \in Side, NEW id \in BiomeIDs,
           biomeOverrides' = IF id = defaultBiomeID
                             THEN Delete(biomeOverrides, biomeOffset(x, y, z))
                             ELSE Put(biomeOverrides, biomeOffset(x, y, z), id),
           biomes' = [biomes EXCEPT ![<<x, y, z>>] = id],
           UNCHANGED defaultBiomeID
    PROVE  BiomesOK' /\ BiomesExact'
<1> DEFINE key == biomeOffset(x, y, z)
<1>1. key \in SubIndices \X Offsets
  BY CellTypes DEF biomeOffset
<1>2. /\ DOMAIN biomeOverrides' = IF id = defaultBiomeID THEN DOMAIN biomeOverrides \ {key}
                                  ELSE DOMAIN biomeOverrides \cup {key}
      /\ \A k \in DOMAIN biomeOverrides' :
            biomeOverrides'[k] = IF k = key THEN id ELSE biomeOverrides[k]
  <2>1. CASE id = defaultBiomeID
    BY <2>1 DEF Delete
  <2>2. CASE id # defaultBiomeID
    BY <2>2 DEF Put
  <2> QED
    BY <2>1, <2>2
<1>3. <<x, y, z>> \in Cells
  BY DEF Cells
<1>4. /\ biomes' \in [Cells -> BiomeIDs]
      /\ \A c \in Cells : biomes'[c] = IF c = <<x, y, z>> THEN id ELSE biomes[c]
  BY <1>3 DEF BiomesOK
<1> HIDE DEF key
<1>5. BiomesOK'
  BY <1>1, <1>2, <1>4 DEF BiomesOK
<1>6. ASSUME NEW c \in Cells
      PROVE  BiomeID(c[1], c[2], c[3])' = biomes'[c]
  <2> DEFINE u == c[1]
             v == c[2]
             w == c[3]
             other == biomeOffset(u, v, w)
  <2>1. u \in Side /\ v \in Heights /\ w \in Side /\ c = <<u, v, w>>
    BY DEF Cells
  <2>2. inRange(u, v, w)
    BY <2>1 DEF inRange
  <2>3. /\ BiomeID(u, v, w)' = IF other \in DOMAIN biomeOverrides' THEN biomeOverrides'[other]
                               ELSE defaultBiomeID
        /\ BiomeID(u, v, w) = IF other \in DOMAIN biomeOverrides THEN biomeOverrides[other]
                              ELSE defaultBiomeID
    BY <2>2 DEF BiomeID
  <2>4. BiomeID(u, v, w) = biomes[c]
    BY DEF BiomesExact
  <2>5. other = key => c = <<x, y, z>>
    <3>1. SUFFICES ASSUME other = key PROVE c = <<x, y, z>>
      OBVIOUS
    <3>2. SubIndex(v) = SubIndex(y) /\ blockOffset(u, v, w) = blockOffset(x, y, z)
      BY <3>1 DEF key, biomeOffset
    <3>3. u = x /\ v = y /\ w = z
      BY <3>2, <2>1, CellsApart
    <3> QED
      BY <2>1, <3>3
  <2>6. c = <<x, y, z>> => other = key
    BY <2>1 DEF key
  <2> HIDE DEF other, u, v, w
  <2>7. BiomeID(u, v, w)' = biomes'[c]
    BY <1>2, <1>4, <2>3, <2>4, <2>5, <2>6
  <2> QED
    BY <2>7 DEF u, v, w
<1> QED
  BY <1>5, <1>6 DEF BiomesExact

\* FillBiomeID leaves one biome for all cells.
LEMMA FillBiome ==
    ASSUME BiomesOK, NEW id \in BiomeIDs, FillBiomeID(id)
    PROVE  BiomesOK' /\ BiomesExact'
<1>1. DOMAIN biomeOverrides' = {} /\ defaultBiomeID' = id /\ biomes' = [c \in Cells |-> id]
  BY DEF FillBiomeID, NoMap
<1> QED
  BY <1>1 DEF BiomesOK, BiomesExact, BiomeID

\* What the position of the generator's loops stands for.
LEMMA GeneratorRange ==
    ASSUME NEW n \in Nat, NEW k \in Nat, NEW a \in Nat, k < a * n
    PROVE  n > 0 /\ (k % n) + 1 \in 1..n
<1>1. n # 0
  <2>1. SUFFICES ASSUME n = 0 PROVE FALSE
    OBVIOUS
  <2>2. a * n = 0
    BY <2>1
  <2> QED
    BY <2>2
<1>2. k % n \in 0..(n - 1)
  BY <1>1
<1> QED
  BY <1>1, <1>2

\* The inductive invariant: types, exactness, and nothing stored for air, which
\* is what lets deleteRuntimeID drop a layer.
Counters ==
    /\ phase \in {"generating", "ready", "failed"}
    /\ column \in Nat
    /\ edits \in 0..MaxEdits

ChunkInv ==
    /\ Counters /\ BlocksOK /\ BiomesOK
    /\ StorageExact /\ NothingKeptForAir

\* A new chunk, and one whose biome the generator has filled, satisfy the invariant.
LEMMA InitInv == ChunkInit => ChunkInv
<1> SUFFICES ASSUME ChunkInit PROVE ChunkInv
  OBVIOUS
<1>1. Counters
  BY ChunkAssumption DEF ChunkInit, Counters
<1>2. DOMAIN NoMap = {}
  BY DEF NoMap
<1>3. BlocksOK /\ NothingKeptForAir
  BY <1>2, ChunkAssumption DEF ChunkInit, BlocksOK, LayersOK, NothingKeptForAir, NoAirIn
<1>4. BiomesOK
  BY <1>2, ChunkAssumption DEF ChunkInit, BiomesOK
<1>5. BlocksExact
  <2> SUFFICES ASSUME NEW c \in Cells, NEW l \in Layers
               PROVE  RuntimeID(c[1], c[2], c[3], l) = blocks[l][c]
    BY DEF BlocksExact
  <2>1. c[1] \in Side /\ c[2] \in Heights /\ c[3] \in Side
    BY DEF Cells
  <2>2. SubIndex(c[2]) \in SubIndices
    BY <2>1, CellTypes
  <2>3. subChunks[SubIndex(c[2])] = NoMap /\ blocks[l][c] = Air
    BY <2>2 DEF ChunkInit
  <2> QED
    BY <1>2, <2>3 DEF RuntimeID, storedAt
<1>6. BiomesExact
  BY <1>2 DEF ChunkInit, BiomesExact, BiomeID
<1> QED
  BY <1>1, <1>3, <1>4, <1>5, <1>6 DEF ChunkInv, StorageExact

\* What does not touch the blocks keeps what is known of them.
LEMMA BlocksStay ==
    ASSUME BlocksOK, BlocksExact, NothingKeptForAir, UNCHANGED <<subChunks, blocks>>
    PROVE  BlocksOK' /\ BlocksExact' /\ NothingKeptForAir'
  BY DEF BlocksOK, BlocksExact, NothingKeptForAir, RuntimeID

\* Likewise the biomes.
LEMMA BiomesStay ==
    ASSUME BiomesOK, BiomesExact, UNCHANGED <<defaultBiomeID, biomeOverrides, biomes>>
    PROVE  BiomesOK' /\ BiomesExact'
  BY DEF BiomesOK, BiomesExact, BiomeID

\* Each change to a chunk, and each step of the generator, preserves it.
LEMMA StepInv == ChunkInv /\ [ChunkNext]_chunkVars => ChunkInv'
<1> SUFFICES ASSUME ChunkInv, [ChunkNext]_chunkVars PROVE ChunkInv'
  OBVIOUS
<1>0. /\ Counters /\ BlocksOK /\ BiomesOK
      /\ BlocksExact /\ BiomesExact /\ NothingKeptForAir
  BY DEF ChunkInv, StorageExact
<1>e. edit => edits' \in 0..MaxEdits
  BY <1>0, ChunkAssumption DEF edit, Counters
<1> SUFFICES /\ Counters' /\ BlocksOK' /\ BiomesOK'
             /\ BlocksExact' /\ BiomesExact' /\ NothingKeptForAir'
  BY DEF ChunkInv, StorageExact
<1>1. CASE generateBlock
  <2> DEFINE n == Len(FlatLayers)
             x == column \div (Width * n)
             z == (column \div n) % Width
             y == BaseY + (column % n)
  <2>1. n \in Nat /\ Width * Width \in Nat /\ column \in Nat
    BY <1>0, ChunkAssumption DEF Counters
  <2>2. column < (Width * Width) * n
    BY <1>1 DEF generateBlock
  <2>3. (column % n) + 1 \in 1..n
    BY <2>1, <2>2, GeneratorRange
  <2>4. FlatLayers[(column % n) + 1] \in BlockIDs
    BY <2>3, ChunkAssumption
  <2>5. Counters'
    BY <1>0, <1>1 DEF generateBlock, Counters
  <2>6. BiomesOK' /\ BiomesExact'
    BY <1>0, <1>1, BiomesStay DEF generateBlock
  <2>7. CASE inRange(x, y, z)
    <3>1. x \in Side /\ y \in Heights /\ z \in Side
      BY <2>7 DEF inRange
    <3>2. storeBlock(x, y, z, 0, FlatLayers[(column % n) + 1])
      BY <2>7, <1>1 DEF generateBlock
    <3>3. BlocksOK' /\ BlocksExact' /\ NothingKeptForAir'
      <4> HIDE DEF x, y, z, n
      <4> QED
        BY <3>1, <3>2, <2>4, <1>0, ChunkAssumption, StoreBlock
    <3> QED
      BY <2>5, <2>6, <3>3
  <2>8. CASE ~inRange(x, y, z)
    <3>1. UNCHANGED <<subChunks, blocks>>
      BY <2>8, <1>1 DEF generateBlock
    <3> QED
      BY <2>5, <2>6, <3>1, <1>0, BlocksStay
  <2> QED
    BY <2>7, <2>8
<1>2. CASE generated \/ generationCancelled \/ UNCHANGED chunkVars
  <2>1. Counters'
    BY <1>0, <1>2 DEF generated, generationCancelled, chunkVars, Counters
  <2>2. UNCHANGED <<subChunks, blocks>> /\ UNCHANGED <<defaultBiomeID, biomeOverrides, biomes>>
    BY <1>2 DEF generated, generationCancelled, chunkVars
  <2> QED
    BY <1>0, <2>1, <2>2, BlocksStay, BiomesStay
<1>3. ASSUME NEW x \in 0..Width, NEW z \in 0..Width, NEW y \in (MinY - 1)..(MaxY + 1),
             NEW l \in Layers, NEW id \in BlockIDs, SetRuntimeID(x, y, z, l, id)
      PROVE  /\ Counters' /\ BlocksOK' /\ BiomesOK'
             /\ BlocksExact' /\ BiomesExact' /\ NothingKeptForAir'
  <2>1. Counters'
    BY <1>0, <1>3, <1>e DEF SetRuntimeID, Counters
  <2>2. BiomesOK' /\ BiomesExact'
    BY <1>0, <1>3, BiomesStay DEF SetRuntimeID
  <2>3. CASE inRange(x, y, z)
    BY <2>1, <2>2, <2>3, <1>0, <1>3, StoreBlock DEF SetRuntimeID, inRange
  <2>4. CASE ~inRange(x, y, z)
    BY <2>1, <2>2, <2>4, <1>0, <1>3, BlocksStay DEF SetRuntimeID
  <2> QED
    BY <2>3, <2>4
<1>4. ASSUME NEW id \in BiomeIDs, FillBiomeID(id)
      PROVE  /\ Counters' /\ BlocksOK' /\ BiomesOK'
             /\ BlocksExact' /\ BiomesExact' /\ NothingKeptForAir'
  <2>1. Counters'
    BY <1>0, <1>4, <1>e DEF FillBiomeID, Counters
  <2>2. BlocksOK' /\ BlocksExact' /\ NothingKeptForAir'
    BY <1>0, <1>4, BlocksStay DEF FillBiomeID
  <2> QED
    BY <2>1, <2>2, <1>0, <1>4, FillBiome
<1>5. ASSUME NEW x \in 0..Width, NEW z \in 0..Width, NEW y \in (MinY - 1)..(MaxY + 1),
             NEW id \in BiomeIDs, SetBiomeID(x, y, z, id)
      PROVE  /\ Counters' /\ BlocksOK' /\ BiomesOK'
             /\ BlocksExact' /\ BiomesExact' /\ NothingKeptForAir'
  <2>1. Counters'
    BY <1>0, <1>5, <1>e DEF SetBiomeID, Counters
  <2>2. BlocksOK' /\ BlocksExact' /\ NothingKeptForAir'
    BY <1>0, <1>5, BlocksStay DEF SetBiomeID
  <2>3. CASE inRange(x, y, z)
    BY <2>1, <2>2, <2>3, <1>0, <1>5, StoreBiome DEF SetBiomeID, inRange
  <2>4. CASE ~inRange(x, y, z)
    BY <2>1, <2>2, <2>4, <1>0, <1>5, BiomesStay DEF SetBiomeID
  <2> QED
    BY <2>3, <2>4
<1> QED
  BY <1>1, <1>2, <1>3, <1>4, <1>5 DEF ChunkNext

\* The invariant of every chunk.
LEMMA Invariance == ChunkSpec => []ChunkInv
  BY InitInv, StepInv, PTL DEF ChunkSpec

\* Whatever is generated and changed, every offset that a chunk stores is one of
\* its sub-chunk's.
THEOREM ChunkTypeCorrect == ChunkSpec => []ChunkTypeOK
<1>1. ChunkInv => ChunkTypeOK
  BY DEF ChunkInv, Counters, BlocksOK, BiomesOK, ChunkTypeOK
<1> QED
  BY <1>1, Invariance, PTL

\* RuntimeID and BiomeID return for every cell what SetRuntimeID, FillBiomeID,
\* SetBiomeID and the generator last set for it, whatever the width of a
\* sub-chunk and whichever side of zero the dimension begins and ends on.
THEOREM StorageIsExact == ChunkSpec => []StorageExact
<1>1. ChunkInv => StorageExact
  BY DEF ChunkInv
<1> QED
  BY <1>1, Invariance, PTL

\* A block that becomes air leaves nothing behind in the maps of its sub-chunk,
\* so that SubChunkEmpty and SubChunkLayerCount are right for every history.
THEOREM NothingIsKeptForAir == ChunkSpec => []NothingKeptForAir
<1>1. ChunkInv => NothingKeptForAir
  BY DEF ChunkInv
<1> QED
  BY <1>1, Invariance, PTL

-----------------------------------------------------------------------------
(* Orders of a finite set *)

StrictOrder(S, R) ==
    /\ \A p \in S : <<p, p>> \notin R
    /\ \A p, q, r \in S : <<p, q>> \in R /\ <<q, r>> \in R => <<p, r>> \in R
    /\ \A p, q \in S : p = q \/ <<p, q>> \in R \/ <<q, p>> \in R

Rank(S, R, p) == Cardinality({q \in S : <<q, p>> \in R})

\* The ranks of the elements follow the order and are the numbers below the
\* size of the set, each once.
LEMMA Ranks ==
    ASSUME NEW S, IsFiniteSet(S), NEW R, StrictOrder(S, R)
    PROVE  /\ Cardinality(S) \in Nat
           /\ \A p \in S : Rank(S, R, p) \in 0..(Cardinality(S) - 1)
           /\ \A p, q \in S : <<p, q>> \in R => Rank(S, R, p) < Rank(S, R, q)
           /\ \A p, q \in S : Rank(S, R, p) = Rank(S, R, q) => p = q
           /\ \A k \in 0..(Cardinality(S) - 1) : \E p \in S : Rank(S, R, p) = k
<1> DEFINE below(p) == {q \in S : <<q, p>> \in R}
           n == Cardinality(S)
<1>1. n \in Nat
  BY FS_CardinalityType
<1>2. ASSUME NEW p \in S PROVE below(p) \in SUBSET S /\ IsFiniteSet(below(p)) /\ Cardinality(below(p)) \in Nat
  BY FS_Subset, FS_CardinalityType
<1>3. ASSUME NEW p \in S PROVE Rank(S, R, p) \in 0..(n - 1)
  <2>1. below(p) # S
    BY DEF StrictOrder
  <2>2. Cardinality(below(p)) <= n /\ Cardinality(below(p)) # n
    BY <1>2, <2>1, FS_Subset
  <2> QED
    BY <1>1, <1>2, <2>2 DEF Rank
<1>4. ASSUME NEW p \in S, NEW q \in S, <<p, q>> \in R PROVE Rank(S, R, p) < Rank(S, R, q)
  <2>1. below(p) \in SUBSET below(q) /\ p \in below(q) /\ p \notin below(p)
    BY <1>4 DEF StrictOrder
  <2>2. Cardinality(below(p)) <= Cardinality(below(q)) /\ Cardinality(below(p)) # Cardinality(below(q))
    BY <1>2, <2>1, FS_Subset
  <2> QED
    BY <1>2, <2>2 DEF Rank
<1>5. ASSUME NEW p \in S, NEW q \in S, Rank(S, R, p) = Rank(S, R, q) PROVE p = q
  <2>1. Rank(S, R, p) \in Int /\ Rank(S, R, q) \in Int
    BY <1>3
  <2>2. ~(Rank(S, R, p) < Rank(S, R, q)) /\ ~(Rank(S, R, q) < Rank(S, R, p))
    BY <1>5, <2>1
  <2> QED
    BY <1>4, <2>2 DEF StrictOrder
<1>6. ASSUME NEW k \in 0..(n - 1) PROVE \E p \in S : Rank(S, R, p) = k
  <2> DEFINE T == 0..(n - 1)
             f == [p \in S |-> Rank(S, R, p)]
  <2>1. IsFiniteSet(T) /\ Cardinality(T) = n
    BY <1>1, FS_Interval
  <2>2. f \in [S -> T] /\ \A p, q \in S : f[p] = f[q] => p = q
    BY <1>3, <1>5
  <2>3. f \in Injection(S, T)
    BY <2>2 DEF Injection, IsInjective
  <2> HIDE DEF T, f
  <2>4. f \in Surjection(S, T)
    BY <2>1, <2>3, FS_Injection
  <2>5. k \in T
    BY DEF T
  <2>6. \E p \in S : f[p] = k
    BY <2>4, <2>5 DEF Surjection
  <2> QED
    BY <2>6 DEF f
<1> QED
  BY <1>1, <1>3, <1>4, <1>5, <1>6

-----------------------------------------------------------------------------
(* SendInitial *)

Square(center, radius) ==
    ((center[1] - radius)..(center[1] + radius)) \X ((center[2] - radius)..(center[2] + radius))

\* The chunks around the spawn.
LEMMA SquareOfSpawn ==
    LET S == Square(centerChunk, Radius) IN
    /\ S \subseteq Int \X Int /\ IsFiniteSet(S)
    /\ centerChunk \in Int \X Int
<1>1. SpawnX \div Width \in Int /\ SpawnZ \div Width \in Int
  BY DivMod, ChunkPublisherAssumption
<1>2. centerChunk \in Int \X Int /\ centerChunk[1] \in Int /\ centerChunk[2] \in Int
  BY <1>1 DEF centerChunk
<1> DEFINE A == (centerChunk[1] - Radius)..(centerChunk[1] + Radius)
           B == (centerChunk[2] - Radius)..(centerChunk[2] + Radius)
<1>3. IsFiniteSet(A) /\ IsFiniteSet(B) /\ A \subseteq Int /\ B \subseteq Int
  BY <1>2, FS_Interval, ChunkPublisherAssumption
<1>4. Square(centerChunk, Radius) = A \X B
  BY DEF Square
<1> HIDE DEF A, B
<1>5. IsFiniteSet(A \X B) /\ A \X B \subseteq Int \X Int
  BY <1>3, FS_Product
<1> QED
  BY <1>2, <1>4, <1>5

\* Distances are numbers.
LEMMA DistanceInt ==
    ASSUME NEW p \in Int \X Int, NEW q \in Int \X Int
    PROVE  Distance(p, q) \in Nat
<1>1. p[1] - q[1] \in Int /\ p[2] - q[2] \in Int
  OBVIOUS
<1>2. \A v \in Int : abs(v) \in Nat
  BY DEF abs
<1>3. abs(p[1] - q[1]) \in Nat /\ abs(p[2] - q[2]) \in Nat
  BY <1>1, <1>2
<1> QED
  BY <1>3 DEF Distance, larger

\* The order of the passes through the loops of chunkPositions.
PassOrder(S) == {x \in S \X S : PassBefore(x[1], x[2])}

LEMMA LoopOrder ==
    ASSUME NEW S, S \subseteq Int \X Int \X Int
    PROVE  StrictOrder(S, PassOrder(S)) /\ \A i, j \in S : <<i, j>> \in PassOrder(S) <=> PassBefore(i, j)
<1>1. \A i, j \in S : <<i, j>> \in PassOrder(S) <=> PassBefore(i, j)
  BY DEF PassOrder
<1>2. \A i \in S : i[1] \in Int /\ i[2] \in Int /\ i[3] \in Int /\ i = <<i[1], i[2], i[3]>>
  OBVIOUS
<1>3. \A i \in S : ~PassBefore(i, i)
  BY <1>2 DEF PassBefore
<1>4. ASSUME NEW i \in S, NEW j \in S, NEW k \in S, PassBefore(i, j), PassBefore(j, k)
      PROVE  PassBefore(i, k)
  BY <1>2, <1>4 DEF PassBefore
<1>5. ASSUME NEW i \in S, NEW j \in S PROVE i = j \/ PassBefore(i, j) \/ PassBefore(j, i)
  BY <1>2 DEF PassBefore
<1> QED
  BY <1>1, <1>3, <1>4, <1>5 DEF StrictOrder

\* The passes of chunkPositions that append a position.
Kept == {i \in Passes(Radius) : larger(abs(i[2]), abs(i[3])) = i[1]}

\* There is one for every chunk of the square, at its distance from the center.
LEMMA KeptPasses ==
    LET S == Square(centerChunk, Radius)
        passOf(p) == <<Distance(p, centerChunk), p[1] - centerChunk[1], p[2] - centerChunk[2]>>
        at(i) == <<centerChunk[1] + i[2], centerChunk[2] + i[3]>>
    IN  /\ Kept \subseteq Int \X Int \X Int
        /\ \A p \in S : passOf(p) \in Kept /\ at(passOf(p)) = p
        /\ \A i \in Kept : at(i) \in S /\ passOf(at(i)) = i
<1> DEFINE S == Square(centerChunk, Radius)
           passOf(p) == <<Distance(p, centerChunk), p[1] - centerChunk[1], p[2] - centerChunk[2]>>
           at(i) == <<centerChunk[1] + i[2], centerChunk[2] + i[3]>>
           a == centerChunk[1]
           b == centerChunk[2]
<1>1. a \in Int /\ b \in Int /\ Radius \in Nat
  BY SquareOfSpawn, ChunkPublisherAssumption
<1>2. ASSUME NEW i
      PROVE  i \in Kept <=> \E d \in 0..Radius, x \in Int, z \in Int :
                /\ i = <<d, x, z>> /\ -d <= x /\ x <= d /\ -d <= z /\ z <= d
                /\ larger(abs(x), abs(z)) = d
  <2>1. i \in Passes(Radius) <=> \E d \in 0..Radius : i \in {d} \X (-d..d) \X (-d..d)
    BY DEF Passes
  <2>2. ASSUME NEW d \in 0..Radius
        PROVE  i \in {d} \X (-d..d) \X (-d..d)
               <=> \E x \in Int, z \in Int : i = <<d, x, z>> /\ -d <= x /\ x <= d /\ -d <= z /\ z <= d
    BY <1>1
  <2> QED
    BY <2>1, <2>2 DEF Kept
<1>3. \A p : p \in S <=> \E x \in Int, z \in Int :
                /\ p = <<x, z>> /\ a - Radius <= x /\ x <= a + Radius
                /\ b - Radius <= z /\ z <= b + Radius
  BY <1>1 DEF Square
<1>4. \A p : Distance(p, centerChunk) = larger(abs(p[1] - a), abs(p[2] - b))
  BY DEF Distance
<1> HIDE DEF S, a, b
<1>5. \A v, w \in Int : larger(abs(v), abs(w)) \in Nat
  BY DEF larger, abs
<1>6. \A v, w \in Int : LET d == larger(abs(v), abs(w)) IN -d <= v /\ v <= d /\ -d <= w /\ w <= d
  BY DEF larger, abs
<1>7. \A v, w \in Int : -Radius <= v /\ v <= Radius /\ -Radius <= w /\ w <= Radius
          => larger(abs(v), abs(w)) <= Radius
  BY <1>1 DEF larger, abs
<1>8. ASSUME NEW p \in S PROVE passOf(p) \in Kept /\ at(passOf(p)) = p
  <2>1. PICK x \in Int, z \in Int : /\ p = <<x, z>> /\ a - Radius <= x /\ x <= a + Radius
                                    /\ b - Radius <= z /\ z <= b + Radius
    BY <1>3
  <2> DEFINE v == x - a
             w == z - b
             d == larger(abs(v), abs(w))
  <2>2. passOf(p) = <<d, v, w>>
    BY <1>4, <2>1 DEF a, b
  <2>3. v \in Int /\ w \in Int /\ -Radius <= v /\ v <= Radius /\ -Radius <= w /\ w <= Radius
    BY <1>1, <2>1
  <2>4. a + v = x /\ b + w = z
    BY <1>1
  <2> HIDE DEF v, w
  <2>5. d \in Nat /\ d <= Radius /\ -d <= v /\ v <= d /\ -d <= w /\ w <= d
    BY <1>5, <1>6, <1>7, <2>3
  <2> HIDE DEF d
  <2>6. d \in 0..Radius
    BY <1>1, <2>5
  <2>7. larger(abs(v), abs(w)) = d
    BY DEF d
  <2>8. passOf(p) \in Kept
    BY <1>2, <2>2, <2>3, <2>5, <2>6, <2>7
  <2>9. at(passOf(p)) = <<a + v, b + w>>
    BY <2>2 DEF a, b
  <2> QED
    BY <2>1, <2>4, <2>8, <2>9
<1>9. ASSUME NEW i \in Kept PROVE at(i) \in S /\ passOf(at(i)) = i
  <2>1. PICK d \in 0..Radius, x \in Int, z \in Int :
                /\ i = <<d, x, z>> /\ -d <= x /\ x <= d /\ -d <= z /\ z <= d
                /\ larger(abs(x), abs(z)) = d
    BY <1>2
  <2>2. at(i) = <<a + x, b + z>>
    BY <2>1 DEF a, b
  <2>3. a + x \in Int /\ b + z \in Int /\ (a + x) - a = x /\ (b + z) - b = z
    BY <1>1
  <2>4. a - Radius <= a + x /\ a + x <= a + Radius /\ b - Radius <= b + z /\ b + z <= b + Radius
    BY <1>1, <2>1
  <2>5. at(i) \in S
    BY <1>3, <2>2, <2>3, <2>4
  <2>6. passOf(at(i)) = <<larger(abs((a + x) - a), abs((b + z) - b)), (a + x) - a, (b + z) - b>>
    BY <1>4, <2>2 DEF a, b
  <2> QED
    BY <2>1, <2>3, <2>5, <2>6
<1>10. Kept \subseteq Int \X Int \X Int
  <2> SUFFICES ASSUME NEW i \in Kept PROVE i \in Int \X Int \X Int
    OBVIOUS
  <2>1. PICK d \in 0..Radius, x \in Int, z \in Int : i = <<d, x, z>>
    BY <1>2
  <2> QED
    BY <1>1, <2>1
<1> QED
  BY <1>8, <1>9, <1>10 DEF S

\* chunkPositions has every chunk of the square once, the nearer ones first.
LEMMA PositionsInOrder ==
    LET S == Square(centerChunk, Radius)
        positions == chunkPositions(centerChunk, Radius)
        n == Cardinality(S)
    IN  /\ n \in Nat /\ positions \in [1..n -> S]
        /\ \A p \in S : \E i \in 1..n : positions[i] = p
        /\ \A i, j \in 1..n : positions[i] = positions[j] => i = j
        /\ \A i, j \in 1..n : i < j =>
              Distance(positions[i], centerChunk) <= Distance(positions[j], centerChunk)
<1> DEFINE S == Square(centerChunk, Radius)
           positions == chunkPositions(centerChunk, Radius)
           n == Cardinality(S)
           I == Kept
           R == PassOrder(I)
           rank(i) == Rank(I, R, i)
           passOf(p) == <<Distance(p, centerChunk), p[1] - centerChunk[1], p[2] - centerChunk[2]>>
           at(i) == <<centerChunk[1] + i[2], centerChunk[2] + i[3]>>
           pass == InOrder(I, PassBefore)
           d(p) == Distance(p, centerChunk)
<1>1. /\ I \subseteq Int \X Int \X Int
      /\ \A p \in S : passOf(p) \in I /\ at(passOf(p)) = p
      /\ \A i \in I : at(i) \in S /\ passOf(at(i)) = i
  BY KeptPasses
<1>2. \A i \in I : d(at(i)) = i[1] /\ i[1] \in Int
  <2> SUFFICES ASSUME NEW i \in I PROVE d(at(i)) = i[1] /\ i[1] \in Int
    OBVIOUS
  <2>1. passOf(at(i)) = i /\ passOf(at(i))[1] = d(at(i))
    BY <1>1
  <2>2. i[1] \in Int
    BY <1>1
  <2> QED
    BY <2>1, <2>2
<1>3. positions = [k \in DOMAIN pass |-> at(pass[k])]
  BY DEF chunkPositions, Appended, Kept
<1>4. pass = [k \in 1..Cardinality(I) |-> CHOOSE i \in I : Cardinality({j \in I : PassBefore(j, i)}) = k - 1]
  BY DEF InOrder
<1>5. IsFiniteSet(S)
  BY SquareOfSpawn
<1> HIDE DEF S, positions, I, passOf, at, pass, d
<1>6. IsFiniteSet(I) /\ Cardinality(I) = n /\ n \in Nat
  <2> DEFINE f == [p \in S |-> passOf(p)]
  <2>1. f \in [S -> I] /\ (\A p, q \in S : f[p] = f[q] => p = q) /\ \A i \in I : \E p \in S : f[p] = i
    <3>1. f \in [S -> I]
      BY <1>1
    <3>2. \A p, q \in S : f[p] = f[q] => p = q
      BY <1>1
    <3>3. ASSUME NEW i \in I PROVE \E p \in S : f[p] = i
      <4>1. at(i) \in S /\ f[at(i)] = i
        BY <1>1
      <4> QED
        BY <4>1
    <3> QED
      BY <3>1, <3>2, <3>3
  <2> HIDE DEF f
  <2>2. f \in Bijection(S, I)
    BY <2>1 DEF Bijection, Injection, Surjection, IsInjective
  <2>3. ExistsBijection(S, I)
    BY <2>2 DEF ExistsBijection
  <2> QED
    BY <1>5, <2>3, FS_Bijection, FS_CardinalityType
<1>7. StrictOrder(I, R) /\ \A i, j \in I : <<i, j>> \in R <=> PassBefore(i, j)
  BY <1>1, LoopOrder
<1> HIDE DEF R
<1>8. /\ \A i \in I : rank(i) \in 0..(n - 1)
      /\ \A i, j \in I : <<i, j>> \in R => rank(i) < rank(j)
      /\ \A i, j \in I : rank(i) = rank(j) => i = j
      /\ \A k \in 0..(n - 1) : \E i \in I : rank(i) = k
  BY <1>6, <1>7, Ranks
<1>9. ASSUME NEW i \in I PROVE Cardinality({j \in I : PassBefore(j, i)}) = rank(i)
  <2>1. {j \in I : PassBefore(j, i)} = {j \in I : <<j, i>> \in R}
    BY <1>7
  <2> QED
    BY <2>1 DEF Rank
<1> HIDE DEF n, rank
<1>10. ASSUME NEW k \in 1..n PROVE pass[k] \in I /\ rank(pass[k]) = k - 1
  <2>1. k - 1 \in 0..(n - 1)
    BY <1>6
  <2>2. \E i \in I : Cardinality({j \in I : PassBefore(j, i)}) = k - 1
    BY <1>8, <1>9, <2>1
  <2>3. pass[k] = CHOOSE i \in I : Cardinality({j \in I : PassBefore(j, i)}) = k - 1
    BY <1>4, <1>6
  <2>4. pass[k] \in I /\ Cardinality({j \in I : PassBefore(j, pass[k])}) = k - 1
    BY <2>2, <2>3
  <2> QED
    BY <1>9, <2>4
<1>11. DOMAIN positions = 1..n /\ \A k \in 1..n : positions[k] = at(pass[k])
  BY <1>3, <1>4, <1>6
<1>12. positions \in [1..n -> S]
  BY <1>1, <1>3, <1>10, <1>11
<1>13. ASSUME NEW p \in S PROVE \E i \in 1..n : positions[i] = p
  <2> DEFINE k == rank(passOf(p)) + 1
  <2>1. passOf(p) \in I /\ at(passOf(p)) = p
    BY <1>1
  <2>2. k \in 1..n /\ k - 1 = rank(passOf(p))
    BY <1>6, <1>8, <2>1
  <2> HIDE DEF k
  <2>3. pass[k] = passOf(p)
    BY <1>8, <1>10, <2>1, <2>2
  <2> QED
    BY <1>11, <2>1, <2>2, <2>3
<1>14. ASSUME NEW i \in 1..n, NEW j \in 1..n, positions[i] = positions[j] PROVE i = j
  <2>1. at(pass[i]) = at(pass[j])
    BY <1>11, <1>14
  <2>2. pass[i] = pass[j]
    BY <1>1, <1>10, <2>1
  <2>3. i - 1 = j - 1
    BY <1>10, <2>2
  <2> QED
    BY <1>6, <2>3
<1>15. ASSUME NEW i \in 1..n, NEW j \in 1..n, i < j PROVE d(positions[i]) <= d(positions[j])
  <2>1. pass[i] \in I /\ pass[j] \in I /\ rank(pass[i]) = i - 1 /\ rank(pass[j]) = j - 1
    BY <1>10
  <2>2. ~(rank(pass[j]) < rank(pass[i])) /\ pass[i] # pass[j]
    BY <1>6, <1>15, <2>1
  <2>3. PassBefore(pass[i], pass[j])
    BY <1>7, <1>8, <2>1, <2>2 DEF StrictOrder
  <2>4. d(positions[i]) = pass[i][1] /\ d(positions[j]) = pass[j][1]
    BY <1>2, <1>11, <2>1
  <2> QED
    BY <1>2, <2>1, <2>3, <2>4 DEF PassBefore
<1> QED
  BY <1>6, <1>12, <1>13, <1>14, <1>15 DEF S, positions, n, d

\* The chunks of the blocks around the spawn block are the square around its chunk.
LEMMA NearChunks ==
    ASSUME NEW s \in Int
    PROVE  /\ \A b \in (s - Radius * Width)..(s + Radius * Width) :
                 b \div Width \in ((s \div Width) - Radius)..((s \div Width) + Radius)
           /\ \A c \in ((s \div Width) - Radius)..((s \div Width) + Radius) :
                 \E b \in (s - Radius * Width)..(s + Radius * Width) : b \div Width = c
<1> DEFINE q == s \div Width
           r == s % Width
           w == Width
           k == Radius
<1>1. w \in Nat \ {0} /\ k \in Nat \ {0}
  BY ChunkAssumption, ChunkPublisherAssumption
<1>2. q \in Int /\ r \in 0..(w - 1) /\ s = w * q + r
  BY DivMod DEF Side
<1>3. ASSUME NEW b \in (s - k * w)..(s + k * w) PROVE b \div w \in (q - k)..(q + k)
  <2> DEFINE p == b \div w
             t == b % w
  <2>0. b \in Int
    BY <1>1
  <2>1. p \in Int /\ t \in 0..(w - 1) /\ b = w * p + t
    BY <2>0, DivMod DEF Side
  <2>2. b <= s + k * w /\ b >= s - k * w /\ k * w \in Int
    BY <1>1
  <2> HIDE DEF p, t, q, r, w, k
  <2>3. w * (p - q - k) = b - t - (s - r) - k * w
    BY <1>1, <1>2, <2>1, Z3
  <2>4. w * (p - q - k) < w
    BY <1>1, <1>2, <2>0, <2>1, <2>2, <2>3
  <2>5. p - q - k < 1
    BY <1>1, <1>2, <2>1, <2>4, Z3
  <2>6. w * (p - q + k) = b - t - (s - r) + k * w
    BY <1>1, <1>2, <2>1, Z3
  <2>7. w * (p - q + k) > -w
    BY <1>1, <1>2, <2>0, <2>1, <2>2, <2>6
  <2>8. p - q + k > -1
    BY <1>1, <1>2, <2>1, <2>7, Z3
  <2> QED
    BY <1>1, <1>2, <2>1, <2>5, <2>8 DEF p
<1>4. ASSUME NEW c \in (q - k)..(q + k) PROVE \E b \in (s - k * w)..(s + k * w) : b \div w = c
  <2> DEFINE b == w * c + r
  <2>1. c \in Int /\ c - q <= k /\ c - q >= -k
    BY <1>1, <1>2
  <2> HIDE DEF q, r, w, k
  <2>2. b \in Int /\ b - s = w * (c - q)
    BY <1>1, <1>2, <2>1, Z3
  <2>3. w * (c - q) <= k * w /\ w * (c - q) >= -(k * w)
    BY <1>1, <1>2, <2>1, Z3
  <2>4. b \in (s - k * w)..(s + k * w)
    BY <1>1, <1>2, <2>2, <2>3
  <2>5. b \div w = c
    <3> DEFINE p == b \div w
               t == b % w
    <3>1. p \in Int /\ t \in 0..(w - 1) /\ b = w * p + t
      BY <2>2, DivMod DEF Side, w
    <3> HIDE DEF p, t
    <3>2. w * (p - c) = r - t
      BY <1>1, <1>2, <2>1, <3>1, Z3
    <3>3. p - c < 1 /\ p - c > -1
      BY <1>1, <1>2, <2>1, <3>1, <3>2, Z3
    <3>4. p = c
      BY <2>1, <3>1, <3>3
    <3> QED
      BY <3>4 DEF p
  <2> QED
    BY <2>4, <2>5
<1> QED
  BY <1>3, <1>4

\* What SendInitial writes: the header, then the positions.
LEMMA InitialPackets ==
    LET S == Square(centerChunk, Radius)
        n == Cardinality(S)
    IN  /\ n \in Nat /\ Len(initialPackets) = n + 3
        /\ \A i \in 1..n : initialPackets[i + 3] = chunkPositions(centerChunk, Radius)[i]
        /\ \E T : initialPackets \in Seq(T)
<1> DEFINE S == Square(centerChunk, Radius)
           positions == chunkPositions(centerChunk, Radius)
           n == Cardinality(S)
           T == {"NetworkChunkPublisherUpdate", "SetTime", "SetSpawnPosition"} \cup S
<1>1. n \in Nat /\ positions \in [1..n -> S]
  BY PositionsInOrder
<1>2. initialPackets = Header \o positions
  BY DEF initialPackets
<1> HIDE DEF S, positions, n
<1>3. positions \in [1..n -> T]
  BY <1>1
<1>4. Header \in Seq(T) /\ Len(Header) = 3
  BY DEF Header
<1> HIDE DEF T
<1>5. positions \in Seq(T) /\ Len(positions) = n
  BY <1>1, <1>3
<1> DEFINE header == Header
<1> HIDE DEF header
<1>6. header \in Seq(T) /\ Len(header) = 3
  BY <1>4 DEF header
<1>7. positions \in Seq(T) /\ header \in Seq(T)
  BY <1>5, <1>6
<1>8. /\ header \o positions \in Seq(T)
      /\ Len(header \o positions) = Len(header) + Len(positions)
      /\ \A i \in 1..(Len(header) + Len(positions)) :
            (header \o positions)[i] = IF i <= Len(header) THEN header[i] ELSE positions[i - Len(header)]
  BY <1>7, ConcatProperties
<1>9. ASSUME NEW i \in 1..n PROVE (header \o positions)[i + 3] = positions[i]
  <2>1. i + 3 \in 1..(Len(header) + Len(positions)) /\ ~(i + 3 <= Len(header)) /\ (i + 3) - Len(header) = i
    BY <1>1, <1>5, <1>6
  <2> QED
    BY <1>8, <2>1
<1>10. Len(header \o positions) = n + 3
  BY <1>1, <1>5, <1>6, <1>8
<1> QED
  BY <1>1, <1>2, <1>8, <1>9, <1>10 DEF S, positions, n, header

\* A prefix of the packets has been written, all of them when it is done.
SendInv ==
    /\ Len(sent) \in Nat /\ Len(sent) <= Len(initialPackets)
    /\ sent = [i \in 1..Len(sent) |-> initialPackets[i]]
    /\ publishing = "done" => Len(sent) = Len(initialPackets)

\* The invariant of the publisher holds at first, is kept by every step, and so
\* always holds.
LEMMA PublisherInit == Init => ChunkInv /\ SendInv
<1> SUFFICES ASSUME Init PROVE ChunkInv /\ SendInv
  OBVIOUS
<1>1. Len(initialPackets) \in Nat
  BY InitialPackets
<1>2. Len(<< >>) = 0 /\ << >> = [i \in 1..0 |-> initialPackets[i]]
  OBVIOUS
<1> QED
  BY <1>1, <1>2, InitInv DEF Init, SendInv

LEMMA PublisherStep == ChunkInv /\ SendInv /\ [Next]_vars => ChunkInv' /\ SendInv'
<1> SUFFICES ASSUME ChunkInv, SendInv, [Next]_vars PROVE ChunkInv' /\ SendInv'
  OBVIOUS
<1> DEFINE packets == initialPackets
<1>0. Len(packets) \in Nat /\ \E T : packets \in Seq(T)
  BY InitialPackets
<1>1. CASE writeInitial
  <2>1. /\ Len(sent) < Len(packets) /\ sent' = Append(sent, packets[Len(sent) + 1])
        /\ publishing' = "sending" /\ UNCHANGED chunkVars
    BY <1>1 DEF writeInitial
  <2>2. PICK T : packets \in Seq(T)
    BY <1>0
  <2> DEFINE m == Len(sent)
  <2>3. m \in Nat /\ m < Len(packets) /\ sent = [i \in 1..m |-> packets[i]]
    BY <2>1 DEF SendInv
  <2> HIDE DEF packets, m
  <2>4. sent \in Seq(T) /\ Len(sent) = m /\ packets[m + 1] \in T
    BY <2>2, <2>3
  <2>5. sent' = [i \in 1..(m + 1) |-> packets[i]]
    <3>1. sent' = Append(sent, packets[m + 1])
      BY <2>1 DEF m
    <3>2. /\ sent' \in Seq(T) /\ Len(sent') = m + 1 /\ DOMAIN sent' = 1..(m + 1)
          /\ \A i \in 1..(m + 1) : sent'[i] = IF i <= m THEN sent[i] ELSE packets[m + 1]
      BY <2>3, <2>4, <3>1
    <3>3. \A i \in 1..(m + 1) : sent'[i] = packets[i]
      BY <2>3, <3>2
    <3> QED
      BY <3>2, <3>3
  <2>6. Len(sent') = m + 1
    BY <2>3, <2>5
  <2>7. SendInv'
    BY <2>1, <2>3, <2>5, <2>6, <1>0 DEF SendInv, packets
  <2>8. ChunkInv'
    BY <2>1, StepInv
  <2> QED
    BY <2>7, <2>8
<1>2. CASE SendInitial \/ breakOff \/ flushInitial \/ UNCHANGED vars
  <2>1. UNCHANGED chunkVars /\ UNCHANGED sent
    BY <1>2 DEF SendInitial, breakOff, flushInitial, vars
  <2>2. publishing' = "done" => publishing = "done" \/ Len(sent) = Len(initialPackets)
    BY <1>2 DEF SendInitial, breakOff, flushInitial, vars
  <2>3. SendInv'
    BY <2>1, <2>2 DEF SendInv
  <2> QED
    BY <2>1, <2>3, StepInv
<1>3. CASE ChunkNext /\ publishing = "idle" /\ UNCHANGED <<sent, publishing>>
  <2>1. SendInv'
    BY <1>3 DEF SendInv
  <2> QED
    BY <1>3, <2>1, StepInv
<1> QED
  BY <1>1, <1>2, <1>3 DEF Next

LEMMA PublisherInvariant == Spec => [](ChunkInv /\ SendInv)
  BY PublisherInit, PublisherStep, PTL DEF Spec

\* However SendInitial ends, and however large the radius: the chunks go out
\* once each and the nearer ones first, and all of the square when it is done
\* (chunkPositions, SendInitial).
THEOREM ChunksGoOutFromTheCenter == Spec => []ChunksFromTheCenter
<1>1. SendInv => ChunksFromTheCenter
  <2> SUFFICES ASSUME SendInv PROVE ChunksFromTheCenter
    OBVIOUS
  <2> DEFINE near == ((SpawnX - Radius * Width)..(SpawnX + Radius * Width))
                     \X ((SpawnZ - Radius * Width)..(SpawnZ + Radius * Width))
             all == {<<b[1] \div Width, b[2] \div Width>> : b \in near}
             got == {sent[i] : i \in 4..Len(sent)}
             S == Square(centerChunk, Radius)
             positions == chunkPositions(centerChunk, Radius)
             n == Cardinality(S)
             m == Len(sent)
             d(p) == Distance(p, centerChunk)
  <2>1. all = S
    <3> DEFINE A == (SpawnX - Radius * Width)..(SpawnX + Radius * Width)
               B == (SpawnZ - Radius * Width)..(SpawnZ + Radius * Width)
               P == ((SpawnX \div Width) - Radius)..((SpawnX \div Width) + Radius)
               Q == ((SpawnZ \div Width) - Radius)..((SpawnZ \div Width) + Radius)
    <3>1. SpawnX \in Int /\ SpawnZ \in Int
      BY ChunkPublisherAssumption
    <3>2. (\A b \in A : b \div Width \in P) /\ (\A c \in P : \E b \in A : b \div Width = c)
      BY <3>1, NearChunks
    <3>3. (\A b \in B : b \div Width \in Q) /\ (\A c \in Q : \E b \in B : b \div Width = c)
      BY <3>1, NearChunks
    <3>4. S = P \X Q
      BY DEF Square, centerChunk
    <3>5. all = {<<b[1] \div Width, b[2] \div Width>> : b \in A \X B}
      OBVIOUS
    <3> HIDE DEF A, B, P, Q, S, all
    <3>6. all \subseteq P \X Q
      BY <3>2, <3>3, <3>5
    <3>7. ASSUME NEW c \in P \X Q PROVE c \in all
      <4>1. PICK x \in A : x \div Width = c[1]
        BY <3>2
      <4>2. PICK z \in B : z \div Width = c[2]
        BY <3>3
      <4>3. <<x, z>> \in A \X B /\ c = <<(<<x, z>>)[1] \div Width, (<<x, z>>)[2] \div Width>>
        BY <4>1, <4>2
      <4> QED
        BY <3>5, <4>3
    <3> QED
      BY <3>4, <3>6, <3>7
  <2>2. /\ n \in Nat /\ positions \in [1..n -> S]
        /\ \A p \in S : \E i \in 1..n : positions[i] = p
        /\ \A i, j \in 1..n : positions[i] = positions[j] => i = j
        /\ \A i, j \in 1..n : i < j => d(positions[i]) <= d(positions[j])
    BY PositionsInOrder
  <2>3. Len(initialPackets) = n + 3 /\ \A i \in 1..n : initialPackets[i + 3] = positions[i]
    BY InitialPackets
  <2>4. /\ m \in Nat /\ m <= n + 3 /\ sent = [i \in 1..m |-> initialPackets[i]]
        /\ publishing = "done" => m = n + 3
    BY <2>3 DEF SendInv
  <2>5. \A p \in S : d(p) \in Nat
    BY SquareOfSpawn, DistanceInt
  <2> HIDE DEF S, positions, n, m, all, d
  <2>6. ASSUME NEW i \in 4..m PROVE i - 3 \in 1..n /\ sent[i] = positions[i - 3]
    <3>1. i - 3 \in 1..n /\ i \in 1..m /\ (i - 3) + 3 = i
      BY <2>2, <2>4
    <3>2. initialPackets[(i - 3) + 3] = positions[i - 3]
      BY <2>3, <3>1
    <3> QED
      BY <2>4, <3>1, <3>2
  <2>7. got = {sent[i] : i \in 4..m}
    BY DEF m
  <2>8. ASSUME NEW j \in 1..n, j + 3 <= m PROVE positions[j] \in got
    <3>1. j + 3 \in 4..m /\ (j + 3) - 3 = j
      BY <2>2, <2>4, <2>8
    <3>2. sent[j + 3] = positions[j]
      BY <2>6, <3>1
    <3> QED
      BY <2>7, <3>1, <3>2
  <2>9. got \subseteq S
    BY <2>2, <2>6, <2>7
  <2>10. IsInjective(SubSeq(sent, 4, m))
    <3> DEFINE s == SubSeq(sent, 4, m)
    <3>1. DOMAIN s = 1..(m - 3) /\ \A i \in 1..(m - 3) : s[i] = sent[i + 3]
      <4>1. s = [i \in 1..(m - 3) |-> sent[4 + i - 1]]
        BY <2>4, Z3
      <4>2. \A i \in 1..(m - 3) : 4 + i - 1 = i + 3
        BY <2>4
      <4> HIDE DEF s
      <4> QED
        BY <4>1, <4>2
    <3> HIDE DEF s
    <3>2. ASSUME NEW i \in 1..(m - 3) PROVE i \in 1..n /\ s[i] = positions[i]
      <4>1. i + 3 \in 4..m /\ (i + 3) - 3 = i
        BY <2>4
      <4> QED
        BY <2>6, <3>1, <4>1
    <3>3. \A a, b \in DOMAIN s : s[a] = s[b] => a = b
      BY <2>2, <3>1, <3>2
    <3> QED
      BY <3>3 DEF IsInjective, s
  <2>11. ASSUME NEW p \in got, NEW q \in S, d(q) < d(p) PROVE q \in got
    <3>1. PICK i \in 4..m : p = sent[i]
      BY <2>7
    <3>2. i - 3 \in 1..n /\ p = positions[i - 3]
      BY <2>6, <3>1
    <3>3. PICK k \in 1..n : positions[k] = q
      BY <2>2
    <3>4. ~(i - 3 < k)
      <4>1. d(p) \in Nat /\ d(q) \in Nat
        BY <2>5, <2>9
      <4>2. ~(d(p) <= d(q))
        BY <2>11, <4>1
      <4> QED
        BY <2>2, <3>2, <3>3, <4>2
    <3>5. k + 3 <= m
      BY <2>2, <2>4, <3>1, <3>4
    <3> QED
      BY <2>8, <3>3, <3>5
  <2>12. publishing = "done" => got = S
    <3> SUFFICES ASSUME publishing = "done", NEW q \in S PROVE q \in got
      BY <2>9
    <3>1. PICK k \in 1..n : positions[k] = q
      BY <2>2
    <3>2. k + 3 <= m
      BY <2>2, <2>4
    <3> QED
      BY <2>8, <3>1, <3>2
  <2> HIDE DEF got
  <2>13. /\ got \subseteq all /\ IsInjective(SubSeq(sent, 4, Len(sent)))
         /\ \A p \in got, q \in all : Distance(q, <<SpawnX \div Width, SpawnZ \div Width>>)
                                      < Distance(p, <<SpawnX \div Width, SpawnZ \div Width>>) => q \in got
         /\ publishing = "done" => got = all
    BY <2>1, <2>9, <2>10, <2>11, <2>12 DEF m, d, centerChunk
  <2> QED
    BY <2>13 DEF ChunksFromTheCenter, got, all
<1> QED
  BY <1>1, PublisherInvariant, PTL

\* SendInitial and the requests only read chunks.
THEOREM SendingChangesNoChunk == Spec => ChunkSpec
<1>1. Init => ChunkInit
  BY DEF Init
<1>2. [Next]_vars => [ChunkNext]_chunkVars
  BY DEF Next, vars, SendInitial, writeInitial, breakOff, flushInitial
<1> QED
  BY <1>1, <1>2, PTL DEF Spec, ChunkSpec

-----------------------------------------------------------------------------
(* Height maps *)

\* The greatest of a bounded set of integers.
LEMMA MaxBounded ==
    ASSUME NEW s \in SUBSET Int, s # {}, NEW n \in Int, \A y \in s : y <= n
    PROVE  Max(s) \in s /\ \A y \in s : y <= Max(s)
<1>1. PICK m \in s : \A y \in s : y <= m
  BY HasGreatest
<1>2. m \in s /\ \A y \in s : m >= y
  BY <1>1
<1>3. Max(s) \in s /\ \A y \in s : Max(s) >= y
  BY <1>2 DEF Max
<1> QED
  BY <1>3

\* Division rounds down: a height is in the sub-chunk of its index.
LEMMA SubChunkOf ==
    ASSUME NEW y \in Int
    PROVE  /\ SubIndex(y) = (y \div Width) - (MinY \div Width)
           /\ MinSubY = MinY \div Width /\ MaxSubY = MaxY \div Width
           /\ MinSubY \in Int /\ MaxSubY \in Int
           /\ SubY(SubIndex(y)) = (y \div Width) * Width
<1>1. floorDiv16(y) = y \div Width /\ MinSubY = MinY \div Width /\ MaxSubY = MaxY \div Width
  BY FloorDiv, ChunkAssumption DEF MinSubY, MaxSubY
<1>2. y \div Width \in Int /\ MinY \div Width \in Int /\ MaxY \div Width \in Int
  BY DivMod, ChunkAssumption
<1>3. SubIndex(y) = (y \div Width) - (MinY \div Width)
  BY <1>1 DEF SubIndex
<1>4. MinSubY + SubIndex(y) = y \div Width
  BY <1>1, <1>2, <1>3
<1> QED
  BY <1>1, <1>2, <1>3, <1>4 DEF SubY

\* A sub-chunk with a block is not empty.
LEMMA BlockInSubChunk ==
    ASSUME NEW x \in Side, NEW y \in Heights, NEW z \in Side, NEW l, RuntimeID(x, y, z, l) # Air
    PROVE  /\ l \in DOMAIN subChunks[SubIndex(y)]
           /\ DOMAIN subChunks[SubIndex(y)][l] # {}
           /\ ~SubChunkEmpty(SubIndex(y))
  BY DEF RuntimeID, inRange, storedAt, SubChunkEmpty

\* The search over the sub-chunks that are not empty finds the highest block.
LEMMA HighestIsTop ==
    ASSUME BlocksExact, NEW x \in Side, NEW z \in Side
    PROVE  HighestBlockY(x, z, 0) = Top(x, z) /\ Top(x, z) \in Heights
<1> DEFINE tops == {SubY(i) + y : i \in {j \in SubIndices : ~SubChunkEmpty(j)}, y \in Side}
           solid == {y \in tops : RuntimeID(x, y, z, 0) # Air}
<1>1. \A y \in Heights : RuntimeID(x, y, z, 0) = blocks[0][<<x, y, z>>]
  <2> SUFFICES ASSUME NEW y \in Heights PROVE RuntimeID(x, y, z, 0) = blocks[0][<<x, y, z>>]
    OBVIOUS
  <2> DEFINE c == <<x, y, z>>
  <2>1. c \in Cells /\ c[1] = x /\ c[2] = y /\ c[3] = z
    BY DEF Cells
  <2>2. 0 \in Layers
    BY ChunkAssumption
  <2> HIDE DEF c
  <2>3. RuntimeID(c[1], c[2], c[3], 0) = blocks[0][c]
    BY <2>1, <2>2 DEF BlocksExact
  <2> QED
    BY <2>1, <2>3 DEF c
<1>2. ASSUME NEW y \in solid PROVE y \in Solid(x, z)
  <2>1. y \in Heights
    BY DEF RuntimeID, inRange
  <2> QED
    BY <1>1, <2>1 DEF Solid
<1>3. ASSUME NEW y \in Solid(x, z) PROVE y \in solid
  <2>1. y \in Heights /\ RuntimeID(x, y, z, 0) # Air
    BY <1>1 DEF Solid
  <2>2. y \in Int
    BY <2>1, ChunkAssumption DEF Heights
  <2>3. SubIndex(y) \in SubIndices /\ ~SubChunkEmpty(SubIndex(y))
    BY <2>1, CellTypes, BlockInSubChunk
  <2>4. y % Width \in Side /\ y \div Width \in Int /\ y = Width * (y \div Width) + (y % Width)
    BY <2>2, DivMod
  <2>5. SubY(SubIndex(y)) = (y \div Width) * Width
    BY <2>2, SubChunkOf
  <2>6. Width * (y \div Width) = (y \div Width) * Width
    BY <2>4, ChunkAssumption
  <2>7. y = SubY(SubIndex(y)) + (y % Width)
    BY <2>4, <2>5, <2>6
  <2>8. y \in tops
    BY <2>3, <2>4, <2>7
  <2> QED
    BY <2>1, <2>8
<1>4. solid = Solid(x, z)
  BY <1>2, <1>3
<1>5. HighestBlockY(x, z, 0) = Top(x, z)
  <2>1. HighestBlockY(x, z, 0) = IF solid = {} THEN MinY ELSE Max(solid)
    BY DEF HighestBlockY
  <2> HIDE DEF solid
  <2> QED
    BY <1>4, <2>1 DEF Top
<1>6. Top(x, z) \in Heights
  <2> DEFINE s == Solid(x, z)
  <2>1. s \subseteq Heights
    BY DEF Solid
  <2> HIDE DEF s
  <2>2. s \subseteq Int /\ \A y \in s : y <= MaxY
    BY <2>1, ChunkAssumption DEF Heights
  <2>3. s # {} => Max(s) \in s
    BY <2>2, MaxBounded, ChunkAssumption
  <2>4. Top(x, z) = IF s = {} THEN MinY ELSE Max(s)
    BY DEF Top, s
  <2>5. MinY \in Heights
    BY ChunkAssumption DEF Heights
  <2> QED
    BY <2>1, <2>3, <2>4, <2>5
<1> QED
  BY <1>5, <1>6

\* columnHeight tells where the highest block of a column is.
LEMMA ColumnHeights ==
    ASSUME BlocksExact, NEW x \in Side, NEW z \in Side, NEW t \in MinSubY..MaxSubY
    PROVE  LET relative == Top(x, z) - t * Width
           IN columnHeight(t - MinSubY, x, z) =
                 IF relative < 0 THEN -1 ELSE IF relative < Width THEN relative ELSE Width
<1> DEFINE y == Top(x, z)
           q == y \div Width
           r == y % Width
<1>1. HighestBlockY(x, z, 0) = y /\ y \in Int
  BY HighestIsTop, ChunkAssumption DEF Heights
<1> HIDE DEF y
<1>2. q \in Int /\ r \in 0..(Width - 1) /\ y = Width * q + r
  BY <1>1, DivMod DEF Side
<1>3. /\ SubIndex(y) = q - MinSubY /\ MinSubY \in Int /\ MaxSubY \in Int
      /\ SubY(SubIndex(y)) = q * Width
  BY <1>1, SubChunkOf
<1>4. t \in Int /\ Width \in Nat \ {0}
  BY <1>3, ChunkAssumption
<1> HIDE DEF q, r
<1>5. y - t * Width = Width * (q - t) + r
  BY <1>1, <1>2, <1>4, Z3
<1>6. CASE q > t
  <2>1. Width * (q - t) >= Width
    BY <1>2, <1>4, <1>6, Z3
  <2>2. ~(y - t * Width < 0) /\ ~(y - t * Width < Width)
    BY <1>2, <1>4, <1>5, <2>1
  <2>3. columnHeight(t - MinSubY, x, z) = Width
    BY <1>1, <1>2, <1>3, <1>4, <1>6 DEF columnHeight
  <2> QED
    BY <2>2, <2>3 DEF y
<1>7. CASE q < t
  <2>1. Width * (q - t) <= -Width
    BY <1>2, <1>4, <1>7, Z3
  <2>2. y - t * Width < 0
    BY <1>2, <1>4, <1>5, <2>1
  <2>3. columnHeight(t - MinSubY, x, z) = -1
    BY <1>1, <1>2, <1>3, <1>4, <1>7 DEF columnHeight
  <2> QED
    BY <2>2, <2>3 DEF y
<1>8. CASE q = t
  <2>1. y - t * Width = r
    BY <1>2, <1>4, <1>5, <1>8
  <2>2. ~(y - t * Width < 0) /\ y - t * Width < Width
    BY <1>2, <1>4, <2>1
  <2>3. columnHeight(t - MinSubY, x, z) = y - t * Width
    BY <1>1, <1>2, <1>3, <1>4, <1>8 DEF columnHeight
  <2> QED
    BY <2>2, <2>3 DEF y
<1> QED
  BY <1>2, <1>4, <1>6, <1>7, <1>8

\* The height maps of the answers are right for every width, every dimension
\* and whatever has been set and cleared: HighestBlockY may skip the empty
\* sub-chunks, and subChunkHeightMap may leave a map out.
THEOREM HeightMapsAreExact == Spec => []HeightMapsExact
<1>1. ChunkInv => HeightMapsExact
  <2> SUFFICES ASSUME ChunkInv, NEW t \in MinSubY..MaxSubY, NEW x \in Side, NEW z \in Side
               PROVE  LET relative == Top(x, z) - t * Width
                      IN ReceivedHeight(subChunkEntry(TRUE, t).heights, x, z) =
                           IF relative < 0 THEN -1 ELSE IF relative < Width THEN relative ELSE Width
    BY DEF HeightMapsExact
  <2>1. BlocksExact
    BY DEF ChunkInv, StorageExact
  <2> DEFINE index == t - MinSubY
             data == [c \in Side \X Side |-> columnHeight(index, c[1], c[2])]
             map == subChunkHeightMap(index)
  <2>2. index \in SubIndices
    <3>1. MinSubY \in Int /\ MaxSubY \in Int
      BY SubChunkOf, ChunkAssumption
    <3> QED
      BY <3>1 DEF SubIndices
  <2>3. subChunkEntry(TRUE, t).heights = map
    BY <2>2 DEF subChunkEntry
  <2>4. data[<<x, z>>] = columnHeight(index, x, z) /\ <<x, z>> \in Side \X Side
    OBVIOUS
  <2>5. map = IF \A c \in Side \X Side : data[c] = Width THEN [type |-> "TooHigh", data |-> << >>]
              ELSE IF \A c \in Side \X Side : data[c] = -1 THEN [type |-> "TooLow", data |-> << >>]
              ELSE [type |-> "HasData", data |-> data]
    BY DEF subChunkHeightMap
  <2> HIDE DEF data, map
  <2>6. ReceivedHeight(map, x, z) = data[<<x, z>>]
    <3>1. CASE \A c \in Side \X Side : data[c] = Width
      <4>1. map.type = "TooHigh"
        BY <2>5, <3>1
      <4>2. ReceivedHeight(map, x, z) = Width
        BY <4>1 DEF ReceivedHeight
      <4> QED
        BY <2>4, <3>1, <4>2
    <3>2. CASE ~(\A c \in Side \X Side : data[c] = Width) /\ (\A c \in Side \X Side : data[c] = -1)
      <4>1. map.type = "TooLow"
        BY <2>5, <3>2
      <4>2. ReceivedHeight(map, x, z) = -1
        BY <4>1 DEF ReceivedHeight
      <4> QED
        BY <2>4, <3>2, <4>2
    <3>3. CASE ~(\A c \in Side \X Side : data[c] = Width) /\ ~(\A c \in Side \X Side : data[c] = -1)
      <4>1. map = [type |-> "HasData", data |-> data]
        BY <2>5, <3>3
      <4>2. map.type = "HasData" /\ map.data = data
        BY <4>1
      <4> QED
        BY <4>2 DEF ReceivedHeight
    <3> QED
      BY <3>1, <3>2, <3>3
  <2> QED
    BY <2>1, <2>3, <2>4, <2>6, ColumnHeights
<1> QED
  BY <1>1, PublisherInvariant, PTL

-----------------------------------------------------------------------------
(* Paletted storage *)

\* Powers of two up to the greatest width of an index.
LEMMA Powers ==
    /\ \A b \in 0..16 : 2^b \in Nat \ {0}
    /\ \A b \in 0..15 : 2^(b + 1) = 2 * 2^b
    /\ 2^0 = 1
<1>1. /\ 2^0 = 1 /\ 2^1 = 2 /\ 2^2 = 4 /\ 2^3 = 8 /\ 2^4 = 16 /\ 2^5 = 32 /\ 2^6 = 64
      /\ 2^7 = 128 /\ 2^8 = 256
  OBVIOUS
<1>2. /\ 2^9 = 512 /\ 2^10 = 1024 /\ 2^11 = 2048 /\ 2^12 = 4096 /\ 2^13 = 8192 /\ 2^14 = 16384
      /\ 2^15 = 32768 /\ 2^16 = 65536
  OBVIOUS
<1> DEFINE Step(b) == 2^b \in Nat \ {0} /\ 2^(b + 1) = 2 * 2^b
<1>3. Step(0) /\ Step(1) /\ Step(2) /\ Step(3) /\ Step(4) /\ Step(5) /\ Step(6) /\ Step(7)
  <2>1. 0 + 1 = 1 /\ 1 + 1 = 2 /\ 2 + 1 = 3 /\ 3 + 1 = 4 /\ 4 + 1 = 5 /\ 5 + 1 = 6 /\ 6 + 1 = 7 /\ 7 + 1 = 8
    OBVIOUS
  <2> QED
    BY <1>1, <2>1
<1>4. Step(8) /\ Step(9) /\ Step(10) /\ Step(11) /\ Step(12) /\ Step(13) /\ Step(14) /\ Step(15)
  <2>1. /\ 8 + 1 = 9 /\ 9 + 1 = 10 /\ 10 + 1 = 11 /\ 11 + 1 = 12 /\ 12 + 1 = 13 /\ 13 + 1 = 14
        /\ 14 + 1 = 15 /\ 15 + 1 = 16
    OBVIOUS
  <2> QED
    BY <1>1, <1>2, <2>1
<1>5. ASSUME NEW b \in 0..15 PROVE Step(b)
  <2>1. \/ b = 0 \/ b = 1 \/ b = 2 \/ b = 3 \/ b = 4 \/ b = 5 \/ b = 6 \/ b = 7
        \/ b = 8 \/ b = 9 \/ b = 10 \/ b = 11 \/ b = 12 \/ b = 13 \/ b = 14 \/ b = 15
    OBVIOUS
  <2> HIDE DEF Step
  <2> QED
    BY <1>3, <1>4, <2>1
<1>6. 2^16 \in Nat \ {0}
  BY <1>2
<1>7. ASSUME NEW b \in 0..16 PROVE 2^b \in Nat \ {0}
  <2>1. b \in 0..15 \/ b = 16
    OBVIOUS
  <2> QED
    BY <1>5, <1>6, <2>1
<1> QED
  BY <1>1, <1>5, <1>7

\* Halving: the quotient by the next power, and the digit in between.
LEMMA NextDigit ==
    ASSUME NEW n \in Nat, NEW p \in Nat \ {0}
    PROVE  /\ n \div p \in Nat /\ n \div (2 * p) \in Nat
           /\ (n \div p) % 2 \in {0, 1}
           /\ n \div p = 2 * (n \div (2 * p)) + ((n \div p) % 2)
<1> DEFINE q == n \div p
           r == n % p
           h == q \div 2
           t == q % 2
<1>1. q \in Nat /\ r \in 0..(p - 1) /\ n = p * q + r
  BY Z3
<1>2. h \in Nat /\ t \in {0, 1} /\ q = 2 * h + t
  <2> HIDE DEF q
  <2> QED
    BY <1>1
<1> DEFINE m == 2 * p
           s == p * t + r
<1>3. p * t \in {0, p}
  <2> HIDE DEF t
  <2> QED
    BY <1>2
<1>4. m \in Nat \ {0} /\ s \in 0..(m - 1)
  <2> HIDE DEF t, r
  <2>1. p * t + r \in 0..(2 * p - 1)
    BY <1>1, <1>3
  <2> QED
    BY <2>1
<1>5. n = m * h + s
  <2> HIDE DEF q, r, h, t
  <2>1. p * q = p * (2 * h + t)
    BY <1>2
  <2>2. p * (2 * h + t) = 2 * p * h + p * t
    BY <1>2, Z3
  <2> QED
    BY <1>1, <1>2, <1>3, <2>1, <2>2
<1> HIDE DEF m, s, q, h, t, r
<1>6. n \div m = h
  BY <1>2, <1>4, <1>5, Z3
<1> QED
  BY <1>1, <1>2, <1>6 DEF m, q, h, t

\* A number below 2^k is the sum of the powers of the k bits that are set in it.
LEMMA BinaryDigits ==
    ASSUME NEW k \in 0..16, NEW n \in Nat, n < 2^k
    PROVE  MapThenSumSet(LAMBDA b : 2^b, bitsOf(n, k)) = n
<1> DEFINE S == bitsOf(n, k)
           F == [b \in S |-> 2^b]
<1>0. S \subseteq 0..(k - 1) /\ k - 1 \in Int
  BY DEF bitsOf
<1>1. IsFiniteSet(S) /\ S \subseteq 0..15 /\ F \in [S -> Int]
  <2>1. IsFiniteSet(0..(k - 1))
    BY <1>0, FS_Interval
  <2>2. IsFiniteSet(S)
    BY <1>0, <2>1, FS_Subset
  <2>3. S \subseteq 0..15
    BY <1>0
  <2>4. \A b \in S : 2^b \in Int
    BY <2>3, Powers
  <2> HIDE DEF S
  <2> QED
    BY <2>2, <2>3, <2>4
<1>2. PICK g : IsSum(F, S, g) /\ MapThenSumSet(LAMBDA b : 2^b, S) = g[S]
  <2>1. \A b \in S : 2^b \in Int
    BY <1>1, Powers
  <2> HIDE DEF S
  <2> QED
    BY <1>1, <2>1, PowerSumIs
<1>a. \A s \in SUBSET S : \A x \in s : g[s] = F[x] + g[s \ {x}]
  <2>1. IsSum(F, S, g)
    BY <1>2
  <2> HIDE DEF F, S
  <2>2. TakesAny(F, S, g)
    BY <2>1, SumTakesAny
  <2> QED
    BY <2>2 DEF TakesAny
<1> DEFINE part(j) == bitsOf(n, j)
           T == {j \in Nat : j <= k => part(j) \subseteq S /\ g[part(j)] \in Int
                                        /\ n = g[part(j)] + 2^j * (n \div 2^j)}
<1>3. 0 \in T
  <2>1. part(0) = {}
    BY DEF bitsOf
  <2>2. g[{}] = 0
    BY <1>2 DEF IsSum
  <2>3. 2^0 = 1 /\ n \div 1 = n
    BY Powers
  <2>4. n = 0 + 2^0 * (n \div 2^0)
    BY <2>3
  <2> HIDE DEF S, part
  <2> QED
    BY <2>1, <2>2, <2>4
<1>4. ASSUME NEW j \in Nat, j \in T PROVE j + 1 \in T
  <2> SUFFICES ASSUME j + 1 <= k
               PROVE  /\ part(j + 1) \subseteq S /\ g[part(j + 1)] \in Int
                      /\ n = g[part(j + 1)] + 2^(j + 1) * (n \div 2^(j + 1))
    OBVIOUS
  <2>0. part(j) \subseteq S /\ g[part(j)] \in Int /\ n = g[part(j)] + 2^j * (n \div 2^j)
    BY <1>4
  <2>1. j \in 0..15 /\ j \in 0..16 /\ j \in 0..(k - 1)
    OBVIOUS
  <2> DEFINE p == 2^j
             q == n \div p
             h == n \div (2 * p)
             t == q % 2
  <2>2. p \in Nat \ {0} /\ 2^(j + 1) = 2 * p
    BY <2>1, Powers
  <2>3. q \in Nat /\ h \in Nat /\ t \in {0, 1} /\ q = 2 * h + t
    <3> HIDE DEF p
    <3> QED
      BY <2>2, NextDigit
  <2>4. part(j + 1) = IF t = 1 THEN part(j) \cup {j} ELSE part(j)
    <3> DEFINE Set(b) == (n \div 2^b) % 2 = 1
    <3>1. part(j) = {b \in 0..(j - 1) : Set(b)} /\ part(j + 1) = {b \in 0..(j + 1 - 1) : Set(b)}
      BY DEF bitsOf
    <3>2. t = 1 <=> Set(j)
      OBVIOUS
    <3> HIDE DEF Set, t, part
    <3>3. 0..(j + 1 - 1) = (0..(j - 1)) \cup {j}
      OBVIOUS
    <3> QED
      BY <3>1, <3>2, <3>3
  <2>5. part(j + 1) \subseteq S
    BY <2>1 DEF bitsOf
  <2>6. j \notin part(j)
    BY DEF bitsOf
  <2>7. g[part(j + 1)] = g[part(j)] + p * t
    <3>1. CASE t = 0
      <4>1. part(j + 1) = part(j)
        BY <2>4, <3>1
      <4>2. p * t = 0
        BY <2>2, <3>1
      <4> HIDE DEF p, t, part
      <4> QED
        BY <2>0, <4>1, <4>2
    <3>2. CASE t = 1
      <4>1. j \in part(j + 1) /\ part(j + 1) \ {j} = part(j)
        BY <2>4, <2>6, <3>2
      <4>2. p * t = p
        BY <2>2, <3>2
      <4>3. j \in S /\ F[j] = p
        BY <2>5, <4>1
      <4> DEFINE u == part(j + 1)
      <4>4. g[u] = F[j] + g[u \ {j}]
        <5>1. u \in SUBSET S /\ j \in u
          BY <2>5, <4>1
        <5> HIDE DEF u, F, S
        <5> QED
          BY <1>a, <5>1
      <4>5. g[u \ {j}] = g[part(j)]
        BY <4>1
      <4>6. g[part(j + 1)] = p + g[part(j)]
        BY <4>3, <4>4, <4>5
      <4> HIDE DEF p, t, part, u
      <4> QED
        BY <2>0, <2>2, <4>2, <4>6
    <3> QED
      BY <2>3, <3>1, <3>2
  <2> DEFINE old == g[part(j)]
             new == g[part(j + 1)]
  <2>8. old \in Int /\ n = old + p * q /\ new = old + p * t
    BY <2>0, <2>7
  <2>9. n = new + (2 * p) * h /\ new \in Int
    <3> HIDE DEF p, q, h, t, old, new
    <3>1. p * q = p * (2 * h + t)
      BY <2>3
    <3>2. p * (2 * h + t) = (2 * p) * h + p * t
      BY <2>2, <2>3, Z3
    <3>3. p * t \in Int /\ (2 * p) * h \in Int
      BY <2>2, <2>3
    <3> QED
      BY <2>8, <3>1, <3>2, <3>3
  <2>10. n = new + 2^(j + 1) * (n \div 2^(j + 1))
    <3> HIDE DEF new
    <3> QED
      BY <2>2, <2>9
  <2> HIDE DEF part, S
  <2> QED
    BY <2>5, <2>9, <2>10
<1>5. Nat \subseteq T
  <2> HIDE DEF T
  <2> QED
    BY <1>3, <1>4, SetInduction
<1>6. g[S] \in Int /\ n = g[S] + 2^k * (n \div 2^k)
  <2>1. k \in T
    BY <1>5
  <2> QED
    BY <2>1
<1>7. n \div 2^k = 0
  <2>1. 2^k \in Nat \ {0}
    BY Powers
  <2> DEFINE p == 2^k
  <2>2. p \in Nat \ {0} /\ n < p
    BY <2>1
  <2> HIDE DEF p
  <2>3. n \div p = 0
    BY <2>2, Z3
  <2> QED
    BY <2>3 DEF p
<1>8. 2^k * (n \div 2^k) = 0
  BY <1>7, Powers
<1>9. n = g[S]
  <2> HIDE DEF S
  <2> QED
    BY <1>6, <1>8
<1> QED
  BY <1>2, <1>9

BitWidths == {0, 1, 2, 3, 4, 5, 6, 8, 16}

\* A sub-chunk has no more values than indices of some width can tell apart,
\* and such an index fits into a word: 4096 and 16 of 32 bits in the code.
IndicesFit == \E b \in BitWidths : Width * Width * Width <= 2^b /\ b <= WordBits

\* A storage has Width^3 values.
LEMMA NumbersFinite ==
    /\ Width * Width * Width \in Nat \ {0}
    /\ IsFiniteSet(Numbers) /\ Cardinality(Numbers) = Width * Width * Width
    /\ Numbers \subseteq Nat
<1> DEFINE n == Width * Width * Width
<1>1. Width * Width \in Nat \ {0}
  BY ChunkAssumption, Z3
<1>2. n \in Nat \ {0}
  <2> DEFINE m == Width * Width
  <2>1. m \in Nat \ {0} /\ Width \in Nat \ {0}
    BY <1>1, ChunkAssumption
  <2> HIDE DEF m
  <2>2. m * Width \in Nat \ {0}
    BY <2>1, Z3
  <2> QED
    BY <2>2 DEF m
<1>3. Numbers = 0..(n - 1)
  BY DEF Numbers
<1> HIDE DEF n
<1>4. IsFiniteSet(0..(n - 1)) /\ Cardinality(0..(n - 1)) = n
  BY <1>2, FS_Interval
<1>5. 0..(n - 1) \subseteq Nat
  BY <1>2
<1> QED
  BY <1>2, <1>3, <1>4, <1>5 DEF n

\* What paletteIndices gives out: every number below the size of the palette to
\* one value.
LEMMA PaletteIndices ==
    ASSUME NEW values, DOMAIN values = Numbers
    PROVE  LET V == Range(values)
               index == paletteIndices(values)
           IN /\ IsFiniteSet(V) /\ Cardinality(V) \in 1..(Width * Width * Width)
              /\ DOMAIN index = V
              /\ \A v \in V : index[v] \in 0..(Cardinality(V) - 1)
              /\ \A v, w \in V : index[v] = index[w] => v = w
<1> DEFINE V == Range(values)
           uses(v) == {i \in Numbers : values[i] = v}
           firstUse == [v \in V |-> Min(uses(v))]
           R == {u \in V \X V : firstUse[u[1]] < firstUse[u[2]]}
           index == paletteIndices(values)
<1>1. V = {values[i] : i \in Numbers}
  BY DEF Range
<1>2. IsFiniteSet(V) /\ Cardinality(V) <= Width * Width * Width
  <2>1. values \in Surjection(Numbers, V) \/ [i \in Numbers |-> values[i]] \in Surjection(Numbers, V)
    BY <1>1 DEF Surjection
  <2>2. PICK f : f \in Surjection(Numbers, V)
    BY <2>1
  <2> HIDE DEF V
  <2>3. IsFiniteSet(Numbers) /\ Cardinality(Numbers) = Width * Width * Width
    BY NumbersFinite
  <2>4. IsFiniteSet(V) /\ Cardinality(V) <= Cardinality(Numbers)
    BY <2>2, <2>3, FS_Surjection
  <2> QED
    BY <2>3, <2>4
<1>3. Cardinality(V) \in Nat /\ Cardinality(V) # 0
  <2>1. 0 \in Numbers
    BY NumbersFinite DEF Numbers
  <2>2. V # {}
    BY <1>1, <2>1
  <2> HIDE DEF V
  <2> QED
    BY <1>2, <2>2, FS_CardinalityType, FS_EmptySet
<1>4. ASSUME NEW v \in V PROVE firstUse[v] \in Nat /\ firstUse[v] \in Numbers /\ values[firstUse[v]] = v
  <2>1. uses(v) # {} /\ uses(v) \in SUBSET Nat
    BY <1>1, NumbersFinite
  <2> DEFINE u == uses(v)
  <2>2. u \in SUBSET Nat /\ u # {}
    BY <2>1
  <2> HIDE DEF u
  <2>3. Min(u) \in u
    BY <2>2, MinOfNumbers
  <2>4. firstUse[v] = Min(u)
    BY DEF u
  <2>5. firstUse[v] \in uses(v)
    BY <2>3, <2>4 DEF u
  <2> QED
    BY <2>5, NumbersFinite
<1>5. index = [v \in V |-> Cardinality({w \in V : firstUse[w] < firstUse[v]})]
  BY DEF paletteIndices
<1> HIDE DEF V, firstUse, index
<1>6. StrictOrder(V, R)
  <2>1. ASSUME NEW p \in V, NEW q \in V PROVE <<p, q>> \in R <=> firstUse[p] < firstUse[q]
    OBVIOUS
  <2>2. \A p, q \in V : firstUse[p] = firstUse[q] => p = q
    BY <1>4
  <2>3. \A p \in V : firstUse[p] \in Nat
    BY <1>4
  <2> HIDE DEF R
  <2>4. \A p \in V : <<p, p>> \notin R
    BY <2>1, <2>3
  <2>5. ASSUME NEW p \in V, NEW q \in V, NEW r \in V, <<p, q>> \in R, <<q, r>> \in R
        PROVE  <<p, r>> \in R
    <3>1. firstUse[p] < firstUse[q] /\ firstUse[q] < firstUse[r]
      BY <2>1, <2>5
    <3>2. firstUse[p] \in Nat /\ firstUse[q] \in Nat /\ firstUse[r] \in Nat
      BY <2>3
    <3>3. firstUse[p] < firstUse[r]
      BY <3>1, <3>2
    <3> QED
      BY <2>1, <3>3
  <2>6. ASSUME NEW p \in V, NEW q \in V
        PROVE  p = q \/ <<p, q>> \in R \/ <<q, p>> \in R
    <3>1. firstUse[p] = firstUse[q] \/ firstUse[p] < firstUse[q] \/ firstUse[q] < firstUse[p]
      BY <2>3
    <3> QED
      BY <2>1, <2>2, <3>1
  <2> QED
    BY <2>4, <2>5, <2>6 DEF StrictOrder
<1>7. ASSUME NEW v \in V PROVE index[v] = Rank(V, R, v)
  <2>1. {w \in V : firstUse[w] < firstUse[v]} = {w \in V : <<w, v>> \in R}
    OBVIOUS
  <2> HIDE DEF R
  <2> QED
    BY <1>5, <2>1 DEF Rank
<1> HIDE DEF R
<1>8. /\ \A v \in V : Rank(V, R, v) \in 0..(Cardinality(V) - 1)
      /\ \A v, w \in V : Rank(V, R, v) = Rank(V, R, w) => v = w
  BY <1>2, <1>6, Ranks
<1>9. DOMAIN index = V
  BY <1>5
<1>10. Cardinality(V) \in 1..(Width * Width * Width)
  <2> DEFINE n == Width * Width * Width
             m == Cardinality(V)
  <2>1. n \in Nat /\ m \in Nat /\ m # 0 /\ m <= n
    BY <1>2, <1>3, NumbersFinite
  <2> HIDE DEF n, m
  <2>2. m \in 1..n
    BY <2>1
  <2> QED
    BY <2>2 DEF n, m
<1>11. \A v \in V : index[v] \in 0..(Cardinality(V) - 1)
  BY <1>7, <1>8
<1>12. \A v, w \in V : index[v] = index[w] => v = w
  BY <1>7, <1>8
<1> QED
  BY <1>2, <1>9, <1>10, <1>11, <1>12 DEF V, index

\* paletteBits finds a width that tells the values apart and fits into a word.
LEMMA PaletteBits ==
    ASSUME IndicesFit, NEW n \in 1..(Width * Width * Width)
    PROVE  paletteBits(n) \in 0..16 /\ n <= 2^paletteBits(n) /\ paletteBits(n) <= WordBits
<1> DEFINE B == {b \in {0, 1, 2, 3, 4, 5, 6, 8, 16} : n <= 2^b}
<1>1. PICK b \in BitWidths : Width * Width * Width <= 2^b /\ b <= WordBits
  BY DEF IndicesFit
<1>2. b \in 0..16
  BY DEF BitWidths
<1>3. 2^b \in Nat /\ n \in Nat /\ Width * Width * Width \in Nat
  <2> DEFINE m == Width * Width * Width
  <2>1. m \in Nat /\ n \in 1..m
    BY NumbersFinite
  <2>2. 2^b \in Nat
    BY <1>2, Powers
  <2> HIDE DEF m
  <2>3. n \in Nat
    BY <2>1
  <2> QED
    BY <2>1, <2>2, <2>3 DEF m
<1>4. n <= 2^b
  <2> DEFINE m == Width * Width * Width
             p == 2^b
  <2>1. n <= m /\ m <= p /\ n \in Nat /\ m \in Nat /\ p \in Nat
    BY <1>1, <1>3
  <2> HIDE DEF m, p
  <2>2. n <= p
    BY <2>1
  <2> QED
    BY <2>2 DEF p
<1>5. b \in B /\ B \in SUBSET Nat /\ B \in SUBSET (0..16) /\ \A c \in B : n <= 2^c
  BY <1>4 DEF BitWidths
<1>6. paletteBits(n) = Min(B)
  BY DEF paletteBits
<1> HIDE DEF B
<1>7. Min(B) \in B /\ Min(B) <= b
  BY <1>5, MinOfNumbers
<1> DEFINE m == Min(B)
<1>8. m \in 0..16 /\ n <= 2^m /\ m <= b
  BY <1>5, <1>7
<1> HIDE DEF m
<1>9. m <= WordBits
  BY <1>1, <1>2, <1>8, ChunkPublisherAssumption
<1> QED
  BY <1>6, <1>8, <1>9 DEF m

\* Division has one quotient and one remainder.
LEMMA OnePlace ==
    ASSUME NEW d \in Nat \ {0}, NEW a \in Int, NEW c \in Int,
           NEW b \in 0..(d - 1), NEW e \in 0..(d - 1), a * d + b = c * d + e
    PROVE  a = c /\ b = e
<1>1. (a - c) * d = e - b
  BY Z3
<1>2. ~(a - c >= 1)
  <2> SUFFICES ASSUME a - c >= 1 PROVE FALSE
    OBVIOUS
  <2>1. (a - c) * d >= d
    BY Z3
  <2> QED
    BY <1>1, <2>1
<1>3. ~(a - c <= -1)
  <2> SUFFICES ASSUME a - c <= -1 PROVE FALSE
    OBVIOUS
  <2>1. (a - c) * d <= -d
    BY Z3
  <2> QED
    BY <1>1, <2>1
<1>4. a = c
  BY <1>2, <1>3
<1> QED
  BY <1>4

\* What \div and % give for numbers.
LEMMA Division ==
    ASSUME NEW n \in Nat, NEW d \in Nat \ {0}
    PROVE  n \div d \in Nat /\ n % d \in 0..(d - 1) /\ n = d * (n \div d) + (n % d)
  BY Z3

\* The words of writePackedIndices: there is one for every number, and of its
\* bits those at the place of the number are the bits of its index.
LEMMA PackedWords ==
    ASSUME NEW bits \in 1..WordBits, NEW indices, NEW i \in Numbers
    PROVE  LET p == WordBits \div bits
           IN {b \in 0..(bits - 1) : (i % p) * bits + b \in packedIndices(indices, bits)[i \div p]}
                 = bitsOf(indices[i], bits)
<1> DEFINE p == WordBits \div bits
           n == Cardinality(Numbers)
           wc == (n + p - 1) \div p
           w == i \div p
           At(j) == {(j % p) * bits + b : b \in bitsOf(indices[j], bits)}
           words == packedIndices(indices, bits)
<1>0. WordBits \in Nat \ {0} /\ bits \in Nat \ {0} /\ bits <= WordBits
  BY ChunkPublisherAssumption
<1>1. p \in Nat \ {0}
  <2>1. p \in Nat /\ WordBits % bits \in 0..(bits - 1) /\ WordBits = bits * p + (WordBits % bits)
    BY <1>0, Division
  <2>2. ASSUME p = 0 PROVE FALSE
    <3>1. bits * p = 0
      BY <1>0, <2>2
    <3> HIDE DEF p
    <3> QED
      BY <1>0, <2>1, <3>1
  <2> QED
    BY <2>1, <2>2
<1> HIDE DEF p
<1>2. n \in Nat \ {0} /\ i \in 0..(n - 1) /\ \A j \in Numbers : j \in Nat
  <2>1. n = Width * Width * Width /\ n \in Nat \ {0} /\ Numbers \subseteq Nat
    BY NumbersFinite
  <2>2. i \in 0..(Width * Width * Width - 1)
    BY DEF Numbers
  <2> HIDE DEF n
  <2> QED
    BY <2>1, <2>2
<1> HIDE DEF n
<1>3. \A j \in Numbers : j \div p \in Nat /\ j % p \in 0..(p - 1) /\ j = p * (j \div p) + (j % p)
  BY <1>1, <1>2, Division
<1>4. w \in 0..(wc - 1)
  <2>1. w \in Nat /\ i % p \in 0..(p - 1) /\ i = p * w + (i % p)
    BY <1>3
  <2>2. n + p - 1 \in Nat
    BY <1>1, <1>2
  <2>3. wc \in Nat /\ (n + p - 1) % p \in 0..(p - 1) /\ n + p - 1 = p * wc + ((n + p - 1) % p)
    BY <1>1, <2>2, Division
  <2> DEFINE r == i % p
             s == (n + p - 1) % p
  <2>4. r \in 0..(p - 1) /\ s \in 0..(p - 1) /\ i = p * w + r /\ n + p - 1 = p * wc + s
    BY <2>1, <2>3
  <2>5. w \in Nat /\ wc \in Nat
    BY <2>1, <2>3
  <2> HIDE DEF w, wc, r, s
  <2>6. p * w < p * wc
    <3>1. p * w \in Int /\ p * wc \in Int
      BY <1>1, <2>5
    <3>2. p * w <= n - 1
      BY <1>2, <2>4, <3>1
    <3>3. p * wc > n - 1
      BY <1>1, <1>2, <2>4, <3>1
    <3> QED
      BY <1>2, <3>1, <3>2, <3>3
  <2>7. w < wc
    <3> SUFFICES ASSUME wc <= w PROVE FALSE
      BY <2>5
    <3>1. p * wc <= p * w
      BY <1>1, <2>5, Z3
    <3>2. p * w \in Int /\ p * wc \in Int
      BY <1>1, <2>5
    <3> QED
      BY <2>6, <3>1, <3>2
  <2> QED
    BY <2>5, <2>7
<1>5. words = [v \in 0..(wc - 1) |-> UNION {At(j) : j \in {m \in Numbers : m \div p = v}}]
  BY DEF packedIndices, p, n
<1> HIDE DEF wc, words
<1>6. words[w] = UNION {At(j) : j \in {m \in Numbers : m \div p = w}}
  BY <1>4, <1>5
<1>7. \A j \in Numbers : bitsOf(indices[j], bits) \subseteq 0..(bits - 1)
  BY DEF bitsOf
<1>8. ASSUME NEW b \in bitsOf(indices[i], bits)
      PROVE  b \in 0..(bits - 1) /\ (i % p) * bits + b \in words[w]
  <2>1. (i % p) * bits + b \in At(i)
    OBVIOUS
  <2>2. i \in {m \in Numbers : m \div p = w}
    OBVIOUS
  <2> HIDE DEF w, At
  <2> QED
    BY <1>6, <1>7, <2>1, <2>2
<1>9. ASSUME NEW b \in 0..(bits - 1), (i % p) * bits + b \in words[w]
      PROVE  b \in bitsOf(indices[i], bits)
  <2>1. PICK j \in {m \in Numbers : m \div p = w} : (i % p) * bits + b \in At(j)
    BY <1>6, <1>9
  <2>2. PICK e \in bitsOf(indices[j], bits) : (i % p) * bits + b = (j % p) * bits + e
    BY <2>1
  <2>3. j \in Numbers /\ j \div p = w
    BY <2>1
  <2>4. e \in 0..(bits - 1)
    BY <1>7, <2>3
  <2>5. i % p \in Int /\ j % p \in Int
    BY <1>1, <1>3, <2>3
  <2>6. i % p = j % p /\ b = e
    <3> DEFINE a == i % p
               c == j % p
    <3>1. a \in Int /\ c \in Int /\ a * bits + b = c * bits + e
      BY <2>2, <2>5
    <3> HIDE DEF a, c
    <3>2. a = c /\ b = e
      BY <1>0, <1>9, <2>4, <3>1, OnePlace
    <3> QED
      BY <3>2 DEF a, c
  <2>7. i = p * w + (i % p) /\ j = p * w + (j % p)
    BY <1>3, <2>3
  <2>8. i = j
    BY <2>6, <2>7
  <2> QED
    BY <2>2, <2>6, <2>8
<1>10. {b \in 0..(bits - 1) : (i % p) * bits + b \in words[w]} = bitsOf(indices[i], bits)
  <2> HIDE DEF w
  <2> QED
    BY <1>8, <1>9
<1> QED
  BY <1>10 DEF p, words

\* The client gets back the values that encodePalettedStorage was given.
LEMMA DecodesToTheValues ==
    ASSUME IndicesFit, NEW values, DOMAIN values = Numbers, NEW i \in Numbers
    PROVE  decodePalettedStorage(encodePalettedStorage(values))[i] = values[i]
<1> DEFINE V == Range(values)
           index == paletteIndices(values)
           count == Cardinality(V)
           bits == paletteBits(count)
           indices == [j \in Numbers |-> index[values[j]]]
           words == packedIndices(indices, bits)
           palette == [k \in Range(index) |-> CHOOSE v \in V : index[v] = k]
           storage == encodePalettedStorage(values)
           n == index[values[i]]
<1>1. /\ count \in 1..(Width * Width * Width) /\ DOMAIN index = V
      /\ \A v \in V : index[v] \in 0..(count - 1)
      /\ \A v, u \in V : index[v] = index[u] => v = u
  BY PaletteIndices
<1>2. values[i] \in V
  BY DEF Range
<1> HIDE DEF V, index
<1>3. /\ storage.bits = bits
      /\ storage.words = IF bits = 0 THEN << >> ELSE words
      /\ storage.palette = palette
  BY <1>1 DEF encodePalettedStorage, V, index
<1> HIDE DEF storage
<1>4. count \in Nat \ {0} /\ n \in 0..(count - 1)
  <2> DEFINE m == Width * Width * Width
  <2>1. m \in Nat /\ count \in 1..m
    BY <1>1, NumbersFinite
  <2>2. n \in 0..(count - 1)
    BY <1>1, <1>2
  <2> HIDE DEF m, count, n
  <2> QED
    BY <2>1, <2>2
<1>5. bits \in 0..16 /\ count <= 2^bits /\ bits <= WordBits
  <2> HIDE DEF count
  <2> QED
    BY <1>1, PaletteBits
<1>6. palette[n] = values[i]
  <2>1. n \in Range(index)
    BY <1>1, <1>2 DEF Range
  <2>2. palette[n] = CHOOSE v \in V : index[v] = n
    BY <2>1
  <2>3. \E v \in V : index[v] = n
    BY <1>2
  <2>4. palette[n] \in V /\ index[palette[n]] = n
    <3> HIDE DEF palette, n
    <3> QED
      BY <2>2, <2>3
  <2> QED
    BY <1>1, <1>2, <2>4
<1> DEFINE p == WordBits \div bits
           set == {b \in 0..(bits - 1) : (i % p) * bits + b \in words[i \div p]}
<1>7. CASE bits = 0
  <2>1. n = 0
    <3>1. count <= 1
      BY <1>5, <1>7, Powers
    <3> HIDE DEF count, n
    <3> QED
      BY <1>4, <3>1
  <2>2. decodePalettedStorage(storage)[i] = storage.palette[0]
    BY <1>3, <1>7 DEF decodePalettedStorage
  <2> QED
    BY <1>3, <1>6, <2>1, <2>2 DEF storage
<1>8. CASE bits # 0
  <2>1. bits \in 1..WordBits /\ bits \in 0..16
    <3> HIDE DEF bits
    <3> QED
      BY <1>5, <1>8, ChunkPublisherAssumption
  <2> HIDE DEF bits
  <2>2. set = bitsOf(indices[i], bits)
    <3> HIDE DEF indices
    <3> QED
      BY <2>1, PackedWords
  <2>3. indices[i] = n
    OBVIOUS
  <2>4. n \in Nat /\ n < 2^bits
    <3>1. 2^bits \in Nat
      BY <2>1, Powers
    <3> DEFINE q == 2^bits
    <3>2. q \in Nat /\ count <= q
      BY <1>5, <3>1
    <3> HIDE DEF q, n, count
    <3>3. n \in Nat /\ n < q
      BY <1>4, <3>2
    <3> QED
      BY <3>3 DEF q
  <2>5. MapThenSumSet(LAMBDA b : 2^b, bitsOf(n, bits)) = n
    <3> HIDE DEF n
    <3> QED
      BY <2>1, <2>4, BinaryDigits
  <2>6. MapThenSumSet(LAMBDA b : 2^b, set) = n
    <3>1. set = bitsOf(n, bits)
      BY <2>2, <2>3
    <3> HIDE DEF set, n
    <3> QED
      BY <2>5, <3>1
  <2>7. decodePalettedStorage(storage)[i] = storage.palette[MapThenSumSet(LAMBDA b : 2^b, set)]
    <3> DEFINE Set(j) == {b \in 0..(storage.bits - 1) :
                 (j % (WordBits \div storage.bits)) * storage.bits + b
                     \in storage.words[j \div (WordBits \div storage.bits)]}
    <3>1. decodePalettedStorage(storage)[i] =
             storage.palette[IF storage.bits = 0 THEN 0 ELSE MapThenSumSet(LAMBDA b : 2^b, Set(i))]
      BY DEF decodePalettedStorage
    <3>2. Set(i) = set /\ storage.bits # 0
      BY <1>3, <1>8
    <3> HIDE DEF Set, set
    <3> QED
      BY <3>1, <3>2
  <2> QED
    BY <1>3, <1>6, <2>6, <2>7 DEF storage
<1> QED
  BY <1>7, <1>8

-----------------------------------------------------------------------------
(* What the packets say of the cells *)

\* The i-th value is that of a cell of the sub-chunk, if it is in the dimension.
LEMMA CellOfNumber ==
    ASSUME NEW i \in Numbers
    PROVE  cellOf(i)[1] \in Side /\ cellOf(i)[2] \in Side /\ cellOf(i)[3] \in Side
<1> DEFINE m == Width * Width
           q == i \div m
           r == i % m
<1>0. Width \in Nat \ {0} /\ i \in Nat
  BY ChunkAssumption, NumbersFinite
<1>1. m \in Nat \ {0}
  BY <1>0, Z3
<1>2. i < m * Width
  <2>1. i <= m * Width - 1 /\ m * Width \in Nat
    BY NumbersFinite DEF Numbers
  <2> HIDE DEF m
  <2> QED
    BY <1>0, <2>1
<1> HIDE DEF m
<1>3. q \in Nat /\ r \in 0..(m - 1) /\ i = m * q + r
  BY <1>0, <1>1, Division
<1> HIDE DEF q, r
<1>4. q < Width
  <2> SUFFICES ASSUME Width <= q PROVE FALSE
    BY <1>0, <1>3
  <2>1. m * Width <= m * q
    BY <1>0, <1>1, <1>3, Z3
  <2>2. m * Width \in Int /\ m * q \in Int
    BY <1>0, <1>1, <1>3
  <2> QED
    BY <1>0, <1>1, <1>2, <1>3, <2>1, <2>2
<1>5. q \in Side
  BY <1>0, <1>3, <1>4 DEF Side
<1>6. i % Width \in Side
  BY <1>0, DivMod
<1>7. (i \div Width) % Width \in Side
  BY <1>0, DivMod
<1>8. cellOf(i)[1] = i \div (Width * Width) /\ cellOf(i)[2] = (i \div Width) % Width /\ cellOf(i)[3] = i % Width
  BY DEF cellOf
<1>9. i \div (Width * Width) = q
  BY DEF q, m
<1> QED
  BY <1>5, <1>6, <1>7, <1>8, <1>9

\* What is looked up is what was set.
LEMMA Lookups ==
    ASSUME StorageExact, NEW x \in Side, NEW y \in Heights, NEW z \in Side
    PROVE  /\ <<x, y, z>> \in Cells
           /\ BiomeID(x, y, z) = biomes[<<x, y, z>>]
           /\ \A l \in Layers : RuntimeID(x, y, z, l) = blocks[l][<<x, y, z>>]
<1> DEFINE c == <<x, y, z>>
<1>1. c \in Cells /\ c[1] = x /\ c[2] = y /\ c[3] = z
  BY DEF Cells
<1> HIDE DEF c
<1>2. BiomeID(c[1], c[2], c[3]) = biomes[c]
  BY <1>1 DEF StorageExact, BiomesExact
<1>3. \A l \in Layers : RuntimeID(c[1], c[2], c[3], l) = blocks[l][c]
  BY <1>1 DEF StorageExact, BlocksExact
<1> QED
  BY <1>1, <1>2, <1>3 DEF c

\* There are no blocks above HighestFilledSubChunk.
LEMMA AirAboveHighest ==
    ASSUME StorageExact, NEW c \in Cells, NEW l \in Layers, SubIndex(c[2]) > HighestFilledSubChunk
    PROVE  blocks[l][c] = Air
<1> SUFFICES ASSUME blocks[l][c] # Air PROVE FALSE
  OBVIOUS
<1>1. c[1] \in Side /\ c[2] \in Heights /\ c[3] \in Side /\ c = <<c[1], c[2], c[3]>>
  BY DEF Cells
<1>2. RuntimeID(c[1], c[2], c[3], l) # Air
  BY DEF StorageExact, BlocksExact
<1> DEFINE k == SubIndex(c[2])
           filled == {i \in SubIndices : i > 0 /\ ~SubChunkEmpty(i)}
<1>3. k \in SubIndices /\ ~SubChunkEmpty(k)
  BY <1>1, <1>2, CellTypes, BlockInSubChunk
<1>4. MaxSubY - MinSubY \in Int /\ k \in Int /\ k >= 0
  <2>1. MinSubY \in Int /\ MaxSubY \in Int
    BY SubChunkOf, ChunkAssumption
  <2> HIDE DEF k
  <2> QED
    BY <1>3, <2>1 DEF SubIndices
<1>5. HighestFilledSubChunk = IF filled = {} THEN 0 ELSE Max(filled)
  BY DEF HighestFilledSubChunk
<1>6. k > HighestFilledSubChunk
  OBVIOUS
<1> HIDE DEF k
<1>7. filled \in SUBSET Int /\ \A i \in filled : i <= MaxSubY - MinSubY
  BY <1>4 DEF SubIndices
<1>8. k = 0 \/ k \in filled
  BY <1>3, <1>4
<1> HIDE DEF filled
<1>9. CASE filled = {}
  BY <1>4, <1>5, <1>6, <1>8, <1>9
<1>10. CASE filled # {}
  <2>1. Max(filled) \in filled /\ \A i \in filled : i <= Max(filled)
    BY <1>4, <1>7, <1>10, MaxBounded
  <2>2. Max(filled) \in Int /\ Max(filled) > 0
    BY <1>7, <2>1 DEF filled
  <2>3. k > Max(filled)
    BY <1>5, <1>6, <1>10
  <2> QED
    BY <1>4, <1>8, <2>1, <2>2, <2>3
<1> QED
  BY <1>9, <1>10

\* For every width and dimension whose values have indices that fit into a word,
\* and whatever was set and cleared, nothing is above the HighestSubChunk of a
\* LevelChunk, and its biomes decode to those of the cells.
THEOREM LevelChunksAreExact ==
    ASSUME IndicesFit
    PROVE  Spec => []LevelChunkExact
<1>1. ChunkInv => LevelChunkExact
  <2> SUFFICES ASSUME ChunkInv PROVE LevelChunkExact
    OBVIOUS
  <2>1. StorageExact
    BY DEF ChunkInv
  <2>2. \A c \in Cells, l \in Layers : SubIndex(c[2]) > HighestFilledSubChunk => blocks[l][c] = Air
    BY <2>1, AirAboveHighest
  <2>3. ASSUME NEW index \in SubIndices, NEW i \in Numbers,
               <<cellOf(i)[1], SubY(index) + cellOf(i)[3], cellOf(i)[2]>> \in Cells
        PROVE  decodePalettedStorage(encodeBiomes[index])[i]
                  = biomes[<<cellOf(i)[1], SubY(index) + cellOf(i)[3], cellOf(i)[2]>>]
    <3> DEFINE values == [j \in Numbers |->
                 LET c == cellOf(j) IN BiomeID(c[1], SubY(index) + c[3], c[2])]
               x == cellOf(i)[1]
               y == SubY(index) + cellOf(i)[3]
               z == cellOf(i)[2]
    <3>1. encodeBiomes[index] = encodePalettedStorage(values)
      BY DEF encodeBiomes
    <3>2. values[i] = BiomeID(x, y, z) /\ DOMAIN values = Numbers
      OBVIOUS
    <3>3. x \in Side /\ y \in Heights /\ z \in Side
      BY <2>3 DEF Cells
    <3> HIDE DEF values, x, y, z
    <3>4. decodePalettedStorage(encodePalettedStorage(values))[i] = values[i]
      BY <3>2, DecodesToTheValues
    <3>5. BiomeID(x, y, z) = biomes[<<x, y, z>>]
      BY <2>1, <3>3, Lookups
    <3> QED
      BY <3>1, <3>2, <3>4, <3>5 DEF x, y, z
  <2> QED
    BY <2>2, <2>3 DEF LevelChunkExact
<1> QED
  BY <1>1, PublisherInvariant, PTL

\* SubChunkLayerCount leaves out only layers without blocks.
LEMMA AirAboveLayers ==
    ASSUME BlocksOK, NEW x \in Side, NEW y \in Heights, NEW z \in Side, NEW l \in Layers,
           l \notin 0..(SubChunkLayerCount(SubIndex(y)) - 1)
    PROVE  RuntimeID(x, y, z, l) = Air
<1> SUFFICES ASSUME RuntimeID(x, y, z, l) # Air PROVE FALSE
  OBVIOUS
<1> DEFINE k == SubIndex(y)
           used == {-1} \cup {m \in DOMAIN subChunks[k] : DOMAIN subChunks[k][m] # {}}
<1>1. k \in SubIndices /\ l \in DOMAIN subChunks[k] /\ DOMAIN subChunks[k][l] # {}
  BY CellTypes, BlockInSubChunk
<1>2. DOMAIN subChunks[k] \subseteq 0..254
  BY <1>1, ChunkAssumption DEF BlocksOK, LayersOK
<1>3. used \in SUBSET Int /\ used # {} /\ (\A m \in used : m <= 254) /\ l \in used
  BY <1>1, <1>2
<1>4. SubChunkLayerCount(k) = Max(used) + 1
  BY DEF SubChunkLayerCount
<1>5. l \in Nat /\ l \notin 0..(SubChunkLayerCount(k) - 1)
  BY ChunkAssumption
<1> HIDE DEF k, used
<1>6. Max(used) \in used /\ l <= Max(used)
  <2> DEFINE n == 254
  <2>1. n \in Int /\ \A m \in used : m <= n
    BY <1>3
  <2> HIDE DEF n
  <2>2. Max(used) \in used /\ \A m \in used : m <= Max(used)
    BY <1>3, <2>1, MaxBounded
  <2> QED
    BY <1>3, <2>2
<1>7. Max(used) \in Int
  BY <1>3, <1>6
<1> QED
  BY <1>4, <1>5, <1>6, <1>7

\* A cell of the sub-chunk t, as its height is computed there.
LEMMA CellsOfSubChunk ==
    ASSUME NEW t \in MinSubY..MaxSubY, NEW d \in Side, t * Width + d \in Heights
    PROVE  /\ SubY(t - MinSubY) + d = t * Width + d
           /\ SubIndex(t * Width + d) = t - MinSubY
           /\ t - MinSubY \in SubIndices
<1> DEFINE y == t * Width + d
<1>1. MinSubY \in Int /\ MaxSubY \in Int /\ Width \in Nat \ {0}
  BY SubChunkOf, ChunkAssumption
<1>2. t \in Int /\ d \in 0..(Width - 1) /\ y \in Int
  <2>1. t \in Int /\ d \in 0..(Width - 1) /\ d \in Int
    BY <1>1 DEF Side
  <2>2. t * Width \in Int
    BY <1>1, <2>1
  <2> QED
    BY <2>1, <2>2
<1>3. MinSubY + (t - MinSubY) = t
  BY <1>1, <1>2
<1>4. SubY(t - MinSubY) = t * Width
  BY <1>3 DEF SubY
<1>5. y \div Width = t
  <2> DEFINE q == y \div Width
             r == y % Width
  <2>1. q \in Int /\ r \in 0..(Width - 1) /\ y = Width * q + r
    BY <1>2, DivMod DEF Side
  <2> HIDE DEF q, r
  <2>2. Width * q = q * Width
    BY <1>1, <2>1
  <2>3. t * Width + d = q * Width + r
    BY <2>1, <2>2
  <2>4. q = t
    BY <1>1, <1>2, <2>1, <2>3, OnePlace
  <2> QED
    BY <2>4 DEF q
<1>6. SubIndex(y) = (y \div Width) - MinSubY
  BY <1>2, SubChunkOf
<1>7. SubIndex(y) = t - MinSubY
  BY <1>5, <1>6
<1>8. t - MinSubY \in SubIndices
  BY <1>1, <1>2 DEF SubIndices
<1> QED
  BY <1>4, <1>7, <1>8

\* The blocks that a client makes of the answer for a sub-chunk of the dimension.
LEMMA ReceivedBlocks ==
    ASSUME IndicesFit, ChunkInv, NEW t \in MinSubY..MaxSubY, NEW l \in Layers, NEW i \in Numbers,
           t * Width + cellOf(i)[3] \in Heights
    PROVE  Received(subChunkEntry(TRUE, t), l)[i]
              = blocks[l][<<cellOf(i)[1], t * Width + cellOf(i)[3], cellOf(i)[2]>>]
<1> DEFINE x == cellOf(i)[1]
           d == cellOf(i)[3]
           y == t * Width + d
           z == cellOf(i)[2]
           k == t - MinSubY
           entry == subChunkEntry(TRUE, t)
           count == SubChunkLayerCount(k)
           values == [j \in Numbers |->
               LET c == cellOf(j) IN RuntimeID(c[1], SubY(k) + c[3], c[2], l)]
<1>1. x \in Side /\ z \in Side /\ d \in Side /\ y \in Heights
  BY CellOfNumber
<1>2. SubY(k) + d = y /\ SubIndex(y) = k /\ k \in SubIndices
  BY <1>1, CellsOfSubChunk
<1>3. BlocksOK /\ StorageExact
  BY DEF ChunkInv
<1>4. RuntimeID(x, y, z, l) = blocks[l][<<x, y, z>>]
  BY <1>1, <1>3, Lookups
<1>5. /\ entry.result = IF SubChunkEmpty(k) THEN "SuccessAllAir" ELSE "Success"
      /\ entry.payload = IF SubChunkEmpty(k) THEN << >> ELSE encodeSubChunk(k)
  BY <1>2 DEF subChunkEntry
<1>6. values[i] = RuntimeID(x, y, z, l) /\ DOMAIN values = Numbers
  BY <1>2
<1> HIDE DEF x, d, y, z, k, entry, values
<1>7. CASE SubChunkEmpty(k)
  <2>1. RuntimeID(x, y, z, l) = Air
    BY <1>1, <1>2, <1>7, BlockInSubChunk
  <2>2. Received(entry, l)[i] = Air
    BY <1>5, <1>7 DEF Received
  <2>3. Received(entry, l)[i] = blocks[l][<<x, y, z>>]
    BY <1>4, <2>1, <2>2
  <2> QED
    BY <2>3 DEF entry, x, y, z, d
<1>8. CASE ~SubChunkEmpty(k)
  <2>1. entry.result = "Success" /\ entry.payload.layers = [m \in 0..(count - 1) |-> encodeBlockStorage(k, m)]
    BY <1>5, <1>8 DEF encodeSubChunk
  <2> HIDE DEF count
  <2>2. DOMAIN entry.payload.layers = 0..(count - 1)
    BY <2>1
  <2>3. CASE l \notin 0..(count - 1)
    <3>1. RuntimeID(x, y, z, l) = Air
      BY <1>1, <1>2, <1>3, <2>3, AirAboveLayers DEF count
    <3>2. Received(entry, l)[i] = Air
      BY <2>2, <2>3 DEF Received
    <3>3. Received(entry, l)[i] = blocks[l][<<x, y, z>>]
      BY <1>4, <3>1, <3>2
    <3> QED
      BY <3>3 DEF entry, x, y, z, d
  <2>4. CASE l \in 0..(count - 1)
    <3>1. Received(entry, l) = decodePalettedStorage(entry.payload.layers[l])
      BY <2>1, <2>2, <2>4 DEF Received
    <3>2. entry.payload.layers[l] = encodeBlockStorage(k, l)
      BY <2>1, <2>4
    <3>3. encodeBlockStorage(k, l) = encodePalettedStorage(values)
      BY DEF encodeBlockStorage, values
    <3>4. decodePalettedStorage(encodePalettedStorage(values))[i] = values[i]
      BY <1>6, DecodesToTheValues
    <3>5. Received(entry, l)[i] = blocks[l][<<x, y, z>>]
      BY <1>4, <1>6, <3>1, <3>2, <3>3, <3>4
    <3> QED
      BY <3>5 DEF entry, x, y, z, d
  <2> QED
    BY <2>3, <2>4
<1> QED
  BY <1>7, <1>8

\* For every width and dimension whose values have indices that fit into a word,
\* and whatever was set and cleared, the answers of the publisher to SubChunk
\* requests decode to the cells of the sub-chunk that was asked for, and requests
\* outside the dimension are refused.
THEOREM SubChunkAnswersAreExact ==
    ASSUME IndicesFit
    PROVE  Spec => []SubChunkAnswersExact
<1>1. ChunkInv => SubChunkAnswersExact
  <2> SUFFICES ASSUME ChunkInv, NEW t \in (MinSubY - 1)..(MaxSubY + 1), NEW same \in BOOLEAN
               PROVE  LET entry == subChunkEntry(same, t)
                          inside == same /\ t \in MinSubY..MaxSubY
                          here == {i \in Numbers : t * Width + cellOf(i)[3] \in Heights}
                      IN /\ inside <=> entry.result \in {"Success", "SuccessAllAir"}
                         /\ inside => \A l \in Layers :
                               LET received == Received(entry, l)
                               IN \A i \in here : LET c == cellOf(i) IN
                                     received[i] = blocks[l][<<c[1], t * Width + c[3], c[2]>>]
                         /\ entry.result = "Success" => entry.payload.y = t % 256
    BY DEF SubChunkAnswersExact
  <2> DEFINE entry == subChunkEntry(same, t)
             inside == same /\ t \in MinSubY..MaxSubY
             k == t - MinSubY
  <2>1. MinSubY \in Int /\ MaxSubY \in Int /\ t \in Int /\ k \in Int
    <3>1. MinSubY \in Int /\ MaxSubY \in Int
      BY SubChunkOf, ChunkAssumption
    <3> QED
      BY <3>1
  <2>2. t \in MinSubY..MaxSubY <=> k \in SubIndices
    BY <2>1 DEF SubIndices
  <2>3. CASE ~same
    <3>1. entry = Refused("InvalidDimension")
      BY <2>3 DEF subChunkEntry
    <3>2. entry.result = "InvalidDimension"
      BY <3>1 DEF Refused
    <3> HIDE DEF entry
    <3>3. /\ inside <=> entry.result \in {"Success", "SuccessAllAir"} /\ ~inside
          /\ entry.result # "Success"
      BY <2>3, <3>2
    <3> QED
      BY <3>3 DEF entry
  <2>4. CASE same /\ k \notin SubIndices
    <3>1. entry = Refused("IndexOutOfBounds")
      BY <2>4 DEF subChunkEntry
    <3>2. entry.result = "IndexOutOfBounds"
      BY <3>1 DEF Refused
    <3> HIDE DEF entry
    <3>3. /\ inside <=> entry.result \in {"Success", "SuccessAllAir"} /\ ~inside
          /\ entry.result # "Success"
      BY <2>2, <2>4, <3>2
    <3> QED
      BY <3>3 DEF entry
  <2>5. CASE same /\ k \in SubIndices
    <3>0. entry = subChunkEntry(TRUE, t)
      BY <2>5
    <3>1. /\ entry.result = IF SubChunkEmpty(k) THEN "SuccessAllAir" ELSE "Success"
          /\ entry.payload = IF SubChunkEmpty(k) THEN << >> ELSE encodeSubChunk(k)
      BY <2>5 DEF subChunkEntry
    <3>2. inside
      BY <2>2, <2>5
    <3>3. ASSUME NEW l \in Layers, NEW i \in Numbers, t * Width + cellOf(i)[3] \in Heights
          PROVE  Received(entry, l)[i] = blocks[l][<<cellOf(i)[1], t * Width + cellOf(i)[3], cellOf(i)[2]>>]
      <4>1. t \in MinSubY..MaxSubY
        BY <3>2
      <4> HIDE DEF entry
      <4> QED
        BY <3>0, <3>3, <4>1, ReceivedBlocks
    <3>4. entry.result = "Success" => entry.payload.y = t % 256
      <4> SUFFICES ASSUME entry.result = "Success" PROVE entry.payload.y = t % 256
        OBVIOUS
      <4>1. entry.payload = encodeSubChunk(k)
        BY <3>1
      <4>2. encodeSubChunk(k).y = (k + MinSubY) % 256
        BY DEF encodeSubChunk
      <4>3. k + MinSubY = t
        BY <2>1
      <4> HIDE DEF k, entry
      <4> QED
        BY <4>1, <4>2, <4>3
    <3> HIDE DEF entry
    <3>5. entry.result \in {"Success", "SuccessAllAir"}
      BY <3>1
    <3> QED
      BY <3>2, <3>3, <3>4, <3>5 DEF entry
  <2> QED
    BY <2>3, <2>4, <2>5
<1> QED
  BY <1>1, PublisherInvariant, PTL
=============================================================================
