--------------------------- MODULE ChunkPublisher ----------------------------
(***************************************************************************)
(* What a client is sent of the world (internal/server/chunk_publisher.go):*)
(* SendInitial, which writes the chunks around the spawn to a connection,  *)
(* and the LevelChunk and SubChunk packets that are encoded from a chunk.  *)
(* The provider generates a chunk anew for every packet, so the chunk that *)
(* is sent is one that nobody has changed; the encoders are checked for    *)
(* changed ones too.                                                       *)
(*                                                                         *)
(* What the client makes of a packet is external: the decoders below read  *)
(* the format back, and Received is compared with the cells of the chunk.  *)
(***************************************************************************)
EXTENDS Chunk, FiniteSets, FiniteSetsExt, Functions

CONSTANTS
    Radius,      \* chunkPublisher.radius, at least 1
    SpawnX,      \* ChunkProvider.SpawnBlock
    SpawnZ,
    WordBits     \* bits of a word of packed indices (32)

ASSUME ChunkPublisherAssumption ==
    /\ Radius \in Nat \ {0}
    /\ SpawnX \in Int /\ SpawnZ \in Int
    /\ WordBits \in Nat \ {0}

VARIABLES
    sent,        \* the packets SendInitial has written
    publishing   \* "idle", "sending", "done" or "failed"

vars == <<chunkVars, sent, publishing>>

-----------------------------------------------------------------------------
(* SendInitial *)

abs(value) == IF value < 0 THEN -value ELSE value
larger(a, b) == IF a > b THEN a ELSE b

\* The right shift of a negative number rounds down.
centerChunk == <<SpawnX \div Width, SpawnZ \div Width>>

InOrder(S, Before(_, _)) ==
    [k \in 1..Cardinality(S) |-> CHOOSE p \in S : Cardinality({q \in S : Before(q, p)}) = k - 1]

\* The passes through three nested loops, over the distance, x and z, each with
\* the values of their variables, and the order they come in.
Passes(radius) == UNION {{d} \X (-d..d) \X (-d..d) : d \in 0..radius}
PassBefore(i, j) ==
    \/ i[1] < j[1]
    \/ i[1] = j[1] /\ i[2] < j[2]
    \/ i[1] = j[1] /\ i[2] = j[2] /\ i[3] < j[3]

\* The position that is appended in each of the passes.
Appended(center, passes) ==
    LET pass == InOrder(passes, PassBefore)
    IN [k \in DOMAIN pass |-> <<center[1] + pass[k][2], center[2] + pass[k][3]>>]

\* Mutant: every pass appends, also inside the square of its distance.
chunkPositionsAgain(center, radius) == Appended(center, Passes(radius))

\* A pass that is not at its distance from the center is passed over.
chunkPositions(center, radius) ==
    Appended(center, {i \in Passes(radius) : larger(abs(i[2]), abs(i[3])) = i[1]})

Header == <<"NetworkChunkPublisherUpdate", "SetTime", "SetSpawnPosition">>
initialPackets == Header \o chunkPositions(centerChunk, Radius)

SendInitial ==
    /\ publishing = "idle" /\ phase = "ready" /\ edits = 0
    /\ publishing' = "sending"
    /\ UNCHANGED <<chunkVars, sent>>

writeInitial ==
    /\ publishing = "sending" /\ Len(sent) < Len(initialPackets)
    /\ sent' = Append(sent, initialPackets[Len(sent) + 1])
    /\ UNCHANGED <<chunkVars, publishing>>

\* A write, the generator or the last Flush fails, or the context is cancelled.
breakOff ==
    /\ publishing = "sending"
    /\ publishing' = "failed"
    /\ UNCHANGED <<chunkVars, sent>>

flushInitial ==
    /\ publishing = "sending" /\ Len(sent) = Len(initialPackets)
    /\ publishing' = "done"
    /\ UNCHANGED <<chunkVars, sent>>

Init == ChunkInit /\ sent = << >> /\ publishing = "idle"

Next ==
    \/ ChunkNext /\ publishing = "idle" /\ UNCHANGED <<sent, publishing>>
    \/ SendInitial \/ writeInitial \/ breakOff \/ flushInitial

Spec == Init /\ [][Next]_vars

-----------------------------------------------------------------------------
(* Paletted storage: a function from Numbers to values *)

Numbers == 0..(Width * Width * Width - 1)

\* The x, z and y of the i-th value.
cellOf(i) == <<i \div (Width * Width), (i \div Width) % Width, i % Width>>

\* paletteIndices: values get their index in the order of their first use.
paletteIndices(values) ==
    LET firstUse == [v \in Range(values) |-> Min({i \in Numbers : values[i] = v})]
    IN [v \in Range(values) |-> Cardinality({w \in Range(values) : firstUse[w] < firstUse[v]})]

\* Mutant: as many bits as there are values.
paletteBitsShort(valueCount) == Min({b \in {0, 1, 2, 3, 4, 5, 6, 8, 16} : valueCount - 1 <= 2^b})

paletteBits(valueCount) == Min({b \in {0, 1, 2, 3, 4, 5, 6, 8, 16} : valueCount <= 2^b})

\* writePackedIndices.  A word is the set of its bits that are set, so that a
\* bitwise or is a union; an index does not extend over two words.
bitsOf(index, bitsPerIndex) == {b \in 0..(bitsPerIndex - 1) : (index \div 2^b) % 2 = 1}
packedIndices(indices, bitsPerIndex) ==
    LET indicesPerWord == WordBits \div bitsPerIndex
        wordCount == (Cardinality(Numbers) + indicesPerWord - 1) \div indicesPerWord
    IN [w \in 0..(wordCount - 1) |->
          UNION {{(i % indicesPerWord) * bitsPerIndex + b : b \in bitsOf(indices[i], bitsPerIndex)} :
                   i \in {j \in Numbers : j \div indicesPerWord = w}}]

encodePalettedStorage(values) ==
    LET index == paletteIndices(values)
        bits  == paletteBits(Cardinality(DOMAIN index))
    IN [bits    |-> bits,
        words   |-> IF bits = 0 THEN << >>
                    ELSE packedIndices([i \in Numbers |-> index[values[i]]], bits),
        palette |-> [k \in Range(index) |-> CHOOSE v \in DOMAIN index : index[v] = k]]

\* External: the client's reading of it.
decodePalettedStorage(storage) ==
    LET perWord == WordBits \div storage.bits
        Index(i) == MapThenSumSet(LAMBDA b : 2^b,
                        {b \in 0..(storage.bits - 1) :
                            (i % perWord) * storage.bits + b \in storage.words[i \div perWord]})
    IN [i \in Numbers |-> storage.palette[IF storage.bits = 0 THEN 0 ELSE Index(i)]]

-----------------------------------------------------------------------------
(* The packets *)

SubChunkLayerCount(index) ==
    Max({-1} \cup {l \in DOMAIN subChunks[index] : DOMAIN subChunks[index][l] # {}}) + 1

encodeBlockStorage(index, layer) ==
    encodePalettedStorage([i \in Numbers |->
        LET c == cellOf(i) IN RuntimeID(c[1], SubY(index) + c[3], c[2], layer)])

encodeSubChunk(index) ==
    [y |-> (index + MinSubY) % 256,
     layers |-> [l \in 0..(SubChunkLayerCount(index) - 1) |-> encodeBlockStorage(index, l)]]

encodeBiomes ==
    [index \in SubIndices |-> encodePalettedStorage([i \in Numbers |->
        LET c == cellOf(i) IN BiomeID(c[1], SubY(index) + c[3], c[2])])]

\* Mutant: the loop ends above the second sub-chunk.
HighestFilledAboveSecond ==
    LET filled == {i \in SubIndices : i > 1 /\ ~SubChunkEmpty(i)}
    IN IF filled = {} THEN 0 ELSE Max(filled)

HighestFilledSubChunk ==
    LET filled == {i \in SubIndices : i > 0 /\ ~SubChunkEmpty(i)}
    IN IF filled = {} THEN 0 ELSE Max(filled)

\* Mutant: the search starts below the top of a sub-chunk.
HighestBlockYBelowTop(x, z, layer) ==
    LET tops == {SubY(i) + y : i \in {j \in SubIndices : ~SubChunkEmpty(j)}, y \in 0..(Width - 2)}
        solid == {y \in tops : RuntimeID(x, y, z, layer) # Air}
    IN IF solid = {} THEN MinY ELSE Max(solid)

HighestBlockY(x, z, layer) ==
    LET tops == {SubY(i) + y : i \in {j \in SubIndices : ~SubChunkEmpty(j)}, y \in Side}
        solid == {y \in tops : RuntimeID(x, y, z, layer) # Air}
    IN IF solid = {} THEN MinY ELSE Max(solid)

\* The height of a column in a sub-chunk: above it, below it, or where.
columnHeight(index, x, z) ==
    LET y == HighestBlockY(x, z, 0)
        other == SubIndex(y)
    IN IF other > index THEN Width ELSE IF other < index THEN -1 ELSE y - SubY(other)

subChunkHeightMap(index) ==
    LET data == [c \in Side \X Side |-> columnHeight(index, c[1], c[2])]
    IN IF \A c \in Side \X Side : data[c] = Width THEN [type |-> "TooHigh", data |-> << >>]
       ELSE IF \A c \in Side \X Side : data[c] = -1 THEN [type |-> "TooLow", data |-> << >>]
       ELSE [type |-> "HasData", data |-> data]

Refused(result) == [result |-> result, heights |-> << >>, payload |-> << >>]

\* The answer to one offset of a SubChunkRequest.
subChunkEntry(sameDimension, targetY) ==
    LET index == targetY - MinSubY
    IN CASE ~sameDimension -> Refused("InvalidDimension")
         [] sameDimension /\ index \notin SubIndices -> Refused("IndexOutOfBounds")
         [] OTHER ->
              [result  |-> IF SubChunkEmpty(index) THEN "SuccessAllAir" ELSE "Success",
               heights |-> subChunkHeightMap(index),
               payload |-> IF SubChunkEmpty(index) THEN << >> ELSE encodeSubChunk(index)]

-----------------------------------------------------------------------------
(* Properties *)

\* External: the blocks a client has in a layer after it was answered.
Received(entry, layer) ==
    IF entry.result = "SuccessAllAir" \/ layer \notin DOMAIN entry.payload.layers
    THEN [i \in Numbers |-> Air]
    ELSE decodePalettedStorage(entry.payload.layers[layer])

\* External: how high the client takes a column of the sub-chunk to be.
ReceivedHeight(map, x, z) ==
    CASE map.type = "TooHigh" -> Width
      [] map.type = "TooLow"  -> -1
      [] OTHER -> map.data[<<x, z>>]

Solid(x, z) == {y \in Heights : blocks[0][<<x, y, z>>] # Air}
Top(x, z) == IF Solid(x, z) = {} THEN MinY ELSE Max(Solid(x, z))

\* A SubChunk answer gives the client the world: whatever was set and cleared,
\* the palette, its bits, the packed words and the layers that are left out
\* decode to the cells of the sub-chunk that was asked for, negative ones
\* included, and requests outside the dimension are refused.
SubChunkAnswersExact ==
    phase = "ready" =>
    \A targetY \in (MinSubY - 1)..(MaxSubY + 1), sameDimension \in BOOLEAN :
        LET entry == subChunkEntry(sameDimension, targetY)
            inside == sameDimension /\ targetY \in MinSubY..MaxSubY
            here == {i \in Numbers : targetY * Width + cellOf(i)[3] \in Heights}
        IN /\ inside <=> entry.result \in {"Success", "SuccessAllAir"}
           /\ inside => \A l \in Layers :
                 LET received == Received(entry, l)
                 IN \A i \in here : LET c == cellOf(i) IN
                       received[i] = blocks[l][<<c[1], targetY * Width + c[3], c[2]>>]
           /\ entry.result = "Success" => entry.payload.y = targetY % 256

\* The height maps that come with the answers say of every column whether its
\* highest block is above the sub-chunk, below it or where in it, although
\* empty sub-chunks are skipped; a column without blocks counts as its lowest.
HeightMapsExact ==
    phase = "ready" =>
    \A targetY \in MinSubY..MaxSubY :
        LET map == subChunkEntry(TRUE, targetY).heights
        IN \A x, z \in Side :
              LET relative == Top(x, z) - targetY * Width
              IN ReceivedHeight(map, x, z) =
                    IF relative < 0 THEN -1 ELSE IF relative < Width THEN relative ELSE Width

\* The client asks for sub-chunks up to HighestSubChunk only and takes the rest
\* for air: nothing is above it.  The biomes decode to those of the cells.
LevelChunkExact ==
    phase = "ready" =>
    /\ \A c \in Cells, l \in Layers :
          SubIndex(c[2]) > HighestFilledSubChunk => blocks[l][c] = Air
    /\ \A index \in SubIndices :
          LET values == decodePalettedStorage(encodeBiomes[index])
          IN \A i \in Numbers :
                LET c == <<cellOf(i)[1], SubY(index) + cellOf(i)[3], cellOf(i)[2]>>
                IN c \in Cells => values[i] = biomes[c]

Distance(p, q) == larger(abs(p[1] - q[1]), abs(p[2] - q[2]))

\* However SendInitial ends, the client has no chunk twice, and none without
\* every chunk that is nearer to the spawn; when it is done it has all within
\* the radius of the chunk the spawn block is in.
ChunksFromTheCenter ==
    LET near == ((SpawnX - Radius * Width)..(SpawnX + Radius * Width))
                \X ((SpawnZ - Radius * Width)..(SpawnZ + Radius * Width))
        all == {<<b[1] \div Width, b[2] \div Width>> : b \in near}
        got == {sent[i] : i \in 4..Len(sent)}
        spawn == <<SpawnX \div Width, SpawnZ \div Width>>
    IN /\ got \subseteq all /\ IsInjective(SubSeq(sent, 4, Len(sent)))
       /\ \A p \in got, q \in all : Distance(q, spawn) < Distance(p, spawn) => q \in got
       /\ publishing = "done" => got = all
=============================================================================
