SPECIFICATION Spec
CONSTANTS
    Width = 2
    MinY <- Bottom
    MaxY = 3
    Layers = {0, 1}
    BlockIDs = {0, 1, 2}
    Air = 0
    BiomeIDs = {0, 1}
    BaseY <- Base
    FlatLayers <- Flat
    FlatBiome = 1
    MaxEdits = 2
    Radius = 2
    SpawnX <- SpawnColumn
    SpawnZ = 3
    WordBits = 5
INVARIANTS
    StorageExact
    NothingKeptForAir
    SubChunkAnswersExact
    HeightMapsExact
    LevelChunkExact
    ChunksFromTheCenter
CHECK_DEADLOCK FALSE
