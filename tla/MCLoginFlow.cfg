SPECIFICATION FairSpec
CONSTANTS
    p = p
    q = q
    Packs = {p, q}
    Size <- Sizes
    ChunkSize = 2
    Session = Session
    Peers = {a, b}
    a = a
    b = b
    MaxPackets = 4
    MaxPeerWrites = 2
INVARIANTS
    TypeOK
    WireAgrees
    DownloadInStep
    WrittenOnce
PROPERTY LoginCompletes
CHECK_DEADLOCK FALSE
