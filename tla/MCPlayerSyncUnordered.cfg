SPECIFICATION FairSpec
CONSTANTS
    Clients = {c1, c2}
    Nobody = Nobody
    MaxRuntimeID = 2
    MaxLost = 2
    OutOfOrder = {"RequestChunkRadius", "SetLocalPlayerAsInitialised", "Interact"}
INVARIANT PeersKnown
PROPERTY LostSessionsEnd
CHECK_DEADLOCK FALSE
