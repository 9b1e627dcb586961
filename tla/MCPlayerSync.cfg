SPECIFICATION Spec
CONSTANTS
    Clients = {c1, c2, c3}
    Nobody = Nobody
    MaxRuntimeID = 3
    MaxLost = 0
    OutOfOrder = {}
SYMMETRY Symmetry
VIEW AllButMotd
INVARIANTS
    TypeOK
    TableExact
    PeersKnown
    SavedOnce
    LeaveReachesPeers
CHECK_DEADLOCK FALSE
