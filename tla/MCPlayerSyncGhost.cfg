SPECIFICATION Spec
CONSTANTS
    Clients = {c1, c2}
    Nobody = Nobody
    MaxRuntimeID = 2
    MaxLost = 1
    OutOfOrder = {}
INVARIANT NoGhostActors
CHECK_DEADLOCK FALSE
