SPECIFICATION Spec
CONSTANTS
    Clients = {c1, c2}
    Nobody = Nobody
    MaxRuntimeID = 3
    MaxLost = 1
    OutOfOrder = {"ClientToServerHandshake"}
INVARIANT EndedSessionsRemoved
CHECK_DEADLOCK FALSE
