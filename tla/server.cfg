\* Two clients of up to three connections each (six POST /next wrap the five states), a listen queue of one.
CONSTANTS
    Clients = {c1, c2}
    Requests <- MCRequests
    MaxConns = 3
    Backlog = 1
SPECIFICATION ServerSpec
INVARIANTS
    ServerTypeOK
    WaitingHeld
PROPERTIES
    RequestsSettled
    ShutdownUnlessBlocked
