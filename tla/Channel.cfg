SPECIFICATION Spec
CONSTANTS
    None = None
    c1 = c1
    c2 = c2
    k1 = k1
    k2 = k2
    k3 = k3
    q1 = q1
    Clients = {c1, c2}
    Conns = {k1, k2, k3}
    Requests = {q1}
    MaxCommands = 3
    MaxFaults = 3
    Exceptions = {"handler_raises", "transcript_raises", "cancel_swallowed", "response_too_long"}
SYMMETRY ChannelSymmetry
INVARIANTS
    TypeOK
    SlotIsTheRegistered
    SerialHandling
    NoHangingRequest
PROPERTY
    KeepsTheContract
CHECK_DEADLOCK FALSE
