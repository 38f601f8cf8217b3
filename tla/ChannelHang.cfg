SPECIFICATION FairSpec
CONSTANTS
    None = None
    c1 = c1
    c2 = c2
    k1 = k1
    k2 = k2
    k3 = k3
    q1 = q1
    Clients = {c1}
    Conns = {k1, k2}
    Requests = {q1}
    MaxCommands = 2
    MaxFaults = 1
    Exceptions = {"transcript_raises", "cancel_swallowed"}
PROPERTY
    Reconnects
CHECK_DEADLOCK FALSE
