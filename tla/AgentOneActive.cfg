SPECIFICATION Spec
CONSTANTS
    None = None
    d1 = d1
    s1 = s1
    s2 = s2
    a1 = a1
    i1 = i1
    i2 = i2
    r1 = r1
    r2 = r2
    t1 = t1
    Devcontainers = {d1}
    Sessions = {s1, s2}
    Approvals = {}
    InboxEvents = {i1, i2}
    Threads = {}
    Runs = {r1, r2}
    Asks = {}
    Reported = {"devcontainer_started", "devcontainer_stopped"}
    MaxInFlight = 2
INVARIANT
    OneActive
CHECK_DEADLOCK FALSE
