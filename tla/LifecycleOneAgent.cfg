SPECIFICATION Spec
CONSTANTS
    None = None
    d1 = d1
    d2 = d2
    f1 = f1
    Devcontainers = {d1}
    Folders = {f1}
    FolderOf <- OneFolder
    MaxInFlight = 2
    MaxAbandoned = 1
    MaxAgents = 2
INVARIANT
    OneAgent
CHECK_DEADLOCK FALSE
