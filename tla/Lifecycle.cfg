SPECIFICATION FairSpec
CONSTANTS
    None = None
    d1 = d1
    d2 = d2
    f1 = f1
    Devcontainers = {d1, d2}
    Folders = {f1}
    FolderOf <- OneFolder
    MaxInFlight = 1
    MaxAbandoned = 1
    MaxAgents = 1
INVARIANTS
    TypeOK
    TransientMeansBusy
    StatusIsTrue
PROPERTY
    TransientEnds
CHECK_DEADLOCK FALSE
