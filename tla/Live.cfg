SPECIFICATION FairSpec
CONSTANTS
    None = None
    k1 = k1
    k2 = k2
    Views = {"SessionDetailPanel"}
    Keys = {k1, k2}
    Occurring = {"session_stopped"}
    MaxChanges = 2
    MaxFailures = 2
    MaxMoves = 2
    MaxLate = 1
INVARIANTS
    TypeOK
    OpenMeansUpToDate
    ShowsItsKey
PROPERTIES
    NeverGoesBack
    CatchesUp
CHECK_DEADLOCK FALSE
