SPECIFICATION ReadModelSpec
CONSTANTS
    None = None
    d1 = d1
    s1 = s1
    s2 = s2
    a1 = a1
    i1 = i1
    i2 = i2
    t1 = t1
    Devcontainers = {d1}
    Sessions = {s1, s2}
    Approvals = {a1}
    InboxEvents = {i1, i2}
    Threads = {t1}
SYMMETRY MCSymmetry
INVARIANTS
    TypeOK
    RowsBelongTogether
    ApprovalsAreNotified
    RestingHasSummary
    WaitingHasPending
CHECK_DEADLOCK FALSE
