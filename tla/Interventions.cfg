SPECIFICATION FairSpec
CONSTANTS
    None = None
    d1 = d1
    s1 = s1
    a1 = a1
    i1 = i1
    p1 = p1
    p2 = p2
    Devcontainers = {d1}
    Sessions = {s1}
    Approvals = {a1}
    InboxEvents = {i1}
    Threads = {p1, p2}
    DetailPanels = {p1}
    RowPanels = {p2}
    Reports = {"approval_requested", "agent_asked_question", "session_stopped"}
    MaxUnderWay = 1
    MaxLosses = 1
CONSTRAINTS
    OneLapse
    DeletionIsTheEnd
INVARIANTS
    InterventionTypeOK
    NotesAreTrue
PROPERTIES
    OneAnswerPerOpening
    ClickIsSettled
CHECK_DEADLOCK FALSE
