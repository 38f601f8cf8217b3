------------------------------ MODULE Reducer ------------------------------
(***************************************************************************)
(* The Control Plane's projection vocabulary: which statuses exist, what a *)
(* Runtime Event looks like, and the pure mapping from an event to the     *)
(* writes it causes (vibing_api/core/reducer.py, `reduce`).                *)
(*                                                                         *)
(* The source builds a ProjectionUpdates record with one optional field    *)
(* per kind of write; here each field is a table indexed by event type.    *)
(* An event type outside a table's DOMAIN leaves that field unset.         *)
(***************************************************************************)

CONSTANT None       \* SQL NULL / Python None: no row, no id, no value

DevcontainerStatus ==
    {"created", "starting", "running", "stopping", "stopped", "error"}

\* The two halves of AgentSessionStatus, as the session routes split it.
Active  == {"starting", "running", "waiting_for_approval"}
Resting == {"completed", "failed", "stopped"}
AgentSessionStatus == Active \cup Resting

Decided == {"approved", "rejected"}
ApprovalStatus == {"pending"} \cup Decided

InboxEventStatus == {"unread", "read", "resolved"}

-----------------------------------------------------------------------------
\* The reducer, field by field.

\* Mutant: a failed command is projected by its event's name.
DevcontainerStatusAfterByName ==
    [devcontainer_starting |-> "starting", devcontainer_started |-> "running",
     devcontainer_stopping |-> "stopping", devcontainer_stopped |-> "stopped",
     devcontainer_failed   |-> "failed"]

\* ProjectionUpdates.devcontainer_status
DevcontainerStatusAfter ==
    [devcontainer_starting |-> "starting", devcontainer_started |-> "running",
     devcontainer_stopping |-> "stopping", devcontainer_stopped |-> "stopped",
     devcontainer_failed   |-> "error"]

\* ProjectionUpdates.final_status: only the three end-of-run events have one.
FinalStatus ==
    [session_completed |-> "completed", session_failed |-> "failed",
     session_stopped   |-> "stopped"]

\* Mutant: a resolved approval leaves the session where it was.
SessionStatusAfterNoResume ==
    [agent_session_started |-> "running",
     approval_requested    |-> "waiting_for_approval",
     session_completed     |-> "completed",
     session_failed        |-> "failed",
     session_stopped       |-> "stopped"]

\* ProjectionUpdates.session_status.  The current status is never consulted.
SessionStatusAfter ==
    [agent_session_started |-> "running",
     approval_requested    |-> "waiting_for_approval",
     approval_resolved     |-> "running",
     session_completed     |-> "completed",
     session_failed        |-> "failed",
     session_stopped       |-> "stopped"]

\* _INBOX_EVENT_TYPE: the four notable events that create an Inbox Event.
InboxEventTypeFor ==
    [agent_asked_question |-> "question",   approval_requested |-> "approval_request",
     session_completed    |-> "completion", session_failed     |-> "failure"]

InboxEventType == {"question", "approval_request", "completion", "failure"}

DevcontainerEventTypes ==
    {"devcontainer_starting", "devcontainer_started", "devcontainer_stopping",
     "devcontainer_stopped", "devcontainer_failed"}

\* Session events that carry no id besides the session's.
PlainSessionEventTypes ==
    {"agent_session_started", "agent_asked_question", "approval_requested",
     "session_completed", "session_failed", "session_stopped"}

EventTypes ==
    DevcontainerEventTypes \cup PlainSessionEventTypes
        \cup {"approval_resolved", "user_input_sent"}

-----------------------------------------------------------------------------
\* Events as records.  `approval`, `resolution` and `inbox` are the payload
\* keys the reducer reads; an absent key is None.

DevcontainerEvent(type, d) ==
    [type |-> type, dc |-> d, session |-> None,
     approval |-> None, resolution |-> None, inbox |-> None]

SessionEvent(type, d, s) == [DevcontainerEvent(type, d) EXCEPT !.session = s]

ApprovalResolved(d, s, a, r) ==
    [SessionEvent("approval_resolved", d, s)
        EXCEPT !.approval = a, !.resolution = r]

UserInputSent(d, s, i) ==
    [SessionEvent("user_input_sent", d, s) EXCEPT !.inbox = i]

\* `reduce` raises ValueError on an approval_resolved without a legal resolution.
Reducible(e) == e.type = "approval_resolved" => e.resolution \in Decided
=============================================================================
