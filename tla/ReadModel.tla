----------------------------- MODULE ReadModel -----------------------------
(***************************************************************************)
(* The Control Plane's database and everything that writes it:             *)
(*   - the projection of Runtime Events (persist_runtime_event, project),  *)
(*     one SQLite transaction per event;                                   *)
(*   - the REST handlers.  `async def` handlers run on the event loop and  *)
(*     do not await between their check and their write, so each is one    *)
(*     action.  `def` handlers run on worker threads, and a SELECT opens   *)
(*     no transaction, so a handler that checks and then writes is two     *)
(*     actions with anything in between.                                   *)
(*                                                                         *)
(* The runtimes are an environment that may send any event about an        *)
(* existing row in any order: the module says what the database guarantees *)
(* whatever the runtimes do.  AgentSessions composes it with the agent.    *)
(*                                                                         *)
(* A table is a function from ids to rows; None is "no such row".  Ids are *)
(* UUIDs and never come back: `minted` holds every id ever used.  The      *)
(* runtime_events log is append-only and nothing reads it back, so it is   *)
(* represented by the foreign keys its INSERT checks (Accepted).           *)
(***************************************************************************)
EXTENDS Reducer

CONSTANTS
    Devcontainers, Sessions, Approvals, InboxEvents,    \* pools of row ids
    Threads                                             \* threadpool workers

ASSUME NoneIsNoId ==
    /\ None \notin Devcontainers \cup Sessions \cup Approvals \cup InboxEvents
    /\ None \notin DevcontainerStatus \cup AgentSessionStatus \cup Decided
    /\ None \notin InboxEventType

\* The pools are disjoint: the ids of different tables are never compared.
ASSUME DisjointIds ==
    /\ Devcontainers \cap (Sessions \cup Approvals \cup InboxEvents) = {}
    /\ Sessions \cap (Approvals \cup InboxEvents) = {}
    /\ Approvals \cap InboxEvents = {}

VARIABLES
    devcontainers,  \* id -> status
    sessions,       \* id -> [dc, status]
    approvals,      \* id -> [dc, session, status]
    inbox,          \* id -> [dc, session, approval, type, status]
    summaries,      \* session id -> final_status (UNIQUE agent_session_id)
    minted,         \* ids handed out so far
    requests        \* thread -> what it has checked and is about to write

tables == <<devcontainers, sessions, approvals, inbox, summaries, minted>>
rmvars == <<devcontainers, sessions, approvals, inbox, summaries, minted, requests>>

SessionRow  == [dc : Devcontainers, status : AgentSessionStatus]
ApprovalRow == [dc : Devcontainers, session : Sessions, status : ApprovalStatus]
InboxRow    == [dc : Devcontainers, session : Sessions, approval : Approvals \cup {None},
                type : InboxEventType, status : InboxEventStatus]
Request     == [op : {"delete"}, id : Sessions] \cup [op : {"read"}, id : InboxEvents]

\* A row is never mistaken for the lack of one.
ASSUME NoneIsNoRow == None \notin SessionRow \cup ApprovalRow \cup InboxRow \cup Request

\* A NULL or a row: every table and every request slot has this shape.
Optional(S) == S \cup {None}

TypeOK ==
    /\ devcontainers \in [Devcontainers -> Optional(DevcontainerStatus)]
    /\ sessions \in [Sessions -> Optional(SessionRow)]
    /\ approvals \in [Approvals -> Optional(ApprovalRow)]
    /\ inbox \in [InboxEvents -> Optional(InboxRow)]
    /\ summaries \in [Sessions -> Optional(Resting)]
    /\ minted \subseteq (Devcontainers \cup Sessions \cup Approvals \cup InboxEvents)
    /\ requests \in [Threads -> Optional(Request)]

ReadModelInit ==
    /\ devcontainers = [d \in Devcontainers |-> None]
    /\ sessions  = [s \in Sessions |-> None]
    /\ approvals = [a \in Approvals |-> None]
    /\ inbox     = [i \in InboxEvents |-> None]
    /\ summaries = [s \in Sessions |-> None]
    /\ minted    = {}
    /\ requests  = [t \in Threads |-> None]

Exists(table, id) == id \in DOMAIN table /\ table[id] # None
IsActive(s)  == Exists(sessions, s) /\ sessions[s].status \in Active
IsResting(s) == Exists(sessions, s) /\ sessions[s].status \in Resting

\* get_active_by_devcontainer returns a row
HasActive(d) == \E s \in Sessions : IsActive(s) /\ sessions[s].dc = d

-----------------------------------------------------------------------------
\* Event intake.  The INSERT into runtime_events comes first: it takes the
\* write lock (the rest is atomic) and checks the foreign keys.  An event that
\* fails there, or in `reduce`, is rolled back, logged and forgotten.

Accepted(e) ==
    /\ e.dc = None \/ Exists(devcontainers, e.dc)
    /\ e.session = None \/ Exists(sessions, e.session)
    /\ Reducible(e)

ProjectDevcontainer(e) ==
    devcontainers' =
        [d \in Devcontainers |->
            IF d = e.dc /\ e.type \in DOMAIN DevcontainerStatusAfter
            THEN DevcontainerStatusAfter[e.type] ELSE devcontainers[d]]

ProjectSession(e) ==
    sessions' =
        [s \in Sessions |->
            IF s = e.session /\ e.type \in DOMAIN SessionStatusAfter
            THEN [sessions[s] EXCEPT !.status = SessionStatusAfter[e.type]]
            ELSE sessions[s]]

\* `a` is the approval the event creates, None when it creates none.
ProjectApproval(e, a) ==
    approvals' =
        [x \in Approvals |->
            IF x = a
            THEN [dc |-> sessions[e.session].dc, session |-> e.session, status |-> "pending"]
            ELSE IF x = e.approval /\ e.type = "approval_resolved" /\ approvals[x] # None
                 THEN [approvals[x] EXCEPT !.status = e.resolution]
                 ELSE approvals[x]]

\* Mutant: deciding an approval leaves its notification alone.
ResolvedByAnswerOnly(e) ==
    {i \in InboxEvents : inbox[i] # None /\ e.type = "user_input_sent" /\ i = e.inbox}

\* Inbox rows the event resolves: the answered question, or the decided
\* approval's notification.
ResolvedBy(e) ==
    {i \in InboxEvents :
        /\ inbox[i] # None
        /\ \/ e.type = "user_input_sent" /\ i = e.inbox
           \/ /\ e.type = "approval_resolved"
              /\ Exists(approvals, e.approval)
              /\ inbox[i].approval = e.approval}

\* `n` is the inbox event the event creates, None when it creates none.
ProjectInbox(e, a, n) ==
    inbox' =
        [i \in InboxEvents |->
            IF i = n
            THEN [dc |-> e.dc, session |-> e.session, approval |-> a,
                  type |-> InboxEventTypeFor[e.type], status |-> "unread"]
            ELSE IF i \in ResolvedBy(e)
                 THEN [inbox[i] EXCEPT !.status = "resolved"]
                 ELSE inbox[i]]

\* Mutant: the blind INSERT of before ADR-0008, made tolerant (OR IGNORE).
ProjectSummaryOnce(e) ==
    summaries' =
        [s \in Sessions |->
            IF s = e.session /\ e.type \in DOMAIN FinalStatus /\ summaries[s] = None
            THEN FinalStatus[e.type] ELSE summaries[s]]

\* Mutant: the summary follows the session status.
ProjectSummaryAlways(e) ==
    summaries' =
        [s \in Sessions |->
            IF s = e.session /\ e.type \in DOMAIN SessionStatusAfter
            THEN SessionStatusAfter[e.type] ELSE summaries[s]]

\* SessionSummaryRepository.upsert: one row per session, overwritten.
ProjectSummary(e) ==
    summaries' =
        [s \in Sessions |->
            IF s = e.session /\ e.type \in DOMAIN FinalStatus
            THEN FinalStatus[e.type] ELSE summaries[s]]

\* The ids an event may be given for the row it creates in a pool.
FreshFor(pool, creates) == IF creates THEN pool \ minted ELSE {None}

PersistEvent(e) ==
    /\ Accepted(e)
    /\ \E a \in FreshFor(Approvals, e.type = "approval_requested"),
          n \in FreshFor(InboxEvents, e.type \in DOMAIN InboxEventTypeFor) :
         /\ ProjectDevcontainer(e)
         /\ ProjectSession(e)
         /\ ProjectApproval(e, a)
         /\ ProjectInbox(e, a, n)
         /\ ProjectSummary(e)
         /\ minted' = minted \cup ({a, n} \ {None})
    /\ UNCHANGED requests

\* The runtime loop's whole treatment of an event that arrived.
Intake(e) == PersistEvent(e) \/ (~Accepted(e) /\ UNCHANGED rmvars)

-----------------------------------------------------------------------------
\* Handlers on the event loop: their database part (the connection check and
\* the command they send belong to AgentSessions).

\* Mutant: no check for an active session.
StartRowUnchecked(d, s) ==
    /\ devcontainers[d] = "running"
    /\ s \in Sessions \ minted
    /\ sessions' = [sessions EXCEPT ![s] = [dc |-> d, status |-> "starting"]]
    /\ minted' = minted \cup {s}
    /\ UNCHANGED <<devcontainers, approvals, inbox, summaries, requests>>

StartRow(d, s) ==
    /\ devcontainers[d] = "running"
    /\ ~HasActive(d)
    /\ s \in Sessions \ minted
    /\ sessions' = [sessions EXCEPT ![s] = [dc |-> d, status |-> "starting"]]
    /\ minted' = minted \cup {s}
    /\ UNCHANGED <<devcontainers, approvals, inbox, summaries, requests>>

\* Mutant: no check for another active session.
ResumeRowUnchecked(s) ==
    /\ IsResting(s)
    /\ devcontainers[sessions[s].dc] = "running"
    /\ sessions' = [sessions EXCEPT ![s].status = "starting"]
    /\ UNCHANGED <<devcontainers, approvals, inbox, summaries, minted, requests>>

ResumeRow(s) ==
    /\ IsResting(s)
    /\ devcontainers[sessions[s].dc] = "running"
    /\ ~HasActive(sessions[s].dc)
    /\ sessions' = [sessions EXCEPT ![s].status = "starting"]
    /\ UNCHANGED <<devcontainers, approvals, inbox, summaries, minted, requests>>

-----------------------------------------------------------------------------
\* Threadpool handlers.

CreateDevcontainer(d) ==
    /\ d \notin minted
    /\ devcontainers' = [devcontainers EXCEPT ![d] = "created"]
    /\ minted' = minted \cup {d}
    /\ UNCHANGED <<sessions, approvals, inbox, summaries, requests>>

\* PATCH /devcontainers/{id} writes whatever status the body names.
PatchDevcontainer(d, status) ==
    /\ devcontainers[d] # None
    /\ devcontainers' = [devcontainers EXCEPT ![d] = status]
    /\ UNCHANGED <<sessions, approvals, inbox, summaries, minted, requests>>

\* Mutant: approval_requests without ON DELETE CASCADE.
CascadeLeavesApprovals(gone) ==
    /\ sessions'  = [s \in Sessions |-> IF s \in gone THEN None ELSE sessions[s]]
    /\ summaries' = [s \in Sessions |-> IF s \in gone THEN None ELSE summaries[s]]
    /\ inbox' = [i \in InboxEvents |->
                    IF inbox[i] = None \/ inbox[i].session \in gone THEN None ELSE inbox[i]]
    /\ UNCHANGED approvals

\* ON DELETE CASCADE from a set of sessions; ON DELETE SET NULL on
\* inbox_events.approval_request_id.
CascadeSessions(gone) ==
    LET goneApprovals ==
            {a \in Approvals : approvals[a] # None /\ approvals[a].session \in gone}
    IN
    /\ sessions'  = [s \in Sessions |-> IF s \in gone THEN None ELSE sessions[s]]
    /\ summaries' = [s \in Sessions |-> IF s \in gone THEN None ELSE summaries[s]]
    /\ approvals' = [a \in Approvals |-> IF a \in goneApprovals THEN None ELSE approvals[a]]
    /\ inbox' = [i \in InboxEvents |->
                    IF inbox[i] = None \/ inbox[i].session \in gone THEN None
                    ELSE IF inbox[i].approval \in goneApprovals
                         THEN [inbox[i] EXCEPT !.approval = None]
                         ELSE inbox[i]]

DeleteDevcontainer(d) ==
    /\ devcontainers[d] # None
    /\ devcontainers' = [devcontainers EXCEPT ![d] = None]
    /\ CascadeSessions({s \in Sessions : sessions[s] # None /\ sessions[s].dc = d})
    /\ UNCHANGED <<minted, requests>>

\* delete_agent_session reads the row on one connection ...
DeleteSessionCheck(t, s) ==
    /\ requests[t] = None
    /\ IsResting(s)
    /\ requests' = [requests EXCEPT ![t] = [op |-> "delete", id |-> s]]
    /\ UNCHANGED tables

\* ... and deletes it on another (a row that vanished meanwhile is a 404).
DeleteSessionCommit(t) ==
    /\ requests[t] # None
    /\ requests[t].op = "delete"
    /\ CascadeSessions({requests[t].id})
    /\ requests' = [requests EXCEPT ![t] = None]
    /\ UNCHANGED <<devcontainers, minted>>

\* InboxRepository.mark_read: SELECT, return early unless unread ...
MarkReadSelect(t, i) ==
    /\ requests[t] = None
    /\ Exists(inbox, i)
    /\ inbox[i].status = "unread"
    /\ requests' = [requests EXCEPT ![t] = [op |-> "read", id |-> i]]
    /\ UNCHANGED tables

\* ... then UPDATE ... WHERE id = ?, whatever the status is by then.
MarkReadUpdate(t) ==
    /\ requests[t] # None
    /\ requests[t].op = "read"
    /\ inbox' = [i \in InboxEvents |->
                    IF i = requests[t].id /\ inbox[i] # None
                    THEN [inbox[i] EXCEPT !.status = "read"] ELSE inbox[i]]
    /\ requests' = [requests EXCEPT ![t] = None]
    /\ UNCHANGED <<devcontainers, sessions, approvals, summaries, minted>>

\* POST /inbox-events/{id}/resolve: an unconditional UPDATE of an existing row.
ResolveInboxEvent(i) ==
    /\ Exists(inbox, i)
    /\ inbox' = [inbox EXCEPT ![i].status = "resolved"]
    /\ UNCHANGED <<devcontainers, sessions, approvals, summaries, minted, requests>>

-----------------------------------------------------------------------------
\* What the runtimes may send.  Agents and the host worker echo the ids of the
\* command that caused the event, and the routes only send commands whose ids
\* belong together; the order and number of the events is arbitrary.
RuntimeEvents ==
    {DevcontainerEvent(type, d) : type \in DevcontainerEventTypes, d \in Devcontainers} \cup
    {SessionEvent(type, sessions[s].dc, s) :
        type \in PlainSessionEventTypes, s \in {x \in Sessions : sessions[x] # None}} \cup
    {ApprovalResolved(approvals[a].dc, approvals[a].session, a, r) :
        a \in {x \in Approvals : approvals[x] # None}, r \in Decided \cup {None}} \cup
    {UserInputSent(inbox[i].dc, inbox[i].session, i) :
        i \in {x \in InboxEvents : inbox[x] # None /\ inbox[x].type = "question"}}

RestWrite ==
    \/ \E d \in Devcontainers :
        \/ CreateDevcontainer(d)
        \/ \E status \in DevcontainerStatus : PatchDevcontainer(d, status)
        \/ DeleteDevcontainer(d)
    \/ \E t \in Threads :
        \/ \E s \in Sessions : DeleteSessionCheck(t, s)
        \/ DeleteSessionCommit(t)
        \/ \E i \in InboxEvents : MarkReadSelect(t, i)
        \/ MarkReadUpdate(t)
    \/ \E i \in InboxEvents : ResolveInboxEvent(i)

ReadModelNext ==
    \/ \E e \in RuntimeEvents : Intake(e)
    \/ \E d \in Devcontainers, s \in Sessions : StartRow(d, s)
    \/ \E s \in Sessions : ResumeRow(s)
    \/ RestWrite

ReadModelSpec == ReadModelInit /\ [][ReadModelNext]_rmvars

-----------------------------------------------------------------------------
\* Properties.

\* Rows refer to rows that exist and that belong together: a session to its
\* devcontainer, an approval to a session of the same devcontainer, an inbox
\* event to a session and an approval of that same session, a summary to its
\* session.  The FKs alone do not give the second half: the reducer copies the
\* devcontainer id from the event in one place and from the session in another.
RowsBelongTogether ==
    /\ \A s \in Sessions : sessions[s] # None => devcontainers[sessions[s].dc] # None
    /\ \A a \in Approvals : approvals[a] # None =>
          /\ sessions[approvals[a].session] # None
          /\ sessions[approvals[a].session].dc = approvals[a].dc
    /\ \A i \in InboxEvents : inbox[i] # None =>
          /\ sessions[inbox[i].session] # None
          /\ sessions[inbox[i].session].dc = inbox[i].dc
          /\ inbox[i].approval # None =>
                /\ approvals[inbox[i].approval] # None
                /\ approvals[inbox[i].approval].session = inbox[i].session
    /\ \A s \in Sessions : summaries[s] # None => sessions[s] # None

\* Every approval request has exactly one notification, and deciding the
\* approval never leaves that notification unread: the two tables are written
\* by different repositories and only the transaction keeps them in step.
ApprovalsAreNotified ==
    /\ \A a \in Approvals : approvals[a] # None =>
          \E i \in InboxEvents : inbox[i] # None /\ inbox[i].approval = a
    /\ \A i, j \in InboxEvents :
          (inbox[i] # None /\ inbox[j] # None /\ inbox[i].approval # None
             /\ inbox[i].approval = inbox[j].approval) => i = j
    /\ \A i \in InboxEvents :
          (inbox[i] # None /\ inbox[i].approval # None
             /\ approvals[inbox[i].approval].status \in Decided)
          => inbox[i].status # "unread"

\* A session at rest has the summary of the run that ended it, however many
\* times it was resumed, stopped twice or finished while being stopped (ADR-0008:
\* one summary per session, overwritten by each terminal event).
RestingHasSummary ==
    \A s \in Sessions : IsResting(s) => summaries[s] = sessions[s].status

\* A session shown as waiting has an approval the user can decide: the routes
\* accept a resolution only for a pending approval of an active session, so a
\* waiting session without one could only be stopped.
WaitingHasPending ==
    \A s \in Sessions :
        (Exists(sessions, s) /\ sessions[s].status = "waiting_for_approval") =>
            \E a \in Approvals : approvals[a] # None /\ approvals[a].session = s
                                    /\ approvals[a].status = "pending"
=============================================================================
