-------------------------- MODULE ReadModelProofs --------------------------
(***************************************************************************)
(* What the database guarantees for any set of ids, any number of worker   *)
(* threads and any runtimes: the invariants of ReadModel, proved.          *)
(***************************************************************************)
EXTENDS ReadModel, Naturals, Sequences, TLAPS

\* What the routes and the reducer rely on about an event: it is about rows that
\* belong together, or about none.
WellFormed(e) ==
    /\ e.type \in EventTypes
    /\ e.dc \in Devcontainers
    /\ e.session \in Optional(Sessions)
    /\ e.type \notin DevcontainerEventTypes =>
          /\ e.session \in Sessions
          /\ sessions[e.session] # None
          /\ sessions[e.session].dc = e.dc
    /\ e.type = "approval_resolved" =>
          /\ e.approval \in Approvals
          /\ approvals[e.approval] # None
          /\ approvals[e.approval].session = e.session

\* Every event a runtime may send is about rows that belong together: the premise
\* under which the projection of one event keeps the tables consistent.
LEMMA RuntimeEventsWellFormed ==
    ASSUME TypeOK, RowsBelongTogether, NEW e \in RuntimeEvents
    PROVE  WellFormed(e)
<1> USE NoneIsNoId
<1>1. CASE \E type \in DevcontainerEventTypes, d \in Devcontainers :
                e = DevcontainerEvent(type, d)
  BY <1>1 DEF WellFormed, DevcontainerEvent, EventTypes, DevcontainerEventTypes, Optional
<1>2. CASE \E s \in Sessions : sessions[s] # None
                /\ \E type \in PlainSessionEventTypes : e = SessionEvent(type, sessions[s].dc, s)
  BY <1>2 DEF WellFormed, SessionEvent, DevcontainerEvent, EventTypes, PlainSessionEventTypes,
              Optional, TypeOK, SessionRow
<1>3. CASE \E a \in Approvals, r \in Decided \cup {None} : approvals[a] # None
                /\ e = ApprovalResolved(approvals[a].dc, approvals[a].session, a, r)
  BY <1>3 DEF WellFormed, ApprovalResolved, SessionEvent, DevcontainerEvent, EventTypes,
              DevcontainerEventTypes, Optional, TypeOK, ApprovalRow, RowsBelongTogether
<1>4. CASE \E i \in InboxEvents : inbox[i] # None
                /\ e = UserInputSent(inbox[i].dc, inbox[i].session, i)
  BY <1>4 DEF WellFormed, UserInputSent, SessionEvent, DevcontainerEvent, EventTypes,
              DevcontainerEventTypes, Optional, TypeOK, InboxRow, RowsBelongTogether
<1> QED
  BY <1>1, <1>2, <1>3, <1>4 DEF RuntimeEvents

-----------------------------------------------------------------------------
\* Type correctness.

\* Projecting a well-formed event leaves every table well typed.
LEMMA PersistEventType ==
    ASSUME TypeOK, NEW e, WellFormed(e), PersistEvent(e)
    PROVE  TypeOK'
<1> USE NoneIsNoId DEF TypeOK
<1>1. PICK a \in FreshFor(Approvals, e.type = "approval_requested"),
            n \in FreshFor(InboxEvents, e.type \in DOMAIN InboxEventTypeFor) :
          /\ ProjectDevcontainer(e) /\ ProjectSession(e) /\ ProjectApproval(e, a)
          /\ ProjectInbox(e, a, n) /\ ProjectSummary(e)
          /\ minted' = minted \cup ({a, n} \ {None})
  BY DEF PersistEvent
<1>2. requests' = requests
  BY DEF PersistEvent
<1>3. /\ a \in Optional(Approvals)
      /\ a # None => e.type = "approval_requested"
      /\ n \in Optional(InboxEvents)
      /\ n # None => e.type \in DOMAIN InboxEventTypeFor
  BY <1>1 DEF FreshFor, Optional
<1>4. devcontainers' \in [Devcontainers -> Optional(DevcontainerStatus)]
  BY <1>1 DEF ProjectDevcontainer, DevcontainerStatusAfter, DevcontainerStatus, Optional
<1>5. sessions' \in [Sessions -> Optional(SessionRow)]
  <2>1. ASSUME NEW s \in Sessions
        PROVE  (IF s = e.session /\ e.type \in DOMAIN SessionStatusAfter
                THEN [sessions[s] EXCEPT !.status = SessionStatusAfter[e.type]]
                ELSE sessions[s]) \in Optional(SessionRow)
    <3>1. CASE s = e.session /\ e.type \in DOMAIN SessionStatusAfter
      <4>1. e.type \notin DevcontainerEventTypes
        BY <3>1 DEF SessionStatusAfter, DevcontainerEventTypes
      <4>2. sessions[s] \in SessionRow
        BY <3>1, <4>1 DEF WellFormed, Optional
      <4>3. SessionStatusAfter[e.type] \in AgentSessionStatus
        BY <3>1 DEF SessionStatusAfter, AgentSessionStatus, Active, Resting
      <4> QED BY <3>1, <4>2, <4>3 DEF SessionRow, Optional
    <3>2. CASE ~(s = e.session /\ e.type \in DOMAIN SessionStatusAfter)
      BY <3>2
    <3> QED BY <3>1, <3>2
  <2> QED BY <1>1, <2>1 DEF ProjectSession
<1>6. approvals' \in [Approvals -> Optional(ApprovalRow)]
  <2>1. a # None => /\ e.session \in Sessions
                    /\ sessions[e.session] \in SessionRow
    BY <1>3 DEF WellFormed, DevcontainerEventTypes, Optional
  <2>2. e.type = "approval_resolved" => e.resolution \in Decided
    BY DEF PersistEvent, Accepted, Reducible
  <2>3. ASSUME NEW x \in Approvals
        PROVE  (IF x = a
                THEN [dc |-> sessions[e.session].dc, session |-> e.session, status |-> "pending"]
                ELSE IF x = e.approval /\ e.type = "approval_resolved" /\ approvals[x] # None
                     THEN [approvals[x] EXCEPT !.status = e.resolution]
                     ELSE approvals[x]) \in Optional(ApprovalRow)
    BY <2>1, <2>2 DEF ApprovalRow, SessionRow, ApprovalStatus, Optional
  <2> QED BY <1>1, <2>3 DEF ProjectApproval
<1>7. inbox' \in [InboxEvents -> Optional(InboxRow)]
  <2>1. n # None => /\ e.session \in Sessions
                    /\ InboxEventTypeFor[e.type] \in InboxEventType
    BY <1>3 DEF WellFormed, DevcontainerEventTypes, InboxEventTypeFor, InboxEventType
  <2>2. ASSUME NEW i \in InboxEvents
        PROVE  (IF i = n
                THEN [dc |-> e.dc, session |-> e.session, approval |-> a,
                      type |-> InboxEventTypeFor[e.type], status |-> "unread"]
                ELSE IF i \in ResolvedBy(e)
                     THEN [inbox[i] EXCEPT !.status = "resolved"]
                     ELSE inbox[i]) \in Optional(InboxRow)
    <3>1. CASE i = n
      BY <3>1, <1>3, <2>1 DEF InboxRow, InboxEventStatus, Optional, WellFormed
    <3>2. CASE i # n /\ i \in ResolvedBy(e)
      BY <3>2 DEF ResolvedBy, InboxRow, InboxEventStatus, Optional
    <3>3. CASE i # n /\ i \notin ResolvedBy(e)
      BY <3>3
    <3> QED BY <3>1, <3>2, <3>3
  <2> QED BY <1>1, <2>2 DEF ProjectInbox
<1>8. summaries' \in [Sessions -> Optional(Resting)]
  BY <1>1 DEF ProjectSummary, FinalStatus, Resting, Optional
<1>9. minted' \subseteq (Devcontainers \cup Sessions \cup Approvals \cup InboxEvents)
  BY <1>1, <1>3 DEF Optional
<1> QED
  BY <1>2, <1>4, <1>5, <1>6, <1>7, <1>8, <1>9

\* Deleting sessions, with everything that cascades from them, too.
LEMMA CascadeType ==
    ASSUME TypeOK, NEW gone, CascadeSessions(gone)
    PROVE  /\ sessions' \in [Sessions -> Optional(SessionRow)]
           /\ summaries' \in [Sessions -> Optional(Resting)]
           /\ approvals' \in [Approvals -> Optional(ApprovalRow)]
           /\ inbox' \in [InboxEvents -> Optional(InboxRow)]
<1> USE DEF TypeOK, Optional
<1>1. /\ sessions' \in [Sessions -> Optional(SessionRow)]
      /\ summaries' \in [Sessions -> Optional(Resting)]
      /\ approvals' \in [Approvals -> Optional(ApprovalRow)]
  BY DEF CascadeSessions
<1>2. PICK goneApprovals :
        inbox' = [i \in InboxEvents |->
                    IF inbox[i] = None \/ inbox[i].session \in gone THEN None
                    ELSE IF inbox[i].approval \in goneApprovals
                         THEN [inbox[i] EXCEPT !.approval = None]
                         ELSE inbox[i]]
  BY DEF CascadeSessions
<1>3. ASSUME NEW i \in InboxEvents, inbox[i] # None
      PROVE  [inbox[i] EXCEPT !.approval = None] \in InboxRow
  BY <1>3 DEF InboxRow
<1> QED
  BY <1>1, <1>2, <1>3

\* Every step of the read model keeps the tables well typed.
LEMMA NextType ==
    ASSUME TypeOK, RowsBelongTogether, [ReadModelNext]_rmvars
    PROVE  TypeOK'
<1> USE NoneIsNoId
<1>1. ASSUME NEW e \in RuntimeEvents, Intake(e)
      PROVE  TypeOK'
  <2>1. WellFormed(e)
    BY <1>1, RuntimeEventsWellFormed
  <2>2. CASE PersistEvent(e)
    BY <2>1, <2>2, PersistEventType
  <2>3. CASE UNCHANGED rmvars
    BY <2>3 DEF rmvars, TypeOK
  <2> QED
    BY <1>1, <2>2, <2>3 DEF Intake
<1>2. ASSUME NEW d \in Devcontainers, NEW s \in Sessions, StartRow(d, s)
      PROVE  TypeOK'
  <2>1. [dc |-> d, status |-> "starting"] \in SessionRow
    BY DEF SessionRow, AgentSessionStatus, Active
  <2> QED
    BY <1>2, <2>1 DEF StartRow, TypeOK, Optional
<1>3. ASSUME NEW s \in Sessions, ResumeRow(s)
      PROVE  TypeOK'
  <2>1. [sessions[s] EXCEPT !.status = "starting"] \in SessionRow
    BY <1>3 DEF ResumeRow, IsResting, Exists, TypeOK, Optional, SessionRow, AgentSessionStatus, Active
  <2> QED
    BY <1>3, <2>1 DEF ResumeRow, TypeOK, Optional
<1>4. ASSUME NEW d \in Devcontainers, CreateDevcontainer(d)
      PROVE  TypeOK'
  BY <1>4 DEF CreateDevcontainer, TypeOK, Optional, DevcontainerStatus
<1>5. ASSUME NEW d \in Devcontainers, NEW status \in DevcontainerStatus, PatchDevcontainer(d, status)
      PROVE  TypeOK'
  BY <1>5 DEF PatchDevcontainer, TypeOK, Optional
<1>6. ASSUME NEW d \in Devcontainers, DeleteDevcontainer(d)
      PROVE  TypeOK'
  BY <1>6, CascadeType DEF DeleteDevcontainer, TypeOK, Optional
<1>7. ASSUME NEW t \in Threads, NEW s \in Sessions, DeleteSessionCheck(t, s)
      PROVE  TypeOK'
  BY <1>7 DEF DeleteSessionCheck, tables, TypeOK, Optional, Request
<1>8. ASSUME NEW t \in Threads, DeleteSessionCommit(t)
      PROVE  TypeOK'
  BY <1>8, CascadeType DEF DeleteSessionCommit, TypeOK, Optional
<1>9. ASSUME NEW t \in Threads, NEW i \in InboxEvents, MarkReadSelect(t, i)
      PROVE  TypeOK'
  BY <1>9 DEF MarkReadSelect, tables, TypeOK, Optional, Request
<1>10. ASSUME NEW t \in Threads, MarkReadUpdate(t)
       PROVE  TypeOK'
  <2>1. ASSUME NEW i \in InboxEvents, inbox[i] # None
        PROVE  [inbox[i] EXCEPT !.status = "read"] \in InboxRow
    BY <2>1 DEF TypeOK, Optional, InboxRow, InboxEventStatus
  <2> QED
    BY <1>10, <2>1 DEF MarkReadUpdate, TypeOK, Optional
<1>11. ASSUME NEW i \in InboxEvents, ResolveInboxEvent(i)
       PROVE  TypeOK'
  <2>1. [inbox[i] EXCEPT !.status = "resolved"] \in InboxRow
    BY <1>11 DEF ResolveInboxEvent, Exists, TypeOK, Optional, InboxRow, InboxEventStatus
  <2> QED
    BY <1>11, <2>1 DEF ResolveInboxEvent, TypeOK, Optional
<1>12. CASE UNCHANGED rmvars
  BY <1>12 DEF rmvars, TypeOK
<1> QED
  BY <1>1, <1>2, <1>3, <1>4, <1>5, <1>6, <1>7, <1>8, <1>9, <1>10, <1>11, <1>12
  DEF ReadModelNext, RestWrite

-----------------------------------------------------------------------------
\* Consistency of the tables.

\* Row ids are never reused: every row there is carries an id handed out before.
\* This is what RowsBelongTogether lacks to be inductive, since a second row under
\* the id of an existing approval or session would take over what refers to it.
IdsAreMinted ==
    /\ \A d \in Devcontainers : devcontainers[d] # None => d \in minted
    /\ \A s \in Sessions : sessions[s] # None => s \in minted
    /\ \A a \in Approvals : approvals[a] # None => a \in minted
    /\ \A i \in InboxEvents : inbox[i] # None => i \in minted

\* What projecting one event does, with the rows it creates named: an approval for
\* approval_requested, a notification for a notable event, both under unused ids.
Projected(e, a, n) ==
    /\ a \in Optional(Approvals) /\ (a # None <=> e.type = "approval_requested")
    /\ n \in Optional(InboxEvents) /\ (n # None <=> e.type \in DOMAIN InboxEventTypeFor)
    /\ a # None => approvals[a] = None /\ a \notin minted
    /\ n # None => inbox[n] = None /\ n \notin minted
    /\ ProjectDevcontainer(e) /\ ProjectSession(e) /\ ProjectApproval(e, a)
    /\ ProjectInbox(e, a, n) /\ ProjectSummary(e)
    /\ minted' = minted \cup ({a, n} \ {None})

\* An intake step projects its event or changes nothing.
LEMMA IntakeProjects ==
    ASSUME TypeOK, RowsBelongTogether, IdsAreMinted, NEW e \in RuntimeEvents, Intake(e)
    PROVE  /\ WellFormed(e)
           /\ \/ ~Accepted(e) /\ UNCHANGED rmvars
              \/ Reducible(e) /\ \E a, n : Projected(e, a, n)
<1> USE NoneIsNoId
<1>1. WellFormed(e)
  BY RuntimeEventsWellFormed
<1>2. ASSUME PersistEvent(e)
      PROVE  Reducible(e) /\ \E a, n : Projected(e, a, n)
  <2>1. PICK a \in FreshFor(Approvals, e.type = "approval_requested"),
              n \in FreshFor(InboxEvents, e.type \in DOMAIN InboxEventTypeFor) :
            /\ ProjectDevcontainer(e) /\ ProjectSession(e) /\ ProjectApproval(e, a)
            /\ ProjectInbox(e, a, n) /\ ProjectSummary(e)
            /\ minted' = minted \cup ({a, n} \ {None})
    BY <1>2 DEF PersistEvent
  <2>2. /\ a \in Optional(Approvals) /\ (a # None <=> e.type = "approval_requested")
        /\ a # None => approvals[a] = None /\ a \notin minted
    BY <2>1 DEF FreshFor, Optional, IdsAreMinted
  <2>3. /\ n \in Optional(InboxEvents) /\ (n # None <=> e.type \in DOMAIN InboxEventTypeFor)
        /\ n # None => inbox[n] = None /\ n \notin minted
    BY <2>1 DEF FreshFor, Optional, IdsAreMinted
  <2> QED
    BY <1>2, <2>1, <2>2, <2>3 DEF Projected, PersistEvent, Accepted
<1> QED
  BY <1>1, <1>2 DEF Intake

\* No step hands out an id twice or makes a row without one.
LEMMA NextMinted ==
    ASSUME TypeOK, RowsBelongTogether, IdsAreMinted, [ReadModelNext]_rmvars
    PROVE  IdsAreMinted'
<1> USE NoneIsNoId DEF IdsAreMinted
<1>1. ASSUME NEW e \in RuntimeEvents, Intake(e)
      PROVE  IdsAreMinted'
  <2>1. CASE UNCHANGED rmvars
    BY <2>1 DEF rmvars
  <2>2. ASSUME NEW a, NEW n, Projected(e, a, n)
        PROVE  IdsAreMinted'
    <3>0. ASSUME NEW d \in Devcontainers, devcontainers'[d] # None
          PROVE  d \in minted'
      <4>1. devcontainers[d] # None
        BY <1>1, <3>0 DEF Intake, PersistEvent, Accepted, ProjectDevcontainer, rmvars, Exists
      <4> QED BY <2>2, <4>1 DEF Projected
    <3>1. minted \subseteq minted' /\ (a # None => a \in minted') /\ (n # None => n \in minted')
      BY <2>2 DEF Projected
    <3>2. ASSUME NEW s \in Sessions, sessions'[s] # None
          PROVE  s \in minted'
      <4>1. sessions[s] # None
        <5>1. CASE s = e.session /\ e.type \in DOMAIN SessionStatusAfter
          <6>1. WellFormed(e)
            BY <1>1, IntakeProjects
          <6> QED
            BY <5>1, <6>1 DEF WellFormed, SessionStatusAfter, DevcontainerEventTypes
        <5>2. CASE ~(s = e.session /\ e.type \in DOMAIN SessionStatusAfter)
          BY <2>2, <3>2, <5>2 DEF Projected, ProjectSession
        <5> QED BY <5>1, <5>2
      <4> QED BY <3>1, <4>1
    <3>3. ASSUME NEW x \in Approvals, approvals'[x] # None
          PROVE  x \in minted'
      BY <2>2, <3>1, <3>3 DEF Projected, ProjectApproval
    <3>4. ASSUME NEW i \in InboxEvents, inbox'[i] # None
          PROVE  i \in minted'
      BY <2>2, <3>1, <3>4 DEF Projected, ProjectInbox, ResolvedBy
    <3> QED BY <3>0, <3>2, <3>3, <3>4
  <2> QED BY <1>1, <2>1, <2>2, IntakeProjects
<1>2. ASSUME NEW d \in Devcontainers, NEW s \in Sessions, StartRow(d, s)
      PROVE  IdsAreMinted'
  BY <1>2 DEF StartRow, TypeOK
<1>3. ASSUME NEW s \in Sessions, ResumeRow(s)
      PROVE  IdsAreMinted'
  BY <1>3 DEF ResumeRow, TypeOK, IsResting, Exists
<1>4. ASSUME NEW gone, CascadeSessions(gone), UNCHANGED minted,
             \A d \in Devcontainers : devcontainers'[d] # None => devcontainers[d] # None
      PROVE  IdsAreMinted'
  BY <1>4 DEF CascadeSessions
<1>5. CASE RestWrite
  BY <1>4, <1>5 DEF RestWrite, CreateDevcontainer, PatchDevcontainer, DeleteDevcontainer,
        DeleteSessionCheck, DeleteSessionCommit, MarkReadSelect, MarkReadUpdate,
        ResolveInboxEvent, Exists, tables, TypeOK
<1>6. CASE UNCHANGED rmvars
  BY <1>6 DEF rmvars
<1> QED
  BY <1>1, <1>2, <1>3, <1>5, <1>6 DEF ReadModelNext

\* An event moves statuses and adds rows; it never removes a row or changes what a
\* row refers to.  A row of each table, field by field.
LEMMA ProjectedSessions ==
    ASSUME TypeOK, NEW e, WellFormed(e), NEW a, NEW n, Projected(e, a, n), NEW s \in Sessions
    PROVE  /\ sessions'[s] = None <=> sessions[s] = None
           /\ sessions[s] # None =>
                /\ sessions'[s].dc = sessions[s].dc
                /\ sessions'[s].status =
                      IF s = e.session /\ e.type \in DOMAIN SessionStatusAfter
                      THEN SessionStatusAfter[e.type] ELSE sessions[s].status
<1> USE NoneIsNoId
<1>1. sessions'[s] = IF s = e.session /\ e.type \in DOMAIN SessionStatusAfter
                     THEN [sessions[s] EXCEPT !.status = SessionStatusAfter[e.type]]
                     ELSE sessions[s]
  BY DEF Projected, ProjectSession
<1>2. s = e.session /\ e.type \in DOMAIN SessionStatusAfter => sessions[s] # None
  BY DEF WellFormed, SessionStatusAfter, DevcontainerEventTypes
<1>3. sessions[s] # None => sessions[s] \in SessionRow
  BY DEF TypeOK, Optional
<1>4. CASE s = e.session /\ e.type \in DOMAIN SessionStatusAfter
  <2>1. SessionStatusAfter[e.type] \in AgentSessionStatus
    BY <1>4 DEF SessionStatusAfter, AgentSessionStatus, Active, Resting
  <2>2. /\ sessions'[s] \in SessionRow
        /\ sessions'[s].dc = sessions[s].dc
        /\ sessions'[s].status = SessionStatusAfter[e.type]
    BY <1>1, <1>2, <1>3, <1>4, <2>1 DEF SessionRow
  <2> QED
    BY <1>2, <1>4, <2>2, NoneIsNoRow
<1>5. CASE ~(s = e.session /\ e.type \in DOMAIN SessionStatusAfter)
  BY <1>1, <1>5
<1> QED
  BY <1>4, <1>5

\* The same for approval requests: an old row keeps what it refers to, a new one is
\* about the event's session.
LEMMA ProjectedApprovals ==
    ASSUME TypeOK, NEW e, WellFormed(e), Reducible(e), NEW a, NEW n, Projected(e, a, n),
           NEW x \in Approvals
    PROVE  /\ x = a => /\ approvals'[x] # None
                       /\ approvals'[x].dc = sessions[e.session].dc
                       /\ approvals'[x].session = e.session
                       /\ approvals'[x].status = "pending"
           /\ x # a => /\ approvals'[x] = None <=> approvals[x] = None
                       /\ approvals[x] # None =>
                            /\ approvals'[x].dc = approvals[x].dc
                            /\ approvals'[x].session = approvals[x].session
                            /\ approvals'[x].status =
                                  IF x = e.approval /\ e.type = "approval_resolved"
                                  THEN e.resolution ELSE approvals[x].status
<1> USE NoneIsNoId
<1>1. approvals'[x] =
        IF x = a
        THEN [dc |-> sessions[e.session].dc, session |-> e.session, status |-> "pending"]
        ELSE IF x = e.approval /\ e.type = "approval_resolved" /\ approvals[x] # None
             THEN [approvals[x] EXCEPT !.status = e.resolution]
             ELSE approvals[x]
  BY DEF Projected, ProjectApproval
<1>2. CASE x = a
  <2>1. e.type = "approval_requested"
    BY <1>2 DEF Projected
  <2>2. e.session \in Sessions /\ sessions[e.session] \in SessionRow
    BY <2>1 DEF WellFormed, DevcontainerEventTypes, TypeOK, Optional
  <2>3. approvals'[x] \in ApprovalRow
    BY <1>1, <1>2, <2>2 DEF ApprovalRow, SessionRow, ApprovalStatus
  <2> QED
    BY <1>1, <1>2, <2>3, NoneIsNoRow
<1>3. CASE x # a /\ x = e.approval /\ e.type = "approval_resolved" /\ approvals[x] # None
  <2>1. approvals[x] \in ApprovalRow /\ e.resolution \in ApprovalStatus
    BY <1>3 DEF TypeOK, Optional, Reducible, ApprovalStatus
  <2>2. /\ approvals'[x] \in ApprovalRow
        /\ approvals'[x].dc = approvals[x].dc
        /\ approvals'[x].session = approvals[x].session
        /\ approvals'[x].status = e.resolution
    BY <1>1, <1>3, <2>1 DEF ApprovalRow
  <2> QED
    BY <1>3, <2>2, NoneIsNoRow
<1>4. CASE x # a /\ ~(x = e.approval /\ e.type = "approval_resolved" /\ approvals[x] # None)
  BY <1>1, <1>4
<1> QED
  BY <1>2, <1>3, <1>4

\* The same for inbox events.
LEMMA ProjectedInbox ==
    ASSUME TypeOK, NEW e, WellFormed(e), NEW a, NEW n, Projected(e, a, n), NEW i \in InboxEvents
    PROVE  /\ i = n => /\ inbox'[i] # None
                       /\ inbox'[i].dc = e.dc
                       /\ inbox'[i].session = e.session
                       /\ inbox'[i].approval = a
                       /\ inbox'[i].status = "unread"
           /\ i # n => /\ inbox'[i] = None <=> inbox[i] = None
                       /\ inbox[i] # None =>
                            /\ inbox'[i].dc = inbox[i].dc
                            /\ inbox'[i].session = inbox[i].session
                            /\ inbox'[i].approval = inbox[i].approval
                            /\ inbox'[i].type = inbox[i].type
                            /\ inbox'[i].status =
                                  IF i \in ResolvedBy(e) THEN "resolved" ELSE inbox[i].status
<1> USE NoneIsNoId
<1>1. inbox'[i] =
        IF i = n
        THEN [dc |-> e.dc, session |-> e.session, approval |-> a,
              type |-> InboxEventTypeFor[e.type], status |-> "unread"]
        ELSE IF i \in ResolvedBy(e)
             THEN [inbox[i] EXCEPT !.status = "resolved"]
             ELSE inbox[i]
  BY DEF Projected, ProjectInbox
<1>2. CASE i = n
  <2>1. e.type \in DOMAIN InboxEventTypeFor
    BY <1>2 DEF Projected
  <2>2. e.session \in Sessions /\ e.dc \in Devcontainers /\ a \in Approvals \cup {None}
    BY <2>1 DEF WellFormed, DevcontainerEventTypes, InboxEventTypeFor, Projected, Optional
  <2>3. InboxEventTypeFor[e.type] \in InboxEventType
    BY <2>1 DEF InboxEventTypeFor, InboxEventType
  <2>4. inbox'[i] \in InboxRow
    BY <1>1, <1>2, <2>2, <2>3 DEF InboxRow, InboxEventStatus
  <2> QED
    BY <1>1, <1>2, <2>4, NoneIsNoRow
<1>3. CASE i # n /\ i \in ResolvedBy(e)
  <2>1. inbox[i] \in InboxRow
    BY <1>3 DEF ResolvedBy, TypeOK, Optional
  <2>2. /\ inbox'[i] \in InboxRow
        /\ inbox'[i].dc = inbox[i].dc
        /\ inbox'[i].session = inbox[i].session
        /\ inbox'[i].approval = inbox[i].approval
        /\ inbox'[i].type = inbox[i].type
        /\ inbox'[i].status = "resolved"
    BY <1>1, <1>3, <2>1 DEF InboxRow, InboxEventStatus
  <2> QED
    BY <1>3, <2>1, <2>2, NoneIsNoRow
<1>4. CASE i # n /\ i \notin ResolvedBy(e)
  BY <1>1, <1>4
<1> QED
  BY <1>2, <1>3, <1>4

\* The same for devcontainers, whose rows only change status.
LEMMA ProjectedDevcontainers ==
    ASSUME TypeOK, NEW e, NEW a, NEW n, Projected(e, a, n),
           NEW d \in Devcontainers, devcontainers[d] # None
    PROVE  devcontainers'[d] # None
BY NoneIsNoId DEF Projected, ProjectDevcontainer, DevcontainerStatusAfter, DevcontainerStatus

\* Cascades remove whole rows and blank references to removed approvals, nothing else.
LEMMA CascadeRows ==
    ASSUME TypeOK, NEW gone, CascadeSessions(gone)
    PROVE  /\ \A s \in Sessions :
                /\ s \in gone => sessions'[s] = None /\ summaries'[s] = None
                /\ s \notin gone => sessions'[s] = sessions[s] /\ summaries'[s] = summaries[s]
           /\ \A x \in Approvals :
                /\ (approvals[x] # None /\ approvals[x].session \in gone) => approvals'[x] = None
                /\ ~(approvals[x] # None /\ approvals[x].session \in gone) =>
                      approvals'[x] = approvals[x]
           /\ \A i \in InboxEvents :
                /\ (inbox[i] = None \/ inbox[i].session \in gone) => inbox'[i] = None
                /\ ~(inbox[i] = None \/ inbox[i].session \in gone) =>
                      /\ inbox'[i] # None
                      /\ inbox'[i].dc = inbox[i].dc
                      /\ inbox'[i].session = inbox[i].session
                      /\ inbox'[i].status = inbox[i].status
                      /\ inbox'[i].type = inbox[i].type
                      /\ inbox'[i].approval =
                            IF inbox[i].approval \in Approvals
                                /\ approvals[inbox[i].approval] # None
                                /\ approvals[inbox[i].approval].session \in gone
                            THEN None ELSE inbox[i].approval
<1>1. ASSUME NEW i \in InboxEvents, inbox[i] # None, inbox[i].session \notin gone,
             NEW goneApprovals,
             inbox'[i] = IF inbox[i].approval \in goneApprovals
                         THEN [inbox[i] EXCEPT !.approval = None] ELSE inbox[i]
      PROVE  /\ inbox'[i] # None
             /\ inbox'[i].dc = inbox[i].dc
             /\ inbox'[i].session = inbox[i].session
             /\ inbox'[i].status = inbox[i].status
             /\ inbox'[i].type = inbox[i].type
             /\ inbox'[i].approval =
                   IF inbox[i].approval \in goneApprovals THEN None ELSE inbox[i].approval
  <2>1. inbox[i] \in InboxRow
    BY <1>1 DEF TypeOK, Optional
  <2>2. CASE inbox[i].approval \in goneApprovals
    <3>1. inbox'[i] \in InboxRow
      BY <1>1, <2>1, <2>2 DEF InboxRow
    <3> QED
      BY <1>1, <2>1, <2>2, <3>1, NoneIsNoRow DEF InboxRow
  <2>3. CASE inbox[i].approval \notin goneApprovals
    BY <1>1, <2>3
  <2> QED
    BY <2>2, <2>3
<1>2. \A s \in Sessions :
        /\ s \in gone => sessions'[s] = None /\ summaries'[s] = None
        /\ s \notin gone => sessions'[s] = sessions[s] /\ summaries'[s] = summaries[s]
  BY DEF CascadeSessions
<1>3. \A x \in Approvals :
        /\ (approvals[x] # None /\ approvals[x].session \in gone) => approvals'[x] = None
        /\ ~(approvals[x] # None /\ approvals[x].session \in gone) =>
              approvals'[x] = approvals[x]
  BY DEF CascadeSessions
<1> DEFINE goneA == {x \in Approvals : approvals[x] # None /\ approvals[x].session \in gone}
<1>4. \A i \in InboxEvents :
        inbox'[i] = IF inbox[i] = None \/ inbox[i].session \in gone THEN None
                    ELSE IF inbox[i].approval \in goneA
                         THEN [inbox[i] EXCEPT !.approval = None] ELSE inbox[i]
  BY DEF CascadeSessions
<1> HIDE DEF goneA
<1>5. ASSUME NEW i \in InboxEvents, inbox[i] # None, inbox[i].session \notin gone
      PROVE  /\ inbox'[i] # None
             /\ inbox'[i].dc = inbox[i].dc
             /\ inbox'[i].session = inbox[i].session
             /\ inbox'[i].status = inbox[i].status
             /\ inbox'[i].type = inbox[i].type
             /\ inbox'[i].approval =
                   IF inbox[i].approval \in goneA THEN None ELSE inbox[i].approval
  <2>1. inbox'[i] = IF inbox[i].approval \in goneA
                    THEN [inbox[i] EXCEPT !.approval = None] ELSE inbox[i]
    BY <1>4, <1>5
  <2> QED
    BY <1>1, <1>5, <2>1
<1> QED
  BY <1>2, <1>3, <1>4, <1>5 DEF goneA

\* The inductive invariant of the tables.
Consistent == TypeOK /\ RowsBelongTogether /\ IdsAreMinted

\* Projecting one event of a runtime keeps the rows together.
LEMMA ProjectedBelong ==
    ASSUME Consistent, NEW e, WellFormed(e), Reducible(e), NEW a, NEW n, Projected(e, a, n)
    PROVE  RowsBelongTogether'
<1> USE NoneIsNoId DEF Consistent
<1>1. ASSUME NEW s \in Sessions, sessions'[s] # None
      PROVE  devcontainers'[sessions'[s].dc] # None
  <2>1. sessions[s] # None /\ sessions'[s].dc = sessions[s].dc
    BY <1>1, ProjectedSessions
  <2>2. sessions[s].dc \in Devcontainers /\ devcontainers[sessions[s].dc] # None
    BY <2>1 DEF TypeOK, Optional, SessionRow, RowsBelongTogether
  <2> QED
    BY <2>1, <2>2, ProjectedDevcontainers
<1>2. ASSUME NEW x \in Approvals, approvals'[x] # None
      PROVE  /\ sessions'[approvals'[x].session] # None
             /\ sessions'[approvals'[x].session].dc = approvals'[x].dc
  <2>1. CASE x = a
    <3>1. approvals'[x].session = e.session /\ approvals'[x].dc = sessions[e.session].dc
      BY <2>1, ProjectedApprovals
    <3>2. e.session \in Sessions /\ sessions[e.session] # None
      BY <2>1 DEF Projected, WellFormed, DevcontainerEventTypes
    <3> QED
      BY <3>1, <3>2, ProjectedSessions
  <2>2. CASE x # a
    <3>1. /\ approvals[x] # None
          /\ approvals'[x].session = approvals[x].session
          /\ approvals'[x].dc = approvals[x].dc
      BY <1>2, <2>2, ProjectedApprovals
    <3>2. /\ approvals[x].session \in Sessions
          /\ sessions[approvals[x].session] # None
          /\ sessions[approvals[x].session].dc = approvals[x].dc
      BY <3>1 DEF TypeOK, Optional, ApprovalRow, RowsBelongTogether
    <3> QED
      BY <3>1, <3>2, ProjectedSessions
  <2> QED BY <2>1, <2>2
<1>3. ASSUME NEW i \in InboxEvents, inbox'[i] # None
      PROVE  /\ sessions'[inbox'[i].session] # None
             /\ sessions'[inbox'[i].session].dc = inbox'[i].dc
             /\ inbox'[i].approval # None =>
                   /\ approvals'[inbox'[i].approval] # None
                   /\ approvals'[inbox'[i].approval].session = inbox'[i].session
  <2>1. CASE i = n
    <3>1. inbox'[i].session = e.session /\ inbox'[i].dc = e.dc /\ inbox'[i].approval = a
      BY <2>1, ProjectedInbox
    <3>2. e.session \in Sessions /\ sessions[e.session] # None /\ sessions[e.session].dc = e.dc
      BY <2>1 DEF Projected, WellFormed, DevcontainerEventTypes, InboxEventTypeFor
    <3>3. a # None => a \in Approvals
      BY DEF Projected, Optional
    <3> QED
      BY <3>1, <3>2, <3>3, ProjectedSessions, ProjectedApprovals
  <2>2. CASE i # n
    <3>1. /\ inbox[i] # None
          /\ inbox'[i].session = inbox[i].session
          /\ inbox'[i].dc = inbox[i].dc
          /\ inbox'[i].approval = inbox[i].approval
      BY <1>3, <2>2, ProjectedInbox
    <3>2. /\ inbox[i].session \in Sessions
          /\ sessions[inbox[i].session] # None
          /\ sessions[inbox[i].session].dc = inbox[i].dc
          /\ inbox[i].approval # None =>
                /\ inbox[i].approval \in Approvals
                /\ approvals[inbox[i].approval] # None
                /\ approvals[inbox[i].approval].session = inbox[i].session
      BY <3>1 DEF TypeOK, Optional, InboxRow, RowsBelongTogether
    <3>3. inbox[i].approval # None => inbox[i].approval # a
      BY <3>2 DEF Projected
    <3> QED
      BY <3>1, <3>2, <3>3, ProjectedSessions, ProjectedApprovals
  <2> QED BY <2>1, <2>2
<1>4. ASSUME NEW s \in Sessions, summaries'[s] # None
      PROVE  sessions'[s] # None
  <2>1. sessions[s] # None
    <3>1. CASE s = e.session /\ e.type \in DOMAIN FinalStatus
      BY <3>1 DEF WellFormed, FinalStatus, DevcontainerEventTypes
    <3>2. CASE ~(s = e.session /\ e.type \in DOMAIN FinalStatus)
      BY <1>4, <3>2 DEF Projected, ProjectSummary, RowsBelongTogether
    <3> QED BY <3>1, <3>2
  <2> QED
    BY <2>1, ProjectedSessions
<1> QED
  BY <1>1, <1>2, <1>3, <1>4 DEF RowsBelongTogether

\* A cascade over a set of sessions keeps the rows together.
LEMMA CascadeBelong ==
    ASSUME Consistent, NEW gone, CascadeSessions(gone),
           \A s \in Sessions : sessions[s] # None /\ s \notin gone =>
              devcontainers'[sessions[s].dc] # None
    PROVE  RowsBelongTogether'
<1> USE NoneIsNoId DEF Consistent
<1>1. ASSUME NEW s \in Sessions
      PROVE  /\ sessions'[s] # None => devcontainers'[sessions'[s].dc] # None
             /\ summaries'[s] # None => sessions'[s] # None
  BY CascadeRows DEF RowsBelongTogether
<1>2. ASSUME NEW x \in Approvals, approvals'[x] # None
      PROVE  /\ sessions'[approvals'[x].session] # None
             /\ sessions'[approvals'[x].session].dc = approvals'[x].dc
  <2>1. approvals[x] # None /\ approvals[x].session \notin gone /\ approvals'[x] = approvals[x]
    BY <1>2, CascadeRows
  <2>2. approvals[x].session \in Sessions
    BY <2>1 DEF TypeOK, Optional, ApprovalRow
  <2> QED
    BY <2>1, <2>2, CascadeRows DEF RowsBelongTogether
<1>3. ASSUME NEW i \in InboxEvents, inbox'[i] # None
      PROVE  /\ sessions'[inbox'[i].session] # None
             /\ sessions'[inbox'[i].session].dc = inbox'[i].dc
             /\ inbox'[i].approval # None =>
                   /\ approvals'[inbox'[i].approval] # None
                   /\ approvals'[inbox'[i].approval].session = inbox'[i].session
  <2>1. /\ inbox[i] # None /\ inbox[i].session \notin gone
        /\ inbox'[i].dc = inbox[i].dc /\ inbox'[i].session = inbox[i].session
        /\ inbox'[i].approval # None => inbox'[i].approval = inbox[i].approval
    BY <1>3, CascadeRows
  <2>2. /\ inbox[i].session \in Sessions
        /\ inbox[i].approval # None => inbox[i].approval \in Approvals
    BY <2>1 DEF TypeOK, Optional, InboxRow
  <2>3. /\ sessions'[inbox'[i].session] # None
        /\ sessions'[inbox'[i].session].dc = inbox'[i].dc
    BY <2>1, <2>2, CascadeRows DEF RowsBelongTogether
  <2>4. ASSUME inbox'[i].approval # None
        PROVE  /\ approvals'[inbox'[i].approval] # None
               /\ approvals'[inbox'[i].approval].session = inbox'[i].session
    BY <2>1, <2>2, <2>4, CascadeRows DEF RowsBelongTogether
  <2> QED
    BY <2>3, <2>4
<1> QED
  BY <1>1, <1>2, <1>3 DEF RowsBelongTogether

\* Every step of the read model keeps the rows together.
LEMMA NextBelong ==
    ASSUME Consistent, [ReadModelNext]_rmvars
    PROVE  RowsBelongTogether'
<1> USE NoneIsNoId DEF Consistent
<1>1. ASSUME NEW e \in RuntimeEvents, Intake(e)
      PROVE  RowsBelongTogether'
  <2>1. CASE UNCHANGED rmvars
    BY <2>1 DEF rmvars, RowsBelongTogether
  <2> QED
    BY <1>1, <2>1, IntakeProjects, ProjectedBelong
<1>2. ASSUME NEW d \in Devcontainers, NEW s \in Sessions, StartRow(d, s)
      PROVE  RowsBelongTogether'
  <2>1. \* the id is unused, so no row refers to it
        /\ sessions[s] = None
        /\ sessions' = [sessions EXCEPT ![s] = [dc |-> d, status |-> "starting"]]
        /\ devcontainers[d] # None
        /\ UNCHANGED <<devcontainers, approvals, inbox, summaries>>
    BY <1>2 DEF StartRow, IdsAreMinted, DevcontainerStatus
  <2>2. ASSUME NEW q \in Sessions
        PROVE  /\ q # s => sessions'[q] = sessions[q]
               /\ sessions'[s] = [dc |-> d, status |-> "starting"]
    BY <2>1 DEF TypeOK
  <2>3. ASSUME NEW x \in Approvals, approvals[x] # None
        PROVE  approvals[x].session \in Sessions \ {s}
    BY <2>1, <2>3 DEF TypeOK, Optional, ApprovalRow, RowsBelongTogether
  <2>4. ASSUME NEW i \in InboxEvents, inbox[i] # None
        PROVE  inbox[i].session \in Sessions \ {s}
    BY <2>1, <2>4 DEF TypeOK, Optional, InboxRow, RowsBelongTogether
  <2>5. [dc |-> d, status |-> "starting"] \in SessionRow
    BY DEF SessionRow, AgentSessionStatus, Active
  <2> QED
    BY <2>1, <2>2, <2>3, <2>4, <2>5, NoneIsNoRow DEF RowsBelongTogether
<1>3. ASSUME NEW s \in Sessions, ResumeRow(s)
      PROVE  RowsBelongTogether'
  <2>1. /\ sessions[s] \in SessionRow
        /\ sessions' = [sessions EXCEPT ![s].status = "starting"]
        /\ UNCHANGED <<devcontainers, approvals, inbox, summaries>>
    BY <1>3 DEF ResumeRow, IsResting, Exists, TypeOK, Optional
  <2>2. /\ sessions'[s] \in SessionRow
        /\ sessions'[s].dc = sessions[s].dc
    BY <2>1 DEF TypeOK, SessionRow, AgentSessionStatus, Active
  <2>3. ASSUME NEW q \in Sessions
        PROVE  (sessions'[q] = None <=> sessions[q] = None)
                  /\ (sessions[q] # None => sessions'[q].dc = sessions[q].dc)
    BY <2>1, <2>2, NoneIsNoRow DEF TypeOK
  <2>4. ASSUME NEW x \in Approvals, approvals[x] # None
        PROVE  approvals[x].session \in Sessions
    BY <2>4 DEF TypeOK, Optional, ApprovalRow
  <2>5. ASSUME NEW i \in InboxEvents, inbox[i] # None
        PROVE  inbox[i].session \in Sessions
    BY <2>5 DEF TypeOK, Optional, InboxRow
  <2> QED
    BY <2>1, <2>3, <2>4, <2>5 DEF RowsBelongTogether
<1>4. ASSUME NEW d \in Devcontainers,
             \/ CreateDevcontainer(d)
             \/ \E status \in DevcontainerStatus : PatchDevcontainer(d, status)
      PROVE  RowsBelongTogether'
  <2>1. /\ \A x \in Devcontainers : devcontainers[x] # None => devcontainers'[x] # None
        /\ UNCHANGED <<sessions, approvals, inbox, summaries>>
    BY <1>4 DEF CreateDevcontainer, PatchDevcontainer, DevcontainerStatus, TypeOK
  <2>2. ASSUME NEW s \in Sessions, sessions[s] # None
        PROVE  sessions[s].dc \in Devcontainers
    BY <2>2 DEF TypeOK, Optional, SessionRow
  <2> QED
    BY <2>1, <2>2 DEF RowsBelongTogether
<1>5. ASSUME NEW d \in Devcontainers, DeleteDevcontainer(d)
      PROVE  RowsBelongTogether'
  <2> DEFINE gone == {s \in Sessions : sessions[s] # None /\ sessions[s].dc = d}
  <2>1. CascadeSessions(gone)
    BY <1>5 DEF DeleteDevcontainer
  <2>2. ASSUME NEW s \in Sessions, sessions[s] # None, s \notin gone
        PROVE  devcontainers'[sessions[s].dc] # None
    <3>1. sessions[s].dc \in Devcontainers \ {d}
      BY <2>2 DEF TypeOK, Optional, SessionRow
    <3>2. devcontainers' = [devcontainers EXCEPT ![d] = None]
      BY <1>5 DEF DeleteDevcontainer
    <3> QED
      BY <2>2, <3>1, <3>2 DEF TypeOK, RowsBelongTogether
  <2> HIDE DEF gone
  <2> QED
    BY <2>1, <2>2, CascadeBelong
<1>6. ASSUME NEW t \in Threads, DeleteSessionCommit(t)
      PROVE  RowsBelongTogether'
  BY <1>6, CascadeBelong DEF DeleteSessionCommit, RowsBelongTogether
<1>7. ASSUME NEW t \in Threads,
             \/ \E s \in Sessions : DeleteSessionCheck(t, s)
             \/ \E i \in InboxEvents : MarkReadSelect(t, i)
      PROVE  RowsBelongTogether'
  BY <1>7 DEF DeleteSessionCheck, MarkReadSelect, tables, RowsBelongTogether
<1>8. ASSUME \/ \E t \in Threads : MarkReadUpdate(t)
             \/ \E i \in InboxEvents : ResolveInboxEvent(i)
      PROVE  RowsBelongTogether'
  <2>1. UNCHANGED <<devcontainers, sessions, approvals, summaries>>
    BY <1>8 DEF MarkReadUpdate, ResolveInboxEvent
  <2>2. ASSUME NEW i \in InboxEvents, inbox'[i] # None
        PROVE  /\ inbox[i] # None
               /\ inbox'[i].dc = inbox[i].dc
               /\ inbox'[i].session = inbox[i].session
               /\ inbox'[i].approval = inbox[i].approval
    <3>1. PICK status \in InboxEventStatus :
             \/ inbox'[i] = inbox[i]
             \/ inbox[i] # None /\ inbox'[i] = [inbox[i] EXCEPT !.status = status]
      BY <1>8 DEF MarkReadUpdate, ResolveInboxEvent, Exists, InboxEventStatus, TypeOK
    <3> QED
      BY <2>2, <3>1 DEF TypeOK, Optional, InboxRow
  <2> QED
    BY <2>1, <2>2 DEF RowsBelongTogether
<1>9. CASE UNCHANGED rmvars
  BY <1>9 DEF rmvars, RowsBelongTogether
<1> QED
  BY <1>1, <1>2, <1>3, <1>4, <1>5, <1>6, <1>7, <1>8, <1>9 DEF ReadModelNext, RestWrite

\* Consistency is inductive.
LEMMA ConsistentHolds == ReadModelSpec => []Consistent
<1>1. ReadModelInit => Consistent
  BY DEF ReadModelInit, Consistent, TypeOK, RowsBelongTogether, IdsAreMinted, Optional
<1>2. Consistent /\ [ReadModelNext]_rmvars => Consistent'
  BY NextType, NextBelong, NextMinted DEF Consistent
<1> QED
  BY <1>1, <1>2, PTL DEF ReadModelSpec

\* Whatever the runtimes send and however the routes interleave, the tables hold
\* rows of their declared columns and statuses of the published vocabularies.
THEOREM TypeCorrect == ReadModelSpec => []TypeOK
BY ConsistentHolds, PTL DEF Consistent

\* The reducer's and the repositories' writes never leave a row pointing at a row
\* that is missing or belongs to another session or devcontainer.
THEOREM RowsStayTogether == ReadModelSpec => []RowsBelongTogether
BY ConsistentHolds, PTL DEF Consistent

-----------------------------------------------------------------------------
\* The invariants across tables.  A step of the read model is one of four kinds.

\* A step that touches no session, summary or approval; of the inbox at most a
\* status moves, and never back to unread.
InboxOnly ==
    /\ UNCHANGED <<sessions, summaries, approvals>>
    /\ \A i \in InboxEvents :
        /\ inbox'[i] = None <=> inbox[i] = None
        /\ inbox[i] # None =>
             /\ inbox'[i].approval = inbox[i].approval
             /\ inbox'[i].session = inbox[i].session
             /\ inbox'[i].type = inbox[i].type
             /\ inbox'[i].status = "unread" => inbox[i].status = "unread"

\* A step that makes or resumes one session.
Begins(s) ==
    /\ UNCHANGED <<summaries, approvals, inbox>>
    /\ sessions'[s] # None /\ sessions'[s].status = "starting"
    /\ \A q \in Sessions : q # s => sessions'[q] = sessions[q]

\* The kinds of steps, and that there are no others.
LEMMA StepKinds ==
    ASSUME Consistent, [ReadModelNext]_rmvars
    PROVE  \/ InboxOnly
           \/ \E s \in Sessions : Begins(s)
           \/ \E gone : CascadeSessions(gone)
           \/ \E e, a, n : WellFormed(e) /\ Reducible(e) /\ Projected(e, a, n)
<1> USE NoneIsNoId DEF Consistent
<1>1. ASSUME UNCHANGED <<sessions, summaries, approvals, inbox>>
      PROVE  InboxOnly
  BY <1>1 DEF InboxOnly
<1>2. ASSUME NEW e \in RuntimeEvents, Intake(e)
      PROVE  \/ InboxOnly
             \/ \E x, a, n : WellFormed(x) /\ Reducible(x) /\ Projected(x, a, n)
  BY <1>1, <1>2, IntakeProjects DEF rmvars
<1>3. ASSUME NEW d \in Devcontainers, NEW s \in Sessions, StartRow(d, s)
      PROVE  Begins(s)
  <2>1. sessions'[s] = [dc |-> d, status |-> "starting"] /\ sessions'[s] \in SessionRow
    BY <1>3 DEF StartRow, TypeOK, SessionRow, AgentSessionStatus, Active
  <2> QED
    BY <1>3, <2>1, NoneIsNoRow DEF StartRow, Begins, TypeOK
<1>4. ASSUME NEW s \in Sessions, ResumeRow(s)
      PROVE  Begins(s)
  <2>1. sessions[s] \in SessionRow
    BY <1>4 DEF ResumeRow, IsResting, Exists, TypeOK, Optional
  <2>2. sessions'[s] = [sessions[s] EXCEPT !.status = "starting"]
    BY <1>4 DEF ResumeRow, TypeOK
  <2>3. sessions'[s] \in SessionRow /\ sessions'[s].status = "starting"
    BY <2>1, <2>2 DEF SessionRow, AgentSessionStatus, Active
  <2> QED
    BY <1>4, <2>3, NoneIsNoRow DEF ResumeRow, Begins, TypeOK
<1>5. ASSUME \/ \E t \in Threads : MarkReadUpdate(t)
             \/ \E i \in InboxEvents : ResolveInboxEvent(i)
      PROVE  InboxOnly
  <2>1. ASSUME NEW i \in InboxEvents
        PROVE  /\ inbox'[i] = None <=> inbox[i] = None
               /\ inbox[i] # None =>
                    /\ inbox'[i].approval = inbox[i].approval
                    /\ inbox'[i].session = inbox[i].session
                    /\ inbox'[i].type = inbox[i].type
                    /\ inbox'[i].status = "unread" => inbox[i].status = "unread"
    <3>1. PICK status \in {"read", "resolved"} :
             \/ inbox'[i] = inbox[i]
             \/ inbox[i] # None /\ inbox'[i] = [inbox[i] EXCEPT !.status = status]
      BY <1>5 DEF MarkReadUpdate, ResolveInboxEvent, Exists, TypeOK
    <3>2. ASSUME inbox[i] # None, inbox'[i] = [inbox[i] EXCEPT !.status = status]
          PROVE  /\ inbox'[i] \in InboxRow
                 /\ inbox'[i].approval = inbox[i].approval
                 /\ inbox'[i].session = inbox[i].session
                 /\ inbox'[i].type = inbox[i].type
                 /\ inbox'[i].status = status
      BY <3>2 DEF TypeOK, Optional, InboxRow, InboxEventStatus
    <3> QED
      BY <3>1, <3>2, NoneIsNoRow
  <2> QED
    BY <1>5, <2>1 DEF InboxOnly, MarkReadUpdate, ResolveInboxEvent
<1>6. CASE RestWrite
  BY <1>1, <1>5, <1>6 DEF RestWrite, CreateDevcontainer, PatchDevcontainer, DeleteDevcontainer,
        DeleteSessionCheck, DeleteSessionCommit, MarkReadSelect, tables
<1>7. CASE UNCHANGED rmvars
  BY <1>1, <1>7 DEF rmvars
<1> QED
  BY <1>2, <1>3, <1>4, <1>6, <1>7 DEF ReadModelNext

\* Only the end-of-run events bring a session to rest, and they write the summary
\* in the same transaction.
LEMMA NextResting ==
    ASSUME Consistent, RestingHasSummary, [ReadModelNext]_rmvars
    PROVE  RestingHasSummary'
<1> USE NoneIsNoId DEF Consistent
<1>1. CASE InboxOnly
  BY <1>1 DEF InboxOnly, RestingHasSummary, IsResting, Exists
<1>2. ASSUME NEW s \in Sessions, Begins(s)
      PROVE  RestingHasSummary'
  BY <1>2 DEF Begins, RestingHasSummary, IsResting, Exists, Resting, TypeOK
<1>3. ASSUME NEW gone, CascadeSessions(gone)
      PROVE  RestingHasSummary'
  BY <1>3, CascadeRows DEF RestingHasSummary, IsResting, Exists, TypeOK
<1>4. ASSUME NEW e, NEW a, NEW n, WellFormed(e), Projected(e, a, n)
      PROVE  RestingHasSummary'
  <2>1. ASSUME NEW s \in Sessions, sessions'[s] # None, sessions'[s].status \in Resting
        PROVE  summaries'[s] = sessions'[s].status
    <3>1. summaries'[s] = IF s = e.session /\ e.type \in DOMAIN FinalStatus
                          THEN FinalStatus[e.type] ELSE summaries[s]
      BY <1>4 DEF Projected, ProjectSummary
    <3>2. sessions[s] # None /\ sessions'[s].status =
              IF s = e.session /\ e.type \in DOMAIN SessionStatusAfter
              THEN SessionStatusAfter[e.type] ELSE sessions[s].status
      BY <1>4, <2>1, ProjectedSessions
    <3>3. CASE s = e.session /\ e.type \in DOMAIN SessionStatusAfter
      <4>1. e.type \in DOMAIN FinalStatus /\ SessionStatusAfter[e.type] = FinalStatus[e.type]
        BY <2>1, <3>2, <3>3 DEF SessionStatusAfter, FinalStatus, Resting
      <4> QED BY <3>1, <3>2, <3>3, <4>1
    <3>4. CASE ~(s = e.session /\ e.type \in DOMAIN SessionStatusAfter)
      <4>1. ~(s = e.session /\ e.type \in DOMAIN FinalStatus)
        BY <3>4 DEF SessionStatusAfter, FinalStatus
      <4> QED BY <2>1, <3>1, <3>2, <3>4, <4>1 DEF RestingHasSummary, IsResting, Exists, TypeOK
    <3> QED BY <3>3, <3>4
  <2> QED
    BY <2>1 DEF RestingHasSummary, IsResting, Exists
<1> QED
  BY <1>1, <1>2, <1>3, <1>4, StepKinds

\* A session is shown waiting exactly when an approval of it is requested, and any
\* decision that could use that approval up takes the session out of waiting.
LEMMA NextWaiting ==
    ASSUME Consistent, WaitingHasPending, [ReadModelNext]_rmvars
    PROVE  WaitingHasPending'
<1> USE NoneIsNoId DEF Consistent
<1>1. CASE InboxOnly
  BY <1>1 DEF InboxOnly, WaitingHasPending, Exists
<1>2. ASSUME NEW s \in Sessions, Begins(s)
      PROVE  WaitingHasPending'
  BY <1>2 DEF Begins, WaitingHasPending, Exists, TypeOK
<1>3. ASSUME NEW gone, CascadeSessions(gone)
      PROVE  WaitingHasPending'
  <2>1. ASSUME NEW s \in Sessions, sessions'[s] # None,
               sessions'[s].status = "waiting_for_approval"
        PROVE  \E x \in Approvals : approvals'[x] # None /\ approvals'[x].session = s
                                       /\ approvals'[x].status = "pending"
    <3>1. s \notin gone /\ sessions'[s] = sessions[s]
      BY <1>3, <2>1, CascadeRows
    <3>2. PICK x \in Approvals : approvals[x] # None /\ approvals[x].session = s
                                    /\ approvals[x].status = "pending"
      BY <2>1, <3>1 DEF WaitingHasPending, Exists, TypeOK
    <3> QED
      BY <1>3, <3>1, <3>2, CascadeRows
  <2> QED
    BY <2>1 DEF WaitingHasPending, Exists
<1>4. ASSUME NEW e, NEW a, NEW n, WellFormed(e), Reducible(e), Projected(e, a, n)
      PROVE  WaitingHasPending'
  <2>1. ASSUME NEW s \in Sessions, sessions'[s] # None,
               sessions'[s].status = "waiting_for_approval"
        PROVE  \E x \in Approvals : approvals'[x] # None /\ approvals'[x].session = s
                                       /\ approvals'[x].status = "pending"
    <3>1. sessions[s] # None /\ sessions'[s].status =
              IF s = e.session /\ e.type \in DOMAIN SessionStatusAfter
              THEN SessionStatusAfter[e.type] ELSE sessions[s].status
      BY <1>4, <2>1, ProjectedSessions
    <3>2. CASE s = e.session /\ e.type \in DOMAIN SessionStatusAfter
      <4>1. e.type = "approval_requested"
        BY <2>1, <3>1, <3>2 DEF SessionStatusAfter
      <4>2. a \in Approvals
        BY <1>4, <4>1 DEF Projected, Optional
      <4> QED
        BY <1>4, <3>2, <4>2, ProjectedApprovals
    <3>3. CASE ~(s = e.session /\ e.type \in DOMAIN SessionStatusAfter)
      <4>1. PICK x \in Approvals : approvals[x] # None /\ approvals[x].session = s
                                      /\ approvals[x].status = "pending"
        BY <2>1, <3>1, <3>3 DEF WaitingHasPending, Exists, TypeOK
      <4>2. x # a
        BY <1>4, <4>1 DEF Projected
      <4>3. ~(x = e.approval /\ e.type = "approval_resolved")
        BY <1>4, <3>3, <4>1 DEF WellFormed, SessionStatusAfter
      <4> QED
        BY <1>4, <4>1, <4>2, <4>3, ProjectedApprovals
    <3> QED BY <3>2, <3>3
  <2> QED
    BY <2>1 DEF WaitingHasPending, Exists
<1> QED
  BY <1>1, <1>2, <1>3, <1>4, StepKinds

\* An approval and its notification come into being, are decided and disappear
\* together.
LEMMA NextNotified ==
    ASSUME Consistent, ApprovalsAreNotified, [ReadModelNext]_rmvars
    PROVE  ApprovalsAreNotified'
<1> USE NoneIsNoId DEF Consistent
<1> DEFINE About(i, x) == inbox[i] # None /\ inbox[i].approval = x
<1>1. CASE InboxOnly
  BY <1>1 DEF InboxOnly, ApprovalsAreNotified
<1>2. ASSUME NEW s \in Sessions, Begins(s)
      PROVE  ApprovalsAreNotified'
  BY <1>2 DEF Begins, ApprovalsAreNotified
<1>3. ASSUME NEW gone, CascadeSessions(gone)
      PROVE  ApprovalsAreNotified'
  <2>1. ASSUME NEW x \in Approvals, approvals'[x] # None
        PROVE  \E i \in InboxEvents : About(i, x)'
    <3>1. approvals[x] # None /\ approvals[x].session \notin gone
      BY <1>3, <2>1, CascadeRows
    <3>2. PICK i \in InboxEvents : About(i, x)
      BY <3>1 DEF ApprovalsAreNotified
    <3>3. inbox[i].session = approvals[x].session
      BY <3>1, <3>2 DEF RowsBelongTogether
    <3> QED
      BY <1>3, <3>1, <3>2, <3>3, CascadeRows
  <2>2. ASSUME NEW i \in InboxEvents, inbox'[i] # None, inbox'[i].approval # None
        PROVE  /\ inbox[i] # None
               /\ inbox'[i].approval = inbox[i].approval
               /\ inbox'[i].status = inbox[i].status
    BY <1>3, <2>2, CascadeRows
  <2>3. ASSUME NEW i \in InboxEvents, inbox'[i] # None, inbox'[i].approval # None,
               approvals'[inbox'[i].approval].status \in Decided
        PROVE  inbox'[i].status # "unread"
    <3>1. inbox[i].approval \in Approvals
      BY <2>2, <2>3 DEF TypeOK, Optional, InboxRow
    <3>2. /\ approvals[inbox[i].approval] # None
          /\ approvals[inbox[i].approval].session = inbox[i].session
          /\ inbox[i].session \notin gone
      BY <1>3, <2>2, <2>3, CascadeRows DEF RowsBelongTogether
    <3>3. approvals'[inbox[i].approval] = approvals[inbox[i].approval]
      BY <1>3, <3>1, <3>2, CascadeRows
    <3> QED
      BY <2>2, <2>3, <3>3 DEF ApprovalsAreNotified
  <2> QED
    BY <2>1, <2>2, <2>3 DEF ApprovalsAreNotified
<1>4. ASSUME NEW e, NEW a, NEW n, WellFormed(e), Reducible(e), Projected(e, a, n)
      PROVE  ApprovalsAreNotified'
  <2>1. /\ a # None => a \in Approvals /\ n \in InboxEvents
        /\ a # None => approvals[a] = None
        /\ n # None => inbox[n] = None
    BY <1>4 DEF Projected, Optional, InboxEventTypeFor
  <2>2. ASSUME NEW i \in InboxEvents, inbox[i] # None, inbox[i].approval # None
        PROVE  inbox[i].approval \in Approvals \ {a} /\ approvals[inbox[i].approval] # None
    BY <2>1, <2>2 DEF TypeOK, Optional, InboxRow, RowsBelongTogether
  <2>3. ASSUME NEW i \in InboxEvents, inbox'[i] # None, i # n
        PROVE  /\ inbox[i] # None
               /\ inbox'[i].approval = inbox[i].approval
               /\ inbox'[i].status = IF i \in ResolvedBy(e) THEN "resolved" ELSE inbox[i].status
    BY <1>4, <2>3, ProjectedInbox
  <2>4. n \in InboxEvents => inbox'[n].approval = a
    BY <1>4, ProjectedInbox
  <2>5. ASSUME NEW x \in Approvals, approvals'[x] # None
        PROVE  \E i \in InboxEvents : About(i, x)'
    <3>1. CASE x = a
      BY <1>4, <2>1, <2>4, <3>1, ProjectedInbox
    <3>2. CASE x # a
      <4>1. approvals[x] # None
        BY <1>4, <2>5, <3>2, ProjectedApprovals
      <4>2. PICK i \in InboxEvents : About(i, x)
        BY <4>1 DEF ApprovalsAreNotified
      <4>3. i # n
        BY <2>1, <4>2
      <4> QED
        BY <1>4, <4>2, <4>3, ProjectedInbox
    <3> QED BY <3>1, <3>2
  <2>6. ASSUME NEW i \in InboxEvents, NEW j \in InboxEvents,
               inbox'[i] # None, inbox'[j] # None, inbox'[i].approval # None,
               inbox'[i].approval = inbox'[j].approval
        PROVE  i = j
    BY <2>2, <2>3, <2>4, <2>6 DEF ApprovalsAreNotified
  <2>7. ASSUME NEW i \in InboxEvents, inbox'[i] # None, inbox'[i].approval # None,
               approvals'[inbox'[i].approval].status \in Decided
        PROVE  inbox'[i].status # "unread"
    <3>1. i # n
      <4>1. ASSUME i = n PROVE FALSE
        <5>1. a \in Approvals /\ inbox'[i].approval = a
          BY <2>1, <2>4, <2>7, <4>1
        <5>2. approvals'[a].status = "pending"
          BY <1>4, <5>1, ProjectedApprovals
        <5> QED BY <2>7, <5>1, <5>2 DEF Decided
      <4> QED BY <4>1
    <3> DEFINE x == inbox[i].approval
    <3>2. inbox[i] # None /\ inbox'[i].approval = x /\ x # None
      BY <2>3, <2>7, <3>1
    <3>3. x \in Approvals /\ x # a /\ approvals[x] # None
      BY <2>2, <3>2
    <3>4. CASE x = e.approval /\ e.type = "approval_resolved"
      BY <2>3, <2>7, <3>1, <3>2, <3>3, <3>4 DEF ResolvedBy, Exists, TypeOK
    <3>5. CASE ~(x = e.approval /\ e.type = "approval_resolved")
      <4>1. approvals'[x].status = approvals[x].status
        BY <1>4, <3>3, <3>5, ProjectedApprovals
      <4>2. inbox[i].status # "unread"
        BY <2>7, <3>2, <4>1 DEF ApprovalsAreNotified
      <4> QED BY <2>3, <2>7, <3>1, <4>2
    <3> QED BY <3>4, <3>5
  <2> QED
    BY <2>5, <2>6, <2>7 DEF ApprovalsAreNotified
<1> QED
  BY <1>1, <1>2, <1>3, <1>4, StepKinds

-----------------------------------------------------------------------------
\* What rows keep while they are there, and that none comes back.

\* Rows stay what they are about as long as their session has its row; new rows
\* have new ids.
RowsStay ==
    /\ minted \subseteq minted'
    /\ \A s \in Sessions : sessions'[s] # None =>
          \/ sessions[s] # None /\ sessions'[s].dc = sessions[s].dc
          \/ s \notin minted
    /\ \A x \in Approvals : approvals'[x] # None =>
          \/ approvals[x] # None /\ approvals'[x].session = approvals[x].session
          \/ x \notin minted
    /\ \A x \in Approvals : (approvals[x] # None /\ sessions'[approvals[x].session] # None) =>
          approvals'[x] # None /\ approvals'[x].session = approvals[x].session
    /\ \A i \in InboxEvents : (inbox[i] # None /\ sessions'[inbox[i].session] # None) =>
          /\ inbox'[i] # None
          /\ inbox'[i].session = inbox[i].session /\ inbox'[i].type = inbox[i].type
          /\ inbox'[i].approval = inbox[i].approval
    /\ \A i \in InboxEvents : inbox'[i] # None =>
          \/ inbox[i] # None /\ inbox'[i].session = inbox[i].session
          \/ i \notin minted

\* Ids are handed out and never taken back.
LEMMA MintedGrows ==
    ASSUME [ReadModelNext]_rmvars
    PROVE  minted \subseteq minted'
<1>1. ASSUME NEW e, Intake(e) PROVE minted \subseteq minted'
  BY <1>1 DEF Intake, PersistEvent, rmvars
<1>2. CASE RestWrite
  BY <1>2 DEF RestWrite, CreateDevcontainer, PatchDevcontainer, DeleteDevcontainer,
        DeleteSessionCheck, DeleteSessionCommit, MarkReadSelect, MarkReadUpdate,
        ResolveInboxEvent, tables
<1> QED
  BY <1>1, <1>2 DEF ReadModelNext, StartRow, ResumeRow, rmvars

\* A row of sessions is written by a start, which takes a new id, and otherwise
\* keeps its devcontainer.
LEMMA SessionRowsStay ==
    ASSUME Consistent, [ReadModelNext]_rmvars
    PROVE  \A q \in Sessions : sessions'[q] # None =>
              \/ sessions[q] # None /\ sessions'[q].dc = sessions[q].dc
              \/ q \notin minted
<1> USE NoneIsNoId DEF Consistent
<1>1. ASSUME NEW d \in Devcontainers, NEW x \in Sessions, StartRow(d, x), NEW q \in Sessions
      PROVE  sessions'[q] = sessions[q] \/ q \notin minted
  BY <1>1 DEF StartRow, TypeOK
<1>2. ASSUME NEW x \in Sessions, ResumeRow(x), NEW q \in Sessions, sessions'[q] # None
      PROVE  sessions[q] # None /\ sessions'[q].dc = sessions[q].dc
  <2>1. x \in DOMAIN sessions /\ sessions[x] \in SessionRow
    BY <1>2 DEF ResumeRow, IsResting, Exists, TypeOK, Optional
  <2>2. sessions'[q] = IF q = x THEN [sessions[x] EXCEPT !.status = "starting"] ELSE sessions[q]
    BY <1>2 DEF ResumeRow, TypeOK
  <2> QED
    BY <1>2, <2>1, <2>2, NoneIsNoRow DEF SessionRow
<1>3. ASSUME NEW e \in RuntimeEvents, Intake(e), NEW q \in Sessions, sessions'[q] # None
      PROVE  sessions[q] # None /\ sessions'[q].dc = sessions[q].dc
  <2>1. CASE UNCHANGED rmvars
    BY <1>3, <2>1 DEF rmvars
  <2>2. ASSUME NEW a, NEW n, Projected(e, a, n), WellFormed(e)
        PROVE  sessions[q] # None /\ sessions'[q].dc = sessions[q].dc
    BY <1>3, <2>2, ProjectedSessions
  <2> QED
    BY <1>3, <2>1, <2>2, IntakeProjects
<1>4. ASSUME RestWrite, NEW q \in Sessions, sessions'[q] # None
      PROVE  sessions'[q] = sessions[q]
  BY <1>4 DEF RestWrite, CreateDevcontainer, PatchDevcontainer, DeleteDevcontainer,
        DeleteSessionCheck, DeleteSessionCommit, MarkReadSelect, MarkReadUpdate,
        ResolveInboxEvent, tables, CascadeSessions
<1>5. CASE UNCHANGED rmvars
  BY <1>5 DEF rmvars
<1> QED
  BY <1>1, <1>2, <1>3, <1>4, <1>5 DEF ReadModelNext

\* Rows stay what they are about.
LEMMA NextStays ==
    ASSUME Consistent, [ReadModelNext]_rmvars
    PROVE  RowsStay
<1> USE NoneIsNoId DEF Consistent
<1>1. minted \subseteq minted'
  BY MintedGrows
<1>2. CASE InboxOnly
  BY <1>1, <1>2 DEF InboxOnly, RowsStay
<1>3. ASSUME NEW s \in Sessions, Begins(s) PROVE RowsStay
  BY <1>1, <1>3, SessionRowsStay DEF Begins, RowsStay
<1>4. ASSUME NEW gone, CascadeSessions(gone) PROVE RowsStay
  <2>1. \A x \in Approvals : approvals[x] # None => approvals[x].session \in Sessions
    BY DEF TypeOK, Optional, ApprovalRow
  <2>2. \A i \in InboxEvents : inbox[i] # None => inbox[i].session \in Sessions
    BY DEF TypeOK, Optional, InboxRow
  <2>3. \A i \in InboxEvents : inbox'[i] # None =>
           inbox[i] # None /\ inbox'[i].session = inbox[i].session
    BY <1>4, CascadeRows
  <2>4. ASSUME NEW i \in InboxEvents, inbox[i] # None, sessions'[inbox[i].session] # None
        PROVE  /\ inbox'[i] # None
               /\ inbox'[i].session = inbox[i].session /\ inbox'[i].type = inbox[i].type
               /\ inbox'[i].approval = inbox[i].approval
    <3>1. inbox[i].session \notin gone
      BY <1>4, <2>2, <2>4, CascadeRows
    <3>2. inbox[i].approval \in Approvals /\ approvals[inbox[i].approval] # None
             => approvals[inbox[i].approval].session = inbox[i].session
      BY <2>4 DEF RowsBelongTogether
    <3> QED
      BY <1>4, <2>4, <3>1, <3>2, CascadeRows
  <2> QED
    BY <1>1, <1>4, <2>1, <2>3, <2>4, CascadeRows DEF RowsStay
<1>5. ASSUME NEW e, NEW a, NEW n, WellFormed(e), Reducible(e), Projected(e, a, n)
      PROVE  RowsStay
  <2>2. \A x \in Approvals :
           /\ approvals[x] # None => approvals'[x] # None /\ approvals'[x].session = approvals[x].session
           /\ approvals'[x] # None => approvals[x] # None \/ x \notin minted
    <3>1. a # None => approvals[a] = None /\ a \notin minted
      BY <1>5 DEF Projected
    <3> QED
      BY <1>5, <3>1, ProjectedApprovals
  <2>3. \A i \in InboxEvents : inbox[i] # None =>
           /\ inbox'[i] # None
           /\ inbox'[i].session = inbox[i].session /\ inbox'[i].type = inbox[i].type
           /\ inbox'[i].approval = inbox[i].approval
    <3>1. n # None => inbox[n] = None
      BY <1>5 DEF Projected
    <3> QED
      BY <1>5, <3>1, ProjectedInbox
  <2>4. \A i \in InboxEvents : inbox'[i] # None =>
           \/ inbox[i] # None /\ inbox'[i].session = inbox[i].session
           \/ i \notin minted
    <3>1. n # None => n \notin minted
      BY <1>5 DEF Projected
    <3> QED
      BY <1>5, <3>1, ProjectedInbox
  <2> QED
    BY <1>1, <2>2, <2>3, <2>4, SessionRowsStay DEF RowsStay
<1> QED
  BY <1>2, <1>3, <1>4, <1>5, StepKinds

\* The notification of an approval is an inbox event of that type, and no other is.
NotificationsTyped ==
    \A i \in InboxEvents : inbox[i] # None =>
        (inbox[i].type = "approval_request" <=> inbox[i].approval # None)

\* Only approval_requested makes a notification, and ON DELETE SET NULL never finds one.
LEMMA NextNotificationsTyped ==
    ASSUME Consistent, NotificationsTyped, [ReadModelNext]_rmvars
    PROVE  NotificationsTyped'
<1> USE NoneIsNoId DEF Consistent
<1>1. CASE InboxOnly
  BY <1>1 DEF InboxOnly, NotificationsTyped
<1>2. ASSUME NEW s \in Sessions, Begins(s) PROVE NotificationsTyped'
  BY <1>2 DEF Begins, NotificationsTyped
<1>3. ASSUME NEW gone, CascadeSessions(gone) PROVE NotificationsTyped'
  <2>1. ASSUME NEW i \in InboxEvents, inbox'[i] # None
        PROVE  /\ inbox[i] # None
               /\ inbox'[i].type = inbox[i].type /\ inbox'[i].approval = inbox[i].approval
    <3>1. inbox[i] # None /\ inbox[i].session \notin gone /\ inbox'[i].type = inbox[i].type
      BY <1>3, <2>1, CascadeRows
    <3>2. inbox[i].approval \in Approvals /\ approvals[inbox[i].approval] # None
             => approvals[inbox[i].approval].session = inbox[i].session
      BY <3>1 DEF RowsBelongTogether
    <3> QED
      BY <1>3, <2>1, <3>1, <3>2, CascadeRows
  <2> QED
    BY <2>1 DEF NotificationsTyped
<1>4. ASSUME NEW e, NEW a, NEW n, WellFormed(e), Reducible(e), Projected(e, a, n)
      PROVE  NotificationsTyped'
  <2>1. /\ a # None <=> e.type = "approval_requested"
        /\ n # None <=> e.type \in DOMAIN InboxEventTypeFor
    BY <1>4 DEF Projected
  <2>2. ASSUME n \in InboxEvents
        PROVE  inbox'[n].approval = a /\ inbox'[n].type = InboxEventTypeFor[e.type]
    BY <1>4, <2>2 DEF Projected, ProjectInbox
  <2>3. n \in InboxEvents => (inbox'[n].type = "approval_request" <=> inbox'[n].approval # None)
    BY <2>1, <2>2 DEF InboxEventTypeFor
  <2>4. ASSUME NEW i \in InboxEvents, i # n, inbox'[i] # None
        PROVE  /\ inbox[i] # None
               /\ inbox'[i].type = inbox[i].type /\ inbox'[i].approval = inbox[i].approval
    BY <1>4, <2>4, ProjectedInbox
  <2> QED
    BY <2>3, <2>4 DEF NotificationsTyped
<1> QED
  BY <1>1, <1>2, <1>3, <1>4, StepKinds

\* A session at rest always has the summary of the run that ended it (ADR-0008).
THEOREM RestingIsSummarised == ReadModelSpec => []RestingHasSummary
<1>1. ReadModelInit => RestingHasSummary
  BY DEF ReadModelInit, RestingHasSummary, IsResting, Exists
<1> QED
  BY <1>1, ConsistentHolds, NextResting, PTL DEF ReadModelSpec

\* A session shown as waiting always has a pending approval to decide.
THEOREM WaitingCanBeAnswered == ReadModelSpec => []WaitingHasPending
<1>1. ReadModelInit => WaitingHasPending
  BY DEF ReadModelInit, WaitingHasPending, Exists
<1> QED
  BY <1>1, ConsistentHolds, NextWaiting, PTL DEF ReadModelSpec

\* Every approval has exactly one notification, never unread once it is decided.
THEOREM ApprovalsStayNotified == ReadModelSpec => []ApprovalsAreNotified
<1>1. ReadModelInit => ApprovalsAreNotified
  BY DEF ReadModelInit, ApprovalsAreNotified
<1> QED
  BY <1>1, ConsistentHolds, NextNotified, PTL DEF ReadModelSpec
-----------------------------------------------------------------------------
\* The queues events and answers wait in on their way here.

\* What a queue holds.
Members(q) == {q[k] : k \in DOMAIN q}

\* A message appended is one more member.
LEMMA AppendMembers ==
    ASSUME NEW S, NEW q \in Seq(S), NEW m \in S
    PROVE  Append(q, m) \in Seq(S) /\ Members(Append(q, m)) = Members(q) \cup {m}
<1>1. Len(Append(q, m)) = Len(q) + 1 /\ \A k \in 1..Len(q) : Append(q, m)[k] = q[k]
  OBVIOUS
<1>2. Append(q, m)[Len(q) + 1] = m /\ DOMAIN Append(q, m) = 1..(Len(q) + 1) /\ DOMAIN q = 1..Len(q)
  OBVIOUS
<1> QED
  BY <1>1, <1>2 DEF Members

\* Taking the head leaves the others.
LEMMA TailMembers ==
    ASSUME NEW S, NEW q \in Seq(S), q # <<>>
    PROVE  /\ Head(q) \in S /\ Tail(q) \in Seq(S)
           /\ Members(q) = Members(Tail(q)) \cup {Head(q)}
<1>1. Len(q) \in Nat \ {0} /\ Head(q) = q[1] /\ Tail(q) \in Seq(S)
  OBVIOUS
<1>2. /\ DOMAIN q = 1..Len(q) /\ DOMAIN Tail(q) = 1..(Len(q) - 1)
      /\ \A k \in 1..(Len(q) - 1) : Tail(q)[k] = q[k + 1]
  BY <1>1
<1>3. ASSUME NEW m \in Members(q) PROVE m \in Members(Tail(q)) \cup {Head(q)}
  <2>1. PICK k \in 1..Len(q) : m = q[k]
    BY <1>2 DEF Members
  <2>2. CASE k = 1
    BY <1>1, <2>1, <2>2
  <2>3. CASE k # 1
    <3>1. k - 1 \in 1..(Len(q) - 1) /\ m = q[(k - 1) + 1]
      BY <1>1, <2>1, <2>3
    <3> QED
      BY <1>2, <3>1 DEF Members
  <2> QED
    BY <2>2, <2>3
<1>4. ASSUME NEW m \in Members(Tail(q)) \cup {Head(q)} PROVE m \in Members(q)
  <2>1. CASE m = Head(q)
    BY <1>1, <1>2, <2>1 DEF Members
  <2>2. CASE m \in Members(Tail(q))
    <3>1. PICK k \in 1..(Len(q) - 1) : m = q[k + 1]
      BY <1>2, <2>2 DEF Members
    <3>2. k + 1 \in 1..Len(q)
      BY <1>1, <3>1
    <3> QED
      BY <1>2, <3>1, <3>2 DEF Members
  <2> QED
    BY <1>4, <2>1, <2>2
<1> QED
  BY <1>1, <1>2, <1>3, <1>4

\* Every member is one of the messages the queue is made of.
LEMMA MembersOf ==
    ASSUME NEW S, NEW q \in Seq(S)
    PROVE  Members(q) \subseteq S
BY DEF Members

\* The empty queue.
LEMMA EmptyQueue == Members(<<>>) = {}
BY DEF Members
=============================================================================
