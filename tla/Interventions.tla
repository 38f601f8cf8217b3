--------------------------- MODULE Interventions ---------------------------
(***************************************************************************)
(* How a user answers what claude asks: the detail panel of the Inbox, the *)
(* rows of the Approvals page's Pending tab, the requests they make, the   *)
(* routes that handle these, and the answer's way through the agent back   *)
(* to the read model.                                                      *)
(*                                                                         *)
(* A panel is a place in some tab where one item may be open: an inbox     *)
(* event (InboxDetailPanel) or an approval (ApprovalRow).  What the user   *)
(* did there is kept in the component, so closing it forgets it.           *)
(*                                                                         *)
(* An accepted answer travels as one entry of `pipe`: command, consumer    *)
(* and event of AgentSessions follow each other in order and are lost      *)
(* together.  What else the agent reports comes at any time.  A fetch is   *)
(* one step, LiveUpdates has its halves; `due` says one must come.         *)
(***************************************************************************)
EXTENDS ReadModel, Naturals, Sequences

CONSTANTS
    DetailPanels,   \* Inbox pages open somewhere
    RowPanels,      \* rows of Approvals pages open somewhere
    Reports,        \* session events the agent may send on its own
    MaxUnderWay,    \* answers accepted and not projected yet, per devcontainer
    MaxLosses       \* requests or responses the network loses

Panels == DetailPanels \cup RowPanels

ASSUME PanelsAreOfOneKind == DetailPanels \cap RowPanels = {} /\ None \notin Panels
ASSUME PanelsHaveThreads == Threads = Panels    \* a mark-read request has its own
ASSUME ReportsAreSessionEvents == Reports \subseteq PlainSessionEventTypes
ASSUME InterventionBounds == MaxUnderWay \in Nat /\ MaxLosses \in Nat

VARIABLES
    pipe,       \* devcontainer -> answers under way, as the events they will be
    panels,     \* panel -> what is mounted there, None when nothing is
    posts,      \* panel -> kind -> the request made from there, None when none is
    opened,     \* history: interventions some panel was opened on
    answered,   \* history: interventions an answer was accepted for
    lapses,     \* history: see Lapse
    losses

uivars == <<panels, posts, opened>>
chvars == <<pipe, answered>>
vars == <<rmvars, uivars, chvars, lapses, losses>>

Items == InboxEvents \cup Approvals

\* ActionState of useInterventionAction (the tag of `submitting` is in the request).
Control == {"idle", "submitting", "awaiting", "stale", "error"}

\* POST approval-resolution or user-input; POST read; POST resolve.
Kinds == {"answer", "read", "resolve"}

Lapse == {"second_view",    \* an intervention was opened again, or in two places
          "unheard",        \* a request failed in the tab, and may have been made
          "dropped",        \* answers were lost with their connection
          "unresolved"}     \* a mark-read undid a resolution

\* What an intervention route answers.  The client tells these apart; the other
\* error codes (not found, session not active, runtime unavailable) are "refused".
Replies == {"ok", "APPROVAL_REQUEST_NOT_PENDING", "INBOX_EVENT_NOT_ACTIONABLE", "refused"}

Panel == [item : Items, shown : Optional(InboxRow \cup ApprovalRow), control : Control,
          marked : BOOLEAN, resolving : BOOLEAN, due : BOOLEAN]

Post == [target : Items, dc : Devcontainers, session : Sessions,
         resolution : Optional(Decided), heard : BOOLEAN,
         reply : Optional(Replies)]

ASSUME NoneIsNoPart == None \notin Panel \cup Post \cup Replies

\* The answers an agent may have on their way to the read model.
AnswerFrom(d) ==
    {ApprovalResolved(d, s, a, r) : s \in Sessions, a \in Approvals, r \in Decided} \cup
    {UserInputSent(d, s, i) : s \in Sessions, i \in InboxEvents}

InterventionTypeOK ==
    /\ TypeOK
    /\ DOMAIN pipe = Devcontainers
    /\ \A d \in Devcontainers : pipe[d] \in Seq(AnswerFrom(d)) /\ Len(pipe[d]) <= MaxUnderWay
    /\ panels \in [Panels -> Optional(Panel)]
    /\ posts \in [Panels -> [Kinds -> Optional(Post)]]
    /\ opened \subseteq Items /\ answered \subseteq opened
    /\ lapses \subseteq Lapse
    /\ losses \in 0 .. MaxLosses

Init ==
    /\ ReadModelInit
    /\ pipe = [d \in Devcontainers |-> <<>>]
    /\ panels = [p \in Panels |-> None]
    /\ posts = [p \in Panels |-> [k \in Kinds |-> None]]
    /\ opened = {} /\ answered = {} /\ lapses = {}
    /\ losses = 0

-----------------------------------------------------------------------------
\* What a panel shows and offers.

Fresh(x) == IF x \in Approvals THEN approvals[x] ELSE inbox[x]

Mounted(x) == [item |-> x, shown |-> IF x \in Approvals THEN approvals[x] ELSE None,
               control |-> "idle", marked |-> FALSE, resolving |-> FALSE,
               due |-> x \in InboxEvents]

\* What the panel shows: an approval row is of type "approval_request" itself.
TypeShown(panel) ==
    IF panel.item \in Approvals THEN "approval_request"
    ELSE IF panel.shown = None THEN None ELSE panel.shown.type

IsApproval(panel)  == TypeShown(panel) = "approval_request"
HasControls(panel) == TypeShown(panel) \in {"question", "approval_request"}

\* What an answer given on the panel is an answer to.
TargetOf(panel) ==
    IF panel.item \in Approvals \/ ~IsApproval(panel)
    THEN panel.item ELSE panel.shown.approval

\* The statuses that hide the controls.
Settled(panel) ==
    /\ panel.shown # None
    /\ panel.shown.status \in Decided \cup {"resolved"}

\* Mutant: a submitted answer does not hide the controls.
ShowsActionsAgain(panel) ==
    /\ HasControls(panel)
    /\ ~Settled(panel)
    /\ panel.control # "stale"

\* showActions and showForm
ShowsActions(panel) ==
    /\ HasControls(panel)
    /\ ~Settled(panel)
    /\ panel.control \notin {"awaiting", "stale"}

\* The intervention an item stands for: an approval and its notification are one.
InterventionOf(x) ==
    IF x \in InboxEvents /\ inbox[x] # None /\ inbox[x].approval # None
    THEN inbox[x].approval ELSE x

-----------------------------------------------------------------------------
\* The user.

\* An item is opened from a list that shows it: an inbox event of any status, an
\* approval of the Pending tab.  A place is used again once the requests made from
\* it are over (a bound; another place may be used at once).
Open(p, x) ==
    /\ panels[p] = None
    /\ \A k \in Kinds : posts[p][k] = None
    /\ \/ p \in DetailPanels /\ x \in InboxEvents /\ inbox[x] # None
       \/ p \in RowPanels /\ x \in Approvals /\ approvals[x] # None /\ approvals[x].status = "pending"
    /\ panels' = [panels EXCEPT ![p] = Mounted(x)]
    /\ opened' = opened \cup {InterventionOf(x)}
    /\ lapses' = IF InterventionOf(x) \in opened THEN lapses \cup {"second_view"} ELSE lapses
    /\ UNCHANGED <<rmvars, chvars, posts, losses>>

\* Unmounting forgets the control; requests go on and nobody hears their answer.
Unmount(p) ==
    /\ panels' = [panels EXCEPT ![p] = None]
    /\ posts' = [posts EXCEPT ![p] =
                    [k \in Kinds |-> IF @[k] = None THEN None ELSE [@[k] EXCEPT !.heard = FALSE]]]

Close(p) ==
    /\ panels[p] # None
    /\ Unmount(p)
    /\ UNCHANGED <<rmvars, chvars, opened, lapses, losses>>

\* A request about what the panel shows.
PostFor(panel, target, resolution) ==
    [target |-> target, dc |-> panel.shown.dc, session |-> panel.shown.session,
     resolution |-> resolution, heard |-> TRUE, reply |-> None]

\* run(tag, submit): Approve, Reject or Send.
Submit(p) ==
    LET panel == panels[p] IN
    /\ panel # None
    /\ ShowsActions(panel)
    /\ panel.control # "submitting"
    /\ posts[p]["answer"] = None
    /\ panels' = [panels EXCEPT ![p].control = "submitting"]
    /\ \E r \in IF IsApproval(panel) THEN Decided ELSE {None} :
          posts' = [posts EXCEPT ![p]["answer"] = PostFor(panel, TargetOf(panel), r)]
    /\ UNCHANGED <<rmvars, chvars, opened, lapses, losses>>

\* The Resolve button of the detail panel.
Dismiss(p) ==
    LET panel == panels[p] IN
    /\ panel # None
    /\ panel.item \in InboxEvents
    /\ panel.shown # None
    /\ panel.shown.status # "resolved"
    /\ ~panel.resolving
    /\ posts[p]["resolve"] = None
    /\ panels' = [panels EXCEPT ![p].resolving = TRUE]
    /\ posts' = [posts EXCEPT ![p]["resolve"] = PostFor(panel, panel.item, None)]
    /\ UNCHANGED <<rmvars, chvars, opened, lapses, losses>>

-----------------------------------------------------------------------------
\* Fetches.  `due`: the panel was mounted, told of a change, or made a write.

\* The detail's effect marks an event shown as unread, once until that fails.  A
\* fetch that fails (the event is gone) keeps what was shown, and runs the effect.
RefetchDetail(p) ==
    LET panel == panels[p]
        shown == IF inbox[panel.item] = None THEN panel.shown ELSE inbox[panel.item]
        marks == shown # None /\ shown.status = "unread" /\ ~panel.marked
        after == [panel EXCEPT !.shown = shown, !.marked = @ \/ marks, !.due = FALSE]
    IN
    /\ panel # None
    /\ panel.item \in InboxEvents
    /\ panels' = [panels EXCEPT ![p] = after]
    /\ IF marks
       THEN /\ posts[p]["read"] = None
            /\ posts' = [posts EXCEPT ![p]["read"] = PostFor(after, panel.item, None)]
       ELSE UNCHANGED posts
    /\ UNCHANGED <<rmvars, chvars, opened, lapses, losses>>

\* Mutant: the list is not filtered by the tab's status and rows stay.
RefetchListUnfiltered(p) ==
    /\ panels[p] # None
    /\ panels[p].item \in Approvals
    /\ panels' = [panels EXCEPT ![p].due = FALSE]
    /\ UNCHANGED <<rmvars, chvars, posts, opened, lapses, losses>>

\* A row of the Pending tab goes with the list it is in.
RefetchList(p) ==
    LET panel == panels[p] IN
    /\ panel # None
    /\ panel.item \in Approvals
    /\ IF approvals[panel.item] # None /\ approvals[panel.item].status = "pending"
       THEN /\ panels' = [panels EXCEPT ![p].shown = approvals[panel.item], ![p].due = FALSE]
            /\ UNCHANGED posts
       ELSE Unmount(p)
    /\ UNCHANGED <<rmvars, chvars, opened, lapses, losses>>

Refetch(p) == RefetchDetail(p) \/ RefetchList(p)

\* An invalidation reaches every mounted panel (they register all three scopes).
Announced ==
    [p \in Panels |-> IF panels[p] = None THEN None ELSE [panels[p] EXCEPT !.due = TRUE]]

-----------------------------------------------------------------------------
\* The routes.

\* The last check of resolve_approval and of send_user_input.
IsOpen(post) ==
    IF post.target \in Approvals THEN approvals[post.target].status = "pending"
    ELSE inbox[post.target].status # "resolved"

\* The checks, in the order the routes make them.
Verdict(post, connected) ==
    IF ~IsActive(post.session) \/ Fresh(post.target) = None THEN "refused"
    ELSE IF ~IsOpen(post)
         THEN IF post.target \in Approvals THEN "APPROVAL_REQUEST_NOT_PENDING"
              ELSE "INBOX_EVENT_NOT_ACTIONABLE"
    ELSE IF connected THEN "ok" ELSE "refused"

\* The event the agent will make of an accepted answer.
Answer(post) ==
    IF post.target \in Approvals
    THEN ApprovalResolved(post.dc, post.session, post.target, post.resolution)
    ELSE UserInputSent(post.dc, post.session, post.target)

Reply(p, kind, code) == posts' = [posts EXCEPT ![p][kind].reply = code]

\* A request that has reached the Control Plane and is not handled yet.
Arrived(p, kind) == posts[p][kind] # None /\ posts[p][kind].reply = None

\* resolve_approval and send_user_input run on the event loop: one step.
HandleAnswer(p) ==
    LET post == posts[p]["answer"] IN
    /\ Arrived(p, "answer")
    /\ Len(pipe[post.dc]) < MaxUnderWay
    /\ \E connected \in BOOLEAN :
        LET ok == Verdict(post, connected) = "ok" IN
        /\ Reply(p, "answer", Verdict(post, connected))
        /\ pipe' = IF ok THEN [pipe EXCEPT ![post.dc] = Append(@, Answer(post))] ELSE pipe
        /\ answered' = IF ok THEN answered \cup {post.target} ELSE answered
    /\ UNCHANGED <<rmvars, panels, opened, lapses, losses>>

\* mark_inbox_event_read: nothing to write, or the first half of mark_read ...
HandleRead(p) ==
    LET i == posts[p]["read"].target IN
    /\ Arrived(p, "read")
    /\ requests[p] = None
    /\ \/ inbox[i] # None /\ inbox[i].status = "unread" /\ MarkReadSelect(p, i) /\ UNCHANGED posts
       \/ inbox[i] # None /\ inbox[i].status # "unread" /\ Reply(p, "read", "ok") /\ UNCHANGED rmvars
       \/ inbox[i] = None /\ Reply(p, "read", "refused") /\ UNCHANGED rmvars
    /\ UNCHANGED <<panels, opened, chvars, lapses, losses>>

\* ... and its second.
FinishRead(p) ==
    LET i == posts[p]["read"].target IN
    /\ Arrived(p, "read")
    /\ MarkReadUpdate(p)
    /\ Reply(p, "read", IF inbox[i] = None THEN "refused" ELSE "ok")
    /\ lapses' = IF inbox[i] # None /\ inbox[i].status = "resolved"
                 THEN lapses \cup {"unresolved"} ELSE lapses
    /\ UNCHANGED <<panels, opened, chvars, losses>>

HandleResolve(p) ==
    LET i == posts[p]["resolve"].target IN
    /\ Arrived(p, "resolve")
    /\ IF inbox[i] # None
       THEN ResolveInboxEvent(i) /\ Reply(p, "resolve", "ok")
       ELSE Reply(p, "resolve", "refused") /\ UNCHANGED rmvars
    /\ UNCHANGED <<panels, opened, chvars, lapses, losses>>

Serve(p) == HandleAnswer(p) \/ HandleRead(p) \/ FinishRead(p) \/ HandleResolve(p)

-----------------------------------------------------------------------------
\* The answers in the tab.

\* The code each kind of control takes for "somebody was faster".
StaleCode(panel) ==
    IF IsApproval(panel) THEN "APPROVAL_REQUEST_NOT_PENDING" ELSE "INBOX_EVENT_NOT_ACTIONABLE"

\* Mutant: every refusal is taken for "somebody was faster".
AfterAnswerAnyStale(panel, outcome) ==
    [panel EXCEPT !.control =
        IF outcome = "ok" THEN "awaiting" ELSE IF outcome = "failed" THEN "error" ELSE "stale"]

\* Mutant: the control keeps the code instead of a kind.
AfterAnswerCode(panel, outcome) ==
    [panel EXCEPT !.control = IF outcome = "ok" THEN "awaiting" ELSE outcome]

\* run's try and catch; "failed" is a NetworkError.
AfterAnswer(panel, outcome) ==
    [panel EXCEPT !.control =
        IF outcome = "ok" THEN "awaiting"
        ELSE IF outcome = StaleCode(panel) THEN "stale" ELSE "error"]

\* The detail's two writes fetch again when they succeed.
AfterRead(panel, outcome) ==
    IF outcome = "ok" THEN [panel EXCEPT !.due = TRUE] ELSE [panel EXCEPT !.marked = FALSE]

AfterResolve(panel, outcome) ==
    [panel EXCEPT !.resolving = FALSE, !.due = @ \/ outcome = "ok"]

\* The panel that sent a request learns its outcome, if it is still there.
Learn(p, kind, outcome) ==
    LET panel == panels[p] IN
    panels' = [panels EXCEPT ![p] =
        IF ~posts[p][kind].heard THEN panel
        ELSE IF kind = "answer" THEN AfterAnswer(panel, outcome)
        ELSE IF kind = "read" THEN AfterRead(panel, outcome)
        ELSE AfterResolve(panel, outcome)]

ReplyArrives(p, kind) ==
    /\ posts[p][kind] # None
    /\ posts[p][kind].reply # None
    /\ Learn(p, kind, posts[p][kind].reply)
    /\ posts' = [posts EXCEPT ![p][kind] = None]
    /\ UNCHANGED <<rmvars, chvars, opened, lapses, losses>>

\* fetch() fails.  A request that was not handled yet may never be, or still be;
\* one that is being handled is handled to the end.
RequestFails(p, kind) ==
    LET post == posts[p][kind]
        begun == kind = "read" /\ requests[p] # None
    IN
    /\ post # None
    /\ post.heard
    /\ losses < MaxLosses
    /\ losses' = losses + 1
    /\ Learn(p, kind, "failed")
    /\ \/ ~begun /\ posts' = [posts EXCEPT ![p][kind] = None]
       \/ post.reply = None /\ posts' = [posts EXCEPT ![p][kind].heard = FALSE]
    /\ lapses' = lapses \cup {"unheard"}
    /\ UNCHANGED <<rmvars, chvars, opened>>

-----------------------------------------------------------------------------
\* The agent and the rest of the read model.

\* The agent's event for the oldest answer is projected and announced.
Deliver(d) ==
    /\ pipe[d] # <<>>
    /\ Intake(Head(pipe[d]))
    /\ pipe' = [pipe EXCEPT ![d] = Tail(@)]
    /\ panels' = Announced
    /\ UNCHANGED <<answered, posts, opened, lapses, losses>>

\* The agent's connection is lost with the answers on it; nobody sends them again.
\* Whether there is a connection when a route looks is left open (`connected`).
Drop(d) ==
    /\ pipe[d] # <<>>
    /\ pipe' = [pipe EXCEPT ![d] = <<>>]
    /\ lapses' = lapses \cup {"dropped"}
    /\ UNCHANGED <<rmvars, uivars, answered, losses>>

\* The agent reports on a session, and the report is announced.
SessionReport(s) ==
    /\ sessions[s] # None
    /\ \E type \in Reports : PersistEvent(SessionEvent(type, sessions[s].dc, s))
    /\ panels' = Announced
    /\ UNCHANGED <<posts, opened, chvars, lapses, losses>>

\* Rows come and go by routes that concern other pages.
OtherRoute ==
    /\ \E d \in Devcontainers :
        \/ CreateDevcontainer(d)
        \/ Intake(DevcontainerEvent("devcontainer_started", d))
        \/ DeleteDevcontainer(d)
        \/ \E s \in Sessions : StartRow(d, s)
    /\ UNCHANGED <<uivars, chvars, lapses, losses>>

Next ==
    \/ \E p \in Panels :
        \/ \E x \in Items : Open(p, x)
        \/ Close(p) \/ Submit(p) \/ Dismiss(p) \/ Refetch(p) \/ Serve(p)
        \/ \E k \in Kinds : ReplyArrives(p, k) \/ RequestFails(p, k)
    \/ \E d \in Devcontainers : Deliver(d) \/ Drop(d)
    \/ \E s \in Sessions : SessionReport(s)
    \/ OtherRoute

Spec == Init /\ [][Next]_vars

\* Requests that arrive are handled and answered, accepted answers reach the read
\* model unless their connection drops, and a view that has to fetch again does.
\* Users, claude and the network owe nothing.  (The resolve button needs no fairness:
\* no property waits for it.)
ReadProgress(p) == HandleRead(p) \/ FinishRead(p) \/ ReplyArrives(p, "read")

FairSpec ==
    /\ Spec
    /\ \A d \in Devcontainers : WF_vars(Deliver(d))
    /\ \A p \in Panels :
        /\ WF_vars(HandleAnswer(p))
        /\ WF_vars(ReplyArrives(p, "answer"))
        /\ WF_vars(panels[p] # None /\ panels[p].due /\ Refetch(p))
    /\ \A p \in DetailPanels : WF_vars(ReadProgress(p))

-----------------------------------------------------------------------------
\* Properties.

\* The Inbox's needsAttentionEvents.
NeedsAttention ==
    {i \in InboxEvents :
        inbox[i] # None /\ inbox[i].type # "completion" /\ inbox[i].status # "resolved"}

\* The intervention is settled in the read model, or gone from it.
Over(x) ==
    \/ Fresh(x) = None
    \/ x \in Approvals /\ approvals[x].status \in Decided
                       /\ \A i \in NeedsAttention : inbox[i].approval # x
    \/ x \in InboxEvents /\ x \notin NeedsAttention

UnderWay(x) ==
    \E d \in Devcontainers : \E k \in DOMAIN pipe[d] : x \in {pipe[d][k].approval, pipe[d][k].inbox}

\* What the controls say is true of the database, in whatever order answers,
\* rival answers, mark-reads and reports arrive: "awaiting runtime" means that an
\* answer is under way or projected, "already resolved" that it is resolved, and
\* neither is still listed under Needs Attention.  A connection lost with the
\* answer on it, or a mark-read that undoes a resolution, makes them untrue.
NotesAreTrue ==
    lapses \cap {"dropped", "unresolved"} = {} =>
        \A p \in Panels : panels[p] # None =>
            /\ panels[p].control = "awaiting" =>
                  Over(TargetOf(panels[p])) \/ UnderWay(TargetOf(panels[p]))
            /\ panels[p].control = "stale" => Over(TargetOf(panels[p]))

\* A user who looks at an intervention in one place, once, and whose requests get
\* through, answers it at most once: the 202 does not change the row, so only the
\* control's own state keeps the second click away until the event comes back.
OneAnswerPerOpening ==
    [][\A p \in Panels :
          (/\ lapses \cap {"second_view", "unheard"} = {}
           /\ Arrived(p, "answer")
           /\ posts'[p]["answer"] # None /\ posts'[p]["answer"].reply = "ok")
          => posts[p]["answer"].target \notin answered]_vars

\* Every click comes to something without a refresh: the panel shows the item
\* settled or is gone with its row, or says that the answer was not taken.
ClickIsSettled ==
    \A p \in Panels :
        (panels[p] # None /\ panels[p].control \in {"submitting", "awaiting"})
        ~> \/ panels[p] = None
           \/ panels[p].control \in {"stale", "error"} \/ Settled(panels[p])
           \/ Fresh(panels[p].item) = None \/ lapses \cap {"dropped", "unresolved"} # {}
=============================================================================
