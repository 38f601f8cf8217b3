------------------------ MODULE InterventionsProofs ------------------------
(***************************************************************************)
(* The panels that answer claude, for any number of users, places, items   *)
(* and answers under way: their types, that they write the database as     *)
(* ReadModel allows, that what a control says is true, and that one        *)
(* opening answers once.                                                   *)
(***************************************************************************)
EXTENDS Interventions, ReadModelProofs

-----------------------------------------------------------------------------
\* What panels, requests and answers are about, and that it stays so.

\* x is, or was, an item of session s in devcontainer d.
About(x, s, d) ==
    /\ x \in minted /\ s \in minted
    /\ Fresh(x) # None => Fresh(x).session = s
    /\ sessions[s] # None => Fresh(x) # None /\ sessions[s].dc = d

\* A question, if it is an inbox event and still there.
Answerable(x) == x \in InboxEvents /\ inbox[x] # None => inbox[x].type = "question"

\* What is shown of an inbox event is what its row says, the status aside.
ShowsEvent(i, row) ==
    /\ row \in InboxRow
    /\ row.type = "approval_request" <=> row.approval # None
    /\ row.approval # None => About(row.approval, row.session, row.dc)
    /\ inbox[i] # None => inbox[i].type = row.type /\ inbox[i].approval = row.approval

PanelBelongs(panel) ==
    /\ panel.item \in minted
    /\ panel.shown # None => About(panel.item, panel.shown.session, panel.shown.dc)
    /\ panel.item \in Approvals => panel.shown \in ApprovalRow
    /\ panel.item \in InboxEvents /\ panel.shown # None => ShowsEvent(panel.item, panel.shown)
    /\ panel.control # "idle" => HasControls(panel)

PanelsBelong == \A p \in Panels : panels[p] # None => PanelBelongs(panels[p])

PostsBelong ==
    \A p \in Panels, k \in Kinds : posts[p][k] # None =>
        /\ About(posts[p][k].target, posts[p][k].session, posts[p][k].dc)
        /\ k # "answer" => posts[p][k].target \in InboxEvents
        /\ k = "answer" => /\ Answerable(posts[p][k].target)
                           /\ posts[p][k].target \in Approvals => posts[p][k].resolution # None

\* A panel waits for the answer to its own request, and is there to hear it.
PanelsListen ==
    /\ \A p \in Panels, k \in Kinds : posts[p][k] # None /\ posts[p][k].heard => panels[p] # None
    /\ \A p \in Panels : posts[p]["answer"] # None /\ posts[p]["answer"].heard =>
          /\ panels[p].control = "submitting"
          /\ posts[p]["answer"].target = TargetOf(panels[p])

AnswerBelongs(e) ==
    LET x == IF e.type = "approval_resolved" THEN e.approval ELSE e.inbox IN
    About(x, e.session, e.dc) /\ Answerable(x)

AnswersBelong == \A d \in Devcontainers : \A e \in Members(pipe[d]) : AnswerBelongs(e)

\* What is answered at p, or may be once p shows it.
Regards(p, x) ==
    /\ panels[p] # None
    /\ IF panels[p].shown = None
       THEN Fresh(panels[p].item) # None /\ x = InterventionOf(panels[p].item)
       ELSE x = TargetOf(panels[p])

Asked(p, x) == posts[p]["answer"] # None /\ posts[p]["answer"].target = x

AllOpened == \A p \in Panels, x \in Items : Regards(p, x) \/ Asked(p, x) => x \in opened

\* A mark-read between its two halves is its panel's request.
ReadsUnderWay ==
    \A p \in Panels : requests[p] # None =>
        Arrived(p, "read") /\ requests[p] = [op |-> "read", id |-> posts[p]["read"].target]

Base ==
    /\ Consistent
    /\ NotificationsTyped
    /\ InterventionTypeOK
    /\ PanelsBelong /\ PostsBelong /\ PanelsListen /\ AnswersBelong
    /\ ReadsUnderWay /\ AllOpened

-----------------------------------------------------------------------------
\* What the controls say.

Heeded == lapses \cap {"dropped", "unresolved"} = {}

\* The notification of a decided approval is resolved.
DecidedAreSettled ==
    \A i \in InboxEvents :
        (/\ inbox[i] # None /\ inbox[i].approval # None
         /\ approvals[inbox[i].approval].status \in Decided) => inbox[i].status = "resolved"

RepliesAreTrue ==
    \A p \in Panels : LET post == posts[p]["answer"] IN post # None =>
        /\ post.reply = "ok" => Over(post.target) \/ UnderWay(post.target)
        /\ post.reply = "APPROVAL_REQUEST_NOT_PENDING" /\ post.target \in Approvals
              => Over(post.target)
        /\ post.reply = "INBOX_EVENT_NOT_ACTIONABLE" /\ post.target \in InboxEvents
              => Over(post.target)

Truth ==
    /\ NotesAreTrue
    /\ Heeded => DecidedAreSettled /\ RepliesAreTrue

-----------------------------------------------------------------------------
\* One opening, one answer.

OneLook == lapses \cap {"second_view", "unheard"} = {}

OnePlace ==
    OneLook =>
        \A x \in Items, p, q \in Panels :
            (Regards(p, x) \/ Asked(p, x)) /\ (Regards(q, x) \/ Asked(q, x)) => p = q

NotAnsweredYet ==
    OneLook =>
        \A p \in Panels, x \in Items :
            /\ Asked(p, x) /\ posts[p]["answer"].reply # "ok" => x \notin answered
            /\ Asked(p, x) /\ Regards(p, x) => posts[p]["answer"].heard
            /\ Regards(p, x) /\ panels[p].control \in {"idle", "error"} => x \notin answered

OneAnswer == OnePlace /\ NotAnsweredYet

IInv == Base /\ Truth /\ OneAnswer

-----------------------------------------------------------------------------
\* Answers, panels and requests by their fields.

\* What an answer under way carries.
LEMMA AnswerFields ==
    ASSUME NEW d \in Devcontainers, NEW e \in AnswerFrom(d)
    PROVE  /\ e.dc = d /\ e.session \in Sessions
           /\ e.type \in {"approval_resolved", "user_input_sent"}
           /\ e.type = "approval_resolved" =>
                /\ e.approval \in Approvals /\ e.resolution \in Decided /\ e.inbox = None
                /\ e = ApprovalResolved(d, e.session, e.approval, e.resolution)
           /\ e.type = "user_input_sent" =>
                /\ e.inbox \in InboxEvents /\ e.approval = None
                /\ e = UserInputSent(d, e.session, e.inbox)
<1>1. CASE \E s \in Sessions, a \in Approvals, r \in Decided : e = ApprovalResolved(d, s, a, r)
  BY <1>1 DEF ApprovalResolved, SessionEvent, DevcontainerEvent
<1>2. CASE \E s \in Sessions, i \in InboxEvents : e = UserInputSent(d, s, i)
  BY <1>2 DEF UserInputSent, SessionEvent, DevcontainerEvent
<1> QED
  BY <1>1, <1>2 DEF AnswerFrom

\* A panel stays one whatever its controls do.
LEMMA PanelFields ==
    ASSUME NEW panel \in Panel
    PROVE  /\ panel # None /\ panel.item \in Items /\ panel.control \in Control
           /\ panel.shown \in Optional(InboxRow \cup ApprovalRow)
           /\ \A c \in Control : [panel EXCEPT !.control = c] \in Panel
           /\ \A b \in BOOLEAN :
                /\ [panel EXCEPT !.marked = b] \in Panel
                /\ [panel EXCEPT !.resolving = b] \in Panel
                /\ [panel EXCEPT !.due = b] \in Panel
BY NoneIsNoPart DEF Panel

\* A database row by its fields, as far as panels look at them.
LEMMA RowFields ==
    ASSUME NEW row \in InboxRow \cup ApprovalRow
    PROVE  /\ row # None /\ row.session \in Sessions /\ row.dc \in Devcontainers
           /\ row \in InboxRow => row.type \in InboxEventType /\ row.approval \in Optional(Approvals)
BY NoneIsNoRow DEF InboxRow, ApprovalRow, Optional

\* What a request is about.
LEMMA PostFields ==
    ASSUME NEW post \in Post
    PROVE  /\ post # None /\ post.target \in Items /\ post.dc \in Devcontainers /\ post.session \in Sessions
           /\ post.resolution \in Optional(Decided) /\ post.heard \in BOOLEAN
           /\ post.reply \in Optional(Replies)
BY NoneIsNoPart DEF Post

-----------------------------------------------------------------------------
\* The database is written as ReadModel allows.

\* An answer that is accepted is one its runtime may send.
LEMMA AcceptedAnswers ==
    ASSUME Consistent, NEW d \in Devcontainers, NEW e \in AnswerFrom(d), AnswerBelongs(e), Accepted(e)
    PROVE  /\ e \in RuntimeEvents
           /\ e.type = "approval_resolved" => approvals[e.approval] # None
           /\ e.type = "user_input_sent" => inbox[e.inbox] # None
<1> USE NoneIsNoId
<1>1. sessions[e.session] # None /\ e.session \in Sessions /\ e.dc = d
  BY AnswerFields DEF Accepted, Exists
<1>2. CASE e.type = "approval_resolved"
  <2>1. /\ e.approval \in Approvals /\ e.resolution \in Decided
        /\ e = ApprovalResolved(d, e.session, e.approval, e.resolution)
    BY <1>2, AnswerFields
  <2>2. approvals[e.approval] # None /\ approvals[e.approval].session = e.session /\ sessions[e.session].dc = d
    BY <1>1, <1>2, <2>1 DEF AnswerBelongs, About, Fresh
  <2>3. approvals[e.approval].dc = d
    BY <2>1, <2>2 DEF Consistent, RowsBelongTogether
  <2> QED
    BY <1>2, <2>1, <2>2, <2>3 DEF RuntimeEvents
<1>3. CASE e.type = "user_input_sent"
  <2>1. e.inbox \in InboxEvents /\ e = UserInputSent(d, e.session, e.inbox)
    BY <1>3, AnswerFields
  <2>2. /\ inbox[e.inbox] # None /\ inbox[e.inbox].session = e.session /\ sessions[e.session].dc = d
        /\ inbox[e.inbox].type = "question"
    BY <1>1, <1>3, <2>1, DisjointIds DEF AnswerBelongs, About, Answerable, Fresh
  <2>3. inbox[e.inbox].dc = d
    BY <2>1, <2>2 DEF Consistent, RowsBelongTogether
  <2> QED
    BY <1>3, <2>1, <2>2, <2>3 DEF RuntimeEvents
<1> QED
  BY <1>2, <1>3, AnswerFields

\* The oldest answer of a devcontainer.
LEMMA OldestAnswer ==
    ASSUME Base, NEW d \in Devcontainers, pipe[d] # <<>>
    PROVE  /\ Head(pipe[d]) \in AnswerFrom(d)
           /\ AnswerBelongs(Head(pipe[d]))
           /\ Head(pipe[d]) \in Members(pipe[d])
BY TailMembers DEF Base, InterventionTypeOK, AnswersBelong

\* Whatever users, routes and agents do, the tables take a step of ReadModel.
LEMMA StepOfReadModel ==
    ASSUME Base, [Next]_vars
    PROVE  [ReadModelNext]_rmvars
<1> USE PanelsHaveThreads
<1>1. ASSUME NEW p \in Panels, HandleRead(p) \/ FinishRead(p) \/ HandleResolve(p)
      PROVE  [ReadModelNext]_rmvars
  <2>1. \A k \in Kinds \ {"answer"} : Arrived(p, k) => posts[p][k].target \in InboxEvents
    BY DEF Base, PostsBelong, Arrived
  <2>2. CASE HandleRead(p)
    BY <2>1, <2>2 DEF HandleRead, ReadModelNext, RestWrite, Kinds
  <2>3. CASE FinishRead(p)
    BY <2>3 DEF FinishRead, ReadModelNext, RestWrite
  <2>4. CASE HandleResolve(p)
    BY <2>1, <2>4 DEF HandleResolve, ReadModelNext, RestWrite, Kinds
  <2> QED BY <1>1, <2>2, <2>3, <2>4
<1>2. ASSUME NEW d \in Devcontainers, Deliver(d)
      PROVE  [ReadModelNext]_rmvars
  <2>1. /\ Head(pipe[d]) \in AnswerFrom(d) /\ AnswerBelongs(Head(pipe[d]))
        /\ Intake(Head(pipe[d]))
    BY <1>2, OldestAnswer DEF Deliver
  <2>2. CASE Accepted(Head(pipe[d]))
    BY <2>1, <2>2, AcceptedAnswers DEF ReadModelNext, Base
  <2>3. CASE ~Accepted(Head(pipe[d]))
    BY <2>1, <2>3 DEF Intake, PersistEvent
  <2> QED BY <2>2, <2>3
<1>3. ASSUME NEW s \in Sessions, SessionReport(s)
      PROVE  [ReadModelNext]_rmvars
  BY <1>3, ReportsAreSessionEvents DEF SessionReport, RuntimeEvents, Intake, ReadModelNext
<1>4. ASSUME OtherRoute
      PROVE  [ReadModelNext]_rmvars
  <2>1. \A d \in Devcontainers : DevcontainerEvent("devcontainer_started", d) \in RuntimeEvents
    BY DEF RuntimeEvents, DevcontainerEventTypes
  <2> QED
    BY <1>4, <2>1 DEF OtherRoute, ReadModelNext, RestWrite
<1>5. ASSUME NEW p \in Panels, \/ \E x \in Items : Open(p, x)
                               \/ Close(p) \/ Submit(p) \/ Dismiss(p) \/ Refetch(p) \/ HandleAnswer(p)
                               \/ \E k \in Kinds : ReplyArrives(p, k) \/ RequestFails(p, k)
      PROVE  UNCHANGED rmvars
  BY <1>5 DEF Open, Close, Submit, Dismiss, Refetch, RefetchDetail, RefetchList, HandleAnswer,
              ReplyArrives, RequestFails
<1>6. ASSUME NEW d \in Devcontainers, Drop(d) PROVE UNCHANGED rmvars
  BY <1>6 DEF Drop
<1>7. CASE UNCHANGED vars
  BY <1>7 DEF vars
<1> QED
  BY <1>1, <1>2, <1>3, <1>4, <1>5, <1>6, <1>7 DEF Next, Serve

\* So everything ReadModel's steps keep is kept.
LEMMA StaysConsistent ==
    ASSUME Base, [Next]_vars
    PROVE  Consistent' /\ RowsStay /\ NotificationsTyped'
BY StepOfReadModel, NextType, NextMinted, NextBelong, NextStays, NextNotificationsTyped DEF Base, Consistent

-----------------------------------------------------------------------------
\* What things are about stays so while the tables change.

\* An inbox event that is there was there before, as the same.
LEMMA EventStays ==
    ASSUME Consistent, Consistent', RowsStay, NEW i \in InboxEvents, i \in minted, inbox'[i] # None
    PROVE  /\ inbox[i] # None
           /\ inbox'[i].session = inbox[i].session /\ inbox'[i].type = inbox[i].type
           /\ inbox'[i].approval = inbox[i].approval
<1>1. inbox[i] # None /\ inbox'[i].session = inbox[i].session
  BY DEF RowsStay
<1>2. sessions'[inbox[i].session] # None
  BY <1>1 DEF Consistent, RowsBelongTogether
<1> QED
  BY <1>1, <1>2 DEF RowsStay

\* An item stays with its session and devcontainer.
LEMMA AboutStays ==
    ASSUME Consistent, Consistent', RowsStay, NEW x \in Items, NEW s \in Sessions, NEW d, About(x, s, d)
    PROVE  About(x, s, d)'
<1>1. x \in minted' /\ s \in minted'
  BY DEF About, RowsStay
<1>2. sessions'[s] # None => sessions[s] # None /\ sessions'[s].dc = d
  BY DEF About, RowsStay
<1>3. CASE x \in Approvals
  <2>1. approvals'[x] # None => approvals'[x].session = s
    BY <1>3 DEF About, RowsStay, Fresh
  <2>2. sessions'[s] # None => approvals'[x] # None
    BY <1>2, <1>3 DEF About, RowsStay, Fresh
  <2> QED BY <1>1, <1>2, <1>3, <2>1, <2>2 DEF About, Fresh
<1>4. CASE x \in InboxEvents \ Approvals
  <2>1. inbox'[x] # None => inbox'[x].session = s
    BY <1>4 DEF About, RowsStay, Fresh
  <2>2. sessions'[s] # None => inbox'[x] # None
    BY <1>2, <1>4 DEF About, RowsStay, Fresh
  <2> QED BY <1>1, <1>2, <1>4, <2>1, <2>2 DEF About, Fresh
<1> QED BY <1>3, <1>4 DEF Items

\* A question stays one.
LEMMA AnswerableStays ==
    ASSUME Consistent, Consistent', RowsStay, NEW x \in Items, x \in minted, Answerable(x)
    PROVE  Answerable(x)'
BY EventStays DEF Answerable

\* What a panel shows stays true of the item, and what it holds of the tables, too.
LEMMA PanelBelongsStays ==
    ASSUME Consistent, Consistent', RowsStay, NEW panel \in Panel, PanelBelongs(panel)
    PROVE  PanelBelongs(panel)'
<1>1. panel.item \in Items /\ panel.item \in minted'
  BY PanelFields DEF PanelBelongs, RowsStay
<1>2. panel.shown # None => About(panel.item, panel.shown.session, panel.shown.dc)'
  BY <1>1, AboutStays, PanelFields, RowFields DEF PanelBelongs, Optional
<1>3. ASSUME panel.item \in InboxEvents, panel.shown # None
      PROVE  ShowsEvent(panel.item, panel.shown)'
  <2>1. ShowsEvent(panel.item, panel.shown) /\ panel.shown \in InboxRow /\ panel.item \in minted
    BY <1>3 DEF PanelBelongs, ShowsEvent
  <2>2. panel.shown.approval # None => About(panel.shown.approval, panel.shown.session, panel.shown.dc)'
    BY <2>1, AboutStays, RowFields DEF ShowsEvent, Optional, Items
  <2>3. inbox'[panel.item] # None => /\ inbox'[panel.item].type = panel.shown.type
                                     /\ inbox'[panel.item].approval = panel.shown.approval
    BY <1>3, <2>1, EventStays DEF ShowsEvent
  <2> QED BY <2>1, <2>2, <2>3 DEF ShowsEvent
<1> QED
  BY <1>1, <1>2, <1>3 DEF PanelBelongs, HasControls, TypeShown

\* And what answers under way are answers to.
LEMMA AnswerBelongsStays ==
    ASSUME Consistent, Consistent', RowsStay, NEW d \in Devcontainers, NEW e \in AnswerFrom(d), AnswerBelongs(e)
    PROVE  AnswerBelongs(e)'
<1>1. PICK x \in Items : x = IF e.type = "approval_resolved" THEN e.approval ELSE e.inbox
  BY AnswerFields DEF Items
<1>2. x \in minted /\ About(x, e.session, e.dc) /\ Answerable(x)
  BY <1>1 DEF AnswerBelongs, About
<1>3. About(x, e.session, e.dc)' /\ Answerable(x)'
  BY <1>2, AnswerFields, AboutStays, AnswerableStays
<1> QED BY <1>1, <1>3 DEF AnswerBelongs

-----------------------------------------------------------------------------
\* What a step may do to a panel and to a request.

\* It fetched nothing, or what the item's row is.
Looks(q) ==
    \/ panels'[q].shown = panels[q].shown
    \/ UNCHANGED rmvars /\ panels'[q].shown = Fresh(panels[q].item) /\ panels'[q].shown # None

\* Its control is clicked.
Submits(q) ==
    /\ panels'[q].shown = panels[q].shown
    /\ ShowsActions(panels[q]) /\ panels[q].control # "submitting"
    /\ panels'[q].control = "submitting"
    /\ posts[q]["answer"] = None /\ posts'[q]["answer"] # None

\* It learns what became of its answer.
Learns(q) ==
    LET post == posts[q]["answer"] IN
    /\ panels'[q].shown = panels[q].shown
    /\ post # None /\ post.heard
    /\ \/ /\ post.reply # None /\ posts'[q]["answer"] = None
          /\ panels'[q].control = AfterAnswer(panels[q], post.reply).control
       \/ /\ "unheard" \in lapses' /\ panels'[q].control = "error"
          /\ posts'[q]["answer"] # None => ~posts'[q]["answer"].heard

PanelMoves(q) ==
    panels'[q] # None =>
        \/ \E x \in Items : Open(q, x) /\ panels'[q] = Mounted(x) /\ Fresh(x) # None
        \/ /\ panels[q] # None /\ panels'[q].item = panels[q].item
           /\ \/ panels'[q].control = panels[q].control /\ Looks(q)
              \/ Submits(q) \/ Learns(q)

PostGoesOn(q, k) ==
    LET old == posts[q][k]  new == posts'[q][k] IN
    /\ old # None
    /\ new.target = old.target /\ new.dc = old.dc /\ new.session = old.session
    /\ new.resolution = old.resolution
    /\ new.heard => old.heard /\ (panels[q] # None => panels'[q] # None)
    /\ old.heard => new.heard \/ panels'[q] = None \/ "unheard" \in lapses'
    /\ k = "answer" => new.reply = old.reply \/ HandleAnswer(q)

PostMoves(q, k) ==
    posts'[q][k] # None =>
        \/ PostGoesOn(q, k)
        \/ /\ posts[q][k] = None /\ panels[q] # None
           /\ panels'[q] # None /\ panels'[q].item = panels[q].item /\ panels'[q].shown # None
           /\ \/ /\ k = "answer" /\ Submits(q)
                 /\ \E r \in IF IsApproval(panels'[q]) THEN Decided ELSE {None} :
                       posts'[q][k] = PostFor(panels'[q], TargetOf(panels'[q]), r)
              \/ /\ k # "answer" /\ panels[q].item \in InboxEvents
                 /\ posts'[q][k] = PostFor(panels'[q], panels[q].item, None)

PlacesTyped ==
    panels \in [Panels -> Optional(Panel)] /\ posts \in [Panels -> [Kinds -> Optional(Post)]]

Moves ==
    /\ PlacesTyped'
    /\ \A q \in Panels : PanelMoves(q) /\ \A k \in Kinds : PostMoves(q, k)

\* One panel is written.
LEMMA PanelWritten ==
    ASSUME PlacesTyped, NEW p \in Panels, NEW v, v \in Optional(Panel), panels' = [panels EXCEPT ![p] = v]
    PROVE  /\ panels' \in [Panels -> Optional(Panel)] /\ panels'[p] = v
           /\ \A q \in Panels \ {p} : panels'[q] = panels[q]
BY DEF PlacesTyped

\* One request is written.
LEMMA PostWritten ==
    ASSUME PlacesTyped, NEW p \in Panels, NEW kind \in Kinds, NEW v, v \in Optional(Post),
           posts' = [posts EXCEPT ![p][kind] = v]
    PROVE  /\ posts' \in [Panels -> [Kinds -> Optional(Post)]] /\ posts'[p][kind] = v
           /\ \A k \in Kinds \ {kind} : posts'[p][k] = posts[p][k]
           /\ \A q \in Panels \ {p}, k \in Kinds : posts'[q][k] = posts[q][k]
BY DEF PlacesTyped

\* What is left alone moves in no way.
LEMMA Untouched ==
    /\ \A q \in Panels : panels'[q] = panels[q] => PanelMoves(q)
    /\ \A q \in Panels, k \in Kinds :
          posts'[q][k] = posts[q][k] /\ (panels[q] # None => panels'[q] # None) => PostMoves(q, k)
BY DEF PanelMoves, PostMoves, PostGoesOn, Looks

\* A request made from a panel that shows something.
LEMMA PostForTyped ==
    ASSUME NEW panel \in Panel, panel.shown # None, NEW target \in Items, NEW r \in Optional(Decided)
    PROVE  PostFor(panel, target, r) \in Post
<1>1. panel.shown.session \in Sessions /\ panel.shown.dc \in Devcontainers
  BY PanelFields, RowFields DEF Optional
<1> QED
  BY <1>1 DEF PostFor, Post, Optional

\* The types of panels and requests are among what always holds.
LEMMA BasePlaces ==
    ASSUME Base
    PROVE  /\ PlacesTyped /\ TypeOK
           /\ \A q \in Panels : panels[q] # None => panels[q] \in Panel /\ PanelBelongs(panels[q])
           /\ \A q \in Panels, k \in Kinds : posts[q][k] # None => posts[q][k] \in Post
BY DEF Base, InterventionTypeOK, PlacesTyped, Optional, PanelsBelong

\* A panel shows a row of its item's table.
ShowsRow(panel) ==
    /\ panel.item \in Approvals => panel.shown \in ApprovalRow
    /\ panel.item \in InboxEvents /\ panel.shown # None =>
          /\ panel.shown \in InboxRow
          /\ panel.shown.type = "approval_request" <=> panel.shown.approval # None

\* A panel with controls shows something, and knows what they answer.
LEMMA TargetIs ==
    ASSUME NEW panel \in Panel, ShowsRow(panel), HasControls(panel)
    PROVE  /\ panel.shown # None
           /\ TargetOf(panel) \in Items
           /\ TargetOf(panel) \in Approvals <=> IsApproval(panel)
           /\ TargetOf(panel) \notin Approvals => TargetOf(panel) = panel.item /\ panel.shown.type = "question"
           /\ TargetOf(panel) # panel.item => panel.item \in InboxEvents /\ TargetOf(panel) = panel.shown.approval
<1>1. panel.item \in Items
  BY PanelFields
<1>2. panel.item \in Approvals => panel.shown # None
  BY NoneIsNoRow DEF ShowsRow
<1>3. panel.item \notin Approvals => panel.shown # None
  BY NoneIsNoId DEF HasControls, TypeShown, InboxEventType
<1>4. CASE panel.item \in Approvals
  BY <1>2, <1>4 DEF TargetOf, IsApproval, TypeShown, Items
<1>5. ASSUME panel.item \notin Approvals
      PROVE  /\ panel.shown # None /\ panel.item \in InboxEvents /\ panel.shown \in InboxRow
             /\ panel.shown.type = "approval_request" <=> panel.shown.approval # None
             /\ IsApproval(panel) <=> panel.shown.type = "approval_request"
             /\ ~IsApproval(panel) => panel.shown.type = "question"
  BY <1>1, <1>3, <1>5 DEF Items, ShowsRow, IsApproval, TypeShown, HasControls
<1>6. CASE panel.item \notin Approvals /\ IsApproval(panel)
  <2>1. panel.shown.approval \in Approvals
    BY <1>5, <1>6, RowFields DEF Optional
  <2> QED
    BY <1>5, <1>6, <2>1 DEF TargetOf, Items
<1>7. CASE panel.item \notin Approvals /\ ~IsApproval(panel)
  BY <1>5, <1>7 DEF TargetOf, Items
<1> QED BY <1>4, <1>6, <1>7

\* The same of a panel that belongs to its item.
LEMMA TargetFields ==
    ASSUME NEW panel \in Panel, PanelBelongs(panel), HasControls(panel)
    PROVE  /\ panel.shown # None
           /\ TargetOf(panel) \in Items /\ TargetOf(panel) \in minted
           /\ TargetOf(panel) \in Approvals <=> IsApproval(panel)
           /\ TargetOf(panel) \notin Approvals => TargetOf(panel) = panel.item /\ panel.shown.type = "question"
           /\ panel.item \in InboxEvents => panel.item \notin Approvals /\ ShowsEvent(panel.item, panel.shown)
<1>1. ShowsRow(panel)
  BY DEF PanelBelongs, ShowsEvent, ShowsRow
<1>2. /\ TargetOf(panel) \in Items
      /\ TargetOf(panel) # panel.item => panel.item \in InboxEvents /\ TargetOf(panel) = panel.shown.approval
      /\ panel.shown # None
  BY <1>1, TargetIs
<1>3. TargetOf(panel) \in minted
  BY <1>2, NoneIsNoId DEF PanelBelongs, ShowsEvent, About, Items
<1> QED
  BY <1>1, <1>3, TargetIs, DisjointIds DEF PanelBelongs

\* An item is opened.
LEMMA OpenMoves ==
    ASSUME Base, NEW p \in Panels, NEW x \in Items, Open(p, x)
    PROVE  Moves
<1>1. PlacesTyped /\ TypeOK
  BY BasePlaces
<1>2. Fresh(x) # None
  BY DisjointIds DEF Open, Fresh
<1>3. Mounted(x) \in Panel
  BY <1>1 DEF Mounted, Panel, TypeOK, Optional, Control
<1>4. /\ panels' \in [Panels -> Optional(Panel)] /\ panels'[p] = Mounted(x)
      /\ \A q \in Panels \ {p} : panels'[q] = panels[q]
  BY <1>1, <1>3, PanelWritten DEF Open, Optional
<1>5. posts' = posts /\ UNCHANGED rmvars /\ panels[p] = None
  BY DEF Open
<1>6. PanelMoves(p)
  BY <1>2, <1>4, <1>5 DEF PanelMoves
<1>7. \A q \in Panels : panels[q] # None => panels'[q] # None
  BY <1>4, <1>5
<1> QED
  BY <1>1, <1>4, <1>5, <1>6, <1>7, Untouched DEF Moves, PlacesTyped

\* A panel is gone, and its requests go on unheard.
LEMMA UnmountMoves ==
    ASSUME Base, NEW p \in Panels, Unmount(p)
    PROVE  Moves
<1>1. PlacesTyped
  BY BasePlaces
<1>2. /\ panels' \in [Panels -> Optional(Panel)] /\ panels'[p] = None
      /\ \A q \in Panels \ {p} : panels'[q] = panels[q]
  BY <1>1, PanelWritten DEF Unmount, Optional
<1>3. \A k \in Kinds : posts[p][k] # None => [posts[p][k] EXCEPT !.heard = FALSE] \in Post
  BY BasePlaces DEF Post
<1>4. /\ posts' \in [Panels -> [Kinds -> Optional(Post)]]
      /\ \A k \in Kinds : posts'[p][k] = IF posts[p][k] = None THEN None
                                         ELSE [posts[p][k] EXCEPT !.heard = FALSE]
      /\ \A q \in Panels \ {p}, k \in Kinds : posts'[q][k] = posts[q][k]
  BY <1>1, <1>3 DEF Unmount, PlacesTyped, Optional
<1>5. PanelMoves(p)
  BY <1>2 DEF PanelMoves
<1>6. ASSUME NEW k \in Kinds PROVE PostMoves(p, k)
  <2>1. CASE posts[p][k] = None
    BY <1>4, <2>1 DEF PostMoves
  <2>2. CASE posts[p][k] # None
    <3>1. posts[p][k] \in Post /\ posts'[p][k] = [posts[p][k] EXCEPT !.heard = FALSE]
      BY <1>4, <2>2, BasePlaces
    <3>2. /\ posts'[p][k].target = posts[p][k].target /\ posts'[p][k].dc = posts[p][k].dc
          /\ posts'[p][k].session = posts[p][k].session
          /\ posts'[p][k].resolution = posts[p][k].resolution
          /\ posts'[p][k].reply = posts[p][k].reply /\ ~posts'[p][k].heard
      BY <3>1 DEF Post
    <3> QED
      BY <1>2, <2>2, <3>2 DEF PostMoves, PostGoesOn
  <2> QED BY <2>1, <2>2
<1>7. \A q \in Panels \ {p} : PanelMoves(q) /\ \A k \in Kinds : PostMoves(q, k)
  BY <1>2, <1>4, Untouched
<1> QED
  BY <1>2, <1>4, <1>5, <1>6, <1>7 DEF Moves, PlacesTyped

\* Approve, Reject or Send is clicked.
LEMMA SubmitMoves ==
    ASSUME Base, NEW p \in Panels, Submit(p)
    PROVE  Moves
<1>1. PlacesTyped /\ panels[p] \in Panel /\ panels[p] # None /\ PanelBelongs(panels[p])
  BY BasePlaces DEF Submit
<1>2. HasControls(panels[p]) /\ ShowsActions(panels[p])
  BY DEF Submit, ShowsActions
<1>3. panels[p].shown # None /\ TargetOf(panels[p]) \in Items
  BY <1>1, <1>2, TargetFields
<1>4. PICK r \in IF IsApproval(panels[p]) THEN Decided ELSE {None} :
          posts' = [posts EXCEPT ![p]["answer"] = PostFor(panels[p], TargetOf(panels[p]), r)]
  BY DEF Submit
<1>5. PostFor(panels[p], TargetOf(panels[p]), r) \in Post
  BY <1>1, <1>3, <1>4, PostForTyped DEF Optional
<1>6. [panels[p] EXCEPT !.control = "submitting"] \in Panel
  BY <1>1, PanelFields DEF Control
<1>7. /\ panels' \in [Panels -> Optional(Panel)]
      /\ panels'[p] = [panels[p] EXCEPT !.control = "submitting"]
      /\ \A q \in Panels \ {p} : panels'[q] = panels[q]
  BY <1>1, <1>6, PanelWritten DEF Submit, Optional
<1>8. /\ posts' \in [Panels -> [Kinds -> Optional(Post)]]
      /\ posts'[p]["answer"] = PostFor(panels[p], TargetOf(panels[p]), r)
      /\ \A k \in Kinds \ {"answer"} : posts'[p][k] = posts[p][k]
      /\ \A q \in Panels \ {p}, k \in Kinds : posts'[q][k] = posts[q][k]
  BY <1>1, <1>4, <1>5, PostWritten DEF Optional, Kinds
<1>9. /\ panels'[p].item = panels[p].item /\ panels'[p].shown = panels[p].shown
      /\ panels'[p].control = "submitting" /\ panels'[p] # None
  BY <1>1, <1>6, <1>7, PanelFields DEF Panel
<1>10. /\ PostFor(panels'[p], TargetOf(panels'[p]), r) = PostFor(panels[p], TargetOf(panels[p]), r)
       /\ IsApproval(panels'[p]) <=> IsApproval(panels[p])
  BY <1>9 DEF PostFor, TargetOf, IsApproval, TypeShown
<1>11. Submits(p)
  BY <1>2, <1>5, <1>8, <1>9, PostFields DEF Submits, Submit
<1>12. PanelMoves(p)
  BY <1>1, <1>9, <1>11 DEF PanelMoves
<1>13. PostMoves(p, "answer")
  BY <1>1, <1>3, <1>4, <1>8, <1>9, <1>10, <1>11 DEF PostMoves, Submit
<1>14. \A k \in Kinds \ {"answer"} : PostMoves(p, k)
  BY <1>8, <1>9, Untouched
<1>15. \A q \in Panels \ {p} : PanelMoves(q) /\ \A k \in Kinds : PostMoves(q, k)
  BY <1>7, <1>8, Untouched
<1> QED
  BY <1>7, <1>8, <1>12, <1>13, <1>14, <1>15 DEF Moves, PlacesTyped

\* Resolve is clicked.
LEMMA DismissMoves ==
    ASSUME Base, NEW p \in Panels, Dismiss(p)
    PROVE  Moves
<1>1. PlacesTyped /\ panels[p] \in Panel /\ panels[p] # None
  BY BasePlaces DEF Dismiss
<1>2. PostFor(panels[p], panels[p].item, None) \in Post
  BY <1>1, PostForTyped, PanelFields DEF Dismiss, Optional
<1>3. [panels[p] EXCEPT !.resolving = TRUE] \in Panel
  BY <1>1, PanelFields
<1>4. /\ panels' \in [Panels -> Optional(Panel)]
      /\ panels'[p] = [panels[p] EXCEPT !.resolving = TRUE]
      /\ \A q \in Panels \ {p} : panels'[q] = panels[q]
  BY <1>1, <1>3, PanelWritten DEF Dismiss, Optional
<1>5. /\ posts' \in [Panels -> [Kinds -> Optional(Post)]]
      /\ posts'[p]["resolve"] = PostFor(panels[p], panels[p].item, None)
      /\ \A k \in Kinds \ {"resolve"} : posts'[p][k] = posts[p][k]
      /\ \A q \in Panels \ {p}, k \in Kinds : posts'[q][k] = posts[q][k]
  BY <1>1, <1>2, PostWritten DEF Dismiss, Optional, Kinds
<1>6. /\ panels'[p].item = panels[p].item /\ panels'[p].shown = panels[p].shown
      /\ panels'[p].control = panels[p].control /\ panels'[p] # None
  <2>1. panels'[p] # None
    BY <1>3, <1>4, PanelFields
  <2> QED
    BY <1>1, <1>4, <2>1 DEF Panel
<1>7. PostMoves(p, "resolve")
  BY <1>1, <1>5, <1>6 DEF PostMoves, Dismiss, PostFor
<1>8. PanelMoves(p)
  BY <1>1, <1>6 DEF PanelMoves, Looks
<1>9. \A k \in Kinds \ {"resolve"} : PostMoves(p, k)
  BY <1>5, <1>6, Untouched
<1>10. \A q \in Panels \ {p} : PanelMoves(q) /\ \A k \in Kinds : PostMoves(q, k)
  BY <1>4, <1>5, Untouched
<1> QED
  BY <1>4, <1>5, <1>7, <1>8, <1>9, <1>10 DEF Moves, PlacesTyped

\* The detail is fetched again, and its effect may mark the event as read.
LEMMA RefetchDetailMoves ==
    ASSUME Base, NEW p \in Panels, RefetchDetail(p)
    PROVE  Moves
<1>1. PlacesTyped /\ panels[p] \in Panel /\ panels[p] # None /\ panels[p].item \in InboxEvents
  BY BasePlaces DEF RefetchDetail
<1> DEFINE row == IF inbox[panels[p].item] = None THEN panels[p].shown ELSE inbox[panels[p].item]
           marks == row # None /\ row.status = "unread" /\ ~panels[p].marked
<1>2. PICK marked : marked = (panels[p].marked \/ marks)
  OBVIOUS
<1>3. PICK after : after = [panels[p] EXCEPT !.shown = row, !.marked = marked, !.due = FALSE]
  OBVIOUS
<1>4. panels' = [panels EXCEPT ![p] = after]
  BY <1>2, <1>3, Zenon DEF RefetchDetail
<1>5. \/ posts' = posts
      \/ /\ row # None /\ posts[p]["read"] = None
         /\ posts' = [posts EXCEPT ![p]["read"] = PostFor(after, panels[p].item, None)]
  BY <1>2, <1>3, Zenon DEF RefetchDetail
<1>6. after \in Panel
  <2>1. row \in Optional(InboxRow \cup ApprovalRow)
    BY <1>1, PanelFields, BasePlaces DEF TypeOK, Optional
  <2>2. marked \in BOOLEAN
    BY <1>2
  <2> HIDE DEF row, marks
  <2> QED
    BY <1>1, <1>3, <2>1, <2>2 DEF Panel
<1>7. row = panels[p].shown \/ (row = inbox[panels[p].item] /\ row # None)
  OBVIOUS
<1> HIDE DEF row, marks
<1>8. after # None /\ after.item = panels[p].item /\ after.shown = row /\ after.control = panels[p].control
  BY <1>1, <1>3, <1>6, PanelFields DEF Panel
<1>9. /\ panels' \in [Panels -> Optional(Panel)] /\ panels'[p] = after
      /\ \A q \in Panels \ {p} : panels'[q] = panels[q]
  BY <1>1, <1>4, <1>6, PanelWritten DEF Optional
<1>10. PanelMoves(p)
  <2>1. panels[p].item \notin Approvals /\ UNCHANGED rmvars
    BY <1>1, DisjointIds DEF RefetchDetail
  <2> QED
    BY <1>1, <1>7, <1>8, <1>9, <2>1 DEF PanelMoves, Looks, Fresh
<1>11. \A q \in Panels \ {p} : PanelMoves(q)
  BY <1>9, Untouched
<1>12. \A q \in Panels : panels[q] # None => panels'[q] # None
  BY <1>8, <1>9
<1>13. CASE posts' = posts
  BY <1>1, <1>9, <1>10, <1>11, <1>12, <1>13, Untouched DEF Moves, PlacesTyped
<1>14. CASE /\ row # None /\ posts[p]["read"] = None
            /\ posts' = [posts EXCEPT ![p]["read"] = PostFor(after, panels[p].item, None)]
  <2>1. PostFor(after, panels[p].item, None) \in Post
    BY <1>1, <1>6, <1>8, <1>14, PostForTyped, PanelFields DEF Optional
  <2>2. /\ posts' \in [Panels -> [Kinds -> Optional(Post)]]
        /\ posts'[p]["read"] = PostFor(after, panels[p].item, None)
        /\ \A k \in Kinds \ {"read"} : posts'[p][k] = posts[p][k]
        /\ \A q \in Panels \ {p}, k \in Kinds : posts'[q][k] = posts[q][k]
    BY <1>1, <1>14, <2>1, PostWritten DEF Optional, Kinds
  <2>3. PostMoves(p, "read")
    BY <1>1, <1>8, <1>9, <1>14, <2>2 DEF PostMoves
  <2>4. \A q \in Panels, k \in Kinds : q # p \/ k # "read" => PostMoves(q, k)
    BY <1>12, <2>2, Untouched
  <2> QED
    BY <1>9, <1>10, <1>11, <2>2, <2>3, <2>4 DEF Moves, PlacesTyped
<1> QED BY <1>5, <1>13, <1>14

\* The list is fetched again, and a row that left it goes.
LEMMA RefetchListMoves ==
    ASSUME Base, NEW p \in Panels, RefetchList(p)
    PROVE  Moves
<1>1. PlacesTyped /\ panels[p] \in Panel /\ panels[p] # None /\ panels[p].item \in Approvals
  BY BasePlaces DEF RefetchList
<1>2. CASE Unmount(p)
  BY <1>2, UnmountMoves
<1>3. ASSUME approvals[panels[p].item] # None, posts' = posts,
             panels' = [panels EXCEPT ![p].shown = approvals[panels[p].item], ![p].due = FALSE]
      PROVE  Moves
  <2>1. approvals[panels[p].item] \in ApprovalRow
    BY <1>1, <1>3, BasePlaces DEF TypeOK, Optional
  <2>2. PICK after : after = [panels[p] EXCEPT !.shown = approvals[panels[p].item], !.due = FALSE]
    OBVIOUS
  <2>3. after \in Panel
    BY <1>1, <2>1, <2>2 DEF Panel, Optional
  <2>4. /\ after # None /\ after.item = panels[p].item
        /\ after.shown = approvals[panels[p].item] /\ after.control = panels[p].control
    BY <1>1, <2>2, <2>3, PanelFields DEF Panel
  <2>5. panels' = [panels EXCEPT ![p] = after]
    BY <1>1, <1>3, <2>2 DEF PlacesTyped
  <2>6. /\ panels' \in [Panels -> Optional(Panel)] /\ panels'[p] = after
        /\ \A q \in Panels \ {p} : panels'[q] = panels[q]
    BY <1>1, <2>3, <2>5, PanelWritten DEF Optional
  <2>7. PanelMoves(p)
    BY <1>1, <1>3, <2>4, <2>6 DEF PanelMoves, Looks, Fresh, RefetchList
  <2>8. \A q \in Panels : panels[q] # None => panels'[q] # None
    BY <2>4, <2>6
  <2>9. \A q \in Panels \ {p} : PanelMoves(q)
    BY <2>6, Untouched
  <2> QED
    BY <1>1, <1>3, <2>6, <2>7, <2>8, <2>9, Untouched DEF Moves, PlacesTyped
<1> QED BY <1>2, <1>3 DEF RefetchList

\* A route writes its reply.
LEMMA ReplyMoves ==
    ASSUME Base, NEW p \in Panels, NEW kind \in Kinds, NEW code \in Replies, posts[p][kind] # None,
           Reply(p, kind, code), panels' = panels, kind = "answer" => HandleAnswer(p)
    PROVE  Moves
<1>1. PlacesTyped /\ posts[p][kind] \in Post
  BY BasePlaces
<1>2. PICK post : post = [posts[p][kind] EXCEPT !.reply = code]
  OBVIOUS
<1>3. post \in Post
  BY <1>1, <1>2 DEF Post, Optional
<1>4. /\ post # None /\ post.target = posts[p][kind].target /\ post.dc = posts[p][kind].dc
      /\ post.session = posts[p][kind].session /\ post.resolution = posts[p][kind].resolution
      /\ post.heard = posts[p][kind].heard
  BY <1>1, <1>2, <1>3, PostFields DEF Post
<1>5. posts' = [posts EXCEPT ![p][kind] = post]
  BY <1>1, <1>2 DEF Reply, PlacesTyped
<1>6. /\ posts' \in [Panels -> [Kinds -> Optional(Post)]] /\ posts'[p][kind] = post
      /\ \A k \in Kinds \ {kind} : posts'[p][k] = posts[p][k]
      /\ \A q \in Panels \ {p}, k \in Kinds : posts'[q][k] = posts[q][k]
  BY <1>1, <1>3, <1>5, PostWritten DEF Optional
<1>7. PostMoves(p, kind)
  BY <1>4, <1>6 DEF PostMoves, PostGoesOn
<1>8. \A q \in Panels, k \in Kinds : q # p \/ k # kind => PostMoves(q, k)
  BY <1>6, Untouched
<1>9. \A q \in Panels : PanelMoves(q)
  BY Untouched
<1> QED
  BY <1>1, <1>6, <1>7, <1>8, <1>9 DEF Moves, PlacesTyped

\* A route handles a request.
LEMMA ServeMoves ==
    ASSUME Base, NEW p \in Panels, Serve(p)
    PROVE  Moves
<1>1. CASE posts' = posts /\ panels' = panels
  BY <1>1, BasePlaces, Untouched DEF Moves, PlacesTyped
<1>2. CASE HandleAnswer(p)
  <2>1. PICK connected \in BOOLEAN : Reply(p, "answer", Verdict(posts[p]["answer"], connected))
    BY <1>2 DEF HandleAnswer
  <2>2. Verdict(posts[p]["answer"], connected) \in Replies
    BY DEF Verdict, Replies
  <2> QED
    BY <1>2, <2>1, <2>2, ReplyMoves DEF HandleAnswer, Arrived, Kinds
<1>3. CASE HandleRead(p)
  BY <1>1, <1>3, ReplyMoves DEF HandleRead, Arrived, Kinds, Replies
<1>4. CASE FinishRead(p)
  BY <1>4, ReplyMoves DEF FinishRead, Arrived, Kinds, Replies
<1>5. CASE HandleResolve(p)
  BY <1>5, ReplyMoves DEF HandleResolve, Arrived, Kinds, Replies
<1> QED BY <1>2, <1>3, <1>4, <1>5 DEF Serve

\* What a panel learns of its requests changes its notes only.
LEMMA LearnDoes ==
    ASSUME Base, NEW p \in Panels, NEW kind \in Kinds, NEW outcome, posts[p][kind] # None,
           Learn(p, kind, outcome)
    PROVE  /\ panels' \in [Panels -> Optional(Panel)]
           /\ \A q \in Panels \ {p} : panels'[q] = panels[q]
           /\ ~posts[p][kind].heard => panels'[p] = panels[p]
           /\ posts[p][kind].heard =>
                /\ panels[p] # None /\ panels'[p] # None
                /\ panels'[p].item = panels[p].item /\ panels'[p].shown = panels[p].shown
                /\ panels'[p].control = IF kind = "answer" THEN AfterAnswer(panels[p], outcome).control
                                        ELSE panels[p].control
<1>1. PlacesTyped /\ posts[p][kind] \in Post
  BY BasePlaces
<1>2. CASE ~posts[p][kind].heard
  <2>1. panels' = panels
    BY <1>1, <1>2 DEF Learn, PlacesTyped
  <2> QED BY <1>1, <1>2, <2>1 DEF PlacesTyped
<1>3. CASE posts[p][kind].heard
  <2>1. panels[p] # None /\ panels[p] \in Panel
    BY <1>3, BasePlaces DEF Base, PanelsListen
  <2>2. PICK after : after = IF kind = "answer" THEN AfterAnswer(panels[p], outcome)
                             ELSE IF kind = "read" THEN AfterRead(panels[p], outcome)
                             ELSE AfterResolve(panels[p], outcome)
    OBVIOUS
  <2>3. panels' = [panels EXCEPT ![p] = after]
    BY <1>3, <2>2, Zenon DEF Learn
  <2>4. /\ after \in Panel /\ after.item = panels[p].item /\ after.shown = panels[p].shown
        /\ kind # "answer" => after.control = panels[p].control
    <3>1. CASE kind = "answer"
      BY <2>1, <2>2, <3>1 DEF AfterAnswer, Panel, Control
    <3>2. CASE kind = "read"
      BY <2>1, <2>2, <3>2 DEF AfterRead, Panel
    <3>3. CASE kind \notin {"answer", "read"}
      <4>1. PICK b : b = (panels[p].due \/ outcome = "ok")
        OBVIOUS
      <4>2. b \in BOOLEAN
        BY <4>1
      <4>3. after = [panels[p] EXCEPT !.resolving = FALSE, !.due = b]
        BY <2>2, <3>3, <4>1, Zenon DEF AfterResolve
      <4> QED
        BY <2>1, <3>3, <4>2, <4>3 DEF Panel
    <3> QED BY <3>1, <3>2, <3>3
  <2>5. /\ panels' \in [Panels -> Optional(Panel)] /\ panels'[p] = after
        /\ \A q \in Panels \ {p} : panels'[q] = panels[q]
    BY <1>1, <2>3, <2>4, PanelWritten DEF Optional
  <2> QED
    BY <1>3, <2>1, <2>2, <2>4, <2>5, PanelFields
<1> QED BY <1>1, <1>2, <1>3 DEF Post

\* The answer to a request arrives.
LEMMA ReplyArrivesMoves ==
    ASSUME Base, NEW p \in Panels, NEW kind \in Kinds, ReplyArrives(p, kind)
    PROVE  Moves
<1>1. PlacesTyped /\ posts[p][kind] # None /\ posts[p][kind].reply # None
  BY BasePlaces DEF ReplyArrives
<1>2. /\ posts' \in [Panels -> [Kinds -> Optional(Post)]] /\ posts'[p][kind] = None
      /\ \A k \in Kinds \ {kind} : posts'[p][k] = posts[p][k]
      /\ \A q \in Panels \ {p}, k \in Kinds : posts'[q][k] = posts[q][k]
  BY <1>1, PostWritten DEF ReplyArrives, Optional
<1>3. Learn(p, kind, posts[p][kind].reply)
  BY DEF ReplyArrives
<1>4. PanelMoves(p)
  BY <1>1, <1>2, <1>3, LearnDoes, Untouched DEF PanelMoves, Learns, Looks
<1>5. /\ panels' \in [Panels -> Optional(Panel)]
      /\ \A q \in Panels \ {p} : panels'[q] = panels[q]
      /\ panels[p] # None => panels'[p] # None
  BY <1>1, <1>3, LearnDoes, BasePlaces DEF Post
<1>6. PostMoves(p, kind)
  BY <1>2 DEF PostMoves
<1>7. \A q \in Panels, k \in Kinds : q # p \/ k # kind => PostMoves(q, k)
  BY <1>2, <1>5, Untouched
<1>8. \A q \in Panels \ {p} : PanelMoves(q)
  BY <1>5, Untouched
<1> QED
  BY <1>2, <1>4, <1>5, <1>6, <1>7, <1>8 DEF Moves, PlacesTyped

\* A request fails in the tab.
LEMMA RequestFailsMoves ==
    ASSUME Base, NEW p \in Panels, NEW kind \in Kinds, RequestFails(p, kind)
    PROVE  Moves
<1>1. PlacesTyped /\ posts[p][kind] # None /\ posts[p][kind] \in Post /\ posts[p][kind].heard
  BY BasePlaces DEF RequestFails
<1>2. PICK v : /\ posts' = [posts EXCEPT ![p][kind] = v]
               /\ v = None \/ v = [posts[p][kind] EXCEPT !.heard = FALSE]
  BY <1>1 DEF RequestFails, PlacesTyped
<1>3. /\ v \in Optional(Post)
      /\ v # None => /\ v.target = posts[p][kind].target /\ v.dc = posts[p][kind].dc
                     /\ v.session = posts[p][kind].session /\ v.resolution = posts[p][kind].resolution
                     /\ v.reply = posts[p][kind].reply /\ ~v.heard
  BY <1>1, <1>2 DEF Post, Optional
<1>4. /\ posts' \in [Panels -> [Kinds -> Optional(Post)]] /\ posts'[p][kind] = v
      /\ \A k \in Kinds \ {kind} : posts'[p][k] = posts[p][k]
      /\ \A q \in Panels \ {p}, k \in Kinds : posts'[q][k] = posts[q][k]
  BY <1>1, <1>2, <1>3, PostWritten
<1>5. Learn(p, kind, "failed") /\ "unheard" \in lapses'
  BY DEF RequestFails
<1>6. panels[p] # None => AfterAnswer(panels[p], "failed").control = "error"
  BY BasePlaces DEF AfterAnswer, StaleCode, Panel
<1>7. /\ panels' \in [Panels -> Optional(Panel)]
      /\ \A q \in Panels \ {p} : panels'[q] = panels[q]
      /\ panels[p] # None /\ panels'[p] # None
  BY <1>1, <1>5, LearnDoes
<1>8. PanelMoves(p)
  BY <1>1, <1>3, <1>4, <1>5, <1>6, LearnDoes DEF PanelMoves, Learns, Looks
<1>9. PostMoves(p, kind)
  BY <1>1, <1>3, <1>4, <1>5 DEF PostMoves, PostGoesOn
<1>10. \A q \in Panels, k \in Kinds : q # p \/ k # kind => PostMoves(q, k)
  BY <1>4, <1>7, Untouched
<1>11. \A q \in Panels \ {p} : PanelMoves(q)
  BY <1>7, Untouched
<1> QED
  BY <1>4, <1>7, <1>8, <1>9, <1>10, <1>11 DEF Moves, PlacesTyped

\* Every panel is told to fetch.
LEMMA AnnouncedMoves ==
    ASSUME Base, panels' = Announced, posts' = posts
    PROVE  Moves
<1>1. PlacesTyped
  BY BasePlaces
<1>2. ASSUME NEW q \in Panels, panels[q] # None
      PROVE  /\ panels'[q] \in Panel /\ panels'[q] # None
             /\ panels'[q].item = panels[q].item /\ panels'[q].shown = panels[q].shown
             /\ panels'[q].control = panels[q].control
  <2>1. panels[q] \in Panel /\ panels'[q] = [panels[q] EXCEPT !.due = TRUE]
    BY <1>2, BasePlaces DEF Announced
  <2>2. panels'[q] \in Panel
    BY <2>1, PanelFields
  <2>3. panels'[q] # None
    BY <2>2, PanelFields
  <2> QED BY <2>1, <2>2, <2>3 DEF Panel
<1>3. \A q \in Panels : panels[q] = None => panels'[q] = None
  BY DEF Announced
<1>4. panels' \in [Panels -> Optional(Panel)]
  BY <1>2, <1>3 DEF Announced, Optional
<1>5. \A q \in Panels : PanelMoves(q)
  BY <1>2, <1>3 DEF PanelMoves, Looks
<1> QED
  BY <1>1, <1>2, <1>4, <1>5, Untouched DEF Moves, PlacesTyped

\* Every step moves panels and requests in these ways only.
LEMMA NextMoves ==
    ASSUME Base, [Next]_vars
    PROVE  Moves
<1>1. CASE panels' = panels /\ posts' = posts
  BY <1>1, BasePlaces, Untouched DEF Moves, PlacesTyped
<1>2. ASSUME NEW p \in Panels, \/ \E x \in Items : Open(p, x)
                               \/ Close(p) \/ Submit(p) \/ Dismiss(p) \/ Refetch(p) \/ Serve(p)
                               \/ \E k \in Kinds : ReplyArrives(p, k) \/ RequestFails(p, k)
      PROVE  Moves
  BY <1>2, OpenMoves, UnmountMoves, SubmitMoves, DismissMoves, RefetchDetailMoves, RefetchListMoves,
     ServeMoves, ReplyArrivesMoves, RequestFailsMoves DEF Close, Refetch
<1>3. ASSUME NEW d \in Devcontainers, Deliver(d) \/ Drop(d) PROVE Moves
  BY <1>1, <1>3, AnnouncedMoves DEF Deliver, Drop, uivars
<1>4. ASSUME NEW s \in Sessions, SessionReport(s) PROVE Moves
  BY <1>4, AnnouncedMoves DEF SessionReport
<1>5. CASE OtherRoute
  BY <1>1, <1>5 DEF OtherRoute, uivars
<1>6. CASE UNCHANGED vars
  BY <1>1, <1>6 DEF vars, uivars
<1> QED
  BY <1>2, <1>3, <1>4, <1>5, <1>6 DEF Next

-----------------------------------------------------------------------------
\* What holds of panels, requests and answers is kept.

\* A panel that goes on is of the same approval or question.
LEMMA SameTarget ==
    ASSUME Consistent, PlacesTyped, PlacesTyped', NEW q \in Panels, panels[q] # None, PanelBelongs(panels[q]), HasControls(panels[q]),
           panels'[q] # None, panels'[q].item = panels[q].item, Looks(q)
    PROVE  /\ TypeShown(panels'[q]) = TypeShown(panels[q])
           /\ TargetOf(panels'[q]) = TargetOf(panels[q])
           /\ HasControls(panels'[q])
<1>1. panels[q] \in Panel /\ panels[q].item \in Items
  BY PanelFields DEF PlacesTyped, Optional
<1>2. CASE panels[q].item \in Approvals
  BY <1>2 DEF TypeShown, TargetOf, HasControls
<1>3. CASE panels[q].item \notin Approvals
  <2>1. panels[q].shown # None /\ panels[q].item \in InboxEvents /\ ShowsEvent(panels[q].item, panels[q].shown)
    BY <1>1, <1>3, TargetFields DEF Items
  <2>2. /\ panels'[q].shown # None
        /\ panels'[q].shown.type = panels[q].shown.type
        /\ panels'[q].shown.approval = panels[q].shown.approval
    BY <1>3, <2>1 DEF Looks, Fresh, ShowsEvent
  <2> QED
    BY <1>3, <2>1, <2>2 DEF TypeShown, TargetOf, HasControls, IsApproval
<1> QED BY <1>2, <1>3

\* The row of an item is what a panel on it may show.
LEMMA FreshBelongs ==
    ASSUME Consistent, NotificationsTyped, NEW x \in Items, Fresh(x) # None
    PROVE  /\ x \in minted
           /\ About(x, Fresh(x).session, Fresh(x).dc)
           /\ x \in Approvals => Fresh(x) \in ApprovalRow
           /\ x \in InboxEvents => ShowsEvent(x, Fresh(x))
<1> USE DEF Consistent
<1>1. CASE x \in Approvals
  <2>1. approvals[x] # None /\ approvals[x] \in ApprovalRow /\ x \in minted
    BY <1>1 DEF Fresh, TypeOK, Optional, IdsAreMinted
  <2>2. sessions[approvals[x].session] # None /\ sessions[approvals[x].session].dc = approvals[x].dc
    BY <1>1, <2>1 DEF RowsBelongTogether
  <2>3. approvals[x].session \in minted
    BY <2>1, <2>2 DEF ApprovalRow, IdsAreMinted
  <2> QED
    BY <1>1, <2>1, <2>2, <2>3, DisjointIds DEF Fresh, About
<1>2. CASE x \in InboxEvents
  <2>1. inbox[x] # None /\ inbox[x] \in InboxRow /\ x \in minted /\ x \notin Approvals
    BY <1>2, DisjointIds DEF Fresh, TypeOK, Optional, IdsAreMinted
  <2>2. sessions[inbox[x].session] # None /\ sessions[inbox[x].session].dc = inbox[x].dc
    BY <1>2, <2>1 DEF RowsBelongTogether
  <2>3. inbox[x].session \in minted
    BY <2>1, <2>2 DEF InboxRow, IdsAreMinted
  <2>4. ASSUME inbox[x].approval # None
        PROVE  About(inbox[x].approval, inbox[x].session, inbox[x].dc)
    <3>1. inbox[x].approval \in Approvals
      BY <2>1, <2>4 DEF InboxRow
    <3>2. approvals[inbox[x].approval] # None /\ approvals[inbox[x].approval].session = inbox[x].session
      BY <1>2, <2>1, <2>4 DEF RowsBelongTogether
    <3> QED
      BY <2>2, <2>3, <3>1, <3>2 DEF About, Fresh, IdsAreMinted
  <2> QED
    BY <1>2, <2>1, <2>2, <2>3, <2>4 DEF Fresh, About, ShowsEvent, NotificationsTyped
<1> QED BY <1>1, <1>2 DEF Items

\* What a panel shows is about its item, whatever it fetched and whatever changed.
LEMMA NextPanelsBelong ==
    ASSUME Base, [Next]_vars
    PROVE  PanelsBelong'
<1>1. /\ Consistent /\ NotificationsTyped /\ Consistent' /\ RowsStay /\ NotificationsTyped'
      /\ Moves /\ PlacesTyped /\ PlacesTyped'
  BY StaysConsistent, NextMoves, BasePlaces DEF Base, Moves
<1> SUFFICES ASSUME NEW q \in Panels, panels'[q] # None, NEW now, now = panels'[q]
             PROVE  PanelBelongs(now)'
  BY DEF PanelsBelong
<1>2. now \in Panel /\ now # None /\ PanelMoves(q)
  BY <1>1 DEF PlacesTyped, Optional, Moves
<1>3. ASSUME NEW x \in Items, now = Mounted(x), Fresh(x) # None
      PROVE  PanelBelongs(now)'
  <2>1. /\ now.item = x /\ now.control = "idle"
        /\ now.shown = IF x \in Approvals THEN approvals[x] ELSE None
    BY <1>3 DEF Mounted
  <2>2. /\ x \in minted /\ About(x, Fresh(x).session, Fresh(x).dc)
        /\ x \in Approvals => Fresh(x) \in ApprovalRow
    BY <1>1, <1>3, FreshBelongs
  <2>3. PanelBelongs(now)
    BY <2>1, <2>2, DisjointIds DEF Fresh, PanelBelongs
  <2> QED
    BY <1>1, <1>2, <2>3, PanelBelongsStays
<1>4. ASSUME panels[q] # None, now.item = panels[q].item
      PROVE  (Looks(q) /\ (now.control # "idle" => HasControls(panels[q]))) => PanelBelongs(now)'
  <2> SUFFICES ASSUME Looks(q), now.control # "idle" => HasControls(panels[q])
               PROVE  PanelBelongs(now)'
    OBVIOUS
  <2>1. panels[q] \in Panel /\ PanelBelongs(panels[q])
    BY <1>4, BasePlaces
  <2>2. now.control # "idle" => HasControls(now)
    BY <1>1, <1>2, <1>4, <2>1, SameTarget
  <2>3. now.shown = panels[q].shown \/ (now.shown = Fresh(now.item) /\ now.shown # None)
    BY <1>4 DEF Looks
  <2>4. now.item \in Items /\ panels[q].item \in Items
    BY <1>2, <2>1, PanelFields
  <2>5. PanelBelongs(now)
    <3>1. CASE now.shown = panels[q].shown
      BY <1>4, <2>1, <2>2, <3>1 DEF PanelBelongs
    <3>2. CASE now.shown = Fresh(now.item) /\ now.shown # None
      BY <1>1, <1>4, <2>2, <2>4, <3>2, FreshBelongs DEF PanelBelongs
    <3> QED BY <2>3, <3>1, <3>2
  <2> QED
    BY <1>1, <1>2, <2>5, PanelBelongsStays
<1>5. ASSUME panels[q] # None
      PROVE  panels[q].control # "idle" => HasControls(panels[q])
  BY <1>5, BasePlaces DEF PanelBelongs
<1>6. ASSUME panels[q] # None, Learns(q)
      PROVE  HasControls(panels[q])
  <2>1. panels[q].control = "submitting"
    BY <1>6 DEF Learns, Base, PanelsListen
  <2> QED BY <1>5, <1>6, <2>1
<1>7. Submits(q) => HasControls(panels[q]) /\ now.shown = panels[q].shown
  BY DEF Submits, ShowsActions
<1> QED
  BY <1>2, <1>3, <1>4, <1>5, <1>6, <1>7 DEF PanelMoves, Learns, Looks

\* A request is about what its panel shows, and stays so.
LEMMA NextPostsBelong ==
    ASSUME Base, [Next]_vars
    PROVE  PostsBelong'
<1>1. /\ Consistent /\ Consistent' /\ RowsStay /\ Moves /\ PlacesTyped' /\ PanelsBelong'
  BY StaysConsistent, NextMoves, NextPanelsBelong DEF Base, Moves
<1> SUFFICES ASSUME NEW q \in Panels, NEW k \in Kinds, posts'[q][k] # None, NEW new, new = posts'[q][k]
             PROVE  /\ About(new.target, new.session, new.dc)'
                    /\ k # "answer" => new.target \in InboxEvents
                    /\ k = "answer" => /\ Answerable(new.target)'
                                       /\ new.target \in Approvals => new.resolution # None
  BY DEF PostsBelong
<1>2. new # None /\ new \in Post /\ PostMoves(q, k)
  BY <1>1 DEF PlacesTyped, Optional, Moves
<1>3. CASE PostGoesOn(q, k)
  <2>1. PICK old : old = posts[q][k]
    OBVIOUS
  <2>2. /\ old # None /\ new.target = old.target /\ new.dc = old.dc /\ new.session = old.session
        /\ new.resolution = old.resolution
    BY <1>3, <2>1 DEF PostGoesOn
  <2>3. /\ About(old.target, old.session, old.dc)
        /\ k # "answer" => old.target \in InboxEvents
        /\ k = "answer" => /\ Answerable(old.target)
                           /\ old.target \in Approvals => old.resolution # None
    BY <2>1, <2>2 DEF Base, PostsBelong
  <2>4. PICK x \in Items, s \in Sessions, d \in Devcontainers : x = new.target /\ s = new.session /\ d = new.dc
    BY <1>2, PostFields
  <2>5. About(x, s, d) /\ (k = "answer" => Answerable(x))
    BY <2>2, <2>3, <2>4
  <2>6. About(x, s, d)' /\ (k = "answer" => Answerable(x)')
    BY <1>1, <2>5, AboutStays, AnswerableStays DEF About
  <2> QED
    BY <2>2, <2>3, <2>4, <2>6
<1>4. ASSUME panels'[q] # None, panels'[q].shown # None,
             \/ /\ k = "answer" /\ Submits(q)
                /\ \E r \in IF IsApproval(panels'[q]) THEN Decided ELSE {None} :
                      new = PostFor(panels'[q], TargetOf(panels'[q]), r)
             \/ /\ k # "answer" /\ panels'[q].item \in InboxEvents
                /\ new = PostFor(panels'[q], panels'[q].item, None)
      PROVE  /\ About(new.target, new.session, new.dc)'
             /\ k # "answer" => new.target \in InboxEvents
             /\ k = "answer" => /\ Answerable(new.target)'
                                /\ new.target \in Approvals => new.resolution # None
  <2>1. PICK panel : panel = panels'[q]
    OBVIOUS
  <2>2. panel \in Panel /\ PanelBelongs(panel)' /\ panel.shown # None
    <3>1. panel \in Panel /\ panel.shown # None
      BY <1>1, <1>4, <2>1 DEF PlacesTyped, Optional
    <3>2. PanelBelongs(panel)'
      BY <1>1, <1>4, <2>1, Zenon DEF PanelsBelong
    <3> QED BY <3>1, <3>2
  <2>3. About(panel.item, panel.shown.session, panel.shown.dc)'
    BY <2>2 DEF PanelBelongs
  <2>4. CASE k # "answer"
    <3>1. new = PostFor(panel, panel.item, None) /\ panel.item \in InboxEvents
      BY <1>4, <2>1, <2>4, Zenon
    <3> QED BY <2>3, <2>4, <3>1 DEF PostFor
  <2>5. CASE k = "answer"
    <3>1. HasControls(panel) /\ ShowsRow(panel)
      <4>1. panel.control = "submitting"
        BY <1>4, <2>1, <2>5 DEF Submits
      <4> QED BY <2>2, <4>1 DEF PanelBelongs, ShowsRow, ShowsEvent
    <3>2. PICK r \in IF IsApproval(panel) THEN Decided ELSE {None} :
             new = PostFor(panel, TargetOf(panel), r)
      BY <1>4, <2>1, <2>5, Zenon
    <3>3. /\ new.target = TargetOf(panel) /\ new.resolution = r
          /\ new.session = panel.shown.session /\ new.dc = panel.shown.dc
      BY <3>2 DEF PostFor
    <3>4. new.target \in Approvals => new.resolution # None
      BY <2>2, <3>1, <3>2, <3>3, TargetIs, NoneIsNoId
    <3>5. CASE TargetOf(panel) = panel.item
      <4>1. ASSUME panel.item \in InboxEvents, inbox'[panel.item] # None
            PROVE  inbox'[panel.item].type = "question"
        <5>1. TargetOf(panel) \notin Approvals /\ panel.shown.type = "question"
          BY <2>2, <3>1, <3>5, <4>1, TargetIs, DisjointIds
        <5> QED
          BY <2>2, <4>1, <5>1 DEF PanelBelongs, ShowsEvent
      <4> QED
        BY <2>3, <2>5, <3>3, <3>4, <3>5, <4>1 DEF Answerable
    <3>6. CASE TargetOf(panel) # panel.item
      <4>1. /\ panel.item \in InboxEvents /\ TargetOf(panel) = panel.shown.approval
            /\ TargetOf(panel) \in Approvals
        BY <2>2, <3>1, <3>6, TargetIs
      <4>2. About(panel.shown.approval, panel.shown.session, panel.shown.dc)'
        BY <2>2, <4>1, NoneIsNoId DEF PanelBelongs, ShowsEvent
      <4> QED
        BY <2>5, <3>3, <3>4, <4>1, <4>2, DisjointIds DEF Answerable
    <3> QED
      BY <3>5, <3>6
  <2> QED BY <2>4, <2>5
<1> QED
  BY <1>2, <1>3, <1>4 DEF PostMoves

\* A panel waits for its own answer only.
LEMMA NextPanelsListen ==
    ASSUME Base, [Next]_vars
    PROVE  PanelsListen'
<1>1. Moves /\ PlacesTyped /\ PlacesTyped' /\ PanelsListen /\ Consistent
  BY NextMoves, BasePlaces DEF Base, Moves
<1>2. ASSUME NEW q \in Panels, NEW k \in Kinds, posts'[q][k] # None, posts'[q][k].heard
      PROVE  panels'[q] # None
  <2>1. CASE PostGoesOn(q, k)
    BY <1>1, <1>2, <2>1 DEF PostGoesOn, PanelsListen
  <2> QED
    BY <1>1, <1>2, <2>1 DEF Moves, PostMoves
<1>3. ASSUME NEW q \in Panels, posts'[q]["answer"] # None, posts'[q]["answer"].heard
      PROVE  /\ panels'[q].control = "submitting"
             /\ posts'[q]["answer"].target = TargetOf(panels'[q])
  <2>1. PanelMoves(q) /\ PostMoves(q, "answer") /\ panels'[q] # None
    BY <1>1, <1>2, <1>3 DEF Moves, Kinds
  <2>2. CASE PostGoesOn(q, "answer")
    <3>1. /\ posts[q]["answer"] # None /\ posts[q]["answer"].heard
          /\ posts'[q]["answer"].target = posts[q]["answer"].target
      BY <1>3, <2>2 DEF PostGoesOn
    <3>2. /\ panels[q] # None /\ panels[q].control = "submitting"
          /\ posts[q]["answer"].target = TargetOf(panels[q])
      BY <1>1, <3>1 DEF PanelsListen, Kinds
    <3>3. HasControls(panels[q]) /\ PanelBelongs(panels[q])
      BY <3>2, BasePlaces DEF PanelBelongs
    <3>4. panels'[q].item = panels[q].item /\ panels'[q].control = panels[q].control /\ Looks(q)
      BY <1>3, <2>1, <3>1, <3>2 DEF PanelMoves, Submits, Learns, Open
    <3> QED
      BY <1>1, <2>1, <3>1, <3>2, <3>3, <3>4, SameTarget
  <2>3. CASE /\ Submits(q)
             /\ \E r \in IF IsApproval(panels'[q]) THEN Decided ELSE {None} :
                   posts'[q]["answer"] = PostFor(panels'[q], TargetOf(panels'[q]), r)
    BY <2>3 DEF Submits, PostFor
  <2> QED
    BY <1>3, <2>1, <2>2, <2>3 DEF PostMoves
<1> QED
  BY <1>2, <1>3 DEF PanelsListen, Kinds

\* What a panel regards, it regarded before, or it was opened on it just now.
LEMMA RegardsStays ==
    ASSUME Base, [Next]_vars, NEW q \in Panels, NEW x, Regards(q, x)'
    PROVE  \/ Regards(q, x)
           \/ panels[q] = None /\ \E y \in Items : Open(q, y) /\ x = InterventionOf(y)
<1>1. /\ Moves /\ PlacesTyped /\ PlacesTyped' /\ NotificationsTyped
      /\ Consistent /\ Consistent' /\ RowsStay /\ PanelsBelong'
  BY NextMoves, StaysConsistent, BasePlaces, NextPanelsBelong DEF Base, Moves
<1>2. panels'[q] # None /\ PanelMoves(q)
  BY <1>1 DEF Regards, Moves
<1>3. ASSUME NEW y \in Items, Open(q, y), panels'[q] = Mounted(y), Fresh(y) # None
      PROVE  panels[q] = None /\ x = InterventionOf(y)
  <2>1. panels[q] = None /\ inbox' = inbox /\ approvals' = approvals
    BY <1>3 DEF Open, rmvars
  <2>2. panels'[q].item = y /\ panels'[q].shown = IF y \in Approvals THEN approvals[y] ELSE None
    BY <1>3 DEF Mounted
  <2>3. CASE y \in Approvals
    BY <1>3, <2>1, <2>2, <2>3, DisjointIds DEF Regards, TargetOf, InterventionOf, Fresh
  <2>4. CASE y \notin Approvals
    BY <2>1, <2>2, <2>4 DEF Regards, InterventionOf
  <2> QED BY <2>1, <2>3, <2>4
<1>4. ASSUME panels[q] # None, panels'[q].item = panels[q].item, Looks(q)
      PROVE  Regards(q, x)
  <2>1. PICK i : i = panels[q].item
    OBVIOUS
  <2>2. i \in Items /\ PanelBelongs(panels[q]) /\ panels[q] \in Panel /\ i \in minted
    BY <1>4, <2>1, BasePlaces, PanelFields DEF PanelBelongs
  <2>3. CASE panels'[q].shown = None
    <3>1. panels[q].shown = None /\ i \in InboxEvents /\ i \notin Approvals
      BY <1>4, <2>1, <2>2, <2>3, NoneIsNoRow DEF Looks, PanelBelongs, Items
    <3>2. inbox'[i] # None /\ x = InterventionOf(i)'
      BY <1>2, <1>4, <2>1, <2>3, <3>1 DEF Regards, Fresh
    <3>3. inbox[i] # None /\ inbox'[i].approval = inbox[i].approval
      BY <1>1, <2>2, <3>1, <3>2, EventStays
    <3> QED
      BY <1>4, <2>1, <3>1, <3>2, <3>3 DEF Regards, Fresh, InterventionOf
  <2>4. CASE panels'[q].shown # None /\ panels'[q].shown = panels[q].shown
    BY <1>4, <2>4 DEF Regards, TargetOf, IsApproval, TypeShown
  <2>5. CASE /\ UNCHANGED rmvars /\ panels'[q].shown = Fresh(i) /\ Fresh(i) # None
    <3>1. x = TargetOf(panels'[q])
      BY <2>5 DEF Regards
    <3>2. CASE i \in Approvals
      BY <1>4, <2>1, <2>2, <3>1, <3>2, NoneIsNoRow DEF Regards, TargetOf, PanelBelongs
    <3>3. CASE i \in InboxEvents \ Approvals
      <4>1. /\ inbox[i] # None /\ panels'[q].shown = inbox[i]
            /\ inbox[i].type = "approval_request" <=> inbox[i].approval # None
        BY <1>1, <2>5, <3>3 DEF Fresh, NotificationsTyped
      <4>2. x = IF inbox[i].approval # None THEN inbox[i].approval ELSE i
        BY <1>4, <2>1, <3>1, <3>3, <4>1, NoneIsNoRow DEF TargetOf, IsApproval, TypeShown
      <4>3. CASE panels[q].shown = None
        BY <1>4, <2>1, <3>3, <4>1, <4>2, <4>3 DEF Regards, Fresh, InterventionOf
      <4>4. CASE panels[q].shown # None
        <5>1. ShowsEvent(i, panels[q].shown)
          BY <2>1, <2>2, <3>3, <4>4 DEF PanelBelongs
        <5> QED
          BY <1>4, <2>1, <3>3, <4>1, <4>2, <4>4, <5>1 DEF Regards, TargetOf, IsApproval, TypeShown, ShowsEvent
      <4> QED BY <4>3, <4>4
    <3> QED BY <2>2, <3>2, <3>3 DEF Items
  <2> QED
    BY <1>4, <2>1, <2>3, <2>4, <2>5 DEF Looks
<1> QED
  BY <1>2, <1>3, <1>4 DEF PanelMoves, Submits, Learns, Looks

\* An answer asked for was so before, or is asked for just now where its item is shown.
LEMMA AskedStays ==
    ASSUME Base, [Next]_vars, NEW q \in Panels, NEW x, Asked(q, x)'
    PROVE  \/ Asked(q, x) /\ PostGoesOn(q, "answer")
           \/ /\ Regards(q, x) /\ Submits(q) /\ posts'[q]["answer"].heard
              /\ posts'[q]["answer"].reply = None
<1>1. PostMoves(q, "answer") /\ posts'[q]["answer"] # None /\ posts'[q]["answer"].target = x
  BY NextMoves DEF Moves, Asked, Kinds
<1>2. CASE PostGoesOn(q, "answer")
  BY <1>1, <1>2 DEF PostGoesOn, Asked
<1>3. ASSUME panels[q] # None, panels'[q].item = panels[q].item, panels'[q].shown # None, Submits(q),
             NEW r, posts'[q]["answer"] = PostFor(panels'[q], TargetOf(panels'[q]), r)
      PROVE  Regards(q, x) /\ posts'[q]["answer"].heard /\ posts'[q]["answer"].reply = None
  BY <1>1, <1>3 DEF Regards, Submits, PostFor, TargetOf, IsApproval, TypeShown
<1> QED
  BY <1>1, <1>2, <1>3 DEF PostMoves

\* What is looked at or asked for was opened.
LEMMA NextAllOpened ==
    ASSUME Base, [Next]_vars
    PROVE  AllOpened'
<1>1. opened \subseteq opened'
  <2>1. CASE opened' = opened
    BY <2>1
  <2> QED
    BY <2>1 DEF Next, vars, uivars, Open, Close, Submit, Dismiss, Refetch, RefetchDetail, RefetchList, Serve,
        HandleAnswer, HandleRead, FinishRead, HandleResolve, ReplyArrives, RequestFails, Deliver, Drop,
        SessionReport, OtherRoute
<1> SUFFICES ASSUME NEW q \in Panels, NEW x \in Items, Regards(q, x)' \/ Asked(q, x)'
             PROVE  x \in opened'
  BY DEF AllOpened
<1>2. Regards(q, x) \/ Asked(q, x) => x \in opened'
  BY <1>1 DEF Base, AllOpened
<1>3. Asked(q, x)' => x \in opened'
  BY <1>2, AskedStays
<1>4. ASSUME Regards(q, x)' PROVE x \in opened'
  BY <1>2, <1>4, RegardsStays DEF Open
<1> QED BY <1>3, <1>4

\* The answer a route passes on is one the runtime may send.
LEMMA AnswerMade ==
    ASSUME Base, NEW p \in Panels, NEW post, post = posts[p]["answer"], post # None
    PROVE  /\ post.dc \in Devcontainers /\ post.target \in Items
           /\ Answer(post) \in AnswerFrom(post.dc)
           /\ AnswerBelongs(Answer(post))
           /\ post.target \in {Answer(post).approval, Answer(post).inbox}
<1>1. /\ post \in Post /\ About(post.target, post.session, post.dc) /\ Answerable(post.target)
      /\ post.target \in Approvals => post.resolution \in Decided
  BY BasePlaces, PostFields DEF Base, PostsBelong, Kinds, Optional
<1>2. /\ post.dc \in Devcontainers /\ post.session \in Sessions /\ post.target \in Items
  BY <1>1, PostFields
<1>3. CASE post.target \in Approvals
  <2>1. Answer(post) = ApprovalResolved(post.dc, post.session, post.target, post.resolution)
    BY <1>3 DEF Answer
  <2>2. Answer(post) \in AnswerFrom(post.dc)
    BY <1>1, <1>2, <1>3, <2>1 DEF AnswerFrom
  <2>3. /\ Answer(post).type = "approval_resolved" /\ Answer(post).approval = post.target
        /\ Answer(post).session = post.session /\ Answer(post).dc = post.dc
    BY <2>1 DEF ApprovalResolved, SessionEvent, DevcontainerEvent
  <2> QED
    BY <1>1, <1>2, <2>2, <2>3 DEF AnswerBelongs
<1>4. CASE post.target \in InboxEvents \ Approvals
  <2>1. Answer(post) = UserInputSent(post.dc, post.session, post.target)
    BY <1>4 DEF Answer
  <2>2. Answer(post) \in AnswerFrom(post.dc)
    BY <1>1, <1>2, <1>4, <2>1 DEF AnswerFrom
  <2>3. /\ Answer(post).type = "user_input_sent" /\ Answer(post).inbox = post.target
        /\ Answer(post).session = post.session /\ Answer(post).dc = post.dc
    BY <2>1 DEF UserInputSent, SessionEvent, DevcontainerEvent
  <2> QED
    BY <1>1, <1>2, <2>2, <2>3 DEF AnswerBelongs
<1> QED BY <1>2, <1>3, <1>4 DEF Items

\* An answer is taken, and is the last on its way, or refused.
LEMMA HandleAnswerDoes ==
    ASSUME Base, NEW p \in Panels, HandleAnswer(p), NEW post, post = posts[p]["answer"]
    PROVE  /\ post # None /\ post.reply = None
           /\ UNCHANGED <<rmvars, panels, opened, lapses, losses>>
           /\ posts'[p]["answer"] # None
           /\ \A q \in Panels \ {p} : posts'[q] = posts[q]
           /\ \E connected \in BOOLEAN :
                /\ posts'[p]["answer"].reply = Verdict(post, connected)
                /\ \/ /\ Verdict(post, connected) = "ok"
                      /\ answered' = answered \cup {post.target}
                      /\ DOMAIN pipe' = DOMAIN pipe
                      /\ \A d \in Devcontainers \ {post.dc} : pipe'[d] = pipe[d]
                      /\ pipe'[post.dc] \in Seq(AnswerFrom(post.dc))
                      /\ Len(pipe'[post.dc]) <= MaxUnderWay
                      /\ Members(pipe'[post.dc]) = Members(pipe[post.dc]) \cup {Answer(post)}
                   \/ Verdict(post, connected) # "ok" /\ pipe' = pipe /\ answered' = answered
<1>1. /\ post # None /\ post.reply = None /\ post \in Post /\ PlacesTyped
      /\ UNCHANGED <<rmvars, panels, opened, lapses, losses>>
  BY BasePlaces DEF HandleAnswer, Arrived, Kinds
<1>2. PICK connected \in BOOLEAN :
        /\ posts' = [posts EXCEPT ![p]["answer"].reply = Verdict(post, connected)]
        /\ pipe' = IF Verdict(post, connected) = "ok"
                   THEN [pipe EXCEPT ![post.dc] = Append(@, Answer(post))] ELSE pipe
        /\ answered' = IF Verdict(post, connected) = "ok" THEN answered \cup {post.target} ELSE answered
  BY DEF HandleAnswer, Reply
<1>3. /\ posts'[p]["answer"] = [post EXCEPT !.reply = Verdict(post, connected)]
      /\ \A q \in Panels \ {p} : posts'[q] = posts[q]
  BY <1>1, <1>2 DEF PlacesTyped, Kinds
<1>4. Verdict(post, connected) \in Replies
  BY DEF Verdict, Replies
<1>5. posts'[p]["answer"].reply = Verdict(post, connected) /\ posts'[p]["answer"] \in Post
  BY <1>1, <1>3, <1>4 DEF Post, Optional
<1>6. ASSUME Verdict(post, connected) = "ok"
      PROVE  /\ DOMAIN pipe' = DOMAIN pipe
             /\ \A d \in Devcontainers \ {post.dc} : pipe'[d] = pipe[d]
             /\ pipe'[post.dc] \in Seq(AnswerFrom(post.dc))
             /\ Len(pipe'[post.dc]) <= MaxUnderWay
             /\ Members(pipe'[post.dc]) = Members(pipe[post.dc]) \cup {Answer(post)}
  <2>1. post.dc \in Devcontainers /\ Answer(post) \in AnswerFrom(post.dc)
    BY <1>1, AnswerMade
  <2>2. DOMAIN pipe = Devcontainers /\ pipe[post.dc] \in Seq(AnswerFrom(post.dc))
    BY <2>1 DEF Base, InterventionTypeOK
  <2>3. /\ DOMAIN pipe' = DOMAIN pipe /\ pipe'[post.dc] = Append(pipe[post.dc], Answer(post))
        /\ \A d \in Devcontainers \ {post.dc} : pipe'[d] = pipe[d]
    BY <1>2, <1>6, <2>1, <2>2
  <2>4. Len(pipe[post.dc]) < MaxUnderWay /\ Len(pipe[post.dc]) \in Nat /\ MaxUnderWay \in Nat
    BY <2>2, InterventionBounds DEF HandleAnswer
  <2>5. Len(Append(pipe[post.dc], Answer(post))) = Len(pipe[post.dc]) + 1
    BY <2>1, <2>2
  <2> QED
    BY <2>1, <2>2, <2>3, <2>4, <2>5, AppendMembers
<1> QED
  BY <1>1, <1>2, <1>3, <1>5, <1>6, PostFields

\* Answers under way are of their devcontainer, belong to their session, and are few.
LEMMA NextAnswersBelong ==
    ASSUME Base, [Next]_vars
    PROVE  /\ DOMAIN pipe' = Devcontainers
           /\ \A d \in Devcontainers : pipe'[d] \in Seq(AnswerFrom(d)) /\ Len(pipe'[d]) <= MaxUnderWay
           /\ AnswersBelong'
<1>1. Consistent /\ Consistent' /\ RowsStay
  BY StaysConsistent DEF Base
<1>2. /\ DOMAIN pipe = Devcontainers
      /\ \A d \in Devcontainers : pipe[d] \in Seq(AnswerFrom(d)) /\ Len(pipe[d]) <= MaxUnderWay
  BY DEF Base, InterventionTypeOK
<1>3. ASSUME NEW d \in Devcontainers, NEW e \in AnswerFrom(d), AnswerBelongs(e)
      PROVE  AnswerBelongs(e)'
  BY <1>1, <1>3, AnswerBelongsStays
<1>4. ASSUME NEW d \in Devcontainers, pipe'[d] \in Seq(AnswerFrom(d)),
             \A e \in Members(pipe'[d]) : AnswerBelongs(e)
      PROVE  \A e \in Members(pipe'[d]) : AnswerBelongs(e)'
  BY <1>3, <1>4, MembersOf
<1>5. \A d \in Devcontainers : \A e \in Members(pipe[d]) : AnswerBelongs(e)
  BY DEF Base, AnswersBelong
<1>6. CASE pipe' = pipe
  BY <1>2, <1>4, <1>5, <1>6 DEF AnswersBelong
<1>7. ASSUME NEW p \in Panels, HandleAnswer(p)
      PROVE  /\ DOMAIN pipe' = Devcontainers
             /\ \A d \in Devcontainers : pipe'[d] \in Seq(AnswerFrom(d)) /\ Len(pipe'[d]) <= MaxUnderWay
             /\ \A d \in Devcontainers : \A e \in Members(pipe'[d]) : AnswerBelongs(e)
  <2>1. PICK post : post = posts[p]["answer"]
    OBVIOUS
  <2>2. post # None /\ post.dc \in Devcontainers /\ AnswerBelongs(Answer(post))
    BY <1>7, <2>1, AnswerMade, HandleAnswerDoes
  <2>3. \/ pipe' = pipe
        \/ /\ DOMAIN pipe' = DOMAIN pipe
           /\ \A d \in Devcontainers \ {post.dc} : pipe'[d] = pipe[d]
           /\ pipe'[post.dc] \in Seq(AnswerFrom(post.dc))
           /\ Len(pipe'[post.dc]) <= MaxUnderWay
           /\ Members(pipe'[post.dc]) = Members(pipe[post.dc]) \cup {Answer(post)}
    BY <1>7, <2>1, HandleAnswerDoes
  <2>4. CASE pipe' = pipe
    BY <1>2, <1>5, <2>4
  <2> QED
    BY <1>2, <1>5, <2>2, <2>3, <2>4
<1>8. ASSUME NEW d \in Devcontainers, Deliver(d) \/ Drop(d)
      PROVE  /\ DOMAIN pipe' = Devcontainers
             /\ \A x \in Devcontainers : pipe'[x] \in Seq(AnswerFrom(x)) /\ Len(pipe'[x]) <= MaxUnderWay
             /\ \A x \in Devcontainers : \A e \in Members(pipe'[x]) : AnswerBelongs(e)
  <2>1. pipe[d] # <<>> /\ DOMAIN pipe' = Devcontainers
        /\ pipe'[d] \in {<<>>, Tail(pipe[d])} /\ \A x \in Devcontainers \ {d} : pipe'[x] = pipe[x]
    BY <1>2, <1>8 DEF Deliver, Drop
  <2>2. /\ Tail(pipe[d]) \in Seq(AnswerFrom(d)) /\ Members(Tail(pipe[d])) \subseteq Members(pipe[d])
    BY <1>2, <2>1, TailMembers
  <2>3. Len(Tail(pipe[d])) <= MaxUnderWay
    <3>1. pipe[d] \in Seq(AnswerFrom(d)) /\ Len(pipe[d]) <= MaxUnderWay /\ MaxUnderWay \in Nat
      BY <1>2, InterventionBounds
    <3>2. Len(Tail(pipe[d])) = Len(pipe[d]) - 1 /\ Len(pipe[d]) \in Nat
      BY <2>1, <3>1
    <3> QED BY <3>1, <3>2
  <2>4. /\ <<>> \in Seq(AnswerFrom(d)) /\ Len(<<>>) <= MaxUnderWay /\ Members(<<>>) = {}
    BY EmptyQueue, InterventionBounds
  <2>5. /\ pipe'[d] \in Seq(AnswerFrom(d)) /\ Len(pipe'[d]) <= MaxUnderWay
        /\ Members(pipe'[d]) \subseteq Members(pipe[d])
    BY <2>1, <2>2, <2>3, <2>4
  <2> QED
    BY <1>2, <1>5, <2>1, <2>5
<1>9. ASSUME /\ DOMAIN pipe' = Devcontainers
             /\ \A d \in Devcontainers : pipe'[d] \in Seq(AnswerFrom(d)) /\ Len(pipe'[d]) <= MaxUnderWay
             /\ \A d \in Devcontainers : \A e \in Members(pipe'[d]) : AnswerBelongs(e)
      PROVE  /\ DOMAIN pipe' = Devcontainers
             /\ \A d \in Devcontainers : pipe'[d] \in Seq(AnswerFrom(d)) /\ Len(pipe'[d]) <= MaxUnderWay
             /\ AnswersBelong'
  BY <1>4, <1>9 DEF AnswersBelong
<1>10. \/ pipe' = pipe
       \/ \E p \in Panels : HandleAnswer(p)
       \/ \E d \in Devcontainers : Deliver(d) \/ Drop(d)
  BY DEF Next, vars, chvars, Open, Close, Submit, Dismiss, Refetch, RefetchDetail, RefetchList, Serve,
         HandleRead, FinishRead, HandleResolve, ReplyArrives, RequestFails, SessionReport, OtherRoute
<1> QED
  BY <1>6, <1>7, <1>8, <1>9, <1>10

\* The histories: what was opened, what was answered, and what went wrong.
LEMMA NextHistories ==
    ASSUME Base, [Next]_vars
    PROVE  /\ opened' \subseteq Items /\ answered' \subseteq opened'
           /\ lapses \subseteq lapses' /\ lapses' \subseteq Lapse
           /\ losses' \in 0 .. MaxLosses
<1>1. /\ opened \subseteq Items /\ answered \subseteq opened /\ lapses \subseteq Lapse
      /\ losses \in 0 .. MaxLosses /\ MaxLosses \in Nat
  BY InterventionBounds DEF Base, InterventionTypeOK
<1>2. CASE UNCHANGED <<opened, answered, lapses, losses>>
  BY <1>1, <1>2
<1>3. ASSUME NEW p \in Panels, NEW x \in Items, Open(p, x)
      PROVE  /\ opened' = opened \cup {InterventionOf(x)} /\ InterventionOf(x) \in Items
             /\ lapses' \in {lapses, lapses \cup {"second_view"}}
             /\ UNCHANGED <<answered, losses>>
  <2>1. x \in InboxEvents /\ inbox[x] # None => inbox[x].approval \in Optional(Approvals)
    BY BasePlaces, RowFields DEF TypeOK, Optional
  <2>2. InterventionOf(x) \in Items
    BY <2>1 DEF InterventionOf, Items, Optional
  <2> QED
    BY <1>3, <2>2 DEF Open, chvars
<1>4. ASSUME NEW p \in Panels, HandleAnswer(p)
      PROVE  UNCHANGED <<opened, lapses, losses>> /\ answered' \subseteq opened
  <2>1. PICK post : post = posts[p]["answer"]
    OBVIOUS
  <2>2. post # None /\ answered' \subseteq answered \cup {post.target}
    BY <1>4, <2>1, HandleAnswerDoes
  <2>3. Asked(p, post.target) /\ post.target \in Items
    BY <2>1, <2>2, AnswerMade DEF Asked
  <2> QED
    BY <1>1, <1>4, <2>2, <2>3 DEF HandleAnswer, Base, AllOpened
<1>5. ASSUME NEW p \in Panels, NEW k \in Kinds, RequestFails(p, k)
      PROVE  /\ UNCHANGED <<opened, answered>> /\ lapses' = lapses \cup {"unheard"}
             /\ losses' \in 0 .. MaxLosses
  BY <1>1, <1>5 DEF RequestFails, chvars
<1>6. ASSUME NEW p \in Panels, FinishRead(p)
      PROVE  UNCHANGED <<opened, answered, losses>> /\ lapses' \in {lapses, lapses \cup {"unresolved"}}
  BY <1>6 DEF FinishRead, chvars
<1>7. ASSUME NEW d \in Devcontainers, Drop(d)
      PROVE  UNCHANGED <<opened, answered, losses>> /\ lapses' = lapses \cup {"dropped"}
  BY <1>7 DEF Drop, uivars
<1>8. \/ UNCHANGED <<opened, answered, lapses, losses>>
      \/ \E p \in Panels, x \in Items : Open(p, x)
      \/ \E p \in Panels : HandleAnswer(p) \/ FinishRead(p)
      \/ \E p \in Panels, k \in Kinds : RequestFails(p, k)
      \/ \E d \in Devcontainers : Drop(d)
  BY DEF Next, vars, uivars, chvars, Close, Submit, Dismiss, Refetch, RefetchDetail, RefetchList, Serve,
         HandleRead, HandleResolve, ReplyArrives, Deliver, SessionReport, OtherRoute
<1> QED
  BY <1>1, <1>2, <1>3, <1>4, <1>5, <1>6, <1>7, <1>8 DEF Lapse

\* A mark-read that began is handled to its end, as the request it is.
LEMMA NextReadsUnderWay ==
    ASSUME Base, [Next]_vars
    PROVE  ReadsUnderWay'
<1> USE PanelsHaveThreads
<1>1. PlacesTyped /\ TypeOK /\ Moves /\ ReadsUnderWay
  BY BasePlaces, NextMoves DEF Base
<1> SUFFICES ASSUME NEW q \in Panels, requests'[q] # None
             PROVE  /\ posts'[q]["read"] # None /\ posts'[q]["read"].reply = None
                    /\ requests'[q] = [op |-> "read", id |-> posts'[q]["read"].target]
  BY DEF ReadsUnderWay, Arrived
<1>2. ASSUME NEW p \in Panels, HandleRead(p), requests'[q] # requests[q]
      PROVE  /\ posts'[q]["read"] # None /\ posts'[q]["read"].reply = None
             /\ requests'[q] = [op |-> "read", id |-> posts'[q]["read"].target]
  BY <1>1, <1>2 DEF HandleRead, Arrived, MarkReadSelect, TypeOK, rmvars
<1>3. ASSUME requests'[q] # requests[q]
      PROVE  \E p \in Panels : HandleRead(p)
  <2>1. ASSUME NEW p \in Panels, FinishRead(p) PROVE FALSE
    BY <1>1, <1>3, <2>1 DEF FinishRead, MarkReadUpdate, TypeOK
  <2>2. ASSUME NEW e, Intake(e) PROVE FALSE
    BY <1>3, <2>2 DEF Intake, PersistEvent, rmvars
  <2> QED
    BY <1>3, <2>1, <2>2 DEF Next, vars, Open, Close, Submit, Dismiss, Refetch, RefetchDetail, RefetchList,
       Serve, HandleAnswer, HandleResolve, ReplyArrives, RequestFails, Deliver, Drop, SessionReport,
       OtherRoute, rmvars, ResolveInboxEvent, Intake, CreateDevcontainer, DeleteDevcontainer, StartRow
<1>4. ASSUME requests[q] # None, requests'[q] = requests[q]
      PROVE  /\ posts'[q]["read"] # None /\ posts'[q]["read"].reply = posts[q]["read"].reply
             /\ posts'[q]["read"].target = posts[q]["read"].target
  <2>1. Arrived(q, "read") /\ posts[q]["read"] \in Post /\ posts[q]["read"] # None
    BY <1>1, <1>4, BasePlaces DEF ReadsUnderWay, Arrived, Kinds
  <2>2. CASE posts'[q]["read"] = posts[q]["read"]
    BY <2>1, <2>2 DEF Arrived
  <2>3. CASE posts'[q]["read"] = [posts[q]["read"] EXCEPT !.heard = FALSE]
    BY <2>1, <2>3, NoneIsNoPart DEF Post
  <2>4. ASSUME NEW p \in Panels, NEW kind \in Kinds, NEW v, posts' = [posts EXCEPT ![p][kind] = v],
               p # q \/ kind # "read"
        PROVE  posts'[q]["read"] = posts[q]["read"]
    BY <1>1, <2>4 DEF PlacesTyped, Kinds
  <2>5. ASSUME NEW p \in Panels, NEW kind \in Kinds, NEW code, Reply(p, kind, code),
               p # q \/ kind # "read"
        PROVE  posts'[q]["read"] = posts[q]["read"]
    BY <1>1, <2>5 DEF PlacesTyped, Kinds, Reply
  <2>6. ASSUME NEW p \in Panels, Unmount(p)
        PROVE  posts'[q]["read"] \in {posts[q]["read"], [posts[q]["read"] EXCEPT !.heard = FALSE]}
    BY <1>1, <2>1, <2>6 DEF PlacesTyped, Kinds, Unmount
  <2>7. ASSUME NEW p \in Panels, Serve(p) PROVE posts'[q]["read"] = posts[q]["read"]
    <3>1. HandleAnswer(p) => posts'[q]["read"] = posts[q]["read"]
      BY <2>5 DEF HandleAnswer, Kinds
    <3>2. HandleRead(p) \/ FinishRead(p) => posts' = posts \/ p # q
      BY <1>1, <1>4 DEF HandleRead, FinishRead, MarkReadUpdate, TypeOK
    <3>3. HandleRead(p) \/ FinishRead(p) => posts'[q]["read"] = posts[q]["read"]
      BY <2>5, <3>2 DEF HandleRead, FinishRead, Kinds
    <3>4. HandleResolve(p) => posts'[q]["read"] = posts[q]["read"]
      BY <2>5 DEF HandleResolve, Kinds
    <3> QED BY <2>7, <3>1, <3>3, <3>4 DEF Serve
  <2>8. ASSUME NEW p \in Panels, Submit(p) \/ Dismiss(p) \/ RefetchDetail(p)
        PROVE  posts'[q]["read"] = posts[q]["read"]
    BY <2>1, <2>4, <2>8 DEF Submit, Dismiss, RefetchDetail, Kinds
  <2>9. ASSUME NEW p \in Panels, NEW kind \in Kinds, ReplyArrives(p, kind)
        PROVE  posts'[q]["read"] = posts[q]["read"]
    BY <2>1, <2>4, <2>9 DEF ReplyArrives, Arrived
  <2>10. ASSUME NEW p \in Panels, NEW kind \in Kinds, RequestFails(p, kind)
         PROVE  posts'[q]["read"] \in {posts[q]["read"], [posts[q]["read"] EXCEPT !.heard = FALSE]}
    <3>1. CASE p # q \/ kind # "read"
      <4>1. PICK v : posts' = [posts EXCEPT ![p][kind] = v]
        BY <1>1, <2>10 DEF RequestFails, PlacesTyped
      <4> QED BY <2>4, <3>1, <4>1
    <3>2. CASE p = q /\ kind = "read"
      BY <1>1, <1>4, <2>10, <3>2 DEF RequestFails, PlacesTyped
    <3> QED BY <3>1, <3>2
  <2>11. \/ posts' = posts
         \/ \E p \in Panels : \/ Unmount(p) \/ Serve(p) \/ Submit(p) \/ Dismiss(p) \/ RefetchDetail(p)
                             \/ \E kind \in Kinds : ReplyArrives(p, kind) \/ RequestFails(p, kind)
    BY DEF Next, vars, uivars, Open, Close, Refetch, RefetchList, Deliver, Drop, SessionReport, OtherRoute
  <2> QED
    BY <2>2, <2>3, <2>6, <2>7, <2>8, <2>9, <2>10, <2>11
<1> QED
  BY <1>1, <1>2, <1>3, <1>4 DEF ReadsUnderWay, Arrived

\* Every step keeps what holds of panels, requests, answers and tables.
LEMMA NextBase ==
    ASSUME Base, [Next]_vars
    PROVE  Base'
<1>1. /\ Consistent' /\ NotificationsTyped' /\ PlacesTyped'
  BY StaysConsistent, NextMoves DEF Moves
<1>2. InterventionTypeOK'
  BY <1>1, NextAnswersBelong, NextHistories DEF InterventionTypeOK, Consistent, PlacesTyped
<1> QED
  BY <1>1, <1>2, NextPanelsBelong, NextPostsBelong, NextPanelsListen, NextAnswersBelong,
     NextReadsUnderWay, NextAllOpened
  DEF Base

\* At first there is nothing.
LEMMA InitBase ==
    ASSUME Init
    PROVE  Base
<1>1. Consistent /\ NotificationsTyped
  BY DEF Init, ReadModelInit, Consistent, TypeOK, RowsBelongTogether, IdsAreMinted, Optional,
         NotificationsTyped
<1>2. /\ \A p \in Panels : panels[p] = None /\ \A k \in Kinds : posts[p][k] = None
      /\ \A d \in Devcontainers : pipe[d] = <<>>
  BY DEF Init
<1>3. InterventionTypeOK
  <2>1. \A d \in Devcontainers : <<>> \in Seq(AnswerFrom(d)) /\ Len(<<>>) <= MaxUnderWay
    BY InterventionBounds
  <2>2. 0 \in 0 .. MaxLosses
    BY InterventionBounds
  <2> QED
    BY <1>1, <1>2, <2>1, <2>2 DEF InterventionTypeOK, Init, Optional, Consistent
<1>4. AnswersBelong
  BY <1>2, EmptyQueue DEF AnswersBelong
<1> QED
  BY <1>1, <1>2, <1>3, <1>4, PanelsHaveThreads
  DEF Base, PanelsBelong, PostsBelong, PanelsListen, AllOpened, Regards, Asked, Kinds,
      ReadsUnderWay, Init, ReadModelInit

-----------------------------------------------------------------------------
\* What the controls say stays true.

\* The steps that write approvals or inbox events.
LEMMA TableSteps ==
    ASSUME Base, [Next]_vars
    PROVE  \/ UNCHANGED <<approvals, inbox>>
           \/ \E p \in Panels : FinishRead(p) \/ HandleResolve(p)
           \/ \E e, a, n : WellFormed(e) /\ Reducible(e) /\ Projected(e, a, n)
           \/ \E gone : CascadeSessions(gone)
<1>1. Consistent
  BY DEF Base
<1>2. ASSUME NEW e \in RuntimeEvents, Intake(e)
      PROVE  \/ UNCHANGED <<approvals, inbox>>
             \/ \E x, a, n : WellFormed(x) /\ Reducible(x) /\ Projected(x, a, n)
  BY <1>1, <1>2, IntakeProjects DEF Consistent, rmvars
<1>3. ASSUME NEW d \in Devcontainers, Deliver(d)
      PROVE  \/ UNCHANGED <<approvals, inbox>>
             \/ \E x, a, n : WellFormed(x) /\ Reducible(x) /\ Projected(x, a, n)
  <2>1. /\ Head(pipe[d]) \in AnswerFrom(d) /\ AnswerBelongs(Head(pipe[d])) /\ Intake(Head(pipe[d]))
    BY <1>3, OldestAnswer DEF Deliver
  <2>2. CASE Accepted(Head(pipe[d]))
    BY <1>1, <1>2, <2>1, <2>2, AcceptedAnswers
  <2>3. CASE ~Accepted(Head(pipe[d]))
    BY <2>1, <2>3 DEF Intake, PersistEvent, rmvars
  <2> QED BY <2>2, <2>3
<1>4. ASSUME NEW s \in Sessions, SessionReport(s)
      PROVE  \/ UNCHANGED <<approvals, inbox>>
             \/ \E x, a, n : WellFormed(x) /\ Reducible(x) /\ Projected(x, a, n)
  BY <1>2, <1>4, ReportsAreSessionEvents DEF SessionReport, RuntimeEvents, Intake
<1>5. ASSUME OtherRoute
      PROVE  \/ UNCHANGED <<approvals, inbox>>
             \/ \E x, a, n : WellFormed(x) /\ Reducible(x) /\ Projected(x, a, n)
             \/ \E gone : CascadeSessions(gone)
  <2>1. \A d \in Devcontainers : DevcontainerEvent("devcontainer_started", d) \in RuntimeEvents
    BY DEF RuntimeEvents, DevcontainerEventTypes
  <2> QED
    BY <1>2, <1>5, <2>1 DEF OtherRoute, CreateDevcontainer, DeleteDevcontainer, StartRow
<1>6. ASSUME NEW p \in Panels, \/ \E x \in Items : Open(p, x)
                               \/ Close(p) \/ Submit(p) \/ Dismiss(p) \/ Refetch(p)
                               \/ HandleAnswer(p) \/ HandleRead(p)
                               \/ \E k \in Kinds : ReplyArrives(p, k) \/ RequestFails(p, k)
      PROVE  UNCHANGED <<approvals, inbox>>
  BY <1>6 DEF Open, Close, Submit, Dismiss, Refetch, RefetchDetail, RefetchList, HandleAnswer, HandleRead,
              MarkReadSelect, tables, ReplyArrives, RequestFails, rmvars
<1> QED
  BY <1>3, <1>4, <1>5, <1>6 DEF Next, Serve, Drop, vars, rmvars

\* A decided approval stays decided, and a resolved event resolved, unless a mark-read
\* undoes it.
LEMMA SettledStays ==
    ASSUME Base, [Next]_vars, Heeded'
    PROVE  /\ \A x \in Approvals :
                approvals[x] # None /\ approvals[x].status \in Decided /\ approvals'[x] # None
                    => approvals'[x].status \in Decided
           /\ \A i \in InboxEvents :
                inbox[i] # None /\ inbox[i].status = "resolved" /\ inbox'[i] # None
                    => inbox'[i].status = "resolved"
<1>1. Consistent /\ TypeOK /\ RowsBelongTogether
  BY DEF Base, Consistent
<1>2. CASE UNCHANGED <<approvals, inbox>>
  BY <1>2
<1>3. ASSUME NEW p \in Panels, FinishRead(p)
      PROVE  /\ approvals' = approvals
             /\ \A i \in InboxEvents : inbox[i] # None /\ inbox[i].status = "resolved"
                                          => inbox'[i] = inbox[i]
  <2>1. requests[p] # None /\ requests[p] = [op |-> "read", id |-> posts[p]["read"].target]
    BY <1>3 DEF FinishRead, MarkReadUpdate, Base, ReadsUnderWay
  <2>2. ~(inbox[posts[p]["read"].target] # None /\ inbox[posts[p]["read"].target].status = "resolved")
    BY <1>3 DEF FinishRead, Heeded
  <2> QED
    BY <1>3, <2>1, <2>2 DEF FinishRead, MarkReadUpdate
<1>4. ASSUME NEW p \in Panels, HandleResolve(p)
      PROVE  /\ approvals' = approvals
             /\ \A i \in InboxEvents : inbox[i] # None /\ inbox[i].status = "resolved"
                                          => inbox'[i].status = "resolved"
  <2>1. posts[p]["resolve"].target \in InboxEvents
    BY <1>4 DEF HandleResolve, Arrived, Base, PostsBelong, Kinds
  <2> QED
    BY <1>1, <1>4, <2>1 DEF HandleResolve, ResolveInboxEvent, Exists, rmvars, TypeOK, Optional, InboxRow
<1>5. ASSUME NEW e, NEW a, NEW n, WellFormed(e), Reducible(e), Projected(e, a, n)
      PROVE  /\ \A x \in Approvals : approvals[x] # None /\ approvals[x].status \in Decided
                                        => approvals'[x].status \in Decided
             /\ \A i \in InboxEvents : inbox[i] # None /\ inbox[i].status = "resolved"
                                          => inbox'[i].status = "resolved"
  <2>1. (a # None => approvals[a] = None) /\ (n # None => inbox[n] = None)
    BY <1>5 DEF Projected
  <2>2. \A x \in Approvals : approvals[x] # None => x # a
    BY <2>1, NoneIsNoId
  <2>3. \A i \in InboxEvents : inbox[i] # None => i # n
    BY <2>1, NoneIsNoId
  <2> QED
    BY <1>1, <1>5, <2>2, <2>3, ProjectedApprovals, ProjectedInbox DEF Reducible
<1>6. ASSUME NEW gone, CascadeSessions(gone)
      PROVE  /\ \A x \in Approvals : approvals'[x] # None => approvals'[x] = approvals[x]
             /\ \A i \in InboxEvents : inbox'[i] # None => inbox'[i].status = inbox[i].status
  BY <1>1, <1>6, CascadeRows
<1> QED
  BY <1>2, <1>3, <1>4, <1>5, <1>6, TableSteps

\* The notification of a decided approval stays resolved.
LEMMA NextDecidedAreSettled ==
    ASSUME Base, [Next]_vars, Heeded', DecidedAreSettled
    PROVE  DecidedAreSettled'
<1>1. Consistent /\ TypeOK /\ RowsBelongTogether /\ Consistent' /\ RowsStay
  BY StaysConsistent DEF Base, Consistent
<1> SUFFICES ASSUME NEW i \in InboxEvents, inbox'[i] # None, inbox'[i].approval # None,
                    approvals'[inbox'[i].approval].status \in Decided
             PROVE  inbox'[i].status = "resolved"
  BY DEF DecidedAreSettled
<1>2. inbox'[i].approval \in Approvals /\ approvals'[inbox'[i].approval] # None
  BY <1>1 DEF Consistent, TypeOK, Optional, InboxRow, RowsBelongTogether
<1>3. ASSUME inbox[i] # None, inbox'[i].approval = inbox[i].approval,
             approvals[inbox[i].approval].status \in Decided
      PROVE  inbox'[i].status = "resolved"
  BY <1>3, SettledStays DEF DecidedAreSettled
<1>4. ASSUME NEW p \in Panels, FinishRead(p) \/ HandleResolve(p)
      PROVE  inbox'[i].status = "resolved"
  <2>1. approvals' = approvals
    BY <1>4 DEF FinishRead, MarkReadUpdate, HandleResolve, ResolveInboxEvent, rmvars
  <2>2. inbox[i] # None => inbox[i] \in InboxRow
    BY <1>1 DEF TypeOK, Optional
  <2>3. CASE FinishRead(p)
    <3>1. inbox'[i] = inbox[i] \/ (inbox[i] # None /\ inbox'[i] = [inbox[i] EXCEPT !.status = "read"])
      BY <2>3 DEF FinishRead, MarkReadUpdate
    <3> QED BY <1>3, <1>1, <2>1, <2>2, <3>1 DEF InboxRow
  <2>4. CASE HandleResolve(p)
    <3>1. inbox'[i] = inbox[i] \/ (inbox[i] # None /\ inbox'[i] = [inbox[i] EXCEPT !.status = "resolved"])
      BY <1>1, <2>4 DEF HandleResolve, ResolveInboxEvent, Exists, rmvars, TypeOK
    <3> QED BY <1>3, <2>1, <2>2, <3>1 DEF InboxRow
  <2> QED BY <1>4, <2>3, <2>4
<1>5. ASSUME NEW gone, CascadeSessions(gone) PROVE inbox'[i].status = "resolved"
  <2>1. inbox[i] # None /\ inbox'[i].approval = inbox[i].approval
    BY <1>1, <1>5, CascadeRows
  <2>2. approvals'[inbox[i].approval] = approvals[inbox[i].approval]
    BY <1>1, <1>2, <1>5, <2>1, CascadeRows
  <2> QED BY <1>3, <2>1, <2>2
<1>6. ASSUME NEW e, NEW a, NEW n, WellFormed(e), Reducible(e), Projected(e, a, n)
      PROVE  inbox'[i].status = "resolved"
  <2>1. i # n
    <3>1. ASSUME i = n PROVE FALSE
      <4>1. inbox'[i].approval = a
        BY <1>1, <1>6, <3>1, ProjectedInbox
      <4>2. approvals'[a].status = "pending"
        BY <1>1, <1>2, <1>6, <4>1, ProjectedApprovals
      <4> QED BY <4>1, <4>2 DEF Decided
    <3> QED BY <3>1
  <2>2. /\ inbox[i] # None /\ inbox'[i].approval = inbox[i].approval
        /\ i \in ResolvedBy(e) => inbox'[i].status = "resolved"
    BY <1>1, <1>6, <2>1, ProjectedInbox
  <2>3. PICK x \in Approvals : x = inbox[i].approval
    BY <1>2, <2>2
  <2>4. approvals[x] # None
    BY <1>1, <2>2, <2>3, NoneIsNoId DEF RowsBelongTogether
  <2>5. CASE x = e.approval /\ e.type = "approval_resolved"
    BY <1>1, <2>2, <2>3, <2>4, <2>5 DEF ResolvedBy, Exists, TypeOK
  <2>6. CASE ~(x = e.approval /\ e.type = "approval_resolved")
    <3>1. x # a
      BY <1>6, <2>4, NoneIsNoId DEF Projected
    <3>2. approvals'[x].status = approvals[x].status
      BY <1>1, <1>6, <2>4, <2>6, <3>1, ProjectedApprovals
    <3> QED BY <1>3, <2>2, <2>3, <3>2
  <2> QED BY <2>5, <2>6
<1>7. CASE UNCHANGED <<approvals, inbox>>
  BY <1>3, <1>7
<1> QED
  BY <1>4, <1>5, <1>6, <1>7, TableSteps

\* A decided approval and a resolved event need no answer.
LEMMA SettledIsOver ==
    ASSUME DecidedAreSettled', NEW x \in Items,
           \/ x \in Approvals /\ approvals'[x].status \in Decided
           \/ x \in InboxEvents /\ inbox'[x].status = "resolved"
    PROVE  Over(x)'
<1>1. CASE x \in InboxEvents /\ inbox'[x].status = "resolved"
  BY <1>1 DEF Over, NeedsAttention
<1>2. CASE x \in Approvals /\ approvals'[x].status \in Decided
  <2>1. \A i \in NeedsAttention' : inbox'[i].approval # x
    BY <1>2, NoneIsNoId DEF NeedsAttention, DecidedAreSettled
  <2> QED BY <1>2, <2>1 DEF Over
<1> QED BY <1>1, <1>2

\* What is over stays over.
LEMMA OverStays ==
    ASSUME Base, [Next]_vars, Heeded', DecidedAreSettled', NEW x \in Items, x \in minted, Over(x)
    PROVE  Over(x)'
<1>1. Consistent /\ Consistent' /\ RowsStay
  BY StaysConsistent DEF Base
<1>2. CASE x \in Approvals
  <2>1. CASE approvals'[x] = None
    BY <1>2, <2>1 DEF Over, Fresh
  <2>2. CASE approvals'[x] # None
    <3>1. approvals[x] # None
      BY <1>1, <1>2, <2>2 DEF RowsStay
    <3>2. approvals[x].status \in Decided
      BY <1>2, <3>1, DisjointIds DEF Over, Fresh
    <3> QED BY <1>2, <2>2, <3>1, <3>2, SettledStays, SettledIsOver
  <2> QED BY <2>1, <2>2
<1>3. CASE x \in InboxEvents
  <2>1. x \notin Approvals
    BY <1>3, DisjointIds
  <2>2. CASE inbox'[x] = None
    BY <2>1, <2>2 DEF Over, Fresh
  <2>3. CASE inbox'[x] # None
    <3>1. inbox[x] # None /\ inbox'[x].type = inbox[x].type
      BY <1>1, <1>3, <2>3, EventStays
    <3>2. inbox[x].type = "completion" \/ inbox[x].status = "resolved"
      BY <1>3, <2>1, <3>1 DEF Over, Fresh, NeedsAttention
    <3>3. inbox'[x].type = "completion" \/ inbox'[x].status = "resolved"
      BY <1>3, <2>3, <3>1, <3>2, SettledStays
    <3> QED BY <1>3, <3>3 DEF Over, NeedsAttention
  <2> QED BY <2>2, <2>3
<1> QED BY <1>2, <1>3 DEF Items

\* An answer that arrives settles what it answers, unless that is gone.
LEMMA Delivered ==
    ASSUME Base, [Next]_vars, DecidedAreSettled', NEW d \in Devcontainers, Deliver(d),
           NEW e, e = Head(pipe[d]), NEW x \in Items, x \in {e.approval, e.inbox}
    PROVE  Over(x)'
<1>1. /\ e \in AnswerFrom(d) /\ AnswerBelongs(e) /\ Intake(e) /\ Consistent
  BY OldestAnswer DEF Deliver, Base
<1>2. /\ e.dc = d /\ e.session \in Sessions
      /\ \/ e.type = "approval_resolved" /\ x = e.approval /\ x \in Approvals /\ e.resolution \in Decided
         \/ e.type = "user_input_sent" /\ x = e.inbox /\ x \in InboxEvents
  BY <1>1, AnswerFields, NoneIsNoId DEF Items
<1>3. About(x, e.session, d)
  BY <1>1, <1>2 DEF AnswerBelongs
<1>4. CASE ~Accepted(e)
  <2>1. UNCHANGED rmvars
    BY <1>1, <1>4 DEF Intake, PersistEvent
  <2>2. ASSUME Fresh(x) # None PROVE FALSE
    <3>1. sessions[e.session] # None
      BY <1>1, <1>2, <1>3, <2>2, DisjointIds DEF About, Fresh, Consistent, RowsBelongTogether
    <3>2. devcontainers[d] # None
      BY <1>1, <1>2, <1>3, <3>1 DEF About, Consistent, RowsBelongTogether
    <3> QED
      BY <1>1, <1>2, <1>4, <3>1, <3>2 DEF Accepted, Exists, Reducible, Consistent, TypeOK
  <2> QED BY <2>1, <2>2 DEF Over, Fresh, rmvars
<1>5. CASE Accepted(e)
  <2>1. e \in RuntimeEvents /\ (e.type = "approval_resolved" => approvals[e.approval] # None)
        /\ (e.type = "user_input_sent" => inbox[e.inbox] # None)
    BY <1>1, <1>5, AcceptedAnswers
  <2>2. PICK a, n : WellFormed(e) /\ Reducible(e) /\ Projected(e, a, n)
    BY <1>1, <1>5, <2>1, IntakeProjects DEF Consistent
  <2>3. a = None /\ n = None
    BY <1>2, <2>2 DEF Projected, InboxEventTypeFor
  <2>4. CASE e.type = "approval_resolved"
    <3>1. x # a /\ x = e.approval /\ x \in Approvals /\ approvals[x] # None
      BY <1>2, <2>1, <2>3, <2>4, NoneIsNoId
    <3>2. approvals'[x].status \in Decided
      BY <1>1, <1>2, <2>2, <2>4, <3>1, ProjectedApprovals DEF Consistent
    <3> QED BY <3>1, <3>2, SettledIsOver
  <2>5. CASE e.type = "user_input_sent"
    <3>1. x # n /\ x = e.inbox /\ x \in InboxEvents /\ inbox[x] # None
      BY <1>2, <2>1, <2>3, <2>5, NoneIsNoId
    <3>2. x \in ResolvedBy(e)
      BY <2>5, <3>1 DEF ResolvedBy
    <3>3. inbox'[x].status = "resolved"
      BY <1>1, <2>2, <3>1, <3>2, ProjectedInbox DEF Consistent
    <3> QED BY <3>1, <3>3, SettledIsOver
  <2> QED BY <1>2, <2>4, <2>5
<1> QED BY <1>4, <1>5

\* What an answer under way is about.
LEMMA UnderWayIs ==
    ASSUME NEW x, DOMAIN pipe = Devcontainers
    PROVE  UnderWay(x) <=> \E d \in Devcontainers : \E e \in Members(pipe[d]) : x \in {e.approval, e.inbox}
BY DEF UnderWay, Members

\* The same of the answers under way after a step.
LEMMA UnderWayNext ==
    ASSUME NEW x, DOMAIN pipe' = Devcontainers
    PROVE  UnderWay(x)' <=> \E d \in Devcontainers : \E e \in Members(pipe'[d]) : x \in {e.approval, e.inbox}
BY DEF UnderWay, Members

\* An answer under way stays so until it arrives, or its connection is lost.
LEMMA UnderWayMoves ==
    ASSUME Base, [Next]_vars, Heeded', DecidedAreSettled', NEW x \in Items, UnderWay(x)
    PROVE  UnderWay(x)' \/ Over(x)'
<1>1. DOMAIN pipe = Devcontainers /\ DOMAIN pipe' = Devcontainers
  BY NextAnswersBelong DEF Base, InterventionTypeOK
<1>2. PICK d \in Devcontainers : \E e \in Members(pipe[d]) : x \in {e.approval, e.inbox}
  BY <1>1, UnderWayIs
<1>3. PICK e \in Members(pipe[d]) : x \in {e.approval, e.inbox}
  BY <1>2
<1>4. CASE pipe'[d] = pipe[d]
  BY <1>1, <1>3, <1>4, UnderWayNext
<1>5. ASSUME NEW p \in Panels, HandleAnswer(p)
      PROVE  UnderWay(x)'
  <2>1. PICK post : post = posts[p]["answer"]
    OBVIOUS
  <2>2. \/ pipe'[d] = pipe[d]
        \/ post.dc = d /\ Members(pipe'[d]) = Members(pipe[d]) \cup {Answer(post)}
    BY <1>5, <2>1, HandleAnswerDoes
  <2> QED BY <1>1, <1>3, <2>2, UnderWayNext
<1>6. CASE Deliver(d)
  <2>1. /\ pipe[d] # <<>> /\ pipe[d] \in Seq(AnswerFrom(d))
        /\ pipe'[d] = Tail(pipe[d])
    BY <1>1, <1>6 DEF Deliver, Base, InterventionTypeOK
  <2>2. CASE e = Head(pipe[d])
    BY <1>3, <1>6, <2>2, Delivered
  <2>3. CASE e # Head(pipe[d])
    <3>1. e \in Members(pipe'[d])
      BY <1>3, <2>1, <2>3, TailMembers
    <3> QED BY <1>1, <1>3, <3>1, UnderWayNext
  <2> QED BY <2>2, <2>3
<1>7. ASSUME NEW c \in Devcontainers, Drop(c) PROVE FALSE
  BY <1>7 DEF Drop, Heeded
<1>8. \/ pipe'[d] = pipe[d]
      \/ \E p \in Panels : HandleAnswer(p)
      \/ \E c \in Devcontainers : Drop(c)
      \/ Deliver(d)
  <2>1. \/ pipe' = pipe
        \/ \E p \in Panels : HandleAnswer(p)
        \/ \E c \in Devcontainers : Deliver(c) \/ Drop(c)
    BY DEF Next, vars, chvars, Open, Close, Submit, Dismiss, Refetch, RefetchDetail, RefetchList, Serve,
           HandleRead, FinishRead, HandleResolve, ReplyArrives, RequestFails, SessionReport, OtherRoute
  <2>2. ASSUME NEW c \in Devcontainers, Deliver(c), c # d PROVE pipe'[d] = pipe[d]
    BY <1>1, <2>2 DEF Deliver
  <2> QED BY <2>1, <2>2
<1> QED
  BY <1>4, <1>5, <1>6, <1>7, <1>8

\* So what is answered or over stays one of these.
LEMMA AnsweredStays ==
    ASSUME Base, [Next]_vars, Heeded', DecidedAreSettled', NEW x \in Items, x \in minted,
           Over(x) \/ UnderWay(x)
    PROVE  Over(x)' \/ UnderWay(x)'
BY OverStays, UnderWayMoves

\* Replies stay true, and new ones are.
LEMMA NextRepliesAreTrue ==
    ASSUME Base, [Next]_vars, Heeded', DecidedAreSettled', RepliesAreTrue
    PROVE  RepliesAreTrue'
<1> SUFFICES ASSUME NEW p \in Panels, posts'[p]["answer"] # None,
                    NEW x, x = posts'[p]["answer"].target
             PROVE  /\ posts'[p]["answer"].reply = "ok" => Over(x)' \/ UnderWay(x)'
                    /\ posts'[p]["answer"].reply = "APPROVAL_REQUEST_NOT_PENDING" /\ x \in Approvals
                          => Over(x)'
                    /\ posts'[p]["answer"].reply = "INBOX_EVENT_NOT_ACTIONABLE" /\ x \in InboxEvents
                          => Over(x)'
  BY DEF RepliesAreTrue, Over, UnderWay, Fresh, NeedsAttention
<1>1. PostMoves(p, "answer")
  BY NextMoves DEF Moves, Kinds
<1>2. CASE posts'[p]["answer"].reply = None
  BY <1>2, NoneIsNoPart DEF Replies
<1>3. ASSUME PostGoesOn(p, "answer") PROVE posts[p]["answer"] # None
  BY <1>3 DEF PostGoesOn
<1>4. PICK post : post = posts[p]["answer"]
  OBVIOUS
<1>5. CASE PostGoesOn(p, "answer")
  <2>1. /\ post # None /\ post \in Post /\ post.target = x /\ x \in Items /\ x \in minted
    BY <1>4, <1>5, BasePlaces, PostFields DEF PostGoesOn, Base, PostsBelong, About, Kinds
  <2>2. CASE posts'[p]["answer"].reply = post.reply
    <3>1. /\ post.reply = "ok" => Over(x) \/ UnderWay(x)
          /\ post.reply = "APPROVAL_REQUEST_NOT_PENDING" /\ x \in Approvals => Over(x)
          /\ post.reply = "INBOX_EVENT_NOT_ACTIONABLE" /\ x \in InboxEvents => Over(x)
      BY <1>4, <2>1 DEF RepliesAreTrue
    <3> QED BY <2>1, <2>2, <3>1, OverStays, AnsweredStays
  <2>3. CASE HandleAnswer(p)
    <3>1. PICK connected \in BOOLEAN :
            /\ posts'[p]["answer"].reply = Verdict(post, connected)
            /\ Verdict(post, connected) = "ok" =>
                  Members(pipe'[post.dc]) = Members(pipe[post.dc]) \cup {Answer(post)}
      BY <1>4, <2>3, HandleAnswerDoes
    <3>2. UNCHANGED rmvars
      BY <2>3 DEF HandleAnswer
    <3>3. ASSUME Verdict(post, connected) = "ok" PROVE UnderWay(x)'
      <4>1. DOMAIN pipe' = Devcontainers
        BY NextAnswersBelong
      <4>2. post.dc \in Devcontainers /\ x \in {Answer(post).approval, Answer(post).inbox}
        BY <1>4, <2>1, AnswerMade
      <4> QED BY <3>1, <3>3, <4>1, <4>2, UnderWayNext
    <3>4. ASSUME Verdict(post, connected) = "APPROVAL_REQUEST_NOT_PENDING", x \in Approvals
          PROVE  Over(x)'
      <4>1. approvals[x] # None /\ approvals[x].status # "pending"
        BY <2>1, <3>4 DEF Verdict, IsOpen, Fresh
      <4>2. approvals'[x].status \in Decided
        BY <3>2, <3>4, <4>1, BasePlaces DEF TypeOK, Optional, ApprovalRow, ApprovalStatus, rmvars
      <4> QED BY <2>1, <3>4, <4>2, SettledIsOver
    <3>5. ASSUME Verdict(post, connected) = "INBOX_EVENT_NOT_ACTIONABLE", x \in InboxEvents
          PROVE  Over(x)'
      <4>1. inbox'[x].status = "resolved"
        BY <2>1, <3>2, <3>5, DisjointIds DEF Verdict, IsOpen, rmvars
      <4> QED BY <2>1, <3>5, <4>1, SettledIsOver
    <3> QED BY <2>1, <3>1, <3>3, <3>4, <3>5
  <2> QED BY <1>4, <1>5, <2>2, <2>3 DEF PostGoesOn
<1>6. CASE \E r : posts'[p]["answer"] = PostFor(panels'[p], TargetOf(panels'[p]), r)
  BY <1>2, <1>6 DEF PostFor
<1> QED
  BY <1>1, <1>5, <1>6 DEF PostMoves

\* What the notes of a panel say stays true, and new notes are.
LEMMA NextNotesAreTrue ==
    ASSUME Base, [Next]_vars, Heeded', DecidedAreSettled', RepliesAreTrue, NotesAreTrue
    PROVE  NotesAreTrue'
<1> SUFFICES ASSUME NEW p \in Panels, panels'[p] # None, NEW x, x = TargetOf(panels'[p])
             PROVE  /\ panels'[p].control = "awaiting" => Over(x)' \/ UnderWay(x)'
                    /\ panels'[p].control = "stale" => Over(x)'
  BY DEF NotesAreTrue, Over, UnderWay, Fresh, NeedsAttention
<1>1. Heeded
  BY NextHistories DEF Heeded
<1>2. PanelMoves(p)
  BY NextMoves DEF Moves
<1>3. PICK old, new : old = panels[p] /\ new = panels'[p]
  OBVIOUS
<1>4. ASSUME old # None, HasControls(old)
      PROVE  TargetOf(old) \in Items /\ TargetOf(old) \in minted
  BY <1>3, <1>4, BasePlaces, TargetFields
<1>5. CASE \E y \in Items : panels'[p] = Mounted(y)
  BY <1>5 DEF Mounted
<1>6. CASE old # None /\ new.item = old.item /\ new.control = old.control /\ Looks(p)
  <2>1. CASE new.control \in {"awaiting", "stale"}
    <3>1. HasControls(old) /\ PanelBelongs(old)
      BY <1>3, <1>6, <2>1, BasePlaces DEF PanelBelongs
    <3>2. TargetOf(new) = TargetOf(old)
      BY <1>3, <1>6, <3>1, SameTarget, BasePlaces, NextMoves DEF Base, Moves
    <3>3. /\ old.control = "awaiting" => Over(TargetOf(old)) \/ UnderWay(TargetOf(old))
          /\ old.control = "stale" => Over(TargetOf(old))
      BY <1>1, <1>3, <1>6 DEF NotesAreTrue, Heeded
    <3> QED BY <1>3, <1>4, <1>6, <3>1, <3>2, <3>3, OverStays, AnsweredStays
  <2> QED BY <1>3, <2>1
<1>7. CASE Submits(p)
  BY <1>7 DEF Submits
<1>8. CASE old # None /\ new.item = old.item /\ Learns(p)
  <2>1. PICK post : post = posts[p]["answer"]
    OBVIOUS
  <2>2. /\ post # None /\ post.heard /\ new.shown = old.shown /\ old \in Panel /\ PanelBelongs(old)
        /\ \/ post.reply # None /\ new.control = AfterAnswer(old, post.reply).control
           \/ new.control = "error"
    BY <1>3, <1>8, <2>1, BasePlaces DEF Learns
  <2>3. old.control = "submitting" /\ post.target = TargetOf(old)
    BY <1>3, <2>1, <2>2 DEF Base, PanelsListen
  <2>4. HasControls(old) /\ TargetOf(new) = TargetOf(old)
    BY <1>8, <2>2, <2>3 DEF PanelBelongs, TargetOf, IsApproval, TypeShown
  <2>5. CASE post.reply # None /\ new.control = AfterAnswer(old, post.reply).control
    <3>1. new.control = IF post.reply = "ok" THEN "awaiting"
                        ELSE IF post.reply = StaleCode(old) THEN "stale" ELSE "error"
      BY <2>2, <2>5 DEF AfterAnswer, Panel
    <3>2. TargetOf(old) \in Approvals <=> IsApproval(old)
      BY <2>2, <2>4, TargetFields
    <3>3. new.control = "awaiting" => Over(post.target) \/ UnderWay(post.target)
      BY <2>1, <2>2, <3>1 DEF RepliesAreTrue
    <3>4. new.control = "stale" => Over(post.target)
      BY <1>4, <1>8, <2>1, <2>2, <2>3, <2>4, <3>1, <3>2 DEF RepliesAreTrue, StaleCode, Items
    <3> QED BY <1>3, <1>4, <1>8, <2>3, <2>4, <3>3, <3>4, OverStays, AnsweredStays
  <2> QED BY <1>3, <2>2, <2>5
<1> QED
  BY <1>2, <1>3, <1>5, <1>6, <1>7, <1>8 DEF PanelMoves

\* Together: what controls and replies say is kept true.
LEMMA NextTruth ==
    ASSUME Base, [Next]_vars, Truth
    PROVE  Truth'
<1>1. CASE ~Heeded'
  BY <1>1 DEF Truth, NotesAreTrue, Heeded
<1>2. CASE Heeded'
  <2>1. Heeded
    BY <1>2, NextHistories DEF Heeded
  <2>2. DecidedAreSettled'
    BY <1>2, <2>1, NextDecidedAreSettled DEF Truth
  <2> QED
    BY <1>2, <2>1, <2>2, NextRepliesAreTrue, NextNotesAreTrue DEF Truth
<1> QED BY <1>1, <1>2

-----------------------------------------------------------------------------
\* One opening answers once.

\* Nothing that went wrong is forgotten.
LEMMA StillOneLook ==
    ASSUME Base, [Next]_vars, OneLook'
    PROVE  OneLook
BY NextHistories DEF OneLook

\* Where an item is looked at or asked for, it was so before, or it is opened there for
\* the first time.
LEMMA TouchStays ==
    ASSUME Base, [Next]_vars, OneLook', NEW p \in Panels, NEW x, (Regards(p, x) \/ Asked(p, x))'
    PROVE  \/ Regards(p, x) \/ Asked(p, x)
           \/ /\ Regards(p, x)' /\ panels[p] = None /\ x \notin opened
              /\ answered' = answered
              /\ \A q \in Panels \ {p} : panels'[q] = panels[q]
<1>1. CASE Asked(p, x)'
  BY <1>1, AskedStays
<1>2. ASSUME Regards(p, x)', NEW y \in Items, Open(p, y), x = InterventionOf(y)
      PROVE  x \notin opened /\ answered' = answered /\ \A q \in Panels \ {p} : panels'[q] = panels[q]
  <2>1. x \notin opened
    BY <1>2 DEF Open, OneLook
  <2>2. \A q \in Panels \ {p} : panels'[q] = panels[q]
    BY <1>2, BasePlaces DEF Open, PlacesTyped
  <2> QED
    BY <1>2, <2>1, <2>2 DEF Open, chvars
<1> QED BY <1>1, <1>2, RegardsStays

\* An item stays in one place.
LEMMA NextOnePlace ==
    ASSUME Base, [Next]_vars, OnePlace
    PROVE  OnePlace'
<1> SUFFICES ASSUME OneLook', NEW x \in Items, NEW p \in Panels, NEW q \in Panels,
                    (Regards(p, x) \/ Asked(p, x))', (Regards(q, x) \/ Asked(q, x))'
             PROVE  p = q
  BY DEF OnePlace
<1>1. OneLook
  BY StillOneLook
<1>2. \A r \in Panels : Regards(r, x) \/ Asked(r, x) => x \in opened
  BY DEF Base, AllOpened
<1>3. CASE (Regards(p, x) \/ Asked(p, x)) /\ (Regards(q, x) \/ Asked(q, x))
  BY <1>1, <1>3 DEF OnePlace
<1>4. CASE ~(Regards(p, x) \/ Asked(p, x)) /\ ~(Regards(q, x) \/ Asked(q, x))
  <2>1. panels'[q] # None /\ panels[q] = None
    BY <1>4, TouchStays DEF Regards
  <2>2. \A r \in Panels \ {p} : panels'[r] = panels[r]
    BY <1>4, TouchStays
  <2> QED BY <2>1, <2>2
<1> QED
  BY <1>2, <1>3, <1>4, TouchStays

\* What is newly answered was asked for.
LEMMA NewlyAnswered ==
    ASSUME Base, [Next]_vars, NEW x, x \in answered', x \notin answered
    PROVE  \E r \in Panels :
               /\ HandleAnswer(r) /\ Asked(r, x) /\ posts[r]["answer"].reply = None
               /\ posts'[r]["answer"].reply = "ok" /\ panels' = panels
<1>1. answered' # answered
  OBVIOUS
<1>2. PICK r \in Panels : HandleAnswer(r)
  BY <1>1 DEF Next, vars, chvars, Open, Close, Submit, Dismiss, Refetch, RefetchDetail, RefetchList, Serve,
              HandleRead, FinishRead, HandleResolve, ReplyArrives, RequestFails, Deliver, Drop,
              SessionReport, OtherRoute
<1>3. PICK post : post = posts[r]["answer"]
  OBVIOUS
<1>4. PICK connected \in BOOLEAN :
        /\ posts'[r]["answer"].reply = Verdict(post, connected)
        /\ \/ Verdict(post, connected) = "ok" /\ answered' = answered \cup {post.target}
           \/ answered' = answered
  BY <1>2, <1>3, HandleAnswerDoes
<1>5. /\ post # None /\ post.reply = None /\ panels' = panels
  BY <1>2, <1>3, HandleAnswerDoes
<1> QED
  BY <1>1, <1>2, <1>3, <1>4, <1>5 DEF Asked

\* What is asked for, or can be, is not answered yet.
LEMMA NextNotAnsweredYet ==
    ASSUME Base, [Next]_vars, OneAnswer
    PROVE  NotAnsweredYet'
<1> SUFFICES ASSUME OneLook', NEW p \in Panels, NEW x \in Items
             PROVE  /\ Asked(p, x)' /\ posts'[p]["answer"].reply # "ok" => x \notin answered'
                    /\ Asked(p, x)' /\ Regards(p, x)' => posts'[p]["answer"].heard
                    /\ Regards(p, x)' /\ panels'[p].control \in {"idle", "error"} => x \notin answered'
  BY DEF NotAnsweredYet
<1>1. /\ OneLook
      /\ Asked(p, x) /\ posts[p]["answer"].reply # "ok" => x \notin answered
      /\ Asked(p, x) /\ Regards(p, x) => posts[p]["answer"].heard
      /\ Regards(p, x) /\ panels[p].control \in {"idle", "error"} => x \notin answered
  BY StillOneLook DEF OneAnswer, NotAnsweredYet
<1>2. None # "ok"
  BY NoneIsNoPart DEF Replies
<1>3. ASSUME x \in answered', x \notin answered, Regards(p, x) \/ Asked(p, x)
      PROVE  /\ Asked(p, x) /\ posts[p]["answer"].reply = None
             /\ posts'[p]["answer"].reply = "ok" /\ panels' = panels
  <2>1. PICK r \in Panels : /\ Asked(r, x) /\ posts[r]["answer"].reply = None
                            /\ posts'[r]["answer"].reply = "ok" /\ panels' = panels
    BY <1>3, NewlyAnswered
  <2>2. r = p
    BY <1>1, <1>3, <2>1 DEF OneAnswer, OnePlace
  <2> QED BY <2>1, <2>2
<1>4. ASSUME Asked(p, x)', posts'[p]["answer"].reply # "ok"
      PROVE  x \notin answered'
  <2>1. CASE Asked(p, x) /\ PostGoesOn(p, "answer")
    <3>1. CASE posts'[p]["answer"].reply = posts[p]["answer"].reply
      BY <1>1, <1>3, <1>4, <2>1, <3>1
    <3>2. CASE HandleAnswer(p)
      BY <1>1, <1>2, <1>3, <1>4, <2>1, <3>2, HandleAnswerDoes
    <3> QED BY <2>1, <3>1, <3>2 DEF PostGoesOn
  <2>2. CASE Regards(p, x) /\ Submits(p)
    <3>1. panels[p] \in Panel /\ panels[p].control \in {"idle", "error"}
      BY <2>2, BasePlaces, PanelFields DEF Regards, Submits, ShowsActions, Control
    <3>2. panels' # panels
      BY <2>2, <3>1 DEF Submits
    <3> QED BY <1>1, <1>3, <2>2, <3>1, <3>2
  <2> QED BY <1>4, <2>1, <2>2, AskedStays
<1>5. ASSUME Asked(p, x)', Regards(p, x)'
      PROVE  posts'[p]["answer"].heard
  <2>1. CASE Asked(p, x) /\ PostGoesOn(p, "answer")
    <3>1. Regards(p, x)
      BY <1>5, <2>1, RegardsStays DEF Open, Asked, Kinds
    <3> QED BY <1>1, <1>5, <2>1, <3>1 DEF PostGoesOn, Regards, OneLook
  <2> QED BY <1>5, <2>1, AskedStays
<1>6. ASSUME Regards(p, x)', panels'[p].control \in {"idle", "error"}
      PROVE  x \notin answered'
  <2>1. CASE ~(Regards(p, x) \/ Asked(p, x))
    <3>1. x \notin opened /\ answered' = answered
      BY <1>6, <2>1, TouchStays
    <3> QED BY <3>1 DEF Base, InterventionTypeOK
  <2>2. CASE Regards(p, x)
    <3>1. panels'[p] # None /\ panels[p] # None /\ PanelMoves(p)
      BY <1>6, <2>2, NextMoves DEF Regards, Moves
    <3>2. PICK old : old = panels[p]
      OBVIOUS
    <3>3. old \in Panel /\ PanelBelongs(old)
      BY <3>1, <3>2, BasePlaces
    <3>4. CASE panels'[p].control = old.control
      <4>1. x \notin answered
        BY <1>1, <1>6, <2>2, <3>2, <3>4
      <4>2. ASSUME x \in answered' PROVE FALSE
        <5>1. Asked(p, x) /\ posts[p]["answer"].heard
          BY <1>1, <1>3, <2>2, <4>1, <4>2
        <5>2. panels[p].control = "submitting"
          BY <5>1 DEF Base, PanelsListen, Asked
        <5> QED BY <1>6, <3>2, <3>4, <5>2
      <4> QED BY <4>2
    <3>5. CASE Learns(p)
      <4>1. PICK post : post = posts[p]["answer"]
        OBVIOUS
      <4>2. /\ post # None /\ post.heard /\ post.reply # None /\ panels'[p].control = AfterAnswer(old, post.reply).control
        BY <3>2, <3>5, <4>1 DEF Learns, OneLook
      <4>3. old.control = "submitting" /\ post.target = TargetOf(old)
        BY <3>2, <4>1, <4>2 DEF Base, PanelsListen
      <4>4. old.shown # None
        BY <3>3, <4>3, TargetFields DEF PanelBelongs
      <4>5. Asked(p, x)
        BY <2>2, <3>2, <4>1, <4>2, <4>3, <4>4 DEF Regards, Asked
      <4>6. post.reply # "ok"
        BY <1>6, <3>3, <4>2 DEF AfterAnswer, Panel
      <4> QED BY <1>1, <1>3, <4>1, <4>2, <4>5, <4>6
    <3>6. ~Submits(p) /\ ~\E y \in Items : Open(p, y)
      BY <1>6, <3>1 DEF Submits, Open
    <3> QED BY <3>1, <3>2, <3>4, <3>5, <3>6 DEF PanelMoves
  <2>3. CASE Asked(p, x)
    <3>1. Regards(p, x)
      BY <1>6, <2>3, RegardsStays DEF Open, Asked, Kinds
    <3> QED BY <2>2, <3>1
  <2> QED BY <2>1, <2>2, <2>3
<1> QED BY <1>4, <1>5, <1>6

-----------------------------------------------------------------------------
\* The theorems.

\* The invariant all that follows rests on: what panels, requests and answers are about
\* belongs together, what controls and replies say is true, and what is looked at in one
\* place is answered from there alone.
THEOREM InterventionInvariant == Spec => []IInv
<1>1. Init => IInv
  <2>1. ASSUME Init
        PROVE  IInv
    <3>1. Base
      BY <2>1, InitBase
    <3>2. /\ \A p \in Panels : panels[p] = None /\ \A k \in Kinds : posts[p][k] = None
          /\ \A i \in InboxEvents : inbox[i] = None
      BY <2>1 DEF Init, ReadModelInit
    <3> QED
      BY <3>1, <3>2 DEF IInv, Truth, NotesAreTrue, DecidedAreSettled, RepliesAreTrue,
                        OneAnswer, OnePlace, NotAnsweredYet, Regards, Asked, Kinds
  <2> QED BY <2>1
<1>2. IInv /\ [Next]_vars => IInv'
  BY NextBase, NextTruth, NextOnePlace, NextNotAnsweredYet DEF IInv, OneAnswer
<1> QED
  BY <1>1, <1>2, PTL DEF Spec

\* Panels hold items of the tables and rows of theirs, requests are about items of a
\* session, and answers under way are of the devcontainer they are under way from.
THEOREM InterventionTypes == Spec => []InterventionTypeOK
<1>1. IInv => InterventionTypeOK
  BY DEF IInv, Base
<1> QED
  BY <1>1, InterventionInvariant, PTL

\* "Awaiting runtime" and "already resolved" are true of the database (ApprovalControls,
\* QuestionForm), however many users answer, mark read and dismiss in however many places.
THEOREM NotesTellTheTruth == Spec => []NotesAreTrue
<1>1. IInv => NotesAreTrue
  BY DEF IInv, Truth
<1> QED
  BY <1>1, InterventionInvariant, PTL

\* The routes accept at most one answer from one opening: the second click is kept away
\* by the control alone (useInterventionAction), as the route would take it.
THEOREM OneOpeningOneAnswer == Spec => OneAnswerPerOpening
<1>1. IInv /\ [Next]_vars =>
        [\A p \in Panels :
            (/\ lapses \cap {"second_view", "unheard"} = {}
             /\ Arrived(p, "answer")
             /\ posts'[p]["answer"] # None /\ posts'[p]["answer"].reply = "ok")
            => posts[p]["answer"].target \notin answered]_vars
  <2> SUFFICES ASSUME IInv, NEW p \in Panels, OneLook, Arrived(p, "answer")
               PROVE  posts[p]["answer"].target \notin answered
    BY DEF OneLook
  <2>1. PICK x : x = posts[p]["answer"].target
    OBVIOUS
  <2>2. x \in Items /\ Asked(p, x)
    BY <2>1, BasePlaces, PostFields DEF IInv, Arrived, Asked, Kinds
  <2>3. posts[p]["answer"].reply # "ok"
    BY NoneIsNoPart DEF Arrived, Replies
  <2> QED
    BY <2>1, <2>2, <2>3 DEF IInv, OneAnswer, NotAnsweredYet
<1> QED
  BY <1>1, InterventionInvariant, PTL DEF Spec, OneAnswerPerOpening

\* Panels, routes and agents together write the database as ReadModel allows, so what is
\* proved of ReadModelSpec holds here too.
THEOREM InterventionsRefineReadModel == Spec => ReadModelSpec
<1>1. Init => ReadModelInit
  BY DEF Init
<1>2. IInv /\ [Next]_vars => [ReadModelNext]_rmvars
  BY StepOfReadModel DEF IInv
<1> QED
  BY <1>1, <1>2, InterventionInvariant, PTL DEF Spec, ReadModelSpec
=============================================================================
