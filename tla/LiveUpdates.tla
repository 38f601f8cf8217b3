---------------------------- MODULE LiveUpdates ----------------------------
(***************************************************************************)
(* How one browser tab follows the Control Plane: an event changes the     *)
(* tables and is announced by scope over one SSE stream; the coordinator   *)
(* calls the views registered for the scope; each view fetches again.      *)
(*                                                                         *)
(* Data is abstracted to versions: a scope's version counts the changes of *)
(* what it names, and what a view shows is a snapshot of the versions its  *)
(* request read.  The stream is a queue in the server and on the wire that *)
(* begins with "open", the response headers.                               *)
(*                                                                         *)
(* A REST write is announced to nobody; the view that made it, and the one *)
(* that view is part of, fetch again when it is answered.  A write may be  *)
(* made long after it was sent, also when the view that sent it is gone.   *)
(* Writes of another tab are left out: this one is not told of them at all.*)
(***************************************************************************)
EXTENDS Reducer, Naturals, Sequences, FiniteSets

CONSTANTS
    Views,          \* components of the page, by the names they have in Registers
    Keys,           \* the `deps` a query may have (a filter, an id); one for a view without
    Occurring,      \* event types that occur
    MaxChanges,     \* changes followed of one scope
    MaxFailures,    \* losses of the stream, of a request or of an answer
    MaxMoves,       \* mounts, unmounts and changes of key
    MaxLate         \* superseded requests of a view still out

Scopes == {"devcontainers", "agent_sessions", "inbox", "approvals", "runtime"}

\* What views show: what a scope names, and which sessions a devcontainer has.  These
\* come and go by REST writes only.
Data == Scopes \cup {"session_rows"}

\* The scopes each view registers its refetch for, and those whose data it shows.
Registers ==
    [RailBackend        |-> {"runtime"},
     Devcontainers      |-> {"devcontainers", "runtime"},
     DevcontainerDetail |-> {"devcontainers"},
     AgentSessionsList  |-> {"agent_sessions"},
     SessionDetailPanel |-> {"agent_sessions"},
     Approvals          |-> {"approvals", "inbox", "agent_sessions"},
     Inbox              |-> {"inbox", "agent_sessions", "approvals"}]

Shows ==
    [RailBackend        |-> {"runtime"},
     Devcontainers      |-> {"devcontainers", "runtime"},
     DevcontainerDetail |-> {"devcontainers", "runtime"},
     AgentSessionsList  |-> {"agent_sessions", "session_rows"},
     SessionDetailPanel |-> {"agent_sessions"},
     Approvals          |-> {"approvals"},
     Inbox              |-> {"inbox"}]

\* The views that write, and what: handleAction's delete, handleStart and
\* handleDelete, and handleContinue, whose resume commits `starting` unannounced.
Writes ==
    [Devcontainers      |-> "devcontainers",
     AgentSessionsList  |-> "session_rows",
     SessionDetailPanel |-> "agent_sessions"]

\* The views whose refetch the answer to a write of a view calls.
RefetchedAfter ==
    [Devcontainers      |-> {"Devcontainers"},
     AgentSessionsList  |-> {"AgentSessionsList"},
     SessionDetailPanel |-> {"SessionDetailPanel", "AgentSessionsList"}]

\* The pages a view is part of: the rail is part of every page.
Pages ==
    [RailBackend        |-> {"devcontainers", "detail", "approvals", "inbox"},
     Devcontainers      |-> {"devcontainers"},
     DevcontainerDetail |-> {"detail"},
     AgentSessionsList  |-> {"detail"},
     SessionDetailPanel |-> {"detail"},
     Approvals          |-> {"approvals"},
     Inbox              |-> {"inbox"}]

Writers == Views \cap DOMAIN Writes

ASSUME ViewsAreKnown == Views \subseteq DOMAIN Registers
ASSUME OccurringAreEvents == Occurring \subseteq EventTypes
ASSUME LiveBounds == {MaxChanges, MaxFailures, MaxMoves, MaxLate} \subseteq Nat

VARIABLES
    version,    \* datum -> changes so far
    stream,     \* the EventSource: see Stream
    queue,      \* what the stream still holds for the tab
    hasOpened,  \* coordinator: the stream was open before
    query,      \* view -> its useApiQuery state, None while not mounted
    fetches,    \* view -> requests under way: [key, read, live]
    acting,     \* view -> its REST write, and the views that will fetch again after it
    lapses,     \* history: what the tab was never told
    failures, moves

serverVars == <<version, stream, queue, hasOpened, failures>>
vars == <<serverVars, query, fetches, acting, lapses, moves>>

Stream == {"connecting",    \* asking, or waiting to ask again
           "open",          \* subscribed in the Control Plane
           "broken",        \* lost, and the tab does not know
           "closed"}        \* refused: an EventSource never asks again

Lapse == {"early",          \* a change the tab's first open stream did not carry
          "unheard"}        \* a write that a view shows and will not fetch again after

Acting == [phase : {"idle",
                    "sent",     \* not made yet
                    "made"},    \* not answered yet
           heard : SUBSET Views]

Idle == [phase |-> "idle", heard |-> {}]

Snapshot(v) == [Shows[v] -> 0 .. MaxChanges]
Current(v) == [s \in Shows[v] |-> version[s]]

Fetch(v) == [key : Keys, read : Snapshot(v) \cup {None}, live : BOOLEAN]
Shown(v) == [key : Keys, at : Snapshot(v)]
Query(v) == [key : Keys, shown : Shown(v) \cup {None}, error : BOOLEAN, wanted : BOOLEAN]

ASSUME NoneIsNothing == \A v \in Views : None \notin Snapshot(v) \cup Shown(v) \cup Query(v)

TypeOK ==
    /\ version \in [Data -> 0 .. MaxChanges]
    /\ stream \in Stream
    /\ queue \in Seq(Scopes \cup {"open"})
    /\ hasOpened \in BOOLEAN
    /\ DOMAIN query = Views /\ \A v \in Views : query[v] \in Query(v) \cup {None}
    /\ DOMAIN fetches = Views /\ \A v \in Views : fetches[v] \subseteq Fetch(v)
    /\ acting \in [Views -> Acting]
    /\ lapses \subseteq Lapse
    /\ failures \in 0 .. MaxFailures /\ moves \in 0 .. MaxMoves

Init ==
    /\ version = [s \in Data |-> 0]
    /\ stream = "connecting"
    /\ queue = <<>>
    /\ hasOpened = FALSE
    /\ query = [v \in Views |-> None]
    /\ fetches = [v \in Views |-> {}]
    /\ acting = [v \in Views |-> Idle]
    /\ lapses = {}
    /\ failures = 0 /\ moves = 0

-----------------------------------------------------------------------------
\* The Control Plane: events, and the broadcaster.

\* The tables `project` writes for an event, as scopes.
Touches(type) ==
    {s \in Scopes :
        \/ s = "devcontainers"  /\ type \in DOMAIN DevcontainerStatusAfter
        \/ s = "agent_sessions" /\ type \in DOMAIN SessionStatusAfter
        \/ s = "approvals"      /\ type \in {"approval_requested", "approval_resolved"}
        \/ s = "inbox"          /\ type \in DOMAIN InboxEventTypeFor
                                              \cup {"approval_resolved", "user_input_sent"}}

\* invalidations_for: one message per scope, in this order.
InvalidationsFor(type) ==
    LET Message(s) == IF s \in Touches(type) THEN <<s>> ELSE <<>>
    IN  Message("devcontainers") \o Message("agent_sessions")
        \o Message("approvals") \o Message("inbox")

\* The tab has seen an "open", or will.
OpenSeen(q) == hasOpened \/ \E i \in DOMAIN q : q[i] = "open"

\* Changes to some scopes, of which `told` are published.  Without a subscription
\* they reach nobody; the next "open" makes up for it, if it is not the first.
Change(touched, told) ==
    /\ \A s \in touched : version[s] < MaxChanges
    /\ version' = [s \in Data |-> version[s] + (IF s \in touched THEN 1 ELSE 0)]
    /\ queue' = IF stream = "open" THEN queue \o told ELSE queue
    /\ lapses' = lapses \cup (IF OpenSeen(queue) THEN {} ELSE {"early"})
    /\ UNCHANGED <<stream, hasOpened, query, fetches, acting, failures, moves>>

\* persist_runtime_event: commit, then publish.
PersistEvent(type) == Change(Touches(type), InvalidationsFor(type))

\* A runtime registers or unregisters.
ConnectionChanges == Change({"runtime"}, <<"runtime">>)

-----------------------------------------------------------------------------
\* The stream.

\* The Control Plane accepts the stream and subscribes it.
Accept ==
    /\ stream = "connecting"
    /\ stream' = "open"
    /\ queue' = <<"open">>
    /\ UNCHANGED <<version, hasOpened, query, fetches, acting, lapses, failures, moves>>

\* Answered with anything but a stream, an EventSource closes for good.
Refuse ==
    /\ stream = "connecting"
    /\ failures < MaxFailures
    /\ failures' = failures + 1
    /\ stream' = "closed"
    /\ UNCHANGED <<version, queue, hasOpened, query, fetches, acting, lapses, moves>>

\* The connection or the Control Plane goes down; what was sent may still arrive.
Break ==
    /\ stream = "open"
    /\ failures < MaxFailures
    /\ failures' = failures + 1
    /\ stream' = "broken"
    /\ \E n \in 0 .. Len(queue) : queue' = SubSeq(queue, 1, n)
    /\ lapses' = lapses \cup
         (IF OpenSeen(queue') \/ queue = <<"open">> THEN {} ELSE {"early"})
    /\ UNCHANGED <<version, hasOpened, query, fetches, acting, moves>>

\* onerror, after what did arrive.
Notice ==
    /\ stream = "broken"
    /\ queue = <<>>
    /\ stream' = "connecting"
    /\ UNCHANGED <<version, queue, hasOpened, query, fetches, acting, lapses, failures, moves>>

-----------------------------------------------------------------------------
\* The coordinator.

\* refetch() of every view in vs: a new token, for the effect to act on.
Refetch(vs) ==
    query' = [v \in Views |-> IF v \in vs /\ query[v] # None
                              THEN [query[v] EXCEPT !.wanted = TRUE] ELSE query[v]]

\* Mutant: a reconnect is taken for granted.
ReceiveOpenQuietly ==
    /\ queue # <<>>
    /\ Head(queue) = "open"
    /\ queue' = Tail(queue)
    /\ hasOpened' = TRUE
    /\ UNCHANGED <<version, stream, query, fetches, acting, lapses, failures, moves>>

\* onopen: nothing the first time, every registered view after a reconnect.
ReceiveOpen ==
    /\ queue # <<>>
    /\ Head(queue) = "open"
    /\ queue' = Tail(queue)
    /\ hasOpened' = TRUE
    /\ Refetch(IF hasOpened THEN Views ELSE {})
    /\ UNCHANGED <<version, stream, fetches, acting, lapses, failures, moves>>

ReceiveInvalidation ==
    /\ queue # <<>>
    /\ Head(queue) # "open"
    /\ queue' = Tail(queue)
    /\ Refetch({v \in Views : Head(queue) \in Registers[v]})
    /\ UNCHANGED <<version, stream, hasOpened, fetches, acting, lapses, failures, moves>>

-----------------------------------------------------------------------------
\* useApiQuery.

\* Cancelled requests run on; their answers are ignored.
Late(v) == {[f EXCEPT !.live = FALSE] : f \in fetches[v]}

\* Mutant: the effect has no cleanup.
SendOnly(v, k) ==
    /\ Cardinality(Late(v)) <= MaxLate
    /\ fetches' = [fetches EXCEPT ![v] =
                     fetches[v] \cup {[key |-> k, read |-> None, live |-> TRUE]}]

\* The effect: cancel the request before, send one.
Send(v, k) ==
    /\ Cardinality(Late(v)) <= MaxLate
    /\ fetches' = [fetches EXCEPT ![v] =
                     Late(v) \cup {[key |-> k, read |-> None, live |-> TRUE]}]

\* Mutant: the error is left undefined at first.
LoadingUndefined(k) == [key |-> k, shown |-> None, error |-> None, wanted |-> FALSE]

Loading(k) == [key |-> k, shown |-> None, error |-> FALSE, wanted |-> FALSE]

\* Mutant: a view that shows another key keeps what it shows meanwhile.
Keeping(v, k) == [query[v] EXCEPT !.key = k, !.wanted = FALSE]

\* What the query holds when its key becomes k: nothing of the key before.
Rekeyed(v, k) == Loading(k)

Move == moves < MaxMoves /\ moves' = moves + 1

\* A view appears on a page: it registers and sends its first request.
Mount(v) ==
    /\ query[v] = None
    /\ \A w \in Views : query[w] # None => Pages[v] \cap Pages[w] # {}
    /\ Move
    /\ \E k \in Keys :
         /\ query' = [query EXCEPT ![v] = Loading(k)]
         /\ Send(v, k)
    /\ UNCHANGED <<serverVars, acting, lapses>>

\* A write with those left who will fetch again after it; an answer that has no effect
\* any more is not followed.
HeardBy(a, views) ==
    IF a.phase = "sent" \/ views # {} THEN [a EXCEPT !.heard = views] ELSE Idle

\* What a view has registered or handed on is forgotten with it: the same view on
\* another visit is told nothing of writes sent on this one.
Unmount(v) ==
    /\ query[v] # None
    /\ Move
    /\ query' = [query EXCEPT ![v] = None]
    /\ fetches' = [fetches EXCEPT ![v] = Late(v)]
    /\ acting' = [w \in Views |-> HeardBy(acting[w], acting[w].heard \ {v})]
    /\ UNCHANGED <<serverVars, lapses>>

\* A click changes the key; React runs the effects of a click before anything else.
ChangeKey(v) ==
    /\ query[v] # None
    /\ Move
    /\ \E k \in Keys \ {query[v].key} :
         /\ query' = [query EXCEPT ![v] = Rekeyed(v, k)]
         /\ Send(v, k)
    /\ UNCHANGED <<serverVars, acting, lapses>>

\* The effects of a refetch run some time after it was asked for: until then, the
\* answer to the request before still counts, and further refetches join this one.
SendAgain(v) ==
    /\ query[v] # None
    /\ query[v].wanted
    /\ query' = [query EXCEPT ![v].wanted = FALSE]
    /\ Send(v, query[v].key)
    /\ UNCHANGED <<serverVars, acting, lapses, moves>>

\* The Control Plane answers from the tables as they are.
Answer(v) ==
    /\ \E f \in fetches[v] :
         /\ f.read = None
         /\ fetches' = [fetches EXCEPT ![v] = (@ \ {f}) \cup {[f EXCEPT !.read = Current(v)]}]
    /\ UNCHANGED <<serverVars, query, acting, lapses, moves>>

FetchReturns(v) ==
    /\ \E f \in fetches[v] :
         /\ f.read # None
         /\ fetches' = [fetches EXCEPT ![v] = @ \ {f}]
         /\ query' = IF f.live
                     THEN [query EXCEPT ![v].shown = [key |-> f.key, at |-> f.read],
                                        ![v].error = FALSE]
                     ELSE query
    /\ UNCHANGED <<serverVars, acting, lapses, moves>>

FetchFails(v) ==
    /\ failures < MaxFailures
    /\ failures' = failures + 1
    /\ \E f \in fetches[v] :
         /\ fetches' = [fetches EXCEPT ![v] = @ \ {f}]
         /\ query' = IF f.live THEN [query EXCEPT ![v].error = TRUE] ELSE query
    /\ UNCHANGED <<version, stream, queue, hasOpened, acting, lapses, moves>>

-----------------------------------------------------------------------------
\* Writes by the views.

Mounted(v) == query[v] # None

\* What a view shows and is kept informed of, by the stream or by its own writes.
Followed(v) == Shows[v] \cap (Registers[v] \cup {"session_rows"})

\* A click in what the view shows; one write of a view is followed at a time.
Act(v) ==
    /\ Mounted(v) /\ query[v].shown # None
    /\ acting[v] = Idle
    /\ version[Writes[v]] < MaxChanges
    /\ acting' = [acting EXCEPT ![v] =
                    [phase |-> "sent", heard |-> {w \in RefetchedAfter[v] \cap Views : Mounted(w)}]]
    /\ UNCHANGED <<serverVars, query, fetches, lapses, moves>>

\* The views on the page that will miss a write of v.
Missing(v) == {w \in Views : Mounted(w) /\ Writes[v] \in Followed(w)} \ acting[v].heard

\* The route commits, and tells no one.
WriteIsMade(v) ==
    /\ acting[v].phase = "sent"
    /\ version[Writes[v]] < MaxChanges
    /\ version' = [version EXCEPT ![Writes[v]] = @ + 1]
    /\ acting' = [acting EXCEPT ![v] =
                    IF acting[v].heard = {} THEN Idle ELSE [acting[v] EXCEPT !.phase = "made"]]
    /\ lapses' = IF Missing(v) = {} THEN lapses ELSE lapses \cup {"unheard"}
    /\ UNCHANGED <<stream, queue, hasOpened, failures, query, fetches, moves>>

\* The route refuses: an error message, and no refetch.
WriteIsRejected(v) ==
    /\ acting[v].phase = "sent"
    /\ acting' = [acting EXCEPT ![v] = Idle]
    /\ UNCHANGED <<serverVars, query, fetches, lapses, moves>>

\* Mutant: the page trusts the stream to tell it of its own write.
ActAnsweredQuietly(v) ==
    /\ acting[v].phase = "made"
    /\ acting' = [acting EXCEPT ![v] = Idle]
    /\ UNCHANGED <<serverVars, query, fetches, lapses, moves>>

\* The answer: the views fetch again, whatever their keys are by now.
ActAnswered(v) ==
    /\ acting[v].phase = "made"
    /\ acting' = [acting EXCEPT ![v] = Idle]
    /\ Refetch(acting[v].heard)
    /\ UNCHANGED <<serverVars, fetches, lapses, moves>>

\* The request fails on the way: no refetch, whether the write was made or not, or
\* will be.
ActUnanswered(v) ==
    /\ acting[v].heard # {}
    /\ failures < MaxFailures
    /\ failures' = failures + 1
    /\ acting' = [acting EXCEPT ![v] = HeardBy(acting[v], {})]
    /\ lapses' = lapses \cup (IF acting[v].phase = "made" THEN {"unheard"} ELSE {})
    /\ UNCHANGED <<version, stream, queue, hasOpened, query, fetches, moves>>

-----------------------------------------------------------------------------
ServerStep == Accept \/ \E v \in Views : Answer(v)
TabStep ==
    \/ Notice \/ ReceiveOpen \/ ReceiveInvalidation
    \/ \E v \in Views : SendAgain(v) \/ FetchReturns(v)

ViewWrites(v) ==
    Act(v) \/ WriteIsMade(v) \/ WriteIsRejected(v) \/ ActAnswered(v) \/ ActUnanswered(v)

Next ==
    \/ \E type \in Occurring : PersistEvent(type)
    \/ ConnectionChanges
    \/ ServerStep \/ TabStep
    \/ Refuse \/ Break
    \/ \E v \in Views : Mount(v) \/ Unmount(v) \/ ChangeKey(v) \/ FetchFails(v)
    \/ \E v \in Writers : ViewWrites(v)

Spec == Init /\ [][Next]_vars

\* The server answers, and the tab's event loop turns.
FairSpec ==
    /\ Spec
    /\ WF_vars(Accept) /\ WF_vars(Notice) /\ WF_vars(ReceiveOpen) /\ WF_vars(ReceiveInvalidation)
    /\ \A v \in Writers : WF_vars(ActAnswered(v))
    /\ \A v \in Views : WF_vars(SendAgain(v)) /\ WF_vars(Answer(v)) /\ WF_vars(FetchReturns(v))

-----------------------------------------------------------------------------
\* Properties.

\* Nothing that concerns v is on its way any more.
Settled(v) ==
    /\ Mounted(v)
    /\ ~query[v].wanted
    /\ \A w \in Views : ~(acting[w].phase = "made" /\ v \in acting[w].heard)
    /\ \A f \in fetches[v] : ~f.live
    /\ \A i \in DOMAIN queue : queue[i] # "open" /\ queue[i] \notin Registers[v]

UpToDate(v) ==
    /\ query[v].shown # None
    /\ \A s \in Followed(v) : query[v].shown.at[s] = version[s]

\* Once the stream is open and everything it said has been acted on, a view shows the
\* tables as they are or says that its last request failed: no order of changes,
\* losses of the stream, reconnects, cancelled and late answers, and no write of
\* another view of the page leaves one behind.  Changes that came before the first
\* open stream, or were lost with it, and writes whose answers nobody heard aside.
OpenMeansUpToDate ==
    \A v \in Views :
        (stream = "open" /\ lapses = {} /\ Settled(v)) => query[v].error \/ UpToDate(v)

\* What a view shows belongs to the key it has: the data of another devcontainer
\* "would be wrong, not merely stale" (ADR-0006).
ShowsItsKey ==
    \A v \in Views :
        (Mounted(v) /\ query[v].shown # None) => query[v].shown.key = query[v].key

\* What a view shows never goes back to an older state while it stays mounted.
NeverGoesBack ==
    [][\A v \in Views :
         (/\ Mounted(v) /\ query[v].shown # None
          /\ query'[v] # None /\ query'[v].shown # None) =>
            \A s \in Shows[v] : query'[v].shown.at[s] >= query[v].shown.at[s]]_vars

\* Once the tables, the user and the network come to rest, every view ends up to
\* date or with an error, unless the stream was refused: the coordinator and
\* useApiQuery leave no refetch undone.
CatchesUp ==
    <>[](\A v \in Views :
            Mounted(v) /\ stream # "closed" /\ lapses = {} => query[v].error \/ UpToDate(v))
=============================================================================
