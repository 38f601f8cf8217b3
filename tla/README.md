# vibing: a verification project

vibing is a control plane for coding agents in dev containers. A user at a web
page starts containers and claude sessions in them, answers what claude asks,
and follows what happens. This directory holds TLA+ models of the parts that
carry the system's logic, the configurations that model-check them with TLC, and
proofs, checked by TLAPS, of what the database, the channel, the session system, the
container lifecycle and the web client's queries guarantee for instances of any size.
Paths below are relative to the repository (`src/` in `PROJECT.json`).

## 1. The system

```
 browser tab                Control Plane (FastAPI, one event loop + threadpool)
 ┌───────────────┐  REST    ┌──────────────────────────────────────────────────┐
 │ useApiQuery   │────────▶ │ routes ──▶ SQLite (the read model) ◀── project   │
 │ coordinator   │ ◀────SSE─│ SseBroadcaster                           ▲       │
 └───────────────┘          │ ConnectionRegistry / AgentRegistry       │       │
                            └──────┬───────────────────────────┬───────┴───────┘
                     commands ▼ ▲ events             commands ▼ ▲ events, transcripts
                      ┌────────────────────┐         ┌───────────────────────────┐
                      │ Host Runtime Worker│─launch─▶│ Devcontainer Runtime Agent│
                      │ devcontainer CLI   │         │ one per running container │
                      └────────────────────┘         │ claude processes          │
                                                     └───────────────────────────┘
```

| Part | State | Operations | What is hard | What makes it correct |
|---|---|---|---|---|
| Event reducer and projection (`core/reducer.py`, `repositories/runtime_events.py`) | none of its own; writes all tables | `reduce`, `project`, `persist_runtime_event` | events in any order, about rows deleted meanwhile | tables that agree with each other after every event |
| Read model (`core/schema.py`, `repositories/*`) | SQLite tables, foreign keys with cascades | create, update, delete, `mark_read`, `resolve` | `def` routes on threads check and write in separate statements | rows refer to rows that exist and belong together |
| Session routes (`routes/agent_sessions.py`) | none | start, resume, stop, input, approval, delete, transcript | the status checked lags the commands in flight | one active session per devcontainer; a decision stands |
| Devcontainer routes (`routes/devcontainers.py`) | none | create, patch, delete, start, stop | the same | the status tells the truth about the container |
| Runtime channel (`core/runtime_channel.py`, `routes/runtime.py`) | a slot per key, transcript futures | register, reject, intake, send, request, release | half-open connections, rejection, restarts | one registered connection per slot; no future left waiting |
| Channel client (`vibing_runtime_client/client.py`) | socket, queue, consumer task | connect, receive, consume, reply, close, reconnect | exceptions and cancellation between two tasks | serial handling; it always reconnects |
| Agent (`vibing_devcontainer_runtime/command_handler.py`, `claude_runner.py`) | two dictionaries by session id, claude processes | start/resume, stop, input, approval, run callbacks | late callbacks of old runs, cancelled stops, reports after a drop | a stop reaches its process; at most one claude |
| Host worker (`vibing_host_runtime/*`) | none that lasts | start, stop, launch the agent | failing, raising or abandoned CLI processes | a row leaves `starting`/`stopping` |
| SSE (`core/broadcaster.py`, `routes/events.py`) | queue per subscriber | publish, subscribe, stream | loss with the stream | a tab is told, or refetches |
| Web client (`lib/events/coordinator.ts`, `lib/api/useApiQuery.ts`, the views) | stream, registrations, query states | invalidate, refetch, mount, change key, write | late answers, reconnects, unannounced writes | a view shows its key, never goes back, ends up to date |
| Intervention actions (`lib/intervention/*`, the Inbox's detail panel, the rows of the Approvals page) | a control, a mark and a button per panel | submit, dismiss, mark read, refetch | the 202 changes no row; rival panels, lost replies, lost answers | what the control says is true; one opening answers once; every click comes to something |
| Rendering, mocks, CLI, configuration, health, transcript parsing, result text | – | – | – | not modelled: no state, or only reads and text |

They interact in two ways. *Commands and events*: a route validates against the
read model, perhaps writes a row, and sends a command over the channel; the
runtime acts and emits events; the Control Plane projects each event in one
transaction. Nothing is acknowledged or retried, so a drop loses what is in
flight both ways. *Invalidation*: every projected event is announced by scope
over SSE, and each view registered for the scope fetches again.

## 2. The modules

```
 Reducer ◀── ReadModel ◀── AgentSessions ◀── AgentSessionsProofs ◀── AgentRunsProofs
    ▲            ▲                               │
    │            ├── ReadModelProofs ◀───────────┘
    │            │         ▲
    │            │         └─────────────────── InterventionsProofs
    │            │                               │
    │            └── Interventions ◀─────────────┘
    ├── DevcontainerLifecycle ◀── DevcontainerLifecycleProofs
    └── LiveUpdates ◀── LiveUpdatesProofs

 OrderedDelivery ◁── RuntimeChannel ◀── RuntimeChannelProofs
```
◀ is EXTENDS, ◁ is INSTANCE ... WITH a mapping. `AgentSessions` and `Interventions` contain
the whole database: the one with the agents, the other with the panels that answer claude.
Every module that TLC runs has an
`MC` module with model values, constraints and symmetry.

### `Reducer`: vocabularies and `reduce`
The enumerations of `core/vocabularies.py` and the event types, and `reduce` as
functions from event type to status: `DevcontainerStatusAfter`,
`SessionStatusAfter`, `FinalStatus`, `InboxEventTypeFor`. An event is a record
of the ids it carries. Every module that knows events uses these tables.

### `ReadModel`: the database
A table is a function from ids to rows, `None` being no row; ids are UUIDs, so an
id once `minted` never comes back. Names, texts and timestamps are left out.

* `PersistEvent` is `persist_runtime_event`: the foreign keys of the log's INSERT
  (`Accepted`) decide whether the event counts; `ProjectDevcontainer`,
  `ProjectSession`, `ProjectApproval`, `ProjectInbox` and `ProjectSummary` are the
  writes of `project` and happen together, because the INSERT takes the write lock.
  `Intake` adds that a refused event is rolled back, logged and forgotten.
* `async def` routes do not await between their check and their write, and what
  they read commutes with what a worker thread may commit in between, so each is
  one action (`StartRow`, `ResumeRow`). `def` routes run on threads and a SELECT
  opens no transaction, so `delete_agent_session` and `mark_read` are two actions
  each, with the checked id kept in `requests`.
* `CascadeSessions` has the schema's ON DELETE CASCADE and SET NULL.
* `RuntimeEvents` lets the runtimes send any event about existing rows, in any
  order, any number of times. What holds here holds whatever the runtimes do,
  and `AgentSessions` is shown to be an instance (`ImplementsReadModel`).

### `AgentSessions`: from the click to the claude process
`ReadModel` plus the command each route sends (`SendCommand`), a channel per
devcontainer (two FIFO queues that live as long as one connection), and the agent.
The agent is one asyncio loop, so what a coroutine does between two awaits is one
action: `HandleStart` (announce) and `Spawn` (run, overwrite both dictionaries);
`HandleStop` (pop both entries, cancel) and `FinishStop` (terminate, report);
`RunExits` (`finally` pops the process, then emit) and `RunReturns` (the done
callback pops the task). `processes` and `tasks` are the handler's two
dictionaries. `working` is a run from the start of its task, so `terminate()` may find no
process yet and do nothing: `Terminated` leaves that open for a run whose task was not
cancelled. How long `emit` takes to return is up to the WebSocket library, so
`RunReturns` may come any time after its event has been received.

`Drop` loses the channel and cancels the consumer; runs started over it are no
longer `wired`: their reports go nowhere. A restart of the Control Plane is, for
this module, a drop of every channel. `ContainerStops` takes agent and claude
along. `WorkerReports` lets the worker report anything in `Reported`; what it
does report is the business of `DevcontainerLifecycle`. `Ask` is claude asking
for something: the event types exist and the Control Plane handles them, but no
code in the agent emits them, so it is an external action. PATCH of a status is left to
`ReadModel`.

What a queue of devcontainer `d` may hold and what its consumer may be at is stated exactly:
`CommandTo(d)`, `EventFrom(d)`, `Work(d)` are records of a type of message with the ids that
type has, and no others; `AgentTypeOK` is about them.

*Lapses.* Read model and container are far apart and the code has no reconciliation,
so several desirable properties are not true as they stand. `lapses` is a history
variable that records each way of losing track (a connection dropped with events in
it, a resume accepted over an outstanding stop, two decisions in flight, ...). Each
property names the lapses it does not survive, and is checked to hold without them:
it is therefore also a precise statement of what would have to be fixed. The
constraint `NotConfused` of `MCAgentSessions` follows behaviours up to the lapse
`resumed_over_stop`, after which no property claims anything that depends on it.

### `RuntimeChannel`: one slot, its connections and its clients
`AgentSessions` lets both ends see a drop at once; this module separates them. A
connection keeps each end's view and what is on the wire; after `Sever` each end
still reads a prefix of what was sent, then notices. `AcceptRegistration`,
`RejectRegistration`, `ServerReceives` and `ServerNotices` are `_serve` with
the registry's claim and `finally: unregister()`; the client has its receive
loop, its consumer (`idle`, `busy`, `cancelled`, `dead`, `done`) and the `finally`
that cancels the consumer and awaits it. Transcript requests (ADR-0009) share the
connection and may time out at any moment. `Exceptions` selects the exceptional
paths that a run allows: a handler that raises; a transcript read
that raises (`read_text` of a file that ends inside a character); a cancellation
swallowed by `except (CancelledError, Exception)`
of the stop handler; a transcript longer than the server's WebSocket accepts, on
which the server closes the connection (`ResponseTooLong`). The worker's slot and an
agent's slot follow the same code. Delays, and with them the backoff, are not modelled.

### `OrderedDelivery`: what a channel promises
The abstract specification of a channel in five actions, without connections, clients,
wires or half-open states: whoever holds the slot handles commands in order, each at
most once and with one event; when something is lost, everything behind it is lost
too, and nothing sent to this holder afterwards gets through. `AgentSessions` and
`DevcontainerLifecycle` assume it with their queues. `RuntimeChannel` implements it
(`KeepsTheContract`): the mapping computes `pending` from the events on the wire, the
command being handled, the client's queue and the commands on the wire, as far as the
two coroutines that would carry them still work. `pending` is a set, since every command
has a number: what is lost, all of `cut`, is what is later than some command. Transcript requests and time-outs
are stutters, and so is most of a half-open connection's life.

### `DevcontainerLifecycle`: from the click to the container
The lifecycle routes (which check a status and send a command but write nothing),
the worker's channel, and the worker's handler: `TakeCommand` announces and starts
the CLI, `CommandSucceeds`, `CommandFails` or `CommandRaises` end it, `LaunchAgent`
is the best-effort launch after `started`. An exception other than
`FileNotFoundError` ends the consumer and leaves the connection registered (`dead`).
A container belongs to a *folder*, as the CLI has it, and nothing keeps two rows from
having one folder, so the model has rows that share one. A CLI process
whose handler was cancelled by a drop is not killed (`abandoned`); a failed command
may or may not have done its work.

Two history variables say what nobody in the code knows. `lost` holds the rows about
which something was lost, each until the worker takes the next command about it: a
drop is mended row by row, not for ever. `last` is, for a folder, the row whose
command decided the container last, or `None` when something that is not reported may
have changed it since (it died, an abandoned CLI ended) or the report was lost. Of
that row, and of no other row of the folder, the status is claimed to be true.

### `LiveUpdates`: one browser tab
Data is abstracted to versions: the version of a scope counts its changes, and what
a view shows is the snapshot its request read. The stream is a queue that starts
with `"open"`: subscription in the server and response headers in the tab are
treated as one marker in that queue. `Registers` and `Shows` give, for each view, the scopes it
registers and those whose data it shows. `Send` is the effect of `useApiQuery`,
which marks the request before as cancelled; `FetchReturns` and `FetchFails` are its
two callbacks; `Rekeyed` is the reset when `deps` change. Writes (`Act`,
`WriteIsMade`, `WriteIsRejected`, `ActAnswered`, `ActUnanswered`) are the resume of
the session panel and the deletes of the two lists: they are announced to nobody,
and the answer makes the view and, for the panel, the list beside it fetch again, those of
them that are still mounted (`heard`; `RefetchedAfter` and `Pages` say which, and which
views share a page). `session_rows` is the data of a deletable row. Changes of key through the
router (`useParams`), whose effects React may defer, are left out, as are other tabs.

### `Interventions`: from the question to the answer and back
`ReadModel` plus the places where a user answers claude: `DetailPanels` (the Inbox's
`InboxDetailPanel` with its approval or answer control, its mark-as-read effect and its
Resolve button) and `RowPanels` (`ApprovalRow` of the Pending tab). A panel is what is
mounted in one place of one tab; several panels are several users, tabs or pages.
`Submit`, `AfterAnswer` and `StaleCode` are `useInterventionAction`; `ShowsActions` and
`Settled` decide when the buttons are there. A panel has at most one request of each
kind; a request is handled by the routes (`HandleAnswer`, `HandleRead` and
`FinishRead`, the two statements of `mark_read`, `HandleResolve`), then its reply
arrives, or it fails in the tab, in which case it may never have been made, or still
be made with nobody to hear of it. Closing a panel forgets its control, and the reply.

The agent is reduced to what matters here: an accepted answer is an entry of `pipe`
until its event is projected, or lost with the connection; session reports (asking,
stopping) come at any time. Whether an agent is connected when a route looks is left
open. A fetch is one step, and `due` says that one must come: `LiveUpdates` has its
two halves, its failures and the stream. The Approved and Rejected tabs never show
controls and are left out; so are resumes. `AnswerFrom(d)` is the set of answers that may be
on their way from devcontainer `d`. `lapses` is used as in `AgentSessions`.

## 3. What is checked

All runs set CHECK_DEADLOCK FALSE: ids, runs and faults are finite pools, and once
they are used up a model may stop with nothing left to do. That is the model's
bound, not the program's state; progress is checked by the liveness properties.

| Run | Instance | Properties |
|---|---|---|
| `read_model` | 1 devcontainer, 2 sessions, 1 approval, 2 inbox events, 1 thread | `TypeOK`, `RowsBelongTogether`, `ApprovalsAreNotified`, `RestingHasSummary`, `WaitingHasPending` |
| `agent_sessions` | 1 devcontainer, 2 sessions, 2 runs, 2 messages a queue, no asks | `AgentTypeOK`, `OneActiveWithoutOverlap`, `OneClaude`, `ActiveHasRun`, `RestingMeansIdle`, `StopReachesEveryRun` |
| `agent_approvals` | 1 approval, 2 inbox events, 1 run, 1 message a queue, both kinds of ask | `OneActiveWithoutOverlap`, `DecisionsStandIfSerial`, `ImplementsReadModel` |
| `agent_liveness` | 1 session, 1 run, 1 delete thread, fair | `StopEndsSession`, `StartingIsLeft` |
| `channel` | 2 clients, 3 connections, 1 transcript request, 3 commands, 3 faults, every exception | `TypeOK`, `SlotIsTheRegistered`, `SerialHandling`, `NoHangingRequest`, `KeepsTheContract` |
| `channel_liveness` | 1 client, 2 connections, 2 commands, 2 faults, transcripts that raise or are too long, fair | `ReceivedIsHandled`, `Reconnects` |
| `lifecycle` | 2 rows of one folder, 1 message a queue, 1 abandoned CLI, 1 agent a row, fair | `TypeOK`, `TransientMeansBusy`, `StatusIsTrue`, `TransientEnds` |
| `live` | the session panel, 2 keys, 2 changes a scope, 2 failures, 2 moves, fair | `TypeOK`, `OpenMeansUpToDate`, `ShowsItsKey`, `NeverGoesBack`, `CatchesUp` |
| `interventions` | a detail panel and an approval row, 1 session, 1 approval, 1 inbox event, 1 answer under way, 1 loss, one lapse, fair | `InterventionTypeOK`, `NotesAreTrue`, `OneAnswerPerOpening`, `ClickIsSettled` |
| `one_active` | as `agent_sessions` | violates `OneActive` |
| `channel_hang` | as `channel_liveness`, swallowed cancellation | violates `Reconnects` |
| `lifecycle_one_agent` | 1 row | violates `OneAgent` |

**What the passing runs show.** The comment above each property states it and names
the code it is about. In short: the five tables stay in step under every order of
events and every interleaving of the routes; while nothing outside goes wrong, an
active session has a run behind it and a resting one has no claude left; the agent's two
dictionaries survive the late callbacks of earlier runs; a stop is how a user
always gets a session back; the slot of a channel never names a connection that is
not registered, the whole of connections, clients and their failures is one ordered
channel that loses only ends, across
reconnects, restarts and rival runtimes, and no transcript request waits for a
dead connection; a row in `starting` or `stopping` has something under
way that ends it unless something about this row was lost; of the rows that share a
folder the one heard last tells the truth about the container; a view that misses
messages catches up by refetching everything on
reconnect; what a control says of an answer is true whoever else answers, and a click
is settled without a reload.

**What the violations show.** Each is a disagreement between a document and the code.

* `one_active`: a resume is accepted while a stop of the session's previous run is
  in flight (the session had ended by itself just before); the late
  `session_stopped` rests the row, another session starts, and the resumed run's
  `agent_session_started` makes two active. CONTEXT.md: "At most one is active per
  Devcontainer".
* `channel_hang`: the connection ends with the consumer inside the stop handler's
  `except (CancelledError, Exception)`; the cancellation is swallowed, the consumer
  waits for its next command and `await consumer` never returns. client.py:
  "Reconnect forever (until stopped)".
* `lifecycle_one_agent`: two starts accepted before the first event is projected, or
  a start from `error` of a running container, launch an agent each; ADR-0004: "one
  runs inside each *running* Devcontainer".

**Divergences met that the passing properties step around.** They are the lapses and
the missing exceptions above; each was met while modelling, and each weakens a
property rather than being hidden by a bound.

* Two resolutions of one approval, both accepted while it is `pending`, replace one
  decision by the other (lapse `double_answer`; CONTEXT.md: "`pending → approved |
  rejected`").
* A resolution handled after its run ended turns a resting session back to `running`
  (lapse `late_answer`; CONTEXT.md: only resume leaves a resting state).
* A stopped container does not end its active session (lapse `dropped`; CONTEXT.md:
  "it necessarily ends any active agent-session inside it").
* A session resumed between the check and the commit of its delete is deleted while
  active, and its claude runs on (lapse `active_deleted`; errors.py: "Cannot delete
  active agent session").
* `mark_read` tests in one statement and writes in another with no transaction around
  them; a resolution in between is undone (lapse `unresolved`;
  docs/superpowers/specs/2026-06-04-inbox-read-resolved-actions-design.md:23:
  "`resolved` is terminal"). The event is back under Needs Attention, and a control
  that said it was settled is wrong.
* An approval of a session that has ended is still `pending`. CONTEXT.md:48 has it
  "left `pending` and hidden"; `list` of `repositories/approvals.py` and the Pending tab
  show it with its buttons, and the route's `AGENT_SESSION_NOT_ACTIVE` reads "Couldn't
  submit — try again". `ClickIsSettled` counts that message as an outcome.
* What was submitted is known to the panel only: the item opened again, or elsewhere,
  before the event is back offers its buttons again and the route accepts (lapse
  `second_view`).
* A reply that is lost says "try again"; the retry either answers twice or finds its own
  success and says it was resolved elsewhere (lapse `unheard` of `Interventions`).
* An answer lost with the agent's connection leaves "awaiting runtime" and no button
  until the panel is opened anew (lapse `dropped` of `Interventions`).
* A mark-as-read that fails is retried at the next state change only, which may not come.
* A handler that raises ends the consumer while the connection stays registered: later
  commands are queued for nobody. `ReceivedIsHandled` is checked without handler
  exceptions, and `channel` has them.
* The detail view of a devcontainer shows and decides by `runtime.agent_connected` but
  does not register for the scope `runtime`; `OpenMeansUpToDate` speaks of the scopes
  a view registers (`Followed`).
* A write whose answer is lost, or comes when the view that sent it is gone, is
  followed by no refetch and no message (lapse `unheard`); an EventSource answered
  with an error status stays closed (state `closed`).

**Bounds.** One devcontainer is enough in `AgentSessions`, where channels, dictionary
entries and the one-active rule are all per devcontainer. Two sessions are the
fewest that break that rule; two runs let an old run's late callback meet a newer
run of the same session, or of another. Three connections in `channel` let one be half-open while
its client has reconnected and a rival dials. Three faults allow a fault in the
recovery from a fault. Two changes per scope make an older and a newer answer; two failures a
break and a second break, or a lost request, on the way back; two moves a mount and a change
of key or an unmount. Two rows of one folder are the fewest that can contradict each
other in `lifecycle`; one message a queue still holds a command waiting, a command at
work and an event on its way at once (with two, 1.3 million states, the same
properties hold). Two panels are the fewest rivals for one intervention, and one is a
row while the other is a detail, so that both tables are involved; `OneLapse` lets one
kind of trouble happen in a behaviour of `interventions`, since each property names the
lapses it does not survive. Once the devcontainer is deleted every item is gone for good, so that no click is owed
anything more: `DeletionIsTheEnd` follows the deletion with one request or answer under way
and leaves out the orders of several. The two constraints bound the run only: the theorems
about the safety properties know neither.
`MaxInFlight` makes senders wait as a full socket does; it is 1 in
`agent_approvals`, where a command and an event in flight still hold two decisions at
once. Pools of ids bound the length of behaviours, not the order of steps.
Symmetry is used only where ids of one pool are interchangeable, and never with liveness.

**Fairness.** Weak fairness is given to event loops and nothing else: the Control
Plane's receive loop and the agent's consumer (`AgentSessions`), client, consumer and
server steps of a connection (`RuntimeChannel`), intake and the worker's step
(`DevcontainerLifecycle`), the stream, the answers and the tab's effects
(`LiveUpdates`), the answer routes, their replies, the projection of answers and the
refetches (`Interventions`). The awaits inside these steps are sends or `terminate()`, whose grace
period is bounded; the one exception is the Dev Container CLI, which the worker waits
for without a limit, so `TransientEnds` assumes that it ends. A client whose sleep is
over dials again; the delay is capped, so it does. Users, claude, the network, faults
and time-outs are under no obligation.

## 4. What is proved

Each theorem holds for every value of the constants, any number of devcontainers,
sessions, runs, connections, views or messages, under the named assumptions of the module
it is about; TLC evaluates these in every run of that module. They say that `None` is
no id, row, message or number, that ids of different tables differ, that bounds are natural
numbers and a queue has room for one message, and that the pools of event types hold what
they should. Sets of ids may be infinite.

All proofs have the same shape: an inductive invariant, called `IInv` or `Consistent`, one
lemma for what each action *does* (the frame and the few facts that matter), one for what
it preserves, and a theorem for each property that follows. Every inductive invariant was
checked by TLC on the instances of section 3 before it was proved.

### The database

| Theorem of `ReadModelProofs` | Property |
|---|---|
| `TypeCorrect` | `TypeOK` |
| `RowsStayTogether` | `RowsBelongTogether` |
| `RestingIsSummarised` | `RestingHasSummary` |
| `WaitingCanBeAnswered` | `WaitingHasPending` |
| `ApprovalsStayNotified` | `ApprovalsAreNotified` |

`RowsBelongTogether` is not inductive by itself: were an id ever given to a second row,
the new row would take the place of the old one under everything that refers to it. So
the inductive invariant is

    Consistent == TypeOK /\ RowsBelongTogether /\ IdsAreMinted

where `IdsAreMinted` says that every row's id has been minted, so that an id handed out
is the id of no row, and of none to come.

1. `RuntimeEventsWellFormed`: an event a runtime may send is about rows that belong
   together.
2. `PersistEventType`, `CascadeType`, `NextType`: types, action by action.
3. `NextMinted`, `ProjectedBelong`, `CascadeBelong`, `NextBelong`: the two kinds of
   hard step, the projection of an event and a cascade, are described row by row
   (`ProjectedSessions`, `ProjectedApprovals`, `ProjectedInbox`, `CascadeRows`), and
   the invariant follows per conjunct.
4. `ConsistentHolds`, by induction over the behaviour.
5. `NextResting`, `NextWaiting` and `NextNotified` show that the other three
   invariants are inductive relative to `Consistent`; `StepKinds` sorts the steps by
   what they may do to a row.

### The session system

| Theorem | Property |
|---|---|
| `AgentTypesHold` of `AgentSessionsProofs` | `AgentTypeOK` |
| `AgentsRefineReadModel` | `ImplementsReadModel`: the five theorems above hold of the whole system |
| `AgentInvariant` of `AgentRunsProofs` | `IInv`, which the next six rest on |
| `StopsReachTheirRun` | `StopReachesEveryRun` |
| `RestingSessionsAreIdle` | `RestingMeansIdle` |
| `OneSessionIsActive` | `OneActiveWithoutOverlap` |
| `OneClaudePerContainer` | `OneClaude` |
| `ActiveSessionsHaveRuns` | `ActiveHasRun` |
| `DecisionsStand` | `DecisionsStandIfSerial` |

That an event taken in is one that `ReadModel` allows is a fact about the past: the
ids an agent echoes were checked by a route, went through two queues and the consumer, and
meanwhile rows were deleted. `AgentSessionsProofs` proves

    Base == Consistent /\ AgentTypeOK /\ OneHome /\ AnswersBelong /\ EntriesNameRuns

* `OneHome`: everything that carries a session's id (messages, the consumer's work, runs, the
  row) is in one devcontainer, and the id is minted. Deleted or not, a session never
  turns up elsewhere.
* `AnswersBelong`: an answer on its way names a question, or an approval, of its own
  session as long as that session exists.
* `EntriesNameRuns`: the dictionaries name runs of their session that are in the phases
  the code leaves them in; the run a stop terminates is in neither dictionary.

Steps are sorted into `RouteStep`, `ConsumerStep`, run steps and `LinkStep`, each with a
description (`Orders`, `Echoes`, `Pops`, `Empties`, ...) that later lemmas use instead of
the action. `AgentRunsProofs` adds what depends on the order of things:

* `RunsInTurn`: without `resumed_over_stop` and `task_evicted`, a working run has both
  dictionary entries, and for each session a start on its way excludes a run that goes on;
  an end that is recorded or on its way in excludes both; no start follows a stop in the
  queue. This is what makes a stop reach its run and a resting session idle.
* `OrphansAreLapses`: a claude nothing refers to comes from an interrupted stop only.
* `OneLive`: what is live in a container (a start on its way, a living claude) belongs to
  one session, whose row exists. The route's check against a second start reads rows
  only, so this is where the rows and the processes are tied together.
* `ActiveInTurn`: without the lapses `OneActiveWithoutOverlap` names, nothing that
  activates a session comes after its end, in the queue or in the row.
* `RunsAreWired` and `IdleIsQuiet`: while nothing was dropped, a session with no run and no
  start on its way has its end as the last word about it, in the queue or in the row.
* `ResolutionsInTurn`: without `double_answer`, an approval has one resolution, in the
  command queue, in the event queue or in its row.

The first invariant written for `RestingMeansIdle` was stronger than the property, and so was
the one for `StopReachesEveryRun`: both properties now claim more than they did. The former
is about a row that rests, not only one that will still rest when what is in flight has
arrived; the latter survives everything except `resumed_over_stop` and `task_evicted`.

### The runtime channel

| Theorem of `RuntimeChannelProofs` | Property |
|---|---|
| `ChannelInvariant` | `IInv` |
| `ChannelTypes` | `TypeOK` |
| `RegistryIsNeverStale` | `SlotIsTheRegistered` |
| `NoRequestHangs` | `NoHangingRequest` |
| `HandlingIsSerial` | `SerialHandling` |
| `ChannelKeepsTheContract` | `KeepsTheContract` |
| `ChannelDeliversInOrder` | `Delivery!InOrder`, of the channel |
| `EventsComeInOrder` of `OrderedDelivery` | `InOrder`, of whatever keeps the contract |

`IInv` of the channel is `TypeOK`, the two invariants that are inductive next to it
(`SlotIsTheRegistered`, `NoHangingRequest`), `Linked` (a client and the connection of its
session name each other) and, for each connection, `EndsAgree` (what the two ends of a
half-open connection may still hold), `ConsumerAgrees` (the consumer is at work exactly when
a command is in its hands, and is cancelled only when the session is over) and `Flows` (the older
a command, the further it has got). `SerialHandling` follows from the middle one,
the refinement from the last.

The refinement shows for each action which step of `OrderedDelivery` it is:
`Claim`, `Send`, `TakeIn`, `Lose`, `Release` or none. The hard ones are those after which a
coroutine no longer carries what it held (a consumer that dies, a client that hears of the end,
a server that closes): what disappears from `pending` must be its tail, which is what `Flows`
is for. `InOrder` speaks of the past only; its own inductive invariant is

    Ordered == Types /\ Queued /\ Received

where `Queued` puts what is pending after everything taken in, and `Received` bounds
what was taken in by what was sent. Together: events are taken in in the order of their
commands, never twice, across every drop, rejection and restart, whatever exceptions
the handlers raise.

### The container lifecycle

| Theorem of `DevcontainerLifecycleProofs` | Property |
|---|---|
| `LifecycleInvariant` | `IInv` |
| `LifecycleTypes` | `TypeOK` |
| `NoRowIsStuck` | `TransientMeansBusy` |
| `TheLastRowIsTrue` | `StatusIsTrue` |

The status of a row trails the worker by the events in flight. `WillSay(events, status[d], d, st)`
predicts it: the last event about `d` on its way, or the row itself, says `st`. `IInv` is

    TypeOK /\ TransientIsAtWork /\ LastWillBeTrue

A row about which nothing was lost and that will say `starting` or `stopping` has its command
at the CLI; the row that decided a folder last will say `running` only if the container is
up, `stopped` only if it is not. Taking in an event changes no prediction (`TakeInSays`),
emitting one changes that of its row only (`EmitSays`), so a step is about one row.

### The web client's queries

| Theorem of `LiveUpdatesProofs` | Property |
|---|---|
| `LiveInvariant` | `IInv` |
| `LiveTypes` | `TypeOK` |
| `NeverAnotherKey` | `ShowsItsKey` |
| `OpenViewsAreUpToDate` | `OpenMeansUpToDate` |
| `ViewsNeverGoBack` | `NeverGoesBack` |

For any set of views on any page. `WaitsForOne` says that a view waits for one request, made
for the key it has; `NothingAhead` orders snapshot shown, snapshot read and version;
`KeptInformed` is the core: while nothing was missed, each view either has something coming that
makes it fetch (`Coming`: a wanted refetch, an answer to a write, a message in the
queue, or the reopening of the stream) or has asked for, or shows, the newest version
(`Newest`). `OpenMeansUpToDate` is its special case with nothing coming.

The attempt to prove `KeptInformed` failed at first and found an error in the model: the
session panel's resume also refetches the list beside it, which the model had left out,
so with both on a page the invariant was false. The same invariant and the properties were then
checked with two views (panel and list, one key, 245 449 states; with two keys and
`CatchesUp`, 1 032 842 states).

### The answers to claude

| Theorem of `InterventionsProofs` | Property |
|---|---|
| `InterventionInvariant` | `IInv` |
| `InterventionTypes` | `InterventionTypeOK` |
| `NotesTellTheTruth` | `NotesAreTrue` |
| `OneOpeningOneAnswer` | `OneAnswerPerOpening` |
| `InterventionsRefineReadModel` | `ReadModelSpec`: the theorems about the database hold here too |

For any number of users, places, items and answers under way. The invariant has three parts:

    IInv == Base /\ Truth /\ OneAnswer

* `Base` is about the past, as in the session system. A panel copies ids from a row, a
  request copies them from the panel, an answer from the request; meanwhile rows are decided
  and deleted. `About(x, s, d)` is what remains true of such a copy: the item is, or was, one of
  session `s` in devcontainer `d`, and is there as long as the session is. `PanelsBelong`,
  `PostsBelong` and `AnswersBelong` say it of the three carriers; `PanelsListen` says that
  a panel that waits is there, submitting, and waits for the answer to its own target;
  `AllOpened` that whatever can be answered somewhere was opened. From `Base` each step is a step
  of `ReadModel` (`StepOfReadModel`).
* `Truth` is `NotesAreTrue` with what it takes: the reply on its way to the control is
  true as well (`RepliesAreTrue`), and the notification of a decided approval is resolved
  (`DecidedAreSettled`). `UnderWayMoves` has the core: an accepted answer stays under
  way until it settles its item, unless the item is gone with its session. All of it
  fails with the lapses that `NotesAreTrue` names, and only with these.
* `OneAnswer`: an intervention that was opened once and whose requests get through is
  regarded, or asked for, in one place (`OnePlace`); what is asked for there, or offers its
  buttons, is not answered yet (`NotAnsweredYet`).

The actions are reduced to three kinds of change before anything is proved of them:
`PanelMoves` (opened, fetched, clicked, told) and `PostMoves` (made, going on, gone) say what
any step may do to one panel and one request (`NextMoves`), and `TableSteps` what it may do to
the tables. The invariant was checked by TLC on the instance of `interventions` first
(258 878 states without `DeletionIsTheEnd`). `InterventionTypeOK` did not say at first which answers a queue may hold;
it does now (`AnswerFrom`), since the refinement rests on it.

### Only model-checked

Every invariant and every action property that a run checks is also proved. What is left is
liveness: `StopEndsSession`, `StartingIsLeft`, `ReceivedIsHandled`, `Reconnects`,
`TransientEnds`, `CatchesUp`, `ClickIsSettled`. Fairness is out of this prover's reach.

## 5. What is not modelled

* Text: prompts, summaries, result extraction, transcript parsing, names, timestamps.
* Delays: backoff, time-out lengths, grace periods. A time-out is a step that may come
  at any moment.
* Message sizes, except that a transcript may be too long for the connection.
* More than one agent process in a container, and an agent that dies while its container
  and claude live: `AgentSessions` has one agent per devcontainer, which ends with
  `ContainerStops` only. What `lifecycle_one_agent` shows is not carried over to it.
* In `RuntimeChannel` the number and the time of a handler's events: one event a command,
  while the worker sends two and the runs of the agent report from tasks of their own.
  Those are the events of `DevcontainerLifecycle` and `AgentSessions`.
* In `DevcontainerLifecycle` a command without a `local_path`, which the routes never send,
  and the moment between the CLI's effect on the container and its report.
* A queue of the SSE broadcaster whose client is gone without the server noticing.
* In `LiveUpdates` several tabs; in `Interventions` failing fetches and the list beside
  the detail. Rendering and the mock backend.
* Command-line client, configuration, health and diagnostics: reads and single requests.

## 6. Plan

1. *Done*: `Reducer`, `ReadModel`, `AgentSessions`, `RuntimeChannel`,
   `DevcontainerLifecycle`, `LiveUpdates`; the theorems about `ReadModel`.
2. *Done*: `OrderedDelivery`, its theorem, and the run that shows `RuntimeChannel` to
   implement it; `Interventions`; rows that share a folder.
3. *Done*: the theorems about `RuntimeChannel`, its refinement of `OrderedDelivery`,
   `DevcontainerLifecycle`, `LiveUpdates` and `AgentSessions`, its refinement of
   `ReadModel` included.
4. *Done*: the theorems about `Interventions` and that it writes the database as `ReadModel`
   allows.
5. The reconnect backoff, once there is a use for time.
