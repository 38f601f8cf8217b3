--------------------------- MODULE AgentSessions ---------------------------
(***************************************************************************)
(* An agent-session from the user's click to the claude process and back:  *)
(* the Control Plane's session routes (ReadModel plus the command each one *)
(* sends), the runtime channel of each devcontainer, and the agent's       *)
(* AgentCommandHandler with the claude processes it runs.                  *)
(*                                                                         *)
(* A channel is two FIFO queues that live as long as one connection: the   *)
(* client's command queue is in memory and per connection, and an event    *)
(* is sent on the WebSocket its command came in on, so a drop loses both   *)
(* queues and silences the runs that were started over the old connection. *)
(* Both ends see a drop at once here; RuntimeChannel separates them.       *)
(*                                                                         *)
(* The agent is one asyncio loop: a step of a coroutine between two awaits *)
(* is one action.  The consumer handles one command at a time; every claude*)
(* run has its own task.                                                   *)
(***************************************************************************)
EXTENDS ReadModel, Naturals, Sequences

CONSTANTS
    Runs,           \* pool of claude processes, one per spawn
    Asks,           \* interventions claude may ask for (none with bypassPermissions)
    Reported,       \* what the host worker may report of a container
    MaxInFlight     \* messages a queue holds before its sender waits

ASSUME RunsAreNotNone == None \notin Runs
ASSUME AsksAreInterventions == Asks \subseteq {"approval_requested", "agent_asked_question"}
ASSUME ReportedAreDevcontainerEvents == Reported \subseteq DevcontainerEventTypes
ASSUME QueuesHoldSomething == MaxInFlight \in Nat \ {0}

VARIABLES
    link,       \* devcontainer -> its agent holds a registered connection
    cmds,       \* devcontainer -> commands sent and not yet taken by the consumer
    evts,       \* devcontainer -> events emitted and not yet taken in
    busy,       \* devcontainer -> the command the consumer is in the middle of
    runs,       \* run -> [dc, session, phase, wired]
    processes,  \* session -> run: AgentCommandHandler._processes
    tasks,      \* session -> run: AgentCommandHandler._session_tasks
    lapses      \* history: which of the known ways to lose track have happened

agvars == <<link, cmds, evts, busy, runs, processes, tasks>>
vars == <<rmvars, agvars, lapses>>

\* The commands of a session's life, and the two a user answers claude with.
LifeCommands == {"start_agent_session", "resume_agent_session", "stop_agent_session"}

Command(type, d, s) ==
    [type |-> type, dc |-> d, session |-> s,
     approval |-> None, resolution |-> None, inbox |-> None]

InputCommand(d, s, i) == [Command("send_user_input", d, s) EXCEPT !.inbox = i]

ResolveCommand(d, s, a, r) ==
    [Command("resolve_approval", d, s) EXCEPT !.approval = a, !.resolution = r]

\* What the routes send to the agent of d, and what that agent reports.
CommandTo(d) ==
    {Command(type, d, s) : type \in LifeCommands, s \in Sessions}
        \cup {InputCommand(d, s, i) : s \in Sessions, i \in InboxEvents}
        \cup {ResolveCommand(d, s, a, r) : s \in Sessions, a \in Approvals, r \in Decided}

EventFrom(d) ==
    {SessionEvent(type, d, s) : type \in PlainSessionEventTypes, s \in Sessions}
        \cup {UserInputSent(d, s, i) : s \in Sessions, i \in InboxEvents}
        \cup {ApprovalResolved(d, s, a, r) : s \in Sessions, a \in Approvals, r \in Decided}

\* What the consumer of d is in the middle of.
Work(d) == [step : {"spawn"}, command : CommandTo(d), run : {None}]
            \cup [step : {"stop"}, command : CommandTo(d), run : Optional(Runs)]

\* Having nothing to do is not a kind of work.
ASSUME NoneIsNoWork == \A d \in Devcontainers : None \notin Work(d)

(***************************************************************************)
(* Phases of a run:                                                        *)
(*   unused              not spawned yet                                   *)
(*   working             claude runs, its task awaits process.wait()       *)
(*   dying               task cancelled by stop, terminate() under way     *)
(*   killed              terminated, but its task still awaits wait()      *)
(*   orphan              claude runs and nothing in the agent refers to it *)
(*   reported            wait() returned, the task is in emit              *)
(*   gone                nothing left                                      *)
(***************************************************************************)
Phase == {"unused", "working", "dying", "killed", "orphan", "reported", "gone"}

\* A claude operating-system process exists.
Alive(r) == runs[r].phase \in {"working", "dying", "orphan"}

Lapse == {"dropped",            \* a connection was lost, with what was in flight
          "unreported",         \* a run ended by an exception and told nobody
          "resumed_over_stop",  \* resume accepted with a stop of that session in flight
          "stop_interrupted",   \* connection lost inside terminate(): claude survived
          "task_evicted",       \* a run's done callback popped its successor's entry
          "late_answer",        \* approval_resolved emitted after its run was over
          "double_answer",      \* two resolutions of one approval in flight
          "active_deleted"}     \* the row of an active session was deleted

\* A run: none yet, or one that was spawned for a session.
Run == [dc : {None}, session : {None}, phase : {"unused"}, wired : {FALSE}]
        \cup [dc : Devcontainers, session : Sessions, phase : Phase \ {"unused"}, wired : BOOLEAN]

AgentTypeOK ==
    /\ link \in [Devcontainers -> BOOLEAN]
    /\ DOMAIN cmds = Devcontainers /\ DOMAIN evts = Devcontainers /\ DOMAIN busy = Devcontainers
    /\ \A d \in Devcontainers :
        /\ cmds[d] \in Seq(CommandTo(d)) /\ Len(cmds[d]) <= MaxInFlight
        /\ evts[d] \in Seq(EventFrom(d)) /\ Len(evts[d]) <= MaxInFlight
        /\ busy[d] \in Optional(Work(d))
    /\ runs \in [Runs -> Run]
    /\ processes \in [Sessions -> Optional(Runs)]
    /\ tasks \in [Sessions -> Optional(Runs)]
    /\ lapses \subseteq Lapse

Init ==
    /\ ReadModelInit
    /\ link = [d \in Devcontainers |-> FALSE]
    /\ cmds = [d \in Devcontainers |-> <<>>]
    /\ evts = [d \in Devcontainers |-> <<>>]
    /\ busy = [d \in Devcontainers |-> None]
    /\ runs = [r \in Runs |-> [dc |-> None, session |-> None,
                               phase |-> "unused", wired |-> FALSE]]
    /\ processes = [s \in Sessions |-> None]
    /\ tasks = [s \in Sessions |-> None]
    /\ lapses = {}

-----------------------------------------------------------------------------
\* Messages under way.

InFlight(queue, test(_)) == \E k \in DOMAIN queue : test(queue[k])

\* A stop of s the read model has not seen the end of.
StopUnderWay(d, s) ==
    \/ InFlight(cmds[d], LAMBDA c : c.type = "stop_agent_session" /\ c.session = s)
    \/ busy[d] # None /\ busy[d].step = "stop" /\ busy[d].command.session = s
    \/ InFlight(evts[d], LAMBDA e : e.type = "session_stopped" /\ e.session = s)

\* A resolution of a the read model has not seen yet.
AnswerUnderWay(d, a) ==
    \/ InFlight(cmds[d], LAMBDA c : c.type = "resolve_approval" /\ c.approval = a)
    \/ InFlight(evts[d], LAMBDA e : e.type = "approval_resolved" /\ e.approval = a)

-----------------------------------------------------------------------------
\* Session routes: validate, write the row if there is one to write, send the
\* command.  send_command finds the connection the check saw (no await between
\* them); a command sent into a connection that is about to drop is lost by Drop.

SendCommand(c) ==
    /\ link[c.dc]
    /\ Len(cmds[c.dc]) < MaxInFlight
    /\ cmds' = [cmds EXCEPT ![c.dc] = Append(@, c)]
    /\ UNCHANGED <<link, evts, busy, runs, processes, tasks>>

StartAgentSession(d, s) ==
    /\ StartRow(d, s)
    /\ SendCommand(Command("start_agent_session", d, s))
    /\ UNCHANGED lapses

ResumeAgentSession(s) ==
    /\ ResumeRow(s)
    /\ SendCommand(Command("resume_agent_session", sessions[s].dc, s))
    /\ lapses' = lapses \cup {"resumed_over_stop" : x \in {s} \cap
                                {y \in Sessions : StopUnderWay(sessions[s].dc, y)}}

StopAgentSession(s) ==
    /\ IsActive(s)
    /\ SendCommand(Command("stop_agent_session", sessions[s].dc, s))
    /\ UNCHANGED <<rmvars, lapses>>

SendUserInput(s, i) ==
    /\ IsActive(s)
    /\ inbox[i] # None
    /\ inbox[i].session = s
    /\ inbox[i].type = "question"
    /\ inbox[i].status # "resolved"
    /\ SendCommand(InputCommand(sessions[s].dc, s, i))
    /\ UNCHANGED <<rmvars, lapses>>

\* Mutant: the approval need not be pending.
ResolveDecidedApproval(s, a, r) ==
    /\ IsActive(s)
    /\ approvals[a] # None
    /\ approvals[a].session = s
    /\ SendCommand(ResolveCommand(sessions[s].dc, s, a, r))
    /\ lapses' = IF AnswerUnderWay(sessions[s].dc, a)
                 THEN lapses \cup {"double_answer"} ELSE lapses
    /\ UNCHANGED rmvars

\* Mutant: the approval need not belong to the session in the URL.
ResolveForeignApproval(s, a, r) ==
    /\ IsActive(s)
    /\ approvals[a] # None
    /\ approvals[a].status = "pending"
    /\ SendCommand(ResolveCommand(sessions[s].dc, s, a, r))
    /\ UNCHANGED <<rmvars, lapses>>

ResolveApproval(s, a, r) ==
    /\ IsActive(s)
    /\ approvals[a] # None
    /\ approvals[a].session = s
    /\ approvals[a].status = "pending"
    /\ SendCommand(ResolveCommand(sessions[s].dc, s, a, r))
    /\ lapses' = IF AnswerUnderWay(sessions[s].dc, a)
                 THEN lapses \cup {"double_answer"} ELSE lapses
    /\ UNCHANGED rmvars

\* The threaded delete of ReadModel, with the lapse it may commit.
DeleteAgentSession(t) ==
    /\ DeleteSessionCommit(t)
    /\ lapses' = IF IsActive(requests[t].id) THEN lapses \cup {"active_deleted"} ELSE lapses
    /\ UNCHANGED agvars

\* The receive loop of an agent connection takes the next event in.
TakeInEvent(d) ==
    /\ evts[d] # <<>>
    /\ Intake(Head(evts[d]))
    /\ evts' = [evts EXCEPT ![d] = Tail(@)]
    /\ UNCHANGED <<link, cmds, busy, runs, processes, tasks, lapses>>

-----------------------------------------------------------------------------
\* The agent's consumer.

\* emit() on the current connection: ws.send waits while the socket is full.
Emit(d, e) ==
    /\ Len(evts[d]) < MaxInFlight
    /\ evts' = [evts EXCEPT ![d] = Append(@, e)]

\* The consumer takes a command of one of the given types from its queue.
Take(d, types) ==
    /\ busy[d] = None
    /\ cmds[d] # <<>>
    /\ Head(cmds[d]).type \in types
    /\ cmds' = [cmds EXCEPT ![d] = Tail(@)]

\* Mutant: an event type the Control Plane does not know.
HandleStartMisnamed(d) ==
    LET c == Head(cmds[d]) IN
    /\ Take(d, {"start_agent_session", "resume_agent_session"})
    /\ Emit(d, SessionEvent("agent_session_resumed", d, c.session))
    /\ busy' = [busy EXCEPT ![d] = [step |-> "spawn", command |-> c, run |-> None]]
    /\ UNCHANGED <<rmvars, link, runs, processes, tasks, lapses>>

\* Mutant: the start is not announced.
HandleStartSilently(d) ==
    LET c == Head(cmds[d]) IN
    /\ Take(d, {"start_agent_session", "resume_agent_session"})
    /\ busy' = [busy EXCEPT ![d] = [step |-> "spawn", command |-> c, run |-> None]]
    /\ UNCHANGED <<rmvars, link, evts, runs, processes, tasks, lapses>>

\* _start_agent_session announces the session before it has a process ...
HandleStart(d) ==
    LET c == Head(cmds[d]) IN
    /\ Take(d, {"start_agent_session", "resume_agent_session"})
    /\ Emit(d, SessionEvent("agent_session_started", d, c.session))
    /\ busy' = [busy EXCEPT ![d] = [step |-> "spawn", command |-> c, run |-> None]]
    /\ UNCHANGED <<rmvars, link, runs, processes, tasks, lapses>>

\* ... then starts the run and overwrites both dict entries.
Spawn(d, r) ==
    LET s == busy[d].command.session IN
    /\ busy[d] # None
    /\ busy[d].step = "spawn"
    /\ runs[r].phase = "unused"
    /\ runs' = [runs EXCEPT ![r] = [dc |-> d, session |-> s,
                                    phase |-> "working", wired |-> TRUE]]
    /\ processes' = [processes EXCEPT ![s] = r]
    /\ tasks' = [tasks EXCEPT ![s] = r]
    /\ busy' = [busy EXCEPT ![d] = None]
    /\ UNCHANGED <<rmvars, link, cmds, evts, lapses>>

\* Mutant: stopped is announced before the process is terminated.
HandleStopEarly(d) ==
    LET c == Head(cmds[d])
        r == processes[c.session]
    IN
    /\ Take(d, {"stop_agent_session"})
    /\ processes' = [processes EXCEPT ![c.session] = None]
    /\ tasks' = [tasks EXCEPT ![c.session] = None]
    /\ runs' = IF r # None /\ tasks[c.session] = r
               THEN [runs EXCEPT ![r].phase = "dying"] ELSE runs
    /\ Emit(d, SessionEvent("session_stopped", d, c.session))
    /\ busy' = [busy EXCEPT ![d] = [step |-> "stop", command |-> c, run |-> r]]
    /\ UNCHANGED <<rmvars, link, lapses>>

\* _stop_agent_session pops both entries; with a process and a task it cancels
\* the task (whose own pops then find nothing) ...
HandleStop(d) ==
    LET c == Head(cmds[d])
        r == processes[c.session]
    IN
    /\ Take(d, {"stop_agent_session"})
    /\ processes' = [processes EXCEPT ![c.session] = None]
    /\ tasks' = [tasks EXCEPT ![c.session] = None]
    /\ runs' = IF r # None /\ tasks[c.session] = r
               THEN [runs EXCEPT ![r].phase = "dying"] ELSE runs
    /\ busy' = [busy EXCEPT ![d] = [step |-> "stop", command |-> c, run |-> r]]
    /\ UNCHANGED <<rmvars, link, evts, lapses>>

\* Mutant: terminate() has no effect, as ClaudeProcess fakes have it.
TerminatedNot(phase) == {phase}

\* What terminate() may leave of a run: nothing; of one whose task was not cancelled, a
\* task still in wait(), or claude itself if wait() has not created its process yet.
Terminated(phase) ==
    IF phase = "dying" THEN {"gone"}
    ELSE IF phase = "working" THEN {"killed", "working"} ELSE {phase}

\* The run r, if the stop found one, is terminated.
TerminateRun(r) ==
    IF r = None THEN UNCHANGED runs
    ELSE \E left \in Terminated(runs[r].phase) : runs' = [runs EXCEPT ![r].phase = left]

\* Mutant: nothing is reported when there was no process to stop.
FinishStopIfFound(d) ==
    LET r == busy[d].run IN
    /\ busy[d] # None
    /\ busy[d].step = "stop"
    /\ IF r = None THEN UNCHANGED <<runs, evts>>
       ELSE /\ TerminateRun(r)
            /\ Emit(d, SessionEvent("session_stopped", d, busy[d].command.session))
    /\ busy' = [busy EXCEPT ![d] = None]
    /\ UNCHANGED <<rmvars, link, cmds, processes, tasks, lapses>>

\* Mutant: the cancelled run is expected to report itself.
FinishStopSilently(d) ==
    LET r == busy[d].run IN
    /\ busy[d] # None
    /\ busy[d].step = "stop"
    /\ TerminateRun(r)
    /\ busy' = [busy EXCEPT ![d] = None]
    /\ UNCHANGED <<rmvars, link, cmds, evts, processes, tasks, lapses>>

\* ... terminates the process and reports, process or no process.
FinishStop(d) ==
    LET r == busy[d].run IN
    /\ busy[d] # None
    /\ busy[d].step = "stop"
    /\ TerminateRun(r)
    /\ Emit(d, SessionEvent("session_stopped", d, busy[d].command.session))
    /\ busy' = [busy EXCEPT ![d] = None]
    /\ UNCHANGED <<rmvars, link, cmds, processes, tasks, lapses>>

\* _send_user_input and _resolve_approval echo the command as an event.
HandleUserInput(d) ==
    LET c == Head(cmds[d]) IN
    /\ Take(d, {"send_user_input"})
    /\ Emit(d, UserInputSent(d, c.session, c.inbox))
    /\ UNCHANGED <<rmvars, link, busy, runs, processes, tasks, lapses>>

HandleResolveApproval(d) ==
    LET c == Head(cmds[d]) IN
    /\ Take(d, {"resolve_approval"})
    /\ Emit(d, ApprovalResolved(d, c.session, c.approval, c.resolution))
    /\ lapses' = IF \E r \in Runs : runs[r].phase = "working" /\ runs[r].session = c.session
                 THEN lapses ELSE lapses \cup {"late_answer"}
    /\ UNCHANGED <<rmvars, link, busy, runs, processes, tasks>>

-----------------------------------------------------------------------------
\* The runs.

\* The report a run makes of itself; an exception out of wait() makes none.
RunReports == {"session_completed", "session_failed", None}

\* process.wait() returns or raises: `finally` pops whatever process the session
\* has by now, and the report takes its place in the send order of the connection
\* its command came in on, if that connection is still there.
RunExits(r) ==
    LET run == runs[r] IN
    /\ run.phase \in {"working", "killed"}
    /\ processes' = [processes EXCEPT ![run.session] = None]
    /\ runs' = [runs EXCEPT ![r].phase = "reported"]
    /\ \E type \in RunReports :
        /\ IF type # None /\ run.wired
           THEN Emit(run.dc, SessionEvent(type, run.dc, run.session))
           ELSE UNCHANGED evts
        /\ lapses' = IF type = None THEN lapses \cup {"unreported"} ELSE lapses
    /\ UNCHANGED <<rmvars, link, cmds, busy, tasks>>

\* Mutant: the callback pops the session's process instead of its task.
RunReturnsPopsProcess(r) ==
    /\ runs[r].phase = "reported"
    /\ runs' = [runs EXCEPT ![r].phase = "gone"]
    /\ processes' = [processes EXCEPT ![runs[r].session] = None]
    /\ UNCHANGED <<rmvars, link, cmds, evts, busy, tasks, lapses>>

\* emit returns, which may be any time after the event has been received (the
\* WebSocket library decides how long a sender waits), and the task is done: its
\* callback pops whatever task the session has by now.
RunReturns(r) ==
    /\ runs[r].phase = "reported"
    /\ runs' = [runs EXCEPT ![r].phase = "gone"]
    /\ tasks' = [tasks EXCEPT ![runs[r].session] = None]
    /\ lapses' = IF tasks[runs[r].session] \in {r, None} THEN lapses
                 ELSE lapses \cup {"task_evicted"}
    /\ UNCHANGED <<rmvars, link, cmds, evts, busy, processes>>

OrphanExits(r) ==
    /\ runs[r].phase = "orphan"
    /\ runs' = [runs EXCEPT ![r].phase = "gone"]
    /\ UNCHANGED <<rmvars, link, cmds, evts, busy, processes, tasks, lapses>>

\* Claude asks the user for something (external: nothing in the agent sends
\* these today, the Control Plane is ready for them).
Ask(r, type) ==
    /\ runs[r].phase = "working"
    /\ runs[r].wired
    /\ Emit(runs[r].dc, SessionEvent(type, runs[r].dc, runs[r].session))
    /\ UNCHANGED <<rmvars, link, cmds, busy, runs, processes, tasks, lapses>>

-----------------------------------------------------------------------------
\* Connections and containers.

\* Registration does not look at the database, only at the slot.
AgentConnects(d) ==
    /\ ~link[d]
    /\ link' = [link EXCEPT ![d] = TRUE]
    /\ UNCHANGED <<rmvars, cmds, evts, busy, runs, processes, tasks, lapses>>

\* The channel of d is gone with everything in it; the consumer is cancelled.
CloseChannel(d) ==
    /\ link' = [link EXCEPT ![d] = FALSE]
    /\ cmds' = [cmds EXCEPT ![d] = <<>>]
    /\ evts' = [evts EXCEPT ![d] = <<>>]
    /\ busy' = [busy EXCEPT ![d] = None]

\* What cancelling the consumer makes of the run it was stopping: SIGTERM was
\* sent, the wait for it was not finished and there is no SIGKILL.
Interrupted(phase) ==
    IF phase = "dying" THEN {"gone", "orphan"}
    ELSE IF phase = "working" THEN {"killed", "working"} ELSE {phase}

\* The connection drops.  Runs started over it go on and report into the void.
Drop(d) ==
    LET stopping == {r \in Runs : busy[d] # None /\ busy[d].run = r} IN
    /\ link[d]
    /\ CloseChannel(d)
    /\ \E left \in Phase :
        /\ \A r \in stopping : left \in Interrupted(runs[r].phase)
        /\ stopping = {} => left = "gone"
        /\ runs' = [r \in Runs |->
                      [runs[r] EXCEPT !.wired = @ /\ runs[r].dc # d,
                                      !.phase = IF r \in stopping THEN left ELSE @]]
        /\ lapses' = lapses \cup {"dropped"} \cup
                      (IF left \in {"orphan", "working"} THEN {"stop_interrupted"} ELSE {})
    /\ UNCHANGED <<rmvars, processes, tasks>>

\* The container stops (the worker's `engine stop`, or on its own): agent and
\* claude processes die with it, and the agent that connects next knows nothing.
ContainerStops(d) ==
    LET here(r) == r # None /\ runs[r].dc = d IN
    /\ CloseChannel(d)
    /\ runs' = [r \in Runs |-> IF here(r) THEN [runs[r] EXCEPT !.phase = "gone"] ELSE runs[r]]
    /\ processes' = [s \in Sessions |-> IF here(processes[s]) THEN None ELSE processes[s]]
    /\ tasks' = [s \in Sessions |-> IF here(tasks[s]) THEN None ELSE tasks[s]]
    /\ lapses' = lapses \cup {"dropped"}
    /\ UNCHANGED rmvars

\* The host worker reports on the container over its own channel: here it may
\* report anything at any time, DevcontainerLifecycle says what it does report.
WorkerReports(d) ==
    /\ \E type \in Reported : Intake(DevcontainerEvent(type, d))
    /\ UNCHANGED <<agvars, lapses>>

-----------------------------------------------------------------------------
Route ==
    \/ \E d \in Devcontainers, s \in Sessions : StartAgentSession(d, s)
    \/ \E s \in Sessions : ResumeAgentSession(s) \/ StopAgentSession(s)
    \/ \E s \in Sessions, i \in InboxEvents : SendUserInput(s, i)
    \/ \E s \in Sessions, a \in Approvals, r \in Decided : ResolveApproval(s, a, r)
    \/ \E t \in Threads, s \in Sessions :
          DeleteSessionCheck(t, s) /\ UNCHANGED <<agvars, lapses>>
    \/ \E t \in Threads : DeleteAgentSession(t)
    \/ \E d \in Devcontainers :
          (CreateDevcontainer(d) \/ DeleteDevcontainer(d)) /\ UNCHANGED <<agvars, lapses>>

Consume(d) ==
    \/ HandleStart(d) \/ HandleStop(d) \/ FinishStop(d)
    \/ HandleUserInput(d) \/ HandleResolveApproval(d)
    \/ \E r \in Runs : Spawn(d, r)

RunStep(r) ==
    \/ RunExits(r) \/ RunReturns(r) \/ OrphanExits(r)
    \/ \E type \in Asks : Ask(r, type)

Next ==
    \/ Route
    \/ \E d \in Devcontainers :
        \/ TakeInEvent(d) \/ Consume(d)
        \/ AgentConnects(d) \/ Drop(d) \/ ContainerStops(d) \/ WorkerReports(d)
    \/ \E r \in Runs : RunStep(r)

Spec == Init /\ [][Next]_vars

\* Both event loops keep running: the receive loop of a connection takes in what
\* arrived, and the agent's consumer takes up and finishes its commands (every
\* await in a handler is a send or terminate(), which is bounded by its grace
\* period).  Nothing is assumed of users, of claude or of the network.
FairSpec ==
    /\ Spec
    /\ \A d \in Devcontainers : WF_vars(TakeInEvent(d)) /\ WF_vars(Consume(d))

-----------------------------------------------------------------------------
\* Properties.  The read model and the container are far apart: what can be
\* asked is that they agree once the events in flight have been taken in.  The
\* code breaks that agreement in a few ways, each recorded in `lapses`; a
\* property says which of them it does not survive, and holds without them.

\* The status s will show when every event now in flight has been projected.
Settled(s) ==
    LET queue == evts[sessions[s].dc]
        about == {k \in DOMAIN queue : queue[k].session = s
                                         /\ queue[k].type \in DOMAIN SessionStatusAfter}
    IN IF about = {} THEN sessions[s].status
       ELSE LET last == CHOOSE k \in about : \A j \in about : j <= k
            IN SessionStatusAfter[queue[last].type]

\* s was accepted for a run that its agent has not spawned yet.
RunPending(s) ==
    \E d \in Devcontainers :
        \/ InFlight(cmds[d], LAMBDA c : c.session = s
                /\ c.type \in {"start_agent_session", "resume_agent_session"})
        \/ busy[d] # None /\ busy[d].step = "spawn" /\ busy[d].command.session = s

\* At most one agent-session is active per devcontainer (CONTEXT.md).
OneActive ==
    \A s, t \in Sessions :
        (IsActive(s) /\ IsActive(t) /\ sessions[s].dc = sessions[t].dc) => s = t

\* Two sessions of a devcontainer are active only after a resume was accepted
\* while a stop of that session was in flight, a resolution reached the agent
\* after its run ended, or a stop could not cancel the run's task and the run
\* reported on its own: an event of an earlier run then lands on a later one.
OneActiveWithoutOverlap ==
    lapses \cap {"resumed_over_stop", "late_answer", "task_evicted"} = {} => OneActive

\* At most one claude process runs per container (ADR-0008), unless the read
\* model lost sight of one: a stop landed on the wrong run, missed its run or was cut
\* short by a drop, or the row of a running session was deleted.
OneClaude ==
    lapses \cap {"resumed_over_stop", "stop_interrupted", "task_evicted", "active_deleted"} = {} =>
        \A q, r \in Runs : (Alive(q) /\ Alive(r) /\ runs[q].dc = runs[r].dc) => q = r

\* A session that has come to rest has no claude process left: `stopped` means
\* terminated and `completed` means exited, even over a reconnected channel and
\* whatever else is in flight.
RestingMeansIdle ==
    lapses \cap {"resumed_over_stop", "stop_interrupted", "task_evicted"} = {} =>
        \A s \in Sessions : IsResting(s) => \A r \in Runs : Alive(r) => runs[r].session # s

\* A stop finds the process it is meant for: every run claude is working on is
\* the one its session's dict entry names, whatever earlier runs of the session
\* popped on their way out.  Once a run has lost its task entry it may outlive its
\* own stop, and pop its successor's process when it ends.
StopReachesEveryRun ==
    lapses \cap {"resumed_over_stop", "task_evicted"} = {} =>
        \A r \in Runs : runs[r].phase = "working" => processes[runs[r].session] = r

\* While nothing is lost, a session is never shown active with nothing behind it:
\* there is a run, or a command on its way to start one, or the run's report.
ActiveHasRun ==
    lapses \cap {"dropped", "unreported", "late_answer"} = {} =>
        \A s \in Sessions :
            (Exists(sessions, s) /\ Settled(s) \in Active) =>
                \/ RunPending(s)
                \/ \E r \in Runs : runs[r].session = s
                        /\ runs[r].phase \in {"working", "dying", "killed"}

\* A decision is only ever overturned by a second resolution that was accepted
\* while the first was still in flight.
DecisionsStandIfSerial ==
    [][\A a \in Approvals :
          (/\ "double_answer" \notin lapses
           /\ approvals[a] # None /\ approvals[a].status \in Decided /\ approvals'[a] # None)
          => approvals'[a].status = approvals[a].status]_vars

\* The whole system writes the database only in ways ReadModel allows: the ids the
\* agent echoes still belong together when its events arrive, so what ReadModel
\* guarantees for arbitrary runtimes holds here.
ImplementsReadModel == ReadModelSpec

\* The consumer holds a start it cannot spawn because the bound on Runs is reached.
OutOfRuns(d) ==
    /\ busy[d] # None /\ busy[d].step = "spawn"
    /\ \A r \in Runs : runs[r].phase # "unused"

\* A stop accepted over a connection that stays up brings the session to rest,
\* whatever the agent knows of it: this is how a user frees a session whose end
\* was lost.
StopEndsSession ==
    \A d \in Devcontainers, s \in Sessions :
        InFlight(cmds[d], LAMBDA c : c.type = "stop_agent_session" /\ c.session = s)
            ~> (~IsActive(s) \/ ~link[d] \/ OutOfRuns(d))

\* A session does not stay in `starting` while its connection holds: the start is
\* announced, and the announcement projected, before anything else about it.
StartingIsLeft ==
    \A d \in Devcontainers, s \in Sessions :
        (RunPending(s) /\ IsActive(s) /\ sessions[s].dc = d)
            ~> (~Exists(sessions, s) \/ sessions[s].status # "starting"
                  \/ ~link[d] \/ OutOfRuns(d))
=============================================================================
