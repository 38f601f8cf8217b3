----------------------- MODULE DevcontainerLifecycle -----------------------
(***************************************************************************)
(* A devcontainer from the user's start or stop to the container and back: *)
(* the lifecycle routes, the worker's channel, and the Host Runtime        *)
(* Worker's handler, which runs one command at a time to its end with the  *)
(* Dev Container CLI and then launches an agent in the container.          *)
(*                                                                         *)
(* The container is the folder's, not the row's: `devcontainer up` and the *)
(* label filter of `stop` go by local_path, and nothing makes local_path   *)
(* unique.  The channel is the one RuntimeChannel describes: a drop loses  *)
(* what is in it, and cancels the handler.  A CLI process whose handler    *)
(* was cancelled is not killed and may run on.                             *)
(*                                                                         *)
(* PATCH, which lets a client write any status, is left to ReadModel.      *)
(***************************************************************************)
EXTENDS Reducer, Naturals, Sequences, FiniteSets

CONSTANTS
    Devcontainers,      \* rows
    Folders, FolderOf,  \* local_path of each row
    MaxInFlight,        \* messages a queue holds
    MaxAbandoned,       \* CLI processes left running by drops at one time
    MaxAgents           \* agent processes a container is followed with

ASSUME FoldersOfRows == FolderOf \in [Devcontainers -> Folders]
ASSUME LifecycleBounds == MaxInFlight \in Nat \ {0} /\ MaxAbandoned \in Nat /\ MaxAgents \in Nat \ {0}

VARIABLES
    status,         \* row -> devcontainers.status, None once deleted
    container,      \* folder -> its container is up
    agents,         \* row -> agent processes started for it that still run
    linked,         \* the worker holds a registered connection
    dead,           \* an exception has ended the consumer of this connection
    commands,       \* lifecycle commands on their way to the worker
    events,         \* events on their way to the Control Plane
    work,           \* the worker's command under way: [op, dc, step], or None
    abandoned,      \* CLI processes whose handler was cancelled: records of Work
    lost,           \* history: rows about which something was lost, until a new command
    last            \* history: folder -> the row whose command decided its container
                    \* last, None when something else may have or the report was lost

fleet   == <<container, agents>>
channel == <<linked, dead, commands, events>>
history == <<lost, last>>
vars == <<status, fleet, channel, work, abandoned, history>>

Operation == {"start", "stop"}
Lifecycle == [op : Operation, dc : Devcontainers]
Work == [op : Operation, dc : Devcontainers, step : {"running", "launching"}]
Event == [type : DevcontainerEventTypes, dc : Devcontainers]

ASSUME NoneIsNothing == None \notin Devcontainers \cup DevcontainerStatus \cup Work

TypeOK ==
    /\ status \in [Devcontainers -> DevcontainerStatus \cup {None}]
    /\ container \in [Folders -> BOOLEAN]
    /\ agents \in [Devcontainers -> 0 .. MaxAgents]
    /\ linked \in BOOLEAN /\ dead \in BOOLEAN
    /\ commands \in Seq(Lifecycle) /\ Len(commands) <= MaxInFlight
    /\ events \in Seq(Event) /\ Len(events) <= MaxInFlight
    /\ work \in Work \cup {None}
    /\ abandoned \subseteq Work
    /\ lost \subseteq Devcontainers
    /\ last \in [Folders -> Devcontainers \cup {None}]

Init ==
    /\ status = [d \in Devcontainers |-> "created"]
    /\ container = [f \in Folders |-> FALSE]
    /\ agents = [d \in Devcontainers |-> 0]
    /\ linked = FALSE /\ dead = FALSE
    /\ commands = <<>>
    /\ events = <<>>
    /\ work = None
    /\ abandoned = {}
    /\ lost = {}
    /\ last = [f \in Folders |-> None]

-----------------------------------------------------------------------------
\* Routes.  The read model is not written: the status follows with the events, so
\* a second click before the first event is accepted too.

StartAllowedFrom == {"created", "stopped", "error"}
StopAllowedFrom  == {"running", "error"}

Dispatch(op, d, allowedFrom) ==
    /\ status[d] \in allowedFrom
    /\ linked
    /\ Len(commands) < MaxInFlight
    /\ commands' = Append(commands, [op |-> op, dc |-> d])
    /\ UNCHANGED <<status, fleet, linked, dead, events, work, abandoned, history>>

StartDevcontainer(d) == Dispatch("start", d, StartAllowedFrom)
StopDevcontainer(d)  == Dispatch("stop", d, StopAllowedFrom)

\* Deleting a row asks nothing of the worker.
DeleteDevcontainer(d) ==
    /\ status[d] # None
    /\ status' = [status EXCEPT ![d] = None]
    /\ UNCHANGED <<fleet, channel, work, abandoned, history>>

\* Event intake; an event about a deleted row fails its foreign key.
TakeInEvent ==
    /\ events # <<>>
    /\ events' = Tail(events)
    /\ LET e == Head(events) IN
       status' = [status EXCEPT ![e.dc] =
                    IF @ = None THEN None ELSE DevcontainerStatusAfter[e.type]]
    /\ UNCHANGED <<fleet, linked, dead, commands, work, abandoned, history>>

-----------------------------------------------------------------------------
\* The worker's handler: DevcontainerCommandHandler._dispatch.

PreEvent     == [start |-> "devcontainer_starting", stop |-> "devcontainer_stopping"]
SuccessEvent == [start |-> "devcontainer_started",  stop |-> "devcontainer_stopped"]

Emit(type, d) ==
    /\ Len(events) < MaxInFlight
    /\ events' = Append(events, [type |-> type, dc |-> d])

\* Announce the command, then run the CLI.
TakeCommand ==
    LET c == Head(commands) IN
    /\ linked
    /\ ~dead
    /\ work = None
    /\ commands # <<>>
    /\ commands' = Tail(commands)
    /\ Emit(PreEvent[c.op], c.dc)
    /\ work' = [op |-> c.op, dc |-> c.dc, step |-> "running"]
    /\ lost' = lost \ {c.dc}
    /\ UNCHANGED <<status, fleet, linked, dead, abandoned, last>>

\* The effect of the CLI on the container of a folder, when it is up already or not:
\* `up` reuses a running container, `stop` takes every process in it along.
Container(f, up) ==
    /\ container' = [container EXCEPT ![f] = up]
    /\ agents' = [d \in Devcontainers |-> IF FolderOf[d] = f /\ ~up THEN 0 ELSE agents[d]]

\* What the worker's command did to its container is what its row will say.
Decides(d) == last' = [last EXCEPT ![FolderOf[d]] = d]

\* A failed command may have done its work, or none of it.
Outcomes(op, f) == {container[f], op = "start"}

\* Mutant: success is reported for the command, whatever the CLI returned.
CommandFailsUnnoticed ==
    LET d == work.dc IN
    /\ work # None
    /\ work.step = "running"
    /\ \E up \in Outcomes(work.op, FolderOf[d]) : Container(FolderOf[d], up)
    /\ Emit(SuccessEvent[work.op], d)
    /\ work' = None
    /\ Decides(d)
    /\ UNCHANGED <<status, linked, dead, commands, abandoned, lost>>

\* Mutant: a failure is logged and not reported.
CommandFailsSilently ==
    LET d == work.dc IN
    /\ work # None
    /\ work.step = "running"
    /\ \E up \in Outcomes(work.op, FolderOf[d]) : Container(FolderOf[d], up)
    /\ work' = None
    /\ Decides(d)
    /\ UNCHANGED <<status, channel, abandoned, lost>>

CommandSucceeds ==
    LET d == work.dc IN
    /\ work # None
    /\ work.step = "running"
    /\ Container(FolderOf[d], work.op = "start")
    /\ Emit(SuccessEvent[work.op], d)
    /\ work' = IF work.op = "start" THEN [work EXCEPT !.step = "launching"] ELSE None
    /\ Decides(d)
    /\ UNCHANGED <<status, linked, dead, commands, abandoned, lost>>

\* DevcontainerFailure: no such directory, no CLI, or a non-zero exit.
CommandFails ==
    LET d == work.dc IN
    /\ work # None
    /\ work.step = "running"
    /\ \E up \in Outcomes(work.op, FolderOf[d]) : Container(FolderOf[d], up)
    /\ Emit("devcontainer_failed", d)
    /\ work' = None
    /\ Decides(d)
    /\ UNCHANGED <<status, linked, dead, commands, abandoned, lost>>

\* Anything but FileNotFoundError out of the subprocess call (a CLI that may not
\* be executed, say) leaves the handler and ends the worker's consumer.
CommandRaises ==
    /\ work # None
    /\ work.step = "running"
    /\ work' = None
    /\ dead' = TRUE
    /\ lost' = lost \cup {work.dc}
    /\ UNCHANGED <<status, fleet, linked, commands, events, abandoned, last>>

\* AgentLauncher: best effort, and blind to an agent that is already there.
Launch(d) ==
    \/ UNCHANGED agents
    \/ /\ container[FolderOf[d]]
       /\ agents[d] < MaxAgents
       /\ agents' = [agents EXCEPT ![d] = @ + 1]

LaunchAgent ==
    /\ work # None
    /\ work.step = "launching"
    /\ work' = None
    /\ Launch(work.dc)
    /\ UNCHANGED <<status, container, channel, abandoned, history>>

-----------------------------------------------------------------------------
\* The worker's connection, abandoned commands, and the container itself.

WorkerConnects ==
    /\ ~linked
    /\ linked' = TRUE
    /\ UNCHANGED <<status, fleet, dead, commands, events, work, abandoned, history>>

CommandsAbout(d) == {i \in DOMAIN commands : commands[i].dc = d}
EventsAbout(d)   == {i \in DOMAIN events : events[i].dc = d}

\* Nothing about row d is on its way in either direction.
Quiet(d) == CommandsAbout(d) = {} /\ EventsAbout(d) = {} /\ (work = None \/ work.dc # d)

\* The queue, the consumer and what either end had sent go with the connection.
WorkerDrops ==
    /\ linked
    /\ linked' = FALSE
    /\ dead' = FALSE
    /\ commands' = <<>>
    /\ events' = <<>>
    /\ work' = None
    /\ \/ UNCHANGED abandoned
       \/ /\ work # None
          /\ Cardinality(abandoned) < MaxAbandoned
          /\ abandoned' = abandoned \cup {work}
    /\ lost' = lost \cup {d \in Devcontainers : ~Quiet(d)}
    /\ last' = [f \in Folders |->
                  IF last[f] # None /\ EventsAbout(last[f]) # {} THEN None ELSE last[f]]
    /\ UNCHANGED <<status, fleet>>

\* Nobody will report what happened to the container.
Undecided(f) == last' = [last EXCEPT ![f] = None]

\* An abandoned CLI process ends, with nobody to tell.
AbandonedEnds(c) ==
    /\ c \in abandoned
    /\ abandoned' = abandoned \ {c}
    /\ \/ /\ c.step = "running"
          /\ \E up \in Outcomes(c.op, FolderOf[c.dc]) : Container(FolderOf[c.dc], up)
          /\ Undecided(FolderOf[c.dc])
       \/ /\ c.step = "launching"
          /\ Launch(c.dc)
          /\ UNCHANGED <<container, last>>
    /\ UNCHANGED <<status, channel, work, lost>>

ContainerDies(f) ==
    /\ container[f]
    /\ Container(f, FALSE)
    /\ Undecided(f)
    /\ UNCHANGED <<status, channel, work, abandoned, lost>>

AgentDies(d) ==
    /\ agents[d] > 0
    /\ agents' = [agents EXCEPT ![d] = @ - 1]
    /\ UNCHANGED <<status, container, channel, work, abandoned, history>>

-----------------------------------------------------------------------------
WorkerStep == TakeCommand \/ CommandSucceeds \/ CommandFails \/ LaunchAgent

Next ==
    \/ \E d \in Devcontainers :
          StartDevcontainer(d) \/ StopDevcontainer(d) \/ DeleteDevcontainer(d) \/ AgentDies(d)
    \/ TakeInEvent
    \/ WorkerStep \/ CommandRaises
    \/ WorkerConnects \/ WorkerDrops
    \/ \E c \in Work : AbandonedEnds(c)
    \/ \E f \in Folders : ContainerDies(f)

Spec == Init /\ [][Next]_vars

\* The Control Plane's loop and the worker's consumer keep running, and the CLI
\* ends: `_default_runner` waits for it without a limit.
FairSpec == Spec /\ WF_vars(TakeInEvent) /\ WF_vars(WorkerStep)

-----------------------------------------------------------------------------
\* Properties.

\* A row shows `starting` or `stopping` only for as long as something is on its way
\* that will end it, unless something about this very row was lost, and then only
\* until the next command for it.  The routes accept neither command in those two
\* states, so one that lasted would lock the user out.
TransientMeansBusy ==
    \A d \in Devcontainers :
        (status[d] \in {"starting", "stopping"} /\ d \notin lost) => ~Quiet(d)

\* The row heard last about a folder tells the truth about its container, whichever
\* rows share the folder and whatever was lost before: clicks that raced each other,
\* commands that failed half-way and their events still add up, because one worker
\* runs them in order, and one command that goes through mends what a drop broke.
StatusIsTrue ==
    \A f \in Folders :
        LET d == last[f] IN
        (d # None /\ EventsAbout(d) = {}) =>
            /\ status[d] = "running" => container[f]
            /\ status[d] = "stopped" => ~container[f]

\* One agent runs inside each running devcontainer (ADR-0004).
OneAgent == \A d \in Devcontainers : agents[d] <= 1

\* A row leaves `starting` and `stopping`, however many commands for other rows its
\* own has to wait for, unless the connection or the consumer is lost on the way.
TransientEnds ==
    \A d \in Devcontainers :
        (status[d] \in {"starting", "stopping"})
            ~> (status[d] \notin {"starting", "stopping"} \/ d \in lost)
=============================================================================
