------------------------ MODULE AgentSessionsProofs ------------------------
(***************************************************************************)
(* AgentSessions for any number of devcontainers, sessions, runs, worker   *)
(* threads and any queue bound: its types, that everything about a session *)
(* stays in one devcontainer, and that the system implements ReadModel.    *)
(***************************************************************************)
EXTENDS AgentSessions, ReadModelProofs

Spawning(d, s) == busy[d] # None /\ busy[d].step = "spawn" /\ busy[d].command.session = s
Stopping(d, s) == busy[d] # None /\ busy[d].step = "stop" /\ busy[d].command.session = s

\* The consumer of d is terminating r.
Terminates(d, r) == busy[d] # None /\ busy[d].run = r

-----------------------------------------------------------------------------
\* Everything about a session is in one devcontainer.

Carries(d, s) ==
    \/ \E m \in Members(cmds[d]) \cup Members(evts[d]) : m.session = s
    \/ busy[d] # None /\ busy[d].command.session = s
    \/ \E r \in Runs : runs[r].dc = d /\ runs[r].session = s

Mentions(d, s) == Carries(d, s) \/ (sessions[s] # None /\ sessions[s].dc = d)

OneHome ==
    \A d \in Devcontainers, s \in Sessions :
        Mentions(d, s) => /\ s \in minted /\ d \in minted
                          /\ \A x \in Devcontainers : Mentions(x, s) => x = d

\* An answer refers to a question, or to an approval, of its own session.
InputBelongs(m) ==
    sessions[m.session] # None =>
        /\ inbox[m.inbox] # None
        /\ inbox[m.inbox].session = m.session
        /\ inbox[m.inbox].type = "question"

ResolutionBelongs(m) ==
    /\ m.approval \in minted
    /\ sessions[m.session] # None => approvals[m.approval] # None
    /\ approvals[m.approval] # None => approvals[m.approval].session = m.session

Belongs(m) ==
    /\ m.type \in {"send_user_input", "user_input_sent"} => InputBelongs(m)
    /\ m.type \in {"resolve_approval", "approval_resolved"} => ResolutionBelongs(m)

AnswersBelong ==
    \A d \in Devcontainers : \A m \in Members(cmds[d]) \cup Members(evts[d]) : Belongs(m)

\* The dict entries name runs of their session, and a run under termination is in
\* neither.
ProcessesNameRuns ==
    \A s \in Sessions : processes[s] # None =>
        runs[processes[s]].session = s /\ runs[processes[s]].phase = "working"

TasksNameRuns ==
    \A s \in Sessions : tasks[s] # None =>
        runs[tasks[s]].session = s /\ runs[tasks[s]].phase \in {"working", "reported"}

TerminationsApart ==
    \A d \in Devcontainers, r \in Runs : Terminates(d, r) =>
        /\ busy[d].step = "stop"
        /\ runs[r].dc = d /\ runs[r].session = busy[d].command.session
        /\ processes[runs[r].session] # r /\ tasks[runs[r].session] # r

DyingAreTerminated ==
    \A r \in Runs : runs[r].phase = "dying" => Terminates(runs[r].dc, r)

EntriesNameRuns ==
    ProcessesNameRuns /\ TasksNameRuns /\ TerminationsApart /\ DyingAreTerminated

-----------------------------------------------------------------------------
\* Messages and runs by their fields.

\* What a command carries.
LEMMA CommandFields ==
    ASSUME NEW d \in Devcontainers, NEW c \in CommandTo(d)
    PROVE  /\ c.dc = d /\ c.session \in Sessions
           /\ c.type \in LifeCommands \cup {"send_user_input", "resolve_approval"}
           /\ c.type = "send_user_input" => c.inbox \in InboxEvents
           /\ c.type = "resolve_approval" => c.approval \in Approvals /\ c.resolution \in Decided
<1>1. CASE \E type \in LifeCommands, s \in Sessions : c = Command(type, d, s)
  BY <1>1 DEF Command, LifeCommands
<1>2. CASE \E s \in Sessions, i \in InboxEvents : c = InputCommand(d, s, i)
  BY <1>2 DEF InputCommand, Command
<1>3. CASE \E s \in Sessions, a \in Approvals, r \in Decided : c = ResolveCommand(d, s, a, r)
  BY <1>3 DEF ResolveCommand, Command
<1> QED
  BY <1>1, <1>2, <1>3 DEF CommandTo

\* What an event carries.
LEMMA EventFields ==
    ASSUME NEW d \in Devcontainers, NEW e \in EventFrom(d)
    PROVE  /\ e.dc = d /\ e.session \in Sessions
           /\ e.type \in PlainSessionEventTypes \cup {"user_input_sent", "approval_resolved"}
           /\ e.type = "user_input_sent" => e.inbox \in InboxEvents
           /\ e.type = "approval_resolved" => e.approval \in Approvals /\ e.resolution \in Decided
<1>1. CASE \E type \in PlainSessionEventTypes, s \in Sessions : e = SessionEvent(type, d, s)
  BY <1>1 DEF SessionEvent, DevcontainerEvent, PlainSessionEventTypes
<1>2. CASE \E s \in Sessions, i \in InboxEvents : e = UserInputSent(d, s, i)
  BY <1>2 DEF UserInputSent, SessionEvent, DevcontainerEvent
<1>3. CASE \E s \in Sessions, a \in Approvals, r \in Decided : e = ApprovalResolved(d, s, a, r)
  BY <1>3 DEF ApprovalResolved, SessionEvent, DevcontainerEvent
<1> QED
  BY <1>1, <1>2, <1>3 DEF EventFrom

\* The commands the routes make.
LEMMA MadeCommands ==
    ASSUME NEW d \in Devcontainers, NEW s \in Sessions
    PROVE  /\ \A type \in LifeCommands :
                /\ Command(type, d, s) \in CommandTo(d)
                /\ Command(type, d, s).type = type /\ Command(type, d, s).session = s
                /\ Command(type, d, s).dc = d
           /\ \A i \in InboxEvents :
                /\ InputCommand(d, s, i) \in CommandTo(d)
                /\ InputCommand(d, s, i).type = "send_user_input"
                /\ InputCommand(d, s, i).session = s /\ InputCommand(d, s, i).inbox = i
                /\ InputCommand(d, s, i).dc = d
           /\ \A a \in Approvals, r \in Decided :
                /\ ResolveCommand(d, s, a, r) \in CommandTo(d)
                /\ ResolveCommand(d, s, a, r).type = "resolve_approval"
                /\ ResolveCommand(d, s, a, r).session = s
                /\ ResolveCommand(d, s, a, r).approval = a
                /\ ResolveCommand(d, s, a, r).dc = d
<1>1. /\ \A type \in LifeCommands : Command(type, d, s) \in CommandTo(d)
      /\ \A i \in InboxEvents : InputCommand(d, s, i) \in CommandTo(d)
      /\ \A a \in Approvals, r \in Decided : ResolveCommand(d, s, a, r) \in CommandTo(d)
  BY DEF CommandTo
<1>2. \A type : /\ Command(type, d, s).type = type /\ Command(type, d, s).session = s
                /\ Command(type, d, s).dc = d
  BY DEF Command
<1>3. \A i : /\ InputCommand(d, s, i).type = "send_user_input"
             /\ InputCommand(d, s, i).session = s /\ InputCommand(d, s, i).inbox = i
             /\ InputCommand(d, s, i).dc = d
  BY DEF InputCommand, Command
<1>4. \A a, r : /\ ResolveCommand(d, s, a, r).type = "resolve_approval"
                /\ ResolveCommand(d, s, a, r).session = s
                /\ ResolveCommand(d, s, a, r).approval = a
                /\ ResolveCommand(d, s, a, r).dc = d
  BY DEF ResolveCommand, Command
<1> QED
  BY <1>1, <1>2, <1>3, <1>4

\* The events an agent makes.
LEMMA MadeEvents ==
    ASSUME NEW d \in Devcontainers, NEW s \in Sessions
    PROVE  /\ \A type \in PlainSessionEventTypes :
                /\ SessionEvent(type, d, s) \in EventFrom(d)
                /\ SessionEvent(type, d, s).type = type /\ SessionEvent(type, d, s).session = s
           /\ \A i \in InboxEvents :
                /\ UserInputSent(d, s, i) \in EventFrom(d)
                /\ UserInputSent(d, s, i).type = "user_input_sent"
                /\ UserInputSent(d, s, i).session = s /\ UserInputSent(d, s, i).inbox = i
           /\ \A a \in Approvals, r \in Decided :
                /\ ApprovalResolved(d, s, a, r) \in EventFrom(d)
                /\ ApprovalResolved(d, s, a, r).type = "approval_resolved"
                /\ ApprovalResolved(d, s, a, r).session = s
                /\ ApprovalResolved(d, s, a, r).approval = a
<1>1. /\ \A type \in PlainSessionEventTypes : SessionEvent(type, d, s) \in EventFrom(d)
      /\ \A i \in InboxEvents : UserInputSent(d, s, i) \in EventFrom(d)
      /\ \A a \in Approvals, r \in Decided : ApprovalResolved(d, s, a, r) \in EventFrom(d)
  BY DEF EventFrom
<1>2. \A type : SessionEvent(type, d, s).type = type /\ SessionEvent(type, d, s).session = s
  BY DEF SessionEvent, DevcontainerEvent
<1>3. \A i : /\ UserInputSent(d, s, i).type = "user_input_sent"
             /\ UserInputSent(d, s, i).session = s /\ UserInputSent(d, s, i).inbox = i
  BY DEF UserInputSent, SessionEvent, DevcontainerEvent
<1>4. \A a, r : /\ ApprovalResolved(d, s, a, r).type = "approval_resolved"
                /\ ApprovalResolved(d, s, a, r).session = s
                /\ ApprovalResolved(d, s, a, r).approval = a
  BY DEF ApprovalResolved, SessionEvent, DevcontainerEvent
<1> QED
  BY <1>1, <1>2, <1>3, <1>4

\* What the consumer holds on to.
LEMMA WorkFields ==
    ASSUME AgentTypeOK, NEW d \in Devcontainers, busy[d] # None
    PROVE  /\ busy[d].command \in CommandTo(d) /\ busy[d].command.session \in Sessions
           /\ busy[d].step \in {"spawn", "stop"} /\ busy[d].run \in Optional(Runs)
           /\ busy[d].step = "spawn" => busy[d].run = None
<1>1. busy[d] \in Work(d)
  BY DEF AgentTypeOK, Optional
<1>2. /\ busy[d].command \in CommandTo(d)
      /\ busy[d].step \in {"spawn", "stop"} /\ busy[d].run \in Optional(Runs)
      /\ busy[d].step = "spawn" => busy[d].run = None
  BY <1>1 DEF Work, Optional
<1> QED
  BY <1>2, CommandFields

\* A run that was spawned is a run of some session.
LEMMA RunFields ==
    ASSUME NEW x \in Run
    PROVE  /\ x.phase \in Phase /\ x.wired \in BOOLEAN
           /\ x.phase # "unused" => x.dc \in Devcontainers /\ x.session \in Sessions
           /\ x.phase = "unused" => x.dc = None /\ x.session = None
BY DEF Run, Phase

\* It stays one, whatever becomes of it.
LEMMA RunGoesOn ==
    ASSUME NEW x \in Run, x.phase # "unused",
           NEW phase \in Phase \ {"unused"}, NEW wired \in BOOLEAN
    PROVE  /\ [x EXCEPT !.phase = phase] \in Run
           /\ [x EXCEPT !.wired = wired, !.phase = phase] \in Run
BY DEF Run

-----------------------------------------------------------------------------
\* What the actions do to the queues, the consumer and the runs, one place at a
\* time.

Sends(d, c) ==
    /\ c \in CommandTo(d)
    /\ Len(cmds[d]) < MaxInFlight
    /\ DOMAIN cmds' = Devcontainers
    /\ cmds'[d] = Append(cmds[d], c)
    /\ \A x \in Devcontainers \ {d} : cmds'[x] = cmds[x]

Takes(d, c) ==
    /\ cmds[d] # <<>>
    /\ c = Head(cmds[d])
    /\ DOMAIN cmds' = Devcontainers
    /\ cmds'[d] = Tail(cmds[d])
    /\ \A x \in Devcontainers \ {d} : cmds'[x] = cmds[x]

Emits(d, e) ==
    /\ e \in EventFrom(d)
    /\ Len(evts[d]) < MaxInFlight
    /\ DOMAIN evts' = Devcontainers
    /\ evts'[d] = Append(evts[d], e)
    /\ \A x \in Devcontainers \ {d} : evts'[x] = evts[x]

TakesIn(d, e) ==
    /\ evts[d] # <<>>
    /\ e = Head(evts[d])
    /\ DOMAIN evts' = Devcontainers
    /\ evts'[d] = Tail(evts[d])
    /\ \A x \in Devcontainers \ {d} : evts'[x] = evts[x]

TurnsTo(d, w) ==
    /\ w \in Optional(Work(d))
    /\ DOMAIN busy' = Devcontainers
    /\ busy'[d] = w
    /\ \A x \in Devcontainers \ {d} : busy'[x] = busy[x]

Becomes(r, x) ==
    /\ x \in Run
    /\ runs' \in [Runs -> Run]
    /\ runs'[r] = x
    /\ \A q \in Runs \ {r} : runs'[q] = runs[q]

Turns(r, phase) == Becomes(r, [runs[r] EXCEPT !.phase = phase])

\* What terminate() does to a run.
Leaves(r) == runs'[r].phase \in Terminated(runs[r].phase) /\ Turns(r, runs'[r].phase)

\* The parts of the type invariant.
CommandsTyped ==
    /\ DOMAIN cmds = Devcontainers
    /\ \A d \in Devcontainers : cmds[d] \in Seq(CommandTo(d)) /\ Len(cmds[d]) <= MaxInFlight

EventsTyped ==
    /\ DOMAIN evts = Devcontainers
    /\ \A d \in Devcontainers : evts[d] \in Seq(EventFrom(d)) /\ Len(evts[d]) <= MaxInFlight

WorkTyped ==
    DOMAIN busy = Devcontainers /\ \A d \in Devcontainers : busy[d] \in Optional(Work(d))

\* The type invariant, part by part.
LEMMA TypeParts ==
    AgentTypeOK <=> /\ link \in [Devcontainers -> BOOLEAN]
                    /\ CommandsTyped /\ EventsTyped /\ WorkTyped
                    /\ runs \in [Runs -> Run]
                    /\ processes \in [Sessions -> Optional(Runs)]
                    /\ tasks \in [Sessions -> Optional(Runs)]
                    /\ lapses \subseteq Lapse
BY DEF AgentTypeOK, CommandsTyped, EventsTyped, WorkTyped

\* ... and after a step.
LEMMA TypePartsNext ==
    AgentTypeOK' <=> /\ link' \in [Devcontainers -> BOOLEAN]
                     /\ CommandsTyped' /\ EventsTyped' /\ WorkTyped'
                     /\ runs' \in [Runs -> Run]
                     /\ processes' \in [Sessions -> Optional(Runs)]
                     /\ tasks' \in [Sessions -> Optional(Runs)]
                     /\ lapses' \subseteq Lapse
BY DEF AgentTypeOK, CommandsTyped, EventsTyped, WorkTyped

\* A command sent joins the commands of its devcontainer.
LEMMA SendsAdds ==
    ASSUME CommandsTyped, NEW d \in Devcontainers, NEW c, Sends(d, c)
    PROVE  /\ CommandsTyped' /\ cmds[d] \in Seq(CommandTo(d))
           /\ Members(cmds'[d]) = Members(cmds[d]) \cup {c}
           /\ \A x \in Devcontainers : x # d => cmds'[x] = cmds[x]
<1>1. cmds[d] \in Seq(CommandTo(d)) /\ c \in CommandTo(d)
  BY DEF CommandsTyped, Sends
<1>2. cmds'[d] \in Seq(CommandTo(d)) /\ Members(cmds'[d]) = Members(cmds[d]) \cup {c}
  BY <1>1, AppendMembers DEF Sends
<1>3. Len(cmds'[d]) <= MaxInFlight
  BY <1>1, QueuesHoldSomething DEF Sends
<1> QED
  BY <1>1, <1>2, <1>3 DEF CommandsTyped, Sends

\* A command taken leaves them.
LEMMA TakesRemoves ==
    ASSUME CommandsTyped, NEW d \in Devcontainers, NEW c, Takes(d, c)
    PROVE  /\ CommandsTyped' /\ cmds[d] \in Seq(CommandTo(d)) /\ c \in CommandTo(d)
           /\ Members(cmds[d]) = Members(cmds'[d]) \cup {c}
           /\ \A x \in Devcontainers : x # d => cmds'[x] = cmds[x]
<1>1. cmds[d] \in Seq(CommandTo(d)) /\ cmds[d] # <<>>
  BY DEF CommandsTyped, Takes
<1>2. /\ c \in CommandTo(d) /\ cmds'[d] \in Seq(CommandTo(d))
      /\ Members(cmds[d]) = Members(cmds'[d]) \cup {c}
  BY <1>1, TailMembers DEF Takes
<1>3. Len(cmds'[d]) <= MaxInFlight
  <2>1. Len(cmds'[d]) = Len(cmds[d]) - 1 /\ Len(cmds[d]) <= MaxInFlight
    BY <1>1 DEF Takes, CommandsTyped
  <2> QED
    BY <1>1, <2>1, QueuesHoldSomething
<1> QED
  BY <1>1, <1>2, <1>3 DEF CommandsTyped, Takes

\* An event emitted joins the events of its devcontainer.
LEMMA EmitsAdds ==
    ASSUME EventsTyped, NEW d \in Devcontainers, NEW e, Emits(d, e)
    PROVE  /\ EventsTyped' /\ evts[d] \in Seq(EventFrom(d))
           /\ Members(evts'[d]) = Members(evts[d]) \cup {e}
           /\ \A x \in Devcontainers : x # d => evts'[x] = evts[x]
<1>1. evts[d] \in Seq(EventFrom(d)) /\ e \in EventFrom(d)
  BY DEF EventsTyped, Emits
<1>2. evts'[d] \in Seq(EventFrom(d)) /\ Members(evts'[d]) = Members(evts[d]) \cup {e}
  BY <1>1, AppendMembers DEF Emits
<1>3. Len(evts'[d]) <= MaxInFlight
  BY <1>1, QueuesHoldSomething DEF Emits
<1> QED
  BY <1>1, <1>2, <1>3 DEF EventsTyped, Emits

\* An event taken in leaves them.
LEMMA TakesInRemoves ==
    ASSUME EventsTyped, NEW d \in Devcontainers, NEW e, TakesIn(d, e)
    PROVE  /\ EventsTyped' /\ evts[d] \in Seq(EventFrom(d)) /\ e \in EventFrom(d)
           /\ Members(evts[d]) = Members(evts'[d]) \cup {e}
           /\ \A x \in Devcontainers : x # d => evts'[x] = evts[x]
<1>1. evts[d] \in Seq(EventFrom(d)) /\ evts[d] # <<>>
  BY DEF EventsTyped, TakesIn
<1>2. /\ e \in EventFrom(d) /\ evts'[d] \in Seq(EventFrom(d))
      /\ Members(evts[d]) = Members(evts'[d]) \cup {e}
  BY <1>1, TailMembers DEF TakesIn
<1>3. Len(evts'[d]) <= MaxInFlight
  <2>1. Len(evts'[d]) = Len(evts[d]) - 1 /\ Len(evts[d]) <= MaxInFlight
    BY <1>1 DEF TakesIn, EventsTyped
  <2> QED
    BY <1>1, <2>1, QueuesHoldSomething
<1> QED
  BY <1>1, <1>2, <1>3 DEF EventsTyped, TakesIn

\* Work is something.
LEMMA WorkIsWork ==
    ASSUME WorkTyped, NEW d \in Devcontainers, NEW w, TurnsTo(d, w)
    PROVE  /\ WorkTyped' /\ busy'[d] = w /\ (w \in Work(d) => busy'[d] # None)
           /\ \A x \in Devcontainers : x # d => busy'[x] = busy[x]
BY NoneIsNoWork DEF WorkTyped, TurnsTo

-----------------------------------------------------------------------------
\* The routes.

\* A session's row names its devcontainer.
LEMMA HomeIsDevcontainer ==
    ASSUME Consistent, NEW s \in Sessions, sessions[s] # None
    PROVE  sessions[s].dc \in Devcontainers /\ sessions[s].status \in AgentSessionStatus
BY DEF Consistent, TypeOK, Optional, SessionRow

\* A session is active or at rest.
LEMMA ActiveOrResting ==
    ASSUME Consistent, NEW s \in Sessions
    PROVE  /\ IsActive(s) <=> sessions[s] # None /\ sessions[s].status \in Active
           /\ IsResting(s) <=> sessions[s] # None /\ sessions[s].status \in Resting
           /\ sessions[s] # None <=> IsActive(s) \/ IsResting(s)
           /\ ~(IsActive(s) /\ IsResting(s))
<1>1. s \in DOMAIN sessions
  BY DEF Consistent, TypeOK
<1>2. sessions[s] # None => sessions[s].status \in Active \cup Resting
  BY HomeIsDevcontainer DEF AgentSessionStatus
<1> QED
  BY <1>1, <1>2 DEF IsActive, IsResting, Exists, Active, Resting

\* send_command puts the command in its devcontainer's queue.
LEMMA SendCommandDoes ==
    ASSUME AgentTypeOK, NEW d \in Devcontainers, NEW c \in CommandTo(d), SendCommand(c)
    PROVE  Sends(d, c) /\ UNCHANGED <<link, evts, busy, runs, processes, tasks>>
<1>1. c.dc = d
  BY CommandFields
<1> QED
  BY <1>1 DEF SendCommand, Sends, AgentTypeOK

\* A command about an existing session, to the agent of its devcontainer.
Orders(d, c) ==
    /\ UNCHANGED rmvars
    /\ UNCHANGED <<link, evts, busy, runs, processes, tasks>>
    /\ Sends(d, c)
    /\ IsActive(c.session) /\ sessions[c.session] # None /\ sessions[c.session].dc = d
    /\ c.type \in {"stop_agent_session", "send_user_input", "resolve_approval"}
    /\ c.type = "send_user_input" => InputBelongs(c)
    /\ c.type = "resolve_approval" => /\ ResolutionBelongs(c)
                                      /\ approvals[c.approval] # None
                                      /\ approvals[c.approval].status = "pending"
    /\ lapses' = IF c.type = "resolve_approval" /\ AnswerUnderWay(d, c.approval)
                 THEN lapses \cup {"double_answer"} ELSE lapses

\* Starting a session.
LEMMA StartDoes ==
    ASSUME Consistent, AgentTypeOK, NEW d \in Devcontainers, NEW s \in Sessions,
           StartAgentSession(d, s)
    PROVE  /\ StartRow(d, s) /\ s \notin minted
           /\ Sends(d, Command("start_agent_session", d, s))
           /\ UNCHANGED <<link, evts, busy, runs, processes, tasks, lapses>>
<1>1. Command("start_agent_session", d, s) \in CommandTo(d)
  BY MadeCommands DEF LifeCommands
<1> QED
  BY <1>1, SendCommandDoes DEF StartAgentSession, StartRow

\* Resuming one.
LEMMA ResumeDoes ==
    ASSUME Consistent, AgentTypeOK, NEW s \in Sessions, ResumeAgentSession(s),
           NEW d, d = sessions[s].dc
    PROVE  /\ ResumeRow(s) /\ IsResting(s) /\ sessions[s] # None /\ d \in Devcontainers
           /\ Sends(d, Command("resume_agent_session", d, s))
           /\ UNCHANGED <<link, evts, busy, runs, processes, tasks>>
           /\ lapses \subseteq lapses' /\ lapses' \subseteq lapses \cup {"resumed_over_stop"}
           /\ StopUnderWay(d, s) => "resumed_over_stop" \in lapses'
<1>1. ResumeRow(s) /\ IsResting(s) /\ sessions[s] # None
  BY DEF ResumeAgentSession, ResumeRow, IsResting, Exists
<1>2. d \in Devcontainers
  BY <1>1, HomeIsDevcontainer
<1>3. Command("resume_agent_session", d, s) \in CommandTo(d)
  BY <1>2, MadeCommands DEF LifeCommands
<1>4. SendCommand(Command("resume_agent_session", d, s))
  BY DEF ResumeAgentSession
<1>5. lapses' = lapses \cup {"resumed_over_stop" : x \in {s} \cap
                                {y \in Sessions : StopUnderWay(d, y)}}
  BY DEF ResumeAgentSession
<1> QED
  BY <1>1, <1>2, <1>3, <1>4, <1>5, SendCommandDoes

\* Stopping one.
LEMMA StopDoes ==
    ASSUME Consistent, AgentTypeOK, NEW s \in Sessions, StopAgentSession(s),
           NEW d, d = sessions[s].dc
    PROVE  d \in Devcontainers /\ Orders(d, Command("stop_agent_session", d, s))
<1> DEFINE c == Command("stop_agent_session", d, s)
<1>1. IsActive(s) /\ sessions[s] # None /\ d \in Devcontainers
  BY HomeIsDevcontainer DEF StopAgentSession, IsActive, Exists
<1>2. /\ c \in CommandTo(d) /\ c.type = "stop_agent_session" /\ c.session = s
  BY <1>1, MadeCommands DEF LifeCommands
<1>3. SendCommand(c) /\ UNCHANGED rmvars /\ lapses' = lapses
  BY DEF StopAgentSession
<1> HIDE DEF c
<1>4. Orders(d, c)
  BY <1>1, <1>2, <1>3, SendCommandDoes DEF Orders
<1> QED
  BY <1>1, <1>4 DEF c

\* Answering its question.
LEMMA InputDoes ==
    ASSUME Consistent, AgentTypeOK, NEW s \in Sessions, NEW i \in InboxEvents,
           SendUserInput(s, i), NEW d, d = sessions[s].dc
    PROVE  d \in Devcontainers /\ Orders(d, InputCommand(d, s, i))
<1> DEFINE c == InputCommand(d, s, i)
<1>1. IsActive(s) /\ sessions[s] # None /\ d \in Devcontainers
  BY HomeIsDevcontainer DEF SendUserInput, IsActive, Exists
<1>2. c \in CommandTo(d) /\ c.type = "send_user_input" /\ c.session = s /\ c.inbox = i
  BY <1>1, MadeCommands
<1>3. SendCommand(c) /\ UNCHANGED rmvars /\ lapses' = lapses
  BY DEF SendUserInput
<1>4. inbox[i] # None /\ inbox[i].session = s /\ inbox[i].type = "question"
  BY DEF SendUserInput
<1> HIDE DEF c
<1>5. InputBelongs(c)
  BY <1>2, <1>4 DEF InputBelongs
<1>6. Orders(d, c)
  BY <1>1, <1>2, <1>3, <1>5, SendCommandDoes DEF Orders
<1> QED
  BY <1>1, <1>6 DEF c

\* Deciding its approval.
LEMMA ResolveDoes ==
    ASSUME Consistent, AgentTypeOK, NEW s \in Sessions, NEW a \in Approvals, NEW r \in Decided,
           ResolveApproval(s, a, r), NEW d, d = sessions[s].dc
    PROVE  d \in Devcontainers /\ Orders(d, ResolveCommand(d, s, a, r))
<1> DEFINE c == ResolveCommand(d, s, a, r)
<1>1. IsActive(s) /\ sessions[s] # None /\ d \in Devcontainers
  BY HomeIsDevcontainer DEF ResolveApproval, IsActive, Exists
<1>2. c \in CommandTo(d) /\ c.type = "resolve_approval" /\ c.session = s /\ c.approval = a
  BY <1>1, MadeCommands
<1>3. /\ SendCommand(c) /\ UNCHANGED rmvars
      /\ lapses' = IF AnswerUnderWay(d, a) THEN lapses \cup {"double_answer"} ELSE lapses
  BY DEF ResolveApproval
<1>4. approvals[a] # None /\ approvals[a].session = s /\ approvals[a].status = "pending"
  BY DEF ResolveApproval
<1> HIDE DEF c
<1>5. ResolutionBelongs(c)
  BY <1>2, <1>4 DEF ResolutionBelongs, Consistent, IdsAreMinted
<1>6. Orders(d, c)
  BY <1>1, <1>2, <1>3, <1>4, <1>5, SendCommandDoes DEF Orders
<1> QED
  BY <1>1, <1>6 DEF c

\* A step of the database alone, and its lapse.
RowsOnly ==
    /\ UNCHANGED agvars
    /\ \/ /\ lapses' = lapses
          /\ \/ \E d \in Devcontainers : CreateDevcontainer(d) \/ DeleteDevcontainer(d)
             \/ \E t \in Threads, s \in Sessions : DeleteSessionCheck(t, s)
             \/ \E e \in RuntimeEvents : Intake(e) /\ e.session = None
       \/ \E t \in Threads : /\ DeleteSessionCommit(t)
                             /\ lapses' = IF IsActive(requests[t].id)
                                          THEN lapses \cup {"active_deleted"} ELSE lapses

\* The event at the head of an agent's queue is taken in.
LEMMA TakeInDoes ==
    ASSUME AgentTypeOK, NEW d \in Devcontainers, TakeInEvent(d)
    PROVE  /\ TakesIn(d, Head(evts[d])) /\ Intake(Head(evts[d]))
           /\ UNCHANGED <<link, cmds, busy, runs, processes, tasks, lapses>>
BY DEF TakeInEvent, TakesIn, AgentTypeOK

\* A worker's event concerns no session.
LEMMA WorkerReportsDoes ==
    ASSUME NEW d \in Devcontainers, WorkerReports(d)
    PROVE  RowsOnly
<1>1. PICK type \in Reported : Intake(DevcontainerEvent(type, d))
  BY DEF WorkerReports
<1>2. DevcontainerEvent(type, d) \in RuntimeEvents
  BY ReportedAreDevcontainerEvents DEF RuntimeEvents
<1>3. DevcontainerEvent(type, d).session = None
  BY DEF DevcontainerEvent
<1> QED
  BY <1>1, <1>2, <1>3 DEF RowsOnly, WorkerReports

-----------------------------------------------------------------------------
\* The agent.

\* The consumer takes a command and emits what answers it.
Echoes(d, c, e) ==
    /\ UNCHANGED <<rmvars, link, runs, processes, tasks>>
    /\ busy[d] = None
    /\ Takes(d, c) /\ c \in CommandTo(d)
    /\ Emits(d, e) /\ e.session = c.session
    /\ \/ /\ c.type \in {"start_agent_session", "resume_agent_session"}
          /\ e.type = "agent_session_started"
          /\ TurnsTo(d, [step |-> "spawn", command |-> c, run |-> None])
          /\ [step |-> "spawn", command |-> c, run |-> None] \in Work(d)
          /\ lapses' = lapses
       \/ /\ c.type = "send_user_input"
          /\ e.type = "user_input_sent" /\ e.inbox = c.inbox
          /\ busy' = busy /\ lapses' = lapses
       \/ /\ c.type = "resolve_approval"
          /\ e.type = "approval_resolved" /\ e.approval = c.approval
          /\ busy' = busy
          /\ lapses' = IF \E r \in Runs : runs[r].phase = "working"
                                            /\ runs[r].session = c.session
                       THEN lapses ELSE lapses \cup {"late_answer"}

\* emit() puts the event in the queue of its connection.
LEMMA EmitDoes ==
    ASSUME AgentTypeOK, NEW d \in Devcontainers, NEW e \in EventFrom(d), Emit(d, e)
    PROVE  Emits(d, e)
BY DEF Emit, Emits, AgentTypeOK

\* The consumer takes what its queue begins with.
LEMMA TakeDoes ==
    ASSUME AgentTypeOK, NEW d \in Devcontainers, NEW types, Take(d, types),
           NEW c, c = Head(cmds[d])
    PROVE  Takes(d, c) /\ c \in CommandTo(d) /\ c.type \in types /\ busy[d] = None
<1>1. Takes(d, c) /\ c.type \in types /\ busy[d] = None
  BY DEF Take, Takes, AgentTypeOK
<1> QED
  BY <1>1, TakesRemoves, TypeParts

\* A start is announced and then under way.
LEMMA HandleStartDoes ==
    ASSUME AgentTypeOK, NEW d \in Devcontainers, HandleStart(d), NEW c, c = Head(cmds[d])
    PROVE  Echoes(d, c, SessionEvent("agent_session_started", d, c.session))
<1> DEFINE e == SessionEvent("agent_session_started", d, c.session)
<1> DEFINE w == [step |-> "spawn", command |-> c, run |-> None]
<1>1. /\ Takes(d, c) /\ c \in CommandTo(d) /\ busy[d] = None
      /\ c.type \in {"start_agent_session", "resume_agent_session"}
  BY TakeDoes DEF HandleStart
<1>2. e \in EventFrom(d) /\ e.type = "agent_session_started" /\ e.session = c.session
  BY <1>1, CommandFields, MadeEvents DEF PlainSessionEventTypes
<1>3. Emit(d, e) /\ UNCHANGED <<rmvars, link, runs, processes, tasks, lapses>>
  BY DEF HandleStart
<1>4. Emits(d, e)
  BY <1>2, <1>3, EmitDoes
<1>5. w \in Work(d) /\ TurnsTo(d, w)
  BY <1>1 DEF HandleStart, Work, TurnsTo, Optional, AgentTypeOK
<1> HIDE DEF e, w
<1>6. Echoes(d, c, e)
  BY <1>1, <1>2, <1>3, <1>4, <1>5 DEF Echoes, w
<1> QED
  BY <1>6 DEF e

\* An answer to a question is echoed.
LEMMA HandleUserInputDoes ==
    ASSUME AgentTypeOK, NEW d \in Devcontainers, HandleUserInput(d), NEW c, c = Head(cmds[d])
    PROVE  Echoes(d, c, UserInputSent(d, c.session, c.inbox))
<1> DEFINE e == UserInputSent(d, c.session, c.inbox)
<1>1. /\ Takes(d, c) /\ c \in CommandTo(d) /\ busy[d] = None
      /\ c.type = "send_user_input"
  BY TakeDoes DEF HandleUserInput
<1>2. /\ e \in EventFrom(d) /\ e.type = "user_input_sent" /\ e.session = c.session
      /\ e.inbox = c.inbox
  BY <1>1, CommandFields, MadeEvents
<1>3. Emit(d, e) /\ UNCHANGED <<rmvars, link, busy, runs, processes, tasks, lapses>>
  BY DEF HandleUserInput
<1>4. Emits(d, e)
  BY <1>2, <1>3, EmitDoes
<1> HIDE DEF e
<1>6. Echoes(d, c, e)
  BY <1>1, <1>2, <1>3, <1>4 DEF Echoes
<1> QED
  BY <1>6 DEF e

\* A resolution is echoed.
LEMMA HandleResolveApprovalDoes ==
    ASSUME AgentTypeOK, NEW d \in Devcontainers, HandleResolveApproval(d),
           NEW c, c = Head(cmds[d])
    PROVE  Echoes(d, c, ApprovalResolved(d, c.session, c.approval, c.resolution))
<1> DEFINE e == ApprovalResolved(d, c.session, c.approval, c.resolution)
<1>1. /\ Takes(d, c) /\ c \in CommandTo(d) /\ busy[d] = None
      /\ c.type = "resolve_approval"
  BY TakeDoes DEF HandleResolveApproval
<1>2. /\ e \in EventFrom(d) /\ e.type = "approval_resolved" /\ e.session = c.session
      /\ e.approval = c.approval
  BY <1>1, CommandFields, MadeEvents
<1>3. /\ Emit(d, e) /\ UNCHANGED <<rmvars, link, busy, runs, processes, tasks>>
      /\ lapses' = IF \E r \in Runs : runs[r].phase = "working" /\ runs[r].session = c.session
                   THEN lapses ELSE lapses \cup {"late_answer"}
  BY DEF HandleResolveApproval
<1>4. Emits(d, e)
  BY <1>2, <1>3, EmitDoes
<1> HIDE DEF e
<1>6. Echoes(d, c, e)
  BY <1>1, <1>2, <1>3, <1>4 DEF Echoes
<1> QED
  BY <1>6 DEF e

\* A run is spawned for the session whose start is under way.
LEMMA SpawnDoes ==
    ASSUME AgentTypeOK, NEW d \in Devcontainers, NEW r \in Runs, Spawn(d, r),
           NEW s, s = busy[d].command.session
    PROVE  /\ s \in Sessions /\ Spawning(d, s) /\ busy[d] # None /\ busy[d].step = "spawn"
           /\ runs[r].phase = "unused"
           /\ Becomes(r, [dc |-> d, session |-> s, phase |-> "working", wired |-> TRUE])
           /\ processes' \in [Sessions -> Optional(Runs)] /\ processes'[s] = r
           /\ \A x \in Sessions : x # s => processes'[x] = processes[x]
           /\ tasks' \in [Sessions -> Optional(Runs)] /\ tasks'[s] = r
           /\ \A x \in Sessions : x # s => tasks'[x] = tasks[x]
           /\ TurnsTo(d, None)
           /\ UNCHANGED <<rmvars, link, cmds, evts, lapses>>
<1> DEFINE x == [dc |-> d, session |-> s, phase |-> "working", wired |-> TRUE]
<1>1. s \in Sessions /\ Spawning(d, s) /\ runs[r].phase = "unused"
      /\ busy[d] # None /\ busy[d].step = "spawn"
  BY WorkFields DEF Spawn, Spawning
<1>2. x \in Run
  BY <1>1 DEF Run, Phase
<1>3. runs' = [runs EXCEPT ![r] = x]
  BY DEF Spawn
<1>4. processes' = [processes EXCEPT ![s] = r] /\ tasks' = [tasks EXCEPT ![s] = r]
  BY DEF Spawn
<1>5. /\ processes' \in [Sessions -> Optional(Runs)] /\ processes'[s] = r
      /\ \A y \in Sessions : y # s => processes'[y] = processes[y]
      /\ tasks' \in [Sessions -> Optional(Runs)] /\ tasks'[s] = r
      /\ \A y \in Sessions : y # s => tasks'[y] = tasks[y]
  BY <1>1, <1>4 DEF AgentTypeOK, Optional
<1>6. TurnsTo(d, None) /\ UNCHANGED <<rmvars, link, cmds, evts, lapses>>
  BY DEF Spawn, TurnsTo, Optional, AgentTypeOK
<1> HIDE DEF x
<1>7. Becomes(r, x)
  BY <1>2, <1>3 DEF Turns, Becomes, AgentTypeOK
<1> QED
  BY <1>1, <1>5, <1>6, <1>7 DEF x

\* The entries of s are popped.
Pops(s) ==
    /\ processes' \in [Sessions -> Optional(Runs)] /\ processes'[s] = None
    /\ \A x \in Sessions : x # s => processes'[x] = processes[x]
    /\ tasks' \in [Sessions -> Optional(Runs)] /\ tasks'[s] = None
    /\ \A x \in Sessions : x # s => tasks'[x] = tasks[x]

\* A stop pops the entries of its session and cancels the run both name.
LEMMA HandleStopDoes ==
    ASSUME AgentTypeOK, EntriesNameRuns, NEW d \in Devcontainers, HandleStop(d),
           NEW c, c = Head(cmds[d]), NEW s, s = c.session, NEW r, r = processes[s]
    PROVE  /\ s \in Sessions /\ r \in Optional(Runs)
           /\ Takes(d, c) /\ c \in CommandTo(d) /\ c.type = "stop_agent_session"
           /\ busy[d] = None
           /\ TurnsTo(d, [step |-> "stop", command |-> c, run |-> r])
           /\ [step |-> "stop", command |-> c, run |-> r] \in Work(d)
           /\ Pops(s)
           /\ r # None /\ tasks[s] = r => Turns(r, "dying")
           /\ ~(r # None /\ tasks[s] = r) => runs' = runs
           /\ UNCHANGED <<rmvars, link, evts, lapses>>
<1> DEFINE w == [step |-> "stop", command |-> c, run |-> r]
<1>1. /\ Takes(d, c) /\ c \in CommandTo(d) /\ c.type = "stop_agent_session" /\ busy[d] = None
  BY TakeDoes DEF HandleStop
<1>2. s \in Sessions /\ r \in Optional(Runs)
  BY <1>1, CommandFields DEF AgentTypeOK
<1>3. w \in Work(d)
  BY <1>1, <1>2 DEF Work
<1>4. /\ processes' = [processes EXCEPT ![s] = None] /\ tasks' = [tasks EXCEPT ![s] = None]
      /\ runs' = IF r # None /\ tasks[s] = r THEN [runs EXCEPT ![r].phase = "dying"] ELSE runs
      /\ busy' = [busy EXCEPT ![d] = w]
      /\ UNCHANGED <<rmvars, link, evts, lapses>>
  BY DEF HandleStop
<1> HIDE DEF w
<1>5. TurnsTo(d, w)
  BY <1>3, <1>4 DEF TurnsTo, Optional, AgentTypeOK
<1>6. Pops(s)
  BY <1>2, <1>4 DEF Pops, Optional, AgentTypeOK
<1>7. ASSUME r # None, tasks[s] = r PROVE Turns(r, "dying")
  <2>1. r \in Runs /\ runs[r] \in Run /\ runs[r].phase = "working"
    BY <1>2, <1>7 DEF EntriesNameRuns, ProcessesNameRuns, Optional, AgentTypeOK
  <2>2. [runs[r] EXCEPT !.phase = "dying"] \in Run
    BY <2>1, RunGoesOn DEF Phase
  <2> QED
    BY <1>4, <1>7, <2>1, <2>2 DEF Turns, Becomes, AgentTypeOK
<1> QED
  BY <1>1, <1>2, <1>3, <1>4, <1>5, <1>6, <1>7 DEF w

\* The end of a stop is reported, and its run is gone or about to be.
LEMMA FinishStopDoes ==
    ASSUME AgentTypeOK, EntriesNameRuns, NEW d \in Devcontainers, FinishStop(d),
           NEW s, s = busy[d].command.session, NEW r, r = busy[d].run
    PROVE  /\ s \in Sessions /\ Stopping(d, s) /\ r \in Optional(Runs)
           /\ busy[d] # None /\ busy[d].step = "stop"
           /\ Emits(d, SessionEvent("session_stopped", d, s))
           /\ TurnsTo(d, None)
           /\ r = None => runs' = runs
           /\ r # None => /\ Terminates(d, r)
                          /\ Leaves(r)
           /\ UNCHANGED <<rmvars, link, cmds, processes, tasks, lapses>>
<1> DEFINE e == SessionEvent("session_stopped", d, s)
<1>1. /\ s \in Sessions /\ Stopping(d, s) /\ r \in Optional(Runs)
      /\ busy[d] # None /\ busy[d].step = "stop"
  BY WorkFields DEF FinishStop, Stopping
<1>2. e \in EventFrom(d)
  BY <1>1, MadeEvents DEF PlainSessionEventTypes
<1>3. /\ Emit(d, e) /\ busy' = [busy EXCEPT ![d] = None]
      /\ TerminateRun(r)
      /\ UNCHANGED <<rmvars, link, cmds, processes, tasks, lapses>>
  BY DEF FinishStop
<1>6. r = None => runs' = runs
  BY <1>3 DEF TerminateRun
<1> HIDE DEF e
<1>4. Emits(d, e) /\ TurnsTo(d, None)
  BY <1>2, <1>3, EmitDoes DEF TurnsTo, Optional, AgentTypeOK
<1>5. ASSUME r # None
      PROVE  /\ Terminates(d, r)
             /\ Leaves(r)
  <2>1. r \in Runs /\ Terminates(d, r) /\ runs[r] \in Run
    BY <1>1, <1>5 DEF Terminates, Optional, AgentTypeOK
  <2>2. runs[r].dc = d
    BY <2>1 DEF EntriesNameRuns, TerminationsApart
  <2>3. runs[r].phase # "unused" /\ runs[r].phase \in Phase
    BY <2>1, <2>2, RunFields, NoneIsNoId
  <2>4. PICK left \in Terminated(runs[r].phase) : runs' = [runs EXCEPT ![r].phase = left]
    BY <1>3, <1>5 DEF TerminateRun
  <2>5. left \in Phase \ {"unused"}
    BY <2>3, <2>4 DEF Terminated, Phase
  <2>6. [runs[r] EXCEPT !.phase = left] \in Run
    BY <2>1, <2>3, <2>5, RunGoesOn
  <2>7. runs' = [runs EXCEPT ![r] = [runs[r] EXCEPT !.phase = left]]
    BY <2>1, <2>4 DEF AgentTypeOK
  <2>8. Turns(r, left)
    BY <2>1, <2>6, <2>7 DEF Turns, Becomes, AgentTypeOK
  <2>9. runs'[r].phase = left
    BY <2>1, <2>3, <2>7, RunFields DEF AgentTypeOK
  <2> QED
    BY <2>1, <2>4, <2>8, <2>9 DEF Leaves
<1> QED
  BY <1>1, <1>3, <1>4, <1>5, <1>6 DEF e

\* A run comes to its end: its session's process entry is popped, whatever it is,
\* and its report is sent if it makes one and can.
LEMMA RunExitsDoes ==
    ASSUME AgentTypeOK, NEW r \in Runs, RunExits(r),
           NEW d, d = runs[r].dc, NEW s, s = runs[r].session
    PROVE  /\ d \in Devcontainers /\ s \in Sessions
           /\ runs[r].phase \in {"working", "killed"}
           /\ Turns(r, "reported")
           /\ processes' \in [Sessions -> Optional(Runs)] /\ processes'[s] = None
           /\ \A x \in Sessions : x # s => processes'[x] = processes[x]
           /\ \/ evts' = evts /\ lapses' = lapses /\ ~runs[r].wired
              \/ evts' = evts /\ lapses' = lapses \cup {"unreported"}
              \/ /\ lapses' = lapses
                 /\ \E type \in {"session_completed", "session_failed"} :
                        Emits(d, SessionEvent(type, d, s))
           /\ UNCHANGED <<rmvars, link, cmds, busy, tasks>>
<1>1. runs[r] \in Run /\ runs[r].phase \in {"working", "killed"}
  BY DEF RunExits, AgentTypeOK
<1>2. d \in Devcontainers /\ s \in Sessions
  BY <1>1, RunFields
<1>3. /\ processes' = [processes EXCEPT ![s] = None]
      /\ runs' = [runs EXCEPT ![r].phase = "reported"]
      /\ UNCHANGED <<rmvars, link, cmds, busy, tasks>>
  BY DEF RunExits
<1>4. PICK type \in RunReports :
         /\ IF type # None /\ runs[r].wired
            THEN Emit(d, SessionEvent(type, d, s)) ELSE UNCHANGED evts
         /\ lapses' = IF type = None THEN lapses \cup {"unreported"} ELSE lapses
  BY DEF RunExits
<1>5. Turns(r, "reported")
  <2>1. [runs[r] EXCEPT !.phase = "reported"] \in Run
    BY <1>1, RunGoesOn DEF Phase
  <2> QED
    BY <1>3, <2>1 DEF Turns, Becomes, AgentTypeOK
<1>6. ASSUME type # None, runs[r].wired
      PROVE  type \in {"session_completed", "session_failed"} /\ Emits(d, SessionEvent(type, d, s))
  <2>1. type \in {"session_completed", "session_failed"} /\ type \in PlainSessionEventTypes
    BY <1>6 DEF RunReports, PlainSessionEventTypes
  <2>2. SessionEvent(type, d, s) \in EventFrom(d)
    BY <1>2, <2>1, MadeEvents
  <2> QED
    BY <1>2, <1>4, <1>6, <2>1, <2>2, EmitDoes
<1>7. /\ processes' \in [Sessions -> Optional(Runs)] /\ processes'[s] = None
      /\ \A x \in Sessions : x # s => processes'[x] = processes[x]
  BY <1>2, <1>3 DEF AgentTypeOK, Optional
<1>8. \/ evts' = evts /\ lapses' = lapses /\ ~runs[r].wired
      \/ evts' = evts /\ lapses' = lapses \cup {"unreported"}
      \/ /\ lapses' = lapses
         /\ \E x \in {"session_completed", "session_failed"} : Emits(d, SessionEvent(x, d, s))
  BY <1>4, <1>6
<1> QED
  BY <1>1, <1>2, <1>3, <1>5, <1>7, <1>8

\* Its task is done: the session's task entry is popped, whatever it is.
LEMMA RunReturnsDoes ==
    ASSUME AgentTypeOK, NEW r \in Runs, RunReturns(r), NEW s, s = runs[r].session
    PROVE  /\ s \in Sessions /\ runs[r].phase = "reported"
           /\ Turns(r, "gone")
           /\ tasks' \in [Sessions -> Optional(Runs)] /\ tasks'[s] = None
           /\ \A x \in Sessions : x # s => tasks'[x] = tasks[x]
           /\ lapses' = IF tasks[s] \in {r, None} THEN lapses ELSE lapses \cup {"task_evicted"}
           /\ UNCHANGED <<rmvars, link, cmds, evts, busy, processes>>
<1>1. runs[r] \in Run /\ runs[r].phase = "reported"
  BY DEF RunReturns, AgentTypeOK
<1>2. s \in Sessions /\ [runs[r] EXCEPT !.phase = "gone"] \in Run
  BY <1>1, RunFields, RunGoesOn DEF Phase
<1> QED
  BY <1>1, <1>2 DEF RunReturns, Turns, Becomes, AgentTypeOK, Optional

\* An orphan ends unnoticed.
LEMMA OrphanExitsDoes ==
    ASSUME AgentTypeOK, NEW r \in Runs, OrphanExits(r)
    PROVE  /\ runs[r].phase = "orphan"
           /\ Turns(r, "gone")
           /\ UNCHANGED <<rmvars, link, cmds, evts, busy, processes, tasks, lapses>>
<1>1. runs[r] \in Run /\ runs[r].phase = "orphan"
  BY DEF OrphanExits, AgentTypeOK
<1>2. [runs[r] EXCEPT !.phase = "gone"] \in Run
  BY <1>1, RunGoesOn DEF Phase
<1> QED
  BY <1>1, <1>2 DEF OrphanExits, Turns, Becomes, AgentTypeOK

\* A working claude asks.
LEMMA AskDoes ==
    ASSUME AgentTypeOK, NEW r \in Runs, NEW type \in Asks, Ask(r, type),
           NEW d, d = runs[r].dc, NEW s, s = runs[r].session
    PROVE  /\ d \in Devcontainers /\ s \in Sessions /\ runs[r].phase = "working"
           /\ type \in {"approval_requested", "agent_asked_question"}
           /\ Emits(d, SessionEvent(type, d, s))
           /\ UNCHANGED <<rmvars, link, cmds, busy, runs, processes, tasks, lapses>>
<1>1. runs[r] \in Run /\ runs[r].phase = "working"
  BY DEF Ask, AgentTypeOK
<1>2. d \in Devcontainers /\ s \in Sessions
  BY <1>1, RunFields
<1>3. type \in {"approval_requested", "agent_asked_question"}
  BY AsksAreInterventions
<1>4. SessionEvent(type, d, s) \in EventFrom(d)
  BY <1>2, <1>3, MadeEvents DEF PlainSessionEventTypes
<1>5. Emits(d, SessionEvent(type, d, s))
  BY <1>2, <1>4, EmitDoes DEF Ask
<1> QED
  BY <1>1, <1>2, <1>3, <1>5 DEF Ask

-----------------------------------------------------------------------------
\* Connections and containers.

\* The channel of d is empty and its consumer idle.
Empties(d) ==
    /\ DOMAIN cmds' = Devcontainers /\ cmds'[d] = <<>>
    /\ DOMAIN evts' = Devcontainers /\ evts'[d] = <<>>
    /\ DOMAIN busy' = Devcontainers /\ busy'[d] = None
    /\ \A x \in Devcontainers : x # d =>
          cmds'[x] = cmds[x] /\ evts'[x] = evts[x] /\ busy'[x] = busy[x]

\* Closing a channel does that.
LEMMA CloseChannelDoes ==
    ASSUME AgentTypeOK, NEW d \in Devcontainers, CloseChannel(d)
    PROVE  /\ Empties(d) /\ link' \in [Devcontainers -> BOOLEAN]
           /\ CommandsTyped' /\ EventsTyped' /\ WorkTyped'
<1>1. Empties(d) /\ link' \in [Devcontainers -> BOOLEAN]
  BY DEF CloseChannel, Empties, AgentTypeOK
<1>2. <<>> \in Seq(CommandTo(d)) /\ <<>> \in Seq(EventFrom(d)) /\ Len(<<>>) <= MaxInFlight
  BY QueuesHoldSomething
<1>3. CommandsTyped' /\ EventsTyped' /\ WorkTyped'
  BY <1>1, <1>2, TypeParts DEF Empties, CommandsTyped, EventsTyped, WorkTyped, Optional
<1> QED
  BY <1>1, <1>3

\* A drop leaves the runs to themselves: those of d are silenced, and one that was
\* being terminated is gone, orphaned, or still what it was.
LEMMA DropDoes ==
    ASSUME AgentTypeOK, EntriesNameRuns, NEW d \in Devcontainers, Drop(d)
    PROVE  /\ Empties(d) /\ link' \in [Devcontainers -> BOOLEAN]
           /\ CommandsTyped' /\ EventsTyped' /\ WorkTyped'
           /\ runs' \in [Runs -> Run]
           /\ \A r \in Runs :
                /\ runs'[r].dc = runs[r].dc /\ runs'[r].session = runs[r].session
                /\ ~Terminates(d, r) => runs'[r].phase = runs[r].phase
                /\ Terminates(d, r) => /\ runs'[r].phase \in Interrupted(runs[r].phase)
                                       /\ runs'[r].phase \in {"orphan", "working"} =>
                                             "stop_interrupted" \in lapses'
           /\ lapses \subseteq lapses' /\ "dropped" \in lapses'
           /\ lapses' \subseteq lapses \cup {"dropped", "stop_interrupted"}
           /\ UNCHANGED <<rmvars, processes, tasks>>
<1>1. /\ CloseChannel(d) /\ UNCHANGED <<rmvars, processes, tasks>>
  BY DEF Drop
<1>2. PICK left \in Phase :
         /\ \A r \in Runs : Terminates(d, r) => left \in Interrupted(runs[r].phase)
         /\ runs' = [r \in Runs |->
                       [runs[r] EXCEPT !.wired = @ /\ runs[r].dc # d,
                                       !.phase = IF Terminates(d, r) THEN left ELSE @]]
         /\ lapses' = lapses \cup {"dropped"} \cup
                       (IF left \in {"orphan", "working"} THEN {"stop_interrupted"} ELSE {})
  BY DEF Drop, Terminates
<1>3. ASSUME NEW r \in Runs
      PROVE  /\ runs'[r] \in Run
             /\ runs'[r].dc = runs[r].dc /\ runs'[r].session = runs[r].session
             /\ ~Terminates(d, r) => runs'[r].phase = runs[r].phase
             /\ Terminates(d, r) => runs'[r].phase = left
  <2> DEFINE x == runs[r]
  <2> DEFINE wired == x.wired /\ x.dc # d
  <2> DEFINE phase == IF Terminates(d, r) THEN left ELSE x.phase
  <2>1. x \in Run
    BY DEF AgentTypeOK
  <2>2. runs'[r] = [x EXCEPT !.wired = wired, !.phase = phase]
    BY <1>2
  <2>3. wired \in BOOLEAN
    OBVIOUS
  <2>4. CASE x.phase # "unused"
    <3>1. Terminates(d, r) => left # "unused"
      <4>1. Terminates(d, r) => left \in Interrupted(x.phase)
        BY <1>2
      <4> QED
        BY <2>4, <4>1 DEF Interrupted
    <3>2. phase \in Phase \ {"unused"}
      BY <2>1, <2>4, <3>1, RunFields
    <3> HIDE DEF x, wired, phase
    <3>3. [x EXCEPT !.wired = wired, !.phase = phase] \in Run
      BY <2>1, <2>3, <2>4, <3>2, RunGoesOn
    <3>4. /\ [x EXCEPT !.wired = wired, !.phase = phase].dc = x.dc
          /\ [x EXCEPT !.wired = wired, !.phase = phase].session = x.session
          /\ [x EXCEPT !.wired = wired, !.phase = phase].phase = phase
      BY <2>1 DEF Run
    <3> QED
      BY <2>2, <3>3, <3>4 DEF x, phase
  <2>5. CASE x.phase = "unused"
    <3>1. x = [dc |-> None, session |-> None, phase |-> "unused", wired |-> FALSE]
      BY <2>1, <2>5 DEF Run
    <3>2. ~Terminates(d, r)
      BY <3>1, NoneIsNoId DEF EntriesNameRuns, TerminationsApart
    <3>3. x.wired = FALSE /\ x.phase = "unused"
      BY <3>1
    <3>4. wired = FALSE /\ phase = "unused"
      BY <3>2, <3>3
    <3> HIDE DEF x, wired, phase
    <3>5. runs'[r] = x
      BY <2>2, <3>1, <3>4
    <3> QED
      BY <2>1, <3>2, <3>5 DEF x
  <2> QED
    BY <2>4, <2>5
<1>4. runs' \in [Runs -> Run]
  BY <1>2, <1>3
<1> QED
  BY <1>1, <1>2, <1>3, <1>4, CloseChannelDoes

\* Everything of a stopped container is gone.
LEMMA ContainerStopsDoes ==
    ASSUME AgentTypeOK, NEW d \in Devcontainers, ContainerStops(d)
    PROVE  /\ Empties(d) /\ link' \in [Devcontainers -> BOOLEAN]
           /\ CommandsTyped' /\ EventsTyped' /\ WorkTyped'
           /\ runs' \in [Runs -> Run]
           /\ \A r \in Runs :
                /\ runs'[r].dc = runs[r].dc /\ runs'[r].session = runs[r].session
                /\ runs[r].dc # d => runs'[r] = runs[r]
                /\ runs[r].dc = d => runs'[r].phase = "gone"
           /\ processes' \in [Sessions -> Optional(Runs)]
           /\ \A s \in Sessions :
                processes'[s] = IF processes[s] # None /\ runs[processes[s]].dc = d
                                THEN None ELSE processes[s]
           /\ tasks' \in [Sessions -> Optional(Runs)]
           /\ \A s \in Sessions :
                tasks'[s] = IF tasks[s] # None /\ runs[tasks[s]].dc = d THEN None ELSE tasks[s]
           /\ lapses' = lapses \cup {"dropped"}
           /\ UNCHANGED rmvars
<1>1. CloseChannel(d) /\ UNCHANGED rmvars /\ lapses' = lapses \cup {"dropped"}
  BY DEF ContainerStops
<1>2. runs' = [r \in Runs |-> IF r # None /\ runs[r].dc = d
                              THEN [runs[r] EXCEPT !.phase = "gone"] ELSE runs[r]]
  BY DEF ContainerStops
<1>3. ASSUME NEW r \in Runs
      PROVE  /\ runs'[r] \in Run
             /\ runs'[r].dc = runs[r].dc /\ runs'[r].session = runs[r].session
             /\ runs[r].dc # d => runs'[r] = runs[r]
             /\ runs[r].dc = d => runs'[r].phase = "gone"
  <2>1. runs[r] \in Run /\ r # None
    BY RunsAreNotNone DEF AgentTypeOK
  <2>2. CASE runs[r].dc = d
    <3>1. runs[r].phase # "unused"
      BY <2>1, <2>2, RunFields, NoneIsNoId
    <3>2. [runs[r] EXCEPT !.phase = "gone"] \in Run
      BY <2>1, <3>1, RunGoesOn DEF Phase
    <3>3. /\ [runs[r] EXCEPT !.phase = "gone"].dc = runs[r].dc
          /\ [runs[r] EXCEPT !.phase = "gone"].session = runs[r].session
          /\ [runs[r] EXCEPT !.phase = "gone"].phase = "gone"
      BY <2>1 DEF Run
    <3> QED
      BY <1>2, <2>1, <2>2, <3>2, <3>3
  <2>3. CASE runs[r].dc # d
    BY <1>2, <2>1, <2>3
  <2> QED
    BY <2>2, <2>3
<1>4. runs' \in [Runs -> Run]
  BY <1>2, <1>3
<1>5. /\ processes' \in [Sessions -> Optional(Runs)]
      /\ \A s \in Sessions :
           processes'[s] = IF processes[s] # None /\ runs[processes[s]].dc = d
                           THEN None ELSE processes[s]
  BY DEF ContainerStops, AgentTypeOK, Optional
<1>6. /\ tasks' \in [Sessions -> Optional(Runs)]
      /\ \A s \in Sessions :
           tasks'[s] = IF tasks[s] # None /\ runs[tasks[s]].dc = d THEN None ELSE tasks[s]
  BY DEF ContainerStops, AgentTypeOK, Optional
<1> QED
  BY <1>1, <1>3, <1>4, <1>5, <1>6, CloseChannelDoes

\* A connection opens the channel and does nothing else.
LEMMA AgentConnectsDoes ==
    ASSUME AgentTypeOK, NEW d \in Devcontainers, AgentConnects(d)
    PROVE  /\ link' \in [Devcontainers -> BOOLEAN]
           /\ UNCHANGED <<rmvars, cmds, evts, busy, runs, processes, tasks, lapses>>
BY DEF AgentConnects, AgentTypeOK

-----------------------------------------------------------------------------
\* The kinds of steps.

\* What every later argument starts from.
Base == Consistent /\ AgentTypeOK /\ OneHome /\ AnswersBelong /\ EntriesNameRuns

RouteStep ==
    \/ \E d \in Devcontainers, s \in Sessions : StartAgentSession(d, s)
    \/ \E s \in Sessions : ResumeAgentSession(s)
    \/ \E d \in Devcontainers : \E c : Orders(d, c)
    \/ RowsOnly

ConsumerStep(d) ==
    \/ \E c, e : Echoes(d, c, e)
    \/ \E r \in Runs : Spawn(d, r)
    \/ HandleStop(d)
    \/ FinishStop(d)

LinkStep(d) == AgentConnects(d) \/ Drop(d) \/ ContainerStops(d)

\* A step is one of these.
LEMMA StepKindsOfAgent ==
    ASSUME Base, [Next]_vars
    PROVE  \/ RouteStep
           \/ \E d \in Devcontainers : TakeInEvent(d) \/ ConsumerStep(d) \/ LinkStep(d)
           \/ \E r \in Runs : RunStep(r)
           \/ UNCHANGED vars
<1> USE DEF Base
<1>1. ASSUME Route PROVE RouteStep
  <2>1. ASSUME NEW s \in Sessions, StopAgentSession(s) PROVE RouteStep
    BY <2>1, StopDoes DEF RouteStep
  <2>2. ASSUME NEW s \in Sessions, NEW i \in InboxEvents, SendUserInput(s, i) PROVE RouteStep
    BY <2>2, InputDoes DEF RouteStep
  <2>3. ASSUME NEW s \in Sessions, NEW a \in Approvals, NEW r \in Decided, ResolveApproval(s, a, r)
        PROVE  RouteStep
    BY <2>3, ResolveDoes DEF RouteStep
  <2>4. ASSUME NEW t \in Threads, NEW s \in Sessions,
               DeleteSessionCheck(t, s) /\ UNCHANGED <<agvars, lapses>>
        PROVE  RouteStep
    BY <2>4 DEF RouteStep, RowsOnly
  <2>5. ASSUME NEW t \in Threads, DeleteAgentSession(t) PROVE RouteStep
    BY <2>5 DEF RouteStep, RowsOnly, DeleteAgentSession
  <2>6. ASSUME NEW d \in Devcontainers,
               (CreateDevcontainer(d) \/ DeleteDevcontainer(d)) /\ UNCHANGED <<agvars, lapses>>
        PROVE  RouteStep
    BY <2>6 DEF RouteStep, RowsOnly
  <2>7. ASSUME NEW d \in Devcontainers, NEW s \in Sessions, StartAgentSession(d, s) PROVE RouteStep
    BY <2>7 DEF RouteStep
  <2>8. ASSUME NEW s \in Sessions, ResumeAgentSession(s) PROVE RouteStep
    BY <2>8 DEF RouteStep
  <2> QED
    BY <1>1, <2>1, <2>2, <2>3, <2>4, <2>5, <2>6, <2>7, <2>8 DEF Route
<1>2. ASSUME NEW d \in Devcontainers, Consume(d) PROVE ConsumerStep(d)
  <2>1. CASE HandleStart(d)
    BY <2>1, HandleStartDoes DEF ConsumerStep
  <2>2. CASE HandleUserInput(d)
    BY <2>2, HandleUserInputDoes DEF ConsumerStep
  <2>3. CASE HandleResolveApproval(d)
    BY <2>3, HandleResolveApprovalDoes DEF ConsumerStep
  <2> QED
    BY <1>2, <2>1, <2>2, <2>3 DEF Consume, ConsumerStep
<1>3. ASSUME NEW d \in Devcontainers, WorkerReports(d) PROVE RouteStep
  BY <1>3, WorkerReportsDoes DEF RouteStep
<1> QED
  BY <1>1, <1>2, <1>3 DEF Next, LinkStep

\* Every step leaves the agent's state well typed.
LEMMA NextAgentType ==
    ASSUME Base, [Next]_vars
    PROVE  AgentTypeOK'
<1> USE DEF Base
<1>t. /\ link \in [Devcontainers -> BOOLEAN]
      /\ CommandsTyped /\ EventsTyped /\ WorkTyped
      /\ runs \in [Runs -> Run]
      /\ processes \in [Sessions -> Optional(Runs)]
      /\ tasks \in [Sessions -> Optional(Runs)]
      /\ lapses \subseteq Lapse
  BY TypeParts
<1>c. UNCHANGED cmds => CommandsTyped'
  BY <1>t DEF CommandsTyped
<1>e. UNCHANGED evts => EventsTyped'
  BY <1>t DEF EventsTyped
<1>w. UNCHANGED busy => WorkTyped'
  BY <1>t DEF WorkTyped
<1>l. /\ "dropped" \in Lapse /\ "unreported" \in Lapse /\ "resumed_over_stop" \in Lapse
      /\ "stop_interrupted" \in Lapse /\ "task_evicted" \in Lapse /\ "late_answer" \in Lapse
      /\ "double_answer" \in Lapse /\ "active_deleted" \in Lapse
  BY DEF Lapse
<1> HIDE DEF Base
<1> USE <1>t, <1>c, <1>e, <1>w, <1>l, TypePartsNext
<1>1. CASE RouteStep
  <2>1. ASSUME NEW d \in Devcontainers, NEW s \in Sessions, StartAgentSession(d, s)
        PROVE  AgentTypeOK'
    BY <2>1, StartDoes, SendsAdds DEF Base
  <2>2. ASSUME NEW s \in Sessions, ResumeAgentSession(s) PROVE AgentTypeOK'
    BY <2>2, ResumeDoes, SendsAdds DEF Base
  <2>3. ASSUME NEW d \in Devcontainers, NEW c, Orders(d, c) PROVE AgentTypeOK'
    BY <2>3, SendsAdds DEF Orders
  <2>4. ASSUME RowsOnly PROVE AgentTypeOK'
    BY <2>4 DEF RowsOnly, agvars
  <2> QED
    BY <1>1, <2>1, <2>2, <2>3, <2>4 DEF RouteStep
<1>2. ASSUME NEW d \in Devcontainers, TakeInEvent(d) PROVE AgentTypeOK'
  BY <1>2, TakeInDoes, TakesInRemoves DEF Base
<1>3. ASSUME NEW d \in Devcontainers, ConsumerStep(d) PROVE AgentTypeOK'
  <2>1. ASSUME NEW c, NEW e, Echoes(d, c, e) PROVE AgentTypeOK'
    BY <2>1, TakesRemoves, EmitsAdds, WorkIsWork DEF Echoes
  <2>2. ASSUME NEW r \in Runs, Spawn(d, r) PROVE AgentTypeOK'
    <3> DEFINE s == busy[d].command.session
    <3>1. /\ \E x : Becomes(r, x)
          /\ processes' \in [Sessions -> Optional(Runs)] /\ tasks' \in [Sessions -> Optional(Runs)]
          /\ TurnsTo(d, None) /\ UNCHANGED <<link, cmds, evts, lapses>>
      BY <2>2, SpawnDoes DEF Base, s
    <3> QED
      BY <3>1, WorkIsWork DEF Turns, Becomes
  <2>3. ASSUME HandleStop(d) PROVE AgentTypeOK'
    <3>1. ASSUME NEW c, c = Head(cmds[d]), NEW s, s = c.session, NEW r, r = processes[s]
          PROVE  AgentTypeOK'
      <4> DEFINE w == [step |-> "stop", command |-> c, run |-> r]
      <4>1. /\ Takes(d, c) /\ TurnsTo(d, w) /\ Pops(s)
            /\ Turns(r, "dying") \/ runs' = runs
            /\ UNCHANGED <<link, evts, lapses>>
        BY <2>3, <3>1, HandleStopDoes DEF Base
      <4> HIDE DEF w
      <4> QED
        BY <4>1, TakesRemoves, WorkIsWork DEF Turns, Becomes, Pops
    <3> QED
      BY <3>1
  <2>4. ASSUME FinishStop(d) PROVE AgentTypeOK'
    BY <2>4, FinishStopDoes, EmitsAdds, WorkIsWork DEF Leaves, Turns, Becomes, Base
  <2> QED
    BY <1>3, <2>1, <2>2, <2>3, <2>4 DEF ConsumerStep
<1>4. ASSUME NEW d \in Devcontainers, LinkStep(d) PROVE AgentTypeOK'
  <2>1. CASE AgentConnects(d)
    BY <2>1, AgentConnectsDoes DEF Base
  <2>2. CASE Drop(d)
    BY <2>2, DropDoes DEF Base
  <2>3. CASE ContainerStops(d)
    BY <2>3, ContainerStopsDoes DEF Base
  <2> QED
    BY <1>4, <2>1, <2>2, <2>3 DEF LinkStep
<1>5. ASSUME NEW r \in Runs, RunStep(r) PROVE AgentTypeOK'
  <2>1. CASE RunExits(r)
    <3>1. PICK d \in Devcontainers :
            /\ Turns(r, "reported")
            /\ processes' \in [Sessions -> Optional(Runs)]
            /\ evts' = evts \/ \E e : Emits(d, e)
            /\ lapses' \subseteq lapses \cup {"unreported"}
            /\ UNCHANGED <<link, cmds, busy, tasks>>
      BY <2>1, RunExitsDoes DEF Base
    <3> QED
      BY <3>1, EmitsAdds DEF Turns, Becomes
  <2>2. CASE RunReturns(r)
    BY <2>2, RunReturnsDoes DEF Turns, Becomes, Base
  <2>3. CASE OrphanExits(r)
    BY <2>3, OrphanExitsDoes DEF Turns, Becomes, Base
  <2>4. ASSUME NEW type \in Asks, Ask(r, type) PROVE AgentTypeOK'
    BY <2>4, AskDoes, EmitsAdds DEF Base
  <2> QED
    BY <1>5, <2>1, <2>2, <2>3, <2>4 DEF RunStep
<1>6. CASE UNCHANGED vars
  BY <1>6 DEF vars, agvars
<1> QED
  BY <1>1, <1>2, <1>3, <1>4, <1>5, <1>6, StepKindsOfAgent

-----------------------------------------------------------------------------
\* The database part of a step is a step of ReadModel.

\* Two places that mention a session are one.
LEMMA HomesAgree ==
    ASSUME OneHome, NEW s \in Sessions, NEW d \in Devcontainers, Mentions(d, s),
           NEW x \in Devcontainers, Mentions(x, s)
    PROVE  x = d /\ s \in minted
BY DEF OneHome

\* The row of a session mentions it.
LEMMA RowMentions ==
    ASSUME Consistent, NEW s \in Sessions, sessions[s] # None
    PROVE  sessions[s].dc \in Devcontainers /\ Mentions(sessions[s].dc, s)
BY HomeIsDevcontainer DEF Mentions

\* An event that is accepted is one a runtime may send: the ids it echoes still
\* belong together.
LEMMA AcceptedIsExpected ==
    ASSUME Base, NEW d \in Devcontainers, NEW e \in Members(evts[d]), Accepted(e)
    PROVE  e \in RuntimeEvents
<1>1. e \in EventFrom(d) /\ e.session \in Sessions
  <2>1. evts[d] \in Seq(EventFrom(d))
    BY DEF Base, AgentTypeOK
  <2> QED
    BY <2>1, MembersOf, EventFields
<1>2. sessions[e.session] # None
  BY <1>1, NoneIsNoId DEF Accepted, Exists
<1>3. sessions[e.session].dc = d
  <2>1. Mentions(d, e.session)
    BY DEF Mentions, Carries
  <2> QED
    BY <1>1, <1>2, <2>1, RowMentions, HomesAgree DEF Base
<1>4. CASE \E type \in PlainSessionEventTypes, s \in Sessions : e = SessionEvent(type, d, s)
  <2>1. PICK type \in PlainSessionEventTypes, s \in Sessions : e = SessionEvent(type, d, s)
    BY <1>4
  <2>2. e.session = s
    BY <2>1, MadeEvents
  <2> QED
    BY <1>2, <1>3, <2>1, <2>2 DEF RuntimeEvents
<1>5. CASE \E s \in Sessions, i \in InboxEvents : e = UserInputSent(d, s, i)
  <2>1. PICK s \in Sessions, i \in InboxEvents : e = UserInputSent(d, s, i)
    BY <1>5
  <2>2. e.session = s /\ e.inbox = i /\ e.type = "user_input_sent"
    BY <2>1, MadeEvents
  <2>3. inbox[i] # None /\ inbox[i].session = s /\ inbox[i].type = "question"
    BY <1>2, <2>2 DEF Base, AnswersBelong, Belongs, InputBelongs
  <2>4. inbox[i].dc = d
    BY <1>3, <2>2, <2>3 DEF Base, Consistent, RowsBelongTogether
  <2>5. e \in {UserInputSent(inbox[j].dc, inbox[j].session, j) :
                 j \in {x \in InboxEvents : inbox[x] # None /\ inbox[x].type = "question"}}
    BY <2>1, <2>3, <2>4
  <2> QED
    BY <2>5 DEF RuntimeEvents
<1>6. CASE \E s \in Sessions, a \in Approvals, r \in Decided : e = ApprovalResolved(d, s, a, r)
  <2>1. PICK s \in Sessions, a \in Approvals, r \in Decided : e = ApprovalResolved(d, s, a, r)
    BY <1>6
  <2>2. e.session = s /\ e.approval = a /\ e.type = "approval_resolved"
    BY <2>1, MadeEvents
  <2>3. approvals[a] # None /\ approvals[a].session = s
    BY <1>2, <2>2 DEF Base, AnswersBelong, Belongs, ResolutionBelongs
  <2>4. approvals[a].dc = d
    BY <1>3, <2>2, <2>3 DEF Base, Consistent, RowsBelongTogether
  <2>5. e \in {ApprovalResolved(approvals[b].dc, approvals[b].session, b, q) :
                 b \in {x \in Approvals : approvals[x] # None}, q \in Decided \cup {None}}
    BY <2>1, <2>3, <2>4
  <2> QED
    BY <2>5 DEF RuntimeEvents
<1> QED
  BY <1>1, <1>4, <1>5, <1>6 DEF EventFrom

\* Every step of the system is a step of ReadModel or leaves the database alone.
LEMMA StepOfReadModel ==
    ASSUME Base, [Next]_vars
    PROVE  [ReadModelNext]_rmvars
<1>1. CASE RouteStep
  <2>1. ASSUME NEW d \in Devcontainers, NEW s \in Sessions, StartAgentSession(d, s)
        PROVE  [ReadModelNext]_rmvars
    BY <2>1 DEF StartAgentSession, ReadModelNext
  <2>2. ASSUME NEW s \in Sessions, ResumeAgentSession(s) PROVE [ReadModelNext]_rmvars
    BY <2>2 DEF ResumeAgentSession, ReadModelNext
  <2>3. ASSUME NEW d \in Devcontainers, NEW c, Orders(d, c) PROVE [ReadModelNext]_rmvars
    BY <2>3 DEF Orders
  <2>4. ASSUME RowsOnly PROVE [ReadModelNext]_rmvars
    BY <2>4 DEF RowsOnly, ReadModelNext, RestWrite
  <2> QED
    BY <1>1, <2>1, <2>2, <2>3, <2>4 DEF RouteStep
<1>2. ASSUME NEW d \in Devcontainers, TakeInEvent(d) PROVE [ReadModelNext]_rmvars
  <2>1. TakesIn(d, Head(evts[d])) /\ Intake(Head(evts[d]))
    BY <1>2, TakeInDoes DEF Base
  <2>2. Head(evts[d]) \in Members(evts[d])
    BY <2>1, TakesInRemoves, TypeParts DEF Base
  <2>3. CASE Accepted(Head(evts[d]))
    BY <2>1, <2>2, <2>3, AcceptedIsExpected DEF ReadModelNext
  <2>4. CASE ~Accepted(Head(evts[d]))
    BY <2>1, <2>4 DEF Intake, PersistEvent
  <2> QED
    BY <2>3, <2>4
<1>3. ASSUME NEW d \in Devcontainers, ConsumerStep(d) PROVE UNCHANGED rmvars
  BY <1>3 DEF ConsumerStep, Echoes, Spawn, HandleStop, FinishStop
<1>4. ASSUME NEW d \in Devcontainers, LinkStep(d) PROVE UNCHANGED rmvars
  BY <1>4 DEF LinkStep, AgentConnects, Drop, ContainerStops
<1>5. ASSUME NEW r \in Runs, RunStep(r) PROVE UNCHANGED rmvars
  BY <1>5 DEF RunStep, RunExits, RunReturns, OrphanExits, Ask
<1>6. CASE UNCHANGED vars
  BY <1>6 DEF vars
<1> QED
  BY <1>1, <1>2, <1>3, <1>4, <1>5, <1>6, StepKindsOfAgent

\* So the database stays consistent.
LEMMA StaysConsistent ==
    ASSUME Base, [Next]_vars
    PROVE  Consistent'
BY StepOfReadModel, NextType, NextBelong, NextMinted DEF Base, Consistent

-----------------------------------------------------------------------------
\* Nothing about a session ever turns up in another devcontainer.

\* A change of phase changes nothing else of a run.
LEMMA PhaseOnly ==
    ASSUME NEW x \in Run, NEW phase
    PROVE  /\ [x EXCEPT !.phase = phase].dc = x.dc
           /\ [x EXCEPT !.phase = phase].session = x.session
           /\ [x EXCEPT !.phase = phase].wired = x.wired
           /\ [x EXCEPT !.phase = phase].phase = phase
BY DEF Run

\* What a run that changes its phase keeps, and that the others keep everything.
LEMMA PhaseTurns ==
    ASSUME runs \in [Runs -> Run], NEW r \in Runs, NEW phase,
           Turns(r, phase)
    PROVE  /\ runs'[r].phase = phase
           /\ \A y \in Runs :
                /\ runs'[y].dc = runs[y].dc /\ runs'[y].session = runs[y].session
                /\ runs'[y].wired = runs[y].wired
                /\ y # r => runs'[y].phase = runs[y].phase
<1>1. runs[r] \in Run
  OBVIOUS
<1>2. /\ runs'[r].dc = runs[r].dc /\ runs'[r].session = runs[r].session
      /\ runs'[r].wired = runs[r].wired /\ runs'[r].phase = phase
  BY <1>1, PhaseOnly DEF Turns, Becomes
<1>3. \A y \in Runs : y # r => runs'[y] = runs[y]
  BY DEF Turns, Becomes
<1> QED
  BY <1>2, <1>3

\* What is in the queues, in the consumer or in a run of d about s was there, or is
\* about a row of d.
CarriesOn ==
    \A d \in Devcontainers, s \in Sessions :
        Carries(d, s)' => \/ Mentions(d, s)
                          \/ sessions'[s] # None /\ sessions'[s].dc = d

\* That is enough, as no row moves and none comes back.
LEMMA HomeKept ==
    ASSUME Base, [ReadModelNext]_rmvars, CarriesOn, Consistent'
    PROVE  OneHome'
<1>1. RowsStay
  BY NextStays DEF Base
<1>2. ASSUME NEW d \in Devcontainers, NEW s \in Sessions, Mentions(d, s)'
      PROVE  \/ Mentions(d, s)
             \/ s \notin minted /\ sessions'[s] # None /\ sessions'[s].dc = d
  <2>1. Carries(d, s)' \/ (sessions'[s] # None /\ sessions'[s].dc = d)
    BY <1>2 DEF Mentions
  <2>2. Mentions(d, s) \/ (sessions'[s] # None /\ sessions'[s].dc = d)
    BY <2>1 DEF CarriesOn
  <2> QED
    BY <1>1, <2>2 DEF RowsStay, Mentions
<1>3. ASSUME NEW d \in Devcontainers, NEW s \in Sessions, Mentions(d, s)'
      PROVE  s \in minted' /\ d \in minted'
  <2>1. sessions'[s] # None /\ sessions'[s].dc = d => s \in minted' /\ d \in minted'
    BY DEF Consistent, IdsAreMinted, RowsBelongTogether, Exists
  <2>2. Mentions(d, s) => s \in minted' /\ d \in minted'
    BY <1>1 DEF Base, OneHome, RowsStay
  <2> QED
    BY <1>2, <1>3, <2>1, <2>2
<1>4. ASSUME NEW d \in Devcontainers, NEW s \in Sessions, Mentions(d, s)',
             NEW x \in Devcontainers, Mentions(x, s)'
      PROVE  x = d
  <2>1. CASE Mentions(d, s) /\ Mentions(x, s)
    BY <2>1, HomesAgree DEF Base
  <2>2. CASE ~(Mentions(d, s) /\ Mentions(x, s))
    <3>1. s \notin minted
      BY <1>2, <1>4, <2>2
    <3>2. ~Mentions(d, s) /\ ~Mentions(x, s)
      BY <3>1 DEF Base, OneHome
    <3> QED
      BY <1>2, <1>4, <3>2
  <2> QED
    BY <2>1, <2>2
<1> QED
  BY <1>3, <1>4 DEF OneHome

\* Every kind of step carries on.
LEMMA NextCarriesOn ==
    ASSUME Base, [Next]_vars
    PROVE  CarriesOn
<1> SUFFICES ASSUME NEW x \in Devcontainers, NEW q \in Sessions, Carries(x, q)'
             PROVE  \/ Mentions(x, q)
                    \/ sessions'[q] # None /\ sessions'[q].dc = x
  BY DEF CarriesOn
<1>t. CommandsTyped /\ EventsTyped /\ WorkTyped /\ runs \in [Runs -> Run]
  BY TypeParts DEF Base
<1>c. \/ \E m \in Members(cmds'[x]) \cup Members(evts'[x]) : m.session = q
      \/ busy'[x] # None /\ busy'[x].command.session = q
      \/ \E r \in Runs : runs'[r].dc = x /\ runs'[r].session = q
  BY DEF Carries
<1>r. ASSUME \/ \E m \in Members(cmds[x]) \cup Members(evts[x]) : m.session = q
             \/ busy[x] # None /\ busy[x].command.session = q
             \/ \E r \in Runs : runs[r].dc = x /\ runs[r].session = q
             \/ sessions[q] # None /\ sessions[q].dc = x
      PROVE  Mentions(x, q)
  BY <1>r DEF Mentions, Carries
<1>1. CASE RouteStep
  <2>1. ASSUME NEW d \in Devcontainers, NEW s \in Sessions, StartAgentSession(d, s)
        PROVE  Mentions(x, q) \/ (sessions'[q] # None /\ sessions'[q].dc = x)
    <3> DEFINE c == Command("start_agent_session", d, s)
    <3>1. StartRow(d, s) /\ Sends(d, c) /\ UNCHANGED <<evts, busy, runs>>
      BY <2>1, StartDoes DEF Base
    <3>2. c.session = s
      BY MadeCommands DEF LifeCommands
    <3>3. sessions'[s] # None /\ sessions'[s].dc = d
      <4>1. sessions'[s] = [dc |-> d, status |-> "starting"] /\ sessions'[s] \in SessionRow
        BY <3>1 DEF StartRow, Base, Consistent, TypeOK, SessionRow, AgentSessionStatus, Active
      <4> QED
        BY <4>1, NoneIsNoRow
    <3> HIDE DEF c
    <3>4. /\ Members(cmds'[d]) = Members(cmds[d]) \cup {c}
          /\ \A y \in Devcontainers : y # d => cmds'[y] = cmds[y]
      BY <1>t, <3>1, SendsAdds
    <3> QED
      BY <1>c, <1>r, <3>1, <3>2, <3>3, <3>4
  <2>2. ASSUME NEW s \in Sessions, ResumeAgentSession(s), NEW d, d = sessions[s].dc
        PROVE  Mentions(x, q)
    <3> DEFINE c == Command("resume_agent_session", d, s)
    <3>1. Sends(d, c) /\ UNCHANGED <<evts, busy, runs>> /\ d \in Devcontainers /\ sessions[s] # None
      BY <2>2, ResumeDoes DEF Base
    <3>2. c.session = s
      BY <3>1, MadeCommands DEF LifeCommands
    <3> HIDE DEF c
    <3>3. /\ Members(cmds'[d]) = Members(cmds[d]) \cup {c}
          /\ \A y \in Devcontainers : y # d => cmds'[y] = cmds[y]
      BY <1>t, <3>1, SendsAdds
    <3> QED
      BY <1>c, <1>r, <2>2, <3>1, <3>2, <3>3
  <2>3. ASSUME NEW d \in Devcontainers, NEW c, Orders(d, c) PROVE Mentions(x, q)
    <3>1. /\ Sends(d, c) /\ UNCHANGED <<evts, busy, runs>>
          /\ sessions[c.session] # None /\ sessions[c.session].dc = d
      BY <2>3 DEF Orders
    <3>2. /\ Members(cmds'[d]) = Members(cmds[d]) \cup {c}
          /\ \A y \in Devcontainers : y # d => cmds'[y] = cmds[y]
      BY <1>t, <3>1, SendsAdds
    <3> QED
      BY <1>c, <1>r, <3>1, <3>2
  <2>4. ASSUME RowsOnly PROVE Mentions(x, q)
    BY <1>c, <1>r, <2>4 DEF RowsOnly, agvars
  <2> QED
    BY <1>1, <2>1, <2>2, <2>3, <2>4 DEF RouteStep
<1>2. ASSUME NEW d \in Devcontainers, TakeInEvent(d) PROVE Mentions(x, q)
  <2>1. TakesIn(d, Head(evts[d])) /\ UNCHANGED <<cmds, busy, runs>>
    BY <1>2, TakeInDoes DEF Base
  <2>2. Members(evts'[x]) \subseteq Members(evts[x])
    BY <1>t, <2>1, TakesInRemoves
  <2> QED
    BY <1>c, <1>r, <2>1, <2>2
<1>3. ASSUME NEW d \in Devcontainers, ConsumerStep(d) PROVE Mentions(x, q)
  <2>1. ASSUME NEW c, NEW e, Echoes(d, c, e) PROVE Mentions(x, q)
    <3>1. Takes(d, c) /\ Emits(d, e) /\ e.session = c.session /\ UNCHANGED runs
      BY <2>1 DEF Echoes
    <3>2. Members(cmds[d]) = Members(cmds'[d]) \cup {c} /\ (x # d => cmds'[x] = cmds[x])
      BY <1>t, <3>1, TakesRemoves
    <3>3. Members(evts'[d]) = Members(evts[d]) \cup {e} /\ (x # d => evts'[x] = evts[x])
      BY <1>t, <3>1, EmitsAdds
    <3>4. /\ x # d => busy'[x] = busy[x]
          /\ busy'[d] # None => busy'[d] = busy[d] \/ busy'[d].command = c
      BY <2>1 DEF Echoes, TurnsTo
    <3> QED
      BY <1>c, <1>r, <3>1, <3>2, <3>3, <3>4
  <2>2. ASSUME NEW r \in Runs, Spawn(d, r), NEW s, s = busy[d].command.session
        PROVE  Mentions(x, q)
    <3> DEFINE run == [dc |-> d, session |-> s, phase |-> "working", wired |-> TRUE]
    <3>1. /\ busy[d] # None /\ Becomes(r, run) /\ TurnsTo(d, None) /\ UNCHANGED <<cmds, evts>>
      BY <2>2, SpawnDoes DEF Base
    <3>2. run.dc = d /\ run.session = s
      OBVIOUS
    <3> HIDE DEF run
    <3> QED
      BY <1>c, <1>r, <2>2, <3>1, <3>2 DEF Turns, Becomes, TurnsTo
  <2>3. ASSUME HandleStop(d), NEW c, c = Head(cmds[d]), NEW s, s = c.session,
               NEW r, r = processes[s]
        PROVE  Mentions(x, q)
    <3> DEFINE w == [step |-> "stop", command |-> c, run |-> r]
    <3>0. /\ Takes(d, c) /\ TurnsTo(d, w) /\ r \in Optional(Runs)
          /\ r # None /\ tasks[s] = r => Turns(r, "dying")
          /\ ~(r # None /\ tasks[s] = r) => runs' = runs
          /\ UNCHANGED <<link, evts, lapses>>
      BY <2>3, HandleStopDoes DEF Base
    <3>2. w.command = c
      OBVIOUS
    <3> HIDE DEF w
    <3>1. /\ Takes(d, c) /\ TurnsTo(d, w) /\ r \in Optional(Runs)
          /\ (r # None /\ Turns(r, "dying")) \/ runs' = runs
          /\ UNCHANGED <<link, evts, lapses>>
      BY <3>0
    <3>3. Members(cmds[d]) = Members(cmds'[d]) \cup {c} /\ (x # d => cmds'[x] = cmds[x])
      BY <1>t, <3>1, TakesRemoves
    <3>4. r # None => r \in Runs
      BY <3>1 DEF Optional
    <3>5. \A y \in Runs : runs'[y].dc = runs[y].dc /\ runs'[y].session = runs[y].session
      <4>1. CASE runs' = runs
        BY <4>1
      <4>2. CASE runs' # runs
        BY <1>t, <3>1, <3>4, <4>2, PhaseTurns
      <4> QED
        BY <4>1, <4>2
    <3> QED
      BY <1>c, <1>r, <3>1, <3>2, <3>3, <3>5 DEF TurnsTo
  <2>4. ASSUME FinishStop(d), NEW s, s = busy[d].command.session, NEW r, r = busy[d].run
        PROVE  Mentions(x, q)
    <3> DEFINE e == SessionEvent("session_stopped", d, s)
    <3>1. /\ s \in Sessions /\ busy[d] # None /\ Emits(d, e) /\ TurnsTo(d, None)
          /\ r \in Optional(Runs)
          /\ \/ r # None /\ Leaves(r)
             \/ runs' = runs
          /\ UNCHANGED cmds
      BY <2>4, FinishStopDoes DEF Base
    <3>2. e.session = s
      BY <3>1, MadeEvents DEF PlainSessionEventTypes
    <3> HIDE DEF e
    <3>3. Members(evts'[d]) = Members(evts[d]) \cup {e} /\ (x # d => evts'[x] = evts[x])
      BY <1>t, <3>1, EmitsAdds
    <3>4. r # None => r \in Runs
      BY <3>1 DEF Optional
    <3>5. \A y \in Runs : runs'[y].dc = runs[y].dc /\ runs'[y].session = runs[y].session
      <4>1. CASE runs' = runs
        BY <4>1
      <4>2. CASE runs' # runs
        BY <1>t, <3>1, <3>4, <4>2, PhaseTurns DEF Leaves
      <4> QED
        BY <4>1, <4>2
    <3> QED
      BY <1>c, <1>r, <2>4, <3>1, <3>2, <3>3, <3>5 DEF TurnsTo
  <2> QED
    BY <1>3, <2>1, <2>2, <2>3, <2>4 DEF ConsumerStep
<1>4. ASSUME NEW d \in Devcontainers, LinkStep(d) PROVE Mentions(x, q)
  <2>1. CASE AgentConnects(d)
    BY <1>c, <1>r, <2>1, AgentConnectsDoes DEF Base
  <2>2. ASSUME Empties(d), \A r \in Runs : runs'[r].dc = runs[r].dc /\ runs'[r].session = runs[r].session
        PROVE  Mentions(x, q)
    BY <1>c, <1>r, <2>2, EmptyQueue DEF Empties
  <2> QED
    BY <1>4, <2>1, <2>2, DropDoes, ContainerStopsDoes DEF LinkStep, Base
<1>5. ASSUME NEW r \in Runs, RunStep(r), NEW d, d = runs[r].dc, NEW s, s = runs[r].session
      PROVE  Mentions(x, q)
  <2>1. ASSUME d \in Devcontainers, s \in Sessions, NEW type \in PlainSessionEventTypes,
               Emits(d, SessionEvent(type, d, s)), NEW m \in Members(evts'[x]), m.session = q
        PROVE  Mentions(x, q)
    <3> DEFINE e == SessionEvent(type, d, s)
    <3>1. e.session = s
      BY <2>1, MadeEvents
    <3>2. Emits(d, e)
      BY <2>1
    <3> HIDE DEF e
    <3>3. Members(evts'[d]) = Members(evts[d]) \cup {e} /\ (x # d => evts'[x] = evts[x])
      BY <1>t, <2>1, <3>2, EmitsAdds
    <3> QED
      BY <1>5, <1>r, <2>1, <3>1, <3>3
  <2>2. ASSUME NEW phase, Turns(r, phase)
        PROVE  \A y \in Runs : runs'[y].dc = runs[y].dc /\ runs'[y].session = runs[y].session
    BY <1>t, <1>5, <2>2, PhaseTurns
  <2>3. CASE RunExits(r)
    <3>1. /\ d \in Devcontainers /\ s \in Sessions /\ UNCHANGED <<cmds, busy>>
          /\ Turns(r, "reported")
          /\ \/ evts' = evts
             \/ \E type \in {"session_completed", "session_failed"} :
                    Emits(d, SessionEvent(type, d, s))
      BY <1>5, <2>3, RunExitsDoes DEF Base
    <3>2. \A m \in Members(evts'[x]) : m.session = q => m \in Members(evts[x]) \/ Mentions(x, q)
      BY <2>1, <3>1 DEF PlainSessionEventTypes
    <3> QED
      BY <1>c, <1>r, <2>2, <3>1, <3>2
  <2>4. CASE RunReturns(r)
    BY <1>5, <1>c, <1>r, <2>2, <2>4, RunReturnsDoes DEF Base
  <2>5. CASE OrphanExits(r)
    BY <1>c, <1>r, <2>2, <2>5, OrphanExitsDoes DEF Base
  <2>6. ASSUME NEW type \in Asks, Ask(r, type) PROVE Mentions(x, q)
    <3>1. /\ d \in Devcontainers /\ s \in Sessions /\ UNCHANGED <<cmds, busy, runs>>
          /\ type \in PlainSessionEventTypes /\ Emits(d, SessionEvent(type, d, s))
      BY <1>5, <2>6, AskDoes DEF Base, PlainSessionEventTypes
    <3>2. \A m \in Members(evts'[x]) : m.session = q => Mentions(x, q)
      BY <2>1, <3>1
    <3> QED
      BY <1>c, <1>r, <3>1, <3>2
  <2> QED
    BY <1>5, <2>3, <2>4, <2>5, <2>6 DEF RunStep
<1>6. CASE UNCHANGED vars
  BY <1>c, <1>r, <1>6 DEF vars, agvars
<1> QED
  BY <1>1, <1>2, <1>3, <1>4, <1>5, <1>6, StepKindsOfAgent

\* So every session stays in one devcontainer.
LEMMA NextOneHome ==
    ASSUME Base, [Next]_vars
    PROVE  OneHome'
BY StepOfReadModel, StaysConsistent, NextCarriesOn, HomeKept DEF Consistent

-----------------------------------------------------------------------------
\* Answers keep belonging to what they answer.

\* An answer that belongs goes on belonging whatever happens to the database.
LEMMA StillBelongs ==
    ASSUME RowsStay, IdsAreMinted, NEW d \in Devcontainers,
           NEW m \in CommandTo(d) \cup EventFrom(d), Belongs(m), m.session \in minted
    PROVE  Belongs(m)'
<1>1. /\ m.session \in Sessions
      /\ m.type \in {"send_user_input", "user_input_sent"} => m.inbox \in InboxEvents
      /\ m.type \in {"resolve_approval", "approval_resolved"} => m.approval \in Approvals
  <2>1. CASE m \in CommandTo(d)
    BY <2>1, CommandFields DEF LifeCommands
  <2>2. CASE m \in EventFrom(d)
    BY <2>2, EventFields DEF PlainSessionEventTypes
  <2> QED
    BY <2>1, <2>2
<1>2. sessions'[m.session] # None => sessions[m.session] # None
  BY <1>1 DEF RowsStay
<1>3. ASSUME m.inbox \in InboxEvents, InputBelongs(m) PROVE InputBelongs(m)'
  BY <1>1, <1>2, <1>3 DEF InputBelongs, RowsStay
<1>4. ASSUME m.approval \in Approvals, ResolutionBelongs(m) PROVE ResolutionBelongs(m)'
  <2>1. m.approval \in minted'
    BY <1>4 DEF ResolutionBelongs, RowsStay
  <2>2. ASSUME sessions'[m.session] # None PROVE approvals'[m.approval] # None
    <3>1. approvals[m.approval] # None /\ approvals[m.approval].session = m.session
      BY <1>2, <1>4, <2>2 DEF ResolutionBelongs
    <3> QED
      BY <1>4, <2>2, <3>1 DEF RowsStay
  <2>3. ASSUME approvals'[m.approval] # None
        PROVE  approvals'[m.approval].session = m.session
    <3>1. /\ approvals[m.approval] # None
          /\ approvals'[m.approval].session = approvals[m.approval].session
      BY <1>4, <2>3 DEF RowsStay, ResolutionBelongs
    <3> QED
      BY <1>4, <3>1 DEF ResolutionBelongs
  <2> QED
    BY <2>1, <2>2, <2>3 DEF ResolutionBelongs
<1> QED
  BY <1>1, <1>3, <1>4 DEF Belongs

\* What a queue of x holds after a step it held before, or is about no answer, or
\* belongs.
LEMMA NewMessages ==
    ASSUME Base, [Next]_vars, NEW x \in Devcontainers,
           NEW m \in Members(cmds'[x]) \cup Members(evts'[x])
    PROVE  \/ m.type \notin {"send_user_input", "user_input_sent",
                             "resolve_approval", "approval_resolved"}
           \/ Belongs(m) /\ m.session \in minted
<1> DEFINE Good == \/ m.type \notin {"send_user_input", "user_input_sent",
                                     "resolve_approval", "approval_resolved"}
                   \/ Belongs(m) /\ m.session \in minted
<1>t. CommandsTyped /\ EventsTyped
  BY TypeParts DEF Base
<1>o. ASSUME m \in Members(cmds[x]) \cup Members(evts[x]) PROVE Good
  <2>1. m.session \in Sessions
    <3>1. Members(cmds[x]) \subseteq CommandTo(x) /\ Members(evts[x]) \subseteq EventFrom(x)
      BY <1>t, MembersOf DEF CommandsTyped, EventsTyped
    <3> QED
      BY <1>o, <3>1, CommandFields, EventFields
  <2>2. Mentions(x, m.session)
    BY <1>o DEF Mentions, Carries
  <2> QED
    BY <1>o, <2>1, <2>2, HomesAgree DEF Base, AnswersBelong
<1> SUFFICES Good
  OBVIOUS
<1> HIDE DEF Good
<1>s. ASSUME NEW d \in Devcontainers, NEW c, Sends(d, c), UNCHANGED evts, m = c => Good
      PROVE  Good
  BY <1>t, <1>o, <1>s, SendsAdds
<1>e. ASSUME NEW d \in Devcontainers, NEW e, Emits(d, e),
             Members(cmds'[x]) \subseteq Members(cmds[x]), m = e => Good
      PROVE  Good
  BY <1>t, <1>o, <1>e, EmitsAdds
<1>q. ASSUME Members(cmds'[x]) \subseteq Members(cmds[x]), Members(evts'[x]) \subseteq Members(evts[x])
      PROVE  Good
  BY <1>o, <1>q
<1>p. ASSUME NEW type \in PlainSessionEventTypes, NEW d \in Devcontainers, NEW s \in Sessions,
             m = SessionEvent(type, d, s)
      PROVE  Good
  BY <1>p, MadeEvents DEF PlainSessionEventTypes, Good
<1>1. CASE RouteStep
  <2>1. ASSUME NEW d \in Devcontainers, NEW s \in Sessions, NEW type \in LifeCommands,
               Sends(d, Command(type, d, s)), UNCHANGED evts
        PROVE  Good
    BY <1>s, <2>1, MadeCommands DEF LifeCommands, Good
  <2>2. ASSUME NEW d \in Devcontainers, NEW s \in Sessions, StartAgentSession(d, s) PROVE Good
    BY <2>1, <2>2, StartDoes DEF Base, LifeCommands
  <2>3. ASSUME NEW s \in Sessions, ResumeAgentSession(s) PROVE Good
    <3>1. PICK d : d = sessions[s].dc
      OBVIOUS
    <3> QED
      BY <2>1, <2>3, <3>1, ResumeDoes DEF Base, LifeCommands
  <2>4. ASSUME NEW d \in Devcontainers, NEW c, Orders(d, c) PROVE Good
    <3>1. Sends(d, c) /\ UNCHANGED evts /\ sessions[c.session] # None /\ c \in CommandTo(d)
      BY <2>4 DEF Orders, Sends
    <3>2. c.session \in minted
      BY <3>1, CommandFields DEF Base, Consistent, IdsAreMinted
    <3>3. Belongs(c)
      BY <2>4 DEF Orders, Belongs
    <3> QED
      BY <1>s, <3>1, <3>2, <3>3 DEF Good
  <2>5. ASSUME RowsOnly PROVE Good
    BY <1>q, <2>5 DEF RowsOnly, agvars
  <2> QED
    BY <1>1, <2>2, <2>3, <2>4, <2>5 DEF RouteStep
<1>2. ASSUME NEW d \in Devcontainers, TakeInEvent(d) PROVE Good
  <2>1. TakesIn(d, Head(evts[d])) /\ UNCHANGED cmds
    BY <1>2, TakeInDoes DEF Base
  <2>2. Members(evts'[x]) \subseteq Members(evts[x])
    BY <1>t, <2>1, TakesInRemoves
  <2> QED
    BY <1>q, <2>1, <2>2
<1>3. ASSUME NEW d \in Devcontainers, ConsumerStep(d) PROVE Good
  <2>1. ASSUME NEW c, Takes(d, c) PROVE Members(cmds'[x]) \subseteq Members(cmds[x])
    BY <1>t, <2>1, TakesRemoves
  <2>2. ASSUME NEW c, NEW e, Echoes(d, c, e) PROVE Good
    <3>1. Takes(d, c) /\ Emits(d, e) /\ e.session = c.session
      BY <2>2 DEF Echoes
    <3>2. \/ e.type = "agent_session_started"
          \/ c.type = "send_user_input" /\ e.type = "user_input_sent" /\ e.inbox = c.inbox
          \/ c.type = "resolve_approval" /\ e.type = "approval_resolved" /\ e.approval = c.approval
      BY <2>2 DEF Echoes
    <3>3. c \in Members(cmds[d]) /\ c \in CommandTo(d)
      BY <1>t, <3>1, TakesRemoves
    <3>4. c.session \in minted
      BY <3>3, CommandFields, HomesAgree DEF Base, Mentions, Carries
    <3>5. Belongs(c)
      BY <3>3 DEF Base, AnswersBelong
    <3>6. e.type = "agent_session_started" \/ Belongs(e)
      BY <3>1, <3>2, <3>5 DEF Belongs, InputBelongs, ResolutionBelongs
    <3> QED
      BY <1>e, <2>1, <3>1, <3>4, <3>6 DEF Good
  <2>3. ASSUME NEW r \in Runs, Spawn(d, r) PROVE Good
    BY <1>q, <2>3 DEF Spawn
  <2>4. CASE HandleStop(d)
    BY <1>q, <2>1, <2>4, HandleStopDoes DEF Base
  <2>5. CASE FinishStop(d)
    BY <1>e, <1>p, <2>5, FinishStopDoes DEF Base, PlainSessionEventTypes
  <2> QED
    BY <1>3, <2>2, <2>3, <2>4, <2>5 DEF ConsumerStep
<1>4. ASSUME NEW d \in Devcontainers, LinkStep(d) PROVE Good
  <2>1. CASE AgentConnects(d)
    BY <1>q, <2>1, AgentConnectsDoes DEF Base
  <2>2. CASE Empties(d)
    BY <1>q, <2>2, EmptyQueue DEF Empties
  <2> QED
    BY <1>4, <2>1, <2>2, DropDoes, ContainerStopsDoes DEF LinkStep, Base
<1>5. ASSUME NEW r \in Runs, RunStep(r) PROVE Good
  <2>1. CASE RunExits(r)
    <3>1. PICK d \in Devcontainers, s \in Sessions :
            /\ UNCHANGED cmds
            /\ evts' = evts \/ \E type \in {"session_completed", "session_failed"} :
                                  Emits(d, SessionEvent(type, d, s))
      BY <2>1, RunExitsDoes DEF Base
    <3>2. {"session_completed", "session_failed"} \subseteq PlainSessionEventTypes
      BY DEF PlainSessionEventTypes
    <3> QED
      BY <1>e, <1>p, <1>q, <3>1, <3>2
  <2>2. CASE RunReturns(r)
    BY <1>q, <2>2 DEF RunReturns
  <2>3. CASE OrphanExits(r)
    BY <1>q, <2>3 DEF OrphanExits
  <2>4. ASSUME NEW type \in Asks, Ask(r, type) PROVE Good
    BY <1>e, <1>p, <2>4, AskDoes DEF Base, PlainSessionEventTypes
  <2> QED
    BY <1>5, <2>1, <2>2, <2>3, <2>4 DEF RunStep
<1>6. CASE UNCHANGED vars
  <2>1. UNCHANGED <<cmds, evts>>
    BY <1>6 DEF vars, agvars
  <2> QED
    BY <1>q, <2>1
<1> QED
  BY <1>1, <1>2, <1>3, <1>4, <1>5, <1>6, StepKindsOfAgent

\* So they do.
LEMMA NextAnswersBelong ==
    ASSUME Base, [Next]_vars
    PROVE  AnswersBelong'
<1>1. RowsStay /\ IdsAreMinted
  BY StepOfReadModel, NextStays DEF Base, Consistent
<1>2. CommandsTyped' /\ EventsTyped'
  BY NextAgentType, TypePartsNext
<1>3. ASSUME NEW d \in Devcontainers, NEW m \in Members(cmds'[d]) \cup Members(evts'[d])
      PROVE  Belongs(m)'
  <2>1. Members(cmds'[d]) \subseteq CommandTo(d) /\ Members(evts'[d]) \subseteq EventFrom(d)
    BY <1>2, MembersOf DEF CommandsTyped, EventsTyped
  <2>2. CASE Belongs(m) /\ m.session \in minted
    BY <1>1, <1>3, <2>1, <2>2, StillBelongs
  <2>3. CASE m.type \notin {"send_user_input", "user_input_sent",
                            "resolve_approval", "approval_resolved"}
    BY <2>3 DEF Belongs
  <2> QED
    BY <1>3, <2>2, <2>3, NewMessages
<1> QED
  BY <1>3 DEF AnswersBelong, Members

-----------------------------------------------------------------------------
\* The dict entries keep naming the right runs.

\* Runs that were spawned, by what the entries say of them.
LEMMA EntriesAreSpawned ==
    ASSUME Base, NEW r \in Runs
    PROVE  /\ runs[r].phase # "unused" =>
                runs[r].dc \in Devcontainers /\ runs[r].session \in Sessions
           /\ runs[r].phase \in Phase
           /\ \A d \in Devcontainers : Terminates(d, r) =>
                runs[r].phase # "unused" /\ r # None /\ busy[d] # None
<1>1. runs[r] \in Run /\ r # None
  BY RunsAreNotNone DEF Base, AgentTypeOK
<1>2. ASSUME NEW d \in Devcontainers, Terminates(d, r) PROVE runs[r].dc = d /\ busy[d] # None
  BY <1>2 DEF Base, EntriesNameRuns, TerminationsApart, Terminates
<1> QED
  BY <1>1, <1>2, RunFields, NoneIsNoId

\* They do while none of it is touched.
LEMMA EntriesKept ==
    ASSUME Base, UNCHANGED <<runs, processes, tasks>>,
           \A d \in Devcontainers : busy'[d] = busy[d] \/ (busy[d] = None /\ busy'[d].run = None)
    PROVE  EntriesNameRuns'
<1>1. \A d \in Devcontainers, r \in Runs : Terminates(d, r)' => Terminates(d, r) /\ busy'[d] = busy[d]
  BY RunsAreNotNone DEF Terminates
<1>2. \A d \in Devcontainers, r \in Runs : Terminates(d, r) => Terminates(d, r)'
  BY DEF Terminates
<1>3. ProcessesNameRuns' /\ TasksNameRuns'
  BY DEF Base, EntriesNameRuns, ProcessesNameRuns, TasksNameRuns
<1>4. TerminationsApart'
  BY <1>1 DEF Base, EntriesNameRuns, TerminationsApart
<1>5. DyingAreTerminated'
  <2>1. ASSUME NEW r \in Runs, runs[r].phase = "dying" PROVE Terminates(runs[r].dc, r)'
    <3>1. Terminates(runs[r].dc, r) /\ runs[r].dc \in Devcontainers
      BY <2>1, EntriesAreSpawned DEF Base, EntriesNameRuns, DyingAreTerminated
    <3> QED
      BY <1>2, <3>1
  <2> QED
    BY <2>1 DEF DyingAreTerminated
<1> QED
  BY <1>3, <1>4, <1>5 DEF EntriesNameRuns

\* Each kind of step of the runs, and of what holds them.
LEMMA NextEntriesNameRuns ==
    ASSUME Base, [Next]_vars
    PROVE  EntriesNameRuns'
<1>t. WorkTyped /\ runs \in [Runs -> Run]
  BY TypeParts DEF Base
<1>p. /\ processes \in [Sessions -> Optional(Runs)] /\ tasks \in [Sessions -> Optional(Runs)]
      /\ None \notin Runs
  BY TypeParts, RunsAreNotNone DEF Base
<1>n. /\ ProcessesNameRuns /\ TasksNameRuns /\ TerminationsApart /\ DyingAreTerminated
      /\ EntriesNameRuns
  BY DEF Base, EntriesNameRuns
<1>k. ASSUME UNCHANGED <<busy, runs, processes, tasks>> PROVE EntriesNameRuns'
  BY <1>k, <1>n, EntriesKept
<1>1. CASE RouteStep
  <2>1. UNCHANGED <<busy, runs, processes, tasks>>
    BY <1>1, StartDoes, ResumeDoes DEF RouteStep, Orders, RowsOnly, agvars, Base
  <2> QED
    BY <1>k, <2>1
<1>2. ASSUME NEW d \in Devcontainers, TakeInEvent(d) PROVE EntriesNameRuns'
  BY <1>k, <1>2 DEF TakeInEvent
<1>3. ASSUME NEW d \in Devcontainers, ConsumerStep(d) PROVE EntriesNameRuns'
  <2>1. ASSUME NEW c, NEW e, Echoes(d, c, e) PROVE EntriesNameRuns'
    <3>1. UNCHANGED <<runs, processes, tasks>> /\ busy[d] = None
      BY <2>1 DEF Echoes
    <3>2. busy' = busy \/ TurnsTo(d, [step |-> "spawn", command |-> c, run |-> None])
      BY <2>1 DEF Echoes
    <3> QED
      BY <1>n, <3>1, <3>2, EntriesKept DEF TurnsTo
  <2>2. ASSUME NEW r \in Runs, Spawn(d, r), NEW s, s = busy[d].command.session
        PROVE  EntriesNameRuns'
    <3> DEFINE x == [dc |-> d, session |-> s, phase |-> "working", wired |-> TRUE]
    <3>1. /\ s \in Sessions /\ runs[r].phase = "unused" /\ Becomes(r, x) /\ TurnsTo(d, None)
          /\ busy[d].step = "spawn"
          /\ processes'[s] = r /\ \A y \in Sessions : y # s => processes'[y] = processes[y]
          /\ tasks'[s] = r /\ \A y \in Sessions : y # s => tasks'[y] = tasks[y]
      BY <2>2, SpawnDoes DEF Base
    <3>2. x.dc = d /\ x.session = s /\ x.phase = "working"
      OBVIOUS
    <3> HIDE DEF x
    <3>3. runs'[r] = x /\ \A y \in Runs : y # r => runs'[y] = runs[y]
      BY <3>1 DEF Becomes
    <3>4. ProcessesNameRuns' /\ TasksNameRuns'
      BY <1>n, <1>p, <3>1, <3>2, <3>3 DEF ProcessesNameRuns, TasksNameRuns, Optional
    <3>5. ASSUME NEW y \in Devcontainers, NEW q \in Runs
          PROVE  Terminates(y, q)' <=> Terminates(y, q)
      BY <1>n, <3>1 DEF Terminates, TurnsTo, TerminationsApart
    <3>6. \A y \in Devcontainers, q \in Runs : Terminates(y, q) => q # r /\ y # d
      BY <1>n, <3>1, EntriesAreSpawned DEF TerminationsApart
    <3>7. TerminationsApart'
      <4>1. \A y \in Devcontainers, q \in Runs : Terminates(y, q) => runs[q].session \in Sessions
        BY EntriesAreSpawned
      <4> QED
        BY <1>n, <3>1, <3>3, <3>5, <3>6, <4>1 DEF TerminationsApart, TurnsTo
    <3>8. DyingAreTerminated'
      <4>1. ASSUME NEW q \in Runs, runs'[q].phase = "dying"
            PROVE  Terminates(runs[q].dc, q)'
        <5>1. q # r /\ runs'[q] = runs[q] /\ runs[q].phase = "dying"
          BY <3>2, <3>3, <4>1
        <5>2. PICK y \in Devcontainers : y = runs[q].dc /\ Terminates(y, q)
          BY <1>n, <5>1, EntriesAreSpawned DEF DyingAreTerminated
        <5>3. Terminates(y, q)'
          BY <3>1, <3>6, <5>2 DEF TurnsTo, Terminates
        <5> QED
          BY <5>1, <5>2, <5>3
      <4> QED
        BY <4>1 DEF DyingAreTerminated
    <3> QED
      BY <3>4, <3>7, <3>8 DEF EntriesNameRuns
  <2>3. ASSUME HandleStop(d), NEW c, c = Head(cmds[d]), NEW s, s = c.session,
               NEW r, r = processes[s]
        PROVE  EntriesNameRuns'
    <3> DEFINE w == [step |-> "stop", command |-> c, run |-> r]
    <3>1. /\ s \in Sessions /\ r \in Optional(Runs) /\ Takes(d, c) /\ c \in CommandTo(d)
          /\ busy[d] = None /\ TurnsTo(d, w) /\ w \in Work(d) /\ Pops(s)
          /\ r # None /\ tasks[s] = r => Turns(r, "dying")
          /\ ~(r # None /\ tasks[s] = r) => runs' = runs
      BY <2>3, HandleStopDoes DEF Base
    <3>2. w.command = c /\ w.step = "stop" /\ w.run = r
      OBVIOUS
    <3> HIDE DEF w
    <3>3. w # None
      BY <3>1, NoneIsNoWork
    <3>4. r # None => r \in Runs /\ runs[r].session = s /\ runs[r].phase = "working"
      BY <1>n, <2>3, <3>1 DEF ProcessesNameRuns, Optional
    <3>5. r # None => runs[r].dc = d
      <4>1. Mentions(d, s)
        <5>1. c \in Members(cmds[d])
          BY <3>1, TakesRemoves, TypeParts DEF Base
        <5> QED
          BY <2>3, <5>1 DEF Mentions, Carries
      <4>2. r # None => runs[r].dc \in Devcontainers /\ Mentions(runs[r].dc, s)
        BY <3>4, EntriesAreSpawned DEF Mentions, Carries
      <4> QED
        BY <3>1, <4>1, <4>2, HomesAgree DEF Base
    <3>6. \A q \in Runs : /\ runs'[q].dc = runs[q].dc /\ runs'[q].session = runs[q].session
                          /\ runs'[q].phase = IF q = r /\ tasks[s] = r THEN "dying"
                                              ELSE runs[q].phase
      <4>1. CASE r # None /\ tasks[s] = r
        BY <1>t, <3>1, <3>4, <4>1, PhaseTurns
      <4>2. CASE ~(r # None /\ tasks[s] = r)
        BY <1>p, <3>1, <4>2
      <4> QED
        BY <4>1, <4>2
    <3>7. ProcessesNameRuns'
      BY <1>n, <1>p, <3>1, <3>4, <3>6 DEF ProcessesNameRuns, Pops, Optional
    <3>8. TasksNameRuns'
      BY <1>n, <1>p, <3>1, <3>4, <3>6 DEF TasksNameRuns, Pops, Optional
    <3>9. ASSUME NEW y \in Devcontainers, NEW q \in Runs
          PROVE  Terminates(y, q)' <=> Terminates(y, q) \/ (y = d /\ q = r)
      BY <1>p, <3>1, <3>2, <3>3 DEF Terminates, TurnsTo
    <3>10. TerminationsApart'
      <4>1. ASSUME NEW y \in Devcontainers, NEW q \in Runs, Terminates(y, q)
            PROVE  /\ y # d /\ busy'[y] = busy[y] /\ busy[y].step = "stop" /\ runs[q].dc = y
                   /\ runs[q].session = busy[y].command.session /\ runs[q].session \in Sessions
                   /\ processes[runs[q].session] # q /\ tasks[runs[q].session] # q /\ q # None
        BY <1>n, <1>p, <3>1, <4>1, EntriesAreSpawned DEF TerminationsApart, Terminates, TurnsTo
      <4>2. \A y \in Sessions, q \in Runs :
               /\ processes'[y] = q => processes[y] = q /\ y # s
               /\ tasks'[y] = q => tasks[y] = q /\ y # s
        BY <1>p, <3>1 DEF Pops
      <4>3. ASSUME NEW y \in Devcontainers, NEW q \in Runs, Terminates(y, q)'
            PROVE  /\ busy'[y].step = "stop"
                   /\ runs[q].dc = y /\ runs[q].session = busy'[y].command.session
                   /\ processes'[runs[q].session] # q /\ tasks'[runs[q].session] # q
        <5>1. CASE Terminates(y, q)
          BY <4>1, <4>2, <5>1
        <5>2. CASE y = d /\ q = r
          BY <1>p, <2>3, <3>1, <3>2, <3>4, <3>5, <5>2 DEF TurnsTo, Pops
        <5> QED
          BY <3>9, <4>3, <5>1, <5>2
      <4> QED
        BY <3>6, <4>3 DEF TerminationsApart
    <3>11. DyingAreTerminated'
      <4>1. ASSUME NEW q \in Runs, runs'[q].phase = "dying" PROVE Terminates(runs[q].dc, q)'
        <5>1. CASE q = r
          BY <1>p, <3>4, <3>5, <3>6, <3>9, <5>1
        <5>2. CASE q # r
          BY <1>n, <3>6, <3>9, <4>1, <5>2, EntriesAreSpawned DEF DyingAreTerminated
        <5> QED
          BY <5>1, <5>2
      <4> QED
        BY <3>6, <4>1 DEF DyingAreTerminated
    <3> QED
      BY <3>7, <3>8, <3>10, <3>11 DEF EntriesNameRuns
  <2>4. ASSUME FinishStop(d), NEW r, r = busy[d].run PROVE EntriesNameRuns'
    <3>1. /\ r \in Optional(Runs) /\ busy[d] # None /\ TurnsTo(d, None)
          /\ r = None => runs' = runs
          /\ r # None => Terminates(d, r) /\ Leaves(r)
          /\ UNCHANGED <<processes, tasks>>
      BY <2>4, FinishStopDoes DEF Base
    <3>2. r # None => r \in Runs /\ runs[r].session \in Sessions
      BY <3>1, EntriesAreSpawned DEF Optional
    <3>3. \A q \in Runs : /\ runs'[q].dc = runs[q].dc /\ runs'[q].session = runs[q].session
                          /\ q # r => runs'[q].phase = runs[q].phase
                          /\ q = r => runs'[q].phase \in Terminated(runs[q].phase)
      <4>1. CASE r # None
        BY <1>t, <3>1, <3>2, <4>1, PhaseTurns DEF Leaves
      <4>2. CASE r = None
        BY <1>p, <3>1, <4>2
      <4> QED
        BY <4>1, <4>2
    <3>4. \A y \in Sessions : r # None => processes[y] # r /\ tasks[y] # r
      BY <1>n, <3>1, <3>2 DEF TerminationsApart, ProcessesNameRuns, TasksNameRuns
    <3>5. ProcessesNameRuns' /\ TasksNameRuns'
      BY <1>n, <1>p, <3>1, <3>3, <3>4 DEF ProcessesNameRuns, TasksNameRuns, Optional
    <3>6. ASSUME NEW y \in Devcontainers, NEW q \in Runs
          PROVE  /\ Terminates(y, q)' <=> Terminates(y, q) /\ y # d
                 /\ Terminates(d, q) => q = r
      BY <2>4, <3>1 DEF Terminates, TurnsTo
    <3>7. TerminationsApart'
      BY <1>n, <3>1, <3>3, <3>6 DEF TerminationsApart, TurnsTo
    <3>8. DyingAreTerminated'
      <4>1. ASSUME NEW q \in Runs, runs'[q].phase = "dying" PROVE Terminates(runs[q].dc, q)'
        <5>1. q # r /\ runs[q].phase = "dying"
          BY <3>3, <4>1 DEF Terminated
        <5> QED
          BY <1>n, <3>3, <3>6, <5>1, EntriesAreSpawned DEF DyingAreTerminated
      <4> QED
        BY <3>3, <4>1 DEF DyingAreTerminated
    <3> QED
      BY <3>5, <3>7, <3>8 DEF EntriesNameRuns
  <2> QED
    BY <1>3, <2>1, <2>2, <2>3, <2>4 DEF ConsumerStep
<1>4. ASSUME NEW d \in Devcontainers, LinkStep(d) PROVE EntriesNameRuns'
  <2>1. CASE AgentConnects(d)
    BY <1>k, <2>1 DEF AgentConnects
  <2>2. ASSUME Empties(d), NEW y \in Devcontainers, NEW q \in Runs
        PROVE  Terminates(y, q)' <=> Terminates(y, q) /\ y # d
    BY <2>2 DEF Empties, Terminates
  <2>3. CASE Drop(d)
    <3>1. /\ Empties(d) /\ UNCHANGED <<processes, tasks>>
          /\ \A r \in Runs :
               /\ runs'[r].dc = runs[r].dc /\ runs'[r].session = runs[r].session
               /\ ~Terminates(d, r) => runs'[r].phase = runs[r].phase
               /\ Terminates(d, r) => runs'[r].phase \in Interrupted(runs[r].phase)
      BY <2>3, DropDoes DEF Base
    <3>2. \A y \in Sessions, r \in Runs :
             Terminates(d, r) => processes[y] # r /\ tasks[y] # r
      BY <1>n, <1>p DEF TerminationsApart, ProcessesNameRuns, TasksNameRuns
    <3>3. ProcessesNameRuns' /\ TasksNameRuns'
      BY <1>n, <1>p, <3>1, <3>2 DEF ProcessesNameRuns, TasksNameRuns, Optional
    <3>4. TerminationsApart'
      BY <1>n, <2>2, <3>1 DEF TerminationsApart, Empties
    <3>5. DyingAreTerminated'
      <4>1. ASSUME NEW q \in Runs, runs'[q].phase = "dying" PROVE Terminates(runs[q].dc, q)'
        <5>1. ~Terminates(d, q) /\ runs[q].phase = "dying"
          BY <3>1, <4>1 DEF Interrupted
        <5> QED
          BY <1>n, <2>2, <3>1, <5>1, EntriesAreSpawned DEF DyingAreTerminated
      <4> QED
        BY <3>1, <4>1 DEF DyingAreTerminated
    <3> QED
      BY <3>3, <3>4, <3>5 DEF EntriesNameRuns
  <2>4. CASE ContainerStops(d)
    <3>1. /\ Empties(d)
          /\ \A r \in Runs :
               /\ runs'[r].dc = runs[r].dc /\ runs'[r].session = runs[r].session
               /\ runs[r].dc # d => runs'[r] = runs[r]
               /\ runs[r].dc = d => runs'[r].phase = "gone"
          /\ \A s \in Sessions :
                processes'[s] = IF processes[s] # None /\ runs[processes[s]].dc = d
                                THEN None ELSE processes[s]
          /\ \A s \in Sessions :
                tasks'[s] = IF tasks[s] # None /\ runs[tasks[s]].dc = d THEN None ELSE tasks[s]
      BY <2>4, ContainerStopsDoes DEF Base
    <3>2. ProcessesNameRuns' /\ TasksNameRuns'
      BY <1>n, <1>p, <3>1 DEF ProcessesNameRuns, TasksNameRuns, Optional
    <3>3. TerminationsApart'
      <4>1. ASSUME NEW y \in Devcontainers, NEW q \in Runs, Terminates(y, q), y # d
            PROVE  /\ busy'[y] = busy[y] /\ busy[y].step = "stop" /\ runs'[q] = runs[q]
                   /\ runs[q].dc = y /\ runs[q].session = busy[y].command.session
                   /\ processes'[runs[q].session] # q /\ tasks'[runs[q].session] # q
        BY <1>n, <1>p, <3>1, <4>1, EntriesAreSpawned DEF TerminationsApart, Empties
      <4> QED
        BY <2>2, <3>1, <4>1 DEF TerminationsApart
    <3>4. DyingAreTerminated'
      <4>1. ASSUME NEW q \in Runs, runs'[q].phase = "dying" PROVE Terminates(runs[q].dc, q)'
        BY <1>n, <2>2, <3>1, <4>1, EntriesAreSpawned DEF DyingAreTerminated
      <4> QED
        BY <3>1, <4>1 DEF DyingAreTerminated
    <3> QED
      BY <3>2, <3>3, <3>4 DEF EntriesNameRuns
  <2> QED
    BY <1>4, <2>1, <2>3, <2>4 DEF LinkStep
<1>5. ASSUME NEW r \in Runs, RunStep(r) PROVE EntriesNameRuns'
  <2>1. ASSUME NEW phase, phase # "dying", Turns(r, phase), runs[r].phase # "dying",
               UNCHANGED busy,
               \A y \in Sessions :
                  /\ processes'[y] = None \/ (processes'[y] = processes[y] /\ processes[y] # r)
                  /\ \/ tasks'[y] = None
                     \/ tasks'[y] = tasks[y] /\ (tasks[y] = r => phase = "reported")
        PROVE  EntriesNameRuns'
    <3>1. \A q \in Runs : /\ runs'[q].dc = runs[q].dc /\ runs'[q].session = runs[q].session
                          /\ q # r => runs'[q].phase = runs[q].phase
                          /\ q = r => runs'[q].phase = phase
      BY <1>t, <1>5, <2>1, PhaseTurns
    <3>2. ProcessesNameRuns' /\ TasksNameRuns'
      BY <1>n, <1>p, <2>1, <3>1 DEF ProcessesNameRuns, TasksNameRuns, Optional
    <3>3. \A y \in Devcontainers, q \in Runs : Terminates(y, q)' <=> Terminates(y, q)
      BY <2>1 DEF Terminates
    <3>4. TerminationsApart'
      <4>1. \A y \in Devcontainers, q \in Runs :
               Terminates(y, q) => runs[q].session \in Sessions /\ q # None
        BY EntriesAreSpawned
      <4> QED
        BY <1>n, <2>1, <3>1, <3>3, <4>1 DEF TerminationsApart
    <3>5. DyingAreTerminated'
      <4>1. ASSUME NEW q \in Runs, runs'[q].phase = "dying" PROVE Terminates(runs[q].dc, q)'
        BY <1>n, <2>1, <3>1, <3>3, <4>1, EntriesAreSpawned DEF DyingAreTerminated
      <4> QED
        BY <3>1, <4>1 DEF DyingAreTerminated
    <3> QED
      BY <3>2, <3>4, <3>5 DEF EntriesNameRuns
  <2>2. CASE RunExits(r)
    <3>1. PICK s \in Sessions :
            /\ s = runs[r].session /\ runs[r].phase \in {"working", "killed"}
            /\ Turns(r, "reported") /\ processes'[s] = None
            /\ \A y \in Sessions : y # s => processes'[y] = processes[y]
            /\ UNCHANGED <<busy, tasks>>
      BY <2>2, RunExitsDoes DEF Base
    <3>2. \A y \in Sessions : y # s => processes[y] # r
      BY <1>n, <1>5, <1>p, <3>1 DEF ProcessesNameRuns
    <3> QED
      BY <2>1, <3>1, <3>2
  <2>3. CASE RunReturns(r)
    <3>1. PICK s \in Sessions :
            /\ s = runs[r].session /\ runs[r].phase = "reported"
            /\ Turns(r, "gone") /\ tasks'[s] = None
            /\ \A y \in Sessions : y # s => tasks'[y] = tasks[y]
            /\ UNCHANGED <<busy, processes>>
      BY <2>3, RunReturnsDoes DEF Base
    <3>2. \A y \in Sessions : processes[y] # r /\ (y # s => tasks[y] # r)
      BY <1>n, <1>5, <1>p, <3>1 DEF ProcessesNameRuns, TasksNameRuns
    <3> QED
      BY <2>1, <3>1, <3>2
  <2>4. CASE OrphanExits(r)
    <3>1. /\ runs[r].phase = "orphan" /\ Turns(r, "gone") /\ UNCHANGED <<busy, processes, tasks>>
      BY <2>4, OrphanExitsDoes DEF Base
    <3>2. \A y \in Sessions : processes[y] # r /\ tasks[y] # r
      BY <1>n, <1>5, <1>p, <3>1 DEF ProcessesNameRuns, TasksNameRuns
    <3> QED
      BY <2>1, <3>1, <3>2
  <2>5. ASSUME NEW type \in Asks, Ask(r, type) PROVE EntriesNameRuns'
    BY <1>k, <2>5 DEF Ask
  <2> QED
    BY <1>5, <2>2, <2>3, <2>4, <2>5 DEF RunStep
<1>6. CASE UNCHANGED vars
  <2>1. UNCHANGED <<busy, runs, processes, tasks>>
    BY <1>6 DEF vars, agvars
  <2> QED
    BY <1>k, <2>1
<1> QED
  BY <1>1, <1>2, <1>3, <1>4, <1>5, <1>6, StepKindsOfAgent

\* The base is inductive.
LEMMA NextBase ==
    ASSUME Base, [Next]_vars
    PROVE  Base'
BY StaysConsistent, NextAgentType, NextOneHome, NextAnswersBelong, NextEntriesNameRuns DEF Base

\* It holds at first, when there is nothing.
LEMMA InitBase ==
    ASSUME Init
    PROVE  Base
<1>1. Consistent
  BY DEF Init, ReadModelInit, Consistent, TypeOK, RowsBelongTogether, IdsAreMinted, Optional
<1>2. \A d \in Devcontainers : cmds[d] = <<>> /\ evts[d] = <<>> /\ busy[d] = None
  BY DEF Init
<1>3. \A r \in Runs : runs[r] = [dc |-> None, session |-> None, phase |-> "unused", wired |-> FALSE]
  BY DEF Init
<1>4. AgentTypeOK
  <2>1. \A d \in Devcontainers : /\ <<>> \in Seq(CommandTo(d)) /\ <<>> \in Seq(EventFrom(d))
                                 /\ Len(<<>>) <= MaxInFlight
    BY QueuesHoldSomething
  <2>2. [dc |-> None, session |-> None, phase |-> "unused", wired |-> FALSE] \in Run
    BY DEF Run
  <2>3. runs \in [Runs -> Run]
    BY <2>2 DEF Init
  <2> QED
    BY <1>2, <2>1, <2>3 DEF AgentTypeOK, Init, Optional
<1>5. OneHome
  BY <1>2, <1>3, EmptyQueue, NoneIsNoId DEF OneHome, Mentions, Carries, Init, ReadModelInit
<1>6. AnswersBelong
  BY <1>2, EmptyQueue DEF AnswersBelong
<1>7. EntriesNameRuns
  BY <1>2, <1>3 DEF EntriesNameRuns, ProcessesNameRuns, TasksNameRuns, TerminationsApart,
                    DyingAreTerminated, Terminates, Init
<1> QED
  BY <1>1, <1>4, <1>5, <1>6, <1>7 DEF Base

\* So it holds always.
LEMMA BaseHolds == Spec => []Base
<1>1. Init => Base
  BY InitBase
<1>2. Base /\ [Next]_vars => Base'
  BY NextBase
<1> QED
  BY <1>1, <1>2, PTL DEF Spec

\* The agent's dictionaries, the messages in flight and the runs are what the code
\* declares them to be, each of the devcontainer it is kept for.
THEOREM AgentTypesHold == Spec => []AgentTypeOK
BY BaseHolds, PTL DEF Base

\* Whatever the agents, the routes and the connections do together, the database
\* goes through steps of ReadModel only: a runtime event that is projected is one a
\* runtime may send, with ids that still belong together.
THEOREM AgentsRefineReadModel == Spec => ImplementsReadModel
<1>1. Init => ReadModelInit
  BY DEF Init
<1>2. Base /\ [Next]_vars => [ReadModelNext]_rmvars
  BY StepOfReadModel
<1> QED
  BY <1>1, <1>2, BaseHolds, PTL DEF Spec, ImplementsReadModel, ReadModelSpec
=============================================================================
