--------------------------- MODULE AgentRunsProofs ---------------------------
(***************************************************************************)
(* AgentSessions for any number of devcontainers, sessions, runs, worker   *)
(* threads and any queue bound: what comes in turn.  The runs of a session *)
(* come one after the other, and what a user sees of them follows.         *)
(***************************************************************************)
EXTENDS AgentSessionsProofs

\* Nothing of Y comes after something of X.
NeverAfter(q, X, Y) ==
    \A i, j \in DOMAIN q : (i < j /\ q[i] \in X) => q[j] \notin Y

\* The last of U in the queue is of Z.
EndsIn(q, U, Z) ==
    \E k \in DOMAIN q : q[k] \in Z /\ \A j \in DOMAIN q : q[j] \in U => j <= k

-----------------------------------------------------------------------------
\* The messages about a session, by what they do to it.

CommandsAbout(d, s, types) == {c \in CommandTo(d) : c.session = s /\ c.type \in types}
EventsAbout(d, s, types) == {e \in EventFrom(d) : e.session = s /\ e.type \in types}

Starts(d, s) == CommandsAbout(d, s, {"start_agent_session", "resume_agent_session"})
Stops(d, s) == CommandsAbout(d, s, {"stop_agent_session"})
Reports(d, s) == EventsAbout(d, s, {"session_completed", "session_failed"})
Ends(d, s) == EventsAbout(d, s, {"session_completed", "session_failed", "session_stopped"})
Activates(d, s) ==
    EventsAbout(d, s, {"agent_session_started", "approval_requested", "approval_resolved"})

\* The resolutions of an approval, on their way in and out.
Resolves(d, a) == {c \in CommandTo(d) : c.type = "resolve_approval" /\ c.approval = a}
Resolved(d, a) == {e \in EventFrom(d) : e.type = "approval_resolved" /\ e.approval = a}

Pending(d, s) == Members(cmds[d]) \cap Starts(d, s) # {} \/ Spawning(d, s)
Running(s) ==
    \E r \in Runs : runs[r].session = s /\ runs[r].phase \in {"working", "dying", "killed"}

-----------------------------------------------------------------------------
\* No two runs of a session are confused.

Unconfused == lapses \cap {"resumed_over_stop", "task_evicted"} = {}

\* A working run has both entries, and a stop cancels what it terminates.
EntriesAreComplete ==
    /\ \A s \in Sessions : processes[s] # None => tasks[s] = processes[s]
    /\ \A r \in Runs : runs[r].phase = "working" => processes[runs[r].session] = r
    /\ \A r \in Runs : runs[r].phase # "killed"
    /\ \A d \in Devcontainers, r \in Runs : Terminates(d, r) => runs[r].phase # "working"

\* s has ended, or its end is on the way in.
Ended(d, s) == IsResting(s) \/ Members(evts[d]) \cap Ends(d, s) # {}

OneRunAtATime(d, s) ==
    /\ Pending(d, s) => ~Running(s)
    /\ Ended(d, s) => ~Pending(d, s) /\ ~Running(s)
    /\ NeverAfter(cmds[d], Starts(d, s), Starts(d, s))
    /\ NeverAfter(cmds[d], Stops(d, s), Starts(d, s))
    /\ Spawning(d, s) \/ Stopping(d, s) => Members(cmds[d]) \cap Starts(d, s) = {}
    /\ Stopping(d, s) => \A r \in Runs : runs[r].session = s => runs[r].phase # "working"
    /\ NeverAfter(evts[d], Ends(d, s), Reports(d, s))
    /\ IsResting(s) => Members(evts[d]) \cap Reports(d, s) = {}

RunsInTurn ==
    Unconfused => /\ EntriesAreComplete
                  /\ \A d \in Devcontainers, s \in Sessions : OneRunAtATime(d, s)

\* A claude that nothing refers to was left by an interrupted stop.
OrphansAreLapses ==
    "stop_interrupted" \notin lapses => \A r \in Runs : runs[r].phase # "orphan"

-----------------------------------------------------------------------------
\* One claude per container.

Live(d, s) ==
    \/ Pending(d, s)
    \/ \E r \in Runs : runs[r].dc = d /\ runs[r].session = s /\ Alive(r)

InSight ==
    lapses \cap {"resumed_over_stop", "stop_interrupted", "task_evicted", "active_deleted"} = {}

OneLive ==
    InSight =>
        \A d \in Devcontainers, s \in Sessions : Live(d, s) =>
            /\ devcontainers[d] # None => sessions[s] # None
            /\ \A t \in Sessions : Live(d, t) => t = s

-----------------------------------------------------------------------------
\* One active session per devcontainer.

EndsAreLast(d, s) ==
    /\ NeverAfter(evts[d], Ends(d, s), Activates(d, s))
    /\ IsResting(s) => Members(evts[d]) \cap Activates(d, s) = {}

InOrder == lapses \cap {"resumed_over_stop", "late_answer", "task_evicted"} = {}

ActiveInTurn ==
    InOrder =>
        /\ OneActive
        /\ \A d \in Devcontainers, s \in Sessions : EndsAreLast(d, s)

-----------------------------------------------------------------------------
\* Something behind every active session.

Quiet(d, s) ==
    \/ EndsIn(evts[d], Activates(d, s) \cup Ends(d, s), Ends(d, s))
    \/ /\ Members(evts[d]) \cap (Activates(d, s) \cup Ends(d, s)) = {}
       /\ sessions[s].status \in Resting

RunsAreWired ==
    "dropped" \notin lapses =>
        \A r \in Runs : runs[r].phase \in {"working", "dying", "killed"} => runs[r].wired

IdleIsQuiet ==
    lapses \cap {"dropped", "unreported", "late_answer"} = {} =>
        \A d \in Devcontainers, s \in Sessions :
            (sessions[s] # None /\ sessions[s].dc = d /\ ~Pending(d, s) /\ ~Running(s))
                => Quiet(d, s)

-----------------------------------------------------------------------------
\* One resolution of an approval at a time.

OneResolution(d, a) ==
    /\ NeverAfter(cmds[d], Resolves(d, a), Resolves(d, a))
    /\ NeverAfter(evts[d], Resolved(d, a), Resolved(d, a))
    /\ \/ Members(cmds[d]) \cap Resolves(d, a) = {}
       \/ Members(evts[d]) \cap Resolved(d, a) = {}
    /\ approvals[a] # None /\ approvals[a].status \in Decided =>
          /\ Members(cmds[d]) \cap Resolves(d, a) = {}
          /\ Members(evts[d]) \cap Resolved(d, a) = {}

ResolutionsInTurn ==
    "double_answer" \notin lapses =>
        \A d \in Devcontainers, a \in Approvals : OneResolution(d, a)

IInv ==
    /\ Base
    /\ RunsInTurn
    /\ OrphansAreLapses
    /\ OneLive
    /\ ActiveInTurn
    /\ RunsAreWired
    /\ IdleIsQuiet
    /\ ResolutionsInTurn

-----------------------------------------------------------------------------
\* Queues in order.

\* Nothing is out of order in an empty queue.
LEMMA EmptyOrder == \A X, Y : NeverAfter(<<>>, X, Y)
BY DEF NeverAfter

\* The order of a queue survives an append, unless what comes last may not.
LEMMA NeverAfterAppend ==
    ASSUME NEW S, NEW q \in Seq(S), NEW m \in S, NEW X, NEW Y,
           NeverAfter(q, X, Y), m \notin Y \/ Members(q) \cap X = {}
    PROVE  NeverAfter(Append(q, m), X, Y)
<1>1. /\ DOMAIN q = 1..Len(q) /\ DOMAIN Append(q, m) = 1..(Len(q) + 1)
      /\ \A k \in 1..Len(q) : Append(q, m)[k] = q[k]
      /\ Append(q, m)[Len(q) + 1] = m /\ Len(q) \in Nat
  OBVIOUS
<1>2. SUFFICES ASSUME NEW i \in 1..(Len(q) + 1), NEW j \in 1..(Len(q) + 1), i < j,
                      Append(q, m)[i] \in X
               PROVE  Append(q, m)[j] \notin Y
  BY <1>1 DEF NeverAfter
<1>3. i \in 1..Len(q) /\ q[i] \in X /\ q[i] \in Members(q)
  BY <1>1, <1>2 DEF Members
<1>4. CASE j = Len(q) + 1
  BY <1>1, <1>3, <1>4
<1>5. CASE j # Len(q) + 1
  <2>1. j \in 1..Len(q)
    BY <1>1, <1>2, <1>5
  <2> QED
    BY <1>1, <1>2, <1>3, <2>1 DEF NeverAfter
<1> QED
  BY <1>4, <1>5

\* It survives taking the head, after which nothing comes that may not.
LEMMA NeverAfterTail ==
    ASSUME NEW S, NEW q \in Seq(S), q # <<>>, NEW X, NEW Y, NeverAfter(q, X, Y)
    PROVE  /\ NeverAfter(Tail(q), X, Y)
           /\ Head(q) \in X => Members(Tail(q)) \cap Y = {}
<1>1. /\ Len(q) \in Nat \ {0} /\ Head(q) = q[1]
      /\ DOMAIN q = 1..Len(q) /\ DOMAIN Tail(q) = 1..(Len(q) - 1)
      /\ \A k \in 1..(Len(q) - 1) : Tail(q)[k] = q[k + 1]
  OBVIOUS
<1>2. \A k \in 1..(Len(q) - 1) : k + 1 \in 1..Len(q) /\ 1 < k + 1
  BY <1>1
<1>3. 1 \in 1..Len(q) /\ \A i, j \in 1..(Len(q) - 1) : i < j => i + 1 < j + 1
  BY <1>1
<1>4. NeverAfter(Tail(q), X, Y)
  BY <1>1, <1>2, <1>3 DEF NeverAfter
<1>5. ASSUME Head(q) \in X, NEW m \in Members(Tail(q)) PROVE m \notin Y
  <2>1. PICK k \in 1..(Len(q) - 1) : m = q[k + 1]
    BY <1>1, <1>5 DEF Members
  <2> QED
    BY <1>1, <1>2, <1>3, <1>5, <2>1 DEF NeverAfter
<1> QED
  BY <1>4, <1>5

\* The last of a kind in a queue changes with an append of that kind only ...
LEMMA EndsInAppend ==
    ASSUME NEW S, NEW q \in Seq(S), NEW m \in S, NEW U, NEW Z
    PROVE  /\ m \in Z => EndsIn(Append(q, m), U, Z)
           /\ EndsIn(q, U, Z) /\ m \notin U => EndsIn(Append(q, m), U, Z)
<1>1. /\ DOMAIN q = 1..Len(q) /\ DOMAIN Append(q, m) = 1..(Len(q) + 1)
      /\ \A k \in 1..Len(q) : Append(q, m)[k] = q[k]
      /\ Append(q, m)[Len(q) + 1] = m /\ Len(q) \in Nat
  OBVIOUS
<1>2. ASSUME m \in Z PROVE EndsIn(Append(q, m), U, Z)
  <2>1. \A j \in 1..(Len(q) + 1) : j <= Len(q) + 1
    BY <1>1
  <2> QED
    BY <1>1, <1>2, <2>1 DEF EndsIn
<1>3. ASSUME EndsIn(q, U, Z), m \notin U PROVE EndsIn(Append(q, m), U, Z)
  <2>1. PICK k \in 1..Len(q) : q[k] \in Z /\ \A j \in 1..Len(q) : q[j] \in U => j <= k
    BY <1>1, <1>3 DEF EndsIn
  <2>2. k \in 1..(Len(q) + 1) /\ Append(q, m)[k] \in Z
    BY <1>1, <2>1
  <2>3. ASSUME NEW j \in 1..(Len(q) + 1), Append(q, m)[j] \in U PROVE j <= k
    BY <1>1, <1>3, <2>1, <2>3
  <2> QED
    BY <1>1, <2>2, <2>3 DEF EndsIn
<1> QED
  BY <1>2, <1>3

\* ... and with the head when it was the only one.
LEMMA EndsInTail ==
    ASSUME NEW S, NEW q \in Seq(S), q # <<>>, NEW U, NEW Z, EndsIn(q, U, Z)
    PROVE  \/ EndsIn(Tail(q), U, Z)
           \/ Head(q) \in Z /\ Members(Tail(q)) \cap U = {}
<1>1. /\ Len(q) \in Nat \ {0} /\ Head(q) = q[1]
      /\ DOMAIN q = 1..Len(q) /\ DOMAIN Tail(q) = 1..(Len(q) - 1)
      /\ \A k \in 1..(Len(q) - 1) : Tail(q)[k] = q[k + 1]
  OBVIOUS
<1>2. PICK k \in 1..Len(q) : q[k] \in Z /\ \A j \in 1..Len(q) : q[j] \in U => j <= k
  BY <1>1 DEF EndsIn
<1>3. ASSUME NEW j \in 1..(Len(q) - 1), Tail(q)[j] \in U PROVE j + 1 <= k
  BY <1>1, <1>2, <1>3
<1>4. CASE k = 1
  <2>1. ASSUME NEW m \in Members(Tail(q)) \cap U PROVE FALSE
    <3>1. PICK j \in 1..(Len(q) - 1) : m = Tail(q)[j]
      BY <1>1, <2>1 DEF Members
    <3> QED
      BY <1>3, <1>4, <2>1, <3>1
  <2> QED
    BY <1>1, <1>2, <1>4, <2>1
<1>5. CASE k # 1
  <2>1. k - 1 \in 1..(Len(q) - 1) /\ q[(k - 1) + 1] \in Z
    BY <1>1, <1>2, <1>5
  <2>2. Tail(q)[k - 1] \in Z /\ \A j \in 1..(Len(q) - 1) : Tail(q)[j] \in U => j <= k - 1
    BY <1>1, <1>3, <2>1
  <2> QED
    BY <1>1, <2>1, <2>2 DEF EndsIn
<1> QED
  BY <1>4, <1>5

-----------------------------------------------------------------------------
\* The runs of a session come one after the other.

\* What has happened stays recorded.
LEMMA LapsesGrow ==
    ASSUME Base, [Next]_vars
    PROVE  lapses \subseteq lapses'
<1>1. CASE RouteStep
  <2>1. ASSUME NEW s \in Sessions, ResumeAgentSession(s) PROVE lapses \subseteq lapses'
    BY <2>1, ResumeDoes DEF Base
  <2>2. ASSUME NEW d \in Devcontainers, NEW c, Orders(d, c) PROVE lapses \subseteq lapses'
    BY <2>2 DEF Orders
  <2>3. ASSUME RowsOnly PROVE lapses \subseteq lapses'
    BY <2>3 DEF RowsOnly
  <2> QED
    BY <1>1, <2>1, <2>2, <2>3 DEF RouteStep, StartAgentSession
<1>2. ASSUME NEW d \in Devcontainers, TakeInEvent(d) PROVE lapses \subseteq lapses'
  BY <1>2 DEF TakeInEvent
<1>3. ASSUME NEW d \in Devcontainers, ConsumerStep(d) PROVE lapses \subseteq lapses'
  <2>1. ASSUME NEW c, NEW e, Echoes(d, c, e) PROVE lapses \subseteq lapses'
    BY <2>1 DEF Echoes
  <2> QED
    BY <1>3, <2>1 DEF ConsumerStep, Spawn, HandleStop, FinishStop
<1>4. ASSUME NEW d \in Devcontainers, LinkStep(d) PROVE lapses \subseteq lapses'
  BY <1>4, DropDoes, ContainerStopsDoes DEF LinkStep, AgentConnects, Base
<1>5. ASSUME NEW r \in Runs, RunStep(r) PROVE lapses \subseteq lapses'
  <2>1. CASE RunExits(r)
    BY <2>1, RunExitsDoes DEF Base
  <2>2. CASE RunReturns(r)
    BY <2>2, RunReturnsDoes DEF Base
  <2> QED
    BY <1>5, <2>1, <2>2 DEF RunStep, OrphanExits, Ask
<1>6. CASE UNCHANGED vars
  BY <1>6 DEF vars
<1> QED
  BY <1>1, <1>2, <1>3, <1>4, <1>5, <1>6, StepKindsOfAgent

\* The order of the commands survives what happens to a queue, unless what is sent
\* may not come last.
LEMMA CommandsGoOn ==
    ASSUME CommandsTyped, NEW x \in Devcontainers, NEW d \in Devcontainers, NEW c,
           NEW X, NEW Y, NeverAfter(cmds[x], X, Y),
           \/ cmds'[x] = cmds[x] \/ cmds'[x] = <<>> \/ Takes(d, c)
           \/ Sends(d, c) /\ (x # d \/ c \notin Y \/ Members(cmds[x]) \cap X = {})
    PROVE  NeverAfter(cmds'[x], X, Y)
<1>1. cmds[x] \in Seq(CommandTo(x))
  BY DEF CommandsTyped
<1>2. CASE Takes(d, c)
  <2>1. (x = d /\ cmds[x] # <<>> /\ cmds'[x] = Tail(cmds[x])) \/ cmds'[x] = cmds[x]
    BY <1>2 DEF Takes
  <2>2. cmds[x] # <<>> => NeverAfter(Tail(cmds[x]), X, Y)
    BY <1>1, NeverAfterTail
  <2> QED
    BY <2>1, <2>2
<1>3. CASE Sends(d, c) /\ (x # d \/ c \notin Y \/ Members(cmds[x]) \cap X = {})
  BY <1>1, <1>3, NeverAfterAppend DEF Sends
<1>4. CASE cmds'[x] = cmds[x]
  BY <1>4
<1>5. CASE cmds'[x] = <<>>
  BY <1>5, EmptyOrder
<1> QED
  BY <1>2, <1>3, <1>4, <1>5

\* Likewise for the events.
LEMMA EventsGoOn ==
    ASSUME EventsTyped, NEW x \in Devcontainers, NEW d \in Devcontainers, NEW e,
           NEW X, NEW Y, NeverAfter(evts[x], X, Y),
           \/ evts'[x] = evts[x] \/ evts'[x] = <<>> \/ TakesIn(d, e)
           \/ Emits(d, e) /\ (x # d \/ e \notin Y \/ Members(evts[x]) \cap X = {})
    PROVE  NeverAfter(evts'[x], X, Y)
<1>1. evts[x] \in Seq(EventFrom(x))
  BY DEF EventsTyped
<1>2. CASE TakesIn(d, e)
  <2>1. (x = d /\ evts[x] # <<>> /\ evts'[x] = Tail(evts[x])) \/ evts'[x] = evts[x]
    BY <1>2 DEF TakesIn
  <2>2. evts[x] # <<>> => NeverAfter(Tail(evts[x]), X, Y)
    BY <1>1, NeverAfterTail
  <2> QED
    BY <2>1, <2>2
<1>3. CASE Emits(d, e) /\ (x # d \/ e \notin Y \/ Members(evts[x]) \cap X = {})
  BY <1>1, <1>3, NeverAfterAppend DEF Emits
<1>4. CASE evts'[x] = evts[x]
  BY <1>4
<1>5. CASE evts'[x] = <<>>
  BY <1>5, EmptyOrder
<1> QED
  BY <1>2, <1>3, <1>4, <1>5

\* Where a session is not mentioned there is nothing about it.
LEMMA NotThere ==
    ASSUME NEW x \in Devcontainers, NEW s \in Sessions, ~Mentions(x, s)
    PROVE  /\ \A m \in Members(cmds[x]) \cup Members(evts[x]) : m.session # s
           /\ \A types : Members(cmds[x]) \cap CommandsAbout(x, s, types) = {}
           /\ \A types : Members(evts[x]) \cap EventsAbout(x, s, types) = {}
           /\ ~Pending(x, s) /\ ~Spawning(x, s) /\ ~Stopping(x, s)
           /\ \A r \in Runs : runs[r].session = s => runs[r].dc # x
<1>1. /\ \A m \in Members(cmds[x]) \cup Members(evts[x]) : m.session # s
      /\ ~(busy[x] # None /\ busy[x].command.session = s)
      /\ \A r \in Runs : runs[r].session = s => runs[r].dc # x
  BY DEF Mentions, Carries
<1>2. /\ \A types : Members(cmds[x]) \cap CommandsAbout(x, s, types) = {}
      /\ \A types : Members(evts[x]) \cap EventsAbout(x, s, types) = {}
  BY <1>1 DEF CommandsAbout, EventsAbout
<1>3. ~Spawning(x, s) /\ ~Stopping(x, s)
  BY <1>1 DEF Spawning, Stopping
<1>4. ~Pending(x, s)
  BY <1>2, <1>3 DEF Pending, Starts
<1> QED
  BY <1>1, <1>2, <1>3, <1>4

\* What mentions a session.
LEMMA ThereIs ==
    ASSUME Base, NEW d \in Devcontainers
    PROVE  /\ \A m \in Members(cmds[d]) \cup Members(evts[d]) :
                m.session \in Sessions /\ Mentions(d, m.session)
           /\ busy[d] # None => Mentions(d, busy[d].command.session)
           /\ \A r \in Runs : runs[r].dc = d => runs[r].session \in Sessions /\ Mentions(d, runs[r].session)
<1>1. Members(cmds[d]) \subseteq CommandTo(d) /\ Members(evts[d]) \subseteq EventFrom(d)
  BY MembersOf, TypeParts DEF Base, CommandsTyped, EventsTyped
<1>2. \A m \in Members(cmds[d]) \cup Members(evts[d]) : m.session \in Sessions
  BY <1>1, CommandFields, EventFields
<1>3. \A r \in Runs : runs[r].dc = d => runs[r].session \in Sessions
  <2>1. \A r \in Runs : runs[r] \in Run
    BY DEF Base, AgentTypeOK
  <2> QED
    BY <2>1, RunFields, NoneIsNoId
<1> QED
  BY <1>2, <1>3 DEF Mentions, Carries

\* A session is in one place.
LEMMA Elsewhere ==
    ASSUME Base, NEW s \in Sessions, NEW d \in Devcontainers, Mentions(d, s),
           NEW x \in Devcontainers, x # d
    PROVE  ~Mentions(x, s)
BY HomesAgree DEF Base

\* While no two runs are confused the entries stay complete.
LEMMA NextEntriesComplete ==
    ASSUME Base, RunsInTurn, [Next]_vars, Unconfused'
    PROVE  EntriesAreComplete'
<1>u. /\ EntriesAreComplete
      /\ \A d \in Devcontainers, s \in Sessions : OneRunAtATime(d, s)
  BY LapsesGrow DEF Unconfused, RunsInTurn
<1>t. runs \in [Runs -> Run] /\ Base'
  BY TypeParts, NextBase DEF Base
<1>p. /\ processes \in [Sessions -> Optional(Runs)] /\ tasks \in [Sessions -> Optional(Runs)]
      /\ None \notin Runs
  BY TypeParts, RunsAreNotNone DEF Base
<1>n. ProcessesNameRuns /\ TasksNameRuns /\ TerminationsApart
  BY DEF Base, EntriesNameRuns
<1>c. /\ \A s \in Sessions : processes[s] # None => tasks[s] = processes[s]
      /\ \A r \in Runs : runs[r].phase = "working" => processes[runs[r].session] = r
      /\ \A r \in Runs : runs[r].phase # "killed"
      /\ \A d \in Devcontainers, r \in Runs : Terminates(d, r) => runs[r].phase # "working"
  BY <1>u DEF EntriesAreComplete
<1>w. \A r \in Runs : runs[r].phase = "working" => runs[r].session \in Sessions
  BY EntriesAreSpawned
<1>k. ASSUME UNCHANGED <<runs, processes, tasks>>,
             \A d \in Devcontainers, r \in Runs : Terminates(d, r)' => Terminates(d, r)
      PROVE  EntriesAreComplete'
  BY <1>c, <1>k DEF EntriesAreComplete
<1>b. ASSUME UNCHANGED <<busy, runs, processes, tasks>> PROVE EntriesAreComplete'
  BY <1>b, <1>k DEF Terminates
<1>1. CASE RouteStep
  <2>1. UNCHANGED <<busy, runs, processes, tasks>>
    BY <1>1, StartDoes, ResumeDoes DEF RouteStep, Orders, RowsOnly, agvars, Base
  <2> QED
    BY <1>b, <2>1
<1>2. ASSUME NEW d \in Devcontainers, TakeInEvent(d) PROVE EntriesAreComplete'
  BY <1>b, <1>2 DEF TakeInEvent
<1>3. ASSUME NEW d \in Devcontainers, ConsumerStep(d) PROVE EntriesAreComplete'
  <2>1. ASSUME NEW c, NEW e, Echoes(d, c, e) PROVE EntriesAreComplete'
    <3>1. UNCHANGED <<runs, processes, tasks>> /\ busy[d] = None
      BY <2>1 DEF Echoes
    <3>2. busy' = busy \/ TurnsTo(d, [step |-> "spawn", command |-> c, run |-> None])
      BY <2>1 DEF Echoes
    <3>3. \A y \in Devcontainers, r \in Runs : Terminates(y, r)' => Terminates(y, r)
      BY <1>p, <3>1, <3>2 DEF TurnsTo, Terminates
    <3> QED
      BY <1>k, <3>1, <3>3
  <2>2. ASSUME NEW r \in Runs, Spawn(d, r), NEW s, s = busy[d].command.session
        PROVE  EntriesAreComplete'
    <3> DEFINE x == [dc |-> d, session |-> s, phase |-> "working", wired |-> TRUE]
    <3>1. /\ s \in Sessions /\ runs[r].phase = "unused" /\ Becomes(r, x) /\ TurnsTo(d, None)
          /\ Spawning(d, s)
          /\ processes'[s] = r /\ \A y \in Sessions : y # s => processes'[y] = processes[y]
          /\ tasks'[s] = r /\ \A y \in Sessions : y # s => tasks'[y] = tasks[y]
      BY <2>2, SpawnDoes DEF Base
    <3>2. x.session = s /\ x.phase = "working"
      OBVIOUS
    <3> HIDE DEF x
    <3>3. runs'[r] = x /\ \A q \in Runs : q # r => runs'[q] = runs[q]
      BY <3>1 DEF Becomes
    <3>4. \A q \in Runs : runs[q].phase = "working" => runs[q].session # s
      BY <1>u, <3>1 DEF OneRunAtATime, Pending, Running
    <3>5. \A y \in Devcontainers, q \in Runs : Terminates(y, q)' => Terminates(y, q) /\ q # r
      BY <1>p, <3>1, EntriesAreSpawned DEF TurnsTo, Terminates
    <3> QED
      BY <1>c, <1>w, <3>1, <3>2, <3>3, <3>4, <3>5 DEF EntriesAreComplete
  <2>3. ASSUME HandleStop(d), NEW c, c = Head(cmds[d]), NEW s, s = c.session,
               NEW r, r = processes[s]
        PROVE  EntriesAreComplete'
    <3> DEFINE w == [step |-> "stop", command |-> c, run |-> r]
    <3>1. /\ s \in Sessions /\ r \in Optional(Runs)
          /\ TurnsTo(d, w) /\ Pops(s)
          /\ r # None /\ tasks[s] = r => Turns(r, "dying")
          /\ ~(r # None /\ tasks[s] = r) => runs' = runs
      BY <2>3, HandleStopDoes DEF Base
    <3>2. w.run = r
      OBVIOUS
    <3> HIDE DEF w
    <3>3. r # None => tasks[s] = r /\ r \in Runs
      BY <1>c, <2>3, <3>1 DEF Optional
    <3>4. \A q \in Runs : /\ runs'[q].session = runs[q].session
                          /\ q # r => runs'[q].phase = runs[q].phase
                          /\ q = r => runs'[q].phase = "dying"
      <4>1. CASE r # None
        BY <1>t, <3>1, <3>3, <4>1, PhaseTurns
      <4>2. CASE r = None
        BY <1>p, <3>1, <4>2
      <4> QED
        BY <4>1, <4>2
    <3>5. \A y \in Devcontainers, q \in Runs : Terminates(y, q)' => Terminates(y, q) \/ q = r
      BY <3>1, <3>2 DEF TurnsTo, Terminates
    <3> QED
      BY <1>c, <1>w, <2>3, <3>1, <3>4, <3>5 DEF EntriesAreComplete, Pops
  <2>4. ASSUME FinishStop(d), NEW r, r = busy[d].run PROVE EntriesAreComplete'
    <3>1. /\ r \in Optional(Runs) /\ TurnsTo(d, None)
          /\ r = None => runs' = runs
          /\ r # None => Terminates(d, r) /\ Leaves(r)
          /\ UNCHANGED <<processes, tasks>>
      BY <2>4, FinishStopDoes DEF Base
    <3>2. r # None => r \in Runs /\ runs[r].phase # "working" /\ runs[r].phase # "killed"
      BY <1>c, <3>1 DEF Optional
    <3>3. \A q \in Runs : /\ runs'[q].session = runs[q].session
                          /\ runs'[q].phase = "working" => runs[q].phase = "working"
                          /\ runs'[q].phase # "killed"
      <4>1. CASE r # None
        <5>1. Terminated(runs[r].phase) \cap {"working", "killed"} = {}
          BY <3>2, <4>1 DEF Terminated
        <5> QED
          BY <1>c, <1>t, <3>1, <3>2, <4>1, <5>1, PhaseTurns DEF Leaves
      <4>2. CASE r = None
        BY <1>c, <3>1, <4>2
      <4> QED
        BY <4>1, <4>2
    <3>4. \A y \in Devcontainers, q \in Runs : Terminates(y, q)' => Terminates(y, q)
      BY <3>1 DEF TurnsTo, Terminates
    <3> QED
      BY <1>c, <3>1, <3>3, <3>4 DEF EntriesAreComplete
  <2> QED
    BY <1>3, <2>1, <2>2, <2>3, <2>4 DEF ConsumerStep
<1>4. ASSUME NEW d \in Devcontainers, LinkStep(d) PROVE EntriesAreComplete'
  <2>1. CASE AgentConnects(d)
    BY <1>b, <2>1 DEF AgentConnects
  <2>2. CASE Drop(d)
    <3>1. /\ Empties(d) /\ UNCHANGED <<processes, tasks>>
          /\ \A r \in Runs :
               /\ runs'[r].session = runs[r].session
               /\ ~Terminates(d, r) => runs'[r].phase = runs[r].phase
               /\ Terminates(d, r) => runs'[r].phase \in Interrupted(runs[r].phase)
      BY <2>2, DropDoes DEF Base
    <3>2. \A r \in Runs : /\ runs'[r].phase = "working" => runs[r].phase = "working"
                          /\ runs'[r].phase # "killed"
      BY <1>c, <3>1 DEF Interrupted
    <3>3. \A y \in Devcontainers, q \in Runs : Terminates(y, q)' => Terminates(y, q)
      BY <3>1 DEF Empties, Terminates
    <3> QED
      BY <1>c, <3>1, <3>2, <3>3 DEF EntriesAreComplete
  <2>3. CASE ContainerStops(d)
    <3>1. /\ Empties(d)
          /\ \A r \in Runs :
               /\ runs'[r].session = runs[r].session
               /\ runs[r].dc # d => runs'[r] = runs[r]
               /\ runs[r].dc = d => runs'[r].phase = "gone"
          /\ \A s \in Sessions :
                processes'[s] = IF processes[s] # None /\ runs[processes[s]].dc = d
                                THEN None ELSE processes[s]
          /\ \A s \in Sessions :
                tasks'[s] = IF tasks[s] # None /\ runs[tasks[s]].dc = d THEN None ELSE tasks[s]
      BY <2>3, ContainerStopsDoes DEF Base
    <3>2. \A y \in Devcontainers, q \in Runs : Terminates(y, q)' => Terminates(y, q)
      BY <3>1 DEF Empties, Terminates
    <3>3. \A r \in Runs : /\ runs'[r].phase # "killed"
                          /\ runs'[r].phase = "working" => runs'[r] = runs[r] /\ runs[r].dc # d
      BY <1>c, <3>1
    <3> QED
      BY <1>c, <1>w, <1>p, <3>1, <3>2, <3>3 DEF EntriesAreComplete
  <2> QED
    BY <1>4, <2>1, <2>2, <2>3 DEF LinkStep
<1>5. ASSUME NEW r \in Runs, RunStep(r) PROVE EntriesAreComplete'
  <2>1. ASSUME NEW phase, phase \notin {"working", "killed"}, Turns(r, phase), UNCHANGED busy,
               \A s \in Sessions : processes'[s] # None => tasks'[s] = processes'[s],
               \A q \in Runs : (runs[q].phase = "working" /\ q # r) =>
                   processes'[runs[q].session] = processes[runs[q].session]
        PROVE  EntriesAreComplete'
    <3>1. \A q \in Runs : /\ runs'[q].session = runs[q].session
                          /\ q # r => runs'[q].phase = runs[q].phase
                          /\ q = r => runs'[q].phase = phase
      BY <1>t, <1>5, <2>1, PhaseTurns
    <3>2. \A y \in Devcontainers, q \in Runs : Terminates(y, q)' => Terminates(y, q)
      BY <2>1 DEF Terminates
    <3> QED
      BY <1>c, <2>1, <3>1, <3>2 DEF EntriesAreComplete
  <2>2. CASE RunExits(r)
    <3>1. PICK s \in Sessions :
            /\ s = runs[r].session /\ runs[r].phase \in {"working", "killed"}
            /\ Turns(r, "reported") /\ processes'[s] = None
            /\ \A y \in Sessions : y # s => processes'[y] = processes[y]
            /\ UNCHANGED <<busy, tasks>>
      BY <2>2, RunExitsDoes DEF Base
    <3>2. \A q \in Runs : (runs[q].phase = "working" /\ q # r) => runs[q].session # s
      BY <1>c, <1>5, <3>1
    <3> QED
      BY <1>c, <1>w, <2>1, <3>1, <3>2
  <2>3. CASE RunReturns(r)
    <3>1. PICK s \in Sessions :
            /\ s = runs[r].session /\ runs[r].phase = "reported"
            /\ Turns(r, "gone") /\ tasks'[s] = None
            /\ \A y \in Sessions : y # s => tasks'[y] = tasks[y]
            /\ lapses' = IF tasks[s] \in {r, None} THEN lapses ELSE lapses \cup {"task_evicted"}
            /\ UNCHANGED <<busy, processes>>
      BY <2>3, RunReturnsDoes DEF Base
    <3>2. tasks[s] \in {r, None}
      BY <3>1 DEF Unconfused
    <3>3. processes[s] = None
      BY <1>c, <1>n, <1>5, <1>p, <3>1, <3>2 DEF ProcessesNameRuns
    <3> QED
      BY <1>c, <2>1, <3>1, <3>3
  <2>4. CASE OrphanExits(r)
    <3>1. Turns(r, "gone") /\ UNCHANGED <<busy, processes, tasks>>
      BY <2>4, OrphanExitsDoes DEF Base
    <3> QED
      BY <1>c, <2>1, <3>1
  <2>5. ASSUME NEW type \in Asks, Ask(r, type) PROVE EntriesAreComplete'
    BY <1>b, <2>5 DEF Ask
  <2> QED
    BY <1>5, <2>2, <2>3, <2>4, <2>5 DEF RunStep
<1>6. CASE UNCHANGED vars
  <2>1. UNCHANGED <<busy, runs, processes, tasks>>
    BY <1>6 DEF vars, agvars
  <2> QED
    BY <1>b, <2>1
<1> QED
  BY <1>1, <1>2, <1>3, <1>4, <1>5, <1>6, StepKindsOfAgent

-----------------------------------------------------------------------------
\* What the steps do to the rows of sessions.

\* Taking in an event moves the status of its session, if it has a row and the
\* event a status, and no other row.
LEMMA TakeInRows ==
    ASSUME Base, NEW d \in Devcontainers, TakeInEvent(d), NEW e, e = Head(evts[d]),
           NEW q \in Sessions
    PROVE  /\ q # e.session \/ sessions[q] = None \/ e.type \notin DOMAIN SessionStatusAfter =>
                  sessions'[q] = sessions[q]
           /\ q = e.session /\ sessions[q] # None /\ e.type \in DOMAIN SessionStatusAfter =>
                  /\ sessions'[q] # None /\ sessions'[q].dc = sessions[q].dc
                  /\ sessions'[q].status = SessionStatusAfter[e.type]
<1>1. TakesIn(d, e) /\ Intake(e)
  BY TakeInDoes DEF Base
<1>2. e \in Members(evts[d]) /\ e \in EventFrom(d)
  BY <1>1, TakesInRemoves, TypeParts DEF Base
<1>3. CASE ~Accepted(e)
  <2>1. UNCHANGED sessions
    BY <1>1, <1>3 DEF Intake, PersistEvent, rmvars
  <2>2. ASSUME q = e.session, sessions[q] # None PROVE FALSE
    <3>1. sessions[q].dc = d
      BY <1>2, <2>2, ThereIs, RowMentions, HomesAgree DEF Base
    <3>2. Exists(devcontainers, d) /\ Exists(sessions, q)
      BY <2>2, <3>1 DEF Base, Consistent, TypeOK, RowsBelongTogether, Exists
    <3>3. e.dc = d /\ Reducible(e)
      BY <1>2, EventFields DEF Reducible
    <3> QED
      BY <1>3, <2>2, <3>2, <3>3 DEF Accepted
  <2> QED
    BY <2>1, <2>2
<1>4. CASE Accepted(e)
  <2>3. PersistEvent(e)
    BY <1>1, <1>4 DEF Intake
  <2>4. sessions'[q] = IF q = e.session /\ e.type \in DOMAIN SessionStatusAfter
                       THEN [sessions[q] EXCEPT !.status = SessionStatusAfter[e.type]]
                       ELSE sessions[q]
    BY <2>3 DEF PersistEvent, ProjectSession
  <2>5. e.session \in Sessions /\ sessions[e.session] # None
    BY <1>2, <1>4, EventFields, NoneIsNoId DEF Accepted, Exists
  <2>6. ASSUME q = e.session, e.type \in DOMAIN SessionStatusAfter
        PROVE  /\ sessions'[q] # None /\ sessions'[q].dc = sessions[q].dc
               /\ sessions'[q].status = SessionStatusAfter[e.type]
    <3>1. sessions[q] \in SessionRow
      BY <2>5, <2>6 DEF Base, Consistent, TypeOK, Optional
    <3>2. SessionStatusAfter[e.type] \in AgentSessionStatus
      BY <2>6 DEF SessionStatusAfter, AgentSessionStatus, Active, Resting
    <3>3. sessions'[q] \in SessionRow
      BY <2>4, <2>6, <3>1, <3>2 DEF SessionRow
    <3> QED
      BY <2>4, <2>6, <3>1, <3>3, NoneIsNoRow DEF SessionRow
  <2> QED
    BY <2>4, <2>5, <2>6
<1> QED
  BY <1>3, <1>4

\* The other writes of the database leave a session's row or remove it.
LEMMA RowsOnlyRows ==
    ASSUME RowsOnly, NEW q \in Sessions
    PROVE  sessions'[q] = sessions[q] \/ sessions'[q] = None
<1>1. ASSUME NEW e \in RuntimeEvents, Intake(e), e.session = None PROVE sessions'[q] = sessions[q]
  <2>1. q # None
    BY NoneIsNoId
  <2> QED
    BY <1>1, <2>1 DEF Intake, PersistEvent, ProjectSession, rmvars
<1>2. ASSUME NEW gone, CascadeSessions(gone) PROVE sessions'[q] = sessions[q] \/ sessions'[q] = None
  BY <1>2 DEF CascadeSessions
<1> QED
  BY <1>1, <1>2 DEF RowsOnly, CreateDevcontainer, DeleteDevcontainer, DeleteSessionCheck,
                    DeleteSessionCommit, tables

\* A new row, and a resumed one.
LEMMA BegunRows ==
    ASSUME Base, NEW q \in Sessions, NEW s \in Sessions,
           (\E d \in Devcontainers : StartRow(d, s)) \/ ResumeRow(s)
    PROVE  /\ q # s => sessions'[q] = sessions[q]
           /\ q = s => /\ sessions'[q] # None /\ sessions'[q].status = "starting"
                       /\ ResumeRow(s) => sessions'[q].dc = sessions[q].dc
<1>1. sessions \in [Sessions -> Optional(SessionRow)]
  BY DEF Base, Consistent, TypeOK
<1>2. ASSUME NEW d \in Devcontainers, StartRow(d, s)
      PROVE  /\ q # s => sessions'[q] = sessions[q]
             /\ q = s => sessions'[q] # None /\ sessions'[q].status = "starting"
  <2>1. [dc |-> d, status |-> "starting"] \in SessionRow
    BY DEF SessionRow, AgentSessionStatus, Active
  <2> QED
    BY <1>1, <1>2, <2>1, NoneIsNoRow DEF StartRow
<1>3. ASSUME ResumeRow(s)
      PROVE  /\ q # s => sessions'[q] = sessions[q]
             /\ q = s => /\ sessions'[q] # None /\ sessions'[q].status = "starting"
                         /\ sessions'[q].dc = sessions[q].dc
  <2>1. sessions[s] \in SessionRow
    BY <1>1, <1>3 DEF ResumeRow, IsResting, Exists, Optional
  <2>2. /\ [sessions[s] EXCEPT !.status = "starting"] \in SessionRow
        /\ [sessions[s] EXCEPT !.status = "starting"].status = "starting"
        /\ [sessions[s] EXCEPT !.status = "starting"].dc = sessions[s].dc
    BY <2>1 DEF SessionRow, AgentSessionStatus, Active
  <2> QED
    BY <1>1, <1>3, <2>2, NoneIsNoRow DEF ResumeRow
<1> QED
  BY <1>2, <1>3

-----------------------------------------------------------------------------
\* One run of a session at a time.

\* What a step may do to the runs and messages about a session without ado.
CommandsCalm(d, s) ==
    /\ \A m \in Members(cmds'[d]) : m \in Starts(d, s) => m \in Members(cmds[d])
    /\ NeverAfter(cmds'[d], Starts(d, s), Starts(d, s))
    /\ NeverAfter(cmds'[d], Stops(d, s), Starts(d, s))

EventsCalm(d, s) ==
    /\ \A m \in Members(evts'[d]) : m \in Ends(d, s) => m \in Members(evts[d])
    /\ NeverAfter(evts'[d], Ends(d, s), Reports(d, s))

WorkCalm(d, s) == (Spawning(d, s)' => Spawning(d, s)) /\ (Stopping(d, s)' => Stopping(d, s))

RunsCalm(s) ==
    \A r \in Runs :
        runs'[r].session = s /\ runs'[r].phase \in {"working", "dying", "killed"} =>
            /\ runs[r].session = s /\ runs[r].phase \in {"working", "dying", "killed"}
            /\ runs'[r].phase = "working" => runs[r].phase = "working"

RowCalm(s) == sessions'[s] # None /\ sessions'[s].status \in Resting =>
                  sessions[s] # None /\ sessions[s].status \in Resting

\* Such a step keeps the runs of the session in turn.
LEMMA CalmStep ==
    ASSUME Base, Base', NEW x \in Devcontainers, NEW q \in Sessions, OneRunAtATime(x, q),
           CommandsCalm(x, q), EventsCalm(x, q), WorkCalm(x, q), RunsCalm(q), RowCalm(q)
    PROVE  OneRunAtATime(x, q)'
<1>1. Reports(x, q) \subseteq Ends(x, q)
  BY DEF Reports, Ends, EventsAbout
<1>2. (Spawning(x, q)' => Spawning(x, q)) /\ (Stopping(x, q)' => Stopping(x, q))
  BY DEF WorkCalm
<1>3. Pending(x, q)' => Pending(x, q)
  BY <1>2 DEF CommandsCalm, Pending, Starts, CommandsAbout, CommandTo
<1>4. Running(q)' => Running(q)
  BY DEF RunsCalm, Running
<1>5. IsResting(q)' => IsResting(q)
  BY ActiveOrResting DEF RowCalm, Base, Consistent, TypeOK, IsResting, Exists
<1>6. Ended(x, q)' => Ended(x, q)
  BY <1>5 DEF EventsCalm, Ended
<1>7. \A r \in Runs : runs'[r].session = q /\ runs'[r].phase = "working" =>
          runs[r].session = q /\ runs[r].phase = "working"
  BY DEF RunsCalm
<1>8. Members(cmds'[x]) \cap Starts(x, q) \subseteq Members(cmds[x]) \cap Starts(x, q)
  BY DEF CommandsCalm
<1>9. Members(evts'[x]) \cap Reports(x, q) \subseteq Members(evts[x]) \cap Reports(x, q)
  BY <1>1 DEF EventsCalm
<1> QED
  BY <1>2, <1>3, <1>4, <1>5, <1>6, <1>7, <1>8, <1>9 DEF OneRunAtATime, CommandsCalm, EventsCalm

\* What becomes of the commands, unless it is a start of this session.
LEMMA CalmCommands ==
    ASSUME Base, NEW x \in Devcontainers, NEW q \in Sessions, OneRunAtATime(x, q),
           NEW d \in Devcontainers, NEW c,
           \/ cmds'[x] = cmds[x] \/ cmds'[x] = <<>> \/ Takes(d, c)
           \/ Sends(d, c) /\ (x # d \/ c \notin Starts(x, q))
    PROVE  CommandsCalm(x, q)
<1>t. CommandsTyped
  BY TypeParts DEF Base
<1>1. /\ NeverAfter(cmds'[x], Starts(x, q), Starts(x, q))
      /\ NeverAfter(cmds'[x], Stops(x, q), Starts(x, q))
  BY <1>t, CommandsGoOn DEF OneRunAtATime
<1>2. ASSUME NEW m \in Members(cmds'[x]), m \in Starts(x, q) PROVE m \in Members(cmds[x])
  <2>1. CASE cmds'[x] = cmds[x]
    BY <1>2, <2>1
  <2>2. CASE cmds'[x] = <<>>
    BY <1>2, <2>2, EmptyQueue
  <2>3. CASE Takes(d, c)
    BY <1>t, <1>2, <2>3, TakesRemoves
  <2>4. CASE Sends(d, c) /\ (x # d \/ c \notin Starts(x, q))
    BY <1>t, <1>2, <2>4, SendsAdds
  <2> QED
    BY <2>1, <2>2, <2>3, <2>4
<1> QED
  BY <1>1, <1>2 DEF CommandsCalm

\* What becomes of the events, unless it is an end of this session.
LEMMA CalmEvents ==
    ASSUME Base, NEW x \in Devcontainers, NEW q \in Sessions, OneRunAtATime(x, q),
           NEW d \in Devcontainers, NEW e,
           \/ evts'[x] = evts[x] \/ evts'[x] = <<>> \/ TakesIn(d, e)
           \/ Emits(d, e) /\ (x # d \/ e \notin Ends(x, q))
    PROVE  EventsCalm(x, q)
<1>t. EventsTyped
  BY TypeParts DEF Base
<1>r. Reports(x, q) \subseteq Ends(x, q)
  BY DEF Reports, Ends, EventsAbout
<1>1. NeverAfter(evts'[x], Ends(x, q), Reports(x, q))
  BY <1>t, <1>r, EventsGoOn DEF OneRunAtATime
<1>2. ASSUME NEW m \in Members(evts'[x]), m \in Ends(x, q) PROVE m \in Members(evts[x])
  <2>1. CASE evts'[x] = evts[x]
    BY <1>2, <2>1
  <2>2. CASE evts'[x] = <<>>
    BY <1>2, <2>2, EmptyQueue
  <2>3. CASE TakesIn(d, e)
    BY <1>t, <1>2, <2>3, TakesInRemoves
  <2>4. CASE Emits(d, e) /\ (x # d \/ e \notin Ends(x, q))
    BY <1>t, <1>2, <2>4, EmitsAdds
  <2> QED
    BY <2>1, <2>2, <2>3, <2>4
<1> QED
  BY <1>1, <1>2 DEF EventsCalm

\* A session that nothing is under way for begins a run.
LEMMA BeginStep ==
    ASSUME Base, Base', NEW d \in Devcontainers, NEW s \in Sessions, OneRunAtATime(d, s),
           NEW c, Sends(d, c), UNCHANGED <<evts, busy, runs>>, ~IsResting(s)',
           ~Pending(d, s), ~Running(s), ~Stopping(d, s),
           Members(cmds[d]) \cap Stops(d, s) = {}, Members(evts[d]) \cap Ends(d, s) = {}
    PROVE  OneRunAtATime(d, s)'
<1>1. Members(cmds[d]) \cap Starts(d, s) = {} /\ ~Spawning(d, s)
  BY DEF Pending
<1>2. /\ NeverAfter(cmds'[d], Starts(d, s), Starts(d, s))
      /\ NeverAfter(cmds'[d], Stops(d, s), Starts(d, s))
  BY <1>1, CommandsGoOn, TypeParts DEF Base, OneRunAtATime
<1>3. ~Running(s)' /\ ~Spawning(d, s)' /\ ~Stopping(d, s)' /\ ~Ended(d, s)'
  BY <1>1 DEF Running, Spawning, Stopping, Ended
<1>4. NeverAfter(evts'[d], Ends(d, s), Reports(d, s))
  BY DEF OneRunAtATime
<1> QED
  BY <1>2, <1>3, <1>4 DEF OneRunAtATime

\* Every step keeps the runs of every session in turn, as long as none is confused
\* with another.
LEMMA NextOneRun ==
    ASSUME Base, RunsInTurn, [Next]_vars, Unconfused',
           NEW x \in Devcontainers, NEW q \in Sessions
    PROVE  OneRunAtATime(x, q)'
<1>u. /\ EntriesAreComplete
      /\ \A d \in Devcontainers, s \in Sessions : OneRunAtATime(d, s)
  BY LapsesGrow DEF Unconfused, RunsInTurn
<1>t. CommandsTyped /\ EventsTyped /\ WorkTyped /\ runs \in [Runs -> Run] /\ Base'
  BY TypeParts, NextBase DEF Base
<1>h. OneRunAtATime(x, q)
  BY <1>u
<1>g. ASSUME CommandsCalm(x, q), EventsCalm(x, q), WorkCalm(x, q), RunsCalm(q), RowCalm(q)
      PROVE  OneRunAtATime(x, q)'
  BY <1>g, <1>h, <1>t, CalmStep
<1>r. UNCHANGED runs => RunsCalm(q)
  BY DEF RunsCalm
<1>w. busy'[x] = busy[x] \/ busy'[x] = None => WorkCalm(x, q)
  BY DEF WorkCalm, Spawning, Stopping
<1>d. sessions'[q] = sessions[q] \/ sessions'[q] = None => RowCalm(q)
  BY DEF RowCalm
<1>c. cmds'[x] = cmds[x] => CommandsCalm(x, q)
  BY <1>h, CalmCommands
<1>e. evts'[x] = evts[x] => EventsCalm(x, q)
  BY <1>h, CalmEvents
<1>1. CASE RouteStep
  <2>1. ASSUME NEW d \in Devcontainers, NEW s \in Sessions, NEW c, Sends(d, c), c.session = s,
               UNCHANGED <<evts, busy, runs>>,
               c.type \notin {"start_agent_session", "resume_agent_session"} \/ s # q \/ x # d,
               RowCalm(q)
        PROVE  OneRunAtATime(x, q)'
    <3>1. c \notin Starts(x, q) \/ x # d
      BY <2>1 DEF Starts, CommandsAbout
    <3>2. CommandsCalm(x, q)
      BY <1>h, <2>1, <3>1, CalmCommands
    <3> QED
      BY <1>e, <1>g, <1>r, <1>w, <2>1, <3>2
  <2>2. ASSUME NEW d \in Devcontainers, NEW s \in Sessions, StartAgentSession(d, s)
        PROVE  OneRunAtATime(x, q)'
    <3> DEFINE c == Command("start_agent_session", d, s)
    <3>1. StartRow(d, s) /\ s \notin minted /\ Sends(d, c) /\ UNCHANGED <<evts, busy, runs>>
      BY <2>2, StartDoes DEF Base
    <3>2. c.session = s
      BY MadeCommands DEF LifeCommands
    <3> HIDE DEF c
    <3>3. /\ q # s => sessions'[q] = sessions[q]
          /\ sessions'[s].status = "starting"
      BY <3>1, BegunRows
    <3>4. ~IsResting(s)'
      BY <3>3 DEF IsResting, Resting
    <3>5. RowCalm(q)
      BY <3>3 DEF RowCalm, Resting
    <3>6. CASE x = d /\ q = s
      <4>1. ~Mentions(d, s) /\ \A y \in Devcontainers : ~Mentions(y, s)
        BY <3>1 DEF Base, OneHome
      <4>2. ~Running(s)
        BY <4>1, ThereIs, EntriesAreSpawned DEF Running
      <4>3. /\ ~Pending(d, s) /\ ~Stopping(d, s)
            /\ Members(cmds[d]) \cap Stops(d, s) = {} /\ Members(evts[d]) \cap Ends(d, s) = {}
        BY <4>1, NotThere DEF Stops, Ends
      <4> QED
        BY <1>h, <1>t, <3>1, <3>4, <3>6, <4>2, <4>3, BeginStep
    <3> QED
      BY <2>1, <3>1, <3>2, <3>5, <3>6
  <2>3. ASSUME NEW s \in Sessions, ResumeAgentSession(s), NEW d, d = sessions[s].dc
        PROVE  OneRunAtATime(x, q)'
    <3> DEFINE c == Command("resume_agent_session", d, s)
    <3>1. /\ ResumeRow(s) /\ IsResting(s) /\ sessions[s] # None /\ d \in Devcontainers
          /\ Sends(d, c) /\ UNCHANGED <<evts, busy, runs>>
          /\ StopUnderWay(d, s) => "resumed_over_stop" \in lapses'
      BY <2>3, ResumeDoes DEF Base
    <3>2. c.session = s
      BY <3>1, MadeCommands DEF LifeCommands
    <3> HIDE DEF c
    <3>3. /\ q # s => sessions'[q] = sessions[q]
          /\ sessions'[s].status = "starting"
      BY <3>1, BegunRows
    <3>4. ~IsResting(s)'
      BY <3>3 DEF IsResting, Resting
    <3>5. RowCalm(q)
      BY <3>3 DEF RowCalm, Resting
    <3>6. CASE x = d /\ q = s
      <4>1. ~StopUnderWay(d, s)
        BY <3>1 DEF Unconfused
      <4>2. ~Stopping(d, s) /\ Members(cmds[d]) \cap Stops(d, s) = {}
        BY <4>1 DEF StopUnderWay, InFlight, Stopping, Stops, CommandsAbout, Members
      <4>3. /\ Members(evts[d]) \cap EventsAbout(d, s, {"session_stopped"}) = {}
            /\ Members(evts[d]) \cap Reports(d, s) = {}
            /\ Ended(d, s)
        BY <1>h, <3>1, <3>6, <4>1
           DEF StopUnderWay, InFlight, EventsAbout, Members, OneRunAtATime, Ended
      <4>4. Members(evts[d]) \cap Ends(d, s) = {}
        BY <4>3 DEF Ends, Reports, EventsAbout
      <4>5. ~Pending(d, s) /\ ~Running(s)
        BY <1>h, <3>6, <4>3 DEF OneRunAtATime
      <4> QED
        BY <1>h, <1>t, <3>1, <3>4, <3>6, <4>2, <4>4, <4>5, BeginStep
    <3> QED
      BY <2>1, <3>1, <3>2, <3>5, <3>6
  <2>4. ASSUME NEW d \in Devcontainers, NEW c, Orders(d, c) PROVE OneRunAtATime(x, q)'
    <3>1. /\ Sends(d, c) /\ UNCHANGED <<evts, busy, runs, sessions>>
          /\ c.type \notin {"start_agent_session", "resume_agent_session"}
      BY <2>4 DEF Orders, rmvars
    <3>2. c.session \in Sessions
      BY <3>1, CommandFields DEF Sends
    <3> QED
      BY <1>d, <2>1, <3>1, <3>2
  <2>5. ASSUME RowsOnly PROVE OneRunAtATime(x, q)'
    <3>1. UNCHANGED <<cmds, evts, busy, runs>>
      BY <2>5 DEF RowsOnly, agvars
    <3> QED
      BY <1>c, <1>d, <1>e, <1>g, <1>r, <1>w, <2>5, <3>1, RowsOnlyRows
  <2> QED
    BY <1>1, <2>2, <2>3, <2>4, <2>5 DEF RouteStep
<1>2. ASSUME NEW d \in Devcontainers, TakeInEvent(d), NEW e, e = Head(evts[d])
      PROVE  OneRunAtATime(x, q)'
  <2>1. TakesIn(d, e) /\ UNCHANGED <<cmds, busy, runs>>
    BY <1>2, TakeInDoes DEF Base
  <2>2. EventsCalm(x, q)
    BY <1>h, <2>1, CalmEvents
  <2>3. e \in Members(evts[d]) /\ e \in EventFrom(d) /\ e.session \in Sessions /\ Mentions(d, e.session)
    BY <1>t, <2>1, TakesInRemoves, ThereIs
  <2>4. CASE RowCalm(q)
    BY <1>c, <1>g, <1>r, <1>w, <2>1, <2>2, <2>4
  <2>5. CASE ~RowCalm(q)
    <3>1. /\ q = e.session /\ e.type \in DOMAIN SessionStatusAfter
          /\ SessionStatusAfter[e.type] \in Resting /\ sessions'[q] # None
      BY <1>d, <1>2, <2>5, TakeInRows DEF RowCalm
    <3>2. e \in Ends(d, q)
      BY <2>3, <3>1 DEF Ends, EventsAbout, SessionStatusAfter, Resting
    <3>3. Ended(d, q) /\ OneRunAtATime(d, q)
      BY <1>u, <2>3, <3>2 DEF Ended
    <3>4. ~Pending(x, q) /\ ~Running(q)
      <4>1. CASE x = d
        BY <3>3, <4>1 DEF OneRunAtATime
      <4>2. CASE x # d
        BY <2>3, <3>1, <3>3, <4>2, Elsewhere, NotThere DEF OneRunAtATime
      <4> QED
        BY <4>1, <4>2
    <3>5. ~Pending(x, q)' /\ ~Running(q)'
      BY <2>1, <3>4 DEF Pending, Spawning, Running
    <3>6. Members(evts'[x]) \cap Reports(x, q) = {}
      <4>1. CASE x = d
        <5>1. evts[d] \in Seq(EventFrom(d)) /\ evts[d] # <<>> /\ evts'[d] = Tail(evts[d])
          BY <1>t, <2>1, TakesInRemoves DEF TakesIn
        <5> QED
          BY <1>2, <3>2, <3>3, <4>1, <5>1, NeverAfterTail DEF OneRunAtATime
      <4>2. CASE x # d
        <5>1. evts'[x] = evts[x]
          BY <2>1, <4>2 DEF TakesIn
        <5> QED
          BY <2>3, <3>1, <4>2, <5>1, Elsewhere, NotThere DEF Reports
      <4> QED
        BY <4>1, <4>2
    <3>7. CommandsCalm(x, q)
      BY <1>c, <2>1
    <3>8. Spawning(x, q)' \/ Stopping(x, q)' => Members(cmds'[x]) \cap Starts(x, q) = {}
      BY <3>5 DEF Pending
    <3>9. \A r \in Runs : runs'[r].session = q => runs'[r].phase # "working"
      BY <3>5 DEF Running
    <3> QED
      BY <2>2, <3>5, <3>6, <3>7, <3>8, <3>9 DEF OneRunAtATime, CommandsCalm, EventsCalm
  <2> QED
    BY <2>4, <2>5
<1>3. ASSUME NEW d \in Devcontainers, ConsumerStep(d) PROVE OneRunAtATime(x, q)'
  <2>1. ASSUME NEW c, NEW e, Echoes(d, c, e) PROVE OneRunAtATime(x, q)'
    <3>1. /\ Takes(d, c) /\ Emits(d, e) /\ busy[d] = None /\ UNCHANGED <<sessions, runs>>
          /\ c \in CommandTo(d)
          /\ e.type \notin {"session_completed", "session_failed", "session_stopped"}
      BY <2>1 DEF Echoes, rmvars
    <3>2. CommandsCalm(x, q) /\ RowCalm(q) /\ RunsCalm(q)
      BY <1>d, <1>h, <1>r, <3>1, CalmCommands
    <3>3. EventsCalm(x, q)
      <4>1. e \notin Ends(x, q)
        BY <3>1 DEF Ends, EventsAbout
      <4> QED
        BY <1>h, <3>1, <4>1, CalmEvents
    <3>4. CASE WorkCalm(x, q)
      BY <1>g, <3>2, <3>3, <3>4
    <3>5. CASE ~WorkCalm(x, q)
      <4>1. /\ c.type \in {"start_agent_session", "resume_agent_session"}
            /\ TurnsTo(d, [step |-> "spawn", command |-> c, run |-> None])
        BY <1>w, <2>1, <3>5 DEF Echoes
      <4>2. x = d /\ busy'[d].step = "spawn" /\ busy'[d].command = c
        BY <1>w, <3>5, <4>1 DEF TurnsTo
      <4>3. q = c.session /\ ~Stopping(d, q)'
        BY <3>5, <4>2 DEF WorkCalm, Spawning, Stopping
      <4>4. c \in Starts(d, q) /\ c \in Members(cmds[d])
        BY <1>t, <3>1, <4>1, <4>3, TakesRemoves DEF Starts, CommandsAbout
      <4>5. Pending(d, q) /\ ~Running(q) /\ ~Ended(d, q)
        BY <1>h, <4>2, <4>4 DEF Pending, OneRunAtATime
      <4>6. ~Running(q)'
        BY <3>1, <4>5 DEF Running
      <4>7. ~IsResting(q)' /\ ~Ended(d, q)'
        BY <3>1, <3>3, <4>2, <4>5 DEF Ended, EventsCalm, IsResting, Exists
      <4>8. Members(cmds'[d]) \cap Starts(d, q) = {}
        <5>1. cmds[d] \in Seq(CommandTo(d)) /\ cmds[d] # <<>> /\ cmds'[d] = Tail(cmds[d])
              /\ c = Head(cmds[d])
          BY <1>t, <3>1, TakesRemoves DEF Takes
        <5> QED
          BY <1>h, <4>2, <4>4, <5>1, NeverAfterTail DEF OneRunAtATime
      <4> QED
        BY <3>2, <3>3, <4>2, <4>3, <4>6, <4>7, <4>8
           DEF OneRunAtATime, CommandsCalm, EventsCalm
    <3> QED
      BY <3>4, <3>5
  <2>2. ASSUME NEW r \in Runs, Spawn(d, r), NEW s, s = busy[d].command.session
        PROVE  OneRunAtATime(x, q)'
    <3>1. /\ s \in Sessions /\ Spawning(d, s) /\ TurnsTo(d, None)
          /\ Becomes(r, [dc |-> d, session |-> s, phase |-> "working", wired |-> TRUE])
          /\ UNCHANGED <<sessions, cmds, evts>>
      BY <2>2, SpawnDoes DEF Base, rmvars
    <3>2. WorkCalm(x, q)
      BY <1>w, <3>1 DEF TurnsTo
    <3>3. CommandsCalm(x, q) /\ EventsCalm(x, q) /\ RowCalm(q)
      BY <1>c, <1>d, <1>e, <3>1
    <3>4. CASE q # s
      <4>1. RunsCalm(q)
        BY <3>1, <3>4 DEF RunsCalm, Becomes
      <4> QED
        BY <1>g, <3>2, <3>3, <4>1
    <3>5. CASE q = s
      <4>1. Mentions(d, s)
        BY <3>1, ThereIs DEF Spawning
      <4>2. Pending(d, s) /\ ~Ended(d, s) /\ Members(cmds[d]) \cap Starts(d, s) = {}
        BY <1>u, <3>1 DEF Pending, OneRunAtATime
      <4>3. ~Pending(x, s)' /\ ~Ended(x, s)' /\ ~Spawning(x, s)' /\ ~Stopping(x, s)'
        <5>1. CASE x = d
          <6>1. ~Spawning(d, s)' /\ ~Stopping(d, s)'
            BY <3>1 DEF Spawning, Stopping, TurnsTo
          <6> QED
            BY <3>1, <4>2, <5>1, <6>1 DEF Pending, Ended, IsResting, Exists
        <5>2. CASE x # d
          <6>1. ~Mentions(x, s)
            BY <3>1, <4>1, <5>2, Elsewhere
          <6>2. /\ ~Pending(x, s) /\ ~Spawning(x, s) /\ ~Stopping(x, s)
                /\ Members(evts[x]) \cap Ends(x, s) = {}
            BY <3>1, <6>1, NotThere DEF Ends
          <6>3. ~Spawning(x, s)' /\ ~Stopping(x, s)'
            BY <3>2, <3>5, <6>2 DEF WorkCalm
          <6> QED
            BY <3>1, <4>2, <6>2, <6>3 DEF Pending, Ended, IsResting, Exists
        <5> QED
          BY <5>1, <5>2
      <4>4. ~IsResting(s)'
        BY <4>3 DEF Ended
      <4> QED
        BY <3>3, <3>5, <4>3, <4>4 DEF OneRunAtATime, CommandsCalm, EventsCalm
    <3> QED
      BY <3>4, <3>5
  <2>3. ASSUME HandleStop(d), NEW c, c = Head(cmds[d]), NEW s, s = c.session,
               NEW r, r = processes[s]
        PROVE  OneRunAtATime(x, q)'
    <3>1. /\ s \in Sessions /\ Takes(d, c) /\ c \in CommandTo(d) /\ c.type = "stop_agent_session"
          /\ TurnsTo(d, [step |-> "stop", command |-> c, run |-> r])
          /\ r # None /\ tasks[s] = r => Turns(r, "dying")
          /\ ~(r # None /\ tasks[s] = r) => runs' = runs
          /\ UNCHANGED <<sessions, evts>>
      BY <2>3, HandleStopDoes DEF Base, rmvars
    <3>2. r # None => r \in Runs /\ tasks[s] = r /\ runs[r].phase = "working"
      BY <1>u, <2>3, <3>1, TypeParts
         DEF Base, EntriesNameRuns, ProcessesNameRuns, EntriesAreComplete, Optional
    <3>3. CommandsCalm(x, q) /\ EventsCalm(x, q) /\ RowCalm(q)
      BY <1>d, <1>e, <1>h, <3>1, CalmCommands
    <3>4. RunsCalm(q) /\ (r # None => runs'[r].phase = "dying")
      <4>1. CASE r = None
        BY <1>r, <3>1, <4>1
      <4>2. CASE r # None
        <5>1. /\ runs'[r].phase = "dying" /\ runs'[r].session = runs[r].session
              /\ \A y \in Runs : y # r => runs'[y].phase = runs[y].phase
                                          /\ runs'[y].session = runs[y].session
          BY <1>t, <3>1, <3>2, <4>2, PhaseTurns
        <5> QED
          BY <3>2, <4>2, <5>1 DEF RunsCalm
      <4> QED
        BY <4>1, <4>2
    <3>5. CASE ~(x = d /\ q = s)
      <4>1. WorkCalm(x, q)
        <5>1. x # d => WorkCalm(x, q)
          BY <1>w, <3>1 DEF TurnsTo
        <5>2. busy'[d].step = "stop" /\ busy'[d].command.session = s
          BY <2>3, <3>1 DEF TurnsTo
        <5> QED
          BY <3>5, <5>1, <5>2 DEF WorkCalm, Spawning, Stopping
      <4> QED
        BY <1>g, <3>3, <3>4, <4>1
    <3>6. CASE x = d /\ q = s
      <4>1. ~Spawning(d, s)'
        BY <3>1 DEF TurnsTo, Spawning
      <4>2. Members(cmds'[d]) \cap Starts(d, s) = {}
        <5>1. cmds[d] \in Seq(CommandTo(d)) /\ cmds[d] # <<>> /\ cmds'[d] = Tail(cmds[d])
              /\ c = Head(cmds[d])
          BY <1>t, <3>1, TakesRemoves DEF Takes
        <5>2. c \in Stops(d, s)
          BY <2>3, <3>1 DEF Stops, CommandsAbout
        <5> QED
          BY <1>h, <3>6, <5>1, <5>2, NeverAfterTail DEF OneRunAtATime
      <4>3. ~Pending(d, s)'
        BY <4>1, <4>2 DEF Pending
      <4>4. ASSUME NEW y \in Runs, runs'[y].session = s, runs'[y].phase = "working"
            PROVE  FALSE
        <5>1. runs[y].session = s /\ runs[y].phase = "working"
          BY <3>4, <3>6, <4>4 DEF RunsCalm
        <5>2. processes[s] = y
          BY <1>u, <5>1 DEF EntriesAreComplete
        <5> QED
          BY <2>3, <3>4, <4>4, <5>2, RunsAreNotNone
      <4>5. Ended(d, s)' => Ended(d, s)
        BY <3>1, <3>6 DEF Ended, IsResting, Exists
      <4>6. Running(s)' => Running(s)
        BY <3>4, <3>6 DEF RunsCalm, Running
      <4>7. Ended(d, s)' => ~Running(s)'
        BY <1>h, <3>6, <4>5, <4>6 DEF OneRunAtATime
      <4>8. IsResting(s)' => Members(evts'[d]) \cap Reports(d, s) = {}
        BY <1>h, <3>1, <3>6 DEF OneRunAtATime, IsResting, Exists
      <4> QED
        BY <3>3, <3>6, <4>2, <4>3, <4>4, <4>7, <4>8
           DEF OneRunAtATime, CommandsCalm, EventsCalm
    <3> QED
      BY <3>5, <3>6
  <2>4. ASSUME FinishStop(d), NEW s, s = busy[d].command.session, NEW r, r = busy[d].run,
               NEW e, e = SessionEvent("session_stopped", d, s)
        PROVE  OneRunAtATime(x, q)'
    <3>1. /\ s \in Sessions /\ Stopping(d, s) /\ r \in Optional(Runs)
          /\ Emits(d, e) /\ TurnsTo(d, None)
          /\ r = None => runs' = runs
          /\ r # None => Terminates(d, r) /\ Leaves(r)
          /\ UNCHANGED <<sessions, cmds>>
      BY <2>4, FinishStopDoes DEF Base, rmvars
    <3>2. e \in EventFrom(d) /\ e.session = s /\ e.type = "session_stopped"
      BY <2>4, <3>1, MadeEvents DEF PlainSessionEventTypes
    <3>3. CommandsCalm(x, q) /\ WorkCalm(x, q) /\ RowCalm(q)
      BY <1>c, <1>d, <1>w, <3>1 DEF TurnsTo
    <3>4. RunsCalm(q) /\ (r # None => runs'[r].phase \notin {"working", "dying"})
      <4>1. CASE r = None
        BY <1>r, <3>1, <4>1
      <4>2. CASE r # None
        <5>1. r \in Runs /\ runs[r].phase # "working"
          BY <1>u, <3>1, <4>2 DEF Optional, EntriesAreComplete
        <5>2. /\ runs'[r].phase \in Terminated(runs[r].phase) /\ runs'[r].session = runs[r].session
              /\ \A y \in Runs : y # r => runs'[y].phase = runs[y].phase
                                          /\ runs'[y].session = runs[y].session
          BY <1>t, <3>1, <4>2, <5>1, PhaseTurns DEF Leaves
        <5>3. /\ runs'[r].phase \notin {"working", "dying"}
              /\ runs'[r].phase = "killed" => runs[r].phase = "killed"
          BY <5>1, <5>2 DEF Terminated
        <5> QED
          BY <4>2, <5>2, <5>3 DEF RunsCalm
      <4> QED
        BY <4>1, <4>2
    <3>5. CASE ~(x = d /\ q = s)
      <4>1. EventsCalm(x, q)
        <5>1. x # d \/ e \notin Ends(x, q)
          BY <3>2, <3>5 DEF Ends, EventsAbout
        <5> QED
          BY <1>h, <3>1, <5>1, CalmEvents
      <4> QED
        BY <1>g, <3>3, <3>4, <4>1
    <3>6. CASE x = d /\ q = s
      <4>1. ~Spawning(d, s)' /\ ~Stopping(d, s)'
        BY <3>1 DEF TurnsTo, Spawning, Stopping
      <4>2. ~Pending(d, s)'
        BY <1>h, <3>1, <3>6, <4>1 DEF Pending, OneRunAtATime
      <4>3. ~Running(s)'
        <5> SUFFICES ASSUME NEW y \in Runs, runs'[y].session = s,
                            runs'[y].phase \in {"working", "dying", "killed"}
                     PROVE  FALSE
          BY DEF Running
        <5>1. runs[y].session = s /\ runs[y].phase = "dying"
          BY <1>h, <1>u, <3>1, <3>4, <3>6 DEF RunsCalm, OneRunAtATime, EntriesAreComplete
        <5>2. Terminates(runs[y].dc, y)
          BY <5>1 DEF Base, EntriesNameRuns, DyingAreTerminated
        <5>3. runs[y].dc = d
          <6>1. runs[y].dc \in Devcontainers
            BY <5>1, EntriesAreSpawned
          <6>2. Mentions(runs[y].dc, s)
            BY <5>1, <6>1, ThereIs
          <6>3. Mentions(d, s)
            BY <3>1, ThereIs DEF Stopping
          <6> QED
            BY <3>1, <6>1, <6>2, <6>3, HomesAgree DEF Base
        <5>4. y = r /\ r # None
          BY <2>4, <5>2, <5>3, RunsAreNotNone DEF Terminates
        <5>5. runs'[r].phase \notin {"working", "dying"} /\ runs[r].phase = "dying"
          BY <3>4, <5>1, <5>4
        <5>6. runs'[r].phase = "gone"
          BY <1>t, <3>1, <5>4, <5>5, PhaseTurns DEF Leaves, Terminated
        <5> QED
          BY <5>4, <5>6
      <4>4. e \notin Reports(d, s)
        BY <3>2 DEF Reports, EventsAbout
      <4>5. NeverAfter(evts'[d], Ends(d, s), Reports(d, s))
        BY <1>h, <1>t, <3>1, <3>6, <4>4, EventsGoOn DEF OneRunAtATime
      <4>6. IsResting(s)' => Members(evts'[d]) \cap Reports(d, s) = {}
        BY <1>h, <1>t, <3>1, <3>6, <4>4, EmitsAdds DEF OneRunAtATime, IsResting, Exists
      <4> QED
        BY <3>3, <3>6, <4>1, <4>2, <4>3, <4>5, <4>6 DEF OneRunAtATime, CommandsCalm
    <3> QED
      BY <3>5, <3>6
  <2> QED
    BY <1>3, <2>1, <2>2, <2>3, <2>4 DEF ConsumerStep
<1>4. ASSUME NEW d \in Devcontainers, LinkStep(d) PROVE OneRunAtATime(x, q)'
  <2>1. CASE AgentConnects(d)
    <3>1. UNCHANGED <<sessions, cmds, evts, busy, runs>>
      BY <2>1, AgentConnectsDoes DEF Base, rmvars
    <3> QED
      BY <1>c, <1>d, <1>e, <1>g, <1>r, <1>w, <3>1
  <2>2. ASSUME Empties(d), RunsCalm(q), UNCHANGED sessions PROVE OneRunAtATime(x, q)'
    <3>1. CommandsCalm(x, q) /\ EventsCalm(x, q) /\ WorkCalm(x, q)
      BY <1>c, <1>e, <1>h, <1>w, <2>2, CalmCommands, CalmEvents DEF Empties
    <3> QED
      BY <1>d, <1>g, <2>2, <3>1
  <2>3. CASE Drop(d)
    <3>1. /\ Empties(d) /\ UNCHANGED sessions
          /\ \A r \in Runs :
                /\ runs'[r].session = runs[r].session
                /\ ~Terminates(d, r) => runs'[r].phase = runs[r].phase
                /\ Terminates(d, r) => runs'[r].phase \in Interrupted(runs[r].phase)
      BY <2>3, DropDoes DEF Base, rmvars
    <3>2. \A r \in Runs : Terminates(d, r) => runs[r].phase # "working"
      BY <1>u DEF EntriesAreComplete
    <3>3. RunsCalm(q)
      BY <3>1, <3>2 DEF RunsCalm, Interrupted
    <3> QED
      BY <2>2, <3>1, <3>3
  <2>4. CASE ContainerStops(d)
    <3>1. /\ Empties(d) /\ UNCHANGED sessions
          /\ \A r \in Runs : /\ runs[r].dc # d => runs'[r] = runs[r]
                             /\ runs[r].dc = d => runs'[r].phase = "gone"
      BY <2>4, ContainerStopsDoes DEF Base, rmvars
    <3>2. RunsCalm(q)
      BY <3>1 DEF RunsCalm
    <3> QED
      BY <2>2, <3>1, <3>2
  <2> QED
    BY <1>4, <2>1, <2>3, <2>4 DEF LinkStep
<1>5. ASSUME NEW r \in Runs, RunStep(r), NEW d, d = runs[r].dc, NEW s, s = runs[r].session
      PROVE  OneRunAtATime(x, q)'
  <2>1. ASSUME UNCHANGED <<sessions, cmds, evts, busy>>, RunsCalm(q) PROVE OneRunAtATime(x, q)'
    BY <1>c, <1>d, <1>e, <1>g, <1>w, <2>1
  <2>2. ASSUME NEW phase \in {"gone", "reported"}, Turns(r, phase) PROVE RunsCalm(q)
    BY <1>t, <2>2, PhaseTurns DEF RunsCalm
  <2>3. CASE RunReturns(r)
    BY <2>1, <2>2, <2>3, RunReturnsDoes DEF Base, rmvars
  <2>4. CASE OrphanExits(r)
    BY <2>1, <2>2, <2>4, OrphanExitsDoes DEF Base, rmvars
  <2>5. ASSUME NEW type \in Asks, Ask(r, type), NEW e, e = SessionEvent(type, d, s)
        PROVE  OneRunAtATime(x, q)'
    <3>1. /\ Emits(d, e) /\ d \in Devcontainers /\ s \in Sessions
          /\ type \in {"approval_requested", "agent_asked_question"}
          /\ UNCHANGED <<sessions, cmds, busy, runs>>
      BY <1>5, <2>5, AskDoes DEF Base, rmvars
    <3>2. e \notin Ends(x, q)
      BY <2>5, <3>1, MadeEvents DEF Ends, EventsAbout, PlainSessionEventTypes
    <3>3. EventsCalm(x, q)
      BY <1>h, <3>1, <3>2, CalmEvents
    <3> QED
      BY <1>c, <1>d, <1>g, <1>r, <1>w, <3>1, <3>3
  <2>6. CASE RunExits(r)
    <3>1. /\ d \in Devcontainers /\ s \in Sessions /\ runs[r].phase \in {"working", "killed"}
          /\ Turns(r, "reported")
          /\ evts' = evts \/ \E type \in {"session_completed", "session_failed"} :
                                 Emits(d, SessionEvent(type, d, s))
          /\ UNCHANGED <<sessions, cmds, busy>>
      BY <1>5, <2>6, RunExitsDoes DEF Base, rmvars
    <3>2. RunsCalm(q)
      BY <2>2, <3>1
    <3>3. CASE evts' = evts
      BY <2>1, <3>1, <3>2, <3>3
    <3>4. ASSUME NEW type \in {"session_completed", "session_failed"},
                 NEW e, e = SessionEvent(type, d, s), Emits(d, e)
          PROVE  OneRunAtATime(x, q)'
      <4>1. e \in EventFrom(d) /\ e.session = s
        BY <3>1, <3>4, MadeEvents DEF PlainSessionEventTypes
      <4>2. CASE ~(x = d /\ q = s)
        <5>1. x # d \/ e \notin Ends(x, q)
          BY <4>1, <4>2 DEF Ends, EventsAbout
        <5>2. EventsCalm(x, q)
          BY <1>h, <3>1, <3>4, <5>1, CalmEvents
        <5> QED
          BY <1>c, <1>d, <1>g, <1>w, <3>1, <3>2, <5>2
      <4>3. CASE x = d /\ q = s
        <5>1. runs[r].phase = "working" /\ processes[s] = r /\ Running(s)
          BY <1>5, <1>u, <3>1 DEF EntriesAreComplete, Running
        <5>2. ~Pending(d, s) /\ ~Ended(d, s)
          BY <1>h, <4>3, <5>1 DEF OneRunAtATime
        <5>3. ~Pending(d, s)' /\ ~Spawning(d, s)'
          BY <3>1, <5>2 DEF Pending, Spawning
        <5>4. ~Running(s)'
          <6> SUFFICES ASSUME NEW y \in Runs, runs'[y].session = s,
                              runs'[y].phase \in {"working", "dying", "killed"}
                       PROVE  FALSE
            BY DEF Running
          <6>1. y # r /\ runs[y].session = s /\ runs[y].phase \in {"working", "dying", "killed"}
            BY <1>t, <3>1, PhaseTurns
          <6>2. runs[y].phase = "dying"
            BY <1>u, <5>1, <6>1 DEF EntriesAreComplete
          <6>3. runs[y].dc \in Devcontainers /\ Terminates(runs[y].dc, y)
            BY <6>2, EntriesAreSpawned DEF Base, EntriesNameRuns, DyingAreTerminated
          <6>4. runs[y].dc = d
            BY <1>5, <3>1, <6>1, <6>3, ThereIs, HomesAgree DEF Base
          <6>5. Stopping(d, s)
            BY <6>1, <6>3, <6>4 DEF Base, EntriesNameRuns, TerminationsApart, Stopping, Terminates
          <6> QED
            BY <1>5, <1>h, <4>3, <5>1, <6>5 DEF OneRunAtATime
        <5>5. ~IsResting(s)'
          BY <3>1, <5>2 DEF Ended, IsResting, Exists
        <5>6. NeverAfter(evts'[d], Ends(d, s), Reports(d, s))
          BY <1>h, <1>t, <3>1, <3>4, <4>3, <5>2, EventsGoOn DEF OneRunAtATime, Ended
        <5>7. Stopping(d, s)' => Members(cmds'[d]) \cap Starts(d, s) = {}
          BY <5>3 DEF Pending
        <5>8. \A y \in Runs : runs'[y].session = s => runs'[y].phase # "working"
          BY <5>4 DEF Running
        <5>9. CommandsCalm(d, s)
          BY <1>c, <3>1, <4>3
        <5> QED
          BY <4>3, <5>3, <5>4, <5>5, <5>6, <5>7, <5>8, <5>9 DEF OneRunAtATime, CommandsCalm
      <4> QED
        BY <4>2, <4>3
    <3> QED
      BY <3>1, <3>3, <3>4
  <2> QED
    BY <1>5, <2>3, <2>4, <2>5, <2>6 DEF RunStep
<1>6. CASE UNCHANGED vars
  <2>1. UNCHANGED <<sessions, cmds, evts, busy, runs>>
    BY <1>6 DEF vars, agvars, rmvars
  <2> QED
    BY <1>c, <1>d, <1>e, <1>g, <1>r, <1>w, <2>1
<1> QED
  BY <1>1, <1>2, <1>3, <1>4, <1>5, <1>6, StepKindsOfAgent

\* Only an interrupted stop leaves a claude that nothing refers to.
LEMMA NextOrphans ==
    ASSUME Base, OrphansAreLapses, [Next]_vars
    PROVE  OrphansAreLapses'
<1> SUFFICES ASSUME "stop_interrupted" \notin lapses', NEW q \in Runs PROVE runs'[q].phase # "orphan"
  BY DEF OrphansAreLapses
<1>h. runs[q].phase # "orphan"
  BY LapsesGrow DEF OrphansAreLapses
<1>t. runs \in [Runs -> Run]
  BY TypeParts DEF Base
<1>p. ASSUME NEW r \in Runs, NEW phase, phase # "orphan", Turns(r, phase)
      PROVE  runs'[q].phase # "orphan"
  BY <1>h, <1>p, <1>t, PhaseTurns
<1>1. CASE RouteStep
  <2>1. UNCHANGED runs
    BY <1>1, StartDoes, ResumeDoes DEF Base, RouteStep, Orders, RowsOnly, agvars
  <2> QED
    BY <1>h, <2>1
<1>2. ASSUME NEW d \in Devcontainers, TakeInEvent(d) PROVE runs'[q].phase # "orphan"
  BY <1>2, <1>h, TakeInDoes DEF Base
<1>3. ASSUME NEW d \in Devcontainers, ConsumerStep(d) PROVE runs'[q].phase # "orphan"
  <2>1. ASSUME NEW c, NEW e, Echoes(d, c, e) PROVE runs'[q].phase # "orphan"
    BY <1>h, <2>1 DEF Echoes
  <2>2. ASSUME NEW r \in Runs, Spawn(d, r), NEW s, s = busy[d].command.session
        PROVE  runs'[q].phase # "orphan"
    <3>1. Becomes(r, [dc |-> d, session |-> s, phase |-> "working", wired |-> TRUE])
      BY <2>2, SpawnDoes DEF Base
    <3> QED
      BY <1>h, <3>1 DEF Becomes
  <2>3. ASSUME HandleStop(d), NEW c, c = Head(cmds[d]), NEW s, s = c.session,
               NEW r, r = processes[s]
        PROVE  runs'[q].phase # "orphan"
    <3>1. /\ s \in Sessions /\ r \in Optional(Runs) /\ Takes(d, c)
          /\ TurnsTo(d, [step |-> "stop", command |-> c, run |-> r])
          /\ r # None /\ tasks[s] = r => Turns(r, "dying")
          /\ ~(r # None /\ tasks[s] = r) => runs' = runs
      BY <2>3, HandleStopDoes DEF Base
    <3>2. CASE r # None /\ tasks[s] = r
      BY <1>p, <3>1, <3>2 DEF Optional
    <3>3. CASE ~(r # None /\ tasks[s] = r)
      BY <1>h, <3>1, <3>3
    <3> QED
      BY <3>2, <3>3
  <2>4. ASSUME FinishStop(d), NEW r, r = busy[d].run PROVE runs'[q].phase # "orphan"
    <3>1. /\ r \in Optional(Runs)
          /\ r = None => runs' = runs
          /\ r # None => Leaves(r)
          /\ lapses' = lapses
      BY <2>4, FinishStopDoes DEF Base
    <3>2. CASE r = None
      BY <1>h, <3>1, <3>2
    <3>3. CASE r # None /\ runs[r].phase # "orphan"
      BY <1>p, <3>1, <3>3 DEF Optional, Leaves, Terminated
    <3>4. CASE r # None /\ runs[r].phase = "orphan"
      BY <3>1, <3>4 DEF Optional, OrphansAreLapses
    <3> QED
      BY <3>2, <3>3, <3>4
  <2> QED
    BY <1>3, <2>1, <2>2, <2>3, <2>4 DEF ConsumerStep
<1>4. ASSUME NEW d \in Devcontainers, LinkStep(d) PROVE runs'[q].phase # "orphan"
  <2>1. CASE AgentConnects(d)
    BY <1>h, <2>1, AgentConnectsDoes DEF Base
  <2>2. CASE Drop(d)
    BY <1>h, <2>2, DropDoes DEF Base
  <2>3. CASE ContainerStops(d)
    <3>1. /\ runs[q].dc # d => runs'[q] = runs[q]
          /\ runs[q].dc = d => runs'[q].phase = "gone"
      BY <2>3, ContainerStopsDoes DEF Base
    <3> QED
      BY <1>h, <3>1
  <2> QED
    BY <1>4, <2>1, <2>2, <2>3 DEF LinkStep
<1>5. ASSUME NEW r \in Runs, RunStep(r) PROVE runs'[q].phase # "orphan"
  <2>1. CASE RunExits(r)
    BY <1>p, <2>1, RunExitsDoes DEF Base
  <2>2. CASE RunReturns(r)
    BY <1>p, <2>2, RunReturnsDoes DEF Base
  <2>3. CASE OrphanExits(r)
    BY <1>p, <2>3, OrphanExitsDoes DEF Base
  <2>4. ASSUME NEW type \in Asks, Ask(r, type) PROVE runs'[q].phase # "orphan"
    BY <1>h, <2>4, AskDoes DEF Base
  <2> QED
    BY <1>5, <2>1, <2>2, <2>3, <2>4 DEF RunStep
<1>6. CASE UNCHANGED vars
  BY <1>6, <1>h DEF vars, agvars
<1> QED
  BY <1>1, <1>2, <1>3, <1>4, <1>5, <1>6, StepKindsOfAgent

-----------------------------------------------------------------------------
\* One active session per devcontainer.

\* The agent's own steps leave the database alone.
LEMMA AgentLeavesRows ==
    ASSUME Base, [Next]_vars
    PROVE  \/ RouteStep \/ \E d \in Devcontainers : TakeInEvent(d)
           \/ UNCHANGED rmvars
<1>1. ASSUME NEW d \in Devcontainers, ConsumerStep(d) PROVE UNCHANGED rmvars
  BY <1>1 DEF ConsumerStep, Echoes, Spawn, HandleStop, FinishStop
<1>2. ASSUME NEW d \in Devcontainers, LinkStep(d) PROVE UNCHANGED rmvars
  BY <1>2 DEF LinkStep, AgentConnects, Drop, ContainerStops
<1>3. ASSUME NEW r \in Runs, RunStep(r) PROVE UNCHANGED rmvars
  BY <1>3 DEF RunStep, RunExits, RunReturns, OrphanExits, Ask
<1>4. UNCHANGED vars => UNCHANGED rmvars
  BY DEF vars
<1> QED
  BY <1>1, <1>2, <1>3, <1>4, StepKindsOfAgent

\* The routes leave the events and the runs alone, and bring no session to rest.
LEMMA RouteRows ==
    ASSUME Base, RouteStep, NEW q \in Sessions
    PROVE  UNCHANGED <<evts, busy, runs>> /\ RowCalm(q)
<1>1. ASSUME NEW d \in Devcontainers, NEW s \in Sessions, StartAgentSession(d, s)
      PROVE  UNCHANGED <<evts, busy, runs>> /\ RowCalm(q)
  <2>1. StartRow(d, s) /\ UNCHANGED <<evts, busy, runs>>
    BY <1>1, StartDoes DEF Base
  <2> QED
    BY <2>1, BegunRows DEF RowCalm, Resting
<1>2. ASSUME NEW s \in Sessions, ResumeAgentSession(s)
      PROVE  UNCHANGED <<evts, busy, runs>> /\ RowCalm(q)
  <2>1. ResumeRow(s) /\ UNCHANGED <<evts, busy, runs>>
    BY <1>2, ResumeDoes DEF Base
  <2> QED
    BY <2>1, BegunRows DEF RowCalm, Resting
<1>3. ASSUME NEW d \in Devcontainers, NEW c, Orders(d, c)
      PROVE  UNCHANGED <<evts, busy, runs>> /\ RowCalm(q)
  BY <1>3 DEF Orders, rmvars, RowCalm
<1>4. ASSUME RowsOnly PROVE UNCHANGED <<evts, busy, runs>> /\ RowCalm(q)
  <2>1. UNCHANGED <<evts, busy, runs>>
    BY <1>4 DEF RowsOnly, agvars
  <2> QED
    BY <1>4, <2>1, RowsOnlyRows DEF RowCalm
<1> QED
  BY <1>1, <1>2, <1>3, <1>4 DEF RouteStep

\* A session comes to rest by the event of an end, and by nothing else.
LEMMA RowsComeToRest ==
    ASSUME Base, [Next]_vars, NEW q \in Sessions, ~RowCalm(q)
    PROVE  \E d \in Devcontainers : \E e \in Members(evts[d]) :
              TakeInEvent(d) /\ TakesIn(d, e) /\ e \in Ends(d, q) /\ Mentions(d, q)
<1>1. ASSUME NEW d \in Devcontainers, TakeInEvent(d), NEW e, e = Head(evts[d])
      PROVE  \E z \in Members(evts[d]) : TakesIn(d, z) /\ z \in Ends(d, q) /\ Mentions(d, q)
  <2>0. TakesIn(d, e) /\ EventsTyped
    BY <1>1, TakeInDoes, TypeParts DEF Base
  <2>1. TakesIn(d, e) /\ e \in Members(evts[d]) /\ e \in EventFrom(d) /\ Mentions(d, e.session)
    BY <2>0, TakesInRemoves, ThereIs
  <2>2. /\ q = e.session /\ e.type \in DOMAIN SessionStatusAfter
        /\ SessionStatusAfter[e.type] \in Resting
    BY <1>1, TakeInRows DEF RowCalm
  <2>3. e \in Ends(d, q)
    BY <2>1, <2>2 DEF Ends, EventsAbout, SessionStatusAfter, Resting
  <2> QED
    BY <2>1, <2>2, <2>3
<1>2. ~RouteStep /\ ~UNCHANGED rmvars
  BY RouteRows DEF RowCalm, rmvars
<1> QED
  BY <1>1, <1>2, AgentLeavesRows

\* What the agent has to do with the session of an event it emits.
Announced(d, e) ==
    \/ e.type = "agent_session_started" /\ Members(cmds[d]) \cap Starts(d, e.session) # {}
    \/ e.type = "approval_resolved" /\ (Running(e.session) \/ "late_answer" \in lapses')
    \/ e.type \in {"approval_requested", "agent_asked_question"} /\ Running(e.session)
    \/ e.type = "user_input_sent"
    \/ e.type \in {"session_completed", "session_failed", "session_stopped"}

\* What a step makes of the events of a devcontainer.
LEMMA NewEvents ==
    ASSUME Base, [Next]_vars, NEW x \in Devcontainers
    PROVE  \/ evts'[x] = evts[x]
           \/ evts'[x] = <<>> /\ "dropped" \in lapses'
           \/ TakeInEvent(x) /\ \E e : TakesIn(x, e)
           \/ \E e : Emits(x, e) /\ Announced(x, e)
<1>1. CASE RouteStep
  <2>1. ASSUME NEW s \in Sessions, ResumeAgentSession(s) PROVE UNCHANGED evts
    BY <2>1, ResumeDoes DEF Base
  <2>2. ASSUME NEW d \in Devcontainers, NEW s \in Sessions, StartAgentSession(d, s)
        PROVE  UNCHANGED evts
    BY <2>2, StartDoes DEF Base
  <2> QED
    BY <1>1, <2>1, <2>2 DEF RouteStep, Orders, RowsOnly, agvars
<1>2. ASSUME NEW d \in Devcontainers, TakeInEvent(d)
      PROVE  evts'[x] = evts[x] \/ (TakeInEvent(x) /\ \E e : TakesIn(x, e))
  <2>1. TakesIn(d, Head(evts[d]))
    BY <1>2, TakeInDoes DEF Base
  <2> QED
    BY <1>2, <2>1 DEF TakesIn
<1>e. ASSUME NEW d \in Devcontainers, NEW e, Emits(d, e), Announced(d, e)
      PROVE  evts'[x] = evts[x] \/ \E z : Emits(x, z) /\ Announced(x, z)
  BY <1>e DEF Emits
<1>3. ASSUME NEW d \in Devcontainers, ConsumerStep(d)
      PROVE  evts'[x] = evts[x] \/ \E e : Emits(x, e) /\ Announced(x, e)
  <2>1. ASSUME NEW c, NEW e, Echoes(d, c, e) PROVE Emits(d, e) /\ Announced(d, e)
    <3>1. Emits(d, e) /\ Takes(d, c) /\ e.session = c.session
      BY <2>1 DEF Echoes
    <3>2. c \in Members(cmds[d]) /\ c \in CommandTo(d)
      BY <3>1, TakesRemoves, TypeParts DEF Base
    <3>3. CASE e.type = "agent_session_started"
      <4>1. c.type \in {"start_agent_session", "resume_agent_session"}
        BY <2>1, <3>3 DEF Echoes
      <4> QED
        BY <3>1, <3>2, <3>3, <4>1 DEF Announced, Starts, CommandsAbout
    <3>4. CASE e.type = "approval_resolved"
      <4>1. (\E r \in Runs : runs[r].phase = "working" /\ runs[r].session = c.session)
               \/ "late_answer" \in lapses'
        BY <2>1, <3>4 DEF Echoes
      <4> QED
        BY <3>1, <3>4, <4>1 DEF Announced, Running
    <3>5. e.type \in {"agent_session_started", "approval_resolved", "user_input_sent"}
      BY <2>1 DEF Echoes
    <3> QED
      BY <3>1, <3>3, <3>4, <3>5 DEF Announced
  <2>2. ASSUME NEW r \in Runs, Spawn(d, r) PROVE evts' = evts
    BY <2>2 DEF Spawn
  <2>3. CASE HandleStop(d)
    BY <2>3 DEF HandleStop
  <2>4. ASSUME FinishStop(d), NEW s, s = busy[d].command.session,
               NEW e, e = SessionEvent("session_stopped", d, s)
        PROVE  Emits(d, e) /\ Announced(d, e)
    <3>1. s \in Sessions /\ Emits(d, e)
      BY <2>4, FinishStopDoes DEF Base
    <3>2. e.type = "session_stopped"
      BY <2>4, <3>1, MadeEvents DEF PlainSessionEventTypes
    <3> QED
      BY <3>1, <3>2 DEF Announced
  <2> QED
    BY <1>3, <1>e, <2>1, <2>2, <2>3, <2>4 DEF ConsumerStep
<1>4. ASSUME NEW d \in Devcontainers, LinkStep(d)
      PROVE  evts'[x] = evts[x] \/ (evts'[x] = <<>> /\ "dropped" \in lapses')
  BY <1>4, AgentConnectsDoes, DropDoes, ContainerStopsDoes DEF Base, LinkStep, Empties
<1>5. ASSUME NEW r \in Runs, RunStep(r), NEW d, d = runs[r].dc, NEW s, s = runs[r].session
      PROVE  evts'[x] = evts[x] \/ \E e : Emits(x, e) /\ Announced(x, e)
  <2>1. CASE RunReturns(r) \/ OrphanExits(r)
    BY <2>1 DEF RunReturns, OrphanExits
  <2>2. ASSUME NEW type \in Asks, Ask(r, type), NEW e, e = SessionEvent(type, d, s)
        PROVE  d \in Devcontainers /\ Emits(d, e) /\ Announced(d, e)
    <3>1. /\ Emits(d, e) /\ d \in Devcontainers /\ s \in Sessions /\ runs[r].phase = "working"
          /\ type \in {"approval_requested", "agent_asked_question"}
      BY <1>5, <2>2, AskDoes DEF Base
    <3>2. e.type = type /\ e.session = s
      BY <2>2, <3>1, MadeEvents DEF PlainSessionEventTypes
    <3> QED
      BY <1>5, <3>1, <3>2 DEF Announced, Running
  <2>3. CASE RunExits(r)
    <3>1. /\ d \in Devcontainers /\ s \in Sessions
          /\ evts' = evts \/ \E type \in {"session_completed", "session_failed"} :
                                 Emits(d, SessionEvent(type, d, s))
      BY <1>5, <2>3, RunExitsDoes DEF Base
    <3>2. ASSUME NEW type \in {"session_completed", "session_failed"},
                 NEW e, e = SessionEvent(type, d, s), Emits(d, e)
          PROVE  Announced(d, e)
      <4>1. e.type = type
        BY <3>1, <3>2, MadeEvents DEF PlainSessionEventTypes
      <4> QED
        BY <4>1 DEF Announced
    <3> QED
      BY <1>e, <3>1, <3>2
  <2> QED
    BY <1>5, <1>e, <2>1, <2>2, <2>3 DEF RunStep
<1>6. CASE UNCHANGED vars
  BY <1>6 DEF vars, agvars
<1> QED
  BY <1>1, <1>2, <1>3, <1>4, <1>5, <1>6, StepKindsOfAgent

\* Nothing that shows a session at work is emitted once its end is.
LEMMA NextEndsLast ==
    ASSUME Base, RunsInTurn, ActiveInTurn, [Next]_vars, InOrder',
           NEW x \in Devcontainers, NEW q \in Sessions
    PROVE  EndsAreLast(x, q)'
<1>u. /\ EndsAreLast(x, q) /\ OneRunAtATime(x, q)
      /\ \A d \in Devcontainers : EndsAreLast(d, q)
  BY LapsesGrow DEF InOrder, ActiveInTurn, RunsInTurn, Unconfused
<1>t. EventsTyped
  BY TypeParts DEF Base
<1>1. ASSUME NEW e, Emits(x, e), Announced(x, e), e \in Activates(x, q) PROVE ~Ended(x, q)
  <2>1. e.session = q
    BY <1>1 DEF Activates, EventsAbout
  <2>2. Pending(x, q) \/ Running(q)
    BY <1>1, <2>1 DEF Announced, Activates, EventsAbout, Pending, InOrder
  <2> QED
    BY <1>u, <2>2 DEF OneRunAtATime
<1>2. NeverAfter(evts'[x], Ends(x, q), Activates(x, q))
  <2>1. CASE evts'[x] = evts[x] \/ evts'[x] = <<>> \/ \E e : TakesIn(x, e)
    BY <1>t, <1>u, <2>1, EventsGoOn DEF EndsAreLast
  <2>2. ASSUME NEW e, Emits(x, e), Announced(x, e) PROVE NeverAfter(evts'[x], Ends(x, q), Activates(x, q))
    <3>1. e \notin Activates(x, q) \/ Members(evts[x]) \cap Ends(x, q) = {}
      BY <1>1, <2>2 DEF Ended
    <3> QED
      BY <1>t, <1>u, <2>2, <3>1, EventsGoOn DEF EndsAreLast
  <2> QED
    BY <2>1, <2>2, NewEvents
<1>3. ASSUME IsResting(q)' PROVE Members(evts'[x]) \cap Activates(x, q) = {}
  <2>1. CASE RowCalm(q)
    <3>1. IsResting(q)
      BY <1>3, <2>1, ActiveOrResting DEF RowCalm, Base, Consistent, TypeOK, IsResting, Exists
    <3>2. Members(evts[x]) \cap Activates(x, q) = {} /\ Ended(x, q)
      BY <1>u, <3>1 DEF EndsAreLast, Ended
    <3>3. CASE evts'[x] = evts[x]
      BY <3>2, <3>3
    <3>4. CASE evts'[x] = <<>>
      BY <3>4, EmptyQueue
    <3>5. ASSUME NEW e, TakesIn(x, e) PROVE Members(evts'[x]) \cap Activates(x, q) = {}
      BY <1>t, <3>2, <3>5, TakesInRemoves
    <3>6. ASSUME NEW e, Emits(x, e), Announced(x, e)
          PROVE  Members(evts'[x]) \cap Activates(x, q) = {}
      BY <1>1, <1>t, <3>2, <3>6, EmitsAdds
    <3> QED
      BY <3>3, <3>4, <3>5, <3>6, NewEvents
  <2>2. CASE ~RowCalm(q)
    <3>1. PICK d \in Devcontainers : \E e \in Members(evts[d]) :
              TakesIn(d, e) /\ e \in Ends(d, q) /\ Mentions(d, q)
      BY <2>2, RowsComeToRest
    <3>2. PICK e \in Members(evts[d]) : TakesIn(d, e) /\ e \in Ends(d, q)
      BY <3>1
    <3>3. CASE x = d
      <4>1. evts[d] \in Seq(EventFrom(d)) /\ evts[d] # <<>> /\ evts'[d] = Tail(evts[d])
            /\ e = Head(evts[d])
        BY <1>t, <3>2, TakesInRemoves DEF TakesIn
      <4> QED
        BY <1>u, <3>2, <3>3, <4>1, NeverAfterTail DEF EndsAreLast
    <3>4. CASE x # d
      <4>1. evts'[x] = evts[x]
        BY <3>2, <3>4 DEF TakesIn
      <4> QED
        BY <3>1, <3>4, <4>1, Elsewhere, NotThere DEF Activates
    <3> QED
      BY <3>3, <3>4
  <2> QED
    BY <2>1, <2>2
<1> QED
  BY <1>2, <1>3 DEF EndsAreLast

\* No step makes a second session of a devcontainer active.
LEMMA NextOneActive ==
    ASSUME Base, ActiveInTurn, [Next]_vars, InOrder'
    PROVE  OneActive'
<1>u. OneActive /\ \A d \in Devcontainers, s \in Sessions : EndsAreLast(d, s)
  BY LapsesGrow DEF InOrder, ActiveInTurn
<1>t. sessions \in [Sessions -> Optional(SessionRow)] /\ Base'
  BY NextBase DEF Base, Consistent, TypeOK
<1>a. \A q \in Sessions : /\ IsActive(q) <=> sessions[q] # None /\ sessions[q].status \in Active
                          /\ sessions[q] # None <=> IsActive(q) \/ IsResting(q)
                          /\ IsActive(q)' <=> sessions'[q] # None /\ sessions'[q].status \in Active
  BY <1>t, ActiveOrResting DEF Base, Consistent, TypeOK, IsActive, Exists
<1>1. ASSUME \A q \in Sessions : IsActive(q)' => IsActive(q) /\ sessions'[q].dc = sessions[q].dc
      PROVE  OneActive'
  BY <1>u, <1>1 DEF OneActive
<1>2. ASSUME NEW d \in Devcontainers, NEW s \in Sessions, ~HasActive(d),
             \A q \in Sessions : q # s => sessions'[q] = sessions[q],
             sessions'[s].dc = d
      PROVE  OneActive'
  <2>1. \A q \in Sessions : q # s /\ IsActive(q)' => IsActive(q) /\ sessions'[q].dc = sessions[q].dc
    BY <1>a, <1>2
  <2>2. \A q \in Sessions : q # s /\ IsActive(q)' => sessions'[q].dc # d
    BY <1>2, <2>1 DEF HasActive
  <2> QED
    BY <1>2, <1>u, <2>1, <2>2 DEF OneActive
<1>3. CASE RouteStep
  <2>1. ASSUME NEW d \in Devcontainers, NEW s \in Sessions, StartAgentSession(d, s)
        PROVE  OneActive'
    <3>1. StartRow(d, s)
      BY <2>1, StartDoes DEF Base
    <3>2. ~HasActive(d) /\ sessions' = [sessions EXCEPT ![s] = [dc |-> d, status |-> "starting"]]
      BY <3>1 DEF StartRow
    <3> QED
      BY <1>2, <1>t, <3>2
  <2>2. ASSUME NEW s \in Sessions, ResumeAgentSession(s) PROVE OneActive'
    <3>1. ResumeRow(s) /\ sessions[s] # None /\ sessions[s].dc \in Devcontainers
      BY <2>2, ResumeDoes DEF Base
    <3>2. ~HasActive(sessions[s].dc)
      BY <3>1 DEF ResumeRow
    <3>3. \A q \in Sessions : /\ q # s => sessions'[q] = sessions[q]
                              /\ q = s => sessions'[q].dc = sessions[q].dc
      BY <3>1, BegunRows
    <3> QED
      BY <1>2, <3>1, <3>2, <3>3
  <2>3. ASSUME NEW d \in Devcontainers, NEW c, Orders(d, c) PROVE OneActive'
    BY <1>1, <1>a, <2>3 DEF Orders, rmvars
  <2>4. ASSUME RowsOnly PROVE OneActive'
    BY <1>1, <1>a, <2>4, RowsOnlyRows
  <2> QED
    BY <1>3, <2>1, <2>2, <2>3, <2>4 DEF RouteStep
<1>4. ASSUME NEW d \in Devcontainers, TakeInEvent(d), NEW e, e = Head(evts[d]) PROVE OneActive'
  <2>1. ASSUME NEW q \in Sessions, IsActive(q)'
        PROVE  IsActive(q) /\ sessions'[q].dc = sessions[q].dc
    <3>1. CASE sessions'[q] = sessions[q]
      BY <1>a, <2>1, <3>1
    <3>2. CASE sessions'[q] # sessions[q]
      <4>1. /\ q = e.session /\ sessions[q] # None /\ e.type \in DOMAIN SessionStatusAfter
            /\ sessions'[q].dc = sessions[q].dc /\ sessions'[q].status = SessionStatusAfter[e.type]
        BY <1>4, <3>2, TakeInRows
      <4>2. TakesIn(d, e) /\ EventsTyped
        BY <1>4, TakeInDoes, TypeParts DEF Base
      <4>3. e \in Members(evts[d]) /\ e \in EventFrom(d)
        BY <4>2, TakesInRemoves
      <4>4. e \in Activates(d, q)
        BY <1>a, <2>1, <4>1, <4>3 DEF Activates, EventsAbout, SessionStatusAfter, Active
      <4>5. ~IsResting(q)
        BY <1>u, <4>3, <4>4 DEF EndsAreLast
      <4> QED
        BY <1>a, <4>1, <4>5
    <3> QED
      BY <3>1, <3>2
  <2> QED
    BY <1>1, <2>1
<1>5. CASE UNCHANGED rmvars
  BY <1>1, <1>a, <1>5 DEF rmvars
<1> QED
  BY <1>3, <1>4, <1>5, AgentLeavesRows

-----------------------------------------------------------------------------
\* One claude per container.

\* A session is begun: its row is made or resumed and its start sent.
AgentBegins(d, s) == StartAgentSession(d, s) \/ (ResumeAgentSession(s) /\ sessions[s].dc = d)

\* It was not at work, nor any other of its devcontainer, and is alone in moving.
LEMMA BeginsDoes ==
    ASSUME Base, NEW d \in Devcontainers, NEW s \in Sessions, AgentBegins(d, s)
    PROVE  /\ ~HasActive(d) /\ devcontainers[d] # None
           /\ sessions'[s] # None /\ sessions'[s] # sessions[s]
           /\ \A q \in Sessions : q # s => sessions'[q] = sessions[q]
<1>1. CASE StartAgentSession(d, s)
  <2>1. StartRow(d, s) /\ s \notin minted
    BY <1>1, StartDoes DEF Base
  <2>2. ~HasActive(d) /\ devcontainers[d] # None
    BY <2>1, NoneIsNoId DEF StartRow, DevcontainerStatus
  <2>3. sessions[s] = None
    BY <2>1 DEF Base, Consistent, IdsAreMinted
  <2> QED
    BY <2>1, <2>2, <2>3, BegunRows
<1>2. CASE ResumeAgentSession(s) /\ sessions[s].dc = d
  <2>1. ResumeRow(s) /\ IsResting(s)
    BY <1>2, ResumeDoes DEF Base
  <2>2. ~HasActive(d) /\ devcontainers[d] # None
    BY <1>2, <2>1, NoneIsNoId DEF ResumeRow, DevcontainerStatus
  <2>3. sessions[s].status # "starting"
    BY <2>1 DEF IsResting, Resting
  <2> QED
    BY <2>1, <2>2, <2>3, BegunRows
<1> QED
  BY <1>1, <1>2 DEF AgentBegins

\* What is live was live or is begun.
LEMMA LiveGoesOn ==
    ASSUME Base, [Next]_vars, NEW x \in Devcontainers, NEW q \in Sessions, Live(x, q)'
    PROVE  Live(x, q) \/ AgentBegins(x, q)
<1>t. CommandsTyped /\ WorkTyped /\ runs \in [Runs -> Run]
  BY TypeParts DEF Base
<1>a. ASSUME Members(cmds'[x]) \cap Starts(x, q) \subseteq Members(cmds[x]),
             Spawning(x, q)' => Pending(x, q),
             \A r \in Runs : runs'[r].dc = x /\ runs'[r].session = q
                                 /\ runs'[r].phase \in {"working", "dying", "orphan"} =>
                 \/ runs[r].dc = x /\ runs[r].session = q /\ Alive(r)
                 \/ Pending(x, q)
      PROVE  Live(x, q)
  <2>1. Pending(x, q)' => Pending(x, q)
    BY <1>a DEF Pending, Starts, CommandsAbout, CommandTo
  <2> QED
    BY <1>a, <2>1 DEF Live, Alive
<1>c. ASSUME NEW d \in Devcontainers, NEW c, Takes(d, c)
      PROVE  Members(cmds'[x]) \cap Starts(x, q) \subseteq Members(cmds[x])
  BY <1>c, <1>t, TakesRemoves
<1>w. busy'[x] = busy[x] \/ busy'[x] = None => (Spawning(x, q)' => Pending(x, q))
  BY DEF Spawning, Pending
<1>r. UNCHANGED runs =>
          \A r \in Runs : runs'[r].dc = x /\ runs'[r].session = q
                              /\ runs'[r].phase \in {"working", "dying", "orphan"} =>
              runs[r].dc = x /\ runs[r].session = q /\ Alive(r)
  BY DEF Alive
<1>p. ASSUME NEW r \in Runs, NEW phase, Turns(r, phase), Alive(r) \/ phase \notin {"working", "dying", "orphan"},
             UNCHANGED <<cmds, busy>>
      PROVE  Live(x, q)
  <2>1. \A y \in Runs : runs'[y].dc = x /\ runs'[y].session = q
                            /\ runs'[y].phase \in {"working", "dying", "orphan"} =>
            runs[y].dc = x /\ runs[y].session = q /\ Alive(y)
    BY <1>p, <1>t, PhaseTurns DEF Alive
  <2> QED
    BY <1>a, <1>p, <1>w, <2>1
<1>1. CASE RouteStep
  <2>0. UNCHANGED <<busy, runs>>
    BY <1>1, RouteRows
  <2>1. ASSUME Members(cmds'[x]) \cap Starts(x, q) \subseteq Members(cmds[x])
        PROVE  Live(x, q)
    BY <1>a, <1>r, <1>w, <2>0, <2>1
  <2>2. ASSUME NEW d \in Devcontainers, NEW c, Sends(d, c), ~(x = d /\ c \in Starts(x, q))
        PROVE  Live(x, q)
    BY <1>t, <2>1, <2>2, SendsAdds
  <2>3. ASSUME NEW d \in Devcontainers, NEW s \in Sessions, StartAgentSession(d, s)
        PROVE  Live(x, q) \/ AgentBegins(x, q)
    <3>1. Sends(d, Command("start_agent_session", d, s))
      BY <2>3, StartDoes DEF Base
    <3>2. Command("start_agent_session", d, s).session = s
      BY MadeCommands DEF LifeCommands
    <3> QED
      BY <2>2, <2>3, <3>1, <3>2 DEF Starts, CommandsAbout, AgentBegins
  <2>4. ASSUME NEW s \in Sessions, ResumeAgentSession(s), NEW d, d = sessions[s].dc
        PROVE  Live(x, q) \/ AgentBegins(x, q)
    <3>1. d \in Devcontainers /\ Sends(d, Command("resume_agent_session", d, s))
      BY <2>4, ResumeDoes DEF Base
    <3>2. Command("resume_agent_session", d, s).session = s
      BY <3>1, MadeCommands DEF LifeCommands
    <3> QED
      BY <2>2, <2>4, <3>1, <3>2 DEF Starts, CommandsAbout, AgentBegins
  <2>5. ASSUME NEW d \in Devcontainers, NEW c, Orders(d, c) PROVE Live(x, q)
    BY <2>2, <2>5 DEF Orders, Starts, CommandsAbout
  <2>6. RowsOnly => UNCHANGED cmds
    BY DEF RowsOnly, agvars
  <2> QED
    BY <1>1, <2>1, <2>3, <2>4, <2>5, <2>6 DEF RouteStep
<1>2. ASSUME NEW d \in Devcontainers, TakeInEvent(d) PROVE Live(x, q)
  <2>1. UNCHANGED <<cmds, busy, runs>>
    BY <1>2, TakeInDoes DEF Base
  <2> QED
    BY <1>a, <1>r, <1>w, <2>1
<1>3. ASSUME NEW d \in Devcontainers, ConsumerStep(d) PROVE Live(x, q)
  <2>1. ASSUME NEW c, NEW e, Echoes(d, c, e) PROVE Live(x, q)
    <3>1. Takes(d, c) /\ UNCHANGED runs /\ c \in CommandTo(d) /\ c \in Members(cmds[d])
      BY <1>t, <2>1, TakesRemoves DEF Echoes
    <3>2. Spawning(x, q)' => Pending(x, q)
      <4>1. CASE busy'[x] = busy[x]
        BY <1>w, <4>1
      <4>2. CASE busy'[x] # busy[x]
        <5>1. /\ x = d /\ c.type \in {"start_agent_session", "resume_agent_session"}
              /\ busy'[d].command = c
          BY <2>1, <4>2 DEF Echoes, TurnsTo
        <5> QED
          BY <3>1, <5>1 DEF Spawning, Pending, Starts, CommandsAbout
      <4> QED
        BY <4>1, <4>2
    <3> QED
      BY <1>a, <1>c, <1>r, <3>1, <3>2
  <2>2. ASSUME NEW r \in Runs, Spawn(d, r), NEW s, s = busy[d].command.session PROVE Live(x, q)
    <3>1. /\ s \in Sessions /\ Spawning(d, s) /\ TurnsTo(d, None) /\ UNCHANGED cmds
          /\ Becomes(r, [dc |-> d, session |-> s, phase |-> "working", wired |-> TRUE])
      BY <2>2, SpawnDoes DEF Base
    <3>2. busy'[x] = busy[x] \/ busy'[x] = None
      BY <3>1 DEF TurnsTo
    <3>3. \A y \in Runs : runs'[y].dc = x /\ runs'[y].session = q
                              /\ runs'[y].phase \in {"working", "dying", "orphan"} =>
              \/ runs[y].dc = x /\ runs[y].session = q /\ Alive(y)
              \/ Pending(x, q)
      BY <3>1 DEF Becomes, Alive, Pending
    <3> QED
      BY <1>a, <1>w, <3>1, <3>2, <3>3
  <2>3. ASSUME HandleStop(d), NEW c, c = Head(cmds[d]), NEW s, s = c.session,
               NEW r, r = processes[s]
        PROVE  Live(x, q)
    <3>1. /\ s \in Sessions /\ r \in Optional(Runs) /\ Takes(d, c)
          /\ TurnsTo(d, [step |-> "stop", command |-> c, run |-> r])
          /\ r # None /\ tasks[s] = r => Turns(r, "dying")
          /\ ~(r # None /\ tasks[s] = r) => runs' = runs
      BY <2>3, HandleStopDoes DEF Base
    <3>2. Spawning(x, q)' => Pending(x, q)
      BY <1>w, <3>1 DEF TurnsTo, Spawning
    <3>3. CASE runs' = runs
      BY <1>a, <1>c, <1>r, <3>1, <3>2, <3>3
    <3>4. CASE Turns(r, "dying") /\ r # None
      <4>1. r \in Runs /\ runs[r].phase = "working"
        BY <2>3, <3>1, <3>4 DEF Optional, Base, EntriesNameRuns, ProcessesNameRuns
      <4>2. \A y \in Runs : runs'[y].dc = x /\ runs'[y].session = q
                                /\ runs'[y].phase \in {"working", "dying", "orphan"} =>
                runs[y].dc = x /\ runs[y].session = q /\ Alive(y)
        BY <1>t, <3>4, <4>1, PhaseTurns DEF Alive
      <4> QED
        BY <1>a, <1>c, <3>1, <3>2, <4>2
    <3> QED
      BY <3>1, <3>3, <3>4
  <2>4. ASSUME FinishStop(d), NEW r, r = busy[d].run PROVE Live(x, q)
    <3>1. /\ r \in Optional(Runs) /\ TurnsTo(d, None) /\ UNCHANGED cmds
          /\ r = None => runs' = runs
          /\ r # None => Leaves(r)
      BY <2>4, FinishStopDoes DEF Base
    <3>2. Spawning(x, q)' => Pending(x, q)
      BY <1>w, <3>1 DEF TurnsTo
    <3>3. CASE r = None
      BY <1>a, <1>r, <3>1, <3>2, <3>3
    <3>4. CASE r # None
      <4>1. r \in Runs
        BY <3>1, <3>4 DEF Optional
      <4>2. \A y \in Runs : runs'[y].dc = x /\ runs'[y].session = q
                                /\ runs'[y].phase \in {"working", "dying", "orphan"} =>
                runs[y].dc = x /\ runs[y].session = q /\ Alive(y)
        BY <1>t, <3>1, <3>4, <4>1, PhaseTurns DEF Alive, Leaves, Terminated
      <4> QED
        BY <1>a, <3>1, <3>2, <4>2
    <3> QED
      BY <3>3, <3>4
  <2> QED
    BY <1>3, <2>1, <2>2, <2>3, <2>4 DEF ConsumerStep
<1>4. ASSUME NEW d \in Devcontainers, LinkStep(d) PROVE Live(x, q)
  <2>1. CASE AgentConnects(d)
    BY <1>a, <1>r, <1>w, <2>1, AgentConnectsDoes DEF Base
  <2>2. ASSUME Empties(d),
               \A y \in Runs : /\ runs'[y].phase = "gone" \/ (runs'[y].dc = runs[y].dc /\ runs'[y].session = runs[y].session)
                               /\ runs'[y].phase \in {"working", "dying", "orphan"} => Alive(y)
        PROVE  Live(x, q)
    <3>1. Members(cmds'[x]) \cap Starts(x, q) \subseteq Members(cmds[x])
      BY <2>2, EmptyQueue DEF Empties
    <3>2. Spawning(x, q)' => Pending(x, q)
      BY <1>w, <2>2 DEF Empties
    <3> QED
      BY <1>a, <2>2, <3>1, <3>2
  <2>3. CASE Drop(d)
    <3>1. /\ Empties(d)
          /\ \A r \in Runs :
                /\ runs'[r].dc = runs[r].dc /\ runs'[r].session = runs[r].session
                /\ ~Terminates(d, r) => runs'[r].phase = runs[r].phase
                /\ Terminates(d, r) => runs'[r].phase \in Interrupted(runs[r].phase)
      BY <2>3, DropDoes DEF Base
    <3> QED
      BY <2>2, <3>1 DEF Interrupted, Alive
  <2>4. CASE ContainerStops(d)
    <3>1. /\ Empties(d)
          /\ \A r \in Runs : /\ runs[r].dc # d => runs'[r] = runs[r]
                             /\ runs[r].dc = d => runs'[r].phase = "gone"
      BY <2>4, ContainerStopsDoes DEF Base
    <3> QED
      BY <2>2, <3>1 DEF Alive
  <2> QED
    BY <1>4, <2>1, <2>3, <2>4 DEF LinkStep
<1>5. ASSUME NEW r \in Runs, RunStep(r) PROVE Live(x, q)
  <2>1. CASE RunExits(r)
    BY <1>p, <2>1, RunExitsDoes DEF Base
  <2>2. CASE RunReturns(r)
    BY <1>p, <2>2, RunReturnsDoes DEF Base
  <2>3. CASE OrphanExits(r)
    BY <1>p, <2>3, OrphanExitsDoes DEF Base
  <2>4. ASSUME NEW type \in Asks, Ask(r, type) PROVE Live(x, q)
    BY <1>a, <1>r, <1>w, <2>4, AskDoes DEF Base
  <2> QED
    BY <1>5, <2>1, <2>2, <2>3, <2>4 DEF RunStep
<1>6. CASE UNCHANGED vars
  <2>1. UNCHANGED <<cmds, busy, runs>>
    BY <1>6 DEF vars, agvars
  <2> QED
    BY <1>a, <1>r, <1>w, <2>1
<1> QED
  BY <1>1, <1>2, <1>3, <1>4, <1>5, <1>6, StepKindsOfAgent

\* Where no session is active, none is live, as long as none is out of sight.
LEMMA NothingLive ==
    ASSUME Base, RunsInTurn, OrphansAreLapses, OneLive, InSight,
           NEW d \in Devcontainers, devcontainers[d] # None, ~HasActive(d), NEW s \in Sessions
    PROVE  ~Live(d, s)
<1> SUFFICES ASSUME Live(d, s) PROVE FALSE
  OBVIOUS
<1>1. sessions[s] # None
  BY DEF OneLive
<1>2. Mentions(d, s)
  <2>1. CASE Pending(d, s)
    BY <2>1, NotThere
  <2>2. CASE ~Pending(d, s)
    BY <2>2, ThereIs DEF Live
  <2> QED
    BY <2>1, <2>2
<1>3. sessions[s].dc = d
  BY <1>1, <1>2, RowMentions, HomesAgree DEF Base
<1>4. IsResting(s)
  BY <1>1, <1>3, ActiveOrResting DEF HasActive, Base
<1>5. OneRunAtATime(d, s)
  BY DEF InSight, Unconfused, RunsInTurn
<1>6. ~Pending(d, s) /\ ~Running(s)
  BY <1>4, <1>5 DEF OneRunAtATime, Ended
<1>7. \A r \in Runs : runs[r].phase # "orphan"
  BY DEF InSight, OrphansAreLapses
<1> QED
  BY <1>6, <1>7 DEF Live, Alive, Running

\* A row goes when its devcontainer's does, or when it is deleted at rest or with a
\* lapse.
LEMMA RowsGo ==
    ASSUME Base, [Next]_vars, NEW d \in Devcontainers, d \in minted, NEW s \in Sessions,
           sessions[s] # None, sessions[s].dc = d, sessions'[s] = None
    PROVE  devcontainers'[d] = None \/ IsResting(s) \/ "active_deleted" \in lapses'
<1>a. IsActive(s) \/ IsResting(s)
  BY ActiveOrResting DEF Base
<1>1. CASE RouteStep
  <2>1. ASSUME NEW x \in Devcontainers, AgentBegins(x, s) PROVE FALSE
    BY <2>1, BeginsDoes
  <2>2. ASSUME NEW x \in Devcontainers, NEW q \in Sessions, AgentBegins(x, q) PROVE FALSE
    BY <2>1, <2>2, BeginsDoes
  <2>3. ASSUME NEW q \in Sessions, ResumeAgentSession(q) PROVE FALSE
    <3>1. sessions[q].dc \in Devcontainers
      BY <2>3, ResumeDoes DEF Base
    <3> QED
      BY <2>2, <2>3, <3>1 DEF AgentBegins
  <2>4. ASSUME NEW x \in Devcontainers, NEW c, Orders(x, c) PROVE FALSE
    BY <2>4 DEF Orders, rmvars
  <2>5. ASSUME RowsOnly PROVE devcontainers'[d] = None \/ IsResting(s) \/ "active_deleted" \in lapses'
    <3>1. ASSUME NEW x \in Devcontainers, CreateDevcontainer(x) PROVE FALSE
      BY <3>1 DEF CreateDevcontainer
    <3>2. ASSUME NEW x \in Devcontainers, DeleteDevcontainer(x) PROVE devcontainers'[d] = None
      <4>1. devcontainers' = [devcontainers EXCEPT ![x] = None] /\ DOMAIN devcontainers = Devcontainers
        BY <3>2 DEF DeleteDevcontainer, Base, Consistent, TypeOK
      <4>2. sessions'[s] = IF s \in {y \in Sessions : sessions[y] # None /\ sessions[y].dc = x}
                           THEN None ELSE sessions[s]
        BY <3>2 DEF DeleteDevcontainer, CascadeSessions
      <4> QED
        BY <4>1, <4>2
    <3>3. ASSUME NEW t \in Threads, NEW y \in Sessions, DeleteSessionCheck(t, y) PROVE FALSE
      BY <3>3 DEF DeleteSessionCheck, tables
    <3>4. ASSUME NEW e \in RuntimeEvents, Intake(e), e.session = None PROVE FALSE
      BY <3>4, NoneIsNoId DEF Intake, PersistEvent, ProjectSession, rmvars
    <3>5. ASSUME NEW t \in Threads, DeleteSessionCommit(t),
                 lapses' = IF IsActive(requests[t].id) THEN lapses \cup {"active_deleted"} ELSE lapses
          PROVE  IsResting(s) \/ "active_deleted" \in lapses'
      <4>1. requests[t].id = s
        BY <3>5 DEF DeleteSessionCommit, CascadeSessions
      <4> QED
        BY <1>a, <3>5, <4>1
    <3> QED
      BY <2>5, <3>1, <3>2, <3>3, <3>4, <3>5 DEF RowsOnly
  <2> QED
    BY <1>1, <2>2, <2>3, <2>4, <2>5 DEF RouteStep, AgentBegins
<1>2. ASSUME NEW x \in Devcontainers, TakeInEvent(x) PROVE FALSE
  BY <1>2, TakeInRows
<1>3. CASE UNCHANGED rmvars
  BY <1>3 DEF rmvars
<1> QED
  BY <1>1, <1>2, <1>3, AgentLeavesRows

\* A devcontainer that was handed out is not made again.
LEMMA NoneComesBack ==
    ASSUME [ReadModelNext]_rmvars, TypeOK, NEW d \in Devcontainers, d \in minted, devcontainers'[d] # None
    PROVE  devcontainers[d] # None
<1>1. ASSUME NEW e, Intake(e) PROVE devcontainers[d] # None
  BY <1>1, NoneIsNoId DEF Intake, PersistEvent, Accepted, ProjectDevcontainer, rmvars, Exists
<1>2. ASSUME NEW s \in Sessions, ResumeRow(s) \/ \E x \in Devcontainers : StartRow(x, s)
      PROVE  devcontainers[d] # None
  BY <1>2 DEF ResumeRow, StartRow
<1>3. CASE RestWrite
  <2>1. ASSUME NEW x \in Devcontainers, CreateDevcontainer(x) PROVE devcontainers[d] # None
    BY <2>1 DEF CreateDevcontainer, TypeOK
  <2>2. ASSUME NEW x \in Devcontainers, NEW status, PatchDevcontainer(x, status)
        PROVE  devcontainers[d] # None
    BY <2>2 DEF PatchDevcontainer, TypeOK
  <2>3. ASSUME NEW x \in Devcontainers, DeleteDevcontainer(x) PROVE devcontainers[d] # None
    BY <2>3 DEF DeleteDevcontainer, TypeOK
  <2> QED
    BY <1>3, <2>1, <2>2, <2>3
       DEF RestWrite, DeleteSessionCheck, DeleteSessionCommit, MarkReadSelect, MarkReadUpdate,
           ResolveInboxEvent, tables
<1> QED
  BY <1>1, <1>2, <1>3 DEF ReadModelNext, rmvars

\* One session of a devcontainer is live, if any, and it is in sight.
LEMMA NextOneLive ==
    ASSUME Base, RunsInTurn, OrphansAreLapses, OneLive, [Next]_vars
    PROVE  OneLive'
<1> SUFFICES ASSUME InSight', NEW d \in Devcontainers, NEW s \in Sessions, Live(d, s)'
             PROVE  /\ devcontainers'[d] # None => sessions'[s] # None
                    /\ \A t \in Sessions : Live(d, t)' => t = s
  BY DEF OneLive
<1>s. InSight
  BY LapsesGrow DEF InSight
<1>1. CASE \E q \in Sessions : AgentBegins(d, q)
  <2>1. PICK q \in Sessions : AgentBegins(d, q)
    BY <1>1
  <2>2. \A t \in Sessions : ~Live(d, t)
    BY <1>s, <2>1, BeginsDoes, NothingLive
  <2>3. \A t \in Sessions : Live(d, t)' => AgentBegins(d, t)
    BY <2>2, LiveGoesOn
  <2>4. \A t \in Sessions : AgentBegins(d, t) => t = q
    BY <2>1, BeginsDoes
  <2>5. sessions'[q] # None
    BY <2>1, BeginsDoes
  <2> QED
    BY <2>3, <2>4, <2>5
<1>2. CASE ~\E q \in Sessions : AgentBegins(d, q)
  <2>1. \A t \in Sessions : Live(d, t)' => Live(d, t)
    BY <1>2, LiveGoesOn
  <2>2. ASSUME devcontainers'[d] # None, sessions'[s] = None PROVE FALSE
    <3>1. Mentions(d, s)
      <4>1. CASE Pending(d, s)
        BY <4>1, NotThere
      <4>2. CASE ~Pending(d, s)
        BY <2>1, <4>2, ThereIs DEF Live
      <4> QED
        BY <4>1, <4>2
    <3>2. d \in minted
      BY <3>1 DEF Base, OneHome
    <3>3. devcontainers[d] # None
      BY <2>2, <3>2, StepOfReadModel, NoneComesBack DEF Base, Consistent
    <3>4. sessions[s] # None
      BY <1>s, <2>1, <3>3 DEF OneLive
    <3>5. sessions[s].dc = d
      BY <3>1, <3>4, RowMentions, HomesAgree DEF Base
    <3>6. IsResting(s)
      BY <2>2, <3>2, <3>4, <3>5, RowsGo DEF InSight
    <3>7. ~Pending(d, s) /\ ~Running(s)
      BY <1>s, <3>6 DEF InSight, Unconfused, RunsInTurn, OneRunAtATime, Ended
    <3>8. \A r \in Runs : runs[r].phase # "orphan"
      BY <1>s DEF InSight, OrphansAreLapses
    <3> QED
      BY <2>1, <3>7, <3>8 DEF Live, Alive, Running
  <2> QED
    BY <1>s, <2>1, <2>2 DEF OneLive
<1> QED
  BY <1>1, <1>2

-----------------------------------------------------------------------------
\* Something behind every active session.

\* While no connection is lost, every run can be heard.
LEMMA NextRunsAreWired ==
    ASSUME Base, RunsAreWired, [Next]_vars
    PROVE  RunsAreWired'
<1> SUFFICES ASSUME "dropped" \notin lapses', NEW q \in Runs,
                    runs'[q].phase \in {"working", "dying", "killed"}
             PROVE  runs'[q].wired
  BY DEF RunsAreWired
<1>h. runs[q].phase \in {"working", "dying", "killed"} => runs[q].wired
  BY LapsesGrow DEF RunsAreWired
<1>t. runs \in [Runs -> Run]
  BY TypeParts DEF Base
<1>p. ASSUME NEW r \in Runs, NEW phase, Turns(r, phase),
             phase \in {"working", "dying", "killed"} =>
                 runs[r].phase \in {"working", "dying", "killed"}
      PROVE  runs'[q].wired
  BY <1>h, <1>p, <1>t, PhaseTurns
<1>r. runs' = runs => runs'[q].wired
  BY <1>h
<1>1. CASE RouteStep
  <2>1. ASSUME NEW s \in Sessions, ResumeAgentSession(s) PROVE UNCHANGED runs
    BY <2>1, ResumeDoes DEF Base
  <2>2. ASSUME NEW d \in Devcontainers, NEW s \in Sessions, StartAgentSession(d, s)
        PROVE  UNCHANGED runs
    BY <2>2, StartDoes DEF Base
  <2> QED
    BY <1>1, <1>r, <2>1, <2>2 DEF RouteStep, Orders, RowsOnly, agvars
<1>2. ASSUME NEW d \in Devcontainers, TakeInEvent(d) PROVE runs'[q].wired
  BY <1>2, <1>r, TakeInDoes DEF Base
<1>3. ASSUME NEW d \in Devcontainers, ConsumerStep(d) PROVE runs'[q].wired
  <2>1. ASSUME NEW c, NEW e, Echoes(d, c, e) PROVE runs'[q].wired
    BY <1>r, <2>1 DEF Echoes
  <2>2. ASSUME NEW r \in Runs, Spawn(d, r), NEW s, s = busy[d].command.session
        PROVE  runs'[q].wired
    <3>1. Becomes(r, [dc |-> d, session |-> s, phase |-> "working", wired |-> TRUE])
      BY <2>2, SpawnDoes DEF Base
    <3> QED
      BY <1>h, <3>1 DEF Becomes
  <2>3. ASSUME HandleStop(d), NEW c, c = Head(cmds[d]), NEW s, s = c.session,
               NEW r, r = processes[s]
        PROVE  runs'[q].wired
    <3>1. /\ s \in Sessions /\ r \in Optional(Runs) /\ Takes(d, c)
          /\ TurnsTo(d, [step |-> "stop", command |-> c, run |-> r])
          /\ r # None /\ tasks[s] = r => Turns(r, "dying")
          /\ ~(r # None /\ tasks[s] = r) => runs' = runs
      BY <2>3, HandleStopDoes DEF Base
    <3>2. r # None => r \in Runs /\ runs[r].phase = "working"
      BY <2>3, <3>1 DEF Optional, Base, EntriesNameRuns, ProcessesNameRuns
    <3>3. CASE r # None /\ tasks[s] = r
      BY <1>p, <3>1, <3>2, <3>3
    <3>4. CASE ~(r # None /\ tasks[s] = r)
      BY <1>r, <3>1, <3>4
    <3> QED
      BY <3>3, <3>4
  <2>4. ASSUME FinishStop(d), NEW r, r = busy[d].run PROVE runs'[q].wired
    <3>1. /\ r \in Optional(Runs)
          /\ r = None => runs' = runs
          /\ r # None => Leaves(r)
      BY <2>4, FinishStopDoes DEF Base
    <3>2. CASE r = None
      BY <1>r, <3>1, <3>2
    <3>3. CASE r # None
      BY <1>p, <3>1, <3>3 DEF Optional, Leaves, Terminated
    <3> QED
      BY <3>2, <3>3
  <2> QED
    BY <1>3, <2>1, <2>2, <2>3, <2>4 DEF ConsumerStep
<1>4. ASSUME NEW d \in Devcontainers, LinkStep(d) PROVE runs'[q].wired
  <2>1. ~Drop(d) /\ ~ContainerStops(d)
    BY DropDoes, ContainerStopsDoes DEF Base
  <2> QED
    BY <1>4, <1>r, <2>1, AgentConnectsDoes DEF Base, LinkStep
<1>5. ASSUME NEW r \in Runs, RunStep(r) PROVE runs'[q].wired
  <2>1. CASE RunExits(r)
    BY <1>p, <2>1, RunExitsDoes DEF Base
  <2>2. CASE RunReturns(r)
    BY <1>p, <2>2, RunReturnsDoes DEF Base
  <2>3. CASE OrphanExits(r)
    BY <1>p, <2>3, OrphanExitsDoes DEF Base
  <2>4. ASSUME NEW type \in Asks, Ask(r, type) PROVE runs'[q].wired
    BY <1>r, <2>4, AskDoes DEF Base
  <2> QED
    BY <1>5, <2>1, <2>2, <2>3, <2>4 DEF RunStep
<1>6. CASE UNCHANGED vars
  BY <1>6, <1>r DEF vars, agvars
<1> QED
  BY <1>1, <1>2, <1>3, <1>4, <1>5, <1>6, StepKindsOfAgent

\* When the last of a session's runs ends, its end is reported, as long as nothing is
\* lost.
LEMMA EndsAreReported ==
    ASSUME Base, RunsAreWired, [Next]_vars, lapses' \cap {"dropped", "unreported"} = {},
           NEW x \in Devcontainers, NEW q \in Sessions, Mentions(x, q),
           Pending(x, q) \/ Running(q), ~Pending(x, q)', ~Running(q)'
    PROVE  \E e \in Ends(x, q) : Emits(x, e)
<1>t. CommandsTyped /\ runs \in [Runs -> Run] /\ lapses \subseteq lapses'
  BY TypeParts, LapsesGrow DEF Base
<1>c. ASSUME Members(cmds[x]) \cap Starts(x, q) \subseteq Members(cmds'[x]),
             busy'[x] = busy[x] \/ ~Spawning(x, q), UNCHANGED runs
      PROVE  FALSE
  BY <1>c DEF Pending, Running, Spawning, Starts, CommandsAbout, CommandTo
<1>p. ASSUME NEW r \in Runs, NEW phase, Turns(r, phase), UNCHANGED <<cmds, busy>>
      PROVE  /\ runs[r].session = q /\ runs[r].phase \in {"working", "dying", "killed"}
             /\ phase \notin {"working", "dying", "killed"}
  <2>1. ~Pending(x, q)
    BY <1>p DEF Pending, Spawning, Starts, CommandsAbout, CommandTo
  <2>2. PICK y \in Runs : runs[y].session = q /\ runs[y].phase \in {"working", "dying", "killed"}
    BY <2>1 DEF Running
  <2>3. runs'[y].session = q /\ runs'[y].phase \notin {"working", "dying", "killed"}
    BY <1>p, <1>t, <2>2, PhaseTurns DEF Running
  <2> QED
    BY <1>p, <1>t, <2>2, <2>3, PhaseTurns
<1>1. CASE RouteStep
  <2>0. UNCHANGED <<busy, runs>>
    BY <1>1, RouteRows
  <2>1. ASSUME NEW d \in Devcontainers, NEW c, Sends(d, c) PROVE FALSE
    BY <1>c, <1>t, <2>0, <2>1, SendsAdds
  <2>2. ASSUME NEW s \in Sessions, ResumeAgentSession(s) PROVE FALSE
    BY <2>1, <2>2, ResumeDoes DEF Base
  <2>3. ASSUME NEW d \in Devcontainers, NEW s \in Sessions, StartAgentSession(d, s) PROVE FALSE
    BY <2>1, <2>3, StartDoes DEF Base
  <2>4. RowsOnly => FALSE
    BY <1>c, <2>0 DEF RowsOnly, agvars
  <2> QED
    BY <1>1, <2>1, <2>2, <2>3, <2>4 DEF RouteStep, Orders
<1>2. ASSUME NEW d \in Devcontainers, TakeInEvent(d) PROVE FALSE
  <2>1. UNCHANGED <<cmds, busy, runs>>
    BY <1>2, TakeInDoes DEF Base
  <2> QED
    BY <1>c, <2>1
<1>3. ASSUME NEW d \in Devcontainers, ConsumerStep(d) PROVE \E e \in Ends(x, q) : Emits(x, e)
  <2>1. ASSUME NEW c, NEW e, Echoes(d, c, e) PROVE FALSE
    <3>1. /\ Takes(d, c) /\ busy[d] = None /\ UNCHANGED runs
          /\ c.type \in {"start_agent_session", "resume_agent_session"} =>
                TurnsTo(d, [step |-> "spawn", command |-> c, run |-> None])
                /\ [step |-> "spawn", command |-> c, run |-> None] \in Work(d)
          /\ busy' = busy \/ TurnsTo(d, [step |-> "spawn", command |-> c, run |-> None])
      BY <2>1 DEF Echoes
    <3>2. ASSUME x = d, c \in Starts(x, q) PROVE FALSE
      <4>1. busy'[x] # None /\ busy'[x].step = "spawn" /\ busy'[x].command.session = q
        BY <3>1, <3>2, NoneIsNoWork DEF TurnsTo, Starts, CommandsAbout
      <4> QED
        BY <4>1 DEF Pending, Spawning
    <3>3. Members(cmds[x]) \cap Starts(x, q) \subseteq Members(cmds'[x])
      BY <1>t, <3>1, <3>2, TakesRemoves
    <3>4. busy'[x] = busy[x] \/ ~Spawning(x, q)
      BY <3>1 DEF TurnsTo, Spawning
    <3> QED
      BY <1>c, <3>1, <3>3, <3>4
  <2>2. ASSUME NEW r \in Runs, Spawn(d, r), NEW s, s = busy[d].command.session PROVE FALSE
    <3>1. /\ s \in Sessions /\ Spawning(d, s) /\ TurnsTo(d, None) /\ UNCHANGED cmds
          /\ Becomes(r, [dc |-> d, session |-> s, phase |-> "working", wired |-> TRUE])
          /\ runs[r].phase = "unused"
      BY <2>2, SpawnDoes DEF Base
    <3>2. s # q
      BY <3>1 DEF Becomes, Running
    <3>3. Running(q) => Running(q)'
      BY <3>1 DEF Becomes, Running
    <3>4. Pending(x, q) => Pending(x, q)'
      BY <3>1, <3>2 DEF Pending, Spawning, TurnsTo
    <3> QED
      BY <3>3, <3>4
  <2>3. ASSUME HandleStop(d), NEW c, c = Head(cmds[d]), NEW s, s = c.session,
               NEW r, r = processes[s]
        PROVE  FALSE
    <3>1. /\ s \in Sessions /\ r \in Optional(Runs) /\ Takes(d, c)
          /\ c.type = "stop_agent_session" /\ busy[d] = None
          /\ TurnsTo(d, [step |-> "stop", command |-> c, run |-> r])
          /\ r # None /\ tasks[s] = r => Turns(r, "dying")
          /\ ~(r # None /\ tasks[s] = r) => runs' = runs
      BY <2>3, HandleStopDoes DEF Base
    <3>2. Members(cmds[x]) \cap Starts(x, q) \subseteq Members(cmds'[x])
      BY <1>t, <3>1, TakesRemoves DEF Starts, CommandsAbout
    <3>3. busy'[x] = busy[x] \/ ~Spawning(x, q)
      BY <3>1 DEF TurnsTo, Spawning
    <3>4. Pending(x, q) => Pending(x, q)'
      BY <3>2, <3>3 DEF Pending, Spawning, Starts, CommandsAbout, CommandTo
    <3>5. Running(q) => Running(q)'
      <4>1. CASE r # None /\ tasks[s] = r
        <5>1. \A y \in Runs : runs'[y].session = runs[y].session
                              /\ (runs'[y].phase = runs[y].phase \/ runs'[y].phase = "dying")
          BY <1>t, <3>1, <4>1, PhaseTurns DEF Optional
        <5> QED
          BY <5>1 DEF Running
      <4>2. CASE ~(r # None /\ tasks[s] = r)
        BY <3>1, <4>2 DEF Running
      <4> QED
        BY <4>1, <4>2
    <3> QED
      BY <3>4, <3>5
  <2>4. ASSUME FinishStop(d), NEW s, s = busy[d].command.session, NEW r, r = busy[d].run,
               NEW e, e = SessionEvent("session_stopped", d, s)
        PROVE  \E z \in Ends(x, q) : Emits(x, z)
    <3>1. /\ s \in Sessions /\ Stopping(d, s) /\ r \in Optional(Runs)
          /\ Emits(d, e) /\ TurnsTo(d, None) /\ UNCHANGED cmds
          /\ r = None => runs' = runs
          /\ r # None => Terminates(d, r) /\ Leaves(r)
      BY <2>4, FinishStopDoes DEF Base
    <3>2. e \in EventFrom(d) /\ e.session = s /\ e.type = "session_stopped"
      BY <2>4, <3>1, MadeEvents DEF PlainSessionEventTypes
    <3>3. busy'[x] = busy[x] \/ ~Spawning(x, q)
      BY <3>1 DEF TurnsTo, Spawning, Stopping
    <3>4. Pending(x, q) => Pending(x, q)'
      BY <3>1, <3>3 DEF Pending, Spawning, Starts, CommandsAbout, CommandTo
    <3>5. PICK y \in Runs : runs[y].session = q /\ runs[y].phase \in {"working", "dying", "killed"}
      BY <3>4 DEF Running
    <3>6. runs'[y].session # q \/ runs'[y].phase \notin {"working", "dying", "killed"}
      BY DEF Running
    <3>7. y = r /\ r # None
      <4>1. CASE r = None
        BY <3>1, <3>5, <3>6, <4>1
      <4>2. CASE r # None
        BY <1>t, <3>1, <3>5, <3>6, <4>2, PhaseTurns DEF Optional, Leaves
      <4> QED
        BY <4>1, <4>2
    <3>8. runs[r].dc = d /\ q = s
      BY <2>4, <3>1, <3>5, <3>7 DEF Base, EntriesNameRuns, TerminationsApart
    <3>9. x = d
      BY <3>7, <3>8, ThereIs, HomesAgree, <3>5 DEF Base
    <3> QED
      BY <3>1, <3>2, <3>8, <3>9 DEF Ends, EventsAbout
  <2> QED
    BY <1>3, <2>1, <2>2, <2>3, <2>4 DEF ConsumerStep
<1>4. ASSUME NEW d \in Devcontainers, LinkStep(d) PROVE FALSE
  <2>1. ~Drop(d) /\ ~ContainerStops(d)
    BY DropDoes, ContainerStopsDoes DEF Base
  <2>2. UNCHANGED <<cmds, busy, runs>>
    BY <1>4, <2>1, AgentConnectsDoes DEF Base, LinkStep
  <2> QED
    BY <1>c, <2>2
<1>5. ASSUME NEW r \in Runs, RunStep(r), NEW d, d = runs[r].dc, NEW s, s = runs[r].session
      PROVE  \E e \in Ends(x, q) : Emits(x, e)
  <2>1. RunReturns(r) => FALSE
    BY <1>p, RunReturnsDoes DEF Base
  <2>2. OrphanExits(r) => FALSE
    BY <1>p, OrphanExitsDoes DEF Base
  <2>3. ASSUME NEW type \in Asks, Ask(r, type) PROVE FALSE
    BY <1>c, <2>3, AskDoes DEF Base
  <2>4. CASE RunExits(r)
    <3>1. /\ d \in Devcontainers /\ s \in Sessions
          /\ runs[r].phase \in {"working", "killed"}
          /\ Turns(r, "reported")
          /\ \/ ~runs[r].wired
             \/ "unreported" \in lapses'
             \/ \E type \in {"session_completed", "session_failed"} :
                    Emits(d, SessionEvent(type, d, s))
          /\ UNCHANGED <<cmds, busy>>
      BY <1>5, <2>4, RunExitsDoes DEF Base
    <3>2. q = s
      BY <1>5, <1>p, <3>1
    <3>3. x = d
      BY <1>5, <3>1, <3>2, ThereIs, HomesAgree DEF Base
    <3>4. runs[r].wired
      BY <1>t, <3>1 DEF RunsAreWired
    <3>5. PICK type \in {"session_completed", "session_failed"} : Emits(d, SessionEvent(type, d, s))
      BY <3>1, <3>4
    <3>6. SessionEvent(type, d, s) \in Ends(d, s)
      BY <3>1, MadeEvents DEF PlainSessionEventTypes, Ends, EventsAbout
    <3> QED
      BY <3>2, <3>3, <3>5, <3>6
  <2> QED
    BY <1>5, <2>1, <2>2, <2>3, <2>4 DEF RunStep
<1>6. UNCHANGED vars => FALSE
  BY <1>c DEF vars, agvars
<1> QED
  BY <1>1, <1>2, <1>3, <1>4, <1>5, <1>6, StepKindsOfAgent

\* A session that is begun is pending.
LEMMA BeginsPends ==
    ASSUME Base, NEW d \in Devcontainers, NEW s \in Sessions, AgentBegins(d, s)
    PROVE  Pending(d, s)'
<1>t. CommandsTyped
  BY TypeParts DEF Base
<1>1. ASSUME NEW type \in {"start_agent_session", "resume_agent_session"},
             Sends(d, Command(type, d, s))
      PROVE  Pending(d, s)'
  <2>1. Command(type, d, s) \in Starts(d, s)
    BY MadeCommands DEF LifeCommands, Starts, CommandsAbout
  <2>2. Command(type, d, s) \in Members(cmds'[d])
    BY <1>1, <1>t, SendsAdds
  <2> QED
    BY <2>1, <2>2 DEF Pending, Starts, CommandsAbout, CommandTo
<1>2. CASE StartAgentSession(d, s)
  BY <1>1, <1>2, StartDoes DEF Base
<1>3. CASE ResumeAgentSession(s) /\ sessions[s].dc = d
  BY <1>1, <1>3, ResumeDoes DEF Base
<1> QED
  BY <1>2, <1>3 DEF AgentBegins

\* How a row comes to be what it is: it was, it was begun, or an event about it was
\* taken in.
LEMMA RowsMove ==
    ASSUME Base, [Next]_vars, NEW q \in Sessions, sessions'[q] # None
    PROVE  \/ sessions'[q] = sessions[q]
           \/ \E d \in Devcontainers : AgentBegins(d, q) /\ sessions'[q].dc = d
           \/ /\ sessions[q] # None /\ sessions'[q].dc = sessions[q].dc
              /\ TakeInEvent(sessions[q].dc)
<1>1. CASE RouteStep
  <2>1. ASSUME NEW d \in Devcontainers, NEW s \in Sessions, StartAgentSession(d, s)
        PROVE  sessions'[q] = sessions[q] \/ (AgentBegins(d, q) /\ sessions'[q].dc = d)
    <3>1. StartRow(d, s) /\ sessions \in [Sessions -> Optional(SessionRow)]
      BY <2>1, StartDoes DEF Base, Consistent, TypeOK
    <3>2. sessions'[q] = IF q = s THEN [dc |-> d, status |-> "starting"] ELSE sessions[q]
      BY <3>1 DEF StartRow
    <3> QED
      BY <2>1, <3>2 DEF AgentBegins
  <2>2. ASSUME NEW s \in Sessions, ResumeAgentSession(s), NEW d, d = sessions[s].dc
        PROVE  sessions'[q] = sessions[q] \/ (d \in Devcontainers /\ AgentBegins(d, q) /\ sessions'[q].dc = d)
    <3>1. ResumeRow(s) /\ d \in Devcontainers
      BY <2>2, ResumeDoes DEF Base
    <3> QED
      BY <2>2, <3>1, BegunRows DEF AgentBegins
  <2>3. ASSUME NEW d \in Devcontainers, NEW c, Orders(d, c) PROVE sessions'[q] = sessions[q]
    BY <2>3 DEF Orders, rmvars
  <2>4. RowsOnly => sessions'[q] = sessions[q]
    BY RowsOnlyRows
  <2> QED
    BY <1>1, <2>1, <2>2, <2>3, <2>4 DEF RouteStep
<1>2. ASSUME NEW d \in Devcontainers, TakeInEvent(d), NEW e, e = Head(evts[d]),
             sessions'[q] # sessions[q]
      PROVE  /\ sessions[q] # None /\ sessions'[q].dc = sessions[q].dc
             /\ TakeInEvent(sessions[q].dc)
  <2>1. q = e.session /\ sessions[q] # None /\ sessions'[q].dc = sessions[q].dc
    BY <1>2, TakeInRows
  <2>2. TakesIn(d, e) /\ EventsTyped
    BY <1>2, TakeInDoes, TypeParts DEF Base
  <2>3. e \in Members(evts[d])
    BY <2>2, TakesInRemoves
  <2>4. Mentions(d, q)
    BY <2>1, <2>3, ThereIs
  <2>5. sessions[q].dc = d
    BY <2>1, <2>4, RowMentions, HomesAgree DEF Base
  <2> QED
    BY <1>2, <2>1, <2>5
<1>3. UNCHANGED rmvars => sessions'[q] = sessions[q]
  BY DEF rmvars
<1> QED
  BY <1>1, <1>2, <1>3, AgentLeavesRows

\* While nothing is lost, a session with no run left, and none to come, is at rest or
\* its end is the last that is said of it.
LEMMA NextIdleIsQuiet ==
    ASSUME Base, RunsAreWired, IdleIsQuiet, [Next]_vars
    PROVE  IdleIsQuiet'
<1> SUFFICES ASSUME lapses' \cap {"dropped", "unreported", "late_answer"} = {},
                    NEW x \in Devcontainers, NEW q \in Sessions,
                    sessions'[q] # None, sessions'[q].dc = x, ~Pending(x, q)', ~Running(q)'
             PROVE  Quiet(x, q)'
  BY DEF IdleIsQuiet
<1>t. EventsTyped /\ evts[x] \in Seq(EventFrom(x)) /\ Ends(x, q) \subseteq EventFrom(x)
  BY TypeParts DEF Base, EventsTyped, Ends, EventsAbout
<1>u. Activates(x, q) \cup Ends(x, q) =
          EventsAbout(x, q, DOMAIN SessionStatusAfter)
  BY DEF Activates, Ends, EventsAbout, SessionStatusAfter
<1>1. ~AgentBegins(x, q)
  BY BeginsPends
<1>2. /\ sessions[q] # None /\ sessions[q].dc = x
      /\ sessions'[q] # sessions[q] => TakeInEvent(x)
  BY <1>1, RowsMove
<1>3. ASSUME EndsIn(evts'[x], Activates(x, q) \cup Ends(x, q), Ends(x, q)) PROVE Quiet(x, q)'
  BY <1>3 DEF Quiet, Activates, Ends, EventsAbout, EventFrom
<1>4. ASSUME Members(evts'[x]) \cap (Activates(x, q) \cup Ends(x, q)) = {},
             sessions'[q].status \in Resting
      PROVE  Quiet(x, q)'
  BY <1>4 DEF Quiet, Activates, Ends, EventsAbout, EventFrom
<1>5. CASE Pending(x, q) \/ Running(q)
  <2>1. Mentions(x, q)
    BY <1>2 DEF Mentions
  <2>2. PICK e \in Ends(x, q) : Emits(x, e)
    BY <1>5, <2>1, EndsAreReported
  <2>3. evts'[x] = Append(evts[x], e) /\ e \in EventFrom(x)
    BY <1>t, <2>2 DEF Emits
  <2>4. EndsIn(Append(evts[x], e), Activates(x, q) \cup Ends(x, q), Ends(x, q))
    BY <1>t, <2>2, <2>3, EndsInAppend
  <2> QED
    BY <1>3, <2>3, <2>4
<1>6. CASE ~Pending(x, q) /\ ~Running(q)
  <2>1. Quiet(x, q)
    BY <1>2, <1>6, LapsesGrow DEF IdleIsQuiet
  <2>2. ASSUME TakeInEvent(x), NEW e, TakesIn(x, e) PROVE Quiet(x, q)'
    <3>1. /\ evts[x] # <<>> /\ e = Head(evts[x]) /\ evts'[x] = Tail(evts[x])
          /\ e \in EventFrom(x) /\ Members(evts[x]) = Members(evts'[x]) \cup {e}
      BY <1>t, <2>2, TakesInRemoves DEF TakesIn
    <3>2. CASE EndsIn(evts[x], Activates(x, q) \cup Ends(x, q), Ends(x, q))
      <4>1. \/ EndsIn(evts'[x], Activates(x, q) \cup Ends(x, q), Ends(x, q))
            \/ e \in Ends(x, q) /\ Members(evts'[x]) \cap (Activates(x, q) \cup Ends(x, q)) = {}
        BY <1>t, <3>1, <3>2, EndsInTail
      <4>2. ASSUME e \in Ends(x, q) PROVE sessions'[q].status \in Resting
        <5>1. q = e.session /\ e.type \in {"session_completed", "session_failed", "session_stopped"}
          BY <4>2 DEF Ends, EventsAbout
        <5>2. e.type \in DOMAIN SessionStatusAfter /\ SessionStatusAfter[e.type] \in Resting
          BY <5>1 DEF SessionStatusAfter, Resting
        <5> QED
          BY <1>2, <2>2, <3>1, <5>1, <5>2, TakeInRows
      <4> QED
        BY <1>3, <1>4, <4>1, <4>2
    <3>3. CASE /\ Members(evts[x]) \cap (Activates(x, q) \cup Ends(x, q)) = {}
               /\ sessions[q].status \in Resting
      <4>1. e \notin EventsAbout(x, q, DOMAIN SessionStatusAfter)
        BY <1>u, <3>1, <3>3
      <4>2. q # e.session \/ e.type \notin DOMAIN SessionStatusAfter
        BY <3>1, <4>1 DEF EventsAbout
      <4>3. sessions'[q] = sessions[q]
        BY <2>2, <3>1, <4>2, TakeInRows
      <4> QED
        BY <1>4, <3>1, <3>3, <4>3
    <3> QED
      BY <2>1, <3>2, <3>3 DEF Quiet
  <2>3. CASE ~TakeInEvent(x)
    <3>1. sessions'[q] = sessions[q]
      BY <1>2, <2>3
    <3>2. CASE evts'[x] = evts[x]
      BY <1>3, <1>4, <2>1, <3>1, <3>2 DEF Quiet
    <3>3. ASSUME NEW e, Emits(x, e), Announced(x, e) PROVE Quiet(x, q)'
      <4>1. /\ e \in EventFrom(x) /\ evts'[x] = Append(evts[x], e)
            /\ Members(evts'[x]) = Members(evts[x]) \cup {e}
        BY <1>t, <3>3, EmitsAdds DEF Emits
      <4>2. CASE e \in Ends(x, q)
        BY <1>3, <1>t, <4>1, <4>2, EndsInAppend
      <4>3. CASE e \notin Ends(x, q)
        <5>1. ASSUME e \in Activates(x, q) PROVE FALSE
          <6>1. e.session = q
            BY <5>1 DEF Activates, EventsAbout
          <6> QED
            BY <1>6, <3>3, <5>1, <6>1 DEF Announced, Activates, EventsAbout, Pending
        <5> QED
          BY <1>3, <1>4, <1>t, <2>1, <3>1, <4>1, <4>3, <5>1, EndsInAppend DEF Quiet
      <4> QED
        BY <4>2, <4>3
    <3> QED
      BY <2>3, <3>2, <3>3, NewEvents
  <2> QED
    BY <2>2, <2>3, NewEvents, TakeInDoes DEF Base
<1> QED
  BY <1>5, <1>6

\* So sessions go on being active one at a time.
LEMMA NextActiveInTurn ==
    ASSUME Base, RunsInTurn, ActiveInTurn, [Next]_vars
    PROVE  ActiveInTurn'
<1>1. SUFFICES ASSUME InOrder'
               PROVE  OneActive' /\ \A d \in Devcontainers, s \in Sessions : EndsAreLast(d, s)'
  BY DEF ActiveInTurn
<1> QED
  BY <1>1, NextEndsLast, NextOneActive

-----------------------------------------------------------------------------
\* Approvals are decided once.

\* An approval keeps its status, or it is new, or it is decided by a resolution that
\* is taken in.
LEMMA ApprovalsMove ==
    ASSUME Base, [Next]_vars, NEW a \in Approvals, approvals'[a] # None
    PROVE  \/ approvals[a] # None /\ approvals'[a].status = approvals[a].status
           \/ approvals[a] = None /\ approvals'[a].status = "pending"
           \/ /\ approvals[a] # None
              /\ \E d \in Devcontainers : \E e \in Members(evts[d]) :
                    TakeInEvent(d) /\ TakesIn(d, e) /\ e \in Resolved(d, a)
<1>1. CASE RouteStep
  <2>1. UNCHANGED approvals => approvals[a] # None /\ approvals'[a].status = approvals[a].status
    OBVIOUS
  <2>2. ASSUME NEW gone, CascadeSessions(gone)
        PROVE  approvals[a] # None /\ approvals'[a].status = approvals[a].status
    BY <2>2, CascadeRows DEF Base, Consistent
  <2>3. ASSUME NEW e \in RuntimeEvents, Intake(e), e.session = None
        PROVE  approvals[a] # None /\ approvals'[a].status = approvals[a].status
    <3>1. WellFormed(e) /\ (UNCHANGED rmvars \/ \E b, n : Projected(e, b, n))
      BY <2>3, IntakeProjects DEF Base, Consistent
    <3>2. e.type \in DevcontainerEventTypes
      BY <2>3, <3>1, NoneIsNoId DEF WellFormed
    <3>3. e.type \notin {"approval_requested", "approval_resolved"}
      BY <3>2 DEF DevcontainerEventTypes
    <3>4. ASSUME NEW b, NEW n, Projected(e, b, n) PROVE approvals'[a] = approvals[a]
      <4>1. b = None /\ a # None /\ ProjectApproval(e, b)
        BY <3>3, <3>4, NoneIsNoId DEF Projected
      <4> QED
        BY <3>3, <4>1 DEF ProjectApproval
    <3>5. UNCHANGED rmvars => approvals'[a] = approvals[a]
      BY DEF rmvars
    <3> QED
      BY <3>1, <3>4, <3>5
  <2>4. ASSUME NEW s \in Sessions, ResumeAgentSession(s) PROVE UNCHANGED approvals
    BY <2>4 DEF ResumeAgentSession, ResumeRow
  <2>5. ASSUME NEW d \in Devcontainers, NEW s \in Sessions, StartAgentSession(d, s)
        PROVE  UNCHANGED approvals
    BY <2>5 DEF StartAgentSession, StartRow
  <2>6. ASSUME NEW d \in Devcontainers, NEW c, Orders(d, c) PROVE UNCHANGED approvals
    BY <2>6 DEF Orders, rmvars
  <2>7. ASSUME RowsOnly PROVE approvals[a] # None /\ approvals'[a].status = approvals[a].status
    BY <2>1, <2>2, <2>3, <2>7 DEF RowsOnly, CreateDevcontainer, DeleteDevcontainer, DeleteSessionCheck,
                    DeleteSessionCommit, tables
  <2> QED
    BY <1>1, <2>1, <2>4, <2>5, <2>6, <2>7 DEF RouteStep
<1>2. ASSUME NEW d \in Devcontainers, TakeInEvent(d)
      PROVE  \/ approvals[a] # None /\ approvals'[a].status = approvals[a].status
             \/ approvals[a] = None /\ approvals'[a].status = "pending"
             \/ /\ approvals[a] # None
                /\ \E e \in Members(evts[d]) : TakesIn(d, e) /\ e \in Resolved(d, a)
  <2>1. PICK e : e = Head(evts[d])
    OBVIOUS
  <2>2. TakesIn(d, e) /\ Intake(e) /\ EventsTyped
    BY <1>2, <2>1, TakeInDoes, TypeParts DEF Base
  <2>3. e \in Members(evts[d]) /\ e \in EventFrom(d)
    BY <2>2, TakesInRemoves
  <2>4. CASE UNCHANGED rmvars
    BY <2>4 DEF rmvars
  <2>5. CASE Accepted(e)
    <3>1. e \in RuntimeEvents
      BY <2>3, <2>5, AcceptedIsExpected
    <3>2. WellFormed(e) /\ (UNCHANGED rmvars \/ (Reducible(e) /\ \E b, n : Projected(e, b, n)))
      BY <2>2, <3>1, IntakeProjects DEF Base, Consistent
    <3>3. ASSUME NEW b, NEW n, Projected(e, b, n), Reducible(e)
          PROVE  \/ approvals[a] # None /\ approvals'[a].status = approvals[a].status
                 \/ approvals[a] = None /\ approvals'[a].status = "pending"
                 \/ approvals[a] # None /\ a = e.approval /\ e.type = "approval_resolved"
      <4>1. CASE a = b
        <5>1. approvals[a] = None
          BY <4>1, NoneIsNoId, <3>3 DEF Projected
        <5> QED
          BY <3>2, <3>3, <4>1, <5>1, ProjectedApprovals DEF Base, Consistent
      <4>2. CASE a # b
        BY <3>2, <3>3, <4>2, ProjectedApprovals DEF Base, Consistent
      <4> QED
        BY <4>1, <4>2
    <3> QED
      BY <2>2, <2>3, <2>4, <3>2, <3>3 DEF Resolved
  <2> QED
    BY <2>2, <2>4, <2>5 DEF Intake, PersistEvent
<1>3. CASE UNCHANGED rmvars
  BY <1>3 DEF rmvars
<1> QED
  BY <1>1, <1>2, <1>3, AgentLeavesRows

\* What a step does with the answers about an approval that are under way: none
\* joins, one is taken in, one is sent, or one is echoed.
LEMMA AnswersMove ==
    ASSUME Base, [Next]_vars, NEW x \in Devcontainers, NEW a \in Approvals
    PROVE  \/ /\ cmds'[x] = cmds[x] \/ cmds'[x] = <<>> \/ \E c : Takes(x, c)
              /\ \/ evts'[x] = evts[x] \/ evts'[x] = <<>>
                 \/ \E e : Emits(x, e) /\ e \notin Resolved(x, a)
           \/ cmds'[x] = cmds[x] /\ \E e : TakesIn(x, e)
           \/ \E c : /\ Sends(x, c) /\ evts'[x] = evts[x]
                     /\ c \in Resolves(x, a) =>
                          /\ approvals[a] # None /\ approvals[a].status = "pending"
                          /\ AnswerUnderWay(x, a) => "double_answer" \in lapses'
           \/ \E c, e : Takes(x, c) /\ Emits(x, e) /\ c \in Resolves(x, a)
<1> DEFINE Goal == \/ /\ cmds'[x] = cmds[x] \/ cmds'[x] = <<>> \/ \E c : Takes(x, c)
                      /\ \/ evts'[x] = evts[x] \/ evts'[x] = <<>>
                         \/ \E e : Emits(x, e) /\ e \notin Resolved(x, a)
                   \/ cmds'[x] = cmds[x] /\ \E e : TakesIn(x, e)
                   \/ \E c : /\ Sends(x, c) /\ evts'[x] = evts[x]
                             /\ c \in Resolves(x, a) =>
                                  /\ approvals[a] # None /\ approvals[a].status = "pending"
                                  /\ AnswerUnderWay(x, a) => "double_answer" \in lapses'
                   \/ \E c, e : Takes(x, c) /\ Emits(x, e) /\ c \in Resolves(x, a)
<1> SUFFICES Goal
  OBVIOUS
<1>a. ASSUME cmds'[x] = cmds[x] \/ cmds'[x] = <<>> \/ \E c : Takes(x, c),
             \/ evts'[x] = evts[x] \/ evts'[x] = <<>>
             \/ \E e : Emits(x, e) /\ e \notin Resolved(x, a)
      PROVE  Goal
  BY <1>a
<1>b. ASSUME NEW c, Sends(x, c), evts'[x] = evts[x],
             c \in Resolves(x, a) => /\ approvals[a] # None /\ approvals[a].status = "pending"
                                     /\ AnswerUnderWay(x, a) => "double_answer" \in lapses'
      PROVE  Goal
  BY <1>b
<1>c. ASSUME NEW c, NEW e, Takes(x, c), Emits(x, e), c \in Resolves(x, a) PROVE Goal
  BY <1>c
<1>d. ASSUME cmds'[x] = cmds[x], NEW e, TakesIn(x, e) PROVE Goal
  BY <1>d
<1> HIDE DEF Goal
<1>e. ASSUME NEW type \in PlainSessionEventTypes, NEW d \in Devcontainers, NEW s \in Sessions
      PROVE  SessionEvent(type, d, s) \notin Resolved(x, a)
  BY <1>e, MadeEvents DEF Resolved, PlainSessionEventTypes
<1>s. ASSUME NEW d \in Devcontainers, NEW c, Sends(d, c), UNCHANGED evts,
             c \in Resolves(d, a) => /\ approvals[a] # None /\ approvals[a].status = "pending"
                                     /\ AnswerUnderWay(d, a) => "double_answer" \in lapses'
      PROVE  Goal
  <2>1. CASE d = x
    BY <1>b, <1>s, <2>1
  <2>2. CASE d # x
    BY <1>a, <1>s, <2>2 DEF Sends
  <2> QED
    BY <2>1, <2>2
<1>m. ASSUME NEW d \in Devcontainers, NEW e, Emits(d, e), e \notin Resolved(x, a),
             cmds'[x] = cmds[x] \/ \E c : Takes(x, c)
      PROVE  Goal
  <2>1. CASE d = x
    BY <1>a, <1>m, <2>1
  <2>2. CASE d # x
    BY <1>a, <1>m, <2>2 DEF Emits
  <2> QED
    BY <2>1, <2>2
<1>k. ASSUME NEW d \in Devcontainers, NEW c, Takes(d, c) PROVE cmds'[x] = cmds[x] \/ Takes(x, c)
  BY <1>k DEF Takes
<1>1. CASE RouteStep
  <2>1. ASSUME NEW d \in Devcontainers, NEW s \in Sessions, NEW type \in LifeCommands,
               Sends(d, Command(type, d, s)), UNCHANGED evts
        PROVE  Goal
    <3>1. Command(type, d, s) \notin Resolves(d, a)
      BY <2>1, MadeCommands DEF LifeCommands, Resolves
    <3> QED
      BY <1>s, <2>1, <3>1
  <2>2. ASSUME NEW d \in Devcontainers, NEW s \in Sessions, StartAgentSession(d, s) PROVE Goal
    BY <2>1, <2>2, StartDoes DEF Base, LifeCommands
  <2>3. ASSUME NEW s \in Sessions, ResumeAgentSession(s) PROVE Goal
    <3>1. PICK d : d = sessions[s].dc
      OBVIOUS
    <3> QED
      BY <2>1, <2>3, <3>1, ResumeDoes DEF Base, LifeCommands
  <2>4. ASSUME NEW d \in Devcontainers, NEW c, Orders(d, c) PROVE Goal
    <3>1. Sends(d, c) /\ UNCHANGED evts
      BY <2>4 DEF Orders
    <3>2. c \in Resolves(d, a) => /\ approvals[a] # None /\ approvals[a].status = "pending"
                                  /\ AnswerUnderWay(d, a) => "double_answer" \in lapses'
      BY <2>4 DEF Orders, Resolves
    <3> QED
      BY <1>s, <3>1, <3>2
  <2>5. ASSUME RowsOnly PROVE Goal
    <3>1. UNCHANGED <<cmds, evts>>
      BY <2>5 DEF RowsOnly, agvars
    <3> QED
      BY <1>a, <3>1
  <2> QED
    BY <1>1, <2>2, <2>3, <2>4, <2>5 DEF RouteStep
<1>2. ASSUME NEW d \in Devcontainers, TakeInEvent(d) PROVE Goal
  <2>1. PICK e : TakesIn(d, e) /\ UNCHANGED cmds
    BY <1>2, TakeInDoes DEF Base
  <2>2. CASE d = x
    BY <1>d, <2>1, <2>2
  <2>3. CASE d # x
    BY <1>a, <2>1, <2>3 DEF TakesIn
  <2> QED
    BY <2>2, <2>3
<1>3. ASSUME NEW d \in Devcontainers, ConsumerStep(d) PROVE Goal
  <2>1. ASSUME NEW c, NEW e, Echoes(d, c, e) PROVE Goal
    <3>1. Takes(d, c) /\ Emits(d, e) /\ c \in CommandTo(d)
      BY <2>1 DEF Echoes
    <3>2. CASE e \notin Resolved(x, a)
      BY <1>k, <1>m, <3>1, <3>2
    <3>3. CASE e \in Resolved(x, a) /\ d = x
      <4>1. e.type = "approval_resolved" /\ e.approval = a
        BY <3>3 DEF Resolved
      <4>2. c.type = "resolve_approval" /\ c.approval = a
        BY <2>1, <4>1 DEF Echoes
      <4>3. c \in Resolves(x, a)
        BY <3>1, <3>3, <4>2 DEF Resolves
      <4> QED
        BY <1>c, <3>1, <3>3, <4>3
    <3>4. CASE d # x
      BY <1>a, <1>k, <3>1, <3>4 DEF Emits
    <3> QED
      BY <3>2, <3>3, <3>4
  <2>2. ASSUME NEW r \in Runs, Spawn(d, r) PROVE Goal
    BY <1>a, <2>2 DEF Spawn
  <2>3. CASE HandleStop(d)
    <3>1. UNCHANGED evts /\ \E c : Takes(d, c)
      BY <2>3, HandleStopDoes DEF Base
    <3> QED
      BY <1>a, <1>k, <3>1
  <2>4. CASE FinishStop(d)
    <3>1. UNCHANGED cmds /\ \E s \in Sessions : Emits(d, SessionEvent("session_stopped", d, s))
      BY <2>4, FinishStopDoes DEF Base
    <3> QED
      BY <1>e, <1>m, <3>1 DEF PlainSessionEventTypes
  <2> QED
    BY <1>3, <2>1, <2>2, <2>3, <2>4 DEF ConsumerStep
<1>4. ASSUME NEW d \in Devcontainers, LinkStep(d) PROVE Goal
  <2>1. CASE AgentConnects(d)
    BY <1>a, <2>1, AgentConnectsDoes DEF Base
  <2>2. CASE Empties(d)
    BY <1>a, <2>2 DEF Empties
  <2> QED
    BY <1>4, <2>1, <2>2, DropDoes, ContainerStopsDoes DEF LinkStep, Base
<1>5. ASSUME NEW r \in Runs, RunStep(r) PROVE Goal
  <2>1. CASE RunExits(r)
    <3>1. PICK d \in Devcontainers, s \in Sessions :
            /\ UNCHANGED cmds
            /\ evts' = evts \/ \E type \in {"session_completed", "session_failed"} :
                                  Emits(d, SessionEvent(type, d, s))
      BY <2>1, RunExitsDoes DEF Base
    <3>2. {"session_completed", "session_failed"} \subseteq PlainSessionEventTypes
      BY DEF PlainSessionEventTypes
    <3> QED
      BY <1>a, <1>e, <1>m, <3>1, <3>2
  <2>2. CASE RunReturns(r)
    BY <1>a, <2>2 DEF RunReturns
  <2>3. CASE OrphanExits(r)
    BY <1>a, <2>3 DEF OrphanExits
  <2>4. ASSUME NEW type \in Asks, Ask(r, type) PROVE Goal
    BY <1>e, <1>m, <2>4, AskDoes DEF Base, PlainSessionEventTypes
  <2> QED
    BY <1>5, <2>1, <2>2, <2>3, <2>4 DEF RunStep
<1>6. CASE UNCHANGED vars
  <2>1. UNCHANGED <<cmds, evts>>
    BY <1>6 DEF vars, agvars
  <2> QED
    BY <1>a, <2>1
<1> QED
  BY <1>1, <1>2, <1>3, <1>4, <1>5, <1>6, StepKindsOfAgent

\* While no approval was answered twice, one answer at a time is under way, and none
\* once the approval is decided.
LEMMA NextOneResolution ==
    ASSUME Base, ResolutionsInTurn, [Next]_vars, "double_answer" \notin lapses',
           NEW x \in Devcontainers, NEW a \in Approvals
    PROVE  OneResolution(x, a)'
<1>u. /\ OneResolution(x, a)
      /\ \A d \in Devcontainers : OneResolution(d, a)
  BY LapsesGrow DEF ResolutionsInTurn
<1>t. CommandsTyped /\ EventsTyped /\ cmds[x] \in Seq(CommandTo(x)) /\ evts[x] \in Seq(EventFrom(x))
  BY TypeParts DEF Base, CommandsTyped, EventsTyped
<1>o. /\ NeverAfter(cmds[x], Resolves(x, a), Resolves(x, a))
      /\ NeverAfter(evts[x], Resolved(x, a), Resolved(x, a))
      /\ \/ Members(cmds[x]) \cap Resolves(x, a) = {}
         \/ Members(evts[x]) \cap Resolved(x, a) = {}
  BY <1>u DEF OneResolution
<1>n. ~AnswerUnderWay(x, a) => /\ Members(cmds[x]) \cap Resolves(x, a) = {}
                               /\ Members(evts[x]) \cap Resolved(x, a) = {}
  BY DEF AnswerUnderWay, InFlight, Members, Resolves, Resolved
<1> DEFINE InTurn == /\ NeverAfter(cmds'[x], Resolves(x, a), Resolves(x, a))
                     /\ NeverAfter(evts'[x], Resolved(x, a), Resolved(x, a))
                     /\ \/ Members(cmds'[x]) \cap Resolves(x, a) = {}
                        \/ Members(evts'[x]) \cap Resolved(x, a) = {}
           NoneUnderWay == /\ Members(cmds[x]) \cap Resolves(x, a) = {}
                    /\ Members(evts[x]) \cap Resolved(x, a) = {}
           NoneLeft == /\ Members(cmds'[x]) \cap Resolves(x, a) = {}
                    /\ Members(evts'[x]) \cap Resolved(x, a) = {}
<1>1. ASSUME cmds'[x] = cmds[x] \/ cmds'[x] = <<>> \/ \E c : Takes(x, c),
             \/ evts'[x] = evts[x] \/ evts'[x] = <<>>
             \/ \E e : Emits(x, e) /\ e \notin Resolved(x, a)
      PROVE  InTurn /\ (NoneUnderWay => NoneLeft)
  <2>1. /\ NeverAfter(cmds'[x], Resolves(x, a), Resolves(x, a))
        /\ NeverAfter(evts'[x], Resolved(x, a), Resolved(x, a))
    BY <1>1, <1>o, <1>t, CommandsGoOn, EventsGoOn
  <2>2. Members(cmds'[x]) \subseteq Members(cmds[x])
    BY <1>1, <1>t, TakesRemoves, EmptyQueue
  <2>3. Members(evts'[x]) \cap Resolved(x, a) \subseteq Members(evts[x])
    BY <1>1, <1>t, EmitsAdds, EmptyQueue
  <2> QED
    BY <1>o, <2>1, <2>2, <2>3
<1>2. ASSUME cmds'[x] = cmds[x], NEW e, TakesIn(x, e) PROVE InTurn /\ (NoneUnderWay => NoneLeft)
  <2>1. NeverAfter(evts'[x], Resolved(x, a), Resolved(x, a))
    BY <1>2, <1>o, <1>t, EventsGoOn
  <2>2. Members(evts'[x]) \subseteq Members(evts[x])
    BY <1>2, <1>t, TakesInRemoves
  <2> QED
    BY <1>2, <1>o, <2>1, <2>2
<1>3. ASSUME NEW c, Sends(x, c), evts'[x] = evts[x],
             c \in Resolves(x, a) => /\ approvals[a] # None /\ approvals[a].status = "pending"
                                     /\ AnswerUnderWay(x, a) => "double_answer" \in lapses'
      PROVE  InTurn /\ (NoneUnderWay /\ c \notin Resolves(x, a) => NoneLeft)
  <2>1. c \notin Resolves(x, a) \/ NoneUnderWay
    BY <1>3, <1>n
  <2>2. NeverAfter(cmds'[x], Resolves(x, a), Resolves(x, a))
    BY <1>3, <1>o, <1>t, <2>1, CommandsGoOn
  <2>3. Members(cmds'[x]) = Members(cmds[x]) \cup {c}
    BY <1>3, <1>t, SendsAdds
  <2> QED
    BY <1>3, <1>o, <2>1, <2>2, <2>3
<1>4. ASSUME NEW c, NEW e, Takes(x, c), Emits(x, e), c \in Resolves(x, a) PROVE InTurn /\ ~NoneUnderWay
  <2>1. c \in Members(cmds[x]) /\ cmds[x] # <<>> /\ c = Head(cmds[x]) /\ cmds'[x] = Tail(cmds[x])
    BY <1>4, <1>t, TakesRemoves DEF Takes
  <2>2. Members(evts[x]) \cap Resolved(x, a) = {}
    BY <1>4, <1>o, <2>1
  <2>3. Members(cmds'[x]) \cap Resolves(x, a) = {}
    BY <1>4, <1>o, <1>t, <2>1, NeverAfterTail
  <2>4. NeverAfter(cmds'[x], Resolves(x, a), Resolves(x, a))
    BY <1>4, <1>o, <1>t, CommandsGoOn
  <2>5. NeverAfter(evts'[x], Resolved(x, a), Resolved(x, a))
    BY <1>4, <1>o, <1>t, <2>2, EventsGoOn
  <2> QED
    BY <1>4, <2>1, <2>3, <2>4, <2>5
<1>5. InTurn
  BY <1>1, <1>2, <1>3, <1>4, AnswersMove
<1>6. ASSUME approvals'[a] # None, approvals'[a].status \in Decided PROVE NoneLeft
  <2>0. "pending" \notin Decided
    BY DEF Decided
  <2>1. CASE approvals[a] # None /\ approvals'[a].status = approvals[a].status
    <3>1. NoneUnderWay /\ approvals[a].status # "pending"
      BY <1>6, <1>u, <2>0, <2>1 DEF OneResolution
    <3>2. ASSUME NEW c, Sends(x, c), evts'[x] = evts[x],
                 c \in Resolves(x, a) => /\ approvals[a] # None /\ approvals[a].status = "pending"
                                         /\ AnswerUnderWay(x, a) => "double_answer" \in lapses'
          PROVE  NoneLeft
      BY <1>3, <3>1, <3>2
    <3> HIDE DEF NoneUnderWay, NoneLeft, InTurn
    <3> QED
      BY <1>1, <1>2, <1>4, <3>1, <3>2, AnswersMove
  <2>2. ASSUME approvals[a] # None, NEW d \in Devcontainers, NEW e \in Members(evts[d]),
               TakeInEvent(d), TakesIn(d, e), e \in Resolved(d, a)
        PROVE  NoneLeft
    <3>0. UNCHANGED cmds
      BY <2>2, TakeInDoes DEF Base
    <3>1. CASE d = x
      <4>1. Members(cmds[x]) \cap Resolves(x, a) = {}
        BY <1>o, <2>2, <3>1
      <4>2. evts[x] # <<>> /\ e = Head(evts[x]) /\ evts'[x] = Tail(evts[x])
        BY <2>2, <3>1 DEF TakesIn
      <4>3. Members(evts'[x]) \cap Resolved(x, a) = {}
        BY <1>o, <1>t, <2>2, <3>1, <4>2, NeverAfterTail
      <4> QED
        BY <3>0, <4>1, <4>3
    <3>2. CASE d # x
      <4>1. ASSUME NEW z \in Devcontainers, NEW m \in Members(cmds[z]) \cup Members(evts[z]),
                   m \in Resolves(z, a) \cup Resolved(z, a)
            PROVE  m.session = approvals[a].session /\ m.session \in Sessions /\ Mentions(z, m.session)
        <5>1. m.type \in {"resolve_approval", "approval_resolved"} /\ m.approval = a
          BY <4>1 DEF Resolves, Resolved
        <5>2. ResolutionBelongs(m)
          BY <4>1, <5>1 DEF Base, AnswersBelong, Belongs
        <5> QED
          BY <2>2, <4>1, <5>1, <5>2, ThereIs DEF ResolutionBelongs
      <4>2. e.session = approvals[a].session /\ e.session \in Sessions /\ Mentions(d, e.session)
        BY <2>2, <4>1
      <4>3. ~Mentions(x, e.session)
        BY <3>2, <4>2, Elsewhere
      <4>4. NoneUnderWay
        BY <4>1, <4>2, <4>3
      <4>5. cmds'[x] = cmds[x] /\ evts'[x] = evts[x]
        BY <2>2, <3>0, <3>2 DEF TakesIn
      <4> QED
        BY <4>4, <4>5
    <3> QED
      BY <3>1, <3>2
  <2> QED
    BY <1>6, <2>0, <2>1, <2>2, ApprovalsMove
<1> QED
  BY <1>5, <1>6 DEF OneResolution

\* So resolutions go on coming in turn.
LEMMA NextResolutions ==
    ASSUME Base, ResolutionsInTurn, [Next]_vars
    PROVE  ResolutionsInTurn'
<1>1. SUFFICES ASSUME "double_answer" \notin lapses'
               PROVE  \A d \in Devcontainers, a \in Approvals : OneResolution(d, a)'
  BY DEF ResolutionsInTurn
<1> QED
  BY <1>1, NextOneResolution

-----------------------------------------------------------------------------
\* The inductive invariant.

\* It holds at first: nothing is under way and there are no rows.
LEMMA InitIInv ==
    ASSUME Init
    PROVE  IInv
<1>1. Base
  BY InitBase
<1>2. /\ \A d \in Devcontainers : cmds[d] = <<>> /\ evts[d] = <<>> /\ busy[d] = None
      /\ \A r \in Runs : runs[r].phase = "unused"
      /\ \A s \in Sessions : processes[s] = None /\ tasks[s] = None
      /\ \A s \in Sessions : sessions[s] = None
      /\ \A a \in Approvals : approvals[a] = None
  BY DEF Init, ReadModelInit
<1>3. EntriesAreComplete
  BY <1>2 DEF EntriesAreComplete, Terminates
<1>4. \A d \in Devcontainers, s \in Sessions :
          ~Pending(d, s) /\ ~Stopping(d, s) /\ ~Spawning(d, s) /\ ~Running(s) /\ ~Ended(d, s)
  BY <1>1, <1>2, EmptyQueue, ActiveOrResting
     DEF Base, Pending, Spawning, Stopping, Running, Ended
<1>5. \A s \in Sessions : ~IsResting(s) /\ ~IsActive(s)
  BY <1>1, <1>2, ActiveOrResting DEF Base
<1>6. ASSUME NEW d \in Devcontainers, NEW s \in Sessions PROVE OneRunAtATime(d, s)
  <2>1. /\ NeverAfter(cmds[d], Starts(d, s), Starts(d, s))
        /\ NeverAfter(cmds[d], Stops(d, s), Starts(d, s))
        /\ NeverAfter(evts[d], Ends(d, s), Reports(d, s))
    BY <1>2, EmptyOrder
  <2> QED
    BY <1>4, <1>5, <2>1 DEF OneRunAtATime
<1>7. OrphansAreLapses /\ RunsAreWired
  BY <1>2 DEF OrphansAreLapses, RunsAreWired
<1>8. OneLive
  BY <1>2, <1>4 DEF OneLive, Live, Alive
<1>9. ASSUME NEW d \in Devcontainers, NEW s \in Sessions PROVE EndsAreLast(d, s)
  <2>1. NeverAfter(evts[d], Ends(d, s), Activates(d, s))
    BY <1>2, EmptyOrder
  <2> QED
    BY <1>5, <2>1 DEF EndsAreLast
<1>10. ActiveInTurn
  BY <1>5, <1>9 DEF ActiveInTurn, OneActive
<1>11. IdleIsQuiet
  BY <1>2 DEF IdleIsQuiet
<1>12. ASSUME NEW d \in Devcontainers, NEW a \in Approvals PROVE OneResolution(d, a)
  <2>1. /\ NeverAfter(cmds[d], Resolves(d, a), Resolves(d, a))
        /\ NeverAfter(evts[d], Resolved(d, a), Resolved(d, a))
        /\ Members(cmds[d]) = {}
    BY <1>2, EmptyOrder, EmptyQueue
  <2> QED
    BY <1>2, <2>1 DEF OneResolution
<1> QED
  BY <1>1, <1>3, <1>6, <1>7, <1>8, <1>10, <1>11, <1>12 DEF IInv, RunsInTurn, ResolutionsInTurn

\* Every step keeps it.
LEMMA NextIInv ==
    ASSUME IInv, [Next]_vars
    PROVE  IInv'
<1> USE DEF IInv
<1>1. RunsInTurn'
  BY NextEntriesComplete, NextOneRun DEF RunsInTurn
<1>2. Base' /\ OrphansAreLapses'
  BY NextBase, NextOrphans
<1>3. OneLive' /\ ActiveInTurn'
  BY NextOneLive, NextActiveInTurn
<1>4. RunsAreWired' /\ IdleIsQuiet'
  BY NextRunsAreWired, NextIdleIsQuiet
<1>5. ResolutionsInTurn'
  BY NextResolutions
<1> QED
  BY <1>1, <1>2, <1>3, <1>4, <1>5

\* So it holds always, for any devcontainers, sessions, approvals, runs and threads,
\* any length of the queues and any order of faults.
THEOREM AgentInvariant == Spec => []IInv
BY InitIInv, NextIInv, PTL DEF Spec

-----------------------------------------------------------------------------
\* What follows from it.

\* A stop always finds the process it is meant for, unless a resume was accepted
\* over it or a task entry was evicted: no run that claude is working on is without
\* the entry in _processes that _stop_agent_session looks up.
THEOREM StopsReachTheirRun == Spec => []StopReachesEveryRun
<1>1. IInv => StopReachesEveryRun
  BY DEF IInv, RunsInTurn, Unconfused, EntriesAreComplete, StopReachesEveryRun
<1> QED
  BY <1>1, AgentInvariant, PTL

\* A session at rest has no claude process, unless a resume was accepted over a stop,
\* a task entry was evicted or a drop cut a stop short.
THEOREM RestingSessionsAreIdle == Spec => []RestingMeansIdle
<1>1. ASSUME IInv PROVE RestingMeansIdle
  <2> SUFFICES ASSUME lapses \cap {"resumed_over_stop", "stop_interrupted", "task_evicted"} = {},
                      NEW s \in Sessions, IsResting(s), NEW r \in Runs, Alive(r)
               PROVE  runs[r].session # s
    BY DEF RestingMeansIdle
  <2>1. runs[r].phase \in {"working", "dying"}
    BY <1>1 DEF IInv, OrphansAreLapses, Alive
  <2>2. sessions[s].dc \in Devcontainers
    BY <1>1, HomeIsDevcontainer, ActiveOrResting DEF IInv, Base
  <2>3. OneRunAtATime(sessions[s].dc, s)
    BY <1>1, <2>2 DEF IInv, RunsInTurn, Unconfused
  <2> QED
    BY <2>1, <2>3 DEF OneRunAtATime, Ended, Running
<1> QED
  BY <1>1, AgentInvariant, PTL

\* At most one session of a devcontainer is active, unless a resume was accepted over
\* a stop, an approval was answered after its run was over or a task entry was
\* evicted: the check for an active session in the start and resume routes is then
\* as good as a lock, although what it reads is written by events still on their way.
THEOREM OneSessionIsActive == Spec => []OneActiveWithoutOverlap
<1>1. IInv => OneActiveWithoutOverlap
  BY DEF IInv, ActiveInTurn, InOrder, OneActiveWithoutOverlap
<1> QED
  BY <1>1, AgentInvariant, PTL

\* At most one claude process runs in a container as long as the read model has not
\* lost sight of one, whatever connections are lost and containers restarted.
THEOREM OneClaudePerContainer == Spec => []OneClaude
<1>1. ASSUME IInv PROVE OneClaude
  <2> SUFFICES ASSUME InSight, NEW q \in Runs, NEW r \in Runs, Alive(q), Alive(r),
                      runs[q].dc = runs[r].dc
               PROVE  q = r
    BY DEF OneClaude, InSight
  <2>1. /\ runs[q].dc \in Devcontainers /\ runs[q].session \in Sessions /\ runs[r].session \in Sessions
        /\ runs[q].phase \in {"working", "dying"} /\ runs[r].phase \in {"working", "dying"}
    <3>1. runs[q] \in Run /\ runs[r] \in Run
      BY <1>1 DEF IInv, Base, AgentTypeOK
    <3> QED
      BY <1>1, <3>1, RunFields DEF IInv, OrphansAreLapses, InSight, Alive
  <2>2. PICK d \in Devcontainers, s \in Sessions :
          /\ runs[q].dc = d /\ runs[r].dc = d
          /\ runs[q].session = s /\ runs[r].session = s
    <3>1. Live(runs[q].dc, runs[q].session) /\ Live(runs[q].dc, runs[r].session)
      BY <2>1 DEF Live
    <3> QED
      BY <1>1, <2>1, <3>1 DEF IInv, OneLive
  <2>3. EntriesAreComplete /\ OneRunAtATime(d, s)
    BY <1>1 DEF IInv, RunsInTurn, Unconfused, InSight
  <2>4. ASSUME NEW z \in {q, r}, runs[z].phase = "dying"
        PROVE  Terminates(d, z) /\ Stopping(d, s)
    BY <1>1, <2>2, <2>4 DEF IInv, Base, EntriesNameRuns, DyingAreTerminated, TerminationsApart,
                            Terminates, Stopping
  <2>5. CASE runs[q].phase = "working" /\ runs[r].phase = "working"
    BY <2>2, <2>3, <2>5 DEF EntriesAreComplete
  <2>6. CASE runs[q].phase = "dying" /\ runs[r].phase = "dying"
    BY <2>4, <2>6 DEF Terminates
  <2>7. CASE runs[q].phase = "dying" /\ runs[r].phase = "working"
    BY <2>2, <2>3, <2>4, <2>7 DEF OneRunAtATime
  <2>8. CASE runs[q].phase = "working" /\ runs[r].phase = "dying"
    BY <2>2, <2>3, <2>4, <2>8 DEF OneRunAtATime
  <2> QED
    BY <2>1, <2>5, <2>6, <2>7, <2>8
<1> QED
  BY <1>1, AgentInvariant, PTL

\* A session that will show active has a run or a start on its way, as long as no
\* connection was lost, no run ended without a report and no approval was answered
\* after its run was over.
THEOREM ActiveSessionsHaveRuns == Spec => []ActiveHasRun
<1>1. ASSUME IInv PROVE ActiveHasRun
  <2> SUFFICES ASSUME lapses \cap {"dropped", "unreported", "late_answer"} = {},
                      NEW s \in Sessions, sessions[s] # None, Settled(s) \in Active,
                      ~RunPending(s), ~Running(s)
               PROVE  FALSE
    BY DEF ActiveHasRun, Exists, Running
  <2>1. PICK d \in Devcontainers : sessions[s].dc = d
    BY <1>1, HomeIsDevcontainer DEF IInv, Base
  <2>t. evts[d] \in Seq(EventFrom(d))
    BY <1>1 DEF IInv, Base, AgentTypeOK
  <2>2. ~Pending(d, s)
    BY DEF RunPending, InFlight, Pending, Spawning, Members, Starts, CommandsAbout
  <2>3. Quiet(d, s)
    BY <1>1, <2>1, <2>2 DEF IInv, IdleIsQuiet
  <2>4. PICK about : about = {k \in DOMAIN evts[d] : evts[d][k].session = s
                                        /\ evts[d][k].type \in DOMAIN SessionStatusAfter}
    OBVIOUS
  <2>5. Settled(s) = IF about = {} THEN sessions[s].status
                     ELSE SessionStatusAfter[evts[d][CHOOSE k \in about : \A j \in about : j <= k].type]
    BY <2>1, <2>4 DEF Settled
  <2>6. /\ DOMAIN evts[d] \subseteq Nat
        /\ \A k \in DOMAIN evts[d] :
              k \in about <=> evts[d][k] \in Activates(d, s) \cup Ends(d, s)
    <3>1. DOMAIN evts[d] \subseteq Nat /\ \A k \in DOMAIN evts[d] : evts[d][k] \in EventFrom(d)
      BY <2>t
    <3> QED
      BY <2>4, <3>1 DEF Activates, Ends, EventsAbout, SessionStatusAfter
  <2>7. CASE EndsIn(evts[d], Activates(d, s) \cup Ends(d, s), Ends(d, s))
    <3>1. PICK k \in DOMAIN evts[d] :
            evts[d][k] \in Ends(d, s)
              /\ \A j \in DOMAIN evts[d] : evts[d][j] \in Activates(d, s) \cup Ends(d, s) => j <= k
      BY <2>7 DEF EndsIn
    <3>2. k \in about /\ about \subseteq Nat /\ \A j \in about : j <= k
      BY <2>4, <2>6, <3>1
    <3>3. PICK z : z = CHOOSE y \in about : \A j \in about : j <= y
      OBVIOUS
    <3>4. z \in about /\ \A j \in about : j <= z
      BY <3>2, <3>3
    <3>5. z = k
      BY <3>2, <3>4
    <3>6. Settled(s) = SessionStatusAfter[evts[d][k].type]
      BY <2>5, <3>2, <3>3, <3>5
    <3>7. evts[d][k].type \in {"session_completed", "session_failed", "session_stopped"}
      BY <3>1 DEF Ends, EventsAbout
    <3> QED
      BY <3>6, <3>7 DEF SessionStatusAfter, Active
  <2>8. CASE /\ Members(evts[d]) \cap (Activates(d, s) \cup Ends(d, s)) = {}
             /\ sessions[s].status \in Resting
    <3>1. about = {}
      BY <2>4, <2>6, <2>8 DEF Members
    <3> QED
      BY <2>5, <2>8, <3>1 DEF Resting, Active
  <2> QED
    BY <2>3, <2>7, <2>8 DEF Quiet
<1> QED
  BY <1>1, AgentInvariant, PTL

\* A decision on an approval is never overturned, unless a second resolution of it
\* was accepted while the first was still on its way.
THEOREM DecisionsStand == Spec => DecisionsStandIfSerial
<1>1. ASSUME IInv, [Next]_vars, NEW a \in Approvals, "double_answer" \notin lapses,
             approvals[a] # None, approvals[a].status \in Decided, approvals'[a] # None
      PROVE  approvals'[a].status = approvals[a].status
  <2>1. \A d \in Devcontainers : Members(evts[d]) \cap Resolved(d, a) = {}
    BY <1>1 DEF IInv, ResolutionsInTurn, OneResolution
  <2> QED
    BY <1>1, <2>1, ApprovalsMove DEF IInv
<1>2. IInv /\ [Next]_vars =>
        [\A a \in Approvals :
            (/\ "double_answer" \notin lapses
             /\ approvals[a] # None /\ approvals[a].status \in Decided /\ approvals'[a] # None)
            => approvals'[a].status = approvals[a].status]_vars
  BY <1>1
<1> QED
  BY <1>2, AgentInvariant, PTL DEF Spec, DecisionsStandIfSerial
=============================================================================
