--------------------- MODULE DevcontainerLifecycleProofs ---------------------
(***************************************************************************)
(* The lifecycle of any number of devcontainers, folders and messages: what*)
(* a row will say once the events on their way have been taken in is       *)
(* justified by the worker's command under way and by the container.       *)
(***************************************************************************)
EXTENDS DevcontainerLifecycle, TLAPS

-----------------------------------------------------------------------------
\* The inductive invariant.

\* With the events of `queue` on their way, a row d that says `now` will say `st`.
WillSay(queue, now, d, st) ==
    \/ /\ \A i \in DOMAIN queue : queue[i].dc # d
       /\ now = st
    \/ \E i \in DOMAIN queue :
          /\ queue[i].dc = d
          /\ DevcontainerStatusAfter[queue[i].type] = st
          /\ \A j \in DOMAIN queue : queue[j].dc = d => j <= i

\* A row that will be left in a transient status has its command at the CLI.
TransientIsAtWork ==
    \A d \in Devcontainers \ lost :
        (\E st \in {"starting", "stopping"} : WillSay(events, status[d], d, st))
        => work # None /\ work.dc = d /\ work.step = "running"

\* The row that decided a folder last will tell the truth about it.
LastWillBeTrue ==
    \A f \in Folders : last[f] # None =>
        /\ FolderOf[last[f]] = f
        /\ WillSay(events, status[last[f]], last[f], "running") => container[f]
        /\ WillSay(events, status[last[f]], last[f], "stopped") => ~container[f]

IInv == TypeOK /\ TransientIsAtWork /\ LastWillBeTrue

-----------------------------------------------------------------------------
\* The events on their way.

\* A new event decides what its row will say, and nothing about the others.
LEMMA WillSayAfterAppend ==
    ASSUME NEW queue \in Seq(Event), NEW e \in Event, NEW now, NEW d, NEW st
    PROVE  /\ e.dc = d => (WillSay(Append(queue, e), now, d, st)
                             <=> DevcontainerStatusAfter[e.type] = st)
           /\ e.dc # d => (WillSay(Append(queue, e), now, d, st)
                             <=> WillSay(queue, now, d, st))
<1>1. /\ Len(queue) \in Nat /\ DOMAIN queue = 1 .. Len(queue)
      /\ DOMAIN Append(queue, e) = 1 .. Len(queue) + 1
      /\ \A i \in 1 .. Len(queue) : Append(queue, e)[i] = queue[i]
      /\ Append(queue, e)[Len(queue) + 1] = e
  OBVIOUS
<1>2. \A i \in 1 .. Len(queue) + 1 : i \in 1 .. Len(queue) \/ i = Len(queue) + 1
  BY <1>1
<1> DEFINE q == Append(queue, e)
<1> HIDE DEF q
<1>3. /\ DOMAIN q = 1 .. Len(queue) + 1 /\ q[Len(queue) + 1] = e
      /\ \A i \in 1 .. Len(queue) : q[i] = queue[i]
  BY <1>1 DEF q
<1>4. CASE e.dc = d
  <2>1. ASSUME WillSay(q, now, d, st) PROVE DevcontainerStatusAfter[e.type] = st
    <3>1. PICK i \in 1 .. Len(queue) + 1 :
              /\ DevcontainerStatusAfter[q[i].type] = st
              /\ \A j \in 1 .. Len(queue) + 1 : q[j].dc = d => j <= i
      BY <1>1, <1>3, <1>4, <2>1 DEF WillSay
    <3>2. Len(queue) + 1 <= i
      BY <1>1, <1>3, <1>4, <3>1
    <3> QED
      BY <1>1, <1>3, <3>1, <3>2
  <2>2. ASSUME DevcontainerStatusAfter[e.type] = st PROVE WillSay(q, now, d, st)
    BY <1>1, <1>3, <1>4, <2>2 DEF WillSay
  <2> QED
    BY <1>4, <2>1, <2>2 DEF q
<1>5. CASE e.dc # d
  <2>1. ASSUME WillSay(q, now, d, st) PROVE WillSay(queue, now, d, st)
    <3>1. CASE \E i \in DOMAIN q : q[i].dc = d
      <4>1. PICK i \in 1 .. Len(queue) + 1 :
              /\ q[i].dc = d /\ DevcontainerStatusAfter[q[i].type] = st
              /\ \A j \in 1 .. Len(queue) + 1 : q[j].dc = d => j <= i
        BY <1>3, <2>1, <3>1 DEF WillSay
      <4>2. i \in 1 .. Len(queue) /\ q[i] = queue[i]
        BY <1>2, <1>3, <1>5, <4>1
      <4> QED
        BY <1>1, <1>3, <4>1, <4>2 DEF WillSay
    <3>2. CASE ~\E i \in DOMAIN q : q[i].dc = d
      BY <1>1, <1>3, <2>1, <3>2 DEF WillSay
    <3> QED
      BY <3>1, <3>2
  <2>2. ASSUME WillSay(queue, now, d, st) PROVE WillSay(q, now, d, st)
    <3>1. CASE \E i \in DOMAIN queue : queue[i].dc = d
      <4>1. PICK i \in 1 .. Len(queue) :
              /\ queue[i].dc = d /\ DevcontainerStatusAfter[queue[i].type] = st
              /\ \A j \in 1 .. Len(queue) : queue[j].dc = d => j <= i
        BY <1>1, <2>2, <3>1 DEF WillSay
      <4>2. i \in DOMAIN q /\ q[i] = queue[i]
        BY <1>1, <1>3
      <4>3. \A j \in DOMAIN q : q[j].dc = d => j <= i
        BY <1>2, <1>3, <1>5, <4>1
      <4> QED
        BY <4>1, <4>2, <4>3 DEF WillSay
    <3>2. CASE ~\E i \in DOMAIN queue : queue[i].dc = d
      BY <1>1, <1>2, <1>3, <1>5, <2>2, <3>2 DEF WillSay
    <3> QED
      BY <3>1, <3>2
  <2> QED
    BY <1>5, <2>1, <2>2 DEF q
<1> QED
  BY <1>4, <1>5

\* Taking the oldest event in makes its row say what it was going to say anyway.
LEMMA WillSayAfterTail ==
    ASSUME NEW queue \in Seq(Event), queue # <<>>, NEW now, NEW then, NEW d, NEW st,
           IF Head(queue).dc = d THEN then = DevcontainerStatusAfter[Head(queue).type]
                                 ELSE then = now,
           WillSay(Tail(queue), then, d, st)
    PROVE  WillSay(queue, now, d, st)
<1>1. /\ Len(queue) \in Nat /\ Len(queue) >= 1 /\ DOMAIN queue = 1 .. Len(queue)
      /\ DOMAIN Tail(queue) = 1 .. Len(queue) - 1
      /\ \A i \in 1 .. Len(queue) - 1 : Tail(queue)[i] = queue[i + 1]
      /\ Head(queue) = queue[1]
  OBVIOUS
<1>2. \A i \in 1 .. Len(queue) : i = 1 \/ (i - 1 \in 1 .. Len(queue) - 1
                                              /\ queue[i] = Tail(queue)[i - 1])
  BY <1>1
<1>3. CASE \A i \in DOMAIN Tail(queue) : Tail(queue)[i].dc # d
  <2>1. then = st
    BY <1>3 DEF WillSay
  <2>2. \A i \in DOMAIN queue : i # 1 => queue[i].dc # d
    BY <1>1, <1>2, <1>3
  <2>3. CASE Head(queue).dc = d
    <3>1. 1 \in DOMAIN queue /\ \A i \in DOMAIN queue : queue[i].dc = d => i <= 1
      BY <1>1, <2>2
    <3> QED
      BY <1>1, <2>1, <2>3, <3>1 DEF WillSay
  <2>4. CASE Head(queue).dc # d
    BY <1>1, <2>1, <2>2, <2>4 DEF WillSay
  <2> QED
    BY <2>3, <2>4
<1>4. CASE \E i \in DOMAIN Tail(queue) :
              /\ Tail(queue)[i].dc = d
              /\ DevcontainerStatusAfter[Tail(queue)[i].type] = st
              /\ \A j \in DOMAIN Tail(queue) : Tail(queue)[j].dc = d => j <= i
  <2>1. PICK i \in 1 .. Len(queue) - 1 :
              /\ Tail(queue)[i].dc = d
              /\ DevcontainerStatusAfter[Tail(queue)[i].type] = st
              /\ \A j \in DOMAIN Tail(queue) : Tail(queue)[j].dc = d => j <= i
    BY <1>1, <1>4
  <2>2. i + 1 \in DOMAIN queue /\ queue[i + 1] = Tail(queue)[i]
    BY <1>1
  <2>3. \A j \in DOMAIN queue : queue[j].dc = d => j <= i + 1
    <3> SUFFICES ASSUME NEW j \in 1 .. Len(queue), queue[j].dc = d PROVE j <= i + 1
      BY <1>1
    <3>1. CASE j = 1
      BY <3>1
    <3>2. CASE j - 1 \in DOMAIN Tail(queue) /\ Tail(queue)[j - 1].dc = d
      <4>1. j - 1 <= i
        BY <2>1, <3>2
      <4> QED
        BY <1>1, <4>1
    <3>3. j = 1 \/ (j - 1 \in DOMAIN Tail(queue) /\ Tail(queue)[j - 1].dc = d)
      BY <1>1, <1>2
    <3> QED
      BY <3>1, <3>2, <3>3
  <2> QED
    BY <2>1, <2>2, <2>3 DEF WillSay
<1> QED
  BY <1>3, <1>4 DEF WillSay

\* What the events say, they say in statuses the program knows.
LEMMA StatusAfterEvent ==
    ASSUME NEW type \in DevcontainerEventTypes
    PROVE  DevcontainerStatusAfter[type] \in DevcontainerStatus
BY DEF DevcontainerEventTypes, DevcontainerStatusAfter, DevcontainerStatus

-----------------------------------------------------------------------------
\* What the rows will say, action by action.

\* The row of a new event will say what the event says.
LEMMA EmitSays ==
    ASSUME TypeOK, NEW type \in DevcontainerEventTypes, NEW e \in Devcontainers,
           Emit(type, e), status' = status
    PROVE  /\ events' \in Seq(Event) /\ Len(events') <= MaxInFlight
           /\ \A d \in Devcontainers : \A st :
                WillSay(events', status'[d], d, st) <=>
                  IF d = e THEN DevcontainerStatusAfter[type] = st
                  ELSE WillSay(events, status[d], d, st)
<1> DEFINE m == [type |-> type, dc |-> e]
<1>1. m \in Event /\ m.dc = e /\ m.type = type
  BY DEF Event
<1>2. events \in Seq(Event) /\ Len(events) < MaxInFlight /\ events' = Append(events, m)
  BY DEF TypeOK, Emit
<1> HIDE DEF m
<1>3. events' \in Seq(Event) /\ Len(events') <= MaxInFlight
  BY <1>1, <1>2, LifecycleBounds
<1>4. ASSUME NEW d \in Devcontainers, NEW st
      PROVE  WillSay(events', status'[d], d, st) <=>
                  IF d = e THEN DevcontainerStatusAfter[type] = st
                  ELSE WillSay(events, status[d], d, st)
  BY <1>1, <1>2, WillSayAfterAppend
<1> QED
  BY <1>3, <1>4

\* Intake changes nothing of what the rows will say, but that a deleted one is silent.
LEMMA TakeInSays ==
    ASSUME TypeOK, TakeInEvent
    PROVE  /\ events' \in Seq(Event) /\ Len(events') <= MaxInFlight
           /\ status' \in [Devcontainers -> DevcontainerStatus \cup {None}]
           /\ \A d \in Devcontainers, st \in DevcontainerStatus :
                WillSay(events', status'[d], d, st) => WillSay(events, status[d], d, st)
<1>1. events \in Seq(Event) /\ events # <<>> /\ events' = Tail(events)
  BY DEF TypeOK, TakeInEvent
<1>2. /\ Head(events).dc \in Devcontainers /\ Head(events).type \in DevcontainerEventTypes
      /\ events' \in Seq(Event) /\ Len(events') <= MaxInFlight
  <2>1. Head(events) \in Event /\ Tail(events) \in Seq(Event)
        /\ Len(Tail(events)) = Len(events) - 1 /\ Len(events) \in Nat
    BY <1>1
  <2> QED
    BY <1>1, <2>1, LifecycleBounds DEF TypeOK, Event
<1> DEFINE after(d) == IF d # Head(events).dc THEN status[d]
                       ELSE IF status[d] = None THEN None
                       ELSE DevcontainerStatusAfter[Head(events).type]
<1>3. status' = [d \in Devcontainers |-> after(d)]
  BY <1>2 DEF TypeOK, TakeInEvent
<1>4. DevcontainerStatusAfter[Head(events).type] \in DevcontainerStatus
  BY <1>2, StatusAfterEvent
<1>5. status' \in [Devcontainers -> DevcontainerStatus \cup {None}]
  BY <1>3, <1>4 DEF TypeOK
<1>6. ASSUME NEW d \in Devcontainers, NEW st \in DevcontainerStatus,
             WillSay(Tail(events), status'[d], d, st)
      PROVE  WillSay(events, status[d], d, st)
  <2>1. CASE status[d] = None /\ d = Head(events).dc
    <3>1. status'[d] = None /\ None # st
      BY <1>3, <2>1, NoneIsNothing
    <3>2. WillSay(Tail(events), DevcontainerStatusAfter[Head(events).type], d, st)
      BY <1>6, <3>1 DEF WillSay
    <3> QED
      BY <1>1, <2>1, <3>2, WillSayAfterTail
  <2>2. CASE status[d] # None /\ d = Head(events).dc
    BY <1>1, <1>3, <1>6, <2>2, WillSayAfterTail
  <2>3. CASE d # Head(events).dc
    BY <1>1, <1>3, <1>6, <2>3, WillSayAfterTail
  <2> QED
    BY <2>1, <2>2, <2>3
<1> QED
  BY <1>1, <1>2, <1>5, <1>6

\* So does a delete.
LEMMA DeleteSays ==
    ASSUME TypeOK, NEW e \in Devcontainers, DeleteDevcontainer(e)
    PROVE  /\ status' \in [Devcontainers -> DevcontainerStatus \cup {None}]
           /\ \A d \in Devcontainers, st \in DevcontainerStatus :
                WillSay(events', status'[d], d, st) => WillSay(events, status[d], d, st)
<1>1. /\ status' = [d \in Devcontainers |-> IF d = e THEN None ELSE status[d]]
      /\ events' = events
  BY DEF TypeOK, DeleteDevcontainer, channel
<1>2. ASSUME NEW d \in Devcontainers, NEW st \in DevcontainerStatus,
             WillSay(events, status'[d], d, st)
      PROVE  WillSay(events, status[d], d, st)
  BY <1>1, <1>2, NoneIsNothing DEF WillSay
<1> QED
  BY <1>1, <1>2 DEF TypeOK

\* Whatever the worker is doing, it is doing it to a row.
LEMMA WorkIsTyped ==
    ASSUME TypeOK, work # None
    PROVE  /\ work \in Work /\ work.dc \in Devcontainers /\ work.op \in Operation
           /\ FolderOf[work.dc] \in Folders
BY FoldersOfRows DEF TypeOK, Work

\* Both outcomes of a command are announced in the vocabulary of the reducer.
LEMMA EventsOfCommands ==
    ASSUME NEW op \in Operation
    PROVE  /\ PreEvent[op] \in DevcontainerEventTypes
           /\ SuccessEvent[op] \in DevcontainerEventTypes
           /\ "devcontainer_failed" \in DevcontainerEventTypes
           /\ DevcontainerStatusAfter[PreEvent[op]] \in {"starting", "stopping"}
           /\ DevcontainerStatusAfter[SuccessEvent[op]]
                = IF op = "start" THEN "running" ELSE "stopped"
           /\ DevcontainerStatusAfter["devcontainer_failed"] = "error"
BY DEF Operation, PreEvent, SuccessEvent, DevcontainerEventTypes, DevcontainerStatusAfter

\* The fleet keeps its types whatever happens to a container, or is launched in one.
LEMMA ContainerKeepsTypes ==
    ASSUME TypeOK, NEW f \in Folders, NEW up \in BOOLEAN, Container(f, up)
    PROVE  /\ container' \in [Folders -> BOOLEAN]
           /\ agents' \in [Devcontainers -> 0 .. MaxAgents]
<1>1. 0 \in 0 .. MaxAgents
  BY LifecycleBounds
<1> QED
  BY <1>1 DEF TypeOK, Container

\* Launching an agent stays within the bound.
LEMMA LaunchKeepsTypes ==
    ASSUME TypeOK, NEW d \in Devcontainers, Launch(d)
    PROVE  agents' \in [Devcontainers -> 0 .. MaxAgents]
<1>1. agents[d] < MaxAgents => agents[d] + 1 \in 0 .. MaxAgents
  BY LifecycleBounds DEF TypeOK
<1> QED
  BY <1>1 DEF TypeOK, Launch

-----------------------------------------------------------------------------
\* TypeOK, action by action.

\* Every step keeps the types and the bounds of the queues.
LEMMA TypesHold ==
    ASSUME TypeOK, [Next]_vars
    PROVE  TypeOK'
<1> USE DEF fleet, channel, history
<1>1. ASSUME NEW d \in Devcontainers, StartDevcontainer(d) \/ StopDevcontainer(d)
      PROVE  TypeOK'
  <2>1. PICK op \in Operation :
             /\ Len(commands) < MaxInFlight
             /\ commands' = Append(commands, [op |-> op, dc |-> d])
             /\ UNCHANGED <<status, fleet, linked, dead, events, work, abandoned, history>>
    BY <1>1 DEF StartDevcontainer, StopDevcontainer, Dispatch, Operation
  <2>2. [op |-> op, dc |-> d] \in Lifecycle
    BY DEF Lifecycle
  <2>3. commands' \in Seq(Lifecycle) /\ Len(commands') <= MaxInFlight
    BY <2>1, <2>2, LifecycleBounds DEF TypeOK
  <2> QED
    BY <2>1, <2>3 DEF TypeOK
<1>2. ASSUME NEW d \in Devcontainers, DeleteDevcontainer(d)
      PROVE  TypeOK'
  BY <1>2, DeleteSays DEF TypeOK, DeleteDevcontainer
<1>3. ASSUME NEW d \in Devcontainers, AgentDies(d)
      PROVE  TypeOK'
  <2>1. agents[d] - 1 \in 0 .. MaxAgents
    BY <1>3, LifecycleBounds DEF TypeOK, AgentDies
  <2> QED
    BY <1>3, <2>1 DEF TypeOK, AgentDies
<1>4. CASE TakeInEvent
  BY <1>4, TakeInSays DEF TypeOK, TakeInEvent
<1>5. CASE TakeCommand
  <2>1. /\ Head(commands) \in Lifecycle /\ commands' \in Seq(Lifecycle)
        /\ Len(commands') <= MaxInFlight
    BY <1>5, LifecycleBounds DEF TypeOK, TakeCommand
  <2>2. Head(commands).op \in Operation /\ Head(commands).dc \in Devcontainers
    BY <2>1 DEF Lifecycle
  <2>3. events' \in Seq(Event) /\ Len(events') <= MaxInFlight
    BY <1>5, <2>2, EventsOfCommands, EmitSays DEF TakeCommand
  <2>4. work' \in Work
    BY <1>5, <2>2 DEF TakeCommand, Work
  <2>5. lost' \subseteq Devcontainers
    BY <1>5 DEF TypeOK, TakeCommand
  <2> QED
    BY <1>5, <2>1, <2>3, <2>4, <2>5 DEF TypeOK, TakeCommand
<1>6. CASE CommandSucceeds
  <2>1. work.dc \in Devcontainers /\ work.op \in Operation /\ FolderOf[work.dc] \in Folders
        /\ work \in Work
    BY <1>6, WorkIsTyped DEF CommandSucceeds
  <2>2. events' \in Seq(Event) /\ Len(events') <= MaxInFlight
    BY <1>6, <2>1, EventsOfCommands, EmitSays DEF CommandSucceeds
  <2>3. work' \in Work \cup {None}
    BY <1>6, <2>1 DEF CommandSucceeds, Work
  <2>4. /\ container' \in [Folders -> BOOLEAN]
        /\ agents' \in [Devcontainers -> 0 .. MaxAgents]
    BY <1>6, <2>1, ContainerKeepsTypes DEF CommandSucceeds
  <2>5. last' \in [Folders -> Devcontainers \cup {None}]
    BY <1>6, <2>1 DEF TypeOK, CommandSucceeds, Decides
  <2> QED
    BY <1>6, <2>2, <2>3, <2>4, <2>5 DEF TypeOK, CommandSucceeds
<1>7. CASE CommandFails
  <2>1. work.dc \in Devcontainers /\ work.op \in Operation /\ FolderOf[work.dc] \in Folders
    BY <1>7, WorkIsTyped DEF CommandFails
  <2>2. events' \in Seq(Event) /\ Len(events') <= MaxInFlight
    BY <1>7, <2>1, EventsOfCommands, EmitSays DEF CommandFails
  <2>3. PICK up \in Outcomes(work.op, FolderOf[work.dc]) : Container(FolderOf[work.dc], up)
    BY <1>7 DEF CommandFails
  <2>4. up \in BOOLEAN
    BY <2>1, <2>3 DEF TypeOK, Outcomes
  <2>5. /\ container' \in [Folders -> BOOLEAN]
        /\ agents' \in [Devcontainers -> 0 .. MaxAgents]
    BY <2>1, <2>3, <2>4, ContainerKeepsTypes
  <2>6. last' \in [Folders -> Devcontainers \cup {None}]
    BY <1>7, <2>1 DEF TypeOK, CommandFails, Decides
  <2> QED
    BY <1>7, <2>2, <2>5, <2>6 DEF TypeOK, CommandFails
<1>8. CASE CommandRaises
  <2>1. work.dc \in Devcontainers
    BY <1>8, WorkIsTyped DEF CommandRaises
  <2> QED
    BY <1>8, <2>1 DEF TypeOK, CommandRaises
<1>9. CASE LaunchAgent
  <2>1. work.dc \in Devcontainers
    BY <1>9, WorkIsTyped DEF LaunchAgent
  <2>2. agents' \in [Devcontainers -> 0 .. MaxAgents]
    BY <1>9, <2>1, LaunchKeepsTypes DEF LaunchAgent
  <2> QED
    BY <1>9, <2>2 DEF TypeOK, LaunchAgent
<1>10. CASE WorkerConnects
  BY <1>10 DEF TypeOK, WorkerConnects
<1>11. CASE WorkerDrops
  <2>1. /\ commands' \in Seq(Lifecycle) /\ Len(commands') <= MaxInFlight
        /\ events' \in Seq(Event) /\ Len(events') <= MaxInFlight
    BY <1>11, LifecycleBounds DEF WorkerDrops
  <2>2. abandoned' \subseteq Work
    BY <1>11, WorkIsTyped DEF TypeOK, WorkerDrops
  <2>3. lost' \subseteq Devcontainers /\ last' \in [Folders -> Devcontainers \cup {None}]
    BY <1>11 DEF TypeOK, WorkerDrops
  <2> QED
    BY <1>11, <2>1, <2>2, <2>3 DEF TypeOK, WorkerDrops
<1>12. ASSUME NEW c \in Work, AbandonedEnds(c)
       PROVE  TypeOK'
  <2>1. c.dc \in Devcontainers /\ c.op \in Operation /\ FolderOf[c.dc] \in Folders
    BY FoldersOfRows DEF Work
  <2>2. abandoned' \subseteq Work
    BY <1>12 DEF TypeOK, AbandonedEnds
  <2>3. /\ container' \in [Folders -> BOOLEAN]
        /\ agents' \in [Devcontainers -> 0 .. MaxAgents]
        /\ last' \in [Folders -> Devcontainers \cup {None}]
    <3>1. CASE \E up \in Outcomes(c.op, FolderOf[c.dc]) : Container(FolderOf[c.dc], up)
               /\ Undecided(FolderOf[c.dc])
      <4>1. PICK up \in BOOLEAN : Container(FolderOf[c.dc], up)
        BY <2>1, <3>1 DEF TypeOK, Outcomes
      <4>2. last' \in [Folders -> Devcontainers \cup {None}]
        BY <2>1, <3>1 DEF TypeOK, Undecided
      <4> QED
        BY <2>1, <4>1, <4>2, ContainerKeepsTypes
    <3>2. CASE Launch(c.dc) /\ UNCHANGED <<container, last>>
      BY <2>1, <3>2, LaunchKeepsTypes DEF TypeOK
    <3> QED
      BY <1>12, <3>1, <3>2 DEF AbandonedEnds
  <2> QED
    BY <1>12, <2>2, <2>3 DEF TypeOK, AbandonedEnds
<1>13. ASSUME NEW f \in Folders, ContainerDies(f)
       PROVE  TypeOK'
  <2>1. /\ container' \in [Folders -> BOOLEAN]
        /\ agents' \in [Devcontainers -> 0 .. MaxAgents]
    BY <1>13, ContainerKeepsTypes DEF ContainerDies
  <2>2. last' \in [Folders -> Devcontainers \cup {None}]
    BY <1>13 DEF TypeOK, ContainerDies, Undecided
  <2> QED
    BY <1>13, <2>1, <2>2 DEF TypeOK, ContainerDies
<1>14. CASE UNCHANGED vars
  BY <1>14 DEF TypeOK, vars
<1> QED
  BY <1>1, <1>2, <1>3, <1>4, <1>5, <1>6, <1>7, <1>8, <1>9, <1>10, <1>11, <1>12, <1>13, <1>14
     DEF Next, WorkerStep

-----------------------------------------------------------------------------
\* The two other parts, action by action.

\* A transient status has its command at the CLI, before and after every step.
LEMMA TransientHolds ==
    ASSUME IInv, [Next]_vars
    PROVE  TransientIsAtWork'
<1> USE DEF fleet, channel, history
<1> TypeOK /\ TransientIsAtWork
  BY DEF IInv
<1> SUFFICES ASSUME NEW d \in Devcontainers, d \notin lost', NEW st \in {"starting", "stopping"},
                    WillSay(events', status'[d], d, st)
             PROVE  work' # None /\ work'.dc = d /\ work'.step = "running"
  BY DEF TransientIsAtWork
<1>0. st \in DevcontainerStatus
  BY DEF DevcontainerStatus
<1>1. ASSUME d \notin lost, WillSay(events, status[d], d, st)
      PROVE  work # None /\ work.dc = d /\ work.step = "running"
  BY <1>1 DEF TransientIsAtWork
<1>2. ASSUME NEW e \in Devcontainers, StartDevcontainer(e) \/ StopDevcontainer(e)
      PROVE  work' # None /\ work'.dc = d /\ work'.step = "running"
  BY <1>1, <1>2 DEF StartDevcontainer, StopDevcontainer, Dispatch
<1>3. ASSUME NEW e \in Devcontainers, DeleteDevcontainer(e)
      PROVE  work' # None /\ work'.dc = d /\ work'.step = "running"
  BY <1>0, <1>1, <1>3, DeleteSays DEF DeleteDevcontainer
<1>4. ASSUME NEW e \in Devcontainers, AgentDies(e)
      PROVE  work' # None /\ work'.dc = d /\ work'.step = "running"
  BY <1>1, <1>4 DEF AgentDies
<1>5. CASE TakeInEvent
  BY <1>0, <1>1, <1>5, TakeInSays DEF TakeInEvent
<1>6. CASE TakeCommand
  <2>1. Head(commands) \in Lifecycle
    BY <1>6 DEF TypeOK, TakeCommand
  <2>2. Head(commands).op \in Operation /\ Head(commands).dc \in Devcontainers
    BY <2>1 DEF Lifecycle
  <2>3. CASE d = Head(commands).dc
    <3>1. work' = [op |-> Head(commands).op, dc |-> d, step |-> "running"]
      BY <1>6, <2>3 DEF TakeCommand
    <3>2. work' \in Work
      BY <2>2, <3>1 DEF Work
    <3> QED
      BY <3>1, <3>2, NoneIsNothing
  <2>4. CASE d # Head(commands).dc
    <3>1. PICK type \in DevcontainerEventTypes, e \in Devcontainers :
              /\ e = Head(commands).dc
              /\ Emit(type, e) /\ status' = status /\ lost' = lost \ {e}
      BY <1>6, <2>2, EventsOfCommands DEF TakeCommand
    <3>3. WillSay(events, status[d], d, st)
      BY <2>4, <3>1, EmitSays
    <3>4. work # None /\ work.dc = d
      BY <1>1, <2>4, <3>1, <3>3
    <3> QED
      BY <1>6, <3>4 DEF TakeCommand
  <2> QED
    BY <2>3, <2>4
<1>7. CASE CommandSucceeds
  <2>1. work # None /\ work.dc \in Devcontainers /\ work.op \in Operation
    BY <1>7, WorkIsTyped DEF CommandSucceeds
  <2>2. Emit(SuccessEvent[work.op], work.dc) /\ status' = status /\ lost' = lost
    BY <1>7 DEF CommandSucceeds
  <2>3. /\ SuccessEvent[work.op] \in DevcontainerEventTypes
        /\ DevcontainerStatusAfter[SuccessEvent[work.op]] # st
    BY <2>1, EventsOfCommands
  <2>4. d # work.dc /\ WillSay(events, status[d], d, st)
    BY <2>1, <2>2, <2>3, EmitSays
  <2> QED
    BY <1>1, <2>2, <2>4
<1>8. CASE CommandFails
  <2>1. work # None /\ work.dc \in Devcontainers /\ work.op \in Operation
    BY <1>8, WorkIsTyped DEF CommandFails
  <2>2. d # work.dc /\ WillSay(events, status[d], d, st)
    BY <1>8, <2>1, EventsOfCommands, EmitSays DEF CommandFails
  <2> QED
    BY <1>1, <1>8, <2>2 DEF CommandFails
<1>9. CASE CommandRaises
  BY <1>1, <1>9 DEF CommandRaises
<1>10. CASE LaunchAgent
  BY <1>1, <1>10 DEF LaunchAgent
<1>11. CASE WorkerConnects
  BY <1>1, <1>11 DEF WorkerConnects
<1>12. CASE WorkerDrops
  <2>1. Quiet(d) /\ d \notin lost
    BY <1>12 DEF WorkerDrops
  <2>2. status[d] = st
    BY <1>12 DEF WorkerDrops, WillSay
  <2>3. WillSay(events, status[d], d, st)
    BY <2>1, <2>2 DEF Quiet, EventsAbout, WillSay
  <2> QED
    BY <1>1, <2>1, <2>3 DEF Quiet
<1>13. ASSUME NEW c \in Work, AbandonedEnds(c)
       PROVE  work' # None /\ work'.dc = d /\ work'.step = "running"
  BY <1>1, <1>13 DEF AbandonedEnds
<1>14. ASSUME NEW f \in Folders, ContainerDies(f)
       PROVE  work' # None /\ work'.dc = d /\ work'.step = "running"
  BY <1>1, <1>14 DEF ContainerDies
<1>15. CASE UNCHANGED vars
  BY <1>1, <1>15 DEF vars
<1> QED
  BY <1>2, <1>3, <1>4, <1>5, <1>6, <1>7, <1>8, <1>9, <1>10, <1>11, <1>12, <1>13, <1>14, <1>15
     DEF Next, WorkerStep

\* A command that ends leaves its container as its event will say.
LEMMA EndedCommandIsTrue ==
    ASSUME IInv, NEW type \in DevcontainerEventTypes, NEW d, d = work.dc, work # None,
           Emit(type, d), status' = status, Decides(d),
           DevcontainerStatusAfter[type] = "running" => container'[FolderOf[d]],
           DevcontainerStatusAfter[type] = "stopped" => ~container'[FolderOf[d]],
           \A f \in Folders \ {FolderOf[d]} : container'[f] = container[f]
    PROVE  LastWillBeTrue'
<1>1. TypeOK /\ d \in Devcontainers /\ FolderOf[d] \in Folders
  BY WorkIsTyped DEF IInv
<1>2. SUFFICES ASSUME NEW f \in Folders, last'[f] # None
               PROVE  /\ FolderOf[last'[f]] = f
                      /\ WillSay(events', status'[last'[f]], last'[f], "running") => container'[f]
                      /\ WillSay(events', status'[last'[f]], last'[f], "stopped") => ~container'[f]
  BY DEF LastWillBeTrue
<1>3. CASE f = FolderOf[d]
  <2>1. last'[f] = d
    BY <1>1, <1>3 DEF Decides, TypeOK
  <2>2. /\ WillSay(events', status'[d], d, "running") => DevcontainerStatusAfter[type] = "running"
        /\ WillSay(events', status'[d], d, "stopped") => DevcontainerStatusAfter[type] = "stopped"
    BY <1>1, EmitSays
  <2> QED
    BY <1>3, <2>1, <2>2
<1>4. CASE f # FolderOf[d]
  <2>1. last'[f] = last[f] /\ container'[f] = container[f]
    BY <1>4 DEF Decides, IInv, TypeOK
  <2>2. FolderOf[last[f]] = f /\ last[f] # d /\ last[f] \in Devcontainers
    BY <1>2, <1>4, <2>1 DEF IInv, LastWillBeTrue, TypeOK
  <2>3. ASSUME NEW st, WillSay(events', status'[last[f]], last[f], st)
        PROVE  WillSay(events, status[last[f]], last[f], st)
    <3>1. \A x \in Devcontainers : x # d =>
             (WillSay(events', status'[x], x, st) <=> WillSay(events, status[x], x, st))
      BY <1>1, EmitSays
    <3> QED
      BY <2>2, <2>3, <3>1
  <2> QED
    BY <1>2, <2>1, <2>2, <2>3 DEF IInv, LastWillBeTrue
<1> QED
  BY <1>3, <1>4

\* Where the container is as it was and rows say no more than before, the rows that
\* still decide their folders go on telling the truth.
LEMMA TruthStays ==
    ASSUME IInv,
           \A f \in Folders : last'[f] \in {last[f], None},
           \A f \in Folders : last'[f] # None => container'[f] = container[f],
           \A f \in Folders, st \in {"running", "stopped"} :
              (last'[f] # None /\ WillSay(events', status'[last[f]], last[f], st))
              => WillSay(events, status[last[f]], last[f], st)
    PROVE  LastWillBeTrue'
BY DEF IInv, LastWillBeTrue

\* The row heard last about a folder will tell the truth about it, after every step.
LEMMA TruthHolds ==
    ASSUME IInv, [Next]_vars
    PROVE  LastWillBeTrue'
<1> USE DEF fleet, channel, history
<1> TypeOK
  BY DEF IInv
<1>0. /\ \A f \in Folders : last[f] # None => last[f] \in Devcontainers
      /\ {"running", "stopped"} \subseteq DevcontainerStatus
  BY DEF TypeOK, DevcontainerStatus
<1>1. ASSUME NEW d \in Devcontainers, StartDevcontainer(d) \/ StopDevcontainer(d)
      PROVE  LastWillBeTrue'
  BY <1>1, TruthStays DEF StartDevcontainer, StopDevcontainer, Dispatch
<1>2. ASSUME NEW d \in Devcontainers, DeleteDevcontainer(d)
      PROVE  LastWillBeTrue'
  <2>1. last' = last /\ container' = container
    BY <1>2 DEF DeleteDevcontainer
  <2> QED
    BY <1>0, <1>2, <2>1, DeleteSays, TruthStays
<1>3. ASSUME NEW d \in Devcontainers, AgentDies(d)
      PROVE  LastWillBeTrue'
  BY <1>3, TruthStays DEF AgentDies
<1>4. CASE TakeInEvent
  <2>1. last' = last /\ container' = container
    BY <1>4 DEF TakeInEvent
  <2> QED
    BY <1>0, <1>4, <2>1, TakeInSays, TruthStays
<1>5. CASE TakeCommand
  <2>1. Head(commands) \in Lifecycle
    BY <1>5 DEF TypeOK, TakeCommand
  <2>2. Head(commands).op \in Operation /\ Head(commands).dc \in Devcontainers
    BY <2>1 DEF Lifecycle
  <2>3. \A d \in Devcontainers, st \in {"running", "stopped"} :
            WillSay(events', status'[d], d, st) => WillSay(events, status[d], d, st)
    <3>1. PICK type \in DevcontainerEventTypes, e \in Devcontainers :
              /\ DevcontainerStatusAfter[type] \in {"starting", "stopping"}
              /\ Emit(type, e) /\ status' = status
      BY <1>5, <2>2, EventsOfCommands DEF TakeCommand
    <3> QED
      BY <3>1, EmitSays
  <2>4. last' = last /\ container' = container
    BY <1>5 DEF TakeCommand
  <2> QED
    BY <1>0, <2>3, <2>4, TruthStays
<1>6. CASE CommandSucceeds
  <2>1. work # None /\ work.dc \in Devcontainers /\ work.op \in Operation
        /\ FolderOf[work.dc] \in Folders
    BY <1>6, WorkIsTyped DEF CommandSucceeds
  <2>2. container' = [container EXCEPT ![FolderOf[work.dc]] = work.op = "start"]
    BY <1>6 DEF CommandSucceeds, Container
  <2>3. /\ container'[FolderOf[work.dc]] <=> work.op = "start"
        /\ \A f \in Folders \ {FolderOf[work.dc]} : container'[f] = container[f]
    BY <2>1, <2>2 DEF TypeOK
  <2> QED
    BY <1>6, <2>1, <2>3, EventsOfCommands, EndedCommandIsTrue DEF CommandSucceeds
<1>7. CASE CommandFails
  <2>1. work # None /\ work.dc \in Devcontainers /\ work.op \in Operation
        /\ FolderOf[work.dc] \in Folders
    BY <1>7, WorkIsTyped DEF CommandFails
  <2>2. \A f \in Folders \ {FolderOf[work.dc]} : container'[f] = container[f]
    BY <1>7, <2>1 DEF CommandFails, Container, TypeOK
  <2> QED
    BY <1>7, <2>1, <2>2, EventsOfCommands, EndedCommandIsTrue DEF CommandFails
<1>8. CASE CommandRaises
  BY <1>8, TruthStays DEF CommandRaises
<1>9. CASE LaunchAgent
  BY <1>9, TruthStays DEF LaunchAgent
<1>10. CASE WorkerConnects
  BY <1>10, TruthStays DEF WorkerConnects
<1>11. CASE WorkerDrops
  <2>1. ASSUME NEW f \in Folders, last'[f] # None, NEW st,
               WillSay(events', status'[last[f]], last[f], st)
        PROVE  WillSay(events, status[last[f]], last[f], st)
    <3>1. EventsAbout(last[f]) = {}
      BY <1>11, <2>1 DEF WorkerDrops
    <3>2. status[last[f]] = st
      BY <1>11, <2>1 DEF WorkerDrops, WillSay
    <3> QED
      BY <3>1, <3>2 DEF EventsAbout, WillSay
  <2>2. container' = container /\ \A f \in Folders : last'[f] \in {last[f], None}
    BY <1>11 DEF WorkerDrops
  <2> QED
    BY <2>1, <2>2, TruthStays
<1>12. ASSUME NEW c \in Work, AbandonedEnds(c)
       PROVE  LastWillBeTrue'
  <2>1. events' = events /\ status' = status
    BY <1>12 DEF AbandonedEnds
  <2>2. FolderOf[c.dc] \in Folders
    BY FoldersOfRows DEF Work
  <2>3. /\ \A f \in Folders : last'[f] \in {last[f], None}
        /\ \A f \in Folders : last'[f] # None => container'[f] = container[f]
    BY <1>12, <2>2 DEF AbandonedEnds, Undecided, Container, TypeOK
  <2> QED
    BY <2>1, <2>3, TruthStays
<1>13. ASSUME NEW f \in Folders, ContainerDies(f)
       PROVE  LastWillBeTrue'
  <2>1. events' = events /\ status' = status
    BY <1>13 DEF ContainerDies
  <2>2. /\ \A g \in Folders : last'[g] \in {last[g], None}
        /\ \A g \in Folders : last'[g] # None => container'[g] = container[g]
    BY <1>13 DEF ContainerDies, Undecided, Container, TypeOK
  <2> QED
    BY <2>1, <2>2, TruthStays
<1>14. CASE UNCHANGED vars
  BY <1>14, TruthStays DEF vars
<1> QED
  BY <1>1, <1>2, <1>3, <1>4, <1>5, <1>6, <1>7, <1>8, <1>9, <1>10, <1>11, <1>12, <1>13, <1>14
     DEF Next, WorkerStep

-----------------------------------------------------------------------------
\* The theorems.

\* The strengthened invariant holds in every reachable state.
THEOREM LifecycleInvariant == Spec => []IInv
<1>1. Init => IInv
  <2> SUFFICES ASSUME Init PROVE IInv
    OBVIOUS
  <2>1. TypeOK
    <3>1. 0 \in 0 .. MaxAgents
      BY LifecycleBounds
    <3>2. /\ "created" \in DevcontainerStatus
          /\ <<>> \in Seq(Lifecycle) /\ <<>> \in Seq(Event)
          /\ Len(<<>>) <= MaxInFlight
      BY LifecycleBounds DEF DevcontainerStatus
    <3> QED
      BY <3>1, <3>2 DEF Init, TypeOK
  <2>2. TransientIsAtWork
    BY DEF Init, TransientIsAtWork, WillSay
  <2>3. LastWillBeTrue
    BY DEF Init, LastWillBeTrue
  <2> QED
    BY <2>1, <2>2, <2>3 DEF IInv
<1>2. IInv /\ [Next]_vars => IInv'
  BY TypesHold, TransientHolds, TruthHolds DEF IInv
<1> QED
  BY <1>1, <1>2, PTL DEF Spec

\* The tables, the channel, the worker and the containers keep their types, and the
\* queues their bound, whatever users, the worker and the network do.
THEOREM LifecycleTypes == Spec => []TypeOK
<1>1. IInv => TypeOK
  BY DEF IInv
<1> QED
  BY <1>1, LifecycleInvariant, PTL

\* No row is left in `starting` or `stopping`, where neither route accepts a command,
\* with nothing on its way to end it, unless something about it was lost.
THEOREM NoRowIsStuck == Spec => []TransientMeansBusy
<1>1. IInv => TransientMeansBusy
  <2> SUFFICES ASSUME IInv, NEW d \in Devcontainers, Quiet(d), d \notin lost,
                      status[d] \in {"starting", "stopping"}
               PROVE  FALSE
    BY DEF TransientMeansBusy
  <2>1. WillSay(events, status[d], d, status[d])
    BY DEF Quiet, EventsAbout, WillSay
  <2> QED
    BY <2>1 DEF IInv, TransientIsAtWork, Quiet
<1> QED
  BY <1>1, LifecycleInvariant, PTL

\* The row heard last about a folder tells the truth about its container, with any
\* number of rows in the folder, commands in flight and commands abandoned.
THEOREM TheLastRowIsTrue == Spec => []StatusIsTrue
<1>1. IInv => StatusIsTrue
  <2> SUFFICES ASSUME IInv, NEW f \in Folders, last[f] # None, EventsAbout(last[f]) = {}
               PROVE  /\ status[last[f]] = "running" => container[f]
                      /\ status[last[f]] = "stopped" => ~container[f]
    BY DEF StatusIsTrue
  <2>1. WillSay(events, status[last[f]], last[f], status[last[f]])
    BY DEF EventsAbout, WillSay
  <2> QED
    BY <2>1 DEF IInv, LastWillBeTrue
<1> QED
  BY <1>1, LifecycleInvariant, PTL
=============================================================================
