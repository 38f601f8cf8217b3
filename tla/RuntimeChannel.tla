--------------------------- MODULE RuntimeChannel ---------------------------
(***************************************************************************)
(* The runtime channel under one registry key (the worker's slot, or the   *)
(* slot of one devcontainer's agent): the Control Plane's registry and its *)
(* `_serve` coroutines, the runtime processes that dial in and reconnect,  *)
(* and the transcript request/reply of ADR-0009 that shares the connection.*)
(*                                                                         *)
(* The two ends of a WebSocket do not learn of a drop together.  When a    *)
(* connection is severed each end still reads what had reached it (a       *)
(* prefix of what was sent) and only then notices.  What the other modules *)
(* assume of a channel is stated by OrderedDelivery, and shown here.       *)
(*                                                                         *)
(* Commands are numbered in the order they are sent; a handler emits one   *)
(* event, which carries the number of its command.  Time is abstract: a    *)
(* client that waits may dial at any moment, so back-off delays are not    *)
(* modelled, and any transcript request may time out.                      *)
(***************************************************************************)
EXTENDS Naturals, Sequences

CONSTANTS
    None,
    Clients,        \* runtime processes that dial in under this key
    Conns,          \* WebSocket connections, reused once both ends are done
    Requests,       \* transcript requests
    MaxCommands,    \* commands sent in a behaviour
    MaxFaults,      \* drops, crashes and restarts in a behaviour
    Exceptions      \* which exceptional paths of the client's coroutines occur

ASSUME NoneIsNobody == None \notin Clients \cup Conns \cup Requests \cup Nat
ASSUME BoundsAreNatural == MaxCommands \in Nat /\ MaxFaults \in Nat
ASSUME ExceptionsAreKnown ==
    Exceptions \subseteq {"handler_raises", "transcript_raises", "cancel_swallowed",
                          "response_too_long"}

VARIABLES
    slot,       \* ConnectionRegistry._connections[key]
    conn,       \* connection -> both ends' view of it and the messages in it
    client,     \* client -> [phase, conn]
    inflight,   \* transcript request -> [status, conn]: AgentRegistry._inflight
    sent,       \* commands sent so far
    taken,      \* command numbers of the events taken in, in order
    faults      \* faults so far

vars == <<slot, conn, client, inflight, sent, taken, faults>>

Numbers == 1 .. MaxCommands

ToServer == [type : {"runtime_registered"}] \cup [type : {"runtime_event"}, id : Numbers]
                \cup [type : {"transcript_response"}, id : Requests]
ToClient == [type : {"command"}, id : Numbers] \cup [type : {"transcript_request"}, id : Requests]

(***************************************************************************)
(* One connection:                                                         *)
(*   client    who dialled it; None once that client has left it           *)
(*   up        messages still get through                                  *)
(*   server    the `_serve` coroutine: none yet, accepted (not registered),*)
(*             registered, or ended                                        *)
(*   queue     the client's asyncio.Queue for this session                 *)
(*   consumer  the client's consumer task for this session: idle in        *)
(*             queue.get(), busy in a handler, cancelled inside a handler, *)
(*             dead of an exception, or done                               *)
(*   handling  the command the consumer is busy with                       *)
(***************************************************************************)
Connection ==
    [client : Clients \cup {None}, up : BOOLEAN,
     server : {"none", "accepted", "registered", "ended"},
     toServer : Seq(ToServer), toClient : Seq(ToClient), queue : Seq(Numbers),
     consumer : {"none", "idle", "busy", "cancelled", "dead", "done"},
     handling : Numbers \cup {None}]

Unused == [client |-> None, up |-> FALSE, server |-> "none", toServer |-> <<>>,
           toClient |-> <<>>, queue |-> <<>>, consumer |-> "none", handling |-> None]

\* One client's session, and one transcript request.
Session == [phase : {"waiting", "session", "closing"}, conn : Conns \cup {None}]
Request == [status : {"none", "waiting", "answered", "failed", "timed_out"},
            conn : Conns \cup {None}]

TypeOK ==
    /\ slot \in Conns \cup {None}
    /\ conn \in [Conns -> Connection]
    /\ client \in [Clients -> Session]
    /\ inflight \in [Requests -> Request]
    /\ sent \in 0 .. MaxCommands
    /\ taken \in Seq(Numbers)
    /\ faults \in 0 .. MaxFaults

Init ==
    /\ slot = None
    /\ conn = [k \in Conns |-> Unused]
    /\ client = [c \in Clients |-> [phase |-> "waiting", conn |-> None]]
    /\ inflight = [q \in Requests |-> [status |-> "none", conn |-> None]]
    /\ sent = 0
    /\ taken = <<>>
    /\ faults = 0

Fault == faults < MaxFaults /\ faults' = faults + 1

-----------------------------------------------------------------------------
\* The client: RuntimeChannelClient.

Waiting == [phase |-> "waiting", conn |-> None]

\* A session opens: dial, send the registration, start the consumer.
Connect(c, k) ==
    /\ client[c].phase = "waiting"
    /\ conn[k] = Unused
    /\ conn' = [conn EXCEPT ![k] =
                  [Unused EXCEPT !.client = c, !.up = TRUE, !.server = "accepted",
                                 !.toServer = <<[type |-> "runtime_registered"]>>,
                                 !.consumer = "idle"]]
    /\ client' = [client EXCEPT ![c] = [phase |-> "session", conn |-> k]]
    /\ UNCHANGED <<slot, inflight, sent, taken, faults>>

\* The receive loop raised: `finally` cancels the consumer.  One that waits for
\* a command is done at once, a dead one stays dead.
Cancelled(consumer) ==
    IF consumer = "idle" THEN "done" ELSE IF consumer = "busy" THEN "cancelled" ELSE consumer

Close(c) == client' = [client EXCEPT ![c].phase = "closing"]

ReceiveCommand(c) ==
    LET k == client[c].conn IN
    /\ client[c].phase = "session"
    /\ conn[k].toClient # <<>>
    /\ Head(conn[k].toClient).type = "command"
    /\ conn' = [conn EXCEPT ![k].toClient = Tail(@),
                            ![k].queue = Append(@, Head(conn[k].toClient).id)]
    /\ UNCHANGED <<slot, client, inflight, sent, taken, faults>>

\* Mutant: the reply does not carry the id of its request.
ReplyUncorrelated(c) ==
    LET k == client[c].conn IN
    /\ client[c].phase = "session"
    /\ conn[k].up
    /\ conn[k].toClient # <<>>
    /\ Head(conn[k].toClient).type = "transcript_request"
    /\ conn' = [conn EXCEPT ![k].toClient = Tail(@),
                            ![k].toServer = Append(@, [type |-> "transcript_response",
                                                       id |-> None])]
    /\ UNCHANGED <<slot, client, inflight, sent, taken, faults>>

\* A transcript request is answered inside the receive loop.
ReplyTranscript(c) ==
    LET k == client[c].conn IN
    /\ client[c].phase = "session"
    /\ conn[k].up
    /\ conn[k].toClient # <<>>
    /\ Head(conn[k].toClient).type = "transcript_request"
    /\ conn' = [conn EXCEPT ![k].toClient = Tail(@),
                            ![k].toServer = Append(@, [type |-> "transcript_response",
                                                       id |-> Head(conn[k].toClient).id])]
    /\ UNCHANGED <<slot, client, inflight, sent, taken, faults>>

\* The reply cannot be sent, or reading the transcript raises something other
\* than FileNotFoundError: the exception leaves the receive loop.
TranscriptRaises(c) ==
    LET k == client[c].conn IN
    /\ client[c].phase = "session"
    /\ conn[k].toClient # <<>>
    /\ Head(conn[k].toClient).type = "transcript_request"
    /\ ~conn[k].up \/ "transcript_raises" \in Exceptions
    /\ Close(c)
    /\ conn' = [conn EXCEPT ![k].toClient = Tail(@), ![k].consumer = Cancelled(@)]
    /\ UNCHANGED <<slot, inflight, sent, taken, faults>>

\* recv raises once everything that had arrived has been read.
ClientNotices(c) ==
    LET k == client[c].conn IN
    /\ client[c].phase = "session"
    /\ ~conn[k].up
    /\ conn[k].toClient = <<>>
    /\ Close(c)
    /\ conn' = [conn EXCEPT ![k].consumer = Cancelled(@)]
    /\ UNCHANGED <<slot, inflight, sent, taken, faults>>

\* What is left of k when its client leaves it: what it sent is still delivered.
LeftByClient(k) ==
    [conn[k] EXCEPT !.client = None, !.up = FALSE, !.toClient = <<>>, !.queue = <<>>,
                    !.consumer = "done", !.handling = None]

\* Mutant: the consumer is cancelled and not awaited.
SessionEndsEarly(c) ==
    LET k == client[c].conn IN
    /\ client[c].phase = "closing"
    /\ conn' = [conn EXCEPT ![k] = [LeftByClient(k) EXCEPT !.client = c,
                                                           !.consumer = conn[k].consumer,
                                                           !.handling = conn[k].handling]]
    /\ client' = [client EXCEPT ![c] = Waiting]
    /\ UNCHANGED <<slot, inflight, sent, taken, faults>>

\* `await consumer` returns: the session is over, its queue is dropped with it,
\* and `run` catches whatever was raised.
SessionEnds(c) ==
    LET k == client[c].conn IN
    /\ client[c].phase = "closing"
    /\ conn[k].consumer \in {"done", "dead"}
    /\ conn' = [conn EXCEPT ![k] = LeftByClient(k)]
    /\ client' = [client EXCEPT ![c] = Waiting]
    /\ UNCHANGED <<slot, inflight, sent, taken, faults>>

-----------------------------------------------------------------------------
\* The consumer of the session on k.

TakeCommand(k) ==
    /\ conn[k].consumer = "idle"
    /\ conn[k].queue # <<>>
    /\ conn' = [conn EXCEPT ![k].consumer = "busy", ![k].handling = Head(conn[k].queue),
                            ![k].queue = Tail(@)]
    /\ UNCHANGED <<slot, client, inflight, sent, taken, faults>>

\* The event of the command that k's consumer is busy with.
EventOf(k) == [type |-> "runtime_event", id |-> conn[k].handling]

\* Mutant: the consumer handles one command and ends.
HandlerReturnsForGood(k) ==
    /\ conn[k].consumer = "busy"
    /\ conn' = [conn EXCEPT ![k] =
                  IF conn[k].up
                  THEN [conn[k] EXCEPT !.handling = None, !.consumer = "dead",
                                       !.toServer = Append(@, EventOf(k))]
                  ELSE [conn[k] EXCEPT !.handling = None, !.consumer = "dead"]]
    /\ UNCHANGED <<slot, client, inflight, sent, taken, faults>>

\* The handler emits its event and returns; emit raises on a closed connection.
HandlerReturns(k) ==
    /\ conn[k].consumer = "busy"
    /\ conn' = [conn EXCEPT ![k] =
                  IF conn[k].up
                  THEN [conn[k] EXCEPT !.handling = None, !.consumer = "idle",
                                       !.toServer = Append(@, EventOf(k))]
                  ELSE [conn[k] EXCEPT !.handling = None, !.consumer = "dead"]]
    /\ UNCHANGED <<slot, client, inflight, sent, taken, faults>>

\* An exception out of a handler ends the consumer; the receive loop, which would
\* see it only in its `finally`, goes on.
HandlerRaises(k) ==
    /\ "handler_raises" \in Exceptions
    /\ conn[k].consumer = "busy"
    /\ conn' = [conn EXCEPT ![k].consumer = "dead", ![k].handling = None]
    /\ UNCHANGED <<slot, client, inflight, sent, taken, faults>>

\* The cancelled handler unwinds ...
CancelUnwinds(k) ==
    /\ conn[k].consumer = "cancelled"
    /\ conn' = [conn EXCEPT ![k].consumer = "done", ![k].handling = None]
    /\ UNCHANGED <<slot, client, inflight, sent, taken, faults>>

\* ... or is inside the stop handler's `except (CancelledError, Exception)`, which
\* swallows the cancellation: the handler and the consumer go on as before.
CancelSwallowed(k) ==
    /\ "cancel_swallowed" \in Exceptions
    /\ conn[k].consumer = "cancelled"
    /\ conn' = [conn EXCEPT ![k].consumer = "busy"]
    /\ UNCHANGED <<slot, client, inflight, sent, taken, faults>>

-----------------------------------------------------------------------------
\* The Control Plane.

\* Mutant: the slot is not released.
ReleasedNever(k) == slot

\* `finally: unregister()`: release the slot if it is this connection's, reject
\* every transcript request sent over it.
Released(k) == IF slot = k THEN None ELSE slot

\* Mutant: a drop leaves the futures of the connection alone.
RejectedNone(k) == inflight

Rejected(k) ==
    [q \in Requests |->
        IF inflight[q] = [status |-> "waiting", conn |-> k]
        THEN [inflight[q] EXCEPT !.status = "failed"] ELSE inflight[q]]

\* What is left of k when its `_serve` ends.
LeftByServer(k) == [conn[k] EXCEPT !.server = "ended", !.up = FALSE, !.toServer = <<>>]

\* The registration claims the slot if it is free.
AcceptRegistration(k) ==
    /\ conn[k].server = "accepted"
    /\ conn[k].toServer # <<>>
    /\ slot = None
    /\ slot' = k
    /\ conn' = [conn EXCEPT ![k].server = "registered", ![k].toServer = Tail(@)]
    /\ UNCHANGED <<client, inflight, sent, taken, faults>>

\* Mutant: the newest connection takes the slot over.
RegistrationTakesOver(k) ==
    /\ conn[k].server = "accepted"
    /\ conn[k].toServer # <<>>
    /\ slot # None
    /\ slot' = k
    /\ conn' = [conn EXCEPT ![k].server = "registered", ![k].toServer = Tail(@)]
    /\ UNCHANGED <<client, inflight, sent, taken, faults>>

\* Mutant: the rejected connection is unregistered by its key on the way out.
RejectionReleases(k) ==
    /\ conn[k].server = "accepted"
    /\ conn[k].toServer # <<>>
    /\ slot # None
    /\ slot' = None
    /\ conn' = [conn EXCEPT ![k] = LeftByServer(k)]
    /\ UNCHANGED <<client, inflight, sent, taken, faults>>

\* The slot is taken: _Reject closes the connection (4409).
RejectRegistration(k) ==
    /\ conn[k].server = "accepted"
    /\ conn[k].toServer # <<>>
    /\ slot # None
    /\ conn' = [conn EXCEPT ![k] = LeftByServer(k)]
    /\ UNCHANGED <<slot, client, inflight, sent, taken, faults>>

\* The receive loop of a registered connection reads an event or a response.  A
\* response to a request that is no longer waiting is ignored.
ServerReceives(k) ==
    LET m == Head(conn[k].toServer) IN
    /\ conn[k].server = "registered"
    /\ conn[k].toServer # <<>>
    /\ conn' = [conn EXCEPT ![k].toServer = Tail(@)]
    /\ taken' = IF m.type = "runtime_event" THEN Append(taken, m.id) ELSE taken
    /\ inflight' =
         [q \in Requests |->
            IF m.type = "transcript_response" /\ m.id = q /\ inflight[q].status = "waiting"
            THEN [inflight[q] EXCEPT !.status = "answered"] ELSE inflight[q]]
    /\ UNCHANGED <<slot, client, sent, faults>>

\* WebSocketDisconnect, once everything that had arrived has been read.
ServerNotices(k) ==
    /\ conn[k].server \in {"accepted", "registered"}
    /\ ~conn[k].up
    /\ conn[k].toServer = <<>>
    /\ conn' = [conn EXCEPT ![k] = LeftByServer(k)]
    /\ slot' = Released(k)
    /\ inflight' = Rejected(k)
    /\ UNCHANGED <<client, sent, taken, faults>>

\* A transcript longer than the WebSocket server takes closes the connection from
\* this end, with what was behind it.
ResponseTooLong(k) ==
    /\ "response_too_long" \in Exceptions
    /\ conn[k].server = "registered"
    /\ conn[k].toServer # <<>>
    /\ Head(conn[k].toServer).type = "transcript_response"
    /\ conn' = [conn EXCEPT ![k] = LeftByServer(k)]
    /\ slot' = Released(k)
    /\ inflight' = Rejected(k)
    /\ UNCHANGED <<client, sent, taken, faults>>

\* A message into the slot's connection; nothing comes of it if that is severed.
Deliver(k, m) == [conn EXCEPT ![k].toClient = IF conn[k].up THEN Append(@, m) ELSE @]

SendCommand ==
    /\ slot # None
    /\ sent < MaxCommands
    /\ sent' = sent + 1
    /\ conn' = Deliver(slot, [type |-> "command", id |-> sent'])
    /\ UNCHANGED <<slot, client, inflight, taken, faults>>

RequestTranscript(q) ==
    /\ slot # None
    /\ inflight[q].status = "none"
    /\ inflight' = [inflight EXCEPT ![q] = [status |-> "waiting", conn |-> slot]]
    /\ conn' = Deliver(slot, [type |-> "transcript_request", id |-> q])
    /\ UNCHANGED <<slot, client, sent, taken, faults>>

TranscriptTimesOut(q) ==
    /\ inflight[q].status = "waiting"
    /\ inflight' = [inflight EXCEPT ![q].status = "timed_out"]
    /\ UNCHANGED <<slot, conn, client, sent, taken, faults>>

\* A connection neither end holds any more can stand for a new one.
Recycle(k) ==
    /\ conn[k].server = "ended"
    /\ conn[k].client = None
    /\ conn' = [conn EXCEPT ![k] = Unused]
    /\ inflight' = [q \in Requests |->
                      IF inflight[q].conn = k THEN [inflight[q] EXCEPT !.conn = None]
                      ELSE inflight[q]]
    /\ UNCHANGED <<slot, client, sent, taken, faults>>

-----------------------------------------------------------------------------
\* What goes wrong outside the code.

\* The network loses a connection, with a suffix of what is in it each way.
Sever(k) ==
    /\ Fault
    /\ conn[k].up
    /\ \E i \in 0 .. Len(conn[k].toServer), j \in 0 .. Len(conn[k].toClient) :
          conn' = [conn EXCEPT ![k] = [conn[k] EXCEPT !.up = FALSE,
                                                      !.toServer = SubSeq(@, 1, i),
                                                      !.toClient = SubSeq(@, 1, j)]]
    /\ UNCHANGED <<slot, client, inflight, sent, taken>>

\* A runtime process dies and is started again, at any point of its session.
ClientRestarts(c) ==
    LET k == client[c].conn IN
    /\ Fault
    /\ client[c].phase # "waiting"
    /\ conn' = [conn EXCEPT ![k] = LeftByClient(k)]
    /\ client' = [client EXCEPT ![c] = Waiting]
    /\ UNCHANGED <<slot, inflight, sent, taken>>

\* The Control Plane is restarted: registry, futures and coroutines are gone.
ControlPlaneRestarts ==
    /\ Fault
    /\ slot' = None
    /\ conn' = [k \in Conns |-> IF conn[k] = Unused THEN Unused ELSE LeftByServer(k)]
    /\ inflight' = [q \in Requests |->
                      IF inflight[q].status = "waiting"
                      THEN [inflight[q] EXCEPT !.status = "failed"] ELSE inflight[q]]
    /\ UNCHANGED <<client, sent, taken>>

-----------------------------------------------------------------------------
ClientStep(c) ==
    \/ \E k \in Conns : Connect(c, k)
    \/ ReceiveCommand(c) \/ ReplyTranscript(c) \/ TranscriptRaises(c)
    \/ ClientNotices(c) \/ SessionEnds(c)

\* What the consumer does of its own accord; what it may do besides.
ConsumerStep(k) == TakeCommand(k) \/ HandlerReturns(k) \/ CancelUnwinds(k)
ConsumerException(k) == HandlerRaises(k) \/ CancelSwallowed(k)

ServerStep(k) ==
    \/ AcceptRegistration(k) \/ RejectRegistration(k)
    \/ ServerReceives(k) \/ ServerNotices(k) \/ Recycle(k)

Next ==
    \/ \E c \in Clients : ClientStep(c) \/ ClientRestarts(c)
    \/ \E k \in Conns : ConsumerStep(k) \/ ConsumerException(k) \/ ServerStep(k)
                        \/ ResponseTooLong(k) \/ Sever(k)
    \/ SendCommand
    \/ \E q \in Requests : RequestTranscript(q) \/ TranscriptTimesOut(q)
    \/ ControlPlaneRestarts

Spec == Init /\ [][Next]_vars

\* Both event loops keep running, a handler ends, and a client whose sleep is over
\* dials again.  Faults, exceptions, users and time-outs are under no obligation.
FairSpec ==
    /\ Spec
    /\ \A c \in Clients : WF_vars(ClientStep(c))
    /\ \A k \in Conns : WF_vars(ConsumerStep(k)) /\ WF_vars(ServerStep(k))

-----------------------------------------------------------------------------
\* Properties.

\* The slot names exactly the connection whose `_serve` is registered: it is never
\* stale, and a connection that lost it takes nothing in.  Registration, rejection,
\* drops of either end and restarts all write one side or the other.
SlotIsTheRegistered ==
    \A k \in Conns : conn[k].server = "registered" <=> slot = k

\* A runtime runs one handler at a time, whatever it has reconnected over: no
\* handler of an old session is still at work when the next one takes a command.
SerialHandling ==
    \A j, k \in Conns :
        (j # k /\ conn[j].client = conn[k].client /\ conn[j].client # None
            /\ conn[j].consumer \in {"busy", "cancelled"})
        => conn[k].consumer \notin {"busy", "cancelled"}

\* The commands in a sequence of messages to the client, the events in one to the
\* server, by their numbers; and what is in the connection r, by how far it got.
NumbersOf(messages, type) ==
    {messages[i].id : i \in {x \in DOMAIN messages : messages[x].type = type}}

Events(r)  == NumbersOf(r.toServer, "runtime_event")
Handled(r) == {r.handling} \ {None}
Queued(r)  == {r.queue[i] : i \in DOMAIN r.queue}
Coming(r)  == NumbersOf(r.toClient, "command")

\* The receive loop and the consumer of the session on k are both at work.
Works(k) ==
    /\ conn[k].up
    /\ client[conn[k].client].phase = "session"
    /\ conn[k].consumer \in {"idle", "busy"}

\* Commands sent over k that may still lead to an event: their events are on the
\* wire, or they are being handled, queued, or on the wire, with nobody missing who
\* would carry them on.
Pending(k) ==
    Events(conn[k]) \cup
    (IF conn[k].up /\ conn[k].consumer \notin {"done", "dead"}
     THEN Handled(conn[k]) \cup Queued(conn[k]) ELSE {}) \cup
    (IF Works(k) THEN Coming(conn[k]) ELSE {})

\* What the slot's holder still works on, and whether it has lost nothing.
Intact == slot # None /\ Works(slot)
InTransit == IF slot = None THEN {} ELSE Pending(slot)

Delivery == INSTANCE OrderedDelivery WITH
    held <- slot # None, intact <- Intact, pending <- InTransit

\* Whatever drops, crashes, raises or contends for the slot, the channel keeps its
\* contract: commands are handled in order and at most once, and the loss of one is
\* never noticed as a gap, because everything behind it on that connection is lost.
KeepsTheContract == Delivery!Spec

\* If an agent connection drops, every in-flight future for it is rejected
\* (ADR-0009): a request that waits has a registered connection to wait for.
NoHangingRequest ==
    \A q \in Requests : inflight[q].status = "waiting" =>
        inflight[q].conn # None /\ conn[inflight[q].conn].server = "registered"

\* Command n is queued for a handler, or being handled, over k.
OnItsWay(n, k) ==
    /\ conn[k].up
    /\ \/ \E i \in DOMAIN conn[k].toClient :
              conn[k].toClient[i].type = "command" /\ conn[k].toClient[i].id = n
       \/ \E i \in DOMAIN conn[k].queue : conn[k].queue[i] = n
       \/ conn[k].handling = n

\* The runtime processes the commands it receives (client.py): one sent over a
\* connection that stays up is handled.
ReceivedIsHandled ==
    \A n \in Numbers : \A k \in Conns : OnItsWay(n, k) ~> ~OnItsWay(n, k)

\* The runtime reconnects until stopped (client.py): once faults are over, the
\* slot is held, for good, by a connection that works.
Reconnects == <>[](slot # None /\ conn[slot].up)
=============================================================================
