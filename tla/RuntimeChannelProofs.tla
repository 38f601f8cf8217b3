------------------------ MODULE RuntimeChannelProofs ------------------------
(***************************************************************************)
(* The runtime channel for any number of runtimes, connections, commands,  *)
(* requests and faults: its invariants, and that it keeps the contract of  *)
(* OrderedDelivery.                                                        *)
(***************************************************************************)
EXTENDS RuntimeChannel, TLAPS

-----------------------------------------------------------------------------
\* The inductive invariant, part by part.

\* A client and the connection of its session name each other; a waiting client
\* has none.
Linked ==
    /\ \A c \in Clients :
          IF client[c].phase = "waiting" THEN client[c].conn = None
          ELSE client[c].conn \in Conns /\ conn[client[c].conn].client = c
    /\ \A k \in Conns : conn[k].client # None => client[conn[k].client].conn = k

\* What is left of a connection, by how far its two ends have gone.
EndsAgree(r) ==
    /\ r.server = "none" => r = Unused
    /\ r.up => r.client # None /\ r.server \in {"accepted", "registered"}
    /\ r.client = None => r.handling = None /\ r.consumer \in {"none", "done"}
    /\ r.server = "accepted" =>
          /\ r.toClient = <<>> /\ r.queue = <<>> /\ r.handling = None
          /\ Events(r) = {}

\* The consumer works on a command or waits for one, and is cancelled at the end of
\* the session only.
ConsumerAgrees(r) ==
    /\ r.handling # None <=> r.consumer \in {"busy", "cancelled"}
    /\ r.client # None /\ client[r.client].phase = "session" =>
          r.consumer \in {"idle", "busy", "dead"}

\* Commands pass through a connection in the order they were sent: the older a
\* command, the further it has got.
Ascending(messages, type) ==
    \A i, j \in DOMAIN messages :
        (i < j /\ messages[i].type = type /\ messages[j].type = type)
        => messages[i].id < messages[j].id

InSequence(queue) == \A i, j \in DOMAIN queue : i < j => queue[i] < queue[j]

Before(S, T) == \A m \in S, n \in T : m < n

Flows(r, last) ==
    /\ Ascending(r.toServer, "runtime_event")
    /\ InSequence(r.queue)
    /\ Ascending(r.toClient, "command")
    /\ Before(Events(r), Handled(r) \cup Queued(r) \cup Coming(r))
    /\ Before(Handled(r), Queued(r) \cup Coming(r))
    /\ Before(Queued(r), Coming(r))
    /\ \A n \in Events(r) \cup Handled(r) \cup Queued(r) \cup Coming(r) : n <= last

Orderly(k) ==
    /\ EndsAgree(conn[k])
    /\ ConsumerAgrees(conn[k])
    /\ Flows(conn[k], sent)

IInv ==
    /\ TypeOK
    /\ Linked
    /\ SlotIsTheRegistered
    /\ NoHangingRequest
    /\ \A k \in Conns : Orderly(k)

-----------------------------------------------------------------------------
\* Sequences of messages, and the numbers in them.

Members(queue) == {queue[i] : i \in DOMAIN queue}

\* There is nothing in an empty sequence.
LEMMA NumbersOfNothing ==
    ASSUME NEW type
    PROVE  NumbersOf(<<>>, type) = {} /\ Ascending(<<>>, type)
BY DEF NumbersOf, Ascending

\* Reading a sequence keeps to its elements.
LEMMA HeadIsElement ==
    ASSUME NEW S, NEW s \in Seq(S), s # <<>>
    PROVE  Head(s) \in S /\ Tail(s) \in Seq(S)
OBVIOUS

\* A message at the end adds its number, if it is of that type.
LEMMA NumbersOfAppend ==
    ASSUME NEW S, NEW s \in Seq(S), NEW m, NEW type
    PROVE  /\ m.type = type => NumbersOf(Append(s, m), type) = NumbersOf(s, type) \cup {m.id}
           /\ m.type # type => NumbersOf(Append(s, m), type) = NumbersOf(s, type)
<1>1. /\ DOMAIN s = 1 .. Len(s) /\ Len(s) \in Nat
      /\ DOMAIN Append(s, m) = 1 .. Len(s) + 1
      /\ \A i \in 1 .. Len(s) : Append(s, m)[i] = s[i]
      /\ Append(s, m)[Len(s) + 1] = m
  OBVIOUS
<1>2. \A i \in 1 .. Len(s) + 1 : i \in 1 .. Len(s) \/ i = Len(s) + 1
  BY <1>1
<1> QED
  BY <1>1, <1>2 DEF NumbersOf

\* Numbers still ascend with a greater one at the end.
LEMMA AscendingAppend ==
    ASSUME NEW S, NEW s \in Seq(S), NEW m, NEW type, Ascending(s, type),
           m.type = type => \A n \in NumbersOf(s, type) : n < m.id
    PROVE  Ascending(Append(s, m), type)
<1>1. /\ DOMAIN s = 1 .. Len(s) /\ Len(s) \in Nat
      /\ DOMAIN Append(s, m) = 1 .. Len(s) + 1
      /\ \A i \in 1 .. Len(s) : Append(s, m)[i] = s[i]
      /\ Append(s, m)[Len(s) + 1] = m
  OBVIOUS
<1>2. \A i \in 1 .. Len(s) + 1 : i \in 1 .. Len(s) \/ i = Len(s) + 1
  BY <1>1
<1>3. \A i \in 1 .. Len(s) : s[i].type = type => s[i].id \in NumbersOf(s, type)
  BY <1>1 DEF NumbersOf
<1>4. ASSUME NEW i \in 1 .. Len(s) + 1, NEW j \in 1 .. Len(s) + 1, i < j
      PROVE  i \in 1 .. Len(s)
  BY <1>1, <1>4
<1> QED
  BY <1>1, <1>2, <1>3, <1>4 DEF Ascending

\* Reading a message takes its number, the least of its type.
LEMMA NumbersOfTail ==
    ASSUME NEW S, NEW s \in Seq(S), s # <<>>, NEW type
    PROVE  /\ Head(s).type = type =>
                NumbersOf(s, type) = NumbersOf(Tail(s), type) \cup {Head(s).id}
           /\ Head(s).type # type => NumbersOf(s, type) = NumbersOf(Tail(s), type)
           /\ Ascending(s, type) =>
                /\ Ascending(Tail(s), type)
                /\ Head(s).type = type => \A n \in NumbersOf(Tail(s), type) : Head(s).id < n
<1>1. /\ Len(s) \in Nat /\ Len(s) >= 1 /\ DOMAIN s = 1 .. Len(s)
      /\ DOMAIN Tail(s) = 1 .. Len(s) - 1
      /\ \A i \in 1 .. Len(s) - 1 : Tail(s)[i] = s[i + 1] /\ i + 1 \in 1 .. Len(s)
      /\ Head(s) = s[1] /\ 1 \in 1 .. Len(s)
  OBVIOUS
<1>2. \A i \in 1 .. Len(s) : i = 1 \/ (i - 1 \in 1 .. Len(s) - 1 /\ s[i] = Tail(s)[i - 1])
  BY <1>1
<1>3. ASSUME NEW n \in NumbersOf(s, type)
      PROVE  n \in NumbersOf(Tail(s), type) \cup (IF Head(s).type = type THEN {Head(s).id} ELSE {})
  <2>1. PICK i \in 1 .. Len(s) : s[i].type = type /\ s[i].id = n
    BY <1>1 DEF NumbersOf
  <2>2. CASE i = 1
    BY <1>1, <2>1, <2>2
  <2>3. CASE i # 1
    BY <1>1, <1>2, <2>1, <2>3 DEF NumbersOf
  <2> QED
    BY <2>2, <2>3
<1>4. NumbersOf(Tail(s), type) \cup (IF Head(s).type = type THEN {Head(s).id} ELSE {})
        \subseteq NumbersOf(s, type)
  BY <1>1 DEF NumbersOf
<1>5. ASSUME Ascending(s, type)
      PROVE  Ascending(Tail(s), type)
  <2>1. \A i, j \in 1 .. Len(s) - 1 : i < j => i + 1 < j + 1
    OBVIOUS
  <2> QED
    BY <1>1, <1>5, <2>1 DEF Ascending
<1>6. ASSUME Ascending(s, type), Head(s).type = type, NEW n \in NumbersOf(Tail(s), type)
      PROVE  Head(s).id < n
  <2>1. PICK i \in 1 .. Len(s) - 1 : Tail(s)[i].type = type /\ Tail(s)[i].id = n
    BY <1>1 DEF NumbersOf
  <2>2. 1 < i + 1
    BY <2>1
  <2> QED
    BY <1>1, <1>6, <2>1, <2>2 DEF Ascending
<1> QED
  BY <1>3, <1>4, <1>5, <1>6

\* A prefix has the least of the numbers.
LEMMA NumbersOfPrefix ==
    ASSUME NEW S, NEW s \in Seq(S), NEW e \in 0 .. Len(s), NEW type
    PROVE  /\ SubSeq(s, 1, e) \in Seq(S)
           /\ NumbersOf(SubSeq(s, 1, e), type) \subseteq NumbersOf(s, type)
           /\ Ascending(s, type) =>
                /\ Ascending(SubSeq(s, 1, e), type)
                /\ \A m \in NumbersOf(SubSeq(s, 1, e), type),
                      n \in NumbersOf(s, type) \ NumbersOf(SubSeq(s, 1, e), type) : m < n
<1>1. /\ Len(s) \in Nat /\ DOMAIN s = 1 .. Len(s) /\ e \in Nat
      /\ DOMAIN SubSeq(s, 1, e) = 1 .. e
      /\ \A i \in 1 .. e : SubSeq(s, 1, e)[i] = s[i] /\ i \in 1 .. Len(s)
      /\ SubSeq(s, 1, e) \in Seq(S)
  OBVIOUS
<1>2. NumbersOf(SubSeq(s, 1, e), type) \subseteq NumbersOf(s, type)
  BY <1>1 DEF NumbersOf
<1>3. Ascending(s, type) => Ascending(SubSeq(s, 1, e), type)
  BY <1>1 DEF Ascending
<1>4. ASSUME Ascending(s, type), NEW m \in NumbersOf(SubSeq(s, 1, e), type),
             NEW n \in NumbersOf(s, type) \ NumbersOf(SubSeq(s, 1, e), type)
      PROVE  m < n
  <2>1. PICK i \in 1 .. e : s[i].type = type /\ s[i].id = m
    BY <1>1 DEF NumbersOf
  <2>2. PICK j \in 1 .. Len(s) : s[j].type = type /\ s[j].id = n
    BY <1>1 DEF NumbersOf
  <2>3. j \notin 1 .. e
    BY <1>1, <2>2 DEF NumbersOf
  <2>4. i < j /\ i \in DOMAIN s
    BY <1>1, <2>3
  <2> QED
    BY <1>1, <1>4, <2>1, <2>2, <2>4 DEF Ascending
<1> QED
  BY <1>1, <1>2, <1>3, <1>4

\* A number at the end of a queue is a member of it.
LEMMA MembersAppend ==
    ASSUME NEW S, NEW s \in Seq(S), NEW m
    PROVE  Members(Append(s, m)) = Members(s) \cup {m}
<1>1. /\ DOMAIN s = 1 .. Len(s) /\ Len(s) \in Nat
      /\ DOMAIN Append(s, m) = 1 .. Len(s) + 1
      /\ \A i \in 1 .. Len(s) : Append(s, m)[i] = s[i]
      /\ Append(s, m)[Len(s) + 1] = m
  OBVIOUS
<1>2. \A i \in 1 .. Len(s) + 1 : i \in 1 .. Len(s) \/ i = Len(s) + 1
  BY <1>1
<1> QED
  BY <1>1, <1>2 DEF Members

\* A queue stays in sequence with a greater number at its end.
LEMMA InSequenceAppend ==
    ASSUME NEW S, NEW s \in Seq(S), NEW m, InSequence(s), \A n \in Members(s) : n < m
    PROVE  InSequence(Append(s, m))
<1>1. /\ DOMAIN s = 1 .. Len(s) /\ Len(s) \in Nat
      /\ DOMAIN Append(s, m) = 1 .. Len(s) + 1
      /\ \A i \in 1 .. Len(s) : Append(s, m)[i] = s[i]
      /\ Append(s, m)[Len(s) + 1] = m
  OBVIOUS
<1>2. \A i \in 1 .. Len(s) + 1 : i \in 1 .. Len(s) \/ i = Len(s) + 1
  BY <1>1
<1>3. \A i \in 1 .. Len(s) : s[i] < m
  BY <1>1 DEF Members
<1>4. ASSUME NEW i \in 1 .. Len(s) + 1, NEW j \in 1 .. Len(s) + 1, i < j
      PROVE  i \in 1 .. Len(s)
  BY <1>1, <1>4
<1> QED
  BY <1>1, <1>2, <1>3, <1>4 DEF InSequence

\* The head of a queue in sequence is its least member.
LEMMA MembersTail ==
    ASSUME NEW S, NEW s \in Seq(S), s # <<>>
    PROVE  /\ Members(s) = Members(Tail(s)) \cup {Head(s)}
           /\ InSequence(s) => InSequence(Tail(s)) /\ \A n \in Members(Tail(s)) : Head(s) < n
<1>1. /\ Len(s) \in Nat /\ Len(s) >= 1 /\ DOMAIN s = 1 .. Len(s)
      /\ DOMAIN Tail(s) = 1 .. Len(s) - 1
      /\ \A i \in 1 .. Len(s) - 1 : Tail(s)[i] = s[i + 1] /\ i + 1 \in 1 .. Len(s)
      /\ Head(s) = s[1] /\ 1 \in 1 .. Len(s)
  OBVIOUS
<1>2. \A i \in 1 .. Len(s) : i = 1 \/ (i - 1 \in 1 .. Len(s) - 1 /\ s[i] = Tail(s)[i - 1])
  BY <1>1
<1>3. Members(s) = Members(Tail(s)) \cup {Head(s)}
  <2>1. ASSUME NEW n \in Members(s)
        PROVE  n \in Members(Tail(s)) \cup {Head(s)}
    <3>1. PICK i \in 1 .. Len(s) : s[i] = n
      BY <1>1 DEF Members
    <3>2. i # 1 => n \in Members(Tail(s))
      BY <1>1, <1>2, <3>1 DEF Members
    <3> QED
      BY <1>1, <3>1, <3>2
  <2>2. Members(Tail(s)) \cup {Head(s)} \subseteq Members(s)
    BY <1>1 DEF Members
  <2> QED
    BY <2>1, <2>2
<1>4. \A i, j \in 1 .. Len(s) - 1 : i < j => i + 1 < j + 1
  OBVIOUS
<1>5. InSequence(s) => InSequence(Tail(s))
  BY <1>1, <1>4 DEF InSequence
<1>6. ASSUME InSequence(s), NEW n \in Members(Tail(s))
      PROVE  Head(s) < n
  <2>1. PICK i \in 1 .. Len(s) - 1 : Tail(s)[i] = n
    BY <1>1 DEF Members
  <2>2. 1 < i + 1
    BY <2>1
  <2> QED
    BY <1>1, <1>6, <2>1, <2>2 DEF InSequence
<1> QED
  BY <1>3, <1>5, <1>6

-----------------------------------------------------------------------------
\* One connection.

\* The fields of a connection have their types.
LEMMA Fields ==
    ASSUME NEW r \in Connection
    PROVE  /\ r.client \in Clients \cup {None} /\ r.up \in BOOLEAN
           /\ r.server \in {"none", "accepted", "registered", "ended"}
           /\ r.toServer \in Seq(ToServer) /\ r.toClient \in Seq(ToClient)
           /\ r.queue \in Seq(Numbers)
           /\ r.consumer \in {"none", "idle", "busy", "cancelled", "dead", "done"}
           /\ r.handling \in Numbers \cup {None}
BY DEF Connection

\* Everything in a connection is a command number.
LEMMA InTransitAreNumbers ==
    ASSUME NEW r \in Connection
    PROVE  /\ Events(r) \subseteq Numbers /\ Handled(r) \subseteq Numbers
           /\ Queued(r) \subseteq Numbers /\ Coming(r) \subseteq Numbers
           /\ Numbers \subseteq Nat
<1>1. \A i \in DOMAIN r.toServer : r.toServer[i] \in ToServer
  BY Fields
<1>2. Events(r) \subseteq Numbers
  BY <1>1 DEF Events, NumbersOf, ToServer
<1>3. \A i \in DOMAIN r.toClient : r.toClient[i] \in ToClient
  BY Fields
<1>4. Coming(r) \subseteq Numbers
  BY <1>3 DEF Coming, NumbersOf, ToClient
<1>5. \A i \in DOMAIN r.queue : r.queue[i] \in Numbers
  BY Fields
<1> QED
  BY <1>2, <1>4, <1>5, Fields, BoundsAreNatural DEF Queued, Handled, Numbers

\* Nothing is in an unused connection.
LEMMA UnusedIsEmpty ==
    /\ Unused \in Connection
    /\ Unused.client = None /\ Unused.up = FALSE /\ Unused.server = "none"
    /\ Unused.toServer = <<>> /\ Unused.toClient = <<>> /\ Unused.queue = <<>>
    /\ Unused.consumer = "none" /\ Unused.handling = None
BY DEF Unused, Connection

\* A connection that only loses messages, or hands them on to nobody, still passes
\* commands in order.
LEMMA FlowsOn ==
    ASSUME NEW p \in Connection, NEW r \in Connection, Flows(p, sent), sent \in Nat,
           NEW last \in Nat, sent <= last,
           Ascending(r.toServer, "runtime_event"), InSequence(r.queue),
           Ascending(r.toClient, "command"),
           Events(r) \subseteq Events(p), Handled(r) \subseteq Handled(p),
           Queued(r) \subseteq Queued(p), Coming(r) \subseteq Coming(p)
    PROVE  Flows(r, last)
<1>1. \A n \in Events(r) \cup Handled(r) \cup Queued(r) \cup Coming(r) : n \in Nat /\ n <= last
  BY InTransitAreNumbers DEF Flows
<1> QED
  BY <1>1 DEF Flows, Before

\* An empty connection does.
LEMMA EmptyFlows ==
    ASSUME NEW r, NEW last, r.toClient = <<>>, r.queue = <<>>, r.handling = None,
           Ascending(r.toServer, "runtime_event"), Events(r) = {}
    PROVE  Flows(r, last)
<1>1. Handled(r) = {} /\ Queued(r) = {} /\ Coming(r) = {} /\ Ascending(r.toClient, "command")
  BY NumbersOfNothing DEF Handled, Queued, Coming
<1>2. InSequence(r.queue)
  BY DEF InSequence
<1> QED
  BY <1>1, <1>2 DEF Flows, Before

\* Reading a message takes its command, if it is one, off the wire: the oldest.
LEMMA ComingOfTail ==
    ASSUME NEW p \in Connection, NEW r, p.toClient # <<>>, r.toClient = Tail(p.toClient),
           Ascending(p.toClient, "command")
    PROVE  /\ Ascending(r.toClient, "command")
           /\ Head(p.toClient).type # "command" => Coming(r) = Coming(p)
           /\ Head(p.toClient).type = "command" =>
                 /\ Coming(p) = Coming(r) \cup {Head(p.toClient).id}
                 /\ \A n \in Coming(r) : Head(p.toClient).id < n
<1>1. p.toClient \in Seq(ToClient)
  BY Fields
<1>2. Ascending(Tail(p.toClient), "command")
  BY <1>1, NumbersOfTail
<1>3. CASE Head(p.toClient).type # "command"
  <2>1. NumbersOf(p.toClient, "command") = NumbersOf(Tail(p.toClient), "command")
    BY <1>1, <1>3, NumbersOfTail
  <2> QED
    BY <1>2, <1>3, <2>1 DEF Coming
<1>4. CASE Head(p.toClient).type = "command"
  <2>1. /\ NumbersOf(p.toClient, "command")
             = NumbersOf(Tail(p.toClient), "command") \cup {Head(p.toClient).id}
        /\ \A n \in NumbersOf(Tail(p.toClient), "command") : Head(p.toClient).id < n
    BY <1>1, <1>4, NumbersOfTail
  <2> QED
    BY <1>2, <1>4, <2>1 DEF Coming
<1> QED
  BY <1>3, <1>4

-----------------------------------------------------------------------------
\* Steps that write one connection.

\* The step writes k, and no other connection.
OnlyAt(k) ==
    /\ k \in Conns
    /\ conn' \in [Conns -> Connection]
    /\ \A j \in Conns \ {k} : conn'[j] = conn[j]

\* Writing a record at k writes no other connection.
LEMMA OneWritten ==
    ASSUME NEW k \in Conns, NEW r \in Connection, conn \in [Conns -> Connection],
           conn' = [conn EXCEPT ![k] = r]
    PROVE  OnlyAt(k) /\ conn'[k] = r
BY DEF OnlyAt

\* What the invariant says of conn as a function.
LEMMA ConnectionsAreTyped == IInv => conn \in [Conns -> Connection]
BY DEF IInv, TypeOK

\* The client of a session and its connection.
LEMMA InSession ==
    ASSUME IInv, NEW c \in Clients, client[c].phase # "waiting"
    PROVE  /\ client[c].conn \in Conns
           /\ conn[client[c].conn] \in Connection
           /\ conn[client[c].conn].client = c
BY DEF IInv, TypeOK, Linked

\* What a step that writes k must establish, besides what is about k itself: the
\* other connections are as orderly as before.
LEMMA OneConnection ==
    ASSUME IInv, NEW k, OnlyAt(k), TypeOK', Linked', SlotIsTheRegistered', NoHangingRequest',
           \A d \in Clients : client'[d] = client[d] \/ client[d].conn \in {k, None},
           sent' \in Nat, sent <= sent',
           EndsAgree(conn'[k]), ConsumerAgrees(conn[k])', Flows(conn'[k], sent')
    PROVE  IInv'
<1>1. ASSUME NEW j \in Conns, j # k
      PROVE  Orderly(j)'
  <2>1. conn'[j] = conn[j] /\ conn[j] \in Connection /\ sent \in Nat
    BY <1>1 DEF OnlyAt, IInv, TypeOK
  <2>2. EndsAgree(conn'[j]) /\ ConsumerAgrees(conn[j]) /\ Flows(conn[j], sent)
    BY <1>1, <2>1 DEF IInv, Orderly
  <2>3. ConsumerAgrees(conn[j])'
    <3>1. conn[j].client \in Clients \cup {None}
      BY <2>1, Fields
    <3>2. conn[j].client # None => client[conn[j].client].conn = j
      BY <1>1 DEF IInv, Linked
    <3>3. conn[j].client # None => client'[conn[j].client] = client[conn[j].client]
      BY <1>1, <3>1, <3>2, NoneIsNobody
    <3> QED
      BY <2>1, <2>2, <3>1, <3>3 DEF ConsumerAgrees
  <2>4. Flows(conn'[j], sent')
    BY <2>1, <2>2, FlowsOn DEF Flows
  <2> QED
    BY <2>2, <2>3, <2>4 DEF Orderly
<1>2. Orderly(k)'
  BY DEF Orderly
<1> QED
  BY <1>1, <1>2 DEF IInv

\* Commands are counted.
LEMMA SentIsNatural ==
    ASSUME IInv
    PROVE  sent \in Nat
BY BoundsAreNatural DEF IInv, TypeOK

\* A step that leaves the clients and the client's end of k alone.
LEMMA StaysLinked ==
    ASSUME IInv, NEW k, OnlyAt(k), conn'[k].client = conn[k].client, UNCHANGED client
    PROVE  Linked' /\ \A d \in Clients : client'[d] = client[d]
BY DEF IInv, Linked, OnlyAt

\* A step that leaves the registry and the server's end of k alone.
LEMMA StaysRegistered ==
    ASSUME IInv, NEW k, OnlyAt(k), conn'[k].server = conn[k].server, UNCHANGED <<slot, inflight>>
    PROVE  SlotIsTheRegistered' /\ NoHangingRequest'
<1>1. \A j \in Conns : conn'[j].server = conn[j].server
  BY DEF OnlyAt
<1> QED
  BY <1>1 DEF IInv, TypeOK, SlotIsTheRegistered, NoHangingRequest, Request

-----------------------------------------------------------------------------
\* The client's steps: what each does to its connection, and that it keeps the
\* invariant.

\* Dialling keeps the invariant.
LEMMA ConnectKeeps ==
    ASSUME IInv, NEW c \in Clients, NEW k \in Conns, Connect(c, k)
    PROVE  IInv'
<1> DEFINE r == [Unused EXCEPT !.client = c, !.up = TRUE, !.server = "accepted",
                               !.toServer = <<[type |-> "runtime_registered"]>>,
                               !.consumer = "idle"]
<1>1. /\ r \in Connection /\ r.client = c /\ r.up /\ r.server = "accepted"
      /\ r.toServer = <<[type |-> "runtime_registered"]>> /\ r.toClient = <<>>
      /\ r.queue = <<>> /\ r.consumer = "idle" /\ r.handling = None
  <2>1. [type |-> "runtime_registered"] \in ToServer
    BY DEF ToServer
  <2>2. <<[type |-> "runtime_registered"]>> \in Seq(ToServer)
    BY <2>1
  <2> QED
    BY <2>2, UnusedIsEmpty DEF Connection
<1>2. OnlyAt(k) /\ conn'[k] = r
  BY <1>1, OneWritten, ConnectionsAreTyped DEF Connect
<1>3. conn[k].client = None /\ conn[k].server = "none" /\ client[c].phase = "waiting"
  BY UnusedIsEmpty DEF Connect
<1>4. /\ client' = [client EXCEPT ![c] = [phase |-> "session", conn |-> k]]
      /\ UNCHANGED <<slot, inflight, sent, taken, faults>>
  BY DEF Connect
<1> HIDE DEF r
<1>5. TypeOK'
  BY <1>2, <1>4 DEF IInv, TypeOK, OnlyAt, Session
<1>6. Linked'
  BY <1>1, <1>2, <1>3, <1>4, NoneIsNobody DEF IInv, Linked, TypeOK, OnlyAt, Session
<1>7. SlotIsTheRegistered' /\ NoHangingRequest'
  <2>1. \A j \in Conns : conn'[j].server = "registered" <=> conn[j].server = "registered"
    BY <1>1, <1>2, <1>3 DEF OnlyAt
  <2>2. \A q \in Requests : inflight[q].conn \in Conns \cup {None}
    BY DEF IInv, TypeOK, Request
  <2> QED
    BY <1>4, <2>1, <2>2 DEF IInv, SlotIsTheRegistered, NoHangingRequest
<1>8. Events(r) = {} /\ Ascending(r.toServer, "runtime_event")
  BY <1>1 DEF Events, NumbersOf, Ascending
<1>9. EndsAgree(conn'[k]) /\ ConsumerAgrees(conn[k])'
  BY <1>1, <1>2, <1>4, <1>8, NoneIsNobody DEF EndsAgree, ConsumerAgrees, IInv, TypeOK
<1>10. Flows(conn'[k], sent')
  BY <1>1, <1>2, <1>8, EmptyFlows
<1>11. \A d \in Clients : client'[d] = client[d] \/ client[d].conn \in {k, None}
  BY <1>3, <1>4 DEF IInv, TypeOK, Linked
<1> QED
  BY <1>2, <1>4, <1>5, <1>6, <1>7, <1>9, <1>10, <1>11, OneConnection, SentIsNatural

\* The receive loop moves the oldest command on the wire to the end of the queue.
LEMMA ReceiveCommandDoes ==
    ASSUME IInv, NEW c \in Clients, ReceiveCommand(c),
           NEW k, k = client[c].conn, NEW p, p = conn[k], NEW r, r = conn'[k]
    PROVE  /\ OnlyAt(k) /\ p \in Connection /\ r \in Connection /\ p.client = c
           /\ r.client = p.client /\ r.up = p.up /\ r.server = p.server
           /\ r.toServer = p.toServer /\ r.consumer = p.consumer /\ r.handling = p.handling
           /\ p.toClient # <<>> /\ r.toClient = Tail(p.toClient)
           /\ Queued(r) = Queued(p) \cup {Head(p.toClient).id}
           /\ Coming(p) = Coming(r) \cup {Head(p.toClient).id}
           /\ Flows(r, sent)
<1> DEFINE m == Head(p.toClient)
<1> DEFINE s == [p EXCEPT !.toClient = Tail(@), !.queue = Append(@, m.id)]
<1>1. k \in Conns /\ p \in Connection /\ p.client = c
  BY InSession DEF ReceiveCommand
<1>2. p.toClient # <<>> /\ m.type = "command"
  BY DEF ReceiveCommand
<1>3. m \in ToClient /\ Tail(p.toClient) \in Seq(ToClient)
  BY <1>1, <1>2, Fields, HeadIsElement
<1>4. m.id \in Numbers
  BY <1>2, <1>3 DEF ToClient
<1>5. Append(p.queue, m.id) \in Seq(Numbers)
  BY <1>1, <1>4, Fields
<1> HIDE DEF m
<1>6. /\ s \in Connection
      /\ s.client = p.client /\ s.up = p.up /\ s.server = p.server
      /\ s.toServer = p.toServer /\ s.consumer = p.consumer /\ s.handling = p.handling
      /\ s.toClient = Tail(p.toClient) /\ s.queue = Append(p.queue, m.id)
  BY <1>1, <1>3, <1>5 DEF Connection
<1>7. conn' = [conn EXCEPT ![k] = s]
  BY DEF ReceiveCommand, m
<1> HIDE DEF s
<1>8. OnlyAt(k) /\ r = s
  BY <1>1, <1>6, <1>7, OneWritten, ConnectionsAreTyped
<1>9. Flows(p, sent)
  BY <1>1 DEF IInv, Orderly
<1>10. Queued(r) = Queued(p) \cup {m.id}
  <2>1. p.queue \in Seq(Numbers) /\ r.queue = Append(p.queue, m.id)
    BY <1>1, <1>6, <1>8, Fields
  <2>2. Members(r.queue) = Members(p.queue) \cup {m.id}
    BY <2>1, MembersAppend
  <2> QED
    BY <2>2 DEF Queued, Members
<1>11. /\ Coming(p) = Coming(r) \cup {m.id}
       /\ Ascending(r.toClient, "command") /\ \A n \in Coming(r) : m.id < n
  <2>1. Ascending(p.toClient, "command")
    BY <1>9 DEF Flows
  <2>2. /\ p.toClient # <<>> /\ r.toClient = Tail(p.toClient)
        /\ Head(p.toClient).type = "command" /\ Head(p.toClient).id = m.id
    BY <1>2, <1>6, <1>8 DEF m
  <2>3. /\ Coming(p) = Coming(r) \cup {Head(p.toClient).id}
        /\ Ascending(r.toClient, "command")
        /\ \A n \in Coming(r) : Head(p.toClient).id < n
    BY <1>1, <2>1, <2>2, ComingOfTail
  <2> QED
    BY <2>2, <2>3
<1>12. InSequence(r.queue)
  <2>1. Before(Queued(p), Coming(p)) /\ InSequence(p.queue)
    BY <1>9 DEF Flows
  <2>2. \A n \in Members(p.queue) : n < m.id
    BY <1>11, <2>1 DEF Before, Queued, Members
  <2>3. p.queue \in Seq(Numbers) /\ r.queue = Append(p.queue, m.id)
    BY <1>1, <1>6, <1>8, Fields
  <2> QED
    BY <2>1, <2>2, <2>3, InSequenceAppend
<1>13. Flows(r, sent)
  <2>1. Events(r) = Events(p) /\ Handled(r) = Handled(p) /\ Ascending(r.toServer, "runtime_event")
    <3>1. /\ r.toServer = p.toServer /\ r.consumer = p.consumer
          /\ r.handling = p.handling
      BY <1>6, <1>8
    <3>2. Ascending(p.toServer, "runtime_event")
      BY <1>9 DEF Flows
    <3> QED
      BY <3>1, <3>2 DEF Events, Handled
  <2>2. Queued(r) \cup Coming(r) = Queued(p) \cup Coming(p)
    BY <1>10, <1>11
  <2>3. Before(Queued(r), Coming(r))
    BY <1>9, <1>10, <1>11 DEF Flows, Before
  <2>4. /\ Before(Events(r), Handled(r) \cup Queued(r) \cup Coming(r))
        /\ Before(Handled(r), Queued(r) \cup Coming(r))
        /\ \A n \in Events(r) \cup Handled(r) \cup Queued(r) \cup Coming(r) : n <= sent
    BY <1>9, <2>1, <2>2 DEF Flows, Before
  <2> QED
    BY <1>11, <1>12, <2>1, <2>3, <2>4 DEF Flows
<1> QED
  BY <1>1, <1>2, <1>6, <1>8, <1>10, <1>11, <1>13 DEF m

\* Receiving a command keeps the invariant.
LEMMA ReceiveCommandKeeps ==
    ASSUME IInv, NEW c \in Clients, NEW k, k = client[c].conn, ReceiveCommand(c)
    PROVE  IInv'
<1>1. UNCHANGED <<slot, client, inflight, sent, taken, faults>>
  BY DEF ReceiveCommand
<1>2. /\ OnlyAt(k) /\ conn[k] \in Connection /\ conn[k].client = c
      /\ conn'[k].client = conn[k].client /\ conn'[k].up = conn[k].up
      /\ conn'[k].server = conn[k].server /\ conn'[k].consumer = conn[k].consumer
      /\ conn'[k].handling = conn[k].handling /\ conn[k].toClient # <<>>
      /\ Flows(conn'[k], sent)
  BY ReceiveCommandDoes
<1>3. EndsAgree(conn[k]) /\ ConsumerAgrees(conn[k])
  BY <1>2 DEF IInv, Orderly, OnlyAt
<1>4. conn[k].server \notin {"none", "accepted"}
  BY <1>2, <1>3, UnusedIsEmpty DEF EndsAgree
<1>5. EndsAgree(conn'[k])
  BY <1>2, <1>3, <1>4 DEF EndsAgree
<1>6. ConsumerAgrees(conn[k])'
  BY <1>1, <1>2, <1>3 DEF ConsumerAgrees
<1>7. TypeOK'
  BY <1>1, <1>2 DEF IInv, TypeOK, OnlyAt
<1> QED
  BY <1>1, <1>2, <1>5, <1>6, <1>7, StaysLinked, StaysRegistered, OneConnection, SentIsNatural

\* A reply to a transcript request moves no command and no event.
LEMMA ReplyTranscriptDoes ==
    ASSUME IInv, NEW c \in Clients, ReplyTranscript(c),
           NEW k, k = client[c].conn, NEW p, p = conn[k], NEW r, r = conn'[k]
    PROVE  /\ OnlyAt(k) /\ p \in Connection /\ r \in Connection /\ p.client = c
           /\ r.client = p.client /\ r.up = p.up /\ r.server = p.server
           /\ r.queue = p.queue /\ r.consumer = p.consumer /\ r.handling = p.handling
           /\ p.toClient # <<>>
           /\ Events(r) = Events(p) /\ Coming(r) = Coming(p)
           /\ Flows(r, sent)
<1> DEFINE m == Head(p.toClient)
<1> DEFINE a == [type |-> "transcript_response", id |-> m.id]
<1> DEFINE s == [p EXCEPT !.toClient = Tail(@), !.toServer = Append(@, a)]
<1>1. k \in Conns /\ p \in Connection /\ p.client = c
  BY InSession DEF ReplyTranscript
<1>2. p.toClient # <<>> /\ m.type = "transcript_request"
  BY DEF ReplyTranscript
<1>3. m \in ToClient /\ Tail(p.toClient) \in Seq(ToClient)
  BY <1>1, <1>2, Fields, HeadIsElement
<1>4. a \in ToServer /\ a.type = "transcript_response"
  BY <1>2, <1>3 DEF ToClient, ToServer
<1>5. Append(p.toServer, a) \in Seq(ToServer)
  BY <1>1, <1>4, Fields
<1> HIDE DEF a
<1>6. /\ s \in Connection
      /\ s.client = p.client /\ s.up = p.up /\ s.server = p.server
      /\ s.queue = p.queue /\ s.consumer = p.consumer /\ s.handling = p.handling
      /\ s.toClient = Tail(p.toClient) /\ s.toServer = Append(p.toServer, a)
  BY <1>1, <1>3, <1>5 DEF Connection
<1>7. conn' = [conn EXCEPT ![k] = s]
  BY DEF ReplyTranscript, a
<1> HIDE DEF s
<1>8. OnlyAt(k) /\ r = s
  BY <1>1, <1>6, <1>7, OneWritten, ConnectionsAreTyped
<1>9. Flows(p, sent)
  BY <1>1 DEF IInv, Orderly
<1>10. Events(r) = Events(p) /\ Ascending(r.toServer, "runtime_event")
  <2>1. p.toServer \in Seq(ToServer) /\ Ascending(p.toServer, "runtime_event")
    BY <1>1, <1>9, Fields DEF Flows
  <2>2. r.toServer = Append(p.toServer, a) /\ a.type # "runtime_event"
    BY <1>4, <1>6, <1>8
  <2> QED
    BY <2>1, <2>2, NumbersOfAppend, AscendingAppend DEF Events
<1>11. Coming(r) = Coming(p) /\ Ascending(r.toClient, "command")
  <2>1. Ascending(p.toClient, "command") /\ Head(p.toClient).type # "command"
    BY <1>2, <1>9 DEF Flows
  <2> QED
    BY <1>1, <1>2, <1>6, <1>8, <2>1, ComingOfTail
<1>12. Queued(r) = Queued(p) /\ Handled(r) = Handled(p) /\ InSequence(r.queue)
  <2>1. r.queue = p.queue /\ r.consumer = p.consumer /\ r.handling = p.handling
    BY <1>6, <1>8
  <2>2. InSequence(p.queue)
    BY <1>9 DEF Flows
  <2> QED
    BY <2>1, <2>2 DEF Queued, Handled
<1>13. Flows(r, sent)
  BY <1>1, <1>6, <1>8, <1>9, <1>10, <1>11, <1>12, SentIsNatural, FlowsOn
<1> QED
  BY <1>1, <1>2, <1>6, <1>8, <1>10, <1>11, <1>13

\* Replying keeps the invariant.
LEMMA ReplyTranscriptKeeps ==
    ASSUME IInv, NEW c \in Clients, NEW k, k = client[c].conn, ReplyTranscript(c)
    PROVE  IInv'
<1>1. UNCHANGED <<slot, client, inflight, sent, taken, faults>>
  BY DEF ReplyTranscript
<1>2. /\ OnlyAt(k) /\ conn[k] \in Connection /\ conn[k].client = c
      /\ conn'[k].client = conn[k].client /\ conn'[k].up = conn[k].up
      /\ conn'[k].server = conn[k].server /\ conn'[k].consumer = conn[k].consumer
      /\ conn'[k].handling = conn[k].handling /\ conn[k].toClient # <<>>
      /\ Flows(conn'[k], sent)
  BY ReplyTranscriptDoes
<1>3. EndsAgree(conn[k]) /\ ConsumerAgrees(conn[k])
  BY <1>2 DEF IInv, Orderly, OnlyAt
<1>4. conn[k].server \notin {"none", "accepted"}
  BY <1>2, <1>3, UnusedIsEmpty DEF EndsAgree
<1>5. EndsAgree(conn'[k])
  BY <1>2, <1>3, <1>4 DEF EndsAgree
<1>6. ConsumerAgrees(conn[k])'
  BY <1>1, <1>2, <1>3 DEF ConsumerAgrees
<1>7. TypeOK'
  BY <1>1, <1>2 DEF IInv, TypeOK, OnlyAt
<1> QED
  BY <1>1, <1>2, <1>5, <1>6, <1>7, StaysLinked, StaysRegistered, OneConnection, SentIsNatural

\* The receive loop raised: nothing of the connection but its consumer and what was
\* to be read changes.
LEMMA CloseDoes ==
    ASSUME IInv, NEW c \in Clients, TranscriptRaises(c) \/ ClientNotices(c),
           NEW k, k = client[c].conn, NEW p, p = conn[k], NEW r, r = conn'[k]
    PROVE  /\ OnlyAt(k) /\ p \in Connection /\ r \in Connection /\ p.client = c
           /\ r.client = p.client /\ r.up = p.up /\ r.server = p.server
           /\ r.toServer = p.toServer /\ r.queue = p.queue /\ r.handling = p.handling
           /\ r.consumer = Cancelled(p.consumer)
           /\ Coming(r) = Coming(p)
           /\ p.toClient # <<>> \/ r.toClient = p.toClient
           /\ Flows(r, sent)
           /\ client[c].phase = "session" /\ client' = [client EXCEPT ![c].phase = "closing"]
           /\ UNCHANGED <<slot, inflight, sent, taken, faults>>
<1>1. k \in Conns /\ p \in Connection /\ p.client = c
  BY InSession DEF TranscriptRaises, ClientNotices
<1>2. /\ client[c].phase = "session" /\ client' = [client EXCEPT ![c].phase = "closing"]
      /\ UNCHANGED <<slot, inflight, sent, taken, faults>>
  BY DEF TranscriptRaises, ClientNotices, Close
<1>3. Cancelled(p.consumer) \in {"none", "idle", "busy", "cancelled", "dead", "done"}
  BY <1>1, Fields DEF Cancelled
<1>4. Flows(p, sent)
  BY <1>1 DEF IInv, Orderly
<1>5. CASE TranscriptRaises(c)
  <2> DEFINE s == [p EXCEPT !.toClient = Tail(@), !.consumer = Cancelled(@)]
  <2>1. p.toClient # <<>> /\ Head(p.toClient).type # "command"
    BY <1>5 DEF TranscriptRaises
  <2>2. p.toClient \in Seq(ToClient) /\ Tail(p.toClient) \in Seq(ToClient)
    BY <1>1, <2>1, Fields, HeadIsElement
  <2>3. /\ s \in Connection /\ s.client = p.client /\ s.up = p.up /\ s.server = p.server
        /\ s.toServer = p.toServer /\ s.queue = p.queue /\ s.handling = p.handling
        /\ s.toClient = Tail(p.toClient) /\ s.consumer = Cancelled(p.consumer)
    BY <1>1, <1>3, <2>2 DEF Connection
  <2>4. conn' = [conn EXCEPT ![k] = s]
    BY <1>5 DEF TranscriptRaises
  <2> HIDE DEF s
  <2>5. OnlyAt(k) /\ r = s
    BY <1>1, <2>3, <2>4, OneWritten, ConnectionsAreTyped
  <2>6. Ascending(p.toClient, "command")
    BY <1>4 DEF Flows
  <2>7. Coming(r) = Coming(p) /\ Ascending(r.toClient, "command")
    BY <1>1, <2>1, <2>3, <2>5, <2>6, ComingOfTail
  <2>8. Flows(r, sent)
    <3>1. Events(r) = Events(p) /\ Handled(r) = Handled(p) /\ Queued(r) = Queued(p)
      BY <2>3, <2>5 DEF Events, Handled, Queued
    <3>2. Ascending(r.toServer, "runtime_event") /\ InSequence(r.queue)
      BY <1>4, <2>3, <2>5 DEF Flows
    <3> QED
      BY <1>1, <1>4, <2>3, <2>5, <2>7, <3>1, <3>2, FlowsOn DEF IInv, TypeOK
  <2> QED
    BY <1>1, <1>2, <2>1, <2>3, <2>5, <2>7, <2>8
<1>6. CASE ClientNotices(c)
  <2> DEFINE s == [p EXCEPT !.consumer = Cancelled(@)]
  <2>1. /\ s \in Connection /\ s.client = p.client /\ s.up = p.up /\ s.server = p.server
        /\ s.toServer = p.toServer /\ s.queue = p.queue /\ s.handling = p.handling
        /\ s.toClient = p.toClient /\ s.consumer = Cancelled(p.consumer)
    BY <1>1, <1>3 DEF Connection
  <2>2. conn' = [conn EXCEPT ![k] = s]
    BY <1>6 DEF ClientNotices
  <2> HIDE DEF s
  <2>3. OnlyAt(k) /\ r = s
    BY <1>1, <2>1, <2>2, OneWritten, ConnectionsAreTyped
  <2>4. /\ Events(r) = Events(p) /\ Handled(r) = Handled(p)
        /\ Queued(r) = Queued(p) /\ Coming(r) = Coming(p)
    BY <2>1, <2>3 DEF Events, Handled, Queued, Coming
  <2>5. /\ Ascending(r.toServer, "runtime_event") /\ InSequence(r.queue)
        /\ Ascending(r.toClient, "command")
    BY <1>4, <2>1, <2>3 DEF Flows
  <2>6. Flows(r, sent)
    BY <1>1, <1>4, <2>1, <2>3, <2>4, <2>5, FlowsOn DEF IInv, TypeOK
  <2> QED
    BY <1>1, <1>2, <2>1, <2>3, <2>4, <2>6
<1> QED
  BY <1>5, <1>6

\* An exception out of the receive loop keeps the invariant.
LEMMA CloseKeeps ==
    ASSUME IInv, NEW c \in Clients, NEW k, k = client[c].conn,
           TranscriptRaises(c) \/ ClientNotices(c)
    PROVE  IInv'
<1>1. /\ OnlyAt(k) /\ conn[k] \in Connection /\ conn[k].client = c
      /\ conn'[k].client = conn[k].client /\ conn'[k].up = conn[k].up
      /\ conn'[k].server = conn[k].server /\ conn'[k].queue = conn[k].queue
      /\ conn'[k].toServer = conn[k].toServer
      /\ conn'[k].consumer = Cancelled(conn[k].consumer)
      /\ conn'[k].handling = conn[k].handling
      /\ conn[k].toClient # <<>> \/ conn'[k].toClient = conn[k].toClient
      /\ Flows(conn'[k], sent)
      /\ client[c].phase = "session" /\ client' = [client EXCEPT ![c].phase = "closing"]
      /\ UNCHANGED <<slot, inflight, sent, taken, faults>>
  BY CloseDoes
<1>2. EndsAgree(conn[k]) /\ ConsumerAgrees(conn[k])
  BY <1>1 DEF IInv, Orderly, OnlyAt
<1>3. client \in [Clients -> Session]
  BY DEF IInv, TypeOK
<1>4. /\ client'[c].phase = "closing" /\ client'[c].conn = k
      /\ \A d \in Clients \ {c} : client'[d] = client[d]
      /\ client' \in [Clients -> Session]
  BY <1>1, <1>3 DEF Session
<1>5. conn[k].server # "none"
  BY <1>1, <1>2, UnusedIsEmpty, NoneIsNobody DEF EndsAgree
<1>6. EndsAgree(conn'[k])
  BY <1>1, <1>2, <1>5, NoneIsNobody DEF EndsAgree, Events
<1>7. ConsumerAgrees(conn[k])'
  BY <1>1, <1>2, <1>4 DEF ConsumerAgrees, Cancelled
<1>8. TypeOK'
  BY <1>1, <1>4 DEF IInv, TypeOK, OnlyAt
<1>9. Linked'
  BY <1>1, <1>3, <1>4 DEF IInv, Linked, OnlyAt
<1>10. \A d \in Clients : client'[d] = client[d] \/ client[d].conn \in {k, None}
  BY <1>4
<1> QED
  BY <1>1, <1>6, <1>7, <1>8, <1>9, <1>10, StaysRegistered, OneConnection, SentIsNatural

\* A client leaves its connection: what it had sent is left of it.
LEMMA LeaveDoes ==
    ASSUME IInv, NEW c \in Clients, SessionEnds(c) \/ ClientRestarts(c),
           NEW k, k = client[c].conn, NEW p, p = conn[k], NEW r, r = conn'[k]
    PROVE  /\ OnlyAt(k) /\ p \in Connection /\ r \in Connection /\ p.client = c
           /\ r.client = None /\ ~r.up /\ r.server = p.server
           /\ r.toServer = p.toServer /\ r.toClient = <<>> /\ r.queue = <<>>
           /\ r.consumer = "done" /\ r.handling = None
           /\ Events(r) = Events(p)
           /\ Flows(r, sent)
           /\ client[c].phase # "waiting" /\ client' = [client EXCEPT ![c] = Waiting]
           /\ UNCHANGED <<slot, inflight, sent, taken>>
           /\ faults' \in 0 .. MaxFaults
<1>1. client[c].phase # "waiting"
  BY DEF SessionEnds, ClientRestarts
<1>2. k \in Conns /\ p \in Connection /\ p.client = c
  BY <1>1, InSession
<1>3. /\ client' = [client EXCEPT ![c] = Waiting]
      /\ UNCHANGED <<slot, inflight, sent, taken>>
      /\ conn' = [conn EXCEPT ![k] = LeftByClient(k)]
  BY DEF SessionEnds, ClientRestarts
<1>4. faults' \in 0 .. MaxFaults
  BY BoundsAreNatural DEF SessionEnds, ClientRestarts, Fault, IInv, TypeOK
<1> DEFINE s == LeftByClient(k)
<1>5. /\ s \in Connection /\ s.client = None /\ ~s.up /\ s.server = p.server
      /\ s.toServer = p.toServer /\ s.toClient = <<>> /\ s.queue = <<>>
      /\ s.consumer = "done" /\ s.handling = None
  <2>1. /\ s.client = None /\ ~s.up /\ s.server = p.server
        /\ s.toServer = p.toServer /\ s.toClient = <<>> /\ s.queue = <<>>
        /\ s.consumer = "done" /\ s.handling = None
    BY <1>2 DEF Connection, LeftByClient
  <2>2. <<>> \in Seq(ToClient) /\ <<>> \in Seq(Numbers)
    OBVIOUS
  <2>3. s \in Connection
    BY <1>2, <2>2 DEF Connection, LeftByClient
  <2> QED
    BY <2>1, <2>3
<1> HIDE DEF s
<1>6. OnlyAt(k) /\ r = s
  BY <1>2, <1>3, <1>5, OneWritten, ConnectionsAreTyped DEF s
<1>7. Flows(p, sent) /\ sent \in Nat
  BY <1>2 DEF IInv, TypeOK, Orderly
<1>8. Events(r) = Events(p)
  BY <1>5, <1>6 DEF Events
<1>9. /\ Handled(r) = {} /\ Queued(r) = {} /\ Coming(r) = {}
      /\ Ascending(r.toClient, "command") /\ InSequence(r.queue)
  BY <1>5, <1>6, NumbersOfNothing DEF Handled, Queued, Coming, InSequence
<1>10. Ascending(r.toServer, "runtime_event")
  BY <1>5, <1>6, <1>7 DEF Flows
<1>11. Flows(r, sent)
  BY <1>2, <1>5, <1>6, <1>7, <1>8, <1>9, <1>10, FlowsOn
<1> QED
  BY <1>1, <1>2, <1>3, <1>4, <1>5, <1>6, <1>8, <1>11

\* The end of a session, or of its process, keeps the invariant.
LEMMA LeaveKeeps ==
    ASSUME IInv, NEW c \in Clients, NEW k, k = client[c].conn,
           SessionEnds(c) \/ ClientRestarts(c)
    PROVE  IInv'
<1>1. /\ OnlyAt(k) /\ conn[k] \in Connection /\ conn[k].client = c
      /\ conn'[k].client = None /\ ~conn'[k].up /\ conn'[k].server = conn[k].server
      /\ conn'[k].toClient = <<>> /\ conn'[k].queue = <<>>
      /\ conn'[k].consumer = "done" /\ conn'[k].handling = None
      /\ Events(conn'[k]) = Events(conn[k])
      /\ Flows(conn'[k], sent)
      /\ client' = [client EXCEPT ![c] = Waiting]
      /\ UNCHANGED <<slot, inflight, sent, taken>>
      /\ faults' \in 0 .. MaxFaults
  BY LeaveDoes
<1>2. EndsAgree(conn[k])
  BY <1>1 DEF IInv, Orderly, OnlyAt
<1>3. client \in [Clients -> Session]
  BY DEF IInv, TypeOK
<1>4. /\ client'[c].phase = "waiting" /\ client'[c].conn = None
      /\ \A d \in Clients \ {c} : client'[d] = client[d]
      /\ client' \in [Clients -> Session]
  BY <1>1, <1>3 DEF Waiting, Session
<1>5. conn[k].server # "none"
  BY <1>1, <1>2, UnusedIsEmpty, NoneIsNobody DEF EndsAgree
<1>6. EndsAgree(conn'[k])
  BY <1>1, <1>2, <1>5 DEF EndsAgree
<1>7. ConsumerAgrees(conn[k])'
  BY <1>1 DEF ConsumerAgrees
<1>8. TypeOK'
  BY <1>1, <1>4 DEF IInv, TypeOK, OnlyAt
<1>9. Linked'
  BY <1>1, <1>3, <1>4, NoneIsNobody DEF IInv, Linked, OnlyAt
<1>10. \A d \in Clients : client'[d] = client[d] \/ client[d].conn \in {k, None}
  BY <1>4
<1> QED
  BY <1>1, <1>6, <1>7, <1>8, <1>9, <1>10, StaysRegistered, OneConnection, SentIsNatural

-----------------------------------------------------------------------------
\* The consumer's steps.

\* The consumer takes the head of its queue.
LEMMA TakeCommandDoes ==
    ASSUME IInv, NEW k \in Conns, TakeCommand(k), NEW p, p = conn[k], NEW r, r = conn'[k]
    PROVE  /\ OnlyAt(k) /\ p \in Connection /\ r \in Connection
           /\ r.client = p.client /\ r.up = p.up /\ r.server = p.server
           /\ r.toServer = p.toServer /\ r.toClient = p.toClient /\ p.queue # <<>>
           /\ p.consumer = "idle" /\ r.consumer = "busy"
           /\ Handled(p) = {} /\ r.handling # None /\ Queued(p) = Queued(r) \cup Handled(r)
           /\ Flows(r, sent)
<1> DEFINE n == Head(p.queue)
<1> DEFINE s == [p EXCEPT !.consumer = "busy", !.handling = n, !.queue = Tail(@)]
<1>1. p \in Connection /\ EndsAgree(p) /\ ConsumerAgrees(p) /\ Flows(p, sent) /\ sent \in Nat
  BY DEF IInv, TypeOK, Orderly
<1>2. p.queue # <<>> /\ p.consumer = "idle" /\ p.queue \in Seq(Numbers)
  BY <1>1, Fields DEF TakeCommand
<1>3. n \in Numbers /\ Tail(p.queue) \in Seq(Numbers)
  BY <1>2, HeadIsElement
<1>4. n # None
  BY <1>3, NoneIsNobody, BoundsAreNatural DEF Numbers
<1>5. /\ s \in Connection /\ s.client = p.client /\ s.up = p.up /\ s.server = p.server
      /\ s.toServer = p.toServer /\ s.toClient = p.toClient
      /\ s.consumer = "busy" /\ s.handling = n /\ s.queue = Tail(p.queue)
  BY <1>1, <1>3 DEF Connection
<1>6. conn' = [conn EXCEPT ![k] = s]
  BY DEF TakeCommand
<1>7. /\ Members(p.queue) = Members(Tail(p.queue)) \cup {n}
      /\ InSequence(Tail(p.queue)) /\ \A m \in Members(Tail(p.queue)) : n < m
  BY <1>1, <1>2, MembersTail DEF Flows
<1> HIDE DEF s, n
<1>8. OnlyAt(k) /\ r = s
  BY <1>5, <1>6, OneWritten, ConnectionsAreTyped
<1>9. Handled(p) = {} /\ Handled(r) = {n}
  BY <1>1, <1>2, <1>4, <1>5, <1>8 DEF Handled, ConsumerAgrees
<1>10. Queued(p) = Queued(r) \cup {n} /\ InSequence(r.queue) /\ Before(Handled(r), Queued(r))
  <2>1. Queued(p) = Members(p.queue) /\ Queued(r) = Members(Tail(p.queue))
    BY <1>5, <1>8 DEF Queued, Members
  <2> QED
    BY <1>5, <1>7, <1>8, <1>9, <2>1 DEF Before
<1>11. /\ Events(r) = Events(p) /\ Coming(r) = Coming(p)
       /\ Ascending(r.toServer, "runtime_event") /\ Ascending(r.toClient, "command")
  BY <1>1, <1>5, <1>8 DEF Events, Coming, Flows
<1>12. Flows(r, sent)
  BY <1>1, <1>9, <1>10, <1>11 DEF Flows, Before
<1> QED
  BY <1>1, <1>2, <1>4, <1>5, <1>8, <1>9, <1>10, <1>12

\* An event sent is the event of its command.
LEMMA EventAppended ==
    ASSUME NEW p \in Connection, NEW r, NEW e, e.type = "runtime_event",
           r.toServer = Append(p.toServer, e)
    PROVE  Events(r) = Events(p) \cup {e.id}
<1>1. p.toServer \in Seq(ToServer)
  BY Fields
<1> DEFINE w == p.toServer
<1>2. w \in Seq(ToServer)
  BY <1>1
<1> HIDE DEF w
<1>3. NumbersOf(Append(w, e), "runtime_event") = NumbersOf(w, "runtime_event") \cup {e.id}
  BY <1>2, NumbersOfAppend
<1> QED
  BY <1>3 DEF Events, w

\* The handler is done: its event is on the wire, or nowhere.
LEMMA HandlerEndsDoes ==
    ASSUME IInv, NEW k \in Conns,
           HandlerReturns(k) \/ HandlerRaises(k) \/ CancelUnwinds(k),
           NEW p, p = conn[k], NEW r, r = conn'[k]
    PROVE  /\ OnlyAt(k) /\ p \in Connection /\ r \in Connection
           /\ r.client = p.client /\ r.up = p.up /\ r.server = p.server
           /\ r.toClient = p.toClient /\ r.queue = p.queue
           /\ r.handling = None /\ p.handling # None
           /\ \/ /\ p.consumer = "busy" /\ p.up /\ r.consumer = "idle"
                 /\ Events(r) = Events(p) \cup Handled(p)
              \/ /\ p.consumer = "busy" /\ r.consumer = "dead"
                 /\ r.toServer = p.toServer
              \/ /\ p.consumer = "cancelled" /\ r.consumer = "done"
                 /\ r.toServer = p.toServer
           /\ Flows(r, sent)
<1>1. p \in Connection /\ EndsAgree(p) /\ ConsumerAgrees(p) /\ Flows(p, sent) /\ sent \in Nat
  BY DEF IInv, TypeOK, Orderly
<1>2. p.handling # None /\ p.handling \in Numbers /\ Handled(p) = {p.handling}
  BY <1>1, Fields DEF ConsumerAgrees, HandlerReturns, HandlerRaises, CancelUnwinds, Handled
<1>3. CASE HandlerReturns(k) /\ p.up
  <2> DEFINE e == EventOf(k)
  <2> DEFINE s == [p EXCEPT !.handling = None, !.consumer = "idle", !.toServer = Append(@, e)]
  <2>1. e \in ToServer /\ e.type = "runtime_event" /\ e.id = p.handling
    BY <1>2 DEF ToServer, EventOf
  <2>2. p.toServer \in Seq(ToServer) /\ Append(p.toServer, e) \in Seq(ToServer)
    BY <1>1, <2>1, Fields
  <2> HIDE DEF e
  <2>3. /\ s \in Connection /\ s.client = p.client /\ s.up = p.up /\ s.server = p.server
        /\ s.toClient = p.toClient /\ s.queue = p.queue
        /\ s.handling = None /\ s.consumer = "idle" /\ s.toServer = Append(p.toServer, e)
    BY <1>1, <2>2 DEF Connection
  <2>4. conn' = [conn EXCEPT ![k] = s] /\ p.consumer = "busy"
    BY <1>3 DEF HandlerReturns, e
  <2> HIDE DEF s
  <2>5. OnlyAt(k) /\ r = s
    BY <2>3, <2>4, OneWritten, ConnectionsAreTyped
  <2>6. Events(r) = Events(p) \cup Handled(p)
    BY <1>1, <1>2, <2>1, <2>3, <2>5, EventAppended
  <2>7. Ascending(r.toServer, "runtime_event")
    <3>1. \A n \in NumbersOf(p.toServer, "runtime_event") : n < e.id
      BY <1>1, <1>2, <2>1 DEF Flows, Before, Events
    <3>2. Ascending(p.toServer, "runtime_event")
      BY <1>1 DEF Flows
    <3> QED
      BY <2>2, <2>3, <2>5, <3>1, <3>2, AscendingAppend
  <2>8. Handled(r) = {} /\ Queued(r) = Queued(p) /\ Coming(r) = Coming(p)
    BY <2>3, <2>5 DEF Handled, Queued, Coming
  <2>9. Flows(r, sent)
    BY <1>1, <2>3, <2>5, <2>6, <2>7, <2>8 DEF Flows, Before
  <2> QED
    BY <1>1, <1>2, <1>3, <2>3, <2>4, <2>5, <2>6, <2>9
<1>4. CASE ~(HandlerReturns(k) /\ p.up)
  <2>1. PICK a \in {"dead", "done"} :
           /\ conn' = [conn EXCEPT ![k] = [p EXCEPT !.handling = None, !.consumer = a]]
           /\ \/ p.consumer = "busy" /\ a = "dead"
              \/ p.consumer = "cancelled" /\ a = "done"
    <3>1. CASE HandlerReturns(k)
      BY <1>4, <3>1 DEF HandlerReturns
    <3>2. CASE HandlerRaises(k)
      <4>1. [p EXCEPT !.consumer = "dead", !.handling = None]
              = [p EXCEPT !.handling = None, !.consumer = "dead"]
        BY <1>1 DEF Connection
      <4> QED
        BY <3>2, <4>1 DEF HandlerRaises
    <3>3. CASE CancelUnwinds(k)
      <4>1. [p EXCEPT !.consumer = "done", !.handling = None]
              = [p EXCEPT !.handling = None, !.consumer = "done"]
        BY <1>1 DEF Connection
      <4> QED
        BY <3>3, <4>1 DEF CancelUnwinds
    <3> QED
      BY <3>1, <3>2, <3>3
  <2> DEFINE s == [p EXCEPT !.handling = None, !.consumer = a]
  <2>2. /\ s \in Connection /\ s.client = p.client /\ s.up = p.up /\ s.server = p.server
        /\ s.toClient = p.toClient /\ s.queue = p.queue /\ s.toServer = p.toServer
        /\ s.handling = None /\ s.consumer = a
    BY <1>1 DEF Connection
  <2>3. conn' = [conn EXCEPT ![k] = s]
    BY <2>1
  <2> HIDE DEF s
  <2>4. OnlyAt(k) /\ r = s
    BY <2>2, <2>3, OneWritten, ConnectionsAreTyped
  <2>5. /\ Events(r) = Events(p) /\ Handled(r) = {}
        /\ Queued(r) = Queued(p) /\ Coming(r) = Coming(p)
    BY <2>2, <2>4 DEF Events, Handled, Queued, Coming
  <2>6. /\ Ascending(r.toServer, "runtime_event") /\ InSequence(r.queue)
        /\ Ascending(r.toClient, "command")
    BY <1>1, <2>2, <2>4 DEF Flows
  <2>7. Flows(r, sent)
    BY <1>1, <2>2, <2>4, <2>5, <2>6, FlowsOn
  <2> QED
    BY <1>1, <1>2, <2>1, <2>2, <2>4, <2>7
<1> QED
  BY <1>3, <1>4

\* A swallowed cancellation changes nothing but the consumer's state.
LEMMA CancelSwallowedDoes ==
    ASSUME IInv, NEW k \in Conns, CancelSwallowed(k), NEW p, p = conn[k], NEW r, r = conn'[k]
    PROVE  /\ OnlyAt(k) /\ p \in Connection /\ r \in Connection
           /\ r.client = p.client /\ r.up = p.up /\ r.server = p.server
           /\ r.toServer = p.toServer /\ r.toClient = p.toClient /\ r.queue = p.queue
           /\ r.handling = p.handling /\ p.handling # None
           /\ p.consumer = "cancelled" /\ r.consumer = "busy"
           /\ Flows(r, sent)
<1> DEFINE s == [p EXCEPT !.consumer = "busy"]
<1>1. p \in Connection /\ EndsAgree(p) /\ ConsumerAgrees(p) /\ Flows(p, sent) /\ sent \in Nat
  BY DEF IInv, TypeOK, Orderly
<1>2. /\ s \in Connection /\ s.client = p.client /\ s.up = p.up /\ s.server = p.server
      /\ s.toServer = p.toServer /\ s.toClient = p.toClient /\ s.queue = p.queue
      /\ s.handling = p.handling /\ s.consumer = "busy"
  BY <1>1 DEF Connection
<1>3. conn' = [conn EXCEPT ![k] = s] /\ p.consumer = "cancelled"
  BY DEF CancelSwallowed
<1> HIDE DEF s
<1>4. OnlyAt(k) /\ r = s
  BY <1>2, <1>3, OneWritten, ConnectionsAreTyped
<1>5. /\ Events(r) = Events(p) /\ Handled(r) = Handled(p)
      /\ Queued(r) = Queued(p) /\ Coming(r) = Coming(p)
  BY <1>2, <1>4 DEF Events, Handled, Queued, Coming
<1>6. /\ Ascending(r.toServer, "runtime_event") /\ InSequence(r.queue)
      /\ Ascending(r.toClient, "command")
  BY <1>1, <1>2, <1>4 DEF Flows
<1>7. Flows(r, sent)
  BY <1>1, <1>2, <1>4, <1>5, <1>6, FlowsOn
<1> QED
  BY <1>1, <1>2, <1>3, <1>4, <1>7 DEF ConsumerAgrees

\* The consumer's steps keep the invariant.
LEMMA ConsumerKeeps ==
    ASSUME IInv, NEW k \in Conns, ConsumerStep(k) \/ ConsumerException(k)
    PROVE  IInv'
<1>1. UNCHANGED <<slot, client, inflight, sent, taken, faults>>
  BY DEF ConsumerStep, ConsumerException, TakeCommand, HandlerReturns, CancelUnwinds,
         HandlerRaises, CancelSwallowed
<1>2. /\ OnlyAt(k) /\ conn[k] \in Connection
      /\ conn'[k].client = conn[k].client /\ conn'[k].up = conn[k].up
      /\ conn'[k].server = conn[k].server
      /\ conn[k].handling # None \/ conn[k].queue # <<>>
      /\ Flows(conn'[k], sent)
  BY TakeCommandDoes, HandlerEndsDoes, CancelSwallowedDoes DEF ConsumerStep, ConsumerException
<1>3. \/ conn[k].consumer = "idle" /\ conn'[k].consumer = "busy" /\ conn'[k].handling # None
      \/ /\ conn[k].consumer = "busy" /\ conn'[k].consumer \in {"idle", "dead"}
         /\ conn'[k].handling = None
      \/ /\ conn[k].consumer = "cancelled" /\ conn'[k].consumer = "done"
         /\ conn'[k].handling = None
      \/ /\ conn[k].consumer = "cancelled" /\ conn'[k].consumer = "busy"
         /\ conn'[k].handling = conn[k].handling /\ conn[k].handling # None
  BY TakeCommandDoes, HandlerEndsDoes, CancelSwallowedDoes DEF ConsumerStep, ConsumerException
<1>4. EndsAgree(conn[k]) /\ ConsumerAgrees(conn[k])
  BY DEF IInv, Orderly
<1>5. conn[k].server \notin {"none", "accepted"}
  BY <1>2, <1>4, UnusedIsEmpty DEF EndsAgree
<1>6. conn[k].client # None
  BY <1>3, <1>4 DEF EndsAgree
<1>7. EndsAgree(conn'[k])
  BY <1>2, <1>4, <1>5, <1>6 DEF EndsAgree
<1>8. ConsumerAgrees(conn[k])'
  BY <1>1, <1>2, <1>3, <1>4 DEF ConsumerAgrees
<1>9. TypeOK'
  BY <1>1, <1>2 DEF IInv, TypeOK, OnlyAt
<1> QED
  BY <1>1, <1>2, <1>7, <1>8, <1>9, StaysLinked, StaysRegistered, OneConnection, SentIsNatural

-----------------------------------------------------------------------------
\* The Control Plane's steps.

\* Reading a message takes its event, if it is one, off the wire: the oldest.
LEMMA EventsOfTail ==
    ASSUME NEW p \in Connection, NEW r, p.toServer # <<>>, r.toServer = Tail(p.toServer),
           Ascending(p.toServer, "runtime_event")
    PROVE  /\ Head(p.toServer) \in ToServer /\ Tail(p.toServer) \in Seq(ToServer)
           /\ Ascending(r.toServer, "runtime_event") /\ Events(r) \subseteq Events(p)
           /\ Head(p.toServer).type # "runtime_event" => Events(r) = Events(p)
           /\ Head(p.toServer).type = "runtime_event" =>
                 /\ Events(p) = Events(r) \cup {Head(p.toServer).id}
                 /\ \A n \in Events(r) : Head(p.toServer).id < n
<1>1. p.toServer \in Seq(ToServer)
  BY Fields
<1>2. Head(p.toServer) \in ToServer /\ Tail(p.toServer) \in Seq(ToServer)
  BY <1>1, HeadIsElement
<1>3. Ascending(Tail(p.toServer), "runtime_event")
  BY <1>1, NumbersOfTail
<1>4. CASE Head(p.toServer).type # "runtime_event"
  <2>1. NumbersOf(p.toServer, "runtime_event") = NumbersOf(Tail(p.toServer), "runtime_event")
    BY <1>1, <1>4, NumbersOfTail
  <2> QED
    BY <1>2, <1>3, <1>4, <2>1 DEF Events
<1>5. CASE Head(p.toServer).type = "runtime_event"
  <2>1. /\ NumbersOf(p.toServer, "runtime_event")
             = NumbersOf(Tail(p.toServer), "runtime_event") \cup {Head(p.toServer).id}
        /\ \A n \in NumbersOf(Tail(p.toServer), "runtime_event") : Head(p.toServer).id < n
    BY <1>1, <1>5, NumbersOfTail
  <2> QED
    BY <1>2, <1>3, <1>5, <2>1 DEF Events
<1> QED
  BY <1>4, <1>5

\* Nothing but the registration had been sent over a connection that registers.
LEMMA AcceptRegistrationDoes ==
    ASSUME IInv, NEW k \in Conns, AcceptRegistration(k), NEW p, p = conn[k], NEW r, r = conn'[k]
    PROVE  /\ OnlyAt(k) /\ p \in Connection /\ r \in Connection
           /\ r.client = p.client /\ r.up = p.up
           /\ p.server = "accepted" /\ r.server = "registered"
           /\ r.toClient = <<>> /\ r.queue = <<>> /\ r.handling = None
           /\ r.consumer = p.consumer /\ Events(r) = {} /\ p.handling = None
           /\ Flows(r, sent)
           /\ slot = None /\ slot' = k
<1> DEFINE s == [p EXCEPT !.server = "registered", !.toServer = Tail(@)]
<1>1. p \in Connection /\ EndsAgree(p) /\ Flows(p, sent) /\ sent \in Nat
  BY DEF IInv, TypeOK, Orderly
<1>2. p.server = "accepted" /\ p.toServer # <<>> /\ slot = None /\ slot' = k
  BY DEF AcceptRegistration
<1>3. Tail(p.toServer) \in Seq(ToServer)
  BY <1>1, <1>2, Fields, HeadIsElement
<1>4. p.toClient = <<>> /\ p.queue = <<>> /\ p.handling = None /\ Events(p) = {}
  BY <1>1, <1>2 DEF EndsAgree
<1>5. /\ s \in Connection /\ s.client = p.client /\ s.up = p.up /\ s.server = "registered"
      /\ s.toServer = Tail(p.toServer) /\ s.toClient = p.toClient /\ s.queue = p.queue
      /\ s.handling = p.handling /\ s.consumer = p.consumer
  BY <1>1, <1>3 DEF Connection
<1>6. conn' = [conn EXCEPT ![k] = s]
  BY DEF AcceptRegistration
<1> HIDE DEF s
<1>7. OnlyAt(k) /\ r = s
  BY <1>5, <1>6, OneWritten, ConnectionsAreTyped
<1>8. Ascending(p.toServer, "runtime_event")
  BY <1>1 DEF Flows
<1>9. Events(r) = {} /\ Ascending(r.toServer, "runtime_event")
  BY <1>1, <1>2, <1>4, <1>5, <1>7, <1>8, EventsOfTail
<1>10. Flows(r, sent)
  BY <1>4, <1>5, <1>7, <1>9, EmptyFlows
<1> QED
  BY <1>1, <1>2, <1>4, <1>5, <1>7, <1>9, <1>10

\* An accepted registration keeps the invariant: the slot was free.
LEMMA AcceptRegistrationKeeps ==
    ASSUME IInv, NEW k \in Conns, AcceptRegistration(k)
    PROVE  IInv'
<1>1. UNCHANGED <<client, inflight, sent, taken, faults>>
  BY DEF AcceptRegistration
<1>2. /\ OnlyAt(k) /\ conn[k] \in Connection
      /\ conn'[k].client = conn[k].client /\ conn'[k].up = conn[k].up
      /\ conn[k].server = "accepted" /\ conn'[k].server = "registered"
      /\ conn'[k].handling = None /\ conn[k].handling = None
      /\ conn'[k].consumer = conn[k].consumer
      /\ Flows(conn'[k], sent)
      /\ slot = None /\ slot' = k
  BY AcceptRegistrationDoes
<1>3. EndsAgree(conn[k]) /\ ConsumerAgrees(conn[k])
  BY DEF IInv, Orderly
<1>4. EndsAgree(conn'[k])
  BY <1>2, <1>3 DEF EndsAgree
<1>5. ConsumerAgrees(conn[k])'
  BY <1>1, <1>2, <1>3 DEF ConsumerAgrees
<1>6. TypeOK'
  BY <1>1, <1>2 DEF IInv, TypeOK, OnlyAt
<1>7. SlotIsTheRegistered'
  BY <1>2, NoneIsNobody DEF IInv, SlotIsTheRegistered, OnlyAt
<1>8. NoHangingRequest'
  BY <1>1, <1>2, NoneIsNobody DEF IInv, TypeOK, NoHangingRequest, OnlyAt, Request
<1> QED
  BY <1>1, <1>2, <1>4, <1>5, <1>6, <1>7, <1>8, StaysLinked, OneConnection, SentIsNatural

\* What the Control Plane leaves of a connection.
LEMMA LeftByServerIs ==
    ASSUME NEW k, conn[k] \in Connection, NEW p, p = conn[k], NEW s, s = LeftByServer(k)
    PROVE  /\ s \in Connection /\ s.client = p.client /\ ~s.up /\ s.server = "ended"
           /\ s.toServer = <<>> /\ s.toClient = p.toClient /\ s.queue = p.queue
           /\ s.consumer = p.consumer /\ s.handling = p.handling
           /\ Events(s) = {} /\ Handled(s) = Handled(p)
           /\ Queued(s) = Queued(p) /\ Coming(s) = Coming(p)
<1>1. <<>> \in Seq(ToServer)
  OBVIOUS
<1>2. /\ s \in Connection /\ s.client = p.client /\ ~s.up /\ s.server = "ended"
      /\ s.toServer = <<>> /\ s.toClient = p.toClient /\ s.queue = p.queue
      /\ s.consumer = p.consumer /\ s.handling = p.handling
  BY <1>1 DEF Connection, LeftByServer
<1> QED
  BY <1>2, NumbersOfNothing DEF Events, Handled, Queued, Coming

\* It is as orderly as before.
LEMMA LeftByServerIsOrderly ==
    ASSUME NEW k, conn[k] \in Connection, EndsAgree(conn[k]), Flows(conn[k], sent), sent \in Nat,
           NEW s, s = LeftByServer(k)
    PROVE  EndsAgree(s) /\ Flows(s, sent)
<1>1. /\ s \in Connection /\ s.client = conn[k].client /\ ~s.up /\ s.server = "ended"
      /\ s.toServer = <<>> /\ s.toClient = conn[k].toClient /\ s.queue = conn[k].queue
      /\ s.consumer = conn[k].consumer /\ s.handling = conn[k].handling
      /\ Events(s) = {} /\ Handled(s) = Handled(conn[k])
      /\ Queued(s) = Queued(conn[k]) /\ Coming(s) = Coming(conn[k])
  BY LeftByServerIs
<1>2. EndsAgree(s)
  BY <1>1 DEF EndsAgree
<1>3. /\ Ascending(s.toServer, "runtime_event") /\ InSequence(s.queue)
      /\ Ascending(s.toClient, "command")
  BY <1>1, NumbersOfNothing DEF Flows
<1> QED
  BY <1>1, <1>2, <1>3, FlowsOn

\* A `_serve` ends, by a rejection, a drop, or a message too long.
LEMMA ServeEndsDoes ==
    ASSUME IInv, NEW k \in Conns,
           RejectRegistration(k) \/ ServerNotices(k) \/ ResponseTooLong(k)
    PROVE  /\ OnlyAt(k) /\ conn[k] \in Connection /\ conn'[k] = LeftByServer(k)
           /\ conn[k].server \in {"accepted", "registered"}
           /\ slot' = Released(k) /\ inflight' = Rejected(k)
           /\ UNCHANGED <<client, sent, taken, faults>>
<1>1. conn[k] \in Connection
  BY DEF IInv, TypeOK
<1>2. LeftByServer(k) \in Connection
  BY <1>1, LeftByServerIs
<1>3. /\ conn' = [conn EXCEPT ![k] = LeftByServer(k)]
      /\ conn[k].server \in {"accepted", "registered"}
      /\ UNCHANGED <<client, sent, taken, faults>>
  BY DEF RejectRegistration, ServerNotices, ResponseTooLong
<1>4. OnlyAt(k) /\ conn'[k] = LeftByServer(k)
  BY <1>2, <1>3, OneWritten, ConnectionsAreTyped
<1>5. slot' = Released(k) /\ inflight' = Rejected(k)
  <2>1. CASE RejectRegistration(k)
    <3>1. conn[k].server = "accepted" /\ UNCHANGED <<slot, inflight>>
      BY <2>1 DEF RejectRegistration
    <3>2. slot # k
      BY <3>1 DEF IInv, SlotIsTheRegistered
    <3>3. \A q \in Requests : inflight[q] # [status |-> "waiting", conn |-> k]
      BY <3>1 DEF IInv, NoHangingRequest
    <3>4. inflight = [q \in Requests |-> inflight[q]]
      BY DEF IInv, TypeOK
    <3>5. Rejected(k) = [q \in Requests |-> inflight[q]]
      BY <3>3 DEF Rejected
    <3> QED
      BY <3>1, <3>2, <3>4, <3>5 DEF Released
  <2>2. CASE ServerNotices(k) \/ ResponseTooLong(k)
    BY <2>2 DEF ServerNotices, ResponseTooLong
  <2> QED
    BY <2>1, <2>2
<1> QED
  BY <1>1, <1>3, <1>4, <1>5

\* Rejecting the requests of a connection leaves none waiting for it.
LEMMA RejectedIs ==
    ASSUME TypeOK, NEW k
    PROVE  /\ Rejected(k) \in [Requests -> Request]
           /\ \A q \in Requests : Rejected(k)[q].status = "waiting" =>
                 Rejected(k)[q] = inflight[q] /\ inflight[q].conn # k
<1>1. ASSUME NEW q \in Requests
      PROVE  /\ Rejected(k)[q] \in Request
             /\ Rejected(k)[q].status = "waiting" => Rejected(k)[q] = inflight[q] /\ inflight[q].conn # k
  <2>1. inflight[q] \in Request
    BY DEF TypeOK
  <2>2. Rejected(k)[q] = IF inflight[q] = [status |-> "waiting", conn |-> k]
                         THEN [inflight[q] EXCEPT !.status = "failed"] ELSE inflight[q]
    BY DEF Rejected
  <2>3. CASE inflight[q] = [status |-> "waiting", conn |-> k]
    BY <2>1, <2>2, <2>3 DEF Request
  <2>4. CASE inflight[q] # [status |-> "waiting", conn |-> k]
    BY <2>1, <2>2, <2>4 DEF Request
  <2> QED
    BY <2>3, <2>4
<1>2. Rejected(k) = [q \in Requests |-> Rejected(k)[q]]
  BY DEF Rejected
<1> QED
  BY <1>1, <1>2

\* The end of a `_serve` keeps the invariant: slot and requests go with it.
LEMMA ServeEndsKeeps ==
    ASSUME IInv, NEW k \in Conns,
           RejectRegistration(k) \/ ServerNotices(k) \/ ResponseTooLong(k)
    PROVE  IInv'
<1>1. /\ OnlyAt(k) /\ conn[k] \in Connection /\ conn'[k] = LeftByServer(k)
      /\ slot' = Released(k) /\ inflight' = Rejected(k)
      /\ UNCHANGED <<client, sent, taken, faults>>
  BY ServeEndsDoes
<1>2. /\ conn'[k].client = conn[k].client /\ conn'[k].server = "ended"
      /\ conn'[k].consumer = conn[k].consumer /\ conn'[k].handling = conn[k].handling
  BY <1>1, LeftByServerIs
<1>3. EndsAgree(conn[k]) /\ ConsumerAgrees(conn[k]) /\ Flows(conn[k], sent) /\ sent \in Nat
  BY DEF IInv, TypeOK, Orderly
<1>4. EndsAgree(conn'[k]) /\ Flows(conn'[k], sent')
  BY <1>1, <1>3, LeftByServerIsOrderly
<1>5. ConsumerAgrees(conn[k])'
  BY <1>1, <1>2, <1>3 DEF ConsumerAgrees
<1>6. TypeOK'
  BY <1>1, RejectedIs DEF IInv, TypeOK, OnlyAt, Released
<1>7. SlotIsTheRegistered'
  BY <1>1, <1>2, NoneIsNobody DEF IInv, SlotIsTheRegistered, OnlyAt, Released
<1>8. NoHangingRequest'
  <2> SUFFICES ASSUME NEW q \in Requests, inflight'[q].status = "waiting"
               PROVE  inflight'[q].conn # None /\ conn'[inflight'[q].conn].server = "registered"
    BY DEF NoHangingRequest
  <2>1. inflight'[q] = inflight[q] /\ inflight[q].conn # k /\ inflight[q].conn \in Conns \cup {None}
    BY <1>1, RejectedIs DEF IInv, TypeOK, Request
  <2>2. inflight[q].conn # None /\ conn[inflight[q].conn].server = "registered"
    BY <2>1 DEF IInv, NoHangingRequest
  <2> QED
    BY <1>1, <2>1, <2>2 DEF OnlyAt
<1> QED
  BY <1>1, <1>2, <1>3, <1>4, <1>5, <1>6, <1>7, <1>8, StaysLinked, OneConnection

\* The oldest event on the wire is taken in, or another message is read.
LEMMA ServerReceivesDoes ==
    ASSUME IInv, NEW k \in Conns, ServerReceives(k), NEW p, p = conn[k], NEW r, r = conn'[k]
    PROVE  /\ OnlyAt(k) /\ p \in Connection /\ r \in Connection
           /\ r.client = p.client /\ r.up = p.up /\ r.server = p.server
           /\ r.toClient = p.toClient /\ r.queue = p.queue
           /\ r.handling = p.handling /\ r.consumer = p.consumer
           /\ p.server = "registered"
           /\ Flows(r, sent)
           /\ \/ taken' = taken /\ Events(r) = Events(p)
              \/ \E n \in Numbers : /\ taken' = Append(taken, n)
                                    /\ Events(p) = Events(r) \cup {n}
                                    /\ \A m \in Events(r) : n < m
<1> DEFINE e == Head(p.toServer)
<1> DEFINE s == [p EXCEPT !.toServer = Tail(@)]
<1>1. p \in Connection /\ Flows(p, sent) /\ sent \in Nat
  BY DEF IInv, TypeOK, Orderly
<1>2. p.server = "registered" /\ p.toServer # <<>> /\ Ascending(p.toServer, "runtime_event")
  BY <1>1 DEF ServerReceives, Flows
<1>3. e \in ToServer /\ Tail(p.toServer) \in Seq(ToServer)
  BY <1>1, <1>2, Fields, HeadIsElement
<1>4. /\ s \in Connection /\ s.client = p.client /\ s.up = p.up /\ s.server = p.server
      /\ s.toServer = Tail(p.toServer) /\ s.toClient = p.toClient /\ s.queue = p.queue
      /\ s.handling = p.handling /\ s.consumer = p.consumer
  BY <1>1, <1>3 DEF Connection
<1>5. conn' = [conn EXCEPT ![k] = s]
  BY DEF ServerReceives
<1>6. taken' = IF e.type = "runtime_event" THEN Append(taken, e.id) ELSE taken
  BY DEF ServerReceives
<1> HIDE DEF s
<1>7. OnlyAt(k) /\ r = s
  BY <1>4, <1>5, OneWritten, ConnectionsAreTyped
<1>8. /\ Ascending(r.toServer, "runtime_event") /\ Events(r) \subseteq Events(p)
      /\ e.type # "runtime_event" => Events(r) = Events(p)
      /\ e.type = "runtime_event" => /\ Events(p) = Events(r) \cup {e.id}
                                     /\ \A m \in Events(r) : e.id < m
  BY <1>1, <1>2, <1>4, <1>7, EventsOfTail
<1>9. Handled(r) = Handled(p) /\ Queued(r) = Queued(p) /\ Coming(r) = Coming(p)
  BY <1>4, <1>7 DEF Handled, Queued, Coming
<1>10. InSequence(r.queue) /\ Ascending(r.toClient, "command")
  BY <1>1, <1>4, <1>7 DEF Flows
<1>11. Flows(r, sent)
  BY <1>1, <1>4, <1>7, <1>8, <1>9, <1>10, FlowsOn
<1>12. e.type = "runtime_event" => e.id \in Numbers
  BY <1>3 DEF ToServer
<1> HIDE DEF e
<1> QED
  BY <1>1, <1>2, <1>4, <1>6, <1>7, <1>8, <1>11, <1>12

\* Receiving an event or a response keeps the invariant.
LEMMA ServerReceivesKeeps ==
    ASSUME IInv, NEW k \in Conns, ServerReceives(k)
    PROVE  IInv'
<1>1. UNCHANGED <<slot, client, sent, faults>>
  BY DEF ServerReceives
<1>2. /\ OnlyAt(k) /\ conn[k] \in Connection
      /\ conn'[k].client = conn[k].client /\ conn'[k].up = conn[k].up
      /\ conn'[k].server = conn[k].server /\ conn[k].server = "registered"
      /\ conn'[k].handling = conn[k].handling /\ conn'[k].consumer = conn[k].consumer
      /\ Flows(conn'[k], sent)
  BY ServerReceivesDoes
<1>3. taken' \in Seq(Numbers)
  <2>1. taken' = taken \/ \E n \in Numbers : taken' = Append(taken, n)
    BY ServerReceivesDoes
  <2>2. taken \in Seq(Numbers)
    BY DEF IInv, TypeOK
  <2> QED
    BY <2>1, <2>2
<1>4. /\ inflight' \in [Requests -> Request]
      /\ \A q \in Requests : inflight'[q].status = "waiting" => inflight'[q] = inflight[q]
  <2> DEFINE w(q) == LET m == Head(conn[k].toServer) IN
                     m.type = "transcript_response" /\ m.id = q /\ inflight[q].status = "waiting"
  <2>1. inflight' = [q \in Requests |-> IF w(q) THEN [inflight[q] EXCEPT !.status = "answered"]
                                        ELSE inflight[q]]
    BY DEF ServerReceives
  <2> HIDE DEF w
  <2>2. ASSUME NEW q \in Requests
        PROVE  /\ inflight'[q] \in Request
               /\ inflight'[q].status = "waiting" => inflight'[q] = inflight[q]
    <3>1. inflight[q] \in Request
      BY DEF IInv, TypeOK
    <3>2. CASE w(q)
      BY <2>1, <3>1, <3>2 DEF Request
    <3>3. CASE ~w(q)
      BY <2>1, <3>1, <3>3 DEF Request
    <3> QED
      BY <3>2, <3>3
  <2>3. inflight' = [q \in Requests |-> inflight'[q]]
    BY <2>1
  <2> QED
    BY <2>2, <2>3
<1>5. EndsAgree(conn[k]) /\ ConsumerAgrees(conn[k])
  BY DEF IInv, Orderly
<1>6. EndsAgree(conn'[k])
  BY <1>2, <1>5 DEF EndsAgree
<1>7. ConsumerAgrees(conn[k])'
  BY <1>1, <1>2, <1>5 DEF ConsumerAgrees
<1>8. TypeOK'
  BY <1>1, <1>2, <1>3, <1>4 DEF IInv, TypeOK, OnlyAt
<1>9. \A j \in Conns : conn'[j].server = conn[j].server
  BY <1>2 DEF OnlyAt
<1>10. SlotIsTheRegistered' /\ NoHangingRequest'
  BY <1>1, <1>4, <1>9 DEF IInv, TypeOK, SlotIsTheRegistered, NoHangingRequest, Request
<1> QED
  BY <1>1, <1>2, <1>6, <1>7, <1>8, <1>10, StaysLinked, OneConnection, SentIsNatural

\* Reusing a connection that both ends have left keeps the invariant.
LEMMA RecycleKeeps ==
    ASSUME IInv, NEW k \in Conns, Recycle(k)
    PROVE  IInv' /\ OnlyAt(k) /\ conn[k].server = "ended" /\ UNCHANGED <<slot, client, sent, taken>>
<1>1. /\ conn[k].server = "ended" /\ conn[k].client = None /\ conn[k] \in Connection
      /\ conn' = [conn EXCEPT ![k] = Unused]
      /\ UNCHANGED <<slot, client, sent, taken, faults>>
  BY DEF Recycle, IInv, TypeOK
<1>2. OnlyAt(k) /\ conn'[k] = Unused
  BY <1>1, UnusedIsEmpty, OneWritten, ConnectionsAreTyped
<1>3. /\ inflight' \in [Requests -> Request]
      /\ \A q \in Requests : inflight'[q].status = "waiting" =>
            inflight[q].status = "waiting" /\ (inflight[q].conn # k => inflight'[q] = inflight[q])
  <2>1. inflight' = [q \in Requests |->
                       IF inflight[q].conn = k THEN [inflight[q] EXCEPT !.conn = None]
                       ELSE inflight[q]]
    BY DEF Recycle
  <2>2. ASSUME NEW q \in Requests
        PROVE  /\ inflight'[q] \in Request
               /\ inflight'[q].status = "waiting" =>
                     /\ inflight[q].status = "waiting"
                     /\ inflight[q].conn # k => inflight'[q] = inflight[q]
    <3>1. inflight[q] \in Request
      BY DEF IInv, TypeOK
    <3>2. CASE inflight[q].conn = k
      BY <2>1, <3>1, <3>2 DEF Request
    <3>3. CASE inflight[q].conn # k
      BY <2>1, <3>1, <3>3 DEF Request
    <3> QED
      BY <3>2, <3>3
  <2>3. inflight' = [q \in Requests |-> inflight'[q]]
    BY <2>1
  <2> QED
    BY <2>2, <2>3
<1>4. EndsAgree(Unused) /\ ConsumerAgrees(Unused)'
  BY UnusedIsEmpty DEF EndsAgree, ConsumerAgrees
<1>5. Events(Unused) = {} /\ Ascending(Unused.toServer, "runtime_event")
  BY UnusedIsEmpty, NumbersOfNothing DEF Events
<1>6. Flows(Unused, sent)
  BY <1>5, UnusedIsEmpty, EmptyFlows
<1>7. TypeOK'
  BY <1>1, <1>2, <1>3 DEF IInv, TypeOK, OnlyAt
<1>8. SlotIsTheRegistered'
  BY <1>1, <1>2, UnusedIsEmpty DEF IInv, SlotIsTheRegistered, OnlyAt
<1>9. NoHangingRequest'
  BY <1>1, <1>2, <1>3 DEF IInv, TypeOK, NoHangingRequest, OnlyAt
<1>10. ConsumerAgrees(conn[k])'
  BY <1>1, <1>2, UnusedIsEmpty DEF ConsumerAgrees
<1> QED
  BY <1>1, <1>2, <1>4, <1>6, <1>7, <1>8, <1>9, <1>10, UnusedIsEmpty, StaysLinked, OneConnection, SentIsNatural

\* A message into a connection: its command, if it is one, is the last to come.
LEMMA CommandAppended ==
    ASSUME NEW p \in Connection, NEW r, NEW m, r.toClient = Append(p.toClient, m),
           Ascending(p.toClient, "command"),
           m.type = "command" => \A n \in Coming(p) : n < m.id
    PROVE  /\ m.type = "command" => Coming(r) = Coming(p) \cup {m.id}
           /\ m.type # "command" => Coming(r) = Coming(p)
           /\ Ascending(r.toClient, "command")
<1>1. p.toClient \in Seq(ToClient)
  BY Fields
<1>2. Ascending(Append(p.toClient, m), "command")
  BY <1>1, AscendingAppend DEF Coming
<1>3. /\ m.type = "command" =>
            NumbersOf(Append(p.toClient, m), "command") = NumbersOf(p.toClient, "command") \cup {m.id}
      /\ m.type # "command" =>
            NumbersOf(Append(p.toClient, m), "command") = NumbersOf(p.toClient, "command")
  BY <1>1, NumbersOfAppend
<1> QED
  BY <1>2, <1>3 DEF Coming

\* A message is sent into the slot's connection.
LEMMA DeliverDoes ==
    ASSUME IInv, NEW k \in Conns, slot = k, NEW m \in ToClient, conn' = Deliver(k, m),
           NEW p, p = conn[k], NEW r, r = conn'[k]
    PROVE  /\ OnlyAt(k) /\ p \in Connection /\ r \in Connection
           /\ r.client = p.client /\ r.up = p.up /\ r.server = p.server
           /\ r.toServer = p.toServer /\ r.queue = p.queue
           /\ r.handling = p.handling /\ r.consumer = p.consumer
           /\ p.server = "registered"
           /\ r.toClient = IF p.up THEN Append(p.toClient, m) ELSE p.toClient
<1>1. p \in Connection /\ p.server = "registered"
  BY DEF IInv, TypeOK, SlotIsTheRegistered
<1>2. p.toClient \in Seq(ToClient) /\ Append(p.toClient, m) \in Seq(ToClient)
  BY <1>1, Fields
<1> DEFINE t == IF p.up THEN Append(p.toClient, m) ELSE p.toClient
<1>3. t \in Seq(ToClient)
  BY <1>2
<1>4. conn' = [conn EXCEPT ![k].toClient = t]
  BY DEF Deliver
<1> HIDE DEF t
<1> DEFINE s == [p EXCEPT !.toClient = t]
<1>5. /\ s \in Connection /\ s.client = p.client /\ s.up = p.up /\ s.server = p.server
      /\ s.toServer = p.toServer /\ s.queue = p.queue /\ s.toClient = t
      /\ s.handling = p.handling /\ s.consumer = p.consumer
  BY <1>1, <1>3 DEF Connection
<1>6. conn' = [conn EXCEPT ![k] = s]
  BY <1>4
<1> HIDE DEF s
<1>7. OnlyAt(k) /\ r = s
  BY <1>5, <1>6, OneWritten, ConnectionsAreTyped
<1> QED
  BY <1>1, <1>5, <1>7 DEF t

\* A message into the slot's connection keeps the invariant if its flow is kept.
LEMMA DeliverKeeps ==
    ASSUME IInv, NEW k \in Conns, slot = k, NEW m \in ToClient, conn' = Deliver(k, m),
           Flows(conn'[k], sent'), sent' \in 0 .. MaxCommands, sent <= sent',
           UNCHANGED <<slot, client, taken, faults>>,
           inflight' \in [Requests -> Request],
           \A q \in Requests : inflight'[q].status = "waiting" =>
              inflight'[q] = inflight[q] \/ inflight'[q].conn = k
    PROVE  IInv'
<1>1. /\ OnlyAt(k) /\ conn[k] \in Connection
      /\ conn'[k].client = conn[k].client /\ conn'[k].up = conn[k].up
      /\ conn'[k].server = conn[k].server /\ conn[k].server = "registered"
      /\ conn'[k].handling = conn[k].handling /\ conn'[k].consumer = conn[k].consumer
  BY DeliverDoes
<1>2. EndsAgree(conn[k]) /\ ConsumerAgrees(conn[k])
  BY DEF IInv, Orderly
<1>3. EndsAgree(conn'[k])
  BY <1>1, <1>2 DEF EndsAgree
<1>4. ConsumerAgrees(conn[k])'
  BY <1>1, <1>2 DEF ConsumerAgrees
<1>5. TypeOK'
  BY <1>1 DEF IInv, TypeOK, OnlyAt
<1>6. \A j \in Conns : conn'[j].server = conn[j].server
  BY <1>1 DEF OnlyAt
<1>7. SlotIsTheRegistered' /\ NoHangingRequest'
  BY <1>1, <1>6, NoneIsNobody DEF IInv, TypeOK, SlotIsTheRegistered, NoHangingRequest, Request
<1>8. sent' \in Nat
  BY BoundsAreNatural
<1> QED
  BY <1>1, <1>3, <1>4, <1>5, <1>7, <1>8, StaysLinked, OneConnection

\* A command sent is greater than whatever is on its way.
LEMMA SendCommandDoes ==
    ASSUME IInv, SendCommand, NEW k \in Conns, slot = k, NEW p, p = conn[k], NEW r, r = conn'[k]
    PROVE  /\ sent' = sent + 1 /\ sent' \in Numbers
           /\ [type |-> "command", id |-> sent'] \in ToClient
           /\ conn' = Deliver(k, [type |-> "command", id |-> sent'])
           /\ Coming(r) = Coming(p) \cup (IF p.up THEN {sent'} ELSE {})
           /\ Flows(r, sent')
<1>1. sent' = sent + 1 /\ sent \in Nat /\ sent' \in Nat /\ sent' \in Numbers
  BY BoundsAreNatural DEF SendCommand, IInv, TypeOK, Numbers
<1> DEFINE m == [type |-> "command", id |-> sent']
<1>2. m \in ToClient /\ m.type = "command" /\ m.id = sent' /\ conn' = Deliver(k, m)
  BY <1>1 DEF ToClient, SendCommand
<1> HIDE DEF m
<1>3. /\ OnlyAt(k) /\ p \in Connection /\ r \in Connection
      /\ r.toServer = p.toServer /\ r.queue = p.queue /\ r.handling = p.handling
      /\ r.toClient = IF p.up THEN Append(p.toClient, m) ELSE p.toClient
  BY <1>2, DeliverDoes
<1>4. Flows(p, sent)
  BY DEF IInv, Orderly
<1>5. /\ Events(r) = Events(p) /\ Handled(r) = Handled(p) /\ Queued(r) = Queued(p)
      /\ Ascending(r.toServer, "runtime_event") /\ InSequence(r.queue)
      /\ Ascending(p.toClient, "command")
  BY <1>3, <1>4 DEF Events, Handled, Queued, Flows
<1>6. \A n \in Events(p) \cup Handled(p) \cup Queued(p) \cup Coming(p) : n \in Nat /\ n < sent'
  <2> TAKE n \in Events(p) \cup Handled(p) \cup Queued(p) \cup Coming(p)
  <2>1. n \in Nat
    BY <1>3, InTransitAreNumbers
  <2>2. n <= sent
    BY <1>4 DEF Flows
  <2> QED
    BY <1>1, <2>1, <2>2
<1>7. /\ Coming(r) = Coming(p) \cup (IF p.up THEN {sent'} ELSE {})
      /\ Ascending(r.toClient, "command")
  <2>1. CASE p.up
    BY <1>2, <1>3, <1>5, <1>6, <2>1, CommandAppended
  <2>2. CASE ~p.up
    BY <1>3, <1>5, <2>2 DEF Coming
  <2> QED
    BY <2>1, <2>2
<1>8. Flows(r, sent')
  BY <1>1, <1>4, <1>5, <1>6, <1>7 DEF Flows, Before
<1> QED
  BY <1>1, <1>2, <1>7, <1>8 DEF m

\* Sending a command keeps the invariant.
LEMMA SendCommandKeeps ==
    ASSUME IInv, SendCommand
    PROVE  IInv'
<1>1. slot # None /\ UNCHANGED <<slot, client, inflight, taken, faults>>
  BY DEF SendCommand
<1>2. PICK k \in Conns : slot = k
  BY <1>1 DEF IInv, TypeOK
<1> DEFINE m == [type |-> "command", id |-> sent']
<1>3. m \in ToClient /\ conn' = Deliver(k, m) /\ Flows(conn'[k], sent')
  BY <1>2, SendCommandDoes
<1>4. sent' \in 0 .. MaxCommands /\ sent <= sent'
  BY BoundsAreNatural DEF SendCommand, IInv, TypeOK
<1> HIDE DEF m
<1> QED
  BY <1>1, <1>2, <1>3, <1>4, DeliverKeeps DEF IInv, TypeOK

\* A transcript request is no command.
LEMMA RequestTranscriptDoes ==
    ASSUME IInv, NEW q \in Requests, RequestTranscript(q), NEW k \in Conns, slot = k,
           NEW p, p = conn[k], NEW r, r = conn'[k]
    PROVE  /\ [type |-> "transcript_request", id |-> q] \in ToClient
           /\ conn' = Deliver(k, [type |-> "transcript_request", id |-> q])
           /\ Coming(r) = Coming(p)
           /\ Flows(r, sent)
<1> DEFINE m == [type |-> "transcript_request", id |-> q]
<1>1. m \in ToClient /\ m.type = "transcript_request" /\ conn' = Deliver(k, m)
  BY DEF ToClient, RequestTranscript
<1> HIDE DEF m
<1>2. /\ OnlyAt(k) /\ p \in Connection /\ r \in Connection
      /\ r.toServer = p.toServer /\ r.queue = p.queue /\ r.handling = p.handling
      /\ r.toClient = IF p.up THEN Append(p.toClient, m) ELSE p.toClient
  BY <1>1, DeliverDoes
<1>3. Flows(p, sent) /\ sent \in Nat
  BY DEF IInv, TypeOK, Orderly
<1>4. /\ Events(r) = Events(p) /\ Handled(r) = Handled(p) /\ Queued(r) = Queued(p)
      /\ Ascending(r.toServer, "runtime_event") /\ InSequence(r.queue)
      /\ Ascending(p.toClient, "command")
  BY <1>2, <1>3 DEF Events, Handled, Queued, Flows
<1>5. Coming(r) = Coming(p) /\ Ascending(r.toClient, "command")
  <2>1. CASE p.up
    BY <1>1, <1>2, <1>4, <2>1, CommandAppended
  <2>2. CASE ~p.up
    BY <1>2, <1>4, <2>2 DEF Coming
  <2> QED
    BY <2>1, <2>2
<1>6. Flows(r, sent)
  BY <1>2, <1>3, <1>4, <1>5, FlowsOn
<1> QED
  BY <1>1, <1>5, <1>6 DEF m

\* Requesting a transcript keeps the invariant.
LEMMA RequestTranscriptKeeps ==
    ASSUME IInv, NEW q \in Requests, RequestTranscript(q)
    PROVE  IInv'
<1>1. slot # None /\ UNCHANGED <<slot, client, sent, taken, faults>>
  BY DEF RequestTranscript
<1>2. PICK k \in Conns : slot = k
  BY <1>1 DEF IInv, TypeOK
<1> DEFINE m == [type |-> "transcript_request", id |-> q]
<1>3. m \in ToClient /\ conn' = Deliver(k, m) /\ Flows(conn'[k], sent')
  BY <1>1, <1>2, RequestTranscriptDoes
<1>4. /\ inflight' \in [Requests -> Request]
      /\ \A x \in Requests : inflight'[x] = inflight[x] \/ inflight'[x].conn = k
  BY <1>2 DEF RequestTranscript, IInv, TypeOK, Request
<1>5. sent' \in 0 .. MaxCommands /\ sent <= sent'
  BY <1>1, BoundsAreNatural DEF IInv, TypeOK
<1> HIDE DEF m
<1> QED
  BY <1>1, <1>2, <1>3, <1>4, <1>5, DeliverKeeps

\* A time-out keeps the invariant.
LEMMA TranscriptTimesOutKeeps ==
    ASSUME IInv, NEW q \in Requests, TranscriptTimesOut(q)
    PROVE  IInv'
<1>1. UNCHANGED <<slot, conn, client, sent, taken, faults>>
  BY DEF TranscriptTimesOut
<1>2. /\ inflight' \in [Requests -> Request]
      /\ \A x \in Requests : inflight'[x].status = "waiting" => inflight'[x] = inflight[x]
  BY DEF TranscriptTimesOut, IInv, TypeOK, Request
<1>3. TypeOK' /\ Linked' /\ SlotIsTheRegistered' /\ NoHangingRequest'
  BY <1>1, <1>2 DEF IInv, TypeOK, Linked, SlotIsTheRegistered, NoHangingRequest
<1>4. ASSUME NEW k \in Conns PROVE Orderly(k)'
  BY <1>1 DEF IInv, Orderly, EndsAgree, ConsumerAgrees
<1> QED
  BY <1>3, <1>4 DEF IInv

-----------------------------------------------------------------------------
\* Faults.

\* What is severed loses a suffix of what was on the wire each way.
LEMMA SeverDoes ==
    ASSUME IInv, NEW k \in Conns, Sever(k), NEW p, p = conn[k], NEW r, r = conn'[k]
    PROVE  /\ OnlyAt(k) /\ p \in Connection /\ r \in Connection
           /\ r.client = p.client /\ ~r.up /\ r.server = p.server
           /\ r.queue = p.queue /\ r.handling = p.handling /\ r.consumer = p.consumer
           /\ p.toClient = <<>> => r.toClient = <<>>
           /\ Events(r) \subseteq Events(p)
           /\ \A m \in Events(r), n \in Events(p) \ Events(r) : m < n
           /\ Flows(r, sent)
           /\ UNCHANGED <<slot, client, inflight, sent, taken>>
           /\ faults' \in 0 .. MaxFaults
<1>1. p \in Connection /\ Flows(p, sent) /\ sent \in Nat
  BY DEF IInv, TypeOK, Orderly
<1>2. PICK i \in 0 .. Len(p.toServer), j \in 0 .. Len(p.toClient) :
         conn' = [conn EXCEPT ![k] = [p EXCEPT !.up = FALSE, !.toServer = SubSeq(@, 1, i),
                                               !.toClient = SubSeq(@, 1, j)]]
  BY DEF Sever
<1>3. /\ UNCHANGED <<slot, client, inflight, sent, taken>>
      /\ faults' \in 0 .. MaxFaults
  BY BoundsAreNatural DEF Sever, Fault, IInv, TypeOK
<1>4. /\ p.toServer \in Seq(ToServer) /\ p.toClient \in Seq(ToClient)
      /\ Ascending(p.toServer, "runtime_event") /\ Ascending(p.toClient, "command")
  BY <1>1, Fields DEF Flows
<1> DEFINE a == SubSeq(p.toServer, 1, i)
           b == SubSeq(p.toClient, 1, j)
<1>5. /\ a \in Seq(ToServer)
      /\ NumbersOf(a, "runtime_event") \subseteq NumbersOf(p.toServer, "runtime_event")
      /\ Ascending(a, "runtime_event")
      /\ \A m \in NumbersOf(a, "runtime_event"),
            n \in NumbersOf(p.toServer, "runtime_event") \ NumbersOf(a, "runtime_event") : m < n
  BY <1>4, NumbersOfPrefix
<1>6. /\ b \in Seq(ToClient)
      /\ NumbersOf(b, "command") \subseteq NumbersOf(p.toClient, "command")
      /\ Ascending(b, "command")
  BY <1>4, NumbersOfPrefix
<1>7. p.toClient = <<>> => b = <<>>
  BY <1>4
<1> DEFINE s == [p EXCEPT !.up = FALSE, !.toServer = a, !.toClient = b]
<1>8. conn' = [conn EXCEPT ![k] = s]
  BY <1>2
<1> HIDE DEF a, b
<1>9. /\ s \in Connection /\ s.client = p.client /\ ~s.up /\ s.server = p.server
      /\ s.toServer = a /\ s.toClient = b /\ s.queue = p.queue
      /\ s.handling = p.handling /\ s.consumer = p.consumer
  BY <1>1, <1>5, <1>6 DEF Connection
<1> HIDE DEF s
<1>10. OnlyAt(k) /\ r = s
  BY <1>8, <1>9, OneWritten, ConnectionsAreTyped
<1>11. /\ Events(r) \subseteq Events(p) /\ Coming(r) \subseteq Coming(p)
       /\ \A m \in Events(r), n \in Events(p) \ Events(r) : m < n
       /\ Ascending(r.toServer, "runtime_event") /\ Ascending(r.toClient, "command")
  BY <1>5, <1>6, <1>9, <1>10 DEF Events, Coming
<1>12. Handled(r) = Handled(p) /\ Queued(r) = Queued(p) /\ InSequence(r.queue)
  BY <1>1, <1>9, <1>10 DEF Handled, Queued, Flows
<1>13. Flows(r, sent)
  BY <1>1, <1>9, <1>10, <1>11, <1>12, FlowsOn
<1> QED
  BY <1>1, <1>3, <1>7, <1>9, <1>10, <1>11, <1>13

\* A drop keeps the invariant.
LEMMA SeverKeeps ==
    ASSUME IInv, NEW k \in Conns, Sever(k)
    PROVE  IInv'
<1>1. /\ OnlyAt(k) /\ conn[k] \in Connection
      /\ conn'[k].client = conn[k].client /\ ~conn'[k].up
      /\ conn'[k].server = conn[k].server /\ conn'[k].queue = conn[k].queue
      /\ conn'[k].handling = conn[k].handling /\ conn'[k].consumer = conn[k].consumer
      /\ conn[k].toClient = <<>> => conn'[k].toClient = <<>>
      /\ Events(conn'[k]) \subseteq Events(conn[k])
      /\ Flows(conn'[k], sent)
      /\ UNCHANGED <<slot, client, inflight, sent, taken>>
      /\ faults' \in 0 .. MaxFaults
  BY SeverDoes
<1>2. conn[k].up
  BY DEF Sever
<1>3. EndsAgree(conn[k]) /\ ConsumerAgrees(conn[k])
  BY DEF IInv, Orderly
<1>4. EndsAgree(conn'[k])
  BY <1>1, <1>2, <1>3, UnusedIsEmpty DEF EndsAgree
<1>5. ConsumerAgrees(conn[k])'
  BY <1>1, <1>3 DEF ConsumerAgrees
<1>6. TypeOK'
  BY <1>1 DEF IInv, TypeOK, OnlyAt
<1> QED
  BY <1>1, <1>4, <1>5, <1>6, StaysLinked, StaysRegistered, OneConnection, SentIsNatural

\* A restart of the Control Plane keeps the invariant.
LEMMA ControlPlaneRestartsKeeps ==
    ASSUME IInv, ControlPlaneRestarts
    PROVE  IInv'
<1>1. /\ slot' = None /\ UNCHANGED <<client, sent, taken>>
      /\ conn' = [k \in Conns |-> IF conn[k] = Unused THEN Unused ELSE LeftByServer(k)]
      /\ faults' \in 0 .. MaxFaults
  BY BoundsAreNatural DEF ControlPlaneRestarts, Fault, IInv, TypeOK
<1>2. /\ inflight' \in [Requests -> Request]
      /\ \A q \in Requests : inflight'[q].status # "waiting"
  <2>1. inflight' = [q \in Requests |-> IF inflight[q].status = "waiting"
                                        THEN [inflight[q] EXCEPT !.status = "failed"] ELSE inflight[q]]
    BY DEF ControlPlaneRestarts
  <2>2. ASSUME NEW q \in Requests
        PROVE  /\ inflight'[q] \in Request
               /\ inflight'[q].status # "waiting"
    <3>1. inflight[q] \in Request
      BY DEF IInv, TypeOK
    <3> QED
      BY <2>1, <3>1 DEF Request
  <2>3. inflight' = [q \in Requests |-> inflight'[q]]
    BY <2>1
  <2> QED
    BY <2>2, <2>3
<1>3. ASSUME NEW k \in Conns
      PROVE  /\ conn'[k] \in Connection /\ conn'[k].client = conn[k].client
             /\ conn'[k].server # "registered"
             /\ Orderly(k)'
  <2>1. conn[k] \in Connection /\ EndsAgree(conn[k]) /\ ConsumerAgrees(conn[k])
        /\ Flows(conn[k], sent) /\ sent \in Nat
    BY DEF IInv, TypeOK, Orderly
  <2>2. CASE conn[k] = Unused
    <3>1. conn'[k] = conn[k]
      BY <1>1, <2>2
    <3> QED
      BY <1>1, <2>1, <2>2, <3>1, UnusedIsEmpty DEF Orderly, ConsumerAgrees
  <2>3. CASE conn[k] # Unused
    <3>1. conn'[k] = LeftByServer(k)
      BY <1>1, <2>3
    <3>2. /\ conn'[k] \in Connection /\ conn'[k].client = conn[k].client
          /\ conn'[k].server = "ended" /\ conn'[k].consumer = conn[k].consumer
          /\ conn'[k].handling = conn[k].handling
      BY <2>1, <3>1, LeftByServerIs
    <3>3. EndsAgree(conn'[k]) /\ Flows(conn'[k], sent)
      BY <2>1, <3>1, LeftByServerIsOrderly
    <3>4. ConsumerAgrees(conn[k])'
      BY <1>1, <2>1, <3>2 DEF ConsumerAgrees
    <3> QED
      BY <1>1, <3>2, <3>3, <3>4 DEF Orderly
  <2> QED
    BY <2>2, <2>3
<1>4. conn' \in [Conns -> Connection]
  BY <1>1, <1>3
<1>5. TypeOK'
  BY <1>1, <1>2, <1>4 DEF IInv, TypeOK
<1>6. Linked'
  BY <1>1, <1>3 DEF IInv, Linked
<1>7. SlotIsTheRegistered' /\ NoHangingRequest'
  BY <1>1, <1>2, <1>3, NoneIsNobody DEF SlotIsTheRegistered, NoHangingRequest
<1> QED
  BY <1>3, <1>5, <1>6, <1>7 DEF IInv

-----------------------------------------------------------------------------
\* The invariants.

\* It holds at the start ...
LEMMA InitEstablishes == Init => IInv
<1> SUFFICES ASSUME Init PROVE IInv
  OBVIOUS
<1>1. \A k \in Conns : conn[k] = Unused
  BY DEF Init
<1>2. TypeOK
  BY UnusedIsEmpty, BoundsAreNatural DEF Init, TypeOK, Session, Request
<1>3. Linked /\ SlotIsTheRegistered /\ NoHangingRequest
  BY <1>1, UnusedIsEmpty, NoneIsNobody DEF Init, Linked, SlotIsTheRegistered, NoHangingRequest
<1>4. Events(Unused) = {} /\ Ascending(Unused.toServer, "runtime_event")
  BY UnusedIsEmpty, NumbersOfNothing DEF Events
<1>5. EndsAgree(Unused) /\ ConsumerAgrees(Unused) /\ Flows(Unused, sent)
  BY <1>4, UnusedIsEmpty, EmptyFlows DEF EndsAgree, ConsumerAgrees
<1> QED
  BY <1>1, <1>2, <1>3, <1>5 DEF IInv, Orderly

\* ... and whatever the step.
LEMMA NextKeeps == IInv /\ [Next]_vars => IInv'
<1> SUFFICES ASSUME IInv, [Next]_vars PROVE IInv'
  OBVIOUS
<1>1. ASSUME NEW c \in Clients, ClientStep(c) \/ ClientRestarts(c) PROVE IInv'
  BY <1>1, ConnectKeeps, ReceiveCommandKeeps, ReplyTranscriptKeeps, CloseKeeps, LeaveKeeps
  DEF ClientStep
<1>2. ASSUME NEW k \in Conns,
             ConsumerStep(k) \/ ConsumerException(k) \/ ServerStep(k) \/ ResponseTooLong(k) \/ Sever(k)
      PROVE  IInv'
  BY <1>2, ConsumerKeeps, AcceptRegistrationKeeps, ServeEndsKeeps, ServerReceivesKeeps,
     RecycleKeeps, SeverKeeps DEF ServerStep
<1>3. CASE SendCommand
  BY <1>3, SendCommandKeeps
<1>4. ASSUME NEW q \in Requests, RequestTranscript(q) \/ TranscriptTimesOut(q) PROVE IInv'
  BY <1>4, RequestTranscriptKeeps, TranscriptTimesOutKeeps
<1>5. CASE ControlPlaneRestarts
  BY <1>5, ControlPlaneRestartsKeeps
<1>6. CASE UNCHANGED vars
  <2>1. TypeOK' /\ Linked' /\ SlotIsTheRegistered' /\ NoHangingRequest'
    BY <1>6 DEF vars, IInv, TypeOK, Linked, SlotIsTheRegistered, NoHangingRequest
  <2>2. ASSUME NEW k \in Conns PROVE Orderly(k)'
    BY <1>6 DEF vars, IInv, Orderly, EndsAgree, ConsumerAgrees
  <2> QED
    BY <2>1, <2>2 DEF IInv
<1> QED
  BY <1>1, <1>2, <1>3, <1>4, <1>5, <1>6 DEF Next

\* In every state: the two ends of each connection, the registry, the sessions and
\* the commands on their way agree.
THEOREM ChannelInvariant == Spec => []IInv
  BY InitEstablishes, NextKeeps, PTL DEF Spec

\* Every variable keeps its type.
THEOREM ChannelTypes == Spec => []TypeOK
<1>1. IInv => TypeOK
  BY DEF IInv
<1> QED
  BY <1>1, ChannelInvariant, PTL

\* The registry (ConnectionRegistry) names the connection whose `_serve` is
\* registered, and no other, whatever drops, dies, restarts or contends for it.
THEOREM RegistryIsNeverStale == Spec => []SlotIsTheRegistered
<1>1. IInv => SlotIsTheRegistered
  BY DEF IInv
<1> QED
  BY <1>1, ChannelInvariant, PTL

\* A transcript request that waits has a registered connection to wait for: every
\* way for that connection to go rejects it.
THEOREM NoRequestHangs == Spec => []NoHangingRequest
<1>1. IInv => NoHangingRequest
  BY DEF IInv
<1> QED
  BY <1>1, ChannelInvariant, PTL

\* No runtime has two handlers at work, over whatever connections it has come and
\* gone: it has at most one connection that calls it its own.
THEOREM HandlingIsSerial == Spec => []SerialHandling
<1>1. IInv => SerialHandling
  BY DEF IInv, Linked, SerialHandling
<1> QED
  BY <1>1, ChannelInvariant, PTL

-----------------------------------------------------------------------------
\* The runtime channel keeps the contract of OrderedDelivery: each of its steps is a
\* step of the contract, or none at all.

Contract == [Delivery!Next]_(Delivery!vars)

\* The invariant, of the connection k.
LEMMA AtConnection ==
    ASSUME IInv, NEW k \in Conns
    PROVE  /\ conn[k] \in Connection
           /\ EndsAgree(conn[k]) /\ ConsumerAgrees(conn[k]) /\ Flows(conn[k], sent)
           /\ conn[k].server = "registered" <=> slot = k
           /\ slot \in Conns \cup {None} /\ None \notin Conns
           /\ conn[k].client \in Clients \cup {None}
           /\ conn[k].client # None => client[conn[k].client].conn = k
           /\ sent \in Nat
BY NoneIsNobody, Fields DEF IInv, TypeOK, Orderly, SlotIsTheRegistered, Linked

-----------------------------------------------------------------------------
\* What takes a step to one of the contract.

\* Nothing the contract speaks of changes.
LEMMA Stutters ==
    ASSUME slot' = slot, sent' = sent, taken' = taken,
           slot # None => /\ Works(slot)' <=> Works(slot)
                          /\ Pending(slot)' = Pending(slot)
    PROVE  Contract
<1>1. Intact' = Intact /\ InTransit' = InTransit
  BY DEF Intact, InTransit
<1> QED
  BY <1>1 DEF Contract, Delivery!vars

\* A step at the connection that does not hold the slot.
LEMMA StuttersElsewhere ==
    ASSUME IInv, NEW k, OnlyAt(k), slot # k, slot' = slot, sent' = sent, taken' = taken,
           \A d \in Clients : client'[d] = client[d] \/ client[d].conn \in {k, None}
    PROVE  Contract
<1>1. CASE slot = None
  BY <1>1, Stutters
<1>2. CASE slot # None
  <2>1. PICK j \in Conns : slot = j /\ j # k
    BY <1>2 DEF IInv, TypeOK
  <2>2. conn'[j] = conn[j]
    BY <2>1 DEF OnlyAt
  <2>3. conn[j].up => client'[conn[j].client] = client[conn[j].client]
    BY <2>1, AtConnection DEF EndsAgree
  <2>4. Works(j)' <=> Works(j)
    BY <2>2, <2>3 DEF Works
  <2>5. Pending(j)' = Pending(j)
    BY <2>2, <2>4 DEF Pending
  <2>6. Works(slot)' <=> Works(slot)
    BY <2>1, <2>4 DEF Works
  <2>7. Pending(slot)' = Pending(slot)
    BY <2>1, <2>5
  <2> QED
    BY <2>6, <2>7, Stutters
<1> QED
  BY <1>1, <1>2

\* A step at the connection k that holds the slot, which changes nothing of what it
\* still works on ...
LEMMA StuttersAt ==
    ASSUME NEW k, slot = k, slot' = k, sent' = sent, taken' = taken,
           Works(k)' <=> Works(k), Pending(k)' = Pending(k)
    PROVE  Contract
<1>1. Works(slot)' <=> Works(slot)
  BY DEF Works
<1>2. Pending(slot)' = Pending(slot)
  OBVIOUS
<1> QED
  BY <1>1, <1>2, Stutters

\* ... or cuts it short.
LEMMA LosesAt ==
    ASSUME NEW k \in Conns, None \notin Conns, slot = k, slot' = k, sent' = sent, taken' = taken,
           ~Works(k)', Pending(k)' \subseteq Pending(k),
           \A m \in Pending(k)', n \in Pending(k) \ Pending(k)' : m < n
    PROVE  Contract
<1>1. Intact' = FALSE
  BY DEF Intact, Works
<1>2. InTransit = Pending(k) /\ InTransit' = Pending(k)'
  BY DEF InTransit
<1>3. Delivery!Lose
  BY <1>1, <1>2 DEF Delivery!Lose
<1> QED
  BY <1>3 DEF Contract, Delivery!Next

\* When nobody works at the far end, only the events on the wire still come.
LEMMA PendingOfTheDead ==
    ASSUME NEW k, ~conn[k].up \/ conn[k].consumer \in {"done", "dead"}
    PROVE  ~Works(k) /\ Pending(k) = Events(conn[k])
BY DEF Works, Pending

\* Losing all but the events on the wire is a cut.
LEMMA EventsAreFirst ==
    ASSUME IInv, NEW k \in Conns
    PROVE  /\ Events(conn[k]) \subseteq Pending(k)
           /\ \A m \in Events(conn[k]), n \in Pending(k) \ Events(conn[k]) : m < n
<1>1. Before(Events(conn[k]), Handled(conn[k]) \cup Queued(conn[k]) \cup Coming(conn[k]))
  BY AtConnection DEF Flows
<1> QED
  BY <1>1 DEF Pending, Before

-----------------------------------------------------------------------------
\* The steps of the clients.

\* A session that opens holds no slot yet.
LEMMA ConnectIsAllowed ==
    ASSUME IInv, NEW c \in Clients, NEW k \in Conns, Connect(c, k)
    PROVE  Contract
<1>1. conn[k].server = "none" /\ client[c].conn = None
  BY UnusedIsEmpty DEF Connect, IInv, Linked
<1>2. slot # k
  BY <1>1, AtConnection
<1>3. UNCHANGED <<slot, sent, taken>>
  BY DEF Connect
<1>4. conn' \in [Conns -> Connection]
  BY ConnectKeeps DEF IInv, TypeOK
<1>5. OnlyAt(k)
  BY <1>4 DEF OnlyAt, Connect, IInv, TypeOK
<1>6. \A d \in Clients : client'[d] = client[d] \/ client[d].conn \in {k, None}
  BY <1>1 DEF Connect, IInv, TypeOK
<1> QED
  BY <1>2, <1>3, <1>5, <1>6, StuttersElsewhere

\* A command received is pending as it was on the wire.
LEMMA ReceiveCommandIsAllowed ==
    ASSUME IInv, NEW c \in Clients, NEW k, k = client[c].conn, ReceiveCommand(c)
    PROVE  Contract
<1>1. UNCHANGED <<slot, client, sent, taken>> /\ client[c].phase = "session"
  BY DEF ReceiveCommand
<1>2. /\ OnlyAt(k) /\ conn[k].client = c
      /\ conn'[k].client = conn[k].client /\ conn'[k].up = conn[k].up
      /\ conn'[k].toServer = conn[k].toServer
      /\ conn'[k].consumer = conn[k].consumer /\ conn'[k].handling = conn[k].handling
  BY ReceiveCommandDoes
<1>3. /\ Queued(conn'[k]) = Queued(conn[k]) \cup {Head(conn[k].toClient).id}
      /\ Coming(conn[k]) = Coming(conn'[k]) \cup {Head(conn[k].toClient).id}
  <2>1. ASSUME NEW p, p = conn[k], NEW r, r = conn'[k]
        PROVE  /\ Queued(r) = Queued(p) \cup {Head(p.toClient).id}
               /\ Coming(p) = Coming(r) \cup {Head(p.toClient).id}
    BY <2>1, ReceiveCommandDoes
  <2> QED
    BY <2>1
<1>4. CASE slot # k
  BY <1>1, <1>2, <1>4, StuttersElsewhere
<1>5. CASE slot = k
  <2>1. k \in Conns /\ ConsumerAgrees(conn[k]) /\ c # None
    BY <1>2, AtConnection, NoneIsNobody DEF OnlyAt
  <2>2. conn[k].consumer \in {"idle", "busy", "dead"}
    BY <1>1, <1>2, <2>1 DEF ConsumerAgrees
  <2>3. Events(conn'[k]) = Events(conn[k]) /\ Handled(conn'[k]) = Handled(conn[k])
    BY <1>2 DEF Events, Handled
  <2>4. Works(k)' <=> Works(k)
    BY <1>1, <1>2 DEF Works
  <2>5. Pending(k)' = Pending(k)
    <3>1. CASE Works(k)
      <4>1. /\ Pending(k) = Events(conn[k]) \cup Handled(conn[k]) \cup Queued(conn[k])
                             \cup Coming(conn[k])
            /\ Pending(k)' = Events(conn'[k]) \cup Handled(conn'[k]) \cup Queued(conn'[k])
                             \cup Coming(conn'[k])
        BY <2>4, <3>1 DEF Pending, Works
      <4> QED
        BY <1>3, <2>3, <4>1
    <3>2. CASE ~Works(k)
      <4>1. ~conn[k].up \/ conn[k].consumer = "dead"
        BY <1>1, <1>2, <2>2, <3>2 DEF Works
      <4>2. Pending(k) = Events(conn[k]) /\ Pending(k)' = Events(conn'[k])
        BY <1>2, <2>4, <3>2, <4>1 DEF Pending
      <4> QED
        BY <2>3, <4>2
    <3> QED
      BY <3>1, <3>2
  <2> QED
    BY <1>1, <1>5, <2>4, <2>5, StuttersAt
<1> QED
  BY <1>4, <1>5

\* A reply is not the contract's business.
LEMMA ReplyTranscriptIsAllowed ==
    ASSUME IInv, NEW c \in Clients, NEW k, k = client[c].conn, ReplyTranscript(c)
    PROVE  Contract
<1>1. UNCHANGED <<slot, client, sent, taken>>
  BY DEF ReplyTranscript
<1>2. /\ OnlyAt(k)
      /\ conn'[k].client = conn[k].client /\ conn'[k].up = conn[k].up
      /\ conn'[k].queue = conn[k].queue
      /\ conn'[k].consumer = conn[k].consumer /\ conn'[k].handling = conn[k].handling
      /\ Events(conn'[k]) = Events(conn[k]) /\ Coming(conn'[k]) = Coming(conn[k])
  BY ReplyTranscriptDoes
<1>3. CASE slot # k
  BY <1>1, <1>2, <1>3, StuttersElsewhere
<1>4. CASE slot = k
  <2>1. Works(k)' <=> Works(k)
    <3>1. /\ conn'[k].client = conn[k].client /\ conn'[k].up = conn[k].up
          /\ conn'[k].consumer = conn[k].consumer
      BY <1>2
    <3> QED
      BY <1>1, <3>1 DEF Works
  <2>2. Pending(k)' = Pending(k)
    <3>1. /\ Events(conn'[k]) = Events(conn[k]) /\ Coming(conn'[k]) = Coming(conn[k])
          /\ Handled(conn'[k]) = Handled(conn[k]) /\ Queued(conn'[k]) = Queued(conn[k])
      BY <1>2 DEF Handled, Queued
    <3>2. conn'[k].up = conn[k].up /\ conn'[k].consumer = conn[k].consumer
      BY <1>2
    <3> QED
      BY <2>1, <3>1, <3>2 DEF Pending
  <2> QED
    BY <1>1, <1>4, <2>1, <2>2, StuttersAt
<1> QED
  BY <1>3, <1>4

\* Closing loses what is on the wire, and the queue with an idle consumer.
LEMMA CloseIsAllowed ==
    ASSUME IInv, NEW c \in Clients, NEW k, k = client[c].conn,
           TranscriptRaises(c) \/ ClientNotices(c)
    PROVE  Contract
<1>1. /\ OnlyAt(k) /\ conn[k].client = c
      /\ conn'[k].client = conn[k].client /\ conn'[k].up = conn[k].up
      /\ conn'[k].toServer = conn[k].toServer /\ conn'[k].queue = conn[k].queue
      /\ conn'[k].handling = conn[k].handling
      /\ conn'[k].consumer = Cancelled(conn[k].consumer)
      /\ client' = [client EXCEPT ![c].phase = "closing"]
      /\ UNCHANGED <<slot, sent, taken>>
  BY CloseDoes
<1>2. client'[c].phase = "closing" /\ \A d \in Clients \ {c} : client'[d] = client[d]
  BY <1>1 DEF IInv, TypeOK
<1>3. CASE slot # k
  BY <1>1, <1>2, <1>3, StuttersElsewhere
<1>4. CASE slot = k
  <2>1. k \in Conns /\ ConsumerAgrees(conn[k]) /\ Flows(conn[k], sent) /\ None \notin Conns
    BY <1>1, AtConnection DEF OnlyAt
  <2>2. ~Works(k)'
    BY <1>1, <1>2 DEF Works
  <2>3. /\ Events(conn'[k]) = Events(conn[k]) /\ Handled(conn'[k]) = Handled(conn[k])
        /\ Queued(conn'[k]) = Queued(conn[k])
    BY <1>1 DEF Events, Handled, Queued
  <2>4. \/ Pending(k)' = Events(conn[k])
        \/ /\ conn[k].up /\ conn[k].consumer \notin {"done", "dead"}
           /\ Pending(k)' = Events(conn[k]) \cup Handled(conn[k]) \cup Queued(conn[k])
    BY <1>1, <2>2, <2>3 DEF Pending, Cancelled
  <2>5. Pending(k)' \subseteq Pending(k)
    BY <2>4 DEF Pending
  <2>6. ASSUME NEW m \in Pending(k)', NEW n \in Pending(k) \ Pending(k)'
        PROVE  m < n
    BY <2>1, <2>4 DEF Pending, Flows, Before
  <2> QED
    BY <1>1, <1>4, <2>1, <2>2, <2>5, <2>6, LosesAt
<1> QED
  BY <1>3, <1>4

\* Leaving loses all but the events already sent.
LEMMA LeaveIsAllowed ==
    ASSUME IInv, NEW c \in Clients, NEW k, k = client[c].conn,
           SessionEnds(c) \/ ClientRestarts(c)
    PROVE  Contract
<1>1. /\ OnlyAt(k) /\ ~conn'[k].up /\ Events(conn'[k]) = Events(conn[k])
      /\ client' = [client EXCEPT ![c] = Waiting]
      /\ UNCHANGED <<slot, sent, taken>>
  BY LeaveDoes
<1>2. \A d \in Clients \ {c} : client'[d] = client[d]
  BY <1>1 DEF IInv, TypeOK
<1>3. CASE slot # k
  BY <1>1, <1>2, <1>3, StuttersElsewhere
<1>4. CASE slot = k
  <2>1. k \in Conns /\ None \notin Conns
    BY <1>1, AtConnection DEF OnlyAt
  <2>2. ~Works(k)' /\ Pending(k)' = Events(conn[k])
    BY <1>1 DEF Works, Pending
  <2> QED
    BY <1>1, <1>4, <2>1, <2>2, EventsAreFirst, LosesAt
<1> QED
  BY <1>3, <1>4

-----------------------------------------------------------------------------
\* The steps of the consumers.

\* A command taken from the queue is pending still.
LEMMA TakeCommandIsAllowed ==
    ASSUME IInv, NEW k \in Conns, TakeCommand(k)
    PROVE  Contract
<1>1. UNCHANGED <<slot, client, sent, taken>>
  BY DEF TakeCommand
<1>2. /\ OnlyAt(k)
      /\ conn'[k].client = conn[k].client /\ conn'[k].up = conn[k].up
      /\ conn'[k].toServer = conn[k].toServer /\ conn'[k].toClient = conn[k].toClient
      /\ conn[k].consumer = "idle" /\ conn'[k].consumer = "busy"
      /\ Handled(conn[k]) = {} /\ Queued(conn[k]) = Queued(conn'[k]) \cup Handled(conn'[k])
  BY TakeCommandDoes
<1>3. CASE slot # k
  BY <1>1, <1>2, <1>3, StuttersElsewhere
<1>4. CASE slot = k
  <2>1. Works(k)' <=> Works(k)
    BY <1>1, <1>2 DEF Works
  <2>2. Events(conn'[k]) = Events(conn[k]) /\ Coming(conn'[k]) = Coming(conn[k])
    BY <1>2 DEF Events, Coming
  <2>3. Handled(conn'[k]) \cup Queued(conn'[k]) = Handled(conn[k]) \cup Queued(conn[k])
    BY <1>2
  <2>4. Pending(k)' = Pending(k)
    BY <1>2, <2>1, <2>2, <2>3 DEF Pending
  <2> QED
    BY <1>1, <1>4, <2>1, <2>4, StuttersAt
<1> QED
  BY <1>3, <1>4

\* A command handled is pending as its event, or lost with all behind it.
LEMMA HandlerEndsIsAllowed ==
    ASSUME IInv, NEW k \in Conns, HandlerReturns(k) \/ HandlerRaises(k) \/ CancelUnwinds(k)
    PROVE  Contract
<1>1. UNCHANGED <<slot, client, sent, taken>>
  BY DEF HandlerReturns, HandlerRaises, CancelUnwinds
<1>2. /\ OnlyAt(k)
      /\ conn'[k].client = conn[k].client /\ conn'[k].up = conn[k].up
      /\ conn'[k].toClient = conn[k].toClient /\ conn'[k].queue = conn[k].queue
      /\ conn'[k].handling = None
  BY HandlerEndsDoes
<1>3. \/ /\ conn[k].consumer = "busy" /\ conn[k].up /\ conn'[k].consumer = "idle"
         /\ Events(conn'[k]) = Events(conn[k]) \cup Handled(conn[k])
      \/ /\ conn'[k].consumer \in {"dead", "done"}
         /\ conn'[k].toServer = conn[k].toServer
  BY HandlerEndsDoes
<1>4. CASE slot # k
  BY <1>1, <1>2, <1>4, StuttersElsewhere
<1>5. CASE slot = k /\ conn'[k].consumer = "idle"
  <2>1. Works(k)' <=> Works(k)
    BY <1>1, <1>2, <1>3, <1>5 DEF Works
  <2>2. /\ Handled(conn'[k]) = {} /\ Queued(conn'[k]) = Queued(conn[k])
        /\ Coming(conn'[k]) = Coming(conn[k])
        /\ Events(conn'[k]) = Events(conn[k]) \cup Handled(conn[k])
    BY <1>2, <1>3, <1>5 DEF Handled, Queued, Coming
  <2>3. Pending(k)' = Pending(k)
    BY <1>2, <1>3, <1>5, <2>1, <2>2 DEF Pending
  <2> QED
    BY <1>1, <1>5, <2>1, <2>3, StuttersAt
<1>6. CASE slot = k /\ conn'[k].consumer # "idle"
  <2>1. ~Works(k)' /\ Pending(k)' = Events(conn[k])
    BY <1>3, <1>6 DEF Works, Pending, Events
  <2> QED
    BY <1>1, <1>6, <2>1, AtConnection, EventsAreFirst, LosesAt
<1> QED
  BY <1>4, <1>5, <1>6

\* A swallowed cancellation brings nothing back: the receive loop is gone.
LEMMA CancelSwallowedIsAllowed ==
    ASSUME IInv, NEW k \in Conns, CancelSwallowed(k)
    PROVE  Contract
<1>1. UNCHANGED <<slot, client, sent, taken>>
  BY DEF CancelSwallowed
<1>2. /\ OnlyAt(k)
      /\ conn'[k].client = conn[k].client /\ conn'[k].up = conn[k].up
      /\ conn'[k].toServer = conn[k].toServer /\ conn'[k].toClient = conn[k].toClient
      /\ conn'[k].queue = conn[k].queue /\ conn'[k].handling = conn[k].handling
      /\ conn[k].consumer = "cancelled" /\ conn'[k].consumer = "busy"
  BY CancelSwallowedDoes
<1>3. CASE slot # k
  BY <1>1, <1>2, <1>3, StuttersElsewhere
<1>4. CASE slot = k
  <2>1. conn[k].client # None /\ client[conn[k].client].phase # "session"
    BY <1>2, AtConnection DEF EndsAgree, ConsumerAgrees
  <2>2. ~Works(k) /\ ~Works(k)'
    BY <1>1, <1>2, <2>1 DEF Works
  <2>3. /\ Events(conn'[k]) = Events(conn[k]) /\ Handled(conn'[k]) = Handled(conn[k])
        /\ Queued(conn'[k]) = Queued(conn[k])
    BY <1>2 DEF Events, Handled, Queued
  <2>4. Pending(k)' = Pending(k)
    BY <1>2, <2>2, <2>3 DEF Pending
  <2> QED
    BY <1>1, <1>4, <2>2, <2>4, StuttersAt
<1> QED
  BY <1>3, <1>4

-----------------------------------------------------------------------------
\* The steps of the Control Plane, and faults.

\* An accepted registration claims the slot, with nothing pending.
LEMMA AcceptRegistrationIsAllowed ==
    ASSUME IInv, NEW k \in Conns, AcceptRegistration(k)
    PROVE  Contract
<1>1. UNCHANGED <<client, sent, taken>>
  BY DEF AcceptRegistration
<1>2. /\ conn'[k].toClient = <<>> /\ conn'[k].queue = <<>> /\ conn'[k].handling = None
      /\ Events(conn'[k]) = {} /\ slot = None /\ slot' = k
  BY AcceptRegistrationDoes
<1>3. Handled(conn'[k]) = {} /\ Queued(conn'[k]) = {} /\ Coming(conn'[k]) = {}
  BY <1>2, NumbersOfNothing DEF Handled, Queued, Coming
<1>4. Pending(k)' = {}
  BY <1>2, <1>3 DEF Pending
<1>5. InTransit = {} /\ InTransit' = {} /\ Intact' \in BOOLEAN
  BY <1>2, <1>4 DEF InTransit, Intact
<1>6. slot' # None
  BY <1>2, AtConnection
<1>7. Delivery!Claim
  BY <1>1, <1>2, <1>5, <1>6 DEF Delivery!Claim
<1> QED
  BY <1>7 DEF Contract, Delivery!Next

\* The end of the slot's `_serve` releases it; any other changes nothing.
LEMMA ServeEndsIsAllowed ==
    ASSUME IInv, NEW k \in Conns,
           RejectRegistration(k) \/ ServerNotices(k) \/ ResponseTooLong(k)
    PROVE  Contract
<1>1. OnlyAt(k) /\ slot' = Released(k) /\ UNCHANGED <<client, sent, taken>>
  BY ServeEndsDoes
<1>2. CASE slot # k
  BY <1>1, <1>2, StuttersElsewhere DEF Released
<1>3. CASE slot = k
  <2>1. slot # None /\ slot' = None
    BY <1>1, <1>3, AtConnection DEF Released
  <2>2. Delivery!Release
    BY <1>1, <2>1 DEF Delivery!Release, Intact, InTransit
  <2> QED
    BY <2>2 DEF Contract, Delivery!Next
<1> QED
  BY <1>2, <1>3

\* The event received is that of the oldest command pending.
LEMMA ServerReceivesIsAllowed ==
    ASSUME IInv, NEW k \in Conns, ServerReceives(k)
    PROVE  Contract
<1>1. UNCHANGED <<slot, client, sent>>
  BY DEF ServerReceives
<1>2. /\ OnlyAt(k)
      /\ conn'[k].client = conn[k].client /\ conn'[k].up = conn[k].up
      /\ conn'[k].toClient = conn[k].toClient /\ conn'[k].queue = conn[k].queue
      /\ conn'[k].handling = conn[k].handling /\ conn'[k].consumer = conn[k].consumer
      /\ conn[k].server = "registered"
  BY ServerReceivesDoes
<1>3. \/ taken' = taken /\ Events(conn'[k]) = Events(conn[k])
      \/ \E n \in Numbers : /\ taken' = Append(taken, n)
                            /\ Events(conn[k]) = Events(conn'[k]) \cup {n}
                            /\ \A m \in Events(conn'[k]) : n < m
  BY ServerReceivesDoes
<1>4. slot = k /\ k # None
  BY <1>2, AtConnection
<1>5. Works(k)' <=> Works(k)
  BY <1>1, <1>2 DEF Works
<1>6. /\ Handled(conn'[k]) = Handled(conn[k]) /\ Queued(conn'[k]) = Queued(conn[k])
      /\ Coming(conn'[k]) = Coming(conn[k])
  BY <1>2 DEF Handled, Queued, Coming
<1>7. CASE taken' = taken /\ Events(conn'[k]) = Events(conn[k])
  <2>1. Pending(k)' = Pending(k)
    BY <1>2, <1>5, <1>6, <1>7 DEF Pending
  <2> QED
    BY <1>1, <1>4, <1>5, <1>7, <2>1, StuttersAt
<1>8. ASSUME NEW n \in Numbers, taken' = Append(taken, n),
             Events(conn[k]) = Events(conn'[k]) \cup {n},
             \A m \in Events(conn'[k]) : n < m
      PROVE  Contract
  <2> DEFINE rest == (IF conn[k].up /\ conn[k].consumer \notin {"done", "dead"}
                      THEN Handled(conn[k]) \cup Queued(conn[k]) ELSE {}) \cup
                     (IF Works(k) THEN Coming(conn[k]) ELSE {})
  <2>1. \A m \in rest : n < m
    BY <1>8, AtConnection DEF Flows, Before
  <2>2. Pending(k) = Events(conn[k]) \cup rest /\ Pending(k)' = Events(conn'[k]) \cup rest
    BY <1>2, <1>5, <1>6 DEF Pending
  <2> HIDE DEF rest
  <2>3. n \in Nat
    BY BoundsAreNatural DEF Numbers
  <2>4. n \in Pending(k) /\ Pending(k)' = Pending(k) \ {n} /\ \A m \in Pending(k) : n <= m
    <3>1. n \notin rest /\ n \notin Events(conn'[k])
      BY <1>8, <2>1, <2>3
    <3>2. \A m \in Pending(k) : m = n \/ n < m
      BY <1>8, <2>1, <2>2
    <3>3. \A m \in Pending(k) : m \in Nat
      BY AtConnection, InTransitAreNumbers DEF Pending
    <3>4. \A m \in Pending(k) : n <= m
      BY <2>3, <3>2, <3>3
    <3> QED
      BY <1>8, <2>2, <3>1, <3>4
  <2>5. InTransit = Pending(k) /\ InTransit' = Pending(k)' /\ Intact' = Intact
    BY <1>1, <1>4, <1>5 DEF InTransit, Intact, Works
  <2>6. Delivery!TakeIn
    BY <1>1, <1>8, <2>4, <2>5 DEF Delivery!TakeIn
  <2> QED
    BY <2>6 DEF Contract, Delivery!Next
<1> QED
  BY <1>3, <1>7, <1>8

\* A command sent is pending if both loops of the client are at work.
LEMMA SendCommandIsAllowed ==
    ASSUME IInv, SendCommand
    PROVE  Contract
<1>1. slot # None /\ UNCHANGED <<slot, client, taken>>
  BY DEF SendCommand
<1>2. PICK k \in Conns : slot = k
  BY <1>1 DEF IInv, TypeOK
<1> DEFINE m == [type |-> "command", id |-> sent']
<1>3. /\ sent' = sent + 1 /\ m \in ToClient /\ conn' = Deliver(k, m)
      /\ Coming(conn'[k]) = Coming(conn[k]) \cup (IF conn[k].up THEN {sent'} ELSE {})
  BY <1>2, SendCommandDoes
<1> HIDE DEF m
<1>4. /\ conn'[k].client = conn[k].client /\ conn'[k].up = conn[k].up
      /\ conn'[k].toServer = conn[k].toServer /\ conn'[k].queue = conn[k].queue
      /\ conn'[k].handling = conn[k].handling /\ conn'[k].consumer = conn[k].consumer
  BY <1>2, <1>3, DeliverDoes
<1>5. Works(k)' <=> Works(k)
  BY <1>1, <1>4 DEF Works
<1>6. /\ Events(conn'[k]) = Events(conn[k]) /\ Handled(conn'[k]) = Handled(conn[k])
      /\ Queued(conn'[k]) = Queued(conn[k])
  BY <1>4 DEF Events, Handled, Queued
<1>7. Pending(k)' = Pending(k) \cup (IF Works(k) THEN {sent'} ELSE {})
  <2>1. Works(k) => conn[k].up
    BY DEF Works
  <2> QED
    BY <1>3, <1>4, <1>5, <1>6, <2>1 DEF Pending
<1>8. InTransit = Pending(k) /\ InTransit' = Pending(k)'
  BY <1>1, <1>2 DEF InTransit
<1>9. Intact' = Intact
  BY <1>1, <1>2, <1>5 DEF Intact, Works
<1>10. Intact <=> Works(k)
  BY <1>1, <1>2 DEF Intact
<1>11. CASE Works(k)
  <2>1. (IF Intact THEN {sent'} ELSE {}) = {sent'}
    BY <1>10, <1>11
  <2>2. InTransit' = InTransit \cup {sent'}
    BY <1>7, <1>8, <1>11
  <2>3. Delivery!Send
    BY <1>1, <1>3, <1>9, <2>1, <2>2, Zenon DEF Delivery!Send
  <2> QED
    BY <2>3 DEF Contract, Delivery!Next
<1>12. CASE ~Works(k)
  <2>1. (IF Intact THEN {sent'} ELSE {}) = {}
    BY <1>10, <1>12
  <2>2. InTransit' = InTransit \cup {}
    BY <1>7, <1>8, <1>12
  <2>3. Delivery!Send
    BY <1>1, <1>3, <1>9, <2>1, <2>2, Zenon DEF Delivery!Send
  <2> QED
    BY <2>3 DEF Contract, Delivery!Next
<1> QED
  BY <1>11, <1>12

\* A transcript request is not the contract's business.
LEMMA RequestTranscriptIsAllowed ==
    ASSUME IInv, NEW q \in Requests, RequestTranscript(q)
    PROVE  Contract
<1>1. slot # None /\ UNCHANGED <<slot, client, sent, taken>>
  BY DEF RequestTranscript
<1>2. PICK k \in Conns : slot = k
  BY <1>1 DEF IInv, TypeOK
<1> DEFINE m == [type |-> "transcript_request", id |-> q]
<1>3. m \in ToClient /\ conn' = Deliver(k, m) /\ Coming(conn'[k]) = Coming(conn[k])
  BY <1>2, RequestTranscriptDoes
<1> HIDE DEF m
<1>4. /\ conn'[k].client = conn[k].client /\ conn'[k].up = conn[k].up
      /\ conn'[k].toServer = conn[k].toServer /\ conn'[k].queue = conn[k].queue
      /\ conn'[k].handling = conn[k].handling /\ conn'[k].consumer = conn[k].consumer
  BY <1>2, <1>3, DeliverDoes
<1>5. Works(k)' <=> Works(k)
  BY <1>1, <1>4 DEF Works
<1>6. Pending(k)' = Pending(k)
  BY <1>3, <1>4, <1>5 DEF Pending, Events, Handled, Queued
<1> QED
  BY <1>1, <1>2, <1>5, <1>6, StuttersAt

\* What is severed loses all but a prefix of the events.
LEMMA SeverIsAllowed ==
    ASSUME IInv, NEW k \in Conns, Sever(k)
    PROVE  Contract
<1>1. /\ OnlyAt(k) /\ ~conn'[k].up
      /\ Events(conn'[k]) \subseteq Events(conn[k])
      /\ \A m \in Events(conn'[k]), n \in Events(conn[k]) \ Events(conn'[k]) : m < n
      /\ UNCHANGED <<slot, client, sent, taken>>
  BY SeverDoes
<1>2. CASE slot # k
  BY <1>1, <1>2, StuttersElsewhere
<1>3. CASE slot = k
  <2>1. ~Works(k)' /\ Pending(k)' = Events(conn'[k])
    BY <1>1 DEF Works, Pending
  <2>2. /\ Pending(k)' \subseteq Pending(k)
        /\ \A m \in Pending(k)', n \in Pending(k) \ Pending(k)' : m < n
    BY <1>1, <2>1, EventsAreFirst
  <2> QED
    BY <1>1, <1>3, <2>1, <2>2, AtConnection, LosesAt
<1> QED
  BY <1>2, <1>3

\* A restart releases the slot.
LEMMA ControlPlaneRestartsIsAllowed ==
    ASSUME ControlPlaneRestarts
    PROVE  Contract
<1>1. slot' = None /\ UNCHANGED <<sent, taken>>
  BY DEF ControlPlaneRestarts
<1>2. CASE slot = None
  BY <1>1, <1>2, Stutters
<1>3. CASE slot # None
  <2>1. Delivery!Release
    BY <1>1, <1>3 DEF Delivery!Release, Intact, InTransit
  <2> QED
    BY <2>1 DEF Contract, Delivery!Next
<1> QED
  BY <1>2, <1>3

\* Every step is a step of the contract, or leaves what it speaks of alone.
LEMMA NextIsAllowed ==
    ASSUME IInv, [Next]_vars
    PROVE  Contract
<1>1. ASSUME NEW c \in Clients, ClientStep(c) \/ ClientRestarts(c) PROVE Contract
  BY <1>1, ConnectIsAllowed, ReceiveCommandIsAllowed, ReplyTranscriptIsAllowed, CloseIsAllowed,
     LeaveIsAllowed DEF ClientStep
<1>2. ASSUME NEW k \in Conns, ConsumerStep(k) \/ ConsumerException(k) PROVE Contract
  BY <1>2, TakeCommandIsAllowed, HandlerEndsIsAllowed, CancelSwallowedIsAllowed
  DEF ConsumerStep, ConsumerException
<1>3. ASSUME NEW k \in Conns, Recycle(k) PROVE Contract
  BY <1>3, RecycleKeeps, AtConnection, StuttersElsewhere
<1>4. ASSUME NEW k \in Conns, ServerStep(k) \/ ResponseTooLong(k) \/ Sever(k) PROVE Contract
  BY <1>3, <1>4, AcceptRegistrationIsAllowed, ServeEndsIsAllowed, ServerReceivesIsAllowed,
     SeverIsAllowed DEF ServerStep
<1>5. ASSUME NEW q \in Requests, TranscriptTimesOut(q) PROVE Contract
  BY <1>5, Stutters DEF TranscriptTimesOut, Works, Pending
<1>6. CASE UNCHANGED vars
  BY <1>6, Stutters DEF vars, Works, Pending
<1> QED
  BY <1>1, <1>2, <1>4, <1>5, <1>6, SendCommandIsAllowed, RequestTranscriptIsAllowed,
     ControlPlaneRestartsIsAllowed DEF Next

\* Whatever drops, crashes, raises or contends for the slot, the runtime channel
\* keeps the contract that the other modules build on: commands are handled in
\* order, at most once, and what is lost is lost with all that came behind it.
THEOREM ChannelKeepsTheContract == Spec => KeepsTheContract
<1>1. Init => Delivery!Init
  BY DEF Init, Delivery!Init, Intact, InTransit
<1>2. IInv /\ [Next]_vars => [Delivery!Next]_(Delivery!vars)
  BY NextIsAllowed DEF Contract
<1> QED
  BY <1>1, <1>2, ChannelInvariant, PTL DEF Spec, KeepsTheContract, Delivery!Spec

\* Events come in the order of their commands and never twice, over every
\* connection that ever held the slot.
THEOREM ChannelDeliversInOrder == Spec => []Delivery!InOrder
BY ChannelKeepsTheContract, Delivery!EventsComeInOrder, PTL DEF KeepsTheContract
=============================================================================
