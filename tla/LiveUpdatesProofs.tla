-------------------------- MODULE LiveUpdatesProofs --------------------------
(***************************************************************************)
(* One tab with any views, keys, changes and losses: what a view shows is  *)
(* of its key, never goes back, and is up to date once the stream is open  *)
(* and everything on its way to the view has been acted on.                *)
(***************************************************************************)
EXTENDS LiveUpdates, TLAPS

-----------------------------------------------------------------------------
\* The inductive invariant, part by part.

\* A stream that is not open yet, or never again, holds nothing.
StreamAgrees == stream \in {"connecting", "closed"} => queue = <<>>

\* A view waits for one request at a time, made for the key it has.
WaitsForOne ==
    \A v \in Views : \A f \in fetches[v] : f.live =>
        /\ Mounted(v) /\ f.key = query[v].key
        /\ \A g \in fetches[v] : g.live => g = f

\* What is shown was true once, and is older than any answer on its way.
NothingAhead ==
    \A v \in Views : Mounted(v) => \A s \in Shows[v] :
        /\ query[v].shown # None => query[v].shown.at[s] <= version[s]
        /\ \A f \in fetches[v] : f.live /\ f.read # None =>
              /\ f.read[s] <= version[s]
              /\ query[v].shown # None => query[v].shown.at[s] <= f.read[s]

\* A message about s is in q.
Holds(q, s) == \E i \in DOMAIN q : q[i] = s

\* Opening will make every view fetch again.
Opening == Holds(queue, "open")
Reopens == IF stream = "open" THEN hasOpened /\ Opening ELSE hasOpened \/ Opening

\* Something on its way will make v fetch s again.
Coming(v, s) ==
    \/ query[v].wanted
    \/ \E w \in Views : acting[w].phase = "made" /\ v \in acting[w].heard
    \/ Holds(queue, s)
    \/ Reopens

\* What v has asked for, or shows if it has not, is the newest of s.
Newest(v, s) ==
    IF \E f \in fetches[v] : f.live
    THEN \A f \in fetches[v] : f.live => f.read = None \/ f.read[s] = version[s]
    ELSE query[v].error \/ (query[v].shown # None /\ query[v].shown.at[s] = version[s])

KeptInformed ==
    lapses = {} =>
        \A v \in Views : Mounted(v) => \A s \in Followed(v) : Coming(v, s) \/ Newest(v, s)

IInv == TypeOK /\ StreamAgrees /\ WaitsForOne /\ ShowsItsKey /\ NothingAhead /\ KeptInformed

-----------------------------------------------------------------------------
\* Views and their data.

\* Every view shows data of the vocabulary.
LEMMA ShownData ==
    ASSUME NEW v \in Views
    PROVE  Shows[v] \subseteq Data
BY ViewsAreKnown DEF Shows, Registers, Data, Scopes

\* Every view follows something, and what it follows of the scopes it registers for.
LEMMA FollowedData ==
    ASSUME NEW v \in Views
    PROVE  /\ Followed(v) # {} /\ Followed(v) \subseteq Shows[v]
           /\ \A s \in Followed(v) \cap Scopes : s \in Registers[v]
BY ViewsAreKnown DEF Followed, Shows, Registers, Scopes

\* What a view reads is a snapshot.
LEMMA CurrentIsSnapshot ==
    ASSUME TypeOK, NEW v \in Views
    PROVE  /\ Current(v) \in Snapshot(v) /\ Current(v) # None
           /\ \A s \in Shows[v] : Current(v)[s] = version[s]
<1>1. Shows[v] \subseteq Data
  BY ShownData
<1>2. Current(v) \in Snapshot(v)
  BY <1>1 DEF Current, Snapshot, TypeOK
<1> QED
  BY <1>2, NoneIsNothing DEF Current

\* The fields of a mounted view.
LEMMA QueryFields ==
    ASSUME TypeOK, NEW v \in Views, Mounted(v)
    PROVE  /\ query[v] \in Query(v)
           /\ query[v].key \in Keys /\ query[v].shown \in Shown(v) \cup {None}
           /\ query[v].error \in BOOLEAN /\ query[v].wanted \in BOOLEAN
BY DEF TypeOK, Mounted, Query

\* What writes change is not what a scope does not name, unless it says so.
LEMMA WrittenData ==
    ASSUME NEW v \in Writers
    PROVE  Writes[v] \in Data /\ v \in Views
BY DEF Writers, Writes, Data, Scopes

-----------------------------------------------------------------------------
\* What the steps do to queries and requests.

NewFetch(k) == [key |-> k, read |-> None, live |-> TRUE]

\* After a request is sent it is the only one waited for.
LEMMA SendDoes ==
    ASSUME TypeOK, NEW v \in Views, NEW k \in Keys, Send(v, k)
    PROVE  /\ DOMAIN fetches' = Views /\ \A w \in Views : fetches'[w] \subseteq Fetch(w)
           /\ \A w \in Views \ {v} : fetches'[w] = fetches[w]
           /\ NewFetch(k) \in fetches'[v]
           /\ \A f \in fetches'[v] : f.live => f = NewFetch(k)
<1>1. fetches' = [fetches EXCEPT ![v] = Late(v) \cup {NewFetch(k)}] /\ DOMAIN fetches = Views
  BY DEF Send, NewFetch, TypeOK
<1>2. NewFetch(k) \in Fetch(v)
  BY DEF NewFetch, Fetch
<1>3. \A f \in Late(v) : f \in Fetch(v) /\ ~f.live
  BY DEF Late, TypeOK, Fetch
<1> QED
  BY <1>1, <1>2, <1>3 DEF TypeOK

\* A refetch sets the token of the mounted views, and nothing else.
LEMMA RefetchDoes ==
    ASSUME TypeOK, NEW vs, Refetch(vs)
    PROVE  /\ DOMAIN query' = Views /\ \A v \in Views : query'[v] \in Query(v) \cup {None}
           /\ \A v \in Views : query[v] = None <=> query'[v] = None
           /\ \A v \in Views : Mounted(v) =>
                 /\ query'[v].key = query[v].key /\ query'[v].shown = query[v].shown
                 /\ query'[v].error = query[v].error
                 /\ query'[v].wanted <=> query[v].wanted \/ v \in vs
<1> SUFFICES ASSUME NEW v \in Views
             PROVE  /\ query'[v] \in Query(v) \cup {None}
                    /\ query[v] = None <=> query'[v] = None
                    /\ Mounted(v) =>
                         /\ query'[v].key = query[v].key /\ query'[v].shown = query[v].shown
                         /\ query'[v].error = query[v].error
                         /\ query'[v].wanted <=> query[v].wanted \/ v \in vs
  BY DEF Refetch
<1>1. CASE v \in vs /\ query[v] # None
  <2>1. query'[v] = [query[v] EXCEPT !.wanted = TRUE]
    BY <1>1 DEF Refetch
  <2>2. query[v] \in Query(v)
    BY <1>1 DEF TypeOK
  <2>3. /\ query'[v] \in Query(v) /\ query'[v].wanted = TRUE
        /\ query'[v].key = query[v].key /\ query'[v].shown = query[v].shown
        /\ query'[v].error = query[v].error
    BY <2>1, <2>2 DEF Query
  <2> QED
    BY <1>1, <2>3, NoneIsNothing
<1>2. CASE ~(v \in vs /\ query[v] # None)
  BY <1>2 DEF Refetch, TypeOK, Mounted
<1> QED
  BY <1>1, <1>2

-----------------------------------------------------------------------------
\* TypeOK, action by action.

\* A change of some data keeps the versions within their bound.
LEMMA ChangeKeepsTypes ==
    ASSUME TypeOK, NEW touched \in SUBSET Data, NEW told \in Seq(Scopes), Change(touched, told)
    PROVE  TypeOK'
<1>1. version' \in [Data -> 0 .. MaxChanges]
  <2>1. \A s \in Data : version[s] \in 0 .. MaxChanges /\ MaxChanges \in Nat
    BY LiveBounds DEF TypeOK
  <2> QED
    BY <2>1 DEF Change
<1>2. queue' \in Seq(Scopes \cup {"open"})
  BY DEF TypeOK, Change
<1>3. lapses' \subseteq Lapse
  BY DEF TypeOK, Change, Lapse
<1> QED
  BY <1>1, <1>2, <1>3 DEF TypeOK, Change, Query, Fetch, Snapshot, Shown

\* What a message on a queue says stays on it when more is put behind or before it.
LEMMA JoinHolds ==
    ASSUME NEW S, NEW p \in Seq(S), NEW q \in Seq(S), NEW s, Holds(p, s) \/ Holds(q, s)
    PROVE  Holds(p \o q, s)
<1>1. CASE Holds(p, s)
  BY <1>1 DEF Holds
<1>2. CASE Holds(q, s)
  <2>1. PICK i \in DOMAIN q : q[i] = s
    BY <1>2 DEF Holds
  <2>2. Len(p) + i \in DOMAIN (p \o q) /\ (p \o q)[Len(p) + i] = s
    BY <2>1
  <2> QED
    BY <2>2 DEF Holds
<1> QED
  BY <1>1, <1>2

\* Messages about scopes, joined.
LEMMA JoinsAreScopes ==
    ASSUME NEW p \in Seq(Scopes), NEW q \in Seq(Scopes)
    PROVE  p \o q \in Seq(Scopes)
OBVIOUS

\* What is published of an event are the scopes its tables are in, each of them.
LEMMA InvalidationsAreScopes ==
    ASSUME NEW type
    PROVE  /\ InvalidationsFor(type) \in Seq(Scopes) /\ Touches(type) \in SUBSET Data
           /\ \A s \in Touches(type) : Holds(InvalidationsFor(type), s)
<1> DEFINE Message(s) == IF s \in Touches(type) THEN <<s>> ELSE <<>>
<1>1. \A s \in Scopes : Message(s) \in Seq(Scopes)
  OBVIOUS
<1>2. \A s \in Touches(type) : Len(Message(s)) = 1 /\ Message(s)[1] = s
  OBVIOUS
<1>3. Touches(type) \subseteq {"devcontainers", "agent_sessions", "approvals", "inbox"}
  BY DEF Touches
<1>4. InvalidationsFor(type) = Message("devcontainers") \o Message("agent_sessions")
                               \o Message("approvals") \o Message("inbox")
  BY DEF InvalidationsFor
<1> HIDE DEF Message
<1>a. /\ Message("devcontainers") \in Seq(Scopes) /\ Message("agent_sessions") \in Seq(Scopes)
      /\ Message("approvals") \in Seq(Scopes) /\ Message("inbox") \in Seq(Scopes)
  BY <1>1 DEF Scopes
<1>5. ASSUME NEW s \in Touches(type)
      PROVE  Holds(InvalidationsFor(type), s)
  <2>1. Holds(Message(s), s)
    <3>1. Len(Message(s)) = 1 /\ Message(s)[1] = s
      BY <1>2, <1>5
    <3>2. Message(s) \in Seq(Scopes)
      BY <1>1, <1>3, <1>5 DEF Scopes
    <3>3. 1 \in DOMAIN Message(s)
      BY <3>1, <3>2
    <3> QED
      BY <3>1, <3>3 DEF Holds
  <2>2. s \in {"devcontainers", "agent_sessions", "approvals", "inbox"}
    BY <1>3, <1>5
  <2>3. ASSUME NEW a \in Seq(Scopes), NEW b \in Seq(Scopes), NEW c \in Seq(Scopes),
               NEW d \in Seq(Scopes),
               Holds(a, s) \/ Holds(b, s) \/ Holds(c, s) \/ Holds(d, s)
        PROVE  Holds(a \o b \o c \o d, s)
    <3>1. a \o b \in Seq(Scopes) /\ a \o b \o c \in Seq(Scopes)
      BY JoinsAreScopes
    <3>2. Holds(a, s) \/ Holds(b, s) => Holds(a \o b, s)
      BY JoinHolds
    <3>3. Holds(a \o b, s) \/ Holds(c, s) => Holds(a \o b \o c, s)
      BY <3>1, JoinHolds
    <3>4. Holds(a \o b \o c, s) \/ Holds(d, s) => Holds(a \o b \o c \o d, s)
      BY <3>1, JoinHolds
    <3> QED
      BY <2>3, <3>2, <3>3, <3>4
  <2>4. \/ Holds(Message("devcontainers"), s) \/ Holds(Message("agent_sessions"), s)
        \/ Holds(Message("approvals"), s) \/ Holds(Message("inbox"), s)
    BY <2>1, <2>2
  <2> QED
    BY <1>4, <1>a, <2>3, <2>4
<1>8. InvalidationsFor(type) \in Seq(Scopes)
  BY <1>4, <1>a
<1>9. Touches(type) \in SUBSET Data
  BY DEF Touches, Data
<1> QED
  BY <1>5, <1>8, <1>9

\* The tab's and the network's steps on the stream.
LEMMA StreamKeepsTypes ==
    ASSUME TypeOK,
           Accept \/ Refuse \/ Break \/ Notice \/ ReceiveOpen \/ ReceiveInvalidation
    PROVE  TypeOK'
<1> USE DEF Query, Fetch, Snapshot, Shown
<1>1. CASE Accept
  BY <1>1 DEF TypeOK, Accept, Stream
<1>2. CASE Refuse
  <2>1. failures' \in 0 .. MaxFailures
    BY <1>2, LiveBounds DEF TypeOK, Refuse
  <2> QED
    BY <1>2, <2>1 DEF TypeOK, Refuse, Stream
<1>3. CASE Break
  <2>1. failures' \in 0 .. MaxFailures
    BY <1>3, LiveBounds DEF TypeOK, Break
  <2>2. queue' \in Seq(Scopes \cup {"open"})
    BY <1>3 DEF TypeOK, Break
  <2>3. lapses' \subseteq Lapse
    BY <1>3 DEF TypeOK, Break, Lapse
  <2> QED
    BY <1>3, <2>1, <2>2, <2>3 DEF TypeOK, Break, Stream
<1>4. CASE Notice
  BY <1>4 DEF TypeOK, Notice, Stream
<1>5. CASE ReceiveOpen
  <2>1. queue' \in Seq(Scopes \cup {"open"})
    BY <1>5 DEF TypeOK, ReceiveOpen
  <2>2. DOMAIN query' = Views /\ \A v \in Views : query'[v] \in Query(v) \cup {None}
    BY <1>5, RefetchDoes DEF ReceiveOpen
  <2> QED
    BY <1>5, <2>1, <2>2 DEF TypeOK, ReceiveOpen
<1>6. CASE ReceiveInvalidation
  <2>1. queue' \in Seq(Scopes \cup {"open"})
    BY <1>6 DEF TypeOK, ReceiveInvalidation
  <2>2. DOMAIN query' = Views /\ \A v \in Views : query'[v] \in Query(v) \cup {None}
    BY <1>6, RefetchDoes DEF ReceiveInvalidation
  <2> QED
    BY <1>6, <2>1, <2>2 DEF TypeOK, ReceiveInvalidation
<1> QED
  BY <1>1, <1>2, <1>3, <1>4, <1>5, <1>6

\* A view that loads a key is a view.
LEMMA LoadingIsQuery ==
    ASSUME NEW v \in Views, NEW k \in Keys
    PROVE  /\ Loading(k) \in Query(v) /\ Loading(k) # None
           /\ Loading(k).key = k /\ Loading(k).shown = None
           /\ Loading(k).error = FALSE /\ Loading(k).wanted = FALSE
<1>1. Loading(k) \in Query(v)
  BY DEF Loading, Query
<1> QED
  BY <1>1, NoneIsNothing DEF Loading

\* useApiQuery keeps its state and its requests in order.
LEMMA QueriesKeepTypes ==
    ASSUME TypeOK, WaitsForOne, NEW v \in Views,
           \/ Mount(v) \/ ChangeKey(v) \/ SendAgain(v)
           \/ Answer(v) \/ FetchReturns(v) \/ FetchFails(v)
    PROVE  TypeOK'
<1> DEFINE Rest == /\ version' = version /\ stream' = stream /\ queue' = queue
                   /\ hasOpened' = hasOpened /\ acting' = acting /\ lapses' = lapses
           QTypes == DOMAIN query' = Views /\ \A w \in Views : query'[w] \in Query(w) \cup {None}
           FTypes == DOMAIN fetches' = Views /\ \A w \in Views : fetches'[w] \subseteq Fetch(w)
<1>0. ASSUME Rest, QTypes, FTypes, failures' \in 0 .. MaxFailures, moves' \in 0 .. MaxMoves
      PROVE  TypeOK'
  BY <1>0 DEF TypeOK, Query, Fetch, Snapshot, Shown
<1>a. Move => moves' \in 0 .. MaxMoves
  BY LiveBounds DEF TypeOK, Move
<1>b. failures \in 0 .. MaxFailures /\ moves \in 0 .. MaxMoves
  BY DEF TypeOK
<1>1. CASE Mount(v)
  <2>1. PICK k \in Keys : query' = [query EXCEPT ![v] = Loading(k)] /\ Send(v, k)
    BY <1>1 DEF Mount
  <2>2. QTypes
    BY <2>1, LoadingIsQuery DEF TypeOK
  <2>3. FTypes
    BY <2>1, SendDoes
  <2> QED
    BY <1>0, <1>1, <1>a, <1>b, <2>2, <2>3 DEF Mount, serverVars
<1>2. CASE ChangeKey(v)
  <2>1. PICK k \in Keys : query' = [query EXCEPT ![v] = Loading(k)] /\ Send(v, k)
    BY <1>2 DEF ChangeKey, Rekeyed
  <2>2. QTypes
    BY <2>1, LoadingIsQuery DEF TypeOK
  <2>3. FTypes
    BY <2>1, SendDoes
  <2> QED
    BY <1>0, <1>2, <1>a, <1>b, <2>2, <2>3 DEF ChangeKey, serverVars
<1>3. CASE SendAgain(v)
  <2>1. query[v] \in Query(v)
    BY <1>3 DEF TypeOK, SendAgain
  <2>2. [query[v] EXCEPT !.wanted = FALSE] \in Query(v) /\ query[v].key \in Keys
    BY <2>1 DEF Query
  <2>3. QTypes
    BY <1>3, <2>2 DEF TypeOK, SendAgain
  <2>4. FTypes
    BY <1>3, <2>2, SendDoes DEF SendAgain
  <2> QED
    BY <1>0, <1>3, <1>b, <2>3, <2>4 DEF SendAgain, serverVars
<1>4. CASE Answer(v)
  <2>1. PICK f \in fetches[v] :
            fetches' = [fetches EXCEPT ![v] = (fetches[v] \ {f}) \cup {[f EXCEPT !.read = Current(v)]}]
    BY <1>4 DEF Answer
  <2>2. [f EXCEPT !.read = Current(v)] \in Fetch(v)
    BY <2>1, CurrentIsSnapshot DEF TypeOK, Fetch
  <2>3. FTypes
    BY <2>1, <2>2 DEF TypeOK
  <2> QED
    BY <1>0, <1>4, <1>b, <2>3 DEF Answer, serverVars, TypeOK
<1>5. CASE FetchReturns(v)
  <2>1. PICK f \in fetches[v] :
            /\ f.read # None
            /\ fetches' = [fetches EXCEPT ![v] = fetches[v] \ {f}]
            /\ query' = IF f.live
                        THEN [query EXCEPT ![v].shown = [key |-> f.key, at |-> f.read],
                                           ![v].error = FALSE]
                        ELSE query
    BY <1>5 DEF FetchReturns
  <2>2. f.key \in Keys /\ f.read \in Snapshot(v)
    BY <2>1 DEF TypeOK, Fetch
  <2>3. [key |-> f.key, at |-> f.read] \in Shown(v)
    BY <2>2 DEF Shown
  <2>4. QTypes
    <3>1. CASE f.live
      <4>1. query[v] \in Query(v)
        BY <2>1, <3>1, QueryFields DEF WaitsForOne
      <4>2. query'[v] = [query[v] EXCEPT !.shown = [key |-> f.key, at |-> f.read],
                                         !.error = FALSE]
        BY <2>1, <3>1 DEF TypeOK
      <4>3. query'[v] \in Query(v)
        BY <2>3, <4>1, <4>2 DEF Query
      <4>4. DOMAIN query' = Views /\ \A w \in Views \ {v} : query'[w] = query[w]
        BY <2>1, <3>1 DEF TypeOK
      <4> QED
        BY <4>3, <4>4 DEF TypeOK
    <3> QED
      BY <2>1, <3>1 DEF TypeOK
  <2>5. FTypes
    BY <2>1 DEF TypeOK
  <2> QED
    BY <1>0, <1>5, <1>b, <2>4, <2>5 DEF FetchReturns, serverVars
<1>6. CASE FetchFails(v)
  <2>1. PICK f \in fetches[v] :
            /\ fetches' = [fetches EXCEPT ![v] = fetches[v] \ {f}]
            /\ query' = IF f.live THEN [query EXCEPT ![v].error = TRUE] ELSE query
    BY <1>6 DEF FetchFails
  <2>2. QTypes
    <3>1. CASE f.live
      <4>1. query[v] \in Query(v)
        BY <2>1, <3>1, QueryFields DEF WaitsForOne
      <4>2. query'[v] = [query[v] EXCEPT !.error = TRUE]
        BY <2>1, <3>1 DEF TypeOK
      <4>3. query'[v] \in Query(v)
        BY <4>1, <4>2 DEF Query
      <4>4. DOMAIN query' = Views /\ \A w \in Views \ {v} : query'[w] = query[w]
        BY <2>1, <3>1 DEF TypeOK
      <4> QED
        BY <4>3, <4>4 DEF TypeOK
    <3> QED
      BY <2>1, <3>1 DEF TypeOK
  <2>3. FTypes
    BY <2>1 DEF TypeOK
  <2>4. failures' \in 0 .. MaxFailures
    BY <1>6, LiveBounds DEF TypeOK, FetchFails
  <2> QED
    BY <1>0, <1>6, <1>b, <2>2, <2>3, <2>4 DEF FetchFails
<1> QED
  BY <1>1, <1>2, <1>3, <1>4, <1>5, <1>6

\* A write with other views to hear of it.
LEMMA HeardByDoes ==
    ASSUME NEW a \in Acting, NEW views \in SUBSET Views
    PROVE  /\ HeardBy(a, views) \in Acting /\ HeardBy(a, views).heard \subseteq views
           /\ views # {} => HeardBy(a, views).heard = views /\ HeardBy(a, views).phase = a.phase
           /\ HeardBy(a, views).phase = "made" => views # {} /\ a.phase = "made"
BY DEF HeardBy, Acting, Idle

\* The steps of the writes, and a view that goes, keep the record of who hears of them.
LEMMA WritesKeepTypes ==
    ASSUME TypeOK,
           \/ \E v \in Views : Unmount(v)
           \/ \E v \in Writers : ViewWrites(v)
    PROVE  TypeOK'
<1> DEFINE QTypes == DOMAIN query' = Views /\ \A w \in Views : query'[w] \in Query(w) \cup {None}
           FTypes == DOMAIN fetches' = Views /\ \A w \in Views : fetches'[w] \subseteq Fetch(w)
<1>0. ASSUME version' \in [Data -> 0 .. MaxChanges],
             stream' = stream, queue' = queue, hasOpened' = hasOpened, QTypes, FTypes,
             acting' \in [Views -> Acting], lapses' \subseteq Lapse,
             failures' \in 0 .. MaxFailures, moves' \in 0 .. MaxMoves
      PROVE  TypeOK'
  BY <1>0 DEF TypeOK, Query, Fetch, Snapshot, Shown
<1>a. /\ version \in [Data -> 0 .. MaxChanges] /\ lapses \subseteq Lapse
      /\ acting \in [Views -> Acting]
      /\ failures \in 0 .. MaxFailures /\ moves \in 0 .. MaxMoves
  BY DEF TypeOK
<1>b. query' = query => QTypes
  BY DEF TypeOK
<1>c. fetches' = fetches => FTypes
  BY DEF TypeOK
<1>d. Idle \in Acting
  BY DEF Idle, Acting
<1>1. ASSUME NEW v \in Views, Unmount(v)
      PROVE  TypeOK'
  <2>1. \A w \in Views : acting[w].heard \ {v} \in SUBSET Views
    BY <1>a DEF Acting
  <2>2. acting' \in [Views -> Acting]
    BY <1>1, <1>a, <2>1, HeardByDoes DEF Unmount
  <2>3. QTypes
    BY <1>1 DEF TypeOK, Unmount
  <2>4. Late(v) \subseteq Fetch(v)
    BY DEF Late, TypeOK, Fetch
  <2>5. FTypes
    BY <1>1, <2>4 DEF TypeOK, Unmount
  <2>6. moves' \in 0 .. MaxMoves
    BY <1>1, LiveBounds DEF TypeOK, Unmount, Move
  <2> QED
    BY <1>0, <1>1, <1>a, <2>2, <2>3, <2>5, <2>6 DEF Unmount, serverVars
<1>2. ASSUME NEW v \in Writers, Act(v)
      PROVE  TypeOK'
  <2>1. [phase |-> "sent", heard |-> {w \in RefetchedAfter[v] \cap Views : Mounted(w)}] \in Acting
    BY DEF Acting
  <2>2. acting' \in [Views -> Acting]
    BY <1>2, <1>a, <2>1, WrittenData DEF Act
  <2> QED
    BY <1>0, <1>2, <1>a, <1>b, <1>c, <2>2 DEF Act, serverVars
<1>3. ASSUME NEW v \in Writers, WriteIsMade(v)
      PROVE  TypeOK'
  <2>1. Writes[v] \in Data /\ v \in Views /\ acting[v] \in Acting
    BY <1>a, WrittenData
  <2>2. version' \in [Data -> 0 .. MaxChanges]
    <3>1. version[Writes[v]] + 1 \in 0 .. MaxChanges
      BY <1>3, <1>a, <2>1, LiveBounds DEF WriteIsMade
    <3> QED
      BY <1>3, <1>a, <3>1 DEF WriteIsMade
  <2>3. [acting[v] EXCEPT !.phase = "made"] \in Acting
    BY <2>1 DEF Acting
  <2>4. acting' \in [Views -> Acting]
    BY <1>3, <1>a, <1>d, <2>3 DEF WriteIsMade
  <2>5. lapses' \subseteq Lapse
    BY <1>3, <1>a DEF WriteIsMade, Lapse
  <2> QED
    BY <1>0, <1>3, <1>a, <1>b, <1>c, <2>2, <2>4, <2>5 DEF WriteIsMade
<1>4. ASSUME NEW v \in Writers, WriteIsRejected(v)
      PROVE  TypeOK'
  <2>1. acting' \in [Views -> Acting]
    BY <1>4, <1>a, <1>d DEF WriteIsRejected
  <2> QED
    BY <1>0, <1>4, <1>a, <1>b, <1>c, <2>1 DEF WriteIsRejected, serverVars
<1>5. ASSUME NEW v \in Writers, ActAnswered(v)
      PROVE  TypeOK'
  <2>1. acting' \in [Views -> Acting]
    BY <1>5, <1>a, <1>d DEF ActAnswered
  <2>2. QTypes
    BY <1>5, RefetchDoes DEF ActAnswered
  <2> QED
    BY <1>0, <1>5, <1>a, <1>c, <2>1, <2>2 DEF ActAnswered, serverVars
<1>6. ASSUME NEW v \in Writers, ActUnanswered(v)
      PROVE  TypeOK'
  <2>1. acting[v] \in Acting
    BY <1>a, WrittenData
  <2>2. HeardBy(acting[v], {}) \in Acting
    BY <2>1, HeardByDoes
  <2>3. acting' \in [Views -> Acting]
    BY <1>6, <1>a, <2>2 DEF ActUnanswered
  <2>4. lapses' \subseteq Lapse
    BY <1>6, <1>a DEF ActUnanswered, Lapse
  <2>5. failures' \in 0 .. MaxFailures
    BY <1>6, <1>a, LiveBounds DEF ActUnanswered
  <2> QED
    BY <1>0, <1>6, <1>a, <1>b, <1>c, <2>3, <2>4, <2>5 DEF ActUnanswered
<1> QED
  BY <1>1, <1>2, <1>3, <1>4, <1>5, <1>6 DEF ViewWrites

\* Every step keeps the types.
LEMMA TypesHold ==
    ASSUME TypeOK, WaitsForOne, [Next]_vars
    PROVE  TypeOK'
<1>1. ASSUME NEW type \in Occurring, PersistEvent(type)
      PROVE  TypeOK'
  BY <1>1, InvalidationsAreScopes, ChangeKeepsTypes DEF PersistEvent
<1>2. CASE ConnectionChanges
  <2>1. {"runtime"} \in SUBSET Data /\ <<"runtime">> \in Seq(Scopes)
    BY DEF Data, Scopes
  <2> QED
    BY <1>2, <2>1, ChangeKeepsTypes DEF ConnectionChanges
<1>3. CASE UNCHANGED vars
  BY <1>3 DEF vars, serverVars, TypeOK, Query, Fetch, Snapshot, Shown
<1>4. ASSUME NEW v \in Views, Unmount(v)
      PROVE  TypeOK'
  BY <1>4, WritesKeepTypes
<1>5. ASSUME NEW v \in Writers, ViewWrites(v)
      PROVE  TypeOK'
  BY <1>5, WritesKeepTypes
<1> QED
  BY <1>1, <1>2, <1>3, <1>4, <1>5, StreamKeepsTypes, QueriesKeepTypes DEF Next, ServerStep, TabStep

-----------------------------------------------------------------------------
\* What a view waits for and shows.

\* A step that is not about a view's own requests.
Quiet ==
    /\ fetches' = fetches
    /\ \A v \in Views :
          /\ query[v] = None <=> query'[v] = None
          /\ Mounted(v) => query'[v].key = query[v].key /\ query'[v].shown = query[v].shown
    /\ \A s \in Data : version[s] <= version'[s]

\* A step that is about the requests of one view.
Concerns(v) ==
    /\ version' = version
    /\ \A w \in Views \ {v} : query'[w] = query[w] /\ fetches'[w] = fetches[w]

\* The step does not take v back.
Forward(v) ==
    (/\ Mounted(v) /\ query[v].shown # None
     /\ query'[v] # None /\ query'[v].shown # None) =>
        \A s \in Shows[v] : query'[v].shown.at[s] >= query[v].shown.at[s]

\* What is counted are numbers.
LEMMA Counts ==
    ASSUME TypeOK, NEW v \in Views, NEW s \in Shows[v]
    PROVE  /\ version[s] \in Nat
           /\ Mounted(v) /\ query[v].shown # None => query[v].shown.at[s] \in Nat
           /\ \A f \in fetches[v] : f.read # None => f.read[s] \in Nat
<1>1. s \in Data /\ MaxChanges \in Nat
  BY ShownData, LiveBounds
<1>2. version[s] \in Nat
  BY <1>1 DEF TypeOK
<1>3. ASSUME Mounted(v), query[v].shown # None
      PROVE  query[v].shown.at[s] \in Nat
  <2>1. query[v].shown \in Shown(v)
    BY <1>3, QueryFields
  <2> QED
    BY <1>1, <2>1 DEF Shown, Snapshot
<1>4. ASSUME NEW f \in fetches[v], f.read # None
      PROVE  f.read[s] \in Nat
  <2>1. f.read \in Snapshot(v)
    BY <1>4 DEF TypeOK, Fetch
  <2> QED
    BY <1>1, <2>1 DEF Snapshot
<1> QED
  BY <1>2, <1>3, <1>4

\* What a view waits for and shows is not disturbed by steps that are not its own.
LEMMA QuietStepsKeepViews ==
    ASSUME TypeOK, TypeOK', WaitsForOne, ShowsItsKey, NothingAhead, Quiet
    PROVE  WaitsForOne' /\ ShowsItsKey' /\ NothingAhead' /\ \A v \in Views : Forward(v)
<1>1. WaitsForOne'
  BY DEF WaitsForOne, Quiet, Mounted
<1>2. ShowsItsKey'
  BY DEF ShowsItsKey, Quiet, Mounted
<1>3. ASSUME NEW v \in Views, Mounted(v), NEW s \in Shows[v]
      PROVE  /\ query'[v].shown # None => query'[v].shown.at[s] <= version'[s]
             /\ \A f \in fetches'[v] : f.live /\ f.read # None =>
                   /\ f.read[s] <= version'[s]
                   /\ query'[v].shown # None => query'[v].shown.at[s] <= f.read[s]
  <2>1. version[s] <= version'[s] /\ version'[s] \in Nat /\ version[s] \in Nat
    BY ShownData, Counts, LiveBounds DEF Quiet, TypeOK
  <2>2. fetches' = fetches /\ query'[v].shown = query[v].shown
    BY <1>3 DEF Quiet
  <2> QED
    BY <1>3, <2>1, <2>2, Counts DEF NothingAhead
<1>4. NothingAhead'
  BY <1>3 DEF NothingAhead, Quiet, Mounted
<1>5. ASSUME NEW v \in Views
      PROVE  Forward(v)
  BY Counts DEF Forward, Quiet
<1> QED
  BY <1>1, <1>2, <1>4, <1>5

\* Of a step about one view, only that view has to be looked at.
LEMMA OneViewSuffices ==
    ASSUME TypeOK, WaitsForOne, ShowsItsKey, NothingAhead, NEW v \in Views, Concerns(v),
           \A f \in fetches'[v] : f.live =>
              /\ query'[v] # None /\ f.key = query'[v].key
              /\ \A g \in fetches'[v] : g.live => g = f,
           query'[v] # None /\ query'[v].shown # None => query'[v].shown.key = query'[v].key,
           query'[v] # None => \A s \in Shows[v] :
              /\ query'[v].shown # None => query'[v].shown.at[s] <= version[s]
              /\ \A f \in fetches'[v] : f.live /\ f.read # None =>
                    /\ f.read[s] <= version[s]
                    /\ query'[v].shown # None => query'[v].shown.at[s] <= f.read[s],
           Forward(v)
    PROVE  WaitsForOne' /\ ShowsItsKey' /\ NothingAhead' /\ \A w \in Views : Forward(w)
<1>1. WaitsForOne'
  BY DEF WaitsForOne, Concerns, Mounted
<1>2. ShowsItsKey'
  BY DEF ShowsItsKey, Concerns, Mounted
<1>3. NothingAhead'
  BY DEF NothingAhead, Concerns, Mounted
<1>4. ASSUME NEW w \in Views
      PROVE  Forward(w)
  <2>1. CASE w = v
    BY <2>1
  <2>2. CASE w # v
    BY <2>2, Counts DEF Forward, Concerns
  <2> QED
    BY <2>1, <2>2
<1> QED
  BY <1>1, <1>2, <1>3, <1>4

\* Changes, the stream and the writes are not about a view's own requests.
LEMMA QuietSteps ==
    ASSUME TypeOK,
           \/ \E type \in Occurring : PersistEvent(type)
           \/ ConnectionChanges
           \/ Accept \/ Refuse \/ Break \/ Notice \/ ReceiveOpen \/ ReceiveInvalidation
           \/ \E v \in Writers : ViewWrites(v)
           \/ UNCHANGED vars
    PROVE  Quiet
<1>a. \A s \in Data : version[s] \in Nat
  BY LiveBounds DEF TypeOK
<1>1. ASSUME NEW touched, NEW told, Change(touched, told)
      PROVE  Quiet
  BY <1>1, <1>a DEF Change, Quiet
<1>2. ASSUME NEW vs, Refetch(vs), fetches' = fetches, version' = version
      PROVE  Quiet
  BY <1>2, <1>a, RefetchDoes DEF Quiet
<1>3. ASSUME query' = query, fetches' = fetches, version' = version
      PROVE  Quiet
  BY <1>3, <1>a DEF Quiet
<1>4. ASSUME NEW v \in Writers, WriteIsMade(v)
      PROVE  Quiet
  <2>1. Writes[v] \in Data /\ version \in [Data -> 0 .. MaxChanges]
    BY WrittenData DEF TypeOK
  <2>2. \A s \in Data : version[s] <= version'[s]
    BY <1>4, <1>a, <2>1 DEF WriteIsMade
  <2> QED
    BY <1>4, <2>2 DEF WriteIsMade, Quiet
<1>5. ASSUME NEW type, PersistEvent(type)
      PROVE  Quiet
  BY <1>1, <1>5 DEF PersistEvent
<1>6. CASE ConnectionChanges
  BY <1>1, <1>6 DEF ConnectionChanges
<1>7. CASE Accept \/ Refuse \/ Break \/ Notice
  BY <1>3, <1>7 DEF Accept, Refuse, Break, Notice
<1>8. CASE ReceiveOpen
  BY <1>2, <1>8 DEF ReceiveOpen
<1>9. CASE ReceiveInvalidation
  BY <1>2, <1>9 DEF ReceiveInvalidation
<1>10. ASSUME NEW v \in Writers, Act(v) \/ WriteIsRejected(v) \/ ActUnanswered(v)
       PROVE  Quiet
  BY <1>3, <1>10 DEF Act, WriteIsRejected, ActUnanswered, serverVars
<1>11. ASSUME NEW v \in Writers, ActAnswered(v)
       PROVE  Quiet
  BY <1>2, <1>11 DEF ActAnswered, serverVars
<1>12. CASE UNCHANGED vars
  BY <1>3, <1>12 DEF vars, serverVars
<1> QED
  BY <1>4, <1>5, <1>6, <1>7, <1>8, <1>9, <1>10, <1>11, <1>12 DEF ViewWrites

\* What a view's own steps do to it: a request of its key is the only one waited for,
\* and the answer to it is the newest thing the view can show.
LEMMA OwnStepsKeepViews ==
    ASSUME TypeOK, WaitsForOne, ShowsItsKey, NothingAhead, NEW v \in Views,
           \/ Mount(v) \/ Unmount(v) \/ ChangeKey(v) \/ SendAgain(v)
           \/ Answer(v) \/ FetchReturns(v) \/ FetchFails(v)
    PROVE  WaitsForOne' /\ ShowsItsKey' /\ NothingAhead' /\ \A w \in Views : Forward(w)
<1>a. DOMAIN query = Views /\ DOMAIN fetches = Views
  BY DEF TypeOK
<1>1. ASSUME NEW k \in Keys, query' = [query EXCEPT ![v] = Loading(k)], Send(v, k),
             version' = version
      PROVE  WaitsForOne' /\ ShowsItsKey' /\ NothingAhead' /\ \A w \in Views : Forward(w)
  <2>1. query'[v] = Loading(k)
    BY <1>1, <1>a
  <2>2. Concerns(v)
    BY <1>1, <1>a, SendDoes DEF Concerns
  <2>3. /\ query'[v] # None /\ query'[v].key = k /\ query'[v].shown = None
    BY <2>1, LoadingIsQuery
  <2>4. \A f \in fetches'[v] : f.live => f = NewFetch(k)
    BY <1>1, SendDoes
  <2>5. NewFetch(k).key = k /\ NewFetch(k).read = None
    BY DEF NewFetch
  <2>6. Forward(v)
    BY <2>3 DEF Forward
  <2> HIDE DEF NewFetch
  <2> QED
    BY <2>2, <2>3, <2>4, <2>5, <2>6, OneViewSuffices
<1>2. CASE Mount(v)
  BY <1>1, <1>2 DEF Mount, serverVars
<1>3. CASE ChangeKey(v)
  BY <1>1, <1>3 DEF ChangeKey, Rekeyed, serverVars
<1>4. CASE Unmount(v)
  <2>1. query'[v] = None /\ fetches'[v] = Late(v)
    BY <1>4, <1>a DEF Unmount
  <2>2. Concerns(v)
    BY <1>4, <1>a DEF Unmount, Concerns, serverVars
  <2>3. \A f \in Late(v) : ~f.live
    BY DEF Late, TypeOK, Fetch
  <2>4. Forward(v)
    BY <2>1 DEF Forward
  <2> QED
    BY <2>1, <2>2, <2>3, <2>4, OneViewSuffices
<1>5. CASE SendAgain(v)
  <2>1. query[v] \in Query(v) /\ Mounted(v)
    BY <1>5 DEF TypeOK, SendAgain, Mounted
  <2>2. query'[v] = [query[v] EXCEPT !.wanted = FALSE]
    BY <1>5, <1>a DEF SendAgain
  <2>3. /\ query[v].key \in Keys /\ query'[v].key = query[v].key
        /\ query'[v].shown = query[v].shown /\ query'[v] \in Query(v)
    BY <2>1, <2>2 DEF Query
  <2>4. \A f \in fetches'[v] : f.live => f = NewFetch(query[v].key)
    BY <1>5, <2>3, SendDoes DEF SendAgain
  <2>5. NewFetch(query[v].key).key = query[v].key /\ NewFetch(query[v].key).read = None
    BY DEF NewFetch
  <2>6. Concerns(v)
    BY <1>5, <1>a, <2>3, SendDoes DEF Concerns, SendAgain, serverVars
  <2>7. query'[v] # None
    BY <2>3, NoneIsNothing
  <2>8. Forward(v)
    BY <2>3, Counts DEF Forward
  <2>9. query'[v].shown # None => query'[v].shown.key = query'[v].key
    BY <2>1, <2>3 DEF ShowsItsKey
  <2>10. \A s \in Shows[v] : query'[v].shown # None => query'[v].shown.at[s] <= version[s]
    BY <2>1, <2>3 DEF NothingAhead
  <2> HIDE DEF NewFetch
  <2> QED
    BY <2>3, <2>4, <2>5, <2>6, <2>7, <2>8, <2>9, <2>10, OneViewSuffices
<1>6. CASE Answer(v)
  <2>1. PICK f \in fetches[v] :
            /\ f.read = None
            /\ fetches' = [fetches EXCEPT ![v] = (fetches[v] \ {f}) \cup {[f EXCEPT !.read = Current(v)]}]
    BY <1>6 DEF Answer
  <2>2. PICK g : g = [f EXCEPT !.read = Current(v)]
    OBVIOUS
  <2>3. g.key = f.key /\ g.live = f.live /\ g.read = Current(v)
    BY <2>1, <2>2 DEF TypeOK, Fetch
  <2>4. fetches'[v] = (fetches[v] \ {f}) \cup {g}
    BY <1>a, <2>1, <2>2
  <2>5. Concerns(v) /\ query' = query
    BY <1>6, <1>a, <2>1 DEF Concerns, Answer, serverVars
  <2>6. Forward(v)
    BY <2>5, Counts DEF Forward
  <2>7. \A h \in fetches'[v] : h.live =>
           /\ Mounted(v) /\ h.key = query[v].key
           /\ \A i \in fetches'[v] : i.live => i = h
    BY <2>3, <2>4 DEF WaitsForOne
  <2>8. ASSUME NEW s \in Shows[v], Mounted(v)
        PROVE  /\ query[v].shown # None => query[v].shown.at[s] <= version[s]
               /\ \A h \in fetches'[v] : h.live /\ h.read # None =>
                     /\ h.read[s] <= version[s]
                     /\ query[v].shown # None => query[v].shown.at[s] <= h.read[s]
    <3>1. g.read[s] = version[s] /\ version[s] \in Nat
      BY <2>3, CurrentIsSnapshot, Counts
    <3> QED
      BY <2>4, <2>8, <3>1 DEF NothingAhead
  <2> QED
    BY <2>5, <2>6, <2>7, <2>8, OneViewSuffices DEF ShowsItsKey, Mounted
<1>7. ASSUME NEW f \in fetches[v], fetches' = [fetches EXCEPT ![v] = fetches[v] \ {f}],
             query' = query, version' = version
      PROVE  WaitsForOne' /\ ShowsItsKey' /\ NothingAhead' /\ \A w \in Views : Forward(w)
  <2>1. fetches'[v] = fetches[v] \ {f}
    BY <1>7, <1>a
  <2>2. Concerns(v)
    BY <1>7, <1>a DEF Concerns
  <2>3. Forward(v)
    BY <1>7, Counts DEF Forward
  <2>4. \A h \in fetches'[v] : h.live =>
           /\ Mounted(v) /\ h.key = query[v].key
           /\ \A i \in fetches'[v] : i.live => i = h
    BY <2>1 DEF WaitsForOne
  <2>5. ASSUME NEW s \in Shows[v], Mounted(v)
        PROVE  /\ query[v].shown # None => query[v].shown.at[s] <= version[s]
               /\ \A h \in fetches'[v] : h.live /\ h.read # None =>
                     /\ h.read[s] <= version[s]
                     /\ query[v].shown # None => query[v].shown.at[s] <= h.read[s]
    BY <2>1, <2>5 DEF NothingAhead
  <2> QED
    BY <1>7, <2>2, <2>3, <2>4, <2>5, OneViewSuffices DEF ShowsItsKey, Mounted
<1>8. CASE FetchReturns(v)
  <2>1. PICK f \in fetches[v] :
            /\ f.read # None
            /\ fetches' = [fetches EXCEPT ![v] = fetches[v] \ {f}]
            /\ query' = IF f.live
                        THEN [query EXCEPT ![v].shown = [key |-> f.key, at |-> f.read],
                                           ![v].error = FALSE]
                        ELSE query
    BY <1>8 DEF FetchReturns
  <2>2. CASE f.live
    <3>1. query[v] \in Query(v) /\ Mounted(v) /\ f.key = query[v].key
      BY <2>1, <2>2, QueryFields DEF WaitsForOne
    <3>2. query'[v] = [query[v] EXCEPT !.shown = [key |-> f.key, at |-> f.read],
                                       !.error = FALSE]
      BY <1>a, <2>1, <2>2
    <3>3. /\ query'[v].key = query[v].key
          /\ query'[v].shown.key = f.key /\ query'[v].shown.at = f.read
      BY <3>1, <3>2 DEF Query
    <3>4. \A g \in fetches'[v] : ~g.live
      BY <1>a, <2>1, <2>2 DEF WaitsForOne
    <3>5. Concerns(v)
      BY <1>8, <1>a, <2>1, <2>2 DEF Concerns, FetchReturns, serverVars
    <3>6. \A s \in Shows[v] :
             /\ f.read[s] <= version[s]
             /\ query[v].shown # None => query[v].shown.at[s] <= f.read[s]
      BY <2>1, <2>2, <3>1 DEF NothingAhead
    <3>7. Forward(v)
      <4> SUFFICES ASSUME Mounted(v), query[v].shown # None, NEW s \in Shows[v]
                   PROVE  query'[v].shown.at[s] >= query[v].shown.at[s]
        BY DEF Forward
      <4>1. query[v].shown.at[s] \in Nat /\ f.read[s] \in Nat
        BY <2>1, Counts
      <4> QED
        BY <3>3, <3>6, <4>1
    <3> QED
      BY <3>1, <3>3, <3>4, <3>5, <3>6, <3>7, OneViewSuffices
  <2>3. CASE ~f.live
    BY <1>7, <1>8, <2>1, <2>3 DEF FetchReturns, serverVars
  <2> QED
    BY <2>2, <2>3
<1>9. CASE FetchFails(v)
  <2>1. PICK f \in fetches[v] :
            /\ fetches' = [fetches EXCEPT ![v] = fetches[v] \ {f}]
            /\ query' = IF f.live THEN [query EXCEPT ![v].error = TRUE] ELSE query
    BY <1>9 DEF FetchFails
  <2>2. CASE f.live
    <3>1. query[v] \in Query(v) /\ Mounted(v)
      BY <2>1, <2>2, QueryFields DEF WaitsForOne
    <3>2. query'[v] = [query[v] EXCEPT !.error = TRUE]
      BY <1>a, <2>1, <2>2
    <3>3. query'[v].key = query[v].key /\ query'[v].shown = query[v].shown
      BY <3>1, <3>2 DEF Query
    <3>4. \A g \in fetches'[v] : ~g.live
      BY <1>a, <2>1, <2>2 DEF WaitsForOne
    <3>5. Concerns(v)
      BY <1>9, <1>a, <2>1, <2>2 DEF Concerns, FetchFails
    <3>6. Forward(v)
      BY <3>3, Counts DEF Forward
    <3>7. query'[v].shown # None => query'[v].shown.key = query'[v].key
      BY <3>1, <3>3 DEF ShowsItsKey
    <3>8. \A s \in Shows[v] : query'[v].shown # None => query'[v].shown.at[s] <= version[s]
      BY <3>1, <3>3 DEF NothingAhead
    <3> QED
      BY <3>4, <3>5, <3>6, <3>7, <3>8, OneViewSuffices
  <2>3. CASE ~f.live
    BY <1>7, <1>9, <2>1, <2>3 DEF FetchFails
  <2> QED
    BY <2>2, <2>3
<1> QED
  BY <1>2, <1>3, <1>4, <1>5, <1>6, <1>8, <1>9

-----------------------------------------------------------------------------
\* Views are kept informed.

\* What v has newest of s stays so while nothing it depends on changes.
LEMMA NewestStays ==
    ASSUME NEW v \in Views, NEW s, Newest(v, s),
           fetches'[v] = fetches[v], version'[s] = version[s],
           query'[v].shown = query[v].shown, query'[v].error = query[v].error
    PROVE  Newest(v, s)'
BY DEF Newest

\* To follow something is to show it, and it is no "open".
LEMMA FollowedIsData ==
    ASSUME NEW v \in Views, NEW s \in Followed(v)
    PROVE  s \in Data /\ s \in Shows[v] /\ s # "open"
BY FollowedData, ShownData DEF Data, Scopes

\* A change reaches every view that follows it, through the stream that is open or
\* the next one.
LEMMA ChangeKeepsInformed ==
    ASSUME TypeOK, KeptInformed, NEW touched \in SUBSET Data, NEW told \in Seq(Scopes),
           \A s \in touched : Holds(told, s), Change(touched, told)
    PROVE  KeptInformed'
<1> SUFFICES ASSUME lapses' = {}, NEW v \in Views, Mounted(v), NEW s \in Followed(v)
             PROVE  Coming(v, s)' \/ Newest(v, s)'
  BY DEF KeptInformed, Change, Mounted, Followed
<1>1. /\ stream' = stream /\ hasOpened' = hasOpened /\ acting' = acting
      /\ query' = query /\ fetches' = fetches
      /\ queue' = IF stream = "open" THEN queue \o told ELSE queue
      /\ lapses = {} /\ OpenSeen(queue)
      /\ s \in Data
  BY FollowedIsData DEF Change
<1>2. queue \in Seq(Scopes \cup {"open"}) /\ told \in Seq(Scopes \cup {"open"})
  BY DEF TypeOK
<1>3. ASSUME NEW m, Holds(queue, m)
      PROVE  Holds(queue', m)
  BY <1>1, <1>2, <1>3, JoinHolds
<1>4. Reopens => Reopens'
  BY <1>1, <1>3 DEF Reopens, Opening
<1>5. Coming(v, s) => Coming(v, s)'
  BY <1>1, <1>3, <1>4 DEF Coming
<1>6. CASE s \in touched
  <2>1. CASE stream = "open"
    <3>1. Holds(queue', s)
      BY <1>1, <1>2, <1>6, <2>1, JoinHolds
    <3> QED
      BY <3>1 DEF Coming
  <2>2. CASE stream # "open"
    <3>1. Reopens'
      BY <1>1, <2>2 DEF Reopens, Opening, OpenSeen, Holds
    <3> QED
      BY <3>1 DEF Coming
  <2> QED
    BY <2>1, <2>2
<1>7. CASE s \notin touched
  <2>1. version[s] \in Nat
    BY <1>1, LiveBounds DEF TypeOK
  <2>2. version'[s] = version[s]
    BY <1>1, <1>7, <2>1 DEF Change
  <2> QED
    BY <1>1, <1>5, <2>2, NewestStays DEF KeptInformed
<1> QED
  BY <1>6, <1>7

\* A message that is not the first stays when the first is taken.
LEMMA TailHolds ==
    ASSUME NEW q \in Seq(Scopes \cup {"open"}), q # <<>>, NEW s, Holds(q, s), s # Head(q)
    PROVE  Holds(Tail(q), s)
<1>1. PICK i \in DOMAIN q : q[i] = s
  BY DEF Holds
<1>2. i # 1
  BY <1>1
<1>3. i - 1 \in DOMAIN Tail(q) /\ Tail(q)[i - 1] = s
  BY <1>1, <1>2
<1> QED
  BY <1>3 DEF Holds

\* Opening, losing and opening the stream again leaves no view behind, and what arrives
\* over it makes the views fetch that it is about.
LEMMA StreamKeepsInformed ==
    ASSUME TypeOK, StreamAgrees, KeptInformed,
           Accept \/ Refuse \/ Break \/ Notice \/ ReceiveOpen \/ ReceiveInvalidation
    PROVE  KeptInformed'
<1>a. fetches' = fetches /\ version' = version /\ acting' = acting /\ lapses \subseteq lapses'
  BY DEF Accept, Refuse, Break, Notice, ReceiveOpen, ReceiveInvalidation
<1>b. queue \in Seq(Scopes \cup {"open"})
  BY DEF TypeOK
<1>1. ASSUME query' = query, lapses' = {}, NEW v \in Views, Mounted(v), NEW s \in Followed(v),
             Holds(queue, s) => Holds(queue', s) \/ Reopens', Reopens => Reopens'
      PROVE  Coming(v, s)' \/ Newest(v, s)'
  <2>1. Coming(v, s) \/ Newest(v, s)
    BY <1>1, <1>a DEF KeptInformed
  <2>2. CASE Coming(v, s)
    BY <1>1, <1>a, <2>2 DEF Coming
  <2>3. CASE Newest(v, s)
    BY <1>1, <1>a, <2>3, NewestStays
  <2> QED
    BY <2>1, <2>2, <2>3
<1>2. CASE Accept
  <2>1. queue = <<>> /\ queue' = <<"open">> /\ stream # "open" /\ stream' = "open"
        /\ hasOpened' = hasOpened /\ query' = query
    BY <1>2 DEF Accept, StreamAgrees
  <2>2. \A m : ~Holds(queue, m)
    BY <2>1 DEF Holds
  <2>3. Holds(queue', "open")
    BY <2>1 DEF Holds
  <2>4. Reopens => Reopens'
    BY <2>1, <2>2, <2>3 DEF Reopens, Opening
  <2> QED
    BY <1>1, <2>1, <2>2, <2>4 DEF KeptInformed, Mounted, Followed
<1>3. CASE Refuse \/ Notice
  <2>1. queue' = queue /\ stream # "open" /\ stream' # "open"
        /\ hasOpened' = hasOpened /\ query' = query
    BY <1>3 DEF Refuse, Notice
  <2>2. Reopens => Reopens'
    BY <2>1 DEF Reopens, Opening, Holds
  <2> QED
    BY <1>1, <2>1, <2>2 DEF KeptInformed, Mounted, Followed
<1>4. CASE Break
  <2> SUFFICES ASSUME lapses' = {}, NEW v \in Views, Mounted(v), NEW s \in Followed(v)
               PROVE  Coming(v, s)' \/ Newest(v, s)'
    BY <1>4 DEF KeptInformed, Break, Mounted, Followed
  <2>1. stream = "open" /\ stream' = "broken" /\ hasOpened' = hasOpened /\ query' = query
    BY <1>4 DEF Break
  <2>2. OpenSeen(queue') \/ queue = <<"open">>
    BY <1>4 DEF Break
  <2>3. CASE OpenSeen(queue')
    <3>1. Reopens'
      BY <2>1, <2>3 DEF Reopens, Opening, OpenSeen, Holds
    <3> QED
      BY <3>1 DEF Coming
  <2>4. CASE queue = <<"open">> /\ ~OpenSeen(queue')
    <3>1. ~hasOpened /\ ~Holds(queue, s)
      BY <2>4, FollowedIsData DEF OpenSeen, Holds
    <3>2. ~Reopens
      BY <2>1, <3>1 DEF Reopens
    <3> QED
      BY <1>1, <2>1, <3>1, <3>2
  <2> QED
    BY <2>2, <2>3, <2>4
<1>5. CASE ReceiveOpen
  <2> SUFFICES ASSUME lapses' = {}, NEW v \in Views, Mounted(v), NEW s \in Followed(v)
               PROVE  Coming(v, s)' \/ Newest(v, s)'
    <3>1. \A w \in Views : query'[w] # None => Mounted(w)
      BY <1>5, RefetchDoes DEF ReceiveOpen, Mounted
    <3> QED
      BY <3>1 DEF KeptInformed, Mounted, Followed
  <2>1. /\ queue # <<>> /\ Head(queue) = "open" /\ queue' = Tail(queue) /\ stream' = stream
        /\ hasOpened' = TRUE /\ Refetch(IF hasOpened THEN Views ELSE {})
    BY <1>5 DEF ReceiveOpen
  <2>2. /\ query'[v].shown = query[v].shown /\ query'[v].error = query[v].error
        /\ query[v].wanted => query'[v].wanted
        /\ hasOpened => query'[v].wanted
    BY <2>1, RefetchDoes
  <2>3. CASE hasOpened
    BY <2>2, <2>3 DEF Coming
  <2>4. CASE ~hasOpened
    <3>1. Coming(v, s) \/ Newest(v, s)
      BY <1>5 DEF KeptInformed, ReceiveOpen
    <3>2. Holds(queue, s) => Holds(queue', s)
      BY <1>b, <2>1, TailHolds, FollowedIsData
    <3>3. Reopens => Reopens'
      BY <2>1, <2>4 DEF Reopens
    <3>4. Coming(v, s) => Coming(v, s)'
      BY <1>a, <2>2, <3>2, <3>3 DEF Coming
    <3> QED
      BY <1>a, <2>2, <3>1, <3>4, NewestStays
  <2> QED
    BY <2>3, <2>4
<1>6. CASE ReceiveInvalidation
  <2> SUFFICES ASSUME lapses' = {}, NEW v \in Views, Mounted(v), NEW s \in Followed(v)
               PROVE  Coming(v, s)' \/ Newest(v, s)'
    <3>1. \A w \in Views : query'[w] # None => Mounted(w)
      BY <1>6, RefetchDoes DEF ReceiveInvalidation, Mounted
    <3> QED
      BY <3>1 DEF KeptInformed, Mounted, Followed
  <2>1. /\ queue # <<>> /\ Head(queue) # "open" /\ queue' = Tail(queue) /\ stream' = stream
        /\ hasOpened' = hasOpened /\ Refetch({w \in Views : Head(queue) \in Registers[w]})
        /\ lapses = {}
    BY <1>6 DEF ReceiveInvalidation
  <2>2. /\ query'[v].shown = query[v].shown /\ query'[v].error = query[v].error
        /\ query[v].wanted => query'[v].wanted
        /\ Head(queue) \in Registers[v] => query'[v].wanted
    BY <2>1, RefetchDoes
  <2>3. CASE s = Head(queue)
    <3>1. s \in Scopes
      BY <1>b, <2>1, <2>3
    <3>2. s \in Registers[v]
      BY <3>1, FollowedData
    <3> QED
      BY <2>2, <2>3, <3>2 DEF Coming
  <2>4. CASE s # Head(queue)
    <3>1. Coming(v, s) \/ Newest(v, s)
      BY <2>1 DEF KeptInformed
    <3>2. Holds(queue, s) => Holds(queue', s)
      BY <1>b, <2>1, <2>4, TailHolds
    <3>3. Holds(queue, "open") => Holds(queue', "open")
      BY <1>b, <2>1, TailHolds
    <3>4. Reopens => Reopens'
      BY <2>1, <3>3 DEF Reopens, Opening
    <3>5. Coming(v, s) => Coming(v, s)'
      BY <1>a, <2>2, <3>2, <3>4 DEF Coming
    <3> QED
      BY <1>a, <2>2, <3>1, <3>5, NewestStays
  <2> QED
    BY <2>3, <2>4
<1> QED
  BY <1>2, <1>3, <1>4, <1>5, <1>6

\* A request sent asks for the newest; its answer is, or an error is shown.
LEMMA OwnStepsKeepInformed ==
    ASSUME TypeOK, WaitsForOne, KeptInformed, NEW v \in Views,
           \/ Mount(v) \/ ChangeKey(v) \/ SendAgain(v)
           \/ Answer(v) \/ FetchReturns(v) \/ FetchFails(v)
    PROVE  KeptInformed'
<1>a. DOMAIN query = Views /\ DOMAIN fetches = Views
  BY DEF TypeOK
<1>b. /\ version' = version /\ stream' = stream /\ queue' = queue /\ hasOpened' = hasOpened
      /\ acting' = acting /\ lapses' = lapses
  BY DEF Mount, ChangeKey, SendAgain, Answer, FetchReturns, FetchFails, serverVars
<1>1. ASSUME \A w \in Views \ {v} : query'[w] = query[w] /\ fetches'[w] = fetches[w],
             query'[v] # None => \A s \in Followed(v) :
                 (lapses = {} /\ Mounted(v) => Coming(v, s) \/ Newest(v, s))
                    => (lapses = {} => Coming(v, s)' \/ Newest(v, s)')
      PROVE  KeptInformed'
  <2> SUFFICES ASSUME lapses = {}, NEW w \in Views, query'[w] # None, NEW s \in Followed(w)
               PROVE  Coming(w, s)' \/ Newest(w, s)'
    BY <1>b DEF KeptInformed, Mounted, Followed
  <2>1. CASE w = v
    BY <1>1, <2>1 DEF KeptInformed
  <2>2. CASE w # v
    <3>1. Coming(w, s) \/ Newest(w, s)
      BY <1>1, <2>2 DEF KeptInformed, Mounted
    <3>2. Coming(w, s) => Coming(w, s)'
      BY <1>1, <1>b, <2>2 DEF Coming, Reopens, Opening, Holds
    <3> QED
      BY <1>1, <1>b, <2>2, <3>1, <3>2, NewestStays
  <2> QED
    BY <2>1, <2>2
<1>2. ASSUME NEW k \in Keys, Send(v, k), \A w \in Views \ {v} : query'[w] = query[w]
      PROVE  KeptInformed'
  <2>1. \A w \in Views \ {v} : fetches'[w] = fetches[w]
    BY <1>2, SendDoes
  <2>2. \A f \in fetches'[v] : f.live => f = NewFetch(k)
    BY <1>2, SendDoes
  <2>3. NewFetch(k) \in fetches'[v] /\ NewFetch(k).live /\ NewFetch(k).read = None
    BY <1>2, SendDoes DEF NewFetch
  <2>4. \A s \in Followed(v) : Newest(v, s)'
    <3> HIDE DEF NewFetch
    <3> QED
      BY <2>2, <2>3 DEF Newest
  <2> QED
    BY <1>1, <1>2, <2>1, <2>4
<1>3. CASE Mount(v)
  <2>1. PICK k \in Keys : query' = [query EXCEPT ![v] = Loading(k)] /\ Send(v, k)
    BY <1>3 DEF Mount
  <2> QED
    BY <1>2, <1>a, <2>1
<1>4. CASE ChangeKey(v)
  <2>1. PICK k \in Keys : query' = [query EXCEPT ![v] = Loading(k)] /\ Send(v, k)
    BY <1>4 DEF ChangeKey, Rekeyed
  <2> QED
    BY <1>2, <1>a, <2>1
<1>5. CASE SendAgain(v)
  <2>1. query[v].key \in Keys
    BY <1>5, QueryFields DEF SendAgain, Mounted
  <2>2. \A w \in Views \ {v} : query'[w] = query[w]
    BY <1>5, <1>a DEF SendAgain
  <2>3. Send(v, query[v].key)
    BY <1>5 DEF SendAgain
  <2> QED
    BY <1>2, <2>1, <2>2, <2>3
<1>6. ASSUME \A w \in Views \ {v} : query'[w] = query[w] /\ fetches'[w] = fetches[w],
             query'[v] # None => Mounted(v) /\ query'[v].wanted = query[v].wanted,
             query'[v] # None => \A s \in Followed(v) : Newest(v, s) => Newest(v, s)'
      PROVE  KeptInformed'
  <2>1. ASSUME query'[v] # None, NEW s \in Followed(v)
        PROVE  Coming(v, s) => Coming(v, s)'
    BY <1>6, <1>b, <2>1 DEF Coming, Reopens, Opening, Holds
  <2>2. ASSUME query'[v] # None, NEW s \in Followed(v),
               lapses = {} /\ Mounted(v) => Coming(v, s) \/ Newest(v, s)
        PROVE  lapses = {} => Coming(v, s)' \/ Newest(v, s)'
    <3>1. Coming(v, s) => Coming(v, s)'
      BY <2>1, <2>2
    <3>2. Newest(v, s) => Newest(v, s)'
      BY <1>6, <2>2
    <3> QED
      BY <1>6, <2>2, <3>1, <3>2
  <2> QED
    BY <1>1, <1>6, <2>2
<1>7. CASE Answer(v)
  <2>1. PICK f \in fetches[v] :
            /\ f.read = None
            /\ fetches' = [fetches EXCEPT ![v] = (fetches[v] \ {f}) \cup {[f EXCEPT !.read = Current(v)]}]
    BY <1>7 DEF Answer
  <2>2. PICK g : g = [f EXCEPT !.read = Current(v)]
    OBVIOUS
  <2>3. g.live = f.live /\ g.read = Current(v)
    BY <2>1, <2>2 DEF TypeOK, Fetch
  <2>4. fetches'[v] = (fetches[v] \ {f}) \cup {g} /\ query' = query
    BY <1>7, <1>a, <2>1, <2>2 DEF Answer
  <2>5. \A s \in Followed(v) : g.read[s] = version[s]
    BY <2>3, CurrentIsSnapshot, FollowedIsData
  <2>6. ASSUME NEW s \in Followed(v), Newest(v, s)
        PROVE  Newest(v, s)'
    <3>1. CASE \E h \in fetches[v] : h.live
      <4>1. \E h \in fetches'[v] : h.live
        BY <2>3, <2>4, <3>1
      <4>2. \A h \in fetches'[v] : h.live => h.read = None \/ h.read[s] = version[s]
        BY <2>4, <2>5, <2>6, <3>1 DEF Newest
      <4> QED
        BY <1>b, <4>1, <4>2 DEF Newest
    <3>2. CASE ~\E h \in fetches[v] : h.live
      <4>1. ~\E h \in fetches'[v] : h.live
        BY <2>1, <2>3, <2>4, <3>2
      <4> QED
        BY <1>b, <2>4, <2>6, <3>2, <4>1 DEF Newest
    <3> QED
      BY <3>1, <3>2
  <2>7. \A w \in Views \ {v} : fetches'[w] = fetches[w]
    BY <1>a, <2>1
  <2> QED
    BY <1>6, <2>4, <2>6, <2>7 DEF Mounted
<1>8. ASSUME NEW f \in fetches[v], ~f.live, fetches' = [fetches EXCEPT ![v] = fetches[v] \ {f}],
             query' = query
      PROVE  KeptInformed'
  <2>1. fetches'[v] = fetches[v] \ {f} /\ \A w \in Views \ {v} : fetches'[w] = fetches[w]
    BY <1>8, <1>a
  <2>2. \A s \in Followed(v) : Newest(v, s) => Newest(v, s)'
    BY <1>8, <1>b, <2>1 DEF Newest
  <2> QED
    BY <1>6, <1>8, <2>1, <2>2 DEF Mounted
<1>9. CASE FetchReturns(v)
  <2>1. PICK f \in fetches[v] :
            /\ f.read # None
            /\ fetches' = [fetches EXCEPT ![v] = fetches[v] \ {f}]
            /\ query' = IF f.live
                        THEN [query EXCEPT ![v].shown = [key |-> f.key, at |-> f.read],
                                           ![v].error = FALSE]
                        ELSE query
    BY <1>9 DEF FetchReturns
  <2>2. CASE f.live
    <3>1. query[v] \in Query(v) /\ Mounted(v)
      BY <2>1, <2>2, QueryFields DEF WaitsForOne
    <3>2. query'[v] = [query[v] EXCEPT !.shown = [key |-> f.key, at |-> f.read],
                                       !.error = FALSE]
      BY <1>a, <2>1, <2>2
    <3>3. /\ query'[v].wanted = query[v].wanted
          /\ query'[v].shown = [key |-> f.key, at |-> f.read]
      BY <3>1, <3>2 DEF Query
    <3>4. [key |-> f.key, at |-> f.read] # None
      BY <2>1, NoneIsNothing DEF Shown, TypeOK, Fetch
    <3>5. \A g \in fetches'[v] : ~g.live
      BY <1>a, <2>1, <2>2 DEF WaitsForOne
    <3>6. ASSUME NEW s \in Followed(v), Newest(v, s)
          PROVE  Newest(v, s)'
      <4>1. f.read[s] = version[s]
        BY <2>1, <2>2, <3>6 DEF Newest
      <4> QED
        BY <1>b, <3>3, <3>4, <3>5, <4>1 DEF Newest
    <3>7. \A w \in Views \ {v} : query'[w] = query[w] /\ fetches'[w] = fetches[w]
      BY <1>a, <2>1, <2>2
    <3> QED
      BY <1>6, <3>1, <3>3, <3>6, <3>7
  <2>3. CASE ~f.live
    BY <1>8, <2>1, <2>3
  <2> QED
    BY <2>2, <2>3
<1>10. CASE FetchFails(v)
  <2>1. PICK f \in fetches[v] :
            /\ fetches' = [fetches EXCEPT ![v] = fetches[v] \ {f}]
            /\ query' = IF f.live THEN [query EXCEPT ![v].error = TRUE] ELSE query
    BY <1>10 DEF FetchFails
  <2>2. CASE f.live
    <3>1. query[v] \in Query(v) /\ Mounted(v)
      BY <2>1, <2>2, QueryFields DEF WaitsForOne
    <3>2. query'[v] = [query[v] EXCEPT !.error = TRUE]
      BY <1>a, <2>1, <2>2
    <3>3. query'[v].wanted = query[v].wanted /\ query'[v].error
      BY <3>1, <3>2 DEF Query
    <3>4. \A g \in fetches'[v] : ~g.live
      BY <1>a, <2>1, <2>2 DEF WaitsForOne
    <3>5. \A s \in Followed(v) : Newest(v, s)'
      BY <3>3, <3>4 DEF Newest
    <3>6. \A w \in Views \ {v} : query'[w] = query[w] /\ fetches'[w] = fetches[w]
      BY <1>a, <2>1, <2>2
    <3> QED
      BY <1>6, <3>1, <3>3, <3>5, <3>6
  <2>3. CASE ~f.live
    BY <1>8, <2>1, <2>3
  <2> QED
    BY <2>2, <2>3
<1> QED
  BY <1>3, <1>4, <1>5, <1>7, <1>9, <1>10

\* A write is heard of by every view on the page that follows it, or is a lapse.
LEMMA WritesKeepInformed ==
    ASSUME TypeOK, TypeOK', KeptInformed,
           \/ \E v \in Views : Unmount(v)
           \/ \E v \in Writers : ViewWrites(v)
    PROVE  KeptInformed'
<1>a. DOMAIN query = Views /\ DOMAIN fetches = Views /\ acting \in [Views -> Acting]
  BY DEF TypeOK
<1>b. \A v \in Writers : v \in Views /\ Writes[v] \in Data
  BY WrittenData
<1>1. ASSUME NEW v \in Views, Unmount(v)
      PROVE  KeptInformed'
  <2> SUFFICES ASSUME lapses' = {}, NEW w \in Views, query'[w] # None, NEW s \in Followed(w)
               PROVE  Coming(w, s)' \/ Newest(w, s)'
    BY DEF KeptInformed, Mounted, Followed
  <2>1. w # v /\ query'[w] = query[w] /\ fetches'[w] = fetches[w]
    BY <1>1, <1>a DEF Unmount
  <2>2. /\ version' = version /\ stream' = stream /\ queue' = queue
        /\ hasOpened' = hasOpened /\ lapses = {}
        /\ acting' = [x \in Views |-> HeardBy(acting[x], acting[x].heard \ {v})]
    BY <1>1 DEF Unmount, serverVars
  <2>3. Coming(w, s) \/ Newest(w, s)
    BY <2>1, <2>2 DEF KeptInformed, Mounted
  <2>4. ASSUME NEW x \in Views, acting[x].phase = "made", w \in acting[x].heard
        PROVE  acting'[x].phase = "made" /\ w \in acting'[x].heard
    <3>1. acting[x] \in Acting /\ acting[x].heard \ {v} \in SUBSET Views
      BY <1>a DEF Acting
    <3>2. w \in acting[x].heard \ {v}
      BY <2>1, <2>4
    <3> QED
      BY <2>2, <2>4, <3>1, <3>2, HeardByDoes
  <2>5. Coming(w, s) => Coming(w, s)'
    BY <2>1, <2>2, <2>4 DEF Coming, Reopens, Opening, Holds
  <2> QED
    BY <2>1, <2>2, <2>3, <2>5, NewestStays
<1>2. ASSUME NEW v \in Writers, Act(v) \/ WriteIsRejected(v) \/ ActUnanswered(v)
      PROVE  KeptInformed'
  <2> SUFFICES ASSUME lapses' = {}, NEW w \in Views, Mounted(w), NEW s \in Followed(w)
               PROVE  Coming(w, s)' \/ Newest(w, s)'
    BY <1>2 DEF KeptInformed, Mounted, Followed, Act, WriteIsRejected, ActUnanswered, serverVars
  <2>1. /\ version' = version /\ stream' = stream /\ queue' = queue
        /\ hasOpened' = hasOpened /\ query' = query /\ fetches' = fetches /\ lapses = {}
    BY <1>2 DEF Act, WriteIsRejected, ActUnanswered, serverVars
  <2>2. acting[v].phase # "made"
    BY <1>2 DEF Act, WriteIsRejected, ActUnanswered, Idle
  <2>3. \A x \in Views \ {v} : acting'[x] = acting[x]
    BY <1>2, <1>a DEF Act, WriteIsRejected, ActUnanswered
  <2>4. Coming(w, s) => Coming(w, s)'
    BY <2>1, <2>2, <2>3 DEF Coming, Reopens, Opening, Holds
  <2> QED
    BY <2>1, <2>4, NewestStays DEF KeptInformed
<1>3. ASSUME NEW v \in Writers, WriteIsMade(v)
      PROVE  KeptInformed'
  <2> SUFFICES ASSUME lapses' = {}, NEW w \in Views, Mounted(w), NEW s \in Followed(w)
               PROVE  Coming(w, s)' \/ Newest(w, s)'
    BY <1>3 DEF KeptInformed, Mounted, Followed, WriteIsMade
  <2>1. /\ stream' = stream /\ queue' = queue /\ hasOpened' = hasOpened
        /\ query' = query /\ fetches' = fetches /\ lapses = {} /\ Missing(v) = {}
        /\ acting[v].phase = "sent"
    BY <1>3 DEF WriteIsMade
  <2>2. \A x \in Views \ {v} : acting'[x] = acting[x]
    BY <1>3, <1>a DEF WriteIsMade
  <2>3. Coming(w, s) => Coming(w, s)'
    BY <2>1, <2>2 DEF Coming, Reopens, Opening, Holds
  <2>4. CASE s = Writes[v]
    <3>1. w \in acting[v].heard
      BY <2>1, <2>4 DEF Missing
    <3>2. acting'[v] = [acting[v] EXCEPT !.phase = "made"]
      BY <1>3, <1>a, <1>b, <3>1 DEF WriteIsMade
    <3>3. acting'[v].phase = "made" /\ acting'[v].heard = acting[v].heard
      BY <1>a, <1>b, <3>2 DEF Acting
    <3> QED
      BY <1>b, <3>1, <3>3 DEF Coming
  <2>5. CASE s # Writes[v]
    <3>1. version'[s] = version[s]
      BY <1>3, <2>5, FollowedIsData DEF WriteIsMade, TypeOK
    <3> QED
      BY <2>1, <2>3, <3>1, NewestStays DEF KeptInformed
  <2> QED
    BY <2>4, <2>5
<1>4. ASSUME NEW v \in Writers, ActAnswered(v)
      PROVE  KeptInformed'
  <2>1. /\ version' = version /\ stream' = stream /\ queue' = queue
        /\ hasOpened' = hasOpened /\ fetches' = fetches /\ lapses' = lapses
        /\ Refetch(acting[v].heard)
    BY <1>4 DEF ActAnswered, serverVars
  <2> SUFFICES ASSUME lapses' = {}, NEW w \in Views, Mounted(w), NEW s \in Followed(w)
               PROVE  Coming(w, s)' \/ Newest(w, s)'
    BY <2>1, RefetchDoes DEF KeptInformed, Mounted, Followed
  <2>2. /\ query'[w].shown = query[w].shown /\ query'[w].error = query[w].error
        /\ query'[w].wanted <=> query[w].wanted \/ w \in acting[v].heard
    BY <2>1, RefetchDoes
  <2>3. \A x \in Views \ {v} : acting'[x] = acting[x]
    BY <1>4, <1>a DEF ActAnswered
  <2>4. Coming(w, s) => Coming(w, s)'
    BY <2>1, <2>2, <2>3 DEF Coming, Reopens, Opening, Holds
  <2> QED
    BY <2>1, <2>2, <2>4, NewestStays DEF KeptInformed
<1> QED
  BY <1>1, <1>2, <1>3, <1>4 DEF ViewWrites

\* Only a stream that was asked for and answered holds anything.
LEMMA StreamAgreesHolds ==
    ASSUME TypeOK, StreamAgrees, [Next]_vars
    PROVE  StreamAgrees'
<1>1. ASSUME NEW touched, NEW told, Change(touched, told)
      PROVE  StreamAgrees'
  BY <1>1 DEF StreamAgrees, Change
<1>2. CASE Accept \/ Refuse \/ Break \/ Notice \/ ReceiveOpen \/ ReceiveInvalidation
  BY <1>2 DEF StreamAgrees, Accept, Refuse, Break, Notice, ReceiveOpen, ReceiveInvalidation
<1>3. ASSUME stream' = stream, queue' = queue
      PROVE  StreamAgrees'
  BY <1>3 DEF StreamAgrees
<1>4. ASSUME NEW v \in Views,
             \/ Mount(v) \/ Unmount(v) \/ ChangeKey(v) \/ SendAgain(v)
             \/ Answer(v) \/ FetchReturns(v) \/ FetchFails(v)
      PROVE  StreamAgrees'
  BY <1>3, <1>4 DEF Mount, Unmount, ChangeKey, SendAgain, Answer, FetchReturns, FetchFails,
                    serverVars
<1>5. ASSUME NEW v \in Writers, ViewWrites(v)
      PROVE  StreamAgrees'
  BY <1>3, <1>5 DEF ViewWrites, Act, WriteIsMade, WriteIsRejected, ActAnswered, ActUnanswered,
                    serverVars
<1>6. CASE UNCHANGED vars
  BY <1>3, <1>6 DEF vars, serverVars
<1> QED
  BY <1>1, <1>2, <1>4, <1>5, <1>6 DEF Next, ServerStep, TabStep, PersistEvent, ConnectionChanges

-----------------------------------------------------------------------------
\* The theorems.

\* A page without views yet is in order.
LEMMA InitHolds == Init => IInv
<1> SUFFICES ASSUME Init
             PROVE  IInv
  OBVIOUS
<1>1. TypeOK
  <2>1. \A b \in {MaxChanges, MaxFailures, MaxMoves} : 0 \in 0 .. b
    BY LiveBounds
  <2>2. version \in [Data -> 0 .. MaxChanges] /\ failures \in 0 .. MaxFailures /\ moves \in 0 .. MaxMoves
    BY <2>1 DEF Init
  <2>3. stream \in Stream /\ queue \in Seq(Scopes \cup {"open"}) /\ hasOpened \in BOOLEAN
    <3>1. <<>> \in Seq(Scopes \cup {"open"})
      OBVIOUS
    <3> QED
      BY <3>1 DEF Init, Stream
  <2>4. DOMAIN query = Views /\ \A v \in Views : query[v] = None
    BY DEF Init
  <2>5. DOMAIN fetches = Views /\ \A v \in Views : fetches[v] = {}
    BY DEF Init
  <2>6. acting \in [Views -> Acting] /\ lapses \subseteq Lapse
    BY DEF Init, Acting, Idle
  <2> QED
    BY <2>2, <2>3, <2>4, <2>5, <2>6 DEF TypeOK
<1>2. StreamAgrees /\ WaitsForOne /\ ShowsItsKey /\ NothingAhead /\ KeptInformed
  BY DEF Init, StreamAgrees, WaitsForOne, ShowsItsKey, NothingAhead, KeptInformed, Mounted
<1> QED
  BY <1>1, <1>2 DEF IInv

\* Every step keeps the page in order, and takes no view back.
LEMMA StepHolds ==
    ASSUME IInv, [Next]_vars
    PROVE  IInv' /\ \A v \in Views : Forward(v)
<1> USE DEF IInv
<1>1. TypeOK' /\ StreamAgrees'
  BY TypesHold, StreamAgreesHolds
<1>2. ASSUME Quiet
      PROVE  WaitsForOne' /\ ShowsItsKey' /\ NothingAhead' /\ \A v \in Views : Forward(v)
  BY <1>1, <1>2, QuietStepsKeepViews
<1>3. ASSUME NEW type \in Occurring, PersistEvent(type)
      PROVE  Quiet /\ KeptInformed'
  BY <1>3, QuietSteps, InvalidationsAreScopes, ChangeKeepsInformed DEF PersistEvent
<1>4. CASE ConnectionChanges
  <2>1. {"runtime"} \in SUBSET Data /\ <<"runtime">> \in Seq(Scopes)
    BY DEF Data, Scopes
  <2>2. Holds(<<"runtime">>, "runtime")
    BY DEF Holds
  <2>3. Quiet /\ KeptInformed'
    BY <1>4, <2>1, <2>2, QuietSteps, ChangeKeepsInformed DEF ConnectionChanges
  <2> QED
    BY <1>1, <1>2, <2>3
<1>5. CASE Accept \/ Refuse \/ Break \/ Notice \/ ReceiveOpen \/ ReceiveInvalidation
  BY <1>1, <1>2, <1>5, QuietSteps, StreamKeepsInformed
<1>6. ASSUME NEW v \in Writers, ViewWrites(v)
      PROVE  Quiet /\ KeptInformed'
  BY <1>1, <1>6, QuietSteps, WritesKeepInformed
<1>7. ASSUME NEW v \in Views, Unmount(v)
      PROVE  IInv' /\ \A w \in Views : Forward(w)
  BY <1>1, <1>7, OwnStepsKeepViews, WritesKeepInformed
<1>8. ASSUME NEW v \in Views,
             \/ Mount(v) \/ ChangeKey(v) \/ SendAgain(v)
             \/ Answer(v) \/ FetchReturns(v) \/ FetchFails(v)
      PROVE  IInv' /\ \A w \in Views : Forward(w)
  BY <1>1, <1>8, OwnStepsKeepViews, OwnStepsKeepInformed
<1>9. CASE UNCHANGED vars
  <2>1. KeptInformed'
    BY <1>9 DEF vars, serverVars, KeptInformed, Coming, Newest, Reopens, Opening, Holds,
                Mounted, Followed
  <2> QED
    BY <1>1, <1>2, <1>9, <2>1, QuietSteps
<1> QED
  BY <1>1, <1>2, <1>3, <1>4, <1>5, <1>6, <1>7, <1>8, <1>9 DEF Next, ServerStep, TabStep

\* The invariant that the others follow from: requests, what is shown, what is still
\* coming and what was never told agree (useApiQuery, liveInvalidation, broadcaster).
THEOREM LiveInvariant == Spec => []IInv
<1>1. IInv /\ [Next]_vars => IInv'
  BY StepHolds
<1> QED
  BY <1>1, InitHolds, PTL DEF Spec

\* Every variable keeps its type.
THEOREM LiveTypes == Spec => []TypeOK
<1>1. IInv => TypeOK
  BY DEF IInv
<1> QED
  BY <1>1, LiveInvariant, PTL

\* What a view shows belongs to the key it has, whatever answers come late
\* (useApiQuery's cleanup and its reset on a change of deps).
THEOREM NeverAnotherKey == Spec => []ShowsItsKey
<1>1. IInv => ShowsItsKey
  BY DEF IInv
<1> QED
  BY <1>1, LiveInvariant, PTL

\* Once nothing is on its way to a view any more it is up to date or says that its last
\* request failed, for every number of views, changes, reconnects and losses.
THEOREM OpenViewsAreUpToDate == Spec => []OpenMeansUpToDate
<1>1. ASSUME IInv
      PROVE  OpenMeansUpToDate
  <2> SUFFICES ASSUME NEW v \in Views, stream = "open", lapses = {}, Settled(v), ~query[v].error
               PROVE  UpToDate(v)
    BY DEF OpenMeansUpToDate
  <2>1. ASSUME NEW s \in Followed(v)
        PROVE  query[v].shown # None /\ query[v].shown.at[s] = version[s]
    <3>1. Coming(v, s) \/ Newest(v, s)
      BY <1>1 DEF IInv, KeptInformed, Settled
    <3>2. ~Reopens
      BY DEF Reopens, Opening, Holds, Settled
    <3>3. ~Holds(queue, s)
      <4>1. \A i \in DOMAIN queue : queue[i] \in Scopes \cup {"open"}
        BY <1>1 DEF IInv, TypeOK
      <4> QED
        BY <2>1, <4>1, FollowedData, FollowedIsData DEF Holds, Settled
    <3>4. ~Coming(v, s)
      BY <3>2, <3>3 DEF Coming, Settled
    <3> QED
      BY <3>1, <3>4 DEF Newest, Settled
  <2>2. \E s : s \in Followed(v)
    BY FollowedData
  <2> QED
    BY <2>1, <2>2 DEF UpToDate
<1> QED
  BY <1>1, LiveInvariant, PTL

\* What a view shows never goes back to an older state: cancelled requests do not count
\* and an answer that counts is newer than what is shown.
THEOREM ViewsNeverGoBack == Spec => NeverGoesBack
<1>1. IInv /\ [Next]_vars =>
        [\A v \in Views :
            (/\ Mounted(v) /\ query[v].shown # None
             /\ query'[v] # None /\ query'[v].shown # None) =>
               \A s \in Shows[v] : query'[v].shown.at[s] >= query[v].shown.at[s]]_vars
  BY StepHolds DEF Forward
<1> QED
  BY <1>1, LiveInvariant, PTL DEF Spec, NeverGoesBack
=============================================================================
