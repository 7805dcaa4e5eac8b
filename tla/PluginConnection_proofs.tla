----------------------- MODULE PluginConnection_proofs -----------------------
(***************************************************************************)
(* Theorems about PluginConnection, for any scripts, any number of         *)
(* transports, reads and calls.                                            *)
(***************************************************************************)
EXTENDS PluginConnection, SequenceTheorems, FiniteSetTheorems, TLAPS

-----------------------------------------------------------------------------
(* What is, and what is not, in a queue.                                   *)

\* No element of q is in A; none that is in B comes after one that is in A.
None(q, A) == \A i \in DOMAIN q : q[i] \notin A
NoneBehind(q, A, B) ==
    \A i, j \in DOMAIN q : i < j /\ q[i] \in A => q[j] \notin B

LEMMA EmptyQueue ==
    /\ \A A : None(<< >>, A)
    /\ \A A, B : NoneBehind(<< >>, A, B)
BY DEF None, NoneBehind

\* The queue after an element has been put at its end.
LEMMA QueueAppend ==
    ASSUME NEW S, NEW q \in Seq(S), NEW m \in S
    PROVE  /\ Append(q, m) \in Seq(S)
           /\ \A A : None(Append(q, m), A) <=> None(q, A) /\ m \notin A
           /\ \A A, B : NoneBehind(Append(q, m), A, B) <=>
                 NoneBehind(q, A, B) /\ (m \in B => None(q, A))
<1> DEFINE r == Append(q, m)
<1>1. /\ Len(q) \in Nat /\ DOMAIN q = 1..Len(q) /\ r \in Seq(S)
      /\ DOMAIN r = 1..(Len(q) + 1) /\ r[Len(q) + 1] = m
      /\ \A i \in 1..Len(q) : r[i] = q[i]
  BY AppendProperties
<1> HIDE DEF r
<1>2. ASSUME NEW A PROVE None(r, A) <=> None(q, A) /\ m \notin A
  <2>1. None(r, A) => None(q, A) /\ m \notin A
    BY <1>1 DEF None
  <2>2. ASSUME None(q, A), m \notin A, NEW i \in DOMAIN r PROVE r[i] \notin A
    BY <1>1, <2>2 DEF None
  <2> QED
    BY <2>1, <2>2 DEF None
<1>3. ASSUME NEW A, NEW B
      PROVE  NoneBehind(r, A, B) <=> NoneBehind(q, A, B) /\ (m \in B => None(q, A))
  <2>1. ASSUME NoneBehind(r, A, B) PROVE NoneBehind(q, A, B)
    BY <1>1, <2>1 DEF NoneBehind
  <2>2. ASSUME NoneBehind(r, A, B), m \in B, NEW i \in DOMAIN q PROVE q[i] \notin A
    <3>1. i \in DOMAIN r /\ Len(q) + 1 \in DOMAIN r /\ i < Len(q) + 1 /\ r[i] = q[i]
      BY <1>1
    <3> QED
      BY <1>1, <2>2, <3>1 DEF NoneBehind
  <2>3. ASSUME NoneBehind(q, A, B), m \in B => None(q, A),
               NEW i \in DOMAIN r, NEW j \in DOMAIN r, i < j, r[i] \in A, r[j] \in B
        PROVE  FALSE
    <3>1. i \in DOMAIN q /\ r[i] = q[i]
      BY <1>1, <2>3
    <3>2. CASE j \in DOMAIN q
      BY <1>1, <2>3, <3>1, <3>2 DEF NoneBehind
    <3>3. CASE j \notin DOMAIN q
      <4>1. r[j] = m
        BY <1>1, <3>3
      <4> QED
        BY <2>3, <3>1, <4>1 DEF None
    <3> QED
      BY <3>2, <3>3
  <2>4. NoneBehind(q, A, B) /\ (m \in B => None(q, A)) => NoneBehind(r, A, B)
    BY <2>3 DEF NoneBehind
  <2>5. NoneBehind(r, A, B) /\ m \in B => None(q, A)
    BY <2>2 DEF None
  <2> QED
    BY <2>1, <2>4, <2>5
<1> QED
  BY <1>1, <1>2, <1>3 DEF r

\* The queue after its first element has been taken.
LEMMA QueueTail ==
    ASSUME NEW S, NEW q \in Seq(S), q # << >>
    PROVE  /\ Head(q) \in S /\ Tail(q) \in Seq(S)
           /\ \A A : None(q, A) <=> Head(q) \notin A /\ None(Tail(q), A)
           /\ \A A, B : NoneBehind(q, A, B) <=>
                 /\ NoneBehind(Tail(q), A, B)
                 /\ Head(q) \in A => None(Tail(q), B)
<1> DEFINE h == Head(q)
           r == Tail(q)
<1>1. /\ Len(q) \in Nat /\ DOMAIN q = 1..Len(q) /\ Len(q) >= 1
      /\ h \in S /\ h = q[1] /\ r \in Seq(S)
      /\ DOMAIN r = 1..(Len(q) - 1)
      /\ \A i \in 1..(Len(q) - 1) : r[i] = q[i + 1]
  BY HeadTailProperties, LenProperties
<1>2. \A i \in DOMAIN q : i # 1 => i - 1 \in DOMAIN r /\ r[i - 1] = q[i]
  BY <1>1
<1>3. \A i \in DOMAIN r : i + 1 \in DOMAIN q /\ i + 1 # 1 /\ r[i] = q[i + 1] /\ 1 < i + 1
  BY <1>1
<1>4. 1 \in DOMAIN q
  BY <1>1
<1> HIDE DEF h, r
<1>5. ASSUME NEW A PROVE None(q, A) <=> h \notin A /\ None(r, A)
  <2>1. None(q, A) => h \notin A /\ None(r, A)
    BY <1>1, <1>3, <1>4 DEF None
  <2>2. ASSUME h \notin A, None(r, A), NEW i \in DOMAIN q PROVE q[i] \notin A
    BY <1>1, <1>2, <2>2 DEF None
  <2> QED
    BY <2>1, <2>2 DEF None
<1>6. ASSUME NEW A, NEW B
      PROVE  NoneBehind(q, A, B) <=> NoneBehind(r, A, B) /\ (h \in A => None(r, B))
  <2>1. ASSUME NoneBehind(q, A, B), NEW i \in DOMAIN r, NEW j \in DOMAIN r,
               i < j, r[i] \in A
        PROVE  r[j] \notin B
    <3>1. i + 1 < j + 1
      BY <1>1, <2>1
    <3> QED
      BY <1>3, <2>1, <3>1 DEF NoneBehind
  <2>2. ASSUME NoneBehind(q, A, B), h \in A, NEW j \in DOMAIN r PROVE r[j] \notin B
    BY <1>1, <1>3, <1>4, <2>2 DEF NoneBehind
  <2>3. ASSUME NoneBehind(r, A, B), h \in A => None(r, B),
               NEW i \in DOMAIN q, NEW j \in DOMAIN q, i < j, q[i] \in A, q[j] \in B
        PROVE  FALSE
    <3>1. j # 1
      BY <1>1, <2>3
    <3>2. j - 1 \in DOMAIN r /\ r[j - 1] = q[j]
      BY <1>2, <3>1
    <3>3. CASE i = 1
      BY <1>1, <2>3, <3>2, <3>3 DEF None
    <3>4. CASE i # 1
      <4>1. i - 1 \in DOMAIN r /\ r[i - 1] = q[i] /\ i - 1 < j - 1
        BY <1>1, <1>2, <2>3, <3>4
      <4> QED
        BY <2>3, <3>2, <4>1 DEF NoneBehind
    <3> QED
      BY <3>3, <3>4
  <2>4. NoneBehind(q, A, B) => NoneBehind(r, A, B)
    BY <2>1 DEF NoneBehind
  <2>5. NoneBehind(q, A, B) /\ h \in A => None(r, B)
    BY <2>2 DEF None
  <2>6. NoneBehind(r, A, B) /\ (h \in A => None(r, B)) => NoneBehind(q, A, B)
    BY <2>3 DEF NoneBehind
  <2> QED
    BY <2>4, <2>5, <2>6
<1> QED
  BY <1>1, <1>5, <1>6 DEF h, r

\* The queue after an element has, or has not, been put at its end.
LEMMA QueueMaybe ==
    ASSUME NEW S, NEW q \in Seq(S), NEW m, NEW c \in BOOLEAN, c => m \in S,
           NEW r, r = q \o (IF c THEN <<m>> ELSE << >>)
    PROVE  /\ r \in Seq(S)
           /\ \A A : None(r, A) <=> None(q, A) /\ (c => m \notin A)
           /\ \A A, B : NoneBehind(r, A, B) <=>
                 NoneBehind(q, A, B) /\ (c /\ m \in B => None(q, A))
<1>1. CASE c
  <2>1. m \in S /\ r = Append(q, m)
    BY <1>1, AppendIsConcat
  <2>2. \A A : None(Append(q, m), A) <=> None(q, A) /\ m \notin A
    BY <2>1, QueueAppend
  <2>3. \A A, B : NoneBehind(Append(q, m), A, B) <=>
           NoneBehind(q, A, B) /\ (m \in B => None(q, A))
    BY <2>1, QueueAppend
  <2>4. Append(q, m) \in Seq(S)
    BY <2>1
  <2> QED
    BY <1>1, <2>1, <2>2, <2>3, <2>4
<1>2. CASE ~c
  <2>1. r = q
    BY <1>2, ConcatEmptySeq
  <2> QED
    BY <1>2, <2>1
<1> QED
  BY <1>1, <1>2

-----------------------------------------------------------------------------
(* Every variable has its type.                                            *)

IoPC == {"idle", "connected", "connectFailed", "resolveFailed",
         "notConnecting", "readNext", "readFailed", "rearm", "end",
         "firstRead", "connectEnds"}
IoState == [pc : IoPC, t : Transport \union {NoTransport},
            message : Message \union {NoMessage}]

\* TypeOK in parts. A handler that runs has a transport.
ConnectionType ==
    /\ scenario \in Scenarios /\ held \in BOOLEAN /\ Target \in BOOLEAN
    /\ pTransport \in Transport \union {NoTransport}
FlagsType ==
    /\ life \in [Transport -> {"unborn", "alive", "deleted"}]
    /\ m_bConnecting \in [Transport -> BOOLEAN]
    /\ m_bConnected \in [Transport -> BOOLEAN]
    /\ m_bDisconnectQueued \in [Transport -> BOOLEAN]
AsioType ==
    /\ m_Socket \in [Transport -> {"none", "open", "closed"}]
    /\ pending \in [Transport -> {"none", "resolve", "connect", "read"}]
    /\ m_Timer \in [Transport -> BOOLEAN]
    /\ handlers \in Seq(Handler)
IoType ==
    /\ io \in IoState /\ reads \in 0..MaxReads
    /\ io.pc # "idle" => io.t \in Transport
QueueType == m_Transports \subseteq Transport /\ m_MessageQueue \in Seq(Message)
\* ConnectionDisconnect has a transport: while it asks its flags, while
\* handleDisconnect runs, and while it is tidied up.
Tidying == {"tidyUp", "delete"}
Closing == {"isConnecting", "handleDisconnect", "shutdown", "disconnected"}
              \union Tidying
WorkerType ==
    /\ wpc \in {"poll", "callback", "connecting", "done"} \union Closing
    /\ msg \in Message \union {NoMessage}
    /\ calls \in 0..MaxCalls
    /\ wpc \in Closing => pTransport # NoTransport
EndType ==
    /\ stop \in {"no", "queued", "handled", "exited"}
    /\ over \in BOOLEAN /\ crossed \in BOOLEAN
    /\ fault \in {"none", "freed transport", "freed in handler",
                  "null transport", "null Target"}

TypeInv ==
    /\ ConnectionType /\ FlagsType /\ AsioType /\ IoType /\ QueueType
    /\ WorkerType /\ EndType

LEMMA TypeParts ==
    TypeInv <=> /\ TypeOK
                /\ io.pc # "idle" => io.t \in Transport
                /\ wpc \in Closing => pTransport # NoTransport
BY DEF TypeInv, ConnectionType, FlagsType, AsioType, IoType, QueueType,
       WorkerType, EndType, TypeOK, IoState, IoPC, Closing, Tidying

\* A group that a step leaves alone keeps its type.
LEMMA TypeFrame ==
    ASSUME TypeInv
    PROVE  /\ UNCHANGED connection => ConnectionType'
           /\ UNCHANGED <<life, flags>> => FlagsType'
           /\ UNCHANGED asio => AsioType'
           /\ UNCHANGED <<io, reads>> => IoType'
           /\ UNCHANGED <<m_Transports, m_MessageQueue>> => QueueType'
           /\ UNCHANGED <<pTransport, worker>> => WorkerType'
           /\ UNCHANGED <<connection, worker>> => WorkerType'
           /\ UNCHANGED <<stop, over, crossed, fault>> => EndType'
BY DEF TypeInv, ConnectionType, FlagsType, AsioType, IoType, QueueType,
       WorkerType, EndType, connection, flags, asio, worker

LEMMA ScenarioFields ==
    ASSUME TypeInv
    PROVE  /\ scenario.waits \in BOOLEAN /\ scenario.timeout \in BOOLEAN
           /\ scenario.stops \in BOOLEAN
           /\ scenario.transports \in 0..MaxTransports
           /\ scenario.reads \in 0..MaxReads
           /\ 1..scenario.transports \subseteq Transport
<1>1. scenario \in Scenario
  BY ConstantsAssumption DEF TypeInv, ConnectionType
<1>2. /\ scenario.waits \in BOOLEAN /\ scenario.timeout \in BOOLEAN
      /\ scenario.stops \in BOOLEAN
      /\ scenario.transports \in 0..MaxTransports
      /\ scenario.reads \in 0..MaxReads
  BY <1>1 DEF Scenario
<1>3. 1..scenario.transports \subseteq Transport
  BY <1>2, ConstantsAssumption DEF Transport
<1> QED
  BY <1>2, <1>3

\* A new message, and what becomes of the queue.
LEMMA NewMessageType ==
    ASSUME TypeInv, NEW type \in MessageType
    PROVE  /\ NewMessage(type) \in Message
           /\ NewMessage(type).type = type
           /\ NewMessage(type).target <=> Target /\ type \in Callback
BY DEF TypeInv, ConnectionType, NewMessage, Message

LEMMA MessageTypes ==
    /\ Callback \subseteq MessageType /\ Event \subseteq MessageType
    /\ Directive \subseteq MessageType
    /\ NoMessage \notin Message /\ NoMessage.type = "none"
BY DEF MessageType, Callback, Event, Directive, NoMessage, Message

LEMMA MessagePluginType ==
    ASSUME NEW q \in Seq(Message), NEW m \in Message
    PROVE  MessagePlugin(q, m) \in Seq(Message)
BY QueueAppend DEF MessagePlugin

LEMMA PollType ==
    ASSUME TypeInv, m_MessageQueue # << >>
    PROVE  Head(m_MessageQueue) \in Message /\ Tail(m_MessageQueue) \in Seq(Message)
BY QueueTail DEF TypeInv, QueueType

LEMMA AbortedType ==
    ASSUME TypeInv, NEW t \in Transport, NEW s \in Seq(Handler)
    PROVE  /\ s \o TimerAborted(t) \in Seq(Handler)
           /\ s \o SocketAborted(t) \in Seq(Handler)
           /\ \A op \in Operation : Aborted(t, op) \in Handler
<1>1. \A op \in Operation : Aborted(t, op) \in Handler
  BY DEF Aborted, Handler
<1>2. "timer" \in Operation /\ (pending[t] \in {"connect", "read"} => pending[t] \in Operation)
  BY DEF Operation
<1>3. m_Timer[t] \in BOOLEAN
  BY DEF TypeInv, AsioType
<1>4. s \o TimerAborted(t) \in Seq(Handler)
  BY <1>1, <1>2, <1>3, QueueMaybe DEF TimerAborted
<1>5. s \o SocketAborted(t) \in Seq(Handler)
  BY <1>1, <1>2, QueueMaybe DEF SocketAborted
<1> QED
  BY <1>1, <1>4, <1>5

LEMMA HoldingType ==
    ASSUME TypeInv, NEW pc \in IoPC, NEW t \in Transport, NEW type \in MessageType
    PROVE  /\ Holding(pc, t, type) \in IoState
           /\ Holding(pc, t, type).pc = pc /\ Holding(pc, t, type).t = t
           /\ Holding(pc, t, type).message = NewMessage(type)
BY NewMessageType DEF Holding, IoState

LEMMA IdleType == Idle \in IoState /\ Idle.pc = "idle"
BY DEF Idle, IoState, IoPC

LEMMA InitType == Init => TypeInv
<1> SUFFICES ASSUME Init PROVE TypeInv
  OBVIOUS
<1>1. << >> \in Seq(Handler) /\ << >> \in Seq(Message)
  BY EmptySeq
<1>2. 0 \in 0..MaxReads /\ 0 \in 0..MaxCalls
  BY ConstantsAssumption
<1> QED
  BY <1>1, <1>2, IdleType DEF Init, TypeInv, ConnectionType, FlagsType, AsioType,
        IoType, QueueType, WorkerType, EndType, Closing, Tidying

LEMMA CallsType ==
    ASSUME TypeInv, Calls
    PROVE  TypeInv'
<1>1. calls < MaxCalls => calls + 1 \in 0..MaxCalls
  <2>1. calls \in 0..MaxCalls
    BY DEF TypeInv, WorkerType
  <2> QED
    BY <2>1, ConstantsAssumption
<1>2. \A type \in Directive :
         MessagePlugin(m_MessageQueue, NewMessage(type)) \in Seq(Message)
  BY NewMessageType, MessagePluginType, MessageTypes DEF TypeInv, QueueType
<1>3. WorkerType'
  BY <1>1 DEF Calls, CConnection_connect, CConnection_disconnect, Release,
              InCallback, TypeInv, WorkerType, WorkerAt, Closing, Tidying
<1>4. QueueType'
  BY <1>2 DEF Calls, CConnection_connect, CConnection_disconnect, Release,
              Directive, TypeInv, QueueType
<1>5. ConnectionType' /\ EndType'
  BY DEF Calls, CConnection_connect, CConnection_disconnect, Release, connection,
         TypeInv, ConnectionType, EndType
<1>6. UNCHANGED <<life, flags, asio, io, reads>>
  BY DEF Calls, CConnection_connect, CConnection_disconnect, Release
<1> QED
  BY <1>3, <1>4, <1>5, <1>6, TypeFrame DEF TypeInv

LEMMA DiesType ==
    ASSUME TypeInv, NEW how \in {"freed transport", "freed in handler",
                                 "null transport", "null Target"},
           Dies(how)
    PROVE  TypeInv'
<1>1. EndType'
  BY DEF Dies, TypeInv, EndType
<1>2. UNCHANGED <<connection, life, flags, asio, io, reads, m_Transports,
                  m_MessageQueue, worker>>
  BY DEF Dies
<1> QED
  BY <1>1, <1>2, TypeFrame DEF TypeInv

\* What deleting a transport does to what asio holds.
LEMMA DeleteType ==
    ASSUME TypeInv, NEW t \in Transport, DeleteTransport(t)
    PROVE  /\ m_Transports' \subseteq Transport
           /\ life' \in [Transport -> {"unborn", "alive", "deleted"}]
           /\ pTransport' = NoTransport
           /\ handlers' \in Seq(Handler)
           /\ pending' \in [Transport -> {"none", "resolve", "connect", "read"}]
           /\ m_Timer' \in [Transport -> BOOLEAN]
<1>1. handlers \o TimerAborted(t) \in Seq(Handler)
  BY AbortedType DEF TypeInv, AsioType
<1>2. pending[t] # "none" => Aborted(t, pending[t]) \in Handler
  <2>1. pending[t] \in {"none", "resolve", "connect", "read"}
    BY DEF TypeInv, AsioType
  <2> QED
    BY <2>1, AbortedType DEF Operation, TypeInv, AsioType
<1>3. handlers' \in Seq(Handler)
  <2>1. handlers' = (handlers \o TimerAborted(t))
                       \o (IF ~(pending[t] = "none") THEN <<Aborted(t, pending[t])>> ELSE << >>)
    BY DEF DeleteTransport
  <2>2. (~(pending[t] = "none")) \in BOOLEAN
    OBVIOUS
  <2> QED
    BY <1>1, <1>2, <2>1, <2>2, QueueMaybe
<1> QED
  BY <1>3 DEF DeleteTransport, TypeInv, QueueType, FlagsType, AsioType

LEMMA RunCallbackType == TypeInv /\ (RunCallback \/ RunOnStop) => TypeInv'
<1> SUFFICES ASSUME TypeInv, RunCallback \/ RunOnStop PROVE TypeInv'
  OBVIOUS
<1>1. [type |-> "onStop", target |-> TRUE] \in Message
  BY MessageTypes DEF Message, Callback
<1>2. CASE RunCallback
  <2>1. PICK type \in Callback :
           /\ HeadIs(type)
           /\ msg' = Head(m_MessageQueue)
           /\ m_MessageQueue' = Tail(m_MessageQueue)
           /\ wpc' = IF msg'.target \/ type = "onHeartbeat" THEN "callback" ELSE "done"
           /\ over' = (over \/ (type \in {"onDisconnect", "onConnectError"}
                                  /\ msg'.target))
           /\ UNCHANGED <<connection, life, flags, asio, io, reads, m_Transports,
                          calls, stop, crossed, fault>>
    BY <1>2 DEF RunCallback
  <2>2. m_MessageQueue # << >>
    BY <2>1 DEF HeadIs
  <2>3. QueueType' /\ WorkerType'
    BY <2>1, <2>2, PollType DEF TypeInv, QueueType, WorkerType, Closing, Tidying
  <2>4. EndType'
    BY <2>1 DEF TypeInv, EndType
  <2> QED
    BY <2>1, <2>3, <2>4, TypeFrame DEF TypeInv
<1>3. CASE RunOnStop
  <2>1. WorkerType'
    BY <1>1, <1>3 DEF RunOnStop, TypeInv, WorkerType, Closing, Tidying
  <2> QED
    BY <1>3, <2>1, TypeFrame DEF RunOnStop, TypeInv
<1> QED
  BY <1>2, <1>3

LEMMA ReturnType == TypeInv /\ Return => TypeInv'
<1> SUFFICES ASSUME TypeInv, Return PROVE TypeInv'
  OBVIOUS
<1>1. CASE Dies("null transport")
  BY <1>1, DiesType
<1>2. CASE ~Dies("null transport")
  <2>1. ForcedDisconnects = << >> \/ ForcedDisconnects = <<NewMessage("Disconnect")>>
    BY DEF ForcedDisconnects
  <2>2. NewMessage("Disconnect") \in Message
    BY NewMessageType, MessageTypes DEF Directive
  <2>3. m_MessageQueue' \in {m_MessageQueue \o << >>,
                             m_MessageQueue \o <<NewMessage("Disconnect")>>}
    BY <1>2, <2>1 DEF Return
  <2>4. QueueType'
    <3>1. m_MessageQueue \in Seq(Message)
      BY DEF TypeInv, QueueType
    <3>2. m_MessageQueue \o << >> \in Seq(Message)
      BY <3>1
    <3>3. m_MessageQueue \o <<NewMessage("Disconnect")>> \in Seq(Message)
      BY <2>2, <3>1
    <3>4. UNCHANGED m_Transports
      BY <1>2 DEF Return
    <3> QED
      BY <2>3, <3>2, <3>3, <3>4 DEF TypeInv, QueueType
  <2>5. WorkerType' /\ ConnectionType' /\ EndType'
    <3>1. 0 \in 0..MaxCalls
      BY ConstantsAssumption
    <3>2. WorkerType'
      BY <1>2, <3>1 DEF Return, TypeInv, WorkerType, Closing, Tidying
    <3>3. ConnectionType'
      BY <1>2 DEF Return, TypeInv, ConnectionType
    <3>4. EndType'
      BY <1>2 DEF Return, TypeInv, EndType
    <3> QED
      BY <3>2, <3>3, <3>4
  <2>6. UNCHANGED <<life, flags, asio, io, reads>>
    BY <1>2 DEF Return
  <2> QED
    BY <2>4, <2>5, <2>6, TypeFrame DEF TypeInv
<1> QED
  BY <1>1, <1>2

LEMMA ConnectType == TypeInv /\ (ConnectionConnect \/ SetConnecting) => TypeInv'
<1> SUFFICES ASSUME TypeInv, ConnectionConnect \/ SetConnecting PROVE TypeInv'
  OBVIOUS
<1>1. CASE ConnectionConnect
  <2>1. /\ HeadIs("Connect") /\ msg' = Head(m_MessageQueue)
        /\ UNCHANGED <<scenario, held, Target, flags, m_Socket, m_Timer,
                       handlers, io, reads, calls, stop, over, crossed, fault>>
        /\ Head(m_MessageQueue) \in Message /\ Tail(m_MessageQueue) \in Seq(Message)
    BY <1>1, PollType DEF ConnectionConnect, HeadIs
  <2>2. WorkerType'
    BY <1>1, <2>1 DEF ConnectionConnect, TypeInv, WorkerType, Closing, Tidying
  <2>3. NewMessage("onConnectError") \in Message
    BY NewMessageType, MessageTypes DEF Callback
  <2>4. CASE IsConnected
    BY <1>1, <2>1, <2>2, <2>4, TypeFrame
       DEF ConnectionConnect, TypeInv, QueueType, connection, asio
  <2>5. CASE ~IsConnected
    <3>1. PICK t \in Unborn :
            /\ pTransport' = t
            /\ life' = [life EXCEPT ![t] = "alive"]
            /\ \/ /\ pending' = [pending EXCEPT ![t] = "resolve"]
                  /\ m_Transports' = m_Transports \union {t}
                  /\ m_MessageQueue' = Tail(m_MessageQueue)
               \/ /\ m_MessageQueue' = MessagePlugin(Tail(m_MessageQueue),
                                                     NewMessage("onConnectError"))
                  /\ UNCHANGED <<pending, m_Transports>>
      BY <1>1, <2>5 DEF ConnectionConnect
    <3>2. t \in Transport
      BY ScenarioFields DEF Unborn
    <3>3. QueueType'
      BY <2>1, <2>3, <3>1, <3>2, MessagePluginType DEF TypeInv, QueueType
    <3>4. ConnectionType' /\ FlagsType' /\ AsioType'
      BY <2>1, <3>1, <3>2
         DEF flags, TypeInv, ConnectionType, FlagsType, AsioType
    <3> QED
      BY <2>1, <2>2, <3>3, <3>4, TypeFrame DEF TypeInv
  <2> QED
    BY <2>4, <2>5
<1>2. CASE SetConnecting
  <2>1. FlagsType' /\ WorkerType'
    BY <1>2 DEF SetConnecting, TypeInv, FlagsType, WorkerType, Closing, Tidying
  <2> QED
    BY <1>2, <2>1, TypeFrame DEF SetConnecting, TypeInv
<1> QED
  BY <1>1, <1>2

LEMMA ReadType == TypeInv /\ ConnectionRead => TypeInv'
<1> SUFFICES ASSUME TypeInv, ConnectionRead PROVE TypeInv'
  OBVIOUS
<1>1. CASE Dies("null Target")
  BY <1>1, DiesType
<1>2. CASE ~Dies("null Target")
  <2>1. Head(m_MessageQueue) \in Message /\ Tail(m_MessageQueue) \in Seq(Message)
    BY PollType DEF ConnectionRead, HeadIs
  <2>2. NewMessage("onMessage") \in Message
    BY NewMessageType, MessageTypes DEF Callback
  <2>3. WorkerType' /\ QueueType'
    BY <1>2, <2>1, <2>2, MessagePluginType
       DEF ConnectionRead, TypeInv, QueueType, WorkerType, Closing, Tidying
  <2>4. UNCHANGED <<connection, life, flags, asio, io, reads, stop, over, crossed, fault>>
    BY <1>2 DEF ConnectionRead
  <2> QED
    BY <2>3, <2>4, TypeFrame DEF TypeInv
<1> QED
  BY <1>1, <1>2

\* Closing the socket of a transport aborts what is pending on it.
LEMMA CloseType ==
    ASSUME TypeInv, NEW t \in Transport, CloseSocket(t)
    PROVE  /\ m_Socket' \in [Transport -> {"none", "open", "closed"}]
           /\ pending' \in [Transport -> {"none", "resolve", "connect", "read"}]
BY DEF CloseSocket, TypeInv, AsioType

LEMMA DisconnectType ==
    TypeInv /\ (ConnectionDisconnect \/ AskIsConnecting) => TypeInv'
<1> SUFFICES ASSUME TypeInv, ConnectionDisconnect \/ AskIsConnecting PROVE TypeInv'
  OBVIOUS
<1>1. CASE ConnectionDisconnect
  <2>1. /\ Head(m_MessageQueue) \in Message /\ Tail(m_MessageQueue) \in Seq(Message)
        /\ msg' = Head(m_MessageQueue) /\ m_MessageQueue' = Tail(m_MessageQueue)
        /\ UNCHANGED <<connection, life, flags, asio, io, reads, m_Transports, calls,
                       stop, over, crossed, fault>>
    BY <1>1, PollType DEF ConnectionDisconnect, HeadIs
  <2>2. wpc' = IF pTransport = NoTransport THEN "done"
               ELSE IF IsConnected THEN "handleDisconnect" ELSE "isConnecting"
    BY <1>1 DEF ConnectionDisconnect
  <2>3. WorkerType' /\ QueueType'
    BY <2>1, <2>2 DEF TypeInv, WorkerType, QueueType, Closing, Tidying, connection
  <2> QED
    BY <2>1, <2>3, TypeFrame DEF TypeInv
<1>2. CASE AskIsConnecting
  <2>1. /\ wpc = "isConnecting" /\ wpc' \in {"handleDisconnect", "tidyUp"}
        /\ UNCHANGED <<connection, life, flags, asio, io, reads, m_Transports,
                       m_MessageQueue, msg, calls, stop, over, fault>>
    BY <1>2 DEF AskIsConnecting, WorkerAt
  <2>2. WorkerType'
    BY <2>1 DEF TypeInv, WorkerType, Closing, Tidying, connection
  <2>3. crossed' \in BOOLEAN
    BY <1>2 DEF AskIsConnecting
  <2>4. EndType'
    BY <2>1, <2>3 DEF TypeInv, EndType
  <2> QED
    BY <2>1, <2>2, <2>4, TypeFrame DEF TypeInv
<1> QED
  BY <1>1, <1>2

LEMMA ClosingType ==
    TypeInv /\ (handleDisconnect \/ Shutdown \/ ClearConnected \/ TidyUp) => TypeInv'
<1> SUFFICES ASSUME TypeInv, handleDisconnect \/ Shutdown \/ ClearConnected \/ TidyUp
             PROVE  TypeInv'
  OBVIOUS
<1>1. /\ wpc \in Closing /\ wpc' \in {"shutdown", "disconnected", "done", "delete"}
      /\ UNCHANGED <<m_MessageQueue, crossed, connection, life, m_bConnecting,
                     m_bDisconnectQueued, io, reads, m_Transports, msg, calls, stop,
                     over, fault>>
  BY DEF handleDisconnect, Shutdown, ClearConnected, TidyUp, WorkerAt, Closing, Tidying,
         DisconnectUnchanged
<1>2. pTransport \in Transport
  BY <1>1 DEF TypeInv, WorkerType, ConnectionType
<1>3. WorkerType'
  BY <1>1 DEF TypeInv, WorkerType, Closing, Tidying, connection
<1>4. FlagsType'
  BY <1>1 DEF handleDisconnect, Shutdown, ClearConnected, TidyUp, TypeInv, FlagsType
<1>5. AsioType'
  <2>1. CASE ClearConnected
    BY <2>1, TypeFrame DEF ClearConnected
  <2>2. handlers' \in Seq(Handler) \/ UNCHANGED asio
    <3> DEFINE timed == handlers \o TimerAborted(pTransport)
    <3>1. timed \in Seq(Handler)
      BY <1>2, AbortedType DEF TypeInv, AsioType
    <3>2. /\ timed \o SocketAborted(pTransport) \in Seq(Handler)
          /\ handlers \o SocketAborted(pTransport) \in Seq(Handler)
          /\ handlers \in Seq(Handler)
      BY <1>2, <3>1, AbortedType DEF TypeInv, AsioType
    <3>3. timed \o << >> = timed
      BY <3>1
    <3> QED
      BY <3>1, <3>2, <3>3 DEF handleDisconnect, Shutdown, ClearConnected, TidyUp
  <2>3. CASE ~ClearConnected
    <3>1. \/ CloseSocket(pTransport)
          \/ UNCHANGED <<m_Socket, pending>>
      BY <2>3 DEF handleDisconnect, Shutdown, TidyUp
    <3>2. /\ m_Socket' \in [Transport -> {"none", "open", "closed"}]
          /\ pending' \in [Transport -> {"none", "resolve", "connect", "read"}]
      BY <1>2, <3>1, CloseType DEF TypeInv, AsioType
    <3>3. m_Timer' \in [Transport -> BOOLEAN]
      BY <2>3 DEF handleDisconnect, Shutdown, TidyUp, TypeInv, AsioType
    <3>4. handlers' \in Seq(Handler)
      BY <2>2 DEF asio, TypeInv, AsioType
    <3> QED
      BY <3>2, <3>3, <3>4 DEF AsioType
  <2> QED
    BY <2>1, <2>3
<1> QED
  BY <1>1, <1>3, <1>4, <1>5, TypeFrame DEF TypeInv

LEMMA TidyDeleteType == TypeInv /\ TidyDelete => TypeInv'
<1> SUFFICES ASSUME TypeInv, TidyDelete PROVE TypeInv'
  OBVIOUS
<1>1. /\ wpc = "delete" /\ wpc' = "done" /\ DeleteTransport(pTransport)
      /\ UNCHANGED <<scenario, held, Target, flags, m_Socket, io, reads,
                     m_MessageQueue, msg, calls, stop, over, crossed, fault>>
  BY DEF TidyDelete, WorkerAt
<1>2. pTransport \in Transport
  BY <1>1 DEF TypeInv, WorkerType, ConnectionType, Closing, Tidying
<1>3. /\ m_Transports' \subseteq Transport
      /\ life' \in [Transport -> {"unborn", "alive", "deleted"}]
      /\ pTransport' = NoTransport
      /\ handlers' \in Seq(Handler)
      /\ pending' \in [Transport -> {"none", "resolve", "connect", "read"}]
      /\ m_Timer' \in [Transport -> BOOLEAN]
  BY <1>1, <1>2, DeleteType
<1>4. ConnectionType' /\ FlagsType' /\ AsioType' /\ QueueType' /\ WorkerType'
  BY <1>1, <1>3 DEF flags, TypeInv, ConnectionType, FlagsType, AsioType, QueueType,
     WorkerType, Closing, Tidying
<1> QED
  BY <1>1, <1>4, TypeFrame DEF TypeInv

LEMMA DisconnectedType == TypeInv /\ DisconnectEvent => TypeInv'
<1> SUFFICES ASSUME TypeInv, DisconnectEvent PROVE TypeInv'
  OBVIOUS
<1>1. /\ Head(m_MessageQueue) \in Message /\ Tail(m_MessageQueue) \in Seq(Message)
      /\ msg' = Head(m_MessageQueue) /\ wpc' = "done"
      /\ UNCHANGED <<scenario, held, Target, flags, m_Socket, io, reads, calls,
                     stop, over, crossed, fault>>
  BY PollType DEF DisconnectEvent, HeadIs
<1>2. WorkerType'
  BY <1>1 DEF TypeInv, WorkerType, Closing, Tidying
<1>3. CASE pTransport = NoTransport
  <2>1. QueueType' /\ ConnectionType'
    BY <1>1, <1>3 DEF DisconnectEvent, TypeInv, QueueType, ConnectionType
  <2> QED
    BY <1>1, <1>2, <1>3, <2>1, TypeFrame DEF DisconnectEvent, asio, TypeInv
<1>4. CASE pTransport # NoTransport
  <2>1. pTransport \in Transport
    BY <1>4 DEF TypeInv, ConnectionType
  <2>2. /\ DeleteTransport(pTransport)
        /\ m_MessageQueue' = MessagePlugin(Tail(m_MessageQueue),
                                           NewMessage("onDisconnect"))
    BY <1>4 DEF DisconnectEvent
  <2>3. NewMessage("onDisconnect") \in Message
    BY NewMessageType, MessageTypes DEF Callback
  <2>4. /\ m_Transports' \subseteq Transport
        /\ life' \in [Transport -> {"unborn", "alive", "deleted"}]
        /\ pTransport' = NoTransport
        /\ handlers' \in Seq(Handler)
        /\ pending' \in [Transport -> {"none", "resolve", "connect", "read"}]
        /\ m_Timer' \in [Transport -> BOOLEAN]
    BY <2>1, <2>2, DeleteType
  <2>5. QueueType'
    BY <1>1, <2>2, <2>3, <2>4, MessagePluginType DEF QueueType
  <2>6. ConnectionType' /\ FlagsType' /\ AsioType'
    BY <1>1, <2>4 DEF flags, TypeInv, ConnectionType, FlagsType, AsioType
  <2> QED
    BY <1>1, <1>2, <2>5, <2>6, TypeFrame DEF TypeInv
<1> QED
  BY <1>3, <1>4

LEMMA HousekeepingType == TypeInv /\ Housekeeping => TypeInv'
<1> SUFFICES ASSUME TypeInv, Housekeeping PROVE TypeInv'
  OBVIOUS
<1>1. WorkerType'
  BY DEF Housekeeping, TypeInv, WorkerType, Closing, Tidying
<1>2. UNCHANGED <<connection, life, m_bConnecting, m_bConnected, asio, io, reads,
                  m_Transports, stop, over, crossed, fault>>
  BY DEF Housekeeping
<1>3. FlagsType'
  BY <1>2 DEF Housekeeping, TypeInv, FlagsType
<1>4. m_MessageQueue' \in Seq(Message)
  <2>1. CASE UNCHANGED m_MessageQueue
    BY <2>1 DEF TypeInv, QueueType
  <2>2. ASSUME NEW beat \in {<< >>, <<[type |-> "onHeartbeat", target |-> FALSE]>>},
               m_MessageQueue' = m_MessageQueue \o beat
                      \o (IF Unreferenced = {} THEN << >>
                          ELSE <<NewMessage("Disconnect")>>)
        PROVE  m_MessageQueue' \in Seq(Message)
    <3>1. NewMessage("Disconnect") \in Message
      BY NewMessageType, MessageTypes DEF Directive
    <3>2. [type |-> "onHeartbeat", target |-> FALSE] \in Message
      BY MessageTypes DEF Message, Callback
    <3>a. <<NewMessage("Disconnect")>> \in Seq(Message)
      BY <3>1
    <3>b. <<[type |-> "onHeartbeat", target |-> FALSE]>> \in Seq(Message)
      BY <3>2
    <3>c. << >> \in Seq(Message)
      OBVIOUS
    <3>3. beat \in Seq(Message) /\ << >> \in Seq(Message)
          /\ <<NewMessage("Disconnect")>> \in Seq(Message)
      BY <3>a, <3>b, <3>c
    <3>4. m_MessageQueue \o beat \in Seq(Message)
      BY <3>3 DEF TypeInv, QueueType
    <3> QED
      BY <2>2, <3>3, <3>4
  <2> QED
    BY <2>1, <2>2 DEF Housekeeping
<1>5. QueueType'
  BY <1>2, <1>4 DEF TypeInv, QueueType
<1> QED
  BY <1>1, <1>2, <1>3, <1>5, TypeFrame DEF TypeInv

LEMMA StopType == TypeInv /\ (RequestStop \/ StopHardware) => TypeInv'
<1> SUFFICES ASSUME TypeInv, RequestStop \/ StopHardware PROVE TypeInv'
  OBVIOUS
<1>1. EndType'
  BY DEF RequestStop, StopHardware, TypeInv, EndType
<1> QED
  BY <1>1, TypeFrame DEF RequestStop, StopHardware, TypeInv

LEMMA CompleteType ==
    ASSUME TypeInv, NEW t \in Transport, Complete(t) \/ Expire(t)
    PROVE  TypeInv'
<1>1. CASE Complete(t)
  <2>1. PICK ok \in BOOLEAN :
           /\ pending[t] = "read" /\ ok => reads < scenario.reads
           /\ handlers' = Append(handlers, [t |-> t, op |-> pending[t], ok |-> ok])
           /\ reads' = IF pending[t] = "read" /\ ok THEN reads + 1 ELSE reads
    BY <1>1 DEF Complete
  <2>2. /\ pending[t] # "none" /\ pending' = [pending EXCEPT ![t] = "none"]
        /\ UNCHANGED <<connection, life, flags, m_Socket, m_Timer, io, m_Transports,
                       m_MessageQueue, worker, stop, over, crossed, fault>>
    BY <1>1 DEF Complete
  <2>3. pending[t] \in {"none", "resolve", "connect", "read"}
    BY DEF TypeInv, AsioType
  <2>4. [t |-> t, op |-> pending[t], ok |-> ok] \in Handler
    BY <2>2, <2>3 DEF Handler, Operation
  <2>5. AsioType'
    BY <2>1, <2>2, <2>4, QueueAppend DEF TypeInv, AsioType
  <2>6. reads' \in 0..MaxReads
    <3>1. reads \in 0..MaxReads
      BY DEF TypeInv, IoType
    <3> QED
      BY <2>1, <3>1, TypeParts, ScenarioFields, ConstantsAssumption
  <2>7. IoType'
    BY <2>2, <2>6 DEF TypeInv, IoType
  <2> QED
    BY <2>2, <2>5, <2>7, TypeFrame DEF TypeInv
<1>2. CASE Expire(t)
  <2>1. [t |-> t, op |-> "timer", ok |-> TRUE] \in Handler
    BY DEF Handler, Operation
  <2>2. AsioType'
    BY <1>2, <2>1, QueueAppend DEF Expire, TypeInv, AsioType
  <2> QED
    BY <1>2, <2>2, TypeFrame DEF Expire, TypeInv
<1> QED
  BY <1>1, <1>2

\* The handler at the head of the list.
LEMMA HandlerType ==
    ASSUME TypeInv, handlers # << >>
    PROVE  /\ Head(handlers).t \in Transport
           /\ Head(handlers).op \in Operation /\ Head(handlers).ok \in BOOLEAN
           /\ Tail(handlers) \in Seq(Handler)
<1>1. Head(handlers) \in Handler /\ Tail(handlers) \in Seq(Handler)
  BY QueueTail DEF TypeInv, AsioType
<1> QED
  BY <1>1 DEF Handler

LEMMA HandlersType ==
    TypeInv /\ (HandleFreed \/ handleAsyncResolve \/ handleAsyncConnect
                  \/ handleRead \/ handleTimeout) => TypeInv'
<1> SUFFICES ASSUME TypeInv, HandleFreed \/ handleAsyncResolve \/ handleAsyncConnect
                                \/ handleRead \/ handleTimeout
             PROVE  TypeInv'
  OBVIOUS
<1>1. handlers # << >>
  BY DEF HandleFreed, handleAsyncResolve, handleAsyncConnect, handleRead,
         handleTimeout, Handle
<1> DEFINE t == Head(handlers).t
<1>2. t \in Transport /\ Tail(handlers) \in Seq(Handler)
  BY <1>1, HandlerType
<1>3. ASSUME NEW pc \in IoPC, NEW type \in MessageType, io' = Holding(pc, t, type),
             UNCHANGED reads
      PROVE  IoType'
  BY <1>2, <1>3, HoldingType DEF TypeInv, IoType
<1>4. {"resolveFailed", "connected", "connectFailed", "readNext", "readFailed",
       "rearm"} \subseteq IoPC
      /\ {"onConnect", "onConnectError", "onTimeout"} \subseteq MessageType
      /\ {"Read", "Disconnected"} \subseteq MessageType
  BY MessageTypes DEF IoPC, Callback, Event
<1>5. CASE HandleFreed
  BY <1>5, DiesType DEF HandleFreed
<1>6. CASE handleAsyncResolve
  <2>1. /\ handlers' = Tail(handlers) /\ HandlerUnchanged
        /\ UNCHANGED <<m_bConnected, m_bDisconnectQueued, m_Timer>>
    BY <1>6 DEF handleAsyncResolve, flags
  <2>2. AsioType' /\ FlagsType'
    BY <1>2, <1>6, <2>1
       DEF handleAsyncResolve, HandlerUnchanged, flags, TypeInv, AsioType, FlagsType
  <2>3. IoType'
    BY <1>3, <1>4, <1>6, <2>1, TypeFrame DEF handleAsyncResolve, HandlerUnchanged
  <2> QED
    BY <2>1, <2>2, <2>3, TypeFrame DEF HandlerUnchanged, TypeInv
<1>7. CASE handleAsyncConnect \/ handleRead \/ handleTimeout
  <2>1. /\ handlers' = Tail(handlers) /\ HandlerUnchanged
        /\ UNCHANGED <<flags, m_Socket, pending, m_Timer>>
    BY <1>7 DEF handleAsyncConnect, handleRead, handleTimeout
  <2>2. AsioType' /\ FlagsType'
    BY <1>2, <2>1 DEF HandlerUnchanged, flags, TypeInv, AsioType, FlagsType
  <2>3. IoType'
    <3>1. UNCHANGED reads
      BY <2>1 DEF HandlerUnchanged
    <3>2. \/ \E pc \in IoPC, type \in MessageType : io' = Holding(pc, t, type)
          \/ UNCHANGED io
      BY <1>4, <1>7 DEF handleAsyncConnect, handleRead, handleTimeout
    <3> QED
      BY <1>3, <3>1, <3>2, TypeFrame
  <2> QED
    BY <2>1, <2>2, <2>3, TypeFrame DEF HandlerUnchanged, TypeInv
<1> QED
  BY <1>5, <1>6, <1>7

LEMMA PushType == TypeInv /\ (Push \/ ResumesFreed) => TypeInv'
<1> SUFFICES ASSUME TypeInv, Push \/ ResumesFreed PROVE TypeInv'
  OBVIOUS
<1>1. CASE Push
  <2>1. io \in IoState /\ io.message # NoMessage
    BY <1>1 DEF Push, TypeInv, IoType
  <2>2. io.message \in Message
    BY <2>1 DEF IoState
  <2>3. QueueType'
    BY <1>1, <2>2, MessagePluginType DEF Push, TypeInv, QueueType
  <2>4. io' \in IoState /\ io'.pc = io.pc /\ io'.t = io.t
    BY <1>1, <2>1 DEF Push, IoState
  <2>5. IoType'
    BY <1>1, <2>4 DEF Push, TypeInv, IoType
  <2> QED
    BY <1>1, <2>3, <2>5, TypeFrame DEF Push, TypeInv
<1>2. CASE ResumesFreed
  BY <1>2, DiesType DEF ResumesFreed
<1> QED
  BY <1>1, <1>2

LEMMA StartReadType ==
    ASSUME TypeInv, NEW t \in Transport, StartRead(t), UNCHANGED m_Socket
    PROVE  AsioType'
<1>1. Aborted(t, "read") \in Handler
  BY AbortedType DEF TypeInv, AsioType, Operation
<1>2. handlers \o (IF ~(m_Socket[t] = "open") THEN <<Aborted(t, "read")>> ELSE << >>)
         \in Seq(Handler)
  BY <1>1, QueueMaybe DEF TypeInv, AsioType
<1>3. handlers' = (handlers \o (IF ~(m_Socket[t] = "open") THEN <<Aborted(t, "read")>> ELSE << >>))
                      \o TimerAborted(t)
  BY DEF StartRead
<1>4. handlers' \in Seq(Handler)
  BY <1>2, <1>3, AbortedType
<1>5. scenario.timeout \in BOOLEAN
  BY TypeParts, ScenarioFields
<1> QED
  BY <1>4, <1>5 DEF StartRead, TypeInv, AsioType

LEMMA ResumeType ==
    TypeInv /\ (SetConnected \/ FirstRead \/ ClearConnecting \/ ReadNext \/ Rearm
                  \/ Report \/ SetFlag \/ EndHandler) => TypeInv'
<1> SUFFICES ASSUME TypeInv, SetConnected \/ FirstRead \/ ClearConnecting \/ ReadNext
                                \/ Rearm \/ Report \/ SetFlag \/ EndHandler
             PROVE  TypeInv'
  OBVIOUS
<1>1. HandlerUnchanged /\ io.pc # "idle"
  BY DEF SetConnected, FirstRead, ClearConnecting, ReadNext, Rearm, Report, SetFlag,
         EndHandler, Resumes, IoAt
<1>2. io.t \in Transport
  BY <1>1 DEF TypeInv, IoType
<1>3. io' = Idle => IoType'
  BY <1>1, IdleType DEF HandlerUnchanged, TypeInv, IoType
<1>4. FlagsType'
  BY <1>1 DEF SetConnected, FirstRead, ClearConnecting, ReadNext, Rearm, Report, SetFlag,
              EndHandler, HandlerUnchanged, flags, TypeInv, FlagsType
<1>5. IoType' /\ AsioType'
  <2> DEFINE next(pc) == [io EXCEPT !.pc = pc]
  <2>a. ASSUME NEW pc \in IoPC, io' = next(pc) PROVE IoType'
    <3>1. next(pc) \in IoState /\ next(pc).t = io.t
      BY DEF TypeInv, IoType, IoState
    <3> QED
      BY <1>1, <1>2, <2>a, <3>1 DEF HandlerUnchanged, TypeInv, IoType
  <2>b. {"firstRead", "connectEnds"} \subseteq IoPC
    BY DEF IoPC
  <2>0. CASE SetConnected \/ FirstRead
    <3>1. IoType'
      BY <2>0, <2>a, <2>b DEF SetConnected, FirstRead
    <3> QED
      BY <1>2, <2>0, <3>1, StartReadType, TypeFrame DEF SetConnected, FirstRead
  <2>1. CASE ReadNext \/ ClearConnecting
    BY <1>2, <1>3, <2>1, StartReadType, TypeFrame DEF ReadNext, ClearConnecting
  <2>2. CASE Rearm
    <3>1. handlers' \in Seq(Handler)
      BY <1>2, <2>2, AbortedType DEF Rearm, TypeInv, AsioType
    <3>2. scenario.timeout \in BOOLEAN
      BY TypeParts, ScenarioFields
    <3> QED
      BY <1>3, <2>2, <3>1, <3>2 DEF Rearm, TypeInv, AsioType
  <2>3. CASE Report
    <3>1. {"notConnecting", "end"} \subseteq IoPC /\ "Disconnected" \in MessageType
      BY MessageTypes DEF IoPC, Event
    <3>2. \E pc \in IoPC : io' = Holding(pc, io.t, "Disconnected")
      BY <2>3, <3>1 DEF Report
    <3>3. UNCHANGED reads
      BY <1>1 DEF HandlerUnchanged
    <3>4. IoType'
      BY <1>2, <3>1, <3>2, <3>3, HoldingType DEF TypeInv, IoType
    <3> QED
      BY <2>3, <3>4, TypeFrame DEF Report
  <2>4. CASE SetFlag \/ EndHandler
    BY <1>3, <2>4, TypeFrame DEF SetFlag, EndHandler
  <2> QED
    BY <2>0, <2>1, <2>2, <2>3, <2>4
<1> QED
  BY <1>1, <1>4, <1>5, TypeFrame DEF HandlerUnchanged, TypeInv

LEMMA NextType == TypeInv /\ [Next]_vars => TypeInv'
<1> SUFFICES ASSUME TypeInv, [Next]_vars PROVE TypeInv'
  OBVIOUS
<1>1. CASE UNCHANGED vars
  BY <1>1, TypeFrame DEF vars, TypeInv
<1>2. CASE Next
  BY <1>2, CallsType, RunCallbackType, ReturnType, ConnectType, ReadType,
     DisconnectType, ClosingType, TidyDeleteType, DisconnectedType, HousekeepingType, StopType, HandlersType,
     PushType, ResumeType, CompleteType DEF Next, Worker, Asio
<1> QED
  BY <1>1, <1>2

\* Every variable has its type, whatever the script and the peer do: no message
\* that a handler has pushed is pushed again, no queue is given a wrong one.
THEOREM ConnectionTyped == Spec => []TypeOK
<1>1. Spec => []TypeInv
  BY InitType, NextType, PTL DEF Spec
<1>2. TypeInv => TypeOK
  BY TypeParts
<1> QED
  BY <1>1, <1>2, PTL

-----------------------------------------------------------------------------
(* A patient script: the invariant.                                        *)

\* Messages by type, and those for the script; handlers by operation.
Of(types) == {m \in Message : m.type \in types}
ToTarget(types) == {m \in Message : m.type \in types /\ m.target}
Does(ops) == {h \in Handler : h.op \in ops}
IoOps == {"resolve", "connect", "read"}

\* What tells the script that its connection is over, and what brings it data.
Told == ToTarget({"onDisconnect", "onConnectError"})
Data == ToTarget({"onMessage"})

\* None of the types is queued.
NoneOf(types) == None(m_MessageQueue, Of(types))
InOrder(ahead, behind) == NoneBehind(m_MessageQueue, Of(behind), Of(ahead))
OnlyOne(type) == NoneBehind(m_MessageQueue, Of({type}), Of({type}))

InCallbackOf(types) == wpc = "callback" /\ msg.type \in types

\* The end of the transport is queued; a handler is about to queue something
\* for its transport.
Ended == ~NoneOf({"Disconnected"})
Reporting ==
    \/ io.pc \in {"connected", "firstRead", "readNext", "connectFailed"}
    \/ io.pc \in {"notConnecting", "readFailed"} /\ io.message # NoMessage

\* onStop has been handled, its Disconnect too, and no heartbeat comes.
Late ==
    /\ stop \in {"handled", "exited"}
    /\ NoneOf({"Disconnect"}) /\ NoneOf({"onHeartbeat"})
    /\ ~InCallbackOf({"onHeartbeat"})
    /\ wpc # "isConnecting"

\* The transport says that it is there.
Up(t) == m_bConnecting[t] \/ m_bConnected[t] \/ wpc = "connecting"

\* There is one transport at most, and everything is about it or about one
\* that has been deleted.
OneLife ==
    /\ held
    /\ \A t \in Transport : life[t] = "alive" <=> t = pTransport
    /\ m_Transports = {pTransport} \ {NoTransport}
    /\ \A t \in Transport : life[t] = "unborn" =>
          ~m_bConnecting[t] /\ ~m_bConnected[t] /\ ~m_Timer[t]
    /\ None(handlers, {h \in Handler : life[h.t] = "unborn"})
    /\ io.pc # "idle" => life[io.t] # "unborn"
    /\ wpc = "connecting" => pTransport # NoTransport

\* The message a handler holds is the one for where it is.
IoShape ==
    /\ io.pc \notin {"resolveFailed", "end"}
    /\ io.message # NoMessage =>
          \/ io.pc = "connected" /\ io.message.type = "onConnect"
          \/ io.pc = "connectFailed" /\ io.message.type = "onConnectError"
          \/ io.pc = "readNext" /\ io.message.type = "Read"
          \/ io.pc \in {"notConnecting", "readFailed"} /\ io.message.type = "Disconnected"
          \/ io.pc = "rearm" /\ io.message.type = "onTimeout"

\* Of an operation, its handler, a handler that runs and the queued end of the
\* transport there is one at a time.
Token ==
    /\ \A t \in Transport : pending[t] # "none" =>
          t = pTransport /\ None(handlers, Does(IoOps)) /\ ~Reporting /\ ~Ended
    /\ None(handlers, Does(IoOps)) \/ (~Reporting /\ ~Ended)
    /\ None(handlers, {h \in Handler : h.op \in IoOps /\ h.t # pTransport})
    /\ None(handlers, {h \in Handler : h.op = "resolve" /\ ~h.ok})
    /\ NoneBehind(handlers, Does(IoOps), Does(IoOps))
    /\ Reporting => io.t = pTransport /\ ~Ended
    /\ io.pc \in {"notConnecting", "readFailed"} /\ io.t = pTransport =>
          Reporting \/ Ended \/ stop = "exited"
    /\ io.pc = "connectEnds" => io.t = pTransport /\ ~Ended
    /\ OnlyOne("Disconnected")

\* The script connects once in a heartbeat, and onStop disconnects once.
Turns ==
    /\ OnlyOne("onHeartbeat")
    /\ InCallbackOf({"onHeartbeat"}) => NoneOf({"onHeartbeat"})
    /\ OnlyOne("Connect")
    /\ InOrder({"Connect"}, {"onHeartbeat"})
    /\ InCallbackOf({"onHeartbeat"}) /\ over => NoneOf({"Connect"})
    /\ OnlyOne("Disconnect")
    /\ stop \in {"no", "queued"} => NoneOf({"Disconnect"})
    /\ InOrder({"onHeartbeat"}, {"Disconnect"})
    /\ stop # "no" => scenario.stops
    /\ InCallbackOf({"onStop"}) => stop = "queued"
    /\ stop = "exited" => m_MessageQueue = << >> /\ wpc = "poll"
    /\ NoneOf({"onStop"})
    /\ wpc \in Closing =>
          stop = "handled" /\ NoneOf({"Disconnect"}) /\ NoneOf({"onHeartbeat"})

\* A Connect is queued when the last transport has ended, and processed when it
\* is gone: until it has ended the transport says that it is there.
Order ==
    /\ pTransport # NoTransport => Ended \/ NoneOf({"Connect"})
    /\ InOrder({"Disconnected"}, {"Connect"})
    /\ InOrder({"onConnectError"}, {"Connect"})
    /\ pTransport # NoTransport /\ ~Ended /\ ~Late => Up(pTransport)
    /\ scenario.failures = {} /\ ~Late =>
          /\ pTransport # NoTransport => Up(pTransport)
          /\ io.pc \notin {"connectFailed", "notConnecting"}
          /\ None(handlers, {h \in Handler : h.op = "connect" /\ ~h.ok})

\* The transport is being connected; it is read from; it has failed.
Establishing ==
    \/ pTransport # NoTransport /\ pending[pTransport] \in {"resolve", "connect"}
    \/ ~None(handlers, Does({"resolve"})) \/ ~None(handlers, Does({"connect"}))
    \/ io.pc \in {"connected", "connectFailed"}
Reading ==
    \/ pTransport # NoTransport /\ pending[pTransport] = "read"
    \/ ~None(handlers, Does({"read"}))
    \/ io.pc \in {"firstRead", "connectEnds", "readNext"}
    \/ ~NoneOf({"Read"})
Failed == ~NoneOf({"onConnectError"}) \/ InCallbackOf({"onConnectError"})

\* A transport is connected, then read from, or it fails.
Phases ==
    /\ pTransport # NoTransport /\ m_bConnected[pTransport] => ~Establishing
    /\ Reading => /\ pTransport # NoTransport
                  /\ m_bConnected[pTransport] \/ Late
                  /\ ~Establishing
    /\ Failed /\ pTransport # NoTransport =>
          /\ ~m_bConnected[pTransport]
          /\ io.pc \in {"connectFailed", "notConnecting"} \/ Ended

\* Nothing that brings data is behind what tells of the end.
Telling ==
    /\ over /\ Target => InCallbackOf({"onDisconnect", "onConnectError"})
    /\ over => None(m_MessageQueue, Data)
    /\ InCallbackOf({"onMessage"}) => ~over
    /\ NoneBehind(m_MessageQueue, Told, Data)
    /\ NoneBehind(m_MessageQueue, Of({"Read"}), Told)
    /\ InOrder({"Read"}, {"Disconnected"})

\* A transport that is tidied up at once has failed, and its end is queued. One
\* that comes up between the two flags of a Disconnect has no Connect behind it.
Tidied ==
    /\ wpc \in Tidying =>
       /\ pTransport # NoTransport /\ Ended /\ scenario.failures # {}
       /\ ~m_bConnecting[pTransport] /\ ~m_bConnected[pTransport]
       /\ NoneOf({"Read"})
    /\ wpc = "isConnecting" /\ pTransport # NoTransport /\ m_bConnected[pTransport] =>
          NoneOf({"Connect"})

\* Without a timer no handler finds its transport deleted.
Untimed ==
    ~scenario.timeout =>
       /\ \A t \in Transport : ~m_Timer[t]
       /\ None(handlers, Does({"timer"}))
       /\ fault # "freed transport"

\* Where onConnect asks the transport, it is there.
Asked ==
    (scenario.stops => scenario.failures = {}) =>
       /\ ~NoneOf({"onConnect"}) \/ ~NoneOf({"onConnectError"})
             \/ InCallbackOf(OnConnect) => pTransport # NoTransport
       /\ InOrder({"onConnect"}, {"Disconnected"})
       /\ InOrder({"onConnectError"}, {"Disconnected"})
       /\ fault # "null transport"

PatientInv ==
    /\ OneLife /\ IoShape /\ Token /\ Turns /\ Order /\ Phases /\ Telling
    /\ Tidied /\ Untimed /\ Asked

LEMMA MessageSets ==
    ASSUME NEW m \in Message
    PROVE  \A T : /\ m \in Of(T) <=> m.type \in T
                  /\ m \in ToTarget(T) <=> m.type \in T /\ m.target
BY DEF Of, ToTarget

\* The queue of messages after Append and after Tail.
LEMMA MessageAppend ==
    ASSUME TypeInv, NEW m \in Message
    PROVE  /\ \A T : None(Append(m_MessageQueue, m), Of(T)) <=>
                 None(m_MessageQueue, Of(T)) /\ m.type \notin T
           /\ \A T : None(Append(m_MessageQueue, m), ToTarget(T)) <=>
                 None(m_MessageQueue, ToTarget(T)) /\ ~(m.type \in T /\ m.target)
           /\ \A A, T : NoneBehind(Append(m_MessageQueue, m), A, Of(T)) <=>
                 NoneBehind(m_MessageQueue, A, Of(T))
                    /\ (m.type \in T => None(m_MessageQueue, A))
           /\ \A A, T : NoneBehind(Append(m_MessageQueue, m), A, ToTarget(T)) <=>
                 NoneBehind(m_MessageQueue, A, ToTarget(T))
                    /\ (m.type \in T /\ m.target => None(m_MessageQueue, A))
<1>1. m_MessageQueue \in Seq(Message)
  BY DEF TypeInv, QueueType
<1> QED
  BY <1>1, QueueAppend, MessageSets

LEMMA MessageTail ==
    ASSUME TypeInv, m_MessageQueue # << >>
    PROVE  LET h == Head(m_MessageQueue) IN
           /\ \A T : None(m_MessageQueue, Of(T)) <=>
                 h.type \notin T /\ None(Tail(m_MessageQueue), Of(T))
           /\ \A T : None(m_MessageQueue, ToTarget(T)) <=>
                 ~(h.type \in T /\ h.target) /\ None(Tail(m_MessageQueue), ToTarget(T))
           /\ \A T, B : NoneBehind(m_MessageQueue, Of(T), B) <=>
                 NoneBehind(Tail(m_MessageQueue), Of(T), B)
                    /\ (h.type \in T => None(Tail(m_MessageQueue), B))
           /\ \A T, B : NoneBehind(m_MessageQueue, ToTarget(T), B) <=>
                 NoneBehind(Tail(m_MessageQueue), ToTarget(T), B)
                    /\ (h.type \in T /\ h.target => None(Tail(m_MessageQueue), B))
<1>1. m_MessageQueue \in Seq(Message)
  BY DEF TypeInv, QueueType
<1>2. Head(m_MessageQueue) \in Message
  BY PollType
<1> QED
  BY <1>1, <1>2, QueueTail, MessageSets

LEMMA InitPatient == Init => PatientInv
<1> SUFFICES ASSUME Init PROVE PatientInv
  OBVIOUS
<1>1. /\ \A A : None(m_MessageQueue, A) /\ None(handlers, A)
      /\ \A A, B : NoneBehind(m_MessageQueue, A, B) /\ NoneBehind(handlers, A, B)
  BY EmptyQueue DEF Init
<1>2. NoTransport \notin Transport
  BY DEF NoTransport, Transport
<1>3. OneLife /\ IoShape /\ Token
  BY <1>1, <1>2 DEF Init, Idle, OneLife, IoShape, Token, Reporting, Ended, NoneOf, OnlyOne
<1>4. Turns /\ Order /\ Phases /\ Telling
  BY <1>1, <1>2 DEF Init, Idle, Turns, Closing, Tidying, Order, Phases, Telling, Establishing, Reading,
     Failed, NoneOf, OnlyOne, InOrder, InCallbackOf, Up
<1>5. Tidied /\ Untimed /\ Asked
  BY <1>1 DEF Init, Tidied, Tidying, Untimed, Asked, NoneOf, InOrder, InCallbackOf
<1> QED
  BY <1>3, <1>4, <1>5 DEF PatientInv

\* The script connects.
LEMMA CallsPatient ==
    ASSUME TypeInv, PatientScript, PatientInv, Calls
    PROVE  PatientInv'
<1> USE DEF PatientInv
<1>1. CConnection_connect
  BY DEF Calls, CConnection_disconnect, Release, InCallback, PatientScript
<1>2. /\ wpc = "callback" /\ msg.type = "onHeartbeat" /\ over /\ ~over'
      /\ ~IsConnecting /\ ~IsConnected /\ Target' /\ stop # "exited"
      /\ UNCHANGED <<scenario, held, pTransport, life, flags, asio, io, reads,
                     m_Transports, wpc, msg, stop, fault>>
  BY <1>1 DEF CConnection_connect, InCallback, WorkerAt, PatientScript
<1>3. /\ NewMessage("Connect") \in Message /\ NewMessage("Connect").type = "Connect"
      /\ m_MessageQueue' = Append(m_MessageQueue, NewMessage("Connect"))
  BY <1>1, <1>2, NewMessageType, MessageTypes DEF CConnection_connect, MessagePlugin, Directive
<1>4. /\ \A T : None(m_MessageQueue', Of(T)) <=>
            None(m_MessageQueue, Of(T)) /\ "Connect" \notin T
      /\ \A T : "Connect" \notin T =>
            (None(m_MessageQueue', ToTarget(T)) <=> None(m_MessageQueue, ToTarget(T)))
      /\ \A A, T : NoneBehind(m_MessageQueue', A, Of(T)) <=>
            NoneBehind(m_MessageQueue, A, Of(T)) /\ ("Connect" \in T => None(m_MessageQueue, A))
      /\ \A A, T : "Connect" \notin T =>
            (NoneBehind(m_MessageQueue', A, ToTarget(T)) <=> NoneBehind(m_MessageQueue, A, ToTarget(T)))
  BY <1>3, MessageAppend
<1>5. OneLife' /\ IoShape'
  BY <1>2 DEF OneLife, IoShape, flags, asio
<1>6. Token'
  BY <1>2, <1>4 DEF Token, Reporting, Ended, NoneOf, OnlyOne, asio
<1>7. Turns'
  BY <1>2, <1>3, <1>4 DEF Turns, Closing, Tidying, NoneOf, OnlyOne, InOrder, InCallbackOf
<1>8. Order'
  BY <1>2, <1>4 DEF Order, NoneOf, Ended, OnlyOne, InOrder, InCallbackOf, Late, Up, flags, asio,
     IsConnecting, IsConnected
<1>9. Phases'
  BY <1>2, <1>4 DEF Phases, Establishing, Reading, Failed, NoneOf, Ended, InCallbackOf, Late, flags, asio
<1>10. Telling'
  BY <1>2, <1>4 DEF Telling, NoneOf, InOrder, InCallbackOf, Told, Data
<1>11. Tidied' /\ Untimed' /\ Asked'
  BY <1>2, <1>4 DEF Tidied, Tidying, Untimed, Asked, NoneOf, InOrder, InCallbackOf, asio
<1> QED
  BY <1>5, <1>6, <1>7, <1>8, <1>9, <1>10, <1>11

\* A message is taken from the queue, and nothing is put there.
LEMMA MessageTaken ==
    ASSUME TypeInv, NEW type, HeadIs(type), m_MessageQueue' = Tail(m_MessageQueue)
    PROVE  /\ \A T : None(m_MessageQueue, Of(T)) <=>
                 type \notin T /\ None(m_MessageQueue', Of(T))
           /\ \A T : None(m_MessageQueue, ToTarget(T)) <=>
                 /\ ~(type \in T /\ Head(m_MessageQueue).target)
                 /\ None(m_MessageQueue', ToTarget(T))
           /\ \A T, B : NoneBehind(m_MessageQueue, Of(T), B) <=>
                 NoneBehind(m_MessageQueue', Of(T), B)
                    /\ (type \in T => None(m_MessageQueue', B))
           /\ \A T, B : NoneBehind(m_MessageQueue, ToTarget(T), B) <=>
                 /\ NoneBehind(m_MessageQueue', ToTarget(T), B)
                 /\ type \in T /\ Head(m_MessageQueue).target => None(m_MessageQueue', B)
           /\ Head(m_MessageQueue) \in Message /\ Head(m_MessageQueue).type = type
           /\ fault = "none" /\ stop # "exited" /\ wpc = "poll"
BY MessageTail, PollType DEF HeadIs, WorkerAt

LEMMA RunCallbackPatient ==
    ASSUME TypeInv, PatientScript, PatientInv, RunCallback
    PROVE  PatientInv'
<1> USE DEF PatientInv
<1>1. PICK type \in Callback :
         /\ HeadIs(type)
         /\ msg' = Head(m_MessageQueue)
         /\ m_MessageQueue' = Tail(m_MessageQueue)
         /\ wpc' = IF msg'.target \/ type = "onHeartbeat" THEN "callback" ELSE "done"
         /\ over' = (over \/ (type \in {"onDisconnect", "onConnectError"}
                                /\ msg'.target))
         /\ UNCHANGED <<connection, life, flags, asio, io, reads, m_Transports,
                        calls, stop, fault>>
  BY DEF RunCallback
<1>2. /\ type \notin {"Connect", "Disconnect", "Read", "Disconnected"}
      /\ msg'.type = type /\ wpc' # "connecting" /\ wpc = "poll" /\ stop # "exited"
      /\ UNCHANGED <<scenario, held, Target, pTransport, life, flags, asio, io,
                     m_Transports, stop, fault>>
  BY <1>1, MessageTaken DEF Callback, connection
<1>3. /\ \A T : None(m_MessageQueue, Of(T)) <=>
            type \notin T /\ None(m_MessageQueue', Of(T))
      /\ \A T : None(m_MessageQueue, ToTarget(T)) <=>
            ~(type \in T /\ msg'.target) /\ None(m_MessageQueue', ToTarget(T))
      /\ \A T, B : NoneBehind(m_MessageQueue, Of(T), B) <=>
            NoneBehind(m_MessageQueue', Of(T), B)
               /\ (type \in T => None(m_MessageQueue', B))
      /\ \A T, B : NoneBehind(m_MessageQueue, ToTarget(T), B) <=>
            NoneBehind(m_MessageQueue', ToTarget(T), B)
               /\ (type \in T /\ msg'.target => None(m_MessageQueue', B))
  BY <1>1, MessageTaken
<1>4. type # "onStop"
  BY <1>3 DEF Turns, Closing, Tidying, NoneOf
<1>5. OneLife' /\ IoShape'
  BY <1>2 DEF OneLife, IoShape, flags, asio
<1>6. Token'
  BY <1>2, <1>3 DEF Token, Reporting, Ended, NoneOf, OnlyOne, asio
<1>7. Turns'
  BY <1>1, <1>2, <1>3, <1>4 DEF Turns, Closing, Tidying, NoneOf, OnlyOne, InOrder, InCallbackOf
<1>8. Late => Late'
  BY <1>1, <1>2, <1>3 DEF Late, NoneOf, InCallbackOf
<1>9. Order'
  BY <1>2, <1>3, <1>8 DEF Order, NoneOf, Ended, InOrder, Up, flags, asio
<1>10. Phases'
  BY <1>2, <1>3, <1>8 DEF Phases, Establishing, Reading, Failed, NoneOf, Ended,
     InCallbackOf, flags, asio
<1>11. Telling'
  BY <1>1, <1>2, <1>3 DEF Telling, NoneOf, InOrder, InCallbackOf, Told, Data
<1>12. Tidied' /\ Untimed' /\ Asked'
  BY <1>1, <1>2, <1>3 DEF Tidied, Tidying, Untimed, Asked, NoneOf, InOrder, InCallbackOf, OnConnect, asio
<1> QED
  BY <1>5, <1>6, <1>7, <1>9, <1>10, <1>11, <1>12

\* onStop is called, or the plugin is told to stop.
LEMMA StopPatient ==
    ASSUME TypeInv, PatientScript, PatientInv, RunOnStop \/ StopHardware \/ RequestStop
    PROVE  PatientInv'
<1> USE DEF PatientInv
<1>1. /\ UNCHANGED <<scenario, held, Target, pTransport, life, flags, asio, io,
                     m_Transports, m_MessageQueue, over, crossed, fault>>
      /\ wpc # "connecting" \/ UNCHANGED wpc
      /\ wpc' # "connecting" \/ UNCHANGED wpc
  BY DEF RunOnStop, StopHardware, RequestStop, connection, worker, WorkerAt
<1>2. \/ /\ RunOnStop /\ wpc = "poll" /\ wpc' = "callback" /\ msg'.type = "onStop"
         /\ stop = "queued" /\ UNCHANGED stop
      \/ /\ StopHardware /\ stop = "no" /\ stop' = "queued" /\ scenario.stops
         /\ UNCHANGED <<wpc, msg>>
      \/ /\ RequestStop /\ stop = "handled" /\ stop' = "exited" /\ wpc = "poll"
         /\ m_MessageQueue = << >> /\ UNCHANGED <<wpc, msg>>
  BY DEF RunOnStop, StopHardware, RequestStop, worker, WorkerAt
<1>3. \A A : m_MessageQueue = << >> => None(m_MessageQueue, A)
  BY EmptyQueue
<1>4. OneLife' /\ IoShape'
  BY <1>1 DEF OneLife, IoShape, flags, asio
<1>5. Token'
  BY <1>1, <1>2 DEF Token, Reporting, Ended, NoneOf, OnlyOne, asio
<1>6. Turns'
  BY <1>1, <1>2, <1>3 DEF Turns, Closing, Tidying, NoneOf, OnlyOne, InOrder, InCallbackOf
<1>7. Late => Late'
  BY <1>1, <1>2 DEF Late, NoneOf, InCallbackOf
<1>8. stop' = "exited" => Late'
  BY <1>1, <1>2, <1>3 DEF Late, NoneOf, InCallbackOf
<1>9. Order'
  BY <1>1, <1>2, <1>7 DEF Order, NoneOf, Ended, InOrder, Up, flags, asio
<1>10. Phases'
  BY <1>1, <1>2, <1>7 DEF Phases, Establishing, Reading, Failed, NoneOf, Ended,
     InCallbackOf, flags, asio
<1>11. Telling'
  BY <1>1, <1>2 DEF Telling, NoneOf, InOrder, InCallbackOf
<1>12. Tidied' /\ Untimed' /\ Asked'
  BY <1>1, <1>2 DEF Tidied, Tidying, Ended, flags, Untimed, Asked, NoneOf, InOrder, InCallbackOf, OnConnect, asio
<1> QED
  BY <1>4, <1>5, <1>6, <1>9, <1>10, <1>11, <1>12

\* Only how the process died has changed.
LEMMA DiesPatient ==
    ASSUME PatientInv, NEW how, Dies(how),
           how = "freed transport" => scenario.timeout,
           how = "null transport" => ~(scenario.stops => scenario.failures = {})
    PROVE  PatientInv'
<1> USE DEF PatientInv, Dies, connection, flags, asio, worker
<1>1. OneLife' /\ IoShape'
  BY DEF OneLife, IoShape
<1>4. Token'
  BY DEF Token, Reporting, Ended, NoneOf, OnlyOne
<1>5. Turns'
  BY DEF Turns, Closing, Tidying, NoneOf, OnlyOne, InOrder, InCallbackOf
<1>2. Order' /\ Phases' /\ Telling'
  BY DEF Order, Phases, Telling, Establishing, Reading, Failed, NoneOf, Ended, InOrder,
     InCallbackOf, Late, Up
<1>3. Tidied' /\ Untimed' /\ Asked'
  BY DEF Tidied, Ended, Untimed, Asked, NoneOf, InOrder, InCallbackOf
<1> QED
  BY <1>1, <1>2, <1>3, <1>4, <1>5

LEMMA ReturnPatient ==
    ASSUME TypeInv, PatientScript, PatientInv, Return
    PROVE  PatientInv'
<1> USE DEF PatientInv
<1>1. CASE msg.type \in OnConnect /\ pTransport = NoTransport
  <2>1. ~(scenario.stops => scenario.failures = {})
    BY <1>1 DEF Return, WorkerAt, Asked, InCallbackOf
  <2> QED
    BY <1>1, <2>1, DiesPatient DEF Return
<1>2. CASE msg.type \in OnConnect => pTransport # NoTransport
  <2>1. /\ UNCHANGED <<scenario, held, pTransport, life, flags, asio, io,
                       m_Transports, msg, over, crossed, fault>>
        /\ wpc = "callback" /\ wpc' = "done"
        /\ stop' = IF msg.type = "onStop" THEN "handled" ELSE stop
        /\ Target' = /\ Target
                     /\ msg.type \in OnConnect => IsConnected
                     /\ msg.type # "onDisconnect"
        /\ fault = "none" /\ stop # "exited"
    BY <1>2 DEF Return, Dies, WorkerAt
  <2>2. /\ msg.type = "onStop" <=> InCallbackOf({"onStop"})
        /\ InCallbackOf({"onStop"}) => stop = "queued"
    BY <2>1 DEF InCallbackOf, Turns
  <2>3. \/ /\ m_MessageQueue' = Append(m_MessageQueue, NewMessage("Disconnect"))
           /\ stop = "queued" /\ stop' = "handled"
        \/ m_MessageQueue' = m_MessageQueue
    <3>1. m_MessageQueue \in Seq(Message)
      BY DEF TypeInv, QueueType
    <3>2. m_MessageQueue' = m_MessageQueue
                \o (IF msg.type = "onStop" THEN ForcedDisconnects ELSE << >>)
      BY <1>2 DEF Return, Dies, WorkerAt
    <3>3. ForcedDisconnects \in {<< >>, <<NewMessage("Disconnect")>>}
      BY DEF ForcedDisconnects
    <3> DEFINE d == NewMessage("Disconnect")
    <3>4. d \in Message
      BY NewMessageType, MessageTypes DEF Directive
    <3> HIDE DEF d
    <3>5. m_MessageQueue \o << >> = m_MessageQueue
          /\ m_MessageQueue \o <<d>> = Append(m_MessageQueue, d)
      BY <3>1, <3>4, ConcatEmptySeq, AppendIsConcat
    <3>6. \/ m_MessageQueue' = m_MessageQueue
          \/ msg.type = "onStop" /\ m_MessageQueue' = Append(m_MessageQueue, d)
      <4>1. CASE msg.type = "onStop"
        <5>1. m_MessageQueue' = m_MessageQueue \o ForcedDisconnects
          BY <3>2, <4>1
        <5>2. ForcedDisconnects = << >> \/ ForcedDisconnects = <<d>>
          BY <3>3 DEF d
        <5> QED
          BY <3>5, <4>1, <5>1, <5>2
      <4>2. CASE msg.type # "onStop"
        BY <3>2, <3>5, <4>2
      <4> QED
        BY <4>1, <4>2
    <3> QED
      BY <2>1, <2>2, <3>6 DEF d
  <2>4. NewMessage("Disconnect") \in Message /\ NewMessage("Disconnect").type = "Disconnect"
    BY NewMessageType, MessageTypes DEF Directive
  <2> DEFINE type == NewMessage("Disconnect").type
  <2> HIDE DEF type
  <2>5. /\ \A T : None(m_MessageQueue', Of(T)) =>  None(m_MessageQueue, Of(T))
        /\ \A T : None(m_MessageQueue, Of(T)) =>
              \/ None(m_MessageQueue', Of(T))
              \/ type \in T /\ stop = "queued" /\ stop' = "handled"
        /\ \A T : type \notin T =>
              (None(m_MessageQueue', ToTarget(T)) <=> None(m_MessageQueue, ToTarget(T)))
        /\ \A A, T : NoneBehind(m_MessageQueue, A, Of(T)) =>
              \/ NoneBehind(m_MessageQueue', A, Of(T))
              \/ /\ type \in T /\ stop = "queued" /\ stop' = "handled"
                 /\ ~None(m_MessageQueue, A)
        /\ \A A, T : type \notin T =>
              (NoneBehind(m_MessageQueue', A, ToTarget(T)) <=> NoneBehind(m_MessageQueue, A, ToTarget(T)))
    <3> HIDE DEF PatientInv
    <3>1. CASE m_MessageQueue' = m_MessageQueue
      BY <3>1
    <3>2. CASE /\ m_MessageQueue' = Append(m_MessageQueue, NewMessage("Disconnect"))
               /\ stop = "queued" /\ stop' = "handled"
      BY <2>4, <3>2, MessageAppend DEF type
    <3> QED
      BY <2>3, <3>1, <3>2
  <2> USE <2>4 DEF type
  <2>6. OneLife' /\ IoShape'
    BY <2>1 DEF OneLife, IoShape, flags, asio
  <2>7. Token'
    BY <2>1, <2>5 DEF Token, Reporting, Ended, NoneOf, OnlyOne, asio
  <2>8. Turns'
    BY <2>1, <2>2, <2>5 DEF Turns, Closing, Tidying, NoneOf, OnlyOne, InOrder, InCallbackOf
  <2>9. Late => Late'
    BY <2>1, <2>2, <2>5 DEF Late, NoneOf, InCallbackOf
  <2>10. Order'
    BY <2>1, <2>5, <2>9 DEF Order, NoneOf, Ended, InOrder, Up, flags, asio
  <2>11. Phases'
    BY <2>1, <2>5, <2>9 DEF Phases, Establishing, Reading, Failed, NoneOf, Ended,
       InCallbackOf, flags, asio
  <2>12. Telling'
    <3>1. ~(over' /\ Target')
      BY <2>1 DEF Telling, Phases, Failed, InCallbackOf, IsConnected, OnConnect
    <3> QED
      BY <2>1, <2>5, <3>1 DEF Telling, NoneOf, InOrder, InCallbackOf, Told, Data
  <2>13. Tidied' /\ Untimed' /\ Asked'
    BY <2>1, <2>5 DEF Tidied, Tidying, Untimed, Asked, NoneOf, InOrder, InCallbackOf, asio
  <2> QED
    BY <2>6, <2>7, <2>8, <2>10, <2>11, <2>12, <2>13
<1> QED
  BY <1>1, <1>2

\* A transport and a script that holds the connection are two references.
LEMMA TwoReferences ==
    ASSUME TypeInv, held, NEW t \in Transport, life[t] = "alive"
    PROVE  ~(ob_refcnt <= 1)
<1> DEFINE A == {u \in Transport : life[u] = "alive"}
           Q == {i \in DOMAIN m_MessageQueue : Refers(m_MessageQueue[i])}
           r == IF Refers(io.message) THEN 1 ELSE 0
<1>1. IsFiniteSet(Transport)
  BY ConstantsAssumption, FS_Interval DEF Transport
<1>2. IsFiniteSet(A) /\ A # {}
  BY <1>1, FS_Subset
<1>3. Cardinality(A) \in Nat /\ Cardinality(A) # 0
  BY <1>2, FS_CardinalityType, FS_EmptySet
<1>4. Cardinality(Q) \in Nat
  <2>1. IsFiniteSet(1..Len(m_MessageQueue)) /\ DOMAIN m_MessageQueue = 1..Len(m_MessageQueue)
    BY FS_Interval DEF TypeInv, QueueType
  <2>2. IsFiniteSet(Q)
    BY <2>1, FS_Subset
  <2> QED
    BY <2>2, FS_CardinalityType
<1>5. r \in {0, 1}
  OBVIOUS
<1>6. ob_refcnt = 1 + Cardinality(A) + Cardinality(Q) + r
  BY DEF ob_refcnt
<1> HIDE DEF A, Q, r
<1> QED
  BY <1>3, <1>4, <1>5, <1>6

LEMMA HousekeepingPatient ==
    ASSUME TypeInv, PatientScript, PatientInv, Housekeeping
    PROVE  PatientInv'
<1> USE DEF PatientInv
<1> DEFINE beat == [type |-> "onHeartbeat", target |-> FALSE]
<1>1. /\ UNCHANGED <<scenario, held, Target, pTransport, life, m_bConnecting,
                     m_bConnected, m_Socket, pending, m_Timer, handlers, io,
                     m_Transports, over, stop, fault>>
      /\ wpc \notin {"callback", "connecting"} /\ wpc' = "poll"
  BY DEF Housekeeping, WorkerAt, connection, asio
<1>2. stop = "exited" => UNCHANGED m_MessageQueue
  BY DEF Housekeeping
<1>3. Unreferenced = {}
  <2>1. ASSUME NEW t \in m_Transports PROVE ~(ob_refcnt <= 1)
    <3>1. t \in Transport /\ life[t] = "alive" /\ held
      BY DEF OneLife, TypeInv, QueueType
    <3> QED
      BY <3>1, TwoReferences
  <2> QED
    BY <2>1 DEF Unreferenced
<1>4. beat \in Message /\ beat.type = "onHeartbeat" /\ ~beat.target
  BY MessageTypes DEF Message, Callback
<1>5. \/ UNCHANGED m_MessageQueue
      \/ /\ m_MessageQueue' = Append(m_MessageQueue, beat)
         /\ NoneOf({"onHeartbeat"}) /\ stop = "no"
  <2>1. m_MessageQueue \in Seq(Message)
    BY DEF TypeInv, QueueType
  <2>2. Queued("onHeartbeat") = {} => NoneOf({"onHeartbeat"})
    BY DEF Queued, NoneOf, None, Of
  <2>3. ASSUME stop = "no",
               NEW b \in {<< >>, <<beat>>},
               b # << >> => Queued("onHeartbeat") = {},
               m_MessageQueue' = m_MessageQueue \o b \o << >>
        PROVE  \/ UNCHANGED m_MessageQueue
               \/ /\ m_MessageQueue' = Append(m_MessageQueue, beat)
                  /\ NoneOf({"onHeartbeat"}) /\ stop = "no"
    <3>1. CASE b = << >>
      BY <2>1, <2>3, <3>1, ConcatEmptySeq
    <3>2. CASE b = <<beat>>
      <4> HIDE DEF beat
      <4>1. m_MessageQueue \o <<beat>> = Append(m_MessageQueue, beat)
            /\ Append(m_MessageQueue, beat) \in Seq(Message)
            /\ <<beat>> # << >>
        BY <1>4, <2>1, AppendIsConcat
      <4>2. Append(m_MessageQueue, beat) \o << >> = Append(m_MessageQueue, beat)
        BY <4>1, ConcatEmptySeq
      <4> QED
        BY <2>2, <2>3, <3>2, <4>1, <4>2
    <3> QED
      BY <2>3, <3>1, <3>2
  <2> QED
    BY <1>3, <2>3 DEF Housekeeping
<1> HIDE DEF beat
<1> DEFINE type == beat.type
<1> HIDE DEF type
<1>6. /\ \A T : None(m_MessageQueue', Of(T)) => None(m_MessageQueue, Of(T))
      /\ \A T : None(m_MessageQueue, Of(T)) =>
            \/ None(m_MessageQueue', Of(T))
            \/ type \in T /\ stop = "no"
      /\ \A T : None(m_MessageQueue', ToTarget(T)) <=> None(m_MessageQueue, ToTarget(T))
      /\ \A A, T : NoneBehind(m_MessageQueue, A, Of(T)) =>
            \/ NoneBehind(m_MessageQueue', A, Of(T))
            \/ /\ type \in T /\ stop = "no" /\ NoneOf({"onHeartbeat"})
               /\ ~None(m_MessageQueue, A)
      /\ \A A, T : NoneBehind(m_MessageQueue', A, ToTarget(T)) <=>
                   NoneBehind(m_MessageQueue, A, ToTarget(T))
  <2> HIDE DEF PatientInv
  <2>1. CASE UNCHANGED m_MessageQueue
    BY <2>1
  <2>2. CASE /\ m_MessageQueue' = Append(m_MessageQueue, beat)
             /\ NoneOf({"onHeartbeat"}) /\ stop = "no"
    BY <1>4, <2>2, MessageAppend DEF type
  <2> QED
    BY <1>5, <2>1, <2>2
<1> USE <1>4 DEF type
<1>7. OneLife' /\ IoShape'
  BY <1>1 DEF OneLife, IoShape
<1>8. Token'
  BY <1>1, <1>6 DEF Token, Reporting, Ended, NoneOf, OnlyOne
<1>9. Turns'
  BY <1>1, <1>2, <1>6 DEF Turns, Closing, Tidying, NoneOf, OnlyOne, InOrder, InCallbackOf
<1>10. Late => Late'
  BY <1>1, <1>6 DEF Late, NoneOf, InCallbackOf
<1>11. Order'
  BY <1>1, <1>6, <1>10 DEF Order, NoneOf, Ended, InOrder, Up
<1>12. Phases'
  BY <1>1, <1>6, <1>10 DEF Phases, Establishing, Reading, Failed, NoneOf, Ended, InCallbackOf
<1>13. Telling'
  BY <1>1, <1>6 DEF Telling, NoneOf, InOrder, InCallbackOf, Told, Data
<1>14. Tidied' /\ Untimed' /\ Asked'
  BY <1>1, <1>6 DEF Tidied, Tidying, Untimed, Asked, NoneOf, InOrder, InCallbackOf
<1> QED
  BY <1>7, <1>8, <1>9, <1>11, <1>12, <1>13, <1>14

\* A message is taken from the queue, and another is put there.
LEMMA MessageReplaced ==
    ASSUME TypeInv, NEW type, HeadIs(type), NEW m \in Message,
           m_MessageQueue' = MessagePlugin(Tail(m_MessageQueue), m)
    PROVE  LET r == Tail(m_MessageQueue) IN
           /\ \A T : None(m_MessageQueue, Of(T)) <=> type \notin T /\ None(r, Of(T))
           /\ \A T : None(m_MessageQueue, ToTarget(T)) =>
                 None(r, ToTarget(T))
           /\ \A T, B : NoneBehind(m_MessageQueue, Of(T), B) <=>
                 NoneBehind(r, Of(T), B) /\ (type \in T => None(r, B))
           /\ \A T, B : NoneBehind(m_MessageQueue, ToTarget(T), B) =>
                 NoneBehind(r, ToTarget(T), B)
           /\ \A T : None(m_MessageQueue', Of(T)) <=> None(r, Of(T)) /\ m.type \notin T
           /\ \A T : None(m_MessageQueue', ToTarget(T)) <=>
                 None(r, ToTarget(T)) /\ ~(m.type \in T /\ m.target)
           /\ \A A, T : NoneBehind(m_MessageQueue', A, Of(T)) <=>
                 NoneBehind(r, A, Of(T)) /\ (m.type \in T => None(r, A))
           /\ \A A, T : NoneBehind(m_MessageQueue', A, ToTarget(T)) <=>
                 /\ NoneBehind(r, A, ToTarget(T))
                 /\ m.type \in T /\ m.target => None(r, A)
<1> DEFINE r == Tail(m_MessageQueue)
<1>1. /\ m_MessageQueue # << >> /\ r \in Seq(Message) /\ m_MessageQueue' = Append(r, m)
      /\ Head(m_MessageQueue).type = type
  BY PollType DEF HeadIs, WorkerAt, MessagePlugin
<1>2. /\ \A T : None(m_MessageQueue, Of(T)) <=> type \notin T /\ None(r, Of(T))
      /\ \A T : None(m_MessageQueue, ToTarget(T)) => None(r, ToTarget(T))
      /\ \A T, B : NoneBehind(m_MessageQueue, Of(T), B) <=>
            NoneBehind(r, Of(T), B) /\ (type \in T => None(r, B))
      /\ \A T, B : NoneBehind(m_MessageQueue, ToTarget(T), B) =>
            NoneBehind(r, ToTarget(T), B)
  BY <1>1, MessageTail
<1> HIDE DEF r
<1>3. /\ \A A : None(m_MessageQueue', A) <=> None(r, A) /\ m \notin A
      /\ \A A, B : NoneBehind(m_MessageQueue', A, B) <=>
            NoneBehind(r, A, B) /\ (m \in B => None(r, A))
  <2>1. r \in Seq(Message)
    BY <1>1
  <2>2. /\ \A A : None(Append(r, m), A) <=> None(r, A) /\ m \notin A
        /\ \A A, B : NoneBehind(Append(r, m), A, B) <=>
              NoneBehind(r, A, B) /\ (m \in B => None(r, A))
    BY <2>1, QueueAppend
  <2>3. m_MessageQueue' = Append(r, m)
    BY <1>1
  <2> QED
    BY <2>2, <2>3
<1>4. \A T : /\ m \in Of(T) <=> m.type \in T
             /\ m \in ToTarget(T) <=> m.type \in T /\ m.target
  BY MessageSets
<1> QED
  BY <1>2, <1>3, <1>4 DEF r

\* What PatientInv says of handlers and transports when there is no transport,
\* or when its end is queued.
LEMMA NothingUnderWay ==
    ASSUME TypeInv, PatientInv, pTransport = NoTransport \/ Ended
    PROVE  /\ \A t \in Transport : pending[t] = "none"
           /\ None(handlers, Does(IoOps)) /\ ~Reporting
<1>1. NoTransport \notin Transport
  BY DEF NoTransport, Transport
<1>2. CASE pTransport = NoTransport
  <2>1. \A t \in Transport : pending[t] = "none"
    BY <1>1, <1>2 DEF PatientInv, Token
  <2>2. handlers \in Seq(Handler)
    BY DEF TypeInv, AsioType
  <2>3. ASSUME NEW i \in DOMAIN handlers PROVE handlers[i] \notin Does(IoOps)
    <3>1. handlers[i] \in Handler
      BY <2>2
    <3>2. handlers[i].t \in Transport
      BY <3>1 DEF Handler
    <3> QED
      BY <1>1, <1>2, <3>1, <3>2 DEF PatientInv, Token, None, Does
  <2>4. ~Reporting
    BY <1>1, <1>2 DEF PatientInv, Token, Reporting, TypeInv, IoType
  <2> QED
    BY <2>1, <2>3, <2>4 DEF None
<1>3. CASE Ended
  BY <1>3 DEF PatientInv, Token
<1> QED
  BY <1>2, <1>3

LEMMA NoneTransport == NoTransport \notin Transport
BY DEF NoTransport, Transport

LEMMA ConnectPatient ==
    ASSUME TypeInv, PatientScript, PatientInv, ConnectionConnect
    PROVE  PatientInv'
<1> USE DEF PatientInv
<1>1. /\ HeadIs("Connect") /\ wpc = "poll"
      /\ UNCHANGED <<scenario, held, Target, flags, m_Socket, m_Timer, handlers, io,
                     reads, calls, stop, over, crossed, fault>>
  BY DEF ConnectionConnect, HeadIs, WorkerAt
<1>2. m_MessageQueue # << >> /\ Head(m_MessageQueue).type = "Connect"
  BY <1>1 DEF HeadIs
<1>3. ~NoneOf({"Connect"}) /\ ~Ended /\ pTransport = NoTransport
  BY <1>2, MessageTail DEF Order, InOrder, NoneOf, Ended
<1>4. PICK t \in Unborn :
         /\ pTransport' = t
         /\ life' = [life EXCEPT ![t] = "alive"]
         /\ wpc' = "connecting"
         /\ pending' = [pending EXCEPT ![t] = "resolve"]
         /\ m_Transports' = m_Transports \union {t}
         /\ m_MessageQueue' = Tail(m_MessageQueue)
  BY <1>3 DEF ConnectionConnect, IsConnected, PatientScript
<1>5. t \in Transport /\ life[t] = "unborn" /\ t # NoTransport
  BY TypeParts, ScenarioFields DEF Unborn, Transport, NoTransport
<1>6. /\ \A u \in Transport : pending[u] = "none"
      /\ None(handlers, Does(IoOps)) /\ ~Reporting
  BY <1>3, NothingUnderWay
<1>7. /\ \A T : None(m_MessageQueue, Of(T)) <=>
            "Connect" \notin T /\ None(m_MessageQueue', Of(T))
      /\ \A T : None(m_MessageQueue, ToTarget(T)) => None(m_MessageQueue', ToTarget(T))
      /\ \A T, B : NoneBehind(m_MessageQueue, Of(T), B) <=>
            NoneBehind(m_MessageQueue', Of(T), B)
               /\ ("Connect" \in T => None(m_MessageQueue', B))
      /\ \A T, B : NoneBehind(m_MessageQueue, ToTarget(T), B) =>
            NoneBehind(m_MessageQueue', ToTarget(T), B)
  BY <1>1, <1>4, MessageTaken
<1>8. OneLife'
  <2>1. None(handlers, {h \in Handler : life'[h.t] = "unborn"})
    <3>1. \A h \in Handler : life'[h.t] = "unborn" => life[h.t] = "unborn"
      BY <1>4, <1>5 DEF TypeInv, FlagsType, Handler
    <3> QED
      BY <3>1 DEF OneLife, None
  <2>2. io.pc # "idle" => life'[io.t] # "unborn"
    BY <1>4, <1>5 DEF OneLife, TypeInv, FlagsType, IoType
  <2>3. \A u \in Transport : life'[u] = "alive" <=> u = pTransport'
    <3>1. \A u \in Transport : life[u] # "alive"
      BY <1>3, NoneTransport DEF OneLife
    <3> QED
      BY <1>4, <1>5, <3>1 DEF TypeInv, FlagsType
  <2>4. m_Transports' = {pTransport'} \ {NoTransport}
    BY <1>3, <1>4, <1>5 DEF OneLife
  <2>5. \A u \in Transport : life'[u] = "unborn" =>
           ~m_bConnecting'[u] /\ ~m_bConnected'[u] /\ ~m_Timer'[u]
    BY <1>1, <1>4, <1>5 DEF OneLife, flags, TypeInv, FlagsType
  <2> QED
    BY <1>1, <1>4, <1>5, <2>1, <2>2, <2>3, <2>4, <2>5 DEF OneLife
<1>9. IoShape'
  BY <1>1 DEF IoShape
<1>10. Token'
  <2>1. None(handlers, {h \in Handler : h.op \in IoOps /\ h.t # t})
    BY <1>6 DEF None, Does
  <2>2. \A u \in Transport : pending'[u] # "none" => u = t
    BY <1>4, <1>5, <1>6 DEF TypeInv, AsioType
  <2>3. io.pc \in {"notConnecting", "readFailed"} => io.t # t
    BY <1>5 DEF OneLife
  <2>4. ~Reporting' /\ ~Ended'
    BY <1>1, <1>3, <1>6, <1>7 DEF Reporting, Ended, NoneOf
  <2>5. io.pc # "connectEnds"
    BY <1>3, NoneTransport DEF Token, TypeInv, IoType
  <2> QED
    BY <1>1, <1>4, <1>5, <1>6, <1>7, <2>1, <2>2, <2>3, <2>4, <2>5 DEF Token, OnlyOne
<1>11. Turns'
  BY <1>1, <1>4, <1>7 DEF Turns, Closing, Tidying, NoneOf, OnlyOne, InOrder, InCallbackOf, HeadIs, WorkerAt
<1>12. Late => Late'
  BY <1>1, <1>4, <1>7 DEF Late, NoneOf, InCallbackOf
<1>13. Order'
  BY <1>1, <1>3, <1>4, <1>7, <1>12 DEF Order, Turns, OnlyOne, NoneOf, Ended, InOrder, Up
<1>14. Phases'
  <2>1. ~Reading
    BY <1>3 DEF Phases
  <2>2. ~Reading' /\ ~Failed' /\ ~m_bConnected'[t]
    BY <1>1, <1>3, <1>4, <1>5, <1>7, <2>1
       DEF Reading, Failed, NoneOf, InCallbackOf, OneLife, flags, TypeInv, AsioType,
           Order, InOrder
  <2> QED
    BY <1>4, <2>2 DEF Phases
<1>15. Telling'
  BY <1>1, <1>4, <1>7 DEF Telling, NoneOf, InOrder, InCallbackOf, Told, Data
<1>16. Tidied' /\ Untimed' /\ Asked'
  BY <1>1, <1>4, <1>5, <1>7 DEF Tidied, Tidying, Untimed, Asked, NoneOf, InOrder, InCallbackOf
<1> QED
  BY <1>8, <1>9, <1>10, <1>11, <1>13, <1>14, <1>15, <1>16

LEMMA ConnectingPatient ==
    ASSUME TypeInv, PatientScript, PatientInv, SetConnecting
    PROVE  PatientInv'
<1> USE DEF PatientInv
<1>1. /\ wpc = "connecting" /\ wpc' = "done"
      /\ m_bConnecting' = [m_bConnecting EXCEPT ![pTransport] = TRUE]
      /\ UNCHANGED <<scenario, held, Target, pTransport, life, m_bConnected, m_Socket,
                     pending, m_Timer, handlers, io, m_Transports, m_MessageQueue,
                     msg, stop, over, crossed, fault>>
  BY DEF SetConnecting, WorkerAt, connection, asio
<1>2. pTransport \in Transport /\ life[pTransport] = "alive"
  BY <1>1 DEF OneLife, TypeInv, ConnectionType
<1>3. /\ m_bConnecting'[pTransport]
      /\ \A t \in Transport : t # pTransport => m_bConnecting'[t] = m_bConnecting[t]
  BY <1>1, <1>2 DEF TypeInv, FlagsType
<1>4. OneLife' /\ IoShape'
  BY <1>1, <1>2, <1>3 DEF OneLife, IoShape
<1>5. Token'
  BY <1>1 DEF Token, Reporting, Ended, NoneOf, OnlyOne
<1>6. Turns'
  BY <1>1 DEF Turns, Closing, Tidying, NoneOf, OnlyOne, InOrder, InCallbackOf
<1>7. Late' = Late
  BY <1>1 DEF Late, NoneOf, InCallbackOf
<1>8. Order'
  BY <1>1, <1>3, <1>7 DEF Order, NoneOf, Ended, InOrder, Up
<1>9. Phases'
  BY <1>1, <1>7 DEF Phases, Establishing, Reading, Failed, NoneOf, Ended, InCallbackOf
<1>10. Telling' /\ Tidied' /\ Untimed' /\ Asked'
  BY <1>1 DEF Tidied, Tidying, Telling, Untimed, Asked, NoneOf, InOrder, InCallbackOf
<1> QED
  BY <1>4, <1>5, <1>6, <1>8, <1>9, <1>10

LEMMA ReadPatient ==
    ASSUME TypeInv, PatientScript, PatientInv, ConnectionRead
    PROVE  PatientInv'
<1> USE DEF PatientInv
<1>1. CASE Dies("null Target")
  BY <1>1, DiesPatient
<1>2. CASE ~Dies("null Target")
  <2>1. /\ HeadIs("Read") /\ Target /\ wpc = "poll" /\ wpc' = "done"
        /\ m_MessageQueue' = MessagePlugin(Tail(m_MessageQueue), NewMessage("onMessage"))
        /\ UNCHANGED <<scenario, held, Target, pTransport, life, flags, asio, io,
                       m_Transports, stop, over, crossed, fault>>
    BY <1>2 DEF ConnectionRead, connection, HeadIs, WorkerAt
  <2> DEFINE m == NewMessage("onMessage")
             r == Tail(m_MessageQueue)
  <2>2. m \in Message /\ m.type = "onMessage"
    BY NewMessageType, MessageTypes DEF Callback
  <2> HIDE DEF m, r
  <2>3. /\ \A T : None(m_MessageQueue, Of(T)) <=> "Read" \notin T /\ None(r, Of(T))
        /\ \A T : None(m_MessageQueue, ToTarget(T)) => None(r, ToTarget(T))
        /\ \A T, B : NoneBehind(m_MessageQueue, Of(T), B) <=>
              NoneBehind(r, Of(T), B) /\ ("Read" \in T => None(r, B))
        /\ \A T, B : NoneBehind(m_MessageQueue, ToTarget(T), B) =>
              NoneBehind(r, ToTarget(T), B)
        /\ \A T : None(m_MessageQueue', Of(T)) <=> None(r, Of(T)) /\ "onMessage" \notin T
        /\ \A T : "onMessage" \notin T =>
              (None(m_MessageQueue', ToTarget(T)) <=> None(r, ToTarget(T)))
        /\ \A A, T : NoneBehind(m_MessageQueue', A, Of(T)) <=>
              NoneBehind(r, A, Of(T)) /\ ("onMessage" \in T => None(r, A))
        /\ \A A, T : NoneBehind(r, A, ToTarget(T)) /\ ("onMessage" \in T => None(r, A)) =>
              NoneBehind(m_MessageQueue', A, ToTarget(T))
    BY <2>1, <2>2, MessageReplaced DEF m, r
  <2>4. OneLife' /\ IoShape'
    BY <2>1 DEF OneLife, IoShape, flags, asio
  <2>5. Token'
    BY <2>1, <2>3 DEF Token, Reporting, Ended, NoneOf, OnlyOne, asio
  <2>6. Turns'
    BY <2>1, <2>3 DEF Turns, Closing, Tidying, NoneOf, OnlyOne, InOrder, InCallbackOf, HeadIs, WorkerAt
  <2>7. Late => Late'
    BY <2>1, <2>3 DEF Late, NoneOf, InCallbackOf
  <2>8. Order'
    BY <2>1, <2>3, <2>7 DEF Order, NoneOf, Ended, InOrder, Up, flags, asio
  <2>9. Phases'
    BY <2>1, <2>3, <2>7 DEF Phases, Establishing, Reading, Failed, NoneOf, Ended,
       InCallbackOf, flags, asio
  <2>10. Telling'
    <3>1. ~over
      BY <2>1 DEF Telling, InCallbackOf
    <3> QED
      BY <2>1, <2>3, <3>1 DEF Telling, NoneOf, InOrder, InCallbackOf, Told, Data
  <2>11. Tidied' /\ Untimed' /\ Asked'
    BY <2>1, <2>3 DEF Tidied, Tidying, Untimed, Asked, NoneOf, InOrder, InCallbackOf, asio
  <2> QED
    BY <2>4, <2>5, <2>6, <2>8, <2>9, <2>10, <2>11
<1> QED
  BY <1>1, <1>2

\* What is in the queue of handlers once a wait has been cancelled.
LEMMA TimerQueued ==
    ASSUME TypeInv, NEW t \in Transport, NEW s \in Seq(Handler)
    PROVE  LET r == s \o TimerAborted(t) IN
           /\ r \in Seq(Handler)
           /\ \A A : None(r, A) <=>
                 None(s, A) /\ (m_Timer[t] => Aborted(t, "timer") \notin A)
           /\ \A A, B : NoneBehind(r, A, B) <=>
                 /\ NoneBehind(s, A, B)
                 /\ m_Timer[t] /\ Aborted(t, "timer") \in B => None(s, A)
<1>1. m_Timer[t] \in BOOLEAN /\ Aborted(t, "timer") \in Handler
  BY AbortedType DEF TypeInv, AsioType, Operation
<1> DEFINE r == s \o TimerAborted(t)
<1>2. r = s \o (IF m_Timer[t] THEN <<Aborted(t, "timer")>> ELSE << >>)
  BY DEF TimerAborted
<1> DEFINE a == Aborted(t, "timer")
           c == m_Timer[t]
<1>3. c \in BOOLEAN /\ a \in Handler /\ r = s \o (IF c THEN <<a>> ELSE << >>)
  BY <1>1, <1>2
<1> HIDE DEF r, a, c
<1>4. /\ r \in Seq(Handler)
      /\ \A A : None(r, A) <=> None(s, A) /\ (c => a \notin A)
      /\ \A A, B : NoneBehind(r, A, B) <=>
            NoneBehind(s, A, B) /\ (c /\ a \in B => None(s, A))
  <2>1. CASE c
    <3>1. r = Append(s, a)
      BY <1>3, <2>1, AppendIsConcat
    <3>2. /\ Append(s, a) \in Seq(Handler)
          /\ \A A : None(Append(s, a), A) <=> None(s, A) /\ a \notin A
          /\ \A A, B : NoneBehind(Append(s, a), A, B) <=>
                NoneBehind(s, A, B) /\ (a \in B => None(s, A))
      BY <1>3, QueueAppend
    <3> QED
      BY <2>1, <3>1, <3>2
  <2>2. CASE ~c
    BY <1>3, <2>2, ConcatEmptySeq
  <2> QED
    BY <2>1, <2>2
<1> QED
  BY <1>4 DEF r, a, c

\* An aborted wait or operation is its transport's, and did not succeed.
LEMMA AbortedFields ==
    ASSUME NEW t, NEW op
    PROVE  /\ Aborted(t, op).t = t /\ Aborted(t, op).op = op /\ ~Aborted(t, op).ok
           /\ Aborted(t, "timer") \notin Does(IoOps)
BY DEF Aborted, Does, IoOps

\* A transport whose end is queued is deleted: nothing is left of it but a
\* handler of its timer.
LEMMA DeletedPatient ==
    ASSUME TypeInv, PatientInv, pTransport \in Transport, Ended,
           DeleteTransport(pTransport), wpc' = "done",
           UNCHANGED <<scenario, held, flags, io, fault>>
    PROVE  /\ pTransport' = NoTransport /\ ~Reporting' /\ OneLife' /\ IoShape'
           /\ \A t \in Transport : pending'[t] = "none"
           /\ None(handlers', Does(IoOps)) /\ NoneBehind(handlers', Does(IoOps), Does(IoOps))
           /\ Untimed'
<1> USE DEF PatientInv
<1> DEFINE t == pTransport
<1>1. /\ \A u \in Transport : pending[u] = "none"
      /\ None(handlers, Does(IoOps)) /\ ~Reporting
  BY NothingUnderWay
<1>2. handlers \in Seq(Handler)
  BY DEF TypeInv, AsioType
<1>3. handlers' = handlers \o TimerAborted(t)
  <2>1. handlers' = (handlers \o TimerAborted(t)) \o << >>
    BY <1>1 DEF DeleteTransport
  <2>2. handlers \o TimerAborted(t) \in Seq(Handler)
    BY <1>2, AbortedType
  <2> QED
    BY <2>1, <2>2, ConcatEmptySeq
<1>4. /\ pTransport' = NoTransport
      /\ life' = [life EXCEPT ![t] = "deleted"]
      /\ m_Transports' = m_Transports \ {t}
      /\ \A u \in Transport : pending'[u] = "none"
      /\ \A u \in Transport : m_Timer'[u] => m_Timer[u]
  BY <1>1 DEF DeleteTransport, TypeInv, AsioType
<1>5. \A A : None(handlers', A) <=>
         None(handlers, A) /\ (m_Timer[t] => Aborted(t, "timer") \notin A)
  BY <1>2, <1>3, TimerQueued
<1>6. None(handlers', Does(IoOps))
  BY <1>1, <1>5, AbortedFields
<1>7. NoneBehind(handlers', Does(IoOps), Does(IoOps))
  BY <1>6 DEF None, NoneBehind
<1>8. ~Reporting' /\ IoShape'
  BY <1>1 DEF Reporting, IoShape
<1>9. OneLife'
  <2>1. \A u \in Transport : life'[u] = (IF u = t THEN "deleted" ELSE life[u])
    BY <1>4 DEF TypeInv, FlagsType
  <2>2. None(handlers', {h \in Handler : life'[h.t] = "unborn"})
    <3>1. None(handlers, {h \in Handler : life'[h.t] = "unborn"})
      BY <2>1 DEF OneLife, None, Handler
    <3>2. Aborted(t, "timer") \notin {h \in Handler : life'[h.t] = "unborn"}
      BY <2>1, AbortedFields
    <3> QED
      BY <1>5, <3>1, <3>2
  <2>3. \A u \in Transport : life'[u] = "alive" <=> u = pTransport'
    BY <1>4, <2>1, NoneTransport DEF OneLife
  <2>4. m_Transports' = {pTransport'} \ {NoTransport}
    BY <1>4 DEF OneLife
  <2>5. \A u \in Transport : life'[u] = "unborn" =>
           ~m_bConnecting'[u] /\ ~m_bConnected'[u] /\ ~m_Timer'[u]
    BY <1>4, <2>1 DEF OneLife, flags
  <2>6. io'.pc # "idle" => life'[io'.t] # "unborn"
    BY <2>1 DEF OneLife, TypeInv, IoType
  <2> QED
    BY <1>4, <2>2, <2>3, <2>4, <2>5, <2>6 DEF OneLife
<1>10. Untimed'
  <2>1. ~scenario.timeout => ~m_Timer[t] /\ None(handlers, Does({"timer"}))
    BY DEF Untimed
  <2> QED
    BY <1>4, <1>5, <2>1 DEF Untimed
<1> QED
  BY <1>4, <1>6, <1>7, <1>8, <1>9, <1>10

LEMMA DisconnectedPatient ==
    ASSUME TypeInv, PatientScript, PatientInv, DisconnectEvent
    PROVE  PatientInv'
<1> USE DEF PatientInv
<1>1. /\ HeadIs("Disconnected") /\ wpc = "poll" /\ stop # "exited" /\ wpc' = "done"
      /\ UNCHANGED <<scenario, held, Target, flags, m_Socket, io, stop, over, crossed, fault>>
  BY DEF DisconnectEvent, HeadIs, WorkerAt
<1>2. Ended
  BY <1>1, MessageTail DEF HeadIs, Ended, NoneOf
<1>3. CASE pTransport = NoTransport
  <2>1. /\ m_MessageQueue' = Tail(m_MessageQueue)
        /\ UNCHANGED <<pTransport, life, pending, m_Timer, handlers, m_Transports>>
    BY <1>3 DEF DisconnectEvent
  <2>2. /\ \A T : None(m_MessageQueue, Of(T)) <=>
              "Disconnected" \notin T /\ None(m_MessageQueue', Of(T))
        /\ \A T : None(m_MessageQueue, ToTarget(T)) => None(m_MessageQueue', ToTarget(T))
        /\ \A T, B : NoneBehind(m_MessageQueue, Of(T), B) <=>
              NoneBehind(m_MessageQueue', Of(T), B)
                 /\ ("Disconnected" \in T => None(m_MessageQueue', B))
        /\ \A T, B : NoneBehind(m_MessageQueue, ToTarget(T), B) =>
              NoneBehind(m_MessageQueue', ToTarget(T), B)
    BY <1>1, <2>1, MessageTaken
  <2>3. OneLife' /\ IoShape'
    BY <1>1, <2>1 DEF OneLife, IoShape, flags
  <2>4. Token'
    <3>1. io'.pc \in {"notConnecting", "readFailed"} => io'.t # pTransport'
      BY <1>1, <1>3, <2>1, NoneTransport DEF TypeInv, IoType
    <3>2. ~Reporting /\ ~Reporting' /\ None(handlers, Does(IoOps))
      BY <1>1, <1>3, NothingUnderWay DEF Reporting
    <3>3. io'.pc # "connectEnds"
      BY <1>1, <1>2 DEF Token
    <3> QED
      BY <1>1, <1>2, <1>3, <2>1, <2>2, <3>1, <3>2, <3>3, NothingUnderWay DEF Token, OnlyOne
  <2>5. Turns'
    BY <1>1, <2>2 DEF Turns, Closing, Tidying, NoneOf, OnlyOne, InOrder, InCallbackOf
  <2>6. Late => Late'
    BY <1>1, <2>2 DEF Late, NoneOf, InCallbackOf
  <2>7. Order'
    BY <1>1, <1>3, <2>1, <2>2, <2>6 DEF Order, NoneOf, InOrder
  <2>8. Phases'
    <3>1. ~Reading
      BY <1>3 DEF Phases
    <3>2. ~Reading'
      BY <1>1, <1>3, <2>1, <2>2, <3>1 DEF Reading, NoneOf
    <3> QED
      BY <1>3, <2>1, <3>2 DEF Phases
  <2>9. Telling'
    BY <1>1, <2>2 DEF Telling, NoneOf, InOrder, InCallbackOf, Told, Data
  <2>10. Tidied' /\ Untimed' /\ Asked'
    BY <1>1, <2>1, <2>2 DEF Tidied, Tidying, Untimed, Asked, NoneOf, InOrder, InCallbackOf
  <2> QED
    BY <2>3, <2>4, <2>5, <2>7, <2>8, <2>9, <2>10
<1>4. CASE pTransport # NoTransport
  <2>1. /\ DeleteTransport(pTransport) /\ pTransport \in Transport
        /\ m_MessageQueue' = MessagePlugin(Tail(m_MessageQueue), NewMessage("onDisconnect"))
    BY <1>4 DEF DisconnectEvent, TypeInv, ConnectionType
  <2>2. /\ pTransport' = NoTransport /\ ~Reporting' /\ OneLife' /\ IoShape'
        /\ \A t \in Transport : pending'[t] = "none"
        /\ None(handlers', Does(IoOps)) /\ NoneBehind(handlers', Does(IoOps), Does(IoOps))
        /\ Untimed' /\ Tidied'
    BY <1>1, <1>2, <2>1, DeletedPatient DEF Tidied, Tidying
  <2> DEFINE m == NewMessage("onDisconnect")
             r == Tail(m_MessageQueue)
  <2>3. m \in Message /\ m.type = "onDisconnect"
    BY NewMessageType, MessageTypes DEF Callback
  <2> HIDE DEF m, r
  <2>4. /\ \A T : None(m_MessageQueue, Of(T)) <=> "Disconnected" \notin T /\ None(r, Of(T))
        /\ \A T : None(m_MessageQueue, ToTarget(T)) => None(r, ToTarget(T))
        /\ \A T, B : NoneBehind(m_MessageQueue, Of(T), B) <=>
              NoneBehind(r, Of(T), B) /\ ("Disconnected" \in T => None(r, B))
        /\ \A T, B : NoneBehind(m_MessageQueue, ToTarget(T), B) =>
              NoneBehind(r, ToTarget(T), B)
        /\ \A T : None(m_MessageQueue', Of(T)) <=> None(r, Of(T)) /\ "onDisconnect" \notin T
        /\ \A T : "onDisconnect" \notin T =>
              (None(m_MessageQueue', ToTarget(T)) <=> None(r, ToTarget(T)))
        /\ \A A, T : NoneBehind(m_MessageQueue', A, Of(T)) <=>
              NoneBehind(r, A, Of(T)) /\ ("onDisconnect" \in T => None(r, A))
        /\ \A A, T : NoneBehind(r, A, ToTarget(T)) /\ ("onDisconnect" \in T => None(r, A)) =>
              NoneBehind(m_MessageQueue', A, ToTarget(T))
    BY <1>1, <2>1, <2>3, MessageReplaced DEF m, r
  <2>5. Token'
    <3>1. OnlyOne("Disconnected")'
      BY <2>4 DEF OnlyOne, Token
    <3>2. io'.pc # "idle" => io'.t # pTransport'
      BY <1>1, <2>2, NoneTransport DEF TypeInv, IoType
    <3>3. io'.pc \in {"notConnecting", "readFailed"} => io'.pc # "idle"
      OBVIOUS
    <3>4. /\ None(handlers', {h \in Handler : h.op \in IoOps /\ h.t # pTransport'})
          /\ None(handlers', {h \in Handler : h.op = "resolve" /\ ~h.ok})
      BY <2>2 DEF None, Does, IoOps
    <3>5. io'.pc # "connectEnds"
      BY <1>1, <1>2 DEF Token
    <3> QED
      BY <2>2, <3>1, <3>2, <3>3, <3>4, <3>5 DEF Token
  <2>6. Turns'
    BY <1>1, <2>4 DEF Turns, Closing, Tidying, NoneOf, OnlyOne, InOrder, InCallbackOf
  <2>7. Late => Late'
    BY <1>1, <2>4 DEF Late, NoneOf, InCallbackOf
  <2>8. Order'
    <3>1. None(handlers', {h \in Handler : h.op = "connect" /\ ~h.ok})
      BY <2>2 DEF None, Does, IoOps
    <3> QED
      BY <1>1, <2>2, <2>4, <2>7, <3>1 DEF Order, NoneOf, InOrder
  <2>9. Phases'
    <3>1. None(r, Of({"Read"}))
      BY <2>4 DEF Telling, InOrder
    <3>2. ~Reading'
      <4>1. None(handlers', Does({"read"}))
        BY <2>2 DEF None, Does, IoOps
      <4>2. io'.pc # "connectEnds"
        BY <1>1, <1>2 DEF Token
      <4> QED
        BY <2>2, <2>4, <3>1, <4>1, <4>2 DEF Reading, NoneOf, Reporting
    <3> QED
      BY <2>2, <3>2 DEF Phases
  <2>10. Telling'
    <3>1. None(r, Of({"Read"}))
      BY <2>4 DEF Telling, InOrder
    <3> QED
      BY <1>1, <2>4, <3>1 DEF Telling, NoneOf, InOrder, InCallbackOf, Told, Data
  <2>11. Asked'
    BY <1>1, <2>2, <2>4 DEF Asked, NoneOf, InOrder, InCallbackOf
  <2> QED
    BY <2>2, <2>5, <2>6, <2>8, <2>9, <2>10, <2>11
<1> QED
  BY <1>3, <1>4

LEMMA DisconnectPatient ==
    ASSUME TypeInv, PatientScript, PatientInv, ConnectionDisconnect
    PROVE  PatientInv'
<1> USE DEF PatientInv
<1>1. /\ HeadIs("Disconnect") /\ wpc = "poll" /\ stop # "exited"
      /\ wpc' \in {"done", "handleDisconnect", "isConnecting"}
      /\ m_MessageQueue' = Tail(m_MessageQueue)
      /\ pTransport = NoTransport => wpc' = "done"
      /\ UNCHANGED <<scenario, held, Target, pTransport, life, flags, asio, io,
                     m_Transports, stop, over, crossed, fault>>
  BY DEF ConnectionDisconnect, HeadIs, WorkerAt, connection
<1>2. /\ \A T : None(m_MessageQueue, Of(T)) <=>
            "Disconnect" \notin T /\ None(m_MessageQueue', Of(T))
      /\ \A T : None(m_MessageQueue, ToTarget(T)) => None(m_MessageQueue', ToTarget(T))
      /\ \A T, B : NoneBehind(m_MessageQueue, Of(T), B) <=>
            NoneBehind(m_MessageQueue', Of(T), B)
               /\ ("Disconnect" \in T => None(m_MessageQueue', B))
      /\ \A T, B : NoneBehind(m_MessageQueue, ToTarget(T), B) =>
            NoneBehind(m_MessageQueue', ToTarget(T), B)
  BY <1>1, MessageTaken
<1>3. /\ stop = "handled" /\ ~Late
      /\ NoneOf({"Disconnect"})' /\ NoneOf({"onHeartbeat"})'
  <2>1. stop \in {"handled", "exited"} /\ ~Late
    BY <1>2 DEF Turns, Late, NoneOf, TypeInv, EndType
  <2> QED
    BY <1>1, <1>2, <2>1 DEF Turns, NoneOf, OnlyOne, InOrder
<1>4. Turns'
  BY <1>1, <1>2, <1>3 DEF Turns, NoneOf, OnlyOne, InOrder, InCallbackOf
<1>5. wpc' # "isConnecting" => Late'
  BY <1>1, <1>3 DEF Late, InCallbackOf
<1>6. Telling'
  BY <1>1, <1>2 DEF Telling, NoneOf, InOrder, InCallbackOf, Told, Data
<1>7. OneLife' /\ IoShape'
  BY <1>1 DEF OneLife, IoShape, flags, asio
<1>8. Token'
  BY <1>1, <1>2 DEF Token, Reporting, Ended, NoneOf, OnlyOne, asio
<1>9. Order'
  BY <1>1, <1>2, <1>3 DEF Order, NoneOf, Ended, InOrder, Up, flags, asio
<1>10. Phases'
  BY <1>1, <1>2, <1>3 DEF Phases, Establishing, Reading, Failed, NoneOf, Ended, InCallbackOf,
     flags, asio
<1>12. wpc' = "isConnecting" /\ pTransport # NoTransport => ~m_bConnected'[pTransport]
  BY <1>1 DEF ConnectionDisconnect, IsConnected, flags
<1>11. Tidied' /\ Untimed' /\ Asked'
  BY <1>1, <1>2, <1>12 DEF Tidied, Tidying, Untimed, Asked, NoneOf, InOrder, InCallbackOf, asio
<1> QED
  BY <1>4, <1>6, <1>7, <1>8, <1>9, <1>10, <1>11

\* A transport that is not connecting, and has not come up since the worker asked
\* whether it is connected, has failed.
LEMMA AskPatient ==
    ASSUME TypeInv, PatientScript, PatientInv, AskIsConnecting, ~crossed'
    PROVE  PatientInv'
<1> USE DEF PatientInv
<1>1. /\ wpc = "isConnecting"
      /\ wpc' = IF IsConnecting THEN "handleDisconnect" ELSE "tidyUp"
      /\ ~IsConnecting => ~IsConnected
      /\ UNCHANGED <<scenario, held, Target, pTransport, life, flags, asio, io,
                     m_Transports, m_MessageQueue, msg, stop, over, fault>>
  BY DEF AskIsConnecting, WorkerAt, connection
<1>2. /\ stop = "handled" /\ NoneOf({"Disconnect"}) /\ NoneOf({"onHeartbeat"})
      /\ pTransport # NoTransport
  BY <1>1 DEF Turns, Closing, TypeInv, WorkerType
<1>3. ~Late /\ Late'
  BY <1>1, <1>2 DEF Late, NoneOf, InCallbackOf
<1>4. ~IsConnecting => ~Up(pTransport) /\ Ended /\ scenario.failures # {}
  BY <1>1, <1>2, <1>3 DEF Order, Up, IsConnecting, IsConnected
<1>5. OneLife' /\ IoShape'
  BY <1>1 DEF OneLife, IoShape, flags, asio
<1>6. Token'
  BY <1>1 DEF Token, Reporting, Ended, NoneOf, OnlyOne, asio
<1>7. Turns'
  BY <1>1, <1>2 DEF Turns, NoneOf, OnlyOne, InOrder, InCallbackOf
<1>8. Order'
  BY <1>1, <1>3 DEF Order, NoneOf, Ended, InOrder
<1>9. Phases'
  BY <1>1, <1>3 DEF Phases, Establishing, Reading, Failed, NoneOf, Ended, InCallbackOf, flags, asio
<1>10. Telling'
  BY <1>1 DEF Telling, NoneOf, InOrder, InCallbackOf
<1>11. Tidied'
  <2>1. ~IsConnecting => NoneOf({"Read"})
    BY <1>1, <1>2, <1>3 DEF Phases, Reading, IsConnected
  <2> QED
    BY <1>1, <1>2, <1>4, <2>1 DEF Tidied, Tidying, Ended, NoneOf, Up, flags
<1>12. Untimed' /\ Asked'
  BY <1>1 DEF Untimed, Asked, NoneOf, InOrder, InCallbackOf, asio
<1> QED
  BY <1>5, <1>6, <1>7, <1>8, <1>9, <1>10, <1>11, <1>12

\* The wait is cancelled (c), and the socket closed (d).
LEMMA AbortPatient ==
    ASSUME TypeInv, PatientScript, PatientInv, NEW b \in BOOLEAN, NEW d \in BOOLEAN,
           wpc \in Closing \ {"isConnecting"},
           wpc' \in {"shutdown", "disconnected", "done"} \/ (wpc \in Tidying /\ wpc' = "delete"),
           handlers' = (handlers \o (IF b THEN TimerAborted(pTransport) ELSE << >>))
                          \o (IF d THEN SocketAborted(pTransport) ELSE << >>),
           m_Timer' = [m_Timer EXCEPT ![pTransport] = @ /\ ~b],
           pending' = [pending EXCEPT ![pTransport] =
                          IF d /\ @ # "resolve" THEN "none" ELSE @],
           m_bConnected' \in [Transport -> BOOLEAN],
           \A u \in Transport : m_bConnected'[u] => m_bConnected[u],
           UNCHANGED <<scenario, held, Target, pTransport, life, m_bConnecting, io,
                       m_Transports, m_MessageQueue, msg, stop, over, fault>>
    PROVE  PatientInv'
<1> USE DEF PatientInv
<1> DEFINE t == pTransport
<1>1. /\ t \in Transport /\ t # NoTransport
      /\ wpc \notin {"poll", "callback", "connecting"}
      /\ wpc' \notin {"poll", "callback", "connecting", "isConnecting"}
  BY DEF TypeInv, ConnectionType, WorkerType, Closing, Tidying
<1>2. stop = "handled" /\ NoneOf({"Disconnect"}) /\ NoneOf({"onHeartbeat"})
  BY DEF Turns
<1>3. Late /\ Late'
  BY <1>1, <1>2 DEF Late, NoneOf, InCallbackOf
<1> DEFINE s == handlers \o (IF b THEN TimerAborted(t) ELSE << >>)
           a == Aborted(t, pending[t])
           c == d /\ pending[t] \in {"connect", "read"}
<1>4. /\ handlers \in Seq(Handler) /\ s \in Seq(Handler)
      /\ \A A : None(s, A) <=>
            None(handlers, A) /\ (b /\ m_Timer[t] => Aborted(t, "timer") \notin A)
      /\ \A A, B : NoneBehind(s, A, B) <=>
            /\ NoneBehind(handlers, A, B)
            /\ b /\ m_Timer[t] /\ Aborted(t, "timer") \in B => None(handlers, A)
  <2> DEFINE u == handlers \o TimerAborted(t)
  <2>1. handlers \in Seq(Handler)
    BY DEF TypeInv, AsioType
  <2>2. /\ u \in Seq(Handler)
        /\ \A A : None(u, A) <=>
              None(handlers, A) /\ (m_Timer[t] => Aborted(t, "timer") \notin A)
        /\ \A A, B : NoneBehind(u, A, B) <=>
              /\ NoneBehind(handlers, A, B)
              /\ m_Timer[t] /\ Aborted(t, "timer") \in B => None(handlers, A)
    BY <1>1, <2>1, TimerQueued
  <2>3. s = IF b THEN u ELSE handlers
    BY <2>1, ConcatEmptySeq
  <2> HIDE DEF u, s
  <2> QED
    BY <2>1, <2>2, <2>3
<1>5. /\ handlers' = s \o (IF c THEN <<a>> ELSE << >>) /\ c \in BOOLEAN
      /\ c => a \in Handler
  BY <1>1, AbortedType, EmptySeq DEF SocketAborted, TypeInv, AsioType, Operation
<1>6. a.t = t /\ a.op = pending[t] /\ ~a.ok /\ Aborted(t, "timer").t = t
      /\ Aborted(t, "timer").op = "timer"
  BY AbortedFields
<1> HIDE DEF s, a, c
<1>7. /\ \A A : None(handlers', A) <=> None(s, A) /\ (c => a \notin A)
      /\ \A A, B : NoneBehind(handlers', A, B) <=>
            NoneBehind(s, A, B) /\ (c /\ a \in B => None(s, A))
  <2> DEFINE r == handlers'
  <2>1. /\ s \in Seq(Handler) /\ c \in BOOLEAN
        /\ c => a \in Handler
        /\ r = s \o (IF c THEN <<a>> ELSE << >>)
    BY <1>4, <1>5
  <2> HIDE DEF r, PatientInv
  <2>2. /\ \A A : None(r, A) <=> None(s, A) /\ (c => a \notin A)
        /\ \A A, B : NoneBehind(r, A, B) <=>
              NoneBehind(s, A, B) /\ (c /\ a \in B => None(s, A))
    <3>1. CASE c
      <4>1. r = Append(s, a) /\ a \in Handler
        BY <2>1, <3>1, AppendIsConcat
      <4>2. /\ \A A : None(Append(s, a), A) <=> None(s, A) /\ a \notin A
            /\ \A A, B : NoneBehind(Append(s, a), A, B) <=>
                  NoneBehind(s, A, B) /\ (a \in B => None(s, A))
        BY <2>1, <4>1, QueueAppend
      <4> QED
        BY <3>1, <4>1, <4>2
    <3>2. CASE ~c
      BY <2>1, <3>2, ConcatEmptySeq
    <3> QED
      BY <3>1, <3>2
  <2> QED
    BY <2>2 DEF r
<1> USE DEF c
<1>8. /\ \A u \in Transport : pending'[u] # "none" => pending'[u] = pending[u]
      /\ \A u \in Transport : pending[u] # "none" => u = t
      /\ c => pending'[t] = "none"
      /\ \A u \in Transport : m_Timer'[u] => m_Timer[u]
  <2>1. /\ \A u \in Transport : pending[u] # "none" => u = t
        /\ pending \in [Transport -> {"none", "resolve", "connect", "read"}]
        /\ m_Timer \in [Transport -> BOOLEAN]
    BY DEF Token, TypeInv, AsioType
  <2> QED
    BY <2>1, <1>1
<1>9. OneLife'
  <2>1. None(handlers', {h \in Handler : life[h.t] = "unborn"})
    <3>1. life[t] # "unborn"
      BY <1>1 DEF OneLife
    <3> QED
      BY <1>4, <1>6, <1>7, <3>1 DEF OneLife
  <2> QED
    BY <1>1, <1>8, <2>1 DEF OneLife
<1>10. Ended' = Ended /\ Reporting' = Reporting
  BY DEF Ended, NoneOf, Reporting
<1>11. Token'
  <2>1. c => None(handlers, Does(IoOps)) /\ ~Reporting /\ ~Ended
    BY <1>1 DEF Token
  <2>2. Aborted(t, "timer") \notin Does(IoOps)
    BY AbortedFields
  <2>4. /\ None(s, Does(IoOps)) <=> None(handlers, Does(IoOps))
        /\ NoneBehind(s, Does(IoOps), Does(IoOps))
    BY <1>4, <2>2 DEF Token
  <2>5. ~c => (None(handlers', Does(IoOps)) <=> None(handlers, Does(IoOps)))
    BY <1>7, <2>4
  <2>6. None(handlers', Does(IoOps)) \/ (~Reporting' /\ ~Ended')
    BY <1>10, <2>1, <2>5 DEF Token
  <2>7. NoneBehind(handlers', Does(IoOps), Does(IoOps))
    BY <1>7, <2>1, <2>4
  <2>8. None(handlers', {h \in Handler : h.op \in IoOps /\ h.t # t})
    BY <1>4, <1>6, <1>7 DEF Token
  <2>9. None(handlers', {h \in Handler : h.op = "resolve" /\ ~h.ok})
    <3>1. None(s, {h \in Handler : h.op = "resolve" /\ ~h.ok})
      BY <1>4, <1>6 DEF Token
    <3> QED
      BY <1>6, <1>7, <3>1
  <2>10. \A u \in Transport : pending'[u] # "none" =>
            u = t /\ None(handlers', Does(IoOps)) /\ ~Reporting' /\ ~Ended'
    BY <1>1, <1>8, <1>10, <2>5 DEF Token
  <2>11. OnlyOne("Disconnected")'
    BY DEF Token, OnlyOne
  <2> QED
    BY <1>10, <2>6, <2>7, <2>8, <2>9, <2>10, <2>11 DEF Token
<1>12. IoShape' /\ Telling'
  BY <1>1 DEF IoShape, Telling, NoneOf, InOrder, InCallbackOf
<1>13. Turns'
  BY <1>1, <1>2 DEF Turns, Closing, Tidying, NoneOf, OnlyOne, InOrder, InCallbackOf
<1>14. Order'
  BY <1>3, <1>10 DEF Order, NoneOf, InOrder
<1>15. Phases'
  <2>1. \A O : "timer" \notin O => (None(s, Does(O)) <=> None(handlers, Does(O)))
    BY <1>4, <1>6 DEF Does
  <2>2. \A O : "timer" \notin O /\ ~None(handlers', Does(O)) =>
           ~None(handlers, Does(O)) \/ (c /\ pending[t] \in O)
    BY <1>6, <1>7, <2>1 DEF Does
  <2>3. Reading' => Reading
    BY <1>1, <1>8, <2>2 DEF Reading, NoneOf
  <2>4. Establishing' => Establishing
    BY <1>1, <1>8, <2>2 DEF Establishing
  <2>5. Failed' => Failed
    BY <1>1 DEF Failed, NoneOf, InCallbackOf
  <2> QED
    BY <1>1, <1>3, <1>10, <2>3, <2>4, <2>5 DEF Phases
<1>16. Tidied'
  BY <1>1, <1>10 DEF Tidied, Tidying, NoneOf
<1>17. Untimed'
  <2>1. ~scenario.timeout => None(handlers', Does({"timer"}))
    BY <1>1, <1>4, <1>6, <1>7 DEF Untimed, Does
  <2> QED
    BY <1>8, <2>1 DEF Untimed
<1>18. Asked'
  BY <1>1 DEF Asked, NoneOf, InOrder, InCallbackOf
<1> QED
  BY <1>9, <1>11, <1>12, <1>13, <1>14, <1>15, <1>16, <1>17, <1>18

\* The steps of handleDisconnect, when it is asked for and when it is tidied up.
LEMMA ClosingPatient ==
    ASSUME TypeInv, PatientScript, PatientInv,
           handleDisconnect \/ Shutdown \/ ClearConnected \/ TidyUp
    PROVE  PatientInv'
<1> DEFINE t == pTransport
<1>1. /\ wpc \in Closing \ {"isConnecting"}
      /\ wpc' \in {"shutdown", "disconnected", "done"} \/ (wpc \in Tidying /\ wpc' = "delete")
      /\ UNCHANGED <<scenario, held, Target, pTransport, life, m_bConnecting, io,
                     m_Transports, m_MessageQueue, msg, stop, over, fault>>
  BY DEF handleDisconnect, Shutdown, ClearConnected, TidyUp, WorkerAt, Closing, Tidying,
     DisconnectUnchanged, connection
<1>2. /\ t \in Transport
      /\ handlers \in Seq(Handler) /\ m_Timer \in [Transport -> BOOLEAN]
      /\ pending \in [Transport -> {"none", "resolve", "connect", "read"}]
      /\ m_bConnected \in [Transport -> BOOLEAN]
      /\ TimerAborted(t) \in Seq(Handler) /\ SocketAborted(t) \in Seq(Handler)
  BY <1>1, AbortedType DEF TypeInv, ConnectionType, WorkerType, AsioType, FlagsType
<1> DEFINE Aborts(b, d) ==
        /\ handlers' = (handlers \o (IF b THEN TimerAborted(t) ELSE << >>))
                          \o (IF d THEN SocketAborted(t) ELSE << >>)
        /\ m_Timer' = [m_Timer EXCEPT ![t] = @ /\ ~b]
        /\ pending' = [pending EXCEPT ![t] = IF d /\ @ # "resolve" THEN "none" ELSE @]
        /\ m_bConnected' \in [Transport -> BOOLEAN]
        /\ \A u \in Transport : m_bConnected'[u] => m_bConnected[u]
<1>3. \E b, d \in BOOLEAN : Aborts(b, d)
  <2>1. CASE handleDisconnect
    <3>1. Aborts(TRUE, IsConnecting)
      BY <1>2, <2>1, ConcatEmptySeq DEF handleDisconnect, CloseSocket
    <3> QED
      BY <3>1, <1>2 DEF IsConnecting, TypeInv, FlagsType
  <2>2. CASE Shutdown
    <3>1. Aborts(FALSE, IsConnected)
      BY <1>2, <2>2, ConcatEmptySeq DEF Shutdown, CloseSocket
    <3> QED
      BY <3>1, <1>2 DEF IsConnected
  <2>3. CASE ClearConnected
    <3>1. Aborts(FALSE, FALSE)
      BY <1>2, <2>3, ConcatEmptySeq DEF ClearConnected, asio
    <3> QED
      BY <3>1
  <2>4. CASE TidyUp
    <3>1. Aborts(TRUE, IsConnected)
      BY <1>2, <2>4, ConcatEmptySeq DEF TidyUp, CloseSocket
    <3> QED
      BY <3>1, <1>2 DEF IsConnected
  <2> QED
    BY <2>1, <2>2, <2>3, <2>4
<1>4. PICK b \in BOOLEAN, d \in BOOLEAN : Aborts(b, d)
  BY <1>3
<1> QED
  BY <1>1, <1>4, AbortPatient

LEMMA TidyDeletePatient ==
    ASSUME TypeInv, PatientScript, PatientInv, TidyDelete
    PROVE  PatientInv'
<1> USE DEF PatientInv
<1> DEFINE t == pTransport
<1>1. /\ wpc = "delete" /\ wpc' = "done" /\ DeleteTransport(t)
      /\ UNCHANGED <<scenario, held, Target, flags, io, m_MessageQueue, msg, stop,
                     over, crossed, fault>>
  BY DEF TidyDelete, WorkerAt
<1>2. t \in Transport /\ Ended /\ scenario.failures # {} /\ ~m_bConnected[t]
  BY <1>1 DEF Tidied, Tidying, TypeInv, ConnectionType
<1>3. stop = "handled" /\ NoneOf({"Disconnect"}) /\ NoneOf({"onHeartbeat"})
  BY <1>1 DEF Turns, Closing, Tidying
<1>4. Late /\ Late'
  BY <1>1, <1>3 DEF Late, NoneOf, InCallbackOf
<1>5. /\ pTransport' = NoTransport /\ ~Reporting' /\ OneLife' /\ IoShape'
      /\ \A u \in Transport : pending'[u] = "none"
      /\ None(handlers', Does(IoOps)) /\ NoneBehind(handlers', Does(IoOps), Does(IoOps))
      /\ Untimed'
  BY <1>1, <1>2, DeletedPatient
<1>6. Token'
  <2>1. OnlyOne("Disconnected")'
    BY <1>1 DEF OnlyOne, Token
  <2>2. io'.pc # "idle" => io'.t # pTransport'
    BY <1>1, <1>5, NoneTransport DEF TypeInv, IoType
  <2>3. io'.pc \in {"notConnecting", "readFailed"} => io'.pc # "idle"
    OBVIOUS
  <2>4. /\ None(handlers', {h \in Handler : h.op \in IoOps /\ h.t # pTransport'})
        /\ None(handlers', {h \in Handler : h.op = "resolve" /\ ~h.ok})
    BY <1>5 DEF None, Does, IoOps
  <2>5. io'.pc # "connectEnds"
    BY <1>1, <1>2 DEF Token
  <2> QED
    BY <1>5, <2>1, <2>2, <2>3, <2>4, <2>5 DEF Token
<1>7. Turns'
  BY <1>1, <1>3 DEF Turns, Closing, Tidying, NoneOf, OnlyOne, InOrder, InCallbackOf
<1>8. Order'
  BY <1>1, <1>4, <1>5 DEF Order, NoneOf, InOrder
<1>9. Telling'
  BY <1>1 DEF Telling, NoneOf, InOrder, InCallbackOf
<1>10. Phases'
  <2>1. NoneOf({"Read"})
    BY <1>1 DEF Tidied, Tidying
  <2>2. None(handlers', Does({"read"}))
    BY <1>5 DEF None, Does, IoOps
  <2>3. io.pc # "connectEnds"
    BY <1>2 DEF Token
  <2>4. ~Reading'
    BY <1>1, <1>5, <2>1, <2>2, <2>3 DEF Reading, NoneOf, Reporting
  <2> QED
    BY <1>5, <2>4 DEF Phases
<1>11. Tidied' /\ Asked'
  <2>1. scenario.stops
    BY <1>3 DEF Turns
  <2> QED
    BY <1>1, <1>2, <2>1 DEF Tidied, Tidying, Asked
<1> QED
  BY <1>5, <1>6, <1>7, <1>8, <1>9, <1>10, <1>11

-----------------------------------------------------------------------------
(* A patient script: the operating system and the handlers.                *)

QueueUnchanged == UNCHANGED <<connection, life, m_Transports, m_MessageQueue,
                              worker, stop, over, crossed, fault>>

\* What is said of the queue and of the worker alone is not theirs to change.
LEMMA AsioFrame ==
    ASSUME PatientInv, QueueUnchanged
    PROVE  /\ Turns' /\ Telling' /\ Asked'
           /\ Late' = Late /\ Ended' = Ended /\ Failed' = Failed
           /\ UNCHANGED <<scenario, held, pTransport, life, m_Transports, m_MessageQueue,
                          wpc, msg, stop, fault>>
           /\ ~Ended \/ UNCHANGED <<m_bConnecting, m_bConnected>> => Tidied'
<1> USE DEF PatientInv, QueueUnchanged, connection, worker
<1>1. Turns' /\ Telling'
  BY DEF Turns, Closing, Tidying, Telling, NoneOf, OnlyOne, InOrder, InCallbackOf
<1>2. Asked'
  BY DEF Asked, NoneOf, InOrder, InCallbackOf
<1>3. Late' = Late /\ Ended' = Ended /\ Failed' = Failed
  BY DEF Late, Ended, Failed, NoneOf, InCallbackOf
<1>4. ~Ended \/ UNCHANGED <<m_bConnecting, m_bConnected>> => Tidied'
  BY <1>3 DEF Tidied, Order, NoneOf
<1> QED
  BY <1>1, <1>2, <1>3, <1>4

\* The queue of handlers after one has been put there, and after one has run.
LEMMA HandlerQueued ==
    ASSUME TypeInv, NEW h \in Handler, handlers' = Append(handlers, h)
    PROVE  /\ \A A : None(handlers', A) <=> None(handlers, A) /\ h \notin A
           /\ \A A, B : NoneBehind(handlers', A, B) <=>
                 NoneBehind(handlers, A, B) /\ (h \in B => None(handlers, A))
<1>1. handlers \in Seq(Handler)
  BY DEF TypeInv, AsioType
<1>2. /\ \A A : None(Append(handlers, h), A) <=> None(handlers, A) /\ h \notin A
      /\ \A A, B : NoneBehind(Append(handlers, h), A, B) <=>
            NoneBehind(handlers, A, B) /\ (h \in B => None(handlers, A))
  BY <1>1, QueueAppend
<1> QED
  BY <1>2

LEMMA HandlerTaken ==
    ASSUME TypeInv, handlers # << >>, handlers' = Tail(handlers)
    PROVE  LET h == Head(handlers) IN
           /\ h \in Handler
           /\ \A A : None(handlers, A) <=> h \notin A /\ None(handlers', A)
           /\ \A A, B : NoneBehind(handlers, A, B) <=>
                 NoneBehind(handlers', A, B) /\ (h \in A => None(handlers', B))
<1>1. handlers \in Seq(Handler)
  BY DEF TypeInv, AsioType
<1>2. LET h == Head(handlers) IN
      /\ h \in Handler
      /\ \A A : None(handlers, A) <=> h \notin A /\ None(Tail(handlers), A)
      /\ \A A, B : NoneBehind(handlers, A, B) <=>
            NoneBehind(Tail(handlers), A, B) /\ (h \in A => None(Tail(handlers), B))
  BY <1>1, QueueTail
<1> QED
  BY <1>2

LEMMA CompletePatient ==
    ASSUME TypeInv, PatientScript, PatientInv, NEW t \in Transport, Complete(t)
    PROVE  PatientInv'
<1> USE DEF PatientInv
<1>1. /\ QueueUnchanged /\ UNCHANGED <<flags, m_Timer, io>>
      /\ pending' = [pending EXCEPT ![t] = "none"]
      /\ pending[t] # "none"
  BY DEF Complete, QueueUnchanged, flags
<1>2. t = pTransport /\ None(handlers, Does(IoOps)) /\ ~Reporting /\ ~Ended
  BY <1>1 DEF Token
<1>3. pending[t] \in {"resolve", "connect", "read"}
      /\ \A u \in Transport : pending'[u] = "none"
  BY <1>1 DEF TypeInv, AsioType, Token
<1>4. PICK ok \in BOOLEAN :
         /\ pending[t] # "read" /\ ~ok => pending[t] \in scenario.failures
         /\ handlers' = Append(handlers, [t |-> t, op |-> pending[t], ok |-> ok])
  BY DEF Complete
<1> DEFINE h == [t |-> t, op |-> pending[t], ok |-> ok]
<1>5. h \in Handler /\ h.t = t /\ h.op = pending[t] /\ h.ok = ok
  BY <1>3 DEF Handler, Operation
<1>6. handlers' = Append(handlers, h)
  BY <1>4
<1> HIDE DEF h
<1>7. /\ \A A : None(handlers', A) <=> None(handlers, A) /\ h \notin A
      /\ \A A, B : NoneBehind(handlers', A, B) <=>
            NoneBehind(handlers, A, B) /\ (h \in B => None(handlers, A))
  BY <1>5, <1>6, HandlerQueued
<1>8. /\ h \notin {g \in Handler : g.op = "resolve" /\ ~g.ok}
      /\ scenario.failures = {} => h \notin {g \in Handler : g.op = "connect" /\ ~g.ok}
      /\ h \notin {g \in Handler : g.op \in IoOps /\ g.t # pTransport}
      /\ h \notin Does({"timer"})
      /\ \A O : h \in Does(O) => pending[t] \in O
  BY <1>2, <1>3, <1>4, <1>5 DEF PatientScript, Does
<1>9. /\ Turns' /\ Telling' /\ Asked' /\ Tidied'
      /\ Late' = Late /\ Ended' = Ended /\ Failed' = Failed
      /\ UNCHANGED <<scenario, held, pTransport, life, m_Transports, m_MessageQueue,
                     wpc, msg, stop, fault>>
  BY <1>1, AsioFrame DEF flags
<1>10. OneLife'
  <2>1. life[t] # "unborn"
    BY <1>2 DEF OneLife
  <2>2. h \notin {g \in Handler : life[g.t] = "unborn"}
    BY <1>5, <2>1
  <2> QED
    BY <1>1, <1>7, <1>9, <2>2 DEF OneLife, flags
<1>11. IoShape' /\ ~Reporting'
  BY <1>1, <1>2 DEF IoShape, Reporting
<1>12. Token'
  <2>1. NoneBehind(handlers', Does(IoOps), Does(IoOps))
    BY <1>2, <1>7 DEF Token
  <2>2. OnlyOne("Disconnected")'
    BY <1>9 DEF Token, OnlyOne
  <2> QED
    BY <1>1, <1>2, <1>3, <1>7, <1>8, <1>9, <1>11, <2>1, <2>2 DEF Token, Reporting
<1>13. Order'
  BY <1>1, <1>7, <1>8, <1>9 DEF Order, NoneOf, InOrder, Up, flags
<1>14. Phases'
  <2>3. /\ ~None(handlers', Does({"resolve"})) =>
               ~None(handlers, Does({"resolve"})) \/ pending[t] = "resolve"
        /\ ~None(handlers', Does({"connect"})) =>
               ~None(handlers, Does({"connect"})) \/ pending[t] = "connect"
        /\ ~None(handlers', Does({"read"})) =>
               ~None(handlers, Does({"read"})) \/ pending[t] = "read"
    BY <1>7, <1>8
  <2>4. t # NoTransport /\ pTransport' = t /\ pending'[t] = "none"
    BY <1>2, <1>3, <1>9, NoneTransport
  <2>1. Establishing' => Establishing
    BY <1>1, <1>2, <2>3, <2>4 DEF Establishing
  <2>2. Reading' => Reading
    BY <1>1, <1>2, <1>9, <2>3, <2>4 DEF Reading, NoneOf
  <2> QED
    BY <1>1, <1>9, <2>1, <2>2 DEF Phases, flags
<1>15. Untimed'
  BY <1>1, <1>7, <1>8, <1>9 DEF Untimed
<1> QED
  BY <1>9, <1>10, <1>11, <1>12, <1>13, <1>14, <1>15

LEMMA ExpirePatient ==
    ASSUME TypeInv, PatientScript, PatientInv, NEW t \in Transport, Expire(t)
    PROVE  PatientInv'
<1> USE DEF PatientInv
<1> DEFINE h == [t |-> t, op |-> "timer", ok |-> TRUE]
<1>1. /\ QueueUnchanged /\ UNCHANGED <<flags, pending, io>>
      /\ m_Timer[t] /\ m_Timer' = [m_Timer EXCEPT ![t] = FALSE]
      /\ handlers' = Append(handlers, h)
  BY DEF Expire, QueueUnchanged, flags
<1>2. h \in Handler /\ h.t = t /\ h.op = "timer"
  BY DEF Handler, Operation
<1> HIDE DEF h
<1>3. /\ \A A : None(handlers', A) <=> None(handlers, A) /\ h \notin A
      /\ \A A, B : NoneBehind(handlers', A, B) <=>
            NoneBehind(handlers, A, B) /\ (h \in B => None(handlers, A))
  BY <1>1, <1>2, HandlerQueued
<1>4. /\ \A O : h \in Does(O) => "timer" \in O
      /\ \A O : "timer" \notin O => h \notin {g \in Handler : g.op \in O /\ g.t # pTransport}
      /\ \A op : op # "timer" => h \notin {g \in Handler : g.op = op /\ ~g.ok}
  BY <1>2 DEF Does
<1>5. /\ Turns' /\ Telling' /\ Asked' /\ Tidied'
      /\ Late' = Late /\ Ended' = Ended /\ Failed' = Failed
      /\ UNCHANGED <<scenario, held, pTransport, life, m_Transports, m_MessageQueue,
                     wpc, msg, stop, fault>>
  BY <1>1, AsioFrame DEF flags
<1>6. OneLife'
  <2>1. life[t] # "unborn"
    BY <1>1 DEF OneLife
  <2>2. h \notin {g \in Handler : life[g.t] = "unborn"}
    BY <1>2, <2>1
  <2>3. \A u \in Transport : m_Timer'[u] => m_Timer[u]
    BY <1>1 DEF TypeInv, AsioType
  <2> QED
    BY <1>1, <1>3, <1>5, <2>2, <2>3 DEF OneLife, flags
<1>7. IoShape' /\ Reporting' = Reporting
  BY <1>1 DEF IoShape, Reporting
<1>8. Token'
  <2>1. "timer" \notin IoOps
    BY DEF IoOps
  <2>2. OnlyOne("Disconnected")'
    BY <1>5 DEF Token, OnlyOne
  <2> QED
    BY <1>1, <1>3, <1>4, <1>5, <1>7, <2>1, <2>2 DEF Token
<1>9. Order'
  BY <1>1, <1>3, <1>4, <1>5 DEF Order, NoneOf, InOrder, Up, flags
<1>10. Phases'
  BY <1>1, <1>3, <1>4, <1>5 DEF Phases, Establishing, Reading, NoneOf, flags
<1>11. Untimed'
  BY <1>1, <1>5 DEF Untimed
<1> QED
  BY <1>5, <1>6, <1>7, <1>8, <1>9, <1>10, <1>11

\* Only a handler of a timer may find that its transport has been deleted.
LEMMA FreedPatient ==
    ASSUME TypeInv, PatientScript, PatientInv, HandleFreed \/ ResumesFreed
    PROVE  PatientInv'
<1> USE DEF PatientInv
<1>1. CASE ResumesFreed
  BY <1>1, DiesPatient DEF ResumesFreed
<1>2. CASE HandleFreed
  <2> DEFINE h == Head(handlers)
  <2>1. handlers # << >> /\ life[h.t] = "deleted" /\ Dies("freed transport")
    BY <1>2 DEF HandleFreed
  <2>2. h \in Handler /\ \A A : None(handlers, A) => h \notin A
    BY <2>1, QueueTail DEF TypeInv, AsioType
  <2>3. ASSUME ~scenario.timeout PROVE FALSE
    <3>1. h \notin Does({"timer"})
      BY <2>2, <2>3 DEF Untimed
    <3>2. h.op \in IoOps /\ h.t \in Transport
      BY <2>2, <3>1 DEF Does, Handler, Operation, IoOps
    <3>3. h.t = pTransport
      BY <2>2, <3>2 DEF Token
    <3> QED
      BY <2>1, <3>2, <3>3 DEF OneLife
  <2> QED
    BY <2>1, <2>3, DiesPatient
<1> QED
  BY <1>1, <1>2
\* The handler at the head of the queue is that of the transport, if it is of an
\* operation; none is queued behind it.
LEMMA HandlerRuns ==
    ASSUME TypeInv, PatientInv, NEW op, NEW ok, Handle(op, ok), handlers' = Tail(handlers)
    PROVE  /\ io.pc = "idle" /\ fault = "none" /\ Head(handlers).t \in Transport
           /\ life[Head(handlers).t] = "alive" /\ Head(handlers).t = pTransport
           /\ \A A : None(handlers, A) => None(handlers', A)
           /\ \A A, B : NoneBehind(handlers, A, B) => NoneBehind(handlers', A, B)
           /\ op \in IoOps =>
                 /\ ~None(handlers, Does({op})) /\ None(handlers', Does(IoOps))
                 /\ \A u \in Transport : pending[u] = "none"
                 /\ ~Ended
           /\ Head(handlers) \in Handler
           /\ Head(handlers).op = op /\ Head(handlers).ok = ok
           /\ \A A : None(handlers, A) => Head(handlers) \notin A
<1> USE DEF PatientInv
<1> DEFINE h == Head(handlers)
<1>1. /\ io.pc = "idle" /\ fault = "none" /\ life[h.t] = "alive" /\ handlers # << >>
      /\ h.op = op /\ h.ok = ok
  BY DEF Handle, IoAt
<1>2. /\ h \in Handler
      /\ \A A : None(handlers, A) <=> h \notin A /\ None(handlers', A)
      /\ \A A, B : NoneBehind(handlers, A, B) <=>
            NoneBehind(handlers', A, B) /\ (h \in A => None(handlers', B))
  BY <1>1, HandlerTaken
<1>3. h.t \in Transport /\ h.t = pTransport
  BY <1>1, <1>2 DEF Handler, OneLife
<1>4. h \in Does({op})
  BY <1>1, <1>2 DEF Does
<1>5. ASSUME op \in IoOps
      PROVE  /\ ~None(handlers, Does({op})) /\ None(handlers', Does(IoOps))
             /\ \A u \in Transport : pending[u] = "none"
             /\ ~Ended
  <2>1. h \in Does(IoOps)
    BY <1>1, <1>2, <1>5 DEF Does
  <2> QED
    BY <1>2, <1>4, <2>1 DEF Token
<1> QED
  BY <1>1, <1>2, <1>3, <1>4, <1>5

LEMMA ResolvedPatient ==
    ASSUME TypeInv, PatientScript, PatientInv, handleAsyncResolve
    PROVE  PatientInv'
<1> USE DEF PatientInv
<1> DEFINE t == Head(handlers).t
<1>1. Handle("resolve", TRUE)
  <2>1. ~Handle("resolve", FALSE)
    <3> SUFFICES ASSUME Handle("resolve", FALSE) PROVE FALSE
      OBVIOUS
    <3>1. Head(handlers) \in {h \in Handler : h.op = "resolve" /\ ~h.ok}
      BY QueueTail DEF Handle, TypeInv, AsioType
    <3> QED
      BY <3>1, QueueTail DEF Handle, TypeInv, AsioType, Token
  <2> QED
    BY <2>1 DEF handleAsyncResolve
<1>2. /\ pending' = [pending EXCEPT ![t] = "connect"]
      /\ handlers' = Tail(handlers) /\ QueueUnchanged
      /\ UNCHANGED <<flags, m_Timer, io>>
  <2>1. ~Handle("resolve", FALSE)
    BY <1>1 DEF Handle
  <2> QED
    BY <2>1 DEF handleAsyncResolve, HandlerUnchanged, QueueUnchanged
<1>3. /\ io.pc = "idle" /\ t \in Transport /\ life[t] = "alive" /\ t = pTransport
      /\ \A A : None(handlers, A) => None(handlers', A)
      /\ \A A, B : NoneBehind(handlers, A, B) => NoneBehind(handlers', A, B)
      /\ ~None(handlers, Does({"resolve"})) /\ None(handlers', Does(IoOps))
      /\ \A u \in Transport : pending[u] = "none"
      /\ ~Ended
  BY <1>1, <1>2, HandlerRuns DEF IoOps
<1>4. /\ pending'[t] = "connect" /\ \A u \in Transport : u # t => pending'[u] = "none"
  BY <1>2, <1>3 DEF TypeInv, AsioType
<1>5. /\ Turns' /\ Telling' /\ Asked' /\ Tidied'
      /\ Late' = Late /\ Ended' = Ended /\ Failed' = Failed
      /\ UNCHANGED <<scenario, held, pTransport, life, m_Transports, m_MessageQueue,
                     wpc, msg, stop, fault>>
  BY <1>2, AsioFrame DEF flags
<1>6. OneLife' /\ IoShape' /\ ~Reporting'
  BY <1>2, <1>3, <1>5 DEF OneLife, IoShape, Reporting, flags
<1>7. Token'
  BY <1>2, <1>3, <1>4, <1>5, <1>6 DEF Token, OnlyOne
<1>8. Order'
  BY <1>2, <1>3, <1>5 DEF Order, NoneOf, InOrder, Up, flags
<1>9. Phases'
  <2>1. Establishing
    BY <1>3 DEF Establishing
  <2>2. Reading' => Reading
    BY <1>2, <1>3, <1>4, <1>5 DEF Reading, NoneOf
  <2> QED
    BY <1>2, <1>3, <1>5, <2>1, <2>2 DEF Phases, flags
<1>10. Untimed'
  BY <1>2, <1>3, <1>5 DEF Untimed
<1> QED
  BY <1>5, <1>6, <1>7, <1>8, <1>9, <1>10

\* A handler that has built its message.
LEMMA HoldingFields ==
    ASSUME TypeInv, NEW pc, NEW t, NEW type \in MessageType, io' = Holding(pc, t, type)
    PROVE  /\ io'.pc = pc /\ io'.t = t /\ io'.message.type = type
           /\ io'.message # NoMessage /\ io'.message \in Message
BY NewMessageType, MessageTypes DEF Holding

LEMMA ConnectedPatient ==
    ASSUME TypeInv, PatientScript, PatientInv, handleAsyncConnect \/ handleRead
    PROVE  PatientInv'
<1> USE DEF PatientInv
<1> DEFINE t == Head(handlers).t
<1>1. PICK op \in {"connect", "read"}, ok \in BOOLEAN :
         /\ Handle(op, ok)
         /\ \/ op = "connect" /\ ok /\ io' = Holding("connected", t, "onConnect")
            \/ op = "connect" /\ ~ok /\ io' = Holding("connectFailed", t, "onConnectError")
            \/ op = "read" /\ ok /\ io' = Holding("readNext", t, "Read")
            \/ op = "read" /\ ~ok /\ io' = Holding("readFailed", t, "Disconnected")
         /\ handlers' = Tail(handlers) /\ QueueUnchanged
         /\ UNCHANGED <<flags, pending, m_Timer>>
  BY DEF handleAsyncConnect, handleRead, HandlerUnchanged, QueueUnchanged
<1>2. /\ io.pc = "idle" /\ t \in Transport /\ life[t] = "alive" /\ t = pTransport
      /\ \A A : None(handlers, A) => None(handlers', A)
      /\ \A A, B : NoneBehind(handlers, A, B) => NoneBehind(handlers', A, B)
      /\ ~None(handlers, Does({op})) /\ None(handlers', Does(IoOps))
      /\ \A u \in Transport : pending[u] = "none"
      /\ ~Ended
      /\ Head(handlers) \in Handler
      /\ Head(handlers).op = op /\ Head(handlers).ok = ok
      /\ \A A : None(handlers, A) => Head(handlers) \notin A
  BY <1>1, HandlerRuns DEF IoOps
<1>3. /\ io'.t = t /\ io'.message # NoMessage
      /\ \/ /\ op = "connect" /\ ok
            /\ io'.pc = "connected" /\ io'.message.type = "onConnect"
         \/ /\ op = "connect" /\ ~ok
            /\ io'.pc = "connectFailed" /\ io'.message.type = "onConnectError"
         \/ /\ op = "read" /\ io'.pc = "readNext" /\ io'.message.type = "Read"
         \/ /\ op = "read" /\ io'.pc = "readFailed" /\ io'.message.type = "Disconnected"
  <2>1. {"onConnect", "onConnectError", "Read", "Disconnected"} \subseteq MessageType
    BY DEF MessageType, Callback, Event
  <2> QED
    BY <1>1, <2>1, HoldingFields
<1>4. /\ Turns' /\ Telling' /\ Asked' /\ Tidied'
      /\ Late' = Late /\ Ended' = Ended /\ Failed' = Failed
      /\ UNCHANGED <<scenario, held, pTransport, life, m_Transports, m_MessageQueue,
                     wpc, msg, stop, fault>>
  BY <1>1, AsioFrame DEF flags
<1>5. OneLife' /\ IoShape'
  BY <1>1, <1>2, <1>3, <1>4 DEF OneLife, IoShape, flags
<1>6. Reporting'
  BY <1>3 DEF Reporting
<1>7. Token'
  BY <1>1, <1>2, <1>3, <1>4, <1>6 DEF Token, OnlyOne
<1>8. scenario.failures = {} /\ ~Late => io'.pc \notin {"connectFailed", "notConnecting"}
  <2>1. scenario.failures = {} /\ ~Late =>
           None(handlers, {h \in Handler : h.op = "connect" /\ ~h.ok})
    BY DEF Order
  <2>2. op = "connect" /\ ~ok => ~None(handlers, {h \in Handler : h.op = "connect" /\ ~h.ok})
    <3>1. op = "connect" /\ ~ok =>
             Head(handlers) \in {h \in Handler : h.op = "connect" /\ ~h.ok}
      BY <1>2
    <3> QED
      BY <1>2, <3>1
  <2> QED
    BY <1>3, <2>1, <2>2
<1>9. Order'
  BY <1>1, <1>2, <1>4, <1>8 DEF Order, NoneOf, InOrder, Up, flags
<1>10. Phases'
  <2>1. op = "connect" => Establishing
    BY <1>2 DEF Establishing
  <2>2. op = "read" => Reading
    BY <1>2 DEF Reading
  <2>3. Establishing' => Establishing
    BY <1>1, <1>2, <1>3, <1>4, <2>1 DEF Establishing
  <2>4. Reading' => Reading
    BY <1>1, <1>2, <1>3, <1>4, <2>2 DEF Reading, NoneOf
  <2>5. pTransport # NoTransport
    BY <1>2, NoneTransport
  <2>6. ~Failed
    BY <1>2, <2>5 DEF Phases
  <2> QED
    BY <1>1, <1>4, <2>3, <2>4, <2>5, <2>6 DEF Phases, flags
<1>11. Untimed'
  BY <1>1, <1>2, <1>4 DEF Untimed
<1> QED
  BY <1>4, <1>5, <1>7, <1>9, <1>10, <1>11

LEMMA TimeoutPatient ==
    ASSUME TypeInv, PatientScript, PatientInv, handleTimeout
    PROVE  PatientInv'
<1> USE DEF PatientInv
<1> DEFINE t == Head(handlers).t
<1>1. PICK ok \in BOOLEAN :
         /\ Handle("timer", ok)
         /\ io' = IF ok THEN Holding("rearm", t, "onTimeout") ELSE io
         /\ handlers' = Tail(handlers) /\ QueueUnchanged
         /\ UNCHANGED <<flags, pending, m_Timer>>
  BY DEF handleTimeout, HandlerUnchanged, QueueUnchanged
<1>2. /\ io.pc = "idle" /\ t \in Transport /\ life[t] = "alive" /\ t = pTransport
      /\ \A A : None(handlers, A) => None(handlers', A)
      /\ \A A, B : NoneBehind(handlers, A, B) => NoneBehind(handlers', A, B)
  BY <1>1, HandlerRuns
<1>3. \/ io' = io
      \/ io'.t = t /\ io'.pc = "rearm" /\ io'.message.type = "onTimeout"
  <2>1. "onTimeout" \in MessageType
    BY DEF MessageType, Callback
  <2> QED
    BY <1>1, <2>1, HoldingFields
<1>4. /\ Turns' /\ Telling' /\ Asked' /\ Tidied'
      /\ Late' = Late /\ Ended' = Ended /\ Failed' = Failed
      /\ UNCHANGED <<scenario, held, pTransport, life, m_Transports, m_MessageQueue,
                     wpc, msg, stop, fault>>
  BY <1>1, AsioFrame DEF flags
<1>5. OneLife' /\ IoShape' /\ ~Reporting'
  BY <1>1, <1>2, <1>3, <1>4 DEF OneLife, IoShape, Reporting, flags
<1>6. Token'
  BY <1>1, <1>2, <1>3, <1>4, <1>5 DEF Token, OnlyOne, Reporting
<1>7. Order'
  BY <1>1, <1>2, <1>3, <1>4 DEF Order, NoneOf, InOrder, Up, flags
<1>8. Phases'
  BY <1>1, <1>2, <1>3, <1>4 DEF Phases, Establishing, Reading, NoneOf, flags
<1>9. Untimed'
  BY <1>1, <1>2, <1>4 DEF Untimed
<1> QED
  BY <1>4, <1>5, <1>6, <1>7, <1>8, <1>9
\* The handler pushes its message, unless the plugin's worker has gone.
LEMMA PushPatient ==
    ASSUME TypeInv, PatientScript, PatientInv, Push
    PROVE  PatientInv'
<1> USE DEF PatientInv
<1> DEFINE m == io.message
<1>1. /\ m # NoMessage /\ fault = "none" /\ m_MessageQueue' = MessagePlugin(m_MessageQueue, m)
      /\ io' = [io EXCEPT !.message = NoMessage]
      /\ UNCHANGED <<scenario, held, Target, pTransport, life, flags, asio, m_Transports,
                     wpc, msg, stop, over, crossed, fault>>
  BY DEF Push, connection, worker
<1>2. /\ m \in Message /\ io \in IoState
      /\ io'.pc = io.pc /\ io'.t = io.t /\ io'.message = NoMessage
  BY <1>1 DEF TypeInv, IoType, IoState
<1>3. \/ io.pc = "connected" /\ m.type = "onConnect"
      \/ io.pc = "connectFailed" /\ m.type = "onConnectError"
      \/ io.pc = "readNext" /\ m.type = "Read"
      \/ io.pc \in {"notConnecting", "readFailed"} /\ m.type = "Disconnected"
      \/ io.pc = "rearm" /\ m.type = "onTimeout"
  BY <1>1 DEF IoShape
<1>4. Reporting \/ io.pc = "rearm"
  BY <1>1, <1>3 DEF Reporting
<1>5. Reporting =>
         /\ pTransport # NoTransport /\ ~Ended
         /\ \A t \in Transport : pending[t] = "none"
         /\ None(handlers, Does(IoOps)) /\ io.t = pTransport
  <2>1. Reporting => io.t \in Transport
    BY DEF Reporting, TypeInv, IoType
  <2> QED
    BY <2>1, NoneTransport DEF Token
<1>6. \/ stop = "exited" /\ m_MessageQueue' = m_MessageQueue
      \/ stop # "exited" /\ m_MessageQueue' = Append(m_MessageQueue, m)
  BY <1>1 DEF MessagePlugin
<1> DEFINE q == m_MessageQueue'
           type == m.type
           exited == stop = "exited"
<1> HIDE DEF q, m, type, exited
<1>7. /\ \A T : None(q, Of(T)) <=>
            None(m_MessageQueue, Of(T)) /\ (exited \/ type \notin T)
      /\ \A T : type \notin T =>
            (None(q, ToTarget(T)) <=> None(m_MessageQueue, ToTarget(T)))
      /\ \A A, T : NoneBehind(q, A, Of(T)) <=>
            /\ NoneBehind(m_MessageQueue, A, Of(T))
            /\ type \in T /\ ~exited => None(m_MessageQueue, A)
      /\ \A A, T : NoneBehind(m_MessageQueue, A, ToTarget(T))
                      /\ (type \in T => None(m_MessageQueue, A)) =>
            NoneBehind(q, A, ToTarget(T))
  <2> HIDE DEF PatientInv
  <2>1. CASE stop = "exited" /\ m_MessageQueue' = m_MessageQueue
    BY <2>1 DEF q, exited
  <2>2. CASE stop # "exited" /\ m_MessageQueue' = Append(m_MessageQueue, m)
    BY <1>2, <2>2, MessageAppend DEF q, type, exited
  <2> QED
    BY <1>6, <2>1, <2>2
<1>8. \/ io.pc = "connected" /\ type = "onConnect"
      \/ io.pc = "connectFailed" /\ type = "onConnectError"
      \/ io.pc = "readNext" /\ type = "Read"
      \/ io.pc \in {"notConnecting", "readFailed"} /\ type = "Disconnected"
      \/ io.pc = "rearm" /\ type = "onTimeout"
  BY <1>3 DEF type
<1>9. q = m_MessageQueue' /\ (exited <=> stop = "exited")
  BY DEF q, exited
<1>10. exited => m_MessageQueue = << >> /\ q = << >> /\ wpc = "poll"
  BY <1>6, <1>9 DEF Turns
<1>11. OneLife' /\ IoShape'
  BY <1>1, <1>2 DEF OneLife, IoShape, flags, asio
<1>12. /\ Ended' <=> Ended \/ (type = "Disconnected" /\ ~exited)
       /\ Reporting' <=> io.pc \in {"connected", "firstRead", "readNext", "connectFailed"}
  BY <1>2, <1>7, <1>9 DEF Ended, NoneOf, Reporting
<1>13. Token'
  <2>1. OnlyOne("Disconnected")'
    BY <1>4, <1>5, <1>7, <1>8, <1>9 DEF OnlyOne, Token, Ended, NoneOf
  <2> QED
    BY <1>1, <1>2, <1>4, <1>5, <1>8, <1>9, <1>12, <2>1 DEF Token, asio
<1>14. Turns'
  BY <1>1, <1>7, <1>8, <1>9, <1>10 DEF Turns, Closing, Tidying, NoneOf, OnlyOne, InOrder, InCallbackOf
<1>15. Late' = Late
  BY <1>1, <1>7, <1>8, <1>9 DEF Late, NoneOf, InCallbackOf
<1>16. Order'
  <2>1. Reporting => NoneOf({"Connect"})
    BY <1>5 DEF Order
  <2>2. pTransport # NoTransport /\ ~Ended' /\ ~Late' => Up(pTransport)
    BY <1>12, <1>15 DEF Order
  <2>3. NoneOf({"Connect"})' <=> NoneOf({"Connect"})
    BY <1>7, <1>8, <1>9 DEF NoneOf
  <2>4. InOrder({"Disconnected"}, {"Connect"})'
    BY <1>4, <1>7, <1>8, <1>9, <2>1 DEF Order, InOrder, NoneOf
  <2>5. InOrder({"onConnectError"}, {"Connect"})'
    BY <1>4, <1>7, <1>8, <1>9, <2>1 DEF Order, InOrder, NoneOf
  <2> QED
    BY <1>1, <1>2, <1>12, <1>15, <2>2, <2>3, <2>4, <2>5 DEF Order, Up, flags, asio
<1>17. Phases'
  <2>1. Establishing' = Establishing
    BY <1>1, <1>2 DEF Establishing, asio
  <2>2. Reading' => Reading
    BY <1>1, <1>2, <1>7, <1>8, <1>9 DEF Reading, NoneOf, asio
  <2>3. Failed' => Failed \/ io.pc = "connectFailed"
    BY <1>1, <1>7, <1>8, <1>9 DEF Failed, NoneOf, InCallbackOf
  <2>4. io.pc = "connectFailed" => Establishing
    BY DEF Establishing
  <2> QED
    BY <1>1, <1>2, <1>12, <1>15, <2>1, <2>2, <2>3, <2>4 DEF Phases, flags
<1>18. Telling'
  <2>1. Reporting /\ type = "onConnectError" => None(m_MessageQueue, Of({"Read"}))
    <3>1. type = "onConnectError" => Establishing
      BY <1>8 DEF Establishing
    <3> QED
      BY <3>1 DEF Phases, Reading, NoneOf
  <2>2. NoneBehind(q, Told, Data)
    BY <1>7, <1>8 DEF Telling, Told, Data
  <2>3. NoneBehind(q, Of({"Read"}), Told)
    BY <1>4, <1>7, <1>8, <2>1 DEF Telling, Told
  <2>4. InOrder({"Read"}, {"Disconnected"})'
    BY <1>4, <1>5, <1>7, <1>8, <1>9 DEF Telling, InOrder, Ended, NoneOf
  <2>5. over => None(q, Data)
    BY <1>7, <1>8 DEF Telling, Data
  <2> QED
    BY <1>1, <1>9, <2>2, <2>3, <2>4, <2>5 DEF Telling, InCallbackOf, Told, Data
<1>19. Untimed' /\ Tidied'
  <2>1. wpc \in Tidying => ~Reporting /\ Ended
    BY <1>5 DEF Tidied
  <2> QED
    BY <1>1, <1>4, <1>7, <1>8, <1>9, <1>12, <2>1 DEF Untimed, Tidied, NoneOf, asio, flags
<1>20. Asked'
  <2>1. InOrder({"onConnect"}, {"Disconnected"}) =>
           InOrder({"onConnect"}, {"Disconnected"})'
    BY <1>4, <1>5, <1>7, <1>8, <1>9 DEF InOrder, Ended, NoneOf
  <2>2. InOrder({"onConnectError"}, {"Disconnected"}) =>
           InOrder({"onConnectError"}, {"Disconnected"})'
    BY <1>4, <1>5, <1>7, <1>8, <1>9 DEF InOrder, Ended, NoneOf
  <2>3. ~NoneOf({"onConnect"})' \/ ~NoneOf({"onConnectError"})' =>
           \/ ~NoneOf({"onConnect"}) \/ ~NoneOf({"onConnectError"})
           \/ pTransport # NoTransport
    BY <1>4, <1>5, <1>7, <1>8, <1>9 DEF NoneOf
  <2> QED
    BY <1>1, <2>1, <2>2, <2>3 DEF Asked, InCallbackOf
<1> QED
  BY <1>11, <1>13, <1>14, <1>16, <1>17, <1>18, <1>19, <1>20

\* What a read that is started, and a wait, leave in the queue of handlers.
LEMMA StartReadQueued ==
    ASSUME TypeInv, NEW t \in Transport, StartRead(t), None(handlers, Does(IoOps)),
           \A u \in Transport : pending[u] = "none"
    PROVE  /\ \/ /\ pending'[t] = "read" /\ None(handlers', Does(IoOps))
              \/ /\ \A u \in Transport : pending'[u] = "none"
           /\ \A u \in Transport : pending'[u] # "none" => u = t /\ pending'[u] = "read"
           /\ NoneBehind(handlers', Does(IoOps), Does(IoOps))
           /\ None(handlers', Does({"resolve", "connect"}))
           /\ \A A : None(handlers, A) =>
                 \/ None(handlers', A)
                 \/ Aborted(t, "read") \in A
                 \/ m_Timer[t] /\ Aborted(t, "timer") \in A
           /\ m_Timer' = [m_Timer EXCEPT ![t] = scenario.timeout]
<1> DEFINE c == ~(m_Socket[t] = "open")
           a == Aborted(t, "read")
           s == handlers \o (IF c THEN <<a>> ELSE << >>)
<1>1. /\ pending' = [pending EXCEPT ![t] = IF c THEN "none" ELSE "read"]
      /\ m_Timer' = [m_Timer EXCEPT ![t] = scenario.timeout]
      /\ handlers' = s \o TimerAborted(t)
  BY DEF StartRead
<1>2. a \in Handler /\ a.t = t /\ a.op = "read" /\ ~a.ok /\ handlers \in Seq(Handler)
  BY AbortedType, AbortedFields DEF Operation, TypeInv, AsioType
<1> HIDE DEF a, c
<1>3. /\ s \in Seq(Handler)
      /\ \A A : None(s, A) <=> None(handlers, A) /\ (c => a \notin A)
      /\ \A A, B : NoneBehind(s, A, B) <=>
            NoneBehind(handlers, A, B) /\ (c /\ a \in B => None(handlers, A))
  <2>1. CASE c
    <3>1. s = Append(handlers, a)
      BY <1>2, <2>1, AppendIsConcat
    <3>2. /\ Append(handlers, a) \in Seq(Handler)
          /\ \A A : None(Append(handlers, a), A) <=> None(handlers, A) /\ a \notin A
          /\ \A A, B : NoneBehind(Append(handlers, a), A, B) <=>
                NoneBehind(handlers, A, B) /\ (a \in B => None(handlers, A))
      BY <1>2, QueueAppend
    <3> QED
      BY <2>1, <3>1, <3>2
  <2>2. CASE ~c
    BY <1>2, <2>2, ConcatEmptySeq
  <2> QED
    BY <2>1, <2>2
<1> HIDE DEF s
<1>4. /\ \A A : None(handlers', A) <=>
            None(s, A) /\ (m_Timer[t] => Aborted(t, "timer") \notin A)
      /\ \A A, B : NoneBehind(handlers', A, B) <=>
            /\ NoneBehind(s, A, B)
            /\ m_Timer[t] /\ Aborted(t, "timer") \in B => None(s, A)
  <2>1. /\ \A A : None(s \o TimerAborted(t), A) <=>
              None(s, A) /\ (m_Timer[t] => Aborted(t, "timer") \notin A)
        /\ \A A, B : NoneBehind(s \o TimerAborted(t), A, B) <=>
              /\ NoneBehind(s, A, B)
              /\ m_Timer[t] /\ Aborted(t, "timer") \in B => None(s, A)
    BY <1>3, TimerQueued
  <2> QED
    BY <1>1, <2>1
<1>5. NoneBehind(handlers, Does(IoOps), Does(IoOps)) /\ None(handlers, Does({"resolve", "connect"}))
  BY DEF None, NoneBehind, Does, IoOps
<1>6. Aborted(t, "timer") \notin Does(IoOps) /\ Aborted(t, "timer") \notin Does({"resolve", "connect"})
      /\ a \notin Does({"resolve", "connect"})
  BY <1>2, AbortedFields DEF Does
<1>7. NoneBehind(handlers', Does(IoOps), Does(IoOps)) /\ None(handlers', Does({"resolve", "connect"}))
  BY <1>3, <1>4, <1>5, <1>6
<1>8. ~c => None(handlers', Does(IoOps))
  BY <1>3, <1>4, <1>6
<1>9. /\ \A u \in Transport : u # t => pending'[u] = "none"
      /\ pending'[t] = IF c THEN "none" ELSE "read"
  BY <1>1 DEF TypeInv, AsioType
<1>10. \A A : None(handlers, A) =>
          \/ None(handlers', A) \/ a \in A
          \/ (m_Timer[t] /\ Aborted(t, "timer") \in A)
  BY <1>3, <1>4
<1> QED
  BY <1>1, <1>7, <1>8, <1>9, <1>10 DEF a
\* The rest of a handler: its transport is the connection's.
LEMMA ResumesPatient ==
    ASSUME TypeInv, PatientInv, NEW pc, Resumes(pc), pc # "idle"
    PROVE  /\ io.pc = pc /\ fault = "none" /\ io.message = NoMessage
           /\ io.t = pTransport /\ pTransport \in Transport /\ pTransport # NoTransport
BY NoneTransport DEF Resumes, IoAt, PatientInv, OneLife, TypeInv, IoType

\* The transport is connected, and is not read from yet.
LEMMA SetConnectedPatient ==
    ASSUME TypeInv, PatientScript, PatientInv, SetConnected
    PROVE  PatientInv'
<1> USE DEF PatientInv
<1> DEFINE t == pTransport
<1>1. /\ io.pc = "connected" /\ io.message = NoMessage
      /\ io.t = t /\ t \in Transport /\ t # NoTransport
  BY ResumesPatient DEF SetConnected
<1>2. /\ m_bConnected' = [m_bConnected EXCEPT ![t] = TRUE]
      /\ io' = [io EXCEPT !.pc = "firstRead"]
      /\ QueueUnchanged /\ UNCHANGED <<m_bConnecting, asio>>
  BY <1>1 DEF SetConnected, HandlerUnchanged, QueueUnchanged
<1>3. io'.pc = "firstRead" /\ io'.t = t /\ io'.message = NoMessage
  BY <1>1, <1>2 DEF TypeInv, IoType
<1>4. /\ Reporting /\ Reporting' /\ ~Ended /\ None(handlers, Does(IoOps))
      /\ \A u \in Transport : pending[u] = "none"
  BY <1>1, <1>3 DEF Reporting, Token
<1>5. m_bConnected'[t] /\ \A u \in Transport : u # t => m_bConnected'[u] = m_bConnected[u]
  BY <1>1, <1>2 DEF TypeInv, FlagsType
<1>6. /\ Turns' /\ Telling' /\ Asked' /\ Tidied'
      /\ Late' = Late /\ Ended' = Ended /\ Failed' = Failed
      /\ UNCHANGED <<scenario, held, pTransport, life, m_Transports, m_MessageQueue,
                     wpc, msg, stop, fault>>
  BY <1>2, <1>4, AsioFrame
<1>7. OneLife' /\ IoShape'
  BY <1>1, <1>2, <1>3, <1>5, <1>6 DEF OneLife, IoShape, asio
<1>8. Token'
  BY <1>1, <1>2, <1>3, <1>4, <1>6 DEF Token, OnlyOne, asio
<1>9. Order'
  BY <1>1, <1>2, <1>3, <1>5, <1>6 DEF Order, NoneOf, InOrder, Up, asio
<1>10. Phases'
  <2>1. ~Failed
    BY <1>1, <1>4 DEF Phases
  <2>2. None(handlers, Does({"resolve"})) /\ None(handlers, Does({"connect"}))
    BY <1>4 DEF None, Does, IoOps
  <2>3. ~Establishing'
    BY <1>1, <1>2, <1>3, <1>4, <1>6, <2>2 DEF Establishing, asio
  <2> QED
    BY <1>1, <1>5, <1>6, <2>1, <2>3 DEF Phases
<1>11. Untimed'
  BY <1>2, <1>6 DEF Untimed, asio
<1> QED
  BY <1>6, <1>7, <1>8, <1>9, <1>10, <1>11

\* The connect has ended, and the transport is read from.
LEMMA ClearConnectingPatient ==
    ASSUME TypeInv, PatientScript, PatientInv, ClearConnecting
    PROVE  PatientInv'
<1> USE DEF PatientInv
<1> DEFINE t == pTransport
<1>1. /\ io.pc = "connectEnds" /\ io.message = NoMessage
      /\ io.t = t /\ t \in Transport /\ t # NoTransport
  BY ResumesPatient DEF ClearConnecting
<1>2. /\ m_bConnecting' = [m_bConnecting EXCEPT ![t] = FALSE] /\ io' = Idle
      /\ QueueUnchanged /\ UNCHANGED <<m_bConnected, asio>>
  BY <1>1 DEF ClearConnecting, HandlerUnchanged, QueueUnchanged
<1>3. io'.pc = "idle" /\ IoShape' /\ ~Reporting /\ ~Reporting' /\ ~Ended
  BY <1>1, <1>2 DEF Idle, IoShape, Reporting, Token
<1>4. m_bConnected[t] \/ Late
  BY <1>1 DEF Phases, Reading
<1>5. \A u \in Transport : u # t => m_bConnecting'[u] = m_bConnecting[u]
  BY <1>1, <1>2 DEF TypeInv, FlagsType
<1>6. /\ Turns' /\ Telling' /\ Asked' /\ Tidied'
      /\ Late' = Late /\ Ended' = Ended /\ Failed' = Failed
      /\ UNCHANGED <<scenario, held, pTransport, life, m_Transports, m_MessageQueue,
                     wpc, msg, stop, fault>>
  BY <1>2, <1>3, AsioFrame
<1>7. OneLife'
  BY <1>1, <1>2, <1>3, <1>5, <1>6 DEF OneLife, asio
<1>8. Token'
  BY <1>1, <1>2, <1>3, <1>6 DEF Token, OnlyOne, asio
<1>9. Order'
  BY <1>1, <1>2, <1>3, <1>4, <1>6 DEF Order, NoneOf, InOrder, Up, asio
<1>10. Phases'
  <2>1. Establishing' => Establishing
    BY <1>2, <1>3, <1>6 DEF Establishing, asio
  <2>2. Reading' => Reading
    BY <1>2, <1>3, <1>6 DEF Reading, NoneOf, asio
  <2>3. ~Failed
    BY <1>1, <1>3 DEF Phases
  <2> QED
    BY <1>2, <1>6, <2>1, <2>2, <2>3 DEF Phases
<1>11. Untimed'
  BY <1>2, <1>6 DEF Untimed, asio
<1> QED
  BY <1>3, <1>6, <1>7, <1>8, <1>9, <1>10, <1>11

\* The transport is read from: the first time, or again.
LEMMA ReadingPatient ==
    ASSUME TypeInv, PatientScript, PatientInv, FirstRead \/ ReadNext
    PROVE  PatientInv'
<1> USE DEF PatientInv
<1> DEFINE t == pTransport
<1>1. /\ io.pc \in {"firstRead", "readNext"} /\ io.message = NoMessage
      /\ io.t = t /\ t \in Transport /\ t # NoTransport
      /\ FirstRead <=> io.pc = "firstRead"
  BY ResumesPatient DEF FirstRead, ReadNext, Resumes, IoAt
<1>2. /\ StartRead(t) /\ QueueUnchanged /\ UNCHANGED flags
      /\ io' = IF io.pc = "firstRead" THEN [io EXCEPT !.pc = "connectEnds"] ELSE Idle
  BY <1>1 DEF FirstRead, ReadNext, Resumes, IoAt, HandlerUnchanged, QueueUnchanged
<1>3. /\ Reporting /\ ~Ended /\ None(handlers, Does(IoOps))
      /\ \A u \in Transport : pending[u] = "none"
  BY <1>1 DEF Reporting, Token
<1>4. /\ \/ /\ pending'[t] = "read" /\ None(handlers', Does(IoOps))
         \/ /\ \A u \in Transport : pending'[u] = "none"
      /\ \A u \in Transport : pending'[u] # "none" => u = t /\ pending'[u] = "read"
      /\ NoneBehind(handlers', Does(IoOps), Does(IoOps))
      /\ None(handlers', Does({"resolve", "connect"}))
      /\ \A A : None(handlers, A) =>
            \/ None(handlers', A)
            \/ Aborted(t, "read") \in A
            \/ (m_Timer[t] /\ Aborted(t, "timer") \in A)
      /\ m_Timer' = [m_Timer EXCEPT ![t] = scenario.timeout]
  BY <1>1, <1>2, <1>3, StartReadQueued
<1>5. /\ Aborted(t, "read").t = t /\ Aborted(t, "read").op = "read"
      /\ Aborted(t, "timer").t = t /\ Aborted(t, "timer").op = "timer"
  BY AbortedFields
<1>6. /\ Turns' /\ Telling' /\ Asked' /\ Tidied'
      /\ Late' = Late /\ Ended' = Ended /\ Failed' = Failed
      /\ UNCHANGED <<scenario, held, pTransport, life, m_Transports, m_MessageQueue,
                     wpc, msg, stop, fault>>
  BY <1>2, AsioFrame DEF flags
<1>7. /\ IoShape' /\ ~Reporting' /\ io'.pc \in {"idle", "connectEnds"}
      /\ io'.pc = "connectEnds" => io'.t = t
  BY <1>1, <1>2 DEF Idle, IoShape, Reporting, TypeInv, IoType
<1>9. \A u \in Transport : u # t => m_Timer'[u] = m_Timer[u]
  BY <1>1, <1>4 DEF TypeInv, AsioType
<1>10. OneLife'
  <2>1. None(handlers', {h \in Handler : life[h.t] = "unborn"})
    <3>1. life[t] # "unborn"
      BY <1>1 DEF OneLife
    <3> QED
      BY <1>4, <1>5, <3>1 DEF OneLife
  <2> QED
    BY <1>1, <1>2, <1>6, <1>7, <1>9, <2>1 DEF OneLife, flags
<1>11. Token'
  <2>1. /\ None(handlers', {h \in Handler : h.op \in IoOps /\ h.t # t})
        /\ None(handlers', {h \in Handler : h.op = "resolve" /\ ~h.ok})
    BY <1>4, <1>5 DEF Token
  <2>2. OnlyOne("Disconnected")'
    BY <1>6 DEF Token, OnlyOne
  <2>3. \A u \in Transport : pending'[u] # "none" => u = t /\ None(handlers', Does(IoOps))
    BY <1>4
  <2> QED
    BY <1>1, <1>3, <1>4, <1>6, <1>7, <2>1, <2>2, <2>3 DEF Token
<1>12. Order'
  <2>1. Up(t) => Up(t)'
    BY <1>2, <1>6 DEF Up, flags
  <2>2. None(handlers, {h \in Handler : h.op = "connect" /\ ~h.ok}) =>
           None(handlers', {h \in Handler : h.op = "connect" /\ ~h.ok})
    BY <1>4, <1>5
  <2> QED
    BY <1>6, <1>7, <2>1, <2>2 DEF Order, NoneOf, InOrder
<1>13. Phases'
  <2>1. ~Failed
    BY <1>1, <1>3 DEF Phases
  <2>2. None(handlers', Does({"resolve"})) /\ None(handlers', Does({"connect"}))
    BY <1>4 DEF None, Does
  <2>3. ~Establishing'
    BY <1>1, <1>4, <1>6, <1>7, <2>2 DEF Establishing
  <2>4. m_bConnected[t] \/ Late
    BY <1>1 DEF Phases, Reading
  <2> QED
    BY <1>1, <1>2, <1>6, <2>1, <2>3, <2>4 DEF Phases, flags
<1>14. Untimed'
  <2>1. ~scenario.timeout =>
           ~m_Timer[t] /\ None(handlers', Does({"timer"}))
    BY <1>1, <1>4, <1>5 DEF Untimed, Does
  <2>2. ~scenario.timeout => \A u \in Transport : ~m_Timer'[u]
    BY <1>4, <1>9 DEF Untimed, TypeInv, AsioType
  <2> QED
    BY <1>6, <2>1, <2>2 DEF Untimed
<1> QED
  BY <1>6, <1>7, <1>10, <1>11, <1>12, <1>13, <1>14

\* The wait is started again.
LEMMA RearmPatient ==
    ASSUME TypeInv, PatientScript, PatientInv, Rearm
    PROVE  PatientInv'
<1> USE DEF PatientInv
<1> DEFINE t == pTransport
<1>1. /\ io.pc = "rearm" /\ io.message = NoMessage /\ io.t = t
      /\ t \in Transport /\ t # NoTransport
  BY ResumesPatient DEF Rearm
<1>2. /\ m_Timer' = [m_Timer EXCEPT ![t] = scenario.timeout]
      /\ handlers' = handlers \o TimerAborted(t)
      /\ io' = Idle /\ QueueUnchanged /\ UNCHANGED <<flags, pending>>
  BY <1>1 DEF Rearm, HandlerUnchanged, QueueUnchanged
<1>3. /\ \A A : None(handlers', A) <=>
            None(handlers, A) /\ (m_Timer[t] => Aborted(t, "timer") \notin A)
      /\ \A A, B : NoneBehind(handlers', A, B) <=>
            /\ NoneBehind(handlers, A, B)
            /\ m_Timer[t] /\ Aborted(t, "timer") \in B => None(handlers, A)
  <2>1. handlers \in Seq(Handler)
    BY DEF TypeInv, AsioType
  <2>2. /\ \A A : None(handlers \o TimerAborted(t), A) <=>
              None(handlers, A) /\ (m_Timer[t] => Aborted(t, "timer") \notin A)
        /\ \A A, B : NoneBehind(handlers \o TimerAborted(t), A, B) <=>
              /\ NoneBehind(handlers, A, B)
              /\ m_Timer[t] /\ Aborted(t, "timer") \in B => None(handlers, A)
    BY <1>1, <2>1, TimerQueued
  <2> QED
    BY <1>2, <2>2
<1>4. /\ Aborted(t, "timer").t = t /\ Aborted(t, "timer").op = "timer"
      /\ \A O : "timer" \notin O => Aborted(t, "timer") \notin Does(O)
      /\ "timer" \notin IoOps
  BY AbortedFields DEF Does, IoOps
<1>5. /\ Turns' /\ Telling' /\ Asked' /\ Tidied'
      /\ Late' = Late /\ Ended' = Ended /\ Failed' = Failed
      /\ UNCHANGED <<scenario, held, pTransport, life, m_Transports, m_MessageQueue,
                     wpc, msg, stop, fault>>
  BY <1>2, AsioFrame DEF flags
<1>6. IoShape' /\ ~Reporting /\ ~Reporting' /\ io'.pc = "idle"
  BY <1>1, <1>2 DEF Idle, IoShape, Reporting
<1>7. \A u \in Transport : u # t => m_Timer'[u] = m_Timer[u]
  BY <1>1, <1>2 DEF TypeInv, AsioType
<1>8. OneLife'
  <2>1. None(handlers', {h \in Handler : life[h.t] = "unborn"})
    BY <1>1, <1>3, <1>4 DEF OneLife
  <2> QED
    BY <1>1, <1>2, <1>5, <1>6, <1>7, <2>1 DEF OneLife, flags
<1>9. Token'
  <2>1. /\ None(handlers', {h \in Handler : h.op \in IoOps /\ h.t # t})
        /\ None(handlers', {h \in Handler : h.op = "resolve" /\ ~h.ok})
    BY <1>3, <1>4 DEF Token
  <2>2. OnlyOne("Disconnected")'
    BY <1>5 DEF Token, OnlyOne
  <2>3. /\ None(handlers', Does(IoOps)) <=> None(handlers, Does(IoOps))
        /\ NoneBehind(handlers', Does(IoOps), Does(IoOps))
    BY <1>3, <1>4 DEF Token
  <2> QED
    BY <1>2, <1>5, <1>6, <2>1, <2>2, <2>3 DEF Token
<1>10. Order'
  <2>1. None(handlers, {h \in Handler : h.op = "connect" /\ ~h.ok}) =>
           None(handlers', {h \in Handler : h.op = "connect" /\ ~h.ok})
    BY <1>3, <1>4
  <2> QED
    BY <1>2, <1>5, <1>6, <2>1 DEF Order, NoneOf, InOrder, Up, flags
<1>11. Phases'
  <2>1. \A O : "timer" \notin O => (None(handlers', Does(O)) <=> None(handlers, Does(O)))
    BY <1>3, <1>4
  <2>2. Establishing' => Establishing
    BY <1>2, <1>5, <1>6, <2>1 DEF Establishing
  <2>3. Reading' => Reading
    BY <1>2, <1>5, <1>6, <2>1 DEF Reading, NoneOf
  <2>4. Failed /\ io.pc \in {"connectFailed", "notConnecting"} =>
           io'.pc \in {"connectFailed", "notConnecting"}
    BY <1>1
  <2> QED
    BY <1>1, <1>2, <1>5, <2>2, <2>3, <2>4 DEF Phases, flags
<1>12. Untimed'
  <2>1. ~scenario.timeout => ~m_Timer[t] /\ None(handlers', Does({"timer"}))
    BY <1>1, <1>3 DEF Untimed
  <2>2. ~scenario.timeout => \A u \in Transport : ~m_Timer'[u]
    BY <1>2, <1>7 DEF Untimed, TypeInv, AsioType
  <2> QED
    BY <1>5, <2>1, <2>2 DEF Untimed
<1> QED
  BY <1>5, <1>6, <1>8, <1>9, <1>10, <1>11, <1>12

\* A connect that failed: the second message, and the flags.
LEMMA ReportPatient ==
    ASSUME TypeInv, PatientScript, PatientInv, Report \/ SetFlag \/ EndHandler
    PROVE  PatientInv'
<1> USE DEF PatientInv
<1> DEFINE t == pTransport
<1>1. ~EndHandler /\ ~Resumes("resolveFailed")
  BY DEF EndHandler, Resumes, IoAt, IoShape
<1>2. CASE Report
  <2>1. io.pc = "connectFailed" /\ io.message = NoMessage /\ io.t = t
        /\ t \in Transport /\ t # NoTransport
    BY <1>1, <1>2, ResumesPatient DEF Report
  <2>2. /\ io' = Holding("notConnecting", t, "Disconnected")
        /\ m_bConnected' = [m_bConnected EXCEPT ![t] = FALSE]
        /\ QueueUnchanged /\ UNCHANGED <<m_bConnecting, m_bDisconnectQueued, asio>>
    BY <1>2, <2>1 DEF Report, HandlerUnchanged, QueueUnchanged
  <2>3. /\ io'.pc = "notConnecting" /\ io'.t = t /\ io'.message.type = "Disconnected"
        /\ io'.message # NoMessage
    BY <2>2, HoldingFields DEF MessageType, Event
  <2>5. Establishing /\ Reporting /\ Reporting' /\ ~m_bConnected[t] /\ ~Ended
    BY <2>1, <2>3 DEF Establishing, Reporting, Phases, Token
  <2>4. /\ Turns' /\ Telling' /\ Asked' /\ Tidied'
        /\ Late' = Late /\ Ended' = Ended /\ Failed' = Failed
        /\ UNCHANGED <<scenario, held, pTransport, life, m_Transports, m_MessageQueue,
                       wpc, msg, stop, fault>>
    BY <2>2, <2>5, AsioFrame
  <2>6. \A u \in Transport : m_bConnected'[u] = m_bConnected[u]
    BY <2>1, <2>2, <2>5 DEF TypeInv, FlagsType
  <2>7. OneLife' /\ IoShape'
    BY <2>1, <2>2, <2>3, <2>4, <2>6 DEF OneLife, IoShape, asio
  <2>8. Token'
    BY <2>1, <2>2, <2>3, <2>4, <2>5 DEF Token, OnlyOne, asio
  <2>9. Order'
    BY <2>1, <2>2, <2>3, <2>4, <2>6 DEF Order, NoneOf, InOrder, Up, asio
  <2>10. Phases'
    <3>1. Reading' => Reading
      BY <2>2, <2>3, <2>4 DEF Reading, NoneOf, asio
    <3>2. ~Reading
      BY <2>5 DEF Phases
    <3> QED
      BY <2>1, <2>3, <2>4, <2>5, <2>6, <3>1, <3>2 DEF Phases
  <2>11. Untimed'
    BY <2>2, <2>4 DEF Untimed, asio
  <2> QED
    BY <2>4, <2>7, <2>8, <2>9, <2>10, <2>11
<1>3. CASE SetFlag
  <2>1. io.pc \in {"notConnecting", "readFailed"} /\ io.message = NoMessage /\ io.t = t
        /\ t \in Transport /\ t # NoTransport
    BY <1>3, ResumesPatient DEF SetFlag
  <2>2. /\ m_bConnecting' = [m_bConnecting EXCEPT ![t] = @ /\ io.pc = "readFailed"]
        /\ io' = Idle
        /\ QueueUnchanged /\ UNCHANGED <<m_bConnected, asio>>
    BY <1>3, <2>1 DEF SetFlag, HandlerUnchanged, QueueUnchanged
  <2>3. io'.pc = "idle" /\ IoShape' /\ ~Reporting' /\ ~Reporting
    BY <2>1, <2>2 DEF Idle, IoShape, Reporting
  <2>4. Ended \/ stop = "exited"
    BY <2>1, <2>3 DEF Token
  <2>5. /\ Turns' /\ Telling' /\ Asked'
        /\ Late' = Late /\ Ended' = Ended /\ Failed' = Failed
        /\ UNCHANGED <<scenario, held, pTransport, life, m_Transports, m_MessageQueue,
                       wpc, msg, stop, fault>>
    BY <2>2, AsioFrame DEF flags
  <2>6. \A u \in Transport : m_bConnecting'[u] => m_bConnecting[u]
    BY <2>1, <2>2 DEF TypeInv, FlagsType
  <2>7. OneLife'
    BY <2>2, <2>3, <2>5, <2>6 DEF OneLife, asio
  <2>8. Token'
    BY <2>2, <2>3, <2>5 DEF Token, OnlyOne, asio
  <2>9. stop = "exited" => Late /\ ~Failed
    BY EmptyQueue DEF Turns, Closing, Tidying, Late, Failed, NoneOf, InCallbackOf
  <2>10. Order'
    <3>1. io.pc = "readFailed" => (Up(t)' <=> Up(t))
      BY <2>1, <2>2, <2>5 DEF Up, TypeInv, FlagsType
    <3>2. scenario.failures = {} /\ ~Late => io.pc # "notConnecting"
      BY DEF Order
    <3> QED
      BY <2>1, <2>2, <2>3, <2>4, <2>5, <2>9, <3>1, <3>2 DEF Order, NoneOf, InOrder, asio
  <2>11. Phases'
    <3>1. Reading' => Reading
      BY <2>2, <2>3, <2>5 DEF Reading, NoneOf, asio
    <3>2. Establishing' => Establishing
      BY <2>2, <2>3, <2>5 DEF Establishing, asio
    <3> QED
      BY <2>2, <2>4, <2>5, <2>9, <3>1, <3>2 DEF Phases
  <2>12. Untimed' /\ Tidied'
    BY <2>1, <2>2, <2>5, <2>6 DEF Untimed, Tidied, NoneOf, asio
  <2> QED
    BY <2>3, <2>5, <2>7, <2>8, <2>10, <2>11, <2>12
<1> QED
  BY <1>1, <1>2, <1>3

-----------------------------------------------------------------------------
(* A patient script whose Disconnect has crossed the end of a connect. The  *)
(* plugin is stopping: the transport is deleted, and there is no other.     *)

CrossedQueue ==
    /\ stop \in {"handled", "exited"}
    /\ NoneOf({"Connect", "Disconnect", "onHeartbeat", "onConnectError", "onStop"})
    /\ ~InCallbackOf({"onHeartbeat", "onConnectError", "onStop"})
    /\ wpc \notin {"connecting", "isConnecting"}
    /\ wpc \in Tidying \/ pTransport = NoTransport
    /\ \A t \in Transport : life[t] = "alive" => t = pTransport
    /\ over /\ Target => InCallbackOf({"onDisconnect"})
    /\ over => None(m_MessageQueue, Data)
    /\ InCallbackOf({"onMessage"}) => ~over
    /\ NoneBehind(m_MessageQueue, Told, Data)
    /\ NoneBehind(m_MessageQueue, Of({"Read"}), Told)

CrossedIo ==
    /\ \A t \in Transport : pending[t] \in {"none", "read"}
    /\ None(handlers, Does({"resolve", "connect"}))
    /\ io.pc \notin {"connectFailed", "resolveFailed"}
    /\ io.message.type \in {"none", "onConnect", "Read", "Disconnected", "onTimeout"}

CrossedInv == CrossedQueue /\ CrossedIo

\* The worker has found the transport that has come up neither connected nor
\* connecting: no Connect is queued behind it, and it has not failed.
LEMMA CrossingPatient ==
    ASSUME TypeInv, PatientScript, PatientInv, AskIsConnecting, ~crossed, crossed'
    PROVE  CrossedInv'
<1> USE DEF PatientInv
<1>1. /\ wpc = "isConnecting" /\ wpc' = "tidyUp" /\ IsConnected
      /\ UNCHANGED <<scenario, held, Target, pTransport, life, flags, asio, io,
                     m_Transports, m_MessageQueue, msg, stop, over, fault>>
  BY DEF AskIsConnecting, WorkerAt, connection
<1>2. /\ pTransport \in Transport /\ pTransport # NoTransport /\ m_bConnected[pTransport]
      /\ stop = "handled" /\ NoneOf({"Disconnect"}) /\ NoneOf({"onHeartbeat"})
      /\ NoneOf({"onStop"}) /\ NoneOf({"Connect"})
  BY <1>1 DEF Turns, Tidied, Closing, IsConnected, TypeInv, ConnectionType
<1>3. ~Failed /\ ~Establishing
  BY <1>2 DEF Phases
<1>4. NoneOf({"Connect", "Disconnect", "onHeartbeat", "onConnectError", "onStop"})
  BY <1>2, <1>3 DEF NoneOf, None, Of, Failed
<1>5. CrossedQueue'
  BY <1>1, <1>2, <1>4 DEF CrossedQueue, Tidying, NoneOf, InCallbackOf, OneLife, Telling
<1>6. CrossedIo'
  <2>1. \A t \in Transport : pending[t] \in {"none", "read"}
    BY <1>2, <1>3 DEF Token, Establishing, TypeInv, AsioType
  <2>2. None(handlers, Does({"resolve", "connect"})) /\ io.pc # "connectFailed"
    BY <1>3 DEF Establishing, None, Does
  <2>3. io.message.type \in {"none", "onConnect", "Read", "Disconnected", "onTimeout"}
    BY <2>2 DEF IoShape, NoMessage
  <2> QED
    BY <1>1, <2>1, <2>2, <2>3 DEF CrossedIo, IoShape, asio
<1> QED
  BY <1>5, <1>6 DEF CrossedInv

\* The process dies, or nothing happens.
LEMMA CrossedStutters ==
    ASSUME CrossedInv,
           UNCHANGED <<pTransport, Target, life, asio, io, m_MessageQueue, wpc, msg, stop, over>>
    PROVE  CrossedInv'
BY DEF CrossedInv, CrossedQueue, CrossedIo, NoneOf, InCallbackOf, asio

\* The worker's steps on the queue.
LEMMA CrossedTurns ==
    ASSUME TypeInv, PatientScript, CrossedInv,
           RunCallback \/ ConnectionRead \/ DisconnectEvent
    PROVE  CrossedInv'
<1> USE DEF CrossedInv
<1>1. PICK type : HeadIs(type) /\ \/ RunCallback /\ type \in Callback
                                  \/ ConnectionRead /\ type = "Read"
                                  \/ DisconnectEvent /\ type = "Disconnected"
  BY DEF RunCallback, ConnectionRead, DisconnectEvent
<1>2. wpc = "poll" /\ pTransport = NoTransport /\ ~(over /\ Target)
  BY <1>1 DEF CrossedQueue, HeadIs, WorkerAt, Tidying, InCallbackOf
<1> DEFINE h == Head(m_MessageQueue)
           r == Tail(m_MessageQueue)
<1>3. h \in Message /\ h.type = type
  BY <1>1, PollType DEF HeadIs, WorkerAt
<1>4. /\ \A T : None(m_MessageQueue, Of(T)) <=> type \notin T /\ None(r, Of(T))
      /\ \A T : None(m_MessageQueue, ToTarget(T)) <=>
            ~(type \in T /\ h.target) /\ None(r, ToTarget(T))
      /\ \A T, B : NoneBehind(m_MessageQueue, Of(T), B) <=>
            NoneBehind(r, Of(T), B) /\ (type \in T => None(r, B))
      /\ \A T, B : NoneBehind(m_MessageQueue, ToTarget(T), B) <=>
            NoneBehind(r, ToTarget(T), B) /\ (type \in T /\ h.target => None(r, B))
  BY <1>1, MessageTail DEF HeadIs
<1> HIDE DEF h, r
<1>5. CASE RunCallback
  <2>1. /\ m_MessageQueue' = r /\ msg' = h /\ type \in Callback
        /\ wpc' = IF h.target \/ type = "onHeartbeat" THEN "callback" ELSE "done"
        /\ over' = (over \/ (type \in {"onDisconnect", "onConnectError"} /\ h.target))
        /\ UNCHANGED <<Target, pTransport, life, asio, io, stop>>
    <3>1. PICK y \in Callback :
             /\ HeadIs(y) /\ msg' = h /\ m_MessageQueue' = r
             /\ wpc' = IF msg'.target \/ y = "onHeartbeat" THEN "callback" ELSE "done"
             /\ over' = (over \/ (y \in {"onDisconnect", "onConnectError"} /\ msg'.target))
             /\ UNCHANGED <<connection, life, asio, io, stop>>
      BY <1>5 DEF RunCallback, h, r
    <3>2. y = type
      BY <1>3, <3>1 DEF HeadIs, h
    <3> QED
      BY <3>1, <3>2 DEF connection
  <2>4. type \notin {"onHeartbeat", "onConnectError", "onStop"} /\ r = m_MessageQueue'
    BY <1>4, <2>1 DEF CrossedQueue, NoneOf
  <2>5. over' => None(r, Data)
    BY <1>4, <2>1 DEF CrossedQueue, Told, Data
  <2>6. over' /\ Target' => InCallbackOf({"onDisconnect"})'
    BY <1>2, <1>3, <2>1, <2>4 DEF InCallbackOf
  <2>7. InCallbackOf({"onMessage"})' => ~over'
    BY <1>3, <1>4, <2>1, <2>4 DEF CrossedQueue, InCallbackOf, Data
  <2>8. NoneBehind(r, Told, Data) /\ NoneBehind(r, Of({"Read"}), Told)
    BY <1>4 DEF CrossedQueue, Told
  <2>9. NoneOf({"Connect", "Disconnect", "onHeartbeat", "onConnectError", "onStop"})'
    BY <1>4, <2>4 DEF CrossedQueue, NoneOf
  <2>10. ~InCallbackOf({"onHeartbeat", "onConnectError", "onStop"})'
    BY <1>3, <2>1, <2>4 DEF InCallbackOf
  <2>2. CrossedQueue'
    BY <1>2, <2>1, <2>4, <2>5, <2>6, <2>7, <2>8, <2>9, <2>10 DEF CrossedQueue
  <2>3. CrossedIo'
    BY <2>1 DEF CrossedIo, asio
  <2> QED
    BY <2>2, <2>3
<1>6. CASE ConnectionRead
  <2>1. CASE Dies("null Target")
    BY <2>1, CrossedStutters DEF Dies, connection, worker
  <2>2. CASE ~Dies("null Target")
    <3> DEFINE m == NewMessage("onMessage")
    <3>1. /\ type = "Read" /\ Target /\ wpc' = "done"
          /\ m_MessageQueue' = MessagePlugin(r, m)
          /\ UNCHANGED <<Target, pTransport, life, asio, io, stop, over>>
      BY <1>3, <1>6, <2>2 DEF ConnectionRead, HeadIs, connection, h, r
    <3>2. m \in Message /\ m.type = "onMessage"
      BY NewMessageType, MessageTypes DEF Callback
    <3>3. r \in Seq(Message) /\ stop # "exited"
      BY <1>1, PollType DEF HeadIs, WorkerAt, r
    <3> HIDE DEF m
    <3>4. m_MessageQueue' = Append(r, m)
      BY <3>1, <3>3 DEF MessagePlugin
    <3>5. /\ \A A : None(m_MessageQueue', A) <=> None(r, A) /\ m \notin A
          /\ \A A, B : NoneBehind(m_MessageQueue', A, B) <=>
                NoneBehind(r, A, B) /\ (m \in B => None(r, A))
      BY <3>2, <3>3, <3>4, QueueAppend
    <3>6. /\ m \notin Of({"Connect", "Disconnect", "onHeartbeat", "onConnectError", "onStop"})
          /\ m \notin Told
      BY <3>2 DEF Of, Told, ToTarget
    <3>7. ~over /\ None(r, Told)
      BY <1>2, <1>4, <3>1 DEF CrossedQueue
    <3>8. /\ NoneBehind(r, Told, Data) /\ NoneBehind(r, Of({"Read"}), Told)
          /\ None(r, Of({"Connect", "Disconnect", "onHeartbeat", "onConnectError", "onStop"}))
      BY <1>4 DEF CrossedQueue, NoneOf, Told
    <3>9. CrossedQueue'
      BY <1>2, <3>1, <3>5, <3>6, <3>7, <3>8 DEF CrossedQueue, NoneOf, InCallbackOf
    <3> QED
      BY <3>1, <3>9 DEF CrossedIo, asio
  <2> QED
    BY <2>1, <2>2
<1>7. CASE DisconnectEvent
  <2>1. /\ m_MessageQueue' = r /\ wpc' = "done"
        /\ UNCHANGED <<Target, pTransport, life, asio, io, stop, over>>
    BY <1>2, <1>7 DEF DisconnectEvent, asio, r
  <2>2. CrossedQueue'
    BY <1>2, <1>4, <2>1 DEF CrossedQueue, NoneOf, InCallbackOf, Told, Data
  <2> QED
    BY <2>1, <2>2 DEF CrossedIo, asio
<1> QED
  BY <1>1, <1>5, <1>6, <1>7

\* Its other steps: a callback returns, and the transport is deleted.
LEMMA CrossedWorker ==
    ASSUME TypeInv, PatientScript, CrossedInv, Worker
    PROVE  CrossedInv'
<1> USE DEF CrossedInv
<1>1. ASSUME NEW type \in {"Connect", "Disconnect"}, HeadIs(type) PROVE FALSE
  BY <1>1, MessageTail DEF HeadIs, CrossedQueue, NoneOf
<1>2. CASE Return
  <2>1. wpc = "callback" /\ pTransport = NoTransport
        /\ msg.type \notin {"onHeartbeat", "onConnectError", "onStop"}
    BY <1>2 DEF Return, WorkerAt, CrossedQueue, Tidying, InCallbackOf
  <2>2. CASE Dies("null transport")
    BY <2>2, CrossedStutters DEF Dies, connection, worker
  <2>3. CASE ~Dies("null transport")
    <3>1. /\ Target' = (Target /\ msg.type # "onDisconnect") /\ wpc' = "done"
          /\ m_MessageQueue' = m_MessageQueue \o << >>
          /\ UNCHANGED <<pTransport, life, asio, io, stop, over>>
      BY <1>2, <2>1, <2>3 DEF Return
    <3>2. m_MessageQueue' = m_MessageQueue
      BY <3>1, ConcatEmptySeq DEF TypeInv, QueueType
    <3> QED
      BY <2>1, <3>1, <3>2 DEF CrossedQueue, CrossedIo, NoneOf, InCallbackOf, Tidying, asio
  <2> QED
    BY <2>2, <2>3
<1>3. CASE Housekeeping \/ RequestStop
  <2>1. /\ wpc' = "poll" /\ wpc \in {"poll", "done"} /\ stop \in {"handled", "exited"}
        /\ stop' \in {"handled", "exited"}
        /\ UNCHANGED <<pTransport, Target, life, asio, io, m_MessageQueue, over>>
    BY <1>3 DEF Housekeeping, RequestStop, WorkerAt, CrossedQueue, connection, worker
  <2> QED
    BY <2>1 DEF CrossedQueue, CrossedIo, NoneOf, InCallbackOf, Tidying, asio
<1>4. CASE TidyUp \/ TidyDelete
  <2> DEFINE t == pTransport
             Reads(q) == \A i \in DOMAIN q : q[i].op \in {"timer", "read"}
  <2>1. t \in Transport /\ wpc' \in {"delete", "done"}
        /\ UNCHANGED <<Target, m_MessageQueue, stop, over, io>>
    BY <1>4 DEF TidyUp, TidyDelete, DisconnectUnchanged, WorkerAt, TypeInv, WorkerType,
       ConnectionType, Closing, Tidying, connection
  <2>2. /\ handlers \in Seq(Handler) /\ pending[t] \in {"none", "read"}
        /\ TimerAborted(t) \in Seq(Handler) /\ Reads(TimerAborted(t))
        /\ SocketAborted(t) \in Seq(Handler) /\ Reads(SocketAborted(t))
        /\ Aborted(t, "read") \in Handler /\ Aborted(t, "read").op = "read"
    BY <2>1, AbortedType, AbortedFields DEF TypeInv, AsioType, TimerAborted, SocketAborted,
       CrossedIo, Operation
  <2>3. ASSUME NEW q \in Seq(Handler), None(q, Does({"resolve", "connect"})),
               NEW u \in Seq(Handler), Reads(u)
        PROVE  None(q \o u, Does({"resolve", "connect"})) /\ q \o u \in Seq(Handler)
    BY <2>3, ConcatProperties DEF None, Does
  <2>4. None(handlers', Does({"resolve", "connect"}))
    <3>1. None(handlers, Does({"resolve", "connect"}))
      BY DEF CrossedIo
    <3>2. /\ None(handlers \o TimerAborted(t), Does({"resolve", "connect"}))
          /\ handlers \o TimerAborted(t) \in Seq(Handler)
      BY <2>2, <2>3, <3>1
    <3> DEFINE b == IF IsConnected THEN SocketAborted(t) ELSE << >>
               d == IF pending[t] = "none" THEN << >> ELSE <<Aborted(t, pending[t])>>
    <3>3. /\ b \in Seq(Handler) /\ Reads(b)
          /\ d \in Seq(Handler) /\ Reads(d)
      <4>1. << >> \in Seq(Handler) /\ Reads(<< >>)
        BY EmptySeq
      <4>2. <<Aborted(t, "read")>> \in Seq(Handler) /\ Reads(<<Aborted(t, "read")>>)
        BY <2>2
      <4> QED
        BY <2>2, <4>1, <4>2
    <3>4. handlers' = (handlers \o TimerAborted(t)) \o b
             \/ handlers' = (handlers \o TimerAborted(t)) \o d
      BY <1>4 DEF TidyUp, TidyDelete, DeleteTransport
    <3> HIDE DEF b, d, Reads
    <3> QED
      BY <2>3, <3>2, <3>3, <3>4
  <2>5. \A u \in Transport : pending'[u] \in {"none", "read"}
    BY <1>4, <2>1 DEF TidyUp, TidyDelete, DeleteTransport, CloseSocket, CrossedIo, TypeInv,
       AsioType
  <2>6. /\ \/ wpc' = "delete" /\ UNCHANGED <<pTransport, life>>
           \/ wpc' = "done" /\ pTransport' = NoTransport
                 /\ life' = [life EXCEPT ![t] = "deleted"]
    BY <1>4 DEF TidyUp, TidyDelete, DeleteTransport, DisconnectUnchanged, connection
  <2>7. \A u \in Transport : life'[u] = "alive" => u = pTransport'
    BY <2>1, <2>6 DEF CrossedQueue, TypeInv, FlagsType
  <2>8. CrossedQueue'
    <3>1. wpc # "callback"
      BY <1>4 DEF TidyUp, TidyDelete, WorkerAt
    <3> QED
      BY <2>1, <2>6, <2>7, <3>1 DEF CrossedQueue, NoneOf, InCallbackOf, Tidying
  <2> QED
    BY <2>1, <2>4, <2>5, <2>8 DEF CrossedIo
<1>5. ~RunOnStop /\ ~SetConnecting /\ ~ConnectionConnect /\ ~ConnectionDisconnect
  BY <1>1 DEF RunOnStop, SetConnecting, ConnectionConnect, ConnectionDisconnect, WorkerAt,
     CrossedQueue
<1>6. ~AskIsConnecting /\ ~handleDisconnect /\ ~Shutdown /\ ~ClearConnected
  BY DEF AskIsConnecting, handleDisconnect, Shutdown, ClearConnected, WorkerAt, CrossedQueue,
     TypeInv, WorkerType, Closing, Tidying
<1> QED
  BY <1>2, <1>3, <1>4, <1>5, <1>6, CrossedTurns DEF Worker

\* A handler pushes a message, which is none of a connect that failed.
LEMMA CrossedPush ==
    ASSUME TypeInv, CrossedInv, Push
    PROVE  CrossedInv'
<1> USE DEF CrossedInv
<1> DEFINE m == io.message
<1>1. /\ m # NoMessage /\ m_MessageQueue' = MessagePlugin(m_MessageQueue, m)
      /\ io' = [io EXCEPT !.message = NoMessage]
      /\ UNCHANGED <<Target, pTransport, life, asio, wpc, msg, stop, over>>
  BY DEF Push, connection, worker
<1>2. m \in Message /\ io \in IoState /\ m_MessageQueue \in Seq(Message)
      /\ m.type \in {"onConnect", "Read", "Disconnected", "onTimeout"}
  <2>1. m \in Message /\ io \in IoState /\ m_MessageQueue \in Seq(Message)
    BY <1>1 DEF TypeInv, IoType, IoState, QueueType
  <2>2. m.type # "none"
    BY <2>1 DEF Message, MessageType, Directive, Event, Callback
  <2> QED
    BY <2>1, <2>2 DEF CrossedIo
<1>3. io'.pc = io.pc /\ io'.message.type = "none"
  BY <1>1, <1>2 DEF IoState, NoMessage
<1> HIDE DEF m
<1>4. /\ m \notin Of({"Connect", "Disconnect", "onHeartbeat", "onConnectError", "onStop"})
      /\ m \notin Told /\ m \notin Data
  BY <1>2 DEF Of, Told, Data, ToTarget
<1>5. \/ m_MessageQueue' = m_MessageQueue
      \/ m_MessageQueue' = Append(m_MessageQueue, m)
  BY <1>1 DEF MessagePlugin
<1>6. CrossedQueue'
  <2>1. CASE m_MessageQueue' = m_MessageQueue
    BY <1>1, <2>1 DEF CrossedQueue, NoneOf, InCallbackOf
  <2>2. CASE m_MessageQueue' = Append(m_MessageQueue, m)
    <3>1. /\ \A A : None(m_MessageQueue', A) <=> None(m_MessageQueue, A) /\ m \notin A
          /\ \A A, B : NoneBehind(m_MessageQueue', A, B) <=>
                NoneBehind(m_MessageQueue, A, B) /\ (m \in B => None(m_MessageQueue, A))
      BY <1>2, <2>2, QueueAppend
    <3> QED
      BY <1>1, <1>4, <3>1 DEF CrossedQueue, NoneOf, InCallbackOf
  <2> QED
    BY <1>5, <2>1, <2>2
<1> QED
  BY <1>1, <1>3, <1>6 DEF CrossedIo, asio

\* The operating system and the other handlers.
LEMMA CrossedAsio ==
    ASSUME TypeInv, CrossedInv,
           \/ handleAsyncResolve \/ handleAsyncConnect \/ handleRead \/ handleTimeout
           \/ SetConnected \/ FirstRead \/ ClearConnecting \/ ReadNext \/ Rearm \/ Report
           \/ SetFlag \/ EndHandler \/ \E t \in Transport : Complete(t) \/ Expire(t)
    PROVE  CrossedInv'
<1> USE DEF CrossedInv
<1>1. UNCHANGED <<Target, pTransport, life, m_MessageQueue, wpc, msg, stop, over>>
  BY DEF handleAsyncResolve, handleAsyncConnect, handleRead, handleTimeout, SetConnected,
     FirstRead, ClearConnecting, ReadNext, Rearm, Report, SetFlag, EndHandler, Complete,
     Expire, HandlerUnchanged, connection, worker
<1>2. CrossedQueue'
  BY <1>1 DEF CrossedQueue, NoneOf, InCallbackOf
<1>3. handlers \in Seq(Handler) /\ None(handlers, Does({"resolve", "connect"}))
  BY DEF TypeInv, AsioType, CrossedIo
<1>4. ASSUME NEW op \in {"resolve", "connect"}, NEW ok, Handle(op, ok) PROVE FALSE
  <2>1. Head(handlers) \in Handler /\ Head(handlers) \notin Does({"resolve", "connect"})
    BY <1>3, <1>4, QueueTail DEF Handle
  <2> QED
    BY <1>4, <2>1 DEF Handle, Does
<1>5. ~handleAsyncResolve /\ ~handleAsyncConnect /\ ~Report
  BY <1>4 DEF handleAsyncResolve, handleAsyncConnect, Report, Resumes, IoAt, CrossedIo
<1>6. CASE handleRead \/ handleTimeout
  <2>1. /\ handlers # << >> /\ handlers' = Tail(handlers) /\ UNCHANGED pending
        /\ \/ UNCHANGED io
           \/ \E pc \in {"readNext", "readFailed", "rearm"},
                 type \in {"Read", "Disconnected", "onTimeout"} :
                 io' = Holding(pc, Head(handlers).t, type)
    BY <1>6 DEF handleRead, handleTimeout, Handle
  <2>2. None(handlers', Does({"resolve", "connect"}))
    BY <1>3, <2>1, QueueTail
  <2>3. io'.pc \notin {"connectFailed", "resolveFailed"}
        /\ io'.message.type \in {"none", "onConnect", "Read", "Disconnected", "onTimeout"}
    BY <2>1 DEF CrossedIo, Holding, NewMessage
  <2> QED
    BY <1>2, <2>1, <2>2, <2>3 DEF CrossedIo
<1>7. CASE SetConnected \/ ClearConnecting \/ SetFlag \/ EndHandler
  <2>1. /\ UNCHANGED asio /\ io'.message.type = "none"
        /\ io'.pc \in {"firstRead", "idle"}
    BY <1>7 DEF SetConnected, ClearConnecting, SetFlag, EndHandler, Resumes, Idle, NoMessage,
       TypeInv, IoType, IoState
  <2> QED
    BY <1>2, <2>1 DEF CrossedIo, asio
<1>8. CASE FirstRead \/ ReadNext \/ Rearm
  <2> DEFINE t == io.t
  <2>1. /\ t \in Transport /\ io'.message.type = "none"
        /\ io'.pc \in {"connectEnds", "idle"}
        /\ StartRead(t) \/ (handlers' = handlers \o TimerAborted(t) /\ UNCHANGED pending)
    BY <1>8 DEF FirstRead, ReadNext, Rearm, Resumes, IoAt, Idle, NoMessage, TypeInv,
       IoType, IoState
  <2>2. Aborted(t, "timer").op = "timer" /\ Aborted(t, "read").op = "read"
        /\ Aborted(t, "read") \in Handler
    BY <2>1, AbortedFields, AbortedType DEF TypeInv, AsioType, Operation
  <2> DEFINE c == ~(m_Socket[t] = "open")
             a == Aborted(t, "read")
             s == handlers \o (IF c THEN <<a>> ELSE << >>)
  <2>3. /\ handlers' \in {s \o TimerAborted(t), handlers \o TimerAborted(t)}
        /\ \A u \in Transport : pending'[u] \in {"none", "read"}
    BY <2>1 DEF StartRead, CrossedIo, TypeInv, AsioType
  <2>4. s \in Seq(Handler) /\ None(s, Does({"resolve", "connect"}))
    <3>1. CASE c
      <4>1. s = Append(handlers, a)
        BY <1>3, <2>2, <3>1, AppendIsConcat
      <4>2. a \notin Does({"resolve", "connect"})
        BY <2>2 DEF Does
      <4> HIDE DEF s, a, c
      <4>3. a \in Handler
        BY <2>2 DEF a
      <4>4. /\ Append(handlers, a) \in Seq(Handler)
            /\ None(Append(handlers, a), Does({"resolve", "connect"}))
        BY <1>3, <4>2, <4>3, QueueAppend
      <4> QED
        BY <4>1, <4>4
    <3>2. CASE ~c
      BY <1>3, <3>2, ConcatEmptySeq
    <3> QED
      BY <3>1, <3>2
  <2> HIDE DEF s
  <2>5. Aborted(t, "timer") \notin Does({"resolve", "connect"})
    BY <2>2 DEF Does
  <2>6. None(handlers', Does({"resolve", "connect"}))
    BY <1>3, <2>1, <2>3, <2>4, <2>5, TimerQueued
  <2> QED
    BY <1>2, <2>1, <2>3, <2>6 DEF CrossedIo
<1>9. CASE \E t \in Transport : Complete(t) \/ Expire(t)
  <2>1. PICK t \in Transport : Complete(t) \/ Expire(t)
    BY <1>9
  <2>2. PICK op \in {"read", "timer"}, ok \in BOOLEAN :
           handlers' = Append(handlers, [t |-> t, op |-> op, ok |-> ok])
    BY <2>1 DEF Complete, Expire, CrossedIo
  <2>3. UNCHANGED io /\ \A u \in Transport : pending'[u] \in {"none", "read"}
    BY <2>1 DEF Complete, Expire, CrossedIo, TypeInv, AsioType
  <2> DEFINE h == [t |-> t, op |-> op, ok |-> ok]
  <2>4. h \in Handler /\ h \notin Does({"resolve", "connect"})
    BY <2>2 DEF Handler, Operation, Does
  <2>5. handlers' = Append(handlers, h)
    BY <2>2
  <2> HIDE DEF h
  <2>6. None(handlers', Does({"resolve", "connect"}))
    BY <1>3, <2>4, <2>5, HandlerQueued
  <2> QED
    BY <1>2, <2>3, <2>6 DEF CrossedIo
<1> QED
  BY <1>5, <1>6, <1>7, <1>8, <1>9

LEMMA NextCrossed ==
    ASSUME TypeInv, PatientScript, CrossedInv, [Next]_vars
    PROVE  CrossedInv'
<1>1. ~Calls /\ ~StopHardware
  BY DEF Calls, CConnection_connect, CConnection_disconnect, Release, InCallback, WorkerAt,
     StopHardware, PatientScript, CrossedInv, CrossedQueue, InCallbackOf
<1>2. CASE HandleFreed \/ ResumesFreed \/ UNCHANGED vars
  BY <1>2, CrossedStutters DEF HandleFreed, ResumesFreed, Dies, vars, connection, worker
<1> QED
  BY <1>1, <1>2, CrossedWorker, CrossedPush, CrossedAsio DEF Next, Asio

-----------------------------------------------------------------------------
(* What a patient script may rely on.                                      *)

\* The script is what it is; while it is patient, the invariant holds, and once
\* a Disconnect has crossed the end of a connect what is left of it.
PatientRule ==
    TypeInv /\ (PatientScript => IF crossed THEN CrossedInv ELSE PatientInv)

\* No step changes the scenario, and but one the history of crossings.
LEMMA Histories ==
    ASSUME TypeInv, [Next]_vars
    PROVE  /\ UNCHANGED scenario
           /\ UNCHANGED crossed \/ AskIsConnecting
           /\ crossed => crossed'
<1>1. UNCHANGED scenario
  BY DEF Next, Calls, Worker, Asio, CConnection_connect, CConnection_disconnect, Release,
     RunCallback, RunOnStop, Return, ConnectionConnect, SetConnecting, ConnectionRead,
     ConnectionDisconnect, AskIsConnecting, handleDisconnect, Shutdown, ClearConnected,
     TidyUp, TidyDelete, DisconnectUnchanged, DisconnectEvent, Housekeeping, RequestStop,
     HandleFreed, handleAsyncResolve, handleAsyncConnect, handleRead, handleTimeout, Push,
     ResumesFreed, SetConnected, FirstRead, ClearConnecting, ReadNext, Rearm, Report, SetFlag,
     EndHandler, StopHardware, Complete, Expire, Dies, HandlerUnchanged, connection, vars
<1>2. UNCHANGED crossed \/ AskIsConnecting
  BY DEF Next, Calls, Worker, Asio, CConnection_connect, CConnection_disconnect, Release,
     RunCallback, RunOnStop, Return, ConnectionConnect, SetConnecting, ConnectionRead,
     ConnectionDisconnect, handleDisconnect, Shutdown, ClearConnected,
     TidyUp, TidyDelete, DisconnectEvent, Housekeeping, RequestStop,
     HandleFreed, handleAsyncResolve, handleAsyncConnect, handleRead, handleTimeout, Push,
     ResumesFreed, SetConnected, FirstRead, ClearConnecting, ReadNext, Rearm, Report, SetFlag,
     EndHandler, StopHardware, Complete, Expire, Dies, HandlerUnchanged, vars
<1>3. AskIsConnecting /\ crossed => crossed'
  BY DEF AskIsConnecting
<1> QED
  BY <1>1, <1>2, <1>3

LEMMA NextPatient == PatientRule /\ [Next]_vars => PatientRule'
<1> SUFFICES ASSUME PatientRule, [Next]_vars PROVE PatientRule'
  OBVIOUS
<1>1. TypeInv /\ TypeInv'
  BY NextType DEF PatientRule
<1>2. /\ UNCHANGED scenario
      /\ UNCHANGED crossed \/ AskIsConnecting
      /\ crossed => crossed'
  BY <1>1, Histories
<1>3. ASSUME PatientScript', ~crossed' PROVE PatientInv'
  <2>1. PatientScript /\ PatientInv
    BY <1>2, <1>3 DEF PatientScript, PatientRule
  <2>2. CASE UNCHANGED vars
    <3>1. OneLife' /\ IoShape' /\ Token'
      BY <2>1, <2>2 DEF vars, connection, flags, asio, worker, PatientInv, OneLife, IoShape,
         Token, Reporting, Ended, NoneOf, OnlyOne
    <3>2. Order' /\ Phases'
      BY <2>1, <2>2 DEF vars, connection, flags, asio, worker, PatientInv, Order, Phases,
         Establishing, Reading, Failed, NoneOf, InOrder, InCallbackOf, Ended, Late, Up
    <3>3. QueueUnchanged /\ UNCHANGED <<m_bConnecting, m_bConnected>>
      BY <2>2 DEF vars, connection, flags, worker, QueueUnchanged
    <3>4. Untimed'
      BY <2>1, <2>2 DEF vars, connection, asio, PatientInv, Untimed
    <3> QED
      BY <2>1, <3>1, <3>2, <3>3, <3>4, AsioFrame DEF PatientInv
  <2>3. CASE Calls \/ Worker \/ StopHardware
    BY <1>1, <1>3, <2>1, <2>3, CallsPatient, RunCallbackPatient, StopPatient, ReturnPatient,
       ConnectPatient, ConnectingPatient, ReadPatient, DisconnectPatient, AskPatient,
       ClosingPatient, TidyDeletePatient, DisconnectedPatient, HousekeepingPatient DEF Worker
  <2>4. CASE Asio \/ \E t \in Transport : Complete(t) \/ Expire(t)
    BY <1>1, <2>1, <2>4, FreedPatient, ResolvedPatient, ConnectedPatient, TimeoutPatient,
       PushPatient, SetConnectedPatient, ReadingPatient, ClearConnectingPatient,
       RearmPatient, ReportPatient, CompletePatient, ExpirePatient DEF Asio
  <2> QED
    BY <2>2, <2>3, <2>4 DEF Next
<1>4. ASSUME PatientScript', crossed' PROVE CrossedInv'
  <2>1. PatientScript
    BY <1>2, <1>4 DEF PatientScript
  <2>2. CASE crossed
    BY <1>1, <2>1, <2>2, NextCrossed DEF PatientRule
  <2>3. CASE ~crossed
    BY <1>1, <1>2, <1>4, <2>1, <2>3, CrossingPatient DEF PatientRule
  <2> QED
    BY <2>2, <2>3
<1> QED
  BY <1>1, <1>3, <1>4 DEF PatientRule

LEMMA PatientHolds == Spec => []PatientRule
<1>1. Init => PatientRule
  BY InitType, InitPatient DEF PatientRule, Init
<1> QED
  BY <1>1, NextPatient, PTL DEF Spec

\* A script that leaves its connections to the peer, and connects in its
\* heartbeat when the last one is over, has one transport at a time, however
\* many it goes through, and whether it sets a read timeout, is stopped, or has
\* connects that fail (ConnectionConnect, DisconnectEvent).
THEOREM PatientHasOneTransport ==
    Spec => [](PatientScript => WaitingHasOneTransport)
<1>1. PatientRule => (PatientScript => WaitingHasOneTransport)
  <2> SUFFICES ASSUME PatientRule, PatientScript PROVE Cardinality(Alive) <= 1
    BY DEF WaitingHasOneTransport
  <2>3. \A t \in Transport : life[t] = "alive" => t = pTransport
    BY DEF PatientRule, PatientInv, OneLife, CrossedInv, CrossedQueue
  <2>1. CASE Alive = {}
    BY <2>1, FS_EmptySet
  <2>2. CASE Alive # {}
    <3>1. Alive = {pTransport}
      BY <2>2, <2>3 DEF Alive
    <3> QED
      BY <3>1, FS_Singleton
  <2> QED
    BY <2>1, <2>2
<1> QED
  BY <1>1, PatientHolds, PTL

\* Nothing reaches such a script between the end of a connection, or a connect
\* that failed, and its next Connect: a Read that is queued is ahead of the
\* Disconnected, and the message that brings its data ahead of onDisconnect.
THEOREM PatientHearsNothingAfterTheEnd ==
    Spec => [](PatientScript => NoMessageAfterDisconnect)
<1>1. PatientRule => (PatientScript => NoMessageAfterDisconnect)
  BY DEF PatientRule, PatientInv, Telling, CrossedInv, CrossedQueue, InCallbackOf,
     NoMessageAfterDisconnect
<1> QED
  BY <1>1, PatientHolds, PTL

\* For it the transport is there whenever onConnectCallback::ProcessLocked asks
\* whether it is connected, unless the plugin is stopped where connects fail: the
\* forced Disconnect may then delete a transport that has failed before its
\* onConnect is processed. The forced Disconnect must not cross the end of the
\* connect (AskIsConnecting): it then deletes a transport that is up.
THEOREM PatientOnConnectIsSafe ==
    Spec => [](PatientScript => OnConnectIsSafe)
<1>1. PatientRule => (PatientScript => OnConnectIsSafe)
  <2> SUFFICES ASSUME PatientRule, PatientScript, ~crossed PROVE OnConnectIsSafe
    BY DEF OnConnectIsSafe
  <2>1. scenario.failures \subseteq {"connect"}
    BY DEF PatientScript
  <2>2. ~scenario.stops \/ scenario.failures = {} => fault # "null transport"
    BY DEF PatientRule, PatientInv, Asked
  <2>3. "connect" \notin scenario.failures => scenario.failures = {}
    BY <2>1
  <2>4. ClosesWhenUp => scenario.failures = {}
    BY DEF ClosesWhenUp
  <2> QED
    BY <2>2, <2>3, <2>4 DEF OnConnectIsSafe
<1> QED
  BY <1>1, PatientHolds, PTL

\* And where it sets no timeout, and no Disconnect crosses the end of a connect, no
\* handler ever runs on a transport that has been deleted: of the operation, its handler and the Disconnected message there is
\* one at a time, and only the last leads to delete.
THEOREM PatientHandlersFindTransport ==
    Spec => [](PatientScript => OneCloserIsSafe)
<1>1. PatientRule => (PatientScript => OneCloserIsSafe)
  <2> SUFFICES ASSUME PatientRule, PatientScript, ~scenario.timeout, ~crossed
               PROVE  HandlersFindTransport
    BY DEF OneCloserIsSafe, OneCloser
  <2> USE DEF PatientRule, PatientInv
  <2>1. ASSUME NEW t \in Transport, life[t] = "deleted" PROVE pending[t] = "none" /\ t # pTransport
    BY <2>1 DEF Token, OneLife
  <2>2. ASSUME NEW i \in DOMAIN handlers PROVE handlers[i].t = pTransport
    <3>1. handlers[i] \in Handler
      BY DEF TypeInv, AsioType
    <3>2. handlers[i] \notin Does({"timer"})
      BY DEF Untimed, None
    <3>3. handlers[i] \notin {h \in Handler : h.op \in IoOps /\ h.t # pTransport}
      BY DEF Token, None
    <3> QED
      BY <3>1, <3>2, <3>3 DEF Does, Handler, Operation, IoOps
  <2>3. fault # "freed transport"
    BY DEF Untimed
  <2> QED
    BY <2>1, <2>2, <2>3 DEF HandlersFindTransport
<1> QED
  BY <1>1, PatientHolds, PTL
=============================================================================
