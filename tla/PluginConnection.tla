-------------------------- MODULE PluginConnection --------------------------
(***************************************************************************)
(* One Connection object of a plugin script over TCP: the script's calls   *)
(* (hardware/plugins/PythonConnections.cpp), the directives, events and    *)
(* callbacks of the plugin's message queue (Plugins.cpp, PluginMessages.h) *)
(* and the handlers of CPluginTransportTCP (PluginTransports.cpp).         *)
(*                                                                         *)
(* Threads: the plugin's worker, which runs directives, events and the     *)
(* script's callbacks one at a time, and the one Plugin_ASIO thread, which *)
(* runs the completion handlers in the order the operations completed.     *)
(* A handler is a lambda over the raw pointer of its transport and touches *)
(* m_pConnection first. The transport's flags are plain bools.             *)
(*                                                                         *)
(* The script is a set of habits: in which callbacks it connects,          *)
(* disconnects or drops its last reference, and whether it waits for the   *)
(* last callback of one connection before it asks for the next. A refused  *)
(* call changes nothing and is left out.                                   *)
(*                                                                         *)
(* Not in this module: Listen, the other transports, Send, and what the    *)
(* data of a message says.                                                 *)
(***************************************************************************)
EXTENDS Integers, Sequences, FiniteSets

CONSTANTS
    Scenarios,    \* what script and peer may be like (a set of records)
    MaxCalls,     \* bound: calls a script makes in one callback
    MaxTransports,\* bound: transports created for the connection
    MaxReads      \* bound: reads that succeed

\* onConnect with a status that is not 0 is called onConnectError here.
Callback == {"onHeartbeat", "onConnect", "onConnectError", "onMessage",
             "onTimeout", "onDisconnect", "onStop"}

OnConnect == {"onConnect", "onConnectError"}

Scenario ==
    [connectIn : SUBSET Callback, disconnectIn : SUBSET Callback,
     releaseIn : SUBSET Callback, waits : BOOLEAN,  \* the script's habits
     timeout : BOOLEAN,              \* whether Connect asks for a read timeout
     failures : SUBSET {"handleConnect", "resolve", "connect"},   \* may happen
     stops : BOOLEAN,                \* whether StopHardware may queue onStop
     transports : 0..MaxTransports, reads : 0..MaxReads]

ASSUME ConstantsAssumption ==
    /\ MaxCalls \in Nat /\ MaxTransports \in Nat /\ MaxReads \in Nat
    /\ Scenarios \subseteq Scenario

Transport == 1..MaxTransports
NoTransport == 0

VARIABLES
    scenario,
    held,         \* whether the script still refers to the Connection
    Target,       \* whether Connection.Target is set (and counted)
    pTransport,   \* Connection.pTransport
    \* one value for each transport
    life,         \* "unborn", "alive" or "deleted"
    m_bConnecting, m_bConnected, m_bDisconnectQueued,
    m_Socket,     \* "none", "open" or "closed"
    pending,      \* the asio operation started and not completed
    m_Timer,      \* whether a wait on the timer is outstanding
    \* the Plugin_ASIO thread
    handlers,     \* completed operations whose handler has not run
    io,           \* the handler that is running
    reads,
    \* the worker
    m_Transports,
    m_MessageQueue,
    wpc, msg,     \* what the worker does, and with which message
    calls,        \* calls the script has made in this callback
    stop,         \* "no", "queued", "handled", then "exited"
    over,         \* history: the script was told that its connection is over
    crossed,      \* history: a Disconnect has crossed the end of a connect
    fault         \* "none", or what the process died of

connection == <<scenario, held, Target, pTransport>>
flags == <<m_bConnecting, m_bConnected, m_bDisconnectQueued>>
asio == <<m_Socket, pending, m_Timer, handlers>>
worker == <<wpc, msg, calls>>
vars == <<connection, life, flags, asio, io, reads, m_Transports,
          m_MessageQueue, worker, stop, over, crossed, fault>>

-----------------------------------------------------------------------------
(* Data.                                                                   *)

Directive == {"Connect", "Disconnect"}
Event == {"Read", "Disconnected"}
MessageType == Directive \union Event \union Callback

\* m_Target of a callback is Connection.Target when the message is built.
Message == [type : MessageType, target : BOOLEAN]
NewMessage(type) == [type |-> type, target |-> Target /\ type \in Callback]
NoMessage == [type |-> "none", target |-> FALSE]

Operation == {"resolve", "connect", "read", "timer"}
Handler == [t : Transport, op : Operation, ok : BOOLEAN]

Idle == [pc |-> "idle", t |-> NoTransport, message |-> NoMessage]

\* The heartbeat message is for the plugin and refers to no connection.
Refers(m) == m.type \in MessageType \ {"onHeartbeat", "onStop"}

\* CHasConnection and CPluginTransport count a reference each; so does the
\* script. A message that has been refused or deleted counts no more.
ob_refcnt ==
    (IF held THEN 1 ELSE 0)
        + Cardinality({t \in Transport : life[t] = "alive"})
        + Cardinality({i \in DOMAIN m_MessageQueue : Refers(m_MessageQueue[i])})
        + (IF Refers(io.message) THEN 1 ELSE 0)

\* Mutant: the message goes to the front of the queue.
MutMessagePlugin(q, m) == IF stop = "exited" THEN q ELSE <<m>> \o q

\* CPlugin::MessagePlugin: refused once the worker has set its exit signal.
MessagePlugin(q, m) == IF stop = "exited" THEN q ELSE Append(q, m)

Init ==
    /\ scenario \in Scenarios
    /\ held = TRUE /\ Target = FALSE /\ pTransport = NoTransport
    /\ life = [t \in Transport |-> "unborn"]
    /\ m_bConnecting = [t \in Transport |-> FALSE]
    /\ m_bConnected = [t \in Transport |-> FALSE]
    /\ m_bDisconnectQueued = [t \in Transport |-> FALSE]
    /\ m_Socket = [t \in Transport |-> "none"]
    /\ pending = [t \in Transport |-> "none"]
    /\ m_Timer = [t \in Transport |-> FALSE]
    /\ handlers = << >> /\ io = Idle /\ reads = 0
    /\ m_Transports = {} /\ m_MessageQueue = << >>
    /\ wpc = "poll" /\ msg = NoMessage /\ calls = 0
    /\ stop = "no" /\ over = TRUE /\ crossed = FALSE /\ fault = "none"

-----------------------------------------------------------------------------
(* Steps common to several actions.                                        *)

WorkerAt(pc) == fault = "none" /\ stop # "exited" /\ wpc = pc

IoAt(pc) == fault = "none" /\ io.pc = pc

Dies(how) ==
    /\ fault' = how
    /\ UNCHANGED <<connection, life, flags, asio, io, reads, m_Transports,
                   m_MessageQueue, worker, stop, over, crossed>>

IsConnecting == pTransport # NoTransport /\ m_bConnecting[pTransport]
IsConnected == pTransport # NoTransport /\ m_bConnected[pTransport]

Aborted(t, op) == [t |-> t, op |-> op, ok |-> FALSE]

\* Cancelling the timer posts its handler, and so does closing the socket for
\* the operation that is outstanding on it. A resolve is not cancelled by it.
TimerAborted(t) == IF m_Timer[t] THEN <<Aborted(t, "timer")>> ELSE << >>
SocketAborted(t) ==
    IF pending[t] \in {"connect", "read"} THEN <<Aborted(t, pending[t])>> ELSE << >>

-----------------------------------------------------------------------------
(* The script, inside a callback.                                          *)

InCallback(habit) ==
    /\ WorkerAt("callback")
    /\ msg.type \in habit
    /\ held
    /\ calls < MaxCalls
    /\ calls' = calls + 1

Unborn == {t \in 1..scenario.transports : life[t] = "unborn"}
Queued(type) == {i \in DOMAIN m_MessageQueue : m_MessageQueue[i].type = type}

\* Connection.Connect. It asks IsConnecting() and then IsConnected(), which here is
\* no different from both at once: m_bConnected is set before m_bConnecting is
\* cleared.
CConnection_connect ==
    /\ InCallback(scenario.connectIn)
    /\ scenario.waits => over
    /\ ~IsConnecting /\ ~IsConnected
    /\ Cardinality(Queued("Connect")) < Cardinality(Unborn)
    /\ Target' = TRUE
    /\ m_MessageQueue' = MessagePlugin(m_MessageQueue, NewMessage("Connect"))
    /\ over' = FALSE
    /\ UNCHANGED <<scenario, held, pTransport, life, flags, asio, io, reads,
                   m_Transports, wpc, msg, stop, crossed, fault>>

\* Connection.Disconnect.
CConnection_disconnect ==
    /\ InCallback(scenario.disconnectIn)
    /\ IsConnecting \/ IsConnected
    /\ m_MessageQueue' = MessagePlugin(m_MessageQueue, NewMessage("Disconnect"))
    /\ UNCHANGED <<connection, life, flags, asio, io, reads, m_Transports,
                   wpc, msg, stop, over, crossed, fault>>

\* The script lets go of its last reference.
Release ==
    /\ InCallback(scenario.releaseIn)
    /\ held' = FALSE
    /\ UNCHANGED <<scenario, Target, pTransport, life, flags, asio, io, reads,
                   m_Transports, m_MessageQueue, wpc, msg, stop, over, crossed, fault>>

-----------------------------------------------------------------------------
(* The worker: CPlugin::Do_Work.                                           *)

\* The message at the head of the queue is popped and processed in one step.
HeadIs(type) ==
    /\ WorkerAt("poll")
    /\ m_MessageQueue # << >>
    /\ Head(m_MessageQueue).type = type

\* A callback of the script; without a target there is nobody to call.
RunCallback ==
    \E type \in Callback :
        /\ HeadIs(type)
        /\ msg' = Head(m_MessageQueue)
        /\ m_MessageQueue' = Tail(m_MessageQueue)
        /\ wpc' = IF msg'.target \/ type = "onHeartbeat" THEN "callback" ELSE "done"
        /\ over' = (over \/ (type \in {"onDisconnect", "onConnectError"}
                               /\ msg'.target))
        /\ UNCHANGED <<connection, life, flags, asio, io, reads, m_Transports,
                       calls, stop, crossed, fault>>

\* onStop waits two seconds in the queue, so it may be overtaken.
RunOnStop ==
    /\ WorkerAt("poll")
    /\ stop = "queued"
    /\ wpc' = "callback"
    /\ msg' = [type |-> "onStop", target |-> TRUE]
    /\ UNCHANGED <<connection, life, flags, asio, io, reads, m_Transports,
                   m_MessageQueue, calls, stop, over, crossed, fault>>

\* Do_Work, after onStop: a disconnect for every transport whose connection has
\* none on its way.
ForcedDisconnects ==
    IF m_Transports = {}
         \/ Queued("Disconnect") \union Queued("Disconnected")
              \union Queued("onDisconnect") # {}
    THEN << >>
    ELSE << NewMessage("Disconnect") >>

\* The callback returns to ProcessLocked. onConnect and onDisconnect release the
\* target; onConnect only when the transport is not connected.
Return ==
    /\ WorkerAt("callback")
    /\ \/ /\ msg.type \in OnConnect /\ pTransport = NoTransport
          /\ Dies("null transport")
       \/ /\ msg.type \in OnConnect => pTransport # NoTransport
          /\ Target' = /\ Target
                       /\ msg.type \in OnConnect => IsConnected
                       /\ msg.type # "onDisconnect"
          /\ m_MessageQueue' = m_MessageQueue
                \o (IF msg.type = "onStop" THEN ForcedDisconnects ELSE << >>)
          /\ stop' = IF msg.type = "onStop" THEN "handled" ELSE stop
          /\ wpc' = "done" /\ calls' = 0
          /\ UNCHANGED <<scenario, held, pTransport, life, flags, asio, io, reads,
                         m_Transports, msg, over, crossed, fault>>

\* ConnectionConnect, up to the end of handleConnect's try block: a transport
\* that replaces the last one unless that is connected. The first failure of
\* handleConnect is an exception of its synchronous resolve.
ConnectionConnect ==
    /\ HeadIs("Connect")
    /\ msg' = Head(m_MessageQueue)
    /\ IF IsConnected
       THEN /\ wpc' = "done"
            /\ m_MessageQueue' = Tail(m_MessageQueue)
            /\ UNCHANGED <<pTransport, life, pending, m_Transports>>
       ELSE \E t \in Unborn :
            /\ \A u \in Unborn : t <= u
            /\ pTransport' = t
            /\ life' = [life EXCEPT ![t] = "alive"]
            /\ \/ /\ wpc' = "connecting"
                  /\ pending' = [pending EXCEPT ![t] = "resolve"]
                  /\ m_Transports' = m_Transports \union {t}
                  /\ m_MessageQueue' = Tail(m_MessageQueue)
               \/ /\ "handleConnect" \in scenario.failures
                  /\ wpc' = "done"
                  /\ m_MessageQueue' = MessagePlugin(Tail(m_MessageQueue),
                                                     NewMessage("onConnectError"))
                  /\ UNCHANGED <<pending, m_Transports>>
    /\ UNCHANGED <<scenario, held, Target, flags, m_Socket, m_Timer, handlers, io,
                   reads, calls, stop, over, crossed, fault>>

\* The end of handleConnect: the resolve has been started already.
SetConnecting ==
    /\ WorkerAt("connecting")
    /\ m_bConnecting' = [m_bConnecting EXCEPT ![pTransport] = TRUE]
    /\ wpc' = "done"
    /\ UNCHANGED <<connection, life, m_bConnected, m_bDisconnectQueued, asio, io,
                   reads, m_Transports, m_MessageQueue, msg, calls, stop,
                   over, crossed, fault>>

\* RemoveConnection and delete: the destructor cancels the timer and closes the
\* socket, and with it goes the resolver.
DeleteTransport(t) ==
    /\ m_Transports' = m_Transports \ {t}
    /\ life' = [life EXCEPT ![t] = "deleted"]
    /\ pTransport' = NoTransport
    /\ handlers' = handlers \o TimerAborted(t)
          \o (IF pending[t] = "none" THEN << >> ELSE <<Aborted(t, pending[t])>>)
    /\ pending' = [pending EXCEPT ![t] = "none"]
    /\ m_Timer' = [m_Timer EXCEPT ![t] = FALSE]

\* ConnectionRead and ProcessInbound of the raw protocol. The target is asked
\* for its Debugging attribute without a test that there is one.
ConnectionRead ==
    /\ HeadIs("Read")
    /\ \/ /\ ~Target
          /\ Dies("null Target")
       \/ /\ Target
          /\ msg' = Head(m_MessageQueue)
          /\ wpc' = "done"
          /\ m_MessageQueue' = MessagePlugin(Tail(m_MessageQueue),
                                             NewMessage("onMessage"))
          /\ UNCHANGED <<connection, life, flags, asio, io, reads, m_Transports,
                         calls, stop, over, crossed, fault>>

\* Closing the socket aborts what is outstanding on it, but for a resolve. (A
\* shutdown that fails, and then closes nothing, finds it closed already.)
CloseSocket(t) ==
    /\ m_Socket' = [m_Socket EXCEPT ![t] = IF @ = "open" THEN "closed" ELSE @]
    /\ pending' = [pending EXCEPT ![t] = IF @ = "resolve" THEN @ ELSE "none"]

DisconnectUnchanged == UNCHANGED <<connection, life, m_bConnecting,
                                   m_bDisconnectQueued, io, reads, m_Transports,
                                   msg, calls, stop, over, fault>>

\* Mutant: the transport is tidied up whatever its flags say.
MutConnectionDisconnect ==
    /\ HeadIs("Disconnect")
    /\ msg' = Head(m_MessageQueue)
    /\ m_MessageQueue' = Tail(m_MessageQueue)
    /\ wpc' = IF pTransport = NoTransport THEN "done" ELSE "tidyUp"
    /\ UNCHANGED <<connection, life, flags, asio, io, reads, m_Transports, calls,
                   stop, over, crossed, fault>>

\* ConnectionDisconnect. AsyncDisconnect() of an IP transport asks IsConnected()
\* first, and IsConnecting() only if that is false.
ConnectionDisconnect ==
    /\ HeadIs("Disconnect")
    /\ msg' = Head(m_MessageQueue)
    /\ m_MessageQueue' = Tail(m_MessageQueue)
    /\ wpc' = IF pTransport = NoTransport THEN "done"
              ELSE IF IsConnected THEN "handleDisconnect" ELSE "isConnecting"
    /\ UNCHANGED <<connection, life, flags, asio, io, reads, m_Transports, calls,
                   stop, over, crossed, fault>>

\* A transport that has come up between the two tests has passed for one that is
\* neither connected nor connecting.
AskIsConnecting ==
    /\ WorkerAt("isConnecting")
    /\ wpc' = IF IsConnecting THEN "handleDisconnect" ELSE "tidyUp"
    /\ crossed' = (crossed \/ (~IsConnecting /\ IsConnected))
    /\ UNCHANGED <<connection, life, flags, asio, io, reads, m_Transports,
                   m_MessageQueue, msg, calls, stop, over, fault>>

\* handleDisconnect: the timer is cancelled, and the socket is closed if it is
\* being connected.
handleDisconnect ==
    LET t == pTransport IN
    /\ WorkerAt("handleDisconnect")
    /\ handlers' = handlers \o TimerAborted(t)
                      \o (IF IsConnecting THEN SocketAborted(t) ELSE << >>)
    /\ m_Timer' = [m_Timer EXCEPT ![t] = FALSE]
    /\ IF IsConnecting THEN CloseSocket(t) ELSE UNCHANGED <<m_Socket, pending>>
    /\ wpc' = "shutdown"
    /\ UNCHANGED <<m_bConnected, m_MessageQueue, crossed>> /\ DisconnectUnchanged

\* It is closed, too, if it is connected by now.
Shutdown ==
    LET t == pTransport IN
    /\ WorkerAt("shutdown")
    /\ IF IsConnected
       THEN CloseSocket(t) /\ handlers' = handlers \o SocketAborted(t)
       ELSE UNCHANGED <<m_Socket, pending, handlers>>
    /\ wpc' = "disconnected"
    /\ UNCHANGED <<m_bConnected, m_Timer, m_MessageQueue, crossed>>
    /\ DisconnectUnchanged

ClearConnected ==
    /\ WorkerAt("disconnected")
    /\ m_bConnected' = [m_bConnected EXCEPT ![pTransport] = FALSE]
    /\ wpc' = "done"
    /\ UNCHANGED <<asio, m_MessageQueue, crossed>> /\ DisconnectUnchanged

\* The transport is tidied up at once: handleDisconnect, in one step as no thread
\* writes the flags of such a transport any more, ...
TidyUp ==
    LET t == pTransport IN
    /\ WorkerAt("tidyUp")
    /\ handlers' = handlers \o TimerAborted(t)
                      \o (IF IsConnected THEN SocketAborted(t) ELSE << >>)
    /\ m_Timer' = [m_Timer EXCEPT ![t] = FALSE]
    /\ IF IsConnected THEN CloseSocket(t) ELSE UNCHANGED <<m_Socket, pending>>
    /\ m_bConnected' = [m_bConnected EXCEPT ![t] = FALSE]
    /\ wpc' = "delete"
    /\ UNCHANGED <<m_MessageQueue, crossed>> /\ DisconnectUnchanged

\* ... and delete.
TidyDelete ==
    /\ WorkerAt("delete")
    /\ DeleteTransport(pTransport)
    /\ wpc' = "done"
    /\ UNCHANGED <<scenario, held, Target, flags, m_Socket, io, reads,
                   m_MessageQueue, msg, calls, stop, over, crossed, fault>>

\* Mutant: the transport is taken off the list and not deleted.
MutDisconnectEvent ==
    /\ HeadIs("Disconnected")
    /\ msg' = Head(m_MessageQueue)
    /\ wpc' = "done"
    /\ pTransport' = NoTransport
    /\ m_Transports' = m_Transports \ {pTransport}
    /\ m_MessageQueue' = Append(Tail(m_MessageQueue), NewMessage("onDisconnect"))
    /\ UNCHANGED <<scenario, held, Target, life, flags, asio, io, reads, calls, stop,
                   over, crossed, fault>>

\* DisconnectEvent.
DisconnectEvent ==
    /\ HeadIs("Disconnected")
    /\ msg' = Head(m_MessageQueue)
    /\ wpc' = "done"
    /\ IF pTransport = NoTransport
       THEN /\ m_MessageQueue' = Tail(m_MessageQueue)
            /\ UNCHANGED <<pTransport, life, pending, m_Timer, handlers,
                           m_Transports>>
       ELSE /\ DeleteTransport(pTransport)
            /\ m_MessageQueue' = MessagePlugin(Tail(m_MessageQueue),
                                               NewMessage("onDisconnect"))
    /\ UNCHANGED <<scenario, held, Target, flags, m_Socket, io, reads, calls, stop,
                   over, crossed, fault>>

\* Mutant: the transport's own reference is not allowed for.
MutUnreferenced ==
    {t \in m_Transports : ~m_bDisconnectQueued[t] /\ ob_refcnt < 1}

\* VerifyConnection of every transport, once the message has been deleted: only
\* the transport itself refers to the connection any more.
Unreferenced ==
    {t \in m_Transports : ~m_bDisconnectQueued[t] /\ ob_refcnt <= 1}

\* The rest of the turn: unless the plugin is stopping, a heartbeat if it is
\* time for one (never two in the queue) and VerifyConnection. The inner loop
\* ends, and the outer one comes round, with the queue empty.
Housekeeping ==
    /\ WorkerAt("done") \/ (WorkerAt("poll") /\ m_MessageQueue = << >>)
    /\ wpc' = "poll" /\ msg' = NoMessage
    /\ \/ /\ stop = "no"
          /\ \E beat \in {<< >>, <<[type |-> "onHeartbeat", target |-> FALSE]>>} :
                /\ beat # << >> => Queued("onHeartbeat") = {}
                /\ m_MessageQueue' = m_MessageQueue \o beat
                      \o (IF Unreferenced = {} THEN << >>
                          ELSE <<NewMessage("Disconnect")>>)
          /\ m_bDisconnectQueued' = [t \in Transport |->
                m_bDisconnectQueued[t] \/ t \in Unreferenced]
       \/ /\ stop # "no"
          /\ UNCHANGED <<m_MessageQueue, m_bDisconnectQueued>>
    /\ UNCHANGED <<connection, life, m_bConnecting, m_bConnected, asio, io, reads,
                   m_Transports, calls, stop, over, crossed, fault>>

\* The exit signal: onStop is processed, a second has passed, nothing is queued.
RequestStop ==
    /\ WorkerAt("poll")
    /\ stop = "handled"
    /\ m_MessageQueue = << >>
    /\ stop' = "exited"
    /\ UNCHANGED <<connection, life, flags, asio, io, reads, m_Transports,
                   m_MessageQueue, worker, over, crossed, fault>>

\* CPlugin::StopHardware, on another thread: onStop is queued, m_bIsStopping set.
StopHardware ==
    /\ fault = "none" /\ scenario.stops /\ stop = "no"
    /\ stop' = "queued"
    /\ UNCHANGED <<connection, life, flags, asio, io, reads, m_Transports,
                   m_MessageQueue, worker, over, crossed, fault>>

-----------------------------------------------------------------------------
(* The operating system completes an operation. The peer may answer, or not, *)
(* and close the connection at any time.                                    *)

Complete(t) ==
    /\ fault = "none"
    /\ pending[t] # "none"
    /\ \E ok \in BOOLEAN :
          /\ pending[t] = "read" /\ ok => reads < scenario.reads
          /\ pending[t] # "read" /\ ~ok => pending[t] \in scenario.failures
          /\ handlers' = Append(handlers, [t |-> t, op |-> pending[t], ok |-> ok])
          /\ reads' = IF pending[t] = "read" /\ ok THEN reads + 1 ELSE reads
    /\ pending' = [pending EXCEPT ![t] = "none"]
    /\ UNCHANGED <<connection, life, flags, m_Socket, m_Timer, io, m_Transports,
                   m_MessageQueue, worker, stop, over, crossed, fault>>

Expire(t) ==
    /\ fault = "none"
    /\ m_Timer[t]
    /\ Queued("onTimeout") = {}
    /\ m_Timer' = [m_Timer EXCEPT ![t] = FALSE]
    /\ handlers' = Append(handlers, [t |-> t, op |-> "timer", ok |-> TRUE])
    /\ UNCHANGED <<connection, life, flags, m_Socket, pending, io, reads,
                   m_Transports, m_MessageQueue, worker, stop, over, crossed, fault>>

-----------------------------------------------------------------------------
(* The Plugin_ASIO thread. A handler builds a message, with the target of   *)
(* that moment, and MessagePlugin queues it a moment later; what follows in  *)
(* the handler is the step named by pc.                                     *)

Holding(pc, t, type) == [pc |-> pc, t |-> t, message |-> NewMessage(type)]

Handle(op, ok) ==
    /\ IoAt("idle")
    /\ handlers # << >>
    /\ Head(handlers).op = op /\ Head(handlers).ok = ok
    /\ life[Head(handlers).t] = "alive"

\* The lambda reads m_pConnection of a transport that has been deleted.
HandleFreed ==
    /\ IoAt("idle")
    /\ handlers # << >>
    /\ life[Head(handlers).t] = "deleted"
    /\ Dies("freed transport")

HandlerUnchanged == UNCHANGED <<connection, life, reads, m_Transports,
                                m_MessageQueue, worker, stop, over, crossed, fault>>

\* handleAsyncResolve: async_connect opens the socket, a closed one too.
handleAsyncResolve ==
    \/ /\ Handle("resolve", TRUE)
       /\ LET t == Head(handlers).t IN
          /\ m_Socket' = [m_Socket EXCEPT ![t] = "open"]
          /\ pending' = [pending EXCEPT ![t] = "connect"]
       /\ handlers' = Tail(handlers)
       /\ UNCHANGED <<flags, m_Timer, io>> /\ HandlerUnchanged
    \/ /\ Handle("resolve", FALSE)
       /\ LET t == Head(handlers).t IN
          /\ m_bConnecting' = [m_bConnecting EXCEPT ![t] = FALSE]
          /\ io' = Holding("resolveFailed", t, "onConnectError")
       /\ handlers' = Tail(handlers)
       /\ UNCHANGED <<m_bConnected, m_bDisconnectQueued, m_Socket, pending, m_Timer>>
       /\ HandlerUnchanged

\* Mutant: a connect that failed is reported as a disconnect only.
MutHandleAsyncConnect ==
    \E ok \in BOOLEAN :
        /\ Handle("connect", ok)
        /\ io' = IF ok THEN Holding("connected", Head(handlers).t, "onConnect")
                 ELSE Holding("notConnecting", Head(handlers).t, "Disconnected")
        /\ handlers' = Tail(handlers)
        /\ UNCHANGED <<flags, m_Socket, pending, m_Timer>> /\ HandlerUnchanged

handleAsyncConnect ==
    \E ok \in BOOLEAN :
        /\ Handle("connect", ok)
        /\ io' = IF ok THEN Holding("connected", Head(handlers).t, "onConnect")
                 ELSE Holding("connectFailed", Head(handlers).t, "onConnectError")
        /\ handlers' = Tail(handlers)
        /\ UNCHANGED <<flags, m_Socket, pending, m_Timer>> /\ HandlerUnchanged

handleRead ==
    \E ok \in BOOLEAN :
        /\ Handle("read", ok)
        /\ io' = IF ok THEN Holding("readNext", Head(handlers).t, "Read")
                 ELSE Holding("readFailed", Head(handlers).t, "Disconnected")
        /\ handlers' = Tail(handlers)
        /\ UNCHANGED <<flags, m_Socket, pending, m_Timer>> /\ HandlerUnchanged

\* handleTimeout; a cancelled wait does nothing with a live transport.
handleTimeout ==
    \E ok \in BOOLEAN :
        /\ Handle("timer", ok)
        /\ io' = IF ok THEN Holding("rearm", Head(handlers).t, "onTimeout") ELSE io
        /\ handlers' = Tail(handlers)
        /\ UNCHANGED <<flags, m_Socket, pending, m_Timer>> /\ HandlerUnchanged

\* Mutant: the message is moved from before it is pushed.
MutPush ==
    /\ fault = "none"
    /\ io.message # NoMessage
    /\ io' = [io EXCEPT !.message = NoMessage]
    /\ m_MessageQueue' = MessagePlugin(m_MessageQueue, io'.message)
    /\ UNCHANGED <<connection, life, flags, asio, reads, m_Transports, worker,
                   stop, over, crossed, fault>>

\* The message the handler has built is pushed.
Push ==
    /\ fault = "none"
    /\ io.message # NoMessage
    /\ m_MessageQueue' = MessagePlugin(m_MessageQueue, io.message)
    /\ io' = [io EXCEPT !.message = NoMessage]
    /\ UNCHANGED <<connection, life, flags, asio, reads, m_Transports, worker,
                   stop, over, crossed, fault>>

\* After the push. The worker may have deleted the transport meanwhile.
Resumes(pc) == IoAt(pc) /\ io.message = NoMessage /\ life[io.t] = "alive"

ResumesFreed ==
    /\ fault = "none"
    /\ io.pc \notin {"idle", "end"} /\ io.message = NoMessage
    /\ life[io.t] = "deleted"
    /\ Dies("freed in handler")

\* async_read_some and configureTimeout: at once aborted on a closed socket; a
\* wait that is still outstanding is cancelled.
StartRead(t) ==
    LET open == m_Socket[t] = "open" IN
    /\ pending' = [pending EXCEPT ![t] = IF open THEN "read" ELSE "none"]
    /\ m_Timer' = [m_Timer EXCEPT ![t] = scenario.timeout]
    /\ handlers' = handlers
          \o (IF open THEN << >> ELSE <<Aborted(t, "read")>>) \o TimerAborted(t)

\* handleAsyncConnect, after a connect that succeeded: m_bConnected is set, the
\* first read is started, and m_bConnecting is cleared, while the worker may read
\* the two flags in the other order.
SetConnected ==
    /\ Resumes("connected")
    /\ m_bConnected' = [m_bConnected EXCEPT ![io.t] = TRUE]
    /\ io' = [io EXCEPT !.pc = "firstRead"]
    /\ UNCHANGED <<m_bConnecting, m_bDisconnectQueued, asio>> /\ HandlerUnchanged

FirstRead ==
    /\ Resumes("firstRead")
    /\ StartRead(io.t)
    /\ io' = [io EXCEPT !.pc = "connectEnds"]
    /\ UNCHANGED <<flags, m_Socket>> /\ HandlerUnchanged

ClearConnecting ==
    /\ Resumes("connectEnds")
    /\ m_bConnecting' = [m_bConnecting EXCEPT ![io.t] = FALSE]
    /\ io' = Idle
    /\ UNCHANGED <<m_bConnected, m_bDisconnectQueued, asio>> /\ HandlerUnchanged

ReadNext ==
    /\ Resumes("readNext")
    /\ StartRead(io.t)
    /\ io' = Idle
    /\ UNCHANGED <<flags, m_Socket>> /\ HandlerUnchanged

Rearm ==
    /\ Resumes("rearm")
    /\ m_Timer' = [m_Timer EXCEPT ![io.t] = scenario.timeout]
    /\ handlers' = handlers \o TimerAborted(io.t)
    /\ io' = Idle
    /\ UNCHANGED <<flags, m_Socket, pending>> /\ HandlerUnchanged

\* A failed resolve or connect: onConnect is followed by a DisconnectedEvent.
Report ==
    /\ Resumes("resolveFailed") \/ Resumes("connectFailed")
    /\ io' = Holding(IF io.pc = "connectFailed" THEN "notConnecting" ELSE "end",
                     io.t, "Disconnected")
    /\ m_bConnected' = [m_bConnected EXCEPT ![io.t] =
                           @ /\ io.pc # "connectFailed"]
    /\ UNCHANGED <<m_bConnecting, m_bDisconnectQueued, asio>> /\ HandlerUnchanged

\* The last statement of a handler that failed.
SetFlag ==
    /\ Resumes("notConnecting") \/ Resumes("readFailed")
    /\ m_bConnecting' = [m_bConnecting EXCEPT ![io.t] = @ /\ io.pc = "readFailed"]
    /\ m_bDisconnectQueued' = [m_bDisconnectQueued EXCEPT ![io.t] =
                                  @ \/ io.pc = "readFailed"]
    /\ io' = Idle
    /\ UNCHANGED <<m_bConnected, asio>> /\ HandlerUnchanged

\* A failed resolve touches nothing after its second message.
EndHandler ==
    /\ IoAt("end") /\ io.message = NoMessage
    /\ io' = Idle
    /\ UNCHANGED <<flags, asio>> /\ HandlerUnchanged

-----------------------------------------------------------------------------
Calls == CConnection_connect \/ CConnection_disconnect \/ Release

Worker == RunCallback \/ RunOnStop \/ Return \/ ConnectionConnect \/ SetConnecting
            \/ ConnectionRead \/ ConnectionDisconnect \/ AskIsConnecting
            \/ handleDisconnect \/ Shutdown \/ ClearConnected \/ TidyUp \/ TidyDelete
            \/ DisconnectEvent \/ Housekeeping \/ RequestStop

Asio == HandleFreed \/ handleAsyncResolve \/ handleAsyncConnect \/ handleRead
          \/ handleTimeout \/ Push \/ ResumesFreed \/ SetConnected
          \/ FirstRead \/ ClearConnecting \/ ReadNext \/ Rearm \/ Report \/ SetFlag \/ EndHandler

Next == Calls \/ Worker \/ Asio \/ StopHardware
          \/ \E t \in Transport : Complete(t) \/ Expire(t)

Spec == Init /\ [][Next]_vars

\* The two threads are scheduled, a callback returns (MaxCalls), and the
\* operating system ends a resolve or a connect; the peer owes nothing.
Fairness ==
    /\ WF_vars(Worker) /\ WF_vars(Asio)
    /\ \A t \in Transport : WF_vars(pending[t] \in {"resolve", "connect"} /\ Complete(t))

FairSpec == Spec /\ Fairness

-----------------------------------------------------------------------------
(* Properties.                                                             *)

\* Every variable has its type.
TypeOK ==
    /\ scenario \in Scenarios
    /\ held \in BOOLEAN /\ Target \in BOOLEAN
    /\ pTransport \in Transport \union {NoTransport}
    /\ life \in [Transport -> {"unborn", "alive", "deleted"}]
    /\ m_bConnecting \in [Transport -> BOOLEAN]
    /\ m_bConnected \in [Transport -> BOOLEAN]
    /\ m_bDisconnectQueued \in [Transport -> BOOLEAN]
    /\ m_Socket \in [Transport -> {"none", "open", "closed"}]
    /\ pending \in [Transport -> {"none", "resolve", "connect", "read"}]
    /\ m_Timer \in [Transport -> BOOLEAN]
    /\ handlers \in Seq(Handler)
    /\ io \in [pc : {"idle", "connected", "connectFailed", "resolveFailed",
                     "notConnecting", "readNext", "readFailed", "rearm", "end",
                     "firstRead", "connectEnds"},
               t : Transport \union {NoTransport},
               message : Message \union {NoMessage}]
    /\ reads \in 0..MaxReads
    /\ m_Transports \subseteq Transport
    /\ m_MessageQueue \in Seq(Message)
    /\ wpc \in {"poll", "callback", "connecting", "done", "isConnecting",
               "handleDisconnect", "shutdown", "disconnected", "tidyUp", "delete"}
    /\ msg \in Message \union {NoMessage}
    /\ calls \in 0..MaxCalls
    /\ stop \in {"no", "queued", "handled", "exited"}
    /\ over \in BOOLEAN /\ crossed \in BOOLEAN
    /\ fault \in {"none", "freed transport", "freed in handler",
                  "null transport", "null Target"}

Alive == {t \in Transport : life[t] = "alive"}

\* A script that leaves every connection to the peer, and looks in its heartbeat
\* whether it has to connect again. Connects may fail.
PatientScript ==
    /\ scenario.waits /\ scenario.connectIn \subseteq {"onHeartbeat"}
    /\ scenario.disconnectIn = {} /\ scenario.releaseIn = {}
    /\ scenario.failures \subseteq {"connect"}

\* A script that closes, or lets go of, a connection only while it is told that
\* it is up, and meets no failure.
ClosesWhenUp ==
    /\ scenario.waits /\ scenario.failures = {}
    /\ scenario.disconnectIn \union scenario.releaseIn
          \subseteq {"onConnect", "onMessage"}

\* A handler never runs on a transport that has been deleted: whoever deletes
\* one (ConnectionDisconnect, DisconnectEvent) does so when nothing is
\* outstanding on it. (Plugins.cpp:1693: "If transport is not going to
\* disconnect asynchronously tidy it up here".)
HandlersFindTransport ==
    /\ fault # "freed transport"
    /\ \A t \in Transport : life[t] = "deleted" =>
          /\ pending[t] = "none"
          /\ \A i \in DOMAIN handlers : handlers[i].t # t

\* It is so when no timer is set and only the peer or onStop closes the
\* connection, or only the peer or the release of the connection. Two of those,
\* or a script that disconnects twice, give two directives, and the second
\* deletes the transport before the handler that the first aborted has run.
OneCloser ==
    /\ ~scenario.timeout
    /\ PatientScript \/ (ClosesWhenUp /\ scenario.disconnectIn = {} /\ ~scenario.stops)

\* The one exception is a Disconnect that crosses the end of a connect: the worker
\* reads m_bConnected before handleAsyncConnect sets it, and m_bConnecting after it
\* has been cleared, and deletes a transport that is up.
OneCloserIsSafe == OneCloser /\ ~crossed => HandlersFindTransport

\* onConnectCallback::ProcessLocked asks pTransport whether it is connected. The
\* transport is still there, unless the plugin is stopped where connects fail or a
\* Disconnect has crossed the end of the connect.
OnConnectIsSafe ==
    /\ \/ PatientScript /\ (scenario.stops => "connect" \notin scenario.failures)
       \/ ClosesWhenUp
    /\ ~crossed
    => fault # "null transport"

\* Such scripts have one transport at a time, so DisconnectEvent never takes the
\* end of one for that of another. One that connects in other callbacks, or
\* closes what has not come up, may: onDisconnect of the last transport carries
\* the target that the next Connect has set, and tells that the new one is over.
WaitingHasOneTransport ==
    PatientScript \/ ClosesWhenUp => Cardinality(Alive) <= 1

\* For them, and for whoever connects once, data never follows the end of the
\* connection: when onDisconnect has run, or onConnect has reported an error, no
\* onMessage runs before the next Connect.
NoMessageAfterDisconnect ==
    PatientScript \/ ClosesWhenUp \/ scenario.transports = 1 =>
        ~(wpc = "callback" /\ msg.type = "onMessage" /\ over)

\* Every accepted Connect is answered: an onConnect is processed, unless the
\* plugin stops (or the process has died).
ConnectAnswered ==
    (Queued("Connect") # {}) ~>
        (msg.type \in OnConnect \/ stop = "exited" \/ fault # "none")

\* The resolve of the transport's address is over.
AddressKnown(t) ==
    /\ pending[t] # "resolve"
    /\ \A i \in DOMAIN handlers : handlers[i].t = t => handlers[i].op # "resolve"

\* A connection that the script has let go of is closed and its transport is
\* deleted, provided that its address is known when the Disconnect is handled which
\* VerifyConnection queues (or the plugin stops, or the process has died). Earlier,
\* the Disconnect closes a socket that is not open yet, the connect goes on, and no
\* second Disconnect comes. One whose handleConnect has thrown is on no list:
\* VerifyConnection never sees it.
ReleasedCloses ==
    (~held /\ \E t \in Alive \intersect m_Transports :
                 /\ AddressKnown(t)
                 /\ m_bDisconnectQueued[t] => Queued("Disconnect") # {})
        ~> (Alive = {} \/ stop # "no" \/ fault # "none")

=============================================================================
