---------------------------- MODULE WebConnection ----------------------------
(***************************************************************************)
(* One connection of the web server: class connection                      *)
(* (web/webserver/connection.cpp), kept by connection_manager, and the     *)
(* CWebsocket it turns into (web/Websockets.cpp).                          *)
(*                                                                         *)
(* The io thread runs the completion handlers one after the other; ready   *)
(* holds those that can run. The publisher thread pushes database changes  *)
(* through CWebsocket::DatabaseUpdate, which writes from its own thread.   *)
(* The handlers are functions from the members of the connection, c, to    *)
(* what they leave in them: each runs whole, since a write of the          *)
(* publisher (under writeMutex) changes nothing a handler looks at twice.  *)
(*                                                                         *)
(* What arrives is a sequence of items: requests, or frames once the       *)
(* connection is a websocket. A timer or a read that is cancelled runs its *)
(* handler with operation_aborted, which does nothing, so it is left out;  *)
(* a cancelled write is not: handle_write stops the connection.            *)
(***************************************************************************)
EXTENDS Naturals, SequencesExt

CONSTANTS
    Scripts,        \* what the client may send, each a sequence of items
    Faults,         \* what may happen: see Fault
    MaxPushes       \* bound: changes that the publisher hands over

Fault == {"peer",            \* the client closes, or the network fails
          "readTimer", "abandonedTimer",
          "stop_all"}        \* the server stops

\* "request" keeps the connection alive and "last" does not; "part" and "rest"
\* are two halves of a request that keeps it alive.
Request == {"request", "last", "bad", "part", "rest", "upgrade"}
\* "text" and "continuation" end a message; "fragment" is a text frame
\* without FIN.
Frame == {"text", "fragment", "continuation", "ping", "pong", "close"}

Item == Request \union Frame

ASSUME InputAssumption ==
    /\ Scripts \subseteq Seq(Item)
    /\ Faults \subseteq Fault
    /\ MaxPushes \in Nat

VARIABLES
    c,              \* the members of the connection
    started,        \* whether the server has started it
    toSend,         \* what the client has still to send
    sent,           \* the messages written completely, in their order
    publisher,      \* "idle", or "DatabaseUpdate" while it calls the slot
    pushes,
    patient,        \* history: no request was sent before the last was answered
    undisturbed     \* history: none of Faults happened

history == <<patient, undisturbed>>

vars == <<c, started, toSend, sent, publisher, pushes, history>>

\* A message: the reply to the n-th request, or what a websocket sends.
Message == [kind : {"reply"}, n : Nat] \union
           [kind : {"push", "ping", "pong", "close"}, n : {0}]
Reply(n) == [kind |-> "reply", n |-> n]
Other(kind) == [kind |-> kind, n |-> 0]

\* A handler that can run. A read has the items that arrived.
ReadHandler(items) == [op |-> "read", ok |-> TRUE, items |-> items]
ReadFailed == [op |-> "read", ok |-> FALSE, items |-> << >>]
WriteHandler(ok) == [op |-> "write", ok |-> ok, items |-> << >>]
TimerHandler(timer) == [op |-> timer, ok |-> TRUE, items |-> << >>]

Connection ==
    [managed : BOOLEAN,            \* in connection_manager::connections_
     connection_type : {"http", "websocket", "closing"},
     keepalive_ : BOOLEAN,
     open : BOOLEAN,               \* the socket
     buf : Seq(Item),
     reading : BOOLEAN,            \* an async_read_some is outstanding
     write_in_progress : BOOLEAN,
     write_buffer : Seq(Message),  \* at most one
     writes : 0..1,                \* async_writes outstanding
     writeQ : Seq(Message),
     readTimer : BOOLEAN, abandonedTimer : BOOLEAN,      \* armed
     m_Subscriber : BOOLEAN,       \* connected to the publisher
     vSubscriptions : BOOLEAN,     \* has a subscription
     start_new_packet : BOOLEAN, last_opcode : Item,
     replies : Nat,                \* requests replied to
     ready : Seq([op : {"read", "write", "readTimer", "abandonedTimer"},
                  ok : BOOLEAN, items : Seq(Item)])]

Init ==
    /\ c = [managed |-> FALSE, connection_type |-> "http", keepalive_ |-> FALSE,
            open |-> TRUE, buf |-> << >>, reading |-> FALSE,
            write_in_progress |-> FALSE, write_buffer |-> << >>, writes |-> 0,
            writeQ |-> << >>, readTimer |-> FALSE, abandonedTimer |-> FALSE,
            m_Subscriber |-> FALSE, vSubscriptions |-> FALSE,
            start_new_packet |-> TRUE, last_opcode |-> "text", replies |-> 0,
            ready |-> << >>]
    /\ started = FALSE
    /\ toSend \in Scripts
    /\ sent = << >>
    /\ publisher = "idle" /\ pushes = 0
    /\ patient = TRUE /\ undisturbed = TRUE

Queue(x, handler) == [x EXCEPT !.ready = Append(@, handler)]

\* Nothing holds a shared_ptr to the connection any more.
Freed ==
    /\ started /\ ~c.managed /\ c.ready = << >>
    /\ ~c.reading /\ c.writes = 0 /\ ~c.readTimer /\ ~c.abandonedTimer

-----------------------------------------------------------------------------
(* Writing.                                                                *)

SocketWrite(x, m) ==
    LET y == [x EXCEPT !.write_in_progress = TRUE, !.write_buffer = <<m>>]
    IN IF x.open THEN [y EXCEPT !.writes = @ + 1]
                 ELSE Queue(y, WriteHandler(FALSE))

\* Mutant: the flag is not looked at.
MutMyWrite(x, m) == IF x.connection_type = "closing" THEN x ELSE SocketWrite(x, m)

MyWrite(x, m) ==
    IF x.connection_type = "closing" THEN x
    ELSE IF x.write_in_progress THEN [x EXCEPT !.writeQ = Append(@, m)]
    ELSE SocketWrite(x, m)

-----------------------------------------------------------------------------
(* Stopping.                                                               *)

\* Mutant: the websocket is left to its destructor.
MutStop(x) ==
    [x EXCEPT !.open = FALSE, !.reading = FALSE, !.writes = 0,
              !.readTimer = FALSE, !.abandonedTimer = FALSE,
              !.ready = IF x.writes > 0 THEN Append(@, WriteHandler(FALSE)) ELSE @]

\* Cancels the timers and closes the socket, which aborts what is outstanding.
Stop(x) ==
    [x EXCEPT !.m_Subscriber = (@ /\ x.connection_type # "websocket"),
              !.open = FALSE, !.reading = FALSE, !.writes = 0,
              !.readTimer = FALSE, !.abandonedTimer = FALSE,
              !.ready = IF x.writes > 0 THEN Append(@, WriteHandler(FALSE)) ELSE @]

\* connection_manager::stop
ManagerStop(x) == Stop([x EXCEPT !.managed = FALSE])

-----------------------------------------------------------------------------
(* Reading.                                                                *)

read_more(x) ==
    LET y == [x EXCEPT !.readTimer = TRUE]
    IN IF x.open THEN [y EXCEPT !.reading = TRUE] ELSE Queue(y, ReadFailed)

\* The request in front of the buffer: its items, or none if it is not whole.
FirstRequest(buf) ==
    IF Head(buf) = "part" THEN IF Len(buf) = 1 THEN 0 ELSE 2 ELSE 1

Drop(buf, n) == SubSeq(buf, n + 1, Len(buf))

\* Mutant: a connection that is not kept alive is stopped at once.
MutHandleRequest(x) ==
    LET n == FirstRequest(x.buf)
        alive == Head(x.buf) \in {"request", "part", "upgrade"}
        upgrade == Head(x.buf) = "upgrade"
        y == [x EXCEPT !.buf = Drop(@, n), !.keepalive_ = alive,
                       !.connection_type = IF upgrade THEN "websocket" ELSE @,
                       !.m_Subscriber = (@ \/ upgrade),
                       !.replies = @ + 1]
        z == MyWrite(y, Reply(y.replies))
    IN IF n = 0 THEN read_more(x) ELSE IF alive THEN read_more(z) ELSE ManagerStop(z)

HandleRequest(x) ==
    LET n == FirstRequest(x.buf)
        request == Head(x.buf)
        upgrade == request = "upgrade"
        alive == request \in {"request", "part", "upgrade"}
        y == [x EXCEPT !.buf = IF request = "bad" THEN @ ELSE Drop(@, n),
                       !.keepalive_ = alive,
                       !.connection_type = IF upgrade THEN "websocket" ELSE @,
                       !.m_Subscriber = (@ \/ upgrade),
                       !.replies = @ + 1]
        z == MyWrite(y, Reply(y.replies))
    IN IF n = 0 THEN read_more(x) ELSE IF alive THEN read_more(z) ELSE z

\* CWebsocket::parse. Only a text message gives TRUE, and a subscription; the
\* other results have handle_read read on.
HandleFrame(x) ==
    LET frame == Head(x.buf)
        opcode == CASE frame = "fragment" -> "text" [] OTHER -> frame
        y == [x EXCEPT !.buf = Tail(@),
                       !.last_opcode = IF x.start_new_packet THEN opcode ELSE @,
                       !.start_new_packet = (frame # "fragment")]
    IN IF frame = "fragment" THEN read_more(y)
       ELSE CASE y.last_opcode = "text" ->
                   LET z == [y EXCEPT !.vSubscriptions = TRUE]
                   IN IF z.keepalive_ THEN read_more(z)
                      ELSE [z EXCEPT !.connection_type = "closing"]
              [] y.last_opcode = "close" ->
                   read_more([MyWrite(y, Other("close")) EXCEPT !.keepalive_ = FALSE])
              [] y.last_opcode = "ping" -> read_more(MyWrite(y, Other("pong")))
              [] OTHER -> read_more(y)

-----------------------------------------------------------------------------
(* The handlers.                                                           *)

handle_read(x, ok, items) ==
    LET y == [x EXCEPT !.readTimer = FALSE, !.buf = @ \o items]
    IN IF ~ok THEN ManagerStop(y)
       ELSE IF y.connection_type = "http" THEN HandleRequest(y) ELSE HandleFrame(y)

\* Mutant: the queue is served from its end.
MutHandleWrite(x, ok) ==
    LET y == [x EXCEPT !.write_in_progress = FALSE, !.write_buffer = << >>]
        z == IF ok /\ y.writeQ # << >>
             THEN SocketWrite([y EXCEPT !.writeQ = Front(@)], Last(y.writeQ))
             ELSE y
    IN IF ok /\ x.keepalive_ THEN [z EXCEPT !.abandonedTimer = TRUE]
                             ELSE ManagerStop(z)

\* Mutant: the abandoned timer is cancelled and not set again.
MutHandleWriteTimer(x, ok) ==
    LET y == [x EXCEPT !.write_in_progress = FALSE, !.write_buffer = << >>]
        z == IF ok /\ y.writeQ # << >>
             THEN SocketWrite([y EXCEPT !.writeQ = Tail(@)], Head(y.writeQ))
             ELSE y
    IN IF ok /\ x.keepalive_ THEN [z EXCEPT !.abandonedTimer = FALSE]
                             ELSE ManagerStop(z)

handle_write(x, ok) ==
    LET y == [x EXCEPT !.write_in_progress = FALSE, !.write_buffer = << >>]
        z == IF ok /\ y.writeQ # << >>
             THEN SocketWrite([y EXCEPT !.writeQ = Tail(@)], Head(y.writeQ))
             ELSE y
    IN IF ok /\ x.keepalive_ THEN [z EXCEPT !.abandonedTimer = TRUE]
                             ELSE ManagerStop(z)

handle_read_timeout(x) ==
    IF x.keepalive_ /\ x.connection_type = "websocket"
    THEN MyWrite(x, Other("ping"))
    ELSE ManagerStop(x)

handle_abandoned_timeout(x) == ManagerStop(x)

\* One of Faults happens.
Fails(fault) == fault \in Faults /\ undisturbed' = FALSE

-----------------------------------------------------------------------------
(* The io thread.                                                          *)

\* connection_manager::start and connection::start: the client may be gone.
Start ==
    /\ ~started /\ started' = TRUE
    /\ \/ /\ c' = read_more([c EXCEPT !.managed = TRUE, !.abandonedTimer = TRUE])
          /\ UNCHANGED undisturbed
       \/ Fails("peer") /\ c' = ManagerStop(c)
    /\ UNCHANGED <<toSend, sent, publisher, pushes, patient>>

RunHandler ==
    /\ c.ready # << >>
    /\ LET h == Head(c.ready)
           x == [c EXCEPT !.ready = Tail(@)]
       IN c' = CASE h.op = "read" -> handle_read(x, h.ok, h.items)
                 [] h.op = "write" -> handle_write(x, h.ok)
                 [] h.op = "readTimer" -> handle_read_timeout(x)
                 [] h.op = "abandonedTimer" -> handle_abandoned_timeout(x)
    /\ UNCHANGED <<started, toSend, sent, publisher, pushes, history>>

\* connection_manager::stop_all
StopAll ==
    /\ Fails("stop_all")
    /\ c.managed
    /\ c' = ManagerStop(c)
    /\ UNCHANGED <<started, toSend, sent, publisher, pushes, patient>>

-----------------------------------------------------------------------------
(* The client, the network and the clock.                                  *)

\* Every request that was handled is replied to.
Answered == \A n \in 1..c.replies : \E i \in DOMAIN sent : sent[i] = Reply(n)

\* What the client sends next reaches the server, in segments of one or two
\* items. A patient client waits for the reply to its last request.
Arrive(n) ==
    /\ c.reading /\ n <= Len(toSend)
    /\ patient' = (patient /\ n = 1 /\ Answered)
    /\ toSend' = Drop(toSend, n)
    /\ c' = Queue([c EXCEPT !.reading = FALSE], ReadHandler(SubSeq(toSend, 1, n)))
    /\ UNCHANGED <<started, sent, publisher, pushes, undisturbed>>

PeerCloses ==
    /\ Fails("peer")
    /\ c.reading
    /\ c' = Queue([c EXCEPT !.reading = FALSE], ReadFailed)
    /\ UNCHANGED <<started, toSend, sent, publisher, pushes, patient>>

WriteCompletes ==
    /\ c.writes > 0
    /\ c' = Queue([c EXCEPT !.writes = @ - 1], WriteHandler(TRUE))
    /\ sent' = sent \o c.write_buffer
    /\ UNCHANGED <<started, toSend, publisher, pushes, history>>

WriteFails ==
    /\ Fails("peer")
    /\ c.writes > 0
    /\ c' = Queue([c EXCEPT !.writes = @ - 1], WriteHandler(FALSE))
    /\ UNCHANGED <<started, toSend, sent, publisher, pushes, patient>>

ReadTimer ==
    /\ Fails("readTimer")
    /\ c.readTimer
    /\ c' = Queue([c EXCEPT !.readTimer = FALSE], TimerHandler("readTimer"))
    /\ UNCHANGED <<started, toSend, sent, publisher, pushes, patient>>

AbandonedTimer ==
    /\ Fails("abandonedTimer")
    /\ c.abandonedTimer
    /\ c' = Queue([c EXCEPT !.abandonedTimer = FALSE], TimerHandler("abandonedTimer"))
    /\ UNCHANGED <<started, toSend, sent, publisher, pushes, patient>>

-----------------------------------------------------------------------------
(* The publisher thread. disconnect does not wait for a call in progress.  *)

Publish ==
    /\ publisher = "idle" /\ pushes < MaxPushes
    /\ c.m_Subscriber
    /\ publisher' = "DatabaseUpdate" /\ pushes' = pushes + 1
    /\ UNCHANGED <<c, started, toSend, sent, history>>

DatabaseUpdate ==
    /\ publisher = "DatabaseUpdate"
    /\ publisher' = "idle"
    /\ c' = IF c.vSubscriptions /\ ~Freed THEN MyWrite(c, Other("push")) ELSE c
    /\ UNCHANGED <<started, toSend, sent, pushes, history>>

-----------------------------------------------------------------------------
Next ==
    \/ Start
    \/ RunHandler
    \/ StopAll
    \/ \E n \in 1..2 : Arrive(n)
    \/ PeerCloses
    \/ WriteCompletes
    \/ WriteFails
    \/ ReadTimer
    \/ AbandonedTimer
    \/ Publish
    \/ DatabaseUpdate

Spec == Init /\ [][Next]_vars

\* The io thread runs, writes end one way or the other, and time passes; the
\* client need not send anything.
Fairness ==
    /\ WF_vars(Start \/ RunHandler)
    /\ WF_vars(WriteCompletes)
    /\ WF_vars(ReadTimer)
    /\ WF_vars(AbandonedTimer)
    /\ WF_vars(DatabaseUpdate)

FairSpec == Spec /\ Fairness

-----------------------------------------------------------------------------
(* Properties.                                                             *)

TypeOK ==
    /\ c \in Connection
    /\ started \in BOOLEAN
    /\ toSend \in Seq(Item)
    /\ sent \in Seq(Message)
    /\ publisher \in {"idle", "DatabaseUpdate"}
    /\ pushes \in 0..MaxPushes
    /\ patient \in BOOLEAN /\ undisturbed \in BOOLEAN

WriteReady(x) == \E i \in DOMAIN x.ready : x.ready[i].op = "write"

\* SocketWrite never starts a write while another one has not been handled,
\* whichever of the io thread and the publisher calls MyWrite.
OneWrite ==
    /\ c.writes = 0 \/ (c.writes = 1 /\ ~WriteReady(c))
    /\ \A i, j \in DOMAIN c.ready :
          c.ready[i].op = "write" /\ c.ready[j].op = "write" => i = j

InOrder(messages) ==
    \A i \in DOMAIN messages : messages[i].kind = "reply" =>
        /\ \A j \in 1..(i - 1) :
              messages[j].kind = "reply" => messages[j].n < messages[i].n
        /\ \A n \in 1..(messages[i].n - 1) :
              \E j \in 1..(i - 1) : messages[j] = Reply(n)

\* The client gets the replies in the order of its requests, none missing
\* before the last it gets and none twice.
RepliesInOrder == InOrder(sent)

\* A connection that nothing disturbs is stopped only when every request that
\* was handled is replied to, for a client that waits for each reply before its
\* next request: of pipelined requests the last reply may be aborted, since
\* connection.cpp:508 starts it and stops the connection.
PatientGetsReplies == Freed /\ undisturbed /\ patient => Answered

\* The publisher never calls a websocket that is gone: no subscriber is left
\* connected when the connection is freed. connection_websocket_closing is the
\* exception (connection.cpp:135 disconnects nothing): a client brings it about
\* that sends text after its close frame.
SubscriberExists ==
    Freed /\ c.m_Subscriber => c.connection_type = "closing"

\* A connection whose client has fallen silent ends.
SilentCloses == (started /\ toSend = << >>) ~> Freed

=============================================================================
