------------------------- MODULE WebConnection_proofs -------------------------
(***************************************************************************)
(* Theorems about WebConnection, for every script of the client and every  *)
(* number of changes: one write at a time, replies in the order of the     *)
(* requests and without a gap, no subscriber left behind, and every reply  *)
(* for a client that waits for it.                                         *)
(***************************************************************************)
EXTENDS WebConnection, SequenceTheorems, TLAPS

Handler == [op : {"read", "write", "readTimer", "abandonedTimer"},
            ok : BOOLEAN, items : Seq(Item)]

\* A handler is about to run that fails: it stops the connection.
Failed(x, ops) == \E i \in DOMAIN x.ready : ~x.ready[i].ok /\ x.ready[i].op \in ops

\* One write is outstanding, from SocketWrite until handle_write has run.
WriteInv(x) ==
    /\ x.writes = 1 => x.write_in_progress /\ x.open /\ ~WriteReady(x)
    /\ WriteReady(x) => x.write_in_progress
    /\ \A i, j \in DOMAIN x.ready :
          x.ready[i].op = "write" /\ x.ready[j].op = "write" => i = j

\* handle_read has something to parse.
ReadInv(x) ==
    \A i \in DOMAIN x.ready :
        x.ready[i].op = "read" /\ x.ready[i].ok => x.ready[i].items # << >>

\* No write has failed or been aborted.
Intact(x) == x.open /\ ~Failed(x, {"write"})

\* All that has gone out or will: what is sent, on its way and queued.
Pipe(x, s) == (s \o (IF x.writes = 1 THEN x.write_buffer ELSE << >>)) \o x.writeQ

\* The messages hold the replies to the first n requests, in their order.
Full(p, n) ==
    /\ InOrder(p)
    /\ \A i \in DOMAIN p : p[i].kind = "reply" => p[i].n \in 1..n
    /\ \A k \in 1..n : \E i \in DOMAIN p : p[i] = Reply(k)

PipeInv(x, s, n) ==
    /\ InOrder(s)
    /\ Intact(x) => /\ Full(Pipe(x, s), n)
                    /\ x.writeQ # << >> => x.write_in_progress

\* A connection between two calls of MyWrite, n replies having been handed over.
Sound(x, s, n) ==
    /\ x \in Connection /\ s \in Seq(Message) /\ n \in Nat
    /\ WriteInv(x)
    /\ ReadInv(x)
    /\ PipeInv(x, s, n)

\* A websocket stays connected to the publisher only while it is open, or while
\* a handler waits that disconnects it.
SubInv(x) ==
    /\ x.m_Subscriber => x.connection_type # "http"
    /\ x.m_Subscriber /\ x.connection_type = "websocket" /\ ~x.open
          => Failed(x, {"read", "write"})

ConnInv ==
    /\ TypeOK
    /\ Sound(c, sent, c.replies)
    /\ SubInv(c)
    /\ started /\ ~c.managed => ~c.open

-----------------------------------------------------------------------------
(* Sequences of messages.                                                  *)

\* The messages sent so far are in order when all in the pipe are.
LEMMA PrefixInOrder ==
    ASSUME NEW s \in Seq(Message), NEW t \in Seq(Message), InOrder(s \o t)
    PROVE  InOrder(s)
<1> DEFINE p == s \o t
<1>1. /\ Len(s) \in Nat /\ Len(t) \in Nat /\ DOMAIN s = 1..Len(s)
      /\ DOMAIN p = 1..(Len(s) + Len(t))
      /\ \A i \in 1..Len(s) : p[i] = s[i]
  BY ConcatProperties, LenProperties
<1>2. InOrder(p)
  OBVIOUS
<1> HIDE DEF p
<1>3. ASSUME NEW i \in DOMAIN s, s[i].kind = "reply"
      PROVE  /\ \A j \in 1..(i - 1) : s[j].kind = "reply" => s[j].n < s[i].n
             /\ \A n \in 1..(s[i].n - 1) : \E j \in 1..(i - 1) : s[j] = Reply(n)
  <2>1. i \in DOMAIN p /\ p[i] = s[i] /\ \A j \in 1..(i - 1) : p[j] = s[j]
    BY <1>1
  <2>2. /\ \A j \in 1..(i - 1) : p[j].kind = "reply" => p[j].n < p[i].n
        /\ \A n \in 1..(p[i].n - 1) : \E j \in 1..(i - 1) : p[j] = Reply(n)
    BY <1>2, <1>3, <2>1 DEF InOrder
  <2> QED
    BY <2>1, <2>2
<1> QED
  BY <1>3 DEF InOrder

LEMMA AppendBehind ==
    ASSUME NEW a \in Seq(Message), NEW q \in Seq(Message), NEW m \in Message
    PROVE  a \o Append(q, m) = Append(a \o q, m)
<1> DEFINE b == <<m>>
<1>1. b \in Seq(Message)
  OBVIOUS
<1>2. Append(q, m) = q \o b /\ a \o q \in Seq(Message)
  BY AppendIsConcat, ConcatProperties
<1>3. Append(a \o q, m) = (a \o q) \o b
  BY <1>2, AppendIsConcat
<1> HIDE DEF b
<1>4. (a \o q) \o b = a \o (q \o b)
  BY <1>1, ConcatAssociative
<1> QED
  BY <1>2, <1>3, <1>4

\* The next message: not a reply, or the reply to the next request.
LEMMA AppendFull ==
    ASSUME NEW p \in Seq(Message), NEW n \in Nat, NEW m \in Message, Full(p, n)
    PROVE  /\ m.kind # "reply" => Full(Append(p, m), n)
           /\ m = Reply(n + 1) => Full(Append(p, m), n + 1)
<1> DEFINE q == Append(p, m)
           l == Len(p) + 1
<1>1. /\ l \in Nat \ {0} /\ DOMAIN p = 1..(l - 1) /\ DOMAIN q = 1..l
      /\ \A i \in 1..(l - 1) : q[i] = p[i]
      /\ q[l] = m
  BY AppendProperties, LenProperties
<1>2. /\ \A i \in DOMAIN p : p[i] \in Message
      /\ \A i \in DOMAIN p : p[i].kind = "reply" => p[i].n \in 1..n
      /\ \A k \in 1..n : \E i \in DOMAIN p : p[i] = Reply(k)
  BY ElementOfSeq, LenProperties DEF Full
<1>3. ASSUME NEW i \in DOMAIN p, p[i].kind = "reply"
      PROVE  /\ \A j \in 1..(i - 1) : p[j].kind = "reply" => p[j].n < p[i].n
             /\ \A k \in 1..(p[i].n - 1) : \E j \in 1..(i - 1) : p[j] = Reply(k)
  BY <1>3 DEF Full, InOrder
<1> HIDE DEF q, l
<1>4. ASSUME NEW i \in 1..(l - 1), q[i].kind = "reply"
      PROVE  /\ \A j \in 1..(i - 1) : q[j].kind = "reply" => q[j].n < q[i].n
             /\ \A k \in 1..(q[i].n - 1) : \E j \in 1..(i - 1) : q[j] = Reply(k)
  <2>1. i \in DOMAIN p /\ q[i] = p[i] /\ \A j \in 1..(i - 1) : q[j] = p[j]
    BY <1>1
  <2> QED
    BY <1>3, <1>4, <2>1
<1>5. ASSUME m.kind # "reply" PROVE Full(q, n)
  <2>1. InOrder(q)
    BY <1>1, <1>4, <1>5 DEF InOrder
  <2>2. \A i \in DOMAIN q : q[i].kind = "reply" => q[i].n \in 1..n
    BY <1>1, <1>2, <1>5
  <2>3. \A k \in 1..n : \E i \in DOMAIN q : q[i] = Reply(k)
    BY <1>1, <1>2
  <2> QED
    BY <2>1, <2>2, <2>3 DEF Full
<1>6. ASSUME m = Reply(n + 1) PROVE Full(q, n + 1)
  <2>0. m.kind = "reply" /\ m.n = n + 1
    BY <1>6 DEF Reply
  <2>1. InOrder(q)
    <3>1. ASSUME NEW j \in 1..(l - 1), q[j].kind = "reply"
          PROVE  q[j].n < q[l].n
      BY <1>1, <1>2, <2>0, <3>1
    <3>2. \A k \in 1..(q[l].n - 1) : \E j \in 1..(l - 1) : q[j] = Reply(k)
      BY <1>1, <1>2, <2>0
    <3>3. ASSUME NEW i \in DOMAIN q, q[i].kind = "reply"
          PROVE  /\ \A j \in 1..(i - 1) : q[j].kind = "reply" => q[j].n < q[i].n
                 /\ \A k \in 1..(q[i].n - 1) : \E j \in 1..(i - 1) : q[j] = Reply(k)
      <4>1. CASE i = l
        BY <3>1, <3>2, <4>1
      <4>2. CASE i # l
        <5>1. i \in 1..(l - 1)
          BY <1>1, <4>2
        <5> QED
          BY <1>4, <3>3, <5>1
      <4> QED
        BY <4>1, <4>2
    <3> QED
      BY <3>3 DEF InOrder
  <2>2. \A i \in DOMAIN q : q[i].kind = "reply" => q[i].n \in 1..(n + 1)
    BY <1>1, <1>2, <2>0
  <2>3. \A k \in 1..(n + 1) : \E i \in DOMAIN q : q[i] = Reply(k)
    <3>1. \A k \in 1..n : \E i \in DOMAIN q : q[i] = Reply(k)
      BY <1>1, <1>2
    <3>2. q[l] = Reply(n + 1) /\ l \in DOMAIN q
      BY <1>1, <1>6
    <3> QED
      BY <3>1, <3>2
  <2> QED
    BY <2>1, <2>2, <2>3 DEF Full
<1> QED
  BY <1>5, <1>6 DEF q

-----------------------------------------------------------------------------
(* The handlers that can run.                                              *)

\* What a further handler changes.
LEMMA QueueHas ==
    ASSUME NEW x \in Connection, NEW h \in Handler
    PROVE  LET y == Queue(x, h)
           IN  /\ y \in Connection
               /\ y.ready = Append(x.ready, h)
               /\ y.writes = x.writes /\ y.write_in_progress = x.write_in_progress
               /\ y.write_buffer = x.write_buffer /\ y.writeQ = x.writeQ
               /\ y.open = x.open /\ y.managed = x.managed
               /\ y.connection_type = x.connection_type
               /\ y.m_Subscriber = x.m_Subscriber
               /\ y.keepalive_ = x.keepalive_ /\ y.replies = x.replies
               /\ y.buf = x.buf
BY AppendProperties DEF Queue, Connection, Handler

LEMMA ReadyAppend ==
    ASSUME NEW x \in Connection, NEW y \in Connection, NEW h \in Handler,
           y.ready = Append(x.ready, h)
    PROVE  /\ WriteReady(y) <=> WriteReady(x) \/ h.op = "write"
           /\ \A ops : Failed(y, ops) <=> Failed(x, ops) \/ (~h.ok /\ h.op \in ops)
           /\ (\A i, j \in DOMAIN x.ready :
                  x.ready[i].op = "write" /\ x.ready[j].op = "write" => i = j)
              /\ (h.op = "write" => ~WriteReady(x))
                 => \A i, j \in DOMAIN y.ready :
                       y.ready[i].op = "write" /\ y.ready[j].op = "write" => i = j
           /\ ReadInv(x) /\ (h.op = "read" /\ h.ok => h.items # << >>)
                 => ReadInv(y)
<1>1. x.ready \in Seq(Handler)
  BY DEF Connection, Handler
<1>2. /\ DOMAIN y.ready = DOMAIN x.ready \union {Len(x.ready) + 1}
      /\ \A i \in DOMAIN x.ready : y.ready[i] = x.ready[i] /\ i # Len(x.ready) + 1
      /\ y.ready[Len(x.ready) + 1] = h
  BY <1>1
<1>3. WriteReady(y) <=> WriteReady(x) \/ h.op = "write"
  BY <1>2 DEF WriteReady
<1>4. \A ops : Failed(y, ops) <=> Failed(x, ops) \/ (~h.ok /\ h.op \in ops)
  BY <1>2 DEF Failed
<1>5. (\A i, j \in DOMAIN x.ready :
          x.ready[i].op = "write" /\ x.ready[j].op = "write" => i = j)
      /\ (h.op = "write" => ~WriteReady(x))
         => \A i, j \in DOMAIN y.ready :
               y.ready[i].op = "write" /\ y.ready[j].op = "write" => i = j
  BY <1>2 DEF WriteReady
<1>6. ReadInv(x) /\ (h.op = "read" /\ h.ok => h.items # << >>) => ReadInv(y)
  BY <1>2 DEF ReadInv
<1> QED
  BY <1>3, <1>4, <1>5, <1>6

\* What is left when the first handler has been taken.
LEMMA ReadyTail ==
    ASSUME NEW x \in Connection, NEW y \in Connection,
           x.ready # << >>, y.ready = Tail(x.ready)
    PROVE  LET h == Head(x.ready)
           IN  /\ h \in Handler
               /\ WriteReady(y) => WriteReady(x)
               /\ h.op = "write" => WriteReady(x)
               /\ \A ops : Failed(x, ops) <=> Failed(y, ops) \/ (~h.ok /\ h.op \in ops)
               /\ WriteInv(x) /\ h.op = "write" => ~WriteReady(y)
               /\ (\A i, j \in DOMAIN x.ready :
                      x.ready[i].op = "write" /\ x.ready[j].op = "write" => i = j)
                  => \A i, j \in DOMAIN y.ready :
                        y.ready[i].op = "write" /\ y.ready[j].op = "write" => i = j
               /\ ReadInv(x) => /\ ReadInv(y)
                                /\ h.op = "read" /\ h.ok => h.items # << >>
<1> DEFINE h == Head(x.ready)
<1>1. x.ready \in Seq(Handler)
  BY DEF Connection, Handler
<1>2. /\ h \in Handler /\ h = x.ready[1] /\ Len(x.ready) \in Nat \ {0}
      /\ DOMAIN x.ready = 1..Len(x.ready)
      /\ DOMAIN y.ready = 1..(Len(x.ready) - 1)
      /\ \A i \in DOMAIN y.ready : y.ready[i] = x.ready[i + 1]
  <2>1. Len(x.ready) \in Nat \ {0} /\ DOMAIN x.ready = 1..Len(x.ready)
    BY <1>1, EmptySeq, LenProperties
  <2>2. /\ h \in Handler /\ y.ready \in Seq(Handler)
        /\ Len(y.ready) = Len(x.ready) - 1
        /\ \A i \in 1..Len(y.ready) : y.ready[i] = x.ready[i + 1]
    BY <1>1, HeadTailProperties
  <2>3. DOMAIN y.ready = 1..Len(y.ready)
    BY <2>2, LenProperties
  <2>4. h = x.ready[1]
    BY <1>1
  <2> QED
    BY <2>1, <2>2, <2>3, <2>4
<1>3. /\ 1 \in DOMAIN x.ready
      /\ \A i \in DOMAIN y.ready : i + 1 \in DOMAIN x.ready
      /\ \A i \in DOMAIN x.ready : i # 1 =>
            i - 1 \in DOMAIN y.ready /\ y.ready[i - 1] = x.ready[i]
      /\ \A i, j \in DOMAIN y.ready : i + 1 # 1 /\ (i + 1 = j + 1 => i = j)
  BY <1>2
<1> HIDE DEF h
<1>4. (WriteReady(y) => WriteReady(x)) /\ (h.op = "write" => WriteReady(x))
  BY <1>2, <1>3 DEF WriteReady
<1>5. ASSUME NEW ops
      PROVE  Failed(x, ops) <=> Failed(y, ops) \/ (~h.ok /\ h.op \in ops)
  <2>1. ASSUME Failed(x, ops) PROVE Failed(y, ops) \/ (~h.ok /\ h.op \in ops)
    <3>1. PICK i \in DOMAIN x.ready : ~x.ready[i].ok /\ x.ready[i].op \in ops
      BY <2>1 DEF Failed
    <3>2. CASE i = 1
      BY <1>2, <3>1, <3>2
    <3>3. CASE i # 1
      BY <1>3, <3>1, <3>3 DEF Failed
    <3> QED
      BY <3>2, <3>3
  <2>2. ASSUME Failed(y, ops) PROVE Failed(x, ops)
    BY <1>2, <1>3, <2>2 DEF Failed
  <2>3. ASSUME ~h.ok, h.op \in ops PROVE Failed(x, ops)
    BY <1>2, <1>3, <2>3 DEF Failed
  <2> QED
    BY <2>1, <2>2, <2>3
<1>6. WriteInv(x) /\ h.op = "write" => ~WriteReady(y)
  BY <1>2, <1>3 DEF WriteReady, WriteInv
<1>7. (\A i, j \in DOMAIN x.ready :
          x.ready[i].op = "write" /\ x.ready[j].op = "write" => i = j)
      => \A i, j \in DOMAIN y.ready :
            y.ready[i].op = "write" /\ y.ready[j].op = "write" => i = j
  BY <1>2, <1>3
<1>8. ReadInv(x) => /\ ReadInv(y)
                    /\ h.op = "read" /\ h.ok => h.items # << >>
  BY <1>2, <1>3 DEF ReadInv
<1> QED
  BY <1>2, <1>4, <1>5, <1>6, <1>7, <1>8 DEF h

-----------------------------------------------------------------------------
(* Writing: MyWrite keeps the messages in order and one write at a time.   *)

\* A change of members that writing does not look at.
LEMMA SoundFrame ==
    ASSUME NEW x \in Connection, NEW y \in Connection, NEW s, NEW n,
           Sound(x, s, n),
           y.ready = x.ready, y.writes = x.writes, y.open = x.open,
           y.write_in_progress = x.write_in_progress,
           y.write_buffer = x.write_buffer, y.writeQ = x.writeQ
    PROVE  Sound(y, s, n)
BY DEF Sound, WriteInv, ReadInv, PipeInv, Intact, Pipe, Failed, WriteReady

\* What the callers of a write rely on.
Keeps(x, y) ==
    /\ y.open = x.open /\ y.managed = x.managed
    /\ y.connection_type = x.connection_type
    /\ y.m_Subscriber = x.m_Subscriber
    /\ y.keepalive_ = x.keepalive_ /\ y.replies = x.replies
    /\ y.buf = x.buf
    /\ Failed(x, {"read", "write"}) => Failed(y, {"read", "write"})

\* A further handler, other than that of a second write.
LEMMA QueueSound ==
    ASSUME NEW x, NEW s, NEW n, NEW h \in Handler, Sound(x, s, n),
           h.op # "write", h.op = "read" /\ h.ok => h.items # << >>
    PROVE  Sound(Queue(x, h), s, n) /\ Keeps(x, Queue(x, h))
<1> DEFINE y == Queue(x, h)
<1>1. x \in Connection
  BY DEF Sound
<1>2. /\ y \in Connection
      /\ y.ready = Append(x.ready, h)
      /\ y.writes = x.writes /\ y.write_in_progress = x.write_in_progress
      /\ y.write_buffer = x.write_buffer /\ y.writeQ = x.writeQ
      /\ y.open = x.open /\ y.managed = x.managed
      /\ y.connection_type = x.connection_type
      /\ y.m_Subscriber = x.m_Subscriber
      /\ y.keepalive_ = x.keepalive_ /\ y.replies = x.replies
      /\ y.buf = x.buf
  BY <1>1, QueueHas
<1> HIDE DEF y
<1>3. /\ WriteReady(y) <=> WriteReady(x)
      /\ Failed(y, {"write"}) <=> Failed(x, {"write"})
      /\ Failed(x, {"read", "write"}) => Failed(y, {"read", "write"})
      /\ WriteInv(x) => \A i, j \in DOMAIN y.ready :
            y.ready[i].op = "write" /\ y.ready[j].op = "write" => i = j
      /\ ReadInv(x) => ReadInv(y)
  BY <1>1, <1>2, ReadyAppend DEF WriteInv
<1>4. WriteInv(y) /\ ReadInv(y)
  BY <1>2, <1>3 DEF Sound, WriteInv
<1>5. PipeInv(y, s, n)
  BY <1>2, <1>3 DEF Sound, PipeInv, Intact, Pipe
<1> QED
  BY <1>2, <1>3, <1>4, <1>5 DEF Sound, Keeps, y

LEMMA OneMoreWrite ==
    ASSUME NEW x \in Connection, NEW w \in 0..1
    PROVE  [x EXCEPT !.writes = w] \in Connection
BY DEF Connection

\* SocketWrite, of a message that fits behind those sent.
LEMMA SocketWriteSound ==
    ASSUME NEW x \in Connection, NEW s \in Seq(Message), NEW n \in Nat,
           NEW m \in Message,
           WriteInv(x), ReadInv(x), InOrder(s),
           x.writes = 0, ~WriteReady(x),
           Intact(x) => Full((s \o <<m>>) \o x.writeQ, n)
    PROVE  Sound(SocketWrite(x, m), s, n) /\ Keeps(x, SocketWrite(x, m))
<1> DEFINE y == [x EXCEPT !.write_in_progress = TRUE, !.write_buffer = <<m>>]
           z == [y EXCEPT !.writes = @ + 1]
<1>0. <<m>> \in Seq(Message)
  OBVIOUS
<1>1. /\ y \in Connection /\ y.writes = 0 /\ y.write_in_progress
      /\ y.write_buffer = <<m>>
      /\ y.writeQ = x.writeQ /\ y.ready = x.ready /\ y.open = x.open
      /\ y.managed = x.managed /\ y.connection_type = x.connection_type
      /\ y.m_Subscriber = x.m_Subscriber
      /\ y.keepalive_ = x.keepalive_ /\ y.replies = x.replies
      /\ y.buf = x.buf
  <2> DEFINE b == <<m>>
  <2>1. b \in Seq(Message)
    BY <1>0
  <2> HIDE DEF b
  <2>2. /\ [x EXCEPT !.write_in_progress = TRUE, !.write_buffer = b] \in Connection
        /\ [x EXCEPT !.write_in_progress = TRUE, !.write_buffer = b].write_buffer = b
    BY <2>1 DEF Connection
  <2> QED
    BY <2>2 DEF Connection, b
<1>2. CASE x.open
  <2>1. /\ z \in Connection /\ z.writes = 1 /\ z.write_in_progress
        /\ z.write_buffer = <<m>>
        /\ z.writeQ = x.writeQ /\ z.ready = x.ready /\ z.open = x.open
        /\ z.managed = x.managed /\ z.connection_type = x.connection_type
        /\ z.m_Subscriber = x.m_Subscriber
        /\ z.keepalive_ = x.keepalive_ /\ z.replies = x.replies
        /\ z.buf = x.buf
    <3> HIDE DEF y
    <3>1. z = [y EXCEPT !.writes = 1]
      BY <1>1
    <3>0. y \in Connection
      BY <1>1
    <3>2. [y EXCEPT !.writes = 1] \in Connection
      <4>1. 1 \in 0..1
        OBVIOUS
      <4> QED
        BY <3>0, <4>1, OneMoreWrite
    <3> QED
      BY <1>1, <3>1, <3>2 DEF Connection
  <2>2. SocketWrite(x, m) = z
    BY <1>2 DEF SocketWrite
  <2> HIDE DEF y, z
  <2>3. WriteInv(z) /\ ReadInv(z)
    BY <1>2, <2>1 DEF WriteInv, ReadInv, WriteReady
  <2>4. PipeInv(z, s, n)
    BY <2>1 DEF PipeInv, Pipe, Intact, Failed
  <2> QED
    BY <2>1, <2>2, <2>3, <2>4 DEF Sound, Keeps, Failed
<1>3. CASE ~x.open
  <2> DEFINE h == WriteHandler(FALSE)
             w == Queue(y, h)
  <2>1. h \in Handler /\ h.op = "write"
    BY EmptySeq DEF WriteHandler, Handler
  <2>2. SocketWrite(x, m) = w
    BY <1>3 DEF SocketWrite
  <2> HIDE DEF y, z, h
  <2>3. /\ w \in Connection
        /\ w.ready = Append(y.ready, h)
        /\ w.writes = y.writes /\ w.write_in_progress = y.write_in_progress
        /\ w.open = y.open /\ w.managed = y.managed
        /\ w.connection_type = y.connection_type
        /\ w.m_Subscriber = y.m_Subscriber
        /\ w.keepalive_ = y.keepalive_ /\ w.replies = y.replies
        /\ w.buf = y.buf
    BY <1>1, <2>1, QueueHas
  <2> HIDE DEF w
  <2>4. /\ Failed(y, {"read", "write"}) => Failed(w, {"read", "write"})
        /\ (\A i, j \in DOMAIN y.ready :
               y.ready[i].op = "write" /\ y.ready[j].op = "write" => i = j)
           /\ ~WriteReady(y)
           => \A i, j \in DOMAIN w.ready :
                 w.ready[i].op = "write" /\ w.ready[j].op = "write" => i = j
        /\ ReadInv(y) => ReadInv(w)
    <3>1. /\ y \in Connection /\ w \in Connection /\ h \in Handler
          /\ w.ready = Append(y.ready, h) /\ h.op # "read"
      BY <1>1, <2>1, <2>3
    <3>2. Failed(y, {"read", "write"}) => Failed(w, {"read", "write"})
      BY <3>1, ReadyAppend
    <3>3. (\A i, j \in DOMAIN y.ready :
              y.ready[i].op = "write" /\ y.ready[j].op = "write" => i = j)
          /\ ~WriteReady(y)
          => \A i, j \in DOMAIN w.ready :
                w.ready[i].op = "write" /\ w.ready[j].op = "write" => i = j
      BY <3>1, ReadyAppend
    <3>4. ReadInv(y) => ReadInv(w)
      BY <3>1, ReadyAppend
    <3> QED
      BY <3>2, <3>3, <3>4
  <2>5. WriteInv(w) /\ ReadInv(w)
    BY <1>1, <2>3, <2>4 DEF WriteInv, ReadInv, WriteReady
  <2>6. PipeInv(w, s, n)
    BY <1>1, <1>3, <2>3 DEF PipeInv, Intact
  <2> QED
    BY <1>1, <2>2, <2>3, <2>4, <2>5, <2>6 DEF Sound, Keeps, Failed
<1> QED
  BY <1>2, <1>3

\* MyWrite, of what is not a reply or of the reply to the next request.
LEMMA MyWriteSound ==
    ASSUME NEW x, NEW s, NEW n, NEW k, NEW m \in Message, Sound(x, s, n),
           \/ m.kind # "reply" /\ k = n
           \/ m = Reply(n + 1) /\ k = n + 1 /\ x.connection_type # "closing"
    PROVE  Sound(MyWrite(x, m), s, k) /\ Keeps(x, MyWrite(x, m))
<1>1. /\ x \in Connection /\ s \in Seq(Message) /\ n \in Nat /\ k \in Nat
      /\ WriteInv(x) /\ ReadInv(x) /\ PipeInv(x, s, n)
      /\ x.writeQ \in Seq(Message) /\ x.write_buffer \in Seq(Message)
  BY DEF Sound, Connection
<1>2. ASSUME Full(Pipe(x, s), n) PROVE Full(Append(Pipe(x, s), m), k)
  <2>1. Pipe(x, s) \in Seq(Message)
    BY <1>1, ConcatProperties, EmptySeq DEF Pipe
  <2> QED
    BY <1>1, <1>2, <2>1, AppendFull
<1>3. CASE x.connection_type = "closing"
  <2>1. k = n /\ MyWrite(x, m) = x
    BY <1>3 DEF MyWrite
  <2> QED
    BY <2>1 DEF Keeps
<1>4. CASE x.connection_type # "closing" /\ x.write_in_progress
  <2> DEFINE y == [x EXCEPT !.writeQ = Append(@, m)]
  <2>1. MyWrite(x, m) = y
    BY <1>4 DEF MyWrite
  <2>2. /\ y \in Connection /\ y.writeQ = Append(x.writeQ, m)
        /\ y.ready = x.ready /\ y.writes = x.writes
        /\ y.write_in_progress = x.write_in_progress
        /\ y.write_buffer = x.write_buffer
        /\ y.open = x.open /\ y.managed = x.managed
        /\ y.connection_type = x.connection_type
        /\ y.m_Subscriber = x.m_Subscriber
        /\ y.keepalive_ = x.keepalive_ /\ y.replies = x.replies
        /\ y.buf = x.buf
    BY <1>1, AppendProperties DEF Connection
  <2> HIDE DEF y
  <2>3. WriteInv(y) /\ ReadInv(y)
    BY <1>1, <2>2 DEF WriteInv, ReadInv, WriteReady
  <2>4. Pipe(y, s) = Append(Pipe(x, s), m)
    <3> DEFINE w == IF x.writes = 1 THEN x.write_buffer ELSE << >>
               a == s \o w
    <3>1. a \in Seq(Message)
      BY <1>1, ConcatProperties, EmptySeq
    <3>2. Pipe(x, s) = a \o x.writeQ /\ Pipe(y, s) = a \o y.writeQ
      BY <2>2 DEF Pipe
    <3> HIDE DEF w, a
    <3>3. a \o Append(x.writeQ, m) = Append(a \o x.writeQ, m)
      BY <1>1, <3>1, AppendBehind
    <3> QED
      BY <2>2, <3>2, <3>3
  <2>5. Intact(y) <=> Intact(x)
    BY <2>2 DEF Intact, Failed
  <2>6. PipeInv(y, s, k)
    BY <1>1, <1>2, <1>4, <2>2, <2>4, <2>5 DEF PipeInv
  <2> QED
    BY <1>1, <2>1, <2>2, <2>3, <2>6 DEF Sound, Keeps, Failed
<1>5. CASE x.connection_type # "closing" /\ ~x.write_in_progress
  <2>1. MyWrite(x, m) = SocketWrite(x, m)
    BY <1>5 DEF MyWrite
  <2>2. x.writes = 0 /\ ~WriteReady(x)
    BY <1>1, <1>5 DEF WriteInv, Connection
  <2>3. ASSUME Intact(x) PROVE Full((s \o <<m>>) \o x.writeQ, k)
    <3>1. x.writeQ = << >> /\ Full(Pipe(x, s), n)
      BY <1>1, <1>5, <2>3 DEF PipeInv
    <3>2. Pipe(x, s) = s
      BY <1>1, <2>2, <3>1, ConcatEmptySeq DEF Pipe
    <3>3. s \o <<m>> = Append(s, m) /\ <<m>> \in Seq(Message)
      BY <1>1, AppendIsConcat
    <3>4. (s \o <<m>>) \o x.writeQ = Append(s, m)
      BY <1>1, <3>1, <3>3, ConcatEmptySeq, AppendProperties
    <3> QED
      BY <1>2, <3>1, <3>2, <3>4
  <2>4. InOrder(s)
    BY <1>1 DEF PipeInv
  <2> QED
    BY <1>1, <2>1, <2>2, <2>3, <2>4, SocketWriteSound
<1> QED
  BY <1>3, <1>4, <1>5

-----------------------------------------------------------------------------
(* Stopping and reading.                                                   *)

Stopped(x, y) ==
    /\ ~y.open /\ ~y.managed
    /\ y.connection_type = x.connection_type /\ y.replies = x.replies
    /\ y.m_Subscriber => x.m_Subscriber /\ x.connection_type # "websocket"

\* The members that Stop sets, for any values of them.
StoppedAs(x, b, r) ==
    [[x EXCEPT !.managed = FALSE] EXCEPT
        !.m_Subscriber = b, !.open = FALSE, !.reading = FALSE, !.writes = 0,
        !.readTimer = FALSE, !.abandonedTimer = FALSE, !.ready = r]

LEMMA StopMembers ==
    ASSUME NEW x \in Connection, NEW b \in BOOLEAN, NEW r \in Seq(Handler)
    PROVE  LET y == StoppedAs(x, b, r)
           IN  /\ y \in Connection
               /\ ~y.managed /\ y.m_Subscriber = b /\ ~y.open
               /\ y.writes = 0 /\ y.ready = r
               /\ y.connection_type = x.connection_type
               /\ y.replies = x.replies
               /\ y.write_in_progress = x.write_in_progress
               /\ ~y.reading /\ y.writeQ = x.writeQ
               /\ y.vSubscriptions = x.vSubscriptions
<1> DEFINE y1 == [[x EXCEPT !.managed = FALSE] EXCEPT
                    !.m_Subscriber = b, !.open = FALSE, !.reading = FALSE]
           y2 == [y1 EXCEPT !.writes = 0]
           y3 == [y2 EXCEPT !.readTimer = FALSE, !.abandonedTimer = FALSE]
           y4 == [y3 EXCEPT !.ready = r]
           kept(z) == /\ z.connection_type = x.connection_type
                      /\ z.replies = x.replies
                      /\ z.write_in_progress = x.write_in_progress
                      /\ ~z.managed /\ z.m_Subscriber = b /\ ~z.open
                      /\ ~z.reading /\ z.writeQ = x.writeQ
                      /\ z.vSubscriptions = x.vSubscriptions
<1>1. y1 \in Connection /\ kept(y1)
  BY DEF Connection
<1>2. y2 \in Connection /\ kept(y2) /\ y2.writes = 0
  <2> HIDE DEF y1
  <2>1. 0 \in 0..1
    OBVIOUS
  <2>2. y2 \in Connection
    BY <1>1, <2>1, OneMoreWrite
  <2> QED
    BY <1>1, <2>2 DEF Connection
<1>3. y3 \in Connection /\ kept(y3) /\ y3.writes = 0
  <2> HIDE DEF y2
  <2> QED
    BY <1>2 DEF Connection
<1>4. y4 \in Connection /\ kept(y4) /\ y4.writes = 0 /\ y4.ready = r
  <2> HIDE DEF y3
  <2> QED
    BY <1>3 DEF Connection, Handler
<1>5. y4 = StoppedAs(x, b, r)
  BY Zenon DEF StoppedAs
<1> HIDE DEF y4
<1> QED
  BY <1>4, <1>5

\* A connection that is stopped aborts the write that is outstanding.
LEMMA ManagerStopSound ==
    ASSUME NEW x \in Connection, NEW s \in Seq(Message), NEW n \in Nat,
           WriteInv(x), ReadInv(x), InOrder(s)
    PROVE  Sound(ManagerStop(x), s, n) /\ Stopped(x, ManagerStop(x))
<1> DEFINE h == WriteHandler(FALSE)
           r == IF x.writes > 0 THEN Append(x.ready, h) ELSE x.ready
           b == x.m_Subscriber /\ x.connection_type # "websocket"
           y == ManagerStop(x)
<1>1. /\ h \in Handler /\ h.op = "write" /\ x.ready \in Seq(Handler)
      /\ x.writes \in 0..1
  BY EmptySeq DEF WriteHandler, Handler, Connection
<1>2. r \in Seq(Handler) /\ b \in BOOLEAN /\ 0 \in 0..1
  <2>1. Append(x.ready, h) \in Seq(Handler)
    BY <1>1, AppendProperties
  <2>2. b \in BOOLEAN
    OBVIOUS
  <2>3. 0 \in 0..1
    OBVIOUS
  <2> QED
    BY <1>1, <2>1, <2>2, <2>3
<1>3. y = StoppedAs(x, b, r)
  BY DEF ManagerStop, Stop, StoppedAs, Connection
<1> HIDE DEF h, y
<1>4. /\ y \in Connection
      /\ ~y.managed /\ y.m_Subscriber = b /\ ~y.open
      /\ y.writes = 0 /\ y.ready = r
      /\ y.connection_type = x.connection_type
      /\ y.replies = x.replies
      /\ y.write_in_progress = x.write_in_progress
  <2> HIDE DEF r, b
  <2> QED
    BY <1>2, <1>3, StopMembers
<1>5. WriteInv(y) /\ ReadInv(y)
  <2>1. CASE x.writes = 1
    <3>1. /\ y \in Connection /\ h \in Handler /\ h.op = "write"
          /\ y.ready = Append(x.ready, h)
          /\ x.write_in_progress /\ ~WriteReady(x)
      BY <1>1, <1>4, <2>1 DEF WriteInv
    <3>2. \A i, j \in DOMAIN y.ready :
             y.ready[i].op = "write" /\ y.ready[j].op = "write" => i = j
      <4>1. \A i, j \in DOMAIN x.ready :
               x.ready[i].op = "write" /\ x.ready[j].op = "write" => i = j
        BY DEF WriteInv
      <4> QED
        BY <3>1, <4>1, ReadyAppend
    <3>3. ReadInv(y)
      <4>1. h.op # "read"
        BY <3>1
      <4> QED
        BY <3>1, <4>1, ReadyAppend
    <3> QED
      BY <1>4, <3>1, <3>2, <3>3 DEF WriteInv
  <2>2. CASE x.writes = 0
    <3>1. y.ready = x.ready
      BY <1>4, <2>2
    <3>2. ReadInv(y)
      BY <3>1 DEF ReadInv
    <3>3. WriteReady(y) <=> WriteReady(x)
      BY <3>1 DEF WriteReady
    <3>4. WriteReady(y) => y.write_in_progress
      BY <1>4, <3>3 DEF WriteInv
    <3>5. y.writes # 1
      BY <1>4
    <3>6. \A i, j \in DOMAIN y.ready :
             y.ready[i].op = "write" /\ y.ready[j].op = "write" => i = j
      BY <3>1 DEF WriteInv
    <3> QED
      BY <3>2, <3>4, <3>5, <3>6 DEF WriteInv
  <2> QED
    BY <1>1, <2>1, <2>2
<1>6. PipeInv(y, s, n)
  BY <1>4 DEF PipeInv, Intact
<1> QED
  BY <1>4, <1>5, <1>6 DEF Sound, Stopped, y

\* The next read. On a socket that is closed it fails.
LEMMA ReadMoreSound ==
    ASSUME NEW x, NEW s, NEW n, Sound(x, s, n)
    PROVE  /\ Sound(read_more(x), s, n) /\ Keeps(x, read_more(x))
           /\ ~x.open => Failed(read_more(x), {"read", "write"})
<1> DEFINE y == [x EXCEPT !.readTimer = TRUE]
           z == [y EXCEPT !.reading = TRUE]
           h == ReadFailed
           w == Queue(y, h)
<1>1. x \in Connection
  BY DEF Sound
<1>2. /\ y \in Connection /\ y.ready = x.ready /\ y.writes = x.writes
      /\ y.open = x.open /\ y.write_in_progress = x.write_in_progress
      /\ y.write_buffer = x.write_buffer /\ y.writeQ = x.writeQ
      /\ y.managed = x.managed /\ y.connection_type = x.connection_type
      /\ y.m_Subscriber = x.m_Subscriber
      /\ y.keepalive_ = x.keepalive_ /\ y.replies = x.replies
      /\ y.buf = x.buf
  BY <1>1 DEF Connection
<1>3. Sound(y, s, n)
  <2> HIDE DEF y
  <2> QED
    BY <1>1, <1>2, SoundFrame
<1>4. CASE x.open
  <2>1. read_more(x) = z
    BY <1>4 DEF read_more
  <2> HIDE DEF y
  <2>2. /\ z \in Connection /\ z.ready = y.ready /\ z.writes = y.writes
        /\ z.open = y.open /\ z.write_in_progress = y.write_in_progress
        /\ z.write_buffer = y.write_buffer /\ z.writeQ = y.writeQ
        /\ z.managed = y.managed /\ z.connection_type = y.connection_type
        /\ z.m_Subscriber = y.m_Subscriber
        /\ z.keepalive_ = y.keepalive_ /\ z.replies = y.replies
        /\ z.buf = y.buf
    <3>1. z \in Connection
      BY <1>2 DEF Connection
    <3> QED
      BY <1>2, <3>1 DEF Connection
  <2> HIDE DEF z
  <2>3. Sound(z, s, n)
    BY <1>2, <1>3, <2>2, SoundFrame
  <2>4. Keeps(x, z)
    BY <1>2, <2>2 DEF Keeps, Failed
  <2> QED
    BY <1>4, <2>1, <2>3, <2>4
<1>5. CASE ~x.open
  <2>1. read_more(x) = w
    BY <1>5 DEF read_more
  <2>2. h \in Handler /\ h.op = "read" /\ ~h.ok
    BY EmptySeq DEF ReadFailed, Handler
  <2> HIDE DEF y, h
  <2>3. Sound(w, s, n) /\ Keeps(y, w)
    BY <1>3, <2>2, QueueSound
  <2>4. w \in Connection /\ w.ready = Append(y.ready, h)
    BY <1>2, <2>2, QueueHas
  <2> HIDE DEF w
  <2>5. Failed(w, {"read", "write"})
    BY <1>2, <2>2, <2>4, ReadyAppend
  <2> QED
    BY <1>2, <2>1, <2>3, <2>5 DEF Keeps
<1> QED
  BY <1>4, <1>5

-----------------------------------------------------------------------------
(* Handlers. x is the connection whose handler has been taken from ready.  *)

\* A handler has left y of x.
Settled(x, y, s) ==
    /\ Sound(y, s, y.replies)
    /\ SubInv(y)
    /\ x.managed \/ ~x.open => y.managed \/ ~y.open

LEMMA KeepsSettled ==
    ASSUME NEW x, NEW y, NEW s, Sound(y, s, x.replies), Keeps(x, y), SubInv(x)
    PROVE  Settled(x, y, s)
BY DEF Settled, Keeps, SubInv

LEMMA StopSettled ==
    ASSUME NEW x, NEW y, NEW z, NEW s, Sound(z, s, y.replies), Stopped(y, z),
           y.m_Subscriber => y.connection_type # "http"
    PROVE  Settled(x, z, s)
BY DEF Settled, Stopped, SubInv

\* What read_more leaves when the calls before it kept the connection.
LEMMA ReadMoreSettled ==
    ASSUME NEW x, NEW y, NEW s, Sound(y, s, y.replies),
           y.managed = x.managed, y.open = x.open,
           y.m_Subscriber => y.connection_type # "http"
    PROVE  Settled(x, read_more(y), s)
<1>1. /\ Sound(read_more(y), s, y.replies) /\ Keeps(y, read_more(y))
      /\ ~y.open => Failed(read_more(y), {"read", "write"})
  BY ReadMoreSound
<1> QED
  BY <1>1 DEF Settled, Keeps, SubInv

LEMMA DropType ==
    ASSUME NEW buf \in Seq(Item), NEW n \in 0..2
    PROVE  Drop(buf, n) \in Seq(Item)
<1>1. Len(buf) \in Nat /\ buf \in [1..Len(buf) -> Item]
  BY LenProperties
<1>2. \A i \in (n + 1)..Len(buf) : buf[i] \in Item
  BY <1>1
<1> QED
  BY <1>1, <1>2, SubSeqProperties DEF Drop

LEMMA DropItems ==
    ASSUME NEW buf \in Seq(Item), buf # << >>
    PROVE  /\ Head(buf) \in Item /\ Tail(buf) \in Seq(Item)
           /\ Drop(buf, FirstRequest(buf)) \in Seq(Item)
<1>1. FirstRequest(buf) \in 0..2
  BY DEF FirstRequest
<1>2. Head(buf) \in Item /\ Tail(buf) \in Seq(Item)
  BY HeadTailProperties
<1> QED
  BY <1>1, <1>2, DropType

\* The members that a request sets.
RequestAs(x, b, a, t, u) ==
    [x EXCEPT !.buf = b, !.keepalive_ = a, !.connection_type = t,
              !.m_Subscriber = u, !.replies = @ + 1]

LEMMA RequestMembers ==
    ASSUME NEW x \in Connection, NEW b \in Seq(Item), NEW a \in BOOLEAN,
           NEW t \in {"http", "websocket"}, NEW u \in BOOLEAN
    PROVE  LET y == RequestAs(x, b, a, t, u)
           IN  /\ y \in Connection
               /\ y.ready = x.ready /\ y.writes = x.writes /\ y.open = x.open
               /\ y.write_in_progress = x.write_in_progress
               /\ y.write_buffer = x.write_buffer /\ y.writeQ = x.writeQ
               /\ y.managed = x.managed /\ y.replies = x.replies + 1
               /\ y.connection_type = t /\ y.m_Subscriber = u
               /\ y.keepalive_ = a /\ y.reading = x.reading
               /\ y.vSubscriptions = x.vSubscriptions
<1> DEFINE y1 == [x EXCEPT !.buf = b, !.keepalive_ = a]
           y2 == [y1 EXCEPT !.connection_type = t, !.m_Subscriber = u]
           k == x.replies + 1
           y3 == [y2 EXCEPT !.replies = k]
           kept(z) == /\ z.ready = x.ready /\ z.writes = x.writes
                      /\ z.open = x.open
                      /\ z.write_in_progress = x.write_in_progress
                      /\ z.write_buffer = x.write_buffer
                      /\ z.writeQ = x.writeQ /\ z.managed = x.managed
                      /\ z.keepalive_ = a /\ z.reading = x.reading
                      /\ z.vSubscriptions = x.vSubscriptions
<1>1. y1 \in Connection /\ kept(y1) /\ y1.replies = x.replies
  BY DEF Connection
<1>2. /\ y2 \in Connection /\ kept(y2) /\ y2.replies = x.replies
      /\ y2.connection_type = t /\ y2.m_Subscriber = u
  <2> HIDE DEF y1
  <2> QED
    BY <1>1 DEF Connection
<1>3. /\ y3 \in Connection /\ kept(y3) /\ y3.replies = k
      /\ y3.connection_type = t /\ y3.m_Subscriber = u
  <2>1. k \in Nat
    BY DEF Connection
  <2> HIDE DEF y2, k
  <2> QED
    BY <1>2, <2>1 DEF Connection
<1>4. y3 = RequestAs(x, b, a, t, u)
  <2>1. y3 = [y2 EXCEPT !.replies = @ + 1]
    <3> HIDE DEF y2
    <3> QED
      BY <1>2
  <2> QED
    BY <2>1, Zenon DEF RequestAs
<1> HIDE DEF y3
<1> QED
  BY <1>3, <1>4

\* A request is replied to; the socket is kept, and so is the websocket's slot.
LEMMA HandleRequestSettled ==
    ASSUME NEW x, NEW s, Sound(x, s, x.replies), SubInv(x),
           x.connection_type = "http", x.buf # << >>
    PROVE  Settled(x, HandleRequest(x), s)
<1> DEFINE n == FirstRequest(x.buf)
           request == Head(x.buf)
           upgrade == request = "upgrade"
           alive == request \in {"request", "part", "upgrade"}
           b == IF request = "bad" THEN x.buf ELSE Drop(x.buf, n)
           t == IF upgrade THEN "websocket" ELSE x.connection_type
           u == x.m_Subscriber \/ upgrade
           y == RequestAs(x, b, alive, t, u)
           m == Reply(y.replies)
           z == MyWrite(y, m)
<1>1. /\ x \in Connection /\ s \in Seq(Message) /\ x.replies \in Nat
      /\ x.buf \in Seq(Item) /\ x.m_Subscriber = FALSE
  BY DEF Sound, SubInv, Connection
<1>2. HandleRequest(x) = IF n = 0 THEN read_more(x)
                         ELSE IF alive THEN read_more(z) ELSE z
  BY Zenon DEF HandleRequest, RequestAs
<1>3. ASSUME n # 0 PROVE Settled(x, read_more(z), s) /\ (~alive => Settled(x, z, s))
  <2>1. b \in Seq(Item)
    BY <1>1, <1>3, DropItems
  <2>2. alive \in BOOLEAN /\ t \in {"http", "websocket"} /\ u \in BOOLEAN
    OBVIOUS
  <2>3. (u => t # "http") /\ (~alive => ~u)
    BY <1>1
  <2> HIDE DEF n, request, alive, b, t, u
  <2>4. /\ y \in Connection
        /\ y.ready = x.ready /\ y.writes = x.writes /\ y.open = x.open
        /\ y.write_in_progress = x.write_in_progress
        /\ y.write_buffer = x.write_buffer /\ y.writeQ = x.writeQ
        /\ y.managed = x.managed /\ y.replies = x.replies + 1
        /\ y.connection_type = t /\ y.m_Subscriber = u
    <3>1. x \in Connection /\ y = RequestAs(x, b, alive, t, u)
      BY <1>1
    <3> HIDE DEF y
    <3> QED
      BY <2>1, <2>2, <3>1, RequestMembers
  <2> HIDE DEF y
  <2>5. Sound(y, s, x.replies)
    BY <1>1, <2>4, SoundFrame
  <2>6. m \in Message /\ m = Reply(x.replies + 1)
    BY <1>1, <2>4 DEF Message, Reply
  <2>7. y.connection_type # "closing"
    BY <2>2, <2>4
  <2> HIDE DEF m
  <2>8. Sound(z, s, x.replies + 1) /\ Keeps(y, z)
    BY <2>5, <2>6, <2>7, MyWriteSound
  <2> HIDE DEF z
  <2>9. /\ Sound(z, s, z.replies) /\ z.managed = x.managed /\ z.open = x.open
        /\ z.m_Subscriber = u /\ z.connection_type = t
    BY <2>4, <2>8 DEF Keeps
  <2>10. Settled(x, read_more(z), s)
    BY <2>3, <2>9, ReadMoreSettled
  <2>11. ASSUME ~alive PROVE Settled(x, z, s)
    BY <2>3, <2>9, <2>11 DEF Settled, SubInv
  <2> QED
    BY <2>10, <2>11
<1>4. Settled(x, read_more(x), s)
  BY ReadMoreSettled DEF SubInv
<1> QED
  BY <1>2, <1>3, <1>4

\* The members that reading and parsing a frame sets.
FrameAs(x, b, o, p) ==
    [x EXCEPT !.buf = b, !.last_opcode = o, !.start_new_packet = p]

LEMMA FrameMembers ==
    ASSUME NEW x \in Connection, NEW b \in Seq(Item), NEW o \in Item,
           NEW p \in BOOLEAN
    PROVE  LET y == FrameAs(x, b, o, p)
           IN  /\ y \in Connection
               /\ y.ready = x.ready /\ y.writes = x.writes /\ y.open = x.open
               /\ y.write_in_progress = x.write_in_progress
               /\ y.write_buffer = x.write_buffer /\ y.writeQ = x.writeQ
               /\ y.managed = x.managed /\ y.replies = x.replies
               /\ y.connection_type = x.connection_type
               /\ y.m_Subscriber = x.m_Subscriber
BY DEF FrameAs, Connection

\* A frame is answered, or not; only a text after the close frame turns the
\* connection into one that is closing.
LEMMA HandleFrameSettled ==
    ASSUME NEW x, NEW s, Sound(x, s, x.replies), SubInv(x),
           x.connection_type # "http", x.buf # << >>
    PROVE  Settled(x, HandleFrame(x), s)
<1> DEFINE frame == Head(x.buf)
           opcode == IF frame = "fragment" THEN "text" ELSE frame
           o == IF x.start_new_packet THEN opcode ELSE x.last_opcode
           p == frame # "fragment"
           b == Tail(x.buf)
           y == FrameAs(x, b, o, p)
           z == [y EXCEPT !.vSubscriptions = TRUE]
           closing == [z EXCEPT !.connection_type = "closing"]
           w == MyWrite(y, Other("close"))
           v == [w EXCEPT !.keepalive_ = FALSE]
           pong == MyWrite(y, Other("pong"))
           r == HandleFrame(x)
<1>1. x \in Connection /\ s \in Seq(Message) /\ x.buf \in Seq(Item)
  BY DEF Sound, Connection
<1>2. \/ r = read_more(y) \/ r = read_more(z) \/ r = closing
      \/ r = read_more(v) \/ r = read_more(pong)
  BY DEF HandleFrame, FrameAs
<1>3. b \in Seq(Item) /\ o \in Item /\ p \in BOOLEAN
  <2>1. Head(x.buf) \in Item /\ b \in Seq(Item)
    BY <1>1, DropItems
  <2>2. x.last_opcode \in Item
    BY <1>1 DEF Connection
  <2>3. opcode \in Item
    BY <2>1 DEF Item, Frame
  <2> QED
    BY <2>1, <2>2, <2>3
<1> HIDE DEF r, frame, opcode, o, p, b
<1>4. y = FrameAs(x, b, o, p)
  OBVIOUS
<1> HIDE DEF y
<1>5. /\ y \in Connection
      /\ y.ready = x.ready /\ y.writes = x.writes /\ y.open = x.open
      /\ y.write_in_progress = x.write_in_progress
      /\ y.write_buffer = x.write_buffer /\ y.writeQ = x.writeQ
      /\ y.managed = x.managed /\ y.replies = x.replies
      /\ y.connection_type = x.connection_type
      /\ y.m_Subscriber = x.m_Subscriber
  BY <1>1, <1>3, <1>4, FrameMembers
<1>6. Sound(y, s, y.replies) /\ (y.m_Subscriber => y.connection_type # "http")
  BY <1>1, <1>5, SoundFrame DEF SubInv
<1>7. Settled(x, read_more(y), s)
  BY <1>5, <1>6, ReadMoreSettled
<1>8. /\ z \in Connection
      /\ z.ready = y.ready /\ z.writes = y.writes /\ z.open = y.open
      /\ z.write_in_progress = y.write_in_progress
      /\ z.write_buffer = y.write_buffer /\ z.writeQ = y.writeQ
      /\ z.managed = y.managed /\ z.replies = y.replies
      /\ z.connection_type = y.connection_type
      /\ z.m_Subscriber = y.m_Subscriber
  BY <1>5 DEF Connection
<1> HIDE DEF z
<1>9. Sound(z, s, z.replies)
  BY <1>5, <1>6, <1>8, SoundFrame
<1>10. Settled(x, read_more(z), s)
  BY <1>5, <1>6, <1>8, <1>9, ReadMoreSettled
<1>11. Settled(x, closing, s)
  <2>1. /\ closing \in Connection
        /\ closing.ready = z.ready /\ closing.writes = z.writes
        /\ closing.open = z.open
        /\ closing.write_in_progress = z.write_in_progress
        /\ closing.write_buffer = z.write_buffer /\ closing.writeQ = z.writeQ
        /\ closing.managed = z.managed /\ closing.replies = z.replies
        /\ closing.connection_type = "closing"
    BY <1>8 DEF Connection
  <2> HIDE DEF closing
  <2>2. Sound(closing, s, closing.replies)
    BY <1>8, <1>9, <2>1, SoundFrame
  <2> QED
    BY <1>5, <1>8, <2>1, <2>2 DEF Settled, SubInv
<1>12. ASSUME NEW kind \in {"close", "pong"}
       PROVE  /\ Sound(MyWrite(y, Other(kind)), s, y.replies)
              /\ Keeps(y, MyWrite(y, Other(kind)))
  <2>1. Other(kind) \in Message /\ Other(kind).kind # "reply"
    BY DEF Other, Message
  <2> QED
    BY <1>6, <2>1, MyWriteSound
<1>13. Settled(x, read_more(pong), s)
  <2>1. Sound(pong, s, y.replies) /\ Keeps(y, pong)
    BY <1>12
  <2> HIDE DEF pong
  <2> QED
    BY <1>5, <1>6, <2>1, ReadMoreSettled DEF Keeps
<1>14. Settled(x, read_more(v), s)
  <2>1. Sound(w, s, y.replies) /\ Keeps(y, w)
    BY <1>12
  <2> HIDE DEF w
  <2>2. w \in Connection
    BY <2>1 DEF Sound
  <2>3. /\ v \in Connection
        /\ v.ready = w.ready /\ v.writes = w.writes /\ v.open = w.open
        /\ v.write_in_progress = w.write_in_progress
        /\ v.write_buffer = w.write_buffer /\ v.writeQ = w.writeQ
        /\ v.managed = w.managed /\ v.replies = w.replies
        /\ v.connection_type = w.connection_type
        /\ v.m_Subscriber = w.m_Subscriber
    BY <2>2 DEF Connection
  <2> HIDE DEF v
  <2>4. Sound(v, s, y.replies)
    BY <2>1, <2>2, <2>3, SoundFrame
  <2> QED
    BY <1>5, <1>6, <2>1, <2>3, <2>4, ReadMoreSettled DEF Keeps
<1> QED
  BY <1>2, <1>7, <1>10, <1>11, <1>13, <1>14 DEF r

\* handle_read. A read that failed stops the connection.
LEMMA HandleReadSettled ==
    ASSUME NEW x, NEW s, NEW ok \in BOOLEAN, NEW items \in Seq(Item),
           Sound(x, s, x.replies),
           x.m_Subscriber => x.connection_type # "http",
           ok => SubInv(x) /\ items # << >>
    PROVE  Settled(x, handle_read(x, ok, items), s)
<1> DEFINE b == x.buf \o items
           y == [x EXCEPT !.readTimer = FALSE, !.buf = b]
<1>1. x \in Connection /\ x.buf \in Seq(Item) /\ s \in Seq(Message)
  BY DEF Sound, Connection
<1>2. b \in Seq(Item) /\ (items # << >> => b # << >>)
  BY <1>1, ConcatProperties, ConcatEqualIffEmpty
<1>3. handle_read(x, ok, items) =
         IF ~ok THEN ManagerStop(y)
         ELSE IF y.connection_type = "http" THEN HandleRequest(y) ELSE HandleFrame(y)
  BY DEF handle_read
<1> HIDE DEF b
<1>4. /\ y \in Connection
      /\ y.ready = x.ready /\ y.writes = x.writes /\ y.open = x.open
      /\ y.write_in_progress = x.write_in_progress
      /\ y.write_buffer = x.write_buffer /\ y.writeQ = x.writeQ
      /\ y.managed = x.managed /\ y.replies = x.replies
      /\ y.connection_type = x.connection_type
      /\ y.m_Subscriber = x.m_Subscriber /\ y.buf = b
  BY <1>1, <1>2 DEF Connection
<1> HIDE DEF y
<1>5. Sound(y, s, y.replies)
  BY <1>1, <1>4, SoundFrame
<1>6. CASE ~ok
  <2>1. Sound(ManagerStop(y), s, y.replies) /\ Stopped(y, ManagerStop(y))
    BY <1>4, <1>5, ManagerStopSound DEF Sound, PipeInv
  <2> QED
    BY <1>3, <1>4, <1>6, <2>1, StopSettled
<1>7. CASE ok
  <2>1. SubInv(y) /\ y.buf # << >>
    BY <1>2, <1>4, <1>7 DEF SubInv, Failed
  <2>2. Settled(y, handle_read(x, ok, items), s)
    BY <1>3, <1>5, <1>7, <2>1, HandleRequestSettled, HandleFrameSettled
  <2> QED
    BY <1>4, <2>2 DEF Settled
<1> QED
  BY <1>6, <1>7

\* handle_write, once the write that it handles is the only one.
LEMMA HandleWriteSettled ==
    ASSUME NEW x \in Connection, NEW s \in Seq(Message), NEW ok \in BOOLEAN,
           WriteInv(x), ReadInv(x), InOrder(s), x.writes = 0, ~WriteReady(x),
           x.m_Subscriber => x.connection_type # "http",
           ok => SubInv(x),
           ok /\ Intact(x) => Full(Pipe(x, s), x.replies)
    PROVE  Settled(x, handle_write(x, ok), s)
<1> DEFINE y == [x EXCEPT !.write_in_progress = FALSE, !.write_buffer = << >>]
           m == Head(y.writeQ)
           q == Tail(y.writeQ)
           y1 == [y EXCEPT !.writeQ = q]
           z == IF ok /\ y.writeQ # << >> THEN SocketWrite(y1, m) ELSE y
           kept(a) == /\ a.ready = x.ready /\ a.writes = 0 /\ a.open = x.open
                      /\ a.managed = x.managed /\ a.replies = x.replies
                      /\ a.connection_type = x.connection_type
                      /\ a.m_Subscriber = x.m_Subscriber
                      /\ a.keepalive_ = x.keepalive_ /\ a.buf = x.buf
<1>1. handle_write(x, ok) = IF ok /\ x.keepalive_
                            THEN [z EXCEPT !.abandonedTimer = TRUE]
                            ELSE ManagerStop(z)
  BY DEF handle_write
<1>2. /\ y \in Connection /\ kept(y) /\ ~y.write_in_progress
      /\ y.writeQ = x.writeQ
  BY EmptySeq DEF Connection
<1> HIDE DEF y
<1>3. ASSUME NEW a, kept(a) PROVE WriteInv(a) /\ ReadInv(a) /\ ~WriteReady(a)
  BY <1>3 DEF WriteInv, ReadInv, WriteReady
<1>4. x.writeQ \in Seq(Message) /\ x.replies \in Nat
  BY DEF Connection
<1>5. ASSUME ok, y.writeQ # << >>
      PROVE  Sound(z, s, z.replies) /\ Keeps(x, z)
  <2>1. m \in Message /\ q \in Seq(Message)
    BY <1>2, <1>4, <1>5, HeadTailProperties
  <2>2. x.writeQ = <<m>> \o q
    BY <1>2, <1>4, <1>5
  <2> HIDE DEF m, q
  <2>3. y1 \in Connection /\ kept(y1) /\ y1.writeQ = q
    BY <1>2, <2>1 DEF Connection
  <2> HIDE DEF y1
  <2>4. WriteInv(y1) /\ ReadInv(y1) /\ ~WriteReady(y1)
    BY <1>3, <2>3
  <2>5. ASSUME Intact(y1) PROVE Full((s \o <<m>>) \o y1.writeQ, x.replies)
    <3> DEFINE b == <<m>>
    <3>1. b \in Seq(Message)
      BY <2>1
    <3>2. Pipe(x, s) = s \o x.writeQ
      BY ConcatEmptySeq DEF Pipe
    <3>3. Intact(x)
      BY <2>3, <2>5 DEF Intact, Failed
    <3>4. x.writeQ = b \o q
      BY <2>2
    <3> HIDE DEF b
    <3>5. (s \o b) \o q = s \o (b \o q)
      BY <2>1, <3>1, ConcatAssociative
    <3>6. (s \o b) \o y1.writeQ = Pipe(x, s)
      BY <2>3, <3>2, <3>4, <3>5
    <3> QED
      BY <1>5, <3>3, <3>6 DEF b
  <2>6. /\ Sound(SocketWrite(y1, m), s, x.replies)
        /\ Keeps(y1, SocketWrite(y1, m))
    BY <1>4, <2>1, <2>3, <2>4, <2>5, SocketWriteSound
  <2> QED
    BY <1>5, <2>3, <2>6 DEF Keeps, Failed
<1>6. ASSUME ok, y.writeQ = << >>
      PROVE  Sound(z, s, z.replies) /\ Keeps(x, z)
  <2>1. z = y
    BY <1>6
  <2>2. Pipe(y, s) = Pipe(x, s)
    BY <1>2 DEF Pipe
  <2>3. Intact(y) <=> Intact(x)
    BY <1>2 DEF Intact, Failed
  <2>4. PipeInv(y, s, y.replies)
    BY <1>2, <1>6, <2>2, <2>3 DEF PipeInv
  <2> QED
    BY <1>2, <1>3, <1>4, <2>1, <2>4 DEF Sound, Keeps, Failed
<1>7. /\ z \in Connection /\ WriteInv(z) /\ ReadInv(z)
      /\ z.m_Subscriber = x.m_Subscriber
      /\ z.connection_type = x.connection_type /\ z.replies = x.replies
  <2>1. CASE ok
    BY <1>5, <1>6, <2>1 DEF Sound, Keeps
  <2>2. CASE ~ok
    BY <1>2, <1>3, <2>2
  <2> QED
    BY <2>1, <2>2
<1>8. CASE ok /\ x.keepalive_
  <2> DEFINE v == [z EXCEPT !.abandonedTimer = TRUE]
  <2>1. Sound(z, s, z.replies) /\ Keeps(x, z)
    BY <1>5, <1>6, <1>8
  <2> HIDE DEF z
  <2>2. /\ v \in Connection
        /\ v.ready = z.ready /\ v.writes = z.writes /\ v.open = z.open
        /\ v.write_in_progress = z.write_in_progress
        /\ v.write_buffer = z.write_buffer /\ v.writeQ = z.writeQ
        /\ v.managed = z.managed /\ v.replies = z.replies
        /\ v.connection_type = z.connection_type
        /\ v.m_Subscriber = z.m_Subscriber
    BY <1>7 DEF Connection
  <2>3. handle_write(x, ok) = v
    BY <1>1, <1>8
  <2> HIDE DEF v
  <2>4. Sound(v, s, v.replies)
    BY <1>7, <2>1, <2>2, SoundFrame
  <2> QED
    BY <1>8, <2>1, <2>2, <2>3, <2>4 DEF Settled, Keeps, SubInv, Failed
<1>9. CASE ~(ok /\ x.keepalive_)
  <2> HIDE DEF z
  <2>1. Sound(ManagerStop(z), s, z.replies) /\ Stopped(z, ManagerStop(z))
    BY <1>4, <1>7, ManagerStopSound
  <2>2. Settled(x, ManagerStop(z), s)
    BY <1>7, <2>1, StopSettled
  <2> QED
    BY <1>1, <1>9, <2>2
<1> QED
  BY <1>8, <1>9

\* The timers.
LEMMA TimeoutSettled ==
    ASSUME NEW x, NEW s, Sound(x, s, x.replies), SubInv(x)
    PROVE  /\ Settled(x, handle_read_timeout(x), s)
           /\ Settled(x, handle_abandoned_timeout(x), s)
<1>1. Settled(x, ManagerStop(x), s)
  <2>1. Sound(ManagerStop(x), s, x.replies) /\ Stopped(x, ManagerStop(x))
    BY ManagerStopSound DEF Sound, PipeInv
  <2> QED
    BY <2>1, StopSettled DEF SubInv
<1>2. Settled(x, MyWrite(x, Other("ping")), s)
  <2>1. Other("ping") \in Message /\ Other("ping").kind # "reply"
    BY DEF Other, Message
  <2>2. /\ Sound(MyWrite(x, Other("ping")), s, x.replies)
        /\ Keeps(x, MyWrite(x, Other("ping")))
    BY <2>1, MyWriteSound
  <2> QED
    BY <2>2, KeepsSettled
<1> QED
  BY <1>1, <1>2 DEF handle_read_timeout, handle_abandoned_timeout

\* A write that ends, well or not.
LEMMA WriteDone ==
    ASSUME NEW x, NEW s, NEW ok \in BOOLEAN, Sound(x, s, x.replies), x.writes > 0
    PROVE  LET y == Queue([x EXCEPT !.writes = @ - 1], WriteHandler(ok))
           IN  /\ Sound(y, IF ok THEN s \o x.write_buffer ELSE s, y.replies)
               /\ Keeps(x, y)
<1> DEFINE x0 == [x EXCEPT !.writes = 0]
           h == WriteHandler(ok)
           y == Queue(x0, h)
           t == IF ok THEN s \o x.write_buffer ELSE s
<1>1. /\ x \in Connection /\ s \in Seq(Message) /\ x.replies \in Nat
      /\ x.write_buffer \in Seq(Message) /\ x.writeQ \in Seq(Message)
      /\ x.writes = 1 /\ x.write_in_progress /\ x.open /\ ~WriteReady(x)
  BY DEF Sound, Connection, WriteInv
<1>2. [x EXCEPT !.writes = @ - 1] = x0
  BY <1>1
<1>3. /\ x0 \in Connection
      /\ x0.ready = x.ready /\ x0.writes = 0 /\ x0.open = x.open
      /\ x0.write_in_progress = x.write_in_progress
      /\ x0.write_buffer = x.write_buffer /\ x0.writeQ = x.writeQ
      /\ x0.managed = x.managed /\ x0.replies = x.replies
      /\ x0.connection_type = x.connection_type
      /\ x0.m_Subscriber = x.m_Subscriber
      /\ x0.keepalive_ = x.keepalive_ /\ x0.buf = x.buf
  <2>1. 0 \in 0..1
    OBVIOUS
  <2>2. x0 \in Connection
    BY <1>1, <2>1, OneMoreWrite
  <2> QED
    BY <1>1, <2>2 DEF Connection
<1>4. h \in Handler /\ h.op = "write" /\ h.ok = ok
  BY EmptySeq DEF WriteHandler, Handler
<1> HIDE DEF x0, h
<1>5. /\ y \in Connection
      /\ y.ready = Append(x0.ready, h)
      /\ y.writes = x0.writes /\ y.write_in_progress = x0.write_in_progress
      /\ y.write_buffer = x0.write_buffer /\ y.writeQ = x0.writeQ
      /\ y.open = x0.open /\ y.managed = x0.managed
      /\ y.connection_type = x0.connection_type
      /\ y.m_Subscriber = x0.m_Subscriber
      /\ y.keepalive_ = x0.keepalive_ /\ y.replies = x0.replies
      /\ y.buf = x0.buf
  BY <1>3, <1>4, QueueHas
<1> HIDE DEF y
<1>6. /\ Failed(y, {"write"}) <=> Failed(x0, {"write"}) \/ ~ok
      /\ Failed(x0, {"read", "write"}) => Failed(y, {"read", "write"})
  BY <1>3, <1>4, <1>5, ReadyAppend
<1>7. /\ ~WriteReady(x0) /\ ReadInv(x0)
      /\ \A i, j \in DOMAIN x0.ready :
            x0.ready[i].op = "write" /\ x0.ready[j].op = "write" => i = j
  BY <1>1, <1>3 DEF Sound, WriteInv, ReadInv, WriteReady
<1>8. \A i, j \in DOMAIN y.ready :
         y.ready[i].op = "write" /\ y.ready[j].op = "write" => i = j
  <2>1. y \in Connection /\ y.ready = Append(x0.ready, h)
    BY <1>5
  <2> QED
    BY <1>3, <1>4, <1>7, <2>1, ReadyAppend
<1>9. ReadInv(y)
  <2>1. h.op # "read"
    BY <1>4
  <2> QED
    BY <1>3, <1>4, <1>5, <1>7, <2>1, ReadyAppend
<1>10. WriteInv(y)
  BY <1>1, <1>3, <1>5, <1>8 DEF WriteInv
<1>11. Full(Pipe(x, s), x.replies) /\ Pipe(x, s) = (s \o x.write_buffer) \o x.writeQ
  BY <1>1 DEF Sound, PipeInv, Intact, Failed, WriteReady, Pipe
<1>12. t \in Seq(Message)
  BY <1>1, ConcatProperties
<1>13. PipeInv(y, t, x.replies)
  <2>1. CASE ok
    <3>1. Pipe(y, t) = Pipe(x, s)
      <4>1. Pipe(y, t) = (t \o << >>) \o x.writeQ
        BY <1>3, <1>5 DEF Pipe
      <4>2. t \o << >> = t
        BY <1>12, ConcatEmptySeq
      <4>3. t = s \o x.write_buffer
        BY <2>1
      <4> HIDE DEF t
      <4>4. Pipe(y, t) = t \o x.writeQ
        BY <4>1, <4>2
      <4> QED
        BY <1>11, <4>3, <4>4, Zenon
    <3>2. InOrder(t)
      BY <1>1, <1>11, <1>12, <2>1, PrefixInOrder DEF Full
    <3> QED
      BY <1>1, <1>3, <1>5, <1>11, <3>1, <3>2 DEF PipeInv
  <2>2. CASE ~ok
    BY <1>6, <2>2 DEF PipeInv, Intact, Sound
  <2> QED
    BY <2>1, <2>2
<1>14. Sound(y, t, y.replies)
  BY <1>1, <1>3, <1>5, <1>9, <1>10, <1>12, <1>13 DEF Sound
<1>15. Keeps(x, y)
  BY <1>3, <1>5, <1>6 DEF Keeps, Failed
<1> QED
  BY <1>2, <1>14, <1>15 DEF y, h

-----------------------------------------------------------------------------
(* The steps.                                                              *)

LEMMA InitConnInv == Init => ConnInv
<1> SUFFICES ASSUME Init PROVE ConnInv
  OBVIOUS
<1>1. << >> \in Seq(Item) /\ << >> \in Seq(Message) /\ << >> \in Seq(Handler)
  BY EmptySeq
<1>2. /\ c.ready = << >> /\ c.writes = 0 /\ ~c.m_Subscriber /\ c.replies = 0
      /\ c.writeQ = << >> /\ sent = << >> /\ ~started
  BY DEF Init
<1>3. c \in Connection
  <2>1. "text" \in Item
    BY DEF Item, Frame
  <2>2. 0 \in 0..1
    OBVIOUS
  <2> QED
    BY <1>1, <2>1, <2>2, Zenon DEF Init, Connection, Handler
<1>4. TypeOK
  <2>1. /\ started = FALSE /\ toSend \in Scripts /\ sent = << >>
        /\ publisher = "idle" /\ pushes = 0
        /\ patient = TRUE /\ undisturbed = TRUE
    BY DEF Init
  <2>2. Scripts \subseteq Seq(Item) /\ pushes \in 0..MaxPushes
    BY <2>1, InputAssumption
  <2> QED
    BY <1>1, <1>3, <2>1, <2>2 DEF TypeOK
<1>5. WriteInv(c) /\ ReadInv(c) /\ ~WriteReady(c)
  BY <1>2 DEF WriteInv, ReadInv, WriteReady
<1>6. InOrder(sent)
  BY <1>2 DEF InOrder
<1>7. Pipe(c, sent) = << >>
  BY <1>1, <1>2, ConcatEmptySeq DEF Pipe
<1>8. Full(Pipe(c, sent), 0)
  BY <1>7 DEF Full, InOrder
<1>9. PipeInv(c, sent, c.replies)
  BY <1>2, <1>6, <1>8 DEF PipeInv
<1> QED
  BY <1>1, <1>2, <1>3, <1>4, <1>5, <1>9 DEF ConnInv, Sound, SubInv

\* A connection that a handler leaves keeps the invariant.
LEMMA SettledConnInv ==
    ASSUME ConnInv, Settled(c, c', sent), sent' = sent, started' = started,
           TypeOK /\ c' \in Connection => TypeOK'
    PROVE  ConnInv'
BY DEF ConnInv, Settled, Sound

LEMMA StartConnInv == ConnInv /\ Start => ConnInv'
<1> SUFFICES ASSUME ConnInv, Start PROVE ConnInv'
  OBVIOUS
<1>1. /\ Sound(c, sent, c.replies) /\ SubInv(c) /\ c \in Connection
      /\ sent' = sent /\ started'
  BY DEF ConnInv, Sound, Start
<1>2. Settled(c, c', sent) /\ (c'.managed \/ ~c'.open)
  <2>1. CASE c' = ManagerStop(c)
    <3>1. /\ Sound(ManagerStop(c), sent, c.replies)
          /\ Stopped(c, ManagerStop(c))
      BY <1>1, ManagerStopSound DEF Sound, PipeInv
    <3> QED
      BY <1>1, <2>1, <3>1, StopSettled DEF SubInv, Stopped
  <2>2. CASE c' = read_more([c EXCEPT !.managed = TRUE, !.abandonedTimer = TRUE])
    <3> DEFINE y == [c EXCEPT !.managed = TRUE, !.abandonedTimer = TRUE]
    <3>1. /\ y \in Connection
          /\ y.ready = c.ready /\ y.writes = c.writes /\ y.open = c.open
          /\ y.write_in_progress = c.write_in_progress
          /\ y.write_buffer = c.write_buffer /\ y.writeQ = c.writeQ
          /\ y.managed /\ y.replies = c.replies
          /\ y.connection_type = c.connection_type
          /\ y.m_Subscriber = c.m_Subscriber
      BY <1>1 DEF Connection
    <3>2. c' = read_more(y)
      BY <2>2
    <3> HIDE DEF y
    <3>3. Sound(y, sent, y.replies)
      BY <1>1, <3>1, SoundFrame
    <3>4. Settled(y, read_more(y), sent)
      BY <1>1, <3>1, <3>3, ReadMoreSettled DEF SubInv
    <3> QED
      BY <3>1, <3>2, <3>4 DEF Settled
  <2> QED
    BY <2>1, <2>2 DEF Start
<1>3. TypeOK'
  BY <1>2 DEF ConnInv, TypeOK, Start, Settled, Sound, history, Fails
<1> QED
  BY <1>1, <1>2, <1>3 DEF ConnInv, Settled

LEMMA RunHandlerConnInv == ConnInv /\ RunHandler => ConnInv'
<1> SUFFICES ASSUME ConnInv, RunHandler PROVE ConnInv'
  OBVIOUS
<1> DEFINE h == Head(c.ready)
           q == Tail(c.ready)
           x == [c EXCEPT !.ready = q]
<1>1. /\ Sound(c, sent, c.replies) /\ SubInv(c) /\ c \in Connection
      /\ sent \in Seq(Message) /\ c.ready # << >>
      /\ c.ready \in Seq(Handler)
  BY DEF ConnInv, Sound, RunHandler, Connection, Handler
<1>2. q \in Seq(Handler)
  BY <1>1, HeadTailProperties
<1>3. c' = CASE h.op = "read" -> handle_read(x, h.ok, h.items)
             [] h.op = "write" -> handle_write(x, h.ok)
             [] h.op = "readTimer" -> handle_read_timeout(x)
             [] h.op = "abandonedTimer" -> handle_abandoned_timeout(x)
  BY DEF RunHandler
<1>4. q = Tail(c.ready) /\ h = Head(c.ready)
  OBVIOUS
<1> HIDE DEF h, q
<1>5. /\ x \in Connection /\ x.ready = q
      /\ x.writes = c.writes /\ x.open = c.open
      /\ x.write_in_progress = c.write_in_progress
      /\ x.write_buffer = c.write_buffer /\ x.writeQ = c.writeQ
      /\ x.managed = c.managed /\ x.replies = c.replies
      /\ x.connection_type = c.connection_type
      /\ x.m_Subscriber = c.m_Subscriber
  BY <1>1, <1>2 DEF Connection, Handler
<1> HIDE DEF x
<1>6. /\ h \in Handler
      /\ WriteReady(x) => WriteReady(c)
      /\ h.op = "write" => WriteReady(c)
      /\ \A ops : Failed(c, ops) <=> Failed(x, ops) \/ (~h.ok /\ h.op \in ops)
      /\ h.op = "write" => ~WriteReady(x)
      /\ \A i, j \in DOMAIN x.ready :
            x.ready[i].op = "write" /\ x.ready[j].op = "write" => i = j
      /\ ReadInv(x)
      /\ h.op = "read" /\ h.ok => h.items # << >>
  BY <1>1, <1>4, <1>5, ReadyTail DEF Sound, WriteInv
<1>7. h.ok \in BOOLEAN /\ h.items \in Seq(Item)
      /\ h.op \in {"read", "write", "readTimer", "abandonedTimer"}
  BY <1>6 DEF Handler
<1>8. WriteInv(x)
  BY <1>1, <1>5, <1>6 DEF Sound, WriteInv
<1>9. Pipe(x, sent) = Pipe(c, sent)
  BY <1>5 DEF Pipe
<1>10. /\ x.m_Subscriber => x.connection_type # "http"
       /\ h.ok \/ h.op \notin {"read", "write"} => SubInv(x)
  <2>1. Failed(c, {"read", "write"}) <=>
           Failed(x, {"read", "write"}) \/ (~h.ok /\ h.op \in {"read", "write"})
    BY <1>6
  <2> QED
    BY <1>1, <1>5, <2>1 DEF SubInv
<1>11. ASSUME h.op # "write" PROVE Sound(x, sent, x.replies)
  <2>1. Failed(c, {"write"}) <=> Failed(x, {"write"})
    BY <1>6, <1>11
  <2>2. PipeInv(x, sent, x.replies)
    BY <1>1, <1>5, <1>9, <2>1 DEF Sound, PipeInv, Intact
  <2> QED
    BY <1>1, <1>5, <1>6, <1>8, <2>2 DEF Sound
<1>12. Settled(x, c', sent)
  <2>1. CASE h.op = "read"
    <3>1. c' = handle_read(x, h.ok, h.items)
      BY <1>3, <2>1
    <3>2. Settled(x, handle_read(x, h.ok, h.items), sent)
      BY <1>6, <1>7, <1>10, <1>11, <2>1, HandleReadSettled
    <3> QED
      BY <3>1, <3>2
  <2>2. CASE h.op = "write"
    <3>1. c' = handle_write(x, h.ok)
      BY <1>3, <2>2
    <3>2. x.writes = 0 /\ ~WriteReady(x)
      BY <1>1, <1>5, <1>6, <2>2 DEF Sound, WriteInv, Connection
    <3>3. ASSUME h.ok, Intact(x) PROVE Full(Pipe(x, sent), x.replies)
      <4>1. Failed(c, {"write"}) <=> Failed(x, {"write"})
        BY <1>6, <3>3
      <4> QED
        BY <1>1, <1>5, <1>9, <3>3, <4>1 DEF Sound, PipeInv, Intact
    <3>4. InOrder(sent)
      BY <1>1 DEF Sound, PipeInv
    <3>5. Settled(x, handle_write(x, h.ok), sent)
      BY <1>1, <1>5, <1>6, <1>7, <1>8, <1>10, <3>2, <3>3, <3>4, HandleWriteSettled
    <3> QED
      BY <3>1, <3>5
  <2>3. CASE h.op = "readTimer"
    <3>1. c' = handle_read_timeout(x)
      BY <1>3, <2>3
    <3>2. Sound(x, sent, x.replies) /\ SubInv(x)
      BY <1>10, <1>11, <2>3
    <3> QED
      BY <3>1, <3>2, TimeoutSettled
  <2>4. CASE h.op = "abandonedTimer"
    <3>1. c' = handle_abandoned_timeout(x)
      BY <1>3, <2>4
    <3>2. Sound(x, sent, x.replies) /\ SubInv(x)
      BY <1>10, <1>11, <2>4
    <3> QED
      BY <3>1, <3>2, TimeoutSettled
  <2> QED
    BY <1>7, <2>1, <2>2, <2>3, <2>4
<1>13. Settled(c, c', sent)
  BY <1>5, <1>12 DEF Settled
<1>14. sent' = sent /\ started' = started /\ (TypeOK /\ c' \in Connection => TypeOK')
  BY DEF RunHandler, TypeOK, history
<1> QED
  BY <1>13, <1>14, SettledConnInv

\* The steps that queue one handler, other than that of a write.
LEMMA QueueConnInv ==
    ASSUME ConnInv, NEW x \in Connection, NEW h \in Handler,
           x.ready = c.ready, x.writes = c.writes, x.open = c.open,
           x.write_in_progress = c.write_in_progress,
           x.write_buffer = c.write_buffer, x.writeQ = c.writeQ,
           x.managed = c.managed, x.replies = c.replies,
           x.connection_type = c.connection_type,
           x.m_Subscriber = c.m_Subscriber,
           h.op # "write", h.op = "read" /\ h.ok => h.items # << >>
    PROVE  Settled(c, Queue(x, h), sent)
<1>1. Sound(c, sent, c.replies) /\ SubInv(c) /\ c \in Connection
  BY DEF ConnInv, Sound
<1>2. Sound(x, sent, x.replies) /\ SubInv(x)
  <2>1. Sound(x, sent, x.replies)
    BY <1>1, SoundFrame
  <2>2. SubInv(x)
    BY <1>1 DEF SubInv, Failed
  <2> QED
    BY <2>1, <2>2
<1>3. Sound(Queue(x, h), sent, x.replies) /\ Keeps(x, Queue(x, h))
  BY <1>2, QueueSound
<1>4. Settled(x, Queue(x, h), sent)
  BY <1>2, <1>3, KeepsSettled
<1> QED
  BY <1>4 DEF Settled

LEMMA ArriveConnInv == ASSUME NEW n \in 1..2 PROVE ConnInv /\ Arrive(n) => ConnInv'
<1> SUFFICES ASSUME ConnInv, Arrive(n) PROVE ConnInv'
  OBVIOUS
<1> DEFINE x == [c EXCEPT !.reading = FALSE]
           items == SubSeq(toSend, 1, n)
           h == ReadHandler(items)
<1>1. c \in Connection /\ toSend \in Seq(Item) /\ patient \in BOOLEAN
  BY DEF ConnInv, TypeOK
<1>2. c' = Queue(x, h) /\ n <= Len(toSend)
  BY DEF Arrive
<1>3. items \in Seq(Item) /\ items # << >>
  <2>1. Len(toSend) \in Nat /\ \A i \in 1..n : toSend[i] \in Item
    BY <1>1, <1>2, LenProperties, ElementOfSeq
  <2>2. items \in Seq(Item) /\ Len(items) = n
    BY <2>1, SubSeqProperties
  <2> HIDE DEF items
  <2>3. items # << >>
    <3>1. Len(<< >>) = 0
      OBVIOUS
    <3>2. Len(items) # 0
      BY <2>2
    <3> QED
      BY <3>1, <3>2
  <2> QED
    BY <2>2, <2>3
<1>4. h \in Handler /\ h.op = "read" /\ h.items # << >>
  BY <1>3 DEF ReadHandler, Handler
<1>5. /\ x \in Connection /\ x.ready = c.ready /\ x.writes = c.writes
      /\ x.open = c.open /\ x.write_in_progress = c.write_in_progress
      /\ x.write_buffer = c.write_buffer /\ x.writeQ = c.writeQ
      /\ x.managed = c.managed /\ x.replies = c.replies
      /\ x.connection_type = c.connection_type
      /\ x.m_Subscriber = c.m_Subscriber
  BY <1>1 DEF Connection
<1> HIDE DEF x, h
<1>6. Settled(c, c', sent)
  BY <1>2, <1>4, <1>5, QueueConnInv
<1>7. toSend' \in Seq(Item)
  BY <1>1, DropType DEF Arrive
<1>8. sent' = sent /\ started' = started /\ (TypeOK /\ c' \in Connection => TypeOK')
  BY <1>1, <1>7 DEF Arrive, TypeOK
<1> QED
  BY <1>6, <1>8, SettledConnInv

LEMMA PeerClosesConnInv == ConnInv /\ PeerCloses => ConnInv'
<1> SUFFICES ASSUME ConnInv, PeerCloses PROVE ConnInv'
  OBVIOUS
<1> DEFINE x == [c EXCEPT !.reading = FALSE]
           h == ReadFailed
<1>1. c \in Connection /\ c' = Queue(x, h)
  BY DEF ConnInv, TypeOK, PeerCloses
<1>2. h \in Handler /\ h.op = "read" /\ ~h.ok
  BY EmptySeq DEF ReadFailed, Handler
<1>3. /\ x \in Connection /\ x.ready = c.ready /\ x.writes = c.writes
      /\ x.open = c.open /\ x.write_in_progress = c.write_in_progress
      /\ x.write_buffer = c.write_buffer /\ x.writeQ = c.writeQ
      /\ x.managed = c.managed /\ x.replies = c.replies
      /\ x.connection_type = c.connection_type
      /\ x.m_Subscriber = c.m_Subscriber
  BY <1>1 DEF Connection
<1> HIDE DEF x, h
<1>4. Settled(c, c', sent)
  BY <1>1, <1>2, <1>3, QueueConnInv
<1>5. sent' = sent /\ started' = started /\ (TypeOK /\ c' \in Connection => TypeOK')
  BY DEF PeerCloses, Fails, TypeOK
<1> QED
  BY <1>4, <1>5, SettledConnInv

LEMMA TimersConnInv == ConnInv /\ (ReadTimer \/ AbandonedTimer) => ConnInv'
<1> SUFFICES ASSUME ConnInv, ReadTimer \/ AbandonedTimer PROVE ConnInv'
  OBVIOUS
<1>1. c \in Connection
  BY DEF ConnInv, TypeOK
<1>2. ASSUME NEW timer \in {"readTimer", "abandonedTimer"}
      PROVE  TimerHandler(timer) \in Handler /\ TimerHandler(timer).op = timer
  BY EmptySeq DEF TimerHandler, Handler
<1>3. Settled(c, c', sent)
  <2>1. CASE ReadTimer
    <3> DEFINE x == [c EXCEPT !.readTimer = FALSE]
               h == TimerHandler("readTimer")
    <3>1. c' = Queue(x, h)
      BY <2>1 DEF ReadTimer
    <3>2. h \in Handler /\ h.op = "readTimer"
      BY <1>2
    <3>3. /\ x \in Connection /\ x.ready = c.ready /\ x.writes = c.writes
          /\ x.open = c.open /\ x.write_in_progress = c.write_in_progress
          /\ x.write_buffer = c.write_buffer /\ x.writeQ = c.writeQ
          /\ x.managed = c.managed /\ x.replies = c.replies
          /\ x.connection_type = c.connection_type
          /\ x.m_Subscriber = c.m_Subscriber
      BY <1>1 DEF Connection
    <3> HIDE DEF x, h
    <3> QED
      BY <3>1, <3>2, <3>3, QueueConnInv
  <2>2. CASE AbandonedTimer
    <3> DEFINE x == [c EXCEPT !.abandonedTimer = FALSE]
               h == TimerHandler("abandonedTimer")
    <3>1. c' = Queue(x, h)
      BY <2>2 DEF AbandonedTimer
    <3>2. h \in Handler /\ h.op = "abandonedTimer"
      BY <1>2
    <3>3. /\ x \in Connection /\ x.ready = c.ready /\ x.writes = c.writes
          /\ x.open = c.open /\ x.write_in_progress = c.write_in_progress
          /\ x.write_buffer = c.write_buffer /\ x.writeQ = c.writeQ
          /\ x.managed = c.managed /\ x.replies = c.replies
          /\ x.connection_type = c.connection_type
          /\ x.m_Subscriber = c.m_Subscriber
      BY <1>1 DEF Connection
    <3> HIDE DEF x, h
    <3> QED
      BY <3>1, <3>2, <3>3, QueueConnInv
  <2> QED
    BY <2>1, <2>2
<1>4. sent' = sent /\ started' = started /\ (TypeOK /\ c' \in Connection => TypeOK')
  BY DEF ReadTimer, AbandonedTimer, Fails, TypeOK
<1> QED
  BY <1>3, <1>4, SettledConnInv

LEMMA WriteEndsConnInv == ConnInv /\ (WriteCompletes \/ WriteFails) => ConnInv'
<1> SUFFICES ASSUME ConnInv, WriteCompletes \/ WriteFails PROVE ConnInv'
  OBVIOUS
<1>1. PICK ok \in BOOLEAN :
         /\ c' = Queue([c EXCEPT !.writes = @ - 1], WriteHandler(ok))
         /\ sent' = IF ok THEN sent \o c.write_buffer ELSE sent
  BY DEF WriteCompletes, WriteFails
<1>2. Sound(c, sent, c.replies) /\ SubInv(c) /\ c.writes > 0
  BY DEF ConnInv, WriteCompletes, WriteFails
<1>3. Sound(c', sent', c'.replies) /\ Keeps(c, c')
  BY <1>1, <1>2, WriteDone
<1>4. SubInv(c') /\ (started' /\ ~c'.managed => ~c'.open)
  <2>1. started' = started
    BY DEF WriteCompletes, WriteFails
  <2> QED
    BY <1>2, <1>3, <2>1 DEF Keeps, SubInv, ConnInv
<1>5. TypeOK'
  BY <1>3 DEF ConnInv, TypeOK, Sound, WriteCompletes, WriteFails, Fails, history
<1> QED
  BY <1>3, <1>4, <1>5 DEF ConnInv

LEMMA OtherConnInv ==
    ConnInv /\ (StopAll \/ Publish \/ DatabaseUpdate \/ UNCHANGED vars) => ConnInv'
<1> SUFFICES ASSUME ConnInv PROVE StopAll \/ Publish \/ DatabaseUpdate
                                     \/ UNCHANGED vars => ConnInv'
  OBVIOUS
<1>0. Sound(c, sent, c.replies) /\ SubInv(c) /\ c \in Connection
  BY DEF ConnInv, Sound
<1>1. ASSUME StopAll PROVE ConnInv'
  <2>1. Sound(ManagerStop(c), sent, c.replies) /\ Stopped(c, ManagerStop(c))
    BY <1>0, ManagerStopSound DEF Sound, PipeInv
  <2>2. Settled(c, c', sent)
    BY <1>0, <1>1, <2>1, StopSettled DEF StopAll, SubInv
  <2>3. sent' = sent /\ started' = started /\ (TypeOK /\ c' \in Connection => TypeOK')
    BY <1>1 DEF StopAll, Fails, TypeOK
  <2> QED
    BY <2>2, <2>3, SettledConnInv
<1>2. ASSUME Publish PROVE ConnInv'
  <2>1. UNCHANGED <<c, started, sent>>
    BY <1>2 DEF Publish
  <2>2. TypeOK'
    <3>1. pushes' \in 0..MaxPushes
      BY <1>2, InputAssumption DEF Publish, ConnInv, TypeOK
    <3> QED
      BY <1>2, <3>1 DEF Publish, ConnInv, TypeOK, history
  <2> QED
    BY <2>1, <2>2 DEF ConnInv
<1>3. ASSUME DatabaseUpdate PROVE ConnInv'
  <2>1. CASE c' = c
    BY <1>3, <2>1 DEF DatabaseUpdate, ConnInv, TypeOK, history
  <2>2. CASE c' = MyWrite(c, Other("push"))
    <3>1. Other("push") \in Message /\ Other("push").kind # "reply"
      BY DEF Other, Message
    <3>2. Sound(c', sent, c.replies) /\ Keeps(c, c')
      BY <1>0, <2>2, <3>1, MyWriteSound
    <3>3. Settled(c, c', sent)
      BY <1>0, <3>2, KeepsSettled
    <3>4. sent' = sent /\ started' = started /\ (TypeOK /\ c' \in Connection => TypeOK')
      BY <1>3 DEF DatabaseUpdate, TypeOK, history
    <3> QED
      BY <3>3, <3>4, SettledConnInv
  <2> QED
    BY <1>3, <2>1, <2>2 DEF DatabaseUpdate
<1>4. ASSUME UNCHANGED vars PROVE ConnInv'
  BY <1>4 DEF vars, history, ConnInv, TypeOK
<1> QED
  BY <1>1, <1>2, <1>3, <1>4

LEMMA NextConnInv == ConnInv /\ [Next]_vars => ConnInv'
BY StartConnInv, RunHandlerConnInv, ArriveConnInv, PeerClosesConnInv,
   TimersConnInv, WriteEndsConnInv, OtherConnInv DEF Next

\* The members of a connection, the messages and the slot stay in accord.
THEOREM ConnectionCorrect == Spec => []ConnInv
<1> QED
  BY InitConnInv, NextConnInv, PTL DEF Spec

-----------------------------------------------------------------------------
(* The properties.                                                         *)

\* The members keep their types, for every script and every number of pushes.
THEOREM ConnectionTyped == Spec => []TypeOK
<1>1. ConnInv => TypeOK
  BY DEF ConnInv
<1> QED
  BY <1>1, ConnectionCorrect, PTL

\* Whoever calls MyWrite, SocketWrite never starts a write while another has
\* not been handled.
THEOREM OneWriteAtATime == Spec => []OneWrite
<1>1. ConnInv => OneWrite
  BY DEF ConnInv, Sound, WriteInv, OneWrite, Connection
<1> QED
  BY <1>1, ConnectionCorrect, PTL

\* The client gets the replies in the order of its requests, without a gap,
\* however many it pipelines and whatever is pushed in between.
THEOREM RepliesStayInOrder == Spec => []RepliesInOrder
<1>1. ConnInv => RepliesInOrder
  BY DEF ConnInv, Sound, PipeInv, RepliesInOrder
<1> QED
  BY <1>1, ConnectionCorrect, PTL

\* A connection that is freed has left the publisher, unless it was closing.
THEOREM NoSubscriberLeft == Spec => []SubscriberExists
<1>1. ASSUME ConnInv, Freed, c.m_Subscriber PROVE c.connection_type = "closing"
  <2>1. ~Failed(c, {"read", "write"})
    BY <1>1 DEF Freed, Failed
  <2>2. ~c.open
    BY <1>1 DEF ConnInv, Freed
  <2>3. c.connection_type \in {"http", "websocket", "closing"}
    BY <1>1 DEF ConnInv, TypeOK, Connection
  <2> QED
    BY <1>1, <2>1, <2>2, <2>3 DEF ConnInv, SubInv
<1>2. ConnInv => SubscriberExists
  BY <1>1 DEF SubscriberExists
<1> QED
  BY <1>2, ConnectionCorrect, PTL

-----------------------------------------------------------------------------
(* A patient client: the reply to each request goes out before the next is *)
(* read, so that what stops the connection finds nothing pending.          *)

ReadReady(x) == \E i \in DOMAIN x.ready : x.ready[i].op = "read"

\* The messages hold the replies to the first n requests.
Replied(s, n) == \A k \in 1..n : \E i \in DOMAIN s : s[i] = Reply(k)

\* The reply to the last request is on its way, and nothing else happens.
Pending(x, s) ==
    /\ x.replies > 0 /\ Replied(s, x.replies - 1)
    /\ \A i \in DOMAIN s : s[i] # Reply(x.replies)
    /\ x.open /\ x.writes = 1 /\ x.write_buffer = <<Reply(x.replies)>>
    /\ x.ready = << >> /\ ~x.vSubscriptions

\* No timer has run out, and nothing fails while the socket is open.
Calm(x) ==
    \A i \in DOMAIN x.ready : /\ x.ready[i].op \in {"read", "write"}
                              /\ x.ready[i].ok \/ ~x.open

\* Until it is a websocket: one request is handled, and its reply on its way,
\* before the next is read.
HttpInv(x, s) ==
    x.connection_type = "http" =>
        /\ x.writeQ = << >> /\ ~x.vSubscriptions
        /\ x.writes = 1 => Pending(x, s)
        /\ x.write_in_progress => x.writes = 1 \/ WriteReady(x)
        /\ \A i \in DOMAIN x.ready : x.ready[i].op = "read" => i = Len(x.ready)
        /\ x.reading => ~ReadReady(x)
        /\ ~x.open => x.ready = << >> /\ ~x.reading
        /\ x.write_in_progress /\ ~x.keepalive_ => ~x.reading /\ ~ReadReady(x)

Quiet(x, s) ==
    /\ Replied(s, x.replies) \/ Pending(x, s)
    /\ Calm(x)
    /\ HttpInv(x, s)

\* A connection that is not started has nothing outstanding.
Fresh(x) == /\ x.open /\ x.ready = << >> /\ ~x.reading
            /\ x.writes = 0 /\ ~x.write_in_progress /\ ~x.vSubscriptions

PatientInv ==
    patient /\ undisturbed => Quiet(c, sent) /\ (~started => Fresh(c))

-----------------------------------------------------------------------------
(* What keeps a connection calm.                                           *)

LEMMA CalmAppend ==
    ASSUME NEW x \in Connection, NEW y \in Connection, NEW h \in Handler,
           Calm(x), y.ready = Append(x.ready, h), y.open => x.open,
           h.op \in {"read", "write"}, h.ok \/ ~y.open
    PROVE  Calm(y)
<1>1. x.ready \in Seq(Handler)
  BY DEF Connection, Handler
<1>2. /\ DOMAIN y.ready = DOMAIN x.ready \union {Len(x.ready) + 1}
      /\ \A i \in DOMAIN x.ready : y.ready[i] = x.ready[i]
      /\ y.ready[Len(x.ready) + 1] = h
  BY <1>1
<1> QED
  BY <1>2 DEF Calm

LEMMA CalmSame ==
    ASSUME NEW x, NEW y, Calm(x), y.ready = x.ready, y.open => x.open
    PROVE  Calm(y)
BY DEF Calm

\* The members that reading and writing leave alone.
Same(x, y) ==
    /\ y.open = x.open /\ y.replies = x.replies
    /\ y.connection_type = x.connection_type /\ y.keepalive_ = x.keepalive_
    /\ y.vSubscriptions = x.vSubscriptions

\* SocketWrite on a socket that is open.
LEMMA OpenWrite ==
    ASSUME NEW x \in Connection, NEW m \in Message, x.open, x.writes = 0
    PROVE  LET y == SocketWrite(x, m)
           IN  /\ y \in Connection /\ Same(x, y)
               /\ y.ready = x.ready /\ y.writes = 1 /\ y.write_buffer = <<m>>
               /\ y.writeQ = x.writeQ /\ y.reading = x.reading
<1> DEFINE b == <<m>>
           y == [x EXCEPT !.write_in_progress = TRUE, !.write_buffer = b]
           z == [y EXCEPT !.writes = 1]
<1>1. b \in Seq(Message)
  OBVIOUS
<1> HIDE DEF b
<1>2. /\ y \in Connection /\ Same(x, y) /\ y.ready = x.ready /\ y.writes = 0
      /\ y.write_buffer = b /\ y.writeQ = x.writeQ /\ y.reading = x.reading
  BY <1>1 DEF Connection, Same
<1>3. SocketWrite(x, m) = [y EXCEPT !.writes = @ + 1]
  BY DEF SocketWrite, b
<1> HIDE DEF y
<1>4. SocketWrite(x, m) = z /\ 1 \in 0..1
  BY <1>2, <1>3
<1>5. z \in Connection
  BY <1>2, <1>4, OneMoreWrite
<1>6. /\ Same(y, z) /\ z.ready = y.ready /\ z.writes = 1
      /\ z.write_buffer = y.write_buffer /\ z.writeQ = y.writeQ
      /\ z.reading = y.reading
  BY <1>2 DEF Connection, Same
<1> HIDE DEF z
<1> QED
  BY <1>2, <1>4, <1>5, <1>6 DEF Same, b

LEMMA SocketWriteCalm ==
    ASSUME NEW x \in Connection, NEW m \in Message, Calm(x), x.writes = 0
    PROVE  LET y == SocketWrite(x, m)
           IN  y \in Connection /\ Same(x, y) /\ Calm(y)
<1>1. CASE x.open
  <2> DEFINE y == SocketWrite(x, m)
  <2>1. y \in Connection /\ Same(x, y) /\ y.ready = x.ready
    BY <1>1, OpenWrite
  <2> HIDE DEF y
  <2>2. Calm(y)
    BY <2>1, CalmSame DEF Same
  <2> QED
    BY <2>1, <2>2 DEF y
<1>2. CASE ~x.open
  <2> DEFINE b == <<m>>
             y == [x EXCEPT !.write_in_progress = TRUE, !.write_buffer = b]
             h == WriteHandler(FALSE)
             r == Append(x.ready, h)
             z == [y EXCEPT !.ready = r]
  <2>1. b \in Seq(Message)
    OBVIOUS
  <2>2. SocketWrite(x, m) = Queue(y, h)
    BY <1>2 DEF SocketWrite
  <2> HIDE DEF b
  <2>3. y \in Connection /\ Same(x, y) /\ y.ready = x.ready
    BY <2>1 DEF Connection, Same
  <2>4. h \in Handler /\ h.op = "write" /\ ~h.ok
    BY EmptySeq DEF WriteHandler, Handler
  <2>5. x.ready \in Seq(Handler)
    BY DEF Connection, Handler
  <2> HIDE DEF h, y
  <2>6. r \in Seq(Handler)
    BY <2>4, <2>5, AppendProperties
  <2>7. Queue(y, h) = z
    BY <2>3 DEF Queue
  <2> HIDE DEF r
  <2>8. z \in Connection /\ Same(y, z) /\ z.ready = r
    BY <2>3, <2>6 DEF Connection, Same, Handler
  <2> HIDE DEF z
  <2>9. Same(x, z)
    BY <2>3, <2>8 DEF Same
  <2>10. Calm(z)
    <3>1. z.ready = Append(x.ready, h) /\ ~z.open
      BY <1>2, <2>8, <2>9 DEF r, Same
    <3> QED
      BY <2>4, <2>8, <3>1, CalmAppend
  <2> QED
    BY <2>2, <2>7, <2>8, <2>9, <2>10
<1> QED
  BY <1>1, <1>2

LEMMA MyWriteCalm ==
    ASSUME NEW x \in Connection, NEW m \in Message, Calm(x), WriteInv(x)
    PROVE  LET y == MyWrite(x, m) IN y \in Connection /\ Same(x, y) /\ Calm(y)
<1>1. CASE x.connection_type = "closing"
  BY <1>1 DEF MyWrite, Same
<1>2. CASE x.connection_type # "closing" /\ x.write_in_progress
  <2> DEFINE q == Append(x.writeQ, m)
             y == [x EXCEPT !.writeQ = q]
  <2>1. MyWrite(x, m) = y
    BY <1>2 DEF MyWrite
  <2>2. q \in Seq(Message)
    BY AppendProperties DEF Connection
  <2> HIDE DEF q
  <2>3. y \in Connection /\ Same(x, y) /\ y.ready = x.ready
    BY <2>2 DEF Connection, Same
  <2> HIDE DEF y
  <2> QED
    BY <2>1, <2>3, CalmSame DEF Same
<1>3. CASE x.connection_type # "closing" /\ ~x.write_in_progress
  <2>1. MyWrite(x, m) = SocketWrite(x, m)
    BY <1>3 DEF MyWrite
  <2>2. x.writes = 0
    BY <1>3 DEF WriteInv, Connection
  <2> QED
    BY <2>1, <2>2, SocketWriteCalm
<1> QED
  BY <1>1, <1>2, <1>3

LEMMA ReadMoreCalm ==
    ASSUME NEW x \in Connection, Calm(x)
    PROVE  LET y == read_more(x)
           IN  /\ y \in Connection /\ Same(x, y) /\ Calm(y)
               /\ x.open => /\ y.reading
                            /\ y.ready = x.ready /\ y.writes = x.writes
                            /\ y.write_in_progress = x.write_in_progress
                            /\ y.write_buffer = x.write_buffer
                            /\ y.writeQ = x.writeQ
<1> DEFINE y == [x EXCEPT !.readTimer = TRUE]
           z == [y EXCEPT !.reading = TRUE]
           h == ReadFailed
           r == Append(x.ready, h)
           w == [y EXCEPT !.ready = r]
<1>1. /\ y \in Connection /\ Same(x, y)
      /\ y.ready = x.ready /\ y.writes = x.writes
      /\ y.write_in_progress = x.write_in_progress
      /\ y.write_buffer = x.write_buffer /\ y.writeQ = x.writeQ
  BY DEF Connection, Same
<1>2. read_more(x) = IF x.open THEN z ELSE Queue(y, h)
  BY DEF read_more, Connection
<1> HIDE DEF y
<1>3. /\ z \in Connection /\ Same(y, z) /\ z.reading
      /\ z.ready = y.ready /\ z.writes = y.writes
      /\ z.write_in_progress = y.write_in_progress
      /\ z.write_buffer = y.write_buffer /\ z.writeQ = y.writeQ
  BY <1>1 DEF Connection, Same
<1>4. h \in Handler /\ h.op = "read" /\ ~h.ok /\ x.ready \in Seq(Handler)
  BY EmptySeq DEF ReadFailed, Handler, Connection
<1> HIDE DEF z, h
<1>5. r \in Seq(Handler) /\ Queue(y, h) = w
  BY <1>1, <1>4, AppendProperties DEF Queue
<1> HIDE DEF r
<1>6. w \in Connection /\ Same(y, w) /\ w.ready = r
  BY <1>1, <1>5 DEF Connection, Same, Handler
<1> HIDE DEF w
<1>7. CASE x.open
  BY <1>1, <1>2, <1>3, <1>7, CalmSame DEF Same
<1>8. CASE ~x.open
  <2>1. w.ready = Append(x.ready, h) /\ ~w.open
    BY <1>1, <1>6, <1>8 DEF r, Same
  <2>2. Calm(w)
    BY <1>4, <1>6, <2>1, CalmAppend
  <2> QED
    BY <1>1, <1>2, <1>5, <1>6, <1>8, <2>2 DEF Same
<1> QED
  BY <1>7, <1>8

LEMMA StopCalm ==
    ASSUME NEW x \in Connection, Calm(x)
    PROVE  LET y == ManagerStop(x)
           IN  /\ y \in Connection /\ Calm(y) /\ ~y.open /\ ~y.reading
               /\ y.replies = x.replies /\ y.connection_type = x.connection_type
               /\ y.writeQ = x.writeQ /\ y.vSubscriptions = x.vSubscriptions
               /\ y.write_in_progress = x.write_in_progress /\ y.writes = 0
               /\ x.writes = 0 => y.ready = x.ready
<1> DEFINE h == WriteHandler(FALSE)
           r == IF x.writes > 0 THEN Append(x.ready, h) ELSE x.ready
           b == x.m_Subscriber /\ x.connection_type # "websocket"
           y == ManagerStop(x)
<1>1. /\ h \in Handler /\ h.op = "write" /\ x.ready \in Seq(Handler)
      /\ x.writes \in 0..1
  BY EmptySeq DEF WriteHandler, Handler, Connection
<1>2. r \in Seq(Handler) /\ b \in BOOLEAN
  <2>1. Append(x.ready, h) \in Seq(Handler)
    BY <1>1, AppendProperties
  <2> QED
    BY <1>1, <2>1
<1>3. y = StoppedAs(x, b, r)
  BY DEF ManagerStop, Stop, StoppedAs, Connection
<1> HIDE DEF h, y
<1>4. /\ y \in Connection /\ ~y.open /\ ~y.reading
      /\ y.replies = x.replies /\ y.connection_type = x.connection_type
      /\ y.writeQ = x.writeQ /\ y.vSubscriptions = x.vSubscriptions
      /\ y.write_in_progress = x.write_in_progress /\ y.writes = 0
      /\ y.ready = r
  <2> HIDE DEF r, b
  <2> QED
    BY <1>2, <1>3, StopMembers
<1>5. Calm(y)
  <2>1. CASE x.writes > 0
    <3>1. y.ready = Append(x.ready, h)
      BY <1>4, <2>1
    <3> QED
      BY <1>1, <1>4, <3>1, CalmAppend
  <2>2. CASE ~(x.writes > 0)
    BY <1>4, <2>2, CalmSame
  <2> QED
    BY <2>1, <2>2
<1>6. x.writes = 0 => y.ready = x.ready
  BY <1>4
<1> QED
  BY <1>4, <1>5, <1>6 DEF y

-----------------------------------------------------------------------------
(* A websocket: its handlers do not touch the replies.                     *)

\* A handler of a websocket has left y of x.
Rests(x, y) ==
    /\ Calm(y)
    /\ y.replies = x.replies /\ y.connection_type # "http"

LEMMA HandleFrameRests ==
    ASSUME NEW x \in Connection, Calm(x), WriteInv(x),
           x.connection_type # "http", x.buf # << >>
    PROVE  Rests(x, HandleFrame(x))
<1> DEFINE frame == Head(x.buf)
           opcode == IF frame = "fragment" THEN "text" ELSE frame
           o == IF x.start_new_packet THEN opcode ELSE x.last_opcode
           p == frame # "fragment"
           b == Tail(x.buf)
           y == FrameAs(x, b, o, p)
           z == [y EXCEPT !.vSubscriptions = TRUE]
           closing == [z EXCEPT !.connection_type = "closing"]
           w == MyWrite(y, Other("close"))
           v == [w EXCEPT !.keepalive_ = FALSE]
           pong == MyWrite(y, Other("pong"))
           r == HandleFrame(x)
<1>1. x.buf \in Seq(Item)
  BY DEF Connection
<1>2. \/ r = read_more(y) \/ r = read_more(z) \/ r = closing
      \/ r = read_more(v) \/ r = read_more(pong)
  BY DEF HandleFrame, FrameAs
<1>3. b \in Seq(Item) /\ o \in Item /\ p \in BOOLEAN
  <2>1. Head(x.buf) \in Item /\ b \in Seq(Item)
    BY <1>1, DropItems
  <2>2. x.last_opcode \in Item
    BY DEF Connection
  <2>3. opcode \in Item
    BY <2>1 DEF Item, Frame
  <2> QED
    BY <2>1, <2>2, <2>3
<1> HIDE DEF r, frame, opcode, o, p, b
<1>4. y = FrameAs(x, b, o, p)
  OBVIOUS
<1> HIDE DEF y
<1>5. /\ y \in Connection
      /\ y.ready = x.ready /\ y.writes = x.writes /\ y.open = x.open
      /\ y.write_in_progress = x.write_in_progress
      /\ y.replies = x.replies
      /\ y.connection_type = x.connection_type
  BY <1>3, <1>4, FrameMembers
<1>6. Rests(x, y) /\ WriteInv(y)
  BY <1>5, CalmSame DEF Rests, WriteInv, WriteReady
<1>7. ASSUME NEW a \in Connection, Rests(x, a) PROVE Rests(x, read_more(a))
  BY <1>7, ReadMoreCalm DEF Rests, Same
<1>8. z \in Connection /\ Rests(x, z)
  <2>1. /\ z \in Connection /\ z.ready = y.ready /\ z.open = y.open
        /\ z.replies = y.replies /\ z.connection_type = y.connection_type
    BY <1>5 DEF Connection
  <2> HIDE DEF z
  <2> QED
    BY <1>6, <2>1, CalmSame DEF Rests
<1>9. Rests(x, closing)
  <2>1. /\ closing.ready = z.ready /\ closing.open = z.open
        /\ closing.replies = z.replies /\ closing.connection_type = "closing"
    <3> HIDE DEF z
    <3> QED
      BY <1>8 DEF Connection
  <2> HIDE DEF z, closing
  <2> QED
    BY <1>8, <2>1, CalmSame DEF Rests
<1>10. ASSUME NEW kind \in {"close", "pong"}
       PROVE  /\ MyWrite(y, Other(kind)) \in Connection
              /\ Rests(x, MyWrite(y, Other(kind)))
  <2>1. Other(kind) \in Message
    BY DEF Other, Message
  <2> QED
    BY <1>5, <1>6, <2>1, MyWriteCalm DEF Rests, Same
<1>11. v \in Connection /\ Rests(x, v)
  <2>1. w \in Connection /\ Rests(x, w)
    BY <1>10
  <2> HIDE DEF w
  <2>2. /\ v \in Connection /\ v.ready = w.ready /\ v.open = w.open
        /\ v.replies = w.replies /\ v.connection_type = w.connection_type
    BY <2>1 DEF Connection
  <2> HIDE DEF v
  <2> QED
    BY <2>1, <2>2, CalmSame DEF Rests
<1>12. /\ Rests(x, read_more(y)) /\ Rests(x, read_more(z))
       /\ Rests(x, read_more(v)) /\ Rests(x, read_more(pong))
  <2>1. pong \in Connection /\ Rests(x, pong)
    BY <1>10
  <2> HIDE DEF z, v, pong
  <2> QED
    BY <1>5, <1>6, <1>7, <1>8, <1>11, <2>1
<1> HIDE DEF z, v, pong, closing
<1> QED
  BY <1>2, <1>9, <1>12 DEF r

LEMMA HandleReadRests ==
    ASSUME NEW x \in Connection, NEW ok \in BOOLEAN, NEW items \in Seq(Item),
           Calm(x), WriteInv(x), x.connection_type # "http",
           ok => items # << >>
    PROVE  Rests(x, handle_read(x, ok, items))
<1> DEFINE b == x.buf \o items
           y == [x EXCEPT !.readTimer = FALSE, !.buf = b]
<1>1. x.buf \in Seq(Item)
  BY DEF Connection
<1>2. b \in Seq(Item) /\ (items # << >> => b # << >>)
  BY <1>1, ConcatProperties, ConcatEqualIffEmpty
<1>3. handle_read(x, ok, items) =
         IF ~ok THEN ManagerStop(y)
         ELSE IF y.connection_type = "http" THEN HandleRequest(y) ELSE HandleFrame(y)
  BY DEF handle_read
<1> HIDE DEF b
<1>4. /\ y \in Connection
      /\ y.ready = x.ready /\ y.writes = x.writes /\ y.open = x.open
      /\ y.write_in_progress = x.write_in_progress
      /\ y.replies = x.replies
      /\ y.connection_type = x.connection_type /\ y.buf = b
  BY <1>2 DEF Connection
<1> HIDE DEF y
<1>5. Calm(y) /\ WriteInv(y)
  BY <1>4, CalmSame DEF WriteInv, WriteReady
<1>6. CASE ~ok
  BY <1>3, <1>4, <1>5, <1>6, StopCalm DEF Rests
<1>7. CASE ok
  <2>1. Rests(y, HandleFrame(y))
    BY <1>2, <1>4, <1>5, <1>7, HandleFrameRests
  <2> QED
    BY <1>3, <1>4, <1>7, <2>1 DEF Rests
<1> QED
  BY <1>6, <1>7

LEMMA HandleWriteRests ==
    ASSUME NEW x \in Connection, NEW ok \in BOOLEAN,
           Calm(x), WriteInv(x), x.writes = 0, ~WriteReady(x),
           x.connection_type # "http"
    PROVE  Rests(x, handle_write(x, ok))
<1> DEFINE y == [x EXCEPT !.write_in_progress = FALSE, !.write_buffer = << >>]
           m == Head(y.writeQ)
           q == Tail(y.writeQ)
           y1 == [y EXCEPT !.writeQ = q]
           z == IF ok /\ y.writeQ # << >> THEN SocketWrite(y1, m) ELSE y
           v == [z EXCEPT !.abandonedTimer = TRUE]
           like(a) == /\ a.ready = x.ready /\ a.writes = 0 /\ a.open = x.open
                      /\ a.replies = x.replies
                      /\ a.connection_type = x.connection_type
                      /\ ~a.write_in_progress
<1>1. handle_write(x, ok) = IF ok /\ x.keepalive_ THEN v ELSE ManagerStop(z)
  BY DEF handle_write
<1>2. y \in Connection /\ like(y) /\ y.writeQ \in Seq(Message)
  BY EmptySeq DEF Connection
<1> HIDE DEF y
<1>3. ASSUME NEW a, like(a) PROVE Calm(a) /\ WriteInv(a)
  <2>1. Calm(a)
    BY <1>3, CalmSame
  <2>2. WriteInv(a)
    BY <1>3 DEF WriteInv, WriteReady
  <2> QED
    BY <2>1, <2>2
<1>4. z \in Connection /\ Rests(x, z)
  <2>1. CASE ok /\ y.writeQ # << >>
    <3>1. m \in Message /\ q \in Seq(Message)
      BY <1>2, <2>1, HeadTailProperties
    <3> HIDE DEF m, q
    <3>2. y1 \in Connection /\ like(y1)
      BY <1>2, <3>1 DEF Connection
    <3> HIDE DEF y1
    <3>3. /\ SocketWrite(y1, m) \in Connection /\ Same(y1, SocketWrite(y1, m))
          /\ Calm(SocketWrite(y1, m))
      BY <1>3, <3>1, <3>2, SocketWriteCalm
    <3> QED
      BY <2>1, <3>2, <3>3 DEF Rests, Same
  <2>2. CASE ~(ok /\ y.writeQ # << >>)
    BY <1>2, <1>3, <2>2 DEF Rests
  <2> QED
    BY <2>1, <2>2
<1> HIDE DEF z
<1>5. /\ v.ready = z.ready /\ v.open = z.open /\ v.replies = z.replies
      /\ v.connection_type = z.connection_type
  BY <1>4 DEF Connection
<1> HIDE DEF v
<1>6. Rests(x, v)
  BY <1>4, <1>5, CalmSame DEF Rests
<1>7. Rests(x, ManagerStop(z))
  BY <1>4, StopCalm DEF Rests
<1> QED
  BY <1>1, <1>6, <1>7

-----------------------------------------------------------------------------
(* Before it is a websocket.                                               *)

\* Nothing is outstanding, and every request that was handled is replied to.
Idle(x, s) ==
    /\ x.connection_type = "http" /\ x.open
    /\ x.ready = << >> /\ x.writes = 0 /\ ~x.write_in_progress /\ ~x.reading
    /\ x.writeQ = << >> /\ ~x.vSubscriptions
    /\ Replied(s, x.replies) /\ \A i \in DOMAIN s : s[i] # Reply(x.replies + 1)

LEMMA EmptyReady ==
    ASSUME NEW x, x.ready = << >>
    PROVE  DOMAIN x.ready = {} /\ Calm(x) /\ ~ReadReady(x) /\ ~WriteReady(x)
BY DEF Calm, ReadReady, WriteReady

LEMMA HandleRequestQuiet ==
    ASSUME NEW x \in Connection, NEW s, Idle(x, s), x.buf # << >>
    PROVE  Quiet(HandleRequest(x), s)
<1> DEFINE n == FirstRequest(x.buf)
           request == Head(x.buf)
           upgrade == request = "upgrade"
           alive == request \in {"request", "part", "upgrade"}
           b == IF request = "bad" THEN x.buf ELSE Drop(x.buf, n)
           t == IF upgrade THEN "websocket" ELSE x.connection_type
           u == x.m_Subscriber \/ upgrade
           y == RequestAs(x, b, alive, t, u)
           m == Reply(y.replies)
           z == MyWrite(y, m)
<1>1. x.replies \in Nat /\ x.buf \in Seq(Item)
  BY DEF Connection
<1>2. HandleRequest(x) = IF n = 0 THEN read_more(x)
                         ELSE IF alive THEN read_more(z) ELSE z
  BY Zenon DEF HandleRequest, RequestAs
<1>3. Quiet(read_more(x), s)
  <2> DEFINE r == read_more(x)
  <2>1. Calm(x)
    BY EmptyReady DEF Idle
  <2>2. /\ Same(x, r) /\ r.ready = << >> /\ r.writes = 0
        /\ ~r.write_in_progress /\ r.writeQ = << >>
    BY <2>1, ReadMoreCalm DEF Idle
  <2> HIDE DEF r
  <2>3. DOMAIN r.ready = {} /\ Calm(r) /\ ~ReadReady(r)
    BY <2>2, EmptyReady
  <2>4. HttpInv(r, s)
    BY <2>2, <2>3 DEF HttpInv, Idle, Same
  <2>5. Replied(s, r.replies)
    BY <2>2 DEF Same, Idle
  <2> QED
    BY <2>3, <2>4, <2>5 DEF Quiet, r
<1>4. ASSUME n # 0
      PROVE  (alive => Quiet(read_more(z), s)) /\ Quiet(z, s)
  <2>1. b \in Seq(Item)
    BY <1>1, DropItems
  <2>2. alive \in BOOLEAN /\ t \in {"http", "websocket"} /\ u \in BOOLEAN
    BY DEF Idle, Connection
  <2> HIDE DEF n, request, alive, b, t, u
  <2>3. /\ y \in Connection
        /\ y.ready = x.ready /\ y.writes = x.writes /\ y.open = x.open
        /\ y.write_in_progress = x.write_in_progress
        /\ y.writeQ = x.writeQ /\ y.replies = x.replies + 1
        /\ y.connection_type = t
        /\ y.keepalive_ = alive /\ y.reading = x.reading
        /\ y.vSubscriptions = x.vSubscriptions
    <3>1. y = RequestAs(x, b, alive, t, u)
      OBVIOUS
    <3> HIDE DEF y
    <3> QED
      BY <2>1, <2>2, <3>1, RequestMembers
  <2> HIDE DEF y
  <2>4. m \in Message /\ m = Reply(x.replies + 1)
    BY <1>1, <2>3 DEF Message, Reply
  <2> HIDE DEF m
  <2>5. z = SocketWrite(y, m)
    BY <2>2, <2>3 DEF MyWrite, Idle
  <2>6. /\ z \in Connection /\ Same(y, z)
        /\ z.ready = y.ready /\ z.writes = 1 /\ z.write_buffer = <<m>>
        /\ z.writeQ = y.writeQ /\ z.reading = y.reading
    <3>1. y.open /\ y.writes = 0
      BY <2>3 DEF Idle
    <3> HIDE DEF z
    <3> QED
      BY <2>3, <2>4, <2>5, <3>1, OpenWrite
  <2> HIDE DEF z
  <2>7. /\ z.open /\ z.ready = << >> /\ z.writes = 1 /\ z.writeQ = << >>
        /\ z.write_buffer = <<Reply(z.replies)>> /\ ~z.reading
        /\ ~z.vSubscriptions
        /\ z.replies = x.replies + 1
    BY <2>3, <2>4, <2>6 DEF Same, Idle
  <2>8. Pending(z, s) /\ Calm(z) /\ ~ReadReady(z) /\ DOMAIN z.ready = {}
    <3>1. z.replies > 0 /\ z.replies - 1 = x.replies
      BY <1>1, <2>7
    <3>2. Replied(s, z.replies - 1)
      BY <3>1 DEF Idle
    <3>3. \A i \in DOMAIN s : s[i] # Reply(z.replies)
      BY <2>7 DEF Idle
    <3> QED
      BY <2>7, <3>1, <3>2, <3>3, EmptyReady DEF Pending
  <2>9. Quiet(z, s)
    BY <2>7, <2>8 DEF Quiet, HttpInv
  <2> DEFINE r == read_more(z)
  <2>10. ASSUME alive PROVE Quiet(r, s)
    <3>1. /\ Same(z, r) /\ r.ready = z.ready /\ r.writes = 1
          /\ r.write_buffer = z.write_buffer /\ r.writeQ = z.writeQ
          /\ Calm(r)
      BY <2>6, <2>7, <2>8, ReadMoreCalm
    <3> HIDE DEF r
    <3>2. Pending(r, s)
      BY <2>8, <3>1 DEF Pending, Same
    <3>3. DOMAIN r.ready = {} /\ ~ReadReady(r)
      BY <2>7, <3>1, EmptyReady
    <3>4. r.keepalive_
      BY <2>3, <2>6, <2>10, <3>1 DEF Same
    <3>5. HttpInv(r, s)
      BY <2>7, <3>1, <3>2, <3>3, <3>4 DEF HttpInv, Same
    <3> QED
      BY <3>1, <3>2, <3>5 DEF Quiet
  <2> QED
    BY <2>9, <2>10
<1> QED
  BY <1>2, <1>3, <1>4

LEMMA HandleWriteQuiet ==
    ASSUME NEW x \in Connection, NEW s,
           x.connection_type = "http", x.open, Calm(x),
           x.writes = 0, ~WriteReady(x),
           x.writeQ = << >>, ~x.vSubscriptions, Replied(s, x.replies),
           \A i \in DOMAIN x.ready : x.ready[i].op = "read" => i = Len(x.ready),
           x.reading => ~ReadReady(x),
           ~x.keepalive_ => ~x.reading /\ ~ReadReady(x)
    PROVE  Quiet(handle_write(x, TRUE), s)
<1> DEFINE y == [x EXCEPT !.write_in_progress = FALSE, !.write_buffer = << >>]
           v == [y EXCEPT !.abandonedTimer = TRUE]
           like(a) == /\ a.connection_type = x.connection_type
                      /\ a.open = x.open /\ a.ready = x.ready /\ a.writes = 0
                      /\ ~a.write_in_progress /\ a.writeQ = x.writeQ
                      /\ a.vSubscriptions = x.vSubscriptions
                      /\ a.replies = x.replies /\ a.reading = x.reading
<1>1. y \in Connection /\ like(y)
  BY EmptySeq DEF Connection
<1>2. handle_write(x, TRUE) = IF x.keepalive_ THEN v ELSE ManagerStop(y)
  BY DEF handle_write, Connection
<1> HIDE DEF y
<1>3. CASE x.keepalive_
  <2>1. like(v)
    BY <1>1 DEF Connection
  <2> HIDE DEF v
  <2>2. Calm(v)
    BY <2>1, CalmSame
  <2>3. HttpInv(v, s)
    BY <2>1 DEF HttpInv, ReadReady
  <2> QED
    BY <1>2, <1>3, <2>1, <2>2, <2>3 DEF Quiet
<1>4. CASE ~x.keepalive_
  <2> DEFINE z == ManagerStop(y)
  <2>1. x.ready \in Seq(Handler) /\ DOMAIN x.ready = {}
    BY <1>4 DEF Calm, ReadReady, WriteReady, Connection, Handler
  <2>2. x.ready = << >>
    <3>1. ASSUME x.ready # << >> PROVE FALSE
      <4>1. Len(x.ready) \in Nat \ {0} /\ DOMAIN x.ready = 1..Len(x.ready)
        BY <2>1, <3>1, EmptySeq, LenProperties
      <4> DEFINE l == Len(x.ready)
      <4> HIDE DEF l
      <4>2. 1 \in 1..l
        BY <4>1 DEF l
      <4> QED
        BY <2>1, <4>1, <4>2 DEF l
    <3> QED
      BY <3>1
  <2>3. Calm(y)
    BY <1>1, CalmSame
  <2>4. /\ ~z.open /\ ~z.reading
        /\ z.replies = y.replies /\ z.connection_type = y.connection_type
        /\ z.writeQ = y.writeQ /\ z.vSubscriptions = y.vSubscriptions
        /\ z.write_in_progress = y.write_in_progress /\ z.writes = 0
        /\ z.ready = y.ready
    BY <1>1, <2>3, StopCalm
  <2> HIDE DEF z
  <2>5. /\ Calm(z) /\ ~ReadReady(z) /\ DOMAIN z.ready = {}
    BY <1>1, <2>2, <2>4, EmptyReady
  <2>6. HttpInv(z, s)
    BY <1>1, <2>2, <2>4, <2>5 DEF HttpInv
  <2> QED
    BY <1>1, <1>2, <1>4, <2>4, <2>5, <2>6 DEF Quiet, z
<1> QED
  BY <1>3, <1>4

-----------------------------------------------------------------------------
(* The steps, for a patient client that nothing disturbs.                  *)

LEMMA RepliesKnown ==
    ASSUME ConnInv
    PROVE  /\ c \in Connection /\ sent \in Seq(Message) /\ c.replies \in Nat
           /\ WriteInv(c) /\ ReadInv(c)
           /\ c.open /\ c.writes = 0 /\ ~WriteReady(c) /\ c.writeQ = << >>
                => \A i \in DOMAIN sent : sent[i] # Reply(c.replies + 1)
<1>1. /\ c \in Connection /\ sent \in Seq(Message) /\ c.replies \in Nat
      /\ WriteInv(c) /\ ReadInv(c) /\ PipeInv(c, sent, c.replies)
  BY DEF ConnInv, Sound
<1>2. ASSUME c.open, c.writes = 0, ~WriteReady(c), c.writeQ = << >>,
             NEW i \in DOMAIN sent, sent[i] = Reply(c.replies + 1)
      PROVE  FALSE
  <2>1. Intact(c)
    BY <1>2 DEF Intact, Failed, WriteReady
  <2>2. Full(Pipe(c, sent), c.replies)
    BY <1>1, <2>1 DEF PipeInv
  <2>3. Pipe(c, sent) = sent
    BY <1>1, <1>2, ConcatEmptySeq DEF Pipe
  <2>4. sent[i].kind = "reply" => sent[i].n \in 1..c.replies
    BY <2>2, <2>3 DEF Full
  <2> QED
    BY <1>1, <1>2, <2>4 DEF Reply
<1> QED
  BY <1>1, <1>2

LEMMA RunHandlerPatient ==
    ConnInv /\ Quiet(c, sent) /\ RunHandler => Quiet(c', sent)
<1> SUFFICES ASSUME ConnInv, Quiet(c, sent), RunHandler PROVE Quiet(c', sent)
  OBVIOUS
<1> DEFINE h == Head(c.ready)
           r == Tail(c.ready)
           x == [c EXCEPT !.ready = r]
<1>1. /\ c \in Connection /\ c.ready \in Seq(Handler) /\ c.ready # << >>
      /\ WriteInv(c) /\ ReadInv(c)
  BY RepliesKnown DEF RunHandler, Connection, Handler
<1>2. c' = CASE h.op = "read" -> handle_read(x, h.ok, h.items)
             [] h.op = "write" -> handle_write(x, h.ok)
             [] h.op = "readTimer" -> handle_read_timeout(x)
             [] h.op = "abandonedTimer" -> handle_abandoned_timeout(x)
  BY DEF RunHandler
<1>3. /\ h \in Handler /\ h = c.ready[1] /\ 1 \in DOMAIN c.ready
      /\ Len(c.ready) \in Nat \ {0} /\ r \in Seq(Handler)
      /\ DOMAIN r = 1..(Len(c.ready) - 1) /\ Len(r) = Len(c.ready) - 1
      /\ \A i \in DOMAIN r : r[i] = c.ready[i + 1] /\ i + 1 \in DOMAIN c.ready
  <2>1. Len(c.ready) \in Nat \ {0} /\ DOMAIN c.ready = 1..Len(c.ready)
    BY <1>1, EmptySeq, LenProperties
  <2>2. /\ h \in Handler /\ r \in Seq(Handler)
        /\ Len(r) = Len(c.ready) - 1
        /\ \A i \in 1..Len(r) : r[i] = c.ready[i + 1]
    BY <1>1, HeadTailProperties
  <2>3. DOMAIN r = 1..Len(r)
    BY <2>2, LenProperties
  <2>4. h = c.ready[1]
    BY <1>1
  <2> QED
    BY <2>1, <2>2, <2>3, <2>4
<1> HIDE DEF h, r
<1>4. /\ x \in Connection /\ x.ready = r
      /\ x.open = c.open /\ x.writes = c.writes
      /\ x.write_in_progress = c.write_in_progress
      /\ x.writeQ = c.writeQ /\ x.vSubscriptions = c.vSubscriptions
      /\ x.replies = c.replies /\ x.connection_type = c.connection_type
      /\ x.reading = c.reading /\ x.keepalive_ = c.keepalive_
  BY <1>1, <1>3 DEF Connection, Handler
<1> HIDE DEF x
<1>5. /\ h.op \in {"read", "write"} /\ (h.ok \/ ~c.open) /\ Calm(x)
  BY <1>3, <1>4 DEF Quiet, Calm
<1>6. Replied(sent, c.replies)
  BY <1>1 DEF Quiet, Pending
<1>7. /\ h.op = "write" => /\ c.writes = 0 /\ ~WriteReady(x)
                           /\ c.write_in_progress
      /\ h.op = "read" /\ h.ok => h.items # << >>
      /\ WriteInv(x)
  <2>1. h.op = "write" => WriteReady(c)
    BY <1>3 DEF WriteReady
  <2>2. h.op = "write" => ~WriteReady(x)
    <3>1. ASSUME NEW i \in DOMAIN r PROVE i + 1 # 1
      BY <1>3
    <3> QED
      BY <1>1, <1>3, <1>4, <3>1 DEF WriteReady, WriteInv
  <2>3. WriteReady(x) => WriteReady(c)
    BY <1>3, <1>4 DEF WriteReady
  <2>4. \A i, j \in DOMAIN x.ready :
           x.ready[i].op = "write" /\ x.ready[j].op = "write" => i = j
    <3>1. \A i, j \in DOMAIN r : i + 1 = j + 1 => i = j
      BY <1>3
    <3> QED
      BY <1>1, <1>3, <1>4, <3>1 DEF WriteInv
  <2>5. WriteInv(x)
    BY <1>1, <1>4, <2>3, <2>4 DEF WriteInv
  <2>6. h.op = "read" /\ h.ok => h.items # << >>
    BY <1>1, <1>3 DEF ReadInv
  <2> QED
    BY <1>1, <2>1, <2>2, <2>5, <2>6 DEF WriteInv, Connection
<1>8. h.ok \in BOOLEAN /\ h.items \in Seq(Item)
  BY <1>3 DEF Handler
<1>9. CASE c.connection_type # "http"
  <2>1. Rests(x, c')
    <3>1. CASE h.op = "read"
      <4>1. Rests(x, handle_read(x, h.ok, h.items))
        BY <1>4, <1>5, <1>7, <1>8, <1>9, <3>1, HandleReadRests
      <4> QED
        BY <1>2, <3>1, <4>1
    <3>2. CASE h.op = "write"
      <4>1. Rests(x, handle_write(x, h.ok))
        BY <1>4, <1>5, <1>7, <1>8, <1>9, <3>2, HandleWriteRests
      <4> QED
        BY <1>2, <3>2, <4>1
    <3> QED
      BY <1>5, <3>1, <3>2
  <2> QED
    BY <1>4, <1>6, <2>1 DEF Rests, Quiet, HttpInv
<1>10. CASE c.connection_type = "http"
  <2>1. /\ c.writeQ = << >> /\ ~c.vSubscriptions
        /\ c.write_in_progress => c.writes = 1 \/ WriteReady(c)
        /\ \A i \in DOMAIN c.ready : c.ready[i].op = "read" => i = Len(c.ready)
        /\ c.reading => ~ReadReady(c)
        /\ c.write_in_progress /\ ~c.keepalive_ => ~c.reading /\ ~ReadReady(c)
    BY <1>10 DEF Quiet, HttpInv
  <2>2. c.open /\ c.writes = 0
    <3>1. c.open
      BY <1>1, <1>10 DEF Quiet, HttpInv
    <3>2. c.writes # 1
      BY <1>1, <1>10 DEF Quiet, HttpInv, Pending
    <3> QED
      BY <1>1, <3>1, <3>2 DEF Connection
  <2>3. CASE h.op = "read"
    <3>1. Len(c.ready) = 1
      BY <1>3, <2>1, <2>3
    <3>2. DOMAIN r = {} /\ Len(r) = 0
      BY <1>3, <3>1
    <3>3. r = << >>
      BY <1>3, <3>2, EmptySeq
    <3>4. DOMAIN c.ready = {1}
      BY <1>1, <3>1, LenProperties
    <3>5. ~WriteReady(c) /\ ReadReady(c)
      BY <1>3, <2>3, <3>4 DEF WriteReady, ReadReady
    <3>6. \A i \in DOMAIN sent : sent[i] # Reply(c.replies + 1)
      BY <2>1, <2>2, <3>5, RepliesKnown
    <3> DEFINE b == x.buf \o h.items
               y == [x EXCEPT !.readTimer = FALSE, !.buf = b]
    <3>7. b \in Seq(Item) /\ b # << >>
      <4>1. x.buf \in Seq(Item) /\ h.items # << >>
        BY <1>4, <1>5, <1>7, <2>2, <2>3 DEF Connection
      <4> QED
        BY <1>8, <4>1, ConcatProperties, ConcatEqualIffEmpty
    <3>8. handle_read(x, TRUE, h.items) =
             IF y.connection_type = "http" THEN HandleRequest(y) ELSE HandleFrame(y)
      BY DEF handle_read
    <3> HIDE DEF b
    <3>9. /\ y \in Connection /\ y.buf = b /\ y.ready = x.ready
          /\ y.open = x.open /\ y.writes = x.writes
          /\ y.write_in_progress = x.write_in_progress
          /\ y.writeQ = x.writeQ /\ y.vSubscriptions = x.vSubscriptions
          /\ y.replies = x.replies /\ y.connection_type = x.connection_type
          /\ y.reading = x.reading
      BY <1>4, <3>7 DEF Connection
    <3> HIDE DEF y
    <3>10. Idle(y, sent)
      BY <1>4, <1>6, <1>10, <2>1, <2>2, <3>3, <3>5, <3>6, <3>9, <1>1
         DEF Idle, Connection
    <3>11. Quiet(HandleRequest(y), sent)
      BY <3>7, <3>9, <3>10, HandleRequestQuiet
    <3>12. h.ok = TRUE
      BY <1>5, <1>8, <2>2
    <3>13. c' = handle_read(x, TRUE, h.items)
      BY <1>2, <2>3, <3>12
    <3> QED
      BY <1>4, <1>10, <3>8, <3>9, <3>11, <3>13
  <2>4. CASE h.op = "write"
    <3>1. ReadReady(x) => ReadReady(c)
      BY <1>3, <1>4 DEF ReadReady
    <3>2. \A i \in DOMAIN x.ready : x.ready[i].op = "read" => i = Len(x.ready)
      <4>1. ASSUME NEW i \in DOMAIN r, r[i].op = "read" PROVE i = Len(r)
        <5>1. i + 1 = Len(c.ready) /\ i \in Nat
          BY <1>3, <2>1, <4>1
        <5> QED
          BY <1>3, <5>1
      <4> QED
        BY <1>4, <4>1
    <3>3. h.ok = TRUE
      BY <1>5, <1>8, <2>2
    <3>4. c' = handle_write(x, TRUE)
      BY <1>2, <2>4, <3>3
    <3>5. /\ x.connection_type = "http" /\ x.open /\ x.writes = 0
          /\ ~WriteReady(x) /\ x.writeQ = << >> /\ ~x.vSubscriptions
          /\ Replied(sent, x.replies)
      BY <1>4, <1>6, <1>7, <1>10, <2>1, <2>2, <2>4
    <3>6. /\ x.reading => ~ReadReady(x)
          /\ ~x.keepalive_ => ~x.reading /\ ~ReadReady(x)
      BY <1>4, <1>7, <2>1, <2>4, <3>1
    <3> QED
      BY <1>4, <1>5, <3>2, <3>4, <3>5, <3>6, HandleWriteQuiet
  <2> QED
    BY <1>5, <2>3, <2>4
<1> QED
  BY <1>9, <1>10

\* The items that a patient client sends are handled when nothing is pending.
LEMMA ArrivePatient ==
    ASSUME NEW n \in 1..2
    PROVE  ConnInv /\ Quiet(c, sent) /\ Arrive(n) /\ patient' => Quiet(c', sent)
<1> SUFFICES ASSUME ConnInv, Quiet(c, sent), Arrive(n), patient'
             PROVE  Quiet(c', sent)
  OBVIOUS
<1> DEFINE x == [c EXCEPT !.reading = FALSE]
           items == SubSeq(toSend, 1, n)
           h == ReadHandler(items)
           y == Queue(x, h)
<1>1. /\ c \in Connection /\ toSend \in Seq(Item) /\ c.replies \in Nat
      /\ WriteInv(c)
  BY RepliesKnown DEF ConnInv, TypeOK
<1>2. c' = y /\ n <= Len(toSend) /\ Answered /\ c.reading
  BY DEF Arrive
<1>3. items \in Seq(Item)
  <2>1. Len(toSend) \in Nat /\ \A i \in 1..n : toSend[i] \in Item
    BY <1>1, <1>2, LenProperties, ElementOfSeq
  <2> QED
    BY <2>1, SubSeqProperties
<1>4. h \in Handler /\ h.op = "read" /\ h.ok
  BY <1>3 DEF ReadHandler, Handler
<1>5. /\ x \in Connection /\ x.ready = c.ready /\ x.writes = c.writes
      /\ x.open = c.open /\ x.write_in_progress = c.write_in_progress
      /\ x.writeQ = c.writeQ /\ x.replies = c.replies
      /\ x.connection_type = c.connection_type
      /\ x.keepalive_ = c.keepalive_ /\ x.vSubscriptions = c.vSubscriptions
      /\ ~x.reading
  BY <1>1 DEF Connection
<1> HIDE DEF x, h
<1>6. y \in Connection /\ y.ready = Append(c.ready, h)
  BY <1>4, <1>5, QueueHas
<1>7. /\ y.writes = c.writes
      /\ y.open = c.open /\ y.write_in_progress = c.write_in_progress
      /\ y.writeQ = c.writeQ /\ y.replies = c.replies
      /\ y.connection_type = c.connection_type
      /\ y.keepalive_ = c.keepalive_ /\ y.vSubscriptions = c.vSubscriptions
      /\ ~y.reading
  BY <1>4, <1>5 DEF Queue, Connection
<1> HIDE DEF y
<1>8. Replied(sent, c.replies) /\ ~Pending(c, sent)
  <2>1. Replied(sent, c.replies)
    BY <1>2 DEF Answered, Replied
  <2>2. ASSUME c.replies > 0 PROVE \E i \in DOMAIN sent : sent[i] = Reply(c.replies)
    <3>1. c.replies \in 1..c.replies
      BY <1>1, <2>2
    <3> QED
      BY <2>1, <3>1 DEF Replied
  <2> QED
    BY <2>1, <2>2 DEF Pending
<1>9. /\ DOMAIN y.ready = DOMAIN c.ready \union {Len(c.ready) + 1}
      /\ \A i \in DOMAIN c.ready : y.ready[i] = c.ready[i]
      /\ y.ready[Len(c.ready) + 1] = h
      /\ Len(y.ready) = Len(c.ready) + 1
  <2>1. c.ready \in Seq(Handler)
    BY <1>1 DEF Connection, Handler
  <2> QED
    BY <1>4, <1>6, <2>1, AppendProperties
<1>10. Calm(y)
  BY <1>4, <1>9, <1>7 DEF Quiet, Calm
<1>11. HttpInv(y, sent)
  <2> SUFFICES ASSUME c.connection_type = "http" PROVE HttpInv(y, sent)
    BY <1>7 DEF HttpInv
  <2>1. /\ c.writeQ = << >> /\ ~c.vSubscriptions
        /\ c.writes # 1
        /\ c.write_in_progress => c.writes = 1 \/ WriteReady(c)
        /\ ~ReadReady(c) /\ c.open
        /\ ~(c.write_in_progress /\ ~c.keepalive_)
    BY <1>2, <1>8 DEF Quiet, HttpInv
  <2>2. WriteReady(c) => WriteReady(y)
    BY <1>9 DEF WriteReady
  <2>3. ASSUME NEW i \in DOMAIN y.ready, y.ready[i].op = "read"
        PROVE  i = Len(y.ready)
    BY <1>9, <2>1, <2>3 DEF ReadReady
  <2> QED
    BY <1>7, <2>1, <2>2, <2>3 DEF HttpInv
<1> QED
  BY <1>2, <1>7, <1>8, <1>10, <1>11 DEF Quiet

LEMMA WriteCompletesPatient ==
    ConnInv /\ Quiet(c, sent) /\ WriteCompletes => Quiet(c', sent')
<1> SUFFICES ASSUME ConnInv, Quiet(c, sent), WriteCompletes
             PROVE  Quiet(c', sent')
  OBVIOUS
<1> DEFINE x == [c EXCEPT !.writes = 0]
           h == WriteHandler(TRUE)
           y == Queue(x, h)
<1>1. /\ c \in Connection /\ sent \in Seq(Message) /\ c.replies \in Nat
      /\ WriteInv(c) /\ c.writes = 1 /\ c.write_buffer \in Seq(Message)
  BY RepliesKnown DEF WriteCompletes, Connection
<1>2. c' = y /\ sent' = sent \o c.write_buffer
  BY <1>1 DEF WriteCompletes
<1>3. h \in Handler /\ h.op = "write" /\ h.ok
  BY EmptySeq DEF WriteHandler, Handler
<1>4. /\ x \in Connection /\ x.ready = c.ready /\ x.writes = 0
      /\ x.open = c.open /\ x.write_in_progress = c.write_in_progress
      /\ x.writeQ = c.writeQ /\ x.replies = c.replies
      /\ x.connection_type = c.connection_type
      /\ x.keepalive_ = c.keepalive_ /\ x.vSubscriptions = c.vSubscriptions
      /\ x.reading = c.reading
  <2>1. 0 \in 0..1
    OBVIOUS
  <2>2. x \in Connection
    BY <1>1, <2>1, OneMoreWrite
  <2> QED
    BY <1>1, <2>2 DEF Connection
<1> HIDE DEF x, h
<1>5. y \in Connection /\ y.ready = Append(c.ready, h)
  BY <1>3, <1>4, QueueHas
<1>6. /\ y.writes = 0
      /\ y.open = c.open /\ y.write_in_progress = c.write_in_progress
      /\ y.writeQ = c.writeQ /\ y.replies = c.replies
      /\ y.connection_type = c.connection_type
      /\ y.keepalive_ = c.keepalive_ /\ y.vSubscriptions = c.vSubscriptions
      /\ y.reading = c.reading
  BY <1>3, <1>4 DEF Queue, Connection
<1> HIDE DEF y
<1>7. /\ DOMAIN y.ready = DOMAIN c.ready \union {Len(c.ready) + 1}
      /\ \A i \in DOMAIN c.ready : y.ready[i] = c.ready[i]
      /\ y.ready[Len(c.ready) + 1] = h
  <2>1. c.ready \in Seq(Handler)
    BY <1>1 DEF Connection, Handler
  <2> QED
    BY <1>3, <1>5, <2>1, AppendProperties
<1>8. Calm(y)
  BY <1>3, <1>6, <1>7 DEF Quiet, Calm
<1>9. /\ \A i \in DOMAIN sent : i \in DOMAIN sent' /\ sent'[i] = sent[i]
      /\ c.write_buffer = <<Reply(c.replies)>>
            => \E i \in DOMAIN sent' : sent'[i] = Reply(c.replies)
  <2>1. /\ Len(sent) \in Nat /\ Len(c.write_buffer) \in Nat
        /\ DOMAIN sent = 1..Len(sent)
        /\ DOMAIN sent' = 1..(Len(sent) + Len(c.write_buffer))
        /\ \A i \in 1..Len(sent) : sent'[i] = sent[i]
        /\ \A i \in 1..Len(c.write_buffer) : sent'[Len(sent) + i] = c.write_buffer[i]
    <3>1. /\ Len(sent) \in Nat /\ Len(c.write_buffer) \in Nat
          /\ DOMAIN sent = 1..Len(sent)
      BY <1>1, LenProperties
    <3>2. /\ sent' \in Seq(Message)
          /\ Len(sent') = Len(sent) + Len(c.write_buffer)
          /\ \A i \in 1..(Len(sent) + Len(c.write_buffer)) : sent'[i] =
                IF i <= Len(sent) THEN sent[i] ELSE c.write_buffer[i - Len(sent)]
      BY <1>1, <1>2, ConcatProperties
    <3>3. DOMAIN sent' = 1..Len(sent')
      BY <3>2, LenProperties
    <3> QED
      BY <3>1, <3>2, <3>3
  <2>2. ASSUME c.write_buffer = <<Reply(c.replies)>>
        PROVE  \E i \in DOMAIN sent' : sent'[i] = Reply(c.replies)
    <3>1. Len(c.write_buffer) = 1 /\ c.write_buffer[1] = Reply(c.replies)
      BY <2>2
    <3>2. Len(sent) + 1 \in DOMAIN sent' /\ sent'[Len(sent) + 1] = Reply(c.replies)
      BY <2>1, <3>1
    <3> QED
      BY <3>2
  <2> QED
    BY <2>1, <2>2
<1>10. Replied(sent', c.replies)
  <2>1. CASE Replied(sent, c.replies)
    BY <1>9, <2>1 DEF Replied
  <2>2. CASE Pending(c, sent)
    <3>1. \A k \in 1..c.replies : k = c.replies \/ k \in 1..(c.replies - 1)
      BY <1>1
    <3> QED
      BY <1>9, <2>2, <3>1 DEF Pending, Replied
  <2> QED
    BY <2>1, <2>2 DEF Quiet
<1>11. HttpInv(y, sent')
  <2> SUFFICES ASSUME c.connection_type = "http" PROVE HttpInv(y, sent')
    BY <1>6 DEF HttpInv
  <2>1. /\ c.writeQ = << >> /\ ~c.vSubscriptions /\ Pending(c, sent)
        /\ c.write_in_progress /\ ~c.keepalive_ => ~c.reading
    BY <1>1 DEF Quiet, HttpInv
  <2>2. DOMAIN c.ready = {} /\ c.open
    BY <2>1, EmptyReady DEF Pending
  <2>3. ~ReadReady(y) /\ WriteReady(y)
    BY <1>3, <1>7, <2>2 DEF ReadReady, WriteReady
  <2> QED
    BY <1>6, <2>1, <2>2, <2>3 DEF HttpInv, ReadReady
<1> QED
  BY <1>2, <1>6, <1>8, <1>10, <1>11 DEF Quiet

LEMMA StartPatient ==
    ConnInv /\ Quiet(c, sent) /\ Fresh(c) /\ Start /\ undisturbed'
        => Quiet(c', sent)
<1> SUFFICES ASSUME ConnInv, Quiet(c, sent), Fresh(c), Start, undisturbed'
             PROVE  Quiet(c', sent)
  OBVIOUS
<1> DEFINE x == [c EXCEPT !.managed = TRUE, !.abandonedTimer = TRUE]
           y == read_more(x)
<1>1. c \in Connection
  BY RepliesKnown
<1>2. c' = y
  BY DEF Start, Fails
<1>3. /\ x \in Connection /\ Same(c, x) /\ x.ready = c.ready
      /\ x.writes = c.writes /\ x.write_in_progress = c.write_in_progress
      /\ x.writeQ = c.writeQ
  BY <1>1 DEF Connection, Same
<1> HIDE DEF x
<1>4. /\ Same(c, y) /\ Calm(y) /\ y.ready = << >>
      /\ y.writes = 0 /\ ~y.write_in_progress
      /\ y.writeQ = c.writeQ
  <2>1. x.open /\ x.ready = << >> /\ Calm(x)
    BY <1>3, EmptyReady DEF Fresh, Same
  <2> QED
    BY <1>3, <2>1, ReadMoreCalm DEF Fresh, Same
<1> HIDE DEF y
<1>5. DOMAIN y.ready = {} /\ ~ReadReady(y)
  BY <1>4, EmptyReady
<1>6. HttpInv(y, sent)
  BY <1>4, <1>5 DEF HttpInv, Quiet, Fresh, Same
<1>7. Replied(sent, y.replies)
  BY <1>4 DEF Quiet, Pending, Fresh, Same
<1> QED
  BY <1>2, <1>4, <1>6, <1>7 DEF Quiet

LEMMA DatabaseUpdatePatient ==
    ConnInv /\ Quiet(c, sent) /\ DatabaseUpdate => Quiet(c', sent)
<1> SUFFICES ASSUME ConnInv, Quiet(c, sent), DatabaseUpdate, c.vSubscriptions,
                    c' = MyWrite(c, Other("push"))
             PROVE  Quiet(c', sent)
  BY DEF DatabaseUpdate
<1>1. c \in Connection /\ WriteInv(c)
  BY RepliesKnown
<1>2. Other("push") \in Message
  BY DEF Other, Message
<1>3. Same(c, c') /\ Calm(c')
  BY <1>1, <1>2, MyWriteCalm DEF Quiet
<1>4. c.connection_type # "http" /\ Replied(sent, c.replies)
  BY DEF Quiet, HttpInv, Pending
<1> QED
  BY <1>3, <1>4 DEF Quiet, HttpInv, Same

LEMMA InitPatient == Init => PatientInv
<1> SUFFICES ASSUME Init PROVE Quiet(c, sent) /\ Fresh(c)
  BY DEF PatientInv
<1>1. /\ c.ready = << >> /\ c.writes = 0 /\ c.replies = 0 /\ c.open
      /\ c.writeQ = << >> /\ ~c.reading /\ ~c.write_in_progress
      /\ ~c.vSubscriptions
  BY DEF Init
<1>2. DOMAIN c.ready = {} /\ Calm(c) /\ ~ReadReady(c)
  BY <1>1, EmptyReady
<1>3. Replied(sent, c.replies)
  BY <1>1 DEF Replied
<1>4. HttpInv(c, sent)
  BY <1>1, <1>2 DEF HttpInv
<1> QED
  BY <1>1, <1>2, <1>3, <1>4 DEF Quiet, Fresh

LEMMA NextPatient == ConnInv /\ PatientInv /\ [Next]_vars => PatientInv'
<1> SUFFICES ASSUME ConnInv, PatientInv, [Next]_vars, patient', undisturbed'
             PROVE  Quiet(c', sent') /\ (~started' => Fresh(c'))
  BY DEF PatientInv
<1>1. CASE Start
  <2>1. patient /\ undisturbed /\ ~started /\ started' /\ sent' = sent
    BY <1>1 DEF Start, Fails
  <2> QED
    BY <1>1, <2>1, StartPatient DEF PatientInv
<1>2. CASE RunHandler
  <2>1. /\ patient /\ undisturbed /\ started' = started /\ sent' = sent
        /\ c.ready # << >>
    BY <1>2 DEF RunHandler, history
  <2> QED
    BY <1>2, <2>1, RunHandlerPatient DEF PatientInv, Fresh
<1>3. ASSUME NEW n \in 1..2, Arrive(n)
      PROVE  Quiet(c', sent') /\ (~started' => Fresh(c'))
  <2>1. /\ patient /\ undisturbed /\ started' = started /\ sent' = sent
        /\ c.reading
    BY <1>3 DEF Arrive
  <2> QED
    BY <1>3, <2>1, ArrivePatient DEF PatientInv, Fresh
<1>4. CASE WriteCompletes
  <2>1. /\ patient /\ undisturbed /\ started' = started /\ c.writes > 0
    BY <1>4 DEF WriteCompletes, history
  <2> QED
    BY <1>4, <2>1, WriteCompletesPatient DEF PatientInv, Fresh
<1>5. CASE DatabaseUpdate
  <2>1. /\ patient /\ undisturbed /\ started' = started /\ sent' = sent
        /\ ~c.vSubscriptions => c' = c
    BY <1>5 DEF DatabaseUpdate, history
  <2> QED
    BY <1>5, <2>1, DatabaseUpdatePatient DEF PatientInv, Fresh
<1>6. CASE Publish \/ UNCHANGED vars
  BY <1>6 DEF Publish, vars, history, PatientInv
<1>7. CASE StopAll \/ PeerCloses \/ WriteFails \/ ReadTimer \/ AbandonedTimer
  BY <1>7 DEF StopAll, PeerCloses, WriteFails, ReadTimer, AbandonedTimer, Fails
<1> QED
  BY <1>1, <1>2, <1>3, <1>4, <1>5, <1>6, <1>7 DEF Next

\* Every request of a patient client is replied to before a connection that
\* nothing disturbs is gone: connection.cpp:508 stops it only behind the reply.
THEOREM PatientClientAnswered == Spec => []PatientGetsReplies
<1>1. ConnInv /\ PatientInv => PatientGetsReplies
  BY DEF PatientInv, Quiet, Pending, PatientGetsReplies, Freed, Answered, Replied
<1>2. Init => ConnInv /\ PatientInv
  BY InitConnInv, InitPatient
<1>3. (ConnInv /\ PatientInv) /\ [Next]_vars => (ConnInv /\ PatientInv)'
  BY NextConnInv, NextPatient
<1> QED
  BY <1>1, <1>2, <1>3, PTL DEF Spec

=============================================================================
