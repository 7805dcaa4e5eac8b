---------------------- MODULE UpdatePublisher_proofs -----------------------
(***************************************************************************)
(* Theorems about UpdatePublisher, for any rows, any subscribers and any   *)
(* bound on the log: its types, the backlog between the hook and the       *)
(* publisher, that it implements ChangeFeed, and what follows of that.     *)
(***************************************************************************)
EXTENDS UpdatePublisher, SequenceTheorems, FiniteSetTheorems, TLAPS

-----------------------------------------------------------------------------
(* The operators of the model.                                             *)

\* The rows of a delete form a sequence of rows.
LEMMA DeletionsType ==
    ASSUME NEW r \in Row, NEW s \in Deletions(r)
    PROVE  s \in Seq(Row) /\ Range(s) = Subtree(r)
<1>1. Subtree(r) \subseteq Row
  BY DEF Subtree
<1>2. Cardinality(Subtree(r)) \in Nat
  BY <1>1, PublisherConstants, FS_Subset, FS_CardinalityType DEF PublisherConstants
<1>3. s \in [1 .. Cardinality(Subtree(r)) -> Subtree(r)] /\ Range(s) = Subtree(r)
  BY DEF Deletions
<1>4. s \in [1 .. Cardinality(Subtree(r)) -> Row]
  BY <1>1, <1>3
<1> QED
  BY <1>2, <1>3, <1>4, SeqDef

\* An entry for each row of a sequence is a sequence of entries, also if the
\* statement is taken back.
LEMMA DeleteEntriesType ==
    ASSUME NEW s \in Seq(Row)
    PROVE  LET undone == [i \in DOMAIN s |-> Undone(DeleteEntries(s)[i])]
           IN  /\ DeleteEntries(s) \in Seq(Entry)
               /\ Len(DeleteEntries(s)) = Len(s)
               /\ undone \in Seq(Entry)
               /\ Len(undone) = Len(s)
               /\ \A i \in 1 .. Len(s) :
                     /\ undone[i].action = "Delete"
                     /\ undone[i].row = s[i]
                     /\ ~undone[i].kept
<1> DEFINE e == DeleteEntries(s)
           undone == [i \in DOMAIN s |-> Undone(e[i])]
<1>1. DOMAIN s = 1 .. Len(s) /\ Len(s) \in Nat
  OBVIOUS
<1>2. \A i \in 1 .. Len(s) : s[i] \in Row
  OBVIOUS
<1>3. \A i \in 1 .. Len(s) : e[i] = NewEntry("Delete", s[i], Absent)
  BY <1>1 DEF DeleteEntries
<1>4. \A i \in 1 .. Len(s) : e[i] \in Entry
  <2>1. ASSUME NEW q \in Row PROVE NewEntry("Delete", q, Absent) \in Entry
    BY DEF NewEntry, Entry, Absent
  <2> QED
    BY <1>2, <1>3, <2>1
<1>5. e \in [1 .. Len(s) -> Entry]
  BY <1>1, <1>4 DEF DeleteEntries
<1>6. \A i \in 1 .. Len(s) :
          /\ undone[i] \in Entry
          /\ undone[i].action = "Delete" /\ undone[i].row = s[i] /\ ~undone[i].kept
  <2> SUFFICES ASSUME NEW i \in 1 .. Len(s)
               PROVE  /\ undone[i] \in Entry
                      /\ undone[i].action = "Delete" /\ undone[i].row = s[i]
                      /\ ~undone[i].kept
    OBVIOUS
  <2>1. undone[i] = [NewEntry("Delete", s[i], Absent) EXCEPT !.kept = FALSE]
    BY <1>1, <1>3 DEF Undone
  <2> QED
    BY <1>2, <2>1 DEF NewEntry, Entry, Absent
<1>7. undone \in [1 .. Len(s) -> Entry]
  BY <1>1, <1>6
<1> QED
  BY <1>1, <1>5, <1>6, <1>7

\* What a statement queues for one row is an entry.
LEMMA NewEntryType ==
    ASSUME NEW r \in Row, NEW d \in Held
    PROVE  /\ <<NewEntry("Insert", r, d)>> \in Seq(Entry)
           /\ <<NewEntry("Update", r, d)>> \in Seq(Entry)
           /\ <<Undone(NewEntry("Insert", r, d))>> \in Seq(Entry)
           /\ <<Undone(NewEntry("Update", r, d))>> \in Seq(Entry)
<1>1. NewEntry("Insert", r, d) \in Entry /\ NewEntry("Update", r, d) \in Entry
  BY DEF NewEntry, Entry
<1>2. /\ Undone(NewEntry("Insert", r, d)) \in Entry
      /\ Undone(NewEntry("Update", r, d)) \in Entry
  BY DEF NewEntry, Entry, Undone
<1> QED
  BY <1>1, <1>2

\* Without drops one slot and keeps the others, each once.
LEMMA WithoutProperties ==
    ASSUME NEW S, NEW q \in Seq(S), IsInjective(q), NEW x
    PROVE  /\ Without(q, x) \in Seq(S)
           /\ IsInjective(Without(q, x))
           /\ Range(Without(q, x)) = Range(q) \ {x}
<1>0. Len(q) \in Nat /\ DOMAIN q = 1 .. Len(q)
  OBVIOUS
<1>1. CASE x \notin Range(q)
  BY <1>1 DEF Without
<1>2. CASE x \in Range(q)
  <2> DEFINE at == CHOOSE i \in DOMAIN q : q[i] = x
             w == [i \in 1 .. Len(q) - 1 |-> q[IF i < at THEN i ELSE i + 1]]
  <2>1. at \in 1 .. Len(q) /\ q[at] = x
    BY <1>0, <1>2 DEF Range
  <2>2. Without(q, x) = w
    BY <1>2 DEF Without
  <2> HIDE DEF at
  <2>3. Len(q) - 1 \in Nat
    BY <1>0, <2>1
  <2>4. w \in [1 .. Len(q) - 1 -> S]
    BY <1>0, <2>1
  <2>5. w \in Seq(S)
    BY <2>3, <2>4
  <2>6. IsInjective(w)
    BY <1>0, <2>1, <2>4 DEF IsInjective
  <2>7. ASSUME NEW y \in Range(w) PROVE y \in Range(q) \ {x}
    BY <1>0, <2>1, <2>4 DEF IsInjective, Range
  <2>8. ASSUME NEW y \in Range(q) \ {x} PROVE y \in Range(w)
    <3>1. PICK i \in 1 .. Len(q) : q[i] = y
      BY <1>0 DEF Range
    <3>2. i # at
      BY <2>1, <3>1
    <3>3. CASE i < at
      <4>1. i \in DOMAIN w /\ w[i] = y
        BY <1>0, <2>1, <3>1, <3>3
      <4> QED
        BY <4>1 DEF Range
    <3>4. CASE i > at
      <4>1. i - 1 \in DOMAIN w /\ w[i - 1] = y
        BY <1>0, <2>1, <3>1, <3>4
      <4> QED
        BY <4>1 DEF Range
    <3> QED
      BY <1>0, <2>1, <3>1, <3>2, <3>3, <3>4
  <2> QED
    BY <2>2, <2>5, <2>6, <2>7, <2>8
<1> QED
  BY <1>1, <1>2

\* The end of a queue of slots has the others, each once.
LEMMA TailProperties ==
    ASSUME NEW S, NEW q \in Seq(S), q # << >>, IsInjective(q)
    PROVE  /\ Tail(q) \in Seq(S) /\ Head(q) \in S /\ Head(q) \in Range(q)
           /\ IsInjective(Tail(q))
           /\ Range(Tail(q)) = Range(q) \ {Head(q)}
<1>1. Len(q) \in Nat \ {0} /\ DOMAIN q = 1 .. Len(q) /\ Head(q) = q[1]
  OBVIOUS
<1>2. /\ Tail(q) \in Seq(S) /\ Len(Tail(q)) = Len(q) - 1
      /\ DOMAIN Tail(q) = 1 .. Len(q) - 1
      /\ \A i \in 1 .. Len(q) - 1 : Tail(q)[i] = q[i + 1]
  BY <1>1
<1>3. IsInjective(Tail(q))
  BY <1>1, <1>2 DEF IsInjective
<1>4. \A i \in 2 .. Len(q) : q[i] # q[1]
  BY <1>1 DEF IsInjective
<1>5. ASSUME NEW y \in Range(Tail(q)) PROVE y \in Range(q) \ {Head(q)}
  BY <1>1, <1>2, <1>4 DEF Range
<1>6. ASSUME NEW y \in Range(q) \ {Head(q)} PROVE y \in Range(Tail(q))
  <2>1. PICK i \in 2 .. Len(q) : q[i] = y
    BY <1>1 DEF Range
  <2>2. i - 1 \in 1 .. Len(q) - 1 /\ Tail(q)[i - 1] = y
    BY <1>1, <1>2, <2>1
  <2> QED
    BY <1>2, <2>2 DEF Range
<1>7. Head(q) \in S /\ Head(q) \in Range(q)
  BY <1>1 DEF Range
<1> QED
  BY <1>2, <1>3, <1>5, <1>6, <1>7

\* A slot that is connected comes last.
LEMMA AppendSlot ==
    ASSUME NEW S, NEW q \in Seq(S), IsInjective(q), NEW x \in S, x \notin Range(q)
    PROVE  /\ Append(q, x) \in Seq(S)
           /\ IsInjective(Append(q, x))
           /\ Range(Append(q, x)) = Range(q) \cup {x}
<1>1. Len(q) \in Nat /\ DOMAIN q = 1 .. Len(q)
  OBVIOUS
<1>2. /\ Append(q, x) \in Seq(S)
      /\ DOMAIN Append(q, x) = 1 .. Len(q) + 1
      /\ \A i \in 1 .. Len(q) : Append(q, x)[i] = q[i]
      /\ Append(q, x)[Len(q) + 1] = x
  BY <1>1
<1>3. IsInjective(Append(q, x))
  BY <1>1, <1>2 DEF IsInjective, Range
<1>4. Range(Append(q, x)) = Range(q) \cup {x}
  BY <1>1, <1>2 DEF Range
<1> QED
  BY <1>2, <1>3, <1>4

-----------------------------------------------------------------------------
(* Types and the backlog.                                                  *)

IInv == TypeOK /\ Backlog

LEMMA InitInvariant == Init => IInv
<1> SUFFICES ASSUME Init PROVE IInv
  OBVIOUS
<1> USE DEF Init
<1>1. TypeOK
  <2>1. {Absent, 1} \subseteq Held \cup {Absent}
    BY DEF Held
  <2>2. table \in [Row -> Held \cup {Absent}]
    BY <2>1
  <2>3. << >> \in Seq(Entry) /\ << >> \in Seq(Subscriber)
    OBVIOUS
  <2>4. got \in [Subscriber -> Seq(Entry)]
    BY <2>3
  <2> QED
    BY <2>2, <2>3, <2>4 DEF TypeOK
<1>2. IsInjective(<< >>) /\ Range(<< >>) = {}
  BY DEF IsInjective, Range
<1>3. Backlog
  BY <1>2 DEF Backlog
<1> QED
  BY <1>1, <1>3 DEF IInv

\* A statement queues a sequence of entries, and leaves the types as they are.
LEMMA StatementCallback ==
    ASSUME TypeOK, Statement
    PROVE  /\ \E entries \in Seq(Entry) : Callback(entries)
           /\ table' \in [Row -> Held \cup {Absent}]
<1> USE DEF TypeOK
<1>1. PICK r \in Row : \/ Insert(r) \/ Update(r) \/ Delete(r)
                       \/ InsertRefused(r) \/ UpdateRefused(r) \/ DeleteRefused(r)
  BY DEF Statement
<1>2. CASE Insert(r) \/ InsertRefused(r)
  BY <1>2, NewEntryType DEF Insert, InsertRefused, Held
<1>3. CASE Update(r)
  <2>1. PICK d \in Held : /\ table' = [table EXCEPT ![r] = d]
                          /\ Callback(<<NewEntry("Update", r, d)>>)
    BY <1>3 DEF Update
  <2> QED
    BY <2>1, NewEntryType
<1>4. CASE UpdateRefused(r)
  <2>1. PICK d \in Held : Callback(<<Undone(NewEntry("Update", r, d))>>)
    BY <1>4 DEF UpdateRefused
  <2> QED
    BY <1>4, <2>1, NewEntryType DEF UpdateRefused
<1>5. CASE Delete(r)
  <2>1. PICK s \in Deletions(r) : Callback(DeleteEntries(s))
    BY <1>5 DEF Delete
  <2>2. DeleteEntries(s) \in Seq(Entry)
    BY DeletionsType, DeleteEntriesType
  <2> QED
    BY <1>5, <2>1, <2>2 DEF Delete
<1>6. CASE DeleteRefused(r)
  <2>1. PICK s \in Deletions(r) :
            Callback([i \in DOMAIN s |-> Undone(DeleteEntries(s)[i])])
    BY <1>6 DEF DeleteRefused
  <2>2. [i \in DOMAIN s |-> Undone(DeleteEntries(s)[i])] \in Seq(Entry)
    BY DeletionsType, DeleteEntriesType
  <2> QED
    BY <1>6, <2>1, <2>2 DEF DeleteRefused
<1> QED
  BY <1>1, <1>2, <1>3, <1>4, <1>5, <1>6

\* What a callback appends is at the end of the log, and of the queue.
LEMMA CallbackAppends ==
    ASSUME TypeOK, NEW entries \in Seq(Entry), Callback(entries)
    PROVE  /\ queue' \in Seq(Entry) /\ log' \in Seq(Entry)
           /\ Len(log') = Len(log) + Len(entries)
           /\ Len(queue') = Len(queue) + Len(entries)
           /\ \A i \in 1 .. Len(log) : log'[i] = log[i]
           /\ \A i \in 1 .. Len(queue) : queue'[i] = queue[i]
           /\ \A i \in 1 .. Len(entries) :
                 log'[Len(log) + i] = entries[i] /\ queue'[Len(queue) + i] = entries[i]
<1>1. queue \in Seq(Entry) /\ log \in Seq(Entry)
  BY DEF TypeOK
<1>2. queue' = queue \o entries /\ log' = log \o entries
  BY DEF Callback
<1> QED
  BY <1>1, <1>2

LEMMA StatementInvariant == IInv /\ Statement => IInv'
<1> SUFFICES ASSUME IInv, Statement PROVE IInv'
  OBVIOUS
<1>1. TypeOK /\ Backlog
  BY DEF IInv
<1>2. PICK entries \in Seq(Entry) : Callback(entries)
  BY <1>1, StatementCallback
<1>3. UNCHANGED <<slots, stopping, publisher, entry, pending, published, got, missed>>
  BY <1>2 DEF Callback, threadVars, historyVars
<1>4. /\ queue' \in Seq(Entry) /\ log' \in Seq(Entry)
      /\ Len(log') = Len(log) + Len(entries)
      /\ Len(queue') = Len(queue) + Len(entries)
      /\ \A i \in 1 .. Len(log) : log'[i] = log[i]
      /\ \A i \in 1 .. Len(queue) : queue'[i] = queue[i]
      /\ \A i \in 1 .. Len(entries) :
            log'[Len(log) + i] = entries[i] /\ queue'[Len(queue) + i] = entries[i]
  BY <1>1, <1>2, CallbackAppends
<1>5. TypeOK'
  BY <1>1, <1>3, <1>4, StatementCallback DEF TypeOK
<1>6. published \in Nat /\ published <= Len(log) /\ Len(log) \in Nat /\ Len(entries) \in Nat
  BY <1>1 DEF TypeOK, Backlog
<1>7. publisher # "stopped" =>
          /\ Len(queue') = Len(log') - published
          /\ \A i \in 1 .. Len(queue') : queue'[i] = log'[published + i]
  <2> SUFFICES ASSUME publisher # "stopped"
               PROVE  /\ Len(queue') = Len(log') - published
                      /\ \A i \in 1 .. Len(queue') : queue'[i] = log'[published + i]
    OBVIOUS
  <2>1. /\ Len(queue) = Len(log) - published
        /\ \A i \in 1 .. Len(queue) : queue[i] = log[published + i]
    BY <1>1 DEF Backlog
  <2>2. ASSUME NEW i \in 1 .. Len(queue') PROVE queue'[i] = log'[published + i]
    <3>1. CASE i \in 1 .. Len(queue)
      <4>1. published + i \in 1 .. Len(log)
        BY <1>6, <2>1, <3>1
      <4>2. queue'[i] = queue[i] /\ log'[published + i] = log[published + i]
        BY <1>4, <3>1, <4>1
      <4> QED
        BY <2>1, <3>1, <4>2
    <3>2. CASE i \notin 1 .. Len(queue)
      <4> DEFINE j == i - Len(queue)
      <4>1. j \in 1 .. Len(entries) /\ i = Len(queue) + j /\ published + i = Len(log) + j
        BY <1>4, <1>6, <2>1, <3>2
      <4> QED
        BY <1>4, <4>1
    <3> QED
      BY <3>1, <3>2
  <2> QED
    BY <1>4, <1>6, <2>1, <2>2
<1>8. publisher = "calling" => published > 0 /\ entry = <<log'[published]>>
  BY <1>1, <1>4, <1>6 DEF Backlog
<1>9. Backlog'
  BY <1>1, <1>3, <1>4, <1>6, <1>7, <1>8 DEF Backlog
<1> QED
  BY <1>5, <1>9 DEF IInv

\* A step of the publisher thread, or of Stop.
LEMMA PublishInvariant ==
    IInv /\ (Publish \/ SlotThrows \/ RequestStop \/ Flush) => IInv'
<1> SUFFICES ASSUME TypeOK, Backlog, Publish \/ SlotThrows \/ RequestStop \/ Flush
             PROVE  TypeOK' /\ Backlog'
  BY DEF IInv
<1>a. IsInjective(<< >>) /\ Range(<< >>) = {}
  BY DEF IsInjective, Range
<1>1. CASE Wake \/ FindsNothing \/ ThreadEnds
  BY <1>1 DEF Wake, FindsNothing, ThreadEnds, TypeOK, Backlog, historyVars
<1>2. CASE Dequeue
  <2>1. queue \in Seq(Entry) /\ queue # << >> /\ published \in Nat /\ log \in Seq(Entry)
    BY <1>2 DEF Dequeue, TypeOK
  <2>2. /\ Len(queue) = Len(log) - published
        /\ \A i \in 1 .. Len(queue) : queue[i] = log[published + i]
    BY <1>2 DEF Dequeue, Backlog
  <2>3. /\ queue' = Tail(queue) /\ published' = published + 1
        /\ entry' = <<queue[1]>> /\ pending' = slots
        /\ publisher' = "calling" /\ queue[1] \in Entry
    BY <1>2, <2>1 DEF Dequeue
  <2>4. TypeOK'
    BY <1>2, <2>1, <2>3 DEF Dequeue, TypeOK
  <2>5. /\ published + 1 <= Len(log)
        /\ Len(queue') = Len(log) - (published + 1)
        /\ \A i \in 1 .. Len(queue') : queue'[i] = log[published + 1 + i]
        /\ queue[1] = log[published + 1]
    <3>1. Len(queue) \in Nat \ {0} /\ Len(log) \in Nat /\ 1 \in 1 .. Len(queue)
      BY <2>1
    <3>2. /\ Len(Tail(queue)) = Len(queue) - 1
          /\ \A i \in 1 .. Len(queue) - 1 : Tail(queue)[i] = queue[i + 1]
      BY <2>1, <3>1
    <3>3. ASSUME NEW i \in 1 .. Len(queue')
          PROVE  queue'[i] = log[published + 1 + i]
      <4>1. i \in 1 .. Len(queue) - 1 /\ i + 1 \in 1 .. Len(queue)
        BY <2>3, <3>1, <3>2
      <4>2. queue'[i] = queue[i + 1] /\ queue[i + 1] = log[published + (i + 1)]
        BY <2>2, <2>3, <3>2, <4>1
      <4>3. published + (i + 1) = published + 1 + i
        BY <2>1
      <4> QED
        BY <4>2, <4>3
    <3> QED
      BY <2>1, <2>2, <2>3, <3>1, <3>2, <3>3
  <2> QED
    BY <1>2, <2>1, <2>3, <2>4, <2>5 DEF Dequeue, Backlog
<1>3. CASE CallSlot
  <2>1. /\ pending # << >> /\ pending \in Seq(Subscriber) /\ IsInjective(pending)
        /\ publisher = "calling" /\ entry = <<log[published]>>
        /\ published \in 1 .. Len(log)
    BY <1>3 DEF CallSlot, TypeOK, Backlog
  <2>2. /\ Tail(pending) \in Seq(Subscriber) /\ Head(pending) \in Subscriber
        /\ IsInjective(Tail(pending))
        /\ Range(Tail(pending)) = Range(pending) \ {Head(pending)}
    BY <2>1, TailProperties
  <2>3. log[published] \in Entry /\ entry[1] = log[published]
    BY <2>1 DEF TypeOK
  <2>4. got' \in [Subscriber -> Seq(Entry)]
    BY <1>3, <2>2, <2>3 DEF CallSlot, TypeOK
  <2> QED
    BY <1>3, <2>1, <2>2, <2>4 DEF CallSlot, TypeOK, Backlog
<1>4. CASE SlotThrows
  <2>1. Range(pending) \subseteq Subscriber
    BY DEF TypeOK, Range
  <2> QED
    BY <1>4, <1>a, <2>1 DEF SlotThrows, TypeOK, Backlog
<1>5. CASE CallEnds
  BY <1>5, <1>a DEF CallEnds, TypeOK, Backlog, historyVars
<1>6. CASE RequestStop
  BY <1>6 DEF RequestStop, TypeOK, Backlog, threadVars, historyVars
<1>7. CASE Flush
  BY <1>7 DEF Flush, TypeOK, Backlog, historyVars
<1> QED
  BY <1>1, <1>2, <1>3, <1>4, <1>5, <1>6, <1>7 DEF Publish

LEMMA SubscriberInvariant ==
    ASSUME NEW s \in Subscriber, IInv, Connect(s) \/ Disconnect(s)
    PROVE  IInv'
<1>0. TypeOK /\ Backlog
  BY DEF IInv
<1>1. CASE Connect(s)
  <2>1. /\ slots' \in Seq(Subscriber) /\ IsInjective(slots')
        /\ Range(slots') = Range(slots) \cup {s}
    BY <1>0, <1>1, AppendSlot DEF Connect, TypeOK, Backlog
  <2> QED
    BY <1>0, <1>1, <2>1 DEF Connect, IInv, TypeOK, Backlog, threadVars
<1>2. CASE Disconnect(s)
  <2>1. /\ slots' \in Seq(Subscriber) /\ IsInjective(slots')
        /\ Range(slots') = Range(slots) \ {s}
    BY <1>0, <1>2, WithoutProperties DEF Disconnect, TypeOK, Backlog
  <2>2. /\ pending' \in Seq(Subscriber) /\ IsInjective(pending')
        /\ Range(pending') = Range(pending) \ {s}
    BY <1>0, <1>2, WithoutProperties DEF Disconnect, TypeOK, Backlog
  <2>3. pending = << >> => pending' = << >>
    BY <1>2 DEF Disconnect, Without, Range
  <2> QED
    BY <1>0, <1>2, <2>1, <2>2, <2>3 DEF Disconnect, IInv, TypeOK, Backlog
<1> QED
  BY <1>1, <1>2

LEMMA StepInvariant == IInv /\ [Next]_vars => IInv'
<1>1. IInv /\ UNCHANGED vars => IInv'
  BY DEF IInv, TypeOK, Backlog, vars
<1> QED
  BY <1>1, StatementInvariant, PublishInvariant, SubscriberInvariant DEF Next

\* Every variable keeps its type.
THEOREM TypeCorrect == Spec => []TypeOK
<1>1. IInv => TypeOK
  BY DEF IInv
<1> QED
  BY <1>1, InitInvariant, StepInvariant, PTL DEF Spec

\* Nothing is lost, repeated or reordered between the hook and the publisher.
THEOREM BacklogCorrect == Spec => []Backlog
<1>1. IInv => Backlog
  BY DEF IInv
<1> QED
  BY <1>1, InitInvariant, StepInvariant, PTL DEF Spec

-----------------------------------------------------------------------------
(* The refinement of ChangeFeed.                                           *)

LEMMA InitRefines == Init => Feed!FeedInit
<1>1. Range(<< >>) = {}
  BY DEF Range
<1> QED
  BY <1>1 DEF Init, Feed!FeedInit, Feed!Off, Cursor

\* The cursors of the slots move with the publisher, and with nothing else.
LEMMA CursorKept ==
    ASSUME Range(slots)' = Range(slots), Range(pending)' = Range(pending),
           published' = published
    PROVE  Cursor' = Cursor
BY DEF Cursor

\* A statement lets the log grow.
LEMMA StatementRefines == IInv /\ Statement => Feed!Grow
<1> SUFFICES ASSUME IInv, Statement PROVE Feed!Grow
  OBVIOUS
<1>1. TypeOK
  BY DEF IInv
<1>2. PICK entries \in Seq(Entry) : Callback(entries)
  BY <1>1, StatementCallback
<1>3. UNCHANGED <<slots, pending, published, got, missed>>
  BY <1>2 DEF Callback, threadVars, historyVars
<1>4. Cursor' = Cursor
  BY <1>3 DEF Cursor
<1>5. /\ log' \in Seq(Entry)
      /\ Len(log') = Len(log) + Len(entries)
      /\ \A i \in 1 .. Len(log) : log'[i] = log[i]
  BY <1>1, <1>2, CallbackAppends
<1>6. Len(log) <= Len(log')
  BY <1>1, <1>5 DEF TypeOK
<1> QED
  BY <1>3, <1>4, <1>5, <1>6 DEF Feed!Grow

\* Nothing that a subscriber could notice: the signal is about to be called
\* for the next entry, and every slot is behind by that entry.
LEMMA DequeueRefines == IInv /\ Dequeue => UNCHANGED Feed!feedVars
<1> SUFFICES ASSUME IInv, Dequeue PROVE UNCHANGED Feed!feedVars
  OBVIOUS
<1>1. pending = << >> /\ pending' = slots /\ slots' = slots
  BY DEF IInv, Backlog, Dequeue
<1>2. Range(<< >>) = {}
  BY DEF Range
<1>3. published' = published + 1 /\ published \in Nat
  BY DEF IInv, TypeOK, Dequeue
<1>4. Cursor' = Cursor
  BY <1>1, <1>2, <1>3 DEF Cursor
<1> QED
  BY <1>4 DEF Dequeue, Feed!feedVars

\* The slot whose turn it is gets the change that its cursor is at.
LEMMA CallSlotRefines == IInv /\ CallSlot => \E s \in Subscriber : Feed!Deliver(s)
<1> SUFFICES ASSUME IInv, CallSlot PROVE \E s \in Subscriber : Feed!Deliver(s)
  OBVIOUS
<1> DEFINE s == Head(pending)
<1>1. /\ pending # << >> /\ pending \in Seq(Subscriber) /\ IsInjective(pending)
      /\ publisher = "calling" /\ entry = <<log[published]>>
      /\ published \in 1 .. Len(log) /\ Len(log) \in Nat
      /\ Range(pending) \subseteq Range(slots)
  BY DEF IInv, CallSlot, TypeOK, Backlog
<1>2. /\ s \in Subscriber /\ s \in Range(pending)
      /\ Range(Tail(pending)) = Range(pending) \ {s}
  BY <1>1, TailProperties
<1>3. /\ pending' = Tail(pending) /\ slots' = slots /\ published' = published
      /\ log' = log /\ missed' = missed
      /\ got' = [got EXCEPT ![s] = Append(@, entry[1])]
  BY DEF CallSlot
<1> HIDE DEF s
<1>4. Cursor[s] = published - 1 /\ Cursor \in [Subscriber -> Int]
  BY <1>1, <1>2 DEF Cursor
<1>5. Cursor' = [Cursor EXCEPT ![s] = @ + 1]
  <2>1. Range(pending)' = Range(pending) \ {s} /\ Range(slots)' = Range(slots)
    BY <1>2, <1>3
  <2>2. \A t \in Subscriber \ {s} : t \in Range(pending)' <=> t \in Range(pending)
    BY <2>1
  <2>3. \A t \in Subscriber \ {s} : Cursor'[t] = Cursor[t]
    BY <1>3, <2>1, <2>2 DEF Cursor
  <2>4. Cursor'[s] = published
    BY <1>1, <1>2, <1>3, <2>1 DEF Cursor
  <2>5. Cursor[s] + 1 = published
    BY <1>1, <1>4
  <2>6. Cursor' \in [Subscriber -> Int]
    BY <1>1, <1>3, <2>1 DEF Cursor
  <2> QED
    BY <1>2, <1>4, <2>3, <2>4, <2>5, <2>6
<1>6. s \in Feed!Joined
  BY <1>1, <1>2, <1>4 DEF Feed!Joined, Feed!Off
<1>7. entry[1] = log[Cursor[s] + 1] /\ Cursor[s] < Len(log)
  BY <1>1, <1>4
<1>8. got' = [got EXCEPT ![s] = Append(@, log[Cursor[s] + 1])]
  BY <1>3, <1>7
<1> QED
  BY <1>2, <1>3, <1>5, <1>6, <1>7, <1>8 DEF Feed!Deliver

\* An exception: the slots that were still to be called miss the change.
LEMMA SlotThrowsRefines == IInv /\ SlotThrows => Feed!Miss(Range(pending))
<1> SUFFICES ASSUME IInv, SlotThrows PROVE Feed!Miss(Range(pending))
  OBVIOUS
<1> DEFINE S == Range(pending)
<1>1. /\ pending # << >> /\ pending \in Seq(Subscriber) /\ IsInjective(pending)
      /\ published \in 1 .. Len(log) /\ Len(log) \in Nat
      /\ S \subseteq Range(slots)
  BY DEF IInv, SlotThrows, TypeOK, Backlog
<1>2. Head(pending) \in S /\ S \subseteq Subscriber
  BY <1>1, TailProperties DEF Range
<1>3. /\ pending' = << >> /\ slots' = slots /\ published' = published
      /\ log' = log /\ got' = got /\ missed' = missed \cup S
      /\ Head(pending) \in Faulty
  BY DEF SlotThrows
<1>4. Range(pending') = {}
  BY <1>3 DEF Range
<1> HIDE DEF S
<1>5. \A s \in S : Cursor[s] = published - 1
  BY <1>1, <1>2 DEF Cursor, S
<1>6. Cursor' = [s \in Subscriber |-> IF s \in S THEN Cursor[s] + 1 ELSE Cursor[s]]
  BY <1>1, <1>2, <1>3, <1>4 DEF Cursor, S
<1>7. S \subseteq Feed!Joined
  BY <1>1, <1>2, <1>5 DEF Feed!Joined, Feed!Off
<1>8. \A s \in S : Cursor[s] < Len(log)
  BY <1>1, <1>5
<1> QED
  BY <1>2, <1>3, <1>6, <1>7, <1>8 DEF Feed!Miss, S

\* A subscriber joins behind the entry that is being published.
LEMMA ConnectRefines ==
    ASSUME NEW s \in Subscriber, IInv, Connect(s)
    PROVE  \E at \in 0 .. Len(log) : Feed!Join(s, at)
<1>1. /\ slots \in Seq(Subscriber) /\ IsInjective(slots) /\ s \notin Range(slots)
      /\ published \in 0 .. Len(log) /\ Range(pending) \subseteq Range(slots)
  BY DEF IInv, TypeOK, Backlog, Connect
<1>2. /\ slots' = Append(slots, s) /\ pending' = pending /\ published' = published
      /\ log' = log /\ got' = [got EXCEPT ![s] = << >>] /\ missed' = missed \ {s}
  BY DEF Connect, threadVars
<1>3. Range(slots)' = Range(slots) \cup {s}
  BY <1>1, <1>2, AppendSlot
<1>4. Cursor[s] = Feed!Off
  BY <1>1 DEF Cursor, Feed!Off
<1>5. Cursor' = [Cursor EXCEPT ![s] = published]
  BY <1>1, <1>2, <1>3 DEF Cursor
<1> QED
  BY <1>1, <1>2, <1>4, <1>5 DEF Feed!Join

\* A subscriber leaves, and the call under way skips it.
LEMMA DisconnectRefines ==
    ASSUME NEW s \in Subscriber, IInv, Disconnect(s)
    PROVE  Feed!Leave(s)
<1>1. /\ slots \in Seq(Subscriber) /\ IsInjective(slots) /\ s \in Range(slots)
      /\ pending \in Seq(Subscriber) /\ IsInjective(pending)
      /\ published \in Nat
      /\ pending # << >> => published > 0
  BY DEF IInv, TypeOK, Backlog, Disconnect
<1>2. /\ slots' = Without(slots, s) /\ pending' = Without(pending, s)
      /\ published' = published /\ log' = log
      /\ got' = [got EXCEPT ![s] = << >>] /\ missed' = missed \ {s}
  BY DEF Disconnect
<1>3. Range(slots)' = Range(slots) \ {s} /\ Range(pending)' = Range(pending) \ {s}
  BY <1>1, <1>2, WithoutProperties
<1>4. Cursor' = [Cursor EXCEPT ![s] = Feed!Off]
  BY <1>1, <1>2, <1>3 DEF Cursor, Feed!Off
<1>5. pending = << >> => Range(pending) = {}
  BY DEF Range
<1>6. s \in Feed!Joined
  BY <1>1, <1>5 DEF Cursor, Feed!Joined, Feed!Off
<1> QED
  BY <1>2, <1>4, <1>6 DEF Feed!Leave

LEMMA StepRefines == IInv /\ [Next]_vars => [Feed!FeedNext]_(Feed!feedVars)
<1> SUFFICES ASSUME IInv, [Next]_vars
             PROVE  [Feed!FeedNext]_(Feed!feedVars)
  OBVIOUS
<1>1. CASE Statement
  BY <1>1, StatementRefines DEF Feed!FeedNext
<1>2. CASE Dequeue
  BY <1>2, DequeueRefines
<1>3. CASE CallSlot
  BY <1>3, CallSlotRefines DEF Feed!FeedNext
<1>4. CASE SlotThrows
  <2>1. Range(pending) \in SUBSET Subscriber
    BY DEF IInv, TypeOK, Range
  <2> QED
    BY <1>4, <2>1, SlotThrowsRefines DEF Feed!FeedNext
<1>5. CASE Wake \/ FindsNothing \/ ThreadEnds
  BY <1>5, CursorKept DEF Wake, FindsNothing, ThreadEnds, historyVars, Feed!feedVars
<1>6. CASE CallEnds \/ Flush
  BY <1>6, CursorKept DEF CallEnds, Flush, historyVars, Feed!feedVars
<1>7. CASE RequestStop
  BY <1>7, CursorKept DEF RequestStop, historyVars, threadVars, Feed!feedVars
<1>8. CASE UNCHANGED vars
  BY <1>8, CursorKept DEF vars, Feed!feedVars
<1>9. ASSUME NEW s \in Subscriber, Connect(s) \/ Disconnect(s)
      PROVE  Feed!FeedNext
  BY <1>9, ConnectRefines, DisconnectRefines DEF Feed!FeedNext
<1> QED
  BY <1>1, <1>2, <1>3, <1>4, <1>5, <1>6, <1>7, <1>8, <1>9 DEF Next, Publish

\* The publisher keeps the promise of ChangeFeed: whatever statements,
\* subscribers and exceptions there are, a subscriber is handed the entries one
\* after the other from where it connected.
THEOREM Refinement == Spec => ImplementsFeed
BY InitInvariant, StepInvariant, InitRefines, StepRefines, PTL
   DEF Spec, ImplementsFeed, Feed!FeedSpec

FeedProofs == INSTANCE ChangeFeed_proofs WITH Change <- Entry, cursor <- Cursor

\* Both instances are of the same steps.
LEMMA FeedSteps ==
    [Feed!FeedNext]_(Feed!feedVars) => [FeedProofs!FeedNext]_(FeedProofs!feedVars)
BY DEF Feed!FeedNext, FeedProofs!FeedNext, Feed!feedVars, FeedProofs!feedVars,
       Feed!Grow, FeedProofs!Grow, Feed!Join, FeedProofs!Join,
       Feed!Deliver, FeedProofs!Deliver, Feed!Leave, FeedProofs!Leave,
       Feed!Miss, FeedProofs!Miss, Feed!Joined, FeedProofs!Joined,
       Feed!Off, FeedProofs!Off

\* So what each was handed is the stretch of the log that ends at its cursor.
THEOREM HandedStretch == Spec => []Feed!Contiguous
<1>1. Feed!FeedInit => FeedProofs!FeedInit
  BY DEF Feed!FeedInit, FeedProofs!FeedInit, Feed!Off, FeedProofs!Off
<1>2. [Feed!FeedNext]_(Feed!feedVars) => [FeedProofs!FeedNext]_(FeedProofs!feedVars)
  BY FeedSteps
<1>3. FeedProofs!Contiguous => Feed!Contiguous
  BY DEF Feed!Contiguous, FeedProofs!Contiguous, Feed!Joined, FeedProofs!Joined,
         Feed!Off, FeedProofs!Off
<1> QED
  BY <1>1, <1>2, <1>3, Refinement, FeedProofs!StretchOfLog, PTL
     DEF ImplementsFeed, Feed!FeedSpec, FeedProofs!FeedSpec

-----------------------------------------------------------------------------
(* What the log says of the table.                                         *)

\* The foreign keys hold between statements.
ForeignKeys == \A r \in Row : table[r] # Absent => HasParent(r, table)

\* A row that was really deleted does not come back.
DeletedStays ==
    \A i \in 1 .. Len(log) :
        log[i].action = "Delete" /\ log[i].kept => table[log[i].row] = Absent

\* The last entry of a row is what it holds, or its statement was taken back.
LogTellsTable ==
    \A i \in 1 .. Len(log) :
        \/ \E j \in 1 .. Len(log) : j > i /\ log[j].row = log[i].row
        \/ log[i].data = table[log[i].row]
        \/ ~log[i].kept

\* After the delete of a row the log has only refused inserts below it.
OrphansOnlyInserted ==
    \A i, j \in 1 .. Len(log) :
        (i < j /\ log[i].action = "Delete" /\ log[i].kept
               /\ Parent[log[j].row] = log[i].row)
            => log[j].action = "Insert" /\ ~log[j].kept

LogInv == ForeignKeys /\ DeletedStays /\ LogTellsTable /\ OrphansOnlyInserted

LEMMA InitLog == Init => LogInv
BY DEF Init, LogInv, ForeignKeys, DeletedStays, LogTellsTable, OrphansOnlyInserted

\* A statement on one row appends one entry.
LEMMA OneEntry ==
    ASSUME TypeOK, NEW e \in Entry, Callback(<<e>>)
    PROVE  /\ Len(log) \in Nat /\ Len(log') = Len(log) + 1
           /\ log'[Len(log) + 1] = e
           /\ \A i \in 1 .. Len(log) : log'[i] = log[i] /\ log[i] \in Entry
<1>1. <<e>> \in Seq(Entry) /\ Len(<<e>>) = 1 /\ <<e>>[1] = e
  OBVIOUS
<1>2. log \in Seq(Entry) /\ Len(log) \in Nat
  BY DEF TypeOK
<1>3. \A i \in 1 .. Len(log) : log[i] \in Entry
  BY <1>2
<1> DEFINE entries == <<e>>
<1>4. entries \in Seq(Entry) /\ Callback(entries) /\ Len(entries) = 1 /\ entries[1] = e
  BY <1>1
<1> HIDE DEF entries
<1>5. /\ Len(log') = Len(log) + Len(entries)
      /\ \A i \in 1 .. Len(log) : log'[i] = log[i]
      /\ \A i \in 1 .. Len(entries) : log'[Len(log) + i] = entries[i]
  BY <1>4, CallbackAppends
<1> QED
  BY <1>2, <1>3, <1>4, <1>5

\* A statement that leaves the other rows alone, and writes what it says.
LEMMA OneRowLog ==
    ASSUME TypeOK, LogInv, NEW r \in Row, NEW e \in Entry, Callback(<<e>>),
           e.row = r, e.action # "Delete",
           \A q \in Row \ {r} : table'[q] = table[q],
           e.data = table'[r],
           \A i \in 1 .. Len(log) :
              log[i].action = "Delete" /\ log[i].kept =>
                 log[i].row # r /\ Parent[r] # log[i].row,
           table'[r] # Absent => HasParent(r, table'),
           table[r] # Absent => table'[r] # Absent
    PROVE  LogInv'
<1>1. /\ Len(log) \in Nat /\ Len(log') = Len(log) + 1
      /\ log'[Len(log) + 1] = e
      /\ \A i \in 1 .. Len(log) : log'[i] = log[i] /\ log[i] \in Entry
  BY OneEntry
<1>2. \A i \in 1 .. Len(log) : log[i].row \in Row
  BY <1>1 DEF Entry
<1>3. ForeignKeys'
  <2>1. \A q \in Row \ {r} : table[q] # Absent => HasParent(q, table')
    BY DEF LogInv, ForeignKeys, HasParent
  <2> QED
    BY <2>1 DEF ForeignKeys
<1>4. DeletedStays'
  BY <1>1, <1>2 DEF LogInv, DeletedStays
<1>5. LogTellsTable'
  <2> SUFFICES ASSUME NEW i \in 1 .. Len(log')
               PROVE  \/ \E j \in 1 .. Len(log') : j > i /\ log'[j].row = log'[i].row
                      \/ log'[i].data = table'[log'[i].row]
                      \/ ~log'[i].kept
    BY DEF LogTellsTable
  <2>1. CASE i = Len(log) + 1
    BY <1>1, <2>1
  <2>2. CASE i \in 1 .. Len(log) /\ log[i].row = r
    <3>1. Len(log) + 1 \in 1 .. Len(log') /\ Len(log) + 1 > i
      BY <1>1, <2>2
    <3> QED
      BY <1>1, <2>2, <3>1
  <2>3. CASE i \in 1 .. Len(log) /\ log[i].row # r
    <3>1. \/ \E j \in 1 .. Len(log) : j > i /\ log[j].row = log[i].row
          \/ log[i].data = table[log[i].row]
          \/ ~log[i].kept
      BY <2>3 DEF LogInv, LogTellsTable
    <3>2. 1 .. Len(log) \subseteq 1 .. Len(log')
      BY <1>1
    <3> QED
      BY <1>1, <1>2, <2>3, <3>1, <3>2
  <2> QED
    BY <1>1, <2>1, <2>2, <2>3
<1>6. OrphansOnlyInserted'
  <2> SUFFICES ASSUME NEW i \in 1 .. Len(log'), NEW j \in 1 .. Len(log'), i < j,
                      log'[i].action = "Delete", log'[i].kept,
                      Parent[log'[j].row] = log'[i].row
               PROVE  log'[j].action = "Insert" /\ ~log'[j].kept
    BY DEF OrphansOnlyInserted
  <2>1. i \in 1 .. Len(log)
    BY <1>1
  <2>2. CASE j \in 1 .. Len(log)
    BY <1>1, <2>1, <2>2 DEF LogInv, OrphansOnlyInserted
  <2>3. CASE j = Len(log) + 1
    BY <1>1, <2>1, <2>3
  <2> QED
    BY <1>1, <2>2, <2>3
<1> QED
  BY <1>3, <1>4, <1>5, <1>6 DEF LogInv

\* A statement that is taken back leaves entries of no account.
LEMMA RefusedLog ==
    ASSUME TypeOK, LogInv, NEW entries \in Seq(Entry), Callback(entries),
           table' = table,
           \A k \in 1 .. Len(entries) :
              /\ ~entries[k].kept
              /\ entries[k].action # "Insert" => table[entries[k].row] # Absent
    PROVE  LogInv'
<1>1. /\ Len(log) \in Nat /\ Len(entries) \in Nat
      /\ Len(log') = Len(log) + Len(entries)
      /\ \A i \in 1 .. Len(log) : log'[i] = log[i]
      /\ \A k \in 1 .. Len(entries) : log'[Len(log) + k] = entries[k]
  <2>1. Len(log) \in Nat /\ Len(entries) \in Nat
    BY DEF TypeOK
  <2> QED
    BY <2>1, CallbackAppends
<1>2. ASSUME NEW i \in 1 .. Len(log'), i \notin 1 .. Len(log)
      PROVE  /\ i - Len(log) \in 1 .. Len(entries)
             /\ log'[i] = entries[i - Len(log)]
  <2>1. i - Len(log) \in 1 .. Len(entries) /\ Len(log) + (i - Len(log)) = i
    BY <1>1, <1>2
  <2> QED
    BY <1>1, <2>1
<1>3. \A i \in 1 .. Len(log') : i \notin 1 .. Len(log) => ~log'[i].kept
  BY <1>2
<1>4. ForeignKeys'
  BY DEF LogInv, ForeignKeys, HasParent
<1>5. DeletedStays'
  BY <1>1, <1>3 DEF LogInv, DeletedStays
<1>6. LogTellsTable'
  <2> SUFFICES ASSUME NEW i \in 1 .. Len(log'), i \in 1 .. Len(log)
               PROVE  \/ \E j \in 1 .. Len(log') : j > i /\ log'[j].row = log'[i].row
                      \/ log'[i].data = table'[log'[i].row]
                      \/ ~log'[i].kept
    BY <1>3 DEF LogTellsTable
  <2>1. \/ \E j \in 1 .. Len(log) : j > i /\ log[j].row = log[i].row
        \/ log[i].data = table[log[i].row]
        \/ ~log[i].kept
    BY DEF LogInv, LogTellsTable
  <2>2. 1 .. Len(log) \subseteq 1 .. Len(log')
    BY <1>1
  <2> QED
    BY <1>1, <2>1, <2>2
<1>7. OrphansOnlyInserted'
  <2> SUFFICES ASSUME NEW i \in 1 .. Len(log'), NEW j \in 1 .. Len(log'), i < j,
                      log'[i].action = "Delete", log'[i].kept,
                      Parent[log'[j].row] = log'[i].row
               PROVE  log'[j].action = "Insert" /\ ~log'[j].kept
    BY DEF OrphansOnlyInserted
  <2>1. i \in 1 .. Len(log)
    BY <1>3
  <2>2. CASE j \in 1 .. Len(log)
    BY <1>1, <2>1, <2>2 DEF LogInv, OrphansOnlyInserted
  <2>3. CASE j \notin 1 .. Len(log)
    <3> DEFINE q == log'[j].row
               p == log'[i].row
    <3>1. ~log'[j].kept /\ (log'[j].action # "Insert" => table[q] # Absent)
      BY <1>2, <2>3
    <3>2. log'[j] \in Entry /\ log'[i] \in Entry
      <4>1. log' \in Seq(Entry)
        BY CallbackAppends
      <4> QED
        BY <4>1
    <3>3. q \in Row /\ p \in Row /\ Parent[q] = p
      BY <3>2 DEF Entry
    <3>4. table[p] = Absent
      BY <1>1, <2>1 DEF LogInv, DeletedStays
    <3>5. table[q] = Absent
      BY <3>3, <3>4 DEF LogInv, ForeignKeys, HasParent
    <3> QED
      BY <3>1, <3>5
  <2> QED
    BY <2>2, <2>3
<1> QED
  BY <1>4, <1>5, <1>6, <1>7 DEF LogInv

\* The rows that go with a delete, children before parents, and all of them.
LEMMA DeletionsOrder ==
    ASSUME NEW r \in Row, NEW s \in Deletions(r)
    PROVE  \A i, j \in 1 .. Len(s) : Parent[s[j]] = s[i] => j <= i
<1> SUFFICES ASSUME NEW i \in 1 .. Len(s), NEW j \in 1 .. Len(s),
                    Parent[s[j]] = s[i], i < j
             PROVE  FALSE
  BY DeletionsType
<1>1. /\ s \in [1 .. Cardinality(Subtree(r)) -> Subtree(r)]
      /\ Range(s) = Subtree(r)
  BY DEF Deletions
<1>2. Subtree(r) \subseteq Row /\ IsFiniteSet(Subtree(r))
  BY PublisherConstants, FS_Subset DEF Subtree, PublisherConstants
<1>3. Cardinality(Subtree(r)) \in Nat
  BY <1>2, FS_CardinalityType
<1>4. Len(s) = Cardinality(Subtree(r)) /\ DOMAIN s = 1 .. Len(s)
  BY <1>1, <1>3
<1>5. IsInjective(s)
  <2>1. IsFiniteSet(1 .. Len(s)) /\ Cardinality(1 .. Len(s)) = Len(s)
    BY <1>3, <1>4, FS_Interval
  <2>2. s \in Surjection(1 .. Len(s), Subtree(r))
    BY <1>1, <1>4 DEF Surjection, Range
  <2>3. s \in Injection(1 .. Len(s), Subtree(r))
    BY <1>2, <1>4, <2>1, <2>2, FS_SurjSameCardinalityImpliesInj
  <2> QED
    BY <1>4, <2>3 DEF Injection, IsInjective
<1>6. s[i] \in Subtree(r) /\ s[j] \in Subtree(r)
  BY <1>1, <1>4
<1>7. s[j] \in Subtree(s[i])
  BY <1>6 DEF Subtree
<1>8. PICK first \in Int : first >= 1 /\ Subtree(s[i]) = {s[k] : k \in first .. i}
  <2>1. Cardinality(Subtree(s[i])) \in Nat
    BY PublisherConstants, FS_Subset, FS_CardinalityType DEF Subtree, PublisherConstants
  <2> QED
    BY <1>4, <2>1 DEF Deletions
<1>9. PICK k \in first .. i : s[k] = s[j]
  BY <1>7, <1>8
<1> QED
  BY <1>4, <1>5, <1>8, <1>9 DEF IsInjective

LEMMA DeleteLog == IInv /\ LogInv /\ (\E r \in Row : Delete(r)) => LogInv'
<1> SUFFICES ASSUME TypeOK, LogInv, NEW r \in Row, Delete(r)
             PROVE  LogInv'
  BY DEF IInv
<1>1. PICK s \in Deletions(r) : Callback(DeleteEntries(s))
  BY DEF Delete
<1> DEFINE entries == DeleteEntries(s)
<1>2. /\ s \in Seq(Row) /\ DOMAIN s = 1 .. Len(s) /\ Len(s) \in Nat
      /\ Range(s) = Subtree(r)
  BY DeletionsType
<1>3. entries \in Seq(Entry) /\ Len(entries) = Len(s)
  BY <1>2, DeleteEntriesType
<1>4. \A i \in 1 .. Len(s) : /\ entries[i].action = "Delete"
                              /\ entries[i].row = s[i]
                              /\ entries[i].data = Absent
                              /\ entries[i].kept
  BY <1>2 DEF NewEntry, DeleteEntries
<1>5. Callback(entries)
  BY <1>1
<1> HIDE DEF entries
<1>6. /\ Len(log) \in Nat /\ Len(log') = Len(log) + Len(s)
      /\ \A i \in 1 .. Len(log) : log'[i] = log[i] /\ log[i] \in Entry
      /\ \A i \in 1 .. Len(s) : log'[Len(log) + i] = entries[i]
  <2>1. log \in Seq(Entry) /\ Len(log) \in Nat
    BY DEF TypeOK
  <2>2. \A i \in 1 .. Len(log) : log[i] \in Entry
    BY <2>1
  <2>3. /\ Len(log') = Len(log) + Len(entries)
        /\ \A i \in 1 .. Len(log) : log'[i] = log[i]
        /\ \A i \in 1 .. Len(entries) : log'[Len(log) + i] = entries[i]
    BY <1>3, <1>5, CallbackAppends
  <2> QED
    BY <1>3, <2>1, <2>2, <2>3
<1>7. table' = [q \in Row |-> IF q \in Subtree(r) THEN Absent ELSE table[q]]
  BY DEF Delete
<1>8. \A i \in 1 .. Len(log) : log[i].row \in Row
  BY <1>6 DEF Entry
<1>9. \A i \in 1 .. Len(s) : s[i] \in Subtree(r) /\ s[i] \in Row
  BY <1>2 DEF Range
\* Where an entry of the new log comes from.
<1>10. ASSUME NEW i \in 1 .. Len(log'), i \notin 1 .. Len(log)
       PROVE  /\ i - Len(log) \in 1 .. Len(s)
              /\ log'[i] = entries[i - Len(log)]
  <2>1. i - Len(log) \in 1 .. Len(s) /\ Len(log) + (i - Len(log)) = i
    BY <1>2, <1>6, <1>10
  <2> QED
    BY <1>6, <2>1
<1>11. ForeignKeys'
  <2> SUFFICES ASSUME NEW q \in Row, table'[q] # Absent, NEW p \in Row, Parent[q] = p
               PROVE  table'[p] # Absent
    BY DEF ForeignKeys, HasParent
  <2>1. table[q] # Absent /\ q \notin Subtree(r) /\ table[p] # Absent
    BY <1>7 DEF LogInv, ForeignKeys, HasParent
  <2>2. ASSUME p \in Subtree(r) PROVE FALSE
    <3>1. CASE p = r
      BY <2>1, <3>1 DEF Subtree
    <3>2. CASE Parent[p] = r
      BY <2>1, <3>2 DEF Subtree
    <3>3. CASE Parent[p] \in Row /\ Parent[Parent[p]] = r
      BY <3>3, PublisherConstants DEF PublisherConstants
    <3> QED
      BY <2>2, <3>1, <3>2, <3>3 DEF Subtree
  <2> QED
    BY <1>7, <2>1, <2>2
<1>12. DeletedStays'
  <2> SUFFICES ASSUME NEW i \in 1 .. Len(log'),
                      log'[i].action = "Delete", log'[i].kept
               PROVE  table'[log'[i].row] = Absent
    BY DEF DeletedStays
  <2>1. CASE i \in 1 .. Len(log)
    BY <1>6, <1>7, <1>8, <2>1 DEF LogInv, DeletedStays
  <2>2. CASE i \notin 1 .. Len(log)
    BY <1>4, <1>7, <1>9, <1>10, <2>2
  <2> QED
    BY <2>1, <2>2
<1>13. LogTellsTable'
  <2> SUFFICES ASSUME NEW i \in 1 .. Len(log')
               PROVE  \/ \E j \in 1 .. Len(log') : j > i /\ log'[j].row = log'[i].row
                      \/ log'[i].data = table'[log'[i].row]
                      \/ ~log'[i].kept
    BY DEF LogTellsTable
  <2>1. CASE i \notin 1 .. Len(log)
    BY <1>4, <1>7, <1>9, <1>10, <2>1
  <2>2. CASE i \in 1 .. Len(log) /\ log[i].row \in Subtree(r)
    <3>1. PICK k \in 1 .. Len(s) : s[k] = log[i].row
      BY <1>2, <2>2 DEF Range
    <3>2. Len(log) + k \in 1 .. Len(log') /\ Len(log) + k > i
      BY <1>2, <1>6, <2>2
    <3>3. log'[Len(log) + k].row = log'[i].row
      BY <1>4, <1>6, <2>2, <3>1
    <3> QED
      BY <3>2, <3>3
  <2>3. CASE i \in 1 .. Len(log) /\ log[i].row \notin Subtree(r)
    <3>1. \/ \E j \in 1 .. Len(log) : j > i /\ log[j].row = log[i].row
          \/ log[i].data = table[log[i].row]
          \/ ~log[i].kept
      BY <2>3 DEF LogInv, LogTellsTable
    <3>2. 1 .. Len(log) \subseteq 1 .. Len(log')
      BY <1>2, <1>6
    <3> QED
      BY <1>6, <1>7, <1>8, <2>3, <3>1, <3>2
  <2> QED
    BY <2>1, <2>2, <2>3
<1>14. OrphansOnlyInserted'
  <2> SUFFICES ASSUME NEW i \in 1 .. Len(log'), NEW j \in 1 .. Len(log'), i < j,
                      log'[i].action = "Delete", log'[i].kept,
                      Parent[log'[j].row] = log'[i].row
               PROVE  log'[j].action = "Insert" /\ ~log'[j].kept
    BY DEF OrphansOnlyInserted
  <2>1. CASE j \in 1 .. Len(log)
    <3>1. i \in 1 .. Len(log)
      BY <2>1
    <3> QED
      BY <1>6, <2>1, <3>1 DEF LogInv, OrphansOnlyInserted
  <2>2. CASE j \notin 1 .. Len(log) /\ i \notin 1 .. Len(log)
    <3>1. /\ log'[i].row = s[i - Len(log)] /\ log'[j].row = s[j - Len(log)]
          /\ i - Len(log) \in 1 .. Len(s) /\ j - Len(log) \in 1 .. Len(s)
      BY <1>4, <1>10, <2>2
    <3>2. j - Len(log) <= i - Len(log)
      BY <3>1, DeletionsOrder
    <3> QED
      BY <1>6, <3>1, <3>2
  <2>3. CASE j \notin 1 .. Len(log) /\ i \in 1 .. Len(log)
    <3>1. log'[j].row \in Subtree(r) /\ log'[j].row \in Row
      BY <1>4, <1>9, <1>10, <2>3
    <3>2. table[log'[j].row] # Absent
      BY <3>1 DEF Subtree
    <3>3. table[log[i].row] # Absent
      BY <1>6, <1>8, <2>3, <3>1, <3>2 DEF LogInv, ForeignKeys, HasParent
    <3> QED
      BY <1>6, <2>3, <3>3 DEF LogInv, DeletedStays
  <2> QED
    BY <2>1, <2>2, <2>3
<1> QED
  BY <1>11, <1>12, <1>13, <1>14 DEF LogInv

LEMMA StepLog == IInv /\ LogInv /\ [Next]_vars => LogInv'
<1> SUFFICES ASSUME TypeOK, LogInv, IInv, [Next]_vars PROVE LogInv'
  BY DEF IInv
<1>1. ASSUME NEW r \in Row, Insert(r) PROVE LogInv'
  <2> DEFINE e == NewEntry("Insert", r, 1)
  <2>1. e \in Entry /\ e.row = r /\ e.action = "Insert" /\ e.data = 1
    BY DEF NewEntry, Entry, Held
  <2>2. Callback(<<e>>)
    BY <1>1 DEF Insert
  <2> HIDE DEF e
  <2>3. /\ table' = [table EXCEPT ![r] = 1]
        /\ HasParent(r, table)
        /\ \A i \in 1 .. Len(log) : log[i].row = r => log[i].action # "Delete"
    BY <1>1 DEF Insert, Unused, TypeOK
  <2>4. (\A q \in Row \ {r} : table'[q] = table[q]) /\ table'[r] = 1
    BY <2>3 DEF TypeOK
  <2>5. HasParent(r, table')
    BY <2>3, <2>4 DEF HasParent, Absent
  <2>6. ASSUME NEW i \in 1 .. Len(log), log[i].action = "Delete", log[i].kept
        PROVE  log[i].row # r /\ Parent[r] # log[i].row
    <3>1. log[i] \in Entry
      BY DEF TypeOK
    <3>2. table[log[i].row] = Absent /\ log[i].row \in Row
      BY <2>6, <3>1 DEF LogInv, DeletedStays, Entry
    <3> QED
      BY <2>3, <2>6, <3>2 DEF HasParent
  <2>7. e.data = table'[r] /\ e.action # "Delete" /\ table'[r] # Absent
    BY <2>1, <2>4 DEF Absent
  <2> QED
    BY <2>1, <2>2, <2>4, <2>5, <2>6, <2>7, OneRowLog
<1>2. ASSUME NEW r \in Row, InsertRefused(r) PROVE LogInv'
  <2> DEFINE entries == <<Undone(NewEntry("Insert", r, 1))>>
  <2>1. entries \in Seq(Entry) /\ Len(entries) = 1
    BY NewEntryType DEF Held
  <2>2. entries[1].action = "Insert" /\ ~entries[1].kept
    BY DEF Undone, NewEntry
  <2>3. Callback(entries) /\ table' = table
    BY <1>2 DEF InsertRefused
  <2> HIDE DEF entries
  <2> QED
    BY <2>1, <2>2, <2>3, RefusedLog
<1>3. ASSUME NEW r \in Row, Update(r) PROVE LogInv'
  <2>1. PICK d \in Held : /\ table' = [table EXCEPT ![r] = d]
                          /\ Callback(<<NewEntry("Update", r, d)>>)
    BY <1>3 DEF Update
  <2> DEFINE e == NewEntry("Update", r, d)
  <2>2. e \in Entry /\ e.row = r /\ e.action = "Update" /\ e.data = d
    BY DEF NewEntry, Entry
  <2>3. Callback(<<e>>)
    BY <2>1
  <2> HIDE DEF e
  <2>4. /\ \A q \in Row \ {r} : table'[q] = table[q]
        /\ table'[r] = d /\ d # Absent /\ table[r] # Absent
    BY <1>3, <2>1 DEF Update, TypeOK, Held, Absent
  <2>5. ASSUME NEW i \in 1 .. Len(log), log[i].action = "Delete", log[i].kept
        PROVE  log[i].row # r /\ Parent[r] # log[i].row
    <3>1. log[i] \in Entry
      BY DEF TypeOK
    <3>2. table[log[i].row] = Absent /\ log[i].row \in Row
      BY <2>5, <3>1 DEF LogInv, DeletedStays, Entry
    <3> QED
      BY <2>4, <3>2 DEF LogInv, ForeignKeys, HasParent
  <2>6. HasParent(r, table')
    BY <2>4 DEF LogInv, ForeignKeys, HasParent
  <2>7. e.data = table'[r] /\ e.action # "Delete"
    BY <2>2, <2>4
  <2> QED
    BY <2>2, <2>3, <2>4, <2>5, <2>6, <2>7, OneRowLog
<1>8. ASSUME NEW r \in Row, UpdateRefused(r) PROVE LogInv'
  <2>1. PICK d \in Held : Callback(<<Undone(NewEntry("Update", r, d))>>)
    BY <1>8 DEF UpdateRefused
  <2> DEFINE entries == <<Undone(NewEntry("Update", r, d))>>
  <2>2. entries \in Seq(Entry) /\ Len(entries) = 1
    BY NewEntryType
  <2>3. entries[1].row = r /\ ~entries[1].kept
    BY DEF Undone, NewEntry
  <2>4. Callback(entries) /\ table' = table /\ table[r] # Absent
    BY <1>8, <2>1 DEF UpdateRefused
  <2> HIDE DEF entries
  <2> QED
    BY <2>2, <2>3, <2>4, RefusedLog
<1>9. ASSUME NEW r \in Row, DeleteRefused(r) PROVE LogInv'
  <2>1. PICK s \in Deletions(r) :
            Callback([i \in DOMAIN s |-> Undone(DeleteEntries(s)[i])])
    BY <1>9 DEF DeleteRefused
  <2> DEFINE entries == [i \in DOMAIN s |-> Undone(DeleteEntries(s)[i])]
  <2>2. s \in Seq(Row) /\ Range(s) = Subtree(r)
    BY DeletionsType
  <2>3. /\ entries \in Seq(Entry) /\ Len(entries) = Len(s)
        /\ \A k \in 1 .. Len(s) : entries[k].row = s[k] /\ ~entries[k].kept
    BY <2>2, DeleteEntriesType
  <2>4. \A k \in 1 .. Len(s) : table[s[k]] # Absent
    BY <2>2 DEF Range, Subtree
  <2>5. Callback(entries) /\ table' = table
    BY <1>9, <2>1 DEF DeleteRefused
  <2> HIDE DEF entries
  <2> QED
    BY <2>3, <2>4, <2>5, RefusedLog
<1>4. ASSUME UNCHANGED <<table, log>> PROVE LogInv'
  BY <1>4 DEF LogInv, ForeignKeys, HasParent, DeletedStays, LogTellsTable,
              OrphansOnlyInserted
<1>5. CASE Publish \/ SlotThrows \/ RequestStop \/ Flush
  BY <1>4, <1>5 DEF Publish, Wake, FindsNothing, Dequeue, CallSlot, CallEnds,
                    ThreadEnds, SlotThrows, RequestStop, Flush
<1>6. ASSUME NEW s \in Subscriber, Connect(s) \/ Disconnect(s) PROVE LogInv'
  BY <1>4, <1>6 DEF Connect, Disconnect
<1>7. CASE UNCHANGED vars
  BY <1>4, <1>7 DEF vars
<1> QED
  BY <1>1, <1>2, <1>3, <1>5, <1>6, <1>7, <1>8, <1>9, DeleteLog
     DEF Next, Statement

LEMMA LogCorrect == Spec => [](IInv /\ LogInv)
BY InitInvariant, InitLog, StepInvariant, StepLog, PTL DEF Spec

\* What a subscriber has last heard of a row, if it missed nothing and all is
\* published, is what the row holds: its stretch ends with the log, and the log
\* ends with what the table holds.
THEOREM LastHeard == Spec => []LastHeardIsCurrent
<1>1. IInv /\ LogInv /\ Feed!Contiguous => LastHeardIsCurrent
  <2> SUFFICES ASSUME TypeOK, LogInv, Feed!Contiguous,
                      NEW s \in Range(slots) \ (missed \cup Range(pending)),
                      published = Len(log), NEW i \in DOMAIN got[s]
               PROVE  \/ \E j \in DOMAIN got[s] : j > i /\ got[s][j].row = got[s][i].row
                      \/ got[s][i].data = table[got[s][i].row]
                      \/ ~got[s][i].kept
    BY DEF IInv, LastHeardIsCurrent
  <2> DEFINE g == got[s]
             start == Len(log) - Len(g)
  <2>1. /\ s \in Subscriber /\ g \in Seq(Entry) /\ Len(g) \in Nat
        /\ DOMAIN g = 1 .. Len(g) /\ Len(log) \in Nat
    BY DEF TypeOK, Range
  <2>2. Cursor[s] = Len(log)
    BY <2>1 DEF Cursor
  <2>3. Len(g) <= Len(log) /\ \A k \in 1 .. Len(g) : g[k] = log[start + k]
    <3>1. s \in Feed!Joined \ missed
      BY <2>1, <2>2 DEF Feed!Joined, Feed!Off
    <3>2. /\ Len(got[s]) <= Cursor[s]
          /\ \A k \in 1 .. Len(got[s]) :
                got[s][k] = log[Cursor[s] - Len(got[s]) + k]
      BY <3>1 DEF Feed!Contiguous
    <3> QED
      BY <2>2, <3>2
  <2> HIDE DEF g
  <2>4. start \in Nat /\ start + i \in 1 .. Len(log) /\ i \in 1 .. Len(g)
    BY <2>1, <2>3 DEF g
  <2>5. CASE \E k \in 1 .. Len(log) : k > start + i /\ log[k].row = log[start + i].row
    <3>1. PICK k \in 1 .. Len(log) : k > start + i /\ log[k].row = log[start + i].row
      BY <2>5
    <3>2. k - start \in 1 .. Len(g) /\ k - start > i /\ start + (k - start) = k
      BY <2>1, <2>4, <3>1
    <3>3. g[k - start].row = g[i].row
      BY <2>3, <2>4, <3>1, <3>2
    <3> QED
      BY <2>1, <3>2, <3>3 DEF g
  <2>6. CASE ~ \E k \in 1 .. Len(log) : k > start + i /\ log[k].row = log[start + i].row
    BY <2>3, <2>4, <2>6 DEF LogInv, LogTellsTable, g
  <2> QED
    BY <2>5, <2>6
<1> QED
  BY <1>1, LogCorrect, HandedStretch, PTL


\* After a row is really deleted no subscriber hears of a row below it: what it
\* hears comes in the order of the log, and there it is so.
THEOREM OrphansUnheard == Spec => []NoNewsOfOrphans
<1>1. Spec => []Feed!InLogOrder
  <2>1. Feed!FeedInit => FeedProofs!FeedInit
    BY DEF Feed!FeedInit, FeedProofs!FeedInit, Feed!Off, FeedProofs!Off
  <2>2. [Feed!FeedNext]_(Feed!feedVars) => [FeedProofs!FeedNext]_(FeedProofs!feedVars)
    BY FeedSteps
  <2>3. FeedProofs!InLogOrder => Feed!InLogOrder
    BY DEF Feed!InLogOrder, FeedProofs!InLogOrder
  <2> QED
    BY <2>1, <2>2, <2>3, Refinement, FeedProofs!OrderOfLog, PTL
       DEF ImplementsFeed, Feed!FeedSpec, FeedProofs!FeedSpec
<1>2. IInv /\ LogInv /\ Feed!InLogOrder => NoNewsOfOrphans
  <2> SUFFICES ASSUME TypeOK, OrphansOnlyInserted, Feed!InLogOrder,
                      NEW s \in Subscriber,
                      NEW i \in DOMAIN got[s], NEW j \in DOMAIN got[s], i < j,
                      got[s][i].action = "Delete", got[s][i].kept,
                      Parent[got[s][j].row] = got[s][i].row
               PROVE  got[s][j].action = "Insert" /\ ~got[s][j].kept
    BY DEF IInv, LogInv, NoNewsOfOrphans
  <2>1. i \in 1 .. Len(got[s]) /\ j \in 1 .. Len(got[s])
    BY DEF TypeOK
  <2>2. PICK k \in 1 .. Len(log), l \in 1 .. Len(log) :
            k < l /\ log[k] = got[s][i] /\ log[l] = got[s][j]
    BY <2>1 DEF Feed!InLogOrder
  <2> QED
    BY <2>2 DEF OrphansOnlyInserted
<1> QED
  BY <1>1, <1>2, LogCorrect, PTL
=============================================================================
