-------------------------- MODULE UpdatePublisher ---------------------------
(***************************************************************************)
(* CUpdateManager, from the end of Start on: every row that a statement    *)
(* changes becomes an entry of a queue (the SQLite update hook, on the     *)
(* thread of the statement), and the publisher thread hands one entry      *)
(* every 50 ms to the slots that are connected to its signal: the plugin   *)
(* system and the open websockets.                                         *)
(*                                                                         *)
(*   statements   each is one step, under the mutex of the SQLite handle   *)
(*   publisher    Do_Work                                                  *)
(*   subscribers  connect and disconnect whenever they like, also while    *)
(*                an entry is being handed over; some may throw            *)
(*   main         Stop                                                     *)
(*                                                                         *)
(* The rows have the shape of the schema: a row may have a parent (a       *)
(* Device its Interface, a Value its Device), a foreign key names it, and  *)
(* the BEFORE DELETE triggers delete the children of a row before it.  The *)
(* rows of the log tables, which triggers write, go the same way and are   *)
(* left out.                                                               *)
(*                                                                         *)
(* The tables have triggers, so SQLite checks the foreign keys at the end  *)
(* of a statement, when the hook was called for its rows: a statement that *)
(* fails the check is taken back, and its entries stay in the queue.       *)
(*                                                                         *)
(* The module implements ChangeFeed (ImplementsFeed, at the end).          *)
(***************************************************************************)
EXTENDS Integers, Sequences, FiniteSets, Functions

CONSTANTS Row,         \* the rows there may be: each is one table and ID
          Parent,      \* Parent[r] : the row that r refers to, or NoRow
          NoRow,       \* no parent
          Pinned,      \* the rows to which a key without ON DELETE CASCADE refers
          Subscriber,  \* those that connect a slot
          Faulty,      \* the subscribers whose slot may throw
          MaxLog       \* bound on the entries

ASSUME PublisherConstants ==
    /\ IsFiniteSet(Row)
    /\ NoRow \notin Row
    /\ Parent \in [Row -> Row \cup {NoRow}]
    \* Interface, Device, Value: three levels.
    /\ \A p, q, r \in Row : Parent[r] = q /\ Parent[q] = p => Parent[p] = NoRow
    /\ Pinned \subseteq Row
    /\ Faulty \subseteq Subscriber
    /\ MaxLog \in Nat

VARIABLES
    table,       \* what the database holds in each row
    \* CUpdateManager
    queue,       \* UpdateEntryQueue
    publisher,   \* where Do_Work is, and then Stop
    entry,       \* pMessage, while it is handed over: at most one
    slots,       \* the slots connected, in the order of connecting
    pending,     \* those of them that this call of the signal has to call
    stopping,    \* RequestStop was called
    \* history: for the refinement and the properties
    log,         \* every entry that was ever queued
    published,   \* how many of them the publisher has taken
    got,         \* got[s] : what s was handed since it connected
    missed       \* the slots that an exception skipped since they connected

threadVars == <<publisher, entry, pending>>
historyVars == <<published, got, missed>>
vars == <<table, queue, publisher, entry, slots, pending, stopping, log,
          published, got, missed>>

Absent == 0
\* Two values, so that entries of one row may differ.
Held == {1, 2}

\* kept is history: whether the statement stood.  No step reads it.
Entry == [action : {"Insert", "Update", "Delete"}, row : Row,
          data : Held \cup {Absent}, kept : BOOLEAN]

TypeOK ==
    /\ table \in [Row -> Held \cup {Absent}]
    /\ queue \in Seq(Entry)
    /\ publisher \in {"waiting", "looking", "calling", "ended", "stopped"}
    /\ entry \in Seq(Entry)
    /\ slots \in Seq(Subscriber)
    /\ pending \in Seq(Subscriber)
    /\ stopping \in BOOLEAN
    /\ log \in Seq(Entry)
    /\ published \in Nat
    /\ got \in [Subscriber -> Seq(Entry)]
    /\ missed \subseteq Subscriber

\* The foreign keys.
HasParent(r, t) == \A p \in Row : Parent[r] = p => t[p] # Absent

Init ==
    /\ table \in [Row -> {Absent, 1}]
    /\ \A r \in Row : table[r] # Absent => HasParent(r, table)
    /\ queue = << >>
    /\ publisher = "waiting"
    /\ entry = << >>
    /\ slots = << >>
    /\ pending = << >>
    /\ stopping = FALSE
    /\ log = << >>
    /\ published = 0
    /\ got = [s \in Subscriber |-> << >>]
    /\ missed = {}

-----------------------------------------------------------------------------
(***************************************************************************)
(* Statements.                                                             *)
(***************************************************************************)

\* CUpdateManager::callback, for the rows of one statement: what each holds
\* at that moment is in its entry.
Callback(entries) ==
    /\ Len(log) + Len(entries) <= MaxLog
    /\ queue' = queue \o entries
    /\ log' = log \o entries
    /\ UNCHANGED <<slots, stopping, threadVars, historyVars>>

\* What the hook reports of a row, and of one whose statement is taken back.
NewEntry(a, r, d) == [action |-> a, row |-> r, data |-> d, kept |-> TRUE]
Undone(e) == [e EXCEPT !.kept = FALSE]

\* An ID is never used again once its row was there (AUTOINCREMENT).
Unused(r) ==
    /\ table[r] = Absent
    /\ \A i \in DOMAIN log : log[i].row = r => log[i].action # "Delete"

Insert(r) ==
    /\ Unused(r)
    /\ HasParent(r, table)
    /\ table' = [table EXCEPT ![r] = 1]
    /\ Callback(<<NewEntry("Insert", r, 1)>>)

\* The row refers to one that is not there: its parent, a Unit.
InsertRefused(r) ==
    /\ Unused(r)
    /\ Parent[r] # NoRow
    /\ Callback(<<Undone(NewEntry("Insert", r, 1))>>)
    /\ UNCHANGED table

\* Mutant: the hook reads the row before it is written.
MutUpdate(r) ==
    /\ table[r] # Absent
    /\ \E d \in Held \ {table[r]} :
          /\ table' = [table EXCEPT ![r] = d]
          /\ Callback(<<NewEntry("Update", r, table[r])>>)

\* An update that writes what is there has an entry all the same: left out.
Update(r) ==
    /\ table[r] # Absent
    /\ \E d \in Held \ {table[r]} :
          /\ table' = [table EXCEPT ![r] = d]
          /\ Callback(<<NewEntry("Update", r, d)>>)

\* As an insert may be.
UpdateRefused(r) ==
    /\ table[r] # Absent
    /\ Parent[r] # NoRow
    /\ \E d \in Held \ {table[r]} :
          Callback(<<Undone(NewEntry("Update", r, d))>>)
    /\ UNCHANGED table

\* The rows that go with r: itself, its children and theirs.
Subtree(r) ==
    {q \in Row : /\ table[q] # Absent
                 /\ \/ q = r
                    \/ Parent[q] = r
                    \/ Parent[q] \in Row /\ Parent[Parent[q]] = r}

\* Mutant: ON DELETE CASCADE without the triggers, the parent first.
MutDeletions(r) ==
    {s \in [1 .. Cardinality(Subtree(r)) -> Subtree(r)] :
        s[1] = r /\ IsInjective(s)}

\* The orders in which the triggers delete them: the rows below each of them
\* come just before it.
Deletions(r) ==
    {s \in [1 .. Cardinality(Subtree(r)) -> Subtree(r)] :
        /\ Range(s) = Subtree(r)
        /\ \A i \in DOMAIN s :
            LET first == i - Cardinality(Subtree(s[i])) + 1
            IN  first >= 1 /\ Subtree(s[i]) = {s[j] : j \in first .. i}}

\* The entries of a delete, in one of these orders.
DeleteEntries(s) == [i \in DOMAIN s |-> NewEntry("Delete", s[i], Absent)]

Delete(r) ==
    /\ table[r] # Absent
    /\ table' = [q \in Row |-> IF q \in Subtree(r) THEN Absent ELSE table[q]]
    /\ \E s \in Deletions(r) : Callback(DeleteEntries(s))

\* An Element of a dashboard shows one of the values, or a notification goes
\* through the interface: the table that says so is not modelled.
DeleteRefused(r) ==
    /\ table[r] # Absent
    /\ Subtree(r) \cap Pinned # {}
    /\ \E s \in Deletions(r) :
          Callback([i \in DOMAIN s |-> Undone(DeleteEntries(s)[i])])
    /\ UNCHANGED table

Statement ==
    \E r \in Row : \/ Insert(r) \/ Update(r) \/ Delete(r)
                  \/ InsertRefused(r) \/ UpdateRefused(r) \/ DeleteRefused(r)

-----------------------------------------------------------------------------
(***************************************************************************)
(* The publisher thread.                                                   *)
(***************************************************************************)

\* Mutant: the loop does not look whether it is to stop.
MutWake ==
    /\ publisher = "waiting"
    /\ publisher' = "looking"
    /\ UNCHANGED <<table, queue, entry, slots, pending, stopping, log,
                   historyVars>>

\* IsStopRequested(50) of the loop: it was not.
Wake ==
    /\ publisher = "waiting"
    /\ ~stopping
    /\ publisher' = "looking"
    /\ UNCHANGED <<table, queue, entry, slots, pending, stopping, log,
                   historyVars>>

FindsNothing ==
    /\ publisher = "looking"
    /\ queue = << >>
    /\ publisher' = "waiting"
    /\ UNCHANGED <<table, queue, entry, slots, pending, stopping, log,
                   historyVars>>

\* The front of the queue is taken, and the signal called: it goes through the
\* slots connected at this moment.
Dequeue ==
    /\ publisher = "looking"
    /\ queue # << >>
    /\ entry' = <<Head(queue)>>
    /\ queue' = Tail(queue)
    /\ published' = published + 1
    /\ pending' = slots
    /\ publisher' = "calling"
    /\ UNCHANGED <<table, slots, stopping, log, got, missed>>

CallSlot ==
    /\ pending # << >>
    /\ pending' = Tail(pending)
    /\ got' = [got EXCEPT ![Head(pending)] = Append(@, entry[1])]
    /\ UNCHANGED <<table, queue, publisher, entry, slots, stopping, log,
                   published, missed>>

\* Mutants: nothing catches the exception; the call is tried again.
MutSlotThrows ==
    /\ pending # << >>
    /\ Head(pending) \in Faulty
    /\ publisher' = "std::terminate"
    /\ UNCHANGED <<table, queue, entry, slots, pending, stopping, log,
                   historyVars>>

MutSlotThrowsAgain ==
    /\ pending # << >>
    /\ Head(pending) \in Faulty
    /\ pending' = slots
    /\ UNCHANGED <<table, queue, publisher, entry, slots, stopping, log,
                   historyVars>>

\* The exception ends the call: the slots after it are not called, and the
\* entry is not freed.
SlotThrows ==
    /\ pending # << >>
    /\ Head(pending) \in Faulty
    /\ missed' = missed \cup Range(pending)
    /\ pending' = << >>
    /\ entry' = << >>
    /\ publisher' = "waiting"
    /\ UNCHANGED <<table, queue, slots, stopping, log, published, got>>

CallEnds ==
    /\ publisher = "calling"
    /\ pending = << >>
    /\ entry' = << >>
    /\ publisher' = "waiting"
    /\ UNCHANGED <<table, queue, slots, pending, stopping, log, historyVars>>

ThreadEnds ==
    /\ publisher = "waiting"
    /\ stopping
    /\ publisher' = "ended"
    /\ UNCHANGED <<table, queue, entry, slots, pending, stopping, log,
                   historyVars>>

-----------------------------------------------------------------------------
(***************************************************************************)
(* The main thread, in Stop: it asks, joins the thread and empties the     *)
(* queue.  The hook stays: statements may still fill it.                   *)
(***************************************************************************)
RequestStop ==
    /\ ~stopping
    /\ stopping' = TRUE
    /\ UNCHANGED <<table, queue, slots, log, threadVars, historyVars>>

Flush ==
    /\ publisher = "ended"
    /\ publisher' = "stopped"
    /\ queue' = << >>
    /\ UNCHANGED <<table, entry, slots, pending, stopping, log, historyVars>>

-----------------------------------------------------------------------------
(***************************************************************************)
(* The subscribers.  A call of the signal that is under way does not go    *)
(* to a slot connected during it, and skips one that was disconnected.     *)
(***************************************************************************)
Connect(s) ==
    /\ s \notin Range(slots)
    /\ slots' = Append(slots, s)
    /\ got' = [got EXCEPT ![s] = << >>]
    /\ missed' = missed \ {s}
    /\ UNCHANGED <<table, queue, stopping, log, published, threadVars>>

Without(seq, s) ==
    LET at == CHOOSE i \in DOMAIN seq : seq[i] = s
    IN  IF s \in Range(seq)
        THEN [i \in 1 .. Len(seq) - 1 |-> seq[IF i < at THEN i ELSE i + 1]]
        ELSE seq

\* Mutant: the call under way still goes to it.
MutDisconnect(s) ==
    /\ s \in Range(slots)
    /\ slots' = Without(slots, s)
    /\ got' = [got EXCEPT ![s] = << >>]
    /\ missed' = missed \ {s}
    /\ UNCHANGED <<table, queue, publisher, entry, pending, stopping, log,
                   published>>

Disconnect(s) ==
    /\ s \in Range(slots)
    /\ slots' = Without(slots, s)
    /\ pending' = Without(pending, s)
    /\ got' = [got EXCEPT ![s] = << >>]
    /\ missed' = missed \ {s}
    /\ UNCHANGED <<table, queue, publisher, entry, stopping, log, published>>

-----------------------------------------------------------------------------
Publish == Wake \/ FindsNothing \/ Dequeue \/ CallSlot \/ CallEnds \/ ThreadEnds

Next ==
    \/ Statement
    \/ Publish
    \/ SlotThrows
    \/ RequestStop
    \/ Flush
    \/ \E s \in Subscriber : Connect(s) \/ Disconnect(s)

Spec == Init /\ [][Next]_vars

(***************************************************************************)
(* Fairness: the publisher thread runs, a slot that is called returns or   *)
(* throws, and Stop goes on when the thread has ended.  Nothing makes a    *)
(* statement happen, a subscriber come or go, or the process stop.         *)
(***************************************************************************)
FairSpec == Spec /\ WF_vars(Publish \/ SlotThrows) /\ WF_vars(Flush)

-----------------------------------------------------------------------------
(***************************************************************************)
(* The refinement mapping.  A slot is behind by the entry in hand while    *)
(* the call under way has not come to it.                                  *)
(***************************************************************************)
Cursor ==
    [s \in Subscriber |->
        IF s \notin Range(slots) THEN -1
        ELSE IF s \in Range(pending) THEN published - 1
        ELSE published]

Feed == INSTANCE ChangeFeed WITH Change <- Entry, cursor <- Cursor

\* What the publisher does is what ChangeFeed promises: each subscriber is
\* handed the entries from its connection on, in order, none twice, and none is
\* left out but by an exception.  (Do_Work, connect and disconnect at any time)
ImplementsFeed == Feed!FeedSpec

\* Nothing is lost between the hook and the publisher, and a slot is called at
\* most once for an entry, while it is connected.  (callback, Do_Work)
Backlog ==
    /\ published <= Len(log)
    /\ publisher # "stopped" =>
          /\ Len(queue) = Len(log) - published
          /\ \A i \in 1 .. Len(queue) : queue[i] = log[published + i]
    /\ publisher = "calling" => published > 0 /\ entry = <<log[published]>>
    /\ publisher # "calling" => pending = << >>
    /\ IsInjective(slots) /\ IsInjective(pending)
    /\ Range(pending) \subseteq Range(slots)

\* The last thing a subscriber that missed nothing has heard of a row is what
\* the row holds, once everything is published; unless the last that was said
\* of it is of a statement that was taken back after the hook had reported it.
\* (callback reads the row)
LastHeardIsCurrent ==
    \A s \in Range(slots) \ (missed \cup Range(pending)) :
        published = Len(log) =>
            \A i \in DOMAIN got[s] :
                \/ \E j \in DOMAIN got[s] : j > i /\ got[s][j].row = got[s][i].row
                \/ got[s][i].data = table[got[s][i].row]
                \/ ~got[s][i].kept

\* "Override cascading delete to force Devices to be deleted BEFORE Interface"
\* (SQLHelper.cpp, line 93): after a row is really deleted no subscriber hears
\* of a row below it, unless of an insert that is taken back.  (A delete that
\* is refused is heard too, and then more of the rows that stay.)
NoNewsOfOrphans ==
    \A s \in Subscriber : \A i, j \in DOMAIN got[s] :
        (i < j /\ got[s][i].action = "Delete" /\ got[s][i].kept
               /\ Parent[got[s][j].row] = got[s][i].row)
            => got[s][j].action = "Insert" /\ ~got[s][j].kept

\* Unless it disconnects or the process stops, a subscriber gets past every
\* entry, whoever throws.  (Do_Work catches everything and goes on)
Served ==
    \A s \in Subscriber, n \in 1 .. MaxLog :
        (s \in Range(slots) /\ Len(log) >= n)
            ~> (Cursor[s] >= n \/ s \notin Range(slots) \/ stopping)

\* Stop returns, even in the middle of a call.  (join)
StopReturns == stopping ~> (publisher = "stopped")

=============================================================================
