------------------------------ MODULE LiveView ------------------------------
(***************************************************************************)
(* A live list of the web interface (the list of interfaces; the others    *)
(* are the same code with another table, whose statements may be refused   *)
(* in more ways) against the server it shows.                              *)
(*                                                                         *)
(* The browser loads the rows with one GET and, at the same time, opens a  *)
(* websocket on which it subscribes to the table.  From then on every      *)
(* change is pushed to it and is merged into the rows it holds.  The two   *)
(* connections are served by different threads: nothing orders the reply   *)
(* of the GET with the subscription or with the pushes.                    *)
(*                                                                         *)
(*   server   every statement is in the log of changes, also one that the  *)
(*            foreign keys refuse and that leaves the table alone; the     *)
(*            publisher hands the log to the websocket as ChangeFeed       *)
(*            promises                                                     *)
(*   network  the GET and its reply, the two directions of the websocket   *)
(*   browser  the view component, the SharedWebSocket it makes, the rxjs   *)
(*            WebSocketSubject below it and the one snack bar of the page  *)
(***************************************************************************)
EXTENDS Integers, Sequences, FiniteSets, SequencesExt

CONSTANTS MaxRow,      \* bound on rows: their IDs are 1 .. MaxRow
          Gone,        \* stands for the data of a row that was deleted
          NoSource,    \* the list before the first rows: undefined
          MaxChanges,  \* bound on the statements
          MaxLoads     \* bound on the GETs of the view: one, and the Retries

ASSUME LiveViewConstants ==
    /\ MaxRow \in Nat \ {0}
    /\ MaxChanges \in Nat
    /\ MaxLoads \in Nat \ {0}
    /\ Gone \notin Nat

VARIABLES
    \* the server
    log,         \* the changes the update hook reported, oldest first
    refused,     \* the positions of it whose statement was taken back
    published,   \* how many of them the publisher has dealt with
    cursor, got, \* the subscription of the websocket, see ChangeFeed
    \* the network
    toServer,    \* frames of the browser that the server has not handled
    loads,       \* loads[i] : the GET number i and its reply
    \* the browser
    socket,      \* the WebSocket below the WebSocketSubject
    subscribed,  \* webSocketSubscriber is there and not closed
    read,        \* how many of the pushes in got the browser has handled
    dataSource,  \* the rows of the list, or NoSource
    retry,       \* the snack bar offers to retry
    isActive,    \* the flag of the component: it offers a Retry if set
    view,        \* the component is not made yet, on the screen or destroyed
    \* history, for the properties only
    base,        \* how much of log the load that is shown had seen
    merged       \* the positions of log that were merged into it since

serverVars == <<log, refused, published, cursor, got>>
networkVars == <<toServer, loads>>
socketVars == <<socket, subscribed, read>>
shownVars == <<dataSource, base, merged>>
pageVars == <<retry, isActive, view>>
vars == <<log, refused, published, cursor, got, toServer, loads, socket,
          subscribed, read, dataSource, retry, isActive, view, base, merged>>

RowID == 1 .. MaxRow
\* The data of a row is named by the change that wrote it.
Data == (1 .. MaxChanges) \cup {Gone}
Entry == [id : RowID, data : Data]
Item == [id : (-MaxRow .. -1) \cup RowID, data : Data]

Push == "push"      \* the one subscriber of this module
Load == 1 .. MaxLoads

\* DatabaseUpdate of a websocket catches what it throws: it misses nothing.
Feed == INSTANCE ChangeFeed WITH Subscriber <- {Push}, Change <- Entry,
                                 Faulty <- {}, missed <- {}

TypeOK ==
    /\ Feed!FeedTypeOK
    /\ refused \subseteq 1 .. Len(log)
    /\ published \in 0 .. Len(log)
    /\ toServer \in Seq({"subscribe", "unsubscribe"})
    /\ loads \in [Load -> [state : {"unused", "sent", "answered", "done"},
                           rows : SUBSET Entry, at : Nat]]
    /\ socket \in {"none", "connecting", "open", "closing"}
    /\ subscribed \in BOOLEAN
    /\ read \in Nat
    /\ dataSource \in Seq(Item) \cup {NoSource}
    /\ retry \in BOOLEAN
    /\ isActive \in BOOLEAN
    /\ view \in {"new", "shown", "destroyed"}
    /\ base \in Nat
    /\ merged \subseteq 1 .. Len(log)

-----------------------------------------------------------------------------
(***************************************************************************)
(* The table: what the statements that stood made of a row, up to position *)
(* n of the log.                                                           *)
(***************************************************************************)
Positions(id, n) == {i \in (1 .. n) \ refused : log[i].id = id}

LastOf(S) == CHOOSE i \in S : \A j \in S : j <= i

\* The row with this ID as a set: empty if there is none.
RowAt(id, n) ==
    LET S == Positions(id, n)
    IN  IF S = {} \/ log[LastOf(S)].data = Gone
        THEN {}
        ELSE {log[LastOf(S)]}

TableAt(n) == UNION {RowAt(id, n) : id \in RowID}

Table == TableAt(Len(log))

UsedIDs == {log[i].id : i \in 1 .. Len(log)}

Init ==
    /\ Feed!FeedInit
    /\ refused = {}
    /\ published = 0
    /\ toServer = << >>
    /\ loads = [i \in Load |-> [state |-> "unused", rows |-> {}, at |-> 0]]
    /\ socket = "none"
    /\ subscribed = FALSE
    /\ read = 0
    /\ dataSource = NoSource
    /\ retry = FALSE
    /\ isActive = FALSE
    /\ view = "new"
    /\ base = 0
    /\ merged = {}

-----------------------------------------------------------------------------
(***************************************************************************)
(* The server.                                                             *)
(***************************************************************************)

\* A statement of anyone: a new row gets the next ID (AUTOINCREMENT), a row
\* that is there is updated or deleted.  CUpdateManager::callback queues what
\* the row holds at that moment.
Callback(id, d) ==
    /\ Len(log) < MaxChanges
    /\ \/ RowAt(id, Len(log)) # {}
       \/ UsedIDs = 1 .. id - 1 /\ d # Gone
    /\ log' = Append(log, [id |-> id, data |-> d])
    /\ UNCHANGED <<published, cursor, got, networkVars, socketVars, shownVars,
                   pageVars>>

Write(id, d) == Callback(id, d) /\ UNCHANGED refused

\* The delete of an interface that a notification goes through, or one of whose
\* values is on a dashboard: the hook is called for the row, then a foreign key
\* is found violated and SQLite takes the statement back.
DeleteRefused(id) == Callback(id, Gone) /\ refused' = refused \cup {Len(log) + 1}

\* Mutants: the queue is not tested for being empty; the entry is not sent.
MutPublishEmpty ==
    /\ published' = published + 1
    /\ UNCHANGED <<log, cursor, got>>
    /\ UNCHANGED <<refused, networkVars, socketVars, shownVars, pageVars>>

MutPublishNothing == published < Len(log) /\ MutPublishEmpty

\* A turn of CUpdateManager::Do_Work and the call of CWebsocket::DatabaseUpdate:
\* the entry becomes a frame only if the table is in vSubscriptions.
Publish ==
    /\ published < Len(log)
    /\ published' = published + 1
    /\ \/ cursor[Push] # Feed!Off /\ Feed!Deliver(Push)
       \/ cursor[Push] = Feed!Off /\ UNCHANGED <<log, cursor, got>>
    /\ UNCHANGED <<refused, networkVars, socketVars, shownVars, pageVars>>

\* CWebsocket::Handle of the next frame of the browser.
HandleSubscribe ==
    /\ toServer # << >>
    /\ Head(toServer) = "subscribe"
    /\ toServer' = Tail(toServer)
    /\ Feed!Join(Push, published)
    /\ UNCHANGED <<refused, published, loads, socketVars, shownVars, pageVars>>

EndSubscription ==
    IF cursor[Push] # Feed!Off THEN Feed!Leave(Push)
                               ELSE UNCHANGED <<log, cursor, got>>

HandleUnsubscribe ==
    /\ toServer # << >>
    /\ Head(toServer) = "unsubscribe"
    /\ toServer' = Tail(toServer)
    /\ EndSubscription
    /\ UNCHANGED <<refused, published, loads, socketVars, shownVars, pageVars>>

\* CRESTRequest::GET: one query, so one moment of the table.
AnswerLoad(i) ==
    /\ loads[i].state = "sent"
    /\ loads' = [loads EXCEPT ![i] = [state |-> "answered", rows |-> Table,
                                      at |-> Len(log)]]
    /\ UNCHANGED <<serverVars, toServer, socketVars, shownVars, pageVars>>

-----------------------------------------------------------------------------
(***************************************************************************)
(* The browser: the component.                                             *)
(***************************************************************************)

\* ngAfterViewInit: loadData sends the GET, subscribe makes a SharedWebSocket
\* whose subscription opens a socket; {subscribe} waits in its ReplaySubject.
AfterViewInit(i) ==
    /\ loads[i].state = "unused"
    /\ \A j \in 1 .. i - 1 : loads[j].state # "unused"
    /\ loads' = [loads EXCEPT ![i].state = "sent"]
    /\ socket' = "connecting"
    /\ subscribed' = TRUE
    /\ isActive' = TRUE
    /\ UNCHANGED <<serverVars, toServer, read, shownVars>>

Show(i) ==
    /\ view = "new"
    /\ view' = "shown"
    /\ AfterViewInit(i)
    /\ UNCHANGED retry

\* The action of the snack bar, which outlives the view that offered it.
Retry(i) ==
    /\ retry
    /\ retry' = FALSE
    /\ AfterViewInit(i)
    /\ UNCHANGED view

\* WebSocketSubject, on the last unsubscription: {unsubscribe} goes out on an
\* open socket, which is closed; one that is still connecting is forgotten.
Unsubscribe ==
    /\ subscribed' = FALSE
    /\ IF subscribed /\ socket = "open"
       THEN /\ toServer' = Append(toServer, "unsubscribe")
            /\ socket' = "closing"
       ELSE UNCHANGED <<toServer, socket>>

\* ngOnDestroy.
Destroy ==
    /\ view = "shown"
    /\ view' = "destroyed"
    /\ isActive' = FALSE
    /\ Unsubscribe
    /\ UNCHANGED <<serverVars, loads, read, shownVars, retry>>

\* The reply of loadData, whose GET asks for no order of the rows: they come in
\* some order.  No rows is 204 without a body: nothing is assigned.
\* The snack bar shows one message: what it offered before is gone.
LoadArrives(i) ==
    /\ loads[i].state = "answered"
    /\ loads' = [loads EXCEPT ![i].state = "done"]
    /\ retry' = FALSE
    /\ IF loads[i].rows = {}
       THEN UNCHANGED shownVars
       ELSE /\ dataSource' = SetToSeq(loads[i].rows)
            /\ base' = loads[i].at
            /\ merged' = {}
    /\ UNCHANGED <<serverVars, toServer, socketVars, isActive, view>>

LoadFails(i) ==
    /\ loads[i].state \in {"sent", "answered"}
    /\ loads' = [loads EXCEPT ![i].state = "done"]
    /\ retry' = FALSE
    /\ UNCHANGED <<serverVars, toServer, socketVars, shownVars, isActive, view>>

-----------------------------------------------------------------------------
(***************************************************************************)
(* The browser: the socket.                                                *)
(***************************************************************************)

\* onopen: the ReplaySubject is sent; nobody there any more, then close.
SocketOpens ==
    /\ socket = "connecting"
    /\ IF subscribed THEN /\ socket' = "open"
                          /\ toServer' = Append(toServer, "subscribe")
                     ELSE /\ socket' = "closing"
                          /\ UNCHANGED toServer
    /\ UNCHANGED <<serverVars, loads, subscribed, read, shownVars, pageVars>>

\* What CWebsocket::DatabaseUpdate sends of an entry: a deleted row is its
\* negative ID.
Frame(e) == IF e.data = Gone THEN [e EXCEPT !.id = -e.id] ELSE e

\* The items that have another ID, in their order.
Without(items, id) ==
    LET kept == {i \in DOMAIN items : items[i].id # id}
        order == CHOOSE f \in [1 .. Cardinality(kept) -> kept] :
                    \A m, n \in DOMAIN f : m < n => f[m] < f[n]
    IN  [n \in DOMAIN order |-> items[order[n]]]

\* Mutants: a delete is not told from an update; an update is added again.
MutMergeDelete(items, f) ==
    LET hit == \E i \in DOMAIN items : items[i].id = f.id
        new == [i \in DOMAIN items |->
                   IF items[i].id = f.id THEN f ELSE items[i]]
    IN  IF hit THEN new ELSE Append(new, f)

MutMergeAdd(items, f) == Append(Without(items, -f.id), f)

\* The callback of SharedWebSocket: an item with the negated ID is dropped, one
\* with the same ID replaced, and if there was neither the frame is added.
Merge(items, f) ==
    LET hit == \E i \in DOMAIN items : items[i].id \in {f.id, -f.id}
        kept == Without(items, -f.id)
        new == [i \in DOMAIN kept |-> IF kept[i].id = f.id THEN f ELSE kept[i]]
    IN  IF hit THEN new ELSE Append(new, f)

\* The place in log of the next push the browser handles.
NextPosition == cursor[Push] - Len(got[Push]) + read + 1

HasPush == socket = "open" /\ subscribed /\ read < Len(got[Push])

\* onmessage with a list to merge into.
MergePush ==
    /\ HasPush
    /\ dataSource # NoSource
    /\ read' = read + 1
    /\ dataSource' = Merge(dataSource, Frame(got[Push][read + 1]))
    /\ merged' = merged \cup {NextPosition}
    /\ retry' = FALSE
    /\ UNCHANGED <<serverVars, networkVars, socket, subscribed, base, isActive,
                   view>>

\* onmessage before there is a list: assigning to dataSource.data throws a
\* TypeError, on which rxjs closes the subscription.
PushTooEarly ==
    /\ HasPush
    /\ dataSource = NoSource
    /\ read' = read + 1
    /\ Unsubscribe
    /\ UNCHANGED <<serverVars, loads, shownVars, pageVars>>

\* Mutant: the component is not told.
MutOnClose ==
    /\ socket' = "none"
    /\ subscribed' = FALSE
    /\ toServer' = << >>
    /\ read' = 0
    /\ EndSubscription
    /\ UNCHANGED <<refused, published, loads, shownVars, pageVars>>

\* onclose: the state is reset and closeObserver calls unsubscribe of the
\* component, which offers to retry.  The server drops the websocket.
OnClose ==
    /\ socket' = "none"
    /\ subscribed' = FALSE
    /\ retry' = (isActive \/ retry)
    /\ toServer' = << >>
    /\ read' = 0
    /\ EndSubscription
    /\ UNCHANGED <<refused, published, loads, shownVars, isActive, view>>

CloseCompletes == socket = "closing" /\ OnClose

\* The network, a timeout of the server or its end.
ConnectionLost == socket \in {"connecting", "open"} /\ OnClose

-----------------------------------------------------------------------------
LoadStep(i) == AnswerLoad(i) \/ LoadArrives(i) \/ LoadFails(i)

Next ==
    \/ \E id \in RowID, d \in {Len(log) + 1, Gone} : Write(id, d)
    \/ \E id \in RowID : DeleteRefused(id)
    \/ Publish
    \/ HandleSubscribe
    \/ HandleUnsubscribe
    \/ \E i \in Load : Show(i) \/ Retry(i) \/ LoadStep(i)
    \/ Destroy
    \/ SocketOpens
    \/ MergePush
    \/ PushTooEarly
    \/ CloseCompletes
    \/ ConnectionLost

Spec == Init /\ [][Next]_vars

(***************************************************************************)
(* Fairness: the publisher looks at its queue 20 times a second, the io    *)
(* threads of the server and the event loop of the browser run what is     *)
(* ready, and the network delivers.  Nothing makes the user act, a         *)
(* connection fail or a statement happen.                                  *)
(***************************************************************************)
Fairness ==
    /\ WF_vars(Publish)
    /\ WF_vars(HandleSubscribe)
    /\ WF_vars(HandleUnsubscribe)
    /\ WF_vars(\E i \in Load : AnswerLoad(i))
    /\ WF_vars(\E i \in Load : LoadArrives(i))
    /\ WF_vars(SocketOpens)
    /\ WF_vars(MergePush)
    /\ WF_vars(PushTooEarly)
    /\ WF_vars(CloseCompletes)

LiveSpec == Spec /\ Fairness

-----------------------------------------------------------------------------
(***************************************************************************)
(* The rows the list shows, and the ghosts: items with a negative ID, left *)
(* by the push of a delete whose row the list did not have.                *)
(***************************************************************************)
Shown == {x \in Range(dataSource) : x.id > 0}
Ghosts == {-x.id : x \in {y \in Range(dataSource) : y.id < 0}}

(***************************************************************************)
(* Every change the shown load had not seen was merged into it, and what   *)
(* was merged of older ones was followed up to the end of the log.         *)
(***************************************************************************)
Covered == \E m \in 1 .. base + 1 : merged = m .. Len(log)

\* The rows whose delete was merged and did not come to pass.
Misled == {log[i].id : i \in merged \cap refused}

(***************************************************************************)
(* However the reply of the GET, the subscription and the pushes were      *)
(* ordered: a list that missed nothing shows the table, even if pushes     *)
(* older than the load were merged over newer rows on the way.  All that   *)
(* can be left over is the ghost of a row that was gone before the load.   *)
(* A row is excepted from the push of a refused delete of it until the     *)
(* list is loaded again: the browser cannot tell it, and nothing takes it  *)
(* back.                                                                   *)
(* (loadData, the callback of SharedWebSocket, CWebsocket::DatabaseUpdate) *)
(***************************************************************************)
CoveredViewIsCurrent ==
    dataSource # NoSource /\ Covered =>
        /\ \A id \in RowID \ Misled :
              {x \in Shown : x.id = id} = RowAt(id, Len(log))
        /\ Ghosts \subseteq {log[i].id : i \in merged \cap 1 .. base} \cup Misled

(***************************************************************************)
(* No row is listed twice, whatever was loaded, merged and loaded again.   *)
(* (the callback of SharedWebSocket merges by ID)                          *)
(***************************************************************************)
OneItemPerRow ==
    dataSource # NoSource =>
        \A i, j \in DOMAIN dataSource :
            dataSource[i].id \in {dataSource[j].id, -dataSource[j].id} => i = j

(***************************************************************************)
(* A subscription that has ended under the user, by an error of the view   *)
(* itself or of the connection, is offered for a retry unless the user has *)
(* left.  (onclose, closeObserver, unsubscribe of the component)           *)
(***************************************************************************)
EndIsOffered ==
    (isActive /\ socket = "closing") ~> (retry \/ ~isActive)

(***************************************************************************)
(* A change that is made while the list is subscribed reaches it, by a     *)
(* push or by a load that saw it, or else the subscription ends.           *)
(* (Do_Work, CWebsocket::DatabaseUpdate, onmessage)                        *)
(***************************************************************************)
ChangeReachesView ==
    \A n \in 1 .. MaxChanges :
        (subscribed /\ cursor[Push] = n - 1 /\ Len(log) >= n)
            ~> (n \in merged \/ base >= n \/ ~subscribed)

=============================================================================
