# Domoticz: specifications, model checking and proofs

This directory holds a TLA+ model of the concurrent core of Domoticz (this fork:
home automation whose hardware is handled by Python plugins), the TLC
configurations that check it and the TLAPS proofs about it. Paths such as
`Plugins.cpp:917` are under `src/`; `PROJECT.json` gives for each definition the
lines it stands for.

## 1. The system

| Component | State it keeps | Operations |
|---|---|---|
| Process start and stop (`main/domoticz.cpp`, `main/mainworker.cpp`, `main/SignalHandler.cpp`) | `g_bStopApplication`, `m_hardwaredevices`, the delayed-start counter | `MainWorker::Start`, `Stop`, `Do_Work`, the watchdog |
| Plugin system (`hardware/plugins/PluginManager.cpp`) | the registry `m_pPlugins`, `m_bAllPluginsStarted`, the io_service and its thread | `StartPluginSystem`, `StopPluginSystem`, `RegisterPlugin`, `DeregisterPlugin`, `RestartPlugin`, `DatabaseUpdate` |
| Plugin (`hardware/plugins/Plugins.cpp`, `PluginMessages.h`) | its flags, its queue of delayed messages, its interpreter, its worker thread | `StartHardware`, `StopHardware`, `Do_Work`, `Initialise`, `Start`, `Stop`, `Finalise`, `MessagePlugin`, one class per message |
| Connections of a plugin (`PluginTransports.cpp`, `PythonConnections.cpp`) | the Python object and its reference count, a transport with flags, socket and timer | `Connect`, `Listen`, `Send`, `Disconnect`, completion handlers |
| Update publisher (`main/UpdatePublisher.cpp`) | a queue of changed rows, a signal with subscribers | the SQLite hook, `Do_Work` |
| SQL helper (`main/SQLHelper.cpp`) | one SQLite connection behind one mutex | `query`, `execute_sql`, backup and restore |
| Web server connection (`web/webserver/connection.cpp`, `web/Websockets.cpp`) | buffers, a write queue, two timers, the websocket and its subscriptions | `handle_read`, `handle_write`, timeouts, `stop`, `DatabaseUpdate` |
| Devices and values of a plugin (`PythonInterfaces.cpp`, `PythonDevices.cpp`, `PythonValues.cpp`) | the dictionary `Devices` of the interface, the dictionary `Values` of each device | the load of both, `FindDevice`, `FindValue`, the callbacks for rows |
| Web sessions, request handling, REST (`web/webserver/cWebem.cpp`, `web/REST.cpp`, ...) | the map of sessions | log in and out, expiry; one statement per request |
| Web interface (`web/www/main-es*.js`, compiled) | the rows of a list, the state of a websocket and of its subscription | load, subscribe, merge a push, retry |
| Protocol framing (`PluginProtocols.cpp`) | an unfinished message | one `ProcessInbound` per protocol |
| Helpers, Python value objects, logging | none of consequence | formatting, dates, option parsing |

**How they interact.** A change of the database (the REST interface makes it)
fires the SQLite hook; the publisher thread hands each changed row to its
subscribers: `CPluginSystem::DatabaseUpdate`, which registers, starts, stops or
informs plugins, and every websocket that is open, which pushes it to a list of
the web interface. Each plugin has a worker that
takes messages from the plugin's queue; the publisher, the web server, the
`Plugin_ASIO` thread and the worker itself put them there. Completion handlers of
the plugin's sockets run on the one `Plugin_ASIO` thread and hold raw pointers
to transports. The main thread starts everything, waits for a signal and stops
everything, in another order than it started it.

**What is hard in it.** Almost every flag is a plain `bool` or `int` that two
threads use; the registry is read without the mutex that protects its changes;
objects are deleted while handlers, messages or slots with a pointer to them are
under way; stop and restart pass through a queue with delays; and the stop of the
process meets whatever was being started. The hazards are listed, with their
lines, in `PROJECT.json`.

**What makes each correct.** Plugins: one interface has at most one worker and
one interpreter, a worker leaves only after `onStop`, nobody waits for ever.
Connections: a Connect is answered, a connection let go of is closed, no handler
runs on a transport that is gone, no data follows the end. Process: nothing
deleted is registered, the stop ends. Publisher: each subscriber is handed every
entry once, in order, and what it heard last of a row is what the row holds.
Dictionaries: what a script sees becomes what the tables hold. Web: replies in
order and none lost, one write at a time, no subscriber of a freed connection,
silent clients dropped; a list that missed nothing shows the table.

## 2. The modules

| Module | Models | Uses |
|---|---|---|
| `PluginLifecycle` | the plugin objects of one interface, from registration to the end of the worker | - |
| `PluginLifecycle_proofs` | theorems about it | `PluginLifecycle`, `TLAPS` |
| `PluginConnection` | one `Connection` of a plugin over TCP | - |
| `PluginConnection_proofs` | theorems about it | `PluginConnection`, `SequenceTheorems`, `FiniteSetTheorems`, `TLAPS` |
| `PluginSystem` | start and stop of the process, several plugins, each reduced to the life of its object and worker | - |
| `PluginSystem_proofs` | theorems about it | `PluginSystem`, `SequenceTheorems`, `TLAPS` |
| `WebConnection` | one connection of the web server, http and websocket | - |
| `WebConnection_proofs` | theorems about it | `WebConnection`, `SequenceTheorems`, `TLAPS` |
| `ChangeFeed` | abstract: a log of changes, and subscribers that follow it with a cursor | - |
| `ChangeFeed_proofs` | theorems about it | `ChangeFeed`, `TLAPS` |
| `UpdatePublisher` | the hook, the queue, the publisher thread, the slots, Stop | implements `ChangeFeed` |
| `UpdatePublisher_proofs` | the refinement and the invariants | `UpdatePublisher`, `ChangeFeed_proofs`, `TLAPS` |
| `PluginDevices` | the dictionaries of one plugin against the tables | - |
| `PluginDevices_proofs` | theorems about it | `PluginDevices`, `SequenceTheorems`, `FiniteSetTheorems`, `WellFoundedInduction`, `TLAPS` |
| `LiveView` | a list of the web interface, its GET and its subscription | built on `ChangeFeed` |
| `LiveView_proofs` | theorems about it | `LiveView`, `FiniteSetTheorems`, `WellFoundedInduction`, `TLAPS` |
| `MC...` | the instances TLC checks: symmetry, scenarios, boot lists, clients | its module |

An action carries the name of the function it models; where a function has
several steps that other threads can come between, each step is an action and
its name says what it does. A variable carries the name of the member it models.
Variables without one: `wpc`, `thr`, `main`, `mainworker`, `manager`,
`publisher`, `io` say where a thread is; `process` and `fault` say how the
process ended; `over` is what the script has been told; `onStopHandled`, `crossed`,
`misled`, `refused`, `patient` and `undisturbed` are history variables that no action
reads, and so is the field `kept` of an entry.

**PluginLifecycle.** `Plugin` is the set of `CPlugin` objects that one row of
`Interfaces` may get in turn (a `new CPlugin` each). Threads: `mainworker`, which
starts what `AddAllDomoticzHardware` has registered and restarts a plugin,
`publisher` (`DatabaseUpdate`), and one worker per object. Each read or write of a
flag that another thread may interleave with is a step: `StopHardware` leaves its
loop over `m_bIsStarting`, tests `m_bIsStarted` (`IfStarted`), builds onStop
(`BuildStop`), pushes it (`PushStop`) and sets `m_bIsStopping` (`SetStopping`), and
the mainworker may start the plugin between any two of them; `DatabaseUpdate` counts (`Recount`) and finds
(`Find`). A message is its type, its remaining delay and whether its target was
there when it was built; a worker that takes it while it is not due puts it back
at the end of the queue (`PopMessage`). Time is kept as differences from the
worker's own `Now`: `lag` is what has passed since it read the clock. The
messages for devices and values are in `PluginDevices`: one that comes before
`onStart`, which kills the process there, is not in this module.
`process` becomes `"undefined"` where the code would dereference `end()`,
`"std::terminate"` where it would assign to a joinable `std::thread`, and
`"Py_FatalError"` where the interpreter would end the process.

**PluginConnection.** The script is a record of habits (`Scenario`): in which
callbacks it connects, disconnects or drops its last reference, and whether it
waits for the last callback of one connection before the next. The scenario also
says what may fail. The worker takes one message at a time; a handler on the
`Plugin_ASIO` thread builds a message, pushes it, then sets flags: three steps,
between which the worker may run. The end of a connect is three more:
`m_bConnected` is set (`SetConnected`), the first read begins (`FirstRead`),
`m_bConnecting` is cleared (`ClearConnecting`). A `Disconnect` reads the same two
flags without a lock, one after the other: `ConnectionDisconnect` asks
`m_bConnected`, `AskIsConnecting` asks `m_bConnecting`, and then either
`handleDisconnect` cancels the timer and asks again, `Shutdown` closes the socket
and `ClearConnected` clears the flag, or `TidyUp` and `TidyDelete` take the
transport from the list and delete it. `crossed` remembers that a connect had ended
between the two reads of `AsyncDisconnect`, so that a transport that is up was
found to be neither. Cancelled operations are handlers with
`operation_aborted`, in the order asio posts them. `ob_refcnt` is computed
from the objects that count. A handler that meets a deleted transport sets
`fault`.

**PluginSystem.** The main thread's path through `MainWorker::Start` and `Stop`,
the mainworker's turns, the manager thread, the publisher with activations of
interfaces, a worker per started plugin, and the watchdog.

**WebConnection.** The members of `connection` and of its `CWebsocket` are one
record; each completion handler is a function on it. What a client sends is a
sequence of requests or frames, cut into segments arbitrarily. The publisher
calls `DatabaseUpdate` from its own thread.

**ChangeFeed and UpdatePublisher.** `ChangeFeed` is the promise: the log grows, a
subscriber joins somewhere, is handed the entries behind its cursor one by one,
leaves, and misses one only where a subscriber throws. `UpdatePublisher` is
`CUpdateManager`: a statement puts an entry for each row into the queue (children
before parents, as the `BEFORE DELETE` triggers do it), `Do_Work` takes one entry per turn and calls the
slots connected at that moment one after the other, a slot may connect or
disconnect in between or throw, and `Stop` asks the thread to end and joins it.
The refinement gives a subscriber that waits for its call of this entry a cursor
one behind the others. Both queue and log are kept, so that the properties can
speak of what a subscriber heard. SQLite checks the foreign keys at the end of a
statement, when the hook has been called for its rows: `InsertRefused` and
`UpdateRefused` are statements that refer to a row that is not there, and
`DeleteRefused` one that would take a row to which a key without `ON DELETE CASCADE`
refers (`Pinned`: `Element.ValueID`, `ValueNotification.InterfaceID`). Their entries
are queued and handed out like all others, and the table stays; only the history
field `kept` tells them apart.

**PluginDevices.** A row is its InternalID, its content (Address, Name or Value)
and Active; an object of a dictionary has what it last read of the row. Writers
are any thread. `DatabaseUpdate` takes one entry and looks up the plugin as the
code does, by the entry's InterfaceID or by an object in a dictionary, without a
lock, but for a deleted value, which takes the Python lock. The worker loads a
device in five steps (`Refresh`, `WriteInactive`, `SelectValues`, `AddValue`,
`AddDevice`), each one statement or one change of a dictionary, and handles the
messages. What happens in a callback of the script is a writer. A statement may be
refused after the hook (`InsertRefused`: `CValue_insert` with the Unit -1 of a script
that named an unknown one; `UpdateRefused`; `DeleteRefused`: a value on a dashboard),
and `DatabaseUpdate` forwards its news: the script gets an object of a row that
never was, or loses that of a row that stays. `misled` are the rows of which such news
was forwarded, and those of which news was dropped where that does harm
(`Matters`). `dead` says that
the process used `m_Interface` before it was set. The IDs of devices and values,
which are two columns that count on their own, are kept apart (`DevicesConstants`) so
that a row is one number. The text `""` is an InternalID like any other, as it is the
column's default; it is also the key of an object that found no row to read.

**LiveView.** The two compiled bundles `main-es2015` and `main-es5` are one
program, in one line each; every definition stands for a part of that line, named
by its symbol (the component `dmz-interface-list`, the service `SharedWebSocket`,
the `WebSocketSubject` of rxjs under it). The server is the log of `ChangeFeed`,
with the table computed from it; the positions of statements that were refused
(`refused`, by `DeleteRefused`; no other statement on an Interface can be) do not count
for the table, but are pushed. The GET and the websocket are not ordered with
each other. The history variables `base` and `merged` say which changes the list
on the screen has seen, and `Misled` is what of it was refused. The rows of an answer come in some order (`SetToSeq`), as the
GET of the list does not ask for one.

## 3. What TLC checks

Twelve runs: eight that pass, four that show a disagreement between the code and
what one of its comments says.

| Run | Instance | Shows |
|---|---|---|
| `lifecycle` | two objects of one interface, two writes of its row, one restart, one failing start, symmetric | types; `WorkerIsRegistered`, `OneInterpreter`, `ExitAfterOnStop`, `TargetAlive`, `StopAfterLoad` |
| `lifecycle_live` | one object, two writes, one failing start | `StopHardwareReturns`, `QueuedStopCompletes` |
| `connection` | thirteen scenarios, up to three transports and one read | `NoMessageAfterDisconnect`, `OneCloserIsSafe`, `OnConnectIsSafe`, `WaitingHasOneTransport` under the conditions they name; `ConnectAnswered`, `ReleasedCloses` (a connection whose address is known) |
| `system` | two plugins at boot, two activated later, a signal at any moment | `RegisteredExists`, `WorkLoopAfterStart`; `StopEnds`: the stop ends without the watchdog, unless it withdraws what the manager thread was told and has not seen (`NotLooked`); `EarlyStopPasses` |
| `web` | http scripts with split, bad and last requests, and websockets, against all faults and one push, with both timers | `OneWrite`, `RepliesInOrder`, `PatientGetsReplies`, `SubscriberExists`; `SilentCloses` |
| `publisher` | a Device and a Value of it, which may be refused its deletion, two subscribers, one of which may throw, three entries, of statements that stand or are refused | `ImplementsFeed` (the refinement), `LastHeardIsCurrent`, `NoNewsOfOrphans`; `Served`, `StopReturns` |
| `devices` | two devices that may come to share an InternalID, a value of one of them, any tables to begin with, three statements, each of which may be refused | `MirrorCurrent`: once all is quiet the script sees the tables, but for `misled` rows; `BecomesCurrent`: that comes about |
| `live` | two rows, three changes (a delete may be refused), a load and a retry, a lost connection, the user leaving | `CoveredViewIsCurrent`, `OneItemPerRow`; `EndIsOffered`, `ChangeReachesView` |
| `lookup` | (violated) `PluginManager.cpp:61`, "controls accessto the message queue and m_pPlugins map" | `DatabaseUpdate` counts and finds without the mutex |
| `active` | (violated) `PluginManager.cpp:358`, "If update makes interface active but it isn't currently then register it" | an interface re-activated while its plugin stops stays without a plugin |
| `connection_twice` | (violated) `Plugins.cpp:1693`, "If transport is not going to disconnect asynchronously tidy it up here" | two disconnect directives delete the transport under its read handler |
| `system_told` | (violated) `mainworker.cpp:109`, "tell the Plugin Framework it is okay to start" | a stop within half a second withdraws what was told, and the join hangs until the watchdog ends the process |

**Bounds.** Two plugin objects are enough for a predecessor and a successor,
which is all that two workers of one interface need; two writes of the row give
a deactivation that crosses an activation, and with the restart every path of the
registry; one of the starts may fail, so that a load overwrites the interpreter of the last.
Delays are in seconds, and only their order matters: with a heartbeat each second
and up to two seconds that a busy worker does not notice (`MaxLag`), onStop, its
grace of a second and a heartbeat become due in every order. Two transports give
an end of one connection that meets the start of the next, a third one an end that
meets what the first has left behind, and one read a message
that crosses a disconnect; the scenarios are the habits of a script (it leaves the
connection alone, closes it in time, lets go of it, closes it early, does
everything wrong, lets go of it while the address may be resolving, sets a timeout)
with what may fail, as far as a property tells them apart.
Timeouts and heartbeats are never queued twice, since a second adds no order. Two
boot plugins and two added ones give a stop between any two starts. A client
script of four items, two of them halves of one request, puts two replies into the
write queue; a client that sends text after its close frame makes the connection one
that is closing. What a client may send is bounded here only: the proofs of section 4
have no bound on it. Three entries (`MaxLog`) on a device and its value are an update, a delete and an
orphan, or a delete that is refused, after which the value is updated; the third
level, an interface above the device, multiplies the orders of a delete and the run's
time, and is in the proofs of section 4. Two subscribers give one
that throws before or after one that does not. Three statements (`MaxWrites`) on
tables that hold anything to begin with give an insert, a change and a delete of
one row, or a change of each of three, at any point of a load; the writes of the
load itself are not counted, and refused statements are. No row of this run has an empty InternalID, though objects
that found no row come to be under that key; the proofs of section 4 have rows with it. Two rows, three changes and two loads give an answer
that is older than one push and newer than another, twice.

**Fairness.** A thread that can run eventually does, what a script is called for
returns, a resolve or a connect ends,
a timer expires, a write ends (in one way or another), a reply of the server and a
frame arrive; nothing else. No client need send, no signal need come, no peer need
answer a connection that is up, nobody need change a row or stop the publisher.
`WF` of the whole step of a thread is what an operating system gives it. The
watchdog of `PluginSystem` fires only when no thread can go on: its 300 seconds
are longer than anything a thread does. In `UpdatePublisher` a slot that throws is
a step of the publisher thread like its return. In `PluginDevices` it
is enough that one of publisher and worker goes on as long as there is something to
do: each of them comes to an end of it, after a bounded number of statements. The publisher
may wait for the Python lock, which the worker gives back between messages;
registering the plugin is up to its user.

Deadlock is not checked where the system may stop for good: a plugin that has
left, a connection that is closed, a process that has ended, a publisher that was
joined, a database nobody writes any more, a list the user has left.

**Where the properties stop.** The conditions in the properties are the boundary
of what holds, found by taking each one away. Outside it, behaviours of the code
that the models reach, and that no comment contradicts or no run is spent on:

* Connections: for a script that connects again without waiting, or closes what has
  not come up, `onDisconnect` of the last transport may carry the Target of the next
  Connect and tell that the new connection is over, with data of it behind; a
  connection released while its address is resolved is connected all the same, and
  nothing closes it (`AddressKnown`); a Disconnect, that of `onStop` included, that
  crosses the end of a connect deletes a transport that is up, under its read handler
  and under the `onConnect` that is queued (`crossed`); a cancelled read timer runs on a deleted transport; a Connect in
  `onDisconnect` loses its Target; a Connect in `onStop` outlives the worker;
  `onConnect` may be processed before `m_bConnected` is set; a transport whose
  `handleConnect` has thrown is on no list, and nothing closes it.
* Process: the plugin of an interface activated at run time is not stopped by
  `MainWorker::Stop`; deleting a plugin whose worker runs ends the process by
  `std::terminate`; an interface deactivated while its plugin loads keeps its
  worker.
* Web server: a request that is in the buffer already waits for more bytes; the
  last reply of requests that came together is lost when the connection is to
  close; a websocket that is closing leaves its subscriber connected when a text
  frame follows its close frame (the run has such a client, and `SubscriberExists`
  exempts it); a slot may run on a freed connection; a ping
  between fragments ends their message.
* Publisher: an exception in one slot skips the slots behind it, for that entry;
  the entries of a statement that was refused are handed out, and nothing takes
  them back: until the next statement on the row, a subscriber has last heard what
  is not so, and after the refused delete of a device it hears of its values.
* Dictionaries: a device that is deleted while the message that loads it waits, or
  while it is being loaded, stays in the dictionary, with no data under the key
  `""` if its row was gone at the load; a value that appears or changes between
  the load of the values of its device and the moment the device is in the
  dictionary is not in it, or not as it is; so does a value stay that is deleted
  while the message that loads it waits. Devices that share an InternalID take
  each other's place, and one whose InternalID is changed stays after its deletion
  (`misled`, `OwnKey`); one with an empty InternalID, the column's default, loses its
  place to an object whose row was gone at the load. The load writes back the Address it read (`WriteInactive`)
  over one that was written since. A script told of the delete of a device or value
  that was then refused does not see the row again before a restart, and one told of
  the insert of a value that was refused has an object without data. A device that is inserted or updated while its
  plugin initialises, or a value deleted then, ends the process (`dead`).
* Lists: an item with a negative ID, left by the push of a delete of a row that
  the list did not hold (`Ghosts`); a push that comes before the rows ends the
  subscription, which is offered for a retry. An interface whose refused delete was
  pushed is missing until the list is loaded again; a second refused delete leaves a
  ghost, and then an update does not bring the row back either (`Misled`).

## 4. What is proved

`PluginLifecycle_proofs` proves, for any set `Plugin` and any bounds that satisfy
`BoundsAssumption`:

* `TypeCorrect`: `Spec => []TypeOK`. Its lemmas go through the types group by
  group (flags, clocks, queues, threads, ...), so that a step names only the groups
  it changes.
* `RegistryCorrect`: `Spec => []RegistryInv`. `WorkerIsRegistered` is not
  inductive: that a new worker is the registered one needs that the thread about
  to start it owns the entry (`StarterOwnsEntry`), that no second thread does
  (`OneStarter`), and that the insert branch of `DatabaseUpdate`, which does not
  look, meets no earlier entry (`InsertIsFirst`). An interpreter lives only
  under a worker (`InterpreterHasWorker`), and only a constructed object has one
  (`WorkerIsConstructed`). The conjunction is inductive relative to `TypeOK`.
* `AliveIsRegistered` and `InterpreterIsUnique`: the two properties that follow.

It goes on with lemmas about the queue (what `MessagePlugin`, the rotation in
`PopMessage` and the passing of time leave of it) and about whom a step concerns:

* `StopCorrect`: `Spec => []StopInv`. Whether onStop was handled cannot be seen from
  the flags alone: the message is with the thread that builds it, in the queue, in
  the worker's hand or handled, and the invariant follows it (`StopUnderway`), for
  each plugin and for each thread inside `StopHardware`. It does not say that no onStop
  is queued during a startup, which is false. `ExitFollowsOnStop` follows.
* `StopComesAfterLoad`: `Spec => []StopAfterLoad`. Where onStop was queued in the
  middle of a startup, what saves the load is the order of the queue: `LoadInv` says
  that Initialize of a plugin that is starting is still with the thread that starts it
  (and then no onStop is queued), or in the queue, due and ahead of every onStop
  (`InitializeFirst`), or with the worker (`LoadAhead`).
* `TargetsAlive`: `Spec => []TargetAlive`. A startup is one token, with the thread
  about to queue Initialize, in the queue, in the worker's hand or loading; while it
  exists no message has a target, and once the Interface object exists it is spent.

`PluginConnection_proofs` proves `ConnectionTyped` (`Spec => []TypeOK`) for any scripts
and any number of transports, reads and calls, and of a script that leaves its
connections to the peer (`PatientScript`), with or without a read timeout, a stop of
the plugin and connects that fail, the four safety properties of the run:
`PatientHasOneTransport`, `PatientHearsNothingAfterTheEnd`, `PatientOnConnectIsSafe`,
`PatientHandlersFindTransport`. None of them is inductive. Their common invariant,
`PatientInv`, follows the life of the one transport through everything that may hold a
piece of it:

* `Token`: of the operation that is pending, its handler in the io_service, the handler
  that runs and the `Disconnected` message in the queue there is one at a time, so that
  only the last of them leads to `delete` (`OneLife` says what of it is left then).
* `Turns` and `Order`: one `Connect` at a time, queued behind the end of the last
  transport and behind `onConnectError`, one `Disconnect` of `onStop`, no heartbeat
  behind it.
* `Phases`: a transport is connected, then read from, or it fails; no `Read` is queued
  for one that was not up.
* `Telling`: what brings data is never behind what tells of the end.
* `Tidied`: a transport that is about to be deleted by `ConnectionDisconnect` has
  failed, and its end is queued.
* `Untimed` and `Asked` are the parts that need a condition: without a timer no handler
  is left when a transport goes, and where a stop does not meet a failed connect the
  transport outlives `onConnect`.

`PatientInv` holds until a Disconnect crosses the end of a connect. For a patient script
only the one of `onStop` can, so that there is no Connect afterwards; `CrossedInv` says
what is left then: one transport at most, which `onDisconnect` has told the end of or
will, and no data behind what tells it. With it `PatientHasOneTransport`,
`PatientHearsNothingAfterTheEnd` and the types hold even so; the other two except
`crossed`.

What the queue holds is said with two predicates on sequences (`None`, `NoneBehind`),
whose lemmas (`QueueAppend`, `QueueTail`) carry every step of the worker and of the
handlers.

`ChangeFeed_proofs` proves of the abstract feed, for any sets of subscribers and
changes:

* `StretchOfLog`: what a subscriber that missed nothing was handed is the stretch
  of the log from where it joined to its cursor.
* `OrderOfLog`: `FeedSpec => []InLogOrder`. For a subscriber that did miss
  something, positions have to be found for what it was handed: the inductive
  `OrderInv` says that they lie behind its cursor (`Behind`).
* `StepFeedInv`: a step of the feed, or of a specification that maps to it, keeps
  `Contiguous`; the proofs about `LiveView` use it.

`UpdatePublisher_proofs` proves, for any rows with a parent relation of at most
three levels (Interface, Device, Value), any subscribers and any bound:

* `TypeCorrect`, and `BacklogCorrect`: the queue is the part of the log that was
  not published, and the slots still to be called are connected, each once. The
  two are inductive together.
* `Refinement`: `Spec => ImplementsFeed`, step by step: a statement is `Grow`, the
  return of a slot is `Deliver`, a slot that throws is `Miss`, connecting and
  disconnecting are `Join` and `Leave`, and all else stutters.
* `LastHeard`: `Spec => []LastHeardIsCurrent`. It follows from the refinement
  (what was handed out is a stretch of the log) and from `LogInv`, which relates
  the log to the table: the last entry of a row has what the row holds, unless its
  statement was refused (`LogTellsTable`), and a row that was really deleted stays so
  (`DeletedStays`). One lemma has all refused statements (`RefusedLog`).
* `OrphansUnheard`: `Spec => []NoNewsOfOrphans`, from what `LogInv` says of the order of
  the deletions in the log: below a row that was really deleted come only inserts that
  were refused (`OrphansOnlyInserted`).

`WebConnection_proofs` proves, for any set of scripts, any length of them and any
number of pushes, what the run `web` shows for six clients:

* `ConnectionCorrect`: `Spec => []ConnInv`. A handler is a function on the whole
  connection, so the lemmas go function by function (`SocketWriteSound`,
  `MyWriteSound`, `ManagerStopSound`, `ReadMoreSound`, `HandleRequestSettled`, ...),
  and the steps only combine them. `Sound` is what holds between two calls of
  `MyWrite`: `write_in_progress` from `SocketWrite` until the handler has run
  (`WriteInv`), and, as long as no write has failed, what was sent, is on its way and
  is queued holds each reply once, in order (`PipeInv`). It takes the number of
  replies as a parameter, since `handle_read` counts a reply before it writes it.
  `SubInv` holds once a handler is over: a websocket that is closed but still
  connected to the publisher has a failed handler waiting, which disconnects it.
* `ConnectionTyped`, `OneWriteAtATime`, `RepliesStayInOrder` and `NoSubscriberLeft`:
  the four properties that follow.
* `PatientClientAnswered`: `Spec => []PatientGetsReplies`. For a client that waits for
  each reply, on a connection that nothing has disturbed, `PatientInv` says that between
  two handlers everything is `Quiet`: each request that was read is replied to, but for
  the last, whose reply may be the one write that is on its way (`Pending`); no handler
  has failed (`Calm`); and a connection that is to close once its reply is out reads
  nothing more (`HttpInv`).

`LiveView_proofs` proves, for any number of rows, changes and loads, and whatever the
network does to the GET and the websocket:

* `LiveTyped`, and `ServedByFeed`: `Spec => Feed!FeedSpec`, step by step: the
  websocket of a list is one subscriber of `ChangeFeed`, so what was proved of the
  feed (`Contiguous`) holds of what the list is pushed.
* `RowsListedOnce`: `Spec => []OneItemPerRow`, and `CoveredCurrent`:
  `Spec => []CoveredViewIsCurrent`. The inductive `LiveInv` has what the cursor, the
  socket and the changes merged so far have to do with each other (`StreamInv`), what
  the log says of a row that was deleted (`LogInv`), that a reply is the table of one
  moment (`LoadInv`), and that each item of the list shows the last change of its row
  among those merged and those in the reply (`ListInv`), but for the rows of which a
  refused delete was merged (`Misled`). A statement that stands and one that is refused
  are one step for most lemmas (`Grown`). A list covered by its pushes has
  then merged the last change of each row.

`PluginDevices_proofs` proves, for any devices and values, any InternalIDs, shared,
changed or empty, any number of statements and any tables to begin with:

* `NewsIsOnItsWay`: `Spec => []MirrorInv`. `MirrorCurrent` speaks only of the moments
  when all queues are empty; nothing of it can be seen at another moment, so `MirrorInv`
  says of each plain row, for every moment of a living process, what will make it true.
  `RowsInv` is its heart. If the row is in the table, then an object of it is in the
  dictionary, or the worker has it to load, or its insert is on its way
  (`Arriving`); if an object has not what the table has, then an update is on its way
  (`Changing`, `Fresh`); if the row is gone while any trace of it is left, then its
  delete is on its way (`Leaving`). Of a value the same holds in each dictionary it may
  be in, the one of a device that is found and the one of a device still being loaded,
  for which the values still to be added count as well (`HoldsValue`).
* A delete must not overtake the insert it follows, nor may an insert come after it from
  the other queue (`OrderInv`: IDs are used once, and rows in `misled` are excepted). A
  row that never was has left no trace (`KeysInv`), unless the plugin was misled
  (`Known`). What a refused statement appends is not the news of its row
  (`RefusedWrites`), and when it is forwarded the row is in `misled` from then on
  (`ForwardMisleads`). An object is under the InternalID it was read with, or under `""`
  (`ObjectsInv`, `Single`), which is what keeps other objects from taking the place of
  a plain one (`ApartByKey`). `StageInv` and `LoadInv` say what there is before onStart
  and in the middle of a load.
* Each action has its lemma (`AddDeviceSound`, `DeleteValueSound`, ...). What they share
  goes into lemmas about a row that a step leaves alone (`DeviceKept`, `ValueKept`),
  a dictionary in which another object was put or deleted (`OtherItem`, `Shadows`), a
  message taken (`HandledSound`) and an entry appended. The publisher's step
  (`PublisherSound`) is the hard one: where it drops an entry, the row is in `misled`,
  or the load still has the row ahead of it.
* `DictionariesFollow`: `Spec => []MirrorCurrent`, and `DevicesTyped`:
  `Spec => []TypeOK`. A process that is `dead` keeps its types and promises nothing else.

TLC has checked `MirrorInv` on the instance of the run `devices`, on one with an empty
InternalID and on one with two values of one device, before the proof.

`PluginSystem_proofs` proves, for any list of interfaces at the start and any set
of interfaces made active later:

* `SystemCorrect`: `Spec => []SystemInv`. The thread that deletes plugins and the
  one that registers them share no lock; what keeps them apart is that the publisher
  only registers interfaces that were not there at the start (`PublisherInv`), so
  that the plugin about to be deleted stays deregistered (`StopInv`). That the flag
  the io_service waits for means what it says (`AllStartedInv`) needs where
  `StartDomoticzHardware` is in its list (`RangeInv`), and that nobody was told and
  no turn was taken before the plugins were registered (`NothingEarly`).
* `SystemTyped`, `RegisteredAlways` and `WorkLoopWaits`: the three that follow.

Proofs assume nothing but the named assumptions on the constants (`NoPluginAssumption`,
`BoundsAssumption`, `ConstantsAssumption`, `PublisherConstants`, `InputAssumption`,
`InterfaceAssumption`, `DevicesConstants`, and that of `LiveView`), which TLC evaluates
in every instance. Every safety invariant of the runs `lifecycle`, `system`, `web`,
`publisher`, `devices` and `live` is proved, and those of `connection` for patient
scripts. Only model-checked:

* the same properties of `connection` for scripts that close a connection while it is up
  (`ClosesWhenUp`) or connect once: each needs an invariant of its own, in which a
  `Disconnect` and the end it causes are one more token;
* liveness under fairness (`Served`, `BecomesCurrent`, ...) and `ENABLED`, which are beyond
  the prover; the `ENABLED` in the watchdog's guard is left unexpanded, as what the
  watchdog does when it fires is to end the process.

## 5. What is not modelled

* Of plugins: what scripts compute; objects that a script makes and puts into a
  dictionary itself; devices that are moved to another interface; the Python lock
  (`AccessPython`) other than as taken for a whole callback; torn reads of a
  dictionary that is looked up without it. `RestartPlugin` is in the model though
  it is dormant: its caller needs `m_DataTimeout > 0`, which `StartHardware` sets
  to 0.
* Of connections: Listen, Send, UDP, ICMP, serial, TLS; the protocols, which are
  sequential.
* Of the process: command line, daemon, logging; the web servers, which `Stop`
  stops before the plugin system.
* Of the web server: downloads (nothing calls `set_download_file`), the TLS
  handshake, the acceptor (it does not accept again after an error), parsing of
  requests, how REST builds its SQL and whom it lets do what. Sessions: `GetSession`
  hands out pointers into a map that a timer cleans, so that there is nothing
  about them that holds.
* Of the web interface: all but the lists.
* Of the SQL helper: backup, restore and close, which take the database from under
  the other threads; the purging of old history.
* Vendored code (`json`, `sqlite`, `tinyxpath`, zlib), and the front-end's assets
  and libraries.

## 6. Plan

Done: the life cycle of plugins and the process, with all their safety properties
proved; connections; web connection with its proofs; the publisher with its abstract
specification and the refinement proved; the dictionaries of a plugin and the lists of
the web interface, each proved to follow the tables.

Left, in this order: the theorems about connections for scripts that close one while it
is up, or connect once; an abstract life cycle (absent, starting, running, stopping) that
`PluginLifecycle` refines; backup and restore of the database against the publisher;
the framing of the line, JSON and HTTP protocols as folds over chunks.
