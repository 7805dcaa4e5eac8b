--------------------------- MODULE PluginLifecycle ---------------------------
(***************************************************************************)
(* The life of the plugin that serves one interface: CPlugin objects       *)
(* (hardware/plugins/Plugins.cpp) registered in CPluginSystem::m_pPlugins  *)
(* (hardware/plugins/PluginManager.cpp), started and stopped through       *)
(* CDomoticzHardwareBase::Start and Stop (hardware/DomoticzHardware.cpp).  *)
(*                                                                         *)
(* Threads                                                                 *)
(*   "mainworker"  MainWorker::Do_Work: starts the plugins registered at   *)
(*                 boot, and restarts one through RestartPlugin;           *)
(*   "publisher"   CUpdateManager::Do_Work: hands every change of the      *)
(*                 Interface row to CPluginSystem::DatabaseUpdate;         *)
(*   one worker per object: CPlugin::Do_Work.                              *)
(* The flags m_bIsStarted, m_bIsStarting, m_bIsStopping and m_bRestart are *)
(* plain bools that all of them read and write without a lock, so every    *)
(* access is a step of its own.                                            *)
(*                                                                         *)
(* Time is kept relative to the worker's variable Now: lag[p] is the       *)
(* number of seconds since the worker last read the clock, and m_When,     *)
(* stopTime and nextPoll are stored as differences from Now.               *)
(*                                                                         *)
(* The plugins of this module hold no connection: what the worker does     *)
(* with m_Transports is in module PluginConnection.                        *)
(***************************************************************************)
EXTENDS Integers, Sequences

CONSTANTS
    Plugin,            \* the CPlugin objects the process may construct
    NoPlugin,          \* no entry in m_pPlugins, no object held by a thread
    PollInterval,      \* m_iPollInterval: seconds between two heartbeats
    MaxLag,            \* bound: seconds that pass unnoticed by a busy worker
    MaxWrites,         \* bound: writes of the Interface row
    MaxStartFailures,  \* bound: failures of CPlugin::Start
    MaxRestarts        \* bound: calls of CPluginSystem::RestartPlugin

ASSUME NoPluginAssumption == NoPlugin \notin Plugin
ASSUME BoundsAssumption ==
    /\ PollInterval \in Nat \ {0}
    /\ MaxLag \in Nat \ {0}
    /\ MaxWrites \in Nat
    /\ MaxStartFailures \in Nat
    /\ MaxRestarts \in Nat

VARIABLES
    \* one value for each CPlugin object
    constructed,      \* whether RegisterPlugin has built the object
    m_bIsStarted, m_bIsStarting, m_bIsStopping, m_bRestart,
    m_exitSignal,     \* StoppableTask: the promise RequestStop fulfils
    m_thread,         \* whether m_thread holds a (never joined) std::thread
    m_PyInterpreter,  \* whether the sub-interpreter exists
    m_Interface,      \* whether the Interface object of the script exists
    m_MessageQueue,
    wpc,              \* where the worker is in Do_Work
    msg,              \* the message the worker has popped
    lag, stopTime, nextPoll,
    onStopHandled,    \* history: the worker has processed an onStop message
    \* one value for the process
    m_pPlugins,       \* the object registered for the interface
    row,              \* the Interface row in the database
    events,           \* UpdateEntryQueue, the entries about that row
    thr,              \* what the mainworker and the publisher are doing
    process,          \* "running", or how it ended
    writes, failures, restarts

flags == <<m_bIsStarted, m_bIsStarting, m_bIsStopping, m_bRestart>>
python == <<m_PyInterpreter, m_Interface>>
clocks == <<lag, stopTime, nextPoll>>
objects == <<constructed, m_exitSignal, m_thread>>
worker == <<wpc, msg, onStopHandled>>
database == <<row, events, writes>>
bounds == <<failures, restarts>>
vars == <<flags, python, clocks, objects, worker, database, bounds,
          m_MessageQueue, m_pPlugins, thr, process>>

-----------------------------------------------------------------------------
(* Data.                                                                   *)

Thread == {"mainworker", "publisher"}

MessageType == {"Initialize", "onStart", "onHeartbeat", "onStop", "onUpdate"}

NotSet == -2               \* the value 0 of stopTime: onStop not yet processed

StopDelay == 2             \* onStopCallback: m_When = time(0) + 2
StopGrace == 1             \* Do_Work: stopTime = Now + 1

\* m_Target of a callback is the Interface object when the message is built.
Message == [type : MessageType, when : 0..(MaxLag + StopDelay), target : BOOLEAN]

NoMessage == [type |-> "none", when |-> 0, target |-> FALSE]

\* Only onStop sets m_Delay; every other message is due when it is queued.
NewMessage(type, target) == [type |-> type, when |-> 0, target |-> target]

\* Mutant: the delay is given in milliseconds.
MutOnStopCallback(p) ==
    [type |-> "onStop", when |-> lag[p] + 2000, target |-> m_Interface[p]]

onStopCallback(p) ==
    [type |-> "onStop", when |-> lag[p] + StopDelay, target |-> m_Interface[p]]

\* MessagePlugin: nothing is queued once the exit signal is set. The worker's
\* own calls are one step: no other thread sets the signal.
MessagePlugin(q, p, m) == IF m_exitSignal[p] THEN q ELSE Append(q, m)

ThreadPC == {"idle", "boot", "StartHardware", "spawn", "initialize", "started",
             "StopHardware", "ifStarted", "buildStop", "pushStop",
             "setStopping", "stopped",
             "recount", "find", "pushUpdate"}

\* Where a thread holds no pointer to an object, and where it holds a message
\* that it has built but not yet queued.
NoObjectPC == {"idle", "recount", "find"}
PushPC == {"pushStop", "pushUpdate"}

\* What one of the two threads is doing; "call" is the function that has looked
\* up the object: Stop is CDomoticzHardwareBase::Stop (clears m_bIsStarted).
ThreadState ==
    {s \in [pc : ThreadPC, plugin : Plugin \union {NoPlugin},
            held : Message \union {NoMessage},
            call : {"none", "Stop", "RestartPlugin", "onUpdate"}] :
        /\ s.pc \notin NoObjectPC => s.plugin \in Plugin
        /\ s.pc \in PushPC => s.held \in Message}

Idle == [pc |-> "idle", plugin |-> NoPlugin, held |-> NoMessage, call |-> "none"]

RowState == {"absent", "active", "inactive", "deleted"}

\* A CUpdateEntry: the hook reads the row for Insert and Update, so bActive is
\* the value of the column when the row was written; a Delete has no columns.
Event == [action : {"Insert", "Update", "Delete"}, active : BOOLEAN]

ProcessState == {"running", "std::terminate", "Py_FatalError", "undefined"}

WorkerPC == {"none", "outer", "inner", "process", "load", "after",
             "finalise", "deregister", "ended"}

Earlier(when, seconds) == IF when > seconds THEN when - seconds ELSE 0

\* The queue as the worker's clock sees it when it has moved on.
Aged(q, seconds) ==
    [i \in DOMAIN q |-> [q[i] EXCEPT !.when = Earlier(@, seconds)]]

-----------------------------------------------------------------------------
(* Initial state: MainWorker::Start has called StartPluginSystem and        *)
(* AddAllDomoticzHardware, which registers an object for an active row.     *)

Boot(p) == [Idle EXCEPT !.pc = "boot", !.plugin = p]

Init ==
    /\ m_bIsStarted = [p \in Plugin |-> FALSE]
    /\ m_bIsStarting = [p \in Plugin |-> FALSE]
    /\ m_bIsStopping = [p \in Plugin |-> FALSE]
    /\ m_bRestart = [p \in Plugin |-> FALSE]
    /\ m_exitSignal = [p \in Plugin |-> FALSE]
    /\ m_thread = [p \in Plugin |-> FALSE]
    /\ m_PyInterpreter = [p \in Plugin |-> FALSE]
    /\ m_Interface = [p \in Plugin |-> FALSE]
    /\ m_MessageQueue = [p \in Plugin |-> << >>]
    /\ wpc = [p \in Plugin |-> "none"]
    /\ msg = [p \in Plugin |-> NoMessage]
    /\ lag = [p \in Plugin |-> 0]
    /\ stopTime = [p \in Plugin |-> NotSet]
    /\ nextPoll = [p \in Plugin |-> 0]
    /\ onStopHandled = [p \in Plugin |-> FALSE]
    /\ events = << >>
    /\ process = "running"
    /\ writes = 0 /\ failures = 0 /\ restarts = 0
    /\ \/ /\ row \in {"absent", "inactive"}
          /\ constructed = [p \in Plugin |-> FALSE]
          /\ m_pPlugins = NoPlugin
          /\ thr = [t \in Thread |-> Idle]
       \/ \E boot \in Plugin :
             /\ row = "active"
             /\ constructed = [p \in Plugin |-> p = boot]
             /\ m_pPlugins = boot
             /\ thr = [t \in Thread |->
                          IF t = "mainworker" THEN Boot(boot) ELSE Idle]

-----------------------------------------------------------------------------
(* Every step is one of a running process.                                 *)

WorkerAt(p, pc) == process = "running" /\ wpc[p] = pc

CallerAt(t, pc) == process = "running" /\ thr[t].pc = pc

(* The process dies: std::terminate, Py_FatalError, or undefined behaviour. *)

Dies(how) ==
    /\ process' = how
    /\ UNCHANGED <<flags, python, clocks, objects, worker, database, bounds,
                   m_MessageQueue, m_pPlugins, thr>>

-----------------------------------------------------------------------------
(* The database: a write of the row by a web request or a script, and       *)
(* CUpdateManager::callback, which queues an entry for the publisher.       *)

WriteRow(new, action, active) ==
    /\ process = "running"
    /\ writes < MaxWrites
    /\ writes' = writes + 1
    /\ row' = new
    /\ events' = Append(events, [action |-> action, active |-> active])
    /\ UNCHANGED <<flags, python, clocks, objects, worker, bounds,
                   m_MessageQueue, m_pPlugins, thr, process>>

\* InterfaceID is AUTOINCREMENT: a deleted ID never comes back.
InsertRow ==
    /\ row = "absent"
    /\ \E a \in {"active", "inactive"} : WriteRow(a, "Insert", a = "active")

UpdateRow ==
    /\ row \in {"active", "inactive"}
    /\ \E a \in {"active", "inactive"} : WriteRow(a, "Update", a = "active")

DeleteRow ==
    /\ row \in {"active", "inactive"}
    /\ WriteRow("deleted", "Delete", FALSE)

-----------------------------------------------------------------------------
(* CPluginSystem::DatabaseUpdate, on the publisher's thread. m_pPlugins is  *)
(* read without PluginMutex: each count and each find is a step.            *)

Registered == m_pPlugins # NoPlugin

\* RegisterPlugin: a new object; std::map::insert keeps an existing entry.
RegisterPlugin ==
    \E p \in Plugin :
        /\ ~constructed[p]
        /\ constructed' = [constructed EXCEPT ![p] = TRUE]
        /\ m_pPlugins' = IF Registered THEN m_pPlugins ELSE p
        /\ thr' = [thr EXCEPT !["publisher"] =
                      [Idle EXCEPT !.pc = "StartHardware", !.plugin = p]]

\* The branch for the entry at the head of the queue.
Dispatch(e) ==
    LET goes(pc, call) == [Idle EXCEPT !.pc = pc, !.call = call]
        next(state) == /\ thr' = [thr EXCEPT !["publisher"] = state]
                       /\ UNCHANGED <<constructed, m_pPlugins>>
    IN  \/ /\ e.active
           /\ \/ e.action = "Insert"
              \/ e.action = "Update" /\ ~Registered
           /\ RegisterPlugin
        \/ /\ e.action = "Update" /\ e.active /\ Registered
           /\ next(goes("recount", "onUpdate"))
        \/ /\ e.action \in {"Update", "Delete"} /\ ~e.active /\ Registered
           /\ next(goes("find", "Stop"))
        \/ /\ ~e.active
           /\ e.action = "Insert" \/ ~Registered
           /\ next(Idle)

DatabaseUpdate ==
    /\ CallerAt("publisher", "idle")
    /\ events # << >>
    /\ events' = Tail(events)
    /\ Dispatch(Head(events))
    /\ UNCHANGED <<flags, python, clocks, m_exitSignal, m_thread, worker, row,
                   writes, bounds, m_MessageQueue, process>>

\* What the caller does with the object it has looked up. MessagePlugin refuses
\* the update message once stop is requested; RestartPlugin goes on only for a
\* plugin that IsRunning().
Found(t, call, p) ==
    LET running == m_bIsStarted[p] /\ ~m_bRestart[p]
        update == NewMessage("onUpdate", m_Interface[p])
    IN  /\ m_bRestart' = [m_bRestart EXCEPT ![p] =
                             @ \/ (call = "RestartPlugin" /\ running)]
        /\ thr' = [thr EXCEPT ![t] =
              CASE call = "Stop" -> [@ EXCEPT !.pc = "StopHardware", !.plugin = p]
                [] call = "onUpdate" ->
                     IF m_exitSignal[p] THEN Idle
                     ELSE [@ EXCEPT !.pc = "pushUpdate", !.plugin = p,
                                    !.held = update]
                [] OTHER ->
                     IF running
                     THEN [@ EXCEPT !.pc = "StopHardware", !.plugin = p]
                     ELSE Idle]
        /\ UNCHANGED <<m_bIsStarted, m_bIsStarting, m_bIsStopping, python,
                       clocks, objects, worker, database, bounds,
                       m_MessageQueue, m_pPlugins, process>>

\* "else if (m_pPlugins.count(InterfaceID))" of the last branch for an Update.
Recount ==
    /\ CallerAt("publisher", "recount")
    /\ thr' = [thr EXCEPT !["publisher"] =
                  IF Registered THEN [@ EXCEPT !.pc = "find"] ELSE Idle]
    /\ UNCHANGED <<flags, python, clocks, objects, worker, database, bounds,
                   m_MessageQueue, m_pPlugins, process>>

\* m_pPlugins.find(InterfaceID)->second. The end iterator has no second.
Find(t) ==
    /\ CallerAt(t, "find")
    /\ \/ ~Registered /\ Dies("undefined")
       \/ Registered /\ Found(t, thr[t].call, m_pPlugins)

\* MessagePlugin, after its test of the exit signal.
PushUpdate ==
    /\ CallerAt("publisher", "pushUpdate")
    /\ LET p == thr["publisher"].plugin
       IN  m_MessageQueue' = [m_MessageQueue EXCEPT ![p] =
                                 Append(@, thr["publisher"].held)]
    /\ thr' = [thr EXCEPT !["publisher"] = Idle]
    /\ UNCHANGED <<flags, python, clocks, objects, worker, database, bounds,
                   m_pPlugins, process>>

-----------------------------------------------------------------------------
(* MainWorker: start what was registered at boot; RestartPlugin.            *)

\* StartDomoticzHardware: "if (!itt->IsStarted()) itt->Start()".
StartDomoticzHardware ==
    /\ CallerAt("mainworker", "boot")
    /\ thr' = [thr EXCEPT !["mainworker"] =
                  IF m_bIsStarted[@.plugin] THEN Idle
                  ELSE [@ EXCEPT !.pc = "StartHardware"]]
    /\ UNCHANGED <<flags, python, clocks, objects, worker, database, bounds,
                   m_MessageQueue, m_pPlugins, process>>

\* RestartPlugin, up to its count of the interface's entries.
RestartPlugin ==
    /\ CallerAt("mainworker", "idle")
    /\ restarts < MaxRestarts
    /\ restarts' = restarts + 1
    /\ Registered
    /\ thr' = [thr EXCEPT !["mainworker"] =
                  [Idle EXCEPT !.pc = "find", !.call = "RestartPlugin"]]
    /\ UNCHANGED <<flags, python, clocks, objects, worker, database, failures,
                   m_MessageQueue, m_pPlugins, process>>

-----------------------------------------------------------------------------
(* CDomoticzHardwareBase::Start and CPlugin::StartHardware.                 *)

\* Up to and including the flush of the queue. The object is never started
\* here (RegisterPlugin has just built it, or StartDomoticzHardware has just
\* tested it), so the StopHardware() of the first line is not taken.
StartHardware(t) ==
    LET p == thr[t].plugin
    IN  /\ CallerAt(t, "StartHardware")
        /\ m_bIsStarting' = [m_bIsStarting EXCEPT ![p] = TRUE]
        /\ m_exitSignal' = [m_exitSignal EXCEPT ![p] = FALSE]
        /\ m_MessageQueue' = [m_MessageQueue EXCEPT ![p] = << >>]
        /\ thr' = [thr EXCEPT ![t].pc = "spawn"]
        /\ UNCHANGED <<m_bIsStarted, m_bIsStopping, m_bRestart, python, clocks,
                       constructed, m_thread, worker, database, bounds,
                       m_pPlugins, process>>

\* The local variables of Do_Work, at its start and, forgotten, after its end.
LoopVariables(p, poll) ==
    /\ nextPoll' = [nextPoll EXCEPT ![p] = poll]
    /\ stopTime' = [stopTime EXCEPT ![p] = NotSet]
    /\ lag' = [lag EXCEPT ![p] = 0]

\* The assignment of m_thread: the worker begins Do_Work.
SpawnWorker(t) ==
    LET p == thr[t].plugin
    IN  /\ CallerAt(t, "spawn")
        /\ m_thread' = [m_thread EXCEPT ![p] = TRUE]
        /\ wpc' = [wpc EXCEPT ![p] = "outer"]
        /\ LoopVariables(p, PollInterval)
        /\ thr' = [thr EXCEPT ![t].pc = "initialize"]
        /\ UNCHANGED <<flags, python, constructed, m_exitSignal, msg,
                       onStopHandled, database, bounds, m_MessageQueue,
                       m_pPlugins, process>>

\* MessagePlugin(new InitializeMessage(this)).
PushInitialize(t) ==
    LET p == thr[t].plugin
    IN  /\ CallerAt(t, "initialize")
        /\ m_MessageQueue' = [m_MessageQueue EXCEPT ![p] =
                                 MessagePlugin(@, p, NewMessage("Initialize", FALSE))]
        /\ thr' = [thr EXCEPT ![t].pc = "started"]
        /\ UNCHANGED <<flags, python, clocks, objects, worker, database, bounds,
                       m_pPlugins, process>>

\* "m_bIsStarted = StartHardware()": the result, TRUE, is stored by the caller
\* after StartHardware has returned, whatever the worker has done meanwhile.
StartReturns(t) ==
    LET p == thr[t].plugin
    IN  /\ CallerAt(t, "started")
        /\ m_bIsStarted' = [m_bIsStarted EXCEPT ![p] = TRUE]
        /\ thr' = [thr EXCEPT ![t] = Idle]
        /\ UNCHANGED <<m_bIsStarting, m_bIsStopping, m_bRestart, python, clocks,
                       objects, worker, database, bounds, m_MessageQueue,
                       m_pPlugins, process>>

-----------------------------------------------------------------------------
(* CDomoticzHardwareBase::Stop and CPlugin::StopHardware.                   *)

\* Where StopHardware returns to: Stop stores its result, RestartPlugin does not.
StopReturnsTo(call) == IF call = "Stop" THEN "stopped" ELSE "idle"

Returned(state) == IF StopReturnsTo(state.call) = "idle" THEN Idle
                   ELSE [state EXCEPT !.pc = "stopped", !.held = NoMessage]

\* "while (m_bIsStarting)": the loop is left.
StopHardware(t) ==
    LET p == thr[t].plugin
    IN  /\ CallerAt(t, "StopHardware")
        /\ ~m_bIsStarting[p]
        /\ thr' = [thr EXCEPT ![t].pc = "ifStarted"]
        /\ UNCHANGED <<flags, python, clocks, objects, worker, database, bounds,
                       m_MessageQueue, m_pPlugins, process>>

\* "if (m_bIsStarted)": by now the flag may be that of another start.
IfStarted(t) ==
    LET p == thr[t].plugin
    IN  /\ CallerAt(t, "ifStarted")
        /\ thr' = [thr EXCEPT ![t] = IF m_bIsStarted[p]
                                     THEN [@ EXCEPT !.pc = "buildStop"]
                                     ELSE Returned(@)]
        /\ UNCHANGED <<flags, python, clocks, objects, worker, database, bounds,
                       m_MessageQueue, m_pPlugins, process>>

\* The message is built; MessagePlugin drops it once the exit signal is set.
BuildStop(t) ==
    LET p == thr[t].plugin
    IN  /\ CallerAt(t, "buildStop")
        /\ thr' = [thr EXCEPT ![t] =
              IF m_exitSignal[p] THEN [@ EXCEPT !.pc = "setStopping"]
              ELSE [@ EXCEPT !.pc = "pushStop", !.held = onStopCallback(p)]]
        /\ UNCHANGED <<flags, python, clocks, objects, worker, database, bounds,
                       m_MessageQueue, m_pPlugins, process>>

PushStop(t) ==
    LET p == thr[t].plugin
    IN  /\ CallerAt(t, "pushStop")
        /\ m_MessageQueue' = [m_MessageQueue EXCEPT ![p] = Append(@, thr[t].held)]
        /\ thr' = [thr EXCEPT ![t].pc = "setStopping", ![t].held = NoMessage]
        /\ UNCHANGED <<flags, python, clocks, objects, worker, database, bounds,
                       m_pPlugins, process>>

SetStopping(t) ==
    LET p == thr[t].plugin
    IN  /\ CallerAt(t, "setStopping")
        /\ m_bIsStopping' = [m_bIsStopping EXCEPT ![p] = TRUE]
        /\ thr' = [thr EXCEPT ![t] = Returned(@)]
        /\ UNCHANGED <<m_bIsStarted, m_bIsStarting, m_bRestart, python, clocks,
                       objects, worker, database, bounds, m_MessageQueue,
                       m_pPlugins, process>>

\* Mutant: the caller of Stop also takes the plugin out of m_pPlugins.
MutStopReturns(t) ==
    LET p == thr[t].plugin
    IN  /\ CallerAt(t, "stopped")
        /\ m_bIsStarted' = [m_bIsStarted EXCEPT ![p] = FALSE]
        /\ m_pPlugins' = NoPlugin
        /\ thr' = [thr EXCEPT ![t] = Idle]
        /\ UNCHANGED <<m_bIsStarting, m_bIsStopping, m_bRestart, python, clocks,
                       objects, worker, database, bounds, m_MessageQueue, process>>

\* "m_bIsStarted = (!StopHardware())": StopHardware always returns true.
StopReturns(t) ==
    LET p == thr[t].plugin
    IN  /\ CallerAt(t, "stopped")
        /\ m_bIsStarted' = [m_bIsStarted EXCEPT ![p] = FALSE]
        /\ thr' = [thr EXCEPT ![t] = Idle]
        /\ UNCHANGED <<m_bIsStarting, m_bIsStopping, m_bRestart, python, clocks,
                       objects, worker, database, bounds, m_MessageQueue,
                       m_pPlugins, process>>

-----------------------------------------------------------------------------
(* CPlugin::Do_Work.                                                       *)

\* "while (!IsStopRequested(50))" and "Now = time(0)": every stored time moves
\* lag seconds closer, those of messages a thread is about to queue included.
OuterLoop(p) ==
    /\ WorkerAt(p, "outer")
    /\ \/ /\ m_exitSignal[p]
          /\ wpc' = [wpc EXCEPT ![p] = "finalise"]
          /\ UNCHANGED <<clocks, m_MessageQueue, thr>>
       \/ /\ ~m_exitSignal[p]
          /\ wpc' = [wpc EXCEPT ![p] = "inner"]
          /\ m_MessageQueue' = [m_MessageQueue EXCEPT ![p] = Aged(@, lag[p])]
          /\ thr' = [t \in Thread |->
                IF thr[t].plugin = p
                THEN [thr[t] EXCEPT !.held.when = Earlier(@, lag[p])]
                ELSE thr[t]]
          /\ nextPoll' = [nextPoll EXCEPT ![p] = Earlier(@, lag[p])]
          /\ stopTime' = [stopTime EXCEPT ![p] =
                IF @ = NotSet THEN @ ELSE IF @ - lag[p] < -1 THEN -1 ELSE @ - lag[p]]
          /\ lag' = [lag EXCEPT ![p] = 0]
    /\ UNCHANGED <<flags, python, objects, msg, onStopHandled, database, bounds,
                   m_pPlugins, process>>

Due(q, i) == q[i].when = 0

\* Cycle once through the queue for the first message that is due; the delayed
\* ones in front of it go to the back.
PopMessage(p) ==
    LET q == m_MessageQueue[p]
    IN  /\ WorkerAt(p, "inner")
        /\ \/ \E i \in DOMAIN q :
                /\ Due(q, i)
                /\ \A j \in 1..(i - 1) : ~Due(q, j)
                /\ msg' = [msg EXCEPT ![p] = q[i]]
                /\ m_MessageQueue' = [m_MessageQueue EXCEPT ![p] =
                       SubSeq(q, i + 1, Len(q)) \o SubSeq(q, 1, i - 1)]
                /\ wpc' = [wpc EXCEPT ![p] = "process"]
           \/ /\ \A i \in DOMAIN q : ~Due(q, i)
              /\ wpc' = [wpc EXCEPT ![p] = "after"]
              /\ UNCHANGED <<msg, m_MessageQueue>>
        /\ UNCHANGED <<flags, python, clocks, objects, onStopHandled, database,
                       bounds, m_pPlugins, thr, process>>

Processing(p, type) ==
    /\ WorkerAt(p, "process")
    /\ msg[p].type = type
    /\ m_PyInterpreter[p] \/ m_bIsStarting[p]

\* A message that finds neither an interpreter nor a starting plugin is dropped.
DropMessage(p) ==
    /\ WorkerAt(p, "process")
    /\ ~m_PyInterpreter[p] /\ ~m_bIsStarting[p]
    /\ wpc' = [wpc EXCEPT ![p] = "after"]
    /\ UNCHANGED <<flags, python, clocks, objects, msg, onStopHandled, database,
                   bounds, m_MessageQueue, m_pPlugins, thr, process>>

\* onHeartbeat, onUpdate: a call of the script, if the message has a target.
RunCallback(p) ==
    /\ Processing(p, "onHeartbeat") \/ Processing(p, "onUpdate")
    /\ wpc' = [wpc EXCEPT ![p] = "after"]
    /\ UNCHANGED <<flags, python, clocks, objects, msg, onStopHandled, database,
                   bounds, m_MessageQueue, m_pPlugins, thr, process>>

-----------------------------------------------------------------------------
(* CPlugin::Stop, called by Initialise when it fails and by Finalise.       *)
(* PyEval_AcquireThread(NULL) is a fatal error of Python. With m_bRestart   *)
(* StartHardware assigns m_thread, which still holds a joinable thread:     *)
(* its destructor calls std::terminate.                                     *)

StopDies(p, interpreter) ==
    \/ ~interpreter /\ Dies("Py_FatalError")
    \/ interpreter /\ m_bRestart[p] /\ Dies("std::terminate")

\* The interpreter ends, with the script's objects; m_bIsStarted is cleared.
StopPython(p) ==
    /\ ~m_bRestart[p]
    /\ m_PyInterpreter' = [m_PyInterpreter EXCEPT ![p] = FALSE]
    /\ m_Interface' = [m_Interface EXCEPT ![p] = FALSE]
    /\ m_bIsStarted' = [m_bIsStarted EXCEPT ![p] = FALSE]

-----------------------------------------------------------------------------
(* CPlugin::Initialise.                                                    *)

\* The flag is cleared and the row is read: "Active = 1" must hold.
InitialiseQuery(p) ==
    /\ Processing(p, "Initialize")
    /\ \/ /\ row = "active"
          /\ m_bIsStarted' = [m_bIsStarted EXCEPT ![p] = FALSE]
          /\ wpc' = [wpc EXCEPT ![p] = "load"]
          /\ UNCHANGED <<m_bIsStarting, m_bIsStopping, m_bRestart, python, clocks,
                         objects, msg, onStopHandled, database, bounds,
                         m_MessageQueue, m_pPlugins, thr, process>>
       \/ \* no row: PyEval_SaveThread without a thread state, which is fatal
          \* unless another thread holds the GIL (its state is then taken)
          /\ row # "active"
          /\ \/ Dies("Py_FatalError")
             \/ StopDies(p, m_PyInterpreter[p])
             \/ /\ m_PyInterpreter[p]
                /\ StopPython(p)
                /\ m_bIsStarting' = [m_bIsStarting EXCEPT ![p] = FALSE]
                /\ wpc' = [wpc EXCEPT ![p] = "after"]
                /\ UNCHANGED <<m_bIsStopping, m_bRestart, clocks, objects, msg,
                               onStopHandled, database, bounds, m_MessageQueue,
                               m_pPlugins, thr, process>>

\* Mutant: m_bIsStarting is left to CPlugin::Start.
MutInitialiseLoads(p) ==
    /\ WorkerAt(p, "load")
    /\ m_PyInterpreter' = [m_PyInterpreter EXCEPT ![p] = TRUE]
    /\ m_MessageQueue' = [m_MessageQueue EXCEPT ![p] =
                             MessagePlugin(@, p, NewMessage("onStart", FALSE))]
    /\ wpc' = [wpc EXCEPT ![p] = "after"]
    /\ UNCHANGED <<flags, m_Interface, clocks, objects, msg, onStopHandled,
                   database, bounds, m_pPlugins, thr, process>>

\* The interpreter is created and the script loads: onStart is queued.
InitialiseLoads(p) ==
    /\ WorkerAt(p, "load")
    /\ m_PyInterpreter' = [m_PyInterpreter EXCEPT ![p] = TRUE]
    /\ m_MessageQueue' = [m_MessageQueue EXCEPT ![p] =
                             MessagePlugin(@, p, NewMessage("onStart", FALSE))]
    /\ m_bIsStarting' = [m_bIsStarting EXCEPT ![p] = FALSE]
    /\ wpc' = [wpc EXCEPT ![p] = "after"]
    /\ UNCHANGED <<m_bIsStarted, m_bIsStopping, m_bRestart, m_Interface, clocks,
                   objects, msg, onStopHandled, database, bounds, m_pPlugins,
                   thr, process>>

\* Mutant: the error path does not clear m_bIsStarting.
MutInitialiseFails(p) ==
    /\ WorkerAt(p, "load")
    /\ StopPython(p)
    /\ wpc' = [wpc EXCEPT ![p] = "after"]
    /\ UNCHANGED <<m_bIsStarting, m_bIsStopping, m_bRestart, clocks, objects,
                   msg, onStopHandled, database, bounds, m_MessageQueue,
                   m_pPlugins, thr, process>>

\* No interpreter, or the script does not load: Stop, and the worker goes on.
InitialiseFails(p) ==
    /\ WorkerAt(p, "load")
    /\ \/ \E created \in BOOLEAN : StopDies(p, created)
       \/ /\ StopPython(p)
          /\ m_bIsStarting' = [m_bIsStarting EXCEPT ![p] = FALSE]
          /\ wpc' = [wpc EXCEPT ![p] = "after"]
          /\ UNCHANGED <<m_bIsStopping, m_bRestart, clocks, objects, msg,
                         onStopHandled, database, bounds, m_MessageQueue,
                         m_pPlugins, thr, process>>

-----------------------------------------------------------------------------
(* onStartCallback::ProcessLocked: CPlugin::Start, then onStart.            *)

StartSucceeds(p) ==
    /\ Processing(p, "onStart")
    /\ m_Interface' = [m_Interface EXCEPT ![p] = TRUE]
    /\ m_bIsStarted' = [m_bIsStarted EXCEPT ![p] = TRUE]
    /\ m_bIsStarting' = [m_bIsStarting EXCEPT ![p] = FALSE]
    /\ wpc' = [wpc EXCEPT ![p] = "after"]
    /\ UNCHANGED <<m_bIsStopping, m_bRestart, m_PyInterpreter, clocks, objects,
                   msg, onStopHandled, database, bounds, m_MessageQueue,
                   m_pPlugins, thr, process>>

\* The Interface object cannot be built: Initialise is queued again.
StartFails(p) ==
    /\ Processing(p, "onStart")
    /\ failures < MaxStartFailures
    /\ failures' = failures + 1
    /\ m_Interface' = [m_Interface EXCEPT ![p] = FALSE]
    /\ m_bIsStarting' = [m_bIsStarting EXCEPT ![p] = FALSE]
    /\ m_MessageQueue' = [m_MessageQueue EXCEPT ![p] =
                             MessagePlugin(@, p, NewMessage("Initialize", FALSE))]
    /\ wpc' = [wpc EXCEPT ![p] = "after"]
    /\ UNCHANGED <<m_bIsStarted, m_bIsStopping, m_bRestart, m_PyInterpreter,
                   clocks, objects, msg, onStopHandled, database, restarts,
                   m_pPlugins, thr, process>>

-----------------------------------------------------------------------------
(* onStopCallback::Process, then the code of Do_Work after a stop message.  *)

\* Mutant: onStop releases the Interface object at once.
MutRunStop(p) ==
    /\ Processing(p, "onStop")
    /\ m_Interface' = [m_Interface EXCEPT ![p] = FALSE]
    /\ m_bIsStopping' = [m_bIsStopping EXCEPT ![p] = TRUE]
    /\ stopTime' = [stopTime EXCEPT ![p] = IF @ = NotSet THEN StopGrace ELSE @]
    /\ onStopHandled' = [onStopHandled EXCEPT ![p] = TRUE]
    /\ wpc' = [wpc EXCEPT ![p] = "after"]
    /\ UNCHANGED <<m_bIsStarted, m_bIsStarting, m_bRestart, m_PyInterpreter, lag,
                   nextPoll, objects, msg, database, bounds, m_MessageQueue,
                   m_pPlugins, thr, process>>

RunStop(p) ==
    /\ Processing(p, "onStop")
    /\ m_bIsStopping' = [m_bIsStopping EXCEPT ![p] = TRUE]
    /\ stopTime' = [stopTime EXCEPT ![p] = IF @ = NotSet THEN StopGrace ELSE @]
    /\ onStopHandled' = [onStopHandled EXCEPT ![p] = TRUE]
    /\ wpc' = [wpc EXCEPT ![p] = "after"]
    /\ UNCHANGED <<m_bIsStarted, m_bIsStarting, m_bRestart, python, lag, nextPoll,
                   objects, msg, database, bounds, m_MessageQueue, m_pPlugins,
                   thr, process>>

-----------------------------------------------------------------------------
(* The end of an iteration of the inner loop.                              *)

\* The inner loop goes on as long as it finds a message; Message is NULL again.
NextLoop(p) ==
    /\ wpc' = [wpc EXCEPT ![p] = IF msg[p] = NoMessage THEN "outer" ELSE "inner"]
    /\ msg' = [msg EXCEPT ![p] = NoMessage]

\* Mutants: the queue is not looked at; its test is negated.
MutStopCheck(p) ==
    /\ WorkerAt(p, "after")
    /\ m_bIsStopping[p]
    /\ m_exitSignal' = [m_exitSignal EXCEPT ![p] = @ \/ stopTime[p] < 0]
    /\ NextLoop(p)
    /\ UNCHANGED <<flags, python, clocks, constructed, m_thread, onStopHandled,
                   database, bounds, m_MessageQueue, m_pPlugins, thr, process>>

MutStopCheckNegated(p) ==
    /\ WorkerAt(p, "after")
    /\ m_bIsStopping[p]
    /\ m_exitSignal' = [m_exitSignal EXCEPT ![p] =
          @ \/ (m_MessageQueue[p] # << >> /\ stopTime[p] < 0)]
    /\ NextLoop(p)
    /\ UNCHANGED <<flags, python, clocks, constructed, m_thread, onStopHandled,
                   database, bounds, m_MessageQueue, m_pPlugins, thr, process>>

\* m_bIsStopping: RequestStop when the queue is empty and Now > stopTime.
StopCheck(p) ==
    /\ WorkerAt(p, "after")
    /\ m_bIsStopping[p]
    /\ m_exitSignal' = [m_exitSignal EXCEPT ![p] =
          @ \/ (m_MessageQueue[p] = << >> /\ stopTime[p] < 0)]
    /\ NextLoop(p)
    /\ UNCHANGED <<flags, python, clocks, constructed, m_thread, onStopHandled,
                   database, bounds, m_MessageQueue, m_pPlugins, thr, process>>

\* Otherwise a heartbeat is queued when it is time.
HeartbeatCheck(p) ==
    LET beat == m_PyInterpreter[p] /\ nextPoll[p] = 0
    IN  /\ WorkerAt(p, "after")
        /\ ~m_bIsStopping[p]
        /\ m_MessageQueue' = [m_MessageQueue EXCEPT ![p] =
              IF beat
              THEN MessagePlugin(@, p, NewMessage("onHeartbeat", m_Interface[p]))
              ELSE @]
        /\ nextPoll' = [nextPoll EXCEPT ![p] = IF beat THEN PollInterval ELSE @]
        /\ NextLoop(p)
        /\ UNCHANGED <<flags, python, lag, stopTime, objects, onStopHandled,
                       database, bounds, m_pPlugins, thr, process>>

-----------------------------------------------------------------------------
(* CPlugin::Finalise.                                                      *)

FinaliseStop(p) ==
    /\ WorkerAt(p, "finalise")
    /\ \/ StopDies(p, m_PyInterpreter[p])
       \/ /\ m_PyInterpreter[p]
          /\ StopPython(p)
          /\ wpc' = [wpc EXCEPT ![p] = "deregister"]
          /\ LoopVariables(p, 0)
          /\ UNCHANGED <<m_bIsStarting, m_bIsStopping, m_bRestart, objects, msg,
                         onStopHandled, database, bounds, m_MessageQueue,
                         m_pPlugins, thr, process>>

\* DeregisterPlugin erases whatever object the interface has, and the thread
\* returns with the flags cleared.
DeregisterPlugin(p) ==
    /\ WorkerAt(p, "deregister")
    /\ m_pPlugins' = NoPlugin
    /\ m_bIsStarting' = [m_bIsStarting EXCEPT ![p] = FALSE]
    /\ m_bIsStopping' = [m_bIsStopping EXCEPT ![p] = FALSE]
    /\ wpc' = [wpc EXCEPT ![p] = "ended"]
    /\ UNCHANGED <<m_bIsStarted, m_bRestart, python, clocks, objects, msg,
                   onStopHandled, database, bounds, m_MessageQueue, thr, process>>

-----------------------------------------------------------------------------
(* A second passes. Only the workers keep times.                           *)

InLoop(p) == wpc[p] \in {"outer", "inner", "process", "load", "after"}

Tick ==
    /\ process = "running"
    /\ \E p \in Plugin : InLoop(p) /\ lag[p] < MaxLag
    /\ lag' = [p \in Plugin |->
                  IF InLoop(p) /\ lag[p] < MaxLag THEN lag[p] + 1 ELSE lag[p]]
    /\ UNCHANGED <<flags, python, stopTime, nextPoll, objects, worker, database,
                   bounds, m_MessageQueue, m_pPlugins, thr, process>>

-----------------------------------------------------------------------------

WorkerStep(p) ==
    \/ OuterLoop(p)
    \/ PopMessage(p)
    \/ DropMessage(p)
    \/ RunCallback(p)
    \/ InitialiseQuery(p)
    \/ InitialiseLoads(p)
    \/ InitialiseFails(p)
    \/ StartSucceeds(p)
    \/ StartFails(p)
    \/ RunStop(p)
    \/ StopCheck(p)
    \/ HeartbeatCheck(p)
    \/ FinaliseStop(p)
    \/ DeregisterPlugin(p)

CallerStep(t) ==
    \/ Find(t)
    \/ StartHardware(t)
    \/ SpawnWorker(t)
    \/ PushInitialize(t)
    \/ StartReturns(t)
    \/ StopHardware(t)
    \/ IfStarted(t)
    \/ BuildStop(t)
    \/ PushStop(t)
    \/ SetStopping(t)
    \/ StopReturns(t)

PublisherStep ==
    \/ DatabaseUpdate
    \/ Recount
    \/ PushUpdate

DatabaseStep ==
    \/ InsertRow
    \/ UpdateRow
    \/ DeleteRow

Next ==
    \/ \E p \in Plugin : WorkerStep(p)
    \/ \E t \in Thread : CallerStep(t)
    \/ PublisherStep
    \/ DatabaseStep
    \/ StartDomoticzHardware
    \/ RestartPlugin
    \/ Tick

Spec == Init /\ [][Next]_vars

\* The threads are scheduled by the operating system, none of their loops
\* blocks on a lock that is kept, scripts return, and time passes.
Fairness ==
    /\ \A p \in Plugin : WF_vars(WorkerStep(p))
    /\ \A t \in Thread : WF_vars(CallerStep(t))
    /\ WF_vars(PublisherStep)
    /\ WF_vars(StartDomoticzHardware)
    /\ WF_vars(Tick)

FairSpec == Spec /\ Fairness

-----------------------------------------------------------------------------
(* Properties.                                                             *)

\* Every variable has its type; m_When, stopTime and nextPoll stay within a
\* poll or stop delay of the worker's clock.
TypeOK ==
    /\ constructed \in [Plugin -> BOOLEAN]
    /\ m_bIsStarted \in [Plugin -> BOOLEAN]
    /\ m_bIsStarting \in [Plugin -> BOOLEAN]
    /\ m_bIsStopping \in [Plugin -> BOOLEAN]
    /\ m_bRestart \in [Plugin -> BOOLEAN]
    /\ m_exitSignal \in [Plugin -> BOOLEAN]
    /\ m_thread \in [Plugin -> BOOLEAN]
    /\ m_PyInterpreter \in [Plugin -> BOOLEAN]
    /\ m_Interface \in [Plugin -> BOOLEAN]
    /\ m_MessageQueue \in [Plugin -> Seq(Message)]
    /\ wpc \in [Plugin -> WorkerPC]
    /\ msg \in [Plugin -> Message \union {NoMessage}]
    /\ lag \in [Plugin -> 0..MaxLag]
    /\ stopTime \in [Plugin -> NotSet..StopGrace]
    /\ nextPoll \in [Plugin -> 0..PollInterval]
    /\ onStopHandled \in [Plugin -> BOOLEAN]
    /\ m_pPlugins \in Plugin \union {NoPlugin}
    /\ row \in RowState
    /\ events \in Seq(Event)
    /\ thr \in [Thread -> ThreadState]
    /\ process \in ProcessState
    /\ writes \in 0..MaxWrites
    /\ failures \in 0..MaxStartFailures
    /\ restarts \in 0..MaxRestarts

\* Two objects never serve the interface at once: an object whose worker is
\* alive is the one that m_pPlugins has, from StartHardware until Finalise has
\* ended its interpreter. A re-activated interface gets its new object only
\* after the old one is gone (DatabaseUpdate, Finalise).
WorkerIsRegistered ==
    \A p \in Plugin : wpc[p] \notin {"none", "ended"} => m_pPlugins = p

\* The interface never has two Python interpreters, whatever the order of
\* updates, stops and restarts (Stop comes before DeregisterPlugin in Finalise).
OneInterpreter ==
    \A p, q \in Plugin : m_PyInterpreter[p] /\ m_PyInterpreter[q] => p = q

\* The inductive invariant behind the two properties above. A thread that is
\* starting an object has its entry in m_pPlugins and no other thread is starting
\* one; the worker comes after that; an interface that is new to the database is
\* new to m_pPlugins too, so the Insert branch, which does not look, is safe.
StartingPC == {"boot", "StartHardware", "spawn"}

StarterOwnsEntry ==
    \A t \in Thread : thr[t].pc \in StartingPC =>
        LET p == thr[t].plugin
        IN  m_pPlugins = p /\ constructed[p] /\ wpc[p] = "none"

OneStarter ==
    \A t, u \in Thread :
        thr[t].pc \in StartingPC /\ thr[u].pc \in StartingPC => t = u

WorkerIsConstructed == \A p \in Plugin : wpc[p] # "none" => constructed[p]

InterpreterHasWorker ==
    \A p \in Plugin :
        m_PyInterpreter[p] => wpc[p] \notin {"none", "deregister", "ended"}

InsertIsFirst ==
    /\ row = "absent" => events = << >> /\ ~Registered
    /\ \A i \in DOMAIN events :
          events[i].action = "Insert" => i = 1 /\ ~Registered

RegistryInv ==
    /\ WorkerIsRegistered
    /\ StarterOwnsEntry
    /\ OneStarter
    /\ WorkerIsConstructed
    /\ InterpreterHasWorker
    /\ InsertIsFirst

\* The worker asks itself to stop (StopCheck in Do_Work) only after the plugin's
\* onStop message has been processed; a plugin without an interpreter, whose
\* messages are dropped, is the exception.
ExitAfterOnStop ==
    \A p \in Plugin : m_exitSignal[p] /\ m_PyInterpreter[p] => onStopHandled[p]

\* A callback never runs on an Interface object that is gone: the m_Target that
\* CCallbackBase keeps, without a reference of its own, is alive when the
\* message is processed.
TargetAlive ==
    \A p \in Plugin : wpc[p] = "process" /\ msg[p].target => m_Interface[p]

QueuedStop(p) ==
    \E i \in DOMAIN m_MessageQueue[p] : m_MessageQueue[p][i].type = "onStop"

\* onStop reaches the script only once its load is over, whatever has been queued
\* in the meantime: StopHardware tests m_bIsStarting and then m_bIsStarted, a start
\* by another thread may come in between, and onStop is then queued while the
\* plugin starts, behind Initialize.
StopAfterLoad ==
    \A p \in Plugin :
        wpc[p] = "process" /\ msg[p].type = "onStop" => ~m_bIsStarting[p]

\* A thread that has entered StopHardware comes out of it: its loop waits for a
\* startup that always ends, also when Initialise fails.
StopHardwareReturns ==
    \A t \in Thread :
        thr[t].pc = "StopHardware"
            ~> (thr[t].pc # "StopHardware" \/ process # "running")

\* A queued onStop brings the worker to its end: the delayed message becomes due,
\* is processed, and the queue drains (or the process dies on the way).
QueuedStopCompletes ==
    \A p \in Plugin :
        QueuedStop(p) ~> (wpc[p] = "ended" \/ process # "running")

-----------------------------------------------------------------------------
(* What the comments of the source say, and the code does not do.          *)

\* "controls accessto the message queue and m_pPlugins map" (PluginMutex): a
\* plugin that DatabaseUpdate has counted is still there when it looks it up.
LookupFindsCounted == process # "undefined"

AllHandled == events = << >> /\ thr["publisher"].pc = "idle"

\* "If update makes interface active but it isn't currently then register it"
\* (DatabaseUpdate): an interface that stays active ends up with a plugin.
ActiveIsRegistered ==
    <>[](row = "active" /\ AllHandled) => <>[](Registered \/ process # "running")

=============================================================================
