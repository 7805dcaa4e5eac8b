---------------------------- MODULE PluginSystem ----------------------------
(***************************************************************************)
(* How the process starts and stops: MainWorker::Start and Stop            *)
(* (main/mainworker.cpp), called by main (main/domoticz.cpp), and the      *)
(* CPluginSystem they start and stop (hardware/plugins/PluginManager.cpp). *)
(*                                                                         *)
(* Threads                                                                 *)
(*   main        Start, the wait for g_bStopApplication, Stop;             *)
(*   mainworker  MainWorker::Do_Work, which starts the plugins two turns   *)
(*               after they were registered;                               *)
(*   manager     CPluginSystem::Do_Work, which runs the io_service once    *)
(*               m_bAllPluginsStarted is set;                              *)
(*   publisher   CUpdateManager::Do_Work, which registers and starts the   *)
(*               plugin of an interface that becomes active;               *)
(*   one worker per started plugin, of which only the life is kept here    *)
(*               (module PluginLifecycle has the rest);                    *)
(*   watchdog    Do_Watchdog_Work (main/SignalHandler.cpp).                *)
(* The flags are plain bools, and m_hardwaredevices is read by             *)
(* StartDomoticzHardware without m_devicemutex.                            *)
(***************************************************************************)
EXTENDS Naturals, SequencesExt

CONSTANTS
    Boot,              \* the active interfaces at the start, in query order
    Added,             \* the interfaces made active while the process runs
    NoPlugin

ASSUME InterfaceAssumption ==
    /\ Boot \in Seq(ToSet(Boot))
    /\ \A i, j \in 1..Len(Boot) : Boot[i] = Boot[j] => i = j
    /\ ToSet(Boot) \intersect Added = {}
    /\ NoPlugin \notin ToSet(Boot) \union Added

VARIABLES
    \* main
    main,                   \* where the main thread is
    OrgHardwaredevices,     \* StopDomoticzHardware: what is left to stop
    g_bStopApplication,
    \* mainworker
    mainworker,             \* where MainWorker::Do_Work is
    range,                  \* StartDomoticzHardware: what is left to start
    m_hardwareStartCounter, m_bStartHardware,
    \* CPluginSystem
    m_bEnabled,
    m_Subscriber,           \* whether DatabaseUpdate is connected
    python,                 \* "none", "initialised" or "finalised"
    manager,                \* where CPluginSystem::Do_Work is
    m_bAllPluginsStarted,
    m_pPlugins,             \* the plugins registered
    \* CUpdateManager
    publisher,              \* where its Do_Work is
    pEntry,                 \* the interface whose entry it handles
    UpdateEntryQueue,       \* activations not yet published
    active,                 \* the added interfaces made active so far
    \* shared
    m_hardwaredevices,
    object,                 \* the life of each CPlugin object
    stopRequested,          \* the threads that RequestStop has asked to stop
    process                 \* "running", or how it ended

mainVars == <<main, OrgHardwaredevices, g_bStopApplication>>
workerVars == <<mainworker, range, m_hardwareStartCounter, m_bStartHardware>>
systemVars == <<m_bEnabled, m_Subscriber, python>>
updateVars == <<publisher, pEntry, UpdateEntryQueue, active>>
plugins == <<m_pPlugins, object>>
threads == <<manager, stopRequested, process>>
flagsVars == <<m_bAllPluginsStarted, m_hardwaredevices>>
vars == <<mainVars, workerVars, systemVars, updateVars, plugins, threads,
          flagsVars>>

Plugin == ToSet(Boot) \union Added

MainPC == {"thread", "python", "AddAllDomoticzHardware", "servers", "loop",
           "snapshot", "DeregisterPlugin", "Stop", "delete",
           "StopPluginSystem", "disconnect", "joinManager", "clear",
           "Py_Finalize", "StopUpdates", "joinPublisher", "StopWorker",
           "joinWorker", "returned"}

ObjectState == {"none",        \* not constructed
                "registered",  \* constructed, never started: it has no thread
                "starting",    \* its worker runs Initialise (m_bIsStarting)
                "working",     \* its worker handles messages
                "deleted"}

Started == {"starting", "working"}

EndState == {"running", "return 0", "std::terminate", "SIGUSR1",
             "use after delete", "use after Py_Finalize"}

Init ==
    /\ main = "thread" /\ OrgHardwaredevices = << >>
    /\ g_bStopApplication = FALSE
    /\ mainworker = "none" /\ range = << >>
    /\ m_hardwareStartCounter = 0 /\ m_bStartHardware = FALSE
    /\ m_bEnabled = FALSE /\ m_Subscriber = FALSE /\ python = "none"
    /\ publisher = "waiting" /\ pEntry = NoPlugin
    /\ UpdateEntryQueue = << >> /\ active = {}
    /\ m_pPlugins = {} /\ object = [p \in Plugin |-> "none"]
    /\ manager = "none" /\ stopRequested = {} /\ process = "running"
    /\ m_bAllPluginsStarted = FALSE /\ m_hardwaredevices = << >>

MainAt(pc) == process = "running" /\ main = pc
WorkerAt(pc) == process = "running" /\ mainworker = pc
PublisherAt(pc) == process = "running" /\ publisher = pc

\* The process ends; nothing else of the state matters any more.
Ends(how) ==
    /\ process' = how
    /\ UNCHANGED <<mainVars, workerVars, systemVars, updateVars, plugins,
                   manager, stopRequested, flagsVars>>

\* The main thread goes from one place to another, touching nothing else of
\* its own.
MainGoes(from, to) ==
    /\ MainAt(from)
    /\ main' = to
    /\ UNCHANGED <<OrgHardwaredevices, g_bStopApplication>>

-----------------------------------------------------------------------------
(* MainWorker::Start.                                                      *)

\* StartPluginSystem: without the Python library there is no manager thread.
StartManager ==
    /\ \/ MainGoes("thread", "python") /\ manager' = "waiting"
       \/ MainGoes("thread", "AddAllDomoticzHardware") /\ UNCHANGED manager
    /\ UNCHANGED <<workerVars, systemVars, updateVars, plugins, stopRequested,
                   process, flagsVars>>

\* The rest of StartPluginSystem. An early return or an exception leaves the
\* thread running and plugins not enabled.
StartPython ==
    /\ MainGoes("python", "AddAllDomoticzHardware")
    /\ \/ python' = "initialised" /\ m_Subscriber' = TRUE /\ m_bEnabled' = TRUE
       \/ UNCHANGED systemVars
    /\ UNCHANGED <<workerVars, updateVars, plugins, threads, flagsVars>>

\* Mutant: the framework may start as soon as the plugins are registered.
MutAddAllDomoticzHardware ==
    /\ MainGoes("AddAllDomoticzHardware", "servers")
    /\ LET added == IF m_bEnabled THEN Boot ELSE << >>
       IN /\ m_hardwaredevices' = added
          /\ m_pPlugins' = ToSet(added)
          /\ object' = [p \in Plugin |-> IF p \in ToSet(added) THEN "registered"
                                                               ELSE object[p]]
    /\ m_bAllPluginsStarted' = TRUE
    /\ m_bStartHardware' = (Boot # << >>)
    /\ UNCHANGED <<mainworker, range, m_hardwareStartCounter, systemVars,
                   updateVars, threads>>

\* Registers every active interface; RegisterPlugin returns NULL while plugins
\* are not enabled. No other thread has anything to do yet: one step.
AddAllDomoticzHardware ==
    /\ MainGoes("AddAllDomoticzHardware", "servers")
    /\ LET added == IF m_bEnabled THEN Boot ELSE << >>
       IN /\ m_hardwaredevices' = added
          /\ m_pPlugins' = ToSet(added)
          /\ object' = [p \in Plugin |-> IF p \in ToSet(added) THEN "registered"
                                                               ELSE object[p]]
    /\ m_bAllPluginsStarted' = (Boot = << >>)
    /\ m_bStartHardware' = (Boot # << >>)
    /\ UNCHANGED <<mainworker, range, m_hardwareStartCounter, systemVars,
                   updateVars, threads>>

\* The web servers are up: Do_Work starts. When they cannot be started, main
\* returns with the watchdog thread still joinable.
StartServers ==
    \/ /\ MainGoes("servers", "loop")
       /\ mainworker' = "loop"
       /\ UNCHANGED <<range, m_hardwareStartCounter, m_bStartHardware,
                      systemVars, updateVars, plugins, threads, flagsVars>>
    \/ MainAt("servers") /\ Ends("std::terminate")

-----------------------------------------------------------------------------
(* The environment: a signal, and requests to the web servers.             *)

\* signal_handler: SIGINT or SIGTERM.
Signal ==
    /\ process = "running" /\ ~g_bStopApplication
    /\ g_bStopApplication' = TRUE
    /\ UNCHANGED <<main, OrgHardwaredevices, workerVars, systemVars, updateVars,
                   plugins, threads, flagsVars>>

\* A web request makes an interface active; the hook queues the entry.
Activate(p) ==
    /\ MainAt("loop") /\ p \notin active
    /\ active' = active \union {p}
    /\ UpdateEntryQueue' = Append(UpdateEntryQueue, p)
    /\ UNCHANGED <<mainVars, workerVars, systemVars, publisher, pEntry, plugins,
                   threads, flagsVars>>

-----------------------------------------------------------------------------
(* MainWorker::Do_Work: one turn a second. The turns that only count       *)
(* seconds are no step.                                                    *)

\* Mutant: the request is not reset.
MutTurn ==
    /\ WorkerAt("loop") /\ "mainworker" \notin stopRequested
    /\ m_bStartHardware
    /\ m_hardwareStartCounter' = m_hardwareStartCounter + 1
    /\ IF m_hardwareStartCounter + 1 >= 2
       THEN /\ mainworker' = "StartDomoticzHardware"
            /\ range' = m_hardwaredevices
            /\ UNCHANGED m_bStartHardware
       ELSE UNCHANGED <<m_bStartHardware, mainworker, range>>
    /\ UNCHANGED <<mainVars, systemVars, updateVars, plugins, threads, flagsVars>>

\* The range-for of StartDomoticzHardware evaluates begin and end once; clear
\* frees nothing, so the loop goes on over the elements it started with.
Turn ==
    /\ WorkerAt("loop") /\ "mainworker" \notin stopRequested
    /\ m_bStartHardware
    /\ m_hardwareStartCounter' = m_hardwareStartCounter + 1
    /\ IF m_hardwareStartCounter + 1 >= 2
       THEN /\ m_bStartHardware' = FALSE
            /\ mainworker' = "StartDomoticzHardware"
            /\ range' = m_hardwaredevices
       ELSE UNCHANGED <<m_bStartHardware, mainworker, range>>
    /\ UNCHANGED <<mainVars, systemVars, updateVars, plugins, threads, flagsVars>>

StartNext ==
    /\ WorkerAt("StartDomoticzHardware") /\ range # << >>
    /\ LET p == Head(range)
       IN IF object[p] = "deleted"
          THEN Ends("use after delete")
          ELSE /\ object' = [object EXCEPT ![p] = "starting"]
               /\ range' = Tail(range)
               /\ UNCHANGED <<mainVars, mainworker, m_hardwareStartCounter,
                              m_bStartHardware, systemVars, updateVars,
                              m_pPlugins, threads, flagsVars>>

AllPluginsStarted ==
    /\ WorkerAt("StartDomoticzHardware") /\ range = << >>
    /\ mainworker' = "loop"
    /\ m_bAllPluginsStarted' = TRUE
    /\ UNCHANGED <<mainVars, range, m_hardwareStartCounter, m_bStartHardware,
                   systemVars, updateVars, plugins, threads, m_hardwaredevices>>

WorkerStops ==
    /\ WorkerAt("loop") /\ "mainworker" \in stopRequested
    /\ mainworker' = "ended"
    /\ UNCHANGED <<mainVars, range, m_hardwareStartCounter, m_bStartHardware,
                   systemVars, updateVars, plugins, threads, flagsVars>>

MainWorkerStep == Turn \/ StartNext \/ AllPluginsStarted \/ WorkerStops

-----------------------------------------------------------------------------
(* CPluginSystem::Do_Work: a wait for m_bAllPluginsStarted that does not   *)
(* look for a stop request, then the io_service until the request.         *)

EnterWorkLoop ==
    /\ process = "running" /\ manager = "waiting"
    /\ m_bAllPluginsStarted
    /\ manager' = "working"
    /\ UNCHANGED <<mainVars, workerVars, systemVars, updateVars, plugins,
                   stopRequested, process, flagsVars>>

ExitWorkLoop ==
    /\ process = "running" /\ manager = "working"
    /\ "manager" \in stopRequested
    /\ manager' = "ended"
    /\ UNCHANGED <<mainVars, workerVars, systemVars, updateVars, plugins,
                   stopRequested, process, flagsVars>>

ManagerStep == EnterWorkLoop \/ ExitWorkLoop

-----------------------------------------------------------------------------
(* CUpdateManager::Do_Work and CPluginSystem::DatabaseUpdate, for an       *)
(* interface that has become active.                                       *)

Publish ==
    /\ PublisherAt("waiting") /\ "publisher" \notin stopRequested
    /\ UpdateEntryQueue # << >>
    /\ UpdateEntryQueue' = Tail(UpdateEntryQueue)
    /\ IF m_Subscriber
       THEN publisher' = "DatabaseUpdate" /\ pEntry' = Head(UpdateEntryQueue)
       ELSE UNCHANGED <<publisher, pEntry>>
    /\ UNCHANGED <<mainVars, workerVars, systemVars, active, plugins, threads,
                   flagsVars>>

RegisterPlugin ==
    /\ PublisherAt("DatabaseUpdate")
    /\ IF m_bEnabled /\ pEntry \notin m_pPlugins
       THEN /\ object' = [object EXCEPT ![pEntry] = "registered"]
            /\ m_pPlugins' = m_pPlugins \union {pEntry}
            /\ publisher' = "Start" /\ UNCHANGED pEntry
       ELSE /\ publisher' = "waiting" /\ pEntry' = NoPlugin
            /\ UNCHANGED plugins
    /\ UNCHANGED <<mainVars, workerVars, systemVars, UpdateEntryQueue, active,
                   threads, flagsVars>>

StartAdded ==
    /\ PublisherAt("Start")
    /\ object' = [object EXCEPT ![pEntry] = "starting"]
    /\ publisher' = "waiting" /\ pEntry' = NoPlugin
    /\ UNCHANGED <<mainVars, workerVars, systemVars, UpdateEntryQueue, active,
                   m_pPlugins, threads, flagsVars>>

PublisherStops ==
    /\ PublisherAt("waiting") /\ "publisher" \in stopRequested
    /\ publisher' = "ended"
    /\ UNCHANGED <<mainVars, workerVars, systemVars, pEntry, UpdateEntryQueue,
                   active, plugins, threads, flagsVars>>

PublisherStep == Publish \/ RegisterPlugin \/ StartAdded \/ PublisherStops

-----------------------------------------------------------------------------
(* The worker of a plugin: Initialise, then messages.                      *)

Initialise(p) ==
    /\ process = "running" /\ object[p] = "starting"
    /\ IF python = "finalised"
       THEN Ends("use after Py_Finalize")
       ELSE /\ object' = [object EXCEPT ![p] = "working"]
            /\ UNCHANGED <<mainVars, workerVars, systemVars, updateVars,
                           m_pPlugins, threads, flagsVars>>

\* Every turn of the worker takes the GIL, if only for the heartbeat.
Heartbeat(p) ==
    /\ process = "running" /\ object[p] = "working" /\ python = "finalised"
    /\ Ends("use after Py_Finalize")

PluginStep == \E p \in Plugin : Initialise(p) \/ Heartbeat(p)

-----------------------------------------------------------------------------
(* MainWorker::Stop. main calls it once Start has returned.                *)

\* Mutant: the mainworker is asked to stop first.
MutStopServers ==
    /\ g_bStopApplication
    /\ MainGoes("loop", "snapshot")
    /\ stopRequested' = stopRequested \union {"mainworker"}
    /\ UNCHANGED <<workerVars, systemVars, updateVars, plugins, manager, process,
                   flagsVars>>

StopServers ==
    /\ g_bStopApplication
    /\ MainGoes("loop", "snapshot")
    /\ UNCHANGED <<workerVars, systemVars, updateVars, plugins, threads, flagsVars>>

\* Where StopDomoticzHardware goes on with the list it has copied.
NextHardware(list) == IF list = << >> THEN "StopPluginSystem" ELSE "DeregisterPlugin"

Snapshot ==
    /\ MainAt("snapshot")
    /\ OrgHardwaredevices' = m_hardwaredevices
    /\ m_hardwaredevices' = << >>
    /\ main' = NextHardware(m_hardwaredevices)
    /\ UNCHANGED <<g_bStopApplication, workerVars, systemVars, updateVars,
                   plugins, threads, m_bAllPluginsStarted>>

\* Mutant: the plugin is left to the clear of StopPluginSystem.
MutDeregisterPlugin ==
    /\ MainGoes("DeregisterPlugin", "Stop")
    /\ UNCHANGED <<workerVars, systemVars, updateVars, plugins, threads, flagsVars>>

DeregisterPlugin ==
    /\ MainGoes("DeregisterPlugin", "Stop")
    /\ m_pPlugins' = m_pPlugins \ {Head(OrgHardwaredevices)}
    /\ UNCHANGED <<workerVars, systemVars, updateVars, object, threads, flagsVars>>

\* StopHardware waits while the plugin is starting, then queues onStop.
StopHardware ==
    /\ MainGoes("Stop", "delete")
    /\ object[Head(OrgHardwaredevices)] # "starting"
    /\ UNCHANGED <<workerVars, systemVars, updateVars, plugins, threads, flagsVars>>

\* m_thread of a started plugin holds a std::thread that nobody joins.
DeleteHardware ==
    /\ MainAt("delete")
    /\ LET p == Head(OrgHardwaredevices)
       IN IF object[p] \in Started
          THEN Ends("std::terminate")
          ELSE /\ object' = [object EXCEPT ![p] = "deleted"]
               /\ OrgHardwaredevices' = Tail(OrgHardwaredevices)
               /\ main' = NextHardware(Tail(OrgHardwaredevices))
               /\ UNCHANGED <<g_bStopApplication, workerVars, systemVars,
                              updateVars, m_pPlugins, threads, flagsVars>>

StopPluginSystem ==
    /\ MainGoes("StopPluginSystem", "disconnect")
    /\ m_bAllPluginsStarted' = FALSE
    /\ UNCHANGED <<workerVars, systemVars, updateVars, plugins, threads,
                   m_hardwaredevices>>

\* Mutant: the manager thread is joined without a request to stop.
MutDisconnect ==
    /\ MainGoes("disconnect", IF manager = "none" THEN "clear" ELSE "joinManager")
    /\ m_Subscriber' = FALSE
    /\ UNCHANGED <<workerVars, m_bEnabled, python, updateVars, plugins, threads,
                   flagsVars>>

\* disconnect does not wait for a call of DatabaseUpdate in progress.
Disconnect ==
    /\ MainGoes("disconnect", IF manager = "none" THEN "clear" ELSE "joinManager")
    /\ m_Subscriber' = FALSE
    /\ stopRequested' = stopRequested \union
                            (IF manager = "none" THEN {} ELSE {"manager"})
    /\ UNCHANGED <<workerVars, m_bEnabled, python, updateVars, plugins, manager,
                   process, flagsVars>>

JoinManager ==
    /\ MainGoes("joinManager", "clear")
    /\ manager = "ended"
    /\ UNCHANGED <<workerVars, systemVars, updateVars, plugins, threads, flagsVars>>

ClearPlugins ==
    /\ MainGoes("clear", "Py_Finalize")
    /\ m_pPlugins' = {}
    /\ UNCHANGED <<workerVars, systemVars, updateVars, object, threads, flagsVars>>

Finalize ==
    /\ MainGoes("Py_Finalize", "StopUpdates")
    /\ python' = IF python = "initialised" THEN "finalised" ELSE python
    /\ UNCHANGED <<workerVars, m_bEnabled, m_Subscriber, updateVars, plugins,
                   threads, flagsVars>>

StopUpdates ==
    /\ MainGoes("StopUpdates", "joinPublisher")
    /\ stopRequested' = stopRequested \union {"publisher"}
    /\ UNCHANGED <<workerVars, systemVars, updateVars, plugins, manager, process,
                   flagsVars>>

FlushUpdates ==
    /\ MainGoes("joinPublisher", "StopWorker")
    /\ publisher = "ended"
    /\ UpdateEntryQueue' = << >>
    /\ UNCHANGED <<workerVars, systemVars, publisher, pEntry, active, plugins,
                   threads, flagsVars>>

StopWorker ==
    /\ MainGoes("StopWorker", "joinWorker")
    /\ stopRequested' = stopRequested \union {"mainworker"}
    /\ UNCHANGED <<workerVars, systemVars, updateVars, plugins, manager, process,
                   flagsVars>>

JoinWorker ==
    /\ MainGoes("joinWorker", "returned")
    /\ mainworker = "ended"
    /\ UNCHANGED <<workerVars, systemVars, updateVars, plugins, threads, flagsVars>>

Return == MainAt("returned") /\ Ends("return 0")

MainStep ==
    \/ StartManager \/ StartPython \/ AddAllDomoticzHardware \/ StartServers
    \/ StopServers \/ Snapshot \/ DeregisterPlugin \/ StopHardware
    \/ DeleteHardware \/ StopPluginSystem \/ Disconnect \/ JoinManager
    \/ ClearPlugins \/ Finalize \/ StopUpdates \/ FlushUpdates \/ StopWorker
    \/ JoinWorker \/ Return

OtherStep == MainWorkerStep \/ ManagerStep \/ PublisherStep \/ PluginStep

Hung == ~ENABLED MainStep /\ ~ENABLED OtherStep

\* heartbeat_check: the main thread gives no heartbeat in Start and Stop. The
\* Heartbeat_Timeout of 300 seconds is longer than anything another thread
\* does, so it passes only when no thread can go on.
Watchdog ==
    /\ process = "running"
    /\ g_bStopApplication /\ Hung
    /\ Ends("SIGUSR1")

Next ==
    \/ MainStep
    \/ MainWorkerStep
    \/ ManagerStep
    \/ PublisherStep
    \/ PluginStep
    \/ Signal
    \/ \E p \in Added : Activate(p)
    \/ Watchdog

Spec == Init /\ [][Next]_vars

\* Threads are scheduled; no signal and no request need ever come.
Fairness ==
    /\ WF_vars(MainStep)
    /\ WF_vars(MainWorkerStep)
    /\ WF_vars(ManagerStep)
    /\ WF_vars(PublisherStep)
    /\ \A p \in Plugin : WF_vars(Initialise(p) \/ Heartbeat(p))
    /\ WF_vars(Watchdog)

FairSpec == Spec /\ Fairness

-----------------------------------------------------------------------------
(* Properties.                                                             *)

TypeOK ==
    /\ main \in MainPC
    /\ OrgHardwaredevices \in Seq(ToSet(Boot))
    /\ g_bStopApplication \in BOOLEAN
    /\ mainworker \in {"none", "loop", "StartDomoticzHardware", "ended"}
    /\ range \in Seq(ToSet(Boot))
    /\ m_hardwareStartCounter \in 0..2
    /\ m_bStartHardware \in BOOLEAN
    /\ m_bEnabled \in BOOLEAN
    /\ m_Subscriber \in BOOLEAN
    /\ python \in {"none", "initialised", "finalised"}
    /\ manager \in {"none", "waiting", "working", "ended"}
    /\ m_bAllPluginsStarted \in BOOLEAN
    /\ m_pPlugins \subseteq Plugin
    /\ publisher \in {"waiting", "DatabaseUpdate", "Start", "ended"}
    /\ pEntry \in Plugin \union {NoPlugin}
    /\ publisher \in {"DatabaseUpdate", "Start"} => pEntry \in Plugin
    /\ UpdateEntryQueue \in Seq(Added)
    /\ active \subseteq Added
    /\ m_hardwaredevices \in Seq(ToSet(Boot))
    /\ object \in [Plugin -> ObjectState]
    /\ stopRequested \subseteq {"manager", "publisher", "mainworker"}
    /\ process \in EndState

\* RestartPlugin, DatabaseUpdate and the device look-ups never find an object
\* that StopDomoticzHardware has deleted: what is registered exists.
RegisteredExists == \A p \in m_pPlugins : object[p] \in {"registered"} \union Started

\* The io_service runs only once every plugin registered at the start has been
\* started, but for those that Stop is about to delete.
WorkLoopAfterStart ==
    manager \in {"working", "ended"} =>
        \A p \in ToSet(m_hardwaredevices) : object[p] # "registered"

\* The manager thread was told, and has not looked yet when StopPluginSystem is
\* about to withdraw it.
NotLooked ==
    main = "StopPluginSystem" /\ manager = "waiting" /\ m_bAllPluginsStarted

\* MainWorker::Stop, which waits for plugins to finish their startup and joins
\* three threads one after the other, comes to an end without the watchdog: at
\* whatever moment of Start, of the start of the plugins or of an activation the
\* signal comes.  Only from NotLooked on may it hang.
StopEnds ==
    g_bStopApplication /\ main \in {"thread", "python", "AddAllDomoticzHardware",
                                   "servers", "loop", "snapshot",
                                   "DeregisterPlugin", "Stop", "delete",
                                   "StopPluginSystem"}
        ~> process \notin {"running", "SIGUSR1"} \/ NotLooked

\* A stop that comes before the plugins were started waits for the mainworker
\* to tell the manager, and gets past it: that is why Do_Work is stopped last.
EarlyStopPasses ==
    (main = "joinManager" /\ m_bStartHardware) ~> main \notin {"joinManager"}

\* mainworker.cpp:109, "tell the Plugin Framework it is okay to start": being
\* told makes it start, unless the process ends otherwise than by the watchdog.
ToldStarts ==
    (m_bAllPluginsStarted /\ manager = "waiting")
        ~> (process \notin {"running", "SIGUSR1"} \/ manager = "working")

=============================================================================
