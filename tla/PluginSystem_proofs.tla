------------------------- MODULE PluginSystem_proofs --------------------------
(***************************************************************************)
(* Theorems about PluginSystem, for any interfaces at the start and any    *)
(* that are made active later: what is registered exists, and the          *)
(* io_service waits for the plugins of the start.                          *)
(***************************************************************************)
EXTENDS PluginSystem, SequenceTheorems, TLAPS

\* Where the main thread is before it has told anybody of the plugins.
UntoldPC == {"thread", "python", "AddAllDomoticzHardware"}

\* Until AddAllDomoticzHardware is done nobody waits for a plugin to start, and
\* until the servers are up Do_Work has no turn.
NothingEarly ==
    /\ main \in UntoldPC =>
          ~m_bAllPluginsStarted /\ manager \in {"none", "waiting"}
    /\ main \in UntoldPC \union {"servers"} =>
          mainworker = "none" /\ m_hardwareStartCounter = 0

\* The counter stops at its limit.
CounterInv == m_bStartHardware => m_hardwareStartCounter \in 0..1

\* The publisher registers only plugins that StopDomoticzHardware does not know.
PublisherInv == publisher \in {"DatabaseUpdate", "Start"} => pEntry \in Added

\* What StopDomoticzHardware is about to delete has been deregistered.
StopInv ==
    /\ main \in {"DeregisterPlugin", "Stop", "delete"} => OrgHardwaredevices # << >>
    /\ main \in {"Stop", "delete"} => Head(OrgHardwaredevices) \notin m_pPlugins

\* StartDomoticzHardware has started what it has gone past.
RangeInv ==
    mainworker = "StartDomoticzHardware" =>
        \A p \in ToSet(m_hardwaredevices) :
            object[p] = "registered" => p \in ToSet(range)

\* m_bAllPluginsStarted stands for what it says.
AllStartedInv ==
    m_bAllPluginsStarted \/ manager \in {"working", "ended"} =>
        \A p \in ToSet(m_hardwaredevices) : object[p] # "registered"

SystemInv ==
    /\ TypeOK
    /\ NothingEarly
    /\ CounterInv
    /\ PublisherInv
    /\ StopInv
    /\ RegisteredExists
    /\ RangeInv
    /\ AllStartedInv

-----------------------------------------------------------------------------
\* What the list of a loop is before and after one turn of it.
LEMMA LoopOver ==
    ASSUME NEW S, NEW s \in Seq(S)
    PROVE  /\ ToSet(s) \subseteq S
           /\ s = << >> => ToSet(s) = {}
           /\ s # << >> => /\ Head(s) \in ToSet(s)
                           /\ Tail(s) \in Seq(S)
                           /\ ToSet(s) \subseteq {Head(s)} \union ToSet(Tail(s))
<1>1. DOMAIN s = 1..Len(s) /\ Len(s) \in Nat /\ \A i \in 1..Len(s) : s[i] \in S
  OBVIOUS
<1>2. ToSet(s) \subseteq S
  BY <1>1 DEF ToSet
<1>3. ASSUME s = << >> PROVE ToSet(s) = {}
  BY <1>3 DEF ToSet
<1>4. ASSUME s # << >>
      PROVE  /\ Head(s) \in ToSet(s)
             /\ Tail(s) \in Seq(S)
             /\ ToSet(s) \subseteq {Head(s)} \union ToSet(Tail(s))
  <2>1. /\ Len(s) >= 1 /\ Head(s) = s[1] /\ Tail(s) \in Seq(S)
        /\ Len(Tail(s)) = Len(s) - 1
        /\ \A i \in 1..(Len(s) - 1) : Tail(s)[i] = s[i + 1]
    BY <1>4
  <2>2. DOMAIN Tail(s) = 1..(Len(s) - 1)
    BY <2>1
  <2>3. Head(s) \in ToSet(s)
    BY <1>1, <2>1 DEF ToSet
  <2>4. ASSUME NEW i \in 1..Len(s)
        PROVE  s[i] \in {Head(s)} \union ToSet(Tail(s))
    <3>1. CASE i = 1
      BY <2>1, <3>1
    <3>2. CASE i # 1
      <4>1. i - 1 \in 1..(Len(s) - 1) /\ Tail(s)[i - 1] = s[i]
        BY <1>1, <2>1, <3>2
      <4> QED
        BY <2>2, <4>1 DEF ToSet
    <3> QED
      BY <3>1, <3>2
  <2> QED
    BY <1>1, <2>1, <2>3, <2>4 DEF ToSet
<1> QED
  BY <1>2, <1>3, <1>4

\* The interfaces of the start and the added ones are plugins, and are apart.
LEMMA TwoKinds ==
    /\ ToSet(Boot) \subseteq Plugin /\ Added \subseteq Plugin
    /\ \A p \in Added : p \notin ToSet(Boot)
    /\ Boot \in Seq(ToSet(Boot))
    /\ << >> \in Seq(ToSet(Boot)) /\ << >> \in Seq(Added)
BY InterfaceAssumption DEF Plugin

\* What Init sets satisfies the invariant.
LEMMA InitSystem == Init => SystemInv
<1> SUFFICES ASSUME Init PROVE SystemInv
  OBVIOUS
<1>1. ToSet(m_hardwaredevices) = {}
  BY TwoKinds, LoopOver DEF Init
<1>2. TypeOK
  <2>1. 0 \in 0..2 /\ object \in [Plugin -> ObjectState]
    BY DEF Init, ObjectState
  <2>2. main \in MainPC /\ process \in EndState
    BY DEF Init, MainPC, EndState
  <2> QED
    BY TwoKinds, <2>1, <2>2 DEF Init, TypeOK
<1>3. NothingEarly /\ CounterInv /\ PublisherInv /\ StopInv
  BY DEF Init, NothingEarly, CounterInv, PublisherInv, StopInv, UntoldPC
<1>4. RegisteredExists /\ RangeInv /\ AllStartedInv
  BY <1>1 DEF Init, RegisteredExists, RangeInv, AllStartedInv
<1> QED
  BY <1>2, <1>3, <1>4 DEF SystemInv

\* How the process ends is none of the invariant's business.
LEMMA EndsSystem ==
    ASSUME SystemInv, NEW how \in EndState, Ends(how)
    PROVE  SystemInv'
BY DEF SystemInv, TypeOK, NothingEarly, CounterInv, PublisherInv, StopInv,
       RegisteredExists, RangeInv, AllStartedInv, Ends, mainVars, workerVars,
       systemVars, updateVars, plugins, flagsVars

-----------------------------------------------------------------------------
(* The main thread.                                                        *)

\* Until StopPluginSystem: what is registered, and told, at the start.
LEMMA StartSystem ==
    ASSUME SystemInv,
           StartManager \/ StartPython \/ AddAllDomoticzHardware \/ StartServers
    PROVE  SystemInv'
<1> USE DEF mainVars, workerVars, systemVars, updateVars, plugins, threads,
            flagsVars, MainGoes, MainAt
<1>1. CASE StartManager
  BY <1>1 DEF SystemInv, TypeOK, NothingEarly, CounterInv, PublisherInv, StopInv,
       RegisteredExists, RangeInv, AllStartedInv, StartManager, UntoldPC, MainPC
<1>2. CASE StartPython
  <2>1. /\ main = "python" /\ main' = "AddAllDomoticzHardware"
        /\ UNCHANGED <<OrgHardwaredevices, g_bStopApplication, workerVars,
                       updateVars, plugins, threads, flagsVars>>
    BY <1>2 DEF StartPython
  <2>2. /\ m_bEnabled' \in BOOLEAN /\ m_Subscriber' \in BOOLEAN
        /\ python' \in {"none", "initialised", "finalised"}
    BY <1>2 DEF StartPython, SystemInv, TypeOK
  <2>3. TypeOK'
    BY <2>1, <2>2 DEF SystemInv, TypeOK, MainPC
  <2>4. NothingEarly' /\ CounterInv' /\ PublisherInv' /\ StopInv'
    BY <2>1
       DEF SystemInv, NothingEarly, CounterInv, PublisherInv, StopInv, UntoldPC
  <2>5. RegisteredExists' /\ RangeInv' /\ AllStartedInv'
    BY <2>1 DEF SystemInv, RegisteredExists, RangeInv, AllStartedInv
  <2> QED
    BY <2>3, <2>4, <2>5 DEF SystemInv
<1>3. CASE AddAllDomoticzHardware
  <2> DEFINE added == IF m_bEnabled THEN Boot ELSE << >>
  <2>1. added \in Seq(ToSet(Boot)) /\ ToSet(added) \subseteq Plugin
    BY TwoKinds, LoopOver
  <2>2. ToSet(<< >>) = {}
    BY TwoKinds, LoopOver
  <2>3. /\ main = "AddAllDomoticzHardware" /\ main' = "servers"
        /\ m_hardwaredevices' = added /\ m_pPlugins' = ToSet(added)
        /\ object' = [p \in Plugin |-> IF p \in ToSet(added) THEN "registered"
                                                             ELSE object[p]]
        /\ m_bAllPluginsStarted' = (Boot = << >>)
        /\ m_bStartHardware' = (Boot # << >>)
    BY <1>3 DEF AddAllDomoticzHardware
  <2>4. mainworker = "none" /\ m_hardwareStartCounter = 0
        /\ manager \in {"none", "waiting"}
    BY <2>3 DEF SystemInv, NothingEarly, UntoldPC
  <2>5. UNCHANGED <<OrgHardwaredevices, g_bStopApplication, mainworker, range,
                    m_hardwareStartCounter, systemVars, updateVars, threads>>
    BY <1>3 DEF AddAllDomoticzHardware
  <2>6. m_bAllPluginsStarted' => m_hardwaredevices' = << >>
    BY <2>3
  <2> HIDE DEF added
  <2>7. object' \in [Plugin -> ObjectState]
    BY <2>3 DEF SystemInv, TypeOK, ObjectState
  <2>8. TypeOK'
    BY <2>1, <2>3, <2>5, <2>7 DEF SystemInv, TypeOK, MainPC
  <2>9. NothingEarly' /\ CounterInv' /\ PublisherInv' /\ StopInv'
    BY <2>3, <2>4, <2>5
       DEF SystemInv, NothingEarly, CounterInv, PublisherInv, StopInv, UntoldPC
  <2>10. RegisteredExists'
    BY <2>1, <2>3 DEF RegisteredExists
  <2>11. RangeInv' /\ AllStartedInv'
    BY <2>2, <2>4, <2>5, <2>6 DEF RangeInv, AllStartedInv
  <2> QED
    BY <2>8, <2>9, <2>10, <2>11 DEF SystemInv
<1>4. CASE StartServers
  <2>1. CASE MainGoes("servers", "loop")
    <3>1. /\ main = "servers" /\ main' = "loop" /\ mainworker' = "loop"
          /\ UNCHANGED <<OrgHardwaredevices, g_bStopApplication, range,
                         m_hardwareStartCounter, m_bStartHardware, systemVars,
                         updateVars, plugins, threads, flagsVars>>
      BY <1>4, <2>1 DEF StartServers, Ends
    <3>2. TypeOK'
      BY <3>1 DEF SystemInv, TypeOK, MainPC
    <3>3. NothingEarly' /\ CounterInv' /\ PublisherInv' /\ StopInv'
      BY <3>1
         DEF SystemInv, NothingEarly, CounterInv, PublisherInv, StopInv, UntoldPC
    <3>4. RegisteredExists' /\ RangeInv' /\ AllStartedInv'
      BY <3>1 DEF SystemInv, RegisteredExists, RangeInv, AllStartedInv
    <3> QED
      BY <3>2, <3>3, <3>4 DEF SystemInv
  <2>2. CASE Ends("std::terminate")
    BY <2>2, EndsSystem DEF EndState
  <2> QED
    BY <1>4, <2>1, <2>2 DEF StartServers
<1> QED
  BY <1>1, <1>2, <1>3, <1>4

\* StopDomoticzHardware: what is deleted has been deregistered.
LEMMA HardwareSystem ==
    ASSUME SystemInv, Snapshot \/ DeregisterPlugin \/ StopHardware \/ DeleteHardware
    PROVE  SystemInv'
<1> USE DEF mainVars, workerVars, systemVars, updateVars, plugins, threads,
            flagsVars, MainGoes, MainAt
<1>0. /\ \A list : NextHardware(list) \in {"StopPluginSystem", "DeregisterPlugin"}
      /\ \A list : NextHardware(list) = "DeregisterPlugin" => list # << >>
  BY DEF NextHardware
<1>1. CASE Snapshot
  <2>1. /\ OrgHardwaredevices' = m_hardwaredevices /\ m_hardwaredevices' = << >>
        /\ main' = NextHardware(m_hardwaredevices) /\ main = "snapshot"
        /\ UNCHANGED <<g_bStopApplication, workerVars, systemVars, updateVars,
                       plugins, threads, m_bAllPluginsStarted>>
    BY <1>1 DEF Snapshot
  <2>2. ToSet(<< >>) = {}
    BY TwoKinds, LoopOver
  <2>3. TypeOK'
    BY <1>0, <2>1, TwoKinds DEF SystemInv, TypeOK, MainPC
  <2>4. NothingEarly' /\ CounterInv' /\ PublisherInv' /\ StopInv'
    BY <1>0, <2>1
       DEF SystemInv, NothingEarly, CounterInv, PublisherInv, StopInv, UntoldPC
  <2>5. RegisteredExists' /\ RangeInv' /\ AllStartedInv'
    BY <2>1, <2>2 DEF SystemInv, RegisteredExists, RangeInv, AllStartedInv
  <2> QED
    BY <2>3, <2>4, <2>5 DEF SystemInv
<1>2. CASE DeregisterPlugin
  BY <1>2 DEF SystemInv, TypeOK, NothingEarly, CounterInv, PublisherInv, StopInv,
       RegisteredExists, RangeInv, AllStartedInv, DeregisterPlugin, UntoldPC, MainPC
<1>3. CASE StopHardware
  BY <1>3 DEF SystemInv, TypeOK, NothingEarly, CounterInv, PublisherInv, StopInv,
       RegisteredExists, RangeInv, AllStartedInv, StopHardware, UntoldPC, MainPC
<1>4. CASE DeleteHardware
  <2> DEFINE p == Head(OrgHardwaredevices)
  <2>1. CASE object[p] \in Started
    BY <1>4, <2>1, EndsSystem DEF DeleteHardware, EndState
  <2>2. CASE object[p] \notin Started
    <3>1. /\ main = "delete"
          /\ object' = [object EXCEPT ![p] = "deleted"]
          /\ OrgHardwaredevices' = Tail(OrgHardwaredevices)
          /\ main' = NextHardware(OrgHardwaredevices')
          /\ UNCHANGED <<g_bStopApplication, workerVars, systemVars, updateVars,
                         m_pPlugins, threads, flagsVars>>
      BY <1>4, <2>2 DEF DeleteHardware
    <3>2. p \notin m_pPlugins /\ OrgHardwaredevices # << >>
      BY <3>1 DEF SystemInv, StopInv
    <3>3. OrgHardwaredevices' \in Seq(ToSet(Boot))
      BY <3>1, <3>2, LoopOver DEF SystemInv, TypeOK
    <3>4. m_pPlugins \subseteq Plugin /\ object \in [Plugin -> ObjectState]
      BY DEF SystemInv, TypeOK
    <3> HIDE DEF p
    <3>5. object' \in [Plugin -> ObjectState]
      BY <3>1, <3>4 DEF ObjectState
    <3>6. ASSUME NEW q \in Plugin
          PROVE  /\ q # p => object'[q] = object[q]
                 /\ q = p => object'[q] = "deleted"
      BY <3>1, <3>4
    <3>7. TypeOK'
      BY <1>0, <3>1, <3>3, <3>5 DEF SystemInv, TypeOK, MainPC
    <3>8. NothingEarly' /\ CounterInv' /\ PublisherInv' /\ StopInv'
      BY <1>0, <3>1
         DEF SystemInv, NothingEarly, CounterInv, PublisherInv, StopInv, UntoldPC
    <3>9. RegisteredExists'
      BY <3>1, <3>2, <3>4, <3>6 DEF SystemInv, RegisteredExists
    <3>10. ToSet(m_hardwaredevices) \subseteq Plugin
      BY TwoKinds, LoopOver DEF SystemInv, TypeOK
    <3>11. RangeInv' /\ AllStartedInv'
      BY <3>1, <3>6, <3>10 DEF SystemInv, RangeInv, AllStartedInv
    <3> QED
      BY <3>7, <3>8, <3>9, <3>11 DEF SystemInv
  <2> QED
    BY <2>1, <2>2
<1> QED
  BY <1>1, <1>2, <1>3, <1>4

\* The rest of Stop.
LEMMA StopSystem ==
    ASSUME SystemInv,
           \/ StopServers \/ StopPluginSystem \/ Disconnect \/ JoinManager
           \/ ClearPlugins \/ Finalize \/ StopUpdates \/ FlushUpdates
           \/ StopWorker \/ JoinWorker \/ Return
    PROVE  SystemInv'
<1> USE DEF mainVars, workerVars, systemVars, updateVars, plugins, threads,
            flagsVars, MainGoes, MainAt, MainPC, UntoldPC, SystemInv, TypeOK,
            NothingEarly, CounterInv, PublisherInv, StopInv, RegisteredExists,
            RangeInv, AllStartedInv
<1>1. CASE StopServers
  BY <1>1 DEF StopServers
<1>2. CASE StopPluginSystem
  <2>1. /\ main' = "disconnect" /\ ~m_bAllPluginsStarted'
        /\ m_bAllPluginsStarted' \in BOOLEAN
        /\ UNCHANGED <<OrgHardwaredevices, g_bStopApplication, workerVars,
                       systemVars, updateVars, plugins, threads,
                       m_hardwaredevices>>
    BY <1>2 DEF StopPluginSystem
  <2>2. TypeOK'
    BY <2>1
  <2>3. NothingEarly' /\ CounterInv' /\ PublisherInv' /\ StopInv'
    BY <2>1
  <2>4. RegisteredExists' /\ RangeInv' /\ AllStartedInv'
    BY <2>1
  <2> QED
    BY <2>2, <2>3, <2>4
<1>3. CASE Disconnect
  <2>1. /\ main' \in {"clear", "joinManager"} /\ m_Subscriber' \in BOOLEAN
        /\ UNCHANGED <<OrgHardwaredevices, g_bStopApplication, workerVars,
                       m_bEnabled, python, updateVars, plugins, manager, process,
                       flagsVars>>
    BY <1>3 DEF Disconnect
  <2>2. stopRequested' \subseteq {"manager", "publisher", "mainworker"}
    BY <1>3 DEF Disconnect
  <2>3. TypeOK'
    BY <2>1, <2>2
  <2>4. NothingEarly' /\ CounterInv' /\ PublisherInv' /\ StopInv'
    BY <2>1
  <2>5. RegisteredExists' /\ RangeInv' /\ AllStartedInv'
    BY <2>1
  <2> QED
    BY <2>3, <2>4, <2>5
<1>4. CASE JoinManager
  BY <1>4 DEF JoinManager
<1>5. CASE ClearPlugins
  BY <1>5 DEF ClearPlugins
<1>6. CASE Finalize
  BY <1>6 DEF Finalize
<1>7. CASE StopUpdates
  BY <1>7 DEF StopUpdates
<1>8. CASE FlushUpdates
  BY <1>8, TwoKinds DEF FlushUpdates
<1>9. CASE StopWorker
  BY <1>9 DEF StopWorker
<1>10. CASE JoinWorker
  BY <1>10 DEF JoinWorker
<1>11. CASE Return
  <2> "return 0" \in EndState
    BY DEF EndState
  <2> QED
    BY <1>11, EndsSystem DEF Return
<1> QED
  BY <1>1, <1>2, <1>3, <1>4, <1>5, <1>6, <1>7, <1>8, <1>9, <1>10, <1>11

-----------------------------------------------------------------------------
(* The other threads.                                                      *)

\* StartDomoticzHardware goes through the list it read first, and tells the
\* framework when it is through.
LEMMA MainWorkerSystem ==
    ASSUME SystemInv, MainWorkerStep
    PROVE  SystemInv'
<1> USE DEF mainVars, workerVars, systemVars, updateVars, plugins, threads,
            flagsVars, WorkerAt
<1>1. CASE Turn
  <2>1. /\ m_hardwareStartCounter \in 0..1
        /\ m_hardwareStartCounter' = m_hardwareStartCounter + 1
        /\ mainworker = "loop"
    BY <1>1 DEF Turn, SystemInv, CounterInv
  <2>2. CASE m_hardwareStartCounter + 1 >= 2
    <3>1. /\ m_bStartHardware' = FALSE /\ mainworker' = "StartDomoticzHardware"
          /\ range' = m_hardwaredevices
          /\ UNCHANGED <<mainVars, systemVars, updateVars, plugins, threads,
                         flagsVars>>
      BY <1>1, <2>2 DEF Turn
    <3>2. m_hardwareStartCounter' \in 0..2
      BY <2>1
    <3>3. m_bStartHardware' \in BOOLEAN
      BY <3>1
    <3>4. TypeOK'
      BY <3>1, <3>2, <3>3 DEF SystemInv, TypeOK
    <3>5. NothingEarly' /\ CounterInv' /\ PublisherInv' /\ StopInv'
      BY <2>1, <3>1
         DEF SystemInv, NothingEarly, CounterInv, PublisherInv, StopInv, UntoldPC
    <3>6. RegisteredExists' /\ RangeInv' /\ AllStartedInv'
      BY <3>1 DEF SystemInv, RegisteredExists, RangeInv, AllStartedInv
    <3> QED
      BY <3>4, <3>5, <3>6 DEF SystemInv
  <2>3. CASE ~(m_hardwareStartCounter + 1 >= 2)
    <3>1. UNCHANGED <<mainworker, range, m_bStartHardware, mainVars, systemVars,
                      updateVars, plugins, threads, flagsVars>>
      BY <1>1, <2>3 DEF Turn
    <3>2. m_hardwareStartCounter' \in 0..2 /\ m_hardwareStartCounter' \in 0..1
      BY <2>1, <2>3
    <3> QED
      BY <2>1, <3>1, <3>2
         DEF SystemInv, TypeOK, NothingEarly, CounterInv, PublisherInv, StopInv,
             RegisteredExists, RangeInv, AllStartedInv, UntoldPC
  <2> QED
    BY <2>2, <2>3
<1>2. CASE StartNext
  <2> DEFINE p == Head(range)
  <2>1. CASE object[p] = "deleted"
    BY <1>2, <2>1, EndsSystem DEF StartNext, EndState
  <2>2. CASE object[p] # "deleted"
    <3>1. /\ mainworker = "StartDomoticzHardware" /\ range # << >>
          /\ object' = [object EXCEPT ![p] = "starting"]
          /\ range' = Tail(range)
          /\ UNCHANGED <<mainVars, mainworker, m_hardwareStartCounter,
                         m_bStartHardware, systemVars, updateVars,
                         m_pPlugins, threads, flagsVars>>
      BY <1>2, <2>2 DEF StartNext
    <3>2. /\ range' \in Seq(ToSet(Boot))
          /\ ToSet(range) \subseteq {p} \union ToSet(range')
      BY <3>1, LoopOver DEF SystemInv, TypeOK
    <3>3. m_pPlugins \subseteq Plugin /\ object \in [Plugin -> ObjectState]
      BY DEF SystemInv, TypeOK
    <3>4. ToSet(m_hardwaredevices) \subseteq Plugin
      BY TwoKinds, LoopOver DEF SystemInv, TypeOK
    <3> HIDE DEF p
    <3>5. object' \in [Plugin -> ObjectState]
      BY <3>1, <3>3 DEF ObjectState
    <3>6. ASSUME NEW q \in Plugin
          PROVE  /\ q # p => object'[q] = object[q]
                 /\ q = p => object'[q] = "starting"
      BY <3>1, <3>3
    <3>7. TypeOK'
      BY <3>1, <3>2, <3>5 DEF SystemInv, TypeOK
    <3>8. NothingEarly' /\ CounterInv' /\ PublisherInv' /\ StopInv'
      BY <3>1 DEF SystemInv, NothingEarly, CounterInv, PublisherInv, StopInv
    <3>9. RegisteredExists'
      BY <3>1, <3>3, <3>6 DEF SystemInv, RegisteredExists, Started
    <3>10. RangeInv'
      BY <3>1, <3>2, <3>4, <3>6 DEF SystemInv, RangeInv
    <3>11. AllStartedInv'
      BY <3>1, <3>4, <3>6 DEF SystemInv, AllStartedInv
    <3> QED
      BY <3>7, <3>8, <3>9, <3>10, <3>11 DEF SystemInv
  <2> QED
    BY <2>1, <2>2
<1>3. CASE AllPluginsStarted
  <2>1. /\ mainworker = "StartDomoticzHardware" /\ range = << >>
        /\ mainworker' = "loop" /\ m_bAllPluginsStarted' = TRUE
        /\ UNCHANGED <<mainVars, range, m_hardwareStartCounter, m_bStartHardware,
                       systemVars, updateVars, plugins, threads,
                       m_hardwaredevices>>
    BY <1>3 DEF AllPluginsStarted
  <2>2. ToSet(range) = {}
    BY <2>1, TwoKinds, LoopOver
  <2>3. \A q \in ToSet(m_hardwaredevices) : object[q] # "registered"
    BY <2>1, <2>2 DEF SystemInv, RangeInv
  <2>4. main \notin UntoldPC \union {"servers"}
    BY <2>1 DEF SystemInv, NothingEarly
  <2> QED
    BY <2>1, <2>3, <2>4
       DEF SystemInv, TypeOK, NothingEarly, CounterInv, PublisherInv, StopInv,
           RegisteredExists, RangeInv, AllStartedInv
<1>4. CASE WorkerStops
  BY <1>4
     DEF WorkerStops, SystemInv, TypeOK, NothingEarly, CounterInv, PublisherInv,
         StopInv, RegisteredExists, RangeInv, AllStartedInv, UntoldPC
<1> QED
  BY <1>1, <1>2, <1>3, <1>4 DEF MainWorkerStep

\* The manager goes on only when it is told.
LEMMA ManagerSystem ==
    ASSUME SystemInv, ManagerStep
    PROVE  SystemInv'
<1> USE DEF mainVars, workerVars, systemVars, updateVars, plugins, threads,
            flagsVars, SystemInv, TypeOK, NothingEarly, CounterInv, PublisherInv,
            StopInv, RegisteredExists, RangeInv, AllStartedInv
<1>1. CASE EnterWorkLoop
  BY <1>1 DEF EnterWorkLoop
<1>2. CASE ExitWorkLoop
  BY <1>2 DEF ExitWorkLoop
<1> QED
  BY <1>1, <1>2 DEF ManagerStep

\* The publisher registers and starts what StopDomoticzHardware does not know.
LEMMA PublisherSystem ==
    ASSUME SystemInv, PublisherStep
    PROVE  SystemInv'
<1> USE DEF mainVars, workerVars, systemVars, updateVars, plugins, threads,
            flagsVars, PublisherAt
<1>0. /\ m_pPlugins \subseteq Plugin /\ object \in [Plugin -> ObjectState]
      /\ ToSet(m_hardwaredevices) \subseteq ToSet(Boot)
      /\ OrgHardwaredevices # << >> => Head(OrgHardwaredevices) \in ToSet(Boot)
  <2>1. /\ m_hardwaredevices \in Seq(ToSet(Boot))
        /\ OrgHardwaredevices \in Seq(ToSet(Boot))
    BY DEF SystemInv, TypeOK
  <2>2. ToSet(m_hardwaredevices) \subseteq ToSet(Boot)
    BY <2>1, LoopOver
  <2>3. OrgHardwaredevices # << >> => Head(OrgHardwaredevices) \in ToSet(Boot)
    BY <2>1, LoopOver
  <2>4. m_pPlugins \subseteq Plugin /\ object \in [Plugin -> ObjectState]
    BY DEF SystemInv, TypeOK
  <2> QED
    BY <2>2, <2>3, <2>4
<1>1. CASE Publish
  <2>1. /\ UpdateEntryQueue \in Seq(Added) /\ UpdateEntryQueue # << >>
        /\ UpdateEntryQueue' = Tail(UpdateEntryQueue)
    BY <1>1 DEF Publish, SystemInv, TypeOK
  <2>2. Head(UpdateEntryQueue) \in Added /\ UpdateEntryQueue' \in Seq(Added)
    BY <2>1
  <2>3. \/ publisher' = "DatabaseUpdate" /\ pEntry' = Head(UpdateEntryQueue)
        \/ UNCHANGED <<publisher, pEntry>>
    BY <1>1 DEF Publish
  <2>4. UNCHANGED <<mainVars, workerVars, systemVars, active, plugins, threads,
                    flagsVars>>
    BY <1>1 DEF Publish
  <2>5. TypeOK'
    BY <2>2, <2>3, <2>4, TwoKinds DEF SystemInv, TypeOK
  <2>6. PublisherInv'
    BY <2>2, <2>3 DEF SystemInv, PublisherInv
  <2> QED
    BY <2>4, <2>5, <2>6
       DEF SystemInv, NothingEarly, CounterInv, StopInv, RegisteredExists,
           RangeInv, AllStartedInv
<1>2. CASE RegisterPlugin
  <2>1. pEntry \in Added /\ pEntry \in Plugin /\ pEntry \notin ToSet(Boot)
    BY <1>2, TwoKinds DEF RegisterPlugin, SystemInv, PublisherInv
  <2>2. UNCHANGED <<mainVars, workerVars, systemVars, UpdateEntryQueue, active,
                    threads, flagsVars>>
    BY <1>2 DEF RegisterPlugin
  <2>3. CASE m_bEnabled /\ pEntry \notin m_pPlugins
    <3>1. /\ object' = [object EXCEPT ![pEntry] = "registered"]
          /\ m_pPlugins' = m_pPlugins \union {pEntry}
          /\ publisher' = "Start" /\ pEntry' = pEntry
      BY <1>2, <2>3 DEF RegisterPlugin
    <3>2. ASSUME NEW q \in Plugin
          PROVE  /\ q # pEntry => object'[q] = object[q]
                 /\ q = pEntry => object'[q] = "registered"
      BY <1>0, <3>1
    <3>3. object' \in [Plugin -> ObjectState]
      BY <1>0, <3>1 DEF ObjectState
    <3>4. TypeOK'
      BY <2>1, <2>2, <3>1, <3>3 DEF SystemInv, TypeOK
    <3>5. NothingEarly' /\ CounterInv' /\ PublisherInv'
      BY <2>1, <2>2, <3>1 DEF SystemInv, NothingEarly, CounterInv, PublisherInv
    <3>6. StopInv'
      BY <1>0, <2>1, <2>2, <3>1 DEF SystemInv, StopInv
    <3>7. RegisteredExists'
      BY <1>0, <2>1, <3>1, <3>2 DEF SystemInv, RegisteredExists
    <3>8. \A q \in ToSet(m_hardwaredevices) : object'[q] = object[q]
      BY <1>0, <2>1, <3>2, TwoKinds
    <3>9. RangeInv' /\ AllStartedInv'
      BY <2>2, <3>8 DEF SystemInv, RangeInv, AllStartedInv
    <3> QED
      BY <3>4, <3>5, <3>6, <3>7, <3>9 DEF SystemInv
  <2>4. CASE ~(m_bEnabled /\ pEntry \notin m_pPlugins)
    <3>1. publisher' = "waiting" /\ pEntry' = NoPlugin /\ UNCHANGED plugins
      BY <1>2, <2>4 DEF RegisterPlugin
    <3> QED
      BY <2>2, <3>1
         DEF SystemInv, TypeOK, NothingEarly, CounterInv, PublisherInv, StopInv,
             RegisteredExists, RangeInv, AllStartedInv
  <2> QED
    BY <2>3, <2>4
<1>3. CASE StartAdded
  <2>1. pEntry \in Added /\ pEntry \in Plugin
    BY <1>3, TwoKinds DEF StartAdded, SystemInv, PublisherInv
  <2>2. /\ object' = [object EXCEPT ![pEntry] = "starting"]
        /\ publisher' = "waiting" /\ pEntry' = NoPlugin
        /\ UNCHANGED <<mainVars, workerVars, systemVars, UpdateEntryQueue, active,
                       m_pPlugins, threads, flagsVars>>
    BY <1>3 DEF StartAdded
  <2>3. ASSUME NEW q \in Plugin
        PROVE  /\ q # pEntry => object'[q] = object[q]
               /\ q = pEntry => object'[q] = "starting"
    BY <1>0, <2>2
  <2>4. object' \in [Plugin -> ObjectState]
    BY <1>0, <2>2 DEF ObjectState
  <2>5. TypeOK'
    BY <2>2, <2>4 DEF SystemInv, TypeOK
  <2>6. NothingEarly' /\ CounterInv' /\ PublisherInv' /\ StopInv'
    BY <2>2 DEF SystemInv, NothingEarly, CounterInv, PublisherInv, StopInv
  <2>7. RegisteredExists'
    BY <1>0, <2>2, <2>3 DEF SystemInv, RegisteredExists, Started
  <2>8. ToSet(m_hardwaredevices) \subseteq Plugin
    BY <1>0, TwoKinds
  <2>9. RangeInv' /\ AllStartedInv'
    BY <2>2, <2>3, <2>8 DEF SystemInv, RangeInv, AllStartedInv
  <2> QED
    BY <2>5, <2>6, <2>7, <2>9 DEF SystemInv
<1>4. CASE PublisherStops
  BY <1>4
     DEF PublisherStops, SystemInv, TypeOK, NothingEarly, CounterInv, PublisherInv,
         StopInv, RegisteredExists, RangeInv, AllStartedInv
<1> QED
  BY <1>1, <1>2, <1>3, <1>4 DEF PublisherStep

\* A worker changes its own object, which is started.
LEMMA PluginSystemStep ==
    ASSUME SystemInv, PluginStep
    PROVE  SystemInv'
<1> USE DEF mainVars, workerVars, systemVars, updateVars, plugins, threads,
            flagsVars
<1>1. PICK p \in Plugin : Initialise(p) \/ Heartbeat(p)
  BY DEF PluginStep
<1>2. CASE Ends("use after Py_Finalize")
  BY <1>2, EndsSystem DEF EndState
<1>3. CASE Initialise(p) /\ python # "finalised"
  <2>1. /\ object' = [object EXCEPT ![p] = "working"]
        /\ UNCHANGED <<mainVars, workerVars, systemVars, updateVars, m_pPlugins,
                       threads, flagsVars>>
    BY <1>3 DEF Initialise
  <2>2. m_pPlugins \subseteq Plugin /\ object \in [Plugin -> ObjectState]
    BY DEF SystemInv, TypeOK
  <2>3. ToSet(m_hardwaredevices) \subseteq Plugin
    BY TwoKinds, LoopOver DEF SystemInv, TypeOK
  <2>4. ASSUME NEW q \in Plugin
        PROVE  /\ q # p => object'[q] = object[q]
               /\ q = p => object'[q] = "working"
    BY <2>1, <2>2
  <2>5. object' \in [Plugin -> ObjectState]
    BY <2>1, <2>2 DEF ObjectState
  <2>6. TypeOK'
    BY <2>1, <2>5 DEF SystemInv, TypeOK
  <2>7. NothingEarly' /\ CounterInv' /\ PublisherInv' /\ StopInv'
    BY <2>1 DEF SystemInv, NothingEarly, CounterInv, PublisherInv, StopInv
  <2>8. RegisteredExists'
    BY <2>1, <2>2, <2>4 DEF SystemInv, RegisteredExists, Started
  <2>9. RangeInv' /\ AllStartedInv'
    BY <2>1, <2>3, <2>4 DEF SystemInv, RangeInv, AllStartedInv
  <2> QED
    BY <2>6, <2>7, <2>8, <2>9 DEF SystemInv
<1> QED
  BY <1>1, <1>2, <1>3 DEF Initialise, Heartbeat

-----------------------------------------------------------------------------
\* Every step keeps the invariant.
LEMMA NextSystem == SystemInv /\ [Next]_vars => SystemInv'
<1> SUFFICES ASSUME SystemInv, [Next]_vars PROVE SystemInv'
  OBVIOUS
<1> USE DEF mainVars, workerVars, systemVars, updateVars, plugins, threads,
            flagsVars
<1>1. CASE MainStep
  BY <1>1, StartSystem, HardwareSystem, StopSystem DEF MainStep
<1>2. CASE MainWorkerStep
  BY <1>2, MainWorkerSystem
<1>3. CASE ManagerStep
  BY <1>3, ManagerSystem
<1>4. CASE PublisherStep
  BY <1>4, PublisherSystem
<1>5. CASE PluginStep
  BY <1>5, PluginSystemStep
<1>6. CASE Signal
  BY <1>6
     DEF Signal, SystemInv, TypeOK, NothingEarly, CounterInv, PublisherInv,
         StopInv, RegisteredExists, RangeInv, AllStartedInv
<1>7. ASSUME NEW p \in Added, Activate(p) PROVE SystemInv'
  <2>1. UpdateEntryQueue' \in Seq(Added) /\ active' \subseteq Added
    BY <1>7 DEF Activate, SystemInv, TypeOK
  <2> QED
    BY <1>7, <2>1
       DEF Activate, SystemInv, TypeOK, NothingEarly, CounterInv, PublisherInv,
           StopInv, RegisteredExists, RangeInv, AllStartedInv
<1>8. CASE Watchdog
  BY <1>8, EndsSystem DEF Watchdog, EndState
<1>9. CASE UNCHANGED vars
  BY <1>9
     DEF vars, SystemInv, TypeOK, NothingEarly, CounterInv, PublisherInv,
         StopInv, RegisteredExists, RangeInv, AllStartedInv
<1> QED
  BY <1>1, <1>2, <1>3, <1>4, <1>5, <1>6, <1>7, <1>8, <1>9 DEF Next

\* The invariant of the threads of the process: what each of them may rely on
\* in MainWorker::Start and Stop, for any interfaces.
THEOREM SystemCorrect == Spec => []SystemInv
<1>1. Init => SystemInv
  BY InitSystem
<1>2. SystemInv /\ [Next]_vars => SystemInv'
  BY NextSystem
<1> QED
  BY <1>1, <1>2, PTL DEF Spec

\* Every variable keeps its type. The counter of Do_Work stays at most two: it
\* counts only while m_bStartHardware is set.
THEOREM SystemTyped == Spec => []TypeOK
<1>1. SystemInv => TypeOK
  BY DEF SystemInv
<1> QED
  BY <1>1, SystemCorrect, PTL

\* RestartPlugin, DatabaseUpdate and the device look-ups never find a deleted
\* object: StopDomoticzHardware deregisters each plugin before it deletes it,
\* and the publisher never registers one of those again.
THEOREM RegisteredAlways == Spec => []RegisteredExists
<1>1. SystemInv => RegisteredExists
  BY DEF SystemInv
<1> QED
  BY <1>1, SystemCorrect, PTL

\* The io_service waits for the plugins of the start: m_bAllPluginsStarted,
\* which lets it run, is set only when StartDomoticzHardware has been through
\* the whole list or there is nothing to start.
THEOREM WorkLoopWaits == Spec => []WorkLoopAfterStart
<1>1. SystemInv => WorkLoopAfterStart
  BY DEF SystemInv, AllStartedInv, WorkLoopAfterStart
<1> QED
  BY <1>1, SystemCorrect, PTL

=============================================================================
