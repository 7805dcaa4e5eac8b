------------------------- MODULE PluginLifecycle_proofs ----------------------
(***************************************************************************)
(* Theorems about PluginLifecycle, for every set of plugin objects and     *)
(* every value of the bounds: the type invariant; that an interface never  *)
(* has two workers or two interpreters; that a worker leaves Do_Work only  *)
(* after the onStop of the plugin; that a callback finds the Interface     *)
(* object it was built for; and that onStop, which may be queued while the *)
(* plugin starts, reaches the script only when it has loaded.              *)
(***************************************************************************)
EXTENDS PluginLifecycle, TLAPS

(* The operators of the model build values of their types.                 *)

\* Time passes: a remaining time stays in its range.
LEMMA EarlierType ==
    ASSUME NEW n \in Nat, NEW w \in 0..n, NEW s \in Nat
    PROVE  Earlier(w, s) \in 0..n
BY DEF Earlier

\* What PopMessage leaves in the queue is a sequence of messages.
LEMMA RotateType ==
    ASSUME NEW S, NEW q \in Seq(S), NEW i \in DOMAIN q
    PROVE  /\ q[i] \in S
           /\ SubSeq(q, i + 1, Len(q)) \o SubSeq(q, 1, i - 1) \in Seq(S)
<1>1. i \in 1..Len(q)
  OBVIOUS
<1>2. SubSeq(q, i + 1, Len(q)) \in Seq(S)
  BY <1>1
<1>3. SubSeq(q, 1, i - 1) \in Seq(S)
  BY <1>1
<1> QED
  BY <1>2, <1>3

\* The messages that the callers of MessagePlugin build are messages.
LEMMA NewMessageType ==
    ASSUME NEW type \in MessageType, NEW target \in BOOLEAN
    PROVE  NewMessage(type, target) \in Message
BY BoundsAssumption DEF BoundsAssumption, NewMessage, Message, StopDelay

\* An aged message is a message, and NoMessage does not age.
LEMMA AgedMessage ==
    ASSUME NEW s \in Nat
    PROVE  /\ \A m \in Message : [m EXCEPT !.when = Earlier(@, s)] \in Message
           /\ [NoMessage EXCEPT !.when = Earlier(@, s)] = NoMessage
<1>1. ASSUME NEW m \in Message
      PROVE  [m EXCEPT !.when = Earlier(@, s)] \in Message
  <2>1. m.when \in 0..(MaxLag + StopDelay) /\ MaxLag + StopDelay \in Nat
    BY BoundsAssumption DEF BoundsAssumption, Message, StopDelay
  <2>2. Earlier(m.when, s) \in 0..(MaxLag + StopDelay)
    BY <2>1, EarlierType
  <2> QED
    BY <2>2 DEF Message
<1>2. [NoMessage EXCEPT !.when = Earlier(@, s)] = NoMessage
  BY DEF NoMessage, Earlier
<1> QED
  BY <1>1, <1>2

\* Aging a queue keeps its length and leaves a sequence of messages.
LEMMA AgedQueue ==
    ASSUME NEW q \in Seq(Message), NEW s \in Nat
    PROVE  Aged(q, s) \in Seq(Message)
<1>1. \A m \in Message : [m EXCEPT !.when = Earlier(@, s)] \in Message
  BY AgedMessage
<1>2. DOMAIN q = 1..Len(q) /\ Len(q) \in Nat /\ \A i \in DOMAIN q : q[i] \in Message
  OBVIOUS
<1> QED
  BY <1>1, <1>2 DEF Aged

\* Queueing a message keeps the queue a sequence of messages.
LEMMA MessagePluginType ==
    ASSUME NEW q \in Seq(Message), NEW p, NEW m \in Message
    PROVE  MessagePlugin(q, p, m) \in Seq(Message)
BY DEF MessagePlugin

\* What the actions of the two threads leave them doing.
LEMMA ThreadStates ==
    /\ Idle \in ThreadState
    /\ \A p \in Plugin : Boot(p) \in ThreadState
    /\ \A s \in ThreadState : s.plugin \in Plugin => Returned(s) \in ThreadState
    /\ \A s \in ThreadState, pc \in ThreadPC \ PushPC :
          pc \in NoObjectPC \/ s.plugin \in Plugin
              => [s EXCEPT !.pc = pc] \in ThreadState
    /\ \A s \in ThreadState, pc \in ThreadPC \ PushPC, p \in Plugin :
          [s EXCEPT !.pc = pc, !.plugin = p] \in ThreadState
    /\ \A s \in ThreadState, pc \in ThreadPC, m \in Message :
          s.plugin \in Plugin => [s EXCEPT !.pc = pc, !.held = m] \in ThreadState
    /\ \A s \in ThreadState, pc \in ThreadPC \ PushPC :
          s.plugin \in Plugin
              => [s EXCEPT !.pc = pc, !.held = NoMessage] \in ThreadState
    /\ \A s \in ThreadState, pc \in ThreadPC, p \in Plugin, m \in Message :
          [s EXCEPT !.pc = pc, !.plugin = p, !.held = m] \in ThreadState
    /\ [Idle EXCEPT !.pc = "recount", !.call = "onUpdate"] \in ThreadState
    /\ [Idle EXCEPT !.pc = "find", !.call = "Stop"] \in ThreadState
    /\ [Idle EXCEPT !.pc = "find", !.call = "RestartPlugin"] \in ThreadState
<1>1. Idle \in ThreadState /\ \A p \in Plugin : Boot(p) \in ThreadState
  BY DEF ThreadState, Idle, Boot, ThreadPC, NoObjectPC, PushPC
<1>2. ASSUME NEW s \in ThreadState, s.plugin \in Plugin
      PROVE  Returned(s) \in ThreadState
  <2> DEFINE stopped == [s EXCEPT !.pc = "stopped", !.held = NoMessage]
  <2>1. stopped \in ThreadState
    BY <1>2 DEF ThreadState, ThreadPC, NoObjectPC, PushPC
  <2>2. Returned(s) = Idle \/ Returned(s) = stopped
    BY DEF Returned
  <2> QED
    BY <1>1, <2>1, <2>2
<1>3. /\ [Idle EXCEPT !.pc = "recount", !.call = "onUpdate"] \in ThreadState
      /\ [Idle EXCEPT !.pc = "find", !.call = "Stop"] \in ThreadState
      /\ [Idle EXCEPT !.pc = "find", !.call = "RestartPlugin"] \in ThreadState
  <2> DEFINE caller(pc, call) == [Idle EXCEPT !.pc = pc, !.call = call]
  <2>1. caller("recount", "onUpdate") \in ThreadState
    BY DEF Idle, ThreadState, ThreadPC, NoObjectPC, PushPC
  <2>2. caller("find", "Stop") \in ThreadState
    BY DEF Idle, ThreadState, ThreadPC, NoObjectPC, PushPC
  <2>3. caller("find", "RestartPlugin") \in ThreadState
    BY DEF Idle, ThreadState, ThreadPC, NoObjectPC, PushPC
  <2> QED
    BY <2>1, <2>2, <2>3
<1> QED
  BY <1>1, <1>2, <1>3 DEF ThreadState

-----------------------------------------------------------------------------
(* The type invariant, by the groups of variables that the actions leave   *)
(* unchanged together.                                                     *)

FlagsType ==
    /\ m_bIsStarted \in [Plugin -> BOOLEAN]
    /\ m_bIsStarting \in [Plugin -> BOOLEAN]
    /\ m_bIsStopping \in [Plugin -> BOOLEAN]
    /\ m_bRestart \in [Plugin -> BOOLEAN]

PythonType ==
    /\ m_PyInterpreter \in [Plugin -> BOOLEAN]
    /\ m_Interface \in [Plugin -> BOOLEAN]

ClocksType ==
    /\ lag \in [Plugin -> 0..MaxLag]
    /\ stopTime \in [Plugin -> NotSet..StopGrace]
    /\ nextPoll \in [Plugin -> 0..PollInterval]

ObjectsType ==
    /\ constructed \in [Plugin -> BOOLEAN]
    /\ m_exitSignal \in [Plugin -> BOOLEAN]
    /\ m_thread \in [Plugin -> BOOLEAN]

WorkerType ==
    /\ wpc \in [Plugin -> WorkerPC]
    /\ msg \in [Plugin -> Message \union {NoMessage}]
    /\ onStopHandled \in [Plugin -> BOOLEAN]

DatabaseType ==
    /\ row \in RowState
    /\ events \in Seq(Event)
    /\ writes \in 0..MaxWrites

CountersType ==
    /\ failures \in 0..MaxStartFailures
    /\ restarts \in 0..MaxRestarts

QueueType == m_MessageQueue \in [Plugin -> Seq(Message)]

RegistryType == m_pPlugins \in Plugin \union {NoPlugin}

ThreadsType == thr \in [Thread -> ThreadState]

ProcessType == process \in ProcessState

\* TypeOK is the conjunction of the groups, before a step and after it.
LEMMA TypeParts ==
    TypeOK => /\ FlagsType /\ PythonType /\ ClocksType /\ ObjectsType
               /\ WorkerType /\ DatabaseType /\ CountersType /\ QueueType
               /\ RegistryType /\ ThreadsType /\ ProcessType
BY DEF TypeOK, FlagsType, PythonType, ClocksType, ObjectsType, WorkerType,
       DatabaseType, CountersType, QueueType, RegistryType, ThreadsType,
       ProcessType

\* The same split, for the state after a step.
LEMMA TypePartsAfter ==
    /\ FlagsType' /\ PythonType' /\ ClocksType' /\ ObjectsType'
    /\ WorkerType' /\ DatabaseType' /\ CountersType' /\ QueueType'
    /\ RegistryType' /\ ThreadsType' /\ ProcessType'
    => TypeOK'
BY DEF TypeOK, FlagsType, PythonType, ClocksType, ObjectsType, WorkerType,
       DatabaseType, CountersType, QueueType, RegistryType, ThreadsType,
       ProcessType

\* A group that a step leaves unchanged keeps its type.
LEMMA Kept ==
    /\ FlagsType /\ UNCHANGED flags => FlagsType'
    /\ PythonType /\ UNCHANGED python => PythonType'
    /\ ClocksType /\ UNCHANGED clocks => ClocksType'
    /\ ObjectsType /\ UNCHANGED objects => ObjectsType'
    /\ WorkerType /\ UNCHANGED worker => WorkerType'
    /\ DatabaseType /\ UNCHANGED database => DatabaseType'
    /\ CountersType /\ UNCHANGED bounds => CountersType'
    /\ QueueType /\ UNCHANGED m_MessageQueue => QueueType'
    /\ RegistryType /\ UNCHANGED m_pPlugins => RegistryType'
    /\ ThreadsType /\ UNCHANGED thr => ThreadsType'
    /\ ProcessType /\ UNCHANGED process => ProcessType'
BY DEF FlagsType, PythonType, ClocksType, ObjectsType, WorkerType,
       DatabaseType, CountersType, QueueType, RegistryType, ThreadsType,
       ProcessType, flags, python, clocks, objects, worker, database, bounds

\* The state before StartPluginSystem has registered anything is well typed.
LEMMA InitType == Init => TypeOK
<1> SUFFICES ASSUME Init PROVE TypeOK
  OBVIOUS
<1>1. thr \in [Thread -> ThreadState]
  <2>1. CASE thr = [t \in Thread |-> Idle]
    BY <2>1, ThreadStates
  <2>2. ASSUME NEW boot \in Plugin,
               thr = [t \in Thread |->
                         IF t = "mainworker" THEN Boot(boot) ELSE Idle]
        PROVE  thr \in [Thread -> ThreadState]
    BY <2>2, ThreadStates
  <2> QED
    BY <2>1, <2>2 DEF Init
<1>2. /\ constructed \in [Plugin -> BOOLEAN]
      /\ m_pPlugins \in Plugin \union {NoPlugin}
      /\ row \in RowState
  BY DEF Init, RowState
<1>3. /\ m_MessageQueue \in [Plugin -> Seq(Message)]
      /\ events \in Seq(Event)
      /\ msg \in [Plugin -> Message \union {NoMessage}]
  BY DEF Init
<1>4. /\ lag \in [Plugin -> 0..MaxLag]
      /\ stopTime \in [Plugin -> NotSet..StopGrace]
      /\ nextPoll \in [Plugin -> 0..PollInterval]
      /\ writes \in 0..MaxWrites
      /\ failures \in 0..MaxStartFailures
      /\ restarts \in 0..MaxRestarts
  BY BoundsAssumption DEF Init, BoundsAssumption, NotSet, StopGrace
<1>5. /\ wpc \in [Plugin -> WorkerPC]
      /\ process \in ProcessState
  BY DEF Init, WorkerPC, ProcessState
<1> QED
  BY <1>1, <1>2, <1>3, <1>4, <1>5 DEF TypeOK, Init

\* What ThreadState says of a thread that holds an object or a message.
LEMMA ThreadHolds ==
    ASSUME ThreadsType, NEW t \in Thread
    PROVE  /\ thr[t] \in ThreadState
           /\ thr[t].pc \notin NoObjectPC => thr[t].plugin \in Plugin
           /\ thr[t].pc \in PushPC => thr[t].held \in Message
BY DEF ThreadsType, ThreadState

\* The object of a thread that calls Start, Stop or MessagePlugin.
LEMMA CallerHolds ==
    ASSUME ThreadsType, NEW t \in Thread, NEW pc \in ThreadPC \ NoObjectPC,
           CallerAt(t, pc)
    PROVE  /\ thr[t] \in ThreadState
           /\ thr[t].plugin \in Plugin
           /\ pc \in PushPC => thr[t].held \in Message
BY ThreadHolds DEF CallerAt

\* A change of the row and its event in the update queue keep their types.
LEMMA WriteRowType ==
    ASSUME TypeOK, NEW new \in RowState,
           NEW action \in {"Insert", "Update", "Delete"}, NEW active \in BOOLEAN,
           WriteRow(new, action, active)
    PROVE  TypeOK'
<1>1. [action |-> action, active |-> active] \in Event
  BY DEF Event
<1>2. DatabaseType'
  BY <1>1, TypeParts, BoundsAssumption DEF BoundsAssumption, WriteRow, DatabaseType
<1> QED
  BY <1>2, TypeParts, Kept, TypePartsAfter DEF WriteRow

\* A step that ends the process changes nothing else.
LEMMA DiesType ==
    ASSUME TypeOK, NEW how \in ProcessState, Dies(how) PROVE TypeOK'
BY TypeParts, Kept, TypePartsAfter DEF Dies, ProcessType

\* Nor does the restart that ends in std::terminate.
LEMMA StopDiesType ==
    ASSUME TypeOK, NEW p, NEW interpreter, StopDies(p, interpreter) PROVE TypeOK'
BY DiesType DEF StopDies, ProcessState

\* The steps of the threads that do not concern one worker.
LEMMA OtherStepType ==
    ASSUME TypeOK,
           DatabaseStep \/ PublisherStep \/ StartDomoticzHardware
               \/ RestartPlugin \/ Tick
    PROVE  TypeOK'
<1>0. /\ FlagsType /\ PythonType /\ ClocksType /\ ObjectsType
      /\ WorkerType /\ DatabaseType /\ CountersType /\ QueueType
      /\ RegistryType /\ ThreadsType /\ ProcessType
  BY TypeParts
<1>1. ASSUME DatabaseStep PROVE TypeOK'
  BY <1>1, WriteRowType
     DEF DatabaseStep, InsertRow, UpdateRow, DeleteRow, RowState
<1>2. ASSUME DatabaseUpdate PROVE TypeOK'
  <2>1. Head(events) \in Event /\ Tail(events) \in Seq(Event)
    BY <1>0, <1>2 DEF DatabaseUpdate, DatabaseType
  <2>2. DatabaseType'
    BY <1>0, <1>2, <2>1 DEF DatabaseUpdate, DatabaseType
  <2>3. CASE RegisterPlugin
    <3>1. PICK p \in Plugin :
             /\ constructed' = [constructed EXCEPT ![p] = TRUE]
             /\ m_pPlugins' = IF Registered THEN m_pPlugins ELSE p
             /\ thr' = [thr EXCEPT !["publisher"] =
                           [Idle EXCEPT !.pc = "StartHardware", !.plugin = p]]
      BY <2>3 DEF RegisterPlugin
    <3>2. [Idle EXCEPT !.pc = "StartHardware", !.plugin = p] \in ThreadState
      BY ThreadStates DEF ThreadPC, PushPC
    <3>3. ThreadsType' /\ RegistryType'
      BY <1>0, <3>1, <3>2 DEF ThreadsType, RegistryType
    <3>4. ObjectsType'
      BY <1>0, <1>2, <3>1 DEF ObjectsType, DatabaseUpdate
    <3> QED
      BY <1>0, <1>2, <2>2, <3>3, <3>4, Kept, TypePartsAfter DEF DatabaseUpdate
  <2>4. CASE ~RegisterPlugin
    <3>2. /\ \E s \in ThreadState : thr' = [thr EXCEPT !["publisher"] = s]
          /\ UNCHANGED <<constructed, m_pPlugins>>
      BY <1>2, <2>4, ThreadStates DEF DatabaseUpdate, Dispatch
    <3>3. ThreadsType'
      BY <1>0, <3>2 DEF ThreadsType
    <3>4. ObjectsType'
      BY <1>0, <1>2, <3>2 DEF ObjectsType, DatabaseUpdate
    <3> QED
      BY <1>0, <1>2, <2>2, <3>2, <3>3, <3>4, Kept, TypePartsAfter
         DEF DatabaseUpdate
  <2> QED
    BY <2>3, <2>4
<1>3. ASSUME Recount PROVE TypeOK'
  <2>1. ThreadsType'
    BY <1>0, <1>3, ThreadStates 
       DEF Recount, ThreadsType, ThreadPC, Thread, NoObjectPC, PushPC
  <2> QED
    BY <1>0, <1>3, <2>1, Kept, TypePartsAfter DEF Recount
<1>4. ASSUME PushUpdate PROVE TypeOK'
  <2>1. thr["publisher"].held \in Message /\ thr["publisher"].plugin \in Plugin
    BY <1>0, <1>4, CallerHolds
       DEF PushUpdate, Thread, ThreadPC, NoObjectPC, PushPC
  <2>2. ThreadsType'
    BY <1>0, <1>4, ThreadStates DEF PushUpdate, ThreadsType
  <2>3. QueueType'
    <3>1. m_MessageQueue' = [m_MessageQueue EXCEPT ![thr["publisher"].plugin] =
                                Append(@, thr["publisher"].held)]
      BY <1>4 DEF PushUpdate
    <3> QED
      BY <1>0, <2>1, <3>1 DEF QueueType
  <2> QED
    BY <1>0, <1>4, <2>2, <2>3, Kept, TypePartsAfter DEF PushUpdate
<1>5. ASSUME StartDomoticzHardware PROVE TypeOK'
  <2>1. /\ thr["mainworker"] \in ThreadState
        /\ thr["mainworker"].plugin \in Plugin
    BY <1>0, <1>5, CallerHolds
       DEF StartDomoticzHardware, Thread, ThreadPC, NoObjectPC
  <2>2. [thr["mainworker"] EXCEPT !.pc = "StartHardware"] \in ThreadState
    BY <2>1, ThreadStates DEF ThreadPC, PushPC
  <2>3. ThreadsType'
    BY <1>0, <1>5, <2>2, ThreadStates DEF StartDomoticzHardware, ThreadsType
  <2> QED
    BY <1>0, <1>5, <2>3, Kept, TypePartsAfter DEF StartDomoticzHardware
<1>6. ASSUME RestartPlugin PROVE TypeOK'
  <2>2. ThreadsType'
    BY <1>0, <1>6, ThreadStates DEF RestartPlugin, ThreadsType
  <2>3. CountersType'
    BY <1>0, <1>6, BoundsAssumption
       DEF RestartPlugin, CountersType, BoundsAssumption
  <2> QED
    BY <1>0, <1>6, <2>2, <2>3, Kept, TypePartsAfter DEF RestartPlugin
<1>7. ASSUME Tick PROVE TypeOK'
  <2>1. ClocksType'
    BY <1>0, <1>7, BoundsAssumption DEF Tick, ClocksType, BoundsAssumption
  <2> QED
    BY <1>0, <1>7, <2>1, Kept, TypePartsAfter DEF Tick
<1> QED
  BY <1>1, <1>2, <1>3, <1>4, <1>5, <1>6, <1>7 DEF PublisherStep

\* The local variables of Do_Work keep the types of clocks.
LEMMA LoopVariablesType ==
    ASSUME ClocksType, NEW p, NEW poll \in 0..PollInterval, LoopVariables(p, poll)
    PROVE  ClocksType'
<1>1. 0 \in 0..MaxLag /\ NotSet \in NotSet..StopGrace
  BY BoundsAssumption DEF BoundsAssumption, NotSet, StopGrace
<1> QED
  BY <1>1 DEF LoopVariables, ClocksType

\* The steps of Find, Start and Stop.
LEMMA CallerStepType ==
    ASSUME TypeOK, NEW t \in Thread, CallerStep(t)
    PROVE  TypeOK'
<1>0. /\ FlagsType /\ PythonType /\ ClocksType /\ ObjectsType
      /\ WorkerType /\ DatabaseType /\ CountersType /\ QueueType
      /\ RegistryType /\ ThreadsType /\ ProcessType
  BY TypeParts
<1>1. ASSUME Find(t) PROVE TypeOK'
  <2>1. CASE ~Registered /\ Dies("undefined")
    BY <2>1, DiesType DEF ProcessState
  <2>2. CASE Registered /\ Found(t, thr[t].call, m_pPlugins)
    <3> DEFINE p == m_pPlugins
    <3>1. p \in Plugin
      BY <1>0, <2>2 DEF Registered, RegistryType
    <3>2. thr[t] \in ThreadState /\ NewMessage("onUpdate", m_Interface[p]) \in Message
      BY <1>0, <3>1, ThreadHolds, NewMessageType DEF PythonType, MessageType
    <3>3. /\ [thr[t] EXCEPT !.pc = "StopHardware", !.plugin = p] \in ThreadState
          /\ [thr[t] EXCEPT !.pc = "pushUpdate", !.plugin = p,
                            !.held = NewMessage("onUpdate", m_Interface[p])]
                \in ThreadState
      BY <3>1, <3>2, ThreadStates DEF ThreadPC, PushPC
    <3>4. ThreadsType'
      BY <1>0, <2>2, <3>3, ThreadStates DEF Found, ThreadsType
    <3>5. FlagsType'
      BY <1>0, <2>2, <3>1 DEF Found, FlagsType
    <3> QED
      BY <1>0, <2>2, <3>4, <3>5, Kept, TypePartsAfter DEF Found
  <2> QED
    BY <1>1, <2>1, <2>2 DEF Find
<1>2. ASSUME StartHardware(t) PROVE TypeOK'
  <2>1. [thr[t] EXCEPT !.pc = "spawn"] \in ThreadState
    BY <1>0, <1>2, CallerHolds, ThreadStates
       DEF StartHardware, ThreadPC, NoObjectPC, PushPC
  <2>2. ThreadsType'
    BY <1>0, <1>2, <2>1 DEF StartHardware, ThreadsType
  <2>4. QueueType'
    <3>1. m_MessageQueue' = [m_MessageQueue EXCEPT ![thr[t].plugin] = << >>]
      BY <1>2 DEF StartHardware
    <3>2. << >> \in Seq(Message)
      OBVIOUS
    <3> QED
      BY <1>0, <3>1, <3>2, Zenon DEF QueueType
  <2>3. FlagsType' /\ ObjectsType'
    BY <1>0, <1>2 DEF StartHardware, FlagsType, ObjectsType
  <2> QED
    BY <1>0, <1>2, <2>2, <2>3, <2>4, Kept, TypePartsAfter DEF StartHardware
<1>3. ASSUME SpawnWorker(t) PROVE TypeOK'
  <2>1. [thr[t] EXCEPT !.pc = "initialize"] \in ThreadState
    BY <1>0, <1>3, CallerHolds, ThreadStates
       DEF SpawnWorker, ThreadPC, NoObjectPC, PushPC
  <2>2. ThreadsType'
    BY <1>0, <1>3, <2>1 DEF SpawnWorker, ThreadsType
  <2>3. ObjectsType' /\ WorkerType'
    BY <1>0, <1>3 DEF SpawnWorker, ObjectsType, WorkerType, WorkerPC
  <2>4. ClocksType'
    <3>1. LoopVariables(thr[t].plugin, PollInterval)
      BY <1>3 DEF SpawnWorker
    <3> QED
      BY <1>0, <3>1, LoopVariablesType, BoundsAssumption DEF BoundsAssumption
  <2> QED
    BY <1>0, <1>3, <2>2, <2>3, <2>4, Kept, TypePartsAfter DEF SpawnWorker
<1>4. ASSUME PushInitialize(t) PROVE TypeOK'
  <2>1. [thr[t] EXCEPT !.pc = "started"] \in ThreadState
    BY <1>0, <1>4, CallerHolds, ThreadStates
       DEF PushInitialize, ThreadPC, NoObjectPC, PushPC
  <2>2. ThreadsType'
    BY <1>0, <1>4, <2>1 DEF PushInitialize, ThreadsType
  <2>3. \A q \in Seq(Message), p \in Plugin :
            MessagePlugin(q, p, NewMessage("Initialize", FALSE)) \in Seq(Message)
    BY MessagePluginType, NewMessageType DEF MessageType
  <2>4. QueueType'
    BY <1>0, <1>4, <2>3 DEF PushInitialize, QueueType
  <2> QED
    BY <1>0, <1>4, <2>2, <2>4, Kept, TypePartsAfter DEF PushInitialize
<1>5. ASSUME StartReturns(t) PROVE TypeOK'
  <2>1. ThreadsType' /\ FlagsType'
    BY <1>0, <1>5, ThreadStates DEF StartReturns, ThreadsType, FlagsType
  <2> QED
    BY <1>0, <1>5, <2>1, Kept, TypePartsAfter DEF StartReturns
<1>6. ASSUME StopHardware(t) \/ IfStarted(t) \/ BuildStop(t) PROVE TypeOK'
  <2> DEFINE p == thr[t].plugin
  <2>1. thr[t] \in ThreadState /\ p \in Plugin
    BY <1>0, <1>6, CallerHolds
       DEF StopHardware, IfStarted, BuildStop, ThreadPC, NoObjectPC
  <2>2. onStopCallback(p) \in Message
    BY <1>0, <2>1, BoundsAssumption
       DEF onStopCallback, Message, MessageType, ClocksType, PythonType,
           BoundsAssumption, StopDelay
  <2>3. /\ Returned(thr[t]) \in ThreadState
        /\ [thr[t] EXCEPT !.pc = "ifStarted"] \in ThreadState
        /\ [thr[t] EXCEPT !.pc = "buildStop"] \in ThreadState
        /\ [thr[t] EXCEPT !.pc = "setStopping"] \in ThreadState
        /\ [thr[t] EXCEPT !.pc = "pushStop", !.held = onStopCallback(p)]
              \in ThreadState
    BY <2>1, <2>2, ThreadStates DEF ThreadPC, PushPC
  <2>4. ThreadsType'
    BY <1>0, <1>6, <2>3 DEF StopHardware, IfStarted, BuildStop, ThreadsType
  <2> QED
    BY <1>0, <1>6, <2>4, Kept, TypePartsAfter DEF StopHardware, IfStarted, BuildStop
<1>7. ASSUME PushStop(t) PROVE TypeOK'
  <2>1. /\ thr[t].held \in Message /\ thr[t].plugin \in Plugin
        /\ [thr[t] EXCEPT !.pc = "setStopping", !.held = NoMessage] \in ThreadState
    BY <1>0, <1>7, CallerHolds, ThreadStates
       DEF PushStop, ThreadPC, NoObjectPC, PushPC
  <2>2. ThreadsType'
    BY <1>0, <1>7, <2>1 DEF PushStop, ThreadsType
  <2>3. QueueType'
    <3>1. m_MessageQueue' = [m_MessageQueue EXCEPT ![thr[t].plugin] =
                                Append(@, thr[t].held)]
      BY <1>7 DEF PushStop
    <3> QED
      BY <1>0, <2>1, <3>1 DEF QueueType
  <2> QED
    BY <1>0, <1>7, <2>2, <2>3, Kept, TypePartsAfter DEF PushStop
<1>8. ASSUME SetStopping(t) PROVE TypeOK'
  <2>1. Returned(thr[t]) \in ThreadState
    BY <1>0, <1>8, CallerHolds, ThreadStates
       DEF SetStopping, ThreadPC, NoObjectPC, PushPC
  <2>2. ThreadsType' /\ FlagsType'
    BY <1>0, <1>8, <2>1 DEF SetStopping, ThreadsType, FlagsType
  <2> QED
    BY <1>0, <1>8, <2>2, Kept, TypePartsAfter DEF SetStopping
<1>9. ASSUME StopReturns(t) PROVE TypeOK'
  <2>1. ThreadsType' /\ FlagsType'
    BY <1>0, <1>9, ThreadStates DEF StopReturns, ThreadsType, FlagsType
  <2> QED
    BY <1>0, <1>9, <2>1, Kept, TypePartsAfter DEF StopReturns
<1> QED
  BY <1>1, <1>2, <1>3, <1>4, <1>5, <1>6, <1>7, <1>8, <1>9 DEF CallerStep

\* The steps of Do_Work.
LEMMA WorkerStepType ==
    ASSUME TypeOK, NEW p \in Plugin, WorkerStep(p)
    PROVE  TypeOK'
<1>0. /\ FlagsType /\ PythonType /\ ClocksType /\ ObjectsType
      /\ WorkerType /\ DatabaseType /\ CountersType /\ QueueType
      /\ RegistryType /\ ThreadsType /\ ProcessType
  BY TypeParts
<1>q. ASSUME NEW q \in Seq(Message), NEW type \in MessageType, NEW target \in BOOLEAN
      PROVE  MessagePlugin(q, p, NewMessage(type, target)) \in Seq(Message)
  BY MessagePluginType, NewMessageType
<1>1. ASSUME OuterLoop(p) PROVE TypeOK'
  <2>1. WorkerType'
    BY <1>0, <1>1 DEF OuterLoop, WorkerType, WorkerPC
  <2>2. CASE m_exitSignal[p]
    BY <1>0, <1>1, <2>1, <2>2, Kept, TypePartsAfter DEF OuterLoop
  <2>3. CASE ~m_exitSignal[p]
    <3> DEFINE s == lag[p]
    <3>1. s \in Nat /\ s \in 0..MaxLag
      BY <1>0, BoundsAssumption DEF ClocksType, BoundsAssumption
    <3>2. /\ nextPoll' = [nextPoll EXCEPT ![p] = Earlier(@, s)]
          /\ stopTime' = [stopTime EXCEPT ![p] =
                IF @ = NotSet THEN @ ELSE IF @ - s < -1 THEN -1 ELSE @ - s]
          /\ lag' = [lag EXCEPT ![p] = 0]
      BY <1>1, <2>3 DEF OuterLoop
    <3>3. ClocksType'
      <4>1. nextPoll' \in [Plugin -> 0..PollInterval]
        <5>1. Earlier(nextPoll[p], s) \in 0..PollInterval
          BY <1>0, <3>1, EarlierType, BoundsAssumption
             DEF ClocksType, BoundsAssumption
        <5> QED
          BY <1>0, <3>2, <5>1 DEF ClocksType
      <4>2. stopTime' \in [Plugin -> NotSet..StopGrace]
        BY <1>0, <3>1, <3>2 DEF ClocksType, NotSet, StopGrace
      <4>3. lag' \in [Plugin -> 0..MaxLag]
        BY <1>0, <3>2, BoundsAssumption DEF ClocksType, BoundsAssumption
      <4> QED
        BY <4>1, <4>2, <4>3 DEF ClocksType
    <3>4. QueueType'
      <4>1. Aged(m_MessageQueue[p], s) \in Seq(Message)
        BY <1>0, <3>1, AgedQueue DEF QueueType
      <4>2. m_MessageQueue' = [m_MessageQueue EXCEPT ![p] = Aged(@, s)]
        BY <1>1, <2>3 DEF OuterLoop
      <4> QED
        BY <1>0, <4>1, <4>2 DEF QueueType
    <3>5. ThreadsType'
      <4>1. thr' = [t \in Thread |->
                IF thr[t].plugin = p
                THEN [thr[t] EXCEPT !.held.when = Earlier(@, s)]
                ELSE thr[t]]
        BY <1>1, <2>3 DEF OuterLoop
      <4>2. ASSUME NEW t \in Thread, thr[t].plugin = p
            PROVE  [thr[t] EXCEPT !.held.when = Earlier(@, s)] \in ThreadState
        <5> DEFINE aged == [thr[t].held EXCEPT !.when = Earlier(@, s)]
        <5>1. thr[t] \in ThreadState
          BY <1>0, ThreadHolds
        <5>2. /\ thr[t].held \in Message => aged \in Message
              /\ thr[t].held = NoMessage => aged = NoMessage
          BY <3>1, AgedMessage
        <5>3. /\ aged \in Message \union {NoMessage}
              /\ thr[t].held \in Message => aged \in Message
          BY <5>1, <5>2 DEF ThreadState
        <5> HIDE DEF aged
        <5>4. [thr[t] EXCEPT !.held = aged] \in ThreadState
          BY <5>1, <5>3 DEF ThreadState
        <5> QED
          BY <5>4 DEF aged
      <4>3. ASSUME NEW t \in Thread
            PROVE  thr'[t] \in ThreadState
        BY <1>0, <4>1, <4>2, ThreadHolds
      <4> QED
        BY <4>1, <4>3 DEF ThreadsType
    <3> QED
      BY <1>0, <1>1, <2>1, <3>3, <3>4, <3>5, Kept, TypePartsAfter DEF OuterLoop
  <2> QED
    BY <2>2, <2>3
<1>2. ASSUME PopMessage(p) PROVE TypeOK'
  <2> DEFINE q == m_MessageQueue[p]
  <2>1. q \in Seq(Message)
    BY <1>0 DEF QueueType
  <2>2. CASE \E i \in DOMAIN q :
                /\ msg' = [msg EXCEPT ![p] = q[i]]
                /\ m_MessageQueue' = [m_MessageQueue EXCEPT ![p] =
                       SubSeq(q, i + 1, Len(q)) \o SubSeq(q, 1, i - 1)]
                /\ wpc' = [wpc EXCEPT ![p] = "process"]
    <3>1. PICK i \in DOMAIN q :
                /\ msg' = [msg EXCEPT ![p] = q[i]]
                /\ m_MessageQueue' = [m_MessageQueue EXCEPT ![p] =
                       SubSeq(q, i + 1, Len(q)) \o SubSeq(q, 1, i - 1)]
                /\ wpc' = [wpc EXCEPT ![p] = "process"]
      BY <2>2
    <3> DEFINE rest == SubSeq(q, i + 1, Len(q)) \o SubSeq(q, 1, i - 1)
    <3>2. q[i] \in Message /\ rest \in Seq(Message)
      BY <2>1, RotateType
    <3> HIDE DEF rest
    <3>3. QueueType'
      BY <1>0, <3>1, <3>2 DEF QueueType, rest
    <3>4. WorkerType'
      BY <1>0, <1>2, <3>1, <3>2 DEF PopMessage, WorkerType, WorkerPC
    <3> QED
      BY <1>0, <1>2, <3>3, <3>4, Kept, TypePartsAfter DEF PopMessage
  <2>3. CASE wpc' = [wpc EXCEPT ![p] = "after"] /\ UNCHANGED <<msg, m_MessageQueue>>
    <3>1. WorkerType'
      BY <1>0, <1>2, <2>3 DEF PopMessage, WorkerType, WorkerPC
    <3> QED
      BY <1>0, <1>2, <2>3, <3>1, Kept, TypePartsAfter DEF PopMessage
  <2> QED
    BY <1>2, <2>2, <2>3 DEF PopMessage
<1>3. ASSUME DropMessage(p) PROVE TypeOK'
  <2>1. WorkerType'
    BY <1>0, <1>3 DEF DropMessage, WorkerType, WorkerPC
  <2> QED
    BY <1>0, <1>3, <2>1, Kept, TypePartsAfter DEF DropMessage
<1>4. ASSUME RunCallback(p) PROVE TypeOK'
  <2>1. WorkerType'
    BY <1>0, <1>4 DEF RunCallback, WorkerType, WorkerPC
  <2> QED
    BY <1>0, <1>4, <2>1, Kept, TypePartsAfter DEF RunCallback
<1>5. ASSUME InitialiseQuery(p) PROVE TypeOK'
  <2>1. CASE \/ Dies("Py_FatalError")
             \/ StopDies(p, m_PyInterpreter[p])
    BY <2>1, DiesType, StopDiesType DEF ProcessState
  <2>2. CASE row = "active"
    <3>1. FlagsType' /\ WorkerType'
      BY <1>0, <1>5, <2>2
         DEF InitialiseQuery, FlagsType, WorkerType, WorkerPC
    <3> QED
      BY <1>0, <1>5, <2>2, <3>1, Kept, TypePartsAfter DEF InitialiseQuery
  <2>3. CASE /\ row # "active"
             /\ ~Dies("Py_FatalError") /\ ~StopDies(p, m_PyInterpreter[p])
    <3>1. FlagsType' /\ PythonType' /\ WorkerType'
      BY <1>0, <1>5, <2>3
         DEF InitialiseQuery, StopPython, FlagsType, PythonType, WorkerType,
             WorkerPC
    <3> QED
      BY <1>0, <1>5, <2>3, <3>1, Kept, TypePartsAfter DEF InitialiseQuery
  <2> QED
    BY <1>5, <2>1, <2>2, <2>3
<1>6. ASSUME InitialiseLoads(p) PROVE TypeOK'
  <2>1. FlagsType' /\ PythonType' /\ WorkerType'
    BY <1>0, <1>6
       DEF InitialiseLoads, FlagsType, PythonType, WorkerType, WorkerPC
  <2>2. QueueType'
    BY <1>0, <1>6, <1>q DEF InitialiseLoads, QueueType, MessageType
  <2> QED
    BY <1>0, <1>6, <2>1, <2>2, Kept, TypePartsAfter DEF InitialiseLoads
<1>7. ASSUME InitialiseFails(p) PROVE TypeOK'
  <2>1. CASE \E created \in BOOLEAN : StopDies(p, created)
    BY <2>1, StopDiesType
  <2>2. CASE ~\E created \in BOOLEAN : StopDies(p, created)
    <3>1. FlagsType' /\ PythonType' /\ WorkerType'
      BY <1>0, <1>7, <2>2
         DEF InitialiseFails, StopPython, FlagsType, PythonType, WorkerType,
             WorkerPC
    <3> QED
      BY <1>0, <1>7, <2>2, <3>1, Kept, TypePartsAfter DEF InitialiseFails
  <2> QED
    BY <2>1, <2>2
<1>8. ASSUME StartSucceeds(p) PROVE TypeOK'
  <2>1. FlagsType' /\ PythonType' /\ WorkerType'
    BY <1>0, <1>8
       DEF StartSucceeds, FlagsType, PythonType, WorkerType, WorkerPC
  <2> QED
    BY <1>0, <1>8, <2>1, Kept, TypePartsAfter DEF StartSucceeds
<1>9. ASSUME StartFails(p) PROVE TypeOK'
  <2>1. FlagsType' /\ PythonType' /\ WorkerType'
    BY <1>0, <1>9 DEF StartFails, FlagsType, PythonType, WorkerType, WorkerPC
  <2>2. QueueType'
    BY <1>0, <1>9, <1>q DEF StartFails, QueueType, MessageType
  <2>3. CountersType'
    BY <1>0, <1>9, BoundsAssumption
       DEF StartFails, CountersType, BoundsAssumption
  <2> QED
    BY <1>0, <1>9, <2>1, <2>2, <2>3, Kept, TypePartsAfter DEF StartFails
<1>10. ASSUME RunStop(p) PROVE TypeOK'
  <2>1. FlagsType' /\ WorkerType'
    BY <1>0, <1>10 DEF RunStop, FlagsType, WorkerType, WorkerPC
  <2>2. ClocksType'
    BY <1>0, <1>10 DEF RunStop, ClocksType, NotSet, StopGrace
  <2> QED
    BY <1>0, <1>10, <2>1, <2>2, Kept, TypePartsAfter DEF RunStop
<1>11. ASSUME StopCheck(p) PROVE TypeOK'
  <2>1. WorkerType'
    BY <1>0, <1>11 DEF StopCheck, NextLoop, WorkerType, WorkerPC
  <2>2. ObjectsType'
    BY <1>0, <1>11 DEF StopCheck, ObjectsType
  <2> QED
    BY <1>0, <1>11, <2>1, <2>2, Kept, TypePartsAfter DEF StopCheck
<1>12. ASSUME HeartbeatCheck(p) PROVE TypeOK'
  <2>1. WorkerType'
    BY <1>0, <1>12 DEF HeartbeatCheck, NextLoop, WorkerType, WorkerPC
  <2>2. MessagePlugin(m_MessageQueue[p], p, NewMessage("onHeartbeat", m_Interface[p]))
            \in Seq(Message)
    BY <1>0, <1>q DEF QueueType, PythonType, MessageType
  <2>3. QueueType'
    BY <1>0, <1>12, <2>2 DEF HeartbeatCheck, QueueType
  <2>4. ClocksType'
    BY <1>0, <1>12, BoundsAssumption
       DEF HeartbeatCheck, ClocksType, BoundsAssumption
  <2> QED
    BY <1>0, <1>12, <2>1, <2>3, <2>4, Kept, TypePartsAfter DEF HeartbeatCheck
<1>13. ASSUME FinaliseStop(p) PROVE TypeOK'
  <2>1. CASE StopDies(p, m_PyInterpreter[p])
    BY <2>1, StopDiesType
  <2>2. CASE ~StopDies(p, m_PyInterpreter[p])
    <3>1. FlagsType' /\ PythonType' /\ WorkerType'
      BY <1>0, <1>13, <2>2
         DEF FinaliseStop, StopPython, FlagsType, PythonType, WorkerType, WorkerPC
    <3>2. ClocksType'
      <4>1. LoopVariables(p, 0)
        BY <1>13, <2>2 DEF FinaliseStop
      <4> QED
        BY <1>0, <4>1, LoopVariablesType, BoundsAssumption DEF BoundsAssumption
    <3> QED
      BY <1>0, <1>13, <2>2, <3>1, <3>2, Kept, TypePartsAfter DEF FinaliseStop
  <2> QED
    BY <2>1, <2>2
<1>14. ASSUME DeregisterPlugin(p) PROVE TypeOK'
  <2>1. FlagsType' /\ WorkerType' /\ RegistryType'
    BY <1>0, <1>14
       DEF DeregisterPlugin, FlagsType, WorkerType, RegistryType, WorkerPC
  <2> QED
    BY <1>0, <1>14, <2>1, Kept, TypePartsAfter DEF DeregisterPlugin
<1> QED
  BY <1>1, <1>2, <1>3, <1>4, <1>5, <1>6, <1>7, <1>8, <1>9, <1>10, <1>11, <1>12,
     <1>13, <1>14 DEF WorkerStep

\* Every step, of whichever thread, keeps every variable in its type.
LEMMA StepType == TypeOK /\ [Next]_vars => TypeOK'
<1> SUFFICES ASSUME TypeOK, [Next]_vars PROVE TypeOK'
  OBVIOUS
<1>1. CASE UNCHANGED vars
  BY <1>1, TypeParts, Kept, TypePartsAfter DEF vars
<1>2. CASE Next
  BY <1>2, WorkerStepType, CallerStepType, OtherStepType DEF Next
<1> QED
  BY <1>1, <1>2

\* Every variable keeps its type in every behaviour of the plugin life cycle
\* (the members of CPlugin, m_pPlugins, the queues and the row).
THEOREM TypeCorrect == Spec => []TypeOK
<1>1. Init => TypeOK
  BY InitType
<1>2. TypeOK /\ [Next]_vars => TypeOK'
  BY StepType
<1> QED
  BY <1>1, <1>2, PTL DEF Spec

-----------------------------------------------------------------------------
(* Two objects never serve the interface at once. RegistryInv is inductive  *)
(* relative to TypeOK: WorkerIsRegistered alone is not, because SpawnWorker  *)
(* needs to know that the object it starts is the registered one, and        *)
(* RegisterPlugin that the interface has no entry yet.                       *)

\* No thread begins to start an object.
NoNewStarter ==
    \A t \in Thread : thr'[t].pc \in StartingPC
        => thr[t].pc \in StartingPC /\ thr'[t].plugin = thr[t].plugin

\* A step of a thread that leaves the registry, the row and the workers alone.
LEMMA CallerKeepsRegistry ==
    ASSUME RegistryInv, NoNewStarter,
           UNCHANGED <<wpc, m_pPlugins, constructed, m_PyInterpreter, row, events>>
    PROVE  RegistryInv'
<1> USE DEF RegistryInv
<1>1. WorkerIsRegistered' /\ WorkerIsConstructed' /\ InterpreterHasWorker'
  BY DEF WorkerIsRegistered, WorkerIsConstructed, InterpreterHasWorker
<1>2. StarterOwnsEntry' /\ OneStarter'
  BY DEF NoNewStarter, StarterOwnsEntry, OneStarter
<1>3. InsertIsFirst'
  BY DEF InsertIsFirst, Registered
<1> QED
  BY <1>1, <1>2, <1>3

\* A step of a worker that is alive before it and after it.
LEMMA WorkerKeepsRegistry ==
    ASSUME RegistryInv, NoNewStarter, NEW p \in Plugin,
           wpc[p] \notin {"none", "ended"}, wpc'[p] \notin {"none", "ended"},
           m_PyInterpreter'[p] => wpc'[p] # "deregister",
           \A q \in Plugin \ {p} : /\ wpc'[q] = wpc[q]
                                   /\ m_PyInterpreter'[q] = m_PyInterpreter[q],
           UNCHANGED <<m_pPlugins, constructed, row, events>>
    PROVE  RegistryInv'
<1> USE DEF RegistryInv
<1>1. WorkerIsRegistered' /\ WorkerIsConstructed' /\ InterpreterHasWorker'
  BY DEF WorkerIsRegistered, WorkerIsConstructed, InterpreterHasWorker
<1>2. ASSUME NEW t \in Thread, thr'[t].pc \in StartingPC
      PROVE  /\ thr'[t].plugin = thr[t].plugin
             /\ m_pPlugins = thr[t].plugin
             /\ constructed[thr[t].plugin]
             /\ wpc[thr[t].plugin] = "none"
  BY <1>2 DEF NoNewStarter, StarterOwnsEntry
<1>3. ASSUME NEW t \in Thread PROVE thr'[t].pc \notin StartingPC
  BY <1>2, <1>3 DEF WorkerIsRegistered
<1>4. StarterOwnsEntry' /\ OneStarter'
  BY <1>3 DEF StarterOwnsEntry, OneStarter
<1>5. InsertIsFirst'
  BY DEF InsertIsFirst, Registered
<1> QED
  BY <1>1, <1>4, <1>5

\* Nothing is registered, started or running at first.
LEMMA InitRegistry == Init => RegistryInv
<1> SUFFICES ASSUME Init PROVE RegistryInv
  OBVIOUS
<1>1. /\ WorkerIsRegistered /\ WorkerIsConstructed /\ InterpreterHasWorker
  BY DEF Init, WorkerIsRegistered, WorkerIsConstructed, InterpreterHasWorker
<1>2. StarterOwnsEntry /\ OneStarter
  <2>1. CASE thr = [t \in Thread |-> Idle]
    <3>1. \A t \in Thread : thr[t].pc \notin StartingPC
      BY <2>1 DEF Idle, StartingPC
    <3> QED
      BY <3>1 DEF StarterOwnsEntry, OneStarter
  <2>2. ASSUME NEW boot \in Plugin,
               constructed = [p \in Plugin |-> p = boot], m_pPlugins = boot,
               thr = [t \in Thread |->
                         IF t = "mainworker" THEN Boot(boot) ELSE Idle]
        PROVE  StarterOwnsEntry /\ OneStarter
    <3>1. \A t \in Thread : thr[t].pc \in StartingPC
              => t = "mainworker" /\ thr[t].plugin = boot
      BY <2>2 DEF Idle, Boot, StartingPC
    <3>2. wpc[boot] = "none" /\ constructed[boot]
      BY <2>2 DEF Init
    <3> QED
      BY <2>2, <3>1, <3>2 DEF StarterOwnsEntry, OneStarter
  <2> QED
    BY <2>1, <2>2 DEF Init
<1>3. InsertIsFirst
  BY DEF Init, InsertIsFirst, Registered
<1> QED
  BY <1>1, <1>2, <1>3 DEF RegistryInv

\* A row that is inserted, and its event, are the first of their interface.
LEMMA WriteRowRegistry ==
    ASSUME TypeOK, RegistryInv, DatabaseStep PROVE RegistryInv'
<1> USE DEF RegistryInv
<1>1. PICK new \in RowState, action \in {"Insert", "Update", "Delete"},
           active \in BOOLEAN :
             /\ WriteRow(new, action, active)
             /\ new # "absent"
             /\ action = "Insert" => row = "absent"
  BY DEF DatabaseStep, InsertRow, UpdateRow, DeleteRow, RowState
<1>2. UNCHANGED <<wpc, m_pPlugins, constructed, m_PyInterpreter, thr>>
  BY <1>1 DEF WriteRow, python, objects, worker
<1>3. WorkerIsRegistered' /\ WorkerIsConstructed' /\ InterpreterHasWorker'
  BY <1>2 DEF WorkerIsRegistered, WorkerIsConstructed, InterpreterHasWorker
<1>4. StarterOwnsEntry' /\ OneStarter'
  BY <1>2 DEF StarterOwnsEntry, OneStarter
<1>5. InsertIsFirst'
  <2>1. /\ row' = new
        /\ events' = Append(events, [action |-> action, active |-> active])
        /\ events \in Seq(Event)
    BY <1>1 DEF WriteRow, TypeOK
  <2>2. ASSUME NEW i \in DOMAIN events', events'[i].action = "Insert"
        PROVE  i = 1 /\ ~Registered
    <3>1. CASE i = Len(events) + 1
      BY <1>1, <2>1, <2>2, <3>1 DEF InsertIsFirst
    <3>2. CASE i \in DOMAIN events
      BY <2>1, <2>2, <3>2 DEF InsertIsFirst
    <3> QED
      BY <2>1, <3>1, <3>2
  <2> QED
    BY <1>1, <1>2, <2>1, <2>2 DEF InsertIsFirst, Registered
<1> QED
  BY <1>3, <1>4, <1>5

\* The insert and the update branch of DatabaseUpdate find the entry free.
LEMMA DatabaseUpdateRegistry ==
    ASSUME TypeOK, RegistryInv, DatabaseUpdate PROVE RegistryInv'
<1> USE DEF RegistryInv
<1> DEFINE e == Head(events)
<1>1. /\ events # << >> /\ events \in Seq(Event) /\ events' = Tail(events)
      /\ UNCHANGED <<wpc, m_PyInterpreter, row>>
      /\ Dispatch(e)
      /\ thr \in [Thread -> ThreadState] /\ constructed \in [Plugin -> BOOLEAN]
  BY DEF DatabaseUpdate, python, worker, TypeOK
<1>2. /\ row # "absent"
      /\ e = events[1]
      /\ e.action = "Insert" => ~Registered
      /\ \A i \in DOMAIN events' : events'[i].action # "Insert"
  <2>1. /\ e = events[1] /\ 1 \in DOMAIN events
        /\ \A i \in DOMAIN events' : i + 1 \in DOMAIN events /\ i + 1 # 1
                                     /\ events'[i] = events[i + 1]
    BY <1>1
  <2> QED
    BY <1>1, <2>1 DEF InsertIsFirst
<1>3. InterpreterHasWorker' /\ InsertIsFirst'
  BY <1>1, <1>2 DEF InterpreterHasWorker, InsertIsFirst
<1>d. \/ RegisterPlugin /\ ~Registered
      \/ /\ UNCHANGED <<constructed, m_pPlugins>>
         /\ \E s \in {Idle, [Idle EXCEPT !.pc = "recount", !.call = "onUpdate"],
                     [Idle EXCEPT !.pc = "find", !.call = "Stop"]} :
               thr' = [thr EXCEPT !["publisher"] = s]
  BY <1>1, <1>2, Zenon DEF Dispatch
<1>4. CASE RegisterPlugin /\ ~Registered
  <2>1. ~Registered
    BY <1>4
  <2>2. PICK p \in Plugin :
           /\ ~constructed[p]
           /\ constructed' = [constructed EXCEPT ![p] = TRUE]
           /\ m_pPlugins' = p
           /\ thr' = [thr EXCEPT !["publisher"] =
                         [Idle EXCEPT !.pc = "StartHardware", !.plugin = p]]
    BY <1>4, <2>1 DEF RegisterPlugin
  <2>3. /\ \A q \in Plugin : wpc[q] \in {"none", "ended"}
        /\ wpc[p] = "none"
    BY <2>1, <2>2, NoPluginAssumption
       DEF Registered, WorkerIsRegistered, WorkerIsConstructed
  <2>4. \A t \in Thread : thr[t].pc \notin StartingPC
    <3>1. ASSUME NEW t \in Thread, thr[t].pc \in StartingPC PROVE FALSE
      <4>1. thr[t].plugin \in Plugin /\ m_pPlugins = thr[t].plugin
        BY <1>1, <3>1 DEF StarterOwnsEntry, ThreadState, StartingPC, NoObjectPC
      <4> QED
        BY <2>1, <4>1, NoPluginAssumption DEF Registered
    <3> QED
      BY <3>1
  <2>5. /\ thr'["publisher"].plugin = p
        /\ \A t \in Thread : t # "publisher" => thr'[t] = thr[t]
    BY <1>1, <2>2 DEF Idle, Thread
  <2>6. WorkerIsRegistered' /\ WorkerIsConstructed'
    BY <1>1, <2>2, <2>3 DEF WorkerIsRegistered, WorkerIsConstructed
  <2>7. OneStarter'
    BY <2>4, <2>5 DEF OneStarter
  <2>8. StarterOwnsEntry'
    BY <1>1, <2>2, <2>3, <2>4, <2>5 DEF StarterOwnsEntry
  <2> QED
    BY <1>3, <2>6, <2>7, <2>8
<1>5. ASSUME UNCHANGED <<constructed, m_pPlugins>>,
             NEW s \in {Idle, [Idle EXCEPT !.pc = "recount", !.call = "onUpdate"],
                        [Idle EXCEPT !.pc = "find", !.call = "Stop"]},
             thr' = [thr EXCEPT !["publisher"] = s]
      PROVE  RegistryInv'
  <2>0. s.pc \in {"idle", "recount", "find"}
    <3>1. /\ Idle.pc = "idle"
          /\ [Idle EXCEPT !.pc = "recount", !.call = "onUpdate"].pc = "recount"
          /\ [Idle EXCEPT !.pc = "find", !.call = "Stop"].pc = "find"
      BY DEF Idle
    <3> QED
      BY <1>5, <3>1, Zenon
  <2>1. /\ UNCHANGED <<constructed, m_pPlugins>>
        /\ thr'["publisher"].pc \notin StartingPC
        /\ \A t \in Thread : t # "publisher" => thr'[t] = thr[t]
    BY <1>1, <1>5, <2>0 DEF StartingPC, Thread
  <2>2. WorkerIsRegistered' /\ WorkerIsConstructed'
    BY <1>1, <2>1 DEF WorkerIsRegistered, WorkerIsConstructed
  <2>3. StarterOwnsEntry' /\ OneStarter'
    BY <1>1, <2>1 DEF StarterOwnsEntry, OneStarter
  <2> QED
    BY <1>3, <2>2, <2>3
<1> QED
  BY <1>d, <1>4, <1>5

\* StartHardware makes a worker of the object that is registered and only then.
LEMMA SpawnWorkerRegistry ==
    ASSUME TypeOK, RegistryInv, NEW t \in Thread, SpawnWorker(t)
    PROVE  RegistryInv'
<1> USE DEF RegistryInv
<1> DEFINE p == thr[t].plugin
<1>1. /\ thr[t].pc = "spawn"
      /\ wpc' = [wpc EXCEPT ![p] = "outer"]
      /\ thr' = [thr EXCEPT ![t].pc = "initialize"]
      /\ UNCHANGED <<m_pPlugins, constructed, m_PyInterpreter, row, events>>
      /\ thr \in [Thread -> ThreadState] /\ wpc \in [Plugin -> WorkerPC]
  BY DEF SpawnWorker, CallerAt, python, database, TypeOK
<1>2. m_pPlugins = p /\ constructed[p] /\ wpc[p] = "none" /\ p \in Plugin
  BY <1>1 DEF StarterOwnsEntry, StartingPC, ThreadState, NoObjectPC
<1>3. \A u \in Thread : thr'[u].pc \notin StartingPC
  BY <1>1 DEF OneStarter, StartingPC
<1>4. \A q \in Plugin : wpc'[q] = IF q = p THEN "outer" ELSE wpc[q]
  BY <1>1
<1>5. WorkerIsRegistered' /\ WorkerIsConstructed' /\ InterpreterHasWorker'
  BY <1>1, <1>2, <1>4
     DEF WorkerIsRegistered, WorkerIsConstructed, InterpreterHasWorker
<1>6. StarterOwnsEntry' /\ OneStarter'
  BY <1>3 DEF StarterOwnsEntry, OneStarter
<1>7. InsertIsFirst'
  BY <1>1 DEF InsertIsFirst, Registered
<1> QED
  BY <1>5, <1>6, <1>7

\* A worker that deregisters itself has left nothing behind it.
LEMMA DeregisterRegistry ==
    ASSUME TypeOK, RegistryInv, NEW p \in Plugin, DeregisterPlugin(p)
    PROVE  RegistryInv'
<1> USE DEF RegistryInv
<1>1. /\ wpc[p] = "deregister"
      /\ m_pPlugins' = NoPlugin
      /\ wpc' = [wpc EXCEPT ![p] = "ended"]
      /\ UNCHANGED <<constructed, m_PyInterpreter, row, events, thr>>
      /\ wpc \in [Plugin -> WorkerPC]
  BY DEF DeregisterPlugin, WorkerAt, python, database, objects, TypeOK
<1>2. m_pPlugins = p
  BY <1>1 DEF WorkerIsRegistered
<1>3. \A q \in Plugin : wpc'[q] = IF q = p THEN "ended" ELSE wpc[q]
  BY <1>1
<1>4. WorkerIsRegistered' /\ WorkerIsConstructed' /\ InterpreterHasWorker'
  BY <1>1, <1>2, <1>3
     DEF WorkerIsRegistered, WorkerIsConstructed, InterpreterHasWorker
<1>5. \A t \in Thread : thr'[t].pc \notin StartingPC
  BY <1>1, <1>2 DEF StarterOwnsEntry
<1>6. StarterOwnsEntry' /\ OneStarter'
  BY <1>5 DEF StarterOwnsEntry, OneStarter
<1>7. InsertIsFirst'
  BY <1>1 DEF InsertIsFirst, Registered
<1> QED
  BY <1>4, <1>6, <1>7

\* Every step, of whichever thread, keeps the registry invariant.
LEMMA StepRegistry == TypeOK /\ RegistryInv /\ [Next]_vars => RegistryInv'
<1> SUFFICES ASSUME TypeOK, RegistryInv, [Next]_vars PROVE RegistryInv'
  OBVIOUS
<1> USE DEF flags, python, clocks, objects, worker, database, bounds
<1>t. /\ thr \in [Thread -> ThreadState]
      /\ wpc \in [Plugin -> WorkerPC]
      /\ m_PyInterpreter \in [Plugin -> BOOLEAN]
  BY DEF TypeOK
<1>1. CASE UNCHANGED vars
  BY <1>1, CallerKeepsRegistry DEF vars, NoNewStarter
<1>2. CASE DatabaseStep
  BY <1>2, WriteRowRegistry
<1>3. CASE DatabaseUpdate
  BY <1>3, DatabaseUpdateRegistry
<1>4. CASE Recount
  <2>1. NoNewStarter
    BY <1>t, <1>4 DEF Recount, NoNewStarter, Idle, StartingPC, Thread
  <2> QED
    BY <1>4, <2>1, CallerKeepsRegistry DEF Recount
<1>5. CASE PushUpdate
  <2>1. NoNewStarter
    BY <1>t, <1>5 DEF PushUpdate, NoNewStarter, Idle, StartingPC, Thread
  <2> QED
    BY <1>5, <2>1, CallerKeepsRegistry DEF PushUpdate
<1>6. CASE StartDomoticzHardware
  <2>1. NoNewStarter
    BY <1>t, <1>6
       DEF StartDomoticzHardware, CallerAt, NoNewStarter, Idle, StartingPC, Thread
  <2> QED
    BY <1>6, <2>1, CallerKeepsRegistry DEF StartDomoticzHardware
<1>7. CASE RestartPlugin
  <2>1. NoNewStarter
    BY <1>t, <1>7 DEF RestartPlugin, NoNewStarter, Idle, StartingPC, Thread
  <2> QED
    BY <1>7, <2>1, CallerKeepsRegistry DEF RestartPlugin
<1>8. CASE Tick
  BY <1>8, CallerKeepsRegistry DEF Tick, NoNewStarter
<1>9. ASSUME NEW t \in Thread, CallerStep(t) PROVE RegistryInv'
  <2>1. CASE Find(t)
    <3>1. CASE Found(t, thr[t].call, m_pPlugins)
      <4>1. thr'[t].pc \in {"idle", "StopHardware", "pushUpdate"}
        BY <1>t, <3>1 DEF Found, Idle, ThreadState
      <4>2. \A u \in Thread \ {t} : thr'[u] = thr[u]
        BY <1>t, <3>1 DEF Found
      <4>3. NoNewStarter
        BY <4>1, <4>2 DEF NoNewStarter, StartingPC
      <4> QED
        BY <3>1, <4>3, CallerKeepsRegistry DEF Found
    <3>2. CASE Dies("undefined")
      BY <3>2, CallerKeepsRegistry DEF Dies, NoNewStarter
    <3> QED
      BY <2>1, <3>1, <3>2 DEF Find
  <2>2. CASE StartHardware(t)
    <3>1. NoNewStarter
      BY <1>t, <2>2 DEF StartHardware, CallerAt, NoNewStarter, StartingPC
    <3> QED
      BY <2>2, <3>1, CallerKeepsRegistry DEF StartHardware
  <2>3. CASE SpawnWorker(t)
    BY <2>3, SpawnWorkerRegistry
  <2>4. CASE PushInitialize(t)
    <3>1. NoNewStarter
      BY <1>t, <2>4 DEF PushInitialize, NoNewStarter, StartingPC
    <3> QED
      BY <2>4, <3>1, CallerKeepsRegistry DEF PushInitialize
  <2>5. CASE StartReturns(t)
    <3>1. NoNewStarter
      BY <1>t, <2>5 DEF StartReturns, NoNewStarter, Idle, StartingPC
    <3> QED
      BY <2>5, <3>1, CallerKeepsRegistry DEF StartReturns
  <2>6. CASE StopHardware(t) \/ IfStarted(t) \/ BuildStop(t)
    <3>1. NoNewStarter
      <4>1. \A u \in Thread \ {t} : thr'[u] = thr[u]
        BY <1>t, <2>6 DEF StopHardware, IfStarted, BuildStop
      <4>2. thr'[t].pc \notin StartingPC
        <5>1. CASE StopHardware(t)
          BY <1>t, <5>1 DEF StopHardware, StartingPC
        <5>2. CASE IfStarted(t)
          BY <1>t, <5>2 DEF IfStarted, Returned, Idle, StartingPC
        <5>3. CASE BuildStop(t)
          BY <1>t, <5>3 DEF BuildStop, StartingPC
        <5> QED
          BY <2>6, <5>1, <5>2, <5>3
      <4> QED
        BY <4>1, <4>2 DEF NoNewStarter
    <3> QED
      BY <2>6, <3>1, CallerKeepsRegistry DEF StopHardware, IfStarted, BuildStop
  <2>7. CASE PushStop(t)
    <3>1. NoNewStarter
      BY <1>t, <2>7 DEF PushStop, NoNewStarter, StartingPC
    <3> QED
      BY <2>7, <3>1, CallerKeepsRegistry DEF PushStop
  <2>8. CASE SetStopping(t)
    <3>1. NoNewStarter
      BY <1>t, <2>8 DEF SetStopping, Returned, NoNewStarter, Idle, StartingPC
    <3> QED
      BY <2>8, <3>1, CallerKeepsRegistry DEF SetStopping
  <2>9. CASE StopReturns(t)
    <3>1. NoNewStarter
      BY <1>t, <2>9 DEF StopReturns, NoNewStarter, Idle, StartingPC
    <3> QED
      BY <2>9, <3>1, CallerKeepsRegistry DEF StopReturns
  <2> QED
    BY <1>9, <2>1, <2>2, <2>3, <2>4, <2>5, <2>6, <2>7, <2>8, <2>9
       DEF CallerStep
<1>10. ASSUME NEW p \in Plugin, WorkerStep(p) PROVE RegistryInv'
  <2>d. ASSUME NEW how, Dies(how) PROVE RegistryInv'
    BY <2>d, CallerKeepsRegistry DEF Dies, NoNewStarter
  <2>1. CASE OuterLoop(p)
    <3>0. ASSUME NEW t \in Thread
          PROVE  thr'[t].pc = thr[t].pc /\ thr'[t].plugin = thr[t].plugin
      <4>1. \/ thr' = thr
            \/ thr' = [u \in Thread |->
                         IF thr[u].plugin = p
                         THEN [thr[u] EXCEPT !.held.when = Earlier(@, lag[p])]
                         ELSE thr[u]]
        BY <2>1 DEF OuterLoop
      <4>2. thr[t] \in ThreadState
        BY <1>t
      <4> DEFINE aged == [thr[t] EXCEPT !.held.when = Earlier(@, lag[p])]
      <4>3. aged.pc = thr[t].pc /\ aged.plugin = thr[t].plugin
        BY <4>2 DEF ThreadState
      <4>4. thr'[t] = thr[t] \/ thr'[t] = aged
        BY <4>1
      <4> HIDE DEF aged
      <4> QED
        BY <4>3, <4>4
    <3>1. NoNewStarter
      BY <3>0 DEF NoNewStarter
    <3> QED
      BY <1>t, <2>1, <3>1, WorkerKeepsRegistry DEF OuterLoop, WorkerAt
  <2>2. CASE PopMessage(p)
    BY <1>t, <2>2, WorkerKeepsRegistry DEF PopMessage, WorkerAt, NoNewStarter
  <2>3. CASE DropMessage(p) \/ RunCallback(p)
    BY <1>t, <2>3, WorkerKeepsRegistry
       DEF DropMessage, RunCallback, Processing, WorkerAt, NoNewStarter
  <2>4. CASE InitialiseQuery(p)
    BY <1>t, <2>d, <2>4, WorkerKeepsRegistry
       DEF InitialiseQuery, StopDies, StopPython, Processing, WorkerAt,
           NoNewStarter
  <2>5. CASE InitialiseLoads(p)
    BY <1>t, <2>5, WorkerKeepsRegistry DEF InitialiseLoads, WorkerAt, NoNewStarter
  <2>6. CASE InitialiseFails(p)
    BY <1>t, <2>d, <2>6, WorkerKeepsRegistry
       DEF InitialiseFails, StopDies, StopPython, WorkerAt, NoNewStarter
  <2>7. CASE StartSucceeds(p) \/ StartFails(p)
    BY <1>t, <2>7, WorkerKeepsRegistry
       DEF StartSucceeds, StartFails, Processing, WorkerAt, NoNewStarter
  <2>8. CASE RunStop(p)
    BY <1>t, <2>8, WorkerKeepsRegistry
       DEF RunStop, Processing, WorkerAt, NoNewStarter
  <2>9. CASE StopCheck(p) \/ HeartbeatCheck(p)
    BY <1>t, <2>9, WorkerKeepsRegistry
       DEF StopCheck, HeartbeatCheck, NextLoop, WorkerAt, NoNewStarter
  <2>10. CASE FinaliseStop(p)
    BY <1>t, <2>d, <2>10, WorkerKeepsRegistry
       DEF FinaliseStop, StopDies, StopPython, WorkerAt, NoNewStarter
  <2>11. CASE DeregisterPlugin(p)
    BY <2>11, DeregisterRegistry
  <2> QED
    BY <1>10, <2>1, <2>2, <2>3, <2>4, <2>5, <2>6, <2>7, <2>8, <2>9, <2>10,
       <2>11 DEF WorkerStep
<1> QED
  BY <1>1, <1>2, <1>3, <1>4, <1>5, <1>6, <1>7, <1>8, <1>9, <1>10
     DEF Next, PublisherStep

\* The registry and the workers agree in every behaviour.
THEOREM RegistryCorrect == Spec => []RegistryInv
<1>1. Init => TypeOK /\ RegistryInv
  BY InitType, InitRegistry
<1>2. TypeOK /\ RegistryInv /\ [Next]_vars => (TypeOK /\ RegistryInv)'
  BY StepType, StepRegistry
<1> QED
  BY <1>1, <1>2, PTL DEF Spec

\* A plugin whose worker is alive is the one m_pPlugins has for the interface,
\* whatever the order of updates, starts, stops and restarts.
THEOREM AliveIsRegistered == Spec => []WorkerIsRegistered
<1>1. RegistryInv => WorkerIsRegistered
  BY DEF RegistryInv
<1> QED
  BY <1>1, RegistryCorrect, PTL

\* An interface never has two Python interpreters.
THEOREM InterpreterIsUnique == Spec => []OneInterpreter
<1>1. RegistryInv => OneInterpreter
  BY DEF RegistryInv, InterpreterHasWorker, WorkerIsRegistered, OneInterpreter
<1> QED
  BY <1>1, RegistryCorrect, PTL

-----------------------------------------------------------------------------
(***************************************************************************)
(* The end of a plugin: a worker leaves Do_Work only after onStop.         *)
(***************************************************************************)

(* The queue, told by the types and the targets of its messages.           *)

HasType(q, types) == \E i \in DOMAIN q : q[i].type \in types

HasTarget(q) == \E i \in DOMAIN q : q[i].target

AtMostOne(q, types) ==
    \A i, j \in DOMAIN q :
        q[i].type \in types /\ q[j].type \in types => i = j

\* What a queue has when a message has been appended.
LEMMA AppendHas ==
    ASSUME NEW q \in Seq(Message), NEW m \in Message, NEW types
    PROVE  /\ HasType(Append(q, m), types) <=> HasType(q, types) \/ m.type \in types
           /\ HasTarget(Append(q, m)) <=> HasTarget(q) \/ m.target
           /\ AtMostOne(q, types) /\ (m.type \in types => ~HasType(q, types))
                 => AtMostOne(Append(q, m), types)
<1> DEFINE r == Append(q, m)
<1>1. /\ DOMAIN r = DOMAIN q \union {Len(q) + 1}
      /\ \A i \in DOMAIN q : r[i] = q[i] /\ i # Len(q) + 1
      /\ r[Len(q) + 1] = m
  OBVIOUS
<1> HIDE DEF r
<1>2. HasType(r, types) <=> HasType(q, types) \/ m.type \in types
  BY <1>1 DEF HasType
<1>3. HasTarget(r) <=> HasTarget(q) \/ m.target
  BY <1>1 DEF HasTarget
<1>4. AtMostOne(q, types) /\ (m.type \in types => ~HasType(q, types))
         => AtMostOne(r, types)
  BY <1>1 DEF AtMostOne, HasType
<1> QED
  BY <1>2, <1>3, <1>4 DEF r

\* What MessagePlugin leaves in a queue.
LEMMA MessagePluginHas ==
    ASSUME NEW q \in Seq(Message), NEW p, NEW m \in Message, NEW types
    PROVE  /\ HasType(q, types) => HasType(MessagePlugin(q, p, m), types)
           /\ HasType(MessagePlugin(q, p, m), types)
                 => HasType(q, types) \/ m.type \in types
           /\ HasTarget(MessagePlugin(q, p, m)) => HasTarget(q) \/ m.target
           /\ AtMostOne(q, types) /\ (m.type \in types => ~HasType(q, types))
                 => AtMostOne(MessagePlugin(q, p, m), types)
BY AppendHas DEF MessagePlugin

\* A queue that has aged has the messages that it had.
LEMMA AgedHas ==
    ASSUME NEW q \in Seq(Message), NEW s \in Nat, NEW types
    PROVE  /\ HasType(Aged(q, s), types) <=> HasType(q, types)
           /\ HasTarget(Aged(q, s)) <=> HasTarget(q)
           /\ AtMostOne(q, types) => AtMostOne(Aged(q, s), types)
<1> DEFINE r == Aged(q, s)
<1>1. ASSUME NEW i \in DOMAIN q
      PROVE  r[i].type = q[i].type /\ r[i].target = q[i].target
  <2>1. q[i] \in Message
    OBVIOUS
  <2>2. r[i] = [q[i] EXCEPT !.when = Earlier(@, s)]
    BY DEF Aged
  <2> QED
    BY <2>1, <2>2 DEF Message
<1>2. DOMAIN r = DOMAIN q
  BY DEF Aged
<1> HIDE DEF r
<1>3. /\ HasType(r, types) <=> HasType(q, types)
      /\ HasTarget(r) <=> HasTarget(q)
      /\ AtMostOne(q, types) => AtMostOne(r, types)
  BY <1>1, <1>2 DEF HasType, HasTarget, AtMostOne
<1> QED
  BY <1>3 DEF r

\* Where the messages of a rotated queue come from.
LEMMA RotateIndex ==
    ASSUME NEW q \in Seq(Message), NEW i \in DOMAIN q
    PROVE  LET r == SubSeq(q, i + 1, Len(q)) \o SubSeq(q, 1, i - 1)
               n == Len(q) - i
               from(k) == IF k <= n THEN k + i ELSE k - n
           IN  /\ DOMAIN r = 1..(Len(q) - 1)
               /\ \A k \in DOMAIN r :
                     r[k] = q[from(k)] /\ from(k) \in DOMAIN q /\ from(k) # i
<1> DEFINE r == SubSeq(q, i + 1, Len(q)) \o SubSeq(q, 1, i - 1)
           n == Len(q) - i
           from(k) == IF k <= n THEN k + i ELSE k - n
<1>0. i \in 1..Len(q) /\ Len(q) \in Nat /\ n \in Nat /\ DOMAIN q = 1..Len(q)
  OBVIOUS
<1>1. /\ Len(SubSeq(q, i + 1, Len(q))) = n
      /\ Len(SubSeq(q, 1, i - 1)) = i - 1
      /\ \A k \in 1..n : SubSeq(q, i + 1, Len(q))[k] = q[k + i]
      /\ \A k \in 1..(i - 1) : SubSeq(q, 1, i - 1)[k] = q[k]
      /\ SubSeq(q, i + 1, Len(q)) \in Seq(Message)
      /\ SubSeq(q, 1, i - 1) \in Seq(Message)
  <2>1. /\ SubSeq(q, i + 1, Len(q)) \in Seq(Message)
        /\ SubSeq(q, 1, i - 1) \in Seq(Message)
    BY <1>0
  <2>2. /\ Len(SubSeq(q, i + 1, Len(q))) = n
        /\ Len(SubSeq(q, 1, i - 1)) = i - 1
    BY <1>0
  <2>3. \A k \in 1..n : SubSeq(q, i + 1, Len(q))[k] = q[k + i]
    BY <1>0
  <2>4. \A k \in 1..(i - 1) : SubSeq(q, 1, i - 1)[k] = q[k]
    BY <1>0
  <2> QED
    BY <2>1, <2>2, <2>3, <2>4
<1>2. DOMAIN r = 1..(Len(q) - 1)
  BY <1>0, <1>1
<1>3. ASSUME NEW k \in DOMAIN r
      PROVE  r[k] = q[from(k)] /\ from(k) \in DOMAIN q /\ from(k) # i
  <2> DEFINE a == SubSeq(q, i + 1, Len(q))
             b == SubSeq(q, 1, i - 1)
  <2>1. /\ r = a \o b /\ a \in Seq(Message) /\ b \in Seq(Message)
        /\ Len(a) = n /\ Len(b) = i - 1
        /\ \A x \in 1..n : a[x] = q[x + i]
        /\ \A x \in 1..(i - 1) : b[x] = q[x]
    BY <1>1
  <2>2. k \in 1..(n + (i - 1)) /\ n = Len(q) - i
    <3> HIDE DEF r
    <3> QED
      BY <1>0, <1>2
  <2> HIDE DEF a, b, n, r
  <2>3. r[k] = IF k <= n THEN a[k] ELSE b[k - n]
    <3>1. Len(a) + Len(b) = n + (i - 1)
      BY <1>0, <2>1
    <3>2. k \in 1..(Len(a) + Len(b))
      BY <2>2, <3>1
    <3>3. (a \o b)[k] = IF k <= Len(a) THEN a[k] ELSE b[k - Len(a)]
      BY <2>1, <3>2
    <3> QED
      BY <2>1, <3>3
  <2>4. CASE k <= n
    <3>1. k \in 1..n
      BY <1>0, <2>2, <2>4
    <3>2. r[k] = q[k + i]
      BY <2>1, <2>3, <2>4, <3>1
    <3> QED
      BY <1>0, <2>2, <2>4, <3>1, <3>2
  <2>5. CASE ~(k <= n)
    <3>1. k - n \in 1..(i - 1)
      BY <1>0, <2>2, <2>5
    <3>2. r[k] = q[k - n]
      BY <2>1, <2>3, <2>5, <3>1
    <3> QED
      BY <1>0, <2>5, <3>1, <3>2
  <2> QED
    BY <2>4, <2>5
<1> QED
  BY <1>2, <1>3

\* What PopMessage leaves behind: the other messages, each at a place of its own.
LEMMA RotateHas ==
    ASSUME NEW q \in Seq(Message), NEW i \in DOMAIN q, NEW types
    PROVE  LET r == SubSeq(q, i + 1, Len(q)) \o SubSeq(q, 1, i - 1)
           IN  /\ HasType(q, types) => q[i].type \in types \/ HasType(r, types)
               /\ HasType(r, types) => HasType(q, types)
               /\ HasTarget(r) => HasTarget(q)
               /\ AtMostOne(q, types) => /\ AtMostOne(r, types)
                                         /\ q[i].type \in types => ~HasType(r, types)
<1> DEFINE r == SubSeq(q, i + 1, Len(q)) \o SubSeq(q, 1, i - 1)
           n == Len(q) - i
           from(k) == IF k <= n THEN k + i ELSE k - n
           to(j) == IF j > i THEN j - i ELSE j + n
<1>0. i \in 1..Len(q) /\ Len(q) \in Nat /\ n \in Nat /\ DOMAIN q = 1..Len(q)
  OBVIOUS
<1>2. DOMAIN r = 1..(Len(q) - 1)
  BY RotateIndex
<1>3. ASSUME NEW k \in DOMAIN r
      PROVE  r[k] = q[from(k)] /\ from(k) \in DOMAIN q /\ from(k) # i
  BY RotateIndex
<1>4. ASSUME NEW j \in DOMAIN q, j # i
      PROVE  to(j) \in DOMAIN r /\ r[to(j)] = q[j]
  <2>1. to(j) \in 1..(Len(q) - 1) /\ from(to(j)) = j
    BY <1>0, <1>4
  <2>2. to(j) \in DOMAIN r
    BY <1>2, <2>1
  <2> HIDE DEF to, from, r
  <2>3. r[to(j)] = q[from(to(j))]
    BY <1>3, <2>2
  <2> QED
    BY <2>1, <2>2, <2>3
<1>5. \A k, l \in DOMAIN r : from(k) = from(l) => k = l
  <2> SUFFICES ASSUME NEW k \in 1..(Len(q) - 1), NEW l \in 1..(Len(q) - 1),
                      from(k) = from(l)
               PROVE  k = l
    BY <1>2
  <2>1. n \in Int /\ n = Len(q) - i
    BY <1>0
  <2> HIDE DEF r, n
  <2>2. CASE k <= n /\ l <= n
    BY <1>0, <2>1, <2>2
  <2>3. CASE k > n /\ l > n
    BY <1>0, <2>1, <2>3
  <2>4. CASE k <= n /\ l > n
    BY <1>0, <2>1, <2>4
  <2>5. CASE k > n /\ l <= n
    BY <1>0, <2>1, <2>5
  <2> QED
    BY <1>0, <2>1, <2>2, <2>3, <2>4, <2>5
<1> HIDE DEF r, from, to, n
<1>6. HasType(q, types) => q[i].type \in types \/ HasType(r, types)
  BY <1>4 DEF HasType
<1>7. (HasType(r, types) => HasType(q, types)) /\ (HasTarget(r) => HasTarget(q))
  BY <1>3 DEF HasType, HasTarget
<1>8. AtMostOne(q, types) => /\ AtMostOne(r, types)
                             /\ q[i].type \in types => ~HasType(r, types)
  BY <1>3, <1>5 DEF AtMostOne, HasType
<1> QED
  BY <1>6, <1>7, <1>8 DEF r

-----------------------------------------------------------------------------
(* Whom a step concerns: a worker's step one plugin and no thread, a        *)
(* thread's step that thread and the object it holds.                       *)

PluginKept(p) ==
    /\ wpc'[p] = wpc[p] /\ msg'[p] = msg[p]
    /\ m_MessageQueue'[p] = m_MessageQueue[p]
    /\ m_bIsStarted'[p] = m_bIsStarted[p]
    /\ m_bIsStarting'[p] = m_bIsStarting[p]
    /\ m_bIsStopping'[p] = m_bIsStopping[p]
    /\ m_PyInterpreter'[p] = m_PyInterpreter[p]
    /\ m_Interface'[p] = m_Interface[p]
    /\ m_exitSignal'[p] = m_exitSignal[p]
    /\ stopTime'[p] = stopTime[p]
    /\ onStopHandled'[p] = onStopHandled[p]

ThreadKept(t) ==
    /\ thr'[t].pc = thr[t].pc
    /\ thr'[t].plugin = thr[t].plugin
    /\ thr'[t].held.type = thr[t].held.type
    /\ thr'[t].held.target = thr[t].held.target

AllKept == (\A p \in Plugin : PluginKept(p)) /\ (\A t \in Thread : ThreadKept(t))

\* A step that only ends the process, the clock's, the database's and a stutter.
LEMMA AllKeptBy ==
    /\ \A how : Dies(how) => AllKept
    /\ Tick => AllKept
    /\ DatabaseStep => AllKept
    /\ UNCHANGED vars => AllKept
<1> USE DEF AllKept, PluginKept, ThreadKept, flags, python, clocks, objects, worker
<1>1. ASSUME NEW how, Dies(how) PROVE AllKept
  BY <1>1 DEF Dies
<1>2. ASSUME Tick PROVE AllKept
  BY <1>2 DEF Tick
<1>3. ASSUME DatabaseStep PROVE AllKept
  BY <1>3 DEF DatabaseStep, InsertRow, UpdateRow, DeleteRow, WriteRow
<1>4. ASSUME UNCHANGED vars PROVE AllKept
  BY <1>4 DEF vars
<1> QED
  BY <1>1, <1>2, <1>3, <1>4

\* A worker changes its own plugin; to the threads it only lets time pass.
LEMMA WorkerFrame ==
    ASSUME TypeOK, NEW p \in Plugin, WorkerStep(p)
    PROVE  /\ \A q \in Plugin \ {p} : PluginKept(q)
           /\ \A t \in Thread : ThreadKept(t)
<1> USE DEF PluginKept, flags, python, clocks, objects, worker
<1>1. CASE \E how : Dies(how)
  BY <1>1, AllKeptBy DEF AllKept
<1>2. CASE OuterLoop(p)
  <2>1. ASSUME NEW t \in Thread PROVE ThreadKept(t)
    <3> DEFINE aged == [thr[t] EXCEPT !.held.when = Earlier(@, lag[p])]
    <3>1. thr'[t] = thr[t] \/ thr'[t] = aged
      BY <1>2 DEF OuterLoop
    <3>2. thr[t] \in ThreadState
      BY DEF TypeOK
    <3>3. /\ aged.pc = thr[t].pc /\ aged.plugin = thr[t].plugin
          /\ aged.held.type = thr[t].held.type
          /\ aged.held.target = thr[t].held.target
      BY <3>2 DEF ThreadState, Message, NoMessage
    <3> HIDE DEF aged
    <3> QED
      BY <3>1, <3>3 DEF ThreadKept
  <2>2. \A q \in Plugin \ {p} : PluginKept(q)
    BY <1>2 DEF OuterLoop, TypeOK
  <2> QED
    BY <2>1, <2>2
<1>3. CASE PopMessage(p) \/ DropMessage(p) \/ RunCallback(p)
  <2>1. CASE PopMessage(p)
    BY <2>1 DEF PopMessage, ThreadKept, TypeOK
  <2>2. CASE DropMessage(p)
    BY <2>2 DEF DropMessage, ThreadKept, TypeOK
  <2>3. CASE RunCallback(p)
    BY <2>3 DEF RunCallback, ThreadKept, TypeOK
  <2> QED
    BY <1>3, <2>1, <2>2, <2>3
<1>4. CASE InitialiseQuery(p)
  BY <1>1, <1>4 DEF InitialiseQuery, StopDies, StopPython, ThreadKept, TypeOK
<1>5. CASE InitialiseLoads(p)
  BY <1>5 DEF InitialiseLoads, ThreadKept, TypeOK
<1>6. CASE InitialiseFails(p)
  BY <1>1, <1>6 DEF InitialiseFails, StopDies, StopPython, ThreadKept, TypeOK
<1>7. CASE StartSucceeds(p) \/ StartFails(p)
  <2>1. CASE StartSucceeds(p)
    BY <2>1 DEF StartSucceeds, ThreadKept, TypeOK
  <2>2. CASE StartFails(p)
    BY <2>2 DEF StartFails, ThreadKept, TypeOK
  <2> QED
    BY <1>7, <2>1, <2>2
<1>8. CASE RunStop(p) \/ StopCheck(p) \/ HeartbeatCheck(p)
  <2>1. CASE RunStop(p)
    BY <2>1 DEF RunStop, ThreadKept, TypeOK
  <2>2. CASE StopCheck(p)
    BY <2>2 DEF StopCheck, NextLoop, ThreadKept, TypeOK
  <2>3. CASE HeartbeatCheck(p)
    BY <2>3 DEF HeartbeatCheck, NextLoop, ThreadKept, TypeOK
  <2> QED
    BY <1>8, <2>1, <2>2, <2>3
<1>9. CASE FinaliseStop(p)
  BY <1>1, <1>9
     DEF FinaliseStop, StopDies, StopPython, LoopVariables, ThreadKept, TypeOK
<1>10. CASE DeregisterPlugin(p)
  BY <1>10 DEF DeregisterPlugin, ThreadKept, TypeOK
<1> QED
  BY <1>2, <1>3, <1>4, <1>5, <1>6, <1>7, <1>8, <1>9, <1>10 DEF WorkerStep

\* The functions that hold a pointer to an object change that object only.
LEMMA CallerFrame ==
    ASSUME TypeOK, NEW t \in Thread, CallerStep(t)
    PROVE  /\ \A q \in Plugin : q # thr[t].plugin => PluginKept(q)
           /\ \A u \in Thread \ {t} : ThreadKept(u)
<1> USE DEF PluginKept, ThreadKept, flags, python, clocks, objects, worker
<1>1. CASE Find(t)
  BY <1>1, AllKeptBy DEF Find, Found, AllKept, TypeOK
<1>2. CASE StartHardware(t)
  BY <1>2 DEF StartHardware, TypeOK
<1>3. CASE SpawnWorker(t)
  BY <1>3 DEF SpawnWorker, LoopVariables, TypeOK
<1>4. CASE PushInitialize(t) \/ StartReturns(t)
  BY <1>4 DEF PushInitialize, StartReturns, TypeOK
<1>5. CASE StopHardware(t) \/ IfStarted(t) \/ BuildStop(t) \/ PushStop(t)
  BY <1>5 DEF StopHardware, IfStarted, BuildStop, PushStop, TypeOK
<1>6. CASE SetStopping(t) \/ StopReturns(t)
  BY <1>6 DEF SetStopping, StopReturns, TypeOK
<1> QED
  BY <1>1, <1>2, <1>3, <1>4, <1>5, <1>6 DEF CallerStep

-----------------------------------------------------------------------------
(* Why a worker that leaves Do_Work has run onStop. The exit signal, the    *)
(* stop time and m_bIsStopping each stand for an onStop that is handled, or *)
(* still queued or in hand; the exception is a plugin that is dead: it has  *)
(* no interpreter, and since m_bIsStarting is clear it never gets another.  *)

Dead(p) == ~m_bIsStarting[p] /\ ~m_PyInterpreter[p]

StopAssured(p) == onStopHandled[p] \/ Dead(p)

StopInHand(p) == wpc[p] = "process" /\ msg[p].type = "onStop"

StopUnderway(p) == StopAssured(p) \/ QueuedStop(p) \/ StopInHand(p)

StopAtPlugin(p) ==
    /\ m_exitSignal[p] => wpc[p] # "none" /\ StopAssured(p)
    /\ stopTime[p] # NotSet => onStopHandled[p]
    /\ m_bIsStopping[p] => wpc[p] # "none" /\ StopUnderway(p)
    /\ m_bIsStarted[p] => wpc[p] # "none"
    /\ wpc[p] = "load" => ~Dead(p)

StopAtThread(t) ==
    LET p == thr[t].plugin
    IN  /\ thr[t].pc = "pushStop" => thr[t].held.type = "onStop"
        /\ thr[t].pc = "setStopping" => StopUnderway(p)
        /\ thr[t].pc \in {"initialize", "started", "buildStop", "pushStop",
                          "setStopping"} => wpc[p] # "none"
        /\ thr[t].pc = "pushUpdate" => thr[t].held.type = "onUpdate"

StopInv ==
    /\ \A p \in Plugin : StopAtPlugin(p)
    /\ \A t \in Thread : StopAtThread(t)

\* What no step takes from a plugin whose worker has begun.
StopGoesOn(p) ==
    wpc[p] # "none" =>
        /\ wpc'[p] # "none"
        /\ StopAssured(p) => StopAssured(p)'
        /\ StopUnderway(p) => StopUnderway(p)'
        /\ m_bIsStarting'[p] => m_bIsStarting[p]

\* A plugin that a step does not touch.
LEMMA KeptStops ==
    ASSUME NEW p, PluginKept(p), StopAtPlugin(p)
    PROVE  StopAtPlugin(p)' /\ StopGoesOn(p)
BY DEF PluginKept, StopAtPlugin, StopGoesOn, StopAssured, StopUnderway,
       StopInHand, Dead, QueuedStop

\* A thread that a step leaves where it is.
LEMMA KeptThreadStops ==
    ASSUME TypeOK, NEW t \in Thread, ThreadKept(t), StopAtThread(t),
           \A p \in Plugin : StopGoesOn(p)
    PROVE  StopAtThread(t)'
<1>1. CASE thr[t].pc \in NoObjectPC
  BY <1>1 DEF ThreadKept, StopAtThread, NoObjectPC
<1>2. CASE thr[t].pc \notin NoObjectPC
  <2> DEFINE p == thr[t].plugin
  <2>1. p \in Plugin
    BY <1>2 DEF TypeOK, ThreadState
  <2>2. StopGoesOn(p) /\ thr'[t].plugin = p
    BY <2>1 DEF ThreadKept
  <2> QED
    BY <2>2 DEF ThreadKept, StopAtThread, StopGoesOn
<1> QED
  BY <1>1, <1>2

\* A step of one worker.
LEMMA WorkerStops ==
    ASSUME TypeOK, StopInv, NEW p \in Plugin, WorkerStep(p),
           StopAtPlugin(p)', StopGoesOn(p)
    PROVE  StopInv'
<1>1. \A q \in Plugin : StopAtPlugin(q)' /\ StopGoesOn(q)
  BY WorkerFrame, KeptStops DEF StopInv
<1>2. \A t \in Thread : StopAtThread(t)'
  BY <1>1, WorkerFrame, KeptThreadStops DEF StopInv
<1> QED
  BY <1>1, <1>2 DEF StopInv

\* A step that changes no plugin and at most one thread.
LEMMA ThreadStops ==
    ASSUME TypeOK, StopInv, NEW t \in Thread,
           \A p \in Plugin : PluginKept(p),
           \A u \in Thread \ {t} : ThreadKept(u),
           StopAtThread(t)'
    PROVE  StopInv'
<1>1. \A q \in Plugin : StopAtPlugin(q)' /\ StopGoesOn(q)
  BY KeptStops DEF StopInv
<1>2. \A u \in Thread : StopAtThread(u)'
  BY <1>1, KeptThreadStops DEF StopInv
<1> QED
  BY <1>1, <1>2 DEF StopInv

\* A step of a thread that holds an object.
LEMMA CallerStops ==
    ASSUME TypeOK, StopInv, NEW t \in Thread, CallerStep(t),
           \A p \in Plugin : p = thr[t].plugin => StopAtPlugin(p)' /\ StopGoesOn(p),
           StopAtThread(t)'
    PROVE  StopInv'
<1>1. ASSUME NEW q \in Plugin PROVE StopAtPlugin(q)' /\ StopGoesOn(q)
  <2>1. CASE q = thr[t].plugin
    BY <2>1
  <2>2. CASE q # thr[t].plugin
    <3>1. PluginKept(q) /\ StopAtPlugin(q)
      BY <2>2, CallerFrame DEF StopInv
    <3> QED
      BY <3>1, KeptStops
  <2> QED
    BY <2>1, <2>2
<1>2. \A u \in Thread : StopAtThread(u)'
  BY <1>1, CallerFrame, KeptThreadStops DEF StopInv
<1> QED
  BY <1>1, <1>2 DEF StopInv

\* Nothing has been stopped at first.
LEMMA InitStops == Init => StopInv
<1> SUFFICES ASSUME Init PROVE StopInv
  OBVIOUS
<1>1. \A p \in Plugin : StopAtPlugin(p)
  BY DEF Init, StopAtPlugin, QueuedStop
<1>2. \A t \in Thread : thr[t].pc \in {"idle", "boot"}
  <2>1. /\ Idle.pc = "idle"
        /\ \A p : Boot(p).pc = "boot"
    BY DEF Idle, Boot
  <2>2. \A t \in Thread : thr[t] = Idle \/ \E p : thr[t] = Boot(p)
    BY DEF Init
  <2> QED
    BY <2>1, <2>2
<1>3. \A t \in Thread : StopAtThread(t)
  BY <1>2 DEF StopAtThread
<1> QED
  BY <1>1, <1>3 DEF StopInv

\* The queue of a plugin, before a step and after it, as the lemmas see it.
LEMMA QueuedStopHas ==
    ASSUME NEW p
    PROVE  /\ QueuedStop(p) <=> HasType(m_MessageQueue[p], {"onStop"})
           /\ QueuedStop(p)' <=> HasType(m_MessageQueue'[p], {"onStop"})
BY DEF QueuedStop, HasType

\* The worker runs the plugin's messages, and only then asks itself to stop.
LEMMA WorkerStepStops ==
    ASSUME TypeOK, RegistryInv, StopInv, NEW p \in Plugin, WorkerStep(p)
    PROVE  StopInv'
<1> USE DEF StopGoesOn, StopAtPlugin, StopUnderway, StopAssured, StopInHand, Dead,
            flags, python, clocks, objects, worker
<1> DEFINE Has(q) == HasType(q, {"onStop"})
<1> HIDE DEF Has
<1>h. /\ QueuedStop(p) <=> Has(m_MessageQueue[p])
      /\ QueuedStop(p)' <=> Has(m_MessageQueue'[p])
  BY QueuedStopHas DEF Has
<1>t. /\ m_MessageQueue[p] \in Seq(Message)
      /\ lag[p] \in Nat
      /\ m_Interface[p] \in BOOLEAN
      /\ \A m : Has(MessagePlugin(m_MessageQueue[p], p, m))
                   <=> HasType(MessagePlugin(m_MessageQueue[p], p, m), {"onStop"})
  BY DEF TypeOK, Has
<1>d. ASSUME NEW how, Dies(how) PROVE StopInv'
  <2>1. AllKept
    BY <1>d, AllKeptBy
  <2>2. PluginKept(p) /\ StopAtPlugin(p)
    BY <2>1 DEF AllKept, StopInv
  <2> QED
    BY <2>2, KeptStops, WorkerStops
<1>s. StopAtPlugin(p)
  BY DEF StopInv
<1> SUFFICES ASSUME ~\E how : Dies(how)
             PROVE  StopAtPlugin(p)' /\ StopGoesOn(p)
  BY <1>d, WorkerStops
<1> HIDE DEF StopInv
<1>1. CASE OuterLoop(p)
  <2>1. Has(m_MessageQueue'[p]) <=> Has(m_MessageQueue[p])
    <3>1. \/ m_MessageQueue' = m_MessageQueue
          \/ m_MessageQueue'[p] = Aged(m_MessageQueue[p], lag[p])
      BY <1>1 DEF OuterLoop, TypeOK
    <3> QED
      BY <1>t, <3>1, AgedHas DEF Has
  <2>2. stopTime'[p] # NotSet => stopTime[p] # NotSet
    BY <1>1 DEF OuterLoop, TypeOK
  <2> QED
    BY <1>1, <1>h, <1>s, <2>1, <2>2 DEF OuterLoop, WorkerAt, TypeOK
<1>2. CASE PopMessage(p)
  <2>1. /\ Has(m_MessageQueue'[p]) => Has(m_MessageQueue[p])
        /\ Has(m_MessageQueue[p]) =>
              \/ Has(m_MessageQueue'[p])
              \/ wpc'[p] = "process" /\ msg'[p].type = "onStop"
    <3> DEFINE q == m_MessageQueue[p]
    <3>1. CASE UNCHANGED m_MessageQueue
      BY <3>1
    <3>2. ASSUME NEW i \in DOMAIN q,
                 msg' = [msg EXCEPT ![p] = q[i]],
                 m_MessageQueue' = [m_MessageQueue EXCEPT ![p] =
                     SubSeq(q, i + 1, Len(q)) \o SubSeq(q, 1, i - 1)],
                 wpc' = [wpc EXCEPT ![p] = "process"]
          PROVE  /\ Has(m_MessageQueue'[p]) => Has(q)
                 /\ Has(q) => \/ Has(m_MessageQueue'[p])
                              \/ wpc'[p] = "process" /\ msg'[p].type = "onStop"
      <4>1. /\ m_MessageQueue'[p] = SubSeq(q, i + 1, Len(q)) \o SubSeq(q, 1, i - 1)
            /\ msg'[p] = q[i] /\ wpc'[p] = "process"
        BY <3>2 DEF TypeOK
      <4>2. /\ Has(q) => q[i].type = "onStop" \/ Has(m_MessageQueue'[p])
            /\ Has(m_MessageQueue'[p]) => Has(q)
        BY <1>t, <4>1, RotateHas DEF Has
      <4> QED
        BY <4>1, <4>2
    <3> QED
      BY <1>2, <3>1, <3>2 DEF PopMessage
  <2> QED
    BY <1>2, <1>h, <1>s, <2>1 DEF PopMessage, WorkerAt, TypeOK
<1>3. CASE DropMessage(p) \/ RunCallback(p)
  BY <1>3, <1>h, <1>s DEF DropMessage, RunCallback, Processing, WorkerAt, TypeOK
<1>4. CASE InitialiseQuery(p)
  BY <1>4, <1>h, <1>s
     DEF InitialiseQuery, StopDies, StopPython, Processing, WorkerAt, TypeOK
<1>5. CASE InitialiseLoads(p)
  <2>1. Has(m_MessageQueue'[p]) <=> Has(m_MessageQueue[p])
    <3> DEFINE m == NewMessage("onStart", FALSE)
    <3>1. m \in Message
      BY NewMessageType DEF MessageType
    <3>2. m.type = "onStart"
      BY DEF NewMessage
    <3> HIDE DEF m
    <3>3. m_MessageQueue'[p] = MessagePlugin(m_MessageQueue[p], p, m)
      BY <1>5 DEF InitialiseLoads, TypeOK, m
    <3> QED
      BY <1>t, <3>1, <3>2, <3>3, MessagePluginHas DEF Has
  <2> QED
    BY <1>5, <1>h, <1>s, <2>1 DEF InitialiseLoads, WorkerAt, TypeOK
<1>6. CASE InitialiseFails(p)
  BY <1>6, <1>h, <1>s DEF InitialiseFails, StopDies, StopPython, WorkerAt, TypeOK
<1>7. CASE StartSucceeds(p)
  BY <1>7, <1>h, <1>s DEF StartSucceeds, Processing, WorkerAt, TypeOK
<1>8. CASE StartFails(p)
  <2>1. Has(m_MessageQueue'[p]) <=> Has(m_MessageQueue[p])
    <3> DEFINE m == NewMessage("Initialize", FALSE)
    <3>1. m \in Message
      BY NewMessageType DEF MessageType
    <3>2. m.type = "Initialize"
      BY DEF NewMessage
    <3> HIDE DEF m
    <3>3. m_MessageQueue'[p] = MessagePlugin(m_MessageQueue[p], p, m)
      BY <1>8 DEF StartFails, TypeOK, m
    <3> QED
      BY <1>t, <3>1, <3>2, <3>3, MessagePluginHas DEF Has
  <2> QED
    BY <1>8, <1>h, <1>s, <2>1 DEF StartFails, Processing, WorkerAt, TypeOK
<1>9. CASE RunStop(p)
  BY <1>9, <1>h, <1>s DEF RunStop, Processing, WorkerAt, TypeOK
<1>10. CASE StopCheck(p)
  <2>1. m_MessageQueue[p] = << >> => ~QueuedStop(p)
    BY DEF QueuedStop
  <2> QED
    BY <1>10, <1>h, <1>s, <2>1 DEF StopCheck, NextLoop, WorkerAt, TypeOK
<1>11. CASE HeartbeatCheck(p)
  <2>1. Has(m_MessageQueue'[p]) <=> Has(m_MessageQueue[p])
    <3> DEFINE m == NewMessage("onHeartbeat", m_Interface[p])
    <3>1. m \in Message
      BY <1>t, NewMessageType DEF MessageType
    <3>2. m.type = "onHeartbeat"
      BY DEF NewMessage
    <3> HIDE DEF m
    <3>3. \/ m_MessageQueue'[p] = m_MessageQueue[p]
          \/ m_MessageQueue'[p] = MessagePlugin(m_MessageQueue[p], p, m)
      BY <1>11 DEF HeartbeatCheck, TypeOK, m
    <3> QED
      BY <1>t, <3>1, <3>2, <3>3, MessagePluginHas DEF Has
  <2> QED
    BY <1>11, <1>h, <1>s, <2>1 DEF HeartbeatCheck, NextLoop, WorkerAt, TypeOK
<1>12. CASE FinaliseStop(p)
  BY <1>12, <1>h, <1>s
     DEF FinaliseStop, StopDies, StopPython, LoopVariables, WorkerAt, TypeOK
<1>13. CASE DeregisterPlugin(p)
  BY <1>13, <1>h, <1>s DEF DeregisterPlugin, WorkerAt, TypeOK
<1> QED
  BY <1>1, <1>2, <1>3, <1>4, <1>5, <1>6, <1>7, <1>8, <1>9, <1>10, <1>11, <1>12,
     <1>13 DEF WorkerStep

\* A thread stops what has started, and m_bIsStopping follows onStop.
LEMMA CallerStepStops ==
    ASSUME TypeOK, RegistryInv, StopInv, NEW t \in Thread, CallerStep(t)
    PROVE  StopInv'
<1> USE DEF StopGoesOn, StopAtPlugin, StopUnderway, StopAssured, StopInHand, Dead,
            flags, python, clocks, objects, worker
<1> DEFINE Has(q) == HasType(q, {"onStop"})
<1> HIDE DEF Has
<1>h. ASSUME NEW p
      PROVE  /\ QueuedStop(p) <=> Has(m_MessageQueue[p])
             /\ QueuedStop(p)' <=> Has(m_MessageQueue'[p])
  BY QueuedStopHas DEF Has
<1>t. /\ thr \in [Thread -> ThreadState]
      /\ thr[t] \in ThreadState
      /\ thr[t].pc \notin NoObjectPC => thr[t].plugin \in Plugin
  BY DEF TypeOK, ThreadState
<1>s. /\ \A p \in Plugin : StopAtPlugin(p)
      /\ StopAtThread(t)
  BY DEF StopInv
<1>k. ASSUME \A p \in Plugin : PluginKept(p), StopAtThread(t)'
      PROVE  StopInv'
  BY <1>k, CallerFrame, ThreadStops
<1>1. CASE Find(t)
  <2>1. CASE Dies("undefined")
    <3>1. AllKept
      BY <2>1, AllKeptBy
    <3>2. thr' = thr /\ thr[t].pc = "find"
      BY <1>1, <2>1 DEF Find, CallerAt, Dies
    <3> QED
      BY <1>k, <3>1, <3>2 DEF AllKept, StopAtThread
  <2>2. CASE Found(t, thr[t].call, m_pPlugins)
    <3>1. \A p \in Plugin : PluginKept(p)
      BY <2>2 DEF Found, PluginKept
    <3>2. /\ thr'[t].pc \in {"idle", "StopHardware", "pushUpdate"}
          /\ thr'[t].pc = "pushUpdate" => thr'[t].held.type = "onUpdate"
      BY <1>t, <2>2 DEF Found, Idle, ThreadState, NewMessage
    <3>3. StopAtThread(t)'
      BY <3>2 DEF StopAtThread
    <3> QED
      BY <1>k, <3>1, <3>3
  <2> QED
    BY <1>1, <2>1, <2>2 DEF Find
<1>2. ASSUME NEW p \in Plugin, p = thr[t].plugin, StartHardware(t) PROVE StopInv'
  <2>1. wpc[p] = "none"
    BY <1>2 DEF RegistryInv, StarterOwnsEntry, StartHardware, CallerAt, StartingPC
  <2>2. ~QueuedStop(p)'
    BY <1>2 DEF StartHardware, QueuedStop, TypeOK
  <2>3. StopAtPlugin(p)' /\ StopGoesOn(p)
    BY <1>2, <1>s, <2>1, <2>2 DEF StartHardware, TypeOK
  <2>4. thr'[t].pc = "spawn"
    BY <1>2, <1>t DEF StartHardware
  <2>5. StopAtThread(t)'
    BY <2>4 DEF StopAtThread
  <2> QED
    BY <1>2, <2>3, <2>5, CallerStops
<1>3. ASSUME NEW p \in Plugin, p = thr[t].plugin, SpawnWorker(t) PROVE StopInv'
  <2>1. wpc[p] = "none"
    BY <1>3 DEF RegistryInv, StarterOwnsEntry, SpawnWorker, CallerAt, StartingPC
  <2>2. /\ wpc'[p] = "outer" /\ stopTime'[p] = NotSet
        /\ QueuedStop(p)' <=> QueuedStop(p)
    BY <1>3 DEF SpawnWorker, LoopVariables, QueuedStop, TypeOK
  <2>3. StopAtPlugin(p)' /\ StopGoesOn(p)
    BY <1>3, <1>s, <2>1, <2>2 DEF SpawnWorker
  <2>4. thr'[t].pc = "initialize" /\ thr'[t].plugin = p
    BY <1>3, <1>t DEF SpawnWorker
  <2>5. StopAtThread(t)'
    BY <2>2, <2>4 DEF StopAtThread
  <2> QED
    BY <1>3, <2>3, <2>5, CallerStops
<1>4. ASSUME NEW p \in Plugin, p = thr[t].plugin, PushInitialize(t) PROVE StopInv'
  <2> DEFINE m == NewMessage("Initialize", FALSE)
  <2>1. m \in Message /\ m.type = "Initialize"
    BY NewMessageType DEF MessageType, NewMessage
  <2> HIDE DEF m
  <2>2. m_MessageQueue'[p] = MessagePlugin(m_MessageQueue[p], p, m)
    BY <1>4 DEF PushInitialize, TypeOK, m
  <2>3. m_MessageQueue[p] \in Seq(Message)
    BY DEF TypeOK
  <2>4. Has(m_MessageQueue'[p]) <=> Has(m_MessageQueue[p])
    BY <2>1, <2>2, <2>3, MessagePluginHas DEF Has
  <2>5. StopAtPlugin(p)' /\ StopGoesOn(p)
    BY <1>4, <1>h, <1>s, <2>4 DEF PushInitialize
  <2>6. thr'[t].pc = "started" /\ thr'[t].plugin = p /\ wpc'[p] # "none"
    BY <1>4, <1>s, <1>t DEF PushInitialize, CallerAt, StopAtThread
  <2>7. StopAtThread(t)'
    BY <2>6 DEF StopAtThread
  <2> QED
    BY <1>4, <2>5, <2>7, CallerStops
<1>5. ASSUME NEW p \in Plugin, p = thr[t].plugin, StartReturns(t) PROVE StopInv'
  <2>1. wpc[p] # "none"
    BY <1>5, <1>s DEF StartReturns, CallerAt, StopAtThread
  <2>2. StopAtPlugin(p)' /\ StopGoesOn(p)
    BY <1>5, <1>h, <1>s, <2>1 DEF StartReturns
  <2>3. thr'[t].pc = "idle"
    BY <1>5, <1>t DEF StartReturns, Idle
  <2>4. StopAtThread(t)'
    BY <2>3 DEF StopAtThread
  <2> QED
    BY <1>5, <2>2, <2>4, CallerStops
<1>6. ASSUME NEW p \in Plugin, p = thr[t].plugin,
             StopHardware(t) \/ IfStarted(t) \/ BuildStop(t)
      PROVE  StopInv'
  <2>1. \A q \in Plugin : PluginKept(q)
    BY <1>6 DEF StopHardware, IfStarted, BuildStop, PluginKept
  <2>2. /\ UNCHANGED <<m_bIsStarting, m_PyInterpreter, wpc, onStopHandled>>
        /\ thr[t].pc = "buildStop" => wpc[p] # "none"
    BY <1>6, <1>s DEF StopHardware, IfStarted, BuildStop, StopAtThread
  <2>3. \/ thr'[t] = Returned(thr[t])
        \/ thr'[t] = [thr[t] EXCEPT !.pc = "ifStarted"]
        \/ m_bIsStarted[p] /\ thr'[t] = [thr[t] EXCEPT !.pc = "buildStop"]
        \/ /\ thr[t].pc = "buildStop" /\ m_exitSignal[p]
           /\ thr'[t] = [thr[t] EXCEPT !.pc = "setStopping"]
        \/ /\ thr[t].pc = "buildStop"
           /\ thr'[t] = [thr[t] EXCEPT !.pc = "pushStop", !.held = onStopCallback(p)]
    BY <1>6, <1>t DEF StopHardware, IfStarted, BuildStop, CallerAt
  <2>4. StopAtThread(t)'
    <3>1. CASE thr'[t] = Returned(thr[t])
      <4>1. thr'[t].pc \in {"idle", "stopped"}
        BY <1>t, <3>1 DEF Returned, Idle, ThreadState
      <4> QED
        BY <4>1 DEF StopAtThread
    <3>2. CASE thr'[t] = [thr[t] EXCEPT !.pc = "ifStarted"]
      <4>1. thr'[t].pc = "ifStarted"
        BY <1>t, <3>2 DEF ThreadState
      <4> QED
        BY <4>1 DEF StopAtThread
    <3>3. CASE m_bIsStarted[p] /\ thr'[t] = [thr[t] EXCEPT !.pc = "buildStop"]
      <4>1. thr'[t].pc = "buildStop" /\ thr'[t].plugin = p
        BY <1>6, <1>t, <3>3 DEF ThreadState
      <4>2. wpc'[p] # "none"
        BY <1>s, <2>2, <3>3
      <4> QED
        BY <4>1, <4>2 DEF StopAtThread
    <3>4. CASE /\ thr[t].pc = "buildStop" /\ m_exitSignal[p]
               /\ thr'[t] = [thr[t] EXCEPT !.pc = "setStopping"]
      <4>1. thr'[t].pc = "setStopping" /\ thr'[t].plugin = p
        BY <1>6, <1>t, <3>4 DEF ThreadState
      <4>2. wpc[p] # "none" /\ StopAssured(p)
        BY <1>s, <3>4
      <4> QED
        BY <2>2, <4>1, <4>2 DEF StopAtThread
    <3>5. CASE /\ thr[t].pc = "buildStop"
               /\ thr'[t] = [thr[t] EXCEPT !.pc = "pushStop",
                                           !.held = onStopCallback(p)]
      <4>1. /\ thr'[t].pc = "pushStop" /\ thr'[t].plugin = p
            /\ thr'[t].held.type = "onStop"
        BY <1>6, <1>t, <3>5 DEF ThreadState, onStopCallback
      <4> QED
        BY <2>2, <3>5, <4>1 DEF StopAtThread
    <3> QED
      BY <2>3, <3>1, <3>2, <3>3, <3>4, <3>5
  <2> QED
    BY <1>k, <2>1, <2>4
<1>7. ASSUME NEW p \in Plugin, p = thr[t].plugin, PushStop(t) PROVE StopInv'
  <2> DEFINE m == thr[t].held
  <2>1. m \in Message /\ m.type = "onStop" /\ wpc[p] # "none"
    BY <1>7, <1>s, <1>t
       DEF PushStop, CallerAt, StopAtThread, ThreadState, PushPC
  <2>2. m_MessageQueue'[p] = Append(m_MessageQueue[p], m)
    BY <1>7 DEF PushStop, TypeOK
  <2>3. m_MessageQueue[p] \in Seq(Message)
    BY DEF TypeOK
  <2> HIDE DEF m
  <2>4. Has(m_MessageQueue'[p])
    BY <2>1, <2>2, <2>3, AppendHas DEF Has
  <2>5. StopAtPlugin(p)' /\ StopGoesOn(p)
    BY <1>7, <1>h, <1>s, <2>1, <2>4 DEF PushStop
  <2>6. thr'[t].pc = "setStopping" /\ thr'[t].plugin = p /\ wpc'[p] # "none"
    BY <1>7, <1>t, <2>1 DEF PushStop, ThreadState
  <2>7. StopAtThread(t)'
    BY <1>h, <2>4, <2>6 DEF StopAtThread
  <2> QED
    BY <1>7, <2>5, <2>7, CallerStops
<1>8. ASSUME NEW p \in Plugin, p = thr[t].plugin, SetStopping(t) PROVE StopInv'
  <2>1. wpc[p] # "none" /\ StopUnderway(p)
    BY <1>8, <1>s DEF SetStopping, CallerAt, StopAtThread
  <2>2. StopAtPlugin(p)' /\ StopGoesOn(p)
    BY <1>8, <1>h, <1>s, <2>1 DEF SetStopping, TypeOK
  <2>3. thr'[t].pc \in {"idle", "stopped"}
    BY <1>8, <1>t DEF SetStopping, Returned, Idle, ThreadState
  <2>4. StopAtThread(t)'
    BY <2>3 DEF StopAtThread
  <2> QED
    BY <1>8, <2>2, <2>4, CallerStops
<1>9. ASSUME NEW p \in Plugin, p = thr[t].plugin, StopReturns(t) PROVE StopInv'
  <2>1. StopAtPlugin(p)' /\ StopGoesOn(p)
    BY <1>9, <1>h, <1>s DEF StopReturns, TypeOK
  <2>2. thr'[t].pc = "idle"
    BY <1>9, <1>t DEF StopReturns, Idle
  <2>3. StopAtThread(t)'
    BY <2>2 DEF StopAtThread
  <2> QED
    BY <1>9, <2>1, <2>3, CallerStops
<1>10. thr[t].plugin \in Plugin \/ Find(t)
  BY <1>t DEF CallerStep, StartHardware, SpawnWorker, PushInitialize, StartReturns,
              StopHardware, IfStarted, BuildStop, PushStop, SetStopping,
              StopReturns, CallerAt, NoObjectPC
<1> QED
  BY <1>1, <1>2, <1>3, <1>4, <1>5, <1>6, <1>7, <1>8, <1>9, <1>10 DEF CallerStep

\* What the steps of the publisher and the mainworker leave their thread doing,
\* where they look no object up.
LEMMA LookupFrame ==
    ASSUME TypeOK, DatabaseUpdate \/ Recount \/ StartDomoticzHardware \/ RestartPlugin
    PROVE  /\ \A p \in Plugin : PluginKept(p)
           /\ \E t \in Thread :
                 /\ thr'[t].pc \in {"idle", "recount", "find", "StartHardware"}
                 /\ thr[t].pc \notin PushPC \union {"initialize"}
                 /\ thr'[t].held.target => thr[t].held.target
                 /\ \A u \in Thread \ {t} : ThreadKept(u)
<1> USE DEF PluginKept, flags, python, clocks, objects, worker
<1> DEFINE PC == {"idle", "recount", "find", "StartHardware"}
           Looks(t, s) == s.pc \in PC /\ (s.held.target => thr[t].held.target)
<1>0. /\ Thread = {"mainworker", "publisher"} /\ thr \in [Thread -> ThreadState]
      /\ thr["publisher"] \in ThreadState /\ thr["mainworker"] \in ThreadState
  BY DEF Thread, TypeOK
<1>i. ASSUME NEW t
      PROVE  /\ Looks(t, Idle)
             /\ Looks(t, [Idle EXCEPT !.pc = "recount", !.call = "onUpdate"])
             /\ Looks(t, [Idle EXCEPT !.pc = "find", !.call = "Stop"])
             /\ Looks(t, [Idle EXCEPT !.pc = "find", !.call = "RestartPlugin"])
             /\ \A p : Looks(t, [Idle EXCEPT !.pc = "StartHardware", !.plugin = p])
  BY DEF Idle, NoMessage
<1>k. ASSUME NEW t \in Thread, NEW pc \in PC
      PROVE  Looks(t, [thr[t] EXCEPT !.pc = pc])
  BY <1>0 DEF ThreadState
<1> HIDE DEF Looks
<1>e. ASSUME NEW t \in Thread, NEW s, thr' = [thr EXCEPT ![t] = s],
             thr[t].pc \notin PushPC \union {"initialize"}, Looks(t, s)
      PROVE  \E u \in Thread :
                /\ thr'[u].pc \in PC
                /\ thr[u].pc \notin PushPC \union {"initialize"}
                /\ thr'[u].held.target => thr[u].held.target
                /\ \A v \in Thread \ {u} : ThreadKept(v)
  BY <1>0, <1>e DEF ThreadKept, Looks
<1>1. CASE DatabaseUpdate
  <2>1. \A p \in Plugin : PluginKept(p)
    BY <1>1 DEF DatabaseUpdate
  <2>2. \E s : thr' = [thr EXCEPT !["publisher"] = s] /\ Looks("publisher", s)
    <3>1. CASE RegisterPlugin
      <4>1. PICK p \in Plugin :
               thr' = [thr EXCEPT !["publisher"] =
                          [Idle EXCEPT !.pc = "StartHardware", !.plugin = p]]
        BY <3>1 DEF RegisterPlugin
      <4> QED
        BY <1>i, <4>1, Zenon
    <3>2. CASE ~RegisterPlugin
      <4>1. \E s \in {Idle, [Idle EXCEPT !.pc = "recount", !.call = "onUpdate"],
                      [Idle EXCEPT !.pc = "find", !.call = "Stop"]} :
               thr' = [thr EXCEPT !["publisher"] = s]
        BY <1>1, <3>2, Zenon DEF DatabaseUpdate, Dispatch
      <4>2. \A s \in {Idle, [Idle EXCEPT !.pc = "recount", !.call = "onUpdate"],
                      [Idle EXCEPT !.pc = "find", !.call = "Stop"]} :
               Looks("publisher", s)
        BY <1>i, Zenon
      <4> QED
        BY <4>1, <4>2, Zenon
    <3> QED
      BY <3>1, <3>2
  <2>3. thr["publisher"].pc \notin PushPC \union {"initialize"}
    BY <1>1 DEF DatabaseUpdate, CallerAt, PushPC
  <2> QED
    BY <1>0, <1>e, <2>1, <2>2, <2>3
<1>2. CASE Recount
  <2>1. \A p \in Plugin : PluginKept(p)
    BY <1>2 DEF Recount
  <2>2. PICK s : /\ thr' = [thr EXCEPT !["publisher"] = s]
                 /\ s = Idle \/ s = [thr["publisher"] EXCEPT !.pc = "find"]
    BY <1>2 DEF Recount
  <2>3. Looks("publisher", s)
    BY <1>0, <1>i, <1>k, <2>2
  <2>4. thr["publisher"].pc \notin PushPC \union {"initialize"}
    BY <1>2 DEF Recount, CallerAt, PushPC
  <2> QED
    BY <1>0, <1>e, <2>1, <2>2, <2>3, <2>4
<1>3. CASE StartDomoticzHardware
  <2>1. \A p \in Plugin : PluginKept(p)
    BY <1>3 DEF StartDomoticzHardware
  <2>2. PICK s : /\ thr' = [thr EXCEPT !["mainworker"] = s]
                 /\ \/ s = Idle
                    \/ s = [thr["mainworker"] EXCEPT !.pc = "StartHardware"]
    BY <1>3 DEF StartDomoticzHardware
  <2>3. Looks("mainworker", s)
    BY <1>0, <1>i, <1>k, <2>2
  <2>4. thr["mainworker"].pc \notin PushPC \union {"initialize"}
    BY <1>3 DEF StartDomoticzHardware, CallerAt, PushPC
  <2> QED
    BY <1>0, <1>e, <2>1, <2>2, <2>3, <2>4
<1>4. CASE RestartPlugin
  <2>1. \A p \in Plugin : PluginKept(p)
    BY <1>4 DEF RestartPlugin
  <2>2. thr["mainworker"].pc \notin PushPC \union {"initialize"}
    BY <1>4 DEF RestartPlugin, CallerAt, PushPC
  <2> QED
    BY <1>0, <1>e, <1>i, <1>4, <2>1, <2>2 DEF RestartPlugin
<1> QED
  BY <1>1, <1>2, <1>3, <1>4

\* The update message that the publisher queues.
LEMMA PushUpdateStops ==
    ASSUME TypeOK, StopInv, PushUpdate PROVE StopInv'
<1> USE DEF StopGoesOn, StopAtPlugin, StopUnderway, StopAssured, StopInHand, Dead,
            flags, python, clocks, objects, worker
<1> DEFINE t == "publisher"
           m == thr[t].held
<1>0. /\ t \in Thread /\ CallerAt(t, "pushUpdate")
      /\ StopAtThread(t)
  BY DEF Thread, PushUpdate, StopInv
<1>1. m.type = "onUpdate" /\ m \in Message
  BY <1>0 DEF StopAtThread, CallerAt, TypeOK, ThreadState, PushPC
<1>2. PICK p \in Plugin :
         /\ p = thr[t].plugin
         /\ m_MessageQueue' = [m_MessageQueue EXCEPT ![p] = Append(@, m)]
  BY <1>0 DEF PushUpdate, CallerAt, TypeOK, ThreadState, NoObjectPC
<1>3. m_MessageQueue[p] \in Seq(Message) /\ m_MessageQueue \in [Plugin -> Seq(Message)]
  BY DEF TypeOK
<1> HIDE DEF m
<1>4. QueuedStop(p)' <=> QueuedStop(p)
  BY <1>1, <1>2, <1>3, AppendHas, QueuedStopHas
<1>5. \A q \in Plugin : StopAtPlugin(q)' /\ StopGoesOn(q)
  <2>1. StopAtPlugin(p)' /\ StopGoesOn(p)
    BY <1>4 DEF PushUpdate, StopInv
  <2>2. ASSUME NEW q \in Plugin, q # p PROVE PluginKept(q)
    BY <1>2, <1>3, <2>2 DEF PushUpdate, PluginKept
  <2>3. ASSUME NEW q \in Plugin, q # p PROVE StopAtPlugin(q)' /\ StopGoesOn(q)
    <3>1. PluginKept(q) /\ StopAtPlugin(q)
      BY <2>2, <2>3 DEF StopInv
    <3> QED
      BY <3>1, KeptStops
  <2> QED
    BY <2>1, <2>3
<1>6. ASSUME NEW u \in Thread PROVE StopAtThread(u)'
  <2>1. CASE u = t
    <3>1. thr'[t].pc = "idle"
      BY <1>0 DEF PushUpdate, Idle, TypeOK
    <3> QED
      BY <2>1, <3>1 DEF StopAtThread
  <2>2. CASE u # t
    <3>1. ThreadKept(u) /\ StopAtThread(u)
      BY <2>2 DEF PushUpdate, ThreadKept, StopInv, TypeOK
    <3> QED
      BY <1>5, <3>1, KeptThreadStops
  <2> QED
    BY <2>1, <2>2
<1> QED
  BY <1>5, <1>6 DEF StopInv

\* Every step keeps the invariant of the stop.
LEMMA StepStops == TypeOK /\ RegistryInv /\ StopInv /\ [Next]_vars => StopInv'
<1> SUFFICES ASSUME TypeOK, RegistryInv, StopInv, [Next]_vars PROVE StopInv'
  OBVIOUS
<1>1. CASE AllKept
  <2>1. PICK t \in Thread : TRUE
    BY DEF Thread
  <2>2. \A q \in Plugin : StopAtPlugin(q)' /\ StopGoesOn(q)
    BY <1>1, KeptStops DEF AllKept, StopInv
  <2>3. \A u \in Thread : StopAtThread(u)'
    BY <1>1, <2>2, KeptThreadStops DEF AllKept, StopInv
  <2> QED
    BY <2>2, <2>3 DEF StopInv
<1>2. CASE DatabaseStep \/ Tick \/ UNCHANGED vars
  BY <1>1, <1>2, AllKeptBy
<1>3. CASE DatabaseUpdate \/ Recount \/ StartDomoticzHardware \/ RestartPlugin
  <2>1. PICK t \in Thread :
           /\ thr'[t].pc \in {"idle", "recount", "find", "StartHardware"}
           /\ \A u \in Thread \ {t} : ThreadKept(u)
    BY <1>3, LookupFrame
  <2>2. StopAtThread(t)'
    BY <2>1 DEF StopAtThread
  <2> QED
    BY <1>3, <2>1, <2>2, LookupFrame, ThreadStops
<1>4. CASE PushUpdate
  BY <1>4, PushUpdateStops
<1>5. ASSUME NEW p \in Plugin, WorkerStep(p) PROVE StopInv'
  BY <1>5, WorkerStepStops
<1>6. ASSUME NEW t \in Thread, CallerStep(t) PROVE StopInv'
  BY <1>6, CallerStepStops
<1> QED
  BY <1>2, <1>3, <1>4, <1>5, <1>6 DEF Next, PublisherStep

\* Whatever stops the plugin and whenever, the stop has gone through onStop.
THEOREM StopCorrect == Spec => []StopInv
<1>1. Init => TypeOK /\ RegistryInv /\ StopInv
  BY InitType, InitRegistry, InitStops
<1>2. TypeOK /\ RegistryInv /\ StopInv /\ [Next]_vars
         => (TypeOK /\ RegistryInv /\ StopInv)'
  BY StepType, StepRegistry, StepStops
<1> QED
  BY <1>1, <1>2, PTL DEF Spec

\* A worker with an interpreter leaves Do_Work only when it has run onStop.
THEOREM ExitFollowsOnStop == Spec => []ExitAfterOnStop
<1>1. StopInv => ExitAfterOnStop
  BY DEF StopInv, StopAtPlugin, StopAssured, Dead, ExitAfterOnStop
<1> QED
  BY <1>1, StopCorrect, PTL

-----------------------------------------------------------------------------
(***************************************************************************)
(* The Interface object that a message names as its target exists when the *)
(* worker runs the message.                                                *)
(*                                                                         *)
(* The object appears in onStart and goes away in a startup that fails and *)
(* in Finalise. A startup is one token: it is with the thread that is      *)
(* about to queue Initialize, in the queue, in the worker's hand or        *)
(* loading the script. While the token exists no message has a target, and *)
(* once the object exists the token is spent.                              *)
(***************************************************************************)

Startup == {"Initialize", "onStart"}

QueuedStartup(p) == HasType(m_MessageQueue[p], Startup)

PendingStartup(p) ==
    wpc[p] = "load" \/ (wpc[p] = "process" /\ msg[p].type \in Startup)

NoStartup(p) == ~QueuedStartup(p) /\ ~PendingStartup(p) /\ ~m_Interface[p]

\* After Finalise no message is looked at any more.
Gone(p) == wpc[p] \in {"deregister", "ended"}

HasOrGone(p) == m_Interface[p] \/ Gone(p)

TargetAtPlugin(p) ==
    /\ AtMostOne(m_MessageQueue[p], Startup)
    /\ PendingStartup(p) => ~QueuedStartup(p)
    /\ m_Interface[p] => ~QueuedStartup(p) /\ ~PendingStartup(p)
    /\ wpc[p] = "none" => NoStartup(p)
    /\ HasTarget(m_MessageQueue[p]) \/ msg[p].target => HasOrGone(p)

TargetAtThread(t) ==
    /\ thr[t].pc = "initialize" => NoStartup(thr[t].plugin)
    /\ thr[t].held.target => thr[t].pc \in PushPC /\ HasOrGone(thr[t].plugin)

\* One thread at most is about to queue Initialize for an object.
OneInitialiser ==
    \A t, u \in Thread :
        /\ thr[t].pc = "initialize" /\ thr[u].pc = "initialize"
        /\ thr[t].plugin = thr[u].plugin
        => t = u

TargetInv ==
    /\ \A p \in Plugin : TargetAtPlugin(p)
    /\ \A t \in Thread : TargetAtThread(t)
    /\ OneInitialiser

\* What no step takes from a plugin, PushInitialize apart.
TargetGoesOn(p) ==
    /\ NoStartup(p) => NoStartup(p)'
    /\ HasOrGone(p) => HasOrGone(p)'

\* A plugin that a step does not touch.
LEMMA KeptTargets ==
    ASSUME NEW p, PluginKept(p), TargetAtPlugin(p)
    PROVE  TargetAtPlugin(p)' /\ TargetGoesOn(p)
BY DEF PluginKept, TargetAtPlugin, TargetGoesOn, NoStartup, PendingStartup,
       QueuedStartup, HasOrGone, Gone

\* A thread that a step leaves where it is.
LEMMA KeptThreadTargets ==
    ASSUME TypeOK, NEW t \in Thread, ThreadKept(t), TargetAtThread(t),
           \A p \in Plugin : p = thr[t].plugin => TargetGoesOn(p)
    PROVE  TargetAtThread(t)'
<1>1. CASE thr[t].pc \in NoObjectPC
  BY <1>1 DEF ThreadKept, TargetAtThread, NoObjectPC, PushPC
<1>2. CASE thr[t].pc \notin NoObjectPC
  <2>1. PICK p \in Plugin : p = thr[t].plugin
    BY <1>2 DEF TypeOK, ThreadState
  <2>2. /\ thr'[t].pc = "initialize" => NoStartup(p)'
        /\ thr'[t].held.target => thr'[t].pc \in PushPC /\ HasOrGone(p)'
    BY <2>1 DEF ThreadKept, TargetAtThread, TargetGoesOn
  <2>3. thr'[t].plugin = p
    BY <2>1 DEF ThreadKept
  <2> QED
    BY <2>2, <2>3 DEF TargetAtThread
<1> QED
  BY <1>1, <1>2

\* Threads that a step leaves where they are queue no more Initialize messages.
LEMMA KeptInitialisers ==
    ASSUME OneInitialiser, NEW t,
           \A u \in Thread \ {t} : ThreadKept(u),
           thr'[t].pc # "initialize"
    PROVE  OneInitialiser'
BY DEF OneInitialiser, ThreadKept

\* A step of one worker.
LEMMA WorkerTargets ==
    ASSUME TypeOK, TargetInv, NEW p \in Plugin, WorkerStep(p),
           TargetAtPlugin(p)', TargetGoesOn(p)
    PROVE  TargetInv'
<1>1. \A q \in Plugin : TargetAtPlugin(q)' /\ TargetGoesOn(q)
  BY WorkerFrame, KeptTargets DEF TargetInv
<1>2. \A t \in Thread : TargetAtThread(t)'
  BY <1>1, WorkerFrame, KeptThreadTargets DEF TargetInv
<1>3. OneInitialiser'
  BY WorkerFrame DEF TargetInv, OneInitialiser, ThreadKept
<1> QED
  BY <1>1, <1>2, <1>3 DEF TargetInv

\* A step that changes no plugin and at most one thread.
LEMMA ThreadTargets ==
    ASSUME TypeOK, TargetInv, NEW t \in Thread,
           \A p \in Plugin : PluginKept(p),
           \A u \in Thread \ {t} : ThreadKept(u),
           thr'[t].pc # "initialize", TargetAtThread(t)'
    PROVE  TargetInv'
<1>1. \A q \in Plugin : TargetAtPlugin(q)' /\ TargetGoesOn(q)
  BY KeptTargets DEF TargetInv
<1>2. \A u \in Thread : TargetAtThread(u)'
  BY <1>1, KeptThreadTargets DEF TargetInv
<1> QED
  BY <1>1, <1>2, KeptInitialisers DEF TargetInv

\* A step of a thread that changes the object it holds.
LEMMA HolderTargets ==
    ASSUME TypeOK, TargetInv, NEW t \in Thread, NEW p \in Plugin,
           \A q \in Plugin \ {p} : PluginKept(q),
           \A u \in Thread \ {t} : ThreadKept(u),
           TargetAtPlugin(p)', TargetGoesOn(p),
           thr'[t].pc # "initialize", TargetAtThread(t)'
    PROVE  TargetInv'
<1>1. \A q \in Plugin : TargetAtPlugin(q)' /\ TargetGoesOn(q)
  BY KeptTargets DEF TargetInv
<1>2. \A u \in Thread : TargetAtThread(u)'
  BY <1>1, KeptThreadTargets DEF TargetInv
<1> QED
  BY <1>1, <1>2, KeptInitialisers DEF TargetInv

\* No object exists and no message is queued at first.
LEMMA InitTargets == Init => TargetInv
<1> SUFFICES ASSUME Init PROVE TargetInv
  OBVIOUS
<1>1. ASSUME NEW p \in Plugin PROVE TargetAtPlugin(p)
  <2>1. /\ m_MessageQueue[p] = << >> /\ wpc[p] = "none"
        /\ m_Interface[p] = FALSE /\ msg[p].target = FALSE
    BY DEF Init, NoMessage
  <2>2. /\ AtMostOne(m_MessageQueue[p], Startup)
        /\ ~HasType(m_MessageQueue[p], Startup)
        /\ ~HasTarget(m_MessageQueue[p])
    BY <2>1 DEF AtMostOne, HasType, HasTarget
  <2> QED
    BY <2>1, <2>2 DEF TargetAtPlugin, NoStartup, PendingStartup, QueuedStartup
<1>2. \A t \in Thread : thr[t].pc \in {"idle", "boot"} /\ ~thr[t].held.target
  <2>1. /\ Idle.pc = "idle" /\ ~Idle.held.target
        /\ \A p : Boot(p).pc = "boot" /\ ~Boot(p).held.target
    BY DEF Idle, Boot, NoMessage
  <2>2. \A t \in Thread : thr[t] = Idle \/ \E p : thr[t] = Boot(p)
    BY DEF Init
  <2> QED
    BY <2>1, <2>2
<1> QED
  BY <1>1, <1>2 DEF TargetInv, TargetAtThread, OneInitialiser

\* The worker passes the token on, and spends it on the Interface object.
LEMMA WorkerStepTargets ==
    ASSUME TypeOK, RegistryInv, StopInv, TargetInv, NEW p \in Plugin, WorkerStep(p)
    PROVE  TargetInv'
<1> USE DEF TargetGoesOn, TargetAtPlugin, NoStartup, QueuedStartup, PendingStartup,
            HasOrGone, Gone, flags, python, clocks, objects, worker
<1> DEFINE q == m_MessageQueue[p]
           r == m_MessageQueue'[p]
           Same == /\ HasType(r, Startup) <=> HasType(q, Startup)
                   /\ HasTarget(r) => HasTarget(q)
                   /\ AtMostOne(q, Startup) => AtMostOne(r, Startup)
<1>t. q \in Seq(Message) /\ lag[p] \in Nat /\ m_Interface[p] \in BOOLEAN
  BY DEF TypeOK
<1>u. /\ \A type : type \in Startup <=> type \in {"Initialize", "onStart"}
      /\ ~NoMessage.target
  BY DEF Startup, NoMessage
<1>d. ASSUME NEW how, Dies(how) PROVE TargetInv'
  <2>1. PluginKept(p) /\ TargetAtPlugin(p)
    BY <1>d, AllKeptBy DEF AllKept, TargetInv
  <2> QED
    BY <2>1, KeptTargets, WorkerTargets
<1>s. TargetAtPlugin(p)
  BY DEF TargetInv
<1> SUFFICES ASSUME ~\E how : Dies(how)
             PROVE  TargetAtPlugin(p)' /\ TargetGoesOn(p)
  BY <1>d, WorkerTargets
<1>q. UNCHANGED m_MessageQueue => r = q /\ Same
  OBVIOUS
<1> HIDE DEF q, r, Same
<1>m. ASSUME NEW m \in Message, r = q \/ r = MessagePlugin(q, p, m)
      PROVE  /\ HasType(r, Startup) => HasType(q, Startup) \/ m.type \in Startup
             /\ HasType(q, Startup) => HasType(r, Startup)
             /\ HasTarget(r) => HasTarget(q) \/ m.target
             /\ AtMostOne(q, Startup) /\ (m.type \in Startup => ~HasType(q, Startup))
                   => AtMostOne(r, Startup)
  <2>1. CASE r = q
    BY <2>1
  <2>2. CASE r = MessagePlugin(q, p, m)
    BY <1>t, <2>2, MessagePluginHas
  <2> QED
    BY <1>m, <2>1, <2>2
<1>1. CASE OuterLoop(p)
  <2>1. Same
    <3>1. r = q \/ r = Aged(q, lag[p])
      BY <1>1 DEF OuterLoop, TypeOK, q, r
    <3> QED
      BY <1>t, <3>1, AgedHas DEF Same
  <2> QED
    BY <1>1, <1>s, <1>u, <2>1 DEF OuterLoop, WorkerAt, TypeOK, Same, q, r
<1>2. CASE PopMessage(p)
  <2>1. CASE UNCHANGED <<msg, m_MessageQueue>> /\ wpc' = [wpc EXCEPT ![p] = "after"]
    BY <1>2, <1>q, <1>s, <1>u, <2>1 DEF PopMessage, WorkerAt, TypeOK, Same, q, r
  <2>2. ASSUME NEW i \in DOMAIN q,
               msg' = [msg EXCEPT ![p] = q[i]],
               m_MessageQueue' = [m_MessageQueue EXCEPT ![p] =
                   SubSeq(q, i + 1, Len(q)) \o SubSeq(q, 1, i - 1)],
               wpc' = [wpc EXCEPT ![p] = "process"]
        PROVE  TargetAtPlugin(p)' /\ TargetGoesOn(p)
    <3>1. /\ r = SubSeq(q, i + 1, Len(q)) \o SubSeq(q, 1, i - 1)
          /\ msg'[p] = q[i] /\ wpc'[p] = "process"
          /\ wpc[p] = "inner"
          /\ m_Interface'[p] = m_Interface[p]
      BY <1>2, <2>2 DEF PopMessage, WorkerAt, TypeOK, r
    <3>2. /\ HasType(r, Startup) => HasType(q, Startup)
          /\ HasTarget(r) => HasTarget(q)
          /\ AtMostOne(q, Startup) => /\ AtMostOne(r, Startup)
                                      /\ q[i].type \in Startup => ~HasType(r, Startup)
      BY <1>t, <2>2, <3>1, RotateHas
    <3>3. /\ q[i].type \in Startup => HasType(q, Startup)
          /\ q[i].target => HasTarget(q)
      BY <2>2 DEF HasType, HasTarget
    <3> QED
      BY <1>s, <3>1, <3>2, <3>3 DEF q, r
  <2> QED
    BY <1>2, <2>1, <2>2 DEF PopMessage, q
<1>3. CASE DropMessage(p) \/ RunCallback(p)
  BY <1>3, <1>q, <1>s, <1>u
     DEF DropMessage, RunCallback, Processing, WorkerAt, TypeOK, Same, q, r
<1>4. CASE InitialiseQuery(p)
  BY <1>4, <1>q, <1>s, <1>u
     DEF InitialiseQuery, StopDies, StopPython, Processing, WorkerAt, TypeOK, Same, q, r
<1>5. CASE InitialiseLoads(p)
  <2> DEFINE m == NewMessage("onStart", FALSE)
  <2>1. m \in Message /\ m.type = "onStart" /\ ~m.target
    BY NewMessageType DEF MessageType, NewMessage
  <2> HIDE DEF m
  <2>2. r = MessagePlugin(q, p, m)
    BY <1>5 DEF InitialiseLoads, TypeOK, m, q, r
  <2> QED
    BY <1>5, <1>m, <1>s, <1>u, <2>1, <2>2 DEF InitialiseLoads, WorkerAt, TypeOK, q, r
<1>6. CASE InitialiseFails(p)
  BY <1>6, <1>q, <1>s, <1>u
     DEF InitialiseFails, StopDies, StopPython, WorkerAt, TypeOK, Same, q, r
<1>7. CASE StartSucceeds(p)
  BY <1>7, <1>q, <1>s, <1>u DEF StartSucceeds, Processing, WorkerAt, TypeOK, Same, q, r
<1>8. CASE StartFails(p)
  <2> DEFINE m == NewMessage("Initialize", FALSE)
  <2>1. m \in Message /\ m.type = "Initialize" /\ ~m.target
    BY NewMessageType DEF MessageType, NewMessage
  <2> HIDE DEF m
  <2>2. r = MessagePlugin(q, p, m)
    BY <1>8 DEF StartFails, TypeOK, m, q, r
  <2> QED
    BY <1>8, <1>m, <1>s, <1>u, <2>1, <2>2
       DEF StartFails, Processing, WorkerAt, TypeOK, q, r
<1>9. CASE RunStop(p)
  BY <1>9, <1>q, <1>s, <1>u DEF RunStop, Processing, WorkerAt, TypeOK, Same, q, r
<1>10. CASE StopCheck(p)
  BY <1>10, <1>q, <1>s, <1>u DEF StopCheck, NextLoop, WorkerAt, TypeOK, Same, q, r
<1>11. CASE HeartbeatCheck(p)
  <2> DEFINE m == NewMessage("onHeartbeat", m_Interface[p])
  <2>1. m \in Message /\ m.type = "onHeartbeat" /\ m.target = m_Interface[p]
    BY <1>t, NewMessageType DEF MessageType, NewMessage
  <2> HIDE DEF m
  <2>2. r = q \/ r = MessagePlugin(q, p, m)
    BY <1>11 DEF HeartbeatCheck, TypeOK, m, q, r
  <2> QED
    BY <1>11, <1>m, <1>s, <1>u, <2>1, <2>2
       DEF HeartbeatCheck, NextLoop, WorkerAt, TypeOK, q, r
<1>12. CASE FinaliseStop(p)
  BY <1>12, <1>q, <1>s, <1>u
     DEF FinaliseStop, StopDies, StopPython, WorkerAt, TypeOK, Same, q, r
<1>13. CASE DeregisterPlugin(p)
  BY <1>13, <1>q, <1>s, <1>u DEF DeregisterPlugin, WorkerAt, TypeOK, Same, q, r
<1> QED
  BY <1>1, <1>2, <1>3, <1>4, <1>5, <1>6, <1>7, <1>8, <1>9, <1>10, <1>11, <1>12,
     <1>13 DEF WorkerStep

\* Queueing a message that the thread has built: its target is still there.
LEMMA PushTargets ==
    ASSUME TypeOK, StopInv, TargetInv, NEW t \in Thread, NEW p \in Plugin,
           p = thr[t].plugin,
           CallerAt(t, "pushStop") \/ CallerAt(t, "pushUpdate"),
           m_MessageQueue' = [m_MessageQueue EXCEPT ![p] = Append(@, thr[t].held)],
           UNCHANGED <<flags, python, clocks, objects, worker>>,
           \A u \in Thread \ {t} : thr'[u] = thr[u],
           thr'[t].pc # "initialize", ~thr'[t].held.target
    PROVE  TargetInv'
<1> USE DEF TargetGoesOn, TargetAtPlugin, NoStartup, QueuedStartup, PendingStartup,
            HasOrGone, Gone, flags, python, clocks, objects, worker
<1> DEFINE m == thr[t].held
           q == m_MessageQueue[p]
           r == m_MessageQueue'[p]
<1>1. /\ m \in Message /\ m.type \notin Startup
      /\ m.target => HasOrGone(p)
  BY DEF StopInv, StopAtThread, CallerAt, TypeOK, ThreadState, PushPC, Startup,
         TargetInv, TargetAtThread
<1>2. q \in Seq(Message) /\ r = Append(q, m) /\ TargetAtPlugin(p)
  BY DEF TypeOK, TargetInv
<1>3. /\ \A o \in Plugin \ {p} : PluginKept(o)
      /\ \A u \in Thread \ {t} : ThreadKept(u)
  BY DEF PluginKept, ThreadKept, TypeOK
<1> HIDE DEF m, q, r
<1>4. /\ HasType(r, Startup) <=> HasType(q, Startup)
      /\ HasTarget(r) => HasTarget(q) \/ m.target
      /\ AtMostOne(q, Startup) => AtMostOne(r, Startup)
  BY <1>1, <1>2, AppendHas
<1>5. TargetAtPlugin(p)' /\ TargetGoesOn(p)
  BY <1>1, <1>2, <1>4 DEF q, r
<1>6. TargetAtThread(t)'
  BY DEF TargetAtThread
<1> QED
  BY <1>3, <1>5, <1>6, HolderTargets

\* The worker begins without a token: the thread that has made it holds one.
LEMMA SpawnWorkerTargets ==
    ASSUME TypeOK, RegistryInv, StopInv, TargetInv, NEW t \in Thread, SpawnWorker(t)
    PROVE  TargetInv'
<1> USE DEF TargetGoesOn, TargetAtPlugin, NoStartup, QueuedStartup, PendingStartup,
            HasOrGone, Gone, flags, python, objects, worker
<1>1. PICK p \in Plugin : p = thr[t].plugin
  BY DEF SpawnWorker, CallerAt, TypeOK, ThreadState, NoObjectPC
<1>2. wpc[p] = "none" /\ NoStartup(p) /\ TargetAtPlugin(p)
  BY <1>1 DEF RegistryInv, StarterOwnsEntry, SpawnWorker, CallerAt, StartingPC,
              TargetInv
<1>3. /\ wpc'[p] = "outer"
      /\ UNCHANGED <<msg, m_MessageQueue, m_Interface>>
  BY <1>1 DEF SpawnWorker, TypeOK
<1>4. TargetAtPlugin(p)' /\ TargetGoesOn(p)
  BY <1>2, <1>3
<1>5. ASSUME NEW q \in Plugin PROVE TargetAtPlugin(q)' /\ TargetGoesOn(q)
  <2>1. CASE q # p
    <3>1. PluginKept(q) /\ TargetAtPlugin(q)
      BY <1>1, <2>1, CallerFrame DEF CallerStep, TargetInv
    <3> QED
      BY <3>1, KeptTargets
  <2> QED
    BY <1>4, <2>1
<1>6. \A u \in Thread \ {t} : ThreadKept(u)
  BY CallerFrame DEF CallerStep
<1>7. thr'[t] = [thr[t] EXCEPT !.pc = "initialize"] /\ thr[t] \in ThreadState
      /\ thr[t].pc = "spawn"
  BY DEF SpawnWorker, CallerAt, TypeOK
<1>8. /\ thr'[t].pc = "initialize" /\ thr'[t].plugin = p
      /\ thr'[t].held = thr[t].held
  BY <1>1, <1>7 DEF ThreadState
<1>9. TargetAtThread(t)'
  <2>1. ~thr'[t].held.target
    BY <1>7, <1>8 DEF TargetInv, TargetAtThread, PushPC
  <2>2. NoStartup(p)'
    BY <1>2, <1>4
  <2> QED
    BY <1>8, <2>1, <2>2 DEF TargetAtThread
<1>10. \A u \in Thread : TargetAtThread(u)'
  BY <1>5, <1>6, <1>9, KeptThreadTargets DEF TargetInv
<1>11. \A u \in Thread \ {t} : ~(thr'[u].pc = "initialize" /\ thr'[u].plugin = p)
  BY <1>2, <1>6 DEF ThreadKept, StopInv, StopAtThread
<1>12. OneInitialiser'
  BY <1>6, <1>8, <1>11 DEF OneInitialiser, ThreadKept, TargetInv
<1> QED
  BY <1>5, <1>10, <1>12 DEF TargetInv

\* The token goes into the queue.
LEMMA PushInitializeTargets ==
    ASSUME TypeOK, RegistryInv, StopInv, TargetInv, NEW t \in Thread, PushInitialize(t)
    PROVE  TargetInv'
<1> USE DEF TargetAtPlugin, NoStartup, QueuedStartup, PendingStartup,
            HasOrGone, Gone, flags, python, clocks, objects, worker
<1>1. PICK p \in Plugin : p = thr[t].plugin
  BY DEF PushInitialize, CallerAt, TypeOK, ThreadState, NoObjectPC
<1>2. wpc[p] # "none" /\ NoStartup(p) /\ TargetAtPlugin(p)
  BY <1>1 DEF PushInitialize, CallerAt, StopInv, StopAtThread, TargetInv,
              TargetAtThread
<1> DEFINE m == NewMessage("Initialize", FALSE)
           q == m_MessageQueue[p]
           r == m_MessageQueue'[p]
<1>3. /\ m \in Message /\ ~m.target
      /\ q \in Seq(Message) /\ r = MessagePlugin(q, p, m)
  BY <1>1, NewMessageType DEF MessageType, NewMessage, PushInitialize, TypeOK
<1> HIDE DEF m, q, r
<1>4. /\ HasTarget(r) => HasTarget(q)
      /\ AtMostOne(q, Startup) /\ ~HasType(q, Startup) => AtMostOne(r, Startup)
  BY <1>3, MessagePluginHas
<1>5. TargetAtPlugin(p)'
  BY <1>2, <1>4 DEF PushInitialize, q, r
<1>6. /\ \A o \in Plugin \ {p} : PluginKept(o)
      /\ \A u \in Thread \ {t} : ThreadKept(u)
  BY <1>1, CallerFrame DEF CallerStep
<1>7. ASSUME NEW o \in Plugin
      PROVE  /\ TargetAtPlugin(o)'
             /\ HasOrGone(o) => HasOrGone(o)'
             /\ o # p => TargetGoesOn(o)
  <2>1. CASE o = p
    BY <1>5, <2>1 DEF PushInitialize
  <2>2. CASE o # p
    <3>1. PluginKept(o) /\ TargetAtPlugin(o)
      BY <1>6, <2>2 DEF TargetInv
    <3> QED
      BY <2>2, <3>1, KeptTargets DEF TargetGoesOn
  <2> QED
    BY <2>1, <2>2
<1>8. thr'[t] = [thr[t] EXCEPT !.pc = "started"] /\ thr[t] \in ThreadState
      /\ thr[t].pc = "initialize"
  BY DEF PushInitialize, CallerAt, TypeOK
<1>9. thr'[t].pc = "started" /\ ~thr'[t].held.target
  <2>1. thr'[t].pc = "started" /\ thr'[t].held = thr[t].held
    BY <1>8 DEF ThreadState
  <2> QED
    BY <1>8, <2>1 DEF TargetInv, TargetAtThread, PushPC
<1>10. ASSUME NEW u \in Thread PROVE TargetAtThread(u)'
  <2>1. CASE u = t
    BY <1>9, <2>1 DEF TargetAtThread
  <2>2. CASE u # t /\ thr[u].plugin # p
    BY <1>6, <1>7, <2>2, KeptThreadTargets DEF TargetInv
  <2>3. CASE u # t /\ thr[u].plugin = p
    <3>1. thr[u].pc # "initialize"
      BY <1>1, <1>8, <2>3 DEF TargetInv, OneInitialiser
    <3>2. ThreadKept(u) /\ TargetAtThread(u) /\ (HasOrGone(p) => HasOrGone(p)')
      BY <1>6, <1>7, <2>3 DEF TargetInv
    <3>3. thr'[u].plugin = p
      BY <2>3, <3>2 DEF ThreadKept
    <3>4. thr'[u].held.target => thr'[u].pc \in PushPC /\ HasOrGone(p)'
      BY <2>3, <3>2 DEF ThreadKept, TargetAtThread
    <3>5. thr'[u].pc # "initialize"
      BY <3>1, <3>2 DEF ThreadKept
    <3> QED
      BY <3>3, <3>4, <3>5 DEF TargetAtThread
  <2> QED
    BY <2>1, <2>2, <2>3
<1>11. OneInitialiser'
  BY <1>6, <1>9, KeptInitialisers DEF TargetInv
<1> QED
  BY <1>7, <1>10, <1>11 DEF TargetInv

\* A thread that looks an object up names its Interface object as it is now.
LEMMA FindTargets ==
    ASSUME TypeOK, TargetInv, NEW t \in Thread, Find(t)
    PROVE  TargetInv'
<1>0. /\ thr \in [Thread -> ThreadState] /\ thr[t].pc = "find"
      /\ \A u \in Thread \ {t} : ThreadKept(u)
  BY CallerFrame DEF CallerStep, Find, CallerAt, TypeOK
<1>1. ~thr[t].held.target
  BY <1>0 DEF TargetInv, TargetAtThread, PushPC
<1>2. \A q \in Plugin : PluginKept(q)
  BY AllKeptBy DEF Find, Found, AllKept, PluginKept, python, clocks, objects, worker
<1>3. thr'[t].pc # "initialize" /\ TargetAtThread(t)'
  <2>1. CASE Dies("undefined")
    <3>1. thr' = thr
      BY <2>1 DEF Dies
    <3> QED
      BY <1>0, <1>1, <3>1 DEF TargetAtThread
  <2>2. CASE Registered /\ Found(t, thr[t].call, m_pPlugins)
    <3>1. PICK p \in Plugin : p = m_pPlugins
      BY <2>2 DEF Registered, TypeOK
    <3> DEFINE m == NewMessage("onUpdate", m_Interface[p])
    <3>2. m.target = m_Interface[p] /\ UNCHANGED <<m_Interface, wpc>>
      BY <2>2 DEF NewMessage, Found, python, worker
    <3> HIDE DEF m
    <3>3. \/ thr'[t] = Idle
          \/ thr'[t] = [thr[t] EXCEPT !.pc = "StopHardware", !.plugin = p]
          \/ thr'[t] = [thr[t] EXCEPT !.pc = "pushUpdate", !.plugin = p, !.held = m]
      BY <1>0, <2>2, <3>1 DEF Found, m
    <3>4. CASE thr'[t] = Idle
      <4>1. thr'[t].pc = "idle" /\ ~thr'[t].held.target
        BY <3>4 DEF Idle, NoMessage
      <4> QED
        BY <4>1 DEF TargetAtThread
    <3>5. CASE thr'[t] = [thr[t] EXCEPT !.pc = "StopHardware", !.plugin = p]
      <4>1. thr'[t].pc = "StopHardware" /\ ~thr'[t].held.target
        BY <1>0, <1>1, <3>5 DEF ThreadState
      <4> QED
        BY <4>1 DEF TargetAtThread
    <3>6. CASE thr'[t] =
                 [thr[t] EXCEPT !.pc = "pushUpdate", !.plugin = p, !.held = m]
      <4>1. thr'[t].pc = "pushUpdate" /\ thr'[t].plugin = p /\ thr'[t].held = m
        BY <1>0, <3>6 DEF ThreadState
      <4> QED
        BY <3>2, <4>1 DEF TargetAtThread, HasOrGone, PushPC
    <3> QED
      BY <3>3, <3>4, <3>5, <3>6
  <2> QED
    BY <2>1, <2>2 DEF Find
<1> QED
  BY <1>0, <1>2, <1>3, ThreadTargets

\* The other steps of Start and Stop.
LEMMA CallerStepTargets ==
    ASSUME TypeOK, RegistryInv, StopInv, TargetInv, NEW t \in Thread, CallerStep(t)
    PROVE  TargetInv'
<1> USE DEF TargetGoesOn, TargetAtPlugin, NoStartup, QueuedStartup, PendingStartup,
            HasOrGone, Gone, flags, python, clocks, objects, worker
<1>0. /\ thr[t] \in ThreadState
      /\ \A u \in Thread \ {t} : ThreadKept(u)
      /\ \A q \in Plugin : q # thr[t].plugin => PluginKept(q)
      /\ TargetAtThread(t)
      /\ thr[t].pc \notin PushPC => ~thr[t].held.target
  BY CallerFrame DEF TypeOK, TargetInv, TargetAtThread
<1>i. Idle.pc = "idle" /\ ~Idle.held.target
  BY DEF Idle, NoMessage
<1>r. Returned(thr[t]).pc \in {"idle", "stopped"} /\ ~Returned(thr[t]).held.target
  BY <1>0, <1>i DEF Returned, ThreadState, NoMessage
<1>1. CASE Find(t)
  BY <1>1, FindTargets
<1>2. CASE StartHardware(t)
  <2>1. PICK p \in Plugin : p = thr[t].plugin
    BY <1>2 DEF StartHardware, CallerAt, TypeOK, ThreadState, NoObjectPC
  <2>2. wpc[p] = "none" /\ TargetAtPlugin(p)
    BY <1>2, <2>1 DEF RegistryInv, StarterOwnsEntry, StartHardware, CallerAt,
                      StartingPC, TargetInv
  <2>3. m_MessageQueue'[p] = << >>
    BY <1>2, <2>1 DEF StartHardware, TypeOK
  <2>4. /\ AtMostOne(m_MessageQueue'[p], Startup)
        /\ ~HasType(m_MessageQueue'[p], Startup)
        /\ ~HasTarget(m_MessageQueue'[p])
    BY <2>3 DEF AtMostOne, HasType, HasTarget
  <2>5. TargetAtPlugin(p)' /\ TargetGoesOn(p)
    BY <1>2, <2>2, <2>4 DEF StartHardware
  <2>6. /\ thr'[t] = [thr[t] EXCEPT !.pc = "spawn"]
        /\ thr[t].pc = "StartHardware"
    BY <1>2 DEF StartHardware, CallerAt, TypeOK
  <2>7. thr'[t].pc = "spawn" /\ ~thr'[t].held.target
    BY <1>0, <2>6 DEF ThreadState, PushPC
  <2>8. TargetAtThread(t)'
    BY <2>7 DEF TargetAtThread
  <2> QED
    BY <1>0, <2>1, <2>5, <2>7, <2>8, HolderTargets
<1>3. CASE SpawnWorker(t)
  BY <1>3, SpawnWorkerTargets
<1>4. CASE PushInitialize(t)
  BY <1>4, PushInitializeTargets
<1>5. CASE StartReturns(t) \/ SetStopping(t) \/ StopReturns(t)
  <2>1. PICK p \in Plugin : p = thr[t].plugin
    BY <1>5 DEF StartReturns, SetStopping, StopReturns, CallerAt, TypeOK,
                ThreadState, NoObjectPC
  <2>2. UNCHANGED <<wpc, msg, m_MessageQueue, m_Interface>>
    BY <1>5 DEF StartReturns, SetStopping, StopReturns
  <2>3. TargetAtPlugin(p)' /\ TargetGoesOn(p)
    BY <2>2 DEF TargetInv
  <2>4. /\ thr'[t] = Idle \/ thr'[t] = Returned(thr[t])
    BY <1>5 DEF StartReturns, SetStopping, StopReturns, CallerAt, TypeOK
  <2>5. thr'[t].pc \in {"idle", "stopped"} /\ ~thr'[t].held.target
    BY <1>i, <1>r, <2>4
  <2>6. TargetAtThread(t)'
    BY <2>5 DEF TargetAtThread
  <2> QED
    BY <1>0, <2>1, <2>3, <2>5, <2>6, HolderTargets
<1>6. CASE StopHardware(t) \/ IfStarted(t) \/ BuildStop(t)
  <2>1. PICK p \in Plugin : p = thr[t].plugin
    BY <1>6 DEF StopHardware, IfStarted, BuildStop, CallerAt, TypeOK, ThreadState,
                NoObjectPC
  <2>2. /\ \A q \in Plugin : PluginKept(q)
        /\ UNCHANGED <<m_Interface, wpc>>
    BY <1>6 DEF StopHardware, IfStarted, BuildStop, PluginKept
  <2>3. /\ thr[t].pc \in {"StopHardware", "ifStarted", "buildStop"}
        /\ \/ thr'[t] = Returned(thr[t])
           \/ \E pc \in {"ifStarted", "buildStop", "setStopping"} :
                 thr'[t] = [thr[t] EXCEPT !.pc = pc]
           \/ thr'[t] = [thr[t] EXCEPT !.pc = "pushStop", !.held = onStopCallback(p)]
    BY <1>6, <2>1 DEF StopHardware, IfStarted, BuildStop, CallerAt, TypeOK
  <2>4. CASE thr'[t] = Returned(thr[t])
    <3>1. thr'[t].pc \in {"idle", "stopped"} /\ ~thr'[t].held.target
      BY <1>r, <2>4
    <3> QED
      BY <1>0, <2>2, <3>1, ThreadTargets DEF TargetAtThread
  <2>5. CASE \E pc \in {"ifStarted", "buildStop", "setStopping"} :
                thr'[t] = [thr[t] EXCEPT !.pc = pc]
    <3>1. /\ thr'[t].pc \in {"ifStarted", "buildStop", "setStopping"}
          /\ ~thr'[t].held.target
      BY <1>0, <2>3, <2>5 DEF ThreadState, PushPC
    <3> QED
      BY <1>0, <2>2, <3>1, ThreadTargets DEF TargetAtThread
  <2>6. CASE thr'[t] = [thr[t] EXCEPT !.pc = "pushStop", !.held = onStopCallback(p)]
    <3>1. /\ thr'[t].pc = "pushStop" /\ thr'[t].plugin = p
          /\ thr'[t].held.target = m_Interface[p]
      BY <1>0, <2>1, <2>6 DEF ThreadState, onStopCallback
    <3>2. thr'[t].held.target => HasOrGone(p)'
      BY <2>2, <3>1
    <3>3. TargetAtThread(t)'
      BY <3>1, <3>2 DEF TargetAtThread, PushPC
    <3> QED
      BY <1>0, <2>2, <3>1, <3>3, ThreadTargets
  <2> QED
    BY <2>3, <2>4, <2>5, <2>6
<1>7. CASE PushStop(t)
  <2>1. PICK p \in Plugin : p = thr[t].plugin
    BY <1>7 DEF PushStop, CallerAt, TypeOK, ThreadState, NoObjectPC
  <2>2. /\ CallerAt(t, "pushStop")
        /\ m_MessageQueue' = [m_MessageQueue EXCEPT ![p] = Append(@, thr[t].held)]
        /\ UNCHANGED <<flags, python, clocks, objects, worker>>
        /\ \A u \in Thread \ {t} : thr'[u] = thr[u]
        /\ thr'[t] = [thr[t] EXCEPT !.pc = "setStopping", !.held = NoMessage]
    BY <1>7, <2>1 DEF PushStop, TypeOK
  <2>3. thr'[t].pc = "setStopping" /\ ~thr'[t].held.target
    BY <1>0, <2>2 DEF ThreadState, NoMessage
  <2> QED
    BY <2>1, <2>2, <2>3, PushTargets
<1> QED
  BY <1>1, <1>2, <1>3, <1>4, <1>5, <1>6, <1>7 DEF CallerStep

\* Every step keeps the invariant of the targets.
LEMMA StepTargets ==
    TypeOK /\ RegistryInv /\ StopInv /\ TargetInv /\ [Next]_vars => TargetInv'
<1> SUFFICES ASSUME TypeOK, RegistryInv, StopInv, TargetInv, [Next]_vars
             PROVE  TargetInv'
  OBVIOUS
<1>i. Idle.pc = "idle" /\ ~Idle.held.target
  BY DEF Idle, NoMessage
<1>1. CASE AllKept
  <2>1. \A q \in Plugin : TargetAtPlugin(q)' /\ TargetGoesOn(q)
    BY <1>1, KeptTargets DEF AllKept, TargetInv
  <2>2. \A u \in Thread : TargetAtThread(u)'
    BY <1>1, <2>1, KeptThreadTargets DEF AllKept, TargetInv
  <2>3. OneInitialiser'
    BY <1>1 DEF AllKept, TargetInv, OneInitialiser, ThreadKept
  <2> QED
    BY <2>1, <2>2, <2>3 DEF TargetInv
<1>2. CASE DatabaseStep \/ Tick \/ UNCHANGED vars
  BY <1>1, <1>2, AllKeptBy
<1>3. CASE DatabaseUpdate \/ Recount \/ StartDomoticzHardware \/ RestartPlugin
  <2>1. PICK t \in Thread :
           /\ thr'[t].pc \in {"idle", "recount", "find", "StartHardware"}
           /\ thr[t].pc \notin PushPC
           /\ thr'[t].held.target => thr[t].held.target
           /\ \A u \in Thread \ {t} : ThreadKept(u)
    BY <1>3, LookupFrame
  <2>2. TargetAtThread(t)'
    BY <2>1 DEF TargetAtThread, TargetInv
  <2> QED
    BY <1>3, <2>1, <2>2, LookupFrame, ThreadTargets
<1>4. CASE PushUpdate
  <2> DEFINE t == "publisher"
  <2>1. t \in Thread /\ CallerAt(t, "pushUpdate") /\ thr \in [Thread -> ThreadState]
    BY <1>4 DEF Thread, PushUpdate, TypeOK
  <2>2. PICK p \in Plugin : p = thr[t].plugin
    BY <2>1 DEF CallerAt, ThreadState, NoObjectPC
  <2>3. /\ m_MessageQueue' = [m_MessageQueue EXCEPT ![p] = Append(@, thr[t].held)]
        /\ UNCHANGED <<flags, python, clocks, objects, worker>>
        /\ thr' = [thr EXCEPT ![t] = Idle]
    BY <1>4, <2>2 DEF PushUpdate
  <2>4. /\ thr'[t].pc # "initialize" /\ ~thr'[t].held.target
        /\ \A u \in Thread \ {t} : thr'[u] = thr[u]
    BY <1>i, <2>1, <2>3
  <2> QED
    BY <2>1, <2>2, <2>3, <2>4, PushTargets
<1>5. ASSUME NEW p \in Plugin, WorkerStep(p) PROVE TargetInv'
  BY <1>5, WorkerStepTargets
<1>6. ASSUME NEW t \in Thread, CallerStep(t) PROVE TargetInv'
  BY <1>6, CallerStepTargets
<1> QED
  BY <1>2, <1>3, <1>4, <1>5, <1>6 DEF Next, PublisherStep

\* A callback never finds its target released, however often a startup fails, and
\* whoever updates, stops or restarts the plugin meanwhile.
THEOREM TargetsAlive == Spec => []TargetAlive
<1>1. Init => TypeOK /\ RegistryInv /\ StopInv /\ TargetInv
  BY InitType, InitRegistry, InitStops, InitTargets
<1>2. TypeOK /\ RegistryInv /\ StopInv /\ TargetInv /\ [Next]_vars
         => (TypeOK /\ RegistryInv /\ StopInv /\ TargetInv)'
  BY StepType, StepRegistry, StepStops, StepTargets
<1>3. TargetInv => TargetAlive
  BY DEF TargetInv, TargetAtPlugin, HasOrGone, Gone, TargetAlive
<1> QED
  BY <1>1, <1>2, <1>3, PTL DEF Spec

-----------------------------------------------------------------------------
(***************************************************************************)
(* onStop and the load of the script. StopHardware tests m_bIsStarting and *)
(* then m_bIsStarted, so onStop may be queued while the plugin starts, for *)
(* the second flag is set once Initialize has been queued. But Initialize  *)
(* is due at once and onStop only later: as long as m_bIsStarting is set,  *)
(* Initialize is still with the thread that starts the plugin (and no      *)
(* onStop is queued), or it is in the queue in front of every onStop, or   *)
(* the worker has it in hand. The worker takes the first message that is   *)
(* due, so it has loaded the script before it takes onStop.                *)
(***************************************************************************)

\* An Initialize message that is due stands in front of every onStop.
InitializeFirst(q) ==
    \E i \in DOMAIN q :
        /\ q[i].type = "Initialize" /\ q[i].when = 0
        /\ \A j \in DOMAIN q : q[j].type = "onStop" => i < j

\* A thread has made the worker and has not queued Initialize.
Unpushed(p) == \E t \in Thread : thr[t].pc = "initialize" /\ thr[t].plugin = p

LoadAhead(p) ==
    \/ Unpushed(p)
    \/ InitializeFirst(m_MessageQueue[p])
    \/ wpc[p] = "process" /\ msg[p].type = "Initialize"
    \/ wpc[p] = "load"

LoadAtPlugin(p) ==
    /\ m_bIsStarting[p] /\ wpc[p] # "none" => LoadAhead(p)
    /\ Unpushed(p) => /\ m_bIsStarting[p] /\ ~m_bIsStarted[p] /\ ~QueuedStop(p)
                      /\ wpc[p] \notin {"finalise", "deregister"}
    /\ wpc[p] = "none" => ~QueuedStop(p) /\ ~onStopHandled[p]
    /\ StopInHand(p) \/ onStopHandled[p] => ~m_bIsStarting[p]

LoadAtThread(t) ==
    LET p == thr[t].plugin
    IN  /\ thr[t].pc = "spawn" => m_bIsStarting[p]
        /\ thr[t].pc \in {"started", "buildStop", "pushStop"} => ~Unpushed(p)

LoadInv ==
    /\ \A p \in Plugin : LoadAtPlugin(p)
    /\ \A t \in Thread : LoadAtThread(t)

\* What a step keeps of a plugin that a thread is about to start or has started.
LoadGoesOn(p) ==
    /\ wpc[p] = "none" /\ m_bIsStarting[p] => m_bIsStarting'[p]
    /\ Unpushed(p)' => Unpushed(p) \/ wpc[p] = "none"

(* What the steps do to a queue that has Initialize first.                 *)

\* A message at the back of the queue overtakes nothing.
LEMMA AppendFirst ==
    ASSUME NEW q \in Seq(Message), NEW m \in Message
    PROVE  /\ InitializeFirst(q) => InitializeFirst(Append(q, m))
           /\ m.type = "Initialize" /\ m.when = 0 /\ ~HasType(q, {"onStop"})
                 => InitializeFirst(Append(q, m))
<1> DEFINE r == Append(q, m)
<1>1. /\ DOMAIN r = DOMAIN q \union {Len(q) + 1}
      /\ \A i \in DOMAIN q : r[i] = q[i] /\ i \in Nat /\ i < Len(q) + 1
      /\ r[Len(q) + 1] = m
  OBVIOUS
<1> HIDE DEF r
<1>2. ASSUME InitializeFirst(q) PROVE InitializeFirst(r)
  <2>1. PICK i \in DOMAIN q :
           /\ q[i].type = "Initialize" /\ q[i].when = 0
           /\ \A j \in DOMAIN q : q[j].type = "onStop" => i < j
    BY <1>2 DEF InitializeFirst
  <2> QED
    BY <1>1, <2>1 DEF InitializeFirst
<1>3. ASSUME m.type = "Initialize", m.when = 0, ~HasType(q, {"onStop"})
      PROVE  InitializeFirst(r)
  BY <1>1, <1>3 DEF InitializeFirst, HasType
<1> QED
  BY <1>2, <1>3 DEF r

\* The same of MessagePlugin.
LEMMA MessagePluginFirst ==
    ASSUME NEW q \in Seq(Message), NEW p, NEW m \in Message, InitializeFirst(q)
    PROVE  InitializeFirst(MessagePlugin(q, p, m))
BY AppendFirst DEF MessagePlugin

\* What is due stays due.
LEMMA AgedFirst ==
    ASSUME NEW q \in Seq(Message), NEW s \in Nat, InitializeFirst(q)
    PROVE  InitializeFirst(Aged(q, s))
<1> DEFINE r == Aged(q, s)
<1>1. ASSUME NEW i \in DOMAIN q
      PROVE  /\ r[i].type = q[i].type
             /\ q[i].when = 0 => r[i].when = 0
  <2>1. q[i] \in Message
    OBVIOUS
  <2>2. r[i] = [q[i] EXCEPT !.when = Earlier(@, s)]
    BY DEF Aged
  <2> QED
    BY <2>1, <2>2 DEF Message, Earlier
<1>2. DOMAIN r = DOMAIN q
  BY DEF Aged
<1> HIDE DEF r
<1>3. PICK i \in DOMAIN q :
         /\ q[i].type = "Initialize" /\ q[i].when = 0
         /\ \A j \in DOMAIN q : q[j].type = "onStop" => i < j
  BY DEF InitializeFirst
<1>4. InitializeFirst(r)
  BY <1>1, <1>2, <1>3 DEF InitializeFirst
<1> QED
  BY <1>4 DEF r

\* The first message that is due is Initialize, or comes before it and is not
\* onStop; what was in front of it goes behind Initialize.
LEMMA RotateFirst ==
    ASSUME NEW q \in Seq(Message), NEW i \in DOMAIN q,
           \A j \in 1..(i - 1) : ~Due(q, j),
           InitializeFirst(q)
    PROVE  /\ q[i].type # "onStop"
           /\ \/ q[i].type = "Initialize"
              \/ InitializeFirst(SubSeq(q, i + 1, Len(q)) \o SubSeq(q, 1, i - 1))
<1> DEFINE r == SubSeq(q, i + 1, Len(q)) \o SubSeq(q, 1, i - 1)
           n == Len(q) - i
           from(k) == IF k <= n THEN k + i ELSE k - n
<1>1. PICK k \in DOMAIN q :
         /\ q[k].type = "Initialize" /\ q[k].when = 0
         /\ \A j \in DOMAIN q : q[j].type = "onStop" => k < j
  BY DEF InitializeFirst
<1>2. /\ i \in 1..Len(q) /\ k \in 1..Len(q) /\ Len(q) \in Nat /\ n \in Nat
      /\ n = Len(q) - i
  OBVIOUS
<1>3. k >= i
  BY <1>1, <1>2 DEF Due
<1>4. q[i].type # "onStop"
  BY <1>1, <1>2, <1>3
<1>5. /\ DOMAIN r = 1..(Len(q) - 1)
      /\ \A j \in DOMAIN r : r[j] = q[from(j)] /\ from(j) \in DOMAIN q
  BY RotateIndex
<1>6. ASSUME q[i].type # "Initialize" PROVE InitializeFirst(r)
  <2>1. k > i
    BY <1>1, <1>2, <1>3, <1>6
  <2> HIDE DEF r, n
  <2>2. k - i \in DOMAIN r /\ k - i <= n
    BY <1>2, <1>5, <2>1
  <2>3. r[k - i] = q[k]
    BY <1>2, <1>5, <2>2
  <2>4. ASSUME NEW j \in DOMAIN r, r[j].type = "onStop" PROVE k - i < j
    <3>1. j \in 1..(Len(q) - 1) /\ k < from(j)
      BY <1>1, <1>5, <2>4
    <3> QED
      BY <1>2, <2>2, <3>1
  <2> QED
    BY <1>1, <2>2, <2>3, <2>4 DEF InitializeFirst
<1> QED
  BY <1>4, <1>6

(* Plugins and threads that a step leaves as they are.                     *)

\* A plugin that a step does not touch, and that no thread begins or has begun.
LEMMA KeptLoads ==
    ASSUME NEW p, PluginKept(p), LoadAtPlugin(p), Unpushed(p)' <=> Unpushed(p)
    PROVE  LoadAtPlugin(p)' /\ LoadGoesOn(p)
BY DEF PluginKept, LoadAtPlugin, LoadGoesOn, LoadAhead, StopInHand, QueuedStop

\* A thread that a step leaves where it is.
LEMMA KeptThreadLoads ==
    ASSUME TypeOK, RegistryInv, StopInv, NEW t \in Thread, ThreadKept(t),
           LoadAtThread(t), \A p \in Plugin : LoadGoesOn(p)
    PROVE  LoadAtThread(t)'
<1>1. CASE thr[t].pc \in NoObjectPC
  BY <1>1 DEF ThreadKept, LoadAtThread, NoObjectPC
<1>2. CASE thr[t].pc \notin NoObjectPC
  <2> DEFINE p == thr[t].plugin
  <2>1. p \in Plugin /\ thr'[t].plugin = p /\ thr'[t].pc = thr[t].pc
    BY <1>2 DEF TypeOK, ThreadState, ThreadKept
  <2>2. thr[t].pc = "spawn" => wpc[p] = "none"
    BY DEF RegistryInv, StarterOwnsEntry, StartingPC
  <2>3. thr[t].pc \in {"started", "buildStop", "pushStop"} => wpc[p] # "none"
    BY DEF StopInv, StopAtThread
  <2> QED
    BY <2>1, <2>2, <2>3 DEF LoadAtThread, LoadGoesOn
<1> QED
  BY <1>1, <1>2

\* No thread begins to hold an Initialize message, or queues the one it holds.
LEMMA KeptUnpushed ==
    ASSUME NEW p
    PROVE  /\ (\A u \in Thread : ThreadKept(u)) => (Unpushed(p)' <=> Unpushed(p))
           /\ \A t \in Thread :
                 /\ \A u \in Thread \ {t} : ThreadKept(u)
                 /\ \/ thr[t].pc # "initialize" /\ thr'[t].pc # "initialize"
                    \/ thr[t].plugin # p /\ thr'[t].plugin # p
                 => (Unpushed(p)' <=> Unpushed(p))
BY DEF Unpushed, ThreadKept

\* A step of one thread, or of none, that concerns one plugin.
LEMMA LoadsFollow ==
    ASSUME TypeOK, RegistryInv, StopInv, LoadInv, NEW p \in Plugin, NEW t \in Thread,
           \A q \in Plugin \ {p} : PluginKept(q) /\ (Unpushed(q)' <=> Unpushed(q)),
           \A u \in Thread \ {t} : ThreadKept(u),
           LoadAtPlugin(p)', LoadGoesOn(p), ThreadKept(t) \/ LoadAtThread(t)'
    PROVE  LoadInv'
<1>1. \A q \in Plugin : LoadAtPlugin(q)' /\ LoadGoesOn(q)
  BY KeptLoads DEF LoadInv
<1>2. \A u \in Thread : LoadAtThread(u)'
  BY <1>1, KeptThreadLoads DEF LoadInv
<1> QED
  BY <1>1, <1>2 DEF LoadInv

\* A step that leaves every plugin alone.
LEMMA ThreadLoads ==
    ASSUME TypeOK, RegistryInv, StopInv, LoadInv, NEW t \in Thread,
           \A q \in Plugin : PluginKept(q) /\ (Unpushed(q)' <=> Unpushed(q)),
           \A u \in Thread \ {t} : ThreadKept(u),
           ThreadKept(t) \/ LoadAtThread(t)'
    PROVE  LoadInv'
<1>1. \A q \in Plugin : LoadAtPlugin(q)' /\ LoadGoesOn(q)
  BY KeptLoads DEF LoadInv
<1>2. \A u \in Thread : LoadAtThread(u)'
  BY <1>1, KeptThreadLoads DEF LoadInv
<1> QED
  BY <1>1, <1>2 DEF LoadInv

\* Nothing has been started at first.
LEMMA InitLoads == Init => LoadInv
<1> SUFFICES ASSUME Init PROVE LoadInv
  OBVIOUS
<1>1. \A t \in Thread : thr[t].pc \in {"idle", "boot"}
  <2>1. /\ Idle.pc = "idle"
        /\ \A p : Boot(p).pc = "boot"
    BY DEF Idle, Boot
  <2>2. \A t \in Thread : thr[t] = Idle \/ \E p : thr[t] = Boot(p)
    BY DEF Init
  <2> QED
    BY <2>1, <2>2
<1>2. \A p \in Plugin : ~Unpushed(p) /\ ~QueuedStop(p)
  <2>1. \A p \in Plugin : ~Unpushed(p)
    BY <1>1 DEF Unpushed
  <2>2. \A p \in Plugin : m_MessageQueue[p] = << >>
    BY DEF Init
  <2>3. ASSUME NEW p \in Plugin, m_MessageQueue[p] = << >> PROVE ~QueuedStop(p)
    BY <2>3 DEF QueuedStop
  <2> QED
    BY <2>1, <2>2, <2>3
<1>3. \A p \in Plugin : LoadAtPlugin(p)
  BY <1>2 DEF Init, LoadAtPlugin, StopInHand
<1>4. \A t \in Thread : LoadAtThread(t)
  BY <1>1 DEF LoadAtThread
<1> QED
  BY <1>3, <1>4 DEF LoadInv

\* The worker loads the script with Initialize, and takes onStop only then.
LEMMA WorkerStepLoads ==
    ASSUME TypeOK, RegistryInv, StopInv, TargetInv, LoadInv,
           NEW p \in Plugin, WorkerStep(p)
    PROVE  LoadInv'
<1> USE DEF LoadAtPlugin, LoadAhead, StopInHand, flags, python, clocks, objects, worker
<1> DEFINE q == m_MessageQueue[p]
           r == m_MessageQueue'[p]
           Has(s) == HasType(s, {"onStop"})
           Same == /\ InitializeFirst(q) => InitializeFirst(r)
                   /\ Has(r) => Has(q)
<1>h. /\ QueuedStop(p) <=> Has(q)
      /\ QueuedStop(p)' <=> Has(r)
  BY QueuedStopHas
<1>t. q \in Seq(Message) /\ lag[p] \in Nat /\ m_Interface[p] \in BOOLEAN
  BY DEF TypeOK
<1>s. LoadAtPlugin(p)
  BY DEF LoadInv
<1>f. /\ \A o \in Plugin \ {p} : PluginKept(o)
      /\ \A t \in Thread : ThreadKept(t)
      /\ \A o : Unpushed(o)' <=> Unpushed(o)
  BY WorkerFrame, KeptUnpushed
<1>n. Unpushed(p) => wpc[p] # "load" /\ ~(wpc[p] = "process" /\ msg[p].type \in Startup)
  BY DEF Unpushed, TargetInv, TargetAtThread, NoStartup, PendingStartup
<1>e. m_exitSignal[p] => ~Unpushed(p)
  BY <1>s DEF StopInv, StopAtPlugin, StopAssured, Dead
<1>w. wpc[p] # "none"
  BY DEF WorkerStep, OuterLoop, PopMessage, DropMessage, RunCallback, InitialiseQuery,
         InitialiseLoads, InitialiseFails, StartSucceeds, StartFails, RunStop, StopCheck,
         HeartbeatCheck, FinaliseStop, DeregisterPlugin, Processing, WorkerAt
<1>g. LoadGoesOn(p)
  BY <1>f, <1>w DEF LoadGoesOn
<1>d. ASSUME NEW how, Dies(how) PROVE LoadAtPlugin(p)'
  <2>1. PluginKept(p)
    BY <1>d, AllKeptBy DEF AllKept
  <2> QED
    BY <1>f, <1>s, <2>1, KeptLoads
<1> SUFFICES ASSUME ~\E how : Dies(how) PROVE LoadAtPlugin(p)'
  <2>1. LoadAtPlugin(p)'
    BY <1>d
  <2>2. "publisher" \in Thread
    BY DEF Thread
  <2> QED
    BY <1>f, <1>g, <2>1, <2>2, LoadsFollow
<1> HIDE DEF Same, Has, q, r, LoadInv
<1>q. UNCHANGED m_MessageQueue => Same
  BY DEF Same, q, r
<1>m. ASSUME NEW m \in Message, m.type # "onStop", r = q \/ r = MessagePlugin(q, p, m)
      PROVE  Same
  <2>1. CASE r = q
    BY <2>1 DEF Same
  <2>2. CASE r = MessagePlugin(q, p, m)
    BY <1>m, <1>t, <2>2, MessagePluginHas, MessagePluginFirst DEF Same, Has
  <2> QED
    BY <1>m, <2>1, <2>2
\* A step that neither takes a message nor lets one go.
<1>k. ASSUME Same, wpc'[p] # "none",
             wpc'[p] = "process" => wpc[p] = "process" /\ msg'[p] = msg[p],
             m_bIsStarting'[p] => /\ m_bIsStarting[p] /\ wpc[p] # "load"
                                  /\ wpc[p] = "process" =>
                                        \/ msg[p].type # "Initialize"
                                        \/ wpc'[p] = "load",
             Unpushed(p) => m_bIsStarting'[p] = m_bIsStarting[p]
                               /\ (m_bIsStarted'[p] => m_bIsStarted[p]),
             onStopHandled'[p] => onStopHandled[p] \/ StopInHand(p),
             wpc'[p] \in {"finalise", "deregister"} =>
                wpc[p] \in {"finalise", "deregister"} \/ m_exitSignal[p]
      PROVE  LoadAtPlugin(p)'
  BY <1>e, <1>f, <1>h, <1>k, <1>s, <1>w DEF Same, q, r
<1>1. CASE OuterLoop(p)
  <2>1. Same
    <3>1. r = q \/ r = Aged(q, lag[p])
      BY <1>1 DEF OuterLoop, TypeOK, q, r
    <3> QED
      BY <1>t, <3>1, AgedHas, AgedFirst DEF Same, Has
  <2> QED
    BY <1>1, <1>k, <2>1 DEF OuterLoop, WorkerAt, TypeOK
<1>2. CASE PopMessage(p)
  <2>1. CASE UNCHANGED <<msg, m_MessageQueue>> /\ wpc' = [wpc EXCEPT ![p] = "after"]
    BY <1>2, <1>k, <1>q, <2>1 DEF PopMessage, WorkerAt, TypeOK
  <2>2. ASSUME NEW i \in DOMAIN q,
               \A j \in 1..(i - 1) : ~Due(q, j),
               msg' = [msg EXCEPT ![p] = q[i]],
               m_MessageQueue' = [m_MessageQueue EXCEPT ![p] =
                   SubSeq(q, i + 1, Len(q)) \o SubSeq(q, 1, i - 1)],
               wpc' = [wpc EXCEPT ![p] = "process"]
        PROVE  LoadAtPlugin(p)'
    <3>1. /\ r = SubSeq(q, i + 1, Len(q)) \o SubSeq(q, 1, i - 1)
          /\ msg'[p] = q[i] /\ wpc'[p] = "process" /\ wpc[p] = "inner"
          /\ UNCHANGED <<m_bIsStarting, m_bIsStarted, onStopHandled>>
      BY <1>2, <2>2 DEF PopMessage, WorkerAt, TypeOK, r
    <3>2. /\ Has(r) => Has(q)
          /\ q[i].type = "onStop" => Has(q)
      BY <1>t, <2>2, <3>1, RotateHas DEF Has, HasType
    <3>3. InitializeFirst(q) => /\ q[i].type # "onStop"
                                /\ q[i].type = "Initialize" \/ InitializeFirst(r)
      BY <1>t, <2>2, <3>1, RotateFirst
    <3> QED
      BY <1>f, <1>h, <1>s, <3>1, <3>2, <3>3 DEF q, r
  <2> QED
    BY <1>2, <2>1, <2>2 DEF PopMessage, q
<1>3. CASE DropMessage(p) \/ RunCallback(p)
  BY <1>3, <1>k, <1>q DEF DropMessage, RunCallback, Processing, WorkerAt, TypeOK
<1>4. CASE InitialiseQuery(p)
  <2>1. wpc[p] = "process" /\ msg[p].type \in Startup
    BY <1>4 DEF InitialiseQuery, Processing, WorkerAt, Startup
  <2> QED
    BY <1>4, <1>k, <1>n, <1>q, <2>1
       DEF InitialiseQuery, StopDies, StopPython, WorkerAt, TypeOK
<1>5. CASE InitialiseLoads(p)
  <2> DEFINE m == NewMessage("onStart", FALSE)
  <2>1. m \in Message /\ m.type # "onStop"
    BY NewMessageType DEF MessageType, NewMessage
  <2> HIDE DEF m
  <2>2. r = MessagePlugin(q, p, m)
    BY <1>5 DEF InitialiseLoads, TypeOK, m, q, r
  <2>3. Same
    BY <1>m, <2>1, <2>2
  <2> QED
    BY <1>5, <1>k, <1>n, <2>3 DEF InitialiseLoads, WorkerAt, TypeOK
<1>6. CASE InitialiseFails(p)
  BY <1>6, <1>k, <1>n, <1>q DEF InitialiseFails, StopDies, StopPython, WorkerAt, TypeOK
<1>7. CASE StartSucceeds(p)
  <2>1. wpc[p] = "process" /\ msg[p].type \in Startup
    BY <1>7 DEF StartSucceeds, Processing, WorkerAt, Startup
  <2> QED
    BY <1>7, <1>k, <1>n, <1>q, <2>1 DEF StartSucceeds, WorkerAt, TypeOK
<1>8. CASE StartFails(p)
  <2> DEFINE m == NewMessage("Initialize", FALSE)
  <2>1. m \in Message /\ m.type # "onStop"
    BY NewMessageType DEF MessageType, NewMessage
  <2> HIDE DEF m
  <2>2. r = MessagePlugin(q, p, m)
    BY <1>8 DEF StartFails, TypeOK, m, q, r
  <2>3. Same /\ wpc[p] = "process" /\ msg[p].type \in Startup
    BY <1>8, <1>m, <2>1, <2>2 DEF StartFails, Processing, WorkerAt, Startup
  <2> QED
    BY <1>8, <1>k, <1>n, <2>3 DEF StartFails, WorkerAt, TypeOK
<1>9. CASE RunStop(p)
  BY <1>9, <1>k, <1>q DEF RunStop, Processing, WorkerAt, TypeOK
<1>10. CASE StopCheck(p)
  BY <1>10, <1>k, <1>q DEF StopCheck, NextLoop, WorkerAt, TypeOK
<1>11. CASE HeartbeatCheck(p)
  <2> DEFINE m == NewMessage("onHeartbeat", m_Interface[p])
  <2>1. m \in Message /\ m.type # "onStop"
    BY <1>t, NewMessageType DEF MessageType, NewMessage
  <2> HIDE DEF m
  <2>2. r = q \/ r = MessagePlugin(q, p, m)
    BY <1>11 DEF HeartbeatCheck, TypeOK, m, q, r
  <2>3. Same
    BY <1>m, <2>1, <2>2
  <2> QED
    BY <1>11, <1>k, <2>3 DEF HeartbeatCheck, NextLoop, WorkerAt, TypeOK
<1>12. CASE FinaliseStop(p)
  BY <1>12, <1>k, <1>q DEF FinaliseStop, StopDies, StopPython, WorkerAt, TypeOK
<1>13. CASE DeregisterPlugin(p)
  <2>1. ~Unpushed(p)
    BY <1>13, <1>s DEF DeregisterPlugin, WorkerAt
  <2> QED
    BY <1>13, <1>k, <1>q, <2>1 DEF DeregisterPlugin, WorkerAt, TypeOK
<1> QED
  BY <1>1, <1>2, <1>3, <1>4, <1>5, <1>6, <1>7, <1>8, <1>9, <1>10, <1>11, <1>12,
     <1>13 DEF WorkerStep

\* A message that is not Initialize goes to the back of a plugin's queue.
LEMMA PushLoads ==
    ASSUME TypeOK, RegistryInv, StopInv, LoadInv, NEW t \in Thread, NEW p \in Plugin,
           p = thr[t].plugin,
           CallerAt(t, "pushStop") \/ CallerAt(t, "pushUpdate"),
           m_MessageQueue' = [m_MessageQueue EXCEPT ![p] = Append(@, thr[t].held)],
           UNCHANGED <<flags, python, clocks, objects, worker>>,
           \A u \in Thread \ {t} : thr'[u] = thr[u],
           thr'[t].pc \in {"idle", "setStopping"}
    PROVE  LoadInv'
<1> USE DEF flags, python, clocks, objects, worker
<1> DEFINE m == thr[t].held
           q == m_MessageQueue[p]
           r == m_MessageQueue'[p]
<1>1. /\ m \in Message
      /\ m.type = "onStop" => wpc[p] # "none" /\ ~Unpushed(p)
  <2>1. CASE CallerAt(t, "pushStop")
    BY <2>1 DEF StopInv, StopAtThread, LoadInv, LoadAtThread, CallerAt, TypeOK,
                ThreadState, PushPC
  <2>2. CASE CallerAt(t, "pushUpdate")
    BY <2>2 DEF StopInv, StopAtThread, CallerAt, TypeOK, ThreadState, PushPC
  <2> QED
    BY <2>1, <2>2
<1>2. q \in Seq(Message) /\ r = Append(q, m) /\ LoadAtPlugin(p)
  BY DEF TypeOK, LoadInv
<1>3. /\ \A o \in Plugin \ {p} : PluginKept(o)
      /\ \A u \in Thread \ {t} : ThreadKept(u)
  BY DEF PluginKept, ThreadKept, TypeOK
<1>4. thr[t].pc # "initialize" /\ thr'[t].pc # "initialize"
  BY DEF CallerAt
<1>5. \A o : Unpushed(o)' <=> Unpushed(o)
  BY <1>3, <1>4, KeptUnpushed
<1>6. /\ QueuedStop(p) <=> HasType(q, {"onStop"})
      /\ QueuedStop(p)' <=> HasType(r, {"onStop"})
  BY QueuedStopHas
<1> HIDE DEF m, q, r
<1>7. /\ InitializeFirst(q) => InitializeFirst(r)
      /\ HasType(r, {"onStop"}) => HasType(q, {"onStop"}) \/ m.type = "onStop"
  BY <1>1, <1>2, AppendFirst, AppendHas
<1>8. LoadAtPlugin(p)' /\ LoadGoesOn(p)
  BY <1>1, <1>2, <1>5, <1>6, <1>7
     DEF LoadAtPlugin, LoadGoesOn, LoadAhead, StopInHand, q, r
<1>9. LoadAtThread(t)'
  BY DEF LoadAtThread
<1> QED
  BY <1>3, <1>5, <1>8, <1>9, LoadsFollow

\* The worker begins with m_bIsStarting set and an empty queue.
LEMMA SpawnWorkerLoads ==
    ASSUME TypeOK, RegistryInv, StopInv, LoadInv, NEW t \in Thread, SpawnWorker(t)
    PROVE  LoadInv'
<1> USE DEF flags, python, objects, worker
<1>1. PICK p \in Plugin : p = thr[t].plugin
  BY DEF SpawnWorker, CallerAt, TypeOK, ThreadState, NoObjectPC
<1>2. /\ wpc[p] = "none" /\ m_bIsStarting[p] /\ ~m_bIsStarted[p]
      /\ LoadAtPlugin(p)
  BY <1>1 DEF RegistryInv, StarterOwnsEntry, SpawnWorker, CallerAt, StartingPC,
              StopInv, StopAtPlugin, LoadInv, LoadAtThread
<1>3. /\ wpc'[p] = "outer"
      /\ UNCHANGED <<msg, m_MessageQueue, m_bIsStarting, m_bIsStarted, onStopHandled>>
  BY <1>1 DEF SpawnWorker, TypeOK
<1>4. /\ thr'[t].pc = "initialize" /\ thr'[t].plugin = p
      /\ thr[t].pc = "spawn"
  <2>1. thr'[t] = [thr[t] EXCEPT !.pc = "initialize"] /\ thr[t] \in ThreadState
    BY DEF SpawnWorker, TypeOK
  <2> QED
    BY <1>1, <2>1 DEF ThreadState, SpawnWorker, CallerAt
<1>5. Unpushed(p)'
  BY <1>4 DEF Unpushed
<1>6. LoadAtPlugin(p)' /\ LoadGoesOn(p)
  BY <1>2, <1>3, <1>5
     DEF LoadAtPlugin, LoadGoesOn, LoadAhead, StopInHand, QueuedStop
<1>7. /\ \A q \in Plugin \ {p} : PluginKept(q)
      /\ \A u \in Thread \ {t} : ThreadKept(u)
  BY <1>1, CallerFrame DEF CallerStep
<1>8. \A q \in Plugin \ {p} : Unpushed(q)' <=> Unpushed(q)
  BY <1>1, <1>4, <1>7, KeptUnpushed
<1>9. LoadAtThread(t)'
  BY <1>4 DEF LoadAtThread
<1> QED
  BY <1>6, <1>7, <1>8, <1>9, LoadsFollow

\* Initialize goes into a queue without onStop.
LEMMA PushInitializeLoads ==
    ASSUME TypeOK, RegistryInv, StopInv, TargetInv, LoadInv, NEW t \in Thread,
           PushInitialize(t)
    PROVE  LoadInv'
<1> USE DEF flags, python, clocks, objects, worker
<1>1. PICK p \in Plugin : p = thr[t].plugin
  BY DEF PushInitialize, CallerAt, TypeOK, ThreadState, NoObjectPC
<1>2. /\ Unpushed(p) /\ LoadAtPlugin(p)
      /\ m_exitSignal[p] => StopAssured(p)
  BY <1>1 DEF PushInitialize, CallerAt, Unpushed, LoadInv, StopInv, StopAtPlugin
<1>3. ~m_exitSignal[p]
  BY <1>2 DEF LoadAtPlugin, StopAssured, Dead
<1> DEFINE m == NewMessage("Initialize", FALSE)
           q == m_MessageQueue[p]
           r == m_MessageQueue'[p]
<1>4. /\ m \in Message /\ m.type = "Initialize" /\ m.when = 0
      /\ q \in Seq(Message) /\ r = Append(q, m)
  BY <1>1, <1>3, NewMessageType
     DEF MessageType, NewMessage, PushInitialize, MessagePlugin, TypeOK
<1>5. /\ QueuedStop(p) <=> HasType(q, {"onStop"})
      /\ QueuedStop(p)' <=> HasType(r, {"onStop"})
  BY QueuedStopHas
<1> HIDE DEF m, q, r
<1>6. ~HasType(r, {"onStop"}) /\ InitializeFirst(r)
  BY <1>2, <1>4, <1>5, AppendHas, AppendFirst DEF LoadAtPlugin
<1>7. /\ \A o \in Plugin \ {p} : PluginKept(o)
      /\ \A u \in Thread \ {t} : ThreadKept(u)
  BY <1>1, CallerFrame DEF CallerStep
<1>8. /\ thr'[t].pc = "started" /\ thr'[t].plugin = p
      /\ thr[t].pc = "initialize"
  <2>1. thr'[t] = [thr[t] EXCEPT !.pc = "started"] /\ thr[t] \in ThreadState
    BY DEF PushInitialize, TypeOK
  <2> QED
    BY <1>1, <2>1 DEF ThreadState, PushInitialize, CallerAt
<1>9. ~Unpushed(p)'
  BY <1>1, <1>7, <1>8 DEF Unpushed, ThreadKept, TargetInv, OneInitialiser
<1>10. LoadAtPlugin(p)' /\ LoadGoesOn(p)
  BY <1>2, <1>5, <1>6, <1>9
     DEF LoadAtPlugin, LoadGoesOn, LoadAhead, StopInHand, PushInitialize, r
<1>11. \A o \in Plugin \ {p} : Unpushed(o)' <=> Unpushed(o)
  BY <1>1, <1>7, <1>8, KeptUnpushed
<1>12. LoadAtThread(t)'
  BY <1>8, <1>9 DEF LoadAtThread
<1> QED
  BY <1>7, <1>10, <1>11, <1>12, LoadsFollow

\* The other steps of Start and Stop: m_bIsStarted tells StopHardware that
\* Initialize has been queued.
LEMMA CallerStepLoads ==
    ASSUME TypeOK, RegistryInv, StopInv, TargetInv, LoadInv, NEW t \in Thread,
           CallerStep(t)
    PROVE  LoadInv'
<1> USE DEF flags, python, clocks, objects, worker
<1>0. /\ thr[t] \in ThreadState
      /\ \A u \in Thread \ {t} : ThreadKept(u)
      /\ \A q \in Plugin : q # thr[t].plugin => PluginKept(q)
      /\ LoadAtThread(t)
  BY CallerFrame DEF TypeOK, LoadInv
<1>u. ASSUME thr[t].pc # "initialize", thr'[t].pc # "initialize"
      PROVE  \A q : Unpushed(q)' <=> Unpushed(q)
  BY <1>0, <1>u, KeptUnpushed
<1>i. Idle.pc = "idle"
  BY DEF Idle
<1>r. Returned(thr[t]).pc \in {"idle", "stopped"}
  BY <1>0, <1>i DEF Returned, ThreadState
<1>1. CASE Find(t)
  <2>1. \A q \in Plugin : PluginKept(q)
    BY <1>1, AllKeptBy DEF Find, Found, AllKept, PluginKept
  <2>2. thr[t].pc = "find" /\ thr \in [Thread -> ThreadState]
    BY <1>1 DEF Find, CallerAt, TypeOK
  <2>3. thr'[t].pc \in {"find", "idle", "StopHardware", "pushUpdate"}
    <3>1. CASE Dies("undefined")
      BY <2>2, <3>1 DEF Dies
    <3>2. CASE Found(t, thr[t].call, m_pPlugins)
      BY <1>0, <1>i, <2>2, <3>2 DEF Found, ThreadState
    <3> QED
      BY <1>1, <3>1, <3>2 DEF Find
  <2>4. LoadAtThread(t)'
    BY <2>3 DEF LoadAtThread
  <2>5. \A q : Unpushed(q)' <=> Unpushed(q)
    BY <1>u, <2>2, <2>3
  <2> QED
    BY <1>0, <2>1, <2>4, <2>5, ThreadLoads
<1>2. CASE StartHardware(t)
  <2>1. PICK p \in Plugin : p = thr[t].plugin
    BY <1>2 DEF StartHardware, CallerAt, TypeOK, ThreadState, NoObjectPC
  <2>2. wpc[p] = "none" /\ LoadAtPlugin(p)
    BY <1>2, <2>1 DEF RegistryInv, StarterOwnsEntry, StartHardware, CallerAt,
                      StartingPC, LoadInv
  <2>3. m_MessageQueue'[p] = << >> /\ m_bIsStarting'[p]
    BY <1>2, <2>1 DEF StartHardware, TypeOK
  <2>4. /\ thr'[t].pc = "spawn" /\ thr'[t].plugin = p
        /\ thr[t].pc = "StartHardware"
    <3>1. thr'[t] = [thr[t] EXCEPT !.pc = "spawn"]
      BY <1>2 DEF StartHardware, TypeOK
    <3> QED
      BY <1>0, <1>2, <2>1, <3>1 DEF ThreadState, StartHardware, CallerAt
  <2>5. \A q : Unpushed(q)' <=> Unpushed(q)
    BY <1>u, <2>4
  <2>6. ~QueuedStop(p)'
    BY <2>3 DEF QueuedStop
  <2>7. LoadAtPlugin(p)' /\ LoadGoesOn(p)
    BY <1>2, <2>2, <2>3, <2>5, <2>6
       DEF StartHardware, LoadAtPlugin, LoadGoesOn, LoadAhead, StopInHand, StopInv,
           StopAtPlugin
  <2>8. LoadAtThread(t)'
    BY <2>3, <2>4 DEF LoadAtThread
  <2> QED
    BY <1>0, <2>1, <2>5, <2>7, <2>8, LoadsFollow
<1>3. CASE SpawnWorker(t)
  BY <1>3, SpawnWorkerLoads
<1>4. CASE PushInitialize(t)
  BY <1>4, PushInitializeLoads
<1>5. CASE StartReturns(t) \/ StopReturns(t) \/ SetStopping(t)
  <2>1. PICK p \in Plugin : p = thr[t].plugin
    BY <1>5 DEF StartReturns, StopReturns, SetStopping, CallerAt, TypeOK,
                ThreadState, NoObjectPC
  <2>2. thr'[t] = Idle \/ thr'[t] = Returned(thr[t])
    BY <1>5 DEF StartReturns, StopReturns, SetStopping, TypeOK
  <2>3. /\ thr[t].pc \in {"started", "stopped", "setStopping"}
        /\ thr'[t].pc \in {"idle", "stopped"}
    BY <1>5, <1>i, <1>r, <2>2 DEF StartReturns, StopReturns, SetStopping, CallerAt
  <2>4. \A q : Unpushed(q)' <=> Unpushed(q)
    BY <1>u, <2>3
  <2>5. /\ UNCHANGED <<wpc, msg, m_MessageQueue, m_bIsStarting, onStopHandled>>
        /\ m_bIsStarted'[p] => m_bIsStarted[p] \/ thr[t].pc = "started"
    BY <1>5, <2>1 DEF StartReturns, StopReturns, SetStopping, CallerAt, TypeOK
  <2>6. thr[t].pc = "started" => ~Unpushed(p)
    BY <1>0, <2>1 DEF LoadAtThread
  <2>7. LoadAtPlugin(p)' /\ LoadGoesOn(p)
    BY <2>4, <2>5, <2>6
       DEF LoadInv, LoadAtPlugin, LoadGoesOn, LoadAhead, StopInHand, QueuedStop
  <2>8. LoadAtThread(t)'
    BY <2>3 DEF LoadAtThread
  <2> QED
    BY <1>0, <2>1, <2>4, <2>7, <2>8, LoadsFollow
<1>6. CASE StopHardware(t) \/ IfStarted(t) \/ BuildStop(t)
  <2>1. PICK p \in Plugin : p = thr[t].plugin
    BY <1>6 DEF StopHardware, IfStarted, BuildStop, CallerAt, TypeOK, ThreadState,
                NoObjectPC
  <2>2. \A q \in Plugin : PluginKept(q)
    BY <1>6 DEF StopHardware, IfStarted, BuildStop, PluginKept
  <2>3. /\ thr[t].pc \in {"StopHardware", "ifStarted", "buildStop"}
        /\ \/ thr'[t] = Returned(thr[t])
           \/ \E pc \in {"ifStarted", "setStopping"} :
                 thr'[t] = [thr[t] EXCEPT !.pc = pc]
           \/ m_bIsStarted[p] /\ thr'[t] = [thr[t] EXCEPT !.pc = "buildStop"]
           \/ /\ thr[t].pc = "buildStop"
              /\ thr'[t] = [thr[t] EXCEPT !.pc = "pushStop",
                                          !.held = onStopCallback(p)]
    BY <1>6, <2>1 DEF StopHardware, IfStarted, BuildStop, CallerAt, TypeOK
  <2>4. /\ thr'[t].pc \in {"idle", "stopped", "ifStarted", "setStopping"}
              \/ /\ thr'[t].pc \in {"buildStop", "pushStop"}
                 /\ thr'[t].plugin = p
                 /\ thr[t].pc = "buildStop" \/ m_bIsStarted[p]
    BY <1>0, <1>r, <2>1, <2>3 DEF ThreadState
  <2>5. \A q : Unpushed(q)' <=> Unpushed(q)
    BY <1>u, <2>3, <2>4
  <2>6. thr[t].pc = "buildStop" \/ m_bIsStarted[p] => ~Unpushed(p)
    BY <1>0, <2>1 DEF LoadInv, LoadAtPlugin, LoadAtThread
  <2>7. LoadAtThread(t)'
    BY <2>4, <2>5, <2>6 DEF LoadAtThread
  <2> QED
    BY <1>0, <2>2, <2>5, <2>7, ThreadLoads
<1>7. CASE PushStop(t)
  <2>1. PICK p \in Plugin : p = thr[t].plugin
    BY <1>7 DEF PushStop, CallerAt, TypeOK, ThreadState, NoObjectPC
  <2>2. /\ CallerAt(t, "pushStop")
        /\ m_MessageQueue' = [m_MessageQueue EXCEPT ![p] = Append(@, thr[t].held)]
        /\ UNCHANGED <<flags, python, clocks, objects, worker>>
        /\ \A u \in Thread \ {t} : thr'[u] = thr[u]
        /\ thr'[t] = [thr[t] EXCEPT !.pc = "setStopping", !.held = NoMessage]
    BY <1>7, <2>1 DEF PushStop, TypeOK
  <2>3. thr'[t].pc = "setStopping"
    BY <1>0, <2>2 DEF ThreadState
  <2> QED
    BY <2>1, <2>2, <2>3, PushLoads
<1> QED
  BY <1>1, <1>2, <1>3, <1>4, <1>5, <1>6, <1>7 DEF CallerStep

\* Every step keeps the invariant of the load.
LEMMA StepLoads ==
    TypeOK /\ RegistryInv /\ StopInv /\ TargetInv /\ LoadInv /\ [Next]_vars => LoadInv'
<1> SUFFICES ASSUME TypeOK, RegistryInv, StopInv, TargetInv, LoadInv, [Next]_vars
             PROVE  LoadInv'
  OBVIOUS
<1>0. "publisher" \in Thread
  BY DEF Thread
<1>1. CASE AllKept
  BY <1>0, <1>1, KeptUnpushed, ThreadLoads DEF AllKept
<1>2. CASE DatabaseStep \/ Tick \/ UNCHANGED vars
  BY <1>1, <1>2, AllKeptBy
<1>3. CASE DatabaseUpdate \/ Recount \/ StartDomoticzHardware \/ RestartPlugin
  <2>1. PICK t \in Thread :
           /\ thr'[t].pc \in {"idle", "recount", "find", "StartHardware"}
           /\ thr[t].pc \notin PushPC \union {"initialize"}
           /\ \A u \in Thread \ {t} : ThreadKept(u)
    BY <1>3, LookupFrame
  <2>2. \A p : Unpushed(p)' <=> Unpushed(p)
    BY <2>1, KeptUnpushed
  <2>3. LoadAtThread(t)'
    BY <2>1 DEF LoadAtThread
  <2> QED
    BY <1>3, <2>1, <2>2, <2>3, LookupFrame, ThreadLoads
<1>4. CASE PushUpdate
  <2> DEFINE t == "publisher"
  <2>1. t \in Thread /\ CallerAt(t, "pushUpdate") /\ thr \in [Thread -> ThreadState]
    BY <1>4 DEF Thread, PushUpdate, TypeOK
  <2>2. PICK p \in Plugin : p = thr[t].plugin
    BY <2>1 DEF CallerAt, ThreadState, NoObjectPC
  <2>3. /\ m_MessageQueue' = [m_MessageQueue EXCEPT ![p] = Append(@, thr[t].held)]
        /\ UNCHANGED <<flags, python, clocks, objects, worker>>
        /\ thr' = [thr EXCEPT ![t] = Idle]
    BY <1>4, <2>2 DEF PushUpdate
  <2>4. /\ thr'[t].pc \in {"idle", "setStopping"}
        /\ \A u \in Thread \ {t} : thr'[u] = thr[u]
    BY <2>1, <2>3 DEF Idle
  <2> QED
    BY <2>1, <2>2, <2>3, <2>4, PushLoads
<1>5. ASSUME NEW p \in Plugin, WorkerStep(p) PROVE LoadInv'
  BY <1>5, WorkerStepLoads
<1>6. ASSUME NEW t \in Thread, CallerStep(t) PROVE LoadInv'
  BY <1>6, CallerStepLoads
<1> QED
  BY <1>2, <1>3, <1>4, <1>5, <1>6 DEF Next, PublisherStep

\* onStop may be queued while the plugin starts, by a thread whose two tests lie
\* on either side of the start; the worker takes it only when the script's load
\* is over.
THEOREM StopComesAfterLoad == Spec => []StopAfterLoad
<1>1. Init => TypeOK /\ RegistryInv /\ StopInv /\ TargetInv /\ LoadInv
  BY InitType, InitRegistry, InitStops, InitTargets, InitLoads
<1>2. TypeOK /\ RegistryInv /\ StopInv /\ TargetInv /\ LoadInv /\ [Next]_vars
         => (TypeOK /\ RegistryInv /\ StopInv /\ TargetInv /\ LoadInv)'
  BY StepType, StepRegistry, StepStops, StepTargets, StepLoads
<1>3. LoadInv => StopAfterLoad
  BY DEF LoadInv, LoadAtPlugin, StopInHand, StopAfterLoad
<1> QED
  BY <1>1, <1>2, <1>3, PTL DEF Spec
=============================================================================
