---------------------------- MODULE PluginDevices ----------------------------
(***************************************************************************)
(* What one plugin knows of the database: the dictionary Devices of its    *)
(* Interface object, and the dictionary Values of each Device object.      *)
(*                                                                         *)
(*   writers     any thread changes a row: REST, another plugin, a script  *)
(*   publisher   CPluginSystem::DatabaseUpdate, one entry after another:   *)
(*               it looks up the plugin and queues a message for it        *)
(*   worker      the plugin's thread: onStart loads the dictionaries, and  *)
(*               a message for a row brings them up to date                *)
(*                                                                         *)
(* The publisher looks at the dictionaries without a lock, except for a    *)
(* value that was deleted, while the worker may be in the middle of a      *)
(* load, which is several statements.  The interface is one that stays     *)
(* active; PluginLifecycle has what starts and stops the plugin.           *)
(***************************************************************************)
EXTENDS Integers, Sequences, FiniteSets, SequencesExt

CONSTANTS Device, Value,  \* the IDs there may be
          Owner,          \* Owner[v] : Value.DeviceID
          InternalID,     \* the texts of the column InternalID
          FirstID,        \* FirstID[r] : what it is when the row is inserted
          MaxWrites       \* bound on the statements of the writers

ASSUME DevicesConstants ==
    /\ IsFiniteSet(Device) /\ IsFiniteSet(Value)
    /\ Device \cup Value \subseteq Nat \ {0}
    /\ Device \cap Value = {}
    /\ Owner \in [Value -> Device]
    /\ FirstID \in [Device \cup Value -> InternalID]
    /\ MaxWrites \in Nat

VARIABLES
    table,     \* the rows
    log,       \* the entries DatabaseUpdate has not had yet
    plugin,    \* whether it is in m_pPlugins, and whether m_Interface is set
    Devices,   \* the dictionary, by InternalID
    messages,  \* m_MessageQueue
    load,      \* where the worker is in CDevice_init
    dead,      \* the process used m_Interface before it was set
    \* history
    writes,    \* how many statements the writers had
    keys,      \* keys[r] : every InternalID that r ever had
    misled     \* rows of which news was dropped at a moment that matters, or
               \* the plugin was told what then was taken back

workerVars == <<plugin, Devices, load>>
vars == <<table, log, plugin, Devices, messages, load, dead,
          writes, keys, misled>>

Row == Device \cup Value
Content == {1, 2}
None == [id |-> 0]
\* What an object has before its first refresh.
NoData == [key |-> "", data |-> 0, active |-> FALSE]
RowData == [key : InternalID, data : Content, active : BOOLEAN]
Key == InternalID \cup {""}

\* kept is history: the row did come or go.  It is FALSE for a statement that
\* was refused after the hook had been called.
Entry == [action : {"Insert", "Update", "Delete"}, row : Row, kept : BOOLEAN]
Message == [on : {"onStart"}] \cup
           [on : {"onCreate", "onUpdate", "onDelete"}, row : Row]

ValuesOf(d) == {v \in Value : Owner[v] = d}
Present(S) == {r \in S : table[r] # None}

ValueObject == [id : Value, row : RowData \cup {NoData}]
\* A device has values of its own only.
DeviceObject ==
    {object \in [id : Device, row : RowData \cup {NoData},
                 values : [Key -> ValueObject \cup {None}]] :
        \A k \in Key : object.values[k] # None =>
            object.values[k].id \in ValuesOf(object.id)}

NoValues == [k \in Key |-> None]

\* The load of one device: its object, the values still to be added to it,
\* and the devices that are loaded after it.
Load == [step : {"refresh", "inactive", "select", "values"}, device : Device,
         rest : SUBSET Device, object : DeviceObject \cup {None},
         todo : SUBSET Value]
Idle == [step |-> "idle"]

-----------------------------------------------------------------------------
(***************************************************************************)
(* The objects: [id, row, values], a value without the last.               *)
(***************************************************************************)

\* CDevice_refresh and CValue_refresh: the object keeps what it has when the
\* row is gone.
Refreshed(object) ==
    IF table[object.id] = None THEN object
    ELSE [object EXCEPT !.row = table[object.id]]

Loaded(r) == [id |-> r,
              row |-> IF table[r] = None THEN NoData ELSE table[r]]

\* CInterface::FindDevice and CDevice::FindValue: the key it is found under.
Find(dictionary, r) == {k \in Key : dictionary[k].id = r}
FindDevice(d) == Find(Devices, d)
FindValue(k, v) == Find(Devices[k].values, v)

\* PluginFromDeviceID, PluginFromValueID (also what onDeleteValueCallback
\* goes through).
KnowsDevice(d) == plugin = "started" /\ FindDevice(d) # {}
Holders(v) == {k \in Key : Devices[k] # None /\ FindValue(k, v) # {}}

SetItem(dictionary, object) == [dictionary EXCEPT ![object.row.key] = object]

\* PyDict_DelItem with the InternalID that the object has now, which is not
\* always the key it is under: it may remove another object, or none.
DelItem(dictionary, object) == [dictionary EXCEPT ![object.row.key] = None]

-----------------------------------------------------------------------------
TypeOK ==
    /\ table \in [Row -> RowData \cup {None}]
    /\ log \in Seq(Entry)
    /\ plugin \in {"unregistered", "initialising", "initialised", "started"}
    /\ Devices \in [Key -> DeviceObject \cup {None}]
    /\ messages \in Seq(Message)
    /\ load \in Load \cup {Idle}
    /\ load # Idle =>
          /\ load.todo \subseteq ValuesOf(load.device)
          /\ load.step # "refresh" => /\ load.object \in DeviceObject
                                      /\ load.object.id = load.device
    /\ dead \in BOOLEAN
    /\ writes \in 0 .. MaxWrites
    /\ keys \in [Row -> SUBSET InternalID]
    /\ misled \subseteq Row

Init ==
    /\ table \in [Row -> [key : InternalID, data : {1}, active : BOOLEAN]
                            \cup {None}]
    /\ \A r \in Row : table[r] # None => table[r].key = FirstID[r]
    /\ \A v \in Value : table[v] # None =>
          table[Owner[v]] # None /\ ~table[v].active
    /\ log = << >>
    /\ plugin = "unregistered"
    /\ Devices = [k \in Key |-> None]
    /\ messages = << >>
    /\ load = Idle
    /\ dead = FALSE
    /\ writes = 0
    /\ keys = [r \in Row |-> IF table[r] = None THEN {} ELSE {table[r].key}]
    /\ misled = {}

-----------------------------------------------------------------------------
(***************************************************************************)
(* Writers.  Each statement adds its entries to the publisher's queue      *)
(* (UpdatePublisher), also one that the foreign keys refuse at its end.    *)
(***************************************************************************)

Says(action, r) == [action |-> action, row |-> r, kept |-> TRUE]
TakenBack(action, r) == [action |-> action, row |-> r, kept |-> FALSE]

Statement(t, entries) ==
    /\ writes' = writes + 1
    /\ table' = t
    /\ log' = log \o entries
    /\ keys' = [r \in Row |-> IF t[r] = None THEN keys[r]
                              ELSE keys[r] \cup {t[r].key}]
    /\ UNCHANGED <<workerVars, messages, dead, misled>>

\* An ID is used once (AUTOINCREMENT), and a Value refers to a Device.
InsertRow(r) ==
    /\ keys[r] = {}
    /\ r \in Value => table[Owner[r]] # None
    /\ Statement([table EXCEPT ![r] =
                     [key |-> FirstID[r], data |-> 1, active |-> FALSE]],
                 <<Says("Insert", r)>>)

\* A Value of a Unit that is not there, which is what CValue_insert writes when
\* it does not find the Unit of the script, or of a Device that is gone.  Its
\* ID is free again.
InsertRefused(v) ==
    /\ keys[v] = {}
    /\ Statement(table, <<TakenBack("Insert", v)>>)

\* One column; a Value has no Active, and keeps its InternalID here.
UpdateRow(r) ==
    /\ table[r] # None
    /\ \E new \in RowData :
          /\ \E c \in {"key", "data", "active"} :
                /\ r \in Value => c = "data"
                /\ new # table[r]
                /\ new = [table[r] EXCEPT ![c] = new[c]]
          /\ Statement([table EXCEPT ![r] = new], <<Says("Update", r)>>)

\* A Value to a Unit that is not there.  The plugin is told to read the row, as
\* after any update.  (Of one to a Device that is not there it is not told.)
UpdateRefused(v) ==
    /\ table[v] # None
    /\ Statement(table, <<Says("Update", v)>>)

\* DeviceBeforeDeleteTrigger: the values of a device go before it, in an order
\* that SQLite chooses.
Below(r) == Present({v \in Value : Owner[v] = r})
Deletions(r) ==
    {Append(order, r) : order \in {f \in [1 .. Cardinality(Below(r)) -> Below(r)] :
                                      ToSet(f) = Below(r)}}

DeleteRow(r) ==
    /\ table[r] # None
    /\ \E gone \in Deletions(r) :
          Statement([q \in Row |-> IF q \in Below(r) \cup {r} THEN None
                                  ELSE table[q]],
                    [i \in DOMAIN gone |-> Says("Delete", gone[i])])

\* One of the values is on a dashboard (Element.ValueID).
DeleteRefused(r) ==
    /\ table[r] # None
    /\ r \in Device => Below(r) # {}
    /\ \E gone \in Deletions(r) :
          Statement(table, [i \in DOMAIN gone |-> TakenBack("Delete", gone[i])])

-----------------------------------------------------------------------------
(***************************************************************************)
(* The publisher: CPluginSystem::DatabaseUpdate.                           *)
(***************************************************************************)

\* History: the entry was dropped although the row is, or will be, in the
\* dictionaries as it was before.
\*  - a device is deleted while its load is in progress or still to come;
\*  - a value appears or changes after the load of its device, which is not
\*    in the dictionary yet, has gone past it;
\*  - a value is deleted while the message that loads it waits.
Loading(d) ==
    \/ [on |-> "onCreate", row |-> d] \in ToSet(messages)
    \/ load # Idle /\ (load.device = d \/ d \in load.rest)

WentPast(v) ==
    /\ load.step = "values" /\ load.device = Owner[v]
    /\ v \notin load.todo

Matters(e) ==
    /\ e.kept
    /\ IF e.action = "Delete" THEN Loading(e.row)
       ELSE e.row \in Value /\ WentPast(e.row)

\* What is forwarded of a row that did not come or go misleads the plugin.
Forward(e, on) ==
    /\ messages' = Append(messages, [on |-> on, row |-> e.row])
    /\ misled' = IF e.kept THEN misled ELSE misled \cup {e.row}
    /\ UNCHANGED dead

Drop(e) ==
    /\ misled' = IF Matters(e) THEN misled \cup {e.row} ELSE misled
    /\ UNCHANGED <<messages, dead>>

Die == dead' = TRUE /\ UNCHANGED <<messages, misled>>

\* "Devices": the plugin is found by the InterfaceID of the entry, but for
\* Delete by its dictionary.
DeviceNews(e) ==
    IF plugin = "unregistered" THEN Drop(e)
    ELSE \/ e.action = "Insert" /\ Forward(e, "onCreate")
         \/ e.action = "Update" /\ Forward(e, "onUpdate")
         \/ /\ e.action = "Delete"
            /\ IF KnowsDevice(e.row) THEN Forward(e, "onDelete") ELSE Drop(e)

ValueWritten(e) ==
    IF KnowsDevice(Owner[e.row])
    THEN Forward(e, IF e.action = "Insert" THEN "onCreate" ELSE "onUpdate")
    ELSE Drop(e)

\* Mutant: news of a value that is gone waits until the value is found.
MutValueNews(e) ==
    IF e.action # "Delete" THEN ValueWritten(e)
    ELSE \/ plugin = "unregistered" /\ Drop(e)
         \/ /\ plugin = "started" /\ load = Idle
            /\ Holders(e.row) # {} /\ Forward(e, "onDelete")
         \/ plugin \in {"initialising", "initialised"} /\ Die

\* "Values": by the dictionaries.  For Delete that is PluginFromValueID, which
\* takes the Python lock (the worker has it through a message), and goes
\* through m_Interface of every plugin that is registered.
ValueNews(e) ==
    IF e.action # "Delete" THEN ValueWritten(e)
    ELSE \/ plugin = "unregistered" /\ Drop(e)
         \/ /\ plugin = "started" /\ load = Idle
            /\ IF Holders(e.row) # {} THEN Forward(e, "onDelete") ELSE Drop(e)
         \/ plugin \in {"initialising", "initialised"} /\ Die

DatabaseUpdate ==
    /\ ~dead
    /\ log # << >>
    /\ log' = Tail(log)
    /\ LET e == Head(log)
       IN  IF e.row \in Device THEN DeviceNews(e) ELSE ValueNews(e)
    /\ UNCHANGED <<table, workerVars, writes, keys>>

-----------------------------------------------------------------------------
(***************************************************************************)
(* The worker.                                                             *)
(***************************************************************************)

\* RegisterPlugin puts it in m_pPlugins, and its thread begins.
Register ==
    /\ plugin = "unregistered"
    /\ plugin' = "initialising"
    /\ UNCHANGED <<table, log, Devices, messages, load, dead, writes, keys,
                   misled>>

\* The end of Initialise: what was queued until then comes before onStart.
Initialise ==
    /\ ~dead
    /\ plugin = "initialising"
    /\ plugin' = "initialised"
    /\ messages' = Append(messages, [on |-> "onStart"])
    /\ UNCHANGED <<table, log, Devices, load, dead, writes, keys, misled>>

\* The load of the devices in rest, one after the other by their ID.
LoadAll(rest) ==
    IF rest = {} THEN Idle
    ELSE [step |-> "refresh", device |-> Min(rest), rest |-> rest \ {Min(rest)},
          object |-> None, todo |-> {}]

Take(on) ==
    /\ ~dead
    /\ load = Idle
    /\ messages # << >> /\ Head(messages).on = on
    /\ messages' = Tail(messages)

\* CPlugin::Start and CInterface_init.
OnStart ==
    /\ Take("onStart")
    /\ plugin' = "started"
    /\ load' = LoadAll(Present(Device))
    /\ UNCHANGED <<table, log, Devices, dead, writes, keys, misled>>

\* ProcessLocked of the other callbacks begins with m_Interface->FindDevice.
WithoutInterface ==
    /\ plugin = "initialised"
    /\ \E on \in {"onCreate", "onUpdate", "onDelete"} : Take(on)
    /\ dead' = TRUE
    /\ UNCHANGED <<table, log, workerVars, writes, keys, misled>>

\* The next four are CDevice_init, which onStart and onCreate call through
\* AddDeviceToDict: statements, between which others write.
Refresh ==
    /\ load.step = "refresh"
    /\ LET object == [id |-> load.device, row |-> Loaded(load.device).row,
                      values |-> NoValues]
       IN  load' = [load EXCEPT !.object = object,
                                !.step = IF object.row.active THEN "inactive"
                                         ELSE "select"]
    /\ UNCHANGED <<table, log, plugin, Devices, messages, dead, writes, keys,
                   misled>>

\* CDevice_update writes Address with Active: what it was at the refresh.
WriteInactive ==
    /\ load.step = "inactive"
    /\ LET d == load.device
       IN  IF table[d] = None THEN UNCHANGED <<table, log>>
           ELSE /\ table' = [table EXCEPT ![d].data = load.object.row.data,
                                          ![d].active = FALSE]
                /\ log' = Append(log, Says("Update", d))
    /\ load' = [load EXCEPT !.object.row.active = FALSE, !.step = "select"]
    /\ UNCHANGED <<plugin, Devices, messages, dead, writes, keys, misled>>

\* Mutant: the values of every device.
MutSelectValues ==
    /\ load.step = "select"
    /\ load' = [load EXCEPT !.todo = Present(Value),
                            !.step = "values"]
    /\ UNCHANGED <<table, log, plugin, Devices, messages, dead, writes, keys,
                   misled>>

SelectValues ==
    /\ load.step = "select"
    /\ load' = [load EXCEPT
                   !.todo = Present(ValuesOf(load.device)),
                   !.step = "values"]
    /\ UNCHANGED <<table, log, plugin, Devices, messages, dead, writes, keys,
                   misled>>

\* CDevice::AddValueToDict, for the next of them by its ID.
AddValue ==
    /\ load.step = "values"
    /\ load.todo # {}
    /\ LET v == Min(load.todo)
       IN  load' = [load EXCEPT !.object.values = SetItem(@, Loaded(v)),
                                !.todo = @ \ {v}]
    /\ UNCHANGED <<table, log, plugin, Devices, messages, dead, writes, keys,
                   misled>>

\* The end of AddDeviceToDict: only now does the publisher find the device.
AddDevice ==
    /\ load.step = "values"
    /\ load.todo = {}
    /\ Devices' = SetItem(Devices, load.object)
    /\ load' = LoadAll(load.rest)
    /\ UNCHANGED <<table, log, plugin, messages, dead, writes, keys, misled>>

\* The messages for a device or a value.  What the script does in its callback
\* is one of the writers.
Handle(on, r) ==
    /\ plugin = "started"
    /\ messages # << >> /\ Head(messages) = [on |-> on, row |-> r]
    /\ Take(on)
    /\ UNCHANGED <<table, log, plugin, dead, writes, keys, misled>>

OnCreateDevice(d) ==
    /\ Handle("onCreate", d)
    /\ load' = IF FindDevice(d) = {} THEN LoadAll({d}) ELSE Idle
    /\ UNCHANGED Devices

\* Mutant: the object is not refreshed before the callback.
MutOnUpdateDevice(d) ==
    /\ Handle("onUpdate", d)
    /\ UNCHANGED <<Devices, load>>

OnUpdateDevice(d) ==
    /\ Handle("onUpdate", d)
    /\ Devices' = [k \in Key |-> IF k \in FindDevice(d)
                                 THEN Refreshed(Devices[k]) ELSE Devices[k]]
    /\ UNCHANGED load

OnDeleteDevice(d) ==
    /\ Handle("onDelete", d)
    /\ IF FindDevice(d) = {} THEN UNCHANGED Devices
       ELSE \E k \in FindDevice(d) : Devices' = DelItem(Devices, Devices[k])
    /\ UNCHANGED load

\* onCreateValueCallback loads the value unless the load of its device, after
\* the insert, had it.
OnCreateValue(v) ==
    /\ Handle("onCreate", v)
    /\ Devices' = [k \in Key |->
                      IF k \in FindDevice(Owner[v]) /\ FindValue(k, v) = {}
                      THEN [Devices[k] EXCEPT !.values = SetItem(@, Loaded(v))]
                      ELSE Devices[k]]
    /\ UNCHANGED load

OnUpdateValue(v) ==
    /\ Handle("onUpdate", v)
    /\ Devices' = [k \in Key |->
                      IF k \in FindDevice(Owner[v])
                      THEN [Devices[k] EXCEPT !.values =
                               [j \in Key |-> IF j \in FindValue(k, v)
                                              THEN Refreshed(@[j]) ELSE @[j]]]
                      ELSE Devices[k]]
    /\ UNCHANGED load

OnDeleteValue(v) ==
    /\ Handle("onDelete", v)
    /\ Devices' = [k \in Key |->
                      IF k \in Holders(v)
                      THEN LET j == CHOOSE j \in FindValue(k, v) : TRUE
                           IN  [Devices[k] EXCEPT !.values =
                                   DelItem(@, @[j])]
                      ELSE Devices[k]]
    /\ UNCHANGED load

-----------------------------------------------------------------------------
Writer ==
    /\ ~dead
    /\ writes < MaxWrites
    /\ \/ \E r \in Row :
             InsertRow(r) \/ UpdateRow(r) \/ DeleteRow(r) \/ DeleteRefused(r)
       \/ \E v \in Value : InsertRefused(v) \/ UpdateRefused(v)

Worker ==
    \/ Initialise \/ OnStart \/ WithoutInterface
    \/ Refresh \/ WriteInactive \/ SelectValues \/ AddValue \/ AddDevice
    \/ \E d \in Device :
          OnCreateDevice(d) \/ OnUpdateDevice(d) \/ OnDeleteDevice(d)
    \/ \E v \in Value :
          OnCreateValue(v) \/ OnUpdateValue(v) \/ OnDeleteValue(v)

Next == Writer \/ DatabaseUpdate \/ Register \/ Worker

Spec == Init /\ [][Next]_vars

\* As long as the publisher or the worker has something to do, one of the two
\* goes on: no more is needed, as neither goes on for ever by itself.
FairSpec == Spec /\ WF_vars(DatabaseUpdate \/ Worker)

-----------------------------------------------------------------------------
(***************************************************************************)
(* Properties.                                                             *)
(***************************************************************************)

\* A row whose InternalID is its own, does not change, and is not empty, as it
\* is by default and in an object that was never read.  The dictionaries are
\* keyed by it, nothing in the schema makes it unique, and PUT may change it.
OwnKey(r, among) ==
    /\ "" \notin keys[r]
    /\ \A j, k \in keys[r] : j = k
    /\ \A q \in among \ {r} : keys[q] \cap keys[r] = {}

Plain(d) == OwnKey(d, Device) /\ d \notin misled
PlainValue(v) ==
    Plain(Owner[v]) /\ OwnKey(v, ValuesOf(Owner[v])) /\ v \notin misled

\* The objects under which a dictionary has a row are one, and it is current.
Mirrors(dictionary, r) ==
    IF table[r] = None THEN Find(dictionary, r) = {}
    ELSE \E k \in Key : /\ Find(dictionary, r) = {k}
                        /\ dictionary[k].row = table[r]

Current ==
    /\ \A d \in Device : Plain(d) => Mirrors(Devices, d)
    /\ \A v \in Value : PlainValue(v) =>
          \A k \in FindDevice(Owner[v]) : Mirrors(Devices[k].values, v)

Quiet == plugin = "started" /\ load = Idle /\ messages = << >> /\ log = << >>

\* Once all news is through, the script sees the database as it is: every
\* device and value, as it is now, and none that is gone.  News that finds no
\* object is dropped, and this says that it does no harm, but for the rows in
\* misled and those that share or change their InternalID.  A plugin that was told
\* of a row that did not come or go does not see it as it is any more
\* (CPluginSystem::DatabaseUpdate and the callbacks of PluginMessages.h).
MirrorCurrent == Quiet /\ ~dead => Current

\* The publisher, which waits for the Python lock, and the worker, which has
\* it, do not hold each other up: what the script sees becomes what is in the
\* database, and stays so (PluginFromValueID).
BecomesCurrent ==
    <>[](dead \/ plugin = "unregistered" \/ (Quiet /\ Current))
=============================================================================
