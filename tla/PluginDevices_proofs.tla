------------------------ MODULE PluginDevices_proofs ------------------------
(***************************************************************************)
(* Theorems about PluginDevices, for any devices, values, InternalIDs and  *)
(* number of statements: its types, and that the dictionaries follow the   *)
(* database.                                                               *)
(*                                                                         *)
(* MirrorCurrent is about the moments when all news is through.  MirrorInv *)
(* says what makes it so at every other moment: of a plain row, either the *)
(* dictionaries have it, or what will bring it is on its way, and so is    *)
(* what will change it or take it out.  Each lemma ...Sound is one action. *)
(***************************************************************************)
EXTENDS PluginDevices, FiniteSetTheorems, SequenceTheorems, WellFoundedInduction, TLAPS

-----------------------------------------------------------------------------
(* The invariant.                                                          *)

\* The entries that tell what came to pass: an entry that was taken back is no
\* news of its row.
Insert(r) == Says("Insert", r)
Update(r) == Says("Update", r)
Delete(r) == Says("Delete", r)
onCreate(r) == [on |-> "onCreate", row |-> r]
onUpdate(r) == [on |-> "onUpdate", row |-> r]
onDelete(r) == [on |-> "onDelete", row |-> r]
onStart == [on |-> "onStart"]

InLog(e) == e \in ToSet(log)
Queued(m) == m \in ToSet(messages)

Before(s, a, b) == \A i, j \in DOMAIN s : s[i] = a /\ s[j] = b => i < j

\* News that is on its way.
Arriving(r) == InLog(Insert(r)) \/ Queued(onCreate(r))
Changing(r) == InLog(Update(r)) \/ Queued(onUpdate(r))
Leaving(r) == InLog(Delete(r)) \/ Queued(onDelete(r))

\* The worker has d to load, or is loading it.
Covers(d) == load # Idle /\ (load.device = d \/ d \in load.rest)
\* The object that it loads, once it has read the row.
Building(d) == load # Idle /\ load.step # "refresh" /\ load.device = d

-----------------------------------------------------------------------------
\* A row that never was has left no trace, if the plugin was not misled.
Known(r) == keys[r] # {} \/ r \in misled

\* An object's row is what some row was, or nothing when the row was gone.
RowOf(object) ==
    /\ Known(object.id)
    /\ \/ object.row = NoData /\ (table[object.id] = None \/ object.id \in misled)
       \/ object.row \in RowData /\ object.row.key \in keys[object.id]

ObjectOK(object) ==
    /\ RowOf(object)
    /\ \A j \in Key : object.values[j] # None => RowOf(object.values[j])

ObjectsInv ==
    /\ \A k \in Key : Devices[k] # None => ObjectOK(Devices[k])
    /\ load # Idle /\ load.step # "refresh" => ObjectOK(load.object)

KeysInv ==
    /\ \A r \in Row : table[r] # None => table[r].key \in keys[r]
    /\ \A e \in ToSet(log) : e.kept => Known(e.row)
    /\ \A m \in ToSet(messages) : m # onStart => Known(m.row)

StageInv ==
    /\ plugin # "started" => load = Idle /\ \A k \in Key : Devices[k] = None
    /\ plugin = "unregistered" => messages = << >>
    /\ Queued(onStart) => plugin = "initialised"
    /\ \A i, j \in DOMAIN messages :
          messages[i] = onStart /\ messages[j] = onStart => i = j

LoadInv ==
    load # Idle =>
        /\ Known(load.device)
        /\ \A d \in load.rest : Known(d)
        /\ \A v \in load.todo : Known(v)
        /\ load.device \notin load.rest
        /\ load.step \in {"inactive", "select"} => load.object.values = NoValues

\* The news of a row comes in the order of its life.
OrderInv ==
    \A r \in Row \ misled :
        /\ Before(log, Insert(r), Delete(r))
        /\ Before(messages, onCreate(r), onDelete(r))
        /\ Queued(onDelete(r)) => ~InLog(Insert(r))
        /\ Leaving(r) => table[r] = None

\* A dictionary has r once, under the InternalID it was loaded with.
Single(dictionary, r) ==
    /\ \A k \in Find(dictionary, r) : dictionary[k].row.key = k
    /\ \A j, k \in Find(dictionary, r) : j = k

\* The row of an object is current, or news is on its way.
Fresh(object, r) ==
    table[r] # None => object.row = table[r] \/ Changing(r)

DeviceInv(d) ==
    /\ Single(Devices, d)
    /\ Covers(d) => FindDevice(d) = {}
    /\ IF table[d] = None
       THEN Arriving(d) \/ Covers(d) \/ FindDevice(d) # {} => Leaving(d)
       ELSE plugin = "started" => Arriving(d) \/ Covers(d) \/ FindDevice(d) # {}
    /\ \A k \in FindDevice(d) : Fresh(Devices[k], d)
    /\ Building(d) => Fresh(load.object, d)

\* The same of a value in the values of its device, todo being those that are
\* still to be added to them.
HoldsValue(values, todo, v) ==
    /\ Single(values, v)
    /\ v \in todo => Find(values, v) = {}
    /\ IF table[v] = None
       THEN v \in todo \/ Find(values, v) # {} => Leaving(v)
       ELSE Arriving(v) \/ v \in todo \/ Find(values, v) # {}
    /\ \A j \in Find(values, v) : Fresh(values[j], v)

ValueInv(v) ==
    /\ table[v] = None /\ Arriving(v) => Leaving(v)
    /\ \A k \in FindDevice(Owner[v]) : HoldsValue(Devices[k].values, {}, v)
    /\ load.step = "values" /\ load.device = Owner[v]
          => HoldsValue(load.object.values, load.todo, v)

RowsInv ==
    /\ \A d \in Device : Plain(d) => DeviceInv(d)
    /\ \A v \in Value : PlainValue(v) => ValueInv(v)

Sound ==
    KeysInv /\ ObjectsInv /\ StageInv /\ LoadInv /\ OrderInv /\ RowsInv

\* Only a device that was read as active is made inactive.
TypeInv == TypeOK /\ (load.step = "inactive" => load.object.row \in RowData)

MirrorInv == TypeInv /\ (~dead => Sound)

-----------------------------------------------------------------------------
(* Types.                                                                  *)

LEMMA NoneIsNoRow ==
    /\ \A x \in RowData : x # None
    /\ \A x \in DeviceObject : x # None /\ x.id # 0 /\ x.id \in Device
    /\ \A x \in ValueObject : x # None /\ x.id # 0 /\ x.id \in Value
    /\ None.id = 0 /\ NoData # None /\ NoData.key = ""
    /\ \A x \in RowData : x # NoData /\ x.key \in InternalID
<1>1. "key" \notin DOMAIN None /\ "row" \notin DOMAIN None /\ None.id = 0
  BY DEF None
<1>2. ASSUME NEW x \in RowData PROVE x # None /\ x # NoData /\ x.key \in InternalID
  <2>1. "key" \in DOMAIN x /\ x.key \in InternalID
    BY DEF RowData
  <2>2. x.data # NoData.data
    BY DEF RowData, Content, NoData
  <2> QED
    BY <1>1, <2>1, <2>2
<1>3. ASSUME NEW x \in DeviceObject PROVE x # None /\ x.id # 0 /\ x.id \in Device
  <2>1. "row" \in DOMAIN x /\ x.id \in Device
    BY DEF DeviceObject
  <2> QED
    BY <1>1, <2>1, DevicesConstants
<1>4. ASSUME NEW x \in ValueObject PROVE x # None /\ x.id # 0 /\ x.id \in Value
  <2>1. "row" \in DOMAIN x /\ x.id \in Value
    BY DEF ValueObject
  <2> QED
    BY <1>1, <2>1, DevicesConstants
<1>5. NoData # None /\ NoData.key = ""
  <2>1. "key" \in DOMAIN NoData /\ NoData.key = ""
    BY DEF NoData
  <2> QED
    BY <1>1, <2>1
<1> QED
  BY <1>1, <1>2, <1>3, <1>4, <1>5

LEMMA IdleIsNoLoad ==
    /\ Idle \notin Load /\ Idle.step = "idle"
    /\ \A x \in Load : x.step # "idle" /\ x # Idle
BY DEF Idle, Load

LEMMA MinMember ==
    ASSUME NEW S \in SUBSET Nat, S # {}
    PROVE  Min(S) \in S
<1>1. \E x \in S : \A y \in S : ~(<<y, x>> \in OpToRel(<, Nat))
  BY NatLessThanWellFounded, WFMin
<1>2. PICK x \in S : \A y \in S : ~(y < x)
  BY <1>1 DEF OpToRel
<1>3. \A y \in S : x =< y
  BY <1>2
<1> QED
  BY <1>3 DEF Min

-----------------------------------------------------------------------------
(* Sequences.                                                              *)

LEMMA AppendMembers ==
    ASSUME NEW T, NEW s \in Seq(T), NEW e \in T
    PROVE  /\ ToSet(Append(s, e)) = ToSet(s) \cup {e}
           /\ \A a, b : /\ Before(s, a, b)
                        /\ a = e => b # e /\ b \notin ToSet(s)
                        => Before(Append(s, e), a, b)
<1>1. /\ DOMAIN Append(s, e) = DOMAIN s \cup {Len(s) + 1}
      /\ \A i \in DOMAIN s : Append(s, e)[i] = s[i] /\ i < Len(s) + 1
      /\ Append(s, e)[Len(s) + 1] = e
  BY LenProperties
<1>2. ToSet(Append(s, e)) = ToSet(s) \cup {e}
  BY <1>1 DEF ToSet
<1>3. ASSUME NEW a, NEW b, Before(s, a, b), a = e => b # e /\ b \notin ToSet(s)
      PROVE  Before(Append(s, e), a, b)
  BY <1>1, <1>3 DEF Before, ToSet
<1> QED
  BY <1>2, <1>3

LEMMA TailMembers ==
    ASSUME NEW T, NEW s \in Seq(T), s # << >>
    PROVE  /\ Head(s) \in T /\ Tail(s) \in Seq(T)
           /\ ToSet(s) = ToSet(Tail(s)) \cup {Head(s)}
           /\ \A a, b : Before(s, a, b) =>
                /\ Before(Tail(s), a, b)
                /\ b = Head(s) => a \notin ToSet(Tail(s))
<1>1. /\ Len(s) \in Nat \ {0} /\ DOMAIN s = 1..Len(s)
      /\ Head(s) \in T /\ Tail(s) \in Seq(T) /\ Len(Tail(s)) = Len(s) - 1
      /\ \A i \in 1..Len(Tail(s)) : Tail(s)[i] = s[i + 1]
      /\ Head(s) = s[1]
  <2>1. Len(s) \in Nat \ {0} /\ DOMAIN s = 1..Len(s)
    BY EmptySeq, LenProperties
  <2> QED
    BY <2>1, HeadTailProperties
<1>2. DOMAIN Tail(s) = 1..(Len(s) - 1)
  BY <1>1, LenProperties
<1> DEFINE t == Tail(s)
           h == Head(s)
<1>3. /\ 1 \in DOMAIN s
      /\ \A i \in DOMAIN t : i + 1 \in DOMAIN s /\ t[i] = s[i + 1]
      /\ \A i \in DOMAIN s : i = 1 \/ (i - 1 \in DOMAIN t /\ t[i - 1] = s[i])
      /\ \A i, j \in DOMAIN t : i + 1 < j + 1 => i < j
      /\ \A i \in DOMAIN t : ~(i + 1 < 1)
  BY <1>1, <1>2
<1>4. h = s[1] /\ h \in T /\ t \in Seq(T)
  BY <1>1
<1> HIDE DEF t, h
<1>5. ToSet(s) = ToSet(t) \cup {h}
  <2>1. ASSUME NEW x \in ToSet(s) PROVE x \in ToSet(t) \cup {h}
    <3>1. PICK i \in DOMAIN s : x = s[i]
      BY <2>1 DEF ToSet
    <3> QED
      BY <1>3, <1>4, <3>1 DEF ToSet
  <2>2. ASSUME NEW x \in ToSet(t) PROVE x \in ToSet(s)
    BY <1>3, <2>2 DEF ToSet
  <2>3. h \in ToSet(s)
    BY <1>3, <1>4 DEF ToSet
  <2> QED
    BY <2>1, <2>2, <2>3
<1>6. ASSUME NEW a, NEW b, Before(s, a, b)
      PROVE  Before(t, a, b) /\ (b = h => a \notin ToSet(t))
  <2>1. Before(t, a, b)
    <3> SUFFICES ASSUME NEW i \in DOMAIN t, NEW j \in DOMAIN t, t[i] = a, t[j] = b
                 PROVE  i < j
      BY DEF Before
    <3>1. i + 1 < j + 1
      BY <1>3, <1>6 DEF Before
    <3> QED
      BY <1>3, <3>1
  <2>2. ASSUME b = h, a \in ToSet(t) PROVE FALSE
    <3>1. PICK i \in DOMAIN t : t[i] = a
      BY <2>2 DEF ToSet
    <3>2. i + 1 < 1
      BY <1>3, <1>4, <1>6, <2>2, <3>1 DEF Before
    <3> QED
      BY <1>3, <3>2
  <2> QED
    BY <2>1, <2>2
<1> QED
  BY <1>4, <1>5, <1>6 DEF t, h

LEMMA ConcatMembers ==
    ASSUME NEW T, NEW s \in Seq(T), NEW t \in Seq(T)
    PROVE  /\ s \o t \in Seq(T)
           /\ ToSet(s \o t) = ToSet(s) \cup ToSet(t)
           /\ \A a, b : /\ Before(s, a, b)
                        /\ a \in ToSet(t) => b \notin ToSet(s) \cup ToSet(t)
                        => Before(s \o t, a, b)
<1> DEFINE p == s \o t
<1>1. /\ Len(s) \in Nat /\ Len(t) \in Nat /\ DOMAIN s = 1..Len(s)
      /\ DOMAIN t = 1..Len(t)
      /\ p \in Seq(T) /\ Len(p) = Len(s) + Len(t)
      /\ \A i \in 1..(Len(s) + Len(t)) :
            p[i] = IF i <= Len(s) THEN s[i] ELSE t[i - Len(s)]
  BY ConcatProperties, LenProperties
<1>2. DOMAIN p = 1..(Len(s) + Len(t))
  BY <1>1, LenProperties
<1> HIDE DEF p
<1>3. /\ \A i \in DOMAIN s : i \in DOMAIN p /\ p[i] = s[i]
      /\ \A i \in DOMAIN t : Len(s) + i \in DOMAIN p /\ p[Len(s) + i] = t[i]
      /\ \A i \in DOMAIN p : \/ i \in DOMAIN s /\ p[i] = s[i]
                             \/ i - Len(s) \in DOMAIN t /\ p[i] = t[i - Len(s)]
                                /\ \A j \in DOMAIN s : j < i
  BY <1>1, <1>2
<1>4. ToSet(p) = ToSet(s) \cup ToSet(t)
  <2>1. ASSUME NEW x \in ToSet(p) PROVE x \in ToSet(s) \cup ToSet(t)
    <3>1. PICK i \in DOMAIN p : x = p[i]
      BY <2>1 DEF ToSet
    <3> QED
      BY <1>3, <3>1 DEF ToSet
  <2>2. ASSUME NEW x \in ToSet(s) PROVE x \in ToSet(p)
    BY <1>3, <2>2 DEF ToSet
  <2>3. ASSUME NEW x \in ToSet(t) PROVE x \in ToSet(p)
    <3>1. PICK i \in DOMAIN t : x = t[i]
      BY <2>3 DEF ToSet
    <3>2. Len(s) + i \in DOMAIN p /\ x = p[Len(s) + i]
      BY <1>3, <3>1
    <3> QED
      BY <3>2 DEF ToSet
  <2> QED
    BY <2>1, <2>2, <2>3
<1>5. ASSUME NEW a, NEW b, Before(s, a, b),
             a \in ToSet(t) => b \notin ToSet(s) \cup ToSet(t)
      PROVE  Before(p, a, b)
  <2> SUFFICES ASSUME NEW i \in DOMAIN p, NEW j \in DOMAIN p, p[i] = a, p[j] = b
               PROVE  i < j
    BY DEF Before
  <2>0. b \in ToSet(s) \cup ToSet(t)
    <3>1. b \in ToSet(p)
      BY DEF ToSet
    <3> QED
      BY <1>4, <3>1
  <2>1. CASE i \in DOMAIN s /\ p[i] = s[i]
    <3>1. CASE j \in DOMAIN s /\ p[j] = s[j]
      BY <1>5, <2>1, <3>1 DEF Before
    <3>2. CASE \A k \in DOMAIN s : k < j
      BY <2>1, <3>2
    <3> QED
      BY <1>3, <3>1, <3>2
  <2>2. CASE i - Len(s) \in DOMAIN t /\ p[i] = t[i - Len(s)]
    <3>1. a \in ToSet(t)
      BY <2>2 DEF ToSet
    <3> QED
      BY <1>5, <2>0, <3>1
  <2> QED
    BY <1>3, <2>1, <2>2
<1> QED
  BY <1>1, <1>4, <1>5 DEF p

-----------------------------------------------------------------------------
(* Dictionaries.                                                           *)

\* dict shows r as before, or has lost an object that was not found in a row.
Shadows(before, after, r) ==
    /\ \A k \in Key : after[k].id = r => after[k] = before[k]
    /\ \A k \in Key : before[k].id = r /\ before[k].row # NoData
                         => after[k] = before[k]

LEMMA ShadowsFind ==
    ASSUME NEW before, NEW after, NEW r, Shadows(before, after, r)
    PROVE  /\ \A k \in Find(after, r) : k \in Find(before, r) /\ after[k] = before[k]
           /\ \A k \in Find(before, r) : before[k].row # NoData => k \in Find(after, r)
           /\ Single(before, r) => Single(after, r)
<1>1. \A k \in Find(after, r) : k \in Find(before, r) /\ after[k] = before[k]
  BY DEF Shadows, Find
<1>2. \A k \in Find(before, r) : before[k].row # NoData => k \in Find(after, r)
  BY DEF Shadows, Find
<1> QED
  BY <1>1, <1>2 DEF Single

\* What another object does to a dictionary in which r has its own InternalID.
LEMMA OtherItem ==
    ASSUME NEW S, NEW dictionary \in [Key -> S], NEW object, NEW r,
           object.row.key \in Key, object.id # r, r # 0,
           \A k \in Key : dictionary[k].id = r =>
              k # object.row.key \/ dictionary[k].row = NoData
    PROVE  /\ Shadows(dictionary, SetItem(dictionary, object), r)
           /\ Shadows(dictionary, DelItem(dictionary, object), r)
<1>1. None.id # r
  BY NoneIsNoRow
<1> QED
  BY <1>1 DEF Shadows, SetItem, DelItem

LEMMA OwnItem ==
    ASSUME NEW S, NEW dictionary \in [Key -> S], NEW object,
           object.row.key \in Key, Find(dictionary, object.id) = {}
    PROVE  LET new == SetItem(dictionary, object)
           IN  /\ Find(new, object.id) = {object.row.key}
               /\ new[object.row.key] = object
               /\ Single(new, object.id)
BY DEF SetItem, Find, Single

LEMMA OwnDeleted ==
    ASSUME NEW S, NEW dictionary \in [Key -> S], NEW k \in Key,
           dictionary[k].id # 0, Single(dictionary, dictionary[k].id)
    PROVE  Find(DelItem(dictionary, dictionary[k]), dictionary[k].id) = {}
<1>1. /\ dictionary[k].row.key = k
      /\ \A j \in Key : dictionary[j].id = dictionary[k].id => j = k
  BY DEF Single, Find
<1> QED
  BY <1>1, NoneIsNoRow DEF DelItem, Find

-----------------------------------------------------------------------------
(* The types.                                                              *)

LEMMA TypeFacts ==
    ASSUME TypeOK
    PROVE  /\ table \in [Row -> RowData \cup {None}]
           /\ log \in Seq(Entry) /\ messages \in Seq(Message)
           /\ Devices \in [Key -> DeviceObject \cup {None}]
           /\ load \in Load \cup {Idle}
           /\ load # Idle => /\ load \in Load /\ load.step # "idle"
                             /\ load.device \in Device
                             /\ load.rest \in SUBSET Device
                             /\ load.todo \in SUBSET ValuesOf(load.device)
           /\ load # Idle /\ load.step # "refresh" =>
                 load.object \in DeviceObject /\ load.object.id = load.device
           /\ load.step = "idle" <=> load = Idle
BY IdleIsNoLoad DEF TypeOK, Load

\* An object, taken to pieces.
LEMMA ObjectFacts ==
    ASSUME NEW object
    PROVE  object \in DeviceObject <=>
              /\ object \in [id : Device, row : RowData \cup {NoData},
                             values : [Key -> ValueObject \cup {None}]]
              /\ \A k \in Key : object.values[k] # None =>
                    object.values[k].id \in ValuesOf(object.id)
BY DEF DeviceObject

LEMMA LoadedType ==
    ASSUME TypeOK, NEW r \in Row
    PROVE  /\ Loaded(r).id = r /\ Loaded(r).row \in RowData \cup {NoData}
           /\ Loaded(r).row = IF table[r] = None THEN NoData ELSE table[r]
           /\ Loaded(r).row.key \in Key
           /\ r \in Value => Loaded(r) \in ValueObject
<1>1. table[r] \in RowData \cup {None}
  BY TypeFacts
<1>2. /\ Loaded(r).id = r
      /\ Loaded(r).row = IF table[r] = None THEN NoData ELSE table[r]
      /\ r \in Value /\ Loaded(r).row \in RowData \cup {NoData}
            => Loaded(r) \in ValueObject
  BY DEF Loaded, ValueObject
<1>3. Loaded(r).row \in RowData \cup {NoData}
  BY <1>1, <1>2
<1> HIDE DEF Loaded
<1> QED
  BY <1>2, <1>3, NoneIsNoRow DEF Key

\* What the objects of a dictionary are stays so.
LEMMA ItemType ==
    ASSUME NEW S, NEW dictionary \in [Key -> S \cup {None}], NEW object,
           object.row.key \in Key
    PROVE  /\ object \in S => SetItem(dictionary, object) \in [Key -> S \cup {None}]
           /\ DelItem(dictionary, object) \in [Key -> S \cup {None}]
BY DEF SetItem, DelItem

LEMMA RefreshedType ==
    ASSUME TypeOK, NEW object, object.id \in Row
    PROVE  /\ object \in DeviceObject =>
                /\ Refreshed(object) \in DeviceObject
                /\ Refreshed(object).values = object.values
           /\ object \in ValueObject => Refreshed(object) \in ValueObject
           /\ object \in DeviceObject \cup ValueObject =>
                /\ Refreshed(object).id = object.id
                /\ Refreshed(object).row = IF table[object.id] = None
                                           THEN object.row ELSE table[object.id]
<1>1. table[object.id] # None => table[object.id] \in RowData
  BY TypeFacts
<1>2. CASE table[object.id] = None
  BY <1>2 DEF Refreshed
<1>3. CASE table[object.id] # None
  <2> DEFINE new == table[object.id]
  <2>1. new \in RowData /\ Refreshed(object) = [object EXCEPT !.row = new]
    BY <1>1, <1>3 DEF Refreshed
  <2> HIDE DEF new
  <2> QED
    BY <1>3, <2>1 DEF DeviceObject, ValueObject, new
<1> QED
  BY <1>2, <1>3

LEMMA KeyOfRow == \A x \in RowData \cup {NoData} : x.key \in Key
BY NoneIsNoRow DEF Key

LEMMA ValuesChanged ==
    ASSUME NEW object \in DeviceObject,
           NEW values \in [Key -> ValueObject \cup {None}],
           \A k \in Key : values[k] # None => values[k].id \in ValuesOf(object.id)
    PROVE  LET new == [object EXCEPT !.values = values]
           IN  /\ new \in DeviceObject
               /\ new.id = object.id /\ new.row = object.row
               /\ new.values = values
<1> DEFINE new == [object EXCEPT !.values = values]
<1>1. object \in [id : Device, row : RowData \cup {NoData},
                  values : [Key -> ValueObject \cup {None}]]
  BY ObjectFacts
<1>2. /\ new \in [id : Device, row : RowData \cup {NoData},
                  values : [Key -> ValueObject \cup {None}]]
      /\ new.id = object.id /\ new.row = object.row /\ new.values = values
  BY <1>1
<1> HIDE DEF new
<1>3. new \in DeviceObject
  BY <1>2, ObjectFacts
<1> QED
  BY <1>2, <1>3 DEF new

LEMMA LoadAllType ==
    ASSUME NEW S \in SUBSET Device
    PROVE  /\ LoadAll(S) \in Load \cup {Idle}
           /\ LoadAll(S) = Idle <=> S = {}
           /\ S # {} => /\ LoadAll(S).step = "refresh"
                        /\ LoadAll(S).device \in S
                        /\ LoadAll(S).rest = S \ {LoadAll(S).device}
                        /\ LoadAll(S).todo = {}
<1>1. S # {} => Min(S) \in S
  BY MinMember, DevicesConstants
<1> DEFINE x == [step |-> "refresh", device |-> Min(S), rest |-> S \ {Min(S)},
                 object |-> None, todo |-> {}]
<1>2. S # {} => x \in Load
  BY <1>1 DEF Load
<1>3. LoadAll(S) = IF S = {} THEN Idle ELSE x
  BY DEF LoadAll
<1>4. /\ x.step = "refresh" /\ x.device = Min(S) /\ x.rest = S \ {Min(S)}
      /\ x.todo = {}
  OBVIOUS
<1> HIDE DEF x
<1> QED
  BY <1>1, <1>2, <1>3, <1>4, IdleIsNoLoad

-----------------------------------------------------------------------------
(* Statements of the writers, and the one of the worker.                   *)

\* What a statement that adds the entries of S does to one row.
RowNews(r, S) ==
    /\ \/ /\ table'[r] = table[r] /\ keys'[r] = keys[r]
          /\ \A e \in S : e.row = r => ~e.kept
       \/ /\ keys[r] = {} /\ table'[r] \in RowData /\ keys'[r] = {table'[r].key}
          /\ Insert(r) \in S /\ \A e \in S : e.row = r => e = Insert(r)
       \/ /\ table[r] # None /\ table'[r] \in RowData
          /\ keys'[r] = keys[r] \cup {table'[r].key}
          /\ Update(r) \in S /\ \A e \in S : e.row = r => e = Update(r)
       \/ /\ table[r] # None /\ table'[r] = None /\ keys'[r] = keys[r]
          /\ Delete(r) \in S /\ \A e \in S : e.row = r => e = Delete(r)

Written(S) ==
    /\ S \subseteq Entry
    /\ ToSet(log') = ToSet(log) \cup S
    /\ \A a, b : Before(log, a, b) /\ (a \in S => b \notin ToSet(log) \cup S)
                    => Before(log', a, b)
    /\ \A r \in Row : RowNews(r, S)

LEMMA EntryFacts ==
    /\ \A r \in Row : Insert(r) \in Entry /\ Update(r) \in Entry /\ Delete(r) \in Entry
    /\ \A r : Insert(r).row = r /\ Update(r).row = r /\ Delete(r).row = r
    /\ \A q, r : Insert(q) # Delete(r) /\ Insert(q) # Update(r) /\ Update(q) # Delete(r)
    /\ \A r : Insert(r).kept /\ Update(r).kept /\ Delete(r).kept
    /\ \A e \in Entry : /\ e.row \in Row /\ e.kept \in BOOLEAN
                        /\ e.kept => /\ e.action = "Insert" => e = Insert(e.row)
                                     /\ e.action = "Update" => e = Update(e.row)
                                     /\ e.action = "Delete" => e = Delete(e.row)
                        /\ e.action \in {"Insert", "Update", "Delete"}
<1>1. \A r : /\ Insert(r).action = "Insert" /\ Update(r).action = "Update"
             /\ Delete(r).action = "Delete"
  BY DEF Insert, Update, Delete, Says
<1>2. \A q, r : Insert(q) # Delete(r) /\ Insert(q) # Update(r) /\ Update(q) # Delete(r)
  BY <1>1
<1> QED
  BY <1>2 DEF Insert, Update, Delete, Says, Entry

LEMMA StatementWrites ==
    ASSUME TypeOK, NEW t, NEW entries \in Seq(Entry), NEW S,
           S = ToSet(entries), Statement(t, entries), writes < MaxWrites,
           t \in [Row -> RowData \cup {None}],
           \A r \in Row :
              \/ t[r] = table[r] /\ (t[r] # None => t[r].key \in keys[r])
                 /\ \A e \in S : e.row = r => ~e.kept
              \/ keys[r] = {} /\ t[r] \in RowData
                 /\ Insert(r) \in S /\ \A e \in S : e.row = r => e = Insert(r)
              \/ table[r] # None /\ t[r] \in RowData
                 /\ Update(r) \in S /\ \A e \in S : e.row = r => e = Update(r)
              \/ table[r] # None /\ t[r] = None
                 /\ Delete(r) \in S /\ \A e \in S : e.row = r => e = Delete(r)
    PROVE  TypeOK' /\ Written(S) /\ UNCHANGED <<workerVars, messages, dead, misled>>
<1>1. /\ table' = t /\ log' = log \o entries
      /\ keys' = [r \in Row |-> IF t[r] = None THEN keys[r]
                                ELSE keys[r] \cup {t[r].key}]
      /\ writes < MaxWrites /\ writes' = writes + 1
      /\ UNCHANGED <<workerVars, messages, dead, misled>>
  BY DEF Statement
<1>2. /\ log \in Seq(Entry) /\ keys \in [Row -> SUBSET InternalID]
      /\ writes \in 0 .. MaxWrites /\ MaxWrites \in Nat
  BY DevicesConstants DEF TypeOK
<1>3. /\ log' \in Seq(Entry) /\ ToSet(log') = ToSet(log) \cup S
      /\ \A a, b : Before(log, a, b) /\ (a \in S => b \notin ToSet(log) \cup S)
                      => Before(log', a, b)
  BY <1>1, <1>2, ConcatMembers
<1>4. S \subseteq Entry
  BY DEF ToSet
<1>5. ASSUME NEW r \in Row PROVE RowNews(r, S)
  <2>1. t[r] \in RowData => t[r] # None
    BY NoneIsNoRow
  <2>2. keys'[r] = IF t[r] = None THEN keys[r] ELSE keys[r] \cup {t[r].key}
    BY <1>1
  <2> HIDE DEF Insert, Update, Delete
  <2>3. table' = t
    BY <1>1
  <2>4. CASE t[r] = table[r] /\ (t[r] # None => t[r].key \in keys[r])
             /\ \A e \in S : e.row = r => ~e.kept
    <3>1. keys'[r] = keys[r]
      BY <2>2, <2>4
    <3> QED
      BY <2>3, <2>4, <3>1 DEF RowNews
  <2>5. CASE keys[r] = {} /\ t[r] \in RowData
             /\ Insert(r) \in S /\ \A e \in S : e.row = r => e = Insert(r)
    <3>1. keys'[r] = {t[r].key}
      BY <2>1, <2>2, <2>5
    <3> QED
      BY <2>3, <2>5, <3>1 DEF RowNews
  <2>6. CASE table[r] # None /\ t[r] \in RowData
             /\ Update(r) \in S /\ \A e \in S : e.row = r => e = Update(r)
    <3>1. keys'[r] = keys[r] \cup {t[r].key}
      BY <2>1, <2>2, <2>6
    <3> QED
      BY <2>3, <2>6, <3>1 DEF RowNews
  <2>7. CASE table[r] # None /\ t[r] = None
             /\ Delete(r) \in S /\ \A e \in S : e.row = r => e = Delete(r)
    <3>1. keys'[r] = keys[r]
      BY <2>2, <2>7
    <3> QED
      BY <2>3, <2>7, <3>1 DEF RowNews
  <2> QED
    BY <2>4, <2>5, <2>6, <2>7
<1>6. keys' \in [Row -> SUBSET InternalID]
  <2>1. \A r \in Row : t[r] # None => t[r].key \in InternalID
    BY NoneIsNoRow
  <2> QED
    BY <1>1, <1>2, <2>1
<1>7. writes' \in 0 .. MaxWrites
  BY <1>1, <1>2
<1>8. TypeOK'
  <2>1. UNCHANGED <<plugin, Devices, load, messages, dead, misled>>
    BY <1>1 DEF workerVars
  <2> QED
    BY <1>1, <1>3, <1>6, <1>7, <2>1 DEF TypeOK
<1> QED
  BY <1>1, <1>3, <1>4, <1>5, <1>8 DEF Written

\* The rows of a deletion, and their entries.
LEMMA DeletionRows ==
    ASSUME NEW r \in Row, NEW gone \in Deletions(r)
    PROVE  /\ gone \in Seq(Row) /\ ToSet(gone) = Below(r) \cup {r}
           /\ Below(r) \subseteq Row /\ \A q \in Below(r) : table[q] # None
<1> DEFINE below == Below(r)
<1>1. PICK order \in [1 .. Cardinality(below) -> below] :
         gone = Append(order, r) /\ ToSet(order) = below
  BY DEF Deletions
<1>2. below \subseteq Row /\ (\A q \in below : table[q] # None)
  BY DEF Below, Present, Row
<1>3. Cardinality(below) \in Nat
  <2>1. IsFiniteSet(below)
    <3>1. IsFiniteSet(Value) /\ below \subseteq Value
      BY DevicesConstants DEF Below, Present
    <3> QED
      BY <3>1, FS_Subset
  <2> QED
    BY <2>1, FS_CardinalityType
<1>4. order \in Seq(Row)
  <2> DEFINE n == Cardinality(below)
  <2>1. order \in [1 .. n -> Row]
    BY <1>2
  <2> HIDE DEF n
  <2> QED
    BY <1>3, <2>1 DEF n
<1>5. ToSet(Append(order, r)) = ToSet(order) \cup {r}
  BY <1>4, AppendMembers
<1>6. Append(order, r) \in Seq(Row)
  BY <1>4, AppendProperties
<1> QED
  BY <1>1, <1>2, <1>5, <1>6

LEMMA DeletionEntries ==
    ASSUME NEW gone \in Seq(Row), NEW k \in BOOLEAN, NEW entries,
           entries = [i \in DOMAIN gone |->
                         [action |-> "Delete", row |-> gone[i], kept |-> k]]
    PROVE  /\ entries \in Seq(Entry)
           /\ ToSet(entries) = {[action |-> "Delete", row |-> q, kept |-> k] :
                                   q \in ToSet(gone)}
<1>1. DOMAIN gone = 1 .. Len(gone) /\ Len(gone) \in Nat
      /\ \A i \in DOMAIN gone : gone[i] \in Row
  BY LenProperties, ElementOfSeq
<1>2. entries \in [1 .. Len(gone) -> Entry]
  BY <1>1 DEF Entry
<1>3. entries \in Seq(Entry)
  BY <1>1, <1>2
<1> QED
  BY <1>3 DEF ToSet

\* A statement that is refused is no news of any row.
LEMMA RefusedWrites ==
    ASSUME TypeOK, KeysInv, NEW entries \in Seq(Entry), Statement(table, entries),
           writes < MaxWrites, \A e \in ToSet(entries) : ~e.kept
    PROVE  /\ TypeOK' /\ UNCHANGED <<workerVars, messages, dead, misled>>
           /\ \E S : Written(S)
<1>1. /\ table \in [Row -> RowData \cup {None}]
      /\ \A r \in Row : table[r] # None => table[r].key \in keys[r]
  BY DEF TypeOK, KeysInv
<1> QED
  BY <1>1, StatementWrites

\* Every statement of a writer.
LEMMA WriterWrites ==
    ASSUME TypeOK, KeysInv, Writer
    PROVE  /\ TypeOK' /\ UNCHANGED <<workerVars, messages, dead, misled>>
           /\ \E S : Written(S)
<1>b. writes < MaxWrites
  BY DEF Writer
<1> USE <1>b
<1>0. /\ table \in [Row -> RowData \cup {None}]
      /\ \A r \in Row : table[r] # None => table[r].key \in keys[r]
      /\ keys \in [Row -> SUBSET InternalID]
  BY DEF TypeOK, KeysInv
<1>1. ASSUME NEW r \in Row, InsertRow(r)
      PROVE  TypeOK' /\ UNCHANGED <<workerVars, messages, dead, misled>>
             /\ \E S : Written(S)
  <2> DEFINE new == [key |-> FirstID[r], data |-> 1, active |-> FALSE]
             t == [table EXCEPT ![r] = new]
             entries == <<Insert(r)>>
             S == ToSet(entries)
  <2>1. new \in RowData
    BY DevicesConstants DEF RowData, Content, Row
  <2>2. Statement(t, entries) /\ keys[r] = {}
    BY <1>1 DEF InsertRow, Insert
  <2> HIDE DEF new
  <2>3. t \in [Row -> RowData \cup {None}] /\ t[r] = new
        /\ \A q \in Row : q # r => t[q] = table[q]
    BY <1>0, <2>1
  <2>4. entries \in Seq(Entry) /\ S = {Insert(r)}
    BY EntryFacts DEF ToSet
  <2> HIDE DEF t, entries, S
  <2>5. ASSUME NEW q \in Row
        PROVE \/ t[q] = table[q] /\ (t[q] # None => t[q].key \in keys[q])
                 /\ \A e \in S : e.row = q => ~e.kept
              \/ keys[q] = {} /\ t[q] \in RowData
                 /\ Insert(q) \in S /\ \A e \in S : e.row = q => e = Insert(q)
    BY <1>0, <2>1, <2>2, <2>3, <2>4, EntryFacts
  <2>6. TypeOK' /\ Written(S) /\ UNCHANGED <<workerVars, messages, dead, misled>>
    <3>1. S = ToSet(entries)
      BY DEF S
    <3>2. \A q \in Row :
              \/ t[q] = table[q] /\ (t[q] # None => t[q].key \in keys[q])
                 /\ \A e \in S : e.row = q => ~e.kept
              \/ keys[q] = {} /\ t[q] \in RowData
                 /\ Insert(q) \in S /\ \A e \in S : e.row = q => e = Insert(q)
              \/ table[q] # None /\ t[q] \in RowData
                 /\ Update(q) \in S /\ \A e \in S : e.row = q => e = Update(q)
              \/ table[q] # None /\ t[q] = None
                 /\ Delete(q) \in S /\ \A e \in S : e.row = q => e = Delete(q)
      BY <2>5
    <3>3. Statement(t, entries) /\ entries \in Seq(Entry) /\ t \in [Row -> RowData \cup {None}]
      BY <2>2, <2>3, <2>4
    <3> QED
      BY <3>1, <3>2, <3>3, StatementWrites
  <2> QED
    BY <2>6
<1>2. ASSUME NEW r \in Row, UpdateRow(r)
      PROVE  TypeOK' /\ UNCHANGED <<workerVars, messages, dead, misled>>
             /\ \E S : Written(S)
  <2>1. PICK new \in RowData :
           Statement([table EXCEPT ![r] = new], <<Says("Update", r)>>)
    BY <1>2 DEF UpdateRow
  <2> DEFINE t == [table EXCEPT ![r] = new]
             entries == <<Update(r)>>
             S == ToSet(entries)
  <2>2. Statement(t, entries) /\ table[r] # None
    BY <1>2, <2>1 DEF UpdateRow, Update
  <2>3. t \in [Row -> RowData \cup {None}] /\ t[r] = new
        /\ \A q \in Row : q # r => t[q] = table[q]
    BY <1>0, <2>1
  <2>4. entries \in Seq(Entry) /\ S = {Update(r)}
    BY EntryFacts DEF ToSet
  <2> HIDE DEF t, entries, S
  <2>5. ASSUME NEW q \in Row
        PROVE \/ t[q] = table[q] /\ (t[q] # None => t[q].key \in keys[q])
                 /\ \A e \in S : e.row = q => ~e.kept
              \/ table[q] # None /\ t[q] \in RowData
                 /\ Update(q) \in S /\ \A e \in S : e.row = q => e = Update(q)
    BY <1>0, <2>1, <2>2, <2>3, <2>4, EntryFacts
  <2>6. TypeOK' /\ Written(S) /\ UNCHANGED <<workerVars, messages, dead, misled>>
    BY <2>2, <2>3, <2>4, <2>5, StatementWrites DEF S
  <2> QED
    BY <2>6
<1>3. ASSUME NEW r \in Row, DeleteRow(r)
      PROVE  TypeOK' /\ UNCHANGED <<workerVars, messages, dead, misled>>
             /\ \E S : Written(S)
  <2> DEFINE below == Below(r)
  <2>1. PICK gone \in Deletions(r) :
           Statement([q \in Row |-> IF q \in Below(r) \cup {r} THEN None
                                   ELSE table[q]],
                     [i \in DOMAIN gone |-> Says("Delete", gone[i])])
    BY <1>3 DEF DeleteRow
  <2> DEFINE t == [q \in Row |-> IF q \in below \cup {r} THEN None ELSE table[q]]
             entries == [i \in DOMAIN gone |-> Delete(gone[i])]
             S == ToSet(entries)
  <2>2. Statement(t, entries) /\ table[r] # None
    BY <1>3, <2>1 DEF DeleteRow, Delete
  <2>3. /\ gone \in Seq(Row) /\ ToSet(gone) = below \cup {r}
        /\ below \subseteq Row /\ \A q \in below : table[q] # None
    BY DeletionRows
  <2> HIDE DEF below
  <2>7. entries \in Seq(Entry) /\ S = {Delete(q) : q \in below \cup {r}}
    BY <2>3, DeletionEntries DEF Delete, Says
  <2> HIDE DEF entries, S
  <2>8. t \in [Row -> RowData \cup {None}]
        /\ \A q \in Row : t[q] = IF q \in below \cup {r} THEN None ELSE table[q]
    BY <1>0
  <2> HIDE DEF t
  <2>9. ASSUME NEW q \in Row
        PROVE \/ t[q] = table[q] /\ (t[q] # None => t[q].key \in keys[q])
                 /\ \A e \in S : e.row = q => ~e.kept
              \/ table[q] # None /\ t[q] = None
                 /\ Delete(q) \in S /\ \A e \in S : e.row = q => e = Delete(q)
    <3>1. CASE q \in below \cup {r}
      <4>1. table[q] # None /\ t[q] = None
        BY <2>2, <2>3, <2>8, <3>1
      <4>2. Delete(q) \in S /\ \A e \in S : e.row = q => e = Delete(q)
        BY <2>7, <3>1, EntryFacts
      <4> QED
        BY <4>1, <4>2
    <3>2. CASE q \notin below \cup {r}
      <4>1. t[q] = table[q] /\ (t[q] # None => t[q].key \in keys[q])
        BY <1>0, <2>8, <3>2
      <4>2. \A e \in S : e.row = q => ~e.kept
        BY <2>7, <3>2, EntryFacts
      <4> QED
        BY <4>1, <4>2
    <3> QED
      BY <3>1, <3>2
  <2>10. TypeOK' /\ Written(S) /\ UNCHANGED <<workerVars, messages, dead, misled>>
    <3>1. S = ToSet(entries)
      BY DEF S
    <3>2. \A q \in Row :
              \/ t[q] = table[q] /\ (t[q] # None => t[q].key \in keys[q])
                 /\ \A e \in S : e.row = q => ~e.kept
              \/ keys[q] = {} /\ t[q] \in RowData
                 /\ Insert(q) \in S /\ \A e \in S : e.row = q => e = Insert(q)
              \/ table[q] # None /\ t[q] \in RowData
                 /\ Update(q) \in S /\ \A e \in S : e.row = q => e = Update(q)
              \/ table[q] # None /\ t[q] = None
                 /\ Delete(q) \in S /\ \A e \in S : e.row = q => e = Delete(q)
      BY <2>9
    <3>3. Statement(t, entries) /\ entries \in Seq(Entry) /\ t \in [Row -> RowData \cup {None}]
      BY <2>2, <2>7, <2>8
    <3> QED
      BY <3>1, <3>2, <3>3, StatementWrites
  <2> QED
    BY <2>10
<1>4. ASSUME NEW r \in Row, DeleteRefused(r)
      PROVE  TypeOK' /\ UNCHANGED <<workerVars, messages, dead, misled>>
             /\ \E S : Written(S)
  <2>1. PICK gone \in Deletions(r) :
           Statement(table, [i \in DOMAIN gone |-> TakenBack("Delete", gone[i])])
    BY <1>4 DEF DeleteRefused
  <2> DEFINE entries == [i \in DOMAIN gone |-> TakenBack("Delete", gone[i])]
  <2>2. gone \in Seq(Row)
    BY DeletionRows
  <2>3. entries \in Seq(Entry) /\ \A e \in ToSet(entries) : ~e.kept
    <3>1. entries = [i \in DOMAIN gone |->
                        [action |-> "Delete", row |-> gone[i], kept |-> FALSE]]
      BY DEF TakenBack
    <3> HIDE DEF entries
    <3>2. /\ entries \in Seq(Entry)
          /\ ToSet(entries) = {[action |-> "Delete", row |-> q, kept |-> FALSE] :
                                  q \in ToSet(gone)}
      BY <2>2, <3>1, DeletionEntries
    <3> QED
      BY <3>2
  <2> HIDE DEF entries
  <2> QED
    BY <2>1, <2>3, RefusedWrites DEF entries
<1>5. ASSUME NEW v \in Value, InsertRefused(v)
      PROVE  TypeOK' /\ UNCHANGED <<workerVars, messages, dead, misled>>
             /\ \E S : Written(S)
  <2> DEFINE entries == <<TakenBack("Insert", v)>>
  <2>1. Statement(table, entries)
    BY <1>5 DEF InsertRefused
  <2>2. entries \in Seq(Entry) /\ ToSet(entries) = {TakenBack("Insert", v)}
    <3>1. TakenBack("Insert", v) \in Entry
      BY DEF TakenBack, Entry, Row
    <3> QED
      BY <3>1 DEF ToSet
  <2>3. \A e \in ToSet(entries) : ~e.kept
    BY <2>2 DEF TakenBack
  <2> HIDE DEF entries
  <2> QED
    BY <2>1, <2>2, <2>3, RefusedWrites
<1>6. ASSUME NEW v \in Value, UpdateRefused(v)
      PROVE  TypeOK' /\ UNCHANGED <<workerVars, messages, dead, misled>>
             /\ \E S : Written(S)
  <2> DEFINE entries == <<Update(v)>>
             S == ToSet(entries)
  <2>1. Statement(table, entries) /\ table[v] # None /\ v \in Row
    BY <1>6 DEF UpdateRefused, Update, Row
  <2>2. entries \in Seq(Entry) /\ S = {Update(v)}
    BY <2>1, EntryFacts DEF ToSet
  <2> HIDE DEF entries, S
  <2>3. ASSUME NEW q \in Row
        PROVE \/ table[q] = table[q] /\ (table[q] # None => table[q].key \in keys[q])
                 /\ \A e \in S : e.row = q => ~e.kept
              \/ table[q] # None /\ table[q] \in RowData
                 /\ Update(q) \in S /\ \A e \in S : e.row = q => e = Update(q)
    BY <1>0, <2>1, <2>2, EntryFacts
  <2>4. TypeOK' /\ Written(S) /\ UNCHANGED <<workerVars, messages, dead, misled>>
    BY <1>0, <2>1, <2>2, <2>3, StatementWrites DEF S
  <2> QED
    BY <2>4
<1> QED
  BY <1>1, <1>2, <1>3, <1>4, <1>5, <1>6 DEF Writer

-----------------------------------------------------------------------------
(* Messages.                                                               *)

LEMMA MessageFacts ==
    /\ onStart \in Message
    /\ \A r \in Row : /\ onCreate(r) \in Message /\ onUpdate(r) \in Message
                      /\ onDelete(r) \in Message
    /\ \A r : onCreate(r).row = r /\ onUpdate(r).row = r /\ onDelete(r).row = r
    /\ \A r : onCreate(r) # onStart /\ onUpdate(r) # onStart /\ onDelete(r) # onStart
    /\ \A q, r : /\ onCreate(q) # onDelete(r) /\ onCreate(q) # onUpdate(r)
                 /\ onUpdate(q) # onDelete(r)
    /\ \A m \in Message : m # onStart =>
          /\ m.row \in Row
          /\ m \in {onCreate(m.row), onUpdate(m.row), onDelete(m.row)}
<1>1. onStart \in Message /\ onStart.on = "onStart"
  BY DEF onStart, Message
<1>2. \A r : /\ onCreate(r).on = "onCreate" /\ onUpdate(r).on = "onUpdate"
             /\ onDelete(r).on = "onDelete"
             /\ onCreate(r).row = r /\ onUpdate(r).row = r /\ onDelete(r).row = r
  BY DEF onCreate, onUpdate, onDelete
<1>3. \A r \in Row : /\ onCreate(r) \in Message /\ onUpdate(r) \in Message
                     /\ onDelete(r) \in Message
  BY DEF onCreate, onUpdate, onDelete, Message
<1>4. ASSUME NEW m \in Message, m # onStart
      PROVE  /\ m.row \in Row
             /\ m \in {onCreate(m.row), onUpdate(m.row), onDelete(m.row)}
  BY <1>4 DEF onCreate, onUpdate, onDelete, onStart, Message
<1>5. \A r : onCreate(r) # onStart /\ onUpdate(r) # onStart /\ onDelete(r) # onStart
  BY <1>1, <1>2
<1>6. \A q, r : /\ onCreate(q) # onDelete(r) /\ onCreate(q) # onUpdate(r)
                /\ onUpdate(q) # onDelete(r)
  BY <1>2
<1> QED
  BY <1>1, <1>2, <1>3, <1>4, <1>5, <1>6

\* The worker takes a message.
LEMMA Popped ==
    ASSUME TypeOK, messages # << >>, messages' = Tail(messages)
    PROVE  LET m == Head(messages)
           IN  /\ m \in Message /\ messages' \in Seq(Message)
               /\ Queued(m)
               /\ \A n : Queued(n)' => Queued(n)
               /\ \A n : n # m => (Queued(n)' <=> Queued(n))
               /\ \A a, b : Before(messages, a, b) =>
                     Before(messages', a, b) /\ (b = m => ~Queued(a)')
<1> DEFINE m == Head(messages)
           t == Tail(messages)
<1>1. messages \in Seq(Message)
  BY TypeFacts
<1>2. /\ m \in Message /\ t \in Seq(Message)
      /\ ToSet(messages) = ToSet(t) \cup {m}
      /\ \A a, b : Before(messages, a, b) =>
            Before(t, a, b) /\ (b = m => a \notin ToSet(t))
  BY <1>1, TailMembers
<1>3. messages' = t
  OBVIOUS
<1> HIDE DEF m, t
<1>4. \A n : Queued(n)' <=> n \in ToSet(t)
  BY <1>3 DEF Queued
<1>5. \A n : Queued(n) <=> n \in ToSet(t) \/ n = m
  BY <1>2 DEF Queued
<1> QED
  BY <1>2, <1>3, <1>4, <1>5 DEF m

\* A message is put at the end.
LEMMA Pushed ==
    ASSUME TypeOK, NEW m \in Message, messages' = Append(messages, m)
    PROVE  /\ messages' \in Seq(Message)
           /\ \A n : Queued(n)' <=> Queued(n) \/ n = m
           /\ \A a, b : /\ Before(messages, a, b)
                        /\ a = m => b # m /\ ~Queued(b)
                        => Before(messages', a, b)
<1>1. messages \in Seq(Message)
  BY TypeFacts
<1>2. messages' \in Seq(Message)
  BY <1>1, AppendProperties
<1>3. /\ ToSet(messages') = ToSet(messages) \cup {m}
      /\ \A a, b : /\ Before(messages, a, b)
                   /\ a = m => b # m /\ b \notin ToSet(messages)
                   => Before(messages', a, b)
  BY <1>1, AppendMembers
<1> QED
  BY <1>2, <1>3 DEF Queued

\* The publisher takes an entry.
LEMMA EntryTaken ==
    ASSUME TypeOK, log # << >>, log' = Tail(log)
    PROVE  LET e == Head(log)
           IN  /\ e \in Entry /\ log' \in Seq(Entry)
               /\ InLog(e)
               /\ \A n : InLog(n)' => InLog(n)
               /\ \A n : n # e => (InLog(n)' <=> InLog(n))
               /\ \A a, b : Before(log, a, b) =>
                     Before(log', a, b) /\ (b = e => ~InLog(a)')
<1> DEFINE e == Head(log)
           t == Tail(log)
<1>1. log \in Seq(Entry)
  BY TypeFacts
<1>2. /\ e \in Entry /\ t \in Seq(Entry)
      /\ ToSet(log) = ToSet(t) \cup {e}
      /\ \A a, b : Before(log, a, b) =>
            Before(t, a, b) /\ (b = e => a \notin ToSet(t))
  BY <1>1, TailMembers
<1>3. log' = t
  OBVIOUS
<1> HIDE DEF e, t
<1>4. \A n : InLog(n)' <=> n \in ToSet(t)
  BY <1>3 DEF InLog
<1>5. \A n : InLog(n) <=> n \in ToSet(t) \/ n = e
  BY <1>2 DEF InLog
<1> QED
  BY <1>2, <1>3, <1>4, <1>5 DEF e

-----------------------------------------------------------------------------
(* The load, step by step.                                                 *)

LEMMA RefreshLoads ==
    ASSUME TypeOK, Refresh
    PROVE  /\ load # Idle /\ load' # Idle /\ load' \in Load /\ load.step = "refresh"
           /\ load'.step \in {"inactive", "select"}
           /\ load'.device = load.device /\ load'.rest = load.rest
           /\ load'.todo = load.todo
           /\ load'.object \in DeviceObject /\ load'.object.id = load.device
           /\ load'.object.row = Loaded(load.device).row
           /\ load'.object.values = NoValues
           /\ load'.step = "inactive" => load'.object.row \in RowData
           /\ TypeOK'
<1> DEFINE row == Loaded(load.device).row
           object == [id |-> load.device, row |-> row, values |-> NoValues]
           step == IF row.active THEN "inactive" ELSE "select"
<1>1. /\ load # Idle /\ load \in Load /\ load.device \in Device
      /\ load.todo \subseteq ValuesOf(load.device)
  BY IdleIsNoLoad, TypeFacts DEF Refresh
<1>2. /\ row \in RowData \cup {NoData}
      /\ row.active => row \in RowData
  <2>1. /\ row = IF table[load.device] = None THEN NoData ELSE table[load.device]
        /\ table[load.device] \in RowData \cup {None}
    BY <1>1, LoadedType, TypeFacts DEF Row
  <2>2. ~NoData.active
    BY DEF NoData
  <2> QED
    BY <2>1, <2>2
<1>3. /\ load' = [load EXCEPT !.object = object, !.step = step]
      /\ load.step = "refresh"
      /\ UNCHANGED <<table, log, plugin, Devices, messages, dead, writes, keys,
                     misled>>
  BY DEF Refresh
<1> HIDE DEF row
<1>4. NoValues \in [Key -> ValueObject \cup {None}] /\ \A k \in Key : NoValues[k] = None
  BY DEF NoValues
<1> DEFINE values == NoValues
<1>5. object = [id |-> load.device, row |-> row, values |-> values]
  OBVIOUS
<1>6. values \in [Key -> ValueObject \cup {None}] /\ \A k \in Key : values[k] = None
  BY <1>4
<1> HIDE DEF values
<1>7. /\ object \in [id : Device, row : RowData \cup {NoData},
                     values : [Key -> ValueObject \cup {None}]]
      /\ object.id = load.device /\ object.row = row /\ object.values = values
  BY <1>1, <1>2, <1>5, <1>6
<1> HIDE DEF object
<1>8. object \in DeviceObject
  BY <1>6, <1>7, ObjectFacts
<1>9. step \in {"inactive", "select"} /\ (step = "inactive" => row.active)
  OBVIOUS
<1> HIDE DEF step
<1>10. /\ load' \in Load /\ load'.step = step /\ load'.device = load.device
       /\ load'.rest = load.rest /\ load'.todo = load.todo /\ load'.object = object
  BY <1>1, <1>3, <1>8, <1>9 DEF Load
<1>11. TypeOK'
  BY <1>1, <1>3, <1>7, <1>8, <1>10 DEF TypeOK, ValuesOf
<1> QED
  BY <1>1, <1>2, <1>3, <1>7, <1>8, <1>9, <1>10, <1>11, IdleIsNoLoad DEF values, row

LEMMA SelectLoads ==
    ASSUME TypeOK, SelectValues
    PROVE  /\ load # Idle /\ load' # Idle /\ load' \in Load /\ load.step = "select"
           /\ load'.step = "values"
           /\ load'.device = load.device /\ load'.rest = load.rest
           /\ load'.object = load.object
           /\ load'.todo = Present(ValuesOf(load.device))
           /\ TypeOK'
<1> DEFINE todo == Present(ValuesOf(load.device))
<1>1. /\ load # Idle /\ load \in Load
      /\ load.object \in DeviceObject /\ load.object.id = load.device
  BY IdleIsNoLoad, TypeFacts DEF SelectValues
<1>2. /\ load' = [load EXCEPT !.todo = todo, !.step = "values"]
      /\ load.step = "select"
      /\ UNCHANGED <<table, log, plugin, Devices, messages, dead, writes, keys,
                     misled>>
  BY DEF SelectValues
<1>3. todo \subseteq ValuesOf(load.device) /\ todo \subseteq Value
  BY DEF Present, ValuesOf
<1> HIDE DEF todo
<1>4. /\ load' \in Load /\ load'.step = "values" /\ load'.device = load.device
      /\ load'.rest = load.rest /\ load'.todo = todo /\ load'.object = load.object
  BY <1>1, <1>2, <1>3 DEF Load
<1>5. TypeOK'
  BY <1>1, <1>2, <1>3, <1>4 DEF TypeOK, ValuesOf
<1> QED
  BY <1>1, <1>2, <1>4, <1>5, IdleIsNoLoad DEF todo

\* A value is put into the values of an object.
LEMMA ValueSet ==
    ASSUME TypeOK, NEW object \in DeviceObject, NEW v \in ValuesOf(object.id)
    PROVE  LET new == SetItem(object.values, Loaded(v))
           IN  /\ new \in [Key -> ValueObject \cup {None}]
               /\ \A k \in Key : new[k] # None => new[k].id \in ValuesOf(object.id)
               /\ \A k \in Key : new[k] = object.values[k] \/ new[k] = Loaded(v)
<1>1. v \in Value /\ v \in Row
  BY DEF ValuesOf, Row
<1>2. Loaded(v) \in ValueObject /\ Loaded(v).id = v /\ Loaded(v).row.key \in Key
  BY <1>1, LoadedType
<1>3. /\ object.values \in [Key -> ValueObject \cup {None}]
      /\ \A k \in Key : object.values[k] # None =>
            object.values[k].id \in ValuesOf(object.id)
  BY ObjectFacts
<1> HIDE DEF Loaded
<1> DEFINE new == SetItem(object.values, Loaded(v))
<1>4. new \in [Key -> ValueObject \cup {None}]
  BY <1>2, <1>3, ItemType
<1>5. \A k \in Key : new[k] = object.values[k] \/ new[k] = Loaded(v)
  BY <1>2, <1>3 DEF SetItem
<1> HIDE DEF new
<1>6. \A k \in Key : new[k] # None => new[k].id \in ValuesOf(object.id)
  BY <1>2, <1>3, <1>5
<1> QED
  BY <1>4, <1>5, <1>6 DEF new

LEMMA AddValueLoads ==
    ASSUME TypeOK, AddValue
    PROVE  LET v == Min(load.todo)
           IN  /\ load # Idle /\ load' # Idle /\ load' \in Load
               /\ load.step = "values" /\ load'.step = "values"
               /\ load'.device = load.device /\ load'.rest = load.rest
               /\ v \in load.todo /\ v \in ValuesOf(load.device)
               /\ load'.todo = load.todo \ {v}
               /\ load.object \in DeviceObject /\ load.object.id = load.device
               /\ load'.object \in DeviceObject /\ load'.object.id = load.object.id
               /\ load'.object.row = load.object.row
               /\ load'.object.values = SetItem(load.object.values, Loaded(v))
               /\ TypeOK'
<1> DEFINE v == Min(load.todo)
<1>1. /\ load # Idle /\ load \in Load
      /\ load.todo \in SUBSET ValuesOf(load.device)
      /\ load.object \in DeviceObject /\ load.object.id = load.device
  BY IdleIsNoLoad, TypeFacts DEF AddValue
<1>2. v \in load.todo
  <2>1. load.todo \in SUBSET Nat /\ load.todo # {}
    BY <1>1, DevicesConstants DEF AddValue, ValuesOf
  <2> QED
    BY <2>1, MinMember
<1> DEFINE values == SetItem(load.object.values, Loaded(v))
           object == [load.object EXCEPT !.values = values]
<1>3. /\ load' = [load EXCEPT !.object.values = values, !.todo = load.todo \ {v}]
      /\ load.step = "values"
      /\ UNCHANGED <<table, log, plugin, Devices, messages, dead, writes, keys,
                     misled>>
  BY DEF AddValue
<1> HIDE DEF v
<1>4. /\ values \in [Key -> ValueObject \cup {None}]
      /\ \A k \in Key : values[k] # None => values[k].id \in ValuesOf(load.object.id)
  BY <1>1, <1>2, ValueSet
<1> HIDE DEF values
<1>5. /\ object \in DeviceObject /\ object.id = load.object.id
      /\ object.row = load.object.row /\ object.values = values
  BY <1>1, <1>4, ValuesChanged
<1>6. /\ load' \in Load /\ load'.step = "values" /\ load'.device = load.device
      /\ load'.rest = load.rest /\ load'.todo = load.todo \ {v}
      /\ load'.object = object
  BY <1>1, <1>3, <1>5 DEF Load
<1> HIDE DEF object
<1>7. TypeOK'
  BY <1>1, <1>3, <1>5, <1>6 DEF TypeOK, ValuesOf
<1> QED
  BY <1>1, <1>2, <1>3, <1>5, <1>6, <1>7, IdleIsNoLoad DEF values, v

LEMMA AddDeviceLoads ==
    ASSUME TypeOK, AddDevice
    PROVE  /\ load # Idle /\ load.step = "values" /\ load.todo = {}
           /\ load.object \in DeviceObject /\ load.object.id = load.device
           /\ load.object.row.key \in Key
           /\ load' = LoadAll(load.rest)
           /\ load' # Idle => /\ load'.step = "refresh" /\ load'.device \in load.rest
                              /\ load'.rest = load.rest \ {load'.device}
                              /\ load'.todo = {}
           /\ load' = Idle <=> load.rest = {}
           /\ Devices' = SetItem(Devices, load.object)
           /\ TypeOK'
<1>1. /\ load # Idle /\ load \in Load /\ load.rest \in SUBSET Device
      /\ load.object \in DeviceObject /\ load.object.id = load.device
      /\ Devices \in [Key -> DeviceObject \cup {None}]
  BY IdleIsNoLoad, TypeFacts DEF AddDevice
<1>2. /\ load' = LoadAll(load.rest) /\ Devices' = SetItem(Devices, load.object)
      /\ load.step = "values" /\ load.todo = {}
      /\ UNCHANGED <<table, log, plugin, messages, dead, writes, keys, misled>>
  BY DEF AddDevice
<1>3. load.object.row.key \in Key
  BY <1>1, ObjectFacts, KeyOfRow
<1>4. Devices' \in [Key -> DeviceObject \cup {None}]
  BY <1>1, <1>2, <1>3, ItemType
<1>5. /\ load' \in Load \cup {Idle}
      /\ load' = Idle <=> load.rest = {}
      /\ load' # Idle => /\ load'.step = "refresh" /\ load'.device \in load.rest
                         /\ load'.rest = load.rest \ {load'.device}
                         /\ load'.todo = {}
  BY <1>1, <1>2, LoadAllType
<1>6. TypeOK'
  BY <1>2, <1>4, <1>5 DEF TypeOK
<1> QED
  BY <1>1, <1>2, <1>3, <1>5, <1>6

-----------------------------------------------------------------------------
(* The statement of the load.                                              *)

LEMMA InactiveLoads ==
    ASSUME TypeInv, WriteInactive
    PROVE  /\ load # Idle /\ load' # Idle /\ load' \in Load
           /\ load.step = "inactive" /\ load'.step = "select"
           /\ load'.device = load.device /\ load'.rest = load.rest
           /\ load'.todo = load.todo
           /\ load.object \in DeviceObject /\ load.object.id = load.device
           /\ load.object.row \in RowData
           /\ load'.object \in DeviceObject /\ load'.object.id = load.object.id
           /\ load'.object.row \in RowData
           /\ load'.object.row.key = load.object.row.key
           /\ load'.object.values = load.object.values
<1>1. /\ load # Idle /\ load \in Load
      /\ load.object \in DeviceObject /\ load.object.id = load.device
      /\ load.object.row \in RowData
  BY IdleIsNoLoad, TypeFacts DEF WriteInactive, TypeInv
<1> DEFINE row == [load.object.row EXCEPT !.active = FALSE]
           object == [load.object EXCEPT !.row = row]
<1>2. row \in RowData /\ row.key = load.object.row.key
  BY <1>1 DEF RowData
<1>3. load.step = "inactive" /\ load' = [load EXCEPT !.object.row.active = FALSE, !.step = "select"]
  BY DEF WriteInactive
<1>4. /\ load.object \in [id : Device, row : RowData \cup {NoData},
                          values : [Key -> ValueObject \cup {None}]]
      /\ \A k \in Key : load.object.values[k] # None =>
            load.object.values[k].id \in ValuesOf(load.object.id)
  BY <1>1, ObjectFacts
<1>5. /\ load' = [load EXCEPT !.object = object, !.step = "select"]
  BY <1>1, <1>3, <1>4 DEF RowData, Load
<1> HIDE DEF row
<1>6. /\ object \in [id : Device, row : RowData \cup {NoData},
                     values : [Key -> ValueObject \cup {None}]]
      /\ object.id = load.object.id /\ object.row = row
      /\ object.values = load.object.values
  BY <1>2, <1>4
<1> HIDE DEF object
<1>7. object \in DeviceObject
  BY <1>4, <1>6, ObjectFacts
<1>8. /\ load' \in Load /\ load'.step = "select" /\ load'.device = load.device
      /\ load'.rest = load.rest /\ load'.todo = load.todo /\ load'.object = object
  BY <1>1, <1>5, <1>7 DEF Load
<1> QED
  BY <1>1, <1>2, <1>3, <1>6, <1>7, <1>8, IdleIsNoLoad

LEMMA InactiveTable ==
    ASSUME TypeInv, WriteInactive, table[load.device] # None
    PROVE  LET d == load.device
           IN  /\ d \in Device
               /\ table' \in [Row -> RowData \cup {None}]
               /\ table'[d] \in RowData /\ table'[d].key = table[d].key
               /\ \A r \in Row : r # d => table'[r] = table[r]
               /\ log' = Append(log, Update(d))
<1> DEFINE d == load.device
           data == load.object.row.data
<1>1. d \in Row /\ d \in Device /\ table \in [Row -> RowData \cup {None}] /\ table[d] \in RowData
  BY InactiveLoads, TypeFacts DEF TypeInv, Row
<1>2. data \in Content
  BY InactiveLoads DEF RowData
<1>3. /\ table' = [table EXCEPT ![d].data = data, ![d].active = FALSE]
      /\ log' = Append(log, Update(d))
  BY DEF WriteInactive, Update
<1> HIDE DEF d, data
<1> DEFINE new == [table[d] EXCEPT !.data = data, !.active = FALSE]
<1>4. new \in RowData /\ new.key = table[d].key
  BY <1>1, <1>2 DEF RowData
<1>5. table' = [table EXCEPT ![d] = new]
  BY <1>1, <1>3
<1> HIDE DEF new
<1>6. /\ table' \in [Row -> RowData \cup {None}] /\ table'[d] = new
      /\ \A r \in Row : r # d => table'[r] = table[r]
  BY <1>1, <1>4, <1>5
<1> QED
  BY <1>1, <1>3, <1>4, <1>6 DEF d

LEMMA InactiveTyped ==
    ASSUME TypeInv, WriteInactive
    PROVE  TypeInv'
<1>1. UNCHANGED <<plugin, Devices, messages, dead, writes, keys, misled>>
  BY DEF WriteInactive
<1>2. /\ load' # Idle /\ load' \in Load /\ load'.step = "select"
      /\ load'.device = load.device /\ load'.todo = load.todo
      /\ load'.object \in DeviceObject /\ load'.object.id = load.device
      /\ load.device \in Device
      /\ load.todo \in SUBSET ValuesOf(load.device)
  BY InactiveLoads, TypeFacts DEF TypeInv
<1>3. table' \in [Row -> RowData \cup {None}] /\ log' \in Seq(Entry)
  <2>1. CASE table[load.device] = None
    <3>1. table' = table /\ log' = log
      BY <2>1 DEF WriteInactive
    <3> QED
      BY <3>1, TypeFacts DEF TypeInv
  <2>2. CASE table[load.device] # None
    <3>1. Update(load.device) \in Entry /\ log \in Seq(Entry)
      BY <1>2, EntryFacts, TypeFacts DEF TypeInv, Row
    <3> QED
      BY <2>2, <3>1, InactiveTable, AppendProperties
  <2> QED
    BY <2>1, <2>2
<1>4. TypeOK'
  BY <1>1, <1>2, <1>3 DEF TypeInv, TypeOK, ValuesOf
<1> QED
  BY <1>2, <1>4 DEF TypeInv

LEMMA InactiveWrites ==
    ASSUME TypeInv, KeysInv, WriteInactive
    PROVE  \E S : Written(S) /\ (table'[load.device] = None \/ Update(load.device) \in S)
<1> DEFINE d == load.device
<1>0. /\ d \in Row /\ keys' = keys /\ log \in Seq(Entry)
      /\ table[d] # None => table[d].key \in keys[d]
  <2>1. d \in Device
    BY InactiveLoads DEF Load
  <2> QED
    BY <2>1, TypeFacts DEF WriteInactive, TypeInv, KeysInv, Row
<1>1. CASE table[d] = None
  <2>1. table' = table /\ log' = log
    BY <1>1 DEF WriteInactive
  <2> DEFINE S == {}
  <2>2. Written(S)
    BY <1>0, <2>1 DEF Written, RowNews
  <2> QED
    BY <1>1, <2>1, <2>2
<1>2. CASE table[d] # None
  <2> DEFINE e == Update(d)
             S == {e}
  <2>1. e \in Entry /\ e.row = d
    BY <1>0, EntryFacts
  <2>2. /\ table'[d] \in RowData /\ table'[d].key = table[d].key
        /\ \A r \in Row : r # d => table'[r] = table[r]
        /\ log' = Append(log, e)
    BY <1>2, InactiveTable
  <2> HIDE DEF e
  <2>3. /\ ToSet(log') = ToSet(log) \cup {e}
        /\ \A a, b : /\ Before(log, a, b)
                     /\ a = e => b # e /\ b \notin ToSet(log)
                     => Before(log', a, b)
    BY <1>0, <2>1, <2>2, AppendMembers
  <2>4. ASSUME NEW r \in Row PROVE RowNews(r, S)
    <3>1. CASE r = d
      <4>1. keys'[r] = keys[r] \cup {table'[r].key}
        BY <1>0, <1>2, <2>2, <3>1
      <4>2. Update(r) \in S /\ \A x \in S : x.row = r => x = Update(r)
        BY <3>1 DEF e
      <4> QED
        BY <1>2, <2>2, <3>1, <4>1, <4>2 DEF RowNews
    <3>2. CASE r # d
      BY <1>0, <2>1, <2>2, <3>2 DEF RowNews
    <3> QED
      BY <3>1, <3>2
  <2>5. Written(S)
    <3>1. S \subseteq Entry /\ ToSet(log') = ToSet(log) \cup S
      BY <2>1, <2>3
    <3>2. ASSUME NEW a, NEW b, Before(log, a, b), a \in S => b \notin ToSet(log) \cup S
          PROVE  Before(log', a, b)
      BY <2>3, <3>2
    <3> QED
      BY <2>4, <3>1, <3>2 DEF Written
  <2>6. Update(d) \in S
    BY DEF e
  <2> QED
    BY <2>5, <2>6
<1> QED
  BY <1>1, <1>2

-----------------------------------------------------------------------------
(* The other steps, and the dictionaries after them.                       *)

LEMMA PublisherTyped ==
    ASSUME TypeOK, DatabaseUpdate
    PROVE  TypeOK'
<1> DEFINE e == Head(log)
<1>1. e \in Entry /\ log' \in Seq(Entry) /\ e.row \in Row
  BY EntryTaken, EntryFacts DEF DatabaseUpdate
<1>2. ASSUME NEW on \in {"onCreate", "onUpdate", "onDelete"}
      PROVE  Append(messages, [on |-> on, row |-> e.row]) \in Seq(Message)
  <2>1. [on |-> on, row |-> e.row] \in Message
    BY <1>1 DEF Message
  <2> QED
    BY <2>1, TypeFacts, AppendProperties
<1>3. \/ \E on \in {"onCreate", "onUpdate", "onDelete"} : Forward(e, on)
      \/ Drop(e) \/ Die
  BY <1>1, EntryFacts DEF DatabaseUpdate, DeviceNews, ValueNews, ValueWritten
<1> HIDE DEF e
<1>4. messages' \in Seq(Message) /\ misled' \subseteq Row /\ dead' \in BOOLEAN
  BY <1>1, <1>2, <1>3, TypeFacts DEF Forward, Drop, Die, TypeOK
<1>5. UNCHANGED <<table, plugin, Devices, load, writes, keys>>
  BY DEF DatabaseUpdate, workerVars
<1> QED
  BY <1>1, <1>4, <1>5 DEF TypeOK

LEMMA StageTyped ==
    ASSUME TypeOK, Register \/ Initialise \/ WithoutInterface
    PROVE  TypeOK'
<1>1. CASE Register
  BY <1>1 DEF Register, TypeOK
<1>2. CASE Initialise
  <2>1. messages' \in Seq(Message)
    <3>1. onStart \in Message /\ messages' = Append(messages, onStart)
      BY <1>2, MessageFacts DEF Initialise, onStart
    <3> QED
      BY <3>1, TypeFacts, AppendProperties
  <2> QED
    BY <1>2, <2>1 DEF Initialise, TypeOK
<1>3. CASE WithoutInterface
  <2>1. messages # << >> /\ messages' = Tail(messages)
    BY <1>3 DEF WithoutInterface, Take
  <2>2. messages' \in Seq(Message)
    BY <2>1, Popped
  <2> QED
    BY <1>3, <2>2 DEF WithoutInterface, workerVars, TypeOK
<1> QED
  BY <1>1, <1>2, <1>3

LEMMA OnStartLoads ==
    ASSUME TypeOK, OnStart
    PROVE  /\ load = Idle /\ messages # << >> /\ Head(messages) = onStart
           /\ messages' = Tail(messages) /\ plugin' = "started"
           /\ load' # Idle => /\ load'.step = "refresh"
                              /\ load'.device \in Present(Device)
                              /\ load'.rest = Present(Device) \ {load'.device}
                              /\ load'.todo = {}
           /\ load' = Idle <=> Present(Device) = {}
           /\ UNCHANGED <<table, log, Devices, dead, keys, misled>>
           /\ TypeOK'
<1>1. /\ load = Idle /\ messages # << >> /\ Head(messages).on = "onStart"
      /\ messages' = Tail(messages) /\ plugin' = "started"
      /\ load' = LoadAll(Present(Device))
      /\ UNCHANGED <<table, log, Devices, dead, writes, keys, misled>>
  BY DEF OnStart, Take
<1>2. Head(messages) = onStart /\ messages' \in Seq(Message)
  <2>1. Head(messages) \in Message /\ messages' \in Seq(Message)
    BY <1>1, Popped
  <2> QED
    BY <1>1, <2>1 DEF Message, onStart
<1>3. Present(Device) \in SUBSET Device
  BY DEF Present
<1>4. /\ load' \in Load \cup {Idle}
      /\ load' = Idle <=> Present(Device) = {}
      /\ load' # Idle => /\ load'.step = "refresh" /\ load'.device \in Present(Device)
                         /\ load'.rest = Present(Device) \ {load'.device}
                         /\ load'.todo = {}
  BY <1>1, <1>3, LoadAllType
<1>5. TypeOK'
  BY <1>1, <1>2, <1>4 DEF TypeOK
<1> QED
  BY <1>1, <1>2, <1>4, <1>5

\* What all handlers of messages do.
LEMMA HandleFacts ==
    ASSUME TypeOK, NEW on, NEW r, Handle(on, r)
    PROVE  /\ load = Idle /\ plugin = "started" /\ messages # << >>
           /\ Head(messages) = [on |-> on, row |-> r]
           /\ messages' = Tail(messages) /\ messages' \in Seq(Message)
           /\ UNCHANGED <<table, log, plugin, dead, writes, keys, misled>>
<1>1. /\ load = Idle /\ plugin = "started" /\ messages # << >>
      /\ Head(messages) = [on |-> on, row |-> r]
      /\ messages' = Tail(messages)
      /\ UNCHANGED <<table, log, plugin, dead, writes, keys, misled>>
  BY DEF Handle, Take
<1>2. messages' \in Seq(Message)
  BY <1>1, Popped
<1> QED
  BY <1>1, <1>2

LEMMA HandledType ==
    ASSUME TypeOK, NEW on, NEW r, Handle(on, r), UNCHANGED load,
           Devices' \in [Key -> DeviceObject \cup {None}]
    PROVE  TypeOK'
BY HandleFacts DEF TypeOK

LEMMA CreateDeviceLoads ==
    ASSUME TypeOK, NEW d \in Device, OnCreateDevice(d)
    PROVE  /\ UNCHANGED Devices
           /\ FindDevice(d) # {} <=> load' = Idle
           /\ load' # Idle => /\ load'.step = "refresh" /\ load'.device = d
                              /\ load'.rest = {} /\ load'.todo = {}
           /\ TypeOK'
<1>1. /\ UNCHANGED Devices /\ Handle("onCreate", d)
      /\ load' = IF FindDevice(d) = {} THEN LoadAll({d}) ELSE Idle
  BY DEF OnCreateDevice
<1>2. /\ LoadAll({d}) \in Load /\ LoadAll({d}) # Idle
      /\ LoadAll({d}).step = "refresh" /\ LoadAll({d}).device = d
      /\ LoadAll({d}).rest = {} /\ LoadAll({d}).todo = {}
  <2> DEFINE S == {d}
  <2>1. S \in SUBSET Device /\ S # {} /\ \A x \in S : x = d
    OBVIOUS
  <2> HIDE DEF S
  <2>2. /\ LoadAll(S) \in Load /\ LoadAll(S) # Idle
        /\ LoadAll(S).step = "refresh" /\ LoadAll(S).device = d
        /\ LoadAll(S).rest = S \ {d} /\ LoadAll(S).todo = {}
    BY <2>1, LoadAllType
  <2> QED
    BY <2>1, <2>2 DEF S
<1>3. TypeOK'
  BY <1>1, <1>2, HandleFacts DEF TypeOK
<1> QED
  BY <1>1, <1>2, <1>3

LEMMA UpdateDeviceTyped ==
    ASSUME TypeOK, NEW d \in Device, OnUpdateDevice(d)
    PROVE  /\ UNCHANGED load
           /\ \A k \in Key : Devices'[k] = IF k \in FindDevice(d) THEN Refreshed(Devices[k])
                                           ELSE Devices[k]
           /\ TypeOK'
<1>1. /\ UNCHANGED load /\ Handle("onUpdate", d)
      /\ Devices' = [k \in Key |-> IF k \in FindDevice(d)
                                   THEN Refreshed(Devices[k]) ELSE Devices[k]]
  BY DEF OnUpdateDevice
<1>2. Devices \in [Key -> DeviceObject \cup {None}]
  BY TypeFacts
<1>3. ASSUME NEW k \in FindDevice(d) PROVE Refreshed(Devices[k]) \in DeviceObject
  <2>1. Devices[k] \in DeviceObject /\ Devices[k].id \in Row
    BY <1>2, DevicesConstants, NoneIsNoRow DEF FindDevice, Find, Row
  <2> QED
    BY <2>1, RefreshedType
<1>4. Devices' \in [Key -> DeviceObject \cup {None}]
  BY <1>1, <1>2, <1>3
<1> QED
  BY <1>1, <1>4, HandledType

LEMMA DeleteDeviceTyped ==
    ASSUME TypeOK, NEW d \in Device, OnDeleteDevice(d)
    PROVE  /\ UNCHANGED load
           /\ \/ FindDevice(d) = {} /\ UNCHANGED Devices
              \/ \E k \in FindDevice(d) : /\ Devices' = DelItem(Devices, Devices[k])
                                          /\ Devices[k] \in DeviceObject
                                          /\ Devices[k].row.key \in Key
           /\ TypeOK'
<1>1. UNCHANGED load /\ Handle("onDelete", d)
  BY DEF OnDeleteDevice
<1>2. Devices \in [Key -> DeviceObject \cup {None}]
  BY TypeFacts
<1>3. ASSUME NEW k \in FindDevice(d)
      PROVE  Devices[k] \in DeviceObject /\ Devices[k].row.key \in Key
  <2>1. Devices[k] \in DeviceObject
    BY <1>2, DevicesConstants, NoneIsNoRow DEF FindDevice, Find
  <2> QED
    BY <2>1, ObjectFacts, KeyOfRow
<1>4. \/ FindDevice(d) = {} /\ UNCHANGED Devices
      \/ \E k \in FindDevice(d) : Devices' = DelItem(Devices, Devices[k])
  BY DEF OnDeleteDevice
<1>5. Devices' \in [Key -> DeviceObject \cup {None}]
  BY <1>2, <1>3, <1>4, ItemType
<1> QED
  BY <1>1, <1>3, <1>4, <1>5, HandledType

\* A handler changes the values of some objects, and nothing else of them.
ValuesOnly(k) ==
    /\ Devices[k] \in DeviceObject /\ Devices'[k] \in DeviceObject
    /\ Devices'[k].id = Devices[k].id /\ Devices'[k].row = Devices[k].row

\* The object of the device of a value.
LEMMA OwnerObject ==
    ASSUME TypeOK, NEW v \in Value, NEW k \in FindDevice(Owner[v])
    PROVE  /\ k \in Key /\ Owner[v] \in Device
           /\ Devices[k] \in DeviceObject /\ Devices[k].id = Owner[v]
           /\ v \in ValuesOf(Devices[k].id)
           /\ Devices[k].values \in [Key -> ValueObject \cup {None}]
           /\ \A j \in Key : Devices[k].values[j] # None =>
                 Devices[k].values[j].id \in ValuesOf(Devices[k].id)
<1>1. Owner[v] \in Device /\ Owner[v] # 0
  BY DevicesConstants
<1>2. Devices[k] \in DeviceObject /\ Devices[k].id = Owner[v] /\ k \in Key
  BY <1>1, TypeFacts, NoneIsNoRow DEF FindDevice, Find
<1> QED
  BY <1>1, <1>2, ObjectFacts DEF ValuesOf

\* An object that holds a value is one of its device.
LEMMA HolderIsOwner ==
    ASSUME TypeOK, NEW v \in Value, NEW k \in Key, FindValue(k, v) # {}, Devices[k] # None
    PROVE  k \in FindDevice(Owner[v])
<1>1. Devices[k] \in DeviceObject
  BY TypeFacts
<1>2. PICK j \in Key : Devices[k].values[j].id = v
  BY DEF FindValue, Find
<1>3. v # 0
  BY DevicesConstants
<1>4. Devices[k].values[j] # None
  BY <1>2, <1>3, NoneIsNoRow
<1>5. v \in ValuesOf(Devices[k].id)
  BY <1>1, <1>2, <1>4, ObjectFacts
<1> QED
  BY <1>5 DEF ValuesOf, FindDevice, Find

LEMMA CreateValueTyped ==
    ASSUME TypeOK, NEW v \in Value, OnCreateValue(v)
    PROVE  /\ UNCHANGED load
           /\ \A k \in Key :
                 IF k \in FindDevice(Owner[v]) /\ FindValue(k, v) = {}
                 THEN /\ ValuesOnly(k)
                      /\ Devices'[k].values = SetItem(Devices[k].values, Loaded(v))
                 ELSE Devices'[k] = Devices[k]
           /\ TypeOK'
<1>1. /\ UNCHANGED load /\ Handle("onCreate", v)
      /\ Devices' = [k \in Key |->
                        IF k \in FindDevice(Owner[v]) /\ FindValue(k, v) = {}
                        THEN [Devices[k] EXCEPT !.values = SetItem(@, Loaded(v))]
                        ELSE Devices[k]]
  BY DEF OnCreateValue
<1>2. Devices \in [Key -> DeviceObject \cup {None}]
  BY TypeFacts
<1>3. ASSUME NEW k \in FindDevice(Owner[v]), FindValue(k, v) = {}
      PROVE  /\ ValuesOnly(k)
             /\ Devices'[k].values = SetItem(Devices[k].values, Loaded(v))
  <2>1. k \in Key /\ Devices[k] \in DeviceObject /\ v \in ValuesOf(Devices[k].id)
    BY OwnerObject
  <2> DEFINE old == Devices[k]
             values == SetItem(old.values, Loaded(v))
  <2>2. /\ values \in [Key -> ValueObject \cup {None}]
        /\ \A j \in Key : values[j] # None => values[j].id \in ValuesOf(old.id)
    BY <2>1, ValueSet
  <2>3. Devices'[k] = [old EXCEPT !.values = values]
    BY <1>1, <1>3, <2>1
  <2> HIDE DEF values
  <2>4. /\ Devices'[k] \in DeviceObject /\ Devices'[k].id = old.id
        /\ Devices'[k].row = old.row /\ Devices'[k].values = values
    BY <2>1, <2>2, <2>3, ValuesChanged
  <2> QED
    BY <2>1, <2>4 DEF values, ValuesOnly
<1>4. \A k \in Key : ~(k \in FindDevice(Owner[v]) /\ FindValue(k, v) = {})
                        => Devices'[k] = Devices[k]
  BY <1>1
<1>5. Devices' \in [Key -> DeviceObject \cup {None}]
  <2>1. ASSUME NEW k \in Key PROVE Devices'[k] \in DeviceObject \cup {None}
    BY <1>2, <1>3, <1>4 DEF ValuesOnly
  <2>2. DOMAIN Devices' = Key /\ Devices' = [k \in Key |-> Devices'[k]]
    BY <1>1
  <2> QED
    BY <2>1, <2>2
<1> QED
  BY <1>1, <1>3, <1>4, <1>5, HandledType

LEMMA UpdateValueTyped ==
    ASSUME TypeOK, NEW v \in Value, OnUpdateValue(v)
    PROVE  /\ UNCHANGED load
           /\ \A k \in Key :
                 IF k \in FindDevice(Owner[v])
                 THEN /\ ValuesOnly(k)
                      /\ \A j \in Key : Devices'[k].values[j] =
                            IF j \in FindValue(k, v) THEN Refreshed(Devices[k].values[j])
                            ELSE Devices[k].values[j]
                 ELSE Devices'[k] = Devices[k]
           /\ TypeOK'
<1>1. /\ UNCHANGED load /\ Handle("onUpdate", v)
      /\ Devices' = [k \in Key |->
                        IF k \in FindDevice(Owner[v])
                        THEN [Devices[k] EXCEPT !.values =
                                 [j \in Key |-> IF j \in FindValue(k, v)
                                                THEN Refreshed(@[j]) ELSE @[j]]]
                        ELSE Devices[k]]
  BY DEF OnUpdateValue
<1>2. Devices \in [Key -> DeviceObject \cup {None}]
  BY TypeFacts
<1>3. ASSUME NEW k \in FindDevice(Owner[v])
      PROVE  /\ ValuesOnly(k)
             /\ \A j \in Key : Devices'[k].values[j] =
                   IF j \in FindValue(k, v) THEN Refreshed(Devices[k].values[j])
                   ELSE Devices[k].values[j]
  <2>1. /\ k \in Key /\ Devices[k] \in DeviceObject
        /\ Devices[k].values \in [Key -> ValueObject \cup {None}]
        /\ \A j \in Key : Devices[k].values[j] # None =>
              Devices[k].values[j].id \in ValuesOf(Devices[k].id)
    BY OwnerObject
  <2> DEFINE old == Devices[k]
             values == [j \in Key |-> IF j \in FindValue(k, v)
                                      THEN Refreshed(old.values[j]) ELSE old.values[j]]
  <2>2. ASSUME NEW j \in FindValue(k, v)
        PROVE  /\ old.values[j] \in ValueObject /\ old.values[j] # None
               /\ Refreshed(old.values[j]) \in ValueObject
               /\ Refreshed(old.values[j]).id = old.values[j].id
    <3>1. j \in Key /\ old.values[j].id = v /\ v # 0 /\ v \in Row
      BY DevicesConstants DEF FindValue, Find, Row
    <3>2. old.values[j] \in ValueObject
      BY <2>1, <3>1, NoneIsNoRow
    <3> QED
      BY <3>1, <3>2, RefreshedType, NoneIsNoRow
  <2>3. values \in [Key -> ValueObject \cup {None}]
    BY <2>1, <2>2
  <2>4. \A j \in Key : values[j] # None => values[j].id \in ValuesOf(old.id)
    <3>1. ASSUME NEW j \in Key, values[j] # None PROVE values[j].id \in ValuesOf(old.id)
      <4>1. CASE j \in FindValue(k, v)
        <5>1. values[j].id = old.values[j].id /\ old.values[j] # None
          BY <2>2, <4>1
        <5> QED
          BY <2>1, <5>1
      <4>2. CASE j \notin FindValue(k, v)
        BY <2>1, <3>1, <4>2
      <4> QED
        BY <4>1, <4>2
    <3> QED
      BY <3>1
  <2>5. Devices'[k] = [old EXCEPT !.values = values]
    BY <1>1, <2>1
  <2>6. \A j \in Key : values[j] = IF j \in FindValue(k, v)
                                   THEN Refreshed(old.values[j]) ELSE old.values[j]
    OBVIOUS
  <2> HIDE DEF values
  <2>7. /\ Devices'[k] \in DeviceObject /\ Devices'[k].id = old.id
        /\ Devices'[k].row = old.row /\ Devices'[k].values = values
    BY <2>1, <2>3, <2>4, <2>5, ValuesChanged
  <2> QED
    BY <2>1, <2>6, <2>7 DEF ValuesOnly
<1>4. \A k \in Key : k \notin FindDevice(Owner[v]) => Devices'[k] = Devices[k]
  BY <1>1
<1>5. Devices' \in [Key -> DeviceObject \cup {None}]
  <2>1. ASSUME NEW k \in Key PROVE Devices'[k] \in DeviceObject \cup {None}
    BY <1>2, <1>3, <1>4 DEF ValuesOnly
  <2>2. DOMAIN Devices' = Key /\ Devices' = [k \in Key |-> Devices'[k]]
    BY <1>1
  <2> QED
    BY <2>1, <2>2
<1> QED
  BY <1>1, <1>3, <1>4, <1>5, HandledType

LEMMA DeleteValueTyped ==
    ASSUME TypeOK, NEW v \in Value, OnDeleteValue(v)
    PROVE  /\ UNCHANGED load
           /\ \A k \in Key :
                 IF k \in Holders(v)
                 THEN /\ ValuesOnly(k)
                      /\ \E j \in FindValue(k, v) :
                            /\ Devices[k].values[j].row.key \in Key
                            /\ Devices'[k].values = DelItem(Devices[k].values, Devices[k].values[j])
                 ELSE Devices'[k] = Devices[k]
           /\ TypeOK'
<1>1. /\ UNCHANGED load /\ Handle("onDelete", v)
      /\ Devices' = [k \in Key |->
                        IF k \in Holders(v)
                        THEN LET j == CHOOSE j \in FindValue(k, v) : TRUE
                             IN  [Devices[k] EXCEPT !.values = DelItem(@, @[j])]
                        ELSE Devices[k]]
  BY DEF OnDeleteValue
<1>2. Devices \in [Key -> DeviceObject \cup {None}]
  BY TypeFacts
<1>3. ASSUME NEW k \in Holders(v)
      PROVE  /\ ValuesOnly(k)
             /\ \E j \in FindValue(k, v) :
                   /\ Devices[k].values[j].row.key \in Key
                   /\ Devices'[k].values = DelItem(Devices[k].values, Devices[k].values[j])
  <2>0. k \in Key /\ Devices[k] # None /\ FindValue(k, v) # {}
    BY DEF Holders
  <2>1. /\ k \in FindDevice(Owner[v])
        /\ Devices[k] \in DeviceObject
        /\ Devices[k].values \in [Key -> ValueObject \cup {None}]
        /\ \A j \in Key : Devices[k].values[j] # None =>
              Devices[k].values[j].id \in ValuesOf(Devices[k].id)
    BY <2>0, HolderIsOwner, OwnerObject
  <2> DEFINE j == CHOOSE j \in FindValue(k, v) : TRUE
             old == Devices[k]
             values == DelItem(old.values, old.values[j])
  <2>2. j \in FindValue(k, v)
    BY <2>0
  <2>3. Devices'[k] = [old EXCEPT !.values = values]
    BY <1>1, <2>0
  <2> HIDE DEF j
  <2>4. j \in Key /\ old.values[j] \in ValueObject
    BY <2>1, <2>2, DevicesConstants, NoneIsNoRow DEF FindValue, Find
  <2>5. old.values[j].row.key \in Key
    BY <2>4, KeyOfRow DEF ValueObject
  <2>6. values \in [Key -> ValueObject \cup {None}]
    BY <2>1, <2>5, ItemType
  <2>7. \A i \in Key : values[i] # None => values[i].id \in ValuesOf(old.id)
    BY <2>1, <2>5 DEF DelItem
  <2>8. values = DelItem(old.values, old.values[j])
    OBVIOUS
  <2> HIDE DEF values
  <2>9. /\ Devices'[k] \in DeviceObject /\ Devices'[k].id = old.id
        /\ Devices'[k].row = old.row /\ Devices'[k].values = values
    BY <2>1, <2>3, <2>6, <2>7, ValuesChanged
  <2> QED
    BY <2>1, <2>2, <2>5, <2>8, <2>9 DEF ValuesOnly
<1>4. \A k \in Key : k \notin Holders(v) => Devices'[k] = Devices[k]
  BY <1>1
<1>5. Devices' \in [Key -> DeviceObject \cup {None}]
  <2>1. ASSUME NEW k \in Key PROVE Devices'[k] \in DeviceObject \cup {None}
    BY <1>2, <1>3, <1>4 DEF ValuesOnly
  <2>2. DOMAIN Devices' = Key /\ Devices' = [k \in Key |-> Devices'[k]]
    BY <1>1
  <2> QED
    BY <2>1, <2>2
<1> QED
  BY <1>1, <1>3, <1>4, <1>5, HandledType

-----------------------------------------------------------------------------
(* What leaves a row alone.                                                *)

\* What is known and what is on its way of a row is as before.
SameNews(r) ==
    /\ table'[r] = table[r]
    /\ Arriving(r)' <=> Arriving(r)
    /\ Changing(r)' <=> Changing(r)
    /\ Leaving(r)' <=> Leaving(r)

\* Rows do not become plain.
LEMMA PlainStays ==
    ASSUME \A r \in Row : keys[r] \subseteq keys'[r], misled \subseteq misled'
    PROVE  /\ \A d \in Device : Plain(d)' => Plain(d)
           /\ \A v \in Value : PlainValue(v)' => PlainValue(v)
<1>1. ASSUME NEW among \in SUBSET Row, NEW r \in Row, OwnKey(r, among)'
      PROVE  OwnKey(r, among)
  <2>1. /\ "" \notin keys'[r]
        /\ \A j, k \in keys'[r] : j = k
        /\ \A q \in among \ {r} : keys'[q] \cap keys'[r] = {}
    BY <1>1 DEF OwnKey
  <2>2. keys[r] \subseteq keys'[r] /\ \A q \in among : keys[q] \subseteq keys'[q]
    OBVIOUS
  <2>3. "" \notin keys[r] /\ \A j, k \in keys[r] : j = k
    BY <2>1, <2>2
  <2>4. ASSUME NEW q \in among \ {r} PROVE keys[q] \cap keys[r] = {}
    <3>1. keys'[q] \cap keys'[r] = {} /\ keys[q] \subseteq keys'[q]
      BY <2>1, <2>2
    <3> QED
      BY <2>2, <3>1
  <2> QED
    BY <2>3, <2>4 DEF OwnKey
<1>2. ASSUME NEW d \in Device, Plain(d)' PROVE Plain(d)
  <2>1. Device \in SUBSET Row /\ d \in Row
    BY DEF Row
  <2>2. OwnKey(d, Device)' /\ d \notin misled'
    BY <1>2 DEF Plain
  <2>3. OwnKey(d, Device)
    BY <1>1, <2>1, <2>2
  <2> QED
    BY <2>2, <2>3 DEF Plain
<1>3. ASSUME NEW v \in Value, PlainValue(v)' PROVE PlainValue(v)
  <2>1. ValuesOf(Owner[v]) \in SUBSET Row /\ v \in Row /\ Owner[v] \in Device
    BY DevicesConstants DEF Row, ValuesOf
  <2>2. Plain(Owner[v])' /\ OwnKey(v, ValuesOf(Owner[v]))' /\ v \notin misled'
    BY <1>3 DEF PlainValue
  <2>3. OwnKey(v, ValuesOf(Owner[v]))
    BY <1>1, <2>1, <2>2
  <2>4. Plain(Owner[v])
    BY <1>2, <2>1, <2>2
  <2> QED
    BY <2>2, <2>3, <2>4 DEF PlainValue
<1> QED
  BY <1>2, <1>3

\* Two rows with InternalIDs of their own do not share one in a dictionary.
LEMMA ApartByKey ==
    ASSUME NEW among, NEW r \in among, NEW q \in among, q # r, OwnKey(r, among),
           NEW x, NEW y, x.id = r, y.id = q, RowOf(x), RowOf(y)
    PROVE  x.row.key # y.row.key \/ x.row = NoData
BY NoneIsNoRow DEF OwnKey, RowOf

\* The object of a row that is there is under its InternalID.
LEMMA UnderKey ==
    ASSUME TypeOK, NEW dictionary, NEW r \in Row, Single(dictionary, r),
           r \notin misled,
           NEW k \in Find(dictionary, r), RowOf(dictionary[k])
    PROVE  /\ k = dictionary[k].row.key
           /\ table[r] # None =>
                 /\ dictionary[k].row \in RowData /\ dictionary[k].row # NoData
                 /\ k \in keys[r]
<1>1. k = dictionary[k].row.key /\ dictionary[k].id = r
  BY DEF Single, Find
<1>2. table[r] # None => dictionary[k].row \in RowData /\ dictionary[k].row.key \in keys[r]
  BY <1>1 DEF RowOf
<1> QED
  BY <1>1, <1>2, NoneIsNoRow

LEMMA ValuesKept ==
    ASSUME TypeOK, NEW v \in Value, v \notin misled, NEW old, NEW new, NEW todo, NEW rest,
           SameNews(v), HoldsValue(old, todo, v), Shadows(old, new, v),
           v \in rest <=> v \in todo,
           \A k \in Find(old, v) : RowOf(old[k])
    PROVE  HoldsValue(new, rest, v)'
<1>1. /\ \A k \in Find(new, v) : k \in Find(old, v) /\ new[k] = old[k]
      /\ \A k \in Find(old, v) : old[k].row # NoData => k \in Find(new, v)
      /\ Single(new, v)
  BY ShadowsFind DEF HoldsValue
<1>2. v \in rest => Find(new, v) = {}
  BY <1>1 DEF HoldsValue
<1>3. table'[v] = table[v]
  BY DEF SameNews
<1>4. ASSUME table[v] = None, v \in rest \/ Find(new, v) # {} PROVE Leaving(v)'
  BY <1>1, <1>4 DEF HoldsValue, SameNews
<1>5. ASSUME table[v] # None PROVE Arriving(v)' \/ v \in rest \/ Find(new, v) # {}
  <2>1. CASE Arriving(v) \/ v \in todo
    BY <2>1 DEF SameNews
  <2>2. CASE Find(old, v) # {}
    <3>1. PICK k \in Find(old, v) : TRUE
      BY <2>2
    <3>2. old[k].row # NoData
      BY <1>5, <3>1, UnderKey DEF HoldsValue, Row
    <3> QED
      BY <1>1, <3>1, <3>2
  <2> QED
    BY <1>5, <2>1, <2>2 DEF HoldsValue
<1>6. ASSUME NEW j \in Find(new, v) PROVE Fresh(new[j], v)'
  BY <1>1, <1>3 DEF HoldsValue, Fresh, SameNews
<1>7. HoldsValue(new, rest, v)' <=>
         /\ Single(new, v)
         /\ v \in rest => Find(new, v) = {}
         /\ IF table'[v] = None
            THEN v \in rest \/ Find(new, v) # {} => Leaving(v)'
            ELSE Arriving(v)' \/ v \in rest \/ Find(new, v) # {}
         /\ \A j \in Find(new, v) : Fresh(new[j], v)'
  BY DEF HoldsValue, Single, Find
<1> QED
  BY <1>1, <1>2, <1>3, <1>4, <1>5, <1>6, <1>7

\* The objects of d are as before, but for their values.
DictKept(d) ==
    /\ \A k \in Key : Devices'[k].id = d =>
          Devices[k].id = d /\ Devices'[k].row = Devices[k].row
    /\ \A k \in Key : Devices[k].id = d /\ Devices[k].row # NoData
                         => Devices'[k].id = d

LEMMA DictFind ==
    ASSUME TypeOK, ObjectsInv, NEW d \in Device, d \notin misled, Single(Devices, d), DictKept(d)
    PROVE  /\ \A k \in FindDevice(d)' : k \in FindDevice(d) /\ Devices'[k].row = Devices[k].row
           /\ table[d] # None => \A k \in FindDevice(d) : k \in FindDevice(d)'
           /\ Single(Devices, d)'
<1>1. \A k : k \in FindDevice(d)' <=> k \in Key /\ Devices'[k].id = d
  BY DEF FindDevice, Find
<1>2. \A k : k \in FindDevice(d) <=> k \in Key /\ Devices[k].id = d
  BY DEF FindDevice, Find
<1>3. \A k \in FindDevice(d)' : k \in FindDevice(d) /\ Devices'[k].row = Devices[k].row
  BY <1>1, <1>2 DEF DictKept
<1>4. ASSUME table[d] # None, NEW k \in FindDevice(d) PROVE k \in FindDevice(d)'
  <2>1. Devices[k] # None /\ k \in Key
    BY <1>2, DevicesConstants, NoneIsNoRow
  <2>2. RowOf(Devices[k])
    BY <2>1 DEF ObjectsInv, ObjectOK
  <2>3. Devices[k].row # NoData
    BY <1>4, <2>2, UnderKey DEF FindDevice, Row
  <2> QED
    BY <1>1, <1>2, <2>1, <2>3 DEF DictKept
<1>5. Single(Devices, d)'
  <2>1. Single(Devices, d)' <=>
           /\ \A k \in FindDevice(d)' : Devices'[k].row.key = k
           /\ \A j, k \in FindDevice(d)' : j = k
    BY DEF Single, FindDevice, Find
  <2>2. /\ \A k \in FindDevice(d) : Devices[k].row.key = k
        /\ \A j, k \in FindDevice(d) : j = k
    BY DEF Single, FindDevice
  <2> QED
    BY <1>3, <2>1, <2>2
<1> QED
  BY <1>3, <1>4, <1>5

LEMMA DeviceKept ==
    ASSUME TypeOK, ObjectsInv, NEW d \in Device, Plain(d), DeviceInv(d), SameNews(d),
           DictKept(d), plugin' = "started" => plugin = "started",
           Covers(d)' <=> Covers(d),
           Building(d)' => Fresh(load.object, d)'
    PROVE  DeviceInv(d)'
<1>1. /\ \A k \in FindDevice(d)' : k \in FindDevice(d) /\ Devices'[k].row = Devices[k].row
      /\ table[d] # None => \A k \in FindDevice(d) : k \in FindDevice(d)'
      /\ Single(Devices, d)'
  BY DictFind DEF DeviceInv, Plain
<1>2. table'[d] = table[d]
  BY DEF SameNews
<1>3. Covers(d)' => FindDevice(d)' = {}
  BY <1>1 DEF DeviceInv
<1>4. ASSUME table[d] = None, Arriving(d)' \/ Covers(d)' \/ FindDevice(d)' # {}
      PROVE  Leaving(d)'
  BY <1>1, <1>4 DEF DeviceInv, SameNews
<1>5. ASSUME table[d] # None, plugin = "started"
      PROVE  Arriving(d)' \/ Covers(d)' \/ FindDevice(d)' # {}
  BY <1>1, <1>5 DEF DeviceInv, SameNews
<1>6. ASSUME NEW k \in FindDevice(d)' PROVE Fresh(Devices[k], d)'
  <2>1. Fresh(Devices[k], d) /\ Devices'[k].row = Devices[k].row
    BY <1>1 DEF DeviceInv
  <2> QED
    BY <1>2, <2>1 DEF Fresh, SameNews
<1> QED
  BY <1>1, <1>2, <1>3, <1>4, <1>5, <1>6 DEF DeviceInv

LEMMA ValueKept ==
    ASSUME TypeOK, ObjectsInv, NEW v \in Value, PlainValue(v), ValueInv(v), SameNews(v),
           \A k \in FindDevice(Owner[v])' :
              k \in FindDevice(Owner[v]) /\ Shadows(Devices[k].values, Devices'[k].values, v),
           load'.step = "values" /\ load'.device = Owner[v] =>
              HoldsValue(load.object.values, load.todo, v)'
    PROVE  ValueInv(v)'
<1>0. ASSUME NEW object, ObjectOK(object), NEW k \in Find(object.values, v)
      PROVE  RowOf(object.values[k])
  BY <1>0, DevicesConstants, NoneIsNoRow DEF ObjectOK, Find
<1>1. table'[v] = None /\ Arriving(v)' => Leaving(v)'
  BY DEF ValueInv, SameNews
<1>2. ASSUME NEW k \in FindDevice(Owner[v])'
      PROVE  HoldsValue(Devices[k].values, {}, v)'
  <2>1. /\ k \in FindDevice(Owner[v]) /\ Shadows(Devices[k].values, Devices'[k].values, v)
        /\ HoldsValue(Devices[k].values, {}, v)
    BY DEF ValueInv
  <2>2. ObjectOK(Devices[k])
    <3>1. Devices[k] # None /\ k \in Key
      BY <2>1, OwnerObject, NoneIsNoRow
    <3> QED
      BY <3>1 DEF ObjectsInv
  <2>3. PICK old, new : old = Devices[k].values /\ new = Devices'[k].values
    OBVIOUS
  <2>4. HoldsValue(old, {}, v) /\ Shadows(old, new, v)
    BY <2>1, <2>3
  <2>5. \A j \in Find(old, v) : RowOf(old[j])
    BY <1>0, <2>2, <2>3
  <2>6. HoldsValue(new, {}, v)'
    BY <2>4, <2>5, ValuesKept DEF PlainValue
  <2> QED
    BY <2>3, <2>6 DEF HoldsValue, Single, Find, Fresh
<1> QED
  BY <1>1, <1>2 DEF ValueInv

-----------------------------------------------------------------------------
(* What a message that was taken leaves.                                   *)

\* The parts that are about the table and the news.
LEMMA PopNews ==
    ASSUME TypeOK, KeysInv, OrderInv, messages # << >>, messages' = Tail(messages),
           UNCHANGED <<table, log, keys, misled>>
    PROVE  KeysInv' /\ OrderInv'
<1> DEFINE m == Head(messages)
<1>1. /\ \A n : Queued(n)' => Queued(n)
      /\ \A a, b : Before(messages, a, b) => Before(messages', a, b)
  BY Popped
<1>2. \A n : InLog(n)' <=> InLog(n)
  BY DEF InLog
<1>3. KeysInv'
  <2>1. \A n \in ToSet(messages)' : n \in ToSet(messages)
    BY <1>1 DEF Queued
  <2> QED
    BY <2>1 DEF KeysInv, Known
<1>4. OrderInv'
  <2> SUFFICES ASSUME NEW r \in Row \ misled
               PROVE  /\ Before(log, Insert(r), Delete(r))'
                      /\ Before(messages, onCreate(r), onDelete(r))'
                      /\ Queued(onDelete(r))' => ~InLog(Insert(r))'
                      /\ Leaving(r)' => table'[r] = None
    BY DEF OrderInv
  <2>1. Before(log, Insert(r), Delete(r))'
    <3>1. Before(log, Insert(r), Delete(r))
      BY DEF OrderInv
    <3> QED
      BY <3>1 DEF Before, Insert, Delete
  <2>2. Before(messages, onCreate(r), onDelete(r))'
    <3>1. Before(messages', onCreate(r), onDelete(r))
      BY <1>1 DEF OrderInv
    <3> QED
      BY <3>1 DEF Before, onCreate, onDelete
  <2>3. Queued(onDelete(r))' => ~InLog(Insert(r))'
    BY <1>1, <1>2 DEF OrderInv
  <2>4. Leaving(r)' => table'[r] = None
    BY <1>1, <1>2 DEF OrderInv, Leaving
  <2> QED
    BY <2>1, <2>2, <2>3, <2>4
<1> QED
  BY <1>3, <1>4

LEMMA PopSameNews ==
    ASSUME TypeOK, messages # << >>, messages' = Tail(messages), UNCHANGED <<table, log>>
    PROVE  LET m == Head(messages)
           IN  /\ \A r \in Row : r # m.row \/ m = onStart => SameNews(r)
               /\ \A r \in Row : m = onCreate(r) =>
                     (Changing(r)' <=> Changing(r)) /\ (Leaving(r)' <=> Leaving(r))
               /\ \A r \in Row : m = onUpdate(r) =>
                     (Arriving(r)' <=> Arriving(r)) /\ (Leaving(r)' <=> Leaving(r))
               /\ \A r \in Row : m = onDelete(r) =>
                     (Arriving(r)' <=> Arriving(r)) /\ (Changing(r)' <=> Changing(r))
<1> DEFINE m == Head(messages)
<1>1. \A n : n # m => (Queued(n)' <=> Queued(n))
  BY Popped
<1>2. \A n : InLog(n)' <=> InLog(n)
  BY DEF InLog
<1>3. table' = table
  OBVIOUS
<1> HIDE DEF m
<1>4. ASSUME NEW r \in Row, r # m.row \/ m = onStart PROVE SameNews(r)
  <2>1. m # onCreate(r) /\ m # onUpdate(r) /\ m # onDelete(r)
    BY <1>4, MessageFacts
  <2> QED
    BY <1>1, <1>2, <1>3, <2>1 DEF SameNews, Arriving, Changing, Leaving
<1>5. ASSUME NEW r \in Row, m = onCreate(r)
      PROVE  (Changing(r)' <=> Changing(r)) /\ (Leaving(r)' <=> Leaving(r))
  <2>1. m # onUpdate(r) /\ m # onDelete(r)
    BY <1>5, MessageFacts
  <2> QED
    BY <1>1, <1>2, <2>1 DEF Changing, Leaving
<1>6. ASSUME NEW r \in Row, m = onUpdate(r)
      PROVE  (Arriving(r)' <=> Arriving(r)) /\ (Leaving(r)' <=> Leaving(r))
  <2>1. m # onCreate(r) /\ m # onDelete(r)
    BY <1>6, MessageFacts
  <2> QED
    BY <1>1, <1>2, <2>1 DEF Arriving, Leaving
<1>7. ASSUME NEW r \in Row, m = onDelete(r)
      PROVE  (Arriving(r)' <=> Arriving(r)) /\ (Changing(r)' <=> Changing(r))
  <2>1. m # onCreate(r) /\ m # onUpdate(r)
    BY <1>7, MessageFacts
  <2> QED
    BY <1>1, <1>2, <2>1 DEF Arriving, Changing
<1> QED
  BY <1>4, <1>5, <1>6, <1>7 DEF m

\* Nor does a step without messages say anything new.
LEMMA SilentNews ==
    ASSUME UNCHANGED <<table, log, messages, keys, misled>>
    PROVE  /\ \A r : SameNews(r)
           /\ KeysInv => KeysInv'
           /\ OrderInv => OrderInv'
<1>1. /\ \A n : InLog(n)' <=> InLog(n)
      /\ \A n : Queued(n)' <=> Queued(n)
  BY DEF InLog, Queued
<1>2. \A r : SameNews(r)
  BY <1>1 DEF SameNews, Arriving, Changing, Leaving
<1>3. KeysInv => KeysInv'
  BY DEF KeysInv, Known
<1>4. OrderInv => OrderInv'
  BY <1>1, <1>2 DEF OrderInv, Before, Insert, Delete, onCreate, onDelete, SameNews
<1> QED
  BY <1>2, <1>3, <1>4

\* A message that was taken leaves no second onStart.
LEMMA PopStage ==
    ASSUME TypeOK, StageInv, messages # << >>, messages' = Tail(messages),
           plugin' # "unregistered", plugin' = "started" \/ UNCHANGED <<plugin, Devices, load>>,
           Queued(onStart)' => plugin' = "initialised"
    PROVE  StageInv'
<1>1. /\ messages \in Seq(Message)
      /\ \A i, j \in DOMAIN messages : messages[i] = onStart /\ messages[j] = onStart => i = j
  BY TypeFacts DEF StageInv
<1>2. \A i, j \in DOMAIN messages' : messages'[i] = onStart /\ messages'[j] = onStart => i = j
  <2>1. /\ DOMAIN messages' = 1 .. Len(messages) - 1 /\ Len(messages) \in Nat
        /\ DOMAIN messages = 1 .. Len(messages)
        /\ \A i \in 1 .. Len(messages) - 1 : messages'[i] = messages[i + 1]
    BY <1>1
  <2> SUFFICES ASSUME NEW i \in DOMAIN messages', NEW j \in DOMAIN messages',
                      messages'[i] = onStart, messages'[j] = onStart
               PROVE  i = j
    OBVIOUS
  <2>2. /\ i + 1 \in DOMAIN messages /\ j + 1 \in DOMAIN messages
        /\ messages[i + 1] = onStart /\ messages[j + 1] = onStart
        /\ i \in Int /\ j \in Int
    BY <2>1
  <2>3. i + 1 = j + 1
    BY <1>1, <2>2
  <2> QED
    BY <2>2, <2>3
<1>3. plugin' # "started" => load' = Idle /\ \A k \in Key : Devices'[k] = None
  BY DEF StageInv
<1> QED
  BY <1>2, <1>3 DEF StageInv, onStart

-----------------------------------------------------------------------------
(* The load of a device.                                                   *)

LEMMA RowsKept ==
    ASSUME \A r \in Row : keys[r] \subseteq keys'[r], misled \subseteq misled', RowsInv,
           \A d \in Device : Plain(d) /\ DeviceInv(d) => DeviceInv(d)',
           \A v \in Value : PlainValue(v) /\ ValueInv(v) => ValueInv(v)'
    PROVE  RowsInv'
BY PlainStays DEF RowsInv

LEMMA LoadStage ==
    ASSUME StageInv, load # Idle, UNCHANGED <<plugin, messages>>
    PROVE  StageInv' /\ plugin = "started"
BY DEF StageInv, Queued, onStart

LEMMA LoadedRow ==
    ASSUME TypeOK, KeysInv, NEW r \in Row, Known(r)
    PROVE  RowOf(Loaded(r)) /\ Fresh(Loaded(r), r)
<1>1. /\ Loaded(r).id = r
      /\ Loaded(r).row = IF table[r] = None THEN NoData ELSE table[r]
  BY LoadedType
<1>2. table[r] # None => table[r] \in RowData /\ table[r].key \in keys[r]
  BY TypeFacts DEF KeysInv
<1> QED
  BY <1>1, <1>2 DEF RowOf, Fresh

LEMMA RefreshedRow ==
    ASSUME TypeOK, KeysInv, NEW object \in DeviceObject \cup ValueObject, object.id \in Row,
           RowOf(object)
    PROVE  RowOf(Refreshed(object)) /\ Fresh(Refreshed(object), object.id)
<1>1. /\ Refreshed(object).id = object.id
      /\ Refreshed(object).row = IF table[object.id] = None
                                 THEN object.row ELSE table[object.id]
  BY RefreshedType
<1>2. table[object.id] # None =>
         table[object.id] \in RowData /\ table[object.id].key \in keys[object.id]
  BY TypeFacts DEF KeysInv
<1> QED
  BY <1>1, <1>2 DEF RowOf, Fresh

\* A step of the load that leaves the dictionary alone.
LEMMA LoadStep ==
    ASSUME TypeOK, Sound, load # Idle, load' # Idle,
           UNCHANGED <<table, log, messages, keys, plugin, Devices, misled, dead>>,
           load'.device = load.device, load'.rest = load.rest, load'.step # "refresh",
           Plain(load.device) => Fresh(load.object, load.device)',
           ObjectOK(load'.object),
           \A v \in load'.todo : Known(v),
           load'.step \in {"inactive", "select"} => load'.object.values = NoValues,
           \A v \in Value :
              PlainValue(v) /\ ValueInv(v) /\ load'.step = "values" /\ load.device = Owner[v]
                 => HoldsValue(load.object.values, load.todo, v)'
    PROVE  Sound'
<1>1. KeysInv' /\ OrderInv' /\ \A r : SameNews(r)
  BY SilentNews DEF Sound
<1>2. StageInv'
  BY LoadStage DEF Sound
<1>3. ObjectsInv'
  <2>1. ObjectOK(load.object)'
    BY DEF ObjectOK, RowOf, Known
  <2>2. \A k \in Key : Devices'[k] # None => ObjectOK(Devices[k])'
    BY DEF Sound, ObjectsInv, ObjectOK, RowOf, Known
  <2> QED
    BY <2>1, <2>2 DEF ObjectsInv
<1>4. LoadInv'
  BY DEF Sound, LoadInv, Known
<1>5. ASSUME NEW d \in Device, Plain(d), DeviceInv(d) PROVE DeviceInv(d)'
  <2>1. Covers(d)' <=> Covers(d)
    BY DEF Covers
  <2>2. DictKept(d)
    BY DEF DictKept
  <2>3. Building(d)' => Fresh(load.object, d)'
    <3>1. CASE d = load.device
      BY <1>5, <3>1 DEF Fresh
    <3>2. CASE d # load.device
      BY <3>2 DEF Building
    <3> QED
      BY <3>1, <3>2
  <2> QED
    BY <1>1, <1>5, <2>1, <2>2, <2>3, DeviceKept DEF Sound
<1>6. ASSUME NEW v \in Value, PlainValue(v), ValueInv(v) PROVE ValueInv(v)'
  <2>1. \A k \in FindDevice(Owner[v])' :
           k \in FindDevice(Owner[v]) /\ Shadows(Devices[k].values, Devices'[k].values, v)
    BY DEF FindDevice, Find, Shadows
  <2>2. load'.step = "values" /\ load'.device = Owner[v] =>
           HoldsValue(load.object.values, load.todo, v)'
    BY <1>6
  <2> QED
    BY <1>1, <1>6, <2>1, <2>2, ValueKept DEF Sound
<1>7. RowsInv'
  BY <1>5, <1>6, RowsKept DEF Sound
<1> QED
  BY <1>1, <1>2, <1>3, <1>4, <1>7 DEF Sound

LEMMA RefreshSound ==
    ASSUME TypeOK, Sound, Refresh
    PROVE  Sound'
<1> DEFINE d == load.device
<1>1. /\ load # Idle /\ load' # Idle
      /\ load'.step \in {"inactive", "select"} /\ load'.device = d
      /\ load'.rest = load.rest /\ load'.todo = load.todo
      /\ load'.object.id = d /\ load'.object.row = Loaded(d).row
      /\ load'.object.values = NoValues
  BY RefreshLoads
<1>2. UNCHANGED <<table, log, messages, keys, plugin, Devices, misled, dead>>
  BY DEF Refresh
<1>3. d \in Row /\ Known(d) /\ \A v \in load.todo : Known(v)
  BY <1>1, TypeFacts DEF Sound, LoadInv, Row
<1>4. RowOf(Loaded(d)) /\ Fresh(Loaded(d), d) /\ Loaded(d).id = d
  BY <1>3, LoadedRow, LoadedType DEF Sound
<1>5. ObjectOK(load'.object)
  <2>1. RowOf(load'.object)
    BY <1>1, <1>4 DEF RowOf
  <2>2. \A k \in Key : load'.object.values[k] = None
    BY <1>1 DEF NoValues
  <2> QED
    BY <2>1, <2>2 DEF ObjectOK
<1>6. SameNews(d)
  BY <1>2, SilentNews
<1>7. Fresh(load.object, load.device)'
  BY <1>1, <1>4, <1>6 DEF Fresh, SameNews
<1> QED
  BY <1>1, <1>2, <1>3, <1>5, <1>7, LoadStep

LEMMA SelectSound ==
    ASSUME TypeOK, Sound, SelectValues
    PROVE  Sound'
<1> DEFINE d == load.device
<1>1. /\ load # Idle /\ load' # Idle /\ load.step = "select"
      /\ load'.step = "values" /\ load'.device = d /\ load'.rest = load.rest
      /\ load'.object = load.object
      /\ load'.todo = Present(ValuesOf(d))
  BY SelectLoads
<1>2. UNCHANGED <<table, log, messages, keys, plugin, Devices, misled, dead>>
  BY DEF SelectValues
<1>3. d \in Device
  BY <1>1, TypeFacts
<1>4. \A v \in load'.todo : Known(v)
  BY <1>1 DEF Sound, KeysInv, Present, ValuesOf, Row, Known
<1>5. ObjectOK(load'.object)
  BY <1>1 DEF Sound, ObjectsInv
<1>6. \A r : SameNews(r)
  BY <1>2, SilentNews
<1>7. Plain(d) => Fresh(load.object, d)'
  <2>1. Plain(d) => Fresh(load.object, d)
    BY <1>1, <1>3 DEF Sound, RowsInv, DeviceInv, Building
  <2>2. PICK o : o = load.object
    OBVIOUS
  <2> QED
    BY <1>1, <1>6, <2>1 DEF Fresh, SameNews
<1>8. ASSUME NEW v \in Value, PlainValue(v), ValueInv(v), d = Owner[v]
      PROVE  HoldsValue(load.object.values, load.todo, v)'
  <2>1. load.object.values = NoValues
    BY <1>1 DEF Sound, LoadInv
  <2>2. Find(NoValues, v) = {}
    BY DevicesConstants, NoneIsNoRow DEF Find, NoValues
  <2>3. v \in load'.todo <=> table[v] # None
    BY <1>1, <1>8 DEF Present, ValuesOf
  <2>4. PICK values, todo : values = load'.object.values /\ todo = load'.todo
    OBVIOUS
  <2>5. values = NoValues /\ Find(values, v) = {} /\ (v \in todo <=> table'[v] # None)
    BY <1>1, <1>2, <2>1, <2>2, <2>3, <2>4
  <2>6. Single(values, v)
    BY <2>5 DEF Single
  <2>7. HoldsValue(values, todo, v)'
    BY <2>5, <2>6 DEF HoldsValue, Single, Find
  <2> QED
    BY <2>4, <2>7 DEF HoldsValue, Single, Find, Fresh
<1> QED
  BY <1>1, <1>2, <1>4, <1>5, <1>7, <1>8, LoadStep

\* A value is added to a dictionary of values that had none of it, or one whose
\* keys are others'.
LEMMA AddedValue ==
    ASSUME TypeOK, KeysInv, NEW object \in DeviceObject, ObjectOK(object),
           NEW v \in ValuesOf(object.id), Known(v),
           NEW w \in ValuesOf(object.id), OwnKey(w, ValuesOf(object.id)), w # v,
           Single(object.values, w)
    PROVE  Shadows(object.values, SetItem(object.values, Loaded(v)), w)
<1>1. v \in Row /\ w \in Row /\ w # 0
  BY DevicesConstants DEF ValuesOf, Row
<1>2. /\ Loaded(v).id = v /\ RowOf(Loaded(v)) /\ Loaded(v).row.key \in Key
  BY <1>1, LoadedRow, LoadedType
<1>3. object.values \in [Key -> ValueObject \cup {None}]
  BY ObjectFacts
<1>4. ASSUME NEW k \in Key, object.values[k].id = w
      PROVE  k # Loaded(v).row.key \/ object.values[k].row = NoData
  <2>1. RowOf(object.values[k]) /\ object.values[k].row.key = k
    BY <1>1, <1>4, NoneIsNoRow DEF ObjectOK, Single, Find
  <2>2. PICK x, y : x = object.values[k] /\ y = Loaded(v)
    OBVIOUS
  <2>3. x.row.key # y.row.key \/ x.row = NoData
    <3> DEFINE among == ValuesOf(object.id)
    <3>1. w \in among /\ v \in among /\ v # w /\ OwnKey(w, among)
      OBVIOUS
    <3>2. x.id = w /\ y.id = v /\ RowOf(x) /\ RowOf(y)
      BY <1>2, <1>4, <2>1, <2>2
    <3> HIDE DEF among
    <3> QED
      BY <3>1, <3>2, ApartByKey
  <2> QED
    BY <2>1, <2>2, <2>3
<1> DEFINE new == Loaded(v)
<1>5. new.row.key \in Key /\ new.id # w
  BY <1>2
<1> HIDE DEF new
<1> QED
  BY <1>1, <1>3, <1>4, <1>5, OtherItem DEF new

LEMMA AddValueSound ==
    ASSUME TypeOK, Sound, AddValue
    PROVE  Sound'
<1> DEFINE d == load.device
           u == Min(load.todo)
<1>1. /\ load # Idle /\ load' # Idle /\ load.step = "values"
      /\ load'.step = "values" /\ load'.device = d /\ load'.rest = load.rest
      /\ u \in load.todo /\ u \in ValuesOf(d)
      /\ load'.todo = load.todo \ {u}
      /\ load.object \in DeviceObject /\ load.object.id = d
      /\ load'.object \in DeviceObject /\ load'.object.id = d
      /\ load'.object.row = load.object.row
      /\ load'.object.values = SetItem(load.object.values, Loaded(u))
  BY AddValueLoads
<1> HIDE DEF u
<1>2. UNCHANGED <<table, log, messages, keys, plugin, Devices, misled, dead>>
  BY DEF AddValue
<1>3. d \in Device /\ u \in Value /\ u \in Row
  BY <1>1, TypeFacts DEF ValuesOf, Row
<1>4. (\A v \in load.todo : Known(v)) /\ ObjectOK(load.object)
  BY <1>1 DEF Sound, LoadInv, ObjectsInv
<1>5. RowOf(Loaded(u)) /\ Fresh(Loaded(u), u) /\ Loaded(u).id = u
  BY <1>1, <1>3, <1>4, LoadedRow, LoadedType DEF Sound
<1>6. ObjectOK(load'.object)
  <2>1. RowOf(load'.object)
    BY <1>1, <1>4 DEF ObjectOK, RowOf
  <2>2. \A k \in Key : \/ load'.object.values[k] = load.object.values[k]
                       \/ load'.object.values[k] = Loaded(u)
    BY <1>1, ValueSet
  <2>3. \A k \in Key : load'.object.values[k] # None => RowOf(load'.object.values[k])
    BY <1>4, <1>5, <2>2 DEF ObjectOK
  <2> QED
    BY <2>1, <2>3 DEF ObjectOK
<1>7. \A r : SameNews(r)
  BY <1>2, SilentNews
<1>8. Plain(d) => Fresh(load.object, d)'
  <2>1. Plain(d) => Fresh(load.object, d)
    BY <1>1, <1>3 DEF Sound, RowsInv, DeviceInv, Building
  <2> QED
    BY <1>1, <1>7, <2>1 DEF Fresh, SameNews
<1>9. ASSUME NEW v \in Value, PlainValue(v), ValueInv(v), d = Owner[v]
      PROVE  HoldsValue(load.object.values, load.todo, v)'
  <2>1. PICK old, new, todo, rest, item :
           /\ old = load.object.values /\ new = load'.object.values
           /\ todo = load.todo /\ rest = load'.todo /\ item = Loaded(u)
    OBVIOUS
  <2>2. HoldsValue(old, todo, v)
    BY <1>1, <1>9, <2>1 DEF ValueInv
  <2>3. \A j \in Find(old, v) : RowOf(old[j])
    BY <1>4, <2>1, DevicesConstants, NoneIsNoRow DEF ObjectOK, Find
  <2>4. /\ new = SetItem(old, item) /\ rest = todo \ {u} /\ u \in todo
        /\ old \in [Key -> ValueObject \cup {None}]
        /\ item.row.key \in Key /\ item.id = u
    BY <1>1, <1>3, <2>1, ObjectFacts, LoadedType
  <2>5. CASE v = u
    <3>1. Find(old, item.id) = {} /\ v \in todo
      BY <2>2, <2>4, <2>5 DEF HoldsValue
    <3>2. /\ Find(new, v) = {item.row.key} /\ new[item.row.key] = item
          /\ Single(new, v)
      BY <2>4, <2>5, <3>1, OwnItem
    <3>3. table[v] = None => Leaving(v)
      BY <2>2, <3>1 DEF HoldsValue
    <3>4. Fresh(item, v)'
      <4>1. Fresh(item, v)
        BY <1>5, <2>1, <2>5
      <4> QED
        BY <1>7, <4>1 DEF Fresh, SameNews
    <3>5. v \notin rest
      BY <2>4, <2>5
    <3>6. \A j \in Find(new, v) : Fresh(new[j], v)'
      BY <3>2, <3>4
    <3>7. HoldsValue(new, rest, v)'
      BY <1>7, <3>2, <3>3, <3>5, <3>6 DEF HoldsValue, Single, Find, SameNews
    <3> QED
      BY <2>1, <3>7 DEF HoldsValue, Single, Find, Fresh
  <2>6. CASE v # u
    <3>1. Shadows(old, new, v)
      <4>1. v \in ValuesOf(d) /\ OwnKey(v, ValuesOf(d)) /\ Single(old, v)
        BY <1>9, <2>2 DEF PlainValue, ValuesOf, HoldsValue
      <4>2. Known(u)
        BY <1>1, <1>4
      <4>3. Shadows(load.object.values, SetItem(load.object.values, Loaded(u)), v)
        BY <1>1, <1>4, <2>1, <2>6, <4>1, <4>2, AddedValue DEF Sound
      <4> QED
        BY <1>1, <2>1, <4>3
    <3>2. v \in rest <=> v \in todo
      BY <2>4, <2>6
    <3>3. HoldsValue(new, rest, v)'
      BY <1>7, <2>2, <2>3, <1>9, <3>1, <3>2, ValuesKept DEF PlainValue
    <3> QED
      BY <2>1, <3>3 DEF HoldsValue, Single, Find, Fresh
  <2> QED
    BY <2>5, <2>6
<1> QED
  BY <1>1, <1>2, <1>4, <1>6, <1>8, <1>9, LoadStep

-----------------------------------------------------------------------------
(* The end of a load.                                                      *)

LEMMA HoldsKept ==
    ASSUME NEW v, NEW values, NEW todo, SameNews(v), HoldsValue(values, todo, v)
    PROVE  HoldsValue(values, todo, v)'
BY DEF HoldsValue, Single, Find, Fresh, SameNews

\* The object of a row that is found is one.
LEMMA FoundObject ==
    ASSUME TypeOK, ObjectsInv, NEW d \in Device, NEW k \in FindDevice(d)
    PROVE  /\ k \in Key /\ Devices[k] \in DeviceObject /\ Devices[k] # None
           /\ Devices[k].id = d /\ ObjectOK(Devices[k]) /\ RowOf(Devices[k])
<1>1. k \in Key /\ Devices[k].id = d /\ d # 0
  BY DevicesConstants DEF FindDevice, Find
<1>2. Devices[k] \in DeviceObject /\ Devices[k] # None
  BY <1>1, TypeFacts, NoneIsNoRow
<1> QED
  BY <1>1, <1>2 DEF ObjectsInv, ObjectOK

\* A plain device is not under the key of another one.
LEMMA OtherDevice ==
    ASSUME TypeOK, ObjectsInv, NEW d \in Device, Plain(d), Single(Devices, d),
           NEW object \in DeviceObject, RowOf(object), object.id # d
    PROVE  /\ Shadows(Devices, SetItem(Devices, object), d)
           /\ Shadows(Devices, DelItem(Devices, object), d)
<1>1. object.row.key \in Key /\ object.id \in Device /\ d # 0
  <2>1. object.row.key \in Key /\ object.id \in Device
    BY ObjectFacts, KeyOfRow
  <2> QED
    BY <2>1, DevicesConstants
<1>2. ASSUME NEW k \in Key, Devices[k].id = d
      PROVE  k # object.row.key \/ Devices[k].row = NoData
  <2>1. k \in FindDevice(d)
    BY <1>2 DEF FindDevice, Find
  <2>2. RowOf(Devices[k]) /\ Devices[k].row.key = k
    BY <2>1, FoundObject DEF Single, FindDevice
  <2>3. PICK x : x = Devices[k]
    OBVIOUS
  <2>4. x.row.key # object.row.key \/ x.row = NoData
    <3>1. x.id = d /\ RowOf(x)
      BY <1>2, <2>2, <2>3
    <3>2. OwnKey(d, Device)
      BY DEF Plain
    <3> QED
      BY <1>1, <3>1, <3>2, ApartByKey
  <2> QED
    BY <2>2, <2>3, <2>4
<1>3. Devices \in [Key -> DeviceObject \cup {None}]
  BY TypeFacts
<1> QED
  BY <1>1, <1>2, <1>3, OtherItem

\* A plain value is not under the key of another one.
LEMMA OtherValue ==
    ASSUME TypeOK, NEW object \in DeviceObject, ObjectOK(object),
           NEW w \in ValuesOf(object.id), OwnKey(w, ValuesOf(object.id)),
           Single(object.values, w),
           NEW j \in Key, object.values[j] # None, object.values[j].id # w
    PROVE  Shadows(object.values, DelItem(object.values, object.values[j]), w)
<1>1. /\ object.values \in [Key -> ValueObject \cup {None}]
      /\ \A k \in Key : object.values[k] # None =>
            object.values[k].id \in ValuesOf(object.id)
  BY ObjectFacts
<1> DEFINE values == object.values
           among == ValuesOf(object.id)
<1>2. /\ w \in among /\ OwnKey(w, among) /\ Single(values, w) /\ w # 0
      /\ values[j].id \in among /\ values[j].row.key \in Key
      /\ \A k \in Key : values[k] # None => RowOf(values[k])
  BY <1>1, DevicesConstants, KeyOfRow DEF ObjectOK, ValuesOf, ValueObject
<1>3. values \in [Key -> ValueObject \cup {None}] /\ values[j] # None /\ values[j].id # w
  BY <1>1
<1> HIDE DEF values, among
<1>4. ASSUME NEW k \in Key, values[k].id = w
      PROVE  k # values[j].row.key \/ values[k].row = NoData
  <2>1. RowOf(values[k]) /\ values[k].row.key = k
    BY <1>2, <1>4, NoneIsNoRow DEF Single, Find
  <2>2. PICK x, y : x = values[k] /\ y = values[j]
    OBVIOUS
  <2>3. x.row.key # y.row.key \/ x.row = NoData
    <3>1. x.id = w /\ RowOf(x) /\ RowOf(y) /\ y.id \in among /\ y.id # w
      BY <1>2, <1>3, <1>4, <2>1, <2>2
    <3> QED
      BY <1>2, <3>1, ApartByKey
  <2> QED
    BY <2>1, <2>2, <2>3
<1>5. PICK item : item = values[j]
  OBVIOUS
<1>6. Shadows(values, DelItem(values, item), w)
  BY <1>2, <1>3, <1>4, <1>5, OtherItem
<1> QED
  BY <1>5, <1>6 DEF values

LEMMA ShadowsDict ==
    ASSUME NEW d, Shadows(Devices, Devices', d)
    PROVE  /\ DictKept(d)
           /\ \A k \in FindDevice(d)' : k \in FindDevice(d) /\ Devices'[k] = Devices[k]
BY DEF Shadows, DictKept, FindDevice, Find

LEMMA SameShadows == \A values, v : Shadows(values, values, v)
BY DEF Shadows

LEMMA AddDeviceSound ==
    ASSUME TypeOK, Sound, AddDevice
    PROVE  Sound'
<1>0. PICK c, object : c = load.device /\ object = load.object
  OBVIOUS
<1>1. /\ load # Idle /\ load.step = "values" /\ load.todo = {}
      /\ object \in DeviceObject /\ object.id = c
      /\ object.row.key \in Key
      /\ load' # Idle => /\ load'.step = "refresh" /\ load'.device \in load.rest
                         /\ load'.rest = load.rest \ {load'.device}
                         /\ load'.todo = {}
      /\ load' = Idle <=> load.rest = {}
      /\ Devices' = SetItem(Devices, object)
  BY <1>0, AddDeviceLoads
<1>2. UNCHANGED <<table, log, messages, keys, plugin, misled, dead>>
  BY DEF AddDevice
<1>3. /\ c \in Device /\ Devices \in [Key -> DeviceObject \cup {None}]
      /\ load.rest \in SUBSET Device
  BY <1>0, <1>1, TypeFacts
<1>4. /\ c \notin load.rest /\ \A d \in load.rest : Known(d)
  BY <1>0, <1>1 DEF Sound, LoadInv
<1>5. ObjectOK(object) /\ RowOf(object)
  BY <1>0, <1>1 DEF Sound, ObjectsInv, ObjectOK
<1>6. KeysInv' /\ OrderInv' /\ \A r : SameNews(r)
  BY <1>2, SilentNews DEF Sound
<1>7. StageInv'
  BY <1>1, <1>2, LoadStage DEF Sound
<1>8. ~(load' # Idle /\ load'.step # "refresh") /\ load'.step # "values"
  BY <1>1, IdleIsNoLoad
<1>9. ObjectsInv'
  <2>1. ASSUME NEW k \in Key, Devices'[k] # None PROVE ObjectOK(Devices[k])'
    <3>1. Devices'[k] = Devices[k] \/ Devices'[k] = object
      BY <1>1, <1>3 DEF SetItem
    <3>2. ObjectOK(Devices'[k])
      BY <1>5, <2>1, <3>1 DEF Sound, ObjectsInv
    <3> QED
      BY <1>2, <3>2 DEF ObjectOK, RowOf, Known
  <2> QED
    BY <1>8, <2>1 DEF ObjectsInv
<1>10. LoadInv'
  BY <1>1, <1>2, <1>4 DEF LoadInv, Known
<1>11. \A d \in Device : Covers(d)' <=> d \in load.rest
  BY <1>1 DEF Covers
<1>12. Covers(c) /\ Building(c)
  BY <1>0, <1>1 DEF Covers, Building
<1>13. ASSUME NEW d \in Device, d # c PROVE Covers(d)' <=> Covers(d)
  BY <1>0, <1>1, <1>11, <1>13 DEF Covers
\* The device itself, which was not found before.
<1>14. ASSUME FindDevice(c) = {}
       PROVE  /\ FindDevice(c)' = {object.row.key}
              /\ Devices'[object.row.key] = object
              /\ Single(Devices, c)'
  <2>1. PICK new : new = Devices'
    OBVIOUS
  <2>2. /\ Find(new, c) = {object.row.key} /\ new[object.row.key] = object
        /\ Single(new, c)
    <3>1. Find(Devices, object.id) = {}
      BY <1>1, <1>14 DEF FindDevice
    <3>2. new = SetItem(Devices, object)
      BY <1>1, <2>1
    <3>3. /\ Find(new, object.id) = {object.row.key} /\ new[object.row.key] = object
          /\ Single(new, object.id)
      BY <1>1, <1>3, <3>1, <3>2 DEF SetItem, Find, Single
    <3> QED
      BY <1>1, <3>3
  <2>3. Find(Devices, c)' = {object.row.key} /\ Single(Devices, c)'
    BY <2>1, <2>2 DEF Find, Single
  <2> QED
    BY <2>1, <2>2, <2>3 DEF FindDevice
<1>15. ASSUME NEW d \in Device, d # c, Plain(d), DeviceInv(d)
       PROVE  Shadows(Devices, Devices', d)
  <2>1. Single(Devices, d)
    BY <1>15 DEF DeviceInv
  <2> QED
    BY <1>1, <1>5, <1>15, <2>1, OtherDevice DEF Sound
<1>16. ASSUME NEW d \in Device, Plain(d), DeviceInv(d) PROVE DeviceInv(d)'
  <2>1. CASE d = c
    <3>1. FindDevice(c) = {}
      BY <1>12, <1>16, <2>1 DEF DeviceInv
    <3>2. /\ FindDevice(c)' = {object.row.key}
          /\ Devices'[object.row.key] = object
          /\ Single(Devices, c)'
      BY <1>14, <3>1
    <3>3. ~Covers(c)' /\ ~Building(c)'
      BY <1>3, <1>4, <1>8, <1>11 DEF Building
    <3>4. Fresh(object, c) /\ (table[c] = None => Leaving(c))
      BY <1>0, <1>12, <1>16, <2>1 DEF DeviceInv
    <3>5. Fresh(object, c)' /\ (table'[c] = None => Leaving(c)')
      BY <1>6, <3>4 DEF Fresh, SameNews
    <3>6. \A k \in FindDevice(c)' : Fresh(Devices[k], c)'
      BY <3>2, <3>5 DEF Fresh
    <3>7. DeviceInv(c)'
      BY <3>2, <3>3, <3>5, <3>6 DEF DeviceInv, Fresh
    <3> QED
      BY <2>1, <3>7
  <2>2. CASE d # c
    <3>1. DictKept(d)
      BY <1>15, <1>16, <2>2, ShadowsDict
    <3>2. ~Building(d)'
      BY <1>8 DEF Building
    <3> QED
      BY <1>2, <1>6, <1>13, <1>16, <2>2, <3>1, <3>2, DeviceKept DEF Sound
  <2> QED
    BY <2>1, <2>2
<1>17. ASSUME NEW v \in Value, PlainValue(v), ValueInv(v) PROVE ValueInv(v)'
  <2> DEFINE d == Owner[v]
  <2>1. d \in Device /\ Plain(d) /\ DeviceInv(d)
    BY <1>17, DevicesConstants DEF PlainValue, Sound, RowsInv
  <2>2. CASE d = c
    <3>1. FindDevice(c) = {}
      BY <1>12, <2>1, <2>2 DEF DeviceInv
    <3>2. FindDevice(c)' = {object.row.key} /\ Devices'[object.row.key] = object
      BY <1>14, <3>1
    <3>3. HoldsValue(object.values, {}, v)'
      <4>1. HoldsValue(object.values, {}, v)
        BY <1>0, <1>1, <1>17, <2>2 DEF ValueInv
      <4> QED
        BY <1>6, <4>1, HoldsKept
    <3>4. ASSUME NEW k \in FindDevice(Owner[v])' PROVE HoldsValue(Devices[k].values, {}, v)'
      <4>1. Devices'[k] = object
        BY <2>2, <3>2, <3>4
      <4> QED
        BY <3>3, <4>1 DEF HoldsValue, Single, Find, Fresh
    <3>5. table'[v] = None /\ Arriving(v)' => Leaving(v)'
      BY <1>6, <1>17 DEF ValueInv, SameNews
    <3> QED
      BY <1>8, <3>4, <3>5 DEF ValueInv
  <2>3. CASE d # c
    <3>1. \A k \in FindDevice(d)' : k \in FindDevice(d) /\ Devices'[k] = Devices[k]
      BY <1>15, <2>1, <2>3, ShadowsDict
    <3>2. \A k \in FindDevice(Owner[v])' :
             k \in FindDevice(Owner[v]) /\ Shadows(Devices[k].values, Devices'[k].values, v)
      BY <3>1, SameShadows
    <3> QED
      BY <1>6, <1>8, <1>17, <3>2, ValueKept DEF Sound
  <2> QED
    BY <2>2, <2>3
<1>18. RowsInv'
  BY <1>2, <1>16, <1>17, RowsKept DEF Sound
<1> QED
  BY <1>6, <1>7, <1>9, <1>10, <1>18 DEF Sound

-----------------------------------------------------------------------------
(* The handlers of messages.                                               *)

LEMMA HandledSound ==
    ASSUME TypeOK, Sound, NEW on, NEW r, Handle(on, r), ObjectsInv', LoadInv',
           \A d \in Device : Plain(d) /\ DeviceInv(d) => DeviceInv(d)',
           \A v \in Value : PlainValue(v) /\ ValueInv(v) => ValueInv(v)'
    PROVE  Sound'
<1>1. /\ plugin = "started" /\ messages # << >> /\ messages' = Tail(messages)
      /\ UNCHANGED <<table, log, plugin, dead, writes, keys, misled>>
  BY HandleFacts
<1>2. KeysInv' /\ OrderInv'
  BY <1>1, PopNews DEF Sound
<1>3. ~Queued(onStart)'
  <2>1. ~Queued(onStart)
    BY <1>1 DEF Sound, StageInv
  <2>2. \A n : Queued(n)' => Queued(n)
    BY <1>1, Popped
  <2>3. onStart' = onStart
    BY DEF onStart
  <2>4. PICK n : n = onStart
    OBVIOUS
  <2>5. ~Queued(n)'
    BY <2>1, <2>2, <2>4
  <2> QED
    BY <2>3, <2>4, <2>5 DEF Queued
<1>4. StageInv'
  BY <1>1, <1>3, PopStage DEF Sound
<1>5. RowsInv'
  BY <1>1, RowsKept DEF Sound
<1> QED
  BY <1>2, <1>4, <1>5 DEF Sound

\* What a handler knows: the message was there, and is gone.
LEMMA HandledNews ==
    ASSUME TypeOK, Sound, NEW on \in {"onCreate", "onUpdate", "onDelete"}, NEW r \in Row,
           Handle(on, r)
    PROVE  /\ load = Idle /\ plugin = "started" /\ messages # << >>
           /\ UNCHANGED <<table, log, plugin, keys, misled>>
           /\ Known(r) /\ \A q \in Row \ {r} : SameNews(q)
           /\ table'[r] = table[r]
           /\ on = "onCreate" => /\ Arriving(r) /\ (Changing(r)' <=> Changing(r))
                                 /\ (Leaving(r)' <=> Leaving(r))
           /\ on = "onUpdate" => /\ (Arriving(r)' <=> Arriving(r))
                                 /\ (Leaving(r)' <=> Leaving(r))
           /\ on = "onDelete" /\ r \notin misled => table[r] = None /\ ~Arriving(r)'
<1> DEFINE m == [on |-> on, row |-> r]
<1>1. /\ load = Idle /\ plugin = "started" /\ messages # << >>
      /\ Head(messages) = m
      /\ messages' = Tail(messages) /\ messages' \in Seq(Message)
      /\ UNCHANGED <<table, log, plugin, keys, misled>>
  BY HandleFacts
<1>2. /\ on = "onCreate" => m = onCreate(r)
      /\ on = "onUpdate" => m = onUpdate(r)
      /\ on = "onDelete" => m = onDelete(r)
      /\ m.row = r
  BY DEF onCreate, onUpdate, onDelete
<1> HIDE DEF m
<1>3. m # onStart
  BY <1>2, MessageFacts
<1>4. /\ Queued(m)
      /\ \A n : Queued(n)' => Queued(n)
      /\ \A a, b : Before(messages, a, b) => (b = m => ~Queued(a)')
  BY <1>1, Popped
<1>5. Known(r)
  BY <1>2, <1>3, <1>4 DEF Sound, KeysInv, Queued
<1>6. \A q \in Row \ {r} : SameNews(q)
  BY <1>1, <1>2, PopSameNews
<1>7. on = "onCreate" => /\ Arriving(r) /\ (Changing(r)' <=> Changing(r))
                         /\ Leaving(r)' <=> Leaving(r)
  <2>1. on = "onCreate" => (Changing(r)' <=> Changing(r)) /\ (Leaving(r)' <=> Leaving(r))
    BY <1>1, <1>2, PopSameNews
  <2> QED
    BY <1>2, <1>4, <2>1 DEF Arriving
<1>8. on = "onUpdate" => (Arriving(r)' <=> Arriving(r)) /\ (Leaving(r)' <=> Leaving(r))
  BY <1>1, <1>2, PopSameNews
<1>9. ASSUME on = "onDelete", r \notin misled PROVE table[r] = None /\ ~Arriving(r)'
  <2>1. Queued(onDelete(r))
    BY <1>2, <1>4, <1>9
  <2>2. table[r] = None /\ ~InLog(Insert(r)) /\ Before(messages, onCreate(r), onDelete(r))
    BY <1>9, <2>1 DEF Sound, OrderInv, Leaving
  <2>3. ~Queued(onCreate(r))'
    <3>1. PICK n : n = onCreate(r)
      OBVIOUS
    <3>2. ~Queued(n)'
      BY <1>2, <1>4, <1>9, <2>2, <3>1
    <3>3. onCreate(r)' = onCreate(r)
      BY DEF onCreate
    <3> QED
      BY <3>1, <3>2, <3>3 DEF Queued
  <2>4. ~InLog(Insert(r))'
    BY <1>1, <2>2 DEF InLog, Insert
  <2> QED
    BY <2>2, <2>3, <2>4 DEF Arriving
<1> QED
  BY <1>1, <1>5, <1>6, <1>7, <1>8, <1>9

\* The values when a handler leaves them alone.
LEMMA ValuesAlone ==
    ASSUME TypeOK, Sound, UNCHANGED <<keys, misled>>,
           NEW v \in Value, PlainValue(v), ValueInv(v), SameNews(v), load'.step # "values",
           \A k \in FindDevice(Owner[v])' :
              k \in FindDevice(Owner[v]) /\ Devices'[k].values = Devices[k].values
    PROVE  ValueInv(v)'
<1>1. \A k \in FindDevice(Owner[v])' :
         k \in FindDevice(Owner[v]) /\ Shadows(Devices[k].values, Devices'[k].values, v)
  BY SameShadows
<1> QED
  BY <1>1, ValueKept DEF Sound

LEMMA CreateDeviceSound ==
    ASSUME TypeOK, Sound, NEW d \in Device, OnCreateDevice(d)
    PROVE  Sound'
<1>1. Handle("onCreate", d)
  BY DEF OnCreateDevice
<1>2. /\ UNCHANGED Devices
      /\ FindDevice(d) # {} <=> load' = Idle
      /\ load' # Idle => /\ load'.step = "refresh" /\ load'.device = d
                         /\ load'.rest = {} /\ load'.todo = {}
  BY CreateDeviceLoads
<1>3. /\ load = Idle /\ plugin = "started"
      /\ UNCHANGED <<table, log, plugin, keys, misled>>
      /\ Known(d) /\ \A q \in Row \ {d} : SameNews(q)
      /\ table'[d] = table[d] /\ Arriving(d)
      /\ Changing(d)' <=> Changing(d)
      /\ Leaving(d)' <=> Leaving(d)
  BY <1>1, HandledNews DEF Row
<1>4. load'.step # "values" /\ ~(load' # Idle /\ load'.step # "refresh")
  BY <1>2, IdleIsNoLoad
<1>5. ObjectsInv'
  <2>1. \A k \in Key : Devices'[k] # None => ObjectOK(Devices[k])'
    BY <1>2, <1>3 DEF Sound, ObjectsInv, ObjectOK, RowOf, Known
  <2> QED
    BY <1>4, <2>1 DEF ObjectsInv
<1>6. LoadInv'
  BY <1>2, <1>3 DEF LoadInv, Known
<1>7. \A x \in Device : ~Building(x)' /\ ~Covers(x)
  BY <1>3, <1>4 DEF Building, Covers
<1>8. \A x \in Device : Covers(x)' <=> load' # Idle /\ x = d
  BY <1>2 DEF Covers
<1>9. \A x \in Device : FindDevice(x)' = FindDevice(x)
  BY <1>2 DEF FindDevice, Find
<1>10. ASSUME NEW x \in Device, Plain(x), DeviceInv(x) PROVE DeviceInv(x)'
  <2>1. CASE x # d
    <3>1. DictKept(x) /\ SameNews(x)
      BY <1>2, <1>3, <2>1 DEF DictKept, Row
    <3> QED
      BY <1>3, <1>7, <1>8, <1>10, <2>1, <3>1, DeviceKept DEF Sound
  <2>2. CASE x = d
    <3>1. Single(Devices, d)'
      BY <1>2, <1>10, <2>2 DEF DeviceInv, Single, Find
    <3>2. Covers(d)' => FindDevice(d)' = {}
      BY <1>2, <1>8, <1>9
    <3>3. table'[d] = None => Leaving(d)'
      BY <1>3, <1>10, <2>2 DEF DeviceInv
    <3>4. Covers(d)' \/ FindDevice(d)' # {}
      BY <1>2, <1>8, <1>9
    <3>5. \A k \in FindDevice(d)' : Fresh(Devices[k], d)'
      BY <1>2, <1>3, <1>9, <1>10, <2>2 DEF DeviceInv, Fresh
    <3> QED
      BY <1>7, <2>2, <3>1, <3>2, <3>3, <3>4, <3>5 DEF DeviceInv
  <2> QED
    BY <2>1, <2>2
<1>11. ASSUME NEW v \in Value, PlainValue(v), ValueInv(v) PROVE ValueInv(v)'
  <2>1. SameNews(v)
    BY <1>3, DevicesConstants DEF Row
  <2>2. Owner[v] \in Device
    BY DevicesConstants
  <2> QED
    BY <1>2, <1>3, <1>4, <1>9, <1>11, <2>1, <2>2, ValuesAlone
<1> QED
  BY <1>1, <1>5, <1>6, <1>10, <1>11, HandledSound

LEMMA UpdateDeviceSound ==
    ASSUME TypeOK, Sound, NEW d \in Device, OnUpdateDevice(d)
    PROVE  Sound'
<1>1. Handle("onUpdate", d)
  BY DEF OnUpdateDevice
<1>2. /\ UNCHANGED load
      /\ \A k \in Key : Devices'[k] = IF k \in FindDevice(d) THEN Refreshed(Devices[k])
                                      ELSE Devices[k]
  BY UpdateDeviceTyped
<1>3. /\ load = Idle /\ plugin = "started"
      /\ UNCHANGED <<table, log, plugin, keys, misled>>
      /\ Known(d) /\ \A q \in Row \ {d} : SameNews(q)
      /\ table'[d] = table[d]
      /\ Arriving(d)' <=> Arriving(d)
      /\ Leaving(d)' <=> Leaving(d)
  BY <1>1, HandledNews DEF Row
<1>4. load'.step # "values" /\ load' = Idle
  BY <1>2, <1>3, IdleIsNoLoad
<1>5. ASSUME NEW k \in FindDevice(d)
      PROVE  /\ Devices'[k] = Refreshed(Devices[k])
             /\ Devices'[k].id = d /\ Devices'[k].values = Devices[k].values
             /\ Devices'[k].row = IF table[d] = None THEN Devices[k].row ELSE table[d]
             /\ RowOf(Devices'[k]) /\ ObjectOK(Devices'[k])
  <2>1. /\ k \in Key /\ Devices[k] \in DeviceObject
        /\ Devices[k].id = d /\ ObjectOK(Devices[k]) /\ RowOf(Devices[k]) /\ d \in Row
    BY FoundObject DEF Sound, Row
  <2>2. PICK old : old = Devices[k]
    OBVIOUS
  <2>3. Refreshed(old).id = d /\ Refreshed(old).values = old.values
        /\ Refreshed(old).row = IF table[d] = None THEN old.row ELSE table[d]
    BY <2>1, <2>2, RefreshedType
  <2>4. RowOf(Refreshed(old))
    BY <2>1, <2>2, RefreshedRow DEF Sound
  <2>5. ObjectOK(Refreshed(old))
    BY <2>1, <2>2, <2>3, <2>4 DEF ObjectOK
  <2> QED
    BY <1>2, <2>1, <2>2, <2>3, <2>4, <2>5
<1>6. \A k \in Key : k \notin FindDevice(d) => Devices'[k] = Devices[k]
  BY <1>2
<1>7. ObjectsInv'
  <2>1. ASSUME NEW k \in Key, Devices'[k] # None PROVE ObjectOK(Devices[k])'
    <3>1. ObjectOK(Devices'[k])
      BY <1>5, <1>6, <2>1 DEF Sound, ObjectsInv
    <3> QED
      BY <1>3, <3>1 DEF ObjectOK, RowOf, Known
  <2> QED
    BY <1>4, <2>1 DEF ObjectsInv
<1>8. LoadInv'
  BY <1>4 DEF LoadInv
<1>9. \A x \in Device : FindDevice(x)' = FindDevice(x)
  <2>1. \A k \in Key : Devices'[k].id = Devices[k].id
    BY <1>5, <1>6 DEF FindDevice, Find
  <2> QED
    BY <2>1 DEF FindDevice, Find
<1>10. \A x \in Device : ~Building(x)' /\ ~Covers(x) /\ ~Covers(x)'
  BY <1>3, <1>4 DEF Building, Covers
<1>11. ASSUME NEW x \in Device, Plain(x), DeviceInv(x) PROVE DeviceInv(x)'
  <2>1. CASE x # d
    <3>1. \A k \in Key : Devices'[k].id = x \/ Devices[k].id = x => Devices'[k] = Devices[k]
      BY <1>5, <1>6, <2>1 DEF FindDevice, Find
    <3>2. DictKept(x) /\ SameNews(x)
      BY <1>3, <2>1, <3>1 DEF DictKept, Row
    <3> QED
      BY <1>3, <1>10, <1>11, <2>1, <3>2, DeviceKept DEF Sound
  <2>2. CASE x = d
    <3>1. Single(Devices, d) /\ d \notin misled /\ \A j, k \in keys[d] : j = k
      BY <1>11, <2>2 DEF DeviceInv, Plain, OwnKey
    <3>2. \A k \in FindDevice(d) : Devices'[k].row.key = k
      <4>1. ASSUME NEW k \in FindDevice(d), table[d] # None PROVE table[d].key = k
        <5>1. RowOf(Devices[k]) /\ k \in Find(Devices, d) /\ d \in Row
          BY FoundObject DEF Sound, FindDevice, Row
        <5>2. k \in keys[d]
          BY <3>1, <4>1, <5>1, UnderKey
        <5>3. table[d].key \in keys[d]
          BY <4>1, <5>1 DEF Sound, KeysInv
        <5> QED
          BY <3>1, <5>2, <5>3
      <4>2. \A k \in FindDevice(d) : Devices[k].row.key = k
        BY <3>1 DEF Single, FindDevice
      <4> QED
        BY <1>5, <4>1, <4>2
    <3>3. Single(Devices, d)'
      BY <1>9, <3>1, <3>2 DEF Single, FindDevice
    <3>4. table'[d] = None => (Arriving(d)' \/ FindDevice(d)' # {} => Leaving(d)')
      BY <1>3, <1>9, <1>11, <2>2 DEF DeviceInv
    <3>5. table'[d] # None => Arriving(d)' \/ FindDevice(d)' # {}
      BY <1>3, <1>9, <1>10, <1>11, <2>2 DEF DeviceInv
    <3>6. \A k \in FindDevice(d)' : Fresh(Devices[k], d)'
      BY <1>3, <1>5, <1>9 DEF Fresh
    <3> QED
      BY <1>10, <2>2, <3>3, <3>4, <3>5, <3>6 DEF DeviceInv
  <2> QED
    BY <2>1, <2>2
<1>12. ASSUME NEW v \in Value, PlainValue(v), ValueInv(v) PROVE ValueInv(v)'
  <2>1. SameNews(v)
    BY <1>3, DevicesConstants DEF Row
  <2>2. Owner[v] \in Device
    BY DevicesConstants
  <2>3. \A k \in FindDevice(Owner[v])' :
           k \in FindDevice(Owner[v]) /\ Devices'[k].values = Devices[k].values
    BY <1>5, <1>6, <1>9, <2>2 DEF FindDevice, Find
  <2> QED
    BY <1>3, <1>4, <1>12, <2>1, <2>3, ValuesAlone
<1> QED
  BY <1>1, <1>7, <1>8, <1>11, <1>12, HandledSound

LEMMA DeleteDeviceSound ==
    ASSUME TypeOK, Sound, NEW d \in Device, OnDeleteDevice(d)
    PROVE  Sound'
<1>1. Handle("onDelete", d)
  BY DEF OnDeleteDevice
<1>2. /\ UNCHANGED load
      /\ \/ FindDevice(d) = {} /\ UNCHANGED Devices
         \/ \E k \in FindDevice(d) : /\ Devices' = DelItem(Devices, Devices[k])
                                     /\ Devices[k] \in DeviceObject
                                     /\ Devices[k].row.key \in Key
  BY DeleteDeviceTyped
<1>3. /\ load = Idle /\ plugin = "started"
      /\ UNCHANGED <<table, log, plugin, keys, misled>>
      /\ \A q \in Row \ {d} : SameNews(q)
      /\ d \notin misled => table'[d] = None /\ ~Arriving(d)'
  BY <1>1, HandledNews DEF Row
<1>4. load'.step # "values" /\ load' = Idle
  BY <1>2, <1>3, IdleIsNoLoad
<1>5. \A k \in Key : Devices'[k] = Devices[k] \/ Devices'[k] = None
  BY <1>2, TypeFacts DEF DelItem
<1>6. ObjectsInv'
  <2>1. \A k \in Key : Devices'[k] # None => ObjectOK(Devices[k])'
    BY <1>3, <1>5 DEF Sound, ObjectsInv, ObjectOK, RowOf, Known
  <2> QED
    BY <1>4, <2>1 DEF ObjectsInv
<1>7. LoadInv'
  BY <1>4 DEF LoadInv
<1>8. \A x \in Device : ~Building(x)' /\ ~Covers(x) /\ ~Covers(x)'
  BY <1>3, <1>4 DEF Building, Covers
<1>9. ASSUME NEW x \in Device, x # d, Plain(x), DeviceInv(x)
      PROVE  Shadows(Devices, Devices', x)
  <2>1. CASE UNCHANGED Devices
    BY <2>1, SameShadows
  <2>2. CASE \E k \in FindDevice(d) : Devices' = DelItem(Devices, Devices[k])
    <3>1. PICK k \in FindDevice(d) : Devices' = DelItem(Devices, Devices[k])
      BY <2>2
    <3>2. PICK object : object = Devices[k]
      OBVIOUS
    <3>3. object \in DeviceObject /\ RowOf(object) /\ object.id # x
      BY <1>9, <3>2, FoundObject DEF Sound
    <3>4. Single(Devices, x)
      BY <1>9 DEF DeviceInv
    <3> QED
      BY <1>9, <3>1, <3>2, <3>3, <3>4, OtherDevice DEF Sound
  <2> QED
    BY <1>2, <2>1, <2>2
<1>10. ASSUME Single(Devices, d) PROVE FindDevice(d)' = {}
  <2>1. CASE FindDevice(d) = {} /\ UNCHANGED Devices
    BY <2>1 DEF FindDevice, Find
  <2>2. CASE \E k \in FindDevice(d) : Devices' = DelItem(Devices, Devices[k])
    <3>1. PICK k \in FindDevice(d) : Devices' = DelItem(Devices, Devices[k])
      BY <2>2
    <3>2. k \in Key /\ Devices[k].id = d /\ d # 0
      BY DevicesConstants DEF FindDevice, Find
    <3>3. Devices \in [Key -> DeviceObject \cup {None}]
      BY TypeFacts
    <3>4. Find(DelItem(Devices, Devices[k]), Devices[k].id) = {}
      BY <1>10, <3>2, <3>3, OwnDeleted
    <3> QED
      BY <3>1, <3>2, <3>4 DEF FindDevice, Find
  <2> QED
    BY <1>2, <2>1, <2>2
<1>11. ASSUME NEW x \in Device, Plain(x), DeviceInv(x) PROVE DeviceInv(x)'
  <2>1. CASE x # d
    <3>1. DictKept(x) /\ SameNews(x)
      BY <1>3, <1>9, <1>11, <2>1, ShadowsDict DEF Row
    <3> QED
      BY <1>3, <1>8, <1>11, <2>1, <3>1, DeviceKept DEF Sound
  <2>2. CASE x = d
    <3>1. FindDevice(d)' = {}
      BY <1>10, <1>11, <2>2 DEF DeviceInv
    <3>2. Single(Devices, d)'
      BY <3>1 DEF Single, FindDevice
    <3>3. table'[d] = None /\ ~Arriving(d)'
      BY <1>3, <1>11, <2>2 DEF Plain
    <3> QED
      BY <1>8, <2>2, <3>1, <3>2, <3>3 DEF DeviceInv
  <2> QED
    BY <2>1, <2>2
<1>12. ASSUME NEW v \in Value, PlainValue(v), ValueInv(v) PROVE ValueInv(v)'
  <2> DEFINE x == Owner[v]
  <2>1. x \in Device /\ Plain(x) /\ DeviceInv(x)
    BY <1>12, DevicesConstants DEF PlainValue, Sound, RowsInv
  <2>2. SameNews(v)
    BY <1>3, DevicesConstants DEF Row
  <2>3. \A k \in FindDevice(x)' : k \in FindDevice(x) /\ Devices'[k] = Devices[k]
    <3>1. CASE x = d
      BY <1>10, <2>1, <3>1 DEF DeviceInv
    <3>2. CASE x # d
      BY <1>9, <2>1, <3>2, ShadowsDict
    <3> QED
      BY <3>1, <3>2
  <2> QED
    BY <1>3, <1>4, <1>12, <2>2, <2>3, ValuesAlone
<1> QED
  BY <1>1, <1>6, <1>7, <1>11, <1>12, HandledSound

-----------------------------------------------------------------------------
(* The same for values.                                                    *)

\* The handlers of values leave the devices alone; what they do to a value is
\* given for each.
LEMMA ValueHandledSound ==
    ASSUME TypeOK, Sound, NEW on \in {"onCreate", "onUpdate", "onDelete"},
           NEW v \in Value, Handle(on, v), UNCHANGED load,
           \A k \in Key : Devices'[k] = Devices[k] \/ ValuesOnly(k),
           \A k \in Key : Devices'[k] # Devices[k] =>
              \A j \in Key : Devices'[k].values[j] # None => RowOf(Devices'[k].values[j]),
           \A w \in Value : PlainValue(w) /\ ValueInv(w) => ValueInv(w)'
    PROVE  Sound'
<1>1. /\ load' = Idle
      /\ UNCHANGED <<table, log, plugin, keys, misled>>
      /\ \A q \in Row \ {v} : SameNews(q)
  BY HandledNews DEF Row
<1>2. \A k \in Key : Devices'[k].id = Devices[k].id /\ Devices'[k].row = Devices[k].row
  BY DEF ValuesOnly
<1>3. ObjectsInv'
  <2>1. ASSUME NEW k \in Key, Devices'[k] # None PROVE ObjectOK(Devices[k])'
    <3>1. CASE Devices'[k] = Devices[k]
      BY <1>1, <2>1, <3>1 DEF Sound, ObjectsInv, ObjectOK, RowOf, Known
    <3>2. CASE Devices'[k] # Devices[k]
      <4>1. Devices[k] # None
        BY <3>2, NoneIsNoRow DEF ValuesOnly
      <4>2. RowOf(Devices[k])
        BY <4>1 DEF Sound, ObjectsInv, ObjectOK
      <4>3. /\ RowOf(Devices'[k])
            /\ \A j \in Key : Devices'[k].values[j] # None => RowOf(Devices'[k].values[j])
        BY <1>2, <3>2, <4>2 DEF RowOf
      <4> QED
        BY <1>1, <4>3 DEF ObjectOK, RowOf, Known
    <3> QED
      BY <3>1, <3>2
  <2> QED
    BY <1>1, <2>1 DEF ObjectsInv
<1>4. LoadInv'
  BY <1>1 DEF LoadInv
<1>5. ASSUME NEW d \in Device, Plain(d), DeviceInv(d) PROVE DeviceInv(d)'
  <2>1. DictKept(d)
    BY <1>2 DEF DictKept
  <2>2. SameNews(d)
    BY <1>1, DevicesConstants DEF Row
  <2>3. (Covers(d)' <=> Covers(d)) /\ ~Building(d)'
    BY <1>1 DEF Covers, Building
  <2> QED
    BY <1>1, <1>5, <2>1, <2>2, <2>3, DeviceKept DEF Sound
<1> QED
  BY <1>3, <1>4, <1>5, HandledSound

LEMMA SameDevices ==
    ASSUME \A k \in Key : Devices'[k] = Devices[k] \/ ValuesOnly(k)
    PROVE  \A d : FindDevice(d)' = FindDevice(d)
<1>1. \A k \in Key : Devices'[k].id = Devices[k].id
  BY DEF ValuesOnly
<1> QED
  BY <1>1 DEF FindDevice, Find

LEMMA CreateValueSound ==
    ASSUME TypeOK, Sound, NEW v \in Value, OnCreateValue(v)
    PROVE  Sound'
<1>1. Handle("onCreate", v)
  BY DEF OnCreateValue
<1>2. /\ UNCHANGED load
      /\ \A k \in Key :
            IF k \in FindDevice(Owner[v]) /\ FindValue(k, v) = {}
            THEN /\ ValuesOnly(k)
                 /\ Devices'[k].values = SetItem(Devices[k].values, Loaded(v))
            ELSE Devices'[k] = Devices[k]
  BY CreateValueTyped
<1>3. /\ load = Idle
      /\ UNCHANGED <<table, log, plugin, keys, misled>>
      /\ Known(v) /\ \A q \in Row \ {v} : SameNews(q)
      /\ table'[v] = table[v] /\ Arriving(v)
      /\ Changing(v)' <=> Changing(v)
      /\ Leaving(v)' <=> Leaving(v)
  BY <1>1, HandledNews DEF Row
<1>4. load'.step # "values"
  BY <1>2, <1>3, IdleIsNoLoad
<1>5. v \in Row /\ RowOf(Loaded(v)) /\ Fresh(Loaded(v), v) /\ Loaded(v).id = v
      /\ Loaded(v).row = (IF table[v] = None THEN NoData ELSE table[v])
      /\ Loaded(v).row.key \in Key
  BY <1>3, LoadedRow, LoadedType DEF Sound, Row
<1>6. /\ \A k \in Key : Devices'[k] = Devices[k] \/ ValuesOnly(k)
      /\ \A d : FindDevice(d)' = FindDevice(d)
  BY <1>2, SameDevices
<1>7. ASSUME NEW k \in FindDevice(Owner[v])
      PROVE  /\ k \in Key /\ Devices[k] \in DeviceObject /\ Devices[k].id = Owner[v]
             /\ ObjectOK(Devices[k]) /\ v \in ValuesOf(Devices[k].id)
             /\ Devices[k].values \in [Key -> ValueObject \cup {None}]
  BY OwnerObject, FoundObject DEF Sound
<1>8. ASSUME NEW k \in Key, Devices'[k] # Devices[k], NEW j \in Key,
             Devices'[k].values[j] # None
      PROVE  RowOf(Devices'[k].values[j])
  <2>1. k \in FindDevice(Owner[v]) /\ Devices'[k].values = SetItem(Devices[k].values, Loaded(v))
    BY <1>2, <1>8
  <2>2. Devices'[k].values[j] = Devices[k].values[j] \/ Devices'[k].values[j] = Loaded(v)
    BY <1>7, <2>1, ValueSet
  <2> QED
    BY <1>5, <1>7, <1>8, <2>1, <2>2 DEF ObjectOK
<1>9. ASSUME NEW w \in Value, PlainValue(w), ValueInv(w) PROVE ValueInv(w)'
  <2>1. CASE w # v
    <3>1. SameNews(w)
      BY <1>3, <2>1 DEF Row
    <3>2. ASSUME NEW k \in FindDevice(Owner[w])'
          PROVE  k \in FindDevice(Owner[w]) /\ Shadows(Devices[k].values, Devices'[k].values, w)
      <4>1. k \in FindDevice(Owner[w]) /\ k \in Key
        BY <1>6, <3>2 DEF FindDevice, Find
      <4>2. CASE Devices'[k] = Devices[k]
        BY <4>1, <4>2, SameShadows
      <4>3. CASE Devices'[k] # Devices[k]
        <5>1. /\ k \in FindDevice(Owner[v])
              /\ Devices'[k].values = SetItem(Devices[k].values, Loaded(v))
          BY <1>2, <4>1, <4>3
        <5>2. Owner[w] = Devices[k].id /\ Devices[k].id = Owner[v]
          BY <4>1, <5>1 DEF FindDevice, Find
        <5>3. w \in ValuesOf(Devices[k].id) /\ OwnKey(w, ValuesOf(Devices[k].id))
              /\ Single(Devices[k].values, w)
          BY <1>9, <4>1, <5>2 DEF PlainValue, ValuesOf, ValueInv, HoldsValue
        <5>4. PICK object : object = Devices[k]
          OBVIOUS
        <5>5. Shadows(object.values, SetItem(object.values, Loaded(v)), w)
          BY <1>3, <1>7, <2>1, <5>1, <5>3, <5>4, AddedValue DEF Sound
        <5> QED
          BY <4>1, <5>1, <5>4, <5>5
      <4> QED
        BY <4>2, <4>3
    <3> QED
      BY <1>4, <1>9, <3>1, <3>2, ValueKept DEF Sound
  <2>2. CASE w = v
    <3>1. table[v] = None => Leaving(v)
      BY <1>3, <1>9, <2>2 DEF ValueInv
    <3>2. ASSUME NEW k \in FindDevice(Owner[v])' PROVE HoldsValue(Devices[k].values, {}, v)'
      <4>1. k \in FindDevice(Owner[v]) /\ k \in Key
        BY <1>6, <3>2 DEF FindDevice, Find
      <4>2. PICK old, new : old = Devices[k].values /\ new = Devices'[k].values
        OBVIOUS
      <4>3. HoldsValue(old, {}, v)
        BY <1>9, <2>2, <4>1, <4>2 DEF ValueInv
      <4>4. CASE FindValue(k, v) = {}
        <5>1. PICK item : item = Loaded(v)
          OBVIOUS
        <5>2. new = SetItem(old, item) /\ Find(old, v) = {}
              /\ old \in [Key -> ValueObject \cup {None}]
              /\ item.id = v /\ item.row.key \in Key
          BY <1>2, <1>5, <1>7, <4>1, <4>2, <4>4, <5>1 DEF FindValue
        <5>3. Find(new, v) = {item.row.key} /\ new[item.row.key] = item /\ Single(new, v)
          BY <5>2, OwnItem
        <5>4. Fresh(item, v)'
          BY <1>3, <1>5, <5>1 DEF Fresh
        <5>5. \A j \in Find(new, v) : Fresh(new[j], v)'
          BY <5>3, <5>4
        <5> HIDE DEF Fresh
        <5>6. HoldsValue(new, {}, v)'
          BY <1>3, <3>1, <5>3, <5>5 DEF HoldsValue, Single, Find
        <5> QED
          BY <4>2, <5>6 DEF HoldsValue, Single, Find, Fresh
      <4>5. CASE FindValue(k, v) # {}
        <5>1. new = old /\ Find(old, v) # {}
          BY <1>2, <4>1, <4>2, <4>5 DEF FindValue
        <5>2. HoldsValue(old, {}, v)'
          BY <1>3, <3>1, <4>3, <5>1 DEF HoldsValue, Single, Find, Fresh
        <5> QED
          BY <4>2, <5>1, <5>2 DEF HoldsValue, Single, Find, Fresh
      <4> QED
        BY <4>4, <4>5
    <3> QED
      BY <1>3, <1>4, <2>2, <3>1, <3>2 DEF ValueInv
  <2> QED
    BY <2>1, <2>2
<1> QED
  BY <1>1, <1>2, <1>6, <1>8, <1>9, ValueHandledSound

LEMMA UpdateValueSound ==
    ASSUME TypeOK, Sound, NEW v \in Value, OnUpdateValue(v)
    PROVE  Sound'
<1>1. Handle("onUpdate", v)
  BY DEF OnUpdateValue
<1>2. /\ UNCHANGED load
      /\ \A k \in Key :
            IF k \in FindDevice(Owner[v])
            THEN /\ ValuesOnly(k)
                 /\ \A j \in Key : Devices'[k].values[j] =
                       IF j \in FindValue(k, v) THEN Refreshed(Devices[k].values[j])
                       ELSE Devices[k].values[j]
            ELSE Devices'[k] = Devices[k]
  BY UpdateValueTyped
<1>3. /\ load = Idle
      /\ UNCHANGED <<table, log, plugin, keys, misled>>
      /\ Known(v) /\ \A q \in Row \ {v} : SameNews(q)
      /\ table'[v] = table[v]
      /\ Arriving(v)' <=> Arriving(v)
      /\ Leaving(v)' <=> Leaving(v)
  BY <1>1, HandledNews DEF Row
<1>4. load'.step # "values"
  BY <1>2, <1>3, IdleIsNoLoad
<1>6. /\ \A k \in Key : Devices'[k] = Devices[k] \/ ValuesOnly(k)
      /\ \A d : FindDevice(d)' = FindDevice(d)
  BY <1>2, SameDevices
<1>7. ASSUME NEW k \in FindDevice(Owner[v])
      PROVE  k \in Key /\ Devices[k] \in DeviceObject /\ ObjectOK(Devices[k])
             /\ Devices[k].values \in [Key -> ValueObject \cup {None}]
  BY OwnerObject, FoundObject DEF Sound
\* The objects of v.
<1>8. ASSUME NEW k \in FindDevice(Owner[v]), NEW j \in FindValue(k, v)
      PROVE  /\ j \in Key /\ Devices[k].values[j].id = v /\ RowOf(Devices[k].values[j])
             /\ Devices'[k].values[j].id = v /\ RowOf(Devices'[k].values[j])
             /\ Devices'[k].values[j].row = IF table[v] = None THEN Devices[k].values[j].row
                                            ELSE table[v]
  <2>1. j \in Key /\ Devices[k].values[j].id = v /\ v # 0 /\ v \in Row
    BY DevicesConstants DEF FindValue, Find, Row
  <2>2. PICK old : old = Devices[k].values[j]
    OBVIOUS
  <2>3. old \in ValueObject /\ RowOf(old) /\ old.id = v
    BY <1>7, <2>1, <2>2, NoneIsNoRow DEF ObjectOK
  <2>4. Refreshed(old).id = v
        /\ Refreshed(old).row = IF table[v] = None THEN old.row ELSE table[v]
    BY <2>1, <2>3, RefreshedType
  <2>5. RowOf(Refreshed(old))
    BY <2>1, <2>3, RefreshedRow DEF Sound
  <2>6. Devices'[k].values[j] = Refreshed(old)
    BY <1>2, <1>7, <2>1, <2>2
  <2> QED
    BY <2>1, <2>2, <2>3, <2>4, <2>5, <2>6
<1>9. ASSUME NEW k \in FindDevice(Owner[v]), NEW j \in Key, j \notin FindValue(k, v)
      PROVE  Devices'[k].values[j] = Devices[k].values[j] /\ Devices[k].values[j].id # v
  BY <1>2, <1>7, <1>9 DEF FindValue, Find
<1>10. ASSUME NEW k \in Key, Devices'[k] # Devices[k], NEW j \in Key,
              Devices'[k].values[j] # None
       PROVE  RowOf(Devices'[k].values[j])
  <2>1. k \in FindDevice(Owner[v])
    BY <1>2, <1>10
  <2> QED
    BY <1>7, <1>8, <1>9, <1>10, <2>1 DEF ObjectOK
<1>11. ASSUME NEW w \in Value, PlainValue(w), ValueInv(w) PROVE ValueInv(w)'
  <2>1. CASE w # v
    <3>1. SameNews(w)
      BY <1>3, <2>1 DEF Row
    <3>2. ASSUME NEW k \in FindDevice(Owner[w])'
          PROVE  k \in FindDevice(Owner[w]) /\ Shadows(Devices[k].values, Devices'[k].values, w)
      <4>1. k \in FindDevice(Owner[w]) /\ k \in Key
        BY <1>6, <3>2 DEF FindDevice, Find
      <4>2. CASE k \notin FindDevice(Owner[v])
        <5>1. Devices'[k] = Devices[k]
          BY <1>2, <4>1, <4>2
        <5> QED
          BY <4>1, <5>1, SameShadows
      <4>3. CASE k \in FindDevice(Owner[v])
        <5>1. ASSUME NEW j \in Key, Devices'[k].values[j].id = w \/ Devices[k].values[j].id = w
              PROVE  Devices'[k].values[j] = Devices[k].values[j]
          BY <1>8, <1>9, <2>1, <4>3, <5>1
        <5> QED
          BY <4>1, <5>1 DEF Shadows
      <4> QED
        BY <4>2, <4>3
    <3> QED
      BY <1>4, <1>11, <3>1, <3>2, ValueKept DEF Sound
  <2>2. CASE w = v
    <3>1. /\ v \notin misled /\ \A j, k \in keys[v] : j = k
          /\ table[v] = None /\ Arriving(v) => Leaving(v)
      BY <1>11, <2>2 DEF PlainValue, OwnKey, ValueInv
    <3>2. ASSUME NEW k \in FindDevice(Owner[v])' PROVE HoldsValue(Devices[k].values, {}, v)'
      <4>1. k \in FindDevice(Owner[v]) /\ k \in Key
        BY <1>6, <3>2 DEF FindDevice, Find
      <4>2. PICK old, new : old = Devices[k].values /\ new = Devices'[k].values
        OBVIOUS
      <4>3. HoldsValue(old, {}, v) /\ Single(old, v)
        BY <1>11, <2>2, <4>1, <4>2 DEF ValueInv, HoldsValue
      <4>4. \A j \in Find(old, v) :
               /\ j \in Key /\ RowOf(old[j]) /\ new[j].id = v
               /\ new[j].row = IF table[v] = None THEN old[j].row ELSE table[v]
        BY <1>8, <4>1, <4>2 DEF FindValue
      <4>5. Find(new, v) = Find(old, v)
        BY <1>8, <1>9, <4>1, <4>2 DEF FindValue, Find
      <4>6. \A j \in Find(old, v) : new[j].row.key = j
        <5>1. ASSUME NEW j \in Find(old, v), table[v] # None PROVE table[v].key = j
          <6>1. v \in Row
            BY DEF Row
          <6>2. j \in keys[v]
            BY <3>1, <4>3, <4>4, <5>1, <6>1, UnderKey
          <6>3. table[v].key \in keys[v]
            BY <5>1, <6>1 DEF Sound, KeysInv
          <6> QED
            BY <3>1, <6>2, <6>3
        <5>2. \A j \in Find(old, v) : old[j].row.key = j
          BY <4>3 DEF Single
        <5> QED
          BY <4>4, <5>1, <5>2
      <4>7. Single(new, v)
        BY <4>3, <4>5, <4>6 DEF Single
      <4>8. \A j \in Find(new, v) : Fresh(new[j], v)'
        BY <1>3, <4>4, <4>5 DEF Fresh
      <4>9. HoldsValue(new, {}, v)'
        <5>1. table[v] = None => (Find(new, v) # {} => Leaving(v)')
          BY <1>3, <4>3, <4>5 DEF HoldsValue
        <5>2. table[v] # None => Arriving(v)' \/ Find(new, v) # {}
          BY <1>3, <4>3, <4>5 DEF HoldsValue
        <5> HIDE DEF Fresh
        <5> QED
          BY <1>3, <4>7, <4>8, <5>1, <5>2 DEF HoldsValue, Single, Find
      <4> QED
        BY <4>2, <4>9 DEF HoldsValue, Single, Find, Fresh
    <3>3. table'[v] = None /\ Arriving(v)' => Leaving(v)'
      BY <1>3, <3>1
    <3> QED
      BY <1>4, <2>2, <3>2, <3>3 DEF ValueInv
  <2> QED
    BY <2>1, <2>2
<1> QED
  BY <1>1, <1>2, <1>6, <1>10, <1>11, ValueHandledSound

LEMMA DeleteValueSound ==
    ASSUME TypeOK, Sound, NEW v \in Value, OnDeleteValue(v)
    PROVE  Sound'
<1>1. Handle("onDelete", v)
  BY DEF OnDeleteValue
<1>2. /\ UNCHANGED load
      /\ \A k \in Key :
            IF k \in Holders(v)
            THEN /\ ValuesOnly(k)
                 /\ \E j \in FindValue(k, v) :
                       /\ Devices[k].values[j].row.key \in Key
                       /\ Devices'[k].values = DelItem(Devices[k].values, Devices[k].values[j])
            ELSE Devices'[k] = Devices[k]
  BY DeleteValueTyped
<1>3. /\ load = Idle
      /\ UNCHANGED <<table, log, plugin, keys, misled>>
      /\ \A q \in Row \ {v} : SameNews(q)
      /\ v \notin misled => table'[v] = None /\ ~Arriving(v)'
  BY <1>1, HandledNews DEF Row
<1>4. load'.step # "values"
  BY <1>2, <1>3, IdleIsNoLoad
<1>6. /\ \A k \in Key : Devices'[k] = Devices[k] \/ ValuesOnly(k)
      /\ \A d : FindDevice(d)' = FindDevice(d)
  BY <1>2, SameDevices
<1>7. ASSUME NEW k \in Holders(v)
      PROVE  /\ k \in Key /\ k \in FindDevice(Owner[v])
             /\ Devices[k] \in DeviceObject /\ ObjectOK(Devices[k])
             /\ Devices[k].values \in [Key -> ValueObject \cup {None}]
             /\ \E j \in Key :
                   /\ Devices[k].values[j].id = v /\ Devices[k].values[j] # None
                   /\ Devices[k].values[j].row.key \in Key
                   /\ Devices'[k].values = DelItem(Devices[k].values, Devices[k].values[j])
  <2>1. k \in Key /\ k \in FindDevice(Owner[v])
    BY HolderIsOwner DEF Holders
  <2>2. PICK j \in FindValue(k, v) :
           /\ Devices[k].values[j].row.key \in Key
           /\ Devices'[k].values = DelItem(Devices[k].values, Devices[k].values[j])
    BY <1>2, <2>1
  <2>3. j \in Key /\ Devices[k].values[j].id = v /\ Devices[k].values[j] # None
    BY <2>2, DevicesConstants, NoneIsNoRow DEF FindValue, Find
  <2> QED
    BY <2>1, <2>2, <2>3, OwnerObject, FoundObject DEF Sound
<1>8. ASSUME NEW k \in Key, Devices'[k] # Devices[k], NEW j \in Key,
             Devices'[k].values[j] # None
      PROVE  RowOf(Devices'[k].values[j])
  <2>1. k \in Holders(v)
    BY <1>2, <1>8
  <2>2. Devices'[k].values[j] = Devices[k].values[j]
    <3>1. PICK i \in Key :
             Devices'[k].values = DelItem(Devices[k].values, Devices[k].values[i])
      BY <1>7, <2>1
    <3>2. PICK old, key : old = Devices[k].values /\ key = old[i].row.key
      OBVIOUS
    <3>3. Devices'[k].values = [old EXCEPT ![key] = None]
      BY <3>1, <3>2 DEF DelItem
    <3>4. old \in [Key -> ValueObject \cup {None}]
      BY <1>7, <2>1, <3>2
    <3> QED
      BY <1>8, <3>2, <3>3, <3>4
  <2> QED
    BY <1>7, <1>8, <2>1, <2>2 DEF ObjectOK
<1>9. ASSUME NEW w \in Value, PlainValue(w), ValueInv(w) PROVE ValueInv(w)'
  <2>1. CASE w # v
    <3>1. SameNews(w)
      BY <1>3, <2>1 DEF Row
    <3>2. ASSUME NEW k \in FindDevice(Owner[w])'
          PROVE  k \in FindDevice(Owner[w]) /\ Shadows(Devices[k].values, Devices'[k].values, w)
      <4>1. k \in FindDevice(Owner[w]) /\ k \in Key
        BY <1>6, <3>2 DEF FindDevice, Find
      <4>2. CASE k \notin Holders(v)
        <5>1. Devices'[k] = Devices[k]
          BY <1>2, <4>1, <4>2
        <5> QED
          BY <4>1, <5>1, SameShadows
      <4>3. CASE k \in Holders(v)
        <5>1. PICK j \in Key :
                 /\ Devices[k].values[j].id = v /\ Devices[k].values[j] # None
                 /\ Devices'[k].values = DelItem(Devices[k].values, Devices[k].values[j])
          BY <1>7, <4>3
        <5>2. Owner[w] = Devices[k].id
          BY <4>1 DEF FindDevice, Find
        <5>3. w \in ValuesOf(Devices[k].id) /\ OwnKey(w, ValuesOf(Devices[k].id))
              /\ Single(Devices[k].values, w)
          BY <1>9, <4>1, <5>2 DEF PlainValue, ValuesOf, ValueInv, HoldsValue
        <5>4. PICK object : object = Devices[k]
          OBVIOUS
        <5>5. Shadows(object.values, DelItem(object.values, object.values[j]), w)
          BY <1>7, <2>1, <4>3, <5>1, <5>3, <5>4, OtherValue
        <5> QED
          BY <4>1, <5>1, <5>4, <5>5
      <4> QED
        BY <4>2, <4>3
    <3> QED
      BY <1>4, <1>9, <3>1, <3>2, ValueKept DEF Sound
  <2>2. CASE w = v
    <3>1. table'[v] = None /\ ~Arriving(v)'
      BY <1>3, <1>9, <2>2 DEF PlainValue
    <3>2. ASSUME NEW k \in FindDevice(Owner[v])' PROVE HoldsValue(Devices[k].values, {}, v)'
      <4>1. k \in FindDevice(Owner[v]) /\ k \in Key
        BY <1>6, <3>2 DEF FindDevice, Find
      <4>2. PICK old, new : old = Devices[k].values /\ new = Devices'[k].values
        OBVIOUS
      <4>3. Single(old, v)
        BY <1>9, <2>2, <4>1, <4>2 DEF ValueInv, HoldsValue
      <4>4. Find(new, v) = {}
        <5>1. CASE k \in Holders(v)
          <6>1. PICK j \in Key :
                   /\ Devices[k].values[j].id = v
                   /\ Devices'[k].values = DelItem(Devices[k].values, Devices[k].values[j])
            BY <1>7, <5>1
          <6>2. /\ old[j].id = v /\ old[j].id # 0 /\ new = DelItem(old, old[j])
                /\ old \in [Key -> ValueObject \cup {None}]
            BY <1>7, <4>2, <5>1, <6>1, DevicesConstants
          <6>3. Find(DelItem(old, old[j]), old[j].id) = {}
            BY <4>3, <6>2, OwnDeleted
          <6> QED
            BY <6>2, <6>3
        <5>2. CASE k \notin Holders(v)
          <6>1. Devices'[k] = Devices[k] /\ Devices[k] # None
            BY <1>2, <4>1, <5>2, OwnerObject, NoneIsNoRow
          <6>2. FindValue(k, v) = {}
            BY <4>1, <5>2, <6>1 DEF Holders
          <6> QED
            BY <4>2, <6>1, <6>2 DEF FindValue
        <5> QED
          BY <5>1, <5>2
      <4>5. HoldsValue(new, {}, v)'
        BY <3>1, <4>4 DEF HoldsValue, Single, Find
      <4> QED
        BY <4>2, <4>5 DEF HoldsValue, Single, Find, Fresh
    <3> QED
      BY <1>4, <2>2, <3>1, <3>2 DEF ValueInv
  <2> QED
    BY <2>1, <2>2
<1> QED
  BY <1>1, <1>2, <1>6, <1>8, <1>9, ValueHandledSound

-----------------------------------------------------------------------------
(* The start.                                                              *)

LEMMA RegisterSound ==
    ASSUME TypeOK, Sound, Register
    PROVE  Sound'
<1>1. /\ plugin = "unregistered" /\ plugin' = "initialising"
      /\ UNCHANGED <<table, log, Devices, messages, load, keys, misled>>
  BY DEF Register
<1>2. KeysInv' /\ OrderInv' /\ \A r : SameNews(r)
  BY <1>1, SilentNews DEF Sound
<1>3. StageInv'
  BY <1>1 DEF Sound, StageInv, Queued, onStart
<1>4. ObjectsInv' /\ LoadInv'
  BY <1>1 DEF Sound, ObjectsInv, ObjectOK, RowOf, LoadInv, Known
<1>5. load' = Idle
  BY <1>1 DEF Sound, StageInv
<1>6. ASSUME NEW d \in Device, Plain(d), DeviceInv(d) PROVE DeviceInv(d)'
  <2>1. DictKept(d) /\ (Covers(d)' <=> Covers(d)) /\ ~Building(d)'
    BY <1>1, <1>5 DEF DictKept, Covers, Building
  <2> QED
    BY <1>1, <1>2, <1>6, <2>1, DeviceKept DEF Sound
<1>7. ASSUME NEW v \in Value, PlainValue(v), ValueInv(v) PROVE ValueInv(v)'
  <2>1. \A k \in FindDevice(Owner[v])' :
           k \in FindDevice(Owner[v]) /\ Devices'[k].values = Devices[k].values
    BY <1>1 DEF FindDevice, Find
  <2>2. load'.step # "values"
    BY <1>5, IdleIsNoLoad
  <2> QED
    BY <1>1, <1>2, <1>7, <2>1, <2>2, ValuesAlone
<1>8. RowsInv'
  BY <1>1, <1>6, <1>7, RowsKept DEF Sound
<1> QED
  BY <1>2, <1>3, <1>4, <1>8 DEF Sound

LEMMA InitialiseSound ==
    ASSUME TypeOK, Sound, Initialise
    PROVE  Sound'
<1>1. /\ plugin = "initialising" /\ plugin' = "initialised"
      /\ messages' = Append(messages, onStart)
      /\ UNCHANGED <<table, log, Devices, load, keys, misled>>
  BY DEF Initialise, onStart
<1>2. /\ \A n : Queued(n)' <=> Queued(n) \/ n = onStart
      /\ \A a, b : /\ Before(messages, a, b)
                   /\ a = onStart => b # onStart /\ ~Queued(b)
                   => Before(messages', a, b)
      /\ \A n : InLog(n)' <=> InLog(n)
  BY <1>1, MessageFacts, Pushed DEF InLog
<1>3. ~Queued(onStart)
  BY <1>1 DEF Sound, StageInv
<1>4. ASSUME NEW r \in Row PROVE SameNews(r)
  <2>1. \A m \in {onCreate(r), onUpdate(r), onDelete(r)} : Queued(m)' <=> Queued(m)
    BY <1>2, MessageFacts
  <2>2. PICK a, b, c : a = onCreate(r) /\ b = onUpdate(r) /\ c = onDelete(r)
    OBVIOUS
  <2>3. /\ Queued(a)' <=> Queued(a)
        /\ Queued(b)' <=> Queued(b)
        /\ Queued(c)' <=> Queued(c)
    BY <1>2, <2>2, MessageFacts
  <2>4. /\ Queued(onCreate(r))' <=> Queued(onCreate(r))
        /\ Queued(onUpdate(r))' <=> Queued(onUpdate(r))
        /\ Queued(onDelete(r))' <=> Queued(onDelete(r))
    BY <2>2, <2>3 DEF Queued, onCreate, onUpdate, onDelete
  <2>5. PICK i, u, d : i = Insert(r) /\ u = Update(r) /\ d = Delete(r)
    OBVIOUS
  <2>6. /\ InLog(Insert(r))' <=> InLog(Insert(r))
        /\ InLog(Update(r))' <=> InLog(Update(r))
        /\ InLog(Delete(r))' <=> InLog(Delete(r))
    BY <1>1 DEF InLog, Insert, Update, Delete
  <2> QED
    BY <1>1, <2>4, <2>6 DEF SameNews, Arriving, Changing, Leaving
<1>5. KeysInv'
  <2>1. ASSUME NEW m \in ToSet(messages'), m # onStart PROVE Known(m.row)'
    <3>1. Queued(m)
      BY <1>2, <2>1 DEF Queued
    <3> QED
      BY <1>1, <2>1, <3>1 DEF Sound, KeysInv, Queued, Known
  <2>2. onStart' = onStart
    BY DEF onStart
  <2> QED
    BY <1>1, <2>1, <2>2 DEF Sound, KeysInv, Known
<1>6. OrderInv'
  <2> SUFFICES ASSUME NEW r \in Row \ misled
               PROVE  /\ Before(log, Insert(r), Delete(r))'
                      /\ Before(messages, onCreate(r), onDelete(r))'
                      /\ Queued(onDelete(r))' => ~InLog(Insert(r))'
                      /\ Leaving(r)' => table'[r] = None
    BY <1>1 DEF OrderInv
  <2>0. /\ r \in Row
        /\ Before(log, Insert(r), Delete(r)) /\ Before(messages, onCreate(r), onDelete(r))
        /\ Queued(onDelete(r)) => ~InLog(Insert(r))
        /\ Leaving(r) => table[r] = None
    BY DEF Sound, OrderInv
  <2>1. Before(log, Insert(r), Delete(r))'
    BY <1>1, <2>0 DEF Before, Insert, Delete
  <2>2. Before(messages, onCreate(r), onDelete(r))'
    <3>1. Before(messages', onCreate(r), onDelete(r))
      BY <1>2, <2>0, MessageFacts
    <3> QED
      BY <3>1 DEF Before, onCreate, onDelete
  <2>3. Queued(onDelete(r))' => ~InLog(Insert(r))'
    <3>1. PICK n, i : n = onDelete(r) /\ i = Insert(r)
      OBVIOUS
    <3>2. Queued(n)' => ~InLog(i)'
      BY <1>2, <2>0, <3>1, MessageFacts
    <3> QED
      BY <3>1, <3>2 DEF Queued, InLog, onDelete, Insert
  <2>4. Leaving(r)' => table'[r] = None
    BY <1>4, <2>0 DEF SameNews
  <2> QED
    BY <2>1, <2>2, <2>3, <2>4
<1>7. StageInv'
  <2>1. /\ messages \in Seq(Message) /\ Len(messages) \in Nat
        /\ \A i \in DOMAIN messages : messages[i] # onStart
    BY <1>3, TypeFacts DEF Queued, ToSet
  <2>2. \A i \in DOMAIN messages' : messages'[i] = onStart => i = Len(messages) + 1
    BY <1>1, <2>1, AppendProperties
  <2>3. \A i, j \in DOMAIN messages' : messages'[i] = onStart /\ messages'[j] = onStart => i = j
    BY <2>2
  <2>4. load = Idle /\ \A k \in Key : Devices[k] = None
    BY <1>1 DEF Sound, StageInv
  <2> QED
    BY <1>1, <2>3, <2>4 DEF StageInv, onStart
<1>8. ObjectsInv' /\ LoadInv'
  BY <1>1 DEF Sound, ObjectsInv, ObjectOK, RowOf, LoadInv, Known
<1>9. load' = Idle
  BY <1>1 DEF Sound, StageInv
<1>10. ASSUME NEW d \in Device, Plain(d), DeviceInv(d) PROVE DeviceInv(d)'
  <2>1. DictKept(d) /\ (Covers(d)' <=> Covers(d)) /\ ~Building(d)'
    BY <1>1, <1>9 DEF DictKept, Covers, Building
  <2>2. SameNews(d)
    BY <1>4 DEF Row
  <2> QED
    BY <1>1, <1>10, <2>1, <2>2, DeviceKept DEF Sound
<1>11. ASSUME NEW v \in Value, PlainValue(v), ValueInv(v) PROVE ValueInv(v)'
  <2>1. \A k \in FindDevice(Owner[v])' :
           k \in FindDevice(Owner[v]) /\ Devices'[k].values = Devices[k].values
    BY <1>1 DEF FindDevice, Find
  <2>2. load'.step # "values" /\ SameNews(v)
    BY <1>4, <1>9, IdleIsNoLoad DEF Row
  <2> QED
    BY <1>1, <1>11, <2>1, <2>2, ValuesAlone
<1>12. RowsInv'
  BY <1>1, <1>10, <1>11, RowsKept DEF Sound
<1> QED
  BY <1>5, <1>6, <1>7, <1>8, <1>12 DEF Sound

LEMMA OnStartSound ==
    ASSUME TypeOK, Sound, OnStart
    PROVE  Sound'
<1>1. /\ load = Idle /\ messages # << >> /\ Head(messages) = onStart
      /\ messages' = Tail(messages) /\ plugin' = "started"
      /\ load' # Idle => /\ load'.step = "refresh"
                         /\ load'.device \in Present(Device)
                         /\ load'.rest = Present(Device) \ {load'.device}
                         /\ load'.todo = {}
      /\ load' = Idle <=> Present(Device) = {}
      /\ UNCHANGED <<table, log, Devices, dead, keys, misled>>
  BY OnStartLoads
<1>2. plugin = "initialised" /\ \A k \in Key : Devices[k] = None
  <2>1. Queued(onStart)
    BY <1>1, Popped
  <2> QED
    BY <2>1 DEF Sound, StageInv
<1>3. ~Queued(onStart)'
  <2>1. messages \in Seq(Message)
    BY TypeFacts
  <2>2. \A i, j \in DOMAIN messages : messages[i] = onStart /\ messages[j] = onStart => i = j
    BY DEF Sound, StageInv
  <2>3. /\ DOMAIN messages' = 1 .. Len(messages) - 1 /\ Len(messages) \in Nat
        /\ DOMAIN messages = 1 .. Len(messages)
        /\ \A i \in 1 .. Len(messages) - 1 : messages'[i] = messages[i + 1]
        /\ messages[1] = onStart /\ 1 \in DOMAIN messages
    BY <1>1, <2>1
  <2>4. ASSUME NEW i \in DOMAIN messages', messages'[i] = onStart PROVE FALSE
    <3>1. i + 1 \in DOMAIN messages /\ messages[i + 1] = onStart /\ i \in Nat /\ i # 0
      BY <2>3, <2>4
    <3>2. i + 1 = 1
      BY <2>2, <2>3, <3>1
    <3> QED
      BY <3>1, <3>2
  <2> QED
    BY <2>4 DEF Queued, ToSet, onStart
<1>4. KeysInv' /\ OrderInv'
  BY <1>1, PopNews DEF Sound
<1>5. StageInv'
  BY <1>1, <1>3, PopStage DEF Sound
<1>6. \A r \in Row : SameNews(r)
  BY <1>1, PopSameNews
<1>7. load'.step # "values" /\ ~(load' # Idle /\ load'.step # "refresh")
  BY <1>1, IdleIsNoLoad
<1>8. ObjectsInv'
  BY <1>1, <1>2, <1>7 DEF ObjectsInv
<1>9. \A d \in Device : table[d] # None => Known(d)
  BY DEF Sound, KeysInv, Row, Known
<1>10. LoadInv'
  BY <1>1, <1>9 DEF LoadInv, Present, Known
<1>11. \A d \in Device : FindDevice(d)' = {} /\ ~Building(d)' /\ Single(Devices, d)'
  <2>1. \A d \in Device : FindDevice(d)' = {}
    BY <1>1, <1>2, DevicesConstants, NoneIsNoRow DEF FindDevice, Find
  <2> QED
    BY <1>7, <2>1 DEF Building, Single, FindDevice
<1>12. \A d \in Device : Covers(d)' <=> table[d] # None
  BY <1>1 DEF Covers, Present
<1>13. ASSUME NEW d \in Device, DeviceInv(d) PROVE DeviceInv(d)'
  <2>1. table[d] = None /\ Arriving(d)' => Leaving(d)'
    BY <1>6, <1>13 DEF DeviceInv, SameNews, Row
  <2> QED
    BY <1>1, <1>11, <1>12, <2>1 DEF DeviceInv
<1>14. ASSUME NEW v \in Value, ValueInv(v) PROVE ValueInv(v)'
  <2>1. SameNews(v) /\ FindDevice(Owner[v])' = {}
    BY <1>6, <1>11, DevicesConstants DEF Row
  <2> QED
    BY <1>7, <1>14, <2>1 DEF ValueInv, SameNews
<1>15. RowsInv'
  BY <1>1, <1>13, <1>14, RowsKept DEF Sound
<1> QED
  BY <1>4, <1>5, <1>8, <1>10, <1>15 DEF Sound

-----------------------------------------------------------------------------
(* A statement, row by row.                                                *)

Untouched(r) == SameNews(r) /\ keys'[r] = keys[r]

Inserted(r) ==
    /\ keys[r] = {} /\ table'[r] \in RowData /\ keys'[r] = {table'[r].key}
    /\ Arriving(r)' /\ (Leaving(r)' <=> Leaving(r))

Updated(r) ==
    /\ table[r] # None /\ table'[r] \in RowData
    /\ keys'[r] = keys[r] \cup {table'[r].key}
    /\ (Arriving(r)' <=> Arriving(r)) /\ Changing(r)' /\ (Leaving(r)' <=> Leaving(r))

Deleted(r) ==
    /\ table[r] # None /\ table'[r] = None /\ keys'[r] = keys[r]
    /\ (Arriving(r)' <=> Arriving(r)) /\ Leaving(r)'

LEMMA WrittenNews ==
    ASSUME NEW S, Written(S), UNCHANGED messages, NEW r \in Row
    PROVE  /\ Untouched(r) \/ Inserted(r) \/ Updated(r) \/ Deleted(r)
           /\ Insert(r) \in S => Inserted(r)
           /\ Untouched(r) \/ \E e \in S : e.row = r
           /\ (\E e \in S : e.row = r /\ e.kept) => Inserted(r) \/ Updated(r) \/ Deleted(r)
           /\ Update(r) \in S => Changing(r)'
<1> DEFINE i == Insert(r)
           u == Update(r)
           d == Delete(r)
<1>1. /\ i.row = r /\ u.row = r /\ d.row = r
      /\ i.kept /\ u.kept /\ d.kept
      /\ i # u /\ i # d /\ u # d
  BY EntryFacts
<1>2. RowNews(r, S)
  BY DEF Written
<1>3. /\ InLog(i)' <=> InLog(i) \/ i \in S
      /\ InLog(u)' <=> InLog(u) \/ u \in S
      /\ InLog(d)' <=> InLog(d) \/ d \in S
  <2>1. \A n : n \in ToSet(log)' <=> n \in ToSet(log) \/ n \in S
    BY DEF Written
  <2>2. i' = i /\ u' = u /\ d' = d
    BY DEF Insert, Update, Delete
  <2> QED
    BY <2>1, <2>2 DEF InLog
<1>4. /\ Queued(onCreate(r))' <=> Queued(onCreate(r))
      /\ Queued(onUpdate(r))' <=> Queued(onUpdate(r))
      /\ Queued(onDelete(r))' <=> Queued(onDelete(r))
  BY DEF Queued, onCreate, onUpdate, onDelete
<1> DEFINE oc == onCreate(r)
           ou == onUpdate(r)
           od == onDelete(r)
<1>5. /\ Arriving(r) <=> InLog(i) \/ Queued(oc)
      /\ Changing(r) <=> InLog(u) \/ Queued(ou)
      /\ Leaving(r) <=> InLog(d) \/ Queued(od)
      /\ Arriving(r)' <=> InLog(i)' \/ Queued(oc)'
      /\ Changing(r)' <=> InLog(u)' \/ Queued(ou)'
      /\ Leaving(r)' <=> InLog(d)' \/ Queued(od)'
  BY DEF Arriving, Changing, Leaving
<1>6. /\ Arriving(r)' <=> Arriving(r) \/ i \in S
      /\ Changing(r)' <=> Changing(r) \/ u \in S
      /\ Leaving(r)' <=> Leaving(r) \/ d \in S
  BY <1>3, <1>4, <1>5
<1>7. \/ table'[r] = table[r] /\ keys'[r] = keys[r] /\ \A e \in S : e.row = r => ~e.kept
      \/ /\ keys[r] = {} /\ table'[r] \in RowData /\ keys'[r] = {table'[r].key}
         /\ i \in S /\ \A e \in S : e.row = r => e = i
      \/ /\ table[r] # None /\ table'[r] \in RowData
         /\ keys'[r] = keys[r] \cup {table'[r].key}
         /\ u \in S /\ \A e \in S : e.row = r => e = u
      \/ /\ table[r] # None /\ table'[r] = None /\ keys'[r] = keys[r]
         /\ d \in S /\ \A e \in S : e.row = r => e = d
  BY <1>2 DEF RowNews
<1> HIDE DEF i, u, d
<1>8. /\ Untouched(r) \/ Inserted(r) \/ Updated(r) \/ Deleted(r)
      /\ i \in S => Inserted(r)
      /\ Untouched(r) \/ \E e \in S : e.row = r
      /\ (\E e \in S : e.row = r /\ e.kept) => Inserted(r) \/ Updated(r) \/ Deleted(r)
  <2>1. CASE table'[r] = table[r] /\ keys'[r] = keys[r] /\ \A e \in S : e.row = r => ~e.kept
    BY <1>1, <1>6, <2>1 DEF Untouched, SameNews
  <2>2. CASE /\ keys[r] = {} /\ table'[r] \in RowData /\ keys'[r] = {table'[r].key}
             /\ i \in S /\ \A e \in S : e.row = r => e = i
    BY <1>1, <1>6, <2>2 DEF Inserted
  <2>3. CASE /\ table[r] # None /\ table'[r] \in RowData
             /\ keys'[r] = keys[r] \cup {table'[r].key}
             /\ u \in S /\ \A e \in S : e.row = r => e = u
    BY <1>1, <1>6, <2>3 DEF Updated
  <2>4. CASE /\ table[r] # None /\ table'[r] = None /\ keys'[r] = keys[r]
             /\ d \in S /\ \A e \in S : e.row = r => e = d
    BY <1>1, <1>6, <2>4 DEF Deleted
  <2> QED
    BY <1>7, <2>1, <2>2, <2>3, <2>4
<1> QED
  BY <1>6, <1>8 DEF i, u

\* What an object's row was stays so.
LEMMA RowOfKept ==
    ASSUME NEW object, RowOf(object), UNCHANGED misled,
           LET r == object.id
           IN  Untouched(r) \/ Inserted(r) \/ Updated(r) \/ Deleted(r)
    PROVE  RowOf(object)'
<1> DEFINE r == object.id
<1>1. Known(r) /\ keys[r] \subseteq keys'[r]
  BY DEF RowOf, Untouched, Inserted, Updated, Deleted
<1>2. table[r] = None => table'[r] = None \/ r \in misled
  BY <1>1 DEF Known, Untouched, Inserted, Updated, Deleted, SameNews
<1> QED
  BY <1>1, <1>2 DEF RowOf, Known

LEMMA HoldsWritten ==
    ASSUME NEW v, v \notin misled, NEW values, NEW todo, HoldsValue(values, todo, v),
           Untouched(v) \/ Inserted(v) \/ Updated(v) \/ Deleted(v),
           v \in todo \/ Find(values, v) # {} => Known(v)
    PROVE  HoldsValue(values, todo, v)'
<1>1. HoldsValue(values, todo, v)' <=>
         /\ Single(values, v)
         /\ v \in todo => Find(values, v) = {}
         /\ IF table'[v] = None
            THEN v \in todo \/ Find(values, v) # {} => Leaving(v)'
            ELSE Arriving(v)' \/ v \in todo \/ Find(values, v) # {}
         /\ \A j \in Find(values, v) : Fresh(values[j], v)'
  BY DEF HoldsValue, Single, Find
<1>2. CASE Untouched(v)
  BY <1>2, HoldsKept DEF Untouched
<1>3. CASE Inserted(v)
  BY <1>1, <1>3, NoneIsNoRow DEF Inserted, HoldsValue, Known
<1>4. CASE Updated(v)
  BY <1>1, <1>4, NoneIsNoRow DEF Updated, HoldsValue, Fresh
<1>5. CASE Deleted(v)
  BY <1>1, <1>5 DEF Deleted, HoldsValue, Fresh
<1> QED
  BY <1>2, <1>3, <1>4, <1>5

\* What a statement does to the object that is being loaded.
LoadWritten(S) ==
    /\ load' = Idle <=> load = Idle
    /\ load # Idle =>
          /\ load'.device = load.device /\ load'.rest = load.rest
          /\ load'.todo = load.todo
          /\ load'.step = "refresh" <=> load.step = "refresh"
          /\ load'.step = "values" <=> load.step = "values"
          /\ load'.step \in {"inactive", "select"} => load.step \in {"inactive", "select"}
    /\ load # Idle /\ load.step # "refresh" =>
          /\ load'.object.id = load.object.id
          /\ load'.object.values = load.object.values
          /\ \/ load'.object.row = load.object.row
             \/ /\ load.object.row \in RowData /\ load'.object.row \in RowData
                /\ load'.object.row.key = load.object.row.key
                /\ table'[load.device] = None \/ Update(load.device) \in S

\* What the statement finds: the objects are of rows that were.
LEMMA Traces ==
    ASSUME TypeOK, Sound
    PROVE  /\ \A d \in Device : Covers(d) \/ FindDevice(d) # {} => Known(d)
           /\ \A object \in DeviceObject : ObjectOK(object) =>
                 \A v \in Value : Find(object.values, v) # {} => Known(v)
           /\ load # Idle => \A v \in load.todo : Known(v)
<1>1. ASSUME NEW d \in Device, Covers(d) PROVE Known(d)
  BY <1>1 DEF Covers, Sound, LoadInv
<1>2. ASSUME NEW d \in Device, NEW k \in FindDevice(d) PROVE Known(d)
  BY FoundObject DEF Sound, RowOf
<1>3. ASSUME NEW object \in DeviceObject, ObjectOK(object), NEW v \in Value,
             NEW k \in Find(object.values, v)
      PROVE  Known(v)
  <2>1. k \in Key /\ object.values[k].id = v /\ object.values[k] # None
    BY DevicesConstants, NoneIsNoRow DEF Find
  <2> QED
    BY <1>3, <2>1 DEF ObjectOK, RowOf
<1> QED
  BY <1>1, <1>2, <1>3 DEF Sound, LoadInv

LEMMA WrittenSound ==
    ASSUME TypeOK, Sound, NEW S, Written(S), LoadWritten(S),
           UNCHANGED <<plugin, Devices, messages, misled>>
    PROVE  Sound'
<1>1. ASSUME NEW r \in Row
      PROVE  Untouched(r) \/ Inserted(r) \/ Updated(r) \/ Deleted(r)
  BY WrittenNews
<1>2. ASSUME NEW r \in Row
      PROVE  keys[r] \subseteq keys'[r] /\ (Known(r) => Known(r)')
  BY <1>1 DEF Untouched, Inserted, Updated, Deleted, Known
<1>3. \A e : e \in ToSet(log') <=> e \in ToSet(log) \/ e \in S
  BY DEF Written
<1>4. \A m : Queued(m)' <=> Queued(m)
  BY DEF Queued
<1>5. ASSUME NEW r \in Row, r \notin misled, keys[r] = {}
      PROVE  ~Arriving(r) /\ ~Changing(r) /\ ~Leaving(r) /\ table[r] = None
  <2>1. \A e \in ToSet(log) : e.kept => e.row # r
    BY <1>5 DEF Sound, KeysInv, Known
  <2>2. \A m \in ToSet(messages) : m # onStart => m.row # r
    BY <1>5 DEF Sound, KeysInv, Known
  <2>3. table[r] = None
    BY <1>5 DEF Sound, KeysInv
  <2> QED
    BY <2>1, <2>2, <2>3, EntryFacts, MessageFacts
       DEF Arriving, Changing, Leaving, InLog, Queued
<1>6. KeysInv'
  <2>1. ASSUME NEW r \in Row, table'[r] # None PROVE table'[r].key \in keys'[r]
    BY <1>1, <2>1 DEF Sound, KeysInv, Untouched, Inserted, Updated, Deleted, SameNews
  <2>2. ASSUME NEW e \in ToSet(log'), e.kept PROVE Known(e.row)'
    <3>1. CASE e \in ToSet(log)
      <4>1. Known(e.row) /\ e.row \in Row
        <5>1. e \in Entry
          BY <3>1, TypeFacts DEF ToSet
        <5> QED
          BY <2>2, <3>1, <5>1, EntryFacts DEF Sound, KeysInv
      <4>2. PICK r \in Row : r = e.row
        BY <4>1
      <4>3. Known(r)'
        BY <1>2, <4>1, <4>2
      <4> QED
        BY <4>2, <4>3 DEF Known
    <3>2. CASE e \in S
      <4>1. e.row \in Row
        BY <3>2, EntryFacts DEF Written
      <4>2. PICK r \in Row : r = e.row
        BY <4>1
      <4>3. Inserted(r) \/ Updated(r) \/ Deleted(r)
        BY <2>2, <3>2, <4>2, WrittenNews
      <4>4. table[r] # None => Known(r)
        BY DEF Sound, KeysInv, Known
      <4>5. Known(r)'
        BY <1>2, <4>3, <4>4 DEF Inserted, Updated, Deleted, Known
      <4> QED
        BY <4>2, <4>5 DEF Known
    <3> QED
      BY <1>3, <2>2, <3>1, <3>2
  <2>3. ASSUME NEW m \in ToSet(messages'), m # onStart PROVE Known(m.row)'
    <3>1. m \in ToSet(messages) /\ m \in Message
      BY <2>3, TypeFacts DEF ToSet
    <3>2. PICK r \in Row : r = m.row
      BY <2>3, <3>1, MessageFacts
    <3>3. Known(r)'
      BY <1>2, <2>3, <3>1, <3>2 DEF Sound, KeysInv
    <3> QED
      BY <3>2, <3>3 DEF Known
  <2>4. onStart' = onStart
    BY DEF onStart
  <2> QED
    BY <2>1, <2>2, <2>3, <2>4 DEF KeysInv
<1>7. OrderInv'
  <2> SUFFICES ASSUME NEW r \in Row \ misled
               PROVE  /\ Before(log, Insert(r), Delete(r))'
                      /\ Before(messages, onCreate(r), onDelete(r))'
                      /\ Queued(onDelete(r))' => ~InLog(Insert(r))'
                      /\ Leaving(r)' => table'[r] = None
    BY DEF OrderInv
  <2>0. /\ r \in Row /\ r \notin misled
        /\ Before(log, Insert(r), Delete(r)) /\ Before(messages, onCreate(r), onDelete(r))
        /\ Queued(onDelete(r)) => ~InLog(Insert(r))
        /\ Leaving(r) => table[r] = None
    BY DEF Sound, OrderInv
  <2>1. Insert(r) \in S => Inserted(r)
    BY WrittenNews
  <2>2. Before(log, Insert(r), Delete(r))'
    <3>1. PICK a, b : a = Insert(r) /\ b = Delete(r)
      OBVIOUS
    <3>2. Before(log, a, b) /\ (a \in S => b \notin ToSet(log))
      BY <1>5, <2>0, <2>1, <3>1 DEF Inserted, Leaving, InLog
    <3>3. a \in S => b \notin S
      <4>1. a \in S => \A e \in S : e.row = r => e = a
        <5>1. RowNews(r, S)
          BY DEF Written
        <5> QED
          BY <3>1, <5>1, EntryFacts DEF RowNews
      <4> QED
        BY <3>1, <4>1, EntryFacts
    <3>4. Before(log', a, b)
      BY <3>2, <3>3 DEF Written
    <3> QED
      BY <3>1, <3>4 DEF Before, Insert, Delete
  <2>3. Before(messages, onCreate(r), onDelete(r))'
    BY <2>0 DEF Before, onCreate, onDelete
  <2>4. Queued(onDelete(r))' => ~InLog(Insert(r))'
    <3>1. PICK a, b : a = Insert(r) /\ b = onDelete(r)
      OBVIOUS
    <3>2. Queued(b) => ~InLog(a) /\ a \notin S
      BY <1>5, <2>0, <2>1, <3>1 DEF Inserted, Leaving
    <3>3. Queued(b)' => ~InLog(a)'
      BY <1>3, <1>4, <3>2 DEF InLog
    <3> QED
      BY <3>1, <3>3 DEF Queued, InLog, onDelete, Insert
  <2>5. Leaving(r)' => table'[r] = None
    <3> QED
      BY <1>1, <1>5, <2>0 DEF Untouched, Inserted, Updated, Deleted, SameNews
  <2> QED
    BY <2>2, <2>3, <2>4, <2>5
<1>8. StageInv'
  BY DEF Sound, StageInv, LoadWritten, Queued, onStart
<1>9. ASSUME NEW object \in DeviceObject, ObjectOK(object)
      PROVE  ObjectOK(object)'
  <2>1. /\ object.id \in Row
        /\ \A j \in Key : object.values[j] # None => object.values[j].id \in Row
    BY ObjectFacts DEF Row, ValuesOf
  <2>2. RowOf(object)'
    BY <1>1, <1>9, <2>1, RowOfKept DEF ObjectOK
  <2>3. ASSUME NEW j \in Key, object.values[j] # None PROVE RowOf(object.values[j])'
    <3>1. PICK value : value = object.values[j]
      OBVIOUS
    <3>2. RowOf(value) /\ value.id \in Row
      BY <1>9, <2>1, <2>3, <3>1 DEF ObjectOK
    <3>3. RowOf(value)'
      BY <1>1, <3>2, RowOfKept
    <3> QED
      BY <3>1, <3>3 DEF RowOf
  <2> QED
    BY <2>2, <2>3 DEF ObjectOK
<1>10. ObjectsInv'
  <2>1. ASSUME NEW k \in Key, Devices'[k] # None PROVE ObjectOK(Devices[k])'
    <3>1. PICK object : object = Devices[k]
      OBVIOUS
    <3>2. object \in DeviceObject /\ ObjectOK(object)
      BY <2>1, <3>1, TypeFacts DEF Sound, ObjectsInv
    <3>3. ObjectOK(object)'
      BY <1>9, <3>2
    <3> QED
      BY <3>1, <3>3 DEF ObjectOK, RowOf
  <2>2. ASSUME load' # Idle, load'.step # "refresh" PROVE ObjectOK(load.object)'
    <3>1. PICK object, new : object = load.object /\ new = load'.object
      OBVIOUS
    <3>2. /\ object \in DeviceObject /\ ObjectOK(object)
          /\ new.id = object.id /\ new.values = object.values
          /\ \/ new.row = object.row
             \/ new.row \in RowData /\ object.row \in RowData /\ new.row.key = object.row.key
      BY <2>2, <3>1, TypeFacts DEF Sound, ObjectsInv, LoadWritten
    <3>3. ObjectOK(object)'
      BY <1>9, <3>2
    <3>4. ObjectOK(new)'
      BY <3>2, <3>3, NoneIsNoRow DEF ObjectOK, RowOf
    <3> QED
      BY <3>1, <3>4 DEF ObjectOK, RowOf
  <2> QED
    BY <2>1, <2>2 DEF ObjectsInv
<1>11. LoadInv'
  <2>1. load # Idle => load.device \in Row /\ load.rest \subseteq Row /\ load.todo \subseteq Row
    BY TypeFacts DEF Row, ValuesOf
  <2> QED
    BY <1>2, <2>1 DEF Sound, LoadInv, LoadWritten, Known
<1>12. ASSUME NEW d \in Device, Plain(d), DeviceInv(d) PROVE DeviceInv(d)'
  <2>0. d \in Row
    BY DEF Row
  <2>1. /\ Covers(d)' <=> Covers(d)
        /\ Building(d)' <=> Building(d)
        /\ Building(d) => Covers(d)
    BY DEF Covers, Building, LoadWritten
  <2>2. /\ FindDevice(d)' = FindDevice(d)
        /\ Single(Devices, d)' <=> Single(Devices, d)
    BY DEF FindDevice, Find, Single
  <2>3. ASSUME Building(d), Fresh(load.object, d), Untouched(d) \/ Updated(d) \/ Deleted(d)
        PROVE  Fresh(load.object, d)'
    <3>1. \/ load'.object.row = load.object.row
          \/ table'[d] = None \/ Update(d) \in S
      BY <2>3 DEF Building, LoadWritten
    <3>2. Update(d) \in S => Changing(d)'
      BY <2>0, WrittenNews
    <3> QED
      BY <2>3, <3>1, <3>2 DEF Fresh, Untouched, Updated, Deleted, SameNews
  <2>4. CASE Untouched(d)
    <3>1. Building(d)' => Fresh(load.object, d)'
      BY <1>12, <2>1, <2>3, <2>4 DEF DeviceInv
    <3>2. DictKept(d)
      BY DEF DictKept
    <3> QED
      BY <1>12, <2>1, <2>4, <3>1, <3>2, DeviceKept DEF Untouched, Sound
  <2>5. CASE Inserted(d)
    <3>1. ~Covers(d) /\ FindDevice(d) = {}
      BY <1>12, <2>5, Traces DEF Inserted, Plain, Known
    <3> QED
      BY <1>12, <2>1, <2>2, <2>5, <3>1, NoneIsNoRow DEF DeviceInv, Inserted
  <2>6. CASE Updated(d)
    <3>1. \A k \in FindDevice(d)' : Fresh(Devices[k], d)'
      BY <2>6 DEF Fresh, Updated
    <3> QED
      BY <1>12, <2>1, <2>2, <2>3, <2>6, <3>1, NoneIsNoRow DEF DeviceInv, Updated
  <2>7. CASE Deleted(d)
    <3>1. \A k \in FindDevice(d)' : Fresh(Devices[k], d)'
      BY <2>7 DEF Fresh, Deleted
    <3> QED
      BY <1>12, <2>1, <2>2, <2>3, <2>7, <3>1 DEF DeviceInv, Deleted
  <2> QED
    BY <1>1, <2>0, <2>4, <2>5, <2>6, <2>7
<1>13. ASSUME NEW v \in Value, PlainValue(v), ValueInv(v) PROVE ValueInv(v)'
  <2>0. v \in Row /\ Owner[v] \in Device
    BY DevicesConstants DEF Row
  <2>1. Untouched(v) \/ Inserted(v) \/ Updated(v) \/ Deleted(v)
    BY <1>1, <2>0
  <2>2. table'[v] = None /\ Arriving(v)' => Leaving(v)'
    BY <1>13, <2>1, NoneIsNoRow DEF ValueInv, Untouched, Inserted, Updated, Deleted, SameNews
  <2>3. ASSUME NEW k \in FindDevice(Owner[v])' PROVE HoldsValue(Devices[k].values, {}, v)'
    <3>1. k \in FindDevice(Owner[v])
      BY DEF FindDevice, Find
    <3>2. PICK object, values : object = Devices[k] /\ values = object.values
      OBVIOUS
    <3>3. object \in DeviceObject /\ ObjectOK(object)
      BY <2>0, <3>1, <3>2, FoundObject DEF Sound
    <3>4. Find(values, v) # {} => Known(v)
      BY <3>2, <3>3, Traces
    <3>5. HoldsValue(values, {}, v)
      BY <1>13, <3>1, <3>2 DEF ValueInv
    <3>6. HoldsValue(values, {}, v)'
      BY <2>1, <3>4, <3>5, <1>13, HoldsWritten DEF PlainValue
    <3> QED
      BY <3>2, <3>6 DEF HoldsValue, Single, Find, Fresh
  <2>4. ASSUME load'.step = "values", load'.device = Owner[v]
        PROVE  HoldsValue(load.object.values, load.todo, v)'
    <3>1. load # Idle /\ load.step = "values" /\ load.device = Owner[v]
      BY <2>4, IdleIsNoLoad DEF LoadWritten
    <3>2. PICK object, values, todo :
             object = load.object /\ values = object.values /\ todo = load.todo
      OBVIOUS
    <3>3. object \in DeviceObject /\ ObjectOK(object)
      BY <3>1, <3>2, TypeFacts DEF Sound, ObjectsInv
    <3>4. v \in todo \/ Find(values, v) # {} => Known(v)
      BY <3>1, <3>2, <3>3, Traces
    <3>5. HoldsValue(values, todo, v)
      BY <1>13, <3>1, <3>2 DEF ValueInv
    <3>6. HoldsValue(values, todo, v)'
      BY <2>1, <3>4, <3>5, <1>13, HoldsWritten DEF PlainValue
    <3>7. load'.object.values = values /\ load'.todo = todo
      BY <3>1, <3>2 DEF LoadWritten
    <3> QED
      BY <3>6, <3>7 DEF HoldsValue, Single, Find, Fresh
  <2> QED
    BY <2>2, <2>3, <2>4 DEF ValueInv
<1>14. RowsInv'
  BY <1>2, <1>12, <1>13, RowsKept DEF Sound
<1> QED
  BY <1>6, <1>7, <1>8, <1>10, <1>11, <1>14 DEF Sound

LEMMA WriterSound ==
    ASSUME TypeOK, Sound, Writer
    PROVE  Sound'
<1>1. UNCHANGED <<plugin, Devices, load, messages, misled>> /\ \E S : Written(S)
  BY WriterWrites DEF Sound, workerVars
<1>2. PICK S : Written(S)
  BY <1>1
<1>3. LoadWritten(S)
  BY <1>1 DEF LoadWritten
<1> QED
  BY <1>1, <1>2, <1>3, WrittenSound

LEMMA InactiveSound ==
    ASSUME TypeInv, Sound, WriteInactive
    PROVE  Sound'
<1>1. UNCHANGED <<plugin, Devices, messages, misled>>
  BY DEF WriteInactive
<1>2. PICK S : Written(S) /\ (table'[load.device] = None \/ Update(load.device) \in S)
  BY InactiveWrites DEF Sound
<1>3. LoadWritten(S)
  BY <1>2, InactiveLoads DEF LoadWritten
<1> QED
  BY <1>1, <1>2, <1>3, WrittenSound DEF TypeInv

-----------------------------------------------------------------------------
(* The publisher.                                                          *)

\* What DatabaseUpdate does with an entry, and when it drops one.
LEMMA PublisherCases ==
    ASSUME TypeOK, DatabaseUpdate
    PROVE  LET e == Head(log)
           IN  /\ log # << >> /\ log' = Tail(log)
               /\ e \in Entry /\ e.row \in Row
               /\ UNCHANGED <<table, plugin, Devices, load, writes, keys>>
               /\ \/ /\ plugin # "unregistered"
                     /\ \/ e.action = "Insert" /\ Forward(e, "onCreate")
                        \/ e.action = "Update" /\ Forward(e, "onUpdate")
                        \/ e.action = "Delete" /\ Forward(e, "onDelete")
                  \/ /\ Drop(e)
                     /\ e.row \in Device => \/ plugin = "unregistered"
                                            \/ e.action = "Delete" /\ ~KnowsDevice(e.row)
                     /\ e.row \in Value =>
                           IF e.action = "Delete"
                           THEN \/ plugin = "unregistered"
                                \/ load = Idle /\ Holders(e.row) = {}
                           ELSE ~KnowsDevice(Owner[e.row])
                  \/ Die
<1> DEFINE e == Head(log)
<1>1. /\ log # << >> /\ log' = Tail(log)
      /\ UNCHANGED <<table, plugin, Devices, load, writes, keys>>
      /\ IF e.row \in Device THEN DeviceNews(e) ELSE ValueNews(e)
  BY DEF DatabaseUpdate, workerVars
<1>2. e \in Entry
  BY <1>1, EntryTaken
<1> HIDE DEF e
<1>3. e.row \in Row /\ e.action \in {"Insert", "Update", "Delete"}
  BY <1>2, EntryFacts
<1>4. CASE e.row \in Device
  <2>1. DeviceNews(e) /\ e.row \notin Value
    BY <1>1, <1>4, DevicesConstants
  <2> QED
    BY <1>1, <1>2, <1>3, <1>4, <2>1 DEF DeviceNews, e
<1>5. CASE e.row \notin Device
  <2>1. ValueNews(e) /\ e.row \in Value
    BY <1>1, <1>3, <1>5 DEF Row
  <2>2. CASE e.action = "Delete"
    BY <1>1, <1>2, <1>3, <1>5, <2>1, <2>2 DEF ValueNews, e
  <2>3. CASE e.action # "Delete"
    <3>1. KnowsDevice(Owner[e.row]) => plugin # "unregistered"
      BY DEF KnowsDevice
    <3> QED
      BY <1>1, <1>2, <1>3, <1>5, <2>1, <2>3, <3>1 DEF ValueNews, ValueWritten, e
  <2> QED
    BY <2>2, <2>3
<1> QED
  BY <1>4, <1>5

LEMMA RowsFollow ==
    ASSUME UNCHANGED keys, misled \subseteq misled', RowsInv,
           \A d \in Device : Plain(d)' /\ Plain(d) /\ DeviceInv(d) => DeviceInv(d)',
           \A v \in Value : PlainValue(v)' /\ PlainValue(v) /\ ValueInv(v) => ValueInv(v)'
    PROVE  RowsInv'
BY PlainStays DEF RowsInv

\* The entry becomes a message: the news is still on its way.
LEMMA ForwardNews ==
    ASSUME TypeOK, Sound, DatabaseUpdate, NEW e, e = Head(log), NEW on,
           \/ on = "onCreate" /\ e = Insert(e.row)
           \/ on = "onUpdate" /\ e = Update(e.row)
           \/ on = "onDelete" /\ e = Delete(e.row),
           Forward(e, on)
    PROVE  /\ KeysInv' /\ OrderInv' /\ misled' = misled
           /\ \A n : Queued(n)' /\ n = onStart => Queued(n)
           /\ \A r \in Row : SameNews(r)
<1> DEFINE m == [on |-> on, row |-> e.row]
<1>1. /\ log # << >> /\ log' = Tail(log) /\ e \in Entry /\ e.row \in Row
      /\ UNCHANGED <<table, keys>>
  BY PublisherCases
<1>2. messages' = Append(messages, m) /\ e.kept /\ misled' = misled
  BY EntryFacts DEF Forward
<1>3. /\ m.row = e.row
      /\ \/ m = onCreate(e.row) /\ e = Insert(e.row)
         \/ m = onUpdate(e.row) /\ e = Update(e.row)
         \/ m = onDelete(e.row) /\ e = Delete(e.row)
  BY DEF onCreate, onUpdate, onDelete
<1> HIDE DEF m
<1>4. m \in Message /\ m # onStart
  BY <1>1, <1>3, MessageFacts
<1>5. /\ \A n : Queued(n)' <=> Queued(n) \/ n = m
      /\ \A a, b : /\ Before(messages, a, b)
                   /\ a = m => b # m /\ ~Queued(b)
                   => Before(messages', a, b)
  BY <1>2, <1>4, Pushed
<1>6. /\ InLog(e)
      /\ \A n : InLog(n)' => InLog(n)
      /\ \A n : n # e => (InLog(n)' <=> InLog(n))
      /\ \A a, b : Before(log, a, b) => Before(log', a, b) /\ (b = e => ~InLog(a)')
  BY <1>1, EntryTaken
<1>7. ASSUME NEW r \in Row
      PROVE  /\ SameNews(r)
             /\ r \notin misled =>
                  /\ Before(log, Insert(r), Delete(r))'
                  /\ Before(messages, onCreate(r), onDelete(r))'
                  /\ Queued(onDelete(r))' => ~InLog(Insert(r))'
  <2>1. PICK i, u, d : i = Insert(r) /\ u = Update(r) /\ d = Delete(r)
    OBVIOUS
  <2>2. PICK oc, ou, od : oc = onCreate(r) /\ ou = onUpdate(r) /\ od = onDelete(r)
    OBVIOUS
  <2>3. i # u /\ i # d /\ u # d /\ i.row = r /\ u.row = r /\ d.row = r
    BY <2>1, EntryFacts
  <2>4. oc # ou /\ oc # od /\ ou # od /\ oc.row = r /\ ou.row = r /\ od.row = r
    BY <2>2, MessageFacts
  <2>5. e.row = r => \/ m = oc /\ e = i
                     \/ m = ou /\ e = u
                     \/ m = od /\ e = d
    BY <1>3, <2>1, <2>2
  <2>6. /\ InLog(i)' \/ Queued(oc)' <=> InLog(i) \/ Queued(oc)
        /\ InLog(u)' \/ Queued(ou)' <=> InLog(u) \/ Queued(ou)
        /\ InLog(d)' \/ Queued(od)' <=> InLog(d) \/ Queued(od)
    <3>1. CASE e.row = r
      BY <1>5, <1>6, <2>3, <2>4, <2>5, <3>1
    <3>2. CASE e.row # r
      <4>1. e # i /\ e # u /\ e # d /\ m # oc /\ m # ou /\ m # od
        BY <1>3, <2>3, <2>4, <3>2
      <4> QED
        BY <1>5, <1>6, <4>1
    <3> QED
      BY <3>1, <3>2
  <2>7. /\ i = Insert(r)' /\ u = Update(r)' /\ d = Delete(r)'
        /\ oc = onCreate(r)' /\ ou = onUpdate(r)' /\ od = onDelete(r)'
    BY <2>1, <2>2 DEF Insert, Update, Delete, onCreate, onUpdate, onDelete
  <2>8. SameNews(r)
    <3>1. /\ Arriving(r) <=> InLog(i) \/ Queued(oc)
          /\ Changing(r) <=> InLog(u) \/ Queued(ou)
          /\ Leaving(r) <=> InLog(d) \/ Queued(od)
      BY <2>1, <2>2 DEF Arriving, Changing, Leaving
    <3>2. /\ Arriving(r)' <=> InLog(i)' \/ Queued(oc)'
          /\ Changing(r)' <=> InLog(u)' \/ Queued(ou)'
          /\ Leaving(r)' <=> InLog(d)' \/ Queued(od)'
      BY <2>7 DEF Arriving, Changing, Leaving, InLog, Queued
    <3> QED
      BY <1>1, <2>6, <3>1, <3>2 DEF SameNews
  <2>9. r \notin misled =>
           Before(log, i, d) /\ Before(messages, oc, od) /\ (Queued(od) => ~InLog(i))
    BY <2>1, <2>2 DEF Sound, OrderInv
  <2>10. r \notin misled => Before(log', i, d)
    BY <1>6, <2>9
  <2>11. ASSUME r \notin misled PROVE Before(messages', oc, od)
    <3>1. oc = m => ~Queued(od)
      <4>1. oc = m => e = i
        BY <1>3, <2>3, <2>4, <2>5
      <4> QED
        BY <1>6, <2>9, <2>11, <4>1
    <3> QED
      BY <1>5, <2>4, <2>9, <2>11, <3>1
  <2>12. ASSUME r \notin misled PROVE Queued(od)' => ~InLog(i)'
    <3>1. CASE Queued(od)
      BY <1>6, <2>9, <2>12, <3>1
    <3>2. CASE od = m
      <4>1. e = d
        BY <1>3, <2>3, <2>4, <2>5, <3>2
      <4> QED
        BY <1>6, <2>9, <2>12, <4>1
    <3> QED
      BY <1>5, <3>1, <3>2
  <2> QED
    BY <2>1, <2>2, <2>7, <2>8, <2>10, <2>11, <2>12 DEF Before, InLog, Queued
<1>8. KeysInv'
  <2>1. ASSUME NEW n \in ToSet(log'), n.kept PROVE Known(n.row)'
    <3>1. InLog(n)
      BY <1>6, <2>1 DEF InLog
    <3> QED
      BY <1>1, <1>2, <2>1, <3>1 DEF Sound, KeysInv, InLog, Known
  <2>2. ASSUME NEW n \in ToSet(messages'), n # onStart PROVE Known(n.row)'
    <3>1. Queued(n) \/ n = m
      BY <1>5, <2>2 DEF Queued
    <3>2. Known(e.row)
      BY <1>2, <1>6 DEF Sound, KeysInv, InLog
    <3> QED
      BY <1>1, <1>2, <1>3, <2>2, <3>1, <3>2 DEF Sound, KeysInv, Queued, Known
  <2>3. onStart' = onStart
    BY DEF onStart
  <2> QED
    BY <1>1, <2>1, <2>2, <2>3 DEF Sound, KeysInv
<1>9. OrderInv'
  <2> SUFFICES ASSUME NEW r \in Row \ misled'
               PROVE  /\ Before(log, Insert(r), Delete(r))'
                      /\ Before(messages, onCreate(r), onDelete(r))'
                      /\ Queued(onDelete(r))' => ~InLog(Insert(r))'
                      /\ Leaving(r)' => table'[r] = None
    BY DEF OrderInv
  <2>1. r \in Row \ misled
    BY <1>2
  <2>2. Leaving(r)' => table'[r] = None
    BY <1>7, <2>1 DEF Sound, OrderInv, SameNews
  <2> QED
    BY <1>7, <2>1, <2>2
<1> QED
  BY <1>2, <1>4, <1>5, <1>7, <1>8, <1>9

\* The same of an entry that was taken back: it is no news, and its row is misled.
LEMMA ForwardMisleads ==
    ASSUME TypeOK, Sound, DatabaseUpdate, NEW e, e = Head(log), ~e.kept,
           NEW on \in {"onCreate", "onUpdate", "onDelete"}, Forward(e, on)
    PROVE  /\ KeysInv' /\ OrderInv' /\ misled' = misled \cup {e.row}
           /\ \A n : Queued(n)' /\ n = onStart => Queued(n)
           /\ \A r \in Row : r # e.row => SameNews(r)
<1> DEFINE m == [on |-> on, row |-> e.row]
<1>1. /\ log # << >> /\ log' = Tail(log) /\ e \in Entry /\ e.row \in Row
      /\ UNCHANGED <<table, keys>>
  BY PublisherCases
<1>2. messages' = Append(messages, m) /\ misled' = misled \cup {e.row}
  BY DEF Forward
<1>3. m.row = e.row /\ m \in {onCreate(e.row), onUpdate(e.row), onDelete(e.row)}
  BY DEF onCreate, onUpdate, onDelete
<1> HIDE DEF m
<1>4. m \in Message /\ m # onStart
  BY <1>1, <1>3, MessageFacts
<1>5. /\ \A n : Queued(n)' <=> Queued(n) \/ n = m
      /\ \A a, b : /\ Before(messages, a, b)
                   /\ a = m => b # m /\ ~Queued(b)
                   => Before(messages', a, b)
  BY <1>2, <1>4, Pushed
<1>6. /\ \A n : InLog(n)' => InLog(n)
      /\ \A n : n # e => (InLog(n)' <=> InLog(n))
      /\ \A a, b : Before(log, a, b) => Before(log', a, b)
  BY <1>1, EntryTaken
<1>7. ASSUME NEW r \in Row, r # e.row
      PROVE  /\ SameNews(r)
             /\ r \notin misled =>
                  /\ Before(log, Insert(r), Delete(r))'
                  /\ Before(messages, onCreate(r), onDelete(r))'
                  /\ Queued(onDelete(r))' => ~InLog(Insert(r))'
                  /\ Leaving(r)' => table'[r] = None
  <2>1. PICK i, u, d : i = Insert(r) /\ u = Update(r) /\ d = Delete(r)
    OBVIOUS
  <2>2. PICK oc, ou, od : oc = onCreate(r) /\ ou = onUpdate(r) /\ od = onDelete(r)
    OBVIOUS
  <2>3. e # i /\ e # u /\ e # d
    BY <1>7, <2>1, EntryFacts
  <2>4. m # oc /\ m # ou /\ m # od
    BY <1>3, <1>7, <2>2, MessageFacts
  <2>5. /\ InLog(i)' <=> InLog(i)
        /\ InLog(u)' <=> InLog(u)
        /\ InLog(d)' <=> InLog(d)
        /\ Queued(oc)' <=> Queued(oc)
        /\ Queued(ou)' <=> Queued(ou)
        /\ Queued(od)' <=> Queued(od)
    BY <1>5, <1>6, <2>3, <2>4
  <2>6. /\ i = Insert(r)' /\ u = Update(r)' /\ d = Delete(r)'
        /\ oc = onCreate(r)' /\ ou = onUpdate(r)' /\ od = onDelete(r)'
    BY <2>1, <2>2 DEF Insert, Update, Delete, onCreate, onUpdate, onDelete
  <2>7. SameNews(r)
    <3>1. /\ Arriving(r) <=> InLog(i) \/ Queued(oc)
          /\ Changing(r) <=> InLog(u) \/ Queued(ou)
          /\ Leaving(r) <=> InLog(d) \/ Queued(od)
      BY <2>1, <2>2 DEF Arriving, Changing, Leaving
    <3>2. /\ Arriving(r)' <=> InLog(i)' \/ Queued(oc)'
          /\ Changing(r)' <=> InLog(u)' \/ Queued(ou)'
          /\ Leaving(r)' <=> InLog(d)' \/ Queued(od)'
      BY <2>6 DEF Arriving, Changing, Leaving, InLog, Queued
    <3> QED
      BY <1>1, <2>5, <3>1, <3>2 DEF SameNews
  <2>8. ASSUME r \notin misled
        PROVE  /\ Before(log', i, d) /\ Before(messages', oc, od)
               /\ Queued(od)' => ~InLog(i)'
               /\ Leaving(r)' => table'[r] = None
    <3>1. /\ Before(log, i, d) /\ Before(messages, oc, od) /\ (Queued(od) => ~InLog(i))
          /\ Leaving(r) => table[r] = None
      BY <2>1, <2>2, <2>8 DEF Sound, OrderInv
    <3> QED
      BY <1>5, <1>6, <2>4, <2>5, <2>7, <3>1 DEF SameNews
  <2> QED
    BY <2>6, <2>7, <2>8 DEF Before, InLog, Queued
<1>8. KeysInv'
  <2>1. ASSUME NEW n \in ToSet(log'), n.kept PROVE Known(n.row)'
    <3>1. InLog(n)
      BY <1>6, <2>1 DEF InLog
    <3> QED
      BY <1>1, <1>2, <2>1, <3>1 DEF Sound, KeysInv, InLog, Known
  <2>2. ASSUME NEW n \in ToSet(messages'), n # onStart PROVE Known(n.row)'
    <3>1. Queued(n) \/ n = m
      BY <1>5, <2>2 DEF Queued
    <3> QED
      BY <1>1, <1>2, <1>3, <2>2, <3>1 DEF Sound, KeysInv, Queued, Known
  <2>3. onStart' = onStart
    BY DEF onStart
  <2> QED
    BY <1>1, <2>1, <2>2, <2>3 DEF Sound, KeysInv
<1>9. OrderInv'
  <2> SUFFICES ASSUME NEW r \in Row \ misled'
               PROVE  /\ Before(log, Insert(r), Delete(r))'
                      /\ Before(messages, onCreate(r), onDelete(r))'
                      /\ Queued(onDelete(r))' => ~InLog(Insert(r))'
                      /\ Leaving(r)' => table'[r] = None
    BY DEF OrderInv
  <2>1. r \in Row \ misled /\ r # e.row
    BY <1>2
  <2> QED
    BY <1>7, <2>1
<1> QED
  BY <1>2, <1>4, <1>5, <1>7, <1>8, <1>9

\* The entry is dropped.
LEMMA DropNews ==
    ASSUME TypeOK, Sound, DatabaseUpdate, NEW e, e = Head(log), UNCHANGED messages,
           misled \subseteq misled'
    PROVE  /\ KeysInv' /\ OrderInv'
           /\ \A r \in Row : r # e.row \/ ~e.kept => SameNews(r)
           /\ \A r \in Row :
                /\ Arriving(r)' => Arriving(r)
                /\ e.action # "Delete" => (Leaving(r)' <=> Leaving(r))
                /\ e = Delete(r) /\ r \notin misled => table[r] = None /\ ~InLog(Insert(r))'
           /\ \A r \in Row : Queued(onCreate(r))' <=> Queued(onCreate(r))
<1>1. /\ log # << >> /\ log' = Tail(log) /\ e \in Entry /\ e.row \in Row
      /\ UNCHANGED <<table, keys>>
  BY PublisherCases
<1>2. \A n : Queued(n)' <=> Queued(n)
  BY DEF Queued
<1>3. /\ InLog(e)
      /\ \A n : InLog(n)' => InLog(n)
      /\ \A n : n # e => (InLog(n)' <=> InLog(n))
      /\ \A a, b : Before(log, a, b) => Before(log', a, b) /\ (b = e => ~InLog(a)')
  BY <1>1, EntryTaken
<1>4. ASSUME NEW r \in Row
      PROVE  /\ r # e.row \/ ~e.kept => SameNews(r)
             /\ Arriving(r)' => Arriving(r)
             /\ e.action # "Delete" => (Leaving(r)' <=> Leaving(r))
             /\ e = Delete(r) /\ r \notin misled => table[r] = None /\ ~InLog(Insert(r))'
             /\ Queued(onCreate(r))' <=> Queued(onCreate(r))
             /\ r \notin misled =>
                  /\ Before(log, Insert(r), Delete(r))'
                  /\ Before(messages, onCreate(r), onDelete(r))'
                  /\ Queued(onDelete(r))' => ~InLog(Insert(r))'
                  /\ Leaving(r)' => table'[r] = None
  <2>1. PICK i, u, d : i = Insert(r) /\ u = Update(r) /\ d = Delete(r)
    OBVIOUS
  <2>2. PICK oc, ou, od : oc = onCreate(r) /\ ou = onUpdate(r) /\ od = onDelete(r)
    OBVIOUS
  <2>3. i.row = r /\ u.row = r /\ d.row = r /\ i.kept /\ u.kept /\ d.kept /\ (e = d => e.action = "Delete")
    BY <2>1, EntryFacts DEF Delete
  <2>4. /\ i = Insert(r)' /\ u = Update(r)' /\ d = Delete(r)'
        /\ oc = onCreate(r)' /\ ou = onUpdate(r)' /\ od = onDelete(r)'
    BY <2>1, <2>2 DEF Insert, Update, Delete, onCreate, onUpdate, onDelete
  <2>5. /\ Arriving(r) <=> InLog(i) \/ Queued(oc)
        /\ Changing(r) <=> InLog(u) \/ Queued(ou)
        /\ Leaving(r) <=> InLog(d) \/ Queued(od)
    BY <2>1, <2>2 DEF Arriving, Changing, Leaving
  <2>6. /\ Arriving(r)' <=> InLog(i)' \/ Queued(oc)'
        /\ Changing(r)' <=> InLog(u)' \/ Queued(ou)'
        /\ Leaving(r)' <=> InLog(d)' \/ Queued(od)'
    BY <2>4 DEF Arriving, Changing, Leaving, InLog, Queued
  <2>7. r # e.row \/ ~e.kept => SameNews(r)
    BY <1>1, <1>2, <1>3, <2>3, <2>5, <2>6 DEF SameNews
  <2>8. /\ Arriving(r)' => Arriving(r)
        /\ Leaving(r)' => Leaving(r)
        /\ e.action # "Delete" => (Leaving(r)' <=> Leaving(r))
    BY <1>2, <1>3, <2>3, <2>5, <2>6
  <2>9. r \notin misled =>
           /\ Before(log, i, d) /\ Before(messages, oc, od) /\ (Queued(od) => ~InLog(i))
           /\ Leaving(r) => table[r] = None
    BY <2>1, <2>2 DEF Sound, OrderInv
  <2>10. e = d /\ r \notin misled => table[r] = None /\ ~InLog(i)'
    BY <1>3, <2>5, <2>9
  <2>11. r \notin misled =>
            Before(log', i, d) /\ Before(messages', oc, od) /\ (Queued(od)' => ~InLog(i)')
    BY <1>2, <1>3, <2>9
  <2>12. /\ InLog(Insert(r))' <=> InLog(i)'
         /\ Queued(onCreate(r))' <=> Queued(oc)'
         /\ Queued(onDelete(r))' <=> Queued(od)'
         /\ Before(log, Insert(r), Delete(r))' <=> Before(log', i, d)
         /\ Before(messages, onCreate(r), onDelete(r))' <=> Before(messages', oc, od)
    BY <2>4 DEF InLog, Queued, Before
  <2>13. Queued(oc)' <=> Queued(onCreate(r))
    BY <1>2, <2>2
  <2> QED
    BY <1>1, <2>1, <2>7, <2>8, <2>9, <2>10, <2>11, <2>12, <2>13
<1>5. KeysInv'
  <2>1. ASSUME NEW n \in ToSet(log'), n.kept PROVE Known(n.row)'
    <3>1. InLog(n)
      BY <1>3, <2>1 DEF InLog
    <3> QED
      BY <1>1, <2>1, <3>1 DEF Sound, KeysInv, InLog, Known
  <2>2. onStart' = onStart
    BY DEF onStart
  <2> QED
    BY <1>1, <2>1, <2>2 DEF Sound, KeysInv, Known
<1>6. OrderInv'
  <2> SUFFICES ASSUME NEW r \in Row \ misled'
               PROVE  /\ Before(log, Insert(r), Delete(r))'
                      /\ Before(messages, onCreate(r), onDelete(r))'
                      /\ Queued(onDelete(r))' => ~InLog(Insert(r))'
                      /\ Leaving(r)' => table'[r] = None
    BY DEF OrderInv
  <2>1. r \in Row \ misled
    OBVIOUS
  <2> QED
    BY <1>4, <2>1
<1> QED
  BY <1>4, <1>5, <1>6

\* A row of which nothing changes, when the worker does nothing.
LEMMA SameDevice ==
    ASSUME TypeOK, ObjectsInv, UNCHANGED <<plugin, Devices, load>>,
           NEW d \in Device, Plain(d), DeviceInv(d), SameNews(d)
    PROVE  DeviceInv(d)'
<1>1. DictKept(d) /\ (Covers(d)' <=> Covers(d)) /\ (Building(d)' <=> Building(d))
  BY DEF DictKept, Covers, Building
<1>2. Building(d)' => Fresh(load.object, d)'
  BY <1>1 DEF DeviceInv, Fresh, SameNews
<1> QED
  BY <1>1, <1>2, DeviceKept

LEMMA SameValue ==
    ASSUME TypeOK, ObjectsInv, UNCHANGED <<Devices, load>>,
           NEW v \in Value, PlainValue(v), ValueInv(v), SameNews(v)
    PROVE  ValueInv(v)'
<1>1. \A k \in FindDevice(Owner[v])' :
         k \in FindDevice(Owner[v]) /\ Shadows(Devices[k].values, Devices'[k].values, v)
  BY SameShadows DEF FindDevice, Find
<1>2. load'.step = "values" /\ load'.device = Owner[v]
         => HoldsValue(load.object.values, load.todo, v)'
  <2>1. PICK values, todo : values = load.object.values /\ todo = load.todo
    OBVIOUS
  <2>2. load.step = "values" /\ load.device = Owner[v] => HoldsValue(values, todo, v)'
    BY <2>1, HoldsKept DEF ValueInv
  <2> QED
    BY <2>1, <2>2 DEF HoldsValue, Single, Find, Fresh
<1> QED
  BY <1>1, <1>2, ValueKept

LEMMA PublisherSound ==
    ASSUME TypeOK, Sound, DatabaseUpdate, ~dead'
    PROVE  Sound'
<1>0. PICK e : e = Head(log)
  OBVIOUS
<1>1. /\ log # << >> /\ log' = Tail(log) /\ e \in Entry /\ e.row \in Row
      /\ UNCHANGED <<table, plugin, Devices, load, keys>>
  BY <1>0, PublisherCases
<1>2. \/ /\ plugin # "unregistered"
         /\ \/ e.action = "Insert" /\ Forward(e, "onCreate")
            \/ e.action = "Update" /\ Forward(e, "onUpdate")
            \/ e.action = "Delete" /\ Forward(e, "onDelete")
      \/ /\ Drop(e)
         /\ e.row \in Device => \/ plugin = "unregistered"
                                \/ e.action = "Delete" /\ ~KnowsDevice(e.row)
         /\ e.row \in Value =>
               IF e.action = "Delete"
               THEN \/ plugin = "unregistered"
                    \/ load = Idle /\ Holders(e.row) = {}
               ELSE ~KnowsDevice(Owner[e.row])
  <2>1. ~Die
    BY DEF Die
  <2> QED
    BY <1>0, <2>1, PublisherCases
<1>3. ObjectsInv' /\ LoadInv' /\ misled \subseteq misled'
  <2>1. misled \subseteq misled'
    BY <1>2 DEF Forward, Drop
  <2>2. \A x : RowOf(x) => RowOf(x)'
    BY <1>1, <2>1 DEF RowOf, Known
  <2>3. \A x : ObjectOK(x) => ObjectOK(x)'
    BY <2>2 DEF ObjectOK
  <2>4. ObjectsInv'
    <3>1. ASSUME NEW k \in Key, Devices'[k] # None PROVE ObjectOK(Devices[k])'
      <4>1. PICK x : x = Devices[k]
        OBVIOUS
      <4>2. ObjectOK(x)'
        BY <1>1, <2>3, <3>1, <4>1 DEF Sound, ObjectsInv
      <4> QED
        BY <1>1, <4>1, <4>2 DEF ObjectOK, RowOf, Known
    <3>2. ASSUME load' # Idle, load'.step # "refresh" PROVE ObjectOK(load.object)'
      <4>1. PICK x : x = load.object
        OBVIOUS
      <4>2. ObjectOK(x)'
        BY <1>1, <2>3, <3>2, <4>1 DEF Sound, ObjectsInv, Idle
      <4> QED
        BY <1>1, <4>1, <4>2 DEF ObjectOK, RowOf, Known
    <3> QED
      BY <3>1, <3>2 DEF ObjectsInv
  <2>5. LoadInv'
    BY <1>1, <2>1 DEF Sound, LoadInv, Known
  <2> QED
    BY <2>1, <2>4, <2>5
<1>4. ASSUME NEW d \in Device, Plain(d), DeviceInv(d), SameNews(d) PROVE DeviceInv(d)'
  BY <1>1, <1>4, SameDevice DEF Sound
<1>5. ASSUME NEW v \in Value, PlainValue(v), ValueInv(v), SameNews(v) PROVE ValueInv(v)'
  BY <1>1, <1>5, SameValue DEF Sound
<1>6. CASE /\ plugin # "unregistered"
           /\ \/ e.action = "Insert" /\ Forward(e, "onCreate")
              \/ e.action = "Update" /\ Forward(e, "onUpdate")
              \/ e.action = "Delete" /\ Forward(e, "onDelete")
  <2>1. PICK on : /\ Forward(e, on)
                  /\ \/ on = "onCreate" /\ e.action = "Insert"
                     \/ on = "onUpdate" /\ e.action = "Update"
                     \/ on = "onDelete" /\ e.action = "Delete"
    BY <1>6
  <2>2. /\ KeysInv' /\ OrderInv'
        /\ \A n : Queued(n)' /\ n = onStart => Queued(n)
        /\ \A r \in Row \ misled' : SameNews(r)
    <3>1. CASE e.kept
      <4>1. \/ on = "onCreate" /\ e = Insert(e.row)
            \/ on = "onUpdate" /\ e = Update(e.row)
            \/ on = "onDelete" /\ e = Delete(e.row)
        BY <1>1, <2>1, <3>1, EntryFacts
      <4> QED
        BY <1>0, <2>1, <4>1, ForwardNews
    <3>2. CASE ~e.kept
      <4>1. on \in {"onCreate", "onUpdate", "onDelete"}
        BY <2>1
      <4> QED
        BY <1>0, <2>1, <3>2, <4>1, ForwardMisleads
    <3> QED
      BY <3>1, <3>2
  <2>3. StageInv'
    <3>1. Queued(onStart)' => Queued(onStart)
      <4>1. PICK n : n = onStart
        OBVIOUS
      <4>2. Queued(n)' => Queued(n)
        BY <2>2, <4>1
      <4> QED
        BY <4>1, <4>2 DEF Queued, onStart
    <3>2. \A i, j \in DOMAIN messages' : messages'[i] = onStart /\ messages'[j] = onStart => i = j
      <4> DEFINE m == [on |-> on, row |-> e.row]
      <4>1. m # onStart /\ m \in Message
        BY <1>1, <2>1, MessageFacts DEF Message, onStart
      <4>2. messages \in Seq(Message) /\ messages' = Append(messages, m)
            /\ \A i, j \in DOMAIN messages : messages[i] = onStart /\ messages[j] = onStart => i = j
        BY <2>1, TypeFacts DEF Forward, Sound, StageInv
      <4> HIDE DEF m
      <4>3. \A i \in DOMAIN messages' : messages'[i] = onStart =>
               i \in DOMAIN messages /\ messages[i] = onStart
        BY <4>1, <4>2, AppendProperties
      <4> QED
        BY <4>2, <4>3
    <3> QED
      BY <1>1, <1>6, <3>1, <3>2 DEF Sound, StageInv, onStart
  <2>4. ASSUME NEW d \in Device, Plain(d)', Plain(d), DeviceInv(d) PROVE DeviceInv(d)'
    <3>1. d \in Row \ misled'
      BY <2>4 DEF Plain, Row
    <3> QED
      BY <1>4, <2>2, <2>4, <3>1
  <2>6. ASSUME NEW v \in Value, PlainValue(v)', PlainValue(v), ValueInv(v) PROVE ValueInv(v)'
    <3>1. v \in Row \ misled'
      BY <2>6 DEF PlainValue, Row
    <3> QED
      BY <1>5, <2>2, <2>6, <3>1
  <2>5. RowsInv'
    BY <1>1, <1>3, <2>4, <2>6, RowsFollow DEF Sound
  <2> QED
    BY <1>3, <2>2, <2>3, <2>5 DEF Sound
<1>7. CASE /\ Drop(e)
           /\ e.row \in Device => \/ plugin = "unregistered"
                                  \/ e.action = "Delete" /\ ~KnowsDevice(e.row)
           /\ e.row \in Value =>
                 IF e.action = "Delete"
                 THEN \/ plugin = "unregistered"
                      \/ load = Idle /\ Holders(e.row) = {}
                 ELSE ~KnowsDevice(Owner[e.row])
  <2>1. /\ messages' = messages /\ misled \subseteq misled'
        /\ e.row \notin misled' => ~Matters(e)
    BY <1>7 DEF Drop
  <2>2. /\ KeysInv' /\ OrderInv'
        /\ \A r \in Row : r # e.row \/ ~e.kept => SameNews(r)
        /\ \A r \in Row :
             /\ Arriving(r)' => Arriving(r)
             /\ e.action # "Delete" => (Leaving(r)' <=> Leaving(r))
             /\ e = Delete(r) /\ r \notin misled => table[r] = None /\ ~InLog(Insert(r))'
        /\ \A r \in Row : Queued(onCreate(r))' <=> Queued(onCreate(r))
    BY <1>0, <2>1, DropNews
  <2>3. StageInv'
    BY <1>1, <2>1 DEF Sound, StageInv, Queued, onStart
  <2>4. plugin # "started" => load = Idle /\ \A d \in Device : FindDevice(d) = {}
    <3>1. \A d \in Device : (\A k \in Key : Devices[k] = None) => FindDevice(d) = {}
      BY DevicesConstants, NoneIsNoRow DEF FindDevice, Find
    <3> QED
      BY <3>1 DEF Sound, StageInv
  <2>5. ASSUME NEW r \in Row, plugin = "unregistered" PROVE ~Queued(onCreate(r))
    BY <2>5 DEF Sound, StageInv, Queued, ToSet
  \* The news of a deletion that is dropped leaves no other.
  <2>6. ASSUME NEW r \in Row \ misled, r = e.row, e.action = "Delete", e.kept,
               plugin = "unregistered" \/ ~Loading(r)
        PROVE  table[r] = None /\ ~Arriving(r)'
    <3>1. e = Delete(r)
      BY <1>1, <2>6, EntryFacts
    <3>2. ~Queued(onCreate(r))
      BY <2>5, <2>6 DEF Loading, Queued, onCreate
    <3> QED
      BY <2>2, <3>1, <3>2 DEF Arriving
  <2>7. ASSUME NEW d \in Device, Plain(d)', Plain(d), DeviceInv(d) PROVE DeviceInv(d)'
    <3>0. d \in Row \ misled
      BY <2>7 DEF Plain, Row
    <3>1. CASE d # e.row \/ ~e.kept
      BY <1>4, <2>2, <2>7, <3>1 DEF Row
    <3>2. CASE d = e.row /\ e.kept
      <4>1. ~Matters(e)
        BY <2>1, <2>7, <3>2 DEF Plain
      <4>2. FindDevice(d) = {} /\ ~Building(d)
        <5>1. CASE plugin = "unregistered"
          BY <2>4, <5>1 DEF Building
        <5>2. CASE e.action = "Delete" /\ ~KnowsDevice(d)
          <6>1. FindDevice(d) = {}
            BY <2>4, <5>2 DEF KnowsDevice
          <6>2. ~Loading(d)
            BY <3>2, <4>1, <5>2 DEF Matters
          <6> QED
            BY <6>1, <6>2 DEF Loading, Building
        <5> QED
          BY <1>7, <3>2, <5>1, <5>2
      <4>3. FindDevice(d)' = {} /\ ~Building(d)' /\ (Covers(d)' <=> Covers(d))
        BY <1>1, <4>2 DEF FindDevice, Find, Building, Covers
      <4>4. Single(Devices, d)'
        BY <4>3 DEF Single, FindDevice
      <4>5. table[d] = None => (Arriving(d)' \/ Covers(d) => Leaving(d)')
        <5>1. CASE e.action = "Delete"
          <6>1. plugin = "unregistered" \/ ~Loading(d)
            BY <3>2, <4>1, <5>1 DEF Matters
          <6>2. ~Arriving(d)'
            BY <2>6, <3>0, <3>2, <5>1, <6>1
          <6>3. ~Covers(d)
            BY <2>4, <6>1 DEF Loading, Covers
          <6> QED
            BY <6>2, <6>3
        <5>2. CASE e.action # "Delete"
          BY <2>2, <2>7, <5>2 DEF DeviceInv, Row
        <5> QED
          BY <5>1, <5>2
      <4>6. table[d] # None /\ plugin = "started" => FALSE
        <5>1. e.action = "Delete" => table[d] = None
          BY <1>1, <2>2, <3>0, <3>2, EntryFacts
        <5> QED
          BY <1>7, <3>2, <5>1
      <4> QED
        BY <1>1, <4>3, <4>4, <4>5, <4>6 DEF DeviceInv
    <3> QED
      BY <3>1, <3>2
  <2>8. ASSUME NEW v \in Value, PlainValue(v)', PlainValue(v), ValueInv(v) PROVE ValueInv(v)'
    <3>0. v \in Row \ misled /\ Owner[v] \in Device /\ v \notin Device
      BY <2>8, DevicesConstants DEF PlainValue, Row
    <3>1. CASE v # e.row \/ ~e.kept
      BY <1>5, <2>2, <2>8, <3>0, <3>1
    <3>2. CASE v = e.row /\ e.kept
      <4>1. ~Matters(e)
        BY <2>1, <2>8, <3>2 DEF PlainValue
      <4>2. CASE e.action = "Delete"
        <5>1. plugin = "unregistered" \/ ~Loading(v)
          BY <3>2, <4>1, <4>2 DEF Matters
        <5>2. table[v] = None /\ ~Arriving(v)'
          BY <2>6, <3>0, <3>2, <4>2, <5>1
        <5>3. load = Idle
          BY <1>7, <2>4, <3>2, <4>2
        <5>5. ASSUME NEW k \in FindDevice(Owner[v])' PROVE HoldsValue(Devices[k].values, {}, v)'
          <6>1. k \in FindDevice(Owner[v])
            BY <1>1 DEF FindDevice, Find
          <6>2. Holders(v) = {}
            BY <1>7, <2>4, <3>0, <3>2, <4>2, <6>1
          <6>3. k \in Key /\ Devices[k] # None
            BY <3>0, <6>1, FoundObject DEF Sound
          <6>4. FindValue(k, v) = {}
            BY <6>2, <6>3 DEF Holders
          <6>5. PICK values : values = Devices[k].values
            OBVIOUS
          <6>6. Find(values, v) = {}
            BY <6>4, <6>5 DEF FindValue
          <6>7. HoldsValue(values, {}, v)'
            BY <1>1, <5>2, <6>6 DEF HoldsValue, Single, Find
          <6> QED
            BY <1>1, <6>5, <6>7 DEF HoldsValue, Single, Find, Fresh
        <5>6. load'.step # "values"
          BY <1>1, <5>3, IdleIsNoLoad
        <5> QED
          BY <5>2, <5>5, <5>6 DEF ValueInv
      <4>3. CASE e.action # "Delete"
        <5>1. FindDevice(Owner[v]) = {}
          BY <1>7, <2>4, <3>0, <3>2, <4>3 DEF KnowsDevice
        <5>2. FindDevice(Owner[v])' = {}
          BY <1>1, <5>1 DEF FindDevice, Find
        <5>3. (Leaving(v)' <=> Leaving(v)) /\ (Arriving(v)' => Arriving(v))
          BY <2>2, <3>0, <4>3
        <5>4. table'[v] = None /\ Arriving(v)' => Leaving(v)'
          BY <1>1, <2>8, <5>3 DEF ValueInv
        <5>5. ASSUME load'.step = "values", load'.device = Owner[v]
              PROVE  HoldsValue(load.object.values, load.todo, v)'
          <6>1. PICK values, todo : values = load.object.values /\ todo = load.todo
            OBVIOUS
          <6>2. v \in todo
            BY <1>1, <3>2, <4>1, <4>3, <5>5, <6>1 DEF Matters, WentPast
          <6>3. HoldsValue(values, todo, v)
            BY <1>1, <2>8, <5>5, <6>1 DEF ValueInv
          <6>4. Find(values, v) = {} /\ (table[v] = None => Leaving(v)')
            BY <5>3, <6>2, <6>3 DEF HoldsValue
          <6>5. HoldsValue(values, todo, v)'
            BY <1>1, <6>2, <6>4 DEF HoldsValue, Single, Find
          <6> QED
            BY <1>1, <6>1, <6>5 DEF HoldsValue, Single, Find, Fresh
        <5> QED
          BY <5>2, <5>4, <5>5 DEF ValueInv
      <4> QED
        BY <4>2, <4>3
    <3> QED
      BY <3>1, <3>2
  <2>9. RowsInv'
    BY <1>1, <2>1, <2>7, <2>8, RowsFollow DEF Sound
  <2> QED
    BY <1>3, <2>2, <2>3, <2>9 DEF Sound
<1> QED
  BY <1>2, <1>6, <1>7

-----------------------------------------------------------------------------
(* The invariant holds.                                                    *)

LEMMA InitSound ==
    ASSUME Init
    PROVE  MirrorInv
<1>1. /\ log = << >> /\ messages = << >> /\ load = Idle /\ misled = {}
      /\ Devices = [k \in Key |-> None] /\ plugin = "unregistered"
      /\ dead = FALSE /\ writes = 0
      /\ keys = [r \in Row |-> IF table[r] = None THEN {} ELSE {table[r].key}]
  BY DEF Init
<1>2. table \in [Row -> RowData \cup {None}]
  <2>1. [key : InternalID, data : {1}, active : BOOLEAN] \subseteq RowData
    BY DEF RowData, Content
  <2> QED
    BY <2>1 DEF Init
<1>3. TypeInv
  <2>1. keys \in [Row -> SUBSET InternalID]
    BY <1>1, <1>2, NoneIsNoRow
  <2>2. log \in Seq(Entry) /\ messages \in Seq(Message)
    BY <1>1
  <2>3. writes \in 0 .. MaxWrites
    <3>1. MaxWrites \in Nat
      BY DevicesConstants
    <3> QED
      BY <1>1, <3>1
  <2>4. TypeOK
    BY <1>1, <1>2, <2>1, <2>2, <2>3 DEF TypeOK
  <2> QED
    BY <1>1, <2>4, IdleIsNoLoad DEF TypeInv
<1>4. \A n : ~InLog(n) /\ ~Queued(n)
  BY <1>1 DEF InLog, Queued, ToSet
<1>5. KeysInv
  BY <1>1, <1>4 DEF KeysInv, InLog, Queued
<1>6. ObjectsInv /\ LoadInv
  BY <1>1 DEF ObjectsInv, LoadInv
<1>7. StageInv
  BY <1>1, <1>4 DEF StageInv
<1>8. OrderInv
  BY <1>1, <1>4 DEF OrderInv, Before, Leaving
<1>9. \A d \in Device : FindDevice(d) = {}
  BY <1>1, DevicesConstants, NoneIsNoRow DEF FindDevice, Find
<1>10. ASSUME NEW d \in Device PROVE DeviceInv(d)
  BY <1>1, <1>4, <1>9 DEF DeviceInv, Single, FindDevice, Covers, Building, Arriving
<1>11. ASSUME NEW v \in Value PROVE ValueInv(v)
  BY <1>1, <1>4, <1>9, DevicesConstants, IdleIsNoLoad DEF ValueInv, Arriving
<1>12. RowsInv
  BY <1>10, <1>11 DEF RowsInv
<1> QED
  BY <1>3, <1>5, <1>6, <1>7, <1>8, <1>12 DEF MirrorInv, Sound

LEMMA StepTyped ==
    ASSUME MirrorInv, Next
    PROVE  TypeInv'
<1>1. TypeOK /\ TypeInv /\ (~dead => KeysInv)
  BY DEF MirrorInv, TypeInv, Sound
<1>2. ASSUME TypeOK', UNCHANGED load PROVE TypeInv'
  BY <1>1, <1>2 DEF TypeInv
<1>3. ASSUME TypeOK', load'.step # "inactive" PROVE TypeInv'
  BY <1>3 DEF TypeInv
<1>4. CASE Writer
  <2>1. ~dead
    BY <1>4 DEF Writer
  <2> QED
    BY <1>1, <1>2, <1>4, <2>1, WriterWrites DEF workerVars
<1>5. CASE DatabaseUpdate
  BY <1>1, <1>2, <1>5, PublisherTyped DEF DatabaseUpdate, workerVars
<1>6. CASE Register
  BY <1>1, <1>2, <1>6, StageTyped DEF Register
<1>7. CASE Initialise
  BY <1>1, <1>2, <1>7, StageTyped DEF Initialise
<1>8. CASE WithoutInterface
  BY <1>1, <1>2, <1>8, StageTyped DEF WithoutInterface, workerVars
<1>9. CASE OnStart
  BY <1>1, <1>3, <1>9, OnStartLoads, IdleIsNoLoad
<1>10. CASE Refresh
  BY <1>1, <1>10, RefreshLoads DEF TypeInv
<1>11. CASE WriteInactive
  BY <1>1, <1>11, InactiveTyped
<1>12. CASE SelectValues
  BY <1>1, <1>3, <1>12, SelectLoads
<1>13. CASE AddValue
  BY <1>1, <1>3, <1>13, AddValueLoads
<1>14. CASE AddDevice
  BY <1>1, <1>3, <1>14, AddDeviceLoads, IdleIsNoLoad
<1>15. ASSUME NEW d \in Device, OnCreateDevice(d) PROVE TypeInv'
  BY <1>1, <1>3, <1>15, CreateDeviceLoads, IdleIsNoLoad
<1>16. ASSUME NEW d \in Device, OnUpdateDevice(d) PROVE TypeInv'
  BY <1>1, <1>2, <1>16, UpdateDeviceTyped
<1>17. ASSUME NEW d \in Device, OnDeleteDevice(d) PROVE TypeInv'
  BY <1>1, <1>2, <1>17, DeleteDeviceTyped
<1>18. ASSUME NEW v \in Value, OnCreateValue(v) PROVE TypeInv'
  BY <1>1, <1>2, <1>18, CreateValueTyped
<1>19. ASSUME NEW v \in Value, OnUpdateValue(v) PROVE TypeInv'
  BY <1>1, <1>2, <1>19, UpdateValueTyped
<1>20. ASSUME NEW v \in Value, OnDeleteValue(v) PROVE TypeInv'
  BY <1>1, <1>2, <1>20, DeleteValueTyped
<1> QED
  BY <1>4, <1>5, <1>6, <1>7, <1>8, <1>9, <1>10, <1>11, <1>12, <1>13, <1>14, <1>15,
     <1>16, <1>17, <1>18, <1>19, <1>20 DEF Next, Worker

LEMMA StepSound ==
    ASSUME MirrorInv, Next, ~dead'
    PROVE  Sound'
<1>1. ~dead
  BY DEF Next, Writer, DatabaseUpdate,
         Register, Worker, Initialise, OnStart, WithoutInterface, Refresh, WriteInactive,
         SelectValues, AddValue, AddDevice, OnCreateDevice, OnUpdateDevice, OnDeleteDevice,
         OnCreateValue, OnUpdateValue, OnDeleteValue, Handle, Take
<1>2. TypeOK /\ TypeInv /\ Sound
  BY <1>1 DEF MirrorInv, TypeInv
<1>3. ~WithoutInterface
  BY DEF WithoutInterface
<1>4. CASE Writer
  BY <1>2, <1>4, WriterSound
<1>5. CASE DatabaseUpdate
  BY <1>2, <1>5, PublisherSound
<1>6. CASE Register
  BY <1>2, <1>6, RegisterSound
<1>7. CASE Initialise
  BY <1>2, <1>7, InitialiseSound
<1>8. CASE OnStart
  BY <1>2, <1>8, OnStartSound
<1>9. CASE Refresh
  BY <1>2, <1>9, RefreshSound
<1>10. CASE WriteInactive
  BY <1>2, <1>10, InactiveSound
<1>11. CASE SelectValues
  BY <1>2, <1>11, SelectSound
<1>12. CASE AddValue
  BY <1>2, <1>12, AddValueSound
<1>13. CASE AddDevice
  BY <1>2, <1>13, AddDeviceSound
<1>14. CASE \E d \in Device :
               OnCreateDevice(d) \/ OnUpdateDevice(d) \/ OnDeleteDevice(d)
  BY <1>2, <1>14, CreateDeviceSound, UpdateDeviceSound, DeleteDeviceSound
<1>15. CASE \E v \in Value :
               OnCreateValue(v) \/ OnUpdateValue(v) \/ OnDeleteValue(v)
  BY <1>2, <1>15, CreateValueSound, UpdateValueSound, DeleteValueSound
<1> QED
  BY <1>3, <1>4, <1>5, <1>6, <1>7, <1>8, <1>9, <1>10, <1>11, <1>12, <1>13, <1>14, <1>15
     DEF Next, Worker

LEMMA StutterSound ==
    ASSUME MirrorInv, UNCHANGED vars
    PROVE  MirrorInv'
<1>1. UNCHANGED <<table, log, plugin, Devices, messages, load, dead, writes, keys, misled>>
  BY DEF vars
<1>2. TypeOK /\ TypeInv'
  BY <1>1 DEF MirrorInv, TypeInv, TypeOK
<1>3. ASSUME Sound PROVE Sound'
  <2>1. KeysInv' /\ OrderInv' /\ \A r : SameNews(r)
    BY <1>1, <1>3, SilentNews DEF Sound
  <2>2. ObjectsInv' /\ LoadInv' /\ StageInv'
    BY <1>1, <1>3 DEF Sound, ObjectsInv, ObjectOK, RowOf, Known, LoadInv, StageInv, Queued, onStart
  <2>3. ASSUME NEW d \in Device, Plain(d), DeviceInv(d) PROVE DeviceInv(d)'
    <3>1. SameNews(d) /\ ObjectsInv
      BY <1>3, <2>1 DEF Sound
    <3> QED
      BY <1>1, <1>2, <2>3, <3>1, SameDevice
  <2>4. ASSUME NEW v \in Value, PlainValue(v), ValueInv(v) PROVE ValueInv(v)'
    <3>1. SameNews(v) /\ ObjectsInv
      BY <1>3, <2>1 DEF Sound
    <3> QED
      BY <1>1, <1>2, <2>4, <3>1, SameValue
  <2>5. RowsInv'
    BY <1>1, <1>3, <2>3, <2>4, RowsKept DEF Sound
  <2> QED
    BY <2>1, <2>2, <2>5 DEF Sound
<1> QED
  BY <1>1, <1>2, <1>3 DEF MirrorInv

\* What the invariant says once all news is through.
LEMMA QuietMirrors ==
    ASSUME MirrorInv
    PROVE  MirrorCurrent
<1> SUFFICES ASSUME Quiet, ~dead PROVE Current
  BY DEF MirrorCurrent
<1>1. Sound /\ plugin = "started" /\ load = Idle
  BY DEF MirrorInv, Quiet
<1>2. \A r : ~Arriving(r) /\ ~Changing(r) /\ ~Leaving(r)
  <2>1. ToSet(log) = {} /\ ToSet(messages) = {}
    BY DEF Quiet, ToSet
  <2> QED
    BY <2>1 DEF Arriving, Changing, Leaving, InLog, Queued
<1>3. \A d \in Device : ~Covers(d)
  BY <1>1 DEF Covers
<1>4. ASSUME NEW d \in Device, Plain(d) PROVE Mirrors(Devices, d)
  <2>1. DeviceInv(d)
    BY <1>1, <1>4 DEF Sound, RowsInv
  <2>2. CASE table[d] = None
    BY <1>2, <2>1, <2>2 DEF DeviceInv, Mirrors, FindDevice
  <2>3. CASE table[d] # None
    <3>1. PICK k \in FindDevice(d) : TRUE
      BY <1>1, <1>2, <1>3, <2>1, <2>3 DEF DeviceInv
    <3>2. Find(Devices, d) = {k} /\ k \in Key
      BY <2>1, <3>1 DEF DeviceInv, Single, FindDevice, Find
    <3>3. Devices[k].row = table[d]
      BY <1>2, <2>1, <2>3, <3>1 DEF DeviceInv, Fresh
    <3> QED
      BY <2>3, <3>2, <3>3 DEF Mirrors
  <2> QED
    BY <2>2, <2>3
<1>5. ASSUME NEW v \in Value, PlainValue(v), NEW k \in FindDevice(Owner[v])
      PROVE  Mirrors(Devices[k].values, v)
  <2>1. PICK values : values = Devices[k].values
    OBVIOUS
  <2> SUFFICES Mirrors(values, v)
    BY <2>1
  <2>2. HoldsValue(values, {}, v)
    BY <1>1, <1>5, <2>1 DEF Sound, RowsInv, ValueInv
  <2>3. CASE table[v] = None
    BY <1>2, <2>2, <2>3 DEF HoldsValue, Mirrors
  <2>4. CASE table[v] # None
    <3>1. PICK j \in Find(values, v) : TRUE
      BY <1>2, <2>2, <2>4 DEF HoldsValue
    <3>2. Find(values, v) = {j} /\ j \in Key
      BY <2>2, <3>1 DEF HoldsValue, Single, Find
    <3>3. values[j].row = table[v]
      BY <1>2, <2>2, <2>4, <3>1 DEF HoldsValue, Fresh
    <3> QED
      BY <2>4, <3>2, <3>3 DEF Mirrors
  <2> QED
    BY <2>3, <2>4
<1> QED
  BY <1>4, <1>5 DEF Current

-----------------------------------------------------------------------------
(* The theorems.                                                           *)

\* The invariant of the proof holds: as long as the process lives, the news of
\* every plain row that the dictionaries do not have yet is in the publisher's
\* queue, in the plugin's queue, or ahead of the load in progress
\* (CPluginSystem::DatabaseUpdate, the callbacks, CDevice_init).
THEOREM NewsIsOnItsWay == Spec => []MirrorInv
<1>1. Init => MirrorInv
  BY InitSound
<1>2. MirrorInv /\ [Next]_vars => MirrorInv'
  <2> SUFFICES ASSUME MirrorInv, [Next]_vars PROVE MirrorInv'
    OBVIOUS
  <2>1. CASE Next
    BY <2>1, StepTyped, StepSound DEF MirrorInv
  <2>2. CASE UNCHANGED vars
    BY <2>2, StutterSound
  <2> QED
    BY <2>1, <2>2
<1> QED
  BY <1>1, <1>2, PTL DEF Spec

\* Every variable has its type, whether or not the process lives: in
\* particular, a Device object holds values of its own device only
\* (CDevice::AddValueToDict and the value callbacks).
THEOREM DevicesTyped == Spec => []TypeOK
<1>1. MirrorInv => TypeOK
  BY DEF MirrorInv, TypeInv
<1> QED
  BY <1>1, NewsIsOnItsWay, PTL

\* When the queues are empty and nothing is being loaded, the dictionaries show
\* every plain device and value as it is in the database, and none that is gone
\* (MirrorCurrent): no order of the writers' statements, the publisher's look-ups
\* and the worker's loads loses a change, but for the rows in misled.
THEOREM DictionariesFollow == Spec => []MirrorCurrent
<1>1. MirrorInv => MirrorCurrent
  BY QuietMirrors
<1> QED
  BY <1>1, NewsIsOnItsWay, PTL

=============================================================================
