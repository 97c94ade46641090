------------------------- MODULE DeviceManagerProofs -------------------------
(***************************************************************************)
(* Proofs about the device manager, for arrays of any size and any names   *)
(* and handlers: ids are not used twice, and the array with its shifting   *)
(* implements a registry that is indexed by ids.                           *)
(*                                                                         *)
(* Both rest on one invariant: the devices are in the array in the order   *)
(* of their ids.                                                           *)
(***************************************************************************)
EXTENDS DeviceManager, FiniteSetTheorems, TLAPS

IdsAscend ==
    /\ \A i, j \in Slots : i < j => devices[i].device_id < devices[j].device_id
    /\ \A i \in Slots : devices[i].device_id \in 1 .. (next_device_id - 1)

DeviceInv == TypeOK /\ IdsAscend

-----------------------------------------------------------------------------
LEMMA SlotsInArray ==
    TypeOK => /\ Slots \subseteq Array /\ Slots \subseteq Int
              /\ device_count \in Nat /\ next_device_id \in Nat
  <1> SUFFICES ASSUME TypeOK
               PROVE  /\ Slots \subseteq Array /\ Slots \subseteq Int
                      /\ device_count \in Nat /\ next_device_id \in Nat
    OBVIOUS
  <1>1. device_count \in 0 .. MAX_DEVICES /\ next_device_id \in 1 .. (MaxDeviceId + 1)
    BY DEF TypeOK
  <1> QED
    BY <1>1, DeviceAssumption DEF Slots, Array

LEMMA InvInitially == Init => DeviceInv
  <1> SUFFICES ASSUME Init PROVE DeviceInv
    OBVIOUS
  <1>1. devices \in [Array -> device_t]
    BY DEF Init, device_t
  <1>2. device_count = 0 /\ next_device_id = 1
    BY DEF Init
  <1>3. TypeOK
    BY <1>1, <1>2, DeviceAssumption DEF TypeOK
  <1>4. Slots = {}
    BY <1>2 DEF Slots
  <1> QED
    BY <1>3, <1>4 DEF DeviceInv, IdsAscend

(* At most one slot has an id. *)
LEMMA IdsDiffer ==
    ASSUME DeviceInv, NEW i \in Slots, NEW j \in Slots,
           devices[i].device_id = devices[j].device_id
    PROVE  i = j
  <1>1. i \in Int /\ j \in Int /\ devices[i].device_id \in Int
    BY SlotsInArray DEF DeviceInv, IdsAscend
  <1> QED
    BY <1>1 DEF DeviceInv, IdsAscend

-----------------------------------------------------------------------------
(* What each operation makes of the array. *)
LEMMA Registering ==
    ASSUME DeviceInv, NEW name \in Names, device_register(name)
    PROVE  /\ DeviceInv'
           /\ Slots' = Slots \cup {device_count} /\ device_count \notin Slots
           /\ \A i \in Slots : devices'[i] = devices[i]
           /\ devices'[device_count] =
                [device_id |-> next_device_id, name |-> name, status |-> 0,
                 initialized |-> 0, handlers |-> devices[device_count].handlers]
           /\ devices[device_count].handlers \in HandlerSets \cup {NoHandlers}
  <1> DEFINE n == device_count
             new == [device_id |-> next_device_id, name |-> name, status |-> 0,
                     initialized |-> 0, handlers |-> devices[n].handlers]
  <1>1. /\ n \in Array /\ n \in Nat /\ next_device_id \in Nat /\ n < MAX_DEVICES
        /\ Slots = 0 .. (n - 1) /\ Slots \subseteq Array
        /\ devices \in [Array -> device_t]
        /\ devices' = [devices EXCEPT ![n] = new]
        /\ n' = n + 1 /\ next_device_id' = next_device_id + 1
        /\ next_device_id \in 1 .. MaxDeviceId
    BY DeviceAssumption, SlotsInArray
       DEF DeviceInv, TypeOK, device_register, NewId, Slots, Array
  <1>2. devices[n].handlers \in HandlerSets \cup {NoHandlers}
    BY <1>1 DEF device_t
  <1>3. new \in device_t
    BY <1>1, <1>2 DEF device_t
  <1> HIDE DEF new
  <1>4. /\ devices'[n] = new /\ n \notin Slots
        /\ \A i \in Slots : devices'[i] = devices[i]
    BY <1>1
  <1>5. Slots' = Slots \cup {n}
    BY <1>1 DEF Slots
  <1>6. TypeOK'
    BY <1>1, <1>3, DeviceAssumption DEF TypeOK, Array
  <1>7. IdsAscend'
    <2>1. new.device_id = next_device_id
      BY DEF new
    <2>2. \A i \in Slots : i \in Int /\ i < n /\ devices[i].device_id \in 1 .. (next_device_id - 1)
      BY <1>1 DEF DeviceInv, IdsAscend
    <2> QED
      BY <1>1, <1>4, <1>5, <2>1, <2>2 DEF DeviceInv, IdsAscend
  <1> QED
    BY <1>2, <1>4, <1>5, <1>6, <1>7 DEF DeviceInv, new

LEMMA Unregistering ==
    ASSUME DeviceInv, NEW id, device_unregister(id)
    PROVE  /\ DeviceInv'
           /\ \E i \in Slots :
                /\ devices[i].device_id = id
                /\ Slots' = Slots \ {device_count - 1}
                /\ \A j \in Slots' : devices'[j] = devices[IF i <= j THEN j + 1 ELSE j]
  <1> DEFINE n == device_count
  <1>1. PICK i \in Slots : Find(id, i) /\ devices' = Shifted(i)
    BY DEF device_unregister
  <1>2. /\ n \in Nat /\ next_device_id \in Nat
        /\ Slots = 0 .. (n - 1) /\ Slots \subseteq Array /\ i \in 0 .. (n - 1)
        /\ devices \in [Array -> device_t]
        /\ n' = n - 1 /\ next_device_id' = next_device_id
        /\ devices[i].device_id = id
    BY <1>1, SlotsInArray DEF DeviceInv, TypeOK, device_unregister, Slots, Find
  <1>3. Slots' = 0 .. (n - 2) /\ Slots' = Slots \ {n - 1}
    BY <1>2 DEF Slots
  <1>4. \A j \in Array : devices'[j] = IF i <= j /\ j < n - 1 THEN devices[j + 1] ELSE devices[j]
    BY <1>1 DEF Shifted
  <1>5. \A j \in Slots' : /\ j \in Int /\ j < n - 1 /\ j \in Slots /\ j + 1 \in Slots
                          /\ devices'[j] = devices[IF i <= j THEN j + 1 ELSE j]
    BY <1>2, <1>3, <1>4
  <1>6. TypeOK'
    <2>1. \A j \in Array : j \in Int /\ (j < n - 1 /\ i <= j => j + 1 \in Array)
      BY <1>2, DeviceAssumption DEF Array, DeviceInv, TypeOK
    <2>2. devices' \in [Array -> device_t]
      BY <1>1, <1>2, <2>1 DEF Shifted
    <2> QED
      BY <1>2, <2>2, DeviceAssumption DEF DeviceInv, TypeOK
  <1>7. IdsAscend'
    <2> DEFINE from(j) == IF i <= j THEN j + 1 ELSE j
    <2>1. \A j \in Slots' : from(j) \in Slots /\ devices'[j] = devices[from(j)]
      BY <1>5
    <2>2. \A j, k \in Slots' : j < k => from(j) < from(k)
      BY <1>2, <1>5
    <2> HIDE DEF from
    <2> QED
      BY <1>2, <2>1, <2>2 DEF DeviceInv, IdsAscend
  <1> QED
    BY <1>2, <1>3, <1>5, <1>6, <1>7 DEF DeviceInv

(* A change of one device that leaves it its id. *)
LEMMA Updating ==
    ASSUME DeviceInv, NEW id, NEW i \in Slots, NEW device \in device_t,
           Update(id, i, device), device.device_id = devices[i].device_id
    PROVE  /\ DeviceInv'
           /\ devices[i].device_id = id
           /\ Slots' = Slots
           /\ devices'[i] = device
           /\ \A j \in Slots : j # i => devices'[j] = devices[j]
  <1>1. /\ devices' = [devices EXCEPT ![i] = device]
        /\ devices[i].device_id = id
        /\ UNCHANGED <<device_count, next_device_id>>
    BY DEF Update, Find
  <1>2. Slots' = Slots
    BY <1>1 DEF Slots
  <1>3. i \in Array /\ Slots \subseteq Array /\ devices \in [Array -> device_t]
    BY SlotsInArray DEF DeviceInv, TypeOK
  <1>4. /\ devices'[i] = device
        /\ \A j \in Slots : j # i => devices'[j] = devices[j]
        /\ devices' \in [Array -> device_t]
    BY <1>1, <1>3
  <1>5. \A j \in Slots : devices'[j].device_id = devices[j].device_id
    BY <1>4
  <1>6. TypeOK' /\ IdsAscend'
    BY <1>1, <1>2, <1>4, <1>5 DEF DeviceInv, TypeOK, IdsAscend
  <1> QED
    BY <1>1, <1>2, <1>4, <1>6 DEF DeviceInv

(* The operations that change one device: what they write is a device.     *)
LEMMA UpdatesTyped ==
    ASSUME DeviceInv, NEW i \in Slots
    PROVE  LET d == devices[i]
           IN  /\ d \in device_t
               /\ LET e == [d EXCEPT !.initialized = 1, !.status = 1]
                  IN  e \in device_t /\ e.device_id = d.device_id
               /\ \A s \in {0, 1} : LET e == [d EXCEPT !.status = s]
                                    IN  e \in device_t /\ e.device_id = d.device_id
               /\ \A h \in HandlerSets : LET e == [d EXCEPT !.handlers = h]
                                         IN  e \in device_t /\ e.device_id = d.device_id
  <1>1. devices[i] \in device_t
    BY SlotsInArray DEF DeviceInv, TypeOK
  <1> QED
    BY <1>1 DEF device_t

(* Every step registers, unregisters, changes one device, or leaves the    *)
(* array as it is.                                                         *)
Changes(id, i, device) ==
    /\ device \in device_t /\ device.device_id = devices[i].device_id
    /\ Update(id, i, device)

LEMMA KindsOfSteps ==
    ASSUME DeviceInv, Next
    PROVE  \/ \E name \in Names : device_register(name)
           \/ \E id \in Ids : device_unregister(id)
           \/ \E id \in Ids, i \in Slots, device \in device_t : Changes(id, i, device)
           \/ UNCHANGED <<devices, device_count, next_device_id>>
  <1>1. ASSUME NEW id \in Ids,
               \/ device_initialize(id)
               \/ device_enable(id)
               \/ device_disable(id)
               \/ \E handlers \in HandlerSets : device_set_handler(id, handlers)
        PROVE  \E i \in Slots, device \in device_t : Changes(id, i, device)
    <2>1. CASE device_initialize(id)
      BY <2>1, UpdatesTyped DEF device_initialize, Changes
    <2>2. CASE device_enable(id)
      BY <2>2, UpdatesTyped DEF device_enable, Changes
    <2>3. CASE device_disable(id)
      BY <2>3, UpdatesTyped DEF device_disable, Changes
    <2>4. ASSUME NEW handlers \in HandlerSets, device_set_handler(id, handlers)
          PROVE  \E i \in Slots, device \in device_t : Changes(id, i, device)
      BY <2>4, UpdatesTyped DEF device_set_handler, Changes
    <2> QED
      BY <1>1, <2>1, <2>2, <2>3, <2>4
  <1> QED
    BY <1>1 DEF Next, device_call, find_device

LEMMA InvKept == DeviceInv /\ [Next]_vars => DeviceInv'
  <1> SUFFICES ASSUME DeviceInv, [Next]_vars PROVE DeviceInv'
    OBVIOUS
  <1>1. CASE UNCHANGED <<devices, device_count, next_device_id>>
    BY <1>1 DEF DeviceInv, TypeOK, IdsAscend, Slots
  <1>2. ASSUME NEW name \in Names, device_register(name) PROVE DeviceInv'
    BY <1>2, Registering
  <1>3. ASSUME NEW id \in Ids, device_unregister(id) PROVE DeviceInv'
    BY <1>3, Unregistering
  <1>4. ASSUME NEW id \in Ids, NEW i \in Slots, NEW device \in device_t,
               Changes(id, i, device)
        PROVE  DeviceInv'
    BY <1>4, Updating DEF Changes
  <1> QED
    BY <1>1, <1>2, <1>3, <1>4, KindsOfSteps DEF vars

(* The array and the counters have their types, and the array holds the    *)
(* devices in the order of their ids, through every shift                  *)
(* (devices.c:device_unregister): a search that stops at the first match   *)
(* misses nothing.                                                         *)
THEOREM DevicesInOrder == Spec => [](TypeOK /\ IdsAscend)
  BY InvInitially, InvKept, PTL DEF Spec, DeviceInv

(* An id that no device has any more is never given to another device.     *)
THEOREM IdsAreNotReused == Spec => UnregisteredStaysUnknown
  <1> DEFINE Gone == \A id \in 1 .. (next_device_id - 1) : ~Known(id) => ~Known(id)'
  <1>1. DeviceInv /\ [Next]_vars => Gone
    <2> SUFFICES ASSUME DeviceInv, [Next]_vars,
                        NEW id \in 1 .. (next_device_id - 1), Known(id)'
                 PROVE  Known(id)
      OBVIOUS
    <2>0. PICK j \in Slots' : devices'[j].device_id = id
      BY DEF Known
    <2>1. CASE UNCHANGED <<devices, device_count, next_device_id>>
      BY <2>0, <2>1 DEF Known, Slots
    <2>2. ASSUME NEW name \in Names, device_register(name) PROVE Known(id)
      <3>1. j # device_count
        <4>1. next_device_id \in Nat
          BY SlotsInArray DEF DeviceInv
        <4>2. id # next_device_id
          BY <4>1
        <4>3. devices'[device_count].device_id = next_device_id
          <5>1. devices'[device_count] =
                  [device_id |-> next_device_id, name |-> name, status |-> 0,
                   initialized |-> 0, handlers |-> devices[device_count].handlers]
            BY <2>2, Registering
          <5> QED
            BY <5>1
        <4> QED
          BY <2>0, <4>2, <4>3
      <3> QED
        BY <2>0, <2>2, <3>1, Registering DEF Known
    <2>3. ASSUME NEW other \in Ids, device_unregister(other) PROVE Known(id)
      <3>1. PICK i \in Slots :
                /\ Slots' = Slots \ {device_count - 1}
                /\ devices'[j] = devices[IF i <= j THEN j + 1 ELSE j]
        BY <2>0, <2>3, Unregistering
      <3>2. j \in Slots /\ j # device_count - 1
        BY <2>0, <3>1
      <3>3. j + 1 \in Slots
        <4>1. device_count \in Nat
          BY SlotsInArray DEF DeviceInv
        <4> QED
          BY <3>2, <4>1 DEF Slots
      <3> QED
        BY <2>0, <3>1, <3>2, <3>3 DEF Known
    <2>4. ASSUME NEW other \in Ids, NEW i \in Slots, NEW device \in device_t,
                 Changes(other, i, device)
          PROVE  Known(id)
      <3>1. j \in Slots /\ devices'[j].device_id = devices[j].device_id
        BY <2>0, <2>4, Updating DEF Changes
      <3> QED
        BY <2>0, <3>1 DEF Known
    <2> QED
      BY <2>1, <2>2, <2>3, <2>4, KindsOfSteps DEF vars
  <1>2. Spec => []DeviceInv
    BY InvInitially, InvKept, PTL DEF Spec
  <1>3. DeviceInv /\ [Next]_vars => [Gone]_vars
    BY <1>1
  <1> QED
    BY <1>2, <1>3, PTL DEF Spec, UnregisteredStaysUnknown

-----------------------------------------------------------------------------
(* The registry that the array stands for. *)
Entry(d) == [name        |-> d.name,        status   |-> d.status,
             initialized |-> d.initialized, handlers |-> d.handlers]

Table == [id \in Registered |-> Entry(Device(id))]

(* The table, read off the slots. *)
TableReads ==
    /\ DOMAIN Table = Registered
    /\ Registered = {devices[i].device_id : i \in Slots}
    /\ \A i \in Slots : Table[devices[i].device_id] = Entry(devices[i])

LEMMA TableReadsDevices == DeviceInv => TableReads
  <1> SUFFICES ASSUME DeviceInv PROVE TableReads
    OBVIOUS
  <1>1. ASSUME NEW i \in Slots
        PROVE  Device(devices[i].device_id) = devices[i]
    <2> DEFINE j == CHOOSE j \in Slots : devices[j].device_id = devices[i].device_id
    <2>1. j \in Slots /\ devices[j].device_id = devices[i].device_id
      OBVIOUS
    <2> HIDE DEF j
    <2>2. j = i
      BY <2>1, IdsDiffer
    <2> QED
      BY <2>2 DEF Device, j
  <1>2. \A i \in Slots : devices[i].device_id \in Registered
    BY DEF Registered
  <1> QED
    BY <1>1, <1>2 DEF TableReads, Table, Registered

(* There are never more devices than slots in use. *)
LEMMA AsManyAsSlots ==
    ASSUME DeviceInv
    PROVE  IsFiniteSet(Registered) /\ Cardinality(Registered) <= device_count
  <1> DEFINE f == [i \in Slots |-> devices[i].device_id]
  <1>1. device_count \in Nat
    BY SlotsInArray DEF DeviceInv
  <1>2. IsFiniteSet(Slots) /\ Cardinality(Slots) = device_count
    BY <1>1, FS_Interval DEF Slots
  <1>3. f \in Surjection(Slots, Registered)
    BY DEF Surjection, Registered
  <1> HIDE DEF f
  <1> QED
    BY <1>2, <1>3, FS_Surjection

LEMMA RegistryInitially == Init => Registry!Init
  <1> SUFFICES ASSUME Init PROVE Registry!Init
    OBVIOUS
  <1>1. Slots = {}
    <2>1. device_count = 0
      BY DEF Init
    <2> QED
      BY <2>1 DEF Slots
  <1>2. Registered = {}
    BY <1>1 DEF Registered
  <1>3. [id \in Registered |->
           [name |-> Device(id).name, status |-> Device(id).status,
            initialized |-> Device(id).initialized, handlers |-> Device(id).handlers]]
          = [id \in {} |-> NoHandlers]
    BY <1>2
  <1>4. next_device_id - 1 = 0 /\ answer = [call |-> "none", id |-> 0, result |-> "zero"]
    <2>1. next_device_id = 1 /\ answer = [call |-> "none", id |-> 0, result |-> "zero"]
      BY DEF Init
    <2> QED
      BY <2>1
  <1> QED
    BY <1>3, <1>4 DEF Registry!Init

(* Registering adds the new device under the next id. *)
LEMMA RegisterRefined ==
    ASSUME DeviceInv, TableReads, TableReads', NEW name \in Names, device_register(name)
    PROVE  Registry!Register(name)
  <1> DEFINE n == device_count
             h == devices[n].handlers
             new == [name |-> name, status |-> 0, initialized |-> 0, handlers |-> h]
  <1>1. /\ Slots' = Slots \cup {n} /\ n \notin Slots
        /\ \A i \in Slots : devices'[i] = devices[i]
        /\ devices'[n] = [device_id |-> next_device_id, name |-> name, status |-> 0,
                          initialized |-> 0, handlers |-> h]
        /\ h \in HandlerSets \cup {NoHandlers}
    BY Registering
  <1>2. devices'[n].device_id = next_device_id /\ Entry(devices'[n]) = new
    BY <1>1 DEF Entry
  <1>3. Registered' = Registered \cup {next_device_id}
    BY <1>1, <1>2 DEF Registered
  <1>4. /\ next_device_id' - 1 = next_device_id
        /\ next_device_id' - 1 = (next_device_id - 1) + 1
        /\ next_device_id \notin Registered
    <2>1. next_device_id \in Nat
      BY SlotsInArray DEF DeviceInv
    <2>2. next_device_id' = next_device_id + 1
      BY DEF device_register
    <2> QED
      BY <2>1, <2>2 DEF DeviceInv, IdsAscend, Registered
  <1>5. Table'[next_device_id] = new
    BY <1>1, <1>2 DEF TableReads
  <1>6. \A id \in Registered : Table'[id] = Table[id]
    <2> TAKE id \in Registered
    <2>1. PICK i \in Slots : devices[i].device_id = id
      BY DEF Registered
    <2>2. i \in Slots' /\ devices'[i] = devices[i]
      BY <1>1
    <2>3. Table'[id] = Entry(devices[i])
      BY <2>1, <2>2 DEF TableReads, Entry
    <2> QED
      BY <2>1, <2>3 DEF TableReads
  <1>7. Cardinality(Registered) < MAX_DEVICES
    <2>1. device_count \in Nat /\ device_count < MAX_DEVICES
      BY SlotsInArray DEF DeviceInv, device_register
    <2> QED
      BY <2>1, AsManyAsSlots, FS_CardinalityType, DeviceAssumption
  <1>8. Table' = [id \in Registered \cup {next_device_id' - 1} |->
                    IF id = next_device_id' - 1 THEN new ELSE Table[id]]
    <2> DEFINE X == [id \in Registered \cup {next_device_id} |->
                       IF id = next_device_id THEN new ELSE Table[id]]
    <2>1. Table' = [id \in Registered' |-> Table'[id]]
      BY DEF Table
    <2>2. \A id \in Registered' : Table'[id] = X[id]
      BY <1>3, <1>4, <1>5, <1>6
    <2>3. Table' = X
      <3> HIDE DEF new
      <3> QED
        BY <1>3, <2>1, <2>2
    <2> QED
      BY <1>4, <2>3
  <1>9. UNCHANGED answer
    BY DEF device_register
  <1>10. DOMAIN Table = Registered
    BY DEF TableReads
  <1>11. \E handlers \in HandlerSets \cup {NoHandlers} :
           Table' = [id \in DOMAIN Table \cup {next_device_id' - 1} |->
                       IF id = next_device_id' - 1
                         THEN [name |-> name, status |-> 0, initialized |-> 0,
                               handlers |-> handlers]
                         ELSE Table[id]]
    BY <1>1, <1>8, <1>10
  <1>12. Registry!Register(name) <=>
           /\ Cardinality(DOMAIN Table) < MAX_DEVICES
           /\ (next_device_id - 1)' = (next_device_id - 1) + 1
           /\ \E handlers \in HandlerSets \cup {NoHandlers} :
                Table' = [id \in DOMAIN Table \cup {(next_device_id - 1)'} |->
                            IF id = (next_device_id - 1)'
                              THEN [name |-> name, status |-> 0, initialized |-> 0,
                                    handlers |-> handlers]
                              ELSE Table[id]]
           /\ UNCHANGED answer
    BY DEF Registry!Register, Registry!Ids, Registry!Cardinality, Cardinality, Table, Entry
  <1> QED
    BY <1>4, <1>7, <1>9, <1>10, <1>11, <1>12

(* Unregistering and shifting take away one id and no other.               *)
LEMMA UnregisterRefined ==
    ASSUME DeviceInv, TableReads, TableReads', NEW id, device_unregister(id)
    PROVE  id \in Registered /\ Registry!Unregister(id)
  <1> DEFINE n == device_count
  <1>1. PICK i \in Slots :
            /\ devices[i].device_id = id
            /\ Slots' = Slots \ {n - 1}
            /\ \A j \in Slots' : devices'[j] = devices[IF i <= j THEN j + 1 ELSE j]
    BY Unregistering
  <1>2. n \in Nat /\ Slots = 0 .. (n - 1) /\ i \in 0 .. (n - 1) /\ next_device_id' = next_device_id
    BY <1>1, SlotsInArray DEF Slots, DeviceInv, device_unregister
  <1> DEFINE from(j) == IF i <= j THEN j + 1 ELSE j
  <1>3. \A j \in Slots' : from(j) \in Slots /\ from(j) # i /\ devices'[j] = devices[from(j)]
    BY <1>1, <1>2
  <1>4. \A k \in Slots \ {i} : \E j \in Slots' : from(j) = k
    <2> TAKE k \in Slots \ {i}
    <2> DEFINE j == IF k > i THEN k - 1 ELSE k
    <2>1. j \in Slots' /\ from(j) = k
      BY <1>1, <1>2
    <2> QED
      BY <2>1
  <1> HIDE DEF from
  <1>5. \A k \in Slots : devices[k].device_id = id => k = i
    BY <1>1, IdsDiffer
  <1>6. id \in Registered
    BY <1>1 DEF TableReads
  <1>7. \A other \in Registered \ {id} :
          other \in Registered' /\ Table'[other] = Table[other]
    <2> TAKE other \in Registered \ {id}
    <2>1. PICK k \in Slots \ {i} : devices[k].device_id = other
      BY <1>1 DEF TableReads
    <2>2. PICK j \in Slots' : from(j) = k /\ devices'[j] = devices[k]
      BY <1>3, <1>4
    <2>3. Table'[other] = Entry(devices[k])
      BY <2>1, <2>2 DEF TableReads, Entry
    <2>4. Table[other] = Entry(devices[k])
      BY <2>1 DEF TableReads
    <2>5. other \in Registered'
      BY <2>1, <2>2 DEF TableReads
    <2> QED
      BY <2>3, <2>4, <2>5
  <1>8. \A other \in Registered' : other \in Registered \ {id}
    <2> TAKE other \in Registered'
    <2>1. PICK j \in Slots' : devices'[j].device_id = other
      BY DEF TableReads
    <2>2. from(j) \in Slots /\ from(j) # i /\ devices[from(j)].device_id = other
      BY <1>3, <2>1
    <2> QED
      BY <1>5, <2>2 DEF TableReads
  <1>9. Table' = [other \in DOMAIN Table \ {id} |-> Table[other]]
    <2>1. DOMAIN Table = Registered /\ Registered' = Registered \ {id}
      BY <1>7, <1>8 DEF TableReads
    <2>2. Table' = [other \in Registered' |-> Table'[other]]
      BY DEF Table
    <2> QED
      BY <1>7, <2>1, <2>2
  <1>10. UNCHANGED answer
    BY DEF device_unregister
  <1>11. Registry!Unregister(id) <=>
           /\ Table' = [other \in DOMAIN Table \ {id} |-> Table[other]]
           /\ UNCHANGED <<next_device_id - 1, answer>>
    BY DEF Registry!Unregister, Registry!Ids, Table, Entry
  <1> QED
    BY <1>2, <1>6, <1>9, <1>10, <1>11

(* A change of one device changes its entry. *)
LEMMA TableUpdated ==
    ASSUME DeviceInv, TableReads, TableReads', NEW id, NEW i \in Slots,
           NEW device, Changes(id, i, device)
    PROVE  /\ id \in Registered /\ id \in DOMAIN Table
           /\ Table[id] = Entry(devices[i])
           /\ Table' = [Table EXCEPT ![id] = Entry(device)]
           /\ UNCHANGED <<next_device_id - 1, answer>>
  <1>1. /\ devices[i].device_id = id
        /\ Slots' = Slots
        /\ devices'[i] = device /\ device.device_id = id
        /\ \A j \in Slots : j # i => devices'[j] = devices[j]
        /\ UNCHANGED <<next_device_id - 1, answer>>
    <2>1. device \in device_t /\ device.device_id = devices[i].device_id /\ Update(id, i, device)
      BY DEF Changes
    <2>2. UNCHANGED <<next_device_id - 1, answer>>
      BY <2>1 DEF Update
    <2> QED
      BY <2>1, <2>2, Updating
  <1>2. id \in Registered /\ DOMAIN Table = Registered
    BY <1>1 DEF TableReads
  <1>3. Registered' = Registered
    <2>1. \A j \in Slots : devices'[j].device_id = devices[j].device_id
      BY <1>1
    <2> QED
      BY <1>1, <2>1 DEF TableReads
  <1>4. Table[id] = Entry(devices[i]) /\ Table'[id] = Entry(device)
    BY <1>1 DEF TableReads, Entry
  <1>5. \A other \in Registered : other # id => Table'[other] = Table[other]
    <2> TAKE other \in Registered
    <2> HAVE other # id
    <2>1. PICK k \in Slots : devices[k].device_id = other
      BY DEF TableReads
    <2>2. k # i
      BY <1>1, <2>1
    <2>3. k \in Slots' /\ devices'[k] = devices[k]
      BY <1>1, <2>2
    <2>4. Table'[other] = Entry(devices[k])
      BY <2>1, <2>3 DEF TableReads, Entry
    <2> QED
      BY <2>1, <2>4 DEF TableReads
  <1>6. Table' = [Table EXCEPT ![id] = Entry(device)]
    <2>1. Table' = [other \in Registered' |-> Table'[other]]
      BY DEF Table
    <2> QED
      BY <1>2, <1>3, <1>4, <1>5, <2>1
  <1> QED
    BY <1>1, <1>2, <1>4, <1>6

(* Switching a device on or off and giving it handlers change its entry    *)
(* the same way.                                                           *)
LEMMA EntriesUpdated ==
    ASSUME NEW d \in device_t
    PROVE  /\ Entry([d EXCEPT !.initialized = 1, !.status = 1]) =
                [Entry(d) EXCEPT !.initialized = 1, !.status = 1]
           /\ \A s : Entry([d EXCEPT !.status = s]) = [Entry(d) EXCEPT !.status = s]
           /\ \A h : Entry([d EXCEPT !.handlers = h]) = [Entry(d) EXCEPT !.handlers = h]
  <1>1. d = [device_id |-> d.device_id, name |-> d.name, status |-> d.status,
             initialized |-> d.initialized, handlers |-> d.handlers]
    BY DEF device_t
  <1>2. Entry([d EXCEPT !.initialized = 1, !.status = 1]) =
          [Entry(d) EXCEPT !.initialized = 1, !.status = 1]
    <2> DEFINE e == [d EXCEPT !.initialized = 1, !.status = 1]
               t == Entry(d)
               u == [t EXCEPT !.initialized = 1, !.status = 1]
               R == [name : {d.name}, status : {0, 1}, initialized : {0, 1}, handlers : {d.handlers}]
    <2>1. /\ e.name = d.name /\ e.handlers = d.handlers
          /\ e.status = 1 /\ e.initialized = 1
      BY DEF device_t
    <2>2. d.status \in {0, 1} /\ d.initialized \in {0, 1}
      BY DEF device_t
    <2>3. t \in R /\ t.name = d.name /\ t.handlers = d.handlers
      BY <2>2 DEF Entry
    <2>4. /\ u \in R /\ u.status = 1 /\ u.initialized = 1
          /\ u.name = d.name /\ u.handlers = d.handlers
      <3> HIDE DEF t
      <3> QED
        BY <2>3
    <2>5. u = [name |-> d.name, status |-> 1, initialized |-> 1, handlers |-> d.handlers]
      <3> HIDE DEF u
      <3> QED
        BY <2>4
    <2>6. Entry(e) = [name |-> d.name, status |-> 1, initialized |-> 1, handlers |-> d.handlers]
      <3> HIDE DEF e
      <3> QED
        BY <2>1 DEF Entry
    <2> QED
      BY <2>5, <2>6
  <1>3. \A s : Entry([d EXCEPT !.status = s]) = [Entry(d) EXCEPT !.status = s]
    BY <1>1 DEF Entry
  <1>4. \A h : Entry([d EXCEPT !.handlers = h]) = [Entry(d) EXCEPT !.handlers = h]
    BY <1>1 DEF Entry
  <1> QED
    BY <1>2, <1>3, <1>4

LEMMA ChangeRefined ==
    ASSUME DeviceInv, TableReads, TableReads', NEW id \in Ids,
           \/ device_initialize(id)
           \/ device_enable(id)
           \/ device_disable(id)
           \/ \E handlers \in HandlerSets : device_set_handler(id, handlers)
    PROVE  id \in Registered /\ Registry!Change(id)
  <1>1. Registry!Change(id) <=>
          /\ \/ Table' = [Table EXCEPT ![id].initialized = 1, ![id].status = 1]
             \/ \E status \in {0, 1} : Table' = [Table EXCEPT ![id].status = status]
             \/ \E handlers \in HandlerSets :
                  Table' = [Table EXCEPT ![id].handlers = handlers]
          /\ UNCHANGED <<next_device_id - 1, answer>>
    BY DEF Registry!Change, Table, Entry
  <1>2. \A i \in Slots : devices[i] \in device_t
    BY SlotsInArray DEF DeviceInv, TypeOK
  <1>3. CASE device_initialize(id)
    <2>1. PICK i \in Slots :
            Update(id, i, [devices[i] EXCEPT !.initialized = 1, !.status = 1])
      BY <1>3 DEF device_initialize
    <2> DEFINE device == [devices[i] EXCEPT !.initialized = 1, !.status = 1]
    <2>2. Changes(id, i, device)
      BY <2>1, UpdatesTyped DEF Changes
    <2>3. Entry(device) = [Entry(devices[i]) EXCEPT !.initialized = 1, !.status = 1]
      BY <1>2, EntriesUpdated
    <2> HIDE DEF device
    <2>4. /\ id \in Registered /\ id \in DOMAIN Table
          /\ Table' = [Table EXCEPT ![id] = [Table[id] EXCEPT !.initialized = 1, !.status = 1]]
          /\ UNCHANGED <<next_device_id - 1, answer>>
      <3>1. /\ id \in Registered /\ id \in DOMAIN Table
            /\ Table[id] = Entry(devices[i])
            /\ Table' = [Table EXCEPT ![id] = Entry(device)]
            /\ UNCHANGED <<next_device_id - 1, answer>>
        BY <2>2, TableUpdated
      <3>2. Entry(device) = [Table[id] EXCEPT !.initialized = 1, !.status = 1]
        BY <2>3, <3>1
      <3> HIDE DEF Table
      <3> QED
        BY <3>1, <3>2
    <2>5. Table' = [Table EXCEPT ![id].initialized = 1, ![id].status = 1]
      <3> HIDE DEF Table
      <3> QED
        BY <2>4
    <2> QED
      BY <1>1, <2>4, <2>5
  <1>4. ASSUME NEW status \in {0, 1}, NEW i \in Slots,
               Update(id, i, [devices[i] EXCEPT !.status = status])
        PROVE  id \in Registered /\ Registry!Change(id)
    <2> DEFINE device == [devices[i] EXCEPT !.status = status]
    <2>1. Changes(id, i, device)
      BY <1>4, UpdatesTyped DEF Changes
    <2>2. Entry(device) = [Entry(devices[i]) EXCEPT !.status = status]
      BY <1>2, EntriesUpdated
    <2> HIDE DEF device
    <2>3. /\ id \in Registered /\ id \in DOMAIN Table
          /\ Table' = [Table EXCEPT ![id] = [Table[id] EXCEPT !.status = status]]
          /\ UNCHANGED <<next_device_id - 1, answer>>
      BY <2>1, <2>2, TableUpdated
    <2> QED
      BY <1>1, <2>3
  <1>5. ASSUME NEW handlers \in HandlerSets, NEW i \in Slots,
               Update(id, i, [devices[i] EXCEPT !.handlers = handlers])
        PROVE  id \in Registered /\ Registry!Change(id)
    <2> DEFINE device == [devices[i] EXCEPT !.handlers = handlers]
    <2>1. Changes(id, i, device)
      BY <1>5, UpdatesTyped DEF Changes
    <2>2. Entry(device) = [Entry(devices[i]) EXCEPT !.handlers = handlers]
      BY <1>2, EntriesUpdated
    <2> HIDE DEF device
    <2>3. /\ id \in Registered /\ id \in DOMAIN Table
          /\ Table' = [Table EXCEPT ![id] = [Table[id] EXCEPT !.handlers = handlers]]
          /\ UNCHANGED <<next_device_id - 1, answer>>
      BY <2>1, <2>2, TableUpdated
    <2> QED
      BY <1>1, <2>3
  <1> QED
    BY <1>3, <1>4, <1>5 DEF device_enable, device_disable, device_set_handler

-----------------------------------------------------------------------------
(* Calls and searches, which only answer. *)
LEMMA CallRefined ==
    ASSUME DeviceInv, TableReads, TableReads', NEW operation \in Operations, NEW id \in Ids,
           device_call(operation, id)
    PROVE  Registry!Call(operation, id)
  <1> DEFINE Answer(r) == [call |-> operation, id |-> id, result |-> r]
  <1>1. Registry!Call(operation, id) <=>
          /\ answer' = Answer(IF id \notin DOMAIN Table THEN "zero"
                              ELSE IF operation = "ioctl" \/ Table[id].handlers = NoHandlers
                                THEN Default(operation)
                              ELSE Table[id].handlers)
          /\ UNCHANGED <<Table, next_device_id - 1>>
    BY DEF Registry!Call, Registry!Ids, Table, Entry
  <1>2. UNCHANGED <<Table, next_device_id - 1>>
    BY DEF device_call, Table, Registered, Device, Slots
  <1>3. ASSUME NEW i \in Slots, Find(id, i),
               answer' = Answer(IF Handled(operation, i) THEN devices[i].handlers
                                                         ELSE Default(operation))
        PROVE  Registry!Call(operation, id)
    <2>1. devices[i].device_id = id
      BY <1>3 DEF Find
    <2>2. id \in DOMAIN Table /\ Table[id] = Entry(devices[i])
      BY <2>1 DEF TableReads
    <2>3. Table[id].handlers = devices[i].handlers
      BY <2>2 DEF Entry
    <2> HIDE DEF Table
    <2> QED
      BY <1>1, <1>2, <1>3, <2>2, <2>3 DEF Handled
  <1>4. ASSUME ~Known(id), answer' = Answer("zero")
        PROVE  Registry!Call(operation, id)
    <2>1. id \notin DOMAIN Table
      BY <1>4 DEF TableReads, Known
    <2> HIDE DEF Table
    <2> QED
      BY <1>1, <1>2, <1>4, <2>1
  <1> QED
    BY <1>3, <1>4 DEF device_call

LEMMA SearchRefined ==
    ASSUME DeviceInv, TableReads, TableReads', NEW name \in Names, find_device(name)
    PROVE  Registry!Search(name)
  <1>1. Registry!Search(name) <=>
          /\ \/ \E id \in DOMAIN Table :
                  /\ Table[id].name = name
                  /\ \A other \in DOMAIN Table : Table[other].name = name => id <= other
                  /\ answer' = [call |-> "search", id |-> id, result |-> "one"]
             \/ /\ \A id \in DOMAIN Table : Table[id].name # name
                /\ answer' = [call |-> "search", id |-> 0, result |-> "zero"]
          /\ UNCHANGED <<Table, next_device_id - 1>>
    BY DEF Registry!Search, Registry!Ids, Table, Entry
  <1>2. UNCHANGED <<Table, next_device_id - 1>>
    BY DEF find_device, Table, Registered, Device, Slots
  <1>3. \A i \in Slots : /\ devices[i].device_id \in DOMAIN Table
                         /\ Table[devices[i].device_id].name = devices[i].name
    <2> TAKE i \in Slots
    <2>1. /\ devices[i].device_id \in DOMAIN Table
          /\ Table[devices[i].device_id] = Entry(devices[i])
      BY DEF TableReads
    <2>2. Entry(devices[i]).name = devices[i].name
      BY DEF Entry
    <2> QED
      BY <2>1, <2>2
  <1>4. \A id \in DOMAIN Table : \E i \in Slots : devices[i].device_id = id
    BY DEF TableReads
  <1> HIDE DEF Table
  <1>5. ASSUME NEW i \in Slots, devices[i].name = name,
               \A j \in Slots : devices[j].name = name => i <= j,
               answer' = [call |-> "search", id |-> devices[i].device_id, result |-> "one"]
        PROVE  Registry!Search(name)
    <2>1. ASSUME NEW other \in DOMAIN Table, Table[other].name = name
          PROVE  devices[i].device_id <= other
      <3>1. PICK j \in Slots : devices[j].device_id = other
        BY <1>4
      <3>2. i <= j
        BY <1>3, <1>5, <2>1, <3>1
      <3>3. i \in Int /\ j \in Int
        BY SlotsInArray DEF DeviceInv
      <3>4. devices[i].device_id \in Int /\ devices[j].device_id \in Int
        BY DEF DeviceInv, IdsAscend
      <3>5. CASE i = j
        BY <3>1, <3>4, <3>5
      <3>6. CASE i < j
        BY <3>1, <3>4, <3>6 DEF DeviceInv, IdsAscend
      <3> QED
        BY <3>2, <3>3, <3>5, <3>6
    <2> QED
      BY <1>1, <1>2, <1>3, <1>5, <2>1
  <1>6. ASSUME \A i \in Slots : devices[i].name # name,
               answer' = [call |-> "search", id |-> 0, result |-> "zero"]
        PROVE  Registry!Search(name)
    <2>1. \A id \in DOMAIN Table : Table[id].name # name
      BY <1>3, <1>4, <1>6
    <2> QED
      BY <1>1, <1>2, <1>6, <2>1
  <1> QED
    BY <1>5, <1>6 DEF find_device

(* Shifting the array is invisible to the callers: every step is a step of *)
(* the registry that is indexed by ids, with the same answer.              *)
THEOREM ArrayImplementsRegistry == Spec => ImplementsDeviceRegistry
  <1>1. DeviceInv /\ TableReads /\ TableReads' /\ [Next]_vars
          => [Registry!Next]_(Registry!vars)
    <2> SUFFICES ASSUME DeviceInv, TableReads, TableReads', [Next]_vars
                 PROVE  Registry!Next \/ UNCHANGED Registry!vars
      OBVIOUS
    <2>1. ASSUME NEW name \in Names, device_register(name) \/ find_device(name)
          PROVE  Registry!Next
      BY <2>1, RegisterRefined, SearchRefined DEF Registry!Next
    <2>2. Registry!Ids = Registered
      BY DEF Registry!Ids
    <2>3. ASSUME NEW id \in Ids, device_unregister(id)
          PROVE  Registry!Next
      BY <2>2, <2>3, UnregisterRefined DEF Registry!Next
    <2>4. ASSUME NEW id \in Ids,
                 \/ device_initialize(id)
                 \/ device_enable(id)
                 \/ device_disable(id)
                 \/ \E handlers \in HandlerSets : device_set_handler(id, handlers)
          PROVE  Registry!Next
      BY <2>2, <2>4, ChangeRefined DEF Registry!Next
    <2>5. ASSUME NEW id \in Ids, NEW operation \in Operations, device_call(operation, id)
          PROVE  Registry!Next
      <3>1. id \in 1 .. (MaxDeviceId + 1)
        <4>1. next_device_id \in 1 .. (MaxDeviceId + 1)
          BY DEF DeviceInv, TypeOK
        <4> QED
          BY <4>1, DeviceAssumption DEF Ids
      <3> QED
        BY <2>5, <3>1, CallRefined DEF Registry!Next
    <2>6. CASE UNCHANGED vars
      BY <2>6 DEF vars, Registry!vars, Registered, Device, Slots
    <2> QED
      BY <2>1, <2>3, <2>4, <2>5, <2>6 DEF Next
  <1>2. Spec => []DeviceInv
    BY InvInitially, InvKept, PTL DEF Spec
  <1>3. Spec => []TableReads
    BY <1>2, TableReadsDevices, PTL
  <1> QED
    BY <1>1, <1>2, <1>3, RegistryInitially, PTL
       DEF Spec, ImplementsDeviceRegistry, Registry!Spec
=============================================================================
