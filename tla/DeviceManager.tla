---------------------------- MODULE DeviceManager ----------------------------
(***************************************************************************)
(* The device manager of src/devices.c: an array of devices, filled from   *)
(* the left, that unregistering closes up again by shifting.               *)
(*                                                                         *)
(* A slot past device_count keeps what was last written to it.  Registering *)
(* sets every field of the slot it uses but the handlers.                  *)
(*                                                                         *)
(* A device's name stands for all that is stored when it is registered     *)
(* (name, type, major and minor number), and the four handlers, which      *)
(* device_set_handler sets together, for one value.                        *)
(***************************************************************************)
EXTENDS Integers

CONSTANTS
    MAX_DEVICES,
    Names,
    HandlerSets,        \* the sets of handlers drivers install
    NoHandlers,         \* all four handlers NULL
    MaxDeviceId         \* bound on next_device_id

ASSUME DeviceAssumption ==
    /\ MAX_DEVICES \in Nat \ {0}
    /\ NoHandlers \notin HandlerSets
    /\ MaxDeviceId \in Nat

VARIABLES
    devices,            \* slot -> device
    device_count,
    next_device_id,
    answer              \* history: the last call of a lookup, and its result

vars == <<devices, device_count, next_device_id, answer>>

-----------------------------------------------------------------------------
Array == 0 .. (MAX_DEVICES - 1)

(* The operations that are passed on to a device's handlers. *)
Operations == {"open", "close", "read", "write", "ioctl"}

(* What is returned when a device has no handler: device_write returns the *)
(* size it was asked to write.                                             *)
Default(operation) ==
    CASE operation \in {"open", "close"} -> "one"
      [] operation \in {"read", "ioctl"} -> "zero"
      [] operation = "write"             -> "size"

(* device_ioctl is a handler that nothing sets. *)
Handled(operation, i) ==
    operation # "ioctl" /\ devices[i].handlers # NoHandlers

Init ==
    /\ devices = [i \in Array |->
           [device_id |-> 0, name |-> "", status |-> 0,
            initialized |-> 0, handlers |-> NoHandlers]]
    /\ device_count = 0
    /\ next_device_id = 1
    /\ answer = [call |-> "none", id |-> 0, result |-> "zero"]

Slots == 0 .. (device_count - 1)

(* The search every operation starts with: the first slot with this id. *)
Find(id, i) ==
    /\ i \in Slots
    /\ devices[i].device_id = id
    /\ \A j \in Slots : devices[j].device_id = id => i <= j

Known(id) == \E i \in Slots : devices[i].device_id = id

(* Ids callers may pass: those given out, and one that was not. *)
Ids == 1 .. next_device_id

(* Mutated form: a device gets the number of its slot. *)
IdFromCount == device_count + 1

NewId == next_device_id

device_register(name) ==
    /\ device_count < MAX_DEVICES
    /\ next_device_id <= MaxDeviceId
    /\ devices' = [devices EXCEPT ![device_count] =
           [device_id |-> NewId, name |-> name, status |-> 0, initialized |-> 0,
            handlers |-> devices[device_count].handlers]]
    /\ next_device_id' = next_device_id + 1
    /\ device_count' = device_count + 1
    /\ UNCHANGED answer

(* Mutated form: the last slot but one is not shifted. *)
ShiftedShort(i) ==
    [j \in Array |-> IF i <= j /\ j < device_count - 2 THEN devices[j + 1]
                                                       ELSE devices[j]]

(* The devices after slot i move one to the left; the last slot keeps its  *)
(* old contents.                                                           *)
Shifted(i) ==
    [j \in Array |-> IF i <= j /\ j < device_count - 1 THEN devices[j + 1]
                                                       ELSE devices[j]]

device_unregister(id) ==
    /\ \E i \in Slots : Find(id, i) /\ devices' = Shifted(i)
    /\ device_count' = device_count - 1
    /\ UNCHANGED <<next_device_id, answer>>

(* The device with this id, in slot i, changes. *)
Update(id, i, device) ==
    /\ Find(id, i)
    /\ devices' = [devices EXCEPT ![i] = device]
    /\ UNCHANGED <<device_count, next_device_id, answer>>

device_initialize(id) ==
    \E i \in Slots :
        Update(id, i, [devices[i] EXCEPT !.initialized = 1, !.status = 1])

device_set_handler(id, handlers) ==
    \E i \in Slots : Update(id, i, [devices[i] EXCEPT !.handlers = handlers])

device_enable(id) ==
    \E i \in Slots : Update(id, i, [devices[i] EXCEPT !.status = 1])

device_disable(id) ==
    \E i \in Slots : Update(id, i, [devices[i] EXCEPT !.status = 0])

(* device_open, _close, _read, _write and _ioctl: the handler is called    *)
(* whether or not the device is initialized or enabled.                    *)
device_call(operation, id) ==
    /\ \/ \E i \in Slots :
            /\ Find(id, i)
            /\ answer' = [call |-> operation, id |-> id,
                          result |-> IF Handled(operation, i)
                                       THEN devices[i].handlers
                                       ELSE Default(operation)]
       \/ /\ ~Known(id)
          /\ answer' = [call |-> operation, id |-> id, result |-> "zero"]
    /\ UNCHANGED <<devices, device_count, next_device_id>>

(* find_device_by_name, _type and _major: the first slot that matches. *)
find_device(name) ==
    /\ \/ \E i \in Slots :
            /\ devices[i].name = name
            /\ \A j \in Slots : devices[j].name = name => i <= j
            /\ answer' = [call |-> "search", id |-> devices[i].device_id,
                          result |-> "one"]
       \/ /\ \A i \in Slots : devices[i].name # name
          /\ answer' = [call |-> "search", id |-> 0, result |-> "zero"]
    /\ UNCHANGED <<devices, device_count, next_device_id>>

Next ==
    \/ \E name \in Names : device_register(name) \/ find_device(name)
    \/ \E id \in Ids :
         \/ device_unregister(id)
         \/ device_initialize(id)
         \/ device_enable(id)
         \/ device_disable(id)
         \/ \E handlers \in HandlerSets : device_set_handler(id, handlers)
         \/ \E operation \in Operations : device_call(operation, id)

Spec == Init /\ [][Next]_vars

-----------------------------------------------------------------------------
device_t ==
    [device_id : Nat, name : Names \cup {""}, status : {0, 1}, initialized : {0, 1},
     handlers : HandlerSets \cup {NoHandlers}]

(* Type invariant. *)
TypeOK ==
    /\ devices \in [Array -> device_t]
    /\ device_count \in 0 .. MAX_DEVICES
    /\ next_device_id \in 1 .. (MaxDeviceId + 1)

(* An id of an unregistered device never finds a device again. *)
UnregisteredStaysUnknown ==
    [][\A id \in 1 .. (next_device_id - 1) : ~Known(id) => ~Known(id)']_vars

-----------------------------------------------------------------------------
(* The abstract registry: the devices by their ids. *)
Registered == {devices[i].device_id : i \in Slots}

Device(id) == devices[CHOOSE i \in Slots : devices[i].device_id = id]

Registry == INSTANCE DeviceRegistry WITH
    Capacity <- MAX_DEVICES,
    LastId   <- MaxDeviceId + 1,
    Unsupported <- "ioctl",
    registry <- [id \in Registered |->
                   [name        |-> Device(id).name,
                    status      |-> Device(id).status,
                    initialized |-> Device(id).initialized,
                    handlers    |-> Device(id).handlers]],
    lastId   <- next_device_id - 1

(* Shifting is invisible to the callers: every call has the effect and the *)
(* result it would have on a table indexed by ids.                         *)
ImplementsDeviceRegistry == Registry!Spec
=============================================================================
