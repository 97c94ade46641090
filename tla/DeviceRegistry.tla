--------------------------- MODULE DeviceRegistry ---------------------------
(***************************************************************************)
(* What the device manager (src/devices.c) promises its callers, without   *)
(* its array: devices are known by an id that is never used twice, calls   *)
(* reach the device with that id, and a search by name finds the device    *)
(* that was registered first.                                              *)
(***************************************************************************)
EXTENDS Integers, FiniteSets

CONSTANTS
    Capacity,       \* how many devices can be registered at a time
    LastId,         \* bound on the ids given out
    Names,
    HandlerSets,    \* the sets of handlers drivers install
    NoHandlers,
    Operations,     \* what callers may ask a device for
    Unsupported,    \* the one no driver installs a handler for
    Default(_)      \* the answer of a device without handlers

VARIABLES
    registry,       \* id -> [name, status, initialized, handlers]
    lastId,         \* the id given out last
    answer          \* what the last call was, and what came of it

vars == <<registry, lastId, answer>>

Ids == DOMAIN registry

Init ==
    /\ registry = [id \in {} |-> NoHandlers]
    /\ lastId = 0
    /\ answer = [call |-> "none", id |-> 0, result |-> "zero"]

(* A new device may come up with handlers: registering does not say which. *)
Register(name) ==
    /\ Cardinality(Ids) < Capacity
    /\ lastId' = lastId + 1
    /\ \E handlers \in HandlerSets \cup {NoHandlers} :
         registry' = [id \in Ids \cup {lastId'} |->
             IF id = lastId'
               THEN [name |-> name, status |-> 0, initialized |-> 0,
                     handlers |-> handlers]
               ELSE registry[id]]
    /\ UNCHANGED answer

Unregister(id) ==
    /\ registry' = [other \in Ids \ {id} |-> registry[other]]
    /\ UNCHANGED <<lastId, answer>>

(* A device is switched on, off, or given handlers. *)
Change(id) ==
    /\ \/ registry' = [registry EXCEPT ![id].initialized = 1, ![id].status = 1]
       \/ \E status \in {0, 1} : registry' = [registry EXCEPT ![id].status = status]
       \/ \E handlers \in HandlerSets :
            registry' = [registry EXCEPT ![id].handlers = handlers]
    /\ UNCHANGED <<lastId, answer>>

Call(operation, id) ==
    /\ answer' = [call |-> operation, id |-> id,
                  result |-> IF id \notin Ids THEN "zero"
                             ELSE IF operation = Unsupported
                                  \/ registry[id].handlers = NoHandlers
                               THEN Default(operation)
                             ELSE registry[id].handlers]
    /\ UNCHANGED <<registry, lastId>>

Search(name) ==
    /\ \/ \E id \in Ids :
            /\ registry[id].name = name
            /\ \A other \in Ids : registry[other].name = name => id <= other
            /\ answer' = [call |-> "search", id |-> id, result |-> "one"]
       \/ /\ \A id \in Ids : registry[id].name # name
          /\ answer' = [call |-> "search", id |-> 0, result |-> "zero"]
    /\ UNCHANGED <<registry, lastId>>

Next ==
    \/ \E name \in Names : Register(name) \/ Search(name)
    \/ \E id \in Ids : Unregister(id) \/ Change(id)
    \/ \E operation \in Operations, id \in 1 .. LastId : Call(operation, id)

Spec == Init /\ [][Next]_vars
=============================================================================
