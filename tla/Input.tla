-------------------------------- MODULE Input --------------------------------
(***************************************************************************)
(* The events of the input manager of src/input.c.  There is no queue of   *)
(* events, only the number of those that nobody has read yet.              *)
(*                                                                         *)
(* The functions that post an event run in interrupt handlers, so that     *)
(* each is one step here.  input_get_event is two: the kernel is compiled  *)
(* with -O2 (src/build.mk:23), and may store the number it has tested less *)
(* one, or subtract one from what is in memory by then.                    *)
(*                                                                         *)
(* Left out is what the functions store of keys, buttons, position, wheel  *)
(* and acceleration: no test of the input manager reads it, and the getters *)
(* give it out as it was set.                                              *)
(***************************************************************************)
EXTENDS Integers

VARIABLES
    input_events_queued,
    total_events_processed,
    reader           \* input_get_event: [at, local]

counts == <<input_events_queued, total_events_processed>>

Idle == [at |-> "idle", local |-> 0]

(* input_init. *)
Init ==
    /\ input_events_queued = 0
    /\ total_events_processed = 0
    /\ reader = Idle

(* Mutated form: there is room for one unread event. *)
OneQueued == 1

(* One event more that nobody has read. *)
Queued == input_events_queued + 1

(* Keys and buttons also count as processed, positions and the wheel not.  *)
Post(processed) ==
    /\ input_events_queued' = Queued
    /\ total_events_processed' = total_events_processed + processed
    /\ UNCHANGED reader

keyboard_set_key == Post(1)

mouse_set_position == Post(0)

mouse_set_button == Post(1)

mouse_set_wheel == Post(0)

(* The test of input_get_event; with nothing queued it returns 0. *)
get_event_test ==
    /\ reader = Idle
    /\ reader' = IF input_events_queued = 0
                   THEN reader
                   ELSE [at |-> "tested", local |-> input_events_queued]
    /\ UNCHANGED counts

(* Mutated form: the number is stored back as it was tested. *)
StoredUnchanged(tested) == {tested}

(* What input_events_queued-- may leave there, if it was tested then. *)
Stored(tested) == {tested - 1, input_events_queued - 1}

get_event_take ==
    /\ reader.at = "tested"
    /\ input_events_queued' \in Stored(reader.local)
    /\ reader' = Idle
    /\ UNCHANGED total_events_processed

input_clear_queue ==
    /\ reader = Idle
    /\ input_events_queued' = 0
    /\ UNCHANGED <<total_events_processed, reader>>
=============================================================================
