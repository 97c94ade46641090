--------------------------- MODULE MCDeviceManager ---------------------------
(***************************************************************************)
(* The device manager for TLC.  Registering overwrites all of a slot but   *)
(* its handlers, and no step reads answer: two states that agree on what   *)
(* View shows have the same steps.  Properties of steps are still checked  *)
(* on every step, with its answer.                                         *)
(***************************************************************************)
EXTENDS DeviceManager

View ==
    <<[i \in Slots |-> devices[i]], [i \in Array |-> devices[i].handlers],
      device_count, next_device_id>>
=============================================================================
