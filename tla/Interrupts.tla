----------------------------- MODULE Interrupts -----------------------------
(***************************************************************************)
(* The interrupt controller of src/ipts.c: the table of IRQ handlers and   *)
(* the counters of interrupts.                                             *)
(*                                                                         *)
(* The file has an entry point for each of the interrupts.  Only those of  *)
(* Dispatched count by line and look for a handler; the others, and the    *)
(* exceptions, only add to the total.  An entry point looks neither at a   *)
(* line's mask nor at interrupts_disabled.                                 *)
(*                                                                         *)
(* Left out: a handler's name, the latencies and spurious_interrupts,      *)
(* which nothing changes, and pic_send_eoi, which has no effect.           *)
(***************************************************************************)
EXTENDS Integers

CONSTANTS
    Lines,           \* 0 .. IRQ_COUNT - 1
    Dispatched,      \* the lines whose entry point calls a handler
    Routines,        \* the handlers drivers register
    NULL

VARIABLES
    handlers,        \* line -> [handler, unmasked, handled_count]
    total_interrupts,
    interrupts_disabled

Init ==
    /\ handlers = [irq \in Lines |->
           [handler |-> NULL, unmasked |-> FALSE, handled_count |-> 0]]
    /\ total_interrupts = 0
    /\ interrupts_disabled = FALSE

(* isr_0 to isr_20, and the entry points of the lines nobody dispatches. *)
Undispatched ==
    /\ total_interrupts' = total_interrupts + 1
    /\ UNCHANGED <<handlers, interrupts_disabled>>

(* Mutated form: an interrupt that finds no handler is not counted. *)
CountWhenHandled(irq) ==
    IF handlers[irq].handler = NULL THEN handlers
    ELSE [handlers EXCEPT ![irq].handled_count = @ + 1]

(* A line's interrupts are counted whether or not it has a handler. *)
Count(irq) == [handlers EXCEPT ![irq].handled_count = @ + 1]

(* The entry point of a dispatched line, up to the call of the handler,    *)
(* which is the one called handlers[irq].handler, unless that is NULL.     *)
Enter(irq) ==
    /\ irq \in Dispatched
    /\ total_interrupts' = total_interrupts + 1
    /\ handlers' = Count(irq)
    /\ UNCHANGED interrupts_disabled

(* Registering replaces a handler that is there, keeps the line's count,   *)
(* and unmasks the line.                                                   *)
register_irq_handler(irq, routine) ==
    /\ handlers' = [handlers EXCEPT ![irq].handler = routine, ![irq].unmasked = TRUE]
    /\ UNCHANGED <<total_interrupts, interrupts_disabled>>

unregister_irq_handler(irq) ==
    /\ handlers' = [handlers EXCEPT ![irq].handler = NULL, ![irq].unmasked = FALSE]
    /\ UNCHANGED <<total_interrupts, interrupts_disabled>>

(* mask_irq and unmask_irq. *)
set_mask(irq, unmasked) ==
    /\ handlers' = [handlers EXCEPT ![irq].unmasked = unmasked]
    /\ UNCHANGED <<total_interrupts, interrupts_disabled>>

(* disable_all_interrupts and enable_all_interrupts: the flag, and not the *)
(* processor's.                                                            *)
set_disabled(disabled) ==
    /\ interrupts_disabled' = disabled
    /\ UNCHANGED <<handlers, total_interrupts>>
=============================================================================
