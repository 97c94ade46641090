----------------------------- MODULE InputPath -----------------------------
(***************************************************************************)
(* Events on their way from an interrupt to their reader: the interrupt    *)
(* controller and the input manager together.                              *)
(*                                                                         *)
(* One thread of the kernel reads events and registers, masks and removes  *)
(* handlers; an interrupt may come between any two of its steps, and runs  *)
(* to its end.  The drivers' handlers are not in src/: one that reads a    *)
(* keyboard or a mouse posts one event for each interrupt.                 *)
(***************************************************************************)
EXTENDS Integers, FiniteSets, Functions

CONSTANTS
    Lines, Dispatched, NULL,
    MaxInterrupts    \* bound on total_interrupts

KeyboardRoutine == "keyboard routine"
MouseRoutine == "mouse routine"
Routines == {KeyboardRoutine, MouseRoutine}

ASSUME InputPathAssumption ==
    /\ IsFiniteSet(Lines) /\ Dispatched \subseteq Lines
    /\ NULL \notin Routines
    /\ MaxInterrupts \in Nat

VARIABLES
    handlers, total_interrupts, interrupts_disabled,
    input_events_queued, total_events_processed, reader,
    posted,          \* history: events posted
    taken,           \* history: events the reader got
    discarded,       \* history: events thrown away by input_clear_queue
    raced,           \* history: events posted while the reader took one
    uncounted        \* history: interrupts no line counts

controller == <<handlers, total_interrupts, interrupts_disabled>>
manager == <<input_events_queued, total_events_processed, reader>>
history == <<posted, taken, discarded, raced>>
pathVars == <<controller, manager, history, uncounted>>

Controller == INSTANCE Interrupts
Manager == INSTANCE Input

PathInit ==
    /\ Controller!Init
    /\ Manager!Init
    /\ posted = 0 /\ taken = 0 /\ discarded = 0 /\ raced = 0
    /\ uncounted = 0

-----------------------------------------------------------------------------
(* What the handlers do (external). *)
KeyboardEvent == Manager!keyboard_set_key

MouseEvent ==
    \/ Manager!mouse_set_position
    \/ Manager!mouse_set_button
    \/ Manager!mouse_set_wheel

Interrupted(Event) ==
    /\ Event
    /\ posted' = posted + 1
    /\ raced' = IF reader.at = "tested" THEN raced + 1 ELSE raced
    /\ UNCHANGED <<taken, discarded>>

(* An interrupt of a dispatched line, with the handler it calls. *)
DispatchedInterrupt(irq) ==
    /\ total_interrupts < MaxInterrupts
    /\ Controller!Enter(irq)
    /\ \/ handlers[irq].handler = NULL /\ UNCHANGED <<manager, history>>
       \/ handlers[irq].handler = KeyboardRoutine /\ Interrupted(KeyboardEvent)
       \/ handlers[irq].handler = MouseRoutine /\ Interrupted(MouseEvent)
    /\ UNCHANGED uncounted

OtherInterrupt ==
    /\ total_interrupts < MaxInterrupts
    /\ Controller!Undispatched
    /\ uncounted' = uncounted + 1
    /\ UNCHANGED <<manager, history>>

(* The thread's steps. *)
Configure ==
    /\ reader = Manager!Idle
    /\ \/ \E irq \in Lines :
            \/ \E routine \in Routines : Controller!register_irq_handler(irq, routine)
            \/ Controller!unregister_irq_handler(irq)
            \/ \E unmasked \in BOOLEAN : Controller!set_mask(irq, unmasked)
       \/ \E disabled \in BOOLEAN : Controller!set_disabled(disabled)
    /\ UNCHANGED <<manager, history, uncounted>>

Test ==
    /\ Manager!get_event_test
    /\ UNCHANGED <<controller, history, uncounted>>

Take ==
    /\ Manager!get_event_take
    /\ taken' = taken + 1
    /\ UNCHANGED <<controller, posted, discarded, raced, uncounted>>

Clear ==
    /\ Manager!input_clear_queue
    /\ discarded' = discarded + input_events_queued
    /\ UNCHANGED <<controller, posted, taken, raced, uncounted>>

PathNext ==
    \/ \E irq \in Lines : DispatchedInterrupt(irq)
    \/ OtherInterrupt
    \/ Configure
    \/ Test
    \/ Take
    \/ Clear

PathSpec == PathInit /\ [][PathNext]_pathVars

-----------------------------------------------------------------------------
(* The reader never gets an event nobody posted, however the interrupts    *)
(* fall into its two steps: what it has, what was thrown away and what is  *)
(* left were all posted, and input_events_queued does not run below zero.  *)
NoEventInvented ==
    /\ taken + discarded + input_events_queued <= posted
    /\ reader.at = "tested" =>
         0 < reader.local /\ reader.local <= input_events_queued

(* An event is lost only if it was posted between the test and the         *)
(* subtraction of input_get_event: without such an interrupt, all events   *)
(* are read, thrown away or still to be read.                              *)
OnlyRacesLoseEvents ==
    posted - (taken + discarded + input_events_queued) <= raced

(* The interrupts counted by line. *)
Counts == [irq \in Lines |-> handlers[irq].handled_count]

Handled == SumFunctionOnSet(Counts, Lines)

(* The interrupt counters add up, whoever registers and removes handlers   *)
(* in between, and account for every event: none is posted by an interrupt *)
(* no line has counted, and keys and buttons only are counted as processed. *)
InterruptsAccountedFor ==
    /\ total_interrupts = Handled + uncounted
    /\ posted <= Handled
    /\ total_events_processed <= posted
=============================================================================
