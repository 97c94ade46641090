--------------------------- MODULE ProcessManager ---------------------------
(***************************************************************************)
(* The process manager of src/prcs.c.                                      *)
(*                                                                         *)
(* Slots of process_table are filled from the left and never given back:   *)
(* the table is a sequence that only grows, and every operation finds its  *)
(* process by searching the sequence for a pid.  A call for a pid that is  *)
(* not in the table changes nothing.                                       *)
(*                                                                         *)
(* Left out: fields that are only stored and copied out (name, working     *)
(* directory, uid, CPU time, memory sizes, blocked_io_count, registers).   *)
(***************************************************************************)
EXTENDS Integers, Sequences, FiniteSets, SequencesExt

CONSTANTS
    MAX_PROCESSES,            \* slots of the process table
    MAX_THREADS_PER_PROCESS,
    MAX_OPEN_FILES,           \* slots of a process's open_files array
    Priorities,               \* priorities callers ask for
    ExitCodes,                \* exit codes callers report
    Fds,                      \* file descriptors callers record
    COUNTER,                  \* values of total_context_switches
    MaxTerminations           \* bound on total_process_terminations

ASSUME ProcessAssumption ==
    /\ MAX_PROCESSES \in Nat \ {0}
    /\ MAX_THREADS_PER_PROCESS \in Nat
    /\ MAX_OPEN_FILES \in Nat
    /\ Priorities \subseteq Nat
    /\ ExitCodes \subseteq Nat
    /\ Fds \subseteq Nat \ {0}
    /\ COUNTER \in Nat /\ COUNTER > 1
    /\ MaxTerminations \in Nat

States == {"CREATED", "READY", "RUNNING", "BLOCKED", "ZOMBIE"}

NoProcess == 0    \* current_process == NULL; also the pid "nobody"
NotEnded == -1    \* no exit code

VARIABLES
    process_table,            \* the filled slots
    next_pid,
    current_pid,
    current_process,          \* the slot current_process points to
    total_context_switches,
    total_process_creations,
    total_process_terminations,
    total_thread_creations,
    held,                     \* history: the files each process has open
    ended                     \* history: the exit code of its last termination,
                              \* or NotEnded if it was unblocked after that

vars == <<process_table, next_pid, current_pid, current_process,
          total_context_switches, total_process_creations,
          total_process_terminations, total_thread_creations, held, ended>>

counters == <<total_context_switches, total_process_creations,
              total_process_terminations, total_thread_creations>>

current == <<current_pid, current_process>>

history == <<held, ended>>

-----------------------------------------------------------------------------
(* The state process_manager_init leaves. *)
Init ==
    /\ process_table = <<>>
    /\ next_pid = 1
    /\ current_pid = 0
    /\ current_process = NoProcess
    /\ total_context_switches = 0
    /\ total_process_creations = 0
    /\ total_process_terminations = 0
    /\ total_thread_creations = 0
    /\ held = <<>>
    /\ ended = <<>>

Slots == DOMAIN process_table

(* The search every operation starts with: the first slot with this pid. *)
Find(pid, i) ==
    /\ i \in Slots
    /\ process_table[i].pid = pid
    /\ \A j \in Slots : process_table[j].pid = pid => i <= j

(* A pid callers may pass: every pid given out so far, and one that is not. *)
Pids == 1 .. next_pid

(* Mutated form: a child is entered as its own parent's sibling, under the *)
(* pid that will be given out next.                                        *)
ParentIsNextPid == next_pid

(* The parent process_create enters in a new slot. *)
ParentOfNew == current_pid

process_create(priority) ==
    /\ Len(process_table) < MAX_PROCESSES
    /\ process_table' = Append(process_table,
           [pid |-> next_pid, ppid |-> ParentOfNew, state |-> "CREATED",
            priority |-> priority, exit_code |-> 0, thread_count |-> 0,
            open_files |-> <<>>])
    /\ next_pid' = next_pid + 1
    /\ total_process_creations' = total_process_creations + 1
    /\ held' = Append(held, {})
    /\ ended' = Append(ended, NotEnded)
    /\ UNCHANGED <<current, total_context_switches,
                   total_process_terminations, total_thread_creations>>

CountTermination(i) == total_process_terminations + 1

(* Terminating works in every state, and a second time as well. *)
process_terminate(pid, exit_code) ==
    /\ total_process_terminations < MaxTerminations
    /\ \E i \in Slots :
         /\ Find(pid, i)
         /\ process_table' = [process_table EXCEPT
                ![i].state = "ZOMBIE", ![i].exit_code = exit_code]
         /\ total_process_terminations' = CountTermination(i)
         /\ ended' = [ended EXCEPT ![i] = exit_code]
    /\ UNCHANGED <<next_pid, current, held, total_context_switches,
                   total_process_creations, total_thread_creations>>

(* Mutated form: the limit is compared after the new thread was counted. *)
OneThreadTooMany(i) == process_table[i].thread_count <= MAX_THREADS_PER_PROCESS

(* A process can have one more thread. *)
RoomForThread(i) == process_table[i].thread_count < MAX_THREADS_PER_PROCESS

thread_create(pid) ==
    /\ \E i \in Slots :
         /\ Find(pid, i)
         /\ RoomForThread(i)
         /\ process_table' = [process_table EXCEPT ![i].thread_count = @ + 1]
    /\ total_thread_creations' = total_thread_creations + 1
    /\ UNCHANGED <<next_pid, current, history, total_context_switches,
                   total_process_creations, total_process_terminations>>

(* Mutated form: a zombie can be scheduled. *)
AnyWaiting(i) == process_table[i].state \in {"READY", "CREATED", "ZOMBIE"}

(* The scheduler considers only these states. *)
Waiting(i) == process_table[i].state \in {"READY", "CREATED"}

(* The loop starts from highest_priority = 0 and replaces its choice only  *)
(* for a strictly higher priority: a process of priority 0 is never        *)
(* chosen, and of equals the one in the first slot is.                     *)
Runnable(i) == Waiting(i) /\ process_table[i].priority > 0

Chosen(i) ==
    /\ Runnable(i)
    /\ \A j \in Slots : Runnable(j) =>
         \/ process_table[j].priority < process_table[i].priority
         \/ process_table[j].priority = process_table[i].priority /\ i <= j

(* Mutated form: the choice is entered as current, but not marked RUNNING. *)
ForgetRunning(i) == process_table

(* The process that was running keeps its state. *)
MarkRunning(i) == [process_table EXCEPT ![i].state = "RUNNING"]

(* Mutated form: current_process is left at the process that ran before. *)
StaleCurrentProcess(i) == current_process

SlotOfCurrent(i) == i

schedule_next_process ==
    /\ total_context_switches' = (total_context_switches + 1) % COUNTER
    /\ \/ \E i \in Slots :
            /\ Chosen(i)
            /\ current_pid' = process_table[i].pid
            /\ \E s \in Slots :
                 /\ Find(process_table[i].pid, s)
                 /\ current_process' = SlotOfCurrent(s)
                 /\ process_table' = MarkRunning(s)
       \/ /\ \A i \in Slots : ~Runnable(i)
          /\ UNCHANGED <<current, process_table>>
    /\ UNCHANGED <<next_pid, history, total_process_creations,
                   total_process_terminations, total_thread_creations>>

process_set_priority(pid, priority) ==
    /\ \E i \in Slots :
         /\ Find(pid, i)
         /\ process_table' = [process_table EXCEPT ![i].priority = priority]
    /\ UNCHANGED <<next_pid, current, counters, history>>

(* A full array takes no more, and the caller is not told. *)
With(files, fd) ==
    IF Len(files) < MAX_OPEN_FILES THEN Append(files, fd) ELSE files

process_add_open_file(pid, fd) ==
    /\ \E i \in Slots :
         /\ Find(pid, i)
         /\ process_table' = [process_table EXCEPT
                ![i].open_files = With(@, fd)]
         /\ held' = [held EXCEPT ![i] = @ \cup {fd}]
    /\ UNCHANGED <<next_pid, current, counters, ended>>

(* Mutated form: the search stops at the first entry it clears. *)
WithoutFirst(files, fd) ==
    [j \in DOMAIN files |->
       IF files[j] = fd /\ (\A k \in DOMAIN files : files[k] = fd => j <= k)
         THEN 0 ELSE files[j]]

(* Every entry of the descriptor becomes 0; the array keeps its length. *)
Without(files, fd) ==
    [j \in DOMAIN files |-> IF files[j] = fd THEN 0 ELSE files[j]]

process_remove_open_file(pid, fd) ==
    /\ \E i \in Slots :
         /\ Find(pid, i)
         /\ process_table' = [process_table EXCEPT
                ![i].open_files = Without(@, fd)]
         /\ held' = [held EXCEPT ![i] = @ \ {fd}]
    /\ UNCHANGED <<next_pid, current, counters, ended>>

(* Both set the state whatever it was. *)
process_block_for_io(pid) ==
    /\ \E i \in Slots :
         /\ Find(pid, i)
         /\ process_table' = [process_table EXCEPT ![i].state = "BLOCKED"]
    /\ UNCHANGED <<next_pid, current, counters, history>>

process_unblock(pid) ==
    /\ \E i \in Slots :
         /\ Find(pid, i)
         /\ process_table' = [process_table EXCEPT ![i].state = "READY"]
         /\ ended' = [ended EXCEPT ![i] = NotEnded]
    /\ UNCHANGED <<next_pid, current, counters, held>>

Request ==
    \/ \E priority \in Priorities : process_create(priority)
    \/ \E pid \in Pids :
         \/ \E exit_code \in ExitCodes : process_terminate(pid, exit_code)
         \/ thread_create(pid)
         \/ \E priority \in Priorities : process_set_priority(pid, priority)
         \/ \E fd \in Fds : process_add_open_file(pid, fd)
         \/ \E fd \in Fds : process_remove_open_file(pid, fd)
         \/ process_block_for_io(pid)
         \/ process_unblock(pid)

Next == Request \/ schedule_next_process

Spec == Init /\ [][Next]_vars

(* Nothing in the kernel calls the scheduler yet.  Its callers are assumed *)
(* to do what a timer interrupt would: call it again and again.            *)
FairSpec == Spec /\ WF_vars(schedule_next_process)

-----------------------------------------------------------------------------
(* Type invariant. *)
Process ==
    [pid : Nat, ppid : Nat, state : States, priority : Nat, exit_code : Nat,
     thread_count : 0 .. MAX_THREADS_PER_PROCESS, open_files : Seq(Nat)]

TypeOK ==
    /\ process_table \in Seq(Process)
    /\ Len(process_table) <= MAX_PROCESSES
    /\ next_pid \in Nat
    /\ current_pid \in Nat
    /\ current_process \in Nat
    /\ total_context_switches \in 0 .. (COUNTER - 1)
    /\ total_process_creations \in Nat
    /\ total_process_terminations \in Nat
    /\ total_thread_creations \in Nat
    /\ held \in Seq(SUBSET Fds)
    /\ Len(held) = Len(process_table)
    /\ ended \in Seq(ExitCodes \cup {NotEnded})
    /\ Len(ended) = Len(process_table)

(* Pids are the slots' numbers, so that a search by pid finds one process  *)
(* and no pid is given out twice; a parent's pid is that of an older       *)
(* process (or 0), so that following ppid from any process ends.           *)
ProcessTreeOrdered ==
    /\ next_pid = Len(process_table) + 1
    /\ \A i \in Slots :
         /\ process_table[i].pid = i
         /\ process_table[i].ppid < i

(* The two records of who is current agree: both name the same process or  *)
(* none, and no process is RUNNING before the first one was scheduled.     *)
CurrentAgrees ==
    /\ IF current_pid = 0
         THEN current_process = NoProcess
         ELSE /\ current_process \in Slots
              /\ process_table[current_process].pid = current_pid
    /\ current_pid = 0 => \A i \in Slots : process_table[i].state # "RUNNING"

(* What a process's open_files lists is open: it was told of and not told  *)
(* to drop.  What is open is listed, unless the array has been full: it    *)
(* never gives a place back, and drops what comes after the last one       *)
(* without a word (src/prcs.c:247).                                        *)
FilesTracked ==
    \A i \in Slots :
        /\ ToSet(process_table[i].open_files) \ {0} \subseteq held[i]
        /\ Len(process_table[i].open_files) < MAX_OPEN_FILES =>
             held[i] \subseteq ToSet(process_table[i].open_files)

(* What the last termination left of a process: off the ready list and off *)
(* the processor, with the exit code of that termination.                  *)
EndedAs(p, exit_code) ==
    /\ exit_code # NotEnded =>
         p.state \in {"ZOMBIE", "BLOCKED"} /\ p.exit_code = exit_code
    /\ p.state = "ZOMBIE" => exit_code # NotEnded

(* Whatever is asked of it, a terminated process is neither ready nor      *)
(* running and shows process_wait the exit code of its last termination.   *)
(* The one way back is process_unblock (src/prcs.c:292): an unblock that   *)
(* comes after the termination makes it ready, and it can run again.       *)
EndedStayEnded == \A i \in Slots : EndedAs(process_table[i], ended[i])

(* When the requests cease, the scheduler drains the table: eventually no  *)
(* process of positive priority is waiting any more.  (It never takes a    *)
(* process off the processor, so it chooses each at most once.)            *)
SchedulerDrains ==
    <>[][schedule_next_process]_vars =>
        <>[](\A i \in Slots : ~Runnable(i))

(* The configuration's scheduler = round_robin (src/sys.cfg:84): a process *)
(* that waits for the processor is given its turn.                         *)
EveryRunnableGetsATurn ==
    \A i \in 1 .. MAX_PROCESSES :
        (i \in Slots /\ Runnable(i)) ~> (i \in Slots /\ ~Runnable(i))
=============================================================================
