------------------------ MODULE ProcessManagerProofs ------------------------
(***************************************************************************)
(* Proofs about the process manager, for tables of any size and any pids,  *)
(* priorities, files and exit codes.                                       *)
(*                                                                         *)
(* The invariant is inductive only as a whole: that a new process's parent *)
(* is older (ProcessTreeOrdered) needs that the current pid is one of the  *)
(* table's (CurrentAgrees), and that needs pids to be the slots' numbers.  *)
(* That files stay tracked, and that what ended stays ended until it is    *)
(* unblocked, is then shown from what each step does to the one slot it    *)
(* changes.                                                                *)
(***************************************************************************)
EXTENDS ProcessManager, TLAPS

ProcessInv == TypeOK /\ ProcessTreeOrdered /\ CurrentAgrees

(* Process p takes slot i without changing who it is. *)
Replaces(p, i) ==
    /\ i \in Slots
    /\ p \in Process
    /\ p.pid = process_table[i].pid
    /\ p.ppid = process_table[i].ppid
    /\ process_table' = [process_table EXCEPT ![i] = p]

-----------------------------------------------------------------------------
LEMMA InvInitially == Init => ProcessInv
  <1> SUFFICES ASSUME Init PROVE ProcessInv
    OBVIOUS
  <1>1. TypeOK
    BY ProcessAssumption DEF Init, TypeOK, NoProcess
  <1>2. ProcessTreeOrdered
    BY DEF Init, ProcessTreeOrdered, Slots
  <1>3. CurrentAgrees
    BY DEF Init, CurrentAgrees, NoProcess, Slots
  <1> QED
    BY <1>1, <1>2, <1>3 DEF ProcessInv

(* What a change of one slot keeps. *)
LEMMA SlotReplaced ==
    ASSUME ProcessInv, NEW i, NEW p, Replaces(p, i), next_pid' = next_pid
    PROVE  /\ process_table' \in Seq(Process)
           /\ Len(process_table') = Len(process_table)
           /\ Slots' = Slots
           /\ \A j \in Slots : /\ process_table'[j].pid = process_table[j].pid
                               /\ j # i => process_table'[j] = process_table[j]
           /\ process_table'[i] = p
           /\ ProcessTreeOrdered'
  <1>1. /\ process_table \in Seq(Process)
        /\ i \in Slots /\ Slots = 1 .. Len(process_table)
        /\ p \in Process
        /\ process_table' = [process_table EXCEPT ![i] = p]
    BY DEF ProcessInv, TypeOK, Replaces, Slots
  <1>2. process_table' \in Seq(Process) /\ Len(process_table') = Len(process_table)
    BY <1>1
  <1>3. Slots' = Slots
    BY <1>1, <1>2 DEF Slots
  <1>4. /\ process_table'[i] = p
        /\ \A j \in Slots : j # i => process_table'[j] = process_table[j]
    BY <1>1
  <1>5. \A j \in Slots : /\ process_table'[j].pid = process_table[j].pid
                         /\ process_table'[j].ppid = process_table[j].ppid
    BY <1>4 DEF Replaces
  <1>6. ProcessTreeOrdered'
    BY <1>2, <1>3, <1>5 DEF ProcessInv, ProcessTreeOrdered
  <1> QED
    BY <1>2, <1>3, <1>4, <1>5, <1>6

(* A change of one slot that leaves alone who is current, and does not     *)
(* mark a process RUNNING that was not, keeps CurrentAgrees.               *)
LEMMA CurrentKept ==
    ASSUME ProcessInv, NEW i, NEW p, Replaces(p, i), next_pid' = next_pid,
           UNCHANGED current,
           p.state = "RUNNING" => process_table[i].state = "RUNNING"
    PROVE  CurrentAgrees'
  <1>1. /\ Slots' = Slots
        /\ \A j \in Slots : /\ process_table'[j].pid = process_table[j].pid
                            /\ j # i => process_table'[j] = process_table[j]
        /\ process_table'[i] = p
        /\ i \in Slots
    BY SlotReplaced DEF Replaces
  <1>2. \A j \in Slots : process_table'[j].state = "RUNNING" =>
                           process_table[j].state = "RUNNING"
    BY <1>1
  <1> QED
    BY <1>1, <1>2 DEF ProcessInv, CurrentAgrees, current

(* One entry of ended is replaced, by an exit code or NotEnded. *)
LEMMA EndReplaced ==
    ASSUME ProcessInv, NEW i \in Slots, NEW code \in ExitCodes \cup {NotEnded},
           ended' = [ended EXCEPT ![i] = code]
    PROVE  ended' \in Seq(ExitCodes \cup {NotEnded}) /\ Len(ended') = Len(ended)
  <1> DEFINE Codes == ExitCodes \cup {NotEnded}
  <1>1. ended \in Seq(Codes) /\ code \in Codes /\ i \in 1 .. Len(ended)
    BY DEF ProcessInv, TypeOK, Slots
  <1> HIDE DEF Codes
  <1>2. ended' \in Seq(Codes) /\ Len(ended') = Len(ended)
    BY <1>1
  <1> QED
    BY <1>2 DEF Codes

(* The two lemmas together, for a step of the table's alone. *)
LEMMA StepOfOneSlot ==
    ASSUME ProcessInv, NEW i, NEW p, Replaces(p, i), next_pid' = next_pid,
           UNCHANGED current,
           p.state = "RUNNING" => process_table[i].state = "RUNNING",
           held' \in Seq(SUBSET Fds), Len(held') = Len(held),
           ended' \in Seq(ExitCodes \cup {NotEnded}), Len(ended') = Len(ended),
           total_context_switches' = total_context_switches,
           total_process_creations' \in Nat,
           total_process_terminations' \in Nat,
           total_thread_creations' \in Nat
    PROVE  ProcessInv'
  <1>1. ProcessTreeOrdered' /\ CurrentAgrees'
    BY SlotReplaced, CurrentKept
  <1>2. TypeOK'
    BY SlotReplaced DEF ProcessInv, TypeOK, current
  <1> QED
    BY <1>1, <1>2 DEF ProcessInv

-----------------------------------------------------------------------------
(* A slot that a search finds holds a process. *)
LEMMA SlotHoldsProcess ==
    ASSUME ProcessInv, NEW i \in Slots
    PROVE  process_table[i] \in Process
  BY DEF ProcessInv, TypeOK, Slots

LEMMA InvAfterCreate ==
    ASSUME ProcessInv, NEW priority \in Priorities, process_create(priority)
    PROVE  ProcessInv'
  <1> DEFINE n == Len(process_table)
             new == [pid |-> next_pid, ppid |-> current_pid, state |-> "CREATED",
                     priority |-> priority, exit_code |-> 0, thread_count |-> 0,
                     open_files |-> <<>>]
  <1>1. /\ process_table \in Seq(Process) /\ n \in Nat
        /\ n < MAX_PROCESSES
        /\ process_table' = Append(process_table, new)
        /\ next_pid = n + 1 /\ next_pid' = next_pid + 1
        /\ Slots = 1 .. n
    BY DEF ProcessInv, TypeOK, ProcessTreeOrdered, process_create, ParentOfNew, Slots
  <1>2. new \in Process
    BY ProcessAssumption, <1>1 DEF ProcessInv, TypeOK, Process, States
  <1>3. /\ process_table' \in Seq(Process)
        /\ Len(process_table') = n + 1
        /\ process_table'[n + 1] = new
        /\ \A j \in Slots : process_table'[j] = process_table[j]
    BY <1>1, <1>2
  <1>4. Slots' = 1 .. (n + 1)
    BY <1>1, <1>3 DEF Slots
  <1>5. TypeOK'
    <2>1. /\ held' \in Seq(SUBSET Fds) /\ Len(held') = n + 1
          /\ ended' \in Seq(ExitCodes \cup {NotEnded}) /\ Len(ended') = n + 1
      BY DEF ProcessInv, TypeOK, process_create
    <2>2. Len(process_table') <= MAX_PROCESSES
      BY <1>1, <1>3, ProcessAssumption
    <2> QED
      BY <1>1, <1>3, <2>1, <2>2
         DEF ProcessInv, TypeOK, process_create, current
  <1>6. ProcessTreeOrdered'
    <2>1. current_pid < n + 1
      BY <1>1 DEF ProcessInv, TypeOK, ProcessTreeOrdered, CurrentAgrees
    <2>2. new.pid = n + 1 /\ new.ppid = current_pid
      BY <1>1
    <2>3. \A j \in Slots' : process_table'[j].pid = j /\ process_table'[j].ppid < j
      <3> HIDE DEF new
      <3> QED
        BY <1>1, <1>3, <1>4, <2>1, <2>2 DEF ProcessInv, ProcessTreeOrdered
    <2> QED
      BY <1>1, <1>3, <2>3 DEF ProcessTreeOrdered
  <1>7. CurrentAgrees'
    <2>1. UNCHANGED <<current_pid, current_process>> /\ new.state = "CREATED"
      BY DEF process_create, current
    <2> HIDE DEF new
    <2> QED
      BY <1>1, <1>3, <1>4, <2>1 DEF ProcessInv, CurrentAgrees
  <1> QED
    BY <1>5, <1>6, <1>7 DEF ProcessInv

LEMMA InvAfterTerminate ==
    ASSUME ProcessInv, NEW pid, NEW exit_code \in ExitCodes,
           process_terminate(pid, exit_code)
    PROVE  ProcessInv'
  <1>1. PICK i \in Slots :
          /\ process_table' = [process_table EXCEPT
                 ![i].state = "ZOMBIE", ![i].exit_code = exit_code]
          /\ total_process_terminations' = total_process_terminations + 1
          /\ ended' = [ended EXCEPT ![i] = exit_code]
    BY DEF process_terminate, CountTermination
  <1> DEFINE p == [process_table[i] EXCEPT !.state = "ZOMBIE", !.exit_code = exit_code]
  <1>2. p \in Process /\ p.state = "ZOMBIE"
        /\ p.pid = process_table[i].pid /\ p.ppid = process_table[i].ppid
    BY SlotHoldsProcess, ProcessAssumption DEF Process, States
  <1>3. process_table' = [process_table EXCEPT ![i] = p]
    BY <1>1 DEF ProcessInv, TypeOK, Slots
  <1>4. Replaces(p, i)
    BY <1>2, <1>3 DEF Replaces
  <1>5. /\ next_pid' = next_pid /\ UNCHANGED current
        /\ held' \in Seq(SUBSET Fds) /\ Len(held') = Len(held)
        /\ ended' \in Seq(ExitCodes \cup {NotEnded}) /\ Len(ended') = Len(ended)
        /\ total_context_switches' = total_context_switches
        /\ total_process_creations' \in Nat
        /\ total_process_terminations' \in Nat
        /\ total_thread_creations' \in Nat
    <2>1. ended' \in Seq(ExitCodes \cup {NotEnded}) /\ Len(ended') = Len(ended)
      BY <1>1, EndReplaced
    <2> QED
      BY <1>1, <2>1 DEF process_terminate, ProcessInv, TypeOK
  <1> HIDE DEF p
  <1> QED
    BY <1>2, <1>4, <1>5, StepOfOneSlot

LEMMA InvAfterThread ==
    ASSUME ProcessInv, NEW pid, thread_create(pid)
    PROVE  ProcessInv'
  <1>1. PICK i \in Slots :
          /\ RoomForThread(i)
          /\ process_table' = [process_table EXCEPT ![i].thread_count = @ + 1]
    BY DEF thread_create
  <1> DEFINE p == [process_table[i] EXCEPT !.thread_count = @ + 1]
  <1>2. p \in Process /\ p.state = process_table[i].state
        /\ p.pid = process_table[i].pid /\ p.ppid = process_table[i].ppid
    <2>1. process_table[i].thread_count + 1 \in 0 .. MAX_THREADS_PER_PROCESS
      BY <1>1, SlotHoldsProcess, ProcessAssumption DEF Process, RoomForThread
    <2>2. p = [process_table[i] EXCEPT !.thread_count = process_table[i].thread_count + 1]
      OBVIOUS
    <2> QED
      BY <2>1, <2>2, SlotHoldsProcess DEF Process
  <1>3. process_table' = [process_table EXCEPT ![i] = p]
    BY <1>1 DEF ProcessInv, TypeOK, Slots
  <1>4. Replaces(p, i)
    BY <1>2, <1>3 DEF Replaces
  <1>5. /\ next_pid' = next_pid /\ UNCHANGED current
        /\ held' \in Seq(SUBSET Fds) /\ Len(held') = Len(held)
        /\ ended' \in Seq(ExitCodes \cup {NotEnded}) /\ Len(ended') = Len(ended)
        /\ total_context_switches' = total_context_switches
        /\ total_process_creations' \in Nat
        /\ total_process_terminations' \in Nat
        /\ total_thread_creations' \in Nat
    BY DEF thread_create, history, ProcessInv, TypeOK
  <1> HIDE DEF p
  <1> QED
    BY <1>2, <1>4, <1>5, StepOfOneSlot

(* process_set_priority, process_block_for_io and process_unblock. *)
LEMMA InvAfterRestate ==
    ASSUME ProcessInv, NEW pid,
           \/ \E priority \in Priorities : process_set_priority(pid, priority)
           \/ process_block_for_io(pid)
           \/ process_unblock(pid)
    PROVE  ProcessInv'
  <1>1. /\ UNCHANGED <<next_pid, current, counters, held>>
        /\ ended' \in Seq(ExitCodes \cup {NotEnded}) /\ Len(ended') = Len(ended)
    BY EndReplaced DEF process_set_priority, process_block_for_io, process_unblock,
                       history, ProcessInv, TypeOK
  <1>2. PICK i \in Slots :
          \/ \E priority \in Priorities :
               process_table' = [process_table EXCEPT ![i].priority = priority]
          \/ \E state \in {"BLOCKED", "READY"} :
               process_table' = [process_table EXCEPT ![i].state = state]
    BY DEF process_set_priority, process_block_for_io, process_unblock
  <1>3. \E p : /\ Replaces(p, i)
               /\ p.state = "RUNNING" => process_table[i].state = "RUNNING"
    <2>1. ASSUME NEW priority \in Priorities,
                 process_table' = [process_table EXCEPT ![i].priority = priority]
          PROVE  Replaces([process_table[i] EXCEPT !.priority = priority], i)
      BY <2>1, SlotHoldsProcess, ProcessAssumption DEF Process, Replaces
    <2>2. ASSUME NEW state \in {"BLOCKED", "READY"},
                 process_table' = [process_table EXCEPT ![i].state = state]
          PROVE  /\ Replaces([process_table[i] EXCEPT !.state = state], i)
                 /\ [process_table[i] EXCEPT !.state = state].state # "RUNNING"
      BY <2>2, SlotHoldsProcess DEF Process, States, Replaces
    <2>3. \A priority : [process_table[i] EXCEPT !.priority = priority].state
                          = process_table[i].state
      BY SlotHoldsProcess DEF Process
    <2> QED
      BY <1>2, <2>1, <2>2, <2>3
  <1> QED
    BY <1>1, <1>3, StepOfOneSlot DEF counters, ProcessInv, TypeOK

(* process_add_open_file and process_remove_open_file: open_files stays a  *)
(* sequence, and held follows in the same slot.                            *)
LEMMA FilesReplaced ==
    ASSUME ProcessInv, NEW i \in Slots, NEW files \in Seq(Nat),
           NEW kept \in SUBSET Fds,
           process_table' = [process_table EXCEPT ![i].open_files = files],
           held' = [held EXCEPT ![i] = kept],
           UNCHANGED <<next_pid, current, counters, ended>>
    PROVE  ProcessInv'
  <1> DEFINE p == [process_table[i] EXCEPT !.open_files = files]
  <1>1. p \in Process /\ p.state = process_table[i].state
        /\ p.pid = process_table[i].pid /\ p.ppid = process_table[i].ppid
    BY SlotHoldsProcess DEF Process
  <1>2. process_table' = [process_table EXCEPT ![i] = p]
    BY DEF ProcessInv, TypeOK, Slots
  <1>3. Replaces(p, i)
    BY <1>1, <1>2 DEF Replaces
  <1>4. held' \in Seq(SUBSET Fds) /\ Len(held') = Len(held)
    <2> DEFINE Files == SUBSET Fds
    <2>1. held \in Seq(Files) /\ i \in 1 .. Len(held) /\ kept \in Files
      BY DEF ProcessInv, TypeOK, Slots
    <2> HIDE DEF Files
    <2>2. held' \in Seq(Files) /\ Len(held') = Len(held)
      BY <2>1
    <2> QED
      BY <2>2 DEF Files
  <1> HIDE DEF p
  <1> QED
    BY <1>1, <1>3, <1>4, StepOfOneSlot DEF counters, ProcessInv, TypeOK

LEMMA InvAfterAddFile ==
    ASSUME ProcessInv, NEW pid, NEW fd \in Fds, process_add_open_file(pid, fd)
    PROVE  ProcessInv'
  <1>1. PICK i \in Slots :
          /\ process_table' = [process_table EXCEPT
                 ![i].open_files = With(@, fd)]
          /\ held' = [held EXCEPT ![i] = @ \cup {fd}]
    BY DEF process_add_open_file
  <1>2. With(process_table[i].open_files, fd) \in Seq(Nat)
    <2>1. process_table[i].open_files \in Seq(Nat) /\ fd \in Nat
      BY SlotHoldsProcess, ProcessAssumption DEF Process
    <2> QED
      BY <2>1 DEF With
  <1>3. held[i] \cup {fd} \in SUBSET Fds
    BY DEF ProcessInv, TypeOK, Slots
  <1> QED
    BY <1>1, <1>2, <1>3, FilesReplaced DEF process_add_open_file

LEMMA InvAfterRemoveFile ==
    ASSUME ProcessInv, NEW pid, NEW fd \in Fds, process_remove_open_file(pid, fd)
    PROVE  ProcessInv'
  <1>1. PICK i \in Slots :
          /\ process_table' = [process_table EXCEPT
                 ![i].open_files = Without(@, fd)]
          /\ held' = [held EXCEPT ![i] = @ \ {fd}]
    BY DEF process_remove_open_file
  <1>2. Without(process_table[i].open_files, fd) \in Seq(Nat)
    BY SlotHoldsProcess DEF Process, Without
  <1>3. held[i] \ {fd} \in SUBSET Fds
    BY DEF ProcessInv, TypeOK, Slots
  <1> QED
    BY <1>1, <1>2, <1>3, FilesReplaced DEF process_remove_open_file

(* The process chosen is found again by its pid, in the same slot. *)
LEMMA InvAfterSchedule ==
    ASSUME ProcessInv, schedule_next_process
    PROVE  ProcessInv'
  <1>1. /\ total_context_switches' \in 0 .. (COUNTER - 1)
        /\ UNCHANGED <<next_pid, held, ended, total_process_creations,
                       total_process_terminations, total_thread_creations>>
    <2>1. /\ total_context_switches \in Nat
          /\ total_context_switches' = (total_context_switches + 1) % COUNTER
      BY ProcessAssumption DEF schedule_next_process, ProcessInv, TypeOK
    <2> QED
      BY <2>1, ProcessAssumption DEF schedule_next_process, history
  <1>2. CASE UNCHANGED <<current, process_table>>
    BY <1>1, <1>2 DEF ProcessInv, TypeOK, ProcessTreeOrdered, CurrentAgrees, Slots,
                      current
  <1>3. ASSUME NEW i \in Slots, NEW s \in Slots,
               current_pid' = process_table[i].pid,
               Find(process_table[i].pid, s),
               current_process' = s,
               process_table' = [process_table EXCEPT ![s].state = "RUNNING"]
        PROVE  ProcessInv'
    <2> DEFINE p == [process_table[s] EXCEPT !.state = "RUNNING"]
    <2>1. p \in Process /\ p.pid = process_table[s].pid /\ p.ppid = process_table[s].ppid
      BY SlotHoldsProcess DEF Process, States
    <2>2. Replaces(p, s)
      BY <1>3, <2>1 DEF Replaces, ProcessInv, TypeOK, Slots
    <2> HIDE DEF p
    <2>3. /\ process_table' \in Seq(Process)
          /\ Len(process_table') = Len(process_table)
          /\ Slots' = Slots
          /\ \A j \in Slots : process_table'[j].pid = process_table[j].pid
          /\ ProcessTreeOrdered'
      BY <1>1, <2>2, SlotReplaced
    <2>4. current_pid' \in Nat \ {0} /\ current_process' \in Nat
      BY <1>3 DEF ProcessInv, TypeOK, ProcessTreeOrdered, Slots
    <2>5. TypeOK'
      BY <1>1, <2>3, <2>4 DEF ProcessInv, TypeOK
    <2>6. CurrentAgrees'
      BY <1>3, <2>3, <2>4 DEF CurrentAgrees, Find
    <2> QED
      BY <2>3, <2>5, <2>6 DEF ProcessInv
  <1> QED
    BY <1>2, <1>3 DEF schedule_next_process, SlotOfCurrent, MarkRunning

LEMMA InvKept == ProcessInv /\ [Next]_vars => ProcessInv'
  <1> SUFFICES ASSUME ProcessInv, [Next]_vars
               PROVE  ProcessInv'
    OBVIOUS
  <1>1. CASE UNCHANGED vars
    BY <1>1 DEF vars, ProcessInv, TypeOK, ProcessTreeOrdered, CurrentAgrees, Slots
  <1>2. CASE Request
    BY <1>2, InvAfterCreate, InvAfterTerminate, InvAfterThread, InvAfterRestate,
       InvAfterAddFile, InvAfterRemoveFile DEF Request
  <1> QED
    BY <1>1, <1>2, InvAfterSchedule DEF Next

LEMMA InvHolds == Spec => []ProcessInv
  BY InvInitially, InvKept, PTL DEF Spec

(* The table, the counters and the history keep their types, so that no    *)
(* operation of src/prcs.c indexes behind the table or its threads.        *)
THEOREM ProcessTypesHold == Spec => []TypeOK
  <1>1. ProcessInv => TypeOK
    BY DEF ProcessInv
  <1> QED
    BY <1>1, InvHolds, PTL

(* Pids are unique and a process is younger than its parent, although      *)
(* process_create takes whoever is current for the parent (src/prcs.c:110).*)
THEOREM TreeStaysOrdered == Spec => []ProcessTreeOrdered
  <1>1. ProcessInv => ProcessTreeOrdered
    BY DEF ProcessInv
  <1> QED
    BY <1>1, InvHolds, PTL

(* current_pid and current_process never disagree (src/prcs.c:203-206).    *)
THEOREM CurrentStaysOne == Spec => []CurrentAgrees
  <1>1. ProcessInv => CurrentAgrees
    BY DEF ProcessInv
  <1> QED
    BY <1>1, InvHolds, PTL

-----------------------------------------------------------------------------
(* A step that changes no slot's files, and at most appends a slot without *)
(* any, keeps track of the files.                                          *)
LEMMA FilesLeftAlone ==
    ASSUME FilesTracked, Slots \subseteq Slots',
           \A i \in Slots : /\ process_table'[i].open_files = process_table[i].open_files
                            /\ held'[i] = held[i],
           \A i \in Slots' \ Slots : process_table'[i].open_files = <<>> /\ held'[i] = {}
    PROVE  FilesTracked'
  <1>1. ToSet(<<>>) = {}
    BY DEF ToSet
  <1> QED
    BY <1>1 DEF FilesTracked

(* The operations that leave all files alone. *)
LEMMA SlotKeepsFiles ==
    ASSUME ProcessInv, FilesTracked, NEW i \in Slots, NEW p \in Process,
           p.open_files = process_table[i].open_files,
           process_table' = [process_table EXCEPT ![i] = p],
           held' = held
    PROVE  FilesTracked'
  <1>1. Slots = 1 .. Len(process_table) /\ process_table \in Seq(Process)
    BY DEF ProcessInv, TypeOK, Slots
  <1>2. Slots' = Slots
    BY <1>1 DEF Slots
  <1>3. \A j \in Slots : process_table'[j].open_files = process_table[j].open_files
    BY <1>1
  <1> QED
    BY <1>2, <1>3, FilesLeftAlone

LEMMA CreateKeepsFiles ==
    ASSUME ProcessInv, FilesTracked, NEW priority \in Priorities,
           process_create(priority)
    PROVE  FilesTracked'
  <1> DEFINE n == Len(process_table)
             new == [pid |-> next_pid, ppid |-> current_pid, state |-> "CREATED",
                     priority |-> priority, exit_code |-> 0, thread_count |-> 0,
                     open_files |-> <<>>]
  <1>1. /\ process_table' = Append(process_table, new)
        /\ held' = Append(held, {})
        /\ process_table \in Seq(Process) /\ held \in Seq(SUBSET Fds)
        /\ n \in Nat /\ Len(held) = n /\ Slots = 1 .. n
    BY DEF process_create, ParentOfNew, ProcessInv, TypeOK, Slots
  <1>2. new.open_files = <<>>
    OBVIOUS
  <1> HIDE DEF new
  <1>3. /\ DOMAIN process_table' = 1 .. (n + 1)
        /\ process_table'[n + 1] = new
        /\ \A j \in 1 .. n : process_table'[j] = process_table[j]
    BY <1>1
  <1>4. held'[n + 1] = {} /\ \A j \in 1 .. n : held'[j] = held[j]
    BY <1>1
  <1>5. Slots' = 1 .. (n + 1)
    BY <1>3 DEF Slots
  <1>6. Slots' \ Slots = {n + 1} /\ Slots \subseteq Slots'
    BY <1>1, <1>5
  <1> QED
    BY <1>1, <1>2, <1>3, <1>4, <1>6, FilesLeftAlone

(* The operations on files: one slot gets files, and its history follows.  *)
LEMMA SlotChangesFiles ==
    ASSUME ProcessInv, FilesTracked, NEW i \in Slots, NEW files \in Seq(Nat),
           NEW kept \in SUBSET Fds, ToSet(files) \ {0} \subseteq kept,
           Len(files) < MAX_OPEN_FILES => kept \subseteq ToSet(files),
           process_table' = [process_table EXCEPT ![i].open_files = files],
           held' = [held EXCEPT ![i] = kept]
    PROVE  FilesTracked'
  <1> DEFINE one == [process_table[i] EXCEPT !.open_files = files]
  <1>1. /\ Slots = 1 .. Len(process_table) /\ process_table \in Seq(Process)
        /\ Slots = 1 .. Len(held) /\ held \in Seq(SUBSET Fds)
    BY DEF ProcessInv, TypeOK, Slots
  <1>2. one.open_files = files
    BY SlotHoldsProcess DEF Process
  <1>3. process_table' = [process_table EXCEPT ![i] = one]
    OBVIOUS
  <1> HIDE DEF one
  <1>4. Slots' = Slots
    BY <1>1, <1>3 DEF Slots
  <1>5. /\ process_table'[i] = one
        /\ \A j \in Slots \ {i} : process_table'[j] = process_table[j]
    BY <1>1, <1>3
  <1>6. held'[i] = kept /\ \A j \in Slots \ {i} : held'[j] = held[j]
    BY <1>1
  <1> QED
    BY <1>2, <1>4, <1>5, <1>6 DEF FilesTracked

LEMMA AddTracksFiles ==
    ASSUME ProcessInv, FilesTracked, NEW pid, NEW fd \in Fds,
           process_add_open_file(pid, fd)
    PROVE  FilesTracked'
  <1>1. PICK i \in Slots :
          /\ process_table' = [process_table EXCEPT ![i].open_files = With(@, fd)]
          /\ held' = [held EXCEPT ![i] = @ \cup {fd}]
    BY DEF process_add_open_file
  <1> DEFINE files == process_table[i].open_files
             more == With(files, fd)
  <1>2. files \in Seq(Nat) /\ fd \in Nat \ {0} /\ held[i] \cup {fd} \in SUBSET Fds
    <2>1. files \in Seq(Nat)
      BY SlotHoldsProcess DEF Process
    <2>2. fd \in Nat \ {0}
      BY ProcessAssumption
    <2>3. held[i] \in SUBSET Fds
      BY DEF ProcessInv, TypeOK, Slots
    <2> QED
      BY <2>1, <2>2, <2>3
  <1>3. /\ ToSet(files) \ {0} \subseteq held[i]
        /\ Len(files) < MAX_OPEN_FILES => held[i] \subseteq ToSet(files)
    BY DEF FilesTracked
  <1>4. process_table' = [process_table EXCEPT ![i].open_files = more]
    BY <1>1
  <1> HIDE DEF files
  <1>5. ToSet(Append(files, fd)) = ToSet(files) \cup {fd}
    <2>1. /\ DOMAIN Append(files, fd) = 1 .. (Len(files) + 1)
          /\ DOMAIN files = 1 .. Len(files) /\ Len(files) \in Nat
          /\ \A k \in 1 .. Len(files) : Append(files, fd)[k] = files[k]
          /\ Append(files, fd)[Len(files) + 1] = fd
      BY <1>2
    <2> QED
      BY <2>1 DEF ToSet
  <1>6. /\ more \in Seq(Nat)
        /\ ToSet(more) \ {0} \subseteq held[i] \cup {fd}
        /\ Len(more) < MAX_OPEN_FILES => held[i] \cup {fd} \subseteq ToSet(more)
    <2>1. CASE Len(files) < MAX_OPEN_FILES
      <3>1. more = Append(files, fd)
        BY <2>1 DEF With
      <3> QED
        BY <1>2, <1>3, <1>5, <2>1, <3>1
    <2>2. CASE ~(Len(files) < MAX_OPEN_FILES)
      <3>1. more = files
        BY <2>2 DEF With
      <3> QED
        BY <1>2, <1>3, <2>2, <3>1
    <2> QED
      BY <2>1, <2>2
  <1> HIDE DEF more
  <1> QED
    BY <1>1, <1>2, <1>4, <1>6, SlotChangesFiles

LEMMA RemoveTracksFiles ==
    ASSUME ProcessInv, FilesTracked, NEW pid, NEW fd \in Fds,
           process_remove_open_file(pid, fd)
    PROVE  FilesTracked'
  <1>1. PICK i \in Slots :
          /\ process_table' = [process_table EXCEPT ![i].open_files = Without(@, fd)]
          /\ held' = [held EXCEPT ![i] = @ \ {fd}]
    BY DEF process_remove_open_file
  <1> DEFINE files == process_table[i].open_files
  <1>2. files \in Seq(Nat)
    BY SlotHoldsProcess DEF Process
  <1>3. /\ ToSet(files) \ {0} \subseteq held[i]
        /\ Len(files) < MAX_OPEN_FILES => held[i] \subseteq ToSet(files)
    BY DEF FilesTracked
  <1>4. process_table' = [process_table EXCEPT ![i].open_files = Without(files, fd)]
    BY <1>1
  <1> HIDE DEF files
  <1>5. Without(files, fd) \in Seq(Nat) /\ Len(Without(files, fd)) = Len(files)
    BY <1>2 DEF Without
  <1>6. /\ ToSet(Without(files, fd)) \ {0} = (ToSet(files) \ {0}) \ {fd}
        /\ ToSet(files) \ {fd} \subseteq ToSet(Without(files, fd))
    BY <1>2 DEF Without, ToSet
  <1>7. held[i] \ {fd} \in SUBSET Fds
    BY DEF ProcessInv, TypeOK, Slots
  <1> QED
    BY <1>1, <1>3, <1>4, <1>5, <1>6, <1>7, SlotChangesFiles

(* What the other operations do to a slot. *)
LEMMA SlotRestated ==
    ASSUME ProcessInv,
           \/ \E pid \in Pids, exit_code \in ExitCodes : process_terminate(pid, exit_code)
           \/ \E pid \in Pids : thread_create(pid)
           \/ \E pid \in Pids, priority \in Priorities : process_set_priority(pid, priority)
           \/ \E pid \in Pids : process_block_for_io(pid) \/ process_unblock(pid)
    PROVE  /\ held' = held
           /\ \E i \in Slots, p \in Process : \E code :
                /\ process_table' = [process_table EXCEPT ![i] = p]
                /\ ended' = [ended EXCEPT ![i] = code]
                /\ p.open_files = process_table[i].open_files
                /\ EndedAs(process_table[i], ended[i]) => EndedAs(p, code)
  <1>1. held' = held
    BY DEF process_terminate, thread_create, process_set_priority,
           process_block_for_io, process_unblock, history
  <1>2. \A i \in Slots : ended = [ended EXCEPT ![i] = ended[i]]
    BY DEF ProcessInv, TypeOK, Slots
  <1>3. ASSUME NEW pid, NEW exit_code \in ExitCodes, process_terminate(pid, exit_code)
        PROVE  \E i \in Slots, p \in Process :
                 /\ process_table' = [process_table EXCEPT ![i] = p]
                 /\ ended' = [ended EXCEPT ![i] = exit_code]
                 /\ p.open_files = process_table[i].open_files
                 /\ EndedAs(p, exit_code)
    <2>1. PICK i \in Slots :
            /\ process_table' = [process_table EXCEPT
                   ![i].state = "ZOMBIE", ![i].exit_code = exit_code]
            /\ ended' = [ended EXCEPT ![i] = exit_code]
      BY <1>3 DEF process_terminate
    <2> DEFINE p == [process_table[i] EXCEPT !.state = "ZOMBIE", !.exit_code = exit_code]
    <2>2. /\ p \in Process /\ p.open_files = process_table[i].open_files
          /\ p.state = "ZOMBIE" /\ p.exit_code = exit_code
      BY SlotHoldsProcess, ProcessAssumption DEF Process, States
    <2>3. process_table' = [process_table EXCEPT ![i] = p]
      BY <2>1 DEF ProcessInv, TypeOK, Slots
    <2> HIDE DEF p
    <2>4. EndedAs(p, exit_code)
      BY <2>2, ProcessAssumption DEF EndedAs, NotEnded
    <2> QED
      BY <2>1, <2>2, <2>3, <2>4
  <1>4. ASSUME NEW pid, thread_create(pid)
        PROVE  \E i \in Slots, p \in Process :
                 /\ process_table' = [process_table EXCEPT ![i] = p]
                 /\ ended' = ended
                 /\ p.open_files = process_table[i].open_files
                 /\ p.state = process_table[i].state
                 /\ p.exit_code = process_table[i].exit_code
    <2>1. PICK i \in Slots :
            /\ RoomForThread(i)
            /\ process_table' = [process_table EXCEPT ![i].thread_count = @ + 1]
      BY <1>4 DEF thread_create
    <2> DEFINE count == process_table[i].thread_count + 1
               p == [process_table[i] EXCEPT !.thread_count = count]
    <2>2. count \in 0 .. MAX_THREADS_PER_PROCESS
      <3>1. process_table[i] \in Process
        BY SlotHoldsProcess
      <3>2. process_table[i].thread_count \in 0 .. MAX_THREADS_PER_PROCESS
        BY <3>1 DEF Process
      <3>3. process_table[i].thread_count < MAX_THREADS_PER_PROCESS
        BY <2>1 DEF RoomForThread
      <3> HIDE DEF p
      <3> QED
        BY <3>2, <3>3, ProcessAssumption
    <2>3. process_table' = [process_table EXCEPT ![i] = p]
      BY <2>1 DEF ProcessInv, TypeOK, Slots
    <2> HIDE DEF count
    <2>4. /\ p \in Process /\ p.open_files = process_table[i].open_files
          /\ p.state = process_table[i].state
          /\ p.exit_code = process_table[i].exit_code
      BY <2>2, SlotHoldsProcess DEF Process
    <2>5. ended' = ended
      BY <1>4 DEF thread_create, history
    <2> QED
      BY <2>3, <2>4, <2>5
  <1>5. ASSUME NEW pid, NEW priority \in Priorities, process_set_priority(pid, priority)
        PROVE  \E i \in Slots, p \in Process :
                 /\ process_table' = [process_table EXCEPT ![i] = p]
                 /\ ended' = ended
                 /\ p.open_files = process_table[i].open_files
                 /\ p.state = process_table[i].state
                 /\ p.exit_code = process_table[i].exit_code
    <2>1. PICK i \in Slots :
            process_table' = [process_table EXCEPT ![i].priority = priority]
      BY <1>5 DEF process_set_priority
    <2> DEFINE p == [process_table[i] EXCEPT !.priority = priority]
    <2>2. /\ p \in Process /\ p.open_files = process_table[i].open_files
          /\ p.state = process_table[i].state
          /\ p.exit_code = process_table[i].exit_code
      BY SlotHoldsProcess, ProcessAssumption DEF Process
    <2>3. process_table' = [process_table EXCEPT ![i] = p]
      BY <2>1 DEF ProcessInv, TypeOK, Slots
    <2>4. ended' = ended
      BY <1>5 DEF process_set_priority, history
    <2> QED
      BY <2>2, <2>3, <2>4
  <1>6. ASSUME NEW pid, process_block_for_io(pid) \/ process_unblock(pid)
        PROVE  \E i \in Slots, p \in Process :
                 /\ process_table' = [process_table EXCEPT ![i] = p]
                 /\ p.open_files = process_table[i].open_files
                 /\ \/ p.state = "BLOCKED" /\ ended' = ended
                    \/ p.state = "READY" /\ ended' = [ended EXCEPT ![i] = NotEnded]
                 /\ p.exit_code = process_table[i].exit_code
    <2>1. PICK i \in Slots, state \in {"BLOCKED", "READY"} :
            /\ process_table' = [process_table EXCEPT ![i].state = state]
            /\ \/ state = "BLOCKED" /\ ended' = ended
               \/ state = "READY" /\ ended' = [ended EXCEPT ![i] = NotEnded]
      BY <1>6 DEF process_block_for_io, process_unblock, history
    <2> DEFINE p == [process_table[i] EXCEPT !.state = state]
    <2>2. /\ p \in Process /\ p.open_files = process_table[i].open_files
          /\ p.state = state
          /\ p.exit_code = process_table[i].exit_code
      BY SlotHoldsProcess DEF Process, States
    <2>3. process_table' = [process_table EXCEPT ![i] = p]
      BY <2>1 DEF ProcessInv, TypeOK, Slots
    <2> HIDE DEF p
    <2> QED
      BY <2>1, <2>2, <2>3
  <1> QED
    <2>1. \A i \in Slots, p \in Process :
             /\ p.state = process_table[i].state
             /\ p.exit_code = process_table[i].exit_code
             => (EndedAs(process_table[i], ended[i]) => EndedAs(p, ended[i]))
      BY DEF EndedAs
    <2>2. \A i \in Slots, p \in Process :
             /\ p.state = "BLOCKED"
             /\ p.exit_code = process_table[i].exit_code
             => (EndedAs(process_table[i], ended[i]) => EndedAs(p, ended[i]))
      BY DEF EndedAs
    <2>3. \A p \in Process : p.state = "READY" => EndedAs(p, NotEnded)
      BY DEF EndedAs
    <2>4. CASE \E pid \in Pids : thread_create(pid)
      BY <1>1, <1>2, <1>4, <2>1, <2>4
    <2>5. CASE \E pid \in Pids, priority \in Priorities :
                 process_set_priority(pid, priority)
      BY <1>1, <1>2, <1>5, <2>1, <2>5
    <2>6. CASE \E pid \in Pids : process_block_for_io(pid) \/ process_unblock(pid)
      BY <1>1, <1>2, <1>6, <2>2, <2>3, <2>6
    <2>7. CASE \E pid \in Pids, exit_code \in ExitCodes :
                 process_terminate(pid, exit_code)
      BY <1>1, <1>3, <2>7
    <2> QED
      BY <2>4, <2>5, <2>6, <2>7

(* The scheduler marks the process it chose, which was waiting. *)
LEMMA SlotScheduled ==
    ASSUME ProcessInv, schedule_next_process
    PROVE  /\ held' = held /\ ended' = ended
           /\ \/ UNCHANGED process_table
              \/ \E i \in Slots, p \in Process :
                   /\ process_table' = [process_table EXCEPT ![i] = p]
                   /\ p.open_files = process_table[i].open_files
                   /\ process_table[i].state \in {"READY", "CREATED"}
                   /\ p.state = "RUNNING"
  <1>1. held' = held /\ ended' = ended
    BY DEF schedule_next_process, history
  <1>2. ASSUME NEW i \in Slots, Chosen(i), NEW s \in Slots,
               Find(process_table[i].pid, s), process_table' = MarkRunning(s)
        PROVE  \E j \in Slots, p \in Process :
                 /\ process_table' = [process_table EXCEPT ![j] = p]
                 /\ p.open_files = process_table[j].open_files
                 /\ process_table[j].state \in {"READY", "CREATED"}
                 /\ p.state = "RUNNING"
    <2>1. s = i
      BY <1>2 DEF Find, ProcessInv, ProcessTreeOrdered
    <2>2. process_table[i].state \in {"READY", "CREATED"}
      BY <1>2 DEF Chosen, Runnable, Waiting
    <2> DEFINE p == [process_table[i] EXCEPT !.state = "RUNNING"]
    <2>3. /\ p \in Process /\ p.open_files = process_table[i].open_files
          /\ p.state = "RUNNING"
      BY SlotHoldsProcess DEF Process, States
    <2>4. process_table' = [process_table EXCEPT ![i] = p]
      BY <1>2, <2>1 DEF MarkRunning
    <2> QED
      BY <2>2, <2>3, <2>4
  <1> QED
    BY <1>1, <1>2 DEF schedule_next_process

(* open_files (src/prcs.c) lists nothing but what the process was told of, *)
(* and all of it until the array was full: adding and removing search the  *)
(* same slot that held speaks of, and no other operation touches it.       *)
THEOREM FilesStayTracked == Spec => []FilesTracked
  <1>1. Init => FilesTracked
    BY DEF Init, FilesTracked, Slots
  <1>2. ProcessInv /\ FilesTracked /\ [Next]_vars => FilesTracked'
    <2> SUFFICES ASSUME ProcessInv, FilesTracked, [Next]_vars
                 PROVE  FilesTracked'
      OBVIOUS
    <2>1. ASSUME NEW priority \in Priorities, process_create(priority)
          PROVE  FilesTracked'
      BY <2>1, CreateKeepsFiles
    <2>2. CASE \/ \E pid \in Pids, exit_code \in ExitCodes :
                     process_terminate(pid, exit_code)
               \/ \E pid \in Pids : thread_create(pid)
               \/ \E pid \in Pids, priority \in Priorities :
                     process_set_priority(pid, priority)
               \/ \E pid \in Pids : process_block_for_io(pid) \/ process_unblock(pid)
      BY <2>2, SlotRestated, SlotKeepsFiles
    <2>3. ASSUME NEW pid \in Pids, NEW fd \in Fds,
                 process_add_open_file(pid, fd) \/ process_remove_open_file(pid, fd)
          PROVE  FilesTracked'
      BY <2>3, AddTracksFiles, RemoveTracksFiles
    <2>4. CASE UNCHANGED <<process_table, held>>
      BY <2>4 DEF FilesTracked, Slots
    <2>5. CASE schedule_next_process
      BY <2>4, <2>5, SlotScheduled, SlotKeepsFiles
    <2>6. CASE UNCHANGED vars
      BY <2>4, <2>6 DEF vars
    <2> QED
      BY <2>1, <2>2, <2>3, <2>5, <2>6 DEF Next, Request
  <1> QED
    BY <1>1, <1>2, InvHolds, PTL DEF Spec

-----------------------------------------------------------------------------
(* One slot and its entry of ended change together, as EndedAs says. *)
LEMMA SlotEndsAs ==
    ASSUME ProcessInv, EndedStayEnded, NEW i \in Slots, NEW p \in Process, NEW code,
           process_table' = [process_table EXCEPT ![i] = p],
           ended' = [ended EXCEPT ![i] = code],
           EndedAs(p, code)
    PROVE  EndedStayEnded'
  <1>1. /\ Slots = 1 .. Len(process_table) /\ process_table \in Seq(Process)
        /\ Slots = DOMAIN ended
    BY DEF ProcessInv, TypeOK, Slots
  <1>2. Slots' = Slots
    BY <1>1 DEF Slots
  <1>3. /\ process_table'[i] = p /\ ended'[i] = code
        /\ \A j \in Slots \ {i} : /\ process_table'[j] = process_table[j]
                                  /\ ended'[j] = ended[j]
    BY <1>1
  <1>4. \A j \in Slots : EndedAs(process_table'[j], ended'[j])
    BY <1>3 DEF EndedStayEnded
  <1> QED
    BY <1>2, <1>4 DEF EndedStayEnded

LEMMA CreateKeepsEnds ==
    ASSUME ProcessInv, EndedStayEnded, NEW priority \in Priorities,
           process_create(priority)
    PROVE  EndedStayEnded'
  <1> DEFINE n == Len(process_table)
             new == [pid |-> next_pid, ppid |-> current_pid, state |-> "CREATED",
                     priority |-> priority, exit_code |-> 0, thread_count |-> 0,
                     open_files |-> <<>>]
  <1>1. /\ process_table' = Append(process_table, new)
        /\ ended' = Append(ended, NotEnded)
        /\ process_table \in Seq(Process) /\ ended \in Seq(ExitCodes \cup {NotEnded})
        /\ n \in Nat /\ Len(ended) = n /\ Slots = 1 .. n
    BY DEF process_create, ParentOfNew, ProcessInv, TypeOK, Slots
  <1>2. EndedAs(new, NotEnded)
    BY DEF EndedAs
  <1> HIDE DEF new
  <1>3. /\ DOMAIN process_table' = 1 .. (n + 1)
        /\ process_table'[n + 1] = new
        /\ \A j \in 1 .. n : process_table'[j] = process_table[j]
    BY <1>1
  <1>4. ended'[n + 1] = NotEnded /\ \A j \in 1 .. n : ended'[j] = ended[j]
    BY <1>1
  <1>5. Slots' = Slots \cup {n + 1}
    BY <1>1, <1>3 DEF Slots
  <1>6. \A j \in Slots : EndedAs(process_table'[j], ended'[j])
    BY <1>1, <1>3, <1>4 DEF EndedStayEnded
  <1> QED
    BY <1>2, <1>3, <1>4, <1>5, <1>6 DEF EndedStayEnded

(* Adding and removing files leave state, exit code and ended alone. *)
LEMMA FilesKeepEnds ==
    ASSUME ProcessInv, EndedStayEnded, NEW pid, NEW fd \in Fds,
           process_add_open_file(pid, fd) \/ process_remove_open_file(pid, fd)
    PROVE  EndedStayEnded'
  <1>1. PICK i \in Slots :
          \E files : process_table' = [process_table EXCEPT ![i].open_files = files]
    BY DEF process_add_open_file, process_remove_open_file
  <1>2. PICK files : process_table' = [process_table EXCEPT ![i].open_files = files]
    BY <1>1
  <1>3. ended' = ended
    BY DEF process_add_open_file, process_remove_open_file
  <1> DEFINE one == [process_table[i] EXCEPT !.open_files = files]
  <1>4. /\ one.state = process_table[i].state
        /\ one.exit_code = process_table[i].exit_code
        /\ process_table' = [process_table EXCEPT ![i] = one]
    BY <1>2, SlotHoldsProcess DEF Process
  <1> HIDE DEF one
  <1>5. Slots = 1 .. Len(process_table) /\ process_table \in Seq(Process)
    BY DEF ProcessInv, TypeOK, Slots
  <1>6. Slots' = Slots
    BY <1>4, <1>5 DEF Slots
  <1>7. \A j \in Slots : /\ process_table'[j].state = process_table[j].state
                         /\ process_table'[j].exit_code = process_table[j].exit_code
    BY <1>4, <1>5
  <1> QED
    BY <1>3, <1>6, <1>7 DEF EndedStayEnded, EndedAs

(* A terminated process is neither ready nor running, and shows the exit   *)
(* code of its last termination, until it is unblocked (src/prcs.c):       *)
(* blocking keeps it off the ready list, and the scheduler takes only what *)
(* is ready or new.                                                        *)
THEOREM EndedStay == Spec => []EndedStayEnded
  <1>1. Init => EndedStayEnded
    BY DEF Init, EndedStayEnded, Slots
  <1>2. ProcessInv /\ EndedStayEnded /\ [Next]_vars => EndedStayEnded'
    <2> SUFFICES ASSUME ProcessInv, EndedStayEnded, [Next]_vars
                 PROVE  EndedStayEnded'
      OBVIOUS
    <2>1. ASSUME NEW priority \in Priorities, process_create(priority)
          PROVE  EndedStayEnded'
      BY <2>1, CreateKeepsEnds
    <2>2. CASE \/ \E pid \in Pids, exit_code \in ExitCodes :
                     process_terminate(pid, exit_code)
               \/ \E pid \in Pids : thread_create(pid)
               \/ \E pid \in Pids, priority \in Priorities :
                     process_set_priority(pid, priority)
               \/ \E pid \in Pids : process_block_for_io(pid) \/ process_unblock(pid)
      <3>1. PICK i \in Slots, p \in Process :
              \E code :
                /\ process_table' = [process_table EXCEPT ![i] = p]
                /\ ended' = [ended EXCEPT ![i] = code]
                /\ EndedAs(process_table[i], ended[i]) => EndedAs(p, code)
        BY <2>2, SlotRestated
      <3>2. PICK code :
              /\ process_table' = [process_table EXCEPT ![i] = p]
              /\ ended' = [ended EXCEPT ![i] = code]
              /\ EndedAs(process_table[i], ended[i]) => EndedAs(p, code)
        BY <3>1
      <3>3. EndedAs(process_table[i], ended[i])
        BY DEF EndedStayEnded
      <3> QED
        BY <3>2, <3>3, SlotEndsAs
    <2>3. ASSUME NEW pid \in Pids, NEW fd \in Fds,
                 process_add_open_file(pid, fd) \/ process_remove_open_file(pid, fd)
          PROVE  EndedStayEnded'
      BY <2>3, FilesKeepEnds
    <2>4. CASE UNCHANGED <<process_table, ended>>
      BY <2>4 DEF EndedStayEnded, Slots
    <2>5. CASE schedule_next_process
      <3>1. ASSUME NEW i \in Slots, NEW p \in Process,
                   process_table' = [process_table EXCEPT ![i] = p],
                   process_table[i].state \in {"READY", "CREATED"},
                   p.state = "RUNNING", ended' = ended
            PROVE  EndedStayEnded'
        <4>1. ended[i] = NotEnded
          BY <3>1 DEF EndedStayEnded, EndedAs
        <4>2. EndedAs(p, NotEnded)
          BY <3>1 DEF EndedAs
        <4>3. ended' = [ended EXCEPT ![i] = NotEnded]
          BY <3>1, <4>1 DEF ProcessInv, TypeOK, Slots
        <4> QED
          BY <3>1, <4>2, <4>3, SlotEndsAs
      <3> QED
        BY <2>4, <2>5, <3>1, SlotScheduled
    <2>6. CASE UNCHANGED vars
      BY <2>4, <2>6 DEF vars
    <2> QED
      BY <2>1, <2>2, <2>3, <2>5, <2>6 DEF Next, Request
  <1> QED
    BY <1>1, <1>2, InvHolds, PTL DEF Spec
=============================================================================
