---------------------------- MODULE SystemCalls ----------------------------
(***************************************************************************)
(* The system calls of src/kernel.c.  The handlers return constants or     *)
(* their arguments; the only state is the counters next_fd and next_pid.   *)
(* result is what the last call returned; in_use and moved are kept by the *)
(* callers.                                                                *)
(***************************************************************************)
EXTENDS Integers, Sequences, TLC

CONSTANTS
    FIRST_FD,       \* 3 in the code
    MAX_PROCESSES,  \* 256 in the code
    MaxFd,          \* bound on next_fd
    Values          \* arguments of calls

ASSUME SystemCallsAssumption ==
    /\ FIRST_FD \in Nat /\ MAX_PROCESSES \in Nat /\ MaxFd \in Nat
    /\ Values \subseteq Nat

VARIABLES
    next_fd, next_pid, result,
    in_use,         \* descriptors handed out and not closed
    moved           \* those that were handed out by dup2

callVars == <<next_fd, next_pid, result, in_use, moved>>

CallsInit ==
    /\ next_fd = FIRST_FD
    /\ next_pid = 1
    /\ result = 0
    /\ in_use = 0 .. (FIRST_FD - 1)
    /\ moved = {}

-----------------------------------------------------------------------------
(* syscall_table: the numbers of the calls, and those that answer one of   *)
(* their arguments: read, write, wait, lseek and mmap.                     *)
CallNumbers == 0 .. 27
Open == 3
Close == 4
Fork == 5
Getpid == 9
Dup == 17
Dup2 == 18
Returned == (1 :> 3) @@ (2 :> 3) @@ (7 :> 1) @@ (16 :> 2) @@ (26 :> 1)

(* The standard descriptors were open before the first call.               *)
syscall_open ==
    /\ next_fd < MaxFd
    /\ next_fd' = next_fd + 1
    /\ result' = next_fd
    /\ in_use' = in_use \cup {next_fd}
    /\ UNCHANGED <<next_pid, moved>>

(* Mutated form: the last descriptor is given back, whichever is closed.   *)
GiveBack(fd) == next_fd' = IF fd >= FIRST_FD THEN next_fd - 1 ELSE next_fd

KeepClosed(fd) == UNCHANGED next_fd

syscall_close(fd) ==
    /\ KeepClosed(fd)
    /\ result' = 0
    /\ in_use' = in_use \ {fd}
    /\ moved' = moved \ {fd}
    /\ UNCHANGED next_pid

(* The new descriptor is the caller's choice, and next_fd does not move    *)
(* past it.                                                                *)
syscall_dup2(newfd) ==
    /\ result' = newfd
    /\ in_use' = in_use \cup {newfd}
    /\ moved' = IF newfd \in in_use THEN moved ELSE moved \cup {newfd}
    /\ UNCHANGED <<next_fd, next_pid>>

(* The first child has the number that getpid answers to everyone.         *)
syscall_fork ==
    /\ next_pid' = IF next_pid >= MAX_PROCESSES THEN next_pid ELSE next_pid + 1
    /\ result' = IF next_pid >= MAX_PROCESSES THEN -1 ELSE next_pid
    /\ UNCHANGED <<next_fd, in_use, moved>>

syscall_other(number, arguments) ==
    /\ result' = CASE number \in DOMAIN Returned -> arguments[Returned[number]]
                   [] number = Getpid -> 1
                   [] OTHER -> 0
    /\ UNCHANGED <<next_fd, next_pid, in_use, moved>>

refused == result' = -1 /\ UNCHANGED <<next_fd, next_pid, in_use, moved>>

handle_syscall(number, arguments) ==
    \/ number \in {Open, Dup} /\ syscall_open
    \/ number = Close /\ syscall_close(arguments[1])
    \/ number = Fork /\ syscall_fork
    \/ number = Dup2 /\ syscall_dup2(arguments[2])
    \/ /\ number \in CallNumbers \ {Open, Close, Fork, Dup, Dup2}
       /\ syscall_other(number, arguments)
    \/ number \notin CallNumbers /\ refused

CallsNext ==
    \E number \in 0 .. 31, arguments \in Values \X Values \X Values :
        handle_syscall(number, arguments)

CallsSpec == CallsInit /\ [][CallsNext]_callVars

-----------------------------------------------------------------------------
(* The counter only goes up, so that a closed descriptor is never handed   *)
(* out again, and open and dup answer one that nobody uses, unless dup2    *)
(* had put it there above the counter.                                     *)
OpenAnswersFreshDescriptor ==
    [][\A fd \in in_use : next_fd' > next_fd /\ result' = fd => fd \in moved]_callVars
=============================================================================
