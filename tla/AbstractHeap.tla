---------------------------- MODULE AbstractHeap ----------------------------
(***************************************************************************)
(* What the kernel's heap (src/kernel.c, memory_init, kmalloc, kfree)      *)
(* promises its callers, without any list of blocks: the heap is an        *)
(* interval of addresses, an allocation takes a part of it that nobody     *)
(* holds, and an allocation is refused only when no part of the required   *)
(* length is left anywhere.                                                *)
(***************************************************************************)
EXTENDS Integers

CONSTANTS
    Lo, Hi,      \* the heap is the addresses Lo .. Hi - 1
    Header,      \* bytes at the start of an extent the caller cannot use
    MaxWaste,    \* an extent is at most this much longer than was needed
    Starts,      \* the addresses at which an extent may start
    Requests,    \* the sizes callers ask for
    Need(_),     \* bytes needed to serve a request
    Nil          \* the null pointer

VARIABLES
    taken,       \* start of every extent in use -> its length
    answer       \* the last request and the pointer returned for it

vars == <<taken, answer>>

(* The interval of length len at a is inside the heap and overlaps no extent. *)
Vacant(a, len) ==
    /\ a + len <= Hi
    /\ \A s \in DOMAIN taken : s + taken[s] <= a \/ a + len <= s

Init ==
    /\ taken = [s \in {} |-> 0]
    /\ answer = [request |-> 0, pointer |-> Nil]

Allocate(n) ==
    /\ n # 0
    /\ \E a \in Starts :
          /\ answer' = [request |-> n, pointer |-> a + Header]
          /\ \E len \in Need(n) .. (Need(n) + MaxWaste) :
                /\ Vacant(a, len)
                /\ taken' = [s \in DOMAIN taken \cup {a} |->
                                IF s = a THEN len ELSE taken[s]]

Refuse(n) ==
    /\ n = 0 \/ \A a \in Starts : ~Vacant(a, Need(n))
    /\ answer' = [request |-> n, pointer |-> Nil]
    /\ UNCHANGED taken

Release(a) ==
    /\ taken' = [s \in DOMAIN taken \ {a} |-> taken[s]]
    /\ UNCHANGED answer

Next ==
    \/ \E n \in Requests : Allocate(n) \/ Refuse(n)
    \/ \E a \in DOMAIN taken : Release(a)

Spec == Init /\ [][Next]_vars
=============================================================================
