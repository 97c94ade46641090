----------------------------- MODULE KernelHeap -----------------------------
(***************************************************************************)
(* The kernel's heap: memory_init, kmalloc and kfree of src/kernel.c.      *)
(*                                                                         *)
(* A block starts with its header (struct mem_block) and the list of       *)
(* blocks is threaded through the headers with next and prev.  heap maps   *)
(* the address of every header on that list to its fields.  A block's size *)
(* is counted from its header to the header of the following block: a      *)
(* caller gets HDR bytes less than the size.                               *)
(*                                                                         *)
(* live is history, not state of the code: the pointers callers hold and   *)
(* the size each asked for.  Callers free a pointer once, and only one     *)
(* that kmalloc gave them (or NULL).                                       *)
(***************************************************************************)
EXTENDS Integers

CONSTANTS
    HEAP_START,  \* first address of the heap (kernel.h)
    HEAP_END,    \* the address after the last one (kernel.h)
    HDR,         \* sizeof(struct mem_block)
    WORD,        \* how many values a uint32_t has
    Requests     \* the sizes callers ask kmalloc for

NULL == 0

ASSUME HeapAssumption ==
    /\ HDR \in Nat /\ 0 < HDR /\ HDR <= 16
    /\ HEAP_START \in Nat \ {NULL}
    /\ HEAP_END \in Nat /\ HEAP_START + HDR <= HEAP_END
    /\ WORD \in Nat /\ HEAP_END < WORD
    /\ Requests \subseteq 0 .. (WORD - 16)   \* ALIGN_UP does not wrap around

VARIABLES
    heap,        \* header address -> [size, free, next, prev]
    live,        \* pointer a caller holds -> the size it asked for
    answer       \* the last call of kmalloc: its argument and its result

vars == <<heap, live, answer>>

-----------------------------------------------------------------------------
ALIGN_UP(n) == ((n + 15) \div 16) * 16

(* The header fields of a block. *)
Block == [size : Nat, free : BOOLEAN, next : Nat, prev : Nat]

(* memory_init: one free block that covers the heap. *)
Init ==
    /\ heap = [h \in {HEAP_START} |->
                 [size |-> HEAP_END - HEAP_START, free |-> TRUE,
                  next |-> NULL, prev |-> NULL]]
    /\ live = [p \in {} |-> 0]
    /\ answer = [request |-> 0, pointer |-> NULL]

(* The loop of kmalloc stops at the first block of the list that is free   *)
(* and large enough.  The list is in the order of the addresses            *)
(* (ListFollowsAddresses), so that is the fitting block of lowest address. *)
FitsAnySize(h, n) == heap[h].free   \* mutated form: the size is not compared

Fits(h, n) == heap[h].free /\ heap[h].size >= n

FirstFit(h, n) ==
    /\ Fits(h, n)
    /\ \A g \in DOMAIN heap : Fits(g, n) => h <= g

(* Mutated form: the remainder need not hold a header. *)
SplitsExactly(h, n) == heap[h].size >= n

(* A block is split only when what is left can hold a header and 16 bytes. *)
Splits(h, n) == heap[h].size >= n + HDR + 16

(* Mutated form: the block after the new one keeps its old prev pointer. *)
SplitForgetsPrev(h, n) ==
    [a \in DOMAIN heap \cup {h + n} |->
       IF a = h + n
         THEN [size |-> heap[h].size - n, free |-> TRUE,
               next |-> heap[h].next, prev |-> h]
       ELSE IF a = h
         THEN [heap[h] EXCEPT !.size = n, !.free = FALSE, !.next = h + n]
       ELSE heap[a]]

(* The heap after block h was cut to n bytes and taken; the rest is a new  *)
(* free block behind it.                                                   *)
Split(h, n) ==
    [a \in DOMAIN heap \cup {h + n} |->
       IF a = h + n
         THEN [size |-> heap[h].size - n, free |-> TRUE,
               next |-> heap[h].next, prev |-> h]
       ELSE IF a = h
         THEN [heap[h] EXCEPT !.size = n, !.free = FALSE, !.next = h + n]
       ELSE IF a = heap[h].next
         THEN [heap[a] EXCEPT !.prev = h + n]
       ELSE heap[a]]

Take(h) == [heap EXCEPT ![h].free = FALSE]

(* kmalloc gives the block at h to the caller. *)
KmallocTakes(request, h) ==
    LET n == ALIGN_UP(request) IN
    /\ request # 0
    /\ FirstFit(h, n)
    /\ heap' = IF Splits(h, n) THEN Split(h, n) ELSE Take(h)
    /\ live' = [p \in DOMAIN live \cup {h + HDR} |->
                  IF p = h + HDR THEN request ELSE live[p]]
    /\ answer' = [request |-> request, pointer |-> h + HDR]

(* kmalloc returns NULL: the size is zero, or no block of the list fits. *)
KmallocFails(request) ==
    /\ request = 0 \/ \A h \in DOMAIN heap : ~Fits(h, ALIGN_UP(request))
    /\ answer' = [request |-> request, pointer |-> NULL]
    /\ UNCHANGED <<heap, live>>

(* The heap H after block r, which follows l on the list, became part of l. *)
Absorb(H, l, r) ==
    [a \in DOMAIN H \ {r} |->
       IF a = l
         THEN [H[l] EXCEPT !.size = H[l].size + H[r].size, !.next = H[r].next]
       ELSE IF a = H[r].next
         THEN [H[a] EXCEPT !.prev = l]
       ELSE H[a]]

(* Mutated form: a freed block does not absorb the one after it. *)
MergeNextSkipped(H, b) == H

MergeNext(H, b) ==
    IF H[b].next # NULL /\ H[H[b].next].free THEN Absorb(H, b, H[b].next) ELSE H

(* Mutated form: a freed block is never merged into the one before it. *)
MergePrevSkipped(H, b) == H

MergePrev(H, b) ==
    IF H[b].prev # NULL /\ H[H[b].prev].free THEN Absorb(H, H[b].prev, b) ELSE H

(* kfree of a pointer a caller holds. *)
Kfree(p) ==
    LET b      == p - HDR
        marked == [heap EXCEPT ![b].free = TRUE]
    IN
    /\ p \in DOMAIN live
    /\ heap' = MergePrev(MergeNext(marked, b), b)
    /\ live' = [q \in DOMAIN live \ {p} |-> live[q]]
    /\ UNCHANGED answer

(* kfree(NULL) returns at once. *)
KfreeNull == UNCHANGED vars

Next ==
    \/ \E request \in Requests :
          \/ \E h \in DOMAIN heap : KmallocTakes(request, h)
          \/ KmallocFails(request)
    \/ \E p \in DOMAIN live : Kfree(p)
    \/ KfreeNull

Spec == Init /\ [][Next]_vars

-----------------------------------------------------------------------------
(* Type invariant: headers lie in the heap and their fields are in range.  *)
TypeOK ==
    /\ DOMAIN heap \subseteq HEAP_START .. (HEAP_END - 1)
    /\ heap \in [DOMAIN heap -> Block]
    /\ DOMAIN live \subseteq Nat
    /\ live \in [DOMAIN live -> Requests]
    /\ answer \in [request : Nat, pointer : Nat]

(* The list leads from HEAP_START over every header in the order of their  *)
(* addresses, and each prev undoes a next: kmalloc's walk and kfree's two  *)
(* merges both rely on it.                                                 *)
ListFollowsAddresses ==
    /\ HEAP_START \in DOMAIN heap
    /\ \A h \in DOMAIN heap :
         /\ heap[h].prev = NULL <=> h = HEAP_START
         /\ heap[h].next # NULL =>
              /\ heap[h].next \in DOMAIN heap
              /\ heap[heap[h].next].prev = h
         /\ heap[h].prev # NULL =>
              /\ heap[h].prev \in DOMAIN heap
              /\ heap[heap[h].prev].next = h

(* The blocks cover the heap without a gap: a block ends where the next    *)
(* one on the list starts, the last one ends at HEAP_END, none is empty    *)
(* and no two overlap.                                                     *)
BlocksTileHeap ==
    /\ \A h \in DOMAIN heap :
         /\ heap[h].size >= HDR
         /\ h + heap[h].size =
              IF heap[h].next = NULL THEN HEAP_END ELSE heap[h].next
    /\ \A g, h \in DOMAIN heap : g < h => g + heap[g].size <= h
    /\ \A a \in HEAP_START .. (HEAP_END - 1) :
         \E h \in DOMAIN heap : h <= a /\ a < h + heap[h].size

(* Freed neighbours are always merged, so that free memory is never        *)
(* scattered over adjacent blocks too small for a request.                 *)
FreeBlocksMerged ==
    \A h \in DOMAIN heap :
        heap[h].free /\ heap[h].next # NULL => ~heap[heap[h].next].free

(* A block is in use exactly while a caller holds its pointer, and is long *)
(* enough for what that caller asked for (header included).                *)
UsedBlocksAreHeld ==
    /\ DOMAIN live = {h + HDR : h \in {g \in DOMAIN heap : ~heap[g].free}}
    /\ \A h \in DOMAIN heap :
         ~heap[h].free => heap[h].size >= live[h + HDR]

(* A caller that leaves the last HDR bytes of what it asked for unused     *)
(* never touches a header or another caller's memory.  (kmalloc counts the *)
(* header as part of the size it hands out, so a caller may not count on   *)
(* all of it.)                                                             *)
CallersKeepApart ==
    \A p \in DOMAIN live :
        /\ p + live[p] - HDR <= HEAP_END
        /\ \A h \in DOMAIN heap : p + live[p] - HDR <= h \/ h + HDR <= p

(* The heap's list is sound. *)
HeapSound ==
    /\ ListFollowsAddresses
    /\ BlocksTileHeap
    /\ FreeBlocksMerged
    /\ UsedBlocksAreHeld

(* When everything was freed, the heap is one free block again. *)
AllFreedIsOneBlock ==
    DOMAIN live = {} =>
        /\ DOMAIN heap = {HEAP_START}
        /\ heap[HEAP_START].size = HEAP_END - HEAP_START

-----------------------------------------------------------------------------
(* The abstract heap this one implements. *)
Used == {h \in DOMAIN heap : ~heap[h].free}

Abstract == INSTANCE AbstractHeap WITH
    Lo       <- HEAP_START,
    Hi       <- HEAP_END,
    Header   <- HDR,
    MaxWaste <- HDR + 15,
    Starts   <- HEAP_START .. HEAP_END,
    Requests <- Requests,
    Need     <- ALIGN_UP,
    Nil      <- NULL,
    taken    <- [h \in Used |-> heap[h].size],
    answer   <- answer

(* Every call behaves like one of the abstract heap: an allocation takes   *)
(* memory nobody holds, wastes less than a header and 16 bytes, and is     *)
(* refused only when no free run of that length exists in the whole heap.  *)
ImplementsAbstractHeap == Abstract!Spec
=============================================================================
