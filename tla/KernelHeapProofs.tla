-------------------------- MODULE KernelHeapProofs --------------------------
(***************************************************************************)
(* Proofs about the kernel's heap (KernelHeap), for heaps of any size and  *)
(* any set of requests.  The inductive invariant is TypeOK /\ HeapSound;   *)
(* it is stated below as predicates of a heap H, because kfree changes the *)
(* heap in three steps (marking, merging with the next block, merging with *)
(* the previous one) and the list must be sound after each of them.        *)
(***************************************************************************)
EXTENDS KernelHeap, TLAPS

(* TypeOK's part about the heap. *)
Typed(H) ==
    /\ DOMAIN H \subseteq HEAP_START .. (HEAP_END - 1)
    /\ H \in [DOMAIN H -> Block]

(* ListFollowsAddresses of H. *)
Listed(H) ==
    /\ HEAP_START \in DOMAIN H
    /\ \A h \in DOMAIN H :
         /\ H[h].prev = NULL <=> h = HEAP_START
         /\ H[h].next # NULL =>
              /\ H[h].next \in DOMAIN H
              /\ H[H[h].next].prev = h
         /\ H[h].prev # NULL =>
              /\ H[h].prev \in DOMAIN H
              /\ H[H[h].prev].next = h

(* BlocksTileHeap of H, in two parts. *)
Tiled(H) ==
    /\ \A h \in DOMAIN H :
         /\ H[h].size >= HDR
         /\ h + H[h].size = IF H[h].next = NULL THEN HEAP_END ELSE H[h].next
    /\ \A g, h \in DOMAIN H : g < h => g + H[g].size <= h

Covered(H) ==
    \A a \in HEAP_START .. (HEAP_END - 1) :
        \E h \in DOMAIN H : h <= a /\ a < h + H[h].size

Linked(H) == Typed(H) /\ Listed(H) /\ Tiled(H) /\ Covered(H)

(* No free block is followed by a free one, not counting the pairs that b  *)
(* belongs to.                                                             *)
MergedBut(H, b) ==
    \A h \in DOMAIN H :
        H[h].free /\ H[h].next # NULL /\ h # b /\ H[h].next # b
            => ~H[H[h].next].free

(* H and G have the same blocks in use, with the same sizes. *)
SameUsed(H, G) ==
    /\ {h \in DOMAIN H : ~H[h].free} = {h \in DOMAIN G : ~G[h].free}
    /\ \A h \in DOMAIN H : ~H[h].free => G[h].size = H[h].size

IInv == TypeOK /\ HeapSound

(* The two ways to state the list's soundness agree. *)
LEMMA LinkedHeap ==
    TypeOK /\ ListFollowsAddresses /\ BlocksTileHeap => Linked(heap)
BY DEF TypeOK, ListFollowsAddresses, BlocksTileHeap, Linked, Typed, Listed,
       Tiled, Covered

(* The following block of a sound list lies to the right. *)
LEMMA NextIsRight ==
    ASSUME NEW H, Linked(H), NEW h \in DOMAIN H
    PROVE  /\ h \in Nat /\ h # NULL /\ H[h] \in Block
           /\ H[h].next # NULL =>
                /\ H[h].next \in DOMAIN H
                /\ H[H[h].next].prev = h
                /\ h < H[h].next
<1>1. h \in Nat /\ h # 0 /\ H[h] \in Block
  BY HeapAssumption DEF Linked, Typed, NULL
<1>2. H[h].size \in Nat /\ H[h].size >= HDR /\ H[h].next \in Nat
  BY <1>1 DEF Linked, Tiled, Block
<1>3. H[h].next # NULL => h + H[h].size = H[h].next
  BY DEF Linked, Tiled
<1> QED BY <1>1, <1>2, <1>3, HeapAssumption DEF Linked, Listed, NULL

(* Rounding up never makes a request smaller. *)
LEMMA AlignUp ==
    ASSUME NEW n \in Nat
    PROVE  ALIGN_UP(n) \in Nat /\ ALIGN_UP(n) >= n /\ (n # 0 => ALIGN_UP(n) >= 16)
BY DEF ALIGN_UP

-----------------------------------------------------------------------------
(* Joining two neighbours of the list keeps it sound. *)
LEMMA AbsorbLinked ==
    ASSUME NEW H, Linked(H),
           NEW l \in DOMAIN H, NEW r \in DOMAIN H, H[l].next = r
    PROVE  Linked(Absorb(H, l, r))
<1> DEFINE A == Absorb(H, l, r)
<1> USE HeapAssumption DEF NULL
<1>1. /\ H \in [DOMAIN H -> Block]
      /\ DOMAIN H \subseteq HEAP_START .. (HEAP_END - 1)
      /\ \A h \in DOMAIN H : h \in Nat /\ h # 0 /\ H[h] \in Block
  BY DEF Linked, Typed
<1>2. /\ l < r
      /\ H[r].prev = l
      /\ l + H[l].size = r
      /\ r # 0
      /\ H[r].next # r /\ H[r].next # l
  BY <1>1 DEF Linked, Listed, Tiled, Block
<1>3. DOMAIN A = DOMAIN H \ {r}
  BY DEF Absorb
<1>4. \A a \in DOMAIN A :
        /\ a \in DOMAIN H /\ a # r
        /\ A[a].free = H[a].free
        /\ a = l => A[a].size = H[l].size + H[r].size /\ A[a].next = H[r].next
        /\ a # l => A[a].size = H[a].size /\ A[a].next = H[a].next
        /\ a # l /\ a = H[r].next => A[a].prev = l
        /\ a = l \/ a # H[r].next => A[a].prev = H[a].prev
  BY <1>1, <1>2 DEF Absorb, Block
<1>5. Typed(A)
  <2>1. ASSUME NEW a \in DOMAIN A PROVE A[a] \in Block
    <3>1. CASE a = l
      <4>1. A[a] = [H[l] EXCEPT !.size = H[l].size + H[r].size, !.next = H[r].next]
        BY <3>1, <1>2 DEF Absorb
      <4>2. H[l] \in Block /\ H[l].size + H[r].size \in Nat /\ H[r].next \in Nat
        BY <1>1 DEF Block
      <4> QED BY <4>1, <4>2 DEF Block
    <3>2. CASE a # l /\ a = H[r].next
      <4>1. A[a] = [H[a] EXCEPT !.prev = l]
        BY <3>2 DEF Absorb
      <4> QED BY <4>1, <1>1, <1>3 DEF Block
    <3>3. CASE a # l /\ a # H[r].next
      BY <3>3, <1>1 DEF Absorb
    <3> QED BY <3>1, <3>2, <3>3
  <2>2. A = [a \in DOMAIN A |-> A[a]]
    BY DEF Absorb
  <2> QED BY <2>1, <2>2, <1>1, <1>3 DEF Typed
<1>6. Listed(A)
  <2>1. HEAP_START \in DOMAIN A
    BY <1>1, <1>2, <1>3 DEF Linked, Listed
  <2>2. ASSUME NEW h \in DOMAIN A
        PROVE  A[h].prev = NULL <=> h = HEAP_START
    BY <1>1, <1>2, <1>4 DEF Linked, Listed
  <2>3. ASSUME NEW h \in DOMAIN A, A[h].next # NULL
        PROVE  A[h].next \in DOMAIN A /\ A[A[h].next].prev = h
    BY <1>1, <1>2, <1>3, <1>4, <2>3 DEF Linked, Listed
  <2>4. ASSUME NEW h \in DOMAIN A, A[h].prev # NULL
        PROVE  A[h].prev \in DOMAIN A /\ A[A[h].prev].next = h
    BY <1>1, <1>2, <1>3, <1>4, <2>4 DEF Linked, Listed
  <2> QED BY <2>1, <2>2, <2>3, <2>4 DEF Listed
<1>7. Tiled(A)
  <2>1. ASSUME NEW h \in DOMAIN A
        PROVE  /\ A[h].size >= HDR
               /\ h + A[h].size =
                    IF A[h].next = NULL THEN HEAP_END ELSE A[h].next
    BY <1>1, <1>2, <1>4 DEF Linked, Tiled, Block
  <2>2. ASSUME NEW g \in DOMAIN A, NEW h \in DOMAIN A, g < h
        PROVE  g + A[g].size <= h
    BY <1>1, <1>2, <1>4, <2>2 DEF Linked, Tiled, Block
  <2> QED BY <2>1, <2>2 DEF Tiled
<1>8. Covered(A)
  <2> SUFFICES ASSUME NEW a \in HEAP_START .. (HEAP_END - 1)
               PROVE  \E h \in DOMAIN A : h <= a /\ a < h + A[h].size
    BY DEF Covered
  <2>1. PICK h \in DOMAIN H : h <= a /\ a < h + H[h].size
    BY DEF Linked, Covered
  <2>2. CASE h = l \/ h = r
    <3>1. l <= a /\ a < l + A[l].size
      BY <2>1, <2>2, <1>1, <1>2, <1>3, <1>4 DEF Block
    <3> QED BY <3>1, <1>2, <1>3
  <2>3. CASE h # l /\ h # r
    BY <2>1, <2>3, <1>3, <1>4
  <2> QED BY <2>2, <2>3
<1> QED BY <1>5, <1>6, <1>7, <1>8 DEF Linked

(* Marking a block as free or as used leaves the list as it was. *)
LEMMA MarkLinked ==
    ASSUME NEW H, Linked(H), NEW b \in DOMAIN H, NEW v \in BOOLEAN
    PROVE  Linked([H EXCEPT ![b].free = v])
<1> DEFINE M == [H EXCEPT ![b].free = v]
<1>1. /\ H \in [DOMAIN H -> Block]
      /\ DOMAIN M = DOMAIN H
      /\ M = [h \in DOMAIN M |-> M[h]]
  BY DEF Linked, Typed
<1>2. \A h \in DOMAIN H :
        /\ H[h] \in Block
        /\ M[h] = IF h = b THEN [H[h] EXCEPT !.free = v] ELSE H[h]
  BY <1>1
<1>3. \A h \in DOMAIN H :
        /\ M[h] \in Block
        /\ M[h].size = H[h].size
        /\ M[h].next = H[h].next
        /\ M[h].prev = H[h].prev
  BY <1>2 DEF Block
<1>4. Typed(M)
  BY <1>1, <1>3 DEF Linked, Typed
<1>5. Listed(M)
  BY <1>1, <1>3 DEF Linked, Listed, Typed, Block
<1>6. Tiled(M)
  BY <1>1, <1>3 DEF Linked, Tiled
<1>7. Covered(M)
  BY <1>1, <1>3 DEF Linked, Covered
<1> QED BY <1>4, <1>5, <1>6, <1>7 DEF Linked

(* Cutting a block in two keeps the list sound. *)
LEMMA SplitLinked ==
    ASSUME Linked(heap), NEW h \in DOMAIN heap, NEW n \in Nat, n >= 16,
           Splits(h, n)
    PROVE  Linked(Split(h, n))
<1> DEFINE S == Split(h, n)
<1> USE HeapAssumption DEF NULL
<1>1. /\ heap \in [DOMAIN heap -> Block]
      /\ DOMAIN heap \subseteq HEAP_START .. (HEAP_END - 1)
      /\ \A a \in DOMAIN heap : a \in Nat /\ a # 0 /\ heap[a] \in Block
  BY DEF Linked, Typed
<1>2. /\ heap[h].size >= n + HDR + 16
      /\ heap[h].size \in Nat /\ heap[h].next \in Nat
      /\ h + heap[h].size <= HEAP_END
  <2>1. heap[h].next # 0 => heap[h].next \in HEAP_START .. (HEAP_END - 1)
    BY <1>1 DEF Linked, Listed
  <2> QED BY <2>1, <1>1 DEF Splits, Linked, Tiled, Block
<1>3. /\ h + n \in Nat /\ h + n # 0 /\ h < h + n
      /\ h + n \in HEAP_START .. (HEAP_END - 1)
      /\ h + n # heap[h].next
      /\ heap[h].next # h
  BY <1>1, <1>2 DEF Linked, Tiled
<1>4. h + n \notin DOMAIN heap
  BY <1>1, <1>2, <1>3 DEF Linked, Tiled
<1>5. DOMAIN S = DOMAIN heap \cup {h + n}
  BY DEF Split
<1>6. /\ S[h + n] = [size |-> heap[h].size - n, free |-> TRUE,
                     next |-> heap[h].next, prev |-> h]
      /\ S[h] = [heap[h] EXCEPT !.size = n, !.free = FALSE, !.next = h + n]
      /\ \A a \in DOMAIN heap :
           a # h => S[a] = IF a = heap[h].next
                             THEN [heap[a] EXCEPT !.prev = h + n]
                             ELSE heap[a]
  BY <1>3, <1>4 DEF Split
<1>7. /\ S[h + n] \in Block /\ S[h] \in Block
      /\ S[h + n].size = heap[h].size - n
      /\ S[h + n].next = heap[h].next
      /\ S[h + n].prev = h
      /\ S[h].size = n
      /\ S[h].next = h + n
      /\ S[h].prev = heap[h].prev
  <2>1. S[h + n] \in Block
    BY <1>1, <1>2, <1>6 DEF Block
  <2>2. heap[h] \in Block
    BY <1>1
  <2>3. S[h] \in Block
    BY <2>2, <1>3, <1>6 DEF Block
  <2>4. S[h].size = n /\ S[h].next = h + n /\ S[h].prev = heap[h].prev
    BY <2>2, <1>6 DEF Block
  <2> QED BY <2>1, <2>3, <2>4, <1>6
<1>8. \A a \in DOMAIN heap : a # h =>
        /\ S[a] \in Block
        /\ S[a].size = heap[a].size
        /\ S[a].next = heap[a].next
        /\ S[a].prev = IF a = heap[h].next THEN h + n ELSE heap[a].prev
  <2> SUFFICES ASSUME NEW a \in DOMAIN heap, a # h
               PROVE  /\ S[a] \in Block
                      /\ S[a].size = heap[a].size
                      /\ S[a].next = heap[a].next
                      /\ S[a].prev = IF a = heap[h].next
                                       THEN h + n ELSE heap[a].prev
    OBVIOUS
  <2>1. CASE a = heap[h].next
    <3>1. S[a] = [heap[a] EXCEPT !.prev = h + n] /\ heap[a] \in Block
      BY <2>1, <1>1, <1>6
    <3> QED BY <2>1, <3>1, <1>3 DEF Block
  <2>2. CASE a # heap[h].next
    BY <2>2, <1>1, <1>6
  <2> QED BY <2>1, <2>2
<1>9. Typed(S)
  <2>1. S = [a \in DOMAIN S |-> S[a]]
    BY DEF Split
  <2> QED BY <2>1, <1>1, <1>3, <1>5, <1>7, <1>8 DEF Typed
<1>10. Listed(S)
  <2>1. HEAP_START \in DOMAIN S
    BY <1>5 DEF Linked, Listed
  <2>2. ASSUME NEW a \in DOMAIN S
        PROVE  /\ S[a].prev = NULL <=> a = HEAP_START
               /\ S[a].next # NULL =>
                    S[a].next \in DOMAIN S /\ S[S[a].next].prev = a
               /\ S[a].prev # NULL =>
                    S[a].prev \in DOMAIN S /\ S[S[a].prev].next = a
    <3>1. CASE a = h + n
      BY <3>1, <1>1, <1>3, <1>4, <1>5, <1>7, <1>8 DEF Linked, Listed
    <3>2. CASE a = h
      BY <3>2, <1>1, <1>3, <1>4, <1>5, <1>7, <1>8 DEF Linked, Listed
    <3>3. CASE a # h /\ a \in DOMAIN heap
      BY <3>3, <1>1, <1>3, <1>4, <1>5, <1>7, <1>8 DEF Linked, Listed
    <3> QED BY <3>1, <3>2, <3>3, <1>5
  <2> QED BY <2>1, <2>2 DEF Listed
<1>11. Tiled(S)
  <2>1. ASSUME NEW a \in DOMAIN S
        PROVE  /\ S[a].size >= HDR
               /\ a + S[a].size =
                    IF S[a].next = NULL THEN HEAP_END ELSE S[a].next
    BY <1>1, <1>2, <1>3, <1>5, <1>7, <1>8 DEF Linked, Tiled, Block
  <2>2. ASSUME NEW g \in DOMAIN S, NEW a \in DOMAIN S, g < a
        PROVE  g + S[g].size <= a
    <3>1. CASE g = h + n
      BY <3>1, <2>2, <1>1, <1>2, <1>3, <1>5, <1>7 DEF Linked, Tiled, Block
    <3>2. CASE g # h + n /\ a = h + n
      BY <3>2, <2>2, <1>1, <1>2, <1>3, <1>5, <1>7, <1>8 DEF Linked, Tiled, Block
    <3>3. CASE g # h + n /\ a # h + n
      BY <3>3, <2>2, <1>1, <1>2, <1>3, <1>5, <1>7, <1>8 DEF Linked, Tiled, Block
    <3> QED BY <3>1, <3>2, <3>3
  <2> QED BY <2>1, <2>2 DEF Tiled
<1>12. Covered(S)
  <2> SUFFICES ASSUME NEW a \in HEAP_START .. (HEAP_END - 1)
               PROVE  \E g \in DOMAIN S : g <= a /\ a < g + S[g].size
    BY DEF Covered
  <2>1. PICK g \in DOMAIN heap : g <= a /\ a < g + heap[g].size
    BY DEF Linked, Covered
  <2>2. CASE g # h
    BY <2>1, <2>2, <1>5, <1>8
  <2>3. CASE g = h /\ a < h + n
    BY <2>1, <2>3, <1>5, <1>7
  <2>4. CASE g = h /\ h + n <= a
    <3>1. h + n <= a /\ a < (h + n) + S[h + n].size
      BY <2>1, <2>4, <1>1, <1>2, <1>3, <1>7
    <3> QED BY <3>1, <1>5
  <2> QED BY <2>1, <2>2, <2>3, <2>4, <1>1
<1> QED BY <1>9, <1>10, <1>11, <1>12 DEF Linked

-----------------------------------------------------------------------------
(* Merging with the next block: the list stays sound, no block in use is   *)
(* touched, b itself is still a block and no free block follows it.        *)
LEMMA MergeNextSound ==
    ASSUME NEW H, Linked(H), NEW b \in DOMAIN H, H[b].free, MergedBut(H, b)
    PROVE  LET M == MergeNext(H, b) IN
           /\ Linked(M)
           /\ SameUsed(H, M)
           /\ b \in DOMAIN M /\ M[b].free
           /\ M[b].next # NULL => ~M[M[b].next].free
           /\ MergedBut(M, b)
<1> DEFINE r == H[b].next
           M == MergeNext(H, b)
<1> USE DEF NULL
<1>1. /\ H \in [DOMAIN H -> Block]
      /\ DOMAIN H \subseteq Nat
      /\ \A h \in DOMAIN H : H[h] \in Block
  BY HeapAssumption DEF Linked, Typed
<1>2. CASE ~(r # NULL /\ H[r].free)
  BY <1>2 DEF MergeNext, SameUsed
<1>3. CASE r # NULL /\ H[r].free
  <2>1. M = Absorb(H, b, r) /\ r \in DOMAIN H
    BY <1>3 DEF MergeNext, Linked, Listed
  <2>2. Linked(M)
    BY <2>1, AbsorbLinked
  <2>3. b # r /\ H[r].next # r /\ H[r].next # b
    <3>1. b \in Nat /\ r \in Nat /\ b < r /\ b # NULL
      BY <2>1, <1>3, NextIsRight
    <3>2. H[r].next # NULL => H[r].next \in Nat /\ r < H[r].next
      BY <2>1, <1>1, NextIsRight
    <3> QED BY <3>1, <3>2
  <2>4. /\ DOMAIN M = DOMAIN H \ {r}
        /\ \A h \in DOMAIN M :
             /\ M[h].free = H[h].free
             /\ h # b => M[h].size = H[h].size /\ M[h].next = H[h].next
        /\ M[b].next = H[r].next
    BY <2>1, <2>3, <1>1 DEF Absorb, Block
  <2>5. SameUsed(H, M)
    BY <2>4, <1>3 DEF SameUsed
  <2>6. b \in DOMAIN M /\ M[b].free
    BY <2>3, <2>4
  <2>7. M[b].next # NULL => ~M[M[b].next].free
    BY <2>1, <2>3, <2>4, <1>3 DEF MergedBut, Linked, Listed
  <2>8. MergedBut(M, b)
    <3> SUFFICES ASSUME NEW h \in DOMAIN M, M[h].free, M[h].next # NULL,
                        h # b, M[h].next # b
                 PROVE  ~M[M[h].next].free
      BY DEF MergedBut
    <3>1. M[h].next = H[h].next /\ H[h].free /\ H[h].next \in DOMAIN H
      BY <2>4 DEF Linked, Listed
    <3>2. H[h].next # r
      BY <2>1, <2>4, <3>1 DEF Linked, Listed
    <3> QED BY <3>1, <3>2, <2>4 DEF MergedBut
  <2> QED BY <2>2, <2>5, <2>6, <2>7, <2>8
<1> QED BY <1>2, <1>3

(* Merging with the previous block then leaves no two adjacent free blocks. *)
LEMMA MergePrevSound ==
    ASSUME NEW H, Linked(H), NEW b \in DOMAIN H, H[b].free, MergedBut(H, b),
           H[b].next # NULL => ~H[H[b].next].free
    PROVE  LET M == MergePrev(H, b) IN
           /\ Linked(M)
           /\ SameUsed(H, M)
           /\ \A h \in DOMAIN M :
                M[h].free /\ M[h].next # NULL => ~M[M[h].next].free
<1> DEFINE l == H[b].prev
           M == MergePrev(H, b)
<1> USE DEF NULL
<1>1. /\ H \in [DOMAIN H -> Block]
      /\ DOMAIN H \subseteq Nat
      /\ \A h \in DOMAIN H : H[h] \in Block
  BY HeapAssumption DEF Linked, Typed
<1>2. CASE ~(l # NULL /\ H[l].free)
  <2>1. M = H
    BY <1>2 DEF MergePrev
  <2>2. ASSUME NEW h \in DOMAIN H, H[h].free, H[h].next # NULL
        PROVE  ~H[H[h].next].free
    <3>1. CASE H[h].next = b
      <4>1. H[b].prev = h /\ h # NULL
        BY <3>1, <2>2, NextIsRight
      <4> QED BY <4>1, <2>2, <1>2
    <3>2. CASE H[h].next # b
      BY <3>2, <2>2 DEF MergedBut
    <3> QED BY <3>1, <3>2
  <2> QED BY <2>1, <2>2 DEF SameUsed
<1>3. CASE l # NULL /\ H[l].free
  <2>1. M = Absorb(H, l, b) /\ l \in DOMAIN H /\ H[l].next = b
    BY <1>3 DEF MergePrev, Linked, Listed
  <2>2. Linked(M)
    BY <2>1, AbsorbLinked
  <2>3. l # b /\ H[b].next # b /\ H[b].next # l
    <3>1. l \in Nat /\ b \in Nat /\ b # NULL /\ l # NULL
      BY <2>1, NextIsRight
    <3>2. l < b
      BY <2>1, <3>1, NextIsRight
    <3>3. H[b].next # NULL => H[b].next \in Nat /\ b < H[b].next
      BY <2>1, <1>1, NextIsRight
    <3> QED BY <3>1, <3>2, <3>3
  <2>4. /\ DOMAIN M = DOMAIN H \ {b}
        /\ \A h \in DOMAIN M :
             /\ M[h].free = H[h].free
             /\ h # l => M[h].size = H[h].size /\ M[h].next = H[h].next
        /\ M[l].next = H[b].next
    BY <2>1, <2>3, <1>1 DEF Absorb, Block
  <2>5. SameUsed(H, M)
    BY <2>4, <1>3 DEF SameUsed
  <2>6. ASSUME NEW h \in DOMAIN M, M[h].free, M[h].next # NULL
        PROVE  ~M[M[h].next].free
    <3>1. CASE h = l
      BY <3>1, <2>3, <2>4, <2>6 DEF Linked, Listed
    <3>2. CASE h # l
      <4>1. M[h].next = H[h].next /\ H[h].free /\ H[h].next \in DOMAIN H
        BY <3>2, <2>4, <2>6 DEF Linked, Listed
      <4>2. H[h].next # b
        BY <3>2, <2>1, <2>4, <4>1, <2>6 DEF Linked, Listed
      <4> QED BY <3>2, <4>1, <4>2, <2>4, <2>6 DEF MergedBut, Linked, Listed
    <3> QED BY <3>1, <3>2
  <2> QED BY <2>2, <2>5, <2>6
<1> QED BY <1>2, <1>3

-----------------------------------------------------------------------------
(* The heap memory_init leaves. *)
LEMMA InitSound == Init => IInv
<1> SUFFICES ASSUME Init PROVE IInv
  OBVIOUS
<1> USE HeapAssumption DEF NULL
<1> DEFINE first == [size |-> HEAP_END - HEAP_START, free |-> TRUE,
                     next |-> NULL, prev |-> NULL]
<1>1. /\ DOMAIN heap = {HEAP_START} /\ heap[HEAP_START] = first
      /\ heap = [h \in {HEAP_START} |-> first]
      /\ first \in Block
  BY DEF Init, Block
<1>2. DOMAIN live = {} /\ live = [p \in {} |-> 0]
  BY DEF Init
<1>3. TypeOK
  BY <1>1, <1>2 DEF TypeOK, Init
<1>4. ListFollowsAddresses /\ BlocksTileHeap /\ FreeBlocksMerged
  BY <1>1 DEF ListFollowsAddresses, BlocksTileHeap, FreeBlocksMerged
<1>5. UsedBlocksAreHeld
  BY <1>1, <1>2 DEF UsedBlocksAreHeld
<1> QED BY <1>3, <1>4, <1>5 DEF IInv, HeapSound

(* kmalloc that finds a block. *)
LEMMA TakeSound ==
    ASSUME IInv, NEW request \in Requests, NEW h \in DOMAIN heap,
           KmallocTakes(request, h)
    PROVE  IInv'
<1> DEFINE n == ALIGN_UP(request)
<1> USE DEF NULL
<1>1. /\ Linked(heap) /\ FreeBlocksMerged /\ UsedBlocksAreHeld /\ TypeOK
      /\ h \in Nat /\ h # 0 /\ heap[h] \in Block
      /\ heap[h].free /\ heap[h].size >= n
  BY LinkedHeap, NextIsRight
     DEF IInv, HeapSound, KmallocTakes, FirstFit, Fits, NULL
<1>2. /\ request \in Nat /\ request # 0
      /\ n \in Nat /\ n >= 16 /\ n >= request
  <2>1. request \in Nat /\ request # 0
    BY HeapAssumption DEF KmallocTakes
  <2> QED BY <2>1, AlignUp
<1> HIDE DEF n
<1>3. heap' = IF Splits(h, n) THEN Split(h, n) ELSE Take(h)
  BY DEF KmallocTakes, n
<1>4. /\ DOMAIN live' = DOMAIN live \cup {h + HDR}
      /\ live' = [p \in DOMAIN live' |-> live'[p]]
      /\ live'[h + HDR] = request
      /\ \A p \in DOMAIN live : p # h + HDR => live'[p] = live[p]
  BY DEF KmallocTakes
<1>5. Linked(heap')
  <2>1. CASE Splits(h, n)
    BY <2>1, <1>1, <1>2, <1>3, SplitLinked
  <2>2. CASE ~Splits(h, n)
    BY <2>2, <1>1, <1>3, MarkLinked DEF Take
  <2> QED BY <2>1, <2>2
<1>6. /\ {a \in DOMAIN heap' : ~heap'[a].free} =
           {a \in DOMAIN heap : ~heap[a].free} \cup {h}
      /\ \A a \in DOMAIN heap : ~heap[a].free => heap'[a].size = heap[a].size
      /\ heap'[h].size >= request
      /\ FreeBlocksMerged'
  <2>1. CASE Splits(h, n)
    <3>1. heap' = Split(h, n)
      BY <2>1, <1>3
    <3>2. h + n \notin DOMAIN heap
      BY <2>1, <1>1, <1>2, HeapAssumption
         DEF Splits, Linked, Tiled, Typed, Block
    <3>3. h # h + n /\ heap[h].next # h + n
      BY <3>2, <1>1, <1>2 DEF Linked, Listed
    <3>4. /\ DOMAIN heap' = DOMAIN heap \cup {h + n}
          /\ heap'[h + n].free /\ heap'[h + n].next = heap[h].next
          /\ ~heap'[h].free /\ heap'[h].size = n /\ heap'[h].next = h + n
          /\ \A a \in DOMAIN heap : a # h =>
               /\ heap'[a].free = heap[a].free
               /\ heap'[a].size = heap[a].size
               /\ heap'[a].next = heap[a].next
      BY <3>1, <3>2, <3>3, <1>1 DEF Split, Block, Linked, Typed
    <3>5. FreeBlocksMerged'
      <4> SUFFICES ASSUME NEW a \in DOMAIN heap', heap'[a].free,
                          heap'[a].next # NULL
                   PROVE  ~heap'[heap'[a].next].free
        BY DEF FreeBlocksMerged
      <4>1. CASE a = h + n
        <5>1. heap[h].next # NULL /\ heap[h].next \in DOMAIN heap
          BY <4>1, <3>4, <1>1 DEF Linked, Listed
        <5>2. ~heap[heap[h].next].free
          BY <5>1, <1>1 DEF FreeBlocksMerged
        <5>3. heap[h].next # h
          BY <5>2, <1>1
        <5> QED BY <4>1, <5>1, <5>2, <5>3, <3>4
      <4>2. CASE a # h + n
        <5>1. a \in DOMAIN heap /\ a # h /\ heap[a].free
              /\ heap[a].next # NULL /\ heap'[a].next = heap[a].next
          BY <4>2, <3>4
        <5>2. heap[a].next \in DOMAIN heap /\ ~heap[heap[a].next].free
          BY <5>1, <1>1 DEF FreeBlocksMerged, Linked, Listed
        <5>3. heap[a].next # h
          BY <5>2, <1>1
        <5> QED BY <5>1, <5>2, <5>3, <3>4
      <4> QED BY <4>1, <4>2
    <3> QED BY <3>2, <3>3, <3>4, <3>5, <1>1, <1>2
  <2>2. CASE ~Splits(h, n)
    <3>1. heap' = [heap EXCEPT ![h].free = FALSE]
      BY <2>2, <1>3 DEF Take
    <3>2. /\ DOMAIN heap' = DOMAIN heap
          /\ ~heap'[h].free
          /\ \A a \in DOMAIN heap :
               /\ a # h => heap'[a].free = heap[a].free
               /\ heap'[a].size = heap[a].size
               /\ heap'[a].next = heap[a].next
      BY <3>1, <1>1 DEF Block, Linked, Typed
    <3>3. FreeBlocksMerged'
      BY <3>2, <1>1 DEF FreeBlocksMerged, Linked, Listed
    <3>4. heap[h].size \in Nat /\ heap[h].size >= request
      BY <1>1, <1>2 DEF Block
    <3> QED BY <3>2, <3>3, <3>4, <1>1
  <2> QED BY <2>1, <2>2
<1>7. UsedBlocksAreHeld'
  <2>1. DOMAIN live' =
          {a + HDR : a \in {g \in DOMAIN heap' : ~heap'[g].free}}
    BY <1>1, <1>4, <1>6 DEF UsedBlocksAreHeld
  <2>2. ASSUME NEW a \in DOMAIN heap', ~heap'[a].free
        PROVE  heap'[a].size >= live'[a + HDR]
    <3>1. CASE a = h
      BY <3>1, <1>4, <1>6
    <3>2. CASE a # h
      <4>1. a \in DOMAIN heap /\ ~heap[a].free
        BY <3>2, <2>2, <1>6
      <4>2. a + HDR \in DOMAIN live /\ heap[a].size >= live[a + HDR]
        BY <4>1, <1>1 DEF UsedBlocksAreHeld
      <4>3. a + HDR # h + HDR
        BY <3>2, <4>1, <1>1, HeapAssumption DEF Linked, Typed
      <4> QED BY <4>1, <4>2, <4>3, <1>4, <1>6
    <3> QED BY <3>1, <3>2
  <2> QED BY <2>1, <2>2 DEF UsedBlocksAreHeld
<1>8. TypeOK'
  <2>1. DOMAIN live' \subseteq Nat
    BY <1>1, <1>4, HeapAssumption DEF TypeOK
  <2>2. \A p \in DOMAIN live' : live'[p] \in Requests
    BY <1>1, <1>4 DEF TypeOK
  <2>3. answer' \in [request : Nat, pointer : Nat]
    BY <1>1, <1>2, HeapAssumption DEF KmallocTakes
  <2> QED BY <2>1, <2>2, <2>3, <1>4, <1>5 DEF TypeOK, Linked, Typed
<1>9. HeapSound'
  BY <1>5, <1>6, <1>7
     DEF Linked, Listed, Tiled, Covered, ListFollowsAddresses, BlocksTileHeap, HeapSound
<1> QED BY <1>8, <1>9 DEF IInv

(* What kfree of a pointer a caller holds does to the blocks in use. *)
LEMMA KfreeUses ==
    ASSUME IInv, NEW p \in DOMAIN live, Kfree(p)
    PROVE  /\ p - HDR \in Used
           /\ Used' = Used \ {p - HDR}
           /\ \A h \in Used' : heap'[h].size = heap[h].size
           /\ answer' = answer
           /\ DOMAIN live' = DOMAIN live \ {p}
           /\ live' = [q \in DOMAIN live' |-> live[q]]
           /\ Linked(heap') /\ FreeBlocksMerged'
<1> DEFINE b == p - HDR
           marked == [heap EXCEPT ![b].free = TRUE]
           joined == MergeNext(marked, b)
<1> USE DEF NULL
<1>1. /\ Linked(heap) /\ FreeBlocksMerged /\ UsedBlocksAreHeld /\ TypeOK
  BY LinkedHeap DEF IInv, HeapSound
<1>2. /\ b \in DOMAIN heap /\ ~heap[b].free /\ p = b + HDR
  <2>1. PICK h \in DOMAIN heap : ~heap[h].free /\ p = h + HDR
    BY <1>1 DEF UsedBlocksAreHeld
  <2>2. h \in Nat
    BY <1>1, NextIsRight
  <2>3. b = h
    BY <2>1, <2>2, HeapAssumption
  <2> QED BY <2>1, <2>3
<1> HIDE DEF b
<1>3. /\ DOMAIN marked = DOMAIN heap
      /\ marked[b].free
      /\ \A a \in DOMAIN heap :
           /\ a # b => marked[a].free = heap[a].free
           /\ marked[a].size = heap[a].size
           /\ marked[a].next = heap[a].next
  BY <1>1, <1>2 DEF Linked, Typed, Block
<1>4. Linked(marked)
  BY <1>1, <1>2, MarkLinked
<1>5. MergedBut(marked, b)
  BY <1>1, <1>3 DEF MergedBut, FreeBlocksMerged, Linked, Listed
<1> HIDE DEF marked
<1>6. /\ Linked(joined) /\ SameUsed(marked, joined)
      /\ b \in DOMAIN joined /\ joined[b].free
      /\ joined[b].next # NULL => ~joined[joined[b].next].free
      /\ MergedBut(joined, b)
  BY <1>2, <1>3, <1>4, <1>5, MergeNextSound
<1>7. heap' = MergePrev(joined, b)
  BY DEF Kfree, b, marked
<1> HIDE DEF joined
<1>8. Linked(heap') /\ SameUsed(joined, heap') /\ FreeBlocksMerged'
  BY <1>6, <1>7, MergePrevSound DEF FreeBlocksMerged
<1>9. /\ DOMAIN live' = DOMAIN live \ {p}
      /\ live' = [q \in DOMAIN live' |-> live[q]]
      /\ answer' = answer
  BY DEF Kfree
<1>10. /\ {h \in DOMAIN heap' : ~heap'[h].free} =
            {h \in DOMAIN heap : ~heap[h].free} \ {b}
       /\ \A h \in DOMAIN heap' :
            ~heap'[h].free => h \in DOMAIN heap /\ heap'[h].size = heap[h].size
  <2>1. {h \in DOMAIN marked : ~marked[h].free} =
            {h \in DOMAIN heap : ~heap[h].free} \ {b}
    BY <1>2, <1>3
  <2>2. {h \in DOMAIN heap' : ~heap'[h].free} =
            {h \in DOMAIN marked : ~marked[h].free}
    BY <1>6, <1>8 DEF SameUsed
  <2>3. ASSUME NEW h \in DOMAIN heap', ~heap'[h].free
        PROVE  h \in DOMAIN heap /\ heap'[h].size = heap[h].size
    <3>1. h \in DOMAIN marked /\ ~marked[h].free
      BY <2>2, <2>3
    <3>2. h \in DOMAIN joined /\ ~joined[h].free
          /\ joined[h].size = marked[h].size
      BY <3>1, <1>6 DEF SameUsed
    <3>3. heap'[h].size = joined[h].size
      BY <3>2, <1>8 DEF SameUsed
    <3> QED BY <3>1, <3>2, <3>3, <1>3
  <2> QED BY <2>1, <2>2, <2>3
<1> QED BY <1>2, <1>8, <1>9, <1>10 DEF Used, b

(* kfree of a pointer a caller holds keeps the heap sound. *)
LEMMA KfreeSound ==
    ASSUME IInv, NEW p \in DOMAIN live, Kfree(p)
    PROVE  IInv'
<1>1. Linked(heap) /\ UsedBlocksAreHeld /\ TypeOK
  BY LinkedHeap DEF IInv, HeapSound
<1>2. /\ p - HDR \in Used
      /\ Used' = Used \ {p - HDR}
      /\ \A h \in Used' : heap'[h].size = heap[h].size
      /\ answer' = answer
      /\ DOMAIN live' = DOMAIN live \ {p}
      /\ live' = [q \in DOMAIN live' |-> live[q]]
      /\ Linked(heap') /\ FreeBlocksMerged'
  BY KfreeUses
<1>3. UsedBlocksAreHeld'
  <2>1. \A h \in DOMAIN heap : h \in Nat
    BY <1>1, NextIsRight
  <2>2. DOMAIN live' = {h + HDR : h \in Used'}
    <3>1. p \in Nat /\ \A h \in Used : h \in Nat /\ (h + HDR = p <=> h = p - HDR)
      BY <1>1, <2>1, HeapAssumption DEF Used, TypeOK
    <3>2. DOMAIN live = {h + HDR : h \in Used}
      BY <1>1 DEF UsedBlocksAreHeld, Used
    <3> QED BY <3>1, <3>2, <1>2
  <2>3. ASSUME NEW h \in Used'
        PROVE  heap'[h].size >= live'[h + HDR]
    <3>1. h \in DOMAIN heap /\ ~heap[h].free /\ heap'[h].size = heap[h].size
      BY <2>3, <1>2 DEF Used
    <3>2. h + HDR \in DOMAIN live'
      BY <2>2, <2>3
    <3> QED BY <3>1, <3>2, <1>1, <1>2 DEF UsedBlocksAreHeld
  <2> QED BY <2>2, <2>3 DEF UsedBlocksAreHeld, Used
<1>4. TypeOK'
  BY <1>1, <1>2 DEF TypeOK, Linked, Typed
<1>5. HeapSound'
  BY <1>2, <1>3
     DEF Linked, Listed, Tiled, Covered, ListFollowsAddresses, BlocksTileHeap,
         HeapSound
<1> QED BY <1>4, <1>5 DEF IInv

(* Every step keeps the invariant. *)
LEMMA NextSound == IInv /\ [Next]_vars => IInv'
<1> SUFFICES ASSUME IInv, [Next]_vars PROVE IInv'
  OBVIOUS
<1>1. ASSUME NEW request \in Requests, NEW h \in DOMAIN heap,
             KmallocTakes(request, h)
      PROVE  IInv'
  BY <1>1, TakeSound
<1>2. ASSUME NEW request \in Requests, KmallocFails(request)
      PROVE  IInv'
  <2>1. request \in Nat
    BY HeapAssumption
  <2>2. answer' \in [request : Nat, pointer : Nat]
        /\ heap' = heap /\ live' = live
    BY <1>2, <2>1 DEF KmallocFails, NULL
  <2> QED BY <2>2 DEF IInv, TypeOK, HeapSound, ListFollowsAddresses,
                      BlocksTileHeap, FreeBlocksMerged, UsedBlocksAreHeld
<1>3. ASSUME NEW p \in DOMAIN live, Kfree(p)
      PROVE  IInv'
  BY <1>3, KfreeSound
<1>4. CASE UNCHANGED vars
  BY <1>4 DEF vars, IInv, TypeOK, HeapSound, ListFollowsAddresses,
              BlocksTileHeap, FreeBlocksMerged, UsedBlocksAreHeld
<1> QED BY <1>1, <1>2, <1>3, <1>4 DEF Next, KfreeNull

(* memory_init, kmalloc and kfree keep the fields of every header in range *)
(* and the list of blocks sound, whatever sizes are asked for and in       *)
(* whatever order they are freed.                                          *)
THEOREM HeapStaysSound == Spec => []TypeOK /\ []HeapSound
<1>1. Spec => []IInv
  BY InitSound, NextSound, PTL DEF Spec
<1>2. IInv => TypeOK /\ HeapSound
  BY DEF IInv
<1> QED BY <1>1, <1>2, PTL

(* Headers stay in the heap and keep their types: splitting and merging    *)
(* never make one outside of HEAP_START .. HEAP_END.                       *)
THEOREM HeapTypesHold == Spec => []TypeOK
<1> QED BY HeapStaysSound, PTL

(* Callers that stay HDR bytes short of what they asked for never meet     *)
(* each other's memory or a header.                                        *)
THEOREM CallersStayApart == Spec => []CallersKeepApart
<1>1. ASSUME TypeOK, HeapSound
      PROVE  CallersKeepApart
  <2>1. Linked(heap) /\ UsedBlocksAreHeld
    BY <1>1, LinkedHeap DEF HeapSound
  <2> SUFFICES ASSUME NEW p \in DOMAIN live
               PROVE  /\ p + live[p] - HDR <= HEAP_END
                      /\ \A h \in DOMAIN heap :
                           p + live[p] - HDR <= h \/ h + HDR <= p
    BY DEF CallersKeepApart
  <2>2. PICK g \in DOMAIN heap : ~heap[g].free /\ p = g + HDR
    BY <2>1 DEF UsedBlocksAreHeld
  <2>3. live[p] \in Nat /\ live[p] <= heap[g].size
    BY <1>1, <2>1, <2>2, HeapAssumption DEF TypeOK, UsedBlocksAreHeld
  <2>4. g \in Nat /\ heap[g].size \in Nat /\ p \in Nat
    BY <2>1, <2>2, NextIsRight, HeapAssumption DEF Block
  <2>5. g + heap[g].size <= HEAP_END
    <3>1. heap[g].next # NULL => heap[g].next <= HEAP_END
      BY <2>1, HeapAssumption DEF Linked, Listed, Typed
    <3> QED BY <3>1, <2>1, <2>4, HeapAssumption DEF Linked, Tiled
  <2>6. ASSUME NEW h \in DOMAIN heap
        PROVE  p + live[p] - HDR <= h \/ h + HDR <= p
    <3>1. h \in Nat
      BY <2>1, NextIsRight
    <3>2. g < h => g + heap[g].size <= h
      BY <2>1 DEF Linked, Tiled
    <3> QED BY <3>1, <3>2, <2>2, <2>3, <2>4, HeapAssumption
  <2> QED BY <2>2, <2>3, <2>4, <2>5, <2>6, HeapAssumption
<1> QED BY <1>1, HeapStaysSound, PTL

(* Freeing everything gives the heap of memory_init back. *)
THEOREM FreeingAllRestoresHeap == Spec => []AllFreedIsOneBlock
<1>1. ASSUME TypeOK, HeapSound, DOMAIN live = {}
      PROVE  /\ DOMAIN heap = {HEAP_START}
             /\ heap[HEAP_START].size = HEAP_END - HEAP_START
  <2>1. Linked(heap) /\ FreeBlocksMerged /\ HEAP_START \in DOMAIN heap
    BY <1>1, LinkedHeap DEF HeapSound, Linked, Listed
  <2>2. \A h \in DOMAIN heap : heap[h].free
    BY <1>1 DEF HeapSound, UsedBlocksAreHeld
  <2>3. heap[HEAP_START].next = NULL
    BY <2>1, <2>2 DEF FreeBlocksMerged, Linked, Listed
  <2>4. HEAP_START + heap[HEAP_START].size = HEAP_END
        /\ heap[HEAP_START].size \in Nat
    BY <2>1, <2>3, NextIsRight DEF Linked, Tiled, Block
  <2>5. \A h \in DOMAIN heap : h = HEAP_START
    BY <2>1, <2>4, HeapAssumption DEF Linked, Tiled, Typed
  <2> QED BY <2>1, <2>4, <2>5, HeapAssumption
<1>2. TypeOK /\ HeapSound => AllFreedIsOneBlock
  BY <1>1 DEF AllFreedIsOneBlock
<1> QED BY <1>2, HeapStaysSound, PTL

-----------------------------------------------------------------------------
(* What kmalloc does to the blocks in use. *)
LEMMA TakeUses ==
    ASSUME IInv, NEW request \in Requests, NEW h \in DOMAIN heap,
           KmallocTakes(request, h)
    PROVE  LET n == ALIGN_UP(request) IN
           /\ h \notin Used
           /\ Used' = Used \cup {h}
           /\ \A a \in Used : heap'[a].size = heap[a].size
           /\ heap'[h].size \in n .. (n + HDR + 15)
           /\ heap'[h].size <= heap[h].size
<1> DEFINE n == ALIGN_UP(request)
<1> USE DEF NULL
<1>1. /\ Linked(heap) /\ h \in Nat /\ h # 0 /\ heap[h] \in Block
      /\ heap[h].free /\ heap[h].size >= n
  BY LinkedHeap, NextIsRight
     DEF IInv, HeapSound, KmallocTakes, FirstFit, Fits, NULL
<1>2. n \in Nat /\ n >= 16
  <2>1. request \in Nat /\ request # 0
    BY HeapAssumption DEF KmallocTakes
  <2> QED BY <2>1, AlignUp
<1> HIDE DEF n
<1>3. heap' = IF Splits(h, n) THEN Split(h, n) ELSE Take(h)
  BY DEF KmallocTakes, n
<1>4. CASE Splits(h, n)
  <2>1. heap' = Split(h, n)
    BY <1>3, <1>4
  <2>2. h + n \notin DOMAIN heap
    BY <1>1, <1>2, <1>4, HeapAssumption DEF Splits, Linked, Tiled, Typed, Block
  <2>3. h # h + n /\ heap[h].next # h + n
    BY <2>2, <1>1, <1>2 DEF Linked, Listed
  <2>4. /\ DOMAIN heap' = DOMAIN heap \cup {h + n}
        /\ heap'[h + n].free /\ ~heap'[h].free /\ heap'[h].size = n
        /\ \A a \in DOMAIN heap : a # h =>
             heap'[a].free = heap[a].free /\ heap'[a].size = heap[a].size
    BY <2>1, <2>2, <2>3, <1>1 DEF Split, Block, Linked, Typed
  <2>5. Used' = Used \cup {h} /\ h \notin Used
    BY <2>2, <2>4, <1>1 DEF Used
  <2> QED BY <2>4, <2>5, <1>1, <1>2, HeapAssumption DEF Used, n
<1>5. CASE ~Splits(h, n)
  <2>1. heap' = [heap EXCEPT ![h].free = FALSE]
    BY <1>3, <1>5 DEF Take
  <2>2. /\ DOMAIN heap' = DOMAIN heap
        /\ ~heap'[h].free
        /\ \A a \in DOMAIN heap :
             /\ a # h => heap'[a].free = heap[a].free
             /\ heap'[a].size = heap[a].size
    BY <2>1, <1>1 DEF Block, Linked, Typed
  <2>3. heap[h].size \in Nat /\ heap[h].size < n + HDR + 16
    BY <1>1, <1>2, <1>5, HeapAssumption DEF Splits, Block
  <2>4. Used' = Used \cup {h} /\ h \notin Used
    BY <2>2, <1>1 DEF Used
  <2> QED BY <2>2, <2>3, <2>4, <1>1, <1>2, HeapAssumption DEF Used, n
<1> QED BY <1>4, <1>5

(* A run of free addresses that is long enough lies in a free block that   *)
(* fits: kmalloc's search misses none.                                     *)
LEMMA VacantMeansFit ==
    ASSUME IInv, NEW n \in Nat, n > 0, NEW a \in HEAP_START .. HEAP_END,
           a + n <= HEAP_END,
           \A s \in Used : s + heap[s].size <= a \/ a + n <= s
    PROVE  \E h \in DOMAIN heap : Fits(h, n)
<1>1. Linked(heap) /\ FreeBlocksMerged
  BY LinkedHeap DEF IInv, HeapSound
<1>2. PICK g \in DOMAIN heap : g <= a /\ a < g + heap[g].size
  BY <1>1, HeapAssumption DEF Linked, Covered
<1>3. g \in Nat /\ heap[g].size \in Nat
  BY <1>1, NextIsRight DEF Block
<1>4. heap[g].free
  BY <1>2, <1>3, HeapAssumption DEF Used
<1>5. a + n <= g + heap[g].size
  <2>1. CASE heap[g].next = NULL
    BY <2>1, <1>1 DEF Linked, Tiled
  <2>2. CASE heap[g].next # NULL
    <3>1. /\ heap[g].next \in Used
          /\ g + heap[g].size = heap[g].next
      BY <2>2, <1>1, <1>4 DEF FreeBlocksMerged, Linked, Listed, Tiled, Used
    <3>2. heap[heap[g].next].size \in Nat /\ heap[heap[g].next].size >= HDR
      BY <3>1, <1>1, NextIsRight DEF Linked, Tiled, Block, Used
    <3> QED BY <3>1, <3>2, <1>2, <1>3, HeapAssumption
  <2> QED BY <2>1, <2>2
<1> QED BY <1>2, <1>3, <1>4, <1>5, HeapAssumption DEF Fits

(* The list of blocks implements the abstract heap: kmalloc hands out      *)
(* memory nobody holds, wastes less than a header and 16 bytes, and        *)
(* refuses only what no free run of addresses could hold.                  *)
THEOREM HeapImplementsAbstractHeap == Spec => ImplementsAbstractHeap
<1>1. Init => Abstract!Init
  <2> SUFFICES ASSUME Init PROVE Abstract!Init
    OBVIOUS
  <2>1. Used = {}
    BY DEF Init, Used
  <2>2. [h \in Used |-> heap[h].size] = [s \in {} |-> 0]
    BY <2>1
  <2> QED BY <2>2 DEF Init, Abstract!Init
<1>2. ASSUME IInv, NEW request \in Requests, NEW h \in DOMAIN heap,
             KmallocTakes(request, h)
      PROVE  Abstract!Allocate(request)
  <2> DEFINE n   == ALIGN_UP(request)
             len == heap'[h].size
  <2>1. /\ h \notin Used
        /\ Used' = Used \cup {h}
        /\ \A a \in Used : heap'[a].size = heap[a].size
        /\ len \in n .. (n + HDR + 15)
        /\ len <= heap[h].size
    BY <1>2, TakeUses
  <2>2. /\ Linked(heap) /\ h \in Nat /\ heap[h].size \in Nat
    BY <1>2, LinkedHeap, NextIsRight DEF IInv, HeapSound, Block
  <2>3. h \in HEAP_START .. HEAP_END /\ h + heap[h].size <= HEAP_END
    <3>1. heap[h].next # NULL => heap[h].next <= HEAP_END
      BY <2>2, HeapAssumption DEF Linked, Listed, Typed
    <3> QED BY <3>1, <2>2, HeapAssumption DEF Linked, Typed, Tiled
  <2>4. n \in Nat
    BY AlignUp, HeapAssumption
  <2>5. Abstract!Vacant(h, len)
    <3>1. h + len <= HEAP_END
      BY <2>1, <2>2, <2>3, <2>4, HeapAssumption
    <3>2. ASSUME NEW s \in Used
          PROVE  s + heap[s].size <= h \/ h + len <= s
      <4>1. s \in DOMAIN heap /\ s # h /\ s \in Nat
        BY <2>1, <2>2, NextIsRight DEF Used
      <4> QED BY <4>1, <2>1, <2>2, <2>4, HeapAssumption DEF Linked, Tiled
    <3> QED BY <3>1, <3>2 DEF Abstract!Vacant
  <2>6. [s \in Used' |-> heap'[s].size] =
          [s \in DOMAIN [t \in Used |-> heap[t].size] \cup {h} |->
             IF s = h THEN len ELSE [t \in Used |-> heap[t].size][s]]
    BY <2>1
  <2>7. request # 0 /\ answer' = [request |-> request, pointer |-> h + HDR]
    BY <1>2 DEF KmallocTakes
  <2>8. len \in n .. (n + (HDR + 15))
    BY <2>1, <2>4, HeapAssumption
  <2>9. [s \in Used |-> heap[s].size]' =
          [s \in DOMAIN [t \in Used |-> heap[t].size] \cup {h} |->
             IF s = h THEN len ELSE [t \in Used |-> heap[t].size][s]]
    BY <2>6
  <2> HIDE DEF len, n
  <2>10. \E l \in n .. (n + (HDR + 15)) :
           /\ Abstract!Vacant(h, l)
           /\ [s \in Used |-> heap[s].size]' =
                [s \in DOMAIN [t \in Used |-> heap[t].size] \cup {h} |->
                   IF s = h THEN l ELSE [t \in Used |-> heap[t].size][s]]
    BY <2>5, <2>8, <2>9
  <2> QED BY <2>3, <2>7, <2>10 DEF Abstract!Allocate, n
<1>3. ASSUME IInv, NEW request \in Requests, KmallocFails(request)
      PROVE  Abstract!Refuse(request)
  <2>1. request \in Nat
    BY HeapAssumption
  <2>2. ASSUME request # 0, NEW a \in HEAP_START .. HEAP_END,
               Abstract!Vacant(a, ALIGN_UP(request))
        PROVE  FALSE
    <3>1. ALIGN_UP(request) \in Nat /\ ALIGN_UP(request) > 0
      BY <2>1, <2>2, AlignUp
    <3>2. /\ a + ALIGN_UP(request) <= HEAP_END
          /\ \A s \in Used : s + heap[s].size <= a \/ a + ALIGN_UP(request) <= s
      BY <2>2 DEF Abstract!Vacant
    <3>3. \E h \in DOMAIN heap : Fits(h, ALIGN_UP(request))
      BY <1>3, <3>1, <3>2, VacantMeansFit
    <3> QED BY <3>3, <2>2, <1>3 DEF KmallocFails
  <2>3. [s \in Used |-> heap[s].size]' = [s \in Used |-> heap[s].size]
    BY <1>3 DEF KmallocFails, Used
  <2> QED BY <2>2, <2>3, <1>3 DEF KmallocFails, Abstract!Refuse
<1>4. ASSUME IInv, NEW p \in DOMAIN live, Kfree(p)
      PROVE  /\ p - HDR \in Used
             /\ Abstract!Release(p - HDR)
  <2>1. /\ p - HDR \in Used /\ Used' = Used \ {p - HDR}
        /\ \A h \in Used' : heap'[h].size = heap[h].size
        /\ answer' = answer
    BY <1>4, KfreeUses
  <2>2. [s \in Used' |-> heap'[s].size] =
          [s \in DOMAIN [t \in Used |-> heap[t].size] \ {p - HDR} |->
             [t \in Used |-> heap[t].size][s]]
    BY <2>1
  <2> QED BY <2>1, <2>2 DEF Abstract!Release
<1>5. IInv /\ [Next]_vars => [Abstract!Next]_(Abstract!vars)
  <2> SUFFICES ASSUME IInv, [Next]_vars
               PROVE  Abstract!Next \/ UNCHANGED Abstract!vars
    OBVIOUS
  <2>1. ASSUME NEW request \in Requests, NEW h \in DOMAIN heap,
               KmallocTakes(request, h)
        PROVE  Abstract!Next
    BY <2>1, <1>2 DEF Abstract!Next
  <2>2. ASSUME NEW request \in Requests, KmallocFails(request)
        PROVE  Abstract!Next
    BY <2>2, <1>3 DEF Abstract!Next
  <2>3. ASSUME NEW p \in DOMAIN live, Kfree(p)
        PROVE  Abstract!Next
    BY <2>3, <1>4 DEF Abstract!Next
  <2>4. CASE UNCHANGED vars
    BY <2>4 DEF vars, Abstract!vars, Used
  <2> QED BY <2>1, <2>2, <2>3, <2>4 DEF Next, KfreeNull
<1>6. Spec => []IInv
  BY InitSound, NextSound, PTL DEF Spec
<1> QED BY <1>1, <1>5, <1>6, PTL DEF Spec, ImplementsAbstractHeap, Abstract!Spec
=============================================================================
