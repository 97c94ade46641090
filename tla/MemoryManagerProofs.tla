------------------------ MODULE MemoryManagerProofs ------------------------
(***************************************************************************)
(* Proofs about the memory manager, for every number and size of pages,    *)
(* every swap space and all callers.                                       *)
(*                                                                         *)
(* PagesAccountedFor and SwapStack are each inductive; the latter adds to  *)
(* SwapSegmentsApart what a segment is and the bounds of swap_used.  What  *)
(* an address translates to rests on VirtualInv: the table holds every     *)
(* mapping as it was created, but for the places written over since.       *)
(***************************************************************************)
EXTENDS MemoryManager, TLAPS

(* Callers are not given pages they could free. *)
LEMMA PointerIsNull == ~Releases(Pointer)
  BY MemoryAssumption DEF Releases, Pointer, heap_offset, NULL

(* What taking pages does: all of count is taken, or nothing. *)
LEMMA TakingPages ==
    ASSUME NEW count \in Nat, PagesAccountedFor, TakePages(count)
    PROVE  /\ PagesAccountedFor'
           /\ free_pages' <= free_pages
  <1>1. CASE Available(count)
    <2>1. /\ used_pages' = used_pages + count
          /\ free_pages' = free_pages - count
          /\ used_memory' = used_memory + count * PAGE_SIZE
          /\ free_memory' = free_memory - count * PAGE_SIZE
          /\ count <= free_pages
      BY <1>1 DEF TakePages, Available
    <2>2. /\ used_pages \in Nat /\ free_pages \in Nat
          /\ free_pages + used_pages = PAGE_COUNT
          /\ free_memory = free_pages * PAGE_SIZE
          /\ used_memory = used_pages * PAGE_SIZE
      BY MemoryAssumption DEF PagesAccountedFor
    <2>3. /\ (free_pages - count) * PAGE_SIZE = free_pages * PAGE_SIZE - count * PAGE_SIZE
          /\ (used_pages + count) * PAGE_SIZE = used_pages * PAGE_SIZE + count * PAGE_SIZE
      BY <2>2, MemoryAssumption
    <2> QED
      BY <2>1, <2>2, <2>3, MemoryAssumption DEF PagesAccountedFor
  <1>2. CASE ~Available(count)
    BY <1>2, MemoryAssumption DEF TakePages, pages, PagesAccountedFor
  <1> QED
    BY <1>1, <1>2

(* Every step keeps the accounts, and no step frees a page. *)
LEMMA AccountsKept ==
    ASSUME PagesAccountedFor, [Next]_vars
    PROVE  /\ PagesAccountedFor'
           /\ free_pages' <= free_pages
  <1>1. CASE UNCHANGED pages
    BY <1>1, MemoryAssumption DEF pages, PagesAccountedFor
  <1>2. ASSUME NEW count \in PageCounts, mm_allocate_pages(count)
        PROVE  /\ PagesAccountedFor'
               /\ free_pages' <= free_pages
    BY <1>2, TakingPages, MemoryAssumption DEF mm_allocate_pages
  <1>3. ASSUME NEW count \in PageCounts, mm_free_pages(count)
        PROVE  UNCHANGED pages
    BY <1>3, PointerIsNull DEF mm_free_pages
  <1>4. ASSUME NEW k \in Table, NEW entry \in Entries, mm_set_page_table_entry(k, entry)
        PROVE  /\ PagesAccountedFor'
               /\ free_pages' <= free_pages
    BY <1>4, TakingPages DEF mm_set_page_table_entry
  <1>5. ASSUME \/ mm_handle_page_fault
               \/ \E region \in Regions : mm_create_virtual_mapping(region)
               \/ \E amount \in 0 .. SWAP_SIZE : mm_set_swap_used(amount)
               \/ \E size \in SwapSizes : mm_allocate_swap_space(size)
               \/ \E h \in DOMAIN segments : mm_free_swap_space(h)
        PROVE  UNCHANGED pages
    BY <1>5 DEF mm_handle_page_fault, mm_create_virtual_mapping, mm_set_swap_used,
                mm_allocate_swap_space, mm_free_swap_space
  <1>6. CASE UNCHANGED vars
    BY <1>6, <1>1 DEF vars, pages
  <1> QED
    BY <1>1, <1>2, <1>3, <1>4, <1>5, <1>6 DEF Next

(* The accounts of src/mem.c:83-88 agree after any sequence of calls. *)
THEOREM AccountsAgree == Spec => []PagesAccountedFor
  <1>1. Init => PagesAccountedFor
    BY MemoryAssumption DEF Init, PagesAccountedFor
  <1>2. PagesAccountedFor /\ [Next]_vars => PagesAccountedFor'
    BY AccountsKept
  <1> QED
    BY <1>1, <1>2, PTL DEF Spec

(* A page that mm_allocate_pages took is not free again: the pointer it    *)
(* returns (src/mem.c:90) is one that mm_free_pages ignores (line 94).     *)
THEOREM PagesStayUsed == Spec => PagesNeverComeBack
  <1>1. PagesAccountedFor /\ [Next]_vars => [free_pages' <= free_pages]_pages
    BY AccountsKept
  <1> QED
    BY <1>1, AccountsAgree, PTL DEF Spec, PagesNeverComeBack

-----------------------------------------------------------------------------
(* There are addresses, and what is taken modulo WORD is one. *)
LEMMA WordRange ==
    /\ WORD \in Nat \ {0}
    /\ \A n \in Int : n % WORD \in 0 .. (WORD - 1)
  <1>1. PAGE_COUNT * PAGE_SIZE \in Nat
    BY MemoryAssumption
  <1>2. WORD \in Nat \ {0}
    BY <1>1, MemoryAssumption
  <1> QED
    BY <1>2

LEMMA WordSmall ==
    ASSUME NEW n \in Nat, n < WORD
    PROVE  n % WORD = n
  BY WordRange

Segment == [address : 1 .. SWAP_SIZE, size : 1 .. (WORD - 1)]

SwapStack ==
    /\ swap_used \in 0 .. SWAP_SIZE
    /\ DOMAIN segments \subseteq Holders
    /\ \A h \in DOMAIN segments : segments[h] \in Segment
    /\ cut \subseteq DOMAIN segments
    /\ SwapSegmentsApart

(* What the holders that were not cut hold, in numbers. *)
LEMMA WholeSegments ==
    ASSUME SwapStack
    PROVE  \A h \in DOMAIN segments :
             /\ segments[h].address \in Nat /\ segments[h].size \in Nat \ {0}
             /\ End(segments[h]) = segments[h].address + segments[h].size
             /\ End(segments[h]) \in Nat
             /\ h \notin cut => 0 < segments[h].address /\ End(segments[h]) <= swap_used
  BY MemoryAssumption DEF SwapStack, SwapSegmentsApart, Segment, End

(* Lowering swap_used to amount leaves apart what was, without those above *)
(* amount.                                                                 *)
LEMMA SwapLowered ==
    ASSUME SwapStack, NEW amount \in 0 .. SWAP_SIZE,
           swap_used' = amount, segments' = segments,
           cut' = cut \cup Above(amount)
    PROVE  SwapStack'
  <1>1. \A h \in DOMAIN segments \ cut' : h \notin cut /\ End(segments[h]) <= amount
    BY WholeSegments, MemoryAssumption DEF Above
  <1>2. SwapSegmentsApart'
    BY <1>1 DEF SwapStack, SwapSegmentsApart, End
  <1>3. cut' \subseteq DOMAIN segments'
    BY DEF SwapStack, Above
  <1> QED
    BY <1>2, <1>3 DEF SwapStack, Segment

(* A new segment lies on top of all that are held, unless the request made *)
(* swap_used wrap around: then it is cut from the start.                   *)
LEMMA SwapAllocated ==
    ASSUME SwapStack, NEW size \in SwapSizes, mm_allocate_swap_space(size)
    PROVE  SwapStack'
  <1>1. PICK h \in Holders \ DOMAIN segments :
          LET new == IF swap_used = 0 THEN {} ELSE {h} IN
          /\ segments' = [g \in DOMAIN segments \cup new |->
                 IF g \in new THEN [address |-> swap_used, size |-> size]
                              ELSE segments[g]]
          /\ cut' = IF Lowers(size) THEN cut \cup Above(swap_used') \cup new ELSE cut
    BY DEF mm_allocate_swap_space
  <1> DEFINE new == IF swap_used = 0 THEN {} ELSE {h}
             seg == [address |-> swap_used, size |-> size]
  <1>2. /\ swap_used \in 0 .. SWAP_SIZE /\ size \in 1 .. (WORD - 1)
        /\ swap_used' = (swap_used + size) % WORD
        /\ swap_used' \in 0 .. SWAP_SIZE
    <2>1. swap_used \in 0 .. SWAP_SIZE /\ size \in 1 .. (WORD - 1)
      BY MemoryAssumption DEF SwapStack
    <2>2. swap_used' = (swap_used + size) % WORD /\ swap_used' <= SWAP_SIZE
      BY DEF mm_allocate_swap_space, Fits
    <2>3. swap_used + size \in Int
      BY <2>1, MemoryAssumption
    <2>4. (swap_used + size) % WORD \in 0 .. (WORD - 1)
      BY ONLY <2>3, WordRange
    <2> QED
      BY <2>1, <2>2, <2>4, WordRange, MemoryAssumption
  <1>3. /\ DOMAIN segments' = DOMAIN segments \cup new
        /\ \A g \in DOMAIN segments : segments'[g] = segments[g]
        /\ \A g \in new : segments'[g] = seg
        /\ new \cap DOMAIN segments = {}
    BY <1>1
  <1>4. \A g \in new : seg \in Segment
    BY <1>2, MemoryAssumption DEF Segment
  <1>5. /\ DOMAIN segments' \subseteq Holders
        /\ \A g \in DOMAIN segments' : segments'[g] \in Segment
        /\ cut' \subseteq DOMAIN segments'
    BY <1>1, <1>3, <1>4 DEF SwapStack, Above
  <1>6. CASE Lowers(size)
    <2>1. \A g \in DOMAIN segments' \ cut' :
            g \in DOMAIN segments \ cut /\ End(segments[g]) <= swap_used'
      BY <1>1, <1>2, <1>3, <1>6, WholeSegments DEF Above
    <2>2. SwapSegmentsApart'
      BY <1>3, <2>1 DEF SwapStack, SwapSegmentsApart, End
    <2> QED
      BY <1>2, <1>5, <2>2 DEF SwapStack, Segment
  <1>7. CASE ~ Lowers(size)
    <2>1. swap_used' = swap_used + size /\ cut' = cut
      <3>1. swap_used + size \in Nat /\ swap_used + size < WORD
        BY <1>2, <1>7, WordRange, MemoryAssumption DEF Lowers
      <3>2. (swap_used + size) % WORD = swap_used + size
        BY ONLY <3>1, WordSmall
      <3> QED
        BY <1>1, <1>2, <1>7, <3>2
    <2>2. \A g \in DOMAIN segments \ cut :
            /\ segments[g].address \in Nat /\ segments[g].size \in Nat
            /\ 0 < segments[g].address /\ End(segments[g]) \in Nat
            /\ End(segments[g]) <= swap_used
      BY WholeSegments
    <2>3. \A g \in new : /\ segments'[g].address = swap_used /\ 0 < swap_used
                         /\ End(segments'[g]) = swap_used'
      <3>1. seg.address = swap_used /\ End(seg) = swap_used + size
        BY DEF End
      <3>2. \A g \in new : 0 < swap_used
        BY <1>2, MemoryAssumption
      <3> HIDE DEF seg, new
      <3> QED
        BY <1>3, <2>1, <3>1, <3>2
    <2>4. \A g, f \in new : g = f
      OBVIOUS
    <2> HIDE DEF new, seg
    <2>5. \A g \in DOMAIN segments : End(segments'[g]) = End(segments[g])
      BY <1>3
    <2>6. ASSUME NEW g \in DOMAIN segments' \ cut'
          PROVE  /\ 0 < segments'[g].address /\ End(segments'[g]) <= swap_used'
                 /\ \A f \in (DOMAIN segments' \ cut') \ {g} :
                      \/ End(segments'[g]) <= segments'[f].address
                      \/ End(segments'[f]) <= segments'[g].address
      <3>1. CASE g \in new
        <4>1. \A f \in (DOMAIN segments' \ cut') \ {g} : f \in DOMAIN segments \ cut
          BY <1>3, <2>1, <2>4, <3>1
        <4> QED
          BY <1>2, <2>1, <2>2, <2>3, <2>5, <3>1, <4>1
      <3>2. CASE g \in DOMAIN segments \ cut
        <4>1. 0 < segments'[g].address /\ End(segments'[g]) <= swap_used'
          BY <1>2, <1>3, <2>1, <2>2, <2>5, <3>2, MemoryAssumption
        <4>2. ASSUME NEW f \in new
              PROVE  End(segments'[g]) <= segments'[f].address
          BY <2>2, <2>3, <2>5, <3>2, <4>2
        <4>3. ASSUME NEW f \in DOMAIN segments \ cut, f # g
              PROVE  \/ End(segments'[g]) <= segments'[f].address
                     \/ End(segments'[f]) <= segments'[g].address
          BY <1>3, <2>5, <3>2, <4>3 DEF SwapStack, SwapSegmentsApart
        <4> QED
          BY <1>3, <2>1, <4>1, <4>2, <4>3
      <3> QED
        BY <1>3, <2>1, <2>6, <3>1, <3>2
    <2>7. SwapSegmentsApart'
      <3>1. \A g \in DOMAIN segments' \ cut' :
              End(segments'[g]) = End(segments[g])'
        BY DEF End
      <3> QED
        BY <2>6, <3>1 DEF SwapSegmentsApart
    <2> QED
      BY <1>2, <1>5, <2>7 DEF SwapStack, Segment
  <1> QED
    BY <1>6, <1>7

(* Freeing the segment on top lowers swap_used to its address.  If its     *)
(* holder was not cut, no other that was not reaches above that.           *)
LEMMA SwapFreed ==
    ASSUME SwapStack, NEW h \in DOMAIN segments, mm_free_swap_space(h)
    PROVE  SwapStack'
  <1> DEFINE a == segments[h].address
             n == segments[h].size
  <1>1. /\ a \in 1 .. SWAP_SIZE /\ n \in 1 .. (WORD - 1)
        /\ swap_used \in 0 .. SWAP_SIZE
        /\ End(segments[h]) = a + n
        /\ SWAP_SIZE \in Nat /\ WORD \in Nat /\ 2 * SWAP_SIZE < WORD
    BY MemoryAssumption DEF SwapStack, Segment, End
  <1>2. /\ DOMAIN segments' = DOMAIN segments \ {h}
        /\ \A g \in DOMAIN segments \ {h} : segments'[g] = segments[g]
    BY DEF mm_free_swap_space
  <1>3. OnTop(segments[h]) => swap_used' = a
    <2> SUFFICES ASSUME OnTop(segments[h]) PROVE swap_used' = a
      OBVIOUS
    <2>1. (a + n) % WORD = swap_used /\ swap_used' = (swap_used - n) % WORD
      BY <1>1 DEF OnTop, mm_free_swap_space
    <2> HIDE DEF a, n
    <2>2. CASE a + n < WORD
      <3>1. (a + n) % WORD = a + n
        BY <1>1, <2>2, WordSmall
      <3>2. swap_used - n = a
        BY <1>1, <2>1, <3>1
      <3> QED
        BY <1>1, <2>1, <3>2, WordSmall
    <2>3. CASE ~ (a + n < WORD)
      <3>1. (a + n) % WORD = a + n - WORD
        BY <1>1, <2>3
      <3>2. swap_used - n = a - WORD
        BY <1>1, <2>1, <3>1
      <3>3. (a - WORD) % WORD = a
        BY <1>1
      <3> QED
        BY <2>1, <3>2, <3>3
    <2> QED
      BY <2>2, <2>3
  <1>4. ~ OnTop(segments[h]) => swap_used' = swap_used
    BY DEF mm_free_swap_space
  <1>5. swap_used' \in 0 .. SWAP_SIZE
    BY <1>1, <1>3, <1>4
  <1>6. /\ DOMAIN segments' \subseteq Holders
        /\ \A g \in DOMAIN segments' : segments'[g] \in Segment
        /\ cut' \subseteq DOMAIN segments'
    BY <1>2 DEF SwapStack, mm_free_swap_space, Above
  <1>7. \A g \in DOMAIN segments' \ cut' :
          /\ g \in DOMAIN segments \ cut
          /\ segments'[g] = segments[g]
          /\ End(segments[g]) <= swap_used'
    <2> SUFFICES ASSUME NEW g \in DOMAIN segments' \ cut'
                 PROVE  /\ g \in DOMAIN segments \ cut
                        /\ segments'[g] = segments[g]
                        /\ End(segments[g]) <= swap_used'
      OBVIOUS
    <2>1. g \in DOMAIN segments \ cut /\ g # h /\ segments'[g] = segments[g]
      BY <1>2 DEF mm_free_swap_space
    <2>2. /\ End(segments[g]) \in Nat /\ End(segments[g]) <= swap_used
          /\ segments[g].address \in Nat /\ segments[g].size \in Nat \ {0}
          /\ End(segments[g]) = segments[g].address + segments[g].size
      BY <2>1, WholeSegments
    <2>3. CASE h \in cut
      <3>1. g \notin Above(swap_used')
        BY <2>1, <2>3 DEF mm_free_swap_space
      <3> QED
        BY <1>5, <2>1, <2>2, <3>1 DEF Above
    <2>4. CASE h \notin cut /\ OnTop(segments[h])
      <3>1. a + n <= swap_used
        BY <1>1, <2>4, WholeSegments
      <3>2. swap_used = a + n
        <4>1. a + n \in Nat /\ a + n < WORD
          BY <1>1, <3>1
        <4>2. (a + n) % WORD = swap_used
          BY <1>1, <2>4 DEF OnTop
        <4> HIDE DEF a, n
        <4> QED
          BY <4>1, <4>2, WordSmall
      <3>3. \/ End(segments[g]) <= a
            \/ End(segments[h]) <= segments[g].address
        BY <2>1, <2>4 DEF SwapStack, SwapSegmentsApart
      <3>4. End(segments[g]) <= a
        BY <1>1, <2>2, <3>2, <3>3
      <3> QED
        BY <1>3, <2>1, <2>4, <3>4
    <2>5. CASE h \notin cut /\ ~ OnTop(segments[h])
      BY <1>4, <2>1, <2>2, <2>5
    <2> QED
      BY <2>3, <2>4, <2>5
  <1>8. SwapSegmentsApart'
    BY <1>7 DEF SwapStack, SwapSegmentsApart, End
  <1> QED
    BY <1>5, <1>6, <1>8 DEF SwapStack, Segment

LEMMA SwapStackKept == SwapStack /\ [Next]_vars => SwapStack'
  <1> SUFFICES ASSUME SwapStack, [Next]_vars
               PROVE  SwapStack'
    OBVIOUS
  <1>1. CASE UNCHANGED swap
    BY <1>1 DEF SwapStack, SwapSegmentsApart, End, Segment, swap
  <1>2. ASSUME NEW amount \in 0 .. SWAP_SIZE, mm_set_swap_used(amount)
        PROVE  SwapStack'
    BY <1>2, SwapLowered DEF mm_set_swap_used
  <1>3. ASSUME \/ \E count \in PageCounts : mm_allocate_pages(count) \/ mm_free_pages(count)
               \/ mm_handle_page_fault
               \/ \E region \in Regions : mm_create_virtual_mapping(region)
               \/ \E k \in Table, entry \in Entries : mm_set_page_table_entry(k, entry)
        PROVE  UNCHANGED swap
    BY <1>3 DEF mm_allocate_pages, mm_free_pages, mm_handle_page_fault,
                mm_create_virtual_mapping, mm_set_page_table_entry
  <1>4. CASE UNCHANGED vars
    BY <1>1, <1>4 DEF vars, swap
  <1> QED
    BY <1>1, <1>2, <1>3, <1>4, SwapAllocated, SwapFreed DEF Next

(* Whoever's swap was not cut by lowering swap_used shares it with no      *)
(* other such holder, for requests of every size and in whatever order     *)
(* segments are given back (src/mem.c:204-222).                            *)
THEOREM SwapStaysApart == Spec => []SwapSegmentsApart
  <1>1. Init => SwapStack
    BY MemoryAssumption DEF Init, SwapStack, SwapSegmentsApart
  <1>2. SwapStack => SwapSegmentsApart
    BY DEF SwapStack
  <1> QED
    BY <1>1, <1>2, SwapStackKept, PTL DEF Spec

-----------------------------------------------------------------------------
(* What the list of mappings is: place i holds what callers created there, *)
(* unless a page table entry was stored over it.                           *)
MappingsTyped ==
    /\ mappings \in [Places -> Mapping]
    /\ mapping_count \in 0 .. MAX_MAPPINGS
    /\ created \in Seq(Regions)
    /\ overwritten \subseteq Places

MappingsKept ==
    /\ mapping_count = Len(created)
    /\ \A i \in 0 .. (mapping_count - 1) \ overwritten : mappings[i] = created[i + 1]

VirtualInv ==
    /\ MappingsTyped
    /\ MappingsKept
    /\ used_virtual_memory \in 0 .. (WORD - 1)
    /\ page_faults \in Nat /\ page_evictions \in 0 .. page_faults

LEMMA RegionIsMapping == Regions \subseteq Mapping
  BY MemoryAssumption DEF Mapping

LEMMA MappingFields ==
    ASSUME NEW m \in Mapping
    PROVE  m.vaddr \in Nat /\ m.paddr \in Nat /\ m.size \in Nat
  BY WordRange DEF Mapping

LEMMA WordsOfMapping ==
    ASSUME NEW m \in Mapping, NEW w, NEW entry \in 0 .. (WORD - 1)
    PROVE  WithWord(m, w, entry) \in Mapping
  <1>1. /\ [m EXCEPT !.vaddr = entry] \in Mapping
        /\ [m EXCEPT !.paddr = entry] \in Mapping
        /\ [m EXCEPT !.size = entry] \in Mapping
    BY DEF Mapping
  <1>2. WithWord(m, w, entry) \in {[m EXCEPT !.vaddr = entry], [m EXCEPT !.paddr = entry],
                                   [m EXCEPT !.size = entry], m}
    BY DEF WithWord
  <1> QED
    BY <1>1, <1>2

LEMMA PlaceRange == MAX_MAPPINGS \in Nat
  BY MemoryAssumption

LEMMA MappingCreated ==
    ASSUME VirtualInv, NEW region \in Regions, mm_create_virtual_mapping(region)
    PROVE  VirtualInv'
  <1> USE DEF mm_create_virtual_mapping, VirtualInv
  <1>1. /\ mapping_count \in Places /\ region \in Mapping
        /\ mappings' = [mappings EXCEPT ![mapping_count] = region]
        /\ mapping_count' = mapping_count + 1
        /\ created' = Append(created, region)
        /\ overwritten' = overwritten \ {mapping_count}
    BY RegionIsMapping, PlaceRange DEF MappingsTyped, Places
  <1>2. /\ created' \in Seq(Regions)
        /\ Len(created') = Len(created) + 1
        /\ \A i \in 1 .. Len(created) : created'[i] = created[i]
        /\ created'[Len(created) + 1] = region
    BY <1>1 DEF MappingsTyped
  <1>3. MappingsTyped'
    BY <1>1, <1>2, PlaceRange DEF MappingsTyped, Places
  <1>4. MappingsKept'
    <2>1. mapping_count = Len(created) /\ Len(created) \in Nat
      BY DEF MappingsKept, MappingsTyped
    <2>2. mappings'[mapping_count] = created'[mapping_count + 1]
      BY <1>1, <1>2, <2>1 DEF MappingsTyped
    <2>3. \A i \in 0 .. (mapping_count - 1) \ overwritten' : mappings'[i] = created'[i + 1]
      <3> SUFFICES ASSUME NEW i \in 0 .. (mapping_count - 1), i \notin overwritten'
                   PROVE  mappings'[i] = created'[i + 1]
        OBVIOUS
      <3>1. i # mapping_count /\ i \notin overwritten /\ i \in Places
        BY <1>1, <2>1, PlaceRange DEF Places, MappingsTyped
      <3>2. mappings'[i] = mappings[i]
        BY <1>1, <3>1 DEF MappingsTyped
      <3>3. created'[i + 1] = created[i + 1]
        BY <1>2, <2>1
      <3> QED
        BY <3>1, <3>2, <3>3 DEF MappingsKept
    <2> QED
      BY <1>1, <1>2, <2>1, <2>2, <2>3 DEF MappingsKept
  <1>5. used_virtual_memory' \in 0 .. (WORD - 1)
    <2>1. used_virtual_memory + region.size \in Int
      BY <1>1, MappingFields
    <2>2. used_virtual_memory' = (used_virtual_memory + region.size) % WORD
      OBVIOUS
    <2> QED
      BY ONLY <2>1, <2>2, WordRange
  <1>6. UNCHANGED faults
    OBVIOUS
  <1> QED
    BY <1>3, <1>4, <1>5, <1>6 DEF faults

(* The word of a page table entry changes one field of one mapping, which  *)
(* counts as overwritten from then on.                                     *)
LEMMA EntryStored ==
    ASSUME VirtualInv, NEW k \in Table, NEW entry \in Entries,
           mm_set_page_table_entry(k, entry)
    PROVE  VirtualInv'
  <1> USE DEF mm_set_page_table_entry, VirtualInv
  <1> DEFINE place == k \div 4
  <1>1. CASE place \notin Places
    BY <1>1 DEF MappingsTyped, MappingsKept, faults
  <1>2. CASE place \in Places
    <2>1. /\ mappings' = StoreWord(k, entry)
          /\ overwritten' = overwritten \cup {place}
          /\ UNCHANGED <<mapping_count, used_virtual_memory, created,
                         page_faults, page_evictions>>
      BY <1>2 DEF faults
    <2>2. entry \in 0 .. (WORD - 1)
      BY MemoryAssumption
    <2>3. \E m \in Mapping : mappings' = [mappings EXCEPT ![place] = m]
      <3>1. mappings[place] \in Mapping
        BY <1>2 DEF MappingsTyped
      <3>2. WithWord(mappings[place], k % 4, entry) \in Mapping
        BY <2>2, <3>1, WordsOfMapping
      <3> QED
        BY <2>1, <3>2 DEF StoreWord
    <2>4. MappingsTyped'
      BY <1>2, <2>1, <2>3 DEF MappingsTyped
    <2>5. \A i \in Places \ overwritten' : mappings'[i] = mappings[i] /\ i \notin overwritten
      BY <2>1, <2>3 DEF MappingsTyped
    <2>6. MappingsKept'
      <3>1. 0 .. (mapping_count - 1) \subseteq Places
        BY PlaceRange DEF MappingsTyped, Places
      <3> QED
        BY <2>1, <2>5, <3>1 DEF MappingsKept
    <2> QED
      BY <2>1, <2>4, <2>6
  <1> QED
    BY <1>1, <1>2

LEMMA VirtualInvKept == VirtualInv /\ [Next]_vars => VirtualInv'
  <1> SUFFICES ASSUME VirtualInv, [Next]_vars
               PROVE  VirtualInv'
    OBVIOUS
  <1>1. CASE UNCHANGED <<virtual, faults>>
    BY <1>1 DEF virtual, faults, VirtualInv, MappingsTyped, MappingsKept
  <1>2. CASE mm_handle_page_fault
    <2>1. UNCHANGED virtual
      BY <1>2 DEF mm_handle_page_fault
    <2>2. page_faults' \in Nat /\ page_evictions' \in 0 .. page_faults'
      BY <1>2 DEF mm_handle_page_fault, VirtualInv
    <2> QED
      BY <2>1, <2>2 DEF virtual, VirtualInv, MappingsTyped, MappingsKept
  <1>3. ASSUME \/ \E count \in PageCounts : mm_allocate_pages(count) \/ mm_free_pages(count)
               \/ \E amount \in 0 .. SWAP_SIZE : mm_set_swap_used(amount)
               \/ \E size \in SwapSizes : mm_allocate_swap_space(size)
               \/ \E h \in DOMAIN segments : mm_free_swap_space(h)
               \/ UNCHANGED vars
        PROVE  UNCHANGED <<virtual, faults>>
    BY <1>3 DEF mm_allocate_pages, mm_free_pages, mm_set_swap_used,
                mm_allocate_swap_space, mm_free_swap_space, vars, virtual, faults
  <1> QED
    BY <1>1, <1>2, <1>3, MappingCreated, EntryStored DEF Next

LEMMA VirtualInvHolds == Spec => []VirtualInv
  <1>1. Init => VirtualInv
    BY WordRange, MemoryAssumption
       DEF Init, VirtualInv, MappingsTyped, MappingsKept, Mapping, Places
  <1> QED
    BY <1>1, VirtualInvKept, PTL DEF Spec

(* What the memory manager keeps is of its types, whatever page table      *)
(* entries are stored over the list of mappings.                           *)
THEOREM MemoryTypes == Spec => []TypeOK
  <1>1. PagesAccountedFor /\ SwapStack /\ VirtualInv => TypeOK
    <2> SUFFICES ASSUME PagesAccountedFor, SwapStack, VirtualInv PROVE TypeOK
      OBVIOUS
    <2>1. free_pages * PAGE_SIZE \in Nat /\ used_pages * PAGE_SIZE \in Nat
      BY MemoryAssumption DEF PagesAccountedFor
    <2>2. /\ free_pages \in Nat /\ used_pages \in Nat
          /\ free_memory \in Nat /\ used_memory \in Nat
      BY <2>1, MemoryAssumption DEF PagesAccountedFor
    <2> QED
      BY <2>2 DEF TypeOK, SwapStack, Segment, VirtualInv, MappingsTyped
  <1>2. Init => SwapStack
    BY MemoryAssumption DEF Init, SwapStack, SwapSegmentsApart
  <1> QED
    BY <1>1, <1>2, SwapStackKept, VirtualInvHolds, AccountsAgree, PTL DEF Spec

-----------------------------------------------------------------------------
(* Translate answers by the first place that covers v. *)
LEMMA TranslatesByFirst ==
    ASSUME NEW v \in 0 .. (WORD - 1), mapping_count \in Nat,
           NEW i \in 0 .. (mapping_count - 1), Covers(mappings[i], v),
           \A j \in 0 .. (i - 1) : ~Covers(mappings[j], v)
    PROVE  Translate(v) = (mappings[i].paddr + (v - mappings[i].vaddr)) % WORD
  <1> DEFINE Hits == {j \in 0 .. (mapping_count - 1) : Covers(mappings[j], v)}
             First == CHOOSE j \in Hits : \A k \in Hits : j <= k
  <1>1. i \in Hits /\ \A j \in Hits : j \in Int /\ i <= j
    <2>1. ASSUME NEW j \in Hits PROVE j \in Int /\ i <= j
      <3>1. j \in Nat /\ i \in Nat /\ Covers(mappings[j], v)
        BY <2>1
      <3>2. ~ (j \in 0 .. (i - 1))
        BY <3>1
      <3> QED
        BY <3>1, <3>2
    <2> QED
      BY <2>1
  <1>2. Translate(v) = IF Hits = {} THEN 0
                       ELSE (mappings[First].paddr + (v - mappings[First].vaddr)) % WORD
    BY DEF Translate
  <1> HIDE DEF Hits
  <1>3. First \in Hits /\ \A k \in Hits : First <= k
    BY <1>1
  <1>4. First = i
    <2> HIDE DEF First
    <2> QED
      BY <1>1, <1>3
  <1> QED
    BY <1>1, <1>2, <1>4

(* A sum of two words that is no word wraps around below its parts. *)
LEMMA WordWraps ==
    ASSUME NEW a \in 0 .. (WORD - 1), NEW b \in 0 .. (WORD - 1), ~(a + b < WORD)
    PROVE  /\ (a + b) % WORD = a + b - WORD
           /\ a + b - WORD < a
  <1>1. WORD \in Nat \ {0} /\ a \in Nat /\ b \in Nat /\ b < WORD /\ a < WORD
    BY WordRange
  <1>2. a + b - WORD \in 0 .. (WORD - 1)
    BY <1>1
  <1>3. a + b = (a + b - WORD) + WORD
    BY <1>1
  <1> QED
    BY <1>1, <1>2, <1>3

(* At a place that was not written over, Covers says what callers asked    *)
(* for, and what reaches the end of the address space covers nothing.      *)
LEMMA CoversAsCreated ==
    ASSUME VirtualInv, NEW v \in 0 .. (WORD - 1),
           NEW i \in 1 .. Len(created), i - 1 \notin overwritten
    PROVE  /\ mappings[i - 1] = created[i]
           /\ created[i].vaddr \in Nat /\ created[i].paddr \in Nat
           /\ Covers(mappings[i - 1], v) <=>
                /\ created[i].vaddr <= v
                /\ v < created[i].vaddr + created[i].size
                /\ created[i].vaddr + created[i].size < WORD
  <1> DEFINE m == created[i]
  <1>1. /\ mapping_count = Len(created) /\ Len(created) \in Nat
        /\ i - 1 \in 0 .. (mapping_count - 1) /\ (i - 1) + 1 = i
    BY DEF VirtualInv, MappingsKept, MappingsTyped
  <1>2. mappings[i - 1] = m
    BY <1>1 DEF VirtualInv, MappingsKept
  <1>3. m \in Mapping
    BY <1>1, RegionIsMapping DEF VirtualInv, MappingsTyped
  <1> HIDE DEF m
  <1>4. /\ m.vaddr \in 0 .. (WORD - 1) /\ m.size \in 0 .. (WORD - 1)
        /\ m.paddr \in Nat /\ m.vaddr \in Nat /\ m.size \in Nat
    BY <1>3, MappingFields DEF Mapping
  <1>5. CASE m.vaddr + m.size < WORD
    <2>1. (m.vaddr + m.size) % WORD = m.vaddr + m.size
      BY <1>4, <1>5, WordSmall
    <2> QED
      BY <1>2, <1>4, <1>5, <2>1 DEF Covers, m
  <1>6. CASE ~ (m.vaddr + m.size < WORD)
    <2>1. /\ (m.vaddr + m.size) % WORD = m.vaddr + m.size - WORD
          /\ m.vaddr + m.size - WORD < m.vaddr
      BY ONLY <1>4, <1>6, WordWraps
    <2>2. WORD \in Nat
      BY WordRange
    <2>3. ~ Covers(m, v)
      BY ONLY <1>4, <2>1, <2>2, v \in 0 .. (WORD - 1) DEF Covers
    <2> QED
      BY <1>2, <1>4, <1>6, <2>3 DEF m
  <1> QED
    BY <1>5, <1>6

(* An address is translated by the first mapping that callers created for  *)
(* it, or to 0 (src/mem.c:124-146), as long as no page table entry was     *)
(* stored over a place of the list up to there; what callers map at other  *)
(* addresses, up to the end of the address space included, and what is     *)
(* stored over later places, changes nothing.                              *)
THEOREM MappingsTranslate == Spec => []TranslationFollowsMappings
  <1>1. VirtualInv => TranslationFollowsMappings
    <2> SUFFICES ASSUME VirtualInv PROVE TranslationFollowsMappings
      OBVIOUS
    <2> DEFINE IsFor(i, v) == /\ created[i].vaddr <= v
                              /\ v < created[i].vaddr + created[i].size
                              /\ created[i].vaddr + created[i].size < WORD
               Intact(n)   == \A i \in 1 .. n : i - 1 \notin overwritten
    <2>1. mapping_count = Len(created) /\ Len(created) \in Nat
      BY DEF VirtualInv, MappingsKept, MappingsTyped
    <2>2. ASSUME NEW v \in 0 .. (WORD - 1), NEW i \in 1 .. Len(created),
                 Intact(i), IsFor(i, v), \A j \in 1 .. (i - 1) : ~IsFor(j, v)
          PROVE  Translate(v) = (created[i].paddr + v - created[i].vaddr) % WORD
      <3>1. /\ mappings[i - 1] = created[i] /\ Covers(mappings[i - 1], v)
            /\ created[i].vaddr \in Nat /\ created[i].paddr \in Nat
        <4>1. i - 1 \notin overwritten
          BY <2>1, <2>2
        <4> QED
          BY <2>2, <4>1, CoversAsCreated
      <3>2. ASSUME NEW j \in 0 .. ((i - 1) - 1) PROVE ~Covers(mappings[j], v)
        <4>1. j + 1 \in 1 .. (i - 1) /\ j + 1 \in 1 .. Len(created) /\ (j + 1) - 1 = j
          BY <2>1
        <4>2. (j + 1) - 1 \notin overwritten /\ ~IsFor(j + 1, v)
          BY <2>1, <2>2, <4>1
        <4>3. ~Covers(mappings[(j + 1) - 1], v)
          BY <4>1, <4>2, CoversAsCreated
        <4> QED
          BY <4>1, <4>3
      <3>3. Translate(v) = (mappings[i - 1].paddr + (v - mappings[i - 1].vaddr)) % WORD
        <4>1. i - 1 \in 0 .. (mapping_count - 1) /\ mapping_count \in Nat
          BY <2>1
        <4> HIDE DEF IsFor, Intact
        <4> QED
          BY <3>1, <3>2, <4>1, TranslatesByFirst
      <3>4. created[i].paddr + (v - created[i].vaddr) = created[i].paddr + v - created[i].vaddr
        BY <3>1
      <3> QED
        BY <3>1, <3>3, <3>4
    <2>3. ASSUME NEW v \in 0 .. (WORD - 1), Intact(Len(created)),
                 \A i \in 1 .. Len(created) : ~IsFor(i, v)
          PROVE  Translate(v) = 0
      <3>1. ASSUME NEW j \in 0 .. (mapping_count - 1) PROVE ~Covers(mappings[j], v)
        <4>1. j + 1 \in 1 .. Len(created) /\ (j + 1) - 1 = j
          BY <2>1
        <4>2. (j + 1) - 1 \notin overwritten /\ ~IsFor(j + 1, v)
          BY <2>3, <4>1
        <4>3. ~Covers(mappings[(j + 1) - 1], v)
          BY <4>1, <4>2, CoversAsCreated
        <4> QED
          BY <4>1, <4>3
      <3> QED
        BY <3>1 DEF Translate
    <2> QED
      BY <2>1, <2>2, <2>3 DEF TranslationFollowsMappings
  <1> QED
    BY <1>1, VirtualInvHolds, PTL
=============================================================================
