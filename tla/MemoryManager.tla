--------------------------- MODULE MemoryManager ---------------------------
(***************************************************************************)
(* The memory manager of src/mem.c: the accounts of physical pages, the    *)
(* page tables, the list of virtual mappings and the swap space.           *)
(*                                                                         *)
(* Nothing assigns heap_offset or vm.mappings.  So every allocation of     *)
(* pages, the failed ones included, returns the null pointer, and both the *)
(* list of mappings and every page table lie at address 0 of the flat      *)
(* memory the kernel runs in: word k of a page table is word k % 4 of      *)
(* mapping k \div 4.  (Strictly this is undefined; a build that traps      *)
(* there instead takes no further step.)                                   *)
(*                                                                         *)
(* Left out: permissions of mappings, page_directory and page_tables,      *)
(* which stay NULL, and total_virtual_memory, which is never read.         *)
(***************************************************************************)
EXTENDS Integers, Sequences, SequencesExt, FiniteSets

CONSTANTS
    PAGE_COUNT, PAGE_SIZE,
    MAX_MAPPINGS,
    SWAP_SIZE,
    WORD,                \* values of a uint32_t
    PageCounts,          \* pages callers ask for
    Regions,             \* mappings callers create: [vaddr, paddr, size]
    Table,               \* indices into a page table
    Entries,             \* entries callers set; the accessed and the dirty bit
    SwapSizes,           \* swap callers ask for; to ask for 0 changes nothing
    Holders,             \* who may hold a segment of swap, one each
    MaxFaults            \* bound on page_faults

NULL == 0

ASSUME MemoryAssumption ==
    /\ PAGE_COUNT \in Nat /\ PAGE_SIZE \in Nat \ {0}
    /\ MAX_MAPPINGS \in Nat /\ SWAP_SIZE \in Nat
    /\ WORD \in Nat /\ PAGE_COUNT * PAGE_SIZE < WORD
    /\ PageCounts \subseteq Nat
    /\ Regions \subseteq [vaddr : 0 .. (WORD - 1), paddr : 0 .. (WORD - 1),
                          size : 0 .. (WORD - 1)]
    /\ Table \subseteq Nat
    /\ Entries \subseteq 0 .. (WORD - 1)
    /\ SwapSizes \subseteq 1 .. (WORD - 1) /\ 2 * SWAP_SIZE < WORD
    /\ MaxFaults \in Nat

VARIABLES
    free_pages, used_pages, free_memory, used_memory,
    mappings,            \* the words of the list, by mapping and field
    mapping_count,
    used_virtual_memory,
    page_faults, page_evictions,
    swap_used,
    created,             \* history: the mappings callers created, in order
    overwritten,         \* history: the mappings a page table entry was stored in
    segments,            \* history: the swap that is held, holder -> [address, size]
    cut                  \* history: the holders swap_used was lowered under

vars == <<free_pages, used_pages, free_memory, used_memory,
          mappings, mapping_count, used_virtual_memory, page_faults,
          page_evictions, swap_used, created, overwritten, segments, cut>>

pages == <<free_pages, used_pages, free_memory, used_memory>>
virtual == <<mappings, mapping_count, used_virtual_memory, created, overwritten>>
faults == <<page_faults, page_evictions>>
swap == <<swap_used, segments, cut>>

-----------------------------------------------------------------------------
Places == 0 .. (MAX_MAPPINGS - 1)

(* memory_manager_init. *)
Init ==
    /\ free_pages = PAGE_COUNT
    /\ used_pages = 0
    /\ free_memory = PAGE_COUNT * PAGE_SIZE
    /\ used_memory = 0
    /\ mappings = [i \in Places |-> [vaddr |-> 0, paddr |-> 0, size |-> 0]]
    /\ mapping_count = 0
    /\ used_virtual_memory = 0
    /\ page_faults = 0 /\ page_evictions = 0
    /\ swap_used = 0
    /\ created = <<>> /\ overwritten = {} /\ segments = <<>> /\ cut = {}

heap_offset == 0

(* What mm_allocate_pages returns when it took the pages. *)
Pointer == heap_offset * PAGE_SIZE

(* Mutated form: zero pages are a failure, too many are not. *)
AnyNumber(count) == count > 0

Available(count) == count > 0 /\ count <= free_pages

(* Takes count pages, or none; the pointer returned is NULL either way. *)
TakePages(count) ==
    IF Available(count)
      THEN /\ used_pages' = used_pages + count
           /\ free_pages' = free_pages - count
           /\ used_memory' = used_memory + count * PAGE_SIZE
           /\ free_memory' = free_memory - count * PAGE_SIZE
      ELSE UNCHANGED pages

(* mm_enable_virtual_memory does the same with one page. *)
mm_allocate_pages(count) ==
    /\ TakePages(count)
    /\ UNCHANGED <<virtual, faults, swap>>

Releases(ptr) == ptr # NULL

(* Callers free what mm_allocate_pages returned. *)
mm_free_pages(count) ==
    /\ IF Releases(Pointer)
         THEN /\ used_pages' = used_pages - count
              /\ free_pages' = free_pages + count
              /\ used_memory' = used_memory - count * PAGE_SIZE
              /\ free_memory' = free_memory + count * PAGE_SIZE
         ELSE UNCHANGED pages
    /\ UNCHANGED <<virtual, faults, swap>>

mm_handle_page_fault ==
    /\ page_faults < MaxFaults
    /\ page_faults' = page_faults + 1
    /\ page_evictions' = IF free_memory < PAGE_SIZE THEN page_evictions + 1
                                                    ELSE page_evictions
    /\ UNCHANGED <<pages, virtual, swap>>

mm_create_virtual_mapping(region) ==
    /\ mapping_count < MAX_MAPPINGS
    /\ mappings' = [mappings EXCEPT ![mapping_count] = region]
    /\ mapping_count' = mapping_count + 1
    /\ used_virtual_memory' = (used_virtual_memory + region.size) % WORD
    /\ created' = Append(created, region)
    /\ overwritten' = overwritten \ {mapping_count}
    /\ UNCHANGED <<pages, faults, swap>>

(* Mutated form: the range includes the address behind it. *)
CoversOneMore(m, v) == v >= m.vaddr /\ v <= (m.vaddr + m.size) % WORD

Covers(m, v) == v >= m.vaddr /\ v < (m.vaddr + m.size) % WORD

(* mm_translate_virtual_to_physical: by the first mapping that covers v. *)
Translate(v) ==
    LET Hits == {i \in 0 .. (mapping_count - 1) : Covers(mappings[i], v)} IN
    IF Hits = {} THEN 0
    ELSE LET m == mappings[CHOOSE i \in Hits : \A j \in Hits : i <= j]
         IN  (m.paddr + (v - m.vaddr)) % WORD

(* Word w of a mapping is replaced; the fourth holds its permissions. *)
WithWord(m, w, entry) ==
    CASE w = 0 -> [m EXCEPT !.vaddr = entry]
      [] w = 1 -> [m EXCEPT !.paddr = entry]
      [] w = 2 -> [m EXCEPT !.size = entry]
      [] OTHER -> m

(* Word k of the memory at address 0. *)
StoreWord(k, entry) ==
    [mappings EXCEPT ![k \div 4] = WithWord(@, k % 4, entry)]

(* The table is missing, which costs a page, and is still missing then.    *)
(* mm_mark_page_accessed and _dirty do the same with their bit alone: the  *)
(* entry they read from a missing table is 0.                              *)
mm_set_page_table_entry(k, entry) ==
    /\ TakePages(1)
    /\ IF k \div 4 \in Places
         THEN /\ mappings' = StoreWord(k, entry)
              /\ overwritten' = overwritten \cup {k \div 4}
         ELSE UNCHANGED <<mappings, overwritten>>
    /\ UNCHANGED <<mapping_count, used_virtual_memory, created, faults, swap>>

-----------------------------------------------------------------------------
End(s) == s.address + s.size

(* Whose swap reaches above amount. *)
Above(amount) == {h \in DOMAIN segments : End(segments[h]) > amount}

(* Nobody is told that swap above amount will be handed out again. *)
mm_set_swap_used(amount) ==
    /\ amount <= SWAP_SIZE
    /\ swap_used' = amount
    /\ cut' = cut \cup Above(amount)
    /\ UNCHANGED <<pages, virtual, faults, segments>>

(* Mutated form: the swap in use is not counted. *)
SizeFits(size) == size <= SWAP_SIZE

Fits(size) == (swap_used + size) % WORD <= SWAP_SIZE

(* A size near 2^32 is granted and lowers swap_used. *)
Lowers(size) == swap_used + size >= WORD

(* Address 0 is also the answer to a request that failed: the caller of    *)
(* the first segment does not know that it has it.                         *)
mm_allocate_swap_space(size) ==
    /\ Fits(size)
    /\ swap_used' = (swap_used + size) % WORD
    /\ \E h \in Holders \ DOMAIN segments :
         LET new == IF swap_used = 0 THEN {} ELSE {h} IN
         /\ segments' = [g \in DOMAIN segments \cup new |->
                IF g \in new THEN [address |-> swap_used, size |-> size]
                             ELSE segments[g]]
         /\ cut' = IF Lowers(size) THEN cut \cup Above(swap_used') \cup new ELSE cut
    /\ UNCHANGED <<pages, virtual, faults>>

(* Mutated form: any segment's size is given back. *)
AnySegment(s) == TRUE

OnTop(s) == End(s) % WORD = swap_used

(* Only the segment on top is given back; another one stays used for good. *)
(* Giving back a segment that was cut may cut others.                      *)
mm_free_swap_space(h) ==
    /\ swap_used' = IF OnTop(segments[h]) THEN (swap_used - segments[h].size) % WORD
                                          ELSE swap_used
    /\ segments' = [g \in DOMAIN segments \ {h} |-> segments[g]]
    /\ cut' = (IF h \in cut THEN cut \cup Above(swap_used') ELSE cut) \ {h}
    /\ UNCHANGED <<pages, virtual, faults>>

Next ==
    \/ \E count \in PageCounts : mm_allocate_pages(count) \/ mm_free_pages(count)
    \/ mm_handle_page_fault
    \/ \E region \in Regions : mm_create_virtual_mapping(region)
    \/ \E k \in Table, entry \in Entries : mm_set_page_table_entry(k, entry)
    \/ \E amount \in 0 .. SWAP_SIZE : mm_set_swap_used(amount)
    \/ \E size \in SwapSizes : mm_allocate_swap_space(size)
    \/ \E h \in DOMAIN segments : mm_free_swap_space(h)

Spec == Init /\ [][Next]_vars

-----------------------------------------------------------------------------
(* Type invariant. *)
Mapping == [vaddr : 0 .. (WORD - 1), paddr : 0 .. (WORD - 1), size : 0 .. (WORD - 1)]

TypeOK ==
    /\ free_pages \in Nat /\ used_pages \in Nat
    /\ free_memory \in Nat /\ used_memory \in Nat
    /\ mappings \in [Places -> Mapping]
    /\ mapping_count \in 0 .. MAX_MAPPINGS
    /\ used_virtual_memory \in 0 .. (WORD - 1)
    /\ page_faults \in Nat /\ page_evictions \in 0 .. page_faults
    /\ swap_used \in 0 .. SWAP_SIZE
    /\ created \in Seq(Regions)
    /\ overwritten \subseteq Places
    /\ DOMAIN segments \subseteq Holders
    /\ \A h \in DOMAIN segments :
          segments[h] \in [address : 1 .. SWAP_SIZE, size : 1 .. (WORD - 1)]
    /\ cut \subseteq DOMAIN segments

(* The accounts agree: every page is either free or used, in pages and in  *)
(* bytes, also of the pages that storing page table entries costs.         *)
PagesAccountedFor ==
    /\ used_pages \in 0 .. PAGE_COUNT /\ free_pages \in 0 .. PAGE_COUNT
    /\ free_pages + used_pages = PAGE_COUNT
    /\ free_memory = free_pages * PAGE_SIZE
    /\ used_memory = used_pages * PAGE_SIZE

(* A page that was used is never free again: callers have no pointer that  *)
(* mm_free_pages would take back.                                          *)
PagesNeverComeBack == [][free_pages' <= free_pages]_pages

(* An address is translated by the first mapping callers created for it,   *)
(* and to 0 if there is none, as long as no page table entry was stored    *)
(* over the places of the list that are searched for it.  A mapping that   *)
(* reaches the end of the address space is for no address: its end wraps   *)
(* around (src/mem.c:140).                                                 *)
TranslationFollowsMappings ==
    LET IsFor(i, v) == /\ created[i].vaddr <= v
                       /\ v < created[i].vaddr + created[i].size
                       /\ created[i].vaddr + created[i].size < WORD
        Intact(n)   == \A i \in 1 .. n : i - 1 \notin overwritten
    IN
    /\ mapping_count = Len(created)
    /\ \A v \in 0 .. (WORD - 1) :
         /\ \A i \in 1 .. Len(created) :
              /\ Intact(i) /\ IsFor(i, v)
              /\ \A j \in 1 .. (i - 1) : ~IsFor(j, v)
              => Translate(v) = (created[i].paddr + v - created[i].vaddr) % WORD
         /\ /\ Intact(Len(created))
            /\ \A i \in 1 .. Len(created) : ~IsFor(i, v)
            => Translate(v) = 0

(* What a holder of swap holds is in use and no other's, in whatever order *)
(* segments are given back, unless swap_used was lowered under it: by      *)
(* mm_set_swap_used (src/mem.c:204), by a request whose sum wraps around   *)
(* (line 211), or when a segment that had lost its swap so was given back. *)
(* Its swap is then handed out again.                                      *)
SwapSegmentsApart ==
    LET Whole == DOMAIN segments \ cut IN
    \A h \in Whole :
        /\ 0 < segments[h].address /\ End(segments[h]) <= swap_used
        /\ \A g \in Whole \ {h} :
             \/ End(segments[h]) <= segments[g].address
             \/ End(segments[g]) <= segments[h].address
=============================================================================
