----------------------------- MODULE BlockCache -----------------------------
(***************************************************************************)
(* The block cache of src/filesystem.c.  fs_set_block_data looks for a     *)
(* free slot once for every byte, not once for the block.                  *)
(*                                                                         *)
(* A slot is free while its block_number is 0, also when it holds data of  *)
(* block 0.  Left out: dirty and ref_count, which nothing reads, and the   *)
(* counts of hits and misses.                                              *)
(***************************************************************************)
EXTENDS Integers, Sequences, FiniteSetsExt

CONSTANTS
    BLOCK_SIZE,
    CacheSlots,     \* 256 in the code
    BlockNumbers,   \* blocks callers write and read
    Data            \* bytes

ASSUME BlockCacheAssumption ==
    /\ BLOCK_SIZE \in Nat \ {0} /\ CacheSlots \in Nat \ {0}
    /\ BlockNumbers \subseteq Nat
    /\ 0 \in Data

VARIABLE block_cache    \* slot -> [block_number, data]

Slots == 1 .. CacheSlots

Buffer == [1 .. BLOCK_SIZE -> Data]

ZeroBuffer == [i \in 1 .. BLOCK_SIZE |-> 0]

CacheInit == block_cache = [j \in Slots |-> [block_number |-> 0, data |-> ZeroBuffer]]

-----------------------------------------------------------------------------
HeldBy(cache, block) == {j \in Slots : cache[j].block_number = block}

(* A read answers the first slot with the block's number; without one it   *)
(* answers 0 and leaves the caller's buffer alone.                         *)
Hit(block) == HeldBy(block_cache, block) # {}

fs_get_block_data(block) == block_cache[Min(HeldBy(block_cache, block))].data

(* Mutated form: the loop over the slots is not left. *)
EveryFreeSlot(cache) == HeldBy(cache, 0)

(* The slots one byte is stored in. *)
SlotsForByte(cache) == IF HeldBy(cache, 0) = {} THEN {} ELSE {Min(HeldBy(cache, 0))}

WithByte(cache, block, i, byte) ==
    [j \in Slots |->
        IF j \in SlotsForByte(cache)
          THEN [block_number |-> block, data |-> [cache[j].data EXCEPT ![i] = byte]]
          ELSE cache[j]]

fs_set_block_data(block, buffer) ==
    LET stored[i \in 0 .. BLOCK_SIZE] ==
            IF i = 0 THEN block_cache
                     ELSE WithByte(stored[i - 1], block, i, buffer[i])
    IN  block_cache' = stored[BLOCK_SIZE]

(* Block numbers start anew, and the cache goes on holding the old blocks. *)
format == UNCHANGED block_cache

CacheNext ==
    \/ \E block \in BlockNumbers, buffer \in Buffer : fs_set_block_data(block, buffer)
    \/ format

CacheSpec == CacheInit /\ [][CacheNext]_block_cache

-----------------------------------------------------------------------------
Store == INSTANCE WriteOnceStore WITH
    Blocks <- BlockNumbers, Buffers <- Buffer, Empty <- ZeroBuffer,
    Capacity <- CacheSlots, BlockSize <- BLOCK_SIZE,
    known <- [b \in {c \in BlockNumbers \ {0} : Hit(c)} |-> fs_get_block_data(b)],
    zero  <- IF Hit(0) THEN fs_get_block_data(0) ELSE ZeroBuffer,
    room  <- Cardinality(HeldBy(block_cache, 0))

(* The cache behaves like a store that remembers the first byte of the     *)
(* first write of a block: reads of a block never answer what was written  *)
(* later, not even after the disk was formatted and the block belongs to   *)
(* another file.                                                           *)
ImplementsWriteOnceStore == Store!Spec
=============================================================================
