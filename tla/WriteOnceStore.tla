--------------------------- MODULE WriteOnceStore ---------------------------
(***************************************************************************)
(* What the block cache of src/filesystem.c amounts to for its callers.    *)
(*                                                                         *)
(* A block is remembered the first time it is written, if there is room,   *)
(* and never again: later writes of it only use up room.  Of a block no    *)
(* more than the first byte is remembered; the others are those of block 0 *)
(* at that time.  Block 0 alone can be written again and again, until a    *)
(* write of another block wipes it out.                                    *)
(***************************************************************************)
EXTENDS Integers, Sequences, Functions, FiniteSetsExt

CONSTANTS Blocks, Buffers, Capacity, BlockSize, Empty

VARIABLES
    known,      \* number of a block -> what a read of it answers
    zero,       \* what a read of block 0 answers
    room

vars == <<known, zero, room>>

TypeOK ==
    /\ DOMAIN known \subseteq Blocks \ {0}
    /\ \A b \in DOMAIN known : known[b] \in Buffers
    /\ zero \in Buffers
    /\ room \in 0 .. Capacity

Init ==
    /\ known = [b \in {} |-> Empty]
    /\ zero = Empty
    /\ room = Capacity

WriteZero(buffer) ==
    /\ zero' = IF room > 0 THEN buffer ELSE zero
    /\ UNCHANGED <<known, room>>

Write(block, buffer) ==
    /\ known' = IF block \in DOMAIN known \/ room = 0 THEN known
                ELSE [b \in DOMAIN known \cup {block} |->
                        IF b = block THEN [zero EXCEPT ![1] = buffer[1]]
                                     ELSE known[b]]
    /\ room' = IF room < BlockSize THEN 0 ELSE room - BlockSize
    /\ zero' = Empty

Next ==
    \E buffer \in Buffers :
        WriteZero(buffer) \/ \E block \in Blocks \ {0} : Write(block, buffer)

Spec == Init /\ [][Next]_vars
=============================================================================
