----------------------------- MODULE FileSystem -----------------------------
(***************************************************************************)
(* The file system of src/filesystem.c: the inode table, the table of open *)
(* files and the superblock's counters of free blocks and inodes.          *)
(*                                                                         *)
(* No data is stored: reading and writing move positions and sizes.        *)
(* Numbers of inodes, descriptors and blocks only count up; closing and    *)
(* deleting give none back.  uint32_t arithmetic is modulo WORD.           *)
(*                                                                         *)
(* Left out: permissions, types, owners and times (only stored and copied  *)
(* out) and the block cache.                                               *)
(***************************************************************************)
EXTENDS Integers, FiniteSets, Functions, Words

CONSTANTS
    MAX_OPEN_FILES, MAX_INODES, MAX_BLOCKS, BLOCK_SIZE,
    RESERVED_BLOCKS,     \* filesystem_init and format keep 100 blocks back
    RESERVED_INODES,     \* and 10 inodes
    Garbage,             \* how many of 12 uninitialized block_ptrs are not 0
    GarbageLinks,        \* what the root inode's hard_links may start as
    ReadSizes, WriteSizes, Positions,     \* arguments of the callers
    MaxReturned,         \* bound on the blocks given back
    MaxFreed             \* bound on the inodes given back

FIRST_FD == 3

ASSUME FileSystemAssumption ==
    /\ MAX_OPEN_FILES \in Nat /\ FIRST_FD < MAX_OPEN_FILES
    /\ RESERVED_INODES \in Nat /\ MAX_INODES \in Nat
    /\ 0 < RESERVED_INODES /\ RESERVED_INODES < MAX_INODES
    /\ RESERVED_BLOCKS \in Nat /\ MAX_BLOCKS \in Nat
    /\ RESERVED_BLOCKS < MAX_BLOCKS
    /\ BLOCK_SIZE \in Nat \ {0}
    /\ 2 * MAX_BLOCKS * BLOCK_SIZE < WORD
    /\ Garbage \subseteq Nat /\ GarbageLinks \subseteq Nat
    /\ ReadSizes \subseteq 0 .. (WORD - 1)
    /\ WriteSizes \subseteq 0 .. (WORD - 1)
    /\ Positions \subseteq 0 .. (WORD - 1)
    /\ MaxReturned \in Nat /\ MaxFreed \in Nat

Inodes == 0 .. (MAX_INODES - 1)
Fds == 0 .. (MAX_OPEN_FILES - 1)

VARIABLES
    inode_table,         \* inode number -> [size, hard_links, pointers]
    file_descriptors,    \* fd -> [inode, position, is_open]
    free_blocks, free_inodes,
    next_inode_number, next_block_number, next_fd,
    stale,               \* history: open fds whose inode was created anew, or
                         \*   that were left open by a format
    displaced,           \* history: open fds whose file was shrunk by a write,
                         \*   and that were not moved by a seek since
    returned,            \* history: blocks given back since the last format
    freed                \* history: inodes given back since the last format

vars == <<inode_table, file_descriptors, free_blocks, free_inodes,
          next_inode_number, next_block_number, next_fd, stale, displaced,
          returned, freed>>

-----------------------------------------------------------------------------
INITIAL_BLOCKS == MAX_BLOCKS - RESERVED_BLOCKS
INITIAL_INODES == MAX_INODES - RESERVED_INODES

(* filesystem_init: static storage is zero; the root inode is copied from  *)
(* a local whose hard_links and block_ptrs were never set.                 *)
Init ==
    /\ \E links \in GarbageLinks, pointers \in Garbage :
         inode_table = [i \in Inodes |->
             IF i = 0 THEN [size |-> 0, hard_links |-> links, pointers |-> pointers]
                      ELSE [size |-> 0, hard_links |-> 0, pointers |-> 0]]
    /\ file_descriptors =
         [fd \in Fds |-> [inode |-> 0, position |-> 0, is_open |-> FALSE]]
    /\ free_blocks = INITIAL_BLOCKS
    /\ free_inodes = INITIAL_INODES
    /\ next_inode_number = 1
    /\ next_block_number = RESERVED_BLOCKS
    /\ next_fd = FIRST_FD
    /\ stale = {}
    /\ displaced = {}
    /\ returned = 0
    /\ freed = 0

(* The inodes that exist since the last format.  Callers delete and open   *)
(* no other number, although the code would take any in the table.         *)
Known == 0 .. (next_inode_number - 1)

IsOpen(fd) == file_descriptors[fd].is_open

InodeOf(fd) == file_descriptors[fd].inode

(* Mutated form: creating a file does not use up an inode. *)
InodesUnchanged == free_inodes

InodesAfterCreate == free_inodes - 1

(* With next_inode_number = MAX_INODES the code writes behind the table;   *)
(* the model stops short of that.  The new inode's block_ptrs are whatever *)
(* was on the stack.                                                       *)
fs_create_file ==
    /\ free_inodes # 0
    /\ next_inode_number < MAX_INODES
    /\ \E pointers \in Garbage :
         inode_table' = [inode_table EXCEPT ![next_inode_number] =
             [size |-> 0, hard_links |-> 1, pointers |-> pointers]]
    /\ next_inode_number' = next_inode_number + 1
    /\ free_inodes' = InodesAfterCreate
    /\ stale' = stale \cup {fd \in Fds : IsOpen(fd) /\ InodeOf(fd) = next_inode_number}
    /\ UNCHANGED <<file_descriptors, free_blocks, next_block_number, next_fd,
                   displaced, returned, freed>>

(* Deleting drops a link if there is one; with no link left the inode and  *)
(* its blocks are given back, and again by every further delete.           *)
fs_delete_file(i) ==
    LET left == IF inode_table[i].hard_links > 0
                  THEN inode_table[i].hard_links - 1 ELSE 0
        back == IF left = 0 THEN inode_table[i].pointers ELSE 0
    IN
    /\ i < MAX_INODES
    /\ returned + back <= MaxReturned
    /\ freed < MaxFreed
    /\ inode_table' = [inode_table EXCEPT ![i].hard_links = left]
    /\ free_blocks' = free_blocks + back
    /\ returned' = returned + back
    /\ free_inodes' = IF left = 0 THEN free_inodes + 1 ELSE free_inodes
    /\ freed' = IF left = 0 THEN freed + 1 ELSE freed
    /\ UNCHANGED <<file_descriptors, next_inode_number, next_block_number,
                   next_fd, stale, displaced>>

(* Mutated form: the number that was handed out last. *)
PreviousFd == IF next_fd > FIRST_FD THEN next_fd - 1 ELSE next_fd

NewFd == next_fd

fs_open_file(i) ==
    /\ next_fd < MAX_OPEN_FILES
    /\ i < MAX_INODES
    /\ file_descriptors' = [file_descriptors EXCEPT ![NewFd] =
           [inode |-> i, position |-> 0, is_open |-> TRUE]]
    /\ next_fd' = next_fd + 1
    /\ stale' = stale \ {NewFd}
    /\ displaced' = displaced \ {NewFd}
    /\ UNCHANGED <<inode_table, free_blocks, free_inodes, next_inode_number,
                   next_block_number, returned, freed>>

fs_close_file(fd) ==
    /\ fd < MAX_OPEN_FILES
    /\ file_descriptors' = [file_descriptors EXCEPT ![fd].is_open = FALSE]
    /\ stale' = stale \ {fd}
    /\ displaced' = displaced \ {fd}
    /\ UNCHANGED <<inode_table, free_blocks, free_inodes, next_inode_number,
                   next_block_number, next_fd, returned, freed>>

(* Mutated form: only a position behind the end of the file is noticed. *)
ToReadUnbounded(position, size, file_size) ==
    IF position > file_size THEN (file_size - position) % WORD ELSE size

(* file_position + size may wrap around; then all of size is "read". *)
BytesToRead(position, size, file_size) ==
    IF (position + size) % WORD > file_size
      THEN (file_size - position) % WORD
      ELSE size

fs_read_file(fd, size) ==
    LET position == file_descriptors[fd].position
        bytes    == BytesToRead(position, size, inode_table[InodeOf(fd)].size)
    IN
    /\ IsOpen(fd)
    /\ file_descriptors' = [file_descriptors EXCEPT
           ![fd].position = (position + bytes) % WORD]
    /\ UNCHANGED <<inode_table, free_blocks, free_inodes, next_inode_number,
                   next_block_number, next_fd, stale, displaced, returned, freed>>

(* Mutated form: a last block that is not full is not counted. *)
WholeBlocks(size) == size \div BLOCK_SIZE

BlocksNeeded(size) == ((size + BLOCK_SIZE - 1) % WORD) \div BLOCK_SIZE

EnoughBlocks(size) == free_blocks >= BlocksNeeded(size)

(* A size near 2^32 is added as a small negative one. *)
Shrinks(i, size) == inode_table[i].size + size >= WORD

(* The bytes are added at the end, wherever the position is. *)
fs_write_file(fd, size) ==
    /\ IsOpen(fd)
    /\ (inode_table[InodeOf(fd)].size + size) % WORD <= MAX_BLOCKS * BLOCK_SIZE
    /\ EnoughBlocks(size)
    /\ inode_table' = [inode_table EXCEPT
           ![InodeOf(fd)].size = (@ + size) % WORD]
    /\ file_descriptors' = [file_descriptors EXCEPT
           ![fd].position = (@ + size) % WORD]
    /\ free_blocks' = free_blocks - BlocksNeeded(size)
    /\ displaced' = displaced \cup
           {g \in Fds : /\ Shrinks(InodeOf(fd), size)
                       /\ IsOpen(g) /\ InodeOf(g) = InodeOf(fd)}
    /\ UNCHANGED <<free_inodes, next_inode_number, next_block_number, next_fd,
                   stale, returned, freed>>

fs_seek_file(fd, position) ==
    /\ IsOpen(fd)
    /\ position <= inode_table[InodeOf(fd)].size
    /\ file_descriptors' = [file_descriptors EXCEPT ![fd].position = position]
    /\ displaced' = displaced \ {fd}
    /\ UNCHANGED <<inode_table, free_blocks, free_inodes, next_inode_number,
                   next_block_number, next_fd, stale, returned, freed>>

(* Mutated form: handing out a block does not use one up. *)
BlocksUnchanged == free_blocks

BlocksAfterAllocate == free_blocks - 1

fs_allocate_block ==
    /\ free_blocks # 0
    /\ next_block_number' = next_block_number + 1
    /\ free_blocks' = BlocksAfterAllocate
    /\ UNCHANGED <<inode_table, file_descriptors, free_inodes,
                   next_inode_number, next_fd, stale, displaced, returned, freed>>

(* The block's number is not used: any caller raises the counter. *)
fs_free_block ==
    /\ returned < MaxReturned
    /\ free_blocks' = free_blocks + 1
    /\ returned' = returned + 1
    /\ UNCHANGED <<inode_table, file_descriptors, free_inodes,
                   next_inode_number, next_block_number, next_fd, stale,
                   displaced, freed>>

(* Formatting resets the counters, and neither the inodes nor the          *)
(* descriptors.                                                            *)
fs_format_filesystem ==
    /\ free_blocks' = INITIAL_BLOCKS
    /\ free_inodes' = INITIAL_INODES
    /\ next_inode_number' = 1
    /\ next_block_number' = RESERVED_BLOCKS
    /\ next_fd' = FIRST_FD
    /\ stale' = {fd \in Fds : IsOpen(fd)}
    /\ displaced' = {}
    /\ returned' = 0
    /\ freed' = 0
    /\ UNCHANGED <<inode_table, file_descriptors>>

Next ==
    \/ fs_create_file
    \/ \E i \in Known : fs_delete_file(i) \/ fs_open_file(i)
    \/ \E fd \in Fds :
         \/ fs_close_file(fd)
         \/ \E size \in ReadSizes : fs_read_file(fd, size)
         \/ \E size \in WriteSizes : fs_write_file(fd, size)
         \/ \E position \in Positions : fs_seek_file(fd, position)
    \/ fs_allocate_block
    \/ fs_free_block
    \/ fs_format_filesystem

Spec == Init /\ [][Next]_vars

-----------------------------------------------------------------------------
(* Type invariant: counters never go below zero, positions and sizes are   *)
(* numbers of 32 bits.                                                     *)
TypeOK ==
    /\ inode_table \in [Inodes ->
           [size : 0 .. (WORD - 1), hard_links : Nat, pointers : Nat]]
    /\ file_descriptors \in [Fds ->
           [inode : Inodes, position : 0 .. (WORD - 1), is_open : BOOLEAN]]
    /\ free_blocks \in Nat
    /\ free_inodes \in Nat
    /\ next_inode_number \in 1 .. MAX_INODES
    /\ next_block_number \in Nat
    /\ next_fd \in FIRST_FD .. MAX_OPEN_FILES
    /\ stale \subseteq Fds
    /\ displaced \subseteq Fds
    /\ returned \in 0 .. MaxReturned
    /\ freed \in 0 .. MaxFreed

(* The position of an open file is never behind the end of that file, even *)
(* after reads whose size makes file_position + size wrap around.          *)
(* (fs_read_file computes size - file_position.)  It may be behind the end *)
(* only when the file was taken away (stale), or when a write of nearly    *)
(* 2^32 bytes passed both tests with sums that wrapped around and shrank   *)
(* the file (src/filesystem.c:201-210), and until the next seek.           *)
PositionWithinFile ==
    \A fd \in Fds :
        IsOpen(fd) /\ fd \notin stale \cup displaced =>
            file_descriptors[fd].position <= inode_table[InodeOf(fd)].size

Sizes == [i \in Inodes |-> inode_table[i].size]

(* All files together hold no more bytes than the blocks that were taken   *)
(* out of free_blocks have room for.                                       *)
DataIsPaidFor ==
    SumFunctionOnSet(Sizes, Known \ {0})
        <= (INITIAL_BLOCKS + returned - free_blocks) * BLOCK_SIZE

(* Creating a file cannot run over the end of the inode table before as    *)
(* many inodes were given back as the superblock holds in reserve.         *)
InodesWithinTable ==
    free_inodes > 0 /\ freed < RESERVED_INODES => next_inode_number < MAX_INODES

(* The block numbers handed out, with those that can be handed out still,  *)
(* pass the end of the disk by no more than the blocks that were given     *)
(* back since the format: as long as none was, fs_allocate_block answers a *)
(* block of the disk, and each give-back, which names no block, lets one   *)
(* number behind the end go out (src/filesystem.c:240-249).                *)
BlocksWithinDisk == next_block_number + free_blocks <= MAX_BLOCKS + returned

(* Opening never takes a descriptor that is in use, except one that a      *)
(* format forgot.                                                          *)
NoDescriptorTakenOver ==
    [][\A fd \in Fds :
          IsOpen(fd) /\ file_descriptors'[fd].inode # InodeOf(fd) =>
              fd \in stale]_vars

(* The configuration's max_open_files (src/sys.cfg:65) limits the files    *)
(* that are open: there are no descriptors left only when that many are.   *)
ExhaustedOnlyWhenOpen ==
    next_fd = MAX_OPEN_FILES =>
        Cardinality({fd \in Fds : IsOpen(fd)}) = MAX_OPEN_FILES - FIRST_FD
=============================================================================
