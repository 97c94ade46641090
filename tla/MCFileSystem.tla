---------------------------- MODULE MCFileSystem ----------------------------
(***************************************************************************)
(* The file system for TLC.  The inode and the position of a descriptor    *)
(* that is not open are never read before fs_open_file sets them, so two   *)
(* states that differ only there are one to TLC.                           *)
(***************************************************************************)
EXTENDS FileSystem

View ==
    <<inode_table, free_blocks, free_inodes, next_inode_number,
      next_block_number, next_fd, stale, displaced, returned, freed,
      [fd \in {g \in Fds : IsOpen(g)} |-> file_descriptors[fd]]>>

(* What the counters depend on.  Positions are read by fs_read_file and by *)
(* no other operation.                                                     *)
CountersView ==
    <<inode_table, free_blocks, free_inodes, next_inode_number,
      next_block_number, next_fd, returned, freed,
      [fd \in {g \in Fds : IsOpen(g)} |-> InodeOf(fd)]>>
=============================================================================
