# eaX OS in TLA+

TLA+ models of the kernel of eaX OS (the C files of `src/`), of its shell's file
system and of its file scanner, TLC runs that check them on small instances, and
TLAPS proofs of their properties for every value of the constants. `PROJECT.json`
maps every definition to the lines of source it stands for, and lists the runs, the mutated forms, the hazards and
the theorems.

    tlc -workers 2 -config KernelHeap.cfg KernelHeap     # a run
    tlapm KernelHeapProofs.tla                           # a proof

## The system and its parts

The kernel is a set of managers, each with one static structure and functions
that change it; `kernel_main` initialises them one after the other. Hardly any
manager calls another: they meet in shared memory (the text screen and the
graphics driver), in interrupts (the interrupt controller calls handlers that
post input events) and in the null pointer (page tables and the list of virtual
mappings). There is one thread of control, which interrupts interrupt. The shell
and the scanner are Python programs of their own, on a file system they share
with other programs.

| Part | Source | State | Operations |
|---|---|---|---|
| Kernel heap | kernel.c 334-391 | block headers on a list | memory_init, kmalloc, kfree |
| Text screen | kernel.c 258-315, graphics.c 60-65 | cells, cursor | clear, putchar, scroll, fill |
| Process manager | prcs.c | process table, current process, statistics | create, terminate, threads, schedule, priority, files, block, unblock |
| File system | filesystem.c | inodes, descriptors, free counts, next numbers | create, delete, open, close, read, write, seek, allocate, free, format |
| Block cache | filesystem.c 275-300 | 256 cached blocks | get, set |
| Device manager | devices.c | array of devices with handlers | register, unregister, initialize, enable, calls, searches |
| Interrupt controller | ipts.c | handlers and counts by line | entry points, register, unregister, mask, disable |
| Input manager | input.c | keyboard, mouse, numbers of unread and of processed events | set key / position / button / wheel, get event, clear |
| Memory manager | mem.c | accounts of pages, mappings, swap | allocate, free, map, translate, page table entries, swap |
| System calls | kernel.c 44-191 | next_fd, next_pid | 28 handlers, nearly all constant |
| C library | stdlib.c | a second heap | malloc, calloc, realloc, free, memory, strings, numbers |
| Drivers | storage.c, ntwrk.c, graphics.c | flags, counters, display mode, video memory | transfer, enable, send, receive, mode, draw, textures |
| Shell | shell.py 47-169, 392-495 | current directory, directories, files | cd, mkdir, touch |
| Scanner | fotress.py | counters, quarantine directory | scan a file, move it to the quarantine, report |
| Others | boot.asm, sys.cfg, localhost.pl, build and environment files | - | - |

What is hard, and which property of each part makes it correct:

- **Kernel heap.** Splitting and merging in a doubly linked list, where a wrong
  `prev` shows up only many calls later. Blocks cover the heap without a gap,
  free neighbours are merged, callers' memory is disjoint, and nothing is refused
  that would fit.
- **Text screen.** Tabs, ends of rows and scrolling in one call, and a second
  writer that ignores the cursor. The cursor stays on the screen and text
  behaves as on a page of rows.
- **Process manager.** Every call is accepted in every state: a process can be
  terminated twice, and unblocked after it ended, after which it runs again. The
  current process and its pid agree, the tree of parents has no cycle, a
  terminated process stays off the processor unless it was unblocked since, what
  the array of open files lists is open, and the scheduler leaves nobody waiting.
- **File system.** Counters that only go up, next to counters that also go down;
  32-bit arithmetic; formatting while files are open. Positions stay in their
  files unless a write wrapped around, data is paid for in blocks, tables are not
  overrun before the reserve is used up, descriptors in use are not taken over
  unless a format forgot them.
- **Block cache.** A slot is searched for every byte instead of every block, and
  a free slot and one of block 0 cannot be told apart. What the cache amounts to
  is a store that is written once.
- **Device manager.** Slots move when a device goes. Callers, who know ids only,
  must not notice.
- **Interrupts and input.** An interrupt falls between the reader's test and its
  subtraction. No event is invented, and one is lost only to that race.
- **Memory manager.** Allocated pages cannot be named, and page table entries
  land in the list of mappings; the swap in use can be set to any amount, and a
  request can wrap around. The accounts agree, translation follows the mappings
  that nothing was stored over, swap segments stay apart unless the swap in use was
  lowered under them.
- **C library.** Sums and products that wrap around, copies whose ranges overlap,
  and comparisons that count down past zero. Blocks stay apart unless a request
  wrapped around, realloc keeps what was there, memory functions and strcmp agree
  with a definition of what they should do, strncmp differs from it in two ways,
  and numerals are read if the number fits into a long.
- **System calls.** The counter of descriptors knows nothing of dup2. A
  descriptor in use is answered only if dup2 put it there.
- **Graphics driver.** What is given back for a texture has nothing to do with its
  size. As long as callers keep to what that assumes, the account covers what is
  loaded. The other drivers have no hard behaviour: each call answers by one flag.
- **Shell.** Paths are put together without the slash they are taken apart at. A
  file is listed where it was made, and `cd ..` always leads back to the root.
- **Scanner.** A file is looked at up to four times by its path, while other
  programs write. Only what was exchanged in the last moment is quarantined
  without being malware, known malware passes an undisturbed scan only under a
  system file's name or when its hash cannot be taken, and the counters account for
  every threat.

## The modules

Variables and actions have the names of the fields and functions they stand for.
Operators whose comment begins with "Mutated form" are never used by a
specification: each is a plausible mistake in the code, kept so that a run can
be repeated with the mistake made (`PROJECT.json`, "mutants"); `StopsAtEnd` in
CString is one of them and a helper at the same time. Variables marked
"history" are not state of the code.

**KernelHeap** (`AbstractHeap` above it). `heap` maps the address of each header
on the list to its fields; `live` is what callers hold. `KmallocTakes` is the
successful call, found, split and taken in one step; `KmallocFails` returns
NULL; `Kfree` marks the block and merges forwards, then backwards. kmalloc's
loop stops at the first block of the list that fits; the list is in the order of
the addresses (part of `HeapSound`), so the model takes the lowest fitting
address. `AbstractHeap` knows no list: it has a set of disjoint extents, an
allocation may take any free run of sufficient length, wasting at most a header
and 15 bytes, and may fail only when there is no such run. `kernel.c:336`
subtracts a pointer from an integer, which is read as the difference of the two
addresses. `kernel.h` is not in the repository; `ALIGN_UP` and the fields of
`struct mem_block` are taken from how kernel.c uses them.

**ProcessManager**. `process_table` is the sequence of filled slots: no slot is
ever given back. `Find` is the loop over the table that every operation starts
with. `schedule_next_process` is one step: choice, current pid, current process
and RUNNING together. `process_add_open_file` is taken with a full array as well,
and then drops the descriptor, as the code does (prcs.c:247). History: `held`, the
files a process has open whether they are listed or not, and `ended`, the exit code
of its last termination until an unblock takes it back.

**Words** has the number of values of a `uint32_t`, which FileSystem and VideoMemory
share.

**FileSystem**. Inodes with size, links and the number of non-zero block
pointers. `root_inode` and `new_inode` are locals that are copied into the table
without all fields set: `GarbageLinks` and `Garbage` are the values these fields
may have. Callers pass `fs_delete_file` and `fs_open_file` only inode numbers
they were given since the last format, and a create that would write behind the
table ends the modelled behaviour (`InodesWithinTable` says when that can
happen). Sizes of reads and writes are any words. A write of nearly 2^32 bytes
passes both tests with sums that wrap around, shrinks the file and pays nothing
(filesystem.c:201-211); the descriptors whose file it shrank are in `displaced`
until they are moved by a seek, and those a format forgot in `stale`.
`PositionWithinFile` is about all the others.

**DeviceManager** (`DeviceRegistry` above it). The array, `Shifted` on
unregistering, and slots that keep their old contents, handlers included.
`DeviceRegistry` is a table indexed by ids that are never reused; a device that
is registered may come with handlers of an earlier one, as the code's does.

**Console** (`Terminal` above it). One array of cells and a cursor. `Settle` is
the common end of `screen_putchar`: end of row, next line, scroll. `Terminal` is
a sequence of rows and a position counted from 1.

**Interrupts**, **Input** and their composition **InputPath**. The first two have
an action per function that changes a handler or a count; what input.c stores of
keys, buttons, position, wheel and acceleration is left out, as nothing tests it.
InputPath takes them as instances over its own variables: an interrupt of a
dispatched line counts, calls the registered handler, and the handler posts; the
thread tests, takes, clears and configures. The handlers are external (no driver
in `src/` registers one): a keyboard or mouse handler posts one event for each
interrupt. Interrupts run to their end and do not nest. `input_get_event` is two
steps, and as the kernel is compiled with `-O2` (`build.mk:23`) the count that is
stored may be computed from the value tested or from the one in memory at the
time.

**MemoryManager**. Nothing in mem.c assigns `heap_offset` or `vm.mappings`, so
every allocation returns the null pointer, and page tables and mappings overlap
at address 0. In C that is undefined; the model takes what the flat memory of
this kernel does, and a build that traps instead takes no further step. `segments`
is what callers hold of the swap; only their own requests and frees change it.
`mm_set_swap_used`, a request whose sum wraps around, and a free of a segment that
was cut before may lower `swap_used` under a holder, who is not told: `cut` are
these holders, and what they hold is handed out again.

**BlockCache** (`WriteOnceStore` above it). `fs_set_block_data` is the double
loop, byte after byte; `format` is fs_format_filesystem, which leaves the cache
alone while block numbers start anew. `WriteOnceStore` says what callers get: a
block is remembered at its first write only, of that no more than its first byte
next to bytes of block 0, and each write uses up as many slots as a block has
bytes, or what is left of them.

**CString** and **CLibrary**. CString has the functions of the C library as
operators on a memory, without state. CLibrary is the heap that malloc hands out
and the callers, who fill what they were given, by assignments and with the
functions, so that every content of a small heap comes about. Callers stay within
their blocks and pass ranges that do not overlap to the functions that do not
allow for it. A request that wraps around is granted, as in the code; what it
makes calloc and realloc write behind the heap is not modelled. `strncmp` is
translated as it is: with a difference in the last of n characters it answers 0,
and for equal prefixes it compares the characters behind them (`StringsRight`
says exactly that). A value is summed up as in the code, and wraps around at
`LONG_MAX` (C leaves an overflow open; `NumbersRight` says nothing of the value of
such numerals).

**VideoMemory**. Loading and unloading of textures, which only change the amount of
video memory in use. `tidy` is the callers' side of
`VramWithinCard`: textures loaded once, sums that do not wrap around, and unloads
of loaded textures of at least 1024 bytes. Otherwise the account may go wrong.

**SystemCalls**. `handle_syscall` is the dispatch over the table. The calls are
not connected to the managers: open does not reach `fs_open_file`, nor fork
`process_create`, and getpid answers 1 to everyone, which is also the number of
the first child. `in_use` and `moved` are what the callers hold.

**Shell**. A path is the sequence of the pieces its text is put together from, so
that concatenation is the code's. `expected` is what a user would look for in a
listing. The model has what the code does with paths: entries at the root are
listed nowhere (their parent is looked up as `C:`), `mkdir` of a directory that
exists empties it, `cd` further down than the root goes to a path that names no
directory, and `cd` without an argument changes only the prompt.

**Scanner**. A scan is a sequence of steps: existence and name, hash, contents,
clock, move. Contents are told apart by what the scanner finds in them (known
malware may hold a suspicious text or not); any look at a file may fail, and a hash
that fails is empty and lets the scan go on. `_is_packed` subtracts where an entropy is summed up
and never calls a file packed; `IsPacked` is therefore FALSE. The clock (local
time) is assumed not to go back. `Change` and `Tick` are the world around the
scanner.

**MCStandalone** composes BlockCache, Console, VideoMemory, SystemCalls, Shell and
InputPath. None of them calls another or shares state with it, so their
interleavings show no more than each alone: `part` picks one, and the others stay
in their initial states.

**MCFileSystem, MCDeviceManager, MCMemoryManager, MCScanner** add only a VIEW, a
symmetry of the holders of swap, or a set of regions or paths, for TLC. Each VIEW
(also that of MCStandalone) hides state that no step reads before it is written
again (fields of closed descriptors; fields of free slots and the last answer;
masks and the disable flag) or that the run's operations do not read
(`CountersView`: positions, where nothing is read or sought), so that states it
identifies have the same successors up to the view.

## The runs

| Run | Shows | Bounds |
|---|---|---|
| heap | `HeapSound`, `CallersKeepApart`, `AllFreedIsOneBlock`, `ImplementsAbstractHeap` | 144 bytes, requests of 0, 8 and 40: up to nine blocks; all patterns of free and used neighbours, splits with the smallest remainder, refusals |
| processes | `ProcessTreeOrdered`, `CurrentAgrees`, `FilesTracked`, `EndedStayEnded`, `SchedulerDrains` | two processes, one thread each, two file slots for one descriptor (entered twice, cleared, and dropped by a full array), two terminations with an exit code that is not the initial 0, of one process or of both, any blocks and unblocks between them, priorities 0 (never chosen) and 1 |
| round_robin | `EveryRunnableGetsATurn` is violated | two processes of the same priority |
| filesystem | `PositionWithinFile`, `NoDescriptorTakenOver` | two inodes, two descriptors, blocks of 2 bytes, a write of a block and a half, a read and a write large enough to wrap around 17 |
| filesystem_blocks | `DataIsPaidFor`, `InodesWithinTable`, `BlocksWithinDisk` | three inodes with a reserve of two, one descriptor, two blocks and two inodes given back: a delete, a second one of the same file, a create between them |
| descriptors | `ExhaustedOnlyWhenOpen` is violated | the file system of the run filesystem |
| devices | `UnregisteredStaysUnknown`, `ImplementsDeviceRegistry` | three slots, four registrations: a full array, every position removed, a slot used again |
| memory | `PagesAccountedFor`, `TranslationFollowsMappings`, `SwapSegmentsApart` | three pages, requests of 0, 2 and 4, overlapping mappings and one that reaches the end of the address space, swap of 4 in segments of 1 and 2, a request of 15 that wraps around 16, any amount set, three holders |
| scanner | `CountersAgree`, `OnlyMalwareQuarantined`, `MalwareIsNoticed` | any files under four paths (two of one name, a system file's name, a text), two scans, one change, two seconds |
| library | `BlocksApart`, `ReallocKeepsContents`, `MovesRight`, `StringsRight`, `NumbersRight` | four bytes of heap, two blocks at once, sizes of 0, 1, 3 and one that wraps around, products that do; characters for a sign, prefixes and digits of each base, numerals of up to three characters with a `LONG_MAX` of 63, which three digits of each base pass |
| standalone | `ImplementsWriteOnceStore` | blocks of two bytes in five slots (the third write finds one), blocks 0, 1 and 2 |
| | `ImplementsTerminal` | five columns (one tab fits, a second does not), two rows (the first scroll and the next) |
| | `VramWithinCard` | a card of 8 with 3 reserved, 2 given back, textures smaller, equal and larger, and one that wraps around |
| | `OpenAnswersFreshDescriptor` | three opens, dup2 to descriptors below, at and above the counter |
| | `FilesListed`, `UpLeadsToRoot` | a tree of four directories, one new directory and one new file, paths with a slash before them or alone |
| | `NoEventInvented`, `OnlyRacesLoseEvents`, `InterruptsAccountedFor` | two dispatched lines and one other, four interrupts: one to be read, one in the race, two more |
| overwrites | `NoOverwrites` is violated | the same paths, no change |

The runs heap, processes, memory and scanner also check a type invariant, `TypeOK`;
the other modules state theirs for the proofs. The programs compare numbers with each other and with their limits, and loop over tables; no step looks
at more than two neighbours of a slot, so tables of two or three entries with one
more request than fits show every branch. Counters that only grow are bounded by
constants named in the modules (`MaxTerminations`, `MaxReturned`, `MaxFreed`,
`MaxDeviceId`, `MaxInterrupts`, `MaxFaults`, `MaxScans`, `MaxChanges`, `MaxTime`,
`MaxBlocks`, `MaxWraps`, `MaxFd`, `MaxPath`, `MaxNew`), each a conjunct
of a guard. At most as many segments of swap are held at once as there are `Holders`.

Three runs are violated, and show disagreements of the code with what the
repository says of it. `sys.cfg:84` says `scheduler = round_robin`: in the run's behaviour the
process in the first slot is unblocked and chosen again and again while its
equal in the second slot waits. `sys.cfg:65` says `max_open_files = 256`: in the
run's behaviour all descriptors are spent although files were closed.
`fotress.py:299` says the timestamp is added "to prevent overwrites": in the
run's behaviour two files of one name are moved in the same second, and the
second one replaces the first.

**Fairness.** Nothing in `src/` calls `schedule_next_process`. The two runs about
the scheduler assume that it is called again and again, as a timer interrupt
would (`WF_vars(schedule_next_process)`), and nothing of the callers' requests.
`SchedulerDrains` is for the time after the last request. All other properties
are safety properties and assume no fairness. No run turns off the check for
deadlock: every system always has a step (kfree(NULL), a failed request, a
format, a status report).

## The proofs

Every property of a passing run but one is also a theorem, for all values of the
constants that satisfy the modules' ASSUMEs. These say what the code's own
numbers and types say: tables have a size, a header fits into the heap, words are
wider than the addresses and sizes in use, what callers pass fits into a word,
and there is a line, a path or a tree to begin with. One keeps callers from a
sum that the code does not test for wrapping around: kmalloc's `ALIGN_UP`
(`HeapAssumption`). All others that may wrap around do so in the models. Characters
are ASCII (`LibraryAssumption`). What callers have to keep to beyond that, or what
the code does to those who do not, is part of the properties (`wraps = 0`, `tidy`,
`overwritten`, `disturbed`, `hash_failed`, `displaced`, `stale`, `cut`), not assumed.

- **KernelHeapProofs.** `IInv` is `TypeOK` and `HeapSound`: the list follows the
  addresses, blocks tile the heap, free neighbours are merged, used blocks are
  what callers hold. Each part needs the others: merging keeps the tiling
  because `next` is the neighbour in memory, and one merge on each side is
  enough because no two free blocks were neighbours before. Lemmas about `Split`
  and `Absorb` on an arbitrary sound list carry the steps. `CallersStayApart` and
  `FreeingAllRestoresHeap` follow from the invariant; `HeapImplementsAbstractHeap`
  maps the used blocks to extents and shows, for a refusal, that any free run lies
  in one free block.
- **ProcessManagerProofs.** `ProcessInv` is `TypeOK`, `ProcessTreeOrdered` and
  `CurrentAgrees`. That pids are slot numbers makes the scheduler's second search
  find the slot of the first; that `current_pid` names a filled slot makes a new
  process's parent older. `FilesTracked` is inductive on top of it, and
  `EndedStay` on `EndedStayEnded`, which is: all operations but one replace one slot,
  and `SlotRestated` says by what.
- **AccountProofs** is about sums and counters.
  - File system: `FileInv` relates the counters that go up to those that go down
    (`InodesAccounted`, `BlocksAccounted`), keeps open descriptors below the next
    one (`OpenBelowNext`, hence `DescriptorsStayTheirs`) and files no larger than
    the disk (`SizesFit`). A write adds its size to that of the file or, when the sum
    wraps around, makes the file smaller and displaces its descriptors (`WriteFits`).
    In `ReadsStayInFile` position plus size may wrap around as well: then the
    position becomes the wrapped sum, which is what the test compared with the size.
    `BlocksCounted` pairs block numbers with free blocks. `BytesArePaidFor`
    compares the sum of the sizes with the blocks that are gone; the sum is over a
    set that changes, and lemmas at the head of the module say how.
  - Graphics driver: `VramWithinCard` is inductive together with the types of
    what is loaded. A tidy unload gives back no more than the texture took.
  - Input path: `OnlyRacesLoseEvents` is not inductive, as between the reader's
    two steps what was posted since the test may still get lost. `EventBalance`
    adds what is `AtStake` to what is missing and bounds the sum by the number of
    events that raced. `InterruptsAccountedFor` is inductive once the counts are
    known to be numbers; registering keeps a line's count.
- **MemoryManagerProofs.** `PagesAccountedFor` is inductive by itself and gives
  `PagesNeverComeBack`, as the pointer of an allocation is one that freeing
  ignores. `SwapStack` adds to `SwapSegmentsApart` that segments are not empty
  and `swap_used` is within the swap: where it goes up, the new segment is above
  all that were not cut, and where it goes down, those above it are cut (`WordWraps`
  says which of the two a sum does). `VirtualInv` says that each place of the
  list that no page table entry was stored over holds what callers created there,
  so that the first match in the list is the first match among the created.
- **DeviceManagerProofs.** `IdsAscend`: the array is in the order of the ids, all
  below the next one. Shifting keeps it, and it is what makes the first match of
  a search the only one. `ArrayImplementsRegistry` shows for each call that the
  table by ids takes the same step and gives the same answer; the hard ones are
  unregister, where every slot behind the hole moves, and register, which may
  take over the handlers of an earlier device.
- **StandaloneProofs.** `FdInv` says that what dup2 did not hand out is below the
  counter; `OpenedIsFresh` follows. `ListedInv` adds to `FilesListed` that the
  directories looked up are known: entering a child takes nothing away
  (`ChildrenOnlyGrow`), and only the files of a directory that is made anew stop
  being expected. `UpEndsAtRoot` rests on the path being absolute, which every
  way of putting a path together keeps, and on the part before the last slash
  being shorter. `ScreenIsTerminal` translates cells to rows by division and needs
  `CursorStaysOnScreen`. `CacheIsWriteOnceStore` needs `CacheInv`: the taken slots
  are the first ones, only the next one may hold bytes of block 0, and behind it
  there are zeros. So the loop that looks for a slot for each byte takes the next
  one each time.
- **CLibraryProofs.** `LibraryInv` is `TypeOK` and `BlocksApart`. The copies are
  right by what is written after each byte (`CopiedUp`, `CopiedDown`), and so is
  realloc's, which may overwrite only bytes it copied before. Comparisons stop at
  the first difference (`ComparisonStops`), which decides the order of the texts
  and of their beginnings (`OrderOfBeginnings`). A number that
  a long holds is the value read from its numeral (`ValueOfNumeral`), as all its
  beginnings are smaller and none wraps around (`FitsUnchanged`), and the six
  beginnings a number may have decide sign, base and where its digits start.
- **ScannerProofs.** `ScanInv` says what holds on the way through a scan: it has
  counted itself and no threat yet, an undisturbed scan still has the file it
  began with, and one past the hash did not find it in the signatures or could not
  take it.
  `SwapInv` lets a file that is about to be moved and is not malware any more
  count as if it were in the quarantine; `FiniteSetTheorems` does the counting.

Loops over data are recursive functions in the models (`memcpy`, `Value`,
`Numeral`, `fs_set_block_data`, sums). An induction over them is written without
the library's induction theorems, whose operator parameters the provers cannot
instantiate: the set of the numbers for which a claim fails has a least element
(`Least`, from the well-foundedness of inclusion on initial segments), and that
one is refuted from its predecessor. That the function exists is shown in the same way.

Only model-checked is `SchedulerDrains`: liveness needs ENABLED and fairness,
which are out of the provers' reach. The three runs that are violated are
counterexamples and have nothing to prove. That a state space is not empty, that
every action happens and that the properties would notice a mistake is shown by
TLC and the mutated forms.

## Not modelled

Reading and writing of data (no function of the kernel stores any but the block
cache), fields that are only stored and copied out (a process's CPU time and
working directory, owners and permissions, the state of keys and mouse), the storage
and network drivers and the display modes (each call answers by a flag or from its
arguments, and no sequence of calls can go wrong), the
functions of the C library that search, return a constant or classify a character, the
shell commands that only print, the scanner's log, reports and chat, the boot
code, and the scripts of build and environment. `PROJECT.json` gives the reason
for each.

## Plan

The components that carry the system's logic are modelled, and what the runs
check is proved but for liveness. What could be added:

1. The searches, `memcmp` and the classes of characters of the C library.
2. The behaviours between the parts that the code prepares and does not connect:
   system calls that reach the managers, a timer that calls the scheduler.
