# simple_microkernel in TLA+

A specification of the kernel in `src/src`: what its parts promise, checked with
TLC on small machines and, where it matters most, proved with TLAPS for every machine.

## The system

| Part | Code | State | Operations |
| --- | --- | --- | --- |
| Physical memory manager | `memory/pmm/pmm.c` | bitmap of 4 KiB blocks, counters of used and free blocks | init, take one block, take a run of n, free one |
| Kernel heap | `memory/heap/kheap.c` | table `big_blocks` of 100 areas of more than one block | `kmallac`, `kzalloc`, `kfree` |
| Paging | `memory/paging/` | one directory and 1024 tables per task, the loaded directory | create, get, set, map a page or a range, switch, free |
| Task list | `task/task.c` | doubly linked list, head, tail, current task | `task_new`, `task_get_next`, `task_list_remove` |
| Task switching | `task/task.c`, `task.asm`, `scheduler/` | each task's registers | save, switch, return to user mode |
| Process loader | `task/process.c` | `processes[12]`: program, stack, task | `process_load` |
| Interrupts | `idt/`, `kernel.asm` | descriptor table, what the controllers wait for | timer, other vectors, gate 0x80 |
| System calls | `isr80h/` | table of commands | `sum` (0), `sys_write` (4) |
| File layer | `fs/file.c`, `fs/path_parser.c` | 512 descriptors | `fopen`, `fread`, `fseek`, `fstat`; no close |
| FAT16 driver | `fs/fat16/` | root directory, streams | resolve, open, read, seek, stat |
| Disk and streamer | `disk/` | position of each stream | read sectors, seek, read |
| Terminal | `kernel.c` | video memory, cursor | clear, print a string, a number, a byte; panic |
| Boot, GDT, TSS, PIT, helpers | `kernel.c`, `boot/`, `gdt/`, `chips/`, `string/`, `memory/`, `io/` | constants | once at boot, or without state |

`kernel_main` initialises memory, the file layer and its own page directory, loads
three programs and starts the first.  From then on the kernel runs only when an
interrupt or `int 0x80` enters it.  Every part above the memory manager takes blocks
from it; `process_load` calls the file layer, the heap, paging and the task list in
turn; the timer's handler calls the task list and the task switch; `sys_write` calls
the heap and edits the caller's directory.

Every gate is an interrupt gate, the kernel runs with interrupts disabled from boot to
the first task, and there is one processor: a handler is one atomic step.  What is hard is

- the order in which requests fail and what a failed step leaves taken,
- the switch of directories, segments and registers on every way into and out of the kernel,
- links and counters that several operations keep in step,
- memory that is never returned, and what a call does when there is none,
- files in several pieces, read from any position,
- a cursor that only some of the printing functions bring back to the screen.

What makes the parts correct:

- heap: no block has two owners or is both owned and free; bitmap, counters and table agree;
- task list: it links exactly the live tasks, which take turns in order;
- loader and paging: a task can write its own program and stack and nothing else;
- switching: a task finds directory, segments and registers as it left them;
- system calls: they leave the directories alone and print the caller's string;
- files: a read delivers the file's bytes, a lookup finds the file asked for, and what a
  descriptor holds is its own and complete;
- terminal: text appears in order, on the screen, and a message stays whole.

`PROJECT.json` lists every hazard with its line and the properties aimed at it.

## Modules

Operators take a component's state as a record and return it changed, in the order the
C code works; state machines on top of them give the callers' freedom.

| Module | What it is |
| --- | --- |
| `Pmm` | `pmm.c` as operators on the record `h` (`map`, `used`, `free`) |
| `Kheap` (extends `Pmm`) | `kheap.c`; adds `big`, the table |
| `Allocator` | the heap with callers: actions `Kmallac`, `Kzalloc`, `Kfree`, `KfreeNull` |
| `BlockPool` | abstract: a pool of blocks with grants, refusals and releases |
| `AllocatorProofs` | the theorems about `Allocator`: exclusive, exact, an implementation of `BlockPool` |
| `RecursionProofs` | that recursive functions over the naturals exist; induction; the least number of a set |
| `LayerProofs` | lemmas about the layers of operators: what a request and a release do to the heap (`Kheap`), `TakeBlocks` (`Paging`), `Order` and the links (`TaskList`) |
| `Paging` (extends `Kheap`) | a directory is a function from page to frame and write bit |
| `TaskList` | the list operations of `task.c` |
| `RunQueue` (extends `TaskList`, `Paging`) | the list with tasks created, scheduled and freed, and their memory |
| `RunQueueProofs` | the theorems about `RunQueue` |
| `RoundRobin` | abstract: a queue whose members take turns |
| `Process` (extends `Paging`, `TaskList`) | `process_load` as a chain of steps each of which may fail |
| `Kernel` (extends `Process`) | boot, user steps, interrupts, system calls |
| `Fat16` | streamer and driver: chains, reads, directory search |
| `KernelProofs` | the theorems about `Kernel` |
| `Vfs` (extends `Fat16`) | `fopen`, `fread`, `fseek` on the descriptor table |
| `VfsProofs` | the theorems about `Vfs` |
| `FileMemory` (extends `Fat16`, `Kheap`) | mounting and `fopen` with every request they make of the heap |
| `FileMemoryProofs` | the theorems about `FileMemory` |
| `Terminal` | the screen, a character at a time |
| `Page` | abstract: lines of text on a page |
| `TerminalProofs` | the theorems about `Terminal` |
| `MC*` | values for TLC |

### Heap

Addresses are block numbers, since every address the heap hands out is a multiple of the
block size; null is block 0, and that is also what it is in the code.  The bitmap is the
set of its marked blocks.  `Allocator` adds history: `live` (what callers own), `lost`
(the rest of an area whose table entry was dropped), `ret`, `zeroed` (what the last
`memset` wrote), and `strays`, the number of null pointers that reached `pmm_free_block`.
Callers release what they were given, once, and the null pointer: `path_parser.c:52`
does that when its own request failed.

### Tasks and the running kernel

In `Process` and `Kernel` the task of slot s is number s + 1; in `RunQueue` a task is the
block of its structure, so that a freed structure is used again.  `RunQueue` frees tasks
although no code calls `task_free` yet; `corrupt` becomes true when the code writes
through a stale `prev`, and nothing is claimed from there on.  Creating a task takes its
structure and, through `paging_new_4gb`, a directory, its tables and the chunk; a
creation that fails keeps what it took (`lost`).  `chunk` is what the task's
`page_directory` leads to: the chunk's own block, the directory it points at, and the table of
each entry.  `task_free` reads from there what it gives back.

`Kernel`'s step `UserStep` gives every register of the running task a value that no other register of
any task takes, so that one saved or restored in another's place shows; between
two of them anything may happen.  `Resume` is `task_switch` with `task_return`;
`SyscallReturn` is the end of `isr80h_handler` and of the wrapper.  What follows
`schedule_next_task` in `isr_0x20_handler` and in its wrapper is never reached and not
modelled.  `idt_set` leaves every gate open to user mode: `SoftwareInterrupt` is a program
that calls one itself: the timer's, one of `no_interrupt`'s, or gate 0, to which a division
by zero leads as well.  `idt_zero` is a C function and ends in `ret`, not `iret`: the program runs on in ring 0
with interrupts disabled (mode "ring0"), where it is not followed.  `ctx` is history: the registers
a task had when it last ran.  A register the program never set is not compared.

The kernel's stack has one address in all directories, and a large program takes the page under `tss.esp0`
for itself (`StackShared` fails).  The timer's and the system call's handlers are pushed their frame through the
task's directory and call `kernel_page`, which loads the kernel's: on a stack where nothing was pushed the
handler is lost (`LostOnEntry`).  A switch to such a task is lost where `paging_switch` has loaded the
directory and returns (`LostOnSwitch`).  `no_interrupt` loads no directory and returns as it came.
After either loss (mode "crash") nothing is said.

Memory contents are abstracted to whose program's first page a frame holds, which is what
decides whose string `sys_write` prints.

### Files

A byte is its position on the disk, so that a read returns the positions it copied from,
or `Junk` where `disk_streamer_read` copies from behind its sector buffer.  The disk,
which the kernel never writes, is chosen at the start from `Images`: directories and
allocation tables.  A directory lies in one cluster.  A read outside the allocation table
may return any entry: a stop, any cluster, or none; a read outside the disk hangs, since the driver polls for ever.
Volume labels and long-name entries are left out, as are attributes other than
"directory": an ordinary file's attribute ends a full extension, as in
`fat16_to_proper_string`.  A path whose middle part is missing makes the driver read through
a null pointer; that step is left out.

`FileMemory` is the same code seen from the heap.  `disk_search_init` mounts: it takes five
structures and the root directory, and gives one back.  `fopen` builds the parts of the
path, each with its name, then searches twice, making an item for every entry that
matches, with a copy of the entry or with the directory loaded; the walk frees the
directory behind it.  Any request may be refused, and the call goes on as the code does:
a null item is read in page 0, which `kzalloc` has just cleared there, as a directory
without entries; a descriptor whose structure is refused is not stored although its number
is returned.  `Elsewhere` is the environment: any call of `kmallac` that the rest of the kernel may make.  `OpenKeeps` derives
what `Process` uses as `FOPEN_BLOCKS`: ten blocks for a file in the root, five when it is missing.

### Terminal

A step prints one character of the running call or ends its line; calls do not overlap.
Characters are numbers, the digits their own values.  A blank is the space of colour 0 that
`terminal_init` writes, which no printing function writes.  The screen as lines, from the
top to the cursor's row, is what `Page` specifies.  The row wraps at `ROWS`; `overrun`
records that it did, which takes as many strings without a character.

## Runs

| Run | Question | Result |
| --- | --- | --- |
| `allocator` | ownership, bitmap, counters, table, zeroing; does it implement `BlockPool`? | holds |
| `allocator_free_count` | are the counters exact whatever is requested? | violated: `pmm.c:133` marks blocks before it knows that there are any, the counters move only after the test |
| `run_queue` | does the list hold the live tasks, do they take turns, and does freeing return exactly their memory? | holds until a stale link is followed |
| `run_queue_prev` | is `prev` the previous task (`task.h:50`)? | violated: removal leaves the successor's |
| `kernel` | address spaces, contexts, isolation, mappings, output, the kernel's stack, round robin, progress | holds |
| `kernel_context` | is the whole context restored (README)? | violated: `ebp` and flags are not |
| `kernel_writes` | is what a process prints what appears (README)? | violated: a block is lost per call |
| `files` | do aligned reads deliver the file, does a lookup find every file that nothing hides, do descriptors stay apart? | holds |
| `open_memory` | does an open leave exactly what its descriptor needs and the known rest, shared with nobody, down to the last block? | holds |
| `terminal` | is every character on the screen and every message whole; does the screen implement `Page`? | holds until the row counter wraps |
| `files_stops` | does a read fail only at the end of a file (`fat16.c:272`)? | violated: 12-bit marks in a 16-bit table |
| `files_finds` | is a file in the directory found (`fat16.c:422`)? | violated: a name that fills its field runs into the extension (`fat16.c:199`) |

What holds is stated as precisely as the code allows.  `ContextKept` leaves out the two
registers that `kernel_context` shows to be lost; `WritesOwnString` says that something
else than the caller's string appears only once no block is free; `StackLostOnOverlap`
that only a program reaching the kernel stack's page loses the kernel its stack, and that of such programs only the
first loaded ever runs.  `Isolation` counts a task's pages from the sizes of program and stack, not with the code's
rounding (`Covers`).  `RoundRobinScheduling` is `RoundRobin` of members that stay: nothing may leave the queue.
`EveryTaskRuns` promises a task its turn until the kernel panics, loses its stack or
hands a program ring 0 (int 0): while no program brings that about, every one keeps getting its turn.  `ReadsFile`
names the three conditions (`ReadInside`, `Aligned`, `Reachable`) under which a read is right; what happens
outside them is modelled (`Junk`, `Hung`) but nothing is asked of it.
`FindsUnlessHidden` says what a lookup does find, entry by entry: everything but a name that fills its field in front of
an extension, an entry with more deleted ones before it than live ones behind (the search is bounded by
the number of live entries, `fat16.c:426`), and one that a later entry may be taken for, because its name begins with the one asked for or fills its field (the last match of a comparison of prefixes
is taken, `fat16.c:431`).  It allows an open to be refused only when descriptors 1 to
`MAX_FILE_DESCRIPTORS - 1` are all in use.

### Bounds

- `allocator`: ten blocks of two bytes, three reserved; a table of two entries, so that it
  overflows; sizes 0, 2, 3 and 6 (one block twice, two, three blocks): below, at and above a block,
  a multiple and not.  `MAX_STRAYS` = 2 bounds how often a null pointer is freed with
  a full table; the second finds block 0 already clear.  `allocator_free_count` requests four blocks, more than are reserved.
- `run_queue`: 26 blocks, one reserved, one table per directory: four blocks a task, memory for the
  kernel's own directory and five tasks, with a rest in which a sixth creation fails half way: a
  head, a tail, neighbours in between, and structures that are used again.
- `kernel`: three slots and three loads of a small, a large, an absent or an unreadable file
  (`Unreadable`: the driver's read fails after the program's memory was taken); the large
  one reaches the kernel stack's page.  One table per directory.  46 blocks: all combinations
  of loads that succeed and fail half way occur, and a few calls of `sys_write` exhaust what is left.
  `kernel_writes` has 54, with which every load of a readable file succeeds.  The only counter is `loads`, bounded as in `kernel_main`.
- `files`: sectors of two bytes, clusters of two sectors, five clusters, two descriptors.
  Files in one piece, in pieces out of order, with the disk's last cluster first, and
  through a cluster whose number is among the 12-bit marks; directories that are plain, with a
  deleted entry, with a name that begins with another, behind it or before, with a name filling its field.
  `files_finds` has only the disks with the last of these, so that the search goes wrong in that one way.
  `MAX_POS` bounds relative seeks, beyond the shorter file's size.
- `open_memory`: 45 blocks of four bytes, twenty reserved; requests of 1, 2, 3, 6, 9, 12, 15 or 18 blocks by the rest
  of the kernel, of which two together leave any amount of memory to an open, so that each of its requests is the
  one refused.  Three disks: a file, directories one below the other, one of which cannot be read; names
  that begin with one another; no FAT16 disk.  `MAX_CALLS` = 3 calls after mounting, two descriptors: the table
  fills and a third open finds none.
- `terminal`: two rows of three characters, a row counter of five values, strings from none to
  seven characters: empty, shorter than a row, as long, longer, longer than the screen.
  Numbers up to 2^31 - 1, the largest TLC computes with; two bytes.

Deadlock is allowed in `run_queue` (a corrupt list is not continued), in `files` (a read
that hangs) and in `open_memory` (the calls are bounded).  In `kernel`, panic, a lost stack and a program in ring 0 stutter for ever in `Stopped`.

### Fairness

Only `WF(TimerInterrupt)`, and only in `Kernel`: user code runs with the interrupt flag set
(`task_return` sets it), the timer ticks at the rate the firmware left it with (`pit_init`
is never called), and nothing keeps the master controller waiting, since every handler
acknowledges it.  Under it every task on the list keeps getting its turn, as long as no program
enters gate 0, calls `sum`, which panics, or is larger than the space below the kernel's stack.  Nothing is
assumed of user programs, nor that a load is ever attempted.

### Mutants

Each property has a variant of one code operator, next to it and marked "Mutant", that a
plausible slip would produce, and that makes TLC find the property violated.

## Proofs

`AllocatorProofs` proves, for every number of blocks, size of the table, block size and set
of request sizes allowed by the named assumptions of `Pmm`, `Kheap` and `Allocator`:

- `TypeCorrect`: `Spec => []TypeOK`;
- `Exclusive`: `Spec => []LiveDisjoint`: no two live areas share a block, none touches the
  kernel's memory, none is free for another request;
- `Invariance`: the inductive invariant `Inv` behind them.

`LiveDisjoint` is not inductive.  A release through the table is only safe if the entry it finds
describes the very area released, so `Inv` adds that every entry of the table that is not
empty is a live area of the same length; that a live area of more than one block that has
no entry is marked untracked, and releasing it clears its first block only; and that
tracked areas are found again.  The pure lemmas come first: the least element of a set of
numbers (`LeastNatural`, from the well-foundedness of the naturals), what the two searches of the
bitmap return (`FirstFreeBlock`, `FirstRun`), what a request of one and of many blocks does
(`OneBlock`, `ManyBlocks`, `KmallacEffect`) and what a release does (`KfreeEffect`).  Then there is one step
per action.  Large requests are included: marking bits of nobody's blocks takes nothing from an owner.

The second half goes on from `Inv`.  `TableAlwaysExact` (`BigTableExact`) follows from it at once.  The rest assumes
`SmallRequests`, that no request is longer than the kernel's own part of memory (the run
`allocator_free_count` shows the counters wrong without it; the kernel's part is 100 MB):

- `MapAlwaysExact`, `CountersAlwaysExact` and `ZeroingAlwaysMisses`: `MapExact`, `CountersExact` and
  `ZeroingMissesOwners` always hold;
- `HeapIsPool`: `Spec => ImplementsPool`;
- `PoolInvariance`: the inductive invariant `PoolInv` behind them.

`PoolInv` adds to `Inv` that lost blocks are nobody's (else a release could give back what is
counted as lost) and how far the counters may be from the bitmap once null pointers were freed:
`pmm_free_blocks` is then too large, never too small, so that its test refuses nothing while a block is
clear, which the refinement needs.  For the refinement, `FreeBlockSearch`
and `RunSearch` say that a search that fails has seen everything, and `TableRoom` maps the tracked
areas and the table's entries into each other to show that the table is full exactly
when `BIG_ADDRESS` areas are tracked.

`RunQueueProofs` proves of `RunQueue`, for every number of blocks and tables:

- `MemoryAlwaysExact`: `Spec => []MemoryExact`, from the inductive invariant `MemInv`;
- `ListAlwaysExact`: `Spec => []ListExact`, from `MemInv` and `ListInv`;
- `TasksTakeTurns`: `Spec => TakesTurns`: the list implements `RoundRobin`.

`MemoryExact` says which blocks are whose; for the next creation to keep that, `MemInv` adds that the
table of big blocks stays empty, that a live task's structure is no part of its own directory, and that
all addresses are blocks.  `ListExact` speaks of `Order(tl)`, which chases `next` fields and says
nothing of `prev`; `ListInv` says that some sequence of the live tasks is linked by `next` from head
to tail, and that only its first task has a null `prev`: that is all that removal needs until it follows a
stale one.  `LayerProofs` shows that `Order` returns that sequence
(`RecursionProofs` gives the recursive function its existence), and what `task_new`, `task_get_next`
and `task_list_remove` make of it.

`KernelProofs` proves of `Kernel`, for every number of tasks, slots, loads and pages and every set
of files:

- `ContextAlwaysKept`: `Spec => []ContextKept`: a task finds its registers;
- `MappingsAlwaysStable`: `Spec => MappingsStable`: once programs run, no step changes a directory;
- `KernelInvariance`: the inductive invariant `Inv` behind them;
- `KernelTyped`, `AddressSpaceAlwaysCurrent`, `AlwaysIsolated`, `AlwaysWritesOwnString`,
  `StackLostOnlyOnOverlap`: the run's other invariants always hold;
- `KernelTakesTurns`: `Spec => RoundRobinScheduling`: the kernel implements `RoundRobin`;
- `SafeInvariance`: the inductive invariant `Inv /\ Safe` behind these.

`ContextKept` speaks of tasks on the list; `Inv` drops that, since what makes a task's registers
right does not depend on the list, and adds the boot phase, and the shapes of memory, processor
and history, without which an assignment to a field says nothing.  The lemmas follow the code's parts:
a load (`LoadShape`), saving the trap frame (`SaveKept`), resuming (`ResumeKeeps`), returning from a
call (`ReturnKeeps`), and the entry borrowed and put back (`DirectoryPutBack`).

`Isolation` is not inductive: that a new program's blocks are nobody's depends on the bitmap.  `Safe` adds
that the blocks of every loaded task are marked and outside the kernel's part (`SoundMemory`), that a
directory is the identity with the program and the stack mapped over it, and that the list links exactly the loaded
tasks (`Scheduled`), so that `Isolation`, `AddressSpaceOfCurrent` and the turns follow from one
another's parts.  For `WritesOwnString`, `SoundHeap` says that no more blocks are
clear than the counter claims: then a refusal in `sys_write` means that none is.

These theorems need two things of the machine that the runs had by their values.
`ProcessAssumption`: programs' structures, stacks and requests have a positive size, and there are as
many tasks as slots (`process.h`, `sizeof`).  `LayoutAssumption`: program, stack and kernel stack lie at
addresses of the kernel's own part, the user stack ends below the program, and the program's page is not above the kernel stack's,
which is how `task.h:7-10` and `kernel.c:242` lay them out.

`VfsProofs` proves of `Vfs`, for every number of descriptors, every size of sectors and clusters and
every disk:

- `DescriptorsAlwaysKept`: `Spec => DescriptorsKept`: the number `file_new_descriptor` finds is
  one that nobody has;
- `AlwaysFindsUnlessHidden`: `Spec => []FindsUnlessHidden`: an entry is within the driver's count if no more
  deleted ones lie before it than live ones behind (`WithinCount`), and then is the greatest that matches;
- `AlwaysReadsFile`: `Spec => []ReadsFile`.

`ReadsFile` looks at one call only, but that a read is right rests on what was opened before: the
invariant `FilesOnDisk` says that a descriptor in use has an entry of the disk (`WalkOnDisk`, down
any path) and a position.  Then, from the inside out: the recursion over clusters
finds the file's chain (`ClusterFound`); at each byte of an aligned read, the stream is at the byte's cluster and
still in the sector it buffers (`BytePlace`, the arithmetic of sectors and clusters); so
each level of the recursion, writing over the tail of the one before, delivers the
file's bytes (`PartRead`), and so do `nmemb` reads one behind the other (`PartsRead`).  The recursive definitions
are shown to have the one value by `Induction` over sets of numbers.

`VfsAssumption` is what a well-formed disk is: names in two parts, attributes of files, directories or
deleted entries, a directory where its entry says, a file with as many clusters in the
table as its size needs.  It is the FAT16 format, which the kernel relies on and never checks; the
runs' disks meet it.  It says nothing of where clusters lie or which numbers they have: a chain may
run through a number that stops the driver, or to the end of the disk, and `ReadsFile` excepts those.

`TerminalProofs` proves of `Terminal`, for a screen of every size and all strings and numbers:

- `NeverBeyond`: `Spec => []OnScreen`: a row that wraps past its last value still meets the test of
  the bottom before it is written to;
- `TerminalTyped`, `AlwaysTidy`, `MessageStandsWhole`: `TypeOK`, `Tidy` and `LastMessageWhole` always hold;
- `ScreenShowsPage`: `Spec => PrintsAsPage`: the screen implements `Page`;
- `UintAlwaysRight`: `Spec => []UintRight`: the digits of every number denote it.

The inductive invariant is `ScreenInv`.  `Tidy` alone says nothing of a cursor below the screen; `InOrder`
adds that it then stands in the first column, which is why no character wraps from there, and
describes every row by the number of its characters.  `MessageKept` follows a message through its
call: what was printed stands before the cursor, what is left is still to come, and afterwards its line is the
one above the cursor.  For the digits, `DigitsExist` shows that the recursion of
`kernel_print_uint` is one (each step divides by ten), and `DigitsRight` follows by the least counterexample.

`FileMemoryProofs` proves of `FileMemory`, for every amount of memory, size of blocks, of the table and
of directories, every disk and every set of paths:

- `TypeCorrect`: `Spec => []TypeOK`: `free` stays a natural number, so that the counter's test for
  zero is never passed by a negative one; `used` is only an integer, since releases of the null pointer
  take from it what nothing gave;
- `MemoryNotShared`: `Spec => []NothingShared`;
- `RootFilesWhole`: `Spec => []RootFileWhole`;
- `OpensKeep`: `Spec => []OpenKeeps`.

`NothingShared` says which blocks a descriptor, the mount and the rest of the kernel hold.  It is not inductive: an
open also releases what it took, among blocks it forgets and blocks that nobody's structure names, and only a
release of an area that is live and of nobody else leaves the others alone.  So the invariant
`IInv` carries along a set L of areas, the ones handed out and not given back, which no variable of the
model holds: `Owned(L, E)` says that the heap is `Sound` for L (each area of L is marked, they are
apart from one another and from the kernel's part, the table of big blocks remembers only areas of L, each at most
once, and `free` covers the clear blocks), that the rest of the kernel holds the areas E, and
that mount and descriptors hold areas of L, apart from E and from one another.

The proof follows the code from the inside out.  Each operator is shown to `Keep` the heap sound for the same
areas and possibly more, and to say which of these its result holds: a request (`Request`), a release of a live area and of the null
pointer (`ReleaseLive`, `ReleaseNull`), a directory (`DirectoryLoaded`), an item (`ItemMade`), a search (`FindRuns`,
`ItemFound`), the parser (`ParseRuns`), the walk (`WalkRuns`), whose step gives back exactly what
the item behind it holds (`ItemFreed`), and `fat16_open` (`FileOpened`).  The recursive functions
inside search, parser and walk exist and are followed by `LoopExists` and `LoopInduction` of
`RecursionProofs`.  `FopenKeeps`, `ElsewhereKeeps` and `MountKeeps` are the three actions.  That a root
file's item is complete (`RootItemWhole`) rests on what the search returns last (`LastFound`): the
item of the greatest index that matches, the one `fat16_get_directory_entry` names.

`FileMemoryAssumption` asks of the machine that no single request of the rest of the kernel is longer than the
kernel's own part (100 MB), and that memory suffices to mount, which happens first in `kernel_main`; of a
disk that every directory has a table of entries, and of a path that it is a sequence of names.

`OpenKeeps` counts every block of an open.  Its proof goes through the same operators again with
`Exact(w, K, c, e)`: nothing was refused so far, exactly c blocks are marked, at least e entries of the table are
empty, and the areas of K are live and, if larger than a block, remembered by the table, so that giving them back
clears all their blocks.  Each step of `fopen` gets its exact count (`TakenExact`, `DroppedExact`, `ParsedExact`,
`ItemExact`, `ItemFreedExact`, `WalkGoesOnExact`, `EntryExact`, `FileExact`, `FopenExact`).  Three empty
entries suffice, since a walk holds at most two directories at once besides the first item, which it
forgets.  A refusal is never undone within an open (`WalkStarves`, `FileStarves`), so an open that ends with nothing
refused met no refusal on its way.  The invariant is `KeepsInv == IInv /\ OpenKeeps /\ Grown`:
`OpenKeeps` reads whether the disk is mounted, which mounting changes, and `Grown` says that an
open that was refused nothing left a heap other than the first, so that no mount comes after it.

Only model-checked: the liveness property `EveryTaskRuns`.  Liveness is out of the prover's reach.
Induction over data is, too, where a theorem would take an operator; the recursive functions above are reached
by a set and its least element instead.

## Not modelled

The descriptor encodings and the task state segment (constants written once), the boot loader and
port accesses, the sector arithmetic of mounting, `fstat` (it only copies), exceptions but the division by zero, and what a program does in ring 0 after it, the
loaded directory when `task_free` is called (nothing calls it), and what memory holds before
boot.  Reasons stand with each component in `PROJECT.json`.

## Plan

Done: heap, task list with its memory, loader, running kernel, files and their memory, mounting,
terminal; theorems about each, of every safety property that a run checks.

Left: an abstract file store that `Vfs` implements on well-formed disks.
