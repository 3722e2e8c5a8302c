------------------------------ MODULE Process ------------------------------
(***************************************************************************)
(* The process loader (src/src/task/process.c with task_init and task_new  *)
(* of task.c) over the heap, the page directories and the task list.  Its  *)
(* state k is the record                                                   *)
(*                                                                         *)
(*   h       the heap (Kheap)                                              *)
(*   tl      the task list (TaskList)                                      *)
(*   slots   processes[]: the task of the process in each slot, or NoTask  *)
(*   dir     the page directory of each task                               *)
(*   prog, size, stack                                                     *)
(*           each process's ptr, size in bytes, and stack                  *)
(*   tables  the blocks of each task's directory, tables, chunk, task and  *)
(*           process structures                                            *)
(*   regs    the registers of each task when it does not run               *)
(*                                                                         *)
(* The task of slot s is s + 1: no step of a load fails once its task is   *)
(* on the list, so that a slot never gets a second task.                   *)
(***************************************************************************)
EXTENDS Paging, TaskList

CONSTANTS
    MAX_PROCESSES,          \* 12
    PROCESS_SIZE,           \* bytes of struct process: two blocks
    STACK_SIZE,             \* USER_PROGRAM_STACK_SIZE: 4 blocks
    FOPEN_BLOCKS,           \* single blocks fopen takes, none ever freed: 10
    FOPEN_MISS_BLOCKS,      \* as many if the file is not there: 5
    PROGRAM,                \* page of PROGRAM_VIRTUAL_ADDRESS: 0x400
    STACK,                  \* page of PROGRAM_VIRTUAL_STACK_ADDRESS_END: 0x3FB
    KSTACK,                 \* page below tss.esp0, the kernel's stack: 0x5FF
    FileSize,               \* bytes of each file, -1 for one not on the disk
    Unreadable              \* files that the driver fails to read (Fat16)

Missing == -1

ProcSlots == 0 .. (MAX_PROCESSES - 1)

ASSUME ProcessAssumption ==
    /\ MAX_PROCESSES \in Nat
    /\ Tasks = 1 .. MAX_PROCESSES
    /\ {PROCESS_SIZE, STACK_SIZE} \subseteq Nat \ {0}
    /\ {FOPEN_BLOCKS, FOPEN_MISS_BLOCKS} \subseteq Nat

(* The addresses that task.h gives the program and its stack, kernel.c the *)
(* kernel's stack: below RESERVED_BLOCKS, the program's behind its stack   *)
(* and not behind the kernel's.                                            *)
ASSUME LayoutAssumption ==
    /\ {PROGRAM, STACK, KSTACK} \subseteq Reserved
    /\ STACK + AlignedPages(STACK_SIZE) <= PROGRAM
    /\ PROGRAM <= KSTACK

Regs == {"edi", "esi", "ebp", "ebx", "edx", "ecx", "eax",
         "ip", "cs", "flags", "esp", "ss"}

(* Values of registers that the properties tell apart: what task t         *)
(* computed itself in register r, where r starts (the program's first      *)
(* address and the end of its stack), and values of the kernel's.          *)
Own(t, r)   == <<t, r, "own">>
Start(t, r) == <<t, r, "start">>
Zero        == <<"zero">>
Kernel      == <<"kernel">>     \* a kernel stack address, the kernel's flags
UserSel     == <<"user">>       \* USER_CODE_SEGMENT, USER_DATA_SEGMENT
Value       == (Tasks \X Regs \X {"own", "start"}) \cup {Zero, Kernel, UserSel}

(* The registers that task_init gives a task: those it does not assign     *)
(* are zero.                                                               *)
InitialRegs(t) == [r \in Regs |-> CASE r \in {"ip", "esp"} -> Start(t, r)
                                    [] r \in {"cs", "ss"}  -> UserSel
                                    [] OTHER               -> Zero]

(* Before kernel_main loads anything: the kernel's own directory is made.  *)
process_init == [h      |-> paging_new_4gb(kheap_init).h,
                 tl     |-> EmptyList,
                 slots  |-> [s \in ProcSlots |-> NoTask],
                 dir    |-> [t \in Tasks |-> Identity(FALSE)],
                 prog   |-> [t \in Tasks |-> NULL],
                 size   |-> [t \in Tasks |-> 0],
                 stack  |-> [t \in Tasks |-> NULL],
                 tables |-> [t \in Tasks |-> {}],
                 regs   |-> [t \in Tasks |-> InitialRegs(t)]]

(* The first free slot, -1 if all are taken. *)
process_get_free_slot(k) ==
    LET first == {s \in ProcSlots : /\ k.slots[s] = NoTask
                                    /\ \A r \in 0 .. (s - 1) : k.slots[r] # NoTask}
    IN  IF first = {} THEN -1 ELSE CHOOSE s \in first : TRUE

-----------------------------------------------------------------------------
(***************************************************************************)
(* A load in progress is the record of the heap, whether every step so far *)
(* succeeded, and the addresses obtained.  A step after a failed one does  *)
(* nothing: the load has returned, with what it took still taken.          *)
(***************************************************************************)
Begin(h) == [h |-> h, ok |-> TRUE,
             process |-> NULL, data |-> NULL, stack |-> NULL, task |-> NULL,
             tables |-> {}]

(* A pointer obtained from kzalloc. *)
Obtain(w, field, size) ==
    IF ~ w.ok THEN w
    ELSE LET r == kmallac(w.h, size)
         IN  [w EXCEPT !.h = r.h, !.ok = r.addr # NULL, ![field] = r.addr]

fopen(w, f) ==
    IF ~ w.ok THEN w
    ELSE IF FileSize[f] = Missing
    THEN [w EXCEPT !.h = TakeBlocks(@, FOPEN_MISS_BLOCKS).h, !.ok = FALSE]
    ELSE LET r == TakeBlocks(w.h, FOPEN_BLOCKS)
         IN  [w EXCEPT !.h = r.h, !.ok = r.ok]

(* fread refuses to read no bytes, and fails where the driver does.  What  *)
(* it reads when it succeeds is the subject of Vfs.                        *)
fread(w, f) == [w EXCEPT !.ok = @ /\ FileSize[f] > 0 /\ f \notin Unreadable]

process_load_binary(w, f) ==
    LET opened == fopen(w, f)
    IN  IF opened.ok
        THEN fread(Obtain(opened, "data", FileSize[f]), f)
        ELSE opened

(* The page directory of task_init. *)
ObtainDirectory(w) ==
    IF ~ w.ok THEN w
    ELSE LET r == paging_new_4gb(w.h)
         IN  [w EXCEPT !.h = r.h, !.ok = r.ok, !.tables = r.got]

(* Mutant: the stack is mapped behind the program. *)
process_map_memory_Behind(w, f) ==
    LET program == paging_map_to(Identity(FALSE), PROGRAM, w.data, FileSize[f], TRUE)
    IN  paging_map_to(program, PROGRAM + AlignedPages(FileSize[f]), w.stack, STACK_SIZE, TRUE)

(* The directory of a loaded process: every page maps to itself, user mode *)
(* may write its program's pages and its stack's only.                     *)
process_map_memory(w, f) ==
    LET program == paging_map_to(Identity(FALSE), PROGRAM, w.data, FileSize[f], TRUE)
    IN  paging_map_to(program, STACK, w.stack, STACK_SIZE, TRUE)

process_load_for_slot(k, f, slot) ==
    LET t == slot + 1
        w == ObtainDirectory(
               Obtain(
                 Obtain(
                   process_load_binary(Obtain(Begin(k.h), "process", PROCESS_SIZE), f),
                   "stack", STACK_SIZE),
                 "task", 1))
    IN  IF ~ w.ok
        THEN [k EXCEPT !.h = w.h]
        ELSE [k EXCEPT
                !.h         = w.h,
                !.tl        = task_new(@, t),
                !.slots[slot] = t,
                !.dir[t]    = process_map_memory(w, f),
                !.prog[t]   = w.data,
                !.size[t]   = FileSize[f],
                !.stack[t]  = w.stack,
                !.tables[t] = w.tables \cup {w.task} \cup Area(w.process, BlocksFor(PROCESS_SIZE))]

process_load(k, f) ==
    LET slot == process_get_free_slot(k)
    IN  IF slot < 0 THEN k ELSE process_load_for_slot(k, f, slot)
=============================================================================
