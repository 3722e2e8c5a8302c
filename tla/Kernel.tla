------------------------------- MODULE Kernel -------------------------------
(***************************************************************************)
(* The running kernel: the boot sequence of kernel.c, user programs, the   *)
(* timer interrupt and the scheduler, the other interrupts, and the system *)
(* calls (idt.c, idt.asm, task.c, task.asm, scheduler.c, isr80h/).  The    *)
(* gates are interrupt gates and nothing in a handler enables interrupts,  *)
(* so that a handler, from the trap to the return to user mode, is one     *)
(* step; what interleaves is the tasks' own steps and the interrupts.      *)
(***************************************************************************)
EXTENDS Process

CONSTANTS Files,            \* names that kernel_main may pass to process_load
          LOADS             \* calls of process_load that kernel_main makes: 3

ASSUME KernelAssumption ==
    /\ LOADS \in Nat
    /\ \A f \in Files : FileSize[f] \in Nat \cup {Missing}
    /\ Unreadable \subseteq Files

VARIABLES
    k,              \* memory, tasks and processes (Process)
    mode,           \* "boot"; "user": a task runs; "halt": panic's loop;
                    \* "crash": the kernel's stack is lost; "ring0": a program
                    \* runs on with the kernel's privileges
    loads,          \* calls of process_load so far
    cpu,            \* the registers in user mode
    cr3,            \* whose directory is loaded: a task, or NoTask for the kernel's
    seg,            \* the data segment registers: "kernel" or "user"
    in_service,     \* the interrupt controllers that wait to be told of the end
                    \* of an interrupt, and deliver none until then
    out,            \* the last string printed: who asked, whose text it is
    ctx             \* history: each task's registers when it last left user
                    \* mode, with the result of the call it made

vars == <<k, mode, loads, cpu, cr3, seg, in_service, out, ctx>>

Garbage == NoTask

(* A value that the properties say nothing about: a register that the      *)
(* program never set.                                                      *)
Unset == <<"unset">>

Init == /\ k = process_init
        /\ mode = "boot"
        /\ loads = 0
        /\ cpu = [r \in Regs |-> Zero]
        /\ cr3 = NoTask
        /\ seg = "kernel"
        /\ in_service = {}
        /\ out = <<NoTask, Garbage>>
        /\ ctx = [t \in Tasks |->
                    [r \in Regs |-> IF InitialRegs(t)[r] = Zero THEN Unset ELSE InitialRegs(t)[r]]]

current_task == k.tl.current

-----------------------------------------------------------------------------
(* What the handlers are made of.                                          *)

(* Mutant: one register is forgotten. *)
task_save_state_NoEcx(regs, t, frame) ==
    [regs EXCEPT ![t] = [frame EXCEPT !["ecx"] = regs[t]["ecx"]]]

(* task_save_state copies every register of the trap frame. *)
task_save_state(regs, t, frame) == [regs EXCEPT ![t] = frame]

(* task_return: the frame takes ss, esp, cs and ip from the structure and  *)
(* the flags from the kernel's own; restore_general_purpose_registers ends *)
(* with pop ebp, which brings back its caller's.                           *)
task_return(regs) == [r \in Regs |-> IF r \in {"ebp", "flags"} THEN Kernel ELSE regs[r]]

(* Mutant: no end of interrupt. *)
Resume_Unacknowledged(t, tl, regs) ==
    /\ k' = [k EXCEPT !.tl = [tl EXCEPT !.current = t], !.regs = regs]
    /\ cr3' = t
    /\ seg' = "user"
    /\ cpu' = task_return(regs[t])
    /\ in_service' = in_service \cup {"master"}
    /\ mode' = "user"

(* task_switch and task_return of the task t: run t in user mode.  The end *)
(* of interrupt is sent to the master controller on the way out.           *)
Resume(t, tl, regs) ==
    /\ k' = [k EXCEPT !.tl = [tl EXCEPT !.current = t], !.regs = regs]
    /\ cr3' = t
    /\ seg' = "user"
    /\ cpu' = task_return(regs[t])
    /\ in_service' = in_service \ {"master"}
    /\ mode' = "user"

(* The kernel's stack is at the same place in every address space, but     *)
(* only a directory that maps its page to itself shows the kernel's stack  *)
(* there.                                                                  *)
StackShared(t) == k.dir[t][KSTACK].frame = KSTACK

(* The processor pushes the trap frame through the running task's          *)
(* directory; kernel_page loads the kernel's and returns through a stack   *)
(* where nothing was pushed.                                               *)
LostOnEntry ==
    /\ cr3' = NoTask
    /\ seg' = "kernel"
    /\ mode' = "crash"
    /\ UNCHANGED <<k, loads, cpu, in_service, out, ctx>>

(* The registers are saved and t is the current task; paging_switch loads  *)
(* its directory and returns through a page of t's program.                *)
LostOnSwitch(t, regs) ==
    /\ k' = [k EXCEPT !.tl = [k.tl EXCEPT !.current = t], !.regs = regs]
    /\ cr3' = t
    /\ seg' = "kernel"
    /\ mode' = "crash"
    /\ UNCHANGED <<loads, cpu, in_service, out, ctx>>

(* Whose program a frame holds the first page of. *)
TextIn(frame) == IF \E t \in Tasks : k.prog[t] = frame /\ frame # NULL
                 THEN CHOOSE t \in Tasks : k.prog[t] = frame
                 ELSE Garbage

(* Mutants: the string is read in the kernel's address space; the old      *)
(* entry is not put back.                                                  *)
copy_string_from_task_NoSwitch(t) ==
    LET r   == kmallac(k.h, 1)
    IN  IF r.addr = NULL
        THEN [h |-> r.h, dir |-> k.dir[t], text |-> Garbage]
        ELSE [h |-> r.h, dir |-> k.dir[t], text |-> TextIn(PROGRAM)]

copy_string_from_task_NotPutBack(t) ==
    LET r      == kmallac(k.h, 1)
        mapped == paging_map(k.dir[t], r.addr, r.addr, TRUE)
    IN  IF r.addr = NULL
        THEN [h |-> r.h, dir |-> k.dir[t], text |-> Garbage]
        ELSE [h |-> r.h, dir |-> mapped, text |-> TextIn(mapped[PROGRAM].frame)]

(* copy_string_from_task: a block is mapped into the task's directory, the *)
(* string is copied there, and the old entry is put back.  The block is    *)
(* never freed.  The result is the heap, the directory and the text.       *)
copy_string_from_task(t) ==
    LET r      == kmallac(k.h, 1)
        old    == k.dir[t][r.addr]
        mapped == paging_map(k.dir[t], r.addr, r.addr, TRUE)
    IN  IF r.addr = NULL
        THEN [h |-> r.h, dir |-> k.dir[t], text |-> Garbage]
        ELSE [h    |-> r.h,
              dir  |-> paging_set(mapped, r.addr, old),
              text |-> TextIn(mapped[PROGRAM].frame)]

-----------------------------------------------------------------------------
(* kernel_main: the programs are loaded, whatever comes of it. *)
Load(f) ==
    /\ mode = "boot"
    /\ loads < LOADS
    /\ k' = process_load(k, f)
    /\ loads' = loads + 1
    /\ UNCHANGED <<mode, cpu, cr3, seg, in_service, out, ctx>>

(* The first task is entered from the boot's stack, which is elsewhere:    *)
(* whether it shares the kernel's does not matter yet.                     *)
task_run_first_ever_task ==
    /\ mode = "boot"
    /\ loads = LOADS
    /\ UNCHANGED <<loads, out, ctx>>
    /\ IF current_task = NoTask
       THEN mode' = "halt" /\ UNCHANGED <<k, cpu, cr3, seg, in_service>>
       ELSE Resume(k.tl.head, k.tl, k.regs)

(* The running program computes: every register takes a value of its own,  *)
(* another one than any other register of any task.  A program writes its  *)
(* pages, reads any, and loads no segment.                                 *)
UserStep ==
    /\ mode = "user"
    /\ cpu' = [r \in Regs |-> IF r \in {"cs", "ss"} THEN UserSel ELSE Own(current_task, r)]
    /\ ctx' = [ctx EXCEPT ![current_task] = cpu']
    /\ UNCHANGED <<k, mode, loads, cr3, seg, in_service, out>>

(* isr_0x20_handler: the task's registers are saved and the next task is   *)
(* resumed; what follows schedule_next_task in the handler is not reached. *)
isr_0x20_handler ==
    LET next == task_get_next(k.tl)
        regs == task_save_state(k.regs, current_task, cpu)
    IN  \/ /\ StackShared(current_task)
           /\ StackShared(next)
           /\ Resume(next, k.tl, regs)
           /\ UNCHANGED <<loads, out, ctx>>
        \/ /\ StackShared(current_task)
           /\ ~ StackShared(next)
           /\ LostOnSwitch(next, regs)
        \/ ~ StackShared(current_task) /\ LostOnEntry

(* no_interrupt tells the master controller of the end of an interrupt and *)
(* returns.  The slave, through which the disk interrupts, is never told.  *)
(* No directory is loaded: the frame is pushed and popped through the same *)
(* one, whatever its page of the kernel's stack is.                        *)
no_interrupt(waiting) ==
    /\ in_service' = waiting \ {"master"}
    /\ UNCHANGED <<k, mode, loads, cpu, cr3, seg, out, ctx>>

(* idt_zero is a C function: it ends in ret, which takes the program's ip  *)
(* from the frame and leaves cs the kernel's.  The program runs on with    *)
(* the kernel's privileges and with interrupts disabled.                   *)
idt_zero ==
    /\ mode' = "ring0"
    /\ UNCHANGED <<k, loads, cpu, cr3, seg, in_service, out, ctx>>

TimerInterrupt == mode = "user" /\ "master" \notin in_service /\ isr_0x20_handler

OtherInterrupt(pic) ==
    /\ mode = "user"
    /\ {pic, "master"} \cap in_service = {}
    /\ no_interrupt(in_service \cup {pic})

(* idt_set leaves every gate open to user mode: a program may call the     *)
(* timer's, giving up its turn, one of no_interrupt's, or gate 0, which a  *)
(* division by zero enters too, at any time.                               *)
SoftwareInterrupt ==
    mode = "user" /\ (isr_0x20_handler \/ no_interrupt(in_service) \/ idt_zero)

(* Mutant: the handler returns without task_page. *)
SyscallReturn_NoTaskPage ==
    /\ cpu' = [cpu EXCEPT !["eax"] = Zero]
    /\ ctx' = [ctx EXCEPT ![current_task]["eax"] = Zero]
    /\ cr3' = NoTask
    /\ seg' = "kernel"
    /\ UNCHANGED <<mode, loads, in_service>>

(* isr80h_wrapper returns to the program with its registers as they were,  *)
(* but for the result in eax; task_page reloads its segments and its       *)
(* directory.  A call returns 0.                                           *)
SyscallReturn ==
    /\ cpu' = [cpu EXCEPT !["eax"] = Zero]
    /\ ctx' = [ctx EXCEPT ![current_task]["eax"] = Zero]
    /\ cr3' = current_task
    /\ seg' = "user"
    /\ UNCHANGED <<mode, loads, in_service>>

(* isr80h_command4_sys_write ignores whether the string was copied. *)
sys_write ==
    /\ mode = "user"
    /\ IF StackShared(current_task)
       THEN LET t == current_task
                c == copy_string_from_task(t)
            IN  /\ k' = [k EXCEPT !.h = c.h, !.dir[t] = c.dir,
                                  !.regs = task_save_state(@, t, cpu)]
                /\ out' = <<t, c.text>>
                /\ SyscallReturn
       ELSE LostOnEntry

(* isr80h_command0_sum prints a word of the task's stack and panics. *)
sum ==
    /\ mode = "user"
    /\ IF StackShared(current_task)
       THEN /\ k' = [k EXCEPT !.regs = task_save_state(@, current_task, cpu)]
            /\ mode' = "halt"
            /\ cr3' = NoTask
            /\ seg' = "kernel"
            /\ UNCHANGED <<loads, cpu, in_service, out, ctx>>
       ELSE LostOnEntry

(* isr80h_handle_command of a number that is out of range or has no        *)
(* command.                                                                *)
invalid_command ==
    /\ mode = "user"
    /\ IF StackShared(current_task)
       THEN /\ k' = [k EXCEPT !.regs = task_save_state(@, current_task, cpu)]
            /\ UNCHANGED out
            /\ SyscallReturn
       ELSE LostOnEntry

(* panic's loop, with interrupts disabled; nothing is said of what follows *)
(* a crash, or of a program that runs as the kernel.                       *)
Stopped == mode \in {"halt", "crash", "ring0"} /\ UNCHANGED vars

Next == \/ \E f \in Files : Load(f)
        \/ task_run_first_ever_task
        \/ UserStep
        \/ TimerInterrupt
        \/ \E pic \in {"master", "slave"} : OtherInterrupt(pic)
        \/ SoftwareInterrupt
        \/ sys_write
        \/ sum
        \/ invalid_command
        \/ Stopped

(* User code runs with interrupts enabled and the timer ticks for ever, at *)
(* the rate the firmware left it with.                                     *)
Fairness == WF_vars(TimerInterrupt)

Spec == Init /\ [][Next]_vars /\ Fairness

-----------------------------------------------------------------------------
(* A refused request for a program larger than memory marks bits beyond it. *)
HeapState == [map : SUBSET Nat, used : Nat, free : Nat,
              big : [Slots -> [addr : Pages, blocks : Nat]]]

TypeOK ==
    /\ k.h \in HeapState
    /\ k.tl \in ListType
    /\ k.slots \in [ProcSlots -> Link]
    /\ k.dir \in [Tasks -> Directory]
    /\ k.regs \in [Tasks -> [Regs -> Value]]
    /\ mode \in {"boot", "user", "halt", "crash", "ring0"}
    /\ loads \in 0 .. LOADS
    /\ cpu \in [Regs -> Value]
    /\ cr3 \in Link
    /\ seg \in {"kernel", "user"}
    /\ in_service \subseteq {"master", "slave"}
    /\ out \in Link \X Link
    /\ ctx \in [Tasks -> [Regs -> Value \cup {Unset}]]

OnList(t) == \E i \in DOMAIN Order(k.tl) : Order(k.tl)[i] = t

(* In user mode the loaded directory and the segments are those of the     *)
(* current task, whichever handler ran last: every path through kernel_page *)
(* ends in task_page or task_switch.                                       *)
AddressSpaceOfCurrent ==
    mode = "user" => cr3 = current_task /\ seg = "user" /\ OnList(current_task)

(* A task's registers survive the interrupts, the system calls and the     *)
(* other tasks' turns between two of its own steps: those of the running   *)
(* task are in the processor, those of a waiting one in its structure.     *)
(* The frame pointer and the flags are not restored (see ContextRestored). *)
Restored(t, r) == ctx[t][r] # Unset => (IF t = current_task THEN cpu ELSE k.regs[t])[r] = ctx[t][r]

ContextKept ==
    mode = "user" => \A t \in Tasks, r \in Regs \ {"ebp", "flags"} : OnList(t) => Restored(t, r)

(* README: the kernel has the "ability to switch Processes and save their  *)
(* context": a task finds every register as it left it.                    *)
ContextRestored ==
    mode = "user" => \A t \in Tasks, r \in Regs : OnList(t) => Restored(t, r)

UserWritable(t) == {k.dir[t][v].frame : v \in {p \in Pages : k.dir[t][p].write}}

(* n pages hold size bytes, and one page less would not. *)
Covers(n, size) == n * PAGE \in size .. (size + PAGE - 1)

(* What a task may write is the pages that its program and its stack take, *)
(* not one more or less: no block of the kernel, of another task, or of    *)
(* anybody's tables (process_map_memory, paging_align_address,             *)
(* copy_string_from_task, kmallac).                                        *)
Isolation ==
    \A t \in Tasks : OnList(t) =>
        /\ \E n, m \in 0 .. SYSTEM_BLOCKS :
              /\ Covers(n, k.size[t])
              /\ Covers(m, STACK_SIZE)
              /\ UserWritable(t) = Area(k.prog[t], n) \cup Area(k.stack[t], m)
        /\ UserWritable(t) \cap Reserved = {}
        /\ \A u \in Tasks : OnList(u) =>
              /\ UserWritable(t) \cap k.tables[u] = {}
              /\ t # u => UserWritable(t) \cap UserWritable(u) = {}

(* No interrupt or call leaves a trace in a page directory: sys_write puts *)
(* back the entry it replaced.                                             *)
MappingsStable == [][mode = "user" => k'.dir = k.dir]_vars

NoBlockFree == \A b \in RESERVED_BLOCKS .. (SYSTEM_BLOCKS - 1) : b \in k.h.map

(* sys_write prints the caller's own string, and anything else only once   *)
(* memory is exhausted.                                                    *)
WritesOwnString == out[2] = out[1] \/ (out[2] = Garbage /\ NoBlockFree)

(* README: "as kernel switches process we can see on screen different      *)
(* output of each process".                                                *)
WritesAlwaysShown == out[2] = out[1]

(* The program is so large that its pages reach the page of the kernel's   *)
(* stack.                                                                  *)
Overlaps(t) == k.size[t] > (KSTACK - PROGRAM) * PAGE

(* The kernel's stack is lost only with a program of such a size, whatever *)
(* is interrupted, called or switched to; and such a program never gets to *)
(* run, unless it is the first one, which runs until it is switched away   *)
(* from or calls the kernel (kernel_page, paging_switch, process_load).    *)
StackLostOnOverlap ==
    /\ mode = "crash" => Overlaps(current_task)
    /\ mode = "user" /\ Overlaps(current_task) => current_task = k.tl.head

(* Tasks run in turn, in the order in which they were loaded, and none     *)
(* leaves: the timer interrupt with the task list implements the round     *)
(* robin of tasks that stay.                                               *)
Turns == INSTANCE RoundRobin WITH queue <- Order(k.tl), running <- current_task

RoundRobinScheduling == Turns!StayingSpec

(* Every loaded task keeps getting its turn, as long as tasks run.         *)
EveryTaskRuns ==
    \A t \in Tasks : (mode = "user" /\ OnList(t)) ~> (current_task = t \/ mode # "user")
=============================================================================
