---------------------------- MODULE KernelProofs ----------------------------
(***************************************************************************)
(* The running kernel on a machine of any size, with any number of slots   *)
(* and loads.  First the registers: a task's survive, and no page          *)
(* directory changes once programs run.  Then memory and the schedule: who *)
(* may write what, whose string is printed, when the kernel can crash, and *)
(* that the tasks take turns; all of these follow from one invariant,      *)
(* Safe, which every load, interrupt and call preserves.                   *)
(*                                                                         *)
(* Several fields of k change at once; what each becomes is a fact of its  *)
(* own about EXCEPT, and the lemmas about process_load, Resume and so on   *)
(* state those facts.                                                      *)
(***************************************************************************)
EXTENDS Kernel, LayerProofs

Fields == {"h", "tl", "slots", "dir", "prog", "size", "stack", "tables", "regs"}

(* The shape of the kernel's memory: a record of its parts, a directory of *)
(* all pages for each task, a set of registers for each.                   *)
Shape(m) ==
    /\ DOMAIN m = Fields
    /\ "current" \in DOMAIN m.tl
    /\ m.dir = [t \in Tasks |-> m.dir[t]]
    /\ \A t \in Tasks : m.dir[t] = [p \in Pages |-> m.dir[t][p]]
    /\ DOMAIN m.regs = Tasks

CpuShape == DOMAIN cpu = Regs

CtxShape == /\ DOMAIN ctx = Tasks
            /\ \A t \in Tasks : DOMAIN ctx[t] = Regs

(* The registers of every task, on the list or not, are those it last had: *)
(* the running one's in the processor, the others' in their structures.    *)
Kept ==
    mode \in {"boot", "user"} =>
        \A t \in Tasks, r \in Regs \ {"ebp", "flags"} :
            ctx[t][r] # Unset =>
                (IF mode = "user" /\ t = current_task THEN cpu ELSE k.regs[t])[r] = ctx[t][r]

Inv == Shape(k) /\ CpuShape /\ CtxShape /\ Kept

-----------------------------------------------------------------------------
(* task_new keeps the fields of the list. *)
LEMMA TaskNewShape ==
    ASSUME NEW tl, NEW t, "current" \in DOMAIN tl
    PROVE  "current" \in DOMAIN task_new(tl, t)
BY Zenon DEF task_new

(* A load keeps the shape of memory and every task's registers, whether it *)
(* succeeds or not (process_load_for_slot).                                *)
LEMMA LoadForSlotShape ==
    ASSUME NEW m, Shape(m), NEW f, NEW slot
    PROVE  /\ Shape(process_load_for_slot(m, f, slot))
           /\ process_load_for_slot(m, f, slot).regs = m.regs
<1> DEFINE t == slot + 1
           w == ObtainDirectory(
                  Obtain(
                    Obtain(
                      process_load_binary(Obtain(Begin(m.h), "process", PROCESS_SIZE), f),
                      "stack", STACK_SIZE),
                    "task", 1))
           d == process_map_memory(w, f)
           n == [m EXCEPT
                   !.h         = w.h,
                   !.tl        = task_new(@, t),
                   !.slots[slot] = t,
                   !.dir[t]    = d,
                   !.prog[t]   = w.data,
                   !.size[t]   = FileSize[f],
                   !.stack[t]  = w.stack,
                   !.tables[t] = w.tables \cup {w.task} \cup Area(w.process, BlocksFor(PROCESS_SIZE))]
<1>1. process_load_for_slot(m, f, slot) = IF ~ w.ok THEN [m EXCEPT !.h = w.h] ELSE n
  BY DEF process_load_for_slot
<1>2. d = [p \in Pages |-> d[p]]
  BY DEF process_map_memory, paging_map_to, paging_map_range
<1> HIDE DEF w, d, t
<1>3. DOMAIN m = Fields
  BY DEF Shape
<1>4. Shape([m EXCEPT !.h = w.h]) /\ [m EXCEPT !.h = w.h].regs = m.regs
  BY <1>3 DEF Shape, Fields
<1>5. DOMAIN n = Fields
  BY <1>3, Zenon DEF n
<1>6. n.tl = task_new(m.tl, t)
  BY <1>3, Zenon DEF n, Fields
<1>7. n.dir = [m.dir EXCEPT ![t] = d]
  BY <1>3, Zenon DEF n, Fields
<1>8. n.regs = m.regs
  BY <1>3, Zenon DEF n, Fields
<1> HIDE DEF n
<1>9. Shape(n)
  <2>1. "current" \in DOMAIN n.tl
    BY <1>6, TaskNewShape DEF Shape
  <2>2. n.dir = [u \in Tasks |-> n.dir[u]]
    BY <1>7 DEF Shape
  <2>3. ASSUME NEW u \in Tasks
        PROVE  n.dir[u] = [p \in Pages |-> n.dir[u][p]]
    <3>1. CASE u = t
      BY <3>1, <1>2, <1>7 DEF Shape
    <3>2. CASE u # t
      BY <3>2, <1>7 DEF Shape
    <3> QED  BY <3>1, <3>2
  <2> QED  BY <1>5, <1>8, <2>1, <2>2, <2>3 DEF Shape
<1> QED  BY <1>1, <1>4, <1>8, <1>9

(* process_load, with or without a free slot. *)
LEMMA LoadShape ==
    ASSUME NEW m, Shape(m), NEW f
    PROVE  Shape(process_load(m, f)) /\ process_load(m, f).regs = m.regs
BY LoadForSlotShape, Zenon DEF process_load

(* Saving the trap frame changes the running task's registers only. *)
LEMMA SaveKept ==
    ASSUME Inv, mode = "user"
    PROVE  /\ DOMAIN task_save_state(k.regs, current_task, cpu) = Tasks
           /\ \A t \in Tasks, r \in Regs \ {"ebp", "flags"} :
                ctx[t][r] # Unset => task_save_state(k.regs, current_task, cpu)[t][r] = ctx[t][r]
BY DEF Inv, Shape, Kept, task_save_state

(* task_switch, once the registers are saved: memory keeps its shape and   *)
(* its directories.                                                        *)
LEMMA SwitchShape ==
    ASSUME Shape(k), NEW t, NEW regs, DOMAIN regs = Tasks,
           k' = [k EXCEPT !.tl = [k.tl EXCEPT !.current = t], !.regs = regs]
    PROVE  Shape(k)' /\ k'.dir = k.dir /\ k'.regs = regs /\ current_task' = t
<1> DEFINE tl == [k.tl EXCEPT !.current = t]
           n  == [k EXCEPT !.tl = tl, !.regs = regs]
<1>1. k' = n
  BY Zenon
<1>2. DOMAIN k = Fields /\ "current" \in DOMAIN k.tl
  BY DEF Shape
<1>3. DOMAIN tl = DOMAIN k.tl /\ tl.current = t
  BY <1>2, Zenon
<1> HIDE DEF tl
<1>4. DOMAIN n = Fields
  BY <1>2, Zenon DEF n
<1>5. n.tl = tl
  BY <1>2, Zenon DEF n, Fields
<1>6. n.dir = k.dir
  BY <1>2, Zenon DEF n, Fields
<1>7. n.regs = regs
  BY <1>2, Zenon DEF n, Fields
<1> HIDE DEF n
<1>8. Shape(k)'
  BY <1>1, <1>2, <1>3, <1>4, <1>5, <1>6, <1>7 DEF Shape
<1>9. current_task' = t
  BY <1>1, <1>3, <1>5, Zenon DEF current_task
<1> QED  BY <1>1, <1>6, <1>7, <1>8, <1>9

(* A task is resumed with the registers in its structure (task_switch,     *)
(* task_return): if those of every task are kept there, they still are.    *)
LEMMA ResumeKeeps ==
    ASSUME Inv, NEW t, NEW regs, DOMAIN regs = Tasks,
           \A u \in Tasks, r \in Regs \ {"ebp", "flags"} :
              ctx[u][r] # Unset => regs[u][r] = ctx[u][r],
           Resume(t, k.tl, regs), ctx' = ctx
    PROVE  Inv' /\ k'.dir = k.dir
<1>1. Shape(k)' /\ k'.dir = k.dir /\ k'.regs = regs /\ current_task' = t
  BY SwitchShape, Zenon DEF Resume, Inv
<1>2. cpu' = task_return(regs[t]) /\ mode' = "user"
  BY Zenon DEF Resume
<1>3. CpuShape'
  BY <1>2 DEF CpuShape, task_return
<1>4. Kept'
  <2> SUFFICES ASSUME NEW u \in Tasks, NEW r \in Regs \ {"ebp", "flags"},
                      ctx[u][r] # Unset
               PROVE  (IF u = t THEN cpu' ELSE regs[u])[r] = ctx[u][r]
    BY <1>1, <1>2 DEF Kept
  <2>1. task_return(regs[t])[r] = regs[t][r]
    BY DEF task_return
  <2> QED  BY <2>1, <1>2
<1> QED  BY <1>1, <1>3, <1>4 DEF Inv, CtxShape

(* The kernel's stack is lost: what is kept says nothing of what follows. *)
LEMMA LostKeeps ==
    ASSUME Inv, mode = "user",
           \/ LostOnEntry
           \/ \E t : LostOnSwitch(t, task_save_state(k.regs, current_task, cpu))
    PROVE  Inv' /\ k'.dir = k.dir
<1>1. CASE LostOnEntry
  BY <1>1 DEF LostOnEntry, Inv, CpuShape, CtxShape, Kept
<1>2. CASE ~ LostOnEntry
  <2>1. PICK t : LostOnSwitch(t, task_save_state(k.regs, current_task, cpu))
    BY <1>2
  <2>2. Shape(k)' /\ k'.dir = k.dir
    BY <2>1, SaveKept, SwitchShape, Zenon DEF LostOnSwitch, Inv
  <2> QED  BY <2>1, <2>2 DEF LostOnSwitch, Inv, CpuShape, CtxShape, Kept
<1> QED  BY <1>1, <1>2

(* A call returns to its program: directories and heap may have changed,   *)
(* the saved registers are the trap frame's (isr80h_wrapper).              *)
LEMMA ReturnKeeps ==
    ASSUME Inv, mode = "user", Shape(k)', current_task' = current_task,
           k'.regs = task_save_state(k.regs, current_task, cpu), SyscallReturn
    PROVE  Inv'
<1>1. CpuShape' /\ CtxShape'
  BY DEF Inv, CpuShape, CtxShape, SyscallReturn
<1>2. Kept'
  <2> SUFFICES ASSUME NEW u \in Tasks, NEW r \in Regs \ {"ebp", "flags"},
                      ctx'[u][r] # Unset
               PROVE  (IF u = current_task THEN cpu' ELSE k'.regs[u])[r] = ctx'[u][r]
    BY DEF Kept, SyscallReturn
  <2>1. CASE u = current_task
    BY <2>1 DEF Inv, Kept, CpuShape, CtxShape, SyscallReturn
  <2>2. CASE u # current_task
    BY <2>2, SaveKept DEF Inv, CtxShape, SyscallReturn
  <2> QED  BY <2>1, <2>2
<1> QED  BY <1>1, <1>2 DEF Inv

-----------------------------------------------------------------------------
(* The shapes and the registers at boot, before anything is loaded.       *)
LEMMA InitInv == Init => Inv
<1> SUFFICES ASSUME Init
             PROVE  Inv
  OBVIOUS
<1>1. Shape(k)
  BY DEF Init, process_init, Shape, Fields, EmptyList, Identity
<1>2. CpuShape /\ CtxShape
  BY DEF Init, CpuShape, CtxShape
<1>3. Kept
  BY DEF Init, process_init, Kept
<1> QED  BY <1>1, <1>2, <1>3 DEF Inv

(* One step per action; the two ways an interrupt is handled are shared by *)
(* the hardware's and the programs' own.                                   *)
LEMMA NextInv == Inv /\ [Next]_vars => Inv'
<1> SUFFICES ASSUME Inv, [Next]_vars
             PROVE  Inv'
  OBVIOUS
<1>1. ASSUME NEW f \in Files, Load(f)
      PROVE  Inv'
  <2>1. Shape(k)' /\ k'.regs = k.regs
    BY <1>1, LoadShape DEF Inv, Load
  <2> QED  BY <1>1, <2>1 DEF Inv, Load, CpuShape, CtxShape, Kept
<1>2. ASSUME task_run_first_ever_task
      PROVE  Inv'
  <2>1. CASE current_task = NoTask
    BY <1>2, <2>1 DEF task_run_first_ever_task, Inv, CpuShape, CtxShape, Kept
  <2>2. CASE current_task # NoTask
    <3>1. Resume(k.tl.head, k.tl, k.regs) /\ ctx' = ctx /\ mode = "boot"
      BY <1>2, <2>2 DEF task_run_first_ever_task
    <3>2. \A u \in Tasks, r \in Regs \ {"ebp", "flags"} :
             ctx[u][r] # Unset => k.regs[u][r] = ctx[u][r]
      BY <3>1 DEF Inv, Kept
    <3> QED  BY <3>1, <3>2, ResumeKeeps DEF Inv, Shape
  <2> QED  BY <2>1, <2>2
<1>3. CASE UserStep
  BY <1>3 DEF UserStep, Inv, CpuShape, CtxShape, Kept, current_task
<1>4. ASSUME mode = "user", isr_0x20_handler
      PROVE  Inv'
  <2> DEFINE regs == task_save_state(k.regs, current_task, cpu)
             next == task_get_next(k.tl)
  <2>1. CASE Resume(next, k.tl, regs) /\ ctx' = ctx
    BY <1>4, <2>1, SaveKept, ResumeKeeps
  <2>2. CASE LostOnEntry \/ LostOnSwitch(next, regs)
    BY <1>4, <2>2, LostKeeps, Zenon
  <2> HIDE DEF regs, next
  <2> QED  BY <1>4, <2>1, <2>2 DEF isr_0x20_handler, regs, next
<1>5. ASSUME NEW waiting, no_interrupt(waiting)
      PROVE  Inv'
  BY <1>5 DEF no_interrupt, Inv, CpuShape, CtxShape, Kept, current_task
<1>11. ASSUME mode = "user", idt_zero
       PROVE  Inv'
  BY <1>11 DEF idt_zero, Inv, CpuShape, CtxShape, Kept
<1>6. CASE sys_write
  <2>1. CASE StackShared(current_task)
    <3> DEFINE t == current_task
               c == copy_string_from_task(t)
               regs == task_save_state(k.regs, t, cpu)
               n == [k EXCEPT !.h = c.h, !.dir[t] = c.dir,
                              !.regs = task_save_state(@, t, cpu)]
    <3>1. k' = n /\ SyscallReturn /\ mode = "user"
      BY <1>6, <2>1, Zenon DEF sys_write
    <3>2. ASSUME t \in Tasks
          PROVE  c.dir = [p \in Pages |-> c.dir[p]]
      BY <3>2 DEF copy_string_from_task, paging_map, paging_set, Inv, Shape
    <3>3. DOMAIN k = Fields
      BY DEF Inv, Shape
    <3> HIDE DEF c, t
    <3>4. DOMAIN n = Fields
      BY <3>3, Zenon DEF n
    <3>5. n.tl = k.tl
      BY <3>3, Zenon DEF n, Fields
    <3>6. n.dir = [k.dir EXCEPT ![t] = c.dir]
      BY <3>3, Zenon DEF n, Fields
    <3>7. n.regs = regs
      BY <3>3, Zenon DEF n, Fields
    <3> HIDE DEF n
    <3>8. Shape(k)'
      <4>1. DOMAIN regs = Tasks
        BY <3>1, SaveKept DEF t
      <4> HIDE DEF regs
      <4>2. n.dir = [u \in Tasks |-> n.dir[u]]
        BY <3>6 DEF Inv, Shape
      <4>3. ASSUME NEW u \in Tasks
            PROVE  n.dir[u] = [p \in Pages |-> n.dir[u][p]]
        <5>1. CASE u = t
          BY <5>1, <3>2, <3>6 DEF Inv, Shape
        <5>2. CASE u # t
          BY <5>2, <3>6 DEF Inv, Shape
        <5> QED  BY <5>1, <5>2
      <4> QED  BY <3>1, <3>4, <3>5, <3>7, <4>1, <4>2, <4>3 DEF Inv, Shape
    <3>9. current_task' = current_task
      BY <3>1, <3>5 DEF current_task
    <3> QED  BY <3>1, <3>7, <3>8, <3>9, ReturnKeeps DEF t
  <2>2. CASE ~ StackShared(current_task)
    BY <1>6, <2>2, LostKeeps DEF sys_write
  <2> QED  BY <2>1, <2>2
<1>7. ASSUME mode = "user",
             k' = [k EXCEPT !.regs = task_save_state(@, current_task, cpu)]
      PROVE  /\ Shape(k)' /\ current_task' = current_task
             /\ k'.regs = task_save_state(k.regs, current_task, cpu)
  BY <1>7, SaveKept DEF Inv, Shape, Fields, current_task
<1>8. CASE sum
  <2>1. CASE StackShared(current_task)
    BY <1>7, <1>8, <2>1 DEF sum, Inv, CpuShape, CtxShape, Kept
  <2>2. CASE ~ StackShared(current_task)
    BY <1>8, <2>2, LostKeeps DEF sum
  <2> QED  BY <2>1, <2>2
<1>9. CASE invalid_command
  <2>1. CASE StackShared(current_task)
    BY <1>7, <1>9, <2>1, ReturnKeeps DEF invalid_command
  <2>2. CASE ~ StackShared(current_task)
    BY <1>9, <2>2, LostKeeps DEF invalid_command
  <2> QED  BY <2>1, <2>2
<1>10. CASE UNCHANGED vars
  BY <1>10 DEF vars, Inv, CpuShape, CtxShape, Kept, current_task
<1> QED
  BY <1>1, <1>2, <1>3, <1>4, <1>5, <1>6, <1>8, <1>9, <1>10, <1>11
     DEF Next, TimerInterrupt, OtherInterrupt, SoftwareInterrupt, Stopped

(* The inductive invariant of the running kernel. *)
THEOREM KernelInvariance == Spec => []Inv
BY InitInv, NextInv, PTL DEF Spec

(* However many tasks, programs and loads there are, and in whatever order *)
(* interrupts, calls and the tasks' own steps come: a task finds every     *)
(* register but the frame pointer and the flags as it left it              *)
(* (task_save_state, task_return, isr80h_wrapper).                         *)
THEOREM ContextAlwaysKept == Spec => []ContextKept
<1>1. Inv => ContextKept
  BY DEF Inv, Kept, ContextKept, Restored
<1> QED  BY <1>1, KernelInvariance, PTL

(* The entry that copy_string_from_task borrows in the caller's directory  *)
(* is put back: the directory is the one the task had.                     *)
LEMMA DirectoryPutBack ==
    ASSUME NEW t \in Tasks, Shape(k)
    PROVE  copy_string_from_task(t).dir = k.dir[t]
<1> DEFINE r == kmallac(k.h, 1)
           d == k.dir[t]
           back == paging_set(paging_map(d, r.addr, r.addr, TRUE), r.addr, d[r.addr])
<1>1. copy_string_from_task(t).dir = IF r.addr = NULL THEN d ELSE back
  BY Zenon DEF copy_string_from_task
<1>2. d = [p \in Pages |-> d[p]]
  BY DEF Shape
<1> HIDE DEF r, d
<1>3. back = d
  BY <1>2 DEF paging_set, paging_map
<1> QED  BY <1>1, <1>3 DEF d

(* sys_write leaves every directory as it was. *)
LEMMA WriteKeepsDirectories ==
    ASSUME Inv, sys_write
    PROVE  k'.dir = k.dir
<1>1. CASE StackShared(current_task)
  <2> DEFINE t == current_task
             c == copy_string_from_task(t)
             n == [k EXCEPT !.h = c.h, !.dir[t] = c.dir,
                            !.regs = task_save_state(@, t, cpu)]
  <2>1. k' = n
    BY <1>1, Zenon DEF sys_write
  <2>2. DOMAIN k = Fields
    BY DEF Inv, Shape
  <2>3. t \in Tasks => c.dir = k.dir[t]
    BY DirectoryPutBack DEF Inv
  <2> HIDE DEF c, t
  <2>4. n.dir = [k.dir EXCEPT ![t] = c.dir]
    BY <2>2, Zenon DEF n, Fields
  <2> HIDE DEF n
  <2> QED  BY <2>1, <2>3, <2>4 DEF Inv, Shape
<1>2. CASE ~ StackShared(current_task)
  BY <1>2 DEF sys_write, LostOnEntry
<1> QED  BY <1>1, <1>2

(* Once programs run, no interrupt and no call changes a page directory,   *)
(* whatever the machine's size and the number of tasks: what sys_write     *)
(* maps for the copy it unmaps.                                            *)
THEOREM MappingsAlwaysStable == Spec => MappingsStable
<1>1. Inv /\ [Next]_vars => (mode = "user" => k'.dir = k.dir)
  <2> SUFFICES ASSUME Inv, [Next]_vars, mode = "user"
               PROVE  k'.dir = k.dir
    OBVIOUS
  <2>1. CASE UserStep
    BY <2>1 DEF UserStep
  <2>2. ASSUME isr_0x20_handler
        PROVE  k'.dir = k.dir
    <3> DEFINE regs == task_save_state(k.regs, current_task, cpu)
               next == task_get_next(k.tl)
    <3>1. CASE Resume(next, k.tl, regs) /\ ctx' = ctx
      BY <3>1, SaveKept, ResumeKeeps
    <3>2. CASE LostOnEntry \/ LostOnSwitch(next, regs)
      BY <3>2, LostKeeps, Zenon
    <3> HIDE DEF regs, next
    <3> QED  BY <2>2, <3>1, <3>2 DEF isr_0x20_handler, regs, next
  <2>3. ASSUME NEW waiting, no_interrupt(waiting)
        PROVE  k'.dir = k.dir
    BY <2>3 DEF no_interrupt
  <2>7. ASSUME idt_zero
        PROVE  k'.dir = k.dir
    BY <2>7 DEF idt_zero
  <2>4. CASE sys_write
    BY <2>4, WriteKeepsDirectories
  <2>5. CASE sum \/ invalid_command
    BY <2>5 DEF sum, invalid_command, LostOnEntry, Inv, Shape, Fields
  <2>6. CASE UNCHANGED vars
    BY <2>6 DEF vars
  <2> QED
    BY <2>1, <2>2, <2>3, <2>4, <2>5, <2>6, <2>7
       DEF Next, Load, task_run_first_ever_task, TimerInterrupt, OtherInterrupt,
           SoftwareInterrupt, Stopped
<1> QED  BY <1>1, KernelInvariance, PTL DEF MappingsStable, Spec

-----------------------------------------------------------------------------
(***************************************************************************)
(* Memory and the schedule.  The invariant speaks of the clear blocks, of  *)
(* the task list and of every loaded process at once: what a process may   *)
(* write is its own because its blocks were clear when they were taken,    *)
(* and a full heap is the only reason for a refused single block because   *)
(* the counter of free blocks never falls below the clear ones.            *)
(***************************************************************************)

(* The heap once the kernel runs: no block of the kernel's is handed out,  *)
(* and at most as many blocks are clear as the counter says.  A refused    *)
(* request for several blocks marks some without counting them.            *)
SoundHeap(h) ==
    /\ h \in HeapType
    /\ \A i \in Slots : h.big[i].addr \in Pages
    /\ Reserved \subseteq h.map
    /\ h.used \in Nat
    /\ h.free \in Nat
    /\ Cardinality(Pages \ h.map) <= h.free

(* The processes that are loaded, and what such a process may write.       *)
Loaded(m) == {t \in Tasks : m.prog[t] # NULL}

Room(m, t) == Area(m.prog[t], AlignedPages(m.size[t]))
                 \cup Area(m.stack[t], AlignedPages(STACK_SIZE))

(* The directory of a process whose program and stack start at a and s.    *)
Mapping(a, size, s) ==
    paging_map_to(paging_map_to(Identity(FALSE), PROGRAM, a, size, TRUE),
                  STACK, s, STACK_SIZE, TRUE)

(* The memory of the kernel and its processes: a free slot's task is not   *)
(* loaded; a loaded process has its directory, a program that is not       *)
(* empty, and blocks that are marked, not the kernel's and its own.        *)
SoundMemory(m) ==
    /\ SoundHeap(m.h)
    /\ m.slots \in [ProcSlots -> Link]
    /\ m.dir \in [Tasks -> Directory]
    /\ m.prog \in [Tasks -> Nat]
    /\ m.size \in [Tasks -> Nat]
    /\ m.stack \in [Tasks -> Nat]
    /\ m.tables \in [Tasks -> SUBSET Nat]
    /\ \A s \in ProcSlots : m.slots[s] = NoTask => m.prog[s + 1] = NULL
    /\ \A t \in Loaded(m) :
          /\ m.size[t] > 0
          /\ m.dir[t] = Mapping(m.prog[t], m.size[t], m.stack[t])
          /\ Room(m, t) \cup m.tables[t] \subseteq (m.h.map \cap Pages) \ Reserved
    /\ \A t, u \in Loaded(m) :
          /\ Room(m, t) \cap m.tables[u] = {}
          /\ t # u => Room(m, t) \cap Room(m, u) = {}

(* The list links the loaded processes in the order of q.                  *)
Scheduled(m, q) == InOrder(m.tl, q) /\ Elements(q) = Loaded(m)

(* The state around the memory.                                            *)
SoundState ==
    /\ k.regs \in [Tasks -> [Regs -> Value]]
    /\ mode \in {"boot", "user", "halt", "crash", "ring0"}
    /\ loads \in 0 .. LOADS
    /\ cpu \in [Regs -> Value]
    /\ cr3 \in Link
    /\ seg \in {"kernel", "user"}
    /\ in_service \subseteq {"master", "slave"}
    /\ out \in Link \X Link
    /\ ctx \in [Tasks -> [Regs -> Value \cup {Unset}]]
    /\ mode = "boot" => current_task = k.tl.head
    /\ mode = "user" => current_task # NoTask /\ cr3 = current_task /\ seg = "user"

(* The inductive invariant of the running kernel's memory and schedule.    *)
Safe == /\ SoundMemory(k)
        /\ \E q : Scheduled(k, q)
        /\ SoundState
        /\ WritesOwnString
        /\ StackLostOnOverlap

(* There are finitely many pages and tasks.                                *)
LEMMA FiniteMachine ==
    /\ IsFiniteSet(Pages) /\ IsFiniteSet(Tasks)
    /\ Reserved \subseteq Pages
    /\ NULL \in Reserved
  <1>1. IsFiniteSet(Pages) /\ IsFiniteSet(Tasks)
    BY FS_Interval, PmmAssumption, ProcessAssumption DEF Pages
  <1>2. Reserved \subseteq Pages /\ NULL \in Reserved
    BY PmmAssumption DEF Pages, Reserved, NULL
  <1> QED BY <1>1, <1>2

(* h is g after the clear blocks of B were taken, and perhaps others.      *)
Fresh(g, h, B) == B \subseteq Pages /\ B \cap g.map = {} /\ B \subseteq h.map

(* Taking clear blocks and counting each keeps the heap sound.             *)
LEMMA SoundTaken ==
    ASSUME NEW g, SoundHeap(g), NEW B \in SUBSET Pages, B \cap g.map = {},
           NEW h \in HeapType, h.map = g.map \cup B,
           h.used = g.used + Cardinality(B), h.free = g.free - Cardinality(B),
           \A i \in Slots : h.big[i].addr \in Pages
    PROVE  SoundHeap(h)
  <1> DEFINE S == Pages \ g.map
             x == Cardinality(S)
             b == Cardinality(B)
  <1>1. IsFiniteSet(S) /\ B \subseteq S /\ IsFiniteSet(B)
    BY FiniteMachine, FS_Subset
  <1>2. Cardinality(S \ B) = x - b /\ IsFiniteSet(S \ B)
    BY <1>1, ClearCount
  <1>3. x \in Nat /\ b \in Nat /\ Cardinality(S \ B) \in Nat
    BY <1>1, <1>2, FS_CardinalityType
  <1>4. Pages \ h.map = S \ B
    OBVIOUS
  <1>5. Cardinality(Pages \ h.map) = x - b
    BY <1>2, <1>4, Zenon
  <1>6. g.used \in Nat /\ g.free \in Nat /\ x <= g.free
    BY DEF SoundHeap
  <1>7. x - b \in Nat
    BY <1>2, <1>3
  <1> HIDE DEF x, b, S
  <1>8. h.used \in Nat /\ h.free \in Nat /\ x - b <= h.free
    BY <1>3, <1>6, <1>7 DEF b
  <1>9. Reserved \subseteq h.map
    BY DEF SoundHeap
  <1> QED BY <1>5, <1>8, <1>9 DEF SoundHeap

(* So does marking some that are not counted.                              *)
LEMMA SoundMarked ==
    ASSUME NEW g, SoundHeap(g), NEW n, NEW h, Marked(g, h, 0, n)
    PROVE  SoundHeap(h)
  <1> DEFINE x == Cardinality(Pages \ g.map)
             y == Cardinality(Pages \ h.map)
  <1>1. Pages \ h.map \subseteq Pages \ g.map /\ IsFiniteSet(Pages \ g.map)
    BY FiniteMachine, FS_Subset DEF Marked
  <1>2. y <= x /\ y \in Nat /\ x \in Nat
    BY <1>1, FS_Subset, FS_CardinalityType
  <1>3. g.free \in Nat /\ x <= g.free /\ h.free = g.free
    BY DEF SoundHeap, Marked
  <1> HIDE DEF x, y
  <1>4. y <= h.free
    BY <1>2, <1>3
  <1> QED BY <1>4 DEF SoundHeap, Marked, y

(* A request gets clear blocks or the null pointer, and nothing that was   *)
(* marked is cleared (kmallac).                                            *)
LEMMA RequestFromSound ==
    ASSUME NEW g, SoundHeap(g), NEW size \in Nat
    PROVE  LET r == kmallac(g, size)
               B == Area(r.addr, BlocksFor(size))
           IN  /\ SoundHeap(r.h)
               /\ g.map \subseteq r.h.map
               /\ r.addr \in Pages
               /\ r.addr # NULL => Fresh(g, r.h, B) /\ r.addr \in B
  <1> DEFINE r == kmallac(g, size)
             n == BlocksFor(size)
             B == Area(r.addr, n)
  <1>1. g \in HeapType /\ n \in Nat \ {0}
    BY BlocksForType DEF SoundHeap
  <1>2. \/ r.addr = NULL /\ (r.h = g \/ Marked(g, r.h, 0, n))
        \/ /\ r.addr \in 1 .. (SYSTEM_BLOCKS - n)
           /\ \A i \in B : i \notin g.map
           /\ Granted(g, r.h, r.addr, n)
    BY <1>1, KmallacEffect
  <1> HIDE DEF r, n
  <1>3. CASE r.addr = NULL /\ (r.h = g \/ Marked(g, r.h, 0, n))
    <2>1. SoundHeap(r.h)
      BY <1>3, SoundMarked
    <2>2. g.map \subseteq r.h.map
      BY <1>3 DEF Marked
    <2> QED BY <1>3, <2>1, <2>2, FiniteMachine DEF r, n
  <1>4. CASE /\ r.addr \in 1 .. (SYSTEM_BLOCKS - n)
             /\ \A i \in B : i \notin g.map
             /\ Granted(g, r.h, r.addr, n)
    <2>1. /\ B \subseteq Pages /\ B \cap g.map = {} /\ r.addr \in B /\ r.addr \in Pages
          /\ r.addr \in Nat
      BY <1>1, <1>4, PmmAssumption DEF Area, Pages
    <2>2. Cardinality(B) = n
      BY <1>1, <2>1, AreaSize
    <2>3. \A i \in Slots : r.h.big[i].addr \in Pages
      <3>1. g.big \in [Slots -> Entry] /\ \A i \in Slots : g.big[i].addr \in Pages
        BY DEF SoundHeap, HeapType
      <3> DEFINE s == search_address(g, NULL)
      <3>2. \/ r.h.big = g.big
            \/ r.h.big = [g.big EXCEPT ![s] = [addr |-> r.addr, blocks |-> n]]
        BY <1>4 DEF Granted
      <3> HIDE DEF s
      <3> QED BY <2>1, <3>1, <3>2
    <2>4. SoundHeap(r.h)
      <3>1. r.h \in HeapType /\ r.h.map = g.map \cup B
            /\ r.h.used = g.used + n /\ r.h.free = g.free - n
        BY <1>4 DEF Granted
      <3> HIDE DEF B
      <3> QED BY <2>1, <2>2, <2>3, <3>1, SoundTaken
    <2>5. Fresh(g, r.h, B) /\ g.map \subseteq r.h.map
      BY <1>4, <2>1 DEF Fresh, Granted
    <2> QED BY <2>1, <2>4, <2>5 DEF r, n
  <1> QED BY <1>2, <1>3, <1>4

(* Clear blocks taken and counted.                                         *)
LEMMA TakenSetSound ==
    ASSUME NEW g, SoundHeap(g), NEW k2, NEW B, TakenSet(g, k2, B)
    PROVE  SoundHeap(k2) /\ g.map \subseteq k2.map /\ B \in SUBSET Nat /\ Fresh(g, k2, B)
  <1>1. B \in SUBSET Pages /\ B \in SUBSET Nat
    BY PmmAssumption DEF TakenSet, Pages
  <1>2. \A i \in Slots : k2.big[i].addr \in Pages
    BY DEF TakenSet, SoundHeap
  <1>3. SoundHeap(k2)
    BY <1>1, <1>2, SoundTaken DEF TakenSet
  <1> QED BY <1>1, <1>3 DEF TakenSet, Fresh

(* Single blocks taken one after another.                                  *)
LEMMA TakeFromSound ==
    ASSUME NEW g, SoundHeap(g), NEW n \in Nat
    PROVE  LET r == TakeBlocks(g, n)
           IN  /\ SoundHeap(r.h)
               /\ g.map \subseteq r.h.map
               /\ r.ok \in BOOLEAN
  <1> DEFINE r == TakeBlocks(g, n)
  <1>1. r.ok \in BOOLEAN /\ TakenSet(g, r.h, Elements(r.got))
    BY TakeBlocksEffect DEF SoundHeap
  <1> HIDE DEF r
  <1>2. SoundHeap(r.h) /\ g.map \subseteq r.h.map
    BY <1>1, TakenSetSound
  <1> QED BY <1>1, <1>2 DEF r

(* A new directory is made of clear blocks.                                *)
LEMMA DirectoryFromSound ==
    ASSUME NEW g, SoundHeap(g)
    PROVE  LET r == paging_new_4gb(g)
           IN  /\ SoundHeap(r.h)
               /\ g.map \subseteq r.h.map
               /\ r.ok \in BOOLEAN
               /\ r.got \in SUBSET Nat
               /\ Fresh(g, r.h, r.got)
  <1> DEFINE r == paging_new_4gb(g)
  <1>1. r.ok \in BOOLEAN /\ TakenSet(g, r.h, r.got)
    BY NewDirectoryEffect DEF SoundHeap
  <1> HIDE DEF r
  <1>2. /\ SoundHeap(r.h) /\ g.map \subseteq r.h.map
        /\ r.got \in SUBSET Nat /\ Fresh(g, r.h, r.got)
    BY <1>1, TakenSetSound
  <1> QED BY <1>1, <1>2 DEF r

(* A single block is refused only when all are marked: the counter is not  *)
(* below the number of the clear ones.                                     *)
LEMMA RefusedOnlyWhenFull ==
    ASSUME NEW g, SoundHeap(g), kmallac(g, 1).addr = NULL
    PROVE  \A b \in RESERVED_BLOCKS .. (SYSTEM_BLOCKS - 1) : b \in g.map
  <1> DEFINE r == kmallac(g, 1)
  <1>1. g \in HeapType /\ NULL \in g.map
    BY FiniteMachine DEF SoundHeap
  <1>2. BlocksFor(1) = 1
    BY KheapAssumption DEF BlocksFor
  <1>3. g.free = 0 \/ NULL \notin g.map \/ 0 .. (SYSTEM_BLOCKS - 1) \subseteq g.map
    BY <1>1, <1>2, KmallacRefusal
  <1>4. CASE g.free = 0
    <2>1. IsFiniteSet(Pages \ g.map)
      BY FiniteMachine, FS_Subset
    <2>2. Cardinality(Pages \ g.map) = 0
      BY <1>4, <2>1, FS_CardinalityType DEF SoundHeap
    <2>3. Pages \ g.map = {}
      BY <2>1, <2>2, FS_EmptySet
    <2> QED BY <2>3, PmmAssumption DEF Pages
  <1>5. CASE 0 .. (SYSTEM_BLOCKS - 1) \subseteq g.map
    BY <1>5, PmmAssumption
  <1> QED BY <1>1, <1>3, <1>4, <1>5

-----------------------------------------------------------------------------
(* A load in progress: a record of the heap, whether it still succeeds,    *)
(* and the pointers.                                                       *)
Pointers == {"process", "data", "stack", "task"}

LoadFields == Pointers \cup {"h", "ok", "tables"}

SoundLoad(w) ==
    /\ DOMAIN w = LoadFields
    /\ SoundHeap(w.h)
    /\ w.ok \in BOOLEAN
    /\ \A p \in Pointers : w[p] \in Pages
    /\ w.tables \in SUBSET Nat

(* v is w a step later: nothing marked was cleared, and nothing failed     *)
(* before if nothing has now.                                              *)
Further(w, v) == w.h.map \subseteq v.h.map /\ (v.ok => w.ok)

(* The fields in which v may differ from w.                                *)
Changed(w, v, S) == \A p \in LoadFields \ S : v[p] = w[p]

(* A load begins with no pointer and the heap as it is.                    *)
LEMMA BeginLoad ==
    ASSUME NEW g, SoundHeap(g)
    PROVE  SoundLoad(Begin(g)) /\ Begin(g).h = g
  BY FiniteMachine DEF Begin, SoundLoad, LoadFields, Pointers

(* A pointer of kzalloc's: an area of clear blocks, unless the load fails. *)
LEMMA ObtainArea ==
    ASSUME NEW w, SoundLoad(w), NEW p \in Pointers, NEW size \in Nat
    PROVE  LET v == Obtain(w, p, size)
               B == Area(v[p], BlocksFor(size))
           IN  /\ SoundLoad(v)
               /\ Further(w, v)
               /\ Changed(w, v, {"h", "ok", p})
               /\ v.ok => v[p] # NULL /\ Fresh(w.h, v.h, B) /\ v[p] \in B
  <1> DEFINE v == Obtain(w, p, size)
             r == kmallac(w.h, size)
             n == BlocksFor(size)
             B == Area(r.addr, n)
  <1>1. CASE ~ w.ok
    <2>1. v = w
      BY <1>1 DEF Obtain
    <2> HIDE DEF v
    <2> QED BY <1>1, <2>1 DEF Further, Changed, v
  <1>2. CASE w.ok
    <2>1. v = [w EXCEPT !.h = r.h, !.ok = r.addr # NULL, ![p] = r.addr]
      BY <1>2 DEF Obtain
    <2>2. /\ SoundHeap(r.h) /\ w.h.map \subseteq r.h.map /\ r.addr \in Pages
          /\ r.addr # NULL => Fresh(w.h, r.h, B) /\ r.addr \in B
      BY RequestFromSound DEF SoundLoad
    <2> HIDE DEF r, n, v
    <2>3. DOMAIN w = LoadFields
      BY DEF SoundLoad
    <2>4. p # "h" /\ p # "ok" /\ p \in LoadFields /\ "h" \in LoadFields /\ "ok" \in LoadFields
      BY DEF Pointers, LoadFields
    <2>5. DOMAIN v = LoadFields
      BY <2>1, <2>3, Zenon
    <2>6. v.h = r.h
      BY <2>1, <2>3, <2>4, Zenon
    <2>7. v.ok = (r.addr # NULL)
      BY <2>1, <2>3, <2>4, Zenon
    <2>8. v[p] = r.addr
      BY <2>1, <2>3, <2>4, Zenon
    <2>9. Changed(w, v, {"h", "ok", p})
      BY <2>1, <2>3, Zenon DEF Changed
    <2>10. v.ok \in BOOLEAN /\ (v.ok => r.addr # NULL)
      BY <2>7, Zenon
    <2>11. \A q \in Pointers : v[q] \in Pages
      BY <2>2, <2>8, <2>9 DEF Changed, Pointers, LoadFields, SoundLoad
    <2>12. v.tables \in SUBSET Nat
      BY <2>4, <2>9 DEF Changed, LoadFields, SoundLoad, Pointers
    <2>13. SoundLoad(v)
      BY <2>2, <2>5, <2>6, <2>10, <2>11, <2>12, Zenon DEF SoundLoad
    <2>14. v.ok => v[p] # NULL /\ Fresh(w.h, v.h, B) /\ v[p] \in B
      BY <2>2, <2>6, <2>8, <2>10
    <2>15. B = Area(v[p], n)
      BY <2>8
    <2>16. Further(w, v)
      BY <1>2, <2>2, <2>6 DEF Further
    <2> QED BY <2>9, <2>13, <2>14, <2>15, <2>16 DEF v, n
  <1> QED BY <1>1, <1>2 DEF SoundLoad

(* Opening a file takes blocks that stay taken, and fails without a file.  *)
LEMMA FopenSound ==
    ASSUME NEW w, SoundLoad(w), NEW f \in Files
    PROVE  LET v == fopen(w, f)
           IN  /\ SoundLoad(v)
               /\ Further(w, v)
               /\ Changed(w, v, {"h", "ok"})
               /\ v.ok => FileSize[f] \in Nat
  <1> DEFINE v == fopen(w, f)
  <1>1. CASE ~ w.ok
    <2>1. v = w
      BY <1>1 DEF fopen
    <2> HIDE DEF v
    <2> QED BY <1>1, <2>1 DEF Further, Changed, v
  <1>2. ASSUME NEW n \in Nat, NEW ok \in BOOLEAN, w.ok,
               v = [w EXCEPT !.h = TakeBlocks(w.h, n).h, !.ok = ok]
        PROVE  /\ SoundLoad(v) /\ Further(w, v) /\ Changed(w, v, {"h", "ok"})
               /\ v.ok = ok
    <2> DEFINE g == TakeBlocks(w.h, n).h
    <2>1. SoundHeap(g) /\ w.h.map \subseteq g.map
      BY TakeFromSound DEF SoundLoad
    <2> HIDE DEF g, v
    <2>2. v = [w EXCEPT !.h = g, !.ok = ok]
      BY <1>2 DEF g
    <2>3. DOMAIN w = LoadFields /\ "h" \in LoadFields /\ "ok" \in LoadFields
      BY DEF SoundLoad, LoadFields
    <2>4. DOMAIN v = LoadFields
      BY <2>2, <2>3, Zenon
    <2>5. v.h = g
      BY <2>2, <2>3, Zenon
    <2>6. v.ok = ok
      BY <2>2, <2>3, Zenon
    <2>7. Changed(w, v, {"h", "ok"})
      BY <2>2, <2>3, Zenon DEF Changed
    <2>8. v.tables = w.tables /\ \A p \in Pointers : v[p] = w[p]
      BY <2>7 DEF Changed, LoadFields, Pointers
    <2>9. \A p \in Pointers : v[p] \in Pages
      BY <2>8 DEF SoundLoad
    <2>10. v.tables \in SUBSET Nat
      BY <2>8, Zenon DEF SoundLoad
    <2>11. SoundLoad(v)
      BY <2>1, <2>4, <2>5, <2>6, <2>9, <2>10, Zenon DEF SoundLoad
    <2>12. Further(w, v)
      BY <1>2, <2>1, <2>5 DEF Further
    <2> QED BY <2>6, <2>7, <2>11, <2>12
  <1>3. CASE w.ok /\ FileSize[f] = Missing
    <2>1. v = [w EXCEPT !.h = TakeBlocks(w.h, FOPEN_MISS_BLOCKS).h, !.ok = FALSE]
      BY <1>3, Zenon DEF fopen
    <2>2. FOPEN_MISS_BLOCKS \in Nat
      BY ProcessAssumption
    <2> HIDE DEF v
    <2>3. /\ SoundLoad(v) /\ Further(w, v) /\ Changed(w, v, {"h", "ok"})
          /\ v.ok = FALSE
      BY <1>2, <1>3, <2>1, <2>2, Zenon
    <2> QED BY <2>3 DEF v
  <1>4. CASE w.ok /\ FileSize[f] # Missing
    <2>1. v = [w EXCEPT !.h = TakeBlocks(w.h, FOPEN_BLOCKS).h, !.ok = TakeBlocks(w.h, FOPEN_BLOCKS).ok]
      BY <1>4, Zenon DEF fopen
    <2>2. FOPEN_BLOCKS \in Nat /\ TakeBlocks(w.h, FOPEN_BLOCKS).ok \in BOOLEAN
      BY ProcessAssumption, TakeFromSound DEF SoundLoad
    <2> HIDE DEF v
    <2>3. SoundLoad(v) /\ Further(w, v) /\ Changed(w, v, {"h", "ok"})
      BY <1>2, <1>4, <2>1, <2>2, Zenon
    <2>4. FileSize[f] \in Nat
      BY <1>4, KernelAssumption
    <2> QED BY <2>3, <2>4 DEF v
  <1> QED BY <1>1, <1>3, <1>4 DEF SoundLoad

(* Reading a file changes no memory, and fails for an empty one.           *)
LEMMA FreadSound ==
    ASSUME NEW w, SoundLoad(w), NEW f \in Files
    PROVE  LET v == fread(w, f)
           IN  /\ SoundLoad(v)
               /\ Further(w, v)
               /\ Changed(w, v, {"ok"})
               /\ v.ok => FileSize[f] > 0
  <1> DEFINE v == fread(w, f)
             ok == w.ok /\ FileSize[f] > 0 /\ f \notin Unreadable
  <1>1. DOMAIN w = LoadFields /\ "ok" \in LoadFields
    BY DEF SoundLoad, LoadFields
  <1>2. v = [w EXCEPT !.ok = ok]
    BY <1>1, Zenon DEF fread
  <1>3. ok \in BOOLEAN /\ (ok => w.ok) /\ (ok => FileSize[f] > 0)
    BY DEF SoundLoad
  <1> HIDE DEF ok, v
  <1>4. DOMAIN v = LoadFields /\ Changed(w, v, {"ok"})
    BY <1>1, <1>2, Zenon DEF Changed
  <1>5. v.ok = ok
    BY <1>1, <1>2, Zenon
  <1>6. v.h = w.h /\ v.tables = w.tables /\ \A p \in Pointers : v[p] = w[p]
    BY <1>4 DEF Changed, LoadFields, Pointers
  <1>7. SoundLoad(v)
    BY <1>3, <1>4, <1>5, <1>6, Zenon DEF SoundLoad
  <1>8. Further(w, v)
    BY <1>3, <1>5, <1>6 DEF Further
  <1> QED BY <1>3, <1>4, <1>5, <1>7, <1>8 DEF v

(* The directory of a new task: clear blocks, unless the load fails.       *)
LEMMA DirectorySound ==
    ASSUME NEW w, SoundLoad(w)
    PROVE  LET v == ObtainDirectory(w)
           IN  /\ SoundLoad(v)
               /\ Further(w, v)
               /\ Changed(w, v, {"h", "ok", "tables"})
               /\ v.ok => Fresh(w.h, v.h, v.tables)
  <1> DEFINE v == ObtainDirectory(w)
             r == paging_new_4gb(w.h)
  <1>1. CASE ~ w.ok
    <2>1. v = w
      BY <1>1 DEF ObtainDirectory
    <2> HIDE DEF v
    <2> QED BY <1>1, <2>1 DEF Further, Changed, v
  <1>2. CASE w.ok
    <2>1. v = [w EXCEPT !.h = r.h, !.ok = r.ok, !.tables = r.got]
      BY <1>2, Zenon DEF ObtainDirectory
    <2>2. /\ SoundHeap(r.h) /\ w.h.map \subseteq r.h.map /\ r.ok \in BOOLEAN
          /\ r.got \in SUBSET Nat /\ Fresh(w.h, r.h, r.got)
      <3>1. TABLES + 2 \in Nat
        BY PagingAssumption
      <3> QED BY <3>1, DirectoryFromSound DEF SoundLoad
    <2> HIDE DEF r, v
    <2>3. DOMAIN w = LoadFields /\ {"h", "ok", "tables"} \subseteq LoadFields
      BY DEF SoundLoad, LoadFields
    <2>4. DOMAIN v = LoadFields
      BY <2>1, <2>3, Zenon
    <2>5. v.h = r.h
      BY <2>1, <2>3, Zenon
    <2>6. v.ok = r.ok
      BY <2>1, <2>3, Zenon
    <2>7. v.tables = r.got
      BY <2>1, <2>3, Zenon
    <2>8. Changed(w, v, {"h", "ok", "tables"})
      BY <2>1, <2>3, Zenon DEF Changed
    <2>9. \A p \in Pointers : v[p] \in Pages
      BY <2>8 DEF Changed, LoadFields, Pointers, SoundLoad
    <2>10. SoundLoad(v)
      BY <2>2, <2>4, <2>5, <2>6, <2>7, <2>9, Zenon DEF SoundLoad
    <2>11. Further(w, v) /\ Fresh(w.h, v.h, v.tables)
      BY <1>2, <2>2, <2>5, <2>7 DEF Further
    <2> QED BY <2>8, <2>10, <2>11 DEF v
  <1> QED BY <1>1, <1>2 DEF SoundLoad

(* paging_align_address finds the page boundary at the end of size bytes,  *)
(* or the first one behind it.                                             *)
LEMMA PagesCover ==
    ASSUME NEW size \in Nat
    PROVE  AlignedPages(size) \in Nat /\ Covers(AlignedPages(size), size)
  <1> DEFINE a == size + PAGE - 1
             n == a \div PAGE
  <1>1. PAGE \in Nat /\ PAGE > 0
    BY KheapAssumption
  <1>2. a \in Nat /\ n \in Nat /\ PAGE * n <= a /\ a < PAGE * (n + 1)
    BY <1>1
  <1>3. PAGE * (n + 1) = PAGE * n + PAGE /\ PAGE * n = n * PAGE /\ n * PAGE \in Nat
    BY <1>1, <1>2
  <1> HIDE DEF n
  <1>4. n * PAGE \in size .. (size + PAGE - 1)
    BY <1>1, <1>2, <1>3
  <1> QED BY <1>2, <1>4 DEF AlignedPages, Covers, n

(* More than d pages are taken exactly by more bytes than d pages hold.    *)
LEMMA PagesBeyond ==
    ASSUME NEW size \in Nat, NEW d \in Nat
    PROVE  AlignedPages(size) > d <=> size > d * PAGE
  <1> DEFINE n == AlignedPages(size)
  <1>1. PAGE \in Nat /\ PAGE > 0
    BY KheapAssumption
  <1>2. n \in Nat /\ n * PAGE \in size .. (size + PAGE - 1)
    BY PagesCover DEF Covers
  <1> HIDE DEF n
  <1>3. n * PAGE \in Nat /\ d * PAGE \in Nat /\ (d + 1) * PAGE = d * PAGE + PAGE
    BY <1>1, <1>2
  <1>4. n > d => size > d * PAGE
    <2> SUFFICES ASSUME n >= d + 1
                 PROVE  size > d * PAGE
      BY <1>2
    <2>1. n * PAGE >= (d + 1) * PAGE
      BY <1>1, <1>2
    <2> QED BY <1>1, <1>2, <1>3, <2>1
  <1>5. n <= d => size <= d * PAGE
    <2> SUFFICES ASSUME n <= d
                 PROVE  size <= d * PAGE
      OBVIOUS
    <2>1. n * PAGE <= d * PAGE
      BY <1>1, <1>2
    <2> QED BY <1>2, <1>3, <2>1
  <1> QED BY <1>2, <1>3, <1>4, <1>5 DEF n

(* paging_align_address finds the boundary behind the blocks that kmallac  *)
(* takes.                                                                  *)
LEMMA PagesAreBlocks ==
    ASSUME NEW size \in Nat, size > 0
    PROVE  AlignedPages(size) = BlocksFor(size) /\ BlocksFor(size) \in Nat \ {0}
  <1> DEFINE q == size \div PAGE
             r == size % PAGE
             c == IF r = 0 THEN q ELSE q + 1
  <1>1. /\ PAGE \in Nat /\ PAGE > 0 /\ q \in Nat /\ r \in 0 .. (PAGE - 1)
        /\ size = PAGE * q + r
    BY KheapAssumption
  <1>2. c \in Nat /\ PAGE * c <= size + PAGE - 1 /\ size + PAGE - 1 < PAGE * (c + 1)
    <2>1. CASE r = 0
      <3>1. PAGE * (q + 1) = PAGE * q + PAGE
        BY <1>1
      <3> QED BY <1>1, <2>1, <3>1
    <2>2. CASE r # 0
      <3>1. PAGE * (q + 1) = PAGE * q + PAGE /\ PAGE * (q + 1 + 1) = PAGE * q + PAGE + PAGE
        BY <1>1
      <3>2. PAGE * q \in Nat
        BY <1>1
      <3>3. PAGE * (q + 1) <= size + PAGE - 1
        BY <1>1, <2>2, <3>1, <3>2
      <3>4. size + PAGE - 1 < PAGE * (q + 1 + 1)
        BY <1>1, <2>2, <3>1, <3>2
      <3> QED BY <1>1, <2>2, <3>3, <3>4
    <2> QED BY <2>1, <2>2
  <1> HIDE DEF q, r, c
  <1>3. (size + PAGE - 1) \div PAGE = c
    <2> DEFINE a == size + PAGE - 1
               d == a \div PAGE
    <2>1. a \in Nat /\ d \in Nat /\ PAGE * d <= a /\ a < PAGE * (d + 1)
      BY <1>1
    <2>2. PAGE * c <= a /\ a < PAGE * (c + 1) /\ c \in Nat
      BY <1>2
    <2> HIDE DEF a, d
    <2>3. ASSUME d < c
          PROVE  FALSE
      <3>1. d + 1 <= c
        BY <2>1, <2>2, <2>3
      <3>2. PAGE * (d + 1) <= PAGE * c
        BY <1>1, <2>1, <2>2, <3>1
      <3> QED BY <1>1, <2>1, <2>2, <3>2
    <2>4. ASSUME c < d
          PROVE  FALSE
      <3>1. c + 1 <= d
        BY <2>1, <2>2, <2>4
      <3>2. PAGE * (c + 1) <= PAGE * d
        BY <1>1, <2>1, <2>2, <3>1
      <3> QED BY <1>1, <2>1, <2>2, <3>2
    <2>5. c = d
      BY <2>1, <2>2, <2>3, <2>4
    <2> QED BY <2>5 DEF d, a
  <1>4. BlocksFor(size) = c
    <2>1. CASE size > PAGE
      BY <1>1, <2>1 DEF BlocksFor, q, r, c
    <2>2. CASE size = PAGE
      <3>1. q = 1 /\ r = 0
        BY <1>1, <2>2 DEF q, r
      <3> QED BY <2>2, <3>1 DEF BlocksFor, c
    <2>3. CASE size < PAGE
      <3>1. q = 0 /\ r = size
        BY <1>1, <2>3 DEF q, r
      <3>2. c = 1
        BY <3>1 DEF c
      <3>3. BlocksFor(size) = 1
        BY <1>1, <2>3 DEF BlocksFor
      <3> QED BY <3>2, <3>3
    <2> QED BY <1>1, <2>1, <2>2, <2>3
  <1> QED BY <1>3, <1>4, BlocksForType DEF AlignedPages

(* What a load takes: when it succeeds its areas were all clear, and those *)
(* of its program and stack are none of its structures and tables.         *)
LEMMA LoadedAreas ==
    ASSUME NEW g, SoundHeap(g), NEW f \in Files
    PROVE  LET w == ObtainDirectory(
                      Obtain(
                        Obtain(
                          process_load_binary(Obtain(Begin(g), "process", PROCESS_SIZE), f),
                          "stack", STACK_SIZE),
                        "task", 1))
               program   == Area(w.data, AlignedPages(FileSize[f]))
               stack     == Area(w.stack, AlignedPages(STACK_SIZE))
               structure == w.tables \cup {w.task} \cup Area(w.process, BlocksFor(PROCESS_SIZE))
           IN  /\ SoundHeap(w.h)
               /\ g.map \subseteq w.h.map
               /\ w.ok =>
                     /\ FileSize[f] \in Nat \ {0}
                     /\ w.data \in Pages \ {NULL} /\ w.stack \in Pages
                     /\ program \cup stack \cup structure \subseteq (w.h.map \cap Pages) \ g.map
                     /\ (program \cup stack) \cap structure = {}
  <1> DEFINE w0 == Begin(g)
             w1 == Obtain(w0, "process", PROCESS_SIZE)
             w2 == fopen(w1, f)
             w3 == Obtain(w2, "data", FileSize[f])
             w4 == fread(w3, f)
             w5 == process_load_binary(w1, f)
             w6 == Obtain(w5, "stack", STACK_SIZE)
             w7 == Obtain(w6, "task", 1)
             w8 == ObtainDirectory(w7)
             A1 == Area(w1["process"], BlocksFor(PROCESS_SIZE))
             A3 == Area(w3["data"], BlocksFor(FileSize[f]))
             A6 == Area(w6["stack"], BlocksFor(STACK_SIZE))
             A7 == Area(w7["task"], BlocksFor(1))
  <1>1. PROCESS_SIZE \in Nat /\ STACK_SIZE \in Nat /\ STACK_SIZE > 0 /\ 1 \in Nat
    BY ProcessAssumption
  <1>2. {"process", "data", "stack", "task"} \subseteq Pointers
    BY DEF Pointers
  <1>3. SoundLoad(w0) /\ w0.h = g
    BY BeginLoad
  <1> HIDE DEF w0
  <1>4. /\ SoundLoad(w1) /\ Further(w0, w1)
        /\ w1.ok => Fresh(w0.h, w1.h, A1)
    BY <1>1, <1>2, <1>3, ObtainArea
  <1> HIDE DEF w1
  <1>5. /\ SoundLoad(w2) /\ Further(w1, w2) /\ Changed(w1, w2, {"h", "ok"})
        /\ w2.ok => FileSize[f] \in Nat
    BY <1>4, FopenSound
  <1>6. w5 = IF w2.ok THEN w4 ELSE w2
    BY DEF process_load_binary
  <1> HIDE DEF w2
  <1>7. ASSUME w2.ok
        PROVE  /\ SoundLoad(w3) /\ Further(w2, w3) /\ Changed(w2, w3, {"h", "ok", "data"})
               /\ w3.ok => w3["data"] # NULL /\ Fresh(w2.h, w3.h, A3)
    BY <1>2, <1>5, <1>7, ObtainArea
  <1> HIDE DEF w3
  <1>8. ASSUME w2.ok
        PROVE  /\ SoundLoad(w4) /\ Further(w3, w4) /\ Changed(w3, w4, {"ok"})
               /\ w4.ok => FileSize[f] > 0
    BY <1>7, <1>8, FreadSound
  <1> HIDE DEF w4, w5
  <1>9. SoundLoad(w5) /\ Further(w2, w5)
    <2>1. CASE w2.ok
      <3>1. w5 = w4
        BY <1>6, <2>1
      <3>2. Further(w2, w4)
        BY <1>7, <1>8, <2>1 DEF Further
      <3> QED BY <1>8, <2>1, <3>1, <3>2
    <2>2. CASE ~ w2.ok
      <3>1. w5 = w2
        BY <1>6, <2>2
      <3> QED BY <1>5, <3>1 DEF Further
    <2> QED BY <2>1, <2>2
  <1>10. /\ SoundLoad(w6) /\ Further(w5, w6) /\ Changed(w5, w6, {"h", "ok", "stack"})
         /\ w6.ok => Fresh(w5.h, w6.h, A6)
    BY <1>1, <1>2, <1>9, ObtainArea
  <1> HIDE DEF w6
  <1>11. /\ SoundLoad(w7) /\ Further(w6, w7) /\ Changed(w6, w7, {"h", "ok", "task"})
         /\ w7.ok => Fresh(w6.h, w7.h, A7) /\ w7["task"] \in A7
    BY <1>1, <1>2, <1>10, ObtainArea
  <1> HIDE DEF w7
  <1>12. /\ SoundLoad(w8) /\ Further(w7, w8) /\ Changed(w7, w8, {"h", "ok", "tables"})
         /\ w8.ok => Fresh(w7.h, w8.h, w8.tables)
    BY <1>11, DirectorySound
  <1> HIDE DEF w8
  <1>13. SoundHeap(w8.h) /\ g.map \subseteq w8.h.map
    BY <1>3, <1>4, <1>5, <1>9, <1>10, <1>11, <1>12 DEF Further, SoundLoad
  <1>14. ASSUME w8.ok
         PROVE  /\ FileSize[f] \in Nat \ {0}
                /\ w8.data \in Pages \ {NULL} /\ w8.stack \in Pages
                /\ LET program   == Area(w8.data, AlignedPages(FileSize[f]))
                       stack     == Area(w8.stack, AlignedPages(STACK_SIZE))
                       structure == w8.tables \cup {w8.task} \cup Area(w8.process, BlocksFor(PROCESS_SIZE))
                   IN  /\ program \cup stack \cup structure \subseteq (w8.h.map \cap Pages) \ g.map
                       /\ (program \cup stack) \cap structure = {}
    <2>1. w7.ok /\ w6.ok /\ w5.ok /\ w2.ok /\ w1.ok
      BY <1>5, <1>9, <1>10, <1>11, <1>12, <1>14 DEF Further
    <2>2. w5 = w4 /\ w4.ok /\ w3.ok
      BY <1>6, <1>8, <2>1 DEF Further
    <2>3. FileSize[f] \in Nat \ {0}
      BY <1>5, <1>8, <2>1, <2>2
    <2>4. AlignedPages(FileSize[f]) = BlocksFor(FileSize[f])
          /\ AlignedPages(STACK_SIZE) = BlocksFor(STACK_SIZE)
      BY <1>1, <2>3, PagesAreBlocks
    <2>5. w8.process = w1["process"]
      BY <1>5, <1>7, <1>8, <1>10, <1>11, <1>12, <2>1, <2>2 DEF Changed, LoadFields, Pointers
    <2>6. w8.data = w3["data"]
      BY <1>8, <1>10, <1>11, <1>12, <2>1, <2>2 DEF Changed, LoadFields, Pointers
    <2>7. w8.stack = w6["stack"]
      BY <1>11, <1>12 DEF Changed, LoadFields, Pointers
    <2>8. w8.task = w7["task"]
      BY <1>12 DEF Changed, LoadFields, Pointers
    <2>9. /\ Fresh(g, w1.h, A1) /\ Fresh(w2.h, w3.h, A3) /\ Fresh(w5.h, w6.h, A6)
          /\ Fresh(w6.h, w7.h, A7) /\ Fresh(w7.h, w8.h, w8.tables)
      BY <1>3, <1>4, <1>7, <1>10, <1>11, <1>12, <1>14, <2>1, <2>2
    <2>10. /\ g.map \subseteq w1.h.map /\ w1.h.map \subseteq w2.h.map
           /\ w2.h.map \subseteq w3.h.map /\ w3.h.map \subseteq w5.h.map
           /\ w5.h.map \subseteq w6.h.map /\ w6.h.map \subseteq w7.h.map
           /\ w7.h.map \subseteq w8.h.map
      BY <1>3, <1>4, <1>5, <1>7, <1>8, <1>10, <1>11, <1>12, <2>1, <2>2 DEF Further
    <2>11. Area(w8.data, AlignedPages(FileSize[f])) = A3
      BY <2>4, <2>6
    <2>12. Area(w8.stack, AlignedPages(STACK_SIZE)) = A6
      BY <2>4, <2>7
    <2>13. Area(w8.process, BlocksFor(PROCESS_SIZE)) = A1
      BY <2>5
    <2>14. w8.task \in A7
      BY <1>11, <2>1, <2>8
    <2>15. w8.data \in Pages \ {NULL} /\ w8.stack \in Pages
      BY <1>2, <1>7, <1>12, <2>1, <2>2, <2>6 DEF SoundLoad
    <2> HIDE DEF A1, A3, A6, A7
    <2>16. LET structure == w8.tables \cup {w8.task} \cup A1
           IN  /\ A3 \cup A6 \cup structure \subseteq (w8.h.map \cap Pages) \ g.map
               /\ (A3 \cup A6) \cap structure = {}
      BY <2>9, <2>10, <2>14 DEF Fresh
    <2> QED BY <2>3, <2>11, <2>12, <2>13, <2>15, <2>16
  <1> QED BY <1>13, <1>14 DEF w0, w1, w5, w6, w7, w8

-----------------------------------------------------------------------------
(* The pages of a program and of its stack do not overlap: the program's   *)
(* are mapped to its own blocks, the stack's to the stack's, the others to *)
(* themselves and not writable (process_map_memory).                       *)
LEMMA MappingEntries ==
    ASSUME NEW a \in Nat, NEW size \in Nat \ {0}, NEW s \in Nat,
           Area(a, AlignedPages(size)) \cup Area(s, AlignedPages(STACK_SIZE)) \subseteq Pages \ Reserved
    PROVE  LET d == Mapping(a, size, s)
           IN  /\ d \in Directory
               /\ d[PROGRAM].frame = a
               /\ d[KSTACK].frame = KSTACK <=> size <= (KSTACK - PROGRAM) * PAGE
               /\ {d[p].frame : p \in {p \in Pages : d[p].write}}
                     = Area(a, AlignedPages(size)) \cup Area(s, AlignedPages(STACK_SIZE))
  <1> DEFINE n == AlignedPages(size)
             m == AlignedPages(STACK_SIZE)
             d == Mapping(a, size, s)
  <1>1. n \in Nat \ {0} /\ m \in Nat \ {0} /\ STACK_SIZE \in Nat
    BY PagesAreBlocks, ProcessAssumption
  <1>2. /\ {PROGRAM, STACK, KSTACK} \subseteq Nat
        /\ PROGRAM < RESERVED_BLOCKS /\ STACK < RESERVED_BLOCKS /\ KSTACK < RESERVED_BLOCKS
        /\ STACK + m <= PROGRAM /\ PROGRAM <= KSTACK
        /\ RESERVED_BLOCKS \in Nat /\ SYSTEM_BLOCKS \in Nat /\ RESERVED_BLOCKS <= SYSTEM_BLOCKS
    BY LayoutAssumption, PmmAssumption DEF Reserved
  <1>3. d = [p \in Pages |->
               IF p \in Area(STACK, m) THEN [frame |-> s + (p - STACK), write |-> TRUE]
               ELSE IF p \in Area(PROGRAM, n) THEN [frame |-> a + (p - PROGRAM), write |-> TRUE]
               ELSE [frame |-> p, write |-> FALSE]]
    BY DEF Mapping, paging_map_to, paging_map_range, Identity
  <1> HIDE DEF n, m, d
  <1>4. Area(a, n) \cup Area(s, m) \subseteq RESERVED_BLOCKS .. (SYSTEM_BLOCKS - 1)
    BY <1>2 DEF Pages, Reserved, n, m
  <1>5. a >= RESERVED_BLOCKS /\ a + n <= SYSTEM_BLOCKS /\ s >= RESERVED_BLOCKS /\ s + m <= SYSTEM_BLOCKS
    <2>1. a \in Area(a, n) /\ a + n - 1 \in Area(a, n) /\ s \in Area(s, m) /\ s + m - 1 \in Area(s, m)
      BY <1>1 DEF Area
    <2>2. {a, a + n - 1, s, s + m - 1} \subseteq RESERVED_BLOCKS .. (SYSTEM_BLOCKS - 1)
      BY <1>4, <2>1
    <2> QED BY <1>1, <1>2, <2>2
  <1>6. \A p \in Area(STACK, m) : p \in Pages /\ p - STACK \in Nat /\ s + (p - STACK) \in Area(s, m)
    BY <1>1, <1>2 DEF Area, Pages
  <1>7. \A p \in Area(PROGRAM, n) : /\ p \in Pages /\ p - PROGRAM \in Nat
                                    /\ a + (p - PROGRAM) \in Area(a, n)
                                    /\ p \notin Area(STACK, m)
    BY <1>1, <1>2, <1>5 DEF Area, Pages
  <1>8. ASSUME NEW b \in Area(s, m)
        PROVE  \E p \in Area(STACK, m) : s + (p - STACK) = b
    <2>1. b \in Int /\ STACK + (b - s) \in Area(STACK, m)
      BY <1>1, <1>2 DEF Area
    <2>2. s + ((STACK + (b - s)) - STACK) = b
      BY <1>2, <2>1
    <2> QED BY <2>1, <2>2
  <1>9. ASSUME NEW b \in Area(a, n)
        PROVE  \E p \in Area(PROGRAM, n) : a + (p - PROGRAM) = b
    <2>1. b \in Int /\ PROGRAM + (b - a) \in Area(PROGRAM, n)
      BY <1>1, <1>2 DEF Area
    <2>2. a + ((PROGRAM + (b - a)) - PROGRAM) = b
      BY <1>2, <2>1
    <2> QED BY <2>1, <2>2
  <1>10. Area(a, n) \cup Area(s, m) \subseteq Pages
    BY DEF n, m
  <1>11. /\ \A p \in Area(STACK, m) : d[p].frame = s + (p - STACK) /\ d[p].write = TRUE
         /\ \A p \in Area(PROGRAM, n) : d[p].frame = a + (p - PROGRAM) /\ d[p].write = TRUE
         /\ \A p \in Pages : p \notin Area(STACK, m) /\ p \notin Area(PROGRAM, n) =>
                               d[p].frame = p /\ d[p].write = FALSE
    BY <1>3, <1>6, <1>7
  <1>12. d \in Directory
    <2> SUFFICES ASSUME NEW p \in Pages
                 PROVE  d[p] \in [frame : Pages, write : BOOLEAN]
      BY <1>3 DEF Directory
    <2>1. CASE p \in Area(STACK, m)
      BY <1>3, <1>6, <1>10, <2>1
    <2>2. CASE p \notin Area(STACK, m) /\ p \in Area(PROGRAM, n)
      BY <1>3, <1>7, <1>10, <2>2
    <2>3. CASE p \notin Area(STACK, m) /\ p \notin Area(PROGRAM, n)
      BY <1>3, <2>3
    <2> QED BY <2>1, <2>2, <2>3
  <1>13. d[PROGRAM].frame = a
    <2>1. PROGRAM \in Area(PROGRAM, n) /\ a + (PROGRAM - PROGRAM) = a
      BY <1>1, <1>2 DEF Area
    <2> QED BY <1>11, <2>1
  <1>14. d[KSTACK].frame = KSTACK <=> size <= (KSTACK - PROGRAM) * PAGE
    <2>1. KSTACK \in Pages /\ KSTACK \notin Area(STACK, m) /\ KSTACK - PROGRAM \in Nat
      BY <1>1, <1>2 DEF Area, Pages
    <2>2. KSTACK \in Area(PROGRAM, n) <=> n > KSTACK - PROGRAM
      BY <1>1, <1>2 DEF Area
    <2>3. a + (KSTACK - PROGRAM) # KSTACK
      BY <1>2, <1>5
    <2>4. d[KSTACK].frame = KSTACK <=> ~ (n > KSTACK - PROGRAM)
      BY <1>11, <2>1, <2>2, <2>3
    <2>5. n > KSTACK - PROGRAM <=> size > (KSTACK - PROGRAM) * PAGE
      BY <2>1, PagesBeyond DEF n
    <2>6. (KSTACK - PROGRAM) * PAGE \in Nat
      BY <2>1, KheapAssumption
    <2> QED BY <2>4, <2>5, <2>6
  <1>15. {d[p].frame : p \in {p \in Pages : d[p].write}} = Area(a, n) \cup Area(s, m)
    <2> DEFINE W == {p \in Pages : d[p].write}
    <2>1. W = Area(STACK, m) \cup Area(PROGRAM, n)
      BY <1>6, <1>7, <1>11
    <2>2. /\ \A p \in Area(STACK, m) : d[p].frame = s + (p - STACK)
          /\ \A p \in Area(PROGRAM, n) : d[p].frame = a + (p - PROGRAM)
      BY <1>11
    <2> HIDE DEF W
    <2>3. \A p \in W : d[p].frame \in Area(a, n) \cup Area(s, m)
      BY <1>6, <1>7, <2>1, <2>2
    <2>4. \A b \in Area(s, m) : \E p \in W : d[p].frame = b
      BY <1>8, <2>1, <2>2
    <2>5. \A b \in Area(a, n) : \E p \in W : d[p].frame = b
      BY <1>9, <2>1, <2>2
    <2>6. {d[p].frame : p \in W} = Area(a, n) \cup Area(s, m)
      BY <2>3, <2>4, <2>5
    <2> QED BY <2>6 DEF W
  <1> QED BY <1>12, <1>13, <1>14, <1>15 DEF n, m, d

(* The search finds a slot that is free.                                   *)
LEMMA FreeSlot ==
    ASSUME NEW m, process_get_free_slot(m) >= 0
    PROVE  LET s == process_get_free_slot(m)
           IN  s \in ProcSlots /\ m.slots[s] = NoTask /\ s + 1 \in Tasks
  <1> DEFINE first == {s \in ProcSlots : /\ m.slots[s] = NoTask
                                         /\ \A r \in 0 .. (s - 1) : m.slots[r] # NoTask}
  <1>1. process_get_free_slot(m) = IF first = {} THEN -1 ELSE CHOOSE s \in first : TRUE
    BY DEF process_get_free_slot
  <1> HIDE DEF first
  <1>2. first # {}
    BY <1>1
  <1>3. process_get_free_slot(m) \in first
    BY <1>1, <1>2
  <1>4. process_get_free_slot(m) \in ProcSlots /\ m.slots[process_get_free_slot(m)] = NoTask
    BY <1>3 DEF first
  <1> QED BY <1>4, ProcessAssumption DEF ProcSlots

(* A step that clears no block and leaves the processes alone.             *)
LEMMA SoundKept ==
    ASSUME NEW m, SoundMemory(m), NEW n, SoundHeap(n.h), m.h.map \subseteq n.h.map,
           n.slots = m.slots, n.dir = m.dir, n.prog = m.prog, n.size = m.size,
           n.stack = m.stack, n.tables = m.tables
    PROVE  /\ SoundMemory(n)
           /\ Loaded(n) = Loaded(m)
           /\ \A q : Scheduled(m, q) /\ n.tl = m.tl => Scheduled(n, q)
  <1>1. Loaded(n) = Loaded(m)
    BY DEF Loaded
  <1>2. \A t : Room(n, t) = Room(m, t)
    BY DEF Room
  <1>3. SoundMemory(n)
    BY <1>1, <1>2 DEF SoundMemory
  <1> QED BY <1>1, <1>3 DEF Scheduled

(* n is m with one more process, that of the task t in a slot: a program   *)
(* of size bytes at a, a stack at s, structures and tables in T, all in    *)
(* blocks that were clear.                                                 *)
Adds(m, n, slot, t, a, size, s, T) ==
    /\ m.h.map \subseteq n.h.map
    /\ LET R == Area(a, AlignedPages(size)) \cup Area(s, AlignedPages(STACK_SIZE))
       IN  /\ R \cup T \subseteq (n.h.map \cap Pages) \ m.h.map
           /\ R \cap T = {}
    /\ n.slots  = [m.slots EXCEPT ![slot] = t]
    /\ n.dir    = [m.dir EXCEPT ![t] = Mapping(a, size, s)]
    /\ n.prog   = [m.prog EXCEPT ![t] = a]
    /\ n.size   = [m.size EXCEPT ![t] = size]
    /\ n.stack  = [m.stack EXCEPT ![t] = s]
    /\ n.tables = [m.tables EXCEPT ![t] = T]

(* The program's and the stack's areas are what the new process may write, *)
(* and no other process has a block of them, nor it one of theirs          *)
(* (process_load_for_slot).                                                *)
LEMMA SoundLoaded ==
    ASSUME NEW m, SoundMemory(m), NEW slot \in ProcSlots, NEW t \in Tasks, t = slot + 1,
           m.slots[slot] = NoTask,
           NEW size \in Nat \ {0}, NEW a \in Pages \ {NULL}, NEW s \in Pages, NEW T,
           NEW n, SoundHeap(n.h), Adds(m, n, slot, t, a, size, s, T)
    PROVE  /\ SoundMemory(n)
           /\ t \notin Loaded(m)
           /\ Loaded(n) = Loaded(m) \cup {t}
  <1> DEFINE R == Area(a, AlignedPages(size)) \cup Area(s, AlignedPages(STACK_SIZE))
  <1>1. /\ m.slots \in [ProcSlots -> Link] /\ m.dir \in [Tasks -> Directory]
        /\ m.prog \in [Tasks -> Nat] /\ m.size \in [Tasks -> Nat] /\ m.stack \in [Tasks -> Nat]
        /\ m.tables \in [Tasks -> SUBSET Nat]
        /\ \A r \in ProcSlots : m.slots[r] = NoTask => m.prog[r + 1] = NULL
    BY DEF SoundMemory
  <1>2. t \in Tasks /\ t # NoTask /\ t \in Link /\ \A r \in ProcSlots : r + 1 = t => r = slot
    BY ProcessAssumption DEF NoTask, Link, ProcSlots
  <1>3. a \in Nat /\ s \in Nat /\ a # NULL
    BY PmmAssumption DEF Pages
  <1>4. /\ R \cup T \subseteq (n.h.map \cap Pages) \ m.h.map /\ R \cap T = {}
        /\ T \in SUBSET Nat /\ m.h.map \subseteq n.h.map
    BY PmmAssumption DEF Adds, Pages
  <1>5. Reserved \subseteq m.h.map
    BY DEF SoundMemory, SoundHeap
  <1>6. Mapping(a, size, s) \in Directory
    <2>1. R \subseteq Pages \ Reserved
      BY <1>4, <1>5
    <2> QED BY <1>3, <2>1, MappingEntries
  <1>7. /\ n.slots \in [ProcSlots -> Link] /\ n.dir \in [Tasks -> Directory]
        /\ n.prog \in [Tasks -> Nat] /\ n.size \in [Tasks -> Nat] /\ n.stack \in [Tasks -> Nat]
        /\ n.tables \in [Tasks -> SUBSET Nat]
    BY <1>1, <1>2, <1>3, <1>4, <1>6 DEF Adds
  <1>8. /\ n.dir[t] = Mapping(a, size, s) /\ n.prog[t] = a /\ n.size[t] = size
        /\ n.stack[t] = s /\ n.tables[t] = T
    BY <1>1, <1>2 DEF Adds
  <1>9. \A u \in Tasks \ {t} : /\ n.dir[u] = m.dir[u] /\ n.prog[u] = m.prog[u] /\ n.size[u] = m.size[u]
                               /\ n.stack[u] = m.stack[u] /\ n.tables[u] = m.tables[u]
    BY <1>1, <1>2 DEF Adds
  <1>10. t \notin Loaded(m)
    BY <1>1 DEF Loaded
  <1>11. Loaded(n) = Loaded(m) \cup {t}
    BY <1>2, <1>3, <1>8, <1>9, <1>10 DEF Loaded
  <1>12. Room(n, t) = R
    BY <1>8 DEF Room
  <1> HIDE DEF R
  <1>13. \A u \in Loaded(m) : /\ u \in Tasks \ {t} /\ Room(n, u) = Room(m, u)
                              /\ Room(m, u) \cup m.tables[u] \subseteq (m.h.map \cap Pages) \ Reserved
    BY <1>9, <1>10 DEF Loaded, Room, SoundMemory
  <1>14. \A r \in ProcSlots : n.slots[r] = NoTask => n.prog[r + 1] = NULL
    <2> SUFFICES ASSUME NEW r \in ProcSlots, n.slots[r] = NoTask
                 PROVE  n.prog[r + 1] = NULL
      OBVIOUS
    <2>1. r # slot
      BY <1>1, <1>2 DEF Adds
    <2>2. r + 1 # t /\ r + 1 \in Tasks
      BY <1>2, <2>1, ProcessAssumption DEF ProcSlots
    <2>3. m.slots[r] = NoTask
      BY <1>1, <2>1 DEF Adds
    <2> QED BY <1>1, <1>9, <2>2, <2>3
  <1>15. ASSUME NEW u \in Loaded(n)
         PROVE  /\ n.size[u] > 0
                /\ n.dir[u] = Mapping(n.prog[u], n.size[u], n.stack[u])
                /\ Room(n, u) \cup n.tables[u] \subseteq (n.h.map \cap Pages) \ Reserved
    <2>1. CASE u = t
      BY <1>4, <1>5, <1>8, <1>12, <2>1
    <2>2. CASE u \in Loaded(m)
      <3>1. m.size[u] > 0 /\ m.dir[u] = Mapping(m.prog[u], m.size[u], m.stack[u])
        BY <2>2 DEF SoundMemory
      <3> QED BY <1>4, <1>9, <1>13, <2>2, <3>1
    <2> QED BY <1>11, <2>1, <2>2
  <1>16. ASSUME NEW u \in Loaded(n), NEW v \in Loaded(n)
         PROVE  /\ Room(n, u) \cap n.tables[v] = {}
                /\ u # v => Room(n, u) \cap Room(n, v) = {}
    <2>1. CASE u \in Loaded(m) /\ v \in Loaded(m)
      <3>1. /\ Room(m, u) \cap m.tables[v] = {}
            /\ u # v => Room(m, u) \cap Room(m, v) = {}
        BY <2>1 DEF SoundMemory
      <3> QED BY <1>9, <1>13, <2>1, <3>1
    <2>2. CASE u = t /\ v \in Loaded(m)
      BY <1>4, <1>9, <1>12, <1>13, <2>2
    <2>3. CASE u \in Loaded(m) /\ v = t
      BY <1>4, <1>8, <1>12, <1>13, <2>3
    <2>4. CASE u = t /\ v = t
      BY <1>4, <1>8, <1>12, <2>4
    <2> QED BY <1>11, <2>1, <2>2, <2>3, <2>4
  <1>17. SoundMemory(n)
    BY <1>7, <1>14, <1>15, <1>16 DEF SoundMemory
  <1> QED BY <1>10, <1>11, <1>17

(* A load adds its process to the end of the list, or takes some blocks    *)
(* and changes nothing else (process_load).                                *)
LEMMA LoadStep ==
    ASSUME NEW m, DOMAIN m = Fields, SoundMemory(m), NEW q, Scheduled(m, q), NEW f \in Files
    PROVE  LET n == process_load(m, f)
           IN  /\ SoundMemory(n)
               /\ m.h.map \subseteq n.h.map
               /\ \/ n.tl = m.tl /\ Scheduled(n, q)
                  \/ \E t \in Tasks : /\ t \notin Elements(q)
                                      /\ Scheduled(n, Append(q, t))
                                      /\ n.tl = task_new(m.tl, t)
                                      /\ n.tl.current = IF q = <<>> THEN t ELSE m.tl.current
  <1> DEFINE slot == process_get_free_slot(m)
             t == slot + 1
             w == ObtainDirectory(
                    Obtain(
                      Obtain(
                        process_load_binary(Obtain(Begin(m.h), "process", PROCESS_SIZE), f),
                        "stack", STACK_SIZE),
                      "task", 1))
             program   == Area(w.data, AlignedPages(FileSize[f]))
             stack     == Area(w.stack, AlignedPages(STACK_SIZE))
             structure == w.tables \cup {w.task} \cup Area(w.process, BlocksFor(PROCESS_SIZE))
             failed == [m EXCEPT !.h = w.h]
             n == [m EXCEPT
                     !.h         = w.h,
                     !.tl        = task_new(@, t),
                     !.slots[slot] = t,
                     !.dir[t]    = process_map_memory(w, f),
                     !.prog[t]   = w.data,
                     !.size[t]   = FileSize[f],
                     !.stack[t]  = w.stack,
                     !.tables[t] = w.tables \cup {w.task} \cup Area(w.process, BlocksFor(PROCESS_SIZE))]
  <1>1. process_load(m, f) = IF slot < 0 THEN m ELSE IF ~ w.ok THEN failed ELSE n
    BY DEF process_load, process_load_for_slot
  <1>2. process_map_memory(w, f) = Mapping(w.data, FileSize[f], w.stack)
    BY DEF process_map_memory, Mapping
  <1>3. /\ SoundHeap(w.h)
        /\ m.h.map \subseteq w.h.map
        /\ w.ok =>
              /\ FileSize[f] \in Nat \ {0}
              /\ w.data \in Pages \ {NULL} /\ w.stack \in Pages
              /\ program \cup stack \cup structure \subseteq (w.h.map \cap Pages) \ m.h.map
              /\ (program \cup stack) \cap structure = {}
    BY LoadedAreas DEF SoundMemory
  <1>4. SoundHeap(m.h)
    BY DEF SoundMemory
  <1> HIDE DEF w
  <1>5. CASE slot < 0
    BY <1>1, <1>5
  <1>6. CASE ~ (slot < 0) /\ ~ w.ok
    <2>1. /\ failed.h = w.h /\ failed.tl = m.tl /\ failed.slots = m.slots /\ failed.dir = m.dir
          /\ failed.prog = m.prog /\ failed.size = m.size /\ failed.stack = m.stack
          /\ failed.tables = m.tables
      BY DEF Fields
    <2> HIDE DEF failed
    <2>2. SoundMemory(failed) /\ Scheduled(failed, q)
      BY <1>3, <2>1, SoundKept
    <2> QED BY <1>1, <1>3, <1>6, <2>1, <2>2
  <1>7. CASE ~ (slot < 0) /\ w.ok
    <2>1. slot \in ProcSlots /\ m.slots[slot] = NoTask /\ t \in Tasks
      <3>1. slot \in Int
        BY ProcessAssumption DEF process_get_free_slot, ProcSlots
      <3>2. slot >= 0
        BY <1>7, <3>1
      <3> QED BY <3>2, FreeSlot
    <2> HIDE DEF slot, structure
    <2>2. n.h = w.h
      BY Zenon DEF Fields
    <2>3. n.tl = task_new(m.tl, t)
      BY Zenon DEF Fields
    <2>4. n.slots = [m.slots EXCEPT ![slot] = t]
      BY Zenon DEF Fields
    <2>5. n.dir = [m.dir EXCEPT ![t] = process_map_memory(w, f)]
      BY Zenon DEF Fields
    <2>6. n.prog = [m.prog EXCEPT ![t] = w.data]
      BY Zenon DEF Fields
    <2>7. n.size = [m.size EXCEPT ![t] = FileSize[f]]
      BY Zenon DEF Fields
    <2>8. n.stack = [m.stack EXCEPT ![t] = w.stack]
      BY Zenon DEF Fields
    <2>9. n.tables = [m.tables EXCEPT ![t] = structure]
      BY Zenon DEF Fields, structure
    <2>10. structure \in SUBSET Nat
      BY <1>3, <1>7, PmmAssumption DEF Pages
    <2> HIDE DEF n
    <2>11. n.dir = [m.dir EXCEPT ![t] = Mapping(w.data, FileSize[f], w.stack)]
      BY <1>2, <2>5
    <2>12. LET R == Area(w.data, AlignedPages(FileSize[f])) \cup Area(w.stack, AlignedPages(STACK_SIZE))
           IN  /\ R \cup structure \subseteq (n.h.map \cap Pages) \ m.h.map
               /\ R \cap structure = {}
      BY <1>3, <1>7, <2>2
    <2>13. /\ SoundHeap(n.h) /\ m.h.map \subseteq n.h.map
           /\ FileSize[f] \in Nat \ {0} /\ w.data \in Pages \ {NULL} /\ w.stack \in Pages
      BY <1>3, <1>7, <2>2
    <2>14. Adds(m, n, slot, t, w.data, FileSize[f], w.stack, structure)
      BY <2>4, <2>6, <2>7, <2>8, <2>9, <2>11, <2>12, <2>13, Zenon DEF Adds
    <2>15. t = slot + 1
      OBVIOUS
    <2> HIDE DEF t
    <2>16. /\ SoundMemory(n) /\ t \notin Loaded(m) /\ Loaded(n) = Loaded(m) \cup {t}
      BY <2>1, <2>13, <2>14, <2>15, SoundLoaded
    <2>17. t \in Tasks \ Elements(q) /\ InOrder(m.tl, q)
      BY <2>1, <2>16 DEF Scheduled
    <2>18. LET new == task_new(m.tl, t)
           IN  /\ InOrder(new, Append(q, t))
               /\ Elements(Append(q, t)) = Elements(q) \cup {t}
               /\ new.current = IF q = <<>> THEN t ELSE m.tl.current
      BY <2>17, NewTaskInOrder
    <2>19. Scheduled(n, Append(q, t))
      BY <2>3, <2>16, <2>18 DEF Scheduled
    <2>20. process_load(m, f) = n
      BY <1>1, <1>7
    <2> QED BY <1>3, <2>2, <2>3, <2>16, <2>17, <2>18, <2>19, <2>20
  <1> QED BY <1>5, <1>6, <1>7

-----------------------------------------------------------------------------
(* How the order of the tasks and the running one change in a step: not at *)
(* all, the next task gets its turn, or a task comes last.                 *)
Moves(q, running, p, next) ==
    \/ p = q /\ next = running
    \/ p = q /\ \E i \in 1 .. Len(q) : q[i] = running /\ next = q[(i % Len(q)) + 1]
    \/ \E t \in Tasks : /\ t \notin Elements(q)
                        /\ p = Append(q, t)
                        /\ next = IF q = <<>> THEN t ELSE running

(* What a step from a state with the order q has to show.                  *)
SafeNext(q) ==
    /\ SoundMemory(k)'
    /\ SoundState'
    /\ WritesOwnString'
    /\ StackLostOnOverlap'
    /\ \E p : Scheduled(k, p)' /\ Moves(q, current_task, p, current_task')

(* The running task is a loaded one.                                       *)
LEMMA RunningLoaded ==
    ASSUME NEW q, Scheduled(k, q)
    PROVE  /\ k.tl \in ListType /\ q \in Seq(Tasks) /\ Len(q) \in Nat
           /\ current_task \in Link /\ k.tl.head \in Link
           /\ current_task # NoTask => current_task \in Tasks /\ current_task \in Elements(q)
                                       /\ current_task \in Loaded(k)
  BY DEF Scheduled, InOrder, Links, ListType, Link, current_task

(* What was said of a task that printed is true as long as nothing is      *)
(* printed and no block cleared.                                           *)
LEMMA StringKept ==
    ASSUME WritesOwnString, out' = out, k.h.map \subseteq k'.h.map
    PROVE  WritesOwnString'
  BY DEF WritesOwnString, NoBlockFree

(* Saving the trap frame.                                                  *)
LEMMA SaveTyped ==
    ASSUME SoundState, NEW t
    PROVE  task_save_state(k.regs, t, cpu) \in [Tasks -> [Regs -> Value]]
  BY DEF SoundState, task_save_state

(* What becomes of the other fields when the registers are saved.          *)
LEMMA SaveFields ==
    ASSUME Inv, NEW regs, k' = [k EXCEPT !.regs = regs]
    PROVE  /\ k'.h = k.h /\ k'.tl = k.tl /\ k'.slots = k.slots /\ k'.dir = k.dir
           /\ k'.prog = k.prog /\ k'.size = k.size /\ k'.stack = k.stack
           /\ k'.tables = k.tables /\ k'.regs = regs
  BY DEF Inv, Shape, Fields

(* A step that touches no memory but saved registers.                      *)
LEMMA MemoryKept ==
    ASSUME Safe, NEW q, Scheduled(k, q),
           k'.h = k.h /\ k'.tl = k.tl /\ k'.slots = k.slots /\ k'.dir = k.dir,
           k'.prog = k.prog /\ k'.size = k.size /\ k'.stack = k.stack /\ k'.tables = k.tables
    PROVE  /\ SoundMemory(k)'
           /\ Scheduled(k, q)'
           /\ current_task' = current_task
           /\ Moves(q, current_task, q, current_task')
  <1>1. SoundHeap(k'.h) /\ k.h.map \subseteq k'.h.map /\ SoundMemory(k)
    BY DEF Safe, SoundMemory
  <1>2. SoundMemory(k') /\ Scheduled(k', q)
    BY <1>1, SoundKept
  <1>3. current_task' = current_task
    BY DEF current_task
  <1> QED BY <1>2, <1>3 DEF Moves

(* A loaded process sees the kernel's stack in its directory, unless its   *)
(* program is so large that its pages lie over it.                         *)
LEMMA SharedUnlessOverlap ==
    ASSUME SoundMemory(k), NEW t \in Loaded(k)
    PROVE  StackShared(t) <=> ~ Overlaps(t)
  <1>1. /\ k.dir[t] = Mapping(k.prog[t], k.size[t], k.stack[t]) /\ k.size[t] \in Nat \ {0}
        /\ Room(k, t) \subseteq Pages \ Reserved
        /\ k.prog[t] \in Nat /\ k.stack[t] \in Nat
    BY DEF SoundMemory, Loaded
  <1>2. k.dir[t][KSTACK].frame = KSTACK <=> k.size[t] <= (KSTACK - PROGRAM) * PAGE
    BY <1>1, MappingEntries DEF Room
  <1>3. (KSTACK - PROGRAM) * PAGE \in Nat
    BY LayoutAssumption, PmmAssumption, KheapAssumption DEF Reserved
  <1> QED BY <1>1, <1>2, <1>3 DEF StackShared, Overlaps

(* A step that switches no task and does not lose the stack.               *)
LEMMA OverlapKept ==
    ASSUME StackLostOnOverlap, k'.tl = k.tl, k'.size = k.size,
           mode' \in {mode, "halt", "ring0"}
    PROVE  StackLostOnOverlap'
  BY DEF StackLostOnOverlap, Overlaps, current_task

(* The stack is lost on entry: memory is as it was.                        *)
LEMMA LostOnEntrySafe ==
    ASSUME Inv, Safe, NEW q, Scheduled(k, q), mode = "user",
           ~ StackShared(current_task), LostOnEntry
    PROVE  SafeNext(q)
  <1>1. SoundMemory(k)' /\ Scheduled(k, q)' /\ current_task' = current_task
        /\ Moves(q, current_task, q, current_task')
    BY MemoryKept DEF LostOnEntry
  <1>2. SoundState'
    BY DEF Safe, SoundState, LostOnEntry, current_task, Link
  <1>3. StackLostOnOverlap'
    <2>1. current_task \in Loaded(k)
      BY RunningLoaded DEF Safe, SoundState
    <2>2. Overlaps(current_task)
      BY <2>1, SharedUnlessOverlap DEF Safe
    <2> QED BY <2>2 DEF StackLostOnOverlap, LostOnEntry, Overlaps, current_task
  <1>4. WritesOwnString'
    BY StringKept DEF Safe, LostOnEntry
  <1> QED BY <1>1, <1>2, <1>3, <1>4 DEF SafeNext

(* task_switch to a task of the list, with the registers saved.            *)
LEMMA SwitchSafe ==
    ASSUME Inv, Safe, NEW q, Scheduled(k, q), NEW t \in Elements(q),
           NEW regs \in [Tasks -> [Regs -> Value]],
           k' = [k EXCEPT !.tl = [k.tl EXCEPT !.current = t], !.regs = regs]
    PROVE  /\ SoundMemory(k)' /\ Scheduled(k, q)' /\ current_task' = t
           /\ k'.h = k.h /\ k'.size = k.size /\ k'.regs = regs /\ k'.tl.head = k.tl.head
           /\ t \in Tasks /\ t # NoTask /\ t \in Link /\ t \in Loaded(k)
  <1> DEFINE tl == [k.tl EXCEPT !.current = t]
             n  == [k EXCEPT !.tl = tl, !.regs = regs]
  <1>1. k' = n
    BY Zenon
  <1>2. InOrder(tl, q) /\ tl.current = t
    BY TurnInOrder DEF Scheduled
  <1>3. DOMAIN k = Fields
    BY DEF Inv, Shape
  <1>13. tl.head = k.tl.head
    BY RunningLoaded DEF ListType
  <1> HIDE DEF tl
  <1>4. n.h = k.h /\ n.slots = k.slots /\ n.dir = k.dir
    BY <1>3, Zenon DEF Fields
  <1>5. n.prog = k.prog /\ n.size = k.size /\ n.stack = k.stack /\ n.tables = k.tables
    BY <1>3, Zenon DEF Fields
  <1>6. n.tl = tl
    BY <1>3, Zenon DEF Fields
  <1>7. n.regs = regs
    BY <1>3, Zenon DEF Fields
  <1> HIDE DEF n
  <1>8. SoundMemory(n) /\ Loaded(n) = Loaded(k) /\ SoundHeap(n.h)
    BY <1>4, <1>5, SoundKept DEF Safe, SoundMemory
  <1>9. Scheduled(n, q)
    BY <1>2, <1>6, <1>8 DEF Scheduled
  <1>10. t \in Tasks /\ t # NoTask /\ t \in Link
    BY TaskListAssumption DEF Scheduled, InOrder, Links, Elements, NoTask, Link
  <1>11. current_task' = t
    BY <1>1, <1>2, <1>6, Zenon DEF current_task
  <1>12. t \in Loaded(k)
    BY DEF Scheduled
  <1> QED BY <1>1, <1>4, <1>5, <1>6, <1>7, <1>8, <1>9, <1>10, <1>11, <1>12, <1>13

(* A task of the list is resumed: one that sees the kernel's stack, or the *)
(* first one.                                                              *)
LEMMA ResumeSafe ==
    ASSUME Inv, Safe, NEW q, Scheduled(k, q), NEW t \in Elements(q),
           NEW regs \in [Tasks -> [Regs -> Value]],
           Resume(t, k.tl, regs), UNCHANGED <<loads, out, ctx>>,
           Moves(q, current_task, q, t),
           t = k.tl.head \/ StackShared(t)
    PROVE  SafeNext(q)
  <1>1. /\ k' = [k EXCEPT !.tl = [k.tl EXCEPT !.current = t], !.regs = regs]
        /\ cr3' = t /\ seg' = "user" /\ cpu' = task_return(regs[t])
        /\ in_service' = in_service \ {"master"} /\ mode' = "user"
    BY Zenon DEF Resume
  <1>2. /\ SoundMemory(k)' /\ Scheduled(k, q)' /\ current_task' = t
        /\ k'.h = k.h /\ k'.size = k.size /\ k'.regs = regs /\ k'.tl.head = k.tl.head
        /\ t \in Tasks /\ t # NoTask /\ t \in Link /\ t \in Loaded(k)
    BY <1>1, SwitchSafe
  <1>3. cpu' \in [Regs -> Value]
    BY <1>1, <1>2 DEF task_return, Value
  <1>4. SoundState'
    BY <1>1, <1>2, <1>3 DEF Safe, SoundState
  <1>5. WritesOwnString'
    BY <1>2, StringKept DEF Safe
  <1>6. StackLostOnOverlap'
    <2>1. Overlaps(t) => t = k.tl.head
      BY <1>2, SharedUnlessOverlap DEF Safe
    <2>2. Overlaps(t)' <=> Overlaps(t)
      BY <1>2 DEF Overlaps
    <2> QED BY <1>1, <1>2, <2>1, <2>2 DEF StackLostOnOverlap
  <1> QED BY <1>2, <1>4, <1>5, <1>6 DEF SafeNext

(* The switch to a task that does not see the kernel's stack.              *)
LEMMA LostOnSwitchSafe ==
    ASSUME Inv, Safe, NEW q, Scheduled(k, q), NEW t \in Elements(q),
           NEW regs \in [Tasks -> [Regs -> Value]],
           LostOnSwitch(t, regs), Moves(q, current_task, q, t), ~ StackShared(t)
    PROVE  SafeNext(q)
  <1>1. /\ k' = [k EXCEPT !.tl = [k.tl EXCEPT !.current = t], !.regs = regs]
        /\ cr3' = t /\ seg' = "kernel" /\ mode' = "crash"
        /\ UNCHANGED <<loads, cpu, in_service, out, ctx>>
    BY Zenon DEF LostOnSwitch
  <1>2. /\ SoundMemory(k)' /\ Scheduled(k, q)' /\ current_task' = t
        /\ k'.h = k.h /\ k'.size = k.size /\ k'.regs = regs /\ k'.tl.head = k.tl.head
        /\ t \in Tasks /\ t # NoTask /\ t \in Link /\ t \in Loaded(k)
    BY <1>1, SwitchSafe
  <1>3. SoundState'
    BY <1>1, <1>2 DEF Safe, SoundState
  <1>4. WritesOwnString'
    BY <1>1, <1>2, StringKept DEF Safe
  <1>5. StackLostOnOverlap'
    <2>1. Overlaps(t)
      BY <1>2, SharedUnlessOverlap DEF Safe
    <2>2. Overlaps(t)' <=> Overlaps(t)
      BY <1>2 DEF Overlaps
    <2> QED BY <1>1, <1>2, <2>1, <2>2 DEF StackLostOnOverlap
  <1> QED BY <1>2, <1>3, <1>4, <1>5 DEF SafeNext

(* Through the caller's directory the program's first page is its own      *)
(* text: the block that is mapped for the copy is not that page.  Without  *)
(* a block nothing is copied, and none is left (copy_string_from_task).    *)
LEMMA TextCopied ==
    ASSUME Inv, Safe, NEW t \in Loaded(k)
    PROVE  LET c == copy_string_from_task(t)
           IN  /\ SoundHeap(c.h)
               /\ k.h.map \subseteq c.h.map
               /\ c.text = t \/ (c.text = Garbage /\ NoBlockFree)
  <1> DEFINE r == kmallac(k.h, 1)
             c == copy_string_from_task(t)
             mapped == paging_map(k.dir[t], r.addr, r.addr, TRUE)
  <1>1. /\ c.h = r.h
        /\ c.text = IF r.addr = NULL THEN Garbage ELSE TextIn(mapped[PROGRAM].frame)
    BY Zenon DEF copy_string_from_task
  <1>2. SoundMemory(k) /\ SoundHeap(k.h)
    BY DEF Safe, SoundMemory
  <1>3. /\ SoundHeap(r.h) /\ k.h.map \subseteq r.h.map
        /\ r.addr # NULL => Fresh(k.h, r.h, Area(r.addr, BlocksFor(1))) /\ r.addr \in Area(r.addr, BlocksFor(1))
    BY <1>2, RequestFromSound
  <1>4. r.addr = NULL => NoBlockFree
    BY <1>2, RefusedOnlyWhenFull DEF NoBlockFree
  <1> HIDE DEF r, c
  <1>5. ASSUME r.addr # NULL
        PROVE  c.text = t
    <2>1. PROGRAM \in Reserved /\ Reserved \subseteq k.h.map /\ PROGRAM \in Pages
      BY <1>2, LayoutAssumption, FiniteMachine DEF SoundHeap
    <2>2. r.addr # PROGRAM
      BY <1>3, <1>5, <2>1 DEF Fresh
    <2>3. t \in Tasks /\ k.prog[t] # NULL
      BY DEF Loaded
    <2>4. /\ k.dir[t] = Mapping(k.prog[t], k.size[t], k.stack[t]) /\ k.size[t] > 0
          /\ Room(k, t) \subseteq Pages \ Reserved
          /\ k.prog[t] \in Nat /\ k.size[t] \in Nat /\ k.stack[t] \in Nat
      BY <1>2, <2>3 DEF SoundMemory
    <2>5. k.dir[t][PROGRAM].frame = k.prog[t]
      BY <2>4, MappingEntries DEF Room
    <2>6. mapped[PROGRAM] = k.dir[t][PROGRAM]
      BY <2>2 DEF paging_map, paging_set
    <2>7. \A u \in Loaded(k) : k.prog[u] \in Room(k, u)
      <3> SUFFICES ASSUME NEW u \in Loaded(k)
                   PROVE  k.prog[u] \in Room(k, u)
        OBVIOUS
      <3>1. u \in Tasks /\ k.size[u] \in Nat /\ k.size[u] > 0 /\ k.prog[u] \in Nat
        BY <1>2 DEF SoundMemory, Loaded
      <3>2. AlignedPages(k.size[u]) \in Nat \ {0}
        BY <3>1, PagesAreBlocks
      <3> QED BY <3>1, <3>2 DEF Room, Area
    <2>8. \A u \in Tasks : k.prog[u] = k.prog[t] => u = t
      <3> SUFFICES ASSUME NEW u \in Tasks, k.prog[u] = k.prog[t], u # t
                   PROVE  FALSE
        OBVIOUS
      <3>1. u \in Loaded(k)
        BY <2>3 DEF Loaded
      <3>2. Room(k, u) \cap Room(k, t) = {}
        BY <1>2, <3>1 DEF SoundMemory
      <3> QED BY <2>7, <3>1, <3>2
    <2>9. TextIn(k.prog[t]) = t
      BY <2>3, <2>8 DEF TextIn
    <2> QED BY <1>1, <1>5, <2>5, <2>6, <2>9
  <1> QED BY <1>1, <1>3, <1>4, <1>5 DEF c

-----------------------------------------------------------------------------
(* At boot the kernel's own directory has taken its blocks and no process *)
(* is loaded (kheap_init, paging_new_4gb).                                 *)
LEMMA InitSafe == Init => Safe
  <1> SUFFICES ASSUME Init PROVE Safe
    OBVIOUS
  <1> DEFINE g == kheap_init
             h == paging_new_4gb(g).h
  <1>1. SoundHeap(g)
    <2>1. /\ g.map = Reserved /\ g.used = RESERVED_BLOCKS /\ g.free = SYSTEM_BLOCKS - RESERVED_BLOCKS
          /\ g.big = [i \in Slots |-> EmptyEntry] /\ g \in HeapType
      BY PmmAssumption DEF kheap_init, pmm_init, HeapType, Reserved, Entry, EmptyEntry, NULL
    <2>2. Cardinality(Pages \ Reserved) = SYSTEM_BLOCKS - RESERVED_BLOCKS
      <3>1. Pages \ Reserved = RESERVED_BLOCKS .. (SYSTEM_BLOCKS - 1)
        BY PmmAssumption DEF Pages, Reserved
      <3>2. Cardinality(RESERVED_BLOCKS .. (SYSTEM_BLOCKS - 1)) = SYSTEM_BLOCKS - RESERVED_BLOCKS
        BY FS_Interval, PmmAssumption
      <3> QED BY <3>1, <3>2, Zenon
    <2>3. Cardinality(Pages \ g.map) = SYSTEM_BLOCKS - RESERVED_BLOCKS
      BY <2>1, <2>2, Zenon
    <2>4. \A i \in Slots : g.big[i].addr \in Pages
      BY <2>1, FiniteMachine DEF EmptyEntry
    <2> HIDE DEF g
    <2> QED BY <2>1, <2>3, <2>4, PmmAssumption DEF SoundHeap
  <1>2. SoundHeap(h)
    <2>1. TABLES + 2 \in Nat
      BY PagingAssumption
    <2> HIDE DEF g
    <2> QED BY <1>1, DirectoryFromSound
  <1> HIDE DEF h
  <1>3. /\ k.h = h /\ k.tl = EmptyList /\ k.slots = [s \in ProcSlots |-> NoTask]
        /\ k.dir = [t \in Tasks |-> Identity(FALSE)] /\ k.prog = [t \in Tasks |-> NULL]
        /\ k.size = [t \in Tasks |-> 0] /\ k.stack = [t \in Tasks |-> NULL]
        /\ k.tables = [t \in Tasks |-> {}] /\ k.regs = [t \in Tasks |-> InitialRegs(t)]
    BY DEF Init, process_init, h
  <1>4. Loaded(k) = {}
    BY <1>3 DEF Loaded
  <1>5. Identity(FALSE) \in Directory
    BY DEF Identity, Directory
  <1>6. SoundMemory(k)
    <2> HIDE DEF Loaded
    <2>1. SoundHeap(k.h) /\ k.slots \in [ProcSlots -> Link]
      BY <1>2, <1>3 DEF Link
    <2>2. k.dir \in [Tasks -> Directory] /\ k.tables \in [Tasks -> SUBSET Nat]
      BY <1>3, <1>5
    <2>3. /\ k.prog \in [Tasks -> Nat] /\ k.size \in [Tasks -> Nat] /\ k.stack \in [Tasks -> Nat]
          /\ \A t \in Tasks : k.prog[t] = NULL
      BY <1>3 DEF NULL
    <2>4. \A s \in ProcSlots : s + 1 \in Tasks
      BY ProcessAssumption DEF ProcSlots
    <2>5. \A s \in ProcSlots : k.prog[s + 1] = NULL
      BY <2>3, <2>4
    <2> QED BY <1>4, <2>1, <2>2, <2>3, <2>5, Zenon DEF SoundMemory
  <1>7. Scheduled(k, <<>>)
    <2>1. EmptyList \in ListType /\ EmptyList.current = NoTask /\ EmptyList.head = NoTask
      BY DEF EmptyList, ListType, Link
    <2>2. <<>> \in Seq(Tasks) /\ Len(<<>>) = 0
      OBVIOUS
    <2> QED BY <1>3, <1>4, <2>1, <2>2 DEF Scheduled, InOrder, Links, Distinct, Elements
  <1>8. SoundState
    <2>1. \A t \in Tasks : InitialRegs(t) \in [Regs -> Value]
      BY DEF InitialRegs, Value, Start
    <2>2. k.regs \in [Tasks -> [Regs -> Value]]
      BY <1>3, <2>1
    <2>3. ctx \in [Tasks -> [Regs -> Value \cup {Unset}]]
      BY <2>1 DEF Init
    <2>4. cpu \in [Regs -> Value]
      BY DEF Init, Value
    <2>5. current_task = k.tl.head
      BY <1>3 DEF EmptyList, current_task
    <2>6. loads \in 0 .. LOADS
      BY KernelAssumption DEF Init
    <2>7. out \in Link \X Link /\ cr3 \in Link
      BY DEF Init, Link, Garbage
    <2> QED BY <2>2, <2>3, <2>4, <2>5, <2>6, <2>7 DEF SoundState, Init
  <1>9. WritesOwnString /\ StackLostOnOverlap
    BY DEF Init, WritesOwnString, StackLostOnOverlap, Garbage
  <1> QED BY <1>6, <1>7, <1>8, <1>9 DEF Safe

(* One step per action, as for Inv.                                        *)
LEMMA NextSafe ==
    ASSUME Inv, Safe, [Next]_vars, NEW q, Scheduled(k, q)
    PROVE  SafeNext(q)
  <1>1. ASSUME NEW f \in Files, Load(f)
        PROVE  SafeNext(q)
    <2>1. /\ k' = process_load(k, f) /\ mode = "boot" /\ loads < LOADS /\ loads' = loads + 1
          /\ UNCHANGED <<mode, cpu, cr3, seg, in_service, out, ctx>>
      BY <1>1 DEF Load
    <2>2. /\ SoundMemory(k') /\ k.h.map \subseteq k'.h.map
          /\ \/ k'.tl = k.tl /\ Scheduled(k', q)
             \/ \E t \in Tasks : /\ t \notin Elements(q)
                                 /\ Scheduled(k', Append(q, t))
                                 /\ k'.tl = task_new(k.tl, t)
                                 /\ k'.tl.current = IF q = <<>> THEN t ELSE k.tl.current
      BY <2>1, LoadStep DEF Safe, Inv, Shape
    <2>3. k'.regs = k.regs
      BY <2>1, LoadShape DEF Inv
    <2>4. PICK p : Scheduled(k', p) /\ Moves(q, k.tl.current, p, k'.tl.current)
      BY <2>2 DEF Moves
    <2>5. k'.tl.current = k'.tl.head
      <3>1. k.tl.current = k.tl.head
        BY <2>1 DEF Safe, SoundState, current_task
      <3>2. CASE k'.tl = k.tl
        BY <3>1, <3>2
      <3>3. ASSUME NEW t \in Tasks, t \notin Elements(q), Scheduled(k', Append(q, t)),
                   k'.tl.current = IF q = <<>> THEN t ELSE k.tl.current
            PROVE  k'.tl.current = k'.tl.head
        <4>1. q \in Seq(Tasks) /\ k.tl.head = IF q = <<>> THEN NoTask ELSE q[1]
          BY DEF Scheduled, InOrder, Links
        <4>2. Append(q, t) # <<>> /\ Append(q, t)[1] = IF q = <<>> THEN t ELSE q[1]
          <5>1. /\ Len(q) \in Nat /\ DOMAIN q = 1 .. Len(q)
                /\ Len(Append(q, t)) = Len(q) + 1
                /\ Append(q, t)[Len(q) + 1] = t
                /\ \A i \in 1 .. Len(q) : Append(q, t)[i] = q[i]
            BY <4>1, AppendProperties
          <5>2. q = <<>> => Len(q) = 0
            OBVIOUS
          <5>3. q # <<>> => 1 \in 1 .. Len(q)
            BY <4>1
          <5>4. Append(q, t) # <<>>
            BY <4>1, <5>1
          <5> QED BY <5>1, <5>2, <5>3, <5>4
        <4>3. k'.tl.head = Append(q, t)[1]
          BY <3>3, <4>2 DEF Scheduled, InOrder, Links
        <4> QED BY <3>1, <3>3, <4>1, <4>2, <4>3
      <3> QED BY <2>2, <3>2, <3>3
    <2>6. SoundState'
      <3>1. loads' \in 0 .. LOADS
        BY <2>1, KernelAssumption DEF Safe, SoundState
      <3> QED BY <2>1, <2>3, <2>5, <3>1 DEF Safe, SoundState, current_task
    <2>7. WritesOwnString' /\ StackLostOnOverlap'
      BY <2>1, <2>2, StringKept DEF Safe, StackLostOnOverlap
    <2> QED BY <2>2, <2>4, <2>6, <2>7 DEF SafeNext, current_task
  <1>2. CASE task_run_first_ever_task
    <2>1. CASE current_task = NoTask
      <3>1. mode' = "halt" /\ UNCHANGED <<k, cpu, cr3, seg, in_service, loads, out, ctx>>
        BY <1>2, <2>1 DEF task_run_first_ever_task
      <3>2. SoundMemory(k)' /\ Scheduled(k, q)' /\ Moves(q, current_task, q, current_task')
        BY <3>1, MemoryKept
      <3>3. SoundState'
        BY <3>1 DEF Safe, SoundState, current_task
      <3>4. WritesOwnString' /\ StackLostOnOverlap'
        BY <3>1, StringKept, OverlapKept DEF Safe
      <3> QED BY <3>2, <3>3, <3>4 DEF SafeNext
    <2>2. CASE current_task # NoTask
      <3>1. /\ mode = "boot" /\ Resume(k.tl.head, k.tl, k.regs) /\ UNCHANGED <<loads, out, ctx>>
        BY <1>2, <2>2 DEF task_run_first_ever_task
      <3>2. k.tl.head = current_task /\ current_task \in Elements(q)
        BY <2>2, <3>1, RunningLoaded DEF Safe, SoundState
      <3>3. k.regs \in [Tasks -> [Regs -> Value]]
        BY DEF Safe, SoundState
      <3>4. Moves(q, current_task, q, k.tl.head)
        BY <3>2 DEF Moves
      <3> QED BY <3>1, <3>2, <3>3, <3>4, ResumeSafe
    <2> QED BY <2>1, <2>2
  <1>3. CASE UserStep
    <2>1. /\ mode = "user" /\ UNCHANGED <<k, mode, loads, cr3, seg, in_service, out>>
          /\ cpu' = [r \in Regs |-> IF r \in {"cs", "ss"} THEN UserSel ELSE Own(current_task, r)]
          /\ ctx' = [ctx EXCEPT ![current_task] = cpu']
      BY <1>3 DEF UserStep
    <2>2. SoundMemory(k)' /\ Scheduled(k, q)' /\ Moves(q, current_task, q, current_task')
      BY <2>1, MemoryKept
    <2>3. current_task \in Tasks
      BY <2>1, RunningLoaded DEF Safe, SoundState
    <2>4. cpu' \in [Regs -> Value]
      BY <2>1, <2>3 DEF Value, Own
    <2>5. ctx' \in [Tasks -> [Regs -> Value \cup {Unset}]]
      BY <2>1, <2>4 DEF Safe, SoundState
    <2>6. SoundState'
      BY <2>1, <2>4, <2>5 DEF Safe, SoundState, current_task
    <2>7. WritesOwnString' /\ StackLostOnOverlap'
      BY <2>1, StringKept, OverlapKept DEF Safe
    <2> QED BY <2>2, <2>6, <2>7 DEF SafeNext
  <1>4. ASSUME mode = "user", isr_0x20_handler
        PROVE  SafeNext(q)
    <2> DEFINE next == task_get_next(k.tl)
               regs == task_save_state(k.regs, current_task, cpu)
    <2>1. regs \in [Tasks -> [Regs -> Value]]
      BY SaveTyped DEF Safe
    <2>2. current_task # NoTask
      BY <1>4 DEF Safe, SoundState
    <2>3. /\ \E i \in 1 .. Len(q) : q[i] = current_task /\ next = q[(i % Len(q)) + 1]
          /\ next \in Elements(q)
      BY <2>2, NextTurn DEF Scheduled, current_task
    <2>4. Moves(q, current_task, q, next)
      BY <2>3 DEF Moves
    <2>5. \/ StackShared(next) /\ Resume(next, k.tl, regs) /\ UNCHANGED <<loads, out, ctx>>
          \/ ~ StackShared(next) /\ LostOnSwitch(next, regs)
          \/ ~ StackShared(current_task) /\ LostOnEntry
      BY <1>4 DEF isr_0x20_handler
    <2> HIDE DEF next, regs
    <2> QED BY <1>4, <2>1, <2>3, <2>4, <2>5, ResumeSafe, LostOnSwitchSafe, LostOnEntrySafe
  <1>5. ASSUME NEW waiting \in SUBSET {"master", "slave"}, mode = "user", no_interrupt(waiting)
        PROVE  SafeNext(q)
    <2>1. in_service' = waiting \ {"master"} /\ UNCHANGED <<k, mode, loads, cpu, cr3, seg, out, ctx>>
      BY <1>5 DEF no_interrupt
    <2>2. SoundMemory(k)' /\ Scheduled(k, q)' /\ Moves(q, current_task, q, current_task')
      BY <2>1, MemoryKept
    <2>3. SoundState'
      BY <2>1 DEF Safe, SoundState, current_task
    <2>4. WritesOwnString' /\ StackLostOnOverlap'
      BY <2>1, StringKept, OverlapKept DEF Safe
    <2> QED BY <2>2, <2>3, <2>4 DEF SafeNext
  <1>6. ASSUME mode = "user", SyscallReturn, NEW regs \in [Tasks -> [Regs -> Value]], k'.regs = regs,
               current_task' = current_task
        PROVE  (out \in Link \X Link)' => SoundState'
    <2>1. current_task \in Tasks /\ current_task \in Link /\ current_task # NoTask
      BY <1>6, RunningLoaded DEF Safe, SoundState
    <2>2. /\ cpu' = [cpu EXCEPT !["eax"] = Zero] /\ cr3' = current_task /\ seg' = "user"
          /\ ctx' = [ctx EXCEPT ![current_task]["eax"] = Zero] /\ UNCHANGED <<mode, loads, in_service>>
      BY <1>6 DEF SyscallReturn
    <2>3. cpu' \in [Regs -> Value]
      BY <2>2 DEF Safe, SoundState, Value
    <2>4. ctx' \in [Tasks -> [Regs -> Value \cup {Unset}]]
      BY <2>1, <2>2 DEF Safe, SoundState, Value
    <2> QED BY <1>6, <2>1, <2>2, <2>3, <2>4 DEF Safe, SoundState
  <1>7. CASE sys_write
    <2>1. CASE StackShared(current_task)
      <3> DEFINE t == current_task
                 c == copy_string_from_task(t)
                 regs == task_save_state(k.regs, t, cpu)
                 n == [k EXCEPT !.h = c.h, !.dir[t] = c.dir,
                                !.regs = task_save_state(@, t, cpu)]
      <3>1. k' = n /\ out' = <<t, c.text>> /\ SyscallReturn /\ mode = "user"
        BY <1>7, <2>1, Zenon DEF sys_write
      <3>2. t \in Loaded(k) /\ t \in Tasks /\ t \in Link
        BY <3>1, RunningLoaded DEF Safe, SoundState
      <3>3. /\ SoundHeap(c.h) /\ k.h.map \subseteq c.h.map
            /\ c.text = t \/ (c.text = Garbage /\ NoBlockFree)
        BY <3>2, TextCopied
      <3>4. DOMAIN k = Fields
        BY DEF Inv, Shape
      <3>5. regs \in [Tasks -> [Regs -> Value]]
        BY SaveTyped DEF Safe
      <3>6. k'.dir = k.dir
        BY <1>7, WriteKeepsDirectories
      <3> HIDE DEF c, t
      <3>7. n.h = c.h /\ n.tl = k.tl /\ n.slots = k.slots
        BY <3>4, Zenon DEF Fields
      <3>8. n.prog = k.prog /\ n.size = k.size /\ n.stack = k.stack /\ n.tables = k.tables
        BY <3>4, Zenon DEF Fields
      <3>9. n.regs = regs
        BY <3>4, Zenon DEF Fields
      <3> HIDE DEF n, regs
      <3>10. SoundMemory(n) /\ Scheduled(n, q)
        <4>1. n.dir = k.dir
          BY <3>1, <3>6
        <4> QED BY <3>3, <3>7, <3>8, <4>1, SoundKept DEF Safe
      <3>11. current_task' = current_task
        BY <3>1, <3>7 DEF current_task
      <3>12. WritesOwnString'
        <4>1. c.text = Garbage /\ NoBlockFree => NoBlockFree'
          BY <3>1, <3>3, <3>7 DEF NoBlockFree
        <4> QED BY <3>1, <3>3, <4>1 DEF WritesOwnString
      <3>13. SoundState'
        <4>1. c.text \in Link
          BY <3>2, <3>3 DEF Garbage, Link
        <4>2. (out \in Link \X Link)'
          BY <3>1, <3>2, <4>1
        <4> QED BY <1>6, <3>1, <3>5, <3>9, <3>11, <4>2
      <3>14. StackLostOnOverlap'
        BY <3>1, <3>7, <3>8, OverlapKept DEF Safe, SyscallReturn
      <3>15. Moves(q, current_task, q, current_task')
        BY <3>11 DEF Moves
      <3> QED BY <3>1, <3>10, <3>12, <3>13, <3>14, <3>15 DEF SafeNext
    <2>2. CASE ~ StackShared(current_task)
      BY <1>7, <2>2, LostOnEntrySafe DEF sys_write
    <2> QED BY <2>1, <2>2
  <1>8. ASSUME k' = [k EXCEPT !.regs = task_save_state(@, current_task, cpu)]
        PROVE  /\ SoundMemory(k)' /\ Scheduled(k, q)' /\ Moves(q, current_task, q, current_task')
               /\ k'.h = k.h /\ current_task' = current_task
               /\ k'.tl = k.tl /\ k'.size = k.size
               /\ k'.regs \in [Tasks -> [Regs -> Value]]
    <2> DEFINE regs == task_save_state(k.regs, current_task, cpu)
    <2>1. k' = [k EXCEPT !.regs = regs]
      BY <1>8, Zenon
    <2>2. regs \in [Tasks -> [Regs -> Value]]
      BY SaveTyped DEF Safe
    <2> HIDE DEF regs
    <2>3. /\ k'.h = k.h /\ k'.tl = k.tl /\ k'.slots = k.slots /\ k'.dir = k.dir
          /\ k'.prog = k.prog /\ k'.size = k.size /\ k'.stack = k.stack
          /\ k'.tables = k.tables /\ k'.regs = regs
      BY <2>1, SaveFields
    <2>4. SoundMemory(k)' /\ Scheduled(k, q)' /\ Moves(q, current_task, q, current_task')
      BY <2>3, MemoryKept
    <2>5. current_task' = current_task
      BY <2>3 DEF current_task
    <2> QED BY <2>2, <2>3, <2>4, <2>5
  <1>9. CASE sum
    <2>1. CASE StackShared(current_task)
      <3>1. /\ k' = [k EXCEPT !.regs = task_save_state(@, current_task, cpu)]
            /\ mode' = "halt" /\ cr3' = NoTask /\ seg' = "kernel"
            /\ UNCHANGED <<loads, cpu, in_service, out, ctx>>
        BY <1>9, <2>1, Zenon DEF sum
      <3>2. SoundState'
        BY <1>8, <3>1 DEF Safe, SoundState, Link
      <3>3. WritesOwnString' /\ StackLostOnOverlap'
        BY <1>8, <3>1, StringKept, OverlapKept DEF Safe
      <3> QED BY <1>8, <3>1, <3>2, <3>3 DEF SafeNext
    <2>2. CASE ~ StackShared(current_task)
      BY <1>9, <2>2, LostOnEntrySafe DEF sum
    <2> QED BY <2>1, <2>2
  <1>10. CASE invalid_command
    <2>1. CASE StackShared(current_task)
      <3>1. /\ k' = [k EXCEPT !.regs = task_save_state(@, current_task, cpu)]
            /\ out' = out /\ SyscallReturn /\ mode = "user"
        BY <1>10, <2>1, Zenon DEF invalid_command
      <3>2. SoundState'
        BY <1>6, <1>8, <3>1 DEF Safe, SoundState
      <3>3. WritesOwnString' /\ StackLostOnOverlap'
        BY <1>8, <3>1, StringKept, OverlapKept DEF Safe, SyscallReturn
      <3> QED BY <1>8, <3>1, <3>2, <3>3 DEF SafeNext
    <2>2. CASE ~ StackShared(current_task)
      BY <1>10, <2>2, LostOnEntrySafe DEF invalid_command
    <2> QED BY <2>1, <2>2
  <1>11. CASE UNCHANGED vars
    <2>1. UNCHANGED <<k, mode, loads, cpu, cr3, seg, in_service, out, ctx>>
      BY <1>11 DEF vars
    <2>2. SoundMemory(k)' /\ Scheduled(k, q)' /\ Moves(q, current_task, q, current_task')
      BY <2>1, MemoryKept
    <2>3. SoundState' /\ WritesOwnString' /\ StackLostOnOverlap'
      BY <2>1, OverlapKept DEF Safe, SoundState, WritesOwnString, NoBlockFree, current_task
    <2> QED BY <2>2, <2>3 DEF SafeNext
  <1>12. in_service \subseteq {"master", "slave"}
    BY DEF Safe, SoundState
  <1>13. CASE TimerInterrupt
    BY <1>4, <1>13 DEF TimerInterrupt
  <1>14. ASSUME NEW pic \in {"master", "slave"}, OtherInterrupt(pic)
         PROVE  SafeNext(q)
    <2>1. in_service \cup {pic} \in SUBSET {"master", "slave"}
      BY <1>12
    <2> QED BY <1>5, <1>14, <2>1 DEF OtherInterrupt
  <1>17. ASSUME mode = "user", idt_zero
         PROVE  SafeNext(q)
    <2>1. mode' = "ring0" /\ UNCHANGED <<k, loads, cpu, cr3, seg, in_service, out, ctx>>
      BY <1>17 DEF idt_zero
    <2>2. SoundMemory(k)' /\ Scheduled(k, q)' /\ Moves(q, current_task, q, current_task')
      BY <2>1, MemoryKept
    <2>3. SoundState'
      BY <2>1 DEF Safe, SoundState, current_task
    <2>4. WritesOwnString' /\ StackLostOnOverlap'
      BY <2>1, StringKept, OverlapKept DEF Safe
    <2> QED BY <2>2, <2>3, <2>4 DEF SafeNext
  <1>15. CASE SoftwareInterrupt
    BY <1>4, <1>5, <1>12, <1>15, <1>17 DEF SoftwareInterrupt
  <1>16. CASE Stopped
    BY <1>11, <1>16 DEF Stopped
  <1> QED BY <1>1, <1>2, <1>3, <1>7, <1>9, <1>10, <1>11, <1>13, <1>14, <1>15, <1>16 DEF Next

-----------------------------------------------------------------------------
(* The steps of the inductive invariant, for the order that the state has. *)
LEMMA SafeStep ==
    ASSUME Inv, Safe, [Next]_vars
    PROVE  Safe'
  <1>1. PICK q : Scheduled(k, q)
    BY DEF Safe
  <1>2. SafeNext(q)
    BY <1>1, NextSafe
  <1> QED BY <1>2, Zenon DEF SafeNext, Safe

(* However many tasks, blocks and loads there are, the memory, the task    *)
(* list and the registers keep to the invariant in every state (Load,      *)
(* interrupts, system calls, user steps).                                  *)
THEOREM SafeInvariance == Spec => [](Inv /\ Safe)
  <1>1. Init => Inv /\ Safe
    BY InitInv, InitSafe
  <1>2. Inv /\ Safe /\ [Next]_vars => (Inv /\ Safe)'
    BY NextInv, SafeStep
  <1> QED BY <1>1, <1>2, PTL DEF Spec

(* Walking the list of a scheduled kernel finds the loaded processes.      *)
LEMMA OrderScheduled ==
    ASSUME NEW q, Scheduled(k, q)
    PROVE  /\ Order(k.tl) = q
           /\ \A t \in Tasks : OnList(t) <=> t \in Loaded(k)
  <1>1. Order(k.tl) = q
    BY OrderExact, FiniteMachine DEF Scheduled
  <1>2. q \in Seq(Tasks) /\ DOMAIN q = 1 .. Len(q)
    BY DEF Scheduled, InOrder, Links
  <1> HIDE DEF Loaded
  <1> QED BY <1>1, <1>2 DEF OnList, Scheduled, Elements

(* Every variable keeps its type, whatever is loaded and whoever runs      *)
(* (process_load, task_switch, isr80h_wrapper): no address or entry leaves *)
(* the memory the machine has.                                             *)
THEOREM KernelTyped == Spec => []TypeOK
  <1>1. Safe => TypeOK
    <2> SUFFICES ASSUME Safe PROVE TypeOK
      OBVIOUS
    <2>1. PICK q : Scheduled(k, q)
      BY DEF Safe
    <2>2. k.tl \in ListType
      BY <2>1, RunningLoaded
    <2>3. k.h \in HeapState
      BY DEF Safe, SoundMemory, SoundHeap, HeapType, Entry, HeapState
    <2> QED BY <2>2, <2>3 DEF Safe, SoundMemory, SoundState, TypeOK
  <1> QED BY <1>1, SafeInvariance, PTL

(* In user mode the processor has the directory and the segments of the    *)
(* current task, which is on the list (task_page, task_switch).            *)
THEOREM AddressSpaceAlwaysCurrent == Spec => []AddressSpaceOfCurrent
  <1>1. Safe => AddressSpaceOfCurrent
    <2> SUFFICES ASSUME Safe, mode = "user"
                 PROVE  cr3 = current_task /\ seg = "user" /\ OnList(current_task)
      BY DEF AddressSpaceOfCurrent
    <2>1. current_task # NoTask /\ cr3 = current_task /\ seg = "user"
      BY DEF Safe, SoundState
    <2>2. PICK q : Scheduled(k, q)
      BY DEF Safe
    <2> QED BY <2>1, <2>2, RunningLoaded, OrderScheduled
  <1> QED BY <1>1, SafeInvariance, PTL

(* What a loaded process may write.                                        *)
LEMMA WritableRoom ==
    ASSUME SoundMemory(k), NEW t \in Loaded(k)
    PROVE  UserWritable(t) = Room(k, t)
  <1>1. /\ t \in Tasks
        /\ k.prog[t] \in Nat /\ k.stack[t] \in Nat /\ k.size[t] \in Nat \ {0}
        /\ k.dir[t] = Mapping(k.prog[t], k.size[t], k.stack[t])
        /\ Room(k, t) \subseteq Pages \ Reserved
    BY DEF SoundMemory, Loaded
  <1> QED BY <1>1, MappingEntries DEF Room, UserWritable

(* A task can write its program and its stack and nothing else, whatever   *)
(* was loaded before it and whatever was refused (process_map_memory,      *)
(* kmallac, copy_string_from_task).                                        *)
THEOREM AlwaysIsolated == Spec => []Isolation
  <1>1. Safe => Isolation
    <2> SUFFICES ASSUME Safe, NEW t \in Tasks, OnList(t)
                 PROVE  /\ \E n, m \in 0 .. SYSTEM_BLOCKS :
                              /\ Covers(n, k.size[t])
                              /\ Covers(m, STACK_SIZE)
                              /\ UserWritable(t) = Area(k.prog[t], n) \cup Area(k.stack[t], m)
                        /\ UserWritable(t) \cap Reserved = {}
                        /\ \A u \in Tasks : OnList(u) =>
                              /\ UserWritable(t) \cap k.tables[u] = {}
                              /\ t # u => UserWritable(t) \cap UserWritable(u) = {}
      BY DEF Isolation
    <2>1. \A u \in Tasks : OnList(u) => u \in Loaded(k)
      BY OrderScheduled DEF Safe
    <2>2. SoundMemory(k)
      BY DEF Safe
    <2>3. UserWritable(t) = Room(k, t)
      BY <2>1, <2>2, WritableRoom
    <2>4. Room(k, t) \cap Reserved = {}
      BY <2>1, <2>2 DEF SoundMemory
    <2>5. ASSUME NEW u \in Tasks, OnList(u)
          PROVE  /\ Room(k, t) \cap k.tables[u] = {}
                 /\ UserWritable(u) = Room(k, u)
                 /\ t # u => Room(k, t) \cap Room(k, u) = {}
      BY <2>1, <2>2, <2>5, WritableRoom DEF SoundMemory
    <2>6. LET n == AlignedPages(k.size[t])
              m == AlignedPages(STACK_SIZE)
          IN  /\ n \in 0 .. SYSTEM_BLOCKS /\ Covers(n, k.size[t])
              /\ m \in 0 .. SYSTEM_BLOCKS /\ Covers(m, STACK_SIZE)
      <3> DEFINE n == AlignedPages(k.size[t])
                 m == AlignedPages(STACK_SIZE)
      <3>1. /\ k.size[t] \in Nat \ {0} /\ k.prog[t] \in Nat /\ k.stack[t] \in Nat
            /\ STACK_SIZE \in Nat \ {0}
            /\ Room(k, t) \subseteq Pages
        BY <2>1, <2>2, ProcessAssumption DEF SoundMemory, Loaded
      <3>2. n \in Nat \ {0} /\ m \in Nat \ {0} /\ Covers(n, k.size[t]) /\ Covers(m, STACK_SIZE)
        BY <3>1, PagesCover, PagesAreBlocks
      <3>3. Area(k.prog[t], n) \cup Area(k.stack[t], m) \subseteq Pages
        BY <3>1 DEF Room
      <3> HIDE DEF n, m
      <3>4. k.prog[t] + n - 1 \in Area(k.prog[t], n) /\ k.stack[t] + m - 1 \in Area(k.stack[t], m)
        BY <3>1, <3>2 DEF Area
      <3>5. SYSTEM_BLOCKS \in Nat /\ k.prog[t] + n - 1 \in Pages /\ k.stack[t] + m - 1 \in Pages
        BY <3>3, <3>4, PmmAssumption
      <3>6. n <= SYSTEM_BLOCKS /\ m <= SYSTEM_BLOCKS
        BY <3>1, <3>2, <3>5 DEF Pages
      <3> QED BY <3>2, <3>5, <3>6 DEF n, m
    <2> HIDE DEF Isolation, OnList
    <2>7. UserWritable(t) = Area(k.prog[t], AlignedPages(k.size[t]))
                               \cup Area(k.stack[t], AlignedPages(STACK_SIZE))
      BY <2>3 DEF Room
    <2> QED BY <2>3, <2>4, <2>5, <2>6, <2>7, Zenon
  <1> QED BY <1>1, SafeInvariance, PTL

(* sys_write prints the caller's own string as long as a block is free.    *)
THEOREM AlwaysWritesOwnString == Spec => []WritesOwnString
  <1>1. Safe => WritesOwnString
    BY DEF Safe
  <1> QED BY <1>1, SafeInvariance, PTL

(* The kernel loses its stack only with a program that reaches over it, on *)
(* entry or on the switch, however many tasks there are and whatever comes *)
(* first; and no such program runs but the first (kernel_page,             *)
(* paging_switch, process_map_binary).                                     *)
THEOREM StackLostOnlyOnOverlap == Spec => []StackLostOnOverlap
  <1>1. Safe => StackLostOnOverlap
    BY DEF Safe
  <1> QED BY <1>1, SafeInvariance, PTL

(* The kernel implements the round robin: a load adds a task at the end of *)
(* the queue or none at all, the timer's gate passes the turn, and nothing *)
(* else changes either (process_load, isr_0x20_handler, task_switch).      *)
THEOREM KernelTakesTurns == Spec => RoundRobinScheduling
  <1>1. Init => Turns!Init
    <2> SUFFICES ASSUME Init PROVE Turns!Init
      OBVIOUS
    <2>1. k.tl = EmptyList
      BY DEF Init, process_init
    <2>2. InOrder(EmptyList, <<>>)
      BY DEF InOrder, Links, Distinct, Elements, EmptyList, ListType, Link
    <2>3. Order(EmptyList) = <<>>
      BY <2>2, OrderExact, FiniteMachine
    <2> QED BY <2>1, <2>3 DEF Turns!Init, EmptyList, NoTask, current_task
  <1>2. Inv /\ Safe /\ [Next]_vars => [Turns!Stay]_(Turns!vars)
    <2> SUFFICES ASSUME Inv, Safe, [Next]_vars
                 PROVE  Turns!Stay \/ UNCHANGED Turns!vars
      OBVIOUS
    <2>1. PICK q : Scheduled(k, q)
      BY DEF Safe
    <2>2. PICK p : Scheduled(k, p)' /\ Moves(q, current_task, p, current_task')
      BY <2>1, NextSafe DEF SafeNext
    <2>3. Order(k.tl) = q
      BY <2>1, OrderScheduled
    <2>4. Order(k'.tl) = p
      BY <2>2, OrderExact, FiniteMachine DEF Scheduled
    <2>5. q \in Seq(Tasks) /\ Len(q) \in Nat /\ DOMAIN q = 1 .. Len(q)
      BY <2>1 DEF Scheduled, InOrder, Links
    <2>6. Order(k.tl)' = p
      BY <2>4
    <2>7. CASE p = q /\ current_task' = current_task
      BY <2>3, <2>6, <2>7 DEF Turns!vars
    <2>8. CASE p = q /\ \E i \in 1 .. Len(q) : q[i] = current_task /\ current_task' = q[(i % Len(q)) + 1]
      <3>1. Turns!Turn
        BY <2>3, <2>5, <2>6, <2>8 DEF Turns!Turn, Turns!After
      <3> QED BY <3>1 DEF Turns!Stay
    <2>9. ASSUME NEW t \in Tasks, t \notin Elements(q), p = Append(q, t),
                 current_task' = IF q = <<>> THEN t ELSE current_task
          PROVE  Turns!Stay
      <3>1. Turns!ToSet(q) = Elements(q)
        BY <2>5 DEF Turns!ToSet, Elements
      <3>2. Turns!Add(t)
        BY <2>3, <2>6, <2>9, <3>1 DEF Turns!Add
      <3> QED BY <3>2 DEF Turns!Stay
    <2> QED BY <2>2, <2>7, <2>8, <2>9 DEF Moves
  <1> QED BY <1>1, <1>2, SafeInvariance, PTL DEF Spec, RoundRobinScheduling, Turns!StayingSpec
=============================================================================
