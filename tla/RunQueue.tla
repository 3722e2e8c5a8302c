------------------------------ MODULE RunQueue ------------------------------
(***************************************************************************)
(* The list of tasks in use: tasks are created, take turns and are freed.  *)
(* task.h exports task_free although no code of the kernel calls it yet.   *)
(*                                                                         *)
(* tl is the state of the code; live is the set of structures that are     *)
(* allocated.  corrupt becomes TRUE when task_list_remove writes through a *)
(* prev field that no longer leads to the predecessor: the write hits      *)
(* freed or foreign memory, and nothing is said about what follows.        *)
(***************************************************************************)
EXTENDS TaskList, Paging

(* A task is the block of its structure. *)
ASSUME RunQueueAssumption == Tasks = 1 .. (SYSTEM_BLOCKS - 1)

VARIABLES tl, live, corrupt,
          h,                \* the heap
          chunk,            \* each task's page_directory
          lost              \* history: what a task_new that failed took

list == <<tl, live>>

vars == <<tl, live, corrupt, h, chunk, lost>>

(* The kernel has made its own page directory. *)
Init == /\ tl = EmptyList
        /\ live = {}
        /\ corrupt = FALSE
        /\ h = paging_new_4gb(kheap_init).h
        /\ chunk = [t \in Tasks |-> NoChunk]
        /\ lost = {}

(* The prev field of a live task leads somewhere else than to the task     *)
(* before it.                                                              *)
Stale(t) == /\ tl.prev[t] # NoTask
            /\ tl.prev[t] \notin live \/ tl.next[tl.prev[t]] # t

(* The structure, then the directory: what a failed creation took stays    *)
(* taken.                                                                  *)
NewTask ==
    LET task   == kmallac(h, 1)
        paging == IF task.addr = NULL
                  THEN [h |-> h, got |-> {}, ok |-> FALSE, chunk |-> NoChunk]
                  ELSE paging_new_4gb(task.h)
    IN  /\ ~ corrupt
        /\ h' = paging.h
        /\ IF paging.ok
           THEN /\ tl' = task_new(tl, task.addr)
                /\ live' = live \cup {task.addr}
                /\ chunk' = [chunk EXCEPT ![task.addr] = paging.chunk]
                /\ UNCHANGED lost
           ELSE /\ lost' = lost \cup paging.got \cup ({task.addr} \ {NULL})
                /\ UNCHANGED <<tl, live, chunk>>
        /\ UNCHANGED corrupt

Schedule == /\ ~ corrupt
            /\ tl.current # NoTask
            /\ tl' = [tl EXCEPT !.current = task_get_next(tl)]
            /\ UNCHANGED <<live, corrupt, h, chunk, lost>>

(* task_free.  The freed structure keeps its page_directory, which nothing *)
(* reads until task_init sets it again.                                    *)
FreeTask(t) == /\ ~ corrupt
               /\ t \in live
               /\ tl' = task_list_remove(tl, t)
               /\ live' = live \ {t}
               /\ corrupt' = Stale(t)
               /\ h' = kfree(paging_free_4gb(h, chunk[t]), t)
               /\ chunk' = [chunk EXCEPT ![t] = NoChunk]
               /\ UNCHANGED lost

Next == Schedule \/ NewTask \/ \E t \in live : FreeTask(t)

Spec == Init /\ [][Next]_vars

-----------------------------------------------------------------------------
(* task.h:50 "Previous task in the linked list": the prev field of a task  *)
(* on the list leads to the task before it, that of the first one nowhere. *)
PrevExact ==
    corrupt \/ LET q == Order(tl)
               IN  \A i \in DOMAIN q :
                       tl.prev[q[i]] = IF i = 1 THEN NoTask ELSE q[i - 1]

(* As long as no stale prev field was followed, the next fields link       *)
(* exactly the live tasks, each once, the tail is the last one, and the    *)
(* task that runs is one of them (task_new and task_list_remove).          *)
ListExact ==
    corrupt \/ LET q == Order(tl)
               IN  /\ {q[i] : i \in DOMAIN q} = live
                   /\ Len(q) = Cardinality(live)
                   /\ live # {} => tl.tail = q[Len(q)] /\ tl.current \in live
                   /\ live = {} => tl.current = NoTask

Turns == INSTANCE RoundRobin WITH queue <- Order(tl), running <- tl.current

(* Tasks take turns in the order of their creation, until a stale prev     *)
(* field is followed: the list implements the round robin.                 *)
TakesTurns == Turns!Init /\ [][corrupt' \/ Turns!Next]_list

(* What a live task has: its structure and what its page_directory leads   *)
(* to.                                                                     *)
Took(t) == {t} \cup ChunkBlocks(chunk[t])

(* Freeing a task gives back what creating it took, no more and no less:   *)
(* every live task has its structure, its directory with a table in every  *)
(* entry and the chunk for itself, and beyond the kernel's memory the      *)
(* bitmap marks these blocks and what a creation that failed had taken,    *)
(* and the counter agrees, however often tasks come and go (task_new, task_free,   *)
(* paging_new_4gb, paging_free_4gb).                                       *)
MemoryExact ==
    LET own == Reserved \cup paging_new_4gb(kheap_init).got
    IN  /\ \A t \in live : Cardinality(Took(t)) = TABLES + 3
        /\ \A t \in live : Took(t) \cap (own \cup lost) = {}
        /\ \A t, u \in live : t # u => Took(t) \cap Took(u) = {}
        /\ h.map = own \cup lost \cup UNION {Took(t) : t \in live}
        /\ h.free = SYSTEM_BLOCKS - Cardinality(h.map)
=============================================================================
