--------------------------- MODULE RunQueueProofs ---------------------------
(***************************************************************************)
(* The list of tasks in use keeps its memory and its links exact, for      *)
(* every number of blocks and of page tables, and implements the round     *)
(* robin. The memory is exact in every state; the list is as long as no    *)
(* stale prev field was followed. Two invariants carry the proofs: MemInv, *)
(* about the blocks, makes the structure that a new task gets one that is  *)
(* not on the list; QueueInv, about the links, keeps the first task the    *)
(* only one whose prev field is null, which is what task_list_remove       *)
(* relies on.                                                              *)
(***************************************************************************)
EXTENDS RunQueue, LayerProofs

(* The blocks of the kernel: those reserved at boot and its own page       *)
(* directory with its tables and its chunk.                                *)
own == Reserved \cup paging_new_4gb(kheap_init).got

(* The inductive invariant of the memory. Beyond MemoryExact it says what  *)
(* the allocator needs: no area of several blocks was handed out, every    *)
(* address is a block, and a structure is no part of its own directory.    *)
MemInv ==
    /\ h \in HeapType
    /\ h.big = [i \in Slots |-> EmptyEntry]
    /\ h.map \subseteq Pages
    /\ live \subseteq Tasks
    /\ DOMAIN chunk = Tasks
    /\ \A t \in live : /\ ChunkBlocks(chunk[t]) \in SUBSET Tasks
                       /\ t \notin ChunkBlocks(chunk[t])
                       /\ Cardinality(ChunkBlocks(chunk[t])) = TABLES + 2
    /\ \A t \in live : Took(t) \cap (own \cup lost) = {}
    /\ \A t, u \in live : t # u => Took(t) \cap Took(u) = {}
    /\ h.map = own \cup lost \cup UNION {Took(t) : t \in live}
    /\ h.free = SYSTEM_BLOCKS - Cardinality(h.map)

(* Task structures are the blocks but the null one, and there are finitely *)
(* many.                                                                   *)
LEMMA TasksAreBlocks ==
    /\ IsFiniteSet(Tasks) /\ IsFiniteSet(Pages)
    /\ Tasks = Pages \ {NULL}
    /\ NULL \in Reserved /\ Reserved \subseteq Pages
  <1>1. Tasks = 1 .. (SYSTEM_BLOCKS - 1) /\ Pages = 0 .. (SYSTEM_BLOCKS - 1)
    BY RunQueueAssumption DEF Pages
  <1>2. IsFiniteSet(Tasks) /\ IsFiniteSet(Pages)
    BY <1>1, FS_Interval, PmmAssumption
  <1>3. Tasks = Pages \ {NULL} /\ NULL \in Reserved /\ Reserved \subseteq Pages
    BY <1>1, PmmAssumption DEF NULL, Reserved
  <1> QED BY <1>2, <1>3

(* Taking clear blocks keeps the counter that of the clear blocks.         *)
LEMMA TakenCount ==
    ASSUME NEW g, g.map \subseteq Pages, g.free = SYSTEM_BLOCKS - Cardinality(g.map),
           NEW k, NEW B, TakenSet(g, k, B)
    PROVE  k.map \subseteq Pages /\ k.free = SYSTEM_BLOCKS - Cardinality(k.map)
  <1>1. B \subseteq Pages /\ B \cap g.map = {} /\ k.map = g.map \cup B
    BY PmmAssumption DEF TakenSet, Pages
  <1>2. IsFiniteSet(B) /\ IsFiniteSet(g.map)
    BY <1>1, TasksAreBlocks, FS_Subset
  <1>3. Cardinality(g.map \cup B) = Cardinality(g.map) + Cardinality(B)
    BY <1>1, <1>2, MarkCount
  <1>4. Cardinality(k.map) = Cardinality(g.map) + Cardinality(B)
    BY <1>1, <1>3, Zenon
  <1>5. Cardinality(g.map) \in Nat /\ Cardinality(B) \in Nat
    BY <1>2, FS_CardinalityType
  <1>6. k.free = g.free - Cardinality(B)
    BY DEF TakenSet
  <1>7. k.free = SYSTEM_BLOCKS - Cardinality(k.map)
    BY <1>4, <1>5, <1>6, PmmAssumption
  <1>8. k.map \subseteq Pages
    BY <1>1
  <1> QED BY <1>7, <1>8

(* The kernel starts with its own directory taken and nothing else.        *)
LEMMA MemInit == Init => MemInv
  <1> SUFFICES ASSUME Init PROVE MemInv
    OBVIOUS
  <1> DEFINE g == kheap_init
             r == paging_new_4gb(g)
  <1>1. g \in HeapType /\ g.map = Reserved /\ g.big = [i \in Slots |-> EmptyEntry]
    BY PmmAssumption DEF kheap_init, pmm_init, HeapType, Reserved, Entry, EmptyEntry, NULL
  <1>2. g.free = SYSTEM_BLOCKS - Cardinality(g.map)
    <2>1. Cardinality(Reserved) = RESERVED_BLOCKS
      BY FS_Interval, PmmAssumption DEF Reserved
    <2> QED BY <1>1, <2>1 DEF kheap_init, pmm_init
  <1>3. TakenSet(g, r.h, r.got)
    <2> HIDE DEF g
    <2> QED BY <1>1, NewDirectoryEffect
  <1>4. h = r.h /\ live = {} /\ chunk = [t \in Tasks |-> NoChunk] /\ lost = {}
    BY DEF Init
  <1> HIDE DEF r, g
  <1>5. own = Reserved \cup r.got
    BY DEF own, r, g
  <1>6. r.h.map \subseteq Pages /\ r.h.free = SYSTEM_BLOCKS - Cardinality(r.h.map)
    BY <1>1, <1>2, <1>3, TakenCount, TasksAreBlocks
  <1> QED BY <1>1, <1>3, <1>4, <1>5, <1>6 DEF MemInv, TakenSet

(* A creation takes one clear block for the structure and clear blocks for *)
(* the directory: either the task is on the list and they are its own, or  *)
(* they are lost; without a block for the structure nothing changes        *)
(* (task_new, task_init).                                                  *)
LEMMA NewTaskEffect ==
    ASSUME MemInv, NewTask
    PROVE  \/ UNCHANGED <<tl, live, chunk, lost, h>>
           \/ \E a \in Tasks : \E B \in SUBSET Tasks :
                 /\ a \notin h.map /\ a \notin B
                 /\ TakenSet(h, h', B \cup {a})
                 /\ \/ /\ Cardinality(B) = TABLES + 2
                       /\ tl' = task_new(tl, a)
                       /\ live' = live \cup {a}
                       /\ \E c : ChunkBlocks(c) = B /\ chunk' = [chunk EXCEPT ![a] = c]
                       /\ lost' = lost
                    \/ /\ lost' = lost \cup B \cup {a}
                       /\ UNCHANGED <<tl, live, chunk>>
  <1> DEFINE task == kmallac(h, 1)
             paging == IF task.addr = NULL
                       THEN [h |-> h, got |-> {}, ok |-> FALSE, chunk |-> NoChunk]
                       ELSE paging_new_4gb(task.h)
  <1>1. task = pmm_allocate_block(h)
    BY KheapAssumption DEF kmallac
  <1>2. /\ h' = paging.h
        /\ IF paging.ok
           THEN /\ tl' = task_new(tl, task.addr)
                /\ live' = live \cup {task.addr}
                /\ chunk' = [chunk EXCEPT ![task.addr] = paging.chunk]
                /\ lost' = lost
           ELSE /\ lost' = lost \cup paging.got \cup ({task.addr} \ {NULL})
                /\ UNCHANGED <<tl, live, chunk>>
    BY DEF NewTask
  <1>3. h \in HeapType
    BY DEF MemInv
  <1>4. CASE task.addr = NULL
    BY <1>2, <1>4
  <1>5. CASE task.addr # NULL
    <2>1. /\ task.addr \in Tasks /\ task.addr \notin h.map
          /\ Taken(h, task.h, task.addr, 1)
      BY <1>1, <1>3, <1>5, OneBlock, RunQueueAssumption
    <2>2. paging = paging_new_4gb(task.h)
      BY <1>5
    <2>3. /\ paging.ok \in BOOLEAN
          /\ TakenSet(task.h, paging.h, paging.got)
          /\ paging.ok => /\ Cardinality(paging.got) = TABLES + 2
                          /\ ChunkBlocks(paging.chunk) = paging.got
      <3>1. task.h \in HeapType
        BY <2>1 DEF Taken
      <3> HIDE DEF task, paging
      <3> QED BY <2>2, <3>1, NewDirectoryEffect
    <2> DEFINE a == task.addr
               B == paging.got
    <2> HIDE DEF task, paging
    <2>4. Area(a, 1) = {a}
      BY <2>1, RunQueueAssumption DEF Area
    <2>5. B \in SUBSET Tasks /\ a \notin B
      BY <2>1, <2>3, <2>4, RunQueueAssumption DEF Taken, TakenSet
    <2>6. TakenSet(h, h', B \cup {a})
      <3>1. IsFiniteSet(B) /\ Cardinality(B \cup {a}) = Cardinality(B) + 1 /\ Cardinality(B) \in Nat
        BY <2>5, TasksAreBlocks, FS_Subset, FS_AddElement, FS_CardinalityType
      <3>2. h'.map = h.map \cup (B \cup {a}) /\ (B \cup {a}) \cap h.map = {}
        BY <1>2, <2>1, <2>3, <2>4 DEF Taken, TakenSet
      <3>3. B \cup {a} \subseteq 1 .. (SYSTEM_BLOCKS - 1)
        BY <2>1, <2>5, RunQueueAssumption
      <3>4. h.used \in Int /\ h.free \in Int
        BY <1>3 DEF HeapType
      <3> HIDE DEF a, B
      <3>5. h'.used = h.used + Cardinality(B \cup {a}) /\ h'.free = h.free - Cardinality(B \cup {a})
        BY <1>2, <2>1, <2>3, <3>1, <3>4 DEF Taken, TakenSet, a, B
      <3>6. h' \in HeapType /\ h'.big = h.big
        BY <1>2, <2>1, <2>3 DEF Taken, TakenSet
      <3> QED BY <3>2, <3>3, <3>5, <3>6 DEF TakenSet
    <2>7. {task.addr} \ {NULL} = {a}
      BY <1>5
    <2> QED BY <1>2, <2>1, <2>3, <2>5, <2>6, <2>7
  <1> QED BY <1>4, <1>5

(* What a live task took is marked.                                        *)
LEMMA LiveMarked ==
    ASSUME MemInv
    PROVE  \A t \in live : t \in h.map /\ Took(t) \subseteq h.map /\ Took(t) \subseteq Tasks
  BY DEF MemInv, Took

(* A creation, successful or not, keeps the memory exact.                  *)
LEMMA MemNewTask ==
    ASSUME MemInv, NewTask
    PROVE  MemInv'
  <1>1. CASE UNCHANGED <<tl, live, chunk, lost, h>>
    <2>1. \A t \in live : Took(t)' = Took(t)
      BY <1>1 DEF Took
    <2>2. {Took(t)' : t \in live} = {Took(t) : t \in live}
      BY <2>1
    <2>3. own' = own
      BY DEF own
    <2> QED BY <1>1, <2>1, <2>2, <2>3 DEF MemInv
  <1>2. ASSUME NEW a \in Tasks, NEW B \in SUBSET Tasks,
               a \notin h.map, a \notin B,
               TakenSet(h, h', B \cup {a}),
               Cardinality(B) = TABLES + 2,
               live' = live \cup {a},
               NEW c, ChunkBlocks(c) = B, chunk' = [chunk EXCEPT ![a] = c],
               lost' = lost
        PROVE  MemInv'
    <2>1. h'.map \subseteq Pages /\ h'.free = SYSTEM_BLOCKS - Cardinality(h'.map)
      BY <1>2, TakenCount DEF MemInv
    <2>2. h' \in HeapType /\ h'.big = h.big /\ h'.map = h.map \cup B \cup {a} /\ (B \cup {a}) \cap h.map = {}
      BY <1>2 DEF TakenSet
    <2>3. DOMAIN chunk' = Tasks /\ chunk'[a] = c /\ \A t \in live : chunk'[t] = chunk[t]
      BY <1>2, LiveMarked DEF MemInv
    <2>4. a \notin live /\ \A t \in live : Took(t)' = Took(t)
      BY <1>2, <2>3, LiveMarked DEF Took
    <2>5. Took(a)' = B \cup {a}
      BY <1>2, <2>3 DEF Took
    <2>6. own \cup lost \subseteq h.map /\ \A t \in live : Took(t) \subseteq h.map
      BY LiveMarked DEF MemInv
    <2>7. UNION {Took(t)' : t \in live'} = (UNION {Took(t) : t \in live}) \cup B \cup {a}
      <3>1. {Took(t)' : t \in live'} = {Took(t) : t \in live} \cup {B \cup {a}}
        BY <1>2, <2>4, <2>5
      <3> QED BY <3>1
    <2>8. own' = own
      BY DEF own
    <2>9. h'.map = own \cup lost \cup UNION {Took(t)' : t \in live'}
      BY <2>2, <2>7 DEF MemInv
    <2>10. \A t \in live' : Took(t)' \cap (own \cup lost) = {}
      BY <1>2, <2>2, <2>4, <2>5, <2>6 DEF MemInv
    <2>11. \A t, u \in live' : t # u => Took(t)' \cap Took(u)' = {}
      BY <1>2, <2>2, <2>4, <2>5, <2>6 DEF MemInv
    <2>12. \A t \in live' : /\ ChunkBlocks(chunk'[t]) \in SUBSET Tasks
                             /\ t \notin ChunkBlocks(chunk'[t])
                             /\ Cardinality(ChunkBlocks(chunk'[t])) = TABLES + 2
      BY <1>2, <2>3 DEF MemInv
    <2> QED BY <1>2, <2>1, <2>2, <2>3, <2>8, <2>9, <2>10, <2>11, <2>12 DEF MemInv
  <1>3. ASSUME NEW a \in Tasks, NEW B \in SUBSET Tasks,
               a \notin h.map, a \notin B,
               TakenSet(h, h', B \cup {a}),
               lost' = lost \cup B \cup {a},
               UNCHANGED <<live, chunk>>
        PROVE  MemInv'
    <2>1. h'.map \subseteq Pages /\ h'.free = SYSTEM_BLOCKS - Cardinality(h'.map)
      BY <1>3, TakenCount DEF MemInv
    <2>2. h' \in HeapType /\ h'.big = h.big /\ h'.map = h.map \cup B \cup {a} /\ (B \cup {a}) \cap h.map = {}
      BY <1>3 DEF TakenSet
    <2>3. \A t \in live : Took(t)' = Took(t)
      BY <1>3 DEF Took
    <2>4. own' = own
      BY DEF own
    <2>5. \A t \in live : Took(t) \cap (own \cup lost') = {}
      BY <1>3, <2>2, LiveMarked DEF MemInv
    <2>6. {Took(t)' : t \in live} = {Took(t) : t \in live}
      BY <2>3
    <2>7. h'.map = own \cup lost' \cup UNION {Took(t)' : t \in live}
      BY <1>3, <2>2, <2>6 DEF MemInv
    <2> QED BY <1>3, <2>1, <2>2, <2>3, <2>4, <2>5, <2>7 DEF MemInv
  <1> QED BY <1>1, <1>2, <1>3, NewTaskEffect

(* Freeing a task clears its structure and the blocks of its directory and *)
(* counts each (task_free, paging_free_4gb, kfree).                        *)
LEMMA FreeEffect ==
    ASSUME MemInv, NEW t \in live, FreeTask(t)
    PROVE  /\ h' \in HeapType /\ h'.big = h.big
           /\ h'.map = h.map \ Took(t)
           /\ h'.free = h.free + Cardinality(Took(t))
  <1> DEFINE B == ChunkBlocks(chunk[t])
             n == TABLES + 2
             g == paging_free_4gb(h, chunk[t])
  <1>1. /\ h \in HeapType /\ t \in Tasks /\ B \in SUBSET Tasks /\ t \notin B
        /\ n \in Nat /\ Cardinality(B) = n
        /\ \A i \in Slots : h.big[i] = EmptyEntry
    BY PagingAssumption DEF MemInv
  <1>2. IsFiniteSet(B) /\ Cardinality(Took(t)) = n + 1
    <2>1. IsFiniteSet(B)
      BY <1>1, TasksAreBlocks, FS_Subset
    <2>2. Cardinality(B \cup {t}) = n + 1
      BY <1>1, <2>1, FS_AddElement
    <2>3. Took(t) = B \cup {t}
      BY DEF Took
    <2> QED BY <2>1, <2>2, <2>3, Zenon
  <1>3. /\ g \in HeapType /\ g.map = h.map \ B /\ g.big = h.big
        /\ g.free = h.free + n
    <2>1. g = [h EXCEPT !.map = h.map \ B, !.used = h.used - n, !.free = h.free + n]
      BY <1>1 DEF paging_free_4gb, HeapType
    <2>2. h.map \ B \in SUBSET Nat /\ h.used - n \in Int /\ h.free + n \in Int
      BY <1>1, <1>2 DEF HeapType
    <2> HIDE DEF g, n
    <2> QED BY <1>1, <2>1, <2>2, Zenon DEF HeapType
  <1> HIDE DEF g, B
  <1>4. t \in Nat /\ t # NULL
    BY <1>1, TaskListAssumption DEF NULL
  <1>5. Returned(g, kfree(g, t), t, 1) /\ kfree(g, t).big = g.big
    <2>1. \A i \in Slots : g.big[i].addr # t
      BY <1>1, <1>3, <1>4 DEF EmptyEntry
    <2> QED BY <1>3, <1>4, <2>1, KfreeEffect
  <1>6. h' = kfree(g, t)
    BY DEF FreeTask, g, B
  <1>7. Area(t, 1) = {t}
    BY <1>4 DEF Area
  <1>8. h'.map = (h.map \ B) \ {t} /\ h'.free = h.free + n + 1
    BY <1>1, <1>3, <1>5, <1>6, <1>7 DEF Returned
  <1>9. h.free \in Int
    BY <1>1 DEF HeapType
  <1>10. Took(t) = B \cup {t}
    BY DEF Took, B
  <1> HIDE DEF n
  <1>11. h' \in HeapType /\ h'.big = h.big
    BY <1>3, <1>5, <1>6 DEF Returned
  <1>12. h'.map = h.map \ Took(t)
    BY <1>8, <1>10
  <1>13. h'.free = h.free + Cardinality(Took(t))
    BY <1>1, <1>2, <1>8, <1>9
  <1> QED BY <1>11, <1>12, <1>13

(* A free keeps the memory exact.                                          *)
LEMMA MemFreeTask ==
    ASSUME MemInv, NEW t \in live, FreeTask(t)
    PROVE  MemInv'
  <1>1. live' = live \ {t} /\ chunk' = [chunk EXCEPT ![t] = NoChunk] /\ lost' = lost
    BY DEF FreeTask
  <1>2. /\ h' \in HeapType /\ h'.big = h.big
        /\ h'.map = h.map \ Took(t)
        /\ h'.free = h.free + Cardinality(Took(t))
    BY FreeEffect
  <1>3. Took(t) \subseteq h.map /\ IsFiniteSet(h.map) /\ h'.map \subseteq Pages
    BY <1>2, LiveMarked, TasksAreBlocks, FS_Subset DEF MemInv
  <1>4. h'.free = SYSTEM_BLOCKS - Cardinality(h'.map)
    <2>1. Cardinality(h.map \ Took(t)) = Cardinality(h.map) - Cardinality(Took(t))
      BY <1>3, ClearCount
    <2>2. Cardinality(h'.map) = Cardinality(h.map) - Cardinality(Took(t))
      BY <1>2, <2>1, Zenon
    <2>3. Cardinality(h.map) \in Nat /\ Cardinality(Took(t)) \in Nat
      BY <1>3, FS_Subset, FS_CardinalityType
    <2>4. h.free = SYSTEM_BLOCKS - Cardinality(h.map)
      BY DEF MemInv
    <2>5. h'.free = h.free + Cardinality(Took(t))
      BY <1>2
    <2> QED BY <2>2, <2>3, <2>4, <2>5, PmmAssumption
  <1>5. DOMAIN chunk' = Tasks /\ \A u \in live' : chunk'[u] = chunk[u]
    BY <1>1 DEF MemInv
  <1>6. \A u \in live' : Took(u)' = Took(u)
    BY <1>5 DEF Took
  <1>7. own' = own
    BY DEF own
  <1>8. h'.map = own \cup lost \cup UNION {Took(u)' : u \in live'}
    <2>1. {Took(u)' : u \in live'} = {Took(u) : u \in live'}
      BY <1>6
    <2>2. \A b \in UNION {Took(u) : u \in live} : b \notin Took(t) <=> b \in UNION {Took(u) : u \in live'}
      BY <1>1 DEF MemInv
    <2>3. UNION {Took(u) : u \in live'} \subseteq UNION {Took(u) : u \in live}
      BY <1>1
    <2>4. Took(t) \cap (own \cup lost) = {}
      BY DEF MemInv
    <2>5. h.map = own \cup lost \cup UNION {Took(u) : u \in live}
      BY DEF MemInv
    <2> QED BY <1>2, <2>1, <2>2, <2>3, <2>4, <2>5
  <1> QED BY <1>1, <1>2, <1>3, <1>4, <1>5, <1>6, <1>7, <1>8 DEF MemInv

(* Every step keeps the memory exact.                                      *)
LEMMA MemStep == MemInv /\ [Next]_vars => MemInv'
  <1> SUFFICES ASSUME MemInv, [Next]_vars PROVE MemInv'
    OBVIOUS
  <1>1. ASSUME UNCHANGED <<live, h, chunk, lost>>
        PROVE  MemInv'
    <2>1. \A t \in live : Took(t)' = Took(t)
      BY <1>1 DEF Took
    <2>2. {Took(t)' : t \in live} = {Took(t) : t \in live}
      BY <2>1
    <2>3. own' = own
      BY DEF own
    <2> QED BY <1>1, <2>1, <2>2, <2>3 DEF MemInv
  <1>2. CASE Schedule
    BY <1>1, <1>2 DEF Schedule
  <1>3. CASE UNCHANGED vars
    BY <1>1, <1>3 DEF vars
  <1> QED BY <1>2, <1>3, MemNewTask, MemFreeTask DEF Next

(* The invariant of the memory holds in every state.                       *)
THEOREM MemoryInvariance == Spec => []MemInv
  <1> QED BY MemInit, MemStep, PTL DEF Spec

(* Freeing a task gives back exactly what creating it took, for every      *)
(* number of blocks and of tables (task_new, task_free, paging_new_4gb,    *)
(* paging_free_4gb).                                                       *)
THEOREM MemoryAlwaysExact == Spec => []MemoryExact
  <1>1. MemInv => MemoryExact
    <2> SUFFICES ASSUME MemInv PROVE MemoryExact
      OBVIOUS
    <2>1. ASSUME NEW t \in live
          PROVE  Cardinality(Took(t)) = TABLES + 3
      <3> DEFINE B == ChunkBlocks(chunk[t])
                 n == TABLES + 2
      <3>1. B \in SUBSET Tasks /\ t \notin B /\ Cardinality(B) = n
        BY DEF MemInv
      <3>2. IsFiniteSet(B)
        BY <3>1, TasksAreBlocks, FS_Subset
      <3>3. Cardinality(B \cup {t}) = n + 1
        BY <3>1, <3>2, FS_AddElement
      <3>4. Took(t) = B \cup {t}
        BY DEF Took
      <3>5. Cardinality(Took(t)) = n + 1
        BY <3>3, <3>4, Zenon
      <3> QED BY <3>5, PagingAssumption
    <2> QED BY <2>1 DEF MemInv, MemoryExact, own
  <1> QED BY <1>1, MemoryInvariance, PTL

-----------------------------------------------------------------------------
(* The next fields link the tasks of q, which are the live ones, and no    *)
(* prev field but that of the first task is null. Where the others lead is *)
(* not known: task_list_remove leaves them stale.                          *)
QueueInv(q) == /\ InOrder(tl, q)
               /\ Elements(q) = live
               /\ \A i \in 1 .. Len(q) : tl.prev[q[i]] = NoTask => i = 1

(* The inductive invariant of the links.                                   *)
ListInv == corrupt \/ \E q : QueueInv(q)

(* The empty list.                                                         *)
LEMMA QueueInit == Init => QueueInv(<<>>)
  <1> SUFFICES ASSUME Init PROVE QueueInv(<<>>)
    OBVIOUS
  <1>1. EmptyList \in ListType
    BY DEF EmptyList, ListType, Link
  <1>2. <<>> \in Seq(Tasks) /\ Len(<<>>) = 0
    OBVIOUS
  <1> QED BY <1>1, <1>2 DEF Init, QueueInv, InOrder, Links, Distinct, Elements, EmptyList

(* A turn passes to the next task and keeps the order (task_get_next).     *)
LEMMA ScheduleStep ==
    ASSUME NEW q, QueueInv(q), Schedule
    PROVE  \E i \in 1 .. Len(q) : /\ q[i] = tl.current
                                  /\ tl'.current = q[(i % Len(q)) + 1]
                                  /\ QueueInv(q)'
  <1>1. /\ InOrder(tl, q) /\ tl.current # NoTask /\ live' = live
        /\ tl' = [tl EXCEPT !.current = task_get_next(tl)]
    BY DEF QueueInv, Schedule
  <1>2. PICK i \in 1 .. Len(q) : q[i] = tl.current /\ task_get_next(tl) = q[(i % Len(q)) + 1]
    BY <1>1, NextTurn
  <1>3. InOrder(tl', q) /\ tl'.current = q[(i % Len(q)) + 1]
    BY <1>1, <1>2, NextTurn, TurnInOrder
  <1>4. tl'.prev = tl.prev
    BY <1>1 DEF InOrder, ListType
  <1>5. QueueInv(q)'
    BY <1>1, <1>3, <1>4 DEF QueueInv
  <1> QED BY <1>2, <1>3, <1>5

(* A creation appends its task or changes nothing of the list (task_new).  *)
LEMMA NewTaskStep ==
    ASSUME MemInv, NEW q, QueueInv(q), NewTask
    PROVE  \/ UNCHANGED <<tl, live>> /\ QueueInv(q)'
           \/ \E t \in Tasks : /\ t \notin Elements(q)
                               /\ QueueInv(Append(q, t))'
                               /\ tl'.current = IF q = <<>> THEN t ELSE tl.current
  <1>1. CASE UNCHANGED <<tl, live>>
    BY <1>1 DEF QueueInv
  <1>2. ASSUME NEW t \in Tasks, t \notin h.map,
               tl' = task_new(tl, t), live' = live \cup {t}
        PROVE  /\ t \notin Elements(q)
               /\ QueueInv(Append(q, t))'
               /\ tl'.current = IF q = <<>> THEN t ELSE tl.current
    <2>1. t \notin Elements(q)
      BY <1>2, LiveMarked DEF QueueInv
    <2>2. /\ InOrder(tl, q) /\ q \in Seq(Tasks) /\ Len(q) \in Nat /\ tl \in ListType
          /\ \A i \in 1 .. Len(q) : q[i] # t
      BY <2>1 DEF QueueInv, InOrder, Links, Elements
    <2>3. /\ InOrder(tl', Append(q, t))
          /\ Elements(Append(q, t)) = live \cup {t}
          /\ tl'.current = IF q = <<>> THEN t ELSE tl.current
          /\ tl'.prev = [tl.prev EXCEPT ![t] = IF q = <<>> THEN NoTask ELSE tl.tail]
      BY <1>2, <2>1, <2>2, NewTaskInOrder DEF QueueInv
    <2>4. q # <<>> => tl.tail \in Tasks /\ tl.tail # NoTask
      <3>1. q # <<>> => tl.tail = q[Len(q)] /\ Len(q) \in 1 .. Len(q)
        BY <2>2 DEF InOrder
      <3> QED BY <2>2, <3>1, TaskListAssumption DEF NoTask
    <2>5. ASSUME NEW i \in 1 .. Len(Append(q, t)), tl'.prev[Append(q, t)[i]] = NoTask
          PROVE  i = 1
      <3>1. Len(Append(q, t)) = Len(q) + 1
        BY <2>2
      <3>2. CASE i = Len(q) + 1
        <4>1. Append(q, t)[i] = t /\ tl'.prev[t] = IF q = <<>> THEN NoTask ELSE tl.tail
          BY <2>2, <2>3, <3>2 DEF ListType
        <4>2. q = <<>>
          BY <2>4, <2>5, <4>1
        <4> QED BY <3>2, <4>2
      <3>3. CASE i # Len(q) + 1
        <4>1. i \in 1 .. Len(q) /\ Append(q, t)[i] = q[i] /\ q[i] # t /\ q[i] \in Tasks
          BY <2>2, <3>1, <3>3
        <4>2. tl'.prev[q[i]] = tl.prev[q[i]]
          BY <2>2, <2>3, <4>1 DEF ListType
        <4> QED BY <2>5, <4>1, <4>2 DEF QueueInv
      <3> QED BY <3>2, <3>3
    <2> QED BY <1>2, <2>1, <2>3, <2>5 DEF QueueInv
  <1> QED BY <1>1, <1>2, NewTaskEffect

(* A free that follows no stale prev field takes its task out of the order *)
(* and passes its turn on (task_list_remove).                              *)
LEMMA FreeTaskStep ==
    ASSUME NEW q, QueueInv(q), NEW t \in live, FreeTask(t), ~ corrupt'
    PROVE  \E k \in 1 .. Len(q) :
              /\ q[k] = t
              /\ QueueInv(Without(q, k))'
              /\ tl'.current = IF tl.current # t THEN tl.current
                               ELSE IF Len(q) = 1 THEN NoTask ELSE q[(k % Len(q)) + 1]
  <1>1. /\ ~ Stale(t) /\ tl' = task_list_remove(tl, t) /\ live' = live \ {t}
    BY DEF FreeTask
  <1>2. PICK k \in 1 .. Len(q) : q[k] = t
    BY DEF QueueInv, Elements
  <1>3. \/ tl.prev[q[k]] = NoTask /\ k = 1
        \/ tl.prev[q[k]] \in Elements(q) /\ tl.next[tl.prev[q[k]]] = q[k]
    BY <1>1, <1>2 DEF QueueInv, Stale
  <1>4. /\ InOrder(tl', Without(q, k))
        /\ Elements(Without(q, k)) = Elements(q) \ {t}
        /\ tl'.current = IF tl.current # t THEN tl.current
                         ELSE IF Len(q) = 1 THEN NoTask ELSE q[(k % Len(q)) + 1]
        /\ tl'.prev = tl.prev
    BY <1>1, <1>2, <1>3, RemoveTaskInOrder DEF QueueInv
  <1>5. /\ q \in Seq(Tasks) /\ Len(q) \in Nat
        /\ Len(Without(q, k)) = Len(q) - 1
        /\ \A i \in 1 .. (Len(q) - 1) : Without(q, k)[i] = IF i < k THEN q[i] ELSE q[i + 1]
    BY WithoutEntries DEF QueueInv, InOrder, Links
  <1>6. ASSUME NEW i \in 1 .. Len(Without(q, k)), tl.prev[Without(q, k)[i]] = NoTask
        PROVE  i = 1
    <2>1. i \in 1 .. (Len(q) - 1) /\ Without(q, k)[i] = IF i < k THEN q[i] ELSE q[i + 1]
      BY <1>5
    <2>2. CASE i < k
      <3>1. i \in 1 .. Len(q) /\ tl.prev[q[i]] = NoTask
        BY <1>5, <1>6, <2>1, <2>2
      <3> QED BY <3>1 DEF QueueInv
    <2>3. CASE ~ (i < k)
      <3>1. i + 1 \in 1 .. Len(q) /\ i + 1 # 1 /\ tl.prev[q[i + 1]] = NoTask
        BY <1>5, <1>6, <2>1, <2>3
      <3> QED BY <3>1 DEF QueueInv
    <2> QED BY <2>2, <2>3
  <1> QED BY <1>1, <1>2, <1>4, <1>6 DEF QueueInv

(* A step that changes neither the list nor the live tasks.                *)
LEMMA QueueKept ==
    ASSUME NEW q, QueueInv(q), UNCHANGED <<tl, live>>
    PROVE  QueueInv(q)'
  BY DEF QueueInv

(* Every step that follows no stale prev field keeps the links.            *)
LEMMA ListStep == MemInv /\ ListInv /\ [Next]_vars => ListInv'
  <1> SUFFICES ASSUME MemInv, ListInv, [Next]_vars, ~ corrupt'
               PROVE  \E q : QueueInv(q)'
    BY DEF ListInv
  <1>1. ~ corrupt
    BY DEF Next, vars, Schedule, NewTask, FreeTask
  <1>2. PICK q : QueueInv(q)
    BY <1>1 DEF ListInv
  <1>3. CASE Schedule
    BY <1>2, <1>3, ScheduleStep
  <1>4. CASE NewTask
    BY <1>2, <1>4, NewTaskStep
  <1>5. ASSUME NEW t \in live, FreeTask(t)
        PROVE  \E p : QueueInv(p)'
    BY <1>2, <1>5, FreeTaskStep
  <1>6. CASE UNCHANGED vars
    <2>1. UNCHANGED <<tl, live>>
      BY <1>6 DEF vars
    <2> QED BY <1>2, <2>1, QueueKept
  <1> QED BY <1>3, <1>4, <1>5, <1>6 DEF Next

(* The invariant of the links holds as long as none was followed.          *)
THEOREM ListInvariance == Spec => [](MemInv /\ ListInv)
  <1>1. Init => ListInv
    BY QueueInit DEF ListInv
  <1> QED BY <1>1, MemInit, MemStep, ListStep, PTL DEF Spec

(* Walking the list finds the tasks in their order.                        *)
LEMMA QueueIsOrder ==
    ASSUME NEW q, QueueInv(q)
    PROVE  Order(tl) = q
  BY OrderExact, TasksAreBlocks DEF QueueInv

(* The next fields link exactly the live tasks, each once, the tail is the *)
(* last one and the running task one of them, until a stale prev field is  *)
(* followed (task_new, task_list_remove).                                  *)
THEOREM ListAlwaysExact == Spec => []ListExact
  <1>1. ListInv => ListExact
    <2> SUFFICES ASSUME ListInv, ~ corrupt
                 PROVE  LET q == Order(tl)
                        IN  /\ {q[i] : i \in DOMAIN q} = live
                            /\ Len(q) = Cardinality(live)
                            /\ live # {} => tl.tail = q[Len(q)] /\ tl.current \in live
                            /\ live = {} => tl.current = NoTask
      BY DEF ListExact
    <2>1. PICK q : QueueInv(q)
      BY DEF ListInv
    <2>2. Order(tl) = q
      BY <2>1, QueueIsOrder
    <2>3. /\ InOrder(tl, q) /\ Elements(q) = live /\ q \in Seq(Tasks)
          /\ Len(q) \in Nat /\ DOMAIN q = 1 .. Len(q)
      BY <2>1 DEF QueueInv, InOrder, Links
    <2>4. Len(q) = Cardinality(live)
      <3>1. Cardinality(Elements(q)) = Len(q)
        BY <2>3, DistinctCount DEF InOrder
      <3> QED BY <2>3, <3>1, Zenon
    <2>5. live # {} => q # <<>>
      BY <2>3 DEF Elements
    <2>6. live = {} => q = <<>>
      BY <2>3 DEF Elements
    <2>7. /\ {q[i] : i \in DOMAIN q} = live
          /\ live # {} => tl.tail = q[Len(q)] /\ tl.current \in live
          /\ live = {} => tl.current = NoTask
      BY <2>3, <2>5, <2>6 DEF InOrder, Elements
    <2> QED BY <2>2, <2>4, <2>7
  <1> QED BY <1>1, ListInvariance, PTL

(* The library's removal of an entry is ours.                              *)
LEMMA RemoveIsWithout ==
    ASSUME NEW q \in Seq(Tasks), NEW k \in 1 .. Len(q)
    PROVE  Turns!RemoveAt(q, k) = Without(q, k)
  BY DEF Turns!RemoveAt, Without

(* The list implements the round robin until a stale prev field is         *)
(* followed: it starts empty, and each step adds a task at the end, passes *)
(* the turn to the next one or removes a task (task_new, task_get_next,    *)
(* task_list_remove).                                                      *)
THEOREM TasksTakeTurns == Spec => TakesTurns
  <1>1. Init => Turns!Init
    <2> SUFFICES ASSUME Init PROVE Turns!Init
      OBVIOUS
    <2>1. Order(tl) = <<>>
      BY QueueInit, QueueIsOrder
    <2> QED BY <2>1 DEF Turns!Init, Init, EmptyList, NoTask
  <1>2. MemInv /\ ListInv /\ (MemInv /\ ListInv)' /\ [Next]_vars => [corrupt' \/ Turns!Next]_list
    <2> SUFFICES ASSUME MemInv, ListInv, [Next]_vars, ~ corrupt', list' # list
                 PROVE  Turns!Next
      OBVIOUS
    <2>1. ~ corrupt /\ ~ UNCHANGED vars
      BY DEF Next, vars, list, Schedule, NewTask, FreeTask
    <2>2. PICK q : QueueInv(q)
      BY <2>1 DEF ListInv
    <2>3. /\ Order(tl) = q /\ q \in Seq(Tasks) /\ Len(q) \in Nat /\ DOMAIN q = 1 .. Len(q)
      BY <2>2, QueueIsOrder DEF QueueInv, InOrder, Links
    <2>4. \A p : QueueInv(p)' => Order(tl') = p
      BY OrderExact, TasksAreBlocks DEF QueueInv
    <2>5. CASE Schedule
      <3>1. PICK i \in 1 .. Len(q) : /\ q[i] = tl.current
                                     /\ tl'.current = q[(i % Len(q)) + 1]
                                     /\ QueueInv(q)'
        BY <2>2, <2>5, ScheduleStep
      <3>2. Order(tl') = q
        BY <2>4, <3>1
      <3>3. Turns!Turn
        BY <2>3, <3>1, <3>2 DEF Turns!Turn, Turns!After
      <3> QED BY <3>3 DEF Turns!Next, Turns!Stay
    <2>6. CASE NewTask
      <3>1. ~ UNCHANGED <<tl, live>>
        BY DEF list
      <3>2. PICK t \in Tasks : /\ t \notin Elements(q)
                               /\ QueueInv(Append(q, t))'
                               /\ tl'.current = IF q = <<>> THEN t ELSE tl.current
        BY <2>2, <2>6, <3>1, NewTaskStep
      <3>3. Order(tl') = Append(q, t)
        BY <2>4, <3>2
      <3>4. Turns!ToSet(q) = Elements(q)
        BY <2>3 DEF Turns!ToSet, Elements
      <3>5. Turns!Add(t)
        BY <2>3, <3>2, <3>3, <3>4 DEF Turns!Add
      <3> QED BY <3>5 DEF Turns!Next, Turns!Stay
    <2>7. ASSUME NEW t \in live, FreeTask(t)
          PROVE  Turns!Next
      <3>1. PICK k \in 1 .. Len(q) :
                 /\ q[k] = t
                 /\ QueueInv(Without(q, k))'
                 /\ tl'.current = IF tl.current # t THEN tl.current
                                  ELSE IF Len(q) = 1 THEN NoTask ELSE q[(k % Len(q)) + 1]
        BY <2>2, <2>7, FreeTaskStep
      <3>2. Order(tl') = Without(q, k)
        BY <2>4, <3>1
      <3>3. Turns!RemoveAt(q, k) = Without(q, k)
        BY <2>3, RemoveIsWithout
      <3>4. t \in Tasks
        BY DEF MemInv
      <3>5. Turns!Leave(t)
        BY <2>3, <3>1, <3>2, <3>3 DEF Turns!Leave, Turns!After, NoTask
      <3> QED BY <3>4, <3>5 DEF Turns!Next, Turns!Stay
    <2> QED BY <2>1, <2>5, <2>6, <2>7 DEF Next
  <1> QED BY <1>1, <1>2, ListInvariance, PTL DEF Spec, TakesTurns
=============================================================================
