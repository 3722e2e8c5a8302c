---------------------------- MODULE LayerProofs ----------------------------
(***************************************************************************)
(* Lemmas about the operators the kernel's layers are built from.          *)
(*                                                                         *)
(* What one call of pmm.c and kheap.c does to a well-typed heap (Kheap),   *)
(* what a sequence of single-block requests does to it (Paging), and what  *)
(* creating and removing a task does to the list (TaskList), for every     *)
(* size of memory, of the table and of a request and for every list.  The  *)
(* proofs about the components that own memory or tasks rest on them.      *)
(*                                                                         *)
(* Two definitions are recursive: RecursionProofs says that the function   *)
(* exists and what it computes.                                            *)
(***************************************************************************)
EXTENDS Paging, TaskList, RecursionProofs, FiniteSetTheorems, SequenceTheorems

HeapType == [map : SUBSET Nat, used : Int, free : Int, big : [Slots -> Entry]]

(* k is g after n blocks from a were taken and counted. *)
Taken(g, k, a, n) == /\ k \in HeapType
                     /\ k.map = g.map \cup Area(a, n)
                     /\ k.used = g.used + n
                     /\ k.free = g.free - n
                     /\ k.big = g.big

(* k is g after blocks from a were marked and not counted. *)
Marked(g, k, a, n) == /\ k \in HeapType
                      /\ k.map = g.map \cup Area(a, n)
                      /\ k.used = g.used
                      /\ k.free = g.free
                      /\ k.big = g.big

(* A block that the search returns is clear and below SYSTEM_BLOCKS. *)
LEMMA FirstFreeBlock ==
    ASSUME NEW g \in HeapType
    PROVE  LET f == pmm_get_first_free_block(g)
           IN  f = -1 \/ (f \in 0 .. (SYSTEM_BLOCKS - 1) /\ f \notin g.map)
  <1> DEFINE first == {i \in 0 .. (SYSTEM_BLOCKS - 1) :
                         i \notin g.map /\ \A j \in 0 .. (i - 1) : j \in g.map}
  <1>1. CASE first = {}
    BY <1>1 DEF pmm_get_first_free_block
  <1>2. CASE first # {}
    <2>1. (CHOOSE i \in first : TRUE) \in first
      BY <1>2
    <2> QED BY <1>2, <2>1 DEF pmm_get_first_free_block
  <1> QED BY <1>1, <1>2

(* A run that the search returns is clear, starts after block 0 and stays  *)
(* clear of the last block.                                                *)
LEMMA FirstRun ==
    ASSUME NEW g \in HeapType, NEW n \in Nat
    PROVE  LET s == pmm_get_first_n_blocks(g, n)
           IN  \/ s = 0
               \/ /\ s \in 1 .. (SYSTEM_BLOCKS - n - 1)
                  /\ \A i \in Area(s, n) : i \notin g.map
  <1> DEFINE starts == 1 .. (SYSTEM_BLOCKS - n - 1)
             first  == {s \in starts :
                          /\ pmm_check_range(g, s, s + n)
                          /\ \A r \in 1 .. (s - 1) : ~ pmm_check_range(g, r, r + n)}
  <1>1. CASE first = {}
    BY <1>1 DEF pmm_get_first_n_blocks
  <1>2. CASE first # {}
    <2>1. (CHOOSE s \in first : TRUE) \in first
      BY <1>2
    <2>2. pmm_get_first_n_blocks(g, n) \in first
      BY <1>2, <2>1 DEF pmm_get_first_n_blocks
    <2> QED BY <2>2 DEF pmm_check_range, Area
  <1> QED BY <1>1, <1>2

(* What a request for one block does. *)
LEMMA OneBlock ==
    ASSUME NEW g \in HeapType
    PROVE  LET r == pmm_allocate_block(g)
           IN  \/ r.addr = NULL /\ r.h = g
               \/ /\ r.addr \in 1 .. (SYSTEM_BLOCKS - 1)
                  /\ r.addr \notin g.map
                  /\ Taken(g, r.h, r.addr, 1)
  <1> DEFINE f == pmm_get_first_free_block(g)
  <1>1. f = -1 \/ (f \in 0 .. (SYSTEM_BLOCKS - 1) /\ f \notin g.map)
    BY FirstFreeBlock
  <1>2. CASE g.free = 0 \/ f <= 0
    BY <1>2 DEF pmm_allocate_block
  <1>3. CASE ~ (g.free = 0 \/ f <= 0)
    <2>1. f \in 1 .. (SYSTEM_BLOCKS - 1) /\ f \notin g.map
      BY <1>1, <1>3, PmmAssumption
    <2>2. pmm_allocate_block(g) = [h |-> [g EXCEPT !.map  = @ \cup {f},
                                                   !.used = @ + 1,
                                                   !.free = @ - 1],
                                   addr |-> f]
      BY <1>3 DEF pmm_allocate_block
    <2>3. Area(f, 1) = {f}
      BY <2>1 DEF Area
    <2>4. Taken(g, [g EXCEPT !.map = @ \cup {f}, !.used = @ + 1, !.free = @ - 1], f, 1)
      <3>1. g.map \cup Area(f, 1) \in SUBSET Nat /\ g.used + 1 \in Int /\ g.free - 1 \in Int
        BY <2>1, <2>3 DEF HeapType
      <3> HIDE DEF f
      <3> QED BY <2>3, <3>1, Zenon DEF HeapType, Taken
    <2> HIDE DEF f
    <2> QED BY <2>1, <2>2, <2>4
  <1> QED BY <1>2, <1>3

(* What a request for a run of n blocks does: a refused one may have       *)
(* marked blocks 0 .. n-1.                                                 *)
LEMMA ManyBlocks ==
    ASSUME NEW g \in HeapType, NEW n \in Nat
    PROVE  LET r == pmm_allocate_first_n_blocks(g, n)
           IN  \/ r.addr = NULL /\ Marked(g, r.h, 0, n)
               \/ /\ r.addr \in 1 .. (SYSTEM_BLOCKS - n - 1)
                  /\ \A i \in Area(r.addr, n) : i \notin g.map
                  /\ Taken(g, r.h, r.addr, n)
  <1> DEFINE s == pmm_get_first_n_blocks(g, n)
  <1>1. s = 0 \/ (s \in 1 .. (SYSTEM_BLOCKS - n - 1) /\ \A i \in Area(s, n) : i \notin g.map)
    BY FirstRun
  <1>2. CASE s = 0
    <2>1. pmm_allocate_first_n_blocks(g, n)
            = [h |-> [g EXCEPT !.map = @ \cup Area(0, n)], addr |-> NULL]
      BY <1>2 DEF pmm_allocate_first_n_blocks
    <2>2. Marked(g, [g EXCEPT !.map = @ \cup Area(0, n)], 0, n)
      BY DEF HeapType, Marked, Area
    <2> QED BY <2>1, <2>2
  <1>3. CASE s # 0
    <2> DEFINE m == [g EXCEPT !.map = @ \cup Area(s, n)]
    <2>1. pmm_allocate_first_n_blocks(g, n)
            = [h |-> [m EXCEPT !.used = @ + n, !.free = @ - n], addr |-> s]
      BY <1>3 DEF pmm_allocate_first_n_blocks
    <2>2. Marked(g, m, s, n)
      BY <1>1, <1>3 DEF HeapType, Marked, Area
    <2> HIDE DEF m
    <2>3. Taken(g, [m EXCEPT !.used = @ + n, !.free = @ - n], s, n)
      <3>1. m.used + n \in Int /\ m.free - n \in Int
        BY <2>2 DEF HeapType, Marked
      <3> QED BY <2>2, <3>1, Zenon DEF HeapType, Marked, Taken
    <2> HIDE DEF s
    <2> QED BY <1>1, <1>3, <2>1, <2>3
  <1> QED BY <1>2, <1>3

(* A search of the table finds an entry with the address if there is one.  *)
LEMMA SearchAddress ==
    ASSUME NEW g \in HeapType, NEW a \in Nat
    PROVE  LET s == search_address(g, a)
           IN  \/ s = 0 /\ \A i \in Slots : g.big[i].addr # a
               \/ s \in Slots /\ g.big[s].addr = a
  <1> DEFINE found == {i \in Slots : g.big[i].addr = a}
             first == {i \in Slots : /\ g.big[i].addr = a
                                     /\ \A j \in 1 .. (i - 1) : g.big[j].addr # a}
  <1>1. CASE found = {}
    <2>1. first = {}
      BY <1>1
    <2> QED BY <1>1, <2>1 DEF search_address
  <1>2. CASE found # {}
    <2>1. PICK i \in found : \A j \in found : i <= j
      <3>1. found \in SUBSET Nat
        BY KheapAssumption DEF Slots
      <3> QED BY <1>2, <3>1, LeastNatural
    <2>2. i \in Slots /\ g.big[i].addr = a
      OBVIOUS
    <2>3. \A j \in 1 .. (i - 1) : g.big[j].addr # a
      BY <2>1, <2>2, KheapAssumption DEF Slots
    <2>4. first # {}
      BY <2>2, <2>3
    <2>5. (CHOOSE k \in first : TRUE) \in first
      BY <2>4
    <2> QED BY <2>4, <2>5 DEF search_address
  <1> QED BY <1>1, <1>2

(* The number of blocks of a request: at least one, and more than one for  *)
(* a request of more than a page.                                          *)
LEMMA BlocksForType ==
    ASSUME NEW size \in Nat
    PROVE  /\ BlocksFor(size) \in Nat \ {0}
           /\ size > PAGE <=> BlocksFor(size) > 1
  <1>1. CASE size <= PAGE
    BY <1>1, KheapAssumption DEF BlocksFor
  <1>2. CASE size > PAGE
    <2> DEFINE q == size \div PAGE
               r == size % PAGE
    <2>1. size = PAGE * q + r /\ q \in Nat /\ r \in Nat /\ r < PAGE
      BY <1>2, KheapAssumption
    <2>2. q >= 1 /\ (q = 1 => r # 0)
      <3> HIDE DEF q, r
      <3>1. q # 0
        BY <1>2, <2>1, KheapAssumption
      <3>2. q = 1 => r # 0
        BY <1>2, <2>1, KheapAssumption
      <3> QED BY <2>1, <3>1, <3>2
    <2>3. BlocksFor(size) = q + IF r = 0 THEN 0 ELSE 1
      BY <1>2, KheapAssumption DEF BlocksFor
    <2> HIDE DEF q, r
    <2> QED BY <1>2, <2>1, <2>2, <2>3
  <1> QED BY <1>1, <1>2, KheapAssumption

(* k is g after a request was granted the n blocks from a: counted, and    *)
(* recorded in the first empty entry of the table if there are several.    *)
Granted(g, k, a, n) ==
    /\ k \in HeapType
    /\ k.map = g.map \cup Area(a, n)
    /\ k.used = g.used + n
    /\ k.free = g.free - n
    /\ k.big = IF n = 1 \/ search_address(g, NULL) = 0
               THEN g.big
               ELSE [g.big EXCEPT ![search_address(g, NULL)] = [addr |-> a, blocks |-> n]]

(* What kmallac does. *)
LEMMA KmallacEffect ==
    ASSUME NEW g \in HeapType, NEW size \in Nat
    PROVE  LET r == kmallac(g, size)
               n == BlocksFor(size)
           IN  \/ /\ r.addr = NULL
                  /\ r.h = g \/ Marked(g, r.h, 0, n)
               \/ /\ r.addr \in 1 .. (SYSTEM_BLOCKS - n)
                  /\ \A i \in Area(r.addr, n) : i \notin g.map
                  /\ Granted(g, r.h, r.addr, n)
  <1> DEFINE n == BlocksFor(size)
             slot == search_address(g, NULL)
  <1>0. n \in Nat \ {0} /\ (size > PAGE <=> n > 1)
    BY BlocksForType
  <1>1. CASE size <= PAGE
    <2> DEFINE r == pmm_allocate_block(g)
    <2>1. kmallac(g, size) = r /\ n = 1
      BY <1>0, <1>1, KheapAssumption DEF kmallac
    <2>2. \/ r.addr = NULL /\ r.h = g
          \/ /\ r.addr \in 1 .. (SYSTEM_BLOCKS - 1)
             /\ r.addr \notin g.map
             /\ Taken(g, r.h, r.addr, 1)
      BY OneBlock
    <2> HIDE DEF r, n
    <2>3. r.addr \in Nat => Area(r.addr, 1) = {r.addr}
      BY DEF Area
    <2>4. Taken(g, r.h, r.addr, 1) => Granted(g, r.h, r.addr, 1)
      BY DEF Taken, Granted
    <2> QED BY <2>1, <2>2, <2>3, <2>4 DEF n
  <1>2. CASE size > PAGE
    <2> DEFINE r == pmm_allocate_first_n_blocks(g, n)
    <2>1. \/ r.addr = NULL /\ Marked(g, r.h, 0, n)
          \/ /\ r.addr \in 1 .. (SYSTEM_BLOCKS - n - 1)
             /\ \A i \in Area(r.addr, n) : i \notin g.map
             /\ Taken(g, r.h, r.addr, n)
      BY <1>0, ManyBlocks
    <2>2. CASE r.addr = NULL
      <3>1. kmallac(g, size) = r
        BY <1>2, <2>2 DEF kmallac
      <3>2. Marked(g, r.h, 0, n)
        BY <2>1, <2>2, PmmAssumption DEF NULL
      <3> HIDE DEF r
      <3> QED BY <2>2, <3>1, <3>2
    <2>3. CASE r.addr # NULL
      <3> DEFINE k == insert_in_big_blocks(r.h, r.addr, n)
      <3>1. kmallac(g, size).addr = r.addr /\ kmallac(g, size).h = k
        <4>1. kmallac(g, size) = [r EXCEPT !.h = k]
          BY <1>2, <2>3 DEF kmallac
        <4>2. r \in [h : {r.h}, addr : {r.addr}]
          BY DEF pmm_allocate_first_n_blocks
        <4> HIDE DEF r, k
        <4> QED BY <4>1, <4>2
      <3>2. /\ r.addr \in 1 .. (SYSTEM_BLOCKS - n - 1)
            /\ \A i \in Area(r.addr, n) : i \notin g.map
            /\ Taken(g, r.h, r.addr, n)
        BY <2>1, <2>3
      <3> HIDE DEF r
      <3>3. search_address(r.h, NULL) = slot
        BY <3>2 DEF search_address, Taken
      <3>4. Granted(g, k, r.addr, n)
        <4>1. CASE slot = 0
          BY <1>0, <3>2, <3>3, <4>1 DEF insert_in_big_blocks, Taken, Granted
        <4>2. CASE slot # 0
          <5>1. slot \in Slots
            BY <4>2, SearchAddress DEF NULL
          <5>2. r.h.big \in [Slots -> Entry] /\ [addr |-> r.addr, blocks |-> n] \in Entry
            BY <1>0, <3>2 DEF Taken, HeapType, Entry
          <5>3. k = [r.h EXCEPT !.big = [r.h.big EXCEPT ![slot] = [addr |-> r.addr, blocks |-> n]]]
            BY <3>3, <4>2 DEF insert_in_big_blocks
          <5> DEFINE b == [r.h.big EXCEPT ![slot] = [addr |-> r.addr, blocks |-> n]]
          <5>4. b \in [Slots -> Entry]
            BY <5>1, <5>2
          <5> HIDE DEF b, slot, n, k
          <5>5. /\ k \in HeapType
                /\ k.map = r.h.map /\ k.used = r.h.used /\ k.free = r.h.free /\ k.big = b
            BY <3>2, <5>3, <5>4 DEF b, Taken, HeapType
          <5> QED BY <1>0, <1>2, <3>2, <4>2, <5>5 DEF b, slot, Taken, Granted
        <4> QED BY <4>1, <4>2
      <3> HIDE DEF n, k
      <3> QED BY <1>0, <3>1, <3>2, <3>4, PmmAssumption DEF n
    <2> QED BY <2>2, <2>3
  <1> QED BY <1>1, <1>2, KheapAssumption

(* k is g after the n blocks from a were given back. *)
Returned(g, k, a, n) == /\ k \in HeapType
                        /\ k.map = g.map \ Area(a, n)
                        /\ k.used = g.used - n
                        /\ k.free = g.free + n

(* What kfree does, for an address in the table and for any other. *)
LEMMA KfreeEffect ==
    ASSUME NEW g \in HeapType, NEW a \in Nat
    PROVE  LET k == kfree(g, a)
               s == search_address(g, a)
           IN  \/ /\ s \in Slots
                  /\ g.big[s].addr = a
                  /\ Returned(g, k, a, g.big[s].blocks)
                  /\ k.big = [g.big EXCEPT ![s] = EmptyEntry]
               \/ /\ \A i \in Slots : g.big[i].addr # a
                  /\ Returned(g, k, a, 1)
                  /\ k.big = g.big
  <1> DEFINE s == search_address(g, a)
             k == kfree(g, a)
  <1>1. CASE s # 0
    <2>1. s \in Slots /\ g.big[s].addr = a
      BY <1>1, SearchAddress
    <2> DEFINE n == g.big[s].blocks
               m == g.map \ Area(a, n)
               b == [g.big EXCEPT ![s] = EmptyEntry]
    <2>2. k = [g EXCEPT !.map = m, !.used = @ - n, !.free = @ + n, !.big[s] = EmptyEntry]
      BY <1>1, <2>1 DEF kfree, free_big_blocks
    <2>3. g.used - n \in Int /\ g.free + n \in Int /\ n \in Nat /\ m \in SUBSET Nat
      BY <2>1 DEF HeapType, Entry
    <2>4. b \in [Slots -> Entry]
      BY DEF HeapType, Entry, EmptyEntry, NULL
    <2>5. k = [g EXCEPT !.map = m, !.used = g.used - n, !.free = g.free + n, !.big = b]
      BY <2>2
    <2> HIDE DEF n, m, b, k, s
    <2>6. /\ k \in HeapType
          /\ k.map = m /\ k.used = g.used - n /\ k.free = g.free + n /\ k.big = b
      BY <2>3, <2>4, <2>5, Zenon DEF HeapType
    <2> QED BY <2>1, <2>6 DEF Returned, n, m, b, k, s
  <1>2. CASE s = 0
    <2>1. \A i \in Slots : g.big[i].addr # a
      BY <1>2, SearchAddress, KheapAssumption DEF Slots
    <2>2. k = [g EXCEPT !.map = @ \ {a}, !.used = @ - 1, !.free = @ + 1]
      BY <1>2 DEF kfree, pmm_free_block
    <2>3. /\ g.used - 1 \in Int /\ g.free + 1 \in Int /\ g.map \ {a} \in SUBSET Nat
          /\ Area(a, 1) = {a}
      BY DEF HeapType, Area
    <2> HIDE DEF k, s
    <2>4. /\ k \in HeapType
          /\ k.map = g.map \ {a} /\ k.used = g.used - 1 /\ k.free = g.free + 1 /\ k.big = g.big
      BY <2>2, <2>3, Zenon DEF HeapType
    <2> QED BY <2>1, <2>3, <2>4 DEF Returned, k
  <1> QED BY <1>1, <1>2

-----------------------------------------------------------------------------
(* The number of blocks in an area.                                        *)
LEMMA AreaSize ==
    ASSUME NEW a \in Nat, NEW n \in Nat
    PROVE  IsFiniteSet(Area(a, n)) /\ Cardinality(Area(a, n)) = n
  BY FS_Interval DEF Area

(* Marking n clear blocks makes the set n larger, clearing them smaller.   *)
LEMMA MarkCount ==
    ASSUME NEW S, NEW T, IsFiniteSet(S), IsFiniteSet(T), S \cap T = {}
    PROVE  /\ IsFiniteSet(S \cup T)
           /\ Cardinality(S \cup T) = Cardinality(S) + Cardinality(T)
  <1>1. Cardinality({}) = 0
    BY FS_EmptySet
  <1>2. Cardinality(S) \in Nat /\ Cardinality(T) \in Nat
    BY FS_CardinalityType
  <1>3. S \cap T = {}
    OBVIOUS
  <1>4. /\ IsFiniteSet(S \cup T)
        /\ Cardinality(S \cup T) = Cardinality(S) + Cardinality(T) - Cardinality(S \cap T)
    BY FS_Union
  <1>5. Cardinality(S \cap T) = 0
    BY <1>1, <1>3, Zenon
  <1> QED BY <1>2, <1>4, <1>5

(* Clearing blocks that are marked.                                        *)
LEMMA ClearCount ==
    ASSUME NEW S, NEW T, IsFiniteSet(S), T \subseteq S
    PROVE  /\ IsFiniteSet(S \ T)
           /\ Cardinality(S \ T) = Cardinality(S) - Cardinality(T)
  <1>1. S \cap T = T
    OBVIOUS
  <1>2. IsFiniteSet(S \ T) /\ Cardinality(S \ T) = Cardinality(S) - Cardinality(S \cap T)
    BY FS_Difference
  <1> QED BY <1>1, <1>2, Zenon

-----------------------------------------------------------------------------
(* A search that fails has seen every block or every run, and one that     *)
(* succeeds stops at the first.                                            *)
LEMMA FreeBlockSearch ==
    ASSUME NEW g \in HeapType
    PROVE  LET f == pmm_get_first_free_block(g)
           IN  \/ f = -1 /\ 0 .. (SYSTEM_BLOCKS - 1) \subseteq g.map
               \/ f \in 0 .. (SYSTEM_BLOCKS - 1) /\ \A j \in 0 .. (f - 1) : j \in g.map
  <1> DEFINE clear == {i \in 0 .. (SYSTEM_BLOCKS - 1) : i \notin g.map}
             first == {i \in 0 .. (SYSTEM_BLOCKS - 1) :
                         i \notin g.map /\ \A j \in 0 .. (i - 1) : j \in g.map}
  <1>1. CASE clear = {}
    <2>1. first = {}
      BY <1>1
    <2> QED BY <1>1, <2>1 DEF pmm_get_first_free_block
  <1>2. CASE clear # {}
    <2>1. PICK i \in clear : \A j \in clear : i <= j
      <3>1. clear \in SUBSET Nat
        BY PmmAssumption
      <3> QED BY <1>2, <3>1, LeastNatural
    <2>2. \A j \in 0 .. (i - 1) : j \in g.map
      <3>1. ASSUME NEW j \in 0 .. (i - 1) PROVE j \in g.map
        <4>1. i \in 0 .. (SYSTEM_BLOCKS - 1)
          OBVIOUS
        <4>2. j \in 0 .. (SYSTEM_BLOCKS - 1) /\ ~ (i <= j)
          BY <3>1, <4>1, PmmAssumption
        <4>3. j \notin clear
          BY <2>1, <4>2
        <4> QED BY <4>2, <4>3
      <3> QED BY <3>1
    <2>3. i \in first
      BY <2>2
    <2>4. (CHOOSE k \in first : TRUE) \in first
      BY <2>3
    <2>5. pmm_get_first_free_block(g) \in first
      BY <2>3, <2>4 DEF pmm_get_first_free_block
    <2> QED BY <2>5
  <1> QED BY <1>1, <1>2

(* A search for a run that fails has met a marked block in each.           *)
LEMMA RunSearch ==
    ASSUME NEW g \in HeapType, NEW n \in Nat, pmm_get_first_n_blocks(g, n) = 0
    PROVE  \A r \in 1 .. (SYSTEM_BLOCKS - n - 1) : \E i \in Area(r, n) : i \in g.map
  <1> DEFINE starts == 1 .. (SYSTEM_BLOCKS - n - 1)
             runs  == {s \in starts : pmm_check_range(g, s, s + n)}
             first == {s \in starts :
                         /\ pmm_check_range(g, s, s + n)
                         /\ \A r \in 1 .. (s - 1) : ~ pmm_check_range(g, r, r + n)}
  <1>1. runs = {}
    <2> SUFFICES ASSUME runs # {} PROVE FALSE
      OBVIOUS
    <2>1. PICK s \in runs : \A r \in runs : s <= r
      <3>1. runs \in SUBSET Nat
        OBVIOUS
      <3> QED BY <3>1, LeastNatural
    <2>2. \A r \in 1 .. (s - 1) : ~ pmm_check_range(g, r, r + n)
      <3>1. ASSUME NEW r \in 1 .. (s - 1) PROVE ~ pmm_check_range(g, r, r + n)
        <4>1. s \in starts
          OBVIOUS
        <4>2. r \in starts /\ ~ (s <= r)
          BY <3>1, <4>1, PmmAssumption
        <4>3. r \notin runs
          BY <2>1, <4>2
        <4> QED BY <4>2, <4>3
      <3> QED BY <3>1
    <2>3. s \in first
      BY <2>2
    <2>4. (CHOOSE k \in first : TRUE) \in first
      BY <2>3
    <2>5. pmm_get_first_n_blocks(g, n) \in first
      BY <2>3, <2>4 DEF pmm_get_first_n_blocks
    <2> QED BY <2>5
  <1> QED BY <1>1 DEF pmm_check_range, Area

(* When kmallac refuses, and that it hands out no single block while the   *)
(* null block is clear.                                                    *)
LEMMA KmallacRefusal ==
    ASSUME NEW g \in HeapType, NEW size \in Nat
    PROVE  LET r == kmallac(g, size)
               n == BlocksFor(size)
           IN  /\ n = 1 /\ r.addr = NULL =>
                     /\ r.h = g
                     /\ \/ g.free = 0
                        \/ NULL \notin g.map
                        \/ 0 .. (SYSTEM_BLOCKS - 1) \subseteq g.map
               /\ n = 1 /\ r.addr # NULL => NULL \in g.map
               /\ n # 1 /\ r.addr = NULL =>
                     /\ Marked(g, r.h, 0, n)
                     /\ \A s \in 1 .. (SYSTEM_BLOCKS - n - 1) : \E i \in Area(s, n) : i \in g.map
  <1> DEFINE n == BlocksFor(size)
             f == pmm_get_first_free_block(g)
             s == pmm_get_first_n_blocks(g, n)
  <1>0. n \in Nat \ {0} /\ (size > PAGE <=> n > 1)
    BY BlocksForType
  <1>1. CASE n = 1
    <2>1. kmallac(g, size) = pmm_allocate_block(g)
      BY <1>0, <1>1 DEF kmallac
    <2>2. \/ f = -1 /\ 0 .. (SYSTEM_BLOCKS - 1) \subseteq g.map
          \/ f \in 0 .. (SYSTEM_BLOCKS - 1) /\ \A j \in 0 .. (f - 1) : j \in g.map
      BY FreeBlockSearch
    <2>3. f = 0 => NULL \notin g.map
      BY FirstFreeBlock DEF NULL
    <2>4. CASE g.free = 0 \/ f <= 0
      <3>1. pmm_allocate_block(g) = [h |-> g, addr |-> NULL]
        BY <2>4 DEF pmm_allocate_block
      <3>2. g.free = 0 \/ NULL \notin g.map \/ 0 .. (SYSTEM_BLOCKS - 1) \subseteq g.map
        <4> HIDE DEF f
        <4> QED BY <2>2, <2>3, <2>4, PmmAssumption
      <3> HIDE DEF n
      <3> QED BY <1>1, <2>1, <3>1, <3>2 DEF n
    <2>5. CASE ~ (g.free = 0 \/ f <= 0)
      <3>1. pmm_allocate_block(g).addr = f
        BY <2>5 DEF pmm_allocate_block
      <3>2. f # NULL /\ NULL \in g.map
        <4> HIDE DEF f
        <4> QED BY <2>2, <2>5, PmmAssumption DEF NULL
      <3> HIDE DEF n, f
      <3> QED BY <1>1, <2>1, <3>1, <3>2 DEF n
    <2> QED BY <2>4, <2>5
  <1>2. CASE n # 1
    <2> DEFINE r == pmm_allocate_first_n_blocks(g, n)
    <2>1. \/ r.addr = NULL /\ Marked(g, r.h, 0, n)
          \/ r.addr \in 1 .. (SYSTEM_BLOCKS - n - 1)
      BY <1>0, ManyBlocks
    <2>2. kmallac(g, size) = IF r.addr = NULL THEN r ELSE [r EXCEPT !.h = insert_in_big_blocks(@, r.addr, n)]
      BY <1>0, <1>2 DEF kmallac
    <2>3. r.addr = s
      BY DEF pmm_allocate_first_n_blocks, NULL
    <2>4. kmallac(g, size).addr = r.addr
      <3>1. r \in [h : {r.h}, addr : {r.addr}]
        BY DEF pmm_allocate_first_n_blocks
      <3> HIDE DEF r, n
      <3> QED BY <2>2, <3>1
    <2>5. r.addr = NULL => Marked(g, r.h, 0, n)
      BY <2>1, <1>0, PmmAssumption DEF NULL
    <2>6. r.addr = NULL => \A t \in 1 .. (SYSTEM_BLOCKS - n - 1) : \E i \in Area(t, n) : i \in g.map
      BY <1>0, <2>3, RunSearch DEF NULL
    <2>7. r.addr = NULL => kmallac(g, size).h = r.h
      <3> HIDE DEF r, n
      <3> QED BY <2>2
    <2> HIDE DEF r, n
    <2> QED BY <1>2, <2>4, <2>5, <2>6, <2>7 DEF n
  <1> QED BY <1>1, <1>2

-----------------------------------------------------------------------------
(* k is g after the blocks of B, all clear, were taken one by one.         *)
TakenSet(g, k, B) == /\ k \in HeapType
                     /\ B \subseteq 1 .. (SYSTEM_BLOCKS - 1)
                     /\ B \cap g.map = {}
                     /\ k.map = g.map \cup B
                     /\ k.used = g.used + Cardinality(B)
                     /\ k.free = g.free - Cardinality(B)
                     /\ k.big = g.big

(* There are finitely many blocks.                                         *)
LEMMA BlockSetFinite ==
    ASSUME NEW B \in SUBSET (1 .. (SYSTEM_BLOCKS - 1))
    PROVE  IsFiniteSet(B) /\ Cardinality(B) \in Nat
  <1>1. IsFiniteSet(1 .. (SYSTEM_BLOCKS - 1))
    BY FS_Interval, PmmAssumption
  <1>2. IsFiniteSet(B)
    BY <1>1, FS_Subset
  <1> QED BY <1>2, FS_CardinalityType

Elements(q) == {q[i] : i \in 1 .. Len(q)}

(* One more element at the end of a sequence.                              *)
LEMMA ElementsAppend ==
    ASSUME NEW S, NEW q \in Seq(S), NEW a \in S
    PROVE  /\ Append(q, a) \in Seq(S)
           /\ Len(Append(q, a)) = Len(q) + 1
           /\ Elements(Append(q, a)) = Elements(q) \cup {a}
  <1> DEFINE p == Append(q, a)
  <1>1. /\ p \in Seq(S) /\ Len(q) \in Nat /\ Len(p) = Len(q) + 1
        /\ p[Len(q) + 1] = a
        /\ \A i \in 1 .. Len(q) : p[i] = q[i]
    BY AppendProperties
  <1> HIDE DEF p
  <1>2. \A b \in Elements(p) : b \in Elements(q) \cup {a}
    BY <1>1 DEF Elements
  <1>3. \A b \in Elements(q) \cup {a} : b \in Elements(p)
    BY <1>1 DEF Elements
  <1>4. Elements(p) = Elements(q) \cup {a}
    BY <1>2, <1>3
  <1> QED BY <1>1, <1>4 DEF p

(* TakeBlocks takes blocks that were clear, counts each, and as many as    *)
(* were asked for unless one was refused.                                  *)
LEMMA TakeBlocksEffect ==
    ASSUME NEW g \in HeapType, NEW n \in Nat
    PROVE  LET r == TakeBlocks(g, n)
           IN  /\ r.ok \in BOOLEAN
               /\ r.got \in Seq(Nat)
               /\ TakenSet(g, r.h, Elements(r.got))
               /\ r.ok => Cardinality(Elements(r.got)) = n /\ Len(r.got) = n
  <1> DEFINE next(p) == LET r == pmm_allocate_block(p.h)
                        IN  IF ~ p.ok \/ r.addr = NULL
                            THEN [p EXCEPT !.ok = FALSE]
                            ELSE [h |-> r.h, got |-> Append(p.got, r.addr), ok |-> TRUE]
             first == [h |-> g, got |-> <<>>, ok |-> TRUE]
             States == [h : HeapType, got : Seq(Nat), ok : BOOLEAN]
             step == [p \in States |-> next(p)]
             take == CHOOSE take : take = [i \in 0 .. n |-> IF i = 0 THEN first ELSE next(take[i - 1])]
  <1>1. TakeBlocks(g, n) = take[n]
    BY DEF TakeBlocks
  <1>2. first \in States
    OBVIOUS
  <1>3. ASSUME NEW p \in States
        PROVE  next(p) \in States
    <2> DEFINE r == pmm_allocate_block(p.h)
    <2>1. r.addr = NULL \/ (r.addr \in Nat /\ r.h \in HeapType)
      BY OneBlock DEF Taken
    <2> HIDE DEF r
    <2>2. next(p) = IF ~ p.ok \/ r.addr = NULL THEN [p EXCEPT !.ok = FALSE]
                    ELSE [h |-> r.h, got |-> Append(p.got, r.addr), ok |-> TRUE]
      BY DEF r
    <2>3. [p EXCEPT !.ok = FALSE] \in States
      OBVIOUS
    <2>4. CASE ~ p.ok \/ r.addr = NULL
      BY <2>2, <2>3, <2>4, Zenon
    <2>5. CASE ~ (~ p.ok \/ r.addr = NULL)
      <3>1. Append(p.got, r.addr) \in Seq(Nat) /\ r.h \in HeapType
        BY <2>1, <2>5
      <3>2. next(p) = [h |-> r.h, got |-> Append(p.got, r.addr), ok |-> TRUE]
        BY <2>2, <2>5, Zenon
      <3> HIDE DEF next
      <3> QED BY <3>1, <3>2
    <2> QED BY <2>4, <2>5
  <1> HIDE DEF next, first
  <1>4. step \in [States -> States]
    BY <1>3
  <1> HIDE DEF States
  <1>5. PICK f \in [Nat -> States] : f[0] = first /\ \A i \in Nat : f[i + 1] = step[f[i]]
    <2> HIDE DEF step
    <2> QED BY <1>2, <1>4, PrimitiveRecursion
  <1>6. take = [i \in 0 .. n |-> IF i = 0 THEN first ELSE next(take[i - 1])]
    <2> DEFINE k == [i \in 0 .. n |-> f[i]]
    <2>1. k = [i \in 0 .. n |-> IF i = 0 THEN first ELSE next(k[i - 1])]
      <3>1. ASSUME NEW i \in 0 .. n, i # 0
            PROVE  f[i] = next(k[i - 1])
        <4>1. i - 1 \in Nat /\ i - 1 \in 0 .. n /\ (i - 1) + 1 = i
          BY <3>1
        <4>2. f[(i - 1) + 1] = step[f[i - 1]]
          BY <1>5, <4>1
        <4> QED BY <1>5, <4>1, <4>2
      <3> QED BY <1>5, <3>1
    <2> HIDE DEF k
    <2> QED BY <2>1
  <1> HIDE DEF take
  <1> DEFINE Good(i) == i <= n => /\ take[i] \in States
                                  /\ TakenSet(g, take[i].h, Elements(take[i].got))
                                  /\ take[i].ok => /\ Cardinality(Elements(take[i].got)) = i
                                                   /\ Len(take[i].got) = i
  <1>7. Good(0)
    <2>1. take[0] = first
      BY <1>6
    <2>2. TakenSet(g, g, {})
      BY FS_EmptySet DEF TakenSet, HeapType
    <2>3. Len(<<>>) = 0 /\ Elements(<<>>) = {}
      BY DEF Elements
    <2>4. first.h = g /\ first.got = <<>>
      BY DEF first
    <2> QED BY <1>2, <2>1, <2>2, <2>3, <2>4, FS_EmptySet
  <1>8. ASSUME NEW i \in Nat, Good(i)
        PROVE  Good(i + 1)
    <2> SUFFICES ASSUME i + 1 <= n PROVE Good(i + 1)
      OBVIOUS
    <2> DEFINE p == take[i]
               r == pmm_allocate_block(p.h)
    <2>1. /\ p \in States /\ TakenSet(g, p.h, Elements(p.got))
          /\ p.ok => Cardinality(Elements(p.got)) = i /\ Len(p.got) = i
      BY <1>8
    <2>2. take[i + 1] = next(p)
      BY <1>6
    <2> HIDE DEF p
    <2>3. next(p) = IF ~ p.ok \/ r.addr = NULL THEN [p EXCEPT !.ok = FALSE]
                    ELSE [h |-> r.h, got |-> Append(p.got, r.addr), ok |-> TRUE]
      BY DEF next
    <2>4. take[i + 1] \in States
      BY <1>3, <2>1, <2>2
    <2>5. CASE ~ p.ok \/ r.addr = NULL
      <3>1. take[i + 1].h = p.h /\ take[i + 1].got = p.got /\ take[i + 1].ok = FALSE
        BY <2>1, <2>2, <2>3, <2>5 DEF States
      <3> QED BY <2>1, <2>4, <3>1
    <2>6. CASE ~ (~ p.ok \/ r.addr = NULL)
      <3> DEFINE B == Elements(p.got) \cup {r.addr}
      <3>1. /\ take[i + 1].h = r.h /\ take[i + 1].got = Append(p.got, r.addr)
            /\ take[i + 1].ok = TRUE
        BY <2>2, <2>3, <2>6
      <3>2. /\ r.addr \in 1 .. (SYSTEM_BLOCKS - 1)
            /\ r.addr \notin p.h.map
            /\ Taken(p.h, r.h, r.addr, 1)
        BY <2>1, <2>6, OneBlock DEF States
      <3> HIDE DEF r
      <3>8. /\ Elements(take[i + 1].got) = B
            /\ Len(take[i + 1].got) = Len(p.got) + 1
        <4>1. p.got \in Seq(Nat)
          BY <2>1 DEF States
        <4>3. r.addr \in Nat
          BY <3>2, PmmAssumption
        <4>2. take[i + 1].got = Append(p.got, r.addr)
          BY <3>1
        <4> QED BY <4>1, <4>2, <4>3, ElementsAppend
      <3>3. r.addr \notin Elements(p.got) /\ B \subseteq 1 .. (SYSTEM_BLOCKS - 1)
        BY <2>1, <3>2 DEF TakenSet
      <3>4. Cardinality(B) = Cardinality(Elements(p.got)) + 1 /\ Cardinality(Elements(p.got)) \in Nat
        BY <2>1, <3>3, BlockSetFinite, FS_AddElement DEF TakenSet
      <3>5. Area(r.addr, 1) = {r.addr}
        BY <3>2 DEF Area
      <3>6. g.used \in Int /\ g.free \in Int
        BY DEF HeapType
      <3>7. TakenSet(g, r.h, B)
        <4>1. r.h.map = g.map \cup B /\ B \cap g.map = {}
          BY <2>1, <3>2, <3>5 DEF Taken, TakenSet
        <4> HIDE DEF B
        <4> QED BY <2>1, <3>2, <3>3, <3>4, <3>6, <4>1 DEF Taken, TakenSet
      <3> HIDE DEF B
      <3> QED BY <2>1, <2>4, <2>6, <3>1, <3>4, <3>7, <3>8
    <2> QED BY <2>5, <2>6
  <1>9. Good(n)
    <2> DEFINE P == {i \in Nat : Good(i)}
    <2> HIDE DEF Good
    <2>1. 0 \in P /\ \A i \in P : i + 1 \in P
      BY <1>7, <1>8
    <2> HIDE DEF P
    <2>2. P \in SUBSET Nat
      BY DEF P
    <2>3. n \in P
      BY <2>1, <2>2, Induction
    <2> QED BY <2>3 DEF P
  <1> QED BY <1>1, <1>9 DEF States

(* A new directory: its blocks were clear, and the chunk leads to all of   *)
(* them and to no other.                                                   *)
LEMMA NewDirectoryEffect ==
    ASSUME NEW g \in HeapType
    PROVE  LET r == paging_new_4gb(g)
           IN  /\ r.ok \in BOOLEAN
               /\ TakenSet(g, r.h, r.got)
               /\ r.ok => Cardinality(r.got) = TABLES + 2 /\ ChunkBlocks(r.chunk) = r.got
  <1> DEFINE r == TakeBlocks(g, TABLES + 2)
             p == paging_new_4gb(g)
             chunk == [addr      |-> r.got[TABLES + 2],
                       directory |-> r.got[1],
                       entry     |-> [i \in 0 .. (TABLES - 1) |-> r.got[i + 2]]]
  <1>1. TABLES \in Nat /\ TABLES + 2 \in Nat
    BY PagingAssumption
  <1>2. /\ r.ok \in BOOLEAN /\ r.got \in Seq(Nat)
        /\ TakenSet(g, r.h, Elements(r.got))
        /\ r.ok => Cardinality(Elements(r.got)) = TABLES + 2 /\ Len(r.got) = TABLES + 2
    BY <1>1, TakeBlocksEffect
  <1>3. p.h = r.h /\ p.ok = r.ok /\ p.got = Elements(r.got) /\ (r.ok => p.chunk = chunk)
    BY DEF paging_new_4gb, Elements
  <1> HIDE DEF r, p
  <1>4. ASSUME r.ok
        PROVE  ChunkBlocks(chunk) = Elements(r.got)
    <2>1. ChunkBlocks(chunk) = {r.got[i + 2] : i \in 0 .. (TABLES - 1)}
                                  \cup {r.got[1], r.got[TABLES + 2]}
      BY DEF ChunkBlocks
    <2>2. Elements(r.got) = {r.got[j] : j \in 1 .. (TABLES + 2)}
      BY <1>2, <1>4 DEF Elements
    <2>3. \A j \in 1 .. (TABLES + 2) :
             j = 1 \/ j = TABLES + 2 \/ (j - 2 \in 0 .. (TABLES - 1) /\ (j - 2) + 2 = j)
      BY <1>1
    <2>4. \A i \in 0 .. (TABLES - 1) : i + 2 \in 1 .. (TABLES + 2)
      BY <1>1
    <2>5. 1 \in 1 .. (TABLES + 2) /\ TABLES + 2 \in 1 .. (TABLES + 2)
      BY <1>1
    <2> HIDE DEF chunk
    <2>6. \A b \in ChunkBlocks(chunk) : b \in Elements(r.got)
      BY <2>1, <2>2, <2>4, <2>5
    <2>7. \A b \in Elements(r.got) : b \in ChunkBlocks(chunk)
      BY <2>1, <2>2, <2>3
    <2> QED BY <2>6, <2>7
  <1> HIDE DEF chunk
  <1> QED BY <1>2, <1>3, <1>4 DEF p

-----------------------------------------------------------------------------
(* The head and the next fields link the tasks of q, in this order.        *)
Links(tl, q) ==
    /\ q \in Seq(Tasks)
    /\ tl.head = IF q = <<>> THEN NoTask ELSE q[1]
    /\ \A i \in 1 .. Len(q) : tl.next[q[i]] = IF i = Len(q) THEN NoTask ELSE q[i + 1]

(* Walking such a list, as Order does, finds q.                            *)
LEMMA OrderOfLinks ==
    ASSUME NEW tl, NEW q, Links(tl, q), IsFiniteSet(Tasks), Len(q) <= Cardinality(Tasks)
    PROVE  Order(tl) = q
  <1> DEFINE following(s) == IF s = <<>> THEN tl.head ELSE tl.next[s[Len(s)]]
             extended == [s \in Seq(Tasks) |->
                             IF following(s) = NoTask THEN s ELSE Append(s, following(s))]
             walk == CHOOSE walk : walk = [n \in Nat |-> IF n = 0 THEN <<>> ELSE extended[walk[n - 1]]]
             upto(n) == IF n < Len(q) THEN n ELSE Len(q)
             prefix == [n \in Nat |-> SubSeq(q, 1, upto(n))]
  <1>1. Order(tl) = walk[Cardinality(Tasks) + 1]
    BY DEF Order
  <1>2. q \in Seq(Tasks) /\ Len(q) \in Nat /\ \A i \in 1 .. Len(q) : q[i] \in Tasks
    BY DEF Links
  <1>3. \A n \in Nat : upto(n) \in Nat /\ upto(n) <= Len(q)
    BY <1>2
  <1>4. ASSUME NEW n \in Nat
        PROVE  /\ prefix[n] \in Seq(Tasks) /\ Len(prefix[n]) = upto(n)
               /\ \A i \in 1 .. upto(n) : prefix[n][i] = q[i]
    <2>1. prefix[n] = SubSeq(q, 1, upto(n))
      OBVIOUS
    <2>2. upto(n) \in Int /\ \A i \in 1 .. upto(n) : q[i] \in Tasks
      BY <1>2, <1>3
    <2>3. /\ SubSeq(q, 1, upto(n)) \in Seq(Tasks)
          /\ Len(SubSeq(q, 1, upto(n))) = IF 1 <= upto(n) THEN upto(n) - 1 + 1 ELSE 0
          /\ \A i \in 1 .. (upto(n) - 1 + 1) : SubSeq(q, 1, upto(n))[i] = q[1 + i - 1]
      <3> HIDE DEF upto
      <3> QED BY <2>2, SubSeqProperties
    <2> DEFINE m == upto(n)
    <2>4. m \in Nat
      BY <1>3
    <2>5. Len(SubSeq(q, 1, m)) = m /\ \A i \in 1 .. m : SubSeq(q, 1, m)[i] = q[i]
      <3> HIDE DEF m
      <3>1. m - 1 + 1 = m /\ (~ (1 <= m) => m = 0) /\ \A i \in 1 .. m : 1 + i - 1 = i
        BY <2>4
      <3> QED BY <2>3, <2>4, <3>1 DEF m
    <2> HIDE DEF prefix, upto
    <2> QED BY <2>1, <2>3, <2>5
  <1>5. prefix[0] = <<>>
    <2>1. prefix[0] \in Seq(Tasks) /\ Len(prefix[0]) = 0
      BY <1>2, <1>4
    <2> HIDE DEF prefix
    <2> QED BY <2>1
  <1>6. ASSUME NEW n \in Nat
        PROVE  prefix[n + 1] = extended[prefix[n]]
    <2> DEFINE s == prefix[n]
    <2>1. s \in Seq(Tasks) /\ Len(s) = upto(n) /\ \A i \in 1 .. upto(n) : s[i] = q[i]
      BY <1>4
    <2>2. extended[s] = IF following(s) = NoTask THEN s ELSE Append(s, following(s))
      BY <2>1
    <2>3. /\ prefix[n + 1] \in Seq(Tasks) /\ Len(prefix[n + 1]) = upto(n + 1)
          /\ \A i \in 1 .. upto(n + 1) : prefix[n + 1][i] = q[i]
      BY <1>4
    <2> HIDE DEF prefix, extended, s
    <2>4. CASE n < Len(q)
      <3>1. upto(n) = n /\ upto(n + 1) = n + 1
        BY <1>2, <2>4
      <3>2. following(s) = q[n + 1]
        <4>1. CASE n = 0
          BY <1>2, <2>1, <2>4, <3>1, <4>1 DEF Links
        <4>2. CASE n # 0
          <5>1. s # <<>> /\ s[Len(s)] = q[n] /\ n \in 1 .. Len(q)
            BY <1>2, <2>1, <2>4, <3>1, <4>2
          <5> QED BY <5>1, <2>4 DEF Links
        <4> QED BY <4>1, <4>2
      <3>3. q[n + 1] \in Tasks /\ q[n + 1] # NoTask
        BY <1>2, <2>4, TaskListAssumption DEF NoTask
      <3>4. extended[s] = Append(s, q[n + 1])
        BY <2>2, <3>2, <3>3
      <3>5. /\ Append(s, q[n + 1]) \in Seq(Tasks)
            /\ Len(Append(s, q[n + 1])) = n + 1
            /\ \A i \in 1 .. (n + 1) : Append(s, q[n + 1])[i] = q[i]
        BY <2>1, <3>1, <3>3, AppendProperties
      <3>6. prefix[n + 1] = Append(s, q[n + 1])
        <4> DEFINE a == prefix[n + 1]
                   b == Append(s, q[n + 1])
        <4>1. a \in Seq(Tasks) /\ b \in Seq(Tasks) /\ Len(a) = Len(b)
              /\ \A i \in 1 .. Len(a) : a[i] = b[i]
          BY <2>3, <3>1, <3>5
        <4> HIDE DEF a, b
        <4>2. a = b
          BY <4>1, SeqEqual
        <4> QED BY <4>2 DEF a, b
      <3> QED BY <3>4, <3>6 DEF s
    <2>5. CASE ~ (n < Len(q))
      <3>1. upto(n) = Len(q) /\ upto(n + 1) = Len(q)
        BY <1>2, <2>5
      <3>2. following(s) = NoTask
        <4>1. CASE Len(q) = 0
          BY <1>2, <2>1, <3>1, <4>1 DEF Links
        <4>2. CASE Len(q) # 0
          <5>1. s # <<>> /\ s[Len(s)] = q[Len(q)] /\ Len(q) \in 1 .. Len(q)
            BY <1>2, <2>1, <3>1, <4>2
          <5> QED BY <5>1 DEF Links
        <4> QED BY <4>1, <4>2
      <3>3. extended[s] = s
        BY <2>2, <3>2
      <3>4. prefix[n + 1] = s
        <4> DEFINE a == prefix[n + 1]
        <4>1. a \in Seq(Tasks) /\ Len(a) = Len(s) /\ \A i \in 1 .. Len(a) : a[i] = s[i]
          BY <2>1, <2>3, <3>1
        <4> HIDE DEF a
        <4>2. a = s
          BY <2>1, <4>1, SeqEqual
        <4> QED BY <4>2 DEF a
      <3> QED BY <3>3, <3>4 DEF s
    <2> QED BY <2>4, <2>5
  <1> HIDE DEF extended
  <1>7. walk = [n \in Nat |-> IF n = 0 THEN <<>> ELSE extended[walk[n - 1]]]
    <2>1. prefix = [n \in Nat |-> IF n = 0 THEN <<>> ELSE extended[prefix[n - 1]]]
      <3>1. ASSUME NEW n \in Nat
            PROVE  prefix[n] = IF n = 0 THEN <<>> ELSE extended[prefix[n - 1]]
        <4>1. n # 0 => n - 1 \in Nat /\ (n - 1) + 1 = n
          OBVIOUS
        <4> HIDE DEF prefix
        <4> QED BY <1>5, <1>6, <4>1
      <3>2. prefix = [n \in Nat |-> prefix[n]]
        OBVIOUS
      <3> HIDE DEF prefix
      <3> QED BY <3>1, <3>2
    <2> HIDE DEF prefix
    <2> QED BY <2>1
  <1> HIDE DEF walk, prefix
  <1>8. \A n \in Nat : walk[n] = prefix[n]
    <2> DEFINE P == {n \in Nat : walk[n] = prefix[n]}
    <2>1. 0 \in P
      BY <1>5, <1>7
    <2>2. ASSUME NEW n \in P PROVE n + 1 \in P
      <3>1. n \in Nat /\ walk[n] = prefix[n]
        OBVIOUS
      <3>2. n + 1 \in Nat /\ n + 1 # 0 /\ (n + 1) - 1 = n
        BY <3>1
      <3>3. walk[n + 1] = extended[walk[n]]
        <4> HIDE DEF P
        <4> QED BY <1>7, <3>2
      <3> QED BY <1>6, <3>1, <3>2, <3>3
    <2>3. P \in SUBSET Nat
      OBVIOUS
    <2> HIDE DEF P
    <2>4. P = Nat
      BY <2>1, <2>2, <2>3, Induction
    <2> QED BY <2>4 DEF P
  <1>9. Cardinality(Tasks) \in Nat
    BY FS_CardinalityType
  <1>10. prefix[Cardinality(Tasks) + 1] = q
    <2> DEFINE m == Cardinality(Tasks) + 1
    <2>1. m \in Nat /\ upto(m) = Len(q)
      BY <1>2, <1>9
    <2> HIDE DEF m, upto
    <2>2. prefix[m] \in Seq(Tasks) /\ Len(prefix[m]) = Len(q) /\ \A i \in 1 .. Len(q) : prefix[m][i] = q[i]
      BY <1>4, <2>1
    <2> QED BY <1>2, <2>2 DEF m
  <1> QED BY <1>1, <1>8, <1>9, <1>10

(* No task comes twice.                                                    *)
Distinct(q) == \A i, j \in 1 .. Len(q) : q[i] = q[j] => i = j

(* A sequence without repetition is as long as the set of its elements is  *)
(* large.                                                                  *)
LEMMA DistinctCount ==
    ASSUME NEW S, NEW q \in Seq(S), Distinct(q)
    PROVE  /\ IsFiniteSet(Elements(q))
           /\ Cardinality(Elements(q)) = Len(q)
  <1> DEFINE n == Len(q)
             B == Elements(q)
             f == [i \in 1 .. n |-> q[i]]
  <1>1. n \in Nat /\ \A i \in 1 .. n : q[i] \in S
    OBVIOUS
  <1>2. f \in Bijection(1 .. n, B)
    BY <1>1 DEF Bijection, Injection, IsInjective, Surjection, Distinct, Elements
  <1>3. ExistsBijection(1 .. n, B)
    BY <1>2 DEF ExistsBijection
  <1>4. IsFiniteSet(1 .. n) /\ Cardinality(1 .. n) = n
    BY <1>1, FS_Interval
  <1> HIDE DEF B, n
  <1>5. IsFiniteSet(B) /\ Cardinality(B) = Cardinality(1 .. n)
    BY <1>3, <1>4, FS_Bijection
  <1> QED BY <1>4, <1>5 DEF B, n

(* A list in order: it links the tasks of q, each once, the tail is the    *)
(* last one and the current task is one of them.                           *)
InOrder(tl, q) ==
    /\ tl \in ListType
    /\ Links(tl, q)
    /\ Distinct(q)
    /\ q # <<>> => tl.tail = q[Len(q)] /\ tl.current \in Elements(q)
    /\ q = <<>> => tl.current = NoTask

(* The order of such a list, which is never longer than there are tasks.   *)
LEMMA OrderExact ==
    ASSUME NEW tl, NEW q, InOrder(tl, q), IsFiniteSet(Tasks)
    PROVE  Order(tl) = q
  <1>1. q \in Seq(Tasks) /\ Distinct(q) /\ Elements(q) \subseteq Tasks
    BY DEF InOrder, Links, Elements
  <1>2. Cardinality(Elements(q)) = Len(q)
    BY <1>1, DistinctCount
  <1>3. Cardinality(Elements(q)) <= Cardinality(Tasks)
    BY <1>1, FS_Subset
  <1>4. Len(q) <= Cardinality(Tasks)
    BY <1>2, <1>3
  <1> QED BY <1>4, OrderOfLinks DEF InOrder

(* The turn passes to the task behind the current one, from the last to    *)
(* the first (task_get_next).                                              *)
LEMMA NextTurn ==
    ASSUME NEW tl, NEW q, InOrder(tl, q), tl.current # NoTask
    PROVE  /\ \E i \in 1 .. Len(q) : /\ q[i] = tl.current
                                     /\ task_get_next(tl) = q[(i % Len(q)) + 1]
           /\ task_get_next(tl) \in Elements(q)
  <1> DEFINE n == Len(q)
  <1>1. q # <<>> /\ q \in Seq(Tasks) /\ n \in Nat /\ n >= 1
    BY DEF InOrder, Links
  <1>2. PICK i \in 1 .. n : q[i] = tl.current
    BY <1>1 DEF InOrder, Elements
  <1>3. /\ tl.head = q[1]
        /\ tl.next[q[i]] = IF i = n THEN NoTask ELSE q[i + 1]
        /\ \A j \in 1 .. n : q[j] \in Tasks /\ q[j] # NoTask
    BY <1>1, <1>2, TaskListAssumption DEF InOrder, Links, NoTask
  <1>4. task_get_next(tl) = q[(i % n) + 1] /\ (i % n) + 1 \in 1 .. n
    <2>1. CASE i = n
      <3>1. n % n = 0
        BY <1>1
      <3>2. (i % n) + 1 = 1
        BY <2>1, <3>1
      <3> HIDE DEF n
      <3> QED BY <1>1, <1>2, <1>3, <2>1, <3>2 DEF task_get_next
    <2>2. CASE i # n
      <3>1. i % n = i /\ i + 1 \in 1 .. n
        BY <1>1, <2>2
      <3> HIDE DEF n
      <3> QED BY <1>2, <1>3, <2>2, <3>1 DEF task_get_next
    <2> QED BY <2>1, <2>2
  <1> QED BY <1>2, <1>4 DEF Elements

(* Another task of the list becomes the current one.                       *)
LEMMA TurnInOrder ==
    ASSUME NEW tl, NEW q, InOrder(tl, q), NEW t \in Elements(q)
    PROVE  LET new == [tl EXCEPT !.current = t]
           IN  /\ InOrder(new, q)
               /\ new.current = t
               /\ new.head = tl.head
  <1> DEFINE new == [tl EXCEPT !.current = t]
  <1>1. tl \in ListType /\ t \in Link /\ q # <<>> /\ q \in Seq(Tasks)
    BY DEF InOrder, Links, Elements, Link
  <1>2. /\ new \in ListType /\ new.current = t /\ new.head = tl.head /\ new.tail = tl.tail
        /\ new.next = tl.next /\ new.prev = tl.prev
    BY <1>1, Zenon DEF ListType
  <1> HIDE DEF new
  <1>3. InOrder(new, q)
    BY <1>1, <1>2 DEF InOrder, Links
  <1> QED BY <1>2, <1>3 DEF new

(* task_new appends the task, whatever was left in its link fields; into   *)
(* an empty list it enters as the current one.                             *)
LEMMA NewTaskInOrder ==
    ASSUME NEW tl, NEW q, InOrder(tl, q), NEW t \in Tasks \ Elements(q)
    PROVE  LET new == task_new(tl, t)
           IN  /\ InOrder(new, Append(q, t))
               /\ Elements(Append(q, t)) = Elements(q) \cup {t}
               /\ new.current = IF q = <<>> THEN t ELSE tl.current
               /\ new.prev = [tl.prev EXCEPT ![t] = IF q = <<>> THEN NoTask ELSE tl.tail]
  <1> DEFINE new == task_new(tl, t)
             p == Append(q, t)
             n == Len(q)
             next0 == [tl.next EXCEPT ![t] = NoTask]
             prev0 == [tl.prev EXCEPT ![t] = NoTask]
             cleared == [tl EXCEPT !.next[t] = NoTask, !.prev[t] = NoTask]
  <1>1. /\ q \in Seq(Tasks) /\ n \in Nat /\ tl \in ListType
        /\ \A i \in 1 .. n : q[i] \in Tasks /\ q[i] # t
    BY DEF InOrder, Links, Elements
  <1>2. /\ p \in Seq(Tasks) /\ p # <<>> /\ Len(p) = n + 1 /\ p[n + 1] = t
        /\ \A i \in 1 .. n : p[i] = q[i]
    BY <1>1, AppendProperties
  <1>3. tl.head = NoTask <=> q = <<>>
    <2>1. q # <<>> => q[1] \in Tasks
      BY <1>1
    <2> QED BY <2>1, TaskListAssumption DEF InOrder, Links, NoTask
  <1>4. /\ cleared \in ListType /\ cleared.next = next0 /\ cleared.prev = prev0
        /\ cleared.head = tl.head /\ cleared.tail = tl.tail /\ cleared.current = tl.current
    <2>1. cleared = [tl EXCEPT !.next = next0, !.prev = prev0]
      BY <1>1 DEF ListType
    <2>2. next0 \in [Tasks -> Link] /\ prev0 \in [Tasks -> Link]
      BY <1>1 DEF ListType, Link
    <2> HIDE DEF next0, prev0, cleared
    <2> QED BY <1>1, <2>1, <2>2, Zenon DEF ListType
  <1>5. \A u \in Tasks : next0[u] = IF u = t THEN NoTask ELSE tl.next[u]
    BY <1>1 DEF ListType
  <1>6. Distinct(p)
    BY <1>1, <1>2 DEF InOrder, Distinct
  <1>7. Elements(p) = Elements(q) \cup {t}
    <2>1. \A i \in 1 .. (n + 1) : p[i] \in Elements(q) \cup {t}
      BY <1>1, <1>2 DEF Elements
    <2>2. \A u \in Elements(q) : \E i \in 1 .. n : u = p[i]
      BY <1>2 DEF Elements
    <2>3. n + 1 \in 1 .. (n + 1) /\ \A i \in 1 .. n : i \in 1 .. (n + 1)
      BY <1>1
    <2> HIDE DEF p, n
    <2>4. Elements(p) = {p[i] : i \in 1 .. (n + 1)}
      BY <1>2 DEF Elements
    <2> QED BY <1>2, <2>1, <2>2, <2>3, <2>4
  <1> HIDE DEF p
  <1>8. CASE q = <<>>
    <2>1. new = [cleared EXCEPT !.head = t, !.tail = t, !.current = t]
      BY <1>3, <1>8 DEF task_new
    <2> HIDE DEF new, cleared, next0
    <2>2. /\ new \in ListType /\ new.head = t /\ new.tail = t /\ new.current = t
          /\ new.next = next0 /\ new.prev = prev0
      BY <1>4, <2>1, Zenon DEF ListType, Link
    <2>3. n = 0
      BY <1>8
    <2>4. Links(new, p)
      BY <1>2, <1>5, <2>2, <2>3 DEF Links
    <2>5. p[1] = t
      BY <1>2, <2>3
    <2> QED BY <1>2, <1>6, <1>7, <1>8, <2>2, <2>3, <2>4, <2>5 DEF InOrder, new, p, Elements
  <1>9. CASE q # <<>>
    <2> DEFINE next1 == [next0 EXCEPT ![tl.tail] = t]
               prev1 == [prev0 EXCEPT ![t] = tl.tail]
    <2>1. new = [cleared EXCEPT !.next[tl.tail] = t, !.prev[t] = tl.tail, !.tail = t]
      BY <1>3, <1>9 DEF task_new
    <2>2. n >= 1 /\ tl.tail = q[n] /\ tl.tail \in Tasks /\ tl.tail # t
      BY <1>1, <1>9 DEF InOrder
    <2>3. /\ new \in ListType /\ new.head = tl.head /\ new.tail = t /\ new.current = tl.current
          /\ new.next = next1 /\ new.prev = prev1
      <3>1. new = [cleared EXCEPT !.next = next1, !.prev = prev1, !.tail = t]
        BY <1>4, <2>1 DEF ListType
      <3>2. next1 \in [Tasks -> Link] /\ prev1 \in [Tasks -> Link]
        BY <1>4, <2>2 DEF ListType, Link
      <3> HIDE DEF new, cleared, next1, prev1
      <3>3. t \in Link
        BY DEF Link
      <3> QED BY <1>4, <3>1, <3>2, <3>3, Zenon DEF ListType
    <2>4. \A u \in Tasks : next1[u] = IF u = q[n] THEN t ELSE IF u = t THEN NoTask ELSE tl.next[u]
      BY <1>4, <1>5, <2>2 DEF ListType
    <2>5. prev1 = [tl.prev EXCEPT ![t] = tl.tail]
      BY <1>1 DEF ListType
    <2> HIDE DEF new, next1, prev1
    <2>6. Links(new, p)
      <3>1. new.head = p[1]
        BY <1>2, <1>9, <2>2, <2>3 DEF InOrder, Links
      <3>2. ASSUME NEW i \in 1 .. (n + 1)
            PROVE  new.next[p[i]] = IF i = n + 1 THEN NoTask ELSE p[i + 1]
        <4>1. CASE i = n + 1
          BY <1>1, <1>2, <2>2, <2>3, <2>4, <4>1
        <4>2. CASE i = n
          BY <1>1, <1>2, <2>2, <2>3, <2>4, <4>2
        <4>3. CASE i < n
          <5>1. i \in 1 .. n /\ n \in 1 .. n /\ i + 1 \in 1 .. n /\ i # n /\ i # n + 1
            BY <1>1, <4>3
          <5>2. q[i] # q[n] /\ q[i] # t /\ q[i] \in Tasks
            BY <1>1, <5>1 DEF InOrder, Distinct
          <5>3. tl.next[q[i]] = q[i + 1]
            BY <5>1 DEF InOrder, Links
          <5> QED BY <1>2, <2>3, <2>4, <5>1, <5>2, <5>3
        <4> QED BY <1>1, <4>1, <4>2, <4>3
      <3> HIDE DEF n
      <3> QED BY <1>2, <3>1, <3>2 DEF Links
    <2>7. new.current \in Elements(p)
      BY <1>7, <1>9, <2>3 DEF InOrder
    <2> QED BY <1>2, <1>6, <1>7, <1>9, <2>3, <2>5, <2>6, <2>7 DEF InOrder, new, p
  <1> QED BY <1>8, <1>9

(* q without its k-th element.                                             *)
Without(q, k) == SubSeq(q, 1, k - 1) \o SubSeq(q, k + 1, Len(q))

(* Its entries: those behind the k-th move up.                             *)
LEMMA WithoutEntries ==
    ASSUME NEW S, NEW q \in Seq(S), NEW k \in 1 .. Len(q)
    PROVE  /\ Without(q, k) \in Seq(S)
           /\ Len(Without(q, k)) = Len(q) - 1
           /\ \A i \in 1 .. (Len(q) - 1) : Without(q, k)[i] = IF i < k THEN q[i] ELSE q[i + 1]
  <1> DEFINE n == Len(q)
             a == SubSeq(q, 1, k - 1)
             b == SubSeq(q, k + 1, n)
  <1>1. n \in Nat /\ k \in Nat /\ 1 <= k /\ k <= n /\ \A i \in 1 .. n : q[i] \in S
    OBVIOUS
  <1>2. /\ a \in Seq(S) /\ Len(a) = k - 1
        /\ \A i \in 1 .. (k - 1) : a[i] = q[i]
    <2>1. 1 \in Int /\ k - 1 \in Int /\ \A i \in 1 .. (k - 1) : q[i] \in S
      BY <1>1
    <2>2. /\ a \in Seq(S)
          /\ Len(a) = IF 1 <= k - 1 THEN k - 1 - 1 + 1 ELSE 0
          /\ \A i \in 1 .. (k - 1 - 1 + 1) : a[i] = q[1 + i - 1]
      BY <2>1, SubSeqProperties
    <2> HIDE DEF a, n
    <2>3. k - 1 - 1 + 1 = k - 1 /\ \A i \in 1 .. (k - 1) : 1 + i - 1 = i
      BY <1>1
    <2>4. Len(a) = k - 1
      BY <1>1, <2>2
    <2> QED BY <2>2, <2>3, <2>4
  <1>3. /\ b \in Seq(S) /\ Len(b) = n - k
        /\ \A i \in 1 .. (n - k) : b[i] = q[k + i]
    <2>1. k + 1 \in Int /\ n \in Int /\ \A i \in (k + 1) .. n : q[i] \in S
      BY <1>1
    <2>2. /\ b \in Seq(S)
          /\ Len(b) = IF k + 1 <= n THEN n - (k + 1) + 1 ELSE 0
          /\ \A i \in 1 .. (n - (k + 1) + 1) : b[i] = q[k + 1 + i - 1]
      <3> HIDE DEF n
      <3> QED BY <2>1, SubSeqProperties
    <2> HIDE DEF b, n
    <2>3. n - (k + 1) + 1 = n - k /\ \A i \in 1 .. (n - k) : k + 1 + i - 1 = k + i
      BY <1>1
    <2>4. Len(b) = n - k
      BY <1>1, <2>2
    <2> QED BY <2>2, <2>3, <2>4
  <1>4. /\ a \o b \in Seq(S) /\ Len(a \o b) = Len(a) + Len(b)
        /\ \A i \in 1 .. (Len(a) + Len(b)) : (a \o b)[i] = IF i <= Len(a) THEN a[i] ELSE b[i - Len(a)]
    <2> HIDE DEF a, b
    <2> QED BY <1>2, <1>3, ConcatProperties
  <1>5. Without(q, k) = a \o b
    BY DEF Without
  <1> HIDE DEF a, b, n
  <1>6. Len(a) + Len(b) = n - 1
    BY <1>1, <1>2, <1>3
  <1>7. ASSUME NEW i \in 1 .. (n - 1)
        PROVE  (a \o b)[i] = IF i < k THEN q[i] ELSE q[i + 1]
    <2>1. (a \o b)[i] = IF i <= k - 1 THEN a[i] ELSE b[i - (k - 1)]
      BY <1>2, <1>4, <1>6
    <2>2. CASE i < k
      <3>1. i \in 1 .. (k - 1)
        BY <1>1, <2>2
      <3> QED BY <1>2, <2>1, <2>2, <3>1
    <2>3. CASE ~ (i < k)
      <3>1. i - (k - 1) \in 1 .. (n - k) /\ k + (i - (k - 1)) = i + 1 /\ ~ (i <= k - 1)
        BY <1>1, <2>3
      <3>2. b[i - (k - 1)] = q[k + (i - (k - 1))]
        BY <1>3, <3>1
      <3> QED BY <2>1, <2>3, <3>1, <3>2
    <2> QED BY <2>2, <2>3
  <1> QED BY <1>4, <1>5, <1>6, <1>7 DEF n

(* task_list_remove takes out the k-th task, and passes its turn on to the *)
(* next one, if its prev field leads to the task before it: nowhere for    *)
(* the first.                                                              *)
LEMMA RemoveTaskInOrder ==
    ASSUME NEW tl, NEW q, InOrder(tl, q), NEW k \in 1 .. Len(q),
           \/ tl.prev[q[k]] = NoTask /\ k = 1
           \/ tl.prev[q[k]] \in Elements(q) /\ tl.next[tl.prev[q[k]]] = q[k]
    PROVE  LET t == q[k]
               new == task_list_remove(tl, t)
           IN  /\ InOrder(new, Without(q, k))
               /\ Elements(Without(q, k)) = Elements(q) \ {t}
               /\ new.current = IF tl.current # t THEN tl.current
                                ELSE IF Len(q) = 1 THEN NoTask ELSE q[(k % Len(q)) + 1]
               /\ new.prev = tl.prev
  <1> DEFINE n == Len(q)
             t == q[k]
             p == Without(q, k)
             new == task_list_remove(tl, t)
             after == IF k < n THEN q[k + 1] ELSE NoTask
             before == IF k > 1 THEN q[k - 1] ELSE NoTask
             next1 == IF k > 1 THEN [tl.next EXCEPT ![q[k - 1]] = after] ELSE tl.next
             head1 == IF k = 1 THEN after ELSE q[1]
             tail1 == IF k = n THEN before ELSE q[n]
             current1 == IF tl.current = t THEN (IF k < n THEN q[k + 1] ELSE head1) ELSE tl.current
  <1>1. /\ q \in Seq(Tasks) /\ n \in Nat /\ n >= 1 /\ tl \in ListType
        /\ k \in 1 .. n /\ 1 \in 1 .. n /\ n \in 1 .. n
        /\ \A i \in 1 .. n : q[i] \in Tasks /\ q[i] # NoTask
    BY TaskListAssumption DEF InOrder, Links, NoTask
  <1>2. /\ tl.head = q[1] /\ tl.tail = q[n] /\ tl.current \in Elements(q)
        /\ \A i \in 1 .. n : tl.next[q[i]] = IF i = n THEN NoTask ELSE q[i + 1]
    BY <1>1 DEF InOrder, Links
  <1>3. \A i, j \in 1 .. n : q[i] = q[j] => i = j
    BY DEF InOrder, Distinct
  <1>4. tl.prev[t] = before
    <2>1. CASE tl.prev[t] = NoTask /\ k = 1
      BY <2>1
    <2>2. CASE tl.prev[t] \in Elements(q) /\ tl.next[tl.prev[t]] = t
      <3>1. PICK j \in 1 .. n : tl.prev[t] = q[j]
        BY <2>2 DEF Elements
      <3>2. j # n /\ q[j + 1] = t
        BY <1>1, <1>2, <2>2, <3>1
      <3>3. j + 1 \in 1 .. n
        BY <1>1, <3>2
      <3>4. j + 1 = k
        BY <1>3, <3>2, <3>3
      <3> QED BY <1>1, <3>1, <3>4
    <2> QED BY <2>1, <2>2
  <1>5. tl.next[t] = after
    BY <1>1, <1>2
  <1>6. /\ tl.head = t <=> k = 1
        /\ tl.tail = t <=> k = n
        /\ k > 1 => q[k - 1] # t /\ q[k - 1] \in Tasks /\ before = q[k - 1] /\ before # NoTask
        /\ k = 1 => before = NoTask
    <2>1. k > 1 => k - 1 \in 1 .. n /\ k - 1 # k
      BY <1>1
    <2> QED BY <1>1, <1>2, <1>3, <2>1
  <1>7. after \in Link /\ head1 \in Link /\ tail1 \in Link /\ before \in Link
    <2>1. k < n => k + 1 \in 1 .. n
      BY <1>1
    <2>2. after \in Link /\ before \in Link
      BY <1>1, <1>6, <2>1 DEF Link
    <2> HIDE DEF after, before
    <2> QED BY <1>1, <2>2 DEF Link
  <1>8. next1 \in [Tasks -> Link]
    BY <1>1, <1>6, <1>7 DEF ListType
  <1>9. next1[t] = after
    BY <1>1, <1>5, <1>6 DEF ListType
  <1> DEFINE unlinked == IF tl.prev[t] # NoTask
                         THEN [tl EXCEPT !.next[tl.prev[t]] = tl.next[t]]
                         ELSE tl
             moved == [unlinked EXCEPT
                         !.head = IF @ = t THEN tl.next[t] ELSE @,
                         !.tail = IF @ = t THEN tl.prev[t] ELSE @]
  <1>10. /\ unlinked \in ListType /\ unlinked.next = next1 /\ unlinked.prev = tl.prev
         /\ unlinked.head = tl.head /\ unlinked.tail = tl.tail /\ unlinked.current = tl.current
    <2>1. CASE k = 1
      <3>1. unlinked = tl /\ next1 = tl.next
        BY <1>4, <1>6, <2>1
      <3> QED BY <1>1, <3>1
    <2>2. CASE k > 1
      <3>1. unlinked = [tl EXCEPT !.next = next1]
        BY <1>1, <1>4, <1>5, <1>6, <2>2 DEF ListType
      <3> HIDE DEF unlinked, next1
      <3> QED BY <1>1, <1>8, <3>1, Zenon DEF ListType
    <2> QED BY <1>1, <2>1, <2>2
  <1> HIDE DEF unlinked
  <1>11. /\ moved \in ListType /\ moved.next = next1 /\ moved.prev = tl.prev
         /\ moved.head = head1 /\ moved.tail = tail1 /\ moved.current = tl.current
    <2>1. moved = [unlinked EXCEPT !.head = head1, !.tail = tail1]
      <3>1. (IF unlinked.head = t THEN tl.next[t] ELSE unlinked.head) = head1
        BY <1>2, <1>5, <1>6, <1>10
      <3>2. (IF unlinked.tail = t THEN tl.prev[t] ELSE unlinked.tail) = tail1
        BY <1>2, <1>4, <1>6, <1>10
      <3> HIDE DEF head1, tail1
      <3> QED BY <1>10, <3>1, <3>2 DEF ListType
    <2> HIDE DEF moved, head1, tail1, next1
    <2> QED BY <1>7, <1>10, <2>1, Zenon DEF ListType
  <1>12. new = [moved EXCEPT !.current = IF @ = t THEN task_get_next(moved) ELSE @]
    BY DEF task_list_remove, unlinked
  <1> HIDE DEF moved, next1, new
  <1>13. tl.current = t => task_get_next(moved) = current1
    <2> SUFFICES ASSUME tl.current = t
                 PROVE  task_get_next(moved) = IF k < n THEN q[k + 1] ELSE head1
      OBVIOUS
    <2>1. task_get_next(moved) = IF after = NoTask THEN head1 ELSE after
      BY <1>9, <1>11 DEF task_get_next
    <2>2. after = NoTask <=> ~ (k < n)
      <3>1. k < n => k + 1 \in 1 .. n
        BY <1>1
      <3> QED BY <1>1, <3>1
    <2> HIDE DEF head1
    <2> QED BY <2>1, <2>2
  <1>14. new = [moved EXCEPT !.current = current1]
    BY <1>11, <1>12, <1>13 DEF ListType
  <1>15. current1 \in Link
    <2>1. tl.current \in Link
      BY <1>1 DEF ListType
    <2>2. k < n => k + 1 \in 1 .. n
      BY <1>1
    <2> HIDE DEF head1
    <2> QED BY <1>1, <1>7, <2>1, <2>2 DEF Link
  <1>16. /\ new \in ListType /\ new.next = next1 /\ new.prev = tl.prev
         /\ new.head = head1 /\ new.tail = tail1 /\ new.current = current1
    <2> HIDE DEF current1, head1, tail1
    <2> QED BY <1>11, <1>14, <1>15, Zenon DEF ListType
  <1>17. /\ p \in Seq(Tasks) /\ Len(p) = n - 1
         /\ \A i \in 1 .. (n - 1) : p[i] = IF i < k THEN q[i] ELSE q[i + 1]
    BY <1>1, WithoutEntries
  <1> HIDE DEF p
  <1>18. Distinct(p)
    <2>1. ASSUME NEW i \in 1 .. (n - 1), NEW j \in 1 .. (n - 1), p[i] = p[j]
          PROVE  i = j
      <3> DEFINE x == IF i < k THEN i ELSE i + 1
                 y == IF j < k THEN j ELSE j + 1
      <3>1. x \in 1 .. n /\ y \in 1 .. n /\ p[i] = q[x] /\ p[j] = q[y]
        BY <1>1, <1>17
      <3>2. x = y
        <4> HIDE DEF x, y
        <4> QED BY <1>3, <2>1, <3>1
      <3> QED BY <1>1, <3>2
    <2> QED BY <1>17, <2>1 DEF Distinct
  <1>19. Elements(p) = Elements(q) \ {t}
    <2>1. ASSUME NEW i \in 1 .. (n - 1)
          PROVE  p[i] \in Elements(q) \ {t}
      <3> DEFINE x == IF i < k THEN i ELSE i + 1
      <3>1. x \in 1 .. n /\ p[i] = q[x] /\ x # k
        BY <1>1, <1>17
      <3> HIDE DEF x
      <3> QED BY <1>1, <1>3, <3>1 DEF Elements
    <2>2. ASSUME NEW x \in 1 .. n, q[x] # t
          PROVE  \E i \in 1 .. (n - 1) : q[x] = p[i]
      <3>1. x # k
        BY <2>2
      <3>2. CASE x < k
        BY <1>1, <1>17, <3>2
      <3>3. CASE x > k
        <4>1. x - 1 \in 1 .. (n - 1) /\ ~ (x - 1 < k) /\ (x - 1) + 1 = x
          BY <1>1, <3>3
        <4> QED BY <1>17, <4>1
      <3> QED BY <1>1, <3>1, <3>2, <3>3
    <2> HIDE DEF n, t
    <2>3. Elements(p) = {p[i] : i \in 1 .. (n - 1)} /\ Elements(q) = {q[i] : i \in 1 .. n}
      BY <1>17 DEF Elements, n
    <2> QED BY <2>1, <2>2, <2>3
  <1>20. p = <<>> <=> n = 1
    BY <1>1, <1>17
  <1>21. Links(new, p)
    <2>1. new.head = IF p = <<>> THEN NoTask ELSE p[1]
      <3>1. CASE n = 1
        BY <1>1, <1>16, <1>20, <3>1
      <3>2. CASE n # 1
        <4>1. p # <<>> /\ 1 \in 1 .. (n - 1) /\ p[1] = IF 1 < k THEN q[1] ELSE q[2]
          BY <1>1, <1>17, <1>20, <3>2
        <4>2. CASE k = 1
          BY <1>1, <1>16, <3>2, <4>1, <4>2
        <4>3. CASE k # 1
          BY <1>1, <1>16, <4>1, <4>3
        <4> QED BY <4>2, <4>3
      <3> QED BY <3>1, <3>2
    <2>2. ASSUME NEW i \in 1 .. (n - 1)
          PROVE  new.next[p[i]] = IF i = n - 1 THEN NoTask ELSE p[i + 1]
      <3>1. CASE i = k - 1
        <4>1. k > 1 /\ p[i] = q[k - 1] /\ q[k - 1] \in Tasks
          BY <1>1, <1>6, <1>17, <3>1
        <4>2. next1[q[k - 1]] = after
          BY <1>1, <4>1 DEF next1, ListType
        <4>3. i = n - 1 <=> ~ (k < n)
          BY <1>1, <3>1
        <4>4. k < n => p[i + 1] = q[k + 1]
          BY <1>1, <1>17, <3>1
        <4> QED BY <1>16, <4>1, <4>2, <4>3, <4>4
      <3>2. CASE i # k - 1
        <4> DEFINE x == IF i < k THEN i ELSE i + 1
        <4>1. /\ x \in 1 .. n /\ p[i] = q[x] /\ x # k /\ x # k - 1
              /\ x = n <=> i = n - 1
          BY <1>1, <1>17, <3>2
        <4>2. next1[q[x]] = tl.next[q[x]]
          <5>1. k > 1 => k - 1 \in 1 .. n
            BY <1>1
          <5>2. k > 1 => q[x] # q[k - 1]
            <6> HIDE DEF x
            <6> QED BY <1>3, <4>1, <5>1
          <5> HIDE DEF x
          <5> QED BY <1>1, <4>1, <5>2 DEF next1, ListType
        <4>3. i # n - 1 => p[i + 1] = q[x + 1]
          BY <1>1, <1>17, <3>2
        <4> HIDE DEF x
        <4>4. tl.next[q[x]] = IF x = n THEN NoTask ELSE q[x + 1]
          BY <1>2, <4>1
        <4> QED BY <1>16, <4>1, <4>2, <4>3, <4>4
      <3> QED BY <3>1, <3>2
    <2> HIDE DEF n
    <2> QED BY <1>17, <2>1, <2>2 DEF Links
  <1>22. new.current = IF tl.current # t THEN tl.current
                       ELSE IF n = 1 THEN NoTask ELSE q[(k % n) + 1]
    <2>1. k < n => k % n = k
      BY <1>1
    <2>2. k = n => k % n = 0
      BY <1>1
    <2>3. CASE tl.current # t
      BY <1>16, <2>3
    <2>4. CASE tl.current = t /\ k < n
      BY <1>1, <1>16, <2>1, <2>4
    <2>5. CASE tl.current = t /\ ~ (k < n)
      <3>1. k = n /\ (k % n) + 1 = 1 /\ (k = 1 <=> n = 1)
        <4> HIDE DEF n
        <4>1. k = n
          BY <1>1, <2>5
        <4>2. k % n = 0
          BY <2>2, <4>1
        <4> QED BY <4>1, <4>2
      <3>2. new.current = IF k = 1 THEN NoTask ELSE q[1]
        BY <1>16, <2>5
      <3> QED BY <2>5, <3>1, <3>2
    <2> QED BY <2>3, <2>4, <2>5
  <1>23. p # <<>> => new.tail = p[Len(p)] /\ new.current \in Elements(p)
    <2> SUFFICES ASSUME n > 1
                 PROVE  new.tail = p[n - 1] /\ new.current \in Elements(p)
      BY <1>1, <1>17, <1>20
    <2>1. new.tail = p[n - 1]
      <3>1. n - 1 \in 1 .. (n - 1) /\ p[n - 1] = IF n - 1 < k THEN q[n - 1] ELSE q[n]
        BY <1>1, <1>17
      <3>2. CASE k = n
        BY <1>1, <1>16, <3>1, <3>2
      <3>3. CASE k # n
        BY <1>1, <1>16, <3>1, <3>3
      <3> QED BY <3>2, <3>3
    <2>2. CASE tl.current # t
      BY <1>2, <1>19, <1>22, <2>1, <2>2
    <2>3. CASE tl.current = t /\ k < n
      <3>1. new.current = q[k + 1] /\ k + 1 \in 1 .. n /\ k + 1 # k
        BY <1>1, <1>16, <2>3
      <3>2. q[k + 1] # t /\ q[k + 1] \in Elements(q)
        BY <1>1, <1>3, <3>1 DEF Elements
      <3> QED BY <1>19, <2>1, <3>1, <3>2
    <2>4. CASE tl.current = t /\ k = n
      <3>1. new.current = q[1] /\ 1 # k
        BY <1>1, <1>16, <2>4
      <3>2. q[1] # t /\ q[1] \in Elements(q)
        BY <1>1, <1>3, <3>1 DEF Elements
      <3> QED BY <1>19, <2>1, <3>1, <3>2
    <2> QED BY <1>1, <2>1, <2>2, <2>3, <2>4
  <1>24. p = <<>> => new.current = NoTask
    <2> SUFFICES ASSUME n = 1 PROVE new.current = NoTask
      BY <1>20
    <2>1. k = 1 /\ t = q[1] /\ tl.current \in {q[1]}
      BY <1>1, <1>2 DEF Elements
    <2> QED BY <1>22, <2>1
  <1> HIDE DEF n, t, current1, head1, tail1
  <1> QED BY <1>16, <1>18, <1>19, <1>21, <1>22, <1>23, <1>24 DEF InOrder, n, t, p, new
=============================================================================
