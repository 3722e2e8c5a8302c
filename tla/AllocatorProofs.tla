-------------------------- MODULE AllocatorProofs --------------------------
(***************************************************************************)
(* Proofs about the kernel heap, for every size of memory, of the reserved *)
(* part, of the table and of the requests: the theorems follow from what   *)
(* each call does (LayerProofs) and one inductive invariant.               *)
(***************************************************************************)
EXTENDS Allocator, LayerProofs

-----------------------------------------------------------------------------
(***************************************************************************)
(* The inductive invariant.  LiveDisjoint alone is not inductive: kfree    *)
(* clears as many bits as the table says, so that the table must agree     *)
(* with what callers own, and a fresh block avoids the kernel's own only   *)
(* because those stay marked, all but block 0.                             *)
(***************************************************************************)
ReservedMarked == Reserved \ {NULL} \subseteq h.map

TableInv ==
    /\ \A i \in Slots : \/ h.big[i] = EmptyEntry
                        \/ \E a \in live : /\ a.blocks > 1 /\ a.tracked
                                           /\ h.big[i].addr = a.addr
                                           /\ h.big[i].blocks = a.blocks
    /\ \A a \in live : a.blocks > 1 /\ a.tracked => \E i \in Slots : h.big[i].addr = a.addr
    /\ \A i, j \in Slots : h.big[i].addr = h.big[j].addr /\ i # j => h.big[i].addr = NULL
    /\ \A a \in live : a.blocks = 1 => a.tracked

Inv == TypeOK /\ LiveDisjoint /\ ReservedMarked /\ TableInv

(* The invariant holds when the kernel has initialised the heap. *)
LEMMA InvInit == Init => Inv
  <1> SUFFICES ASSUME Init PROVE Inv
    OBVIOUS
  <1> USE DEF Init, kheap_init
  <1>1. TypeOK
    BY PmmAssumption DEF TypeOK, pmm_init, Reserved, Entry, EmptyEntry, NULL
  <1>2. LiveDisjoint
    BY DEF LiveDisjoint
  <1>3. ReservedMarked
    BY DEF ReservedMarked, pmm_init
  <1>4. TableInv
    BY DEF TableInv, EmptyEntry, NULL
  <1> QED BY <1>1, <1>2, <1>3, <1>4 DEF Inv

(* Facts about what callers own that the steps below use. *)
LEMMA LiveFacts ==
    ASSUME Inv
    PROVE  /\ h \in HeapType
           /\ \A a \in live : /\ a \in Allocation
                              /\ a.blocks >= 1
                              /\ a.addr \in RESERVED_BLOCKS .. (SYSTEM_BLOCKS - 1)
                              /\ a.addr \in h.map
           /\ \A a, b \in live : a.addr = b.addr => a = b
  <1>1. h \in HeapType
    BY DEF Inv, TypeOK, HeapType
  <1>2. ASSUME NEW a \in live
        PROVE  /\ a \in Allocation
               /\ a.blocks >= 1
               /\ a.addr \in RESERVED_BLOCKS .. (SYSTEM_BLOCKS - 1)
               /\ a.addr \in h.map
    <2>1. a \in Allocation /\ a.addr \in Blocks(a)
      BY DEF Inv, TypeOK, LiveDisjoint
    <2>2. a.addr \in h.map /\ a.addr \in RESERVED_BLOCKS .. (SYSTEM_BLOCKS - 1)
      BY <2>1 DEF Inv, LiveDisjoint
    <2>3. a.blocks >= 1
      BY <2>1 DEF Allocation, Blocks, Area
    <2> QED BY <2>1, <2>2, <2>3
  <1>3. ASSUME NEW a \in live, NEW b \in live, a.addr = b.addr
        PROVE  a = b
    BY <1>3 DEF Inv, LiveDisjoint
  <1> QED BY <1>1, <1>2, <1>3

(* A request keeps the invariant: what it hands out was clear, so nobody's *)
(* and not the kernel's, and is marked afterwards.                         *)
LEMMA RequestStep ==
    ASSUME Inv, NEW size \in SIZES, NEW z \in BOOLEAN, Request(size, z)
    PROVE  Inv'
  <1> DEFINE n == BlocksFor(size)
             r == kmallac(h, size)
             slot == search_address(h, NULL)
             new == [addr |-> ret', blocks |-> n, tracked |-> n = 1 \/ slot # 0]
  <1>1. h \in HeapType /\ n \in Nat \ {0}
    BY LiveFacts, BlocksForType, AllocatorAssumption
  <1>2. /\ h' = r.h /\ ret' = r.addr
        /\ zeroed' = IF z THEN Zeroed(ret', size) ELSE {}
        /\ live' = IF ret' = NULL THEN live ELSE live \cup {new}
        /\ lost' = lost /\ strays' = strays
    BY DEF Request
  <1>3. \/ ret' = NULL /\ (h' = h \/ Marked(h, h', 0, n))
        \/ /\ ret' \in 1 .. (SYSTEM_BLOCKS - n)
           /\ \A i \in Area(ret', n) : i \notin h.map
           /\ Granted(h, h', ret', n)
    BY <1>1, <1>2, KmallacEffect, AllocatorAssumption
  <1> HIDE DEF n, r
  <1>4. h' \in HeapType /\ h.map \subseteq h'.map /\ ret' \in Nat
    BY <1>1, <1>3, PmmAssumption DEF Marked, Granted, NULL
  <1>5. ReservedMarked'
    BY <1>4 DEF Inv, ReservedMarked
  <1>6. zeroed' \in SUBSET Nat
    <2>1. Zeroed(ret', size) \in SUBSET Nat
      BY <1>1, <1>4 DEF Zeroed, Area, n
    <2> QED BY <1>2, <2>1
  <1>7. CASE ret' = NULL
    <2>1. live' = live /\ h'.big = h.big
      BY <1>2, <1>3, <1>7, PmmAssumption DEF Marked, NULL
    <2>2. TypeOK'
      BY <1>2, <1>4, <1>6, <2>1 DEF Inv, TypeOK, HeapType
    <2>3. LiveDisjoint'
      BY <1>4, <2>1 DEF Inv, LiveDisjoint, Blocks
    <2>4. TableInv'
      BY <2>1 DEF Inv, TableInv
    <2> QED BY <1>5, <2>2, <2>3, <2>4 DEF Inv
  <1>8. CASE ret' # NULL
    <2>1. /\ ret' \in 1 .. (SYSTEM_BLOCKS - n)
          /\ \A i \in Area(ret', n) : i \notin h.map
          /\ Granted(h, h', ret', n)
          /\ live' = live \cup {new}
      BY <1>2, <1>3, <1>8
    <2>2. /\ Blocks(new) = Area(ret', n) /\ ret' \in Blocks(new)
          /\ Blocks(new) \subseteq 1 .. (SYSTEM_BLOCKS - 1)
          /\ Blocks(new) \subseteq h'.map
      BY <1>1, <2>1, PmmAssumption DEF Blocks, Area, Granted
    <2>3. Blocks(new) \subseteq RESERVED_BLOCKS .. (SYSTEM_BLOCKS - 1)
      BY <2>1, <2>2, PmmAssumption DEF Inv, ReservedMarked, Reserved, NULL
    <2>4. \A a \in live : Blocks(a) \subseteq h.map
      BY DEF Inv, LiveDisjoint
    <2>5. new \in Allocation
      BY <1>1, <2>1 DEF Allocation
    <2> DEFINE fresh == new
    <2>6. TypeOK'
      BY <1>2, <1>4, <1>6, <2>1, <2>5 DEF Inv, TypeOK, HeapType
    <2>7. LiveDisjoint'
      <3>1. \A a \in live : Blocks(a) \cap Blocks(new) = {}
        BY <2>1, <2>2, <2>4
      <3>2. \A a, b \in live : a # b => Blocks(a) \cap Blocks(b) = {}
        BY DEF Inv, LiveDisjoint
      <3>3. \A a \in live : /\ Blocks(a) \subseteq h.map \cap (RESERVED_BLOCKS .. (SYSTEM_BLOCKS - 1))
                            /\ a.addr \in Blocks(a)
        BY DEF Inv, LiveDisjoint
      <3>4. new.addr = ret'
        OBVIOUS
      <3> HIDE DEF new
      <3>5. \A a, b \in live' : a # b => Blocks(a) \cap Blocks(b) = {}
        BY <2>1, <3>1, <3>2
      <3>6. \A a \in live' : /\ Blocks(a) \subseteq h'.map \cap (RESERVED_BLOCKS .. (SYSTEM_BLOCKS - 1))
                             /\ a.addr \in Blocks(a)
        BY <1>4, <2>1, <2>2, <2>3, <3>3, <3>4
      <3> QED BY <3>5, <3>6 DEF LiveDisjoint, Blocks
    <2>8. TableInv'
      <3>1. TableInv /\ h.big \in [Slots -> Entry]
        BY <1>1 DEF Inv, HeapType
      <3>2. new.addr = ret' /\ new.blocks = n /\ (new.tracked <=> n = 1 \/ slot # 0)
        OBVIOUS
      <3>3. ret' # NULL /\ \A i \in Slots : h.big[i].addr # ret'
        <4>1. \A a \in live : a.addr # ret'
          BY <2>1, <2>2, LiveFacts
        <4> QED BY <1>8, <3>1, <4>1 DEF TableInv, EmptyEntry
      <3>4. CASE n = 1 \/ slot = 0
        <4>1. h'.big = h.big
          BY <2>1, <3>4 DEF Granted
        <4> HIDE DEF new, slot
        <4>2. new.blocks > 1 => ~ new.tracked
          BY <3>2, <3>4
        <4>3. \A a \in live' : a.blocks > 1 /\ a.tracked => a \in live
          BY <2>1, <4>2
        <4>4. new.blocks = 1 => new.tracked
          BY <3>2
        <4>5. \A i \in Slots : \/ h'.big[i] = EmptyEntry
                               \/ \E a \in live' : /\ a.blocks > 1 /\ a.tracked
                                                   /\ h'.big[i].addr = a.addr
                                                   /\ h'.big[i].blocks = a.blocks
          BY <2>1, <3>1, <4>1 DEF TableInv
        <4>6. \A a \in live' : a.blocks = 1 => a.tracked
          BY <2>1, <3>1, <4>4 DEF TableInv
        <4>7. /\ \A a \in live' : a.blocks > 1 /\ a.tracked => \E i \in Slots : h'.big[i].addr = a.addr
              /\ \A i, j \in Slots : h'.big[i].addr = h'.big[j].addr /\ i # j => h'.big[i].addr = NULL
          BY <3>1, <4>1, <4>3 DEF TableInv
        <4> QED BY <4>5, <4>6, <4>7 DEF TableInv
      <3>5. CASE ~ (n = 1 \/ slot = 0)
        <4>1. slot \in Slots /\ h.big[slot].addr = NULL
          BY <1>1, <3>5, SearchAddress DEF NULL
        <4>2. h'.big = [h.big EXCEPT ![slot] = [addr |-> ret', blocks |-> n]]
          BY <2>1, <3>5 DEF Granted
        <4> HIDE DEF new, slot
        <4>3. /\ h'.big[slot] = [addr |-> ret', blocks |-> n]
              /\ \A i \in Slots \ {slot} : h'.big[i] = h.big[i]
          BY <3>1, <4>1, <4>2
        <4>4. \A i \in Slots : \/ h'.big[i] = EmptyEntry
                               \/ \E a \in live' : /\ a.blocks > 1 /\ a.tracked
                                                   /\ h'.big[i].addr = a.addr
                                                   /\ h'.big[i].blocks = a.blocks
          <5>1. /\ new \in live' /\ new.blocks > 1 /\ new.tracked
                /\ h'.big[slot].addr = new.addr /\ h'.big[slot].blocks = new.blocks
            BY <1>1, <2>1, <3>2, <3>5, <4>1, <4>3
          <5>2. \A i \in Slots \ {slot} : \/ h'.big[i] = EmptyEntry
                                          \/ \E a \in live : /\ a.blocks > 1 /\ a.tracked
                                                             /\ h'.big[i].addr = a.addr
                                                             /\ h'.big[i].blocks = a.blocks
            BY <3>1, <4>3 DEF TableInv
          <5> QED BY <2>1, <5>1, <5>2
        <4>5. \A a \in live' : a.blocks > 1 /\ a.tracked => \E i \in Slots : h'.big[i].addr = a.addr
          <5>1. ASSUME NEW a \in live, a.blocks > 1, a.tracked
                PROVE  \E i \in Slots : h'.big[i].addr = a.addr
            <6>1. PICK i \in Slots : h.big[i].addr = a.addr
              BY <3>1, <5>1 DEF TableInv
            <6>2. i # slot
              BY <4>1, <6>1, LiveFacts, PmmAssumption DEF NULL
            <6> QED BY <4>3, <6>1, <6>2
          <5> QED BY <2>1, <3>2, <4>1, <4>3, <5>1
        <4>6. \A i, j \in Slots : h'.big[i].addr = h'.big[j].addr /\ i # j => h'.big[i].addr = NULL
          BY <3>1, <3>3, <4>3 DEF TableInv
        <4>7. \A a \in live' : a.blocks = 1 => a.tracked
          BY <2>1, <3>1, <3>2 DEF TableInv
        <4> QED BY <4>4, <4>5, <4>6, <4>7 DEF TableInv
      <3> QED BY <3>4, <3>5
    <2> QED BY <1>5, <2>6, <2>7, <2>8 DEF Inv
  <1> QED BY <1>7, <1>8

(* A release keeps the invariant: the search finds the allocation's own    *)
(* entry or none, so that nobody else's bits are cleared.                  *)
LEMMA KfreeStep ==
    ASSUME Inv, NEW a \in live, Kfree(a)
    PROVE  Inv'
  <1>1. /\ h \in HeapType /\ a \in Allocation /\ a.addr \in Nat \ {NULL}
        /\ a.blocks >= 1 /\ a.addr \in Blocks(a)
    BY LiveFacts, PmmAssumption DEF Allocation, NULL, Blocks, Area
  <1>2. /\ h' = kfree(h, a.addr) /\ live' = live \ {a} /\ ret' = ret /\ zeroed' = zeroed
        /\ strays' = strays
        /\ lost' = IF a.tracked THEN lost ELSE lost \cup (Blocks(a) \ {a.addr})
    BY DEF Kfree
  <1>3. PICK n \in Nat :
          /\ Returned(h, h', a.addr, n)
          /\ Area(a.addr, n) \subseteq Blocks(a)
          /\ \/ /\ h'.big = h.big
                /\ \A i \in Slots : h.big[i].addr # a.addr
             \/ \E s \in Slots : /\ h.big[s].addr = a.addr
                                 /\ h'.big = [h.big EXCEPT ![s] = EmptyEntry]
    <2> DEFINE s == search_address(h, a.addr)
    <2>1. \/ /\ s \in Slots
             /\ h.big[s].addr = a.addr
             /\ Returned(h, h', a.addr, h.big[s].blocks)
             /\ h'.big = [h.big EXCEPT ![s] = EmptyEntry]
          \/ /\ \A i \in Slots : h.big[i].addr # a.addr
             /\ Returned(h, h', a.addr, 1)
             /\ h'.big = h.big
      BY <1>1, <1>2, KfreeEffect
    <2> HIDE DEF s
    <2>2. CASE s \in Slots /\ h.big[s].addr = a.addr
      <3>1. PICK b \in live : h.big[s].addr = b.addr /\ h.big[s].blocks = b.blocks
        BY <1>1, <2>2 DEF Inv, TableInv, EmptyEntry
      <3>2. b = a
        BY <2>2, <3>1, LiveFacts
      <3>3. h.big[s].blocks = a.blocks /\ a.blocks \in Nat
        BY <1>1, <3>1, <3>2 DEF Allocation
      <3>4. Area(a.addr, a.blocks) \subseteq Blocks(a)
        BY DEF Blocks
      <3> QED BY <2>1, <2>2, <3>3, <3>4
    <2>3. CASE \A i \in Slots : h.big[i].addr # a.addr
      <3>1. Area(a.addr, 1) \subseteq Blocks(a)
        BY <1>1 DEF Area, Blocks, Allocation
      <3> QED BY <2>1, <2>3, <3>1
    <2> QED BY <2>1, <2>2, <2>3
  <1>4. h' \in HeapType /\ h'.map = h.map \ Area(a.addr, n)
    BY <1>3 DEF Returned
  <1>5. TypeOK'
    <2>1. Blocks(a) \in SUBSET Nat
      BY <1>1 DEF Blocks, Area, Allocation
    <2> QED BY <1>2, <1>4, <2>1 DEF Inv, TypeOK, HeapType
  <1>6. LiveDisjoint'
    <2>1. \A b, c \in live : b # c => Blocks(b) \cap Blocks(c) = {}
      BY DEF Inv, LiveDisjoint
    <2>2. \A b \in live : /\ Blocks(b) \subseteq h.map \cap (RESERVED_BLOCKS .. (SYSTEM_BLOCKS - 1))
                          /\ b.addr \in Blocks(b)
      BY DEF Inv, LiveDisjoint
    <2>3. \A b \in live' : Blocks(b) \subseteq h'.map
      BY <1>2, <1>3, <1>4, <2>1, <2>2
    <2> QED BY <1>2, <2>1, <2>2, <2>3 DEF LiveDisjoint, Blocks
  <1>7. ReservedMarked'
    <2>1. Area(a.addr, n) \cap Reserved = {}
      BY <1>3, PmmAssumption DEF Inv, LiveDisjoint, Reserved
    <2> QED BY <1>4, <2>1 DEF Inv, ReservedMarked
  <1>8. TableInv'
    <2>1. TableInv /\ h.big \in [Slots -> Entry]
      BY <1>1 DEF Inv, HeapType
    <2>2. \A b \in live' : b.addr # a.addr
      BY <1>2, LiveFacts
    <2>3. \A i \in Slots : h'.big[i] = IF h.big[i].addr = a.addr THEN EmptyEntry ELSE h.big[i]
      <3>1. CASE h'.big = h.big /\ \A i \in Slots : h.big[i].addr # a.addr
        BY <3>1
      <3>2. ASSUME NEW s \in Slots, h.big[s].addr = a.addr, h'.big = [h.big EXCEPT ![s] = EmptyEntry]
            PROVE  \A i \in Slots : h'.big[i] = IF h.big[i].addr = a.addr THEN EmptyEntry ELSE h.big[i]
        <4>1. \A i \in Slots : h.big[i].addr = a.addr => i = s
          BY <1>1, <2>1, <3>2 DEF TableInv
        <4> QED BY <2>1, <3>2, <4>1
      <3> QED BY <1>3, <3>1, <3>2
    <2>4. \A i \in Slots : \/ h'.big[i] = EmptyEntry
                           \/ \E b \in live' : /\ b.blocks > 1 /\ b.tracked
                                               /\ h'.big[i].addr = b.addr
                                               /\ h'.big[i].blocks = b.blocks
      BY <1>2, <2>1, <2>3 DEF TableInv
    <2>5. \A b \in live' : b.blocks > 1 /\ b.tracked => \E i \in Slots : h'.big[i].addr = b.addr
      BY <1>2, <2>1, <2>2, <2>3 DEF TableInv
    <2>6. \A i, j \in Slots : h'.big[i].addr = h'.big[j].addr /\ i # j => h'.big[i].addr = NULL
      BY <1>1, <2>1, <2>3 DEF TableInv, EmptyEntry
    <2>7. \A b \in live' : b.blocks = 1 => b.tracked
      BY <1>2, <2>1 DEF TableInv
    <2> QED BY <2>4, <2>5, <2>6, <2>7 DEF TableInv
  <1> QED BY <1>5, <1>6, <1>7, <1>8 DEF Inv

(* A release of the null pointer clears at most the bit of block 0.        *)
LEMMA KfreeNullStep ==
    ASSUME Inv, KfreeNull
    PROVE  Inv'
  <1>1. h \in HeapType /\ NULL \in Nat
    BY LiveFacts DEF NULL
  <1>2. /\ h' = kfree(h, NULL) /\ UNCHANGED <<live, lost, ret, zeroed>>
        /\ strays' \in Nat
    BY DEF KfreeNull, Inv, TypeOK
  <1>3. h' \in HeapType /\ h.map \ {NULL} \subseteq h'.map /\ h'.map \subseteq h.map /\ h'.big = h.big
    <2> DEFINE s == search_address(h, NULL)
    <2>1. \/ /\ s \in Slots
             /\ h.big[s].addr = NULL
             /\ Returned(h, h', NULL, h.big[s].blocks)
             /\ h'.big = [h.big EXCEPT ![s] = EmptyEntry]
          \/ /\ Returned(h, h', NULL, 1)
             /\ h'.big = h.big
      BY <1>1, <1>2, KfreeEffect
    <2> HIDE DEF s
    <2>2. CASE s \in Slots /\ h.big[s].addr = NULL
      <3>1. \A a \in live : a.addr # NULL
        BY LiveFacts, PmmAssumption DEF NULL
      <3>2. h.big[s] = EmptyEntry
        BY <2>2, <3>1 DEF Inv, TableInv
      <3>3. Area(NULL, h.big[s].blocks) = {} /\ Area(NULL, 1) = {NULL}
        BY <3>2 DEF EmptyEntry, Area, NULL
      <3>4. [h.big EXCEPT ![s] = EmptyEntry] = h.big
        BY <1>1, <3>2 DEF HeapType
      <3> QED BY <2>1, <3>3, <3>4 DEF Returned
    <2>3. CASE Returned(h, h', NULL, 1) /\ h'.big = h.big
      BY <2>3 DEF Returned, Area, NULL
    <2> QED BY <2>1, <2>2, <2>3
  <1>4. TypeOK'
    BY <1>2, <1>3 DEF Inv, TypeOK, HeapType
  <1>5. LiveDisjoint'
    <2>1. \A a \in live : NULL \notin Blocks(a)
      BY PmmAssumption DEF Inv, LiveDisjoint, NULL
    <2> QED BY <1>2, <1>3, <2>1 DEF Inv, LiveDisjoint, Blocks
  <1>6. ReservedMarked'
    BY <1>3 DEF Inv, ReservedMarked
  <1>7. TableInv'
    BY <1>2, <1>3 DEF Inv, TableInv
  <1> QED BY <1>4, <1>5, <1>6, <1>7 DEF Inv

(* Every step keeps the invariant, so that it always holds.                *)
THEOREM Invariance == Spec => []Inv
  <1>1. Init => Inv
    BY InvInit
  <1>2. Inv /\ [Next]_vars => Inv'
    <2> SUFFICES ASSUME Inv, [Next]_vars PROVE Inv'
      OBVIOUS
    <2>1. ASSUME NEW size \in SIZES, Kmallac(size) PROVE Inv'
      BY <2>1, RequestStep DEF Kmallac
    <2>2. ASSUME NEW size \in SIZES, Kzalloc(size) PROVE Inv'
      BY <2>2, RequestStep DEF Kzalloc
    <2>3. ASSUME NEW a \in live, Kfree(a) PROVE Inv'
      BY <2>3, KfreeStep
    <2>4. CASE KfreeNull
      BY <2>4, KfreeNullStep
    <2>5. CASE UNCHANGED vars
      BY <2>5 DEF vars, Inv, TypeOK, LiveDisjoint, Blocks, ReservedMarked, TableInv
    <2> QED BY <2>1, <2>2, <2>3, <2>4, <2>5 DEF Next
  <1> QED BY <1>1, <1>2, PTL DEF Spec

(* The state keeps its types: in particular no request returns an address  *)
(* below the null pointer, which pmm_allocate_block's test of frame        *)
(* ensures.                                                                *)
THEOREM TypeCorrect == Spec => []TypeOK
  BY Invariance, PTL DEF Inv

(* No two callers of the heap ever own a block in common and none owns a   *)
(* block of the kernel's, for every memory size, table size and mix of     *)
(* requests, refused, unrecorded and null ones included.                   *)
THEOREM Exclusive == Spec => []LiveDisjoint
  BY Invariance, PTL DEF Inv

-----------------------------------------------------------------------------
(***************************************************************************)
(* More about the kernel heap, again for every size of memory, of the      *)
(* table and of the requests: the bitmap, the counters and the table agree *)
(* with what callers own, and the heap implements BlockPool.  All of it    *)
(* but the table needs requests no longer than the kernel's own memory:    *)
(* the run that shows the counters wrong has a longer one.                 *)
(***************************************************************************)

(* The table records the tracked multi-block allocations and nothing else, *)
(* whatever the sizes requested: insert_in_big_blocks and free_big_blocks  *)
(* lose no entry and leave none behind.                                    *)
THEOREM TableAlwaysExact == Spec => []BigTableExact
  <1>1. Inv => BigTableExact
    <2> SUFFICES ASSUME Inv PROVE BigTableExact
      OBVIOUS
    <2>1. TableInv /\ h.big \in [Slots -> Entry]
      BY LiveFacts DEF Inv, HeapType
    <2>2. ASSUME NEW i \in Slots, h.big[i].addr # NULL
          PROVE  \E a \in live : /\ a.blocks > 1 /\ a.tracked
                                 /\ h.big[i] = [addr |-> a.addr, blocks |-> a.blocks]
      <3>1. PICK a \in live : /\ a.blocks > 1 /\ a.tracked
                              /\ h.big[i].addr = a.addr /\ h.big[i].blocks = a.blocks
        BY <2>1, <2>2 DEF TableInv, EmptyEntry
      <3>2. h.big[i] \in Entry
        BY <2>1
      <3> QED BY <3>1, <3>2 DEF Entry
    <2>3. ASSUME NEW a \in live, a.blocks > 1, a.tracked
          PROVE  \E i \in Slots : /\ h.big[i].addr # NULL
                                  /\ h.big[i] = [addr |-> a.addr, blocks |-> a.blocks]
      <3>1. PICK i \in Slots : h.big[i].addr = a.addr
        BY <2>1, <2>3 DEF TableInv
      <3>2. a.addr # NULL
        BY LiveFacts, PmmAssumption DEF NULL
      <3>3. PICK b \in live : /\ b.blocks > 1 /\ b.tracked
                              /\ h.big[i] = [addr |-> b.addr, blocks |-> b.blocks]
        BY <2>2, <3>1, <3>2
      <3>4. b.addr = a.addr
        BY <3>1, <3>3
      <3>5. b = a
        BY <3>4, LiveFacts
      <3> QED BY <3>1, <3>2, <3>3, <3>5
    <2>4. {h.big[i] : i \in {j \in Slots : h.big[j].addr # NULL}}
            = {[addr |-> a.addr, blocks |-> a.blocks] :
                  a \in {b \in live : b.blocks > 1 /\ b.tracked}}
      <3> DEFINE entry(a) == [addr |-> a.addr, blocks |-> a.blocks]
                 recorded == {h.big[i] : i \in {j \in Slots : h.big[j].addr # NULL}}
                 owed == {entry(a) : a \in {b \in live : b.blocks > 1 /\ b.tracked}}
      <3>1. ASSUME NEW i \in Slots, h.big[i].addr # NULL
            PROVE  \E a \in {b \in live : b.blocks > 1 /\ b.tracked} : h.big[i] = entry(a)
        BY <2>2, <3>1
      <3>2. ASSUME NEW a \in live, a.blocks > 1, a.tracked
            PROVE  \E i \in {j \in Slots : h.big[j].addr # NULL} : entry(a) = h.big[i]
        BY <2>3, <3>2
      <3> HIDE DEF entry
      <3>3. recorded \subseteq owed
        BY <3>1
      <3>4. owed \subseteq recorded
        BY <3>2
      <3> QED BY <3>3, <3>4 DEF entry
    <2> QED BY <2>1, <2>4 DEF BigTableExact, TableInv
  <1> QED BY <1>1, Invariance, PTL

-----------------------------------------------------------------------------
(***************************************************************************)
(* The second inductive invariant.  What is lost must be told from what is *)
(* owned, or a release could not be told from a loss.  The counter of free *)
(* blocks is never below the number of clear bits, also when null pointers *)
(* were freed: pmm_allocate_block's test of it refuses nothing too early.  *)
(***************************************************************************)
LostInv == /\ lost \subseteq RESERVED_BLOCKS .. (SYSTEM_BLOCKS - 1)
           /\ lost \cap Owned = {}

CountInv == /\ h.used + h.free = SYSTEM_BLOCKS
            /\ h.used <= Cardinality(h.map)
            /\ strays = 0 => h.used = Cardinality(h.map)

PoolInv == Inv /\ LostInv /\ MapExact /\ CountInv

Marks == Reserved \cup Owned \cup lost

(* The bitmap ends where memory ends.                                      *)
LEMMA MapFinite ==
    ASSUME PoolInv
    PROVE  /\ h.map \subseteq 0 .. (SYSTEM_BLOCKS - 1)
           /\ IsFiniteSet(h.map)
           /\ Cardinality(h.map) \in Nat
           /\ Owned \subseteq RESERVED_BLOCKS .. (SYSTEM_BLOCKS - 1)
  <1>1. Owned \subseteq RESERVED_BLOCKS .. (SYSTEM_BLOCKS - 1)
    BY DEF PoolInv, Inv, LiveDisjoint, Owned
  <1>2. Marks \subseteq 0 .. (SYSTEM_BLOCKS - 1)
    BY <1>1, PmmAssumption DEF PoolInv, LostInv, Marks, Reserved
  <1>3. h.map \subseteq Marks
    BY DEF PoolInv, MapExact, Marks
  <1>4. h.map \subseteq 0 .. (SYSTEM_BLOCKS - 1)
    BY <1>2, <1>3
  <1>5. IsFiniteSet(0 .. (SYSTEM_BLOCKS - 1))
    BY FS_Interval, PmmAssumption
  <1>6. IsFiniteSet(h.map)
    BY <1>4, <1>5, FS_Subset
  <1> QED BY <1>1, <1>4, <1>6, FS_CardinalityType

(* It holds when the kernel has initialised the heap: only its own part   *)
(* is marked, and counted.                                                 *)
LEMMA PoolInvInit == Init => PoolInv
  <1> SUFFICES ASSUME Init PROVE PoolInv
    OBVIOUS
  <1>1. Owned = {}
    BY DEF Init, Owned
  <1>2. LostInv
    BY <1>1 DEF Init, LostInv
  <1>3. h.map = Reserved
    BY DEF Init, kheap_init, pmm_init
  <1>4. MapExact
    BY <1>1, <1>3 DEF MapExact, Init
  <1>5. Cardinality(Reserved) = RESERVED_BLOCKS
    BY FS_Interval, PmmAssumption DEF Reserved
  <1>6. h.used = RESERVED_BLOCKS /\ h.free = SYSTEM_BLOCKS - RESERVED_BLOCKS
    BY DEF Init, kheap_init, pmm_init
  <1>7. CountInv
    BY <1>3, <1>5, <1>6, PmmAssumption DEF CountInv
  <1> QED BY <1>2, <1>4, <1>7, InvInit DEF PoolInv

(* Memory that is free for the next request: clear, nobody's and not lost. *)
LEMMA ClearIsFree ==
    ASSUME PoolInv
    PROVE  /\ Marks \ {NULL} \subseteq h.map
           /\ h.map \subseteq Marks
           /\ strays = 0 => NULL \in h.map
           /\ NULL \in Marks
           /\ NULL \notin Owned \cup lost
           /\ Reserved \cap (Owned \cup lost) = {}
  <1>1. NULL \in Reserved
    BY PmmAssumption DEF Reserved, NULL
  <1>2. (Owned \cup lost) \cap Reserved = {}
    BY MapFinite, PmmAssumption DEF PoolInv, LostInv, Reserved
  <1>3. h.map = Marks \/ (strays > 0 /\ h.map = Marks \ {NULL})
    BY Zenon DEF PoolInv, MapExact, Marks
  <1>4. strays \in Nat
    BY DEF PoolInv, Inv, TypeOK
  <1>5. strays = 0 => h.map = Marks
    BY <1>3, <1>4
  <1> QED BY <1>1, <1>2, <1>3, <1>5 DEF Marks

(* A request of one of the sizes: how the state changes, in one formula.   *)
LEMMA RequestEffect ==
    ASSUME SmallRequests, Inv, NEW size \in SIZES, NEW z \in BOOLEAN, Request(size, z)
    PROVE  LET n == BlocksFor(size)
           IN  /\ n \in Nat \ {0} /\ n <= RESERVED_BLOCKS
               /\ UNCHANGED <<lost, strays>>
               /\ zeroed' = IF z THEN Zeroed(ret', size) ELSE {}
               /\ \/ /\ ret' = NULL /\ live' = live
                     /\ \/ h' = h
                        \/ Marked(h, h', 0, n)
                  \/ /\ ret' \in 1 .. (SYSTEM_BLOCKS - n)
                     /\ \A i \in Area(ret', n) : i \notin h.map
                     /\ Granted(h, h', ret', n)
                     /\ live' = live \cup {[addr |-> ret', blocks |-> n,
                                            tracked |-> n = 1 \/ search_address(h, NULL) # 0]}
  <1> DEFINE n == BlocksFor(size)
             r == kmallac(h, size)
  <1>1. h \in HeapType /\ n \in Nat \ {0} /\ n <= RESERVED_BLOCKS
    BY LiveFacts, BlocksForType, AllocatorAssumption DEF SmallRequests
  <1>2. /\ h' = r.h /\ ret' = r.addr
        /\ zeroed' = IF z THEN Zeroed(ret', size) ELSE {}
        /\ live' = IF ret' = NULL THEN live
                   ELSE live \cup {[addr |-> ret', blocks |-> n,
                                    tracked |-> n = 1 \/ search_address(h, NULL) # 0]}
        /\ lost' = lost /\ strays' = strays
    BY DEF Request
  <1>3. \/ ret' = NULL /\ (h' = h \/ Marked(h, h', 0, n))
        \/ /\ ret' \in 1 .. (SYSTEM_BLOCKS - n)
           /\ \A i \in Area(ret', n) : i \notin h.map
           /\ Granted(h, h', ret', n)
    BY <1>1, <1>2, KmallacEffect, AllocatorAssumption
  <1> HIDE DEF n, r
  <1>4. ret' \in 1 .. (SYSTEM_BLOCKS - n) => ret' # NULL
    BY <1>1 DEF NULL
  <1> QED BY <1>1, <1>2, <1>3, <1>4 DEF n

(* What a request leaves owned. *)
LEMMA OwnedGrows ==
    ASSUME NEW n \in Nat, NEW a \in Nat, NEW t \in BOOLEAN,
           live' = live \cup {[addr |-> a, blocks |-> n, tracked |-> t]}
    PROVE  Owned' = Owned \cup Area(a, n)
  <1> DEFINE new == [addr |-> a, blocks |-> n, tracked |-> t]
  <1>1. Blocks(new) = Area(a, n)
    BY DEF Blocks
  <1>2. Owned' = UNION {Blocks(b) : b \in live \cup {new}}
    BY DEF Owned, Blocks
  <1> HIDE DEF new
  <1> QED BY <1>1, <1>2 DEF Owned

(* A request keeps the second invariant.  A refused one marks at most      *)
(* blocks of the kernel's own, which are marked already: only block 0 may  *)
(* have been clear.                                                        *)
LEMMA PoolRequest ==
    ASSUME SmallRequests, PoolInv, NEW size \in SIZES, NEW z \in BOOLEAN, Request(size, z)
    PROVE  PoolInv'
  <1> DEFINE n == BlocksFor(size)
             new == [addr |-> ret', blocks |-> n,
                     tracked |-> n = 1 \/ search_address(h, NULL) # 0]
  <1>1. /\ n \in Nat \ {0} /\ n <= RESERVED_BLOCKS
        /\ lost' = lost /\ strays' = strays
        /\ \/ ret' = NULL /\ live' = live /\ (h' = h \/ Marked(h, h', 0, n))
           \/ /\ ret' \in 1 .. (SYSTEM_BLOCKS - n)
              /\ \A i \in Area(ret', n) : i \notin h.map
              /\ Granted(h, h', ret', n)
              /\ live' = live \cup {new}
    BY RequestEffect DEF PoolInv
  <1>2. Inv'
    BY RequestStep DEF PoolInv
  <1>3. strays \in Nat /\ h.used \in Int /\ h.free \in Int
    BY DEF PoolInv, Inv, TypeOK
  <1> HIDE DEF n, new
  <1>4. CASE ret' = NULL /\ live' = live /\ h' = h
    <2>1. Owned' = Owned
      BY <1>4 DEF Owned, Blocks
    <2> QED BY <1>1, <1>2, <1>4, <2>1 DEF PoolInv, LostInv, MapExact, CountInv
  <1>5. CASE ret' = NULL /\ live' = live /\ Marked(h, h', 0, n)
    <2>1. Owned' = Owned
      BY <1>5 DEF Owned, Blocks
    <2>2. Area(0, n) \subseteq Reserved /\ NULL \in Area(0, n)
      BY <1>1, PmmAssumption DEF Area, Reserved, NULL
    <2>3. h'.map = h.map \cup Area(0, n)
      BY <1>5 DEF Marked
    <2>4. h'.map = Marks
      BY <2>2, <2>3, ClearIsFree DEF Marks
    <2>5. MapExact'
      <3>1. Marks' = Marks
        BY <1>1, <2>1 DEF Marks
      <3> QED BY <2>4, <3>1, Zenon DEF MapExact, Marks
    <2>6. CountInv'
      <3>1. IsFiniteSet(Marks) /\ Marks = h.map \cup {NULL}
        <4>1. Marks = h.map \cup {NULL}
          BY ClearIsFree
        <4> QED BY <4>1, MapFinite, FS_AddElement
      <3>2. Cardinality(h.map) <= Cardinality(Marks) /\ Cardinality(Marks) \in Nat
        BY <3>1, FS_Subset, FS_CardinalityType
      <3>3. strays = 0 => Marks = h.map
        BY <3>1, ClearIsFree
      <3>4. /\ Cardinality(h'.map) = Cardinality(Marks)
            /\ strays = 0 => Cardinality(Marks) = Cardinality(h.map)
        BY <2>4, <3>3, Zenon
      <3>5. h'.used = h.used /\ h'.free = h.free
        BY <1>5 DEF Marked
      <3> QED BY <1>1, <1>3, <3>2, <3>4, <3>5, MapFinite DEF PoolInv, CountInv
    <2>7. LostInv'
      BY <1>1, <2>1 DEF PoolInv, LostInv
    <2> QED BY <1>2, <2>5, <2>6, <2>7 DEF PoolInv
  <1>6. CASE /\ ret' \in 1 .. (SYSTEM_BLOCKS - n)
             /\ \A i \in Area(ret', n) : i \notin h.map
             /\ Granted(h, h', ret', n)
             /\ live' = live \cup {new}
    <2>1. Owned' = Owned \cup Area(ret', n)
      <3>1. new = [addr |-> ret', blocks |-> n, tracked |-> new.tracked] /\ new.tracked \in BOOLEAN
        BY DEF new
      <3>2. n \in Nat /\ ret' \in Nat
        BY <1>1, <1>6
      <3> QED BY <1>6, <3>1, <3>2, OwnedGrows
    <2>2. h'.map = h.map \cup Area(ret', n) /\ h'.used = h.used + n /\ h'.free = h.free - n
      BY <1>6 DEF Granted
    <2>3. NULL \notin Area(ret', n)
      BY <1>1, <1>6 DEF Area, NULL
    <2>4. Area(ret', n) \cap h.map = {}
      BY <1>6
    <2>5. LostInv'
      BY <1>1, <2>1, <2>3, <2>4, ClearIsFree DEF PoolInv, LostInv, Marks
    <2>6. Marks' = Marks \cup Area(ret', n)
      BY <1>1, <2>1 DEF Marks
    <2>7. MapExact'
      <3>1. h.map = Marks \/ (strays > 0 /\ h.map = Marks \ {NULL})
        BY Zenon DEF PoolInv, MapExact, Marks
      <3>2. h'.map = Marks' \/ (strays' > 0 /\ h'.map = Marks' \ {NULL})
        BY <1>1, <2>2, <2>3, <2>6, <3>1
      <3> QED BY <3>2, Zenon DEF MapExact, Marks
    <2>8. CountInv'
      <3>1. IsFiniteSet(Area(ret', n)) /\ Cardinality(Area(ret', n)) = n
        BY <1>1, <1>6, AreaSize
      <3>2. Cardinality(h'.map) = Cardinality(h.map) + n
        BY <2>2, <2>4, <3>1, MapFinite, MarkCount
      <3> QED BY <1>1, <1>3, <2>2, <3>2, MapFinite DEF PoolInv, CountInv
    <2> QED BY <1>2, <2>5, <2>7, <2>8 DEF PoolInv
  <1> QED BY <1>1, <1>4, <1>5, <1>6

(* A release gives back exactly what was owned, or the first block alone   *)
(* of a run that the full table did not record.                            *)
LEMMA KfreeExact ==
    ASSUME Inv, NEW a \in live, Kfree(a)
    PROVE  LET n == IF a.tracked THEN a.blocks ELSE 1
           IN  /\ n \in Nat
               /\ Area(a.addr, n) \subseteq Blocks(a)
               /\ a.tracked => Area(a.addr, n) = Blocks(a)
               /\ ~ a.tracked => Area(a.addr, n) = {a.addr}
               /\ Returned(h, h', a.addr, n)
  <1> DEFINE n == IF a.tracked THEN a.blocks ELSE 1
             s == search_address(h, a.addr)
  <1>1. /\ h \in HeapType /\ a \in Allocation /\ a.addr \in Nat \ {NULL}
        /\ a.blocks >= 1 /\ a.blocks \in Nat /\ a.addr \in Blocks(a)
    BY LiveFacts, PmmAssumption DEF Allocation, NULL, Blocks, Area
  <1>2. h' = kfree(h, a.addr)
    BY DEF Kfree
  <1>3. TableInv
    BY DEF Inv
  <1>4. \/ /\ s \in Slots
           /\ h.big[s].addr = a.addr
           /\ Returned(h, h', a.addr, h.big[s].blocks)
        \/ /\ \A i \in Slots : h.big[i].addr # a.addr
           /\ Returned(h, h', a.addr, 1)
    BY <1>1, <1>2, KfreeEffect
  <1> HIDE DEF s
  <1>5. Returned(h, h', a.addr, n)
    <2>1. CASE s \in Slots /\ h.big[s].addr = a.addr
      <3>1. PICK b \in live : /\ b.blocks > 1 /\ b.tracked
                              /\ h.big[s].addr = b.addr /\ h.big[s].blocks = b.blocks
        BY <1>1, <1>3, <2>1 DEF TableInv, EmptyEntry
      <3>2. b = a
        BY <2>1, <3>1, LiveFacts
      <3>3. h.big[s].blocks = n
        BY <3>1, <3>2
      <3> HIDE DEF n
      <3> QED BY <1>4, <2>1, <3>3
    <2>2. CASE \A i \in Slots : h.big[i].addr # a.addr
      <3>1. ~ (a.blocks > 1 /\ a.tracked)
        BY <1>3, <2>2 DEF TableInv
      <3>2. n = 1
        BY <1>1, <3>1
      <3> HIDE DEF n
      <3> QED BY <1>4, <2>2, <3>2
    <2> QED BY <1>4, <2>1, <2>2
  <1>6. n \in Nat /\ Area(a.addr, n) \subseteq Blocks(a)
    BY <1>1 DEF Area, Blocks
  <1>7. a.tracked => Area(a.addr, n) = Blocks(a)
    BY DEF Blocks
  <1>8. ~ a.tracked => Area(a.addr, n) = {a.addr}
    BY <1>1 DEF Area
  <1> QED BY <1>5, <1>6, <1>7, <1>8

(* What a release leaves owned. *)
LEMMA OwnedShrinks ==
    ASSUME LiveDisjoint, NEW a \in live, live' = live \ {a}
    PROVE  Owned' = Owned \ Blocks(a)
  <1>1. \A b \in live : b # a => Blocks(b) \cap Blocks(a) = {}
    BY DEF LiveDisjoint
  <1>2. Owned' = UNION {Blocks(b) : b \in live \ {a}}
    BY DEF Owned, Blocks
  <1> QED BY <1>1, <1>2 DEF Owned

(* A release keeps the second invariant: as many blocks are cleared and    *)
(* counted as leave the owner, the rest of an unrecorded run is lost.      *)
LEMMA PoolKfree ==
    ASSUME PoolInv, NEW a \in live, Kfree(a)
    PROVE  PoolInv'
  <1> DEFINE n == IF a.tracked THEN a.blocks ELSE 1
             back == Area(a.addr, n)
  <1>1. /\ n \in Nat /\ back \subseteq Blocks(a) /\ a.addr \in Nat
        /\ a.tracked => back = Blocks(a)
        /\ ~ a.tracked => back = {a.addr}
        /\ Returned(h, h', a.addr, n)
    BY KfreeExact, LiveFacts DEF PoolInv, Allocation
  <1>2. Inv'
    BY KfreeStep DEF PoolInv
  <1>3. /\ live' = live \ {a} /\ strays' = strays
        /\ lost' = IF a.tracked THEN lost ELSE lost \cup (Blocks(a) \ {a.addr})
    BY DEF Kfree
  <1>4. Owned' = Owned \ Blocks(a)
    BY <1>3, OwnedShrinks DEF PoolInv, Inv
  <1>5. Blocks(a) \subseteq Owned /\ Blocks(a) \subseteq h.map
    BY DEF Owned, PoolInv, Inv, LiveDisjoint
  <1>6. h'.map = h.map \ back /\ h'.used = h.used - n /\ h'.free = h.free + n
    BY <1>1 DEF Returned
  <1>7. IsFiniteSet(back) /\ Cardinality(back) = n
    BY <1>1, AreaSize
  <1> HIDE DEF n, back
  <1>8. LostInv'
    BY <1>3, <1>4, <1>5, MapFinite DEF PoolInv, LostInv
  <1>9. lost' = lost \cup (Blocks(a) \ back)
    BY <1>1, <1>3
  <1>10. Marks' = Marks \ back
    BY <1>1, <1>4, <1>5, <1>9, ClearIsFree DEF PoolInv, LostInv, Marks
  <1>11. MapExact'
    <2>1. h.map = Marks \/ (strays > 0 /\ h.map = Marks \ {NULL})
      BY Zenon DEF PoolInv, MapExact, Marks
    <2>2. h'.map = Marks' \/ (strays' > 0 /\ h'.map = Marks' \ {NULL})
      BY <1>3, <1>6, <1>10, <2>1
    <2> QED BY <2>2, Zenon DEF MapExact, Marks
  <1>12. CountInv'
    <2>1. Cardinality(h'.map) = Cardinality(h.map) - n
      <3>1. back \subseteq h.map
        BY <1>1, <1>5
      <3>2. Cardinality(h.map \ back) = Cardinality(h.map) - Cardinality(back)
        BY <3>1, MapFinite, ClearCount
      <3> QED BY <1>6, <1>7, <3>2, Zenon
    <2>2. strays \in Nat /\ h.used \in Int /\ h.free \in Int
      BY DEF PoolInv, Inv, TypeOK
    <2> QED BY <1>1, <1>3, <1>6, <2>1, <2>2, MapFinite DEF PoolInv, CountInv
  <1> QED BY <1>2, <1>8, <1>11, <1>12 DEF PoolInv

(* The null pointer either finds an empty entry and changes nothing, or    *)
(* takes block 0 from the bitmap, once.                                    *)
LEMMA KfreeNullEffect ==
    ASSUME Inv, KfreeNull
    PROVE  /\ UNCHANGED <<live, lost, ret, zeroed>>
           /\ \/ UNCHANGED <<h, strays>>
              \/ /\ strays' = strays + 1
                 /\ Returned(h, h', NULL, 1)
                 /\ h'.big = h.big
  <1> DEFINE s == search_address(h, NULL)
  <1>1. h \in HeapType /\ NULL \in Nat
    BY LiveFacts DEF NULL
  <1>2. /\ h' = kfree(h, NULL) /\ UNCHANGED <<live, lost, ret, zeroed>>
        /\ strays' = IF s = 0 THEN strays + 1 ELSE strays
    BY DEF KfreeNull
  <1>3. CASE s = 0
    <2>1. \A i \in Slots : h.big[i].addr # NULL
      BY <1>1, <1>3, SearchAddress, KheapAssumption DEF Slots
    <2>2. Returned(h, h', NULL, 1) /\ h'.big = h.big
      <3> HIDE DEF s
      <3> QED BY <1>1, <1>2, <2>1, KfreeEffect
    <2> QED BY <1>2, <1>3, <2>2
  <1>4. CASE s # 0
    <2>1. s \in Slots /\ h.big[s].addr = NULL
      BY <1>1, <1>4, SearchAddress
    <2>2. \A a \in live : a.addr # NULL
      BY LiveFacts, PmmAssumption DEF NULL
    <2>3. h.big[s] = EmptyEntry
      BY <2>1, <2>2 DEF Inv, TableInv
    <2>4. h' = [h EXCEPT !.map  = @ \ Area(NULL, 0),
                         !.used = @ - 0,
                         !.free = @ + 0,
                         !.big[s] = EmptyEntry]
      <3>1. h' = free_big_blocks(h, s)
        BY <1>2, <1>4 DEF kfree
      <3> QED BY <2>3, <3>1 DEF free_big_blocks, EmptyEntry
    <2>5. Area(NULL, 0) = {}
      BY DEF Area, NULL
    <2> DEFINE b == [h.big EXCEPT ![s] = EmptyEntry]
    <2>6. b = h.big
      BY <1>1, <2>3 DEF HeapType
    <2>7. /\ h.map \ Area(NULL, 0) = h.map /\ h.used - 0 = h.used /\ h.free + 0 = h.free
      BY <1>1, <2>5 DEF HeapType
    <2>8. h' = [h EXCEPT !.map = h.map, !.used = h.used, !.free = h.free, !.big = b]
      BY <2>4, <2>7
    <2> HIDE DEF b, s
    <2>9. h' = h
      BY <1>1, <2>6, <2>8 DEF HeapType
    <2> QED BY <1>2, <1>4, <2>9
  <1> QED BY <1>2, <1>3, <1>4

(* A release of the null pointer keeps it: block 0 may miss afterwards and *)
(* is counted as free each time.                                           *)
LEMMA PoolKfreeNull ==
    ASSUME PoolInv, KfreeNull
    PROVE  PoolInv'
  <1>1. Inv'
    BY KfreeNullStep DEF PoolInv
  <1>2. live' = live /\ lost' = lost
    BY KfreeNullEffect DEF PoolInv
  <1>3. Owned' = Owned /\ Marks' = Marks
    BY <1>2 DEF Owned, Blocks, Marks
  <1>4. LostInv'
    BY <1>2, <1>3 DEF PoolInv, LostInv
  <1>5. strays \in Nat /\ h.used \in Int /\ h.free \in Int
    BY DEF PoolInv, Inv, TypeOK
  <1>6. CASE UNCHANGED <<h, strays>>
    BY <1>1, <1>3, <1>2, <1>4, <1>6 DEF PoolInv, MapExact, CountInv
  <1>7. CASE strays' = strays + 1 /\ Returned(h, h', NULL, 1)
    <2>1. h'.map = h.map \ {NULL} /\ h'.used = h.used - 1 /\ h'.free = h.free + 1
      BY <1>7 DEF Returned, Area, NULL
    <2>2. h'.map = Marks \ {NULL}
      BY <2>1, ClearIsFree
    <2>3. MapExact'
      <3>1. h'.map = Marks' \ {NULL} /\ strays' > 0
        BY <1>3, <1>5, <1>7, <2>2
      <3> QED BY <3>1, Zenon DEF MapExact, Marks
    <2>4. CountInv'
      <3> DEFINE c == Cardinality(h.map)
                 d == Cardinality(h.map \ {NULL})
      <3>0. c \in Nat /\ (d = IF NULL \in h.map THEN c - 1 ELSE c)
        BY MapFinite, FS_RemoveElement
      <3> HIDE DEF c, d
      <3>1. d >= c - 1 /\ d \in Int
        BY <3>0
      <3>2. Cardinality(h'.map) = d
        BY <2>1, Zenon DEF d
      <3> QED BY <1>5, <1>7, <2>1, <3>0, <3>1, <3>2 DEF PoolInv, CountInv, c
    <2> QED BY <1>1, <1>4, <2>3, <2>4 DEF PoolInv
  <1> QED BY <1>6, <1>7, KfreeNullEffect DEF PoolInv

(* Every step keeps the second invariant. *)
LEMMA PoolStep ==
    ASSUME SmallRequests, PoolInv, [Next]_vars
    PROVE  PoolInv'
  <1>1. ASSUME NEW size \in SIZES, Kmallac(size) PROVE PoolInv'
    BY <1>1, PoolRequest DEF Kmallac
  <1>2. ASSUME NEW size \in SIZES, Kzalloc(size) PROVE PoolInv'
    BY <1>2, PoolRequest DEF Kzalloc
  <1>3. ASSUME NEW a \in live, Kfree(a) PROVE PoolInv'
    BY <1>3, PoolKfree
  <1>4. CASE KfreeNull
    BY <1>4, PoolKfreeNull
  <1>5. CASE UNCHANGED vars
    BY <1>5 DEF vars, PoolInv, Inv, TypeOK, LiveDisjoint, Blocks, ReservedMarked, TableInv,
                LostInv, Owned, MapExact, CountInv
  <1> QED BY <1>1, <1>2, <1>3, <1>4, <1>5 DEF Next

(* The second invariant always holds, if no request is too long.           *)
THEOREM PoolInvariance ==
    ASSUME SmallRequests
    PROVE  Spec => []PoolInv
  <1>1. Init => PoolInv
    BY PoolInvInit
  <1>2. PoolInv /\ [Next]_vars => PoolInv'
    BY PoolStep
  <1> QED BY <1>1, <1>2, PTL DEF Spec

(* The bitmap marks what callers own, what they lost and the kernel's own  *)
(* blocks, and nothing else, after any sequence of requests and releases:  *)
(* kmallac and kfree leak no block but those of an unrecorded run.         *)
THEOREM MapAlwaysExact ==
    ASSUME SmallRequests
    PROVE  Spec => []MapExact
  <1>1. PoolInv => MapExact
    BY DEF PoolInv
  <1> QED BY <1>1, PoolInvariance, PTL

(* pmm_used_blocks and pmm_free_blocks count the set and the clear bits of *)
(* the bitmap as long as no null pointer was released into it.             *)
THEOREM CountersAlwaysExact ==
    ASSUME SmallRequests
    PROVE  Spec => []CountersExact
  <1>1. PoolInv => CountersExact
    <2> SUFFICES ASSUME PoolInv, strays = 0 PROVE CountersExact
      BY DEF CountersExact
    <2>1. h.map \cap (0 .. (SYSTEM_BLOCKS - 1)) = h.map
      BY MapFinite
    <2>2. Cardinality(h.map \cap (0 .. (SYSTEM_BLOCKS - 1))) = Cardinality(h.map)
      BY <2>1, Zenon
    <2>3. h.used \in Int /\ h.free \in Int
      BY DEF PoolInv, Inv, TypeOK
    <2> QED BY <2>2, <2>3, PmmAssumption DEF PoolInv, CountInv, CountersExact
  <1> QED BY <1>1, PoolInvariance, PTL

-----------------------------------------------------------------------------
(* What a request zeroes: nobody's but the new owner's. *)
LEMMA ZeroedByRequest ==
    ASSUME SmallRequests, PoolInv, NEW size \in SIZES, NEW z \in BOOLEAN, Request(size, z)
    PROVE  ZeroingMissesOwners'
  <1> DEFINE n == BlocksFor(size)
             new == [addr |-> ret', blocks |-> n,
                     tracked |-> n = 1 \/ search_address(h, NULL) # 0]
  <1>1. /\ n \in Nat \ {0} /\ n <= RESERVED_BLOCKS
        /\ zeroed' = IF z THEN Zeroed(ret', size) ELSE {}
        /\ \/ ret' = NULL /\ live' = live
           \/ /\ ret' \in 1 .. (SYSTEM_BLOCKS - n)
              /\ \A i \in Area(ret', n) : i \notin h.map
              /\ live' = live \cup {new}
    BY RequestEffect DEF PoolInv
  <1>2. zeroed' \subseteq Area(ret', n)
    BY <1>1 DEF Zeroed
  <1>3. new.addr = ret'
    OBVIOUS
  <1> HIDE DEF n, new
  <1>4. \A a \in live : Blocks(a) \subseteq h.map /\ Blocks(a) \subseteq RESERVED_BLOCKS .. (SYSTEM_BLOCKS - 1)
    BY DEF PoolInv, Inv, LiveDisjoint
  <1>5. \A a \in live : Area(ret', n) \cap Blocks(a) = {}
    <2>1. CASE ret' = NULL
      <3>1. Area(ret', n) \subseteq Reserved
        BY <1>1, <2>1, PmmAssumption DEF Area, Reserved, NULL
      <3> QED BY <1>4, <3>1, PmmAssumption DEF Reserved
    <2>2. CASE \A i \in Area(ret', n) : i \notin h.map
      BY <1>4, <2>2
    <2> QED BY <1>1, <2>1, <2>2
  <1>6. \A a \in live' : a.addr # ret' => zeroed' \cap Blocks(a) = {}
    BY <1>1, <1>2, <1>3, <1>5
  <1> QED BY <1>6 DEF ZeroingMissesOwners, Blocks

(* kzalloc's memset never writes what another caller owns, though it does  *)
(* not test whether kmallac returned the null pointer.                     *)
THEOREM ZeroingAlwaysMisses ==
    ASSUME SmallRequests
    PROVE  Spec => []ZeroingMissesOwners
  <1>1. Init => ZeroingMissesOwners
    BY DEF Init, ZeroingMissesOwners
  <1>2. PoolInv /\ ZeroingMissesOwners /\ [Next]_vars => ZeroingMissesOwners'
    <2> SUFFICES ASSUME PoolInv, ZeroingMissesOwners, [Next]_vars
                 PROVE  ZeroingMissesOwners'
      OBVIOUS
    <2>1. ASSUME NEW size \in SIZES, Kmallac(size) PROVE ZeroingMissesOwners'
      BY <2>1, ZeroedByRequest DEF Kmallac
    <2>2. ASSUME NEW size \in SIZES, Kzalloc(size) PROVE ZeroingMissesOwners'
      BY <2>2, ZeroedByRequest DEF Kzalloc
    <2>3. ASSUME NEW a \in live, Kfree(a) PROVE ZeroingMissesOwners'
      BY <2>3 DEF Kfree, ZeroingMissesOwners, Blocks
    <2>4. CASE KfreeNull
      BY <2>4 DEF KfreeNull, ZeroingMissesOwners, Blocks
    <2>5. CASE UNCHANGED vars
      BY <2>5 DEF vars, ZeroingMissesOwners, Blocks
    <2> QED BY <2>1, <2>2, <2>3, <2>4, <2>5 DEF Next
  <1> QED BY <1>1, <1>2, PoolInvariance, PTL DEF Spec

-----------------------------------------------------------------------------
(***************************************************************************)
(* The refinement: a request is refused only when the pool may refuse it,  *)
(* and the null block stops single ones.                                   *)
(***************************************************************************)
(* The table has an empty entry exactly while fewer allocations than       *)
(* BIG_ADDRESS are tracked: each has its own entry.                        *)
LEMMA TableRoom ==
    ASSUME Inv
    PROVE  search_address(h, NULL) # 0 <=> Cardinality(Pool!Tracked) < BIG_ADDRESS
  <1> DEFINE slot == search_address(h, NULL)
             tracked == {a \in live : a.blocks > 1 /\ a.tracked}
  <1>1. tracked = Pool!Tracked
    BY DEF Pool!Tracked
  <1>2. IsFiniteSet(Slots) /\ Cardinality(Slots) = BIG_ADDRESS
    BY FS_Interval, KheapAssumption DEF Slots
  <1>3. \/ slot = 0 /\ \A i \in Slots : h.big[i].addr # NULL
        \/ slot \in Slots /\ h.big[slot].addr = NULL
    BY LiveFacts, SearchAddress DEF NULL
  <1>4. TableInv /\ \A a \in live : a.addr # NULL
    BY LiveFacts, PmmAssumption DEF Inv, NULL
  <1> HIDE DEF slot
  <1> DEFINE place == [a \in tracked |-> CHOOSE i \in Slots : h.big[i].addr = a.addr]
  <1>5. \A a \in tracked : place[a] \in Slots /\ h.big[place[a]].addr = a.addr
    BY <1>4 DEF TableInv
  <1>6. \A a, b \in tracked : place[a] = place[b] => a = b
    <2>1. tracked \subseteq live
      OBVIOUS
    <2> HIDE DEF place, tracked
    <2> QED BY <1>5, <2>1, LiveFacts
  <1>7. /\ place \in [tracked -> Slots]
        /\ \A T : (\A a \in tracked : place[a] \in T) => place \in Injection(tracked, T)
    <2>1. place \in [tracked -> Slots]
      BY <1>5
    <2>2. ASSUME NEW T, \A a \in tracked : place[a] \in T
          PROVE  place \in Injection(tracked, T)
      <3>1. place \in [tracked -> T]
        BY <2>2
      <3> HIDE DEF place, tracked
      <3> QED BY <1>6, <3>1 DEF Injection, IsInjective
    <2> QED BY <2>1, <2>2
  <1> HIDE DEF place
  <1>8. CASE slot \in Slots /\ h.big[slot].addr = NULL
    <2>1. \A a \in tracked : place[a] \in Slots \ {slot}
      BY <1>4, <1>5, <1>8
    <2>2. place \in Injection(tracked, Slots \ {slot})
      BY <1>7, <2>1
    <2>3. IsFiniteSet(Slots \ {slot}) /\ Cardinality(Slots \ {slot}) = BIG_ADDRESS - 1
      BY <1>2, <1>8, FS_RemoveElement
    <2> HIDE DEF tracked
    <2>4. IsFiniteSet(tracked) /\ Cardinality(tracked) <= Cardinality(Slots \ {slot})
      BY <2>2, <2>3, FS_Injection
    <2>5. Cardinality(tracked) \in Nat
      BY <2>4, FS_CardinalityType
    <2>6. slot # 0
      BY <1>8 DEF Slots
    <2>7. Cardinality(tracked) < BIG_ADDRESS
      BY <2>3, <2>4, <2>5, KheapAssumption
    <2> QED BY <1>1, <2>6, <2>7 DEF slot
  <1>9. CASE slot = 0 /\ \A i \in Slots : h.big[i].addr # NULL
    <2> DEFINE owner == [i \in Slots |-> CHOOSE a \in tracked : h.big[i].addr = a.addr]
    <2>1. \A i \in Slots : owner[i] \in tracked /\ h.big[i].addr = owner[i].addr
      <3>1. ASSUME NEW i \in Slots PROVE \E a \in tracked : h.big[i].addr = a.addr
        BY <1>4, <1>9 DEF TableInv, EmptyEntry
      <3> HIDE DEF tracked
      <3> QED BY <3>1
    <2>2. \A i, j \in Slots : owner[i] = owner[j] => i = j
      <3> HIDE DEF owner, tracked
      <3> QED BY <1>4, <1>9, <2>1 DEF TableInv
    <2>3. owner \in [Slots -> tracked]
      BY <2>1
    <2> HIDE DEF owner, tracked
    <2>4. owner \in Injection(Slots, tracked)
      BY <2>2, <2>3 DEF Injection, IsInjective
    <2>5. IsFiniteSet(tracked)
      BY <1>2, <1>5, <1>7, FS_Injection
    <2>6. BIG_ADDRESS <= Cardinality(tracked)
      BY <1>2, <2>4, <2>5, FS_Injection
    <2>7. Cardinality(tracked) \in Nat
      BY <2>5, FS_CardinalityType
    <2>8. ~ (Cardinality(tracked) < BIG_ADDRESS)
      BY <2>6, <2>7, KheapAssumption
    <2> QED BY <1>1, <1>9, <2>8 DEF slot
  <1> QED BY <1>3, <1>8, <1>9

(* The pool's free memory is what the bitmap leaves clear above the        *)
(* kernel's own part.                                                      *)
LEMMA PoolFree ==
    ASSUME PoolInv
    PROVE  Pool!Free = (RESERVED_BLOCKS .. (SYSTEM_BLOCKS - 1)) \ h.map
  <1> DEFINE above == RESERVED_BLOCKS .. (SYSTEM_BLOCKS - 1)
  <1>1. Pool!Free = (above \ lost) \ Owned
    BY DEF Pool!Free, Pool!Blocks, Owned, Blocks, Area
  <1>2. above \cap Reserved = {} /\ NULL \notin above
    BY PmmAssumption DEF Reserved, NULL
  <1> HIDE DEF above
  <1>3. above \cap h.map = above \cap (Owned \cup lost)
    BY <1>2, ClearIsFree DEF Marks
  <1> QED BY <1>1, <1>3 DEF above

(* A request is a grant or a refusal of the pool. *)
LEMMA RequestRefines ==
    ASSUME SmallRequests, PoolInv, NEW size \in SIZES, NEW z \in BOOLEAN, Request(size, z)
    PROVE  Pool!Grant(BlocksFor(size)) \/ Pool!Refuse(BlocksFor(size))
  <1> DEFINE n == BlocksFor(size)
             r == kmallac(h, size)
             slot == search_address(h, NULL)
             above == RESERVED_BLOCKS .. (SYSTEM_BLOCKS - 1)
  <1>1. /\ n \in Nat \ {0} /\ n <= RESERVED_BLOCKS /\ lost' = lost
        /\ \/ ret' = NULL /\ live' = live
           \/ /\ ret' \in 1 .. (SYSTEM_BLOCKS - n)
              /\ \A i \in Area(ret', n) : i \notin h.map
              /\ Granted(h, h', ret', n)
              /\ live' = live \cup {[addr |-> ret', blocks |-> n, tracked |-> n = 1 \/ slot # 0]}
    BY RequestEffect DEF PoolInv
  <1>2. h' = r.h /\ ret' = r.addr
    BY DEF Request
  <1>3. h \in HeapType /\ size \in Nat
    BY LiveFacts, AllocatorAssumption DEF PoolInv
  <1>4. /\ n = 1 /\ r.addr = NULL =>
              /\ r.h = h
              /\ \/ h.free = 0
                 \/ NULL \notin h.map
                 \/ 0 .. (SYSTEM_BLOCKS - 1) \subseteq h.map
        /\ n = 1 /\ r.addr # NULL => NULL \in h.map
        /\ n # 1 /\ r.addr = NULL =>
              /\ Marked(h, r.h, 0, n)
              /\ \A s \in 1 .. (SYSTEM_BLOCKS - n - 1) : \E i \in Area(s, n) : i \in h.map
    BY <1>3, KmallacRefusal
  <1>5. Pool!Free = above \ h.map
    BY PoolFree
  <1> HIDE DEF r, n
  <1>6. CASE ret' = NULL /\ live' = live
    <2>1. CASE n = 1
      <3>1. h' = h
        BY <1>2, <1>4, <1>6, <2>1
      <3>2. Pool!Free = {} \/ NULL \notin h.map
        <4>1. CASE h.free = 0
          <5>1. Cardinality(h.map) >= SYSTEM_BLOCKS
            <6>1. h.used = SYSTEM_BLOCKS
              BY <1>3, <4>1, PmmAssumption DEF PoolInv, CountInv, HeapType
            <6> QED BY <6>1, MapFinite, PmmAssumption DEF PoolInv, CountInv
          <5>2. /\ IsFiniteSet(0 .. (SYSTEM_BLOCKS - 1))
                /\ Cardinality(0 .. (SYSTEM_BLOCKS - 1)) = SYSTEM_BLOCKS
            BY FS_Interval, PmmAssumption
          <5>3. h.map \subseteq 0 .. (SYSTEM_BLOCKS - 1) /\ Cardinality(h.map) \in Nat
            BY MapFinite
          <5>4. Cardinality(h.map) <= SYSTEM_BLOCKS
            BY <5>2, <5>3, FS_Subset
          <5>5. Cardinality(h.map) = SYSTEM_BLOCKS
            BY <5>1, <5>3, <5>4, PmmAssumption
          <5>6. h.map = 0 .. (SYSTEM_BLOCKS - 1)
            BY <5>2, <5>3, <5>5, FS_Subset
          <5> QED BY <1>5, <5>6, PmmAssumption
        <4>2. CASE 0 .. (SYSTEM_BLOCKS - 1) \subseteq h.map
          BY <1>5, <4>2, PmmAssumption
        <4> QED BY <1>2, <1>4, <1>6, <2>1, <4>1, <4>2
      <3> QED BY <1>1, <1>6, <2>1, <3>1, <3>2 DEF Pool!Refuse, NULL, n
    <2>2. CASE n # 1
      <3>1. Marked(h, h', 0, n)
        BY <1>2, <1>4, <1>6, <2>2
      <3>2. NULL \in h'.map
        BY <1>1, <3>1 DEF Marked, Area, NULL
      <3>3. ASSUME NEW s \in Pool!Free, s .. (s + n - 1) \subseteq Pool!Free \ {SYSTEM_BLOCKS - 1}
            PROVE  FALSE
        <4>1. s \in Nat /\ s >= 1 /\ s <= SYSTEM_BLOCKS - 1
          BY <1>5, PmmAssumption
        <4>2. s + n - 1 \in above /\ s + n - 1 # SYSTEM_BLOCKS - 1
          BY <1>1, <1>5, <3>3, <4>1
        <4>3. s \in 1 .. (SYSTEM_BLOCKS - n - 1)
          BY <1>1, <4>1, <4>2, PmmAssumption
        <4>4. PICK i \in Area(s, n) : i \in h.map
          BY <1>2, <1>4, <1>6, <2>2, <4>3
        <4>5. i \in Pool!Free
          BY <3>3, <4>4 DEF Area
        <4> QED BY <1>5, <4>4, <4>5
      <3> QED BY <1>1, <1>6, <2>2, <3>2, <3>3 DEF Pool!Refuse, NULL, n
    <2> QED BY <2>1, <2>2
  <1>7. CASE /\ ret' \in 1 .. (SYSTEM_BLOCKS - n)
             /\ \A i \in Area(ret', n) : i \notin h.map
             /\ Granted(h, h', ret', n)
             /\ live' = live \cup {[addr |-> ret', blocks |-> n, tracked |-> n = 1 \/ slot # 0]}
    <2>1. Area(ret', n) \subseteq Pool!Free /\ ret' \in Area(ret', n)
      <3>1. Area(ret', n) \subseteq 1 .. (SYSTEM_BLOCKS - 1) /\ ret' \in Area(ret', n)
        BY <1>1, <1>7, PmmAssumption DEF Area
      <3>2. Area(ret', n) \cap Reserved = {}
        BY <1>7, <3>1 DEF PoolInv, Inv, ReservedMarked, NULL
      <3> QED BY <1>5, <1>7, <3>1, <3>2, PmmAssumption DEF Reserved
    <2>2. slot # 0 <=> Cardinality(Pool!Tracked) < BIG_ADDRESS
      BY TableRoom DEF PoolInv
    <2>3. NULL \in h'.map <=> NULL \in h.map
      BY <1>7 DEF Granted, Area, NULL
    <2>4. n = 1 => NULL \in h.map
      <3>1. r.addr # NULL
        BY <1>2, <1>7 DEF NULL
      <3> QED BY <1>4, <3>1
    <2> HIDE DEF slot
    <2> DEFINE t == n = 1 \/ slot # 0
               u == n = 1 \/ Cardinality(Pool!Tracked) < BIG_ADDRESS
    <2>5. live' = live \cup {[addr |-> ret', blocks |-> n, tracked |-> u]}
      <3>1. t = u
        BY <2>2
      <3>2. live' = live \cup {[addr |-> ret', blocks |-> n, tracked |-> t]}
        BY <1>7
      <3> HIDE DEF t, u
      <3> QED BY <3>1, <3>2
    <2>6. Pool!Grant(n)
      <3> DEFINE T == Pool!Tracked
      <3>0. Pool!Cardinality(T) = Cardinality(T)
        \* the instance brings a Cardinality of its own
        <4> HIDE DEF T
        <4> QED BY Zenon DEF Pool!Cardinality, Cardinality
      <3>1. ret' \in Pool!Free /\ ret' .. (ret' + n - 1) \subseteq Pool!Free
        BY <2>1 DEF Area
      <3>2. UNCHANGED <<lost, NULL \notin h.map>>
        BY <1>1, <2>3
      <3>3. n = 1 => ~ (NULL \notin h.map)
        BY <2>4
      <3>4. ret' \in Pool!Free
        BY <3>1
      <3> USE DEF Pool!Grant
      <3> WITNESS ret' \in Pool!Free
      <3>5. ret' .. (ret' + n - 1) \subseteq Pool!Free
        BY <3>1
      <3>6. n = 1 => ~ (NULL \notin h.map)
        BY <3>3
      <3>7. live' = live \cup {[addr |-> ret', blocks |-> n,
                                tracked |-> n = 1 \/ Pool!Cardinality(Pool!Tracked) < BIG_ADDRESS]}
        BY <2>5, <3>0
      <3>8. UNCHANGED <<lost, NULL \notin h.map>>
        BY <3>2
      <3> QED BY <3>5, <3>6, <3>7, <3>8, Zenon
    <2> QED BY <2>6 DEF n
  <1> QED BY <1>1, <1>6, <1>7

(* The heap implements the pool of blocks, whatever the memory, the table  *)
(* and the requests, as long as none is longer than the kernel's part.     *)
THEOREM HeapIsPool ==
    ASSUME SmallRequests
    PROVE  Spec => ImplementsPool
  <1>1. Init => Pool!Init
    <2> SUFFICES ASSUME Init PROVE Pool!Init
      OBVIOUS
    <2>1. NULL \in h.map
      BY PmmAssumption DEF Init, kheap_init, pmm_init, Reserved, NULL
    <2> QED BY <2>1 DEF Init, Pool!Init, NULL
  <1>2. PoolInv /\ [Next]_vars => [Pool!Next]_(Pool!vars)
    <2> SUFFICES ASSUME PoolInv, [Next]_vars PROVE [Pool!Next]_(Pool!vars)
      OBVIOUS
    <2>1. ASSUME NEW size \in SIZES, NEW z \in BOOLEAN, Request(size, z)
          PROVE  Pool!Next
      <3>1. BlocksFor(size) \in {BlocksFor(s) : s \in SIZES}
        OBVIOUS
      <3> QED BY <2>1, <3>1, RequestRefines DEF Pool!Next
    <2>2. ASSUME NEW a \in live, Kfree(a) PROVE Pool!Next
      <3>1. NULL \in h'.map <=> NULL \in h.map
        <4>1. NULL \notin Blocks(a)
          BY PmmAssumption DEF PoolInv, Inv, LiveDisjoint, NULL
        <4> QED BY <2>2, <4>1, KfreeExact DEF PoolInv, Returned
      <3>2. Pool!Blocks(a) = Blocks(a)
        BY DEF Pool!Blocks, Blocks, Area
      <3>3. Pool!Release(a)
        BY <2>2, <3>1, <3>2 DEF Kfree, Pool!Release
      <3> QED BY <3>3 DEF Pool!Next
    <2>3. CASE KfreeNull
      <3>1. CASE UNCHANGED <<h, strays>>
        BY <2>3, <3>1 DEF KfreeNull, Pool!vars
      <3>2. CASE Returned(h, h', NULL, 1)
        <4>1. NULL \notin h'.map
          BY <3>2 DEF Returned, Area, NULL
        <4>2. Pool!Jam
          BY <2>3, <4>1 DEF KfreeNull, Pool!Jam
        <4> QED BY <4>2 DEF Pool!Next
      <3> QED BY <2>3, <3>1, <3>2, KfreeNullEffect DEF PoolInv
    <2>4. CASE UNCHANGED vars
      BY <2>4 DEF vars, Pool!vars
    <2> QED BY <2>1, <2>2, <2>3, <2>4 DEF Next, Kmallac, Kzalloc
  <1> QED BY <1>1, <1>2, PoolInvariance, PTL DEF Spec, ImplementsPool, Pool!Spec
=============================================================================
