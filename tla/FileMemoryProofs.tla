-------------------------- MODULE FileMemoryProofs --------------------------
(***************************************************************************)
(* The memory behind the files, on a machine of any size, for any disks    *)
(* and paths.                                                              *)
(*                                                                         *)
(* The state says of each descriptor which blocks it holds, but not which  *)
(* blocks were forgotten, and a call releases what it took among them.  So *)
(* the invariant carries along a set L that no action reads: the areas     *)
(* that were handed out and not given back.                                *)
(*                                                                         *)
(* The second half counts: Exact says of a call in progress how many       *)
(* blocks are marked and how many entries of the table are empty, and each *)
(* step of fopen gets a lemma about both.                                  *)
(***************************************************************************)
EXTENDS FileMemory, LayerProofs

(* An area that kmallac handed out: its first block and their number.      *)
Live == [addr : Nat \ {NULL}, blocks : Nat \ {0}]

At(a) == Area(a.addr, a.blocks)

(* The blocks that a request could get, which the counter does not miss.   *)
Clear(g) == (1 .. (SYSTEM_BLOCKS - 1)) \ g.map

Counted(g) == /\ IsFiniteSet(g.map)
              /\ g.free \in Nat
              /\ Cardinality(Clear(g)) <= g.free

(* The table remembers live areas, each in one entry.                      *)
TableOf(g, L) ==
    /\ \A i \in Slots : IF g.big[i].addr = NULL THEN g.big[i] = EmptyEntry
                        ELSE g.big[i] \in L /\ g.big[i].blocks > 1
    /\ \A i, j \in Slots : g.big[i].addr = g.big[j].addr => i = j \/ g.big[i].addr = NULL

(* The areas of L are marked, apart from one another and from the kernel.  *)
Apart(g, L) ==
    /\ L \subseteq Live
    /\ \A a \in L : At(a) \subseteq g.map \ Reserved
    /\ \A a, b \in L : a # b => At(a) \cap At(b) = {}

Sound(g, L) == /\ g \in HeapType
               /\ Reserved \ {NULL} \subseteq g.map
               /\ Counted(g)
               /\ TableOf(g, L)
               /\ Apart(g, L)

-----------------------------------------------------------------------------
(* The blocks that can be counted: finitely many.                          *)
LEMMA ClearFinite ==
    ASSUME NEW g
    PROVE  IsFiniteSet(Clear(g)) /\ Cardinality(Clear(g)) \in Nat
BY BlockSetFinite DEF Clear

(* The counter covers the clear blocks after every change of the map.      *)
LEMMA CountedTaken ==
    ASSUME NEW g \in HeapType, NEW k \in HeapType, NEW a \in Nat \ {NULL}, NEW n \in Nat,
           Counted(g), a + n <= SYSTEM_BLOCKS, Area(a, n) \cap g.map = {},
           k.map = g.map \cup Area(a, n), k.free = g.free - n
    PROVE  Counted(k)
<1>1. IsFiniteSet(Area(a, n)) /\ Cardinality(Area(a, n)) = n
  BY AreaSize
<1>2. IsFiniteSet(k.map)
  <2>1. IsFiniteSet(g.map)
    BY DEF Counted
  <2>2. IsFiniteSet(g.map \cup Area(a, n))
    BY ONLY <1>1, <2>1, FS_Union
  <2> QED  BY <2>2
<1>3. Area(a, n) \subseteq Clear(g)
  <2>1. Area(a, n) \subseteq 1 .. (SYSTEM_BLOCKS - 1)
    BY PmmAssumption DEF Area, NULL
  <2> QED  BY <2>1 DEF Clear
<1>4. Clear(k) = Clear(g) \ Area(a, n)
  BY DEF Clear
<1>5. Cardinality(Clear(k)) = Cardinality(Clear(g)) - n
  BY <1>1, <1>3, <1>4, ClearFinite, ClearCount
<1>6. Cardinality(Clear(k)) \in Nat /\ Cardinality(Clear(g)) \in Nat
  BY ClearFinite
<1> QED  BY <1>2, <1>5, <1>6 DEF Counted, HeapType

LEMMA CountedMarked ==
    ASSUME NEW g \in HeapType, NEW k \in HeapType, NEW a \in Nat, NEW n \in Nat,
           Counted(g), k.map = g.map \cup Area(a, n), k.free = g.free
    PROVE  Counted(k)
<1>1. IsFiniteSet(k.map)
  <2>1. IsFiniteSet(g.map) /\ IsFiniteSet(Area(a, n))
    BY AreaSize DEF Counted
  <2>2. IsFiniteSet(g.map \cup Area(a, n))
    BY ONLY <2>1, FS_Union
  <2> QED  BY <2>2
<1>2. Clear(k) \subseteq Clear(g)
  BY DEF Clear
<1>3. Cardinality(Clear(k)) <= Cardinality(Clear(g))
  BY <1>2, ClearFinite, FS_Subset
<1>4. Cardinality(Clear(k)) \in Nat /\ Cardinality(Clear(g)) \in Nat
  BY ClearFinite
<1> QED  BY <1>1, <1>3, <1>4 DEF Counted

LEMMA CountedReturned ==
    ASSUME NEW g \in HeapType, NEW k, NEW a \in Nat, NEW n \in Nat,
           Counted(g), Returned(g, k, a, n)
    PROVE  Counted(k)
<1>1. IsFiniteSet(k.map)
  BY FS_Subset DEF Counted, Returned
<1> DEFINE more == Clear(g) \cup Area(a, n)
<1>2. IsFiniteSet(Area(a, n)) /\ Cardinality(Area(a, n)) = n
  BY AreaSize
<1>3. IsFiniteSet(more) /\ Cardinality(more) <= Cardinality(Clear(g)) + n
  <2>1. /\ IsFiniteSet(more)
        /\ Cardinality(more)
             = Cardinality(Clear(g)) + n - Cardinality(Clear(g) \cap Area(a, n))
    BY <1>2, ClearFinite, FS_Union
  <2>2. Cardinality(Clear(g) \cap Area(a, n)) \in Nat
    BY <1>2, FS_Subset, FS_CardinalityType
  <2> QED  BY <2>1, <2>2, ClearFinite
<1>4. Clear(k) \subseteq more
  BY DEF Clear, Returned
<1>5. Cardinality(Clear(k)) <= Cardinality(more)
  <2> HIDE DEF more
  <2> QED  BY <1>3, <1>4, FS_Subset
<1>6. Cardinality(Clear(k)) \in Nat /\ Cardinality(Clear(g)) \in Nat /\ Cardinality(more) \in Nat
  BY <1>3, ClearFinite, FS_CardinalityType
<1> HIDE DEF more
<1> QED  BY <1>1, <1>3, <1>5, <1>6 DEF Counted, Returned

(* Two areas with one address are one. *)
LEMMA SameAddress ==
    ASSUME NEW g, NEW L, Apart(g, L), NEW a \in L, NEW b \in L, a.addr = b.addr
    PROVE  a = b
<1>1. a.addr \in At(a) /\ b.addr \in At(b)
  BY DEF Apart, Live, At, Area
<1> QED  BY <1>1 DEF Apart

(* A granted request: one live area more, in the table if it is large and  *)
(* the table has room.                                                     *)
LEMMA Grant ==
    ASSUME NEW g, NEW L, Sound(g, L), NEW k, NEW addr \in Nat \ {NULL}, NEW n \in Nat \ {0},
           addr + n <= SYSTEM_BLOCKS, \A i \in Area(addr, n) : i \notin g.map,
           Granted(g, k, addr, n)
    PROVE  LET a == [addr |-> addr, blocks |-> n]
           IN  a \notin L /\ Sound(k, L \cup {a})
<1> DEFINE a == [addr |-> addr, blocks |-> n]
           M == L \cup {a}
<1>1. a \in Live /\ At(a) = Area(addr, n) /\ addr \in Area(addr, n)
  BY DEF Live, At, Area
<1>2. /\ k \in HeapType /\ g \in HeapType
      /\ k.map = g.map \cup Area(addr, n)
      /\ Reserved \ {NULL} \subseteq k.map
  BY DEF Granted, Sound
<1>3. At(a) \cap g.map = {}
  BY <1>1
<1>4. a \notin L
  BY <1>1, <1>3 DEF Sound, Apart
<1>5. Apart(k, M)
  <2>1. NULL \notin Area(addr, n)
    BY DEF Area, NULL
  <2>2. At(a) \cap Reserved = {}
    BY <1>1, <1>3, <2>1 DEF Sound
  <2>3. \A b \in M : At(b) \subseteq k.map \ Reserved
    BY <1>1, <1>2, <2>2 DEF Sound, Apart
  <2>4. \A b \in L : At(a) \cap At(b) = {}
    BY <1>3 DEF Sound, Apart
  <2>5. \A b, c \in M : b # c => At(b) \cap At(c) = {}
    BY <2>4 DEF Sound, Apart
  <2> HIDE DEF a
  <2> QED  BY <1>1, <2>3, <2>5 DEF Sound, Apart
<1>6. TableOf(k, M)
  <2> DEFINE slot == search_address(g, NULL)
  <2>1. CASE n = 1 \/ slot = 0
    BY <2>1 DEF Granted, Sound, TableOf
  <2>2. CASE ~ (n = 1 \/ slot = 0)
    <3>1. slot \in Slots
      BY <2>2, SearchAddress DEF Sound, NULL
    <3>2. k.big = [g.big EXCEPT ![slot] = a]
      BY <2>2 DEF Granted
    <3>3. DOMAIN g.big = Slots
      BY <1>2 DEF HeapType
    <3> HIDE DEF slot
    <3>4. k.big[slot] = a /\ \A i \in Slots : i # slot => k.big[i] = g.big[i]
      BY <3>1, <3>2, <3>3
    <3>5. \A i \in Slots : g.big[i].addr # a.addr \/ g.big[i].addr = NULL
      <4>1. \A b \in L : b.addr \in g.map
        BY DEF Sound, Apart, Live, At, Area
      <4>2. a.addr \notin g.map
        BY <1>1, <1>3
      <4> HIDE DEF a
      <4> QED  BY <4>1, <4>2 DEF Sound, TableOf
    <3> HIDE DEF a
    <3>6. a.addr # NULL /\ a.blocks > 1
      BY <2>2 DEF a
    <3>7. \A i \in Slots : IF k.big[i].addr = NULL THEN k.big[i] = EmptyEntry
                           ELSE k.big[i] \in M /\ k.big[i].blocks > 1
      BY <3>4, <3>6 DEF Sound, TableOf
    <3>8. ASSUME NEW i \in Slots, NEW j \in Slots, k.big[i].addr = k.big[j].addr
          PROVE  i = j \/ k.big[i].addr = NULL
      BY <3>4, <3>5, <3>6, <3>8 DEF Sound, TableOf
    <3> QED  BY <3>7, <3>8 DEF TableOf
  <2> QED  BY <2>1, <2>2
<1>7. Counted(k)
  BY <1>2, CountedTaken DEF Sound, Granted
<1> QED  BY <1>2, <1>4, <1>5, <1>6, <1>7 DEF Sound

(* A request is granted a live area more, or refused; a refused request of *)
(* one block has changed nothing (kmallac).                                *)
LEMMA Request ==
    ASSUME NEW g, NEW L, Sound(g, L), NEW size \in Nat
    PROVE  LET r == kmallac(g, size)
               a == [addr |-> r.addr, blocks |-> BlocksFor(size)]
           IN  \/ r.addr = NULL /\ Sound(r.h, L)
               \/ r.addr \in Nat \ {NULL} /\ a \notin L /\ Sound(r.h, L \cup {a})
<1> DEFINE r == kmallac(g, size)
           n == BlocksFor(size)
<1>1. n \in Nat \ {0} /\ g \in HeapType
  BY BlocksForType DEF Sound
<1>2. \/ /\ r.addr = NULL
         /\ r.h = g \/ Marked(g, r.h, 0, n)
      \/ /\ r.addr \in 1 .. (SYSTEM_BLOCKS - n)
         /\ \A i \in Area(r.addr, n) : i \notin g.map
         /\ Granted(g, r.h, r.addr, n)
  BY <1>1, KmallacEffect
<1> HIDE DEF r, n
<1>3. CASE r.addr = NULL /\ Marked(g, r.h, 0, n)
  <2>1. Counted(r.h)
    BY <1>1, <1>3, CountedMarked DEF Marked, Sound
  <2>2. Apart(r.h, L)
    BY <1>3 DEF Marked, Sound, Apart
  <2>3. TableOf(r.h, L)
    BY <1>3 DEF Marked, Sound, TableOf
  <2> QED  BY <1>3, <2>1, <2>2, <2>3 DEF Marked, Sound, r
<1>4. CASE /\ r.addr \in 1 .. (SYSTEM_BLOCKS - n)
           /\ \A i \in Area(r.addr, n) : i \notin g.map
           /\ Granted(g, r.h, r.addr, n)
  <2>1. r.addr \in Nat \ {NULL} /\ r.addr + n <= SYSTEM_BLOCKS
    BY <1>1, <1>4, PmmAssumption DEF NULL
  <2>2. LET a == [addr |-> r.addr, blocks |-> n] IN a \notin L /\ Sound(r.h, L \cup {a})
    BY <1>1, <1>4, <2>1, Grant
  <2> QED  BY <2>1, <2>2 DEF r, n
<1> QED  BY <1>2, <1>3, <1>4 DEF r, n

(* A release of a live area: there is one less.  Of a large one that the   *)
(* table has no entry for, all blocks but the first stay marked (kfree).   *)
LEMMA ReleaseLive ==
    ASSUME NEW g, NEW L, Sound(g, L), NEW a \in L
    PROVE  Sound(kfree(g, a.addr), L \ {a})
<1> DEFINE k == kfree(g, a.addr)
           s == search_address(g, a.addr)
           M == L \ {a}
<1>1. /\ g \in HeapType
      /\ a.addr \in Nat \ {NULL} /\ a.blocks \in Nat \ {0}
      /\ a.addr \in At(a)
      /\ Area(a.addr, 1) = {a.addr}
  BY DEF Sound, Apart, Live, At, Area
<1>2. \/ /\ s \in Slots
         /\ g.big[s].addr = a.addr
         /\ Returned(g, k, a.addr, g.big[s].blocks)
         /\ k.big = [g.big EXCEPT ![s] = EmptyEntry]
      \/ /\ \A i \in Slots : g.big[i].addr # a.addr
         /\ Returned(g, k, a.addr, 1)
         /\ k.big = g.big
  BY <1>1, KfreeEffect
<1> HIDE DEF k, s
<1>3. ASSUME NEW n \in Nat, Returned(g, k, a.addr, n), Area(a.addr, n) \subseteq At(a), TableOf(k, M)
      PROVE  Sound(k, M)
  <2>1. k \in HeapType /\ k.map = g.map \ Area(a.addr, n)
    BY <1>3 DEF Returned
  <2>2. Counted(k)
    BY <1>1, <1>3, CountedReturned DEF Sound
  <2>3. At(a) \cap Reserved = {}
    BY DEF Sound, Apart
  <2>4. Reserved \ {NULL} \subseteq k.map
    BY <1>3, <2>1, <2>3 DEF Sound
  <2>5. \A b \in M : At(b) \cap Area(a.addr, n) = {}
    BY <1>3 DEF Sound, Apart
  <2>6. Apart(k, M)
    BY <2>1, <2>5 DEF Sound, Apart
  <2> QED  BY <1>3, <2>1, <2>2, <2>4, <2>6 DEF Sound
<1>4. CASE /\ s \in Slots
           /\ g.big[s].addr = a.addr
           /\ Returned(g, k, a.addr, g.big[s].blocks)
           /\ k.big = [g.big EXCEPT ![s] = EmptyEntry]
  <2>1. g.big[s] \in L
    BY <1>1, <1>4 DEF Sound, TableOf
  <2>2. g.big[s] = a
    BY <1>4, <2>1, SameAddress DEF Sound
  <2>3. DOMAIN g.big = Slots
    BY <1>1 DEF HeapType
  <2>4. k.big[s] = EmptyEntry /\ \A i \in Slots : i # s => k.big[i] = g.big[i]
    BY <1>4, <2>3
  <2>5. EmptyEntry.addr = NULL
    BY DEF EmptyEntry
  <2>6. \A i \in Slots : IF k.big[i].addr = NULL THEN k.big[i] = EmptyEntry
                         ELSE k.big[i] \in M /\ k.big[i].blocks > 1
    <3> TAKE i \in Slots
    <3>1. CASE i = s
      BY <2>4, <2>5, <3>1
    <3>2. CASE i # s
      BY <1>1, <1>4, <2>2, <2>4, <3>2 DEF Sound, TableOf
    <3> QED  BY <3>1, <3>2
  <2>7. ASSUME NEW i \in Slots, NEW j \in Slots, k.big[i].addr = k.big[j].addr
        PROVE  i = j \/ k.big[i].addr = NULL
    BY <2>4, <2>5, <2>7 DEF Sound, TableOf
  <2>8. TableOf(k, M)
    BY <2>6, <2>7 DEF TableOf
  <2> QED  BY <1>1, <1>3, <1>4, <2>2, <2>8 DEF At, k
<1>5. CASE /\ \A i \in Slots : g.big[i].addr # a.addr
           /\ Returned(g, k, a.addr, 1)
           /\ k.big = g.big
  <2>1. TableOf(k, M)
    BY <1>5 DEF Sound, TableOf
  <2> QED  BY <1>1, <1>3, <1>5, <2>1 DEF k
<1> QED  BY <1>2, <1>4, <1>5 DEF k

(* A release of the null pointer finds an empty entry of the table, or     *)
(* clears the null block (kfree).                                          *)
LEMMA ReleaseNull ==
    ASSUME NEW g, NEW L, Sound(g, L)
    PROVE  Sound(kfree(g, NULL), L)
<1> DEFINE k == kfree(g, NULL)
           s == search_address(g, NULL)
<1>1. g \in HeapType /\ NULL \in Nat
  BY DEF Sound, NULL
<1>2. \/ /\ s \in Slots
         /\ g.big[s].addr = NULL
         /\ Returned(g, k, NULL, g.big[s].blocks)
         /\ k.big = [g.big EXCEPT ![s] = EmptyEntry]
      \/ /\ Returned(g, k, NULL, 1)
         /\ k.big = g.big
  BY <1>1, KfreeEffect
<1> HIDE DEF k, s
<1>3. ASSUME NEW n \in {0, 1}, Returned(g, k, NULL, n), k.big = g.big
      PROVE  Sound(k, L)
  <2>1. Area(NULL, n) \subseteq {NULL}
    BY DEF Area, NULL
  <2>2. NULL \in Reserved
    BY PmmAssumption DEF NULL, Reserved
  <2>3. k \in HeapType /\ k.map = g.map \ Area(NULL, n)
    BY <1>3 DEF Returned
  <2>4. Counted(k)
    BY <1>1, <1>3, CountedReturned DEF Sound
  <2>5. TableOf(k, L)
    BY <1>3 DEF Sound, TableOf
  <2>6. Apart(k, L)
    BY <2>1, <2>2, <2>3 DEF Sound, Apart
  <2> QED  BY <2>1, <2>3, <2>4, <2>5, <2>6 DEF Sound
<1>4. CASE /\ s \in Slots
           /\ g.big[s].addr = NULL
           /\ Returned(g, k, NULL, g.big[s].blocks)
           /\ k.big = [g.big EXCEPT ![s] = EmptyEntry]
  <2>1. g.big[s] = EmptyEntry
    BY <1>4 DEF Sound, TableOf
  <2>2. k.big = g.big
    BY <1>1, <1>4, <2>1 DEF HeapType
  <2>3. Returned(g, k, NULL, 0)
    BY <1>4, <2>1 DEF EmptyEntry
  <2> QED  BY <1>3, <2>2, <2>3 DEF k
<1> QED  BY <1>2, <1>3, <1>4 DEF k

-----------------------------------------------------------------------------
(***************************************************************************)
(* A call in progress, and what the operators of file.c, path_parser.c and *)
(* fat16.c leave of it.                                                    *)
(***************************************************************************)
Call == [h : HeapType, starved : BOOLEAN]

Holds(w, L) == w \in Call /\ Sound(w.h, L)

(* The area at an address, which may be null.                              *)
Piece(addr, n) == IF addr = NULL THEN {} ELSE {[addr |-> addr, blocks |-> n]}

(* The request of a call in progress (kzalloc).                            *)
LEMMA Kzalloc ==
    ASSUME NEW w, NEW L, Holds(w, L), NEW size \in Nat
    PROVE  LET r == kzalloc(w, size)
               p == Piece(r.addr, BlocksFor(size))
           IN  /\ r.addr \in Nat
               /\ r.w.starved = (w.starved \/ r.addr = NULL)
               /\ p \cap L = {}
               /\ Holds(r.w, L \cup p)
<1> DEFINE k == kmallac(w.h, size)
           n == BlocksFor(size)
<1>1. \/ k.addr = NULL /\ Sound(k.h, L)
      \/ /\ k.addr \in Nat \ {NULL}
         /\ [addr |-> k.addr, blocks |-> n] \notin L
         /\ Sound(k.h, L \cup {[addr |-> k.addr, blocks |-> n]})
  BY Request DEF Holds
<1>2. kzalloc(w, size) = [w |-> [h |-> k.h, starved |-> w.starved \/ k.addr = NULL], addr |-> k.addr]
  BY DEF kzalloc, Answered
<1> HIDE DEF k, n
<1>3. k.h \in HeapType /\ w.starved \in BOOLEAN /\ k.addr \in Nat
  BY <1>1 DEF Sound, Holds, Call, NULL
<1>4. [h |-> k.h, starved |-> w.starved \/ k.addr = NULL] \in Call
  BY <1>3 DEF Call
<1>5. Piece(k.addr, n) \cap L = {} /\ Sound(k.h, L \cup Piece(k.addr, n))
  <2>1. L \cup {} = L
    OBVIOUS
  <2> QED  BY <1>1, <2>1 DEF Piece
<1> QED  BY <1>2, <1>3, <1>4, <1>5 DEF Holds, n

(* A request of one block: refused, it has changed nothing.                *)
LEMMA KzallocOne ==
    ASSUME NEW w, NEW L, Holds(w, L)
    PROVE  LET r == kzalloc(w, 1)
           IN  /\ r.addr \in Nat
               /\ r.w.starved = (w.starved \/ r.addr = NULL)
               /\ Piece(r.addr, 1) \cap L = {}
               /\ Holds(r.w, L \cup Piece(r.addr, 1))
               /\ r.addr = NULL => r.w.h = w.h
<1>1. BlocksFor(1) = 1
  BY KheapAssumption DEF BlocksFor
<1>2. kmallac(w.h, 1).addr = NULL => kmallac(w.h, 1).h = w.h
  BY <1>1, KmallacRefusal DEF Holds, Call
<1>3. /\ kzalloc(w, 1).addr = kmallac(w.h, 1).addr
      /\ kzalloc(w, 1).w.h = kmallac(w.h, 1).h
  BY DEF kzalloc, Answered
<1> QED  BY <1>1, <1>2, <1>3, Kzalloc

(* The release of a live area, or of the null pointer.                     *)
LEMMA Released ==
    ASSUME NEW w, NEW L, Holds(w, L), NEW addr \in Nat, NEW n, Piece(addr, n) \subseteq L
    PROVE  LET r == Release(w, addr)
           IN  r.starved = w.starved /\ Holds(r, L \ Piece(addr, n))
<1>1. Release(w, addr) = [w EXCEPT !.h = kfree(w.h, addr)]
  BY DEF Release
<1>2. Sound(kfree(w.h, addr), L \ Piece(addr, n))
  <2>1. CASE addr = NULL
    <3>1. L \ {} = L
      OBVIOUS
    <3> QED  BY <2>1, <3>1, ReleaseNull DEF Holds, Piece
  <2>2. CASE addr # NULL
    <3> DEFINE a == [addr |-> addr, blocks |-> n]
    <3>1. a \in L /\ a.addr = addr /\ Piece(addr, n) = {a}
      BY <2>2 DEF Piece
    <3> HIDE DEF a
    <3>2. Sound(kfree(w.h, a.addr), L \ {a})
      BY <3>1, ReleaseLive DEF Holds
    <3> QED  BY <3>1, <3>2
  <2> QED  BY <2>1, <2>2
<1>3. kfree(w.h, addr) \in HeapType
  BY <1>2 DEF Sound
<1> QED  BY <1>1, <1>2, <1>3 DEF Holds, Call

(* The entries of a directory can be counted.                              *)
LEMMA ItemsCounted ==
    ASSUME NEW dir \in Seq(Entries)
    PROVE  /\ TotalItems(dir) \in Nat
           /\ TotalItems(dir) <= Len(dir)
           /\ Len(dir) \in Nat
           /\ DOMAIN dir = 1 .. Len(dir)
<1> DEFINE kept == {i \in DOMAIN dir : dir[i] # Deleted}
           all == 1 .. Len(dir)
<1>1. Len(dir) \in Nat /\ DOMAIN dir = 1 .. Len(dir)
  BY LenProperties
<1>2. kept \in SUBSET all
  BY <1>1
<1>3. IsFiniteSet(all) /\ Cardinality(all) = Len(dir)
  BY <1>1, FS_Interval
<1> HIDE DEF kept, all
<1>4. IsFiniteSet(kept) /\ Cardinality(kept) <= Cardinality(all)
  BY <1>2, <1>3, FS_Subset
<1>5. Cardinality(kept) \in Nat
  BY <1>4, FS_CardinalityType
<1> QED  BY <1>1, <1>3, <1>4, <1>5 DEF TotalItems, kept

(* Where an entry that is a directory leads.                               *)
LEMMA LeadsToDirectory ==
    ASSUME img \in Images, NEW of \in ItemsOn(img), of.kind = "directory"
    PROVE  img.dirs[of.first] \in Directories(img) /\ img.dirs[of.first] \in Seq(Entries)
<1>1. of.first \in DOMAIN img.dirs /\ Directories(img) \subseteq Seq(Entries)
  BY FileMemoryAssumption
<1> QED  BY <1>1 DEF Directories

-----------------------------------------------------------------------------
(* What an item holds, its directory's entries among it.                   *)
EntryBytes(of) == TotalItems(img.dirs[of.first]) * ENTRY

ItemAreas(item) == Piece(item.addr, 1) \cup Piece(item.entry, 1) \cup Piece(item.directory, 1)
                     \cup Piece(item.items, BlocksFor(EntryBytes(item.of)))

(* An item is an entry's, or a directory's with that directory; its        *)
(* structures lie in different places.                                     *)
ItemShape(item) ==
    /\ item \in FatItem
    /\ item.directory = NULL => item.items = NULL
    /\ item.directory # NULL =>
          item.of.kind = "directory" /\ item.entry = NULL /\ item.items # item.directory
    /\ item.addr = NULL \/ item.addr \notin {item.entry, item.directory, item.items}

(* The null item is one.                                                   *)
LEMMA NullShape == ItemShape(NullItem) /\ ItemAreas(NullItem) = {}
BY DEF ItemShape, ItemAreas, NullItem, FatItem, Piece, NULL, NoItem

(* Its release takes no area but its own out of L; those of an entry that  *)
(* is neither file nor directory stay (fat16_fat_item_free).               *)
LEMMA ItemFreed ==
    ASSUME NEW w, NEW L, Holds(w, L), NEW item, ItemShape(item), ItemAreas(item) \subseteq L
    PROVE  LET r == fat16_fat_item_free(w, item)
           IN  /\ r.starved = w.starved
               /\ \E M \in SUBSET L : L \ ItemAreas(item) \subseteq M /\ Holds(r, M)
<1> DEFINE n == BlocksFor(EntryBytes(item.of))
           pa == Piece(item.addr, 1)
           pe == Piece(item.entry, 1)
           pd == Piece(item.directory, 1)
           pi == Piece(item.items, n)
<1>1. item.addr \in Nat /\ item.entry \in Nat /\ item.directory \in Nat /\ item.items \in Nat
  BY DEF ItemShape, FatItem
<1>2. pa \cup pe \cup pd \cup pi = ItemAreas(item)
  BY DEF ItemAreas
<1>3. pa \cap pe = {} /\ pa \cap pd = {} /\ pa \cap pi = {}
  BY DEF ItemShape, Piece
<1>4. item.directory # NULL => pd \cap pi = {}
  BY DEF ItemShape, Piece
<1> HIDE DEF n, pa, pe, pd, pi
<1>5. ASSUME NEW u, u.starved = w.starved, NEW K \in SUBSET L,
             L \ (pe \cup pd \cup pi) \subseteq K, pa \subseteq K, Holds(u, K),
             fat16_fat_item_free(w, item) = Release(u, item.addr)
      PROVE  LET r == fat16_fat_item_free(w, item)
             IN  /\ r.starved = w.starved
                 /\ \E M \in SUBSET L : L \ ItemAreas(item) \subseteq M /\ Holds(r, M)
  <2>1. Release(u, item.addr).starved = u.starved /\ Holds(Release(u, item.addr), K \ pa)
    BY <1>1, <1>5, Released DEF pa
  <2>2. L \ ItemAreas(item) \subseteq K \ pa /\ K \ pa \in SUBSET L
    BY <1>2, <1>5
  <2> QED  BY <1>5, <2>1, <2>2
<1>6. CASE item.of.kind = "file"
  <2>1. fat16_fat_item_free(w, item) = Release(Release(w, item.entry), item.addr)
    BY <1>6 DEF fat16_fat_item_free
  <2>2. Release(w, item.entry).starved = w.starved /\ Holds(Release(w, item.entry), L \ pe)
    BY <1>1, <1>2, Released DEF pe
  <2> QED  BY <1>2, <1>3, <1>5, <2>1, <2>2
<1>7. CASE item.of.kind # "file" /\ item.directory = NULL
  <2>1. fat16_fat_item_free(w, item) = Release(w, item.addr)
    BY <1>7 DEF fat16_fat_item_free, fat16_free_directory
  <2> QED  BY <1>2, <1>5, <2>1
<1>8. CASE item.of.kind # "file" /\ item.directory # NULL
  <2> DEFINE v == Release(w, item.items)
             u == Release(v, item.directory)
  <2>1. fat16_fat_item_free(w, item) = Release(u, item.addr)
    BY <1>8 DEF fat16_fat_item_free, fat16_free_directory
  <2>2. v.starved = w.starved /\ Holds(v, L \ pi)
    BY <1>1, <1>2, Released DEF pi
  <2> HIDE DEF v
  <2>3. pd \subseteq L \ pi
    BY <1>2, <1>4, <1>8
  <2>4. u.starved = v.starved /\ Holds(u, (L \ pi) \ pd)
    BY <1>1, <2>2, <2>3, Released DEF pd
  <2> HIDE DEF u
  <2>5. pa \subseteq (L \ pi) \ pd /\ L \ (pe \cup pd \cup pi) \subseteq (L \ pi) \ pd
    BY <1>2, <1>3
  <2> QED  BY <1>5, <2>1, <2>2, <2>4, <2>5
<1> QED  BY <1>6, <1>7, <1>8

(* r holds what was live before it, and the areas of A, which are new.     *)
Keeps(r, L, A) == \E M : Holds(r, M) /\ L \subseteq M /\ A \subseteq M \ L

(* A directory is loaded, or nothing of it stays (fat16_load_directory).   *)
LEMMA DirectoryLoaded ==
    ASSUME img \in Images, NEW of \in ItemsOn(img), of.kind = "directory",
           NEW w, NEW L, Holds(w, L)
    PROVE  LET r == fat16_load_directory(w, of)
           IN  /\ r.directory \in Nat /\ r.items \in Nat
               /\ r.directory = NULL => r.items = NULL
               /\ r.directory # NULL => r.items # r.directory
               /\ Keeps(r.w, L, Piece(r.directory, 1) \cup Piece(r.items, BlocksFor(EntryBytes(of))))
<1> DEFINE directory == kzalloc(w, 1)
           items == kzalloc(directory.w, EntryBytes(of))
           n == BlocksFor(EntryBytes(of))
           pd == Piece(directory.addr, 1)
           pi == Piece(items.addr, n)
           r == fat16_load_directory(w, of)
<1>1. /\ directory.addr \in Nat /\ pd \cap L = {}
      /\ Holds(directory.w, L \cup pd)
  BY KzallocOne
<1>2. EntryBytes(of) \in Nat
  BY LeadsToDirectory, ItemsCounted, FileMemoryAssumption DEF EntryBytes
<1> HIDE DEF directory
<1>3. /\ items.addr \in Nat /\ pi \cap (L \cup pd) = {}
      /\ Holds(items.w, (L \cup pd) \cup pi)
  BY <1>1, <1>2, Kzalloc
<1>4. r = IF directory.addr = NULL THEN [w |-> directory.w, directory |-> NULL, items |-> NULL]
          ELSE IF items.addr = NULL THEN [w |-> items.w, directory |-> NULL, items |-> NULL]
          ELSE IF of.first \in img.bad
          THEN [w |-> fat16_free_directory(items.w, directory.addr, items.addr),
                directory |-> NULL, items |-> NULL]
          ELSE [w |-> items.w, directory |-> directory.addr, items |-> items.addr]
  BY DEF fat16_load_directory, EntryBytes, directory
<1> HIDE DEF items, n, r
<1>5. Piece(NULL, 1) \cup Piece(NULL, n) = {}
  BY DEF Piece
<1>6. directory.addr # NULL /\ items.addr # NULL => items.addr # directory.addr
  <2> SUFFICES ASSUME directory.addr # NULL, items.addr # NULL, items.addr = directory.addr
               PROVE  FALSE
    OBVIOUS
  <2> DEFINE a == [addr |-> directory.addr, blocks |-> 1]
             b == [addr |-> items.addr, blocks |-> n]
             M == (L \cup pd) \cup pi
  <2>1. a \in M /\ b \in M /\ a.addr = b.addr /\ a \in pd /\ b \in pi
    BY DEF Piece
  <2> HIDE DEF a, b, M
  <2>2. a = b
    BY <1>3, <2>1, SameAddress DEF Holds, Sound, M
  <2> QED  BY <1>3, <2>1, <2>2
<1>7. CASE directory.addr = NULL
  <2>1. pd = {} /\ r = [w |-> directory.w, directory |-> NULL, items |-> NULL]
    BY <1>4, <1>7 DEF Piece
  <2>2. Keeps(directory.w, L, {})
    BY <1>1, <2>1 DEF Keeps
  <2> QED  BY <1>5, <2>1, <2>2 DEF n, r, NULL
<1>8. CASE directory.addr # NULL /\ items.addr = NULL
  <2>1. r = [w |-> items.w, directory |-> NULL, items |-> NULL]
    BY <1>4, <1>8
  <2>2. Keeps(items.w, L, {})
    BY <1>3 DEF Keeps
  <2> QED  BY <1>5, <2>1, <2>2 DEF n, r, NULL
<1>9. CASE directory.addr # NULL /\ items.addr # NULL /\ of.first \in img.bad
  <2> DEFINE u == Release(items.w, items.addr)
             v == Release(u, directory.addr)
  <2>1. r = [w |-> v, directory |-> NULL, items |-> NULL]
    BY <1>4, <1>9 DEF fat16_free_directory
  <2>2. Holds(u, ((L \cup pd) \cup pi) \ pi)
    BY <1>3, Released
  <2> HIDE DEF u
  <2>3. pd \subseteq ((L \cup pd) \cup pi) \ pi
    BY <1>3
  <2>4. Holds(v, (((L \cup pd) \cup pi) \ pi) \ pd)
    BY <1>1, <2>2, <2>3, Released
  <2>5. L \subseteq (((L \cup pd) \cup pi) \ pi) \ pd
    BY <1>1, <1>3
  <2> HIDE DEF v
  <2>6. Keeps(v, L, {})
    BY <2>4, <2>5 DEF Keeps
  <2> QED  BY <1>5, <2>1, <2>6 DEF n, r, NULL
<1>10. CASE directory.addr # NULL /\ items.addr # NULL /\ of.first \notin img.bad
  <2>1. r = [w |-> items.w, directory |-> directory.addr, items |-> items.addr]
    BY <1>4, <1>10
  <2>2. pd \cup pi \subseteq ((L \cup pd) \cup pi) \ L
    BY <1>1, <1>3
  <2>3. Keeps(items.w, L, pd \cup pi)
    BY <1>3, <2>2 DEF Keeps
  <2> QED  BY <1>1, <1>3, <1>6, <1>10, <2>1, <2>3 DEF n, r
<1> QED  BY <1>7, <1>8, <1>9, <1>10

(* An item is made (fat16_new_fat_item_directory_item).                    *)
LEMMA ItemMade ==
    ASSUME img \in Images, NEW of \in ItemsOn(img), NEW from, NEW w, NEW L, Holds(w, L)
    PROVE  LET r == fat16_new_fat_item(w, of, from)
           IN  ItemShape(r.item) /\ Keeps(r.w, L, ItemAreas(r.item))
<1> DEFINE item == kzalloc(w, 1)
           pa == Piece(item.addr, 1)
           r == fat16_new_fat_item(w, of, from)
           loaded == fat16_load_directory(item.w, of)
           clone == kzalloc(item.w, 1)
           n == BlocksFor(EntryBytes(of))
<1>1. /\ item.addr \in Nat /\ pa \cap L = {}
      /\ Holds(item.w, L \cup pa)
  BY KzallocOne
<1>2. r = IF item.addr = NULL THEN [w |-> item.w, item |-> NullItem]
          ELSE IF of.kind = "directory"
          THEN [w |-> loaded.w,
                item |-> [NullItem EXCEPT !.addr = item.addr, !.of = of,
                                          !.directory = loaded.directory, !.items = loaded.items]]
          ELSE [w |-> clone.w,
                item |-> [NullItem EXCEPT !.addr = item.addr, !.of = of, !.entry = clone.addr]]
  BY DEF fat16_new_fat_item, fat16_clone_directory_item
<1> HIDE DEF r
<1>3. CASE item.addr = NULL
  <2>1. r = [w |-> item.w, item |-> NullItem] /\ pa = {}
    BY <1>2, <1>3 DEF Piece
  <2> HIDE DEF item
  <2>2. Keeps(item.w, L, {})
    BY <1>1, <2>1 DEF Keeps
  <2> QED  BY <2>1, <2>2, NullShape DEF r
<1>4. CASE item.addr # NULL /\ of.kind = "directory"
  <2> HIDE DEF item
  <2> DEFINE A == Piece(loaded.directory, 1) \cup Piece(loaded.items, n)
  <2>1. /\ loaded.directory \in Nat /\ loaded.items \in Nat
        /\ loaded.directory = NULL => loaded.items = NULL
        /\ loaded.directory # NULL => loaded.items # loaded.directory
        /\ Keeps(loaded.w, L \cup pa, A)
    BY <1>1, <1>4, DirectoryLoaded
  <2> DEFINE it == [addr |-> item.addr, entry |-> NULL, directory |-> loaded.directory,
                    items |-> loaded.items, of |-> of]
  <2>2. r = [w |-> loaded.w, item |-> it]
    BY <1>2, <1>4 DEF NullItem
  <2> HIDE DEF loaded, n
  <2>3. PICK M : Holds(loaded.w, M) /\ L \cup pa \subseteq M /\ A \subseteq M \ (L \cup pa)
    BY <2>1 DEF Keeps
  <2>4. item.addr \notin {loaded.directory, loaded.items}
    <3>1. ASSUME NEW x, NEW m, x # NULL, x = item.addr, Piece(x, m) \subseteq A
          PROVE  FALSE
      <4> DEFINE a == [addr |-> item.addr, blocks |-> 1]
                 b == [addr |-> x, blocks |-> m]
      <4>1. a \in pa /\ b \in A /\ a.addr = b.addr
        BY <1>4, <3>1 DEF Piece
      <4> HIDE DEF a, b, A, pa
      <4>2. a \in M /\ b \in M
        BY <2>3, <4>1
      <4>3. a = b
        BY <2>3, <4>1, <4>2, SameAddress DEF Holds, Sound
      <4> QED  BY <2>3, <4>1, <4>3
    <3>2. Piece(loaded.directory, 1) \subseteq A /\ Piece(loaded.items, n) \subseteq A
      OBVIOUS
    <3> HIDE DEF A
    <3> QED  BY <1>4, <3>1, <3>2
  <2>5. ItemShape(it)
    BY <1>1, <1>4, <2>1, <2>4 DEF ItemShape, FatItem, NULL
  <2>6. ItemAreas(it) = pa \cup A
    BY DEF ItemAreas, Piece, n
  <2> HIDE DEF it, A
  <2>7. Keeps(loaded.w, L, pa \cup A)
    BY <1>1, <2>3 DEF Keeps
  <2> QED  BY <2>2, <2>5, <2>6, <2>7 DEF r
<1>5. CASE item.addr # NULL /\ of.kind # "directory"
  <2> HIDE DEF item
  <2> DEFINE pe == Piece(clone.addr, 1)
  <2>1. /\ clone.addr \in Nat
        /\ pe \cap (L \cup pa) = {}
        /\ Holds(clone.w, (L \cup pa) \cup pe)
    BY <1>1, KzallocOne
  <2> DEFINE it == [addr |-> item.addr, entry |-> clone.addr, directory |-> NULL,
                    items |-> NULL, of |-> of]
  <2>2. r = [w |-> clone.w, item |-> it]
    BY <1>2, <1>5 DEF NullItem
  <2> HIDE DEF clone
  <2>3. item.addr # clone.addr
    BY <1>5, <2>1 DEF Piece
  <2>4. ItemShape(it)
    BY <1>1, <1>5, <2>1, <2>3 DEF ItemShape, FatItem, NULL
  <2>5. ItemAreas(it) = pa \cup pe
    BY DEF ItemAreas, Piece, NULL
  <2> HIDE DEF it, pe
  <2>6. Keeps(clone.w, L, pa \cup pe)
    BY <1>1, <2>1 DEF Keeps
  <2>7. r.w = clone.w /\ r.item = it
    BY <2>2
  <2> HIDE DEF pa
  <2> QED  BY <2>4, <2>5, <2>6, <2>7 DEF r
<1> QED  BY <1>3, <1>4, <1>5

(* What is in a directory is on the disk.                                  *)
LEMMA InDirectory ==
    ASSUME img \in Images, NEW dir \in Directories(img) \cup {<<>>}
    PROVE  /\ TotalItems(dir) \in Nat
           /\ \A i \in 1 .. TotalItems(dir) : dir[i] \in ItemsOn(img)
<1>1. dir \in Seq(Entries)
  <2>1. Directories(img) \subseteq Seq(Entries)
    BY FileMemoryAssumption
  <2>2. <<>> \in Seq(Entries)
    OBVIOUS
  <2> QED  BY <2>1, <2>2
<1>2. /\ TotalItems(dir) \in Nat /\ TotalItems(dir) <= Len(dir)
      /\ Len(dir) \in Nat /\ DOMAIN dir = 1 .. Len(dir)
  BY <1>1, ItemsCounted
<1>3. CASE dir = <<>>
  <2>1. Len(dir) = 0
    BY <1>3
  <2> QED  BY <1>2, <2>1
<1>4. CASE dir \in Directories(img)
  <2>1. \A i \in 1 .. TotalItems(dir) : i \in DOMAIN dir
    BY <1>2
  <2> QED  BY <1>2, <1>4, <2>1 DEF ItemsOn
<1> QED  BY <1>3, <1>4

(* The states a search passes through.                                     *)
Found(w, item) == [w |-> w, item |-> item]

FindStep(x, i, dir, from, name) ==
    IF i \in Matching(dir, name) THEN fat16_new_fat_item(x.w, dir[i], from) ELSE x

Finds(f, w, dir, from, name) ==
    /\ f[0] = Found(w, NullItem)
    /\ \A i \in 1 .. TotalItems(dir) : f[i] = FindStep(f[i - 1], i, dir, from, name)

LEMMA FindRuns ==
    ASSUME img \in Images, NEW dir \in Directories(img) \cup {<<>>}, NEW from, NEW name,
           NEW w, NEW L, Holds(w, L)
    PROVE  \E f : /\ Finds(f, w, dir, from, name)
                  /\ FindItem(w, dir, from, name) = f[TotalItems(dir)]
                  /\ \A i \in 0 .. TotalItems(dir) : \E M : Holds(f[i].w, M)
<1> DEFINE n == TotalItems(dir)
           S == {x \in [w : Call, item : FatItem] : \E M : Holds(x.w, M)}
           first == [w |-> w, item |-> NullItem]
           next(i, x) == IF i \in Matching(dir, name) THEN fat16_new_fat_item(x.w, dir[i], from) ELSE x
           Follows(f) == f = [i \in 0 .. n |-> IF i = 0 THEN first ELSE next(i, f[i - 1])]
           chosen == CHOOSE f : Follows(f)
<1>1. FindItem(w, dir, from, name) = chosen[n]
  BY DEF FindItem
<1>2. n \in Nat /\ \A i \in 1 .. n : dir[i] \in ItemsOn(img)
  BY InDirectory
<1>3. first \in S
  BY NullShape DEF Holds, ItemShape
<1>4. ASSUME NEW i \in 1 .. n, NEW x \in S
      PROVE  next(i, x) \in S
  <2> DEFINE r == fat16_new_fat_item(x.w, dir[i], from)
  <2>1. PICK M : Holds(x.w, M)
    OBVIOUS
  <2>2. ItemShape(r.item) /\ Keeps(r.w, M, ItemAreas(r.item))
    BY <1>2, <2>1, ItemMade
  <2>3. r = [w |-> r.w, item |-> r.item]
    BY DEF fat16_new_fat_item
  <2> HIDE DEF r, n
  <2>4. r \in S
    BY <2>2, <2>3 DEF ItemShape, Keeps, Holds
  <2> QED  BY <2>4 DEF r
<1> HIDE DEF S, n, first, next
<1>5. \E f : Follows(f)
  <2> DEFINE step == [i \in 1 .. n |-> [x \in S |-> next(i, x)]]
  <2>1. RoundsOf(step, n, S)
    BY <1>4 DEF RoundsOf
  <2>2. PICK f \in [0 .. n -> S] : Loops(f, first, n, step)
    <3>1. n \in Nat
      BY <1>2
    <3> HIDE DEF step
    <3> QED  BY ONLY <1>3, <2>1, <3>1, LoopExists
  <2>3. \A i \in 1 .. n : f[i] = next(i, f[i - 1])
    <3> TAKE i \in 1 .. n
    <3>1. i - 1 \in 0 .. n
      BY <1>2
    <3>2. f[i - 1] \in S
      BY <3>1
    <3> QED  BY <2>2, <3>2 DEF Loops
  <2>4. f = [i \in 0 .. n |-> IF i = 0 THEN first ELSE next(i, f[i - 1])]
    <3>1. \A i \in 0 .. n : f[i] = IF i = 0 THEN first ELSE next(i, f[i - 1])
      BY <1>2, <2>2, <2>3 DEF Loops
    <3> QED  BY <3>1
  <2> QED  BY <2>4
<1>6. Follows(chosen)
  <2> HIDE DEF Follows
  <2> QED  BY <1>5
<1>7. chosen[0] = first /\ \A i \in 1 .. n : chosen[i] = next(i, chosen[i - 1])
  <2> DEFINE g == [i \in 0 .. n |-> IF i = 0 THEN first ELSE next(i, chosen[i - 1])]
  <2>1. chosen = g
    BY <1>6
  <2>2. g[0] = first /\ \A i \in 1 .. n : g[i] = next(i, chosen[i - 1])
    BY <1>2
  <2> HIDE DEF g, chosen, Follows
  <2> QED  BY <2>1, <2>2
<1> HIDE DEF chosen
<1>8. \A i \in 0 .. n : chosen[i] \in S
  <2> DEFINE P == {i \in 0 .. n : chosen[i] \in S}
  <2>1. 0 \in P /\ \A i \in 1 .. n : i - 1 \in P => i \in P
    BY <1>2, <1>3, <1>4, <1>7
  <2> HIDE DEF P
  <2>2. \A i \in 0 .. n : i \in P
    BY <1>2, <2>1, LoopInduction
  <2> QED  BY <2>2 DEF P
<1>9. Finds(chosen, w, dir, from, name)
  BY <1>7 DEF Finds, Found, FindStep, first, next, n
<1> QED  BY <1>1, <1>8, <1>9 DEF n, S

(* A search leaves one item behind, the last it made: what it made before  *)
(* stays live (fat16_find_item_in_directory).                              *)
LEMMA ItemFound ==
    ASSUME img \in Images, NEW dir \in Directories(img) \cup {<<>>}, NEW from, NEW name,
           NEW w, NEW L, Holds(w, L)
    PROVE  LET r == FindItem(w, dir, from, name)
           IN  ItemShape(r.item) /\ Keeps(r.w, L, ItemAreas(r.item))
<1> DEFINE n == TotalItems(dir)
<1>1. PICK f : Finds(f, w, dir, from, name) /\ FindItem(w, dir, from, name) = f[n]
  BY FindRuns
<1>2. n \in Nat /\ \A i \in 1 .. n : dir[i] \in ItemsOn(img)
  BY InDirectory
<1> DEFINE Good(x) == ItemShape(x.item) /\ Keeps(x.w, L, ItemAreas(x.item))
           P == {i \in 0 .. n : Good(f[i])}
<1>3. 0 \in P
  <2>1. f[0].w = w /\ f[0].item = NullItem
    BY <1>1 DEF Finds, Found
  <2>2. Keeps(w, L, {})
    BY DEF Keeps
  <2>3. Good(f[0])
    BY <2>1, <2>2, NullShape
  <2> HIDE DEF Good, n
  <2> QED  BY <1>2, <2>3
<1>4. ASSUME NEW i \in 1 .. n, i - 1 \in P
      PROVE  i \in P
  <2> DEFINE x == f[i - 1]
             r == fat16_new_fat_item(x.w, dir[i], from)
  <2>1. Good(x)
    BY <1>4
  <2>2. f[i] = IF i \in Matching(dir, name) THEN r ELSE x
    BY <1>1, <1>4 DEF Finds, FindStep
  <2>3. PICK M : Holds(x.w, M) /\ L \subseteq M /\ ItemAreas(x.item) \subseteq M \ L
    BY <2>1 DEF Keeps
  <2>4. ItemShape(r.item) /\ Keeps(r.w, M, ItemAreas(r.item))
    BY <1>2, <2>3, ItemMade
  <2> HIDE DEF x, r, n
  <2>5. Keeps(r.w, L, ItemAreas(r.item))
    <3>1. PICK K : Holds(r.w, K) /\ M \subseteq K /\ ItemAreas(r.item) \subseteq K \ M
      BY <2>4 DEF Keeps
    <3>2. L \subseteq K /\ ItemAreas(r.item) \subseteq K \ L
      BY <2>3, <3>1
    <3> QED  BY <3>1, <3>2 DEF Keeps
  <2>6. Good(f[i])
    BY <2>1, <2>2, <2>4, <2>5
  <2> HIDE DEF Good
  <2> QED  BY <1>2, <2>6
<1>5. n \in P
  <2> HIDE DEF P, n
  <2>1. \A i \in 0 .. n : i \in P
    BY <1>2, <1>3, <1>4, LoopInduction
  <2> QED  BY <1>2, <2>1
<1> QED  BY <1>1, <1>5

-----------------------------------------------------------------------------
(* Two structures are taken for a part of a path, and one is given back if *)
(* the part is empty (get_path_part).                                      *)
LEMMA PartTaken ==
    ASSUME NEW w, NEW L, Holds(w, L), NEW name
    PROVE  LET r == pathparser_get_path_part(w, name)
           IN  /\ r.addr \in Nat
               /\ name = Empty => r.addr = NULL
               /\ Keeps(r.w, L, {})
<1> DEFINE part == kzalloc(w, 1)
           text == kzalloc(part.w, 1)
           pp == Piece(part.addr, 1)
           pt == Piece(text.addr, 1)
           r == pathparser_get_path_part(w, name)
<1>1. /\ part.addr \in Nat /\ pp \cap L = {}
      /\ Holds(part.w, L \cup pp)
  BY KzallocOne
<1> HIDE DEF part
<1>2. /\ text.addr \in Nat /\ pt \cap (L \cup pp) = {}
      /\ Holds(text.w, (L \cup pp) \cup pt)
  BY <1>1, KzallocOne
<1>3. r = IF name = Empty THEN [w |-> Release(text.w, part.addr), addr |-> NULL]
          ELSE [w |-> text.w, addr |-> part.addr]
  BY DEF pathparser_get_path_part, part
<1> HIDE DEF text, r
<1>4. Keeps(text.w, L, {})
  BY <1>2 DEF Keeps
<1>5. Keeps(Release(text.w, part.addr), L, {})
  <2>1. Holds(Release(text.w, part.addr), ((L \cup pp) \cup pt) \ pp)
    BY <1>1, <1>2, Released
  <2>2. L \subseteq ((L \cup pp) \cup pt) \ pp
    BY <1>1
  <2> QED  BY <2>1, <2>2 DEF Keeps
<1>6. NULL \in Nat
  BY DEF NULL
<1> QED  BY <1>1, <1>3, <1>4, <1>5, <1>6 DEF r

(* The states the parser passes through.                                   *)
Parsed(w, parts, ended) == [w |-> w, parts |-> parts, ended |-> ended]

ParseStep(p, name) ==
    LET part == pathparser_get_path_part(p.w, name)
    IN  IF p.ended THEN p
        ELSE IF part.addr = NULL THEN [p EXCEPT !.w = part.w, !.ended = TRUE]
        ELSE [p EXCEPT !.w = part.w, !.parts = Append(@, name)]

Parses(f, w, names) ==
    /\ f[0] = Parsed(w, <<>>, FALSE)
    /\ \A i \in 1 .. (Len(names) + 1) :
          f[i] = ParseStep(f[i - 1], IF i <= Len(names) THEN names[i] ELSE Empty)

(* What a path can be: names one behind the other.                         *)
NameLists == Seq(Seq(STRING))

LEMMA ParseRuns ==
    ASSUME NEW names \in NameLists, NEW w, NEW L, Holds(w, L)
    PROVE  \E f : /\ Parses(f, w, names)
                  /\ Pathparser_parse(w, names) = f[Len(names) + 1]
                  /\ \A i \in 0 .. (Len(names) + 1) :
                        /\ f[i] \in [w : Call, parts : NameLists, ended : BOOLEAN]
                        /\ \E M : Holds(f[i].w, M)
<1> DEFINE all == Append(names, Empty)
           n == Len(all)
           S == {p \in [w : Call, parts : NameLists, ended : BOOLEAN] : \E M : Holds(p.w, M)}
           first == [w |-> w, parts |-> <<>>, ended |-> FALSE]
           Follows(f) == f = [i \in 0 .. n |-> IF i = 0 THEN first ELSE ParseStep(f[i - 1], all[i])]
           chosen == CHOOSE f : Follows(f)
<1>1. Pathparser_parse(w, names) = chosen[n]
  BY DEF Pathparser_parse, ParseStep
<1>2. /\ Len(names) \in Nat /\ n = Len(names) + 1
      /\ Empty \in Seq(STRING)
      /\ \A i \in 1 .. n : /\ all[i] \in Seq(STRING)
                           /\ all[i] = IF i <= Len(names) THEN names[i] ELSE Empty
  <2>1. Empty \in Seq(STRING)
    BY FileMemoryAssumption
  <2>2. Len(names) \in Nat /\ \A i \in 1 .. Len(names) : names[i] \in Seq(STRING)
    BY ElementOfSeq, LenProperties DEF NameLists
  <2>3. n = Len(names) + 1 /\ \A i \in 1 .. Len(names) : all[i] = names[i]
    BY <2>1, AppendProperties DEF NameLists
  <2>4. all[Len(names) + 1] = Empty
    BY <2>1, AppendProperties DEF NameLists
  <2> HIDE DEF all
  <2> QED  BY <2>1, <2>2, <2>3, <2>4
<1> HIDE DEF all
<1>3. first \in S
  <2>1. <<>> \in NameLists
    BY DEF NameLists
  <2> QED  BY <2>1 DEF Holds
<1>4. ASSUME NEW i \in 1 .. n, NEW p \in S
      PROVE  ParseStep(p, all[i]) \in S
  <2> DEFINE part == pathparser_get_path_part(p.w, all[i])
  <2>1. PICK M : Holds(p.w, M)
    OBVIOUS
  <2>2. Keeps(part.w, M, {})
    BY <2>1, PartTaken
  <2>3. part.w \in Call /\ \E K : Holds(part.w, K)
    BY <2>2 DEF Keeps, Holds
  <2>4. ParseStep(p, all[i]) = IF p.ended THEN p
        ELSE IF part.addr = NULL THEN [p EXCEPT !.w = part.w, !.ended = TRUE]
        ELSE [p EXCEPT !.w = part.w, !.parts = Append(@, all[i])]
    BY DEF ParseStep
  <2> HIDE DEF part, n
  <2>5. Append(p.parts, all[i]) \in NameLists
    BY <1>2, AppendProperties DEF NameLists
  <2>6. CASE p.ended
    BY <2>4, <2>6
  <2>7. CASE ~ p.ended /\ part.addr = NULL
    BY <2>3, <2>4, <2>7
  <2>8. CASE ~ p.ended /\ part.addr # NULL
    BY <2>3, <2>4, <2>5, <2>8
  <2> QED  BY <2>6, <2>7, <2>8
<1>5. n \in Nat
  BY <1>2
<1> HIDE DEF S, n, first
<1>6. \E f : Follows(f)
  <2> DEFINE step == [i \in 1 .. n |-> [p \in S |-> ParseStep(p, all[i])]]
  <2>1. RoundsOf(step, n, S)
    BY <1>4 DEF RoundsOf
  <2>2. PICK f \in [0 .. n -> S] : Loops(f, first, n, step)
    <3> HIDE DEF step
    <3> QED  BY ONLY <1>3, <1>5, <2>1, LoopExists
  <2>3. \A i \in 1 .. n : f[i] = ParseStep(f[i - 1], all[i])
    <3> TAKE i \in 1 .. n
    <3>1. i - 1 \in 0 .. n
      BY <1>5
    <3>2. f[i - 1] \in S
      BY <3>1
    <3> QED  BY <2>2, <3>2 DEF Loops
  <2>4. f = [i \in 0 .. n |-> IF i = 0 THEN first ELSE ParseStep(f[i - 1], all[i])]
    <3>1. \A i \in 0 .. n : f[i] = IF i = 0 THEN first ELSE ParseStep(f[i - 1], all[i])
      BY <1>5, <2>2, <2>3 DEF Loops
    <3> QED  BY <3>1
  <2> QED  BY <2>4
<1>7. Follows(chosen)
  <2> HIDE DEF Follows
  <2> QED  BY <1>6
<1>8. chosen[0] = first /\ \A i \in 1 .. n : chosen[i] = ParseStep(chosen[i - 1], all[i])
  <2> DEFINE g == [i \in 0 .. n |-> IF i = 0 THEN first ELSE ParseStep(chosen[i - 1], all[i])]
  <2>1. chosen = g
    BY <1>7
  <2>2. g[0] = first /\ \A i \in 1 .. n : g[i] = ParseStep(chosen[i - 1], all[i])
    BY <1>5
  <2> HIDE DEF g, chosen, Follows
  <2> QED  BY <2>1, <2>2
<1> HIDE DEF chosen
<1>9. \A i \in 0 .. n : chosen[i] \in S
  <2> DEFINE P == {i \in 0 .. n : chosen[i] \in S}
  <2>1. 0 \in P /\ \A i \in 1 .. n : i - 1 \in P => i \in P
    BY <1>3, <1>4, <1>5, <1>8
  <2> HIDE DEF P
  <2>2. \A i \in 0 .. n : i \in P
    BY <1>5, <2>1, LoopInduction
  <2> QED  BY <2>2 DEF P
<1>10. Parses(chosen, w, names)
  BY <1>2, <1>8 DEF Parses, Parsed, first
<1> QED  BY <1>1, <1>2, <1>9, <1>10 DEF S

(* What is taken of a path: its parts down to some part before the first   *)
(* empty one, with their structures (pathparser_parse).                    *)
TakenFrom(parts, names, k) ==
    k \in 0 .. Len(names) /\ parts = SubSeq(names, 1, k) /\ \A j \in 1 .. k : names[j] # Empty

LEMMA PathParsed ==
    ASSUME NEW names \in NameLists, NEW w, NEW L, Holds(w, L)
    PROVE  LET r == Pathparser_parse(w, names)
           IN  Keeps(r.w, L, {}) /\ \E k : TakenFrom(r.parts, names, k)
<1> DEFINE n == Len(names) + 1
           all(i) == IF i <= Len(names) THEN names[i] ELSE Empty
           Good(p, i) == /\ Keeps(p.w, L, {})
                         /\ \E k : TakenFrom(p.parts, names, k) /\ (p.ended \/ k = i)
<1>1. PICK f : /\ Parses(f, w, names)
               /\ Pathparser_parse(w, names) = f[n]
               /\ \A i \in 0 .. n : f[i] \in [w : Call, parts : NameLists, ended : BOOLEAN]
  BY ParseRuns
<1>2. Len(names) \in Nat /\ n \in Nat
  BY LenProperties DEF NameLists
<1> DEFINE P == {i \in 0 .. n : Good(f[i], i)}
<1>3. 0 \in P
  <2>1. f[0].w = w /\ f[0].parts = <<>>
    BY <1>1 DEF Parses, Parsed
  <2>2. Keeps(w, L, {})
    BY DEF Keeps
  <2>3. SubSeq(names, 1, 0) = <<>>
    BY DEF NameLists
  <2>4. TakenFrom(<<>>, names, 0)
    BY <1>2, <2>3 DEF TakenFrom
  <2> QED  BY <1>2, <2>1, <2>2, <2>4
<1>4. ASSUME NEW i \in 1 .. n, i - 1 \in P
      PROVE  i \in P
  <2> DEFINE p == f[i - 1]
             name == all(i)
             part == pathparser_get_path_part(p.w, name)
  <2>1. Good(p, i - 1)
    BY <1>4
  <2>2. PICK k : TakenFrom(p.parts, names, k) /\ (p.ended \/ k = i - 1)
    BY <2>1
  <2>3. f[i] = IF p.ended THEN p
               ELSE IF part.addr = NULL THEN [p EXCEPT !.w = part.w, !.ended = TRUE]
               ELSE [p EXCEPT !.w = part.w, !.parts = Append(@, name)]
    BY <1>1, <1>4 DEF Parses, ParseStep
  <2>4. p \in [w : Call, parts : NameLists, ended : BOOLEAN]
    <3>1. i - 1 \in 0 .. n
      BY <1>2, <1>4
    <3> QED  BY <1>1, <3>1
  <2>5. PICK M : Holds(p.w, M) /\ L \subseteq M
    BY <2>1 DEF Keeps
  <2>6. /\ Keeps(part.w, M, {})
        /\ name = Empty => part.addr = NULL
    BY <2>5, PartTaken
  <2>7. Keeps(part.w, L, {})
    BY <2>5, <2>6 DEF Keeps
  <2> HIDE DEF part, p
  <2>8. CASE p.ended
    <3>1. f[i] = p
      BY <2>3, <2>8
    <3>2. Good(f[i], i)
      BY <2>1, <2>2, <2>8, <3>1
    <3> QED  BY <1>4, <3>2
  <2>9. CASE ~ p.ended /\ part.addr = NULL
    <3>1. f[i].w = part.w /\ f[i].parts = p.parts /\ f[i].ended
      BY <2>3, <2>4, <2>9
    <3>2. Good(f[i], i)
      BY <2>2, <2>7, <3>1
    <3> QED  BY <1>4, <3>2
  <2>10. CASE ~ p.ended /\ part.addr # NULL
    <3>1. f[i].w = part.w /\ f[i].parts = Append(p.parts, name)
      BY <2>3, <2>4, <2>10
    <3>2. k = i - 1 /\ name # Empty
      BY <2>2, <2>6, <2>10
    <3>3. i \in 1 .. Len(names) /\ name = names[i]
      BY <1>2, <3>2
    <3>4. Append(SubSeq(names, 1, i - 1), names[i]) = SubSeq(names, 1, i)
      BY <1>2, <3>3 DEF NameLists
    <3>5. TakenFrom(f[i].parts, names, i)
      <4>1. f[i].parts = SubSeq(names, 1, i)
        BY <2>2, <3>1, <3>2, <3>3, <3>4 DEF TakenFrom
      <4>2. \A j \in 1 .. i : names[j] # Empty
        BY <1>2, <2>2, <3>2, <3>3 DEF TakenFrom
      <4> QED  BY <1>2, <3>3, <4>1, <4>2 DEF TakenFrom
    <3>6. Good(f[i], i)
      BY <2>7, <3>1, <3>5
    <3> QED  BY <1>4, <3>6
  <2> QED  BY <2>8, <2>9, <2>10
<1>5. n \in P
  <2> HIDE DEF P, n
  <2>1. \A i \in 0 .. n : i \in P
    BY <1>2, <1>3, <1>4, LoopInduction
  <2> QED  BY <1>2, <2>1
<1> QED  BY <1>1, <1>5

-----------------------------------------------------------------------------
(* The states a walk down a path passes through.                           *)
Walked(w, item, ended) == [w |-> w, item |-> item, ended |-> ended]

(* The entries of the directory that an item stands for.                   *)
EntriesOf(item) == IF item.directory = NULL THEN <<>> ELSE img.dirs[item.of.first]

WalkStep(d, name) ==
    LET found == FindItem(d.w, EntriesOf(d.item), d.item.items, name)
    IN  CASE d.ended -> d
          [] ~ d.ended /\ d.item.of.kind = "file" -> [d EXCEPT !.item = NullItem, !.ended = TRUE]
          [] OTHER -> [d EXCEPT !.w = fat16_fat_item_free(found.w, d.item), !.item = found.item]

WalkStart(w, parts) ==
    LET top == FindItem(w, img.root, mount.root, parts[1])
    IN  Walked(top.w, top.item, top.item = NullItem)

Walks(d, w, parts) ==
    /\ d[1] = WalkStart(w, parts)
    /\ \A i \in 2 .. Len(parts) : d[i] = WalkStep(d[i - 1], parts[i])

(* At each of them, all that is left of the walk is the item, whose areas  *)
(* are live and new.                                                       *)
OnlyItem(L) == {d \in [w : Call, item : FatItem, ended : BOOLEAN] :
                  ItemShape(d.item) /\ Keeps(d.w, L, ItemAreas(d.item))}

LEMMA WalkStarts ==
    ASSUME img \in Images, NEW w, NEW L, Holds(w, L), NEW parts
    PROVE  WalkStart(w, parts) \in OnlyItem(L)
<1> DEFINE top == FindItem(w, img.root, mount.root, parts[1])
<1>1. img.root \in Directories(img) \cup {<<>>}
  BY DEF Directories
<1>2. ItemShape(top.item) /\ Keeps(top.w, L, ItemAreas(top.item))
  BY <1>1, ItemFound
<1>3. WalkStart(w, parts) = [w |-> top.w, item |-> top.item, ended |-> top.item = NullItem]
  BY DEF WalkStart, Walked
<1> HIDE DEF top
<1>4. top.w \in Call /\ top.item \in FatItem
  BY <1>2 DEF Keeps, Holds, ItemShape
<1> QED  BY <1>2, <1>3, <1>4 DEF OnlyItem

LEMMA WalkGoesOn ==
    ASSUME img \in Images, NEW L, NEW d \in OnlyItem(L), NEW name
    PROVE  WalkStep(d, name) \in OnlyItem(L)
<1> DEFINE found == FindItem(d.w, EntriesOf(d.item), d.item.items, name)
           r == fat16_fat_item_free(found.w, d.item)
<1>1. /\ d \in [w : Call, item : FatItem, ended : BOOLEAN]
      /\ ItemShape(d.item)
  BY DEF OnlyItem
<1>2. PICK M : Holds(d.w, M) /\ L \subseteq M /\ ItemAreas(d.item) \subseteq M \ L
  BY DEF OnlyItem, Keeps
<1>3. WalkStep(d, name) =
        CASE d.ended -> d
          [] ~ d.ended /\ d.item.of.kind = "file" -> [d EXCEPT !.item = NullItem, !.ended = TRUE]
          [] OTHER -> [d EXCEPT !.w = r, !.item = found.item]
  BY DEF WalkStep
<1>4. EntriesOf(d.item) \in Directories(img) \cup {<<>>}
  <2>1. CASE d.item.directory = NULL
    BY <2>1 DEF EntriesOf
  <2>2. CASE d.item.directory # NULL
    <3>1. d.item.of.kind = "directory" /\ d.item.of \in ItemsOn(img) \cup {NoItem}
      BY <1>1, <2>2 DEF ItemShape, FatItem
    <3>2. NoItem.kind # "directory"
      BY DEF NoItem, Item
    <3>3. d.item.of \in ItemsOn(img)
      BY <3>1, <3>2
    <3> QED  BY <2>2, <3>1, <3>3, LeadsToDirectory DEF EntriesOf
  <2> QED  BY <2>1, <2>2
<1>5. ItemShape(found.item) /\ Keeps(found.w, M, ItemAreas(found.item))
  BY <1>2, <1>4, ItemFound
<1> HIDE DEF found
<1>6. PICK K : Holds(found.w, K) /\ M \subseteq K /\ ItemAreas(found.item) \subseteq K \ M
  BY <1>5 DEF Keeps
<1>7. ItemAreas(d.item) \subseteq K
  BY <1>2, <1>6
<1>8. PICK N \in SUBSET K : K \ ItemAreas(d.item) \subseteq N /\ Holds(r, N)
  BY <1>1, <1>6, <1>7, ItemFreed
<1>9. L \subseteq N /\ ItemAreas(found.item) \subseteq N \ L
  BY <1>2, <1>6, <1>8
<1> HIDE DEF r
<1>10. Keeps(r, L, ItemAreas(found.item))
  BY <1>8, <1>9 DEF Keeps
<1>11. CASE d.ended
  BY <1>3, <1>11
<1>12. CASE ~ d.ended /\ d.item.of.kind = "file"
  <2>1. WalkStep(d, name) = [w |-> d.w, item |-> NullItem, ended |-> TRUE]
    BY <1>1, <1>3, <1>12
  <2>2. Keeps(d.w, L, {})
    BY <1>2 DEF Keeps
  <2>3. ItemShape(NullItem) /\ ItemAreas(NullItem) = {} /\ NullItem \in FatItem
    BY NullShape DEF ItemShape
  <2> QED  BY <1>1, <2>1, <2>2, <2>3 DEF OnlyItem
<1>13. CASE ~ d.ended /\ d.item.of.kind # "file"
  <2>1. WalkStep(d, name) = [w |-> r, item |-> found.item, ended |-> d.ended]
    BY <1>1, <1>3, <1>13
  <2>2. r \in Call /\ found.item \in FatItem
    BY <1>5, <1>8 DEF Holds, ItemShape
  <2> QED  BY <1>1, <1>5, <1>10, <2>1, <2>2 DEF OnlyItem
<1> QED  BY <1>11, <1>12, <1>13

LEMMA WalkRuns ==
    ASSUME img \in Images, NEW w, NEW L, Holds(w, L), NEW parts, Len(parts) \in Nat \ {0}
    PROVE  \E d : /\ Walks(d, w, parts)
                  /\ GetDirectoryEntry(w, parts) = d[Len(parts)]
                  /\ \A i \in 1 .. Len(parts) : d[i] \in OnlyItem(L)
<1> DEFINE n == Len(parts)
           S == OnlyItem(L)
           first == WalkStart(w, parts)
           Follows(d) == d = [i \in 1 .. n |-> IF i = 1 THEN first ELSE WalkStep(d[i - 1], parts[i])]
           chosen == CHOOSE d : Follows(d)
<1>1. GetDirectoryEntry(w, parts) = chosen[n]
  BY DEF GetDirectoryEntry, WalkStep, EntriesOf, WalkStart, Walked
<1>2. n \in Nat \ {0} /\ n - 1 \in Nat
  OBVIOUS
<1>3. first \in S
  BY WalkStarts
<1>4. ASSUME NEW name, NEW d \in S
      PROVE  WalkStep(d, name) \in S
  BY <1>4, WalkGoesOn
<1> HIDE DEF S, n, first
<1>5. \E d : Follows(d) /\ \A i \in 1 .. n : d[i] \in S
  <2> DEFINE step == [i \in 1 .. (n - 1) |-> [d \in S |-> WalkStep(d, parts[i + 1])]]
  <2>1. RoundsOf(step, n - 1, S)
    BY <1>4 DEF RoundsOf
  <2>2. PICK f \in [0 .. (n - 1) -> S] : Loops(f, first, n - 1, step)
    <3> HIDE DEF step
    <3> QED  BY ONLY <1>2, <1>3, <2>1, LoopExists
  <2> DEFINE d == [i \in 1 .. n |-> f[i - 1]]
  <2>3. \A i \in 1 .. n : i - 1 \in 0 .. (n - 1) /\ d[i] = f[i - 1] /\ d[i] \in S
    BY <1>2
  <2>4. \A i \in 1 .. n : i # 1 => d[i] = WalkStep(d[i - 1], parts[i])
    <3> TAKE i \in 1 .. n
    <3> HAVE i # 1
    <3>1. i - 1 \in 1 .. (n - 1) /\ i - 1 \in 1 .. n /\ (i - 1) + 1 = i
      BY <1>2
    <3>2. f[i - 1] = step[i - 1][f[(i - 1) - 1]]
      BY <2>2, <3>1 DEF Loops
    <3>3. d[i - 1] = f[(i - 1) - 1] /\ d[i - 1] \in S
      BY <2>3, <3>1
    <3> QED  BY <2>3, <3>1, <3>2, <3>3
  <2>5. 1 \in 1 .. n => d[1] = first
    BY <2>2 DEF Loops
  <2>6. d = [i \in 1 .. n |-> IF i = 1 THEN first ELSE WalkStep(d[i - 1], parts[i])]
    <3>1. \A i \in 1 .. n : d[i] = IF i = 1 THEN first ELSE WalkStep(d[i - 1], parts[i])
      BY <2>4, <2>5
    <3> QED  BY <3>1
  <2> HIDE DEF d
  <2> QED  BY <2>3, <2>6
<1>6. Follows(chosen)
  <2> HIDE DEF Follows
  <2> QED  BY <1>5
<1>7. chosen[1] = first /\ \A i \in 2 .. n : chosen[i] = WalkStep(chosen[i - 1], parts[i])
  <2> DEFINE g == [i \in 1 .. n |-> IF i = 1 THEN first ELSE WalkStep(chosen[i - 1], parts[i])]
  <2>1. chosen = g
    BY <1>6
  <2>2. g[1] = first /\ \A i \in 2 .. n : g[i] = WalkStep(chosen[i - 1], parts[i])
    BY <1>2
  <2> HIDE DEF g, chosen, Follows
  <2> QED  BY <2>1, <2>2
<1> HIDE DEF chosen
<1>8. \A i \in 1 .. n : chosen[i] \in S
  <2> DEFINE P == {j \in 0 .. (n - 1) : chosen[j + 1] \in S}
  <2>1. 0 \in P
    BY <1>2, <1>3, <1>7
  <2>2. ASSUME NEW j \in 1 .. (n - 1), j - 1 \in P
        PROVE  j \in P
    <3>1. (j - 1) + 1 = j /\ (j + 1) - 1 = j /\ j + 1 \in 2 .. n /\ j \in 0 .. (n - 1)
      BY <1>2
    <3>2. chosen[j + 1] = WalkStep(chosen[j], parts[j + 1])
      BY <1>7, <3>1
    <3> QED  BY <1>4, <2>2, <3>1, <3>2
  <2> HIDE DEF P
  <2>3. \A j \in 0 .. (n - 1) : j \in P
    BY <1>2, <2>1, <2>2, LoopInduction
  <2>4. \A i \in 1 .. n : i - 1 \in 0 .. (n - 1) /\ (i - 1) + 1 = i
    BY <1>2
  <2> QED  BY <2>3, <2>4 DEF P
<1> QED  BY <1>1, <1>7, <1>8 DEF Walks, n, S, first

(* A search for an entry leaves the item of what it found, if anything,    *)
(* and no directory met on the way (fat16_get_directory_entry).            *)
LEMMA EntryGot ==
    ASSUME img \in Images, NEW w, NEW L, Holds(w, L), NEW parts, Len(parts) \in Nat \ {0}
    PROVE  LET r == GetDirectoryEntry(w, parts)
           IN  ItemShape(r.item) /\ Keeps(r.w, L, ItemAreas(r.item))
<1>1. GetDirectoryEntry(w, parts) \in OnlyItem(L)
  BY WalkRuns
<1> QED  BY <1>1 DEF OnlyItem

-----------------------------------------------------------------------------
(* The greatest of some numbers up to n.                                   *)
LEMMA Greatest ==
    ASSUME NEW n \in Nat, NEW m \in SUBSET (1 .. n), m # {}
    PROVE  Max(m) \in m /\ \A j \in m : j <= Max(m)
<1> DEFINE behind == {n - j : j \in m}
<1>1. behind \in SUBSET Nat /\ behind # {}
  <2>1. \A j \in m : j \in 1 .. n /\ n - j \in Nat
    OBVIOUS
  <2>2. PICK j : j \in m
    OBVIOUS
  <2> QED  BY <2>1, <2>2
<1>2. PICK k \in behind : \A l \in behind : k <= l
  <2> HIDE DEF behind
  <2> QED  BY <1>1, LeastNatural
<1>3. PICK i \in m : k = n - i
  OBVIOUS
<1>4. \A j \in m : i >= j
  <2> TAKE j \in m
  <2>1. n - i <= n - j
    BY <1>2, <1>3
  <2> QED  BY <2>1
<1>5. \E x \in m : \A y \in m : x >= y
  BY <1>4
<1>6. Max(m) \in m /\ \A y \in m : Max(m) >= y
  <2> HIDE DEF behind
  <2> QED  BY <1>5 DEF Max
<1> QED  BY <1>6

LEMMA GreatestMatch ==
    ASSUME img \in Images, NEW dir \in Directories(img) \cup {<<>>}, NEW name
    PROVE  LET m == Matching(dir, name)
           IN  /\ m \subseteq 1 .. TotalItems(dir)
               /\ m # {} => /\ Max(m) \in m
                            /\ \A j \in m : j <= Max(m)
                            /\ dir[Max(m)] \in ItemsOn(img)
<1>1. TotalItems(dir) \in Nat /\ \A i \in 1 .. TotalItems(dir) : dir[i] \in ItemsOn(img)
  BY InDirectory
<1>2. Matching(dir, name) \subseteq 1 .. TotalItems(dir)
  BY DEF Matching
<1> HIDE DEF Matching
<1>3. Matching(dir, name) # {} =>
        Max(Matching(dir, name)) \in Matching(dir, name) /\ \A j \in Matching(dir, name) : j <= Max(Matching(dir, name))
  BY <1>1, <1>2, Greatest
<1> QED  BY <1>1, <1>2, <1>3

(* The driver finds the last entry that fits.                              *)
LEMMA Looked ==
    ASSUME img \in Images, NEW dir \in Directories(img) \cup {<<>>}, NEW name
    PROVE  LET m == Matching(dir, name)
           IN  fat16_find_item_in_directory(dir, name) = IF m = {} THEN NoItem ELSE dir[Max(m)]
BY DEF fat16_find_item_in_directory, Matching

(* A search returns the item that was made for the last entry that fits,   *)
(* the only one it made if only one does (fat16_find_item_in_directory).   *)
LEMMA LastFound ==
    ASSUME img \in Images, NEW dir \in Directories(img) \cup {<<>>}, NEW from, NEW name,
           NEW w, NEW L, Holds(w, L)
    PROVE  LET r == FindItem(w, dir, from, name)
               m == Matching(dir, name)
           IN  \/ m = {} /\ r = Found(w, NullItem)
               \/ /\ m # {}
                  /\ \E v : /\ \E M : Holds(v, M)
                            /\ m = {Max(m)} => v = w
                            /\ r = fat16_new_fat_item(v, dir[Max(m)], from)
<1> DEFINE n == TotalItems(dir)
           m == Matching(dir, name)
<1>1. PICK f : /\ Finds(f, w, dir, from, name)
               /\ FindItem(w, dir, from, name) = f[n]
               /\ \A i \in 0 .. n : \E M : Holds(f[i].w, M)
  BY FindRuns
<1>2. n \in Nat /\ m \subseteq 1 .. n
  BY InDirectory, GreatestMatch
<1> DEFINE made(i) == fat16_new_fat_item(f[i - 1].w, dir[i], from)
           none(k) == (\A j \in m : j > k) /\ f[k] = Found(w, NullItem)
           last(k) == \E i \in m : i <= k /\ (\A j \in m : j <= k => j <= i) /\ f[k] = made(i)
           P == {k \in 0 .. n : none(k) \/ last(k)}
<1>3. f[0] = Found(w, NullItem) /\ \A i \in 1 .. n : f[i] = IF i \in m THEN made(i) ELSE f[i - 1]
  BY <1>1 DEF Finds, FindStep
<1> HIDE DEF made, m, n
<1>4. 0 \in P
  BY <1>2, <1>3
<1>5. ASSUME NEW k \in 1 .. n, k - 1 \in P
      PROVE  k \in P
  <2>1. \A j \in m : j \in 1 .. n
    BY <1>2
  <2>2. CASE k \in m
    <3>1. f[k] = made(k)
      BY <1>3, <2>2
    <3>2. last(k)
      BY <2>1, <2>2, <3>1
    <3> QED  BY <1>2, <1>5, <3>2
  <2>3. CASE k \notin m
    <3>1. f[k] = f[k - 1]
      BY <1>3, <2>3
    <3>2. \A j \in m : j <= k => j <= k - 1
      BY <2>1, <2>3
    <3>3. none(k - 1) => none(k)
      BY <2>1, <3>1, <3>2
    <3>4. last(k - 1) => last(k)
      BY <2>1, <3>1, <3>2
    <3> QED  BY <1>2, <1>5, <3>3, <3>4
  <2> QED  BY <2>2, <2>3
<1>6. \A k \in 0 .. n : k \in P
  <2> HIDE DEF P
  <2> QED  BY <1>2, <1>4, <1>5, LoopInduction
<1>7. CASE m = {}
  <2>1. none(n)
    BY <1>2, <1>6, <1>7
  <2> QED  BY <1>1, <1>7, <2>1 DEF m
<1>8. CASE m # {}
  <2>1. Max(m) \in m /\ \A j \in m : j <= Max(m)
    BY <1>8, GreatestMatch DEF m
  <2>2. Max(m) \in 1 .. n
    BY <1>2, <2>1
  <2>3. f[n] = made(Max(m))
    <3>1. last(n)
      BY <1>2, <1>6, <2>1, <2>2
    <3>2. PICK i \in m : (\A j \in m : j <= n => j <= i) /\ f[n] = made(i)
      BY <3>1
    <3>3. i \in 1 .. n /\ i <= Max(m) /\ Max(m) <= i
      BY <1>2, <2>1, <2>2, <3>2
    <3>4. i = Max(m)
      BY <2>2, <3>3
    <3> QED  BY <3>2, <3>4
  <2>4. m = {Max(m)} => f[Max(m) - 1] = Found(w, NullItem)
    <3> SUFFICES ASSUME m = {Max(m)} PROVE f[Max(m) - 1] = Found(w, NullItem)
      OBVIOUS
    <3>1. Max(m) - 1 \in 0 .. n
      BY <1>2, <2>2
    <3>2. ~ last(Max(m) - 1)
      BY <2>2
    <3> QED  BY <1>6, <3>1, <3>2
  <2>5. \E M : Holds(f[Max(m) - 1].w, M)
    <3>1. Max(m) - 1 \in 0 .. n
      BY <1>2, <2>2
    <3> QED  BY <1>1, <3>1 DEF n
  <2>6. Found(w, NullItem).w = w
    BY DEF Found
  <2> QED  BY <1>1, <1>8, <2>3, <2>4, <2>5, <2>6 DEF m, n, made
<1> QED  BY <1>7, <1>8

-----------------------------------------------------------------------------
(* What the driver meets on its way down a path, one part after the other. *)
Seen == ItemsOn(img) \cup {NoItem, Wild}

DownStep(up, name, more) ==
    LET item == fat16_find_item_in_directory(img.dirs[up.first], name)
    IN  CASE up.kind = "directory" -> IF item = NoItem /\ more THEN Wild ELSE item
          [] up.kind = "file" -> NoItem
          [] OTHER -> up

Downs(d, parts) ==
    /\ d[1] = fat16_find_item_in_directory(img.root, parts[1])
    /\ \A i \in 2 .. Len(parts) : d[i] = DownStep(d[i - 1], parts[i], i < Len(parts))

LEMMA SeenBelow ==
    ASSUME img \in Images, NEW dir \in Directories(img) \cup {<<>>}, NEW name
    PROVE  fat16_find_item_in_directory(dir, name) \in ItemsOn(img) \cup {NoItem}
BY Looked, GreatestMatch

LEMMA DownRuns ==
    ASSUME img \in Images, NEW parts, Len(parts) \in Nat \ {0}
    PROVE  \E d : /\ Downs(d, parts)
                  /\ fat16_get_directory_entry(img, parts) = d[Len(parts)]
                  /\ \A i \in 1 .. Len(parts) : d[i] \in Seen
<1> DEFINE n == Len(parts)
           first == fat16_find_item_in_directory(img.root, parts[1])
           Follows(d) == d = [i \in 1 .. n |-> IF i = 1 THEN first ELSE DownStep(d[i - 1], parts[i], i < n)]
           chosen == CHOOSE d : Follows(d)
<1>1. fat16_get_directory_entry(img, parts) = chosen[n]
  BY DEF fat16_get_directory_entry, DownStep
<1>2. n \in Nat \ {0} /\ n - 1 \in Nat
  OBVIOUS
<1>3. first \in Seen
  <2>1. img.root \in Directories(img) \cup {<<>>}
    BY DEF Directories
  <2> QED  BY <2>1, SeenBelow DEF Seen
<1>4. ASSUME NEW up \in Seen, NEW name, NEW more
      PROVE  DownStep(up, name, more) \in Seen
  <2>1. CASE up.kind = "directory"
    <3>1. up \in ItemsOn(img)
      BY <2>1 DEF Seen, NoItem, Wild, Item
    <3>2. img.dirs[up.first] \in Directories(img)
      BY <2>1, <3>1, LeadsToDirectory
    <3>3. fat16_find_item_in_directory(img.dirs[up.first], name) \in Seen
      BY <3>2, SeenBelow DEF Seen
    <3> QED  BY <2>1, <3>3 DEF DownStep, Seen
  <2>2. CASE up.kind # "directory"
    BY <2>2 DEF DownStep, Seen
  <2> QED  BY <2>1, <2>2
<1> HIDE DEF n, first
<1>5. \E d : Follows(d)
  <2> DEFINE step == [i \in 1 .. (n - 1) |-> [d \in Seen |-> DownStep(d, parts[i + 1], i + 1 < n)]]
  <2>1. RoundsOf(step, n - 1, Seen)
    BY <1>4 DEF RoundsOf
  <2>2. PICK f \in [0 .. (n - 1) -> Seen] : Loops(f, first, n - 1, step)
    <3> HIDE DEF step
    <3> QED  BY ONLY <1>2, <1>3, <2>1, LoopExists
  <2> DEFINE d == [i \in 1 .. n |-> f[i - 1]]
  <2>3. \A i \in 1 .. n : i - 1 \in 0 .. (n - 1) /\ d[i] = f[i - 1] /\ d[i] \in Seen
    BY <1>2
  <2>4. \A i \in 1 .. n : i # 1 => d[i] = DownStep(d[i - 1], parts[i], i < n)
    <3> TAKE i \in 1 .. n
    <3> HAVE i # 1
    <3>1. i - 1 \in 1 .. (n - 1) /\ i - 1 \in 1 .. n /\ (i - 1) + 1 = i
      BY <1>2
    <3>2. f[i - 1] = step[i - 1][f[(i - 1) - 1]]
      BY <2>2, <3>1 DEF Loops
    <3>3. d[i - 1] = f[(i - 1) - 1] /\ d[i - 1] \in Seen
      BY <2>3, <3>1
    <3> QED  BY <2>3, <3>1, <3>2, <3>3
  <2>5. 1 \in 1 .. n => d[1] = first
    BY <2>2 DEF Loops
  <2>6. d = [i \in 1 .. n |-> IF i = 1 THEN first ELSE DownStep(d[i - 1], parts[i], i < n)]
    <3>1. \A i \in 1 .. n : d[i] = IF i = 1 THEN first ELSE DownStep(d[i - 1], parts[i], i < n)
      BY <2>4, <2>5
    <3> QED  BY <3>1
  <2> HIDE DEF d
  <2> QED  BY <2>6
<1>6. Follows(chosen)
  <2> HIDE DEF Follows
  <2> QED  BY <1>5
<1>7. chosen[1] = first /\ \A i \in 2 .. n : chosen[i] = DownStep(chosen[i - 1], parts[i], i < n)
  <2> DEFINE g == [i \in 1 .. n |-> IF i = 1 THEN first ELSE DownStep(chosen[i - 1], parts[i], i < n)]
  <2>1. chosen = g
    BY <1>6
  <2>2. g[1] = first /\ \A i \in 2 .. n : g[i] = DownStep(chosen[i - 1], parts[i], i < n)
    BY <1>2
  <2> HIDE DEF g, chosen, Follows
  <2> QED  BY <2>1, <2>2
<1> HIDE DEF chosen
<1>8. \A i \in 1 .. n : chosen[i] \in Seen
  <2> DEFINE P == {j \in 0 .. (n - 1) : chosen[j + 1] \in Seen}
  <2>1. 0 \in P
    BY <1>2, <1>3, <1>7
  <2>2. ASSUME NEW j \in 1 .. (n - 1), j - 1 \in P
        PROVE  j \in P
    <3>1. (j - 1) + 1 = j /\ (j + 1) - 1 = j /\ j + 1 \in 2 .. n /\ j \in 0 .. (n - 1)
      BY <1>2
    <3>2. chosen[j + 1] = DownStep(chosen[j], parts[j + 1], j + 1 < n)
      BY <1>7, <3>1
    <3> QED  BY <1>4, <2>2, <3>1, <3>2
  <2> HIDE DEF P
  <2>3. \A j \in 0 .. (n - 1) : j \in P
    BY <1>2, <2>1, <2>2, LoopInduction
  <2>4. \A i \in 1 .. n : i - 1 \in 0 .. (n - 1) /\ (i - 1) + 1 = i
    BY <1>2
  <2> QED  BY <2>3, <2>4 DEF P
<1> QED  BY <1>1, <1>7, <1>8 DEF Downs, n, first

(* The first parts of a path.                                              *)
LEMMA FirstParts ==
    ASSUME NEW parts \in NameLists, NEW i \in 0 .. Len(parts)
    PROVE  /\ SubSeq(parts, 1, i) \in NameLists
           /\ Len(SubSeq(parts, 1, i)) = i
           /\ \A j \in 1 .. i : SubSeq(parts, 1, i)[j] = parts[j]
<1> DEFINE q == SubSeq(parts, 1, i)
<1>1. Len(parts) \in Nat /\ i \in Int /\ \A j \in 1 .. i : parts[j] \in Seq(STRING)
  BY LenProperties, ElementOfSeq DEF NameLists
<1>2. /\ q \in NameLists
      /\ Len(q) = (IF 1 <= i THEN i - 1 + 1 ELSE 0)
      /\ \A j \in 1 .. (i - 1 + 1) : q[j] = parts[1 + j - 1]
  BY <1>1, SubSeqProperties DEF NameLists
<1>3. i \in Nat /\ i - 1 + 1 = i /\ \A j \in 1 .. i : 1 + j - 1 = j
  BY <1>1
<1> HIDE DEF q
<1>4. Len(q) = i /\ \A j \in 1 .. i : q[j] = parts[j]
  BY <1>2, <1>3
<1> QED  BY <1>2, <1>4 DEF q

(* Where it meets no null pointer, it meets on the way what a walk that    *)
(* ends there finds.                                                       *)
LEMMA OnTheWay ==
    ASSUME img \in Images, NEW parts \in NameLists, NEW d, Downs(d, parts),
           Len(parts) # 0, d[Len(parts)] # Wild
    PROVE  \A i \in 1 .. Len(parts) :
              d[i] # Wild /\ fat16_get_directory_entry(img, SubSeq(parts, 1, i)) = d[i]
<1> DEFINE n == Len(parts)
<1>1. n \in Nat \ {0} /\ n - 1 \in Nat
  BY LenProperties DEF NameLists
<1>2. d[1] = fat16_find_item_in_directory(img.root, parts[1])
  BY DEF Downs
<1>3. \A i \in 2 .. n : d[i] = DownStep(d[i - 1], parts[i], i < n)
  BY DEF Downs
<1> HIDE DEF n
<1>4. \A i \in 1 .. n : d[i] # Wild
  <2> DEFINE P == {k \in 0 .. (n - 1) : d[n - k] # Wild}
  <2>1. 0 \in P
    BY <1>1 DEF n
  <2>2. ASSUME NEW k \in 1 .. (n - 1), k - 1 \in P
        PROVE  k \in P
    <3>1. n - k + 1 \in 2 .. n /\ (n - k + 1) - 1 = n - k /\ n - (k - 1) = n - k + 1
      BY <1>1
    <3>2. d[n - k + 1] = DownStep(d[n - k], parts[n - k + 1], n - k + 1 < n)
      BY <1>3, <3>1
    <3>3. d[n - k + 1] # Wild
      BY <2>2, <3>1
    <3>4. Wild.kind = "wild"
      BY DEF Wild, Item
    <3>5. d[n - k] # Wild
      BY <3>2, <3>3, <3>4 DEF DownStep
    <3> QED  BY <1>1, <3>5
  <2> HIDE DEF P
  <2>3. \A k \in 0 .. (n - 1) : k \in P
    BY <1>1, <2>1, <2>2, LoopInduction
  <2> SUFFICES ASSUME NEW i \in 1 .. n PROVE d[i] # Wild
    OBVIOUS
  <2>4. n - i \in 0 .. (n - 1) /\ n - (n - i) = i
    BY <1>1
  <2> QED  BY <2>3, <2>4 DEF P
<1> SUFFICES ASSUME NEW i \in 1 .. n
             PROVE  fat16_get_directory_entry(img, SubSeq(parts, 1, i)) = d[i]
  BY <1>4 DEF n
<1> DEFINE q == SubSeq(parts, 1, i)
<1>5. Len(q) = i /\ \A j \in 1 .. i : q[j] = parts[j]
  BY <1>1, FirstParts DEF n
<1> HIDE DEF q
<1>6. i \in Nat \ {0} /\ i - 1 \in Nat
  BY <1>1
<1>7. PICK e : Downs(e, q) /\ fat16_get_directory_entry(img, q) = e[i]
  BY <1>5, <1>6, DownRuns
<1> DEFINE P == {k \in 0 .. (i - 1) : e[k + 1] = d[k + 1]}
<1>8. 0 \in P
  BY <1>2, <1>5, <1>6, <1>7 DEF Downs
<1>9. ASSUME NEW k \in 1 .. (i - 1), k - 1 \in P
      PROVE  k \in P
  <2>1. k + 1 \in 2 .. i /\ k + 1 \in 2 .. n /\ (k + 1) - 1 = k /\ (k - 1) + 1 = k /\ k \in 1 .. n
        /\ k \in 0 .. (i - 1)
    BY <1>1, <1>6
  <2>2. e[k + 1] = DownStep(d[k], parts[k + 1], k + 1 < i)
    <3>1. e[k + 1] = DownStep(e[k], q[k + 1], k + 1 < i)
      BY <1>5, <1>7, <2>1 DEF Downs
    <3>2. q[k + 1] = parts[k + 1]
      BY <1>5, <2>1
    <3>3. e[k] = d[k]
      BY <1>9, <2>1
    <3> QED  BY <3>1, <3>2, <3>3
  <2>3. d[k + 1] = DownStep(d[k], parts[k + 1], k + 1 < n) /\ d[k + 1] # Wild
    BY <1>3, <1>4, <2>1
  <2>4. (k + 1 < n <=> k + 1 < i) \/ (k + 1 < n /\ ~ (k + 1 < i))
    BY <1>1, <2>1
  <2>5. e[k + 1] = d[k + 1]
    BY <2>2, <2>3, <2>4 DEF DownStep
  <2> QED  BY <2>1, <2>5
<1>10. i - 1 \in P
  <2> HIDE DEF P
  <2>1. \A k \in 0 .. (i - 1) : k \in P
    BY <1>6, <1>8, <1>9, LoopInduction
  <2> QED  BY <1>6, <2>1
<1>11. e[i] = d[i]
  BY <1>6, <1>10
<1> QED  BY <1>7, <1>11 DEF q

-----------------------------------------------------------------------------
(* An item that was made is the entry's, complete unless nothing is left   *)
(* for another request (fat16_new_fat_item_directory_item).                *)
LEMMA ItemWhole ==
    ASSUME NEW of, NEW from, NEW w, NEW L, Holds(w, L),
           fat16_new_fat_item(w, of, from).item # NullItem
    PROVE  LET r == fat16_new_fat_item(w, of, from)
           IN  /\ r.item.of = of
               /\ of.kind = "file" /\ r.item.entry = NULL => kmallac(r.w.h, 1).addr = NULL
<1> DEFINE item == kzalloc(w, 1)
           r == fat16_new_fat_item(w, of, from)
           loaded == fat16_load_directory(item.w, of)
           clone == kzalloc(item.w, 1)
<1>1. Holds(item.w, L \cup Piece(item.addr, 1))
  BY KzallocOne
<1>2. r = IF item.addr = NULL THEN [w |-> item.w, item |-> NullItem]
          ELSE IF of.kind = "directory"
          THEN [w |-> loaded.w,
                item |-> [NullItem EXCEPT !.addr = item.addr, !.of = of,
                                          !.directory = loaded.directory, !.items = loaded.items]]
          ELSE [w |-> clone.w,
                item |-> [NullItem EXCEPT !.addr = item.addr, !.of = of, !.entry = clone.addr]]
  BY DEF fat16_new_fat_item, fat16_clone_directory_item
<1> HIDE DEF r
<1>3. item.addr # NULL
  BY <1>2 DEF r
<1> HIDE DEF item, loaded
<1>4. clone.addr = NULL => clone.w.h = item.w.h /\ kmallac(item.w.h, 1).addr = NULL
  <2>1. clone.addr = NULL => clone.w.h = item.w.h
    BY <1>1, KzallocOne
  <2>2. clone.addr = kmallac(item.w.h, 1).addr
    BY DEF kzalloc, Answered
  <2> QED  BY <2>1, <2>2
<1> HIDE DEF clone
<1>5. CASE of.kind = "directory"
  <2>1. r.item.of = of
    BY <1>2, <1>3, <1>5 DEF NullItem
  <2> QED  BY <1>5, <2>1 DEF r
<1>6. CASE of.kind # "directory"
  <2>1. r.item.of = of /\ r.item.entry = clone.addr /\ r.w = clone.w
    BY <1>2, <1>3, <1>6 DEF NullItem
  <2> QED  BY <1>4, <2>1 DEF r
<1> QED  BY <1>5, <1>6

(* So is what a search in the root directory returns.                      *)
LEMMA RootItemWhole ==
    ASSUME img \in Images, NEW w, NEW L, Holds(w, L), NEW parts, Len(parts) = 1,
           GetDirectoryEntry(w, parts).item # NullItem
    PROVE  LET r == GetDirectoryEntry(w, parts)
           IN  /\ r.item.of = fat16_get_directory_entry(img, parts)
               /\ r.item.of.kind = "file" /\ r.item.entry = NULL => kmallac(r.w.h, 1).addr = NULL
<1> DEFINE r == GetDirectoryEntry(w, parts)
           m == Matching(img.root, parts[1])
<1>1. Len(parts) \in Nat \ {0}
  OBVIOUS
<1>2. r = WalkStart(w, parts)
  <2>1. PICK d : Walks(d, w, parts) /\ r = d[Len(parts)]
    BY <1>1, WalkRuns
  <2> QED  BY <2>1 DEF Walks
<1>3. fat16_get_directory_entry(img, parts) = fat16_find_item_in_directory(img.root, parts[1])
  BY <1>1, DownRuns DEF Downs
<1>4. img.root \in Directories(img) \cup {<<>>}
  BY DEF Directories
<1> DEFINE top == FindItem(w, img.root, mount.root, parts[1])
<1>5. r.w = top.w /\ r.item = top.item
  BY <1>2 DEF WalkStart, Walked
<1> HIDE DEF r
<1>6. top # Found(w, NullItem)
  BY <1>5 DEF Found, r
<1>7. PICK v, M : /\ m # {}
                  /\ Holds(v, M)
                  /\ top = fat16_new_fat_item(v, img.root[Max(m)], mount.root)
  BY <1>4, <1>6, LastFound
<1>8. fat16_get_directory_entry(img, parts) = img.root[Max(m)]
  BY <1>3, <1>4, <1>7, Looked
<1>9. /\ top.item.of = img.root[Max(m)]
      /\ img.root[Max(m)].kind = "file" /\ top.item.entry = NULL => kmallac(top.w.h, 1).addr = NULL
  BY <1>5, <1>7, ItemWhole DEF r
<1> HIDE DEF m, top
<1> QED  BY <1>5, <1>8, <1>9 DEF r

(* fat16_open returns an item and a private part, both new, or nothing.    *)
LEMMA FileOpened ==
    ASSUME img \in Images, NEW w, NEW L, Holds(w, L), NEW parts, Len(parts) \in Nat \ {0}
    PROVE  LET r == fat16_open(w, parts)
           IN  /\ r.addr \in Nat
               /\ ItemShape(r.item)
               /\ Piece(r.addr, 1) \cap ItemAreas(r.item) = {}
               /\ Keeps(r.w, L, Piece(r.addr, 1) \cup ItemAreas(r.item))
               /\ r.addr # NULL =>
                     \E v, M : Holds(v, M) /\ r.w = GetDirectoryEntry(v, parts).w
                                           /\ r.item = GetDirectoryEntry(v, parts).item
<1> DEFINE private == kzalloc(w, 1)
           first == GetDirectoryEntry(private.w, parts)
           second == GetDirectoryEntry(first.w, parts)
           pp == Piece(private.addr, 1)
           r == fat16_open(w, parts)
<1>1. private.addr \in Nat /\ pp \cap L = {} /\ Holds(private.w, L \cup pp)
  BY KzallocOne
<1>2. r = IF private.addr = NULL THEN [w |-> private.w, addr |-> NULL, item |-> NullItem]
          ELSE [w |-> second.w, addr |-> private.addr, item |-> second.item]
  BY DEF fat16_open
<1> HIDE DEF private, r
<1>3. CASE private.addr = NULL
  <2>1. r = [w |-> private.w, addr |-> NULL, item |-> NullItem] /\ pp = {}
    BY <1>2, <1>3 DEF Piece
  <2>2. Keeps(private.w, L, {}) /\ Piece(NULL, 1) = {}
    BY <1>1, <2>1 DEF Keeps, Piece
  <2>3. r.w = private.w /\ r.addr = NULL /\ r.item = NullItem /\ NULL \in Nat
    BY <2>1 DEF NULL
  <2> QED  BY <2>2, <2>3, NullShape DEF r
<1>4. CASE private.addr # NULL
  <2>1. Keeps(first.w, L \cup pp, ItemAreas(first.item))
    BY <1>1, EntryGot
  <2> HIDE DEF first
  <2>2. PICK M : Holds(first.w, M) /\ L \cup pp \subseteq M
    BY <2>1 DEF Keeps
  <2>3. ItemShape(second.item) /\ Keeps(second.w, M, ItemAreas(second.item))
    BY <2>2, EntryGot
  <2>4. r.w = second.w /\ r.addr = private.addr /\ r.item = second.item
    BY <1>2, <1>4
  <2>5. \E v, K : Holds(v, K) /\ r.w = GetDirectoryEntry(v, parts).w
                              /\ r.item = GetDirectoryEntry(v, parts).item
    BY <2>2, <2>4
  <2> HIDE DEF second
  <2>6. PICK K : Holds(second.w, K) /\ M \subseteq K /\ ItemAreas(second.item) \subseteq K \ M
    BY <2>3 DEF Keeps
  <2>7. pp \cap ItemAreas(second.item) = {}
    BY <2>2, <2>6
  <2>8. Keeps(second.w, L, pp \cup ItemAreas(second.item))
    BY <1>1, <2>2, <2>6 DEF Keeps
  <2> QED  BY <1>1, <2>3, <2>4, <2>5, <2>7, <2>8 DEF r
<1> QED  BY <1>3, <1>4

(* The blocks of some areas.                                               *)
Cover(A) == UNION {At(a) : a \in A}

LEMMA Covered ==
    ASSUME NEW A, NEW x
    PROVE  x \in Cover(A) <=> \E a \in A : x \in At(a)
BY DEF Cover

LEMMA CoverOf ==
    /\ \A A, B : Cover(A \cup B) = Cover(A) \cup Cover(B)
    /\ Cover({}) = {}
    /\ \A a : Cover({a}) = At(a)
    /\ \A x, n : Cover(Piece(x, n)) = IF x = NULL THEN {} ELSE Area(x, n)
<1>1. Cover({}) = {} /\ \A A, B : Cover(A \cup B) = Cover(A) \cup Cover(B)
  BY Covered
<1>2. \A a : Cover({a}) = At(a)
  BY Covered
<1>3. ASSUME NEW x, NEW n
      PROVE  Cover(Piece(x, n)) = IF x = NULL THEN {} ELSE Area(x, n)
  <2>1. At([addr |-> x, blocks |-> n]) = Area(x, n)
    BY DEF At
  <2> QED  BY <1>1, <1>2, <2>1 DEF Piece
<1> QED  BY <1>1, <1>2, <1>3

-----------------------------------------------------------------------------
(***************************************************************************)
(* The state between calls.                                                *)
(***************************************************************************)
DescAreas(desc) ==
    IF desc = NoDesc THEN {}
    ELSE Piece(desc.addr, 1) \cup Piece(desc.private, 1) \cup ItemAreas(desc.item)

MountAreas ==
    IF Mounted
    THEN Piece(mount.private, 1) \cup {[addr |-> s, blocks |-> 1] : s \in mount.streams}
           \cup Piece(mount.root, BlocksFor(ROOT_BYTES))
    ELSE {}

(* Each structure has its shape; one that is there has its addresses.      *)
DescShape(desc) ==
    /\ desc \in [addr : Nat, private : Nat, item : FatItem]
    /\ desc # NoDesc => desc.addr # NULL /\ desc.private # NULL /\ ItemShape(desc.item)

Answer == [path : Paths \cup {NoOpen.path}, mode : {"r", "w"}, res : Fds \cup {Refused},
           kept : Int, starved : BOOLEAN, tabled : BOOLEAN]

Formed ==
    /\ img \in Images
    /\ mount = NotMounted \/
          mount \in [private : Nat \ {NULL}, streams : SUBSET (Nat \ {NULL}), root : Nat \ {NULL}]
    /\ DOMAIN fds = Fds /\ fds = [fd \in Fds |-> fds[fd]]
    /\ \A fd \in Fds : DescShape(fds[fd])
    /\ calls \in 0 .. MAX_CALLS
    /\ opened \in Answer

(* E are the areas of the rest of the kernel.  Descriptors, the mounted    *)
(* disk and the rest of the kernel share no area, nor do two descriptors.  *)
Owned(L, E) ==
    /\ Sound(h, L)
    /\ E \subseteq L
    /\ elsewhere = Cover(E)
    /\ MountAreas \subseteq L \ E
    /\ \A fd \in Fds : DescAreas(fds[fd]) \subseteq L \ (E \cup MountAreas)
    /\ \A fd, other \in Fds : fd # other => DescAreas(fds[fd]) \cap DescAreas(fds[other]) = {}

IInv == /\ Formed
        /\ \E L, E : Owned(L, E)
        /\ RootFileWhole

(* The disk does not change, and with it what an item holds.               *)
LEMMA SameDisk ==
    ASSUME img' = img
    PROVE  /\ \A item : ItemAreas(item)' = ItemAreas(item) /\ (ItemShape(item)' <=> ItemShape(item))
           /\ \A desc : DescAreas(desc)' = DescAreas(desc) /\ (DescShape(desc)' <=> DescShape(desc))
<1>1. \A item : ItemAreas(item)' = ItemAreas(item)
  BY DEF ItemAreas, EntryBytes
<1>2. FatItem' = FatItem
  BY DEF FatItem
<1>3. \A item : ItemShape(item)' <=> ItemShape(item)
  BY <1>2 DEF ItemShape
<1>4. \A desc : DescAreas(desc)' = DescAreas(desc)
  BY <1>1 DEF DescAreas
<1>5. \A desc : DescShape(desc)' <=> DescShape(desc)
  BY <1>2, <1>3 DEF DescShape
<1> QED  BY <1>1, <1>3, <1>4, <1>5

(* The null descriptor.                                                    *)
LEMMA NoDescShape == DescShape(NoDesc) /\ DescAreas(NoDesc) = {}
<1>1. NullItem \in FatItem
  BY NullShape DEF ItemShape
<1> QED  BY <1>1 DEF DescShape, DescAreas, NoDesc, NULL

(* No area is live in the heap as it was made.                             *)
LEMMA FreshHeap ==
    /\ Sound(kheap_init, {})
    /\ \A L : Sound(kheap_init, L) => L = {}
<1>1. kheap_init \in HeapType
  BY PmmAssumption DEF kheap_init, pmm_init, HeapType, Reserved, EmptyEntry, Entry, NULL
<1>2. kheap_init.map = Reserved /\ kheap_init.free = SYSTEM_BLOCKS - RESERVED_BLOCKS
  BY DEF kheap_init, pmm_init
<1>3. \A i \in Slots : kheap_init.big[i] = EmptyEntry
  BY DEF kheap_init
<1> HIDE DEF kheap_init
<1>4. Counted(kheap_init)
  <2>1. IsFiniteSet(Reserved)
    BY PmmAssumption, FS_Interval DEF Reserved
  <2>2. Clear(kheap_init) = RESERVED_BLOCKS .. (SYSTEM_BLOCKS - 1)
    BY <1>2, PmmAssumption DEF Clear, Reserved
  <2>3. Cardinality(RESERVED_BLOCKS .. (SYSTEM_BLOCKS - 1)) <= SYSTEM_BLOCKS - RESERVED_BLOCKS
    BY PmmAssumption, FS_Interval
  <2> QED  BY <1>2, <2>1, <2>2, <2>3, PmmAssumption DEF Counted
<1>5. TableOf(kheap_init, {})
  BY <1>3 DEF TableOf, EmptyEntry
<1>6. Apart(kheap_init, {})
  BY DEF Apart
<1>7. ASSUME NEW L, Sound(kheap_init, L)
      PROVE  L = {}
  <2> SUFFICES ASSUME NEW a \in L PROVE FALSE
    OBVIOUS
  <2>1. a.addr \in At(a)
    BY <1>7 DEF Sound, Apart, Live, At, Area
  <2> QED  BY <1>2, <1>7, <2>1 DEF Sound, Apart
<1> QED  BY <1>1, <1>2, <1>4, <1>5, <1>6, <1>7 DEF Sound

LEMMA CoverOfThree ==
    ASSUME NEW A, NEW B, NEW C
    PROVE  Cover((A \cup B) \cup C) = (Cover(A) \cup Cover(B)) \cup Cover(C)
<1>1. Cover((A \cup B) \cup C) = Cover(A \cup B) \cup Cover(C)
  BY CoverOf
<1>2. Cover(A \cup B) = Cover(A) \cup Cover(B)
  BY CoverOf
<1> QED  BY <1>1, <1>2

(* Two live areas have no block in common, nor have sets of them.          *)
LEMMA BlocksApart ==
    ASSUME NEW g, NEW L, Apart(g, L), NEW A \in SUBSET L, NEW B \in SUBSET L, A \cap B = {}
    PROVE  Cover(A) \cap Cover(B) = {} /\ Cover(A) \subseteq g.map \ Reserved
<1>1. \A a \in A, b \in B : At(a) \cap At(b) = {}
  BY DEF Apart
<1>2. \A a \in A : At(a) \subseteq g.map \ Reserved
  BY DEF Apart
<1> QED  BY <1>1, <1>2, Covered

(* The blocks that a structure holds are those of its areas.               *)
LEMMA BlocksOfAreas ==
    ASSUME Formed
    PROVE  /\ \A fd \in Fds : DescBlocks(fd) = Cover(DescAreas(fds[fd]))
           /\ MountBlocks = Cover(MountAreas)
<1>1. \A x \in Nat : Cover(Piece(x, 1)) = {x} \ {NULL}
  <2> TAKE x \in Nat
  <2>1. Area(x, 1) = {x}
    BY DEF Area
  <2> QED  BY <2>1, CoverOf
<1>2. \A x, n : Cover(Piece(x, n)) = IF x = NULL THEN {} ELSE Area(x, n)
  BY CoverOf
<1>3. ASSUME NEW fd \in Fds
      PROVE  DescBlocks(fd) = Cover(DescAreas(fds[fd]))
  <2>1. CASE fds[fd] = NoDesc
    BY <2>1, CoverOf DEF DescBlocks, DescAreas
  <2>2. CASE fds[fd] # NoDesc
    <3> DEFINE desc == fds[fd]
               item == desc.item
               n == BlocksFor(EntryBytes(item.of))
    <3>1. /\ desc.addr \in Nat /\ desc.addr # NULL
          /\ desc.private \in Nat /\ desc.private # NULL
          /\ item.addr \in Nat /\ item.entry \in Nat /\ item.directory \in Nat
      BY <1>3, <2>2 DEF Formed, DescShape, FatItem
    <3>2. DescBlocks(fd) = {desc.addr, desc.private} \cup ({item.addr, item.entry, item.directory} \ {NULL})
                             \cup (IF item.items = NULL THEN {} ELSE Area(item.items, n))
      BY <2>2 DEF DescBlocks, ItemBlocks, EntryBytes
    <3> DEFINE pa == Piece(desc.addr, 1)
               pp == Piece(desc.private, 1)
               ia == Piece(item.addr, 1)
               ie == Piece(item.entry, 1)
               id == Piece(item.directory, 1)
               ii == Piece(item.items, n)
    <3>3. DescAreas(desc) = (pa \cup pp) \cup (((ia \cup ie) \cup id) \cup ii)
      BY <2>2 DEF DescAreas, ItemAreas
    <3>4. /\ Cover(pa) = {desc.addr} /\ Cover(pp) = {desc.private}
          /\ Cover(ia) = {item.addr} \ {NULL} /\ Cover(ie) = {item.entry} \ {NULL}
          /\ Cover(id) = {item.directory} \ {NULL}
          /\ Cover(ii) = IF item.items = NULL THEN {} ELSE Area(item.items, n)
      BY <1>1, <1>2, <3>1
    <3> HIDE DEF pa, pp, ia, ie, id, ii
    <3> DEFINE own == pa \cup pp
               its == (ia \cup ie) \cup id
               rest == its \cup ii
    <3>5. /\ Cover(own) = Cover(pa) \cup Cover(pp)
          /\ Cover(its) = (Cover(ia) \cup Cover(ie)) \cup Cover(id)
      BY CoverOf, CoverOfThree
    <3> HIDE DEF its, own
    <3>6. Cover(rest) = Cover(its) \cup Cover(ii)
      BY CoverOf
    <3> HIDE DEF rest
    <3>7. Cover(own \cup rest) = Cover(own) \cup Cover(rest)
      BY CoverOf
    <3>8. Cover(DescAreas(desc))
            = (Cover(pa) \cup Cover(pp)) \cup (((Cover(ia) \cup Cover(ie)) \cup Cover(id)) \cup Cover(ii))
      BY <3>3, <3>5, <3>6, <3>7 DEF own, its, rest
    <3> HIDE DEF n, item, desc
    <3>9. Cover(DescAreas(desc)) = DescBlocks(fd)
      BY <3>2, <3>4, <3>8
    <3> QED  BY <3>9 DEF desc
  <2> QED  BY <2>1, <2>2
<1>4. MountBlocks = Cover(MountAreas)
  <2>1. CASE ~ Mounted
    BY <2>1, CoverOf DEF MountBlocks, MountAreas
  <2>2. CASE Mounted
    <3> DEFINE n == BlocksFor(ROOT_BYTES)
               S == {[addr |-> s, blocks |-> 1] : s \in mount.streams}
    <3>1. mount \in [private : Nat \ {NULL}, streams : SUBSET (Nat \ {NULL}), root : Nat \ {NULL}]
      BY <2>2 DEF Formed, Mounted
    <3>2. Cover(S) = mount.streams
      <4>1. \A s \in mount.streams : At([addr |-> s, blocks |-> 1]) = {s}
        <5> TAKE s \in mount.streams
        <5>1. s \in Nat
          BY <3>1
        <5>2. Area(s, 1) = {s}
          BY <5>1 DEF Area
        <5> QED  BY <5>2 DEF At
      <4>2. \A x : x \in Cover(S) <=> \E t \in S : x \in At(t)
        <5> HIDE DEF S
        <5> QED  BY Covered
      <4>3. \A x : (\E t \in S : x \in At(t)) <=> x \in mount.streams
        <5> TAKE x
        <5>1. ASSUME NEW t \in S, x \in At(t)
              PROVE  x \in mount.streams
          <6>1. PICK s \in mount.streams : t = [addr |-> s, blocks |-> 1]
            OBVIOUS
          <6> QED  BY <4>1, <5>1, <6>1
        <5>2. ASSUME x \in mount.streams
              PROVE  \E t \in S : x \in At(t)
          BY <4>1, <5>2
        <5> QED  BY <5>1, <5>2
      <4> HIDE DEF S
      <4> QED  BY <4>2, <4>3
    <3>3. Cover(Piece(mount.private, 1)) = {mount.private}
      BY <1>1, <3>1
    <3>4. Cover(Piece(mount.root, n)) = Area(mount.root, n)
      BY <1>2, <3>1
    <3>5. MountAreas = (Piece(mount.private, 1) \cup S) \cup Piece(mount.root, n)
      BY <2>2 DEF MountAreas
    <3>6. MountBlocks = {mount.private} \cup mount.streams \cup Area(mount.root, n)
      BY <2>2 DEF MountBlocks
    <3>7. Cover(MountAreas) = (Cover(Piece(mount.private, 1)) \cup Cover(S)) \cup Cover(Piece(mount.root, n))
      BY <3>5, CoverOfThree
    <3> HIDE DEF S, n
    <3> QED  BY <3>2, <3>3, <3>4, <3>6, <3>7
  <2> QED  BY <2>1, <2>2
<1> QED  BY <1>3, <1>4

(* Areas that nobody shares are blocks that nobody shares.                 *)
LEMMA OwnedShared ==
    ASSUME Formed, NEW L, NEW E, Owned(L, E)
    PROVE  NothingShared
<1>1. Apart(h, L)
  BY DEF Owned, Sound
<1>2. /\ \A fd \in Fds : DescBlocks(fd) = Cover(DescAreas(fds[fd]))
      /\ MountBlocks = Cover(MountAreas)
      /\ elsewhere = Cover(E)
  BY BlocksOfAreas DEF Owned
<1>3. /\ E \in SUBSET L /\ MountAreas \in SUBSET L /\ MountAreas \cap E = {}
      /\ \A fd \in Fds : /\ DescAreas(fds[fd]) \in SUBSET L
                          /\ DescAreas(fds[fd]) \cap E = {}
                          /\ DescAreas(fds[fd]) \cap MountAreas = {}
  BY DEF Owned
<1>4. \A A, B \in SUBSET L : A \cap B = {} => Cover(A) \cap Cover(B) = {}
  BY <1>1, BlocksApart
<1>5. \A A \in SUBSET L : Cover(A) \subseteq h.map \ Reserved
  <2> TAKE A \in SUBSET L
  <2>1. {} \in SUBSET L /\ A \cap {} = {}
    OBVIOUS
  <2> QED  BY <1>1, <2>1, BlocksApart
<1>6. \A fd \in Fds : DescBlocks(fd) \cap (MountBlocks \cup elsewhere) = {}
  BY <1>2, <1>3, <1>4
<1>7. \A fd \in Fds : \A other \in Fds \ {fd} : DescBlocks(fd) \cap DescBlocks(other) = {}
  BY <1>2, <1>3, <1>4 DEF Owned
<1>8. MountBlocks \cap elsewhere = {}
  BY <1>2, <1>3, <1>4
<1>9. (UNION {DescBlocks(fd) : fd \in Fds}) \cup MountBlocks \cup elsewhere \subseteq h.map \ Reserved
  <2>1. \A fd \in Fds : DescBlocks(fd) \subseteq h.map \ Reserved
    BY <1>2, <1>3, <1>5
  <2>2. UNION {DescBlocks(fd) : fd \in Fds} \subseteq h.map \ Reserved
    BY <2>1
  <2>3. MountBlocks \subseteq h.map \ Reserved /\ elsewhere \subseteq h.map \ Reserved
    BY <1>2, <1>3, <1>5
  <2> QED  BY <2>2, <2>3
<1> QED  BY <1>6, <1>7, <1>8, <1>9 DEF NothingShared

LEMMA OwnedType ==
    ASSUME Formed, NEW L, NEW E, Owned(L, E)
    PROVE  TypeOK
<1>1. h \in [map : SUBSET Nat, used : Int, free : Nat, big : [Slots -> Entry]]
  BY DEF Owned, Sound, Counted, HeapType
<1>2. mount \in [private : Nat, streams : SUBSET Nat, root : Nat]
  BY DEF Formed, NotMounted, NULL
<1>3. elsewhere \in SUBSET Nat
  <2>1. NothingShared
    BY OwnedShared
  <2>2. elsewhere \subseteq h.map \ Reserved
    BY <2>1 DEF NothingShared
  <2> QED  BY <1>1, <2>2
<1>4. fds \in [Fds -> [addr : Nat, private : Nat, item : FatItem]]
  BY DEF Formed, DescShape
<1> QED  BY <1>1, <1>2, <1>3, <1>4 DEF TypeOK, Formed, Answer

-----------------------------------------------------------------------------
(***************************************************************************)
(* fopen, request by request.                                              *)
(***************************************************************************)
OpenRoot == kzalloc([h |-> h, starved |-> FALSE], 1)

OpenParsed(path) == Pathparser_parse(OpenRoot.w, path.parts)

OpenFile(path) == fat16_open(OpenParsed(path).w, OpenParsed(path).parts)

OpenDesc(path) == kzalloc(OpenFile(path).w, 1)

Asked(path, mode) == /\ OpenRoot.addr # NULL
                     /\ OpenParsed(path).parts # <<>>
                     /\ path.drive = 0
                     /\ Mounted
                     /\ mode = "r"

(* The heap of w is left, and res returned.                                *)
Ends(path, mode, w, res) ==
    /\ h' = w.h
    /\ opened' = [path |-> path, mode |-> mode, res |-> res,
                  kept |-> Cardinality(w.h.map) - Cardinality(h.map),
                  starved |-> w.starved,
                  tabled |-> Cardinality({i \in Slots : h.big[i] = EmptyEntry}) >= 3]

NewDesc(path) == [addr |-> OpenDesc(path).addr, private |-> OpenFile(path).addr,
                  item |-> OpenFile(path).item]

(* The three ways out: nothing to look for, nothing found, a descriptor.   *)
LEMMA FopenSteps ==
    ASSUME NEW path, NEW mode, fopen(path, mode)
    PROVE  /\ calls < MAX_CALLS /\ calls' = calls + 1
           /\ h # kheap_init
           /\ UNCHANGED <<img, mount, elsewhere>>
           /\ \/ ~ Asked(path, mode) /\ Ends(path, mode, OpenParsed(path).w, Refused) /\ fds' = fds
              \/ /\ Asked(path, mode)
                 /\ Followable(Names(path))
                 /\ \/ /\ \/ OpenFile(path).addr = NULL
                          \/ OpenFile(path).item = NullItem
                          \/ file_new_descriptor = Refused
                       /\ Ends(path, mode, OpenFile(path).w, Refused)
                       /\ fds' = fds
                    \/ /\ OpenFile(path).addr # NULL
                       /\ OpenFile(path).item # NullItem
                       /\ file_new_descriptor # Refused
                       /\ Ends(path, mode, OpenDesc(path).w, file_new_descriptor)
                       /\ fds' = IF OpenDesc(path).addr = NULL THEN fds
                                 ELSE [fds EXCEPT ![file_new_descriptor] = NewDesc(path)]
BY DEF fopen, OpenRoot, OpenParsed, OpenFile, OpenDesc, Asked, Ends, NewDesc

(* What each of them holds.                                                *)
LEMMA FopenHolds ==
    ASSUME Formed, NEW L, Sound(h, L), NEW path \in Paths
    PROVE  /\ OpenRoot.addr \in Nat
           /\ OpenRoot.w.starved = (OpenRoot.addr = NULL)
           /\ Piece(OpenRoot.addr, 1) \cap L = {}
           /\ Holds(OpenRoot.w, L \cup Piece(OpenRoot.addr, 1))
           /\ Keeps(OpenParsed(path).w, L \cup Piece(OpenRoot.addr, 1), {})
           /\ \E k : TakenFrom(OpenParsed(path).parts, path.parts, k)
           /\ OpenParsed(path).parts # <<>> => Len(OpenParsed(path).parts) \in Nat \ {0}
<1> DEFINE w == [h |-> h, starved |-> FALSE]
<1>1. Holds(w, L) /\ w.starved = FALSE
  BY DEF Holds, Call, Sound
<1> HIDE DEF w
<1>2. /\ OpenRoot.addr \in Nat
      /\ OpenRoot.w.starved = (OpenRoot.addr = NULL)
      /\ Piece(OpenRoot.addr, 1) \cap L = {}
      /\ Holds(OpenRoot.w, L \cup Piece(OpenRoot.addr, 1))
  BY <1>1, KzallocOne DEF OpenRoot, w
<1>3. path.parts \in NameLists
  BY FileMemoryAssumption DEF NameLists
<1>4. /\ Keeps(OpenParsed(path).w, L \cup Piece(OpenRoot.addr, 1), {})
      /\ \E k : TakenFrom(OpenParsed(path).parts, path.parts, k)
  BY <1>2, <1>3, PathParsed DEF OpenParsed
<1>5. OpenParsed(path).parts # <<>> => Len(OpenParsed(path).parts) \in Nat \ {0}
  <2>1. PICK k : TakenFrom(OpenParsed(path).parts, path.parts, k)
    BY <1>4
  <2>2. OpenParsed(path).parts \in NameLists
    BY <1>3, <2>1, FirstParts DEF TakenFrom
  <2>3. Len(OpenParsed(path).parts) \in Nat
    BY <2>2, LenProperties DEF NameLists
  <2>4. OpenParsed(path).parts # <<>> => Len(OpenParsed(path).parts) # 0
    BY <2>2, EmptySeq DEF NameLists
  <2> QED  BY <2>3, <2>4
<1> QED  BY <1>2, <1>4, <1>5

LEMMA FileHolds ==
    ASSUME Formed, NEW L, Sound(h, L), NEW path \in Paths, OpenParsed(path).parts # <<>>
    PROVE  LET r == OpenFile(path)
           IN  /\ r.addr \in Nat
               /\ ItemShape(r.item)
               /\ Piece(r.addr, 1) \cap ItemAreas(r.item) = {}
               /\ Keeps(r.w, L \cup Piece(OpenRoot.addr, 1), Piece(r.addr, 1) \cup ItemAreas(r.item))
               /\ r.addr # NULL =>
                     \E v, M : /\ Holds(v, M)
                              /\ r.w = GetDirectoryEntry(v, OpenParsed(path).parts).w
                              /\ r.item = GetDirectoryEntry(v, OpenParsed(path).parts).item
<1> DEFINE K == L \cup Piece(OpenRoot.addr, 1)
           p == OpenParsed(path)
           r == OpenFile(path)
<1>1. Keeps(p.w, K, {}) /\ Len(p.parts) \in Nat \ {0} /\ img \in Images
  BY FopenHolds DEF Formed
<1>2. PICK M : Holds(p.w, M) /\ K \subseteq M
  BY <1>1 DEF Keeps
<1> HIDE DEF p
<1>3. img \in Images /\ Len(p.parts) \in Nat \ {0} /\ Holds(p.w, M)
  BY <1>1, <1>2 DEF p
<1> DEFINE o == fat16_open(p.w, p.parts)
<1>4. /\ o.addr \in Nat
      /\ ItemShape(o.item)
      /\ Piece(o.addr, 1) \cap ItemAreas(o.item) = {}
      /\ Keeps(o.w, M, Piece(o.addr, 1) \cup ItemAreas(o.item))
      /\ o.addr # NULL =>
            \E v, N : Holds(v, N) /\ o.w = GetDirectoryEntry(v, p.parts).w
                                  /\ o.item = GetDirectoryEntry(v, p.parts).item
  BY <1>3, FileOpened
<1>5. r = o
  BY DEF OpenFile, p
<1> HIDE DEF o, r, K
<1>6. Keeps(o.w, K, Piece(o.addr, 1) \cup ItemAreas(o.item))
  BY <1>2, <1>4 DEF Keeps, K
<1> QED  BY <1>4, <1>5, <1>6 DEF r, p, K

(* file_new_descriptor finds a number that nobody has, or none.            *)
LEMMA NumberIsFree ==
    ASSUME file_new_descriptor # Refused
    PROVE  file_new_descriptor \in Fds /\ fds[file_new_descriptor] = NoDesc
<1> DEFINE free == {fd \in Fds : fds[fd] = NoDesc}
<1>1. free # {} /\ file_new_descriptor = Min(free)
  BY DEF file_new_descriptor
<1>2. free \in SUBSET Nat
  BY FileMemoryAssumption DEF Fds
<1>3. \E i \in free : \A j \in free : i <= j
  <2> HIDE DEF free
  <2> QED  BY <1>1, <1>2, LeastNatural
<1>4. Min(free) \in free
  <2> HIDE DEF free
  <2> QED  BY <1>3 DEF Min
<1> QED  BY <1>1, <1>4

(* What an open does to the heap and to the table of descriptors.          *)
LEMMA FopenOutcome ==
    ASSUME Formed, NEW L, Sound(h, L), NEW path \in Paths, NEW mode, fopen(path, mode)
    PROVE  \E w, M, res :
              /\ Ends(path, mode, w, res)
              /\ res \in Fds \cup {Refused}
              /\ Holds(w, M) /\ L \subseteq M
              /\ \/ fds' = fds
                 \/ \E fd \in Fds : \E desc :
                       /\ fds[fd] = NoDesc
                       /\ fds' = [fds EXCEPT ![fd] = desc]
                       /\ DescShape(desc)
                       /\ DescAreas(desc) \subseteq M \ L
<1> DEFINE K == L \cup Piece(OpenRoot.addr, 1)
           p == OpenParsed(path)
           o == OpenFile(path)
           d == OpenDesc(path)
           fd == file_new_descriptor
<1>1. PICK M : Holds(p.w, M) /\ L \subseteq M
  BY FopenHolds DEF Keeps
<1>2. Asked(path, mode) => /\ o.addr \in Nat
                           /\ ItemShape(o.item)
                           /\ Piece(o.addr, 1) \cap ItemAreas(o.item) = {}
                           /\ Keeps(o.w, K, Piece(o.addr, 1) \cup ItemAreas(o.item))
  BY FileHolds DEF Asked
<1>3. CASE ~ Asked(path, mode) /\ Ends(path, mode, p.w, Refused) /\ fds' = fds
  BY <1>1, <1>3
<1>4. ASSUME Asked(path, mode), Ends(path, mode, o.w, Refused), fds' = fds
      PROVE  \E w, N : Ends(path, mode, w, Refused) /\ Holds(w, N) /\ L \subseteq N
  <2>1. PICK N : Holds(o.w, N) /\ K \subseteq N
    BY <1>2, <1>4 DEF Keeps
  <2> QED  BY <1>4, <2>1
<1>5. ASSUME Asked(path, mode), o.addr # NULL, o.item # NullItem, fd # Refused,
             Ends(path, mode, d.w, fd),
             fds' = IF d.addr = NULL THEN fds ELSE [fds EXCEPT ![fd] = NewDesc(path)]
      PROVE  \E w, N, res :
              /\ Ends(path, mode, w, res)
              /\ res \in Fds \cup {Refused}
              /\ Holds(w, N) /\ L \subseteq N
              /\ \/ fds' = fds
                 \/ \E f \in Fds : \E desc :
                       /\ fds[f] = NoDesc
                       /\ fds' = [fds EXCEPT ![f] = desc]
                       /\ DescShape(desc)
                       /\ DescAreas(desc) \subseteq N \ L
  <2> DEFINE pd == Piece(d.addr, 1)
             A == Piece(o.addr, 1) \cup ItemAreas(o.item)
             desc == NewDesc(path)
  <2>1. PICK N : Holds(o.w, N) /\ K \subseteq N /\ A \subseteq N \ K
    BY <1>2, <1>5 DEF Keeps
  <2>2. d.addr \in Nat /\ pd \cap N = {} /\ Holds(d.w, N \cup pd)
    BY <2>1, KzallocOne DEF OpenDesc
  <2>3. fd \in Fds /\ fds[fd] = NoDesc
    BY <1>5, NumberIsFree
  <2>4. CASE d.addr = NULL
    <3>1. fds' = fds /\ L \subseteq N \cup pd
      BY <1>5, <2>1, <2>4
    <3> HIDE DEF fd, d, pd
    <3> QED  BY <1>5, <2>2, <2>3, <3>1
  <2>5. CASE d.addr # NULL
    <3>1. /\ desc = [addr |-> d.addr, private |-> o.addr, item |-> o.item]
          /\ fds' = [fds EXCEPT ![fd] = desc]
      BY <1>5, <2>5 DEF NewDesc
    <3> HIDE DEF d, o, desc, fd
    <3>2. o.addr \in Nat /\ ItemShape(o.item) /\ o.item \in FatItem
      BY <1>2, <1>5 DEF ItemShape
    <3>3. DescShape(desc)
      BY <1>5, <2>2, <2>5, <3>1, <3>2 DEF DescShape
    <3>4. desc # NoDesc
      BY <2>5, <3>1 DEF NoDesc
    <3>5. DescAreas(desc) = pd \cup A
      BY <3>1, <3>4 DEF DescAreas
    <3> HIDE DEF pd, A
    <3>6. DescAreas(desc) \subseteq (N \cup pd) \ L /\ L \subseteq N \cup pd
      BY <2>1, <2>2, <3>5
    <3> QED  BY <1>5, <2>2, <2>3, <3>1, <3>3, <3>6
  <2> QED  BY <2>4, <2>5
<1> HIDE DEF p, o, d, fd
<1> QED  BY <1>3, <1>4, <1>5, FopenSteps DEF p, o, d, fd

(* So shapes and owners are kept (fopen, fat16_get_directory_entry).       *)
LEMMA FopenKeeps ==
    ASSUME Formed, NEW L, NEW E, Owned(L, E),
           NEW path \in Paths, NEW mode \in {"r", "w"}, fopen(path, mode)
    PROVE  Formed' /\ \E M : Owned(M, E)'
<1>1. PICK w, M, res :
              /\ Ends(path, mode, w, res)
              /\ res \in Fds \cup {Refused}
              /\ Holds(w, M) /\ L \subseteq M
              /\ \/ fds' = fds
                 \/ \E fd \in Fds : \E desc :
                       /\ fds[fd] = NoDesc
                       /\ fds' = [fds EXCEPT ![fd] = desc]
                       /\ DescShape(desc)
                       /\ DescAreas(desc) \subseteq M \ L
  BY FopenOutcome DEF Owned
<1>2. calls < MAX_CALLS /\ calls' = calls + 1 /\ UNCHANGED <<img, mount, elsewhere>>
  BY FopenSteps
<1>3. h' = w.h /\ Sound(h', M) /\ w \in Call
  BY <1>1 DEF Ends, Holds
<1>4. opened' \in Answer
  <2>1. IsFiniteSet(h.map) /\ IsFiniteSet(w.h.map)
    BY <1>3 DEF Owned, Sound, Counted
  <2>2. Cardinality(w.h.map) - Cardinality(h.map) \in Int
    BY <2>1, FS_CardinalityType
  <2>3. w.starved \in BOOLEAN
    BY <1>3 DEF Call
  <2> QED  BY <1>1, <2>2, <2>3 DEF Ends, Answer
<1>5. /\ \A desc : DescAreas(desc)' = DescAreas(desc) /\ (DescShape(desc)' <=> DescShape(desc))
      /\ MountAreas' = MountAreas
  BY <1>2, SameDisk DEF MountAreas, Mounted
<1>6. /\ DOMAIN fds' = Fds /\ fds' = [fd \in Fds |-> fds'[fd]]
      /\ \A fd \in Fds : /\ DescShape(fds'[fd])
                          /\ DescAreas(fds'[fd]) \subseteq DescAreas(fds[fd]) \cup (M \ L)
      /\ \A fd, other \in Fds : fd # other => DescAreas(fds'[fd]) \cap DescAreas(fds'[other]) = {}
  <2>1. /\ DOMAIN fds = Fds /\ fds = [fd \in Fds |-> fds[fd]]
        /\ \A fd \in Fds : DescShape(fds[fd]) /\ DescAreas(fds[fd]) \subseteq L
        /\ \A fd, other \in Fds : fd # other => DescAreas(fds[fd]) \cap DescAreas(fds[other]) = {}
    BY DEF Formed, Owned
  <2>2. CASE fds' = fds
    BY <2>1, <2>2
  <2>3. ASSUME NEW fd \in Fds, NEW desc, fds' = [fds EXCEPT ![fd] = desc],
               DescShape(desc), DescAreas(desc) \subseteq M \ L
        PROVE  <1>6
    <3>1. DOMAIN fds' = Fds /\ fds' = [f \in Fds |-> fds'[f]]
      BY <2>1, <2>3
    <3>2. fds'[fd] = desc /\ \A f \in Fds : f # fd => fds'[f] = fds[f]
      BY <2>1, <2>3
    <3>3. \A f \in Fds : f # fd => DescAreas(desc) \cap DescAreas(fds[f]) = {}
      BY <2>1, <2>3
    <3> QED  BY <2>1, <2>3, <3>1, <3>2, <3>3
  <2> QED  BY <1>1, <2>2, <2>3
<1>7. Formed'
  <2>1. \A fd \in Fds : DescShape(fds[fd])'
    BY <1>5, <1>6
  <2>2. calls' \in 0 .. MAX_CALLS
    BY <1>2, FileMemoryAssumption DEF Formed
  <2> QED  BY <1>2, <1>4, <1>6, <2>1, <2>2 DEF Formed
<1>8. Owned(M, E)'
  <2>1. E \subseteq M /\ MountAreas' \subseteq M \ E
    BY <1>1, <1>5 DEF Owned
  <2>2. elsewhere' = Cover(E)
    BY <1>2 DEF Owned
  <2>3. \A fd \in Fds : DescAreas(fds'[fd]) \subseteq M \ (E \cup MountAreas)
    BY <1>1, <1>6 DEF Owned
  <2>4. \A fd \in Fds : DescAreas(fds[fd])' = DescAreas(fds'[fd])
    BY <1>5
  <2> QED  BY <1>3, <1>5, <1>6, <2>1, <2>2, <2>3, <2>4 DEF Owned
<1> QED  BY <1>7, <1>8

(* The names of a path, of which the parser took the first.                *)
LEMMA NamesTaken ==
    ASSUME NEW path \in Paths, NEW parts, NEW k, TakenFrom(parts, path.parts, k)
    PROVE  /\ Names(path) \in NameLists
           /\ k <= Len(Names(path))
           /\ Len(parts) = k
           /\ Len(Names(path)) = k => Names(path) = parts
<1> DEFINE full == {i \in DOMAIN path.parts : \A j \in 1 .. i : path.parts[j] # Empty}
           c == Cardinality(full)
           n == Len(path.parts)
<1>1. path.parts \in NameLists
  BY FileMemoryAssumption DEF NameLists
<1>2. n \in Nat /\ DOMAIN path.parts = 1 .. n
  BY <1>1, LenProperties DEF NameLists
<1>3. IsFiniteSet(1 .. n) /\ Cardinality(1 .. n) = n
  BY <1>2, FS_Interval
<1>4. full \subseteq 1 .. n
  BY <1>2
<1>5. k \in 0 .. n /\ parts = SubSeq(path.parts, 1, k) /\ \A j \in 1 .. k : path.parts[j] # Empty
  BY DEF TakenFrom
<1>6. 1 .. k \subseteq full
  BY <1>2, <1>5
<1>7. Names(path) = SubSeq(path.parts, 1, c)
  BY DEF Names
<1> HIDE DEF full
<1>8. IsFiniteSet(full) /\ c \in Nat /\ c <= n
  <2>1. IsFiniteSet(full) /\ Cardinality(full) <= Cardinality(1 .. n)
    BY <1>3, <1>4, FS_Subset
  <2>2. Cardinality(full) \in Nat
    BY <2>1, FS_CardinalityType
  <2> QED  BY <1>3, <2>1, <2>2
<1>9. k <= c
  <2>1. Cardinality(1 .. k) <= Cardinality(full)
    BY <1>6, <1>8, FS_Subset
  <2>2. Cardinality(1 .. k) = k
    BY <1>2, <1>5, FS_Interval
  <2> QED  BY <2>1, <2>2
<1> HIDE DEF c, n
<1>10. /\ SubSeq(path.parts, 1, c) \in NameLists
       /\ Len(SubSeq(path.parts, 1, c)) = c
       /\ Len(SubSeq(path.parts, 1, k)) = k
  BY <1>1, <1>2, <1>5, <1>8, FirstParts DEF n
<1> QED  BY <1>5, <1>7, <1>9, <1>10

(* A file of the root directory gets a whole descriptor, or the request    *)
(* for the descriptor is refused as well.                                  *)
LEMMA FopenWhole ==
    ASSUME Formed, NEW L, Sound(h, L), NEW path \in Paths, NEW mode, fopen(path, mode)
    PROVE  RootFileWhole'
<1> SUFFICES ASSUME opened'.res # Refused, Len(Names(opened'.path)) = 1
             PROVE  LET desc == fds'[opened'.res]
                    IN  \/ desc = NoDesc /\ opened'.starved
                        \/ /\ desc.item.of = fat16_get_directory_entry(img, Names(opened'.path))
                           /\ desc.item.of.kind = "file" => desc.item.entry # NULL
  <2>1. img' = img
    BY FopenSteps
  <2>2. Names(opened.path)' = Names(opened'.path)
    BY DEF Names
  <2> QED  BY <2>1, <2>2 DEF RootFileWhole
<1> DEFINE p == OpenParsed(path)
           o == OpenFile(path)
           d == OpenDesc(path)
           fd == file_new_descriptor
<1>1. opened'.path = path
  <2>1. \E w, res : Ends(path, mode, w, res)
    BY FopenSteps
  <2> QED  BY <2>1 DEF Ends
<1>2. /\ Asked(path, mode)
      /\ o.addr # NULL
      /\ o.item # NullItem
      /\ fd # Refused
      /\ Ends(path, mode, d.w, fd)
      /\ fds' = IF d.addr = NULL THEN fds ELSE [fds EXCEPT ![fd] = NewDesc(path)]
  <2>1. \A w : ~ Ends(path, mode, w, Refused)
    BY DEF Ends
  <2> QED  BY <2>1, FopenSteps
<1>3. opened'.res = fd /\ opened'.starved = d.w.starved /\ fd \in Fds /\ fds[fd] = NoDesc
  BY <1>2, NumberIsFree DEF Ends
<1>4. PICK v, M : /\ Holds(v, M)
                  /\ o.w = GetDirectoryEntry(v, p.parts).w
                  /\ o.item = GetDirectoryEntry(v, p.parts).item
  BY <1>2, FileHolds DEF Asked
<1>5. p.parts = Names(path) /\ Len(p.parts) = 1
  <2>1. PICK k : TakenFrom(p.parts, path.parts, k)
    BY FopenHolds
  <2>2. k <= Len(Names(path)) /\ Len(p.parts) = k /\ (Len(Names(path)) = k => Names(path) = p.parts)
    BY <2>1, NamesTaken
  <2>3. Len(p.parts) \in Nat \ {0}
    BY <1>2, FopenHolds DEF Asked
  <2>4. Len(Names(path)) = 1
    BY <1>1
  <2>5. Len(p.parts) = k /\ k \in Nat \ {0}
    BY <2>2, <2>3
  <2>6. k = 1
    BY ONLY <2>2, <2>4, <2>5
  <2>7. Names(path) = p.parts
    BY ONLY <2>2, <2>4, <2>6
  <2> QED  BY ONLY <2>5, <2>6, <2>7
<1>6. /\ o.item.of = fat16_get_directory_entry(img, p.parts)
      /\ o.item.of.kind = "file" /\ o.item.entry = NULL => kmallac(o.w.h, 1).addr = NULL
  <2>1. GetDirectoryEntry(v, p.parts).item # NullItem
    BY <1>2, <1>4
  <2>2. img \in Images /\ Len(p.parts) = 1
    BY <1>5 DEF Formed
  <2> HIDE DEF p, o
  <2> QED  BY <1>4, <2>1, <2>2, RootItemWhole
<1>7. d.addr = kmallac(o.w.h, 1).addr /\ (d.addr = NULL => d.w.starved)
  BY DEF OpenDesc, kzalloc, Answered
<1>8. CASE d.addr = NULL
  <2>1. fds'[fd] = NoDesc
    BY <1>2, <1>3, <1>8
  <2> QED  BY <1>3, <1>7, <1>8, <2>1
<1>9. CASE d.addr # NULL
  <2>1. fds'[fd] = NewDesc(path)
    BY <1>2, <1>3, <1>9 DEF Formed
  <2>2. fds'[fd].item = o.item
    BY <2>1 DEF NewDesc
  <2> HIDE DEF p, o, d, fd
  <2> QED  BY <1>1, <1>3, <1>5, <1>6, <1>7, <1>9, <2>2
<1> QED  BY <1>8, <1>9

-----------------------------------------------------------------------------
(* A request of the rest of the kernel (kmallac).                          *)
LEMMA ElsewhereKeeps ==
    ASSUME Formed, NEW L, NEW E, Owned(L, E), NEW size \in SIZES, Elsewhere(size)
    PROVE  Formed' /\ \E M, F : Owned(M, F)'
<1> DEFINE r == kmallac(h, size)
           n == BlocksFor(size)
<1>0. PICK p : p = Piece(r.addr, n)
  OBVIOUS
<1>1. size \in Nat
  BY FileMemoryAssumption
<1>2. /\ p \cap L = {} /\ Sound(r.h, L \cup p)
      /\ r.addr \in Nat
  <2>1. L \cup {} = L
    OBVIOUS
  <2>2. \/ r.addr = NULL /\ Sound(r.h, L)
        \/ /\ r.addr \in Nat \ {NULL}
           /\ [addr |-> r.addr, blocks |-> n] \notin L
           /\ Sound(r.h, L \cup {[addr |-> r.addr, blocks |-> n]})
    BY <1>1, Request DEF Owned
  <2> HIDE DEF r, n
  <2> QED  BY <1>0, <2>1, <2>2 DEF Piece, NULL
<1>3. /\ h' = r.h
      /\ elsewhere' = IF r.addr = NULL THEN elsewhere ELSE elsewhere \cup Area(r.addr, n)
      /\ opened' = NoOpen
      /\ calls < MAX_CALLS /\ calls' = calls + 1
      /\ UNCHANGED <<img, mount, fds>>
  BY DEF Elsewhere
<1> HIDE DEF r, n
<1>4. /\ \A desc : DescAreas(desc)' = DescAreas(desc) /\ (DescShape(desc)' <=> DescShape(desc))
      /\ MountAreas' = MountAreas
  BY <1>3, SameDisk DEF MountAreas, Mounted
<1>5. NoOpen \in Answer
  BY DEF NoOpen, Answer
<1>6. Formed'
  <2>1. \A fd \in Fds : DescShape(fds[fd])'
    BY <1>3, <1>4 DEF Formed
  <2>2. calls' \in 0 .. MAX_CALLS
    BY <1>3, FileMemoryAssumption DEF Formed
  <2> QED  BY <1>3, <1>5, <2>1, <2>2 DEF Formed
<1>7. elsewhere' = Cover(E \cup p)
  <2>1. Cover(E \cup p) = Cover(E) \cup Cover(p)
    BY CoverOf
  <2>2. Cover(p) = IF r.addr = NULL THEN {} ELSE Area(r.addr, n)
    BY <1>0, CoverOf
  <2> QED  BY <1>3, <2>1, <2>2 DEF Owned
<1>8. Owned(L \cup p, E \cup p)'
  <2>1. \A fd \in Fds : DescAreas(fds[fd])' = DescAreas(fds[fd])
    BY <1>3, <1>4
  <2>2. E \cup p \subseteq L \cup p /\ MountAreas' \subseteq (L \cup p) \ (E \cup p)
    BY <1>2, <1>4 DEF Owned
  <2>3. \A fd \in Fds : DescAreas(fds[fd]) \subseteq (L \cup p) \ ((E \cup p) \cup MountAreas)
    BY <1>2 DEF Owned
  <2> QED  BY <1>2, <1>3, <1>4, <1>7, <2>1, <2>2, <2>3 DEF Owned
<1> QED  BY <1>6, <1>8

-----------------------------------------------------------------------------
(* While nothing was given back, the first b blocks are marked and the     *)
(* next request of a block gets block b.                                   *)
Packed(g, b) == g.map = 0 .. (b - 1) /\ g.free = SYSTEM_BLOCKS - b

Unit(b) == [addr |-> b, blocks |-> 1]

LEMMA NextFree ==
    ASSUME NEW g, NEW L, Sound(g, L), NEW b \in Nat \ {0}, b < SYSTEM_BLOCKS, Packed(g, b)
    PROVE  LET r == kmallac(g, 1)
           IN  /\ r.addr = b
               /\ Unit(b) \notin L
               /\ Sound(r.h, L \cup {Unit(b)})
               /\ Packed(r.h, b + 1)
<1> DEFINE r == kmallac(g, 1)
           f == pmm_get_first_free_block(g)
<1>1. g \in HeapType /\ BlocksFor(1) = 1
  BY KheapAssumption DEF Sound, BlocksFor
<1>2. r = pmm_allocate_block(g)
  BY KheapAssumption DEF kmallac
<1>3. f = b /\ g.free # 0
  <2>1. \/ f = -1 /\ 0 .. (SYSTEM_BLOCKS - 1) \subseteq g.map
        \/ f \in 0 .. (SYSTEM_BLOCKS - 1) /\ \A j \in 0 .. (f - 1) : j \in g.map
    BY <1>1, FreeBlockSearch
  <2>2. f = -1 \/ (f \in 0 .. (SYSTEM_BLOCKS - 1) /\ f \notin g.map)
    BY <1>1, FirstFreeBlock
  <2>3. b \in 0 .. (SYSTEM_BLOCKS - 1) /\ b \notin g.map
    BY PmmAssumption DEF Packed
  <2> HIDE DEF f
  <2> QED  BY <2>1, <2>2, <2>3, PmmAssumption DEF Packed
<1>4. /\ r.addr = b
      /\ r.h = [g EXCEPT !.map = @ \cup {b}, !.used = @ + 1, !.free = @ - 1]
  BY <1>2, <1>3 DEF pmm_allocate_block
<1>5. Packed(r.h, b + 1)
  <2>1. r.h.map = g.map \cup {b} /\ r.h.free = g.free - 1
    BY <1>1, <1>4 DEF HeapType
  <2>2. (0 .. (b - 1)) \cup {b} = 0 .. ((b + 1) - 1)
    OBVIOUS
  <2>3. SYSTEM_BLOCKS - b - 1 = SYSTEM_BLOCKS - (b + 1)
    BY PmmAssumption
  <2> QED  BY <2>1, <2>2, <2>3 DEF Packed
<1>6. Unit(b) \notin L /\ Sound(r.h, L \cup {Unit(b)})
  <2> HIDE DEF r
  <2>1. b # NULL
    BY DEF NULL
  <2> QED  BY <1>1, <1>4, <2>1, Request DEF r, Unit
<1> QED  BY <1>4, <1>5, <1>6

(* The mount comes first, and finds memory enough (disk_search_init).      *)
LEMMA MountKeeps ==
    ASSUME Formed, NEW L, NEW E, Owned(L, E), disk_search_init
    PROVE  Formed' /\ \E M, F : Owned(M, F)'
<1> DEFINE private       == kmallac(h, 1)
           cluster_read  == kmallac(private.h, 1)
           fat_read      == kmallac(cluster_read.h, 1)
           directory     == kmallac(fat_read.h, 1)
           head_streamer == kmallac(directory.h, 1)
           root          == kmallac(head_streamer.h, ROOT_BYTES)
           R             == RESERVED_BLOCKS
           S             == SYSTEM_BLOCKS
           n             == BlocksFor(ROOT_BYTES)
           L1            == {Unit(R)}
           L2            == L1 \cup {Unit(R + 1)}
           L3            == L2 \cup {Unit(R + 2)}
           L4            == L3 \cup {Unit(R + 3)}
           L5            == L4 \cup {Unit(R + 4)}
           a             == [addr |-> root.addr, blocks |-> n]
<1>1. /\ h = kheap_init
      /\ IF img.signed
         THEN /\ h' = kfree(root.h, head_streamer.addr)
              /\ mount' = [private |-> private.addr,
                           streams |-> {cluster_read.addr, fat_read.addr, directory.addr},
                           root    |-> root.addr]
         ELSE h' = head_streamer.h /\ UNCHANGED mount
      /\ UNCHANGED <<img, fds, elsewhere, opened, calls>>
  BY DEF disk_search_init
<1>2. /\ Sound(h, {}) /\ L = {} /\ E = {}
      /\ Packed(h, R)
  BY <1>1, FreshHeap DEF Owned, kheap_init, pmm_init, Reserved, Packed
<1>3. R \in Nat \ {0} /\ S \in Nat /\ n \in Nat \ {0} /\ 5 + n < S - R
  BY PmmAssumption, FileMemoryAssumption, BlocksForType
<1>4. private.addr = R /\ Sound(private.h, L1) /\ Packed(private.h, R + 1)
  <2>1. {} \cup {Unit(R)} = L1
    OBVIOUS
  <2> HIDE DEF L1
  <2> QED  BY <1>2, <1>3, <2>1, NextFree
<1> HIDE DEF private, L1
<1>5. cluster_read.addr = R + 1 /\ Sound(cluster_read.h, L2) /\ Packed(cluster_read.h, R + 2)
  <2>1. R + 1 \in Nat \ {0} /\ R + 1 < S /\ (R + 1) + 1 = R + 2
    BY <1>3
  <2> HIDE DEF R
  <2> QED  BY <1>4, <2>1, NextFree
<1> HIDE DEF cluster_read, L2
<1>6. fat_read.addr = R + 2 /\ Sound(fat_read.h, L3) /\ Packed(fat_read.h, R + 3)
  <2>1. R + 2 \in Nat \ {0} /\ R + 2 < S /\ (R + 2) + 1 = R + 3
    BY <1>3
  <2> HIDE DEF R
  <2> QED  BY <1>5, <2>1, NextFree
<1> HIDE DEF fat_read, L3
<1>7. directory.addr = R + 3 /\ Sound(directory.h, L4) /\ Packed(directory.h, R + 4)
  <2>1. R + 3 \in Nat \ {0} /\ R + 3 < S /\ (R + 3) + 1 = R + 4
    BY <1>3
  <2> HIDE DEF R
  <2> QED  BY <1>6, <2>1, NextFree
<1> HIDE DEF directory, L4
<1>8. head_streamer.addr = R + 4 /\ Sound(head_streamer.h, L5) /\ Packed(head_streamer.h, R + 5)
  <2>1. R + 4 \in Nat \ {0} /\ R + 4 < S /\ (R + 4) + 1 = R + 5
    BY <1>3
  <2> HIDE DEF R
  <2> QED  BY <1>7, <2>1, NextFree
<1> HIDE DEF head_streamer, L5
<1>9. root.addr # NULL
  <2>1. head_streamer.h \in HeapType /\ ROOT_BYTES \in Nat
    BY <1>8, FileMemoryAssumption DEF Sound
  <2>2. head_streamer.h.free # 0 /\ NULL \in head_streamer.h.map
    BY <1>3, <1>8 DEF Packed, NULL
  <2>3. R + 5 \in 0 .. (SYSTEM_BLOCKS - 1) /\ R + 5 \notin head_streamer.h.map
    BY <1>3, <1>8 DEF Packed
  <2>4. R + 5 \in 1 .. (SYSTEM_BLOCKS - n - 1) /\ \A i \in Area(R + 5, n) : i \notin head_streamer.h.map
    BY <1>3, <1>8 DEF Packed, Area
  <2> HIDE DEF root, n, R
  <2>5. /\ n = 1 /\ root.addr = NULL =>
             \/ head_streamer.h.free = 0
             \/ NULL \notin head_streamer.h.map
             \/ 0 .. (SYSTEM_BLOCKS - 1) \subseteq head_streamer.h.map
        /\ n # 1 /\ root.addr = NULL =>
             \A s \in 1 .. (SYSTEM_BLOCKS - n - 1) :
                \E i \in Area(s, n) : i \in head_streamer.h.map
    BY <2>1, KmallacRefusal DEF root, n
  <2> QED  BY <2>2, <2>3, <2>4, <2>5
<1>10. root.addr \in Nat \ {NULL} /\ a \notin L5 /\ Sound(root.h, L5 \cup {a})
  <2>1. ROOT_BYTES \in Nat
    BY FileMemoryAssumption
  <2> HIDE DEF root, n
  <2> QED  BY <1>8, <1>9, <2>1, Request DEF root, n
<1> HIDE DEF root
<1>11. /\ \A fd \in Fds : DescAreas(fds[fd])' = {}
       /\ elsewhere' = Cover({})
  <2>1. \A desc : DescAreas(desc)' = DescAreas(desc)
    BY <1>1, SameDisk
  <2>2. \A fd \in Fds : DescAreas(fds[fd]) = {}
    BY <1>2 DEF Owned
  <2> QED  BY <1>1, <1>2, <2>1, <2>2 DEF Owned
<1>12. /\ img' \in Images /\ opened' \in Answer' /\ calls' \in 0 .. MAX_CALLS
       /\ DOMAIN fds' = Fds /\ fds' = [fd \in Fds |-> fds'[fd]]
       /\ \A fd \in Fds : DescShape(fds[fd])'
  <2>1. \A desc : DescShape(desc)' <=> DescShape(desc)
    BY <1>1, SameDisk
  <2> QED  BY <1>1, <2>1 DEF Formed, Answer
<1>13. CASE img.signed
  <2>1. PICK M : M = (L5 \cup {a}) \ {Unit(R + 4)}
    OBVIOUS
  <2>2. Sound(h', M)
    <3>1. PICK X, u : X = L5 \cup {a} /\ u = Unit(R + 4)
      OBVIOUS
    <3>2. u \in X /\ u.addr = head_streamer.addr
      BY <1>8, <3>1 DEF L5, Unit
    <3>3. Sound(root.h, X) /\ M = X \ {u}
      BY <1>10, <2>1, <3>1
    <3>4. Sound(kfree(root.h, u.addr), X \ {u})
      BY <3>2, <3>3, ReleaseLive
    <3> QED  BY <1>1, <1>13, <3>2, <3>3, <3>4
  <2>3. /\ mount' \in [private : Nat \ {NULL}, streams : SUBSET (Nat \ {NULL}), root : Nat \ {NULL}]
        /\ mount' # NotMounted
    BY <1>1, <1>3, <1>4, <1>5, <1>6, <1>7, <1>10, <1>13 DEF NULL, NotMounted
  <2>4. MountAreas' \subseteq M
    <3>1. MountAreas' = Piece(private.addr, 1)
                          \cup {[addr |-> s, blocks |-> 1] :
                                  s \in {cluster_read.addr, fat_read.addr, directory.addr}}
                          \cup Piece(root.addr, n)
      BY <1>1, <1>13, <2>3 DEF MountAreas, Mounted
    <3>2. Piece(private.addr, 1) = {Unit(R)} /\ Piece(root.addr, n) = {a}
      BY <1>3, <1>4, <1>10 DEF Piece, Unit, NULL
    <3>3. {[addr |-> s, blocks |-> 1] : s \in {cluster_read.addr, fat_read.addr, directory.addr}}
            = {Unit(R + 1), Unit(R + 2), Unit(R + 3)}
      BY <1>5, <1>6, <1>7 DEF Unit
    <3>4. {Unit(R), Unit(R + 1), Unit(R + 2), Unit(R + 3), Unit(R + 4)} = L5
      BY DEF L5, L4, L3, L2, L1
    <3>5. Unit(R + 4) \notin {Unit(R), Unit(R + 1), Unit(R + 2), Unit(R + 3)}
      BY <1>3 DEF Unit
    <3>6. a # Unit(R + 4)
      BY <1>10, <3>4
    <3> HIDE DEF a, R
    <3> QED  BY <2>1, <3>1, <3>2, <3>3, <3>4, <3>5, <3>6
  <2>5. Owned(M, {})'
    BY <1>11, <2>2, <2>4 DEF Owned
  <2> QED  BY <1>12, <2>3, <2>5 DEF Formed
<1>14. CASE ~ img.signed
  <2>1. PICK M : M = L5
    OBVIOUS
  <2>2. Sound(h', M) /\ mount' = mount
    BY <1>1, <1>8, <1>14, <2>1
  <2>3. MountAreas' = {}
    <3>1. MountAreas = {}
      BY <1>2 DEF Owned
    <3> QED  BY <2>2, <3>1 DEF MountAreas, Mounted
  <2>4. Owned(M, {})'
    BY <1>11, <2>2, <2>3 DEF Owned
  <2> QED  BY <1>12, <2>2, <2>4 DEF Formed
<1> QED  BY <1>13, <1>14

-----------------------------------------------------------------------------
LEMMA InitInvariant == Init => IInv
<1> SUFFICES ASSUME Init PROVE IInv
  OBVIOUS
<1>1. /\ img \in Images /\ h = kheap_init /\ mount = NotMounted /\ elsewhere = {}
      /\ fds = [fd \in Fds |-> NoDesc] /\ opened = NoOpen /\ calls = 0
  BY DEF Init
<1>2. \A fd \in Fds : DescShape(fds[fd]) /\ DescAreas(fds[fd]) = {}
  BY <1>1, NoDescShape
<1>3. Formed
  BY <1>1, <1>2, FileMemoryAssumption DEF Formed, Answer, NoOpen
<1>4. Owned({}, {})
  BY <1>1, <1>2, FreshHeap, CoverOf DEF Owned, MountAreas, Mounted
<1>5. RootFileWhole
  BY <1>1 DEF RootFileWhole, NoOpen
<1> QED  BY <1>3, <1>4, <1>5 DEF IInv

LEMMA NextInvariant == IInv /\ [Next]_vars => IInv'
<1> SUFFICES ASSUME IInv, [Next]_vars PROVE IInv'
  OBVIOUS
<1>1. PICK L, E : Owned(L, E)
  BY DEF IInv
<1>2. Formed /\ RootFileWhole
  BY DEF IInv
<1>3. CASE disk_search_init
  <2>1. RootFileWhole'
    BY <1>2, <1>3 DEF disk_search_init, RootFileWhole, Names
  <2> QED  BY <1>1, <1>2, <1>3, <2>1, MountKeeps DEF IInv
<1>4. ASSUME NEW path \in Paths, NEW mode \in {"r", "w"}, fopen(path, mode)
      PROVE  IInv'
  <2>1. RootFileWhole'
    BY <1>1, <1>2, <1>4, FopenWhole DEF Owned
  <2> QED  BY <1>1, <1>2, <1>4, <2>1, FopenKeeps DEF IInv
<1>5. ASSUME NEW size \in SIZES, Elsewhere(size)
      PROVE  IInv'
  <2>1. RootFileWhole'
    BY <1>5 DEF Elsewhere, RootFileWhole, NoOpen
  <2> QED  BY <1>1, <1>2, <1>5, <2>1, ElsewhereKeeps DEF IInv
<1>6. CASE UNCHANGED vars
  <2>1. Formed'
    <3>1. \A fd \in Fds : DescShape(fds[fd])' <=> DescShape(fds[fd])
      BY <1>6, SameDisk DEF vars
    <3> QED  BY <1>2, <1>6, <3>1 DEF vars, Formed, Answer
  <2>2. Owned(L, E)'
    <3>1. /\ \A fd \in Fds : DescAreas(fds[fd])' = DescAreas(fds[fd])
          /\ MountAreas' = MountAreas
      BY <1>6, SameDisk DEF vars, MountAreas, Mounted
    <3>2. h' = h /\ elsewhere' = elsewhere
      BY <1>6 DEF vars
    <3> QED  BY <1>1, <3>1, <3>2 DEF Owned
  <2>3. RootFileWhole'
    BY <1>2, <1>6 DEF vars, RootFileWhole, Names
  <2> QED  BY <2>1, <2>2, <2>3 DEF IInv
<1> QED  BY <1>3, <1>4, <1>5, <1>6 DEF Next

LEMMA Invariant == Spec => []IInv
<1> QED  BY InitInvariant, NextInvariant, PTL DEF Spec

(* Whatever the disk holds and however little memory there is, every       *)
(* structure of mount and descriptors keeps its type, and the count of     *)
(* free blocks is never taken below zero (kmallac, kfree).                 *)
THEOREM TypeCorrect == Spec => []TypeOK
<1>1. IInv => TypeOK
  BY OwnedType DEF IInv
<1> QED  BY <1>1, Invariant, PTL

(* What a descriptor, the mounted disk and the rest of the kernel hold has *)
(* no block in common, and none of it is free for the next request, though *)
(* opens free on their way down and forget what they made (fopen,          *)
(* fat16_get_directory_entry, disk_search_init).                           *)
THEOREM MemoryNotShared == Spec => []NothingShared
<1>1. IInv => NothingShared
  BY OwnedShared DEF IInv
<1> QED  BY <1>1, Invariant, PTL

(* A descriptor returned for a file of the root directory is filled in     *)
(* completely or not stored at all, however little memory is left (fopen,  *)
(* fat16_new_fat_item_directory_item).                                     *)
THEOREM RootFilesWhole == Spec => []RootFileWhole
<1>1. IInv => RootFileWhole
  BY DEF IInv
<1> QED  BY <1>1, Invariant, PTL

-----------------------------------------------------------------------------
(***************************************************************************)
(* What an open keeps, to the block.  The areas of K are live and, if      *)
(* large, remembered by the table; c blocks are marked; e entries of the   *)
(* table, at least, are empty.  Nothing was refused.                       *)
(***************************************************************************)
Room(g) == {i \in Slots : g.big[i] = EmptyEntry}

Recorded(g, a) == a.blocks = 1 \/ \E i \in Slots : g.big[i] = a

(* The entries of the table that an area of n blocks takes.                *)
Entered(n) == IF n > 1 THEN 1 ELSE 0

Exact(w, K, c, e) ==
    /\ ~ w.starved
    /\ Cardinality(w.h.map) = c
    /\ Cardinality(Room(w.h)) >= e
    /\ \E L : Holds(w, L) /\ K \subseteq L /\ \A a \in K : Recorded(w.h, a)

LEMMA RoomFinite ==
    ASSUME NEW g
    PROVE  IsFiniteSet(Room(g)) /\ Cardinality(Room(g)) \in Nat
<1>1. IsFiniteSet(Slots)
  BY KheapAssumption, FS_Interval DEF Slots
<1>2. Room(g) \subseteq Slots
  BY DEF Room
<1> QED  BY <1>1, <1>2, FS_Subset, FS_CardinalityType

(* Nothing is refused before a request that is granted.                    *)
LEMMA Starving ==
    ASSUME NEW w, NEW size
    PROVE  LET r == kzalloc(w, size)
           IN  ~ r.w.starved <=> ~ w.starved /\ r.addr # NULL
BY DEF kzalloc, Answered

(* A granted request.                                                      *)
LEMMA TakenExact ==
    ASSUME NEW w, NEW K, NEW c \in Nat, NEW e \in Nat, Exact(w, K, c, e),
           NEW size \in Nat, BlocksFor(size) = 1 \/ e # 0, kzalloc(w, size).addr # NULL
    PROVE  LET r == kzalloc(w, size)
               n == BlocksFor(size)
               a == [addr |-> r.addr, blocks |-> n]
           IN  /\ r.addr \in Nat \ {NULL}
               /\ a \notin K
               /\ Exact(r.w, K \cup {a}, c + n, e - Entered(n))
<1> DEFINE g == w.h
           r == kmallac(g, size)
           k == r.h
           n == BlocksFor(size)
           a == [addr |-> r.addr, blocks |-> n]
           slot == search_address(g, NULL)
<1>1. PICK L : Holds(w, L) /\ K \subseteq L /\ \A b \in K : Recorded(g, b)
  BY DEF Exact
<1>2. /\ kzalloc(w, size).w.h = k
      /\ kzalloc(w, size).addr = r.addr
      /\ kzalloc(w, size).w.starved = (w.starved \/ r.addr = NULL)
      /\ r.addr # NULL
  BY DEF kzalloc, Answered
<1>3. Sound(g, L) /\ g \in HeapType /\ n \in Nat \ {0} /\ w \in Call
  BY <1>1, BlocksForType DEF Holds, Sound
<1>4. /\ r.addr \in Nat \ {NULL} /\ r.addr + n <= SYSTEM_BLOCKS
      /\ \A i \in Area(r.addr, n) : i \notin g.map
      /\ Granted(g, k, r.addr, n)
  <2>1. \/ r.addr = NULL
        \/ /\ r.addr \in 1 .. (SYSTEM_BLOCKS - n)
           /\ \A i \in Area(r.addr, n) : i \notin g.map
           /\ Granted(g, k, r.addr, n)
    BY <1>3, KmallacEffect
  <2> HIDE DEF r, n, k
  <2> QED  BY <1>2, <1>3, <2>1, PmmAssumption DEF NULL
<1> HIDE DEF r, n, k
<1>5. a \notin L /\ Sound(k, L \cup {a})
  BY <1>3, <1>4, Grant
<1>6. Cardinality(k.map) = c + n
  <2>1. IsFiniteSet(Area(r.addr, n)) /\ Cardinality(Area(r.addr, n)) = n
    BY <1>3, <1>4, AreaSize
  <2>2. IsFiniteSet(g.map) /\ g.map \cap Area(r.addr, n) = {} /\ k.map = g.map \cup Area(r.addr, n)
    BY <1>3, <1>4 DEF Sound, Counted, Granted
  <2>3. Cardinality(g.map \cup Area(r.addr, n)) = Cardinality(g.map) + Cardinality(Area(r.addr, n))
    BY <2>1, <2>2, MarkCount
  <2> QED  BY <2>1, <2>2, <2>3 DEF Exact
<1>7. /\ Cardinality(Room(k)) >= e - Entered(n)
      /\ \A b \in K \cup {a} : Recorded(k, b)
  <2>1. \A b \in K : b.addr # NULL
    BY <1>1 DEF Holds, Sound, Apart, Live
  <2>2. CASE n = 1
    <3>1. k.big = g.big
      BY <1>4, <2>2 DEF Granted
    <3>2. Room(k) = Room(g)
      BY <3>1 DEF Room
    <3> QED  BY <1>1, <2>2, <3>1, <3>2 DEF Exact, Recorded, Entered
  <2>3. CASE n # 1
    <3>1. slot # 0
      <4>1. PICK i : i \in Room(g)
        <5>1. Cardinality(Room(g)) # 0
          BY <2>3, RoomFinite DEF Exact, n
        <5> QED  BY <5>1, FS_EmptySet
      <4>2. i \in Slots /\ g.big[i].addr = NULL
        BY <4>1 DEF Room, EmptyEntry
      <4>3. NULL \in Nat
        BY DEF NULL
      <4>4. \/ slot = 0 /\ \A j \in Slots : g.big[j].addr # NULL
            \/ slot \in Slots /\ g.big[slot].addr = NULL
        BY <1>3, <4>3, SearchAddress
      <4> HIDE DEF slot
      <4>5. 0 \notin Slots
        BY DEF Slots
      <4> QED  BY <4>2, <4>4, <4>5
    <3>2. slot \in Slots /\ g.big[slot] = EmptyEntry
      <4>1. slot \in Slots /\ g.big[slot].addr = NULL
        BY <1>3, <3>1, SearchAddress DEF NULL
      <4> HIDE DEF slot
      <4> QED  BY <1>3, <4>1 DEF Sound, TableOf
    <3>3. k.big = [g.big EXCEPT ![slot] = a] /\ DOMAIN g.big = Slots
      BY <1>3, <1>4, <2>3, <3>1 DEF Granted, HeapType
    <3> HIDE DEF slot
    <3>4. k.big[slot] = a /\ \A i \in Slots : i # slot => k.big[i] = g.big[i]
      BY <3>2, <3>3
    <3>5. a # EmptyEntry
      BY <1>4 DEF EmptyEntry
    <3> HIDE DEF a
    <3>6. Room(k) = Room(g) \ {slot} /\ slot \in Room(g)
      BY <3>2, <3>4, <3>5 DEF Room
    <3>7. Cardinality(Room(k)) = Cardinality(Room(g)) - 1
      <4>1. PICK S : S = Room(g) /\ IsFiniteSet(S) /\ slot \in S
        BY <3>6, RoomFinite
      <4>2. Cardinality(S \ {slot}) = Cardinality(S) - 1
        BY <4>1, FS_RemoveElement
      <4> QED  BY <3>6, <4>1, <4>2
    <3>8. Recorded(k, a)
      BY <3>2, <3>4 DEF Recorded
    <3>9. \A b \in K : Recorded(k, b)
      <4> TAKE b \in K
      <4>1. Recorded(g, b) /\ b # EmptyEntry
        BY <1>1, <2>1 DEF EmptyEntry
      <4> QED  BY <3>2, <3>4, <4>1 DEF Recorded
    <3>10. Entered(n) = 1
      BY <1>3, <2>3 DEF Entered
    <3>11. Cardinality(Room(g)) >= e
      BY DEF Exact
    <3> QED  BY <3>7, <3>8, <3>9, <3>10, <3>11, RoomFinite
  <2> QED  BY <2>2, <2>3
<1> HIDE DEF a
<1>8. Holds(kzalloc(w, size).w, L \cup {a})
  <2>1. k \in HeapType
    BY <1>5 DEF Sound
  <2>2. kzalloc(w, size).w \in Call
    <3>1. kzalloc(w, size).w = [h |-> k, starved |-> w.starved \/ r.addr = NULL]
      BY DEF kzalloc, Answered, k, r
    <3> QED  BY <1>3, <2>1, <3>1 DEF Call
  <2> QED  BY <1>2, <1>5, <2>2 DEF Holds
<1>9. Exact(kzalloc(w, size).w, K \cup {a}, c + n, e - Entered(n))
  <2>1. PICK v : v = kzalloc(w, size).w
    OBVIOUS
  <2>2. ~ v.starved /\ v.h = k
    BY <1>2, <2>1 DEF Exact
  <2>3. Holds(v, L \cup {a}) /\ K \cup {a} \subseteq L \cup {a}
    BY <1>1, <1>8, <2>1
  <2> HIDE DEF k, g
  <2>4. /\ Cardinality(v.h.map) = c + n
        /\ Cardinality(Room(v.h)) >= e - Entered(n)
        /\ \A b \in K \cup {a} : Recorded(v.h, b)
    BY <1>6, <1>7, <2>2
  <2>5. Exact(v, K \cup {a}, c + n, e - Entered(n))
    BY <2>2, <2>3, <2>4 DEF Exact
  <2> QED  BY <2>1, <2>5
<1>10. a \notin K
  BY <1>1, <1>5
<1> QED  BY <1>2, <1>4, <1>9, <1>10 DEF a, n

(* The release of an area that is remembered gives back all of it.         *)
LEMMA DroppedExact ==
    ASSUME NEW w, NEW K, NEW c \in Nat, NEW e \in Nat, Exact(w, K, c, e), NEW a \in K
    PROVE  Exact(Release(w, a.addr), K \ {a}, c - a.blocks, e + Entered(a.blocks))
<1> DEFINE g == w.h
           k == kfree(g, a.addr)
           s == search_address(g, a.addr)
<1>1. PICK L : Holds(w, L) /\ K \subseteq L /\ \A b \in K : Recorded(g, b)
  BY DEF Exact
<1>2. Sound(g, L) /\ g \in HeapType /\ w \in Call /\ a \in L
  BY <1>1 DEF Holds, Sound
<1>3. a.addr \in Nat \ {NULL} /\ a.blocks \in Nat \ {0} /\ Area(a.addr, a.blocks) \subseteq g.map
  BY <1>2 DEF Sound, Apart, Live, At
<1>4. Sound(k, L \ {a})
  BY <1>2, ReleaseLive
<1>5. Release(w, a.addr) = [w EXCEPT !.h = k]
  BY DEF Release
<1>6. \/ /\ s \in Slots
         /\ g.big[s].addr = a.addr
         /\ Returned(g, k, a.addr, g.big[s].blocks)
         /\ k.big = [g.big EXCEPT ![s] = EmptyEntry]
      \/ /\ \A i \in Slots : g.big[i].addr # a.addr
         /\ Returned(g, k, a.addr, 1)
         /\ k.big = g.big
  BY <1>2, <1>3, KfreeEffect
<1> HIDE DEF k, s
<1>7. /\ Returned(g, k, a.addr, a.blocks)
      /\ Cardinality(Room(k)) >= e + Entered(a.blocks)
      /\ \A b \in K \ {a} : Recorded(k, b)
  <2>1. CASE /\ s \in Slots
             /\ g.big[s].addr = a.addr
             /\ Returned(g, k, a.addr, g.big[s].blocks)
             /\ k.big = [g.big EXCEPT ![s] = EmptyEntry]
    <3>1. g.big[s] \in L
      BY <1>2, <1>3, <2>1 DEF Sound, TableOf
    <3>2. g.big[s] = a
      BY <1>2, <2>1, <3>1, SameAddress DEF Sound
    <3>3. k.big[s] = EmptyEntry /\ \A i \in Slots : i # s => k.big[i] = g.big[i]
      BY <1>2, <2>1 DEF HeapType
    <3>4. a # EmptyEntry
      BY <1>3 DEF EmptyEntry
    <3>5. Room(g) = Room(k) \ {s} /\ s \in Room(k)
      BY <2>1, <3>2, <3>3, <3>4 DEF Room
    <3>6. Cardinality(Room(g)) = Cardinality(Room(k)) - 1
      <4>1. PICK S : S = Room(k) /\ IsFiniteSet(S) /\ s \in S
        BY <3>5, RoomFinite
      <4>2. Cardinality(S \ {s}) = Cardinality(S) - 1
        BY <4>1, FS_RemoveElement
      <4> QED  BY <3>5, <4>1, <4>2
    <3>7. Entered(a.blocks) \in {0, 1} /\ Cardinality(Room(g)) >= e
      BY DEF Entered, Exact
    <3>8. Cardinality(Room(k)) >= e + Entered(a.blocks)
      BY <3>6, <3>7, RoomFinite
    <3>9. \A b \in K \ {a} : Recorded(k, b)
      BY <1>1, <3>2, <3>3 DEF Recorded
    <3> QED  BY <2>1, <3>2, <3>8, <3>9
  <2>2. CASE /\ \A i \in Slots : g.big[i].addr # a.addr
             /\ Returned(g, k, a.addr, 1)
             /\ k.big = g.big
    <3>1. a.blocks = 1
      BY <1>1, <2>2 DEF Recorded
    <3>2. Room(k) = Room(g)
      BY <2>2 DEF Room
    <3> QED  BY <1>1, <2>2, <3>1, <3>2 DEF Exact, Recorded, Entered
  <2> QED  BY <1>6, <2>1, <2>2
<1>8. Cardinality(k.map) = c - a.blocks
  <2>1. IsFiniteSet(g.map) /\ k.map = g.map \ Area(a.addr, a.blocks)
    BY <1>2, <1>7 DEF Sound, Counted, Returned
  <2>2. Cardinality(Area(a.addr, a.blocks)) = a.blocks
    BY <1>3, AreaSize
  <2>3. Cardinality(g.map \ Area(a.addr, a.blocks)) = Cardinality(g.map) - Cardinality(Area(a.addr, a.blocks))
    BY <1>3, <2>1, ClearCount
  <2> QED  BY <2>1, <2>2, <2>3 DEF Exact
<1>9. Holds(Release(w, a.addr), L \ {a}) /\ Release(w, a.addr).h = k
      /\ ~ Release(w, a.addr).starved
  BY <1>2, <1>4, <1>5 DEF Holds, Call, Sound, Exact
<1>10. K \ {a} \subseteq L \ {a}
  BY <1>1
<1> QED  BY <1>7, <1>8, <1>9, <1>10 DEF Exact

(* Areas that nobody will give back need not be followed.                  *)
LEMMA ForgottenExact ==
    ASSUME NEW w, NEW K, NEW c, NEW e, Exact(w, K, c, e), NEW J \in SUBSET K, NEW d \in Nat,
           e \in Nat, d <= e
    PROVE  Exact(w, J, c, d)
<1>1. Cardinality(Room(w.h)) >= d
  BY RoomFinite DEF Exact
<1> QED  BY <1>1 DEF Exact

-----------------------------------------------------------------------------
(* A release leaves the rest of a call in progress as it was.              *)
InProgress(w) == w = [h |-> w.h, starved |-> w.starved]

LEMMA InProgressOnly ==
    /\ \A w : w \in Call => InProgress(w)
    /\ \A w, size : InProgress(kzalloc(w, size).w)
    /\ \A w, a : InProgress(w) => /\ InProgress(Release(w, a))
                                  /\ Release(w, a).starved = w.starved
<1>1. \A w : w \in Call => InProgress(w)
  BY DEF Call, InProgress
<1>2. \A w, size : InProgress(kzalloc(w, size).w)
  <2> TAKE w, size
  <2> DEFINE r == kmallac(w.h, size)
  <2>1. kzalloc(w, size).w = [h |-> r.h, starved |-> w.starved \/ r.addr = NULL]
    BY DEF kzalloc, Answered
  <2> HIDE DEF r
  <2> QED  BY <2>1 DEF InProgress
<1>3. ASSUME NEW w, NEW a, InProgress(w)
      PROVE  InProgress(Release(w, a)) /\ Release(w, a).starved = w.starved
  <2>1. PICK k : k = kfree(w.h, a)
    OBVIOUS
  <2>2. PICK g, s : w = [h |-> g, starved |-> s]
    BY <1>3 DEF InProgress
  <2>3. Release(w, a) = [w EXCEPT !.h = k]
    BY <2>1 DEF Release
  <2>4. Release(w, a) = [h |-> k, starved |-> s]
    BY <2>2, <2>3
  <2> QED  BY <2>2, <2>4 DEF InProgress
<1> QED  BY <1>1, <1>2, <1>3

(* A granted request of one block.                                         *)
Single(addr) == [addr |-> addr, blocks |-> 1]

LEMMA TakenOne ==
    ASSUME NEW w, NEW K, NEW c \in Nat, NEW e \in Nat, Exact(w, K, c, e), kzalloc(w, 1).addr # NULL
    PROVE  /\ kzalloc(w, 1).addr \in Nat \ {NULL}
           /\ Single(kzalloc(w, 1).addr) \notin K
           /\ Exact(kzalloc(w, 1).w, K \cup {Single(kzalloc(w, 1).addr)}, c + 1, e)
<1> DEFINE r == kzalloc(w, 1)
           n == BlocksFor(1)
           a == [addr |-> r.addr, blocks |-> n]
<1>1. n = 1 /\ Entered(n) = 0 /\ 1 \in Nat
  BY KheapAssumption DEF BlocksFor, Entered
<1>2. r.addr \in Nat \ {NULL} /\ a \notin K /\ Exact(r.w, K \cup {a}, c + n, e - Entered(n))
  BY <1>1, TakenExact
<1>3. a = Single(r.addr)
  BY <1>1 DEF Single
<1>4. e - Entered(n) = e
  BY <1>1
<1> HIDE DEF r, n, a
<1> QED  BY <1>1, <1>2, <1>3, <1>4 DEF r

(* A part of a path: two blocks for a name, and the one that keeps an      *)
(* empty one (get_path_part).                                              *)
LEMMA PartExact ==
    ASSUME NEW w, NEW K, NEW c \in Nat, NEW e \in Nat, ~ w.starved => Exact(w, K, c, e), NEW name,
           ~ pathparser_get_path_part(w, name).w.starved
    PROVE  LET r == pathparser_get_path_part(w, name)
           IN  /\ ~ w.starved
               /\ r.addr = NULL <=> name = Empty
               /\ Exact(r.w, K, c + (IF name = Empty THEN 1 ELSE 2), e)
<1> DEFINE part == kzalloc(w, 1)
           text == kzalloc(part.w, 1)
           a == Single(part.addr)
           b == Single(text.addr)
           r == pathparser_get_path_part(w, name)
<1>1. r = IF name = Empty THEN [w |-> Release(text.w, part.addr), addr |-> NULL]
          ELSE [w |-> text.w, addr |-> part.addr]
  BY DEF pathparser_get_path_part
<1>2. ~ text.w.starved
  BY <1>1, InProgressOnly
<1>3. ~ part.w.starved /\ text.addr # NULL
  BY <1>2, Starving
<1>4. ~ w.starved /\ part.addr # NULL
  BY <1>3, Starving
<1>5. BlocksFor(1) = 1 /\ Entered(1) = 0 /\ e - 0 = e
  BY KheapAssumption DEF BlocksFor, Entered
<1>6. Exact(part.w, K \cup {a}, c + 1, e) /\ a \notin K
  BY <1>4, TakenOne
<1> HIDE DEF part
<1>7. /\ Exact(text.w, (K \cup {a}) \cup {b}, (c + 1) + 1, e)
      /\ b \notin K \cup {a}
  <2>1. PICK J : J = K \cup {a}
    OBVIOUS
  <2>2. PICK d \in Nat : d = c + 1
    OBVIOUS
  <2> HIDE DEF a
  <2>3. Exact(part.w, J, d, e)
    BY <1>6, <2>1, <2>2
  <2>4. Exact(text.w, J \cup {b}, d + 1, e) /\ b \notin J
    BY <1>3, <2>3, TakenOne
  <2> HIDE DEF b, text
  <2> QED  BY <2>1, <2>2, <2>4
<1>8. (c + 1) + 1 = c + 2 /\ (c + 2) - 1 = c + 1 /\ e + 0 = e /\ c + 2 \in Nat
  OBVIOUS
<1> HIDE DEF text, r
<1>9. CASE name = Empty
  <2>1. a.addr = part.addr /\ a.blocks = 1
    BY DEF Single
  <2> HIDE DEF a, b
  <2>2. Exact(Release(text.w, part.addr), ((K \cup {a}) \cup {b}) \ {a}, c + 1, e)
    <3>1. a \in (K \cup {a}) \cup {b}
      OBVIOUS
    <3> QED  BY <1>5, <1>7, <1>8, <2>1, <3>1, DroppedExact
  <2>3. Exact(Release(text.w, part.addr), K, c + 1, e)
    <3>1. K \in SUBSET (((K \cup {a}) \cup {b}) \ {a})
      BY <1>6
    <3> QED  BY <2>2, <3>1, ForgottenExact
  <2> QED  BY <1>1, <1>4, <1>9, <2>3 DEF r
<1>10. CASE name # Empty
  <2>1. Exact(text.w, K, c + 2, e)
    <3>1. K \in SUBSET ((K \cup {a}) \cup {b})
      OBVIOUS
    <3> HIDE DEF a, b
    <3> QED  BY <1>7, <1>8, <3>1, ForgottenExact
  <2> QED  BY <1>1, <1>4, <1>10, <2>1 DEF r
<1> QED  BY <1>9, <1>10

(* The parser takes every name down to the first empty one, of which one   *)
(* block stays (pathparser_parse).                                         *)
LEMMA ParsedExact ==
    ASSUME NEW names \in NameLists, NEW w, NEW L, Holds(w, L),
           NEW K, NEW c \in Nat, NEW e \in Nat, ~ w.starved => Exact(w, K, c, e),
           ~ Pathparser_parse(w, names).w.starved
    PROVE  LET r == Pathparser_parse(w, names)
           IN  /\ ~ w.starved
               /\ \E k : /\ TakenFrom(r.parts, names, k)
                         /\ k < Len(names) => names[k + 1] = Empty
                         /\ Exact(r.w, K, c + 2 * k + 1, e)
<1> DEFINE n == Len(names) + 1
           all(i) == IF i <= Len(names) THEN names[i] ELSE Empty
           going(p, i) == /\ ~ p.ended
                          /\ TakenFrom(p.parts, names, i)
                          /\ Exact(p.w, K, c + 2 * i, e)
           over(p) == /\ p.ended
                      /\ \E k : /\ TakenFrom(p.parts, names, k)
                                /\ k < Len(names) => names[k + 1] = Empty
                                /\ Exact(p.w, K, c + 2 * k + 1, e)
           Good(p, i) == ~ p.w.starved => ~ w.starved /\ (going(p, i) \/ over(p))
<1>1. PICK f : /\ Parses(f, w, names)
               /\ Pathparser_parse(w, names) = f[n]
               /\ \A i \in 0 .. n : f[i] \in [w : Call, parts : NameLists, ended : BOOLEAN]
  BY ParseRuns
<1>2. Len(names) \in Nat /\ n \in Nat
  BY LenProperties DEF NameLists
<1> DEFINE P == {i \in 0 .. n : Good(f[i], i)}
<1>3. 0 \in P
  <2>1. f[0].w = w /\ f[0].parts = <<>> /\ ~ f[0].ended
    BY <1>1 DEF Parses, Parsed
  <2>2. SubSeq(names, 1, 0) = <<>>
    BY DEF NameLists
  <2>3. TakenFrom(<<>>, names, 0)
    BY <1>2, <2>2 DEF TakenFrom
  <2>4. c + 2 * 0 = c
    OBVIOUS
  <2>5. ~ w.starved => going(f[0], 0)
    BY <2>1, <2>3, <2>4
  <2> HIDE DEF going, over
  <2> QED  BY <1>2, <2>1, <2>5
<1>4. ASSUME NEW i \in 1 .. n, i - 1 \in P
      PROVE  i \in P
  <2> SUFFICES Good(f[i], i)
    <3>1. i \in 0 .. n
      BY <1>2
    <3> HIDE DEF Good
    <3> QED  BY <3>1
  <2> SUFFICES ASSUME ~ f[i].w.starved PROVE ~ w.starved /\ (going(f[i], i) \/ over(f[i]))
    OBVIOUS
  <2> DEFINE p == f[i - 1]
             name == all(i)
             part == pathparser_get_path_part(p.w, name)
  <2>1. f[i] = IF p.ended THEN p
               ELSE IF part.addr = NULL THEN [p EXCEPT !.w = part.w, !.ended = TRUE]
               ELSE [p EXCEPT !.w = part.w, !.parts = Append(@, name)]
    BY <1>1, <1>4 DEF Parses, ParseStep
  <2>2. p \in [w : Call, parts : NameLists, ended : BOOLEAN]
    <3>1. i - 1 \in 0 .. n
      BY <1>2, <1>4
    <3> QED  BY <1>1, <3>1
  <2>3. Good(p, i - 1)
    BY <1>4
  <2> HIDE DEF p
  <2>4. CASE p.ended
    <3>1. f[i] = p
      BY <2>1, <2>4
    <3> QED  BY <2>3, <2>4, <3>1
  <2>5. CASE ~ p.ended
    <3>1. f[i].w = part.w
      BY <2>1, <2>2, <2>5
    <3>2. PICK b \in Nat : b = c + 2 * (i - 1)
      BY <1>2, <1>4
    <3>3. ~ p.w.starved => Exact(p.w, K, b, e)
      BY <2>3, <2>5, <3>2
    <3>4. /\ ~ p.w.starved
          /\ part.addr = NULL <=> name = Empty
          /\ Exact(part.w, K, b + (IF name = Empty THEN 1 ELSE 2), e)
      <4>1. PICK v, x : v = p.w /\ x = name
        OBVIOUS
      <4>2. part = pathparser_get_path_part(v, x)
        BY <4>1
      <4>3. (~ v.starved => Exact(v, K, b, e)) /\ ~ pathparser_get_path_part(v, x).w.starved
        BY <3>1, <3>3, <4>1, <4>2
      <4>4. /\ ~ v.starved
            /\ pathparser_get_path_part(v, x).addr = NULL <=> x = Empty
            /\ Exact(pathparser_get_path_part(v, x).w, K, b + (IF x = Empty THEN 1 ELSE 2), e)
        BY <4>3, PartExact
      <4> HIDE DEF part, name
      <4> QED  BY <4>1, <4>2, <4>4
    <3>5. ~ w.starved /\ TakenFrom(p.parts, names, i - 1)
      BY <2>3, <2>5, <3>4
    <3> HIDE DEF part
    <3>6. CASE name = Empty
      <4>1. f[i].ended /\ f[i].parts = p.parts
        BY <2>1, <2>2, <2>5, <3>4, <3>6
      <4>2. b + 1 = c + 2 * (i - 1) + 1
        BY <3>2
      <4>3. i - 1 < Len(names) => names[(i - 1) + 1] = Empty
        <5> SUFFICES ASSUME i - 1 < Len(names) PROVE names[(i - 1) + 1] = Empty
          OBVIOUS
        <5>1. (i - 1) + 1 = i /\ i <= Len(names)
          BY <1>2
        <5> QED  BY <3>6, <5>1
      <4>4. Exact(f[i].w, K, c + 2 * (i - 1) + 1, e)
        BY <3>1, <3>4, <3>6, <4>2
      <4>5. over(f[i])
        BY <3>5, <4>1, <4>3, <4>4
      <4> QED  BY <3>5, <4>5
    <3>7. CASE name # Empty
      <4>1. ~ f[i].ended /\ f[i].parts = Append(p.parts, name)
        BY <2>1, <2>2, <2>5, <3>4, <3>7
      <4>2. i \in 1 .. Len(names) /\ name = names[i]
        BY <1>2, <3>7
      <4>3. Append(SubSeq(names, 1, i - 1), names[i]) = SubSeq(names, 1, i)
        BY <1>2, <4>2 DEF NameLists
      <4>4. TakenFrom(f[i].parts, names, i)
        <5>1. f[i].parts = SubSeq(names, 1, i)
          BY <3>5, <4>1, <4>2, <4>3 DEF TakenFrom
        <5>2. \A j \in 1 .. i : names[j] # Empty
          BY <1>2, <3>5, <3>7, <4>2 DEF TakenFrom
        <5> QED  BY <1>2, <4>2, <5>1, <5>2 DEF TakenFrom
      <4>5. b + 2 = c + 2 * i
        BY <1>2, <3>2
      <4>6. Exact(f[i].w, K, c + 2 * i, e)
        BY <3>1, <3>4, <3>7, <4>5
      <4> QED  BY <3>5, <4>1, <4>4, <4>6
    <3> QED  BY <3>6, <3>7
  <2> QED  BY <2>4, <2>5
<1>5. n \in P
  <2> HIDE DEF P, n
  <2>1. \A i \in 0 .. n : i \in P
    BY <1>2, <1>3, <1>4, LoopInduction
  <2> QED  BY <1>2, <2>1
<1>6. ~ going(f[n], n)
  <2>1. ~ TakenFrom(f[n].parts, names, n)
    BY <1>2 DEF TakenFrom
  <2> QED  BY <2>1
<1> HIDE DEF going
<1> QED  BY <1>1, <1>5, <1>6

(* These are the path's names.                                             *)
LEMMA NamesExact ==
    ASSUME NEW path \in Paths, NEW parts, NEW k, TakenFrom(parts, path.parts, k),
           k < Len(path.parts) => path.parts[k + 1] = Empty
    PROVE  parts = Names(path) /\ Len(Names(path)) = k /\ Names(path) \in NameLists
<1> DEFINE full == {i \in DOMAIN path.parts : \A j \in 1 .. i : path.parts[j] # Empty}
           n == Len(path.parts)
<1>1. path.parts \in NameLists
  BY FileMemoryAssumption DEF NameLists
<1>2. n \in Nat /\ DOMAIN path.parts = 1 .. n
  BY <1>1, LenProperties DEF NameLists
<1>3. k \in 0 .. n /\ parts = SubSeq(path.parts, 1, k) /\ \A j \in 1 .. k : path.parts[j] # Empty
  BY DEF TakenFrom
<1>4. full = 1 .. k
  <2>1. 1 .. k \subseteq full
    BY <1>2, <1>3
  <2>2. \A i \in full : i \in 1 .. k
    <3> SUFFICES ASSUME NEW i \in full, i \notin 1 .. k PROVE FALSE
      OBVIOUS
    <3>1. i \in 1 .. n /\ \A j \in 1 .. i : path.parts[j] # Empty
      BY <1>2
    <3>2. k + 1 \in 1 .. i /\ k < n
      BY <1>2, <1>3, <3>1
    <3> QED  BY <3>1, <3>2
  <2> QED  BY <2>1, <2>2
<1>5. Cardinality(full) = k
  <2>1. Cardinality(1 .. k) = k
    BY <1>2, <1>3, FS_Interval
  <2> QED  BY <1>4, <2>1
<1>6. Names(path) = parts
  BY <1>3, <1>5 DEF Names
<1>7. parts \in NameLists /\ Len(parts) = k
  BY <1>1, <1>3, FirstParts
<1> QED  BY <1>6, <1>7

-----------------------------------------------------------------------------
(* What is made for an entry: its structure and a copy of it, or the       *)
(* directory it stands for, of which nothing stays if it cannot be read.   *)
IsFile(of) == of.kind = "file"

IsBad(of) == of.kind = "directory" /\ of.first \in img.bad

IsGood(of) == of.kind = "directory" /\ of.first \notin img.bad

ItemsArea(of, addr) == [addr |-> addr, blocks |-> BlocksFor(EntryBytes(of))]

Cost(of) == IF IsFile(of) THEN 2 ELSE IF IsBad(of) THEN 1 ELSE 2 + BlocksFor(EntryBytes(of))

EnteredBy(of) == IF IsGood(of) THEN Entered(BlocksFor(EntryBytes(of))) ELSE 0

(* The areas of an item to which no request was refused.                   *)
WholeFile(item, a, b) ==
    /\ IsFile(item.of)
    /\ a = Single(item.addr) /\ b = Single(item.entry) /\ a # b
    /\ item.addr # NULL /\ item.entry # NULL
    /\ item.directory = NULL /\ item.items = NULL

WholeBad(item, a) ==
    /\ IsBad(item.of)
    /\ a = Single(item.addr)
    /\ item.addr # NULL
    /\ item.entry = NULL /\ item.directory = NULL /\ item.items = NULL

WholeGood(item, a, b, d) ==
    /\ IsGood(item.of)
    /\ a = Single(item.addr) /\ b = Single(item.directory) /\ d = ItemsArea(item.of, item.items)
    /\ a # b /\ a # d /\ b # d
    /\ item.addr # NULL /\ item.directory # NULL /\ item.items # NULL
    /\ item.entry = NULL

Whole(item) == \/ \E a, b : WholeFile(item, a, b)
               \/ \E a : WholeBad(item, a)
               \/ \E a, b, d : WholeGood(item, a, b, d)

LEMMA WholeAreas ==
    ASSUME NEW item
    PROVE  /\ \A a, b : WholeFile(item, a, b) => ItemAreas(item) = {a} \cup {b}
           /\ \A a : WholeBad(item, a) => ItemAreas(item) = {a}
           /\ \A a, b, d : WholeGood(item, a, b, d) => ItemAreas(item) = ({a} \cup {b}) \cup {d}
<1> DEFINE n == BlocksFor(EntryBytes(item.of))
           pa == Piece(item.addr, 1)
           pe == Piece(item.entry, 1)
           pd == Piece(item.directory, 1)
           pi == Piece(item.items, n)
<1>1. ItemAreas(item) = pa \cup pe \cup pd \cup pi
  BY DEF ItemAreas
<1>2. /\ item.addr # NULL => pa = {Single(item.addr)}
      /\ item.entry # NULL => pe = {Single(item.entry)}
      /\ item.entry = NULL => pe = {}
      /\ item.directory # NULL => pd = {Single(item.directory)}
      /\ item.directory = NULL => pd = {}
      /\ item.items # NULL => pi = {ItemsArea(item.of, item.items)}
      /\ item.items = NULL => pi = {}
  BY DEF Piece, Single, ItemsArea
<1> HIDE DEF pa, pe, pd, pi
<1> QED  BY <1>1, <1>2 DEF WholeFile, WholeBad, WholeGood

LEMMA EntryBlocks ==
    ASSUME img \in Images, NEW of \in ItemsOn(img), of.kind = "directory"
    PROVE  /\ EntryBytes(of) \in Nat
           /\ BlocksFor(EntryBytes(of)) \in Nat \ {0}
           /\ Entered(BlocksFor(EntryBytes(of))) \in {0, 1}
<1>1. EntryBytes(of) \in Nat
  BY LeadsToDirectory, ItemsCounted, FileMemoryAssumption DEF EntryBytes
<1>2. BlocksFor(EntryBytes(of)) \in Nat \ {0}
  BY <1>1, BlocksForType
<1> QED  BY <1>1, <1>2 DEF Entered

(* A directory is loaded whole, or cannot be read and leaves nothing       *)
(* behind (fat16_load_directory, fat16_free_directory).                    *)
LEMMA DirectoryExact ==
    ASSUME img \in Images, NEW of \in ItemsOn(img), of.kind = "directory",
           NEW w, NEW K, NEW c \in Nat, NEW e \in Nat, ~ w.starved => Exact(w, K, c, e), e # 0,
           ~ fat16_load_directory(w, of).w.starved
    PROVE  LET r == fat16_load_directory(w, of)
               n == BlocksFor(EntryBytes(of))
           IN  /\ ~ w.starved
               /\ IsBad(of) => /\ r.directory = NULL /\ r.items = NULL
                               /\ Exact(r.w, K, c, e)
               /\ IsGood(of) =>
                     \E b, d : /\ b = Single(r.directory) /\ d = ItemsArea(of, r.items)
                               /\ r.directory # NULL /\ r.items # NULL
                               /\ b \notin K /\ d \notin K /\ b # d
                               /\ Exact(r.w, (K \cup {b}) \cup {d}, (c + 1) + n, e - Entered(n))
<1> DEFINE directory == kzalloc(w, 1)
           items == kzalloc(directory.w, EntryBytes(of))
           n == BlocksFor(EntryBytes(of))
           r == fat16_load_directory(w, of)
           freed == Release(Release(items.w, items.addr), directory.addr)
<1>1. r = IF directory.addr = NULL THEN [w |-> directory.w, directory |-> NULL, items |-> NULL]
          ELSE IF items.addr = NULL THEN [w |-> items.w, directory |-> NULL, items |-> NULL]
          ELSE IF of.first \in img.bad
          THEN [w |-> fat16_free_directory(items.w, directory.addr, items.addr),
                directory |-> NULL, items |-> NULL]
          ELSE [w |-> items.w, directory |-> directory.addr, items |-> items.addr]
  BY DEF fat16_load_directory, EntryBytes
<1>2. directory.addr = NULL => directory.w.starved
  BY Starving
<1>3. directory.addr # NULL => fat16_free_directory(items.w, directory.addr, items.addr) = freed
  BY DEF fat16_free_directory
<1>4. freed.starved = items.w.starved
  <2> HIDE DEF directory
  <2>1. InProgress(items.w)
    BY InProgressOnly
  <2> HIDE DEF items
  <2> QED  BY <2>1, InProgressOnly
<1>5. ~ r.w.starved
  OBVIOUS
<1> HIDE DEF r, freed
<1>6. directory.addr # NULL /\ ~ items.w.starved
  <2> HIDE DEF directory, items
  <2> QED  BY <1>1, <1>2, <1>3, <1>4, <1>5
<1>7. ~ directory.w.starved /\ items.addr # NULL
  <2> HIDE DEF directory
  <2> QED  BY <1>6, Starving
<1>8. ~ w.starved
  BY <1>7, Starving
<1>9. PICK b : b = Single(directory.addr)
  OBVIOUS
<1>10. PICK J : J = K \cup {b}
  OBVIOUS
<1>11. PICK m \in Nat : m = c + 1
  OBVIOUS
<1>12. Exact(directory.w, J, m, e) /\ b \notin K
  BY <1>6, <1>8, <1>9, <1>10, <1>11, TakenOne
<1>13. /\ EntryBytes(of) \in Nat /\ n \in Nat \ {0} /\ Entered(n) \in {0, 1}
  BY EntryBlocks
<1>14. PICK d : d = ItemsArea(of, items.addr)
  OBVIOUS
<1> HIDE DEF directory
<1>15. Exact(items.w, J \cup {d}, m + n, e - Entered(n)) /\ d \notin J
  BY <1>7, <1>12, <1>13, <1>14, TakenExact DEF ItemsArea
<1>16. b.addr = directory.addr /\ b.blocks = 1 /\ d.addr = items.addr /\ d.blocks = n
  BY <1>9, <1>14 DEF Single, ItemsArea
<1>17. m + n \in Nat /\ e - Entered(n) \in Nat
  BY <1>13
<1> HIDE DEF items, n
<1>18. CASE IsBad(of)
  <2>1. r = [w |-> freed, directory |-> NULL, items |-> NULL]
    BY <1>1, <1>3, <1>6, <1>7, <1>18 DEF IsBad
  <2>2. PICK M, k, l, v : /\ M = J \cup {d} /\ k = m + n /\ l = e - Entered(n)
                          /\ v = Release(items.w, items.addr)
    OBVIOUS
  <2>3. Exact(v, M \ {d}, k - d.blocks, l + Entered(d.blocks))
    <3>1. d \in M /\ k \in Nat /\ l \in Nat
      BY <1>17, <2>2
    <3>2. Exact(items.w, M, k, l)
      BY <1>15, <2>2
    <3> QED  BY <1>16, <2>2, <3>1, <3>2, DroppedExact
  <2>4. M \ {d} = J /\ k - d.blocks = m /\ l + Entered(d.blocks) = e
    BY <1>13, <1>15, <1>16, <2>2
  <2>5. Exact(v, J, m, e)
    BY <2>3, <2>4
  <2>6. Exact(freed, J \ {b}, m - b.blocks, e + Entered(b.blocks))
    <3>1. b \in J
      BY <1>10
    <3> QED  BY <1>16, <2>2, <2>5, <3>1, DroppedExact DEF freed
  <2>7. J \ {b} = K /\ m - b.blocks = c /\ e + Entered(b.blocks) = e
    BY <1>10, <1>11, <1>12, <1>16 DEF Entered
  <2>8. Exact(freed, K, c, e)
    BY <2>6, <2>7
  <2> QED  BY <1>8, <1>18, <2>1, <2>8 DEF r, IsBad, IsGood
<1>19. CASE IsGood(of)
  <2>1. r = [w |-> items.w, directory |-> directory.addr, items |-> items.addr]
    BY <1>1, <1>6, <1>7, <1>19 DEF IsGood
  <2>2. b \notin K /\ d \notin K /\ b # d
    BY <1>10, <1>12, <1>15
  <2>3. Exact(items.w, (K \cup {b}) \cup {d}, (c + 1) + n, e - Entered(n))
    BY <1>10, <1>11, <1>15
  <2>4. \E x, y : /\ x = Single(r.directory) /\ y = ItemsArea(of, r.items)
                  /\ r.directory # NULL /\ r.items # NULL
                  /\ x \notin K /\ y \notin K /\ x # y
                  /\ Exact(r.w, (K \cup {x}) \cup {y}, (c + 1) + n, e - Entered(n))
    BY <1>6, <1>7, <1>9, <1>14, <2>1, <2>2, <2>3
  <2> QED  BY <1>8, <1>19, <2>4 DEF r, n, IsBad, IsGood
<1> QED  BY <1>18, <1>19 DEF IsBad, IsGood

(* An item is made whole, or a request was refused                         *)
(* (fat16_new_fat_item_directory_item).                                    *)
LEMMA ItemExact ==
    ASSUME img \in Images, NEW of \in ItemsOn(img), of.kind \in {"file", "directory"}, NEW from,
           NEW w, NEW K, NEW c \in Nat, NEW e \in Nat, ~ w.starved => Exact(w, K, c, e), e # 0,
           ~ fat16_new_fat_item(w, of, from).w.starved
    PROVE  LET r == fat16_new_fat_item(w, of, from)
           IN  /\ ~ w.starved
               /\ r.item.of = of
               /\ r.item # NullItem
               /\ Whole(r.item)
               /\ ItemAreas(r.item) \cap K = {}
               /\ Exact(r.w, K \cup ItemAreas(r.item), c + Cost(of), e - EnteredBy(of))
<1> DEFINE item == kzalloc(w, 1)
           r == fat16_new_fat_item(w, of, from)
           loaded == fat16_load_directory(item.w, of)
           clone == kzalloc(item.w, 1)
           n == BlocksFor(EntryBytes(of))
<1>1. r = IF item.addr = NULL THEN [w |-> item.w, item |-> NullItem]
          ELSE IF of.kind = "directory"
          THEN [w |-> loaded.w,
                item |-> [NullItem EXCEPT !.addr = item.addr, !.of = of,
                                          !.directory = loaded.directory, !.items = loaded.items]]
          ELSE [w |-> clone.w,
                item |-> [NullItem EXCEPT !.addr = item.addr, !.of = of, !.entry = clone.addr]]
  BY DEF fat16_new_fat_item, fat16_clone_directory_item
<1>2. item.addr = NULL => item.w.starved
  BY Starving
<1>3. ~ r.w.starved
  OBVIOUS
<1>4. item.addr # NULL
  <2> HIDE DEF item, loaded, clone, r
  <2> QED  BY <1>1, <1>2, <1>3
<1>5. ~ item.w.starved => ~ w.starved /\ Exact(item.w, K \cup {Single(item.addr)}, c + 1, e)
                                    /\ Single(item.addr) \notin K
  <2> SUFFICES ASSUME ~ item.w.starved
               PROVE  /\ ~ w.starved /\ Exact(item.w, K \cup {Single(item.addr)}, c + 1, e)
                      /\ Single(item.addr) \notin K
    OBVIOUS
  <2>1. ~ w.starved
    BY Starving
  <2>2. Exact(w, K, c, e)
    BY <2>1
  <2> QED  BY <1>4, <2>1, <2>2, TakenOne
<1>6. PICK a : a = Single(item.addr)
  OBVIOUS
<1>7. PICK J : J = K \cup {a}
  OBVIOUS
<1>8. PICK m \in Nat : m = c + 1
  OBVIOUS
<1>9. ~ item.w.starved => ~ w.starved /\ Exact(item.w, J, m, e) /\ a \notin K
  <2> HIDE DEF item
  <2> QED  BY <1>5, <1>6, <1>7, <1>8
<1> HIDE DEF r, item
<1>10. CASE of.kind = "file"
  <2>1. r = [w |-> clone.w,
             item |-> [addr |-> item.addr, entry |-> clone.addr, directory |-> NULL,
                       items |-> NULL, of |-> of]]
    BY <1>1, <1>4, <1>10 DEF NullItem
  <2>2. ~ clone.w.starved
    BY <1>3, <2>1
  <2>3. ~ item.w.starved /\ clone.addr # NULL
    BY <2>2, Starving
  <2>4. PICK b : b = Single(clone.addr)
    OBVIOUS
  <2>5. Exact(item.w, J, m, e)
    BY <1>9, <2>3
  <2>6. Exact(clone.w, J \cup {b}, m + 1, e) /\ b \notin J
    BY <2>3, <2>4, <2>5, TakenOne
  <2> HIDE DEF clone
  <2>7. r.w = clone.w /\ r.item = [addr |-> item.addr, entry |-> clone.addr, directory |-> NULL,
                                   items |-> NULL, of |-> of]
    BY <2>1
  <2>8. r.item.of = of /\ r.item.addr = item.addr
    BY <2>7
  <2>9. WholeFile(r.item, a, b)
    BY <1>4, <1>6, <1>7, <1>10, <2>3, <2>4, <2>6, <2>7 DEF WholeFile, IsFile
  <2>10. ItemAreas(r.item) = {a} \cup {b}
    BY <2>9, WholeAreas
  <2>11. ItemAreas(r.item) \cap K = {} /\ K \cup ItemAreas(r.item) = J \cup {b}
    BY <1>7, <1>9, <2>3, <2>6, <2>10
  <2>12. m + 1 = c + Cost(of) /\ e - EnteredBy(of) = e
    BY <1>8, <1>10 DEF Cost, EnteredBy, IsFile, IsGood
  <2>13. r.item # NullItem
    BY <1>4, <2>8 DEF NullItem
  <2> QED  BY <1>9, <2>3, <2>6, <2>7, <2>8, <2>9, <2>11, <2>12, <2>13 DEF r, Whole
<1>11. CASE of.kind = "directory"
  <2>1. r = [w |-> loaded.w,
             item |-> [addr |-> item.addr, entry |-> NULL, directory |-> loaded.directory,
                       items |-> loaded.items, of |-> of]]
    BY <1>1, <1>4, <1>11 DEF NullItem
  <2>2. ~ loaded.w.starved
    BY <1>3, <2>1
  <2>3. ~ item.w.starved => Exact(item.w, J, m, e)
    BY <1>9
  <2>4. /\ ~ item.w.starved
        /\ IsBad(of) => /\ loaded.directory = NULL /\ loaded.items = NULL
                        /\ Exact(loaded.w, J, m, e)
        /\ IsGood(of) =>
              \E b, d : /\ b = Single(loaded.directory) /\ d = ItemsArea(of, loaded.items)
                        /\ loaded.directory # NULL /\ loaded.items # NULL
                        /\ b \notin J /\ d \notin J /\ b # d
                        /\ Exact(loaded.w, (J \cup {b}) \cup {d}, (m + 1) + n, e - Entered(n))
    BY <1>11, <2>2, <2>3, DirectoryExact
  <2> HIDE DEF loaded
  <2>5. r.w = loaded.w /\ r.item = [addr |-> item.addr, entry |-> NULL, directory |-> loaded.directory,
                                    items |-> loaded.items, of |-> of]
    BY <2>1
  <2>6. r.item.of = of /\ r.item.addr = item.addr
    BY <2>5
  <2>7. r.item # NullItem
    BY <1>4, <2>6 DEF NullItem
  <2>8. n \in Nat \ {0} /\ Entered(n) \in {0, 1}
    BY <1>11, EntryBlocks
  <2>9. CASE IsBad(of)
    <3>1. WholeBad(r.item, a)
      BY <1>4, <1>6, <2>4, <2>5, <2>9 DEF WholeBad
    <3>2. ItemAreas(r.item) = {a}
      BY <3>1, WholeAreas
    <3>3. ItemAreas(r.item) \cap K = {} /\ K \cup ItemAreas(r.item) = J
      BY <1>7, <1>9, <2>4, <3>2
    <3>4. m = c + Cost(of) /\ e - EnteredBy(of) = e
      BY <1>8, <1>11, <2>9 DEF Cost, EnteredBy, IsFile, IsGood, IsBad
    <3> QED  BY <1>9, <2>4, <2>5, <2>6, <2>7, <2>9, <3>1, <3>3, <3>4 DEF r, Whole
  <2>10. CASE IsGood(of)
    <3>1. PICK b, d : /\ b = Single(loaded.directory) /\ d = ItemsArea(of, loaded.items)
                      /\ loaded.directory # NULL /\ loaded.items # NULL
                      /\ b \notin J /\ d \notin J /\ b # d
                      /\ Exact(loaded.w, (J \cup {b}) \cup {d}, (m + 1) + n, e - Entered(n))
      BY <2>4, <2>10
    <3>2. WholeGood(r.item, a, b, d)
      BY <1>4, <1>6, <1>7, <2>5, <2>10, <3>1 DEF WholeGood
    <3>3. ItemAreas(r.item) = ({a} \cup {b}) \cup {d}
      BY <3>2, WholeAreas
    <3>4. ItemAreas(r.item) \cap K = {} /\ K \cup ItemAreas(r.item) = (J \cup {b}) \cup {d}
      BY <1>7, <1>9, <2>4, <3>1, <3>3
    <3>5. (m + 1) + n = c + Cost(of) /\ e - EnteredBy(of) = e - Entered(n)
      BY <1>8, <1>11, <2>8, <2>10 DEF Cost, EnteredBy, IsFile, IsGood, IsBad
    <3> QED  BY <1>9, <2>4, <2>5, <2>6, <2>7, <3>1, <3>2, <3>4, <3>5 DEF r, Whole
  <2> QED  BY <1>11, <2>9, <2>10 DEF IsGood, IsBad
<1> QED  BY <1>10, <1>11

(* A whole item is given back whole (fat16_fat_item_free).                 *)
LEMMA ItemFreedExact ==
    ASSUME NEW w, NEW K, NEW c \in Nat, NEW e \in Nat, Exact(w, K, c, e),
           NEW item, Whole(item), ItemAreas(item) \subseteq K,
           IsGood(item.of) => BlocksFor(EntryBytes(item.of)) \in Nat \ {0}
    PROVE  Exact(fat16_fat_item_free(w, item), K \ ItemAreas(item), c - Cost(item.of), e + EnteredBy(item.of))
<1> DEFINE r == fat16_fat_item_free(w, item)
           n == BlocksFor(EntryBytes(item.of))
<1>1. Entered(1) = 0 /\ e + 0 = e /\ \A m : Entered(m) \in Nat
  BY DEF Entered
<1>2. ASSUME NEW v, NEW J, NEW m \in Nat, NEW l \in Nat, Exact(v, J, m, l), NEW addr, Single(addr) \in J
      PROVE  Exact(Release(v, addr), J \ {Single(addr)}, m - 1, l)
  <2>1. Single(addr).addr = addr /\ Single(addr).blocks = 1
    BY DEF Single
  <2>2. l + Entered(1) = l
    BY <1>1
  <2>3. PICK a : a = Single(addr)
    OBVIOUS
  <2>4. Exact(Release(v, a.addr), J \ {a}, m - a.blocks, l + Entered(a.blocks))
    BY <1>2, <2>3, DroppedExact
  <2> QED  BY <2>1, <2>2, <2>3, <2>4
<1>3. ASSUME NEW v, NEW J, NEW m, NEW l, Exact(v, J, m, l), NEW a \in J
      PROVE  m - a.blocks \in Nat
  <2>1. PICK L : Holds(v, L) /\ J \subseteq L
    BY <1>3 DEF Exact
  <2>2. a \in Live /\ At(a) \subseteq v.h.map /\ IsFiniteSet(v.h.map)
    BY <1>3, <2>1 DEF Holds, Sound, Apart, Counted
  <2>3. Cardinality(At(a)) = a.blocks /\ a.blocks \in Nat
    BY <2>2, AreaSize DEF At, Live
  <2>4. Cardinality(At(a)) <= Cardinality(v.h.map) /\ Cardinality(v.h.map) \in Nat
    BY <2>2, FS_Subset, FS_CardinalityType
  <2>5. Cardinality(v.h.map) = m
    BY <1>3 DEF Exact
  <2> QED  BY <2>3, <2>4, <2>5
<1>4. \A addr : Single(addr).blocks = 1
  BY DEF Single
<1>5. ASSUME NEW a, NEW b, WholeFile(item, a, b)
      PROVE  Exact(r, K \ ItemAreas(item), c - Cost(item.of), e + EnteredBy(item.of))
  <2>1. ItemAreas(item) = {a} \cup {b} /\ a \in K /\ b \in K /\ a # b
    BY <1>5, WholeAreas DEF WholeFile
  <2>2. a = Single(item.addr) /\ b = Single(item.entry)
    BY <1>5 DEF WholeFile
  <2>3. PICK v : v = Release(w, item.entry)
    OBVIOUS
  <2>4. r = Release(v, item.addr)
    BY <1>5, <2>3 DEF fat16_fat_item_free, WholeFile, IsFile
  <2> HIDE DEF r
  <2>5. Exact(v, K \ {b}, c - 1, e) /\ c - 1 \in Nat
    <3>1. c - b.blocks \in Nat
      BY <1>3, <2>1
    <3> QED  BY <1>2, <1>4, <2>1, <2>2, <2>3, <3>1
  <2>6. PICK J : J = K \ {b}
    OBVIOUS
  <2>7. a \in J
    BY <2>1, <2>6
  <2>8. Exact(r, J \ {a}, (c - 1) - 1, e)
    BY <1>2, <2>2, <2>4, <2>5, <2>6, <2>7
  <2>9. J \ {a} = K \ ItemAreas(item)
    BY <2>1, <2>6
  <2>10. (c - 1) - 1 = c - Cost(item.of) /\ e = e + EnteredBy(item.of)
    BY <1>5 DEF WholeFile, IsFile, IsGood, Cost, EnteredBy
  <2> QED  BY <2>8, <2>9, <2>10
<1>6. ASSUME NEW a, WholeBad(item, a)
      PROVE  Exact(r, K \ ItemAreas(item), c - Cost(item.of), e + EnteredBy(item.of))
  <2>1. ItemAreas(item) = {a} /\ a \in K /\ a = Single(item.addr)
    BY <1>6, WholeAreas DEF WholeBad
  <2>2. r = Release(w, item.addr)
    BY <1>6 DEF fat16_fat_item_free, fat16_free_directory, WholeBad, IsBad
  <2> HIDE DEF r
  <2>3. Exact(r, K \ {a}, c - 1, e)
    BY <1>2, <2>1, <2>2
  <2>4. 1 = Cost(item.of) /\ e = e + EnteredBy(item.of)
    BY <1>6 DEF WholeBad, IsFile, IsBad, IsGood, Cost, EnteredBy
  <2> QED  BY <2>1, <2>3, <2>4
<1>7. ASSUME NEW a, NEW b, NEW d, WholeGood(item, a, b, d)
      PROVE  Exact(r, K \ ItemAreas(item), c - Cost(item.of), e + EnteredBy(item.of))
  <2>1. /\ ItemAreas(item) = ({a} \cup {b}) \cup {d}
        /\ a \in K /\ b \in K /\ d \in K /\ a # b /\ a # d /\ b # d
    BY <1>7, WholeAreas DEF WholeGood
  <2>2. /\ a = Single(item.addr) /\ b = Single(item.directory)
        /\ d.addr = item.items /\ d.blocks = n
    BY <1>7 DEF WholeGood, ItemsArea
  <2>3. PICK v : v = Release(w, item.items)
    OBVIOUS
  <2>4. PICK u : u = Release(v, item.directory)
    OBVIOUS
  <2>5. r = Release(u, item.addr)
    BY <1>7, <2>3, <2>4 DEF fat16_fat_item_free, fat16_free_directory, WholeGood, IsGood
  <2>6. n \in Nat \ {0}
    BY <1>7 DEF WholeGood
  <2>7. PICK l \in Nat : l = e + Entered(n)
    BY <1>1
  <2> HIDE DEF r, n
  <2>8. PICK J : J = K \ {d}
    OBVIOUS
  <2>9. Exact(v, J, c - n, l) /\ c - n \in Nat
    <3>1. c - d.blocks \in Nat
      BY <1>3, <2>1
    <3>2. Exact(Release(w, d.addr), K \ {d}, c - d.blocks, e + Entered(d.blocks))
      BY <2>1, DroppedExact
    <3> QED  BY <2>2, <2>3, <2>7, <2>8, <3>1, <3>2
  <2>10. PICK m \in Nat : m = c - n
    BY <2>9
  <2>11. a \in J /\ b \in J
    BY <2>1, <2>8
  <2>12. PICK I : I = J \ {b}
    OBVIOUS
  <2>13. Exact(u, I, m - 1, l) /\ m - 1 \in Nat
    <3>1. Exact(v, J, m, l)
      BY <2>9, <2>10
    <3>2. m - b.blocks \in Nat
      BY <1>3, <2>11, <3>1
    <3> QED  BY <1>2, <1>4, <2>2, <2>4, <2>11, <2>12, <3>1, <3>2
  <2>14. a \in I
    BY <2>1, <2>11, <2>12
  <2>15. Exact(r, I \ {a}, (m - 1) - 1, l)
    BY <1>2, <2>2, <2>5, <2>13, <2>14
  <2>16. I \ {a} = K \ ItemAreas(item)
    BY <2>1, <2>8, <2>12
  <2>17. (m - 1) - 1 = c - Cost(item.of) /\ l = e + EnteredBy(item.of)
    BY <1>7, <2>6, <2>7, <2>10 DEF WholeGood, IsFile, IsBad, IsGood, Cost, EnteredBy, n
  <2> QED  BY <2>15, <2>16, <2>17
<1> QED  BY <1>5, <1>6, <1>7 DEF Whole

-----------------------------------------------------------------------------
(* One entry of the directory at most is taken for the name.               *)
Plain(dir, name) ==
    /\ Cardinality(Matching(dir, name)) <= 1
    /\ \A i \in Matching(dir, name) : dir[i].kind # "deleted"

(* Then a search makes an item for that entry, or none.                    *)
LEMMA SearchExact ==
    ASSUME img \in Images, NEW dir \in Directories(img) \cup {<<>>}, NEW from, NEW name,
           Plain(dir, name), NEW w, NEW L, Holds(w, L)
    PROVE  LET of == fat16_find_item_in_directory(dir, name)
               r == FindItem(w, dir, from, name)
           IN  \/ of = NoItem /\ r.w = w /\ r.item = NullItem
               \/ /\ of \in ItemsOn(img) /\ of.kind \in {"file", "directory"}
                  /\ r = fat16_new_fat_item(w, of, from)
<1> DEFINE m == Matching(dir, name)
           of == fat16_find_item_in_directory(dir, name)
           r == FindItem(w, dir, from, name)
<1>1. of = IF m = {} THEN NoItem ELSE dir[Max(m)]
  BY Looked
<1>2. CASE m = {}
  <2>1. r = Found(w, NullItem)
    BY <1>2, LastFound
  <2> QED  BY <1>1, <1>2, <2>1 DEF Found
<1>3. CASE m # {}
  <2>1. Max(m) \in m /\ dir[Max(m)] \in ItemsOn(img) /\ m \subseteq 1 .. TotalItems(dir)
    BY <1>3, GreatestMatch
  <2>2. TotalItems(dir) \in Nat
    BY InDirectory
  <2>3. m = {Max(m)}
    <3>1. Cardinality(m) <= 1
      BY DEF Plain
    <3> HIDE DEF m
    <3>2. IsFiniteSet(m)
      <4>1. PICK n \in Nat : n = TotalItems(dir)
        BY <2>2
      <4>2. IsFiniteSet(1 .. n) /\ m \subseteq 1 .. n
        BY <2>1, <4>1, FS_Interval
      <4> QED  BY ONLY <4>2, FS_Subset
    <3>3. PICK x : x \in m /\ x = Max(m)
      BY <2>1
    <3>4. Cardinality(m \ {x}) = Cardinality(m) - 1 /\ IsFiniteSet(m \ {x})
      BY <3>2, <3>3, FS_RemoveElement
    <3>5. Cardinality(m) \in Nat /\ Cardinality(m \ {x}) \in Nat
      BY <3>2, <3>4, FS_CardinalityType
    <3>6. Cardinality(m \ {x}) = 0
      BY <3>1, <3>4, <3>5
    <3>7. m \ {x} = {}
      BY <3>4, <3>6, FS_EmptySet
    <3> QED  BY <3>3, <3>7
  <2>4. \E v : (m = {Max(m)} => v = w) /\ r = fat16_new_fat_item(v, dir[Max(m)], from)
    BY <1>3, LastFound
  <2>5. r = fat16_new_fat_item(w, dir[Max(m)], from)
    BY <2>3, <2>4
  <2>6. dir[Max(m)].kind \in {"file", "directory", "deleted"}
    <3>1. \A item \in ItemsOn(img) : item \in Entries
      <4> TAKE item \in ItemsOn(img)
      <4>1. PICK any \in Directories(img) : \E i \in DOMAIN any : item = any[i]
        BY DEF ItemsOn
      <4>2. any \in Seq(Entries)
        BY FileMemoryAssumption
      <4> QED  BY <4>1, <4>2, ElementOfSeq, LenProperties
    <3> QED  BY <2>1, <3>1 DEF Entries
  <2>7. dir[Max(m)].kind # "deleted"
    BY <2>1 DEF Plain
  <2> HIDE DEF m
  <2> QED  BY <1>1, <1>3, <2>1, <2>5, <2>6, <2>7
<1> QED  BY <1>2, <1>3

(* What a walk down a path has taken where the driver meets item: the      *)
(* whole item made for it, or behind a file that file's two blocks.        *)
AtItem(d, met, K, c, e) ==
    /\ met \in ItemsOn(img) /\ met.kind \in {"file", "directory"}
    /\ ~ d.ended
    /\ d.item.of = met
    /\ Whole(d.item)
    /\ ItemAreas(d.item) \cap K = {}
    /\ Exact(d.w, K \cup ItemAreas(d.item), c + Cost(met), e - EnteredBy(met))

AtNothing(d, met, K, c, e) ==
    /\ met = NoItem
    /\ d.item = NullItem
    /\ Exact(d.w, K, c, e)

(* The first search of a walk.                                             *)
LEMMA WalkStartsExact ==
    ASSUME img \in Images, NEW parts, Plain(img.root, parts[1]), NEW w, NEW L, Holds(w, L),
           NEW K, NEW c \in Nat, NEW e \in Nat, ~ w.starved => Exact(w, K, c, e), e # 0,
           ~ WalkStart(w, parts).w.starved
    PROVE  LET d == WalkStart(w, parts)
               met == fat16_find_item_in_directory(img.root, parts[1])
           IN  /\ ~ w.starved
               /\ AtItem(d, met, K, c, e) \/ (d.ended /\ AtNothing(d, met, K, c, e))
<1> DEFINE top == FindItem(w, img.root, mount.root, parts[1])
           d == WalkStart(w, parts)
<1>1. PICK met : met = fat16_find_item_in_directory(img.root, parts[1])
  OBVIOUS
<1>2. img.root \in Directories(img) \cup {<<>>}
  BY DEF Directories
<1>3. \/ met = NoItem /\ top.w = w /\ top.item = NullItem
      \/ /\ met \in ItemsOn(img) /\ met.kind \in {"file", "directory"}
         /\ top = fat16_new_fat_item(w, met, mount.root)
  <2>1. LET of == fat16_find_item_in_directory(img.root, parts[1])
            r == FindItem(w, img.root, mount.root, parts[1])
        IN  \/ of = NoItem /\ r.w = w /\ r.item = NullItem
            \/ /\ of \in ItemsOn(img) /\ of.kind \in {"file", "directory"}
               /\ r = fat16_new_fat_item(w, of, mount.root)
    <3>1. PICK dir, from, name : dir = img.root /\ from = mount.root /\ name = parts[1]
      OBVIOUS
    <3>2. dir \in Directories(img) \cup {<<>>} /\ Plain(dir, name)
      BY <1>2, <3>1
    <3>3. LET of == fat16_find_item_in_directory(dir, name)
              r == FindItem(w, dir, from, name)
          IN  \/ of = NoItem /\ r.w = w /\ r.item = NullItem
              \/ /\ of \in ItemsOn(img) /\ of.kind \in {"file", "directory"}
                 /\ r = fat16_new_fat_item(w, of, from)
      BY <3>2, SearchExact
    <3> QED  BY <3>1, <3>3
  <2> QED  BY <1>1, <2>1
<1>4. d.w = top.w /\ d.item = top.item /\ d.ended = (top.item = NullItem)
  BY DEF WalkStart, Walked
<1>5. ~ d.w.starved
  OBVIOUS
<1> HIDE DEF top, d
<1>6. CASE met = NoItem /\ top.w = w /\ top.item = NullItem
  BY <1>1, <1>4, <1>5, <1>6 DEF AtNothing, d
<1>7. CASE /\ met \in ItemsOn(img) /\ met.kind \in {"file", "directory"}
           /\ top = fat16_new_fat_item(w, met, mount.root)
  <2>1. ~ fat16_new_fat_item(w, met, mount.root).w.starved
    BY <1>4, <1>5, <1>7
  <2>2. /\ ~ w.starved
        /\ top.item.of = met
        /\ top.item # NullItem
        /\ Whole(top.item)
        /\ ItemAreas(top.item) \cap K = {}
        /\ Exact(top.w, K \cup ItemAreas(top.item), c + Cost(met), e - EnteredBy(met))
    <3>1. LET r == fat16_new_fat_item(w, met, mount.root)
          IN  /\ ~ w.starved
              /\ r.item.of = met
              /\ r.item # NullItem
              /\ Whole(r.item)
              /\ ItemAreas(r.item) \cap K = {}
              /\ Exact(r.w, K \cup ItemAreas(r.item), c + Cost(met), e - EnteredBy(met))
      BY <1>7, <2>1, ItemExact
    <3> QED  BY <1>7, <3>1
  <2> QED  BY <1>1, <1>4, <1>7, <2>2 DEF AtItem, d
<1> QED  BY <1>3, <1>6, <1>7

(* Once a request was refused, the call knows.                             *)
LEMMA NewItemStarves ==
    ASSUME NEW w, NEW of, NEW from, ~ fat16_new_fat_item(w, of, from).w.starved
    PROVE  ~ w.starved
<1> DEFINE item == kzalloc(w, 1)
           directory == kzalloc(item.w, 1)
           items == kzalloc(directory.w, EntryBytes(of))
           clone == kzalloc(item.w, 1)
           loaded == fat16_load_directory(item.w, of)
           r == fat16_new_fat_item(w, of, from)
<1>1. r.w = item.w \/ r.w = loaded.w \/ r.w = clone.w
  BY DEF fat16_new_fat_item, fat16_clone_directory_item
<1>2. \/ loaded.w = directory.w \/ loaded.w = items.w
      \/ loaded.w = Release(Release(items.w, items.addr), directory.addr)
  BY DEF fat16_load_directory, fat16_free_directory, EntryBytes
<1>3. Release(Release(items.w, items.addr), directory.addr).starved = items.w.starved
  <2> HIDE DEF directory
  <2>1. InProgress(items.w)
    BY InProgressOnly
  <2> HIDE DEF items
  <2> QED  BY <2>1, InProgressOnly
<1>4. /\ ~ items.w.starved => ~ directory.w.starved
      /\ ~ directory.w.starved => ~ item.w.starved
      /\ ~ clone.w.starved => ~ item.w.starved
      /\ ~ item.w.starved => ~ w.starved
  <2>1. ~ item.w.starved => ~ w.starved
    BY Starving
  <2> HIDE DEF item
  <2>2. (~ directory.w.starved => ~ item.w.starved) /\ (~ clone.w.starved => ~ item.w.starved)
    BY Starving
  <2> HIDE DEF directory
  <2>3. ~ items.w.starved => ~ directory.w.starved
    BY Starving
  <2> QED  BY <2>1, <2>2, <2>3
<1> HIDE DEF item, directory, items, clone, loaded
<1> QED  BY <1>1, <1>2, <1>3, <1>4

LEMMA FindStarves ==
    ASSUME img \in Images, NEW dir \in Directories(img) \cup {<<>>}, NEW from, NEW name,
           NEW w, NEW L, Holds(w, L), ~ FindItem(w, dir, from, name).w.starved
    PROVE  ~ w.starved
<1> DEFINE n == TotalItems(dir)
<1>1. PICK f : Finds(f, w, dir, from, name) /\ FindItem(w, dir, from, name) = f[n]
  BY FindRuns
<1>2. n \in Nat
  BY InDirectory
<1> DEFINE P == {i \in 0 .. n : ~ f[i].w.starved => ~ w.starved}
<1>3. 0 \in P
  BY <1>1, <1>2 DEF Finds, Found
<1>4. ASSUME NEW i \in 1 .. n, i - 1 \in P
      PROVE  i \in P
  <2>1. f[i] = f[i - 1] \/ f[i] = fat16_new_fat_item(f[i - 1].w, dir[i], from)
    BY <1>1, <1>4 DEF Finds, FindStep
  <2>2. ~ f[i].w.starved => ~ f[i - 1].w.starved
    BY <2>1, NewItemStarves
  <2> QED  BY <1>2, <1>4, <2>2
<1>5. n \in P
  <2> HIDE DEF P, n
  <2>1. \A i \in 0 .. n : i \in P
    BY <1>2, <1>3, <1>4, LoopInduction
  <2> QED  BY <1>2, <2>1
<1> QED  BY <1>1, <1>5

(* What an item is for is on the disk.                                     *)
LEMMA EntriesOnDisk ==
    ASSUME img \in Images, NEW item, ItemShape(item)
    PROVE  EntriesOf(item) \in Directories(img) \cup {<<>>}
<1>1. CASE item.directory = NULL
  BY <1>1 DEF EntriesOf
<1>2. CASE item.directory # NULL
  <2>1. item.of.kind = "directory" /\ item.of \in ItemsOn(img) \cup {NoItem}
    BY <1>2 DEF ItemShape, FatItem
  <2>2. NoItem.kind # "directory"
    BY DEF NoItem, Item
  <2>3. item.of \in ItemsOn(img)
    BY <2>1, <2>2
  <2> QED  BY <1>2, <2>1, <2>3, LeadsToDirectory DEF EntriesOf
<1> QED  BY <1>1, <1>2

(* The release of the directory behind a search refuses nothing.           *)
LEMMA WalkFrees ==
    ASSUME img \in Images, NEW L, NEW d \in OnlyItem(L), NEW name
    PROVE  LET found == FindItem(d.w, EntriesOf(d.item), d.item.items, name)
           IN  /\ fat16_fat_item_free(found.w, d.item).starved = found.w.starved
               /\ ~ found.w.starved => ~ d.w.starved
<1> DEFINE found == FindItem(d.w, EntriesOf(d.item), d.item.items, name)
<1>1. ItemShape(d.item)
  BY DEF OnlyItem
<1>2. PICK M : Holds(d.w, M) /\ ItemAreas(d.item) \subseteq M
  BY DEF OnlyItem, Keeps
<1>3. EntriesOf(d.item) \in Directories(img) \cup {<<>>}
  BY <1>1, EntriesOnDisk
<1>4. ~ found.w.starved => ~ d.w.starved
  BY <1>2, <1>3, FindStarves
<1>5. Keeps(found.w, M, ItemAreas(found.item))
  BY <1>2, <1>3, ItemFound
<1> HIDE DEF found
<1>6. PICK K : Holds(found.w, K) /\ M \subseteq K
  BY <1>5 DEF Keeps
<1>7. ItemAreas(d.item) \subseteq K
  BY <1>2, <1>6
<1>8. fat16_fat_item_free(found.w, d.item).starved = found.w.starved
  BY <1>1, <1>6, <1>7, ItemFreed
<1> QED  BY <1>4, <1>8 DEF found

LEMMA WalkStarves ==
    ASSUME img \in Images, NEW L, NEW d \in OnlyItem(L), NEW name,
           ~ WalkStep(d, name).w.starved
    PROVE  ~ d.w.starved
<1> DEFINE found == FindItem(d.w, EntriesOf(d.item), d.item.items, name)
           r == fat16_fat_item_free(found.w, d.item)
<1>1. d \in [w : Call, item : FatItem, ended : BOOLEAN]
  BY DEF OnlyItem
<1>2. WalkStep(d, name).w \in {d.w, r}
  BY <1>1 DEF WalkStep
<1>3. r.starved = found.w.starved /\ (~ found.w.starved => ~ d.w.starved)
  BY WalkFrees
<1> HIDE DEF found, r
<1> QED  BY <1>2, <1>3

LEMMA CostType ==
    ASSUME img \in Images, NEW of \in ItemsOn(img), of.kind \in {"file", "directory"}
    PROVE  /\ Cost(of) \in Nat
           /\ EnteredBy(of) \in {0, 1}
           /\ IsGood(of) => BlocksFor(EntryBytes(of)) \in Nat \ {0}
<1>1. CASE of.kind = "file"
  BY <1>1 DEF Cost, EnteredBy, IsFile, IsGood
<1>2. CASE of.kind = "directory"
  BY <1>2, EntryBlocks DEF Cost, EnteredBy, IsFile, IsGood
<1> QED  BY <1>1, <1>2

(* The release of the item that was met.                                   *)
LEMMA MetFreedExact ==
    ASSUME NEW w, NEW K, NEW c \in Nat, NEW e \in Nat, Exact(w, K, c, e),
           NEW item, NEW met, item.of = met, Whole(item), NEW A, A = ItemAreas(item), A \subseteq K,
           IsGood(met) => BlocksFor(EntryBytes(met)) \in Nat \ {0}
    PROVE  Exact(fat16_fat_item_free(w, item), K \ A, c - Cost(met), e + EnteredBy(met))
<1>1. ItemAreas(item) \subseteq K
  OBVIOUS
<1>2. IsGood(item.of) => BlocksFor(EntryBytes(item.of)) \in Nat \ {0}
  OBVIOUS
<1>3. Exact(fat16_fat_item_free(w, item), K \ ItemAreas(item), c - Cost(item.of), e + EnteredBy(item.of))
  BY <1>1, <1>2, ItemFreedExact
<1> QED  BY <1>3

(* One more part of the path.                                              *)
LEMMA WalkGoesOnExact ==
    ASSUME img \in Images, NEW L, NEW d \in OnlyItem(L), NEW met, NEW name, NEW more,
           met.kind = "directory" => Plain(img.dirs[met.first], name) /\ ~ IsBad(met),
           NEW K, NEW c \in Nat, NEW e \in Nat, e > 1,
           ~ d.w.starved => AtItem(d, met, K, c, e),
           ~ WalkStep(d, name).w.starved, DownStep(met, name, more) # Wild
    PROVE  LET r == WalkStep(d, name)
               next == DownStep(met, name, more)
           IN  /\ ~ d.w.starved
               /\ IsFile(met) => r.ended /\ AtNothing(r, next, K, c + 2, e)
               /\ ~ IsFile(met) => AtItem(r, next, K, c, e) \/ (~ more /\ AtNothing(r, next, K, c, e))
<1> DEFINE of == fat16_find_item_in_directory(img.dirs[met.first], name)
           found == FindItem(d.w, EntriesOf(d.item), d.item.items, name)
           r == WalkStep(d, name)
           next == DownStep(met, name, more)
<1>1. /\ d \in [w : Call, item : FatItem, ended : BOOLEAN]
      /\ ItemShape(d.item)
      /\ \E M : Holds(d.w, M) /\ ItemAreas(d.item) \subseteq M
  BY DEF OnlyItem, Keeps
<1>2. PICK M : Holds(d.w, M)
  BY <1>1
<1>3. WalkStep(d, name) =
        CASE d.ended -> d
          [] ~ d.ended /\ d.item.of.kind = "file" -> [d EXCEPT !.item = NullItem, !.ended = TRUE]
          [] OTHER -> [d EXCEPT !.w = fat16_fat_item_free(found.w, d.item), !.item = found.item]
  BY DEF WalkStep
<1>4. /\ fat16_fat_item_free(found.w, d.item).starved = found.w.starved
      /\ ~ found.w.starved => ~ d.w.starved
  BY WalkFrees
<1>5. ~ d.w.starved
  BY WalkStarves
<1>6. /\ AtItem(d, met, K, c, e)
      /\ met \in ItemsOn(img) /\ met.kind \in {"file", "directory"}
      /\ ~ d.ended /\ d.item.of = met /\ Whole(d.item)
  BY <1>5 DEF AtItem
<1>7. Cost(met) \in Nat /\ EnteredBy(met) \in {0, 1}
      /\ (IsGood(met) => BlocksFor(EntryBytes(met)) \in Nat \ {0})
  BY <1>6, CostType
<1>8. PICK A : A = ItemAreas(d.item)
  OBVIOUS
<1>9. PICK J : J = K \cup A
  OBVIOUS
<1>10. PICK m \in Nat : m = c + Cost(met)
  BY <1>7
<1>11. PICK l \in Nat : l = e - EnteredBy(met)
  BY <1>7
<1>12. Exact(d.w, J, m, l) /\ A \cap K = {}
  BY <1>6, <1>8, <1>9, <1>10, <1>11 DEF AtItem
<1>13. CASE IsFile(met)
  <2>1. r.w = d.w /\ r.item = NullItem /\ r.ended
    BY <1>1, <1>3, <1>6, <1>13 DEF IsFile
  <2>2. next = NoItem
    BY <1>13 DEF DownStep, IsFile
  <2>3. m = c + 2 /\ l = e
    BY <1>10, <1>11, <1>13 DEF Cost, EnteredBy, IsFile, IsGood
  <2>4. Exact(d.w, K, c + 2, e)
    <3>1. K \in SUBSET J
      BY <1>9
    <3> QED  BY <1>12, <2>3, <3>1, ForgottenExact
  <2> HIDE DEF r, next
  <2>5. AtNothing(r, next, K, c + 2, e)
    BY <2>1, <2>2, <2>4 DEF AtNothing
  <2> QED  BY <1>5, <1>13, <2>1, <2>5 DEF r, next
<1>14. CASE ~ IsFile(met)
  <2>1. IsGood(met) /\ met.kind = "directory" /\ Plain(img.dirs[met.first], name)
    BY <1>6, <1>14 DEF IsFile, IsBad, IsGood
  <2>2. d.item.directory # NULL
    BY <1>6, <2>1 DEF Whole, WholeFile, WholeBad, WholeGood, IsFile, IsBad, IsGood
  <2>3. EntriesOf(d.item) = img.dirs[met.first]
    BY <1>6, <2>2 DEF EntriesOf
  <2>4. img.dirs[met.first] \in Directories(img) \cup {<<>>}
    BY <1>6, <2>1, LeadsToDirectory
  <2>5. PICK v : v = found.w
    OBVIOUS
  <2>6. PICK below : below = of
    OBVIOUS
  <2>7. PICK from : from = d.item.items
    OBVIOUS
  <2>8. \/ below = NoItem /\ v = d.w /\ found.item = NullItem
        \/ /\ below \in ItemsOn(img) /\ below.kind \in {"file", "directory"}
           /\ found = fat16_new_fat_item(d.w, below, from)
    <3>1. \/ of = NoItem /\ FindItem(d.w, img.dirs[met.first], from, name).w = d.w
             /\ FindItem(d.w, img.dirs[met.first], from, name).item = NullItem
          \/ /\ of \in ItemsOn(img) /\ of.kind \in {"file", "directory"}
             /\ FindItem(d.w, img.dirs[met.first], from, name) = fat16_new_fat_item(d.w, of, from)
      BY <1>2, <2>1, <2>4, SearchExact
    <3>2. found = FindItem(d.w, img.dirs[met.first], from, name)
      BY <2>3, <2>7
    <3> HIDE DEF found, of
    <3> QED  BY <2>5, <2>6, <3>1, <3>2
  <2>9. /\ r.w = fat16_fat_item_free(v, d.item) /\ r.item = found.item /\ ~ r.ended
    <3>1. r = [d EXCEPT !.w = fat16_fat_item_free(found.w, d.item), !.item = found.item]
      BY <1>3, <1>6, <2>1
    <3> HIDE DEF found, r
    <3> QED  BY <1>1, <1>6, <2>5, <3>1
  <2>10. ~ v.starved
    <3>1. ~ r.w.starved
      OBVIOUS
    <3> HIDE DEF found, r
    <3> QED  BY <1>4, <2>5, <2>9, <3>1
  <2>11. next = IF below = NoItem /\ more THEN Wild ELSE below
    BY <2>1, <2>6 DEF DownStep
  <2>12. next # Wild
    OBVIOUS
  <2> HIDE DEF found, r, next, of
  <2>13. CASE below = NoItem /\ v = d.w /\ found.item = NullItem
    <3>1. Exact(r.w, J \ A, m - Cost(met), l + EnteredBy(met))
      <4>1. A \subseteq J
        BY <1>9
      <4>2. PICK it : it = d.item
        OBVIOUS
      <4>3. it.of = met /\ Whole(it) /\ A = ItemAreas(it)
        BY <1>6, <1>8, <4>2
      <4>4. Exact(d.w, J, m, l)
        BY <1>12
      <4>5. Exact(fat16_fat_item_free(d.w, it), J \ A, m - Cost(met), l + EnteredBy(met))
        BY <1>7, <4>1, <4>3, <4>4, MetFreedExact
      <4> QED  BY <2>9, <2>13, <4>2, <4>5
    <3>2. J \ A = K /\ m - Cost(met) = c /\ l + EnteredBy(met) = e
      BY <1>7, <1>9, <1>10, <1>11, <1>12
    <3>3. next = NoItem /\ ~ more
      BY <2>11, <2>12, <2>13
    <3>4. AtNothing(r, next, K, c, e)
      BY <2>9, <2>13, <3>1, <3>2, <3>3 DEF AtNothing
    <3> QED  BY <1>5, <1>14, <3>3, <3>4 DEF r, next
  <2>14. CASE /\ below \in ItemsOn(img) /\ below.kind \in {"file", "directory"}
              /\ found = fat16_new_fat_item(d.w, below, from)
    <3>1. l # 0 /\ Cost(below) \in Nat /\ EnteredBy(below) \in {0, 1}
      BY <1>7, <1>11, <2>14, CostType
    <3>2. LET x == fat16_new_fat_item(d.w, below, from)
          IN  /\ x.item.of = below
              /\ Whole(x.item)
              /\ ItemAreas(x.item) \cap J = {}
              /\ Exact(x.w, J \cup ItemAreas(x.item), m + Cost(below), l - EnteredBy(below))
      <4>1. ~ fat16_new_fat_item(d.w, below, from).w.starved
        BY <2>5, <2>10, <2>14
      <4> QED  BY <1>12, <2>14, <3>1, <4>1, ItemExact
    <3>3. PICK B : B = ItemAreas(found.item)
      OBVIOUS
    <3>4. /\ found.item.of = below /\ Whole(found.item) /\ B \cap J = {}
          /\ Exact(v, J \cup B, m + Cost(below), l - EnteredBy(below))
      BY <2>5, <2>14, <3>2, <3>3
    <3>5. PICK N, k, q : N = J \cup B /\ k = m + Cost(below) /\ q = l - EnteredBy(below)
      OBVIOUS
    <3>6. Exact(r.w, N \ A, k - Cost(met), q + EnteredBy(met))
      <4>1. A \subseteq N
        BY <1>9, <3>5
      <4>2. k \in Nat /\ q \in Nat
        BY <3>1, <3>5
      <4>3. Exact(v, N, k, q)
        BY <3>4, <3>5
      <4>4. PICK it : it = d.item
        OBVIOUS
      <4>5. it.of = met /\ Whole(it) /\ A = ItemAreas(it)
        BY <1>6, <1>8, <4>4
      <4>6. Exact(fat16_fat_item_free(v, it), N \ A, k - Cost(met), q + EnteredBy(met))
        BY <1>7, <4>1, <4>2, <4>3, <4>5, MetFreedExact
      <4> QED  BY <2>9, <4>4, <4>6
    <3>7. N \ A = K \cup B /\ B \cap K = {}
      BY <1>9, <1>12, <3>4, <3>5
    <3>8. k - Cost(met) = c + Cost(below) /\ q + EnteredBy(met) = e - EnteredBy(below)
      BY <1>7, <1>10, <1>11, <3>1, <3>5
    <3>9. next = below
      BY <2>11, <2>14 DEF NoItem, Item
    <3>10. AtItem(r, next, K, c, e)
      BY <2>9, <2>14, <3>3, <3>4, <3>6, <3>7, <3>8, <3>9 DEF AtItem
    <3> QED  BY <1>5, <1>14, <3>10 DEF r, next
  <2> QED  BY <2>8, <2>13, <2>14
<1> QED  BY <1>13, <1>14

(* Where a walk is: at an item, behind a file, or where nothing was found. *)
Came(d, met, hit, last, K, c, e) ==
    \/ ~ hit /\ AtItem(d, met, K, c, e)
    \/ hit /\ d.ended /\ AtNothing(d, met, K, c + 2, e)
    \/ ~ hit /\ (d.ended \/ last) /\ AtNothing(d, met, K, c, e)

LEMMA CameOn ==
    ASSUME img \in Images, NEW L, NEW d \in OnlyItem(L), NEW met, NEW name, NEW more \in BOOLEAN,
           NEW hit \in BOOLEAN, NEW past \in BOOLEAN, past <=> hit \/ met.kind = "file",
           NEW last \in BOOLEAN, last <=> ~ more, NEW first \in BOOLEAN, ~ first,
           met.kind = "directory" => Plain(img.dirs[met.first], name) /\ ~ IsBad(met),
           NEW K, NEW c \in Nat, NEW e \in Nat, e > 1,
           ~ d.w.starved => Came(d, met, hit, first, K, c, e),
           ~ WalkStep(d, name).w.starved, DownStep(met, name, more) # Wild
    PROVE  /\ ~ d.w.starved
           /\ Came(WalkStep(d, name), DownStep(met, name, more), past, last, K, c, e)
<1>1. ~ d.w.starved
  BY WalkStarves
<1>2. PICK r : r = WalkStep(d, name)
  OBVIOUS
<1>3. PICK next : next = DownStep(met, name, more)
  OBVIOUS
<1>4. CASE ~ hit /\ AtItem(d, met, K, c, e)
  <2>1. LET s == WalkStep(d, name)
            n == DownStep(met, name, more)
        IN  /\ ~ d.w.starved
            /\ IsFile(met) => s.ended /\ AtNothing(s, n, K, c + 2, e)
            /\ ~ IsFile(met) => AtItem(s, n, K, c, e) \/ (~ more /\ AtNothing(s, n, K, c, e))
    BY <1>4, WalkGoesOnExact
  <2>2. /\ IsFile(met) => r.ended /\ AtNothing(r, next, K, c + 2, e)
        /\ ~ IsFile(met) => AtItem(r, next, K, c, e) \/ (~ more /\ AtNothing(r, next, K, c, e))
    BY <1>2, <1>3, <2>1
  <2>3. Came(r, next, past, last, K, c, e)
    BY <1>4, <2>2 DEF Came, IsFile
  <2> QED  BY <1>1, <1>2, <1>3, <2>3
<1>5. CASE d.ended /\ met = NoItem
  <2>1. r = d
    BY <1>2, <1>5 DEF WalkStep
  <2>2. met.kind # "file" /\ met.kind # "directory"
    BY <1>5 DEF NoItem, Item
  <2>3. next = met
    BY <1>3, <2>2 DEF DownStep
  <2>4. ~ AtItem(d, met, K, c, e)
    BY <1>5 DEF AtItem
  <2>5. Came(r, next, past, last, K, c, e)
    BY <1>1, <2>1, <2>2, <2>3, <2>4 DEF Came
  <2> QED  BY <1>1, <1>2, <1>3, <2>5
<1> QED  BY <1>1, <1>4, <1>5 DEF Came, AtNothing

(* What is left where a walk ended.                                        *)
LEMMA CameTo ==
    ASSUME img \in Images, NEW d, NEW met, NEW hit \in BOOLEAN, NEW K, NEW c \in Nat, NEW e \in Nat, e > 1,
           Came(d, met, hit, TRUE, K, c, e)
    PROVE  LET left == CASE met.kind = "directory" ->
                             IF met.first \in img.bad THEN 1
                             ELSE 2 + BlocksFor(TotalItems(img.dirs[met.first]) * ENTRY)
                         [] met.kind = "file" -> 2
                         [] OTHER -> IF hit THEN 2 ELSE 0
           IN  left \in Nat /\ Exact(d.w, K, c + left, e - 1)
<1> DEFINE left == CASE met.kind = "directory" ->
                             IF met.first \in img.bad THEN 1
                             ELSE 2 + BlocksFor(TotalItems(img.dirs[met.first]) * ENTRY)
                         [] met.kind = "file" -> 2
                         [] OTHER -> IF hit THEN 2 ELSE 0
<1>1. CASE AtItem(d, met, K, c, e)
  <2>1. left = Cost(met)
    BY <1>1 DEF AtItem, Cost, IsFile, IsBad, EntryBytes
  <2>2. met \in ItemsOn(img) /\ met.kind \in {"file", "directory"}
    BY <1>1 DEF AtItem
  <2>3. Cost(met) \in Nat /\ EnteredBy(met) \in {0, 1}
    BY <2>2, CostType
  <2>4. PICK J : J = K \cup ItemAreas(d.item)
    OBVIOUS
  <2>5. PICK l \in Nat : l = e - EnteredBy(met)
    BY <2>3
  <2>6. PICK n \in Nat : n = c + Cost(met)
    BY <2>3
  <2>7. Exact(d.w, J, n, l)
    BY <1>1, <2>4, <2>5, <2>6 DEF AtItem
  <2>8. K \in SUBSET J /\ e - 1 \in Nat /\ e - 1 <= l
    BY <2>3, <2>4, <2>5
  <2>9. Exact(d.w, K, n, e - 1)
    BY <2>7, <2>8, ForgottenExact
  <2> HIDE DEF left
  <2> QED  BY <2>1, <2>3, <2>6, <2>9 DEF left
<1>2. ASSUME NEW n \in Nat, AtNothing(d, met, K, n, e)
      PROVE  Exact(d.w, K, n, e - 1) /\ left = IF hit THEN 2 ELSE 0
  <2>1. e - 1 \in Nat /\ e - 1 <= e /\ K \in SUBSET K
    OBVIOUS
  <2>2. Exact(d.w, K, n, e)
    BY <1>2 DEF AtNothing
  <2>3. Exact(d.w, K, n, e - 1)
    BY <2>1, <2>2, ForgottenExact
  <2>4. met.kind # "directory" /\ met.kind # "file"
    BY <1>2 DEF AtNothing, NoItem, Item
  <2> QED  BY <2>3, <2>4
<1> HIDE DEF left
<1>3. CASE hit /\ AtNothing(d, met, K, c + 2, e)
  BY <1>2, <1>3 DEF left
<1>4. CASE ~ hit /\ AtNothing(d, met, K, c, e)
  <2>1. left = 0 /\ c + 0 = c
    BY <1>2, <1>4
  <2>2. Exact(d.w, K, c, e - 1)
    BY <1>2, <1>4
  <2> QED  BY <2>1, <2>2 DEF left
<1> QED  BY <1>1, <1>3, <1>4 DEF Came, left

(* The walk keeps just what it leaves (fat16_get_directory_entry).         *)
LEMMA EntryExact ==
    ASSUME img \in Images, NEW parts \in NameLists, Len(parts) # 0,
           Unambiguous(parts), Followable(parts), NEW w, NEW L, Holds(w, L),
           NEW K, NEW c \in Nat, NEW e \in Nat, e > 1, ~ w.starved => Exact(w, K, c, e),
           ~ GetDirectoryEntry(w, parts).w.starved
    PROVE  /\ ~ w.starved
           /\ Left(parts) \in Nat
           /\ Exact(GetDirectoryEntry(w, parts).w, K, c + Left(parts), e - 1)
<1> DEFINE n == Len(parts)
<1>1. n \in Nat \ {0} /\ n - 1 \in Nat
  BY LenProperties DEF NameLists
<1>2. PICK d : /\ Walks(d, w, parts)
               /\ GetDirectoryEntry(w, parts) = d[n]
               /\ \A i \in 1 .. n : d[i] \in OnlyItem(L)
  BY <1>1, WalkRuns
<1>3. PICK f : /\ Downs(f, parts)
               /\ fat16_get_directory_entry(img, parts) = f[n]
               /\ \A i \in 1 .. n : f[i] \in Seen
  BY <1>1, DownRuns
<1>4. f[n] # Wild
  BY <1>3 DEF Followable
<1>5. \A i \in 1 .. n : f[i] # Wild /\ fat16_get_directory_entry(img, SubSeq(parts, 1, i)) = f[i]
  BY <1>3, <1>4, OnTheWay
<1>6. \A i \in 1 .. (n - 1) : f[i].first \notin img.bad
  BY <1>1, <1>5 DEF Followable
<1>7. \A dir \in Directories(img), i \in 1 .. n : Plain(dir, parts[i])
  <2> TAKE dir \in Directories(img), i \in 1 .. n
  <2>1. i \in DOMAIN parts
    BY <1>1, LenProperties DEF NameLists
  <2>2. parts[i] \in Range(parts)
    BY <2>1 DEF Range
  <2> QED  BY <2>2 DEF Unambiguous, Plain
<1> DEFINE hit(i) == \E j \in 1 .. (i - 1) : f[j].kind = "file"
           going(i) == ~ d[i].w.starved => ~ w.starved /\ Came(d[i], f[i], hit(i), i = n, K, c, e)
           P == {k \in 0 .. (n - 1) : going(k + 1)}
<1>8. going(1)
  <2> SUFFICES ASSUME ~ d[1].w.starved
               PROVE  ~ w.starved /\ Came(d[1], f[1], hit(1), 1 = n, K, c, e)
    OBVIOUS
  <2>1. d[1] = WalkStart(w, parts) /\ f[1] = fat16_find_item_in_directory(img.root, parts[1])
    BY <1>2, <1>3 DEF Walks, Downs
  <2>2. Plain(img.root, parts[1])
    <3>1. 1 \in 1 .. n /\ img.root \in Directories(img)
      BY <1>1 DEF Directories
    <3> HIDE DEF n
    <3> QED  BY <1>7, <3>1
  <2>3. LET start == WalkStart(w, parts)
            met == fat16_find_item_in_directory(img.root, parts[1])
        IN  /\ ~ w.starved
            /\ AtItem(start, met, K, c, e) \/ (start.ended /\ AtNothing(start, met, K, c, e))
    BY <2>1, <2>2, WalkStartsExact
  <2>4. ~ w.starved /\ (AtItem(d[1], f[1], K, c, e) \/ (d[1].ended /\ AtNothing(d[1], f[1], K, c, e)))
    BY <2>1, <2>3
  <2>5. ~ hit(1)
    OBVIOUS
  <2> HIDE DEF hit
  <2> QED  BY <2>4, <2>5 DEF Came
<1>9. ASSUME NEW k \in 1 .. (n - 1), going(k)
      PROVE  going(k + 1)
  <2> SUFFICES ASSUME ~ d[k + 1].w.starved
               PROVE  ~ w.starved /\ Came(d[k + 1], f[k + 1], hit(k + 1), k + 1 = n, K, c, e)
    OBVIOUS
  <2>1. PICK i : i = k + 1
    OBVIOUS
  <2>2. i \in 2 .. n /\ i - 1 = k /\ k \in 1 .. n /\ i \in 1 .. n /\ k # n
    BY <1>1, <2>1
  <2>3. d[i] = WalkStep(d[k], parts[i])
    BY <1>2, <2>2 DEF Walks
  <2>4. f[i] = DownStep(f[k], parts[i], i < n) /\ f[i] # Wild
    BY <1>3, <1>5, <2>2 DEF Downs
  <2>5. f[k].kind = "directory" => Plain(img.dirs[f[k].first], parts[i]) /\ ~ IsBad(f[k])
    <3> SUFFICES ASSUME f[k].kind = "directory"
                 PROVE  Plain(img.dirs[f[k].first], parts[i]) /\ ~ IsBad(f[k])
      OBVIOUS
    <3>1. f[k] \in ItemsOn(img)
      BY <1>3, <2>2 DEF Seen, NoItem, Wild, Item
    <3>2. img.dirs[f[k].first] \in Directories(img)
      BY <3>1, LeadsToDirectory
    <3> QED  BY <1>6, <1>7, <2>2, <3>2 DEF IsBad
  <2>6. d[k] \in OnlyItem(L)
    BY <1>2, <2>2
  <2>7. PICK seen \in {TRUE, FALSE} : seen <=> hit(k)
    <3> HIDE DEF hit
    <3> QED  OBVIOUS
  <2>8. PICK more \in {TRUE, FALSE} : more <=> i < n
    OBVIOUS
  <2>9. ~ d[k].w.starved => ~ w.starved /\ Came(d[k], f[k], seen, FALSE, K, c, e)
    <3>2. ~ d[k].w.starved => ~ w.starved /\ Came(d[k], f[k], hit(k), k = n, K, c, e)
      BY <1>9
    <3> HIDE DEF hit
    <3> QED  BY <2>2, <2>7, <3>2 DEF Came
  <2>10. (hit(i) <=> seen \/ f[k].kind = "file") /\ (i = n <=> ~ more)
    <3>1. \A j : j \in 1 .. (i - 1) <=> j \in 1 .. (k - 1) \/ j = k
      BY <2>2
    <3>2. i = n <=> ~ (i < n)
      BY <1>1, <2>2
    <3>3. i = n <=> ~ more
      BY <2>8, <3>2
    <3> QED  BY <2>7, <3>1, <3>3
  <2>14. PICK past \in BOOLEAN, last \in BOOLEAN : (past <=> seen \/ f[k].kind = "file") /\ (last <=> ~ more)
    <3> more \in BOOLEAN /\ seen \in BOOLEAN
      BY <2>7, <2>8
    <3> QED  OBVIOUS
  <2>15. PICK no \in BOOLEAN : ~ no
    OBVIOUS
  <2> HIDE DEF hit, going, P
  <2>11. ~ WalkStep(d[k], parts[i]).w.starved /\ DownStep(f[k], parts[i], more) # Wild
    BY <2>1, <2>3, <2>4, <2>8 DEF DownStep
  <2> more \in BOOLEAN /\ seen \in BOOLEAN
    BY <2>7, <2>8
  <2>12. /\ ~ d[k].w.starved
         /\ Came(WalkStep(d[k], parts[i]), DownStep(f[k], parts[i], more), past, last, K, c, e)
    <3>1. PICK x, met, name : x = d[k] /\ met = f[k] /\ name = parts[i]
      OBVIOUS
    <3>2. x \in OnlyItem(L) /\ (~ x.w.starved => Came(x, met, seen, no, K, c, e))
      BY <2>6, <2>9, <2>15, <3>1 DEF Came
    <3>3. ~ WalkStep(x, name).w.starved /\ DownStep(met, name, more) # Wild
      BY <2>11, <3>1
    <3>4. /\ met.kind = "directory" => Plain(img.dirs[met.first], name) /\ ~ IsBad(met)
          /\ past <=> seen \/ met.kind = "file"
      BY <2>5, <2>14, <3>1
    <3>5. ~ x.w.starved /\ Came(WalkStep(x, name), DownStep(met, name, more), past, last, K, c, e)
      BY <2>14, <2>15, <3>2, <3>3, <3>4, CameOn
    <3> QED  BY <3>1, <3>5
  <2>13. Came(d[i], f[i], hit(i), i = n, K, c, e)
    <3>1. f[i] = DownStep(f[k], parts[i], more)
      BY <2>4, <2>8 DEF DownStep
    <3>2. Came(d[i], f[i], past, last, K, c, e)
      BY <2>3, <2>12, <3>1
    <3> QED  BY <2>10, <2>14, <3>2 DEF Came
  <2> QED  BY <2>1, <2>9, <2>12, <2>13
<1>10. going(n)
  <2>1. 0 \in P
    <3>1. 0 \in 0 .. (n - 1) /\ 0 + 1 = 1
      BY <1>1
    <3>2. going(0 + 1)
      <4> HIDE DEF going
      <4> QED  BY <1>8, <3>1
    <3> HIDE DEF going
    <3> QED  BY <3>1, <3>2
  <2>2. ASSUME NEW k \in 1 .. (n - 1), k - 1 \in P
        PROVE  k \in P
    <3>1. (k - 1) + 1 = k /\ k \in 0 .. (n - 1)
      BY <1>1
    <3>2. going(k)
      BY <2>2, <3>1
    <3>3. going(k + 1)
      BY <1>9, <3>2
    <3> QED  BY <3>1, <3>3
  <2> HIDE DEF P
  <2>3. \A k \in 0 .. (n - 1) : k \in P
    BY <1>1, <2>1, <2>2, LoopInduction
  <2>4. n - 1 \in P /\ (n - 1) + 1 = n
    BY <1>1, <2>3
  <2> QED  BY <2>4 DEF P
<1>11. ~ w.starved /\ Came(d[n], f[n], hit(n), TRUE, K, c, e)
  <2>1. (n = n) = TRUE
    OBVIOUS
  <2> HIDE DEF hit, n
  <2> QED  BY <1>2, <1>10, <2>1
<1>12. PICK met : met = f[n]
  OBVIOUS
<1>17. PICK seen \in {TRUE, FALSE} : seen <=> hit(n)
  <2> HIDE DEF hit
  <2> QED  OBVIOUS
<1> seen \in BOOLEAN
  BY <1>17
<1>13. Left(parts) = CASE met.kind = "directory" ->
                             IF met.first \in img.bad THEN 1
                             ELSE 2 + BlocksFor(TotalItems(img.dirs[met.first]) * ENTRY)
                       [] met.kind = "file" -> 2
                       [] OTHER -> IF seen THEN 2 ELSE 0
  <2>1. (\E i \in 1 .. (n - 1) : fat16_get_directory_entry(img, SubSeq(parts, 1, i)).kind = "file") <=> seen
    BY <1>1, <1>5, <1>17
  <2>2. fat16_get_directory_entry(img, parts) = met
    BY <1>3, <1>12
  <2> HIDE DEF hit
  <2> QED  BY <2>1, <2>2 DEF Left
<1>14. Came(d[n], met, seen, TRUE, K, c, e)
  <2> HIDE DEF hit
  <2> QED  BY <1>11, <1>12, <1>17 DEF Came
<1>15. LET left == CASE met.kind = "directory" ->
                             IF met.first \in img.bad THEN 1
                             ELSE 2 + BlocksFor(TotalItems(img.dirs[met.first]) * ENTRY)
                         [] met.kind = "file" -> 2
                         [] OTHER -> IF seen THEN 2 ELSE 0
       IN  left \in Nat /\ Exact(d[n].w, K, c + left, e - 1)
  BY <1>14, CameTo
<1>16. Left(parts) \in Nat /\ Exact(d[n].w, K, c + Left(parts), e - 1)
  BY <1>13, <1>15
<1> QED  BY <1>2, <1>11, <1>16

(* Once a request was refused the walk knows, and so does the open.        *)
LEMMA EntryStarves ==
    ASSUME img \in Images, NEW parts, Len(parts) \in Nat \ {0}, NEW w, NEW L, Holds(w, L),
           ~ GetDirectoryEntry(w, parts).w.starved
    PROVE  ~ w.starved
<1> DEFINE n == Len(parts)
<1>1. n \in Nat \ {0} /\ n - 1 \in Nat
  OBVIOUS
<1>2. PICK d : /\ Walks(d, w, parts)
               /\ GetDirectoryEntry(w, parts) = d[n]
               /\ \A i \in 1 .. n : d[i] \in OnlyItem(L)
  BY WalkRuns
<1> HIDE DEF n
<1> DEFINE P == {k \in 0 .. (n - 1) : ~ d[k + 1].w.starved => ~ w.starved}
<1>3. 0 \in P
  <2>1. img.root \in Directories(img) \cup {<<>>}
    BY DEF Directories
  <2>2. d[1].w = FindItem(w, img.root, mount.root, parts[1]).w
    BY <1>2 DEF Walks, WalkStart, Walked
  <2>3. ~ d[1].w.starved => ~ w.starved
    <3>1. PICK dir, from, name : dir = img.root /\ from = mount.root /\ name = parts[1]
      OBVIOUS
    <3>2. dir \in Directories(img) \cup {<<>>} /\ d[1].w = FindItem(w, dir, from, name).w
      BY <2>1, <2>2, <3>1
    <3> QED  BY <3>2, FindStarves
  <2> QED  BY <1>1, <2>3
<1>4. ASSUME NEW k \in 1 .. (n - 1), k - 1 \in P
      PROVE  k \in P
  <2>1. k + 1 \in 2 .. n /\ (k + 1) - 1 = k /\ (k - 1) + 1 = k /\ k \in 1 .. n /\ k \in 0 .. (n - 1)
    BY <1>1
  <2>2. d[k + 1] = WalkStep(d[k], parts[k + 1])
    BY <1>2, <2>1 DEF Walks, n
  <2>3. d[k] \in OnlyItem(L)
    BY <1>2, <2>1
  <2>4. ~ d[k + 1].w.starved => ~ d[k].w.starved
    BY <2>2, <2>3, WalkStarves
  <2>5. ~ d[k].w.starved => ~ w.starved
    BY <1>4, <2>1
  <2> QED  BY <2>1, <2>4, <2>5
<1> HIDE DEF P
<1>5. \A k \in 0 .. (n - 1) : k \in P
  BY <1>1, <1>3, <1>4, LoopInduction
<1>6. n - 1 \in P /\ (n - 1) + 1 = n
  BY <1>1, <1>5
<1> QED  BY <1>2, <1>6 DEF P

LEMMA FileStarves ==
    ASSUME img \in Images, NEW parts, Len(parts) \in Nat \ {0}, NEW w, NEW L, Holds(w, L),
           ~ fat16_open(w, parts).w.starved
    PROVE  ~ w.starved
<1> DEFINE private == kzalloc(w, 1)
           first == GetDirectoryEntry(private.w, parts)
           second == GetDirectoryEntry(first.w, parts)
           pp == Piece(private.addr, 1)
           r == fat16_open(w, parts)
<1>1. Holds(private.w, L \cup pp)
  BY KzallocOne
<1>2. r.w \in {private.w, second.w}
  BY DEF fat16_open
<1>3. ~ private.w.starved => ~ w.starved
  BY Starving
<1>4. ~ first.w.starved => ~ private.w.starved
  BY <1>1, EntryStarves
<1>5. Keeps(first.w, L \cup pp, ItemAreas(first.item))
  BY <1>1, EntryGot
<1> HIDE DEF first
<1>6. ~ second.w.starved => ~ first.w.starved
  BY <1>5, EntryStarves DEF Keeps
<1> HIDE DEF private, second
<1> QED  BY <1>2, <1>3, <1>4, <1>6

(* What the two searches of an open keep, and its private part             *)
(* (fat16_open).                                                           *)
LEMMA FileExact ==
    ASSUME img \in Images, NEW parts \in NameLists, Len(parts) # 0,
           Unambiguous(parts), Followable(parts), NEW w, NEW L, Holds(w, L),
           NEW K, NEW c \in Nat, NEW e \in Nat, e > 2, ~ w.starved => Exact(w, K, c, e),
           ~ fat16_open(w, parts).w.starved
    PROVE  /\ ~ w.starved
           /\ fat16_open(w, parts).addr # NULL
           /\ Left(parts) \in Nat
           /\ Exact(fat16_open(w, parts).w, K, (c + 1) + 2 * Left(parts), e - 2)
<1> DEFINE private == kzalloc(w, 1)
           first == GetDirectoryEntry(private.w, parts)
           second == GetDirectoryEntry(first.w, parts)
           pp == Piece(private.addr, 1)
           r == fat16_open(w, parts)
<1>1. pp \cap L = {} /\ Holds(private.w, L \cup pp)
  BY KzallocOne
<1>2. r = IF private.addr = NULL THEN [w |-> private.w, addr |-> NULL, item |-> NullItem]
          ELSE [w |-> second.w, addr |-> private.addr, item |-> second.item]
  BY DEF fat16_open
<1>3. ~ private.w.starved <=> ~ w.starved /\ private.addr # NULL
  BY Starving
<1>4. ~ r.w.starved
  OBVIOUS
<1> HIDE DEF r
<1>5. private.addr # NULL /\ r.w = second.w /\ r.addr = private.addr
  <2> HIDE DEF private, second
  <2> QED  BY <1>2, <1>3, <1>4
<1>6. Len(parts) \in Nat \ {0}
  BY LenProperties DEF NameLists
<1>7. Keeps(first.w, L \cup pp, ItemAreas(first.item))
  BY <1>1, <1>6, EntryGot
<1>8. PICK u : u = private.w
  OBVIOUS
<1>9. PICK v : v = first.w
  OBVIOUS
<1>10. GetDirectoryEntry(u, parts).w = v /\ GetDirectoryEntry(v, parts).w = r.w
  BY <1>5, <1>8, <1>9
<1>11. PICK M : Holds(u, M)
  BY <1>1, <1>8
<1>12. PICK N : Holds(v, N)
  <2> HIDE DEF first, pp
  <2> QED  BY <1>7, <1>9 DEF Keeps
<1>13. ~ u.starved => ~ w.starved /\ Exact(u, K, c + 1, e)
  <2> SUFFICES ASSUME ~ u.starved PROVE ~ w.starved /\ Exact(u, K, c + 1, e)
    OBVIOUS
  <2>1. ~ w.starved /\ kzalloc(w, 1).addr # NULL
    BY <1>3, <1>8
  <2>2. Exact(kzalloc(w, 1).w, K \cup {Single(kzalloc(w, 1).addr)}, c + 1, e)
    BY <2>1, TakenOne
  <2>3. PICK J : J = K \cup {Single(kzalloc(w, 1).addr)}
    OBVIOUS
  <2>4. Exact(u, J, c + 1, e)
    BY <1>8, <2>2, <2>3
  <2>5. K \in SUBSET J /\ e <= e
    BY <2>3
  <2> QED  BY <2>1, <2>4, <2>5, ForgottenExact
<1> HIDE DEF private, first, second, pp
<1>14. ~ v.starved
  BY <1>4, <1>6, <1>10, <1>12, EntryStarves
<1>15. /\ ~ u.starved
       /\ Left(parts) \in Nat
       /\ Exact(GetDirectoryEntry(u, parts).w, K, (c + 1) + Left(parts), e - 1)
  <2>1. PICK m \in Nat : m = c + 1
    OBVIOUS
  <2>2. (~ u.starved => Exact(u, K, m, e)) /\ e > 1
    BY <1>13, <2>1
  <2>3. ~ GetDirectoryEntry(u, parts).w.starved
    BY <1>10, <1>14
  <2> QED  BY <1>11, <2>1, <2>2, <2>3, EntryExact
<1>16. Exact(GetDirectoryEntry(v, parts).w, K, ((c + 1) + Left(parts)) + Left(parts), (e - 1) - 1)
  <2>1. PICK m \in Nat, l \in Nat : m = (c + 1) + Left(parts) /\ l = e - 1
    BY <1>15
  <2>2. (~ v.starved => Exact(v, K, m, l)) /\ l > 1
    BY <1>10, <1>15, <2>1
  <2>3. ~ GetDirectoryEntry(v, parts).w.starved
    BY <1>4, <1>10
  <2> QED  BY <1>12, <2>1, <2>2, <2>3, EntryExact
<1>17. ((c + 1) + Left(parts)) + Left(parts) = (c + 1) + 2 * Left(parts) /\ (e - 1) - 1 = e - 2
  BY <1>15
<1> QED  BY <1>5, <1>10, <1>13, <1>15, <1>16, <1>17 DEF r

-----------------------------------------------------------------------------
(* A heap from which nothing is missing was never opened in.               *)
Grown == opened # NoOpen /\ ~ opened.starved => h # kheap_init

(* While nothing is refused the parser takes every name.                   *)
LEMMA ParsedNames ==
    ASSUME Formed, NEW L, Sound(h, L), NEW path \in Paths, ~ OpenParsed(path).w.starved
    PROVE  /\ OpenRoot.addr # NULL
           /\ OpenParsed(path).parts = Names(path)
           /\ Names(path) \in NameLists
           /\ Len(Names(path)) \in Nat
           /\ \A e \in Nat : Cardinality(Room(h)) >= e =>
                 Exact(OpenParsed(path).w, {}, (Cardinality(h.map) + 2) + 2 * Len(Names(path)), e)
<1> DEFINE w == [h |-> h, starved |-> FALSE]
           K == L \cup Piece(OpenRoot.addr, 1)
<1>1. Holds(OpenRoot.w, K) /\ OpenRoot.w.starved = (OpenRoot.addr = NULL)
  BY FopenHolds
<1>2. path.parts \in NameLists
  BY FileMemoryAssumption DEF NameLists
<1>3. Cardinality(h.map) \in Nat
  BY FS_CardinalityType DEF Sound, Counted
<1>4. ASSUME NEW e \in Nat, Cardinality(Room(h)) >= e, ~ OpenRoot.w.starved
      PROVE  Exact(OpenRoot.w, {}, Cardinality(h.map) + 1, e)
  <2>1. Exact(w, {}, Cardinality(h.map), e)
    <3>1. Holds(w, L)
      BY DEF Holds, Call, Sound
    <3> QED  BY <1>4, <3>1 DEF Exact
  <2>2. kzalloc(w, 1).addr # NULL /\ OpenRoot = kzalloc(w, 1)
    BY <1>1, <1>4 DEF OpenRoot
  <2> HIDE DEF w
  <2>3. PICK m \in Nat : m = Cardinality(h.map)
    BY <1>3
  <2>4. Exact(kzalloc(w, 1).w, {} \cup {Single(kzalloc(w, 1).addr)}, m + 1, e)
    BY <2>1, <2>2, <2>3, TakenOne
  <2>5. PICK J : J = {Single(kzalloc(w, 1).addr)}
    OBVIOUS
  <2>6. Exact(OpenRoot.w, J, m + 1, e) /\ {} \in SUBSET J /\ e <= e
    BY <2>2, <2>4, <2>5
  <2> QED  BY <2>3, <2>6, ForgottenExact
<1> HIDE DEF w, K
<1>5. PICK r : r = OpenRoot.w
  OBVIOUS
<1>6. OpenParsed(path) = Pathparser_parse(r, path.parts)
  BY <1>5 DEF OpenParsed
<1>7. PICK names : names = path.parts
  OBVIOUS
<1>8. ASSUME NEW J, NEW m \in Nat, NEW e \in Nat, ~ r.starved => Exact(r, J, m, e)
      PROVE  /\ ~ r.starved
             /\ \E k : /\ TakenFrom(OpenParsed(path).parts, names, k)
                       /\ k < Len(names) => names[k + 1] = Empty
                       /\ Exact(OpenParsed(path).w, J, m + 2 * k + 1, e)
  <2>1. LET q == Pathparser_parse(r, names)
        IN  /\ ~ r.starved
            /\ \E k : /\ TakenFrom(q.parts, names, k)
                      /\ k < Len(names) => names[k + 1] = Empty
                      /\ Exact(q.w, J, m + 2 * k + 1, e)
    <3>1. Holds(r, K) /\ names \in NameLists /\ ~ Pathparser_parse(r, names).w.starved
      BY <1>1, <1>2, <1>5, <1>6, <1>7
    <3> QED  BY <1>8, <3>1, ParsedExact
  <2> QED  BY <1>6, <1>7, <2>1
<1>9. ~ r.starved
  <2> SUFFICES ASSUME r.starved PROVE FALSE
    OBVIOUS
  <2>1. PICK J \in {{}}, m \in Nat, e \in Nat : m = 0 /\ e = 0
    OBVIOUS
  <2> QED  BY <1>8, <2>1
<1>10. OpenRoot.addr # NULL
  BY <1>1, <1>5, <1>9
<1>11. ASSUME NEW e \in Nat, Cardinality(Room(h)) >= e
       PROVE  /\ OpenParsed(path).parts = Names(path)
              /\ Names(path) \in NameLists
              /\ Len(Names(path)) \in Nat
              /\ Exact(OpenParsed(path).w, {}, (Cardinality(h.map) + 2) + 2 * Len(Names(path)), e)
  <2>1. PICK J \in {{}}, m \in Nat : m = Cardinality(h.map) + 1
    BY <1>3
  <2>2. Exact(r, J, m, e)
    BY <1>4, <1>5, <1>9, <1>11, <2>1
  <2>3. PICK k : /\ TakenFrom(OpenParsed(path).parts, names, k)
                 /\ k < Len(names) => names[k + 1] = Empty
                 /\ Exact(OpenParsed(path).w, J, m + 2 * k + 1, e)
    BY <1>8, <2>2
  <2>4. /\ OpenParsed(path).parts = Names(path)
        /\ Len(Names(path)) = k
        /\ Names(path) \in NameLists
    BY <1>7, <2>3, NamesExact
  <2>5. k \in Nat
    BY <2>4, LenProperties DEF NameLists
  <2>6. m + 2 * k + 1 = (Cardinality(h.map) + 2) + 2 * k
    BY <1>3, <2>1, <2>5
  <2> QED  BY <2>1, <2>3, <2>4, <2>5, <2>6
<1>12. Cardinality(Room(h)) >= 0 /\ 0 \in Nat
  BY RoomFinite
<1> QED  BY <1>10, <1>11, <1>12

(* What is said of an open does not change with the rest of the state.     *)
LEMMA SaidOfNames ==
    ASSUME img' = img
    PROVE  /\ \A names : Unambiguous(names)' <=> Unambiguous(names)
           /\ \A names : Left(names)' = Left(names)
<1>1. \A names : Unambiguous(names)' <=> Unambiguous(names)
  BY DEF Unambiguous
<1>2. \A names : Left(names)' = Left(names)
  BY DEF Left
<1> QED  BY <1>1, <1>2

(* An open that nothing was refused to keeps to the block what it leaves   *)
(* behind (fopen and everything it calls).                                 *)
LEMMA FopenExact ==
    ASSUME Formed, NEW L, Sound(h, L), NEW path \in Paths, NEW mode, fopen(path, mode)
    PROVE  OpenKeeps'
<1> DEFINE p == OpenParsed(path)
           o == OpenFile(path)
           d == OpenDesc(path)
           names == Names(path)
           base == Cardinality(h.map)
           asked == names # <<>> /\ path.drive = 0 /\ Mounted /\ mode = "r"
<1>1. /\ img' = img /\ mount' = mount
      /\ opened'.path = path /\ opened'.mode = mode
  <2>1. \E w, res : Ends(path, mode, w, res)
    BY FopenSteps
  <2>2. img' = img /\ mount' = mount
    BY FopenSteps
  <2> QED  BY <2>1, <2>2 DEF Ends
<1> SUFFICES ASSUME opened'.tabled, ~ opened'.starved, Unambiguous(names)
             PROVE  opened'.kept = 2 * Len(names) + 2
                                     + (IF asked THEN 1 + 2 * Left(names) ELSE 0)
                                     + (IF opened'.res # Refused THEN 1 ELSE 0)
  <2>1. (Mounted' <=> Mounted) /\ Names(opened.path)' = names
    BY <1>1 DEF Mounted, Names
  <2> HIDE DEF names
  <2>2. (Unambiguous(Names(opened.path))' <=> Unambiguous(names)) /\ Left(Names(opened.path))' = Left(names)
    BY <1>1, <2>1, SaidOfNames
  <2> QED  BY <1>1, <2>1, <2>2 DEF OpenKeeps
<1>2. Cardinality(Room(h)) >= 3 /\ base \in Nat
  <2>1. \E w, res : Ends(path, mode, w, res)
    BY FopenSteps
  <2>2. opened'.tabled = (Cardinality(Room(h)) >= 3)
    <3>1. PICK t : t = (Cardinality(Room(h)) >= 3)
      OBVIOUS
    <3>2. \E w, res : opened' = [path |-> path, mode |-> mode, res |-> res,
                                 kept |-> Cardinality(w.h.map) - Cardinality(h.map),
                                 starved |-> w.starved, tabled |-> t]
      BY <2>1, <3>1 DEF Ends, Room
    <3>3. opened'.tabled = t
      BY <3>2
    <3> QED  BY <3>1, <3>3
  <2>3. IsFiniteSet(h.map)
    BY DEF Sound, Counted
  <2>4. Cardinality(h.map) \in Nat
    BY <2>3, FS_CardinalityType
  <2> QED  BY <2>2, <2>4
<1>3. ASSUME NEW w, NEW res, Ends(path, mode, w, res)
      PROVE  /\ ~ w.starved
             /\ opened'.kept = Cardinality(w.h.map) - base
             /\ opened'.res = res
  BY <1>3 DEF Ends
<1> HIDE DEF p, o, d, names, base
<1>4. ASSUME ~ p.w.starved
      PROVE  /\ (asked <=> Asked(path, mode))
             /\ p.parts = names
             /\ names \in NameLists
             /\ Len(names) \in Nat
             /\ Exact(p.w, {}, (base + 2) + 2 * Len(names), 3)
  <2>1. /\ OpenRoot.addr # NULL
        /\ p.parts = names
        /\ names \in NameLists
        /\ Len(names) \in Nat
        /\ \A e \in Nat : Cardinality(Room(h)) >= e => Exact(p.w, {}, (base + 2) + 2 * Len(names), e)
    BY <1>4, ParsedNames DEF p, names, base
  <2> QED  BY <1>2, <2>1 DEF Asked, p
<1>7. img \in Images
  BY DEF Formed
<1>5. CASE ~ Asked(path, mode) /\ Ends(path, mode, p.w, Refused)
  <2>1. ~ p.w.starved /\ opened'.kept = Cardinality(p.w.h.map) - base /\ opened'.res = Refused
    BY <1>3, <1>5
  <2>2. ~ asked /\ Len(names) \in Nat /\ Cardinality(p.w.h.map) = (base + 2) + 2 * Len(names)
    BY <1>4, <1>5, <2>1 DEF Exact
  <2>3. opened'.kept = 2 * Len(names) + 2 + 0 + 0
    BY <1>2, <2>1, <2>2
  <2> HIDE DEF asked
  <2> QED  BY <2>1, <2>2, <2>3
<1>6. ASSUME Asked(path, mode), Followable(names), ~ o.w.starved
      PROVE  /\ asked /\ Len(names) \in Nat /\ Left(names) \in Nat
             /\ o.addr # NULL
             /\ Exact(o.w, {}, ((base + 2) + 2 * Len(names) + 1) + 2 * Left(names), 1)
  <2>1. PICK v : v = p.w
    OBVIOUS
  <2>2. PICK M : Holds(v, M)
    BY <2>1, FopenHolds DEF Keeps, p
  <2>3. PICK parts \in NameLists : parts = p.parts /\ Len(parts) # 0
    <3>1. PICK k : TakenFrom(p.parts, path.parts, k)
      BY FopenHolds DEF p
    <3>2. path.parts \in NameLists
      BY FileMemoryAssumption DEF NameLists
    <3>3. p.parts \in NameLists
      BY <3>1, <3>2, FirstParts DEF TakenFrom
    <3>4. Len(p.parts) \in Nat \ {0}
      BY <1>6, FopenHolds DEF Asked, p
    <3> QED  BY <3>3, <3>4
  <2>4. ~ fat16_open(v, parts).w.starved /\ o = fat16_open(v, parts)
    BY <1>6, <2>1, <2>3 DEF o, p, OpenFile
  <2>12. Len(parts) \in Nat \ {0}
    BY <2>3, LenProperties DEF NameLists
  <2>5. ~ v.starved
    BY <1>7, <2>2, <2>3, <2>4, <2>12, FileStarves
  <2>6. /\ asked /\ parts = names /\ Len(names) \in Nat
        /\ Exact(v, {}, (base + 2) + 2 * Len(names), 3)
    BY <1>4, <1>6, <2>1, <2>3, <2>5
  <2>7. PICK m \in Nat : m = (base + 2) + 2 * Len(names)
    BY <1>2, <2>6
  <2>8. Unambiguous(parts) /\ Followable(parts)
    BY <1>6, <2>6
  <2>9. PICK K : K = {}
    OBVIOUS
  <2>13. PICK e \in Nat : e = 3
    OBVIOUS
  <2>10. (~ v.starved => Exact(v, K, m, e)) /\ e > 2
    BY <2>6, <2>7, <2>9, <2>13
  <2> HIDE DEF asked
  <2>11. /\ fat16_open(v, parts).addr # NULL
         /\ Left(parts) \in Nat
         /\ Exact(fat16_open(v, parts).w, K, (m + 1) + 2 * Left(parts), e - 2)
    BY <1>7, <2>2, <2>3, <2>4, <2>8, <2>10, FileExact
  <2> QED  BY <2>4, <2>6, <2>7, <2>9, <2>11, <2>13
<1>8. CASE /\ Asked(path, mode) /\ Followable(names)
           /\ Ends(path, mode, o.w, Refused)
  <2>1. ~ o.w.starved /\ opened'.kept = Cardinality(o.w.h.map) - base /\ opened'.res = Refused
    BY <1>3, <1>8
  <2>2. /\ asked /\ Len(names) \in Nat /\ Left(names) \in Nat
        /\ Cardinality(o.w.h.map) = ((base + 2) + 2 * Len(names) + 1) + 2 * Left(names)
    BY <1>6, <1>8, <2>1 DEF Exact
  <2>3. opened'.kept = 2 * Len(names) + 2 + (1 + 2 * Left(names)) + 0
    BY <1>2, <2>1, <2>2
  <2> HIDE DEF asked
  <2> QED  BY <2>1, <2>2, <2>3
<1>9. CASE /\ Asked(path, mode) /\ Followable(names)
           /\ file_new_descriptor # Refused
           /\ Ends(path, mode, d.w, file_new_descriptor)
  <2>1. /\ ~ d.w.starved /\ opened'.kept = Cardinality(d.w.h.map) - base
        /\ opened'.res # Refused
    BY <1>3, <1>9
  <2>2. PICK v : v = o.w
    OBVIOUS
  <2>3. d = kzalloc(v, 1)
    BY <2>2 DEF d, o, OpenDesc
  <2>4. ~ v.starved /\ kzalloc(v, 1).addr # NULL
    BY <2>1, <2>3, Starving
  <2>5. /\ asked /\ Len(names) \in Nat /\ Left(names) \in Nat
        /\ Exact(v, {}, ((base + 2) + 2 * Len(names) + 1) + 2 * Left(names), 1)
    BY <1>6, <1>9, <2>2, <2>4
  <2>6. PICK m \in Nat : m = ((base + 2) + 2 * Len(names) + 1) + 2 * Left(names)
    BY <1>2, <2>5
  <2>7. Exact(v, {}, m, 1)
    BY <2>5, <2>6
  <2> HIDE DEF asked
  <2>8. Exact(kzalloc(v, 1).w, {} \cup {Single(kzalloc(v, 1).addr)}, m + 1, 1)
    BY <2>4, <2>7, TakenOne
  <2>9. Cardinality(d.w.h.map) = m + 1
    BY <2>3, <2>8 DEF Exact
  <2>10. opened'.kept = 2 * Len(names) + 2 + (1 + 2 * Left(names)) + 1
    BY <1>2, <2>1, <2>5, <2>6, <2>9
  <2> QED  BY <2>1, <2>5, <2>10
<1> QED  BY <1>5, <1>8, <1>9, FopenSteps DEF p, o, d, names

(* The structure of the path's root is there for good.                     *)
LEMMA FopenGrows ==
    ASSUME Formed, NEW L, Sound(h, L), NEW path \in Paths, NEW mode, fopen(path, mode)
    PROVE  Grown'
<1> SUFFICES ASSUME ~ opened'.starved PROVE h' # kheap_init
  BY DEF Grown
<1> DEFINE K == L \cup Piece(OpenRoot.addr, 1)
<1>1. ASSUME NEW w, NEW A, Keeps(w, K, A), h' = w.h, OpenRoot.addr # NULL
      PROVE  h' # kheap_init
  <2>1. PICK M : Sound(h', M) /\ K \subseteq M
    BY <1>1 DEF Keeps, Holds
  <2>2. M # {}
    BY <1>1, <2>1 DEF Piece
  <2> QED  BY <2>1, <2>2, FreshHeap
<1>2. Keeps(OpenParsed(path).w, K, {})
  BY FopenHolds
<1>3. CASE ~ Asked(path, mode) /\ Ends(path, mode, OpenParsed(path).w, Refused)
  <2>1. ~ OpenParsed(path).w.starved /\ h' = OpenParsed(path).w.h
    BY <1>3 DEF Ends
  <2>2. OpenRoot.addr # NULL
    BY <2>1, ParsedNames
  <2> QED  BY <1>1, <1>2, <2>1, <2>2
<1>4. ASSUME Asked(path, mode)
      PROVE  /\ OpenRoot.addr # NULL
             /\ \E A : Keeps(OpenFile(path).w, K, A)
             /\ \E A : Keeps(OpenDesc(path).w, K, A)
  <2>1. PICK o, A : o = OpenFile(path) /\ Keeps(o.w, K, A)
    BY <1>4, FileHolds DEF Asked
  <2> HIDE DEF K
  <2>2. PICK M : Holds(o.w, M) /\ K \subseteq M
    BY <2>1 DEF Keeps
  <2>3. Holds(kzalloc(o.w, 1).w, M \cup Piece(kzalloc(o.w, 1).addr, 1))
    BY <2>2, KzallocOne
  <2>4. Keeps(kzalloc(o.w, 1).w, K, {})
    BY <2>2, <2>3 DEF Keeps
  <2>5. Keeps(OpenDesc(path).w, K, {})
    BY <2>1, <2>4 DEF OpenDesc
  <2> QED  BY <1>4, <2>1, <2>5 DEF Asked
<1>5. CASE Asked(path, mode) /\ \E res : Ends(path, mode, OpenFile(path).w, res)
  <2>1. h' = OpenFile(path).w.h
    BY <1>5 DEF Ends
  <2> HIDE DEF K
  <2> QED  BY <1>1, <1>4, <1>5, <2>1
<1>6. CASE Asked(path, mode) /\ \E res : Ends(path, mode, OpenDesc(path).w, res)
  <2>1. h' = OpenDesc(path).w.h
    BY <1>6 DEF Ends
  <2> HIDE DEF K
  <2> QED  BY <1>1, <1>4, <1>6, <2>1
<1> QED  BY <1>3, <1>5, <1>6, FopenSteps

(* OpenKeeps, of the last open; nothing is mounted behind one that was not *)
(* refused anything, whose heap is no longer the first.                    *)
KeepsInv == IInv /\ OpenKeeps /\ Grown

LEMMA NextKeeps == KeepsInv /\ [Next]_vars => KeepsInv'
<1> SUFFICES ASSUME KeepsInv, [Next]_vars PROVE OpenKeeps' /\ Grown'
  BY NextInvariant DEF KeepsInv
<1>1. PICK L : Sound(h, L)
  BY DEF KeepsInv, IInv, Owned
<1>2. Formed /\ OpenKeeps /\ Grown
  BY DEF KeepsInv, IInv
<1>3. CASE disk_search_init
  <2>1. h = kheap_init /\ opened' = opened
    BY <1>3 DEF disk_search_init
  <2>2. opened = NoOpen \/ opened.starved
    BY <1>2, <2>1 DEF Grown
  <2> QED  BY <2>1, <2>2 DEF OpenKeeps, Grown
<1>4. ASSUME NEW path \in Paths, NEW mode \in {"r", "w"}, fopen(path, mode)
      PROVE  OpenKeeps' /\ Grown'
  BY <1>1, <1>2, <1>4, FopenExact, FopenGrows
<1>5. ASSUME NEW size \in SIZES, Elsewhere(size)
      PROVE  OpenKeeps' /\ Grown'
  <2>1. opened' = NoOpen
    BY <1>5 DEF Elsewhere
  <2> QED  BY <2>1 DEF OpenKeeps, Grown, NoOpen
<1>6. CASE UNCHANGED vars
  <2>1. img' = img /\ opened' = opened /\ h' = h /\ mount' = mount
    BY <1>6 DEF vars
  <2>2. (Mounted' <=> Mounted) /\ Names(opened.path)' = Names(opened.path)
    BY <2>1 DEF Mounted, Names
  <2>3. PICK names : names = Names(opened.path)
    OBVIOUS
  <2>4. (Unambiguous(names)' <=> Unambiguous(names)) /\ Left(names)' = Left(names)
    BY <2>1, SaidOfNames
  <2>5. OpenKeeps'
    BY <1>2, <2>1, <2>2, <2>3, <2>4 DEF OpenKeeps
  <2> QED  BY <1>2, <2>1, <2>5 DEF Grown
<1> QED  BY <1>3, <1>4, <1>5, <1>6 DEF Next

(* What an open that nothing was refused to keeps for ever is known to the *)
(* block, on every disk and for every path the search can follow: two for  *)
(* each name, two, and where there is something to look for the private    *)
(* part and twice what a search makes (fopen and everything it calls).     *)
THEOREM OpensKeep == Spec => []OpenKeeps
<1>1. Init => KeepsInv
  <2>1. Init => opened = NoOpen
    BY DEF Init
  <2> QED  BY <2>1, InitInvariant DEF KeepsInv, OpenKeeps, Grown
<1>2. KeepsInv => OpenKeeps
  BY DEF KeepsInv
<1> QED  BY <1>1, <1>2, NextKeeps, PTL DEF Spec
=============================================================================
