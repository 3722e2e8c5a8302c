----------------------------- MODULE Allocator -----------------------------
(***************************************************************************)
(* The kernel heap in use: its callers request memory of the sizes in      *)
(* SIZES, release what they were given, and may release the null pointer   *)
(* (get_path_part does, path_parser.c:52, when its kzalloc failed).  No    *)
(* caller releases anything else.  Interrupts are disabled while the       *)
(* kernel runs, so that a call is one step.                                *)
(*                                                                         *)
(* h is the state of the code.  live, lost, ret, zeroed and strays are     *)
(* history: what callers own, what a kfree failed to give back, the        *)
(* result of the last request and what its memset wrote, and how often the *)
(* null pointer reached pmm_free_block.                                    *)
(***************************************************************************)
EXTENDS Kheap

CONSTANTS SIZES,            \* sizes in bytes that callers request
          MAX_STRAYS        \* bound on strays

ASSUME AllocatorAssumption == SIZES \subseteq Nat /\ MAX_STRAYS \in Nat

VARIABLES h, live, lost, ret, zeroed, strays

vars == <<h, live, lost, ret, zeroed, strays>>

Blocks(a) == Area(a.addr, a.blocks)

Owned == UNION {Blocks(a) : a \in live}

Init == /\ h = kheap_init
        /\ live = {}
        /\ lost = {}
        /\ ret = NULL
        /\ zeroed = {}
        /\ strays = 0

(* What a request of that size leaves, z being what its memset wrote. *)
Request(size, z) ==
    LET r == kmallac(h, size)
        n == BlocksFor(size)
    IN  /\ h' = r.h
        /\ ret' = r.addr
        /\ zeroed' = IF z THEN Zeroed(r.addr, size) ELSE {}
        /\ live' = IF r.addr = NULL
                   THEN live
                   ELSE live \cup {[addr |-> r.addr, blocks |-> n,
                                    tracked |-> n = 1 \/ search_address(h, NULL) # 0]}
        /\ UNCHANGED <<lost, strays>>

Kmallac(size) == Request(size, FALSE)

Kzalloc(size) == Request(size, TRUE)

Kfree(a) ==
    /\ h' = kfree(h, a.addr)
    /\ live' = live \ {a}
    /\ lost' = IF a.tracked THEN lost ELSE lost \cup (Blocks(a) \ {a.addr})
    /\ UNCHANGED <<ret, zeroed, strays>>

(* kfree(0): harmless while an entry of the table is empty, since the      *)
(* search finds that entry, of 0 blocks; with a full table block 0 is      *)
(* released.                                                               *)
KfreeNull ==
    /\ search_address(h, NULL) = 0 => strays < MAX_STRAYS
    /\ h' = kfree(h, NULL)
    /\ strays' = IF search_address(h, NULL) = 0 THEN strays + 1 ELSE strays
    /\ UNCHANGED <<live, lost, ret, zeroed>>

Next == \/ \E size \in SIZES : Kmallac(size) \/ Kzalloc(size)
        \/ \E a \in live : Kfree(a)
        \/ KfreeNull

Spec == Init /\ [][Next]_vars

-----------------------------------------------------------------------------
Allocation == [addr : Nat, blocks : Nat, tracked : BOOLEAN]

TypeOK ==
    /\ h \in [map : SUBSET Nat, used : Int, free : Int, big : [Slots -> Entry]]
    /\ live \in SUBSET Allocation
    /\ lost \in SUBSET Nat
    /\ ret \in Nat
    /\ zeroed \in SUBSET Nat
    /\ strays \in Nat

(* No two callers are given a block in common, none is given a block of    *)
(* the kernel's own, and no block anyone owns is free for the next request *)
(* (kmallac, kfree and the table between them).                            *)
LiveDisjoint ==
    /\ \A a \in live : /\ Blocks(a) \subseteq h.map \cap (RESERVED_BLOCKS .. (SYSTEM_BLOCKS - 1))
                       /\ a.addr \in Blocks(a)
    /\ \A a, b \in live : a # b => Blocks(a) \cap Blocks(b) = {}

(* A run longer than the kernel's own memory may be refused, which marks   *)
(* memory nobody owns (pmm_allocate_first_n_blocks sets the bits before    *)
(* it tests the search's result).                                          *)
SmallRequests == \A size \in SIZES : BlocksFor(size) <= RESERVED_BLOCKS

(* The bitmap marks exactly the kernel's own blocks, what callers own and  *)
(* what was lost; block 0 may be missing once the null pointer was freed.  *)
MapExact ==
    LET marked == Reserved \cup Owned \cup lost
    IN  \/ h.map = marked
        \/ strays > 0 /\ h.map = marked \ {NULL}

(* pmm_free_blocks and pmm_used_blocks agree with the bitmap after every   *)
(* sequence of calls: pmm.c:9 calls the counter the free blocks of the     *)
(* system.                                                                 *)
CountersExact ==
    strays = 0 => /\ h.used = Cardinality(h.map \cap (0 .. (SYSTEM_BLOCKS - 1)))
                  /\ h.free = SYSTEM_BLOCKS - h.used

(* The table of big blocks holds the tracked multi-block allocations and   *)
(* nothing else, each once: kfree gives back what kmallac took.            *)
BigTableExact ==
    /\ {h.big[i] : i \in {j \in Slots : h.big[j].addr # NULL}}
          = {[addr |-> a.addr, blocks |-> a.blocks] :
                a \in {b \in live : b.blocks > 1 /\ b.tracked}}
    /\ \A i, j \in Slots : h.big[i].addr = h.big[j].addr /\ i # j
                             => h.big[i].addr = NULL

(* kzalloc's memset never writes a block that another caller owns, though  *)
(* it runs on the null pointer when the request was refused.               *)
ZeroingMissesOwners ==
    \A a \in live : a.addr # ret => zeroed \cap Blocks(a) = {}

(* The heap behaves as the pool of blocks that BlockPool specifies. *)
Pool == INSTANCE BlockPool WITH
            Counts <- {BlocksFor(size) : size \in SIZES},
            jammed <- NULL \notin h.map

ImplementsPool == Pool!Spec
=============================================================================
