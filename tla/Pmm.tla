-------------------------------- MODULE Pmm --------------------------------
(***************************************************************************)
(* The physical memory manager (src/src/memory/pmm/pmm.c): a bitmap with   *)
(* one bit per 4 KiB block and two counters.  Its state is the record      *)
(*                                                                         *)
(*   map   the set of block numbers whose bit is set in pmm_memory_map     *)
(*   used  pmm_used_blocks                                                 *)
(*   free  pmm_free_blocks                                                 *)
(*                                                                         *)
(* possibly with fields of the layers above it, which the operators leave  *)
(* alone.  An operator takes the state before the call and returns the     *)
(* state after it, with the address the call returns if it returns one.    *)
(* An address is a block number: every address the manager handles is a    *)
(* multiple of the block size, and the null pointer is block 0.            *)
(***************************************************************************)
EXTENDS Integers, FiniteSets

CONSTANTS SYSTEM_BLOCKS,    \* blocks of the machine: kernel.c passes 250000
          RESERVED_BLOCKS   \* the kernel's own blocks: kernel.c passes 25000

ASSUME PmmAssumption ==
    /\ SYSTEM_BLOCKS \in Nat
    /\ RESERVED_BLOCKS \in Nat
    /\ 1 <= RESERVED_BLOCKS
    /\ RESERVED_BLOCKS <= SYSTEM_BLOCKS

NULL == 0

(* The blocks of an n-block area that starts at block a. *)
Area(a, n) == a .. (a + n - 1)

Reserved == 0 .. (RESERVED_BLOCKS - 1)

(* Memory is taken to be zero when the kernel starts: pmm_init clears only *)
(* the first PMM_MAX_BLOCKS bits of the map.                               *)
pmm_init == [map  |-> Reserved,
             used |-> RESERVED_BLOCKS,
             free |-> SYSTEM_BLOCKS - RESERVED_BLOCKS]

(* The first clear bit below SYSTEM_BLOCKS, or -1. *)
pmm_get_first_free_block(h) ==
    LET first == {i \in 0 .. (SYSTEM_BLOCKS - 1) :
                    i \notin h.map /\ \A j \in 0 .. (i - 1) : j \in h.map}
    IN  IF first = {} THEN -1 ELSE CHOOSE i \in first : TRUE

(* Mutants: the counters swapped; the test of the frame dropped. *)
pmm_allocate_block_Swapped(h) ==
    LET frame == pmm_get_first_free_block(h)
    IN  IF h.free = 0 \/ frame <= 0
        THEN [h |-> h, addr |-> NULL]
        ELSE [h    |-> [h EXCEPT !.map  = @ \cup {frame},
                                 !.used = @ - 1,
                                 !.free = @ + 1],
              addr |-> frame]

pmm_allocate_block_Unchecked(h) ==
    LET frame == pmm_get_first_free_block(h)
    IN  IF h.free = 0
        THEN [h |-> h, addr |-> NULL]
        ELSE [h    |-> [h EXCEPT !.map  = @ \cup {frame},
                                 !.used = @ + 1,
                                 !.free = @ - 1],
              addr |-> frame]

(* Block 0 is the null pointer: when its bit is clear every call fails. *)
pmm_allocate_block(h) ==
    LET frame == pmm_get_first_free_block(h)
    IN  IF h.free = 0 \/ frame <= 0
        THEN [h |-> h, addr |-> NULL]
        ELSE [h    |-> [h EXCEPT !.map  = @ \cup {frame},
                                 !.used = @ + 1,
                                 !.free = @ - 1],
              addr |-> frame]

(* Mutant: the counters swapped. *)
pmm_free_block_Swapped(h, a) == [h EXCEPT !.map  = @ \ {a},
                                          !.used = @ + 1,
                                          !.free = @ - 1]

(* Nothing asks whether the block was allocated. *)
pmm_free_block(h, a) == [h EXCEPT !.map  = @ \ {a},
                                  !.used = @ - 1,
                                  !.free = @ + 1]

(* Mutant: the last block of the range is not looked at. *)
pmm_check_range_Short(h, start, end) == \A i \in start .. (end - 2) : i \notin h.map

(* pmm_check_range is 0: no bit of [start, end) is set. *)
pmm_check_range(h, start, end) == \A i \in start .. (end - 1) : i \notin h.map

(* Mutant: the search ends one run too early. *)
pmm_get_first_n_blocks_Early(h, n) ==
    LET starts == 1 .. (SYSTEM_BLOCKS - n - 2)
        first  == {s \in starts :
                     /\ pmm_check_range(h, s, s + n)
                     /\ \A r \in 1 .. (s - 1) : ~ pmm_check_range(h, r, r + n)}
    IN  IF first = {} THEN 0 ELSE CHOOSE s \in first : TRUE

(* The first run of n clear bits.  The search starts at block 1 and stops  *)
(* as soon as the run's end reaches SYSTEM_BLOCKS, so that no run ever     *)
(* takes the last block.                                                   *)
pmm_get_first_n_blocks(h, n) ==
    LET starts == 1 .. (SYSTEM_BLOCKS - n - 1)
        first  == {s \in starts :
                     /\ pmm_check_range(h, s, s + n)
                     /\ \A r \in 1 .. (s - 1) : ~ pmm_check_range(h, r, r + n)}
    IN  IF first = {} THEN 0 ELSE CHOOSE s \in first : TRUE

(* The bits are set before the result of the search is tested: a search    *)
(* that fails returns 0 and the call marks blocks 0 .. n-1 before it       *)
(* returns the null pointer, without counting them.                        *)
pmm_allocate_first_n_blocks(h, n) ==
    LET start  == pmm_get_first_n_blocks(h, n)
        marked == [h EXCEPT !.map = @ \cup Area(start, n)]
    IN  IF start = 0
        THEN [h |-> marked, addr |-> NULL]
        ELSE [h    |-> [marked EXCEPT !.used = @ + n, !.free = @ - n],
              addr |-> start]
=============================================================================
