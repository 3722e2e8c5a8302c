------------------------------- MODULE Kheap -------------------------------
(***************************************************************************)
(* The kernel heap (src/src/memory/heap/kheap.c), a layer of pure          *)
(* operators over Pmm: requests of at most one page take one block, larger *)
(* ones a run of blocks that a table of BIG_ADDRESS entries remembers, so  *)
(* that kfree knows how many blocks to give back.  The heap's state is     *)
(* Pmm's record with one more field, big, the table big_blocks.            *)
(***************************************************************************)
EXTENDS Pmm

CONSTANTS BIG_ADDRESS,      \* entries of the table: 100 in kheap.c
          PAGE              \* bytes in a block: 4096

ASSUME KheapAssumption ==
    /\ BIG_ADDRESS \in Nat
    /\ PAGE \in Nat
    /\ PAGE > 0

Slots == 1 .. BIG_ADDRESS

(* An entry of the table: an area's address and number of blocks. *)
Entry == [addr : Nat, blocks : Nat]

EmptyEntry == [addr |-> NULL, blocks |-> 0]

(* big_blocks_init is never called; the table is zero as static storage. *)
kheap_init == [map  |-> pmm_init.map,
               used |-> pmm_init.used,
               free |-> pmm_init.free,
               big  |-> [i \in Slots |-> EmptyEntry]]

(* search_address: the first entry with that address, 0 if there is none.  *)
(* The null pointer finds the first empty entry.                           *)
search_address(h, a) ==
    LET first == {i \in Slots : /\ h.big[i].addr = a
                                /\ \A j \in 1 .. (i - 1) : h.big[j].addr # a}
    IN  IF first = {} THEN 0 ELSE CHOOSE i \in first : TRUE

(* A table with no empty entry drops the new one without a word. *)
insert_in_big_blocks(h, a, n) ==
    LET slot == search_address(h, NULL)
    IN  IF slot = 0
        THEN h
        ELSE [h EXCEPT !.big[slot] = [addr |-> a, blocks |-> n]]

(* Mutants: the last block stays marked; the counters stay as they were;   *)
(* the entry stays in the table.                                           *)
free_big_blocks_Short(h, slot) ==
    LET a == h.big[slot].addr
        n == h.big[slot].blocks
    IN  [h EXCEPT !.map  = @ \ Area(a, n - 1),
                  !.used = @ - n,
                  !.free = @ + n,
                  !.big[slot] = EmptyEntry]

free_big_blocks_Uncounted(h, slot) ==
    [h EXCEPT !.map = @ \ Area(h.big[slot].addr, h.big[slot].blocks),
              !.big[slot] = EmptyEntry]

free_big_blocks_Kept(h, slot) ==
    LET a == h.big[slot].addr
        n == h.big[slot].blocks
    IN  [h EXCEPT !.map  = @ \ Area(a, n),
                  !.used = @ - n,
                  !.free = @ + n]

(* free_big_blocks of an address found in the table. *)
free_big_blocks(h, slot) ==
    LET a == h.big[slot].addr
        n == h.big[slot].blocks
    IN  [h EXCEPT !.map  = @ \ Area(a, n),
                  !.used = @ - n,
                  !.free = @ + n,
                  !.big[slot] = EmptyEntry]

(* The number of blocks a request of size bytes takes. *)
BlocksFor(size) == IF size > PAGE
                   THEN size \div PAGE + IF size % PAGE = 0 THEN 0 ELSE 1
                   ELSE 1

kmallac(h, size) ==
    IF size > PAGE
    THEN LET r == pmm_allocate_first_n_blocks(h, BlocksFor(size))
         IN  IF r.addr = NULL
             THEN r
             ELSE [r EXCEPT !.h = insert_in_big_blocks(@, r.addr, BlocksFor(size))]
    ELSE pmm_allocate_block(h)

(* Every address the kernel frees came from kmallac or is null: it is a    *)
(* multiple of the page size and the early return is never taken.          *)
kfree(h, a) ==
    IF search_address(h, a) # 0
    THEN free_big_blocks(h, search_address(h, a))
    ELSE pmm_free_block(h, a)

(* Mutant: memset rounds the size up past a full page. *)
Zeroed_Past(a, size) == Area(a, size \div PAGE + 1)

(* The blocks kzalloc's memset writes: it does not test kmallac's result,  *)
(* so that a refused request zeroes memory from address 0 on.              *)
Zeroed(a, size) == IF size = 0 THEN {} ELSE Area(a, BlocksFor(size))
=============================================================================
