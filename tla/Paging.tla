------------------------------- MODULE Paging -------------------------------
(***************************************************************************)
(* Page directories (src/src/memory/paging/paging.c) as operators.  A      *)
(* directory is a function from virtual page numbers to entries: the       *)
(* frame, and whether user mode may write it (PTE_WRITEABLE; every entry   *)
(* is present and readable by user mode).  What the two levels of tables   *)
(* hold is that function; where they are is the chunk.  Virtual pages      *)
(* beyond the machine's memory are left out: nothing maps them but to      *)
(* themselves.                                                             *)
(*                                                                         *)
(* A chunk, which is what task->page_directory points at, is the record of *)
(* its own address, the address of the directory, and the addresses that   *)
(* the directory's entries hold.                                           *)
(***************************************************************************)
EXTENDS Kheap, Sequences

CONSTANT TABLES             \* page tables of a directory: 1024

ASSUME PagingAssumption == TABLES \in Nat

Pages == 0 .. (SYSTEM_BLOCKS - 1)

Directory == [Pages -> [frame : Pages, write : BOOLEAN]]

(* n single blocks taken one after another, up to the first refusal: what  *)
(* was taken before it stays taken.                                        *)
TakeBlocks(h, n) ==
    LET take[i \in 0 .. n] ==
            IF i = 0 THEN [h |-> h, got |-> <<>>, ok |-> TRUE]
            ELSE LET p == take[i - 1]
                     r == pmm_allocate_block(p.h)
                 IN  IF ~ p.ok \/ r.addr = NULL
                     THEN [p EXCEPT !.ok = FALSE]
                     ELSE [h |-> r.h, got |-> Append(p.got, r.addr), ok |-> TRUE]
    IN  take[n]

NoChunk == [addr |-> NULL, directory |-> NULL, entry |-> [i \in 0 .. (TABLES - 1) |-> NULL]]

(* The directory, its tables, which its entries point at, and the chunk    *)
(* that points to it; the result is null if a block is refused (of the     *)
(* chunk too, which is written through the null pointer first).            *)
paging_new_4gb(h) ==
    LET r == TakeBlocks(h, TABLES + 2)
    IN  [h     |-> r.h,
         ok    |-> r.ok,
         got   |-> {r.got[i] : i \in 1 .. Len(r.got)},
         chunk |-> IF r.ok
                   THEN [addr      |-> r.got[TABLES + 2],
                         directory |-> r.got[1],
                         entry     |-> [i \in 0 .. (TABLES - 1) |-> r.got[i + 2]]]
                   ELSE NoChunk]

(* What a chunk leads to: the tables of its directory's entries, the       *)
(* directory, and the chunk itself.                                        *)
ChunkBlocks(chunk) ==
    {chunk.entry[i] : i \in DOMAIN chunk.entry} \cup {chunk.directory, chunk.addr}

(* Mutant: the loop ends one table early. *)
paging_free_4gb_Short(h, chunk) ==
    [h EXCEPT !.map  = @ \ ({chunk.entry[i] : i \in 0 .. (TABLES - 2)}
                                \cup {chunk.directory, chunk.addr}),
              !.used = @ - (TABLES + 1),
              !.free = @ + (TABLES + 1)]

(* pmm_free_block of the table of each entry read from the directory, of   *)
(* the directory and of the chunk: each call counts one block.             *)
paging_free_4gb(h, chunk) ==
    [h EXCEPT !.map  = @ \ ChunkBlocks(chunk),
              !.used = @ - (TABLES + 2),
              !.free = @ + (TABLES + 2)]

(* The entries paging_new_4gb writes: every page mapped to itself.         *)
Identity(write) == [v \in Pages |-> [frame |-> v, write |-> write]]

paging_set(dir, v, entry) == [dir EXCEPT ![v] = entry]

paging_map(dir, v, f, write) == paging_set(dir, v, [frame |-> f, write |-> write])

paging_map_range(dir, v, f, n, write) ==
    [p \in Pages |-> IF p \in Area(v, n)
                     THEN [frame |-> f + (p - v), write |-> write]
                     ELSE dir[p]]

(* Mutant: an aligned end is aligned up again. *)
AlignedPages_Up(size) == size \div PAGE + 1

(* The number of pages from the block at the start of size bytes to the    *)
(* page boundary at or after their end (paging_align_address).             *)
AlignedPages(size) == (size + PAGE - 1) \div PAGE

paging_map_to(dir, v, f, size, write) ==
    paging_map_range(dir, v, f, AlignedPages(size), write)
=============================================================================
