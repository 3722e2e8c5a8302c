----------------------------- MODULE BlockPool -----------------------------
(***************************************************************************)
(* What the kernel's allocator promises its callers, without bitmap,       *)
(* counters or table: a pool of blocks, each owned by at most one          *)
(* allocation.  It is exact about the two ways in which it disappoints.    *)
(*                                                                         *)
(*   - At most BIG_ADDRESS multi-block allocations are tracked at a time.  *)
(*     Releasing one that is not gives back its first block only; the      *)
(*     others are lost.                                                    *)
(*   - While the pool is jammed (the null block was released), it refuses  *)
(*     every request for a single block.  A refused request for several    *)
(*     blocks ends the jam.                                                *)
(***************************************************************************)
EXTENDS Integers, FiniteSets

CONSTANTS SYSTEM_BLOCKS, RESERVED_BLOCKS, BIG_ADDRESS,
          Counts            \* the numbers of blocks callers ask for

VARIABLES live,             \* allocations: [addr, blocks, tracked]
          lost,             \* blocks that no call can give back any more
          ret,              \* address returned by the last request, 0 if refused
          jammed

vars == <<live, lost, ret, jammed>>

Blocks(a) == a.addr .. (a.addr + a.blocks - 1)

Free == ((RESERVED_BLOCKS .. (SYSTEM_BLOCKS - 1)) \ lost)
            \ UNION {Blocks(a) : a \in live}

Tracked == {a \in live : a.blocks > 1 /\ a.tracked}

Init == live = {} /\ lost = {} /\ ret = 0 /\ jammed = FALSE

(* n blocks in a row that nobody owns. *)
Grant(n) ==
    \E s \in Free :
        /\ s .. (s + n - 1) \subseteq Free
        /\ n = 1 => ~ jammed
        /\ live' = live \cup
             {[addr |-> s, blocks |-> n,
               tracked |-> n = 1 \/ Cardinality(Tracked) < BIG_ADDRESS]}
        /\ ret' = s
        /\ UNCHANGED <<lost, jammed>>

(* A single block is refused only if none is free; a run of blocks only if *)
(* every run of that length has an owned block or the machine's last one.  *)
Refuse(n) ==
    /\ IF n = 1
       THEN Free = {} \/ jammed
       ELSE \A s \in Free : ~ (s .. (s + n - 1) \subseteq Free \ {SYSTEM_BLOCKS - 1})
    /\ ret' = 0
    /\ jammed' = (n = 1 /\ jammed)
    /\ UNCHANGED <<live, lost>>

Release(a) ==
    /\ live' = live \ {a}
    /\ lost' = IF a.tracked THEN lost ELSE lost \cup (Blocks(a) \ {a.addr})
    /\ UNCHANGED <<ret, jammed>>

Jam == jammed' = TRUE /\ UNCHANGED <<live, lost, ret>>

Next == \/ \E n \in Counts : Grant(n) \/ Refuse(n)
        \/ \E a \in live : Release(a)
        \/ Jam

Spec == Init /\ [][Next]_vars
=============================================================================
