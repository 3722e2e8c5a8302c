---------------------------- MODULE MCAllocator ----------------------------
(***************************************************************************)
(* A heap of a few blocks for TLC: pages of two bytes, so that a size is   *)
(* below, at and above the page size and a multiple of it or not.          *)
(***************************************************************************)
EXTENDS Allocator

MCSizes == {0, 2, 3, 6}        \* 1, 1, 2 and 3 blocks

MCLargeSizes == {2, 3, 8}      \* 1, 2 and 4 blocks: more than is reserved
=============================================================================
