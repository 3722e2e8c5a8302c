------------------------------ MODULE MCKernel ------------------------------
(***************************************************************************)
(* A machine of a few blocks for TLC.  Pages of two bytes; three reserved  *)
(* pages are the stack's (2), one is left out, then come the program's and *)
(* the kernel stack's as in the real layout.  Memory is short: of three    *)
(* loads some fail, and few calls of sys_write exhaust what is left.       *)
(***************************************************************************)
EXTENDS Kernel

MCTasks == 1 .. 3

MCFiles == {"small", "large", "absent", "broken"}

MCFileSize == [f \in MCFiles |-> CASE f = "small"  -> 2
                                   [] f = "large"  -> 5
                                   [] f = "absent" -> Missing
                                   [] f = "broken" -> 2]

MCUnreadable == {"broken"}
=============================================================================
