----------------------------- MODULE MCRunQueue -----------------------------
(***************************************************************************)
(* Directories of one table: a task takes four blocks.                     *)
(***************************************************************************)
EXTENDS RunQueue

MCTasks == 1 .. (SYSTEM_BLOCKS - 1)
=============================================================================
