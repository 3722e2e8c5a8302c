------------------------------ MODULE TaskList ------------------------------
(***************************************************************************)
(* The kernel's list of tasks (src/src/task/task.c): a doubly linked list  *)
(* with a head, a tail and the task that runs.  Its state is the record    *)
(*                                                                         *)
(*   head, tail, current   task_head, task_tail, current_task              *)
(*   next, prev            the link fields of every task structure         *)
(*                                                                         *)
(* A task is a positive number, the null pointer is 0.  The fields of a    *)
(* structure that was freed stay as they were until it is used again.      *)
(***************************************************************************)
EXTENDS Integers, FiniteSets, Sequences

CONSTANT Tasks              \* the task structures there can be

ASSUME TaskListAssumption == Tasks \subseteq Nat \ {0}

NoTask == 0

Link == Tasks \cup {NoTask}

ListType == [head : Link, tail : Link, current : Link,
             next : [Tasks -> Link], prev : [Tasks -> Link]]

EmptyList == [head |-> NoTask, tail |-> NoTask, current |-> NoTask,
              next |-> [t \in Tasks |-> NoTask],
              prev |-> [t \in Tasks |-> NoTask]]

(* Mutant: the tail is left behind. *)
task_new_TailKept(tl, t) ==
    LET cleared == [tl EXCEPT !.next[t] = NoTask, !.prev[t] = NoTask]
    IN  IF tl.head = NoTask
        THEN [cleared EXCEPT !.head = t, !.tail = t, !.current = t]
        ELSE [cleared EXCEPT !.next[tl.tail] = t, !.prev[t] = tl.tail]

(* task_new, once task_init has cleared the structure and given it a page  *)
(* directory.                                                              *)
task_new(tl, t) ==
    LET cleared == [tl EXCEPT !.next[t] = NoTask, !.prev[t] = NoTask]
    IN  IF tl.head = NoTask
        THEN [cleared EXCEPT !.head = t, !.tail = t, !.current = t]
        ELSE [cleared EXCEPT !.next[tl.tail] = t, !.prev[t] = tl.tail, !.tail = t]

(* Mutant: the last task is followed by itself. *)
task_get_next_NoWrap(tl) ==
    IF tl.next[tl.current] = NoTask THEN tl.current ELSE tl.next[tl.current]

task_get_next(tl) ==
    IF tl.next[tl.current] = NoTask THEN tl.head ELSE tl.next[tl.current]

(* Mutants: the tail is left behind; the current task is. *)
task_list_remove_TailKept(tl, t) ==
    LET unlinked == IF tl.prev[t] # NoTask
                    THEN [tl EXCEPT !.next[tl.prev[t]] = tl.next[t]]
                    ELSE tl
        moved    == [unlinked EXCEPT !.head = IF @ = t THEN tl.next[t] ELSE @]
    IN  [moved EXCEPT !.current = IF @ = t THEN task_get_next(moved) ELSE @]

task_list_remove_HeadNext(tl, t) ==
    LET unlinked == IF tl.prev[t] # NoTask
                    THEN [tl EXCEPT !.next[tl.prev[t]] = tl.next[t]]
                    ELSE tl
        moved    == [unlinked EXCEPT
                       !.head = IF @ = t THEN tl.next[t] ELSE @,
                       !.tail = IF @ = t THEN tl.prev[t] ELSE @]
    IN  [moved EXCEPT !.current = IF @ = t THEN moved.head ELSE @]

(* task_list_remove: the successor's prev field keeps pointing at t.       *)
task_list_remove(tl, t) ==
    LET unlinked == IF tl.prev[t] # NoTask
                    THEN [tl EXCEPT !.next[tl.prev[t]] = tl.next[t]]
                    ELSE tl
        moved    == [unlinked EXCEPT
                       !.head = IF @ = t THEN tl.next[t] ELSE @,
                       !.tail = IF @ = t THEN tl.prev[t] ELSE @]
    IN  [moved EXCEPT !.current = IF @ = t THEN task_get_next(moved) ELSE @]

(* The tasks on the list, in the order in which the next fields link them. *)
(* A list that loops is cut off.                                           *)
Order(tl) ==
    LET following(q) == IF q = <<>> THEN tl.head ELSE tl.next[q[Len(q)]]
        extended == [q \in Seq(Tasks) |->
                        IF following(q) = NoTask THEN q ELSE Append(q, following(q))]
        walk[n \in Nat] == IF n = 0 THEN <<>> ELSE extended[walk[n - 1]]
    IN  walk[Cardinality(Tasks) + 1]
=============================================================================
