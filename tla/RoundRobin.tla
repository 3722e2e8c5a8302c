----------------------------- MODULE RoundRobin -----------------------------
(***************************************************************************)
(* What the scheduler promises: tasks wait in a queue in the order of      *)
(* their creation and take turns, each after the one before it.            *)
(***************************************************************************)
EXTENDS Integers, SequencesExt

CONSTANT Tasks

VARIABLES queue, running

vars == <<queue, running>>

(* The task whose turn follows that of the i-th of q. *)
After(q, i) == q[(i % Len(q)) + 1]

Init == queue = <<>> /\ running = 0

Add(t) == /\ t \notin ToSet(queue)
          /\ queue' = Append(queue, t)
          /\ running' = IF queue = <<>> THEN t ELSE running

Turn == /\ \E i \in DOMAIN queue : queue[i] = running /\ running' = After(queue, i)
        /\ UNCHANGED queue

(* A task that leaves while it runs passes its turn on. *)
Leave(t) == \E i \in DOMAIN queue :
                /\ queue[i] = t
                /\ queue' = RemoveAt(queue, i)
                /\ running' = IF running # t THEN running
                              ELSE IF Len(queue) = 1 THEN 0 ELSE After(queue, i)

Stay == Turn \/ \E t \in Tasks : Add(t)

Next == Stay \/ \E t \in Tasks : Leave(t)

Spec == Init /\ [][Next]_vars

(* The round robin of a system where no task ever leaves. *)
StayingSpec == Init /\ [][Stay]_vars
=============================================================================
