-------------------------- MODULE RecursionProofs --------------------------
(***************************************************************************)
(* Induction and recursion over the natural numbers.  A least              *)
(* counterexample (LeastNatural) takes the place of an induction rule:     *)
(* PrimitiveRecursion says that a function defined by recursion exists,    *)
(* Induction what it computes.  The searches of pmm.c and file.c, the walk *)
(* along the task list and the digits of kernel_print_uint rest on them.   *)
(***************************************************************************)
EXTENDS Integers, TLAPS, WellFoundedInduction

(* A non-empty set of naturals has a least element: a search that counts   *)
(* up finds what there is to find.                                         *)
LEMMA LeastNatural ==
    ASSUME NEW S \in SUBSET Nat, S # {}
    PROVE  \E i \in S : \A j \in S : i <= j
  <1> DEFINE R == OpToRel(<, Nat)
             L == {p \in Nat \X Nat : p[1] < p[2]}
  <1>1. R = L
    BY DEF OpToRel
  <1>2. IsWellFoundedOn(L, Nat)
    <2>1. IsWellFoundedOn(R, Nat)
      BY NatLessThanWellFounded
    <2> HIDE DEF R, L
    <2> QED BY <1>1, <2>1
  <1>3. \E x \in S : \A y \in S : ~ (<<y, x>> \in L)
    <2> HIDE DEF L
    <2> QED BY <1>2, WFMin
  <1>4. \A x, y \in S : <<y, x>> \notin L => x <= y
    OBVIOUS
  <1> HIDE DEF L
  <1> QED BY <1>3, <1>4

(* A function on the naturals is determined by its first value and by the  *)
(* step from each value to the next.                                       *)
LEMMA PrimitiveRecursion ==
    ASSUME NEW S, NEW a \in S, NEW step \in [S -> S]
    PROVE  \E f \in [Nat -> S] : f[0] = a /\ \A i \in Nat : f[i + 1] = step[f[i]]
  <1> DEFINE Starts(g, n) == /\ g \in [0 .. n -> S]
                             /\ g[0] = a
                             /\ \A i \in 0 .. (n - 1) : g[i + 1] = step[g[i]]
             started(n) == CHOOSE g : Starts(g, n)
             f == [n \in Nat |-> started(n)[n]]
  <1>1. \A n \in Nat : \E g : Starts(g, n)
    <2> DEFINE missing == {n \in Nat : ~ \E g : Starts(g, n)}
    <2> SUFFICES ASSUME missing # {} PROVE FALSE
      BY DEF missing
    <2>1. PICK n \in missing : \A m \in missing : n <= m
      <3>1. missing \in SUBSET Nat
        OBVIOUS
      <3> HIDE DEF missing
      <3> QED BY <3>1, LeastNatural
    <2>2. n # 0
      <3>1. Starts([i \in 0 .. 0 |-> a], 0)
        OBVIOUS
      <3> HIDE DEF Starts
      <3> QED BY <3>1
    <2>3. n - 1 \in Nat /\ n - 1 \notin missing
      <3> HIDE DEF missing
      <3> QED BY <2>1, <2>2 DEF missing
    <2>4. PICK g : Starts(g, n - 1)
      BY <2>3
    <2> DEFINE k == [i \in 0 .. n |-> IF i = n THEN step[g[n - 1]] ELSE g[i]]
    <2>5. Starts(k, n)
      <3>1. k \in [0 .. n -> S]
        BY <2>3, <2>4
      <3>2. k[0] = a
        BY <2>2, <2>3, <2>4
      <3>3. ASSUME NEW i \in 0 .. (n - 1)
            PROVE  k[i + 1] = step[k[i]]
        BY <2>3, <2>4
      <3> QED BY <3>1, <3>2, <3>3
    <2> HIDE DEF k, Starts
    <2> QED BY <2>5
  <1>2. \A n \in Nat : Starts(started(n), n)
    <2> HIDE DEF Starts
    <2> QED BY <1>1
  <1> HIDE DEF started
  <1>3. ASSUME NEW m \in Nat
        PROVE  \A n \in Nat : m <= n => started(n)[m] = started(m)[m]
    <2> DEFINE differ == {i \in Nat : i <= m /\ \E n \in Nat : m <= n /\ started(n)[i] # started(m)[i]}
    <2> SUFFICES ASSUME differ # {} PROVE FALSE
      OBVIOUS
    <2>1. PICK i \in differ : \A j \in differ : i <= j
      <3>1. differ \in SUBSET Nat
        OBVIOUS
      <3> HIDE DEF differ
      <3> QED BY <3>1, LeastNatural
    <2>2. PICK n \in Nat : m <= n /\ started(n)[i] # started(m)[i]
      OBVIOUS
    <2>3. i # 0
      BY <1>2, <2>2
    <2>4. i - 1 \in Nat /\ i - 1 \notin differ
      <3> HIDE DEF differ
      <3> QED BY <2>1, <2>3 DEF differ
    <2>5. started(n)[i - 1] = started(m)[i - 1]
      BY <2>2, <2>4
    <2>6. \A l \in Nat : i <= l => started(l)[i] = step[started(l)[i - 1]]
      <3> TAKE l \in Nat
      <3> HAVE i <= l
      <3>1. i - 1 \in 0 .. (l - 1) /\ (i - 1) + 1 = i
        BY <2>4
      <3> HIDE DEF differ
      <3> QED BY <1>2, <3>1
    <2>7. i <= m /\ i <= n
      BY <2>2
    <2> QED BY <2>2, <2>5, <2>6, <2>7
  <1>4. f \in [Nat -> S]
    BY <1>2
  <1>5. f[0] = a
    BY <1>2
  <1>6. ASSUME NEW i \in Nat
        PROVE  f[i + 1] = step[f[i]]
    <2>1. started(i + 1)[i + 1] = step[started(i + 1)[i]]
      BY <1>2
    <2>2. started(i + 1)[i] = started(i)[i]
      BY <1>3
    <2> QED BY <2>1, <2>2
  <1> HIDE DEF f
  <1> QED BY <1>4, <1>5, <1>6

(* A set of naturals that holds 0 and with each number the next one.      *)
LEMMA Induction ==
    ASSUME NEW P \in SUBSET Nat, 0 \in P, \A i \in P : i + 1 \in P
    PROVE  P = Nat
  <1> SUFFICES ASSUME Nat \ P # {} PROVE FALSE
    OBVIOUS
  <1>1. PICK i \in Nat \ P : \A j \in Nat \ P : i <= j
    BY LeastNatural
  <1>2. i # 0 /\ i - 1 \in Nat
    OBVIOUS
  <1>3. i - 1 \in P
    BY <1>1, <1>2
  <1> QED BY <1>2, <1>3

(* A step for each number, and the function that they lead to.             *)
StepOf(step, S) == step \in [Nat -> [S -> S]]

Iterates(f, a, step) == f[0] = a /\ \A i \in Nat : f[i + 1] = step[i][f[i]]

(* The step may depend on the number, too.                                 *)
LEMMA IndexedRecursion ==
    ASSUME NEW S, NEW a, NEW step, a \in S, StepOf(step, S)
    PROVE  \E f \in [Nat -> S] : Iterates(f, a, step)
  <1> DEFINE T == [i : Nat, x : S]
             start == [i |-> 0, x |-> a]
             next(p) == [i |-> p.i + 1, x |-> step[p.i][p.x]]
             paired == [p \in T |-> next(p)]
  <1>1. start \in T /\ paired \in [T -> T]
    <2>1. \A p \in T : p.i \in Nat /\ p.x \in S /\ step[p.i] \in [S -> S]
      BY DEF StepOf
    <2>2. \A p \in T : step[p.i][p.x] \in S /\ p.i + 1 \in Nat
      BY <2>1
    <2>3. \A p \in T : next(p) \in T
      BY <2>2
    <2> HIDE DEF next
    <2> QED BY <2>3
  <1>2. PICK f \in [Nat -> T] : f[0] = start /\ \A i \in Nat : f[i + 1] = paired[f[i]]
    <2> HIDE DEF T, start, next, paired
    <2> QED BY ONLY <1>1, PrimitiveRecursion
  <1>3. \A i \in Nat : f[i] \in T /\ f[i + 1] = next(f[i])
    <2> HIDE DEF T, next
    <2> QED BY <1>2 DEF paired
  <1>4. \A i \in Nat : /\ f[i].x \in S /\ f[i].i \in Nat
                       /\ f[i + 1].i = f[i].i + 1
                       /\ f[i + 1].x = step[f[i].i][f[i].x]
    <2> TAKE i \in Nat
    <2>1. f[i] \in T /\ f[i + 1] = next(f[i])
      BY <1>3
    <2>2. next(f[i]).i = f[i].i + 1 /\ next(f[i]).x = step[f[i].i][f[i].x]
      OBVIOUS
    <2>3. f[i].x \in S /\ f[i].i \in Nat
      BY <2>1
    <2> HIDE DEF next, T
    <2> QED BY <2>1, <2>2, <2>3
  <1>5. f[0].i = 0 /\ f[0].x = a
    BY <1>2
  <1> HIDE DEF T, start, next, paired
  <1>6. \A i \in Nat : f[i].i = i
    <2> DEFINE P == {i \in Nat : f[i].i = i}
    <2>1. 0 \in P /\ \A i \in P : i + 1 \in P
      BY <1>4, <1>5
    <2>2. P = Nat
      <3>1. P \in SUBSET Nat
        OBVIOUS
      <3> HIDE DEF P
      <3> QED BY <2>1, <3>1, Induction
    <2> QED BY <2>2
  <1> DEFINE h == [i \in Nat |-> f[i].x]
  <1>7. h \in [Nat -> S] /\ h[0] = a
    BY <1>4, <1>5
  <1>8. \A i \in Nat : h[i + 1] = step[i][h[i]]
    BY <1>4, <1>6
  <1> HIDE DEF h
  <1> QED BY <1>7, <1>8 DEF Iterates

(* A step for each of n rounds, and the function that they lead to.        *)
RoundsOf(step, n, S) == step \in [1 .. n -> [S -> S]]

Loops(f, a, n, step) == f[0] = a /\ \A i \in 1 .. n : f[i] = step[i][f[i - 1]]

(* A function of the numbers up to n, defined by its first value and by a  *)
(* step to each other, exists: a loop of n rounds.                         *)
LEMMA LoopExists ==
    ASSUME NEW S, NEW a, NEW n, NEW step, a \in S, n \in Nat, RoundsOf(step, n, S)
    PROVE  \E f \in [0 .. n -> S] : Loops(f, a, n, step)
  <1> DEFINE stay == [x \in S |-> x]
             all == [i \in Nat |-> IF i + 1 \in 1 .. n THEN step[i + 1] ELSE stay]
  <1>1. StepOf(all, S)
    BY DEF StepOf, RoundsOf
  <1>2. PICK f \in [Nat -> S] : Iterates(f, a, all)
    <2> HIDE DEF all
    <2> QED BY ONLY <1>1, a \in S, IndexedRecursion
  <1>3. f[0] = a /\ \A i \in Nat : f[i + 1] = all[i][f[i]]
    BY <1>2 DEF Iterates
  <1> DEFINE g == [i \in 0 .. n |-> f[i]]
  <1>4. g \in [0 .. n -> S] /\ g[0] = a
    BY <1>3
  <1>5. ASSUME NEW i \in 1 .. n
        PROVE  g[i] = step[i][g[i - 1]]
    <2>1. i - 1 \in Nat /\ (i - 1) + 1 = i /\ i - 1 \in 0 .. n /\ i \in 0 .. n
      OBVIOUS
    <2>2. f[i] = all[i - 1][f[i - 1]] /\ all[i - 1] = step[i]
      BY <1>3, <2>1
    <2> QED BY <2>1, <2>2
  <1> HIDE DEF g
  <1> QED BY <1>4, <1>5 DEF Loops

(* What holds before the first round and is kept by each holds behind the  *)
(* last.                                                                   *)
LEMMA LoopInduction ==
    ASSUME NEW n \in Nat, NEW P, 0 \in P, \A i \in 1 .. n : i - 1 \in P => i \in P
    PROVE  \A i \in 0 .. n : i \in P
  <1> DEFINE Q == {i \in Nat : i <= n => i \in P}
  <1>1. 0 \in Q
    OBVIOUS
  <1>2. ASSUME NEW i \in Q
        PROVE  i + 1 \in Q
    <2> SUFFICES ASSUME i + 1 <= n PROVE i + 1 \in P
      OBVIOUS
    <2>1. i + 1 \in 1 .. n /\ (i + 1) - 1 = i /\ i \in P
      OBVIOUS
    <2> QED BY <2>1
  <1>3. Q = Nat
    <2>1. Q \in SUBSET Nat
      OBVIOUS
    <2> HIDE DEF Q
    <2> QED BY <1>1, <1>2, <2>1, Induction
  <1>4. \A i \in 0 .. n : i \in Q
    <2> HIDE DEF Q
    <2> QED BY <1>3
  <1> QED BY <1>4
=============================================================================
