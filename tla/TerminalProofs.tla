--------------------------- MODULE TerminalProofs ---------------------------
(***************************************************************************)
(* A screen of any size.  Nothing is written outside the video memory      *)
(* (NeverBeyond); the digits of a number denote it (UintAlwaysRight); the  *)
(* rows are filled in order, and what they show is a page with every       *)
(* message whole (ScreenInv and the theorems after it).                    *)
(***************************************************************************)
EXTENDS Terminal, RecursionProofs, SequenceTheorems

(* The cursor is on the screen or one step beyond its edges, and nothing   *)
(* was written outside it so far.                                          *)
Safe(s) == /\ s = [row |-> s.row, col |-> s.col,
                   video_memory |-> s.video_memory, beyond |-> s.beyond]
           /\ s.row \in 0 .. (ROWS - 1)
           /\ s.col \in 0 .. VGA_WIDTH
           /\ s.beyond = FALSE

Inv == Safe(scr)

(* The cell of a column and a row of the screen is one of its cells        *)
(* (terminal_put_char's index).                                            *)
LEMMA CellOnScreen ==
    ASSUME NEW x \in 0 .. (VGA_HEIGHT - 1), NEW y \in 0 .. (VGA_WIDTH - 1)
    PROVE  x * VGA_WIDTH + y \in Cells
<1> USE TerminalAssumption
<1>1. x \in Int /\ y \in Int /\ VGA_WIDTH \in Int /\ VGA_HEIGHT \in Int
  OBVIOUS
<1>2. x * VGA_WIDTH >= 0
  BY <1>1
<1>3. x * VGA_WIDTH <= (VGA_HEIGHT - 1) * VGA_WIDTH
  <2>1. VGA_HEIGHT - 1 - x \in Nat
    BY <1>1
  <2>2. (VGA_HEIGHT - 1 - x) * VGA_WIDTH >= 0
    BY <2>1
  <2>3. (VGA_HEIGHT - 1 - x) * VGA_WIDTH = (VGA_HEIGHT - 1) * VGA_WIDTH - x * VGA_WIDTH
    BY <1>1
  <2> QED  BY <2>2, <2>3, <1>1
<1>4. (VGA_HEIGHT - 1) * VGA_WIDTH = VGA_WIDTH * VGA_HEIGHT - VGA_WIDTH
  BY <1>1
<1> QED  BY <1>1, <1>2, <1>3, <1>4 DEF Cells

(* Clearing the screen puts the cursor into its first cell.                *)
LEMMA ClearSafe ==
    ASSUME NEW s, s.beyond = FALSE
    PROVE  Safe(terminal_init(s)) /\ terminal_init(s).row = 0 /\ terminal_init(s).col = 0
BY TerminalAssumption DEF Safe, terminal_init

(* Moving the cursor to a row and a column within the bounds is safe.      *)
LEMMA AtSafe ==
    ASSUME NEW s, s.beyond = FALSE, NEW row \in 0 .. (ROWS - 1), NEW col \in 0 .. VGA_WIDTH
    PROVE  Safe(At(s, row, col))
BY DEF Safe, At

(* The first column is one of those the cursor can be in. *)
LEMMA FirstColumn == 0 \in 0 .. VGA_WIDTH
BY TerminalAssumption

(* The row below one is a row (Below's 16 bits).                           *)
LEMMA BelowIsRow ==
    ASSUME NEW r \in 0 .. (ROWS - 1)
    PROVE  Below(r) \in 0 .. (ROWS - 1)
BY TerminalAssumption DEF Below

(* A character that is printed at a cell of the screen leaves the cursor   *)
(* behind it (terminal_put_char).                                          *)
LEMMA PutSafe ==
    ASSUME NEW s, NEW a, Safe(s), s.row < VGA_HEIGHT, s.col < VGA_WIDTH
    PROVE  Safe(At(terminal_put_char(s, s.col, s.row, a), s.row, s.col + 1))
<1>1. s.row \in 0 .. (VGA_HEIGHT - 1) /\ s.col \in 0 .. (VGA_WIDTH - 1)
  BY TerminalAssumption DEF Safe
<1>2. s.row * VGA_WIDTH + s.col \in Cells
  BY <1>1, CellOnScreen
<1>3. terminal_put_char(s, s.col, s.row, a).beyond = FALSE
  BY <1>2 DEF terminal_put_char, Safe
<1>4. s.row \in 0 .. (ROWS - 1) /\ s.col + 1 \in 0 .. VGA_WIDTH
  BY <1>1, TerminalAssumption DEF Safe
<1> QED  BY <1>3, <1>4, AtSafe

(* A character is printed safely wherever the cursor was left              *)
(* (kernel_terminal_print_char).                                           *)
LEMMA PrintSafe ==
    ASSUME NEW s, NEW a, Safe(s)
    PROVE  Safe(kernel_terminal_print_char(s, a))
<1> DEFINE w == IF s.col >= VGA_WIDTH THEN At(s, Below(s.row), 0) ELSE s
           c == IF w.row >= VGA_HEIGHT THEN terminal_init(w) ELSE w
<1>1. Safe(w) /\ w.col < VGA_WIDTH
  <2>1. CASE s.col >= VGA_WIDTH
    <3>1. Below(s.row) \in 0 .. (ROWS - 1) /\ s.beyond = FALSE
      BY BelowIsRow DEF Safe
    <3>2. Safe(At(s, Below(s.row), 0))
      BY <3>1, AtSafe, FirstColumn
    <3>3. w = At(s, Below(s.row), 0) /\ w.col = 0
      BY <2>1 DEF At
    <3> HIDE DEF w
    <3> QED  BY <3>2, <3>3, TerminalAssumption
  <2>2. CASE ~ (s.col >= VGA_WIDTH)
    BY <2>2, TerminalAssumption DEF Safe
  <2> QED  BY <2>1, <2>2
<1> HIDE DEF w
<1>2. Safe(c) /\ c.row < VGA_HEIGHT /\ c.col < VGA_WIDTH
  <2>1. CASE w.row >= VGA_HEIGHT
    <3>1. c = terminal_init(w) /\ w.beyond = FALSE
      BY <2>1, <1>1 DEF Safe
    <3> HIDE DEF c
    <3>2. Safe(terminal_init(w)) /\ terminal_init(w).row = 0 /\ terminal_init(w).col = 0
      BY <3>1, ClearSafe
    <3>3. 0 < VGA_HEIGHT /\ 0 < VGA_WIDTH
      BY TerminalAssumption
    <3> QED  BY <3>1, <3>2, <3>3
  <2>2. CASE ~ (w.row >= VGA_HEIGHT)
    BY <2>2, <1>1, TerminalAssumption DEF Safe
  <2> QED  BY <2>1, <2>2
<1>3. kernel_terminal_print_char(s, a)
        = At(terminal_put_char(c, c.col, c.row, a), c.row, c.col + 1)
  BY DEF kernel_terminal_print_char, w, c
<1> HIDE DEF c
<1> QED  BY <1>2, <1>3, PutSafe

(* The end of a string moves the cursor, perhaps below the screen          *)
(* (kernel_print_string).                                                  *)
LEMMA EndSafe ==
    ASSUME NEW s, Safe(s)
    PROVE  Safe(EndOfString(s))
<1>1. Below(s.row) \in 0 .. (ROWS - 1) /\ s.beyond = FALSE
  BY BelowIsRow DEF Safe
<1> QED  BY <1>1, AtSafe, FirstColumn DEF EndOfString

(* No character is ever written outside the video memory, whatever is      *)
(* printed and wherever a string ends and the next begins, on a screen of  *)
(* any size (kernel_terminal_print_char, kernel_print_string).             *)
THEOREM NeverBeyond == Spec => []OnScreen
<1>1. Init => Inv
  BY TerminalAssumption DEF Init, Inv, Safe
<1>2. Inv /\ [Next]_vars => Inv'
  <2> SUFFICES ASSUME Inv, [Next]_vars PROVE Inv'
    OBVIOUS
  <2>1. CASE Step
    <3>1. CASE Head(todo) = NewLine
      BY <2>1, <3>1, EndSafe DEF Step, Inv
    <3>2. CASE Head(todo) # NewLine
      BY <2>1, <3>2, PrintSafe DEF Step, Inv
    <3> QED  BY <3>1, <3>2
  <2>2. CASE \E str \in Strings : kernel_print(str) \/ panic(str)
    BY <2>2 DEF kernel_print, panic, Call, Inv
  <2>3. CASE \E n \in Numbers : kernel_print_uint(n)
    <3>1. UNCHANGED scr
      BY <2>3 DEF kernel_print_uint, Call
    <3> QED  BY <3>1 DEF Inv
  <2>4. CASE \E hex \in Bytes : kernel_print_char_hex(hex)
    BY <2>4 DEF kernel_print_char_hex, Call, Inv
  <2>5. CASE Stopped \/ UNCHANGED vars
    BY <2>5 DEF Stopped, vars, Inv
  <2> QED  BY <2>1, <2>2, <2>3, <2>4, <2>5 DEF Next
<1>3. Inv => OnScreen
  BY DEF Inv, Safe, OnScreen
<1> QED  BY <1>1, <1>2, <1>3, PTL DEF Spec
-----------------------------------------------------------------------------
(***************************************************************************)
(* The digits of kernel_print_uint.                                        *)
(***************************************************************************)

Decimal == 0 .. 9

(* Dividing by ten.                                                        *)
LEMMA TenTimes ==
    ASSUME NEW m \in Nat
    PROVE  /\ m \div 10 \in Nat /\ m % 10 \in Decimal
           /\ m = 10 * (m \div 10) + (m % 10)
           /\ m # 0 => m \div 10 < m
  BY DEF Decimal

(* The recursion of kernel_print_uint's digits ends: each step divides the *)
(* number by ten.                                                          *)
LEMMA DigitsExist ==
    \E a \in [Nat -> Seq(Decimal)] :
        a = [m \in Nat |-> IF m = 0 THEN <<>> ELSE <<m % 10>> \o a[m \div 10]]
  <1> DEFINE S == [Nat -> Seq(Decimal)]
             next(F) == [m \in Nat |-> IF m = 0 THEN <<>> ELSE <<m % 10>> \o F[m \div 10]]
             step == [F \in S |-> next(F)]
             first == [m \in Nat |-> <<>>]
  <1>1. first \in S
    OBVIOUS
  <1>2. \A F \in S : next(F) \in S
    <2> TAKE F \in S
    <2> SUFFICES ASSUME NEW m \in Nat, m # 0
                 PROVE  <<m % 10>> \o F[m \div 10] \in Seq(Decimal)
      OBVIOUS
    <2>1. <<m % 10>> \in Seq(Decimal) /\ F[m \div 10] \in Seq(Decimal)
      BY TenTimes
    <2> QED BY <2>1, ConcatProperties
  <1>3. step \in [S -> S]
    BY <1>2
  <1>4. PICK f \in [Nat -> S] : f[0] = first /\ \A i \in Nat : f[i + 1] = step[f[i]]
    <2> HIDE DEF S, step, first
    <2> QED BY <1>1, <1>3, PrimitiveRecursion
  <1>5. /\ \A i \in Nat : f[i] \in S
        /\ \A i \in Nat : f[i + 1][0] = <<>>
        /\ \A i \in Nat, m \in Nat \ {0} : f[i + 1][m] = <<m % 10>> \o f[i][m \div 10]
    <2>1. \A i \in Nat : f[i] \in S
      BY <1>4
    <2>2. \A i \in Nat : f[i + 1] = next(f[i])
      <3> HIDE DEF S, next
      <3> QED BY <1>4, <2>1 DEF step
    <2> QED BY <2>1, <2>2
  <1> HIDE DEF S, step, first
  <1>6. \A i \in Nat : \A m \in Nat : m < i => f[i + 1][m] = f[i][m]
    <2> DEFINE P == {i \in Nat : \A m \in Nat : m < i => f[i + 1][m] = f[i][m]}
    <2>1. 0 \in P
      OBVIOUS
    <2>2. ASSUME NEW i \in P
          PROVE  i + 1 \in P
      <3>0. i \in Nat /\ i + 1 \in Nat /\ \A m \in Nat : m < i => f[i + 1][m] = f[i][m]
        OBVIOUS
      <3> HIDE DEF P
      <3> SUFFICES ASSUME NEW m \in Nat, m < i + 1
                   PROVE  f[(i + 1) + 1][m] = f[i + 1][m]
        BY <3>0 DEF P
      <3>1. CASE m = 0
        BY <1>5, <3>0, <3>1
      <3>2. CASE m # 0
        <4>1. m \div 10 \in Nat /\ m \div 10 < i
          BY <3>0, <3>2, TenTimes
        <4>2. f[i + 1][m \div 10] = f[i][m \div 10]
          BY <3>0, <4>1
        <4>3. f[(i + 1) + 1][m] = <<m % 10>> \o f[i + 1][m \div 10]
          BY <1>5, <3>0, <3>2
        <4>4. f[i + 1][m] = <<m % 10>> \o f[i][m \div 10]
          BY <1>5, <3>0, <3>2
        <4> QED BY <4>2, <4>3, <4>4
      <3> QED BY <3>1, <3>2
    <2>3. P = Nat
      <3>1. P \in SUBSET Nat
        OBVIOUS
      <3> HIDE DEF P
      <3> QED BY <2>1, <2>2, <3>1, Induction
    <2> QED BY <2>3
  <1>7. ASSUME NEW q \in Nat
        PROVE  \A j \in Nat : j > q => f[j][q] = f[q + 1][q]
    <2> DEFINE P == {i \in Nat : f[(q + 1) + i][q] = f[q + 1][q]}
    <2>1. 0 \in P
      OBVIOUS
    <2>2. ASSUME NEW i \in P
          PROVE  i + 1 \in P
      <3>1. (q + 1) + i \in Nat /\ q < (q + 1) + i /\ (q + 1) + (i + 1) = ((q + 1) + i) + 1
        OBVIOUS
      <3>2. f[((q + 1) + i) + 1][q] = f[(q + 1) + i][q]
        BY <1>6, <3>1
      <3> QED BY <3>1, <3>2
    <2>3. P = Nat
      <3>1. P \in SUBSET Nat
        OBVIOUS
      <3> HIDE DEF P
      <3> QED BY <2>1, <2>2, <3>1, Induction
    <2>4. \A i \in Nat : f[(q + 1) + i][q] = f[q + 1][q]
      BY <2>3
    <2> HIDE DEF P
    <2> TAKE j \in Nat
    <2> HAVE j > q
    <2>5. j - (q + 1) \in Nat /\ (q + 1) + (j - (q + 1)) = j
      OBVIOUS
    <2>6. f[(q + 1) + (j - (q + 1))][q] = f[q + 1][q]
      BY <2>4, <2>5
    <2> QED BY <2>5, <2>6
  <1> DEFINE a == [m \in Nat |-> f[m + 1][m]]
  <1>8. a \in [Nat -> Seq(Decimal)]
    BY <1>5 DEF S
  <1>9. ASSUME NEW m \in Nat
        PROVE  a[m] = IF m = 0 THEN <<>> ELSE <<m % 10>> \o a[m \div 10]
    <2>1. CASE m = 0
      BY <1>5, <2>1
    <2>2. CASE m # 0
      <3>1. m \div 10 \in Nat /\ m > m \div 10
        BY <2>2, TenTimes
      <3>2. f[m][m \div 10] = f[(m \div 10) + 1][m \div 10]
        BY <1>7, <3>1
      <3>3. f[m + 1][m] = <<m % 10>> \o f[m][m \div 10]
        BY <1>5, <2>2
      <3> QED BY <2>2, <3>1, <3>2, <3>3
    <2> QED BY <2>1, <2>2
  <1>10. a = [m \in Nat |-> IF m = 0 THEN <<>> ELSE <<m % 10>> \o a[m \div 10]]
    <2> HIDE DEF a
    <2> QED BY <1>8, <1>9
  <1> HIDE DEF a
  <1> QED BY <1>8, <1>10

(* The digits of m in the order in which they are collected.               *)
Collected == CHOOSE a : a = [m \in Nat |-> IF m = 0 THEN <<>> ELSE <<m % 10>> \o a[m \div 10]]

(* They are the last digit and those of the rest.                          *)
LEMMA CollectedDigits ==
    /\ Collected[0] = <<>>
    /\ \A m \in Nat \ {0} : Collected[m] = <<m % 10>> \o Collected[m \div 10]
  <1>1. Collected = [m \in Nat |-> IF m = 0 THEN <<>> ELSE <<m % 10>> \o Collected[m \div 10]]
    BY DigitsExist, Zenon DEF Collected
  <1> QED BY <1>1

(* All of them are digits.                                                 *)
LEMMA CollectedType == \A m \in Nat : Collected[m] \in Seq(Decimal)
  <1> DEFINE odd == {m \in Nat : Collected[m] \notin Seq(Decimal)}
  <1> SUFFICES ASSUME odd # {} PROVE FALSE
    OBVIOUS
  <1>1. PICK m \in odd : \A j \in odd : m <= j
    <2>1. odd \in SUBSET Nat
      OBVIOUS
    <2> HIDE DEF odd
    <2> QED BY <2>1, LeastNatural
  <1>2. m # 0
    <2>1. <<>> \in Seq(Decimal)
      OBVIOUS
    <2> QED BY <2>1, CollectedDigits
  <1>3. m \div 10 \in Nat /\ m \div 10 < m /\ m % 10 \in Decimal
    BY <1>2, TenTimes
  <1>4. Collected[m \div 10] \in Seq(Decimal)
    BY <1>1, <1>3
  <1>5. Collected[m] = <<m % 10>> \o Collected[m \div 10]
    BY <1>2, CollectedDigits
  <1>6. Collected[m] \in Seq(Decimal)
    <2>1. <<m % 10>> \in Seq(Decimal)
      BY <1>3
    <2> QED BY <1>4, <1>5, <2>1, ConcatProperties
  <1> QED BY <1>6

(* Turned round they are the digits that are printed: the rest's, then the *)
(* last one.                                                               *)
LEMMA DigitsOf ==
    ASSUME NEW m \in Nat
    PROVE  /\ DecimalDigits(m) \in Seq(Decimal)
           /\ m = 0 => DecimalDigits(m) = <<>>
           /\ m # 0 => DecimalDigits(m) = Append(DecimalDigits(m \div 10), m % 10)
  <1>1. \A n : DecimalDigits(n) = Reverse(Collected[n])
    BY DEF DecimalDigits, Collected
  <1>2. \A s \in Seq(Decimal) : Reverse(s) \in Seq(Decimal) /\ Len(Reverse(s)) = Len(s)
    BY DEF Reverse
  <1>3. DecimalDigits(m) \in Seq(Decimal)
    BY <1>1, <1>2, CollectedType
  <1>4. m = 0 => DecimalDigits(m) = <<>>
    <2>1. Reverse(<<>>) = <<>>
      BY DEF Reverse
    <2> QED BY <1>1, <2>1, CollectedDigits
  <1>5. ASSUME m # 0
        PROVE  DecimalDigits(m) = Append(DecimalDigits(m \div 10), m % 10)
    <2> DEFINE s == Collected[m \div 10]
               d == m % 10
    <2>1. s \in Seq(Decimal) /\ d \in Decimal /\ Collected[m] = <<d>> \o s
      BY <1>5, TenTimes, CollectedType, CollectedDigits
    <2> HIDE DEF s, d
    <2> DEFINE t == <<d>> \o s
    <2>2. t \in Seq(Decimal) /\ Len(t) = Len(s) + 1 /\ t[1] = d
          /\ \A i \in 1 .. Len(s) : t[i + 1] = s[i]
      BY <2>1, ConcatProperties
    <2> HIDE DEF t
    <2> DEFINE r == Reverse(t)
               p == Append(Reverse(s), d)
    <2>3. Len(s) \in Nat /\ Len(r) = Len(s) + 1 /\ Len(p) = Len(s) + 1
      BY <1>2, <2>1, <2>2, AppendProperties
    <2>4. r \in Seq(Decimal) /\ p \in Seq(Decimal)
      BY <1>2, <2>1, <2>2, AppendProperties
    <2>5. \A i \in 1 .. (Len(s) + 1) : r[i] = p[i]
      <3> TAKE i \in 1 .. (Len(s) + 1)
      <3>1. r[i] = t[(Len(t) - i) + 1]
        BY <2>2, <2>3 DEF Reverse
      <3>2. CASE i = Len(s) + 1
        <4>1. p[i] = d
          BY <1>2, <2>1, <3>2, AppendProperties
        <4>2. (Len(t) - i) + 1 = 1
          BY <2>2, <2>3, <3>2
        <4> QED BY <2>2, <3>1, <4>1, <4>2
      <3>3. CASE i # Len(s) + 1
        <4>1. i \in 1 .. Len(s) /\ (Len(s) - i) + 1 \in 1 .. Len(s)
          BY <2>3, <3>3
        <4>2. p[i] = Reverse(s)[i]
          BY <1>2, <2>1, <4>1, AppendProperties
        <4>3. Reverse(s)[i] = s[(Len(s) - i) + 1]
          BY <2>1, <4>1 DEF Reverse
        <4>4. (Len(t) - i) + 1 = ((Len(s) - i) + 1) + 1
          BY <2>2, <2>3
        <4> QED BY <2>2, <3>1, <4>1, <4>2, <4>3, <4>4
      <3> QED BY <3>2, <3>3
    <2>6. r = p
      <3> HIDE DEF r, p
      <3> QED BY <2>3, <2>4, <2>5, SeqEqual
    <2> QED BY <1>1, <2>1, <2>6 DEF s, d, t
  <1> QED BY <1>3, <1>4, <1>5

(* v is what the digits of s denote as they are read, n of them.           *)
Reads(v, s, n) == v[0] = 0 /\ \A i \in 1 .. n : v[i] = 10 * v[i - 1] + s[i]

(* Reading the same digits gives the same number.                          *)
LEMMA SameValues ==
    ASSUME NEW n \in Nat, NEW s, NEW u, NEW v, Reads(u, s, n), Reads(v, s, n)
    PROVE  u[n] = v[n]
  <1> DEFINE P == {i \in Nat : i <= n => u[i] = v[i]}
  <1>1. 0 \in P
    BY DEF Reads
  <1>2. ASSUME NEW i \in P PROVE i + 1 \in P
    <2> SUFFICES ASSUME i + 1 <= n PROVE u[i + 1] = v[i + 1]
      OBVIOUS
    <2>1. i + 1 \in 1 .. n /\ (i + 1) - 1 = i
      OBVIOUS
    <2>2. u[i] = v[i]
      OBVIOUS
    <2>3. u[i + 1] = 10 * u[i] + s[i + 1] /\ v[i + 1] = 10 * v[i] + s[i + 1]
      BY <2>1 DEF Reads
    <2> HIDE DEF P
    <2> QED BY <2>2, <2>3
  <1>3. P = Nat
    <2>1. P \in SUBSET Nat
      OBVIOUS
    <2> HIDE DEF P
    <2> QED BY <1>1, <1>2, <2>1, Induction
  <1> QED BY <1>3

(* The number that a sequence of digits denotes, one digit at a time.      *)
LEMMA ValueDefined ==
    ASSUME NEW s \in Seq(Nat)
    PROVE  \E v \in [0 .. Len(s) -> Nat] : Reads(v, s, Len(s)) /\ Value(s) = v[Len(s)]
  <1> DEFINE n == Len(s)
             next(i, x) == 10 * x + (IF i + 1 \in 1 .. n THEN s[i + 1] ELSE 0)
             step == [i \in Nat |-> [x \in Nat |-> next(i, x)]]
             u == CHOOSE u : u = [i \in 0 .. n |-> IF i = 0 THEN 0 ELSE 10 * u[i - 1] + s[i]]
  <1>1. n \in Nat
    OBVIOUS
  <1>2. step \in [Nat -> [Nat -> Nat]]
    <2>1. \A i, x \in Nat : next(i, x) \in Nat
      BY <1>1
    <2> HIDE DEF next
    <2> QED BY <2>1
  <1>3. PICK f \in [Nat -> Nat] : f[0] = 0 /\ \A i \in Nat : f[i + 1] = step[i][f[i]]
    <2> HIDE DEF step, next, n, u
    <2>1. 0 \in Nat /\ StepOf(step, Nat)
      BY <1>2 DEF StepOf
    <2> HIDE DEF step
    <2>2. \E f \in [Nat -> Nat] : Iterates(f, 0, step)
      BY <2>1, IndexedRecursion
    <2> QED BY <2>2 DEF Iterates
  <1>4. \A i \in Nat : f[i + 1] = next(i, f[i])
    <2> HIDE DEF next
    <2> QED BY <1>3
  <1> HIDE DEF step
  <1> DEFINE v == [i \in 0 .. n |-> f[i]]
  <1>6. v \in [0 .. n -> Nat] /\ v[0] = 0
    BY <1>1, <1>3
  <1>7. ASSUME NEW i \in 1 .. n
        PROVE  v[i] = 10 * v[i - 1] + s[i]
    <2>1. i - 1 \in Nat /\ (i - 1) + 1 = i /\ i \in 0 .. n /\ i - 1 \in 0 .. n
      BY <1>1
    <2>2. f[(i - 1) + 1] = 10 * f[i - 1] + s[i]
      BY <1>4, <2>1
    <2> QED BY <2>1, <2>2
  <1>8. v = [i \in 0 .. n |-> IF i = 0 THEN 0 ELSE 10 * v[i - 1] + s[i]]
    <2>1. \A i \in 0 .. n : i = 0 \/ i \in 1 .. n
      BY <1>1
    <2>2. v = [i \in 0 .. n |-> v[i]]
      BY <1>6
    <2> HIDE DEF v, n, u
    <2> QED BY <1>6, <1>7, <2>1, <2>2
  <1> HIDE DEF v
  <1>9. u = [i \in 0 .. n |-> IF i = 0 THEN 0 ELSE 10 * u[i - 1] + s[i]]
    BY <1>8, Zenon
  <1>10. Value(s) = u[n]
    BY DEF Value
  <1> HIDE DEF u
  <1>11. u[0] = 0 /\ \A i \in 1 .. n : u[i] = 10 * u[i - 1] + s[i]
    <2>1. \A i \in 1 .. n : i # 0 /\ i \in 0 .. n
      BY <1>1
    <2>2. 0 \in 0 .. n
      BY <1>1
    <2> HIDE DEF n
    <2> QED BY <1>9, <2>1, <2>2
  <1>12. u[n] = v[n]
    <2>1. Reads(u, s, n) /\ Reads(v, s, n)
      BY <1>6, <1>7, <1>11 DEF Reads
    <2> HIDE DEF n
    <2> QED BY <1>1, <2>1, SameValues
  <1>13. Value(s) = v[n]
    BY <1>10, <1>12
  <1> QED BY <1>6, <1>7, <1>13 DEF n, Reads

(* One more digit.                                                         *)
LEMMA ValueOfAppend ==
    ASSUME NEW s \in Seq(Nat), NEW d \in Nat
    PROVE  Value(Append(s, d)) = 10 * Value(s) + d
  <1> DEFINE n == Len(s)
             t == Append(s, d)
  <1>1. n \in Nat /\ t \in Seq(Nat) /\ Len(t) = n + 1 /\ t[n + 1] = d
        /\ \A i \in 1 .. n : t[i] = s[i]
    BY AppendProperties
  <1>2. PICK v \in [0 .. n -> Nat] : Reads(v, s, n) /\ Value(s) = v[n]
    BY ValueDefined
  <1> HIDE DEF t
  <1>3. PICK w \in [0 .. Len(t) -> Nat] : Reads(w, t, Len(t)) /\ Value(t) = w[Len(t)]
    BY <1>1, ValueDefined
  <1> HIDE DEF n
  <1>5. w[n + 1] = 10 * w[n] + d
    <2>1. n + 1 \in 1 .. Len(t) /\ (n + 1) - 1 = n
      BY <1>1
    <2> QED BY <1>1, <1>3, <2>1 DEF Reads
  <1>6. w[n] = v[n]
    <2>1. Reads(w, s, n)
      BY <1>1, <1>3 DEF Reads
    <2> QED BY <1>1, <1>2, <2>1, SameValues
  <1> QED BY <1>1, <1>2, <1>3, <1>5, <1>6 DEF t

(* The digits denote the number, and only zero has none.                   *)
LEMMA DigitsRight ==
    ASSUME NEW k \in Nat
    PROVE  /\ Value(DecimalDigits(k)) = k
           /\ k # 0 => DecimalDigits(k) # <<>> /\ DecimalDigits(k)[1] # 0
  <1> DEFINE right(m) == /\ Value(DecimalDigits(m)) = m
                         /\ m # 0 => DecimalDigits(m) # <<>> /\ DecimalDigits(m)[1] # 0
             wrong == {m \in Nat : ~ right(m)}
  <1> SUFFICES ASSUME wrong # {} PROVE FALSE
    OBVIOUS
  <1>1. PICK m \in wrong : \A j \in wrong : m <= j
    <2>1. wrong \in SUBSET Nat
      OBVIOUS
    <2> HIDE DEF wrong
    <2> QED BY <2>1, LeastNatural
  <1>2. Value(<<>>) = 0
    <2>1. <<>> \in Seq(Nat) /\ Len(<<>>) = 0
      OBVIOUS
    <2>2. \E v \in [0 .. Len(<<>>) -> Nat] : Reads(v, <<>>, Len(<<>>)) /\ Value(<<>>) = v[Len(<<>>)]
      BY <2>1, ValueDefined
    <2> QED BY <2>1, <2>2 DEF Reads
  <1>3. right(0)
    BY <1>2, DigitsOf
  <1>4. m # 0 /\ m \in Nat
    BY <1>3
  <1> DEFINE q == m \div 10
             d == m % 10
             s == DecimalDigits(q)
  <1>5. q \in Nat /\ d \in Decimal /\ m = 10 * q + d /\ q < m
    BY <1>4, TenTimes
  <1>6. DecimalDigits(m) = Append(s, d) /\ s \in Seq(Decimal)
    BY <1>4, <1>5, DigitsOf
  <1>7. right(q)
    <2> HIDE DEF right, q
    <2> QED BY <1>1, <1>5
  <1>8. s = <<>> <=> q = 0
    BY <1>5, <1>7, DigitsOf
  <1> HIDE DEF q, d
  <1>9. Value(Append(s, d)) = m
    <2>1. s \in Seq(Nat) /\ d \in Nat
      BY <1>5, <1>6 DEF Decimal
    <2>2. Value(s) = q
      BY <1>7
    <2> HIDE DEF s
    <2> QED BY <1>5, <2>1, <2>2, ValueOfAppend
  <1>10. Append(s, d) # <<>> /\ Append(s, d)[1] # 0
    <2>1. d \in Nat /\ Len(s) \in Nat
      BY <1>5, <1>6 DEF Decimal
    <2>2. s[1] # 0 \/ q = 0
      BY <1>7
    <2> HIDE DEF s
    <2>3. CASE q = 0
      <3>1. s = <<>> /\ d # 0
        BY <1>4, <1>5, <1>8, <2>1, <2>3
      <3> QED BY <3>1
    <2>4. CASE q # 0
      <3>1. s # <<>> /\ s[1] # 0 /\ Len(s) >= 1
        BY <1>6, <1>8, <2>1, <2>2, <2>4
      <3>2. Len(Append(s, d)) = Len(s) + 1 /\ Append(s, d)[1] = s[1]
        BY <1>6, <2>1, <3>1, AppendProperties DEF Decimal
      <3>3. Append(s, d) \in Seq(Nat)
        BY <1>6, <2>1, AppendProperties DEF Decimal
      <3> QED BY <2>1, <3>1, <3>2, <3>3
    <2> QED BY <2>3, <2>4
  <1> QED BY <1>6, <1>9, <1>10

-----------------------------------------------------------------------------
(***************************************************************************)
(* What is on the screen.                                                  *)
(***************************************************************************)

(* The first n cells of row x have characters, the others are blank.       *)
Filled(s, x, n) ==
    \A y \in 0 .. (VGA_WIDTH - 1) :
        IF y < n THEN s.video_memory[x * VGA_WIDTH + y] \in Chars
                 ELSE s.video_memory[x * VGA_WIDTH + y] = Blank

Filling == [0 .. (VGA_HEIGHT - 1) -> 0 .. VGA_WIDTH]

(* Rows are filled from the left, the cursor stands behind the last        *)
(* character of its row, no row below it has any, and below the screen it  *)
(* stands in the first column.                                             *)
Filled_by(s, w) ==
    /\ \A x \in 0 .. (VGA_HEIGHT - 1) : Filled(s, x, w[x])
    /\ \A x \in 0 .. (VGA_HEIGHT - 1) : x > s.row => w[x] = 0
    /\ s.row < VGA_HEIGHT => w[s.row] = s.col
    /\ s.row >= VGA_HEIGHT => s.col = 0

InOrder(s) == \E w \in Filling : Filled_by(s, w)

(* Every cell belongs to one row and one column (terminal_put_char).       *)
LEMMA CellsApart ==
    ASSUME NEW x \in 0 .. (VGA_HEIGHT - 1), NEW y \in 0 .. (VGA_WIDTH - 1),
           NEW u \in 0 .. (VGA_HEIGHT - 1), NEW v \in 0 .. (VGA_WIDTH - 1),
           x * VGA_WIDTH + y = u * VGA_WIDTH + v
    PROVE  x = u /\ y = v
  <1> USE TerminalAssumption
  <1>1. x \in Int /\ y \in Int /\ u \in Int /\ v \in Int /\ VGA_WIDTH \in Int /\ VGA_WIDTH > 0
    OBVIOUS
  <1>2. x * VGA_WIDTH - u * VGA_WIDTH = (x - u) * VGA_WIDTH
    BY <1>1
  <1>3. (x - u) * VGA_WIDTH < VGA_WIDTH /\ (x - u) * VGA_WIDTH > (0 - VGA_WIDTH)
    BY <1>1, <1>2
  <1>4. ~ (x - u >= 1)
    <2> SUFFICES ASSUME x - u >= 1 PROVE FALSE
      OBVIOUS
    <2>1. ((x - u) - 1) * VGA_WIDTH >= 0
      BY <1>1
    <2>2. ((x - u) - 1) * VGA_WIDTH = (x - u) * VGA_WIDTH - VGA_WIDTH
      BY <1>1
    <2> QED BY <1>1, <1>3, <2>1, <2>2
  <1>5. ~ (u - x >= 1)
    <2> SUFFICES ASSUME u - x >= 1 PROVE FALSE
      OBVIOUS
    <2>1. ((u - x) - 1) * VGA_WIDTH >= 0
      BY <1>1
    <2>2. ((u - x) - 1) * VGA_WIDTH = (0 - ((x - u) * VGA_WIDTH)) - VGA_WIDTH
      BY <1>1
    <2> QED BY <1>1, <1>3, <2>1, <2>2
  <1>6. x = u
    BY <1>1, <1>4, <1>5
  <1> QED BY <1>1, <1>6

(* Printing a character at a place of the screen changes that cell only.   *)
LEMMA PutChanges ==
    ASSUME NEW s, NEW a, NEW x \in 0 .. (VGA_HEIGHT - 1), NEW y \in 0 .. (VGA_WIDTH - 1)
    PROVE  \A u \in 0 .. (VGA_HEIGHT - 1), v \in 0 .. (VGA_WIDTH - 1) :
              terminal_put_char(s, y, x, a).video_memory[u * VGA_WIDTH + v]
                 = IF u = x /\ v = y THEN a ELSE s.video_memory[u * VGA_WIDTH + v]
  <1> TAKE u \in 0 .. (VGA_HEIGHT - 1), v \in 0 .. (VGA_WIDTH - 1)
  <1> DEFINE p == x * VGA_WIDTH + y
             q == u * VGA_WIDTH + v
  <1>1. p \in Cells /\ q \in Cells
    BY CellOnScreen
  <1>2. p = q <=> u = x /\ v = y
    BY CellsApart
  <1>3. terminal_put_char(s, y, x, a).video_memory[q] = IF q = p THEN a ELSE s.video_memory[q]
    <2> HIDE DEF q
    <2> QED BY <1>1 DEF terminal_put_char
  <1> QED BY <1>2, <1>3

(* A cleared screen.                                                       *)
LEMMA ClearInOrder ==
    ASSUME NEW s
    PROVE  /\ terminal_init(s).row = 0 /\ terminal_init(s).col = 0
           /\ Filled_by(terminal_init(s), [x \in 0 .. (VGA_HEIGHT - 1) |-> 0])
  <1> DEFINE c == terminal_init(s)
             w == [x \in 0 .. (VGA_HEIGHT - 1) |-> 0]
  <1>1. c.row = 0 /\ c.col = 0 /\ c.video_memory = [p \in Cells |-> Blank]
    BY DEF terminal_init
  <1> HIDE DEF c
  <1>2. \A x \in 0 .. (VGA_HEIGHT - 1) : Filled(c, x, 0)
    BY <1>1, CellOnScreen DEF Filled
  <1>3. 0 \in 0 .. (VGA_HEIGHT - 1) /\ 0 < VGA_HEIGHT /\ VGA_HEIGHT \in Int
    BY TerminalAssumption
  <1> QED BY <1>1, <1>2, <1>3 DEF Filled_by, c

(* Where kernel_terminal_print_char puts its character: the cursor is      *)
(* wrapped and the screen cleared before.                                  *)
Wrapped(s) == IF s.col >= VGA_WIDTH THEN At(s, Below(s.row), 0) ELSE s

Placed(s) == IF Wrapped(s).row >= VGA_HEIGHT THEN terminal_init(Wrapped(s)) ELSE Wrapped(s)

(* The cursor of a screen in order is wrapped from a row of the screen to  *)
(* the next, which is empty.                                               *)
LEMMA WrapInOrder ==
    ASSUME NEW s, Safe(s), NEW w \in Filling, Filled_by(s, w), NEW r, r = Wrapped(s)
    PROVE  /\ Filled_by(r, w)
           /\ r.video_memory = s.video_memory
           /\ r.row \in 0 .. (ROWS - 1) /\ r.col \in 0 .. (VGA_WIDTH - 1)
           /\ s.col < VGA_WIDTH => r = s
           /\ s.col >= VGA_WIDTH => r.row = s.row + 1 /\ r.col = 0
  <1> USE TerminalAssumption
  <1>1. s.row \in 0 .. (ROWS - 1) /\ s.col \in 0 .. VGA_WIDTH
    BY DEF Safe
  <1>2. CASE s.col < VGA_WIDTH
    <2>1. r = s
      BY <1>1, <1>2 DEF Wrapped
    <2> QED BY <1>1, <1>2, <2>1
  <1>3. CASE s.col >= VGA_WIDTH
    <2>1. s.row < VGA_HEIGHT /\ Below(s.row) = s.row + 1 /\ s.row + 1 \in 0 .. (ROWS - 1)
      BY <1>1, <1>3 DEF Filled_by, Below
    <2>2. r.row = s.row + 1 /\ r.col = 0 /\ r.video_memory = s.video_memory
      BY <1>3, <2>1 DEF Wrapped, At
    <2>3. Filled_by(r, w)
      BY <1>1, <2>1, <2>2 DEF Filled_by, Filled
    <2> QED BY <1>1, <1>3, <2>1, <2>2, <2>3
  <1> QED BY <1>1, <1>2, <1>3

(* A blank cell and the end of a string are no characters.                 *)
LEMMA NoCharacters == Blank \notin Chars /\ NewLine \notin Chars
  BY TerminalAssumption DEF Blank, NewLine, Chars, Digits, Space

(* A character is put at the cursor, which moves behind it, on the screen. *)
Put(s, a) == At(terminal_put_char(s, s.col, s.row, a), s.row, s.col + 1)

OnThePage(s) == s.row \in 0 .. (VGA_HEIGHT - 1) /\ s.col \in 0 .. (VGA_WIDTH - 1)

(* Where it stands the character is on the screen and the screen in order, *)
(* with room for it: a character that fits in its row is not moved.        *)
LEMMA PlaceInOrder ==
    ASSUME NEW s, Safe(s), InOrder(s), NEW c, c = Placed(s)
    PROVE  /\ InOrder(c)
           /\ OnThePage(c)
           /\ s.col < VGA_WIDTH => c.col = s.col
           /\ s.col < VGA_WIDTH /\ s.row < VGA_HEIGHT => c = s
  <1> USE TerminalAssumption DEF OnThePage
  <1>1. PICK w \in Filling : Filled_by(s, w)
    BY DEF InOrder
  <1> DEFINE r == Wrapped(s)
  <1>2. /\ Filled_by(r, w)
        /\ r.row \in 0 .. (ROWS - 1) /\ r.col \in 0 .. (VGA_WIDTH - 1)
        /\ s.col < VGA_WIDTH => r = s
    BY <1>1, WrapInOrder
  <1> HIDE DEF r
  <1>3. CASE r.row >= VGA_HEIGHT
    <2>1. c = terminal_init(r)
      BY <1>3 DEF Placed, r
    <2>2. c.row = 0 /\ c.col = 0 /\ Filled_by(c, [x \in 0 .. (VGA_HEIGHT - 1) |-> 0])
      BY <2>1, ClearInOrder
    <2>3. [x \in 0 .. (VGA_HEIGHT - 1) |-> 0] \in Filling
      BY DEF Filling
    <2>4. r.col = 0
      BY <1>2, <1>3 DEF Filled_by
    <2>5. InOrder(c)
      BY <2>2, <2>3 DEF InOrder
    <2> QED BY <1>2, <1>3, <2>2, <2>4, <2>5
  <1>4. CASE ~ (r.row >= VGA_HEIGHT)
    <2>1. c = r
      BY <1>4 DEF Placed, r
    <2> QED BY <1>2, <1>4, <2>1 DEF InOrder
  <1> QED BY <1>3, <1>4

(* The cursor's row is longer by one. *)
Longer(w, s) == [w EXCEPT ![s.row] = s.col + 1]

(* A character that is put behind the last one of its row.                 *)
LEMMA PutInOrder ==
    ASSUME NEW s, NEW w \in Filling, Filled_by(s, w), NEW a \in Chars,
           OnThePage(s), NEW r, r = Put(s, a)
    PROVE  /\ Longer(w, s) \in Filling
           /\ Filled_by(r, Longer(w, s))
           /\ r.row = s.row /\ r.col = s.col + 1
           /\ \A u \in 0 .. (VGA_HEIGHT - 1), v \in 0 .. (VGA_WIDTH - 1) :
                 r.video_memory[u * VGA_WIDTH + v]
                    = IF u = s.row /\ v = s.col THEN a ELSE s.video_memory[u * VGA_WIDTH + v]
  <1> USE TerminalAssumption DEF OnThePage
  <1> DEFINE n == Longer(w, s)
  <1>1. r.row = s.row /\ r.col = s.col + 1
    BY DEF At, Put
  <1>2. \A u \in 0 .. (VGA_HEIGHT - 1), v \in 0 .. (VGA_WIDTH - 1) :
           r.video_memory[u * VGA_WIDTH + v]
              = IF u = s.row /\ v = s.col THEN a ELSE s.video_memory[u * VGA_WIDTH + v]
    <2>1. r.video_memory = terminal_put_char(s, s.col, s.row, a).video_memory
      BY DEF At, Put
    <2> QED BY <2>1, PutChanges
  <1>3. n \in Filling /\ n[s.row] = s.col + 1
        /\ \A x \in 0 .. (VGA_HEIGHT - 1) : x # s.row => n[x] = w[x]
    BY DEF Filling, Longer
  <1> HIDE DEF n
  <1>4. \A x \in 0 .. (VGA_HEIGHT - 1) : Filled(r, x, n[x])
    <2> TAKE x \in 0 .. (VGA_HEIGHT - 1)
    <2>1. Filled(s, x, w[x]) /\ w[s.row] = s.col
      BY DEF Filled_by
    <2>2. CASE x = s.row
      <3> SUFFICES ASSUME NEW y \in 0 .. (VGA_WIDTH - 1)
                   PROVE  IF y < n[x] THEN r.video_memory[x * VGA_WIDTH + y] \in Chars
                                      ELSE r.video_memory[x * VGA_WIDTH + y] = Blank
        BY DEF Filled
      <3> DEFINE q == x * VGA_WIDTH + y
      <3>1. r.video_memory[q] = IF y = s.col THEN a ELSE s.video_memory[q]
        BY <1>2, <2>2
      <3>2. IF y < s.col THEN s.video_memory[q] \in Chars ELSE s.video_memory[q] = Blank
        BY <2>1, <2>2 DEF Filled
      <3> HIDE DEF q
      <3>3. n[x] = s.col + 1
        BY <1>3, <2>2
      <3>4. IF y < n[x] THEN r.video_memory[q] \in Chars ELSE r.video_memory[q] = Blank
        BY <3>1, <3>2, <3>3
      <3> QED BY <3>4 DEF q
    <2>3. CASE x # s.row
      BY <1>2, <1>3, <2>1, <2>3 DEF Filled
    <2> QED BY <2>2, <2>3
  <1>5. Filled_by(r, n)
    BY <1>1, <1>3, <1>4 DEF Filled_by
  <1> QED BY <1>1, <1>2, <1>3, <1>5 DEF n

(* The next line of a screen in order is empty, on the screen or below it. *)
LEMMA NextInOrder ==
    ASSUME NEW s, Safe(s), NEW w \in Filling, Filled_by(s, w), s.row # ROWS - 1,
           NEW r, r = EndOfString(s)
    PROVE  /\ r.row = s.row + 1 /\ r.col = 0 /\ r.video_memory = s.video_memory
           /\ Filled_by(r, w)
  <1> USE TerminalAssumption
  <1>1. s.row \in 0 .. (ROWS - 1) /\ Below(s.row) = s.row + 1
    BY DEF Safe, Below
  <1>2. r.row = s.row + 1 /\ r.col = 0 /\ r.video_memory = s.video_memory
    BY <1>1 DEF EndOfString, At
  <1>3. Filled_by(r, w)
    BY <1>1, <1>2 DEF Filled_by, Filled
  <1> QED BY <1>2, <1>3

(* kernel_terminal_print_char puts its character where it is placed.       *)
LEMMA PrintPuts ==
    ASSUME NEW s, NEW a
    PROVE  kernel_terminal_print_char(s, a) = Put(Placed(s), a)
  BY DEF kernel_terminal_print_char, Placed, Wrapped, Put

(* A screen whose cells hold characters or are blank.                      *)
Typed(s) == Safe(s) /\ s.video_memory \in [Cells -> Chars \cup {Blank}]

(* Printing and the end of a string keep it so.                            *)
LEMMA PrintTyped ==
    ASSUME NEW s, Typed(s), NEW a \in Chars
    PROVE  Typed(kernel_terminal_print_char(s, a)) /\ Typed(EndOfString(s))
  <1> DEFINE V == [Cells -> Chars \cup {Blank}]
             c == Placed(s)
  <1>1. c.video_memory \in V
    <2>1. Wrapped(s).video_memory \in V
      BY DEF Wrapped, At, Typed
    <2>2. terminal_init(Wrapped(s)).video_memory \in V
      BY DEF terminal_init
    <2> QED BY <2>1, <2>2 DEF Placed
  <1>2. kernel_terminal_print_char(s, a) = Put(c, a)
    BY PrintPuts
  <1> HIDE DEF c
  <1>3. kernel_terminal_print_char(s, a).video_memory
          = [q \in Cells |-> IF q = c.row * VGA_WIDTH + c.col THEN a ELSE c.video_memory[q]]
    BY <1>2 DEF Put, At, terminal_put_char
  <1>4. kernel_terminal_print_char(s, a).video_memory \in V
    BY <1>1, <1>3
  <1>5. EndOfString(s).video_memory \in V
    BY DEF EndOfString, At, Typed
  <1>6. Safe(s)
    BY DEF Typed
  <1> QED BY <1>4, <1>5, <1>6, PrintSafe, EndSafe DEF Typed

-----------------------------------------------------------------------------
(***************************************************************************)
(* What the rows show.                                                     *)
(***************************************************************************)

(* RowText and Lines of any screen. *)
RowOf(s, x) ==
    LET printed == {y \in 1 .. VGA_WIDTH : s.video_memory[x * VGA_WIDTH + (y - 1)] # Blank}
    IN  [y \in 1 .. Max({0} \cup printed) |-> s.video_memory[x * VGA_WIDTH + (y - 1)]]

LineOf(s, i) == IF i <= VGA_HEIGHT THEN RowOf(s, i - 1) ELSE <<>>

LinesOf(s) == [i \in 1 .. (s.row + 1) |-> LineOf(s, i)]

(* A row that is filled up to a column shows its characters up to there.   *)
LEMMA FilledRow ==
    ASSUME NEW s, NEW x, NEW n \in 0 .. VGA_WIDTH, Filled(s, x, n)
    PROVE  /\ RowOf(s, x) = [y \in 1 .. n |-> s.video_memory[x * VGA_WIDTH + (y - 1)]]
           /\ RowOf(s, x) \in Seq(Chars)
           /\ Len(RowOf(s, x)) = n
  <1> USE TerminalAssumption
  <1> DEFINE cell(y) == s.video_memory[x * VGA_WIDTH + (y - 1)]
             printed == {y \in 1 .. VGA_WIDTH : cell(y) # Blank}
             text == [y \in 1 .. n |-> cell(y)]
  <1>1. \A y \in 1 .. VGA_WIDTH : IF y <= n THEN cell(y) \in Chars ELSE cell(y) = Blank
    <2> TAKE y \in 1 .. VGA_WIDTH
    <2>1. y - 1 \in 0 .. (VGA_WIDTH - 1) /\ (y - 1 < n <=> y <= n)
      OBVIOUS
    <2> HIDE DEF cell
    <2> QED BY <2>1 DEF Filled, cell
  <1>2. text \in Seq(Chars) /\ Len(text) = n
    <2> HIDE DEF cell
    <2> QED BY <1>1
  <1>3. RowOf(s, x) = [y \in 1 .. Max({0} \cup printed) |-> cell(y)]
    BY DEF RowOf
  <1>4. {0} \cup printed = 0 .. n
    <2> HIDE DEF cell
    <2> QED BY <1>1, NoCharacters
  <1> HIDE DEF printed
  <1>5. Max(0 .. n) = n
    <2>1. n \in 0 .. n /\ \A y \in 0 .. n : n >= y
      OBVIOUS
    <2>2. \A m \in 0 .. n : (\A y \in 0 .. n : m >= y) => m = n
      OBVIOUS
    <2> QED BY <2>1, <2>2 DEF Max
  <1>6. Max({0} \cup printed) = n
    BY <1>4, <1>5
  <1> HIDE DEF cell
  <1> QED BY <1>2, <1>3, <1>6 DEF cell

(* A row that no character was printed in shows nothing. *)
LEMMA EmptyRow ==
    ASSUME NEW s, NEW x, Filled(s, x, 0)
    PROVE  RowOf(s, x) = <<>>
  <1>1. 0 \in 0 .. VGA_WIDTH
    BY TerminalAssumption
  <1>2. RowOf(s, x) \in Seq(Chars) /\ Len(RowOf(s, x)) = 0
    BY <1>1, FilledRow
  <1> QED BY <1>2, EmptySeq

(* The two ways to write a screen's text agree.                            *)
LEMMA ShownNow == /\ \A x : RowText(x) = RowOf(scr, x)
                  /\ Lines = LinesOf(scr)
  <1>1. \A x : RowText(x) = RowOf(scr, x)
    BY DEF RowText, RowOf, Cell
  <1> QED BY <1>1 DEF Lines, LinesOf, LineOf

(* A screen in order is tidy.                                              *)
LEMMA InOrderTidy ==
    ASSUME Typed(scr), overrun \/ InOrder(scr)
    PROVE  Tidy
  <1> USE TerminalAssumption
  <1> SUFFICES ASSUME InOrder(scr)
               PROVE  /\ \A x \in 0 .. (VGA_HEIGHT - 1), y \in 1 .. (VGA_WIDTH - 1) :
                            Cell(x, y) # Blank => Cell(x, y - 1) # Blank
                      /\ \A x \in (scr.row + 1) .. (VGA_HEIGHT - 1) : RowText(x) = <<>>
                      /\ scr.row < VGA_HEIGHT => scr.col = Len(RowText(scr.row))
    BY DEF Tidy
  <1>1. PICK w \in Filling : Filled_by(scr, w)
    BY DEF InOrder
  <1>2. \A x \in 0 .. (VGA_HEIGHT - 1) : Filled(scr, x, w[x]) /\ w[x] \in 0 .. VGA_WIDTH
    BY <1>1 DEF Filled_by, Filling
  <1>3. scr.row \in 0 .. (ROWS - 1)
    BY DEF Typed, Safe
  <1>4. ASSUME NEW x \in 0 .. (VGA_HEIGHT - 1), NEW y \in 1 .. (VGA_WIDTH - 1),
               Cell(x, y) # Blank
        PROVE  Cell(x, y - 1) # Blank
    <2>1. y \in 0 .. (VGA_WIDTH - 1) /\ y - 1 \in 0 .. (VGA_WIDTH - 1)
      OBVIOUS
    <2>2. y < w[x]
      BY <1>2, <1>4, <2>1 DEF Filled, Cell
    <2>3. y - 1 < w[x]
      BY <1>2, <2>2
    <2>4. Cell(x, y - 1) \in Chars
      BY <1>2, <2>1, <2>3 DEF Filled, Cell
    <2> QED BY <2>4, NoCharacters
  <1>5. ASSUME NEW x \in (scr.row + 1) .. (VGA_HEIGHT - 1)
        PROVE  RowText(x) = <<>>
    <2>1. x \in 0 .. (VGA_HEIGHT - 1) /\ w[x] = 0
      BY <1>1, <1>3 DEF Filled_by
    <2> QED BY <1>2, <2>1, EmptyRow, ShownNow
  <1>6. ASSUME scr.row < VGA_HEIGHT
        PROVE  scr.col = Len(RowText(scr.row))
    <2>1. scr.row \in 0 .. (VGA_HEIGHT - 1) /\ w[scr.row] = scr.col
      BY <1>1, <1>3, <1>6 DEF Filled_by
    <2> QED BY <1>2, <2>1, FilledRow, ShownNow
  <1> QED BY <1>4, <1>5, <1>6

-----------------------------------------------------------------------------
(***************************************************************************)
(* The inductive invariant.                                                *)
(***************************************************************************)

(* Row x holds the first m characters of a text from column c on.          *)
Holds(s, x, c, text, m) ==
    \A j \in 1 .. m : s.video_memory[x * VGA_WIDTH + (c + (j - 1))] = text[j]

(* The last call is one whose text fits in a line. *)
Message == /\ said.by \in {"string", "panic"}
           /\ said.col + Len(said.text) <= VGA_WIDTH
           /\ said.text # <<>>

(* How many of its characters are on the screen while it runs.             *)
Printed == (Len(said.text) + 1) - Len(todo)

(* It is being printed: what is left of it is still to come, what was      *)
(* printed stands before the cursor.                                       *)
OnItsWay ==
    /\ todo # <<>>
    /\ Printed \in 0 .. Len(said.text)
    /\ \A i \in 1 .. Len(todo) :
          todo[i] = IF Printed + i <= Len(said.text) THEN said.text[Printed + i] ELSE NewLine
    /\ scr.col = said.col + Printed
    /\ Printed > 0 => /\ scr.row < VGA_HEIGHT
                      /\ Holds(scr, scr.row, said.col, said.text, Printed)

(* It was printed: its line is the one before the cursor's.                *)
Standing ==
    /\ todo = <<>>
    /\ scr.row \in 1 .. VGA_HEIGHT
    /\ Filled(scr, scr.row - 1, said.col + Len(said.text))
    /\ Holds(scr, scr.row - 1, said.col, said.text, Len(said.text))

MessageKept == Message => OnItsWay \/ Standing

(* Until the row passes its last value the screen is in order and the last *)
(* message whole or on its way.                                            *)
ScreenInv == /\ TypeOK
             /\ Typed(scr)
             /\ overrun \/ (InOrder(scr) /\ MessageKept)

(* One more character of a text after those that stand before the cursor.  *)
LEMMA HoldsMore ==
    ASSUME NEW s, NEW w \in Filling, Filled_by(s, w), NEW text, NEW c \in Nat, NEW m \in Nat,
           OnThePage(s), s.col = c + m,
           Holds(s, s.row, c, text, m), text[m + 1] \in Chars,
           NEW r, r = Put(s, text[m + 1])
    PROVE  Holds(r, r.row, c, text, m + 1)
  <1> SUFFICES ASSUME NEW j \in 1 .. (m + 1)
               PROVE  r.video_memory[r.row * VGA_WIDTH + (c + (j - 1))] = text[j]
    BY DEF Holds
  <1> DEFINE v == c + (j - 1)
  <1>1. v \in 0 .. (VGA_WIDTH - 1) /\ (v = s.col <=> j = m + 1)
    BY TerminalAssumption DEF OnThePage
  <1> HIDE DEF v
  <1>2. /\ r.row = s.row
        /\ r.video_memory[s.row * VGA_WIDTH + v]
             = IF v = s.col THEN text[m + 1] ELSE s.video_memory[s.row * VGA_WIDTH + v]
    <2> DEFINE a == text[m + 1]
    <2>1. r = Put(s, a) /\ a \in Chars
      OBVIOUS
    <2> HIDE DEF a
    <2>2. r.row = s.row
          /\ \A x \in 0 .. (VGA_HEIGHT - 1), y \in 0 .. (VGA_WIDTH - 1) :
                r.video_memory[x * VGA_WIDTH + y]
                   = IF x = s.row /\ y = s.col THEN a ELSE s.video_memory[x * VGA_WIDTH + y]
      BY <2>1, PutInOrder
    <2>3. r.video_memory[s.row * VGA_WIDTH + v]
            = IF v = s.col THEN a ELSE s.video_memory[s.row * VGA_WIDTH + v]
      BY <1>1, <2>2 DEF OnThePage
    <2> QED BY <2>2, <2>3 DEF a
  <1>3. j # m + 1 => s.video_memory[s.row * VGA_WIDTH + v] = text[j]
    BY DEF Holds, v
  <1>4. r.video_memory[r.row * VGA_WIDTH + v] = text[j]
    BY <1>1, <1>2, <1>3
  <1> QED BY <1>4 DEF v

(* The texts of the calls consist of characters.                           *)
LEMMA CallTexts ==
    /\ Strings \subseteq Seq(Chars)
    /\ \A n \in Numbers : n \in Nat /\ DecimalDigits(n) \in Seq(Chars)
    /\ \A hex \in Bytes : hex \in Nat /\ <<hex \div 16, hex % 16, Space>> \in Seq(Chars)
    /\ <<0>> \in Seq(Chars)
  <1> USE TerminalAssumption
  <1>1. \A str \in Strings : str \in Seq(Chars)
    <2>1. Letters \subseteq Chars
      BY DEF Chars
    <2> QED BY <2>1, SeqMonotonic
  <1>2. ASSUME NEW n \in Numbers PROVE n \in Nat /\ DecimalDigits(n) \in Seq(Chars)
    <2>1. n \in Nat /\ Decimal \subseteq Chars
      BY DEF Chars, Digits, Decimal
    <2>2. DecimalDigits(n) \in Seq(Decimal)
      BY <2>1, DigitsOf
    <2> QED BY <2>1, <2>2, SeqMonotonic
  <1>3. ASSUME NEW hex \in Bytes
        PROVE  hex \in Nat /\ <<hex \div 16, hex % 16, Space>> \in Seq(Chars)
    <2>1. hex \in 0 .. 255
      OBVIOUS
    <2>2. hex \div 16 \in 0 .. 15 /\ hex % 16 \in 0 .. 15
      BY <2>1
    <2> QED BY <2>1, <2>2 DEF Chars, Digits
  <1>4. <<0>> \in Seq(Chars)
    BY DEF Chars, Digits
  <1> QED BY <1>1, <1>2, <1>3, <1>4

(* A call begins with the cursor where the last one left it.               *)
LEMMA CallKeeps ==
    ASSUME ScreenInv, NEW by, NEW text, NEW n, NEW ends, Call(by, text, n, ends),
           by \in {"string", "uint", "hex", "panic"}, text \in Seq(Chars), n \in Nat,
           ends \in Seq({NewLine}), by \in {"string", "panic"} => ends = <<NewLine>>,
           halted' \in BOOLEAN
    PROVE  ScreenInv'
  <1> DEFINE T == Chars \cup {NewLine}
  <1>1. /\ todo' = text \o ends /\ todo = <<>>
        /\ said' = [by |-> by, text |-> text, n |-> n, col |-> scr.col]
        /\ scr' = scr /\ overrun' = overrun
    BY DEF Call
  <1>2. scr.col \in 0 .. VGA_WIDTH /\ scr.row \in 0 .. (ROWS - 1)
    BY DEF ScreenInv, Typed, Safe
  <1>3. text \in Seq(T) /\ ends \in Seq(T)
    <2>1. Chars \subseteq T /\ {NewLine} \subseteq T
      OBVIOUS
    <2> HIDE DEF T
    <2> QED BY <2>1, SeqMonotonic
  <1>4. /\ todo' \in Seq(T) /\ Len(todo') = Len(text) + Len(ends)
        /\ \A i \in 1 .. (Len(text) + Len(ends)) :
              todo'[i] = IF i <= Len(text) THEN text[i] ELSE ends[i - Len(text)]
    BY <1>1, <1>3, ConcatProperties
  <1>5. TypeOK'
    BY <1>1, <1>2, <1>4 DEF ScreenInv, TypeOK
  <1>6. ASSUME Message' PROVE OnItsWay'
    <2>1. ends = <<NewLine>> /\ Len(ends) = 1
      BY <1>1, <1>6 DEF Message
    <2>2. Len(text) \in Nat /\ Len(todo') = Len(text) + 1 /\ Printed' = 0
      BY <1>1, <1>4, <2>1 DEF Printed
    <2>3. \A i \in 1 .. Len(todo') :
             todo'[i] = IF Printed' + i <= Len(text) THEN text[Printed' + i] ELSE NewLine
      <3> TAKE i \in 1 .. Len(todo')
      <3>1. ~ (i <= Len(text)) => i - Len(text) = 1
        BY <2>2
      <3> QED BY <1>4, <2>1, <2>2, <3>1
    <2>4. todo' # <<>>
      BY <2>2
    <2> QED BY <1>1, <1>2, <2>2, <2>3, <2>4 DEF OnItsWay
  <1>7. Typed(scr)' /\ (overrun \/ InOrder(scr))'
    <2>1. InOrder(scr)' <=> InOrder(scr)
      BY <1>1 DEF InOrder, Filled_by, Filled
    <2>2. Typed(scr)'
      BY <1>1 DEF ScreenInv, Typed, Safe
    <2> QED BY <1>1, <2>1, <2>2 DEF ScreenInv
  <1> QED BY <1>5, <1>6, <1>7 DEF ScreenInv, MessageKept

(* Printing a character of a message.                                      *)
LEMMA CharacterKeeps ==
    ASSUME ScreenInv, Step, Head(todo) # NewLine, ~ overrun
    PROVE  InOrder(scr)' /\ MessageKept'
  <1> USE TerminalAssumption
  <1> DEFINE a == Head(todo)
             c == Placed(scr)
             r == Put(c, a)
             T == Chars \cup {NewLine}
  <1>1. /\ todo \in Seq(T) /\ a \in Chars
        /\ todo' = Tail(todo) /\ todo' \in Seq(T) /\ Len(todo') = Len(todo) - 1
        /\ \A i \in 1 .. Len(todo') : todo'[i] = todo[i + 1]
        /\ a = todo[1] /\ Len(todo) \in Nat \ {0}
    <2>1. todo \in Seq(T) /\ todo # <<>> /\ todo' = Tail(todo)
      BY DEF ScreenInv, TypeOK, Step
    <2> HIDE DEF T
    <2>2. /\ a \in T /\ Tail(todo) \in Seq(T) /\ Len(Tail(todo)) = Len(todo) - 1
          /\ \A i \in 1 .. Len(Tail(todo)) : Tail(todo)[i] = todo[i + 1]
      BY <2>1, HeadTailProperties
    <2>3. a = todo[1] /\ Len(todo) \in Nat \ {0}
      BY <2>1, EmptySeq
    <2> QED BY <2>1, <2>2, <2>3 DEF T
  <1>2. scr' = r /\ said' = said
    <2>1. scr' = kernel_terminal_print_char(scr, a) /\ said' = said
      BY DEF Step
    <2> QED BY <2>1, PrintPuts
  <1>3. Safe(scr) /\ InOrder(scr) /\ MessageKept
    BY DEF ScreenInv, Typed
  <1>4. /\ InOrder(c)
        /\ OnThePage(c)
        /\ scr.col < VGA_WIDTH => c.col = scr.col
        /\ scr.col < VGA_WIDTH /\ scr.row < VGA_HEIGHT => c = scr
    BY <1>3, PlaceInOrder
  <1> HIDE DEF a, c, r
  <1>5. PICK w \in Filling : Filled_by(c, w)
    BY <1>4 DEF InOrder
  <1>6. InOrder(r) /\ r.row = c.row /\ r.col = c.col + 1
    <2>1. r = Put(c, a)
      BY DEF r
    <2>2. /\ Longer(w, c) \in Filling
          /\ Filled_by(r, Longer(w, c))
          /\ r.row = c.row /\ r.col = c.col + 1
      BY <1>1, <1>4, <1>5, <2>1, PutInOrder
    <2> QED BY <2>2 DEF InOrder
  <1>7. ASSUME Message' PROVE OnItsWay'
    <2> DEFINE text == said.text
               l == Len(said.text)
               m == Printed
    <2>1. Message /\ OnItsWay
      <3>1. Message
        BY <1>2, <1>7 DEF Message
      <3>2. ~ Standing
        BY DEF Standing, Step
      <3> QED BY <1>3, <3>1, <3>2 DEF MessageKept
    <2>2. text \in Seq(Chars) /\ l \in Nat /\ said.col \in Nat
      BY DEF ScreenInv, TypeOK
    <2>3. m \in 0 .. l /\ scr.col = said.col + m /\ m = (l + 1) - Len(todo)
      BY <2>1 DEF OnItsWay, Printed
    <2>4. m + 1 <= l /\ a = text[m + 1]
      <3>1. 1 \in 1 .. Len(todo)
        BY <1>1
      <3>2. a = IF m + 1 <= l THEN text[m + 1] ELSE NewLine
        BY <1>1, <2>1, <3>1 DEF OnItsWay
      <3> QED BY <1>1, <3>2, NoCharacters
    <2>5. Printed' = m + 1
      BY <1>1, <1>2, <2>2, <2>3 DEF Printed
    <2> HIDE DEF m
    <2>6. scr.col < VGA_WIDTH
      BY <2>1, <2>2, <2>3, <2>4 DEF Message
    <2>7. c.col = said.col + m
      BY <1>4, <2>3, <2>6
    <2>8. Holds(c, c.row, said.col, text, m)
      <3>1. CASE m = 0
        BY <3>1 DEF Holds
      <3>2. CASE m # 0
        <4>1. scr.row < VGA_HEIGHT /\ Holds(scr, scr.row, said.col, text, m)
          BY <2>1, <2>3, <3>2 DEF OnItsWay, m
        <4> QED BY <1>4, <2>6, <4>1
      <3> QED BY <3>1, <3>2
    <2>9. Holds(r, r.row, said.col, text, m + 1)
      <3>1. m \in Nat /\ text[m + 1] \in Chars
        BY <1>1, <2>3, <2>4
      <3>2. r = Put(c, text[m + 1])
        BY <2>4 DEF r
      <3> HIDE DEF text
      <3> QED BY <1>4, <1>5, <2>2, <2>7, <2>8, <3>1, <3>2, HoldsMore
    <2>10. \A i \in 1 .. Len(todo') :
             todo'[i] = IF (m + 1) + i <= l THEN text[(m + 1) + i] ELSE NewLine
      <3> TAKE i \in 1 .. Len(todo')
      <3>1. i + 1 \in 1 .. Len(todo) /\ m + (i + 1) = (m + 1) + i
        <4>1. m \in Int /\ i \in Int
          BY <2>2, <2>3
        <4>2. i + 1 \in 1 .. Len(todo)
          BY <1>1
        <4> QED BY <4>1, <4>2
      <3>2. todo[i + 1] = IF m + (i + 1) <= l THEN text[m + (i + 1)] ELSE NewLine
        BY <2>1, <3>1 DEF OnItsWay, m
      <3> QED BY <1>1, <3>1, <3>2
    <2>11. todo' # <<>>
      <3>1. Len(todo') >= 1
        BY <1>1, <2>2, <2>3, <2>4
      <3> QED BY <3>1, EmptySeq
    <2>12. r.col = said.col + (m + 1) /\ r.row < VGA_HEIGHT /\ m + 1 \in 0 .. l
      BY <1>4, <1>6, <2>2, <2>3, <2>4, <2>7 DEF OnThePage
    <2> QED BY <1>2, <2>5, <2>9, <2>10, <2>11, <2>12 DEF OnItsWay
  <1>8. InOrder(scr)'
    BY <1>2, <1>6 DEF InOrder, Filled_by, Filled
  <1> QED BY <1>7, <1>8 DEF MessageKept

(* The end of a message leaves it whole in the line above the cursor.      *)
LEMMA EndKeeps ==
    ASSUME ScreenInv, Step, Head(todo) = NewLine, ~ overrun'
    PROVE  InOrder(scr)' /\ MessageKept'
  <1> USE TerminalAssumption
  <1> DEFINE r == EndOfString(scr)
             T == Chars \cup {NewLine}
  <1>1. ~ overrun /\ scr.row # ROWS - 1 /\ scr' = r /\ said' = said
    BY DEF Step
  <1>2. Safe(scr) /\ InOrder(scr) /\ MessageKept
    BY <1>1 DEF ScreenInv, Typed
  <1>3. PICK w \in Filling : Filled_by(scr, w)
    BY <1>2 DEF InOrder
  <1>4. /\ r.row = scr.row + 1 /\ r.col = 0 /\ r.video_memory = scr.video_memory
        /\ Filled_by(r, w)
    BY <1>1, <1>2, <1>3, NextInOrder
  <1> HIDE DEF r
  <1>5. InOrder(scr)'
    BY <1>1, <1>4 DEF InOrder, Filled_by, Filled
  <1>6. ASSUME Message' PROVE Standing'
    <2> DEFINE text == said.text
               l == Len(said.text)
               m == Printed
    <2>1. Message /\ OnItsWay
      <3>1. Message
        BY <1>1, <1>6 DEF Message
      <3>2. ~ Standing
        BY DEF Standing, Step
      <3> QED BY <1>2, <3>1, <3>2 DEF MessageKept
    <2>2. text \in Seq(Chars) /\ l \in Nat \ {0} /\ said.col \in Nat
      <3>1. text \in Seq(Chars) /\ said.col \in Nat /\ text # <<>>
        BY <2>1 DEF ScreenInv, TypeOK, Message
      <3> QED BY <3>1, EmptySeq
    <2>3. /\ todo \in Seq(T) /\ todo # <<>> /\ Len(todo) \in Nat \ {0}
          /\ todo[1] = NewLine /\ todo' = Tail(todo)
      <3>1. todo \in Seq(T) /\ todo # <<>> /\ todo' = Tail(todo)
        BY DEF ScreenInv, TypeOK, Step
      <3> QED BY <3>1, EmptySeq
    <2>4. m \in 0 .. l /\ scr.col = said.col + m /\ m = (l + 1) - Len(todo)
      BY <2>1 DEF OnItsWay, Printed
    <2>5. m = l
      <3>1. 1 \in 1 .. Len(todo)
        BY <2>3
      <3>2. NewLine = IF m + 1 <= l THEN text[m + 1] ELSE NewLine
        BY <2>1, <2>3, <3>1 DEF OnItsWay
      <3>3. m + 1 <= l => text[m + 1] \in Chars
        BY <2>2, <2>4
      <3> HIDE DEF m, l
      <3> QED BY <2>2, <2>4, <3>2, <3>3, NoCharacters
    <2>6. todo' = <<>>
      <3>1. Len(todo) = 1
        <4>1. l = (l + 1) - Len(todo)
          BY <2>4, <2>5
        <4>2. l \in Nat /\ Len(todo) \in Nat
          BY <2>2, <2>3
        <4>3. \A p, q \in Nat : p = (p + 1) - q => q = 1
          OBVIOUS
        <4> HIDE DEF l
        <4> QED BY <4>1, <4>2, <4>3
      <3>2. Tail(todo) \in Seq(T) /\ Len(Tail(todo)) = 0
        BY <2>3, <3>1, HeadTailProperties
      <3> QED BY <2>3, <3>2, EmptySeq
    <2>7. scr.row \in 0 .. (VGA_HEIGHT - 1) /\ Holds(scr, scr.row, said.col, text, l)
      <3>1. scr.row < VGA_HEIGHT /\ Holds(scr, scr.row, said.col, text, m)
        BY <2>1, <2>2, <2>5 DEF OnItsWay
      <3>2. scr.row \in 0 .. (ROWS - 1)
        BY <1>2 DEF Safe
      <3> HIDE DEF m
      <3> QED BY <2>5, <3>1, <3>2
    <2>8. Filled(scr, scr.row, said.col + l)
      <3>1. w[scr.row] = said.col + l
        BY <1>3, <2>4, <2>5, <2>7 DEF Filled_by
      <3>2. Filled(scr, scr.row, w[scr.row])
        BY <1>3, <2>7 DEF Filled_by
      <3> QED BY <3>1, <3>2
    <2>9. r.row \in 1 .. VGA_HEIGHT /\ r.row - 1 = scr.row
      BY <1>4, <2>7
    <2>10. Filled(r, r.row - 1, said.col + l) /\ Holds(r, r.row - 1, said.col, text, l)
      BY <1>4, <2>7, <2>8, <2>9 DEF Filled, Holds
    <2> QED BY <1>1, <2>6, <2>9, <2>10 DEF Standing
  <1> QED BY <1>5, <1>6 DEF MessageKept

(* A step of the screen keeps the invariant.                               *)
LEMMA ScreenInvStep == ScreenInv /\ [Next]_vars => ScreenInv'
  <1> SUFFICES ASSUME ScreenInv, [Next]_vars PROVE ScreenInv'
    OBVIOUS
  <1> USE CallTexts
  <1>0. TypeOK /\ Typed(scr)
    BY DEF ScreenInv
  <1>e. <<NewLine>> \in Seq({NewLine}) /\ <<NewLine, NewLine>> \in Seq({NewLine})
        /\ <<>> \in Seq({NewLine}) /\ 0 \in Nat /\ TRUE \in BOOLEAN
    OBVIOUS
  <1>1. ASSUME NEW str \in Strings, kernel_print(str) PROVE ScreenInv'
    <2>1. Call("string", str, 0, <<NewLine>>) /\ halted' \in BOOLEAN /\ str \in Seq(Chars)
      BY <1>0, <1>1 DEF kernel_print, TypeOK
    <2> QED BY <1>e, <2>1, CallKeeps
  <1>2. ASSUME NEW str \in Strings, panic(str) PROVE ScreenInv'
    <2>1. Call("panic", str, 0, <<NewLine>>) /\ halted' \in BOOLEAN /\ str \in Seq(Chars)
      BY <1>2 DEF panic
    <2> QED BY <1>e, <2>1, CallKeeps
  <1>3. ASSUME NEW n \in Numbers, kernel_print_uint(n) PROVE ScreenInv'
    <2>1. halted' \in BOOLEAN /\ n \in Nat
      BY <1>0, <1>3 DEF kernel_print_uint, TypeOK
    <2>2. CASE n = 0
      <3>1. Call("uint", <<0>>, n, <<NewLine, NewLine>>)
        BY <1>3, <2>2 DEF kernel_print_uint
      <3> QED BY <1>e, <2>1, <3>1, CallKeeps
    <2>3. CASE n # 0
      <3>1. Call("uint", DecimalDigits(n), n, <<NewLine>>)
        BY <1>3, <2>3 DEF kernel_print_uint
      <3>2. DecimalDigits(n) \in Seq(Chars)
        OBVIOUS
      <3> QED BY <1>e, <2>1, <3>1, <3>2, CallKeeps
    <2> QED BY <2>2, <2>3
  <1>4. ASSUME NEW hex \in Bytes, kernel_print_char_hex(hex) PROVE ScreenInv'
    <2> DEFINE text == <<hex \div 16, hex % 16, Space>>
    <2>1. Call("hex", text, hex, <<>>) /\ halted' \in BOOLEAN
      BY <1>0, <1>4 DEF kernel_print_char_hex, TypeOK
    <2>2. text \in Seq(Chars) /\ hex \in Nat
      OBVIOUS
    <2> HIDE DEF text
    <2> QED BY <1>e, <2>1, <2>2, CallKeeps
  <1>5. ASSUME Step PROVE ScreenInv'
    <2> DEFINE T == Chars \cup {NewLine}
    <2>1. /\ todo \in Seq(T) /\ todo # <<>> /\ todo' = Tail(todo)
          /\ halted' = halted /\ said' = said /\ overrun' \in BOOLEAN
      BY <1>0, <1>5 DEF Step, TypeOK
    <2> HIDE DEF T
    <2>2. Head(todo) \in T /\ todo' \in Seq(T)
      BY <2>1, HeadTailProperties
    <2>3. Typed(scr')
      <3>1. CASE Head(todo) = NewLine
        <4>1. \E a : a \in Chars
          BY DEF Chars, Digits
        <4> QED BY <1>0, <1>5, <3>1, <4>1, PrintTyped DEF Step
      <3>2. CASE Head(todo) # NewLine
        <4>1. Head(todo) \in Chars /\ scr' = kernel_terminal_print_char(scr, Head(todo))
          BY <1>5, <2>2, <3>2 DEF Step, T
        <4> QED BY <1>0, <4>1, PrintTyped
      <3> QED BY <3>1, <3>2
    <2>4. scr' \in Screen
      <3>1. scr'.beyond \in BOOLEAN
        BY <2>3 DEF Typed, Safe
      <3> QED BY <2>3, <3>1 DEF Typed, Safe, Screen
    <2>5. TypeOK'
      BY <1>0, <2>1, <2>2, <2>4 DEF TypeOK, T
    <2>6. overrun' \/ (InOrder(scr) /\ MessageKept)'
      <3> SUFFICES ASSUME ~ overrun' PROVE (InOrder(scr) /\ MessageKept)'
        OBVIOUS
      <3>1. ~ overrun
        BY <1>5 DEF Step
      <3>2. CASE Head(todo) = NewLine
        BY <1>5, <3>2, EndKeeps
      <3>3. CASE Head(todo) # NewLine
        BY <1>5, <3>1, <3>3, CharacterKeeps
      <3> QED BY <3>2, <3>3
    <2> QED BY <2>3, <2>5, <2>6 DEF ScreenInv
  <1>6. CASE Stopped \/ UNCHANGED vars
    <2>1. UNCHANGED vars
      BY <1>6 DEF Stopped
    <2>2. TypeOK'
      BY <1>0, <2>1 DEF vars, TypeOK
    <2>3. Typed(scr)' /\ overrun' = overrun /\ (InOrder(scr)' <=> InOrder(scr))
          /\ (MessageKept' <=> MessageKept)
      <3>1. Typed(scr)' /\ overrun' = overrun /\ (InOrder(scr)' <=> InOrder(scr))
        BY <1>0, <2>1 DEF vars, Typed, Safe, InOrder, Filled_by, Filled
      <3>2. (Message' <=> Message) /\ (Standing' <=> Standing) /\ Printed' = Printed
        BY <2>1 DEF vars, Message, Standing, Printed, Filled, Holds
      <3>3. OnItsWay' <=> OnItsWay
        BY <2>1, <3>2 DEF vars, OnItsWay, Holds
      <3> QED BY <3>1, <3>2, <3>3 DEF MessageKept
    <2> QED BY <2>2, <2>3 DEF ScreenInv
  <1> QED BY <1>1, <1>2, <1>3, <1>4, <1>5, <1>6 DEF Next

(* The screen is cleared and nothing was said at the start. *)
LEMMA ScreenInvInit == Init => ScreenInv
  <1> USE TerminalAssumption
  <1> SUFFICES ASSUME Init PROVE ScreenInv
    OBVIOUS
  <1> DEFINE zero == [x \in 0 .. (VGA_HEIGHT - 1) |-> 0]
  <1>1. /\ scr.row = 0 /\ scr.col = 0 /\ scr.beyond = FALSE
        /\ scr.video_memory = [p \in Cells |-> Blank]
        /\ scr = [row |-> scr.row, col |-> scr.col, video_memory |-> scr.video_memory,
                  beyond |-> scr.beyond]
    BY DEF Init
  <1>2. Typed(scr)
    BY <1>1 DEF Typed, Safe
  <1>3. \A x \in 0 .. (VGA_HEIGHT - 1) : Filled(scr, x, 0)
    BY <1>1, CellOnScreen DEF Filled
  <1>4. InOrder(scr)
    <2>1. zero \in Filling /\ Filled_by(scr, zero)
      BY <1>1, <1>3 DEF Filling, Filled_by
    <2> QED BY <2>1 DEF InOrder
  <1>5. TypeOK
    <2>1. scr \in Screen
      BY <1>1, <1>2 DEF Typed, Safe, Screen
    <2>2. <<>> \in Seq(Chars) /\ <<>> \in Seq(Chars \cup {NewLine})
      OBVIOUS
    <2>3. 0 \in 0 .. VGA_WIDTH /\ 0 \in Nat
      OBVIOUS
    <2> QED BY <2>1, <2>2, <2>3 DEF Init, TypeOK, Nothing
  <1>6. ~ Message
    BY DEF Init, Message, Nothing
  <1> QED BY <1>2, <1>4, <1>5, <1>6 DEF ScreenInv, MessageKept

(* A message that stands is what the line above the cursor shows.          *)
LEMMA StandingShown ==
    ASSUME ScreenInv, Message, Standing
    PROVE  /\ scr.row > 0
           /\ SubSeq(Lines[scr.row], said.col + 1, Len(Lines[scr.row])) = said.text
  <1> USE TerminalAssumption
  <1> DEFINE r == scr.row - 1
             c == said.col
             l == Len(said.text)
             line == RowOf(scr, r)
             shown == SubSeq(line, c + 1, Len(line))
  <1>1. said.text \in Seq(Chars) /\ l \in Nat /\ c \in Nat
    BY DEF ScreenInv, TypeOK
  <1>2. /\ scr.row \in 1 .. VGA_HEIGHT /\ r \in 0 .. (VGA_HEIGHT - 1)
        /\ Filled(scr, r, c + l) /\ Holds(scr, r, c, said.text, l)
        /\ c + l \in 0 .. VGA_WIDTH
    BY <1>1 DEF Standing, Message
  <1>3. Lines[scr.row] = line
    <2>1. Lines[scr.row] = LineOf(scr, scr.row)
      BY <1>2, ShownNow DEF LinesOf
    <2> QED BY <1>2, <2>1 DEF LineOf
  <1> HIDE DEF r, l, c
  <1>4. /\ line = [y \in 1 .. (c + l) |-> scr.video_memory[r * VGA_WIDTH + (y - 1)]]
        /\ line \in Seq(Chars) /\ Len(line) = c + l
    BY <1>2, FilledRow
  <1> HIDE DEF line
  <1>5. /\ shown \in Seq(Chars) /\ Len(shown) = l
        /\ \A i \in 1 .. l : shown[i] = line[c + i]
    <2>1. \A i \in (c + 1) .. Len(line) : line[i] \in Chars
      BY <1>1, <1>4
    <2>2. /\ SubSeq(line, c + 1, Len(line)) \in Seq(Chars)
          /\ Len(SubSeq(line, c + 1, Len(line)))
               = IF c + 1 <= Len(line) THEN (Len(line) - (c + 1)) + 1 ELSE 0
          /\ \A i \in 1 .. ((Len(line) - (c + 1)) + 1) :
                SubSeq(line, c + 1, Len(line))[i] = line[((c + 1) + i) - 1]
      BY <1>1, <1>4, <2>1, SubSeqProperties
    <2>3. \A i \in 1 .. l : ((c + 1) + i) - 1 = c + i
      BY <1>1
    <2>4. (Len(line) - (c + 1)) + 1 = l /\ (c + 1 <= Len(line) <=> l # 0)
      BY <1>1, <1>4
    <2> HIDE DEF shown
    <2>5. shown \in Seq(Chars) /\ Len(shown) = l
      BY <1>1, <2>2, <2>4 DEF shown
    <2>6. \A i \in 1 .. l : shown[i] = line[((c + 1) + i) - 1]
      BY <2>2, <2>4 DEF shown
    <2> QED BY <2>3, <2>5, <2>6
  <1>6. \A i \in 1 .. l : line[c + i] = said.text[i]
    <2> TAKE i \in 1 .. l
    <2>1. c + i \in 1 .. (c + l) /\ (c + i) - 1 = c + (i - 1)
      BY <1>1
    <2>2. line[c + i] = scr.video_memory[r * VGA_WIDTH + ((c + i) - 1)]
      BY <1>4, <2>1
    <2>3. scr.video_memory[r * VGA_WIDTH + (c + (i - 1))] = said.text[i]
      BY <1>2 DEF Holds
    <2> QED BY <2>1, <2>2, <2>3
  <1>7. shown = said.text
    <2>1. Len(said.text) = l /\ \A i \in 1 .. l : shown[i] = said.text[i]
      BY <1>5, <1>6 DEF l
    <2> HIDE DEF shown
    <2> QED BY <1>1, <1>5, <2>1, SeqEqual
  <1> QED BY <1>2, <1>3, <1>7 DEF c

(* Every state has a well-formed screen, text and call (terminal_row, the  *)
(* loop of kernel_print_string, panic).                                    *)
THEOREM TerminalTyped == Spec => []TypeOK
  <1>1. ScreenInv => TypeOK
    BY DEF ScreenInv
  <1> QED BY ScreenInvInit, ScreenInvStep, <1>1, PTL DEF Spec

(* There is no gap in a row, the cursor stands behind the last character   *)
(* of its row and nothing is left below it, on a screen of any size        *)
(* (kernel_terminal_print_char, terminal_init).                            *)
THEOREM AlwaysTidy == Spec => []Tidy
  <1>1. ScreenInv => Tidy
    BY InOrderTidy DEF ScreenInv
  <1> QED BY ScreenInvInit, ScreenInvStep, <1>1, PTL DEF Spec

(* A message that fits in a line stands whole in the last line once its    *)
(* call is over, whatever was printed before (kernel_print_string, panic). *)
THEOREM MessageStandsWhole == Spec => []LastMessageWhole
  <1>1. ScreenInv => LastMessageWhole
    <2> SUFFICES ASSUME ScreenInv, todo = <<>>, ~ overrun, Message
                 PROVE  /\ scr.row > 0
                        /\ SubSeq(Lines[scr.row], said.col + 1, Len(Lines[scr.row])) = said.text
      BY DEF LastMessageWhole, Message
    <2>1. Standing
      BY DEF ScreenInv, MessageKept, OnItsWay
    <2> QED BY <2>1, StandingShown
  <1> QED BY ScreenInvInit, ScreenInvStep, <1>1, PTL DEF Spec

(* The digits of any number denote it, without a zero in front             *)
(* (kernel_print_uint).                                                    *)
THEOREM UintAlwaysRight == Spec => []UintRight
  <1>1. Init => UintRight
    BY DEF Init, Nothing, UintRight
  <1>2. UintRight /\ [Next]_vars => UintRight'
    <2> SUFFICES ASSUME UintRight, [Next]_vars PROVE UintRight'
      OBVIOUS
    <2>1. CASE \E n \in Numbers : kernel_print_uint(n)
      <3>1. PICK n \in Numbers : kernel_print_uint(n)
        BY <2>1
      <3>2. n \in Nat
        BY TerminalAssumption
      <3>3. CASE n = 0
        <4>1. said'.text = <<0>> /\ said'.n = 0
          BY <3>1, <3>3 DEF kernel_print_uint, Call
        <4>2. Value(<<0>>) = 0
          <5>1. <<>> \in Seq(Nat) /\ 0 \in Nat /\ Append(<<>>, 0) = <<0>>
            OBVIOUS
          <5>2. Value(Append(<<>>, 0)) = 10 * Value(<<>>) + 0 /\ Value(<<>>) = 0
            <6>1. DecimalDigits(0) = <<>> /\ Value(DecimalDigits(0)) = 0
              BY DigitsOf, DigitsRight
            <6> QED BY <5>1, <6>1, ValueOfAppend
          <5> QED BY <5>1, <5>2
        <4> QED BY <4>1, <4>2 DEF UintRight
      <3>4. CASE n # 0
        <4>1. said'.text = DecimalDigits(n) /\ said'.n = n
          BY <3>1, <3>4 DEF kernel_print_uint, Call
        <4> QED BY <3>2, <3>4, <4>1, DigitsRight DEF UintRight
      <3> QED BY <3>3, <3>4
    <2>2. CASE \E str \in Strings : kernel_print(str) \/ panic(str)
      BY <2>2 DEF kernel_print, panic, Call, UintRight
    <2>3. CASE \E hex \in Bytes : kernel_print_char_hex(hex)
      BY <2>3 DEF kernel_print_char_hex, Call, UintRight
    <2>4. CASE Step \/ Stopped \/ UNCHANGED vars
      <3>1. said' = said
        BY <2>4 DEF Step, Stopped, vars
      <3> QED BY <3>1 DEF UintRight
    <2> QED BY <2>1, <2>2, <2>3, <2>4 DEF Next
  <1> QED BY <1>1, <1>2, PTL DEF Spec
-----------------------------------------------------------------------------
(***************************************************************************)
(* The rows show a page.                                                   *)
(***************************************************************************)

(* The lines of a screen in order; the last one ends at the cursor.        *)
LEMMA LinesType ==
    ASSUME NEW s, Safe(s), NEW w \in Filling, Filled_by(s, w)
    PROVE  /\ LinesOf(s) \in Seq(Seq(Chars))
           /\ Len(LinesOf(s)) = s.row + 1
           /\ \A i \in 1 .. (s.row + 1) : LinesOf(s)[i] = LineOf(s, i)
           /\ Len(LineOf(s, s.row + 1)) = s.col
           /\ \A i \in Nat \ {0} : i > s.row + 1 => LineOf(s, i) = <<>>
  <1> USE TerminalAssumption
  <1>1. s.row \in Nat /\ s.col \in Nat
    BY DEF Safe
  <1>2. \A x \in 0 .. (VGA_HEIGHT - 1) : Filled(s, x, w[x]) /\ w[x] \in 0 .. VGA_WIDTH
    BY DEF Filled_by, Filling
  <1>3. \A x \in 0 .. (VGA_HEIGHT - 1) : RowOf(s, x) \in Seq(Chars) /\ Len(RowOf(s, x)) = w[x]
    BY <1>2, FilledRow
  <1>4. \A i \in Nat \ {0} : LineOf(s, i) \in Seq(Chars)
    <2> TAKE i \in Nat \ {0}
    <2>1. i <= VGA_HEIGHT => i - 1 \in 0 .. (VGA_HEIGHT - 1)
      OBVIOUS
    <2>2. <<>> \in Seq(Chars)
      OBVIOUS
    <2> QED BY <1>3, <2>1, <2>2 DEF LineOf
  <1>5. /\ LinesOf(s) \in Seq(Seq(Chars))
        /\ Len(LinesOf(s)) = s.row + 1
        /\ \A i \in 1 .. (s.row + 1) : LinesOf(s)[i] = LineOf(s, i)
    <2>1. \A i \in 1 .. (s.row + 1) : LineOf(s, i) \in Seq(Chars)
      BY <1>1, <1>4
    <2> DEFINE e(i) == LineOf(s, i)
               n == s.row + 1
               C == Seq(Chars)
               p == [i \in 1 .. n |-> e(i)]
    <2>2. n \in Nat /\ \A i \in 1 .. n : e(i) \in C
      BY <1>1, <2>1
    <2> HIDE DEF e, n, C
    <2>3. p \in Seq(C) /\ Len(p) = n /\ \A i \in 1 .. n : p[i] = e(i)
      BY <2>2
    <2> QED BY <2>3 DEF e, n, C, LinesOf
  <1>6. Len(LineOf(s, s.row + 1)) = s.col
    <2>1. CASE s.row < VGA_HEIGHT
      <3>1. s.row + 1 <= VGA_HEIGHT /\ (s.row + 1) - 1 = s.row /\ s.row \in 0 .. (VGA_HEIGHT - 1)
        BY <1>1, <2>1
      <3>2. LineOf(s, s.row + 1) = RowOf(s, s.row) /\ w[s.row] = s.col
        BY <3>1 DEF LineOf, Filled_by
      <3> QED BY <1>3, <3>1, <3>2
    <2>2. CASE s.row >= VGA_HEIGHT
      <3>1. ~ (s.row + 1 <= VGA_HEIGHT) /\ s.col = 0
        BY <1>1, <2>2 DEF Filled_by
      <3> QED BY <3>1 DEF LineOf
    <2> QED BY <1>1, <2>1, <2>2
  <1>7. ASSUME NEW i \in Nat \ {0}, i > s.row + 1
        PROVE  LineOf(s, i) = <<>>
    <2>1. CASE i <= VGA_HEIGHT
      <3>1. i - 1 \in 0 .. (VGA_HEIGHT - 1) /\ i - 1 > s.row
        BY <1>1, <1>7, <2>1
      <3>2. w[i - 1] = 0
        BY <3>1 DEF Filled_by
      <3>3. RowOf(s, i - 1) = <<>>
        BY <1>2, <3>1, <3>2, EmptyRow
      <3> QED BY <2>1, <3>3 DEF LineOf
    <2>2. CASE ~ (i <= VGA_HEIGHT)
      BY <2>2 DEF LineOf
    <2> QED BY <2>1, <2>2
  <1> QED BY <1>5, <1>6, <1>7

(* The cursor goes to the next line.                                       *)
LEMMA NextLine ==
    ASSUME NEW s, Safe(s), NEW w \in Filling, Filled_by(s, w),
           NEW r, r.row = s.row + 1, r.video_memory = s.video_memory
    PROVE  LinesOf(r) = Append(LinesOf(s), <<>>)
  <1> DEFINE p == LinesOf(s)
             q == Append(p, <<>>)
  <1>1. s.row \in Nat
    BY DEF Safe
  <1>2. /\ p \in Seq(Seq(Chars)) /\ Len(p) = s.row + 1
        /\ \A i \in 1 .. (s.row + 1) : p[i] = LineOf(s, i)
        /\ \A i \in Nat \ {0} : i > s.row + 1 => LineOf(s, i) = <<>>
    BY LinesType
  <1> HIDE DEF p
  <1>3. q \in Seq(Seq(Chars)) /\ Len(q) = s.row + 2
    BY <1>1, <1>2, AppendProperties
  <1>4. \A i : LineOf(r, i) = LineOf(s, i)
    BY DEF LineOf, RowOf
  <1>5. LinesOf(r) = [i \in 1 .. (s.row + 2) |-> LineOf(s, i)]
    <2>1. (s.row + 1) + 1 = s.row + 2
      BY <1>1
    <2> QED BY <1>4, <2>1 DEF LinesOf
  <1>6. \A i \in 1 .. (s.row + 2) : q[i] = LineOf(s, i)
    <2> TAKE i \in 1 .. (s.row + 2)
    <2>1. CASE i = s.row + 2
      <3>1. LineOf(s, i) = <<>> /\ i = Len(p) + 1
        BY <1>1, <1>2, <2>1
      <3> QED BY <1>2, <3>1, AppendProperties
    <2>2. CASE i # s.row + 2
      <3>1. i \in 1 .. Len(p) /\ p[i] = LineOf(s, i)
        BY <1>1, <1>2, <2>2
      <3> QED BY <1>2, <3>1, AppendProperties
    <2> QED BY <2>1, <2>2
  <1>7. q = [i \in 1 .. (s.row + 2) |-> q[i]]
    <2> DEFINE n == s.row + 2
    <2>1. q \in Seq(Seq(Chars)) /\ Len(q) = n
      BY <1>3
    <2> HIDE DEF q, n
    <2>2. DOMAIN q = 1 .. n /\ q \in [1 .. n -> Seq(Chars)]
      BY <2>1, LenProperties
    <2>3. q = [i \in 1 .. n |-> q[i]]
      BY <2>2
    <2> QED BY <2>3 DEF n
  <1> HIDE DEF q
  <1>8. LinesOf(r) = q
    BY <1>5, <1>6, <1>7
  <1> QED BY <1>8 DEF p, q

(* Before a character is printed the page gets a line to write in, and a   *)
(* new page if it is full (kernel_terminal_print_char).                    *)
LEMMA PlacedLines ==
    ASSUME NEW s, Safe(s), InOrder(s), NEW c, c = Placed(s)
    PROVE  LinesOf(c) = Shown!Turned(Shown!Opened(LinesOf(s)))
  <1> USE TerminalAssumption
  <1> DEFINE p == LinesOf(s)
             r == Wrapped(s)
             o == LinesOf(r)
  <1>1. PICK w \in Filling : Filled_by(s, w)
    BY DEF InOrder
  <1>2. /\ Filled_by(r, w) /\ r.video_memory = s.video_memory
        /\ s.col < VGA_WIDTH => r = s
        /\ s.col >= VGA_WIDTH => r.row = s.row + 1 /\ r.col = 0
        /\ r.row \in 0 .. (ROWS - 1) /\ r.col \in 0 .. (VGA_WIDTH - 1)
    BY <1>1, WrapInOrder
  <1>3. s.row \in Nat /\ s.col \in 0 .. VGA_WIDTH
    BY DEF Safe
  <1>4. Len(p) = s.row + 1 /\ p[s.row + 1] = LineOf(s, s.row + 1) /\ Len(p[s.row + 1]) = s.col
    <2>1. /\ Len(p) = s.row + 1
          /\ \A i \in 1 .. (s.row + 1) : p[i] = LineOf(s, i)
          /\ Len(LineOf(s, s.row + 1)) = s.col
      BY <1>1, LinesType
    <2> HIDE DEF p
    <2>2. s.row + 1 \in 1 .. (s.row + 1)
      BY <1>3
    <2> QED BY <2>1, <2>2
  <1> HIDE DEF p, r
  <1>5. o = Shown!Opened(p)
    <2>1. CASE s.col < VGA_WIDTH
      BY <1>2, <1>3, <1>4, <2>1 DEF Shown!Opened, p
    <2>2. CASE s.col >= VGA_WIDTH
      <3>1. o = Append(p, <<>>)
        BY <1>1, <1>2, <2>2, NextLine DEF p
      <3> QED BY <1>3, <1>4, <2>2, <3>1 DEF Shown!Opened
    <2> QED BY <1>3, <2>1, <2>2
  <1>6. Len(o) = r.row + 1
    <2>1. Safe(r)
      <3>1. CASE s.col < VGA_WIDTH
        BY <1>2, <3>1
      <3>2. CASE s.col >= VGA_WIDTH
        <4>1. r = At(s, Below(s.row), 0) /\ s.beyond = FALSE /\ Below(s.row) \in 0 .. (ROWS - 1)
          BY <3>2, BelowIsRow DEF r, Wrapped, Safe
        <4> QED BY <4>1, AtSafe, FirstColumn
      <3> QED BY <1>3, <3>1, <3>2
    <2> QED BY <1>2, <2>1, LinesType
  <1> HIDE DEF o
  <1>7. CASE r.row >= VGA_HEIGHT
    <2>1. c = terminal_init(r)
      BY <1>7 DEF Placed, r
    <2>2. c.row = 0 /\ Filled_by(c, [x \in 0 .. (VGA_HEIGHT - 1) |-> 0])
      BY <2>1, ClearInOrder
    <2>3. Filled(c, 0, 0)
      BY <2>2 DEF Filled_by
    <2>4. RowOf(c, 0) = <<>>
      BY <2>3, EmptyRow
    <2>5. LinesOf(c) = [i \in 1 .. 1 |-> LineOf(c, i)] /\ LineOf(c, 1) = <<>>
      BY <2>2, <2>4 DEF LinesOf, LineOf
    <2>6. LinesOf(c) = << <<>> >>
      <3>1. [i \in 1 .. 1 |-> LineOf(c, i)] = << LineOf(c, 1) >>
        OBVIOUS
      <3> QED BY <2>5, <3>1
    <2>7. Len(o) > VGA_HEIGHT
      BY <1>2, <1>6, <1>7
    <2> QED BY <1>5, <2>6, <2>7 DEF Shown!Turned, Shown!EmptyPage, p
  <1>8. CASE ~ (r.row >= VGA_HEIGHT)
    <2>1. c = r
      BY <1>8 DEF Placed, r
    <2>2. ~ (Len(o) > VGA_HEIGHT)
      BY <1>2, <1>6, <1>8
    <2> QED BY <1>5, <2>1, <2>2 DEF Shown!Turned, o, p
  <1> QED BY <1>7, <1>8

(* A character that is put on the screen is written at the end of the last *)
(* line (terminal_put_char).                                               *)
LEMMA PutLines ==
    ASSUME NEW s, Safe(s), NEW w \in Filling, Filled_by(s, w), OnThePage(s),
           NEW a \in Chars, NEW r, r = Put(s, a)
    PROVE  LinesOf(r) = [LinesOf(s) EXCEPT ![Len(LinesOf(s))] = Append(@, a)]
  <1> DEFINE p == LinesOf(s)
             v == Longer(w, s)
             n == s.row + 1
  <1>1. /\ v \in Filling /\ Filled_by(r, v)
        /\ r.row = s.row /\ r.col = s.col + 1
        /\ \A x \in 0 .. (VGA_HEIGHT - 1), y \in 0 .. (VGA_WIDTH - 1) :
              r.video_memory[x * VGA_WIDTH + y]
                 = IF x = s.row /\ y = s.col THEN a ELSE s.video_memory[x * VGA_WIDTH + y]
    <2>1. v \in Filling /\ Filled_by(r, v) /\ r.row = s.row /\ r.col = s.col + 1
      BY PutInOrder
    <2>2. \A x \in 0 .. (VGA_HEIGHT - 1), y \in 0 .. (VGA_WIDTH - 1) :
             r.video_memory[x * VGA_WIDTH + y]
                = IF x = s.row /\ y = s.col THEN a ELSE s.video_memory[x * VGA_WIDTH + y]
      BY PutInOrder
    <2> QED BY <2>1, <2>2
  <1> USE TerminalAssumption
  <1>2. s.row \in 0 .. (VGA_HEIGHT - 1) /\ s.col \in 0 .. (VGA_WIDTH - 1) /\ n \in Nat \ {0}
    BY DEF OnThePage
  <1>3. v[s.row] = s.col + 1 /\ w[s.row] = s.col
        /\ \A x \in 0 .. (VGA_HEIGHT - 1) : x # s.row => v[x] = w[x]
    BY <1>2 DEF Longer, Filling, Filled_by
  <1> HIDE DEF v
  <1>4. \A x \in 0 .. (VGA_HEIGHT - 1) :
           /\ Filled(s, x, w[x]) /\ w[x] \in 0 .. VGA_WIDTH
           /\ Filled(r, x, v[x]) /\ v[x] \in 0 .. VGA_WIDTH
    BY <1>1 DEF Filled_by, Filling
  <1>5. \A x \in 0 .. (VGA_HEIGHT - 1) :
           /\ RowOf(s, x) = [y \in 1 .. w[x] |-> s.video_memory[x * VGA_WIDTH + (y - 1)]]
           /\ RowOf(r, x) = [y \in 1 .. v[x] |-> r.video_memory[x * VGA_WIDTH + (y - 1)]]
           /\ RowOf(s, x) \in Seq(Chars) /\ Len(RowOf(s, x)) = w[x]
           /\ RowOf(r, x) \in Seq(Chars) /\ Len(RowOf(r, x)) = v[x]
    BY <1>4, FilledRow
  <1>6. ASSUME NEW x \in 0 .. (VGA_HEIGHT - 1), x # s.row
        PROVE  RowOf(r, x) = RowOf(s, x)
    <2>1. v[x] = w[x] /\ w[x] \in 0 .. VGA_WIDTH
      BY <1>3, <1>4, <1>6
    <2>2. \A y \in 1 .. w[x] : RowOf(r, x)[y] = RowOf(s, x)[y]
      <3> TAKE y \in 1 .. w[x]
      <3>1. y - 1 \in 0 .. (VGA_WIDTH - 1)
        BY <2>1
      <3>2. r.video_memory[x * VGA_WIDTH + (y - 1)] = s.video_memory[x * VGA_WIDTH + (y - 1)]
        BY <1>1, <1>6, <3>1
      <3> QED BY <1>5, <2>1, <3>2
    <2>3. RowOf(s, x) \in Seq(Chars) /\ RowOf(r, x) \in Seq(Chars)
          /\ Len(RowOf(s, x)) = w[x] /\ Len(RowOf(r, x)) = w[x]
      BY <1>5, <2>1
    <2> QED BY <2>2, <2>3, SeqEqual
  <1>7. RowOf(r, s.row) = Append(RowOf(s, s.row), a)
    <2> DEFINE x == s.row
               new == RowOf(r, x)
               old == RowOf(s, x)
    <2>1. /\ new \in Seq(Chars) /\ Len(new) = s.col + 1
          /\ old \in Seq(Chars) /\ Len(old) = s.col
          /\ \A y \in 1 .. s.col : old[y] = s.video_memory[x * VGA_WIDTH + (y - 1)]
          /\ \A y \in 1 .. (s.col + 1) : new[y] = r.video_memory[x * VGA_WIDTH + (y - 1)]
      <3>1. x \in 0 .. (VGA_HEIGHT - 1) /\ w[x] = s.col /\ v[x] = s.col + 1
        BY <1>2, <1>3
      <3> HIDE DEF x
      <3>2. /\ old = [y \in 1 .. s.col |-> s.video_memory[x * VGA_WIDTH + (y - 1)]]
            /\ new = [y \in 1 .. (s.col + 1) |-> r.video_memory[x * VGA_WIDTH + (y - 1)]]
            /\ old \in Seq(Chars) /\ Len(old) = s.col
            /\ new \in Seq(Chars) /\ Len(new) = s.col + 1
        BY <1>5, <3>1
      <3> HIDE DEF new, old
      <3> QED BY <3>2
    <2> HIDE DEF new, old
    <2>2. Append(old, a) \in Seq(Chars) /\ Len(Append(old, a)) = s.col + 1
      BY <2>1, AppendProperties
    <2>3. \A y \in 1 .. (s.col + 1) : new[y] = Append(old, a)[y]
      <3> TAKE y \in 1 .. (s.col + 1)
      <3>1. y - 1 \in 0 .. (VGA_WIDTH - 1) /\ (y - 1 = s.col <=> y = s.col + 1)
        BY <1>2
      <3>2. new[y] = IF y = s.col + 1 THEN a ELSE s.video_memory[x * VGA_WIDTH + (y - 1)]
        <4>1. r.video_memory[x * VGA_WIDTH + (y - 1)]
                = IF y - 1 = s.col THEN a ELSE s.video_memory[x * VGA_WIDTH + (y - 1)]
          BY <1>1, <1>2, <3>1
        <4>2. new[y] = r.video_memory[x * VGA_WIDTH + (y - 1)]
          BY <2>1
        <4> QED BY <3>1, <4>1, <4>2
      <3>3. CASE y = s.col + 1
        BY <2>1, <3>2, <3>3, AppendProperties
      <3>4. CASE y # s.col + 1
        <4>1. y \in 1 .. s.col /\ y \in 1 .. Len(old)
          BY <1>2, <2>1, <3>4
        <4> QED BY <2>1, <3>2, <3>4, <4>1, AppendProperties
      <3> QED BY <3>3, <3>4
    <2>4. new = Append(old, a)
      BY <2>1, <2>2, <2>3, SeqEqual
    <2> QED BY <2>4 DEF new, old
  <1>8. /\ p \in Seq(Seq(Chars)) /\ Len(p) = n
        /\ \A i \in 1 .. n : p[i] = LineOf(s, i)
    BY LinesType
  <1> HIDE DEF p
  <1>9. DOMAIN p = 1 .. n /\ p = [i \in 1 .. n |-> p[i]]
    BY <1>8, LenProperties
  <1>10. \A i \in 1 .. n : LineOf(r, i) = IF i = n THEN Append(p[n], a) ELSE p[i]
    <2> TAKE i \in 1 .. n
    <2>1. /\ i <= VGA_HEIGHT /\ i - 1 \in 0 .. (VGA_HEIGHT - 1) /\ (i = n <=> i - 1 = s.row)
      BY <1>2
    <2>2. LineOf(r, i) = RowOf(r, i - 1) /\ LineOf(s, i) = RowOf(s, i - 1) /\ p[i] = LineOf(s, i)
      BY <1>8, <2>1 DEF LineOf
    <2> HIDE DEF n
    <2>3. CASE i = n
      BY <1>7, <2>1, <2>2, <2>3
    <2>4. CASE i # n
      BY <1>6, <2>1, <2>2, <2>4
    <2> QED BY <2>3, <2>4
  <1>11. LinesOf(r) = [i \in 1 .. n |-> LineOf(r, i)]
    BY <1>1 DEF LinesOf
  <1> HIDE DEF n
  <1>12. LinesOf(r) = [p EXCEPT ![n] = Append(@, a)]
    <2>1. [p EXCEPT ![n] = Append(@, a)] = [i \in 1 .. n |-> IF i = n THEN Append(p[n], a) ELSE p[i]]
      BY <1>9
    <2> QED BY <1>10, <1>11, <2>1
  <1> QED BY <1>8, <1>12 DEF p

(* Until the row passes its last value, what the screen shows is what a    *)
(* page shows, in its order and whole: every character at the end of its   *)
(* line, every string's end a new line (kernel_terminal_print_char,        *)
(* kernel_print_string).                                                   *)
THEOREM ScreenShowsPage == Spec => PrintsAsPage
  <1> USE TerminalAssumption
  <1>1. Init => Shown!Init
    <2> SUFFICES ASSUME Init PROVE Shown!Init
      OBVIOUS
    <2>1. scr.row = 0 /\ scr.video_memory = [p \in Cells |-> Blank]
      BY DEF Init
    <2>2. Filled(scr, 0, 0)
      <3>1. 0 \in 0 .. (VGA_HEIGHT - 1)
        OBVIOUS
      <3>2. \A y \in 0 .. (VGA_WIDTH - 1) : 0 * VGA_WIDTH + y \in Cells
        BY <3>1, CellOnScreen
      <3>3. \A y \in 0 .. (VGA_WIDTH - 1) : ~ (y < 0)
        OBVIOUS
      <3> QED BY <2>1, <3>2, <3>3 DEF Filled
    <2>3. RowOf(scr, 0) = <<>>
      BY <2>2, EmptyRow
    <2>4. Lines = [i \in 1 .. 1 |-> LineOf(scr, i)] /\ LineOf(scr, 1) = <<>>
      BY <2>1, <2>3, ShownNow DEF LinesOf, LineOf
    <2>5. [i \in 1 .. 1 |-> LineOf(scr, i)] = << LineOf(scr, 1) >>
      OBVIOUS
    <2> QED BY <2>4, <2>5 DEF Shown!Init, Shown!EmptyPage
  <1>2. ScreenInv /\ [Next]_vars => [overrun' \/ Shown!Next]_Lines
    <2> SUFFICES ASSUME ScreenInv, [Next]_vars, ~ overrun', ~ UNCHANGED Lines
                 PROVE  Shown!Next
      OBVIOUS
    <2>0. Lines = LinesOf(scr) /\ Lines' = LinesOf(scr')
      <3>1. \A x : RowText(x)' = RowOf(scr', x)
        BY DEF RowText, RowOf, Cell
      <3>2. Lines' = LinesOf(scr')
        BY <3>1 DEF Lines, LinesOf, LineOf
      <3> QED BY <3>2, ShownNow
    <2>1. Step
      <3>1. scr' # scr
        BY <2>0
      <3> QED BY <3>1 DEF Next, vars, Stopped, kernel_print, panic, kernel_print_uint,
                          kernel_print_char_hex, Call
    <2>2. ~ overrun /\ Safe(scr) /\ InOrder(scr)
      BY <2>1 DEF Step, ScreenInv, Typed
    <2>3. CASE Head(todo) = NewLine
      <3>1. scr' = EndOfString(scr) /\ scr.row # ROWS - 1
        BY <2>1, <2>3 DEF Step
      <3>2. PICK w \in Filling : Filled_by(scr, w)
        BY <2>2 DEF InOrder
      <3>3. scr'.row = scr.row + 1 /\ scr'.video_memory = scr.video_memory
        BY <2>2, <3>1, <3>2, NextInOrder
      <3>4. LinesOf(scr') = Append(LinesOf(scr), <<>>)
        BY <2>2, <3>2, <3>3, NextLine
      <3> QED BY <2>0, <3>4 DEF Shown!Next, Shown!EndLine
    <2>4. CASE Head(todo) # NewLine
      <3> DEFINE a == Head(todo)
                 c == Placed(scr)
                 T == Chars \cup {NewLine}
      <3>1. a \in Chars
        <4>1. todo \in Seq(T) /\ todo # <<>>
          BY <2>1 DEF ScreenInv, TypeOK, Step
        <4> HIDE DEF T
        <4>2. a \in T
          BY <4>1, HeadTailProperties
        <4> QED BY <2>4, <4>2 DEF T
      <3>2. scr' = Put(c, a)
        BY <2>1, <2>4, PrintPuts DEF Step
      <3>3. InOrder(c) /\ OnThePage(c)
        BY <2>2, PlaceInOrder
      <3>4. LinesOf(c) = Shown!Turned(Shown!Opened(Lines))
        BY <2>0, <2>2, PlacedLines
      <3>5. Safe(c)
        <4>1. Safe(Wrapped(scr))
          <5>1. scr.beyond = FALSE /\ Below(scr.row) \in 0 .. (ROWS - 1)
            BY <2>2, BelowIsRow DEF Safe
          <5>2. Safe(At(scr, Below(scr.row), 0))
            BY <5>1, AtSafe, FirstColumn
          <5> QED BY <2>2, <5>2 DEF Wrapped
        <4>2. Wrapped(scr).beyond = FALSE
          BY <4>1 DEF Safe
        <4>3. Safe(terminal_init(Wrapped(scr)))
          BY <4>2, ClearSafe
        <4> QED BY <4>1, <4>3 DEF Placed
      <3> HIDE DEF a, c
      <3>6. PICK w \in Filling : Filled_by(c, w)
        BY <3>3 DEF InOrder
      <3>7. LinesOf(scr') = [LinesOf(c) EXCEPT ![Len(LinesOf(c))] = Append(@, a)]
        BY <3>1, <3>2, <3>3, <3>5, <3>6, PutLines
      <3>8. Shown!Write(a)
        BY <2>0, <3>4, <3>7 DEF Shown!Write
      <3> QED BY <3>1, <3>8 DEF Shown!Next
    <2> QED BY <2>3, <2>4
  <1> QED BY <1>1, <1>2, ScreenInvInit, ScreenInvStep, PTL DEF Spec, PrintsAsPage
=============================================================================
