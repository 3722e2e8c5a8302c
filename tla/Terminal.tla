------------------------------ MODULE Terminal ------------------------------
(***************************************************************************)
(* The kernel's text screen (src/src/kernel.c).  All of the kernel prints  *)
(* through it, one call after another; there is no other user of the video *)
(* memory.                                                                 *)
(*                                                                         *)
(* scr is the state of the code:                                           *)
(*   row, col       terminal_row and terminal_col; row is 16 bits wide     *)
(*   video_memory   the cells, Blank where nothing was printed since the   *)
(*                  screen was cleared (a space of colour 0; a printed     *)
(*                  space has colour 15)                                   *)
(*   beyond         history: a character was written outside the cells     *)
(* todo is what the running call still has to print, a character or        *)
(* NewLine at a time, halted that panic was called.  said is history: the  *)
(* last call, where it began; overrun that row passed its last value.      *)
(***************************************************************************)
EXTENDS Integers, Sequences, SequencesExt

CONSTANTS
    VGA_WIDTH, VGA_HEIGHT,  \* 80 and 20
    ROWS,                   \* values of a row: 2^16
    Letters,                \* the characters, as numbers, that are not digits
    Strings,                \* what callers print
    Numbers,                \* what they print as decimal numbers
    Bytes                   \* what they print as hexadecimal ones

(* A digit stands for its character. *)
Digits  == 0 .. 15
Space   == 16
Blank   == -1
NewLine == -2
Chars   == Letters \cup Digits \cup {Space}

ASSUME TerminalAssumption ==
    /\ VGA_WIDTH \in Nat \ {0}
    /\ VGA_HEIGHT \in Nat \ {0}
    /\ ROWS \in Nat
    /\ VGA_HEIGHT < ROWS
    /\ Letters \subseteq Nat
    /\ Strings \subseteq Seq(Letters)
    /\ Numbers \subseteq Nat
    /\ Bytes \subseteq 0 .. 255

VARIABLES scr, todo, halted, said, overrun

vars == <<scr, todo, halted, said, overrun>>

Cells == 0 .. (VGA_WIDTH * VGA_HEIGHT - 1)

-----------------------------------------------------------------------------
(* Mutant: the cells stay as they are. *)
terminal_init_Kept(s) == [row |-> 0, col |-> 0, video_memory |-> s.video_memory,
                          beyond |-> s.beyond]

terminal_init(s) == [row |-> 0, col |-> 0, video_memory |-> [p \in Cells |-> Blank],
                     beyond |-> s.beyond]

terminal_put_char(s, y, x, a) ==
    LET p == x * VGA_WIDTH + y
    IN  [row |-> s.row, col |-> s.col,
         video_memory |-> [q \in Cells |-> IF q = p THEN a ELSE s.video_memory[q]],
         beyond |-> s.beyond \/ p \notin Cells]

(* Mutant: more than 16 bits. *)
Below_Unbounded(r) == r + 1

(* The row after r, in 16 bits. *)
Below(r) == IF r + 1 = ROWS THEN 0 ELSE r + 1

(* The cursor moved. *)
At(s, row, col) == [row |-> row, col |-> col, video_memory |-> s.video_memory,
                    beyond |-> s.beyond]

(* Mutant: the bottom is tested before the right edge. *)
kernel_terminal_print_char_Swapped(s, a) ==
    LET c == IF s.row >= VGA_HEIGHT THEN terminal_init(s) ELSE s
        w == IF c.col >= VGA_WIDTH THEN At(c, Below(c.row), 0) ELSE c
    IN  At(terminal_put_char(w, w.col, w.row, a), w.row, w.col + 1)

kernel_terminal_print_char(s, a) ==
    LET w == IF s.col >= VGA_WIDTH THEN At(s, Below(s.row), 0) ELSE s
        c == IF w.row >= VGA_HEIGHT THEN terminal_init(w) ELSE w
    IN  At(terminal_put_char(c, c.col, c.row, a), c.row, c.col + 1)

(* Mutants: the column stays; a full screen is cleared as soon as its last *)
(* line ends.                                                              *)
EndOfString_SameColumn(s) == At(s, Below(s.row), s.col)

EndOfString_Eager(s) ==
    IF Below(s.row) >= VGA_HEIGHT THEN terminal_init(s) ELSE At(s, Below(s.row), 0)

(* The end of kernel_print_string: the next line, full screen or not. *)
EndOfString(s) == At(s, Below(s.row), 0)

(* Mutant: the digits are not turned round. *)
DecimalDigits_Reversed(n) ==
    LET a[m \in Nat] == IF m = 0 THEN <<>> ELSE <<m % 10>> \o a[m \div 10]
    IN  a[n]

(* The digits that kernel_print_uint collects from the last one on and     *)
(* then turns round; none for zero.                                        *)
DecimalDigits(n) ==
    LET a[m \in Nat] == IF m = 0 THEN <<>> ELSE <<m % 10>> \o a[m \div 10]
    IN  Reverse(a[n])

-----------------------------------------------------------------------------
Nothing == [by |-> "nobody", text |-> <<>>, n |-> 0, col |-> 0]

Init == /\ scr = [row |-> 0, col |-> 0, video_memory |-> [p \in Cells |-> Blank],
                  beyond |-> FALSE]
        /\ todo = <<>>
        /\ halted = FALSE
        /\ said = Nothing
        /\ overrun = FALSE

(* A call begins once the last one has returned. *)
Call(by, text, n, ends) ==
    /\ todo = <<>>
    /\ ~ halted
    /\ todo' = text \o ends
    /\ said' = [by |-> by, text |-> text, n |-> n, col |-> scr.col]
    /\ UNCHANGED <<scr, overrun>>

kernel_print(str) == Call("string", str, 0, <<NewLine>>) /\ UNCHANGED halted

(* Zero is printed as a string of its own, and the string of no digits     *)
(* after it.                                                               *)
kernel_print_uint(n) ==
    /\ IF n = 0
       THEN Call("uint", <<0>>, n, <<NewLine, NewLine>>)
       ELSE Call("uint", DecimalDigits(n), n, <<NewLine>>)
    /\ UNCHANGED halted

kernel_print_char_hex(hex) ==
    /\ Call("hex", <<hex \div 16, hex % 16, Space>>, hex, <<>>)
    /\ UNCHANGED halted

panic(str) == Call("panic", str, 0, <<NewLine>>) /\ halted' = TRUE

(* The loop of kernel_print_string: one character, or its end.             *)
Step ==
    /\ todo # <<>>
    /\ todo' = Tail(todo)
    /\ scr' = IF Head(todo) = NewLine
              THEN EndOfString(scr)
              ELSE kernel_terminal_print_char(scr, Head(todo))
    /\ overrun' = (overrun \/ (Head(todo) = NewLine /\ scr.row = ROWS - 1))
    /\ UNCHANGED <<halted, said>>

(* panic's loop. *)
Stopped == halted /\ todo = <<>> /\ UNCHANGED vars

Next == \/ \E str \in Strings : kernel_print(str) \/ panic(str)
        \/ \E n \in Numbers : kernel_print_uint(n)
        \/ \E hex \in Bytes : kernel_print_char_hex(hex)
        \/ Step
        \/ Stopped

Spec == Init /\ [][Next]_vars

-----------------------------------------------------------------------------
Screen == [row : 0 .. (ROWS - 1), col : 0 .. VGA_WIDTH,
           video_memory : [Cells -> Chars \cup {Blank}], beyond : BOOLEAN]

TypeOK ==
    /\ scr \in Screen
    /\ todo \in Seq(Chars \cup {NewLine})
    /\ halted \in BOOLEAN
    /\ said \in [by : {"nobody", "string", "uint", "hex", "panic"},
                 text : Seq(Chars), n : Nat, col : 0 .. VGA_WIDTH]
    /\ overrun \in BOOLEAN

(* No character is ever written outside the video memory, wherever a       *)
(* string ends and the next begins (kernel_terminal_print_char).           *)
OnScreen == ~ scr.beyond

Cell(x, y) == scr.video_memory[x * VGA_WIDTH + y]

(* What a row of the screen shows, up to its last character. *)
RowText(x) ==
    LET printed == {y \in 1 .. VGA_WIDTH : Cell(x, y - 1) # Blank}
    IN  [y \in 1 .. Max({0} \cup printed) |-> Cell(x, y - 1)]

(* The lines down to the cursor's; below the last row they are empty. *)
Lines == [i \in 1 .. (scr.row + 1) |-> IF i <= VGA_HEIGHT THEN RowText(i - 1) ELSE <<>>]

Shown == INSTANCE Page WITH WIDTH <- VGA_WIDTH, HEIGHT <- VGA_HEIGHT, lines <- Lines

(* The rows show the text as a page does, in its order and whole, until    *)
(* 2^16 strings without a character have moved the cursor round to the     *)
(* first row of a screen that was not cleared (kernel_print_string).       *)
PrintsAsPage == Shown!Init /\ [][overrun' \/ Shown!Next]_Lines

(* There is no gap in a row, the cursor stands behind the last character   *)
(* of its row, and below it nothing is left of an earlier page.            *)
Tidy ==
    overrun \/ /\ \A x \in 0 .. (VGA_HEIGHT - 1), y \in 1 .. (VGA_WIDTH - 1) :
                      Cell(x, y) # Blank => Cell(x, y - 1) # Blank
               /\ \A x \in (scr.row + 1) .. (VGA_HEIGHT - 1) : RowText(x) = <<>>
               /\ scr.row < VGA_HEIGHT => scr.col = Len(RowText(scr.row))

(* A message that fits in a line, panic's among them, stands whole in the  *)
(* last line once its call is over, whatever the screen held before: the   *)
(* screen is never cleared behind or within it.                            *)
LastMessageWhole ==
    /\ todo = <<>>
    /\ ~ overrun
    /\ said.by \in {"string", "panic"}
    /\ said.col + Len(said.text) <= VGA_WIDTH
    /\ said.text # <<>>
    => /\ scr.row > 0
       /\ SubSeq(Lines[scr.row], said.col + 1, Len(Lines[scr.row])) = said.text

Value(digits) ==
    LET v[i \in 0 .. Len(digits)] == IF i = 0 THEN 0 ELSE 10 * v[i - 1] + digits[i]
    IN  v[Len(digits)]

(* The digits of kernel_print_uint denote the number, without a zero in    *)
(* front.                                                                  *)
UintRight ==
    said.by = "uint" => /\ Value(said.text) = said.n
                        /\ said.text[1] = 0 => said.text = <<0>>
=============================================================================
