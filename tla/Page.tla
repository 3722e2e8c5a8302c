-------------------------------- MODULE Page --------------------------------
(***************************************************************************)
(* What the screen promises: a page of HEIGHT lines of WIDTH characters,   *)
(* filled from the top and from the left.  A line that is full goes on in  *)
(* the next one; a character that finds the page full begins a new page.   *)
(***************************************************************************)
EXTENDS Integers, Sequences

CONSTANTS WIDTH, HEIGHT, Chars

VARIABLE lines              \* the last one is being written

EmptyPage == << <<>> >>

(* A line to write in. *)
Opened(p) == IF Len(p[Len(p)]) = WIDTH THEN Append(p, <<>>) ELSE p

Turned(p) == IF Len(p) > HEIGHT THEN EmptyPage ELSE p

Init == lines = EmptyPage

Write(c) == LET p == Turned(Opened(lines))
            IN  lines' = [p EXCEPT ![Len(p)] = Append(@, c)]

EndLine == lines' = Append(lines, <<>>)

Next == EndLine \/ \E c \in Chars : Write(c)

Spec == Init /\ [][Next]_lines
=============================================================================
