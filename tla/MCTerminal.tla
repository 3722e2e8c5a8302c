----------------------------- MODULE MCTerminal -----------------------------
(***************************************************************************)
(* A screen of two rows of three characters.  Strings are empty, shorter   *)
(* than a row, as long, longer, and longer than the screen.                *)
(***************************************************************************)
EXTENDS Terminal

x == 17

y == 18

MCLetters == {x, y}

MCStrings == {<<>>, <<x>>, <<y, x>>, <<x, y, y>>, <<y, y, x, x>>,
              <<x, x, y, x, y, y, x>>}

MCNumbers == {0, 7, 10, 205, 2147483647}

MCBytes == {0, 26}
=============================================================================
