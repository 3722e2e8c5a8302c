---------------------------- MODULE MCFileMemory ----------------------------
(***************************************************************************)
(* Blocks of four bytes, entries of two: a directory of three entries      *)
(* takes two blocks.  The root holds a file, a directory of two files and  *)
(* one more of three, one of which is a directory, and one that cannot be  *)
(* read; in the second disk names begin with one another; the third is no  *)
(* FAT16 disk.                                                             *)
(***************************************************************************)
EXTENDS FileMemory

MCEmpty == <<>>

a == Item(<<"a">>, <<>>, "file", 2, 7)
b == Item(<<"b">>, <<>>, "file", 3, 5)
bb == Item(<<"b", "b">>, <<>>, "file", 4, 5)
d == Item(<<"d">>, <<>>, "directory", 5, 0)
e == Item(<<"e">>, <<>>, "directory", 6, 0)
u == Item(<<"u">>, <<>>, "directory", 7, 0)

Dirs == [c \in {5, 6, 7} |-> CASE c = 5 -> <<a, b, e>> [] c = 6 -> <<b>> [] c = 7 -> <<a, b>>]

Disk(root, signed) == [root |-> root, dirs |-> Dirs, fat |-> [c \in 2 .. 7 |-> 99],
                       bad |-> {7}, signed |-> signed]

MCImages == {Disk(<<a, d, u>>, TRUE), Disk(<<b, d, bb>>, TRUE), Disk(<<a>>, FALSE)}

Path(drive, items) == [drive |-> drive, parts |-> [i \in DOMAIN items |-> items[i].base]]

MCPaths == {Path(0, parts) : parts \in {<<>>, <<a>>, <<d>>, <<u>>, <<b>>, <<a, b>>, <<d, a>>,
                                        <<d, e, b>>, <<d, bb>>, <<NoItem, a>>, <<a, NoItem, b>>, <<u, a>>}}
              \cup {Path(1, <<a>>)}

\* any two of them, one after the other, leave any number of blocks free
MCSizes == {4 * n : n \in {1, 2, 3, 6, 9, 12, 15, 18}}
=============================================================================
