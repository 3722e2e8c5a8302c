------------------------------- MODULE MCVfs -------------------------------
(***************************************************************************)
(* Disks of five clusters (2 to 6) of two sectors of two bytes.  Cluster 5 *)
(* has one of the numbers the driver stops at; 99 is the end mark.  Files  *)
(* lie in one piece, in several, with the last cluster first, through      *)
(* cluster 5; directories are plain, have a deleted entry, a name that     *)
(* begins with another, and one that fills its field.                      *)
(***************************************************************************)
EXTENDS Vfs

End == 99

MCEmpty == <<>>

MCStops == {0, 5}

a  == Item(<<"a">>, <<"x">>, "file", 2, 7)
b  == Item(<<"b">>, <<"x">>, "file", 6, 5)
bb == Item(<<"b">>, <<"x", "y">>, "file", 6, 5)
ab == Item(<<"a", "b">>, <<"x">>, "file", 6, 8)
d  == Item(<<"d">>, <<>>, "directory", 5, 0)

Fat(c2, c3, c4, c6) == [c \in 2 .. 6 |-> CASE c = 2 -> c2 [] c = 3 -> c3 [] c = 4 -> c4
                                         [] c = 5 -> End [] c = 6 -> c6]

Fats == {Fat(3, End, End, 4), Fat(4, End, End, 3), Fat(5, 4, End, 3)}

Roots == {<<a, b, d>>, <<a, Deleted, b>>, <<b, a, bb>>, <<ab, a>>, <<Deleted, bb, b, a>>}

Disks(roots) == {[root |-> r, dirs |-> [c \in {5} |-> <<b>>], fat |-> f] : r \in roots, f \in Fats}

MCImages == Disks(Roots)

(* Disks where a search goes wrong by a name that fills its field only.    *)
MCFullNames == Disks({<<ab, a>>})

Root(name) == [drive |-> 0, parts |-> <<name>>]

MCPaths == {Root(FullName(i)) : i \in {a, b, ab, d}}
              \cup {[drive |-> 0, parts |-> <<FullName(d), FullName(b)>>],
                    [drive |-> 0, parts |-> <<FullName(a), <<>>, FullName(b)>>],
                    [drive |-> 0, parts |-> <<FullName(d), FullName(a), FullName(b)>>],
                    [drive |-> 1, parts |-> <<FullName(a)>>]}

MCSizes == {0, 1, 4, 5, 7}

MCOffsets == {0, 1, 4}
=============================================================================
