----------------------------- MODULE VfsProofs -----------------------------
(***************************************************************************)
(* The file layer with any number of descriptors and any disks: a          *)
(* descriptor stays its file's, files that nothing hides are found, and a  *)
(* read delivers the bytes of its file.                                    *)
(***************************************************************************)
EXTENDS Vfs, RecursionProofs, FiniteSetTheorems, SequenceTheorems

(* The table has its entries, and each its fields. *)
TableShape ==
    /\ DOMAIN fds = Fds
    /\ \A fd \in Fds : DOMAIN fds[fd] = {"item", "pos"}

(* The least element that file_new_descriptor's search finds. *)
LEMMA LeastNumber ==
    ASSUME NEW S \in SUBSET Nat, S # {}
    PROVE  Min(S) \in S
BY LeastNatural DEF Min

(* file_new_descriptor finds a descriptor that nobody has, or none. *)
LEMMA NewIsFree ==
    ASSUME NEW table, file_new_descriptor(table) # Refused
    PROVE  /\ file_new_descriptor(table) \in Fds
           /\ table[file_new_descriptor(table)] = NoDesc
<1> DEFINE free == {fd \in Fds : table[fd] = NoDesc}
<1>1. free # {} /\ file_new_descriptor(table) = Min(free)
  BY DEF file_new_descriptor
<1>2. free \in SUBSET Nat
  BY VfsAssumption DEF Fds
<1>3. Min(free) \in free
  <2> HIDE DEF free
  <2> QED  BY <1>1, <1>2, LeastNumber
<1> QED  BY <1>1, <1>3

(* None is given only when every one is in use. *)
LEMMA RefusedIsFull ==
    ASSUME NEW table, file_new_descriptor(table) = Refused
    PROVE  \A fd \in 1 .. (MAX_FILE_DESCRIPTORS - 1) : fd \in Fds /\ table[fd] # NoDesc
<1> DEFINE free == {fd \in Fds : table[fd] = NoDesc}
<1>1. CASE free = {}
  BY <1>1 DEF Fds
<1>2. CASE free # {}
  <2>1. file_new_descriptor(table) = Min(free)
    BY <1>2 DEF file_new_descriptor
  <2>2. free \in SUBSET Nat
    BY VfsAssumption DEF Fds
  <2>3. Min(free) \in free
    <3> HIDE DEF free
    <3> QED  BY <1>2, <2>2, LeastNumber
  <2>4. Min(free) \in Nat
    <3> HIDE DEF free
    <3> QED  BY <2>2, <2>3
  <2> QED  BY <2>1, <2>4 DEF Refused
<1> QED  BY <1>1, <1>2

(* At most one element in a set: its cardinality says so. *)
LEMMA AtMostOne ==
    ASSUME NEW S, NEW x, S \subseteq {x}
    PROVE  Cardinality(S) <= 1
<1>1. S = {} \/ S = {x}
  OBVIOUS
<1>2. Cardinality(S) = 0 \/ Cardinality(S) = 1
  BY <1>1, FS_EmptySet, FS_Singleton, Zenon
<1> QED  BY <1>2

(* The table keeps its entries (fopen, fseek).                             *)
LEMMA StepKeepsShape == TableShape /\ [Next]_vars => TableShape'
<1> SUFFICES ASSUME TableShape, [Next]_vars
             PROVE  TableShape'
  OBVIOUS
<1>1. ASSUME NEW path \in Paths, NEW mode \in {"r", "w", "a"}, fopen(path, mode)
      PROVE  TableShape'
  BY <1>1 DEF fopen, TableShape
<1>2. ASSUME NEW size \in SIZES, NEW nmemb \in 0 .. 2,
             NEW fd \in 0 .. MAX_FILE_DESCRIPTORS, fread(size, nmemb, fd)
      PROVE  TableShape'
  BY <1>2 DEF fread, TableShape
<1>3. ASSUME NEW fd \in Fds, NEW offset \in OFFSETS,
             NEW whence \in {"SEEK_SET", "SEEK_CUR"}, fseek(fd, offset, whence)
      PROVE  TableShape'
  BY <1>3 DEF fseek, TableShape
<1>4. CASE UNCHANGED vars
  BY <1>4 DEF vars, TableShape
<1> QED  BY <1>1, <1>2, <1>3, <1>4 DEF Next

(* So it has them at all times.                                            *)
LEMMA ShapeInvariant == Spec => []TableShape
<1>1. Init => TableShape
  BY DEF Init, TableShape, NoDesc
<1> QED  BY <1>1, StepKeepsShape, PTL DEF Spec

(* However many descriptors there are: no call takes a descriptor from its *)
(* file, and a call changes one descriptor at most (file_new_descriptor,   *)
(* fopen, fat16_seek).                                                     *)
THEOREM DescriptorsAlwaysKept == Spec => DescriptorsKept
<1> DEFINE Step == /\ \A fd \in Fds : Open(fd) => fds'[fd].item = fds[fd].item
                   /\ Cardinality({fd \in Fds : fds'[fd] # fds[fd]}) <= 1
<1>1. TableShape /\ [Next]_vars => [Step]_vars
  <2> SUFFICES ASSUME TableShape, Next
               PROVE  Step
    OBVIOUS
  <2>1. ASSUME NEW x,
               \A fd \in Fds : fd # x => fds'[fd] = fds[fd]
        PROVE  Cardinality({fd \in Fds : fds'[fd] # fds[fd]}) <= 1
    BY <2>1, AtMostOne
  <2>2. ASSUME NEW path \in Paths, NEW mode \in {"r", "w", "a"}, fopen(path, mode)
        PROVE  Step
    <3> DEFINE fd == file_new_descriptor(fds)
    <3>1. CASE fds' = fds
      BY <2>1, <3>1
    <3>2. ASSUME NEW item, fd # Refused,
                 fds' = [fds EXCEPT ![fd] = [item |-> item, pos |-> 0]]
          PROVE  Step
      <4>1. fds[fd] = NoDesc
        BY <3>2, NewIsFree
      <4> HIDE DEF fd
      <4>2. \A e \in Fds : e # fd => fds'[e] = fds[e]
        BY <3>2 DEF TableShape
      <4> QED  BY <2>1, <4>1, <4>2 DEF Open
    <3> QED  BY <2>2, <3>1, <3>2 DEF fopen
  <2>3. ASSUME NEW size \in SIZES, NEW nmemb \in 0 .. 2,
               NEW fd \in 0 .. MAX_FILE_DESCRIPTORS, fread(size, nmemb, fd)
        PROVE  Step
    BY <2>1, <2>3 DEF fread
  <2>4. ASSUME NEW fd \in Fds, NEW offset \in OFFSETS,
               NEW whence \in {"SEEK_SET", "SEEK_CUR"}, fseek(fd, offset, whence)
        PROVE  Step
    <3>1. PICK pos : fds' = [fds EXCEPT ![fd].pos = pos]
      BY <2>4 DEF fseek
    <3>2. \A e \in Fds : e # fd => fds'[e] = fds[e]
      BY <3>1 DEF TableShape
    <3>3. fds'[fd].item = fds[fd].item
      BY <3>1 DEF TableShape
    <3> QED  BY <2>1, <3>2, <3>3
  <2> QED  BY <2>2, <2>3, <2>4 DEF Next
<1> QED  BY <1>1, ShapeInvariant, PTL DEF DescriptorsKept, Spec
-----------------------------------------------------------------------------
(* Sets that have nothing in common count together. *)
LEMMA CountsAdd ==
    ASSUME NEW S, NEW T, IsFiniteSet(S), IsFiniteSet(T), S \cap T = {}
    PROVE  /\ IsFiniteSet(S \cup T)
           /\ Cardinality(S \cup T) = Cardinality(S) + Cardinality(T)
<1>1. /\ IsFiniteSet(S \cup T)
      /\ Cardinality(S \cup T) = Cardinality(S) + Cardinality(T) - Cardinality(S \cap T)
  BY FS_Union, Zenon
<1>2. Cardinality(S \cap T) = 0
  <2>1. Cardinality({}) = 0
    BY FS_EmptySet, Zenon
  <2> QED  BY <2>1
<1>3. Cardinality(S) \in Nat /\ Cardinality(T) \in Nat
  BY FS_CardinalityType
<1> QED  BY <1>1, <1>2, <1>3

(* An entry with no more deleted ones before it than live ones behind it   *)
(* is among the first of as many as the driver counts.                     *)
LEMMA WithinCount ==
    ASSUME NEW dir, dir \in Seq(Entries), NEW i \in DOMAIN dir, dir[i] # Deleted,
           Cardinality({j \in 1 .. (i - 1) : dir[j] = Deleted})
              <= Cardinality({j \in (i + 1) .. Len(dir) : dir[j] # Deleted})
    PROVE  i <= TotalItems(dir)
<1> DEFINE n      == Len(dir)
           before == 1 .. (i - 1)
           gone   == {j \in before : dir[j] = Deleted}
           kept   == {j \in before : dir[j] # Deleted}
           behind == {j \in (i + 1) .. n : dir[j] # Deleted}
           live   == {j \in DOMAIN dir : dir[j] # Deleted}
<1>1. n \in Nat /\ DOMAIN dir = 1 .. n /\ i \in 1 .. n
  BY LenProperties
<1>2. /\ IsFiniteSet(before) /\ Cardinality(before) = i - 1
      /\ IsFiniteSet((i + 1) .. n)
      /\ IsFiniteSet({i}) /\ Cardinality({i}) = 1
  <2>1. i \in Int /\ i - 1 \in Int /\ i + 1 \in Int /\ n \in Int /\ i >= 1
    BY <1>1
  <2> HIDE DEF n
  <2>2. IsFiniteSet(before) /\ Cardinality(before) = i - 1
    <3>1. ASSUME NEW m \in Int, m >= 0
          PROVE  IsFiniteSet(1 .. m) /\ Cardinality(1 .. m) = m
      <4>1. IsFiniteSet(1 .. m) /\ Cardinality(1 .. m) = IF 1 > m THEN 0 ELSE m - 1 + 1
        BY FS_Interval
      <4> QED  BY <3>1, <4>1
    <3>2. i - 1 >= 0
      BY <2>1
    <3> QED  BY <2>1, <3>1, <3>2
  <2>3. IsFiniteSet((i + 1) .. n)
    BY <2>1, FS_Interval
  <2>4. IsFiniteSet({i}) /\ Cardinality({i}) = 1
    BY FS_Singleton, Zenon
  <2> QED  BY <2>1, <2>2, <2>3, <2>4
<1>3. /\ gone \in SUBSET before /\ kept \in SUBSET before
      /\ gone \cup kept = before /\ gone \cap kept = {}
      /\ behind \in SUBSET ((i + 1) .. n)
  <2>1. /\ gone \in SUBSET before /\ kept \in SUBSET before /\ gone \cap kept = {}
        /\ \A j \in before : j \in gone \cup kept
    <3> HIDE DEF before
    <3> QED  OBVIOUS
  <2>2. behind \in SUBSET ((i + 1) .. n)
    <3>1. PICK later : later = (i + 1) .. n
      OBVIOUS
    <3>2. {j \in later : dir[j] # Deleted} \in SUBSET later
      OBVIOUS
    <3> HIDE DEF n
    <3> QED  BY <3>1, <3>2
  <2> HIDE DEF gone, kept, before, behind
  <2> QED  BY <2>1, <2>2
<1>4. /\ kept \cup {i} \cup behind = live
      /\ kept \cap {i} = {} /\ (kept \cup {i}) \cap behind = {}
  BY <1>1
<1>5. Cardinality(gone) <= Cardinality(behind) /\ TotalItems(dir) = Cardinality(live)
  BY DEF TotalItems
<1> HIDE DEF n, before, gone, kept, behind, live
<1>6. IsFiniteSet(gone) /\ IsFiniteSet(kept) /\ IsFiniteSet(behind)
  BY <1>2, <1>3, FS_Subset
<1>7. /\ Cardinality(gone) \in Nat /\ Cardinality(kept) \in Nat /\ Cardinality(behind) \in Nat
  BY <1>6, FS_CardinalityType
<1>8. Cardinality(before) = Cardinality(gone) + Cardinality(kept)
  BY <1>3, <1>6, CountsAdd
<1>9. Cardinality(live) = Cardinality(kept) + 1 + Cardinality(behind)
  <2>1. /\ IsFiniteSet(kept \cup {i})
        /\ Cardinality(kept \cup {i}) = Cardinality(kept) + Cardinality({i})
    BY <1>2, <1>4, <1>6, CountsAdd
  <2>2. Cardinality((kept \cup {i}) \cup behind) = Cardinality(kept \cup {i}) + Cardinality(behind)
    BY <1>4, <1>6, <2>1, CountsAdd
  <2> QED  BY <1>2, <1>4, <2>1, <2>2
<1> QED  BY <1>1, <1>2, <1>5, <1>7, <1>8, <1>9

(* The parts of a name, and the dot between them, are sequences over one   *)
(* set of characters.                                                      *)
Characters == STRING \cup {"."}

LEMMA PartsOfName ==
    ASSUME NEW item \in Entries
    PROVE  /\ item.base \in Seq(Characters)
           /\ item.ext \in Seq(Characters)
           /\ <<".">> \in Seq(Characters)
           /\ FullName(item) \in Seq(Characters)
<1>1. item.base \in Seq(STRING) /\ item.ext \in Seq(STRING)
  BY DEF Entries
<1>2. STRING \subseteq Characters /\ "." \in Characters
  BY DEF Characters
<1>3. item.base \in Seq(Characters) /\ item.ext \in Seq(Characters)
  BY <1>1, <1>2, SeqMonotonic
<1> DEFINE dot == <<".">>
           tail == IF item.ext = <<>> THEN <<>> ELSE dot \o item.ext
<1>4. dot \in Seq(Characters)
  BY <1>2
<1>5. dot \o item.ext \in Seq(Characters)
  <2> HIDE DEF dot
  <2> QED  BY <1>3, <1>4, ConcatProperties
<1>6. tail \in Seq(Characters)
  <2> HIDE DEF dot
  <2> QED  BY <1>5
<1>7. item.base \o tail \in Seq(Characters)
  <2> HIDE DEF tail
  <2> QED  BY <1>3, <1>6, ConcatProperties
<1> QED  BY <1>3, <1>4, <1>7 DEF FullName

(* A name that leaves room in its field is put together as it should be    *)
(* (fat16_get_relative_path_name).                                         *)
LEMMA NameWhole ==
    ASSUME NEW item \in Entries, Len(item.base) < NAME_LEN \/ item.ext = <<>>
    PROVE  RelativeName(item) = FullName(item)
<1>1. item.base \in Seq(Characters) /\ item.ext \in Seq(Characters) /\ Len(item.base) \in Nat
  BY PartsOfName, LenProperties
<1>2. item.base \o <<>> = item.base
  BY <1>1, ConcatEmptySeq
<1>3. CASE item.ext = <<>>
  BY <1>2, <1>3 DEF RelativeName, FullName
<1>4. CASE item.ext # <<>> /\ Len(item.base) < NAME_LEN
  <2>1. Len(item.base) # NAME_LEN
    BY <1>1, <1>4, Fat16Assumption
  <2>2. (item.base \o <<".">>) \o item.ext = item.base \o (<<".">> \o item.ext)
    <3>1. ASSUME NEW b \in Seq(Characters), NEW c \in Seq(Characters), NEW e \in Seq(Characters)
          PROVE  (b \o c) \o e = b \o (c \o e)
      BY ConcatAssociative
    <3> QED  BY <1>1, <3>1, PartsOfName
  <2> QED  BY <1>4, <2>1, <2>2 DEF RelativeName, FullName
<1> QED  BY <1>3, <1>4

(* The driver counts no more entries than there are. *)
LEMMA CountBounded ==
    ASSUME NEW dir, dir \in Seq(Entries)
    PROVE  TotalItems(dir) \in Nat /\ TotalItems(dir) <= Len(dir)
<1> DEFINE kept == {i \in DOMAIN dir : dir[i] # Deleted}
           all  == 1 .. Len(dir)
<1>1. Len(dir) \in Nat /\ kept \in SUBSET all
  BY LenProperties
<1>2. IsFiniteSet(all) /\ Cardinality(all) = Len(dir)
  BY <1>1, FS_Interval
<1> HIDE DEF kept, all
<1>3. IsFiniteSet(kept) /\ Cardinality(kept) <= Cardinality(all)
  BY <1>1, <1>2, FS_Subset
<1>4. Cardinality(kept) \in Nat
  BY <1>3, FS_CardinalityType
<1> QED  BY <1>2, <1>3, <1>4 DEF TotalItems, kept

(* The scan finds the entry whose name it is given, if nothing hides it    *)
(* (fat16_find_item_in_directory).                                         *)
LEMMA ScanFinds ==
    ASSUME NEW dir, dir \in Seq(Entries), NEW i \in DOMAIN dir, dir[i] # Deleted, Unhidden(dir, i)
    PROVE  fat16_find_item_in_directory(dir, FullName(dir[i])) = dir[i]
<1> DEFINE match == {j \in 1 .. TotalItems(dir) : IsPrefix(FullName(dir[i]), RelativeName(dir[j]))}
<1>1. Len(dir) \in Nat /\ DOMAIN dir = 1 .. Len(dir) /\ i \in 1 .. Len(dir)
  BY LenProperties
<1>2. TotalItems(dir) \in Nat /\ TotalItems(dir) <= Len(dir)
  BY CountBounded
<1>3. i <= TotalItems(dir)
  BY WithinCount DEF Unhidden
<1>4. \A j \in i .. Len(dir) : RelativeName(dir[j]) = FullName(dir[j])
  <2> TAKE j \in i .. Len(dir)
  <2>1. dir[j] \in Entries
    BY <1>1, ElementOfSeq
  <2>2. Fits(dir[j])
    BY <1>1 DEF Unhidden
  <2> QED  BY <2>1, <2>2, NameWhole DEF Fits
<1>5. IsPrefix(FullName(dir[i]), FullName(dir[i]))
  <2>1. dir[i] \in Entries
    BY <1>1, ElementOfSeq
  <2>2. FullName(dir[i]) \in Seq(Characters)
    BY <2>1, PartsOfName
  <2> QED  BY <2>2, LenProperties DEF IsPrefix
<1>6. i \in match
  BY <1>1, <1>2, <1>3, <1>4, <1>5
<1>7. \A j \in match : j <= i
  BY <1>1, <1>2, <1>4 DEF Unhidden
<1>8. match \in SUBSET Int
  BY <1>2
<1>9. Max(match) = i
  <2> HIDE DEF match
  <2> QED  BY <1>6, <1>7, <1>8 DEF Max
<1> QED  BY <1>6, <1>9 DEF fat16_find_item_in_directory

(* A path of one part is looked up in the root directory and nowhere else. *)
LEMMA LooksInRoot ==
    ASSUME NEW image, NEW name
    PROVE  fat16_get_directory_entry(image, <<name>>) =
              fat16_find_item_in_directory(image.root, name)
<1> DEFINE found == fat16_find_item_in_directory(image.root, name)
           deeper(walk, i) ==
               LET up   == walk[i - 1]
                   item == fat16_find_item_in_directory(image.dirs[up.first], <<name>>[i])
               IN  CASE up.kind = "directory" ->
                            IF item = NoItem /\ i < Len(<<name>>) THEN Wild ELSE item
                     [] up.kind = "file" -> NoItem
                     [] OTHER -> up
           Walks(walk) == walk = [i \in 1 .. Len(<<name>>) |->
                                     IF i = 1 THEN fat16_find_item_in_directory(image.root, <<name>>[1])
                                     ELSE deeper(walk, i)]
           walked == CHOOSE walk : Walks(walk)
<1>1. fat16_get_directory_entry(image, <<name>>) = walked[Len(<<name>>)]
  BY DEF fat16_get_directory_entry
<1> HIDE DEF deeper
<1>2. \A walk : Walks(walk) <=> walk = [i \in 1 .. 1 |-> found]
  <2>1. Len(<<name>>) = 1 /\ <<name>>[1] = name
    OBVIOUS
  <2>2. \A i \in 1 .. 1 : i = 1
    OBVIOUS
  <2> HIDE DEF found
  <2> QED  BY <2>1, <2>2 DEF found
<1>3. walked = [i \in 1 .. 1 |-> found]
  <2> HIDE DEF Walks, found
  <2> QED  BY <1>2
<1> QED  BY <1>1, <1>3

(* Whatever is in the root directory, fopen of a file that nothing there   *)
(* hides gives that file a descriptor, unless none is left (fopen,         *)
(* fat16_open, fat16_find_item_in_directory).                              *)
THEOREM AlwaysFindsUnlessHidden == Spec => []FindsUnlessHidden
<1> DEFINE OnDisk == img \in Images
           IInv == OnDisk /\ TableShape /\ FindsUnlessHidden
           Unasked == opened = NoOpen => FindsUnlessHidden
<1>1. Unasked /\ Unasked'
  BY DEF FindsUnlessHidden, Asked, NoOpen
<1>2. Init => IInv
  <2>1. Init => TableShape
    BY DEF Init, TableShape, NoDesc
  <2> QED  BY <1>1, <2>1 DEF Init
<1>3. IInv /\ [Next]_vars => IInv'
  <2> SUFFICES ASSUME IInv, [Next]_vars, TableShape'
               PROVE  OnDisk' /\ FindsUnlessHidden'
    BY StepKeepsShape
  <2>1. ASSUME NEW path \in Paths, NEW mode \in {"r", "w", "a"}, fopen(path, mode)
        PROVE  OnDisk' /\ FindsUnlessHidden'
    <3> DEFINE fd == file_new_descriptor(fds)
    <3>1. img' = img /\ img.root \in Seq(Entries)
      BY <2>1, VfsAssumption DEF fopen, Directories
    <3> SUFFICES ASSUME NEW i \in DOMAIN img.root, Unhidden(img.root, i), Asked(img.root[i])'
                 PROVE  Opened(img.root[i])'
      BY <3>1 DEF FindsUnlessHidden, Unhidden, Fits, FullName
    <3> DEFINE item == img.root[i]
    <3>2. /\ opened'.path = path /\ opened'.mode = mode
      BY <2>1 DEF fopen
    <3>3. /\ mode = "r" /\ path.drive = 0 /\ item # Deleted
          /\ Pathparser_parse(path) = <<FullName(item)>>
      BY <3>1, <3>2 DEF Asked, Pathparser_parse, FullName
    <3>4. fat16_get_directory_entry(img, Pathparser_parse(path)) = item
      BY <3>1, <3>3, LooksInRoot, ScanFinds
    <3>5. item # NoItem /\ item # Wild
      <4>1. item \in Entries
        BY <3>1, ElementOfSeq, LenProperties
      <4> QED  BY <4>1 DEF Entries, NoItem, Wild, Item
    <3>6. file_mode_get_by_string(mode) = "read" /\ Pathparser_parse(path) # <<>>
      BY <3>3 DEF file_mode_get_by_string
    <3>7. CASE fd = Refused
      <4>1. fds' = fds /\ opened'.res = Refused
        BY <2>1, <3>7 DEF fopen
      <4>2. \A e \in 1 .. (MAX_FILE_DESCRIPTORS - 1) : Open(e)
        BY <3>7, RefusedIsFull DEF Open
      <4>3. \A e \in 1 .. (MAX_FILE_DESCRIPTORS - 1) : Open(e)'
        BY <4>1, <4>2 DEF Open
      <4> QED  BY <4>1, <4>3 DEF Opened
    <3>8. CASE fd # Refused
      <4>1. fds' = [fds EXCEPT ![fd] = [item |-> item, pos |-> 0]] /\ opened'.res = fd
        BY <2>1, <3>3, <3>4, <3>5, <3>6, <3>8 DEF fopen
      <4>2. fd \in DOMAIN fds
        BY <3>8, NewIsFree DEF TableShape
      <4> HIDE DEF fd, item
      <4>3. fds'[fd].item = item
        BY <4>1, <4>2
      <4> QED  BY <3>1, <3>8, <4>1, <4>3 DEF Opened, item
    <3> QED  BY <3>7, <3>8
  <2>2. ASSUME NEW size \in SIZES, NEW nmemb \in 0 .. 2,
               NEW fd \in 0 .. MAX_FILE_DESCRIPTORS, fread(size, nmemb, fd)
        PROVE  OnDisk' /\ FindsUnlessHidden'
    BY <1>1, <2>2 DEF fread
  <2>3. ASSUME NEW fd \in Fds, NEW offset \in OFFSETS,
               NEW whence \in {"SEEK_SET", "SEEK_CUR"}, fseek(fd, offset, whence)
        PROVE  OnDisk' /\ FindsUnlessHidden'
    BY <1>1, <2>3 DEF fseek
  <2>4. CASE UNCHANGED vars
    BY <2>4 DEF vars, FindsUnlessHidden, Asked, Opened, Open, Pathparser_parse
  <2> QED  BY <2>1, <2>2, <2>3, <2>4 DEF Next
<1> QED  BY <1>2, <1>3, PTL DEF Spec
-----------------------------------------------------------------------------
(* Quotient and remainder by a cluster's or a sector's size.               *)
LEMMA Divided ==
    ASSUME NEW n \in Nat \ {0}, NEW m \in Nat
    PROVE  /\ m \div n \in Nat
           /\ m % n \in 0 .. (n - 1)
           /\ m = n * (m \div n) + (m % n)
OBVIOUS

(* A number is a multiple and a rest. *)
LEMMA Split ==
    ASSUME NEW n \in Nat \ {0}, NEW m \in Nat
    PROVE  \E a \in Nat, b \in 0 .. (n - 1) :
              m = n * a + b /\ m \div n = a /\ m % n = b
BY Divided

LEMMA QuotientIs ==
    ASSUME NEW n \in Nat \ {0}, NEW q \in Int, NEW r \in 0 .. (n - 1)
    PROVE  (n * q + r) \div n = q /\ (n * q + r) % n = r
OBVIOUS

LEMMA QuotientGrows ==
    ASSUME NEW n \in Nat \ {0}, NEW a \in Nat, NEW b \in Nat, a <= b
    PROVE  a \div n <= b \div n
OBVIOUS

(* A byte of a file is in one of its clusters.                             *)
LEMMA InChain ==
    ASSUME NEW item, item.size \in Nat \ {0}, NEW q \in Nat, q < item.size
    PROVE  LastCluster(item) \in Nat /\ q \div CLUSTER \in 0 .. LastCluster(item)
<1> DEFINE last == item.size - 1
<1>1. CLUSTER \in Nat \ {0} /\ last \in Nat /\ q <= last
  BY Fat16Assumption
<1> HIDE DEF last
<1>2. last \div CLUSTER \in Nat /\ q \div CLUSTER \in Nat
  BY <1>1, Divided
<1>3. q \div CLUSTER <= last \div CLUSTER
  BY <1>1, QuotientGrows
<1> QED  BY <1>2, <1>3 DEF LastCluster, last

(* The clusters that Chain computes are the file's.                        *)
LEMMA ChainIs ==
    ASSUME NEW image, NEW item, item.size \in Nat \ {0},
           NEW chain, IsChain(chain, image, item)
    PROVE  Chain(image, item) = chain
<1> DEFINE last == LastCluster(item)
           Follows(at) == at = [i \in 0 .. last |-> IF i = 0 THEN item.first ELSE image.fat[at[i - 1]]]
           chosen == CHOOSE at : Follows(at)
<1>1. Chain(image, item) = chosen
  BY DEF Chain
<1>2. last \in Nat
  BY InChain
<1> HIDE DEF last
<1>3. /\ chain \in [0 .. last -> DOMAIN image.fat]
      /\ chain[0] = item.first
      /\ \A i \in 1 .. last : chain[i] = image.fat[chain[i - 1]]
  BY DEF IsChain, last
<1>4. Follows(chain)
  <2> DEFINE next == [i \in 0 .. last |-> IF i = 0 THEN item.first ELSE image.fat[chain[i - 1]]]
  <2>1. \A i \in 0 .. last : chain[i] = next[i]
    BY <1>2, <1>3
  <2>2. chain = next
    BY <1>3, <2>1
  <2> QED  BY <2>2
<1>5. ASSUME NEW at, Follows(at)
      PROVE  at = chain
  <2>1. /\ DOMAIN at = 0 .. last
        /\ at = [i \in DOMAIN at |-> at[i]]
        /\ at[0] = item.first
        /\ \A i \in 1 .. last : at[i] = image.fat[at[i - 1]]
    <3> DEFINE next == [i \in 0 .. last |-> IF i = 0 THEN item.first ELSE image.fat[at[i - 1]]]
    <3>1. at = next
      BY <1>5
    <3>2. /\ DOMAIN next = 0 .. last
          /\ next = [i \in DOMAIN next |-> next[i]]
          /\ next[0] = item.first
          /\ \A i \in 1 .. last : next[i] = image.fat[at[i - 1]]
      BY <1>2
    <3> HIDE DEF next, Follows
    <3> QED  BY <3>1, <3>2
  <2> HIDE DEF Follows
  <2> DEFINE P == {i \in Nat : i <= last => at[i] = chain[i]}
  <2>2. 0 \in P
    BY <1>3, <2>1
  <2>3. ASSUME NEW i \in P
        PROVE  i + 1 \in P
    <3> SUFFICES ASSUME i + 1 <= last
                 PROVE  at[i + 1] = chain[i + 1]
      OBVIOUS
    <3>1. at[i] = chain[i]
      BY <1>2
    <3>2. i + 1 \in 1 .. last /\ (i + 1) - 1 = i
      BY <1>2
    <3> QED  BY <1>3, <2>1, <3>1, <3>2
  <2>4. P = Nat
    <3>1. P \in SUBSET Nat
      OBVIOUS
    <3> HIDE DEF P
    <3> QED  BY <2>2, <2>3, <3>1, Induction
  <2>5. \A i \in 0 .. last : at[i] = chain[i]
    BY <1>2, <2>4
  <2> QED  BY <1>3, <2>1, <2>5
<1> QED  BY <1>1, <1>4, <1>5

(* The cluster of an offset is the one of the file's chain, unless a       *)
(* cluster on the way has a number that stops the driver                   *)
(* (fat16_get_cluster_for_offset).                                         *)
LEMMA ClusterFound ==
    ASSUME NEW image \in Images, NEW item, item.size \in Nat \ {0},
           NEW chain, IsChain(chain, image, item),
           \A i \in DOMAIN chain : i > 0 => chain[i] \notin Stops,
           NEW offset \in Nat, offset < item.size
    PROVE  fat16_get_cluster_for_offset(image, item.first, offset) = {chain[offset \div CLUSTER]}
<1> DEFINE n == offset \div CLUSTER
           step(from) == UNION {IF c = Refused
                                THEN {Refused}
                                ELSE {IF e \in Stops THEN Refused ELSE e :
                                         e \in fat16_get_fat_entry(image, c)} : c \in from}
           Follows(at) == at = [i \in 0 .. n |-> IF i = 0 THEN {item.first} ELSE step(at[i - 1])]
           chosen == CHOOSE at : Follows(at)
           found == [i \in 0 .. n |-> {chain[i]}]
<1>1. fat16_get_cluster_for_offset(image, item.first, offset) = chosen[n]
  BY DEF fat16_get_cluster_for_offset
<1>2. n \in Nat /\ LastCluster(item) \in Nat /\ n <= LastCluster(item)
  BY InChain
<1>3. ASSUME NEW i \in 1 .. n
      PROVE  step({chain[i - 1]}) = {chain[i]}
  <2>1. i \in 1 .. LastCluster(item) /\ i - 1 \in 0 .. LastCluster(item)
    BY <1>2
  <2>2. chain[i - 1] \in DOMAIN image.fat /\ chain[i] = image.fat[chain[i - 1]]
    BY <2>1 DEF IsChain
  <2>3. chain[i - 1] # Refused
    BY <2>2, VfsAssumption DEF Refused
  <2>4. chain[i] \notin Stops
    BY <2>1 DEF IsChain
  <2>5. fat16_get_fat_entry(image, chain[i - 1]) = {chain[i]}
    BY <2>2 DEF fat16_get_fat_entry
  <2> QED  BY <2>3, <2>4, <2>5
<1> HIDE DEF n, step
<1>4. Follows(found)
  <2> DEFINE next == [i \in 0 .. n |-> IF i = 0 THEN {item.first} ELSE step(found[i - 1])]
  <2>1. chain[0] = item.first
    BY DEF IsChain
  <2>2. \A i \in 0 .. n : found[i] = next[i]
    BY <1>2, <1>3, <2>1
  <2> HIDE DEF found
  <2>3. found = next
    BY <2>2 DEF found
  <2> QED  BY <2>3
<1>5. ASSUME NEW at, Follows(at)
      PROVE  at[n] = {chain[n]}
  <2>1. /\ at[0] = {item.first}
        /\ \A i \in 1 .. n : at[i] = step(at[i - 1])
    <3> DEFINE next == [i \in 0 .. n |-> IF i = 0 THEN {item.first} ELSE step(at[i - 1])]
    <3>1. at = next
      BY <1>5
    <3>2. /\ next[0] = {item.first}
          /\ \A i \in 1 .. n : next[i] = step(at[i - 1])
      BY <1>2
    <3> HIDE DEF next, Follows
    <3> QED  BY <3>1, <3>2
  <2> HIDE DEF Follows
  <2> DEFINE P == {i \in Nat : i <= n => at[i] = {chain[i]}}
  <2>2. 0 \in P
    BY <2>1 DEF IsChain
  <2>3. ASSUME NEW i \in P
        PROVE  i + 1 \in P
    <3> SUFFICES ASSUME i + 1 <= n
                 PROVE  at[i + 1] = {chain[i + 1]}
      OBVIOUS
    <3>1. at[i] = {chain[i]}
      BY <1>2
    <3>2. i + 1 \in 1 .. n /\ (i + 1) - 1 = i
      BY <1>2
    <3> QED  BY <1>3, <2>1, <3>1, <3>2
  <2>4. P = Nat
    <3>1. P \in SUBSET Nat
      OBVIOUS
    <3> HIDE DEF P
    <3> QED  BY <2>2, <2>3, <3>1, Induction
  <2> QED  BY <1>2, <2>4
<1>6. Follows(chosen)
  <2> HIDE DEF Follows, found
  <2> QED  BY <1>4
<1>7. chosen[n] = {chain[n]}
  <2> HIDE DEF Follows, chosen
  <2> QED  BY <1>5, <1>6
<1> QED  BY <1>1, <1>7 DEF n
(* The bytes of a file, by position: where each lies on the disk.          *)
ByteOf(chain, q) == ClusterPos(chain[q \div CLUSTER]) + (q % CLUSTER)

(* A read from q begins with a cluster, or stays in one and either begins  *)
(* with a sector or stays in one.                                          *)
AlignedAt(q, size) ==
    \/ q % CLUSTER = 0
    \/ q % SECTOR = 0 /\ (q % CLUSTER) + size <= CLUSTER
    \/ (q % SECTOR) + size <= SECTOR

(* Clusters begin with sectors.                                            *)
LEMMA ClusterAligned ==
    ASSUME NEW c \in Nat
    PROVE  ClusterPos(c) \in Int /\ \E s \in Int : ClusterPos(c) = SECTOR * s
<1>1. CLUSTER \in Nat \ {0} /\ SECTOR \in Nat \ {0} /\ CLUSTER % SECTOR = 0 /\ CLUSTER \in Nat
  BY Fat16Assumption
<1>2. PICK per \in Nat, none \in 0 .. (SECTOR - 1) : CLUSTER = SECTOR * per + none /\ none = 0
  BY ONLY <1>1, Split
<1> DEFINE s == DATA + (c - 2) * per
<1>3. s \in Int /\ ClusterPos(c) = SECTOR * s
  BY <1>1, <1>2, Fat16Assumption DEF ClusterPos
<1> HIDE DEF s
<1> QED  BY <1>1, <1>3

(* A read that stays in a sector stays in its cluster.                     *)
LEMMA SectorInCluster ==
    ASSUME NEW q \in Nat, NEW size \in Nat \ {0}
    PROVE  /\ (q % CLUSTER) % SECTOR = q % SECTOR
           /\ (q % SECTOR) + size <= SECTOR => (q % CLUSTER) + size <= CLUSTER
<1>1. CLUSTER \in Nat \ {0} /\ SECTOR \in Nat \ {0} /\ CLUSTER % SECTOR = 0 /\ CLUSTER \in Nat
  BY Fat16Assumption
<1>2. PICK per \in Nat, none \in 0 .. (SECTOR - 1) : CLUSTER = SECTOR * per + none /\ none = 0
  BY ONLY <1>1, Split
<1>3. PICK a \in Nat, b \in 0 .. (CLUSTER - 1) : q = CLUSTER * a + b /\ q % CLUSTER = b
  BY <1>1, Split
<1>4. b \in Nat /\ SECTOR \in Nat \ {0}
  BY <1>1
<1>5. PICK x \in Nat, y \in 0 .. (SECTOR - 1) : b = SECTOR * x + y /\ b % SECTOR = y
  BY ONLY <1>4, Split
<1>6. q % SECTOR = y
  <2> DEFINE z == per * a + x
  <2>1. z \in Int /\ q = SECTOR * z + y
    BY <1>1, <1>2, <1>3, <1>5
  <2> HIDE DEF z
  <2> QED  BY ONLY y \in 0 .. (SECTOR - 1), <1>1, <2>1, QuotientIs
<1>7. x + 1 <= per
  <2> SUFFICES ASSUME per <= x
               PROVE  FALSE
    OBVIOUS
  <2>1. SECTOR * per <= SECTOR * x
    BY <1>1
  <2> QED  BY <1>1, <1>2, <1>5, <2>1
<1>8. SECTOR * (x + 1) <= SECTOR * per
  BY <1>1, <1>7
<1>9. SECTOR * (x + 1) = SECTOR * x + SECTOR
  BY <1>1
<1>10. y + size <= SECTOR => b + size <= CLUSTER
  BY <1>1, <1>2, <1>5, <1>8, <1>9
<1> QED  BY <1>3, <1>5, <1>6, <1>10

(* Byte k of a read, which is byte r of the cluster at level i: in the     *)
(* file it is that byte too, and it is in the sector that the stream reads *)
(* at that moment.                                                         *)
LEMMA BytePlace ==
    ASSUME NEW q \in Nat, NEW size \in Nat \ {0}, AlignedAt(q, size), NEW k \in 0 .. (size - 1)
    PROVE  LET i == k \div CLUSTER
               r == k % CLUSTER
           IN  /\ i \in Nat
               /\ r \in Nat
               /\ k = CLUSTER * i + r
               /\ (q + k) \div CLUSTER = (q + i * CLUSTER) \div CLUSTER
               /\ (q + k) % CLUSTER = (q % CLUSTER) + r
               /\ ((q % CLUSTER) % SECTOR) + (r % SECTOR) < SECTOR
<1>1. CLUSTER \in Nat \ {0} /\ SECTOR \in Nat \ {0} /\ k \in Nat
  BY Fat16Assumption
<1>2. PICK a \in Nat, b \in 0 .. (CLUSTER - 1) : /\ q = CLUSTER * a + b
                                                 /\ q \div CLUSTER = a
                                                 /\ q % CLUSTER = b
  BY ONLY q \in Nat, <1>1, Split
<1>3. PICK i \in Nat, r \in 0 .. (CLUSTER - 1) : /\ k = CLUSTER * i + r
                                                 /\ k \div CLUSTER = i
                                                 /\ k % CLUSTER = r
  BY ONLY <1>1, Split
<1>4. b \in Nat /\ r \in Nat
  BY <1>1
<1>5. PICK x \in Nat, y \in 0 .. (SECTOR - 1) : r = SECTOR * x + y /\ r % SECTOR = y
  BY ONLY <1>1, <1>4, Split
<1>6. PICK c \in Nat, d \in 0 .. (SECTOR - 1) : b = SECTOR * c + d /\ b % SECTOR = d
  BY ONLY <1>1, <1>4, Split
<1>7. q % SECTOR = d
  BY <1>2, <1>6, SectorInCluster
<1>8. ASSUME b + size <= CLUSTER
      PROVE  r = k
  <2>1. k \in 0 .. (CLUSTER - 1) /\ 0 \in Int /\ k = CLUSTER * 0 + k
    BY <1>1, <1>8
  <2>2. k % CLUSTER = k
    BY ONLY <1>1, <2>1, QuotientIs
  <2> QED  BY <1>3, <2>2
<1>9. b + r < CLUSTER /\ d + y < SECTOR
  <2>1. CASE b = 0
    <3>1. b \in Nat /\ 0 \in 0 .. (SECTOR - 1) /\ 0 \in Int /\ b = SECTOR * 0 + 0
      BY <1>1, <2>1
    <3>2. b % SECTOR = 0
      BY ONLY <1>1, <3>1, QuotientIs
    <3> QED  BY <1>1, <1>6, <2>1, <3>2
  <2>2. CASE d = 0 /\ b + size <= CLUSTER
    BY <1>1, <1>8, <2>2
  <2>3. CASE d + size <= SECTOR
    <3>1. b + size <= CLUSTER
      BY <1>2, <1>7, <2>3, SectorInCluster
    <3>2. r = k /\ k < SECTOR
      <4>1. k < SECTOR
        BY <1>1, <2>3
      <4> QED  BY <1>8, <3>1, <4>1
    <3>3. y <= r
      BY <1>1, <1>5
    <3> QED  BY <1>1, <2>3, <3>1, <3>2, <3>3
  <2> QED  BY <1>2, <1>7, <2>1, <2>2, <2>3 DEF AlignedAt
<1> DEFINE z == a + i
<1>10. q + i * CLUSTER = CLUSTER * z + b /\ q + k = CLUSTER * z + (b + r) /\ z \in Int
  BY <1>1, <1>2, <1>3
<1> HIDE DEF z
<1>11. (q + i * CLUSTER) \div CLUSTER = z
  BY ONLY b \in 0 .. (CLUSTER - 1), <1>1, <1>10, QuotientIs
<1>12. b + r \in 0 .. (CLUSTER - 1)
  BY <1>1, <1>9
<1>13. (q + k) \div CLUSTER = z /\ (q + k) % CLUSTER = b + r
  BY ONLY <1>1, <1>10, <1>12, QuotientIs
<1> QED  BY <1>2, <1>3, <1>4, <1>5, <1>6, <1>9, <1>11, <1>13
(* A file whose chain is whole and has no number that stops the driver.    *)
WholeFile(chain, image, item) ==
    /\ image \in Images
    /\ item.size \in Nat \ {0}
    /\ IsChain(chain, image, item)
    /\ \A i \in DOMAIN chain : i > 0 => chain[i] \notin Stops

(* Bytes of the file from q on, none of them so near to the end of the     *)
(* disk that what the driver streams with it would run off.                *)
Within(chain, item, q, size) ==
    /\ q \in Nat
    /\ size \in Nat \ {0}
    /\ q + size <= item.size
    /\ \A i \in 0 .. ((size - 1) \div CLUSTER) :
          ~ Hangs(ClusterPos(chain[(q + i * CLUSTER) \div CLUSTER]) + (q % CLUSTER), size - i * CLUSTER)

Delivered(chain, q, size) ==
    [res |-> "ok", bytes |-> [j \in 1 .. size |-> ByteOf(chain, q + j - 1)]]

(* Where a level of the read begins in its sector.                         *)
LEMMA InSector ==
    ASSUME NEW c \in Nat, NEW q \in Nat
    PROVE  /\ ClusterPos(c) + (q % CLUSTER) \in Int
           /\ (ClusterPos(c) + (q % CLUSTER)) % SECTOR = (q % CLUSTER) % SECTOR
<1>1. CLUSTER \in Nat \ {0} /\ SECTOR \in Nat \ {0}
  BY Fat16Assumption
<1>2. PICK a \in Nat, b \in 0 .. (CLUSTER - 1) : q = CLUSTER * a + b /\ q % CLUSTER = b
  BY ONLY q \in Nat, <1>1, Split
<1>3. b \in Nat
  BY <1>1
<1>4. PICK x \in Nat, y \in 0 .. (SECTOR - 1) : b = SECTOR * x + y /\ b % SECTOR = y
  BY ONLY <1>1, <1>3, Split
<1>5. PICK s \in Int : ClusterPos(c) = SECTOR * s
  BY ClusterAligned
<1> DEFINE z == s + x
<1>6. z \in Int /\ ClusterPos(c) + b = SECTOR * z + y /\ ClusterPos(c) + b \in Int
  BY <1>1, <1>4, <1>5
<1> HIDE DEF z
<1>7. (ClusterPos(c) + b) % SECTOR = y
  BY ONLY y \in 0 .. (SECTOR - 1), <1>1, <1>6, QuotientIs
<1> QED  BY <1>2, <1>4, <1>6, <1>7

(* Level by level, one read of an aligned part delivers the file's own     *)
(* bytes: each level overwrites what the level before it streamed past the *)
(* end of its cluster (fat16_read_internal_from_stream,                    *)
(* disk_streamer_read).                                                    *)
LEMMA PartRead ==
    ASSUME NEW image, NEW item, NEW chain, WholeFile(chain, image, item),
           NEW q, NEW size, Within(chain, item, q, size), AlignedAt(q, size)
    PROVE  fat16_read_internal(image, item.first, q, size) = {Delivered(chain, q, size)}
<1> DEFINE levels == 0 .. ((size - 1) \div CLUSTER)
           at(i)  == fat16_get_cluster_for_offset(image, item.first, q + i * CLUSTER)
           pick   == {f \in [levels -> UNION {at(i) : i \in levels}] : \A i \in levels : f[i] \in at(i)}
           pos(f, i)  == ClusterPos(f[i]) + (q % CLUSTER)
           left(i)    == size - i * CLUSTER
           read(f, i) == disk_streamer_read(pos(f, i), left(i))
           stop(f, i) == f[i] = Refused \/ Hangs(pos(f, i), left(i))
           bytes(f)   == [j \in 1 .. size |-> read(f, (j - 1) \div CLUSTER)[((j - 1) % CLUSTER) + 1]]
           failed(f)  == LET i == Min({l \in levels : stop(f, l)})
                         IN  IF f[i] = Refused THEN Failed ELSE Hung
           outcome(f) == IF \E i \in levels : stop(f, i)
                         THEN failed(f)
                         ELSE [res |-> "ok", bytes |-> bytes(f)]
           taken      == [i \in levels |-> chain[(q + i * CLUSTER) \div CLUSTER]]
<1>1. fat16_read_internal(image, item.first, q, size) = {outcome(f) : f \in pick}
  BY DEF fat16_read_internal
<1>2. CLUSTER \in Nat \ {0} /\ q \in Nat /\ size \in Nat \ {0} /\ q + size <= item.size
  BY Fat16Assumption DEF Within
<1>3. ASSUME NEW i \in levels
      PROVE  i \in Nat /\ i * CLUSTER \in Nat /\ q + i * CLUSTER \in Nat /\ i * CLUSTER < size
  <2> DEFINE most == size - 1
  <2>1. most \in Nat
    BY <1>2
  <2>2. PICK a \in Nat, b \in 0 .. (CLUSTER - 1) : most = CLUSTER * a + b /\ most \div CLUSTER = a
    <3> HIDE DEF most
    <3> QED  BY ONLY <1>2, <2>1, Split
  <2>3. i \in Nat /\ i <= a
    BY <2>2
  <2> HIDE DEF levels
  <2>4. CLUSTER * i <= CLUSTER * a
    BY <1>2, <2>3
  <2>5. CLUSTER * i = i * CLUSTER /\ i * CLUSTER \in Nat
    BY <1>2, <2>3
  <2>6. i * CLUSTER <= most
    BY <1>2, <2>2, <2>4, <2>5
  <2> QED  BY <1>2, <2>3, <2>5, <2>6
<1>4. ASSUME NEW i \in levels
      PROVE  at(i) = {taken[i]} /\ taken[i] \in Nat
  <2> DEFINE offset == q + i * CLUSTER
  <2>1. offset \in Nat /\ offset < item.size /\ item.size \in Nat \ {0}
    BY <1>2, <1>3 DEF WholeFile
  <2>2. taken[i] = chain[offset \div CLUSTER]
    OBVIOUS
  <2> HIDE DEF offset, levels, taken
  <2>3. offset \div CLUSTER \in 0 .. LastCluster(item)
    BY <2>1, InChain
  <2>4. chain[offset \div CLUSTER] \in Nat
    BY <2>3, VfsAssumption DEF WholeFile, IsChain
  <2>5. fat16_get_cluster_for_offset(image, item.first, offset) = {chain[offset \div CLUSTER]}
    <3>1. /\ image \in Images
          /\ IsChain(chain, image, item)
          /\ \A l \in DOMAIN chain : l > 0 => chain[l] \notin Stops
      BY DEF WholeFile
    <3> QED  BY ONLY <2>1, <3>1, ClusterFound
  <2> QED  BY <2>2, <2>4, <2>5 DEF offset
<1> HIDE DEF at
<1>5. pick = {taken}
  <2>1. taken \in pick
    BY <1>4
  <2>2. ASSUME NEW f \in pick
        PROVE  f = taken
    <3>1. \A i \in levels : f[i] = taken[i]
      BY <1>4
    <3> HIDE DEF levels
    <3> QED  BY <3>1
  <2> HIDE DEF taken, pick
  <2> QED  BY <2>1, <2>2
<1>6. \A i \in levels : ~ stop(taken, i)
  <2> TAKE i \in levels
  <2>1. taken[i] # Refused
    <3>1. taken[i] \in Nat
      BY <1>4
    <3> HIDE DEF taken
    <3> QED  BY <3>1 DEF Refused
  <2>2. ~ Hangs(pos(taken, i), left(i))
    BY DEF Within
  <2> QED  BY <2>1, <2>2
<1>7. ASSUME NEW j \in 1 .. size
      PROVE  bytes(taken)[j] = ByteOf(chain, q + j - 1)
  <2> DEFINE k == j - 1
             i == k \div CLUSTER
             r == k % CLUSTER
             c == taken[i]
             p == ClusterPos(c) + (q % CLUSTER)
  <2>1. k \in 0 .. (size - 1) /\ q + k = q + j - 1
    BY <1>2
  <2>2. bytes(taken)[j] = disk_streamer_read(p, left(i))[r + 1]
    OBVIOUS
  <2> HIDE DEF bytes, k
  <2>3. /\ i \in Nat
        /\ r \in Nat
        /\ k = CLUSTER * i + r
        /\ (q + k) \div CLUSTER = (q + i * CLUSTER) \div CLUSTER
        /\ (q + k) % CLUSTER = (q % CLUSTER) + r
        /\ ((q % CLUSTER) % SECTOR) + (r % SECTOR) < SECTOR
    BY <1>2, <2>1, BytePlace
  <2>4. i \in levels
    <3>1. k \in Nat /\ size - 1 \in Nat /\ k <= size - 1
      BY <1>2, <2>1
    <3>2. k \div CLUSTER <= (size - 1) \div CLUSTER
      BY <1>2, <3>1, QuotientGrows
    <3>3. (size - 1) \div CLUSTER \in Nat
      BY <1>2, <3>1, Divided
    <3> QED  BY <2>3, <3>2, <3>3
  <2>5. c = chain[(q + k) \div CLUSTER] /\ c \in Nat
    <3>1. c = chain[(q + i * CLUSTER) \div CLUSTER]
      BY <2>4
    <3>2. c \in Nat
      BY <1>4, <2>4
    <3> HIDE DEF c, i
    <3> QED  BY <2>3, <3>1, <3>2
  <2>6. p \in Int /\ p % SECTOR = (q % CLUSTER) % SECTOR
    <3> HIDE DEF c
    <3> QED  BY <1>2, <2>5, InSector
  <2>7. ByteOf(chain, q + k) = p + r
    <3>1. ClusterPos(c) \in Int /\ q % CLUSTER \in Int
      <4> HIDE DEF c
      <4>1. ClusterPos(c) \in Int
        BY <2>5, ClusterAligned
      <4>2. q % CLUSTER \in Int
        BY ONLY <1>2
      <4> QED  BY <4>1, <4>2
    <3>2. ByteOf(chain, q + k) = ClusterPos(c) + ((q % CLUSTER) + r)
      BY <2>3, <2>5 DEF ByteOf
    <3> HIDE DEF c, r, i
    <3> QED  BY <2>3, <3>1, <3>2
  <2>8. r + 1 \in 1 .. left(i)
    <3> HIDE DEF i, r, levels
    <3> QED  BY <1>2, <2>1, <2>3
  <2>9. disk_streamer_read(p, left(i))[r + 1] = p + r
    <3> DEFINE l == left(i)
    <3> HIDE DEF p, r, i, l, c
    <3>1. (p % SECTOR) + (((r + 1) - 1) % SECTOR) < SECTOR
      <4>1. (r + 1) - 1 = r
        BY <2>3
      <4> QED  BY <2>3, <2>6, <4>1
    <3>2. disk_streamer_read(p, l)[r + 1] = p + (r + 1) - 1
      BY <2>8, <3>1 DEF disk_streamer_read, l
    <3> QED  BY <2>3, <2>6, <3>2 DEF l
  <2> HIDE DEF c, p, i, r
  <2> QED  BY <2>1, <2>2, <2>7, <2>9
<1>8. outcome(taken) = Delivered(chain, q, size)
  <2>1. outcome(taken) = [res |-> "ok", bytes |-> bytes(taken)]
    <3> HIDE DEF stop, failed, bytes, taken, levels
    <3> QED  BY <1>6
  <2>2. bytes(taken) = [j \in 1 .. size |-> ByteOf(chain, q + j - 1)]
    <3>1. DOMAIN bytes(taken) = 1 .. size /\ bytes(taken) = [j \in DOMAIN bytes(taken) |-> bytes(taken)[j]]
      OBVIOUS
    <3> HIDE DEF bytes
    <3> QED  BY <1>7, <3>1
  <2> HIDE DEF outcome, bytes
  <2> QED  BY <2>1, <2>2 DEF Delivered
<1> HIDE DEF outcome, pick, taken
<1> QED  BY <1>1, <1>5, <1>8
(* One part behind the other: the parts' bytes are the file's.             *)
LEMMA BytesJoined ==
    ASSUME NEW chain, NEW q \in Nat, NEW a \in Nat, NEW b \in Nat
    PROVE  Delivered(chain, q, a).bytes \o Delivered(chain, q + a, b).bytes
              = Delivered(chain, q, a + b).bytes
<1> DEFINE S == {ByteOf(chain, p) : p \in Nat}
           s == [j \in 1 .. a |-> ByteOf(chain, q + j - 1)]
           t == [j \in 1 .. b |-> ByteOf(chain, (q + a) + j - 1)]
           u == [j \in 1 .. (a + b) |-> ByteOf(chain, q + j - 1)]
<1>1. \A p \in Nat : ByteOf(chain, p) \in S
  OBVIOUS
<1> HIDE DEF S
<1>2. s \in [1 .. a -> S] /\ t \in [1 .. b -> S] /\ u \in [1 .. (a + b) -> S]
  <2>1. \A j \in 1 .. a : q + j - 1 \in Nat
    OBVIOUS
  <2>2. \A j \in 1 .. b : (q + a) + j - 1 \in Nat
    OBVIOUS
  <2>3. \A j \in 1 .. (a + b) : q + j - 1 \in Nat
    OBVIOUS
  <2> QED  BY <1>1, <2>1, <2>2, <2>3
<1>3. \A j \in 1 .. (a + b) : u[j] = IF j <= a THEN s[j] ELSE t[j - a]
  <2> TAKE j \in 1 .. (a + b)
  <2>1. CASE j <= a
    BY <2>1
  <2>2. CASE ~ (j <= a)
    <3>1. j - a \in 1 .. b /\ (q + a) + (j - a) - 1 = q + j - 1
      BY <2>2
    <3> QED  BY <2>2, <3>1
  <2> QED  BY <2>1, <2>2
<1>4. Delivered(chain, q, a).bytes = s /\ Delivered(chain, q + a, b).bytes = t
      /\ Delivered(chain, q, a + b).bytes = u
  BY DEF Delivered
<1> HIDE DEF s, t, u
<1>5. /\ s \in Seq(S) /\ Len(s) = a
      /\ t \in Seq(S) /\ Len(t) = b
      /\ u \in Seq(S) /\ Len(u) = a + b
  <2>1. ASSUME NEW n \in Nat, NEW v \in [1 .. n -> S]
        PROVE  v \in Seq(S) /\ Len(v) = n
    BY <2>1
  <2> QED  BY <1>2, <2>1
<1>6. /\ s \o t \in Seq(S)
      /\ Len(s \o t) = a + b
      /\ \A j \in 1 .. (a + b) : (s \o t)[j] = IF j <= a THEN s[j] ELSE t[j - a]
  BY <1>5, ConcatProperties
<1>7. s \o t = u
  <2> DEFINE v == s \o t
  <2>1. v \in Seq(S) /\ Len(v) = Len(u) /\ \A j \in 1 .. Len(v) : v[j] = u[j]
    BY <1>3, <1>5, <1>6
  <2> HIDE DEF v
  <2>2. v = u
    BY <1>5, <2>1, SeqEqual
  <2> QED  BY <2>2 DEF v
<1> QED  BY <1>4, <1>7

(* Each part of a read, from where the one before it ended, succeeds.      *)
EachPart(image, item, chain, q, size, nmemb) ==
    \A i \in 1 .. nmemb :
       fat16_read_internal(image, item.first, q + (i - 1) * size, size)
          = {Delivered(chain, q + (i - 1) * size, size)}

(* fat16_read calls one read after the other, and all of them succeed.     *)
LEMMA PartsRead ==
    ASSUME NEW image, NEW item, NEW chain, NEW q \in Nat, NEW size \in Nat \ {0}, NEW nmemb \in Nat,
           EachPart(image, item, chain, q, size, nmemb)
    PROVE  fat16_read(image, item, q, size, nmemb) = {Delivered(chain, q, nmemb * size)}
<1> DEFINE part(i) == fat16_read_internal(image, item.first, q + (i - 1) * size, size)
           step(i, from) == UNION {IF o.res # "ok" THEN {o}
                                   ELSE {[p EXCEPT !.bytes = o.bytes \o @] : p \in part(i)} : o \in from}
           none == [res |-> "ok", bytes |-> <<>>]
           Follows(run) == run = [i \in 0 .. nmemb |-> IF i = 0 THEN {none} ELSE step(i, run[i - 1])]
           chosen == CHOOSE run : Follows(run)
           good(i) == Delivered(chain, q, i * size)
           found == [i \in 0 .. nmemb |-> {good(i)}]
<1>1. fat16_read(image, item, q, size, nmemb) = chosen[nmemb]
  BY DEF fat16_read
<1>2. good(0) = none
  <2>1. 0 * size = 0
    OBVIOUS
  <2>2. [j \in 1 .. 0 |-> ByteOf(chain, q + j - 1)] = <<>>
    OBVIOUS
  <2> QED  BY <2>1, <2>2 DEF Delivered
<1>3. ASSUME NEW i \in 1 .. nmemb
      PROVE  step(i, {good(i - 1)}) = {good(i)}
  <2> DEFINE before == good(i - 1)
             p == Delivered(chain, q + (i - 1) * size, size)
  <2>1. part(i) = {p}
    BY DEF EachPart
  <2>2. before.res = "ok"
    BY DEF Delivered
  <2>3. step(i, {before}) = {[p EXCEPT !.bytes = before.bytes \o @]}
    <3> DEFINE after(o) == {[x EXCEPT !.bytes = o.bytes \o @] : x \in part(i)}
    <3>1. after(before) = {[p EXCEPT !.bytes = before.bytes \o @]}
      <4> HIDE DEF part, before, p
      <4> QED  BY <2>1
    <3>2. step(i, {before}) = UNION {IF o.res # "ok" THEN {o} ELSE after(o) : o \in {before}}
      <4> HIDE DEF part, before
      <4> QED  OBVIOUS
    <3>3. step(i, {before}) = after(before)
      <4> HIDE DEF after, before, step
      <4> QED  BY <2>2, <3>2
    <3> HIDE DEF after, before, step, p
    <3> QED  BY <3>1, <3>3
  <2>4. before.bytes \o p.bytes = good(i).bytes
    <3> DEFINE a == (i - 1) * size
    <3>1. a \in Nat /\ a + size = i * size
      OBVIOUS
    <3> HIDE DEF a
    <3>2. Delivered(chain, q, a).bytes \o Delivered(chain, q + a, size).bytes
             = Delivered(chain, q, a + size).bytes
      BY <3>1, BytesJoined
    <3> QED  BY <3>1, <3>2 DEF a
  <2>5. [p EXCEPT !.bytes = before.bytes \o @] = good(i)
    <3>1. /\ p = [res |-> "ok", bytes |-> p.bytes]
          /\ good(i) = [res |-> "ok", bytes |-> good(i).bytes]
      BY DEF Delivered
    <3> HIDE DEF p, good, before
    <3> QED  BY <2>4, <3>1
  <2> HIDE DEF step, good
  <2> QED  BY <2>3, <2>5
<1> HIDE DEF step, good, none
<1>4. Follows(found)
  <2> DEFINE next == [i \in 0 .. nmemb |-> IF i = 0 THEN {none} ELSE step(i, found[i - 1])]
  <2>1. \A i \in 0 .. nmemb : found[i] = next[i]
    BY <1>2, <1>3
  <2> HIDE DEF found
  <2>2. found = next
    BY <2>1 DEF found
  <2> QED  BY <2>2
<1>5. ASSUME NEW run, Follows(run)
      PROVE  run[nmemb] = {good(nmemb)}
  <2>1. /\ run[0] = {none}
        /\ \A i \in 1 .. nmemb : run[i] = step(i, run[i - 1])
    <3> DEFINE next == [i \in 0 .. nmemb |-> IF i = 0 THEN {none} ELSE step(i, run[i - 1])]
    <3>1. run = next
      BY <1>5
    <3>2. /\ next[0] = {none}
          /\ \A i \in 1 .. nmemb : next[i] = step(i, run[i - 1])
      OBVIOUS
    <3> HIDE DEF next, Follows
    <3> QED  BY <3>1, <3>2
  <2> HIDE DEF Follows
  <2> DEFINE P == {i \in Nat : i <= nmemb => run[i] = {good(i)}}
  <2>2. 0 \in P
    BY <1>2, <2>1
  <2>3. ASSUME NEW i \in P
        PROVE  i + 1 \in P
    <3> SUFFICES ASSUME i + 1 <= nmemb
                 PROVE  run[i + 1] = {good(i + 1)}
      OBVIOUS
    <3>1. run[i] = {good(i)}
      OBVIOUS
    <3>2. i + 1 \in 1 .. nmemb /\ (i + 1) - 1 = i
      OBVIOUS
    <3> QED  BY <1>3, <2>1, <3>1, <3>2
  <2>4. P = Nat
    <3>1. P \in SUBSET Nat
      OBVIOUS
    <3> HIDE DEF P
    <3> QED  BY <2>2, <2>3, <3>1, Induction
  <2> QED  BY <2>4
<1>6. Follows(chosen)
  <2> HIDE DEF Follows, found
  <2> QED  BY <1>4
<1>7. chosen[nmemb] = {good(nmemb)}
  <2> HIDE DEF Follows, chosen
  <2> QED  BY <1>5, <1>6
<1> QED  BY <1>1, <1>7 DEF good
-----------------------------------------------------------------------------
(* The last of the entries that fit is one of them.                        *)
LEMMA GreatestNumber ==
    ASSUME NEW n \in Nat, NEW S \in SUBSET (1 .. n), S # {}
    PROVE  Max(S) \in S
<1> DEFINE T == {n - x : x \in S}
<1>1. T \in SUBSET Nat /\ T # {}
  <2>1. \A x \in S : n - x \in Nat
    OBVIOUS
  <2>2. T \in SUBSET Nat
    BY <2>1
  <2>3. PICK x \in S : TRUE
    OBVIOUS
  <2>4. n - x \in T
    OBVIOUS
  <2> QED  BY <2>2, <2>4
<1>2. PICK i \in T : \A j \in T : i <= j
  <2> HIDE DEF T
  <2> QED  BY <1>1, LeastNatural
<1>3. n - i \in S /\ \A x \in S : n - i >= x
  <2>1. \A x \in S : i <= n - x
    BY <1>2
  <2> QED  BY <2>1
<1> QED  BY <1>3 DEF Max

(* What a search returns is an entry of the directory, or the null pointer *)
(* (fat16_find_item_in_directory).                                         *)
LEMMA FindsEntry ==
    ASSUME NEW dir, dir \in Seq(Entries), NEW name
    PROVE  fat16_find_item_in_directory(dir, name) \in {dir[i] : i \in DOMAIN dir} \cup {NoItem}
<1> DEFINE match == {i \in 1 .. TotalItems(dir) : IsPrefix(name, RelativeName(dir[i]))}
<1>1. Len(dir) \in Nat /\ DOMAIN dir = 1 .. Len(dir)
  BY LenProperties
<1>2. TotalItems(dir) \in Nat /\ TotalItems(dir) <= Len(dir)
  BY CountBounded
<1>3. fat16_find_item_in_directory(dir, name) = IF match = {} THEN NoItem ELSE dir[Max(match)]
  BY DEF fat16_find_item_in_directory
<1>4. match # {} => Max(match) \in 1 .. Len(dir)
  <2>1. match \in SUBSET (1 .. Len(dir))
    BY <1>2
  <2> HIDE DEF match
  <2>2. match # {} => Max(match) \in match
    BY <1>1, <2>1, GreatestNumber
  <2> QED  BY <2>1, <2>2
<1> HIDE DEF match
<1> QED  BY <1>1, <1>3, <1>4

(* Down any path: an entry of the disk, or one of the two results that     *)
(* stand for none (fat16_get_directory_entry).                             *)
LEMMA WalkOnDisk ==
    ASSUME NEW image \in Images, NEW parts, Len(parts) \in Nat \ {0}
    PROVE  fat16_get_directory_entry(image, parts) \in ItemsOn(image) \cup {NoItem, Wild}
<1> DEFINE S == ItemsOn(image) \cup {NoItem, Wild}
           n == Len(parts)
           first == fat16_find_item_in_directory(image.root, parts[1])
           below(i, up) == LET item == fat16_find_item_in_directory(image.dirs[up.first], parts[i])
                           IN  CASE up.kind = "directory" ->
                                        IF item = NoItem /\ i < Len(parts) THEN Wild ELSE item
                                 [] up.kind = "file" -> NoItem
                                 [] OTHER -> up
           Follows(walk) == walk = [i \in 1 .. n |-> IF i = 1 THEN first ELSE below(i, walk[i - 1])]
           chosen == CHOOSE walk : Follows(walk)
<1>1. fat16_get_directory_entry(image, parts) = chosen[n]
  BY DEF fat16_get_directory_entry
<1>2. /\ Directories(image) \subseteq Seq(Entries)
      /\ \A item \in ItemsOn(image) : item.kind = "directory" => item.first \in DOMAIN image.dirs
  BY VfsAssumption
<1>3. ASSUME NEW dir \in Directories(image), NEW name
      PROVE  fat16_find_item_in_directory(dir, name) \in ItemsOn(image) \cup {NoItem}
  <2>1. {dir[i] : i \in DOMAIN dir} \subseteq ItemsOn(image)
    BY DEF ItemsOn
  <2>2. fat16_find_item_in_directory(dir, name) \in {dir[i] : i \in DOMAIN dir} \cup {NoItem}
    BY <1>2, FindsEntry
  <2> QED  BY <2>1, <2>2
<1>4. first \in S
  BY <1>3 DEF Directories
<1>5. ASSUME NEW i, NEW up \in S
      PROVE  below(i, up) \in S
  <2> DEFINE item == fat16_find_item_in_directory(image.dirs[up.first], parts[i])
  <2>1. CASE up.kind = "directory"
    <3>1. up \in ItemsOn(image)
      BY <2>1 DEF NoItem, Wild, Item
    <3>2. image.dirs[up.first] \in Directories(image)
      BY <1>2, <2>1, <3>1 DEF Directories
    <3>3. item \in ItemsOn(image) \cup {NoItem}
      BY <1>3, <3>2
    <3>4. below(i, up) = IF item = NoItem /\ i < Len(parts) THEN Wild ELSE item
      BY <2>1
    <3> HIDE DEF below, item
    <3> QED  BY <3>3, <3>4
  <2>2. CASE up.kind = "file"
    <3>1. below(i, up) = NoItem
      BY <2>2
    <3> HIDE DEF below
    <3> QED  BY <3>1
  <2>3. CASE up.kind # "directory" /\ up.kind # "file"
    <3>1. below(i, up) = up
      BY <2>3
    <3> HIDE DEF below
    <3> QED  BY <3>1
  <2> HIDE DEF below
  <2> QED  BY <2>1, <2>2, <2>3
<1> HIDE DEF S, first, below
<1>6. \E walk : Follows(walk)
  <2> DEFINE step == [i \in Nat |-> [up \in S |-> below(i + 2, up)]]
  <2>1. StepOf(step, S)
    BY <1>5 DEF StepOf
  <2>2. PICK f \in [Nat -> S] : Iterates(f, first, step)
    <3> HIDE DEF step
    <3> QED  BY ONLY <1>4, <2>1, IndexedRecursion
  <2>3. f[0] = first /\ \A i \in Nat : f[i + 1] = below(i + 2, f[i])
    BY <2>2 DEF Iterates
  <2> DEFINE walk == [i \in 1 .. n |-> f[i - 1]]
             next == [i \in 1 .. n |-> IF i = 1 THEN first ELSE below(i, walk[i - 1])]
  <2>4. ASSUME NEW i \in 1 .. n
        PROVE  walk[i] = next[i]
    <3>1. CASE i = 1
      BY <2>3, <3>1
    <3>2. CASE i # 1
      <4>1. i - 2 \in Nat /\ (i - 2) + 1 = i - 1 /\ (i - 2) + 2 = i /\ i - 1 \in 1 .. n
            /\ (i - 1) - 1 = i - 2
        BY <3>2
      <4>2. f[i - 1] = below(i, f[i - 2])
        BY <2>3, <4>1
      <4>3. walk[i - 1] = f[i - 2]
        BY <4>1
      <4>4. next[i] = below(i, walk[i - 1]) /\ walk[i] = f[i - 1]
        BY <3>2
      <4> HIDE DEF walk, next
      <4> QED  BY <4>2, <4>3, <4>4
    <3> QED  BY <3>1, <3>2
  <2>5. walk = next
    <3>1. /\ walk = [i \in 1 .. n |-> walk[i]]
          /\ next = [i \in 1 .. n |-> next[i]]
      OBVIOUS
    <3> HIDE DEF walk, next
    <3> QED  BY <2>4, <3>1
  <2>6. Follows(walk)
    BY <2>5
  <2> HIDE DEF walk, Follows
  <2> QED  BY <2>6
<1>7. ASSUME NEW walk, Follows(walk)
      PROVE  walk[n] \in S
  <2>1. /\ walk[1] = first
        /\ \A i \in 2 .. n : walk[i] = below(i, walk[i - 1])
    <3> DEFINE next == [i \in 1 .. n |-> IF i = 1 THEN first ELSE below(i, walk[i - 1])]
    <3>1. walk = next
      BY <1>7
    <3>2. /\ next[1] = first
          /\ \A i \in 2 .. n : next[i] = below(i, walk[i - 1])
      OBVIOUS
    <3> HIDE DEF next, Follows
    <3> QED  BY <3>1, <3>2
  <2> HIDE DEF Follows
  <2> DEFINE P == {i \in Nat : i + 1 <= n => walk[i + 1] \in S}
  <2>2. 0 \in P
    BY <1>4, <2>1
  <2>3. ASSUME NEW i \in P
        PROVE  i + 1 \in P
    <3> SUFFICES ASSUME (i + 1) + 1 <= n
                 PROVE  walk[(i + 1) + 1] \in S
      OBVIOUS
    <3>1. walk[i + 1] \in S
      OBVIOUS
    <3>2. (i + 1) + 1 \in 2 .. n /\ ((i + 1) + 1) - 1 = i + 1
      OBVIOUS
    <3>3. walk[(i + 1) + 1] = below((i + 1) + 1, walk[i + 1])
      BY <2>1, <3>2
    <3> QED  BY <1>5, <3>1, <3>3
  <2>4. P = Nat
    <3>1. P \in SUBSET Nat
      OBVIOUS
    <3> HIDE DEF P
    <3> QED  BY <2>2, <2>3, <3>1, Induction
  <2>5. n - 1 \in Nat /\ (n - 1) + 1 = n
    OBVIOUS
  <2>6. n - 1 \in P
    <3> HIDE DEF P, n
    <3> QED  BY <2>4, <2>5
  <2>7. (n - 1) + 1 <= n => walk[(n - 1) + 1] \in S
    <3> HIDE DEF n
    <3> QED  BY <2>6
  <2> HIDE DEF n
  <2> QED  BY <2>5, <2>7
<1>8. chosen[n] \in S
  <2>1. Follows(chosen)
    <3> HIDE DEF Follows
    <3> QED  BY <1>6
  <2> HIDE DEF Follows, chosen
  <2> QED  BY <1>7, <2>1
<1> QED  BY <1>1, <1>8 DEF S

(* A path that has a part is a path of some length (Pathparser_parse).     *)
LEMMA PartsCounted ==
    ASSUME NEW path \in Paths
    PROVE  /\ Len(Pathparser_parse(path)) \in Nat
           /\ Pathparser_parse(path) # <<>> => Len(Pathparser_parse(path)) \in Nat \ {0}
<1> DEFINE parts == path.parts
           full == {i \in DOMAIN parts : \A j \in 1 .. i : parts[j] # Empty}
           m == Cardinality(full)
<1>1. parts \in Seq(Seq(STRING)) /\ Len(parts) \in Nat /\ DOMAIN parts = 1 .. Len(parts)
  BY VfsAssumption, LenProperties
<1>2. m \in Nat /\ m <= Len(parts)
  <2> DEFINE all == 1 .. Len(parts)
  <2>1. full \in SUBSET all
    BY <1>1
  <2>2. IsFiniteSet(all) /\ Cardinality(all) = Len(parts)
    BY <1>1, FS_Interval
  <2> HIDE DEF full, all
  <2>3. IsFiniteSet(full) /\ Cardinality(full) <= Cardinality(all)
    BY <2>1, <2>2, FS_Subset
  <2>4. Cardinality(full) \in Nat
    BY <2>3, FS_CardinalityType
  <2> QED  BY <2>2, <2>3, <2>4
<1>3. Pathparser_parse(path) = SubSeq(parts, 1, m)
  BY DEF Pathparser_parse
<1> HIDE DEF m, parts
<1>4. SubSeq(parts, 1, m) \in Seq(Seq(STRING))
  <2>1. \A i \in 1 .. m : parts[i] \in Seq(STRING)
    BY <1>1, <1>2, ElementOfSeq
  <2> QED  BY <1>2, <2>1, SubSeqProperties
<1>5. \A s \in Seq(Seq(STRING)) : Len(s) \in Nat /\ (s # <<>> => Len(s) # 0)
  BY EmptySeq, LenProperties
<1> QED  BY <1>3, <1>4, <1>5
(* Every descriptor in use is that of an entry of the disk.                *)
FilesOnDisk ==
    /\ img \in Images
    /\ \A fd \in Fds : /\ fds[fd].pos \in Nat
                       /\ Open(fd) => fds[fd].item \in ItemsOn(img)

LEMMA FilesInvariant == Spec => [](TableShape /\ FilesOnDisk)
<1>1. Init => TableShape /\ FilesOnDisk
  BY DEF Init, TableShape, FilesOnDisk, NoDesc, Open
<1>2. TableShape /\ FilesOnDisk /\ [Next]_vars => TableShape' /\ FilesOnDisk'
  <2> SUFFICES ASSUME TableShape, FilesOnDisk, [Next]_vars
               PROVE  FilesOnDisk'
    BY StepKeepsShape
  <2>1. ASSUME NEW path \in Paths, NEW mode \in {"r", "w", "a"}, fopen(path, mode)
        PROVE  FilesOnDisk'
    <3> DEFINE item == fat16_get_directory_entry(img, Pathparser_parse(path))
               fd == file_new_descriptor(fds)
    <3>1. img' = img
      BY <2>1 DEF fopen
    <3>2. CASE fds' = fds
      BY <3>1, <3>2 DEF FilesOnDisk, Open
    <3>3. CASE fds' # fds
      <4>1. /\ Pathparser_parse(path) # <<>> /\ item # NoItem /\ item # Wild
            /\ fd # Refused
            /\ fds' = [fds EXCEPT ![fd] = [item |-> item, pos |-> 0]]
        BY <2>1, <3>3 DEF fopen
      <4>2. item \in ItemsOn(img)
        BY <4>1, PartsCounted, WalkOnDisk DEF FilesOnDisk
      <4>3. fd \in Fds
        BY <4>1, NewIsFree
      <4> HIDE DEF fd, item
      <4>4. \A e \in Fds : fds'[e] = IF e = fd THEN [item |-> item, pos |-> 0] ELSE fds[e]
        BY <4>1 DEF TableShape
      <4> QED  BY <3>1, <4>2, <4>4 DEF FilesOnDisk, Open
    <3> QED  BY <3>2, <3>3
  <2>2. ASSUME NEW size \in SIZES, NEW nmemb \in 0 .. 2,
               NEW fd \in 0 .. MAX_FILE_DESCRIPTORS, fread(size, nmemb, fd)
        PROVE  FilesOnDisk'
    BY <2>2 DEF fread, FilesOnDisk, Open
  <2>3. ASSUME NEW fd \in Fds, NEW offset \in OFFSETS,
               NEW whence \in {"SEEK_SET", "SEEK_CUR"}, fseek(fd, offset, whence)
        PROVE  FilesOnDisk'
    <3>1. offset \in Nat
      BY VfsAssumption
    <3>2. PICK pos \in Nat : fds' = [fds EXCEPT ![fd].pos = pos]
      <4>1. CASE fds' = [fds EXCEPT ![fd].pos = offset]
        BY <3>1, <4>1
      <4>2. CASE fds' = [fds EXCEPT ![fd].pos = @ + offset]
        <5>1. fds[fd].pos + offset \in Nat
          BY <3>1 DEF FilesOnDisk
        <5>2. fds' = [fds EXCEPT ![fd].pos = fds[fd].pos + offset]
          BY <4>2 DEF TableShape
        <5> QED  BY <5>1, <5>2
      <4> QED  BY <2>3, <4>1, <4>2 DEF fseek
    <3>3. img' = img /\ Open(fd)
      BY <2>3 DEF fseek
    <3>4. \A e \in Fds : e # fd => fds'[e] = fds[e]
      BY <3>2 DEF TableShape
    <3>5. fds'[fd].item = fds[fd].item /\ fds'[fd].pos = pos
      BY <3>2 DEF TableShape
    <3> QED  BY <3>2, <3>3, <3>4, <3>5 DEF FilesOnDisk, Open
  <2>4. CASE UNCHANGED vars
    BY <2>4 DEF vars, FilesOnDisk, Open
  <2> QED  BY <2>1, <2>2, <2>3, <2>4 DEF Next
<1> QED  BY <1>1, <1>2, PTL DEF Spec

(* An entry's size, and the clusters it has.                               *)
LEMMA FileHasChain ==
    ASSUME NEW image \in Images, NEW item \in ItemsOn(image), item.kind = "file", item.size # 0
    PROVE  /\ item.size \in Nat \ {0}
           /\ \E chain : IsChain(chain, image, item)
<1>1. PICK dir \in Directories(image) : item \in {dir[i] : i \in DOMAIN dir}
  BY DEF ItemsOn
<1>2. dir \in Seq(Entries)
  BY VfsAssumption
<1>3. item \in Entries
  BY <1>1, <1>2, LenProperties, ElementOfSeq
<1>4. item.size \in Nat \ {0} /\ item.size > 0
  BY <1>3 DEF Entries
<1> QED  BY <1>4, VfsAssumption

(* Whatever disk, whatever the sizes of its sectors and clusters, whatever *)
(* was read and sought before: a read of bytes that an open file has, in   *)
(* parts that are aligned and within the disk, delivers the file's own     *)
(* bytes (fread, fat16_read, fat16_read_internal_from_stream,              *)
(* disk_streamer_read).                                                    *)
THEOREM AlwaysReadsFile == Spec => []ReadsFile
<1> DEFINE Unread == got = NoRead => ReadsFile
<1>1. Unread /\ Unread'
  BY DEF ReadsFile, ReadInside, NoRead, NoItem, Item
<1>2. Init => ReadsFile
  BY <1>1 DEF Init
<1>3. ReadsFile /\ TableShape /\ FilesOnDisk /\ [Next]_vars => ReadsFile'
  <2> SUFFICES ASSUME ReadsFile, TableShape, FilesOnDisk, [Next]_vars
               PROVE  ReadsFile'
    OBVIOUS
  <2>1. ASSUME NEW path \in Paths, NEW mode \in {"r", "w", "a"}, fopen(path, mode)
        PROVE  ReadsFile'
    BY <1>1, <2>1 DEF fopen
  <2>2. ASSUME NEW size \in SIZES, NEW nmemb \in 0 .. 2,
               NEW fd \in 0 .. MAX_FILE_DESCRIPTORS, fread(size, nmemb, fd)
        PROVE  ReadsFile'
    <3>1. img' = img /\ size \in Nat /\ nmemb \in Nat
      BY <2>2, VfsAssumption DEF fread
    <3> SUFFICES ASSUME ReadInside', Aligned', Reachable'
                 PROVE  /\ got'.out.res = "ok"
                        /\ got'.out.bytes = [j \in 1 .. (got'.size * got'.nmemb) |->
                                               OwnByte(img, got'.item, got'.pos + j - 1)]
      BY <3>1 DEF ReadsFile
    <3> DEFINE item == fds[fd].item
               q == fds[fd].pos
               chain == Chain(img, item)
    <3>2. Open(fd) /\ item.kind = "file" /\ size * nmemb > 0 /\ q + size * nmemb <= item.size
      <4>1. /\ got'.item = IF Open(fd) THEN item ELSE NoItem
            /\ got'.pos = IF Open(fd) THEN q ELSE 0
            /\ got'.size = size
            /\ got'.nmemb = nmemb
        BY <2>2 DEF fread
      <4>2. Open(fd)
        BY <4>1 DEF ReadInside, NoItem, Item
      <4> QED  BY <4>1, <4>2 DEF ReadInside
    <3>3. size \in Nat \ {0} /\ nmemb \in Nat \ {0}
      BY <3>1, <3>2
    <3>4. PICK o \in fat16_read(img, item, q, size, nmemb) :
             got' = [item |-> item, pos |-> q, size |-> size, nmemb |-> nmemb, out |-> o]
      BY <2>2, <3>2, <3>3 DEF fread
    <3>5. img \in Images /\ item \in ItemsOn(img) /\ q \in Nat
      BY <3>2 DEF FilesOnDisk, Open
    <3>6. item.size \in Nat \ {0} /\ IsChain(chain, img, item)
      <4>1. item.size # 0
        BY <3>1, <3>2, <3>5
      <4>2. item.size \in Nat \ {0} /\ \E c : IsChain(c, img, item)
        BY <3>2, <3>5, <4>1, FileHasChain
      <4> HIDE DEF item
      <4> QED  BY <4>2, ChainIs
    <3> HIDE DEF item, q, chain
    <3>7. WholeFile(chain, img, item)
      <4>1. \A i \in DOMAIN chain : i > 0 => chain[i] \notin Stops
        BY <3>1, <3>4 DEF Reachable, chain
      <4> QED  BY <3>5, <3>6, <4>1 DEF WholeFile
    <3>8. ASSUME NEW i \in 1 .. nmemb
          PROVE  fat16_read_internal(img, item.first, q + (i - 1) * size, size)
                    = {Delivered(chain, q + (i - 1) * size, size)}
      <4> DEFINE p == q + (i - 1) * size
      <4>1. p \in Begins'
        BY <3>1, <3>4 DEF Begins
      <4>2. p \in Nat /\ p + size <= item.size
        <5>1. (i - 1) * size + size = i * size /\ i * size <= nmemb * size /\ (i - 1) * size \in Nat
          BY <3>1
        <5> QED  BY <3>1, <3>2, <3>5, <3>6, <5>1
      <4> HIDE DEF p
      <4>3. AlignedAt(p, size)
        BY <3>4, <4>1 DEF Aligned, AlignedAt
      <4>4. \A l \in 0 .. ((size - 1) \div CLUSTER) :
               ~ Hangs(ClusterPos(chain[(p + l * CLUSTER) \div CLUSTER]) + (p % CLUSTER), size - l * CLUSTER)
        BY <3>1, <3>4, <4>1 DEF Reachable, chain
      <4>5. Within(chain, item, p, size)
        BY <3>3, <4>2, <4>4 DEF Within
      <4>6. fat16_read_internal(img, item.first, p, size) = {Delivered(chain, p, size)}
        BY <3>7, <4>3, <4>5, PartRead
      <4> QED  BY <4>6 DEF p
    <3>9. fat16_read(img, item, q, size, nmemb) = {Delivered(chain, q, nmemb * size)}
      <4>1. q \in Nat /\ size \in Nat \ {0} /\ nmemb \in Nat
        BY <3>1, <3>3, <3>5
      <4>2. EachPart(img, item, chain, q, size, nmemb)
        BY <3>8 DEF EachPart
      <4> QED  BY ONLY <4>1, <4>2, PartsRead
    <3>10. o.res = "ok" /\ o.bytes = [j \in 1 .. (nmemb * size) |-> ByteOf(chain, q + j - 1)]
      BY <3>9 DEF Delivered
    <3>11. nmemb * size = size * nmemb
      BY <3>1
    <3>12. \A p : OwnByte(img, item, p) = ByteOf(chain, p)
      BY DEF OwnByte, ByteOf, chain
    <3> QED  BY <3>4, <3>10, <3>11, <3>12
  <2>3. ASSUME NEW fd \in Fds, NEW offset \in OFFSETS,
               NEW whence \in {"SEEK_SET", "SEEK_CUR"}, fseek(fd, offset, whence)
        PROVE  ReadsFile'
    BY <1>1, <2>3 DEF fseek
  <2>4. CASE UNCHANGED vars
    BY <2>4 DEF vars, ReadsFile, ReadInside, Aligned, Begins, Reachable
  <2> QED  BY <2>1, <2>2, <2>3, <2>4 DEF Next
<1> QED  BY <1>2, <1>3, FilesInvariant, PTL DEF Spec
=============================================================================
