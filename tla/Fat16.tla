------------------------------- MODULE Fat16 -------------------------------
(***************************************************************************)
(* The FAT16 driver (src/src/fs/fat16/fat16.c) and the disk streamer it    *)
(* reads through (src/src/disk/streamer.c) as operators.  A disk is a      *)
(* record img that the kernel never writes:                                *)
(*                                                                         *)
(*   root   the entries of the root directory, up to its end mark          *)
(*   dirs   those of the directory that starts at a cluster                *)
(*   fat    the file allocation table, by cluster                          *)
(*                                                                         *)
(* What a byte holds is its position on the disk; Junk is a byte that no   *)
(* read put there.                                                         *)
(***************************************************************************)
EXTENDS Integers, Sequences, SequencesExt, FiniteSetsExt

CONSTANTS SECTOR,           \* bytes of a sector: 512
          CLUSTER,          \* bytes of a cluster, a multiple of it
          DATA,             \* first sector of cluster 2 (ending_sector_pos)
          DISK_SECTORS,
          NAME_LEN,         \* characters of a name before its extension: 8
          Stops,            \* FAT entries at which the driver gives up: 0 and
                            \* 0xFF0, 0xFF6, 0xFF7, 0xFF8, 0xFFF
          Junk

Refused == -1               \* what a function that fails returns

ASSUME Fat16Assumption ==
    /\ {SECTOR, CLUSTER, DATA, DISK_SECTORS, NAME_LEN} \subseteq Nat \ {0}
    /\ CLUSTER % SECTOR = 0
    /\ Stops \subseteq Nat

(* An entry of a directory: a name in two parts, "file" or "directory",    *)
(* the first cluster and the size in bytes.  The first stands for deleted  *)
(* entries (0xE5), the others are results of a search: the null pointer,   *)
(* and whatever lies behind one.                                           *)
Item(base, ext, kind, first, size) ==
    [base |-> base, ext |-> ext, kind |-> kind, first |-> first, size |-> size]

Entries == [base : Seq(STRING), ext : Seq(STRING), kind : {"file", "directory", "deleted"},
            first : Nat, size : Nat]

Deleted == Item(<<"0xE5">>, <<>>, "deleted", 0, 0)
NoItem  == Item(<<>>, <<>>, "none", 0, 0)
Wild    == Item(<<>>, <<>>, "wild", 0, 0)

(* The directories of a disk, and what is in them. *)
Directories(image) == {image.root} \cup {image.dirs[c] : c \in DOMAIN image.dirs}

ItemsOn(image) == UNION {{dir[i] : i \in DOMAIN dir} : dir \in Directories(image)}

-----------------------------------------------------------------------------
(* disk_streamer_read: one sector at a time, each from the offset where    *)
(* the first began.  Behind the sector lies the stack.                     *)
disk_streamer_read(pos, total) ==
    [i \in 1 .. total |-> IF (pos % SECTOR) + ((i - 1) % SECTOR) < SECTOR
                          THEN pos + i - 1
                          ELSE Junk]

(* The disk has no such sector: disk_read_sectors waits for its data for   *)
(* ever.                                                                   *)
Hangs(pos, total) == (pos \div SECTOR) + ((total + SECTOR - 1) \div SECTOR) > DISK_SECTORS

(* fat16_cluster_to_sector, as a byte position. *)
ClusterPos(c) == DATA * SECTOR + (c - 2) * CLUSTER

(* An entry read from outside the table is anything: a stop, a cluster of   *)
(* whatever file, or no cluster.                                           *)
fat16_get_fat_entry(img, c) ==
    IF c \in DOMAIN img.fat THEN {img.fat[c]} ELSE Stops \cup DOMAIN img.fat \cup {c}

(* The cluster of an offset, or Refused; more than one only once the chain *)
(* has run through its end mark, which is not one of the Stops.            *)
fat16_get_cluster_for_offset(img, first, offset) ==
    LET at[i \in 0 .. (offset \div CLUSTER)] ==
            IF i = 0 THEN {first}
            ELSE UNION {IF c = Refused
                        THEN {Refused}
                        ELSE {IF e \in Stops THEN Refused ELSE e :
                                 e \in fat16_get_fat_entry(img, c)} : c \in at[i - 1]}
    IN  at[offset \div CLUSTER]

Failed == [res |-> "failed", bytes |-> <<>>]
Hung   == [res |-> "hung", bytes |-> <<>>]

(* Mutant: every cluster is read from its start. *)
fat16_read_internal_FromStart(img, first, offset, total) ==
    LET levels == 0 .. ((total - 1) \div CLUSTER)
        at(i)  == fat16_get_cluster_for_offset(img, first, offset + i * CLUSTER)
        pick   == {f \in [levels -> UNION {at(i) : i \in levels}] : \A i \in levels : f[i] \in at(i)}
        read(f, i) == disk_streamer_read(ClusterPos(f[i]), total - i * CLUSTER)
    IN  {IF \E i \in levels : f[i] = Refused THEN Failed
         ELSE [res |-> "ok",
               bytes |-> [j \in 1 .. total |->
                            read(f, (j - 1) \div CLUSTER)[((j - 1) % CLUSTER) + 1]]] : f \in pick}

(* The possible outcomes of a read.  Level i of the recursion streams all  *)
(* that is left, from the cluster of its own offset on; the next level     *)
(* writes over what lies a cluster further on.                             *)
fat16_read_internal(img, first, offset, total) ==
    LET levels == 0 .. ((total - 1) \div CLUSTER)
        at(i)  == fat16_get_cluster_for_offset(img, first, offset + i * CLUSTER)
        pick   == {f \in [levels -> UNION {at(i) : i \in levels}] : \A i \in levels : f[i] \in at(i)}
        pos(f, i)  == ClusterPos(f[i]) + (offset % CLUSTER)
        left(i)    == total - i * CLUSTER
        read(f, i) == disk_streamer_read(pos(f, i), left(i))
        stop(f, i) == f[i] = Refused \/ Hangs(pos(f, i), left(i))
    IN  {IF \E i \in levels : stop(f, i)
         THEN LET i == Min({l \in levels : stop(f, l)})
              IN  IF f[i] = Refused THEN Failed ELSE Hung
         ELSE [res |-> "ok",
               bytes |-> [j \in 1 .. total |->
                            read(f, (j - 1) \div CLUSTER)[((j - 1) % CLUSTER) + 1]]] : f \in pick}

(* nmemb reads one behind the other, until one fails. *)
fat16_read(img, item, pos, size, nmemb) ==
    LET run[i \in 0 .. nmemb] ==
            IF i = 0 THEN {[res |-> "ok", bytes |-> <<>>]}
            ELSE UNION {IF o.res # "ok" THEN {o}
                        ELSE {[p EXCEPT !.bytes = o.bytes \o @] :
                                 p \in fat16_read_internal(img, item.first, pos + (i - 1) * size, size)} :
                        o \in run[i - 1]}
    IN  run[nmemb]

-----------------------------------------------------------------------------
(* fat16_get_total_items_for_directory: deleted entries are not counted. *)
TotalItems(dir) == Cardinality({i \in DOMAIN dir : dir[i] # Deleted})

(* fat16_get_relative_path_name: a name that fills its field runs on into  *)
(* the extension behind it.  The attribute is that of an ordinary file,    *)
(* which ends a full extension.                                            *)
RelativeName(item) ==
    LET base == IF Len(item.base) = NAME_LEN THEN item.base \o item.ext ELSE item.base
    IN  IF item.ext = <<>> THEN base ELSE base \o <<".">> \o item.ext

(* Mutant: the scan ends one early. *)
fat16_find_item_in_directory_Short(dir, name) ==
    LET match == {i \in 1 .. (TotalItems(dir) - 1) : IsPrefix(name, RelativeName(dir[i]))}
    IN  IF match = {} THEN NoItem ELSE dir[Max(match)]

(* Among as many entries as the directory has items that are not deleted,  *)
(* the last whose name begins with the one asked for.                      *)
fat16_find_item_in_directory(dir, name) ==
    LET match == {i \in 1 .. TotalItems(dir) : IsPrefix(name, RelativeName(dir[i]))}
    IN  IF match = {} THEN NoItem ELSE dir[Max(match)]

(* fat16_get_directory_entry: down the parts of a path, each but the first *)
(* from the directory before it.  A part that is missing before the last   *)
(* is a null pointer whose fields the loop reads next.                     *)
fat16_get_directory_entry(img, parts) ==
    LET walk[i \in 1 .. Len(parts)] ==
            IF i = 1 THEN fat16_find_item_in_directory(img.root, parts[1])
            ELSE LET up   == walk[i - 1]
                     item == fat16_find_item_in_directory(img.dirs[up.first], parts[i])
                 IN  CASE up.kind = "directory" ->
                              IF item = NoItem /\ i < Len(parts) THEN Wild ELSE item
                       [] up.kind = "file" -> NoItem
                       [] OTHER -> up
    IN  walk[Len(parts)]
=============================================================================
