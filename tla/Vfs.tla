-------------------------------- MODULE Vfs --------------------------------
(***************************************************************************)
(* The file layer (src/src/fs/file.c with path_parser.c) over the FAT16    *)
(* driver: fopen, fread, fseek and fstat, called by the kernel one at a    *)
(* time in any order.  There is no close.  The memory that the calls take  *)
(* and never return is counted in Process.                                 *)
(***************************************************************************)
EXTENDS Fat16

CONSTANTS Images,           \* the disks the machine may boot with
          Paths,            \* what fopen is called with: a drive and names
          Empty,            \* the name between two separators: none
          MAX_FILE_DESCRIPTORS,
          SIZES,            \* bytes asked of one fread
          OFFSETS,          \* arguments of fseek
          MAX_POS           \* bound: no fseek beyond

(* The clusters of a file, one for each CLUSTER of its bytes: the first is *)
(* in its entry, and each leads to the next through the table.             *)
LastCluster(item) == (item.size - 1) \div CLUSTER

IsChain(chain, image, item) ==
    /\ chain \in [0 .. LastCluster(item) -> DOMAIN image.fat]
    /\ chain[0] = item.first
    /\ \A i \in 1 .. LastCluster(item) : chain[i] = image.fat[chain[i - 1]]

(* The disks were written as FAT16 has it: a directory is where its entry  *)
(* says, and a file has the clusters that its size needs.                  *)
ASSUME VfsAssumption ==
    /\ MAX_FILE_DESCRIPTORS \in Nat \ {0}
    /\ SIZES \cup OFFSETS \subseteq Nat
    /\ \A path \in Paths : path.parts \in Seq(Seq(STRING))
    /\ \A image \in Images :
          /\ DOMAIN image.fat \subseteq Nat
          /\ image.fat \in [DOMAIN image.fat -> Nat]
          /\ Directories(image) \subseteq Seq(Entries)
          /\ \A item \in ItemsOn(image) :
                /\ item.kind = "directory" => item.first \in DOMAIN image.dirs
                /\ item.kind = "file" /\ item.size > 0 =>
                      \E chain \in [0 .. LastCluster(item) -> DOMAIN image.fat] :
                         IsChain(chain, image, item)

VARIABLES img,              \* the disk
          fds,              \* file_descriptors: the item and the position
          hung,             \* a read never came back
          opened,           \* if the last call was fopen: its arguments and
                            \* its result
          got               \* if it was fread: the same

vars == <<img, fds, hung, opened, got>>

Fds    == 1 .. (MAX_FILE_DESCRIPTORS - 1)
NoDesc == [item |-> NoItem, pos |-> 0]
NoOpen == [path |-> [drive |-> -1, parts |-> <<>>], mode |-> "r", res |-> Refused]
NoRead == [item |-> NoItem, pos |-> 0, size |-> 0, nmemb |-> 0, out |-> Failed]

Init == /\ img \in Images
        /\ fds = [fd \in Fds |-> NoDesc]
        /\ hung = FALSE
        /\ opened = NoOpen
        /\ got = NoRead

Open(fd) == fd \in Fds /\ fds[fd] # NoDesc

-----------------------------------------------------------------------------
(* Pathparser_parse: the parts end at the first empty one. *)
Pathparser_parse(path) ==
    LET full == {i \in DOMAIN path.parts : \A j \in 1 .. i : path.parts[j] # Empty}
    IN  SubSeq(path.parts, 1, Cardinality(full))

(* Both later tests are of a negated comparison: every mode but "r" and    *)
(* "w" is taken for write, "w" for append, and none for invalid.           *)
file_mode_get_by_string(mode) ==
    CASE mode = "r" -> "read" [] mode = "w" -> "append" [] OTHER -> "write"

(* Mutant: a descriptor in use is taken. *)
file_new_descriptor_Taken(table) == IF table[1] = NoDesc THEN 1 ELSE Max(DOMAIN table)

(* The first free descriptor, or Refused. *)
file_new_descriptor(table) ==
    LET free == {fd \in Fds : table[fd] = NoDesc}
    IN  IF free = {} THEN Refused ELSE Min(free)

(* fopen: the disk is drive 0, and the driver opens for reading only. *)
fopen(path, mode) ==
    LET parts == Pathparser_parse(path)
        item  == fat16_get_directory_entry(img, parts)
        fd    == file_new_descriptor(fds)
        found == /\ parts # <<>>
                 /\ path.drive = 0
                 /\ file_mode_get_by_string(mode) = "read"
                 /\ item # NoItem
    IN  /\ ~ hung
        /\ found => item # Wild         \* nothing is said of what follows
        /\ IF found /\ fd # Refused
           THEN /\ fds' = [fds EXCEPT ![fd] = [item |-> item, pos |-> 0]]
                /\ opened' = [path |-> path, mode |-> mode, res |-> fd]
           ELSE /\ opened' = [path |-> path, mode |-> mode, res |-> Refused]
                /\ UNCHANGED fds
        /\ got' = NoRead
        /\ UNCHANGED <<img, hung>>

(* fread leaves the position where it was.  A directory is read as if its  *)
(* structure in memory were an entry: from anywhere.                       *)
fread(size, nmemb, fd) ==
    /\ ~ hung
    /\ \E o \in IF size = 0 \/ nmemb = 0 \/ ~ Open(fd) THEN {Failed}
                ELSE IF fds[fd].item.kind = "directory"
                THEN {Failed, Hung, [res |-> "ok", bytes |-> [i \in 1 .. (size * nmemb) |-> Junk]]}
                ELSE fat16_read(img, fds[fd].item, fds[fd].pos, size, nmemb) :
          /\ hung' = (o.res = "hung")
          /\ got' = [item |-> IF Open(fd) THEN fds[fd].item ELSE NoItem,
                     pos  |-> IF Open(fd) THEN fds[fd].pos ELSE 0,
                     size |-> size, nmemb |-> nmemb, out |-> o]
    /\ opened' = NoOpen
    /\ UNCHANGED <<img, fds>>

(* fseek: the offset, not the position it leads to, is compared with the   *)
(* size.                                                                   *)
fseek(fd, offset, whence) ==
    /\ ~ hung
    /\ Open(fd)
    /\ fds[fd].item.kind = "file"
    /\ offset < fds[fd].item.size
    /\ \/ whence = "SEEK_SET" /\ fds' = [fds EXCEPT ![fd].pos = offset]
       \/ /\ whence = "SEEK_CUR"
          /\ fds[fd].pos + offset <= MAX_POS
          /\ fds' = [fds EXCEPT ![fd].pos = @ + offset]
    /\ opened' = NoOpen
    /\ got' = NoRead
    /\ UNCHANGED <<img, hung>>

Next == \/ \E path \in Paths, mode \in {"r", "w", "a"} : fopen(path, mode)
        \/ \E size \in SIZES, nmemb \in 0 .. 2, fd \in 0 .. MAX_FILE_DESCRIPTORS : fread(size, nmemb, fd)
        \/ \E fd \in Fds, offset \in OFFSETS, whence \in {"SEEK_SET", "SEEK_CUR"} :
              fseek(fd, offset, whence)

Spec == Init /\ [][Next]_vars

-----------------------------------------------------------------------------
(* Where the bytes of a file really are: along its chain, to the end mark. *)
Chain(image, item) ==
    LET at[i \in 0 .. LastCluster(item)] ==
            IF i = 0 THEN item.first ELSE image.fat[at[i - 1]]
    IN  at

OwnByte(image, item, q) == ClusterPos(Chain(image, item)[q \div CLUSTER]) + (q % CLUSTER)

(* The last fread was of an open file, and of bytes that the file has. *)
ReadInside ==
    /\ got.item.kind = "file"
    /\ got.size * got.nmemb > 0
    /\ got.pos + got.size * got.nmemb <= got.item.size

(* The positions at which the parts of the last fread begin. *)
Begins == {got.pos + i * got.size : i \in 0 .. (got.nmemb - 1)}

(* A part begins with a cluster, or with a sector and stays in its         *)
(* cluster, or stays in a sector.                                          *)
Aligned ==
    \A q \in Begins :
        \/ q % CLUSTER = 0
        \/ q % SECTOR = 0 /\ (q % CLUSTER) + got.size <= CLUSTER
        \/ (q % SECTOR) + got.size <= SECTOR

(* No cluster of the file has one of the numbers that the driver takes for *)
(* an end or a bad sector, and none is so near to the end of the disk that *)
(* the rest of the read, streamed from it, would run off.                  *)
Reachable ==
    LET on(q, i) == Chain(img, got.item)[(q + i * CLUSTER) \div CLUSTER]
    IN  /\ \A i \in DOMAIN Chain(img, got.item) : i > 0 => Chain(img, got.item)[i] \notin Stops
        /\ \A q \in Begins, i \in 0 .. ((got.size - 1) \div CLUSTER) :
              ~ Hangs(ClusterPos(on(q, i)) + (q % CLUSTER), got.size - i * CLUSTER)

(* A read delivers the file's own bytes, whatever clusters they are in and *)
(* whoever read or sought before through the one shared stream             *)
(* (fat16_read_internal_from_stream, disk_streamer_read).                  *)
ReadsFile ==
    ReadInside /\ Aligned /\ Reachable =>
        /\ got.out.res = "ok"
        /\ got.out.bytes = [j \in 1 .. (got.size * got.nmemb) |->
                              OwnByte(img, got.item, got.pos + j - 1)]

(* fat16.c says of the place where a read gives up "We are at the last     *)
(* entry in the file": a read of bytes that the file has does not fail.    *)
FailsOnlyAtEnd == ReadInside => got.out.res # "failed"

FullName(item) == item.base \o (IF item.ext = <<>> THEN <<>> ELSE <<".">> \o item.ext)

(* The last fopen asked to read an entry of the root directory. *)
Asked(item) ==
    /\ opened.mode = "r"
    /\ opened.path.drive = 0
    /\ item # Deleted
    /\ Pathparser_parse(opened.path) = <<FullName(item)>>

(* It was opened, or every descriptor but the first was already in use: the *)
(* last one of the table serves like the others.                           *)
Opened(item) == IF opened.res = Refused
                THEN \A fd \in 1 .. (MAX_FILE_DESCRIPTORS - 1) : Open(fd)
                ELSE fds[opened.res].item = item

(* fat16.c of fat16_find_item_in_directory: "it finds file presnet in      *)
(* directory pass to it".                                                  *)
FindsPresent == \A i \in DOMAIN img.root : Asked(img.root[i]) => Opened(img.root[i])

(* The driver can spell the name: it leaves room in its field, or has no   *)
(* extension for the field to run into.                                    *)
Fits(item) == Len(item.base) < NAME_LEN \/ item.ext = <<>>

(* The entry i is within the search, no more entries before it being       *)
(* deleted than there are live ones behind it, and it is the last to match. *)
Unhidden(dir, i) ==
    /\ Fits(dir[i])
    /\ Cardinality({j \in 1 .. (i - 1) : dir[j] = Deleted})
          <= Cardinality({j \in (i + 1) .. Len(dir) : dir[j] # Deleted})
    /\ \A j \in (i + 1) .. Len(dir) :
          Fits(dir[j]) /\ ~ IsPrefix(FullName(dir[i]), FullName(dir[j]))

(* It does find every file that is not hidden so, whatever else is in the  *)
(* directory (fat16_find_item_in_directory, fat16_get_relative_path_name). *)
FindsUnlessHidden ==
    \A i \in DOMAIN img.root : Asked(img.root[i]) /\ Unhidden(img.root, i) => Opened(img.root[i])

(* A descriptor, once given out, is its file's for ever, and a call moves  *)
(* the position of one descriptor at most (file_new_descriptor,            *)
(* fat16_seek).                                                            *)
DescriptorsKept ==
    [][/\ \A fd \in Fds : Open(fd) => fds'[fd].item = fds[fd].item
       /\ Cardinality({fd \in Fds : fds'[fd] # fds[fd]}) <= 1]_vars
=============================================================================
