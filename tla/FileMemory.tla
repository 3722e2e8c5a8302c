----------------------------- MODULE FileMemory -----------------------------
(***************************************************************************)
(* The memory behind the files: mounting (disk_search_init, fat16_resolve) *)
(* and fopen (src/src/fs/file.c with path_parser.c and fat16.c), with each *)
(* request they make of the kernel heap, in their order, and each release. *)
(* What the calls find on the disk is Fat16's, and what is read through a  *)
(* descriptor Vfs's; here are the structures they build.                   *)
(*                                                                         *)
(* Structures of at most a page are taken with the size 1.  A part of a    *)
(* path whose name could not be stored (its kzalloc refused) is followed   *)
(* by no other part, and fat16_open's first request is refused too: the    *)
(* name is never read.  A null item or directory is read in page 0, which  *)
(* the refused kzalloc has just cleared: an item that is a directory, and  *)
(* a directory without entries.                                            *)
(***************************************************************************)
EXTENDS Fat16, Kheap

CONSTANTS Images,           \* the disks: Fat16's, with signed, whether they
                            \* bear FAT16's signature, and bad, the first
                            \* clusters of directories that cannot be read
          Paths,            \* what fopen is called with: a drive and names
          Empty,            \* the name between two separators: none
          MAX_FILE_DESCRIPTORS,
          ENTRY,            \* bytes of a directory entry: 32
          ROOT_BYTES,       \* bytes of the sectors of the root directory
          SIZES,            \* sizes of what the rest of the kernel requests
          MAX_CALLS         \* bound on calls

ASSUME FileMemoryAssumption ==
    /\ MAX_FILE_DESCRIPTORS \in Nat \ {0}
    /\ ENTRY \in Nat \ {0}
    /\ ROOT_BYTES \in Nat \ {0}
    /\ SIZES \subseteq Nat \ {0}
    /\ MAX_CALLS \in Nat
    /\ \A size \in SIZES : BlocksFor(size) <= RESERVED_BLOCKS
    /\ Empty \in Seq(STRING)
    /\ \A path \in Paths : path.parts \in Seq(Seq(STRING))
    /\ \A image \in Images :
          /\ <<>> \notin Range(image.dirs)
          /\ Directories(image) \subseteq Seq(Entries)
          /\ \A item \in ItemsOn(image) :
                item.kind = "directory" => item.first \in DOMAIN image.dirs
    /\ \* memory enough to mount: it happens first
       5 + BlocksFor(ROOT_BYTES) < SYSTEM_BLOCKS - RESERVED_BLOCKS

VARIABLES img,              \* the disk
          h,                \* the heap
          mount,            \* the disk's structures, by name
          fds,              \* file_descriptors: the structures of each
          elsewhere,        \* history: the blocks of the rest of the kernel
          opened,           \* history: the last call of fopen
          calls             \* history: how many calls there were

vars == <<img, h, mount, fds, elsewhere, opened, calls>>

Fds == 1 .. (MAX_FILE_DESCRIPTORS - 1)

(* A fat_item, with what it points to: the clone of an entry (file), or a  *)
(* directory and its entries.  of is the entry it was made for.            *)
NullItem == [addr |-> NULL, entry |-> NULL, directory |-> NULL, items |-> NULL, of |-> NoItem]

NoDesc == [addr |-> NULL, private |-> NULL, item |-> NullItem]

NotMounted == [private |-> NULL, streams |-> {}, root |-> NULL]

NoOpen == [path |-> [drive |-> -1, parts |-> <<>>], mode |-> "r", res |-> Refused,
           kept |-> 0, starved |-> FALSE, tabled |-> FALSE]

Init == /\ img \in Images
        /\ h = kheap_init
        /\ mount = NotMounted
        /\ fds = [fd \in Fds |-> NoDesc]
        /\ elsewhere = {}
        /\ opened = NoOpen
        /\ calls = 0

-----------------------------------------------------------------------------
(***************************************************************************)
(* A call in progress, w, is the heap and whether a request was refused.   *)
(***************************************************************************)
Answered(w, r) ==
    [w |-> [h |-> r.h, starved |-> w.starved \/ r.addr = NULL], addr |-> r.addr]

kzalloc(w, size) == Answered(w, kmallac(w.h, size))

Release(w, a) == [w EXCEPT !.h = kfree(@, a)]

(* An empty part gives its structure back, but not its name. *)
pathparser_get_path_part(w, name) ==
    LET part == kzalloc(w, 1)
        text == kzalloc(part.w, 1)
    IN  IF name = Empty
        THEN [w |-> Release(text.w, part.addr), addr |-> NULL]
        ELSE [w |-> text.w, addr |-> part.addr]

(* Parts are taken until one is null; behind the last comes an empty one.  *)
Pathparser_parse(w, names) ==
    LET all == Append(names, Empty)
        take(p, name) ==
            LET part == pathparser_get_path_part(p.w, name)
            IN  IF p.ended THEN p
                ELSE IF part.addr = NULL THEN [p EXCEPT !.w = part.w, !.ended = TRUE]
                ELSE [p EXCEPT !.w = part.w, !.parts = Append(@, name)]
        p[i \in 0 .. Len(all)] ==
            IF i = 0 THEN [w |-> w, parts |-> <<>>, ended |-> FALSE] ELSE take(p[i - 1], all[i])
    IN  p[Len(all)]

(* Mutant: the entries stay. *)
fat16_free_directory_Entries(w, directory, items) ==
    IF directory = NULL THEN w ELSE Release(w, directory)

fat16_free_directory(w, directory, items) ==
    IF directory = NULL THEN w ELSE Release(Release(w, items), directory)

fat16_load_directory(w, of) ==
    LET directory == kzalloc(w, 1)
        items     == kzalloc(directory.w, TotalItems(img.dirs[of.first]) * ENTRY)
        none      == [w |-> items.w, directory |-> NULL, items |-> NULL]
    IN  IF directory.addr = NULL THEN [none EXCEPT !.w = directory.w]
        ELSE IF items.addr = NULL THEN none
        ELSE IF of.first \in img.bad
        THEN [none EXCEPT !.w = fat16_free_directory(@, directory.addr, items.addr)]
        ELSE [w |-> items.w, directory |-> directory.addr, items |-> items.addr]

(* Mutant: no copy, the entry where it lies in its directory. *)
fat16_clone_directory_item_Shared(w, from) == [w |-> w, addr |-> from]

fat16_clone_directory_item(w, from) == kzalloc(w, 1)

(* from is where the directory that holds the entry lies. *)
fat16_new_fat_item(w, of, from) ==
    LET item == kzalloc(w, 1)
        to(loaded) ==
            [w |-> loaded.w,
             item |-> [NullItem EXCEPT !.addr = item.addr, !.of = of,
                                       !.directory = loaded.directory,
                                       !.items = loaded.items]]
        with(clone) ==
            [w |-> clone.w,
             item |-> [NullItem EXCEPT !.addr = item.addr, !.of = of, !.entry = clone.addr]]
    IN  IF item.addr = NULL THEN [w |-> item.w, item |-> NullItem]
        ELSE IF of.kind = "directory"
        THEN to(fat16_load_directory(item.w, of))
        ELSE with(fat16_clone_directory_item(item.w, from))

(* The entries that fat16_find_item_in_directory takes for the one asked. *)
Matching(dir, name) == {i \in 1 .. TotalItems(dir) : IsPrefix(name, RelativeName(dir[i]))}

(* An item is made for each of them; the last is the result. *)
FindItem(w, dir, from, name) ==
    LET f[i \in 0 .. TotalItems(dir)] ==
            IF i = 0 THEN [w |-> w, item |-> NullItem]
            ELSE IF i \in Matching(dir, name) THEN fat16_new_fat_item(f[i - 1].w, dir[i], from)
            ELSE f[i - 1]
    IN  f[TotalItems(dir)]

fat16_fat_item_free(w, item) ==
    IF item.of.kind = "file"
    THEN Release(Release(w, item.entry), item.addr)
    ELSE Release(fat16_free_directory(w, item.directory, item.items), item.addr)

(* Down the parts of the path.  A file before the last part ends the walk  *)
(* and is forgotten.                                                       *)
GetDirectoryEntry(w, parts) ==
    LET entries(item) == IF item.directory = NULL THEN <<>> ELSE img.dirs[item.of.first]
        begun(top) == [w |-> top.w, item |-> top.item, ended |-> top.item = NullItem]
        behind(d, found) == [d EXCEPT !.w = fat16_fat_item_free(found.w, d.item), !.item = found.item]
        down(d, name) ==
            CASE d.ended -> d
              [] ~ d.ended /\ d.item.of.kind = "file" -> [d EXCEPT !.item = NullItem, !.ended = TRUE]
              [] OTHER -> behind(d, FindItem(d.w, entries(d.item), d.item.items, name))
        d[i \in 1 .. Len(parts)] ==
            IF i = 1 THEN begun(FindItem(w, img.root, mount.root, parts[1])) ELSE down(d[i - 1], parts[i])
    IN  d[Len(parts)]

(* Mutant: what the first search made is freed once the second is over.    *)
fat16_open_FirstFreed(w, parts) ==
    LET private == kzalloc(w, 1)
        first   == GetDirectoryEntry(private.w, parts)
        second  == GetDirectoryEntry(first.w, parts)
    IN  IF private.addr = NULL
        THEN [w |-> private.w, addr |-> NULL, item |-> NullItem]
        ELSE [w |-> fat16_fat_item_free(second.w, first.item), addr |-> private.addr,
              item |-> second.item]

(* The entry is looked for twice; what the first search made is forgotten. *)
fat16_open(w, parts) ==
    LET private == kzalloc(w, 1)
        opened_at(second) == [w |-> second.w, addr |-> private.addr, item |-> second.item]
    IN  IF private.addr = NULL
        THEN [w |-> private.w, addr |-> NULL, item |-> NullItem]
        ELSE opened_at(GetDirectoryEntry(GetDirectoryEntry(private.w, parts).w, parts))

-----------------------------------------------------------------------------
(* disk_search_init, once, before anything else asks for memory: the       *)
(* structure, its three streams and the one that reads the header.  A disk *)
(* without the signature has no filesystem, and the five are forgotten.    *)
disk_search_init ==
    LET private       == kmallac(h, 1)
        cluster_read  == kmallac(private.h, 1)
        fat_read      == kmallac(cluster_read.h, 1)
        directory     == kmallac(fat_read.h, 1)
        head_streamer == kmallac(directory.h, 1)
        root          == kmallac(head_streamer.h, ROOT_BYTES)
    IN  /\ h = kheap_init
        /\ IF img.signed
           THEN /\ h' = kfree(root.h, head_streamer.addr)
                /\ mount' = [private |-> private.addr,
                             streams |-> {cluster_read.addr, fat_read.addr, directory.addr},
                             root    |-> root.addr]
           ELSE h' = head_streamer.h /\ UNCHANGED mount
        /\ UNCHANGED <<img, fds, elsewhere, opened, calls>>

Mounted == mount # NotMounted

(* The names down to the first empty one. *)
Names(path) ==
    LET full == {i \in DOMAIN path.parts : \A j \in 1 .. i : path.parts[j] # Empty}
    IN  SubSeq(path.parts, 1, Cardinality(full))

(* The null pointers that nothing is said of: see Fat16's Wild.  The same  *)
(* goes for what is looked for in a directory that cannot be read.         *)
Followable(names) ==
    /\ fat16_get_directory_entry(img, names) # Wild
    /\ \A i \in 1 .. (Len(names) - 1) :
          fat16_get_directory_entry(img, SubSeq(names, 1, i)).first \notin img.bad

(* The first free number, or Refused. *)
file_new_descriptor ==
    LET free == {fd \in Fds : fds[fd] = NoDesc} IN IF free = {} THEN Refused ELSE Min(free)

fopen(path, mode) ==
    /\ calls < MAX_CALLS
    /\ h # kheap_init
    /\ \E root \in {kzalloc([h |-> h, starved |-> FALSE], 1)} :
       \E p \in {Pathparser_parse(root.w, path.parts)} :
       LET fd    == file_new_descriptor
           asked == /\ root.addr # NULL
                    /\ p.parts # <<>>
                    /\ path.drive = 0
                    /\ Mounted
                    /\ mode = "r"
           Returns(w, res) ==
               /\ h' = w.h
               /\ opened' = [path |-> path, mode |-> mode, res |-> res,
                             kept |-> Cardinality(w.h.map) - Cardinality(h.map),
                             starved |-> w.starved,
                             tabled |-> Cardinality({i \in Slots : h.big[i] = EmptyEntry}) >= 3]
           \* the descriptor's own structure may be null: its number is
           \* returned, the table stays as it was
           Described(o, desc) ==
               /\ Returns(desc.w, fd)
               /\ fds' = IF desc.addr = NULL THEN fds
                         ELSE [fds EXCEPT ![fd] = [addr |-> desc.addr, private |-> o.addr, item |-> o.item]]
       IN  \/ ~ asked /\ Returns(p.w, Refused) /\ UNCHANGED fds
           \/ /\ asked
              /\ Followable(Names(path))
              /\ \E o \in {fat16_open(p.w, p.parts)} :
                    IF o.addr = NULL \/ o.item = NullItem \/ fd = Refused
                    THEN Returns(o.w, Refused) /\ UNCHANGED fds
                    ELSE Described(o, kzalloc(o.w, 1))
    /\ calls' = calls + 1
    /\ UNCHANGED <<img, mount, elsewhere>>

(* Any request that the rest of the kernel may make of the heap.  It never  *)
(* gives back what it takes.                                               *)
Elsewhere(size) ==
    LET r == kmallac(h, size)
    IN  /\ calls < MAX_CALLS
        /\ h # kheap_init
        /\ h' = r.h
        /\ elsewhere' = IF r.addr = NULL THEN elsewhere
                        ELSE elsewhere \cup Area(r.addr, BlocksFor(size))
        /\ opened' = NoOpen
        /\ calls' = calls + 1
        /\ UNCHANGED <<img, mount, fds>>

Next == \/ disk_search_init
        \/ \E path \in Paths, mode \in {"r", "w"} : fopen(path, mode)
        \/ \E size \in SIZES : Elsewhere(size)

Spec == Init /\ [][Next]_vars

-----------------------------------------------------------------------------
FatItem == [addr : Nat, entry : Nat, directory : Nat, items : Nat,
            of : ItemsOn(img) \cup {NoItem}]

(* Every structure keeps its type, and the count of free blocks is never   *)
(* taken below zero; that of used blocks may be, by releases of the null   *)
(* pointer (pmm_allocate_first_n_blocks, kfree).                           *)
TypeOK ==
    /\ img \in Images
    /\ h \in [map : SUBSET Nat, used : Int, free : Nat, big : [Slots -> Entry]]
    /\ mount \in [private : Nat, streams : SUBSET Nat, root : Nat]
    /\ fds \in [Fds -> [addr : Nat, private : Nat, item : FatItem]]
    /\ elsewhere \in SUBSET Nat
    /\ calls \in 0 .. MAX_CALLS
    /\ opened \in [path : Paths \cup {NoOpen.path}, mode : {"r", "w"}, res : Fds \cup {Refused},
                   kept : Int, starved : BOOLEAN, tabled : BOOLEAN]

ItemBlocks(item) ==
    ({item.addr, item.entry, item.directory} \ {NULL})
      \cup IF item.items = NULL THEN {}
           ELSE Area(item.items, BlocksFor(TotalItems(img.dirs[item.of.first]) * ENTRY))

DescBlocks(fd) ==
    IF fds[fd] = NoDesc THEN {} ELSE {fds[fd].addr, fds[fd].private} \cup ItemBlocks(fds[fd].item)

MountBlocks ==
    IF Mounted THEN {mount.private} \cup mount.streams \cup Area(mount.root, BlocksFor(ROOT_BYTES))
    ELSE {}

(* What fopen leaves to a descriptor, the mounted disk's structures and    *)
(* the memory of the rest of the kernel have no block in common, and none  *)
(* of their blocks is free for the next request, though the walk down a    *)
(* path frees each directory behind it (fat16_get_directory_entry,         *)
(* fat16_clone_directory_item).                                            *)
NothingShared ==
    /\ \A fd \in Fds : /\ DescBlocks(fd) \cap (MountBlocks \cup elsewhere) = {}
                       /\ \A other \in Fds \ {fd} : DescBlocks(fd) \cap DescBlocks(other) = {}
    /\ MountBlocks \cap elsewhere = {}
    /\ (UNION {DescBlocks(fd) : fd \in Fds}) \cup MountBlocks \cup elsewhere
          \subseteq h.map \ Reserved

(* No two entries of a directory are taken for the same name, and none     *)
(* that is deleted.                                                        *)
Unambiguous(names) ==
    \A dir \in Directories(img), name \in Range(names) :
        /\ Cardinality(Matching(dir, name)) <= 1
        /\ \A i \in Matching(dir, name) : dir[i].kind # "deleted"

(* What a search for the names leaves behind: an item with its entry or    *)
(* its directory, for a path that goes on behind a file the file's.        *)
Left(names) ==
    LET item == fat16_get_directory_entry(img, names)
    IN  CASE item.kind = "directory" ->
                 IF item.first \in img.bad THEN 1
                 ELSE 2 + BlocksFor(TotalItems(img.dirs[item.first]) * ENTRY)
          [] item.kind = "file" -> 2
          [] OTHER -> IF \E i \in 1 .. (Len(names) - 1) :
                            fat16_get_directory_entry(img, SubSeq(names, 1, i)).kind = "file"
                      THEN 2 ELSE 0

(* Unless memory or the table of big blocks runs out, an open keeps for    *)
(* ever exactly: two blocks for each name of the path and two more, one    *)
(* for the descriptor's private part, what two searches leave, and one for *)
(* the descriptor.  For a file in the root directory these are the ten     *)
(* blocks of Process, five if it is missing.  No directory met on the way  *)
(* stays (fopen and everything it calls).                                  *)
OpenKeeps ==
    opened # NoOpen /\ opened.tabled /\ ~ opened.starved /\ Unambiguous(Names(opened.path)) =>
        LET names == Names(opened.path)
            asked == names # <<>> /\ opened.path.drive = 0 /\ Mounted /\ opened.mode = "r"
        IN  opened.kept = 2 * Len(names) + 2
                            + (IF asked THEN 1 + 2 * Left(names) ELSE 0)
                            + (IF opened.res # Refused THEN 1 ELSE 0)

(* However little memory is left, an open of a file in the root directory  *)
(* that returns a descriptor has filled it in completely, or has stored    *)
(* none, so that every later call on its number fails (fopen,              *)
(* file_new_descriptor, fat16_new_fat_item_directory_item).                *)
RootFileWhole ==
    opened.res # Refused /\ Len(Names(opened.path)) = 1 =>
        LET desc == fds[opened.res]
        IN  \/ desc = NoDesc /\ opened.starved
            \/ /\ desc.item.of = fat16_get_directory_entry(img, Names(opened.path))
               /\ desc.item.of.kind = "file" => desc.item.entry # NULL
=============================================================================
