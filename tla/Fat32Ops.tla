------------------------------ MODULE Fat32Ops ------------------------------
(***************************************************************************)
(* The FAT32 driver's view of the disk (kernel/fs/fat32.c) as operators on *)
(* a disk d: the two copies of the FAT and the sectors of the data area.   *)
(* A cluster is one sector, as tools/mkdisk.c makes it, and a sector holds *)
(* SlotsPerCluster cells: directory slots, or that many pieces of a file.  *)
(***************************************************************************)
EXTENDS Integers, Sequences, FiniteSets, FiniteSetsExt

CONSTANTS
  SlotsPerCluster,   \* directory slots, and pieces of a file, in one cluster
  LastCluster,       \* the last cluster the data area has room for
  FatEntries,        \* number of entries in the FAT; it may exceed the data area
  EntriesPerSector,  \* FAT entries in one sector (128 on the disk)
  ShortNames,        \* the names that fit the 8.3 pattern
  MaxDepth           \* bound on the depth of the directory tree that is looked at

ASSUME Fat32Assumption ==
  /\ SlotsPerCluster \in Nat /\ SlotsPerCluster >= 2
  /\ LastCluster \in Nat /\ LastCluster >= 2
  /\ FatEntries \in Nat /\ FatEntries > LastCluster
  /\ EntriesPerSector \in Nat /\ EntriesPerSector > 0
  /\ MaxDepth \in Nat

Root     == 2              \* volume.root_cluster
Clusters == 2..LastCluster \* the clusters that exist on the disk
Garbage  == 1              \* a FAT entry overwritten with file data
END      == FatEntries     \* stands for every value from FAT32_CLUSTER_END up

(***************************************************************************)
(* A cell of a data sector.  A directory slot is never used (first byte 0),*)
(* deleted (0xE5), a dot entry, or an entry; anything else is file data,   *)
(* which in a directory shows as a name nobody asked for.                  *)
(***************************************************************************)
Empty   == [kind |-> "empty"]
Deleted == [kind |-> "deleted"]
Dot     == [kind |-> "dot"]
Byte(b) == [kind |-> "byte", byte |-> b]
Entry(name, dir, first, size) ==
  [kind |-> "entry", name |-> name, dir |-> dir, first |-> first, size |-> size]

Blank == [i \in 1..SlotsPerCluster |-> Empty]

\* The disk as tools/mkdisk.c leaves it: an empty root directory.
FreshFat  == [c \in 0..(FatEntries - 1) |-> IF c <= Root THEN END ELSE 0]
FreshDisk == [fat1 |-> FreshFat, fat2 |-> FreshFat, data |-> [c \in Clusters |-> Blank]]

----------------------------------------------------------------------------
(***************************************************************************)
(* The FAT.  Only the first copy is ever read.                             *)
(***************************************************************************)
is_end_cluster(c) == c >= END
Stops(c)          == c < 2 \/ is_end_cluster(c)

\* The clusters of the chain that starts at c.
Chain(d, c) ==
  LET link[i \in 1..FatEntries] ==
        IF i = 1 THEN c ELSE IF Stops(link[i - 1]) THEN END ELSE d.fat1[link[i - 1]]
  IN  SubSeq(link, 1, Cardinality({i \in 1..FatEntries : ~Stops(link[i])}))

\* The clusters fat32_write_status visits: it only stops at an end mark.
FileChain(d, c) ==
  LET link[i \in 1..FatEntries] ==
        IF i = 1 THEN c ELSE IF is_end_cluster(link[i - 1]) THEN END ELSE d.fat1[link[i - 1]]
  IN  SubSeq(link, 1, Cardinality({i \in 1..FatEntries : ~is_end_cluster(link[i])}))

SameSector(c, e) == c \div EntriesPerSector = e \div EntriesPerSector

\* The sector of FAT copy 1 that holds c's entry, with v stored there.
FatSector(d, c, v) ==
  [e \in {x \in DOMAIN d.fat1 : SameSector(x, c)} |-> IF e = c THEN v ELSE d.fat1[e]]

Overwrite(fat, sector) ==
  [e \in DOMAIN fat |-> IF e \in DOMAIN sector THEN sector[e] ELSE fat[e]]

SetFat1(d, c, v) == [d EXCEPT !.fat1 = Overwrite(@, FatSector(d, c, v))]

NoSetFat2(d, c, v) == d

\* The backup copy receives the same sector, so it catches up with every entry in it.
SetFat2(d, c, v) == [d EXCEPT !.fat2 = Overwrite(@, FatSector(d, c, v))]

\* "Clusters" 0 and 1 would lie just before the data area: the backup's last two sectors.
Stray(d, c) ==
  LET sector == ((FatEntries - 1) \div EntriesPerSector) + c - 1
  IN  [d EXCEPT !.fat2 = [e \in DOMAIN @ |-> IF e \div EntriesPerSector = sector
                                               THEN Garbage ELSE @[e]]]

\* The clusters fat32_alloc_cluster can take; it takes the lowest.
FreeClusters(d) == {c \in 2..(FatEntries - 1) : d.fat1[c] = 0}

----------------------------------------------------------------------------
(***************************************************************************)
(* Directories.  Cell n of a chain is found by dividing by the cluster     *)
(* size; a cluster past the data area is on no disk and cannot be read.    *)
(***************************************************************************)
ClusterOf(chain, n) == chain[((n - 1) \div SlotsPerCluster) + 1]
IndexOf(n)          == ((n - 1) % SlotsPerCluster) + 1
At(chain, n)        == <<ClusterOf(chain, n), IndexOf(n)>>
Readable(chain, n)  == ClusterOf(chain, n) \in Clusters
Cell(d, chain, n)   == d.data[ClusterOf(chain, n)][IndexOf(n)]
CellsOf(chain)      == 1..(Len(chain) * SlotsPerCluster)

\* A dot entry, like a deleted one, is not visible.
entry_visible(cell) == cell.kind \in {"entry", "byte"}

\* fat32_parse_entry, with file data taken for the name of an empty file.
parse_entry(cell) == IF cell.kind = "byte" THEN Entry(cell.byte, FALSE, 0, 0) ELSE cell

Matches(cell, name) == entry_visible(cell) /\ parse_entry(cell).name = name

MinOrZero(S) == IF S = {} THEN 0 ELSE Min(S)

\* Where a scan of the directory ends: the first cell that is E(cell), or unreadable.
FirstCell(d, chain, E(_)) ==
  MinOrZero({n \in CellsOf(chain) : ~Readable(chain, n) \/ E(Cell(d, chain, n))})

NotFound    == [r |-> "NOT_FOUND"]
IoError     == [r |-> "IO_ERROR"]
InvalidPath == [r |-> "INVALID_PATH"]

EntryAt(d, chain, n) ==
  IF n = 0 THEN NotFound
  ELSE IF ~Readable(chain, n) THEN IoError
  ELSE IF Cell(d, chain, n) = Empty THEN NotFound
  ELSE [r |-> "OK", at |-> At(chain, n), entry |-> parse_entry(Cell(d, chain, n))]

EntryIn(d, chain, name) ==
  EntryAt(d, chain, FirstCell(d, chain, LAMBDA cell : cell = Empty \/ Matches(cell, name)))

\* fat32_find_entry_status: the scan ends at the first slot never used.
find_entry(d, cluster, name) == EntryIn(d, Chain(d, cluster), name)

\* fat32_open: the root has no entry, and its caller sees the value of NOT_FOUND.
RootNode == [r |-> "NOT_FOUND", at |-> <<0, 0>>, entry |-> Entry("", TRUE, Root, 0)]

\* One component of a path: name, looked up in the node found so far.
Component(d, dir, name) ==
  IF dir # RootNode /\ dir.r # "OK" THEN dir
  ELSE IF ~dir.entry.dir THEN NotFound
  ELSE IF name \notin ShortNames THEN InvalidPath
  ELSE find_entry(d, dir.entry.first, name)

fat32_open(d, path) ==
  LET node[i \in 0..Len(path)] ==
        IF i = 0 THEN RootNode ELSE Component(d, node[i - 1], path[i])
  IN  node[Len(path)]

Parent(path) == SubSeq(path, 1, Len(path) - 1)
Name(path)   == path[Len(path)]

DirectoryCluster(node) == IF node.r = "OK" /\ node.entry.dir THEN node.entry.first ELSE 0

\* fat32_split_path, fat32_directory_cluster: the cluster of the parent directory, or 0.
ParentCluster(d, path) ==
  IF Len(path) = 1 THEN Root ELSE DirectoryCluster(fat32_open(d, Parent(path)))

CanAddUnchecked(d, path) == IF ParentCluster(d, path) = 0 THEN "NOT_FOUND" ELSE "OK"

Verdict(found) ==
  IF found = "OK" THEN "EXISTS" ELSE IF found = "IO_ERROR" THEN found ELSE "OK"

CanAddIn(d, cluster, name) ==
  IF cluster = 0 THEN "NOT_FOUND"
  ELSE IF name \notin ShortNames THEN "INVALID_PATH"
  ELSE Verdict(find_entry(d, cluster, name).r)

\* What create, mkdir and rename make sure of before they add an entry at path.
CanAdd(d, path) ==
  IF path = <<>> THEN "NOT_FOUND" ELSE CanAddIn(d, ParentCluster(d, path), Name(path))

\* fat32_alloc_entry_slot: the first slot that can be reused.
FreeSlot(d, chain) == FirstCell(d, chain, LAMBDA cell : cell \in {Empty, Deleted})

EmptyUpTo(d, chain, n) ==
  IF n = 0 THEN "yes"
  ELSE IF ~Readable(chain, n) THEN "error"
  ELSE IF entry_visible(Cell(d, chain, n)) THEN "no" ELSE "yes"

\* fat32_directory_empty: no visible entry before the first slot never used.
directory_empty(d, cluster) ==
  LET chain == Chain(d, cluster)
  IN  EmptyUpTo(d, chain, FirstCell(d, chain, LAMBDA cell : cell = Empty \/ entry_visible(cell)))

\* The entries a reader of the directory is shown, before cell number stop (0: all).
Visible(d, chain, stop) ==
  {n \in CellsOf(chain) : (stop = 0 \/ n < stop) /\ entry_visible(Cell(d, chain, n))}

\* What fat32_readdir returns for the indexes 0, 1, ... until it reports the end.
fat32_readdir(d, cluster) ==
  LET chain == Chain(d, cluster)
  IN  {[at |-> At(chain, n), entry |-> parse_entry(Cell(d, chain, n))] :
         n \in Visible(d, chain, FirstCell(d, chain, LAMBDA cell : cell = Empty))}

----------------------------------------------------------------------------
(***************************************************************************)
(* File contents, as fat32_read_status delivers them from offset 0.        *)
(***************************************************************************)
ReadChain(d, chain, size) ==
  IF \E n \in 1..size : n \notin CellsOf(chain) \/ ~Readable(chain, n) THEN IoError
  ELSE [r |-> "OK", bytes |-> [n \in 1..size |-> Cell(d, chain, n)]]

fat32_read(d, first, size) == ReadChain(d, Chain(d, first), size)

\* Everything `ls' can reach, level by level: [path, at, entry] of each node.
Below(d, n) ==
  IF ~n.entry.dir THEN {}
  ELSE {[path |-> Append(n.path, e.entry.name), at |-> e.at, entry |-> e.entry] :
          e \in fat32_readdir(d, n.entry.first)}

Nodes(d) ==
  LET level[i \in 0..(MaxDepth + 1)] ==
        IF i = 0 THEN {[path |-> <<>>, entry |-> RootNode.entry]}
        ELSE UNION {Below(d, n) : n \in level[i - 1]}
  IN  UNION {level[i] : i \in 1..(MaxDepth + 1)}

Contents(d, e) == [dir |-> e.dir, read |-> IF e.dir THEN [r |-> "OK", bytes |-> <<>>]
                                           ELSE fat32_read(d, e.first, e.size)]

TreeOf(d, nodes) ==
  [p \in {n.path : n \in nodes} |-> Contents(d, (CHOOSE n \in nodes : n.path = p).entry)]

\* What a user sees: the paths, and the contents of the files.
Tree(d) == TreeOf(d, Nodes(d))

Put(d, at, cell) == [d EXCEPT !.data[at[1]][at[2]] = cell]
=============================================================================
