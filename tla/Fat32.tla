------------------------------- MODULE Fat32 -------------------------------
(***************************************************************************)
(* The FAT32 driver (kernel/fs/fat32.c), one disk write per step.  A call  *)
(* runs alone, from boot code or inside the keyboard interrupt, but the    *)
(* machine can lose power between two writes and a sector access can fail. *)
(***************************************************************************)
EXTENDS Fat32Ops

CONSTANTS
  Paths,       \* the paths callers name, sequences of names
  Moves,       \* the pairs of paths `mv' is used with
  Inputs,      \* the sequences of pieces that callers write to a file
  MaxSize,     \* bound on the size of a file
  FaultKinds,  \* the faults that happen: a subset of {"crash", "write", "read"}
  MaxFaults    \* bound on the number of faults

IsSequence(s) == s \in Seq({s[i] : i \in DOMAIN s})

ASSUME CallsAssumption ==
  /\ \A p \in Paths : IsSequence(p)
  /\ \A m \in Moves : IsSequence(m[1]) /\ IsSequence(m[2])
  /\ \A s \in Inputs : IsSequence(s)
  /\ MaxSize \in Nat /\ MaxFaults \in Nat

VARIABLES
  disk,
  pc,       \* the next disk write of the call in progress, or "idle"
  k,        \* the locals of the call in progress
  result,   \* what the last call returned, or "busy"
  faults,   \* faults so far
  failed,   \* (history) one of them was a failed access
  before,   \* the disk as the call in progress found it
  view,     \* what users saw between calls: the tree of names and contents
  torn      \* a removal or a move was cut short half way

vars == <<disk, pc, k, result, faults, failed, before, view, torn>>

NoFrame ==
  [op |-> "none", path |-> <<>>, other |-> <<>>,  \* the call and its arguments
   dir |-> 0, slot |-> <<0, 0>>,                  \* alloc_entry_slot: directory, slot found
   at |-> <<0, 0>>, entry |-> Empty,              \* where the file's entry is; the one to write
   new |-> 0, why |-> "none",                     \* alloc_cluster: its result, its caller
   from |-> 0, to |-> 0, next |-> 0,              \* set_next_cluster
   first |-> 0, size |-> 0, offset |-> 0,         \* struct fat32_file
   input |-> <<>>, written |-> 0]                 \* fat32_write_status

NoDisk == [fat1 |-> <<>>]

Init ==
  /\ disk = FreshDisk
  /\ pc = "idle"
  /\ k = NoFrame
  /\ result = "OK"
  /\ faults = 0 /\ failed = FALSE
  /\ before = NoDisk
  /\ view = Tree(disk)
  /\ torn = FALSE

----------------------------------------------------------------------------
(***************************************************************************)
(* Control, and the outcomes of a sector write.                            *)
(***************************************************************************)
Fault(kind) ==
  /\ kind \in FaultKinds /\ faults < MaxFaults /\ faults' = faults + 1
  /\ failed' = (failed \/ kind # "crash")
NoFault == UNCHANGED <<faults, failed>>

Refuse(r) == result' = r /\ UNCHANGED <<disk, pc, k, faults, failed, before, view, torn>>

Begin(frame, label) ==
  /\ k' = frame /\ pc' = label /\ before' = disk /\ result' = "busy"
  /\ UNCHANGED <<disk, faults, failed, view, torn>>

With(frame, label) == k' = frame /\ pc' = label /\ UNCHANGED <<result, before, view, torn>>
Goto(label)        == With(k, label)

\* alloc_entry_slot links the new cluster before it zeroes what the cluster held.
Unzeroed ==
  /\ pc \in {"link2", "zero"} /\ k.why = "slot" /\ k.new \in Clusters
  /\ \E i \in 1..SlotsPerCluster : entry_visible(disk.data[k.new][i])

\* A removal that stops after its first write leaves an entry whose clusters are free, a
\* move cut short leaves two names for one chain, and a directory that was extended but
\* not zeroed yet shows what the new cluster held before.
TornBy(d) ==
  \/ torn
  \/ k.op \in {"remove", "rmdir"} /\ d # before
  \/ /\ k.op = "rename" /\ k.slot[1] \in Clusters
     /\ d.data[k.slot[1]][k.slot[2]] = k.entry
     /\ d.data[k.at[1]][k.at[2]] = before.data[k.at[1]][k.at[2]]
  \/ Unzeroed

Return(r) ==
  /\ pc' = "idle" /\ k' = NoFrame /\ result' = r /\ before' = NoDisk /\ view' = Tree(disk')
  /\ torn' = IF r = "OK" THEN torn ELSE TornBy(disk')

NoAccess == UNCHANGED disk /\ NoFault

FatWritten(d) == disk' = d /\ NoFault
FatNotWritten == Fault("write") /\ UNCHANGED disk

\* There is no sector past the data area, so the drive refuses to write there.
Written(c, d) == c \in Clusters /\ disk' = d /\ NoFault
NotWritten(c) == /\ IF c \in Clusters THEN Fault("write") ELSE NoFault
                 /\ UNCHANGED disk

----------------------------------------------------------------------------
(***************************************************************************)
(* The calls, up to their first disk write.                                *)
(***************************************************************************)
Adding(op, path) ==
  [NoFrame EXCEPT !.op = op, !.path = path, !.dir = ParentCluster(disk, path),
                  !.entry = Entry(Name(path), op = "mkdir", 0, 0)]

BeginIf(check, frame, label) ==
  /\ pc = "idle"
  /\ \/ check # "OK" /\ Refuse(check)
     \/ check = "OK" /\ Begin(frame, label)

fat32_create(path) == BeginIf(CanAdd(disk, path), Adding("create", path), "slot")

fat32_mkdir(path) == BeginIf(CanAdd(disk, path), Adding("mkdir", path), "slot")

Removable(node) ==
  IF node.r # "OK" THEN node.r ELSE IF node.entry.dir THEN "IS_DIRECTORY" ELSE "OK"

Freeing(op, path, node) ==
  [NoFrame EXCEPT !.op = op, !.path = path, !.at = node.at, !.from = node.entry.first]

fat32_remove(path) ==
  LET node == fat32_open(disk, path)
  IN  BeginIf(Removable(node), Freeing("remove", path, node), "free")

DirRemovable(node) ==
  IF node.r # "OK" THEN node.r
  ELSE IF ~node.entry.dir THEN "INVALID_PATH"
  ELSE CASE directory_empty(disk, node.entry.first) = "error" -> "IO_ERROR"
         [] directory_empty(disk, node.entry.first) = "no"    -> "NOT_EMPTY"
         [] directory_empty(disk, node.entry.first) = "yes"   -> "OK"

fat32_rmdir(path) ==
  LET node == fat32_open(disk, path)
  IN  BeginIf(DirRemovable(node), Freeing("rmdir", path, node), "free")

Moving(old_path, new_path, source) ==
  [NoFrame EXCEPT !.op = "rename", !.path = old_path, !.other = new_path,
                  !.at = source.at, !.dir = ParentCluster(disk, new_path),
                  !.entry = [source.entry EXCEPT !.name = Name(new_path)]]

fat32_rename(old_path, new_path) ==
  LET source == fat32_open(disk, old_path)
  IN  BeginIf(IF source.r # "OK" THEN source.r ELSE CanAdd(disk, new_path),
              Moving(old_path, new_path, source), "slot")

Writable(node) ==
  IF node.r # "OK" THEN node.r ELSE IF node.entry.dir THEN "INVALID_PATH" ELSE "OK"

Writing(path, node, offset, input) ==
  [NoFrame EXCEPT !.op = "write", !.path = path, !.at = node.at,
                  !.entry = node.entry, !.first = node.entry.first, !.why = "first",
                  !.size = node.entry.size, !.offset = offset, !.input = input]

WriteTo(path, node, append, input) ==
  LET offset == IF append THEN node.entry.size ELSE 0
  IN  /\ Writable(node) = "OK" => offset + Len(input) <= MaxSize
      /\ BeginIf(Writable(node), Writing(path, node, offset, input),
                 IF node.entry.first < 2 THEN "alloc" ELSE "chunk")

\* fat32_open and fat32_write_status, at the start of the file or (`>>', the history
\* file) at its end.
fat32_write(path, append, input) == WriteTo(path, fat32_open(disk, path), append, input)

----------------------------------------------------------------------------
(***************************************************************************)
(* fat32_alloc_cluster: the lowest free entry of FAT copy 1 is marked as a *)
(* chain end in both copies.  Nobody looks at the outcome of the writes.   *)
(***************************************************************************)
Alloc(frame, why) == With([frame EXCEPT !.why = why], "alloc")

\* Mistaken: a FAT sector that cannot be read counts as free.
AllocTakesUnread ==
  /\ pc = "alloc"
  /\ \/ FreeClusters(disk) # {} /\ NoAccess
        /\ With([k EXCEPT !.new = Min(FreeClusters(disk))], "mark1")
     \/ FreeClusters(disk) = {} /\ NoAccess /\ Return("IO_ERROR")
     \/ Fault("read") /\ UNCHANGED disk /\ With([k EXCEPT !.new = Root + 1], "mark1")

AllocMarksBackupOnly ==
  /\ pc = "alloc" /\ FreeClusters(disk) # {} /\ NoAccess
  /\ With([k EXCEPT !.new = Min(FreeClusters(disk))], "mark2")

alloc_cluster ==
  /\ pc = "alloc"
  /\ \/ FreeClusters(disk) # {} /\ NoAccess
        /\ With([k EXCEPT !.new = Min(FreeClusters(disk))], "mark1")
     \/ FreeClusters(disk) = {} /\ NoAccess /\ Return("IO_ERROR")
     \/ Fault("read") /\ UNCHANGED disk /\ Return("IO_ERROR")

mark1 ==
  /\ pc = "mark1"
  /\ FatWritten(SetFat1(disk, k.new, END)) \/ FatNotWritten
  /\ Goto("mark2")

mark2 ==
  /\ pc = "mark2"
  /\ FatWritten(SetFat2(disk, k.new, END)) \/ FatNotWritten
  /\ CASE k.why = "dir"   -> Goto("zero")
       [] k.why = "first" -> With([k EXCEPT !.first = k.new], "chunk")
       [] OTHER           -> With([k EXCEPT !.to = k.new], "link1")

(***************************************************************************)
(* fat32_set_next_cluster: k.from is linked to k.to in both copies.  Only  *)
(* fat32_alloc_entry_slot goes on when it fails.                           *)
(***************************************************************************)
LinkedFreesOne ==
  CASE k.why = "slot"   -> Goto("zero")
    [] k.why = "extend" -> Goto("chunk")
    [] k.why = "free"   -> Goto("delete")
    [] k.why = "undo"   -> Return("IO_ERROR")

Linked ==
  CASE k.why = "slot"   -> Goto("zero")
    [] k.why = "extend" -> Goto("chunk")
    [] k.why = "free"   -> With([k EXCEPT !.from = k.next], "free")
    [] k.why = "undo"   -> Return("IO_ERROR")

NotLinked == IF k.why = "slot" THEN Goto("zero") ELSE Return("IO_ERROR")

link1 ==
  /\ pc = "link1"
  /\ \/ FatWritten(SetFat1(disk, k.from, k.to)) /\ Goto("link2")
     \/ FatNotWritten /\ NotLinked

link2 ==
  /\ pc = "link2"
  /\ \/ FatWritten(SetFat2(disk, k.from, k.to)) /\ Linked
     \/ FatNotWritten /\ NotLinked

----------------------------------------------------------------------------
(***************************************************************************)
(* fat32_alloc_entry_slot: a free slot of the directory, or else a new     *)
(* cluster at its end, linked first and zeroed afterwards.  A link that    *)
(* cannot be read counts as the end of the chain.                          *)
(***************************************************************************)
TakeSlot(at) ==
  IF k.op = "mkdir" THEN Alloc([k EXCEPT !.slot = at], "dir")
  ELSE With([k EXCEPT !.slot = at], "entry")

Extend(tail) == Alloc([k EXCEPT !.from = tail], "slot")

alloc_entry_slot ==
  LET chain == Chain(disk, k.dir)
      n     == FreeSlot(disk, chain)
      ends  == chain # <<>> /\ is_end_cluster(disk.fat1[chain[Len(chain)]])
  IN  /\ pc = "slot"
      /\ \/ n # 0 /\ Readable(chain, n) /\ NoAccess /\ TakeSlot(At(chain, n))
         \/ n = 0 /\ ends /\ NoAccess /\ Extend(chain[Len(chain)])
         \/ (IF n = 0 THEN ~ends ELSE ~Readable(chain, n)) /\ NoAccess /\ Return("IO_ERROR")
         \/ Fault("read") /\ UNCHANGED disk /\ Return("IO_ERROR")
         \/ \E i \in 1..(Len(chain) - 1) :
               /\ n \notin 1..(i * SlotsPerCluster)
               /\ Fault("read") /\ UNCHANGED disk
               /\ Extend(chain[i])

\* Undoing a mkdir: the new cluster is free again.
Undo == [k EXCEPT !.why = "undo", !.from = k.new, !.to = 0]

zero ==
  /\ pc = "zero"
  /\ LET blank == [disk EXCEPT !.data[k.new] = Blank]
     IN  IF k.why = "slot"
         THEN (Written(k.new, blank) \/ NotWritten(k.new)) /\ TakeSlot(<<k.new, 1>>)
         ELSE \/ Written(k.new, blank) /\ Goto("dot")
              \/ NotWritten(k.new) /\ With(Undo, "link1")

dot ==
  /\ pc = "dot"
  /\ \/ Written(k.new, Put(disk, <<k.new, 1>>, Dot)) /\ Goto("dotdot")
     \/ NotWritten(k.new) /\ With(Undo, "link1")

dotdot ==
  /\ pc = "dotdot"
  /\ \/ /\ Written(k.new, Put(disk, <<k.new, 2>>, Dot))
        /\ With([k EXCEPT !.entry.first = k.new], "entry")
     \/ NotWritten(k.new) /\ With(Undo, "link1")

RenameDeletesFirst ==
  /\ pc = "entry"
  /\ \/ /\ k.op = "rename" /\ disk.data[k.at[1]][k.at[2]] # Deleted
        /\ Written(k.at[1], Put(disk, k.at, Deleted)) /\ Goto("entry")
     \/ /\ k.op = "rename" => disk.data[k.at[1]][k.at[2]] = Deleted
        /\ Written(k.slot[1], Put(disk, k.slot, k.entry)) /\ Return("OK")

\* fat32_write_entry: the new name appears, and create and mkdir are complete.
write_entry ==
  /\ pc = "entry"
  /\ \/ /\ Written(k.slot[1], Put(disk, k.slot, k.entry))
        /\ IF k.op = "rename" THEN Goto("delete") ELSE Return("OK")
     \/ /\ NotWritten(k.slot[1])
        /\ IF k.op = "mkdir" THEN With(Undo, "link1") ELSE Return("IO_ERROR")

EmptiesSlot ==
  /\ pc = "delete"
  /\ Written(k.at[1], Put(disk, k.at, Empty)) /\ Return("OK")

\* fat32_delete_entry: the last write of remove, rmdir and rename.
delete_entry ==
  /\ pc = "delete"
  /\ \/ Written(k.at[1], Put(disk, k.at, Deleted)) /\ Return("OK")
     \/ /\ NotWritten(k.at[1])
        /\ IF k.op = "rename" THEN Goto("delete_copy") ELSE Return("IO_ERROR")

\* rename could not delete the old entry: delete the new one instead.
delete_copy ==
  /\ pc = "delete_copy"
  /\ Written(k.slot[1], Put(disk, k.slot, Deleted)) \/ NotWritten(k.slot[1])
  /\ Return("IO_ERROR")

\* remove and rmdir free the chain from its first cluster on, then delete the entry.
free_chain ==
  /\ pc = "free"
  /\ \/ /\ Stops(k.from)
        /\ Goto("delete") /\ NoAccess
     \/ /\ ~Stops(k.from)
        /\ With([k EXCEPT !.why = "free", !.next = disk.fat1[k.from], !.to = 0], "link1")
        /\ NoAccess
     \/ /\ ~Stops(k.from)
        /\ Fault("read") /\ UNCHANGED disk /\ Return("IO_ERROR")

----------------------------------------------------------------------------
(***************************************************************************)
(* fat32_write_status: one sector per turn.  The chain is followed to the  *)
(* cluster of the current offset and extended where it ends too early; a   *)
(* link that cannot be read counts as its end.  A free cluster links to    *)
(* "cluster" 0, which is followed and written to like any other.           *)
(***************************************************************************)
chunk ==
  LET hops  == k.offset \div SlotsPerCluster
      chain == FileChain(disk, k.first)
  IN  /\ pc = "chunk"
      /\ \/ /\ k.written = Len(k.input)
            /\ NoAccess
            /\ IF k.written > 0 THEN Goto("update") ELSE Return("OK")
         \/ /\ k.written < Len(k.input) /\ hops < Len(chain)
            /\ With([k EXCEPT !.from = chain[hops + 1]], "put")
            /\ NoAccess
         \/ /\ k.written < Len(k.input) /\ hops >= Len(chain)
            /\ NoAccess
            /\ Alloc([k EXCEPT !.from = chain[Len(chain)]], "extend")
         \/ \E i \in 1..(Len(chain) - 1) :
               /\ k.written < Len(k.input) /\ i <= hops
               /\ Fault("read") /\ UNCHANGED disk
               /\ Alloc([k EXCEPT !.from = chain[i]], "extend")

\* The pieces of the sector that the input covers, the others as they were.
Merged(cells, offset, input) ==
  [i \in 1..SlotsPerCluster |->
     LET j == i - (offset % SlotsPerCluster) IN IF j \in 1..Len(input) THEN input[j] ELSE cells[i]]

PutCountsTwice ==
  LET left == SubSeq(k.input, k.written + 1, Len(k.input))
      n    == Min({SlotsPerCluster - (k.offset % SlotsPerCluster), Len(left)})
  IN  /\ pc = "put" /\ Written(k.from, [disk EXCEPT !.data[k.from] = Merged(@, k.offset, left)])
      /\ With([k EXCEPT !.offset = @ + n, !.written = @ + n, !.size = @ + n], "chunk")

put ==
  LET left == SubSeq(k.input, k.written + 1, Len(k.input))
      n    == Min({SlotsPerCluster - (k.offset % SlotsPerCluster), Len(left)})
      size == IF k.offset + n > k.size THEN k.offset + n ELSE k.size
  IN  /\ pc = "put"
      /\ \/ /\ IF k.from < 2 THEN FatWritten(Stray(disk, k.from))
               ELSE Written(k.from, [disk EXCEPT !.data[k.from] = Merged(@, k.offset, left)])
            /\ With([k EXCEPT !.offset = @ + n, !.written = @ + n, !.size = size], "chunk")
         \/ (IF k.from < 2 THEN FatNotWritten ELSE NotWritten(k.from)) /\ Return("IO_ERROR")

\* fat32_update_entry: only now the file's entry learns its new size and first cluster.
update_entry ==
  /\ pc = "update"
  /\ \/ /\ Written(k.at[1], Put(disk, k.at, [k.entry EXCEPT !.first = k.first, !.size = k.size]))
        /\ Return("OK")
     \/ NotWritten(k.at[1]) /\ Return("IO_ERROR")

----------------------------------------------------------------------------
\* Power is lost: the disk stays as it is and the call is forgotten.
Crash ==
  /\ pc # "idle"
  /\ Fault("crash")
  /\ UNCHANGED disk
  /\ Return("CRASH")

Step ==
  \/ alloc_cluster \/ mark1 \/ mark2 \/ link1 \/ link2
  \/ alloc_entry_slot \/ zero \/ dot \/ dotdot \/ write_entry \/ delete_entry \/ delete_copy
  \/ free_chain \/ chunk \/ put \/ update_entry

Call ==
  \/ \E p \in Paths : fat32_create(p) \/ fat32_mkdir(p) \/ fat32_remove(p) \/ fat32_rmdir(p)
  \/ \E m \in Moves : fat32_rename(m[1], m[2])
  \/ \E p \in Paths, append \in BOOLEAN, input \in Inputs : fat32_write(p, append, input)

Next == Call \/ Step \/ Crash

Spec == Init /\ [][Next]_vars

----------------------------------------------------------------------------
(***************************************************************************)
(* Properties.                                                             *)
(***************************************************************************)
Cells == {Empty, Deleted, Dot} \cup UNION {{input[i] : i \in 1..Len(input)} : input \in Inputs}

\* The disk holds FAT entries and cells, the program counter is one of the labels.
TypeOK ==
  /\ disk.fat1 \in [0..(FatEntries - 1) -> 0..END]
  /\ disk.fat2 \in [0..(FatEntries - 1) -> 0..END]
  /\ \A c \in Clusters, i \in 1..SlotsPerCluster :
        LET cell == disk.data[c][i]
        IN  \/ cell \in Cells
            \/ /\ cell.kind = "entry" /\ cell.name \in ShortNames /\ cell.dir \in BOOLEAN
               /\ cell.first \in {0} \cup 2..(FatEntries - 1) /\ cell.size \in 0..MaxSize
  /\ pc \in {"idle", "slot", "alloc", "mark1", "mark2", "link1", "link2",
            "zero", "dot", "dotdot", "entry", "delete", "delete_copy", "free", "chunk", "put",
            "update"}
  /\ (pc = "idle") = (k = NoFrame)
  /\ faults \in 0..MaxFaults
  /\ {torn, failed} \subseteq BOOLEAN

Torn == IF pc = "idle" THEN torn ELSE TornBy(disk)

ClustersIn(chain) == {chain[i] : i \in DOMAIN chain}
ChainSet(d, c)    == ClustersIn(Chain(d, c))
Ends(d, chain)    == chain # <<>> /\ is_end_cluster(d.fat1[chain[Len(chain)]])

\* Whatever write power is lost at, no cluster ever belongs to two names, and every name
\* leads to a chain that is allocated, ends, and is long enough for the file's size --
\* unless a removal, a move or the extension of a directory was cut short.
VolumeSound ==
  ~Torn /\ ~failed =>
    LET nodes == Nodes(disk) \cup {[path |-> <<>>, at |-> <<0, 0>>, entry |-> RootNode.entry]}
        chain == [n \in nodes |-> Chain(disk, n.entry.first)]
    IN  \A m \in nodes :
          /\ \A n \in nodes \ {m} : ClustersIn(chain[m]) \cap ClustersIn(chain[n]) = {}
          /\ m.entry.first = 0 => ~m.entry.dir /\ m.entry.size = 0
          /\ m.entry.first # 0 => Ends(disk, chain[m]) /\ m.entry.size <= SlotsPerCluster * Len(chain[m])

\* The backup FAT is at most one entry behind for each crash, plus the entry being written.
BackupLags ==
  ~Torn /\ ~failed =>
    Cardinality({c \in DOMAIN disk.fat1 : disk.fat1[c] # disk.fat2[c]})
      <= faults + (IF pc \in {"mark2", "link2"} THEN 1 ELSE 0)

\* The entries that stand in a directory, wherever in its clusters: also behind a slot
\* never used, where fat32_readdir and fat32_find_entry_status both end.
Standing(d, cluster) ==
  LET chain == Chain(d, cluster)
  IN  {[at |-> At(chain, n), entry |-> parse_entry(Cell(d, chain, n))] :
         n \in {m \in CellsOf(chain) : Readable(chain, m) /\ entry_visible(Cell(d, chain, m))}}

\* Every entry that stands in a directory a user can reach is listed by `ls' and is what
\* opening its path finds: names are unique in their directory, and no entry stands behind
\* a slot that ends the search.
ListingMatchesLookup ==
  ~Torn /\ ~failed =>
    \A n \in Nodes(disk) \cup {[path |-> <<>>, at |-> <<0, 0>>, entry |-> RootNode.entry]} :
      n.entry.dir =>
        \A e \in Standing(disk, n.entry.first) :
          LET found == fat32_open(disk, Append(n.path, e.entry.name))
          IN  e \in fat32_readdir(disk, n.entry.first) /\ found.r = "OK" /\ found.at = e.at

\* Clusters marked used that nothing leads to.
Lost(d) ==
  {c \in 3..(FatEntries - 1) : d.fat1[c] # 0}
    \ (ChainSet(d, Root) \cup UNION {ChainSet(d, n.entry.first) : n \in Nodes(d)})

\* A call that succeeds loses no cluster, but for a write of nothing to an empty file.
OkLosesNothing ==
  [][pc # "idle" /\ pc' = "idle" /\ result' = "OK" /\ ~torn
     /\ ~(k.op = "write" /\ k.input = <<>>) => Lost(disk') \subseteq Lost(before)]_vars

\* Those of the paths that lie under p, p included.
Under(p, paths) == {q \in paths : Len(q) >= Len(p) /\ SubSeq(q, 1, Len(p)) = p}

\* At every write of a call -- wherever power may be lost -- the files the call does not
\* name are untouched, a name being created or moved is absent or complete, and a file
\* being moved is never under neither name.  (Not so while a directory being extended shows
\* what its new cluster held before.)
MovedWhole(was, now) ==
  \/ \A p \in Under(k.path, DOMAIN was) : p \in DOMAIN now /\ now[p] = was[p]
  \/ \A p \in Under(k.path, DOMAIN was) :
       LET q == k.other \o SubSeq(p, Len(k.path) + 1, Len(p))
       IN  q \in DOMAIN now /\ now[q] = was[p]

AtomicSoFar(was, now, named) ==
  /\ \A p \in DOMAIN was \ named : p \in DOMAIN now /\ now[p] = was[p]
  /\ DOMAIN now \ named \subseteq DOMAIN was
  /\ k.op \in {"create", "mkdir"} => named \cap DOMAIN now = {}
  /\ k.op = "rename" => MovedWhole(was, now)

CrashAtomic ==
  pc # "idle" /\ ~torn /\ ~failed /\ ~Unzeroed =>
    LET now   == Tree(disk)
        paths == DOMAIN view \cup DOMAIN now
    IN  AtomicSoFar(view, now, Under(k.path, paths)
                       \cup (IF k.op = "rename" THEN Under(k.other, paths) ELSE {}))

\* The directory that a call adds a name to, and what the call is about.
Exposed(paths) ==
  Under(k.path, paths) \cup (IF k.op = "rename" THEN Under(Parent(k.other), paths) ELSE {})
    \cup (IF k.op \in {"create", "mkdir"} THEN Under(Parent(k.path), paths) ELSE {})

\* When a disk access fails, the call damages nothing but the file it is about and the
\* directory it adds a name to.
FaultContained ==
  [][pc # "idle" /\ pc' = "idle" /\ failed' =>
       \A p \in DOMAIN view \ Exposed(DOMAIN view) : p \in DOMAIN view' /\ view'[p] = view[p]]_vars

\* Between calls, users see the store of FileStore: each call takes effect as a whole or,
\* when it reports an error, not at all.
Store == INSTANCE FileStore WITH
  tree  <- view,
  reply <- result

StoreSpec == Store!Spec
=============================================================================
