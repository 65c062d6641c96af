----------------------------- MODULE FileStore -----------------------------
(***************************************************************************)
(* What a user of the file system relies on, with no mention of clusters:  *)
(* a tree of named files and directories on which every call takes effect  *)
(* as a whole or, when it reports an error, not at all.  The exception is  *)
(* a write that runs out of space: it may have replaced bytes the file     *)
(* already had.                                                            *)
(***************************************************************************)
EXTENDS Integers, Sequences, FiniteSets

CONSTANTS Paths, Moves, Inputs

VARIABLES tree,    \* path -> [dir, read], read being what reading the file delivers
          reply    \* the last call's result, "busy" while there is none yet

Errors == {"NOT_FOUND", "EXISTS", "IS_DIRECTORY", "NOT_EMPTY", "INVALID_PATH", "IO_ERROR"}

File(bytes) == [dir |-> FALSE, read |-> [r |-> "OK", bytes |-> bytes]]
Directory   == [dir |-> TRUE, read |-> [r |-> "OK", bytes |-> <<>>]]

Exists(p)  == p \in DOMAIN tree
IsDir(p)   == p = <<>> \/ (Exists(p) /\ tree[p].dir)
IsFile(p)  == Exists(p) /\ ~tree[p].dir
Parent(p)  == SubSeq(p, 1, Len(p) - 1)
Inside(q, p) == Len(q) >= Len(p) /\ SubSeq(q, 1, Len(p)) = p

Init == tree = [p \in {} |-> Directory] /\ reply = "OK"

Ok(t) == tree' = t /\ reply' = "OK"

Add(p, node) == [q \in DOMAIN tree \cup {p} |-> IF q = p THEN node ELSE tree[q]]

Without(paths) == [q \in DOMAIN tree \ paths |-> tree[q]]

\* A directory moves with everything in it.
Renamed(p, q) ==
  LET source(x) == IF Inside(x, q) THEN p \o SubSeq(x, Len(q) + 1, Len(x)) ELSE x
      moved(x)  == IF Inside(x, p) THEN q \o SubSeq(x, Len(p) + 1, Len(x)) ELSE x
  IN  [x \in {moved(y) : y \in DOMAIN tree} |-> tree[source(x)]]

Create(p) == ~Exists(p) /\ IsDir(Parent(p)) /\ Ok(Add(p, File(<<>>)))
Mkdir(p)  == ~Exists(p) /\ IsDir(Parent(p)) /\ Ok(Add(p, Directory))
Remove(p) == IsFile(p) /\ Ok(Without({p}))
Rmdir(p)  == /\ Exists(p) /\ IsDir(p) /\ ~\E q \in DOMAIN tree : q # p /\ Inside(q, p)
             /\ Ok(Without({p}))
Rename(p, q) ==
  /\ Exists(p) /\ ~Exists(q) /\ IsDir(Parent(q)) /\ ~Inside(q, p)
  /\ Ok(Renamed(p, q))

\* Input laid over the bytes of a file from an offset on; nothing is cut off behind it.
Laid(bytes, offset, input) ==
  LET length == IF offset + Len(input) > Len(bytes) THEN offset + Len(input) ELSE Len(bytes)
  IN  [i \in 1..length |-> IF i \in (offset + 1)..(offset + Len(input))
                           THEN input[i - offset] ELSE bytes[i]]

Write(p, append, input) ==
  LET bytes == tree[p].read.bytes
  IN  /\ IsFile(p)
      /\ Ok(Add(p, File(Laid(bytes, IF append THEN Len(bytes) ELSE 0, input))))

Error(r) == tree' = tree /\ reply' = r

Begin == tree' = tree /\ reply' = "busy"

\* A write at the start of the file that ran out of space after n pieces.
Overwritten(bytes, input, n) ==
  SubSeq(Laid(bytes, 0, SubSeq(input, 1, n)), 1, Len(bytes))

ShortWrite(p, input, n) ==
  /\ IsFile(p) /\ n <= Len(input)
  /\ tree' = Add(p, File(Overwritten(tree[p].read.bytes, input, n)))
  /\ reply' = "IO_ERROR"

Next ==
  \/ \E p \in Paths : Create(p) \/ Mkdir(p) \/ Remove(p) \/ Rmdir(p)
  \/ \E m \in Moves : Rename(m[1], m[2])
  \/ \E p \in Paths, append \in BOOLEAN, input \in Inputs : Write(p, append, input)
  \/ \E p \in Paths, input \in Inputs, n \in 1..3 : ShortWrite(p, input, n)
  \/ \E r \in Errors : Error(r)
  \/ Begin

vars == <<tree, reply>>

Spec == Init /\ [][Next]_vars
=============================================================================
