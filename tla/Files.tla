------------------------------- MODULE Files -------------------------------
(***************************************************************************)
(* What the system does with its files between power-on and the prompt,    *)
(* and what the file commands do afterwards: first_boot_setup, config_init *)
(* (fs/config.c), the commands of shell/commands.c and the editor's save,  *)
(* over the tree of FileStore, which Fat32 implements.                     *)
(*                                                                         *)
(* A job is a sequence of calls of the VFS in progress, one call per step; *)
(* power may be lost between two of them, and a call may fail.  A command  *)
(* of a single call is a single step.  Paths fit the buffers of 128 and    *)
(* 256 bytes, and every name is a valid 8.3 name.                          *)
(***************************************************************************)
EXTENDS Paths, FiniteSets

CONSTANTS
  Inputs,      \* the paths a user types after a command, [abs, parts]
  InputPairs,  \* the two paths a user types after mv and cp
  SavePaths,   \* the paths a user types after lost
  Texts,       \* what a user saves: sequences of pieces, a piece being one write
  Settings,    \* the pieces that are lines `key=value'
  Defaults,    \* the lines config_write_defaults writes
  MaxEntries,  \* CONFIG_MAX_ENTRIES
  MaxDepth,    \* bound: names in a path
  MaxNodes,    \* bound: files and directories besides those of the system
  MaxFaults    \* bound: calls that fail, and losses of power

ASSUME FilesAssumption ==
  /\ \A i \in Inputs \cup SavePaths \cup UNION {{two[1], two[2]} : two \in InputPairs} :
       i.abs \in BOOLEAN /\ i.parts \in Seq(STRING)
  /\ Defaults \in Seq(Settings)
  /\ \A t \in Texts : t \in Seq(Range(t)) \ {<<>>}
  /\ {MaxEntries, MaxDepth, MaxNodes, MaxFaults} \subseteq Nat

VARIABLES
  tree,      \* the files, as FileStore has them
  cwd,       \* the shell's current directory, a text of Paths
  entries,   \* the settings in memory
  job,       \* the calls in progress
  faults,    \* how many faults there have been
  failed,    \* (history) the last step made cp or the save give up
  target,    \* (history) the paths the last command's words mean, if it changed anything
  gone,      \* (history) the current directory was removed, moved, or never made
  homeless   \* (history) /home was removed or moved, or first boot was cut short

vars == <<tree, cwd, entries, job, faults, failed, target, gone, homeless>>

Store == INSTANCE FileStore WITH Paths <- {}, Moves <- {}, reply <- "OK"

File(bytes)  == Store!File(bytes)
Inside(q, p) == Store!Inside(q, p)
Bytes(p)     == tree[p].read.bytes

Etc        == <<"etc">>
Home       == <<"home">>
ConfigPath == <<"etc", "lost.cfg">>
SystemDirs == << Etc, Home, <<"bin">>, <<"docs">> >>

----------------------------------------------------------------------------
(***************************************************************************)
(* The VFS, path by path.  fat32_open answers NOT_FOUND for the root: it   *)
(* returns 1, which its caller takes for FAT32_OPEN_NOT_FOUND.             *)
(***************************************************************************)
IsDirectory(p) == Store!Exists(p) /\ Store!IsDir(p)     \* vfs_is_directory
Opens(p)       == Store!Exists(p)                       \* vfs_open

\* fat32_split_path: a text that ends in '/' has no last name.
Placed(path) == ~path.slash /\ Store!IsDir(Store!Parent(path.names))

CanAdd(path) ==
  IF ~Placed(path) THEN "NOT_FOUND" ELSE IF Opens(path.names) THEN "EXISTS" ELSE "OK"

CanRemove(p) ==
  IF ~Opens(p) THEN "NOT_FOUND" ELSE IF Store!IsDir(p) THEN "IS_DIRECTORY" ELSE "OK"

HasEntries(p) == \E q \in DOMAIN tree : q # p /\ Inside(q, p)

CanRmdir(p) ==
  IF ~Opens(p) THEN "NOT_FOUND"
  ELSE IF ~Store!IsDir(p) THEN "INVALID_PATH" ELSE IF HasEntries(p) THEN "NOT_EMPTY" ELSE "OK"

CanRename(old, new) == IF ~Opens(old.names) THEN "NOT_FOUND" ELSE CanAdd(new)

\* What a call answers, and the tree it leaves; it takes effect as a whole or not at all.
Call(result, new) == [r |-> result, tree |-> IF result = "OK" THEN new ELSE tree]

vfs_create(path) == Call(CanAdd(path), Store!Add(path.names, File(<<>>)))
vfs_mkdir(path)  == Call(CanAdd(path), Store!Add(path.names, Store!Directory))
vfs_remove(p)    == Call(CanRemove(p), Store!Without({p}))
vfs_rmdir(p)     == Call(CanRmdir(p), Store!Without({p}))

\* A directory moved into itself is in the tree no more (see Fat32).
Moved(p, q) == IF Inside(q, p) THEN Store!Without({r \in DOMAIN tree : Inside(r, p)})
               ELSE Store!Renamed(p, q)

vfs_rename(old, new) == Call(CanRename(old, new), Moved(old.names, new.names))

\* The file after pieces were written from its start on, through one handle, and its entry
\* was updated.  The handle knows of every piece, those the entry missed included.
Written(p, pieces) == Store!Add(p, File(Store!Laid(Bytes(p), 0, pieces)))

\* The file when that update failed, or the last piece stopped short: as long as it was.
\* A failed update is no error to the caller: fat32_write returns the count alone.
Unrecorded(p, pieces) ==
  Store!Add(p, File(Store!Overwritten(Bytes(p), pieces, Len(pieces))))

InRoom(t) == Cardinality(DOMAIN t \ (Range(SystemDirs) \cup {ConfigPath})) <= MaxNodes

Calls(outcome) == tree' = outcome.tree /\ InRoom(outcome.tree) /\ UNCHANGED faults

Fault == faults < MaxFaults /\ faults' = faults + 1

FailedCall == Fault /\ UNCHANGED tree

----------------------------------------------------------------------------
(***************************************************************************)
(* Power-on.  Static variables take their initial values; the disk is      *)
(* ready.  The boot remembers what the settings file held (start) and      *)
(* whether one of its calls failed (hit), for the properties.              *)
(***************************************************************************)
Off   == [op |-> "off"]
Ready == [op |-> "ready"]

Boot(op, todo, start, hit) == [op |-> op, todo |-> todo, start |-> start, hit |-> hit]
Booting == job.op \in {"dirs", "settings", "fill", "load"}

Held == IF Store!IsFile(ConfigPath) THEN {Bytes(ConfigPath)} ELSE {}

\* What kernel_main does once first_boot_setup is back.
EnterHome(hit, homeless_) ==
  /\ cwd' = Text(Home, FALSE) /\ gone' = homeless_
  /\ job' = Boot("settings", <<>>, Held, hit)

Init ==
  /\ tree = [p \in {} |-> Store!Directory]
  /\ cwd = RootText /\ entries = <<>> /\ job = Off /\ faults = 0
  /\ failed = FALSE /\ target = {} /\ gone = FALSE /\ homeless = FALSE

power_on ==
  /\ job = Off
  /\ IF IsDirectory(Etc) THEN EnterHome(FALSE, homeless)
     ELSE job' = Boot("dirs", SystemDirs, Held, FALSE) /\ UNCHANGED <<cwd, gone>>
  /\ UNCHANGED <<tree, entries, faults, failed, target, homeless>>

MadeDir(hit) ==
  IF Len(job.todo) = 1 THEN EnterHome(hit, homeless')
  ELSE job' = Boot("dirs", Tail(job.todo), job.start, hit) /\ UNCHANGED <<cwd, gone>>

\* The result of vfs_mkdir is ignored.
first_boot_setup ==
  /\ job.op = "dirs"
  /\ \/ Calls(vfs_mkdir(Text(Head(job.todo), FALSE))) /\ UNCHANGED homeless /\ MadeDir(job.hit)
     \/ FailedCall /\ homeless' = TRUE /\ MadeDir(TRUE)
  /\ UNCHANGED <<entries, failed, target>>

Phase(op, hit) == job' = Boot(op, <<>>, job.start, hit)

\* Mistaken: the defaults are written at every boot.
InitAlwaysFills ==
  /\ job.op = "settings"
  /\ Phase("fill", job.hit) /\ Calls(vfs_create(Text(ConfigPath, FALSE)))
  /\ UNCHANGED <<cwd, entries, failed, target, gone, homeless>>

\* config_init: defaults are written when the file cannot be opened, for whatever reason.
config_init ==
  /\ job.op = "settings"
  /\ \/ Opens(ConfigPath) /\ Phase("load", job.hit) /\ UNCHANGED <<tree, faults>>
     \/ ~Opens(ConfigPath) /\ Phase("fill", job.hit) /\ Calls(vfs_create(Text(ConfigPath, FALSE)))
     \/ FailedCall /\ Phase("fill", TRUE)
  /\ UNCHANGED <<cwd, entries, failed, target, gone, homeless>>

\* config_write_defaults, after vfs_create: one write for all the lines, which may not come
\* about, or replace the first of the bytes the file has.
WithDefaults == IF Store!IsFile(ConfigPath) THEN Written(ConfigPath, Defaults) ELSE tree

PartOfDefaults ==
  IF Store!IsFile(ConfigPath)
  THEN {Unrecorded(ConfigPath, SubSeq(Defaults, 1, n)) : n \in 0..Len(Defaults)} ELSE {tree}

config_write_defaults ==
  /\ job.op = "fill"
  /\ \/ tree' = WithDefaults /\ UNCHANGED faults /\ Phase("load", job.hit)
     \/ Fault /\ tree' \in PartOfDefaults /\ Phase("load", TRUE)
  /\ UNCHANGED <<cwd, entries, failed, target, gone, homeless>>

\* The lines with a '=', as many as there is room for.
Parsed(bytes) ==
  LET lines == SelectSeq(bytes, LAMBDA b : b \in Settings)
  IN  IF Len(lines) > MaxEntries THEN SubSeq(lines, 1, MaxEntries) ELSE lines

Loaded == IF Store!IsFile(ConfigPath) THEN Parsed(Bytes(ConfigPath)) ELSE <<>>

\* The file cannot be opened, or the reading of it stops early.
LoadedPart ==
  {<<>>} \cup UNION {{Parsed(SubSeq(bytes, 1, n)) : n \in DOMAIN bytes} : bytes \in Held}

config_load ==
  /\ job.op \in {"load", "ready"}        \* config_init, or config_reload on each grep
  /\ \/ entries' = Loaded /\ UNCHANGED faults
     \/ Fault /\ entries' \in LoadedPart
  /\ job' = Ready /\ target' = {} /\ failed' = FALSE
  /\ UNCHANGED <<tree, cwd, gone, homeless>>

\* What was in memory is gone.
power_off ==
  /\ job # Off /\ Fault
  /\ job' = Off /\ homeless' = (homeless \/ job.op = "dirs")
  /\ cwd' = RootText /\ entries' = <<>> /\ failed' = FALSE /\ target' = {} /\ gone' = FALSE
  /\ UNCHANGED tree

----------------------------------------------------------------------------
(***************************************************************************)
(* The commands of one call.  When that call fails nothing has changed and *)
(* the shell says so; no step is made of it.                               *)
(***************************************************************************)
Resolved(input) == resolve_path(cwd, input)

\* What a word means; where two `..' meet, also what resolve_path makes of it.
Aims(input) ==
  {Meant(cwd, input)} \cup (IF Climbs(input.parts) THEN {Resolved(input).names} ELSE {})

Typed(input) == job = Ready /\ Len(Resolved(input).names) <= MaxDepth

\* The whole command; target keeps what it was about, if it changed anything.
Runs(outcome, aims) ==
  /\ Calls(outcome)
  /\ target' = IF tree' = tree THEN {} ELSE aims
  /\ failed' = FALSE /\ UNCHANGED <<cwd, entries, job>>

cmd_touch(input) ==
  Typed(input) /\ Runs(vfs_create(Resolved(input)), Aims(input)) /\ UNCHANGED <<gone, homeless>>

cmd_mkdir(input) ==
  Typed(input) /\ Runs(vfs_mkdir(Resolved(input)), Aims(input)) /\ UNCHANGED <<gone, homeless>>

cmd_rm(input) ==
  /\ Typed(input) /\ Runs(vfs_remove(Resolved(input).names), Aims(input))
  /\ UNCHANGED <<gone, homeless>>

\* The directory at p is not there any more.
Leaves(p) ==
  /\ gone' = (gone \/ (tree' # tree /\ Inside(cwd.names, p)))
  /\ homeless' = (homeless \/ (tree' # tree /\ p = Home))

cmd_rmdir(input) ==
  /\ Typed(input) /\ Runs(vfs_rmdir(Resolved(input).names), Aims(input))
  /\ Leaves(Resolved(input).names)

MovesInBounds(old, new) ==
  \A q \in DOMAIN tree : Inside(q, old.names) =>
    Len(new.names) + Len(q) - Len(old.names) <= MaxDepth

cmd_mv(from, to) ==
  /\ Typed(from) /\ Typed(to) /\ MovesInBounds(Resolved(from), Resolved(to))
  /\ Runs(vfs_rename(Resolved(from), Resolved(to)), Aims(from) \cup Aims(to))
  /\ Leaves(Resolved(from).names)

\* shell_set_cwd
Goes(path, aims) == cwd' = path /\ gone' = FALSE /\ target' = aims

\* Mistaken: what can be opened is taken for a directory.
CdUnchecked(input) ==
  /\ Typed(input) /\ Opens(Resolved(input).names)
  /\ Goes(Resolved(input), Aims(input))
  /\ failed' = FALSE /\ UNCHANGED <<tree, entries, job, faults, homeless>>

cmd_cd(input) ==
  /\ Typed(input) /\ IsDirectory(Resolved(input).names)
  /\ Goes(Resolved(input), Aims(input))
  /\ failed' = FALSE /\ UNCHANGED <<tree, entries, job, faults, homeless>>

\* cd without a word
cmd_cd_root ==
  /\ job = Ready /\ Goes(RootText, {<<>>})
  /\ failed' = FALSE /\ UNCHANGED <<tree, entries, job, faults, homeless>>

----------------------------------------------------------------------------
(***************************************************************************)
(* cp: the source is opened once and read on while the copy is written.    *)
(* A read that fails ends the loop as the end of the file does (hit).  The *)
(* handle of the copy has what was written (done), its entry what the last *)
(* update put there: cp does not hear of one that fails (missed).          *)
(***************************************************************************)
Copying(src, dst, rest) ==
  [op |-> "copy", src |-> src, dst |-> dst, done |-> <<>>, rest |-> rest,
   hit |-> FALSE, missed |-> FALSE]

\* Reading a directory gives nothing.
Source(p) == IF Store!IsFile(p) THEN Bytes(p) ELSE <<>>

cmd_cp(from, to) ==
  LET src == Resolved(from).names
      dst == Resolved(to)
  IN  /\ Typed(from) /\ Typed(to)
      /\ Opens(src) /\ vfs_create(dst).r = "OK"
      /\ Calls(vfs_create(dst))
      /\ job' = Copying(src, dst.names, Source(src))
      /\ target' = Aims(to) /\ failed' = FALSE
      /\ UNCHANGED <<cwd, entries, gone, homeless>>

OnePiece(missed) ==
  /\ job.rest # <<>>
  /\ job' = [job EXCEPT !.done = Append(@, Head(job.rest)), !.rest = Tail(@), !.missed = missed]
  /\ UNCHANGED failed

CopyPiece ==
  OnePiece(FALSE) /\ tree' = Written(job.dst, Append(job.done, Head(job.rest))) /\ UNCHANGED faults

\* The piece is written, the update of the entry fails, and vfs_write returns all the same
\* what it was given.
CopyUnrecorded ==
  /\ OnePiece(TRUE) /\ Fault
  /\ tree' = Unrecorded(job.dst, Append(job.done, Head(job.rest)))

CopyEnds == job.rest = <<>> /\ job' = Ready /\ UNCHANGED <<tree, faults, failed>>

\* Mistaken: the result of vfs_write is not looked at.
CopyIgnoresFailure ==
  job.rest # <<>> /\ FailedCall /\ job' = [job EXCEPT !.rest = Tail(@)] /\ UNCHANGED failed

\* vfs_write returns less than it was given: `cp: write failed'.
CopyWriteFails == job.rest # <<>> /\ FailedCall /\ job' = Ready /\ failed' = TRUE

CopyReadFails ==
  /\ job.rest # <<>> /\ FailedCall
  /\ job' = [job EXCEPT !.rest = <<>>, !.hit = TRUE] /\ UNCHANGED failed

copy ==
  /\ job.op = "copy"
  /\ CopyPiece \/ CopyUnrecorded \/ CopyEnds \/ CopyWriteFails \/ CopyReadFails
  /\ UNCHANGED <<cwd, entries, target, gone, homeless>>

----------------------------------------------------------------------------
(***************************************************************************)
(* The editor's save: the file is opened, or made with the directories on  *)
(* its way (vfs_ensure_parents), and the lines are written over it.        *)
(***************************************************************************)
Saving(op, path, text) == [op |-> op, path |-> path, n |-> 0, text |-> text]

editor_save(input, text) ==
  /\ Typed(input)
  /\ \/ /\ job' = Saving(IF Opens(Resolved(input).names) THEN "lines" ELSE "parents",
                         Resolved(input), text)
        /\ UNCHANGED faults
     \/ Fault /\ job' = Saving("parents", Resolved(input), text)
  /\ target' = Aims(input) /\ failed' = FALSE
  /\ UNCHANGED <<tree, cwd, entries, gone, homeless>>

\* What vfs_ensure_parents looks at: the text up to each '/' but the first.
Ways(path) == IF path.slash THEN Len(path.names) ELSE Len(path.names) - 1

Missing == {n \in 1..Ways(job.path) : ~IsDirectory(SubSeq(job.path.names, 1, n))}

FirstMissing == Text(SubSeq(job.path.names, 1, Min(Missing)), FALSE)

MakesParent == Missing # {} /\ Calls(vfs_mkdir(FirstMissing)) /\ tree' # tree /\ UNCHANGED job

\* All are there, or one could not be made; editor_save does not ask which.
ParentsDone ==
  /\ \/ (Missing # {} => vfs_mkdir(FirstMissing).r # "OK") /\ UNCHANGED <<tree, faults>>
     \/ Missing # {} /\ FailedCall
  /\ job' = [job EXCEPT !.op = "create"]

vfs_ensure_parents ==
  /\ job.op = "parents"
  /\ MakesParent \/ ParentsDone
  /\ UNCHANGED <<cwd, entries, failed, target, gone, homeless>>

\* vfs_create, whose result only makes a message, and the second vfs_open.
save_create ==
  /\ job.op = "create"
  /\ Calls(vfs_create(job.path)) \/ FailedCall
  /\ IF job.path.names \in DOMAIN tree'
     THEN job' = [job EXCEPT !.op = "lines"] /\ UNCHANGED failed
     ELSE job' = Ready /\ failed' = TRUE
  /\ UNCHANGED <<cwd, entries, target, gone, homeless>>

Saved == job.path.names

\* The lines up to the next one.
Lines == SubSeq(job.text, 1, job.n + 1)

OneLine ==
  /\ Store!IsFile(Saved)
  /\ job' = IF job.n + 1 = Len(job.text) THEN Ready ELSE [job EXCEPT !.n = @ + 1]
  /\ UNCHANGED failed

LineSaved == OneLine /\ tree' = Written(Saved, Lines) /\ UNCHANGED faults

\* As in CopyUnrecorded, the save goes on.
LineUnrecorded == OneLine /\ tree' = Unrecorded(Saved, Lines) /\ Fault

\* A write that fails may have replaced bytes the file had; a directory cannot be written.
LineFails ==
  /\ \/ FailedCall
     \/ Fault /\ Store!IsFile(Saved) /\ tree' = Unrecorded(Saved, Lines)
     \/ Store!IsDir(Saved) /\ UNCHANGED <<tree, faults>>
  /\ job' = Ready /\ failed' = TRUE

save_line ==
  /\ job.op = "lines"
  /\ LineSaved \/ LineUnrecorded \/ LineFails
  /\ UNCHANGED <<cwd, entries, target, gone, homeless>>

----------------------------------------------------------------------------
Steps == first_boot_setup \/ config_init \/ config_write_defaults \/ config_load
           \/ copy \/ vfs_ensure_parents \/ save_create \/ save_line

Commands ==
  \/ cmd_cd_root
  \/ \E input \in Inputs :
       \/ cmd_touch(input) \/ cmd_mkdir(input) \/ cmd_rm(input) \/ cmd_rmdir(input)
       \/ cmd_cd(input)
  \/ \E input \in SavePaths, text \in Texts : editor_save(input, text)
  \/ \E two \in InputPairs : cmd_mv(two[1], two[2]) \/ cmd_cp(two[1], two[2])

Next == power_on \/ power_off \/ Steps \/ Commands

Spec == Init /\ [][Next]_vars

----------------------------------------------------------------------------
(***************************************************************************)
(* Properties.                                                             *)
(***************************************************************************)
TypeOK ==
  /\ \A p \in DOMAIN tree : p \in Seq(STRING) /\ tree[p].dir \in BOOLEAN
  /\ cwd.names \in Seq(STRING) /\ cwd.slash \in BOOLEAN
  /\ Range(entries) \subseteq Settings /\ Len(entries) <= MaxEntries
  /\ faults \in 0..MaxFaults
  /\ {failed, gone, homeless} \subseteq BOOLEAN

Changed(p) == (p \in DOMAIN tree) # (p \in DOMAIN tree') \/ (p \in DOMAIN tree /\ tree'[p] # tree[p])

\* A command touches nothing but what its words mean, `..' being the parent wherever the
\* shell has been and whatever its current directory is written like; a save also makes
\* the directories on the way.  Words with two `..' in a row are excepted: see Climbs.
HitsItsTarget ==
  [][/\ ~Booting =>
          \A p \in DOMAIN tree \cup DOMAIN tree' : Changed(p) =>
            \E t \in target' : Inside(p, t) \/ (job.op = "parents" /\ Inside(t, p))
     /\ (job = Ready /\ job' = Ready /\ cwd' # cwd) => cwd'.names \in target']_vars

\* cp that says nothing has made the whole copy, of a file that is still the same, unless
\* a read failed, which it cannot tell from the end of the file.  (Of a directory it makes
\* an empty file.)  The update of the copy's entry may have failed without a word: a later
\* piece makes up for it, and when there was none the copy is a first part of the file.
CopyFaithful ==
  [][(job.op = "copy" /\ job' = Ready /\ ~failed' /\ ~job.hit /\ Store!IsFile(job.src)) =>
       \/ tree'[job.dst] = tree[job.src]
       \/ job.missed /\ \E n \in 0..Len(Bytes(job.src)) :
                          tree'[job.dst] = File(SubSeq(Bytes(job.src), 1, n))]_vars

\* A boot leaves every file as it was; settings are written only to a file that it made,
\* or when the one there is could not be opened (hit).  When it is done the settings are
\* those of the file, or the defaults if there was none and nothing was in their way.
BootSound ==
  [][Booting =>
       /\ \A p \in DOMAIN tree : Changed(p) => p = ConfigPath /\ (job.start = {} \/ job.hit)
       /\ (job' = Ready /\ ~job.hit /\ faults' = faults) =>
            /\ \A bytes \in job.start : entries' = Parsed(bytes)
            /\ (job.start = {} /\ IsDirectory(Etc) /\ ~IsDirectory(ConfigPath)) =>
                 entries' = Parsed(Defaults)]_vars

\* The current directory is one, unless it was removed or moved under the shell's feet or
\* first boot did not get to make /home.
CwdStands ==
  job = Ready => gone \/ cwd.names = <<>> \/ IsDirectory(cwd.names)
=============================================================================
