# LostOS in TLA+

LostOS is a 32-bit x86 hobby kernel with a heap, a FAT32 file system over ATA, a shell, a
text editor and, in one of its two builds, a small desktop. This directory holds
specifications of the parts that keep state, configurations that check them with TLC on
small instances, and proofs, checked by TLAPS, of what holds on every instance of ten of
those parts. Paths below are relative to the repository; `PROJECT.json` maps every definition to
its lines.

## The system

| Component | State | Operations | Talks to |
| --- | --- | --- | --- |
| Kernel heap, `kernel/mm/memory.c` | list of block headers, `allocation_count` | `memory_init`, `kmalloc`, `kfree` | history, desktop back buffer, `mem` |
| FAT32 driver, `kernel/fs/fat32.c` | the disk: two FATs, directories, data | open, create, mkdir, remove, rmdir, rename, read, write, readdir | ATA below, VFS above |
| VFS and paths, `kernel/fs/vfs.c`, `kernel/lib/path.c` | mounted or not | forwards to FAT32, resolves paths | shell commands, editor |
| Configuration, first boot, `kernel/fs/config.c`, `first_boot.c` | table of settings | load, reload, look up | VFS, prompt |
| Terminal, `kernel/drivers/vga.c` | cells, scrollback, view, cursor, dirty flag, captures | print, scroll, page, capture | shell, editor, desktop |
| Shell line editor, `kernel/shell/shell.c` | line, cursor, place of the prompt | editing keys, Enter, Ctrl-D, Tab | terminal, history, commands |
| History, `kernel/shell/shell.c` | list, place in it, draft, `/history.txt` | Up, Down, add, load, persist | heap, VFS |
| Command executor, `kernel/shell/commands.c` | redirection and pipeline buffers | operators, pipelines, scripts, built-ins | everything |
| Editor, `kernel/editor/editor.c` | array of lines, cursor, scroll offsets, mode, modified mark | open, keys, commands, save | VFS, terminal memory |
| Keyboard, `kernel/drivers/keyboard.c` | modifiers, extended prefix, layout | IRQ1 | shell, editor |
| Mouse, `kernel/drivers/mouse.c` | packet, pointer, buttons, changed flag | IRQ12, poll | desktop |
| Desktop, `kernel/kernel.c`, `kernel/gui/gui.c` | window, pointer, clock, back buffer | endless drawing loop | terminal, mouse, clock |
| ATA, `kernel/drivers/ata.c` | none of its own; the drive's task and status | read, write, identify, by polling | FAT32 above, the drive |
| Clock, `kernel/drivers/rtc.c` | the register selected | read | desktop loop, history |
| Boot, GDT, IDT, paging, MBR, framebuffer, strings | hardware tables | set-up and port I/O | all |

**Who runs when.** Boot code runs with interrupts off until `idt_init`. After that nearly
everything (shell, editor, file system, heap) runs *inside* the keyboard interrupt. The gates
are interrupt gates, so no handler is interrupted: one key is one atomic step, and the models
of shell, editor, history and heap take it so. What can still come between two steps is
  - the loss of power between two sector writes (`Fat32`, `History`),
  - a sector access that fails (`Fat32`, `History`; `Editor`, `Files` and `Executor` have what
    their callers see of it: a call that fails, a write that stops short, or an update of a
    file's entry that fails without anybody being told),
  - in the graphical build, both interrupts between any two steps of the loop in
    `kernel_main`, which shares flags with them (`Desktop`),
  - what runs beside the processor: the drive, which works on while the driver asks for its
    status (`Ata`), and the keyboard, which keeps sending while a handler runs (`Keyboard`).

**What is hard here, and what should hold.** `PROJECT.json` lists each hazard with its line.
  - Heap: a long sequence of splits and merges must keep the list a tiling of the heap, never
    hand out a byte twice, and give everything back.
  - FAT32: no call that succeeds may lose clusters or other files; power lost between two
    writes must not damage what the call is not about; a failed access must be contained.
  - Line editor and terminal: wrapping, scrolling and paging while editing must keep line,
    prompt and hardware cursor where they belong, and leave earlier output alone.
  - History: drafts come back, a reboot restores the list, faults cost at most the lines
    being saved.
  - Editor: array, cursor and window agree; the modified mark tells the truth, as far as the
    editor can know it.
  - Files: a word of a command reaches the file it means, `..` included; what takes several
    calls (a boot, a copy, a save) leaves a state that can be told, wherever it is cut short.
  - Keyboard: what the shell gets is what was meant, with the modifiers held at that time.
  - ATA: a call returns the right sector, or fails, or at least returns.
  - Desktop: mouse packets stay aligned although two parties read the bytes, and no change of
    terminal or pointer is forgotten through the window between reading and clearing a flag.

## Modules

| Module | What it is |
| --- | --- |
| `KHeapOps` | the operators of the heap: alignment in words of a given size, splitting, merging, first fit |
| `KHeap` | the heap as a state machine: `memory_init`, `kmalloc`, `kfree`, and its callers' pointers |
| `KAllocator` | abstract: aligned, disjoint regions granted and returned; `KHeap` implements it |
| `KHeapProofs` | the inductive invariant of `KHeap` and the theorems |
| `Fat32Ops` | reading a disk: chains, directory entries, lookups, listing, what users see as a tree |
| `Fat32` | the calls, one sector write per step, with crashes and failing accesses |
| `Fat32Proofs` | the volume at every write of a call, the backup FAT, and listing against lookup |
| `FileStore` | abstract: a tree on which each call takes effect as a whole or not at all |
| `Paths` | `resolve_path` on texts of names, and what `..` means |
| `Files` | first boot, settings, the file commands and the editor's save, call by call over `FileStore` |
| `FilesProofs` | what `resolve_path` computes; current directory, boot, copies and targets of `Files` |
| `SectorDisk` | abstract: sectors read and written as a whole, one acknowledged write in flight |
| `Ata` | the driver's polling against the drive; implements `SectorDisk` |
| `TextBuffer` | abstract: a text before and after a cursor |
| `Editor` | the editor; implements `TextBuffer` |
| `TextLines` | the lines of a sequence of bytes, for the editor and the history |
| `EditorProofs` | types, window, modified mark of `Editor`, and its refinement of `TextBuffer` |
| `Terminal` | cells, scrollback, view and hardware cursor as operators on a record |
| `ShellLine` | the shell's line editor on the terminal, with Tab completion; extends `Terminal` |
| `History` | the list, its draft and its file |
| `HistoryProofs` | types, drafts, reloading and surviving lines of `History` |
| `ShellSyntax` | lines, pipelines, stages, and what redirecting and substituting does to text |
| `Executor` | the command executor with the C stack, the captures and the shared input |
| `ExecutorProofs` | the stack of `Executor` and the captures and inputs in it |
| `ShellLanguage` | abstract: what a line means, by evaluation; `MCExecutor` compares |
| `Keyboard` | the interrupt handler byte by byte, against the keyboard and its user |
| `DriverProofs` | presses are handed on as they were meant; the refinement of `SectorDisk` by `Ata` |
| `Desktop` | the graphical loop against keyboard and mouse interrupts and the clock |
| `ScreenProofs` | line, cursor, view and earlier text of `ShellLine`; types and safety invariants of `Desktop` |
| `MC*` | instances for TLC |

Variables and actions carry the names of the C statics and functions. Ghost variables are
marked *(history)* where they are declared: they record what a property speaks of and no
guard of an action of the code depends on one, except that bounds are guards.

### Heap

Block headers are a function from addresses to records; `next` and `prev` are addresses,
`NULL` is 0, arithmetic is modulo `WordSize`. `held` stands for the callers: pointers they
have not given back, with the size asked for. A caller frees only what it holds. Assumed
(`HeapAssumption`): no caller asks for a size whose rounding up to 16 wraps (`align_size`,
memory.c:35, would then yield 0). The call in `gui_init`, made with interrupts on, is left
out: it is the only one that can be cut in two.

### FAT32

A cell stands for one 32-byte slot of a directory or one piece of a file, a cluster for a few
cells. `pc` names the next sector write of the call in progress and `k` holds its locals;
everything up to that write (lookups, checks) happens in the step before it, as no one else
touches the disk. `before` and `view` keep the disk as the call found it and the tree users
last saw. A fault is a choice: `"crash"` ends the call, `"write"` makes one write have no
effect, `"read"` one read return an error, each handled the way that place of the code
handles it (an error, an end of chain, or nothing at all). `torn` marks a disk on which a
removal or a move was cut short, `failed` one that a failing access left behind. In those the
driver does damage by design (it frees a chain before it deletes the name), and the crash
properties except them *by name*; so they do with a directory whose extension was cut short.

`ListingMatchesLookup` compares two readings of the disk. `Standing` reads a directory the way
it is laid out, all cells of all its clusters; `fat32_readdir` and `fat32_open` read it the way
the code does, up to the first slot never used. Every entry that stands must be listed and be
found: an entry behind a slot that ends the search would stand and not be listed.

`fat32_write_status` answers `FAT32_IO_ERROR` when `fat32_update_entry` fails, and so does
`Fat32`. `fat32_write`, which all the kernel calls through `vfs_write`, drops that answer and
returns the count of bytes, which is whole (fat32.c:910 to 925). So a failed update is told to
nobody: the file keeps the size and first cluster its entry had. `Editor`, `Files` and
`Executor`, which stand above `vfs_write`, have it as an outcome that their caller cannot tell
from success (`Recorded`, `Unrecorded`), and `History`, which looks at no count, as a write
that fails behind its last byte.

### Files

`Files` stands one floor above `Fat32`: its `tree` is the one of `FileStore`, whose operators
it takes, and a call of the VFS is one step that happens or fails as a whole, which is what
`StoreSpec` shows of `Fat32` without failures. `job` is the sequence of calls in progress: the
boot (`first_boot_setup`, `config_init`, `config_load`), a copy, or a save with
`vfs_ensure_parents`; a call in it may fail, and power may be lost between two. A file is a
sequence of pieces, each of which one `vfs_write` writes or one `vfs_read` reads. A handle knows
all pieces written through it, the entry only those whose update was done: `Written` is the file
after an update, `Unrecorded` after one that failed, or a write that stopped short. Words typed
by the user are sequences of names, `.` and `..`; `resolve_path` turns them into texts that
remember whether they end in `/`, since `path_parent` keeps that sign and FAT32 has no last
name in such a text. `gone` and `homeless` mark a current directory that was removed under
the shell, and a boot cut short before it made `/home`.

What breaks by design is excepted by name: two `..` in one word (`Climbs`: the second does
nothing), a boot one of whose calls failed (`hit`: settings may be written over), a copy whose
source could not be read on (`hit`: taken for the end), and a copy whose entry missed its last
update (`missed`: the copy is then a first part of the source, which is what is claimed).

### Disk

`Ata` models the driver's three loops with `MaxPolls` looks at the status each; the drive
moves between looks, may end a command with an error, lose power, or not answer. A write
returns when the words are handed over, with the drive still `"storing"`. The refinement maps
that to `unflushed`, the one write `SectorDisk` has in flight. A command given to a drive that
is busy or holds data is undefined in the ATA standard: it is passed over or replaces the one
before. That happens after a poll has given up, or when `ata_identify`, which waits for
nothing, meets a write; `strayed` marks it, nothing is claimed after it, and a restart ends it.

This is the disk `Fat32` assumes, and shows where its assumption stops: a `"crash"` of `Fat32`
lies between two sector writes, where power lost to `SectorDisk` may also undo the last write,
which is the crash one step earlier; a `"read"` or `"write"` fault is a call that failed. A
drive that cannot store what it acknowledged, and what follows a timeout, are outside. Two things
are assumed of the drive. While it is busy the other status bits are clear: `ata_wait_drq`
(ata.c:119 to 124) looks at `DRQ` and `ERR` without `BSY`. And it is no longer busy only when it
has stored what it was given: the driver never sends a flush, so that of a drive with a write
cache more than one acknowledged write can be lost.

### Keyboard

`press`, `release` and `repeat` are the user's; `Sent` queues the bytes a PS/2 keyboard makes
of them, with the shift codes many keyboards put around an arrow while a shift is held, and an
overrun code when there is no room. Each action of the handler takes one byte. `owed` records
with every press what its user means: the key and the modifiers that are down. `Handed`
compares with it what the shell or editor gets, so a key lost, doubled, out of order or with
the wrong modifier shows. A press is due when the byte that
completes it is taken (`Due`), and what it means (`Means`) is what its key, flags, layout and
receiver make of it. `doubt` holds modifiers the driver cannot know: after one of two
shift keys is let go, while Caps Lock repeats, and when the byte of a modifier was lost. The
layout and the receiver change only when a key is handled, and take part in what is meant.
`KeyboardAssumption` says of the hardware that no key has the code of the prefix or of an
overrun, and that a shift behind a prefix is the keyboard's own doing.

### Editor, terminal, line editor, history

`Editor` keeps lines in an array as the code does, each with its own horizontal scroll. Both
it and `History` read a file as the lines that start at its beginning and behind every newline
(`TextLines`), without recursion. An
edit that overruns a line (joining two lines that are too long together, editor.c:223) sets
`broken`, after which nothing is claimed. A save writes line by line through one handle, and may
stop short in any line, which the editor sees, or have the update of the file's entry fail after
any line, which it does not: `saved` tells a text saved `"whole"` from one whose last update
failed (`"unrecorded"`), and the modified mark goes away in both. Colour and the status line's
text are left out.
`Terminal` is a record and operators on it, so that one key can be a composition of several
calls. `ShellLine` gives each key one action; what a command prints is any member of
`Outputs`, and what the history hands back any member of `Recalled`. Listing names with Tab
near the bottom of the screen breaks the bookkeeping of the prompt until the next Enter
(shell.c:601 prints the line without making room for it); `listed` marks that time and the
screen invariants except it, `ViewIsShown` only while the view is paged back. Text can also
stay behind a line for good, when Ctrl-D forgets a line with the cursor inside it, or Tab types
on an empty line what the last one left; `stray` marks that, and from then until the screen is
cleared no blank is claimed behind the line. `History` makes the two writes of `history_persist`
two steps,
either of which can fail or be the last thing before the power goes.

### Command executor

`stack` is the C stack: a frame for each call of `commands_execute`, `shell_execute_pipeline`,
`shell_execute_stage`, `commands_execute_simple` and `script_execute` in progress, and an
action is what the innermost does up to its next call or return. Buffers belong to frames;
captures and `shell_input_data` name the frame whose buffer they point to, so that "no
dangling pointer" can be said (`BuffersAlive`). `Lines` holds parsed lines: the scanning of
characters is left out, and redirections inside `$(...)` with it (the code takes them for
redirections of the `echo` outside). Texts are lines of text and fit their buffers. A stage
that gives up before it writes hands on what its buffer held, a choice from `Leftovers`
(*stale*); a capture past `MaxDepth` is refused while its end still closes one (*exceeded*);
a file may fail to be removed, created or written, with an error or, when only the update of its
entry failed, without one (*failed*; the file then shows nothing of the text). `Evaluates`
compares terminal,
files and the collecting state with `ShellLanguage` in all other cases, `BuffersAlive` and
`TypeOK` hold in these too. In the language, as in the code, operators nest to the right and
a redirected stage still feeds the next one.

### Desktop

The loop of `kernel_main` is cut wherever it touches what interrupts share: `t_take_dirty`
and `mouse_has_changed` are two steps each, a redraw reads the terminal in two halves.
The clock's register is selected in one step and read in the next, and Enter, whose time stamp
reads the same clock, may select another in between (`other_register`).
`mouse_irq_ready` chooses between the two ways bytes are taken. `redraw_lost` and
`pointer_lost` are set exactly when a change arrives between reading a clear flag and
clearing it, or before the loop throws the first flag away (kernel.c:120).

## Runs

| Run | Instance | Shows |
| --- | --- | --- |
| `heap` | 8-bit words, up to five blocks, sizes 0 to all | `BlockListSound`: the list tiles the heap, coalesced, its used blocks being those held; first fit misses nothing; `AllocatorSpec` |
| `fat_quiet` | four clusters of two cells in a FAT with an entry more, three paths, disk fills | `StoreSpec`: implements `FileStore`; every entry that stands is listed and found; success loses no cluster |
| `fat_fail` | four clusters, two paths, two moves; two of: power lost at any write, a failing read, a failing write | volume sound, backup FAT lags by at most one entry a fault, unnamed files untouched, damage stays in what the call is about |
| `files` | names below `/home`, two more files than the system's, two faults | `..` reaches what it means, copies are whole, reported, or missed an update of their entry; boots write over nothing, the current directory exists |
| `disk` | two sectors, two looks in each loop, two faults | `DiskSpec`: implements `SectorDisk`; every call returns |
| `keyboard` | a key of each kind, two held, four bytes queued | every press is handed on as it was meant |
| `editor` | two lines of two characters, one text row | array = text with cursor (`BufferSpec`), window follows, modified mark is honest, but for an update of the entry that failed unheard |
| `editor_save` | counterexample | a shorter text leaves the old file's end behind it |
| `shell` | three rows of two cells, lines of up to four characters | line and cursor on the screen, view correct, earlier output untouched |
| `executor` | one file, one word, two scripts, some 300 lines of up to three stages or three pipelines, two captures | buffers live, captures nest, a line does what `ShellLanguage` says |
| `history` | lists of two, files of three lines, two faults | drafts, reload, survival of saved lines |
| `desktop` | two changes, two packets, clock every other round | packets aligned, nothing forgotten outside the two windows; the screen catches up, clock misread or not |

**Why the bounds are enough.** Each is the smallest at which the interesting case happens:
five blocks let a free one have free or used neighbours on both sides; two cells per cluster make
a directory extend with its first file and a file of three pieces take two clusters; two FAT
sectors (`EntriesPerSector`) make linking cross a sector, and an entry behind the last cluster
(`FatEntries`) is there to be taken by mistake; a drive's answer can come before the first
look, between two, or after the last; two words of one command that both move or copy need no
more than two files, and two faults are a power loss in the boot and a failed call in the next
one; two keys held and four bytes are a modifier, a key and an overrun; a line that wraps needs
two rows
and text left behind a line a third; two lines suffice to join, split and scroll; the third
line drops the first of a history of two; two packets make a misalignment visible; with
room for two captures (four in the code) a substitution in a pipeline still nests and a second one
is refused. Every
bound is a constant (`MaxSize`, `MaxFile`, `MaxFaults`, `MaxKeys`, `MaxBytes`, `MaxRow`,
`MaxText`, `MaxDepth`, `MaxNodes`, `MaxEntries`, `MaxPolls`, `MaxHeld`, `MaxQueue`, `MaxCodes`) or
a
`CONSTRAINT` defined in `MCFat32`: `NotTorn` stops exploring after a removal or move was
cut short, `OneFaultyCall` after the call in which an access failed (what is claimed is
what that call does). Directories moved into themselves are left out of `Moves`, since the
driver loses them; `Files` has one among its pairs. `OneFaultyCall` therefore shows where a
fault does its damage, and not what later calls make of it: a cluster whose allocation was not
written may be given out again. `History` uses the
symmetry of characters, which no definition tells apart, and checks no liveness.
`MCEditor`, `MCExecutor`, `MCFiles` and the FAT32 runs set `CHECK_DEADLOCK FALSE` because the
models stop
at their bounds (an overrun line; a file longer than `MaxText`; no faults left and a torn disk; no room
for another file).

**Fairness.** `Desktop` and `Ata` have a liveness property each. `Ata` assumes `WF(Poll)`: the driver
is code of the kernel that waits for nothing but its own count. The drive is not assumed to
answer, which is the case `CallsReturn` is about. `WF(kernel_main)`: the loop never
blocks, its steps are plain instructions and interrupts return. `WF(tick)`: the clock runs.
Nothing is assumed of keyboard or mouse; `MaxKeys` and `MaxBytes` end their activity, which is
what "when the user pauses" in `ScreenCatchesUp` means. `tick` does not go once around
between two looks of the loop: a million rounds take far less than a minute.

## What is proved

Ten components have theorems, in eight modules; `PROJECT.json` lists them. All are for every value
of the constants that meets the named assumptions of the modules: sizes, bounds and types;
`NL`, `NoFile`, `Nothing` and the like being none of the data they are told from; and, as
assumptions about callers and hardware, those of heap and keyboard above. Each rests on an
inductive invariant, as none of the properties is inductive alone, and each such invariant was
an invariant of a TLC run before it was proved, but for that of `Fat32`, which speaks of some
assignment of chains and directories to clusters, too many for TLC to try.

**Heap** (`KHeapProofs`): `BlockListAlwaysSound` (from `HeapAlwaysTiled`, `HeldBlocksAreUsed`
and `AlwaysCoalesced`), `HeapTypeCorrect`, `AllocationCountExact`, `AllFreedRestoresHeap`,
`NothingEverMissed` and `HeapImplementsAllocator` (`Spec => AllocatorSpec`). That the list tiles
the heap after a merge needs that the two blocks are neighbours, which is what the links say;
that it is coalesced after a free needs the links to agree in both directions, so that the block
before is found; that pointers are apart needs both the tiling and that used blocks are exactly
those held. Their conjunction with the facts about an unready heap is `HeapInv` (`InitInv`,
`NextInv`). The argument goes bottom up: `SplitShape`, `MergeShape` and `FlagShape` say field
by field what a helper writes; `SplitTiles` and `MergeTiles` that a tiling stays one;
`TakenShape` and `ReleasedShape` compose them into what `kmalloc` and `kfree` do to the list;
`KmallocInv` and `KfreeInv` conclude. `AllFreedRestoresHeap` follows since a tiling of free
blocks without two free neighbours has one block, and the refinement uses `GrantedApart`: a
granted region lies in a block that was free, hence apart from all that are held.
`NothingEverMissed`: of an aligned stretch of unused bytes, the block its first byte lies in is
free, and if it ended inside the stretch its successor would be free as well.

**Disk** (`DriverProofs`): `DriverIsDisk` (`AtaSpec => DiskSpec`). A step of `Ata` says too little for
it: that a write which is acknowledged puts the right block on its way needs that the drive works
on the driver's own command, which rests on what happened since the call began. `AtaInv` says it,
as long as the driver has not lost track (`strayed`): between calls the drive rests or stores, a
command meets a drive at rest, and while the driver waits the drive is about the sector of the
call. `DriverKeepsTrack` is its invariance; `DriveRefines`, `CommandRefines` and `WaitRefines`
map the steps, with the intermediate `WaitedForData` that lists what a look at the status can
come to.

**FAT32** (`Fat32Proofs`), for disks, trees and files of any size: `VolumeStaysSound`,
`BackupFollows` and `ListingOpens`, all as long as no access has failed and none of the calls was
cut short that damage the disk then (`Quiet`). The invariant behind them is `VolumeInvariant`. It
claims that there are `w`, a function from first clusters to their chains, and `T`, those of them
that are directories. `Sound(d, w, T, skip)` says that the chains are linked up, end, and have no
cluster in common; that the entries of the directories, but for the slots `skip` the call is using,
lead to chains of `w` of the right kind and length, no two to the same and none to the root; that
names differ within a directory; and that no entry stands behind a slot that ends the search.
`State` then says, for each label at which a call may stand, that the disk is sound and what the
call has still to do can be done: the new cluster belongs to no chain, the chain to be freed is no
longer anyone's, the slot to be filled is empty. So power may go at every label: the disk is sound
with no slot in use, or it is torn (`Settled`, `CrashKeeps`). `Chain` follows links for a bounded
number of steps, and a chain without repetitions is shorter than the FAT (`ChainFits`), so that
following links finds all of it. For the backup, `LagInv` counts the entries that differ without
the one being copied (`Pending`). For `ListingOpens` and `VolumeStaysSound` each slot is reached
by one path only (`LevelsDiffer`), by the least depth at which a second would be. `StandingIs`
says that the cells of a directory's chain are all its cells, behind the end of every search
included, so that `ListingOpens` is about every entry there is.

**Files** (`FilesProofs`): `ResolvedIs`, about the operators alone: of a word without two `..` in
a row `resolve_path` makes the path the word means, whatever the names, the dots and the current
directory. It goes along the parts of the word as `FoldLeft` does (the state after each part is a
function of the one before, so that the least part at which the claim fails is a contradiction).
`FilesInv` is `TreeInv` (every file stands in a directory) with a part for each thing that takes
several calls: the current directory stands unless it was taken away (`CwdInv`); what the boot
knows of the directories and the settings it has still to make, or failed to make, is what there
is (`HomeInv`, `BootInv`); what is copied and what is still to be copied are the source
(`CopyInv`), and the copy shows a first part of what is copied, all of it unless its entry missed
the last update; a save is on its way to where its word said (`SaveInv`). From it follow
`CwdAlwaysStands`, and per step `BootAlwaysSound`, `CopyAlwaysFaithful` and
`EveryStepHitsItsTarget`.

**Editor** (`EditorProofs`): `EditorTypeCorrect`, `WindowAlwaysFollows`, `ModifiedAlwaysHonest`
and `EditorIsTextBuffer` (`Spec => BufferSpec`). `TextInv` keeps lines, cursor and window within
their sizes, and the cursor on the screen between keys; `FileInv` adds that since a whole load or
save, nothing typed since, the file begins with the text, a save that left the entry
`"unrecorded"` being none. For the refinement the array of lines
is one text cut at the cursor (`Before`, `After`); for each handler a lemma says what it makes of
both halves. The text before the cursor is `FlattenSeq` of the lines above, so its lemmas
(`FlattenIs` to `FlattenConcat`) are by least counterexample on the number of lines.

**Line editor on the terminal** (`ScreenProofs`): `ShellInvariant` and from it `LineTypeCorrect`,
`LineOnScreen` and `MemoryShowsView`; `EditingStaysInLine` per step. The screen's cells are
numbered row by row (`At`), so that a line is a stretch of numbers however it wraps, and a scroll
lowers all of them by a row. `ShellInv` says that the line is written in its stretch from the
prompt on (`Written`), the terminal's own cursor is behind as many characters of it as
`cursor_pos` says (`InPlace`), nothing stands behind the line nor as far behind the cursor as the
rest of it is long (`Tidy`, which a redraw from the cursor needs), and text memory is what the
view chooses. Printing, scrolling and drawing are folds; each is proved about by the least step
that would break its claim (`Reached`, `ReachedNext`). That a line never scrolls itself off
the screen rests on one assumption, that wherever in a row it begins a full line fits
(`ShellAssumption`). For `EditingStaysInLine`, a scroll moves whole rows to the scrollback, which
drops its oldest (`RowsUp`, `Kept`), so that the text before the prompt becomes a suffix of itself.

**History** (`HistoryProofs`): `HistoryTypeCorrect`, `DraftAlwaysReturns`, `ReloadAlwaysMatches`
and `SavedAlwaysSurvives`. `DraftInv` says what is on the line: the line of the list the place
says, or what was typed, which the draft keeps meanwhile. `SavedInv` finds in the file a part
that ends with a newline and holds all saved lines in order; since all writes append, nothing
changes it, and the line in the making is behind it. `ReloadInv` adds, while nothing has failed,
that the list is the last lines of the file (and the one being written); appending a line and
keeping the last few commute (`LastOf`).

**Command executor** (`ExecutorProofs`): `ExecutorIsNested` is the invariance of `ExecutorInv`,
which gives `ExecutorTypeCorrect`, `BuffersAlwaysAlive` and `CapturesAlwaysNested`. Three facts
hold only together: each frame waits for a call of the kind of the one above it (`IsStack`);
the input commands read, and each one a stage has put aside to restore, is in a frame below that
is still there (`InputsKept`); the captures are of frames that wait for text, in the order of
the stack, and of all of them unless one was refused (`Matched`). A return pops a frame, so that
what it restores must have been below all along.

**Keyboard** (`DriverProofs`): `KeysAlwaysAsMeant`. The bytes in the queue are read ahead:
`After` says what a byte makes of the driver's flags, `Walk` what the queue will. `KeyInv` says
that the presses among them are those owed, in order, each found by the driver with the
modifiers its user held (`Matched`), and that at the end the driver will be where the user
believes it is, but for what is in doubt (`Agrees`). `ByteTaken` and `ByteSent` keep the first at
either end; `HandlerKeeps` and `UserKeeps` conclude.

**Desktop** (`ScreenProofs`), for every number of keys, bytes, places and seconds:
`DesktopTypeCorrect`, `PacketsAlwaysInSync` and `NothingEverForgotten`. `PacketsInSync` needs
what the mouse sends next and that polling and interrupts exclude each other (`InStep`).
`NothingForgotten` needs that a flag set between being read as clear and being cleared has been
recorded as lost (`DirtyRace`, `ChangedRace`), or the step that clears it could not be told from
a step that clears a flag seen set.

**Only model-checked**: of `Fat32` its types, `CrashAtomic`, `OkLosesNothing`, `FaultContained`
and the refinement of `FileStore`. `CrashAtomic` compares whole trees and is not true of all
constants: a directory moved into itself takes files along that the call does not name, and a
tree deeper than `MaxDepth` is compared only so far; TLC checks it where neither happens. The
others need an invariant for disks on which an access failed, or one that says for each label
which tree the disk stands for, on top of `State`. Further, that a line does what `ShellLanguage`
says, which is recursive and therefore apart from `Executor`; and liveness (`CallsReturn`,
`ScreenCatchesUp`), which is out of the prover's reach. Induction over data is, too, in general:
where a fold, a chain or a flattened sequence is proved about, it is by the least length at which
the claim would fail.

## Where code and documents disagree

`PROJECT.json` lists each with its line. One is a run (`editor_save`). The others were met
while modelling and are the reason for an exception that a property makes by name, or lie in
detail a model leaves out: two `..` in one word, `cd ..` leaving `/home/`, copies cut short by
a failed read, an update of a file's entry that fails unheard, clusters lost by a write that
finds the disk full, `/home` never made, settings written over after a failed open, settings
reread by grep, a late
answer of the drive taken for another sector's, an acknowledged write that is lost, a directory
moved into itself, Tab on an empty line, Ctrl-D inside a line, a slot in an unreachable cluster,
`cat >` at the end
of a pipeline, the end of lines that grep drops, and paging keys in the editor.

## Not modelled

  - Boot, GDT, IDT, paging, framebuffer, fonts, icons: straight-line set-up or data.
  - The geometry of the window (`gui_handle_pointer`): `Desktop` has only how much is redrawn.
  - MBR: one read and a comparison. What `IDENTIFY` says of the drive is one value.
  - Splitting into words, wildcards, echo's escapes, and the output of the commands that only
    read (`ls`, `tree`, `grep`, `head`, `wc`, `mem`, `paging`).
  - Time stamps of the history, colours, wording; the clock's fields but for the second.
  - `config_set`, which nothing calls.
  - `gui_init`'s allocation with interrupts on; what a double free would do (no caller does).

## Plan

Done: heap with proofs, FAT32, files and paths with first boot and settings, editor, terminal
and line editor, history, command executor, keyboard, ATA driver, desktop loop. Next:
  1. Proofs: the refinement of `FileStore` by `Fat32`, from `State` and the tree it stands for.
  2. `Window`: moving, resizing, maximising and the rectangles to redraw, over `Desktop`.
  3. The text operators of `commands.c` (words, quotes, wildcards) against reference
     definitions.
