------------------------------ MODULE History ------------------------------
(***************************************************************************)
(* The shell's command history (kernel/shell/shell.c): the list in memory, *)
(* the place Up and Down have moved to in it, the draft they put aside,    *)
(* and the copy of every line in /history.txt from which the next boot     *)
(* fills the list.  A key is handled inside the keyboard interrupt; only   *)
(* the two writes that save a line are steps of their own, since either    *)
(* may fail and the power may go between them.                             *)
(***************************************************************************)
EXTENDS TextLines, SequencesExt

CONSTANTS
  Chars,          \* characters that can be typed
  NL,             \* '\n'
  HISTORY_LIMIT,  \* entries kept in memory
  BUFFER_SIZE,    \* bytes of input_buffer and of the buffer lines are loaded into
  MaxFile,        \* bound on the length of the file
  MaxFaults       \* bound on the number of failed writes and power losses

ASSUME HistoryAssumption ==
  /\ NL \notin Chars
  /\ HISTORY_LIMIT \in Nat \ {0} /\ BUFFER_SIZE \in Nat \ {0, 1}
  /\ MaxFile \in Nat /\ MaxFaults \in Nat

VARIABLES
  history,        \* the lines, oldest first
  history_pos,    \* index of the line Up and Down are at, 0 for none
  history_draft,
  line,           \* input_buffer[0 .. buffer_len - 1]
  collecting,     \* are lines going to a file until Ctrl-D?
  file,           \* the bytes of /history.txt
  written,        \* bytes a failed write has put behind the end of the file
  saving,         \* "idle", or which write is next: the "line" or the "newline"
  faults,         \* number of failed writes and power losses
  typed,          \* (history) what the user has typed on this line
  stale,          \* (history) was history_pos left standing when a line was entered?
  clean,          \* (history) no fault since the last newline was saved
  saved           \* (history) the lines saved whole, with no fault since the newline before

ghosts == <<typed, stale, clean, saved>>
vars == <<history, history_pos, history_draft, line, collecting, file, written, saving,
          faults, ghosts>>

LastOf(n, s) == SubSeq(s, IF Len(s) > n THEN Len(s) - n + 1 ELSE 1, Len(s))

----------------------------------------------------------------------------
(***************************************************************************)
(* Loading the file.                                                       *)
(***************************************************************************)
\* The lines of the file, a last one without a newline included, none of them empty.
Starts(bytes) == {i \in 1..Len(bytes) : bytes[i] # NL /\ (i = 1 \/ bytes[i - 1] = NL)}
FileLines(bytes) == LinesAt(bytes, NL, Starts(bytes))

\* What does not fit in the line buffer is skipped.
Shortened(s) == IF Len(s) > BUFFER_SIZE - 1 THEN SubSeq(s, 1, BUFFER_SIZE - 1) ELSE s

LoadOldest(bytes) ==
  LET ls == [k \in 1..Len(FileLines(bytes)) |-> Shortened(FileLines(bytes)[k])]
  IN  SubSeq(ls, 1, IF Len(ls) < HISTORY_LIMIT THEN Len(ls) ELSE HISTORY_LIMIT)

\* history_add_loaded for each line, dropping the oldest past the limit.
Load(bytes) ==
  LastOf(HISTORY_LIMIT, [k \in 1..Len(FileLines(bytes)) |-> Shortened(FileLines(bytes)[k])])

\* shell_history_init, after a boot that finds memory for the whole list.
shell_history_init ==
  /\ history' = Load(file) /\ history_pos' = 0
  /\ line' = <<>> /\ collecting' = FALSE /\ history_draft' = <<>>
  /\ saving' = "idle" /\ written' = <<>>
  /\ typed' = <<>> /\ stale' = FALSE
  /\ UNCHANGED file

reboot == saving = "idle" /\ shell_history_init /\ UNCHANGED <<faults, clean, saved>>

\* The power goes while a line is being saved.
power_loss ==
  /\ saving # "idle" /\ faults < MaxFaults
  /\ shell_history_init
  /\ faults' = faults + 1 /\ clean' = FALSE /\ UNCHANGED saved

----------------------------------------------------------------------------
(***************************************************************************)
(* Keys.                                                                   *)
(***************************************************************************)
Ready == saving = "idle"

\* What shell_insert_char and the two deleting keys can make of a line.
Edits(s) ==
  {InsertAt(s, i, c) : i \in 1..(Len(s) + 1), c \in IF Len(s) < BUFFER_SIZE - 1 THEN Chars ELSE {}}
  \cup {RemoveAt(s, i) : i \in 1..Len(s)}

Disk  == <<file, written, saving, faults, clean, saved>>

\* Any key that changes the line stops the navigation.
edit(s) ==
  /\ Ready
  /\ line' = s /\ typed' = s /\ stale' = FALSE
  /\ history_pos' = 0
  /\ UNCHANGED <<history, history_draft, collecting, Disk>>

PrevSavesAlways ==
  /\ Ready /\ history # <<>>
  /\ history_pos' = IF history_pos = 0 THEN Len(history)
                    ELSE IF history_pos = 1 THEN 1 ELSE history_pos - 1
  /\ history_draft' = line
  /\ line' = history[history_pos']
  /\ UNCHANGED <<history, collecting, Disk, typed, stale>>

history_prev ==
  /\ Ready /\ history # <<>>
  /\ history_pos' = IF history_pos = 0 THEN Len(history)
                    ELSE IF history_pos = 1 THEN 1 ELSE history_pos - 1
  /\ history_draft' = IF history_pos = 0 THEN line ELSE history_draft
  /\ line' = history[history_pos']
  /\ UNCHANGED <<history, collecting, Disk, typed, stale>>

history_next ==
  /\ Ready /\ history_pos # 0
  /\ IF history_pos = Len(history) THEN history_pos' = 0 /\ line' = history_draft
     ELSE history_pos' = history_pos + 1 /\ line' = history[history_pos + 1]
  /\ UNCHANGED <<history, history_draft, collecting, Disk, typed, stale>>

AddUnlimited == Append(history, line)

\* The list with the line added, the oldest dropped past the limit.
history_add == LastOf(HISTORY_LIMIT, Append(history, line))

\* The line on the screen is gone; history_pos may stay where it was.
NewLine ==
  /\ line' = <<>> /\ typed' = <<>>
  /\ stale' = (history_pos' # 0)

\* Enter on a line for the shell, which may be one that sends the next lines to a file.
\* Without memory for the entry nothing is kept and nothing is saved.
shell_process ==
  /\ Ready /\ ~collecting
  /\ \/ /\ line # <<>> /\ Len(file) + Len(line) < MaxFile
        /\ history' = history_add /\ history_pos' = 0
        /\ saving' = "line"
     \/ UNCHANGED <<history, history_pos, saving>>
  /\ NewLine
  /\ collecting' \in IF line = <<>> THEN {FALSE} ELSE BOOLEAN
  /\ UNCHANGED <<history_draft, file, written, faults, clean, saved>>

\* Enter and Ctrl-D while lines go to a file.
input_line ==
  /\ Ready /\ collecting
  /\ UNCHANGED <<history, history_pos, history_draft, Disk>>
  /\ NewLine
  /\ collecting' \in BOOLEAN

----------------------------------------------------------------------------
(***************************************************************************)
(* history_persist: the newest line, then a newline, at the end of the     *)
(* file.  A write that fails may have moved the end that the open file     *)
(* remembers, not the one on the disk; the next write goes after it.       *)
(***************************************************************************)
Keys == <<history, history_pos, history_draft, line, collecting, typed, stale>>
Text == Last(history)

PersistAtStart ==
  /\ saving = "line" /\ saving' = "newline"
  /\ file' = Text \o SubSeq(file, Len(Text) + 1, Len(file))
  /\ UNCHANGED <<Keys, written, faults, clean, saved>>

persist_line ==
  /\ saving = "line" /\ saving' = "newline"
  /\ file' = file \o Text
  /\ UNCHANGED <<Keys, written, faults, clean, saved>>

persist_newline ==
  /\ saving = "newline" /\ saving' = "idle"
  /\ file' = file \o written \o <<NL>> /\ written' = <<>>
  /\ IF clean THEN saved' = Append(saved, Text) ELSE UNCHANGED saved
  /\ clean' = TRUE
  /\ UNCHANGED <<Keys, faults>>

\* The file cannot be opened or made ...
open_fails ==
  /\ saving = "line" /\ saving' = "idle"
  /\ faults < MaxFaults /\ faults' = faults + 1 /\ clean' = FALSE
  /\ UNCHANGED <<Keys, file, written, saved>>

\* ... or a write fails.
write_fails ==
  /\ saving # "idle"
  /\ faults < MaxFaults /\ faults' = faults + 1 /\ clean' = FALSE
  /\ IF saving = "line"
     THEN /\ saving' = "newline"
          /\ \E k \in 0..Len(Text) : written' = SubSeq(Text, 1, k)
     ELSE saving' = "idle" /\ written' = <<>>
  /\ UNCHANGED <<Keys, file, saved>>

----------------------------------------------------------------------------
Init ==
  /\ history = <<>> /\ history_pos = 0 /\ history_draft = <<>>
  /\ line = <<>> /\ collecting = FALSE
  /\ file = <<>> /\ written = <<>> /\ saving = "idle" /\ faults = 0
  /\ typed = <<>> /\ stale = FALSE /\ clean = TRUE /\ saved = <<>>

Next ==
  \/ \E s \in Edits(line) : edit(s)
  \/ history_prev \/ history_next
  \/ shell_process \/ input_line
  \/ persist_line \/ persist_newline \/ open_fails \/ write_fails
  \/ reboot \/ power_loss

Spec == Init /\ [][Next]_vars

----------------------------------------------------------------------------
(***************************************************************************)
(* Properties                                                              *)
(***************************************************************************)
\* The list never holds more than HISTORY_LIMIT lines nor an empty one, the place in it is
\* a place in it, and no line is longer than the buffer it was typed in or loaded into.
TypeOK ==
  /\ Len(history) <= HISTORY_LIMIT
  /\ \A k \in 1..Len(history) : history[k] # <<>>
  /\ \A s \in Range(history) \cup {line, typed, history_draft} :
       s \in Seq(Chars) /\ Len(s) < BUFFER_SIZE
  /\ history_pos \in 0..Len(history)
  /\ file \in Seq(Chars \cup {NL}) /\ written \in Seq(Chars)
  /\ saving \in {"idle", "line", "newline"} /\ faults \in 0..MaxFaults
  /\ {collecting, stale, clean} \subseteq BOOLEAN

\* Up and Down show the lines of the list and, past the newest, exactly what the user had
\* typed, whatever was edited or entered in between (unless Enter left history_pos where
\* it was, as it does while lines go to a file).
DraftReturns ==
  ~stale => line = IF history_pos = 0 THEN typed ELSE history[history_pos]

\* A reboot brings back the list as it was: one line of the file for each, the newest
\* ones kept (history_persist against shell_history_init).
ReloadMatches == saving = "idle" /\ faults = 0 => Load(file) = history

\* A failed write or a power loss costs the line being saved and at most the next one:
\* every other line is in the file, whole and in order.
IsSubsequence(s, t) ==
  \E at \in [1..Len(s) -> 1..Len(t)] :
     /\ \A i \in 1..Len(s) : s[i] = t[at[i]]
     /\ \A i, j \in 1..Len(s) : i < j => at[i] < at[j]

SavedSurvives == IsSubsequence(saved, FileLines(file))
=============================================================================
