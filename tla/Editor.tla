------------------------------- MODULE Editor -------------------------------
(***************************************************************************)
(* The lost text editor (kernel/editor/editor.c): a fixed array of lines,  *)
(* a cursor, a window of the screen that follows it, and the file behind.  *)
(* Every key is handled inside the keyboard interrupt, so a handler is one *)
(* step; each ends by drawing the screen (editor_render).                  *)
(***************************************************************************)
EXTENDS TextLines, SequencesExt

CONSTANTS
  Chars,               \* printable characters
  NL,                  \* '\n'
  NoFile,              \* there is no file at the path being edited
  EDITOR_LINE_LENGTH,  \* bytes of memory for one line
  EDITOR_MAX_LINES,    \* lines in the array
  VGA_WIDTH,           \* columns of the screen
  VGA_HEIGHT,          \* rows of the screen, the status bar included
  MaxFile              \* bound on the length of the first file

ASSUME EditorAssumption ==
  /\ NL \notin Chars
  /\ NoFile \notin Seq(Chars \cup {NL})
  /\ EDITOR_LINE_LENGTH \in Nat \ {0} /\ EDITOR_MAX_LINES \in Nat \ {0}
  /\ VGA_WIDTH \in Nat \ {0} /\ VGA_HEIGHT \in Nat \ {0, 1}
  /\ MaxFile \in Nat

VARIABLES
  file,             \* the bytes of the file, or NoFile
  editor_active,
  lines,            \* state.lines[0 .. line_count - 1]
  cursor_x, cursor_y,
  scroll_offset,    \* the line in the first row of the screen
  mode,             \* "command" or "insert"
  in_command_line,  \* has ':' been typed?
  modified,
  shown,            \* where the hardware cursor is: <<column, row>>
  saved,            \* (history) was the text read, or last saved, "whole", or only in "part";
                    \* or was it saved and its last line left "unrecorded" in the entry?
  broken            \* (history) a join wrote past the memory of its line

buffer == <<lines, cursor_x, cursor_y, scroll_offset, shown>>
vars   == <<file, editor_active, buffer, mode, in_command_line, modified, saved, broken>>

Bytes   == Chars \cup {NL}
Line(t) == [text |-> t, h_scroll |-> 0]
TextAt(ls, y)  == ls[y + 1].text
LengthAt(ls, y) == Len(TextAt(ls, y))

----------------------------------------------------------------------------
(***************************************************************************)
(* editor_render: the window follows the cursor, line by line and, in the  *)
(* cursor's own line only, column by column.                               *)
(***************************************************************************)
visible_lines == VGA_HEIGHT - 1

ScrollTooLate(off, y) == IF y < off THEN y ELSE IF y > off + visible_lines THEN y - visible_lines
                         ELSE off

VerticalScroll(off, y) ==
  IF y < off THEN y
  ELSE IF y >= off + visible_lines THEN y - visible_lines + 1
  ELSE off

HorizontalScroll(line, x) ==
  IF Len(line.text) <= VGA_WIDTH THEN 0
  ELSE IF x < line.h_scroll THEN x
  ELSE IF x >= line.h_scroll + VGA_WIDTH THEN x - VGA_WIDTH + 1
  ELSE line.h_scroll

\* Every key ends here, with the lines and the cursor it leaves.
editor_render(ls, x, y) ==
  LET h == HorizontalScroll(ls[y + 1], x)
      top == VerticalScroll(scroll_offset, y)
  IN  /\ lines' = [ls EXCEPT ![y + 1].h_scroll = h]
      /\ cursor_x' = x /\ cursor_y' = y
      /\ scroll_offset' = top
      \* Past the last column the cursor stays where it was.
      /\ shown' = IF x - h < VGA_WIDTH THEN <<x - h, y - top>> ELSE shown

----------------------------------------------------------------------------
(***************************************************************************)
(* Files.                                                                  *)
(***************************************************************************)
Split(bytes) == LinesAt(bytes, NL, {i \in 1..Len(bytes) : i = 1 \/ bytes[i - 1] = NL})

AtMost(n, s) == SubSeq(s, 1, IF Len(s) < n THEN Len(s) ELSE n)

\* The lines editor_load_from_file keeps: not more, and not longer, than there is room for.
editor_load_from_file(bytes) ==
  LET read == AtMost(EDITOR_MAX_LINES * EDITOR_LINE_LENGTH, bytes)
      kept == AtMost(EDITOR_MAX_LINES, Split(read))
  IN  IF kept = <<>> THEN <<Line(<<>>)>>
      ELSE [k \in 1..Len(kept) |-> Line(AtMost(EDITOR_LINE_LENGTH - 1, kept[k]))]

\* What editor_save writes.
Flat(ls) == FlattenSeq([k \in 1..Len(ls) |-> Append(ls[k].text, NL)])

\* The ends of its lines in that.
EndsOfLines(ls) == {Len(Flat(SubSeq(ls, 1, k))) : k \in 0..Len(ls)}

\* vfs_write from offset 0 on: the rest of a longer file stays.
Overwrite(old, bytes) == bytes \o SubSeq(old, Len(bytes) + 1, Len(old))

\* What the file then shows: it is as long as its entry says, and the last update of the
\* entry that was done said u.  A write whose update fails is short by nothing.
Recorded(old, bytes, u) ==
  SubSeq(Overwrite(old, bytes), 1, IF u > Len(old) THEN u ELSE Len(old))

\* editor_open, with a file that can be read; a failing disk is modelled in Fat32.
editor_open ==
  LET ls == IF file = NoFile THEN <<Line(<<>>)>> ELSE editor_load_from_file(file)
  IN  /\ ~editor_active /\ ~broken
      /\ editor_active' = TRUE
      /\ lines' = [ls EXCEPT ![1].h_scroll = 0]
      /\ cursor_x' = 0 /\ cursor_y' = 0 /\ scroll_offset' = 0 /\ shown' = <<0, 0>>
      /\ mode' = "command" /\ modified' = FALSE
      /\ saved' = IF file # NoFile /\ file = Flat(ls) THEN "whole" ELSE "part"
      /\ UNCHANGED <<file, in_command_line, broken>>

\* Mistaken: a write that stops short is not looked at.
FlagClearedOnError ==
  \E n \in 0..Len(Flat(lines)) :
     /\ file' = Overwrite(IF file = NoFile THEN <<>> ELSE file, SubSeq(Flat(lines), 1, n))
     /\ modified' = FALSE /\ saved' = "whole"

\* editor_save: the file may be impossible to create, a write may stop short after n bytes,
\* and the update of the file's entry may fail after any line without a word.
editor_save ==
  LET old  == IF file = NoFile THEN <<>> ELSE file
      text == Flat(lines)
  IN  \/ /\ file = NoFile
         /\ UNCHANGED <<file, modified, saved>>
      \/ \E n \in 0..Len(text) : \E u \in EndsOfLines(lines) \cap (0..n) :
           /\ file' = Recorded(old, SubSeq(text, 1, n), u)
           /\ IF n = Len(text)
              THEN modified' = FALSE /\ saved' = IF u = n THEN "whole" ELSE "unrecorded"
              ELSE UNCHANGED <<modified, saved>>

----------------------------------------------------------------------------
(***************************************************************************)
(* Keys: the arrows work in every mode.                                    *)
(***************************************************************************)
Redraw == editor_render(lines, cursor_x, cursor_y)

Editing == editor_active /\ ~broken
Typing  == Editing /\ mode = "insert" /\ ~in_command_line
Rest    == UNCHANGED <<file, editor_active, mode, in_command_line, modified, saved, broken>>
Edited  == /\ modified' = TRUE
           /\ UNCHANGED <<file, editor_active, mode, in_command_line, saved, broken>>

key_left ==
  /\ Editing
  /\ editor_render(lines, IF cursor_x > 0 THEN cursor_x - 1 ELSE 0, cursor_y)
  /\ Rest

key_right ==
  /\ Editing
  /\ editor_render(lines, IF cursor_x < LengthAt(lines, cursor_y) THEN cursor_x + 1
                          ELSE cursor_x, cursor_y)
  /\ Rest

Clamped(y) == IF cursor_x > LengthAt(lines, y) THEN LengthAt(lines, y) ELSE cursor_x

UpUnclamped == /\ Editing /\ cursor_y > 0
               /\ editor_render(lines, cursor_x, cursor_y - 1)
               /\ Rest

key_up ==
  /\ Editing
  /\ IF cursor_y > 0 THEN editor_render(lines, Clamped(cursor_y - 1), cursor_y - 1) ELSE Redraw
  /\ Rest

key_down ==
  /\ Editing
  /\ IF cursor_y < Len(lines) - 1 THEN editor_render(lines, Clamped(cursor_y + 1), cursor_y + 1)
     ELSE Redraw
  /\ Rest

----------------------------------------------------------------------------
(***************************************************************************)
(* Keys in insert mode.                                                    *)
(***************************************************************************)
editor_insert_char(c) ==
  LET text == TextAt(lines, cursor_y)
      new  == SubSeq(text, 1, cursor_x) \o <<c>> \o SubSeq(text, cursor_x + 1, Len(text))
  IN  /\ Typing
      /\ IF Len(text) >= EDITOR_LINE_LENGTH - 1 THEN Redraw /\ Rest
         ELSE editor_render([lines EXCEPT ![cursor_y + 1].text = new], cursor_x + 1, cursor_y)
              /\ Edited

\* Backspace within a line ...
delete_in_line ==
  LET text == TextAt(lines, cursor_y)
      new  == SubSeq(text, 1, cursor_x - 1) \o SubSeq(text, cursor_x + 1, Len(text))
  IN  /\ Typing /\ cursor_x > 0
      /\ editor_render([lines EXCEPT ![cursor_y + 1].text = new], cursor_x - 1, cursor_y)
      /\ Edited

\* ... and at its start, where it joins the line to the one before: what does not fit
\* in that line's memory is written over its length and the line after it.
join_lines ==
  LET prev == lines[cursor_y]
      text == prev.text \o TextAt(lines, cursor_y)
  IN  /\ Typing /\ cursor_x = 0
      /\ IF cursor_y = 0 THEN Redraw /\ Rest
         ELSE IF Len(text) > EDITOR_LINE_LENGTH
         THEN broken' = TRUE
              /\ UNCHANGED <<buffer, file, editor_active, mode, in_command_line, modified, saved>>
         ELSE editor_render(RemoveAt([lines EXCEPT ![cursor_y].text = text], cursor_y + 1),
                            Len(prev.text), cursor_y - 1)
              /\ Edited

NewLineUnmarked ==
  LET text == TextAt(lines, cursor_y)
  IN  /\ Typing /\ Len(lines) < EDITOR_MAX_LINES
      /\ editor_render(
           InsertAt([lines EXCEPT ![cursor_y + 1].text = SubSeq(text, 1, cursor_x)],
                    cursor_y + 2, Line(SubSeq(text, cursor_x + 1, Len(text)))),
           0, cursor_y + 1)
      /\ Rest

NewLineKeepsTail ==
  LET text == TextAt(lines, cursor_y)
  IN  /\ Typing /\ Len(lines) < EDITOR_MAX_LINES
      /\ editor_render(InsertAt(lines, cursor_y + 2, Line(SubSeq(text, cursor_x + 1, Len(text)))),
                       0, cursor_y + 1)
      /\ Edited

editor_new_line ==
  LET text  == TextAt(lines, cursor_y)
      split == InsertAt([lines EXCEPT ![cursor_y + 1].text = SubSeq(text, 1, cursor_x)],
                        cursor_y + 2, Line(SubSeq(text, cursor_x + 1, Len(text))))
  IN  /\ Typing
      /\ IF Len(lines) >= EDITOR_MAX_LINES THEN Redraw /\ Rest
         ELSE editor_render(split, 0, cursor_y + 1) /\ Edited

----------------------------------------------------------------------------
(***************************************************************************)
(* Modes and the command line.                                             *)
(***************************************************************************)
set_mode ==
  /\ Editing /\ ~in_command_line
  /\ mode' = IF mode = "command" THEN "insert" ELSE "command"   \* 'i' and Escape
  /\ Redraw
  /\ UNCHANGED <<file, editor_active, in_command_line, modified, saved, broken>>

colon ==
  /\ Editing /\ ~in_command_line /\ mode = "command"
  /\ in_command_line' = TRUE
  /\ Redraw
  /\ UNCHANGED <<file, editor_active, mode, modified, saved, broken>>

\* Enter after w, q, wq or anything else; Escape does what Enter after anything else does.
enter_command(c) ==
  /\ Editing /\ in_command_line
  /\ in_command_line' = FALSE
  /\ IF c \in {"w", "wq"} THEN editor_save ELSE UNCHANGED <<file, modified, saved>>
  /\ IF c \in {"q", "wq"} THEN editor_active' = FALSE /\ UNCHANGED buffer
     ELSE Redraw /\ UNCHANGED editor_active
  /\ UNCHANGED <<mode, broken>>

Init ==
  /\ file \in {NoFile} \cup BoundedSeq(Bytes, MaxFile)
  /\ editor_active = FALSE
  /\ lines = <<Line(<<>>)>> /\ cursor_x = 0 /\ cursor_y = 0 /\ scroll_offset = 0
  /\ shown = <<0, 0>>
  /\ mode = "command" /\ in_command_line = FALSE /\ modified = FALSE
  /\ saved = "part" /\ broken = FALSE

Next ==
  \/ editor_open
  \/ key_left \/ key_right \/ key_up \/ key_down
  \/ \E c \in Chars : editor_insert_char(c)
  \/ delete_in_line \/ join_lines \/ editor_new_line
  \/ set_mode \/ colon
  \/ \E c \in {"w", "q", "wq", "other"} : enter_command(c)

Spec == Init /\ [][Next]_vars

----------------------------------------------------------------------------
(***************************************************************************)
(* Properties                                                              *)
(***************************************************************************)
\* The cursor is always on a character of the text or just after its line; a line never
\* outgrows its memory and the lines never outgrow the array (delete_before_cursor and
\* the arrow keys leave the cursor where the next key will index the array).
TypeOK ==
  /\ file = NoFile \/ file \in Seq(Bytes)
  /\ Len(lines) \in 1..EDITOR_MAX_LINES
  /\ cursor_y \in 0..(Len(lines) - 1)
  /\ cursor_x \in 0..LengthAt(lines, cursor_y)
  /\ \A k \in 1..Len(lines) : /\ lines[k].text \in Seq(Chars)
                              /\ Len(lines[k].text) <= EDITOR_LINE_LENGTH
                              /\ lines[k].h_scroll \in 0..EDITOR_LINE_LENGTH
  /\ scroll_offset \in 0..(EDITOR_MAX_LINES - 1)
  /\ mode \in {"command", "insert"}
  /\ saved \in {"whole", "part", "unrecorded"}
  /\ {editor_active, in_command_line, modified, broken} \subseteq BOOLEAN

\* The window follows the cursor (editor_render): the cursor's line is on the screen, the
\* cursor's column at most one past its right edge.
WindowFollowsCursor ==
  Editing => LET line == lines[cursor_y + 1]
             IN  /\ scroll_offset <= cursor_y /\ cursor_y < scroll_offset + visible_lines
                 /\ line.h_scroll <= cursor_x /\ cursor_x <= line.h_scroll + VGA_WIDTH

\* The modified mark tells the truth.  It goes away only when the file holds the text, from
\* its first byte on (editor_save returns early when a write stops short).  One failure gets
\* past it: when the entry could not be updated after the last line, the file may be too
\* short, but what it has is the text.  And while the mark is not set after a complete load
\* or save, no command changes the file, not even a save that fails half way (every edit
\* sets state.modified).
ModifiedIsHonest ==
  [][Editing => /\ modified /\ ~modified' =>
                     /\ file' # NoFile
                     /\ \/ IsPrefix(Flat(lines), file')
                        \/ saved' = "unrecorded" /\ IsPrefix(file', Flat(lines))
                /\ ~modified /\ saved = "whole" => file' = file]_vars

\* The array of lines behaves as one text with a cursor in it (refinement).
above == FlattenSeq([k \in 1..cursor_y |-> Append(lines[k].text, NL)])
below == FlattenSeq([k \in 1..(Len(lines) - cursor_y - 1) |->
                       <<NL>> \o lines[cursor_y + 1 + k].text])
before == IF editor_active THEN above \o SubSeq(TextAt(lines, cursor_y), 1, cursor_x) ELSE <<>>
after  == IF editor_active
          THEN SubSeq(TextAt(lines, cursor_y), cursor_x + 1, LengthAt(lines, cursor_y)) \o below
          ELSE <<>>
Buffer == INSTANCE TextBuffer WITH Letters <- Bytes, opened <- editor_active

BufferSpec == Buffer!Spec

\* What README.md:153 says of `:w', "Save the file": a save of which no call failed, and
\* which clears the modified mark, leaves a file from which the same text is loaded.
SavedFileIsBuffer ==
  [][Editing /\ modified /\ ~modified' /\ saved' = "whole" => file' = Flat(lines)]_vars
=============================================================================
