------------------------------ MODULE ShellLine ------------------------------
(***************************************************************************)
(* The shell's line editor (kernel/shell/shell.c) on the terminal: the     *)
(* input buffer, the place of the prompt, and what is on the screen.  Each *)
(* key is handled inside the keyboard interrupt and is one step.  What the *)
(* history hands back on Up and Down is modelled in History; what a        *)
(* command prints is any member of Outputs.                                *)
(***************************************************************************)
EXTENDS Terminal

CONSTANTS
  Characters,   \* what is printed
  Letters,      \* characters of a line
  Keys,         \* those that are typed, one key each
  PromptText,   \* what shell_prompt prints
  EofText,      \* what commands_input_eof prints
  Outputs,      \* what a command may print
  Space, Slash, \* ' ' as it is typed, '/'
  Names,        \* names of commands
  Files,        \* [name, dir] of the files in the current directory; others are empty
  ListingText,  \* what Tab prints when several names match
  Recalled,     \* lines the history may hand back
  BUFFER_SIZE,  \* bytes of input_buffer
  MaxRow        \* bound on t_row, which can leave the terminal after a listing

ASSUME ShellAssumption ==
  /\ Keys \subseteq Letters /\ Blank \notin Letters /\ NL \notin Letters
  /\ Letters \subseteq Characters /\ Blank \in Characters
  /\ {PromptText, EofText, ListingText} \subseteq Seq(Characters)
  /\ Outputs \subseteq Seq(Characters) \cup {<<"clear">>}
  \* Wherever in a row it begins, a full line and the cursor after it fit on the screen.
  /\ BUFFER_SIZE \in Nat \ {0} /\ TERMINAL_WIDTH + BUFFER_SIZE <= TERMINAL_WIDTH * TERMINAL_HEIGHT + 1
  /\ \A s \in Recalled : s \in Seq(Letters) /\ Len(s) < BUFFER_SIZE
  /\ Space \in Letters /\ Slash \in Letters
  /\ Names \subseteq Seq(Letters)
  /\ \A f \in Files : f.name \in Seq(Letters)
  /\ MaxRow \in Nat

VARIABLES
  term,          \* the terminal
  input_buffer,  \* the C string in it
  buffer_len, cursor_pos,
  prompt_col, prompt_row,
  collecting,    \* are lines going to a file until Ctrl-D?
  listed,        \* (history) has Tab listed names since the last Enter?
  stray          \* (history) may there be text behind the line since the screen was cleared?

vars == <<term, input_buffer, buffer_len, cursor_pos, prompt_col, prompt_row, collecting, listed, stray>>

Line == SubSeq(input_buffer, 1, buffer_len)

----------------------------------------------------------------------------
(***************************************************************************)
(* Where the line is on the screen.                                        *)
(***************************************************************************)
Col(pos, pcol)       == (pcol + pos) % TERMINAL_WIDTH
Row(pos, pcol, prow) == prow + (pcol + pos) \div TERMINAL_WIDTH

EnsureRowFixed(pcol, prow, len) ==
  LET n == Row(len, pcol, prow) - (TERMINAL_HEIGHT - 1)
  IN  [scrolls |-> IF n > 0 THEN n ELSE 0, row |-> prow]

\* shell_ensure_input_visible: how often to scroll, and where that leaves the prompt.
shell_ensure_input_visible(pcol, prow, len) ==
  LET n == Row(len, pcol, prow) - (TERMINAL_HEIGHT - 1)
  IN  IF n <= 0 THEN [scrolls |-> 0, row |-> prow]
      ELSE [scrolls |-> n, row |-> IF prow > n THEN prow - n ELSE 0]

Scrolled(t, n) == FoldLeft(LAMBDA u, i : t_scroll(u), t, [i \in 1..n |-> i])

MoveSilently(t, pos, prow) ==
  [t EXCEPT !.t_column = Col(pos, prompt_col), !.t_row = Row(pos, prompt_col, prow)]

shell_move_cursor_to(t, pos, prow) ==
  LET col == Col(pos, prompt_col)
      row == Row(pos, prompt_col, prow)
  IN  vga_update_cursor([t EXCEPT !.t_column = col, !.t_row = row], col, row)

\* The characters of text put on the screen from position `from' of the line on.
Drawn(t, text, from, prow) ==
  FoldLeft(LAMBDA u, i : t_putentryat(u, text[i], Col(i - 1, prompt_col),
                                      Row(i - 1, prompt_col, prow)),
           t, [k \in 1..(Len(text) - from) |-> from + k])

RedrawNoBlank(t, text, from, pos, prow) ==
  shell_move_cursor_to(Drawn(t, text, from, prow), pos, prow)

shell_redraw_from(t, text, from, pos, prow) ==
  shell_move_cursor_to(Drawn(t, Append(text, Blank), from, prow), pos, prow)

----------------------------------------------------------------------------
(***************************************************************************)
(* Editing keys.  Edit leaves text in the buffer, pos as the cursor, and   *)
(* the line redrawn from `from' on terminal t, the prompt in row prow.     *)
(***************************************************************************)
Edit(t, text, from, pos, prow) ==
  /\ term' = shell_redraw_from(t, text, from, pos, prow)
  /\ input_buffer' = text /\ buffer_len' = Len(text) /\ cursor_pos' = pos
  /\ prompt_row' = prow
  /\ UNCHANGED <<prompt_col, collecting, listed, stray>>

shell_insert_char(c) ==
  LET see == shell_ensure_input_visible(prompt_col, prompt_row, buffer_len + 1)
  IN  /\ buffer_len < BUFFER_SIZE - 1
      /\ Edit(Scrolled(term, see.scrolls), InsertAt(Line, cursor_pos + 1, c),
              cursor_pos, cursor_pos + 1, see.row)

shell_delete_before_cursor ==
  /\ cursor_pos > 0
  /\ Edit(term, RemoveAt(Line, cursor_pos), cursor_pos - 1, cursor_pos - 1, prompt_row)

shell_delete_at_cursor ==
  /\ cursor_pos < buffer_len
  /\ Edit(term, RemoveAt(Line, cursor_pos + 1), cursor_pos, cursor_pos, prompt_row)

MoveTo(pos) ==
  /\ cursor_pos' = pos
  /\ term' = shell_move_cursor_to(term, pos, prompt_row)
  /\ UNCHANGED <<input_buffer, buffer_len, prompt_col, prompt_row, collecting, listed, stray>>

shell_move_left  == cursor_pos > 0 /\ MoveTo(cursor_pos - 1)

MoveRightAnywhere == buffer_len > 0 /\ MoveTo(cursor_pos + 1)

shell_move_right == cursor_pos < buffer_len /\ MoveTo(cursor_pos + 1)

\* Up and Down: the line that replaces the input, padded over what was longer.
shell_replace_input(s) ==
  LET see    == shell_ensure_input_visible(prompt_col, prompt_row, Len(s))
      padded == s \o [i \in 1..(IF buffer_len > Len(s) THEN buffer_len - Len(s) ELSE 0) |-> Blank]
  IN  /\ term' = shell_move_cursor_to(Drawn(Scrolled(term, see.scrolls), padded, 0, see.row),
                                      Len(s), see.row)
      /\ input_buffer' = s /\ buffer_len' = Len(s) /\ cursor_pos' = Len(s)
      /\ prompt_row' = see.row
      /\ UNCHANGED <<prompt_col, collecting, listed, stray>>

page(t) ==
  /\ term' = t
  /\ UNCHANGED <<input_buffer, buffer_len, cursor_pos, prompt_col, prompt_row, collecting, listed, stray>>

page_up   == page(t_scroll_view_up(term))
page_down == page(t_scroll_view_down(term))

----------------------------------------------------------------------------
(***************************************************************************)
(* The prompt, Enter, Ctrl-D and Tab.                                      *)
(***************************************************************************)
\* shell_prompt on terminal t: the cursor's cell is blanked and the line starts there.
shell_prompt(t) ==
  LET p == t_print(t, PromptText)
  IN  /\ term' = vga_update_cursor(t_putentryat(p, Blank, p.t_column, p.t_row),
                                   p.t_column, p.t_row)
      /\ prompt_col' = p.t_column /\ prompt_row' = p.t_row

\* A line that goes to a file, or comes from it: no prompt is printed.
NoPrompt(t) ==
  /\ term' = vga_update_cursor(t, t.t_column, t.t_row)
  /\ prompt_col' = t.t_column /\ prompt_row' = t.t_row

\* The terminal after Enter, the cursor put behind the line and the row ended.
Entered ==
  LET see == shell_ensure_input_visible(prompt_col, prompt_row, buffer_len)
  IN  t_putchar([Scrolled(term, see.scrolls) EXCEPT
                   !.t_column = Col(buffer_len, prompt_col),
                   !.t_row = Row(buffer_len, prompt_col, see.row)], NL)

\* What the command leaves: it clears the screen, or prints.
AfterCommand(o) == IF o = <<"clear">> THEN t_clear ELSE t_print(Entered, o)

\* Only the counters are reset: the text of the line stays in input_buffer.
shell_process(o) ==
  /\ \/ ~collecting /\ shell_prompt(AfterCommand(o)) /\ UNCHANGED collecting
     \/ ~collecting /\ NoPrompt(AfterCommand(o)) /\ collecting' = TRUE    \* "cat > file" and "cat >> file"
     \/ collecting /\ o # <<"clear">> /\ NoPrompt(AfterCommand(o)) /\ UNCHANGED collecting
  /\ buffer_len' = 0 /\ cursor_pos' = 0
  /\ input_buffer' = Line
  /\ listed' = FALSE
  /\ stray' = (stray /\ o # <<"clear">>)

\* Ctrl-D prints at the cursor, and the rest of a line it stands in stays where it is.
eof ==
  /\ collecting /\ collecting' = FALSE
  /\ shell_prompt(t_print(term, EofText))
  /\ buffer_len' = 0 /\ cursor_pos' = 0 /\ input_buffer' = <<>>
  /\ stray' = (stray \/ cursor_pos < buffer_len)
  /\ UNCHANGED listed

(***************************************************************************)
(* Tab (commands.c): without a space in the buffer it looks for commands,  *)
(* else for files whose name begins like the last word.  Of several        *)
(* commands nothing is typed, of several files what they have in common.   *)
(***************************************************************************)
\* The rest of s after its last c.
After(c, s) == SubSeq(s, (IF Contains(s, c) THEN SelectLastInSeq(s, LAMBDA x : x = c) ELSE 0) + 1, Len(s))

autocomplete_command ==
  LET found == {n \in Names : IsPrefix(input_buffer, n)}
  IN  [matches |-> Cardinality(found),
       rest |-> IF Cardinality(found) # 1 THEN <<>>
                ELSE LET name == CHOOSE n \in found : TRUE
                     IN  SubSeq(name, Len(input_buffer) + 1, Len(name))]

\* The files of the directory that the last word names, up to its last slash.
FilesFor(word) == IF Contains(word, Slash) THEN {} ELSE Files

autocomplete_path(word) ==
  LET prefix == After(Slash, word)
      found  == {f \in FilesFor(word) : IsPrefix(prefix, f.name)}
      common == LongestCommonPrefix({f.name : f \in found})
  IN  [matches |-> Cardinality(found),
       rest |-> IF found = {} THEN <<>>
                ELSE SubSeq(common, Len(prefix) + 1, Len(common))
                     \o IF Cardinality(found) = 1 /\ \A f \in found : f.dir THEN <<Slash>> ELSE <<>>]

autocomplete_input ==
  IF Contains(input_buffer, Space) THEN autocomplete_path(After(Space, input_buffer))
  ELSE autocomplete_command

\* rest typed at the cursor, as far as there is room for it.
Typed(rest) ==
  LET room  == BUFFER_SIZE - 1 - buffer_len
      added == SubSeq(rest, 1, IF Len(rest) > room THEN room ELSE Len(rest))
      see   == shell_ensure_input_visible(prompt_col, prompt_row, buffer_len + Len(added))
      text  == SubSeq(Line, 1, cursor_pos) \o added \o SubSeq(Line, cursor_pos + 1, buffer_len)
      pos   == cursor_pos + Len(added)
  IN  IF added = <<>>
      THEN [term |-> term, text |-> input_buffer, len |-> buffer_len, pos |-> cursor_pos,
            row |-> prompt_row]
      ELSE [term |-> shell_redraw_from(Scrolled(term, see.scrolls), text, cursor_pos, pos, see.row),
            text |-> text, len |-> Len(text), pos |-> pos, row |-> see.row]

Completed(c) ==
  /\ input_buffer' = c.text /\ buffer_len' = c.len /\ cursor_pos' = c.pos
  /\ UNCHANGED collecting

complete(c) ==
  /\ Completed(c)
  /\ term' = c.term /\ prompt_row' = c.row
  /\ UNCHANGED <<prompt_col, listed, stray>>

\* Several matches are listed, and the prompt and the buffer printed again, which may be
\* longer than the line.
Relisted(p, text) ==
  /\ term' = t_print(vga_update_cursor(t_putentryat(p, Blank, p.t_column, p.t_row),
                                       p.t_column, p.t_row), text)
  /\ prompt_col' = p.t_column /\ prompt_row' = p.t_row

list_matches(c) ==
  /\ term.t_row <= MaxRow
  /\ Completed(c)
  /\ Relisted(t_print(t_print(c.term, ListingText), PromptText), c.text)
  /\ listed' = TRUE /\ stray' = (stray \/ Len(c.text) > c.len)

tab ==
  \/ autocomplete_input.matches = 1 /\ complete(Typed(autocomplete_input.rest))
  \/ autocomplete_input.matches > 1 /\ list_matches(Typed(autocomplete_input.rest))

Init ==
  LET p == t_print(t_clear, PromptText)
  IN  /\ term = p
      /\ prompt_col = p.t_column /\ prompt_row = p.t_row
      /\ input_buffer = <<>> /\ buffer_len = 0 /\ cursor_pos = 0
      /\ collecting = FALSE /\ listed = FALSE /\ stray = FALSE

Editing ==
  \/ \E c \in Keys : shell_insert_char(c)
  \/ shell_delete_before_cursor \/ shell_delete_at_cursor
  \/ shell_move_left \/ shell_move_right
  \/ \E s \in Recalled : shell_replace_input(s)

Next ==
  \/ Editing
  \/ page_up \/ page_down
  \/ \E o \in Outputs : shell_process(o)
  \/ eof
  \/ tab

Spec == Init /\ [][Next]_vars

----------------------------------------------------------------------------
(***************************************************************************)
(* Properties                                                              *)
(***************************************************************************)
\* The counters stay inside the buffer and, unless Tab has listed names, the cursor and
\* the prompt inside the terminal.
TypeOK ==
  /\ buffer_len \in 0..(BUFFER_SIZE - 1) /\ cursor_pos \in 0..buffer_len
  /\ input_buffer \in Seq(Letters) /\ buffer_len <= Len(input_buffer)
  /\ prompt_col \in Columns /\ term.t_column \in Columns
  /\ ~listed => prompt_row \in Rows /\ term.t_row \in Rows
  /\ term.t_view_offset \in 0..Len(term.t_scrollback)
  /\ Len(term.t_scrollback) <= VGA_SCROLLBACK_HEIGHT
  /\ {collecting, listed, stray} \subseteq BOOLEAN

\* After every key the line being typed is on the screen from the prompt on, with a blank
\* after it, however the screen was scrolled and wherever the cursor was when the key came
\* (shell_redraw_from repaints only from the cursor on).  Listing names with Tab breaks
\* this until the next Enter; the blank is only sure while no text was left behind a line,
\* which Ctrl-D inside a line does, and Tab on an empty one (stray).
\* The hardware cursor is where the next character will be typed, unless the user is
\* looking at the scrollback.
InputOnScreen ==
  ~listed =>
    /\ \A i \in 0..(IF stray THEN buffer_len - 1 ELSE buffer_len) :
         term.t_screen[Row(i, prompt_col, prompt_row)][Col(i, prompt_col)] = Append(Line, Blank)[i + 1]
    /\ term.t_view_offset = 0 =>
         term.cursor = <<Col(cursor_pos, prompt_col), Row(cursor_pos, prompt_col, prompt_row)>>

\* Text memory is patched cell by cell and redrawn as a whole only now and then, yet it
\* always shows the part of the scrollback and the screen the user has paged to.  (After a
\* listing an empty line recalled while the view is paged back scrolls and draws nothing.)
ViewIsShown ==
  ~listed \/ term.t_view_offset = 0 => term.t_buffer = View(term)

\* Editing the line touches no character printed before it: the text up to the prompt,
\* scrollback included, loses at most its oldest rows.
Above ==
  LET back == Len(term.t_scrollback)
  IN  [i \in 1..((back + prompt_row) * TERMINAL_WIDTH + prompt_col) |->
         LET row == (i - 1) \div TERMINAL_WIDTH
         IN  (IF row < back THEN term.t_scrollback[row + 1] ELSE term.t_screen[row - back])
               [(i - 1) % TERMINAL_WIDTH]]

EditsStayInLine == [][~listed /\ Editing => IsSuffix(Above', Above)]_vars
=============================================================================
