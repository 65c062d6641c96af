------------------------------ MODULE Terminal ------------------------------
(***************************************************************************)
(* The terminal (kernel/drivers/vga.c) as operators on a record t: the     *)
(* screen it keeps, the rows that have scrolled off its top, how far the   *)
(* view is paged back, where it prints next, and the two things the        *)
(* hardware shows: text memory and cursor.  Colours are left out.          *)
(***************************************************************************)
EXTENDS Integers, SequencesExt

CONSTANTS
  TERMINAL_WIDTH, TERMINAL_HEIGHT,  \* of the screen (also VGA_WIDTH, VGA_HEIGHT)
  VGA_SCROLLBACK_HEIGHT,            \* rows kept after they scroll off
  Blank,                            \* a space
  NL                                \* '\n'

ASSUME TerminalAssumption ==
  /\ TERMINAL_WIDTH \in Nat \ {0} /\ TERMINAL_HEIGHT \in Nat \ {0}
  /\ VGA_SCROLLBACK_HEIGHT \in Nat \ {0}
  /\ Blank # NL

Columns  == 0..(TERMINAL_WIDTH - 1)
Rows     == 0..(TERMINAL_HEIGHT - 1)
BlankRow == [x \in Columns |-> Blank]
BlankScreen == [y \in Rows |-> BlankRow]

\* t_init, t_clear
t_clear == [t_screen |-> BlankScreen, t_scrollback |-> <<>>, t_view_offset |-> 0,
            t_row |-> 0, t_column |-> 0, t_buffer |-> BlankScreen, cursor |-> <<0, 0>>]

\* The rows that should be on display: the view is the screen moved up by t_view_offset.
View(t) ==
  LET start == Len(t.t_scrollback) - t.t_view_offset
  IN  [y \in Rows |-> IF start + y < Len(t.t_scrollback) THEN t.t_scrollback[start + y + 1]
                      ELSE t.t_screen[start + y - Len(t.t_scrollback)]]

vga_update_cursor(t, col, row) == [t EXCEPT !.cursor = <<col, row>>]

t_render_view(t) ==
  LET drawn == [t EXCEPT !.t_buffer = View(t)]
  IN  IF t.t_view_offset = 0 THEN vga_update_cursor(drawn, t.t_column, t.t_row) ELSE drawn

t_scroll_to_bottom(t) ==
  IF t.t_view_offset = 0 THEN t ELSE t_render_view([t EXCEPT !.t_view_offset = 0])

PutWithoutScroll(t, c, x, y) ==
  IF x \notin Columns \/ y \notin Rows THEN t
  ELSE [t EXCEPT !.t_screen[y][x] = c, !.t_buffer[y][x] = c]

t_putentryat(t, c, x, y) ==
  IF x \notin Columns \/ y \notin Rows THEN t
  ELSE [t_scroll_to_bottom(t) EXCEPT !.t_screen[y][x] = c, !.t_buffer[y][x] = c]

t_scroll(t) ==
  LET kept  == Append(t.t_scrollback, t.t_screen[0])
      moved == [t EXCEPT
        !.t_scrollback = IF Len(kept) > VGA_SCROLLBACK_HEIGHT THEN Tail(kept) ELSE kept,
        !.t_screen = [y \in Rows |-> IF y = TERMINAL_HEIGHT - 1 THEN BlankRow ELSE @[y + 1]],
        !.t_row = TERMINAL_HEIGHT - 1]
  IN  IF t.t_view_offset = 0 THEN t_render_view(moved) ELSE moved

t_scroll_view_up(t) ==
  IF t.t_view_offset >= Len(t.t_scrollback) THEN t
  ELSE t_render_view([t EXCEPT !.t_view_offset = @ + 1])

t_scroll_view_down(t) ==
  IF t.t_view_offset = 0 THEN t ELSE t_render_view([t EXCEPT !.t_view_offset = @ - 1])

\* The start of the next row, which may have to be made.
NextRow(t) ==
  IF t.t_row + 1 = TERMINAL_HEIGHT THEN t_scroll([t EXCEPT !.t_column = 0])
  ELSE [t EXCEPT !.t_column = 0, !.t_row = @ + 1]

t_putchar(t, c) ==
  LET b == t_scroll_to_bottom(t)
      p == t_putentryat(b, c, b.t_column, b.t_row)
      n == IF c = NL THEN NextRow(b)
           ELSE IF b.t_column + 1 = TERMINAL_WIDTH THEN NextRow(p)
           ELSE [p EXCEPT !.t_column = @ + 1]
  IN  vga_update_cursor(n, n.t_column, n.t_row)

t_print(t, text) == FoldLeft(t_putchar, t, text)
=============================================================================
