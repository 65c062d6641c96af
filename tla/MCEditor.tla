------------------------------ MODULE MCEditor ------------------------------
(***************************************************************************)
(* Two lines of two characters on a screen of one column and one text row: *)
(* a typed line scrolls sideways, two lines scroll the window, and a join  *)
(* can fill a line to its last byte or overrun it.                         *)
(***************************************************************************)
EXTENDS Editor

CONSTANTS x, y
MCChars == {x, y}

=============================================================================
