----------------------------- MODULE TextBuffer -----------------------------
(***************************************************************************)
(* What the lost editor promises the person typing: one text with a        *)
(* cursor in it.  A key inserts or removes the character at the cursor, or *)
(* moves the cursor; nothing else in the text ever changes.                *)
(***************************************************************************)
EXTENDS Integers, Sequences

CONSTANT Letters     \* what can be typed; the end of a line is a letter here

VARIABLES
  opened,   \* is a text being edited?
  before,   \* the text before the cursor
  after,    \* the text from the cursor on
  broken    \* was a line made longer than the editor's memory for it?

vars == <<opened, before, after, broken>>

Init == ~opened /\ before = <<>> /\ after = <<>> /\ ~broken

Open  == /\ ~opened /\ opened'
         /\ before' = <<>> /\ after' \in Seq(Letters)
         /\ UNCHANGED broken

Close == /\ opened /\ ~opened'
         /\ before' = <<>> /\ after' = <<>>
         /\ UNCHANGED broken

Insert(c) == /\ opened
             /\ before' = Append(before, c)
             /\ UNCHANGED <<opened, after, broken>>

Backspace == /\ opened /\ before # <<>>
             /\ before' = SubSeq(before, 1, Len(before) - 1)
             /\ UNCHANGED <<opened, after, broken>>

Move == /\ opened
        /\ before' \o after' = before \o after
        /\ UNCHANGED <<opened, broken>>

\* The one way to lose the text: joining two lines that do not fit in one.
Overrun == opened /\ broken' /\ UNCHANGED <<opened, before, after>>

Next == Open \/ Close \/ (\E c \in Letters : Insert(c)) \/ Backspace \/ Move \/ Overrun

Spec == Init /\ [][Next]_vars
=============================================================================
