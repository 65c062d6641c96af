----------------------------- MODULE MCHistory -----------------------------
(***************************************************************************)
(* Lines of up to two characters and a list of two, so that the third line *)
(* drops the first; the file has room for three lines, and two faults may  *)
(* hit consecutive saves.                                                  *)
(***************************************************************************)
EXTENDS History, TLC

CONSTANTS x, y
MCChars == {x, y}
MCSymmetry == Permutations(MCChars)
=============================================================================
