------------------------------- MODULE MCAta -------------------------------
(***************************************************************************)
(* Two sectors of two values, so that an answer can come from the wrong    *)
(* sector and an old value be told from a new one.                         *)
(***************************************************************************)
EXTENDS Ata

CONSTANTS d1, d2
MCData == {d1, d2}
=============================================================================
