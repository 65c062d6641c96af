---------------------------- MODULE MCShellLine ----------------------------
(***************************************************************************)
(* A terminal of three rows of two characters, so that a line of three or  *)
(* four wraps once or twice and pushes the prompt up.  The prompt is empty *)
(* and an output may end inside a row, so that a line begins in either     *)
(* column.                                                                 *)
(***************************************************************************)
EXTENDS ShellLine

CONSTANTS x, y, sp, slash, out

MCLetters    == {x, y, sp, slash}
MCCharacters == MCLetters \cup {out, Blank, NL}
MCKeys       == {x}
MCPrompt     == <<>>
MCEof        == <<out, NL>>
MCOutputs    == {<<out>>, <<"clear">>}
MCNames      == {<<x, x, y>>, <<x, y>>}
MCListing    == <<NL, out, NL>>
MCFiles      == {[name |-> <<x>>, dir |-> FALSE], [name |-> <<x, x>>, dir |-> TRUE]}
MCRecalled   == {<<>>, <<sp>>}
=============================================================================
