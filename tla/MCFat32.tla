------------------------------ MODULE MCFat32 ------------------------------
(***************************************************************************)
(* A small disk of two slots per cluster for TLC.  The two names fill the  *)
(* root; a subdirectory is full with its dot entries, so that its first    *)
(* file extends it; and a file of three pieces takes two clusters.         *)
(***************************************************************************)
EXTENDS Fat32

CONSTANTS a, b    \* names; "c" does not fit the 8.3 pattern

MCShortNames == {a, b}
MCPaths      == {<<a>>, <<b>>, <<a, b>>}
MCMoves      == {<<<<b>>, <<a, b>>>>}

Pieces(v, n) == [i \in 1..n |-> Byte(<<v, i>>)]
\* Exploration stops where a removal or a move was cut short, ...
NotTorn == ~torn

\* ... or at the end of the call in which a disk access failed.
OneFaultyCall == pc # "idle" \/ ~failed

FewPaths     == {<<a>>, <<a, b>>}
FewMoves     == {<<<<a>>, <<b>>>>, <<<<a, b>>, <<b>>>>}
MCInputs     == {Pieces(1, 3)}
=============================================================================
