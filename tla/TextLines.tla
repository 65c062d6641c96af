----------------------------- MODULE TextLines -----------------------------
(***************************************************************************)
(* The lines of a sequence of bytes, for the code that reads files line by *)
(* line: the history (kernel/shell/shell.c) and the lost editor            *)
(* (kernel/editor/editor.c).                                               *)
(***************************************************************************)
EXTENDS Integers, Sequences, FiniteSets

\* The members of a set of numbers, least first.
Below(S, x) == {y \in S : y < x}
AtPlace(S, k) == {x \in S : Cardinality(Below(S, x)) = k - 1}
Ordered(S) == [k \in 1..Cardinality(S) |-> CHOOSE x \in AtPlace(S, k) : TRUE]

\* The line that starts at i: up to the next newline, or to the end.
IsLineEnd(bytes, nl, i, j) ==
  /\ j = Len(bytes) \/ bytes[j + 1] = nl
  /\ \A m \in i..j : bytes[m] # nl
LineEnd(bytes, nl, i) == CHOOSE j \in (i - 1)..Len(bytes) : IsLineEnd(bytes, nl, i, j)
LineAt(bytes, nl, i) == SubSeq(bytes, i, LineEnd(bytes, nl, i))

LinesAt(bytes, nl, starts) ==
  [k \in 1..Cardinality(starts) |-> LineAt(bytes, nl, Ordered(starts)[k])]
=============================================================================
