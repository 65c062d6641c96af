------------------------------- MODULE Paths -------------------------------
(***************************************************************************)
(* Paths as the shell resolves them (lib/path.c) and as a user means them. *)
(* What a user types is an input [abs, parts]; what resolve_path writes is *)
(* a text [names, slash], where slash tells whether the text ends in '/'.  *)
(* FAT32 reads several '/' in a row as one, and so does a text here.       *)
(***************************************************************************)
EXTENDS Naturals, Sequences, SequencesExt

Text(names, slash) == [names |-> names, slash |-> slash]

RootText == Text(<<>>, TRUE)

\* Mistaken: the name stays, only a '/' is put after it.
ParentStays(out) == IF out.slash THEN out ELSE Text(out.names, TRUE)

\* path_parent cuts the text back to its last '/', which it keeps.
path_parent(out) == IF out.slash THEN out ELSE Text(Front(out.names), TRUE)

path_part(out, part) ==
  CASE part = "."  -> out
    [] part = ".." -> path_parent(out)
    [] OTHER       -> Text(Append(out.names, part), FALSE)

path_append(out, parts) == FoldLeft(path_part, out, parts)

resolve_path(cwd, input) ==
  path_append(IF input.abs THEN RootText ELSE path_append(RootText, cwd.names), input.parts)

----------------------------------------------------------------------------
(***************************************************************************)
(* The reference: `..' is the parent directory, wherever it stands.        *)
(***************************************************************************)
Enter(dir, part) ==
  CASE part = "."  -> dir
    [] part = ".." -> IF dir = <<>> THEN dir ELSE Front(dir)
    [] OTHER       -> Append(dir, part)

Meant(cwd, input) == FoldLeft(Enter, IF input.abs THEN <<>> ELSE cwd.names, input.parts)

\* Two `..' with nothing between them: the second one finds a text that ends in '/'.
Climbs(parts) ==
  \E i, j \in DOMAIN parts :
    /\ i < j /\ parts[i] = ".." /\ parts[j] = ".."
    /\ \A n \in (i + 1)..(j - 1) : parts[n] = "."
=============================================================================
