---------------------------- MODULE ShellSyntax ----------------------------
(***************************************************************************)
(* Lines of the shell, as both Executor and ShellLanguage see them.  A line *)
(* is a sequence of pipelines, each with the operator after it ("end" after *)
(* the last), a pipeline a sequence of stages, a stage a command with its   *)
(* redirections.  Text is a sequence of lines of text.                      *)
(*                                                                         *)
(* Assumed: redirections stand outside $(...), texts fit their buffers     *)
(* (4096 bytes between stages, 512 for $(...)), scripts fit one read, and  *)
(* no script runs itself.                                                  *)
(***************************************************************************)
EXTENDS Naturals, Sequences

CONSTANTS
  Paths,      \* names of files
  Words,      \* the lines of text a user writes
  Scripts,    \* names of scripts in /bin
  Body        \* the lines of each script

NULL == "NULL"
Blank == ""   \* an empty line of text

\* What the shell and its commands print themselves.
Messages == {"not found", "command not found", "could not remove",
             "could not overwrite", "could not open", "no background", "no here-document"}

\* A line that only ends: an empty one, for the commands that have no $(...).
NoLine == <<>>

Without(files, path) == [p \in DOMAIN files \ {path} |-> files[p]]
Holding(files, path, text) ==
  [p \in DOMAIN files \cup {path} |-> IF p = path THEN text ELSE files[p]]

TextOf(files, path) == IF path \in DOMAIN files THEN files[path] ELSE <<>>

\* The file after text is redirected to it with > or >>.
Store(files, path, append, text) ==
  Holding(files, path, IF append THEN TextOf(files, path) \o text ELSE text)

\* echo prints what a substitution produced without the line ends after it, and
\* one of its own.
EchoOf(text) ==
  LET last == CHOOSE n \in 0 .. Len(text) :
                /\ \A i \in n + 1 .. Len(text) : text[i] = Blank
                /\ n > 0 => text[n] # Blank
  IN IF last = 0 THEN <<Blank>> ELSE SubSeq(text, 1, last)

\* cat with nothing but an output file reads from the keyboard.
Collects(stage) ==
  stage.to # NULL /\ stage.from = NULL /\ stage.command.name = "cat"
    /\ stage.command.arg = NULL
=============================================================================
