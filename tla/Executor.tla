----------------------------- MODULE Executor -----------------------------
(***************************************************************************)
(* The command executor (kernel/shell/commands.c): operators, pipelines,   *)
(* redirections, $(...), scripts, and lines collected for a file, with the *)
(* captures of kernel/drivers/vga.c that take what commands print.         *)
(*                                                                         *)
(* stack is the C stack, one frame per call in progress, the innermost     *)
(* last; an action is what the innermost function does up to its next call *)
(* or its return.  A frame owns its local buffers: captures write to them  *)
(* and shell_input_data reads from them, both by the index of the owner.   *)
(***************************************************************************)
EXTENDS ShellSyntax, SequencesExt

CONSTANTS
  Lines,      \* every line there is: typed, in a script or in $(...)
  Typed,      \* the lines the user types
  Leftovers,  \* what a buffer nothing was written to may hold
  MaxDepth,   \* T_CAPTURE_MAX_DEPTH
  MaxText     \* bound: no line is typed while a file is longer than this

Texts == Seq(Words \cup Messages \cup {Blank})
Stages == UNION {Range(Head(l).pipeline) : l \in Lines}

\* Lines come from the parser: what is right of an operator is a line, and so is what
\* stands in $(...).
ASSUME ExecutorAssumption ==
  /\ Typed \subseteq Lines /\ Leftovers \subseteq Texts /\ MaxDepth \in Nat
  /\ \A l \in Lines : /\ l # <<>> /\ Head(l).pipeline \in Seq(Stages) \ {<<>>}
                      /\ Head(l).op \in {";", "&&", "||"} => Tail(l) \in Lines
  /\ \A s \in Stages : /\ {s.from, s.to} \subseteq Paths \cup {NULL}
                       /\ s.command.name = "echo" => s.command.arg \in Words
                       /\ s.command.name = "echo$" => s.command.sub \in Lines
  /\ \A n \in Scripts : Body[n] \in Seq(Lines)

VARIABLES
  stack,       \* the calls in progress
  captures,    \* capture_stack: owner of the buffer, and the text in it
  input,       \* shell_input_data: owner of the buffer (0 for NULL), and text
  status,      \* the value the last int function returned
  screen,      \* what the line printed on the terminal
  files,       \* the files, from names to text
  collecting,  \* shell_collecting_path, NULL when not collecting
  line, found, \* (history) the line being executed, the files it found
  stale,       \* (history) a stage was fed what no stage before it wrote
  exceeded,    \* (history) a capture was refused: too many were open
  failed       \* (history) an access to a file failed

ghosts == <<line, found, stale, exceeded, failed>>
vars == <<stack, captures, input, status, screen, files, collecting, ghosts>>

NoInput == [owner |-> 0, text |-> <<>>]
Top == Len(stack)

\* The frames of commands_execute, shell_execute_pipeline, shell_execute_stage,
\* commands_execute_simple and script_execute.  at says which call a frame waits
\* for, or "call" before the first.
LineFrame(l) == [kind |-> "line", line |-> l, at |-> "call"]
PipelineFrame(p) ==
  [kind |-> "pipeline", stages |-> p, input |-> <<>>, output |-> <<>>,
   written |-> FALSE, fresh |-> FALSE, at |-> "call"]
StageFrame(s, last) ==
  [kind |-> "stage", stage |-> s, last |-> last, old |-> NoInput, at |-> "call"]
SimpleFrame(c) == [kind |-> "simple", command |-> c, at |-> "call"]
ScriptFrame(n) == [kind |-> "script", lines |-> Body[n], at |-> "call"]

In(kind, at) == stack # <<>> /\ stack[Top].kind = kind /\ stack[Top].at = at
Waiting(at) == [stack EXCEPT ![Top].at = at]
Return(s) == stack' = Front(stack) /\ status' = s

-----------------------------------------------------------------------------
(***************************************************************************)
(* Captures.  What is printed goes to the innermost one.                   *)
(***************************************************************************)
CaptureAlways(owner) ==
  captures' = Append(captures, [owner |-> owner, text |-> <<>>]) /\ UNCHANGED exceeded

\* The one asked for beyond the last is refused without a word.
t_capture_begin(owner) ==
  IF Len(captures) < MaxDepth
  THEN captures' = Append(captures, [owner |-> owner, text |-> <<>>]) /\ UNCHANGED exceeded
  ELSE exceeded' = TRUE /\ UNCHANGED captures

\* t_capture_end closes whatever capture is innermost.
t_capture_end == IF captures = <<>> THEN captures ELSE Front(captures)

\* What the buffer of owner holds then: its own text, when the capture was its own.
captured(owner) ==
  IF captures # <<>> /\ Last(captures).owner = owner THEN {Last(captures).text} ELSE Leftovers

t_putchar(open, text) ==
  IF open = <<>> THEN captures' = open /\ screen' = screen \o text
  ELSE captures' = [open EXCEPT ![Len(open)].text = @ \o text] /\ UNCHANGED screen

t_print(text) == t_putchar(captures, text)

-----------------------------------------------------------------------------
\* shell_process: Enter, when no lines are collected.
shell_process(l) ==
  /\ stack = <<>> /\ collecting = NULL
  /\ \A p \in DOMAIN files : Len(files[p]) <= MaxText
  /\ stack' = <<LineFrame(l)>>
  /\ line' = l /\ found' = files /\ screen' = <<>> /\ status' = 0
  /\ stale' = FALSE /\ exceeded' = FALSE /\ failed' = FALSE
  /\ UNCHANGED <<captures, input, files, collecting>>

\* The first operator decides: two are refused, the others run what is left of it.
commands_execute ==
  /\ In("line", "call")
  /\ LET op == Head(stack[Top].line).op
     IN \/ /\ op \in {"&", "<<"}
           /\ t_print(IF op = "&" THEN <<"no background">> ELSE <<"no here-document">>)
           /\ Return(status)
        \/ /\ op \notin {"&", "<<"}
           /\ stack' = Append(Waiting("left"), PipelineFrame(Head(stack[Top].line).pipeline))
           /\ UNCHANGED <<captures, screen, status>>
  /\ UNCHANGED <<input, files, collecting, ghosts>>

\* What is right of the operator is executed as a line of its own.
commands_execute_right ==
  /\ In("line", "left")
  /\ LET op == Head(stack[Top].line).op
         goes == \/ op = ";"
                 \/ op = "&&" /\ status = 0
                 \/ op = "||" /\ status # 0
     IN stack' = IF goes THEN [stack EXCEPT ![Top] = LineFrame(Tail(@.line))]
                 ELSE Front(stack)
  /\ UNCHANGED <<captures, input, status, screen, files, collecting, ghosts>>

shell_execute_pipeline ==
  /\ In("pipeline", "call")
  /\ LET stages == stack[Top].stages
     IN stack' = Append([stack EXCEPT ![Top].at = "stage", ![Top].fresh = FALSE],
                        StageFrame(Head(stages), Len(stages) = 1))
  /\ UNCHANGED <<captures, input, status, screen, files, collecting, ghosts>>

\* The text a stage produced is copied for the next one; output keeps what an
\* earlier stage left there, or was never written, when the stage gave up early.
shell_pipeline_next ==
  /\ In("pipeline", "stage")
  /\ LET f == stack[Top]
     IN IF Len(f.stages) = 1 THEN Return(status) /\ UNCHANGED stale
        ELSE /\ \E text \in IF f.written THEN {f.output} ELSE Leftovers :
                  stack' = [stack EXCEPT ![Top] = [f EXCEPT !.stages = Tail(f.stages),
                                                            !.input = text, !.at = "call"]]
             /\ stale' = (stale \/ ~f.fresh)
             /\ UNCHANGED status
  /\ UNCHANGED <<captures, input, screen, files, collecting, line, found, exceeded, failed>>

-----------------------------------------------------------------------------
\* The files when a text was not written whole, or was written and the update of the
\* file's entry failed: the file is as long as its entry says, and shows nothing of it.
Unrecorded(path, append) == Store(files, path, append, <<>>)

\* shell_begin_input_redirect, for "cat > file" and "cat >> file".
shell_begin_input_redirect ==
  /\ In("stage", "call") /\ Collects(stack[Top].stage)
  /\ LET s == stack[Top].stage
     IN \/ /\ files' = Store(files, s.to, s.append, <<>>)
           /\ collecting' = s.to
           /\ Return(0) /\ UNCHANGED <<captures, screen, failed>>
        \/ /\ ~failed /\ failed' = TRUE
           /\ files' \in {files, IF s.append THEN files ELSE Without(files, s.to)}
           /\ t_print(<<"could not open">>)
           /\ Return(1) /\ UNCHANGED collecting
  /\ UNCHANGED <<input, line, found, stale, exceeded>>

Missing(s) == s.from # NULL /\ s.from \notin DOMAIN files
Captured(f) == ~f.last \/ f.stage.to # NULL

\* A stage reads what the one before wrote, or a file it reads into its own buffer.
InputInherited(s) ==
  IF s.from # NULL THEN [owner |-> Top, text |-> files[s.from]]
  ELSE IF stack[Top - 1].input = <<>> THEN input
  ELSE [owner |-> Top - 1, text |-> stack[Top - 1].input]

StageInput(s) ==
  IF s.from # NULL THEN [owner |-> Top, text |-> files[s.from]]
  ELSE [owner |-> Top - 1, text |-> stack[Top - 1].input]

MissingAfterCapture ==
  /\ IF Captured(stack[Top])
     THEN t_putchar(Append(captures, [owner |-> Top - 1, text |-> <<>>]), <<"not found">>)
     ELSE t_print(<<"not found">>)
  /\ Return(1) /\ UNCHANGED <<input, exceeded>>

\* A file to read from that is not there ends the stage before its capture begins.
input_missing == t_print(<<"not found">>) /\ Return(1) /\ UNCHANGED <<input, exceeded>>

\* A stage sets its input, opens a capture of its output unless the terminal gets
\* it, and runs its command.
shell_execute_stage ==
  /\ In("stage", "call") /\ ~Collects(stack[Top].stage)
  /\ LET f == stack[Top]
         s == f.stage
     IN IF Missing(s)
        THEN input_missing
        ELSE /\ input' = StageInput(s)
             /\ stack' = Append([stack EXCEPT ![Top].at = "command", ![Top].old = input],
                                SimpleFrame(s.command))
             /\ IF Captured(f) THEN t_capture_begin(Top - 1) ELSE UNCHANGED <<captures, exceeded>>
             /\ UNCHANGED <<status, screen>>
  /\ UNCHANGED <<files, collecting, line, found, stale, failed>>

LeftSet(f) == input

\* shell_input_data as the stage found it.
OldInput(f) == f.old

\* The caller's input is back; the text goes to the file, and stays in the
\* pipeline's output.
shell_stage_done ==
  /\ In("stage", "command")
  /\ LET f == stack[Top]
         s == f.stage
         open == t_capture_end
         After(text) == [Front(stack) EXCEPT ![Top - 1].output = text, ![Top - 1].written = TRUE,
                                             ![Top - 1].fresh = TRUE]
     IN /\ input' = OldInput(f)
        /\ IF ~Captured(f)
           THEN stack' = Front(stack) /\ UNCHANGED <<captures, screen, status, files, failed>>
           ELSE \E text \in captured(Top - 1) :
                  /\ stack' = After(text)
                  /\ \/ /\ captures' = open
                        /\ files' = IF s.to = NULL THEN files ELSE Store(files, s.to, s.append, text)
                        /\ UNCHANGED <<screen, status, failed>>
                     \/ /\ s.to # NULL /\ ~failed /\ failed' = TRUE
                        /\ \/ /\ ~s.append /\ s.to \in DOMAIN files /\ files' = files
                              /\ t_putchar(open, <<"could not overwrite">>) /\ status' = 1
                           \/ /\ files' = IF s.append THEN files ELSE Without(files, s.to)
                              /\ t_putchar(open, <<"could not open">>) /\ status' = 1
                           \/ /\ text # <<>> /\ files' = Unrecorded(s.to, s.append)
                              /\ status' \in {1, status}   \* of a failed update nobody hears
                              /\ captures' = open /\ UNCHANGED screen
  /\ UNCHANGED <<collecting, line, found, stale, exceeded>>

-----------------------------------------------------------------------------
(***************************************************************************)
(* commands_execute_simple: the built-ins that differ in what they do to   *)
(* this state stand for all of them; each of them returns 0.               *)
(***************************************************************************)
Running(name) == In("simple", "call") /\ stack[Top].command.name = name
Argument == stack[Top].command.arg

no_command == Running("none") /\ Return(0) /\ UNCHANGED <<captures, screen, files>>

cmd_echo == Running("echo") /\ t_print(<<Argument>>) /\ Return(0) /\ UNCHANGED files

cmd_cat ==
  /\ Running("cat")
  /\ t_print(IF Argument = NULL THEN input.text
             ELSE IF Argument \in DOMAIN files THEN files[Argument] ELSE <<"not found">>)
  /\ Return(0) /\ UNCHANGED files

cmd_rm ==
  /\ Running("rm") /\ Return(0)
  /\ IF Argument \in DOMAIN files
     THEN files' = Without(files, Argument) /\ UNCHANGED <<captures, screen>>
     ELSE t_print(<<"could not remove">>) /\ UNCHANGED files

not_found ==
  /\ Running("run") /\ Argument \notin Scripts
  /\ t_print(<<"command not found">>) /\ Return(1) /\ UNCHANGED files

Builtin ==
  /\ no_command \/ cmd_echo \/ cmd_cat \/ cmd_rm \/ not_found
  /\ UNCHANGED <<input, collecting, ghosts>>

\* $(...) in the words of echo: a line of its own, captured.
expand_echo_substitutions ==
  /\ Running("echo$")
  /\ t_capture_begin(Top)
  /\ stack' = Append(Waiting("line"), LineFrame(stack[Top].command.sub))
  /\ UNCHANGED <<input, status, screen, files, collecting, line, found, stale, failed>>

echo_substituted ==
  /\ In("simple", "line")
  /\ \E text \in captured(Top) : t_putchar(t_capture_end, EchoOf(text))
  /\ Return(0)
  /\ UNCHANGED <<input, files, collecting, ghosts>>

run_script ==
  /\ Running("run") /\ Argument \in Scripts
  /\ stack' = Append(Waiting("script"), ScriptFrame(Argument))
  /\ UNCHANGED <<captures, input, status, screen, files, collecting, ghosts>>

script_done ==
  /\ In("simple", "script") /\ Return(0)
  /\ UNCHANGED <<captures, input, screen, files, collecting, ghosts>>

\* A script runs its lines one after another, whatever their status.
script_execute ==
  /\ In("script", "call")
  /\ LET lines == stack[Top].lines
     IN stack' = IF lines = <<>> THEN Front(stack)
                 ELSE Append([stack EXCEPT ![Top].lines = Tail(lines)], LineFrame(Head(lines)))
  /\ UNCHANGED <<captures, input, status, screen, files, collecting, ghosts>>

-----------------------------------------------------------------------------
\* A line typed while lines are collected goes to the end of the file, if it is still
\* there, can be written and its entry updated; whether something is said otherwise is
\* left out.
commands_input_line(word) ==
  /\ stack = <<>> /\ collecting # NULL
  /\ Len(TextOf(files, collecting)) < MaxText
  /\ \/ collecting \in DOMAIN files /\ files' = Store(files, collecting, TRUE, <<word>>)
     \/ UNCHANGED files
  /\ UNCHANGED <<stack, captures, input, status, screen, collecting, ghosts>>

\* Ctrl-D.
commands_input_eof ==
  /\ stack = <<>> /\ collecting # NULL /\ collecting' = NULL
  /\ UNCHANGED <<stack, captures, input, status, screen, files, ghosts>>

-----------------------------------------------------------------------------
Init ==
  /\ stack = <<>> /\ captures = <<>> /\ input = NoInput /\ status = 0
  /\ screen = <<>> /\ files = << >> /\ collecting = NULL
  /\ line = NoLine /\ found = << >>
  /\ stale = FALSE /\ exceeded = FALSE /\ failed = FALSE

Next ==
  \/ \E l \in Typed : shell_process(l)
  \/ commands_execute \/ commands_execute_right
  \/ shell_execute_pipeline \/ shell_pipeline_next
  \/ shell_begin_input_redirect \/ shell_execute_stage \/ shell_stage_done
  \/ Builtin \/ expand_echo_substitutions \/ echo_substituted
  \/ run_script \/ script_done \/ script_execute
  \/ \E word \in Words : commands_input_line(word)
  \/ commands_input_eof

Spec == Init /\ [][Next]_vars

-----------------------------------------------------------------------------
(***************************************************************************)
(* Properties.                                                             *)
(***************************************************************************)
\* The values of the variables; a frame never waits for something its function
\* does not call.
TypeOK ==
  /\ status \in {0, 1} /\ screen \in Texts
  /\ DOMAIN files \subseteq Paths /\ \A p \in DOMAIN files : files[p] \in Texts
  /\ collecting \in Paths \cup {NULL}
  /\ input \in [owner : Nat, text : Texts]
  /\ captures \in Seq([owner : Nat \ {0}, text : Texts]) /\ Len(captures) <= MaxDepth
  /\ \A i \in 1 .. Top :
       LET f == stack[i]
       IN \/ f.kind = "line" /\ f.line \in Lines /\ f.at \in {"call", "left"}
          \/ f.kind = "pipeline" /\ f.stages # <<>> /\ {f.input, f.output} \subseteq Texts
          \/ f.kind = "stage" /\ i > 1 /\ stack[i - 1].kind = "pipeline"
          \/ f.kind = "simple" /\ i > 1 /\ stack[i - 1].kind = "stage"
          \/ f.kind = "script" /\ i > 1 /\ stack[i - 1].at = "script"

(***************************************************************************)
(* No capture writes to and no command reads from a buffer of a function   *)
(* that has returned: the owners are still in progress, and wait for what  *)
(* runs inside them.  So nothing is left open or set at the prompt, also   *)
(* when more captures were asked for than there can be (vga.c:181).        *)
(***************************************************************************)
BuffersAlive ==
  /\ \A i \in DOMAIN captures :
       LET o == captures[i].owner
       IN o <= Top /\ <<stack[o].kind, stack[o].at>> \in {<<"pipeline", "stage">>, <<"simple", "line">>}
  /\ input.owner # 0 => input.owner <= Top /\ stack[input.owner].at \in {"stage", "command"}

\* The frames that wait for text they have asked to be captured.
Capturing ==
  {i \in 1 .. Top : \/ stack[i].kind = "simple" /\ stack[i].at = "line"
                    \/ /\ stack[i].kind = "pipeline" /\ i < Top
                       /\ stack[i + 1].at = "command" /\ Captured(stack[i + 1])}

(***************************************************************************)
(* Unless one was refused, the captures are those of exactly the calls in  *)
(* progress that wait for text, innermost last: each begin meets its end   *)
(* on every way out of shell_execute_stage and expand_echo_substitutions,  *)
(* however they nest.                                                      *)
(***************************************************************************)
CapturesNested ==
  exceeded \/ /\ \A i, j \in DOMAIN captures : i < j => captures[i].owner < captures[j].owner
              /\ {captures[i].owner : i \in DOMAIN captures} = Capturing
=============================================================================
