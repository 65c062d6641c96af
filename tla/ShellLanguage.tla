--------------------------- MODULE ShellLanguage ---------------------------
(***************************************************************************)
(* What a line of the shell means: every part maps the world it finds to    *)
(* the world it leaves and the text it produces, with no buffer, no capture *)
(* and no shared input.  Executor does the same the way the code does and   *)
(* is compared with this.  As in the code, operators nest to the right, so  *)
(* that a && b || c does nothing more once a has failed, and a stage that   *)
(* is redirected to a file still feeds the next one.                        *)
(***************************************************************************)
EXTENDS ShellSyntax

RECURSIVE EvalLine(_, _), EvalPipeline(_, _, _), EvalLines(_, _)

(***************************************************************************)
(* A world is files, the status of the last command, the file keyboard     *)
(* lines go to, and the text produced so far, out.                         *)
(***************************************************************************)
Say(world, text) == [world EXCEPT !.out = @ \o text]

EvalCommand(c, in, world) ==
  LET ok == [world EXCEPT !.status = 0]
      inner == [ok EXCEPT !.out = <<>>]
  IN CASE c.name = "none" -> ok
       [] c.name = "echo" -> Say(ok, <<c.arg>>)
       [] c.name = "echo$" ->
            LET r == EvalLine(c.sub, inner)
            IN [r EXCEPT !.out = world.out \o EchoOf(r.out), !.status = 0]
       [] c.name = "cat" /\ c.arg = NULL -> Say(ok, in)
       [] c.name = "cat" /\ c.arg # NULL ->
            Say(ok, IF c.arg \in DOMAIN ok.files THEN ok.files[c.arg] ELSE <<"not found">>)
       [] c.name = "rm" ->
            IF c.arg \in DOMAIN ok.files THEN [ok EXCEPT !.files = Without(@, c.arg)]
            ELSE Say(ok, <<"could not remove">>)
       [] c.name = "run" ->
            IF c.arg \in Scripts THEN [EvalLines(Body[c.arg], ok) EXCEPT !.status = 0]
            ELSE Say([world EXCEPT !.status = 1], <<"command not found">>)

EvalPipeline(stages, in, world) ==
  LET s == Head(stages)
      last == Len(stages) = 1
      text == IF s.from = NULL THEN in ELSE TextOf(world.files, s.from)
      ran == EvalCommand(s.command, text, [world EXCEPT !.out = <<>>])
      stored == IF s.to = NULL THEN ran
                ELSE [ran EXCEPT !.files = Store(@, s.to, s.append, ran.out)]
      shown == IF last /\ s.to = NULL THEN Say(world, ran.out).out ELSE world.out
      done == CASE Collects(s) ->
                     [world EXCEPT !.files = Store(@, s.to, s.append, <<>>),
                                   !.collecting = s.to, !.status = 0]
                [] s.from # NULL /\ s.from \notin DOMAIN world.files ->
                     Say([world EXCEPT !.status = 1], <<"not found">>)
                [] OTHER -> [stored EXCEPT !.out = shown]
  IN IF last THEN done ELSE EvalPipeline(Tail(stages), ran.out, done)

EvalLine(line, world) ==
  LET left == EvalPipeline(Head(line).pipeline, <<>>, world)
      op == Head(line).op
  IN CASE op = "&" -> Say(world, <<"no background">>)
       [] op = "<<" -> Say(world, <<"no here-document">>)
       [] \/ op = ";"
          \/ op = "&&" /\ left.status = 0
          \/ op = "||" /\ left.status # 0 -> EvalLine(Tail(line), left)
       [] OTHER -> left

EvalLines(lines, world) ==
  IF lines = <<>> THEN world ELSE EvalLines(Tail(lines), EvalLine(Head(lines), world))
=============================================================================
