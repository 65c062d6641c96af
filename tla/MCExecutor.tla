---------------------------- MODULE MCExecutor ----------------------------
(***************************************************************************)
(* Instances of Executor, and the comparison with ShellLanguage.           *)
(***************************************************************************)
EXTENDS Executor, ShellLanguage

Command(name, arg) == [name |-> name, arg |-> arg, sub |-> NoLine]
Substituted(l) == [name |-> "echo$", arg |-> NULL, sub |-> l]
Plain(c) == [command |-> c, from |-> NULL, to |-> NULL, append |-> FALSE]
Simple(c) == <<[pipeline |-> <<Plain(c)>>, op |-> "end"]>>
Piped(c, d) == <<[pipeline |-> <<Plain(c), Plain(d)>>, op |-> "end"]>>

EchoX == Command("echo", "x")
Cat == Command("cat", NULL)
CatF == Command("cat", "f")
RmF == Command("rm", "f")

MCLeftovers == {<<>>, <<Blank>>}
MCBody == [s |-> <<Simple(EchoX), Simple(Cat)>>, u |-> <<Piped(Command("run", "s"), Cat)>>]

Subs == {Simple(CatF), Piped(EchoX, Cat), Simple(Command("run", "s"))}
Commands == {EchoX, Cat, CatF, RmF, Command("run", "s"), Command("run", "t")}
              \cup {Substituted(l) : l \in Subs}

Redirected(c) ==
  {[Plain(c) EXCEPT !.to = "f"], [Plain(c) EXCEPT !.to = "f", !.append = TRUE],
   [Plain(c) EXCEPT !.from = "f"]}
MCStages == {Plain(c) : c \in Commands}
            \cup UNION {Redirected(c) : c \in {EchoX, Cat, Substituted(Piped(EchoX, Cat))}}

\* Pipelines: one stage, two of which the second reads, three, and nested scripts.
Readers == {t \in MCStages : t.command \in {Cat, Command("run", "s"), Substituted(Piped(EchoX, Cat))}}
Pipes == {<<s>> : s \in MCStages} \cup {<<s, t>> : s \in MCStages, t \in Readers}
           \cup {<<Plain(EchoX), [Plain(Cat) EXCEPT !.from = "f"], Plain(Cat)>>,
                 <<Plain(Command("run", "u"))>>}

Few == {<<Plain(EchoX)>>, <<Plain(Command("run", "t"))>>, <<[Plain(Cat) EXCEPT !.from = "f"]>>,
        <<Plain(CatF), Plain(Cat)>>, <<[Plain(Cat) EXCEPT !.to = "f"]>>,
        <<Plain(Command("none", NULL))>>}

Empty == [pipeline |-> <<Plain(Command("none", NULL))>>, op |-> "end"]

MCTyped ==
  {<<[pipeline |-> p, op |-> "end"]>> : p \in Pipes}
    \cup {<<[pipeline |-> p, op |-> o], [pipeline |-> q, op |-> "end"]>> :
            p, q \in Few, o \in {";", "&&", "||"}}
    \cup {<<[pipeline |-> <<Plain(Command("run", "t"))>>, op |-> o],
            [pipeline |-> <<Plain(EchoX)>>, op |-> u], Empty>> : o \in {";", "&&", "||"},
                                                             u \in {"&&", "||"}}
    \cup {<<[pipeline |-> <<Plain(EchoX)>>, op |-> o], Empty>> : o \in {"&", "<<"}}

MCLines == LET lines == MCTyped \cup Subs \cup Range(MCBody.s) \cup Range(MCBody.u)
           IN {SubSeq(l, i, Len(l)) : l \in lines, i \in 1 .. 3} \ {NoLine}

\* When a line has been executed, the terminal, the files and the file that
\* collects are what the language says, from the files the line found: whatever
\* was captured, passed on, restored and redirected on the way.  Not claimed when
\* a file could not be accessed, when a capture was refused (vga.c:181), or when
\* a stage ended without writing what the next one reads (commands.c:1585).
Evaluates ==
  [][stack # <<>> /\ stack' = <<>> /\ ~(stale \/ exceeded \/ failed)' =>
       LET world == EvalLine(line, [files |-> found, out |-> <<>>, status |-> 0,
                                    collecting |-> NULL])
       IN /\ screen' = world.out /\ files' = world.files
          /\ collecting' = world.collecting]_vars
===========================================================================
