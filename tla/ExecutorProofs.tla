--------------------------- MODULE ExecutorProofs ---------------------------
(***************************************************************************)
(* What holds of the command executor for all lines, scripts and files,    *)
(* and however few captures there can be.  The calls in progress form a    *)
(* stack in which each frame but the innermost waits for the one above it; *)
(* the captures are of frames that wait for text, innermost last; and the  *)
(* text that commands read is in a frame that is still there, as is every  *)
(* text that a stage will make the current one again when it ends.         *)
(***************************************************************************)
EXTENDS Executor, SequenceTheorems, WellFoundedInduction, TLAPS

Inputs == [owner : Nat, text : Texts]
Captures == [owner : Nat \ {0}, text : Texts]

LineFrames == [kind : {"line"}, line : Lines, at : {"call", "left"}]
PipelineFrames ==
  [kind : {"pipeline"}, stages : Seq(Stages) \ {<<>>}, input : Texts, output : Texts,
   written : BOOLEAN, fresh : BOOLEAN, at : {"call", "stage"}]
StageFrames ==
  [kind : {"stage"}, stage : Stages, last : BOOLEAN, old : Inputs, at : {"call", "command"}]
SimpleFrames ==
  [kind : {"simple"}, command : {s.command : s \in Stages}, at : {"call", "line", "script"}]
ScriptFrames == [kind : {"script"}, lines : Seq(Lines), at : {"call"}]

Frames == LineFrames \cup PipelineFrames \cup StageFrames \cup SimpleFrames \cup ScriptFrames

\* Does frame f wait for a call like g?
Calls(f, g) ==
  \/ f.kind = "line" /\ f.at = "left" /\ g.kind = "pipeline"
  \/ f.kind = "pipeline" /\ f.at = "stage" /\ g.kind = "stage"
  \/ f.kind = "stage" /\ f.at = "command" /\ g.kind = "simple"
  \/ f.kind = "simple" /\ f.at = "line" /\ g.kind = "line"
  \/ f.kind = "simple" /\ f.at = "script" /\ g.kind = "script"
  \/ f.kind = "script" /\ g.kind = "line"

\* The C stack: a line at the bottom, and each frame called by the one below it.
IsStack(s) ==
  /\ s \in Seq(Frames)
  /\ s # <<>> => s[1].kind = "line"
  /\ \A i \in 1 .. Len(s) - 1 : Calls(s[i], s[i + 1])

\* Is a buffer that frame o owns kept by a stage in progress, among the first n frames?
RunningStage(s, i) == s[i].kind = "stage" /\ s[i].at = "command"
Kept(s, o, n) == o # 0 => \E j \in 1 .. n : RunningStage(s, j) /\ o \in {j - 1, j}

\* The text commands read now, and those they will read again, are kept.
InputsKept(s, in) ==
  /\ Kept(s, in.owner, Len(s))
  /\ \A i \in 1 .. Len(s) : RunningStage(s, i) => Kept(s, s[i].old.owner, i - 1)

\* Capturing, of any stack.
AsksFor(s) ==
  {i \in 1 .. Len(s) : \/ s[i].kind = "simple" /\ s[i].at = "line"
                       \/ /\ s[i].kind = "pipeline" /\ i < Len(s)
                          /\ s[i + 1].at = "command" /\ Captured(s[i + 1])}

\* The captures are of frames that wait for text, innermost last; when none was refused, of
\* all of them.
Matched(s, open, lost) ==
  /\ \A i, j \in DOMAIN open : i < j => open[i].owner < open[j].owner
  /\ \A i \in DOMAIN open : open[i].owner \in AsksFor(s)
  /\ lost \/ \A o \in AsksFor(s) : \E i \in DOMAIN open : open[i].owner = o

FilesOK(fs) == DOMAIN fs \subseteq Paths /\ \A p \in DOMAIN fs : fs[p] \in Texts

ValuesOK ==
  /\ status \in {0, 1} /\ screen \in Texts /\ FilesOK(files)
  /\ collecting \in Paths \cup {NULL}
  /\ input \in Inputs
  /\ captures \in Seq(Captures) /\ Len(captures) <= MaxDepth
  /\ exceeded \in BOOLEAN

Nested == IsStack(stack) /\ InputsKept(stack, input) /\ Matched(stack, captures, exceeded)

ExecutorInv == ValuesOK /\ Nested

-----------------------------------------------------------------------------
(***************************************************************************)
(* Stacks.                                                                 *)
(***************************************************************************)
\* All but the last of a sequence.
LEMMA FrontOf ==
  ASSUME NEW S, NEW q \in Seq(S), q # <<>>
  PROVE  /\ Front(q) \in Seq(S) /\ Len(Front(q)) = Len(q) - 1
         /\ \A i \in 1 .. Len(q) - 1 : Front(q)[i] = q[i]
<1>1. Len(q) \in Nat \ {0} /\ \A i \in 1 .. Len(q) - 1 : q[i] \in S
  OBVIOUS
<1> DEFINE n == Len(q) - 1
<1>2. n \in Nat /\ \A i \in 1 .. n : q[i] \in S
  BY <1>1
<1>. HIDE DEF n
<1>3. /\ SubSeq(q, 1, n) \in Seq(S)
      /\ Len(SubSeq(q, 1, n)) = IF 1 <= n THEN n - 1 + 1 ELSE 0
      /\ \A i \in 1 .. n - 1 + 1 : SubSeq(q, 1, n)[i] = q[1 + i - 1]
  BY <1>2, SubSeqProperties
<1>4. Len(SubSeq(q, 1, n)) = n
  BY <1>2, <1>3
<1>5. \A i \in 1 .. n : SubSeq(q, 1, n)[i] = q[i]
  BY <1>2, <1>3
<1>. QED
  BY <1>3, <1>4, <1>5 DEF Front, n

\* A frame that neither runs a stage nor waits for captured text.
Quiet(f) ==
  /\ ~(f.kind = "stage" /\ f.at = "command")
  /\ ~(f.kind = "simple" /\ f.at = "line")

\* What there is to know of a stack: its frames, and who calls whom.
LEMMA StackFrames ==
  ASSUME NEW s, IsStack(s)
  PROVE  /\ s \in Seq(Frames) /\ Len(s) \in Nat /\ DOMAIN s = 1 .. Len(s)
         /\ \A i \in 1 .. Len(s) : s[i] \in Frames
         /\ Len(s) = 0 <=> s = <<>>
         /\ \A i \in 1 .. Len(s) - 1 : Calls(s[i], s[i + 1])
         /\ \A i \in 1 .. Len(s) : s[i].kind # "line" => i > 1 /\ Calls(s[i - 1], s[i])
<1>1. s \in Seq(Frames) /\ Len(s) \in Nat /\ DOMAIN s = 1 .. Len(s)
  BY DEF IsStack
<1>2. /\ \A i \in 1 .. Len(s) : s[i] \in Frames
      /\ Len(s) = 0 <=> s = <<>>
  BY <1>1
<1>3. \A i \in 1 .. Len(s) - 1 : Calls(s[i], s[i + 1])
  BY DEF IsStack
<1>4. ASSUME NEW i \in 1 .. Len(s), s[i].kind # "line" PROVE i > 1 /\ Calls(s[i - 1], s[i])
  <2>1. i # 1
    BY <1>2, <1>4 DEF IsStack
  <2>2. i - 1 \in 1 .. Len(s) - 1 /\ (i - 1) + 1 = i
    BY <1>1, <2>1
  <2>. QED
    BY <1>3, <2>1, <2>2
<1>. QED
  BY <1>1, <1>2, <1>3, <1>4

\* The frames that the innermost one leaves when it returns.
LEMMA StackPop ==
  ASSUME NEW s, IsStack(s), s # <<>>
  PROVE  /\ IsStack(Front(s)) /\ Len(Front(s)) = Len(s) - 1
         /\ \A i \in 1 .. Len(s) - 1 : Front(s)[i] = s[i]
<1>1. s \in Seq(Frames) /\ Len(s) \in Nat \ {0}
  BY StackFrames
<1>2. /\ Front(s) \in Seq(Frames) /\ Len(Front(s)) = Len(s) - 1
      /\ \A i \in 1 .. Len(s) - 1 : Front(s)[i] = s[i]
  BY <1>1, FrontOf
<1>3. Front(s) # <<>> => Front(s)[1].kind = "line"
  BY <1>1, <1>2 DEF IsStack
<1>4. \A i \in 1 .. Len(Front(s)) - 1 : Calls(Front(s)[i], Front(s)[i + 1])
  <2>. TAKE i \in 1 .. Len(Front(s)) - 1
  <2>1. i \in 1 .. Len(s) - 1 /\ Front(s)[i] = s[i] /\ Front(s)[i + 1] = s[i + 1]
    BY <1>1, <1>2
  <2>. QED
    BY <2>1 DEF IsStack
<1>. QED
  BY <1>2, <1>3, <1>4 DEF IsStack

\* The innermost frame takes a step.
LEMMA StackSet ==
  ASSUME NEW s, IsStack(s), s # <<>>, NEW f \in Frames, f.kind = s[Len(s)].kind
  PROVE  LET t == [s EXCEPT ![Len(s)] = f]
         IN /\ IsStack(t) /\ Len(t) = Len(s) /\ t[Len(s)] = f
            /\ \A i \in 1 .. Len(s) - 1 : t[i] = s[i]
<1> DEFINE t == [s EXCEPT ![Len(s)] = f]
<1>1. s \in Seq(Frames) /\ Len(s) \in Nat \ {0}
  BY StackFrames
<1>2. /\ t \in Seq(Frames) /\ Len(t) = Len(s) /\ t[Len(s)] = f
      /\ \A i \in 1 .. Len(s) - 1 : t[i] = s[i]
  BY <1>1
<1>. HIDE DEF t
<1>3. t # <<>> => t[1].kind = "line"
  <2>1. CASE Len(s) = 1
    BY <1>1, <1>2, <2>1 DEF IsStack
  <2>2. CASE Len(s) # 1
    BY <1>1, <1>2, <2>2 DEF IsStack
  <2>. QED
    BY <2>1, <2>2
<1>4. \A i \in 1 .. Len(t) - 1 : Calls(t[i], t[i + 1])
  <2>. TAKE i \in 1 .. Len(t) - 1
  <2>1. i \in 1 .. Len(s) - 1 /\ t[i] = s[i] /\ Calls(s[i], s[i + 1])
    BY <1>1, <1>2 DEF IsStack
  <2>2. t[i + 1].kind = s[i + 1].kind
    <3>1. CASE i + 1 = Len(s)
      BY <1>2, <3>1
    <3>2. CASE i + 1 # Len(s)
      BY <1>1, <1>2, <2>1, <3>2
    <3>. QED
      BY <3>1, <3>2
  <2>. QED
    BY <2>1, <2>2 DEF Calls
<1>5. IsStack(t)
  BY <1>2, <1>3, <1>4 DEF IsStack
<1>. QED
  BY <1>2, <1>5 DEF t

\* The innermost frame makes a call.
LEMMA StackPush ==
  ASSUME NEW s, IsStack(s), s # <<>>, NEW g \in Frames, Calls(s[Len(s)], g)
  PROVE  /\ IsStack(Append(s, g)) /\ Len(Append(s, g)) = Len(s) + 1
         /\ Append(s, g)[Len(s) + 1] = g
         /\ \A i \in 1 .. Len(s) : Append(s, g)[i] = s[i]
<1> DEFINE t == Append(s, g)
<1>1. s \in Seq(Frames) /\ Len(s) \in Nat \ {0}
  BY StackFrames
<1>2. /\ t \in Seq(Frames) /\ Len(t) = Len(s) + 1 /\ t[Len(s) + 1] = g
      /\ \A i \in 1 .. Len(s) : t[i] = s[i]
  BY <1>1
<1>. HIDE DEF t
<1>3. t # <<>> => t[1].kind = "line"
  BY <1>1, <1>2 DEF IsStack
<1>4. \A i \in 1 .. Len(t) - 1 : Calls(t[i], t[i + 1])
  <2>. TAKE i \in 1 .. Len(t) - 1
  <2>1. CASE i = Len(s)
    BY <1>2, <2>1
  <2>2. CASE i # Len(s)
    <3>1. /\ i \in 1 .. Len(s) - 1 /\ t[i] = s[i] /\ t[i + 1] = s[i + 1]
          /\ Calls(s[i], s[i + 1])
      BY <1>1, <1>2, <2>2 DEF IsStack
    <3>. QED
      BY <3>1
  <2>. QED
    BY <2>1, <2>2
<1>5. IsStack(t)
  BY <1>2, <1>3, <1>4 DEF IsStack
<1>. QED
  BY <1>2, <1>5 DEF t

\* What the fields of a frame hold, kind by kind ...
LEMMA FrameFields ==
  ASSUME NEW f \in Frames
  PROVE  /\ f.kind \in {"line", "pipeline", "stage", "simple", "script"}
         /\ f.kind = "line" => f.line \in Lines /\ f.at \in {"call", "left"}
         /\ f.kind = "pipeline" => /\ f.stages \in Seq(Stages) /\ f.stages # <<>>
                                   /\ f.input \in Texts /\ f.output \in Texts
                                   /\ f.at \in {"call", "stage"}
         /\ f.kind = "stage" => /\ f.stage \in Stages /\ f.old \in Inputs
                                /\ f.at \in {"call", "command"}
         /\ f.kind = "simple" => /\ \E s \in Stages : f.command = s.command
                                 /\ f.at \in {"call", "line", "script"}
         /\ f.kind = "script" => f.lines \in Seq(Lines) /\ f.at = "call"
<1>1. CASE f \in LineFrames
  BY <1>1 DEF LineFrames
<1>2. CASE f \in PipelineFrames
  BY <1>2 DEF PipelineFrames
<1>3. CASE f \in StageFrames
  BY <1>3 DEF StageFrames
<1>4. CASE f \in SimpleFrames
  BY <1>4 DEF SimpleFrames
<1>5. CASE f \in ScriptFrames
  BY <1>5 DEF ScriptFrames
<1>. QED
  BY <1>1, <1>2, <1>3, <1>4, <1>5 DEF Frames

\* ... and the frames that calls make and steps leave.
LEMMA NewFrames ==
  /\ \A l \in Lines : LineFrame(l) \in Frames
  /\ \A p \in Seq(Stages) \ {<<>>} : PipelineFrame(p) \in Frames
  /\ \A s \in Stages, b \in BOOLEAN : StageFrame(s, b) \in Frames
  /\ \A s \in Stages : SimpleFrame(s.command) \in Frames
  /\ \A n \in Scripts : ScriptFrame(n) \in Frames
<1>0. <<>> \in Texts /\ NoInput \in Inputs
  BY DEF Texts, NoInput, Inputs
<1>1. \A l \in Lines : LineFrame(l) \in LineFrames
  BY DEF LineFrame, LineFrames
<1>2. \A p \in Seq(Stages) \ {<<>>} : PipelineFrame(p) \in PipelineFrames
  BY <1>0 DEF PipelineFrame, PipelineFrames
<1>3. \A s \in Stages, b \in BOOLEAN : StageFrame(s, b) \in StageFrames
  BY <1>0 DEF StageFrame, StageFrames
<1>4. \A s \in Stages : SimpleFrame(s.command) \in SimpleFrames
  BY DEF SimpleFrame, SimpleFrames
<1>5. \A n \in Scripts : ScriptFrame(n) \in ScriptFrames
  BY ExecutorAssumption DEF ScriptFrame, ScriptFrames
<1>. QED
  BY <1>1, <1>2, <1>3, <1>4, <1>5 DEF Frames

LEMMA LineLeft ==
  ASSUME NEW f \in Frames, f.kind = "line"
  PROVE  /\ [f EXCEPT !.at = "left"] \in Frames
         /\ [f EXCEPT !.at = "left"].kind = "line" /\ [f EXCEPT !.at = "left"].at = "left"
<1>1. f \in LineFrames
  BY DEF Frames, LineFrames, PipelineFrames, StageFrames, SimpleFrames, ScriptFrames
<1>2. [f EXCEPT !.at = "left"] \in LineFrames
  BY <1>1 DEF LineFrames
<1>. QED
  BY <1>1, <1>2 DEF Frames, LineFrames

LEMMA PipelineStage ==
  ASSUME NEW f \in Frames, f.kind = "pipeline", NEW g,
         \/ g = [f EXCEPT !.at = "stage", !.fresh = FALSE]
         \/ \E p \in Seq(Stages) \ {<<>>}, t \in Texts :
              g = [f EXCEPT !.stages = p, !.input = t, !.at = "call"]
         \/ \E t \in Texts : g = [[[f EXCEPT !.output = t] EXCEPT !.written = TRUE]
                                    EXCEPT !.fresh = TRUE]
  PROVE  g \in Frames /\ g.kind = "pipeline"
<1>1. f \in PipelineFrames
  BY DEF Frames, LineFrames, PipelineFrames, StageFrames, SimpleFrames, ScriptFrames
<1>2. g \in PipelineFrames
  BY <1>1 DEF PipelineFrames
<1>. QED
  BY <1>2 DEF Frames, PipelineFrames

LEMMA StageCommand ==
  ASSUME NEW f \in Frames, f.kind = "stage", NEW in \in Inputs
  PROVE  LET g == [[f EXCEPT !.at = "command"] EXCEPT !.old = in]
         IN /\ g \in Frames /\ g.kind = "stage" /\ g.at = "command" /\ g.old = in
            /\ g.stage = f.stage /\ g.last = f.last
<1>1. f \in StageFrames
  BY DEF Frames, LineFrames, PipelineFrames, StageFrames, SimpleFrames, ScriptFrames
<1>2. [[f EXCEPT !.at = "command"] EXCEPT !.old = in] \in StageFrames
  BY <1>1 DEF StageFrames
<1>. QED
  BY <1>1, <1>2 DEF Frames, StageFrames

LEMMA SimpleWaits ==
  ASSUME NEW f \in Frames, f.kind = "simple", NEW a \in {"line", "script"}, NEW g,
         g = [f EXCEPT !.at = a]
  PROVE  g \in Frames /\ g.kind = "simple" /\ g.at = a
<1>1. f \in SimpleFrames
  BY DEF Frames, LineFrames, PipelineFrames, StageFrames, SimpleFrames, ScriptFrames
<1>2. g \in SimpleFrames
  BY <1>1 DEF SimpleFrames
<1>. QED
  BY <1>1, <1>2 DEF Frames, SimpleFrames

LEMMA ScriptGoesOn ==
  ASSUME NEW f \in Frames, f.kind = "script", NEW q \in Seq(Lines), NEW g,
         g = [f EXCEPT !.lines = q]
  PROVE  g \in Frames /\ g.kind = "script" /\ g.at = "call"
<1>1. f \in ScriptFrames
  BY DEF Frames, LineFrames, PipelineFrames, StageFrames, SimpleFrames, ScriptFrames
<1>2. g \in ScriptFrames
  BY <1>1 DEF ScriptFrames
<1>. QED
  BY <1>1, <1>2 DEF Frames, ScriptFrames

-----------------------------------------------------------------------------
(***************************************************************************)
(* What is kept, and what is asked for.                                    *)
(***************************************************************************)
\* A buffer stays kept while the stages that keep it are in progress.
LEMMA KeptStays ==
  ASSUME NEW s, NEW t, NEW m \in Nat, NEW n \in Nat, NEW o, Kept(s, o, m),
         \A j \in 1 .. m : RunningStage(s, j) => j <= n /\ RunningStage(t, j)
  PROVE  Kept(t, o, n)
BY DEF Kept

\* Neither a return nor a step nor a call of a quiet frame changes what is kept or asked for.
LEMMA QuietPop ==
  ASSUME NEW s, IsStack(s), s # <<>>, Quiet(s[Len(s)])
  PROVE  /\ \A in : InputsKept(s, in) => InputsKept(Front(s), in)
         /\ AsksFor(Front(s)) = AsksFor(s)
<1> DEFINE t == Front(s)
<1>1. /\ Len(s) \in Nat \ {0} /\ Len(t) = Len(s) - 1
      /\ \A i \in 1 .. Len(s) - 1 : t[i] = s[i]
      /\ \A i \in 1 .. Len(s) - 1 : Calls(s[i], s[i + 1])
  BY StackFrames, StackPop
<1>. HIDE DEF t
<1>2. \A j \in 1 .. Len(s) : RunningStage(s, j) => j <= Len(t) /\ RunningStage(t, j)
  BY <1>1 DEF Quiet, RunningStage
<1>3. ASSUME NEW in, InputsKept(s, in) PROVE InputsKept(t, in)
  <2>1. Kept(t, in.owner, Len(t))
    BY <1>1, <1>2, <1>3, KeptStays DEF InputsKept
  <2>2. ASSUME NEW i \in 1 .. Len(t), RunningStage(t, i) PROVE Kept(t, t[i].old.owner, i - 1)
    <3>1. i \in 1 .. Len(s) /\ t[i] = s[i] /\ RunningStage(s, i)
      BY <1>1, <2>2 DEF RunningStage
    <3>2. Kept(s, t[i].old.owner, i - 1)
      BY <1>3, <3>1 DEF InputsKept
    <3>3. \A j \in 1 .. i - 1 : RunningStage(s, j) => j <= i - 1 /\ RunningStage(t, j)
      BY <1>1, <1>2
    <3>. QED
      BY <3>2, <3>3, KeptStays
  <2>. QED
    BY <2>1, <2>2 DEF InputsKept
<1>4. ASSUME NEW i PROVE i \in AsksFor(t) <=> i \in AsksFor(s)
  <2>1. CASE i \in 1 .. Len(s) - 2
    BY <1>1, <2>1 DEF AsksFor
  <2>2. CASE i = Len(s) - 1 /\ i \in 1 .. Len(s)
    <3>1. t[i] = s[i] /\ Calls(s[i], s[i + 1]) /\ i + 1 = Len(s)
      BY <1>1, <2>2
    <3>2. s[i].kind = "pipeline" => s[i + 1].at # "command"
      BY <3>1 DEF Calls, Quiet
    <3>. QED
      BY <1>1, <2>2, <3>1, <3>2 DEF AsksFor
  <2>3. CASE i = Len(s)
    BY <1>1, <2>3 DEF AsksFor, Quiet
  <2>4. CASE i \notin 1 .. Len(s)
    BY <1>1, <2>4 DEF AsksFor
  <2>. QED
    BY <1>1, <2>1, <2>2, <2>3, <2>4
<1>. QED
  BY <1>3, <1>4 DEF t

LEMMA QuietSet ==
  ASSUME NEW s, IsStack(s), s # <<>>, Quiet(s[Len(s)]),
         NEW f \in Frames, f.kind = s[Len(s)].kind, Quiet(f),
         f.kind # "stage"
  PROVE  LET t == [s EXCEPT ![Len(s)] = f]
         IN /\ \A in : InputsKept(s, in) => InputsKept(t, in)
            /\ AsksFor(t) = AsksFor(s)
<1> DEFINE t == [s EXCEPT ![Len(s)] = f]
<1>1. /\ Len(s) \in Nat \ {0} /\ Len(t) = Len(s) /\ t[Len(s)] = f
      /\ \A i \in 1 .. Len(s) - 1 : t[i] = s[i]
      /\ \A i \in 1 .. Len(s) - 1 : Calls(s[i], s[i + 1])
  BY StackFrames, StackSet
<1>. HIDE DEF t
<1>2. \A j \in 1 .. Len(s) : RunningStage(s, j) <=> RunningStage(t, j)
  BY <1>1 DEF Quiet, RunningStage
<1>3. ASSUME NEW in, InputsKept(s, in) PROVE InputsKept(t, in)
  <2>1. Kept(t, in.owner, Len(t))
    BY <1>1, <1>2, <1>3, KeptStays DEF InputsKept
  <2>2. ASSUME NEW i \in 1 .. Len(t), RunningStage(t, i) PROVE Kept(t, t[i].old.owner, i - 1)
    <3>1. i \in 1 .. Len(s) - 1 /\ t[i] = s[i] /\ RunningStage(s, i)
      BY <1>1, <2>2 DEF RunningStage, Quiet
    <3>2. Kept(s, t[i].old.owner, i - 1)
      BY <1>1, <1>3, <3>1 DEF InputsKept
    <3>3. \A j \in 1 .. i - 1 : RunningStage(s, j) => j <= i - 1 /\ RunningStage(t, j)
      BY <1>1, <1>2, <3>1
    <3>. QED
      BY <3>1, <3>2, <3>3, KeptStays
  <2>. QED
    BY <2>1, <2>2 DEF InputsKept
<1>4. ASSUME NEW i PROVE i \in AsksFor(t) <=> i \in AsksFor(s)
  <2>1. CASE i \in 1 .. Len(s) - 2
    BY <1>1, <2>1 DEF AsksFor
  <2>2. CASE i = Len(s) - 1 /\ i \in 1 .. Len(s)
    <3>1. t[i] = s[i] /\ Calls(s[i], s[i + 1]) /\ i + 1 = Len(s)
      BY <1>1, <2>2
    <3>2. s[i].kind # "pipeline"
      BY <1>1, <3>1 DEF Calls
    <3>. QED
      BY <1>1, <2>2, <3>1, <3>2 DEF AsksFor
  <2>3. CASE i = Len(s)
    BY <1>1, <2>3 DEF AsksFor, Quiet
  <2>4. CASE i \notin 1 .. Len(s)
    BY <1>1, <2>4 DEF AsksFor
  <2>. QED
    BY <1>1, <2>1, <2>2, <2>3, <2>4
<1>. QED
  BY <1>3, <1>4 DEF t

LEMMA QuietPush ==
  ASSUME NEW s, IsStack(s), s # <<>>, NEW g \in Frames, Calls(s[Len(s)], g), Quiet(g)
  PROVE  LET t == Append(s, g)
         IN /\ \A in : InputsKept(s, in) => InputsKept(t, in)
            /\ AsksFor(t) = AsksFor(s)
<1> DEFINE t == Append(s, g)
<1>1. /\ Len(s) \in Nat \ {0} /\ Len(t) = Len(s) + 1 /\ t[Len(s) + 1] = g
      /\ \A i \in 1 .. Len(s) : t[i] = s[i]
      /\ \A i \in 1 .. Len(s) - 1 : Calls(s[i], s[i + 1])
  BY StackFrames, StackPush
<1>. HIDE DEF t
<1>2. /\ \A j \in 1 .. Len(s) : RunningStage(s, j) => j <= Len(t) /\ RunningStage(t, j)
      /\ \A j \in 1 .. Len(t) : RunningStage(t, j) => j \in 1 .. Len(s) /\ RunningStage(s, j)
  BY <1>1 DEF Quiet, RunningStage
<1>3. ASSUME NEW in, InputsKept(s, in) PROVE InputsKept(t, in)
  <2>1. Kept(t, in.owner, Len(t))
    BY <1>1, <1>2, <1>3, KeptStays DEF InputsKept
  <2>2. ASSUME NEW i \in 1 .. Len(t), RunningStage(t, i) PROVE Kept(t, t[i].old.owner, i - 1)
    <3>1. i \in 1 .. Len(s) /\ t[i] = s[i] /\ RunningStage(s, i)
      BY <1>1, <1>2, <2>2
    <3>2. Kept(s, t[i].old.owner, i - 1)
      BY <1>1, <1>3, <3>1 DEF InputsKept
    <3>3. \A j \in 1 .. i - 1 : RunningStage(s, j) => j <= i - 1 /\ RunningStage(t, j)
      BY <1>1, <1>2, <3>1
    <3>. QED
      BY <3>1, <3>2, <3>3, KeptStays
  <2>. QED
    BY <2>1, <2>2 DEF InputsKept
<1>4. ASSUME NEW i PROVE i \in AsksFor(t) <=> i \in AsksFor(s)
  <2>1. CASE i \in 1 .. Len(s) - 1
    BY <1>1, <2>1 DEF AsksFor
  <2>2. CASE i = Len(s)
    <3>1. t[i] = s[i] /\ t[i + 1] = g
      BY <1>1, <2>2
    <3>2. s[i].kind = "pipeline" => g.at # "command"
      BY <2>2 DEF Calls, Quiet
    <3>. QED
      BY <1>1, <2>2, <3>1, <3>2 DEF AsksFor
  <2>3. CASE i = Len(s) + 1
    <3>1. s[Len(s)].kind # "line" => g.kind # "pipeline"
      BY DEF Calls
    <3>. QED
      BY <1>1, <2>3, <3>1 DEF AsksFor, Quiet
  <2>4. CASE i \notin 1 .. Len(s) + 1
    BY <1>1, <2>4 DEF AsksFor
  <2>. QED
    BY <1>1, <2>1, <2>2, <2>3, <2>4
<1>. QED
  BY <1>3, <1>4 DEF t

\* The word list of echo begins to wait for the text of $(...), and has got it.
LEMMA EchoAsks ==
  ASSUME NEW s, IsStack(s), s # <<>>, s[Len(s)].kind = "simple", s[Len(s)].at = "call",
         NEW f \in Frames, f.kind = "simple", f.at = "line"
  PROVE  LET t == [s EXCEPT ![Len(s)] = f]
         IN /\ \A in : InputsKept(s, in) => InputsKept(t, in)
            /\ AsksFor(t) = AsksFor(s) \cup {Len(s)}
            /\ \A a \in AsksFor(s) : a \in Nat /\ a < Len(s)
<1> DEFINE t == [s EXCEPT ![Len(s)] = f]
<1>1. /\ Len(s) \in Nat \ {0} /\ Len(t) = Len(s) /\ t[Len(s)] = f
      /\ \A i \in 1 .. Len(s) - 1 : t[i] = s[i]
      /\ \A i \in 1 .. Len(s) - 1 : Calls(s[i], s[i + 1])
  BY StackFrames, StackSet
<1>. HIDE DEF t
<1>2. \A j \in 1 .. Len(s) : RunningStage(s, j) <=> RunningStage(t, j)
  BY <1>1 DEF RunningStage
<1>3. ASSUME NEW in, InputsKept(s, in) PROVE InputsKept(t, in)
  <2>1. Kept(t, in.owner, Len(t))
    BY <1>1, <1>2, <1>3, KeptStays DEF InputsKept
  <2>2. ASSUME NEW i \in 1 .. Len(t), RunningStage(t, i) PROVE Kept(t, t[i].old.owner, i - 1)
    <3>1. i \in 1 .. Len(s) - 1 /\ t[i] = s[i] /\ RunningStage(s, i)
      BY <1>1, <2>2 DEF RunningStage
    <3>2. Kept(s, t[i].old.owner, i - 1)
      BY <1>1, <1>3, <3>1 DEF InputsKept
    <3>3. \A j \in 1 .. i - 1 : RunningStage(s, j) => j <= i - 1 /\ RunningStage(t, j)
      BY <1>1, <1>2, <3>1
    <3>. QED
      BY <3>1, <3>2, <3>3, KeptStays
  <2>. QED
    BY <2>1, <2>2 DEF InputsKept
<1>4. ASSUME NEW i PROVE i \in AsksFor(t) <=> i \in AsksFor(s) \/ i = Len(s)
  <2>1. CASE i \in 1 .. Len(s) - 2
    BY <1>1, <2>1 DEF AsksFor
  <2>2. CASE i = Len(s) - 1 /\ i \in 1 .. Len(s)
    <3>1. t[i] = s[i] /\ Calls(s[i], s[i + 1]) /\ i + 1 = Len(s)
      BY <1>1, <2>2
    <3>2. s[i].kind # "pipeline"
      BY <1>1, <3>1 DEF Calls
    <3>. QED
      BY <1>1, <2>2, <3>1, <3>2 DEF AsksFor
  <2>3. CASE i = Len(s)
    BY <1>1, <2>3 DEF AsksFor
  <2>4. CASE i \notin 1 .. Len(s)
    BY <1>1, <2>4 DEF AsksFor
  <2>. QED
    BY <1>1, <2>1, <2>2, <2>3, <2>4
<1>5. \A a \in AsksFor(s) : a \in Nat /\ a < Len(s)
  BY <1>1 DEF AsksFor
<1>. QED
  BY <1>3, <1>4, <1>5 DEF t

LEMMA EchoGets ==
  ASSUME NEW s, IsStack(s), s # <<>>, s[Len(s)].kind = "simple", s[Len(s)].at = "line"
  PROVE  /\ \A in : InputsKept(s, in) => InputsKept(Front(s), in)
         /\ AsksFor(Front(s)) = AsksFor(s) \ {Len(s)} /\ Len(s) \in AsksFor(s)
         /\ \A a \in AsksFor(s) : a \in Nat /\ a <= Len(s)
<1> DEFINE t == Front(s)
<1>1. /\ Len(s) \in Nat \ {0} /\ Len(t) = Len(s) - 1
      /\ \A i \in 1 .. Len(s) - 1 : t[i] = s[i]
      /\ \A i \in 1 .. Len(s) - 1 : Calls(s[i], s[i + 1])
  BY StackFrames, StackPop
<1>. HIDE DEF t
<1>2. \A j \in 1 .. Len(s) : RunningStage(s, j) => j <= Len(t) /\ RunningStage(t, j)
  BY <1>1 DEF RunningStage
<1>3. ASSUME NEW in, InputsKept(s, in) PROVE InputsKept(t, in)
  <2>1. Kept(t, in.owner, Len(t))
    BY <1>1, <1>2, <1>3, KeptStays DEF InputsKept
  <2>2. ASSUME NEW i \in 1 .. Len(t), RunningStage(t, i) PROVE Kept(t, t[i].old.owner, i - 1)
    <3>1. i \in 1 .. Len(s) /\ t[i] = s[i] /\ RunningStage(s, i)
      BY <1>1, <2>2 DEF RunningStage
    <3>2. Kept(s, t[i].old.owner, i - 1)
      BY <1>3, <3>1 DEF InputsKept
    <3>3. \A j \in 1 .. i - 1 : RunningStage(s, j) => j <= i - 1 /\ RunningStage(t, j)
      BY <1>1, <1>2
    <3>. QED
      BY <3>2, <3>3, KeptStays
  <2>. QED
    BY <2>1, <2>2 DEF InputsKept
<1>4. ASSUME NEW i PROVE i \in AsksFor(t) <=> i \in AsksFor(s) /\ i # Len(s)
  <2>1. CASE i \in 1 .. Len(s) - 2
    BY <1>1, <2>1 DEF AsksFor
  <2>2. CASE i = Len(s) - 1 /\ i \in 1 .. Len(s)
    <3>1. t[i] = s[i] /\ Calls(s[i], s[i + 1]) /\ i + 1 = Len(s)
      BY <1>1, <2>2
    <3>2. s[i].kind # "pipeline"
      BY <1>1, <3>1 DEF Calls
    <3>. QED
      BY <1>1, <2>2, <3>1, <3>2 DEF AsksFor
  <2>3. CASE i \notin 1 .. Len(s) - 1
    BY <1>1, <2>3 DEF AsksFor
  <2>. QED
    BY <1>1, <2>1, <2>2, <2>3
<1>5. Len(s) \in AsksFor(s) /\ \A a \in AsksFor(s) : a \in Nat /\ a <= Len(s)
  BY <1>1 DEF AsksFor
<1>. QED
  BY <1>3, <1>4, <1>5 DEF t

\* A stage begins: the input it sets is kept, and so is the one it will set back ...
LEMMA StageBegins ==
  ASSUME NEW s, IsStack(s), s # <<>>, s[Len(s)].kind = "stage", s[Len(s)].at = "call",
         NEW f \in Frames, f.kind = "stage", f.at = "command",
         InputsKept(s, f.old)
  PROVE  LET t == [s EXCEPT ![Len(s)] = f]
         IN /\ \A in : in.owner = Len(s) \/ in.owner = Len(s) - 1 => InputsKept(t, in)
            /\ AsksFor(t) = AsksFor(s) \cup IF Captured(f) THEN {Len(s) - 1} ELSE {}
            /\ \A a \in AsksFor(s) : a \in Nat /\ a < Len(s) - 1
<1> DEFINE t == [s EXCEPT ![Len(s)] = f]
<1>1. /\ Len(s) \in Nat \ {0} /\ Len(t) = Len(s) /\ t[Len(s)] = f
      /\ \A i \in 1 .. Len(s) - 1 : t[i] = s[i]
      /\ \A i \in 1 .. Len(s) - 1 : Calls(s[i], s[i + 1])
      /\ Len(s) > 1 /\ Calls(s[Len(s) - 1], s[Len(s)])
  BY StackFrames, StackSet
<1>. HIDE DEF t
<1>2. /\ \A j \in 1 .. Len(s) : RunningStage(s, j) => j <= Len(s) - 1 /\ RunningStage(t, j)
      /\ \A j \in 1 .. Len(s) - 1 : RunningStage(t, j) => RunningStage(s, j)
      /\ RunningStage(t, Len(s))
  BY <1>1 DEF RunningStage
<1>3. ASSUME NEW in, in.owner = Len(s) \/ in.owner = Len(s) - 1 PROVE InputsKept(t, in)
  <2>1. Kept(t, in.owner, Len(t))
    BY <1>1, <1>2, <1>3 DEF Kept
  <2>2. ASSUME NEW i \in 1 .. Len(t), RunningStage(t, i) PROVE Kept(t, t[i].old.owner, i - 1)
    <3>1. CASE i = Len(s)
      <4>1. Kept(s, f.old.owner, Len(s))
        BY DEF InputsKept
      <4>. QED
        BY <1>1, <1>2, <3>1, <4>1, KeptStays
    <3>2. CASE i # Len(s)
      <4>1. i \in 1 .. Len(s) - 1 /\ t[i] = s[i] /\ RunningStage(s, i)
        BY <1>1, <1>2, <2>2, <3>2
      <4>2. Kept(s, t[i].old.owner, i - 1)
        BY <1>1, <4>1 DEF InputsKept
      <4>3. \A j \in 1 .. i - 1 : RunningStage(s, j) => j <= i - 1 /\ RunningStage(t, j)
        BY <1>1, <1>2, <4>1
      <4>. QED
        BY <4>1, <4>2, <4>3, KeptStays
    <3>. QED
      BY <3>1, <3>2
  <2>. QED
    BY <2>1, <2>2 DEF InputsKept
<1>4. s[Len(s) - 1].kind = "pipeline"
  BY <1>1 DEF Calls
<1>5. ASSUME NEW i
      PROVE  i \in AsksFor(t) <=> i \in AsksFor(s) \/ (Captured(f) /\ i = Len(s) - 1)
  <2>1. CASE i \in 1 .. Len(s) - 2
    BY <1>1, <2>1 DEF AsksFor
  <2>2. CASE i = Len(s) - 1 /\ i \in 1 .. Len(s)
    <3>1. t[i] = s[i] /\ i + 1 = Len(s) /\ t[i + 1] = f
      BY <1>1, <2>2
    <3>. QED
      BY <1>1, <1>4, <2>2, <3>1 DEF AsksFor
  <2>3. CASE i = Len(s)
    BY <1>1, <2>3 DEF AsksFor
  <2>4. CASE i \notin 1 .. Len(s)
    BY <1>1, <2>4 DEF AsksFor
  <2>. QED
    BY <1>1, <2>1, <2>2, <2>3, <2>4
<1>6. ASSUME NEW a \in AsksFor(s) PROVE a \in Nat /\ a < Len(s) - 1
  <2>1. a \in 1 .. Len(s) /\ a # Len(s)
    BY <1>1 DEF AsksFor
  <2>2. a # Len(s) - 1
    <3>. SUFFICES ASSUME a = Len(s) - 1 PROVE FALSE
      OBVIOUS
    <3>1. s[a + 1] = s[Len(s)] /\ s[a].kind = "pipeline"
      BY <1>1, <1>4, <2>1
    <3>. QED
      BY <3>1 DEF AsksFor
  <2>. QED
    BY <1>1, <2>1, <2>2
<1>. QED
  BY <1>3, <1>5, <1>6 DEF t

\* ... and ends.
LEMMA StageEnds ==
  ASSUME NEW s, IsStack(s), s # <<>>, RunningStage(s, Len(s)), NEW in, InputsKept(s, in)
  PROVE  LET c == Captured(s[Len(s)])
         IN /\ InputsKept(Front(s), s[Len(s)].old)
            /\ AsksFor(Front(s)) = AsksFor(s) \ IF c THEN {Len(s) - 1} ELSE {}
            /\ c => Len(s) - 1 \in AsksFor(s)
            /\ \A a \in AsksFor(s) : a \in Nat /\ a <= Len(s) - 1
<1> DEFINE t == Front(s)
<1>1. /\ Len(s) \in Nat \ {0} /\ Len(t) = Len(s) - 1
      /\ \A i \in 1 .. Len(s) - 1 : t[i] = s[i]
      /\ \A i \in 1 .. Len(s) - 1 : Calls(s[i], s[i + 1])
  BY StackFrames, StackPop
<1>2. Len(s) > 1 /\ Calls(s[Len(s) - 1], s[Len(s)])
  BY <1>1, StackFrames DEF RunningStage
<1>. HIDE DEF t
<1>3. \A j \in 1 .. Len(s) - 1 : RunningStage(s, j) <=> RunningStage(t, j)
  BY <1>1 DEF RunningStage
<1>4. InputsKept(t, s[Len(s)].old)
  <2>1. Kept(s, s[Len(s)].old.owner, Len(s) - 1)
    BY <1>1 DEF InputsKept
  <2>2. Kept(t, s[Len(s)].old.owner, Len(t))
    BY <1>1, <1>3, <2>1, KeptStays
  <2>3. ASSUME NEW i \in 1 .. Len(t), RunningStage(t, i) PROVE Kept(t, t[i].old.owner, i - 1)
    <3>1. i \in 1 .. Len(s) - 1 /\ t[i] = s[i] /\ RunningStage(s, i)
      BY <1>1, <1>3, <2>3
    <3>2. Kept(s, t[i].old.owner, i - 1)
      BY <1>1, <3>1 DEF InputsKept
    <3>3. \A j \in 1 .. i - 1 : RunningStage(s, j) => j <= i - 1 /\ RunningStage(t, j)
      BY <1>1, <1>3, <3>1
    <3>. QED
      BY <3>1, <3>2, <3>3, KeptStays
  <2>. QED
    BY <2>2, <2>3 DEF InputsKept
<1>5. s[Len(s) - 1].kind = "pipeline"
  BY <1>2 DEF Calls, RunningStage
<1>6. ASSUME NEW i
      PROVE  i \in AsksFor(t) <=>
               i \in AsksFor(s) /\ ~(Captured(s[Len(s)]) /\ i = Len(s) - 1)
  <2>1. CASE i \in 1 .. Len(s) - 2
    BY <1>1, <2>1 DEF AsksFor
  <2>2. CASE i = Len(s) - 1 /\ i \in 1 .. Len(s)
    <3>1. t[i] = s[i] /\ i + 1 = Len(s)
      BY <1>1, <2>2
    <3>. QED
      BY <1>1, <1>5, <2>2, <3>1 DEF AsksFor
  <2>3. CASE i = Len(s)
    BY <1>1, <2>3 DEF AsksFor, RunningStage
  <2>4. CASE i \notin 1 .. Len(s)
    BY <1>1, <2>4 DEF AsksFor
  <2>. QED
    BY <1>1, <2>1, <2>2, <2>3, <2>4
<1>7. Captured(s[Len(s)]) => Len(s) - 1 \in AsksFor(s)
  BY <1>1, <1>2, <1>5 DEF AsksFor, RunningStage
<1>8. \A a \in AsksFor(s) : a \in Nat /\ a <= Len(s) - 1
  BY <1>1 DEF AsksFor, RunningStage
<1>. QED
  BY <1>4, <1>6, <1>7, <1>8 DEF t

-----------------------------------------------------------------------------
(***************************************************************************)
(* Captures and texts.                                                     *)
(***************************************************************************)
LEMMA MatchedStays ==
  ASSUME NEW s, NEW t, AsksFor(t) = AsksFor(s), NEW lost, NEW open, NEW after,
         DOMAIN after = DOMAIN open, \A i \in DOMAIN open : after[i].owner = open[i].owner,
         Matched(s, open, lost)
  PROVE  Matched(t, after, lost)
<1>1. \A i \in DOMAIN after : after[i].owner \in AsksFor(t)
  BY DEF Matched
<1>2. \A i, j \in DOMAIN after : i < j => after[i].owner < after[j].owner
  BY DEF Matched
<1>3. lost \/ \A o \in AsksFor(t) : \E i \in DOMAIN after : after[i].owner = o
  BY DEF Matched
<1>. QED
  BY <1>1, <1>2, <1>3 DEF Matched

\* A capture that begins is the innermost, and may be refused ...
LEMMA MatchedBegins ==
  ASSUME NEW s, NEW t, NEW o \in Nat, AsksFor(t) = AsksFor(s) \cup {o},
         \A a \in AsksFor(s) : a \in Nat /\ a < o,
         NEW lost, NEW open \in Seq(Captures), NEW c \in Captures, c.owner = o,
         Matched(s, open, lost)
  PROVE  Matched(t, Append(open, c), lost) /\ Matched(t, open, TRUE)
<1> DEFINE after == Append(open, c)
<1>1. /\ Len(open) \in Nat /\ DOMAIN open = 1 .. Len(open) /\ DOMAIN after = 1 .. Len(open) + 1
      /\ \A i \in 1 .. Len(open) : after[i] = open[i]
      /\ after[Len(open) + 1] = c
  OBVIOUS
<1>. HIDE DEF after
<1>2. \A i \in DOMAIN open : open[i].owner \in AsksFor(s)
  BY DEF Matched
<1>3. \A i \in DOMAIN after : after[i].owner \in AsksFor(t)
  BY <1>1, <1>2
<1>4. ASSUME NEW i \in DOMAIN after, NEW j \in DOMAIN after, i < j
      PROVE  after[i].owner < after[j].owner
  <2>1. i \in 1 .. Len(open) /\ after[i] = open[i] /\ open[i].owner \in AsksFor(s)
    BY <1>1, <1>2, <1>4
  <2>2. CASE j = Len(open) + 1
    BY <1>1, <2>1, <2>2
  <2>3. CASE j # Len(open) + 1
    BY <1>1, <1>4, <2>1, <2>3 DEF Matched
  <2>. QED
    BY <2>2, <2>3
<1>5. ASSUME ~lost, NEW a \in AsksFor(t) PROVE \E i \in DOMAIN after : after[i].owner = a
  <2>1. CASE a = o
    BY <1>1, <2>1
  <2>2. CASE a # o
    <3>1. PICK i \in DOMAIN open : open[i].owner = a
      BY <1>5, <2>2 DEF Matched
    <3>. QED
      BY <1>1, <3>1
  <2>. QED
    BY <2>1, <2>2
<1>6. Matched(t, after, lost)
  BY <1>3, <1>4, <1>5 DEF Matched
<1>7. Matched(t, open, TRUE)
  BY <1>2 DEF Matched
<1>. QED
  BY <1>6, <1>7 DEF after

\* ... and the one that ends is its own, or belongs further out when some were refused.
LEMMA MatchedEnds ==
  ASSUME NEW s, NEW t, NEW o \in AsksFor(s), AsksFor(t) = AsksFor(s) \ {o},
         \A a \in AsksFor(s) : a \in Nat /\ a <= o,
         NEW lost, NEW open \in Seq(Captures), Matched(s, open, lost)
  PROVE  LET after == IF open = <<>> THEN open ELSE Front(open)
         IN Matched(t, after, lost) /\ after \in Seq(Captures) /\ Len(after) <= Len(open)
<1>1. CASE open = <<>>
  <2>1. DOMAIN open = {}
    BY <1>1
  <2>2. lost \/ \A a \in AsksFor(s) : \E i \in DOMAIN open : open[i].owner = a
    BY DEF Matched
  <2>3. lost
    BY <2>1, <2>2
  <2>4. Matched(t, open, lost)
    BY <2>1, <2>3 DEF Matched
  <2>. QED
    BY <1>1, <2>4
<1>2. CASE open # <<>>
  <2> DEFINE after == Front(open)
  <2>1. /\ Len(open) \in Nat \ {0} /\ DOMAIN open = 1 .. Len(open)
        /\ after \in Seq(Captures) /\ Len(after) = Len(open) - 1
        /\ \A i \in 1 .. Len(open) - 1 : after[i] = open[i]
    BY <1>2, FrontOf
  <2>2. DOMAIN after = 1 .. Len(open) - 1
    BY <2>1
  <2>. HIDE DEF after
  <2>3. /\ \A i \in DOMAIN open : open[i].owner \in AsksFor(s)
        /\ \A i, j \in DOMAIN open : i < j => open[i].owner < open[j].owner
    BY DEF Matched
  <2>4. ASSUME NEW i \in DOMAIN after
        PROVE  i \in DOMAIN open /\ after[i] = open[i] /\ after[i].owner \in AsksFor(t)
    <3>1. /\ i \in DOMAIN open /\ Len(open) \in DOMAIN open /\ i < Len(open)
          /\ after[i] = open[i]
      BY <2>1, <2>2
    <3>2. open[i].owner < open[Len(open)].owner /\ open[Len(open)].owner <= o
      BY <2>3, <3>1
    <3>3. open[i].owner # o
      BY <2>3, <3>1, <3>2
    <3>. QED
      BY <2>3, <3>1, <3>3
  <2>5. \A i, j \in DOMAIN after : i < j => after[i].owner < after[j].owner
    BY <2>3, <2>4
  <2>6. ASSUME ~lost, NEW a \in AsksFor(t) PROVE \E i \in DOMAIN after : after[i].owner = a
    <3>1. \A b \in AsksFor(s) : \E i \in DOMAIN open : open[i].owner = b
      BY <2>6 DEF Matched
    <3>2. PICK i \in DOMAIN open : open[i].owner = a
      BY <3>1
    <3>3. PICK k \in DOMAIN open : open[k].owner = o
      BY <3>1
    <3>4. i # Len(open)
      <4>1. CASE k = Len(open)
        BY <3>2, <3>3, <4>1
      <4>2. CASE k # Len(open)
        <5>1. k < Len(open) /\ Len(open) \in DOMAIN open
          BY <2>1, <4>2
        <5>2. o < open[Len(open)].owner /\ open[Len(open)].owner <= o
          BY <2>3, <3>3, <5>1
        <5>. QED
          BY <5>2, <2>3, <5>1
      <4>. QED
        BY <4>1, <4>2
    <3>5. i \in DOMAIN after
      BY <2>1, <2>2, <3>4
    <3>. QED
      BY <2>4, <3>2, <3>5
  <2>7. Matched(t, after, lost)
    BY <2>4, <2>5, <2>6 DEF Matched
  <2>. QED
    BY <1>2, <2>1, <2>7 DEF after
<1>. QED
  BY <1>1, <1>2

\* Printing changes the text of the innermost capture, or what is on the screen.
LEMMA Printing ==
  ASSUME screen \in Texts, NEW open \in Seq(Captures), NEW text \in Texts, t_putchar(open, text)
  PROVE  /\ screen' \in Texts
         /\ captures' \in Seq(Captures) /\ Len(captures') = Len(open)
         /\ DOMAIN captures' = DOMAIN open
         /\ \A i \in DOMAIN open : captures'[i].owner = open[i].owner
<1>1. CASE open = <<>>
  <2>1. screen \o text \in Texts
    BY DEF Texts
  <2>2. captures' = open /\ screen' = screen \o text
    BY <1>1 DEF t_putchar
  <2>. QED
    BY <2>1, <2>2
<1>2. CASE open # <<>>
  <2> DEFINE c == [open[Len(open)] EXCEPT !.text = open[Len(open)].text \o text]
  <2>1. Len(open) \in Nat \ {0} /\ open[Len(open)] \in Captures
    BY <1>2
  <2>2. open[Len(open)].text \o text \in Texts
    BY <2>1 DEF Captures, Texts
  <2>3. c \in Captures /\ c.owner = open[Len(open)].owner
    BY <2>1, <2>2 DEF Captures
  <2>4. captures' = [open EXCEPT ![Len(open)] = c] /\ screen' = screen
    BY <1>2 DEF t_putchar
  <2>. HIDE DEF c
  <2>5. /\ captures' \in Seq(Captures) /\ Len(captures') = Len(open)
        /\ \A i \in 1 .. Len(open) : captures'[i].owner = open[i].owner
    BY <2>1, <2>3, <2>4
  <2>6. DOMAIN captures' = 1 .. Len(open) /\ DOMAIN open = 1 .. Len(open)
    BY <2>1, <2>5
  <2>7. screen' \in Texts
    BY <2>4
  <2>. QED
    BY <2>5, <2>6, <2>7
<1>. QED
  BY <1>1, <1>2

\* The line ends at the end of a text are a number of them.
LEMMA LeastNumber ==
  ASSUME NEW T, T \subseteq Nat, T # {}
  PROVE  \E x \in T : \A y \in T : x <= y
<1>1. PICK x \in T : \A y \in T : ~(<<y, x>> \in OpToRel(<, Nat))
  BY NatLessThanWellFounded, WFMin
<1>2. \A y \in T : ~(y < x)
  BY <1>1 DEF OpToRel
<1>. QED
  BY <1>2

LEMMA EchoText ==
  ASSUME NEW text \in Texts
  PROVE  EchoOf(text) \in Texts
<1> DEFINE Ends(n) == \A i \in n + 1 .. Len(text) : text[i] = Blank
           T == {n \in Nat : n <= Len(text) /\ Ends(n)}
<1>1. Len(text) \in Nat /\ \A i \in 1 .. Len(text) : text[i] \in Words \cup Messages \cup {Blank}
  BY DEF Texts
<1>2. Len(text) \in T
  BY <1>1
<1>3. PICK n \in T : \A m \in T : n <= m
  <2>. HIDE DEF T
  <2>. QED
    BY <1>2, LeastNumber DEF T
<1>4. n > 0 => text[n] # Blank
  <2>. SUFFICES ASSUME n > 0, text[n] = Blank PROVE FALSE
    OBVIOUS
  <2>1. \A i \in (n - 1) + 1 .. Len(text) : text[i] = Blank
    BY <1>3
  <2>2. n - 1 \in T
    BY <1>1, <1>3, <2>1
  <2>3. n \in Nat /\ n <= n - 1
    <3>1. n \in Nat
      BY <1>3
    <3>. HIDE DEF T
    <3>. QED
      BY <1>3, <2>2, <3>1
  <2>. QED
    BY <2>3
<1> DEFINE P(m) == Ends(m) /\ (m > 0 => text[m] # Blank)
<1>5. n \in 0 .. Len(text) /\ P(n)
  BY <1>1, <1>3, <1>4
<1> DEFINE last == CHOOSE m \in 0 .. Len(text) : P(m)
<1>6. last \in 0 .. Len(text)
  <2>. HIDE DEF P
  <2>. QED
    BY <1>5
<1>7. <<Blank>> \in Texts
  BY DEF Texts
<1>8. EchoOf(text) = IF last = 0 THEN <<Blank>> ELSE SubSeq(text, 1, last)
  BY DEF EchoOf
<1>. HIDE DEF last
<1>9. SubSeq(text, 1, last) \in Texts
  <2>1. \A i \in 1 .. last : text[i] \in Words \cup Messages \cup {Blank}
    BY <1>1, <1>6
  <2>. QED
    BY <1>6, <2>1, SubSeqProperties DEF Texts
<1>. QED
  BY <1>7, <1>8, <1>9

\* The files hold texts, also when one is written, in part, or removed.
LEMMA FilesStay ==
  ASSUME NEW fs, FilesOK(fs), NEW p
  PROVE  /\ FilesOK(Without(fs, p))
         /\ TextOf(fs, p) \in Texts
         /\ p \in Paths => \A b \in BOOLEAN, text \in Texts : FilesOK(Store(fs, p, b, text))
<1>1. FilesOK(Without(fs, p))
  BY DEF FilesOK, Without
<1>2. TextOf(fs, p) \in Texts
  BY DEF FilesOK, TextOf, Texts
<1>3. ASSUME p \in Paths, NEW b \in BOOLEAN, NEW text \in Texts PROVE FilesOK(Store(fs, p, b, text))
  <2> DEFINE all == IF b THEN TextOf(fs, p) \o text ELSE text
  <2>1. all \in Texts
    BY <1>2 DEF Texts
  <2>2. Store(fs, p, b, text) = Holding(fs, p, all)
    BY DEF Store
  <2>. HIDE DEF all
  <2>. QED
    BY <1>3, <2>1, <2>2 DEF FilesOK, Holding
<1>. QED
  BY <1>1, <1>2, <1>3

LEMMA Said ==
  /\ <<"not found">> \in Texts /\ <<"command not found">> \in Texts
  /\ <<"could not remove">> \in Texts /\ <<"could not overwrite">> \in Texts
  /\ <<"could not open">> \in Texts /\ <<"no background">> \in Texts
  /\ <<"no here-document">> \in Texts /\ <<>> \in Texts
  /\ \A w \in Words : <<w>> \in Texts
<1>1. \A w \in Words \cup Messages \cup {Blank} : <<w>> \in Texts
  BY DEF Texts
<1>2. <<>> \in Texts
  BY DEF Texts
<1>. QED
  BY <1>1, <1>2 DEF Messages

-----------------------------------------------------------------------------
(***************************************************************************)
(* Steps.                                                                  *)
(***************************************************************************)
LEMMA Returned ==
  ASSUME Nested, stack # <<>>, Quiet(stack[Top]), stack' = Front(stack), input' = input,
         exceeded' = exceeded, DOMAIN captures' = DOMAIN captures,
         \A i \in DOMAIN captures : captures'[i].owner = captures[i].owner
  PROVE  Nested'
<1>1. /\ IsStack(stack') /\ InputsKept(stack', input)
      /\ AsksFor(stack') = AsksFor(stack)
  BY StackPop, QuietPop DEF Nested, Top
<1>2. Matched(stack', captures', exceeded')
  BY <1>1, MatchedStays DEF Nested
<1>. QED
  BY <1>1, <1>2 DEF Nested

LEMMA Stepped ==
  ASSUME Nested, stack # <<>>, Quiet(stack[Top]), NEW f \in Frames, f.kind = stack[Top].kind,
         f.kind # "stage", Quiet(f), stack' = [stack EXCEPT ![Top] = f],
         UNCHANGED <<input, exceeded, captures>>
  PROVE  Nested'
<1>1. /\ IsStack(stack') /\ InputsKept(stack', input)
      /\ AsksFor(stack') = AsksFor(stack)
  BY StackSet, QuietSet DEF Nested, Top
<1>2. Matched(stack', captures', exceeded')
  BY <1>1, MatchedStays DEF Nested
<1>. QED
  BY <1>1, <1>2 DEF Nested

LEMMA Called ==
  ASSUME Nested, stack # <<>>, Quiet(stack[Top]), NEW f \in Frames, f.kind = stack[Top].kind,
         f.kind # "stage", Quiet(f), NEW g \in Frames, Calls(f, g), Quiet(g),
         stack' = Append([stack EXCEPT ![Top] = f], g),
         UNCHANGED <<input, exceeded, captures>>
  PROVE  Nested'
<1> DEFINE t == [stack EXCEPT ![Top] = f]
<1>1. /\ IsStack(t) /\ InputsKept(t, input) /\ AsksFor(t) = AsksFor(stack)
      /\ Len(t) = Top /\ t[Top] = f
  BY StackSet, QuietSet DEF Nested, Top
<1>2. t # <<>> /\ t[Len(t)] = f
  BY <1>1, StackFrames DEF Nested, Top
<1>. HIDE DEF t
<1>3. stack' = Append(t, g)
  BY DEF t
<1>4. IsStack(stack') /\ InputsKept(stack', input) /\ AsksFor(stack') = AsksFor(stack)
  <2>1. IsStack(Append(t, g))
    BY <1>1, <1>2, StackPush
  <2>2. /\ \A in : InputsKept(t, in) => InputsKept(Append(t, g), in)
        /\ AsksFor(Append(t, g)) = AsksFor(t)
    BY <1>1, <1>2, QuietPush
  <2>. QED
    BY <1>1, <1>3, <2>1, <2>2
<1>5. Matched(stack', captures', exceeded')
  BY <1>4, MatchedStays DEF Nested
<1>. QED
  BY <1>4, <1>5 DEF Nested

\* The innermost frame, in a state where a function can take a step.
LEMMA Innermost ==
  ASSUME Nested, NEW kind, NEW at, In(kind, at)
  PROVE  /\ stack # <<>> /\ stack[Top] \in Frames /\ Top \in Nat \ {0}
         /\ stack[Top].kind = kind /\ stack[Top].at = at
         /\ kind # "line" => Top > 1 /\ stack[Top - 1] \in Frames /\ Calls(stack[Top - 1], stack[Top])
BY StackFrames DEF Nested, In, Top

LEMMA EnterStep ==
  ASSUME ExecutorInv, NEW l \in Typed, shell_process(l)
  PROVE  ExecutorInv'
<1>1. /\ stack = <<>> /\ stack' = <<LineFrame(l)>> /\ captures' = captures /\ input' = input
      /\ screen' = <<>> /\ status' = 0 /\ exceeded' = FALSE
      /\ files' = files /\ collecting' = collecting
  BY DEF shell_process
<1>2. LineFrame(l) \in Frames /\ LineFrame(l).kind = "line"
  BY NewFrames, ExecutorAssumption DEF LineFrame
<1>3. /\ stack' \in Seq(Frames) /\ Len(stack') = 1 /\ stack'[1] = LineFrame(l) /\ stack' # <<>>
      /\ Len(stack) = 0
  BY <1>1, <1>2
<1>4. IsStack(stack')
  BY <1>2, <1>3 DEF IsStack
<1>5. input.owner = 0
  BY <1>3 DEF ExecutorInv, Nested, InputsKept, Kept
<1>6. InputsKept(stack', input)
  BY <1>2, <1>3, <1>5 DEF InputsKept, Kept, RunningStage
<1>7. AsksFor(stack) = {} /\ AsksFor(stack') = {}
  BY <1>2, <1>3 DEF AsksFor
<1>8. DOMAIN captures = {}
  BY <1>7 DEF ExecutorInv, Nested, Matched
<1>9. Matched(stack', captures, FALSE)
  BY <1>7, <1>8 DEF Matched
<1>10. Nested'
  BY <1>1, <1>4, <1>6, <1>9 DEF Nested
<1>11. ValuesOK'
  BY <1>1, Said DEF ExecutorInv, ValuesOK
<1>. QED
  BY <1>10, <1>11 DEF ExecutorInv

LEMMA LineStep ==
  ASSUME ExecutorInv, commands_execute \/ commands_execute_right
  PROVE  ExecutorInv'
<1>0. Nested /\ ValuesOK
  BY DEF ExecutorInv
<1>1. CASE commands_execute
  <2>1. In("line", "call") /\ UNCHANGED <<input, files, collecting, exceeded>>
    BY <1>1 DEF commands_execute, ghosts
  <2>2. /\ stack # <<>> /\ stack[Top] \in Frames /\ stack[Top].kind = "line"
        /\ stack[Top].at = "call" /\ Quiet(stack[Top])
    BY <1>0, <2>1, Innermost DEF Quiet
  <2>3. CASE Head(stack[Top].line).op \in {"&", "<<"}
    <3>1. PICK text \in Texts : t_print(text)
      BY <1>1, <2>3, Said DEF commands_execute
    <3>2. stack' = Front(stack) /\ status' = status
      BY <1>1, <2>3 DEF commands_execute, Return
    <3>3. /\ screen' \in Texts
          /\ captures' \in Seq(Captures) /\ Len(captures') = Len(captures)
          /\ DOMAIN captures' = DOMAIN captures
          /\ \A i \in DOMAIN captures : captures'[i].owner = captures[i].owner
      BY <1>0, <3>1, Printing DEF ValuesOK, t_print
    <3>4. Nested'
      BY <1>0, <2>1, <2>2, <3>2, <3>3, Returned
    <3>5. ValuesOK'
      BY <1>0, <2>1, <3>2, <3>3 DEF ValuesOK
    <3>. QED
      BY <3>4, <3>5 DEF ExecutorInv
  <2>4. CASE Head(stack[Top].line).op \notin {"&", "<<"}
    <3> DEFINE p == Head(stack[Top].line).pipeline
               f == [stack[Top] EXCEPT !.at = "left"]
    <3>1. /\ stack' = Append(Waiting("left"), PipelineFrame(p))
          /\ UNCHANGED <<captures, screen, status>>
      BY <1>1, <2>4 DEF commands_execute
    <3>2. p \in Seq(Stages) \ {<<>>}
      BY <2>2, FrameFields, ExecutorAssumption
    <3>3. PipelineFrame(p) \in Frames /\ Quiet(PipelineFrame(p)) /\ PipelineFrame(p).kind = "pipeline"
      BY <3>2, NewFrames DEF PipelineFrame, Quiet
    <3>4. f \in Frames /\ f.kind = "line" /\ f.at = "left" /\ Quiet(f)
      BY <2>2, LineLeft DEF Quiet
    <3>5. Waiting("left") = [stack EXCEPT ![Top] = f]
      BY DEF Waiting
    <3>6. Calls(f, PipelineFrame(p))
      BY <3>3, <3>4 DEF Calls
    <3>. HIDE DEF f, p
    <3>7. Nested'
      BY <1>0, <2>1, <2>2, <3>1, <3>3, <3>4, <3>5, <3>6, Called
    <3>8. ValuesOK'
      BY <1>0, <2>1, <3>1 DEF ValuesOK
    <3>. QED
      BY <3>7, <3>8 DEF ExecutorInv
  <2>. QED
    BY <2>3, <2>4
<1>2. CASE commands_execute_right
  <2>1. /\ In("line", "left")
        /\ UNCHANGED <<captures, input, status, screen, files, collecting, exceeded>>
    BY <1>2 DEF commands_execute_right, ghosts
  <2>2. /\ stack # <<>> /\ stack[Top] \in Frames /\ stack[Top].kind = "line"
        /\ Quiet(stack[Top])
    BY <1>0, <2>1, Innermost DEF Quiet
  <2>3. ValuesOK'
    BY <1>0, <2>1 DEF ValuesOK
  <2>4. CASE stack' = Front(stack)
    <3>1. Nested'
      BY <1>0, <2>1, <2>2, <2>4, Returned
    <3>. QED
      BY <2>3, <3>1 DEF ExecutorInv
  <2>5. CASE stack' # Front(stack)
    <3> DEFINE f == LineFrame(Tail(stack[Top].line))
    <3>1. /\ stack' = [stack EXCEPT ![Top] = f]
          /\ Head(stack[Top].line).op \in {";", "&&", "||"}
      BY <1>2, <2>5 DEF commands_execute_right
    <3>2. Tail(stack[Top].line) \in Lines
      BY <2>2, <3>1, FrameFields, ExecutorAssumption
    <3>3. f \in Frames /\ f.kind = "line" /\ Quiet(f)
      BY <3>2, NewFrames DEF LineFrame, Quiet
    <3>. HIDE DEF f
    <3>4. Nested'
      BY <1>0, <2>1, <2>2, <3>1, <3>3, Stepped
    <3>. QED
      BY <2>3, <3>4 DEF ExecutorInv
  <2>. QED
    BY <2>4, <2>5
<1>. QED
  BY <1>1, <1>2

LEMMA PipelineStep ==
  ASSUME ExecutorInv, shell_execute_pipeline \/ shell_pipeline_next
  PROVE  ExecutorInv'
<1>0. Nested /\ ValuesOK
  BY DEF ExecutorInv
<1>1. CASE shell_execute_pipeline
  <2>1. /\ In("pipeline", "call")
        /\ UNCHANGED <<captures, input, status, screen, files, collecting, exceeded>>
    BY <1>1 DEF shell_execute_pipeline, ghosts
  <2>2. /\ stack # <<>> /\ stack[Top] \in Frames /\ stack[Top].kind = "pipeline"
        /\ stack[Top].at = "call" /\ Quiet(stack[Top])
    BY <1>0, <2>1, Innermost DEF Quiet
  <2> DEFINE stages == stack[Top].stages
             f == [stack[Top] EXCEPT !.at = "stage", !.fresh = FALSE]
             g == StageFrame(Head(stages), Len(stages) = 1)
  <2>3. stack' = Append([stack EXCEPT ![Top] = f], g)
    BY <1>1 DEF shell_execute_pipeline
  <2>4. stages \in Seq(Stages) /\ stages # <<>>
    BY <2>2, FrameFields
  <2>5. Head(stages) \in Stages /\ (Len(stages) = 1) \in BOOLEAN
    BY <2>4
  <2>6. g \in Frames /\ g.kind = "stage" /\ g.at = "call" /\ Quiet(g)
    BY <2>5, NewFrames DEF StageFrame, Quiet
  <2>7. f \in Frames /\ f.kind = "pipeline"
    BY <2>2, PipelineStage
  <2>8. f.at = "stage"
    <3>1. stack[Top] \in PipelineFrames
      BY <2>2 DEF Frames, LineFrames, PipelineFrames, StageFrames, SimpleFrames, ScriptFrames
    <3>. QED
      BY <3>1 DEF PipelineFrames
  <2>9. Quiet(f) /\ Calls(f, g)
    BY <2>6, <2>7, <2>8 DEF Quiet, Calls
  <2>. HIDE DEF f, g, stages
  <2>10. Nested'
    BY <1>0, <2>1, <2>2, <2>3, <2>6, <2>7, <2>9, Called
  <2>11. ValuesOK'
    BY <1>0, <2>1 DEF ValuesOK
  <2>. QED
    BY <2>10, <2>11 DEF ExecutorInv
<1>2. CASE shell_pipeline_next
  <2>1. /\ In("pipeline", "stage")
        /\ UNCHANGED <<captures, input, screen, files, collecting, exceeded>>
    BY <1>2 DEF shell_pipeline_next
  <2>2. /\ stack # <<>> /\ stack[Top] \in Frames /\ stack[Top].kind = "pipeline"
        /\ stack[Top].at = "stage" /\ Quiet(stack[Top])
    BY <1>0, <2>1, Innermost DEF Quiet
  <2>3. status' = status
    BY <1>2 DEF shell_pipeline_next, Return
  <2>4. ValuesOK'
    BY <1>0, <2>1, <2>3 DEF ValuesOK
  <2>5. CASE Len(stack[Top].stages) = 1
    <3>1. stack' = Front(stack)
      BY <1>2, <2>5 DEF shell_pipeline_next, Return
    <3>2. Nested'
      BY <1>0, <2>1, <2>2, <3>1, Returned
    <3>. QED
      BY <2>4, <3>2 DEF ExecutorInv
  <2>6. CASE Len(stack[Top].stages) # 1
    <3>1. PICK text \in IF stack[Top].written THEN {stack[Top].output} ELSE Leftovers :
            stack' = [stack EXCEPT ![Top] =
                        [stack[Top] EXCEPT !.stages = Tail(stack[Top].stages),
                                           !.input = text, !.at = "call"]]
      BY <1>2, <2>6 DEF shell_pipeline_next
    <3> DEFINE f == [stack[Top] EXCEPT !.stages = Tail(stack[Top].stages),
                                       !.input = text, !.at = "call"]
    <3>2. /\ stack[Top].stages \in Seq(Stages) /\ stack[Top].stages # <<>>
          /\ stack[Top].output \in Texts
      BY <2>2, FrameFields
    <3>3. Tail(stack[Top].stages) \in Seq(Stages) \ {<<>>}
      <4> DEFINE q == stack[Top].stages
      <4>1. q \in Seq(Stages) /\ q # <<>> /\ Len(q) # 1
        BY <2>6, <3>2
      <4>. HIDE DEF q
      <4>2. Tail(q) \in Seq(Stages) /\ Len(Tail(q)) = Len(q) - 1 /\ Len(q) \in Nat
        BY <4>1, HeadTailProperties
      <4>3. Len(Tail(q)) # 0
        BY <4>1, <4>2, EmptySeq
      <4>4. Tail(q) # <<>>
        BY <4>2, <4>3, EmptySeq
      <4>. QED
        BY <4>2, <4>4 DEF q
    <3>4. text \in Texts
      BY <3>2, ExecutorAssumption
    <3>5. f \in Frames /\ f.kind = "pipeline"
      BY <2>2, <3>3, <3>4, PipelineStage
    <3>6. Quiet(f)
      BY <3>5 DEF Quiet
    <3>7. stack' = [stack EXCEPT ![Top] = f]
      BY <3>1
    <3>. HIDE DEF f
    <3>8. Nested'
      BY <1>0, <2>1, <2>2, <3>5, <3>6, <3>7, Stepped
    <3>. QED
      BY <2>4, <3>8 DEF ExecutorInv
  <2>. QED
    BY <2>5, <2>6
<1>. QED
  BY <1>1, <1>2

\* A function that prints at most, and returns.
LEMMA SaysAndReturns ==
  ASSUME ExecutorInv, stack # <<>>, Quiet(stack[Top]), stack' = Front(stack),
         status' \in {0, 1}, FilesOK(files'), collecting' \in Paths \cup {NULL},
         \/ UNCHANGED <<captures, screen>>
         \/ \E text \in Texts : t_print(text),
         UNCHANGED <<input, exceeded>>
  PROVE  ExecutorInv'
<1>0. Nested /\ ValuesOK
  BY DEF ExecutorInv
<1>1. /\ screen' \in Texts
      /\ captures' \in Seq(Captures) /\ Len(captures') = Len(captures)
      /\ DOMAIN captures' = DOMAIN captures
      /\ \A i \in DOMAIN captures : captures'[i].owner = captures[i].owner
  <2>1. CASE UNCHANGED <<captures, screen>>
    BY <1>0, <2>1 DEF ValuesOK
  <2>2. CASE \E text \in Texts : t_print(text)
    BY <1>0, <2>2, Printing DEF ValuesOK, t_print
  <2>. QED
    BY <2>1, <2>2
<1>2. Nested'
  BY <1>0, <1>1, Returned
<1>3. ValuesOK'
  BY <1>0, <1>1 DEF ValuesOK
<1>. QED
  BY <1>2, <1>3 DEF ExecutorInv

LEMMA CollectStep ==
  ASSUME ExecutorInv, shell_begin_input_redirect
  PROVE  ExecutorInv'
<1>0. Nested /\ ValuesOK
  BY DEF ExecutorInv
<1> DEFINE s == stack[Top].stage
<1>1. /\ In("stage", "call") /\ Collects(s) /\ UNCHANGED <<input, exceeded>>
      /\ stack' = Front(stack) /\ status' \in {0, 1}
  BY DEF shell_begin_input_redirect, Return
<1>2. /\ stack # <<>> /\ stack[Top] \in Frames /\ stack[Top].kind = "stage"
      /\ Quiet(stack[Top])
  BY <1>0, <1>1, Innermost DEF Quiet
<1>3. s \in Stages
  BY <1>2, FrameFields
<1>4. s.to \in Paths
  BY <1>1, <1>3, ExecutorAssumption DEF Collects
<1>5. CASE /\ files' = Store(files, s.to, s.append, <<>>) /\ collecting' = s.to
           /\ UNCHANGED <<captures, screen>>
  <2>1. FilesOK(files')
    <3>1. \A b : Store(files, s.to, b, <<>>) = Store(files, s.to, IF b THEN TRUE ELSE FALSE, <<>>)
      BY DEF Store
    <3>2. (IF s.append THEN TRUE ELSE FALSE) \in BOOLEAN
      OBVIOUS
    <3>. QED
      BY <1>0, <1>4, <1>5, <3>1, <3>2, FilesStay, Said DEF ValuesOK
  <2>. QED
    BY <1>1, <1>2, <1>4, <1>5, <2>1, SaysAndReturns
<1>6. CASE /\ files' \in {files, IF s.append THEN files ELSE Without(files, s.to)}
           /\ t_print(<<"could not open">>) /\ UNCHANGED collecting
  <2>1. FilesOK(files')
    BY <1>0, <1>6, FilesStay DEF ValuesOK
  <2>2. \E text \in Texts : t_print(text)
    BY <1>6, Said
  <2>3. collecting' \in Paths \cup {NULL}
    BY <1>0, <1>6 DEF ValuesOK
  <2>. QED
    BY <1>1, <1>2, <2>1, <2>2, <2>3, SaysAndReturns
<1>. QED
  BY <1>5, <1>6 DEF shell_begin_input_redirect

LEMMA StageStep ==
  ASSUME ExecutorInv, shell_execute_stage
  PROVE  ExecutorInv'
<1>0. Nested /\ ValuesOK
  BY DEF ExecutorInv
<1> DEFINE s == stack[Top].stage
<1>1. In("stage", "call") /\ UNCHANGED <<files, collecting>>
  BY DEF shell_execute_stage
<1>2. /\ stack # <<>> /\ stack[Top] \in Frames /\ stack[Top].kind = "stage"
      /\ stack[Top].at = "call" /\ Quiet(stack[Top]) /\ Top \in Nat \ {0}
      /\ Top > 1 /\ stack[Top - 1] \in Frames /\ Calls(stack[Top - 1], stack[Top])
  BY <1>0, <1>1, Innermost DEF Quiet
<1>3. s \in Stages
  BY <1>2, FrameFields
<1>4. CASE Missing(s)
  <2>1. /\ t_print(<<"not found">>) /\ stack' = Front(stack) /\ status' = 1
        /\ UNCHANGED <<input, exceeded>>
    BY <1>4 DEF shell_execute_stage, input_missing, Return
  <2>2. \E text \in Texts : t_print(text)
    BY <2>1, Said
  <2>3. FilesOK(files') /\ collecting' \in Paths \cup {NULL}
    BY <1>0, <1>1 DEF ValuesOK
  <2>. QED
    BY <1>2, <2>1, <2>2, <2>3, SaysAndReturns
<1>5. CASE ~Missing(s)
  <2> DEFINE f == [[stack[Top] EXCEPT !.at = "command"] EXCEPT !.old = input]
             g == SimpleFrame(s.command)
             t == [stack EXCEPT ![Top] = f]
  <2>1. /\ input' = StageInput(s)
        /\ stack' = Append([stack EXCEPT ![Top].at = "command", ![Top].old = input], g)
        /\ IF Captured(stack[Top]) THEN t_capture_begin(Top - 1)
           ELSE UNCHANGED <<captures, exceeded>>
        /\ UNCHANGED <<status, screen>>
    BY <1>5 DEF shell_execute_stage
  <2>2. [stack EXCEPT ![Top].at = "command", ![Top].old = input] = t
    <3>1. Top \in DOMAIN stack
      BY <1>0, <1>2, StackFrames DEF Nested, Top
    <3>. QED
      BY <3>1
  <2>3. /\ f \in Frames /\ f.kind = "stage" /\ f.at = "command" /\ f.old = input
        /\ f.stage = s /\ f.last = stack[Top].last
    <3>1. input \in Inputs
      BY <1>0 DEF ValuesOK
    <3>. QED
      BY <1>2, <3>1, StageCommand
  <2>4. g \in Frames /\ g.kind = "simple" /\ g.at = "call" /\ Quiet(g)
    BY <1>3, NewFrames DEF SimpleFrame, Quiet
  <2>5. Captured(f) = Captured(stack[Top])
    BY <2>3 DEF Captured
  <2>. HIDE DEF f, g
  <2>6. input' \in Inputs /\ input'.owner \in {Top - 1, Top}
    <3>1. CASE s.from # NULL
      <4>1. s.from \in DOMAIN files
        BY <1>5, <3>1 DEF Missing
      <4>2. files[s.from] \in Texts
        BY <1>0, <4>1 DEF ValuesOK, FilesOK
      <4>3. input' = [owner |-> Top, text |-> files[s.from]]
        BY <2>1, <3>1 DEF StageInput
      <4>. QED
        BY <1>2, <4>2, <4>3 DEF Inputs
    <3>2. CASE s.from = NULL
      <4>1. stack[Top - 1].kind = "pipeline"
        BY <1>2 DEF Calls
      <4>2. stack[Top - 1].input \in Texts
        BY <1>2, <4>1, FrameFields
      <4>3. input' = [owner |-> Top - 1, text |-> stack[Top - 1].input]
        BY <2>1, <3>2 DEF StageInput
      <4>. QED
        BY <1>2, <4>2, <4>3 DEF Inputs
    <3>. QED
      BY <3>1, <3>2
  <2>7. IsStack(t) /\ Len(t) = Top /\ t[Top] = f
    BY <1>0, <1>2, <2>3, StackSet DEF Nested, Top
  <2>8. /\ InputsKept(t, input')
        /\ AsksFor(t) = AsksFor(stack) \cup IF Captured(f) THEN {Top - 1} ELSE {}
        /\ \A a \in AsksFor(stack) : a \in Nat /\ a < Top - 1
    <3>1. /\ IsStack(stack) /\ InputsKept(stack, f.old) /\ Top = Len(stack)
      BY <1>0, <2>3 DEF Nested, Top
    <3>2. /\ stack[Len(stack)].kind = "stage" /\ stack[Len(stack)].at = "call"
          /\ input'.owner = Len(stack) \/ input'.owner = Len(stack) - 1
      BY <1>2, <2>6, <3>1
    <3>3. LET u == [stack EXCEPT ![Len(stack)] = f]
          IN /\ \A in : in.owner = Len(stack) \/ in.owner = Len(stack) - 1 => InputsKept(u, in)
             /\ AsksFor(u) = AsksFor(stack) \cup IF Captured(f) THEN {Len(stack) - 1} ELSE {}
             /\ \A a \in AsksFor(stack) : a \in Nat /\ a < Len(stack) - 1
      <4>1. stack # <<>> /\ f \in Frames /\ f.kind = "stage" /\ f.at = "command"
        BY <1>2, <2>3
      <4>. HIDE DEF t
      <4>. QED
        BY <3>1, <3>2, <4>1, StageBegins
    <3>4. InputsKept([stack EXCEPT ![Len(stack)] = f], input')
      BY <3>2, <3>3
    <3>. QED
      BY <3>1, <3>3, <3>4
  <2>9. t # <<>> /\ t[Len(t)] = f
    BY <1>2, <2>7, StackFrames
  <2>10. stack' = Append(t, g)
    BY <2>1, <2>2
  <2>. HIDE DEF t
  <2>11. Calls(f, g)
    BY <2>3, <2>4 DEF Calls
  <2>12. IsStack(stack')
    BY <2>4, <2>7, <2>9, <2>10, <2>11, StackPush
  <2>13. /\ \A in : InputsKept(t, in) => InputsKept(Append(t, g), in)
         /\ AsksFor(Append(t, g)) = AsksFor(t)
    BY <2>4, <2>7, <2>9, <2>11, QuietPush
  <2>14. InputsKept(stack', input')
    BY <2>8, <2>10, <2>13
  <2>15. AsksFor(stack') = AsksFor(stack) \cup IF Captured(f) THEN {Top - 1} ELSE {}
    BY <2>8, <2>10, <2>13
  <2>16. /\ Matched(stack', captures', exceeded')
         /\ captures' \in Seq(Captures) /\ Len(captures') <= MaxDepth
         /\ exceeded' \in BOOLEAN
    <3>1. CASE Captured(f)
      <4> DEFINE c == [owner |-> Top - 1, text |-> <<>>]
      <4>1. c \in Captures /\ c.owner = Top - 1
        <5>1. Top - 1 \in Nat \ {0}
          BY <1>2
        <5>2. <<>> \in Texts
          BY Said
        <5>. QED
          BY <5>1, <5>2 DEF Captures
      <4>2. AsksFor(stack') = AsksFor(stack) \cup {Top - 1}
        BY <2>15, <3>1
      <4>3. t_capture_begin(Top - 1)
        BY <2>1, <2>5, <3>1
      <4>4. captures \in Seq(Captures) /\ Len(captures) <= MaxDepth /\ MaxDepth \in Nat
        BY <1>0, ExecutorAssumption DEF ValuesOK
      <4>5. Top - 1 \in Nat
        BY <1>2
      <4>6. /\ Matched(stack', Append(captures, c), exceeded)
            /\ Matched(stack', captures, TRUE)
        <5>. HIDE DEF c
        <5>. QED
          BY <1>0, <2>8, <4>1, <4>2, <4>4, <4>5, MatchedBegins DEF Nested
      <4>7. CASE Len(captures) < MaxDepth
        <5>1. captures' = Append(captures, c) /\ exceeded' = exceeded
          BY <4>3, <4>7 DEF t_capture_begin
        <5>2. exceeded' \in BOOLEAN
          BY <1>0, <5>1 DEF ValuesOK
        <5>3. captures' \in Seq(Captures) /\ Len(captures') = Len(captures) + 1
          <6>. HIDE DEF c
          <6>. QED
            BY <4>1, <4>4, <5>1
        <5>4. Len(captures') <= MaxDepth
          BY <4>4, <4>7, <5>3
        <5>. QED
          BY <4>6, <5>1, <5>2, <5>3, <5>4
      <4>8. CASE ~(Len(captures) < MaxDepth)
        <5>1. captures' = captures /\ exceeded' = TRUE
          BY <4>3, <4>8 DEF t_capture_begin
        <5>. QED
          BY <4>4, <4>6, <5>1
      <4>. QED
        BY <4>7, <4>8
    <3>2. CASE ~Captured(f)
      <4>1. captures' = captures /\ exceeded' = exceeded
        BY <2>1, <2>5, <3>2
      <4>2. AsksFor(stack') = AsksFor(stack)
        BY <2>15, <3>2
      <4>3. Matched(stack', captures', exceeded')
        BY <1>0, <4>1, <4>2, MatchedStays DEF Nested
      <4>4. exceeded' \in BOOLEAN
        BY <1>0, <4>1 DEF ValuesOK
      <4>. QED
        BY <1>0, <4>1, <4>3, <4>4 DEF ValuesOK
    <3>. QED
      BY <3>1, <3>2
  <2>17. ValuesOK'
    BY <1>0, <1>1, <2>1, <2>6, <2>16 DEF ValuesOK
  <2>. QED
    BY <2>12, <2>14, <2>16, <2>17 DEF ExecutorInv, Nested
<1>. QED
  BY <1>4, <1>5

LEMMA StageDoneStep ==
  ASSUME ExecutorInv, shell_stage_done
  PROVE  ExecutorInv'
<1>0. Nested /\ ValuesOK
  BY DEF ExecutorInv
<1> DEFINE top == stack[Top]
           s == stack[Top].stage
           t == Front(stack)
<1>1. /\ In("stage", "command") /\ input' = top.old /\ UNCHANGED <<collecting, exceeded>>
  BY DEF shell_stage_done, OldInput
<1>2. /\ stack # <<>> /\ top \in Frames /\ top.kind = "stage" /\ top.at = "command"
      /\ Top \in Nat /\ Top > 1 /\ stack[Top - 1] \in Frames /\ Calls(stack[Top - 1], top)
  BY <1>0, <1>1, Innermost
<1>3. s \in Stages /\ top.old \in Inputs
  BY <1>2, FrameFields
<1>4. IsStack(t) /\ Len(t) = Top - 1 /\ t[Top - 1] = stack[Top - 1] /\ t # <<>>
  <2>1. /\ IsStack(t) /\ Len(t) = Top - 1
        /\ \A i \in 1 .. Top - 1 : t[i] = stack[i]
    BY <1>0, <1>2, StackPop DEF Nested, Top
  <2>2. Top - 1 \in 1 .. Top - 1 /\ Len(t) # 0
    BY <1>2, <2>1
  <2>. QED
    BY <2>1, <2>2, StackFrames
<1>5. /\ InputsKept(t, top.old)
      /\ AsksFor(t) = AsksFor(stack) \ IF Captured(top) THEN {Top - 1} ELSE {}
      /\ Captured(top) => Top - 1 \in AsksFor(stack)
      /\ \A a \in AsksFor(stack) : a \in Nat /\ a <= Top - 1
  <2>1. IsStack(stack) /\ InputsKept(stack, input) /\ Top = Len(stack)
    BY <1>0 DEF Nested, Top
  <2>2. RunningStage(stack, Len(stack))
    BY <1>2, <2>1 DEF RunningStage
  <2>. QED
    BY <1>2, <2>1, <2>2, StageEnds
<1>6. CASE ~Captured(top)
  <2>1. stack' = t /\ UNCHANGED <<captures, screen, status, files>>
    BY <1>6 DEF shell_stage_done
  <2>2. AsksFor(t) = AsksFor(stack)
    BY <1>5, <1>6
  <2>3. Matched(stack', captures', exceeded')
    BY <1>0, <1>1, <2>1, <2>2, MatchedStays DEF Nested
  <2>4. Nested'
    BY <1>1, <1>4, <1>5, <2>1, <2>3 DEF Nested
  <2>5. ValuesOK'
    BY <1>0, <1>1, <1>3, <2>1 DEF ValuesOK
  <2>. QED
    BY <2>4, <2>5 DEF ExecutorInv
<1>7. CASE Captured(top)
  <2> DEFINE open == t_capture_end
  <2>1. PICK text \in captured(Top - 1) :
          /\ stack' = [t EXCEPT ![Top - 1].output = text, ![Top - 1].written = TRUE,
                                ![Top - 1].fresh = TRUE]
          /\ \/ /\ captures' = open
                /\ files' = IF s.to = NULL THEN files ELSE Store(files, s.to, s.append, text)
                /\ UNCHANGED <<screen, status>>
             \/ /\ s.to # NULL /\ status' \in {1, status}
                /\ \/ files' = files /\ t_putchar(open, <<"could not overwrite">>)
                   \/ /\ files' = IF s.append THEN files ELSE Without(files, s.to)
                      /\ t_putchar(open, <<"could not open">>)
                   \/ /\ files' = Unrecorded(s.to, s.append)
                      /\ captures' = open /\ UNCHANGED screen
    BY <1>7 DEF shell_stage_done
  <2>2. text \in Texts
    <3>1. CASE captures # <<>> /\ Last(captures).owner = Top - 1
      <4>1. captures \in Seq(Captures) /\ text = captures[Len(captures)].text
        BY <1>0, <2>1, <3>1 DEF captured, Last, ValuesOK
      <4>2. captures[Len(captures)] \in Captures
        BY <3>1, <4>1
      <4>. QED
        BY <4>1, <4>2 DEF Captures
    <3>2. CASE ~(captures # <<>> /\ Last(captures).owner = Top - 1)
      BY <2>1, <3>2, ExecutorAssumption DEF captured
    <3>. QED
      BY <3>1, <3>2
  <2> DEFINE f == [[[t[Top - 1] EXCEPT !.output = text] EXCEPT !.written = TRUE]
                     EXCEPT !.fresh = TRUE]
  <2>3. t[Top - 1] \in Frames /\ t[Top - 1].kind = "pipeline"
    BY <1>2, <1>4 DEF Calls
  <2>4. f \in Frames /\ f.kind = "pipeline"
    BY <2>2, <2>3, PipelineStage
  <2>5. stack' = [t EXCEPT ![Len(t)] = f]
    <3>1. Top - 1 \in DOMAIN t
      BY <1>2, <1>4, StackFrames
    <3>. QED
      BY <1>4, <2>1, <3>1
  <2>. HIDE DEF f, t
  <2>6. f.kind = t[Len(t)].kind /\ Quiet(t[Len(t)]) /\ Quiet(f) /\ f.kind # "stage"
    BY <1>4, <2>3, <2>4 DEF Quiet
  <2>7. IsStack(stack')
    BY <1>4, <2>4, <2>5, <2>6, StackSet
  <2>8. InputsKept(stack', input') /\ AsksFor(stack') = AsksFor(t)
    <3>1. /\ \A in : InputsKept(t, in) => InputsKept([t EXCEPT ![Len(t)] = f], in)
          /\ AsksFor([t EXCEPT ![Len(t)] = f]) = AsksFor(t)
      BY <1>4, <2>4, <2>6, QuietSet
    <3>. QED
      BY <1>1, <1>5, <2>5, <3>1
  <2>9. /\ Matched(stack', open, exceeded) /\ open \in Seq(Captures)
        /\ Len(open) <= MaxDepth
    <3>1. captures \in Seq(Captures) /\ Matched(stack, captures, exceeded)
      BY <1>0 DEF ValuesOK, Nested
    <3>2. AsksFor(stack') = AsksFor(stack) \ {Top - 1} /\ Top - 1 \in AsksFor(stack)
      BY <1>5, <1>7, <2>8
    <3>3. open = IF captures = <<>> THEN captures ELSE Front(captures)
      BY DEF t_capture_end
    <3>. HIDE DEF open
    <3>4. Matched(stack', open, exceeded) /\ open \in Seq(Captures) /\ Len(open) <= Len(captures)
      BY <1>5, <3>1, <3>2, <3>3, MatchedEnds
    <3>5. Len(captures) <= MaxDepth /\ MaxDepth \in Nat
      BY <1>0, ExecutorAssumption DEF ValuesOK
    <3>6. Len(captures) \in Nat /\ Len(open) \in Nat
      BY <3>1, <3>4
    <3>7. Len(open) <= MaxDepth
      BY <3>4, <3>5, <3>6
    <3>. QED
      BY <3>4, <3>7
  <2>. HIDE DEF open
  <2>10. /\ screen' \in Texts
         /\ captures' \in Seq(Captures) /\ Len(captures') = Len(open)
         /\ DOMAIN captures' = DOMAIN open
         /\ \A i \in DOMAIN open : captures'[i].owner = open[i].owner
    <3>1. screen \in Texts
      BY <1>0 DEF ValuesOK
    <3>2. CASE \E said \in Texts : t_putchar(open, said)
      BY <2>9, <3>1, <3>2, Printing
    <3>3. CASE captures' = open /\ screen' = screen
      BY <2>9, <3>1, <3>3
    <3>. QED
      BY <2>1, <3>2, <3>3, Said
  <2>11. FilesOK(files') /\ status' \in {0, 1}
    <3>0. FilesOK(files) /\ status \in {0, 1}
      BY <1>0 DEF ValuesOK
    <3>1. s.to \in Paths \cup {NULL}
      BY <1>3, ExecutorAssumption
    <3>2. ASSUME s.to # NULL PROVE FilesOK(Store(files, s.to, s.append, text))
      <4>1. Store(files, s.to, s.append, text)
              = Store(files, s.to, IF s.append THEN TRUE ELSE FALSE, text)
        BY DEF Store
      <4>. QED
        BY <2>2, <3>0, <3>1, <3>2, <4>1, FilesStay
    <3>3. FilesOK(Without(files, s.to))
      BY <3>0, FilesStay
    <3>4. ASSUME s.to # NULL PROVE FilesOK(Unrecorded(s.to, s.append))
      <4>1. Unrecorded(s.to, s.append)
              = Store(files, s.to, IF s.append THEN TRUE ELSE FALSE, <<>>)
        BY DEF Unrecorded, Store
      <4>. QED
        BY <3>0, <3>1, <3>4, <4>1, Said, FilesStay
    <3>. QED
      BY <2>1, <3>0, <3>2, <3>3, <3>4
  <2>12. Matched(stack', captures', exceeded')
    BY <1>1, <2>9, <2>10, MatchedStays
  <2>13. Nested'
    BY <2>7, <2>8, <2>12 DEF Nested
  <2>14. ValuesOK'
    BY <1>0, <1>1, <1>3, <2>9, <2>10, <2>11 DEF ValuesOK
  <2>. QED
    BY <2>13, <2>14 DEF ExecutorInv
<1>. QED
  BY <1>6, <1>7

LEMMA BuiltinStep ==
  ASSUME ExecutorInv, Builtin
  PROVE  ExecutorInv'
<1>0. Nested /\ ValuesOK
  BY DEF ExecutorInv
<1>1. /\ In("simple", "call") /\ stack' = Front(stack) /\ status' \in {0, 1}
      /\ UNCHANGED <<input, collecting, exceeded>>
  BY DEF Builtin, no_command, cmd_echo, cmd_cat, cmd_rm, not_found, Running, Return, ghosts
<1>2. /\ stack # <<>> /\ stack[Top] \in Frames /\ stack[Top].kind = "simple"
      /\ stack[Top].at = "call" /\ Quiet(stack[Top])
  BY <1>0, <1>1, Innermost DEF Quiet
<1>3. PICK s \in Stages : stack[Top].command = s.command
  BY <1>2, FrameFields
<1>4. FilesOK(files) /\ input.text \in Texts /\ collecting \in Paths \cup {NULL}
  BY <1>0 DEF ValuesOK, Inputs
<1>5. FilesOK(files')
  <2>1. CASE cmd_rm
    BY <1>4, <2>1, FilesStay DEF cmd_rm
  <2>2. CASE no_command \/ cmd_echo \/ cmd_cat \/ not_found
    BY <1>4, <2>2 DEF no_command, cmd_echo, cmd_cat, not_found
  <2>. QED
    BY <2>1, <2>2 DEF Builtin
<1>6. UNCHANGED <<captures, screen>> \/ \E text \in Texts : t_print(text)
  <2>1. CASE no_command
    BY <2>1 DEF no_command
  <2>2. CASE cmd_echo
    <3>1. Argument \in Words
      BY <1>3, <2>2, ExecutorAssumption DEF cmd_echo, Running, Argument
    <3>2. <<Argument>> \in Texts
      BY <3>1, Said
    <3>. QED
      BY <2>2, <3>2 DEF cmd_echo
  <2>3. CASE cmd_cat
    <3> DEFINE text == IF Argument = NULL THEN input.text
                       ELSE IF Argument \in DOMAIN files THEN files[Argument]
                       ELSE <<"not found">>
    <3>1. text \in Texts
      <4>1. Argument \in DOMAIN files => files[Argument] \in Texts
        BY <1>4 DEF FilesOK
      <4>. QED
        BY <1>4, <4>1, Said
    <3>2. t_print(text)
      BY <2>3 DEF cmd_cat
    <3>. QED
      BY <3>1, <3>2
  <2>4. CASE cmd_rm
    BY <2>4, Said DEF cmd_rm
  <2>5. CASE not_found
    BY <2>5, Said DEF not_found
  <2>. QED
    BY <2>1, <2>2, <2>3, <2>4, <2>5 DEF Builtin
<1>. QED
  BY <1>1, <1>2, <1>4, <1>5, <1>6, SaysAndReturns

LEMMA ExpandStep ==
  ASSUME ExecutorInv, expand_echo_substitutions
  PROVE  ExecutorInv'
<1>0. Nested /\ ValuesOK
  BY DEF ExecutorInv
<1> DEFINE f == [stack[Top] EXCEPT !.at = "line"]
           g == LineFrame(stack[Top].command.sub)
           t == [stack EXCEPT ![Top] = f]
           c == [owner |-> Top, text |-> <<>>]
<1>1. /\ In("simple", "call") /\ stack[Top].command.name = "echo$" /\ t_capture_begin(Top)
      /\ stack' = Append(Waiting("line"), g)
      /\ UNCHANGED <<input, status, screen, files, collecting>>
  BY DEF expand_echo_substitutions, Running
<1>2. /\ stack # <<>> /\ stack[Top] \in Frames /\ stack[Top].kind = "simple"
      /\ stack[Top].at = "call" /\ Quiet(stack[Top]) /\ Top \in Nat \ {0}
  BY <1>0, <1>1, Innermost DEF Quiet
<1>3. PICK s \in Stages : stack[Top].command = s.command
  BY <1>2, FrameFields
<1>4. stack[Top].command.sub \in Lines
  BY <1>1, <1>3, ExecutorAssumption
<1>5. g \in Frames /\ g.kind = "line" /\ Quiet(g)
  BY <1>4, NewFrames DEF LineFrame, Quiet
<1>6. f \in Frames /\ f.kind = "simple" /\ f.at = "line"
  BY <1>2, SimpleWaits
<1>7. stack' = Append(t, g)
  BY <1>1 DEF Waiting
<1>8. c \in Captures /\ c.owner = Top
  <2>1. <<>> \in Texts
    BY Said
  <2>. QED
    BY <1>2, <2>1 DEF Captures
<1>. HIDE DEF f, g, c
<1>9. /\ IsStack(stack) /\ InputsKept(stack, input) /\ Top = Len(stack)
      /\ Matched(stack, captures, exceeded)
  BY <1>0 DEF Nested, Top
<1>10. IsStack(t) /\ Len(t) = Top /\ t[Top] = f
  <2>1. stack # <<>> /\ f.kind = stack[Len(stack)].kind
    BY <1>2, <1>6, <1>9
  <2>2. LET u == [stack EXCEPT ![Len(stack)] = f]
        IN IsStack(u) /\ Len(u) = Len(stack) /\ u[Len(stack)] = f
    BY <1>6, <1>9, <2>1, StackSet
  <2>. QED
    BY <1>9, <2>2
<1>11. /\ \A in : InputsKept(stack, in) => InputsKept(t, in)
       /\ AsksFor(t) = AsksFor(stack) \cup {Top}
       /\ \A a \in AsksFor(stack) : a \in Nat /\ a < Top
  BY <1>2, <1>6, <1>9, EchoAsks
<1>12. t # <<>> /\ t[Len(t)] = f
  BY <1>2, <1>10, StackFrames
<1>. HIDE DEF t
<1>13. Calls(f, g)
  BY <1>5, <1>6 DEF Calls
<1>14. IsStack(stack')
  BY <1>5, <1>7, <1>10, <1>12, <1>13, StackPush
<1>15. /\ \A in : InputsKept(t, in) => InputsKept(Append(t, g), in)
       /\ AsksFor(Append(t, g)) = AsksFor(t)
  BY <1>5, <1>10, <1>12, <1>13, QuietPush
<1>16. InputsKept(stack', input') /\ AsksFor(stack') = AsksFor(stack) \cup {Top}
  BY <1>1, <1>7, <1>9, <1>11, <1>15
<1>17. captures \in Seq(Captures) /\ Len(captures) <= MaxDepth /\ MaxDepth \in Nat
  BY <1>0, ExecutorAssumption DEF ValuesOK
<1>18. Matched(stack', Append(captures, c), exceeded) /\ Matched(stack', captures, TRUE)
  BY <1>2, <1>8, <1>9, <1>11, <1>16, <1>17, MatchedBegins
<1>19. /\ Matched(stack', captures', exceeded') /\ captures' \in Seq(Captures)
       /\ Len(captures') <= MaxDepth /\ exceeded' \in BOOLEAN
  <2>1. CASE Len(captures) < MaxDepth
    <3>1. captures' = Append(captures, c) /\ exceeded' = exceeded
      BY <1>1, <2>1 DEF t_capture_begin, c
    <3>2. exceeded' \in BOOLEAN
      BY <1>0, <3>1 DEF ValuesOK
    <3>3. captures' \in Seq(Captures) /\ Len(captures') = Len(captures) + 1
      BY <1>8, <1>17, <3>1
    <3>4. Len(captures') <= MaxDepth
      BY <1>17, <2>1, <3>3
    <3>. QED
      BY <1>18, <3>1, <3>2, <3>3, <3>4
  <2>2. CASE ~(Len(captures) < MaxDepth)
    <3>1. captures' = captures /\ exceeded' = TRUE
      BY <1>1, <2>2 DEF t_capture_begin
    <3>. QED
      BY <1>17, <1>18, <3>1
  <2>. QED
    BY <2>1, <2>2
<1>20. Nested'
  BY <1>14, <1>16, <1>19 DEF Nested
<1>21. ValuesOK'
  BY <1>0, <1>1, <1>19 DEF ValuesOK
<1>. QED
  BY <1>20, <1>21 DEF ExecutorInv

LEMMA SubstitutedStep ==
  ASSUME ExecutorInv, echo_substituted
  PROVE  ExecutorInv'
<1>0. Nested /\ ValuesOK
  BY DEF ExecutorInv
<1> DEFINE open == t_capture_end
<1>1. /\ In("simple", "line") /\ stack' = Front(stack) /\ status' = 0
      /\ UNCHANGED <<input, files, collecting, exceeded>>
  BY DEF echo_substituted, Return, ghosts
<1>2. PICK text \in captured(Top) : t_putchar(open, EchoOf(text))
  BY DEF echo_substituted
<1>3. /\ stack # <<>> /\ stack[Top].kind = "simple" /\ stack[Top].at = "line"
      /\ Top \in Nat \ {0}
  BY <1>0, <1>1, Innermost
<1>4. text \in Texts
  <2>1. CASE captures # <<>> /\ Last(captures).owner = Top
    <3>1. captures \in Seq(Captures) /\ text = captures[Len(captures)].text
      BY <1>0, <1>2, <2>1 DEF captured, Last, ValuesOK
    <3>2. captures[Len(captures)] \in Captures
      BY <2>1, <3>1
    <3>. QED
      BY <3>1, <3>2 DEF Captures
  <2>2. CASE ~(captures # <<>> /\ Last(captures).owner = Top)
    BY <1>2, <2>2, ExecutorAssumption DEF captured
  <2>. QED
    BY <2>1, <2>2
<1>5. /\ IsStack(stack) /\ InputsKept(stack, input) /\ Top = Len(stack)
      /\ Matched(stack, captures, exceeded)
  BY <1>0 DEF Nested, Top
<1>6. /\ \A in : InputsKept(stack, in) => InputsKept(Front(stack), in)
      /\ AsksFor(Front(stack)) = AsksFor(stack) \ {Top} /\ Top \in AsksFor(stack)
      /\ \A a \in AsksFor(stack) : a \in Nat /\ a <= Top
  BY <1>3, <1>5, EchoGets
<1>7. IsStack(stack') /\ InputsKept(stack', input')
  BY <1>1, <1>3, <1>5, <1>6, StackPop
<1>8. captures \in Seq(Captures) /\ Len(captures) <= MaxDepth /\ MaxDepth \in Nat
  BY <1>0, ExecutorAssumption DEF ValuesOK
<1>9. open = IF captures = <<>> THEN captures ELSE Front(captures)
  BY DEF t_capture_end
<1>. HIDE DEF open
<1>10. Matched(stack', open, exceeded) /\ open \in Seq(Captures) /\ Len(open) <= Len(captures)
  BY <1>1, <1>5, <1>6, <1>8, <1>9, MatchedEnds
<1>11. /\ screen' \in Texts
       /\ captures' \in Seq(Captures) /\ Len(captures') = Len(open)
       /\ DOMAIN captures' = DOMAIN open
       /\ \A i \in DOMAIN open : captures'[i].owner = open[i].owner
  <2>1. screen \in Texts /\ EchoOf(text) \in Texts
    BY <1>0, <1>4, EchoText DEF ValuesOK
  <2>. QED
    BY <1>2, <1>10, <2>1, Printing
<1>12. Matched(stack', captures', exceeded')
  BY <1>1, <1>10, <1>11, MatchedStays
<1>13. Len(captures') <= MaxDepth
  <2>1. Len(captures) \in Nat /\ Len(open) \in Nat
    BY <1>8, <1>10
  <2>. QED
    BY <1>8, <1>10, <1>11, <2>1
<1>14. Nested'
  BY <1>7, <1>12 DEF Nested
<1>15. ValuesOK'
  BY <1>0, <1>1, <1>11, <1>13 DEF ValuesOK
<1>. QED
  BY <1>14, <1>15 DEF ExecutorInv

LEMMA ScriptStep ==
  ASSUME ExecutorInv, run_script \/ script_done \/ script_execute
  PROVE  ExecutorInv'
<1>0. Nested /\ ValuesOK
  BY DEF ExecutorInv
<1>1. CASE run_script
  <2> DEFINE f == [stack[Top] EXCEPT !.at = "script"]
             g == ScriptFrame(Argument)
  <2>1. /\ In("simple", "call") /\ Argument \in Scripts
        /\ stack' = Append(Waiting("script"), g)
        /\ UNCHANGED <<captures, input, status, screen, files, collecting, exceeded>>
    BY <1>1 DEF run_script, Running, ghosts
  <2>2. /\ stack # <<>> /\ stack[Top] \in Frames /\ stack[Top].kind = "simple"
        /\ stack[Top].at = "call" /\ Quiet(stack[Top])
    BY <1>0, <2>1, Innermost DEF Quiet
  <2>3. g \in Frames /\ g.kind = "script" /\ Quiet(g)
    BY <2>1, NewFrames DEF ScriptFrame, Quiet
  <2>4. f \in Frames /\ f.kind = "simple" /\ f.at = "script"
    BY <2>2, SimpleWaits
  <2>5. Waiting("script") = [stack EXCEPT ![Top] = f]
    BY DEF Waiting
  <2>. HIDE DEF f, g
  <2>6. Quiet(f) /\ Calls(f, g)
    BY <2>3, <2>4 DEF Quiet, Calls
  <2>7. Nested'
    BY <1>0, <2>1, <2>2, <2>3, <2>4, <2>5, <2>6, Called
  <2>8. ValuesOK'
    BY <1>0, <2>1 DEF ValuesOK
  <2>. QED
    BY <2>7, <2>8 DEF ExecutorInv
<1>2. CASE script_done
  <2>1. /\ In("simple", "script") /\ stack' = Front(stack) /\ status' = 0
        /\ UNCHANGED <<captures, input, screen, files, collecting, exceeded>>
    BY <1>2 DEF script_done, Return, ghosts
  <2>2. stack # <<>> /\ Quiet(stack[Top])
    BY <1>0, <2>1, Innermost DEF Quiet
  <2>3. FilesOK(files') /\ collecting' \in Paths \cup {NULL}
    BY <1>0, <2>1 DEF ValuesOK
  <2>. QED
    BY <2>1, <2>2, <2>3, SaysAndReturns
<1>3. CASE script_execute
  <2> DEFINE lines == stack[Top].lines
  <2>1. /\ In("script", "call")
        /\ UNCHANGED <<captures, input, status, screen, files, collecting, exceeded>>
    BY <1>3 DEF script_execute, ghosts
  <2>2. /\ stack # <<>> /\ stack[Top] \in Frames /\ stack[Top].kind = "script"
        /\ Quiet(stack[Top])
    BY <1>0, <2>1, Innermost DEF Quiet
  <2>3. lines \in Seq(Lines)
    BY <2>2, FrameFields
  <2>4. CASE lines = <<>>
    <3>1. stack' = Front(stack)
      BY <1>3, <2>4 DEF script_execute
    <3>2. status' \in {0, 1} /\ FilesOK(files') /\ collecting' \in Paths \cup {NULL}
      BY <1>0, <2>1 DEF ValuesOK
    <3>. QED
      BY <2>1, <2>2, <3>1, <3>2, SaysAndReturns
  <2>5. CASE lines # <<>>
    <3> DEFINE f == [stack[Top] EXCEPT !.lines = Tail(lines)]
               g == LineFrame(Head(lines))
    <3>1. stack' = Append([stack EXCEPT ![Top] = f], g)
      BY <1>3, <2>5 DEF script_execute
    <3>2. Head(lines) \in Lines /\ Tail(lines) \in Seq(Lines)
      BY <2>3, <2>5
    <3>3. g \in Frames /\ g.kind = "line" /\ Quiet(g)
      BY <3>2, NewFrames DEF LineFrame, Quiet
    <3>4. f \in Frames /\ f.kind = "script"
      BY <2>2, <3>2, ScriptGoesOn
    <3>. HIDE DEF f, g
    <3>5. Quiet(f) /\ Calls(f, g)
      BY <3>3, <3>4 DEF Quiet, Calls
    <3>6. Nested'
      BY <1>0, <2>1, <2>2, <3>1, <3>3, <3>4, <3>5, Called
    <3>7. ValuesOK'
      BY <1>0, <2>1 DEF ValuesOK
    <3>. QED
      BY <3>6, <3>7 DEF ExecutorInv
  <2>. QED
    BY <2>4, <2>5
<1>. QED
  BY <1>1, <1>2, <1>3

\* Nothing runs while the user types; the lines that are collected are texts.
LEMMA InputStep ==
  ASSUME ExecutorInv, (\E word \in Words : commands_input_line(word)) \/ commands_input_eof
  PROVE  ExecutorInv'
<1>0. Nested /\ ValuesOK
  BY DEF ExecutorInv
<1>1. UNCHANGED <<stack, captures, input, status, screen, exceeded>>
  BY DEF commands_input_line, commands_input_eof, ghosts
<1>2. FilesOK(files') /\ collecting' \in Paths \cup {NULL}
  <2>0. FilesOK(files) /\ collecting \in Paths \cup {NULL}
    BY <1>0 DEF ValuesOK
  <2>1. ASSUME NEW word \in Words, commands_input_line(word)
        PROVE  FilesOK(files') /\ collecting' \in Paths \cup {NULL}
    <3>1. collecting \in Paths /\ collecting' = collecting
      BY <2>0, <2>1 DEF commands_input_line
    <3>2. FilesOK(Store(files, collecting, TRUE, <<word>>))
      BY <2>0, <3>1, Said, FilesStay
    <3>. QED
      BY <2>0, <2>1, <3>1, <3>2 DEF commands_input_line
  <2>2. ASSUME commands_input_eof PROVE FilesOK(files') /\ collecting' \in Paths \cup {NULL}
    BY <2>0, <2>2 DEF commands_input_eof
  <2>. QED
    BY <2>1, <2>2
<1>3. Nested'
  BY <1>0, <1>1 DEF Nested
<1>4. ValuesOK'
  BY <1>0, <1>1, <1>2 DEF ValuesOK
<1>. QED
  BY <1>3, <1>4 DEF ExecutorInv

-----------------------------------------------------------------------------
(***************************************************************************)
(* The invariant, and what follows from it.                                *)
(***************************************************************************)
\* The calls nest as they do in the source, and what captures write to and commands read
\* from belongs to calls that wait (commands.c, vga.c:177).
THEOREM ExecutorIsNested == Spec => []ExecutorInv
<1>1. Init => ExecutorInv
  <2>. SUFFICES ASSUME Init PROVE ExecutorInv
    OBVIOUS
  <2>1. Len(stack) = 0 /\ Len(captures) = 0 /\ DOMAIN captures = {}
    BY DEF Init
  <2>2. IsStack(stack)
    BY DEF Init, IsStack
  <2>3. InputsKept(stack, input)
    BY <2>1 DEF Init, InputsKept, Kept, NoInput
  <2>4. AsksFor(stack) = {}
    BY <2>1 DEF AsksFor
  <2>5. Matched(stack, captures, exceeded)
    BY <2>1, <2>4 DEF Matched
  <2>6. input \in Inputs /\ screen \in Texts
    BY Said DEF Init, NoInput, Inputs
  <2>7. FilesOK(files)
    BY DEF Init, FilesOK
  <2>8. captures \in Seq(Captures) /\ Len(captures) <= MaxDepth
    <3>1. MaxDepth \in Nat
      BY ExecutorAssumption
    <3>2. captures = <<>>
      BY DEF Init
    <3>. QED
      BY <2>1, <3>1, <3>2
  <2>. QED
    BY <2>2, <2>3, <2>5, <2>6, <2>7, <2>8 DEF Init, ExecutorInv, ValuesOK, Nested
<1>2. ExecutorInv /\ [Next]_vars => ExecutorInv'
  <2>. SUFFICES ASSUME ExecutorInv, [Next]_vars PROVE ExecutorInv'
    OBVIOUS
  <2>1. CASE UNCHANGED vars
    BY <2>1 DEF vars, ghosts, ExecutorInv, ValuesOK, Nested
  <2>2. CASE Next
    BY <2>2, EnterStep, LineStep, PipelineStep, CollectStep, StageStep, StageDoneStep,
       BuiltinStep, ExpandStep, SubstitutedStep, ScriptStep, InputStep DEF Next
  <2>. QED
    BY <2>1, <2>2
<1>. QED
  BY <1>1, <1>2, PTL DEF Spec

\* Every variable keeps its type, and a frame never waits for something its function does
\* not call, for all lines, scripts and files and however many captures there can be.
THEOREM ExecutorTypeCorrect == Spec => []TypeOK
<1>1. ExecutorInv => TypeOK
  <2>. SUFFICES ASSUME ExecutorInv PROVE TypeOK
    OBVIOUS
  <2>1. ASSUME NEW i \in 1 .. Top
        PROVE  LET f == stack[i]
               IN \/ f.kind = "line" /\ f.line \in Lines /\ f.at \in {"call", "left"}
                  \/ f.kind = "pipeline" /\ f.stages # <<>> /\ {f.input, f.output} \subseteq Texts
                  \/ f.kind = "stage" /\ i > 1 /\ stack[i - 1].kind = "pipeline"
                  \/ f.kind = "simple" /\ i > 1 /\ stack[i - 1].kind = "stage"
                  \/ f.kind = "script" /\ i > 1 /\ stack[i - 1].at = "script"
    <3>1. stack[i] \in Frames /\ (stack[i].kind # "line" => i > 1 /\ Calls(stack[i - 1], stack[i]))
      BY <2>1, StackFrames DEF ExecutorInv, Nested, Top
    <3>. QED
      BY <3>1, FrameFields DEF Calls
  <2>. QED
    BY <2>1 DEF ExecutorInv, ValuesOK, FilesOK, TypeOK, Inputs, Captures
<1>. QED
  BY <1>1, ExecutorIsNested, PTL

\* No capture writes to and no command reads from a buffer of a function that has returned
\* (commands.c:1598, vga.c:181), however few captures there can be and however the line
\* nests pipelines, substitutions and scripts.
THEOREM BuffersAlwaysAlive == Spec => []BuffersAlive
<1>1. ExecutorInv => BuffersAlive
  <2>. SUFFICES ASSUME ExecutorInv PROVE BuffersAlive
    OBVIOUS
  <2>0. Nested /\ Top = Len(stack)
    BY DEF ExecutorInv, Top
  <2>1. /\ Top \in Nat /\ \A i \in 1 .. Top : stack[i] \in Frames
        /\ \A i \in 1 .. Top - 1 : Calls(stack[i], stack[i + 1])
        /\ \A i \in 1 .. Top : stack[i].kind # "line" => i > 1 /\ Calls(stack[i - 1], stack[i])
    BY <2>0, StackFrames DEF Nested
  <2>2. ASSUME NEW i \in DOMAIN captures
        PROVE  LET o == captures[i].owner
               IN o <= Top /\ <<stack[o].kind, stack[o].at>>
                                \in {<<"pipeline", "stage">>, <<"simple", "line">>}
    <3> DEFINE o == captures[i].owner
    <3>1. o \in AsksFor(stack)
      BY <2>0 DEF Nested, Matched
    <3>. HIDE DEF o
    <3>2. /\ o \in 1 .. Top
          /\ \/ stack[o].kind = "simple" /\ stack[o].at = "line"
             \/ stack[o].kind = "pipeline" /\ o < Top
      BY <2>0, <3>1 DEF AsksFor
    <3>3. stack[o].kind = "pipeline" /\ o < Top => stack[o].at = "stage"
      <4>. SUFFICES ASSUME stack[o].kind = "pipeline", o < Top PROVE stack[o].at = "stage"
        OBVIOUS
      <4>1. Calls(stack[o], stack[o + 1])
        BY <2>1, <3>2
      <4>. QED
        BY <4>1 DEF Calls
    <3>4. o <= Top
      BY <2>1, <3>2
    <3>. QED
      BY <3>2, <3>3, <3>4 DEF o
  <2>3. ASSUME input.owner # 0
        PROVE  input.owner <= Top /\ stack[input.owner].at \in {"stage", "command"}
    <3>1. PICK j \in 1 .. Top : RunningStage(stack, j) /\ input.owner \in {j - 1, j}
      BY <2>0, <2>3 DEF Nested, InputsKept, Kept
    <3>2. CASE input.owner = j
      BY <2>1, <3>1, <3>2 DEF RunningStage
    <3>3. CASE input.owner = j - 1
      <4>1. j > 1 /\ Calls(stack[j - 1], stack[j])
        BY <2>1, <3>1 DEF RunningStage
      <4>2. stack[j - 1].at = "stage"
        BY <3>1, <4>1 DEF Calls, RunningStage
      <4>. QED
        BY <2>1, <3>1, <3>3, <4>2
    <3>. QED
      BY <3>1, <3>2, <3>3
  <2>. QED
    BY <2>2, <2>3 DEF BuffersAlive
<1>. QED
  BY <1>1, ExecutorIsNested, PTL

\* Each capture that begins meets its own end on every way out of shell_execute_stage and
\* expand_echo_substitutions, unless one was refused.
THEOREM CapturesAlwaysNested == Spec => []CapturesNested
<1>1. ExecutorInv => CapturesNested
  <2>. SUFFICES ASSUME ExecutorInv, ~exceeded
                PROVE  /\ \A i, j \in DOMAIN captures :
                            i < j => captures[i].owner < captures[j].owner
                       /\ {captures[i].owner : i \in DOMAIN captures} = Capturing
    BY DEF CapturesNested
  <2>1. Capturing = AsksFor(stack)
    BY DEF Capturing, AsksFor, Top
  <2>2. Matched(stack, captures, exceeded)
    BY DEF ExecutorInv, Nested
  <2>. QED
    BY <2>1, <2>2 DEF Matched
<1>. QED
  BY <1>1, ExecutorIsNested, PTL
=============================================================================
