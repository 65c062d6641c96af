---------------------------- MODULE DriverProofs ----------------------------
(***************************************************************************)
(* What holds of the keyboard driver for every keyboard and every layout,  *)
(* however many keys are down and bytes wait; and of the ATA driver, for   *)
(* every disk, every number of looks at the status and every number of     *)
(* faults: until it loses track of the drive, it is the disk of            *)
(* SectorDisk.                                                             *)
(***************************************************************************)
EXTENDS Keyboard, Ata, SequenceTheorems, TLAPS


(***************************************************************************)
(* What one byte makes of the driver's flags, and whether it is a press    *)
(* that somebody is owed.                                                  *)
(***************************************************************************)
ByteCodes == {key[1] : key \in Keys} \cup {"lshift", "rshift", "caps", "ctrl", "alt", "E0", "FF"}
ByteSet   == [code : ByteCodes, up : BOOLEAN]
FlagSet   == [extended : BOOLEAN, shift : BOOLEAN, caps : BOOLEAN, altgr : BOOLEAN, ctrl : BOOLEAN]
ChordSet  == [key : Keys, shift : SUBSET BOOLEAN, caps : SUBSET BOOLEAN,
              altgr : SUBSET BOOLEAN, ctrl : SUBSET BOOLEAN]

Now == [extended |-> extended, shift |-> shift_pressed, caps |-> caps_lock,
        altgr |-> altgr_pressed, ctrl |-> ctrl_pressed]

After(s, b) ==
  [extended |-> b = E0,
   shift |-> IF ~s.extended /\ b.code \in {"lshift", "rshift"} THEN ~b.up ELSE s.shift,
   caps  |-> IF ~s.extended /\ b.code = "caps" /\ ~b.up THEN ~s.caps ELSE s.caps,
   altgr |-> IF s.extended /\ b.code = "alt" THEN ~b.up ELSE s.altgr,
   ctrl  |-> IF ~s.extended /\ b.code = "ctrl" THEN ~b.up ELSE s.ctrl]

\* Neither a modifier nor one of the keyboard's own shift codes.
Pressable(key) == Role(key) = "key" /\ ~(key[2] /\ key[1] \in {"lshift", "rshift"})

IsPress(b, s) == b # E0 /\ ~b.up /\ Pressable(<<b.code, s.extended>>)

Owes(chord, b, s) ==
  /\ chord.key = <<b.code, s.extended>>
  /\ s.shift \in chord.shift /\ s.caps \in chord.caps
  /\ s.altgr \in chord.altgr /\ s.ctrl \in chord.ctrl

(***************************************************************************)
(* The bytes q, taken one after another by a driver whose flags are those  *)
(* of start, leave it with those of s, and what is owed, o, is what their  *)
(* presses are, in order.                                                  *)
(***************************************************************************)
Walk(run, start, q, s) ==
  /\ run \in Seq(FlagSet) /\ Len(run) = Len(q) + 1
  /\ run[1] = start /\ run[Len(q) + 1] = s
  /\ \A i \in 1..Len(q) : run[i + 1] = After(run[i], q[i])

Places(at, run, q, o) ==
  /\ at \in Seq(Nat) /\ Len(at) = Len(o)
  /\ \A j \in 1..Len(o) : /\ at[j] \in 1..Len(q) /\ IsPress(q[at[j]], run[at[j]])
                          /\ Owes(o[j], q[at[j]], run[at[j]])
  /\ \A j, k \in 1..Len(o) : j < k => at[j] < at[k]
  /\ \A i \in 1..Len(q) : IsPress(q[i], run[i]) => \E j \in 1..Len(o) : at[j] = i

Matched(start, q, o, s) == \E run, at : Walk(run, start, q, s) /\ Places(at, run, q, o)

\* The driver will be where the user believes it is, but for what is in doubt.
Agrees(s) ==
  /\ s \in FlagSet /\ s.extended = FALSE
  /\ "shift" \in doubt \/ s.shift = (down \cap Shifts # {})
  /\ "caps" \in doubt \/ s.caps = caps_on
  /\ "altgr" \in doubt \/ s.altgr = (AltGr \in down)
  /\ "ctrl" \in doubt \/ s.ctrl = (Ctrl \in down)

Typed ==
  /\ queue \in Seq(ByteSet) /\ owed \in Seq(ChordSet) /\ Now \in FlagSet
  /\ down \subseteq Keys /\ caps_on \in BOOLEAN
  /\ doubt \subseteq {"shift", "caps", "altgr", "ctrl"}

KeyInv == Typed /\ \E s : Matched(Now, queue, owed, s) /\ Agrees(s)

(***************************************************************************)
(* A byte taken, and a byte sent.                                          *)
(***************************************************************************)
LEMMA AfterTyped ==
  ASSUME NEW s \in FlagSet, NEW b \in ByteSet
  PROVE  After(s, b) \in FlagSet
  BY DEF After, FlagSet, ByteSet

LEMMA NothingMatched ==
  ASSUME NEW s \in FlagSet
  PROVE  Matched(s, <<>>, <<>>, s)
<1>1. Walk(<<s>>, s, <<>>, s)
  BY DEF Walk
<1>2. Places(<<>>, <<s>>, <<>>, <<>>)
  BY DEF Places
<1>. QED
  BY <1>1, <1>2 DEF Matched

LEMMA ByteTaken ==
  ASSUME NEW q \in Seq(ByteSet), q # <<>>, NEW o \in Seq(ChordSet), NEW start \in FlagSet, NEW s,
         Matched(start, q, o, s), NEW b, b = Head(q), NEW next, next = After(start, b)
  PROVE  /\ ~IsPress(b, start) => Matched(next, Tail(q), o, s) /\ (o # <<>> => Pressable(Head(o).key))
         /\ IsPress(b, start) => /\ o # <<>> /\ Owes(Head(o), b, start)
                                 /\ Matched(next, Tail(q), Tail(o), s)
<1>1. PICK run, at : Walk(run, start, q, s) /\ Places(at, run, q, o)
  BY DEF Matched
<1> DEFINE run2 == Tail(run)
           q2   == Tail(q)
<1>2. Len(q) \in Nat \ {0} /\ b = q[1] /\ Len(o) \in Nat
  OBVIOUS
<1>3. /\ q2 \in Seq(ByteSet) /\ Len(q2) = Len(q) - 1
      /\ \A i \in 1..(Len(q) - 1) : q2[i] = q[i + 1]
  BY <1>2
<1>4. /\ run \in Seq(FlagSet) /\ Len(run) = Len(q) + 1 /\ run[1] = start /\ run[Len(q) + 1] = s
      /\ \A i \in 1..Len(q) : run[i + 1] = After(run[i], q[i])
  BY <1>1 DEF Walk
<1>5. /\ run2 \in Seq(FlagSet) /\ Len(run2) = Len(q)
      /\ \A i \in 1..Len(q) : run2[i] = run[i + 1]
  BY <1>2, <1>4
<1>. HIDE DEF run2, q2
<1>6. Walk(run2, next, q2, s)
  <2>1. run2[1] = next /\ run2[Len(q2) + 1] = s /\ Len(run2) = Len(q2) + 1
    BY <1>2, <1>3, <1>4, <1>5
  <2>2. ASSUME NEW i \in 1..Len(q2) PROVE run2[i + 1] = After(run2[i], q2[i])
    <3>1. i \in 1..(Len(q) - 1) /\ i + 1 \in 1..Len(q) /\ i \in 1..Len(q)
      BY <1>2, <1>3, <2>2
    <3>2. run2[i + 1] = run[(i + 1) + 1] /\ run2[i] = run[i + 1] /\ q2[i] = q[i + 1]
      BY <1>3, <1>5, <3>1
    <3>. QED
      BY <1>4, <3>1, <3>2
  <2>. QED
    BY <1>5, <2>1, <2>2 DEF Walk
<1>7. /\ at \in Seq(Nat) /\ Len(at) = Len(o)
      /\ \A j \in 1..Len(o) : /\ at[j] \in 1..Len(q) /\ IsPress(q[at[j]], run[at[j]])
                              /\ Owes(o[j], q[at[j]], run[at[j]])
      /\ \A j, k \in 1..Len(o) : j < k => at[j] < at[k]
      /\ \A i \in 1..Len(q) : IsPress(q[i], run[i]) => \E j \in 1..Len(o) : at[j] = i
  BY <1>1 DEF Places
\* Where byte n + 1 of the old queue is in the new one.
<1>8. ASSUME NEW n \in 1..Len(q), n # 1
      PROVE  n - 1 \in 1..Len(q2) /\ q2[n - 1] = q[n] /\ run2[n - 1] = run[n]
  <2>1. n - 1 \in 1..(Len(q) - 1) /\ n - 1 \in 1..Len(q) /\ (n - 1) + 1 = n
    BY <1>2, <1>8
  <2>. QED
    BY <1>3, <1>5, <2>1
<1>9. CASE ~IsPress(b, start)
  <2> DEFINE at2 == [j \in 1..Len(o) |-> at[j] - 1]
  <2>1. \A j \in 1..Len(o) : at[j] \in 1..Len(q) /\ at[j] # 1
    BY <1>2, <1>4, <1>7, <1>9
  <2>2. at2 \in Seq(Nat) /\ Len(at2) = Len(o) /\ \A j \in 1..Len(o) : at2[j] = at[j] - 1
    BY <1>2, <2>1
  <2>. HIDE DEF at2
  <2>3. ASSUME NEW j \in 1..Len(o)
        PROVE  at2[j] \in 1..Len(q2) /\ IsPress(q2[at2[j]], run2[at2[j]]) /\ Owes(o[j], q2[at2[j]], run2[at2[j]])
    BY <1>7, <1>8, <2>1, <2>2
  <2>4. ASSUME NEW j \in 1..Len(o), NEW k \in 1..Len(o), j < k PROVE at2[j] < at2[k]
    <3>1. at[j] < at[k] /\ at[j] \in 1..Len(q) /\ at[k] \in 1..Len(q)
      BY <1>7, <2>1, <2>4
    <3>2. at2[j] = at[j] - 1 /\ at2[k] = at[k] - 1
      BY <2>2
    <3>. QED
      BY <3>1, <3>2
  <2>5. ASSUME NEW i \in 1..Len(q2), IsPress(q2[i], run2[i])
        PROVE  \E j \in 1..Len(o) : at2[j] = i
    <3>1. i + 1 \in 1..Len(q) /\ i \in 1..(Len(q) - 1) /\ i \in 1..Len(q)
      BY <1>2, <1>3
    <3>2. IsPress(q[i + 1], run[i + 1])
      BY <1>3, <1>5, <2>5, <3>1
    <3>3. PICK j \in 1..Len(o) : at[j] = i + 1
      BY <1>7, <3>1, <3>2
    <3>4. at2[j] = i
      BY <2>2, <3>1, <3>3
    <3>. QED
      BY <3>4
  <2>6. Places(at2, run2, q2, o)
    BY <2>2, <2>3, <2>4, <2>5 DEF Places
  <2>7. Matched(next, q2, o, s)
    BY <1>6, <2>6 DEF Matched
  <2>8. o # <<>> => Pressable(Head(o).key)
    <3>. SUFFICES ASSUME o # <<>> PROVE Pressable(Head(o).key)
      OBVIOUS
    <3> DEFINE byte == q[at[1]]
               then == run[at[1]]
               due  == o[1]
    <3>1. 1 \in 1..Len(o) /\ Head(o) = due
      OBVIOUS
    <3>2. IsPress(byte, then) /\ Owes(due, byte, then)
      BY <1>7, <3>1
    <3>. HIDE DEF byte, then, due
    <3>3. Pressable(<<byte.code, then.extended>>) /\ due.key = <<byte.code, then.extended>>
      BY <3>2 DEF IsPress, Owes
    <3>4. Pressable(due.key)
      BY <3>3
    <3>. QED
      BY <3>1, <3>4
  <2>. QED
    BY <1>9, <2>7, <2>8 DEF q2
<1>10. CASE IsPress(b, start)
  <2> DEFINE o2  == Tail(o)
             at2 == [j \in 1..(Len(o) - 1) |-> at[j + 1] - 1]
  <2>1. 1 \in 1..Len(q) /\ IsPress(q[1], run[1])
    BY <1>2, <1>4, <1>10
  <2>2. PICK j1 \in 1..Len(o) : at[j1] = 1
    BY <1>7, <2>1
  <2>3. Len(o) >= 1 /\ 1 \in 1..Len(o) /\ at[1] = 1
    <3>1. Len(o) >= 1 /\ 1 \in 1..Len(o)
      BY <1>2
    <3>2. at[1] \in 1..Len(q) /\ (1 < j1 => at[1] < at[j1])
      BY <1>7, <3>1
    <3>. QED
      BY <1>2, <2>2, <3>1, <3>2
  <2>4. o # <<>> /\ Head(o) = o[1] /\ Owes(Head(o), b, start)
    BY <1>2, <1>4, <1>7, <2>3
  <2>5. o2 \in Seq(ChordSet) /\ Len(o2) = Len(o) - 1 /\ \A j \in 1..(Len(o) - 1) : o2[j] = o[j + 1]
    BY <2>4
  <2>6. ASSUME NEW j \in 1..(Len(o) - 1)
        PROVE  j + 1 \in 1..Len(o) /\ at[j + 1] \in 1..Len(q) /\ at[j + 1] # 1
    <3>1. j + 1 \in 1..Len(o) /\ 1 < j + 1
      BY <1>2
    <3>2. at[1] < at[j + 1] /\ at[j + 1] \in 1..Len(q)
      BY <1>7, <2>3, <3>1
    <3>. QED
      BY <2>3, <3>1, <3>2
  <2>7. at2 \in Seq(Nat) /\ Len(at2) = Len(o) - 1 /\ \A j \in 1..(Len(o) - 1) : at2[j] = at[j + 1] - 1
    <3>1. Len(o) - 1 \in Nat
      BY <1>2, <2>3
    <3>2. \A j \in 1..(Len(o) - 1) : at[j + 1] - 1 \in Nat
      BY <2>6
    <3>. QED
      BY <3>1, <3>2
  <2>. HIDE DEF at2, o2
  <2>8. ASSUME NEW j \in 1..Len(o2)
        PROVE  at2[j] \in 1..Len(q2) /\ IsPress(q2[at2[j]], run2[at2[j]]) /\ Owes(o2[j], q2[at2[j]], run2[at2[j]])
    <3>1. j \in 1..(Len(o) - 1)
      BY <2>5
    <3>2. at2[j] = at[j + 1] - 1 /\ o2[j] = o[j + 1] /\ j + 1 \in 1..Len(o)
      BY <2>5, <2>6, <2>7, <3>1
    <3>3. at2[j] \in 1..Len(q2) /\ q2[at2[j]] = q[at[j + 1]] /\ run2[at2[j]] = run[at[j + 1]]
      BY <1>8, <2>6, <3>1, <3>2
    <3>. QED
      BY <1>7, <3>2, <3>3
  <2>9. ASSUME NEW j \in 1..Len(o2), NEW k \in 1..Len(o2), j < k PROVE at2[j] < at2[k]
    <3>1. j \in 1..(Len(o) - 1) /\ k \in 1..(Len(o) - 1) /\ j + 1 < k + 1
      BY <2>5, <2>9
    <3>2. at[j + 1] < at[k + 1] /\ at[j + 1] \in 1..Len(q) /\ at[k + 1] \in 1..Len(q)
      BY <1>7, <2>6, <3>1
    <3>3. at2[j] = at[j + 1] - 1 /\ at2[k] = at[k + 1] - 1
      BY <2>7, <3>1
    <3>. QED
      BY <3>2, <3>3
  <2>10. ASSUME NEW i \in 1..Len(q2), IsPress(q2[i], run2[i])
         PROVE  \E j \in 1..Len(o2) : at2[j] = i
    <3>1. i + 1 \in 1..Len(q) /\ i \in 1..(Len(q) - 1) /\ i \in 1..Len(q) /\ i + 1 # 1
      BY <1>2, <1>3
    <3>2. IsPress(q[i + 1], run[i + 1])
      BY <1>3, <1>5, <2>10, <3>1
    <3>3. PICK j \in 1..Len(o) : at[j] = i + 1
      BY <1>7, <3>1, <3>2
    <3>4. j # 1
      BY <2>3, <3>1, <3>3
    <3>5. j - 1 \in 1..(Len(o) - 1) /\ (j - 1) + 1 = j
      BY <1>2, <3>4
    <3>6. at2[j - 1] = i
      BY <2>7, <3>1, <3>3, <3>5, SMTT(30)
    <3>. QED
      BY <2>5, <3>5, <3>6
  <2>11. Places(at2, run2, q2, o2)
    BY <2>5, <2>7, <2>8, <2>9, <2>10 DEF Places
  <2>12. Matched(next, q2, o2, s)
    BY <1>6, <2>11 DEF Matched
  <2>. QED
    BY <1>10, <2>4, <2>12 DEF q2, o2
<1>. QED
  BY <1>9, <1>10

LEMMA ByteSent ==
  ASSUME NEW q \in Seq(ByteSet), NEW o \in Seq(ChordSet), NEW start, NEW s \in FlagSet,
         Matched(start, q, o, s), NEW b \in ByteSet, NEW next, next = After(s, b)
  PROVE  /\ ~IsPress(b, s) => Matched(start, Append(q, b), o, next)
         /\ \A chord \in ChordSet :
              IsPress(b, s) /\ Owes(chord, b, s) => Matched(start, Append(q, b), Append(o, chord), next)
<1>1. PICK run, at : Walk(run, start, q, s) /\ Places(at, run, q, o)
  BY DEF Matched
<1> DEFINE q2   == Append(q, b)
           run2 == Append(run, next)
<1>2. Len(q) \in Nat /\ Len(o) \in Nat /\ next \in FlagSet
  BY AfterTyped
<1>3. /\ q2 \in Seq(ByteSet) /\ Len(q2) = Len(q) + 1 /\ q2[Len(q) + 1] = b
      /\ \A i \in 1..Len(q) : q2[i] = q[i]
  OBVIOUS
<1>4. /\ run \in Seq(FlagSet) /\ Len(run) = Len(q) + 1 /\ run[1] = start /\ run[Len(q) + 1] = s
      /\ \A i \in 1..Len(q) : run[i + 1] = After(run[i], q[i])
  BY <1>1 DEF Walk
<1>5. /\ run2 \in Seq(FlagSet) /\ Len(run2) = (Len(q) + 1) + 1 /\ run2[(Len(q) + 1) + 1] = next
      /\ \A i \in 1..(Len(q) + 1) : run2[i] = run[i]
  BY <1>2, <1>4
<1>. HIDE DEF run2, q2
<1>6. Walk(run2, start, q2, next)
  <2>1. run2[1] = start /\ run2[Len(q2) + 1] = next /\ Len(run2) = Len(q2) + 1
    BY <1>2, <1>3, <1>4, <1>5
  <2>2. ASSUME NEW i \in 1..Len(q2) PROVE run2[i + 1] = After(run2[i], q2[i])
    <3>1. CASE i = Len(q) + 1
      BY <1>2, <1>3, <1>4, <1>5, <3>1
    <3>2. CASE i # Len(q) + 1
      <4>1. i \in 1..Len(q) /\ i \in 1..(Len(q) + 1) /\ i + 1 \in 1..(Len(q) + 1)
        BY <1>2, <1>3, <3>2
      <4>2. run2[i + 1] = run[i + 1] /\ run2[i] = run[i] /\ q2[i] = q[i]
        BY <1>3, <1>5, <4>1
      <4>. QED
        BY <1>4, <4>1, <4>2
    <3>. QED
      BY <3>1, <3>2
  <2>. QED
    BY <1>5, <2>1, <2>2 DEF Walk
<1>7. /\ at \in Seq(Nat) /\ Len(at) = Len(o)
      /\ \A j \in 1..Len(o) : /\ at[j] \in 1..Len(q) /\ IsPress(q[at[j]], run[at[j]])
                              /\ Owes(o[j], q[at[j]], run[at[j]])
      /\ \A j, k \in 1..Len(o) : j < k => at[j] < at[k]
      /\ \A i \in 1..Len(q) : IsPress(q[i], run[i]) => \E j \in 1..Len(o) : at[j] = i
  BY <1>1 DEF Places
<1>8. ASSUME NEW n \in 1..Len(q)
      PROVE  n \in 1..Len(q2) /\ q2[n] = q[n] /\ run2[n] = run[n]
  <2>1. n \in 1..(Len(q) + 1)
    BY <1>2
  <2>. QED
    BY <1>3, <1>5, <2>1
<1>9. Len(q) + 1 \in 1..Len(q2) /\ q2[Len(q) + 1] = b /\ run2[Len(q) + 1] = s
  BY <1>2, <1>3, <1>4, <1>5
<1>10. ASSUME NEW i \in 1..Len(q2) PROVE i \in 1..Len(q) \/ i = Len(q) + 1
  BY <1>2, <1>3
<1>11. ASSUME ~IsPress(b, s) PROVE Matched(start, q2, o, next)
  <2>1. ASSUME NEW j \in 1..Len(o)
        PROVE  at[j] \in 1..Len(q2) /\ IsPress(q2[at[j]], run2[at[j]]) /\ Owes(o[j], q2[at[j]], run2[at[j]])
    BY <1>7, <1>8
  <2>2. ASSUME NEW i \in 1..Len(q2), IsPress(q2[i], run2[i]) PROVE \E j \in 1..Len(o) : at[j] = i
    <3>1. i \in 1..Len(q)
      BY <1>9, <1>10, <1>11, <2>2
    <3>. QED
      BY <1>7, <1>8, <2>2, <3>1
  <2>3. Places(at, run2, q2, o)
    BY <1>7, <2>1, <2>2 DEF Places
  <2>. QED
    BY <1>6, <2>3 DEF Matched
<1>12. ASSUME NEW chord \in ChordSet, IsPress(b, s), Owes(chord, b, s)
       PROVE  Matched(start, q2, Append(o, chord), next)
  <2> DEFINE o2  == Append(o, chord)
             at2 == Append(at, Len(q) + 1)
  <2>1. /\ Len(o2) = Len(o) + 1 /\ o2[Len(o) + 1] = chord
        /\ \A j \in 1..Len(o) : o2[j] = o[j]
    OBVIOUS
  <2>2. /\ at2 \in Seq(Nat) /\ Len(at2) = Len(o) + 1 /\ at2[Len(o) + 1] = Len(q) + 1
        /\ \A j \in 1..Len(o) : at2[j] = at[j]
    BY <1>2, <1>7
  <2>. HIDE DEF at2, o2
  <2>3. ASSUME NEW j \in 1..Len(o2) PROVE j \in 1..Len(o) \/ j = Len(o) + 1
    BY <1>2, <2>1
  <2>4. ASSUME NEW j \in 1..Len(o2)
        PROVE  at2[j] \in 1..Len(q2) /\ IsPress(q2[at2[j]], run2[at2[j]]) /\ Owes(o2[j], q2[at2[j]], run2[at2[j]])
    <3>1. CASE j \in 1..Len(o)
      BY <1>7, <1>8, <2>1, <2>2, <3>1
    <3>2. CASE j = Len(o) + 1
      BY <1>9, <1>12, <2>1, <2>2, <3>2
    <3>. QED
      BY <2>3, <3>1, <3>2
  <2>5. ASSUME NEW j \in 1..Len(o2), NEW k \in 1..Len(o2), j < k PROVE at2[j] < at2[k]
    <3>1. j \in 1..Len(o)
      BY <1>2, <2>1, <2>5
    <3>2. CASE k \in 1..Len(o)
      BY <1>7, <2>2, <2>5, <3>1, <3>2
    <3>3. CASE k = Len(o) + 1
      <4>1. at[j] \in 1..Len(q) /\ at2[j] = at[j] /\ at2[k] = Len(q) + 1
        BY <1>7, <2>2, <3>1, <3>3
      <4>. QED
        BY <1>2, <4>1
    <3>. QED
      BY <2>3, <3>2, <3>3
  <2>6. ASSUME NEW i \in 1..Len(q2), IsPress(q2[i], run2[i]) PROVE \E j \in 1..Len(o2) : at2[j] = i
    <3>1. CASE i = Len(q) + 1
      <4>1. Len(o) + 1 \in 1..Len(o2)
        BY <1>2, <2>1
      <4>. QED
        BY <2>2, <3>1, <4>1
    <3>2. CASE i \in 1..Len(q)
      <4>1. PICK j \in 1..Len(o) : at[j] = i
        BY <1>7, <1>8, <2>6, <3>2
      <4>2. j \in 1..Len(o2) /\ at2[j] = i
        BY <1>2, <2>1, <2>2, <4>1
      <4>. QED
        BY <4>2
    <3>. QED
      BY <1>10, <3>1, <3>2
  <2>7. Places(at2, run2, q2, o2)
    BY <2>1, <2>2, <2>4, <2>5, <2>6 DEF Places
  <2>8. Matched(start, q2, o2, next)
    BY <1>6, <2>7 DEF Matched
  <2>. QED
    BY <2>8 DEF o2
<1>. QED
  BY <1>11, <1>12 DEF q2

\* With the bytes q2, the last of them taken in then, the driver is at next.
MatchedBy(start, q2, o, byte, then, next) ==
  /\ ~IsPress(byte, then) => Matched(start, q2, o, next)
  /\ \A chord \in ChordSet :
       IsPress(byte, then) /\ Owes(chord, byte, then) => Matched(start, q2, Append(o, chord), next)

\* A byte, with its prefix if it has one, and the flags in which it is taken.
Coded(s, then, sent, byte) ==
  (then = s /\ sent = <<byte>>) \/ (then = After(s, E0) /\ sent = <<E0, byte>>)

\* The same, for a key.
With(s, ext) == [s EXCEPT !.extended = ext]

LEMMA CodeSent ==
  ASSUME NEW q \in Seq(ByteSet), NEW o \in Seq(ChordSet), NEW start, NEW s \in FlagSet,
         s.extended = FALSE, Matched(start, q, o, s),
         NEW byte \in ByteSet, byte # E0,
         NEW then, NEW sent, Coded(s, then, sent, byte), NEW next, next = After(then, byte)
  PROVE  /\ q \o sent \in Seq(ByteSet)
         /\ then \in FlagSet /\ next \in FlagSet /\ next.extended = FALSE
         /\ MatchedBy(start, q \o sent, o, byte, then, next)
<1> DEFINE all == q \o sent
<1>1. then \in FlagSet /\ E0 \in ByteSet
  <2>1. E0 \in ByteSet
    BY DEF ByteSet, E0, ByteCodes
  <2>. QED
    BY <2>1, AfterTyped DEF Coded
<1>2. next \in FlagSet /\ next.extended = FALSE
  BY <1>1, AfterTyped DEF After
<1>3. CASE then = After(s, E0) /\ sent = <<E0, byte>>
  <2> DEFINE q1 == Append(q, E0)
  <2>1. q1 \in Seq(ByteSet) /\ all = Append(q1, byte)
    BY <1>1, <1>3
  <2>2. ~IsPress(E0, s)
    BY DEF IsPress
  <2>3. After(s, E0) = then
    BY <1>3
  <2>. HIDE DEF q1, all
  <2>4. Matched(start, q1, o, then)
    BY <1>1, <2>2, <2>3, ByteSent DEF q1
  <2>5. all \in Seq(ByteSet)
    BY <1>1, <2>1
  <2>6. /\ ~IsPress(byte, then) => Matched(start, all, o, next)
        /\ \A chord \in ChordSet :
             IsPress(byte, then) /\ Owes(chord, byte, then) => Matched(start, all, Append(o, chord), next)
    BY <1>1, <2>1, <2>4, ByteSent
  <2>7. MatchedBy(start, all, o, byte, then, next)
    BY <2>6 DEF MatchedBy
  <2>. QED
    BY <1>1, <1>2, <2>5, <2>7 DEF all
<1>4. CASE then = s /\ sent = <<byte>>
  <2>1. all = Append(q, byte) /\ all \in Seq(ByteSet)
    BY <1>1, <1>4
  <2>2. then = s
    BY <1>4
  <2>. HIDE DEF all
  <2>3. /\ ~IsPress(byte, then) => Matched(start, all, o, next)
        /\ \A chord \in ChordSet :
             IsPress(byte, then) /\ Owes(chord, byte, then) => Matched(start, all, Append(o, chord), next)
    BY <1>1, <2>1, <2>2, ByteSent
  <2>4. MatchedBy(start, all, o, byte, then, next)
    BY <2>3 DEF MatchedBy
  <2>. QED
    BY <1>1, <1>2, <2>1, <2>4 DEF all
<1>. QED
  BY <1>3, <1>4 DEF Coded

\* Of a shift key that the keyboard lets go or takes back for a moment, the driver makes nothing.
LEMMA UnshiftedSent ==
  ASSUME NEW q \in Seq(ByteSet), NEW o \in Seq(ChordSet), NEW start, NEW s \in FlagSet,
         s.extended = FALSE, Matched(start, q, o, s),
         NEW key, NEW up \in BOOLEAN, NEW around \in Unshifted(key, up)
  PROVE  q \o around \in Seq(ByteSet) /\ Matched(start, q \o around, o, s)
<1>1. CASE around = <<>>
  <2>1. q \o around = q
    BY <1>1
  <2>. QED
    BY <2>1
<1>2. CASE around # <<>>
  <2> DEFINE held == CHOOSE k \in down \cap Shifts : TRUE
             code == held[1]
             off  == ~up
             byte == [code |-> code, up |-> off]
             then == After(s, E0)
             next == After(then, byte)
  <2>1. down \cap Shifts # {} /\ around = <<E0, byte>>
    BY <1>2 DEF Unshifted
  <2>2. held \in Shifts
    BY <2>1
  <2>. HIDE DEF held
  <2>3. code \in {"lshift", "rshift"} /\ off \in BOOLEAN
    <3>1. ASSUME NEW h \in Shifts PROVE h[1] = "lshift" \/ h[1] = "rshift"
      <4>1. CASE h = <<"lshift", FALSE>>
        BY <4>1
      <4>2. CASE h = <<"rshift", FALSE>>
        BY <4>2
      <4>. QED
        BY <4>1, <4>2 DEF Shifts
    <3>2. code = "lshift" \/ code = "rshift"
      BY <2>2, <3>1, Zenon
    <3>3. off \in BOOLEAN
      BY Zenon
    <3>. QED
      BY <3>2, <3>3
  <2>. HIDE DEF off
  <2>4. byte \in ByteSet /\ byte # E0
    BY <2>3 DEF ByteSet, ByteCodes, E0
  <2>5. Coded(s, then, around, byte)
    BY <2>1 DEF Coded
  <2>6. ~IsPress(byte, then)
    BY <2>3 DEF IsPress, Pressable, FlagSet, After, E0
  <2>7. next = s
    BY <2>3 DEF After, FlagSet, E0
  <2>8. next = After(then, byte)
    OBVIOUS
  <2>. HIDE DEF byte, then, next
  <2>9. q \o around \in Seq(ByteSet) /\ MatchedBy(start, q \o around, o, byte, then, next)
    BY <2>4, <2>5, <2>8, CodeSent
  <2>. QED
    BY <2>6, <2>7, <2>9 DEF MatchedBy
<1>. QED
  BY <1>1, <1>2

\* An overrun is no key and changes nothing.
LEMMA OverrunSent ==
  ASSUME NEW q \in Seq(ByteSet), NEW o \in Seq(ChordSet), NEW start, NEW s \in FlagSet,
         s.extended = FALSE, Matched(start, q, o, s)
  PROVE  Append(q, Overrun) \in Seq(ByteSet) /\ Matched(start, Append(q, Overrun), o, s)
<1>1. Overrun \in ByteSet /\ ~IsPress(Overrun, s)
  BY DEF ByteSet, ByteCodes, Overrun, IsPress
<1>2. After(s, Overrun) = s
  BY DEF After, FlagSet, Overrun, E0
<1>3. Matched(start, Append(q, Overrun), o, s)
  BY <1>1, <1>2, ByteSent
<1>. QED
  BY <1>1, <1>3

(***************************************************************************)
(* The user's side: one step sends the bytes of a key.                     *)
(***************************************************************************)
\* What the keyboard sends instead when there is no room.
LEMMA LostSent ==
  ASSUME NEW q2, NEW s \in FlagSet, s.extended = FALSE, Typed, Matched(Now, queue, owed, s),
         q2 = (IF Len(queue) < MaxQueue THEN Append(queue, Overrun) ELSE queue)
  PROVE  q2 \in Seq(ByteSet) /\ Matched(Now, q2, owed, s)
  BY OverrunSent DEF Typed

\* The roles of the keys, by their codes.
LEMMA Roles ==
  ASSUME NEW key \in Keys
  PROVE  /\ key = <<key[1], key[2]>> /\ key[2] \in BOOLEAN /\ key[1] \in ByteCodes \ {"E0"}
         /\ Role(key) \in {"shift", "ctrl", "altgr", "caps", "key"}
         /\ key \in Shifts <=> Role(key) = "shift"
         /\ key = Ctrl <=> Role(key) = "ctrl"
         /\ key = AltGr <=> Role(key) = "altgr"
         /\ key = Caps <=> Role(key) = "caps"
         /\ Role(key) = "shift" <=> ~key[2] /\ key[1] \in {"lshift", "rshift"}
         /\ Role(key) = "ctrl" <=> ~key[2] /\ key[1] = "ctrl"
         /\ Role(key) = "caps" <=> ~key[2] /\ key[1] = "caps"
         /\ Role(key) = "altgr" <=> key[2] /\ key[1] = "alt"
         /\ Role(key) = "key" <=> Pressable(key)
<1>1. key = <<key[1], key[2]>> /\ key[2] \in BOOLEAN /\ key[1] \notin {"E0", "FF"}
      /\ ~(key[2] /\ key[1] \in {"lshift", "rshift"})
  BY KeyboardAssumption
<1>2. key[1] \in ByteCodes \ {"E0"}
  BY <1>1 DEF ByteCodes
<1> DEFINE code == key[1]
           ext  == key[2]
<1>3. key = <<code, ext>> /\ ext \in BOOLEAN
  BY <1>1
<1>4. /\ key \in Shifts <=> ~ext /\ code \in {"lshift", "rshift"}
      /\ key = Ctrl <=> ~ext /\ code = "ctrl"
      /\ key = AltGr <=> ext /\ code = "alt"
      /\ key = Caps <=> ~ext /\ code = "caps"
  <2>. HIDE DEF code, ext
  <2>. QED
    BY <1>3 DEF Shifts, Ctrl, AltGr, Caps
<1>5. /\ Role(key) \in {"shift", "ctrl", "altgr", "caps", "key"}
      /\ key \in Shifts <=> Role(key) = "shift"
      /\ key = Ctrl <=> Role(key) = "ctrl"
      /\ key = AltGr <=> Role(key) = "altgr"
      /\ key = Caps <=> Role(key) = "caps"
  <2>. HIDE DEF code, ext
  <2>1. CASE key \in Shifts
    BY <1>4, <2>1 DEF Role
  <2>2. CASE key = Ctrl
    BY <1>4, <2>2 DEF Role
  <2>3. CASE key = AltGr
    BY <1>4, <2>3 DEF Role
  <2>4. CASE key = Caps
    BY <1>4, <2>4 DEF Role
  <2>5. CASE key \notin Shifts /\ key # Ctrl /\ key # AltGr /\ key # Caps
    BY <2>5 DEF Role
  <2>. QED
    BY <2>1, <2>2, <2>3, <2>4, <2>5
<1>6. Role(key) = "key" <=> Pressable(key)
  BY <1>1 DEF Pressable
<1>. QED
  BY <1>1, <1>2, <1>4, <1>5, <1>6

KeyByte(key, up) == [code |-> key[1], up |-> up]

\* What a key's code makes of the flags.
LEMMA KeyAfter ==
  ASSUME NEW s \in FlagSet, NEW key \in Keys, NEW up \in BOOLEAN,
         NEW byte, byte = KeyByte(key, up),
         NEW then, then = With(s, key[2]), NEW next, next = After(then, byte)
  PROVE  /\ next.shift = IF Role(key) = "shift" THEN ~up ELSE s.shift
         /\ next.caps  = IF Role(key) = "caps" /\ ~up THEN ~s.caps ELSE s.caps
         /\ next.altgr = IF Role(key) = "altgr" THEN ~up ELSE s.altgr
         /\ next.ctrl  = IF Role(key) = "ctrl" THEN ~up ELSE s.ctrl
         /\ IsPress(byte, then) <=> Role(key) = "key" /\ ~up
         /\ <<byte.code, then.extended>> = key
         /\ then.shift = s.shift /\ then.caps = s.caps /\ then.altgr = s.altgr /\ then.ctrl = s.ctrl
<1> DEFINE code == key[1]
           ext  == key[2]
<1>1. /\ ext \in BOOLEAN /\ code # "E0" /\ key = <<code, ext>>
      /\ Role(key) = "shift" <=> ~ext /\ code \in {"lshift", "rshift"}
      /\ Role(key) = "ctrl" <=> ~ext /\ code = "ctrl"
      /\ Role(key) = "caps" <=> ~ext /\ code = "caps"
      /\ Role(key) = "altgr" <=> ext /\ code = "alt"
      /\ Role(key) = "key" <=> Pressable(key)
  BY Roles
<1>2. byte = [code |-> code, up |-> up] /\ then = With(s, ext)
  BY DEF KeyByte
<1>. HIDE DEF code, ext
<1>3. byte.code = code /\ byte.up = up
  BY <1>2
<1>4. /\ then.extended = ext
      /\ then.shift = s.shift /\ then.caps = s.caps /\ then.altgr = s.altgr /\ then.ctrl = s.ctrl
  BY <1>2 DEF FlagSet, With
<1>5. byte # E0
  BY <1>1, <1>3 DEF E0
<1>6. <<byte.code, then.extended>> = key
  BY <1>1, <1>3, <1>4
<1>7. IsPress(byte, then) <=> Role(key) = "key" /\ ~up
  BY <1>1, <1>3, <1>5, <1>6 DEF IsPress
<1>8. /\ next.shift = IF ~ext /\ code \in {"lshift", "rshift"} THEN ~up ELSE s.shift
      /\ next.caps  = IF ~ext /\ code = "caps" /\ ~up THEN ~s.caps ELSE s.caps
      /\ next.altgr = IF ext /\ code = "alt" THEN ~up ELSE s.altgr
      /\ next.ctrl  = IF ~ext /\ code = "ctrl" THEN ~up ELSE s.ctrl
  BY <1>3, <1>4 DEF After
<1>9. /\ next.shift = IF Role(key) = "shift" THEN ~up ELSE s.shift
      /\ next.caps  = IF Role(key) = "caps" /\ ~up THEN ~s.caps ELSE s.caps
      /\ next.altgr = IF Role(key) = "altgr" THEN ~up ELSE s.altgr
      /\ next.ctrl  = IF Role(key) = "ctrl" THEN ~up ELSE s.ctrl
  BY <1>1, <1>8
<1>. QED
  BY <1>4, <1>6, <1>7, <1>9

\* The press of a key that is no modifier is owed as the driver will see it.
LEMMA ChordOwed ==
  ASSUME Typed, NEW s, Agrees(s), NEW key \in Keys, NEW byte, NEW then,
         <<byte.code, then.extended>> = key,
         then.shift = s.shift, then.caps = s.caps, then.altgr = s.altgr, then.ctrl = s.ctrl
  PROVE  Chord(key) \in ChordSet /\ Owes(Chord(key), byte, then)
<1>1. caps_on \in BOOLEAN
  BY DEF Typed
<1>2. \A role : \A held \in BOOLEAN : Possible(role, held) \in SUBSET BOOLEAN
  BY DEF Possible
<1>3. Chord(key) \in ChordSet
  <2> DEFINE sh == Possible("shift", down \cap Shifts # {})
             ca == Possible("caps", caps_on)
             al == Possible("altgr", AltGr \in down)
             ct == Possible("ctrl", Ctrl \in down)
  <2>1. sh \in SUBSET BOOLEAN /\ al \in SUBSET BOOLEAN /\ ct \in SUBSET BOOLEAN
    BY DEF Possible
  <2>2. ca \in SUBSET BOOLEAN
    BY <1>1, <1>2
  <2>3. Chord(key) = [key |-> key, shift |-> sh, caps |-> ca, altgr |-> al, ctrl |-> ct]
    BY DEF Chord
  <2>. HIDE DEF sh, ca, al, ct
  <2>. QED
    BY <2>1, <2>2, <2>3 DEF ChordSet
<1>4. s.shift \in BOOLEAN /\ s.caps \in BOOLEAN /\ s.altgr \in BOOLEAN /\ s.ctrl \in BOOLEAN
  BY DEF Agrees, FlagSet
<1>5. /\ s.shift \in Possible("shift", down \cap Shifts # {}) /\ s.caps \in Possible("caps", caps_on)
      /\ s.altgr \in Possible("altgr", AltGr \in down) /\ s.ctrl \in Possible("ctrl", Ctrl \in down)
  BY <1>4 DEF Agrees, Possible
<1>6. Owes(Chord(key), byte, then)
  BY <1>5 DEF Owes, Chord
<1>. QED
  BY <1>3, <1>6

\* What is sent for a key are bytes.
LEMMA ByteSeqs ==
  ASSUME NEW key \in Keys, NEW up \in BOOLEAN, NEW u \in BOOLEAN, NEW around \in Unshifted(key, u)
  PROVE  around \in Seq(ByteSet) /\ Bytes(key, up) \in Seq(ByteSet)
<1>1. E0 \in ByteSet
  BY DEF E0, ByteSet, ByteCodes
<1>2. Bytes(key, up) \in Seq(ByteSet)
  <2>1. key[1] \in ByteCodes
    BY Roles
  <2> DEFINE code == key[1]
             byte == [code |-> code, up |-> up]
  <2>. HIDE DEF code
  <2>2. byte \in ByteSet
    BY <2>1 DEF ByteSet, code
  <2>. QED
    BY <1>1, <2>2 DEF Bytes, code
<1>3. around \in Seq(ByteSet)
  <2>1. CASE around = <<>>
    BY <2>1
  <2>2. CASE around # <<>>
    <3> DEFINE held == CHOOSE k \in down \cap Shifts : TRUE
               off  == ~u
               byte == [code |-> held[1], up |-> off]
    <3>1. down \cap Shifts # {} /\ around = <<E0, byte>>
      BY <2>2 DEF Unshifted
    <3>2. held \in Shifts
      BY <3>1
    <3>. HIDE DEF held, byte
    <3>3. ASSUME NEW h \in Shifts PROVE h[1] = "lshift" \/ h[1] = "rshift"
      <4>1. CASE h = <<"lshift", FALSE>>
        BY <4>1
      <4>2. CASE h = <<"rshift", FALSE>>
        BY <4>2
      <4>. QED
        BY <4>1, <4>2 DEF Shifts
    <3>4. held[1] \in ByteCodes
      BY <3>2, <3>3 DEF ByteCodes
    <3>5. off \in BOOLEAN
      BY Zenon
    <3>. HIDE DEF off
    <3>6. byte \in ByteSet
      BY <3>4, <3>5 DEF ByteSet, byte
    <3>. QED
      BY <1>1, <3>1, <3>6
  <2>. QED
    BY <2>1, <2>2
<1>. QED
  BY <1>2, <1>3

LEMMA TwoBytes ==
  ASSUME NEW x \in ByteSet, NEW y \in ByteSet
  PROVE  <<x>> \o <<y>> = <<x, y>>
<1> DEFINE one == <<x>>
           two == <<y>>
<1>1. one \in Seq(ByteSet) /\ Len(one) = 1 /\ one[1] = x /\ two \in Seq(ByteSet) /\ Len(two) = 1 /\ two[1] = y
  OBVIOUS
<1>. HIDE DEF one, two
<1>2. /\ one \o two \in Seq(ByteSet) /\ Len(one \o two) = 2
      /\ (one \o two)[1] = x /\ (one \o two)[2] = y
  <2>1. /\ one \o two \in Seq(ByteSet) /\ Len(one \o two) = Len(one) + Len(two)
        /\ \A i \in 1..(Len(one) + Len(two)) :
             (one \o two)[i] = IF i <= Len(one) THEN one[i] ELSE two[i - Len(one)]
    BY <1>1, ConcatProperties
  <2>. QED
    BY <1>1, <2>1
<1> DEFINE both == one \o two
<1>. HIDE DEF both
<1>3. both \in Seq(ByteSet) /\ Len(both) = 2 /\ both[1] = x /\ both[2] = y
  BY <1>2 DEF both
<1>4. both = <<x, y>>
  BY <1>3
<1>. QED
  BY <1>4 DEF both, one, two

\* So a key's code is sent.
LEMMA KeyCoded ==
  ASSUME NEW s \in FlagSet, s.extended = FALSE,
         NEW key \in Keys, NEW up \in BOOLEAN, NEW byte, byte = KeyByte(key, up),
         NEW then, then = With(s, key[2]), NEW sent, sent = Bytes(key, up)
  PROVE  Coded(s, then, sent, byte) /\ byte \in ByteSet /\ byte # E0
<1> DEFINE code == key[1]
           ext  == key[2]
<1>1. code \in ByteCodes \ {"E0"} /\ ext \in BOOLEAN
  BY Roles
<1>2. byte = [code |-> code, up |-> up] /\ then = With(s, ext)
  BY DEF KeyByte
<1>3. sent = (IF ext THEN <<E0>> ELSE <<>>) \o <<byte>>
  BY <1>2 DEF Bytes
<1>. HIDE DEF code, ext
<1>4. byte \in ByteSet /\ byte # E0
  BY <1>1, <1>2 DEF ByteSet, E0
<1>5. E0 \in ByteSet
  BY DEF ByteSet, ByteCodes, E0
<1>6. CASE ext
  <2>1. sent = <<E0>> \o <<byte>>
    BY <1>3, <1>6
  <2>2. <<E0>> \o <<byte>> = <<E0, byte>>
    BY <1>4, <1>5, TwoBytes
  <2>3. then = After(s, E0)
    BY <1>2, <1>6 DEF With, After, E0, FlagSet
  <2>. QED
    BY <1>4, <2>1, <2>2, <2>3 DEF Coded
<1>7. CASE ~ext
  <2>1. sent = <<>> \o <<byte>>
    BY <1>3, <1>7
  <2>2. <<>> \o <<byte>> = <<byte>>
    BY <1>4
  <2>3. then = s
    BY <1>1, <1>2, <1>7 DEF With, FlagSet
  <2>. QED
    BY <1>4, <2>1, <2>2, <2>3 DEF Coded
<1>. QED
  BY <1>6, <1>7

\* Where the driver will be after all that was sent before, and the code of key.
Reached(s, key, up) == After(With(s, key[2]), KeyByte(key, up))

\* A step of the user's: the presses sent are owed, and the driver will heed the key, or the
\* bytes found no room and it will not.
LEMMA KeySent ==
  ASSUME Typed, NEW s, Agrees(s), Matched(Now, queue, owed, s),
         NEW key \in Keys, NEW up \in BOOLEAN, NEW u \in BOOLEAN, NEW around \in Unshifted(key, u),
         NEW bytes, bytes = around \o Bytes(key, up) \/ bytes = Bytes(key, up) \o around,
         NEW unclear, Sent(bytes, key, up, unclear), UNCHANGED driver
  PROVE  /\ queue' \in Seq(ByteSet) /\ owed' \in Seq(ChordSet) /\ Now' \in FlagSet
         /\ \E full \in BOOLEAN, next \in FlagSet :
              /\ Matched(Now', queue', owed', next)
              /\ next = IF full THEN s ELSE Reached(s, key, up)
              /\ doubt' = IF Role(key) # "key" /\ (unclear \/ (full /\ ~(key = Caps /\ up)))
                          THEN doubt \cup {Role(key)} ELSE doubt \ ({Role(key)} \ {"caps"})
<1> DEFINE full == Len(queue) + Len(bytes) > MaxQueue
           byte == KeyByte(key, up)
           then == With(s, key[2])
           next == After(then, byte)
           typed == Role(key) = "key" /\ ~up
           o2   == IF typed THEN Append(owed, Chord(key)) ELSE owed
<1>1. s \in FlagSet /\ s.extended = FALSE /\ queue \in Seq(ByteSet) /\ owed \in Seq(ChordSet) /\ Now \in FlagSet
  BY DEF Agrees, Typed
<1>2. Now' = Now
  BY DEF driver, Now
<1>3. /\ queue' = IF ~full THEN queue \o bytes
                  ELSE IF Len(queue) < MaxQueue THEN Append(queue, Overrun) ELSE queue
      /\ owed' = IF typed /\ ~full THEN Append(owed, Chord(key)) ELSE owed
      /\ doubt' = IF Role(key) # "key" /\ (unclear \/ (full /\ ~(key = Caps /\ up)))
                  THEN doubt \cup {Role(key)} ELSE doubt \ ({Role(key)} \ {"caps"})
  BY DEF Sent
<1>4. full \in BOOLEAN
  OBVIOUS
<1>5. /\ IsPress(byte, then) <=> typed
      /\ Chord(key) \in ChordSet /\ Owes(Chord(key), byte, then)
  BY <1>1, KeyAfter, ChordOwed
<1>6. key = <<key[1], key[2]>> /\ key[2] \in BOOLEAN /\ key[1] \in ByteCodes \ {"E0"}
  BY Roles
<1>7. next = Reached(s, key, up)
  BY DEF Reached
<1>8. /\ byte = KeyByte(key, up) /\ then = With(s, key[2])
      /\ next = After(then, byte)
  OBVIOUS
<1>. HIDE DEF byte, then, next, full, typed
\* The bytes of the key after a queue q.
<1>9. ASSUME NEW q \in Seq(ByteSet), Matched(Now, q, owed, s)
      PROVE  /\ q \o Bytes(key, up) \in Seq(ByteSet) /\ next \in FlagSet /\ next.extended = FALSE
             /\ Matched(Now, q \o Bytes(key, up), o2, next) /\ o2 \in Seq(ChordSet)
  <2>1. /\ s \in FlagSet /\ s.extended = FALSE /\ owed \in Seq(ChordSet) /\ q \in Seq(ByteSet)
        /\ Matched(Now, q, owed, s)
    BY <1>1, <1>9
  <2>. HIDE DEF o2
  <2>2. /\ q \o Bytes(key, up) \in Seq(ByteSet) /\ next \in FlagSet /\ next.extended = FALSE
        /\ MatchedBy(Now, q \o Bytes(key, up), owed, byte, then, next)
    <3> DEFINE sent == Bytes(key, up)
    <3>1. Coded(s, then, sent, byte) /\ byte \in ByteSet /\ byte # E0
      BY <1>1, <1>8, KeyCoded
    <3>2. next = After(then, byte)
      BY <1>8
    <3>. HIDE DEF sent
    <3>3. /\ q \o sent \in Seq(ByteSet) /\ next \in FlagSet /\ next.extended = FALSE
          /\ MatchedBy(Now, q \o sent, owed, byte, then, next)
      BY <2>1, <3>1, <3>2, CodeSent
    <3>. QED
      BY <3>3 DEF sent
  <2>3. CASE typed
    <3>1. o2 = Append(owed, Chord(key)) /\ o2 \in Seq(ChordSet)
      BY <1>1, <1>5, <2>3 DEF o2
    <3>. QED
      BY <1>5, <2>1, <2>2, <2>3, <3>1 DEF MatchedBy
  <2>4. CASE ~typed
    BY <1>1, <1>5, <2>1, <2>2, <2>4 DEF o2, MatchedBy
  <2>. QED
    BY <2>3, <2>4
<1>10. CASE full
  <2>1. queue' \in Seq(ByteSet) /\ Matched(Now, queue', owed, s)
    BY <1>1, <1>3, <1>10, LostSent
  <2>2. owed' = owed
    BY <1>3, <1>10
  <2>. QED
    BY <1>1, <1>2, <1>3, <1>4, <1>10, <2>1, <2>2
<1>11. CASE ~full
  <2>1. queue' = queue \o bytes /\ owed' = o2
    BY <1>3, <1>11
  <2>2. queue' \in Seq(ByteSet) /\ owed' \in Seq(ChordSet) /\ next \in FlagSet /\ Matched(Now, queue', owed', next)
    <3>1. CASE bytes = around \o Bytes(key, up)
      <4> DEFINE q == queue \o around
      <4>1. q \in Seq(ByteSet) /\ Matched(Now, q, owed, s)
        BY <1>1, UnshiftedSent
      <4>2. queue \o (around \o Bytes(key, up)) = q \o Bytes(key, up)
        <5>1. around \in Seq(ByteSet) /\ Bytes(key, up) \in Seq(ByteSet)
          BY ByteSeqs
        <5>. QED
          BY <1>1, <5>1
      <4>. HIDE DEF q, o2
      <4>. QED
        BY <1>9, <2>1, <3>1, <4>1, <4>2
    <3>2. CASE bytes = Bytes(key, up) \o around
      <4> DEFINE q == queue \o Bytes(key, up)
      <4>1. /\ q \in Seq(ByteSet) /\ next \in FlagSet /\ next.extended = FALSE
            /\ Matched(Now, q, o2, next) /\ o2 \in Seq(ChordSet)
        BY <1>1, <1>9
      <4>2. queue \o (Bytes(key, up) \o around) = q \o around
        <5>1. around \in Seq(ByteSet) /\ Bytes(key, up) \in Seq(ByteSet)
          BY ByteSeqs
        <5>. QED
          BY <1>1, <5>1, SMTT(30)
      <4>. HIDE DEF q, o2
      <4>3. q \o around \in Seq(ByteSet) /\ Matched(Now, q \o around, o2, next)
        BY <4>1, UnshiftedSent
      <4>. QED
        BY <2>1, <3>2, <4>1, <4>2, <4>3
    <3>. QED
      BY <3>1, <3>2
  <2>. QED
    BY <1>1, <1>2, <1>3, <1>4, <1>7, <1>11, <2>2
<1>. QED
  BY <1>10, <1>11

\* The key held down or let go as the user does it, and the bytes of it sent.
Moved(key, up, unclear) ==
  /\ down' \subseteq Keys /\ caps_on' \in BOOLEAN
  /\ IF Role(key) = "shift" THEN unclear \/ (down' \cap Shifts # {}) = ~up
     ELSE (down' \cap Shifts # {}) = (down \cap Shifts # {})
  /\ IF Role(key) = "altgr" THEN (AltGr \in down') = ~up ELSE (AltGr \in down') = (AltGr \in down)
  /\ IF Role(key) = "ctrl" THEN (Ctrl \in down') = ~up ELSE (Ctrl \in down') = (Ctrl \in down)
  /\ IF Role(key) = "caps" THEN unclear \/ caps_on' = IF up THEN caps_on ELSE ~caps_on
     ELSE caps_on' = caps_on

LEMMA UserKeeps ==
  ASSUME KeyInv, NEW key \in Keys, NEW up \in BOOLEAN, NEW u \in BOOLEAN, NEW unclear \in BOOLEAN,
         NEW around \in Unshifted(key, u),
         NEW bytes, bytes = around \o Bytes(key, up) \/ bytes = Bytes(key, up) \o around,
         Sent(bytes, key, up, unclear), UNCHANGED driver, Moved(key, up, unclear)
  PROVE  KeyInv'
<1>1. PICK s : Matched(Now, queue, owed, s) /\ Agrees(s)
  BY DEF KeyInv
<1>2. Typed
  BY DEF KeyInv
<1>3. /\ queue' \in Seq(ByteSet) /\ owed' \in Seq(ChordSet) /\ Now' \in FlagSet
      /\ \E full \in BOOLEAN, next \in FlagSet :
           /\ Matched(Now', queue', owed', next)
           /\ next = IF full THEN s ELSE Reached(s, key, up)
           /\ doubt' = IF Role(key) # "key" /\ (unclear \/ (full /\ ~(key = Caps /\ up)))
                       THEN doubt \cup {Role(key)} ELSE doubt \ ({Role(key)} \ {"caps"})
  BY <1>1, <1>2, KeySent
<1>4. PICK full \in BOOLEAN, next \in FlagSet :
           /\ Matched(Now', queue', owed', next)
           /\ next = IF full THEN s ELSE Reached(s, key, up)
           /\ doubt' = IF Role(key) # "key" /\ (unclear \/ (full /\ ~(key = Caps /\ up)))
                       THEN doubt \cup {Role(key)} ELSE doubt \ ({Role(key)} \ {"caps"})
  BY <1>3
<1> DEFINE role == Role(key)
<1>5. role \in {"shift", "ctrl", "altgr", "caps", "key"} /\ (key = Caps <=> role = "caps")
  BY Roles
<1>6. doubt' = IF role # "key" /\ (unclear \/ (full /\ ~(role = "caps" /\ up)))
              THEN doubt \cup {role} ELSE doubt \ ({role} \ {"caps"})
  BY <1>4, <1>5
<1>7. /\ s \in FlagSet /\ s.extended = FALSE
      /\ "shift" \in doubt \/ s.shift = (down \cap Shifts # {})
      /\ "caps" \in doubt \/ s.caps = caps_on
      /\ "altgr" \in doubt \/ s.altgr = (AltGr \in down)
      /\ "ctrl" \in doubt \/ s.ctrl = (Ctrl \in down)
  BY <1>1 DEF Agrees
<1>. HIDE DEF role
<1>8. /\ role # "shift" /\ "shift" \in doubt => "shift" \in doubt'
      /\ role = "shift" /\ (unclear \/ full) => "shift" \in doubt'
  BY <1>5, <1>6
<1>9. /\ role # "altgr" /\ "altgr" \in doubt => "altgr" \in doubt'
      /\ role = "altgr" /\ full => "altgr" \in doubt'
  BY <1>5, <1>6
<1>10. /\ role # "ctrl" /\ "ctrl" \in doubt => "ctrl" \in doubt'
       /\ role = "ctrl" /\ full => "ctrl" \in doubt'
  BY <1>5, <1>6
<1>11. /\ "caps" \in doubt => "caps" \in doubt'
       /\ role = "caps" /\ (unclear \/ (full /\ ~up)) => "caps" \in doubt'
  BY <1>5, <1>6
<1>12. /\ next.extended = FALSE
       /\ next.shift = IF ~full /\ role = "shift" THEN ~up ELSE s.shift
       /\ next.caps  = IF ~full /\ role = "caps" /\ ~up THEN ~s.caps ELSE s.caps
       /\ next.altgr = IF ~full /\ role = "altgr" THEN ~up ELSE s.altgr
       /\ next.ctrl  = IF ~full /\ role = "ctrl" THEN ~up ELSE s.ctrl
  <2>1. CASE full
    <3>1. next = s
      BY <1>4, <2>1
    <3>. QED
      BY <1>7, <2>1, <3>1
  <2>2. CASE ~full
    <3>1. next = After(With(s, key[2]), KeyByte(key, up))
      BY <1>4, <2>2 DEF Reached
    <3>2. /\ next.shift = IF role = "shift" THEN ~up ELSE s.shift
          /\ next.caps  = IF role = "caps" /\ ~up THEN ~s.caps ELSE s.caps
          /\ next.altgr = IF role = "altgr" THEN ~up ELSE s.altgr
          /\ next.ctrl  = IF role = "ctrl" THEN ~up ELSE s.ctrl
      BY <1>7, <3>1, KeyAfter DEF role
    <3>3. next.extended = FALSE
      <4>1. key[1] # "E0"
        BY Roles
      <4>. QED
        BY <3>1, <4>1 DEF After, KeyByte, E0
    <3>. QED
      BY <2>2, <3>2, <3>3
  <2>. QED
    BY <2>1, <2>2
<1> DEFINE sh  == down \cap Shifts # {}
           sh2 == down' \cap Shifts # {}
           al  == AltGr \in down
           al2 == AltGr \in down'
           ct  == Ctrl \in down
           ct2 == Ctrl \in down'
<1>13. /\ IF role = "shift" THEN unclear \/ sh2 = ~up ELSE sh2 = sh
       /\ IF role = "altgr" THEN al2 = ~up ELSE al2 = al
       /\ IF role = "ctrl" THEN ct2 = ~up ELSE ct2 = ct
       /\ IF role = "caps" THEN unclear \/ caps_on' = IF up THEN caps_on ELSE ~caps_on
          ELSE caps_on' = caps_on
  BY DEF Moved, role
<1>14. /\ "shift" \in doubt \/ s.shift = sh
       /\ "caps" \in doubt \/ s.caps = caps_on
       /\ "altgr" \in doubt \/ s.altgr = al
       /\ "ctrl" \in doubt \/ s.ctrl = ct
  BY <1>7
<1>. HIDE DEF sh, sh2, al, al2, ct, ct2
<1>15. "shift" \in doubt' \/ next.shift = sh2
  BY <1>8, <1>12, <1>13, <1>14
<1>16. "altgr" \in doubt' \/ next.altgr = al2
  BY <1>9, <1>12, <1>13, <1>14
<1>17. "ctrl" \in doubt' \/ next.ctrl = ct2
  BY <1>10, <1>12, <1>13, <1>14
<1>18. "caps" \in doubt' \/ next.caps = caps_on'
  BY <1>11, <1>12, <1>13, <1>14
<1>19. Agrees(next)'
  BY <1>4, <1>12, <1>15, <1>16, <1>17, <1>18 DEF Agrees, sh2, al2, ct2
<1>20. Typed'
  <2>1. doubt' \subseteq {"shift", "caps", "altgr", "ctrl"}
    BY <1>2, <1>5, <1>6 DEF Typed
  <2>. QED
    BY <1>3, <2>1 DEF Typed, Moved
<1>. QED
  BY <1>4, <1>20, <1>19 DEF KeyInv

LEMMA PressKeeps ==
  ASSUME KeyInv, NEW key \in Keys, press(key)
  PROVE  KeyInv'
<1>1. Typed
  BY DEF KeyInv
<1>2. PICK before \in Unshifted(key, FALSE) : Sent(before \o Bytes(key, FALSE), key, FALSE, FALSE)
  BY DEF press
<1>3. down' = down \cup {key} /\ caps_on' = IF key = Caps THEN ~caps_on ELSE caps_on
  BY DEF press
<1>4. UNCHANGED driver
  BY DEF press
<1>5. /\ key \in Shifts <=> Role(key) = "shift"
      /\ key = AltGr <=> Role(key) = "altgr"
      /\ key = Ctrl <=> Role(key) = "ctrl"
      /\ key = Caps <=> Role(key) = "caps"
  BY Roles
<1>6. Moved(key, FALSE, FALSE)
  <2>1. down' \subseteq Keys /\ caps_on' \in BOOLEAN
    BY <1>1, <1>3 DEF Typed
  <2>2. IF key \in Shifts THEN down' \cap Shifts # {} ELSE down' \cap Shifts = down \cap Shifts
    BY <1>3
  <2>3. IF key = AltGr THEN AltGr \in down' ELSE AltGr \in down' <=> AltGr \in down
    BY <1>3
  <2>4. IF key = Ctrl THEN Ctrl \in down' ELSE Ctrl \in down' <=> Ctrl \in down
    BY <1>3
  <2>. QED
    BY <1>3, <1>5, <2>1, <2>2, <2>3, <2>4 DEF Moved
<1> DEFINE bytes == before \o Bytes(key, FALSE)
<1>7. bytes = before \o Bytes(key, FALSE)
  OBVIOUS
<1>8. Sent(bytes, key, FALSE, FALSE)
  BY <1>2
<1>. HIDE DEF bytes
<1>. QED
  BY <1>2, <1>4, <1>6, <1>7, <1>8, UserKeeps

LEMMA ReleaseKeeps ==
  ASSUME KeyInv, NEW key \in Keys, release(key)
  PROVE  KeyInv'
<1>1. Typed
  BY DEF KeyInv
<1> DEFINE unclear == Ambiguous(key, TRUE)
<1>2. PICK after \in Unshifted(key, TRUE) : Sent(Bytes(key, TRUE) \o after, key, TRUE, unclear)
  BY DEF release
<1>3. down' = down \ {key} /\ caps_on' = caps_on /\ key \in down
  BY DEF release
<1>4. UNCHANGED driver
  BY DEF release
<1>5. /\ key \in Shifts <=> Role(key) = "shift"
      /\ key = AltGr <=> Role(key) = "altgr"
      /\ key = Ctrl <=> Role(key) = "ctrl"
      /\ key = Caps <=> Role(key) = "caps"
  BY Roles
<1>6. unclear \in BOOLEAN /\ (unclear <=> Role(key) = "shift" /\ down \cap Shifts # {key})
  BY DEF Ambiguous
<1>. HIDE DEF unclear
<1>7. Moved(key, TRUE, unclear)
  <2>1. down' \subseteq Keys /\ caps_on' \in BOOLEAN
    BY <1>1, <1>3 DEF Typed
  <2>2. IF key \in Shifts THEN down \cap Shifts = {key} => down' \cap Shifts = {}
        ELSE down' \cap Shifts = down \cap Shifts
    BY <1>3
  <2>3. IF key = AltGr THEN AltGr \notin down' ELSE AltGr \in down' <=> AltGr \in down
    BY <1>3
  <2>4. IF key = Ctrl THEN Ctrl \notin down' ELSE Ctrl \in down' <=> Ctrl \in down
    BY <1>3
  <2>. QED
    BY <1>3, <1>5, <1>6, <2>1, <2>2, <2>3, <2>4 DEF Moved
<1> DEFINE bytes == Bytes(key, TRUE) \o after
<1>8. bytes = Bytes(key, TRUE) \o after
  OBVIOUS
<1>9. Sent(bytes, key, TRUE, unclear)
  BY <1>2
<1>. HIDE DEF bytes
<1>. QED
  BY <1>2, <1>4, <1>6, <1>7, <1>8, <1>9, UserKeeps

LEMMA RepeatKeeps ==
  ASSUME KeyInv, NEW key \in Keys, repeat(key)
  PROVE  KeyInv'
<1>1. Typed
  BY DEF KeyInv
<1> DEFINE unclear == (key = Caps)
           bytes   == Bytes(key, FALSE)
<1>2. Sent(bytes, key, FALSE, unclear)
  BY DEF repeat
<1>3. down' = down /\ caps_on' = caps_on /\ key \in down
  BY DEF repeat
<1>4. UNCHANGED driver
  BY DEF repeat
<1>5. /\ key \in Shifts <=> Role(key) = "shift"
      /\ key = AltGr <=> Role(key) = "altgr"
      /\ key = Ctrl <=> Role(key) = "ctrl"
      /\ key = Caps <=> Role(key) = "caps"
  BY Roles
<1>6. unclear \in BOOLEAN /\ (unclear <=> Role(key) = "caps")
  BY <1>5
<1>. HIDE DEF unclear
<1>7. Moved(key, FALSE, unclear)
  <2>1. down' \subseteq Keys /\ caps_on' \in BOOLEAN
    BY <1>1, <1>3 DEF Typed
  <2>2. /\ key \in Shifts => down' \cap Shifts # {}
        /\ key = AltGr => AltGr \in down'
        /\ key = Ctrl => Ctrl \in down'
    BY <1>3
  <2>. QED
    BY <1>3, <1>5, <1>6, <2>1, <2>2 DEF Moved
<1> DEFINE around == <<>>
<1>8. around \in Unshifted(key, FALSE)
  BY DEF Unshifted
<1>9. bytes = around \o Bytes(key, FALSE)
  <2>1. \A q \in Seq(ByteSet) : <<>> \o q = q
    OBVIOUS
  <2>2. Bytes(key, FALSE) \in Seq(ByteSet)
    BY <1>8, ByteSeqs
  <2>. QED
    BY <2>1, <2>2
<1>. HIDE DEF bytes, around
<1>. QED
  BY <1>2, <1>4, <1>6, <1>7, <1>8, <1>9, UserKeeps

(***************************************************************************)
(* The driver's side: one byte taken.                                      *)
(***************************************************************************)
\* What the byte of the moment means if it is a press.
Heard == Means(<<Byte.code, extended>>, shift_pressed, caps_lock, altgr_pressed, ctrl_pressed)

\* The handler does with the byte what After says, and hands on what a press means.
Handles ==
  /\ Taken /\ Now' = After(Now, Byte)
  /\ \/ ~IsPress(Byte, Now) /\ owed' = owed
     \/ ~IsPress(Byte, Now) /\ ~Pressable(<<Byte.code, extended>>) /\ Handed(None)
     \/ IsPress(Byte, Now) /\ Handed(Heard)

LEMMA HeadTyped ==
  ASSUME Typed, Taken
  PROVE  /\ Byte \in ByteSet /\ Byte.code \in ByteCodes /\ Byte.up \in BOOLEAN
         /\ Byte = [code |-> Byte.code, up |-> Byte.up]
         /\ extended \in BOOLEAN /\ shift_pressed \in BOOLEAN /\ caps_lock \in BOOLEAN
         /\ altgr_pressed \in BOOLEAN /\ ctrl_pressed \in BOOLEAN
<1>1. Byte \in ByteSet
  BY DEF Typed, Taken, Byte
<1>2. Byte.code \in ByteCodes /\ Byte.up \in BOOLEAN /\ Byte = [code |-> Byte.code, up |-> Byte.up]
  BY <1>1 DEF ByteSet
<1>3. /\ extended \in BOOLEAN /\ shift_pressed \in BOOLEAN /\ caps_lock \in BOOLEAN
      /\ altgr_pressed \in BOOLEAN /\ ctrl_pressed \in BOOLEAN
  BY DEF Typed, Now, FlagSet
<1>. QED
  BY <1>1, <1>2, <1>3

LEMMA NowIs ==
  ASSUME NEW e, NEW sh, NEW ca, NEW al, NEW ct,
         extended' = e, shift_pressed' = sh, caps_lock' = ca, altgr_pressed' = al, ctrl_pressed' = ct
  PROVE  Now' = [extended |-> e, shift |-> sh, caps |-> ca, altgr |-> al, ctrl |-> ct]
  BY DEF Now

\* Whether a byte is a press.
LEMMA PressIs ==
  ASSUME NEW b, NEW code, code = b.code, b # E0, extended \in BOOLEAN
  PROVE  /\ extended => (IsPress(b, Now) <=> ~b.up /\ code \notin {"alt", "lshift", "rshift"})
         /\ ~extended => (IsPress(b, Now) <=> ~b.up /\ code \notin {"lshift", "rshift", "ctrl", "caps"})
<1>1. IsPress(b, Now) <=> ~b.up /\ Pressable(<<code, extended>>)
  BY DEF IsPress, Now
<1>2. ASSUME NEW c PROVE Pressable(<<c, TRUE>>) <=> c \notin {"alt", "lshift", "rshift"}
  <2> DEFINE key == <<c, TRUE>>
  <2>1. key \notin Shifts /\ key # Ctrl /\ key # Caps /\ (key = AltGr <=> c = "alt")
    BY DEF Shifts, Ctrl, AltGr, Caps
  <2>2. key[1] = c /\ key[2] = TRUE
    OBVIOUS
  <2>. HIDE DEF key
  <2>3. Role(key) = "key" <=> c # "alt"
    BY <2>1 DEF Role
  <2>4. Pressable(key) <=> c \notin {"alt", "lshift", "rshift"}
    BY <2>2, <2>3 DEF Pressable
  <2>. QED
    BY <2>4 DEF key
<1>3. ASSUME NEW c PROVE Pressable(<<c, FALSE>>) <=> c \notin {"lshift", "rshift", "ctrl", "caps"}
  <2> DEFINE key == <<c, FALSE>>
  <2>1. /\ key \in Shifts <=> c \in {"lshift", "rshift"}
        /\ key = Ctrl <=> c = "ctrl"
        /\ key = Caps <=> c = "caps"
        /\ key # AltGr
    BY DEF Shifts, Ctrl, AltGr, Caps
  <2>2. key[1] = c /\ key[2] = FALSE
    OBVIOUS
  <2>. HIDE DEF key
  <2>3. Role(key) = "key" <=> c \notin {"lshift", "rshift", "ctrl", "caps"}
    BY <2>1 DEF Role
  <2>4. Pressable(key) <=> c \notin {"lshift", "rshift", "ctrl", "caps"}
    BY <2>2, <2>3 DEF Pressable
  <2>. QED
    BY <2>4 DEF key
<1>4. CASE extended
  <2>1. extended = TRUE
    BY <1>4
  <2>. QED
    BY <1>1, <1>2, <2>1
<1>5. CASE ~extended
  <2>1. extended = FALSE
    BY <1>5
  <2>. QED
    BY <1>1, <1>3, <2>1
<1>. QED
  BY <1>4, <1>5

LEMMA PrefixHandles ==
  ASSUME Typed, prefix
  PROVE  Handles
<1>1. Taken /\ Byte = E0 /\ extended' = TRUE /\ UNCHANGED Flags /\ owed' = owed
  BY DEF prefix
<1>2. /\ shift_pressed' = shift_pressed /\ caps_lock' = caps_lock
      /\ altgr_pressed' = altgr_pressed /\ ctrl_pressed' = ctrl_pressed
  BY <1>1 DEF Flags
<1>3. ~IsPress(Byte, Now)
  BY <1>1 DEF IsPress
<1>4. After(Now, Byte) = [extended |-> TRUE, shift |-> shift_pressed, caps |-> caps_lock,
                          altgr |-> altgr_pressed, ctrl |-> ctrl_pressed]
  BY <1>1 DEF After, Now, E0
<1>5. Now' = After(Now, Byte)
  BY <1>1, <1>2, <1>4 DEF Now
<1>. QED
  BY <1>1, <1>3, <1>5 DEF Handles

LEMMA ExtendedHandles ==
  ASSUME Typed, handle_extended_key
  PROVE  Handles
<1> DEFINE code == Byte.code
           up   == Byte.up
           given == Handed(ExtendedKey(code, shift_pressed, editor_active))
<1>1. /\ Taken /\ Byte # E0 /\ extended /\ extended' = FALSE
      /\ altgr_pressed' = IF code = "alt" THEN ~up ELSE altgr_pressed
      /\ UNCHANGED <<shift_pressed, caps_lock, ctrl_pressed>>
      /\ IF up THEN owed' = owed ELSE given
  BY DEF handle_extended_key
<1>2. extended = TRUE /\ extended \in BOOLEAN
  BY <1>1, HeadTyped
<1>3. IsPress(Byte, Now) <=> ~up /\ code \notin {"alt", "lshift", "rshift"}
  BY <1>1, <1>2, PressIs
<1>4. After(Now, Byte) =
        [extended |-> FALSE, shift |-> shift_pressed, caps |-> caps_lock,
         altgr |-> IF code = "alt" THEN ~up ELSE altgr_pressed, ctrl |-> ctrl_pressed]
  BY <1>1, <1>2 DEF After, Now
<1>5. Now' = After(Now, Byte)
  BY <1>1, <1>4 DEF Now
<1>6. Heard = ExtendedKey(code, shift_pressed, editor_active)
  BY <1>2 DEF Heard, Means
<1>7. code \in {"alt", "lshift", "rshift"} => ExtendedKey(code, shift_pressed, editor_active) = None
  BY DEF ExtendedKey
<1>. HIDE DEF code, up
<1>8. CASE up
  BY <1>1, <1>3, <1>5, <1>8 DEF Handles
<1>9. CASE ~up /\ code \in {"alt", "lshift", "rshift"}
  <2>1. Handed(None)
    BY <1>1, <1>7, <1>9
  <2>2. ~Pressable(<<Byte.code, extended>>)
    BY <1>1, <1>3, <1>9 DEF IsPress, Now, up
  <2>. QED
    BY <1>1, <1>3, <1>5, <1>9, <2>1, <2>2 DEF Handles
<1>10. CASE ~up /\ code \notin {"alt", "lshift", "rshift"}
  <2>1. Handed(Heard)
    BY <1>1, <1>6, <1>10
  <2>. QED
    BY <1>1, <1>3, <1>5, <1>10, <2>1 DEF Handles
<1>. QED
  BY <1>8, <1>9, <1>10

\* A byte without prefix that is no modifier's changes no flag.
LEMMA PlainAfter ==
  ASSUME Typed, NEW codes, Plain(codes), NEW code, code = Byte.code
  PROVE  /\ Taken /\ Byte # E0 /\ code \in codes /\ extended = FALSE /\ extended' = FALSE
         /\ IsPress(Byte, Now) <=> ~Byte.up /\ code \notin {"lshift", "rshift", "ctrl", "caps"}
         /\ After(Now, Byte) =
              [extended |-> FALSE,
               shift |-> IF code \in {"lshift", "rshift"} THEN ~Byte.up ELSE shift_pressed,
               caps  |-> IF code = "caps" /\ ~Byte.up THEN ~caps_lock ELSE caps_lock,
               altgr |-> altgr_pressed,
               ctrl  |-> IF code = "ctrl" THEN ~Byte.up ELSE ctrl_pressed]
<1>1. Taken /\ Byte # E0 /\ ~extended /\ code \in codes /\ extended' = extended
  BY DEF Plain
<1>2. extended = FALSE /\ extended \in BOOLEAN
  BY <1>1, HeadTyped
<1>3. IsPress(Byte, Now) <=> ~Byte.up /\ code \notin {"lshift", "rshift", "ctrl", "caps"}
  BY <1>1, <1>2, PressIs
<1>4. After(Now, Byte) =
        [extended |-> FALSE,
         shift |-> IF code \in {"lshift", "rshift"} THEN ~Byte.up ELSE shift_pressed,
         caps  |-> IF code = "caps" /\ ~Byte.up THEN ~caps_lock ELSE caps_lock,
         altgr |-> altgr_pressed,
         ctrl  |-> IF code = "ctrl" THEN ~Byte.up ELSE ctrl_pressed]
  BY <1>1, <1>2 DEF After, Now
<1>. QED
  BY <1>1, <1>2, <1>3, <1>4

LEMMA ModifierHandles ==
  ASSUME Typed, shift \/ caps \/ ctrl
  PROVE  Handles
<1> DEFINE code == Byte.code
           up   == Byte.up
<1>1. CASE shift
  <2>1. /\ Plain({"lshift", "rshift"}) /\ shift_pressed' = ~up /\ owed' = owed
        /\ caps_lock' = caps_lock /\ altgr_pressed' = altgr_pressed /\ ctrl_pressed' = ctrl_pressed
    BY <1>1 DEF shift
  <2>2. /\ Taken /\ code \in {"lshift", "rshift"} /\ extended' = FALSE /\ ~IsPress(Byte, Now)
        /\ After(Now, Byte) = [extended |-> FALSE, shift |-> ~up, caps |-> caps_lock,
                               altgr |-> altgr_pressed, ctrl |-> ctrl_pressed]
    BY <2>1, PlainAfter
  <2>3. Now' = After(Now, Byte)
    BY <2>1, <2>2 DEF Now
  <2>. QED
    BY <2>1, <2>2, <2>3 DEF Handles
<1>2. CASE caps
  <2>1. /\ Plain({"caps"}) /\ caps_lock' = (IF up THEN caps_lock ELSE ~caps_lock) /\ owed' = owed
        /\ shift_pressed' = shift_pressed /\ altgr_pressed' = altgr_pressed /\ ctrl_pressed' = ctrl_pressed
    BY <1>2 DEF caps
  <2>2. /\ Taken /\ code = "caps" /\ extended' = FALSE /\ ~IsPress(Byte, Now)
        /\ After(Now, Byte) = [extended |-> FALSE, shift |-> shift_pressed,
                               caps |-> IF ~up THEN ~caps_lock ELSE caps_lock,
                               altgr |-> altgr_pressed, ctrl |-> ctrl_pressed]
    <3>1. Taken /\ code = "caps" /\ extended' = FALSE
      BY <2>1, PlainAfter
    <3>2. IsPress(Byte, Now) <=> ~up /\ code \notin {"lshift", "rshift", "ctrl", "caps"}
      BY <2>1, PlainAfter
    <3>3. After(Now, Byte) =
            [extended |-> FALSE, shift |-> IF code \in {"lshift", "rshift"} THEN ~up ELSE shift_pressed,
             caps |-> IF code = "caps" /\ ~up THEN ~caps_lock ELSE caps_lock,
             altgr |-> altgr_pressed, ctrl |-> IF code = "ctrl" THEN ~up ELSE ctrl_pressed]
      BY <2>1, PlainAfter
    <3>. HIDE DEF code, up
    <3>. QED
      BY <3>1, <3>2, <3>3
  <2>3. (IF ~up THEN ~caps_lock ELSE caps_lock) = (IF up THEN caps_lock ELSE ~caps_lock)
    OBVIOUS
  <2>4. Now' = After(Now, Byte)
    BY <2>1, <2>2, <2>3 DEF Now
  <2>. QED
    BY <2>1, <2>2, <2>4 DEF Handles
<1>3. CASE ctrl
  <2>1. /\ Plain({"ctrl"}) /\ ctrl_pressed' = ~up /\ owed' = owed
        /\ shift_pressed' = shift_pressed /\ caps_lock' = caps_lock /\ altgr_pressed' = altgr_pressed
    BY <1>3 DEF ctrl
  <2>2. /\ Taken /\ code = "ctrl" /\ extended' = FALSE /\ ~IsPress(Byte, Now)
        /\ After(Now, Byte) = [extended |-> FALSE, shift |-> shift_pressed, caps |-> caps_lock,
                               altgr |-> altgr_pressed, ctrl |-> ~up]
    <3>1. Taken /\ code = "ctrl" /\ extended' = FALSE
      BY <2>1, PlainAfter
    <3>2. IsPress(Byte, Now) <=> ~up /\ code \notin {"lshift", "rshift", "ctrl", "caps"}
      BY <2>1, PlainAfter
    <3>3. After(Now, Byte) =
            [extended |-> FALSE, shift |-> IF code \in {"lshift", "rshift"} THEN ~up ELSE shift_pressed,
             caps |-> IF code = "caps" /\ ~up THEN ~caps_lock ELSE caps_lock,
             altgr |-> altgr_pressed, ctrl |-> IF code = "ctrl" THEN ~up ELSE ctrl_pressed]
      BY <2>1, PlainAfter
    <3>. HIDE DEF code, up
    <3>. QED
      BY <3>1, <3>2, <3>3
  <2>3. Now' = After(Now, Byte)
    BY <2>1, <2>2 DEF Now
  <2>. QED
    BY <2>1, <2>2, <2>3 DEF Handles
<1>. QED
  BY <1>1, <1>2, <1>3

\* The rest leave the flags as they are.
LEMMA FlagsKept ==
  ASSUME Typed, NEW codes, Plain(codes), UNCHANGED Flags, NEW code, code = Byte.code,
         code \notin {"lshift", "rshift", "ctrl", "caps"}
  PROVE  Taken /\ Now' = After(Now, Byte) /\ (IsPress(Byte, Now) <=> ~Byte.up) /\ extended = FALSE
<1>1. /\ shift_pressed' = shift_pressed /\ caps_lock' = caps_lock
      /\ altgr_pressed' = altgr_pressed /\ ctrl_pressed' = ctrl_pressed
  BY DEF Flags
<1>2. /\ Taken /\ extended = FALSE /\ extended' = FALSE /\ (IsPress(Byte, Now) <=> ~Byte.up)
      /\ After(Now, Byte) = [extended |-> FALSE, shift |-> shift_pressed, caps |-> caps_lock,
                             altgr |-> altgr_pressed, ctrl |-> ctrl_pressed]
  BY PlainAfter
<1>3. Now' = After(Now, Byte)
  BY <1>1, <1>2 DEF Now
<1>. QED
  BY <1>2, <1>3

LEMMA PlainHandles ==
  ASSUME Typed, tab \/ escape \/ character \/ released
  PROVE  Handles
<1> DEFINE code == Byte.code
<1>1. CASE tab
  <2>1. Plain({"tab"}) /\ ~Byte.up /\ Handed(<<Receiver(editor_active), "tab">>) /\ UNCHANGED Flags
    BY <1>1 DEF tab
  <2>2. code = "tab"
    BY <2>1 DEF Plain
  <2>3. Taken /\ Now' = After(Now, Byte) /\ IsPress(Byte, Now) /\ extended = FALSE
    BY <2>1, <2>2, FlagsKept
  <2>4. Heard = <<Receiver(editor_active), "tab">>
    BY <2>2, <2>3 DEF Heard, Means
  <2>. QED
    BY <2>1, <2>3, <2>4 DEF Handles
<1>2. CASE escape
  <2>1. /\ Plain({"esc"}) /\ ~Byte.up /\ UNCHANGED Flags
        /\ Handed(IF editor_active THEN <<"editor", "esc">> ELSE None)
    BY <1>2 DEF escape
  <2>2. code = "esc"
    BY <2>1 DEF Plain
  <2>3. Taken /\ Now' = After(Now, Byte) /\ IsPress(Byte, Now) /\ extended = FALSE
    BY <2>1, <2>2, FlagsKept
  <2>4. Heard = IF editor_active THEN <<"editor", "esc">> ELSE None
    BY <2>2, <2>3 DEF Heard, Means, Receiver
  <2>. QED
    BY <2>1, <2>3, <2>4 DEF Handles
<1>3. CASE character
  <2> DEFINE c == translate_scancode(cur_layout, code, shift_pressed, caps_lock, altgr_pressed)
  <2>1. Plain(Others) /\ ~Byte.up /\ UNCHANGED Flags /\ Handed(Character(c, ctrl_pressed, editor_active))
    BY <1>3 DEF character
  <2>2. code \notin {"lshift", "rshift", "caps", "ctrl", "tab", "esc"}
    BY <2>1 DEF Plain, Others
  <2>3. Taken /\ Now' = After(Now, Byte) /\ IsPress(Byte, Now) /\ extended = FALSE
    BY <2>1, <2>2, FlagsKept
  <2>. HIDE DEF c
  <2>4. Heard = Character(c, ctrl_pressed, editor_active)
    BY <2>2, <2>3 DEF Heard, Means, c
  <2>. QED
    BY <2>1, <2>3, <2>4 DEF Handles
<1>4. CASE released
  <2>1. Plain(Others \cup {"tab", "esc", "FF"}) /\ Byte.up /\ UNCHANGED Flags /\ owed' = owed
    BY <1>4 DEF released
  <2>2. code \notin {"lshift", "rshift", "caps", "ctrl"}
    BY <2>1 DEF Plain, Others
  <2>3. Taken /\ Now' = After(Now, Byte) /\ ~IsPress(Byte, Now)
    BY <2>1, <2>2, FlagsKept
  <2>. QED
    BY <2>1, <2>3 DEF Handles
<1>. QED
  BY <1>1, <1>2, <1>3, <1>4

\* What the press due next is owed is among what its user meant.
LEMMA HeardIsDue ==
  ASSUME owed # <<>>, Owes(Head(owed), Byte, Now)
  PROVE  Due(Heard)
<1> DEFINE due == Head(owed)
<1>1. /\ due.key = <<Byte.code, extended>>
      /\ shift_pressed \in due.shift /\ caps_lock \in due.caps
      /\ altgr_pressed \in due.altgr /\ ctrl_pressed \in due.ctrl
  BY DEF Owes, Now
<1>2. Heard = Means(due.key, shift_pressed, caps_lock, altgr_pressed, ctrl_pressed)
  BY <1>1 DEF Heard
<1>. HIDE DEF due
<1>3. Heard \in Meant(due)
  BY <1>1, <1>2 DEF Meant
<1>. QED
  BY <1>1, <1>3 DEF Due, due

\* The handler takes what is due, and nothing else.
LEMMA HandlerKeeps ==
  ASSUME KeyInv, Handles
  PROVE  KeyInv'
<1>1. PICK s : Matched(Now, queue, owed, s) /\ Agrees(s)
  BY DEF KeyInv
<1>2. /\ Typed /\ Taken /\ Byte \in ByteSet /\ queue # <<>> /\ queue' = Tail(queue)
      /\ UNCHANGED <<down, caps_on, doubt>>
  BY HeadTyped DEF KeyInv, Handles, Taken
<1>3. queue \in Seq(ByteSet) /\ owed \in Seq(ChordSet) /\ Now \in FlagSet
  BY <1>2 DEF Typed
<1> DEFINE start == Now
           b     == Byte
           next  == After(start, b)
<1>4. b = Head(queue) /\ next = After(start, b)
  BY DEF Byte
<1>5. Now' = next /\ next \in FlagSet
  BY <1>2, <1>3, AfterTyped DEF Handles
<1>. HIDE DEF start, b, next
<1>6. /\ ~IsPress(b, start) => /\ Matched(next, Tail(queue), owed, s)
                               /\ (owed # <<>> => Pressable(Head(owed).key))
      /\ IsPress(b, start) => /\ owed # <<>> /\ Owes(Head(owed), b, start)
                              /\ Matched(next, Tail(queue), Tail(owed), s)
  <2>1. start \in FlagSet /\ Matched(start, queue, owed, s)
    BY <1>1, <1>3 DEF start
  <2>. QED
    BY <1>2, <1>3, <1>4, <2>1, ByteTaken
<1>7. Agrees(s)'
  BY <1>1, <1>2 DEF Agrees
<1>8. CASE IsPress(Byte, Now)
  <2>1. Owes(Head(owed), Byte, Now) /\ owed # <<>> /\ Matched(next, Tail(queue), Tail(owed), s)
    BY <1>6, <1>8 DEF b, start
  <2>2. Handed(Heard) /\ Due(Heard)
    BY <1>8, <2>1, HeardIsDue DEF Handles
  <2>3. owed' = Tail(owed)
    BY <2>2 DEF Handed
  <2>4. owed' \in Seq(ChordSet)
    BY <1>3, <2>1, <2>3
  <2>5. Matched(Now', queue', owed', s)
    BY <1>2, <1>5, <2>1, <2>3
  <2>6. Typed'
    BY <1>2, <1>3, <1>5, <2>4 DEF Typed
  <2>. QED
    BY <1>7, <2>5, <2>6 DEF KeyInv
<1>9. CASE ~IsPress(Byte, Now)
  <2>1. Matched(next, Tail(queue), owed, s) /\ (owed # <<>> => Pressable(Head(owed).key))
    BY <1>6, <1>9 DEF b, start
  <2>2. owed' = owed
    <3>1. CASE ~Pressable(<<Byte.code, extended>>) /\ Handed(None)
      <4>1. ~Due(None)
        BY <2>1, <3>1 DEF Due
      <4>. QED
        BY <3>1, <4>1 DEF Handed
    <3>2. CASE owed' = owed
      BY <3>2
    <3>. QED
      BY <1>9, <3>1, <3>2 DEF Handles
  <2>3. Matched(Now', queue', owed', s)
    BY <1>2, <1>5, <2>1, <2>2
  <2>4. Typed'
    BY <1>2, <1>3, <1>5, <2>2 DEF Typed
  <2>. QED
    BY <1>7, <2>3, <2>4 DEF KeyInv
<1>. QED
  BY <1>8, <1>9

(***************************************************************************)
(* Every press is handed on as it was meant.                               *)
(***************************************************************************)
LEMMA KeyInitial ==
  ASSUME Init
  PROVE  KeyInv
<1>1. Now = [extended |-> FALSE, shift |-> FALSE, caps |-> FALSE, altgr |-> FALSE, ctrl |-> FALSE]
  BY DEF Init, Now
<1>2. Now \in FlagSet /\ Now.extended = FALSE /\ Now.shift = FALSE /\ Now.caps = FALSE
      /\ Now.altgr = FALSE /\ Now.ctrl = FALSE
  BY <1>1 DEF FlagSet
<1>3. down = {} /\ caps_on = FALSE /\ queue = <<>> /\ owed = <<>> /\ doubt = {}
  BY DEF Init
<1> DEFINE s == Now
<1>4. s \in FlagSet /\ Matched(s, queue, owed, s)
  BY <1>2, <1>3, NothingMatched
<1>5. Typed
  <2>1. queue \in Seq(ByteSet) /\ owed \in Seq(ChordSet)
    BY <1>3
  <2>. QED
    BY <1>2, <1>3, <2>1, Zenon DEF Typed
<1>6. /\ s.shift = (down \cap Shifts # {}) /\ s.caps = caps_on
      /\ s.altgr = (AltGr \in down) /\ s.ctrl = (Ctrl \in down)
  <2> DEFINE sh == down \cap Shifts # {}
             al == AltGr \in down
             ct == Ctrl \in down
  <2>1. sh = FALSE /\ al = FALSE /\ ct = FALSE
    BY <1>3
  <2>. HIDE DEF s, sh, al, ct
  <2>2. s.shift = FALSE /\ s.caps = FALSE /\ s.altgr = FALSE /\ s.ctrl = FALSE
    BY <1>2 DEF s
  <2>. QED
    BY <1>3, <2>1, <2>2 DEF sh, al, ct
<1>7. Agrees(s)
  BY <1>2, <1>4, <1>6 DEF Agrees
<1>. QED
  BY <1>4, <1>5, <1>7 DEF KeyInv

LEMMA KeyKept ==
  ASSUME KeyInv, [Next]_vars
  PROVE  KeyInv'
<1>1. CASE keyboard_handler
  <2>1. Typed
    BY DEF KeyInv
  <2>2. Handles
    BY <1>1, <2>1, PrefixHandles, ExtendedHandles, ModifierHandles, PlainHandles DEF keyboard_handler
  <2>. QED
    BY <2>2, HandlerKeeps
<1>2. CASE \E key \in Keys : press(key) \/ release(key) \/ repeat(key)
  BY <1>2, PressKeeps, ReleaseKeeps, RepeatKeeps
<1>3. CASE UNCHANGED vars
  <2>1. /\ queue' = queue /\ owed' = owed /\ down' = down /\ caps_on' = caps_on /\ doubt' = doubt
        /\ Now' = Now
    BY <1>3 DEF vars, driver, Now
  <2>2. PICK s : Matched(Now, queue, owed, s) /\ Agrees(s)
    BY DEF KeyInv
  <2>3. Matched(Now', queue', owed', s)
    BY <2>1, <2>2
  <2>4. Agrees(s)'
    BY <2>1, <2>2 DEF Agrees
  <2>5. Typed'
    BY <2>1 DEF KeyInv, Typed
  <2>. QED
    BY <2>3, <2>4, <2>5 DEF KeyInv
<1>. QED
  BY <1>1, <1>2, <1>3 DEF Next

LEMMA KeyInvHolds == Spec => []KeyInv
<1>1. Init => KeyInv
  BY KeyInitial
<1>2. KeyInv /\ [Next]_vars => KeyInv'
  BY KeyKept
<1>. QED
  BY <1>1, <1>2, PTL DEF Spec

LEMMA KeysMeant ==
  ASSUME KeyInv
  PROVE  KeysAsMeant
<1>1. Typed
  BY DEF KeyInv
<1>2. ASSUME NEW i \in DOMAIN owed PROVE "wrong" \notin DOMAIN owed[i]
  <2>1. owed[i] \in ChordSet
    BY <1>1 DEF Typed
  <2>2. \A chord \in ChordSet : DOMAIN chord = {"key", "shift", "caps", "altgr", "ctrl"}
    BY DEF ChordSet
  <2>. QED
    BY <2>1, <2>2
<1>3. ASSUME queue = <<>> PROVE owed = <<>>
  <2>1. PICK s : Matched(Now, queue, owed, s)
    BY DEF KeyInv
  <2>2. PICK run, at : Places(at, run, queue, owed)
    BY <2>1 DEF Matched
  <2>3. \A j \in 1..Len(owed) : at[j] \in 1..Len(queue)
    BY <2>2 DEF Places
  <2>4. owed \in Seq(ChordSet) /\ Len(queue) = 0
    BY <1>1, <1>3 DEF Typed
  <2>5. Len(owed) = 0
    <3>. SUFFICES ASSUME Len(owed) # 0 PROVE FALSE
      OBVIOUS
    <3>1. 1 \in 1..Len(owed)
      BY <2>4
    <3>2. at[1] \in 1..0
      BY <2>3, <2>4, <3>1
    <3>. QED
      BY <3>2
  <2>. QED
    BY <2>4, <2>5
<1>. QED
  BY <1>2, <1>3 DEF KeysAsMeant

\* However late the handler takes the bytes, whatever is held and whatever shift codes the
\* keyboard sends around an arrow, every key press is handed on once, in order and as its user
\* meant it (keyboard_handler, handle_extended_key, translate_scancode).
THEOREM KeysAlwaysAsMeant == Spec => []KeysAsMeant
<1>1. KeyInv => KeysAsMeant
  BY KeysMeant
<1>. QED
  BY <1>1, KeyInvHolds, PTL

----------------------------------------------------------------------------
(***************************************************************************)
(* The ATA driver.                                                         *)
(***************************************************************************)

\* drive is a record of the four fields of Idle; an error ends what it was doing.
DriveShape ==
  /\ drive = [doing |-> drive.doing, lba |-> drive.lba, data |-> drive.data, err |-> drive.err]
  /\ drive.err => drive.doing = "nothing"
  /\ drive.doing = "storing" => drive.lba \in Lbas /\ drive.data \in Data

CallKnown ==
  /\ call.op \in {"none", "read", "write", "identify"}
  /\ call.op \in {"read", "write"} => call.lba \in Lbas
  /\ call.op = "write" => call.data \in Data
  /\ pc \in {"idle", "wait_bsy", "command", "wait_drq"}
  /\ pc = "wait_bsy" => call.op \in {"read", "write"}
  /\ pc # "idle" => call.op # "none"

\* Between calls, and while the driver waits for BSY to clear, the drive rests or stores
\* what it acknowledged.
RestsOrStores == pc \in {"idle", "wait_bsy"} => drive.doing \in {"nothing", "storing"}

\* A command meets a drive at rest, but for IDENTIFY, which is sent without asking.
MeetsRest ==
  pc = "command" => \/ drive.doing = "nothing"
                    \/ call.op = "identify" /\ drive.doing = "storing"

\* While the driver waits for data the drive works on the command it was given.
OnTheCall ==
  pc = "wait_drq" =>
    /\ call.op = "read" => /\ drive.doing \in {"nothing", "seeking", "offering"}
                           /\ drive.doing # "nothing" => drive.lba = call.lba
                           /\ drive.doing = "offering" => drive.data = medium[call.lba]
    /\ call.op = "write" => /\ drive.doing \in {"nothing", "preparing", "accepting"}
                            /\ drive.doing # "nothing" => drive.lba = call.lba
    /\ call.op = "identify" => drive.doing \in {"nothing", "identifying", "offering"}

\* The driver knows what the drive is doing.
Together == DriveShape /\ RestsOrStores /\ MeetsRest /\ OnTheCall

AtaInv == strayed \in BOOLEAN /\ CallKnown /\ (~strayed => Together)

LEMMA AtaInitInv == AtaInit => AtaInv
<1>1. AtaInit => strayed \in BOOLEAN
  BY DEF AtaInit
<1>2. AtaInit => CallKnown
  BY DEF AtaInit, CallKnown
<1>3. AtaInit => Together
  BY DEF AtaInit, Together, DriveShape, RestsOrStores, MeetsRest, OnTheCall, Idle
<1>. QED
  BY <1>1, <1>2, <1>3 DEF AtaInv

\* What a command makes of a drive at rest.
LEMMA TaskGiven ==
  ASSUME NEW c, c.op \in {"read", "write", "identify"}
  PROVE  /\ Task(c) = [doing |-> Task(c).doing, lba |-> Task(c).lba, data |-> Task(c).data,
                       err |-> Task(c).err]
         /\ ~Task(c).err
         /\ c.op = "read" => Task(c).doing = "seeking" /\ Task(c).lba = c.lba
         /\ c.op = "write" => Task(c).doing = "preparing" /\ Task(c).lba = c.lba
         /\ c.op = "identify" => Task(c).doing = "identifying"
<1>1. CASE c.op = "read"
  BY <1>1 DEF Task, Idle
<1>2. CASE c.op = "write"
  BY <1>2 DEF Task, Idle
<1>3. CASE c.op = "identify"
  BY <1>3 DEF Task, Idle
<1>. QED
  BY <1>1, <1>2, <1>3

\* The drive's own steps, and the loss of power.
LEMMA DriveKeepsInv ==
  AtaInv /\ (drive_done \/ drive_error \/ power_loss) => AtaInv'
<1>1. ASSUME AtaInv, drive_done PROVE AtaInv'
  <2>1. CallKnown'
    BY <1>1 DEF AtaInv, CallKnown, drive_done
  <2>2. ASSUME ~strayed PROVE Together'
    <3>1. Together /\ CallKnown /\ BSY
      BY <1>1, <2>2 DEF AtaInv, drive_done
    <3>2. CASE drive.doing = "seeking"
      <4>1. drive' = [drive EXCEPT !.doing = "offering", !.data = medium[drive.lba]]
            /\ medium' = medium /\ pc' = pc /\ call' = call
        BY <1>1, <3>2 DEF drive_done
      <4>. QED
        BY <3>1, <3>2, <4>1
           DEF Together, DriveShape, RestsOrStores, MeetsRest, OnTheCall, CallKnown
    <3>3. CASE drive.doing = "identifying"
      <4>1. drive' = [drive EXCEPT !.doing = "offering", !.data = Identity]
            /\ medium' = medium /\ pc' = pc /\ call' = call
        BY <1>1, <3>3 DEF drive_done
      <4>. QED
        BY <3>1, <3>3, <4>1
           DEF Together, DriveShape, RestsOrStores, MeetsRest, OnTheCall, CallKnown
    <3>4. CASE drive.doing = "preparing"
      <4>1. drive' = [drive EXCEPT !.doing = "accepting"]
            /\ medium' = medium /\ pc' = pc /\ call' = call
        BY <1>1, <3>4 DEF drive_done
      <4>. QED
        BY <3>1, <3>4, <4>1
           DEF Together, DriveShape, RestsOrStores, MeetsRest, OnTheCall, CallKnown
    <3>5. CASE drive.doing = "storing"
      <4>1. drive' = Idle /\ pc' = pc /\ call' = call
        BY <1>1, <3>5 DEF drive_done
      <4>. QED
        BY <3>1, <3>5, <4>1
           DEF Together, DriveShape, RestsOrStores, MeetsRest, OnTheCall, CallKnown, Idle
    <3>. QED
      BY <3>1, <3>2, <3>3, <3>4, <3>5 DEF BSY
  <2>. QED
    BY <1>1, <2>1, <2>2 DEF AtaInv, drive_done
<1>2. ASSUME AtaInv, drive_error PROVE AtaInv'
  BY <1>2 DEF AtaInv, CallKnown, Together, DriveShape, RestsOrStores, MeetsRest, OnTheCall,
              drive_error, Idle
<1>3. ASSUME AtaInv, power_loss PROVE AtaInv'
  BY <1>3 DEF AtaInv, CallKnown, Together, DriveShape, RestsOrStores, MeetsRest, OnTheCall,
              power_loss, Idle
<1>. QED
  BY <1>1, <1>2, <1>3

\* A call begins, waits for the drive, gives its command.
LEMMA CommandKeepsInv ==
  AtaInv /\ (Call \/ ata_wait_bsy \/ ata_command) => AtaInv'
<1>1. ASSUME AtaInv, Call PROVE AtaInv'
  <2>1. PICK c, label :
          /\ Begin(c, label)
          /\ \/ c.op = "read" /\ c.lba \in Lbas /\ label = "wait_bsy"
             \/ c.op = "write" /\ c.lba \in Lbas /\ c.data \in Data /\ label = "wait_bsy"
             \/ c.op = "identify" /\ label = "command"
    <3>1. ASSUME NEW l \in Lbas, ata_read_sector(l)
          PROVE  \E c, label : Begin(c, label) /\ c.op = "read" /\ c.lba \in Lbas /\ label = "wait_bsy"
      BY <3>1 DEF ata_read_sector
    <3>2. ASSUME NEW l \in Lbas, NEW d \in Data, ata_write_sector(l, d)
          PROVE  \E c, label : /\ Begin(c, label) /\ c.op = "write" /\ c.lba \in Lbas
                               /\ c.data \in Data /\ label = "wait_bsy"
      BY <3>2 DEF ata_write_sector
    <3>3. ASSUME ata_identify
          PROVE  \E c, label : Begin(c, label) /\ c.op = "identify" /\ label = "command"
      BY <3>3 DEF ata_identify
    <3>. QED
      BY <1>1, <3>1, <3>2, <3>3 DEF Call
  <2>2. /\ pc = "idle" /\ call' = c /\ pc' = label
        /\ UNCHANGED <<medium, drive, strayed>>
    BY <2>1 DEF Begin
  <2>3. CallKnown'
    BY <2>1, <2>2 DEF CallKnown
  <2>4. ~strayed => Together'
    BY <1>1, <2>1, <2>2 DEF AtaInv, Together, DriveShape, RestsOrStores, MeetsRest, OnTheCall
  <2>. QED
    BY <1>1, <2>2, <2>3, <2>4 DEF AtaInv
<1>2. ASSUME AtaInv, ata_wait_bsy PROVE AtaInv'
  <2>1. /\ pc = "wait_bsy" /\ UNCHANGED <<medium, drive, strayed, call>>
        /\ \/ pc' = "command" /\ ~BSY
           \/ pc' = "wait_bsy"
           \/ pc' = "idle"
    BY <1>2 DEF ata_wait_bsy, PollAgain, Return
  <2>2. CallKnown'
    BY <1>2, <2>1 DEF AtaInv, CallKnown
  <2>3. ~strayed => Together'
    BY <1>2, <2>1 DEF AtaInv, Together, DriveShape, RestsOrStores, MeetsRest, OnTheCall, BSY
  <2>. QED
    BY <1>2, <2>1, <2>2, <2>3 DEF AtaInv
<1>3. ASSUME AtaInv, ata_command PROVE AtaInv'
  <2>1. /\ pc = "command" /\ pc' = "wait_drq" /\ UNCHANGED <<medium, call>>
        /\ Command(call) /\ strayed' = (strayed \/ (call.op = "identify" /\ (BSY \/ DRQ)))
    BY <1>3 DEF ata_command
  <2>2. CallKnown' /\ call.op \in {"read", "write", "identify"}
    BY <1>3, <2>1 DEF AtaInv, CallKnown
  <2>3. ASSUME ~strayed' PROVE Together'
    <3>1. ~strayed /\ Together /\ drive.doing = "nothing"
      BY <1>3, <2>1, <2>2, <2>3 DEF AtaInv, Together, MeetsRest, BSY
    <3>2. drive' = Task(call)
      BY <2>1, <3>1 DEF Command, BSY, DRQ
    <3>. QED
      BY <2>1, <2>2, <3>2, TaskGiven
         DEF Together, DriveShape, RestsOrStores, MeetsRest, OnTheCall
  <2>. QED
    BY <1>3, <2>1, <2>2, <2>3 DEF AtaInv
<1>. QED
  BY <1>1, <1>2, <1>3

\* What a look at the status comes to while the driver waits for data, as long as it has
\* not lost track of the drive: another look, a failure, or the call's own data moved.
Looks == pc' = "wait_drq" /\ UNCHANGED <<drive, result>>
Fails == pc' = "idle" /\ result' = Failed /\ drive.doing = "nothing" /\ UNCHANGED drive

Reads ==
  /\ call.op = "read" /\ drive.doing = "offering"
  /\ pc' = "idle" /\ drive' = Idle
  /\ result' = [call |-> "read", lba |-> call.lba, data |-> medium[call.lba]]

Identifies ==
  /\ call.op = "identify" /\ drive.doing = "offering"
  /\ pc' = "idle" /\ drive' = Idle /\ result' = [call |-> "identify"]

Writes ==
  /\ call.op = "write" /\ drive.doing = "accepting"
  /\ pc' = "idle" /\ drive' = [drive EXCEPT !.doing = "storing", !.data = call.data]
  /\ result' = [call |-> "write", lba |-> call.lba, data |-> call.data]

LEMMA WaitedForData ==
  ASSUME AtaInv, ata_wait_drq, ~strayed'
  PROVE  /\ ~strayed /\ Together /\ pc = "wait_drq" /\ UNCHANGED <<medium, call, faults>>
         /\ Looks \/ Fails \/ Reads \/ Identifies \/ Writes
<1>1. ~strayed /\ ~(polls = 1 /\ BSY) /\ pc = "wait_drq" /\ UNCHANGED medium
  BY DEF ata_wait_drq
<1>2. Together /\ CallKnown
  BY <1>1 DEF AtaInv
<1>3. CASE ERR /\ Return(Failed) /\ UNCHANGED drive
  BY <1>1, <1>2, <1>3 DEF ERR, Return, Fails, Together, DriveShape
<1>4. CASE ~ERR /\ DRQ /\ Transfer
  <2>1. (call.op = "write") = (drive.doing = "accepting")
    BY <1>1, <1>2, <1>4 DEF Together, OnTheCall, CallKnown, DRQ
  <2>2. CASE call.op # "write"
    <3>1. /\ call.op \in {"read", "identify"} /\ drive.doing = "offering"
          /\ drive' = Idle
          /\ Return(IF call.op = "read"
                    THEN [call |-> "read", lba |-> call.lba, data |-> drive.data]
                    ELSE [call |-> "identify"])
      BY <1>1, <1>2, <1>4, <2>1, <2>2 DEF Transfer, CallKnown
    <3>2. call.op = "read" => drive.data = medium[call.lba]
      BY <1>1, <1>2, <3>1 DEF Together, OnTheCall
    <3>. QED
      BY <1>1, <1>2, <3>1, <3>2 DEF Return, Reads, Identifies
  <2>3. CASE call.op = "write"
    <3>1. /\ drive.doing = "accepting"
          /\ drive' = [drive EXCEPT !.doing = "storing", !.data = call.data]
          /\ Return([call |-> "write", lba |-> call.lba, data |-> call.data])
      BY <1>4, <2>1, <2>3 DEF Transfer
    <3>. QED
      BY <1>1, <1>2, <2>3, <3>1 DEF Return, Writes
  <2>. QED
    BY <2>2, <2>3
<1>5. CASE ~ERR /\ ~DRQ /\ PollAgain /\ UNCHANGED drive
  <2>1. CASE polls > 1 /\ polls' = polls - 1 /\ UNCHANGED <<pc, call, result, faults>>
    BY <1>1, <1>2, <1>5, <2>1 DEF Looks
  <2>2. CASE polls = 1 /\ Return(Failed)
    <3>1. drive.doing = "nothing"
      BY <1>1, <1>2, <1>5, <2>2 DEF Together, OnTheCall, CallKnown, BSY, DRQ
    <3>. QED
      BY <1>1, <1>2, <1>5, <2>2, <3>1 DEF Return, Fails
  <2>. QED
    BY <1>5, <2>1, <2>2 DEF PollAgain
<1>. QED
  BY <1>3, <1>4, <1>5 DEF ata_wait_drq

LEMMA WaitKeepsInv ==
  AtaInv /\ ata_wait_drq => AtaInv'
<1>. SUFFICES ASSUME AtaInv, ata_wait_drq PROVE AtaInv'
  OBVIOUS
<1>1. pc = "wait_drq" /\ call' = call /\ pc' \in {"idle", "wait_drq"}
  BY DEF ata_wait_drq, Return, PollAgain, Transfer
<1>2. CallKnown'
  BY <1>1 DEF AtaInv, CallKnown
<1>3. ASSUME ~strayed' PROVE Together'
  <2>1. /\ ~strayed /\ Together /\ UNCHANGED <<medium, call>>
        /\ Looks \/ Fails \/ Reads \/ Identifies \/ Writes
    BY <1>3, WaitedForData
  <2>2. CASE Looks
    BY <1>1, <2>1, <2>2
       DEF Looks, Together, DriveShape, RestsOrStores, MeetsRest, OnTheCall
  <2>3. CASE Fails
    BY <1>1, <2>1, <2>3
       DEF Fails, Together, DriveShape, RestsOrStores, MeetsRest, OnTheCall
  <2>4. CASE Reads \/ Identifies
    BY <1>1, <2>1, <2>4
       DEF Reads, Identifies, Together, DriveShape, RestsOrStores, MeetsRest, OnTheCall, Idle
  <2>5. CASE Writes
    BY <1>1, <2>1, <2>5
       DEF AtaInv, CallKnown, Writes, Together, DriveShape, RestsOrStores, MeetsRest, OnTheCall
  <2>. QED
    BY <2>1, <2>2, <2>3, <2>4, <2>5
<1>. QED
  BY <1>2, <1>3 DEF AtaInv, ata_wait_drq

\* For every bound on the driver's patience: unless it has lost track of the drive, a
\* command meets a drive at rest (ata_wait_bsy) and what the driver waits for is its own
\* command's data (ata_wait_drq).
THEOREM DriverKeepsTrack == AtaSpec => []AtaInv
<1>1. AtaInv /\ [AtaNext]_AtaVars => AtaInv'
  <2>1. AtaInv /\ UNCHANGED AtaVars => AtaInv'
    BY DEF AtaVars, AtaInv, CallKnown, Together, DriveShape, RestsOrStores, MeetsRest, OnTheCall
  <2>. QED
    BY <2>1, DriveKeepsInv, CommandKeepsInv, WaitKeepsInv DEF AtaNext, Poll
<1>. QED
  BY <1>1, AtaInitInv, PTL DEF AtaSpec

----------------------------------------------------------------------------
(***************************************************************************)
(* Refinement: what each step is to the file system.                       *)
(***************************************************************************)
NoTrace == UNCHANGED Disk!vars

LEMMA DriveRefines ==
  ASSUME AtaInv, drive_done \/ drive_error \/ power_loss
  PROVE  Disk!Next \/ NoTrace
<1>1. ASSUME drive_done PROVE Disk!Next \/ NoTrace
  <2>1. UNCHANGED <<result, faults, strayed>>
    BY <1>1 DEF drive_done
  <2>2. CASE drive.doing = "storing"
    <3>1. medium' = [medium EXCEPT ![drive.lba] = drive.data] /\ drive' = Idle
      BY <1>1, <2>2 DEF drive_done
    <3>2. CASE strayed
      BY <2>1, <3>2 DEF AtaInv, Disk!Next
    <3>3. CASE ~strayed
      <4>1. drive.lba \in Lbas /\ drive.data \in Data
        BY <2>2, <3>3 DEF AtaInv, Together, DriveShape
      <4>2. Disk!Flush
        BY <2>1, <2>2, <3>1, <4>1, AtaAssumption DEF Disk!Flush, Idle
      <4>. QED
        BY <2>1, <4>2 DEF Disk!Next
    <3>. QED
      BY <3>2, <3>3
  <2>3. CASE drive.doing # "storing"
    <3>1. medium' = medium
      BY <1>1, <2>3 DEF drive_done
    <3>2. strayed \/ drive'.doing # "storing"
      BY <1>1, <2>3 DEF drive_done, AtaInv, Together, DriveShape, BSY
    <3>. QED
      BY <2>1, <2>3, <3>1, <3>2 DEF NoTrace, Disk!vars, Disk!Next
  <2>. QED
    BY <2>2, <2>3
<1>2. ASSUME drive_error PROVE Disk!Next \/ NoTrace
  <2>1. Disk!Drop /\ UNCHANGED strayed
    BY <1>2 DEF drive_error, Disk!Drop, Idle
  <2>. QED
    BY <2>1 DEF Disk!Next
<1>3. ASSUME power_loss PROVE Disk!Next \/ NoTrace
  <2>1. CASE strayed
    BY <1>3, <2>1 DEF power_loss, Disk!Recover, Disk!Next, Idle
  <2>2. CASE ~strayed
    <3>1. Disk!Drop /\ strayed' = FALSE
      BY <1>3 DEF power_loss, Disk!Drop, Idle
    <3>. QED
      BY <2>2, <3>1 DEF AtaInv, Disk!Next
  <2>. QED
    BY <2>1, <2>2
<1>. QED
  BY <1>1, <1>2, <1>3

\* A call that gives up before its command has touched nothing.
LEMMA CommandRefines ==
  ASSUME AtaInv, Call \/ ata_wait_bsy \/ ata_command
  PROVE  Disk!Next \/ NoTrace
<1>1. ASSUME Call PROVE NoTrace
  BY <1>1 DEF Call, ata_read_sector, ata_write_sector, ata_identify, Begin, NoTrace, Disk!vars
<1>2. ASSUME ata_wait_bsy PROVE Disk!Next \/ NoTrace
  <2>1. UNCHANGED <<medium, drive, strayed, faults>> /\ (result' = result \/ result' = Failed)
    BY <1>2 DEF ata_wait_bsy, PollAgain, Return
  <2>2. CASE result' = result
    BY <2>1, <2>2 DEF NoTrace, Disk!vars
  <2>3. CASE result' = Failed
    <3>1. Disk!Fail
      BY <2>1, <2>3 DEF Disk!Fail, Failed
    <3>. QED
      BY <2>1, <3>1 DEF Disk!Next
  <2>. QED
    BY <2>1, <2>2, <2>3
<1>3. ASSUME ata_command PROVE Disk!Next \/ NoTrace
  <2>1. CASE strayed'
    BY <2>1 DEF Disk!Next
  <2>2. CASE ~strayed'
    <3>1. /\ ~strayed /\ Together /\ CallKnown /\ pc = "command"
          /\ ~(call.op = "identify" /\ BSY)
      BY <1>3, <2>2 DEF ata_command, AtaInv
    <3>2. drive.doing = "nothing" /\ call.op \in {"read", "write", "identify"}
      BY <3>1 DEF Together, MeetsRest, BSY, CallKnown
    <3>3. drive' = Task(call) /\ UNCHANGED <<medium, result, faults>>
      BY <1>3, <3>2 DEF ata_command, Command, BSY, DRQ
    <3>4. drive'.doing # "storing"
      BY <3>2, <3>3, TaskGiven
    <3>5. strayed' = strayed
      BY <1>3, <2>2, <3>1 DEF AtaInv, ata_command
    <3>. QED
      BY <3>2, <3>3, <3>4, <3>5 DEF NoTrace, Disk!vars
  <2>. QED
    BY <2>1, <2>2
<1>. QED
  BY <1>1, <1>2, <1>3

\* A call returns what the disk says.
LEMMA WaitRefines ==
  ASSUME AtaInv, ata_wait_drq
  PROVE  Disk!Next \/ NoTrace
<1>1. CASE strayed'
  BY <1>1 DEF Disk!Next
<1>2. CASE ~strayed'
  <2>1. /\ ~strayed /\ Together /\ CallKnown /\ pc = "wait_drq"
        /\ UNCHANGED <<medium, call, faults>>
        /\ Looks \/ Fails \/ Reads \/ Identifies \/ Writes
    BY <1>2, WaitedForData DEF AtaInv
  <2>2. UNCHANGED strayed
    BY <1>2, <2>1 DEF AtaInv, ata_wait_drq
  <2>3. CASE Looks
    BY <2>1, <2>2, <2>3 DEF Looks, NoTrace, Disk!vars
  <2>4. CASE Fails
    <3>1. Disk!Fail
      BY <2>1, <2>4 DEF Fails, Failed, Disk!Fail
    <3>. QED
      BY <2>1, <2>2, <3>1 DEF Disk!Next
  <2>5. CASE Reads
    <3>1. call.lba \in Lbas
      BY <2>1, <2>5 DEF Reads, CallKnown
    <3>2. Disk!Read(call.lba)
      BY <2>1, <2>5 DEF Reads, Idle, Disk!Read
    <3>. QED
      BY <2>1, <2>2, <3>1, <3>2 DEF Disk!Next
  <2>6. CASE Identifies
    <3>1. Disk!Identify
      BY <2>1, <2>6 DEF Identifies, Idle, Disk!Identify
    <3>. QED
      BY <2>1, <2>2, <3>1 DEF Disk!Next
  <2>7. CASE Writes
    <3>1. call.lba \in Lbas /\ call.data \in Data /\ drive.lba = call.lba
      BY <2>1, <2>7 DEF Writes, CallKnown, Together, OnTheCall
    <3>2. /\ drive'.doing = "storing" /\ drive'.lba = call.lba /\ drive'.data = call.data
          /\ drive.doing # "storing"
      BY <2>1, <2>7, <3>1 DEF Writes, Together, DriveShape
    <3>3. Disk!Write(call.lba, call.data)
      BY <2>1, <2>7, <3>2 DEF Writes, Disk!Write
    <3>. QED
      BY <2>1, <2>2, <3>1, <3>3 DEF Disk!Next
  <2>. QED
    BY <2>1, <2>3, <2>4, <2>5, <2>6, <2>7
<1>. QED
  BY <1>1, <1>2

\* For every disk and every bound on the driver's patience the driver implements the disk
\* of SectorDisk, until it loses track of the drive (ata_wait_drq, ata_identify).
THEOREM DriverIsDisk == AtaSpec => DiskSpec
<1>1. AtaInit => Disk!Init
  BY DEF AtaInit, Disk!Init, Idle
<1>2. AtaInv /\ [AtaNext]_AtaVars => [Disk!Next]_(Disk!vars)
  <2>. SUFFICES ASSUME AtaInv, [AtaNext]_AtaVars PROVE Disk!Next \/ NoTrace
    BY DEF NoTrace
  <2>1. CASE UNCHANGED AtaVars
    BY <2>1 DEF AtaVars, NoTrace, Disk!vars
  <2>2. CASE AtaNext
    BY <2>2, DriveRefines, CommandRefines, WaitRefines DEF AtaNext, Poll
  <2>. QED
    BY <2>1, <2>2
<1>. QED
  BY <1>1, <1>2, DriverKeepsTrack, PTL DEF AtaSpec, DiskSpec
=============================================================================
