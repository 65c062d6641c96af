---------------------------- MODULE FilesProofs ----------------------------
(***************************************************************************)
(* What holds of the boot and of the file commands for all names, texts    *)
(* and settings, and for any number of files and of faults.                *)
(***************************************************************************)
EXTENDS Files, SequenceTheorems, WellFoundedInduction, TLAPS

LEMMA LeastNumber ==
  ASSUME NEW T, T \subseteq Nat, T # {}
  PROVE  \E x \in T : \A y \in T : x <= y
<1>1. PICK x \in T : \A y \in T : ~(<<y, x>> \in OpToRel(<, Nat))
  BY NatLessThanWellFounded, WFMin
<1>2. \A y \in T : ~(y < x)
  BY <1>1 DEF OpToRel
<1>. QED
  BY <1>2

(***************************************************************************)
(* Going along the parts of a path: FoldLeft is a recursive function on    *)
(* the sets of places, and that there is one is shown here with the least  *)
(* number of places for which there would not be.                          *)
(***************************************************************************)
\* One part further, in the text the shell writes or in the directories it means.
Further(kind, at, part) == IF kind = "text" THEN path_part(at, part) ELSE Enter(at, part)

IsWay(kind, from, parts, n, g) ==
  g = [s \in SUBSET (1..n) |-> IF s = {} THEN from
                               ELSE Further(kind, g[s \ {Max(s)}], parts[Max(s)])]

LEMMA MaxIs ==
  ASSUME NEW n \in Nat, NEW s \in SUBSET (1..n), n \in s
  PROVE  Max(s) = n
<1>1. \A y \in s : n >= y
  OBVIOUS
<1>2. \A x \in s : (\A y \in s : x >= y) => x = n
  BY <1>1
<1>. QED
  BY <1>1, <1>2 DEF Max

LEMMA WayExists ==
  ASSUME NEW kind, NEW from, NEW parts, NEW n \in Nat
  PROVE  \E g : IsWay(kind, from, parts, n, g)
<1> DEFINE Bad == {m \in Nat : ~\E g : IsWay(kind, from, parts, m, g)}
<1>1. SUFFICES ASSUME Bad # {} PROVE FALSE
  OBVIOUS
<1>2. PICK m \in Bad : \A k \in Bad : m <= k
  BY <1>1, LeastNumber
<1>3. m \in Nat /\ ~\E g : IsWay(kind, from, parts, m, g)
  BY <1>2
<1>4. CASE m = 0
  <2>. DEFINE g == [s \in SUBSET (1..0) |-> from]
  <2>1. \A s \in SUBSET (1..0) : s = {}
    OBVIOUS
  <2>2. g = [s \in SUBSET (1..0) |-> IF s = {} THEN from
                                     ELSE Further(kind, g[s \ {Max(s)}], parts[Max(s)])]
    BY <2>1
  <2>. HIDE DEF g
  <2>3. IsWay(kind, from, parts, 0, g)
    BY <2>2 DEF IsWay
  <2>. QED
    BY <1>3, <1>4, <2>3
<1>5. CASE m # 0
  <2>1. m - 1 \in Nat /\ ~(m <= m - 1) /\ m \in 1..m
    BY <1>3, <1>5
  <2>2. m - 1 \notin Bad
    <3>. HIDE DEF Bad
    <3>. QED
      BY <1>2, <2>1
  <2>3. PICK g : IsWay(kind, from, parts, m - 1, g)
    BY <2>1, <2>2
  <2>. DEFINE h == [s \in SUBSET (1..m) |-> IF m \in s THEN Further(kind, g[s \ {m}], parts[m]) ELSE g[s]]
              k == [s \in SUBSET (1..m) |-> IF s = {} THEN from
                                            ELSE Further(kind, h[s \ {Max(s)}], parts[Max(s)])]
  <2>4. \A s \in SUBSET (1..m) : m \notin s => s \in SUBSET (1..(m - 1))
    BY <1>3
  <2>5. \A s \in SUBSET (1..(m - 1)) : h[s] = g[s] /\ s \in SUBSET (1..m)
    BY <1>3
  <2>6. \A s \in SUBSET (1..(m - 1)) :
           g[s] = IF s = {} THEN from ELSE Further(kind, g[s \ {Max(s)}], parts[Max(s)])
    BY <2>3 DEF IsWay
  <2>7. \A s \in SUBSET (1..m) :
           h[s] = IF m \in s THEN Further(kind, g[s \ {m}], parts[m]) ELSE g[s]
    OBVIOUS
  <2>. HIDE DEF h
  <2>8. ASSUME NEW s \in SUBSET (1..m) PROVE h[s] = k[s]
    <3>1. CASE m \in s
      <4>1. Max(s) = m /\ s # {}
        BY <1>3, <3>1, MaxIs
      <4>2. s \ {m} \in SUBSET (1..(m - 1))
        BY <2>4
      <4>. QED
        BY <2>5, <2>7, <3>1, <4>1, <4>2
    <3>2. CASE m \notin s
      <4>1. s \in SUBSET (1..(m - 1)) /\ s \ {Max(s)} \in SUBSET (1..(m - 1))
        BY <2>4, <3>2
      <4>2. h[s] = g[s] /\ h[s \ {Max(s)}] = g[s \ {Max(s)}]
        BY <2>5, <4>1
      <4>. QED
        BY <2>6, <4>1, <4>2
    <3>. QED
      BY <3>1, <3>2
  <2>9. h = k
    <3>1. h = [s \in SUBSET (1..m) |-> h[s]]
      BY DEF h
    <3>. QED
      BY <2>8, <3>1
  <2>10. IsWay(kind, from, parts, m, h)
    BY <2>9 DEF IsWay
  <2>. QED
    BY <1>3, <2>10
<1>. QED
  BY <1>4, <1>5

\* Where the first n parts lead.
Way(kind, from, parts) ==
  CHOOSE g : IsWay(kind, from, parts, Len(parts), g)
Reached(kind, from, parts, n) == Way(kind, from, parts)[1..n]

LEMMA WayIs ==
  ASSUME NEW kind, NEW from, NEW parts, Len(parts) \in Nat,
         NEW s \in SUBSET (1..Len(parts))
  PROVE  Way(kind, from, parts)[s] =
           IF s = {} THEN from ELSE Further(kind, Way(kind, from, parts)[s \ {Max(s)}], parts[Max(s)])
<1> DEFINE g == Way(kind, from, parts)
<1>1. IsWay(kind, from, parts, Len(parts), g)
  BY WayExists DEF Way
<1>. HIDE DEF g
<1>2. g[s] = IF s = {} THEN from ELSE Further(kind, g[s \ {Max(s)}], parts[Max(s)])
  BY <1>1 DEF IsWay
<1>. QED
  BY <1>2 DEF g

LEMMA ReachedFirst ==
  ASSUME NEW kind, NEW from, NEW parts, Len(parts) \in Nat
  PROVE  Reached(kind, from, parts, 0) = from
<1>1. 1..0 = {} /\ 1..0 \in SUBSET (1..Len(parts))
  OBVIOUS
<1>. QED
  BY <1>1, WayIs DEF Reached

LEMMA ReachedNext ==
  ASSUME NEW kind, NEW from, NEW parts, Len(parts) \in Nat,
         NEW n, NEW k, n \in 1..Len(parts), k = n - 1
  PROVE  Reached(kind, from, parts, n) = Further(kind, Reached(kind, from, parts, k), parts[n])
<1> DEFINE g == Way(kind, from, parts)
           m == Len(parts)
<1>1. n \in Nat /\ n >= 1 /\ n <= m /\ m \in Nat
  OBVIOUS
<1>. HIDE DEF m
<1>2. 1..n \in SUBSET (1..m)
  BY <1>1
<1>3. n \in 1..n /\ (1..n) \ {n} = 1..k /\ 1..n \in SUBSET (1..n)
  BY <1>1
<1>4. Max(1..n) = n
  BY <1>1, <1>3, MaxIs
<1> DEFINE s == 1..n
<1>5. s \in SUBSET (1..Len(parts)) /\ s # {} /\ s \ {Max(s)} = 1..k /\ Max(s) = n
  BY <1>2, <1>3, <1>4 DEF m
<1>. HIDE DEF s
<1>6. g[s] = IF s = {} THEN from ELSE Further(kind, g[s \ {Max(s)}], parts[Max(s)])
  BY <1>5, WayIs
<1>. HIDE DEF g
<1>7. g[s] = Further(kind, g[1..k], parts[n])
  BY <1>5, <1>6
<1>. QED
  BY <1>7 DEF Reached, g, s

LEMMA TextReached ==
  ASSUME NEW from, NEW S, NEW parts \in Seq(S)
  PROVE  path_append(from, parts) = Reached("text", from, parts, Len(parts))
<1>1. DOMAIN parts = 1..Len(parts)
  OBVIOUS
<1>. QED
  BY <1>1 DEF path_append, FoldLeft, MapThenFoldSet, Reached, Way, IsWay, Further

LEMMA DirReached ==
  ASSUME NEW cwd_, NEW S, NEW input, input.parts \in Seq(S)
  PROVE  Meant(cwd_, input) = Reached("dir", IF input.abs THEN <<>> ELSE cwd_.names, input.parts, Len(input.parts))
<1>1. DOMAIN input.parts = 1..Len(input.parts)
  OBVIOUS
<1>. QED
  BY <1>1 DEF Meant, FoldLeft, MapThenFoldSet, Reached, Way, IsWay, Further

(***************************************************************************)
(* Paths.                                                                  *)
(***************************************************************************)
AllInputs == Inputs \cup SavePaths \cup UNION {{two[1], two[2]} : two \in InputPairs}
Words == {"etc", "home", "bin", "docs", "lost.cfg"} \cup UNION {Range(i.parts) : i \in AllInputs}
Name  == Words \ {".", ".."}
Path == Seq(Name)

\* A text of Paths: only `/' itself has no names.
GoodText(t) == t \in [names : Path, slash : BOOLEAN] /\ (t.slash \/ t.names # <<>>)

LEMMA TextTyped ==
  ASSUME NEW names \in Path, NEW slash \in BOOLEAN, slash \/ names # <<>>
  PROVE  /\ GoodText(Text(names, slash))
         /\ Text(names, slash).names = names /\ Text(names, slash).slash = slash
  BY DEF GoodText, Text

LEMMA GoodTextIs ==
  ASSUME NEW t, GoodText(t)
  PROVE  t.names \in Path /\ t.slash \in BOOLEAN /\ (t.slash \/ t.names # <<>>)
  BY DEF GoodText

LEMMA RootTyped == GoodText(RootText) /\ RootText.names = <<>> /\ RootText.slash
<1>1. <<>> \in Path
  BY DEF Path
<1>. QED
  BY <1>1, TextTyped DEF RootText

\* The part before a place, and one more.
LEMMA PrefixTyped ==
  ASSUME NEW S, NEW s \in Seq(S), NEW n \in 0..Len(s)
  PROVE  /\ SubSeq(s, 1, n) \in Seq(S) /\ Len(SubSeq(s, 1, n)) = n
         /\ \A i \in 1..n : SubSeq(s, 1, n)[i] = s[i]
<1>1. n \in Nat /\ n <= Len(s)
  OBVIOUS
<1>. QED
  BY <1>1

LEMMA PrefixNext ==
  ASSUME NEW S, NEW s \in Seq(S), NEW n \in 1..Len(s)
  PROVE  SubSeq(s, 1, n) = Append(SubSeq(s, 1, n - 1), s[n])
<1> DEFINE a == SubSeq(s, 1, n)
           b == SubSeq(s, 1, n - 1)
           c == Append(b, s[n])
<1>1. n \in Nat /\ n \in 0..Len(s) /\ n - 1 \in 0..Len(s) /\ s[n] \in S
  OBVIOUS
<1>2. a \in Seq(S) /\ Len(a) = n /\ \A i \in 1..n : a[i] = s[i]
  BY <1>1, PrefixTyped
<1>3. b \in Seq(S) /\ Len(b) = n - 1 /\ \A i \in 1..(n - 1) : b[i] = s[i]
  BY <1>1, PrefixTyped
<1>. HIDE DEF a, b
<1>4. c \in Seq(S) /\ Len(c) = n /\ \A i \in 1..n : c[i] = IF i = n THEN s[n] ELSE b[i]
  BY <1>1, <1>3
<1>. HIDE DEF c
<1>5. \A i \in 1..n : a[i] = c[i]
  BY <1>1, <1>2, <1>3, <1>4
<1>6. a = c
  BY <1>2, <1>4, <1>5
<1>. QED
  BY <1>6 DEF a, b, c

LEMMA PrefixAll ==
  ASSUME NEW S, NEW s \in Seq(S)
  PROVE  SubSeq(s, 1, Len(s)) = s /\ SubSeq(s, 1, 0) = <<>>
<1> DEFINE a == SubSeq(s, 1, Len(s))
           b == SubSeq(s, 1, 0)
<1>1. Len(s) \in 0..Len(s) /\ 0 \in 0..Len(s) /\ Len(s) \in Nat
  OBVIOUS
<1>2. a \in Seq(S) /\ Len(a) = Len(s) /\ \A i \in 1..Len(s) : a[i] = s[i]
  BY <1>1, PrefixTyped
<1>3. b \in Seq(S) /\ Len(b) = 0
  BY <1>1, PrefixTyped
<1>. HIDE DEF a, b
<1>4. a = s /\ b = <<>>
  BY <1>2, <1>3
<1>. QED
  BY <1>4 DEF a, b

LEMMA OneMore ==
  ASSUME NEW S, NEW s \in Seq(S), NEW x \in S
  PROVE  /\ Append(s, x) \in Seq(S) /\ Append(s, x) # <<>>
         /\ Len(Append(s, x)) = Len(s) + 1
<1>1. Append(s, x) \in Seq(S) /\ Len(Append(s, x)) = Len(s) + 1 /\ Len(s) \in Nat
  OBVIOUS
<1>. DEFINE a == Append(s, x)
<1>. HIDE DEF a
<1>2. Len(a) # 0 => a # <<>>
  OBVIOUS
<1>. QED
  BY <1>1, <1>2 DEF a

LEMMA PartGood ==
  ASSUME NEW t, GoodText(t), NEW part \in Words
  PROVE  GoodText(path_part(t, part))
<1>1. t.names \in Path /\ t.slash \in BOOLEAN /\ (t.slash \/ t.names # <<>>)
  BY GoodTextIs
<1>2. CASE part = "."
  BY <1>2 DEF path_part
<1>3. CASE part = ".."
  <2>1. CASE t.slash
    BY <1>3, <2>1 DEF path_part, path_parent
  <2>2. CASE ~t.slash
    <3>1. Front(t.names) \in Path
      <4>. DEFINE s == t.names
      <4>1. s \in Seq(Name) /\ Len(s) - 1 \in 0..Len(s)
        BY <1>1, <2>2 DEF Path
      <4>. HIDE DEF s
      <4>2. SubSeq(s, 1, Len(s) - 1) \in Seq(Name)
        BY <4>1, PrefixTyped
      <4>. QED
        BY <4>2 DEF Front, Path, s
    <3>2. GoodText(Text(Front(t.names), TRUE))
      BY <3>1, TextTyped
    <3>. QED
      BY <1>3, <2>2, <3>2 DEF path_part, path_parent
  <2>. QED
    BY <2>1, <2>2
<1>4. CASE part # "." /\ part # ".."
  <2>1. part \in Name
    BY <1>4 DEF Name
  <2>2. Append(t.names, part) \in Path /\ Append(t.names, part) # <<>>
    BY <1>1, <2>1, OneMore DEF Path
  <2>3. GoodText(Text(Append(t.names, part), FALSE))
    BY <2>2, TextTyped
  <2>. QED
    BY <1>4, <2>3 DEF path_part
<1>. QED
  BY <1>2, <1>3, <1>4

LEMMA WayGood ==
  ASSUME NEW from, GoodText(from), NEW parts \in Seq(Words), NEW n \in 0..Len(parts)
  PROVE  GoodText(Reached("text", from, parts, n))
<1> DEFINE Bad == {m \in Nat : m \in 0..Len(parts) /\ ~GoodText(Reached("text", from, parts, m))}
<1>0. Len(parts) \in Nat /\ n \in Nat
  OBVIOUS
<1>1. SUFFICES ASSUME Bad # {} PROVE FALSE
  <2>. SUFFICES ASSUME n \notin Bad PROVE GoodText(Reached("text", from, parts, n))
    OBVIOUS
  <2>. QED
    BY <1>0
<1>2. PICK m \in Bad : \A k \in Bad : m <= k
  BY <1>1, LeastNumber
<1>3. m \in 0..Len(parts) /\ m \in Nat /\ ~GoodText(Reached("text", from, parts, m))
  BY <1>2
<1>4. Reached("text", from, parts, 0) = from
  BY ReachedFirst
<1>5. m # 0
  BY <1>3, <1>4
<1>6. m \in 1..Len(parts) /\ m - 1 \in Nat /\ m - 1 \in 0..Len(parts) /\ ~(m <= m - 1)
  BY <1>0, <1>3, <1>5
<1>7. GoodText(Reached("text", from, parts, m - 1))
  <2>1. m - 1 \notin Bad
    <3>. HIDE DEF Bad
    <3>. QED
      BY <1>2, <1>6
  <2>. QED
    BY <1>6, <2>1
<1>8. Reached("text", from, parts, m) = path_part(Reached("text", from, parts, m - 1), parts[m])
  <2>1. Reached("text", from, parts, m) = Further("text", Reached("text", from, parts, m - 1), parts[m])
    BY <1>0, <1>6, ReachedNext
  <2>. QED
    BY <2>1 DEF Further
<1>9. parts[m] \in Words
  BY <1>6
<1>. QED
  BY <1>3, <1>7, <1>8, <1>9, PartGood

\* Names without a dot lead where they say.
LEMMA PlainNames ==
  ASSUME NEW names \in Path
  PROVE  /\ GoodText(path_append(RootText, names))
         /\ path_append(RootText, names).names = names
         /\ path_append(RootText, names).slash => names = <<>>
<1> DEFINE Leads(m) == Reached("text", RootText, names, m)
           Right(m) == /\ Leads(m).names = SubSeq(names, 1, m)
                       /\ Leads(m).slash => m = 0
           Bad == {m \in Nat : m \in 0..Len(names) /\ ~Right(m)}
<1>0. Len(names) \in Nat /\ names \in Seq(Name) /\ names \in Seq(Words)
  BY DEF Path, Name
<1>1. path_append(RootText, names) = Leads(Len(names))
  BY <1>0, TextReached
<1>2. SUFFICES ASSUME Bad # {} PROVE FALSE
  <2>. SUFFICES ASSUME Len(names) \notin Bad
                PROVE  /\ GoodText(path_append(RootText, names))
                       /\ path_append(RootText, names).names = names
                       /\ path_append(RootText, names).slash => names = <<>>
    OBVIOUS
  <2>1. Right(Len(names))
    BY <1>0
  <2>2. GoodText(Leads(Len(names)))
    BY <1>0, RootTyped, WayGood
  <2>3. SubSeq(names, 1, Len(names)) = names
    BY <1>0, PrefixAll
  <2>4. Len(names) = 0 => names = <<>>
    BY <1>0
  <2>. QED
    BY <1>1, <2>1, <2>2, <2>3, <2>4
<1>3. PICK m \in Bad : \A k \in Bad : m <= k
  BY <1>2, LeastNumber
<1>4. m \in 0..Len(names) /\ m \in Nat /\ ~Right(m)
  BY <1>3
<1>5. m # 0
  <2>1. Leads(0) = RootText
    BY <1>0, ReachedFirst
  <2>2. SubSeq(names, 1, 0) = <<>>
    BY <1>0, PrefixAll
  <2>. QED
    BY <1>4, <2>1, <2>2, RootTyped
<1> DEFINE k == m - 1
<1>6. m \in 1..Len(names) /\ m - 1 \in Nat /\ m - 1 \in 0..Len(names) /\ ~(m <= m - 1)
  BY <1>0, <1>4, <1>5
<1>7. Leads(m - 1).names = SubSeq(names, 1, m - 1)
  <2>1. m - 1 \notin Bad
    <3>. HIDE DEF Bad
    <3>. QED
      BY <1>3, <1>6
  <2>. QED
    BY <1>6, <2>1
<1>8. Leads(m) = path_part(Leads(m - 1), names[m])
  <2>1. Leads(m) = Further("text", Leads(m - 1), names[m])
    BY <1>0, <1>6, ReachedNext
  <2>. QED
    BY <2>1 DEF Further
<1>9. names[m] \in Name
  BY <1>0, <1>6
<1>10. Leads(m) = Text(Append(Leads(m - 1).names, names[m]), FALSE)
  BY <1>8, <1>9 DEF path_part, Name
<1>11. Leads(m).names = SubSeq(names, 1, m) /\ Leads(m).slash = FALSE
  <2>1. SubSeq(names, 1, m) = Append(SubSeq(names, 1, m - 1), names[m])
    BY <1>0, <1>6, PrefixNext
  <2>. QED
    BY <1>7, <1>10, <2>1 DEF Text
<1>. QED
  BY <1>4, <1>11

(***************************************************************************)
(* Where the text and the directory it means part ways: only where a `..'  *)
(* finds a text that ends in `/'.                                          *)
(***************************************************************************)
LEMMA PartAgrees ==
  ASSUME NEW t, GoodText(t), NEW part,
         part = ".." => ~t.slash \/ t.names = <<>>
  PROVE  /\ path_part(t, part).names = Enter(t.names, part)
         /\ path_part(t, part).slash =>
              \/ part = ".."
              \/ part = "." /\ t.slash
<1>1. t.slash \/ t.names # <<>>
  BY GoodTextIs
<1>2. CASE part = "."
  BY <1>2 DEF path_part, Enter
<1>3. CASE part = ".."
  <2>1. CASE t.slash
    BY <1>3, <2>1 DEF path_part, path_parent, Enter
  <2>2. CASE ~t.slash
    <3>1. path_part(t, part) = Text(Front(t.names), TRUE)
      BY <1>3, <2>2 DEF path_part, path_parent
    <3>2. Enter(t.names, part) = Front(t.names)
      BY <1>1, <1>3, <2>2 DEF Enter
    <3>. QED
      BY <1>3, <3>1, <3>2 DEF Text
  <2>. QED
    BY <2>1, <2>2
<1>4. CASE part # "." /\ part # ".."
  BY <1>4 DEF path_part, Enter, Text
<1>. QED
  BY <1>2, <1>3, <1>4

LEMMA WaysAgree ==
  ASSUME NEW from, GoodText(from), from.slash => from.names = <<>>,
         NEW parts \in Seq(Words), ~Climbs(parts)
  PROVE  Reached("text", from, parts, Len(parts)).names = Reached("dir", from.names, parts, Len(parts))
<1> DEFINE Leads(m)  == Reached("text", from, parts, m)
           Stands(m) == Reached("dir", from.names, parts, m)
           Behind(m) == \E i \in 1..m : parts[i] = ".." /\ \A n \in (i + 1)..m : parts[n] = "."
           Right(m)  == /\ Leads(m).names = Stands(m)
                        /\ Leads(m).slash => Leads(m).names = <<>> \/ Behind(m)
           Bad       == {m \in Nat : m \in 0..Len(parts) /\ ~Right(m)}
<1>0. Len(parts) \in Nat
  OBVIOUS
<1>1. SUFFICES ASSUME Bad # {} PROVE FALSE
  <2>. SUFFICES ASSUME Len(parts) \notin Bad PROVE Leads(Len(parts)).names = Stands(Len(parts))
    OBVIOUS
  <2>. QED
    BY <1>0
<1>2. PICK m \in Bad : \A k \in Bad : m <= k
  BY <1>1, LeastNumber
<1>3. m \in 0..Len(parts) /\ m \in Nat /\ ~Right(m)
  BY <1>2
<1>4. m # 0
  <2>1. Leads(0) = from /\ Stands(0) = from.names
    BY <1>0, ReachedFirst
  <2>. QED
    BY <1>3, <2>1
<1> DEFINE k == m - 1
<1>5. m \in 1..Len(parts) /\ k \in Nat /\ k \in 0..Len(parts) /\ ~(m <= k)
  BY <1>0, <1>3, <1>4
<1>6. Right(k)
  <2>1. k \notin Bad
    <3>. HIDE DEF Bad, k
    <3>. QED
      BY <1>2, <1>5
  <2>. QED
    BY <1>5, <2>1
<1> DEFINE t == Leads(k)
           part == parts[m]
<1>7. Leads(m) = path_part(t, part) /\ Stands(m) = Enter(Stands(k), part)
  <2>1. /\ Leads(m) = Further("text", t, part)
        /\ Stands(m) = Further("dir", Stands(k), part)
    BY <1>0, <1>5, ReachedNext
  <2>. QED
    BY <2>1 DEF Further
<1>8. GoodText(t)
  BY <1>5, WayGood
<1>9. Behind(k) /\ part = ".." => Climbs(parts)
  <2>. SUFFICES ASSUME NEW i \in 1..k, parts[i] = "..", \A n \in (i + 1)..k : parts[n] = ".", part = ".."
                PROVE  Climbs(parts)
    OBVIOUS
  <2>1. DOMAIN parts = 1..Len(parts)
    OBVIOUS
  <2>2. i \in 1..Len(parts) /\ m \in 1..Len(parts) /\ i < m
    BY <1>0, <1>5
  <2>. QED
    BY <2>1, <2>2 DEF Climbs
<1>10. part = ".." => ~t.slash \/ t.names = <<>>
  BY <1>6, <1>9
<1>11. /\ Leads(m).names = Stands(m)
       /\ Leads(m).slash => part = ".." \/ (part = "." /\ t.slash)
  BY <1>6, <1>7, <1>8, <1>10, PartAgrees
<1>12. part = ".." => Behind(m)
  <2>1. m \in 1..m /\ \A n \in (m + 1)..m : parts[n] = "."
    BY <1>5
  <2>. QED
    BY <2>1
<1>13. part = "." /\ Behind(k) => Behind(m)
  <2>. SUFFICES ASSUME NEW i \in 1..k, parts[i] = "..", \A n \in (i + 1)..k : parts[n] = ".", part = "."
                PROVE  Behind(m)
    OBVIOUS
  <2>1. i \in 1..m /\ \A n \in (i + 1)..m : n \in (i + 1)..k \/ n = m
    BY <1>5
  <2>. QED
    BY <2>1
<1>14. part = "." => Leads(m) = t
  BY <1>7 DEF path_part
<1>15. Leads(m).slash => Leads(m).names = <<>> \/ Behind(m)
  <2>1. CASE part = ".."
    BY <1>12, <2>1
  <2>2. CASE part = "." /\ t.slash
    <3>1. t.names = <<>> \/ Behind(k)
      BY <1>6, <2>2
    <3>. QED
      BY <1>13, <1>14, <2>2, <3>1
  <2>. QED
    BY <1>11, <2>1, <2>2
<1>. QED
  BY <1>3, <1>11, <1>15

\* Wherever the shell is and however its current directory is written, resolve_path makes of
\* a word in which no `..' follows another the path that the word means: lib/path.c works on
\* the characters of the text, the meaning on the names of the directories.
THEOREM ResolvedIs ==
  ASSUME NEW cwd_, GoodText(cwd_), NEW input, input.abs \in BOOLEAN, input.parts \in Seq(Words)
  PROVE  /\ GoodText(resolve_path(cwd_, input))
         /\ ~Climbs(input.parts) => resolve_path(cwd_, input).names = Meant(cwd_, input)
<1> DEFINE from  == IF input.abs THEN RootText ELSE path_append(RootText, cwd_.names)
           parts == input.parts
<1>0. Len(parts) \in Nat /\ Len(parts) \in 0..Len(parts)
  OBVIOUS
<1>1. /\ GoodText(from) /\ (from.slash => from.names = <<>>)
      /\ from.names = IF input.abs THEN <<>> ELSE cwd_.names
  <2>1. CASE input.abs
    BY <2>1, RootTyped
  <2>2. CASE ~input.abs
    <3>1. cwd_.names \in Path
      BY GoodTextIs
    <3>. QED
      BY <2>2, <3>1, PlainNames
  <2>. QED
    BY <2>1, <2>2
<1>2. resolve_path(cwd_, input) = Reached("text", from, parts, Len(parts))
  BY TextReached DEF resolve_path
<1>3. Meant(cwd_, input) = Reached("dir", from.names, parts, Len(parts))
  BY <1>1, DirReached
<1>. HIDE DEF from
<1>4. GoodText(Reached("text", from, parts, Len(parts)))
  BY <1>0, <1>1, WayGood
<1>5. ~Climbs(parts) => Reached("text", from, parts, Len(parts)).names = Reached("dir", from.names, parts, Len(parts))
  BY <1>1, WaysAgree
<1>. QED
  BY <1>2, <1>3, <1>4, <1>5

(***************************************************************************)
(* A tree of files: what is there has its directory there.                 *)
(***************************************************************************)
Pieces == Settings \cup UNION {Range(t) : t \in Texts}
Node   == [dir : BOOLEAN, read : [r : {"OK"}, bytes : Seq(Pieces)]]

DirIn(t, p)  == p = <<>> \/ (p \in DOMAIN t /\ t[p].dir)
FileIn(t, p) == p \in DOMAIN t /\ ~t[p].dir

GoodTree(t) ==
  /\ DOMAIN t \subseteq Path \ {<<>>}
  /\ \A p \in DOMAIN t : t[p] \in Node
  /\ \A p \in DOMAIN t : DirIn(t, Store!Parent(p))

Same(t, u, p) == (p \in DOMAIN t <=> p \in DOMAIN u) /\ (p \in DOMAIN t => u[p] = t[p])

LEMMA DirsAre ==
  \A p : /\ Store!IsDir(p) <=> DirIn(tree, p)
         /\ Store!IsFile(p) <=> FileIn(tree, p)
         /\ Store!Exists(p) <=> p \in DOMAIN tree
         /\ IsDirectory(p) <=> p \in DOMAIN tree /\ DirIn(tree, p)
         /\ Opens(p) <=> p \in DOMAIN tree
  BY DEF DirIn, FileIn, Store!IsDir, Store!IsFile, Store!Exists, IsDirectory, Opens

LEMMA ParentTyped ==
  ASSUME NEW p \in Path, p # <<>>
  PROVE  /\ Store!Parent(p) \in Path /\ Len(Store!Parent(p)) = Len(p) - 1 /\ Len(p) \in Nat \ {0}
         /\ \A i \in 1..(Len(p) - 1) : Store!Parent(p)[i] = p[i]
<1>1. p \in Seq(Name) /\ Len(p) \in Nat \ {0} /\ Len(p) - 1 \in 0..Len(p)
  BY DEF Path
<1>. QED
  BY <1>1, PrefixTyped DEF Store!Parent, Path

LEMMA PrefixParent ==
  ASSUME NEW p \in Path, NEW n, n \in 1..Len(p)
  PROVE  /\ SubSeq(p, 1, n) \in Path /\ SubSeq(p, 1, n) # <<>>
         /\ Store!Parent(SubSeq(p, 1, n)) = SubSeq(p, 1, n - 1)
<1> DEFINE a == SubSeq(p, 1, n)
           b == SubSeq(p, 1, n - 1)
           c == Store!Parent(a)
<1>1. p \in Seq(Name) /\ n \in 0..Len(p) /\ n - 1 \in 0..Len(p) /\ n \in Nat /\ n # 0
  BY DEF Path
<1>2. a \in Seq(Name) /\ Len(a) = n /\ \A i \in 1..n : a[i] = p[i]
  BY <1>1, PrefixTyped
<1>3. b \in Seq(Name) /\ Len(b) = n - 1 /\ \A i \in 1..(n - 1) : b[i] = p[i]
  BY <1>1, PrefixTyped
<1>. HIDE DEF a, b
<1>4. a \in Path /\ a # <<>>
  BY <1>1, <1>2 DEF Path
<1>5. c \in Path /\ Len(c) = n - 1 /\ \A i \in 1..(n - 1) : c[i] = a[i]
  BY <1>2, <1>4, ParentTyped
<1>. HIDE DEF c
<1>6. c \in Seq(Name)
  BY <1>5 DEF Path
<1>7. \A i \in 1..(n - 1) : c[i] = b[i]
  BY <1>1, <1>2, <1>3, <1>5
<1>8. c = b
  BY <1>3, <1>5, <1>6, <1>7
<1>. QED
  BY <1>4, <1>8 DEF a, b, c

\* All that is on the way to something that is there is a directory.
LEMMA WayStands ==
  ASSUME NEW t, GoodTree(t), NEW p \in DOMAIN t, NEW n \in Nat, n < Len(p)
  PROVE  DirIn(t, SubSeq(p, 1, n))
<1> DEFINE l == Len(p)
           Bad == {k \in Nat : k >= 1 /\ k <= l /\ ~DirIn(t, SubSeq(p, 1, l - k))}
<1>0. p \in Path /\ p # <<>> /\ p \in Seq(Name) /\ l \in Nat
  BY DEF GoodTree, Path
<1>. HIDE DEF l
<1>1. SUFFICES ASSUME Bad # {} PROVE FALSE
  <2> DEFINE k == l - n
  <2>1. k \in Nat /\ k >= 1 /\ k <= l /\ l - k = n
    BY <1>0 DEF l
  <2>. HIDE DEF k
  <2>2. k \notin Bad => DirIn(t, SubSeq(p, 1, l - k))
    BY <2>1
  <2>. SUFFICES ASSUME Bad = {} PROVE DirIn(t, SubSeq(p, 1, n))
    OBVIOUS
  <2>. HIDE DEF Bad
  <2>. QED
    BY <2>1, <2>2
<1>2. PICK k \in Bad : \A j \in Bad : k <= j
  BY <1>1, LeastNumber
<1>3. k \in Nat /\ k >= 1 /\ k <= l /\ ~DirIn(t, SubSeq(p, 1, l - k))
  BY <1>2
<1> DEFINE j == k - 1
           m == l - j
<1>4. /\ j \in Nat /\ j <= l /\ ~(k <= j) /\ l - k = m - 1 /\ m \in 1..Len(p)
      /\ j = 0 => m = Len(p)
  BY <1>0, <1>3 DEF l
<1>. HIDE DEF j
<1>5. SubSeq(p, 1, m) \in DOMAIN t
  <2>1. CASE j = 0
    BY <1>0, <1>4, <2>1, PrefixAll
  <2>2. CASE j # 0
    <3>1. j \notin Bad
      <4>. HIDE DEF Bad
      <4>. QED
        BY <1>2, <1>4
    <3>2. DirIn(t, SubSeq(p, 1, l - j))
      BY <1>4, <2>2, <3>1
    <3>3. SubSeq(p, 1, m) # <<>>
      BY <1>0, <1>4, PrefixParent
    <3>. QED
      BY <3>2, <3>3 DEF DirIn
  <2>. QED
    BY <2>1, <2>2
<1>. HIDE DEF m
<1>6. Store!Parent(SubSeq(p, 1, m)) = SubSeq(p, 1, l - k)
  BY <1>0, <1>4, PrefixParent
<1>. QED
  BY <1>3, <1>5, <1>6 DEF GoodTree

(***************************************************************************)
(* Which paths lead through which.                                         *)
(***************************************************************************)
LEMMA InsideIs ==
  ASSUME NEW x \in Path, NEW p \in Path
  PROVE  Store!Inside(x, p) <=> (Len(p) <= Len(x) /\ \A i \in 1..Len(p) : x[i] = p[i])
<1>1. x \in Seq(Name) /\ p \in Seq(Name) /\ Len(p) \in Nat /\ Len(x) \in Nat
  BY DEF Path
<1> DEFINE a == SubSeq(x, 1, Len(p))
<1>2. Len(p) <= Len(x) =>
         a \in Seq(Name) /\ Len(a) = Len(p) /\ \A i \in 1..Len(p) : a[i] = x[i]
  BY <1>1, PrefixTyped
<1>3. Store!Inside(x, p) <=> Len(p) <= Len(x) /\ a = p
  BY <1>1 DEF Store!Inside
<1>. HIDE DEF a
<1>4. Len(p) <= Len(x) => (a = p <=> \A i \in 1..Len(p) : x[i] = p[i])
  BY <1>1, <1>2
<1>. QED
  BY <1>3, <1>4

LEMMA InsideItself ==
  ASSUME NEW p \in Path
  PROVE  Store!Inside(p, p)
<1>1. Len(p) \in Nat
  BY DEF Path
<1>. QED
  BY <1>1, InsideIs

LEMMA InsideParent ==
  ASSUME NEW x \in Path, NEW p \in Path, x # <<>>
  PROVE  /\ Store!Inside(Store!Parent(x), p) => Store!Inside(x, p)
         /\ Store!Inside(x, p) /\ x # p => Store!Inside(Store!Parent(x), p)
         /\ x # Store!Parent(x)
<1> DEFINE y == Store!Parent(x)
<1>1. /\ y \in Path /\ Len(y) = Len(x) - 1 /\ Len(x) \in Nat \ {0}
      /\ \A i \in 1..(Len(x) - 1) : y[i] = x[i]
  BY ParentTyped
<1>2. Len(p) \in Nat /\ p \in Seq(Name) /\ x \in Seq(Name)
  BY DEF Path
<1>. HIDE DEF y
<1>3. Store!Inside(y, p) <=> (Len(p) <= Len(y) /\ \A i \in 1..Len(p) : y[i] = p[i])
  BY <1>1, InsideIs
<1>4. Store!Inside(x, p) <=> (Len(p) <= Len(x) /\ \A i \in 1..Len(p) : x[i] = p[i])
  BY InsideIs
<1>5. Store!Inside(y, p) => Store!Inside(x, p)
  BY <1>1, <1>2, <1>3, <1>4
<1>6. ASSUME Store!Inside(x, p), x # p PROVE Store!Inside(y, p)
  <2>1. Len(p) # Len(x)
    BY <1>2, <1>4, <1>6
  <2>2. Len(p) <= Len(y) /\ \A i \in 1..Len(p) : y[i] = p[i]
    BY <1>1, <1>2, <1>4, <1>6, <2>1
  <2>. QED
    BY <1>3, <2>2
<1>7. x # y
  BY <1>1
<1>. QED
  BY <1>5, <1>6, <1>7 DEF y

\* The path that x has when what is at p comes to be at q.
Onto(x, p, q)    == q \o SubSeq(x, Len(p) + 1, Len(x))
Brought(x, p, q) == IF Store!Inside(x, p) THEN Onto(x, p, q) ELSE x

LEMMA RenamedIs ==
  \A p, q : Store!Renamed(p, q) = [x \in {Brought(y, p, q) : y \in DOMAIN tree} |-> tree[Brought(x, q, p)]]
  BY DEF Store!Renamed, Brought, Onto

\* What the proofs use of it: q, then what of x is below p.
Grafted(a, x, p, q) ==
  /\ a \in Path /\ Len(a) = Len(q) + Len(x) - Len(p)
  /\ \A i \in 1..Len(q) : a[i] = q[i]
  /\ \A i \in (Len(p) + 1)..Len(x) : a[Len(q) + i - Len(p)] = x[i]

LEMMA OntoIs ==
  ASSUME NEW x \in Path, NEW p \in Path, NEW q \in Path, Store!Inside(x, p)
  PROVE  Grafted(Onto(x, p, q), x, p, q)
<1> DEFINE r == SubSeq(x, Len(p) + 1, Len(x))
           l == Len(p)
           m == Len(x)
           a == q \o r
<1>1. x \in Seq(Name) /\ q \in Seq(Name) /\ l \in Nat /\ m \in Nat /\ l <= m /\ Len(q) \in Nat /\ m = Len(x)
  BY InsideIs DEF Path
<1>. HIDE DEF l, m
<1>2. r \in Seq(Name) /\ Len(r) = m - l /\ \A i \in 1..(m - l) : r[i] = x[l + i]
  BY <1>1 DEF l, m
<1>. HIDE DEF r
<1>3. /\ a \in Seq(Name) /\ Len(a) = Len(q) + Len(r)
      /\ \A i \in 1..(Len(q) + Len(r)) : a[i] = IF i <= Len(q) THEN q[i] ELSE r[i - Len(q)]
  <2>1. q \in Seq(Name) /\ r \in Seq(Name)
    BY <1>1, <1>2
  <2>. QED
    BY <2>1, ConcatProperties DEF a
<1>. HIDE DEF a
<1>4. Len(a) = Len(q) + m - l /\ \A i \in 1..Len(q) : a[i] = q[i]
  BY <1>1, <1>2, <1>3
<1>5. ASSUME NEW i \in (l + 1)..m PROVE a[Len(q) + i - l] = x[i]
  <2> DEFINE j == Len(q) + i - l
             k == i - l
  <2>1. /\ j \in 1..(Len(q) + Len(r)) /\ ~(j <= Len(q)) /\ j - Len(q) = k
        /\ k \in 1..(m - l) /\ l + k = i
    BY <1>1, <1>2
  <2>. HIDE DEF j, k
  <2>2. a[j] = r[k] /\ r[k] = x[l + k]
    BY <1>2, <1>3, <2>1
  <2>. QED
    BY <2>1, <2>2 DEF j
<1>6. a = Onto(x, p, q)
  BY DEF a, r, Onto
<1>. QED
  BY <1>3, <1>4, <1>5, <1>6 DEF Grafted, Path, l, m

LEMMA OntoInside ==
  ASSUME NEW x \in Path, NEW p \in Path, NEW q \in Path, Store!Inside(x, p)
  PROVE  /\ Store!Inside(Onto(x, p, q), q)
         /\ Onto(Onto(x, p, q), q, p) = x
<1> DEFINE a == Onto(x, p, q)
           b == Onto(a, q, p)
<1>1. /\ a \in Path /\ Len(a) = Len(q) + Len(x) - Len(p)
      /\ \A i \in 1..Len(q) : a[i] = q[i]
      /\ \A i \in (Len(p) + 1)..Len(x) : a[Len(q) + i - Len(p)] = x[i]
  <2>1. Grafted(a, x, p, q)
    BY OntoIs
  <2>. QED
    BY <2>1 DEF Grafted
<1>2. /\ Len(p) \in Nat /\ Len(q) \in Nat /\ Len(x) \in Nat
      /\ Len(p) <= Len(x) /\ \A i \in 1..Len(p) : x[i] = p[i]
      /\ x \in Seq(Name)
  BY InsideIs DEF Path
<1>. HIDE DEF a
<1>3. Store!Inside(a, q)
  BY <1>1, <1>2, InsideIs
<1>4. /\ b \in Path /\ Len(b) = Len(p) + Len(a) - Len(q)
      /\ \A i \in 1..Len(p) : b[i] = p[i]
      /\ \A i \in (Len(q) + 1)..Len(a) : b[Len(p) + i - Len(q)] = a[i]
  <2>1. Grafted(b, a, q, p)
    BY <1>1, <1>3, OntoIs
  <2>. QED
    BY <2>1 DEF Grafted
<1>. HIDE DEF b
<1>5. Len(b) = Len(x) /\ b \in Seq(Name)
  BY <1>1, <1>2, <1>4 DEF Path
<1>6. ASSUME NEW i \in 1..Len(x) PROVE b[i] = x[i]
  <2>1. CASE i <= Len(p)
    BY <1>2, <1>4, <2>1
  <2>2. CASE ~(i <= Len(p))
    <3> DEFINE j == Len(q) + i - Len(p)
    <3>1. i \in (Len(p) + 1)..Len(x) /\ j \in (Len(q) + 1)..Len(a) /\ Len(p) + j - Len(q) = i
      BY <1>1, <1>2, <2>2
    <3>. HIDE DEF j
    <3>2. b[Len(p) + j - Len(q)] = a[j]
      BY <1>4, <3>1
    <3>3. a[j] = x[i]
      BY <1>1, <3>1 DEF j
    <3>. QED
      BY <3>1, <3>2, <3>3
  <2>. QED
    BY <2>1, <2>2
<1>7. b = x
  BY <1>2, <1>5, <1>6
<1>. QED
  BY <1>3, <1>7 DEF a, b

LEMMA OntoItself ==
  ASSUME NEW p \in Path, NEW q \in Path
  PROVE  Onto(p, p, q) = q
<1> DEFINE a == Onto(p, p, q)
<1>1. /\ a \in Path /\ Len(a) = Len(q) + Len(p) - Len(p)
      /\ \A i \in 1..Len(q) : a[i] = q[i]
  <2>1. Grafted(a, p, p, q)
    BY InsideItself, OntoIs
  <2>. QED
    BY <2>1 DEF Grafted
<1>2. Len(p) \in Nat /\ Len(q) \in Nat /\ q \in Seq(Name)
  BY DEF Path
<1>. HIDE DEF a
<1>3. a \in Seq(Name) /\ Len(a) = Len(q)
  BY <1>1, <1>2 DEF Path
<1>4. a = q
  BY <1>1, <1>2, <1>3
<1>. QED
  BY <1>4 DEF a

LEMMA OntoParent ==
  ASSUME NEW x \in Path, NEW p \in Path, NEW q \in Path, Store!Inside(x, p), x # p, x # <<>>
  PROVE  /\ Onto(x, p, q) # <<>>
         /\ Store!Parent(Onto(x, p, q)) = Onto(Store!Parent(x), p, q)
<1> DEFINE y == Store!Parent(x)
           a == Onto(x, p, q)
           b == Store!Parent(a)
           c == Onto(y, p, q)
<1>1. /\ y \in Path /\ Len(y) = Len(x) - 1 /\ Len(x) \in Nat \ {0}
      /\ \A i \in 1..(Len(x) - 1) : y[i] = x[i]
  BY ParentTyped
<1>2. Store!Inside(y, p)
  BY InsideParent
<1>3. /\ Len(p) \in Nat /\ Len(q) \in Nat
  BY DEF Path
<1>4. /\ a \in Path /\ Len(a) = Len(q) + Len(x) - Len(p)
      /\ \A i \in 1..Len(q) : a[i] = q[i]
      /\ \A i \in (Len(p) + 1)..Len(x) : a[Len(q) + i - Len(p)] = x[i]
  <2>1. Grafted(a, x, p, q)
    BY OntoIs
  <2>. QED
    BY <2>1 DEF Grafted
<1>. HIDE DEF y, a
<1>5. Len(p) <= Len(y)
  BY <1>1, <1>2, InsideIs
<1>6. /\ c \in Path /\ Len(c) = Len(q) + Len(y) - Len(p)
      /\ \A i \in 1..Len(q) : c[i] = q[i]
      /\ \A i \in (Len(p) + 1)..Len(y) : c[Len(q) + i - Len(p)] = y[i]
  <2>1. Grafted(c, y, p, q)
    BY <1>1, <1>2, OntoIs
  <2>. QED
    BY <2>1 DEF Grafted
<1>. HIDE DEF c
<1>7. a # <<>>
  BY <1>1, <1>3, <1>4, <1>5
<1>8. b \in Path /\ Len(b) = Len(a) - 1 /\ \A i \in 1..(Len(a) - 1) : b[i] = a[i]
  BY <1>4, <1>7, ParentTyped
<1>. HIDE DEF b
<1>9. b \in Seq(Name) /\ c \in Seq(Name) /\ Len(b) = Len(c)
  BY <1>1, <1>3, <1>4, <1>6, <1>8 DEF Path
<1>10. ASSUME NEW i \in 1..Len(c) PROVE b[i] = c[i]
  <2>1. i \in 1..(Len(a) - 1) /\ b[i] = a[i]
    BY <1>8, <1>9
  <2>2. CASE i <= Len(q)
    BY <1>3, <1>4, <1>6, <2>1, <2>2
  <2>3. CASE ~(i <= Len(q))
    <3> DEFINE j == i - Len(q) + Len(p)
    <3>1. /\ j \in (Len(p) + 1)..Len(y) /\ j \in (Len(p) + 1)..Len(x) /\ j \in 1..(Len(x) - 1)
          /\ Len(q) + j - Len(p) = i
      BY <1>1, <1>3, <1>4, <1>6, <2>1, <2>3
    <3>. HIDE DEF j
    <3>2. a[Len(q) + j - Len(p)] = x[j] /\ c[Len(q) + j - Len(p)] = y[j] /\ y[j] = x[j]
      BY <1>1, <1>4, <1>6, <3>1
    <3>. QED
      BY <2>1, <3>1, <3>2
  <2>. QED
    BY <2>2, <2>3
<1>11. b = c
  BY <1>9, <1>10
<1>. QED
  BY <1>7, <1>11 DEF a, b, c, y

(***************************************************************************)
(* What the operations of the store leave.                                 *)
(***************************************************************************)
LEMMA AddKeeps ==
  ASSUME NEW p, NEW node
  PROVE  /\ DOMAIN Store!Add(p, node) = DOMAIN tree \cup {p}
         /\ Store!Add(p, node)[p] = node
         /\ \A x : x # p => Same(tree, Store!Add(p, node), x)
  BY DEF Store!Add, Same

LEMMA AddGood ==
  ASSUME NEW p \in Path, p # <<>>, NEW node \in Node, GoodTree(tree), DirIn(tree, Store!Parent(p)),
         p \in DOMAIN tree => tree[p].dir = node.dir
  PROVE  GoodTree(Store!Add(p, node))
<1> DEFINE u == Store!Add(p, node)
<1>1. DOMAIN u = DOMAIN tree \cup {p} /\ u[p] = node /\ \A x : x # p => Same(tree, u, x)
  BY AddKeeps
<1>. HIDE DEF u
<1>2. DOMAIN u \subseteq Path \ {<<>>}
  BY <1>1 DEF GoodTree
<1>3. ASSUME NEW x \in DOMAIN u PROVE u[x] \in Node
  BY <1>1, <1>3 DEF GoodTree, Same
<1>4. \A x : DirIn(tree, x) => DirIn(u, x)
  BY <1>1 DEF DirIn, Same
<1>5. ASSUME NEW x \in DOMAIN u PROVE DirIn(u, Store!Parent(x))
  BY <1>1, <1>4 DEF GoodTree
<1>. QED
  BY <1>2, <1>3, <1>5 DEF GoodTree, u

LEMMA WithoutKeeps ==
  ASSUME NEW S
  PROVE  /\ DOMAIN Store!Without(S) = DOMAIN tree \ S
         /\ \A x : x \notin S => Same(tree, Store!Without(S), x)
  BY DEF Store!Without, Same

LEMMA WithoutGood ==
  ASSUME NEW S, GoodTree(tree), \A x \in DOMAIN tree : Store!Parent(x) \in S => x \in S, <<>> \notin S
  PROVE  GoodTree(Store!Without(S))
<1> DEFINE u == Store!Without(S)
<1>1. DOMAIN u = DOMAIN tree \ S /\ \A x : x \notin S => Same(tree, u, x)
  BY WithoutKeeps
<1>. HIDE DEF u
<1>2. DOMAIN u \subseteq Path \ {<<>>}
  BY <1>1 DEF GoodTree
<1>3. ASSUME NEW x \in DOMAIN u PROVE u[x] \in Node
  BY <1>1, <1>3 DEF GoodTree, Same
<1>4. \A x : DirIn(tree, x) /\ x \notin S => DirIn(u, x)
  BY <1>1 DEF DirIn, Same
<1>5. ASSUME NEW x \in DOMAIN u PROVE DirIn(u, Store!Parent(x))
  BY <1>1, <1>4 DEF GoodTree
<1>. QED
  BY <1>2, <1>3, <1>5 DEF GoodTree, u

\* Nothing is inside what is not there.
LEMMA NothingInside ==
  ASSUME NEW q \in Path, q # <<>>, q \notin DOMAIN tree, GoodTree(tree), NEW y \in DOMAIN tree
  PROVE  ~Store!Inside(y, q)
<1>. SUFFICES ASSUME Store!Inside(y, q) PROVE FALSE
  OBVIOUS
<1> DEFINE n == Len(q)
<1>1. y \in Path /\ n \in Nat /\ n # 0 /\ n <= Len(y) /\ y \in Seq(Name) /\ SubSeq(y, 1, n) = q
  BY DEF GoodTree, Store!Inside, Path
<1>2. n # Len(y)
  BY <1>1, PrefixAll
<1>. HIDE DEF n
<1>3. Len(y) \in Nat
  BY <1>1
<1>4. DirIn(tree, SubSeq(y, 1, n))
  BY <1>1, <1>2, <1>3, WayStands
<1>. QED
  BY <1>1, <1>4 DEF DirIn

\* Everything is where it was brought to.
Landed(u, p, q) ==
  /\ DOMAIN u = {Brought(y, p, q) : y \in DOMAIN tree}
  /\ \A y \in DOMAIN tree : u[Brought(y, p, q)] = tree[y]

LEMMA RenamedKeeps ==
  ASSUME GoodTree(tree), NEW p \in DOMAIN tree, NEW q \in Path, q # <<>>, q \notin DOMAIN tree,
         NEW u, u = Store!Renamed(p, q)
  PROVE  /\ Landed(u, p, q)
         /\ \A x \in Path : ~Store!Inside(x, p) /\ ~Store!Inside(x, q) => Same(tree, u, x)
<1>0. p \in Path /\ DOMAIN tree \subseteq Path
  BY DEF GoodTree
<1>1. /\ DOMAIN u = {Brought(y, p, q) : y \in DOMAIN tree}
      /\ \A x \in DOMAIN u : u[x] = tree[Brought(x, q, p)]
  BY RenamedIs
<1>2. ASSUME NEW y \in DOMAIN tree
      PROVE  Brought(y, p, q) \in DOMAIN u /\ u[Brought(y, p, q)] = tree[y]
  <2>1. Brought(y, p, q) \in DOMAIN u /\ y \in Path
    BY <1>0, <1>1
  <2>2. Brought(Brought(y, p, q), q, p) = y
    <3>1. CASE Store!Inside(y, p)
      <4>1. Store!Inside(Onto(y, p, q), q) /\ Onto(Onto(y, p, q), q, p) = y
        BY <1>0, <2>1, <3>1, OntoInside
      <4>. QED
        BY <3>1, <4>1 DEF Brought
    <3>2. CASE ~Store!Inside(y, p)
      BY <3>2, NothingInside DEF Brought
    <3>. QED
      BY <3>1, <3>2
  <2>. QED
    BY <1>1, <2>1, <2>2
<1>3. ASSUME NEW x \in Path, ~Store!Inside(x, p), ~Store!Inside(x, q)
      PROVE  Same(tree, u, x)
  <2>1. ASSUME x \in DOMAIN tree PROVE x \in DOMAIN u /\ u[x] = tree[x]
    <3>1. Brought(x, p, q) = x
      BY <1>3 DEF Brought
    <3>. QED
      BY <1>2, <2>1, <3>1
  <2>2. ASSUME x \in DOMAIN u PROVE x \in DOMAIN tree
    <3>1. PICK y \in DOMAIN tree : x = Brought(y, p, q)
      BY <1>1, <2>2
    <3>2. y \in Path
      BY <1>0
    <3>3. Store!Inside(y, p) => Store!Inside(x, q)
      BY <1>0, <3>1, <3>2, OntoInside DEF Brought
    <3>. QED
      BY <1>3, <3>1, <3>3 DEF Brought
  <2>. QED
    BY <2>1, <2>2 DEF Same
<1>4. Landed(u, p, q)
  BY <1>1, <1>2 DEF Landed
<1>. QED
  BY <1>3, <1>4

LEMMA RenamedGood ==
  ASSUME GoodTree(tree), NEW p \in DOMAIN tree, NEW q \in Path, q # <<>>, q \notin DOMAIN tree,
         ~Store!Inside(q, p), DirIn(tree, Store!Parent(q)), NEW u, u = Store!Renamed(p, q)
  PROVE  GoodTree(u)
<1>0. p \in Path /\ p # <<>> /\ DOMAIN tree \subseteq Path \ {<<>>}
  BY DEF GoodTree
<1>1. /\ DOMAIN u = {Brought(y, p, q) : y \in DOMAIN tree}
      /\ \A y \in DOMAIN tree : u[Brought(y, p, q)] = tree[y]
  <2>1. Landed(u, p, q)
    BY RenamedKeeps
  <2>. QED
    BY <2>1 DEF Landed
<1>2. ASSUME NEW y, DirIn(tree, y), ~Store!Inside(y, p)
      PROVE  DirIn(u, y)
  BY <1>1, <1>2 DEF DirIn, Brought
<1>3. ASSUME NEW y \in DOMAIN tree
      PROVE  /\ Brought(y, p, q) \in Path \ {<<>>} /\ tree[y] \in Node
             /\ DirIn(u, Store!Parent(Brought(y, p, q)))
  <2>0. y \in Path /\ y # <<>> /\ tree[y] \in Node /\ DirIn(tree, Store!Parent(y))
    BY DEF GoodTree
  <2>1. CASE ~Store!Inside(y, p)
    <3>1. ~Store!Inside(Store!Parent(y), p)
      BY <1>0, <2>0, <2>1, InsideParent
    <3>. QED
      BY <1>2, <2>0, <2>1, <3>1 DEF Brought
  <2>2. CASE y = p
    <3>1. Brought(y, p, q) = q
      BY <1>0, <2>2, InsideItself, OntoItself DEF Brought
    <3>2. ~Store!Inside(Store!Parent(q), p)
      BY <1>0, InsideParent
    <3>. QED
      BY <1>2, <2>0, <3>1, <3>2
  <2>3. CASE Store!Inside(y, p) /\ y # p
    <3> DEFINE z == Store!Parent(y)
    <3>1. Brought(y, p, q) = Onto(y, p, q) /\ Onto(y, p, q) \in Path
      BY <1>0, <2>0, <2>3, OntoIs DEF Grafted, Brought
    <3>2. Onto(y, p, q) # <<>> /\ Store!Parent(Onto(y, p, q)) = Onto(z, p, q)
      BY <1>0, <2>0, <2>3, OntoParent
    <3>3. Store!Inside(z, p) /\ z \in Path
      BY <1>0, <2>0, <2>3, InsideParent, ParentTyped
    <3>. HIDE DEF z
    <3>4. Brought(z, p, q) = Onto(z, p, q)
      BY <3>3 DEF Brought
    <3>5. z # <<>>
      <4>1. Len(p) \in Nat \ {0} /\ Len(z) >= Len(p)
        BY <1>0, <3>3, InsideIs DEF Path
      <4>. QED
        BY <4>1
    <3>6. z \in DOMAIN tree /\ tree[z].dir
      BY <2>0, <3>5 DEF DirIn, z
    <3>7. DirIn(u, Onto(z, p, q))
      BY <1>1, <3>4, <3>6 DEF DirIn
    <3>. QED
      BY <2>0, <3>1, <3>2, <3>7
  <2>. QED
    BY <2>1, <2>2, <2>3
<1>. QED
  BY <1>1, <1>3 DEF GoodTree

(***************************************************************************)
(* What the calls leave.                                                   *)
(***************************************************************************)
Grown(u, p, node) ==
  /\ p \notin DOMAIN tree /\ p \in Path \ {<<>>}
  /\ DOMAIN u = DOMAIN tree \cup {p} /\ u[p] = node
  /\ \A x : x # p => Same(tree, u, x)

Lost(u, S) ==
  /\ S \subseteq DOMAIN tree
  /\ DOMAIN u = DOMAIN tree \ S
  /\ \A x : x \notin S => Same(tree, u, x)

LEMMA NodeTyped ==
  ASSUME NEW bytes \in Seq(Pieces)
  PROVE  /\ File(bytes) \in Node /\ File(bytes).dir = FALSE /\ File(bytes).read.bytes = bytes
         /\ File(bytes) = Store!File(bytes)
  BY DEF Node, File, Store!File

LEMMA EmptyTyped ==
  /\ <<>> \in Seq(Pieces)
  /\ Store!Directory \in Node /\ Store!Directory.dir = TRUE
  /\ File(<<>>) \in Node /\ File(<<>>).dir = FALSE /\ File(<<>>).read.bytes = <<>>
<1>1. <<>> \in Seq(Pieces)
  OBVIOUS
<1>2. Store!Directory \in Node /\ Store!Directory.dir = TRUE
  BY <1>1 DEF Node, Store!Directory
<1>. QED
  BY <1>1, <1>2, NodeTyped

LEMMA AddCall ==
  ASSUME GoodTree(tree), NEW path, GoodText(path), NEW node \in Node,
         NEW u, u = Call(CanAdd(path), Store!Add(path.names, node)).tree
  PROVE  /\ GoodTree(u)
         /\ IF CanAdd(path) = "OK" THEN Grown(u, path.names, node) ELSE u = tree
         /\ CanAdd(path) = "OK" <=>
              ~path.slash /\ DirIn(tree, Store!Parent(path.names)) /\ path.names \notin DOMAIN tree
<1>1. CanAdd(path) = "OK" <=>
        ~path.slash /\ DirIn(tree, Store!Parent(path.names)) /\ path.names \notin DOMAIN tree
  BY DirsAre DEF CanAdd, Placed
<1>2. CASE CanAdd(path) = "OK"
  <2> DEFINE p == path.names
  <2>1. p \in Path /\ p # <<>> /\ p \notin DOMAIN tree /\ DirIn(tree, Store!Parent(p))
    BY <1>1, <1>2, GoodTextIs
  <2>2. u = Store!Add(p, node)
    BY <1>2 DEF Call
  <2>. HIDE DEF p
  <2>3. GoodTree(u)
    BY <2>1, <2>2, AddGood
  <2>4. DOMAIN u = DOMAIN tree \cup {p} /\ u[p] = node /\ \A x : x # p => Same(tree, u, x)
    BY <2>2, AddKeeps
  <2>5. Grown(u, p, node)
    BY <2>1, <2>4 DEF Grown
  <2>. QED
    BY <1>1, <1>2, <2>3, <2>5 DEF p
<1>3. CASE CanAdd(path) # "OK"
  BY <1>1, <1>3 DEF Call
<1>. QED
  BY <1>2, <1>3

LEMMA CreateCall ==
  ASSUME GoodTree(tree), NEW path, GoodText(path), NEW u, u = vfs_create(path).tree
  PROVE  /\ GoodTree(u)
         /\ IF vfs_create(path).r = "OK" THEN Grown(u, path.names, File(<<>>)) ELSE u = tree
         /\ vfs_create(path).r = "OK" <=>
              ~path.slash /\ DirIn(tree, Store!Parent(path.names)) /\ path.names \notin DOMAIN tree
<1>1. vfs_create(path).r = CanAdd(path)
  BY DEF vfs_create, Call
<1>2. u = Call(CanAdd(path), Store!Add(path.names, File(<<>>))).tree
  BY DEF vfs_create
<1>. QED
  BY <1>1, <1>2, AddCall, EmptyTyped

LEMMA MkdirCall ==
  ASSUME GoodTree(tree), NEW path, GoodText(path), NEW u, u = vfs_mkdir(path).tree
  PROVE  /\ GoodTree(u)
         /\ IF vfs_mkdir(path).r = "OK" THEN Grown(u, path.names, Store!Directory) ELSE u = tree
         /\ vfs_mkdir(path).r = "OK" <=>
              ~path.slash /\ DirIn(tree, Store!Parent(path.names)) /\ path.names \notin DOMAIN tree
<1>1. vfs_mkdir(path).r = CanAdd(path)
  BY DEF vfs_mkdir, Call
<1>2. u = Call(CanAdd(path), Store!Add(path.names, Store!Directory)).tree
  BY DEF vfs_mkdir
<1>. QED
  BY <1>1, <1>2, AddCall, EmptyTyped

LEMMA RemoveCall ==
  ASSUME GoodTree(tree), NEW p, NEW u, u = vfs_remove(p).tree
  PROVE  /\ GoodTree(u)
         /\ \/ u = tree
            \/ FileIn(tree, p) /\ Lost(u, {p})
<1>1. CASE CanRemove(p) = "OK"
  <2>1. u = Store!Without({p})
    BY <1>1 DEF vfs_remove, Call
  <2>2. p \in DOMAIN tree /\ ~DirIn(tree, p)
    BY <1>1, DirsAre DEF CanRemove
  <2>3. FileIn(tree, p) /\ p # <<>> /\ \A x \in DOMAIN tree : Store!Parent(x) # p
    BY <2>2 DEF FileIn, DirIn, GoodTree
  <2>4. GoodTree(u)
    BY <2>1, <2>3, WithoutGood
  <2>5. Lost(u, {p})
    <3>1. DOMAIN u = DOMAIN tree \ {p} /\ \A x : x \notin {p} => Same(tree, u, x)
      BY <2>1, WithoutKeeps
    <3>. QED
      BY <2>2, <3>1 DEF Lost
  <2>. QED
    BY <2>3, <2>4, <2>5
<1>2. CASE CanRemove(p) # "OK"
  BY <1>2 DEF vfs_remove, Call
<1>. QED
  BY <1>1, <1>2

LEMMA RmdirCall ==
  ASSUME GoodTree(tree), NEW p, NEW u, u = vfs_rmdir(p).tree
  PROVE  /\ GoodTree(u)
         /\ \/ u = tree
            \/ Lost(u, {p})
<1>1. CASE CanRmdir(p) = "OK"
  <2>1. u = Store!Without({p})
    BY <1>1 DEF vfs_rmdir, Call
  <2>2. p \in DOMAIN tree /\ ~HasEntries(p)
    BY <1>1, DirsAre DEF CanRmdir
  <2>3. p \in Path /\ p # <<>> /\ DOMAIN tree \subseteq Path \ {<<>>}
    BY <2>2 DEF GoodTree
  <2>4. ASSUME NEW x \in DOMAIN tree PROVE Store!Parent(x) # p
    <3>1. SUFFICES ASSUME Store!Parent(x) = p PROVE FALSE
      OBVIOUS
    <3>2. x \in Path /\ x # <<>>
      BY <2>3
    <3>3. Store!Inside(x, p) /\ x # p
      BY <2>3, <3>1, <3>2, InsideItself, InsideParent
    <3>. QED
      BY <2>2, <3>3 DEF HasEntries, Inside
  <2>5. GoodTree(u)
    BY <2>1, <2>3, <2>4, WithoutGood
  <2>6. Lost(u, {p})
    <3>1. DOMAIN u = DOMAIN tree \ {p} /\ \A x : x \notin {p} => Same(tree, u, x)
      BY <2>1, WithoutKeeps
    <3>. QED
      BY <2>2, <3>1 DEF Lost
  <2>. QED
    BY <2>5, <2>6
<1>2. CASE CanRmdir(p) # "OK"
  BY <1>2 DEF vfs_rmdir, Call
<1>. QED
  BY <1>1, <1>2

LEMMA RenameCall ==
  ASSUME GoodTree(tree), NEW old, GoodText(old), NEW new, GoodText(new),
         NEW u, u = vfs_rename(old, new).tree
  PROVE  /\ GoodTree(u)
         /\ \/ u = tree
            \/ /\ old.names \in DOMAIN tree
               /\ new.names \in Path \ {<<>>} /\ new.names \notin DOMAIN tree
               /\ \A x \in Path : ~Store!Inside(x, old.names) /\ ~Store!Inside(x, new.names) => Same(tree, u, x)
<1>1. CASE CanRename(old, new) = "OK"
  <2> DEFINE p == old.names
             q == new.names
             S == {r \in DOMAIN tree : Store!Inside(r, p)}
  <2>1. u = IF Store!Inside(q, p) THEN Store!Without(S) ELSE Store!Renamed(p, q)
    BY <1>1 DEF vfs_rename, Call, Moved, Inside
  <2>2. p \in DOMAIN tree /\ ~new.slash /\ q \notin DOMAIN tree /\ DirIn(tree, Store!Parent(q))
    BY <1>1, DirsAre DEF CanRename, CanAdd, Placed
  <2>3. q \in Path /\ q # <<>>
    BY <2>2, GoodTextIs
  <2>4. p \in Path /\ p # <<>> /\ DOMAIN tree \subseteq Path \ {<<>>}
    BY <2>2 DEF GoodTree
  <2>. HIDE DEF p, q
  <2>5. CASE Store!Inside(q, p)
    <3>1. u = Store!Without(S)
      BY <2>1, <2>5
    <3>2. \A x \in DOMAIN tree : Store!Parent(x) \in S => x \in S
      <4>1. ASSUME NEW x \in DOMAIN tree, Store!Inside(Store!Parent(x), p) PROVE Store!Inside(x, p)
        BY <2>4, <4>1, InsideParent
      <4>. QED
        BY <4>1
    <3>3. <<>> \notin S
      BY <2>4
    <3>4. \A x : ~Store!Inside(x, p) => x \notin S
      OBVIOUS
    <3>. HIDE DEF S
    <3>5. GoodTree(u)
      BY <3>1, <3>2, <3>3, WithoutGood
    <3>6. DOMAIN u = DOMAIN tree \ S /\ \A x : x \notin S => Same(tree, u, x)
      BY <3>1, WithoutKeeps
    <3>. QED
      BY <2>2, <2>3, <3>4, <3>5, <3>6 DEF p, q
  <2>6. CASE ~Store!Inside(q, p)
    <3>1. u = Store!Renamed(p, q)
      BY <2>1, <2>6
    <3>2. GoodTree(u)
      BY <2>2, <2>3, <2>6, <3>1, RenamedGood
    <3>3. \A x \in Path : ~Store!Inside(x, p) /\ ~Store!Inside(x, q) => Same(tree, u, x)
      BY <2>2, <2>3, <3>1, RenamedKeeps
    <3>. QED
      BY <2>2, <2>3, <3>2, <3>3 DEF p, q
  <2>. QED
    BY <2>5, <2>6
<1>2. CASE CanRename(old, new) # "OK"
  BY <1>2 DEF vfs_rename, Call
<1>. QED
  BY <1>1, <1>2

(***************************************************************************)
(* Writing.                                                                *)
(***************************************************************************)
LaidOver(S, new, bytes, n, input) ==
  /\ new \in Seq(S)
  /\ Len(new) = IF n + Len(input) > Len(bytes) THEN n + Len(input) ELSE Len(bytes)
  /\ \A i \in 1..Len(new) :
       new[i] = IF i \in (n + 1)..(n + Len(input)) THEN input[i - n] ELSE bytes[i]

LEMMA LaidIs ==
  ASSUME NEW S, NEW bytes \in Seq(S), NEW input \in Seq(S), NEW n \in 0..Len(bytes),
         NEW new, new = Store!Laid(bytes, n, input)
  PROVE  LaidOver(S, new, bytes, n, input)
<1> DEFINE b == Len(bytes)
           m == Len(input)
           length == IF n + m > b THEN n + m ELSE b
           At(i) == IF i \in (n + 1)..(n + m) THEN input[i - n] ELSE bytes[i]
           a == [i \in 1..length |-> At(i)]
<1>1. /\ n \in Nat /\ b \in Nat /\ m \in Nat /\ n <= b
      /\ \A i \in 1..b : bytes[i] \in S
      /\ \A i \in 1..m : input[i] \in S
  OBVIOUS
<1>2. new = a
  BY DEF Store!Laid
<1>. HIDE DEF b, m
<1>3. length \in Nat
  BY <1>1
<1>4. ASSUME NEW i \in 1..length PROVE At(i) \in S
  <2>1. CASE i \in (n + 1)..(n + m)
    <3>1. i - n \in 1..m
      BY <1>1, <2>1
    <3>. QED
      BY <1>1, <2>1, <3>1
  <2>2. CASE i \notin (n + 1)..(n + m)
    <3>1. i \in 1..b
      BY <1>1, <1>3, <2>2
    <3>. QED
      BY <1>1, <2>2, <3>1
  <2>. QED
    BY <2>1, <2>2
<1>. HIDE DEF At, length
<1>5. a \in Seq(S) /\ Len(a) = length /\ \A i \in 1..Len(a) : a[i] = At(i)
  BY <1>3, <1>4
<1>. QED
  BY <1>2, <1>5 DEF LaidOver, At, length, b, m

\* Input as long as the file, or longer, is all there is then.
LEMMA LaidOverAll ==
  ASSUME NEW S, NEW bytes \in Seq(S), NEW input \in Seq(S), Len(bytes) <= Len(input)
  PROVE  Store!Laid(bytes, 0, input) = input
<1> DEFINE a == Store!Laid(bytes, 0, input)
<1>1. Len(bytes) \in Nat /\ Len(input) \in Nat /\ 0 \in 0..Len(bytes)
  OBVIOUS
<1>. HIDE DEF a
<1>2. /\ a \in Seq(S)
      /\ Len(a) = IF 0 + Len(input) > Len(bytes) THEN 0 + Len(input) ELSE Len(bytes)
      /\ \A i \in 1..Len(a) : a[i] = IF i \in (0 + 1)..(0 + Len(input)) THEN input[i - 0] ELSE bytes[i]
  <2>1. LaidOver(S, a, bytes, 0, input)
    BY <1>1, LaidIs DEF a
  <2>. QED
    BY <2>1 DEF LaidOver
<1>3. Len(a) = Len(input) /\ \A i \in 1..Len(input) : a[i] = input[i]
  BY <1>1, <1>2
<1>4. a = input
  BY <1>2, <1>3
<1>. QED
  BY <1>4 DEF a

\* A write over a file that is there.
LEMMA WriteGood ==
  ASSUME GoodTree(tree), NEW p, FileIn(tree, p), NEW bytes \in Seq(Pieces),
         NEW u, u = Store!Add(p, File(bytes))
  PROVE  /\ GoodTree(u)
         /\ DOMAIN u = DOMAIN tree /\ u[p] = File(bytes)
         /\ \A x : x # p => Same(tree, u, x)
<1>1. p \in Path /\ p # <<>> /\ p \in DOMAIN tree /\ tree[p].dir = FALSE /\ DirIn(tree, Store!Parent(p))
  BY DEF FileIn, GoodTree, Node
<1>2. File(bytes) \in Node /\ File(bytes).dir = FALSE
  BY NodeTyped
<1>3. GoodTree(u)
  BY <1>1, <1>2, AddGood
<1>4. DOMAIN u = DOMAIN tree \cup {p} /\ u[p] = File(bytes) /\ \A x : x # p => Same(tree, u, x)
  BY AddKeeps
<1>. QED
  BY <1>1, <1>3, <1>4

(***************************************************************************)
(* The inductive invariant.                                                *)
(***************************************************************************)
TreeInv == GoodTree(tree) /\ faults \in Nat

\* The current directory is there as long as nobody has taken it away.
CwdInv == GoodText(cwd) /\ (gone \/ DirIn(tree, cwd.names))

Bin  == <<"bin">>
Docs == <<"docs">>
DirsLeft == { <<Etc, Home, Bin, Docs>>, <<Home, Bin, Docs>>, <<Bin, Docs>>, <<Docs>> }

\* /home is there, unless it is still to be made.
HomeInv ==
  \/ homeless
  \/ DirIn(tree, Home)
  \/ /\ Home \notin DOMAIN tree
     /\ \/ job = Off /\ ~DirIn(tree, Etc)
        \/ job.op = "dirs" /\ (job.todo = <<Etc, Home, Bin, Docs>> \/ job.todo = <<Home, Bin, Docs>>)

\* What the boot remembers of the settings file, and what there is of it now.
BootInv ==
  /\ job.op = "dirs" => job.todo \in DirsLeft
  /\ job.op \in {"dirs", "settings"} => job.start = Held
  /\ job.op = "fill" =>
       \/ job.hit
       \/ job.start = {} /\ (DirIn(tree, Etc) => FileIn(tree, ConfigPath) /\ Bytes(ConfigPath) = <<>>)
  /\ job.op = "load" =>
       \/ job.hit
       \/ job.start # {} /\ job.start = Held
       \/ /\ job.start = {}
          /\ \/ ~DirIn(tree, Etc) \/ DirIn(tree, ConfigPath)
             \/ FileIn(tree, ConfigPath) /\ Bytes(ConfigPath) = Defaults

\* What is copied and what is still to be copied are what there was to copy; the copy shows
\* the first of what is copied, and all of it unless its entry missed the last piece.
CopyInv ==
  job.op = "copy" =>
    /\ job = [op |-> "copy", src |-> job.src, dst |-> job.dst, done |-> job.done,
              rest |-> job.rest, hit |-> job.hit, missed |-> job.missed]
    /\ job.done \in Seq(Pieces) /\ job.rest \in Seq(Pieces)
    /\ job.src \in DOMAIN tree /\ job.src # job.dst
    /\ FileIn(tree, job.dst) /\ job.dst \in target
    /\ \E m \in 0..Len(job.done) : Bytes(job.dst) = SubSeq(job.done, 1, m)
    /\ job.missed \/ Bytes(job.dst) = job.done
    /\ ~job.hit /\ FileIn(tree, job.src) => job.done \o job.rest = Bytes(job.src)

SavesWell(j) ==
  /\ j = [op |-> j.op, path |-> j.path, n |-> j.n, text |-> j.text]
  /\ GoodText(j.path) /\ j.text \in Texts /\ j.n \in 0..(Len(j.text) - 1)

\* The first n bytes, as far as there are so many, are those of the text.
Begins(bytes, text, n) == \A i \in 1..n : i <= Len(bytes) => bytes[i] = text[i]

\* What is saved is saved to where the words of the command said, and as far as the file
\* goes it shows the lines saved.
SaveInv ==
  job.op \in {"parents", "create", "lines"} =>
    /\ SavesWell(job) /\ job.path.names \in target
    /\ job.op # "lines" => job.n = 0
    /\ job.op = "lines" =>
         /\ job.path.names \in DOMAIN tree
         /\ FileIn(tree, job.path.names) => Begins(Bytes(job.path.names), job.text, job.n)

FilesInv == TreeInv /\ CwdInv /\ HomeInv /\ BootInv /\ CopyInv /\ SaveInv

(***************************************************************************)
(* Words, texts and system directories.                                    *)
(***************************************************************************)
AnInput(input) == input.abs \in BOOLEAN /\ input.parts \in Seq(Words)

LEMMA OwnElements ==
  ASSUME NEW S, NEW s \in Seq(S)
  PROVE  s \in Seq(Range(s))
<1>1. Len(s) \in Nat /\ s = [i \in 1..Len(s) |-> s[i]] /\ DOMAIN s = 1..Len(s)
  OBVIOUS
<1>2. \A i \in 1..Len(s) : s[i] \in Range(s)
  BY <1>1 DEF Range
<1> DEFINE R == Range(s)
<1>. HIDE DEF R
<1>3. \A i \in 1..Len(s) : s[i] \in R
  BY <1>2 DEF R
<1>4. s \in Seq(R)
  BY <1>1, <1>3
<1>. QED
  BY <1>4 DEF R

LEMMA InputTyped ==
  ASSUME NEW input, \/ input \in Inputs \cup SavePaths
                    \/ \E two \in InputPairs : input = two[1] \/ input = two[2]
  PROVE  AnInput(input)
<1>1. input \in AllInputs
  BY DEF AllInputs
<1>2. input.abs \in BOOLEAN /\ input.parts \in Seq(STRING)
  BY <1>1, FilesAssumption DEF FilesAssumption, AllInputs
<1> DEFINE R == Range(input.parts)
<1>3. input.parts \in Seq(R)
  BY <1>2, OwnElements
<1>4. R \subseteq Words
  BY <1>1 DEF Words
<1> DEFINE s == input.parts
<1>. HIDE DEF R, s
<1>5. s \in Seq(R)
  BY <1>3 DEF s
<1>6. s \in Seq(Words)
  BY <1>4, <1>5
<1>. QED
  BY <1>2, <1>6 DEF AnInput, s

LEMMA ResolvedGood ==
  ASSUME GoodText(cwd), NEW input, AnInput(input)
  PROVE  GoodText(Resolved(input)) /\ Resolved(input).names \in Aims(input)
<1>1. /\ GoodText(Resolved(input))
      /\ ~Climbs(input.parts) => Resolved(input).names = Meant(cwd, input)
  BY ResolvedIs DEF Resolved, AnInput
<1>. QED
  BY <1>1 DEF Aims

LEMMA TextTypes ==
  ASSUME NEW t \in Texts
  PROVE  t \in Seq(Pieces) /\ Len(t) \in Nat \ {0}
<1>1. t \in Seq(Range(t)) /\ t # <<>>
  BY FilesAssumption DEF FilesAssumption
<1>2. Range(t) \subseteq Pieces
  BY DEF Pieces
<1> DEFINE R == Range(t)
<1>. HIDE DEF R
<1>3. t \in Seq(R) /\ R \subseteq Pieces
  BY <1>1, <1>2 DEF R
<1>. QED
  BY <1>1, <1>3

LEMMA SystemPaths ==
  /\ Etc \in Path /\ Home \in Path /\ Bin \in Path /\ Docs \in Path /\ ConfigPath \in Path
  /\ Etc # <<>> /\ Home # <<>> /\ Bin # <<>> /\ Docs # <<>> /\ ConfigPath # <<>>
  /\ Store!Parent(Etc) = <<>> /\ Store!Parent(Home) = <<>>
  /\ Store!Parent(ConfigPath) = Etc
  /\ Etc # Home /\ Bin # Home /\ Docs # Home
  /\ ConfigPath \notin {Etc, Home, Bin, Docs}
<1>1. "etc" \in Name /\ "home" \in Name /\ "bin" \in Name /\ "docs" \in Name /\ "lost.cfg" \in Name
  <2>1. "etc" \notin {".", ".."} /\ "home" \notin {".", ".."} /\ "bin" \notin {".", ".."}
    OBVIOUS
  <2>2. "docs" \notin {".", ".."} /\ "lost.cfg" \notin {".", ".."}
    OBVIOUS
  <2>3. "etc" \in Words /\ "home" \in Words /\ "bin" \in Words /\ "docs" \in Words /\ "lost.cfg" \in Words
    BY DEF Words
  <2>. QED
    BY <2>1, <2>2, <2>3 DEF Name
<1>2. /\ Etc \in Path /\ Home \in Path /\ Bin \in Path /\ Docs \in Path /\ ConfigPath \in Path
      /\ Etc # <<>> /\ Home # <<>> /\ Bin # <<>> /\ Docs # <<>> /\ ConfigPath # <<>>
      /\ Len(Etc) = 1 /\ Len(Home) = 1 /\ Len(Bin) = 1 /\ Len(Docs) = 1 /\ Len(ConfigPath) = 2
  BY <1>1 DEF Path, Etc, Home, Bin, Docs, ConfigPath
<1>3. ASSUME NEW p \in Path, Len(p) = 1 PROVE Store!Parent(p) = <<>>
  BY <1>3, PrefixAll DEF Store!Parent, Path
<1>4. Store!Parent(ConfigPath) = Etc
  <2> DEFINE c == ConfigPath
             d == Store!Parent(c)
  <2>1. d \in Path /\ Len(d) = 1 /\ d[1] = c[1] /\ c[1] = "etc" /\ Etc[1] = "etc"
    <3>1. /\ d \in Path /\ Len(d) = Len(c) - 1 /\ Len(c) \in Nat \ {0}
          /\ \A i \in 1..(Len(c) - 1) : d[i] = c[i]
      BY <1>2, ParentTyped
    <3>. HIDE DEF d
    <3>2. c[1] = "etc" /\ Etc[1] = "etc" /\ Len(c) = 2
      BY DEF ConfigPath, Etc
    <3>. QED
      BY <3>1, <3>2
  <2>. HIDE DEF d
  <2>2. d \in Seq(Name) /\ Etc \in Seq(Name)
    BY <1>2, <2>1 DEF Path
  <2>3. d = Etc
    BY <1>2, <2>1, <2>2
  <2>. QED
    BY <2>3 DEF d
<1>5. Etc # Home /\ Bin # Home /\ Docs # Home
  BY DEF Etc, Home, Bin, Docs
<1>6. ConfigPath \notin {Etc, Home, Bin, Docs}
  BY <1>2
<1>. QED
  BY <1>2, <1>3, <1>4, <1>5, <1>6

LEMMA TailsAre ==
  ASSUME NEW a, NEW b, NEW c, NEW d
  PROVE  /\ Len(<<a, b, c, d>>) = 4 /\ Head(<<a, b, c, d>>) = a /\ Tail(<<a, b, c, d>>) = <<b, c, d>>
         /\ Len(<<b, c, d>>) = 3 /\ Head(<<b, c, d>>) = b /\ Tail(<<b, c, d>>) = <<c, d>>
         /\ Len(<<c, d>>) = 2 /\ Head(<<c, d>>) = c /\ Tail(<<c, d>>) = <<d>>
         /\ Len(<<d>>) = 1 /\ Head(<<d>>) = d
  OBVIOUS

LEMMA HeldSame ==
  ASSUME Same(tree, tree', ConfigPath)
  PROVE  Held' = Held
<1>1. FileIn(tree', ConfigPath) <=> FileIn(tree, ConfigPath)
  BY DEF Same, FileIn
<1>2. FileIn(tree, ConfigPath) => Bytes(ConfigPath)' = Bytes(ConfigPath)
  BY DEF Same, FileIn, Bytes
<1>. QED
  BY <1>1, <1>2 DEF Held, Store!IsFile, Store!Exists, FileIn

LEMMA SameAll ==
  ASSUME NEW t, NEW u, u = t
  PROVE  \A x : Same(t, u, x)
  BY DEF Same

\* What stays as it is stays a directory, or a file with what is in it.
LEMMA SameKind ==
  ASSUME NEW t, NEW u, NEW x, Same(t, u, x)
  PROVE  /\ DirIn(t, x) <=> DirIn(u, x)
         /\ FileIn(t, x) <=> FileIn(u, x)
         /\ x \in DOMAIN t => x \in DOMAIN u /\ u[x] = t[x]
         /\ x \notin DOMAIN t => x \notin DOMAIN u
  BY DEF Same, DirIn, FileIn

LEMMA GrownKeeps ==
  ASSUME NEW u, NEW p, NEW node, Grown(u, p, node)
  PROVE  /\ \A x \in DOMAIN tree : Same(tree, u, x)
         /\ \A x : x # p => Same(tree, u, x)
         /\ \A x : DirIn(tree, x) => DirIn(u, x)
         /\ p \in DOMAIN u /\ u[p] = node
         /\ node.dir = TRUE => DirIn(u, p)
         /\ node.dir = FALSE => FileIn(u, p)
  BY DEF Grown, Same, DirIn, FileIn

(***************************************************************************)
(* The invariant holds at the beginning.                                   *)
(***************************************************************************)
LEMMA InitHolds ==
  ASSUME Init
  PROVE  FilesInv
<1>1. DOMAIN tree = {} /\ faults = 0 /\ job = Off /\ cwd = RootText
  BY DEF Init
<1>2. TreeInv
  BY <1>1 DEF TreeInv, GoodTree
<1>3. CwdInv
  BY <1>1, RootTyped DEF CwdInv, DirIn
<1>4. HomeInv
  BY <1>1, SystemPaths DEF HomeInv, DirIn
<1>5. BootInv /\ CopyInv /\ SaveInv
  BY <1>1 DEF BootInv, CopyInv, SaveInv, Off
<1>. QED
  BY <1>2, <1>3, <1>4, <1>5 DEF FilesInv

(***************************************************************************)
(* What each action does with the tree.                                    *)
(***************************************************************************)
LEMMA CallsIs ==
  ASSUME NEW outcome, Calls(outcome)
  PROVE  tree' = outcome.tree /\ faults' = faults
  BY DEF Calls

LEMMA FaultIs ==
  ASSUME faults \in Nat, Fault
  PROVE  faults' \in Nat /\ faults' # faults
  BY DEF Fault

LEMMA FailedCallIs ==
  ASSUME faults \in Nat, FailedCall
  PROVE  tree' = tree /\ faults' \in Nat /\ faults' # faults
  BY FaultIs DEF FailedCall

\* The steps that leave the tree alone.
LEMMA TreeAlone ==
  ASSUME TreeInv,
         \/ power_on \/ config_load \/ power_off \/ cmd_cd_root
         \/ \E input \in Inputs : cmd_cd(input)
         \/ \E input \in SavePaths, text \in Texts : editor_save(input, text)
  PROVE  tree' = tree /\ faults' \in Nat
<1>1. faults \in Nat
  BY DEF TreeInv
<1>2. CASE power_on
  BY <1>1, <1>2 DEF power_on
<1>3. CASE config_load
  BY <1>1, <1>3, FaultIs DEF config_load
<1>4. CASE power_off
  BY <1>1, <1>4, FaultIs DEF power_off
<1>5. CASE cmd_cd_root
  BY <1>1, <1>5 DEF cmd_cd_root
<1>6. CASE \E input \in Inputs : cmd_cd(input)
  BY <1>1, <1>6 DEF cmd_cd
<1>7. CASE \E input \in SavePaths, text \in Texts : editor_save(input, text)
  BY <1>1, <1>7, FaultIs DEF editor_save
<1>. QED
  BY <1>2, <1>3, <1>4, <1>5, <1>6, <1>7

\* first_boot_setup makes the next directory, or finds it, or fails.
LEMMA SystemDirMade ==
  ASSUME TreeInv, BootInv, first_boot_setup
  PROVE  /\ job.op = "dirs" /\ job.todo \in DirsLeft
         /\ GoodTree(tree') /\ faults' \in Nat
         /\ \/ tree' = tree \/ Grown(tree', Head(job.todo), Store!Directory)
         /\ \/ homeless' = TRUE
            \/ /\ homeless' = homeless
               /\ DirIn(tree, Store!Parent(Head(job.todo))) /\ Head(job.todo) \notin DOMAIN tree
                    => Grown(tree', Head(job.todo), Store!Directory)
         /\ Head(job.todo) \in {Etc, Home, Bin, Docs}
<1> DEFINE p == Head(job.todo)
           path == Text(p, FALSE)
<1>1. job.op = "dirs" /\ job.todo \in DirsLeft /\ faults \in Nat /\ GoodTree(tree)
  BY DEF first_boot_setup, BootInv, TreeInv
<1>2. p \in {Etc, Home, Bin, Docs}
  BY <1>1, TailsAre DEF DirsLeft
<1>3. p \in Path /\ p # <<>>
  BY <1>2, SystemPaths
<1>4. (Calls(vfs_mkdir(path)) /\ homeless' = homeless) \/ (FailedCall /\ homeless' = TRUE)
  BY DEF first_boot_setup
<1>. HIDE DEF p
<1>5. GoodText(path) /\ path.names = p /\ path.slash = FALSE
  BY <1>3, TextTyped
<1>. HIDE DEF path
<1>6. CASE FailedCall /\ homeless' = TRUE
  BY <1>1, <1>2, <1>6, FailedCallIs DEF p
<1>7. CASE Calls(vfs_mkdir(path)) /\ homeless' = homeless
  <2>1. tree' = vfs_mkdir(path).tree /\ faults' = faults
    BY <1>7, CallsIs
  <2>2. /\ GoodTree(tree')
        /\ IF vfs_mkdir(path).r = "OK" THEN Grown(tree', path.names, Store!Directory) ELSE tree' = tree
        /\ vfs_mkdir(path).r = "OK" <=>
             ~path.slash /\ DirIn(tree, Store!Parent(path.names)) /\ path.names \notin DOMAIN tree
    BY <1>1, <1>5, <2>1, MkdirCall
  <2>. QED
    BY <1>1, <1>2, <1>5, <1>7, <2>1, <2>2 DEF p
<1>. QED
  BY <1>4, <1>6, <1>7

LEMMA SettingsOpened ==
  ASSUME TreeInv, config_init
  PROVE  /\ GoodTree(tree') /\ faults' \in Nat
         /\ \/ tree' = tree \/ Grown(tree', ConfigPath, File(<<>>))
         /\ \/ ConfigPath \in DOMAIN tree /\ tree' = tree /\ Phase("load", job.hit)
            \/ /\ ConfigPath \notin DOMAIN tree /\ Phase("fill", job.hit)
               /\ IF DirIn(tree, Etc) THEN Grown(tree', ConfigPath, File(<<>>)) ELSE tree' = tree
            \/ Phase("fill", TRUE)
<1> DEFINE path == Text(ConfigPath, FALSE)
<1>1. GoodTree(tree) /\ faults \in Nat
  BY DEF TreeInv
<1>2. GoodText(path) /\ path.names = ConfigPath /\ path.slash = FALSE
  BY SystemPaths, TextTyped
<1>3. \/ ConfigPath \in DOMAIN tree /\ Phase("load", job.hit) /\ tree' = tree /\ faults' = faults
      \/ ConfigPath \notin DOMAIN tree /\ Phase("fill", job.hit) /\ Calls(vfs_create(path))
      \/ FailedCall /\ Phase("fill", TRUE)
  BY DirsAre DEF config_init
<1>. HIDE DEF path
<1>4. CASE FailedCall /\ Phase("fill", TRUE)
  BY <1>1, <1>4, FailedCallIs
<1>5. CASE ConfigPath \in DOMAIN tree /\ Phase("load", job.hit) /\ tree' = tree /\ faults' = faults
  BY <1>1, <1>5
<1>6. CASE ConfigPath \notin DOMAIN tree /\ Phase("fill", job.hit) /\ Calls(vfs_create(path))
  <2>1. tree' = vfs_create(path).tree /\ faults' = faults
    BY <1>6, CallsIs
  <2>2. /\ GoodTree(tree')
        /\ IF vfs_create(path).r = "OK" THEN Grown(tree', path.names, File(<<>>)) ELSE tree' = tree
        /\ vfs_create(path).r = "OK" <=>
             ~path.slash /\ DirIn(tree, Store!Parent(path.names)) /\ path.names \notin DOMAIN tree
    BY <1>1, <1>2, <2>1, CreateCall
  <2>. QED
    BY <1>1, <1>2, <1>6, <2>1, <2>2, SystemPaths
<1>. QED
  BY <1>3, <1>4, <1>5, <1>6

Rewritten(u, p, bytes) ==
  /\ FileIn(tree, p) /\ bytes \in Seq(Pieces)
  /\ DOMAIN u = DOMAIN tree /\ u[p] = File(bytes)
  /\ \A x : x # p => Same(tree, u, x)

LEMMA RewrittenKeeps ==
  ASSUME NEW u, NEW p, NEW bytes, Rewritten(u, p, bytes)
  PROVE  /\ \A x : DirIn(tree, x) <=> DirIn(u, x)
         /\ \A x : FileIn(tree, x) <=> FileIn(u, x)
         /\ u[p].read.bytes = bytes /\ FileIn(u, p)
<1>1. File(bytes).dir = FALSE /\ File(bytes).read.bytes = bytes
  BY NodeTyped DEF Rewritten
<1>2. ASSUME NEW x PROVE (DirIn(tree, x) <=> DirIn(u, x)) /\ (FileIn(tree, x) <=> FileIn(u, x))
  <2>1. CASE x = p
    BY <1>1, <2>1 DEF Rewritten, DirIn, FileIn
  <2>2. CASE x # p
    BY <2>2, SameKind DEF Rewritten
  <2>. QED
    BY <2>1, <2>2
<1>. QED
  BY <1>1, <1>2 DEF Rewritten

LEMMA BytesTyped ==
  ASSUME GoodTree(tree), NEW p \in DOMAIN tree
  PROVE  Bytes(p) \in Seq(Pieces) /\ Len(Bytes(p)) \in Nat
<1>1. tree[p] \in Node
  BY DEF GoodTree
<1>2. Bytes(p) \in Seq(Pieces)
  BY <1>1 DEF Node, Bytes
<1>. QED
  BY <1>2

LEMMA WrittenIs ==
  ASSUME GoodTree(tree), NEW p, FileIn(tree, p), NEW input \in Seq(Pieces),
         NEW u, u = Written(p, input), NEW bytes, bytes = Store!Laid(Bytes(p), 0, input)
  PROVE  GoodTree(u) /\ Rewritten(u, p, bytes) /\ Begins(bytes, input, Len(input))
<1>1. Bytes(p) \in Seq(Pieces) /\ 0 \in 0..Len(Bytes(p))
  BY BytesTyped DEF FileIn
<1>2. LaidOver(Pieces, bytes, Bytes(p), 0, input)
  BY <1>1, LaidIs
<1>3. bytes \in Seq(Pieces)
  BY <1>2 DEF LaidOver
<1>4. u = Store!Add(p, File(bytes))
  BY DEF Written
<1>5. /\ GoodTree(u)
      /\ DOMAIN u = DOMAIN tree /\ u[p] = File(bytes)
      /\ \A x : x # p => Same(tree, u, x)
  BY <1>3, <1>4, WriteGood
<1>6. Begins(bytes, input, Len(input))
  <2>1. \A i \in 1..Len(bytes) :
          bytes[i] = IF i \in (0 + 1)..(0 + Len(input)) THEN input[i - 0] ELSE Bytes(p)[i]
    BY <1>2 DEF LaidOver
  <2>2. Len(input) \in Nat /\ Len(bytes) \in Nat
    BY <1>3
  <2>3. ASSUME NEW i \in 1..Len(input), i <= Len(bytes) PROVE bytes[i] = input[i]
    <3>1. i \in 1..Len(bytes) /\ i \in (0 + 1)..(0 + Len(input)) /\ i - 0 = i
      BY <2>2, <2>3
    <3>. QED
      BY <2>1, <3>1
  <2>. QED
    BY <2>3 DEF Begins
<1>. QED
  BY <1>3, <1>5, <1>6 DEF Rewritten

\* The file whose entry was not updated is as long as it was.
LEMMA UnrecordedIs ==
  ASSUME GoodTree(tree), NEW p, FileIn(tree, p), NEW input \in Seq(Pieces),
         NEW u, u = Unrecorded(p, input)
  PROVE  /\ GoodTree(u)
         /\ \E bytes : Rewritten(u, p, bytes) /\ Begins(bytes, input, Len(input))
         /\ Len(Bytes(p)) <= Len(input) => Rewritten(u, p, SubSeq(input, 1, Len(Bytes(p))))
<1> DEFINE b == Bytes(p)
           laid == Store!Laid(b, 0, input)
           bytes == SubSeq(laid, 1, Len(b))
<1>1. b \in Seq(Pieces) /\ Len(b) \in Nat /\ 0 \in 0..Len(b) /\ Len(input) \in Nat
  BY BytesTyped DEF FileIn
<1>2. SubSeq(input, 1, Len(input)) = input
  BY PrefixAll
<1>3. u = Store!Add(p, File(bytes))
  BY <1>2 DEF Unrecorded, Store!Overwritten
<1>4. Len(b) <= Len(input) => laid = input
  BY <1>1, LaidOverAll
<1>. HIDE DEF b, laid
<1>5. LaidOver(Pieces, laid, b, 0, input)
  BY <1>1, LaidIs DEF laid
<1>6. /\ laid \in Seq(Pieces) /\ Len(laid) = IF 0 + Len(input) > Len(b) THEN 0 + Len(input) ELSE Len(b)
      /\ \A i \in 1..Len(laid) :
           laid[i] = IF i \in (0 + 1)..(0 + Len(input)) THEN input[i - 0] ELSE b[i]
  BY <1>5 DEF LaidOver
<1>7. Len(b) \in 0..Len(laid)
  BY <1>1, <1>6
<1>8. bytes \in Seq(Pieces) /\ Len(bytes) = Len(b) /\ \A i \in 1..Len(b) : bytes[i] = laid[i]
  BY <1>6, <1>7, PrefixTyped
<1>. HIDE DEF bytes
<1>9. /\ GoodTree(u)
      /\ DOMAIN u = DOMAIN tree /\ u[p] = File(bytes)
      /\ \A x : x # p => Same(tree, u, x)
  BY <1>3, <1>8, WriteGood
<1>10. Rewritten(u, p, bytes)
  BY <1>8, <1>9 DEF Rewritten
<1>11. Begins(bytes, input, Len(input))
  <2>1. ASSUME NEW i \in 1..Len(input), i <= Len(bytes) PROVE bytes[i] = input[i]
    <3>1. i \in 1..Len(b) /\ i \in 1..Len(laid) /\ i \in (0 + 1)..(0 + Len(input)) /\ i - 0 = i
      BY <1>1, <1>7, <1>8, <2>1
    <3>. QED
      BY <1>6, <1>8, <3>1
  <2>. QED
    BY <2>1 DEF Begins
<1>12. Len(b) <= Len(input) => bytes = SubSeq(input, 1, Len(b))
  BY <1>4 DEF bytes
<1>. QED
  BY <1>9, <1>10, <1>11, <1>12 DEF b

LEMMA DefaultsTyped == Defaults \in Seq(Pieces)
<1>1. Defaults \in Seq(Settings)
  BY FilesAssumption DEF FilesAssumption
<1>2. Settings \subseteq Pieces
  BY DEF Pieces
<1>. QED
  BY <1>1, <1>2

LEMMA DefaultsWritten ==
  ASSUME TreeInv, config_write_defaults
  PROVE  /\ GoodTree(tree') /\ faults' \in Nat
         /\ \/ tree' = tree
            \/ \E bytes : Rewritten(tree', ConfigPath, bytes)
         /\ \/ Phase("load", TRUE)
            \/ /\ Phase("load", job.hit)
               /\ IF FileIn(tree, ConfigPath)
                  THEN \E bytes : /\ Rewritten(tree', ConfigPath, bytes)
                                  /\ Bytes(ConfigPath) = <<>> => bytes = Defaults
                  ELSE tree' = tree
<1>1. GoodTree(tree) /\ faults \in Nat
  BY DEF TreeInv
<1>2. \/ tree' = WithDefaults /\ faults' = faults /\ Phase("load", job.hit)
      \/ Fault /\ tree' \in PartOfDefaults /\ Phase("load", TRUE)
  BY DEF config_write_defaults
<1>3. CASE Fault /\ tree' \in PartOfDefaults /\ Phase("load", TRUE)
  <2>0. faults' \in Nat
    BY <1>1, <1>3, FaultIs
  <2>1. CASE FileIn(tree, ConfigPath)
    <3>1. PICK n \in 0..Len(Defaults) : tree' = Unrecorded(ConfigPath, SubSeq(Defaults, 1, n))
      BY <1>3, <2>1, DirsAre DEF PartOfDefaults
    <3> DEFINE part == SubSeq(Defaults, 1, n)
    <3>2. part \in Seq(Pieces)
      BY DefaultsTyped, PrefixTyped
    <3>3. tree' = Unrecorded(ConfigPath, part)
      BY <3>1
    <3>. HIDE DEF part
    <3>4. /\ GoodTree(tree')
          /\ \E bytes : Rewritten(tree', ConfigPath, bytes) /\ Begins(bytes, part, Len(part))
      BY <1>1, <2>1, <3>2, <3>3, UnrecordedIs
    <3>5. PICK bytes : Rewritten(tree', ConfigPath, bytes)
      BY <3>4
    <3>. QED
      BY <1>3, <2>0, <3>4, <3>5
  <2>2. CASE ~FileIn(tree, ConfigPath)
    <3>1. tree' = tree
      BY <1>3, <2>2, DirsAre DEF PartOfDefaults
    <3>. QED
      BY <1>1, <1>3, <2>0, <3>1
  <2>. QED
    BY <2>1, <2>2
<1>4. CASE tree' = WithDefaults /\ faults' = faults /\ Phase("load", job.hit)
  <2>1. CASE FileIn(tree, ConfigPath)
    <3> DEFINE bytes == Store!Laid(Bytes(ConfigPath), 0, Defaults)
    <3>1. tree' = Written(ConfigPath, Defaults)
      BY <1>4, <2>1, DirsAre DEF WithDefaults
    <3>2. Bytes(ConfigPath) = <<>> => bytes = Defaults
      <4>. SUFFICES ASSUME Bytes(ConfigPath) = <<>> PROVE bytes = Defaults
        OBVIOUS
      <4> DEFINE none == Bytes(ConfigPath)
      <4>1. none = <<>>
        OBVIOUS
      <4>. HIDE DEF none
      <4>2. none \in Seq(Pieces) /\ Defaults \in Seq(Pieces) /\ Len(none) = 0 /\ Len(Defaults) \in Nat
        BY <4>1, DefaultsTyped
      <4>3. Len(none) <= Len(Defaults)
        BY <4>2
      <4>4. Store!Laid(none, 0, Defaults) = Defaults
        BY <4>2, <4>3, LaidOverAll
      <4>. QED
        BY <4>4 DEF none
    <3>. HIDE DEF bytes
    <3>3. GoodTree(tree') /\ Rewritten(tree', ConfigPath, bytes)
      BY <1>1, <2>1, <3>1, DefaultsTyped, WrittenIs DEF bytes
    <3>. QED
      BY <1>1, <1>4, <2>1, <3>2, <3>3
  <2>2. CASE ~FileIn(tree, ConfigPath)
    BY <1>1, <1>4, <2>2, DirsAre DEF WithDefaults
  <2>. QED
    BY <2>1, <2>2
<1>. QED
  BY <1>2, <1>3, <1>4

(***************************************************************************)
(* The commands of one call.                                               *)
(***************************************************************************)
LEMMA RunsIs ==
  ASSUME NEW outcome, NEW aims, Runs(outcome, aims)
  PROVE  /\ tree' = outcome.tree /\ faults' = faults
         /\ tree' # tree => target' = aims
         /\ cwd' = cwd /\ job' = job
  BY CallsIs DEF Runs

LEMMA TouchIs ==
  ASSUME TreeInv, GoodText(cwd), NEW input, AnInput(input), cmd_touch(input)
  PROVE  /\ GoodTree(tree')
         /\ \/ tree' = tree
            \/ Grown(tree', Resolved(input).names, File(<<>>))
<1> DEFINE path == Resolved(input)
<1>1. GoodText(path) /\ GoodTree(tree)
  BY ResolvedGood DEF TreeInv
<1>2. Runs(vfs_create(path), Aims(input))
  BY DEF cmd_touch
<1>. HIDE DEF path
<1>3. tree' = vfs_create(path).tree
  BY <1>2, RunsIs
<1>4. /\ GoodTree(tree')
      /\ IF vfs_create(path).r = "OK" THEN Grown(tree', path.names, File(<<>>)) ELSE tree' = tree
  BY <1>1, <1>3, CreateCall
<1>. QED
  BY <1>4 DEF path

LEMMA MakeIs ==
  ASSUME TreeInv, GoodText(cwd), NEW input, AnInput(input), cmd_mkdir(input)
  PROVE  /\ GoodTree(tree')
         /\ \/ tree' = tree
            \/ Grown(tree', Resolved(input).names, Store!Directory)
<1> DEFINE path == Resolved(input)
<1>1. GoodText(path) /\ GoodTree(tree)
  BY ResolvedGood DEF TreeInv
<1>2. Runs(vfs_mkdir(path), Aims(input))
  BY DEF cmd_mkdir
<1>. HIDE DEF path
<1>3. tree' = vfs_mkdir(path).tree
  BY <1>2, RunsIs
<1>4. /\ GoodTree(tree')
      /\ IF vfs_mkdir(path).r = "OK" THEN Grown(tree', path.names, Store!Directory) ELSE tree' = tree
  BY <1>1, <1>3, MkdirCall
<1>. QED
  BY <1>4 DEF path

LEMMA RemoveIs ==
  ASSUME TreeInv, NEW input, cmd_rm(input)
  PROVE  /\ GoodTree(tree')
         /\ \/ tree' = tree
            \/ FileIn(tree, Resolved(input).names) /\ Lost(tree', {Resolved(input).names})
<1> DEFINE p == Resolved(input).names
<1>1. Runs(vfs_remove(p), Aims(input)) /\ GoodTree(tree)
  BY DEF cmd_rm, TreeInv
<1>. HIDE DEF p
<1>2. tree' = vfs_remove(p).tree
  BY <1>1, RunsIs
<1>3. /\ GoodTree(tree')
      /\ \/ tree' = tree
         \/ FileIn(tree, p) /\ Lost(tree', {p})
  BY <1>1, <1>2, RemoveCall
<1>. QED
  BY <1>3 DEF p

LEMMA RmdirIs ==
  ASSUME TreeInv, NEW input, cmd_rmdir(input)
  PROVE  /\ GoodTree(tree')
         /\ \/ tree' = tree
            \/ Lost(tree', {Resolved(input).names})
<1> DEFINE p == Resolved(input).names
<1>1. Runs(vfs_rmdir(p), Aims(input)) /\ GoodTree(tree)
  BY DEF cmd_rmdir, TreeInv
<1>. HIDE DEF p
<1>2. tree' = vfs_rmdir(p).tree
  BY <1>1, RunsIs
<1>3. GoodTree(tree') /\ (tree' = tree \/ Lost(tree', {p}))
  BY <1>1, <1>2, RmdirCall
<1>. QED
  BY <1>3 DEF p

LEMMA MoveIs ==
  ASSUME TreeInv, GoodText(cwd), NEW from, NEW to, AnInput(from), AnInput(to), cmd_mv(from, to)
  PROVE  /\ GoodTree(tree')
         /\ \/ tree' = tree
            \/ /\ Resolved(from).names \in DOMAIN tree
               /\ Resolved(to).names \in Path \ {<<>>} /\ Resolved(to).names \notin DOMAIN tree
               /\ \A x \in Path : ~Store!Inside(x, Resolved(from).names) /\ ~Store!Inside(x, Resolved(to).names)
                                    => Same(tree, tree', x)
<1> DEFINE old == Resolved(from)
           new == Resolved(to)
<1>1. GoodText(old) /\ GoodText(new) /\ GoodTree(tree)
  BY ResolvedGood DEF TreeInv
<1>2. Runs(vfs_rename(old, new), Aims(from) \cup Aims(to))
  BY DEF cmd_mv
<1>. HIDE DEF old, new
<1>3. tree' = vfs_rename(old, new).tree
  BY <1>2, RunsIs
<1>4. /\ GoodTree(tree')
      /\ \/ tree' = tree
         \/ /\ old.names \in DOMAIN tree
            /\ new.names \in Path \ {<<>>} /\ new.names \notin DOMAIN tree
            /\ \A x \in Path : ~Store!Inside(x, old.names) /\ ~Store!Inside(x, new.names) => Same(tree, tree', x)
  BY <1>1, <1>3, RenameCall
<1>. QED
  BY <1>4 DEF old, new

LEMMA CopyBeginsIs ==
  ASSUME TreeInv, GoodText(cwd), NEW from, NEW to, AnInput(from), AnInput(to), cmd_cp(from, to)
  PROVE  /\ GoodTree(tree') /\ faults' = faults
         /\ Resolved(from).names \in DOMAIN tree
         /\ Grown(tree', Resolved(to).names, File(<<>>))
         /\ job' = Copying(Resolved(from).names, Resolved(to).names, Source(Resolved(from).names))
         /\ target' = Aims(to)
<1> DEFINE src == Resolved(from).names
           dst == Resolved(to)
<1>1. GoodText(dst) /\ GoodTree(tree)
  BY ResolvedGood DEF TreeInv
<1>2. /\ Opens(src) /\ vfs_create(dst).r = "OK" /\ Calls(vfs_create(dst))
      /\ job' = Copying(src, dst.names, Source(src)) /\ target' = Aims(to)
  BY DEF cmd_cp
<1>. HIDE DEF src, dst
<1>3. tree' = vfs_create(dst).tree /\ faults' = faults /\ src \in DOMAIN tree
  BY <1>2, CallsIs, DirsAre
<1>4. GoodTree(tree') /\ Grown(tree', dst.names, File(<<>>))
  <2>1. /\ GoodTree(tree')
        /\ IF vfs_create(dst).r = "OK" THEN Grown(tree', dst.names, File(<<>>)) ELSE tree' = tree
    BY <1>1, <1>3, CreateCall
  <2>. QED
    BY <1>2, <2>1
<1>. QED
  BY <1>2, <1>3, <1>4 DEF src, dst

(***************************************************************************)
(* cp and the editor's save, step by step.                                 *)
(***************************************************************************)
\* What the handle of the copy has after the next piece.
NextDone == Append(job.done, Head(job.rest))

OneMorePiece(missed) ==
  [job EXCEPT !.done = NextDone, !.rest = Tail(job.rest), !.missed = missed]

LEMMA CopyStepIs ==
  ASSUME TreeInv, CopyInv, copy
  PROVE  /\ job.op = "copy" /\ job.dst \in target /\ target' = target
         /\ GoodTree(tree') /\ faults' \in Nat
         /\ \/ \E missed \in BOOLEAN, m \in 0..Len(NextDone) :
                 /\ job.rest # <<>> /\ Rewritten(tree', job.dst, SubSeq(NextDone, 1, m))
                 /\ missed \/ m = Len(NextDone)
                 /\ job' = OneMorePiece(missed)
            \/ tree' = tree /\ job.rest = <<>> /\ job' = Ready
            \/ tree' = tree /\ job' = Ready /\ failed' = TRUE
            \/ tree' = tree /\ job' = [job EXCEPT !.rest = <<>>, !.hit = TRUE]
<1>1. GoodTree(tree) /\ faults \in Nat /\ job.op = "copy" /\ target' = target
  BY DEF copy, TreeInv
<1>2. /\ FileIn(tree, job.dst) /\ job.dst \in target
      /\ job.done \in Seq(Pieces) /\ job.rest \in Seq(Pieces)
      /\ \E m \in 0..Len(job.done) : Bytes(job.dst) = SubSeq(job.done, 1, m)
  BY <1>1 DEF CopyInv
<1> DEFINE all == NextDone
           b == Bytes(job.dst)
<1>3. b \in Seq(Pieces) /\ Len(b) \in Nat
  BY <1>1, <1>2, BytesTyped DEF FileIn
<1>4. ASSUME job.rest # <<>>
      PROVE  /\ all \in Seq(Pieces) /\ Len(all) \in Nat /\ Len(b) \in 0..Len(all)
             /\ SubSeq(all, 1, Len(all)) = all
  <2>1. Head(job.rest) \in Pieces
    BY <1>2, <1>4
  <2>2. all \in Seq(Pieces) /\ Len(all) = Len(job.done) + 1 /\ Len(job.done) \in Nat
    BY <1>2, <2>1 DEF NextDone
  <2>3. PICK m \in 0..Len(job.done) : b = SubSeq(job.done, 1, m)
    BY <1>2
  <2>4. Len(b) = m
    BY <1>2, <2>3, PrefixTyped
  <2>. HIDE DEF all, b
  <2>5. SubSeq(all, 1, Len(all)) = all
    BY <2>2, PrefixAll
  <2>. QED
    BY <2>2, <2>4, <2>5
<1>5. CASE CopyPiece
  <2>1. job.rest # <<>> /\ tree' = Written(job.dst, all) /\ job' = OneMorePiece(FALSE) /\ faults' = faults
    BY <1>5 DEF CopyPiece, OnePiece, NextDone, OneMorePiece
  <2> DEFINE bytes == Store!Laid(b, 0, all)
  <2>2. bytes = all
    <3>1. all \in Seq(Pieces) /\ Len(b) <= Len(all)
      BY <1>3, <1>4, <2>1
    <3>. HIDE DEF all, b
    <3>. QED
      BY <1>3, <3>1, LaidOverAll
  <2>3. all \in Seq(Pieces) /\ Len(all) \in 0..Len(all) /\ SubSeq(all, 1, Len(all)) = all
    BY <1>4, <2>1
  <2>4. GoodTree(tree') /\ Rewritten(tree', job.dst, bytes)
    BY <1>1, <1>2, <2>1, <2>3, WrittenIs
  <2>5. Rewritten(tree', job.dst, SubSeq(all, 1, Len(all)))
    BY <2>2, <2>3, <2>4
  <2>. HIDE DEF all, b, bytes
  <2>. QED
    BY <1>1, <1>2, <2>1, <2>3, <2>4, <2>5 DEF all
<1>6. CASE CopyUnrecorded
  <2>1. job.rest # <<>> /\ tree' = Unrecorded(job.dst, all) /\ job' = OneMorePiece(TRUE) /\ Fault
    BY <1>6 DEF CopyUnrecorded, OnePiece, NextDone, OneMorePiece
  <2>2. all \in Seq(Pieces) /\ Len(b) \in 0..Len(all) /\ Len(b) <= Len(all)
    BY <1>3, <1>4, <2>1
  <2>3. GoodTree(tree') /\ Rewritten(tree', job.dst, SubSeq(all, 1, Len(b)))
    <3>. HIDE DEF all
    <3>1. /\ GoodTree(tree')
          /\ Len(Bytes(job.dst)) <= Len(all) =>
               Rewritten(tree', job.dst, SubSeq(all, 1, Len(Bytes(job.dst))))
      BY <1>1, <1>2, <2>1, <2>2, UnrecordedIs
    <3>. QED
      BY <2>2, <3>1
  <2>4. faults' \in Nat
    BY <1>1, <2>1, FaultIs
  <2>. HIDE DEF all, b
  <2>. QED
    BY <1>1, <1>2, <2>1, <2>2, <2>3, <2>4 DEF all
<1>7. CASE CopyEnds
  BY <1>1, <1>2, <1>7 DEF CopyEnds
<1>8. CASE CopyWriteFails
  BY <1>1, <1>2, <1>8, FailedCallIs DEF CopyWriteFails
<1>9. CASE CopyReadFails
  BY <1>1, <1>2, <1>9, FailedCallIs DEF CopyReadFails
<1>. QED
  BY <1>5, <1>6, <1>7, <1>8, <1>9 DEF copy

LEMMA MinIs ==
  ASSUME NEW S, S \subseteq Nat, S # {}
  PROVE  Min(S) \in S
<1>1. \E x \in S : \A y \in S : x <= y
  BY LeastNumber
<1>. QED
  BY <1>1 DEF Min

LEMMA EnsureIs ==
  ASSUME TreeInv, SaveInv, vfs_ensure_parents
  PROVE  /\ job.op = "parents" /\ SavesWell(job) /\ job.path.names \in target /\ target' = target
         /\ GoodTree(tree') /\ faults' \in Nat
         /\ \/ /\ job' = job
               /\ \E n \in 1..Len(job.path.names) : Grown(tree', SubSeq(job.path.names, 1, n), Store!Directory)
            \/ tree' = tree /\ job' = [job EXCEPT !.op = "create"]
<1>1. GoodTree(tree) /\ faults \in Nat /\ job.op = "parents" /\ target' = target
  BY DEF vfs_ensure_parents, TreeInv
<1>2. SavesWell(job) /\ job.path.names \in target
  BY <1>1 DEF SaveInv
<1>3. CASE MakesParent
  <2> DEFINE names == job.path.names
             n == Min(Missing)
             p == SubSeq(names, 1, n)
             path == Text(p, FALSE)
  <2>1. GoodText(job.path)
    BY <1>2 DEF SavesWell
  <2>2. names \in Path /\ names \in Seq(Name) /\ Len(names) \in Nat
    BY <2>1, GoodTextIs DEF Path
  <2>3. Missing # {} /\ Calls(vfs_mkdir(path)) /\ tree' # tree /\ job' = job
    BY <1>3 DEF MakesParent, FirstMissing
  <2>4. Missing \subseteq 1..Ways(job.path)
    BY DEF Missing
  <2>5. 1..Ways(job.path) \subseteq 1..Len(names)
    BY <2>2 DEF Ways
  <2>6. n \in 1..Len(names)
    <3>1. Missing \subseteq Nat
      BY <2>4, <2>5
    <3>2. n \in Missing
      BY <2>3, <3>1, MinIs
    <3>. QED
      BY <2>4, <2>5, <3>2
  <2>. HIDE DEF n, names
  <2>7. p \in Path /\ p # <<>>
    BY <2>2, <2>6, PrefixParent
  <2>. HIDE DEF p
  <2>8. GoodText(path) /\ path.names = p
    BY <2>7, TextTyped
  <2>. HIDE DEF path
  <2>9. tree' = vfs_mkdir(path).tree /\ faults' = faults
    BY <2>3, CallsIs
  <2>10. /\ GoodTree(tree')
         /\ IF vfs_mkdir(path).r = "OK" THEN Grown(tree', path.names, Store!Directory) ELSE tree' = tree
    BY <1>1, <2>8, <2>9, MkdirCall
  <2>11. GoodTree(tree') /\ Grown(tree', p, Store!Directory)
    BY <2>3, <2>8, <2>10
  <2>. QED
    BY <1>1, <1>2, <2>3, <2>6, <2>9, <2>11 DEF p, names
<1>4. CASE ParentsDone
  <2>1. job' = [job EXCEPT !.op = "create"] /\ ((tree' = tree /\ faults' = faults) \/ FailedCall)
    BY <1>4 DEF ParentsDone
  <2>. QED
    BY <1>1, <1>2, <2>1, FailedCallIs
<1>. QED
  BY <1>3, <1>4 DEF vfs_ensure_parents

LEMMA SaveCreateIs ==
  ASSUME TreeInv, SaveInv, save_create
  PROVE  /\ job.op = "create" /\ SavesWell(job) /\ job.n = 0
         /\ job.path.names \in target /\ target' = target
         /\ GoodTree(tree') /\ faults' \in Nat
         /\ \/ tree' = tree
            \/ Grown(tree', job.path.names, File(<<>>))
         /\ \/ job' = [job EXCEPT !.op = "lines"] /\ job.path.names \in DOMAIN tree'
            \/ job' = Ready
<1> DEFINE path == job.path
<1>1. GoodTree(tree) /\ faults \in Nat /\ job.op = "create" /\ target' = target
  BY DEF save_create, TreeInv
<1>2. SavesWell(job) /\ path.names \in target /\ job.n = 0
  BY <1>1 DEF SaveInv
<1>3. GoodText(path)
  BY <1>2 DEF SavesWell
<1>4. /\ Calls(vfs_create(path)) \/ FailedCall
      /\ \/ job' = [job EXCEPT !.op = "lines"] /\ path.names \in DOMAIN tree'
         \/ job' = Ready
  BY DEF save_create
<1>5. ASSUME Calls(vfs_create(path))
      PROVE  GoodTree(tree') /\ faults' \in Nat /\ (tree' = tree \/ Grown(tree', path.names, File(<<>>)))
  <2>. HIDE DEF path
  <2>1. tree' = vfs_create(path).tree /\ faults' = faults
    BY <1>5, CallsIs
  <2>2. /\ GoodTree(tree')
        /\ IF vfs_create(path).r = "OK" THEN Grown(tree', path.names, File(<<>>)) ELSE tree' = tree
    BY <1>1, <1>3, <2>1, CreateCall
  <2>. QED
    BY <1>1, <2>1, <2>2
<1>6. ASSUME FailedCall
      PROVE  GoodTree(tree') /\ faults' \in Nat /\ tree' = tree
  BY <1>1, <1>6, FailedCallIs
<1>. QED
  BY <1>1, <1>2, <1>4, <1>5, <1>6

LEMMA SaveLineIs ==
  ASSUME TreeInv, SaveInv, save_line
  PROVE  /\ job.op = "lines" /\ SavesWell(job)
         /\ job.path.names \in target /\ target' = target
         /\ GoodTree(tree') /\ faults' \in Nat
         /\ \/ \E bytes : /\ Rewritten(tree', job.path.names, bytes)
                          /\ Begins(bytes, job.text, job.n + 1)
                          /\ job' = IF job.n + 1 = Len(job.text) THEN Ready ELSE [job EXCEPT !.n = @ + 1]
            \/ /\ job' = Ready
               /\ tree' = tree \/ \E bytes : Rewritten(tree', job.path.names, bytes)
<1> DEFINE p == Saved
           part == Lines
           next == IF job.n + 1 = Len(job.text) THEN Ready ELSE [job EXCEPT !.n = @ + 1]
<1>1. GoodTree(tree) /\ faults \in Nat /\ job.op = "lines" /\ target' = target /\ p = job.path.names
  BY DEF save_line, TreeInv, Saved
<1>2. SavesWell(job) /\ job.path.names \in target
  BY <1>1 DEF SaveInv
<1>3. job.text \in Seq(Pieces) /\ job.n \in 0..(Len(job.text) - 1) /\ Len(job.text) \in Nat
  BY <1>2, TextTypes DEF SavesWell
<1>4. /\ part \in Seq(Pieces) /\ Len(part) = job.n + 1 /\ job.n + 1 \in Nat
      /\ \A i \in 1..(job.n + 1) : part[i] = job.text[i]
  <2>1. job.n + 1 \in 0..Len(job.text) /\ job.n + 1 \in Nat
    BY <1>3
  <2>. QED
    BY <1>3, <2>1, PrefixTyped DEF Lines
<1>. HIDE DEF part, p
<1>5. ASSUME NEW bytes, Begins(bytes, part, Len(part)) PROVE Begins(bytes, job.text, job.n + 1)
  BY <1>4, <1>5 DEF Begins
<1>6. ASSUME FileIn(tree, p), tree' = Written(p, part)
      PROVE  GoodTree(tree') /\ \E bytes : Rewritten(tree', p, bytes) /\ Begins(bytes, job.text, job.n + 1)
  <2>1. PICK bytes : bytes = Store!Laid(Bytes(p), 0, part)
    OBVIOUS
  <2>2. GoodTree(tree') /\ Rewritten(tree', p, bytes) /\ Begins(bytes, part, Len(part))
    BY <1>1, <1>4, <1>6, <2>1, WrittenIs
  <2>. QED
    BY <1>5, <2>2
<1>7. ASSUME FileIn(tree, p), tree' = Unrecorded(p, part)
      PROVE  GoodTree(tree') /\ \E bytes : Rewritten(tree', p, bytes) /\ Begins(bytes, job.text, job.n + 1)
  <2>1. /\ GoodTree(tree')
        /\ \E bytes : Rewritten(tree', p, bytes) /\ Begins(bytes, part, Len(part))
    BY <1>1, <1>4, <1>7, UnrecordedIs
  <2>2. PICK bytes : Rewritten(tree', p, bytes) /\ Begins(bytes, part, Len(part))
    BY <2>1
  <2>. QED
    BY <1>5, <2>1, <2>2
<1>8. CASE LineSaved
  <2>1. FileIn(tree, p) /\ job' = next /\ tree' = Written(p, part) /\ faults' = faults
    BY <1>8, DirsAre DEF LineSaved, OneLine, p, part
  <2>. QED
    BY <1>1, <1>2, <1>6, <2>1
<1>9. CASE LineUnrecorded
  <2>1. FileIn(tree, p) /\ job' = next /\ tree' = Unrecorded(p, part) /\ Fault
    BY <1>9, DirsAre DEF LineUnrecorded, OneLine, p, part
  <2>2. faults' \in Nat
    BY <1>1, <2>1, FaultIs
  <2>. QED
    BY <1>1, <1>2, <1>7, <2>1, <2>2
<1>10. CASE LineFails
  <2>1. /\ job' = Ready
        /\ \/ FailedCall
           \/ Fault /\ FileIn(tree, p) /\ tree' = Unrecorded(p, part)
           \/ tree' = tree /\ faults' = faults
    BY <1>10, DirsAre DEF LineFails, p, part
  <2>2. CASE FailedCall \/ (tree' = tree /\ faults' = faults)
    BY <1>1, <1>2, <2>1, <2>2, FailedCallIs
  <2>3. CASE Fault /\ FileIn(tree, p) /\ tree' = Unrecorded(p, part)
    <3>1. faults' \in Nat
      BY <1>1, <2>3, FaultIs
    <3>. QED
      BY <1>1, <1>2, <1>7, <2>1, <2>3, <3>1
  <2>. QED
    BY <2>1, <2>2, <2>3
<1>. QED
  BY <1>8, <1>9, <1>10 DEF save_line

(***************************************************************************)
(* Which job each action leaves.                                           *)
(***************************************************************************)
\* The commands that are done at once.
Quick ==
  \/ cmd_cd_root
  \/ \E input \in Inputs :
       \/ cmd_touch(input) \/ cmd_mkdir(input) \/ cmd_rm(input) \/ cmd_rmdir(input)
       \/ cmd_cd(input)
  \/ \E two \in InputPairs : cmd_mv(two[1], two[2])

BeginsCopy == \E two \in InputPairs : cmd_cp(two[1], two[2])
BeginsSave == \E input \in SavePaths, text \in Texts : editor_save(input, text)

LEMMA NextIs ==
  ASSUME Next
  PROVE  \/ power_on \/ first_boot_setup \/ config_init \/ config_write_defaults
         \/ config_load \/ power_off \/ Quick \/ BeginsCopy \/ copy
         \/ BeginsSave \/ vfs_ensure_parents \/ save_create \/ save_line
  BY DEF Next, Steps, Commands, Quick, BeginsCopy, BeginsSave

LEMMA QuickOps ==
  ASSUME Quick
  PROVE  job = Ready /\ job' = Ready
<1>1. CASE cmd_cd_root
  BY <1>1 DEF cmd_cd_root
<1>2. ASSUME NEW input \in Inputs, \/ cmd_touch(input) \/ cmd_mkdir(input) \/ cmd_rm(input) \/ cmd_rmdir(input)
      PROVE  job = Ready /\ job' = Ready
  BY <1>2 DEF cmd_touch, cmd_mkdir, cmd_rm, cmd_rmdir, Typed, Runs
<1>3. ASSUME NEW input \in Inputs, cmd_cd(input)
      PROVE  job = Ready /\ job' = Ready
  BY <1>3 DEF cmd_cd, Typed
<1>4. ASSUME NEW two \in InputPairs, cmd_mv(two[1], two[2])
      PROVE  job = Ready /\ job' = Ready
  BY <1>4 DEF cmd_mv, Typed, Runs
<1>. QED
  BY <1>1, <1>2, <1>3, <1>4 DEF Quick

LEMMA BootIs ==
  ASSUME NEW op, NEW todo, NEW start, NEW hit
  PROVE  /\ Boot(op, todo, start, hit).op = op /\ Boot(op, todo, start, hit).todo = todo
         /\ Boot(op, todo, start, hit).start = start /\ Boot(op, todo, start, hit).hit = hit
  BY DEF Boot

LEMMA BootOps ==
  /\ power_on => job = Off /\ (job'.op = "dirs" \/ job'.op = "settings")
  /\ first_boot_setup => job.op = "dirs" /\ (job'.op = "dirs" \/ job'.op = "settings")
  /\ config_init => job.op = "settings" /\ (job'.op = "load" \/ job'.op = "fill")
  /\ config_write_defaults => job.op = "fill" /\ job'.op = "load"
  /\ config_load => (job.op = "load" \/ job.op = "ready") /\ job' = Ready
  /\ power_off => job # Off /\ job' = Off
<1>1. ASSUME power_on PROVE job = Off /\ (job'.op = "dirs" \/ job'.op = "settings")
  <2>1. job = Off /\ \E todo, start, hit : \/ job' = Boot("dirs", todo, start, hit)
                                           \/ job' = Boot("settings", todo, start, hit)
    BY <1>1 DEF power_on, EnterHome
  <2>. QED
    BY <2>1, BootIs
<1>2. ASSUME first_boot_setup PROVE job.op = "dirs" /\ (job'.op = "dirs" \/ job'.op = "settings")
  <2>1. job.op = "dirs" /\ \E todo, start, hit : \/ job' = Boot("dirs", todo, start, hit)
                                           \/ job' = Boot("settings", todo, start, hit)
    BY <1>2 DEF first_boot_setup, MadeDir, EnterHome
  <2>. QED
    BY <2>1, BootIs
<1>3. ASSUME config_init PROVE job.op = "settings" /\ (job'.op = "load" \/ job'.op = "fill")
  <2>1. job.op = "settings" /\ \E todo, start, hit : \/ job' = Boot("load", todo, start, hit)
                                           \/ job' = Boot("fill", todo, start, hit)
    BY <1>3 DEF config_init, Phase
  <2>. QED
    BY <2>1, BootIs
<1>4. ASSUME config_write_defaults PROVE job.op = "fill" /\ job'.op = "load"
  <2>1. job.op = "fill" /\ \E todo, start, hit : job' = Boot("load", todo, start, hit)
    BY <1>4 DEF config_write_defaults, Phase
  <2>. QED
    BY <2>1, BootIs
<1>5. config_load => (job.op = "load" \/ job.op = "ready") /\ job' = Ready
  BY DEF config_load
<1>6. power_off => job # Off /\ job' = Off
  BY DEF power_off
<1>. QED
  BY <1>1, <1>2, <1>3, <1>4, <1>5, <1>6

\* The record of a copy.
ACopy(src, dst, done, rest, hit, missed) ==
  [op |-> "copy", src |-> src, dst |-> dst, done |-> done, rest |-> rest, hit |-> hit,
   missed |-> missed]

IsCopy(j) == j = ACopy(j.src, j.dst, j.done, j.rest, j.hit, j.missed)

LEMMA CopyFields ==
  ASSUME NEW src, NEW dst, NEW done, NEW rest, NEW hit, NEW missed,
         NEW j, j = ACopy(src, dst, done, rest, hit, missed)
  PROVE  /\ j.op = "copy" /\ j.src = src /\ j.dst = dst /\ j.done = done /\ j.rest = rest
         /\ j.hit = hit /\ j.missed = missed
         /\ IsCopy(j)
  BY DEF ACopy, IsCopy

LEMMA DoneIs ==
  ASSUME NEW j, IsCopy(j), NEW x
  PROVE  [j EXCEPT !.done = x] = ACopy(j.src, j.dst, x, j.rest, j.hit, j.missed)
  BY DEF ACopy, IsCopy

LEMMA RestIs ==
  ASSUME NEW j, IsCopy(j), NEW x
  PROVE  [j EXCEPT !.rest = x] = ACopy(j.src, j.dst, j.done, x, j.hit, j.missed)
  BY DEF ACopy, IsCopy

LEMMA HitIs ==
  ASSUME NEW j, IsCopy(j), NEW x
  PROVE  [j EXCEPT !.hit = x] = ACopy(j.src, j.dst, j.done, j.rest, x, j.missed)
  BY DEF ACopy, IsCopy

LEMMA MissedIs ==
  ASSUME NEW j, IsCopy(j), NEW x
  PROVE  [j EXCEPT !.missed = x] = ACopy(j.src, j.dst, j.done, j.rest, j.hit, x)
  BY DEF ACopy, IsCopy

LEMMA RestHitAre ==
  ASSUME NEW j, IsCopy(j), NEW r, NEW h
  PROVE  [j EXCEPT !.rest = r, !.hit = h] = ACopy(j.src, j.dst, j.done, r, h, j.missed)
<1> DEFINE k == [j EXCEPT !.rest = r]
<1>1. [j EXCEPT !.rest = r, !.hit = h] = [k EXCEPT !.hit = h]
  BY Zenon
<1>2. k = ACopy(j.src, j.dst, j.done, r, j.hit, j.missed)
  BY RestIs
<1>. HIDE DEF k
<1>3. /\ IsCopy(k) /\ k.src = j.src /\ k.dst = j.dst /\ k.done = j.done /\ k.rest = r
      /\ k.missed = j.missed
  BY <1>2, CopyFields
<1>4. [k EXCEPT !.hit = h] = ACopy(j.src, j.dst, j.done, r, h, j.missed)
  BY <1>3, HitIs
<1>. QED
  BY <1>1, <1>4

LEMMA MoreIs ==
  ASSUME CopyInv, job.op = "copy"
  PROVE  /\ \A missed : OneMorePiece(missed) =
                         ACopy(job.src, job.dst, NextDone, Tail(job.rest), job.hit, missed)
         /\ [job EXCEPT !.rest = <<>>, !.hit = TRUE] =
               ACopy(job.src, job.dst, job.done, <<>>, TRUE, job.missed)
         /\ \A missed : OneMorePiece(missed).op = "copy"
         /\ [job EXCEPT !.rest = <<>>, !.hit = TRUE].op = "copy"
<1>1. IsCopy(job)
  BY DEF CopyInv, ACopy, IsCopy
<1>2. ASSUME NEW missed
      PROVE  OneMorePiece(missed) = ACopy(job.src, job.dst, NextDone, Tail(job.rest), job.hit, missed)
  <2> DEFINE d == NextDone
             r == Tail(job.rest)
             k == [job EXCEPT !.done = d]
             l == [k EXCEPT !.rest = r]
  <2>1. OneMorePiece(missed) = [l EXCEPT !.missed = missed]
    BY Zenon DEF OneMorePiece
  <2>. HIDE DEF d, r
  <2>2. k = ACopy(job.src, job.dst, d, job.rest, job.hit, job.missed)
    BY <1>1, DoneIs
  <2>. HIDE DEF k
  <2>3. /\ IsCopy(k) /\ k.src = job.src /\ k.dst = job.dst /\ k.done = d /\ k.hit = job.hit
        /\ k.missed = job.missed
    BY <2>2, CopyFields
  <2>4. l = ACopy(job.src, job.dst, d, r, job.hit, job.missed)
    BY <2>3, RestIs
  <2>. HIDE DEF l
  <2>5. IsCopy(l) /\ l.src = job.src /\ l.dst = job.dst /\ l.done = d /\ l.rest = r /\ l.hit = job.hit
    BY <2>4, CopyFields
  <2>6. [l EXCEPT !.missed = missed] = ACopy(job.src, job.dst, d, r, job.hit, missed)
    BY <2>5, MissedIs
  <2>. QED
    BY <2>1, <2>6 DEF d, r
<1>3. [job EXCEPT !.rest = <<>>, !.hit = TRUE] =
        ACopy(job.src, job.dst, job.done, <<>>, TRUE, job.missed)
  BY <1>1, RestHitAre
<1>4. ASSUME NEW missed PROVE OneMorePiece(missed).op = "copy"
  BY <1>2, CopyFields
<1>5. [job EXCEPT !.rest = <<>>, !.hit = TRUE].op = "copy"
  BY <1>3, CopyFields
<1>. QED
  BY <1>2, <1>3, <1>4, <1>5

LEMMA CopyOps ==
  ASSUME TreeInv, CopyInv, copy
  PROVE  job.op = "copy" /\ (job'.op = "copy" \/ job' = Ready)
<1>1. job.op = "copy"
  BY DEF copy
<1>2. \/ \E missed : job' = OneMorePiece(missed)
      \/ job' = Ready
      \/ job' = [job EXCEPT !.rest = <<>>, !.hit = TRUE]
  BY CopyStepIs
<1>3. /\ \A missed : OneMorePiece(missed).op = "copy"
      /\ [job EXCEPT !.rest = <<>>, !.hit = TRUE].op = "copy"
  BY <1>1, MoreIs
<1>. QED
  BY <1>1, <1>2, <1>3

LEMMA SaveOps ==
  ASSUME TreeInv, SaveInv
  PROVE  /\ BeginsSave => job = Ready /\ (job'.op = "lines" \/ job'.op = "parents")
         /\ vfs_ensure_parents => job.op = "parents" /\ (job'.op = "parents" \/ job'.op = "create")
         /\ save_create => job.op = "create" /\ (job'.op = "lines" \/ job' = Ready)
         /\ save_line => job.op = "lines" /\ (job'.op = "lines" \/ job' = Ready)
<1>1. BeginsSave => job = Ready /\ (job'.op = "lines" \/ job'.op = "parents")
  BY DEF BeginsSave, editor_save, Typed, Saving
<1>2. ASSUME vfs_ensure_parents
      PROVE  job.op = "parents" /\ (job'.op = "parents" \/ job'.op = "create")
  <2>1. job.op = "parents" /\ SavesWell(job) /\ (job' = job \/ job' = [job EXCEPT !.op = "create"])
    BY <1>2, EnsureIs
  <2>. QED
    BY <2>1 DEF SavesWell
<1>3. ASSUME save_create
      PROVE  job.op = "create" /\ (job'.op = "lines" \/ job' = Ready)
  <2>1. job.op = "create" /\ SavesWell(job) /\ (job' = [job EXCEPT !.op = "lines"] \/ job' = Ready)
    BY <1>3, SaveCreateIs
  <2>. QED
    BY <2>1 DEF SavesWell
<1>4. ASSUME save_line
      PROVE  job.op = "lines" /\ (job'.op = "lines" \/ job' = Ready)
  <2>1. job.op = "lines" /\ SavesWell(job) /\ (job' = [job EXCEPT !.n = @ + 1] \/ job' = Ready)
    BY <1>4, SaveLineIs
  <2>. QED
    BY <2>1 DEF SavesWell
<1>. QED
  BY <1>1, <1>2, <1>3, <1>4

LEMMA BeginsCopyOps ==
  ASSUME BeginsCopy
  PROVE  job = Ready /\ job'.op = "copy"
  BY DEF BeginsCopy, cmd_cp, Typed, Copying

LEMMA ConstantOps == Off.op = "off" /\ Ready.op = "ready"
  BY DEF Off, Ready

(***************************************************************************)
(* The tree stays one, and what is not taken away stays.                   *)
(***************************************************************************)
DirsStay == \A x : DirIn(tree, x) => DirIn(tree', x)

LEMMA RewrittenStay ==
  ASSUME \E p, bytes : Rewritten(tree', p, bytes)
  PROVE  DirsStay
  BY RewrittenKeeps DEF DirsStay

LEMMA GrownStay ==
  ASSUME \E p, node : Grown(tree', p, node)
  PROVE  DirsStay
  BY GrownKeeps DEF DirsStay

LEMMA SameStay ==
  ASSUME tree' = tree
  PROVE  DirsStay
  BY DEF DirsStay

\* The actions that remove nothing but files, with what else they leave alone.
LEMMA StayingSteps ==
  ASSUME TreeInv, CwdInv, BootInv, CopyInv, SaveInv,
         \/ config_init \/ config_write_defaults \/ config_load \/ BeginsCopy \/ copy
         \/ BeginsSave \/ vfs_ensure_parents \/ save_create \/ save_line
         \/ \E input \in Inputs : cmd_touch(input) \/ cmd_mkdir(input) \/ cmd_rm(input)
  PROVE  /\ GoodTree(tree') /\ faults' \in Nat /\ DirsStay
         /\ cwd' = cwd /\ gone' = gone /\ homeless' = homeless
<1>0. GoodTree(tree) /\ faults \in Nat /\ GoodText(cwd)
  BY DEF TreeInv, CwdInv
<1>1. CASE config_init
  <2>1. GoodTree(tree') /\ faults' \in Nat /\ (tree' = tree \/ Grown(tree', ConfigPath, File(<<>>)))
    BY <1>1, SettingsOpened
  <2>2. cwd' = cwd /\ gone' = gone /\ homeless' = homeless
    BY <1>1 DEF config_init
  <2>. QED
    BY <2>1, <2>2, SameStay, GrownStay
<1>2. CASE config_write_defaults
  <2>1. GoodTree(tree') /\ faults' \in Nat /\ (tree' = tree \/ \E bytes : Rewritten(tree', ConfigPath, bytes))
    BY <1>2, DefaultsWritten
  <2>2. cwd' = cwd /\ gone' = gone /\ homeless' = homeless
    BY <1>2 DEF config_write_defaults
  <2>. QED
    BY <2>1, <2>2, SameStay, RewrittenStay
<1>3. CASE config_load
  <2>1. tree' = tree /\ faults' \in Nat
    BY <1>3, TreeAlone
  <2>2. cwd' = cwd /\ gone' = gone /\ homeless' = homeless
    BY <1>3 DEF config_load
  <2>. QED
    BY <1>0, <2>1, <2>2, SameStay
<1>4. CASE BeginsCopy
  <2>1. PICK two \in InputPairs : cmd_cp(two[1], two[2])
    BY <1>4 DEF BeginsCopy
  <2>2. AnInput(two[1]) /\ AnInput(two[2])
    BY InputTyped
  <2>3. GoodTree(tree') /\ faults' = faults /\ Grown(tree', Resolved(two[2]).names, File(<<>>))
    BY <1>0, <2>1, <2>2, CopyBeginsIs
  <2>4. cwd' = cwd /\ gone' = gone /\ homeless' = homeless
    BY <2>1 DEF cmd_cp
  <2>. QED
    BY <1>0, <2>3, <2>4, GrownStay
<1>5. CASE copy
  <2>1. GoodTree(tree') /\ faults' \in Nat /\ (tree' = tree \/ \E bytes : Rewritten(tree', job.dst, bytes))
    BY <1>5, CopyStepIs
  <2>2. cwd' = cwd /\ gone' = gone /\ homeless' = homeless
    BY <1>5 DEF copy
  <2>. QED
    BY <2>1, <2>2, SameStay, RewrittenStay
<1>6. CASE BeginsSave
  <2>1. tree' = tree /\ faults' \in Nat
    BY <1>6, TreeAlone DEF BeginsSave
  <2>2. cwd' = cwd /\ gone' = gone /\ homeless' = homeless
    BY <1>6 DEF BeginsSave, editor_save
  <2>. QED
    BY <1>0, <2>1, <2>2, SameStay
<1>7. CASE vfs_ensure_parents
  <2>1. /\ GoodTree(tree') /\ faults' \in Nat
        /\ (tree' = tree \/ \E n : Grown(tree', SubSeq(job.path.names, 1, n), Store!Directory))
    BY <1>7, EnsureIs
  <2>2. cwd' = cwd /\ gone' = gone /\ homeless' = homeless
    BY <1>7 DEF vfs_ensure_parents
  <2>. QED
    BY <2>1, <2>2, SameStay, GrownStay
<1>8. CASE save_create
  <2>1. GoodTree(tree') /\ faults' \in Nat /\ (tree' = tree \/ Grown(tree', job.path.names, File(<<>>)))
    BY <1>8, SaveCreateIs
  <2>2. cwd' = cwd /\ gone' = gone /\ homeless' = homeless
    BY <1>8 DEF save_create
  <2>. QED
    BY <2>1, <2>2, SameStay, GrownStay
<1>9. CASE save_line
  <2>1. GoodTree(tree') /\ faults' \in Nat /\ (tree' = tree \/ \E bytes : Rewritten(tree', job.path.names, bytes))
    BY <1>9, SaveLineIs
  <2>2. cwd' = cwd /\ gone' = gone /\ homeless' = homeless
    BY <1>9 DEF save_line
  <2>. QED
    BY <2>1, <2>2, SameStay, RewrittenStay
<1>10. ASSUME NEW input \in Inputs, cmd_touch(input) \/ cmd_mkdir(input) \/ cmd_rm(input)
       PROVE  /\ GoodTree(tree') /\ faults' \in Nat /\ DirsStay
              /\ cwd' = cwd /\ gone' = gone /\ homeless' = homeless
  <2>0. AnInput(input)
    BY InputTyped
  <2>1. cwd' = cwd /\ gone' = gone /\ homeless' = homeless /\ faults' \in Nat
    BY <1>0, <1>10, RunsIs DEF cmd_touch, cmd_mkdir, cmd_rm
  <2>2. CASE cmd_touch(input)
    <3>1. GoodTree(tree') /\ (tree' = tree \/ Grown(tree', Resolved(input).names, File(<<>>)))
      BY <1>0, <2>0, <2>2, TouchIs
    <3>. QED
      BY <2>1, <3>1, SameStay, GrownStay
  <2>3. CASE cmd_mkdir(input)
    <3>1. GoodTree(tree') /\ (tree' = tree \/ Grown(tree', Resolved(input).names, Store!Directory))
      BY <1>0, <2>0, <2>3, MakeIs
    <3>. QED
      BY <2>1, <3>1, SameStay, GrownStay
  <2>4. CASE cmd_rm(input)
    <3> DEFINE p == Resolved(input).names
    <3>1. GoodTree(tree') /\ (tree' = tree \/ (FileIn(tree, p) /\ Lost(tree', {p})))
      BY <2>4, RemoveIs
    <3>. HIDE DEF p
    <3>2. ASSUME FileIn(tree, p), Lost(tree', {p}), NEW x, DirIn(tree, x) PROVE DirIn(tree', x)
      <4>1. x # p \/ x = <<>>
        BY <3>2 DEF FileIn, DirIn
      <4>. QED
        BY <3>2, <4>1, SameKind DEF Lost, DirIn
    <3>. QED
      BY <2>1, <3>1, <3>2, SameStay DEF DirsStay
  <2>. QED
    BY <1>10, <2>2, <2>3, <2>4
<1>. QED
  BY <1>1, <1>2, <1>3, <1>4, <1>5, <1>6, <1>7, <1>8, <1>9, <1>10

LEMMA TreeStep ==
  ASSUME FilesInv, Next
  PROVE  GoodTree(tree') /\ faults' \in Nat
<1>0. /\ TreeInv /\ CwdInv /\ BootInv /\ CopyInv /\ SaveInv
      /\ GoodTree(tree) /\ faults \in Nat /\ GoodText(cwd)
  BY DEF FilesInv, TreeInv, CwdInv
<1>1. CASE power_on \/ power_off \/ cmd_cd_root \/ \E input \in Inputs : cmd_cd(input)
  BY <1>0, <1>1, TreeAlone
<1>2. CASE first_boot_setup
  BY <1>0, <1>2, SystemDirMade
<1>3. CASE \/ config_init \/ config_write_defaults \/ config_load \/ BeginsCopy \/ copy
           \/ BeginsSave \/ vfs_ensure_parents \/ save_create \/ save_line
           \/ \E input \in Inputs : cmd_touch(input) \/ cmd_mkdir(input) \/ cmd_rm(input)
  BY <1>0, <1>3, StayingSteps
<1>4. ASSUME NEW input \in Inputs, cmd_rmdir(input)
      PROVE  GoodTree(tree') /\ faults' \in Nat
  <2>1. faults' = faults
    BY <1>4, RunsIs DEF cmd_rmdir
  <2>. QED
    BY <1>0, <1>4, <2>1, RmdirIs
<1>5. ASSUME NEW two \in InputPairs, cmd_mv(two[1], two[2])
      PROVE  GoodTree(tree') /\ faults' \in Nat
  <2>1. faults' = faults
    BY <1>5, RunsIs DEF cmd_mv
  <2>2. AnInput(two[1]) /\ AnInput(two[2])
    BY InputTyped
  <2>. QED
    BY <1>0, <1>5, <2>1, <2>2, MoveIs
<1>. QED
  BY <1>1, <1>2, <1>3, <1>4, <1>5, NextIs DEF Quick

LEMMA FirstBootJob ==
  ASSUME first_boot_setup
  PROVE  \E hit : IF Len(job.todo) = 1 THEN EnterHome(hit, homeless')
                  ELSE job' = Boot("dirs", Tail(job.todo), job.start, hit) /\ cwd' = cwd /\ gone' = gone
  BY DEF first_boot_setup, MadeDir

\* Taking a directory away.
LEMMA RmdirLeaves ==
  ASSUME TreeInv, GoodText(cwd), NEW input, cmd_rmdir(input), NEW x \in Path, DirIn(tree, x)
  PROVE  \/ DirIn(tree', x)
         \/ tree' # tree /\ x = Resolved(input).names
<1> DEFINE p == Resolved(input).names
<1>1. tree' = tree \/ Lost(tree', {p})
  BY RmdirIs
<1>. HIDE DEF p
<1>2. ASSUME Lost(tree', {p}), x # p PROVE DirIn(tree', x)
  BY <1>2, SameKind DEF Lost
<1>3. ASSUME Lost(tree', {p}), x = p PROVE tree' # tree \/ DirIn(tree', x)
  BY <1>3
<1>. QED
  BY <1>1, <1>2, <1>3 DEF p

LEMMA MoveLeaves ==
  ASSUME TreeInv, GoodText(cwd), NEW from, NEW to, AnInput(from), AnInput(to), cmd_mv(from, to),
         NEW x \in Path, DirIn(tree, x)
  PROVE  \/ DirIn(tree', x)
         \/ tree' # tree /\ Resolved(from).names \in DOMAIN tree /\ Store!Inside(x, Resolved(from).names)
<1> DEFINE p == Resolved(from).names
           q == Resolved(to).names
<1>1. \/ tree' = tree
      \/ /\ p \in DOMAIN tree
         /\ q \in Path \ {<<>>} /\ q \notin DOMAIN tree
         /\ \A y \in Path : ~Store!Inside(y, p) /\ ~Store!Inside(y, q) => Same(tree, tree', y)
  BY MoveIs
<1>. HIDE DEF p, q
<1>2. GoodTree(tree)
  BY DEF TreeInv
<1>3. CASE x = <<>>
  BY <1>3 DEF DirIn
<1>4. CASE x # <<>> /\ tree' # tree
  <2>1. x \in DOMAIN tree
    BY <1>4 DEF DirIn
  <2>2. ~Store!Inside(x, q)
    BY <1>1, <1>2, <1>4, <2>1, NothingInside
  <2>3. ~Store!Inside(x, p) => Same(tree, tree', x)
    BY <1>1, <1>4, <2>2
  <2>. QED
    BY <1>1, <1>4, <2>3, SameKind DEF p
<1>. QED
  BY <1>3, <1>4

LEMMA HomeStep ==
  ASSUME FilesInv, Next
  PROVE  /\ HomeInv'
         /\ power_on \/ first_boot_setup => job'.op = "dirs" \/ homeless' \/ DirIn(tree', Home)
<1>0. /\ TreeInv /\ CwdInv /\ HomeInv /\ BootInv /\ CopyInv /\ SaveInv
      /\ GoodTree(tree) /\ GoodText(cwd)
  BY DEF FilesInv, TreeInv, CwdInv
<1>1. CASE power_on
  <2>1. tree' = tree /\ homeless' = homeless /\ job = Off /\ job.op # "dirs"
    BY <1>1, ConstantOps DEF power_on
  <2>2. CASE IsDirectory(Etc)
    <3>1. DirIn(tree, Etc)
      BY <2>2, DirsAre
    <3>2. homeless \/ DirIn(tree, Home)
      BY <1>0, <2>1, <3>1 DEF HomeInv
    <3>. QED
      BY <2>1, <3>2 DEF HomeInv
  <2>3. CASE ~IsDirectory(Etc)
    <3>1. \E hit : job' = Boot("dirs", SystemDirs, Held, hit)
      BY <1>1, <2>3 DEF power_on
    <3>2. job'.op = "dirs" /\ job'.todo = <<Etc, Home, Bin, Docs>>
      <4>1. job'.op = "dirs" /\ job'.todo = SystemDirs
        BY <3>1, BootIs
      <4>2. SystemDirs = <<Etc, Home, Bin, Docs>>
        BY DEF SystemDirs, Bin, Docs
      <4>. QED
        BY <4>1, <4>2
    <3>3. homeless \/ DirIn(tree, Home) \/ Home \notin DOMAIN tree
      BY <1>0 DEF HomeInv
    <3>. QED
      BY <2>1, <3>2, <3>3 DEF HomeInv
  <2>. QED
    BY <2>2, <2>3
<1>2. CASE first_boot_setup
  <2> DEFINE p == Head(job.todo)
  <2>1. /\ job.op = "dirs" /\ job.todo \in DirsLeft
        /\ tree' = tree \/ Grown(tree', p, Store!Directory)
        /\ \/ homeless' = TRUE
           \/ /\ homeless' = homeless
              /\ DirIn(tree, Store!Parent(p)) /\ p \notin DOMAIN tree => Grown(tree', p, Store!Directory)
    BY <1>0, <1>2, SystemDirMade
  <2>2. PICK hit : IF Len(job.todo) = 1 THEN EnterHome(hit, homeless')
                   ELSE job' = Boot("dirs", Tail(job.todo), job.start, hit) /\ cwd' = cwd /\ gone' = gone
    BY <1>2, FirstBootJob
  <2>3. DirIn(tree, Home) => DirIn(tree', Home)
    BY <2>1, SameStay, GrownStay DEF DirsStay
  <2>4. CASE homeless' \/ DirIn(tree', Home)
    BY <2>4 DEF HomeInv
  <2>5. CASE ~(homeless' \/ DirIn(tree', Home))
    <3>1. /\ Home \notin DOMAIN tree
          /\ job.todo = <<Etc, Home, Bin, Docs>> \/ job.todo = <<Home, Bin, Docs>>
      BY <1>0, <2>1, <2>3, <2>5, ConstantOps DEF HomeInv
    <3>2. CASE job.todo = <<Home, Bin, Docs>>
      <4>1. p = Home
        BY <3>2
      <4>2. DirIn(tree, Store!Parent(Home))
        BY SystemPaths DEF DirIn
      <4>3. Grown(tree', Home, Store!Directory)
        BY <2>1, <2>5, <3>1, <4>1, <4>2
      <4>. QED
        BY <2>5, <4>3, GrownKeeps, EmptyTyped
    <3>3. CASE job.todo = <<Etc, Home, Bin, Docs>>
      <4>1. p = Etc /\ Len(job.todo) = 4 /\ Tail(job.todo) = <<Home, Bin, Docs>>
        BY <3>3, TailsAre
      <4>2. job' = Boot("dirs", Tail(job.todo), job.start, hit)
        BY <2>2, <4>1
      <4>3. job'.op = "dirs" /\ job'.todo = Tail(job.todo)
        BY <4>2, BootIs
      <4>4. Home \notin DOMAIN tree'
        BY <2>1, <3>1, <4>1, SystemPaths DEF Grown
      <4>. QED
        BY <4>1, <4>3, <4>4 DEF HomeInv
    <3>. QED
      BY <3>1, <3>2, <3>3
  <2>. QED
    BY <2>4, <2>5
<1>3. ASSUME job.op # "dirs", job # Off, ~power_on, ~first_boot_setup, homeless' \/ DirIn(tree', Home) \/ (homeless' = homeless /\ DirsStay)
      PROVE  HomeInv'
  BY <1>0, <1>3 DEF HomeInv, DirsStay
<1>4. CASE \/ config_init \/ config_write_defaults \/ config_load \/ BeginsCopy \/ copy
           \/ BeginsSave \/ vfs_ensure_parents \/ save_create \/ save_line
           \/ \E input \in Inputs : cmd_touch(input) \/ cmd_mkdir(input) \/ cmd_rm(input)
  <2>1. DirsStay /\ homeless' = homeless
    BY <1>0, <1>4, StayingSteps
  <2>2. ASSUME NEW input \in Inputs, cmd_touch(input) \/ cmd_mkdir(input) \/ cmd_rm(input)
        PROVE  job = Ready
    BY <2>2 DEF cmd_touch, cmd_mkdir, cmd_rm, Typed
  <2>3. job.op # "dirs" /\ job # Off
    BY <1>0, <1>4, <2>2, BootOps, BeginsCopyOps, CopyOps, SaveOps, ConstantOps
  <2>. QED
    BY <1>0, <2>1, <2>3, BootOps DEF HomeInv, DirsStay
<1>5. CASE power_off
  <2>1. tree' = tree /\ homeless' = (homeless \/ job.op = "dirs") /\ job # Off
    BY <1>5 DEF power_off
  <2>2. homeless' \/ DirIn(tree', Home)
    BY <1>0, <2>1 DEF HomeInv
  <2>. QED
    BY <2>2 DEF HomeInv
<1>6. CASE cmd_cd_root \/ \E input \in Inputs : cmd_cd(input)
  <2>1. tree' = tree /\ homeless' = homeless /\ job = Ready
    BY <1>6 DEF cmd_cd_root, cmd_cd, Typed
  <2>. QED
    BY <1>0, <2>1, ConstantOps DEF HomeInv
<1>7. ASSUME NEW input \in Inputs, cmd_rmdir(input)
      PROVE  HomeInv'
  <2> DEFINE p == Resolved(input).names
  <2>1. job = Ready /\ homeless' = (homeless \/ (tree' # tree /\ p = Home))
    BY <1>7 DEF cmd_rmdir, Typed, Leaves
  <2>2. homeless \/ DirIn(tree, Home)
    BY <1>0, <2>1, ConstantOps DEF HomeInv
  <2>3. DirIn(tree, Home) => DirIn(tree', Home) \/ (tree' # tree /\ Home = p)
    BY <1>0, <1>7, RmdirLeaves, SystemPaths
  <2>. QED
    BY <2>1, <2>2, <2>3 DEF HomeInv
<1>8. ASSUME NEW two \in InputPairs, cmd_mv(two[1], two[2])
      PROVE  HomeInv'
  <2> DEFINE p == Resolved(two[1]).names
  <2>0. AnInput(two[1]) /\ AnInput(two[2])
    BY InputTyped
  <2>1. job = Ready /\ homeless' = (homeless \/ (tree' # tree /\ p = Home))
    BY <1>8 DEF cmd_mv, Typed, Leaves
  <2>2. homeless \/ DirIn(tree, Home)
    BY <1>0, <2>1, ConstantOps DEF HomeInv
  <2>3. DirIn(tree, Home) =>
          DirIn(tree', Home) \/ (tree' # tree /\ p \in DOMAIN tree /\ Store!Inside(Home, p))
    BY <1>0, <1>8, <2>0, MoveLeaves, SystemPaths
  <2>4. p \in DOMAIN tree /\ Store!Inside(Home, p) => p = Home
    <3>. SUFFICES ASSUME p \in DOMAIN tree, Store!Inside(Home, p) PROVE p = Home
      OBVIOUS
    <3>. HIDE DEF p
    <3>1. p \in Path /\ p # <<>>
      BY <1>0 DEF GoodTree
    <3>2. Home \in Path /\ Len(Home) = 1 /\ p \in Seq(Name) /\ Home \in Seq(Name)
      BY <3>1, SystemPaths DEF Home, Path
    <3>3. Len(p) <= 1 /\ \A i \in 1..Len(p) : Home[i] = p[i]
      BY <3>1, <3>2, InsideIs
    <3>4. Len(p) = 1
      BY <3>1, <3>2, <3>3
    <3>. QED
      BY <3>2, <3>3, <3>4
  <2>. QED
    BY <2>1, <2>2, <2>3, <2>4 DEF HomeInv
<1>9. job.op # "dirs" /\ job # Off => ~power_on /\ ~first_boot_setup
  BY BootOps
<1>10. HomeInv'
  BY <1>1, <1>2, <1>4, <1>5, <1>6, <1>7, <1>8, NextIs DEF Quick
<1>11. job'.op # "dirs" /\ (power_on \/ first_boot_setup) => homeless' \/ DirIn(tree', Home)
  <2>1. (power_on \/ first_boot_setup) /\ job'.op # "dirs" => job'.op = "settings"
    BY BootOps
  <2>2. job'.op = "settings" => job' # Off
    BY ConstantOps
  <2>. QED
    BY <1>10, <2>1, <2>2 DEF HomeInv
<1>. QED
  BY <1>10, <1>11

LEMMA HomeTyped == GoodText(Text(Home, FALSE)) /\ Text(Home, FALSE).names = Home
  BY SystemPaths, TextTyped

LEMMA CwdStep ==
  ASSUME FilesInv, Next
  PROVE  CwdInv'
<1>0. /\ TreeInv /\ CwdInv /\ HomeInv /\ BootInv /\ CopyInv /\ SaveInv
      /\ GoodTree(tree) /\ GoodText(cwd) /\ (gone \/ DirIn(tree, cwd.names)) /\ cwd.names \in Path
  BY GoodTextIs DEF FilesInv, TreeInv, CwdInv
<1>1. ASSUME cwd' = cwd, gone' = gone, DirsStay
      PROVE  CwdInv'
  BY <1>0, <1>1 DEF CwdInv, DirsStay
<1>2. ASSUME NEW hit, NEW homeless_, EnterHome(hit, homeless_), homeless_ \/ DirIn(tree', Home)
      PROVE  CwdInv'
  <2>1. cwd' = Text(Home, FALSE) /\ gone' = homeless_
    BY <1>2 DEF EnterHome
  <2>. QED
    BY <1>2, <2>1, HomeTyped DEF CwdInv
<1>3. CASE power_on
  <2>1. tree' = tree /\ homeless' = homeless
    BY <1>3 DEF power_on
  <2>2. \/ cwd' = cwd /\ gone' = gone
        \/ EnterHome(FALSE, homeless) /\ job'.op = "settings"
    <3>1. \/ cwd' = cwd /\ gone' = gone
          \/ EnterHome(FALSE, homeless)
      BY <1>3 DEF power_on
    <3>2. ASSUME EnterHome(FALSE, homeless) PROVE job'.op = "settings"
      <4>1. \E hit : job' = Boot("settings", <<>>, Held, hit)
        BY <3>2 DEF EnterHome
      <4>. QED
        BY <4>1, BootIs
    <3>. QED
      BY <3>1, <3>2
  <2>3. job'.op = "settings" => homeless \/ DirIn(tree', Home)
    BY <1>3, <2>1, HomeStep
  <2>. QED
    BY <1>1, <1>2, <2>1, <2>2, <2>3, SameStay
<1>4. CASE first_boot_setup
  <2>1. DirsStay
    BY <1>0, <1>4, SystemDirMade, SameStay, GrownStay
  <2>2. PICK hit : IF Len(job.todo) = 1 THEN EnterHome(hit, homeless')
                   ELSE job' = Boot("dirs", Tail(job.todo), job.start, hit) /\ cwd' = cwd /\ gone' = gone
    BY <1>4, FirstBootJob
  <2>3. CASE Len(job.todo) = 1
    <3>1. EnterHome(hit, homeless')
      BY <2>2, <2>3
    <3>2. \E h : job' = Boot("settings", <<>>, Held, h)
      BY <3>1 DEF EnterHome
    <3>3. job'.op = "settings"
      BY <3>2, BootIs
    <3>4. homeless' \/ DirIn(tree', Home)
      BY <1>4, <3>3, HomeStep
    <3>. QED
      BY <1>2, <3>1, <3>4
  <2>4. CASE Len(job.todo) # 1
    BY <1>1, <2>1, <2>2, <2>4
  <2>. QED
    BY <2>3, <2>4
<1>5. CASE \/ config_init \/ config_write_defaults \/ config_load \/ BeginsCopy \/ copy
           \/ BeginsSave \/ vfs_ensure_parents \/ save_create \/ save_line
           \/ \E input \in Inputs : cmd_touch(input) \/ cmd_mkdir(input) \/ cmd_rm(input)
  BY <1>0, <1>1, <1>5, StayingSteps
<1>6. CASE power_off
  <2>1. cwd' = RootText
    BY <1>6 DEF power_off
  <2>. QED
    BY <2>1, RootTyped DEF CwdInv, DirIn
<1>7. CASE cmd_cd_root
  <2>1. cwd' = RootText
    BY <1>7 DEF cmd_cd_root, Goes
  <2>. QED
    BY <2>1, RootTyped DEF CwdInv, DirIn
<1>8. ASSUME NEW input \in Inputs, cmd_cd(input)
      PROVE  CwdInv'
  <2>0. AnInput(input)
    BY InputTyped
  <2>1. cwd' = Resolved(input) /\ tree' = tree /\ DirIn(tree, Resolved(input).names)
    BY <1>8, DirsAre DEF cmd_cd, Goes
  <2>2. GoodText(Resolved(input))
    BY <1>0, <2>0, ResolvedGood
  <2>. QED
    BY <2>1, <2>2 DEF CwdInv
<1>9. ASSUME NEW input \in Inputs, cmd_rmdir(input)
      PROVE  CwdInv'
  <2> DEFINE p == Resolved(input).names
  <2>1. cwd' = cwd /\ gone' = (gone \/ (tree' # tree /\ Store!Inside(cwd.names, p)))
    BY <1>9, RunsIs DEF cmd_rmdir, Leaves, Inside
  <2>2. DirIn(tree, cwd.names) => DirIn(tree', cwd.names) \/ (tree' # tree /\ cwd.names = p)
    BY <1>0, <1>9, RmdirLeaves
  <2>3. cwd.names = p => Store!Inside(cwd.names, p)
    BY <1>0, InsideItself
  <2>. QED
    BY <1>0, <2>1, <2>2, <2>3 DEF CwdInv
<1>10. ASSUME NEW two \in InputPairs, cmd_mv(two[1], two[2])
       PROVE  CwdInv'
  <2> DEFINE p == Resolved(two[1]).names
  <2>0. AnInput(two[1]) /\ AnInput(two[2])
    BY InputTyped
  <2>1. cwd' = cwd /\ gone' = (gone \/ (tree' # tree /\ Store!Inside(cwd.names, p)))
    BY <1>10, RunsIs DEF cmd_mv, Leaves, Inside
  <2>2. DirIn(tree, cwd.names) =>
          DirIn(tree', cwd.names) \/ (tree' # tree /\ p \in DOMAIN tree /\ Store!Inside(cwd.names, p))
    BY <1>0, <1>10, <2>0, MoveLeaves
  <2>. QED
    BY <1>0, <2>1, <2>2 DEF CwdInv
<1>. QED
  BY <1>3, <1>4, <1>5, <1>6, <1>7, <1>8, <1>9, <1>10, NextIs DEF Quick

(***************************************************************************)
(* What the boot remembers stays right.                                    *)
(***************************************************************************)
LEMMA HeldIs ==
  /\ FileIn(tree, ConfigPath) => Held = {Bytes(ConfigPath)}
  /\ ~FileIn(tree, ConfigPath) => Held = {}
  BY DirsAre DEF Held

LEMMA BootStep ==
  ASSUME FilesInv, Next
  PROVE  BootInv'
<1>0. /\ TreeInv /\ CwdInv /\ HomeInv /\ BootInv /\ CopyInv /\ SaveInv
      /\ GoodTree(tree)
  BY DEF FilesInv, TreeInv
<1>1. ASSUME job'.op \notin {"dirs", "settings", "fill", "load"}
      PROVE  BootInv'
  BY <1>1 DEF BootInv
<1>2. ASSUME Held' = Held, NEW hit, EnterHome(hit, homeless) \/ EnterHome(hit, homeless')
      PROVE  BootInv'
  <2>1. \E h : job' = Boot("settings", <<>>, Held, h)
    BY <1>2 DEF EnterHome
  <2>2. job'.op = "settings" /\ job'.start = Held
    BY <2>1, BootIs
  <2>. QED
    BY <1>2, <2>2 DEF BootInv
<1>3. CASE power_on
  <2>1. tree' = tree
    BY <1>3 DEF power_on
  <2>2. Held' = Held
    BY <2>1, SameAll, HeldSame
  <2>3. (\E hit : EnterHome(hit, homeless)) \/ \E hit : job' = Boot("dirs", SystemDirs, Held, hit)
    BY <1>3 DEF power_on
  <2>4. ASSUME NEW hit, job' = Boot("dirs", SystemDirs, Held, hit)
        PROVE  BootInv'
    <3>1. job'.op = "dirs" /\ job'.start = Held /\ job'.todo = SystemDirs
      BY <2>4, BootIs
    <3>2. SystemDirs \in DirsLeft
      BY DEF SystemDirs, DirsLeft, Bin, Docs
    <3>. QED
      BY <2>2, <3>1, <3>2 DEF BootInv
  <2>. QED
    BY <1>2, <2>2, <2>3, <2>4
<1>4. CASE first_boot_setup
  <2> DEFINE p == Head(job.todo)
  <2>1. /\ job.op = "dirs" /\ job.todo \in DirsLeft /\ p \in {Etc, Home, Bin, Docs}
        /\ tree' = tree \/ Grown(tree', p, Store!Directory)
    BY <1>0, <1>4, SystemDirMade
  <2>2. Held' = Held
    <3>1. Same(tree, tree', ConfigPath)
      BY <2>1, SameAll, GrownKeeps, SystemPaths
    <3>. QED
      BY <3>1, HeldSame
  <2>3. PICK hit : IF Len(job.todo) = 1 THEN EnterHome(hit, homeless')
                   ELSE job' = Boot("dirs", Tail(job.todo), job.start, hit) /\ cwd' = cwd /\ gone' = gone
    BY <1>4, FirstBootJob
  <2>4. CASE Len(job.todo) = 1
    BY <1>2, <2>2, <2>3, <2>4
  <2>5. CASE Len(job.todo) # 1
    <3>1. job' = Boot("dirs", Tail(job.todo), job.start, hit)
      BY <2>3, <2>5
    <3>2. job'.op = "dirs" /\ job'.todo = Tail(job.todo) /\ job'.start = job.start
      BY <3>1, BootIs
    <3>3. Tail(job.todo) \in DirsLeft
      <4>1. CASE job.todo = <<Etc, Home, Bin, Docs>>
        BY <4>1, TailsAre DEF DirsLeft
      <4>2. CASE job.todo = <<Home, Bin, Docs>>
        BY <4>2, TailsAre DEF DirsLeft
      <4>3. CASE job.todo = <<Bin, Docs>>
        BY <4>3, TailsAre DEF DirsLeft
      <4>4. job.todo # <<Docs>>
        BY <2>5, TailsAre
      <4>. QED
        BY <2>1, <4>1, <4>2, <4>3, <4>4 DEF DirsLeft
    <3>4. job.start = Held
      BY <1>0, <2>1 DEF BootInv
    <3>. QED
      BY <2>2, <3>2, <3>3, <3>4 DEF BootInv
  <2>. QED
    BY <2>4, <2>5
<1>5. CASE config_init
  <2>1. /\ \/ tree' = tree \/ Grown(tree', ConfigPath, File(<<>>))
        /\ \/ ConfigPath \in DOMAIN tree /\ tree' = tree /\ Phase("load", job.hit)
           \/ /\ ConfigPath \notin DOMAIN tree /\ Phase("fill", job.hit)
              /\ IF DirIn(tree, Etc) THEN Grown(tree', ConfigPath, File(<<>>)) ELSE tree' = tree
           \/ Phase("fill", TRUE)
    BY <1>0, <1>5, SettingsOpened
  <2>2. job.op = "settings" /\ job.start = Held
    BY <1>0, <1>5 DEF config_init, BootInv
  <2>3. CASE Phase("fill", TRUE)
    <3>1. PICK h : h = TRUE /\ job' = Boot("fill", <<>>, job.start, h)
      BY <2>3 DEF Phase
    <3>2. job' = Boot("fill", <<>>, job.start, h)
      BY <3>1
    <3>3. job'.op = "fill" /\ job'.hit = h
      BY <3>2, BootIs
    <3>. QED
      BY <3>1, <3>3 DEF BootInv
  <2>4. CASE ConfigPath \in DOMAIN tree /\ tree' = tree /\ Phase("load", job.hit)
    <3>1. job' = Boot("load", <<>>, job.start, job.hit)
      BY <2>4 DEF Phase
    <3>2. job'.op = "load" /\ job'.start = Held
      BY <2>2, <3>1, BootIs
    <3>3. Held' = Held
      BY <2>4, SameAll, HeldSame
    <3>4. FileIn(tree, ConfigPath) \/ DirIn(tree, ConfigPath)
      BY <2>4 DEF FileIn, DirIn
    <3>5. CASE FileIn(tree, ConfigPath)
      <4>1. Held # {}
        BY <3>5, HeldIs
      <4>. QED
        BY <3>2, <3>3, <4>1 DEF BootInv
    <3>6. CASE DirIn(tree, ConfigPath)
      <4>1. DirIn(tree', ConfigPath)
        BY <2>4, <3>6
      <4>. QED
        BY <3>2, <3>3, <4>1 DEF BootInv
    <3>. QED
      BY <3>4, <3>5, <3>6
  <2>5. CASE /\ ConfigPath \notin DOMAIN tree /\ Phase("fill", job.hit)
             /\ IF DirIn(tree, Etc) THEN Grown(tree', ConfigPath, File(<<>>)) ELSE tree' = tree
    <3>1. job' = Boot("fill", <<>>, job.start, job.hit)
      BY <2>5 DEF Phase
    <3>2. job'.op = "fill" /\ job'.start = Held
      BY <2>2, <3>1, BootIs
    <3>3. Held = {}
      BY <2>5, HeldIs DEF FileIn
    <3>4. DirIn(tree', Etc) => FileIn(tree', ConfigPath) /\ tree'[ConfigPath].read.bytes = <<>>
      <4>1. CASE DirIn(tree, Etc)
        BY <2>5, <4>1, GrownKeeps, EmptyTyped
      <4>2. CASE ~DirIn(tree, Etc)
        BY <2>5, <4>2
      <4>. QED
        BY <4>1, <4>2
    <3>. QED
      BY <3>2, <3>3, <3>4 DEF BootInv, Bytes
  <2>. QED
    BY <2>1, <2>3, <2>4, <2>5
<1>6. CASE config_write_defaults
  <2>1. \/ Phase("load", TRUE)
        \/ /\ Phase("load", job.hit)
           /\ IF FileIn(tree, ConfigPath)
              THEN \E bytes : /\ Rewritten(tree', ConfigPath, bytes)
                              /\ Bytes(ConfigPath) = <<>> => bytes = Defaults
              ELSE tree' = tree
    BY <1>0, <1>6, DefaultsWritten
  <2>2. \/ job.hit
        \/ job.start = {} /\ (DirIn(tree, Etc) => FileIn(tree, ConfigPath) /\ Bytes(ConfigPath) = <<>>)
    BY <1>0, <1>6 DEF config_write_defaults, BootInv
  <2>3. CASE Phase("load", TRUE)
    <3>1. PICK h : h = TRUE /\ job' = Boot("load", <<>>, job.start, h)
      BY <2>3 DEF Phase
    <3>2. job' = Boot("load", <<>>, job.start, h)
      BY <3>1
    <3>3. job'.op = "load" /\ job'.hit = h
      BY <3>2, BootIs
    <3>. QED
      BY <3>1, <3>3 DEF BootInv
  <2>4. CASE /\ Phase("load", job.hit)
             /\ IF FileIn(tree, ConfigPath)
                THEN \E bytes : /\ Rewritten(tree', ConfigPath, bytes)
                                /\ Bytes(ConfigPath) = <<>> => bytes = Defaults
                ELSE tree' = tree
    <3>1. job' = Boot("load", <<>>, job.start, job.hit)
      BY <2>4 DEF Phase
    <3>2. job'.op = "load" /\ job'.start = job.start /\ job'.hit = job.hit
      BY <3>1, BootIs
    <3>3. CASE job.hit
      BY <3>2, <3>3 DEF BootInv
    <3>4. CASE job.start = {} /\ FileIn(tree, ConfigPath) /\ Bytes(ConfigPath) = <<>>
      <4>1. Rewritten(tree', ConfigPath, Defaults)
        BY <2>4, <3>4
      <4>2. FileIn(tree', ConfigPath) /\ tree'[ConfigPath].read.bytes = Defaults
        BY <4>1, RewrittenKeeps
      <4>. QED
        BY <3>2, <3>4, <4>2 DEF BootInv, Bytes
    <3>5. CASE job.start = {} /\ ~DirIn(tree, Etc)
      <4>1. ~DirIn(tree', Etc)
        BY <2>4, <3>5, RewrittenKeeps
      <4>. QED
        BY <3>2, <3>5, <4>1 DEF BootInv
    <3>. QED
      BY <2>2, <3>3, <3>4, <3>5
  <2>. QED
    BY <2>1, <2>3, <2>4
<1>7. CASE \/ config_load \/ power_off \/ Quick \/ BeginsCopy \/ copy
           \/ BeginsSave \/ vfs_ensure_parents \/ save_create \/ save_line
  <2>1. job'.op \in {"off", "ready", "copy", "parents", "create", "lines"}
    BY <1>0, <1>7, BootOps, QuickOps, BeginsCopyOps, CopyOps, SaveOps, ConstantOps
  <2>. QED
    BY <1>1, <2>1
<1>. QED
  BY <1>3, <1>4, <1>5, <1>6, <1>7, NextIs

(***************************************************************************)
(* Of cp: what there was to copy stays copied or to be copied.             *)
(***************************************************************************)
LEMMA MovedOver ==
  ASSUME NEW S, NEW b \in Seq(S), NEW rest \in Seq(S), rest # <<>>
  PROVE  Append(b, Head(rest)) \o Tail(rest) = b \o rest /\ Tail(rest) \in Seq(S)
<1>1. Head(rest) \in S /\ Tail(rest) \in Seq(S) /\ rest = <<Head(rest)>> \o Tail(rest)
  OBVIOUS
<1> DEFINE x == Head(rest)
           t == Tail(rest)
<1>. HIDE DEF x, t
<1>2. x \in S /\ t \in Seq(S) /\ rest = <<x>> \o t
  BY <1>1 DEF x, t
<1>3. Append(b, x) = b \o <<x>>
  BY <1>2
<1>4. <<x>> \in Seq(S)
  BY <1>2
<1> DEFINE one == <<x>>
<1>. HIDE DEF one
<1>5. (b \o one) \o t = b \o (one \o t)
  BY <1>2, <1>4, ConcatAssociative DEF one
<1>. QED
  BY <1>2, <1>3, <1>5 DEF x, t, one

\* What is to be shown of a copy.
LEMMA CopyHolds ==
  ASSUME NEW src, NEW dst, NEW done \in Seq(Pieces), NEW rest \in Seq(Pieces), NEW hit, NEW missed,
         job' = ACopy(src, dst, done, rest, hit, missed),
         src \in DOMAIN tree', src # dst, FileIn(tree', dst), dst \in target',
         \E m \in 0..Len(done) : tree'[dst].read.bytes = SubSeq(done, 1, m),
         missed \/ tree'[dst].read.bytes = done,
         ~hit /\ FileIn(tree', src) => done \o rest = tree'[src].read.bytes
  PROVE  CopyInv'
<1>1. /\ job'.src = src /\ job'.dst = dst /\ job'.done = done /\ job'.rest = rest
      /\ job'.hit = hit /\ job'.missed = missed
  BY DEF ACopy
<1>2. job' = [op |-> "copy", src |-> job'.src, dst |-> job'.dst, done |-> job'.done,
              rest |-> job'.rest, hit |-> job'.hit, missed |-> job'.missed]
  BY <1>1 DEF ACopy
<1>. QED
  BY <1>1, <1>2 DEF CopyInv, Bytes

LEMMA CopyStep ==
  ASSUME FilesInv, Next
  PROVE  CopyInv'
<1>0. /\ TreeInv /\ CwdInv /\ HomeInv /\ BootInv /\ CopyInv /\ SaveInv
      /\ GoodTree(tree) /\ GoodText(cwd)
  BY DEF FilesInv, TreeInv, CwdInv
<1>1. ASSUME job'.op # "copy"
      PROVE  CopyInv'
  BY <1>1 DEF CopyInv
<1>2. CASE BeginsCopy
  <2>1. PICK two \in InputPairs : cmd_cp(two[1], two[2])
    BY <1>2 DEF BeginsCopy
  <2>2. AnInput(two[1]) /\ AnInput(two[2])
    BY InputTyped
  <2> DEFINE src == Resolved(two[1]).names
             dst == Resolved(two[2]).names
             rest == Source(src)
  <2>3. /\ src \in DOMAIN tree /\ Grown(tree', dst, File(<<>>))
        /\ job' = Copying(src, dst, rest) /\ target' = Aims(two[2])
    BY <1>0, <2>1, <2>2, CopyBeginsIs
  <2>4. dst \in target'
    BY <1>0, <2>2, <2>3, ResolvedGood
  <2>. HIDE DEF src, dst
  <2>5. src # dst /\ Same(tree, tree', src) /\ FileIn(tree', dst) /\ tree'[dst].read.bytes = <<>>
    BY <2>3, GrownKeeps, EmptyTyped DEF Grown
  <2>6. IF FileIn(tree, src) THEN rest = Bytes(src) ELSE rest = <<>>
    BY DirsAre DEF Source
  <2>7. rest \in Seq(Pieces)
    <3>1. Bytes(src) \in Seq(Pieces)
      BY <1>0, <2>3, BytesTyped
    <3>. HIDE DEF rest
    <3>. QED
      <4>1. <<>> \in Seq(Pieces)
        OBVIOUS
      <4>2. rest = Bytes(src) \/ rest = <<>>
        BY <2>6
      <4>. QED
        BY <3>1, <4>1, <4>2
  <2>8. src \in DOMAIN tree' /\ (FileIn(tree', src) => <<>> \o rest = tree'[src].read.bytes)
    <3>1. src \in DOMAIN tree' /\ tree'[src] = tree[src] /\ (FileIn(tree', src) => FileIn(tree, src))
      BY <2>3, <2>5, SameKind
    <3>. HIDE DEF rest
    <3>2. <<>> \o rest = rest
      BY <2>7
    <3>. QED
      BY <2>6, <3>1, <3>2 DEF Bytes
  <2>. HIDE DEF rest
  <2>9. job' = ACopy(src, dst, <<>>, rest, FALSE, FALSE)
    BY <2>3 DEF Copying, ACopy
  <2>10. <<>> \in Seq(Pieces) /\ 0 \in 0..Len(<<>>) /\ SubSeq(<<>>, 1, 0) = <<>>
    BY PrefixAll
  <2>. QED
    BY <2>4, <2>5, <2>7, <2>8, <2>9, <2>10, CopyHolds DEF Bytes
<1>3. CASE copy
  <2>1. /\ job.op = "copy" /\ job.done \in Seq(Pieces) /\ job.rest \in Seq(Pieces)
        /\ job.src \in DOMAIN tree /\ job.src # job.dst
        /\ FileIn(tree, job.dst) /\ job.dst \in target
        /\ \E m \in 0..Len(job.done) : Bytes(job.dst) = SubSeq(job.done, 1, m)
        /\ job.missed \/ Bytes(job.dst) = job.done
        /\ ~job.hit /\ FileIn(tree, job.src) => job.done \o job.rest = Bytes(job.src)
    BY <1>0, <1>3 DEF CopyInv, copy
  <2>2. /\ target' = target
        /\ \/ \E missed \in BOOLEAN, m \in 0..Len(NextDone) :
                /\ job.rest # <<>> /\ Rewritten(tree', job.dst, SubSeq(NextDone, 1, m))
                /\ missed \/ m = Len(NextDone)
                /\ job' = OneMorePiece(missed)
           \/ job' = Ready
           \/ tree' = tree /\ job' = [job EXCEPT !.rest = <<>>, !.hit = TRUE]
    BY <1>0, <1>3, CopyStepIs
  <2> DEFINE src == job.src
             dst == job.dst
             done == job.done
             rest == job.rest
             hit == job.hit
  <2>3. ASSUME NEW missed \in BOOLEAN, NEW m \in 0..Len(NextDone),
               rest # <<>>, Rewritten(tree', dst, SubSeq(NextDone, 1, m)),
               missed \/ m = Len(NextDone), job' = OneMorePiece(missed)
        PROVE  CopyInv'
    <3>1. job' = ACopy(src, dst, NextDone, Tail(rest), hit, missed)
      BY <1>0, <2>1, <2>3, MoreIs
    <3>. HIDE DEF src, dst, hit
    <3>2. NextDone \in Seq(Pieces) /\ NextDone \o Tail(rest) = done \o rest /\ Tail(rest) \in Seq(Pieces)
      <4>1. done \in Seq(Pieces) /\ rest \in Seq(Pieces) /\ rest # <<>>
        BY <2>1, <2>3
      <4>2. NextDone = Append(done, Head(rest))
        BY DEF NextDone
      <4>. HIDE DEF done, rest
      <4>3. Head(rest) \in Pieces
        BY <4>1
      <4>4. Append(done, Head(rest)) \in Seq(Pieces)
        BY <4>1, <4>3
      <4>. QED
        BY <4>1, <4>2, <4>4, MovedOver
    <3> DEFINE now == SubSeq(NextDone, 1, m)
    <3>3. missed \/ now = NextDone
      BY <2>3, <3>2, PrefixAll
    <3>4. /\ FileIn(tree', dst) /\ tree'[dst].read.bytes = now
          /\ src \in DOMAIN tree' /\ tree'[src] = tree[src] /\ (FileIn(tree', src) => FileIn(tree, src))
      <4>1. src # dst /\ src \in DOMAIN tree
        BY <2>1 DEF src, dst
      <4>. HIDE DEF now
      <4>2. Rewritten(tree', dst, now)
        BY <2>3 DEF now
      <4>3. Same(tree, tree', src)
        BY <4>1, <4>2 DEF Rewritten
      <4>4. src \in DOMAIN tree' /\ tree'[src] = tree[src] /\ (FileIn(tree', src) => FileIn(tree, src))
        BY <4>1, <4>3 DEF Same, FileIn
      <4>5. FileIn(tree', dst) /\ tree'[dst].read.bytes = now
        BY <4>2, RewrittenKeeps
      <4>. QED
        BY <4>4, <4>5
    <3>5. ~hit /\ FileIn(tree', src) => NextDone \o Tail(rest) = tree'[src].read.bytes
      BY <2>1, <3>2, <3>4 DEF src, hit, Bytes
    <3>6. src # dst /\ dst \in target'
      BY <2>1, <2>2 DEF src, dst
    <3>7. \E n \in 0..Len(NextDone) : tree'[dst].read.bytes = SubSeq(NextDone, 1, n)
      BY <3>4
    <3>8. missed \/ tree'[dst].read.bytes = NextDone
      BY <3>3, <3>4
    <3>. HIDE DEF done, rest, now
    <3>. QED
      BY <3>1, <3>2, <3>4, <3>5, <3>6, <3>7, <3>8, CopyHolds
  <2>4. CASE job' = Ready
    BY <1>1, <2>4, ConstantOps
  <2>5. CASE tree' = tree /\ job' = [job EXCEPT !.rest = <<>>, !.hit = TRUE]
    <3>1. job' = ACopy(src, dst, done, <<>>, TRUE, job.missed)
      BY <1>0, <2>1, <2>5, MoreIs
    <3>2. <<>> \in Seq(Pieces) /\ src \in DOMAIN tree' /\ src # dst /\ FileIn(tree', dst)
          /\ dst \in target' /\ done \in Seq(Pieces)
      BY <2>1, <2>2, <2>5
    <3>3. \E m \in 0..Len(done) : tree'[dst].read.bytes = SubSeq(done, 1, m)
      BY <2>1, <2>5 DEF Bytes
    <3>4. job.missed \/ tree'[dst].read.bytes = done
      BY <2>1, <2>5 DEF Bytes
    <3>. HIDE DEF src, dst, done
    <3>. QED
      BY <3>1, <3>2, <3>3, <3>4, CopyHolds
  <2>. QED
    BY <2>2, <2>3, <2>4, <2>5
<1>4. CASE \/ power_on \/ first_boot_setup \/ config_init \/ config_write_defaults
           \/ config_load \/ power_off \/ Quick
           \/ BeginsSave \/ vfs_ensure_parents \/ save_create \/ save_line
  <2>1. \/ job'.op = "off" \/ job'.op = "dirs" \/ job'.op = "settings" \/ job'.op = "fill"
        \/ job'.op = "load" \/ job'.op = "ready" \/ job'.op = "parents" \/ job'.op = "create"
        \/ job'.op = "lines"
    BY <1>0, <1>4, BootOps, QuickOps, SaveOps, ConstantOps
  <2>. QED
    BY <1>1, <2>1
<1>. QED
  BY <1>2, <1>3, <1>4, NextIs

(***************************************************************************)
(* Of the save: the file is there when its lines are written.              *)
(***************************************************************************)
LEMMA SavesIs ==
  ASSUME NEW j, SavesWell(j)
  PROVE  /\ [j EXCEPT !.op = "create"] = [op |-> "create", path |-> j.path, n |-> j.n, text |-> j.text]
         /\ [j EXCEPT !.op = "lines"] = [op |-> "lines", path |-> j.path, n |-> j.n, text |-> j.text]
         /\ [j EXCEPT !.n = @ + 1] = [op |-> j.op, path |-> j.path, n |-> j.n + 1, text |-> j.text]
  BY DEF SavesWell

LEMMA SaveStep ==
  ASSUME FilesInv, Next
  PROVE  SaveInv'
<1>0. /\ TreeInv /\ CwdInv /\ HomeInv /\ BootInv /\ CopyInv /\ SaveInv
      /\ GoodTree(tree) /\ GoodText(cwd) /\ GoodTree(tree')
  BY TreeStep DEF FilesInv, TreeInv, CwdInv
<1>1. ASSUME ~(job'.op = "parents" \/ job'.op = "create" \/ job'.op = "lines")
      PROVE  SaveInv'
  BY <1>1 DEF SaveInv
<1>2. CASE BeginsSave
  <2>1. PICK input \in SavePaths, text \in Texts : editor_save(input, text)
    BY <1>2 DEF BeginsSave
  <2>2. AnInput(input)
    BY InputTyped
  <2> DEFINE path == Resolved(input)
  <2>3. GoodText(path) /\ path.names \in Aims(input)
    BY <1>0, <2>2, ResolvedGood
  <2>4. /\ \/ job' = Saving("lines", path, text) /\ path.names \in DOMAIN tree
           \/ job' = Saving("parents", path, text)
        /\ target' = Aims(input) /\ tree' = tree
    BY <2>1, DirsAre DEF editor_save
  <2>. HIDE DEF path
  <2>5. \/ job' = [op |-> "lines", path |-> path, n |-> 0, text |-> text] /\ path.names \in DOMAIN tree
        \/ job' = [op |-> "parents", path |-> path, n |-> 0, text |-> text]
    BY <2>4 DEF Saving
  <2>6. /\ job'.path = path /\ job'.n = 0 /\ job'.text = text
        /\ job' = [op |-> job'.op, path |-> job'.path, n |-> job'.n, text |-> job'.text]
        /\ job'.op = "lines" => path.names \in DOMAIN tree'
    BY <2>4, <2>5
  <2>7. SavesWell(job')
    BY <2>3, <2>6, TextTypes DEF SavesWell
  <2>8. \A bytes : Begins(bytes, text, 0)
    BY DEF Begins
  <2>. QED
    BY <2>3, <2>4, <2>6, <2>7, <2>8 DEF SaveInv, Bytes
<1>3. CASE vfs_ensure_parents
  <2>1. /\ job.op = "parents" /\ SavesWell(job) /\ job.path.names \in target /\ target' = target
        /\ job' = job \/ job' = [job EXCEPT !.op = "create"]
    BY <1>0, <1>3, EnsureIs
  <2>2. job.n = 0
    BY <1>0, <2>1 DEF SaveInv
  <2>3. CASE job' = job
    BY <2>1, <2>2, <2>3 DEF SaveInv
  <2>4. CASE job' = [job EXCEPT !.op = "create"]
    <3>1. job' = [op |-> "create", path |-> job.path, n |-> job.n, text |-> job.text]
      BY <2>1, <2>4, SavesIs
    <3>2. /\ job'.op = "create" /\ job'.path = job.path /\ job'.n = job.n /\ job'.text = job.text
          /\ job' = [op |-> job'.op, path |-> job'.path, n |-> job'.n, text |-> job'.text]
      BY <3>1
    <3>3. SavesWell(job')
      BY <2>1, <3>2 DEF SavesWell
    <3>. QED
      BY <2>1, <2>2, <3>2, <3>3 DEF SaveInv
  <2>. QED
    BY <2>1, <2>3, <2>4
<1>4. CASE save_create
  <2>1. /\ job.op = "create" /\ SavesWell(job) /\ job.n = 0
        /\ job.path.names \in target /\ target' = target
        /\ \/ job' = [job EXCEPT !.op = "lines"] /\ job.path.names \in DOMAIN tree'
           \/ job' = Ready
    BY <1>0, <1>4, SaveCreateIs
  <2>2. CASE job' = [job EXCEPT !.op = "lines"] /\ job.path.names \in DOMAIN tree'
    <3>1. job' = [op |-> "lines", path |-> job.path, n |-> job.n, text |-> job.text]
      BY <2>1, <2>2, SavesIs
    <3>2. /\ job'.op = "lines" /\ job'.path = job.path /\ job'.n = job.n /\ job'.text = job.text
          /\ job' = [op |-> job'.op, path |-> job'.path, n |-> job'.n, text |-> job'.text]
      BY <3>1
    <3>3. SavesWell(job')
      BY <2>1, <3>2 DEF SavesWell
    <3>4. \A bytes : Begins(bytes, job.text, 0)
      BY DEF Begins
    <3>. QED
      BY <2>1, <2>2, <3>2, <3>3, <3>4 DEF SaveInv, Bytes
  <2>3. CASE job' = Ready
    BY <1>1, <2>3, ConstantOps
  <2>. QED
    BY <2>1, <2>2, <2>3
<1>5. CASE save_line
  <2>1. /\ job.op = "lines" /\ SavesWell(job)
        /\ job.path.names \in target /\ target' = target
        /\ \/ /\ \E bytes : Rewritten(tree', job.path.names, bytes) /\ Begins(bytes, job.text, job.n + 1)
              /\ job.n + 1 # Len(job.text) /\ job' = [job EXCEPT !.n = @ + 1]
           \/ job' = Ready
    BY <1>0, <1>5, SaveLineIs
  <2>2. CASE /\ \E bytes : Rewritten(tree', job.path.names, bytes) /\ Begins(bytes, job.text, job.n + 1)
             /\ job.n + 1 # Len(job.text) /\ job' = [job EXCEPT !.n = @ + 1]
    <3>1. job' = [op |-> job.op, path |-> job.path, n |-> job.n + 1, text |-> job.text]
      BY <2>1, <2>2, SavesIs
    <3>2. /\ job'.op = "lines" /\ job'.path = job.path /\ job'.n = job.n + 1 /\ job'.text = job.text
          /\ job' = [op |-> job'.op, path |-> job'.path, n |-> job'.n, text |-> job'.text]
      BY <2>1, <3>1
    <3>3. job.n + 1 \in 0..(Len(job.text) - 1)
      <4>1. job.n \in 0..(Len(job.text) - 1) /\ job.text \in Texts
        BY <2>1 DEF SavesWell
      <4>2. Len(job.text) \in Nat \ {0}
        BY <4>1, TextTypes
      <4>. QED
        BY <2>2, <4>1, <4>2
    <3>4. SavesWell(job')
      BY <2>1, <3>2, <3>3 DEF SavesWell
    <3> DEFINE p == job.path.names
    <3>. HIDE DEF p
    <3>5. PICK bytes : Rewritten(tree', p, bytes) /\ Begins(bytes, job.text, job.n + 1)
      BY <2>2 DEF p
    <3>6. FileIn(tree', p) /\ tree'[p].read.bytes = bytes
      BY <3>5, RewrittenKeeps
    <3>. QED
      BY <2>1, <3>2, <3>4, <3>5, <3>6 DEF SaveInv, Bytes, p, FileIn
  <2>3. CASE job' = Ready
    BY <1>1, <2>3, ConstantOps
  <2>. QED
    BY <2>1, <2>2, <2>3
<1>6. CASE \/ power_on \/ first_boot_setup \/ config_init \/ config_write_defaults
           \/ config_load \/ power_off \/ Quick \/ BeginsCopy \/ copy
  <2>1. \/ job'.op = "off" \/ job'.op = "dirs" \/ job'.op = "settings" \/ job'.op = "fill"
        \/ job'.op = "load" \/ job'.op = "ready" \/ job'.op = "copy"
    BY <1>0, <1>6, BootOps, QuickOps, BeginsCopyOps, CopyOps, ConstantOps
  <2>. QED
    BY <1>1, <2>1
<1>. QED
  BY <1>2, <1>3, <1>4, <1>5, <1>6, NextIs

(***************************************************************************)
(* The invariant is one.                                                   *)
(***************************************************************************)
LEMMA FilesStep ==
  ASSUME FilesInv, [Next]_vars
  PROVE  FilesInv'
<1>1. CASE Next
  <2>1. TreeInv'
    BY <1>1, TreeStep DEF TreeInv
  <2>. QED
    BY <1>1, <2>1, CwdStep, HomeStep, BootStep, CopyStep, SaveStep DEF FilesInv
<1>2. CASE UNCHANGED vars
  <2>1. /\ tree' = tree /\ cwd' = cwd /\ job' = job /\ faults' = faults
        /\ target' = target /\ gone' = gone /\ homeless' = homeless
    BY <1>2 DEF vars
  <2>2. Held' = Held
    BY <2>1, SameAll, HeldSame
  <2>3. TreeInv' /\ CwdInv' /\ HomeInv'
    BY <2>1 DEF FilesInv, TreeInv, CwdInv, HomeInv
  <2>4. BootInv'
    BY <2>1, <2>2 DEF FilesInv, BootInv, Bytes
  <2>5. CopyInv' /\ SaveInv'
    BY <2>1 DEF FilesInv, CopyInv, SaveInv, Bytes
  <2>. QED
    BY <2>3, <2>4, <2>5 DEF FilesInv
<1>. QED
  BY <1>1, <1>2

\* The tree is one at all times: every name is a good one, no file is where a directory
\* should be, and every file and directory, whatever made, moved or lost it, stands in a
\* directory that is there (src/kernel/fs/vfs.c, as first_boot_setup, config.c and the file
\* commands use it); and what the boot, cp and the editor's save have half done is
\* consistent with it, a failed update of a file's entry that nobody hears of included.
THEOREM FilesAlwaysStand == Spec => []FilesInv
<1>1. Init => FilesInv
  BY InitHolds
<1>2. FilesInv /\ [Next]_vars => FilesInv'
  BY FilesStep
<1>. QED
  BY <1>1, <1>2, PTL DEF Spec

\* The directory the shell is in is a directory, or the root, whatever commands came between,
\* unless it was removed or moved, or first boot failed to make /home (shell_set_cwd and
\* first_boot_setup).
THEOREM CwdAlwaysStands == Spec => []CwdStands
<1>1. FilesInv => CwdStands
  BY DirsAre DEF FilesInv, CwdInv, CwdStands, DirIn, IsDirectory, Store!Exists, Store!IsDir
<1>. QED
  BY <1>1, FilesAlwaysStand, PTL

(***************************************************************************)
(* What the boot may do to the files, and what it loads.                   *)
(***************************************************************************)
LEMMA SameUnchanged ==
  ASSUME NEW p, Same(tree, tree', p)
  PROVE  ~Changed(p)
  BY DEF Same, Changed

LEMMA BootChanges ==
  ASSUME FilesInv, Next, Booting, NEW p \in DOMAIN tree, Changed(p)
  PROVE  p = ConfigPath /\ (job.start = {} \/ job.hit)
<1>0. /\ TreeInv /\ CwdInv /\ BootInv /\ CopyInv /\ SaveInv
  BY DEF FilesInv
<1>1. tree' # tree
  BY SameAll, SameUnchanged
<1>2. ASSUME NEW q, NEW node, Grown(tree', q, node) PROVE FALSE
  BY <1>2, GrownKeeps, SameUnchanged
<1>3. CASE power_on \/ config_load \/ power_off
  BY <1>0, <1>1, <1>3, TreeAlone
<1>4. CASE first_boot_setup
  BY <1>0, <1>1, <1>2, <1>4, SystemDirMade
<1>5. CASE config_init
  BY <1>0, <1>1, <1>2, <1>5, SettingsOpened
<1>6. CASE config_write_defaults
  <2>1. \E bytes : Rewritten(tree', ConfigPath, bytes)
    BY <1>0, <1>1, <1>6, DefaultsWritten
  <2>2. p = ConfigPath
    BY <2>1, SameUnchanged DEF Rewritten
  <2>3. job.hit \/ job.start = {}
    BY <1>0, <1>6 DEF config_write_defaults, BootInv
  <2>. QED
    BY <2>2, <2>3
<1>7. CASE \/ Quick \/ BeginsCopy \/ copy
           \/ BeginsSave \/ vfs_ensure_parents \/ save_create \/ save_line
  <2>1. \/ job.op = "ready" \/ job.op = "copy" \/ job.op = "parents" \/ job.op = "create"
        \/ job.op = "lines"
    BY <1>0, <1>7, QuickOps, BeginsCopyOps, CopyOps, SaveOps, ConstantOps
  <2>. QED
    BY <2>1 DEF Booting
<1>. QED
  BY <1>3, <1>4, <1>5, <1>6, <1>7, NextIs

LEMMA BootLoads ==
  ASSUME FilesInv, Next, Booting, job' = Ready, ~job.hit, faults' = faults
  PROVE  /\ \A bytes \in job.start : entries' = Parsed(bytes)
         /\ (job.start = {} /\ IsDirectory(Etc) /\ ~IsDirectory(ConfigPath)) =>
              entries' = Parsed(Defaults)
<1>0. /\ TreeInv /\ CwdInv /\ BootInv /\ CopyInv /\ SaveInv /\ faults \in Nat
  BY DEF FilesInv, TreeInv
<1>1. config_load /\ job.op = "load"
  <2>1. ~(Quick \/ BeginsCopy \/ copy \/ BeginsSave \/ vfs_ensure_parents \/ save_create \/ save_line)
    <3>. SUFFICES ASSUME \/ Quick \/ BeginsCopy \/ copy
                         \/ BeginsSave \/ vfs_ensure_parents \/ save_create \/ save_line
                  PROVE  FALSE
      OBVIOUS
    <3>1. \/ job.op = "ready" \/ job.op = "copy" \/ job.op = "parents" \/ job.op = "create"
          \/ job.op = "lines"
      BY <1>0, QuickOps, BeginsCopyOps, CopyOps, SaveOps, ConstantOps
    <3>. QED
      BY <3>1 DEF Booting
  <2>2. ~(power_on \/ first_boot_setup \/ config_init \/ config_write_defaults \/ power_off)
    BY BootOps, ConstantOps
  <2>3. config_load
    BY <2>1, <2>2, NextIs
  <2>. QED
    BY <2>3, BootOps DEF Booting
<1>2. entries' = Loaded
  BY <1>0, <1>1, FaultIs DEF config_load
<1>3. \/ job.start # {} /\ job.start = Held
      \/ /\ job.start = {}
         /\ \/ ~DirIn(tree, Etc) \/ DirIn(tree, ConfigPath)
            \/ FileIn(tree, ConfigPath) /\ Bytes(ConfigPath) = Defaults
  BY <1>0, <1>1 DEF BootInv
<1>4. FileIn(tree, ConfigPath) => Loaded = Parsed(Bytes(ConfigPath))
  BY DirsAre DEF Loaded
<1>5. CASE job.start # {} /\ job.start = Held
  <2>1. FileIn(tree, ConfigPath) /\ job.start = {Bytes(ConfigPath)}
    BY <1>5, HeldIs
  <2>. QED
    BY <1>2, <1>4, <2>1
<1>6. CASE /\ job.start = {}
           /\ \/ ~DirIn(tree, Etc) \/ DirIn(tree, ConfigPath)
              \/ FileIn(tree, ConfigPath) /\ Bytes(ConfigPath) = Defaults
  <2>1. ASSUME IsDirectory(Etc), ~IsDirectory(ConfigPath)
        PROVE  FileIn(tree, ConfigPath) /\ Bytes(ConfigPath) = Defaults
    <3>1. DirIn(tree, Etc) /\ (ConfigPath \in DOMAIN tree => ~DirIn(tree, ConfigPath))
      BY <2>1, DirsAre
    <3>2. ~DirIn(tree, ConfigPath)
      BY <3>1, SystemPaths DEF DirIn
    <3>. QED
      BY <1>6, <3>1, <3>2
  <2>. QED
    BY <1>2, <1>4, <1>6, <2>1
<1>. QED
  BY <1>3, <1>5, <1>6

\* Booting, however calls fail and whenever power was lost before, changes no file but the
\* settings, and these only if there were none or they could not be opened; a boot in
\* which nothing failed ends with the settings of the file, or with the defaults
\* (first_boot_setup, config_init, config_write_defaults and config_load).
THEOREM BootAlwaysSound == Spec => BootSound
<1>1. ASSUME FilesInv, [Next]_vars
      PROVE  [Booting =>
       /\ \A p \in DOMAIN tree : Changed(p) => p = ConfigPath /\ (job.start = {} \/ job.hit)
       /\ (job' = Ready /\ ~job.hit /\ faults' = faults) =>
            /\ \A bytes \in job.start : entries' = Parsed(bytes)
            /\ (job.start = {} /\ IsDirectory(Etc) /\ ~IsDirectory(ConfigPath)) =>
                 entries' = Parsed(Defaults)]_vars
  BY <1>1, BootChanges, BootLoads
<1>. QED
  BY <1>1, FilesAlwaysStand, PTL DEF Spec, BootSound

(***************************************************************************)
(* What cp leaves.                                                         *)
(***************************************************************************)
LEMMA CopyLeaves ==
  ASSUME FilesInv, Next, job.op = "copy", job' = Ready, ~failed', ~job.hit, FileIn(tree, job.src)
  PROVE  \/ tree'[job.dst] = tree[job.src]
         \/ job.missed /\ \E n \in 0..Len(Bytes(job.src)) :
                            tree'[job.dst] = File(SubSeq(Bytes(job.src), 1, n))
<1>0. /\ TreeInv /\ CwdInv /\ BootInv /\ CopyInv /\ SaveInv /\ GoodTree(tree)
  BY DEF FilesInv, TreeInv
<1>1. copy
  <2>1. ~(power_on \/ first_boot_setup \/ config_init \/ config_write_defaults \/ config_load \/ power_off)
    BY BootOps, ConstantOps
  <2>2. ~(Quick \/ BeginsCopy \/ BeginsSave \/ vfs_ensure_parents \/ save_create \/ save_line)
    BY <1>0, QuickOps, BeginsCopyOps, SaveOps, ConstantOps
  <2>. QED
    BY <2>1, <2>2, NextIs
<1> DEFINE b == Bytes(job.dst)
           c == Bytes(job.src)
           done == job.done
<1>2. /\ FileIn(tree, job.dst) /\ done \in Seq(Pieces) /\ done \o job.rest = c
      /\ \E m \in 0..Len(done) : b = SubSeq(done, 1, m)
      /\ job.missed \/ b = done
  BY <1>0 DEF CopyInv
<1>3. tree' = tree /\ job.rest = <<>>
  <2>1. (\A missed : job' # OneMorePiece(missed)) /\ job' # [job EXCEPT !.rest = <<>>, !.hit = TRUE]
    <3>1. /\ \A missed : OneMorePiece(missed).op = "copy"
          /\ [job EXCEPT !.rest = <<>>, !.hit = TRUE].op = "copy"
      BY <1>0, MoreIs
    <3>. QED
      BY <3>1, ConstantOps
  <2>. QED
    BY <1>0, <1>1, <2>1, CopyStepIs
<1>4. done = c
  <2>1. done \o <<>> = c
    BY <1>2, <1>3
  <2>. HIDE DEF done, c
  <2>. QED
    BY <1>2, <2>1
<1>5. ASSUME NEW n \in DOMAIN tree, FileIn(tree, n) PROVE tree[n] = File(Bytes(n))
  BY <1>0, <1>5 DEF GoodTree, FileIn, Node, File, Store!File, Bytes
<1>6. tree[job.dst] = File(b) /\ tree[job.src] = File(c)
  BY <1>2, <1>5 DEF FileIn
<1>. HIDE DEF b, c, done
<1>7. CASE b = done
  BY <1>3, <1>4, <1>6, <1>7
<1>8. CASE job.missed
  <2>1. PICK m \in 0..Len(c) : b = SubSeq(c, 1, m)
    BY <1>2, <1>4
  <2>2. tree'[job.dst] = File(SubSeq(c, 1, m))
    BY <1>3, <1>6, <2>1
  <2>. QED
    BY <1>8, <2>2 DEF c
<1>. QED
  BY <1>2, <1>7, <1>8

\* cp that gives no error and missed no end of a read has copied the whole file, and not
\* another one, or, when the update of the copy's entry failed without a word, a first part
\* of it: for files of any length, at any moment a write may fail in (cmd_cp, fat32_write).
THEOREM CopyAlwaysFaithful == Spec => CopyFaithful
<1>1. ASSUME FilesInv, [Next]_vars
      PROVE  [(job.op = "copy" /\ job' = Ready /\ ~failed' /\ ~job.hit /\ Store!IsFile(job.src)) =>
                \/ tree'[job.dst] = tree[job.src]
                \/ job.missed /\ \E n \in 0..Len(Bytes(job.src)) :
                     tree'[job.dst] = File(SubSeq(Bytes(job.src), 1, n))]_vars
  BY <1>1, CopyLeaves, DirsAre
<1>. QED
  BY <1>1, FilesAlwaysStand, PTL DEF Spec, CopyFaithful

(***************************************************************************)
(* What a command may touch.                                               *)
(***************************************************************************)
OnTarget(p) ==
  \E t \in target' : Store!Inside(p, t) \/ (job.op = "parents" /\ Store!Inside(t, p))

\* A step that changes nothing but what is at q, which the words of the command mean.
LEMMA OnlyThere ==
  ASSUME NEW q \in Path, q \in target', \A x : x # q => Same(tree, tree', x), NEW p, Changed(p)
  PROVE  OnTarget(p)
<1>1. p = q
  BY SameUnchanged
<1>. QED
  BY <1>1, InsideItself DEF OnTarget

LEMMA QuickHits ==
  ASSUME FilesInv, Quick, NEW p \in Path, Changed(p)
  PROVE  OnTarget(p)
<1>0. TreeInv /\ GoodText(cwd)
  BY DEF FilesInv, CwdInv
<1>1. tree' # tree
  BY SameAll, SameUnchanged
<1>2. ~cmd_cd_root /\ \A input \in Inputs : ~cmd_cd(input)
  BY <1>1 DEF cmd_cd_root, cmd_cd
<1>3. ASSUME NEW input \in Inputs, \/ cmd_touch(input) \/ cmd_mkdir(input) \/ cmd_rm(input)
                                   \/ cmd_rmdir(input)
      PROVE  OnTarget(p)
  <2> DEFINE q == Resolved(input).names
  <2>0. AnInput(input)
    BY InputTyped
  <2>1. q \in Path /\ q \in Aims(input)
    BY <1>0, <2>0, ResolvedGood, GoodTextIs
  <2>2. target' = Aims(input)
    BY <1>1, <1>3, RunsIs DEF cmd_touch, cmd_mkdir, cmd_rm, cmd_rmdir
  <2>3. \A x : x # q => Same(tree, tree', x)
    <3>1. \/ \E node : Grown(tree', q, node)
          \/ Lost(tree', {q})
      BY <1>0, <1>1, <1>3, <2>0, TouchIs, MakeIs, RemoveIs, RmdirIs
    <3>. HIDE DEF q
    <3>2. \A x : x \notin {q} <=> x # q
      OBVIOUS
    <3>. QED
      BY <3>1, <3>2 DEF Grown, Lost
  <2>. QED
    BY <2>1, <2>2, <2>3, OnlyThere
<1>4. ASSUME NEW two \in InputPairs, cmd_mv(two[1], two[2])
      PROVE  OnTarget(p)
  <2> DEFINE from == Resolved(two[1]).names
             to == Resolved(two[2]).names
  <2>0. AnInput(two[1]) /\ AnInput(two[2])
    BY InputTyped
  <2>1. from \in Aims(two[1]) /\ to \in Aims(two[2])
    BY <1>0, <2>0, ResolvedGood
  <2>2. target' = Aims(two[1]) \cup Aims(two[2])
    BY <1>1, <1>4, RunsIs DEF cmd_mv
  <2>3. \A x \in Path : ~Store!Inside(x, from) /\ ~Store!Inside(x, to) => Same(tree, tree', x)
    BY <1>0, <1>1, <1>4, <2>0, MoveIs
  <2>. HIDE DEF from, to
  <2>4. Store!Inside(p, from) \/ Store!Inside(p, to)
    BY <2>3, SameUnchanged
  <2>. QED
    BY <2>1, <2>2, <2>4 DEF OnTarget
<1>. QED
  BY <1>2, <1>3, <1>4 DEF Quick

LEMMA StepHits ==
  ASSUME FilesInv, Next, ~Booting, NEW p \in DOMAIN tree \cup DOMAIN tree', Changed(p)
  PROVE  OnTarget(p)
<1>0. /\ TreeInv /\ CwdInv /\ BootInv /\ CopyInv /\ SaveInv /\ GoodText(cwd)
      /\ GoodTree(tree) /\ GoodTree(tree')
  BY TreeStep DEF FilesInv, CwdInv, TreeInv
<1>1. tree' # tree
  BY SameAll, SameUnchanged
<1>2. p \in Path
  BY <1>0 DEF GoodTree
<1>3. ~(power_on \/ config_load \/ power_off \/ BeginsSave)
  BY <1>0, <1>1, TreeAlone DEF BeginsSave
<1>4. ~(first_boot_setup \/ config_init \/ config_write_defaults)
  BY BootOps DEF Booting
<1>5. CASE Quick
  BY <1>2, <1>5, QuickHits
<1>6. CASE BeginsCopy
  <2>1. PICK two \in InputPairs : cmd_cp(two[1], two[2])
    BY <1>6 DEF BeginsCopy
  <2>2. AnInput(two[1]) /\ AnInput(two[2])
    BY InputTyped
  <2> DEFINE q == Resolved(two[2]).names
  <2>3. Grown(tree', q, File(<<>>)) /\ target' = Aims(two[2]) /\ q \in Aims(two[2])
    BY <1>0, <2>1, <2>2, CopyBeginsIs, ResolvedGood
  <2>. HIDE DEF q
  <2>. QED
    BY <2>3, OnlyThere DEF Grown
<1>7. CASE copy
  <2> DEFINE q == job.dst
  <2>1. /\ q \in target' /\ \E bytes : Rewritten(tree', q, bytes)
    BY <1>0, <1>1, <1>7, CopyStepIs
  <2>. HIDE DEF q
  <2>2. q \in Path
    BY <1>0, <2>1 DEF Rewritten, FileIn, GoodTree
  <2>. QED
    BY <2>1, <2>2, OnlyThere DEF Rewritten
<1>8. CASE vfs_ensure_parents
  <2> DEFINE names == job.path.names
  <2>1. job.op = "parents" /\ SavesWell(job) /\ names \in target'
    BY <1>0, <1>8, EnsureIs
  <2>2. PICK n \in 1..Len(names) : Grown(tree', SubSeq(names, 1, n), Store!Directory)
    BY <1>0, <1>1, <1>8, EnsureIs
  <2>3. names \in Path
    BY <2>1, GoodTextIs DEF SavesWell
  <2>. HIDE DEF names
  <2> DEFINE q == SubSeq(names, 1, n)
  <2>4. names \in Seq(Name) /\ Len(names) \in Nat /\ n \in 0..Len(names)
    BY <2>2, <2>3 DEF Path
  <2>5. Len(q) = n
    BY <2>4, PrefixTyped
  <2>6. Store!Inside(names, q)
    BY <2>4, <2>5 DEF Store!Inside
  <2>. HIDE DEF q
  <2>7. Grown(tree', q, Store!Directory)
    BY <2>2 DEF q
  <2>8. p = q
    BY <2>7, SameUnchanged DEF Grown
  <2>. QED
    BY <2>1, <2>6, <2>8 DEF OnTarget
<1>9. CASE save_create
  <2> DEFINE q == job.path.names
  <2>1. q \in target' /\ Grown(tree', q, File(<<>>))
    BY <1>0, <1>1, <1>9, SaveCreateIs
  <2>. HIDE DEF q
  <2>. QED
    BY <2>1, OnlyThere DEF Grown
<1>10. CASE save_line
  <2> DEFINE q == job.path.names
  <2>1. q \in target' /\ \E bytes : Rewritten(tree', q, bytes)
    BY <1>0, <1>1, <1>10, SaveLineIs
  <2>. HIDE DEF q
  <2>2. q \in Path
    BY <1>0, <2>1 DEF Rewritten, FileIn, GoodTree
  <2>. QED
    BY <2>1, <2>2, OnlyThere DEF Rewritten
<1>. QED
  BY <1>3, <1>4, <1>5, <1>6, <1>7, <1>8, <1>9, <1>10, NextIs

LEMMA CwdHits ==
  ASSUME FilesInv, Next, job = Ready, job' = Ready, cwd' # cwd
  PROVE  cwd'.names \in target'
<1>0. TreeInv /\ CwdInv /\ BootInv /\ CopyInv /\ SaveInv /\ GoodText(cwd)
  BY DEF FilesInv, CwdInv
<1>1. ~(power_on \/ first_boot_setup \/ config_init \/ config_write_defaults \/ power_off)
  BY BootOps, ConstantOps
<1>2. ~(config_load \/ BeginsCopy \/ copy \/ BeginsSave \/ vfs_ensure_parents \/ save_create \/ save_line)
  BY <1>0, StayingSteps
<1>3. CASE cmd_cd_root
  <2>1. cwd' = RootText /\ target' = {<<>>}
    BY <1>3 DEF cmd_cd_root, Goes
  <2>. QED
    BY <2>1, RootTyped
<1>4. ASSUME NEW input \in Inputs, \/ cmd_touch(input) \/ cmd_mkdir(input) \/ cmd_rm(input)
                                   \/ cmd_rmdir(input)
      PROVE  FALSE
  BY <1>4, RunsIs DEF cmd_touch, cmd_mkdir, cmd_rm, cmd_rmdir
<1>5. ASSUME NEW two \in InputPairs, cmd_mv(two[1], two[2]) PROVE FALSE
  BY <1>5, RunsIs DEF cmd_mv
<1>6. ASSUME NEW input \in Inputs, cmd_cd(input)
      PROVE  cwd'.names \in target'
  <2>1. cwd' = Resolved(input) /\ target' = Aims(input)
    BY <1>6 DEF cmd_cd, Goes
  <2>2. AnInput(input)
    BY InputTyped
  <2>. QED
    BY <1>0, <2>1, <2>2, ResolvedGood
<1>. QED
  BY <1>1, <1>2, <1>3, <1>4, <1>5, <1>6, NextIs DEF Quick

\* A command, a copy and a save touch only what is at, or under, the paths that the words of
\* the command mean by the usual rules for `.' and `..', wherever the shell is; a save may
\* make directories on the way to its own (resolve_path, editor_save and the commands).
THEOREM EveryStepHitsItsTarget == Spec => HitsItsTarget
<1>1. ASSUME FilesInv, [Next]_vars
      PROVE  [/\ ~Booting =>
                   \A p \in DOMAIN tree \cup DOMAIN tree' : Changed(p) =>
                     \E t \in target' : Inside(p, t) \/ (job.op = "parents" /\ Inside(t, p))
              /\ (job = Ready /\ job' = Ready /\ cwd' # cwd) => cwd'.names \in target']_vars
  BY <1>1, StepHits, CwdHits DEF OnTarget, Inside
<1>. QED
  BY <1>1, FilesAlwaysStand, PTL DEF Spec, HitsItsTarget
=============================================================================
