--------------------------- MODULE HistoryProofs ---------------------------
(***************************************************************************)
(* What holds of the shell's history for all characters, limits and files: *)
(* how the list is filled from the file, what Up and Down show, and what a *)
(* boot finds of what was entered.                                         *)
(***************************************************************************)
EXTENDS History, SequenceTheorems, FiniteSetTheorems, WellFoundedInduction, TLAPS

(***************************************************************************)
(* Sets of numbers in order.                                               *)
(***************************************************************************)
LEMMA LeastNumber ==
  ASSUME NEW T, T \subseteq Nat, T # {}
  PROVE  \E x \in T : \A y \in T : x <= y
<1>1. PICK x \in T : \A y \in T : ~(<<y, x>> \in OpToRel(<, Nat))
  BY NatLessThanWellFounded, WFMin
<1>2. \A y \in T : ~(y < x)
  BY <1>1 DEF OpToRel
<1>. QED
  BY <1>2

LEMMA BelowFinite ==
  ASSUME NEW S, S \subseteq Nat, IsFiniteSet(S), NEW x \in Nat
  PROVE  IsFiniteSet(Below(S, x)) /\ Cardinality(Below(S, x)) \in Nat
<1>1. Below(S, x) \subseteq S
  BY DEF Below
<1>. QED
  BY <1>1, FS_Subset, FS_CardinalityType

LEMMA AtPlaceMember ==
  ASSUME NEW S, NEW k, NEW x
  PROVE  x \in AtPlace(S, k) <=> x \in S /\ Cardinality(Below(S, x)) = k - 1
  BY DEF AtPlace

\* Every place is taken: with the least place that is not, the member after the one before
\* it would take it.
LEMMA PlacesTaken ==
  ASSUME NEW S, S \subseteq Nat, IsFiniteSet(S), NEW k \in 1..Cardinality(S)
  PROVE  AtPlace(S, k) # {}
<1>0. Cardinality(S) \in Nat
  BY FS_CardinalityType
<1> DEFINE Free == {n \in Nat : n \in 1..Cardinality(S) /\ AtPlace(S, n) = {}}
<1>1. SUFFICES ASSUME Free # {} PROVE FALSE
  BY <1>0
<1>2. PICK n \in Free : \A m \in Free : n <= m
  BY <1>1, LeastNumber
<1>3. n \in 1..Cardinality(S) /\ AtPlace(S, n) = {} /\ n \in Nat
  BY <1>2
<1>4. \E B : /\ B \subseteq S /\ IsFiniteSet(B) /\ Cardinality(B) = n - 1
             /\ \A y \in B, z \in S \ B : y < z
  <2>1. CASE n = 1
    <3>1. IsFiniteSet({}) /\ Cardinality({}) = 0
      BY FS_EmptySet
    <3>. QED
      BY <2>1, <3>1
  <2>2. CASE n # 1
    <3>1. n - 1 \in Nat /\ n - 1 \in 1..Cardinality(S) /\ ~(n <= n - 1)
      BY <1>0, <1>3, <2>2
    <3>2. n - 1 \notin Free
      <4>. HIDE DEF Free
      <4>. QED
        BY <1>2, <3>1
    <3>3. AtPlace(S, n - 1) # {}
      BY <3>1, <3>2
    <3>4. PICK x \in S : Cardinality(Below(S, x)) = n - 1 - 1
      BY <3>3 DEF AtPlace
    <3> DEFINE B == Below(S, x) \cup {x}
    <3>5. IsFiniteSet(Below(S, x)) /\ x \notin Below(S, x)
      <4>1. x \in Nat
        OBVIOUS
      <4>2. ~(x < x)
        BY <4>1
      <4>3. x \notin Below(S, x)
        BY <4>2 DEF Below
      <4>. QED
        BY <4>1, <4>3, BelowFinite
    <3>6. IsFiniteSet(B) /\ Cardinality(B) = Cardinality(Below(S, x)) + 1
      BY <3>5, FS_AddElement
    <3>7. B \subseteq S /\ \A y \in B, z \in S \ B : y < z
      BY DEF Below
    <3>8. Cardinality(B) = n - 1
      BY <3>1, <3>4, <3>6
    <3>. QED
      BY <3>6, <3>7, <3>8
  <2>. QED
    BY <2>1, <2>2
<1>5. PICK B : /\ B \subseteq S /\ IsFiniteSet(B) /\ Cardinality(B) = n - 1
               /\ \A y \in B, z \in S \ B : y < z
  BY <1>4
<1>6. S \ B # {}
  <2>. SUFFICES ASSUME S \ B = {} PROVE FALSE
    OBVIOUS
  <2>1. S = B
    BY <1>5
  <2>. QED
    BY <1>0, <1>3, <1>5, <2>1
<1>7. PICK x \in S \ B : \A y \in S \ B : x <= y
  <2>1. S \ B \subseteq Nat
    OBVIOUS
  <2>. QED
    BY <1>6, <2>1, LeastNumber
<1>8. Below(S, x) = B
  <2>0. x \in Nat /\ S \subseteq Nat
    OBVIOUS
  <2>1. ASSUME NEW y \in S, y < x PROVE y \in B
    <3>. SUFFICES ASSUME y \notin B PROVE FALSE
      OBVIOUS
    <3>1. x <= y /\ y \in Nat
      BY <1>7, <2>0
    <3>. QED
      BY <2>0, <2>1, <3>1
  <2>2. \A y \in B : y \in S /\ y < x
    BY <1>5, <1>7
  <2>. QED
    BY <2>1, <2>2 DEF Below
<1>9. x \in AtPlace(S, n)
  BY <1>5, <1>7, <1>8 DEF AtPlace
<1>. QED
  BY <1>3, <1>9

\* The members of a finite set come in order.
LEMMA OrderedMembers ==
  ASSUME NEW S, S \subseteq Nat, IsFiniteSet(S)
  PROVE  /\ Cardinality(S) \in Nat
         /\ DOMAIN Ordered(S) = 1..Cardinality(S)
         /\ \A k \in 1..Cardinality(S) : Ordered(S)[k] \in S
<1>1. ASSUME NEW k \in 1..Cardinality(S) PROVE Ordered(S)[k] \in AtPlace(S, k)
  <2>1. AtPlace(S, k) # {}
    BY PlacesTaken
  <2>. QED
    BY <2>1 DEF Ordered
<1>2. \A k \in 1..Cardinality(S) : Ordered(S)[k] \in S
  BY <1>1 DEF AtPlace
<1>. QED
  BY <1>2, FS_CardinalityType DEF Ordered

\* A member that is greater than all others comes after them.
LEMMA OrderedAppend ==
  ASSUME NEW S, S \subseteq Nat, IsFiniteSet(S), NEW m \in Nat, \A x \in S : x < m
  PROVE  LET T == S \cup {m}
         IN /\ Cardinality(T) = Cardinality(S) + 1 /\ Cardinality(S) \in Nat
            /\ \A k \in 1..Cardinality(S) : Ordered(T)[k] = Ordered(S)[k]
            /\ Ordered(T)[Cardinality(S) + 1] = m
<1> DEFINE T == S \cup {m}
           n == Cardinality(S)
<1>1. m \notin S /\ n \in Nat
  BY FS_CardinalityType
<1>2. IsFiniteSet(T) /\ Cardinality(T) = n + 1
  BY <1>1, FS_AddElement
<1>3. Below(T, m) = S /\ \A x \in S : Below(T, x) = Below(S, x)
  <2>1. ~(m < m)
    OBVIOUS
  <2>2. Below(T, m) = S
    BY <2>1 DEF Below
  <2>3. ASSUME NEW x \in S PROVE Below(T, x) = Below(S, x)
    <3>1. ~(m < x)
      <4>1. x \in Nat /\ x < m
        OBVIOUS
      <4>. QED
        BY <4>1
    <3>. QED
      BY <3>1 DEF Below
  <2>. QED
    BY <2>2, <2>3
<1>4. \A x \in S : Cardinality(Below(S, x)) # n
  <2>. SUFFICES ASSUME NEW x \in S, Cardinality(Below(S, x)) = n PROVE FALSE
    OBVIOUS
  <2>1. Below(S, x) \subseteq S /\ x \notin Below(S, x)
    BY DEF Below
  <2>2. Below(S, x) \cup {x} \subseteq S /\ IsFiniteSet(Below(S, x))
    BY <2>1, FS_Subset
  <2>3. Cardinality(Below(S, x) \cup {x}) = n + 1
    BY <2>1, <2>2, FS_AddElement
  <2>4. Cardinality(Below(S, x) \cup {x}) <= n
    BY <2>2, FS_Subset
  <2>. QED
    BY <1>1, <2>3, <2>4
<1>5. ASSUME NEW k \in 1..n PROVE AtPlace(T, k) = AtPlace(S, k)
  <2>1. Cardinality(S) # k - 1
    BY <1>1
  <2>. QED
    BY <1>3, <2>1 DEF AtPlace
<1>6. AtPlace(T, n + 1) = {m}
  <2>1. (n + 1) - 1 = n
    BY <1>1
  <2>2. \A x \in S : Cardinality(Below(T, x)) # (n + 1) - 1
    BY <1>3, <1>4, <2>1
  <2>3. Cardinality(Below(T, m)) = (n + 1) - 1
    BY <1>3, <2>1
  <2>4. ASSUME NEW x PROVE x \in AtPlace(T, n + 1) <=> x = m
    <3>1. x \in AtPlace(T, n + 1) <=> x \in T /\ Cardinality(Below(T, x)) = (n + 1) - 1
      BY AtPlaceMember
    <3>. QED
      BY <2>2, <2>3, <3>1
  <2>. HIDE DEF n, T
  <2>. QED
    BY <2>4
<1>7. \A k \in 1..n : k \in 1..Cardinality(T)
  BY <1>1, <1>2
<1>8. \A k \in 1..n : Ordered(T)[k] = Ordered(S)[k]
  BY <1>5, <1>7, SMTT(30) DEF Ordered
<1>9. Ordered(T)[n + 1] = m
  <2>1. n + 1 \in 1..Cardinality(T)
    BY <1>1, <1>2
  <2>2. Ordered(T)[n + 1] = CHOOSE x \in {m} : TRUE
    BY <1>6, <2>1 DEF Ordered
  <2>. QED
    BY <2>2
<1>. QED
  BY <1>1, <1>2, <1>8, <1>9

(***************************************************************************)
(* The lines of a file.                                                    *)
(***************************************************************************)
\* A line ends: at the first newline, found as the least number, or with the bytes.
LEMMA LineEnds ==
  ASSUME NEW C, NEW bytes \in Seq(C), NEW nl, NEW i \in 1..(Len(bytes) + 1)
  PROVE  /\ LineEnd(bytes, nl, i) \in (i - 1)..Len(bytes)
         /\ IsLineEnd(bytes, nl, i, LineEnd(bytes, nl, i))
<1>0. Len(bytes) \in Nat /\ i \in Nat /\ i - 1 \in Nat
  OBVIOUS
<1> DEFINE Ends == {j \in Nat : j \in (i - 1)..Len(bytes) /\ (j = Len(bytes) \/ bytes[j + 1] = nl)}
<1>1. Len(bytes) \in Ends
  BY <1>0
<1>2. PICK j \in Ends : \A m \in Ends : j <= m
  BY <1>1, LeastNumber
<1>3. j \in (i - 1)..Len(bytes) /\ j \in Nat /\ (j = Len(bytes) \/ bytes[j + 1] = nl)
  BY <1>2
<1>4. ASSUME NEW m \in i..j PROVE bytes[m] # nl
  <2>. SUFFICES ASSUME bytes[m] = nl PROVE FALSE
    OBVIOUS
  <2>1. m \in Nat /\ m - 1 \in Nat /\ (m - 1) + 1 = m /\ m - 1 \in (i - 1)..Len(bytes)
    BY <1>0, <1>3
  <2>2. m - 1 \in Ends
    BY <2>1
  <2>3. j <= m - 1
    <3>. HIDE DEF Ends
    <3>. QED
      BY <1>2, <2>2
  <2>. QED
    BY <1>0, <1>3, <2>1, <2>3
<1>5. IsLineEnd(bytes, nl, i, j)
  BY <1>3, <1>4 DEF IsLineEnd
<1>. QED
  BY <1>3, <1>5 DEF LineEnd

\* It ends at one place only.
LEMMA OneLineEnd ==
  ASSUME NEW C, NEW bytes \in Seq(C), NEW nl, NEW i \in 1..(Len(bytes) + 1),
         NEW j \in (i - 1)..Len(bytes), IsLineEnd(bytes, nl, i, j)
  PROVE  LineEnd(bytes, nl, i) = j
<1> DEFINE e == LineEnd(bytes, nl, i)
<1>0. Len(bytes) \in Nat /\ i \in Nat /\ j \in Int
  OBVIOUS
<1>1. e \in (i - 1)..Len(bytes) /\ IsLineEnd(bytes, nl, i, e)
  BY LineEnds
<1>. HIDE DEF e
<1>2. ASSUME e < j PROVE FALSE
  <2>1. e + 1 \in i..j /\ e # Len(bytes)
    BY <1>0, <1>1, <1>2
  <2>. QED
    BY <1>1, <2>1 DEF IsLineEnd
<1>3. ASSUME j < e PROVE FALSE
  <2>1. j + 1 \in i..e /\ j # Len(bytes)
    BY <1>0, <1>1, <1>3
  <2>. QED
    BY <1>1, <2>1 DEF IsLineEnd
<1>4. e = j
  <2>1. e \in Int
    BY <1>0, <1>1
  <2>. QED
    BY <1>0, <2>1, <1>2, <1>3
<1>. QED
  BY <1>4 DEF e

\* A line holds no newline, and is not empty unless it starts with one.
LEMMA LineTyped ==
  ASSUME NEW C, NEW bytes \in Seq(C), NEW nl, NEW i \in 1..Len(bytes)
  PROVE  /\ LineAt(bytes, nl, i) \in Seq(C \ {nl})
         /\ bytes[i] # nl => LineAt(bytes, nl, i) # <<>>
<1> DEFINE e == LineEnd(bytes, nl, i)
           s == LineAt(bytes, nl, i)
<1>0. Len(bytes) \in Nat /\ i \in Nat /\ i \in 1..(Len(bytes) + 1)
  OBVIOUS
<1>1. e \in (i - 1)..Len(bytes) /\ IsLineEnd(bytes, nl, i, e)
  BY <1>0, LineEnds
<1>2. s = SubSeq(bytes, i, e)
  BY DEF LineAt
<1>. HIDE DEF e, s
<1>3. /\ s \in Seq(C) /\ Len(s) = IF i <= e THEN (e - i) + 1 ELSE 0
      /\ \A k \in 1..((e - i) + 1) : s[k] = bytes[(i + k) - 1]
  <2>1. \A m \in i..e : bytes[m] \in C
    BY <1>0, <1>1
  <2>2. e \in Int /\ i \in Int
    BY <1>0, <1>1
  <2>. QED
    BY <1>2, <2>1, <2>2, <1>0, <1>1, SubSeqProperties
<1>4. ASSUME NEW k \in 1..Len(s) PROVE s[k] \in C \ {nl}
  <2>1. i <= e /\ k \in 1..((e - i) + 1) /\ (i + k) - 1 \in i..e /\ (i + k) - 1 \in 1..Len(bytes)
    BY <1>0, <1>1, <1>3
  <2>2. s[k] = bytes[(i + k) - 1] /\ bytes[(i + k) - 1] # nl /\ bytes[(i + k) - 1] \in C
    BY <1>1, <1>3, <2>1 DEF IsLineEnd
  <2>. QED
    BY <2>2
<1>5. s \in Seq(C \ {nl})
  BY <1>3, <1>4, SeqDef, LenProperties
<1>6. ASSUME bytes[i] # nl PROVE s # <<>>
  <2>1. e # i - 1
    <3>. SUFFICES ASSUME e = i - 1 PROVE FALSE
      OBVIOUS
    <3>1. e # Len(bytes) /\ e + 1 = i
      BY <1>0
    <3>. QED
      BY <1>1, <1>6, <3>1 DEF IsLineEnd
  <2>2. Len(s) # 0
    BY <1>0, <1>1, <1>3, <2>1
  <2>. QED
    BY <2>2
<1>. QED
  BY <1>5, <1>6 DEF s

\* What is written behind a line, or after its newline, leaves it as it was.
LEMMA LineKept ==
  ASSUME NEW C, NEW f \in Seq(C), NEW g \in Seq(C), NEW nl, NEW i \in 1..Len(f),
         Len(f) <= Len(g), \A m \in 1..Len(f) : g[m] = f[m],
         LineEnd(f, nl, i) = Len(f) /\ Len(f) < Len(g) => g[Len(f) + 1] = nl
  PROVE  LineAt(g, nl, i) = LineAt(f, nl, i)
<1> DEFINE e == LineEnd(f, nl, i)
<1>0. Len(f) \in Nat /\ Len(g) \in Nat /\ i \in Nat /\ i \in 1..(Len(f) + 1) /\ i \in 1..(Len(g) + 1)
  OBVIOUS
<1>1. e \in (i - 1)..Len(f) /\ IsLineEnd(f, nl, i, e) /\ e = LineEnd(f, nl, i)
  BY <1>0, LineEnds
<1>. HIDE DEF e
<1>2. e \in (i - 1)..Len(g) /\ e \in Int
  BY <1>0, <1>1
<1>3. IsLineEnd(g, nl, i, e)
  <2>1. \A m \in i..e : g[m] # nl
    BY <1>0, <1>1 DEF IsLineEnd
  <2>2. e = Len(g) \/ g[e + 1] = nl
    <3>1. CASE e = Len(f)
      BY <1>0, <1>1, <3>1
    <3>2. CASE e # Len(f)
      <4>1. e + 1 \in 1..Len(f)
        BY <1>0, <1>1, <3>2
      <4>. QED
        BY <1>1, <3>2, <4>1 DEF IsLineEnd
    <3>. QED
      BY <3>1, <3>2
  <2>. QED
    BY <2>1, <2>2 DEF IsLineEnd
<1>4. LineEnd(g, nl, i) = e
  BY <1>0, <1>2, <1>3, OneLineEnd
<1>5. SubSeq(g, i, e) = SubSeq(f, i, e)
  <2>1. \A m \in i..e : f[m] = g[m] /\ m \in 1..Len(f) /\ f[m] \in C /\ g[m] \in C
    BY <1>0, <1>1
  <2>. DEFINE a == SubSeq(f, i, e)
              b == SubSeq(g, i, e)
              len == IF i <= e THEN (e - i) + 1 ELSE 0
  <2>2. /\ a \in Seq(C) /\ Len(a) = len
        /\ \A k \in 1..((e - i) + 1) : a[k] = f[(i + k) - 1]
    BY <1>0, <1>2, <2>1, SubSeqProperties
  <2>3. /\ b \in Seq(C) /\ Len(b) = len
        /\ \A k \in 1..((e - i) + 1) : b[k] = g[(i + k) - 1]
    BY <1>0, <1>2, <2>1, SubSeqProperties
  <2>. HIDE DEF a, b
  <2>4. ASSUME NEW k \in 1..Len(a) PROVE a[k] = b[k]
    <3>1. k \in 1..((e - i) + 1) /\ (i + k) - 1 \in i..e
      BY <1>0, <1>2, <2>2
    <3>. QED
      BY <2>1, <2>2, <2>3, <3>1
  <2>5. a = b
    BY <2>2, <2>3, <2>4, SeqEqual
  <2>. QED
    BY <2>5 DEF a, b
<1>. QED
  BY <1>1, <1>4, <1>5 DEF LineAt

Bytes == Chars \cup {NL}
Lines == Seq(Chars) \ {<<>>}

LEMMA StartsFinite ==
  ASSUME NEW bytes \in Seq(Bytes)
  PROVE  /\ Starts(bytes) \subseteq Nat /\ IsFiniteSet(Starts(bytes))
         /\ \A i \in Starts(bytes) : i \in 1..Len(bytes) /\ bytes[i] # NL
<1>1. Len(bytes) \in Nat
  OBVIOUS
<1>2. IsFiniteSet(1..Len(bytes))
  BY <1>1, FS_Interval
<1>3. Starts(bytes) \subseteq 1..Len(bytes)
  BY DEF Starts
<1>. QED
  BY <1>1, <1>2, <1>3, FS_Subset DEF Starts

\* The lines of a file are lines that could have been typed, and not empty.
LEMMA FileLinesTyped ==
  ASSUME NEW bytes \in Seq(Bytes)
  PROVE  FileLines(bytes) \in Seq(Lines)
<1> DEFINE S == Starts(bytes)
           n == Cardinality(S)
           L == FileLines(bytes)
<1>0. NL \notin Chars
  BY HistoryAssumption
<1>1. /\ S \subseteq Nat /\ IsFiniteSet(S)
      /\ \A i \in S : i \in 1..Len(bytes) /\ bytes[i] # NL
  BY StartsFinite
<1>. HIDE DEF S
<1>2. n \in Nat /\ \A k \in 1..n : Ordered(S)[k] \in S
  BY <1>1, OrderedMembers
<1>. HIDE DEF n
<1>3. ASSUME NEW k \in 1..n PROVE LineAt(bytes, NL, Ordered(S)[k]) \in Lines
  <2>. DEFINE i == Ordered(S)[k]
  <2>1. i \in 1..Len(bytes) /\ bytes[i] # NL
    BY <1>1, <1>2
  <2>. HIDE DEF i
  <2>2. LineAt(bytes, NL, i) \in Seq(Bytes \ {NL}) /\ LineAt(bytes, NL, i) # <<>>
    BY <2>1, LineTyped
  <2>3. Bytes \ {NL} = Chars
    BY <1>0 DEF Bytes
  <2>. QED
    BY <2>2, <2>3 DEF i, Lines
<1>4. L = [k \in 1..n |-> LineAt(bytes, NL, Ordered(S)[k])]
  BY DEF FileLines, LinesAt, S, n
<1>. HIDE DEF L
<1>5. L \in [1..n -> Lines]
  BY <1>3, <1>4
<1>6. L \in Seq(Lines)
  BY <1>2, <1>5, SeqDef
<1>. QED
  BY <1>6 DEF L

\* A file of whole lines is empty or ends in a newline.
Whole(bytes) == bytes = <<>> \/ bytes[Len(bytes)] = NL

LEMMA LineOfWhole ==
  ASSUME NEW f \in Seq(Bytes), Whole(f), NEW t \in Seq(Bytes), NEW i \in Starts(f)
  PROVE  LineAt(f \o t, NL, i) = LineAt(f, NL, i)
<1>0. /\ Len(f) \in Nat /\ Len(t) \in Nat /\ i \in 1..Len(f) /\ f[i] # NL
  BY StartsFinite
<1>1. f \o t \in Seq(Bytes) /\ Len(f \o t) = Len(f) + Len(t) /\ \A m \in 1..Len(f) : (f \o t)[m] = f[m]
  BY ConcatProperties
<1>2. LineEnd(f, NL, i) # Len(f)
  <2>1. IsLineEnd(f, NL, i, LineEnd(f, NL, i)) /\ i \in 1..(Len(f) + 1)
    BY <1>0, LineEnds
  <2>2. f # <<>> /\ f[Len(f)] = NL /\ Len(f) \in i..Len(f)
    BY <1>0 DEF Whole
  <2>. QED
    BY <2>1, <2>2 DEF IsLineEnd
<1>. DEFINE g == f \o t
<1>3. g \in Seq(Bytes) /\ Len(f) <= Len(g) /\ \A m \in 1..Len(f) : g[m] = f[m]
  BY <1>0, <1>1
<1>. HIDE DEF g
<1>4. LineAt(g, NL, i) = LineAt(f, NL, i)
  BY <1>0, <1>2, <1>3, LineKept
<1>. QED
  BY <1>4 DEF g

\* A line written behind whole lines is the next line of the file ...
LEMMA LineAdded ==
  ASSUME NEW f \in Seq(Bytes), Whole(f), NEW t \in Lines
  PROVE  FileLines(f \o t) = Append(FileLines(f), t)
<1> DEFINE g == f \o t
           S == Starts(f)
           m == Len(f) + 1
           n == Cardinality(S)
<1>0. NL \notin Chars /\ t \in Seq(Chars) /\ t \in Seq(Bytes) /\ Len(t) \in Nat /\ Len(t) # 0 /\ Len(f) \in Nat
  BY HistoryAssumption DEF Lines, Bytes
<1>1. /\ g \in Seq(Bytes) /\ Len(g) = Len(f) + Len(t)
      /\ \A k \in 1..Len(f) : g[k] = f[k]
      /\ \A k \in (Len(f) + 1)..(Len(f) + Len(t)) : g[k] = t[k - Len(f)]
  BY <1>0, ConcatProperties
<1>2. \A k \in m..Len(g) : g[k] # NL /\ k - Len(f) \in 1..Len(t)
  BY <1>0, <1>1
<1>3. /\ S \subseteq Nat /\ IsFiniteSet(S)
      /\ \A i \in S : i \in 1..Len(f) /\ f[i] # NL
  BY StartsFinite
<1>4. \A i \in S : LineAt(g, NL, i) = LineAt(f, NL, i)
  BY <1>0, LineOfWhole
<1>. HIDE DEF g
<1>5. Starts(g) = S \cup {m}
  <2>1. ASSUME NEW i \in 1..Len(f) PROVE i \in Starts(g) <=> i \in S
    <3>1. i \in 1..Len(g) /\ g[i] = f[i] /\ (i # 1 => i - 1 \in 1..Len(f))
      BY <1>0, <1>1
    <3>2. i # 1 => g[i - 1] = f[i - 1]
      BY <1>1, <3>1
    <3>. QED
      BY <3>1, <3>2 DEF Starts
  <2>2. m \in Starts(g)
    <3>1. m \in 1..Len(g) /\ g[m] # NL
      BY <1>0, <1>1, <1>2
    <3>2. m = 1 \/ g[m - 1] = NL
      <4>1. CASE f = <<>>
        BY <4>1
      <4>2. CASE f # <<>>
        <5>1. Len(f) \in 1..Len(f) /\ f[Len(f)] = NL /\ m - 1 = Len(f)
          BY <1>0, <4>2 DEF Whole
        <5>. QED
          BY <1>1, <5>1
      <4>. QED
        BY <4>1, <4>2
    <3>. QED
      BY <3>1, <3>2 DEF Starts
  <2>3. ASSUME NEW i \in 1..Len(g), i > m PROVE i \notin Starts(g)
    <3>1. i - 1 \in m..Len(g) /\ i # 1
      BY <1>0, <1>1, <2>3
    <3>. QED
      BY <1>2, <3>1 DEF Starts
  <2>4. Starts(g) \subseteq 1..Len(g) /\ S \subseteq 1..Len(f)
    BY <1>3 DEF Starts
  <2>5. \A i \in 1..Len(g) : i \in 1..Len(f) \/ i = m \/ i > m
    BY <1>0, <1>1
  <2>. HIDE DEF S, m
  <2>. QED
    BY <2>1, <2>2, <2>3, <2>4, <2>5
<1>6. LineAt(g, NL, m) = t
  <2>. DEFINE a == SubSeq(g, m, Len(g))
  <2>1. m \in 1..(Len(g) + 1) /\ Len(g) \in (m - 1)..Len(g) /\ m \in Int /\ Len(g) \in Int
    BY <1>0, <1>1
  <2>2. IsLineEnd(g, NL, m, Len(g))
    BY <1>2 DEF IsLineEnd
  <2>3. LineEnd(g, NL, m) = Len(g)
    <3>. HIDE DEF m
    <3>. QED
      BY <1>1, <2>1, <2>2, OneLineEnd
  <2>4. \A k \in m..Len(g) : g[k] \in Bytes
    BY <1>0, <1>1
  <2>5. /\ a \in Seq(Bytes) /\ Len(a) = IF m <= Len(g) THEN (Len(g) - m) + 1 ELSE 0
        /\ \A k \in 1..((Len(g) - m) + 1) : a[k] = g[m + (k - 1)]
    <3>. HIDE DEF m
    <3>. QED
      BY <2>1, <2>4, SubSeqProperties
  <2>. HIDE DEF a
  <2>6. Len(a) = Len(t)
    BY <1>0, <1>1, <2>5
  <2>7. ASSUME NEW k \in 1..Len(t) PROVE a[k] = t[k]
    <3>1. /\ k \in 1..((Len(g) - m) + 1) /\ m + (k - 1) \in (Len(f) + 1)..(Len(f) + Len(t))
          /\ (m + (k - 1)) - Len(f) = k
      BY <1>0, <1>1
    <3>. QED
      BY <1>1, <2>5, <3>1
  <2>8. a = t
    BY <1>0, <2>5, <2>6, <2>7, SeqEqual
  <2>. QED
    BY <2>3, <2>8 DEF LineAt, a
<1>7. \A x \in S : x < m
  BY <1>0, <1>3
<1>8. m \in Nat
  BY <1>0
<1>. HIDE DEF S, m, n
<1>9. /\ Cardinality(S \cup {m}) = n + 1 /\ n \in Nat
      /\ \A k \in 1..n : Ordered(S \cup {m})[k] = Ordered(S)[k]
      /\ Ordered(S \cup {m})[n + 1] = m
  BY <1>3, <1>7, <1>8, OrderedAppend DEF n
<1>10. \A k \in 1..n : Ordered(S)[k] \in S
  BY <1>3, OrderedMembers DEF n
<1>11. FileLines(g) = [k \in 1..(n + 1) |-> LineAt(g, NL, Ordered(S \cup {m})[k])]
  BY <1>5, <1>9 DEF FileLines, LinesAt
<1>12. FileLines(f) = [k \in 1..n |-> LineAt(f, NL, Ordered(S)[k])]
  BY DEF FileLines, LinesAt, S, n
<1>13. FileLines(f) \in Seq(Lines) /\ FileLines(g) \in Seq(Lines)
  BY <1>1, FileLinesTyped
<1>14. Len(FileLines(f)) = n /\ Len(FileLines(g)) = n + 1
  BY <1>9, <1>11, <1>12, <1>13
<1>. DEFINE b == Append(FileLines(f), t)
<1>15. /\ b \in Seq(Lines) /\ Len(b) = n + 1 /\ b[n + 1] = t
       /\ \A k \in 1..n : b[k] = FileLines(f)[k]
  BY <1>13, <1>14, AppendProperties
<1>. HIDE DEF b
<1>16. ASSUME NEW k \in 1..(n + 1) PROVE FileLines(g)[k] = b[k]
  <2>1. CASE k = n + 1
    BY <1>6, <1>9, <1>11, <1>15, <2>1
  <2>2. CASE k # n + 1
    <3>1. k \in 1..n
      BY <1>9, <2>2
    <3>2. FileLines(g)[k] = LineAt(g, NL, Ordered(S)[k]) /\ b[k] = LineAt(f, NL, Ordered(S)[k])
      BY <1>9, <1>11, <1>12, <1>15, <3>1
    <3>. QED
      BY <1>4, <1>10, <3>1, <3>2
  <2>. QED
    BY <2>1, <2>2
<1>17. FileLines(g) = b
  BY <1>13, <1>14, <1>15, <1>16, SeqEqual
<1>. QED
  BY <1>17 DEF b, g

\* ... and a newline behind it, or behind whole lines, adds none.
LEMMA NewlineAdded ==
  ASSUME NEW f \in Seq(Bytes)
  PROVE  FileLines(f \o <<NL>>) = FileLines(f)
<1> DEFINE g == f \o <<NL>>
<1>0. Len(f) \in Nat /\ NL \in Bytes /\ <<NL>> \in Seq(Bytes)
  BY DEF Bytes
<1>1. /\ g \in Seq(Bytes) /\ Len(g) = Len(f) + 1 /\ g[Len(f) + 1] = NL
      /\ \A k \in 1..Len(f) : g[k] = f[k]
  BY <1>0, ConcatProperties
<1>. HIDE DEF g
<1>2. Starts(g) = Starts(f)
  <2>1. ASSUME NEW i \in 1..Len(f) PROVE i \in Starts(g) <=> i \in Starts(f)
    <3>1. i \in 1..Len(g) /\ g[i] = f[i] /\ (i = 1 \/ (i - 1 \in 1..Len(f) /\ g[i - 1] = f[i - 1]))
      BY <1>0, <1>1
    <3>. QED
      BY <3>1 DEF Starts
  <2>2. Len(f) + 1 \notin Starts(g)
    BY <1>1 DEF Starts
  <2>3. Starts(g) \subseteq 1..(Len(f) + 1) /\ Starts(f) \subseteq 1..Len(f)
    BY <1>1 DEF Starts
  <2>4. \A i \in 1..(Len(f) + 1) : i \in 1..Len(f) \/ i = Len(f) + 1
    BY <1>0
  <2>. QED
    BY <2>1, <2>2, <2>3, <2>4
<1>3. ASSUME NEW i \in Starts(f) PROVE LineAt(g, NL, i) = LineAt(f, NL, i)
  <2>1. i \in 1..Len(f)
    BY StartsFinite
  <2>2. Len(f) <= Len(g)
    BY <1>0, <1>1
  <2>. QED
    BY <1>1, <2>1, <2>2, LineKept
<1>4. Cardinality(Starts(f)) \in Nat /\ \A k \in 1..Cardinality(Starts(f)) : Ordered(Starts(f))[k] \in Starts(f)
  BY StartsFinite, OrderedMembers
<1>5. FileLines(g) = FileLines(f)
  BY <1>2, <1>3, <1>4 DEF FileLines, LinesAt
<1>. QED
  BY <1>5 DEF g

\* Lines written behind a whole file come after its lines.
LEMMA OrderedPrefix ==
  ASSUME NEW S, S \subseteq Nat, NEW T, T \subseteq Nat, IsFiniteSet(T), S \subseteq T,
         \A x \in S, y \in T \ S : x < y
  PROVE  /\ Cardinality(S) \in Nat /\ Cardinality(T) \in Nat /\ Cardinality(S) <= Cardinality(T)
         /\ \A k \in 1..Cardinality(S) : Ordered(T)[k] = Ordered(S)[k]
<1> DEFINE n == Cardinality(S)
<1>1. IsFiniteSet(S) /\ n \in Nat /\ Cardinality(T) \in Nat /\ n <= Cardinality(T)
  BY FS_Subset, FS_CardinalityType
<1>2. ASSUME NEW x \in S PROVE Below(T, x) = Below(S, x)
  <2>1. \A y \in T : y < x => y \in S
    <3>. SUFFICES ASSUME NEW y \in T \ S, y < x PROVE FALSE
      OBVIOUS
    <3>1. x < y /\ x \in Nat /\ y \in Nat
      OBVIOUS
    <3>. QED
      BY <3>1
  <2>. QED
    BY <2>1 DEF Below
<1>3. ASSUME NEW y \in T \ S PROVE Cardinality(Below(T, y)) \in Nat /\ n <= Cardinality(Below(T, y))
  <2>1. S \subseteq Below(T, y) /\ Below(T, y) \subseteq T
    BY DEF Below
  <2>2. IsFiniteSet(Below(T, y))
    BY <2>1, FS_Subset
  <2>. QED
    BY <2>1, <2>2, FS_Subset, FS_CardinalityType
<1>4. ASSUME NEW k \in 1..n PROVE AtPlace(T, k) = AtPlace(S, k)
  <2>1. \A y \in T \ S : Cardinality(Below(T, y)) # k - 1
    <3>. SUFFICES ASSUME NEW y \in T \ S, Cardinality(Below(T, y)) = k - 1 PROVE FALSE
      OBVIOUS
    <3>1. k - 1 < n
      BY <1>1
    <3>. QED
      BY <1>1, <1>3, <3>1
  <2>. QED
    BY <1>2, <2>1 DEF AtPlace
<1>5. \A k \in 1..n : k \in 1..Cardinality(T)
  BY <1>1
<1>6. \A k \in 1..n : Ordered(T)[k] = Ordered(S)[k]
  BY <1>4, <1>5 DEF Ordered
<1>. QED
  BY <1>1, <1>6

LEMMA WholeLinesStay ==
  ASSUME NEW f \in Seq(Bytes), Whole(f), NEW t \in Seq(Bytes)
  PROVE  /\ Len(FileLines(f)) <= Len(FileLines(f \o t))
         /\ \A k \in 1..Len(FileLines(f)) : FileLines(f \o t)[k] = FileLines(f)[k]
<1> DEFINE g == f \o t
           S == Starts(f)
           T == Starts(g)
<1>1. /\ g \in Seq(Bytes) /\ Len(g) = Len(f) + Len(t) /\ Len(f) \in Nat /\ Len(t) \in Nat
      /\ \A k \in 1..Len(f) : g[k] = f[k]
  BY ConcatProperties
<1>2. \A i \in S : LineAt(g, NL, i) = LineAt(f, NL, i)
  BY LineOfWhole
<1>. HIDE DEF g
<1>3. /\ S \subseteq Nat /\ IsFiniteSet(S) /\ \A i \in S : i \in 1..Len(f)
      /\ T \subseteq Nat /\ IsFiniteSet(T) /\ \A i \in T : i \in 1..Len(g)
  BY <1>1, StartsFinite
<1>4. ASSUME NEW i \in 1..Len(f) PROVE i \in T <=> i \in S
  <2>1. i \in 1..Len(g) /\ g[i] = f[i] /\ (i # 1 => i - 1 \in 1..Len(f))
    BY <1>1
  <2>2. i # 1 => g[i - 1] = f[i - 1]
    BY <1>1, <2>1
  <2>. QED
    BY <2>1, <2>2 DEF Starts
<1>. HIDE DEF S, T
<1>5. S \subseteq T /\ \A x \in S, y \in T \ S : x < y
  <2>1. \A y \in T \ S : y \in Nat /\ Len(f) < y
    BY <1>1, <1>3, <1>4
  <2>2. \A x \in S : x \in Nat /\ x <= Len(f)
    BY <1>3
  <2>3. ASSUME NEW x \in S, NEW y \in T \ S PROVE x < y
    BY <1>1, <2>1, <2>2
  <2>. QED
    BY <1>3, <1>4, <2>3
<1>6. /\ Cardinality(S) \in Nat /\ Cardinality(T) \in Nat /\ Cardinality(S) <= Cardinality(T)
      /\ \A k \in 1..Cardinality(S) : Ordered(T)[k] = Ordered(S)[k]
  BY <1>3, <1>5, OrderedPrefix
<1>7. \A k \in 1..Cardinality(S) : Ordered(S)[k] \in S
  BY <1>3, OrderedMembers
<1>8. FileLines(g) = [k \in 1..Cardinality(T) |-> LineAt(g, NL, Ordered(T)[k])]
  BY DEF FileLines, LinesAt, T
<1>9. FileLines(f) = [k \in 1..Cardinality(S) |-> LineAt(f, NL, Ordered(S)[k])]
  BY DEF FileLines, LinesAt, S
<1>10. FileLines(f) \in Seq(Lines) /\ FileLines(g) \in Seq(Lines)
  BY <1>1, FileLinesTyped
<1>11. Len(FileLines(f)) = Cardinality(S) /\ Len(FileLines(g)) = Cardinality(T)
  BY <1>6, <1>8, <1>9, <1>10
<1>12. ASSUME NEW k \in 1..Cardinality(S) PROVE FileLines(g)[k] = FileLines(f)[k]
  <2>1. k \in 1..Cardinality(T)
    BY <1>6
  <2>. QED
    BY <1>2, <1>6, <1>7, <1>8, <1>9, <2>1, SMTT(30)
<1>. QED
  BY <1>6, <1>11, <1>12 DEF g

(***************************************************************************)
(* The newest lines of a list.                                             *)
(***************************************************************************)
\* At most n of them, the last one always among them.
LEMMA LastOfTyped ==
  ASSUME NEW S, NEW s \in Seq(S), NEW n \in Nat \ {0}
  PROVE  /\ LastOf(n, s) \in Seq(S)
         /\ Len(LastOf(n, s)) = IF Len(s) > n THEN n ELSE Len(s)
         /\ \A k \in 1..Len(LastOf(n, s)) : LastOf(n, s)[k] = s[k + (Len(s) - Len(LastOf(n, s)))]
<1> DEFINE a == IF Len(s) > n THEN (Len(s) - n) + 1 ELSE 1
           b == SubSeq(s, a, Len(s))
<1>1. Len(s) \in Nat /\ a \in 1..(Len(s) + 1) /\ a \in Int
  OBVIOUS
<1>2. \A k \in a..Len(s) : s[k] \in S
  BY <1>1
<1>3. LastOf(n, s) = b
  BY DEF LastOf
<1>4. (Len(s) - a) + 1 = IF Len(s) > n THEN n ELSE Len(s)
  BY <1>1
<1>. HIDE DEF a
<1>5. /\ b \in Seq(S) /\ Len(b) = IF a <= Len(s) THEN (Len(s) - a) + 1 ELSE 0
      /\ \A k \in 1..((Len(s) - a) + 1) : b[k] = s[a + (k - 1)]
  BY <1>1, <1>2, SubSeqProperties
<1>. HIDE DEF b
<1>6. Len(b) = (Len(s) - a) + 1
  BY <1>1, <1>5
<1>7. ASSUME NEW k \in 1..Len(b) PROVE b[k] = s[k + (Len(s) - Len(b))]
  <2>1. k \in 1..((Len(s) - a) + 1) /\ k + (Len(s) - Len(b)) = a + (k - 1)
    BY <1>1, <1>6
  <2>. QED
    BY <1>5, <2>1
<1>. QED
  BY <1>3, <1>4, <1>5, <1>6, <1>7

\* Dropping the oldest before a line is added changes nothing of what is kept after it.
LEMMA LastOfAppend ==
  ASSUME NEW S, NEW s \in Seq(S), NEW n \in Nat \ {0}, NEW t \in S
  PROVE  /\ LastOf(n, Append(LastOf(n, s), t)) = LastOf(n, Append(s, t))
         /\ LastOf(n, Append(s, t)) # <<>>
         /\ Last(LastOf(n, Append(s, t))) = t
<1> DEFINE p == LastOf(n, s)
           u == Append(p, t)
           v == Append(s, t)
           a == LastOf(n, u)
           b == LastOf(n, v)
<1>1. /\ p \in Seq(S) /\ Len(p) = IF Len(s) > n THEN n ELSE Len(s)
      /\ \A k \in 1..Len(p) : p[k] = s[k + (Len(s) - Len(p))]
  BY LastOfTyped
<1>. HIDE DEF p
<1>2. /\ u \in Seq(S) /\ Len(u) = Len(p) + 1 /\ u[Len(p) + 1] = t
      /\ \A k \in 1..Len(p) : u[k] = p[k]
  BY <1>1, AppendProperties
<1>3. /\ v \in Seq(S) /\ Len(v) = Len(s) + 1 /\ v[Len(s) + 1] = t
      /\ \A k \in 1..Len(s) : v[k] = s[k]
  BY AppendProperties
<1>. HIDE DEF u, v
<1>4. /\ a \in Seq(S) /\ Len(a) = IF Len(u) > n THEN n ELSE Len(u)
      /\ \A k \in 1..Len(a) : a[k] = u[k + (Len(u) - Len(a))]
  BY <1>2, LastOfTyped
<1>5. /\ b \in Seq(S) /\ Len(b) = IF Len(v) > n THEN n ELSE Len(v)
      /\ \A k \in 1..Len(b) : b[k] = v[k + (Len(v) - Len(b))]
  BY <1>3, LastOfTyped
<1>. HIDE DEF a, b
<1>6. Len(s) \in Nat /\ Len(p) \in Nat /\ Len(a) \in Nat /\ Len(b) \in Nat /\ n \in Nat /\ n # 0
  BY <1>1, <1>4, <1>5
<1>7. Len(a) = Len(b) /\ Len(b) >= 1
  BY <1>1, <1>2, <1>3, <1>4, <1>5, <1>6
<1>8. ASSUME NEW k \in 1..Len(a) PROVE a[k] = b[k]
  <2>1. a[k] = u[k + (Len(u) - Len(a))] /\ b[k] = v[k + (Len(v) - Len(b))]
    BY <1>4, <1>5, <1>7
  <2>2. CASE k = Len(a)
    <3>1. k + (Len(u) - Len(a)) = Len(p) + 1 /\ k + (Len(v) - Len(b)) = Len(s) + 1
      BY <1>2, <1>3, <1>6, <1>7, <2>2
    <3>. QED
      BY <1>2, <1>3, <2>1, <3>1
  <2>3. CASE k # Len(a)
    <3>. DEFINE i == k + (Len(u) - Len(a))
                j == k + (Len(v) - Len(b))
    <3>1. /\ i \in 1..Len(p) /\ j \in 1..Len(s)
          /\ j = i + (Len(s) - Len(p))
      <4>1. k \in Nat /\ 1 <= k /\ k + 1 <= Len(a)
        BY <1>6, <2>3
      <4>2. Len(u) \in Nat /\ Len(v) \in Nat /\ Len(u) = Len(p) + 1 /\ Len(v) = Len(s) + 1
        BY <1>2, <1>3, <1>6
      <4>3. Len(a) <= Len(u) /\ Len(b) <= Len(v)
        BY <1>4, <1>5, <1>6, <4>2
      <4>. QED
        BY <1>6, <1>7, <4>1, <4>2, <4>3
    <3>. HIDE DEF i, j
    <3>2. u[i] = p[i] /\ v[j] = s[j] /\ p[i] = s[j]
      BY <1>1, <1>2, <1>3, <3>1
    <3>. QED
      BY <2>1, <3>2 DEF i, j
  <2>. QED
    BY <2>2, <2>3
<1>9. a = b
  BY <1>4, <1>5, <1>7, <1>8, SeqEqual
<1>10. b # <<>>
  BY <1>6, <1>7
<1>11. b[Len(b)] = t
  <2>1. Len(b) \in 1..Len(b) /\ Len(b) + (Len(v) - Len(b)) = Len(s) + 1
    BY <1>3, <1>6, <1>7
  <2>. QED
    BY <1>3, <1>5, <2>1
<1>. QED
  BY <1>9, <1>10, <1>11 DEF a, b, u, v, p, Last

(***************************************************************************)
(* Loading.                                                                *)
(***************************************************************************)
\* What the buffer holds of a line.
Texts == {s \in Seq(Chars) : Len(s) < BUFFER_SIZE}
Entries == {s \in Seq(Chars) : s # <<>> /\ Len(s) < BUFFER_SIZE}

LEMMA ShortenedTyped ==
  ASSUME NEW s \in Lines
  PROVE  Shortened(s) \in Entries /\ (s \in Entries => Shortened(s) = s)
<1>0. BUFFER_SIZE \in Nat /\ BUFFER_SIZE > 1 /\ s \in Seq(Chars) /\ s # <<>> /\ Len(s) \in Nat /\ Len(s) # 0
  BY HistoryAssumption DEF Lines
<1>1. CASE Len(s) > BUFFER_SIZE - 1
  <2>. DEFINE n == BUFFER_SIZE - 1
              a == SubSeq(s, 1, n)
  <2>1. n \in Int /\ n >= 1 /\ n < Len(s)
    BY <1>0, <1>1
  <2>2. \A k \in 1..n : s[k] \in Chars
    BY <1>0, <2>1
  <2>3. Shortened(s) = a
    BY <1>1 DEF Shortened
  <2>. HIDE DEF n
  <2>4. a \in Seq(Chars) /\ Len(a) = IF 1 <= n THEN (n - 1) + 1 ELSE 0
    BY <2>1, <2>2, SubSeqProperties
  <2>. HIDE DEF a
  <2>5. a \in Entries
    <3>1. Len(a) = n /\ n < BUFFER_SIZE
      BY <1>0, <2>1, <2>4 DEF n
    <3>2. a # <<>>
      BY <2>1, <3>1
    <3>. QED
      BY <2>4, <3>1, <3>2 DEF Entries
  <2>6. s \notin Entries
    BY <1>0, <1>1 DEF Entries
  <2>. QED
    BY <2>3, <2>5, <2>6
<1>2. CASE ~(Len(s) > BUFFER_SIZE - 1)
  BY <1>0, <1>2 DEF Shortened, Entries
<1>. QED
  BY <1>1, <1>2

LoadedLines(bytes) == [k \in 1..Len(FileLines(bytes)) |-> Shortened(FileLines(bytes)[k])]

LEMMA LoadedTyped ==
  ASSUME NEW bytes \in Seq(Bytes)
  PROVE  /\ LoadedLines(bytes) \in Seq(Entries)
         /\ Len(LoadedLines(bytes)) = Len(FileLines(bytes))
         /\ \A k \in 1..Len(FileLines(bytes)) : LoadedLines(bytes)[k] = Shortened(FileLines(bytes)[k])
         /\ Load(bytes) = LastOf(HISTORY_LIMIT, LoadedLines(bytes))
         /\ Load(bytes) \in Seq(Entries) /\ Len(Load(bytes)) <= HISTORY_LIMIT
<1> DEFINE L == FileLines(bytes)
           M == LoadedLines(bytes)
<1>0. HISTORY_LIMIT \in Nat \ {0}
  BY HistoryAssumption
<1>1. L \in Seq(Lines)
  BY FileLinesTyped
<1>. HIDE DEF L
<1>2. Len(L) \in Nat /\ \A k \in 1..Len(L) : L[k] \in Lines
  BY <1>1
<1>3. M = [k \in 1..Len(L) |-> Shortened(L[k])]
  BY DEF LoadedLines, L
<1>. HIDE DEF M
<1>4. M \in [1..Len(L) -> Entries]
  BY <1>2, <1>3, ShortenedTyped
<1>5. M \in Seq(Entries)
  BY <1>2, <1>4, SeqDef
<1>6. Len(M) = Len(L)
  BY <1>2, <1>4, <1>5, LenProperties
<1>7. Load(bytes) = LastOf(HISTORY_LIMIT, M)
  BY <1>3 DEF Load, L
<1>8. LastOf(HISTORY_LIMIT, M) \in Seq(Entries) /\ Len(LastOf(HISTORY_LIMIT, M)) <= HISTORY_LIMIT
  BY <1>0, <1>5, <1>6, <1>2, LastOfTyped
<1>. QED
  BY <1>3, <1>5, <1>6, <1>7, <1>8 DEF L, M

\* A boot after a line was written finds it behind the others.
LEMMA LoadAdded ==
  ASSUME NEW f \in Seq(Bytes), Whole(f), NEW t \in Entries
  PROVE  Load(f \o t) = LastOf(HISTORY_LIMIT, Append(Load(f), t))
<1> DEFINE g == f \o t
           F == FileLines(f)
           G == FileLines(g)
           M == LoadedLines(f)
           N == LoadedLines(g)
           A == Append(M, t)
<1>0. HISTORY_LIMIT \in Nat \ {0} /\ t \in Lines
  BY HistoryAssumption DEF Entries, Lines
<1>1. t \in Seq(Bytes) /\ g \in Seq(Bytes)
  <2>1. t \in Seq(Bytes)
    BY <1>0 DEF Lines, Bytes
  <2>. QED
    BY <2>1, ConcatProperties
<1>2. G = Append(F, t)
  BY <1>0, LineAdded
<1>. HIDE DEF g
<1>3. F \in Seq(Lines)
  BY FileLinesTyped
<1>4. /\ M \in Seq(Entries) /\ Len(M) = Len(F)
      /\ \A k \in 1..Len(F) : M[k] = Shortened(F[k])
      /\ Load(f) = LastOf(HISTORY_LIMIT, M)
  BY LoadedTyped
<1>5. /\ N \in Seq(Entries) /\ Len(N) = Len(G)
      /\ \A k \in 1..Len(G) : N[k] = Shortened(G[k])
      /\ Load(g) = LastOf(HISTORY_LIMIT, N)
  BY <1>1, LoadedTyped
<1>. HIDE DEF F, G, M, N
<1>6. Len(G) = Len(F) + 1 /\ G[Len(F) + 1] = t /\ \A k \in 1..Len(F) : G[k] = F[k]
  BY <1>0, <1>2, <1>3, AppendProperties
<1>7. A \in Seq(Entries) /\ Len(A) = Len(M) + 1 /\ A[Len(M) + 1] = t /\ \A k \in 1..Len(M) : A[k] = M[k]
  BY <1>4, AppendProperties
<1>. HIDE DEF A
<1>8. ASSUME NEW k \in 1..Len(N) PROVE N[k] = A[k]
  <2>0. Len(F) \in Nat /\ k \in 1..Len(G) /\ N[k] = Shortened(G[k])
    BY <1>3, <1>5
  <2>1. CASE k = Len(F) + 1
    <3>1. Shortened(t) = t
      BY <1>0, ShortenedTyped
    <3>. QED
      BY <1>4, <1>6, <1>7, <2>0, <2>1, <3>1
  <2>2. CASE k # Len(F) + 1
    <3>1. k \in 1..Len(F)
      BY <1>6, <2>0, <2>2
    <3>. QED
      BY <1>4, <1>6, <1>7, <2>0, <3>1
  <2>. QED
    BY <2>1, <2>2
<1>9. N = A
  BY <1>4, <1>5, <1>6, <1>7, <1>8, SeqEqual
<1>10. LastOf(HISTORY_LIMIT, Append(LastOf(HISTORY_LIMIT, M), t)) = LastOf(HISTORY_LIMIT, Append(M, t))
  BY <1>0, <1>4, LastOfAppend
<1>11. Load(g) = LastOf(HISTORY_LIMIT, Append(Load(f), t))
  BY <1>4, <1>5, <1>9, <1>10 DEF A
<1>. QED
  BY <1>11 DEF g

(***************************************************************************)
(* What is saved stays in the file.                                        *)
(***************************************************************************)
\* A subsequence of a list is one of any longer list that starts with it, and stays one
\* when both get the same last member.
LEMMA SubsequenceOfLonger ==
  ASSUME NEW S, NEW s \in Seq(S), NEW t \in Seq(S), NEW u \in Seq(S), IsSubsequence(s, t),
         Len(t) <= Len(u), \A k \in 1..Len(t) : u[k] = t[k]
  PROVE  IsSubsequence(s, u)
<1>1. PICK at \in [1..Len(s) -> 1..Len(t)] :
         /\ \A i \in 1..Len(s) : s[i] = t[at[i]]
         /\ \A i, j \in 1..Len(s) : i < j => at[i] < at[j]
  BY DEF IsSubsequence
<1>2. at \in [1..Len(s) -> 1..Len(u)]
  BY <1>1
<1>3. \A i \in 1..Len(s) : s[i] = u[at[i]]
  BY <1>1
<1>. QED
  BY <1>1, <1>2, <1>3 DEF IsSubsequence

LEMMA SubsequenceAppend ==
  ASSUME NEW S, NEW s \in Seq(S), NEW t \in Seq(S), NEW e \in S, IsSubsequence(s, t)
  PROVE  IsSubsequence(Append(s, e), Append(t, e))
<1> DEFINE p == Append(s, e)
           q == Append(t, e)
<1>1. PICK at \in [1..Len(s) -> 1..Len(t)] :
         /\ \A i \in 1..Len(s) : s[i] = t[at[i]]
         /\ \A i, j \in 1..Len(s) : i < j => at[i] < at[j]
  BY DEF IsSubsequence
<1>2. /\ Len(s) \in Nat /\ Len(t) \in Nat
      /\ Len(p) = Len(s) + 1 /\ p[Len(s) + 1] = e /\ \A k \in 1..Len(s) : p[k] = s[k]
      /\ Len(q) = Len(t) + 1 /\ q[Len(t) + 1] = e /\ \A k \in 1..Len(t) : q[k] = t[k]
  BY AppendProperties
<1>. HIDE DEF p, q
<1>3. \A i \in 1..Len(s) : at[i] \in 1..Len(t)
  BY <1>1
<1>. DEFINE to == [i \in 1..Len(p) |-> IF i = Len(p) THEN Len(q) ELSE at[i]]
<1>4. \A i \in 1..Len(p) : i = Len(p) \/ i \in 1..Len(s)
  BY <1>2
<1>5. to \in [1..Len(p) -> 1..Len(q)]
  <2>1. Len(q) \in 1..Len(q) /\ \A k \in 1..Len(t) : k \in 1..Len(q)
    BY <1>2
  <2>. QED
    BY <1>3, <1>4, <2>1
<1>6. ASSUME NEW i \in 1..Len(p) PROVE p[i] = q[to[i]]
  <2>1. CASE i = Len(p)
    BY <1>2, <2>1
  <2>2. CASE i # Len(p)
    <3>1. i \in 1..Len(s) /\ to[i] = at[i] /\ at[i] \in 1..Len(t)
      BY <1>3, <1>4, <2>2
    <3>. QED
      BY <1>1, <1>2, <3>1
  <2>. QED
    BY <2>1, <2>2
<1>7. ASSUME NEW i \in 1..Len(p), NEW j \in 1..Len(p), i < j PROVE to[i] < to[j]
  <2>1. i # Len(p) /\ i \in 1..Len(s)
    BY <1>2, <1>4, <1>7
  <2>2. to[i] = at[i] /\ at[i] \in 1..Len(t)
    BY <1>3, <2>1
  <2>3. CASE j = Len(p)
    <3>1. to[j] = Len(t) + 1
      BY <1>2, <2>3
    <3>. QED
      BY <1>2, <2>2, <3>1
  <2>4. CASE j # Len(p)
    <3>1. j \in 1..Len(s) /\ to[j] = at[j]
      BY <1>4, <2>4
    <3>. QED
      BY <1>1, <1>7, <2>1, <2>2, <3>1
  <2>. QED
    BY <2>3, <2>4
<1>. HIDE DEF to
<1>8. IsSubsequence(p, q)
  BY <1>5, <1>6, <1>7 DEF IsSubsequence
<1>. QED
  BY <1>8 DEF p, q

(***************************************************************************)
(* Keys.                                                                   *)
(***************************************************************************)
\* No key makes the line longer than the buffer.
LEMMA EditsTyped ==
  ASSUME NEW s \in Texts, NEW u \in Edits(s)
  PROVE  u \in Texts
<1>0. s \in Seq(Chars) /\ Len(s) \in Nat /\ Len(s) < BUFFER_SIZE /\ BUFFER_SIZE \in Nat
  BY HistoryAssumption DEF Texts
<1>1. ASSUME NEW a \in Int, NEW b \in Int, 1 <= a, b <= Len(s)
      PROVE  /\ SubSeq(s, a, b) \in Seq(Chars)
             /\ Len(SubSeq(s, a, b)) = IF a <= b THEN (b - a) + 1 ELSE 0
  <2>1. \A k \in a..b : s[k] \in Chars
    BY <1>0, <1>1
  <2>. QED
    BY <2>1, SubSeqProperties
<1>2. ASSUME NEW i \in 1..(Len(s) + 1), NEW c \in Chars, Len(s) < BUFFER_SIZE - 1, u = InsertAt(s, i, c)
      PROVE  u \in Texts
  <2>. DEFINE a == SubSeq(s, 1, i - 1)
              b == SubSeq(s, i, Len(s))
              d == a \o <<c>>
  <2>1. a \in Seq(Chars) /\ Len(a) = i - 1
    BY <1>0, <1>1
  <2>2. b \in Seq(Chars) /\ Len(b) = (Len(s) - i) + 1
    <3>1. CASE i <= Len(s)
      BY <1>0, <1>1, <3>1
    <3>2. CASE i = Len(s) + 1
      BY <1>0, <1>1, <3>2
    <3>. QED
      BY <1>0, <3>1, <3>2
  <2>3. u = d \o b
    BY <1>2 DEF InsertAt
  <2>. HIDE DEF a, b
  <2>4. <<c>> \in Seq(Chars) /\ Len(<<c>>) = 1
    OBVIOUS
  <2>5. d \in Seq(Chars) /\ Len(d) = i
    <3>1. d \in Seq(Chars) /\ Len(d) = Len(a) + Len(<<c>>)
      BY <2>1, <2>4, ConcatProperties
    <3>. QED
      BY <2>1, <2>4, <3>1
  <2>. HIDE DEF d
  <2>6. u \in Seq(Chars) /\ Len(u) = Len(d) + Len(b)
    BY <2>2, <2>3, <2>5, ConcatProperties
  <2>7. Len(u) = Len(s) + 1
    BY <1>0, <2>2, <2>5, <2>6
  <2>. QED
    BY <1>0, <1>2, <2>6, <2>7 DEF Texts
<1>3. ASSUME NEW i \in 1..Len(s), u = RemoveAt(s, i)
      PROVE  u \in Texts
  <2>. DEFINE a == SubSeq(s, 1, i - 1)
              b == SubSeq(s, i + 1, Len(s))
  <2>1. a \in Seq(Chars) /\ Len(a) = i - 1
    BY <1>0, <1>1
  <2>2. b \in Seq(Chars) /\ Len(b) = Len(s) - i
    <3>1. CASE i + 1 <= Len(s)
      BY <1>0, <1>1, <3>1
    <3>2. CASE i = Len(s)
      BY <1>0, <1>1, <3>2
    <3>. QED
      BY <1>0, <3>1, <3>2
  <2>3. u = a \o b
    BY <1>3 DEF RemoveAt
  <2>. HIDE DEF a, b
  <2>4. u \in Seq(Chars) /\ Len(u) = Len(a) + Len(b)
    BY <2>1, <2>2, <2>3, ConcatProperties
  <2>5. Len(u) = Len(s) - 1
    BY <1>0, <2>1, <2>2, <2>4
  <2>. QED
    BY <1>0, <2>4, <2>5 DEF Texts
<1>. QED
  BY <1>2, <1>3 DEF Edits

(***************************************************************************)
(* The inductive invariant.                                                *)
(***************************************************************************)
\* What everything holds: there is always a newest line while one is being saved.
TypeInv ==
  /\ history \in Seq(Entries) /\ Len(history) <= HISTORY_LIMIT
  /\ line \in Texts /\ typed \in Texts /\ history_draft \in Texts
  /\ history_pos \in 0..Len(history)
  /\ file \in Seq(Bytes) /\ written \in Seq(Chars) /\ saved \in Seq(Lines)
  /\ saving \in {"idle", "line", "newline"} /\ faults \in 0..MaxFaults
  /\ collecting \in BOOLEAN /\ stale \in BOOLEAN /\ clean \in BOOLEAN
  /\ saving # "idle" => history # <<>>
  /\ saving # "newline" => written = <<>>

\* While Up and Down are at a line, the draft put aside is what was typed.
DraftInv ==
  ~stale => /\ line = IF history_pos = 0 THEN typed ELSE history[history_pos]
            /\ history_pos # 0 => history_draft = typed

\* What was saved is in a part of the file that ends with a newline, which nothing
\* changes; when no save since has failed, that part is all of it but the line being saved.
InWhole(ls, p) == p \in Seq(Bytes) /\ Whole(p) /\ IsSubsequence(ls, FileLines(p))

HasWhole(ls, f) == \E p, q \in Seq(Bytes) : InWhole(ls, p) /\ f = p \o q

SavedInv ==
  /\ HasWhole(saved, file)
  /\ clean /\ saving # "newline" => Whole(file)
  /\ clean /\ saving = "newline" =>
       written = <<>> /\ \E p \in Seq(Bytes) : InWhole(saved, p) /\ file = p \o Text

\* Before the first fault, the file holds the list, less the line about to be written.
ReloadInv ==
  faults = 0 =>
    /\ clean
    /\ saving # "line" => Load(file) = history
    /\ saving = "line" => history = LastOf(HISTORY_LIMIT, Append(Load(file), Text))

HistInv == TypeInv /\ DraftInv /\ SavedInv /\ ReloadInv

LEMMA EmptyFile ==
  /\ <<>> \in Seq(Bytes) /\ Whole(<<>>) /\ FileLines(<<>>) = <<>> /\ Load(<<>>) = <<>>
<1>1. <<>> \in Seq(Bytes) /\ Len(<<>>) = 0
  OBVIOUS
<1>2. FileLines(<<>>) \in Seq(Lines)
  BY <1>1, FileLinesTyped
<1>3. Starts(<<>>) = {}
  BY <1>1 DEF Starts
<1>4. Cardinality(Starts(<<>>)) = 0
  BY <1>3, FS_EmptySet
<1>5. DOMAIN FileLines(<<>>) = 1..0
  BY <1>4 DEF FileLines, LinesAt
<1>6. FileLines(<<>>) = <<>>
  <2>. DEFINE L == FileLines(<<>>)
  <2>. HIDE DEF L
  <2>1. L \in Seq(Lines) /\ DOMAIN L = 1..0
    BY <1>2, <1>5 DEF L
  <2>2. Len(L) = 0
    BY <2>1
  <2>3. L = <<>>
    BY <2>1, <2>2
  <2>. QED
    BY <2>3 DEF L
<1>7. Load(<<>>) \in Seq(Entries) /\ Len(Load(<<>>)) = 0
  <2>. DEFINE M == LoadedLines(<<>>)
              R == LastOf(HISTORY_LIMIT, M)
  <2>0. HISTORY_LIMIT \in Nat \ {0}
    BY HistoryAssumption
  <2>1. M \in Seq(Entries) /\ Len(M) = 0 /\ Load(<<>>) = R /\ Load(<<>>) \in Seq(Entries)
    BY <1>1, <1>6, LoadedTyped
  <2>. HIDE DEF M
  <2>2. Len(R) = IF Len(M) > HISTORY_LIMIT THEN HISTORY_LIMIT ELSE Len(M)
    BY <2>0, <2>1, LastOfTyped
  <2>3. Len(R) = 0
    <3>. HIDE DEF R
    <3>. QED
      BY <2>0, <2>1, <2>2
  <2>. QED
    BY <2>1, <2>3
<1>8. Load(<<>>) = <<>>
  BY <1>7
<1>. QED
  BY <1>1, <1>6, <1>8 DEF Whole

LEMMA TextsOf ==
  /\ <<>> \in Texts
  /\ \A s \in Entries : s \in Texts
  /\ \A s \in Texts : s # <<>> => s \in Entries
  /\ \A s \in Entries : s \in Lines /\ s \in Seq(Bytes) /\ s \in Seq(Chars)
<1>1. BUFFER_SIZE \in Nat /\ BUFFER_SIZE > 1
  BY HistoryAssumption
<1>2. <<>> \in Texts
  BY <1>1 DEF Texts
<1>3. \A s \in Seq(Chars) : s \in Seq(Bytes)
  BY DEF Bytes
<1>. QED
  BY <1>2, <1>3 DEF Texts, Entries, Lines

LEMMA InitHist == Init => HistInv
<1>. SUFFICES ASSUME Init PROVE HistInv
  OBVIOUS
<1>1. TypeInv
  <2>1. <<>> \in Texts /\ MaxFaults \in Nat /\ HISTORY_LIMIT \in Nat
    BY TextsOf, HistoryAssumption
  <2>2. 0 \in 0..Len(<<>>) /\ 0 \in 0..MaxFaults /\ Len(<<>>) <= HISTORY_LIMIT
    BY <2>1
  <2>3. history \in Seq(Entries) /\ file \in Seq(Bytes) /\ written \in Seq(Chars) /\ saved \in Seq(Lines)
    BY DEF Init
  <2>4. Len(history) <= HISTORY_LIMIT /\ history_pos \in 0..Len(history) /\ faults \in 0..MaxFaults
    BY <2>2 DEF Init
  <2>5. /\ collecting \in BOOLEAN /\ stale \in BOOLEAN /\ clean \in BOOLEAN
        /\ saving \in {"idle", "line", "newline"} /\ ~(saving # "idle")
        /\ line \in Texts /\ typed \in Texts /\ history_draft \in Texts
        /\ written = <<>>
    BY <2>1 DEF Init
  <2>. QED
    BY <2>3, <2>4, <2>5 DEF TypeInv
<1>2. DraftInv
  BY DEF DraftInv, Init
<1>3. InWhole(saved, <<>>)
  <2>1. IsSubsequence(<<>>, <<>>)
    <3>1. [i \in 1..Len(<<>>) |-> 1] \in [1..Len(<<>>) -> 1..Len(<<>>)]
      OBVIOUS
    <3>2. \A i \in 1..Len(<<>>) : FALSE
      OBVIOUS
    <3>. QED
      BY <3>1, <3>2 DEF IsSubsequence
  <2>. QED
    BY <2>1, EmptyFile DEF InWhole, Init
<1>4. SavedInv
  <2>1. <<>> \o <<>> = <<>>
    OBVIOUS
  <2>2. HasWhole(saved, file)
    BY <1>3, <2>1, EmptyFile DEF Init, HasWhole
  <2>. QED
    BY <2>2, EmptyFile DEF SavedInv, Init
<1>5. ReloadInv
  BY EmptyFile DEF ReloadInv, Init
<1>. QED
  BY <1>1, <1>2, <1>4, <1>5 DEF HistInv

\* What a boot makes of the state.
LEMMA BootTyped ==
  ASSUME TypeInv, shell_history_init
  PROVE  history' \in Seq(Entries) /\ Len(history') <= HISTORY_LIMIT
  BY LoadedTyped DEF TypeInv, shell_history_init

LEMMA TextTyped ==
  ASSUME TypeInv, saving # "idle"
  PROVE  Text \in Entries
<1>1. history \in Seq(Entries) /\ history # <<>>
  BY DEF TypeInv
<1>2. Len(history) \in 1..Len(history)
  BY <1>1
<1>3. history[Len(history)] \in Entries
  BY <1>1, <1>2
<1>. QED
  BY <1>3 DEF Text, Last

LEMMA EntryAdded ==
  ASSUME TypeInv, line # <<>>
  PROVE  /\ history_add \in Seq(Entries) /\ Len(history_add) <= HISTORY_LIMIT
         /\ history_add # <<>> /\ Last(history_add) = line /\ line \in Entries
<1>0. HISTORY_LIMIT \in Nat \ {0} /\ line \in Entries /\ history \in Seq(Entries)
  BY HistoryAssumption, TextsOf DEF TypeInv
<1>. DEFINE a == Append(history, line)
            b == LastOf(HISTORY_LIMIT, a)
<1>1. a \in Seq(Entries)
  BY <1>0, AppendProperties
<1>2. b # <<>> /\ Last(b) = line
  BY <1>0, LastOfAppend
<1>. HIDE DEF a
<1>3. b \in Seq(Entries) /\ Len(b) = IF Len(a) > HISTORY_LIMIT THEN HISTORY_LIMIT ELSE Len(a)
  BY <1>0, <1>1, LastOfTyped
<1>4. b = history_add
  BY DEF history_add, a
<1>. HIDE DEF b
<1>5. Len(b) <= HISTORY_LIMIT
  <2>1. Len(a) \in Nat
    BY <1>1
  <2>. QED
    BY <1>0, <1>3, <2>1
<1>. QED
  BY <1>0, <1>2, <1>3, <1>4, <1>5

(***************************************************************************)
(* Its steps.                                                              *)
(***************************************************************************)
LEMMA KeepText ==
  ASSUME UNCHANGED history
  PROVE  Text' = Text
  BY DEF Text

LEMMA TypeStep ==
  ASSUME TypeInv, [Next]_vars
  PROVE  TypeInv'
<1>0. /\ HISTORY_LIMIT \in Nat \ {0} /\ MaxFaults \in Nat /\ <<>> \in Texts
      /\ history \in Seq(Entries) /\ Len(history) \in Nat /\ faults \in Nat
  BY HistoryAssumption, TextsOf DEF TypeInv
<1>1. ASSUME NEW s \in Edits(line), edit(s) PROVE TypeInv'
  <2>1. s \in Texts /\ 0 \in 0..Len(history)
    BY <1>0, EditsTyped DEF TypeInv
  <2>. QED
    BY <1>1, <2>1 DEF TypeInv, edit, Disk, Ready
<1>2. ASSUME NEW i \in 1..Len(history) PROVE history[i] \in Texts
  <2>1. history[i] \in Entries
    BY <1>0
  <2>. QED
    BY <2>1, TextsOf
<1>3. CASE history_prev
  <2>1. history_pos' \in 1..Len(history)
    <3>1. Len(history) # 0
      BY <1>0, <1>3 DEF history_prev
    <3>. QED
      BY <1>0, <1>3, <3>1 DEF TypeInv, history_prev
  <2>2. line' \in Texts /\ history_draft' \in Texts
    BY <1>2, <1>3, <2>1 DEF TypeInv, history_prev
  <2>3. history_pos' \in 0..Len(history)
    BY <1>0, <2>1
  <2>. QED
    BY <1>3, <2>2, <2>3 DEF TypeInv, history_prev, Disk
<1>4. CASE history_next
  <2>1. CASE history_pos = Len(history)
    <3>1. history_pos' \in 0..Len(history) /\ line' \in Texts
      BY <1>0, <1>4, <2>1 DEF TypeInv, history_next
    <3>. QED
      BY <1>4, <3>1 DEF TypeInv, history_next, Disk
  <2>2. CASE history_pos # Len(history)
    <3>1. history_pos + 1 \in 1..Len(history)
      BY <1>0, <2>2 DEF TypeInv
    <3>2. history_pos' \in 0..Len(history) /\ line' \in Texts
      BY <1>0, <1>2, <1>4, <2>2, <3>1 DEF history_next
    <3>. QED
      BY <1>4, <3>2 DEF TypeInv, history_next, Disk
  <2>. QED
    BY <2>1, <2>2
<1>5. ASSUME NewLine PROVE line' \in Texts /\ typed' \in Texts /\ stale' \in BOOLEAN
  BY <1>0, <1>5 DEF NewLine
<1>6. CASE shell_process
  <2>1. collecting' \in BOOLEAN
    BY <1>6 DEF shell_process
  <2>2. CASE line # <<>> /\ history' = history_add /\ history_pos' = 0 /\ saving' = "line"
    <3>1. /\ history' \in Seq(Entries) /\ Len(history') <= HISTORY_LIMIT
          /\ history' # <<>>
      BY <2>2, EntryAdded
    <3>2. history_pos' \in 0..Len(history')
      <4>1. Len(history') \in Nat
        BY <3>1
      <4>. QED
        BY <2>2, <4>1
    <3>. QED
      <4>1. /\ saving = "idle" /\ written = <<>> /\ NewLine
            /\ UNCHANGED <<history_draft, file, written, faults, clean, saved>>
        BY <1>6 DEF shell_process, Ready, TypeInv
      <4>2. line' \in Texts /\ typed' \in Texts /\ stale' \in BOOLEAN
        BY <1>5, <4>1
      <4>. QED
        BY <2>1, <2>2, <3>1, <3>2, <4>1, <4>2 DEF TypeInv
  <2>3. CASE UNCHANGED <<history, history_pos, saving>>
    BY <1>5, <1>6, <2>1, <2>3 DEF TypeInv, shell_process
  <2>. QED
    BY <1>6, <2>2, <2>3 DEF shell_process
<1>7. CASE input_line
  BY <1>5, <1>7 DEF TypeInv, input_line, Disk
<1>8. CASE persist_line
  <2>1. Text \in Seq(Bytes)
    BY <1>8, TextTyped, TextsOf DEF persist_line
  <2>2. file' \in Seq(Bytes)
    BY <1>8, <2>1, ConcatProperties DEF persist_line, TypeInv
  <2>. QED
    BY <1>8, <2>2 DEF TypeInv, persist_line, Keys
<1>9. CASE persist_newline
  <2>0. Text \in Lines /\ saved \in Seq(Lines) /\ clean \in BOOLEAN
    BY <1>9, TextTyped, TextsOf DEF persist_newline, TypeInv
  <2>1. saved' \in Seq(Lines)
    <3>1. CASE clean
      <4>1. saved' = Append(saved, Text)
        BY <1>9, <3>1 DEF persist_newline
      <4>. QED
        BY <2>0, <4>1, AppendProperties
    <3>2. CASE ~clean
      BY <1>9, <2>0, <3>2 DEF persist_newline
    <3>. QED
      BY <2>0, <3>1, <3>2
  <2>2. written \in Seq(Bytes) /\ <<NL>> \in Seq(Bytes) /\ file \in Seq(Bytes)
    BY DEF TypeInv, Bytes
  <2>3. file \o written \in Seq(Bytes)
    BY <2>2, ConcatProperties
  <2>4. file' \in Seq(Bytes)
    BY <1>9, <2>2, <2>3, ConcatProperties DEF persist_newline
  <2>. QED
    BY <1>9, <2>1, <2>4 DEF TypeInv, persist_newline, Keys
<1>10. CASE open_fails
  <2>1. faults' \in 0..MaxFaults
    BY <1>0, <1>10 DEF open_fails, TypeInv
  <2>. QED
    BY <1>10, <2>1 DEF TypeInv, open_fails, Keys
<1>11. CASE write_fails
  <2>1. faults' \in 0..MaxFaults
    BY <1>0, <1>11 DEF write_fails, TypeInv
  <2>2. written' \in Seq(Chars) /\ saving' \in {"idle", "line", "newline"}
    <3>1. CASE saving = "line"
      <4>1. PICK k \in 0..Len(Text) : written' = SubSeq(Text, 1, k)
        BY <1>11, <3>1 DEF write_fails
      <4>2. Text \in Seq(Chars)
        BY <3>1, TextTyped, TextsOf
      <4>3. k \in Int /\ \A i \in 1..k : Text[i] \in Chars
        BY <4>2
      <4>. QED
        BY <1>11, <3>1, <4>1, <4>3, SubSeqProperties DEF write_fails
    <3>2. CASE saving # "line"
      BY <1>11, <3>2 DEF write_fails
    <3>. QED
      BY <3>1, <3>2
  <2>. QED
    BY <1>11, <2>1, <2>2 DEF TypeInv, write_fails, Keys
<1>12. ASSUME shell_history_init, faults' \in 0..MaxFaults, clean' \in BOOLEAN, UNCHANGED saved PROVE TypeInv'
  <2>1. history' \in Seq(Entries) /\ Len(history') <= HISTORY_LIMIT
    BY <1>12, BootTyped
  <2>2. history_pos' \in 0..Len(history')
    <3>1. Len(history') \in Nat
      BY <2>1
    <3>. QED
      BY <1>12, <3>1 DEF shell_history_init
  <2>3. line' \in Texts /\ typed' \in Texts /\ history_draft' \in Texts
    BY <1>0, <1>12 DEF shell_history_init
  <2>4. file' \in Seq(Bytes) /\ written' \in Seq(Chars) /\ saved' \in Seq(Lines)
    BY <1>12 DEF shell_history_init, TypeInv
  <2>. QED
    BY <1>12, <2>1, <2>2, <2>3, <2>4 DEF TypeInv, shell_history_init
<1>13. CASE reboot
  BY <1>12, <1>13 DEF reboot, TypeInv
<1>14. CASE power_loss
  <2>1. faults' \in 0..MaxFaults
    BY <1>0, <1>14 DEF power_loss, TypeInv
  <2>. QED
    BY <1>12, <1>14, <2>1 DEF power_loss
<1>15. CASE UNCHANGED vars
  BY <1>15 DEF TypeInv, vars, ghosts
<1>. QED
  BY <1>1, <1>3, <1>4, <1>6, <1>7, <1>8, <1>9, <1>10, <1>11, <1>13, <1>14, <1>15 DEF Next

\* Up and Down: the line shown is the one at history_pos, and editing or leaving it resets
\* history_pos, so the draft is still what was typed when Down comes back to it.
LEMMA DraftStep ==
  ASSUME TypeInv, DraftInv, [Next]_vars
  PROVE  DraftInv'
<1>0. history \in Seq(Entries) /\ Len(history) \in Nat /\ history_pos \in 0..Len(history) /\ stale \in BOOLEAN
  BY DEF TypeInv
<1>1. ASSUME NEW s \in Edits(line), edit(s) PROVE DraftInv'
  BY <1>1 DEF DraftInv, edit
<1>2. CASE history_prev
  <2>1. history_pos' # 0 /\ history_pos' \in Nat
    <3>1. Len(history) # 0
      BY <1>0, <1>2 DEF history_prev
    <3>. QED
      BY <1>0, <1>2, <3>1 DEF history_prev
  <2>2. line' = history'[history_pos'] /\ stale' = stale /\ typed' = typed
    BY <1>2 DEF history_prev
  <2>3. ~stale => history_draft' = typed
    BY <1>2 DEF DraftInv, history_prev
  <2>. QED
    BY <2>1, <2>2, <2>3 DEF DraftInv
<1>3. CASE history_next
  <2>1. CASE history_pos = Len(history)
    BY <1>3, <2>1 DEF DraftInv, history_next
  <2>2. CASE history_pos # Len(history)
    <3>1. history_pos + 1 # 0
      BY <1>0
    <3>. QED
      BY <1>3, <2>2, <3>1 DEF DraftInv, history_next
  <2>. QED
    BY <2>1, <2>2
<1>4. ASSUME NewLine PROVE DraftInv'
  BY <1>4 DEF DraftInv, NewLine
<1>5. CASE shell_process
  BY <1>4, <1>5 DEF shell_process
<1>6. CASE input_line
  BY <1>4, <1>6 DEF input_line
<1>7. ASSUME shell_history_init PROVE DraftInv'
  BY <1>7 DEF shell_history_init, DraftInv
<1>8. CASE reboot \/ power_loss
  BY <1>7, <1>8 DEF reboot, power_loss
<1>9. ASSUME UNCHANGED Keys PROVE DraftInv'
  BY <1>9 DEF DraftInv, Keys
<1>10. CASE persist_line \/ persist_newline \/ open_fails \/ write_fails
  BY <1>9, <1>10 DEF persist_line, persist_newline, open_fails, write_fails
<1>11. CASE UNCHANGED vars
  BY <1>9, <1>11 DEF Keys, vars, ghosts
<1>. QED
  BY <1>1, <1>2, <1>3, <1>5, <1>6, <1>8, <1>10, <1>11 DEF Next

\* Every saved line is one of the file's: those of its whole part come first.
LEMMA SavedIsInFile ==
  ASSUME TypeInv, SavedInv
  PROVE  IsSubsequence(saved, FileLines(file))
<1>1. PICK p, q \in Seq(Bytes) : InWhole(saved, p) /\ file = p \o q
  BY DEF SavedInv, HasWhole
<1>2. /\ FileLines(p) \in Seq(Lines) /\ FileLines(file) \in Seq(Lines) /\ saved \in Seq(Lines)
  BY FileLinesTyped DEF TypeInv
<1>3. /\ Len(FileLines(p)) <= Len(FileLines(file))
      /\ \A k \in 1..Len(FileLines(p)) : FileLines(file)[k] = FileLines(p)[k]
  BY <1>1, WholeLinesStay DEF InWhole
<1>4. IsSubsequence(saved, FileLines(p))
  BY <1>1 DEF InWhole
<1>. QED
  BY <1>2, <1>3, <1>4, SubsequenceOfLonger

\* Bytes added to the file leave its whole part alone.
LEMMA WholePartStays ==
  ASSUME NEW f, NEW s, NEW t \in Seq(Bytes), HasWhole(s, f)
  PROVE  HasWhole(s, f \o t)
<1>1. PICK p, q \in Seq(Bytes) : InWhole(s, p) /\ f = p \o q
  BY DEF HasWhole
<1>2. (p \o q) \o t = p \o (q \o t)
  BY ConcatAssociative
<1>3. q \o t \in Seq(Bytes)
  BY ConcatProperties
<1>. QED
  BY <1>1, <1>2, <1>3 DEF HasWhole

LEMMA NewlineBytes == <<NL>> \in Seq(Bytes) /\ Len(<<NL>>) = 1 /\ <<NL>>[1] = NL
  BY DEF Bytes

LEMMA SavedStep ==
  ASSUME TypeInv, SavedInv, [Next]_vars
  PROVE  SavedInv'
<1>0. file \in Seq(Bytes) /\ saved \in Seq(Lines) /\ written \in Seq(Bytes) /\ clean \in BOOLEAN
  BY DEF TypeInv, Bytes
<1>1. ASSUME UNCHANGED <<history, file, written, saving, clean, saved>> PROVE SavedInv'
  <2>1. Text' = Text
    BY <1>1, KeepText
  <2>. QED
    BY <1>1, <2>1 DEF SavedInv
<1>2. CASE (\E s \in Edits(line) : edit(s)) \/ history_prev \/ history_next \/ input_line \/ UNCHANGED vars
  BY <1>1, <1>2 DEF edit, history_prev, history_next, input_line, Disk, vars, ghosts
<1>3. CASE shell_process
  <2>1. saving # "newline" /\ saving' # "newline" /\ UNCHANGED <<file, clean, saved>>
    BY <1>3 DEF shell_process, Ready
  <2>. QED
    BY <2>1 DEF SavedInv
<1>4. ASSUME UNCHANGED <<file, saved>>, clean' = FALSE PROVE SavedInv'
  BY <1>4 DEF SavedInv
<1>5. CASE open_fails \/ write_fails \/ power_loss
  BY <1>4, <1>5 DEF open_fails, write_fails, power_loss, shell_history_init
<1>6. CASE reboot
  <2>1. saving # "newline" /\ saving' # "newline" /\ UNCHANGED <<file, clean, saved>>
    BY <1>6 DEF reboot, shell_history_init
  <2>. QED
    BY <2>1 DEF SavedInv
<1>7. CASE persist_line
  <2>0. Text \in Seq(Bytes) /\ Text' = Text
    BY <1>7, TextTyped, TextsOf, KeepText DEF persist_line, Keys
  <2>1. file' = file \o Text /\ saving = "line" /\ saving' = "newline"
        /\ clean' = clean /\ saved' = saved /\ written' = written
    BY <1>7 DEF persist_line
  <2>2. HasWhole(saved, file \o Text)
    BY <2>0, WholePartStays DEF SavedInv
  <2>3. ASSUME clean PROVE written = <<>> /\ InWhole(saved, file)
    <3>1. Whole(file) /\ written = <<>>
      BY <2>1, <2>3 DEF SavedInv, TypeInv
    <3>. QED
      BY <1>0, <3>1, SavedIsInFile DEF InWhole
  <2>. QED
    BY <1>0, <2>0, <2>1, <2>2, <2>3 DEF SavedInv
<1>8. CASE persist_newline
  <2>. DEFINE g == (file \o written) \o <<NL>>
  <2>0. /\ saving = "newline" /\ saving' # "newline" /\ file' = g
        /\ (clean => saved' = Append(saved, Text)) /\ (~clean => saved' = saved)
    BY <1>8 DEF persist_newline
  <2>1. file \o written \in Seq(Bytes) /\ g \in Seq(Bytes) /\ Len(g) = Len(file \o written) + 1
        /\ g[Len(file \o written) + 1] = NL
    <3>. DEFINE h == file \o written
    <3>1. h \in Seq(Bytes)
      BY <1>0, ConcatProperties
    <3>. HIDE DEF h
    <3>2. /\ h \o <<NL>> \in Seq(Bytes) /\ Len(h \o <<NL>>) = Len(h) + 1
          /\ (h \o <<NL>>)[Len(h) + 1] = NL
      BY <3>1, NewlineBytes, ConcatProperties
    <3>. QED
      BY <3>1, <3>2 DEF h
  <2>. HIDE DEF g
  <2>2. Whole(g)
    <3>1. g[Len(g)] = NL
      BY <2>1
    <3>. QED
      BY <3>1 DEF Whole
  <2>3. HasWhole(saved', g)
    <3>1. CASE ~clean
      <4>1. HasWhole(saved, file \o written)
        BY <1>0, WholePartStays DEF SavedInv
      <4>2. HasWhole(saved, g)
        BY <4>1, NewlineBytes, WholePartStays DEF g
      <4>. QED
        BY <2>0, <3>1, <4>2
    <3>2. CASE clean
      <4>1. PICK p \in Seq(Bytes) : InWhole(saved, p) /\ file = p \o Text
        BY <2>0, <3>2 DEF SavedInv
      <4>2. written = <<>> /\ Text \in Lines
        BY <2>0, <3>2, TextTyped, TextsOf DEF SavedInv
      <4>3. file \o written = file
        BY <1>0, <4>2, ConcatEmptySeq
      <4>4. FileLines(g) = FileLines(file)
        BY <1>0, <4>3, NewlineAdded DEF g
      <4>5. FileLines(file) = Append(FileLines(p), Text)
        BY <4>1, <4>2, LineAdded DEF InWhole
      <4>6. IsSubsequence(Append(saved, Text), Append(FileLines(p), Text))
        BY <1>0, <4>1, <4>2, FileLinesTyped, SubsequenceAppend DEF InWhole
      <4>7. InWhole(saved', g)
        BY <2>0, <2>1, <2>2, <3>2, <4>4, <4>5, <4>6 DEF InWhole
      <4>8. g = g \o <<>>
        BY <2>1, ConcatEmptySeq
      <4>. QED
        BY <2>1, <4>7, <4>8, EmptyFile DEF HasWhole
    <3>. QED
      BY <3>1, <3>2
  <2>. QED
    BY <2>0, <2>2, <2>3 DEF SavedInv
<1>. QED
  BY <1>2, <1>3, <1>5, <1>6, <1>7, <1>8 DEF Next

LEMMA ReloadStep ==
  ASSUME TypeInv, SavedInv, ReloadInv, [Next]_vars
  PROVE  ReloadInv'
<1>0. file \in Seq(Bytes) /\ faults \in Nat
  BY HistoryAssumption DEF TypeInv
<1>1. ASSUME UNCHANGED <<history, file, saving, clean, faults>> PROVE ReloadInv'
  <2>1. Text' = Text
    BY <1>1, KeepText
  <2>. QED
    BY <1>1, <2>1 DEF ReloadInv
<1>2. CASE (\E s \in Edits(line) : edit(s)) \/ history_prev \/ history_next \/ input_line \/ UNCHANGED vars
  BY <1>1, <1>2 DEF edit, history_prev, history_next, input_line, Disk, vars, ghosts
<1>3. CASE shell_process
  <2>0. saving = "idle" /\ UNCHANGED <<file, clean, faults>>
    BY <1>3 DEF shell_process, Ready
  <2>1. CASE line # <<>> /\ history' = history_add /\ saving' = "line"
    <3>1. Last(history_add) = line
      BY <2>1, EntryAdded
    <3>2. Text' = line
      BY <2>1, <3>1 DEF Text
    <3>3. faults = 0 => history' = LastOf(HISTORY_LIMIT, Append(Load(file), line))
      BY <2>0, <2>1 DEF ReloadInv, history_add
    <3>. QED
      BY <2>0, <2>1, <3>2, <3>3 DEF ReloadInv
  <2>2. CASE UNCHANGED <<history, history_pos, saving>>
    BY <1>1, <2>0, <2>2
  <2>. QED
    BY <1>3, <2>1, <2>2 DEF shell_process
<1>4. CASE open_fails \/ write_fails \/ power_loss
  <2>1. faults' # 0
    BY <1>0, <1>4 DEF open_fails, write_fails, power_loss
  <2>. QED
    BY <2>1 DEF ReloadInv
<1>5. CASE reboot
  <2>1. saving' = "idle" /\ history' = Load(file) /\ UNCHANGED <<file, faults, clean>>
    BY <1>5 DEF reboot, shell_history_init
  <2>. QED
    BY <2>1 DEF ReloadInv
<1>6. CASE persist_line
  <2>0. /\ saving = "line" /\ saving' = "newline" /\ file' = file \o Text
        /\ UNCHANGED <<history, faults, clean>>
    BY <1>6 DEF persist_line, Keys
  <2>1. ASSUME faults = 0 PROVE Load(file \o Text) = history /\ clean
    <3>1. Whole(file) /\ clean
      BY <2>0, <2>1 DEF SavedInv, ReloadInv
    <3>2. Load(file \o Text) = LastOf(HISTORY_LIMIT, Append(Load(file), Text))
      BY <1>0, <2>0, <3>1, TextTyped, LoadAdded
    <3>. QED
      BY <2>0, <2>1, <3>1, <3>2 DEF ReloadInv
  <2>. QED
    BY <2>0, <2>1 DEF ReloadInv
<1>7. CASE persist_newline
  <2>0. /\ saving = "newline" /\ saving' = "idle" /\ file' = (file \o written) \o <<NL>>
        /\ UNCHANGED <<history, faults>> /\ clean' = TRUE
    BY <1>7 DEF persist_newline, Keys
  <2>1. ASSUME faults = 0 PROVE Load(file') = history
    <3>1. written = <<>> /\ Load(file) = history
      BY <2>0, <2>1 DEF SavedInv, ReloadInv
    <3>2. file \o written = file
      BY <1>0, <3>1, ConcatEmptySeq
    <3>3. FileLines(file') = FileLines(file)
      BY <1>0, <2>0, <3>2, NewlineAdded
    <3>4. Load(file') = Load(file)
      BY <3>3 DEF Load
    <3>. QED
      BY <3>1, <3>4
  <2>. QED
    BY <2>0, <2>1 DEF ReloadInv
<1>. QED
  BY <1>2, <1>3, <1>4, <1>5, <1>6, <1>7 DEF Next

LEMMA HistAlways == Spec => []HistInv
<1>1. HistInv /\ [Next]_vars => HistInv'
  <2>. SUFFICES ASSUME HistInv, [Next]_vars PROVE HistInv'
    OBVIOUS
  <2>1. TypeInv /\ DraftInv /\ SavedInv /\ ReloadInv
    BY DEF HistInv
  <2>2. TypeInv' /\ DraftInv' /\ SavedInv' /\ ReloadInv'
    BY <2>1, TypeStep, DraftStep, SavedStep, ReloadStep
  <2>. QED
    BY <2>2 DEF HistInv
<1>. QED
  BY <1>1, InitHist, PTL DEF Spec

(***************************************************************************)
(* The theorems.                                                           *)
(***************************************************************************)
\* The list never outgrows its limit and holds no empty line, the place Up and Down are at
\* is one of it, and no line outgrows the buffer.
THEOREM HistoryTypeCorrect == Spec => []TypeOK
<1>1. HistInv => TypeOK
  <2>. SUFFICES ASSUME TypeInv PROVE TypeOK
    BY DEF HistInv
  <2>1. history \in Seq(Entries)
    BY DEF TypeInv
  <2>2. \A k \in 1..Len(history) : history[k] # <<>>
    BY <2>1 DEF Entries
  <2>3. Range(history) \subseteq Entries
    BY <2>1 DEF Range
  <2>4. \A s \in Range(history) \cup {line, typed, history_draft} :
          s \in Seq(Chars) /\ Len(s) < BUFFER_SIZE
    BY <2>3 DEF TypeInv, Entries, Texts
  <2>5. {collecting, stale, clean} \subseteq BOOLEAN
    BY DEF TypeInv
  <2>6. file \in Seq(Chars \cup {NL})
    BY DEF TypeInv, Bytes
  <2>. QED
    BY <2>2, <2>4, <2>5, <2>6 DEF TypeOK, TypeInv
<1>. QED
  BY <1>1, HistAlways, PTL

\* Up and Down show the lines of the list and, past the newest, what the user had typed.
THEOREM DraftAlwaysReturns == Spec => []DraftReturns
<1>1. HistInv => DraftReturns
  BY DEF HistInv, DraftInv, DraftReturns
<1>. QED
  BY <1>1, HistAlways, PTL

\* A boot between two commands finds the list as it was, as long as no write has failed.
THEOREM ReloadAlwaysMatches == Spec => []ReloadMatches
<1>1. HistInv => ReloadMatches
  BY DEF HistInv, ReloadInv, ReloadMatches
<1>. QED
  BY <1>1, HistAlways, PTL

\* Whatever writes fail and whenever the power goes, every line that was saved whole is in
\* the file, whole and in order.
THEOREM SavedAlwaysSurvives == Spec => []SavedSurvives
<1>1. HistInv => SavedSurvives
  BY SavedIsInFile DEF HistInv, SavedSurvives
<1>. QED
  BY <1>1, HistAlways, PTL
=============================================================================
