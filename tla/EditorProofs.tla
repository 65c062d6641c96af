---------------------------- MODULE EditorProofs ----------------------------
(***************************************************************************)
(* What holds of the lost editor for all characters, files and sizes of    *)
(* its memory and its screen.                                              *)
(***************************************************************************)
EXTENDS Editor, SequenceTheorems, FiniteSetTheorems, WellFoundedInduction, TLAPS

LEMMA LeastNumber ==
  ASSUME NEW T, T \subseteq Nat, T # {}
  PROVE  \E x \in T : \A y \in T : x <= y
<1>1. PICK x \in T : \A y \in T : ~(<<y, x>> \in OpToRel(<, Nat))
  BY NatLessThanWellFounded, WFMin
<1>2. \A y \in T : ~(y < x)
  BY <1>1 DEF OpToRel
<1>. QED
  BY <1>2

(***************************************************************************)
(* A sequence of sequences made one: FlattenSeq is a recursive function,   *)
(* and that there is one, and only one, is shown here with the least place *)
(* at which there would not be.                                            *)
(***************************************************************************)
\* g joins the first n members of ss, one after the other.
Joins(ss, n, g) == g = [i \in 1..n |-> IF i = 1 THEN ss[i] ELSE g[i - 1] \o ss[i]]

LEMMA JoinExists ==
  ASSUME NEW S, NEW ss \in Seq(Seq(S)), NEW n \in 0..Len(ss)
  PROVE  \E g \in [1..n -> Seq(S)] : Joins(ss, n, g)
<1> DEFINE Bad == {m \in Nat : m \in 0..Len(ss) /\ ~\E g \in [1..m -> Seq(S)] : Joins(ss, m, g)}
<1>0. Len(ss) \in Nat /\ n \in Nat
  OBVIOUS
<1>1. SUFFICES ASSUME Bad # {} PROVE FALSE
  <2>. SUFFICES ASSUME n \notin Bad PROVE \E g \in [1..n -> Seq(S)] : Joins(ss, n, g)
    OBVIOUS
  <2>. QED
    BY <1>0
<1>2. PICK m \in Bad : \A k \in Bad : m <= k
  BY <1>1, LeastNumber
<1>3. m \in 0..Len(ss) /\ m \in Nat /\ ~\E g \in [1..m -> Seq(S)] : Joins(ss, m, g)
  BY <1>2
<1>4. CASE m = 0
  <2>. DEFINE g == [i \in 1..0 |-> ss[i]]
  <2>1. g \in [1..0 -> Seq(S)] /\ Joins(ss, 0, g)
    BY DEF Joins
  <2>. QED
    BY <1>3, <1>4, <2>1
<1>5. CASE m # 0
  <2>1. m - 1 \in Nat /\ m - 1 \in 0..Len(ss) /\ ~(m <= m - 1) /\ m \in 1..Len(ss)
    BY <1>0, <1>3, <1>5
  <2>2. m - 1 \notin Bad
    <3>. HIDE DEF Bad
    <3>. QED
      BY <1>2, <2>1
  <2>3. PICK g \in [1..(m - 1) -> Seq(S)] : Joins(ss, m - 1, g)
    BY <2>1, <2>2
  <2>. DEFINE next == IF m = 1 THEN ss[m] ELSE g[m - 1] \o ss[m]
              h == [i \in 1..m |-> IF i = m THEN next ELSE g[i]]
  <2>4. next \in Seq(S)
    <3>1. CASE m = 1
      BY <2>1, <3>1
    <3>2. CASE m # 1
      <4>1. m - 1 \in 1..(m - 1) /\ ss[m] \in Seq(S)
        BY <1>3, <2>1, <3>2
      <4>2. g[m - 1] \in Seq(S)
        BY <4>1
      <4>. QED
        BY <3>2, <4>1, <4>2, ConcatProperties
    <3>. QED
      BY <3>1, <3>2
  <2>. HIDE DEF next
  <2>5. \A i \in 1..m : i = m \/ i \in 1..(m - 1)
    BY <1>3
  <2>6. h \in [1..m -> Seq(S)]
    BY <2>4, <2>5
  <2>7. \A i \in 1..(m - 1) : g[i] = IF i = 1 THEN ss[i] ELSE g[i - 1] \o ss[i]
    BY <2>3 DEF Joins
  <2>8. ASSUME NEW i \in 1..m PROVE h[i] = IF i = 1 THEN ss[i] ELSE h[i - 1] \o ss[i]
    <3>1. CASE i = 1
      BY <2>5, <2>7, <3>1 DEF next
    <3>2. CASE i # 1
      <4>1. i - 1 \in 1..m /\ i - 1 # m
        BY <1>3, <3>2
      <4>2. h[i - 1] = g[i - 1]
        BY <4>1
      <4>. QED
        BY <2>5, <2>7, <3>2, <4>2 DEF next
    <3>. QED
      BY <3>1, <3>2
  <2>. DEFINE k == [i \in 1..m |-> IF i = 1 THEN ss[i] ELSE h[i - 1] \o ss[i]]
  <2>9. h = k
    BY <2>6, <2>8
  <2>10. Joins(ss, m, h)
    <3>. HIDE DEF h
    <3>. QED
      BY <2>9 DEF Joins
  <2>. QED
    BY <1>3, <2>6, <2>10
<1>. QED
  BY <1>4, <1>5

\* Two of them agree on what both join.
LEMMA JoinsAgree ==
  ASSUME NEW ss, NEW n \in Nat, NEW m \in Nat, n <= m, NEW g, NEW h,
         Joins(ss, n, g), Joins(ss, m, h)
  PROVE  \A i \in 1..n : g[i] = h[i]
<1> DEFINE Bad == {i \in Nat : i \in 1..n /\ g[i] # h[i]}
<1>1. SUFFICES ASSUME Bad # {} PROVE FALSE
  OBVIOUS
<1>2. PICK i \in Bad : \A k \in Bad : i <= k
  BY <1>1, LeastNumber
<1>3. i \in 1..n /\ i \in 1..m /\ g[i] # h[i] /\ i \in Nat
  BY <1>2
<1>4. /\ g[i] = IF i = 1 THEN ss[i] ELSE g[i - 1] \o ss[i]
      /\ h[i] = IF i = 1 THEN ss[i] ELSE h[i - 1] \o ss[i]
  BY <1>3 DEF Joins
<1>5. i # 1 /\ g[i - 1] # h[i - 1]
  BY <1>3, <1>4
<1>6. i - 1 \in Nat /\ i - 1 \in 1..n /\ ~(i <= i - 1)
  BY <1>3, <1>5
<1>7. i - 1 \in Bad
  BY <1>5, <1>6
<1>. QED
  <2>. HIDE DEF Bad
  <2>. QED
    BY <1>2, <1>6, <1>7

LEMMA FlattenIs ==
  ASSUME NEW S, NEW ss \in Seq(Seq(S)), ss # <<>>
  PROVE  \E g \in [1..Len(ss) -> Seq(S)] : Joins(ss, Len(ss), g) /\ FlattenSeq(ss) = g[Len(ss)]
<1>1. Len(ss) \in Nat /\ Len(ss) # 0 /\ Len(ss) \in 0..Len(ss) /\ Len(ss) \in 1..Len(ss)
  OBVIOUS
<1> DEFINE h == CHOOSE g : g = [i \in 1..Len(ss) |-> IF i = 1 THEN ss[i] ELSE g[i - 1] \o ss[i]]
<1>2. PICK g \in [1..Len(ss) -> Seq(S)] : Joins(ss, Len(ss), g)
  BY <1>1, JoinExists
<1>3. FlattenSeq(ss) = h[Len(ss)]
  BY <1>1 DEF FlattenSeq
<1>4. Joins(ss, Len(ss), h)
  BY <1>2 DEF Joins
<1>. HIDE DEF h
<1>5. \A i \in 1..Len(ss) : g[i] = h[i]
  BY <1>1, <1>2, <1>4, JoinsAgree
<1>. QED
  BY <1>1, <1>2, <1>3, <1>5

LEMMA FlattenEmpty ==
  FlattenSeq(<<>>) = <<>>
  BY DEF FlattenSeq

LEMMA FlattenTyped ==
  ASSUME NEW S, NEW ss \in Seq(Seq(S))
  PROVE  FlattenSeq(ss) \in Seq(S)
<1>1. CASE ss = <<>>
  <2>1. FlattenSeq(ss) = <<>>
    BY <1>1, FlattenEmpty
  <2>. QED
    BY <2>1
<1>2. CASE ss # <<>>
  <2>1. PICK g \in [1..Len(ss) -> Seq(S)] : FlattenSeq(ss) = g[Len(ss)]
    BY <1>2, FlattenIs
  <2>2. Len(ss) \in 1..Len(ss)
    BY <1>2
  <2>. QED
    BY <2>1, <2>2
<1>. QED
  BY <1>1, <1>2

\* One more member comes behind what there was.
LEMMA FlattenAppend ==
  ASSUME NEW S, NEW ss \in Seq(Seq(S)), NEW t \in Seq(S)
  PROVE  FlattenSeq(Append(ss, t)) = FlattenSeq(ss) \o t
<1> DEFINE n == Len(ss)
           tt == Append(ss, t)
<1>1. /\ n \in Nat /\ tt \in Seq(Seq(S)) /\ Len(tt) = n + 1 /\ tt[n + 1] = t /\ tt # <<>>
      /\ \A i \in 1..n : tt[i] = ss[i]
  BY AppendProperties
<1>. HIDE DEF tt, n
<1>2. PICK h \in [1..(n + 1) -> Seq(S)] : Joins(tt, n + 1, h) /\ FlattenSeq(tt) = h[n + 1]
  BY <1>1, FlattenIs
<1>3. h[n + 1] = IF n + 1 = 1 THEN tt[n + 1] ELSE h[(n + 1) - 1] \o tt[n + 1]
  <2>1. n + 1 \in 1..(n + 1)
    BY <1>1
  <2>. QED
    BY <1>2, <2>1 DEF Joins
<1>4. CASE n = 0
  <2>1. ss = <<>>
    BY <1>4 DEF n
  <2>2. FlattenSeq(tt) = t /\ <<>> \o t = t
    BY <1>1, <1>2, <1>3, <1>4, ConcatEmptySeq
  <2>. QED
    BY <2>1, <2>2, FlattenEmpty DEF tt
<1>5. CASE n # 0
  <2>1. PICK g \in [1..n -> Seq(S)] : Joins(ss, n, g) /\ FlattenSeq(ss) = g[n]
    BY <1>5, FlattenIs DEF n
  <2>2. Joins(tt, n, g)
    <3>. DEFINE a == [i \in 1..n |-> IF i = 1 THEN ss[i] ELSE g[i - 1] \o ss[i]]
                b == [i \in 1..n |-> IF i = 1 THEN tt[i] ELSE g[i - 1] \o tt[i]]
    <3>1. a = b
      BY <1>1
    <3>2. g = a
      BY <2>1 DEF Joins
    <3>3. g = b
      BY <3>1, <3>2
    <3>. QED
      BY <3>3 DEF Joins
  <2>3. n <= n + 1 /\ n + 1 \in Nat /\ n \in 1..n /\ (n + 1) - 1 = n /\ n + 1 # 1
    BY <1>1, <1>5
  <2>4. g[n] = h[n]
    <3>. DEFINE m == n + 1
    <3>1. n \in Nat /\ m \in Nat /\ n <= m /\ Joins(tt, n, g) /\ Joins(tt, m, h)
      BY <1>1, <1>2, <2>2, <2>3
    <3>. HIDE DEF m
    <3>2. \A a, b : Joins(tt, n, a) /\ Joins(tt, m, b) => \A i \in 1..n : a[i] = b[i]
      BY <3>1, JoinsAgree
    <3>3. \A i \in 1..n : g[i] = h[i]
      BY <3>1, <3>2
    <3>. QED
      BY <2>3, <3>3
  <2>5. FlattenSeq(tt) = FlattenSeq(ss) \o t
    BY <1>1, <1>2, <1>3, <2>1, <2>3, <2>4
  <2>. QED
    BY <2>5 DEF tt
<1>. QED
  BY <1>4, <1>5

LEMMA FlattenConcat ==
  ASSUME NEW S, NEW ss \in Seq(Seq(S)), NEW tt \in Seq(Seq(S))
  PROVE  FlattenSeq(ss \o tt) = FlattenSeq(ss) \o FlattenSeq(tt)
<1> DEFINE First(k) == SubSeq(tt, 1, k)
           Joined(k) == FlattenSeq(ss \o First(k)) = FlattenSeq(ss) \o FlattenSeq(First(k))
           Bad == {k \in Nat : k \in 0..Len(tt) /\ ~Joined(k)}
<1>0. Len(tt) \in Nat /\ FlattenSeq(ss) \in Seq(S)
  BY FlattenTyped
<1>1. ASSUME NEW k \in 0..Len(tt)
      PROVE  /\ First(k) \in Seq(Seq(S)) /\ Len(First(k)) = k
             /\ \A i \in 1..k : First(k)[i] = tt[i]
  <2>1. k \in Int /\ \A i \in 1..k : tt[i] \in Seq(S)
    BY <1>0
  <2>2. /\ First(k) \in Seq(Seq(S)) /\ Len(First(k)) = IF 1 <= k THEN (k - 1) + 1 ELSE 0
        /\ \A i \in 1..((k - 1) + 1) : First(k)[i] = tt[1 + (i - 1)]
    BY <2>1, SubSeqProperties
  <2>. HIDE DEF First
  <2>. QED
    BY <2>1, <2>2
<1>2. First(0) = <<>>
  <2>1. First(0) \in Seq(Seq(S)) /\ Len(First(0)) = 0
    BY <1>0, <1>1
  <2>. QED
    BY <2>1
<1>3. First(Len(tt)) = tt
  <2>1. Len(tt) \in 0..Len(tt)
    BY <1>0
  <2>2. First(Len(tt)) \in Seq(Seq(S)) /\ Len(First(Len(tt))) = Len(tt) /\ \A i \in 1..Len(tt) : First(Len(tt))[i] = tt[i]
    BY <1>1, <2>1
  <2>. HIDE DEF First
  <2>. QED
    BY <2>2, SeqEqual
<1>4. ASSUME NEW k \in 1..Len(tt)
      PROVE  k - 1 \in 0..Len(tt) /\ First(k) = Append(First(k - 1), tt[k]) /\ tt[k] \in Seq(S)
  <2>0. k \in 0..Len(tt) /\ k - 1 \in 0..Len(tt) /\ tt[k] \in Seq(S) /\ k \in Nat /\ (k - 1) + 1 = k
    BY <1>0
  <2>1. First(k) \in Seq(Seq(S)) /\ Len(First(k)) = k /\ \A i \in 1..k : First(k)[i] = tt[i]
    BY <1>1, <2>0
  <2>2. First(k - 1) \in Seq(Seq(S)) /\ Len(First(k - 1)) = k - 1 /\ \A i \in 1..(k - 1) : First(k - 1)[i] = tt[i]
    BY <1>1, <2>0
  <2>. DEFINE a == Append(First(k - 1), tt[k])
  <2>. HIDE DEF First
  <2>3. /\ a \in Seq(Seq(S)) /\ Len(a) = k /\ a[k] = tt[k]
        /\ \A i \in 1..(k - 1) : a[i] = tt[i]
    BY <2>0, <2>2, AppendProperties
  <2>. HIDE DEF a
  <2>4. \A i \in 1..k : i = k \/ i \in 1..(k - 1)
    BY <2>0
  <2>5. First(k) = a
    BY <2>1, <2>3, <2>4, SeqEqual
  <2>. QED
    BY <2>0, <2>5 DEF a
<1>. HIDE DEF First
<1>5. SUFFICES ASSUME Bad # {} PROVE FALSE
  <2>1. Len(tt) \in 0..Len(tt)
    BY <1>0
  <2>2. SUFFICES ASSUME Len(tt) \notin Bad PROVE FlattenSeq(ss \o tt) = FlattenSeq(ss) \o FlattenSeq(tt)
    OBVIOUS
  <2>. QED
    BY <1>0, <1>3, <2>1
<1>6. PICK k \in Bad : \A j \in Bad : k <= j
  BY <1>5, LeastNumber
<1>7. k \in Nat /\ k \in 0..Len(tt) /\ ~Joined(k)
  BY <1>6
<1>8. CASE k = 0
  <2>1. ss \o <<>> = ss /\ FlattenSeq(ss) \o <<>> = FlattenSeq(ss)
    BY <1>0, ConcatEmptySeq
  <2>. QED
    BY <1>2, <1>7, <1>8, <2>1, FlattenEmpty
<1>9. CASE k # 0
  <2>1. k \in 1..Len(tt) /\ k - 1 \in Nat /\ ~(k <= k - 1)
    BY <1>0, <1>7, <1>9
  <2>2. k - 1 \in 0..Len(tt) /\ First(k) = Append(First(k - 1), tt[k]) /\ tt[k] \in Seq(S)
    BY <1>4, <2>1
  <2>3. k - 1 \notin Bad
    <3>. HIDE DEF Bad
    <3>. QED
      BY <1>6, <2>1
  <2>4. Joined(k - 1)
    BY <2>1, <2>2, <2>3
  <2>5. First(k - 1) \in Seq(Seq(S))
    BY <1>1, <2>2
  <2>. DEFINE p == First(k - 1)
              q == tt[k]
  <2>. HIDE DEF p, q
  <2>6. p \in Seq(Seq(S)) /\ q \in Seq(S) /\ First(k) = Append(p, q)
    BY <2>2, <2>5 DEF p, q
  <2>7. FlattenSeq(ss \o p) = FlattenSeq(ss) \o FlattenSeq(p)
    BY <2>4 DEF p
  <2>8. ss \o Append(p, q) = Append(ss \o p, q)
    <3>1. Append(p, q) = p \o <<q>> /\ <<q>> \in Seq(Seq(S))
      BY <2>6, AppendIsConcat, SMTT(30)
    <3>2. ss \o p \in Seq(Seq(S))
      BY <2>6, ConcatProperties
    <3>3. Append(ss \o p, q) = (ss \o p) \o <<q>>
      BY <2>6, <3>2, AppendIsConcat
    <3>4. (ss \o p) \o <<q>> = ss \o (p \o <<q>>)
      BY <2>6, <3>1, ConcatAssociative, SMTT(60)
    <3>. QED
      BY <3>1, <3>3, <3>4
  <2>9. FlattenSeq(Append(ss \o p, q)) = FlattenSeq(ss \o p) \o q
    <3>1. ss \o p \in Seq(Seq(S))
      BY <2>6, ConcatProperties
    <3>. QED
      BY <2>6, <3>1, FlattenAppend
  <2>10. FlattenSeq(Append(p, q)) = FlattenSeq(p) \o q
    BY <2>6, FlattenAppend
  <2>11. FlattenSeq(p) \in Seq(S)
    BY <2>6, FlattenTyped
  <2>12. (FlattenSeq(ss) \o FlattenSeq(p)) \o q = FlattenSeq(ss) \o (FlattenSeq(p) \o q)
    <3>. DEFINE a == FlattenSeq(ss)
                b == FlattenSeq(p)
    <3>1. a \in Seq(S) /\ b \in Seq(S) /\ q \in Seq(S)
      BY <1>0, <2>6, <2>11
    <3>. HIDE DEF a, b
    <3>2. (a \o b) \o q = a \o (b \o q)
      BY <3>1, ConcatAssociative, SMTT(60)
    <3>. QED
      BY <3>2 DEF a, b
  <2>13. Joined(k)
    BY <2>6, <2>7, <2>8, <2>9, <2>10, <2>12
  <2>. QED
    BY <1>7, <2>13
<1>. QED
  BY <1>7, <1>8, <1>9

LEMMA FlattenOne ==
  ASSUME NEW S, NEW t \in Seq(S)
  PROVE  FlattenSeq(<<t>>) = t
<1>1. <<>> \in Seq(Seq(S)) /\ Append(<<>>, t) = <<t>>
  OBVIOUS
<1>2. FlattenSeq(Append(<<>>, t)) = FlattenSeq(<<>>) \o t
  BY <1>1, FlattenAppend
<1>3. <<>> \o t = t
  BY ConcatEmptySeq
<1>. QED
  BY <1>1, <1>2, <1>3, FlattenEmpty

(***************************************************************************)
(* Sets of numbers in order.                                               *)
(***************************************************************************)
LEMMA BelowFinite ==
  ASSUME NEW S, S \subseteq Nat, IsFiniteSet(S), NEW x \in Nat
  PROVE  IsFiniteSet(Below(S, x)) /\ Cardinality(Below(S, x)) \in Nat
<1>1. Below(S, x) \subseteq S
  BY DEF Below
<1>. QED
  BY <1>1, FS_Subset, FS_CardinalityType

\* Every place is taken: with the least place that is not, the member after the one before
\* it would take it.
LEMMA PlacesTaken ==
  ASSUME NEW S, S \subseteq Nat, IsFiniteSet(S), NEW k \in 1..Cardinality(S)
  PROVE  AtPlace(S, k) # {}
<1>0. Cardinality(S) \in Nat
  BY FS_CardinalityType
<1> DEFINE Free == {n \in Nat : n \in 1..Cardinality(S) /\ AtPlace(S, n) = {}}
<1>1. SUFFICES ASSUME Free # {} PROVE FALSE
  BY <1>0
<1>2. PICK n \in Free : \A m \in Free : n <= m
  BY <1>1, LeastNumber
<1>3. n \in 1..Cardinality(S) /\ AtPlace(S, n) = {} /\ n \in Nat
  BY <1>2
<1>4. \E B : /\ B \subseteq S /\ IsFiniteSet(B) /\ Cardinality(B) = n - 1
             /\ \A y \in B, z \in S \ B : y < z
  <2>1. CASE n = 1
    <3>1. IsFiniteSet({}) /\ Cardinality({}) = 0
      BY FS_EmptySet
    <3>. QED
      BY <2>1, <3>1
  <2>2. CASE n # 1
    <3>1. n - 1 \in Nat /\ n - 1 \in 1..Cardinality(S) /\ ~(n <= n - 1)
      BY <1>0, <1>3, <2>2
    <3>2. n - 1 \notin Free
      <4>. HIDE DEF Free
      <4>. QED
        BY <1>2, <3>1
    <3>3. AtPlace(S, n - 1) # {}
      BY <3>1, <3>2
    <3>4. PICK x \in S : Cardinality(Below(S, x)) = n - 1 - 1
      BY <3>3 DEF AtPlace
    <3> DEFINE B == Below(S, x) \cup {x}
    <3>5. IsFiniteSet(Below(S, x)) /\ x \notin Below(S, x)
      <4>1. x \in Nat
        OBVIOUS
      <4>2. ~(x < x)
        BY <4>1
      <4>3. x \notin Below(S, x)
        BY <4>2 DEF Below
      <4>. QED
        BY <4>1, <4>3, BelowFinite
    <3>6. IsFiniteSet(B) /\ Cardinality(B) = Cardinality(Below(S, x)) + 1
      BY <3>5, FS_AddElement
    <3>7. B \subseteq S /\ \A y \in B, z \in S \ B : y < z
      BY DEF Below
    <3>8. Cardinality(B) = n - 1
      BY <3>1, <3>4, <3>6
    <3>. QED
      BY <3>6, <3>7, <3>8
  <2>. QED
    BY <2>1, <2>2
<1>5. PICK B : /\ B \subseteq S /\ IsFiniteSet(B) /\ Cardinality(B) = n - 1
               /\ \A y \in B, z \in S \ B : y < z
  BY <1>4
<1>6. S \ B # {}
  <2>. SUFFICES ASSUME S \ B = {} PROVE FALSE
    OBVIOUS
  <2>1. S = B
    BY <1>5
  <2>. QED
    BY <1>0, <1>3, <1>5, <2>1
<1>7. PICK x \in S \ B : \A y \in S \ B : x <= y
  <2>1. S \ B \subseteq Nat
    OBVIOUS
  <2>. QED
    BY <1>6, <2>1, LeastNumber
<1>8. Below(S, x) = B
  <2>0. x \in Nat /\ S \subseteq Nat
    OBVIOUS
  <2>1. ASSUME NEW y \in S, y < x PROVE y \in B
    <3>. SUFFICES ASSUME y \notin B PROVE FALSE
      OBVIOUS
    <3>1. x <= y /\ y \in Nat
      BY <1>7, <2>0
    <3>. QED
      BY <2>0, <2>1, <3>1
  <2>2. \A y \in B : y \in S /\ y < x
    BY <1>5, <1>7
  <2>. QED
    BY <2>1, <2>2 DEF Below
<1>9. x \in AtPlace(S, n)
  BY <1>5, <1>7, <1>8 DEF AtPlace
<1>. QED
  BY <1>3, <1>9

\* The members of a finite set come in order.
LEMMA OrderedMembers ==
  ASSUME NEW S, S \subseteq Nat, IsFiniteSet(S)
  PROVE  /\ Cardinality(S) \in Nat
         /\ DOMAIN Ordered(S) = 1..Cardinality(S)
         /\ \A k \in 1..Cardinality(S) : Ordered(S)[k] \in S
<1>1. ASSUME NEW k \in 1..Cardinality(S) PROVE Ordered(S)[k] \in AtPlace(S, k)
  <2>1. AtPlace(S, k) # {}
    BY PlacesTaken
  <2>. QED
    BY <2>1 DEF Ordered
<1>2. \A k \in 1..Cardinality(S) : Ordered(S)[k] \in S
  BY <1>1 DEF AtPlace
<1>. QED
  BY <1>2, FS_CardinalityType DEF Ordered

\* A line ends: at the first newline, found as the least number, or with the bytes.
LEMMA LineEnds ==
  ASSUME NEW C, NEW bytes \in Seq(C), NEW nl, NEW i \in 1..(Len(bytes) + 1)
  PROVE  /\ LineEnd(bytes, nl, i) \in (i - 1)..Len(bytes)
         /\ IsLineEnd(bytes, nl, i, LineEnd(bytes, nl, i))
<1>0. Len(bytes) \in Nat /\ i \in Nat /\ i - 1 \in Nat
  OBVIOUS
<1> DEFINE Ends == {j \in Nat : j \in (i - 1)..Len(bytes) /\ (j = Len(bytes) \/ bytes[j + 1] = nl)}
<1>1. Len(bytes) \in Ends
  BY <1>0
<1>2. PICK j \in Ends : \A m \in Ends : j <= m
  BY <1>1, LeastNumber
<1>3. j \in (i - 1)..Len(bytes) /\ j \in Nat /\ (j = Len(bytes) \/ bytes[j + 1] = nl)
  BY <1>2
<1>4. ASSUME NEW m \in i..j PROVE bytes[m] # nl
  <2>. SUFFICES ASSUME bytes[m] = nl PROVE FALSE
    OBVIOUS
  <2>1. m \in Nat /\ m - 1 \in Nat /\ (m - 1) + 1 = m /\ m - 1 \in (i - 1)..Len(bytes)
    BY <1>0, <1>3
  <2>2. m - 1 \in Ends
    BY <2>1
  <2>3. j <= m - 1
    <3>. HIDE DEF Ends
    <3>. QED
      BY <1>2, <2>2
  <2>. QED
    BY <1>0, <1>3, <2>1, <2>3
<1>5. IsLineEnd(bytes, nl, i, j)
  BY <1>3, <1>4 DEF IsLineEnd
<1>. QED
  BY <1>3, <1>5 DEF LineEnd

\* A line holds no newline, and is not empty unless it starts with one.
LEMMA LineTyped ==
  ASSUME NEW C, NEW bytes \in Seq(C), NEW nl, NEW i \in 1..Len(bytes)
  PROVE  /\ LineAt(bytes, nl, i) \in Seq(C \ {nl})
         /\ bytes[i] # nl => LineAt(bytes, nl, i) # <<>>
<1> DEFINE e == LineEnd(bytes, nl, i)
           s == LineAt(bytes, nl, i)
<1>0. Len(bytes) \in Nat /\ i \in Nat /\ i \in 1..(Len(bytes) + 1)
  OBVIOUS
<1>1. e \in (i - 1)..Len(bytes) /\ IsLineEnd(bytes, nl, i, e)
  BY <1>0, LineEnds
<1>2. s = SubSeq(bytes, i, e)
  BY DEF LineAt
<1>. HIDE DEF e, s
<1>3. /\ s \in Seq(C) /\ Len(s) = IF i <= e THEN (e - i) + 1 ELSE 0
      /\ \A k \in 1..((e - i) + 1) : s[k] = bytes[(i + k) - 1]
  <2>1. \A m \in i..e : bytes[m] \in C
    BY <1>0, <1>1
  <2>2. e \in Int /\ i \in Int
    BY <1>0, <1>1
  <2>. QED
    BY <1>2, <2>1, <2>2, <1>0, <1>1, SubSeqProperties
<1>4. ASSUME NEW k \in 1..Len(s) PROVE s[k] \in C \ {nl}
  <2>1. i <= e /\ k \in 1..((e - i) + 1) /\ (i + k) - 1 \in i..e /\ (i + k) - 1 \in 1..Len(bytes)
    BY <1>0, <1>1, <1>3
  <2>2. s[k] = bytes[(i + k) - 1] /\ bytes[(i + k) - 1] # nl /\ bytes[(i + k) - 1] \in C
    BY <1>1, <1>3, <2>1 DEF IsLineEnd
  <2>. QED
    BY <2>2
<1>5. s \in Seq(C \ {nl})
  BY <1>3, <1>4, SeqDef, LenProperties
<1>6. ASSUME bytes[i] # nl PROVE s # <<>>
  <2>1. e # i - 1
    <3>. SUFFICES ASSUME e = i - 1 PROVE FALSE
      OBVIOUS
    <3>1. e # Len(bytes) /\ e + 1 = i
      BY <1>0
    <3>. QED
      BY <1>1, <1>6, <3>1 DEF IsLineEnd
  <2>2. Len(s) # 0
    BY <1>0, <1>1, <1>3, <2>1
  <2>. QED
    BY <2>2
<1>. QED
  BY <1>5, <1>6 DEF s

(***************************************************************************)
(* The array of lines.                                                     *)
(***************************************************************************)
LineType == [text : Seq(Chars), h_scroll : 0..EDITOR_LINE_LENGTH]
Fits(t)  == t \in Seq(Chars) /\ Len(t) <= EDITOR_LINE_LENGTH

\* At least one line, and no more lines or longer ones than there is memory for.
GoodLines(ls) ==
  /\ ls \in Seq(LineType) /\ Len(ls) \in 1..EDITOR_MAX_LINES
  /\ \A k \in 1..Len(ls) : Len(ls[k].text) <= EDITOR_LINE_LENGTH

\* The cursor is at a character or just after the line.
GoodCursor(ls, x, y) == y \in 0..(Len(ls) - 1) /\ x \in 0..Len(ls[y + 1].text)

SameText(ls, ms) == Len(ls) = Len(ms) /\ \A k \in 1..Len(ls) : ls[k].text = ms[k].text

LEMMA SizesTyped ==
  /\ EDITOR_LINE_LENGTH \in Nat /\ EDITOR_LINE_LENGTH >= 1
  /\ EDITOR_MAX_LINES \in Nat /\ EDITOR_MAX_LINES >= 1
  /\ VGA_WIDTH \in Nat /\ VGA_WIDTH >= 1
  /\ visible_lines \in Nat /\ visible_lines >= 1
  /\ NL \notin Chars /\ NoFile \notin Seq(Bytes)
  BY EditorAssumption DEF visible_lines, Bytes

LEMMA LineTypeOf ==
  ASSUME NEW l \in LineType
  PROVE  l.text \in Seq(Chars) /\ l.h_scroll \in 0..EDITOR_LINE_LENGTH /\ Len(l.text) \in Nat
  BY DEF LineType

LEMMA NewLineTyped ==
  ASSUME NEW t \in Seq(Chars)
  PROVE  Line(t) \in LineType /\ Line(t).text = t /\ Line(t).h_scroll = 0
  BY SizesTyped DEF Line, LineType

\* Changing the text, or the scrolling, of one line.
LEMMA TextChanged ==
  ASSUME NEW ls, GoodLines(ls), NEW k \in 1..Len(ls), NEW t, Fits(t)
  PROVE  LET ms == [ls EXCEPT ![k].text = t]
         IN  /\ GoodLines(ms) /\ Len(ms) = Len(ls)
             /\ ms[k].text = t /\ \A i \in 1..Len(ls) : i # k => ms[i] = ls[i]
<1> DEFINE ms == [ls EXCEPT ![k].text = t]
<1>1. ls \in Seq(LineType) /\ Len(ls) \in Nat /\ t \in Seq(Chars)
  BY DEF GoodLines, Fits
<1>2. ls[k] \in LineType
  BY <1>1
<1>3. [ls[k] EXCEPT !.text = t] \in LineType /\ [ls[k] EXCEPT !.text = t].text = t
  BY <1>1, <1>2 DEF LineType
<1>4. ms \in Seq(LineType) /\ Len(ms) = Len(ls) /\ ms[k] = [ls[k] EXCEPT !.text = t]
      /\ \A i \in 1..Len(ls) : i # k => ms[i] = ls[i]
  <2>1. ms = [ls EXCEPT ![k] = [ls[k] EXCEPT !.text = t]]
    OBVIOUS
  <2>. DEFINE l == [ls[k] EXCEPT !.text = t]
  <2>2. l \in LineType
    BY <1>3
  <2>. HIDE DEF l
  <2>3. LET ns == [ls EXCEPT ![k] = l]
        IN  ns \in Seq(LineType) /\ Len(ns) = Len(ls) /\ ns[k] = l /\ \A i \in 1..Len(ls) : i # k => ns[i] = ls[i]
    BY <1>1, <2>2, ExceptSeq
  <2>. QED
    BY <2>1, <2>3 DEF l
<1>. HIDE DEF ms
<1>5. ms[k].text = t
  BY <1>3, <1>4
<1>6. \A i \in 1..Len(ms) : Len(ms[i].text) <= EDITOR_LINE_LENGTH
  BY <1>4, <1>5 DEF GoodLines, Fits
<1>. QED
  BY <1>4, <1>5, <1>6 DEF GoodLines, ms

LEMMA ScrollChanged ==
  ASSUME NEW ls, GoodLines(ls), NEW k \in 1..Len(ls), NEW h \in 0..EDITOR_LINE_LENGTH
  PROVE  LET ms == [ls EXCEPT ![k].h_scroll = h]
         IN  GoodLines(ms) /\ SameText(ms, ls) /\ ms[k].h_scroll = h
<1> DEFINE ms == [ls EXCEPT ![k].h_scroll = h]
           l  == [ls[k] EXCEPT !.h_scroll = h]
<1>1. ls \in Seq(LineType) /\ Len(ls) \in Nat
  BY DEF GoodLines
<1>2. ls[k] \in LineType
  BY <1>1
<1>3. l \in LineType /\ l.h_scroll = h /\ l.text = ls[k].text
  BY <1>1, <1>2 DEF LineType
<1>4. ms = [ls EXCEPT ![k] = l]
  OBVIOUS
<1>. HIDE DEF l
<1>5. LET ns == [ls EXCEPT ![k] = l]
      IN  ns \in Seq(LineType) /\ Len(ns) = Len(ls) /\ ns[k] = l /\ \A i \in 1..Len(ls) : i # k => ns[i] = ls[i]
  BY <1>1, <1>3, ExceptSeq
<1>6. ms \in Seq(LineType) /\ Len(ms) = Len(ls) /\ ms[k] = l /\ \A i \in 1..Len(ls) : i # k => ms[i] = ls[i]
  BY <1>4, <1>5
<1>. HIDE DEF ms
<1>7. \A i \in 1..Len(ls) : ms[i].text = ls[i].text
  BY <1>3, <1>6
<1>. QED
  BY <1>3, <1>6, <1>7 DEF GoodLines, SameText, ms

(***************************************************************************)
(* Drawing: the text stays, the window follows the cursor.                 *)
(***************************************************************************)
LEMMA Rendered ==
  ASSUME NEW ls, NEW x, NEW y, GoodLines(ls), GoodCursor(ls, x, y),
         scroll_offset \in 0..(EDITOR_MAX_LINES - 1), editor_render(ls, x, y)
  PROVE  /\ GoodLines(lines') /\ SameText(lines', ls) /\ GoodCursor(lines', x, y)
         /\ cursor_x' = x /\ cursor_y' = y
         /\ scroll_offset' \in 0..(EDITOR_MAX_LINES - 1)
         /\ scroll_offset' <= y /\ y < scroll_offset' + visible_lines
         /\ lines'[y + 1].h_scroll <= x /\ x <= lines'[y + 1].h_scroll + VGA_WIDTH
<1> DEFINE l == ls[y + 1]
           h == HorizontalScroll(l, x)
           top == VerticalScroll(scroll_offset, y)
<1>0. /\ Len(ls) \in Nat /\ Len(ls) <= EDITOR_MAX_LINES /\ y \in Nat /\ y + 1 \in 1..Len(ls) /\ l \in LineType
      /\ x \in 0..Len(l.text) /\ Len(l.text) \in Nat /\ Len(l.text) <= EDITOR_LINE_LENGTH
      /\ l.h_scroll \in 0..EDITOR_LINE_LENGTH
  <2>1. ls \in Seq(LineType) /\ Len(ls) \in 1..EDITOR_MAX_LINES /\ y \in 0..(Len(ls) - 1)
    BY DEF GoodLines, GoodCursor
  <2>2. Len(ls) \in Nat /\ Len(ls) <= EDITOR_MAX_LINES /\ y \in Nat /\ y + 1 \in 1..Len(ls)
    BY <2>1, SizesTyped
  <2>3. l \in LineType
    BY <2>1, <2>2
  <2>4. Len(l.text) <= EDITOR_LINE_LENGTH /\ x \in 0..Len(l.text)
    BY <2>2 DEF GoodLines, GoodCursor
  <2>. HIDE DEF l
  <2>. QED
    BY <2>2, <2>3, <2>4, LineTypeOf
<1>1. /\ lines' = [ls EXCEPT ![y + 1].h_scroll = h] /\ cursor_x' = x /\ cursor_y' = y
      /\ scroll_offset' = top
  BY DEF editor_render
<1>. HIDE DEF l
<1>2. h \in 0..EDITOR_LINE_LENGTH /\ h <= x /\ x <= h + VGA_WIDTH
  <2>. DEFINE n == Len(l.text)
              s == l.h_scroll
              w == VGA_WIDTH
  <2>1. n \in Nat /\ s \in Nat /\ w \in Nat /\ w >= 1 /\ x \in Nat /\ x <= n /\ n <= EDITOR_LINE_LENGTH
        /\ s <= EDITOR_LINE_LENGTH /\ EDITOR_LINE_LENGTH \in Nat
    BY <1>0, SizesTyped
  <2>2. h = IF n <= w THEN 0 ELSE IF x < s THEN x ELSE IF x >= s + w THEN (x - w) + 1 ELSE s
    BY DEF HorizontalScroll
  <2>. HIDE DEF n, s, w, h
  <2>3. h \in 0..EDITOR_LINE_LENGTH /\ h <= x /\ x <= h + w
    BY <2>1, <2>2
  <2>. QED
    BY <2>3 DEF w
<1>3. top \in 0..(EDITOR_MAX_LINES - 1) /\ top <= y /\ y < top + visible_lines
  <2>. DEFINE v == visible_lines
              s == scroll_offset
              m == EDITOR_MAX_LINES
  <2>1. v \in Nat /\ v >= 1 /\ s \in 0..(m - 1) /\ m \in Nat /\ y \in Nat /\ y < m
    BY <1>0, SizesTyped
  <2>2. top = IF y < s THEN y ELSE IF y >= s + v THEN (y - v) + 1 ELSE s
    BY DEF VerticalScroll
  <2>. HIDE DEF v, s, m, top
  <2>3. top \in 0..(m - 1) /\ top <= y /\ y < top + v
    BY <2>1, <2>2
  <2>. QED
    BY <2>3 DEF v, m
<1>. HIDE DEF h, top
<1>4. GoodLines(lines') /\ SameText(lines', ls) /\ lines'[y + 1].h_scroll = h
  <2>. DEFINE k  == y + 1
              ms == [ls EXCEPT ![k].h_scroll = h]
  <2>1. GoodLines(ls) /\ k \in 1..Len(ls) /\ h \in 0..EDITOR_LINE_LENGTH /\ lines' = ms
    BY <1>0, <1>1, <1>2
  <2>. HIDE DEF k
  <2>2. GoodLines(ms) /\ SameText(ms, ls) /\ ms[k].h_scroll = h
    BY <2>1, ScrollChanged
  <2>. HIDE DEF ms
  <2>. QED
    BY <2>1, <2>2 DEF k
<1>5. GoodCursor(lines', x, y)
  BY <1>0, <1>4 DEF SameText, GoodCursor
<1>. QED
  BY <1>1, <1>2, <1>3, <1>4, <1>5

(***************************************************************************)
(* Parts of sequences.                                                     *)
(***************************************************************************)
LEMMA PartTyped ==
  ASSUME NEW S, NEW s \in Seq(S), NEW a \in Int, NEW b \in Int, 1 <= a, b <= Len(s)
  PROVE  /\ SubSeq(s, a, b) \in Seq(S)
         /\ Len(SubSeq(s, a, b)) = IF a <= b THEN (b - a) + 1 ELSE 0
         /\ \A k \in 1..((b - a) + 1) : SubSeq(s, a, b)[k] = s[a + (k - 1)]
<1>1. \A k \in a..b : s[k] \in S
  OBVIOUS
<1>. QED
  BY <1>1, SubSeqProperties

\* A sequence parts after any place ...
LEMMA Parted ==
  ASSUME NEW S, NEW s \in Seq(S), NEW k \in 0..Len(s)
  PROVE  /\ SubSeq(s, 1, k) \in Seq(S) /\ Len(SubSeq(s, 1, k)) = k
         /\ SubSeq(s, k + 1, Len(s)) \in Seq(S) /\ Len(SubSeq(s, k + 1, Len(s))) = Len(s) - k
         /\ \A i \in 1..k : SubSeq(s, 1, k)[i] = s[i]
         /\ \A i \in 1..(Len(s) - k) : SubSeq(s, k + 1, Len(s))[i] = s[k + i]
         /\ s = SubSeq(s, 1, k) \o SubSeq(s, k + 1, Len(s))
<1> DEFINE a == SubSeq(s, 1, k)
           b == SubSeq(s, k + 1, Len(s))
<1>0. Len(s) \in Nat /\ k \in Nat /\ k <= Len(s)
  OBVIOUS
<1>1. a \in Seq(S) /\ Len(a) = k /\ \A i \in 1..k : a[i] = s[i]
  <2>1. /\ a \in Seq(S) /\ Len(a) = IF 1 <= k THEN (k - 1) + 1 ELSE 0
        /\ \A i \in 1..((k - 1) + 1) : a[i] = s[1 + (i - 1)]
    BY <1>0, PartTyped
  <2>. HIDE DEF a
  <2>. QED
    BY <1>0, <2>1
<1>2. b \in Seq(S) /\ Len(b) = Len(s) - k /\ \A i \in 1..(Len(s) - k) : b[i] = s[k + i]
  <2>. DEFINE m == k + 1
  <2>0. m \in Int /\ 1 <= m /\ Len(s) \in Int /\ Len(s) <= Len(s)
    BY <1>0
  <2>. HIDE DEF m
  <2>1. /\ SubSeq(s, m, Len(s)) \in Seq(S)
        /\ Len(SubSeq(s, m, Len(s))) = IF m <= Len(s) THEN (Len(s) - m) + 1 ELSE 0
        /\ \A i \in 1..((Len(s) - m) + 1) : SubSeq(s, m, Len(s))[i] = s[m + (i - 1)]
    BY <2>0, PartTyped
  <2>2. /\ b \in Seq(S) /\ Len(b) = IF k + 1 <= Len(s) THEN (Len(s) - (k + 1)) + 1 ELSE 0
        /\ \A i \in 1..((Len(s) - (k + 1)) + 1) : b[i] = s[(k + 1) + (i - 1)]
    BY <2>1 DEF m
  <2>. HIDE DEF b
  <2>3. (Len(s) - (k + 1)) + 1 = Len(s) - k /\ Len(b) = Len(s) - k
    BY <1>0, <2>2
  <2>4. ASSUME NEW i \in 1..(Len(s) - k) PROVE b[i] = s[k + i]
    <3>1. (k + 1) + (i - 1) = k + i
      BY <1>0
    <3>. QED
      BY <2>2, <2>3, <3>1
  <2>. QED
    BY <2>2, <2>3, <2>4
<1>. HIDE DEF a, b
<1>3. s = a \o b
  <2>. DEFINE c == a \o b
  <2>1. /\ c \in Seq(S) /\ Len(c) = Len(s)
        /\ \A i \in 1..Len(s) : c[i] = IF i <= k THEN a[i] ELSE b[i - k]
    BY <1>0, <1>1, <1>2, ConcatProperties
  <2>. HIDE DEF c
  <2>2. ASSUME NEW i \in 1..Len(s) PROVE s[i] = c[i]
    <3>1. CASE i <= k
      BY <1>1, <2>1, <3>1
    <3>2. CASE ~(i <= k)
      <4>1. i - k \in 1..(Len(s) - k) /\ k + (i - k) = i
        BY <1>0, <3>2
      <4>. QED
        BY <1>2, <2>1, <3>2, <4>1
    <3>. QED
      BY <3>1, <3>2
  <2>3. s = c
    BY <2>1, <2>2, SeqEqual
  <2>. QED
    BY <2>3 DEF c
<1>. QED
  BY <1>1, <1>2, <1>3 DEF a, b

\* ... and a concatenation into what it was made of.
LEMMA ConcatParted ==
  ASSUME NEW S, NEW a \in Seq(S), NEW b \in Seq(S)
  PROVE  /\ SubSeq(a \o b, 1, Len(a)) = a
         /\ SubSeq(a \o b, Len(a) + 1, Len(a \o b)) = b
<1> DEFINE c == a \o b
           p == SubSeq(c, 1, Len(a))
           q == SubSeq(c, Len(a) + 1, Len(c))
<1>1. /\ c \in Seq(S) /\ Len(c) = Len(a) + Len(b) /\ Len(a) \in Nat /\ Len(b) \in Nat
      /\ \A i \in 1..Len(a) : c[i] = a[i]
      /\ \A i \in 1..Len(b) : c[Len(a) + i] = b[i]
  <2>1. c \in Seq(S) /\ Len(c) = Len(a) + Len(b) /\ Len(a) \in Nat /\ Len(b) \in Nat
        /\ \A i \in 1..(Len(a) + Len(b)) : c[i] = IF i <= Len(a) THEN a[i] ELSE b[i - Len(a)]
    BY ConcatProperties
  <2>. HIDE DEF c
  <2>2. ASSUME NEW i \in 1..Len(b) PROVE c[Len(a) + i] = b[i]
    <3>1. Len(a) + i \in 1..(Len(a) + Len(b)) /\ ~(Len(a) + i <= Len(a)) /\ (Len(a) + i) - Len(a) = i
      BY <2>1
    <3>. QED
      BY <2>1, <3>1
  <2>3. \A i \in 1..Len(a) : c[i] = a[i]
    BY <2>1
  <2>. QED
    BY <2>1, <2>2, <2>3
<1>. HIDE DEF c
<1>2. Len(a) \in 0..Len(c) /\ Len(c) - Len(a) = Len(b)
  BY <1>1
<1>3. /\ p \in Seq(S) /\ Len(p) = Len(a) /\ \A i \in 1..Len(a) : p[i] = c[i]
      /\ q \in Seq(S) /\ Len(q) = Len(c) - Len(a)
      /\ \A i \in 1..(Len(c) - Len(a)) : q[i] = c[Len(a) + i]
  BY <1>1, <1>2, Parted
<1>. HIDE DEF p, q
<1>4. p = a
  BY <1>1, <1>3, SeqEqual
<1>5. q = b
  BY <1>1, <1>2, <1>3, SeqEqual
<1>. QED
  BY <1>4, <1>5 DEF p, q, c

LEMMA InsertAtIs ==
  ASSUME NEW S, NEW s \in Seq(S), NEW i \in 1..(Len(s) + 1), NEW e \in S
  PROVE  LET t == InsertAt(s, i, e)
         IN  /\ t \in Seq(S) /\ Len(t) = Len(s) + 1
             /\ \A k \in 1..(Len(s) + 1) : t[k] = IF k < i THEN s[k] ELSE IF k = i THEN e ELSE s[k - 1]
<1> DEFINE k == i - 1
           a == SubSeq(s, 1, k)
           b == SubSeq(s, k + 1, Len(s))
           c == a \o <<e>>
           t == c \o b
<1>0. Len(s) \in Nat /\ i \in Nat /\ k \in 0..Len(s) /\ k + 1 = i /\ k \in Nat
  OBVIOUS
<1>1. InsertAt(s, i, e) = t
  BY <1>0 DEF InsertAt
<1>. HIDE DEF k
<1>2. /\ a \in Seq(S) /\ Len(a) = k /\ \A j \in 1..k : a[j] = s[j]
      /\ b \in Seq(S) /\ Len(b) = Len(s) - k
      /\ \A j \in 1..(Len(s) - k) : b[j] = s[k + j]
  BY <1>0, Parted
<1>. HIDE DEF a, b
<1>3. /\ c \in Seq(S) /\ Len(c) = i
      /\ \A j \in 1..i : c[j] = IF j <= k THEN s[j] ELSE e
  <2>1. <<e>> \in Seq(S) /\ Len(<<e>>) = 1 /\ <<e>>[1] = e
    OBVIOUS
  <2>2. /\ c \in Seq(S) /\ Len(c) = k + 1
        /\ \A j \in 1..(k + 1) : c[j] = IF j <= k THEN a[j] ELSE <<e>>[j - k]
    BY <1>2, <2>1, ConcatProperties
  <2>. HIDE DEF c
  <2>3. ASSUME NEW j \in 1..i PROVE c[j] = IF j <= k THEN s[j] ELSE e
    <3>1. CASE j <= k
      BY <1>0, <1>2, <2>2, <3>1
    <3>2. CASE ~(j <= k)
      <4>1. j - k = 1
        BY <1>0, <3>2
      <4>. QED
        BY <1>0, <2>1, <2>2, <3>2, <4>1
    <3>. QED
      BY <3>1, <3>2
  <2>. QED
    BY <1>0, <2>2, <2>3
<1>. HIDE DEF c
<1>4. /\ t \in Seq(S) /\ Len(t) = Len(c) + Len(b)
      /\ \A j \in 1..(Len(c) + Len(b)) : t[j] = IF j <= Len(c) THEN c[j] ELSE b[j - Len(c)]
  BY <1>2, <1>3, ConcatProperties
<1>. HIDE DEF t
<1>5. Len(t) = Len(s) + 1 /\ Len(c) + Len(b) = Len(s) + 1
  <2>1. k = i - 1 /\ Len(c) = i /\ Len(b) = Len(s) - k /\ Len(t) = Len(c) + Len(b)
    BY <1>2, <1>3, <1>4 DEF k
  <2>. QED
    BY <1>0, <2>1
<1>6. ASSUME NEW j \in 1..(Len(s) + 1)
      PROVE  t[j] = IF j < i THEN s[j] ELSE IF j = i THEN e ELSE s[j - 1]
  <2>1. CASE j <= i
    <3>1. t[j] = c[j] /\ c[j] = IF j <= k THEN s[j] ELSE e
      BY <1>3, <1>4, <1>5, <2>1
    <3>2. j <= k <=> j < i
      BY <1>0
    <3>. QED
      BY <1>0, <2>1, <3>1, <3>2
  <2>2. CASE ~(j <= i)
    <3>1. j - i \in 1..(Len(s) - k) /\ k + (j - i) = j - 1
      BY <1>0, <2>2
    <3>2. t[j] = b[j - i] /\ b[j - i] = s[j - 1]
      BY <1>2, <1>3, <1>4, <1>5, <2>2, <3>1
    <3>. QED
      BY <1>0, <2>2, <3>2
  <2>. QED
    BY <2>1, <2>2
<1>. QED
  BY <1>1, <1>4, <1>5, <1>6

LEMMA RemoveAtIs ==
  ASSUME NEW S, NEW s \in Seq(S), NEW i \in 1..Len(s)
  PROVE  LET t == RemoveAt(s, i)
         IN  /\ t \in Seq(S) /\ Len(t) = Len(s) - 1
             /\ \A k \in 1..(Len(s) - 1) : t[k] = IF k < i THEN s[k] ELSE s[k + 1]
<1> DEFINE k == i - 1
           a == SubSeq(s, 1, k)
           b == SubSeq(s, i + 1, Len(s))
           t == a \o b
<1>0. Len(s) \in Nat /\ i \in 0..Len(s) /\ i \in Nat /\ k \in 0..Len(s) /\ k + 1 = i /\ k \in Nat
  OBVIOUS
<1>1. RemoveAt(s, i) = t
  BY <1>0 DEF RemoveAt
<1>. HIDE DEF k
<1>2. /\ a \in Seq(S) /\ Len(a) = k /\ \A j \in 1..k : a[j] = s[j]
  BY <1>0, Parted
<1>3. /\ b \in Seq(S) /\ Len(b) = Len(s) - i
      /\ \A j \in 1..(Len(s) - i) : b[j] = s[i + j]
  BY <1>0, Parted
<1>. HIDE DEF a, b
<1>4. /\ t \in Seq(S) /\ Len(t) = Len(a) + Len(b)
      /\ \A j \in 1..(Len(a) + Len(b)) : t[j] = IF j <= Len(a) THEN a[j] ELSE b[j - Len(a)]
  BY <1>2, <1>3, ConcatProperties
<1>. HIDE DEF t
<1>5. Len(t) = Len(s) - 1 /\ Len(a) + Len(b) = Len(s) - 1
  <2>1. k = i - 1 /\ Len(a) = k /\ Len(b) = Len(s) - i /\ Len(t) = Len(a) + Len(b)
    BY <1>2, <1>3, <1>4 DEF k
  <2>. QED
    BY <1>0, <2>1
<1>6. ASSUME NEW j \in 1..(Len(s) - 1) PROVE t[j] = IF j < i THEN s[j] ELSE s[j + 1]
  <2>1. CASE j <= k
    <3>1. t[j] = s[j] /\ j < i
      BY <1>0, <1>2, <1>4, <1>5, <2>1
    <3>. QED
      BY <3>1
  <2>2. CASE ~(j <= k)
    <3>1. j - k \in 1..(Len(s) - i) /\ i + (j - k) = j + 1 /\ ~(j < i)
      BY <1>0, <2>2
    <3>2. t[j] = b[j - k] /\ b[j - k] = s[j + 1]
      BY <1>2, <1>3, <1>4, <1>5, <2>2, <3>1
    <3>. QED
      BY <3>1, <3>2
  <2>. QED
    BY <2>1, <2>2
<1>. QED
  BY <1>1, <1>4, <1>5, <1>6

(***************************************************************************)
(* The text before and after the cursor.                                   *)
(***************************************************************************)
Above(ls, y)  == FlattenSeq([k \in 1..y |-> Append(ls[k].text, NL)])
Behind(ls, y) == FlattenSeq([k \in 1..(Len(ls) - y - 1) |-> <<NL>> \o ls[y + 1 + k].text])

Before(ls, x, y) == Above(ls, y) \o SubSeq(ls[y + 1].text, 1, x)
After(ls, x, y)  == SubSeq(ls[y + 1].text, x + 1, Len(ls[y + 1].text)) \o Behind(ls, y)

LEMMA TextOfLine ==
  ASSUME NEW ls, GoodLines(ls), NEW k \in 1..Len(ls)
  PROVE  /\ ls[k].text \in Seq(Bytes) /\ ls[k].text \in Seq(Chars) /\ Len(ls[k].text) \in Nat
         /\ Append(ls[k].text, NL) \in Seq(Bytes) /\ <<NL>> \o ls[k].text \in Seq(Bytes)
         /\ <<NL>> \in Seq(Bytes)
<1>1. ls[k] \in LineType
  BY DEF GoodLines
<1>2. ls[k].text \in Seq(Chars) /\ Len(ls[k].text) \in Nat
  BY <1>1, LineTypeOf
<1>. DEFINE t == ls[k].text
<1>. HIDE DEF t
<1>3. t \in Seq(Chars)
  BY <1>2 DEF t
<1>4. t \in Seq(Bytes) /\ NL \in Bytes /\ <<NL>> \in Seq(Bytes)
  BY <1>3 DEF Bytes
<1>5. Append(t, NL) \in Seq(Bytes) /\ <<NL>> \o t \in Seq(Bytes)
  BY <1>4, AppendProperties, ConcatProperties
<1>. QED
  BY <1>2, <1>4, <1>5 DEF t

LEMMA AboveLines ==
  ASSUME NEW ls, GoodLines(ls), NEW y \in 0..Len(ls)
  PROVE  LET a == [k \in 1..y |-> Append(ls[k].text, NL)]
         IN  a \in Seq(Seq(Bytes)) /\ Len(a) = y
<1> DEFINE a == [k \in 1..y |-> Append(ls[k].text, NL)]
<1>0. Len(ls) \in Nat /\ y \in Nat
  BY DEF GoodLines
<1>1. \A k \in 1..y : k \in 1..Len(ls)
  BY <1>0
<1>2. a \in [1..y -> Seq(Bytes)]
  BY <1>1, TextOfLine
<1>. HIDE DEF a
<1>3. a \in Seq(Seq(Bytes))
  BY <1>0, <1>2, SeqDef
<1>4. Len(a) = y
  BY <1>0, <1>2, <1>3, LenProperties
<1>. QED
  BY <1>3, <1>4 DEF a

LEMMA BehindLines ==
  ASSUME NEW ls, GoodLines(ls), NEW y \in 0..(Len(ls) - 1)
  PROVE  LET b == [k \in 1..(Len(ls) - y - 1) |-> <<NL>> \o ls[y + 1 + k].text]
         IN  b \in Seq(Seq(Bytes)) /\ Len(b) = Len(ls) - y - 1
<1> DEFINE n == Len(ls) - y - 1
           b == [k \in 1..n |-> <<NL>> \o ls[y + 1 + k].text]
<1>0. Len(ls) \in Nat /\ n \in Nat /\ y \in Nat
  BY DEF GoodLines
<1>1. \A k \in 1..n : y + 1 + k \in 1..Len(ls)
  BY <1>0
<1>. HIDE DEF n
<1>2. b \in [1..n -> Seq(Bytes)]
  BY <1>1, TextOfLine
<1>. HIDE DEF b
<1>3. b \in Seq(Seq(Bytes))
  BY <1>0, <1>2, SeqDef
<1>4. Len(b) = n
  BY <1>0, <1>2, <1>3, LenProperties
<1>. QED
  BY <1>3, <1>4 DEF b, n

LEMMA AboveTyped ==
  ASSUME NEW ls, GoodLines(ls), NEW y \in 0..Len(ls)
  PROVE  Above(ls, y) \in Seq(Bytes)
  BY AboveLines, FlattenTyped DEF Above

LEMMA BehindTyped ==
  ASSUME NEW ls, GoodLines(ls), NEW y \in 0..(Len(ls) - 1)
  PROVE  Behind(ls, y) \in Seq(Bytes)
  BY BehindLines, FlattenTyped DEF Behind

\* They depend on the texts only.
LEMMA AboveSame ==
  ASSUME NEW ls, NEW ms, NEW y, \A k \in 1..y : ls[k].text = ms[k].text
  PROVE  Above(ls, y) = Above(ms, y)
<1>1. [k \in 1..y |-> Append(ls[k].text, NL)] = [k \in 1..y |-> Append(ms[k].text, NL)]
  OBVIOUS
<1>. QED
  BY <1>1 DEF Above

LEMMA BehindSame ==
  ASSUME NEW ls, NEW ms, NEW y, NEW z, NEW n, n = Len(ls) - y - 1, n = Len(ms) - z - 1,
         \A k \in 1..n : ls[y + 1 + k].text = ms[z + 1 + k].text
  PROVE  Behind(ls, y) = Behind(ms, z)
<1>1. [k \in 1..n |-> <<NL>> \o ls[y + 1 + k].text] = [k \in 1..n |-> <<NL>> \o ms[z + 1 + k].text]
  OBVIOUS
<1>. QED
  BY <1>1 DEF Behind

LEMMA AboveFirst == \A ls : Above(ls, 0) = <<>>
<1>. SUFFICES ASSUME NEW ls PROVE Above(ls, 0) = <<>>
  OBVIOUS
<1>1. [k \in 1..0 |-> Append(ls[k].text, NL)] = <<>>
  OBVIOUS
<1>. QED
  BY <1>1, FlattenEmpty DEF Above

\* From one line to the next.
LEMMA AboveNext ==
  ASSUME NEW ls, GoodLines(ls), NEW y \in 0..(Len(ls) - 1)
  PROVE  Above(ls, y + 1) = Above(ls, y) \o Append(ls[y + 1].text, NL)
<1> DEFINE a == [k \in 1..y |-> Append(ls[k].text, NL)]
           b == [k \in 1..(y + 1) |-> Append(ls[k].text, NL)]
           t == Append(ls[y + 1].text, NL)
<1>0. Len(ls) \in Nat /\ y \in Nat /\ y \in 0..Len(ls) /\ y + 1 \in 0..Len(ls) /\ y + 1 \in 1..Len(ls)
  BY DEF GoodLines
<1>1. a \in Seq(Seq(Bytes)) /\ Len(a) = y /\ b \in Seq(Seq(Bytes)) /\ Len(b) = y + 1
  BY <1>0, AboveLines
<1>2. t \in Seq(Bytes)
  BY <1>0, TextOfLine
<1>3. b[y + 1] = t /\ \A k \in 1..y : b[k] = a[k]
  BY <1>0, SMTT(30)
<1>. HIDE DEF a, b, t
<1>. DEFINE c == Append(a, t)
<1>4. c \in Seq(Seq(Bytes)) /\ Len(c) = y + 1 /\ c[y + 1] = t /\ \A k \in 1..y : c[k] = a[k]
  BY <1>1, <1>2, AppendProperties
<1>. HIDE DEF c
<1>5. \A k \in 1..(y + 1) : k = y + 1 \/ k \in 1..y
  BY <1>0
<1>6. b = c
  BY <1>1, <1>3, <1>4, <1>5, SeqEqual
<1>7. FlattenSeq(c) = FlattenSeq(a) \o t
  BY <1>1, <1>2, FlattenAppend DEF c
<1>. QED
  BY <1>6, <1>7 DEF Above, a, b, t

LEMMA BehindNext ==
  ASSUME NEW ls, GoodLines(ls), NEW y \in 0..(Len(ls) - 2)
  PROVE  Behind(ls, y) = (<<NL>> \o ls[y + 2].text) \o Behind(ls, y + 1)
<1> DEFINE n == Len(ls) - y - 1
           m == Len(ls) - (y + 1) - 1
           a == [k \in 1..n |-> <<NL>> \o ls[y + 1 + k].text]
           b == [k \in 1..m |-> <<NL>> \o ls[(y + 1) + 1 + k].text]
           t == <<NL>> \o ls[y + 2].text
<1>0. /\ Len(ls) \in Nat /\ y \in Nat /\ y \in 0..(Len(ls) - 1) /\ y + 1 \in 0..(Len(ls) - 1)
      /\ y + 2 \in 1..Len(ls) /\ m \in Nat /\ n = m + 1 /\ y + 1 + 1 = y + 2
  BY DEF GoodLines
<1>1. a \in Seq(Seq(Bytes)) /\ Len(a) = n /\ b \in Seq(Seq(Bytes)) /\ Len(b) = m
  BY <1>0, BehindLines
<1>2. t \in Seq(Bytes)
  BY <1>0, TextOfLine
<1>3. a[1] = t
  BY <1>0
<1>4. ASSUME NEW k \in 1..m PROVE a[1 + k] = b[k]
  <2>1. 1 + k \in 1..n /\ y + 1 + (1 + k) = (y + 1) + 1 + k
    BY <1>0
  <2>. QED
    BY <2>1
<1>. HIDE DEF a, b, t, n, m
<1>. DEFINE c == <<t>> \o b
<1>5. <<t>> \in Seq(Seq(Bytes)) /\ Len(<<t>>) = 1 /\ <<t>>[1] = t
  BY <1>2
<1>6. /\ c \in Seq(Seq(Bytes)) /\ Len(c) = 1 + m
      /\ \A k \in 1..(1 + m) : c[k] = IF k <= 1 THEN <<t>>[k] ELSE b[k - 1]
  BY <1>1, <1>5, ConcatProperties
<1>. HIDE DEF c
<1>7. ASSUME NEW k \in 1..n PROVE a[k] = c[k]
  <2>1. CASE k = 1
    BY <1>0, <1>3, <1>5, <1>6, <2>1
  <2>2. CASE k # 1
    <3>1. k - 1 \in 1..m /\ 1 + (k - 1) = k /\ k \in 1..(1 + m) /\ ~(k <= 1)
      BY <1>0, <2>2
    <3>. QED
      BY <1>4, <1>6, <3>1
  <2>. QED
    BY <2>1, <2>2
<1>8. a = c
  <2>1. Len(a) = Len(c)
    BY <1>0, <1>1, <1>6
  <2>. QED
    BY <1>1, <1>6, <1>7, <2>1, SeqEqual
<1>9. FlattenSeq(c) = FlattenSeq(<<t>>) \o FlattenSeq(b)
  BY <1>1, <1>5, FlattenConcat DEF c
<1>10. FlattenSeq(<<t>>) = t
  BY <1>2, FlattenOne
<1>11. Behind(ls, y) = FlattenSeq(a) /\ Behind(ls, y + 1) = FlattenSeq(b)
  BY DEF Behind, a, b, n, m
<1>. QED
  BY <1>8, <1>9, <1>10, <1>11 DEF t

LEMMA Assoc ==
  ASSUME NEW a \in Seq(Bytes), NEW b \in Seq(Bytes), NEW c \in Seq(Bytes)
  PROVE  (a \o b) \o c = a \o (b \o c)
  BY ConcatAssociative

LEMMA CursorTyped ==
  ASSUME NEW ls, NEW x, NEW y, GoodLines(ls), GoodCursor(ls, x, y)
  PROVE  /\ Len(ls) \in Nat /\ Len(ls) >= 1 /\ Len(ls) <= EDITOR_MAX_LINES
         /\ y \in Nat /\ y \in 0..Len(ls) /\ y + 1 \in 1..Len(ls)
         /\ ls[y + 1].text \in Seq(Chars) /\ ls[y + 1].text \in Seq(Bytes)
         /\ Len(ls[y + 1].text) \in Nat /\ Len(ls[y + 1].text) <= EDITOR_LINE_LENGTH
         /\ x \in Nat /\ x <= Len(ls[y + 1].text) /\ x \in 0..Len(ls[y + 1].text)
<1>1. Len(ls) \in Nat /\ Len(ls) >= 1 /\ Len(ls) <= EDITOR_MAX_LINES
  BY SizesTyped DEF GoodLines
<1>2. y \in Nat /\ y \in 0..Len(ls) /\ y + 1 \in 1..Len(ls)
  BY <1>1 DEF GoodCursor
<1>3. ls[y + 1].text \in Seq(Chars) /\ ls[y + 1].text \in Seq(Bytes) /\ Len(ls[y + 1].text) \in Nat
  BY <1>2, TextOfLine
<1>4. Len(ls[y + 1].text) <= EDITOR_LINE_LENGTH
  BY <1>2 DEF GoodLines
<1>5. x \in 0..Len(ls[y + 1].text)
  BY DEF GoodCursor
<1>. QED
  BY <1>1, <1>2, <1>3, <1>4, <1>5

LEMMA AroundTyped ==
  ASSUME NEW ls, NEW x, NEW y, GoodLines(ls), GoodCursor(ls, x, y)
  PROVE  /\ Above(ls, y) \in Seq(Bytes) /\ Behind(ls, y) \in Seq(Bytes)
         /\ SubSeq(ls[y + 1].text, 1, x) \in Seq(Bytes)
         /\ SubSeq(ls[y + 1].text, x + 1, Len(ls[y + 1].text)) \in Seq(Bytes)
         /\ Before(ls, x, y) \in Seq(Bytes) /\ After(ls, x, y) \in Seq(Bytes)
<1>1. y \in 0..Len(ls) /\ y \in 0..(Len(ls) - 1)
  BY CursorTyped DEF GoodCursor
<1>2. Above(ls, y) \in Seq(Bytes) /\ Behind(ls, y) \in Seq(Bytes)
  BY <1>1, AboveTyped, BehindTyped
<1>. DEFINE t == ls[y + 1].text
<1>3. t \in Seq(Bytes) /\ x \in 0..Len(t)
  BY CursorTyped
<1>. HIDE DEF t
<1>4. SubSeq(t, 1, x) \in Seq(Bytes) /\ SubSeq(t, x + 1, Len(t)) \in Seq(Bytes)
  BY <1>3, Parted
<1>. QED
  BY <1>2, <1>4, ConcatProperties DEF Before, After, t

\* Where the cursor is does not matter to what is before and after it together.
WholeText(ls, y) == Above(ls, y) \o (ls[y + 1].text \o Behind(ls, y))

LEMMA AroundIsWhole ==
  ASSUME NEW ls, NEW x, NEW y, GoodLines(ls), GoodCursor(ls, x, y)
  PROVE  Before(ls, x, y) \o After(ls, x, y) = WholeText(ls, y)
<1> DEFINE t == ls[y + 1].text
           p == SubSeq(t, 1, x)
           q == SubSeq(t, x + 1, Len(t))
           a == Above(ls, y)
           b == Behind(ls, y)
<1>1. t \in Seq(Bytes) /\ x \in 0..Len(t)
  BY CursorTyped
<1>2. a \in Seq(Bytes) /\ b \in Seq(Bytes) /\ p \in Seq(Bytes) /\ q \in Seq(Bytes)
  BY AroundTyped
<1>. HIDE DEF t
<1>3. t = p \o q
  BY <1>1, Parted
<1>4. Before(ls, x, y) = a \o p /\ After(ls, x, y) = q \o b /\ WholeText(ls, y) = a \o (t \o b)
  BY DEF Before, After, WholeText, t
<1>. HIDE DEF a, b, p, q
<1>5. q \o b \in Seq(Bytes)
  BY <1>2, ConcatProperties
<1>6. (a \o p) \o (q \o b) = a \o (p \o (q \o b))
  BY <1>2, <1>5, ConcatAssociative, SMTT(60)
<1>7. (p \o q) \o b = p \o (q \o b)
  BY <1>2, ConcatAssociative
<1>. QED
  BY <1>3, <1>4, <1>6, <1>7

LEMMA WholeTextSame ==
  ASSUME NEW ls, GoodLines(ls), NEW y \in 0..(Len(ls) - 2)
  PROVE  WholeText(ls, y + 1) = WholeText(ls, y)
<1> DEFINE t == ls[y + 1].text
           u == ls[y + 2].text
           a == Above(ls, y)
           b == Behind(ls, y)
           d == Behind(ls, y + 1)
           nl == <<NL>>
<1>0. /\ Len(ls) \in Nat /\ y \in 0..(Len(ls) - 1) /\ y + 1 \in 0..(Len(ls) - 1) /\ y \in 0..Len(ls)
      /\ y + 1 \in 1..Len(ls) /\ y + 2 \in 1..Len(ls) /\ (y + 1) + 1 = y + 2
  BY DEF GoodLines
<1>1. t \in Seq(Bytes) /\ u \in Seq(Bytes) /\ nl \in Seq(Bytes) /\ NL \in Bytes
  BY <1>0, TextOfLine DEF Bytes
<1>2. a \in Seq(Bytes) /\ b \in Seq(Bytes) /\ d \in Seq(Bytes)
  BY <1>0, AboveTyped, BehindTyped
<1>3. Above(ls, y + 1) = a \o (t \o nl)
  <2>1. Append(t, NL) = t \o nl
    BY <1>1, AppendIsConcat
  <2>. QED
    BY <1>0, <2>1, AboveNext
<1>4. b = (nl \o u) \o d
  BY BehindNext
<1>5. WholeText(ls, y + 1) = (a \o (t \o nl)) \o (u \o d) /\ WholeText(ls, y) = a \o (t \o ((nl \o u) \o d))
  BY <1>0, <1>3, <1>4 DEF WholeText
<1>. HIDE DEF t, u, a, b, d, nl
<1>6. t \o nl \in Seq(Bytes) /\ u \o d \in Seq(Bytes) /\ nl \o u \in Seq(Bytes) /\ nl \o (u \o d) \in Seq(Bytes)
  BY <1>1, <1>2, ConcatProperties
<1>7. (a \o (t \o nl)) \o (u \o d) = a \o ((t \o nl) \o (u \o d))
  BY <1>2, <1>6, Assoc, ZenonT(30)
<1>8. (t \o nl) \o (u \o d) = t \o (nl \o (u \o d))
  <2>. DEFINE e == u \o d
  <2>1. t \in Seq(Bytes) /\ nl \in Seq(Bytes) /\ e \in Seq(Bytes)
    BY <1>1, <1>6
  <2>. HIDE DEF e
  <2>2. (t \o nl) \o e = t \o (nl \o e)
    BY <2>1, Assoc
  <2>. QED
    BY <2>2 DEF e
<1>9. (nl \o u) \o d = nl \o (u \o d)
  BY <1>1, <1>2, Assoc, ZenonT(30)
<1>. QED
  BY <1>5, <1>7, <1>8, <1>9

\* The arrow keys.
LEMMA Moved ==
  ASSUME NEW ls, NEW x, NEW y, NEW u, NEW v, GoodLines(ls), GoodCursor(ls, x, y), GoodCursor(ls, u, v),
         v = y \/ v = y + 1 \/ y = v + 1
  PROVE  Before(ls, u, v) \o After(ls, u, v) = Before(ls, x, y) \o After(ls, x, y)
<1>1. Before(ls, x, y) \o After(ls, x, y) = WholeText(ls, y)
  BY AroundIsWhole
<1>2. Before(ls, u, v) \o After(ls, u, v) = WholeText(ls, v)
  BY AroundIsWhole
<1>3. Len(ls) \in Nat /\ y \in 0..(Len(ls) - 1) /\ v \in 0..(Len(ls) - 1)
  BY CursorTyped DEF GoodCursor
<1>4. CASE v = y
  BY <1>1, <1>2, <1>4
<1>5. CASE v = y + 1
  <2>1. y \in 0..(Len(ls) - 2)
    BY <1>3, <1>5
  <2>. QED
    BY <1>1, <1>2, <1>5, <2>1, WholeTextSame
<1>6. CASE y = v + 1
  <2>1. v \in 0..(Len(ls) - 2)
    BY <1>3, <1>6
  <2>. QED
    BY <1>1, <1>2, <1>6, <2>1, WholeTextSame
<1>. QED
  BY <1>4, <1>5, <1>6

\* Drawing changes neither part.
LEMMA AroundSame ==
  ASSUME NEW ls, NEW ms, NEW x, NEW y, GoodLines(ls), GoodLines(ms), SameText(ms, ls), GoodCursor(ls, x, y)
  PROVE  /\ Before(ms, x, y) = Before(ls, x, y) /\ After(ms, x, y) = After(ls, x, y)
         /\ Above(ms, Len(ms)) = Above(ls, Len(ls))
<1>0. Len(ls) \in Nat /\ y \in Nat /\ y + 1 \in 1..Len(ls) /\ Len(ms) = Len(ls)
      /\ \A k \in 1..Len(ls) : ms[k].text = ls[k].text
  BY CursorTyped DEF SameText
<1>1. Above(ms, y) = Above(ls, y)
  <2>1. \A k \in 1..y : ms[k].text = ls[k].text
    BY <1>0
  <2>. QED
    BY <2>1, AboveSame
<1>2. Behind(ms, y) = Behind(ls, y)
  <2>1. \A k \in 1..(Len(ms) - y - 1) : ms[y + 1 + k].text = ls[y + 1 + k].text
    BY <1>0
  <2>2. Len(ms) - y - 1 = Len(ls) - y - 1
    BY <1>0
  <2>. DEFINE n == Len(ms) - y - 1
  <2>3. n = Len(ls) - y - 1 /\ n = Len(ms) - y - 1 /\ \A k \in 1..n : ms[y + 1 + k].text = ls[y + 1 + k].text
    BY <2>1, <2>2
  <2>. HIDE DEF n
  <2>. QED
    BY <2>3, BehindSame
<1>3. Above(ms, Len(ms)) = Above(ls, Len(ls))
  BY <1>0, AboveSame
<1>4. ms[y + 1].text = ls[y + 1].text
  BY <1>0
<1>. QED
  BY <1>1, <1>2, <1>3, <1>4 DEF Before, After

(***************************************************************************)
(* Editing a line.                                                         *)
(***************************************************************************)
\* A line whose part before the cursor becomes p, with what was after the cursor left.
\* Line y + 1 with another text.
WithText(ls, y, t) == [ls EXCEPT ![y + 1].text = t]
TextFrom(ls, x, y) == SubSeq(ls[y + 1].text, x + 1, Len(ls[y + 1].text))

LEMMA PartReplaced ==
  ASSUME NEW ls, NEW x, NEW y, GoodLines(ls), GoodCursor(ls, x, y), NEW p \in Seq(Chars),
         NEW n, n = Len(p), n + (Len(ls[y + 1].text) - x) <= EDITOR_LINE_LENGTH
  PROVE  LET ms == WithText(ls, y, p \o TextFrom(ls, x, y))
         IN  /\ GoodLines(ms) /\ GoodCursor(ms, n, y)
             /\ Before(ms, n, y) = Above(ls, y) \o p
             /\ After(ms, n, y) = After(ls, x, y)
<1> DEFINE t == ls[y + 1].text
           q == SubSeq(t, x + 1, Len(t))
           new == p \o q
           ms == WithText(ls, y, new)
<1>0. /\ Len(ls) \in Nat /\ y \in Nat /\ y + 1 \in 1..Len(ls) /\ y \in 0..(Len(ls) - 1)
      /\ t \in Seq(Chars) /\ x \in 0..Len(t) /\ Len(t) \in Nat /\ Len(p) \in Nat
  <2>1. y \in 0..(Len(ls) - 1)
    BY DEF GoodCursor
  <2>2. Len(p) \in Nat
    OBVIOUS
  <2>. QED
    BY <2>1, <2>2, CursorTyped
<1>1. q \in Seq(Chars) /\ Len(q) = Len(t) - x
  <2>. HIDE DEF t
  <2>. QED
    BY <1>0, Parted
<1>2. Len(p) + Len(q) <= EDITOR_LINE_LENGTH
  BY <1>1
<1>. HIDE DEF q
<1>3. new \in Seq(Chars) /\ Len(new) = Len(p) + Len(q)
  BY <1>1, ConcatProperties
<1>4. SubSeq(new, 1, Len(p)) = p /\ SubSeq(new, Len(p) + 1, Len(new)) = q
  BY <1>1, ConcatParted
<1>5. Fits(new)
  BY <1>2, <1>3 DEF Fits
<1>. HIDE DEF new
<1>6. /\ GoodLines(ms) /\ Len(ms) = Len(ls)
      /\ ms[y + 1].text = new /\ \A i \in 1..Len(ls) : i # y + 1 => ms[i] = ls[i]
  BY <1>0, <1>5, TextChanged, SMTT(60) DEF WithText
<1>. HIDE DEF ms
<1>7. GoodCursor(ms, Len(p), y)
  <2>1. Len(p) \in 0..Len(new)
    BY <1>0, <1>1, <1>3
  <2>. QED
    BY <1>0, <1>6, <2>1 DEF GoodCursor
<1>8. Above(ms, y) = Above(ls, y)
  <2>1. \A k \in 1..y : ms[k].text = ls[k].text
    BY <1>0, <1>6
  <2>. QED
    BY <2>1, AboveSame
<1>9. Behind(ms, y) = Behind(ls, y)
  <2>1. \A k \in 1..(Len(ms) - y - 1) : ms[y + 1 + k].text = ls[y + 1 + k].text
    BY <1>0, <1>6
  <2>2. Len(ms) - y - 1 = Len(ls) - y - 1
    BY <1>6
  <2>. DEFINE m == Len(ms) - y - 1
  <2>3. m = Len(ls) - y - 1 /\ m = Len(ms) - y - 1 /\ \A k \in 1..m : ms[y + 1 + k].text = ls[y + 1 + k].text
    BY <2>1, <2>2
  <2>. HIDE DEF m
  <2>. QED
    BY <2>3, BehindSame
<1>10. Before(ms, Len(p), y) = Above(ls, y) \o p
  BY <1>4, <1>6, <1>8 DEF Before
<1>11. After(ms, Len(p), y) = After(ls, x, y)
  BY <1>4, <1>6, <1>9 DEF After, q, t
<1>. QED
  BY <1>6, <1>7, <1>10, <1>11 DEF ms, new, q, t, TextFrom

LEMMA Inserted ==
  ASSUME NEW ls, NEW x, NEW y, GoodLines(ls), GoodCursor(ls, x, y), NEW c \in Chars,
         Len(ls[y + 1].text) < EDITOR_LINE_LENGTH - 1
  PROVE  LET t  == ls[y + 1].text
             ms == [ls EXCEPT ![y + 1].text = SubSeq(t, 1, x) \o <<c>> \o SubSeq(t, x + 1, Len(t))]
         IN  /\ GoodLines(ms) /\ GoodCursor(ms, x + 1, y)
             /\ Before(ms, x + 1, y) = Append(Before(ls, x, y), c)
             /\ After(ms, x + 1, y) = After(ls, x, y)
<1> DEFINE t == ls[y + 1].text
           p == SubSeq(t, 1, x) \o <<c>>
<1>1. /\ t \in Seq(Chars) /\ Len(t) \in Nat /\ x \in Nat /\ x \in 0..Len(t)
      /\ y \in 0..Len(ls) /\ Above(ls, y) \in Seq(Bytes)
  BY CursorTyped, AroundTyped
<1>2. SubSeq(t, 1, x) \in Seq(Chars) /\ Len(SubSeq(t, 1, x)) = x
  BY <1>1, Parted
<1>3. p \in Seq(Chars) /\ Len(p) = x + 1 /\ p = Append(SubSeq(t, 1, x), c)
  <2>. DEFINE a == SubSeq(t, 1, x)
  <2>1. a \in Seq(Chars)
    BY <1>2
  <2>. HIDE DEF a
  <2>2. a \o <<c>> \in Seq(Chars) /\ Len(a \o <<c>>) = Len(a) + 1 /\ a \o <<c>> = Append(a, c)
    BY <2>1
  <2>. QED
    BY <1>1, <1>2, <2>2 DEF a
<1>4. (x + 1) + (Len(t) - x) <= EDITOR_LINE_LENGTH
  <2>1. Len(t) < EDITOR_LINE_LENGTH - 1
    OBVIOUS
  <2>. HIDE DEF t
  <2>. QED
    BY <1>1, <2>1, SizesTyped
<1>5. Above(ls, y) \o p = Append(Before(ls, x, y), c)
  <2>. DEFINE a == SubSeq(t, 1, x)
  <2>1. a \in Seq(Bytes)
    BY AroundTyped
  <2>2. c \in Bytes /\ p = Append(a, c) /\ Before(ls, x, y) = Above(ls, y) \o a
    BY <1>3 DEF Bytes, Before
  <2>. HIDE DEF a, p
  <2>3. Above(ls, y) \o Append(a, c) = Append(Above(ls, y) \o a, c)
    BY <1>1, <2>1, <2>2
  <2>. QED
    BY <2>2, <2>3
<1>. DEFINE ms == [ls EXCEPT ![y + 1].text = p \o SubSeq(t, x + 1, Len(t))]
<1>6. /\ GoodLines(ms) /\ GoodCursor(ms, x + 1, y)
      /\ Before(ms, x + 1, y) = Above(ls, y) \o p
      /\ After(ms, x + 1, y) = After(ls, x, y)
  <2>1. ms = WithText(ls, y, p \o TextFrom(ls, x, y))
    BY DEF WithText, TextFrom
  <2>. DEFINE n == x + 1
  <2>2. p \in Seq(Chars) /\ n = Len(p) /\ n + (Len(ls[y + 1].text) - x) <= EDITOR_LINE_LENGTH
    BY <1>3, <1>4
  <2>. HIDE DEF p, t, ms, n
  <2>3. /\ GoodLines(ms) /\ GoodCursor(ms, n, y)
        /\ Before(ms, n, y) = Above(ls, y) \o p
        /\ After(ms, n, y) = After(ls, x, y)
    BY <2>1, <2>2, PartReplaced
  <2>. QED
    BY <2>3 DEF n
<1>. QED
  BY <1>5, <1>6

LEMMA Deleted ==
  ASSUME NEW ls, NEW x, NEW y, GoodLines(ls), GoodCursor(ls, x, y), x > 0
  PROVE  LET t  == ls[y + 1].text
             ms == [ls EXCEPT ![y + 1].text = SubSeq(t, 1, x - 1) \o SubSeq(t, x + 1, Len(t))]
             b  == Before(ls, x, y)
         IN  /\ GoodLines(ms) /\ GoodCursor(ms, x - 1, y)
             /\ b # <<>> /\ Before(ms, x - 1, y) = SubSeq(b, 1, Len(b) - 1)
             /\ After(ms, x - 1, y) = After(ls, x, y)
<1> DEFINE t == ls[y + 1].text
           p == SubSeq(t, 1, x - 1)
           b == Before(ls, x, y)
<1>1. /\ t \in Seq(Chars) /\ t \in Seq(Bytes) /\ Len(t) \in Nat /\ x \in Nat /\ x \in 0..Len(t)
      /\ x \in 1..Len(t) /\ x - 1 \in 0..Len(t) /\ Len(t) <= EDITOR_LINE_LENGTH
      /\ y \in 0..Len(ls) /\ Above(ls, y) \in Seq(Bytes)
  BY CursorTyped, AroundTyped
<1>2. p \in Seq(Chars) /\ p \in Seq(Bytes) /\ Len(p) = x - 1
  BY <1>1, Parted
<1>4. (x - 1) + (Len(t) - x) <= EDITOR_LINE_LENGTH
  BY <1>1, SizesTyped
<1>5. SubSeq(t, 1, x) = Append(p, t[x]) /\ t[x] \in Bytes
  <2>. DEFINE a == SubSeq(t, 1, x)
  <2>1. a \in Seq(Bytes) /\ Len(a) = x /\ \A i \in 1..x : a[i] = t[i]
    BY <1>1, Parted
  <2>2. \A i \in 1..(x - 1) : p[i] = t[i]
    BY <1>1, Parted
  <2>3. t[x] \in Bytes
    BY <1>1
  <2>. HIDE DEF a, p, t
  <2>4. Append(p, t[x]) \in Seq(Bytes) /\ Len(Append(p, t[x])) = x
    BY <1>1, <1>2, <2>3
  <2>5. ASSUME NEW i \in 1..x PROVE a[i] = Append(p, t[x])[i]
    BY <1>1, <1>2, <2>1, <2>2
  <2>6. a = Append(p, t[x])
    <3>. DEFINE d == Append(p, t[x])
    <3>1. d \in Seq(Bytes) /\ Len(d) = x /\ \A i \in 1..x : a[i] = d[i]
      BY <2>4, <2>5
    <3>. HIDE DEF d
    <3>2. a = d
      BY <2>1, <3>1
    <3>. QED
      BY <3>2 DEF d
  <2>. QED
    BY <2>3, <2>6 DEF a
<1>6. /\ b = Append(Above(ls, y) \o p, t[x]) /\ b # <<>>
      /\ SubSeq(b, 1, Len(b) - 1) = Above(ls, y) \o p
  <2>1. b = Above(ls, y) \o Append(p, t[x])
    BY <1>5 DEF Before
  <2>. DEFINE a == Above(ls, y)
              e == t[x]
              d == a \o p
  <2>2. a \in Seq(Bytes) /\ p \in Seq(Bytes) /\ e \in Bytes /\ b = a \o Append(p, e)
    BY <1>1, <1>2, <1>5, <2>1
  <2>. HIDE DEF a, p, e, b
  <2>3. b = Append(a \o p, e) /\ a \o p \in Seq(Bytes)
    BY <2>2
  <2>4. d \in Seq(Bytes) /\ b = Append(d, e)
    BY <2>3
  <2>. HIDE DEF d
  <2>5. b # <<>> /\ Len(b) = Len(d) + 1 /\ Len(d) \in Nat
    BY <2>2, <2>4
  <2>6. b = d \o <<e>> /\ <<e>> \in Seq(Bytes)
    BY <2>2, <2>4
  <2>7. SubSeq(b, 1, Len(d)) = d
    BY <2>4, <2>6, ConcatParted
  <2>8. Len(b) - 1 = Len(d)
    BY <2>5
  <2>9. SubSeq(b, 1, Len(b) - 1) = d
    BY <2>7, <2>8
  <2>. QED
    BY <2>4, <2>5, <2>9 DEF d, a, e
<1>. DEFINE ms == [ls EXCEPT ![y + 1].text = p \o SubSeq(t, x + 1, Len(t))]
<1>7. /\ GoodLines(ms) /\ GoodCursor(ms, x - 1, y)
      /\ Before(ms, x - 1, y) = Above(ls, y) \o p
      /\ After(ms, x - 1, y) = After(ls, x, y)
  <2>1. ms = WithText(ls, y, p \o TextFrom(ls, x, y))
    BY DEF WithText, TextFrom
  <2>. DEFINE n == x - 1
  <2>2. p \in Seq(Chars) /\ n = Len(p) /\ n + (Len(ls[y + 1].text) - x) <= EDITOR_LINE_LENGTH
    BY <1>2, <1>4
  <2>. HIDE DEF p, t, ms, n
  <2>3. /\ GoodLines(ms) /\ GoodCursor(ms, n, y)
        /\ Before(ms, n, y) = Above(ls, y) \o p
        /\ After(ms, n, y) = After(ls, x, y)
    BY <2>1, <2>2, PartReplaced
  <2>. QED
    BY <2>3 DEF n
<1>. QED
  BY <1>6, <1>7

LEMMA FrontOf ==
  ASSUME NEW S, NEW d \in Seq(S), NEW e \in S, NEW b, b = Append(d, e)
  PROVE  b \in Seq(S) /\ b # <<>> /\ SubSeq(b, 1, Len(b) - 1) = d
<1>1. b \in Seq(S) /\ b # <<>> /\ Len(b) = Len(d) + 1 /\ Len(d) \in Nat
  OBVIOUS
<1>2. b = d \o <<e>> /\ <<e>> \in Seq(S)
  OBVIOUS
<1>3. SubSeq(b, 1, Len(d)) = d
  BY <1>2, ConcatParted
<1>4. Len(b) - 1 = Len(d)
  BY <1>1
<1>. QED
  BY <1>1, <1>3, <1>4

LEMMA NothingAndAll ==
  ASSUME NEW S, NEW s \in Seq(S)
  PROVE  SubSeq(s, 1, 0) = <<>> /\ SubSeq(s, 1, Len(s)) = s /\ s \o <<>> = s /\ <<>> \o s = s
<1>1. Len(s) \in Nat /\ s \o <<>> = s /\ <<>> \o s = s
  OBVIOUS
<1>2. SubSeq(s, 1, 0) \in Seq(S) /\ Len(SubSeq(s, 1, 0)) = 0
  BY <1>1, Parted
<1>3. SubSeq(s, 1, 0) = <<>>
  <2>. DEFINE a == SubSeq(s, 1, 0)
  <2>. HIDE DEF a
  <2>1. a = <<>>
    BY <1>2 DEF a
  <2>. QED
    BY <2>1 DEF a
<1>4. SubSeq(s, 1, Len(s)) = s
  <2>1. <<>> \in Seq(S) /\ SubSeq(s \o <<>>, 1, Len(s)) = s
    BY ConcatParted
  <2>. QED
    BY <1>1, <2>1
<1>. QED
  BY <1>1, <1>3, <1>4

LEMMA AppendAfter ==
  ASSUME NEW a \in Seq(Bytes), NEW b \in Seq(Bytes), NEW c \in Bytes
  PROVE  a \o Append(b, c) = Append(a \o b, c) /\ a \o b \in Seq(Bytes)
  OBVIOUS

LEMMA Joined ==
  ASSUME NEW ls, NEW y, GoodLines(ls), GoodCursor(ls, 0, y), y > 0,
         Len(ls[y].text \o ls[y + 1].text) <= EDITOR_LINE_LENGTH
  PROVE  LET n  == Len(ls[y].text)
             ms == RemoveAt([ls EXCEPT ![y].text = ls[y].text \o ls[y + 1].text], y + 1)
             b  == Before(ls, 0, y)
         IN  /\ GoodLines(ms) /\ GoodCursor(ms, n, y - 1)
             /\ b # <<>> /\ Before(ms, n, y - 1) = SubSeq(b, 1, Len(b) - 1)
             /\ After(ms, n, y - 1) = After(ls, 0, y)
<1> DEFINE s  == ls[y].text
           t  == ls[y + 1].text
           u  == s \o t
           ws == [ls EXCEPT ![y].text = u]
           ms == RemoveAt(ws, y + 1)
           n  == Len(s)
           b  == Before(ls, 0, y)
<1>1. /\ Len(ls) \in Nat /\ y \in Nat /\ y \in 1..(Len(ls) - 1) /\ y \in 1..Len(ls) /\ y + 1 \in 1..Len(ls)
      /\ y - 1 \in 0..(Len(ls) - 1) /\ y \in 0..Len(ls) /\ y - 1 \in 0..Len(ls)
      /\ (y - 1) + 1 = y /\ Len(ls) <= EDITOR_MAX_LINES
  <2>1. y \in 0..(Len(ls) - 1)
    BY DEF GoodCursor
  <2>. QED
    BY <2>1, CursorTyped
<1>2. /\ s \in Seq(Chars) /\ s \in Seq(Bytes) /\ t \in Seq(Chars) /\ t \in Seq(Bytes)
      /\ n \in Nat /\ Len(t) \in Nat /\ NL \in Bytes
  BY <1>1, TextOfLine DEF Bytes
<1>3. u \in Seq(Chars) /\ Len(u) = n + Len(t) /\ Len(u) <= EDITOR_LINE_LENGTH
  BY <1>2, ConcatProperties
<1>4. SubSeq(u, 1, n) = s /\ SubSeq(u, n + 1, Len(u)) = t
  BY <1>2, ConcatParted, ZenonT(30)
<1>5. Fits(u)
  BY <1>3 DEF Fits
<1>. HIDE DEF u, n
<1>6. /\ GoodLines(ws) /\ Len(ws) = Len(ls)
      /\ ws[y].text = u /\ \A i \in 1..Len(ls) : i # y => ws[i] = ls[i]
  BY <1>1, <1>5, TextChanged
<1>. HIDE DEF ws
<1>7. /\ ms \in Seq(LineType) /\ Len(ms) = Len(ls) - 1
      /\ \A k \in 1..(Len(ls) - 1) : ms[k] = IF k < y + 1 THEN ws[k] ELSE ws[k + 1]
  <2>1. ws \in Seq(LineType) /\ y + 1 \in 1..Len(ws)
    BY <1>1, <1>6 DEF GoodLines
  <2>. QED
    BY <1>6, <2>1, RemoveAtIs, ZenonT(30)
<1>. HIDE DEF ms
<1>8. /\ ms[y].text = u
      /\ \A k \in 1..(y - 1) : ms[k] = ls[k]
      /\ \A k \in 1..(Len(ls) - y - 1) : ms[y + k] = ls[y + 1 + k]
  <2>1. y \in 1..(Len(ls) - 1) /\ y < y + 1
    BY <1>1
  <2>2. ms[y].text = u
    BY <1>6, <1>7, <2>1
  <2>3. ASSUME NEW k \in 1..(y - 1) PROVE ms[k] = ls[k]
    <3>1. k \in 1..(Len(ls) - 1) /\ k < y + 1 /\ k \in 1..Len(ls) /\ k # y
      BY <1>1
    <3>. QED
      BY <1>6, <1>7, <3>1
  <2>4. ASSUME NEW k \in 1..(Len(ls) - y - 1) PROVE ms[y + k] = ls[y + 1 + k]
    <3>1. /\ y + k \in 1..(Len(ls) - 1) /\ ~(y + k < y + 1) /\ (y + k) + 1 \in 1..Len(ls)
          /\ (y + k) + 1 # y /\ y + 1 + k = (y + k) + 1
      BY <1>1
    <3>2. ms[y + k] = ws[(y + k) + 1]
      BY <1>7, <3>1
    <3>3. ws[(y + k) + 1] = ls[(y + k) + 1]
      BY <1>6, <3>1
    <3>. QED
      BY <3>1, <3>2, <3>3
  <2>. QED
    BY <2>2, <2>3, <2>4
<1>9. GoodLines(ms)
  <2>1. Len(ms) \in 1..EDITOR_MAX_LINES
    BY <1>1, <1>7, SizesTyped
  <2>2. ASSUME NEW k \in 1..Len(ms) PROVE Len(ms[k].text) <= EDITOR_LINE_LENGTH
    <3>1. k \in 1..(Len(ls) - 1) /\ k \in 1..Len(ws) /\ k + 1 \in 1..Len(ws)
      BY <1>1, <1>6, <1>7
    <3>2. Len(ws[k].text) <= EDITOR_LINE_LENGTH /\ Len(ws[k + 1].text) <= EDITOR_LINE_LENGTH
      BY <1>6, <3>1 DEF GoodLines
    <3>3. ms[k] = ws[k] \/ ms[k] = ws[k + 1]
      BY <1>7, <3>1
    <3>. QED
      BY <3>2, <3>3
  <2>. QED
    BY <1>7, <2>1, <2>2 DEF GoodLines
<1>10. GoodCursor(ms, n, y - 1)
  <2>1. y - 1 \in 0..(Len(ms) - 1) /\ n \in 0..Len(u)
    BY <1>1, <1>2, <1>3, <1>7
  <2>. QED
    BY <1>1, <1>8, <2>1 DEF GoodCursor
<1>11. Above(ms, y - 1) = Above(ls, y - 1)
  <2>1. \A k \in 1..(y - 1) : ms[k].text = ls[k].text
    BY <1>8
  <2>. QED
    BY <2>1, AboveSame
<1>12. Behind(ms, y - 1) = Behind(ls, y)
  <2>. DEFINE m == Len(ls) - y - 1
              z == y - 1
  <2>1. m = Len(ms) - z - 1 /\ z + 1 = y
    BY <1>1, <1>7
  <2>2. \A k \in 1..m : ms[z + 1 + k].text = ls[y + 1 + k].text
    <3>1. \A k \in 1..m : ms[y + k].text = ls[y + 1 + k].text
      BY <1>8
    <3>. HIDE DEF m, z
    <3>. QED
      BY <2>1, <3>1
  <2>3. m = Len(ls) - y - 1
    OBVIOUS
  <2>. HIDE DEF m, z
  <2>4. Behind(ms, z) = Behind(ls, y)
    BY <2>1, <2>2, <2>3, BehindSame
  <2>. QED
    BY <2>4 DEF z
<1>13. /\ b = Append(Above(ls, y - 1) \o s, NL) /\ Above(ls, y - 1) \o s \in Seq(Bytes)
  <2>1. b = Above(ls, y)
    <3>1. SubSeq(t, 1, 0) = <<>> /\ Above(ls, y) \in Seq(Bytes)
      BY <1>1, <1>2, NothingAndAll, AboveTyped
    <3>2. Above(ls, y) \o <<>> = Above(ls, y)
      BY <3>1, NothingAndAll
    <3>. QED
      BY <3>1, <3>2 DEF Before
  <2>2. Above(ls, (y - 1) + 1) = Above(ls, y - 1) \o Append(ls[(y - 1) + 1].text, NL)
    BY <1>1, AboveNext
  <2>3. Above(ls, y) = Above(ls, y - 1) \o Append(s, NL)
    BY <1>1, <2>2
  <2>4. Above(ls, y - 1) \in Seq(Bytes)
    BY <1>1, AboveTyped
  <2>. QED
    BY <1>2, <2>1, <2>3, <2>4, AppendAfter
<1>14. b # <<>> /\ SubSeq(b, 1, Len(b) - 1) = Above(ls, y - 1) \o s
  <2>. DEFINE d == Above(ls, y - 1) \o s
  <2>1. d \in Seq(Bytes) /\ NL \in Bytes /\ b = Append(d, NL)
    BY <1>2, <1>13
  <2>. HIDE DEF b, d
  <2>2. b # <<>> /\ SubSeq(b, 1, Len(b) - 1) = d
    BY <2>1, FrontOf
  <2>. QED
    BY <2>2 DEF d
<1>15. Before(ms, n, y - 1) = Above(ls, y - 1) \o s
  BY <1>1, <1>4, <1>8, <1>11 DEF Before
<1>16. After(ms, n, y - 1) = t \o Behind(ls, y)
  BY <1>1, <1>4, <1>8, <1>12 DEF After
<1>17. After(ls, 0, y) = t \o Behind(ls, y)
  <2>1. SubSeq(t, 0 + 1, Len(t)) = t
    BY <1>2, NothingAndAll
  <2>. QED
    BY <2>1 DEF After
<1>. QED
  BY <1>9, <1>10, <1>14, <1>15, <1>16, <1>17 DEF ms, ws, u, n

LEMMA Divided ==
  ASSUME NEW ls, NEW x, NEW y, GoodLines(ls), GoodCursor(ls, x, y), Len(ls) < EDITOR_MAX_LINES
  PROVE  LET t  == ls[y + 1].text
             ms == InsertAt([ls EXCEPT ![y + 1].text = SubSeq(t, 1, x)],
                            y + 2, Line(SubSeq(t, x + 1, Len(t))))
         IN  /\ GoodLines(ms) /\ GoodCursor(ms, 0, y + 1)
             /\ Before(ms, 0, y + 1) = Append(Before(ls, x, y), NL)
             /\ After(ms, 0, y + 1) = After(ls, x, y)
<1> DEFINE t  == ls[y + 1].text
           p  == SubSeq(t, 1, x)
           q  == SubSeq(t, x + 1, Len(t))
           ws == [ls EXCEPT ![y + 1].text = p]
           e  == Line(q)
           ms == InsertAt(ws, y + 2, e)
<1>1. /\ Len(ls) \in Nat /\ y \in Nat /\ y \in 0..(Len(ls) - 1) /\ y + 1 \in 1..Len(ls)
      /\ y \in 0..Len(ls) /\ x \in 0..Len(t) /\ Len(t) \in Nat /\ Len(t) <= EDITOR_LINE_LENGTH
      /\ y + 2 \in 1..(Len(ls) + 1) /\ y + 2 = (y + 1) + 1
  <2>1. y \in 0..(Len(ls) - 1)
    BY DEF GoodCursor
  <2>. QED
    BY <2>1, CursorTyped
<1>2. t \in Seq(Chars) /\ t \in Seq(Bytes) /\ NL \in Bytes
  BY <1>1, TextOfLine DEF Bytes
<1>3. /\ p \in Seq(Chars) /\ Len(p) = x /\ q \in Seq(Chars) /\ Len(q) = Len(t) - x
      /\ p \in Seq(Bytes) /\ q \in Seq(Bytes)
  <2>. HIDE DEF t
  <2>. QED
    BY <1>1, <1>2, Parted
<1>4. Fits(p) /\ Fits(q)
  BY <1>1, <1>3, SizesTyped DEF Fits
<1>. HIDE DEF p, q
<1>5. /\ GoodLines(ws) /\ Len(ws) = Len(ls)
      /\ ws[y + 1].text = p /\ \A i \in 1..Len(ls) : i # y + 1 => ws[i] = ls[i]
  BY <1>1, <1>4, TextChanged
<1>6. e \in LineType /\ e.text = q
  BY <1>3, NewLineTyped
<1>. HIDE DEF ws, e
<1>7. /\ ms \in Seq(LineType) /\ Len(ms) = Len(ls) + 1
      /\ \A k \in 1..(Len(ls) + 1) : ms[k] = IF k < y + 2 THEN ws[k] ELSE IF k = y + 2 THEN e ELSE ws[k - 1]
  <2>1. ws \in Seq(LineType) /\ y + 2 \in 1..(Len(ws) + 1)
    BY <1>1, <1>5 DEF GoodLines
  <2>. DEFINE i == y + 2
  <2>2. ws \in Seq(LineType) /\ i \in 1..(Len(ws) + 1) /\ e \in LineType /\ ms = InsertAt(ws, i, e)
    BY <1>6, <2>1
  <2>. HIDE DEF i, ms
  <2>3. /\ ms \in Seq(LineType) /\ Len(ms) = Len(ws) + 1
        /\ \A k \in 1..(Len(ws) + 1) : ms[k] = IF k < i THEN ws[k] ELSE IF k = i THEN e ELSE ws[k - 1]
    BY <2>2, InsertAtIs, SMTT(60)
  <2>. QED
    BY <1>5, <2>3 DEF i
<1>. HIDE DEF ms
<1>8. /\ ms[y + 1].text = p /\ ms[y + 2].text = q
      /\ \A k \in 1..y : ms[k] = ls[k]
      /\ \A k \in 1..(Len(ls) - y - 1) : ms[(y + 2) + k] = ls[(y + 1) + k]
  <2>1. y + 1 \in 1..(Len(ls) + 1) /\ y + 1 < y + 2 /\ ~(y + 2 < y + 2)
    BY <1>1
  <2>2. ms[y + 1].text = p /\ ms[y + 2].text = q
    BY <1>1, <1>5, <1>6, <1>7, <2>1
  <2>3. ASSUME NEW k \in 1..y PROVE ms[k] = ls[k]
    <3>1. k \in 1..(Len(ls) + 1) /\ k < y + 2 /\ k \in 1..Len(ls) /\ k # y + 1
      BY <1>1
    <3>. QED
      BY <1>5, <1>7, <3>1
  <2>4. ASSUME NEW k \in 1..(Len(ls) - y - 1) PROVE ms[(y + 2) + k] = ls[(y + 1) + k]
    <3>1. /\ (y + 2) + k \in 1..(Len(ls) + 1) /\ ~((y + 2) + k < y + 2) /\ (y + 2) + k # y + 2
          /\ (y + 1) + k \in 1..Len(ls) /\ (y + 1) + k # y + 1 /\ ((y + 2) + k) - 1 = (y + 1) + k
      BY <1>1
    <3>2. ms[(y + 2) + k] = ws[(y + 1) + k]
      BY <1>7, <3>1
    <3>3. ws[(y + 1) + k] = ls[(y + 1) + k]
      BY <1>5, <3>1
    <3>. QED
      BY <3>2, <3>3
  <2>. QED
    BY <2>2, <2>3, <2>4
<1>9. GoodLines(ms)
  <2>1. Len(ms) \in 1..EDITOR_MAX_LINES
    BY <1>1, <1>7, SizesTyped
  <2>2. ASSUME NEW k \in 1..Len(ms) PROVE Len(ms[k].text) <= EDITOR_LINE_LENGTH
    <3>1. k \in 1..(Len(ls) + 1)
      BY <1>7
    <3>2. CASE k < y + 2
      <4>1. k \in 1..Len(ws) /\ ms[k] = ws[k]
        BY <1>1, <1>5, <1>7, <3>1, <3>2
      <4>. QED
        BY <1>5, <4>1 DEF GoodLines
    <3>3. CASE k = y + 2
      <4>1. ms[k].text = q
        BY <1>8, <3>3
      <4>. QED
        BY <1>4, <4>1 DEF Fits
    <3>4. CASE ~(k < y + 2) /\ k # y + 2
      <4>1. k - 1 \in 1..Len(ws) /\ ms[k] = ws[k - 1]
        BY <1>1, <1>5, <1>7, <3>1, <3>4
      <4>. QED
        BY <1>5, <4>1 DEF GoodLines
    <3>. QED
      BY <3>2, <3>3, <3>4
  <2>. QED
    BY <1>7, <2>1, <2>2 DEF GoodLines
<1>10. GoodCursor(ms, 0, y + 1)
  <2>1. y + 1 \in 0..(Len(ms) - 1) /\ 0 \in 0..Len(q)
    BY <1>1, <1>3, <1>7
  <2>. QED
    BY <1>1, <1>8, <2>1 DEF GoodCursor
<1>11. Above(ms, y) = Above(ls, y)
  <2>1. \A k \in 1..y : ms[k].text = ls[k].text
    BY <1>8
  <2>. QED
    BY <2>1, AboveSame
<1>12. Behind(ms, y + 1) = Behind(ls, y)
  <2>. DEFINE m == Len(ls) - y - 1
              z == y + 1
  <2>1. m = Len(ms) - z - 1 /\ z + 1 = y + 2 /\ m = Len(ls) - y - 1
    BY <1>1, <1>7
  <2>2. \A k \in 1..m : ms[z + 1 + k].text = ls[y + 1 + k].text
    <3>1. \A k \in 1..m : ms[(y + 2) + k].text = ls[(y + 1) + k].text
      BY <1>8
    <3>. HIDE DEF m, z
    <3>. QED
      BY <2>1, <3>1
  <2>. HIDE DEF m, z
  <2>3. Behind(ms, z) = Behind(ls, y)
    BY <2>1, <2>2, BehindSame
  <2>. QED
    BY <2>3 DEF z
<1>13. Above(ls, y) \in Seq(Bytes) /\ Above(ms, y + 1) \in Seq(Bytes) /\ Behind(ls, y) \in Seq(Bytes)
  <2>1. y + 1 \in 0..Len(ms)
    BY <1>1, <1>7
  <2>. QED
    BY <1>1, <1>9, <2>1, AboveTyped, BehindTyped
<1>14. Before(ms, 0, y + 1) = Append(Before(ls, x, y), NL)
  <2>1. Above(ms, y + 1) = Above(ls, y) \o Append(p, NL)
    <3>1. y \in 0..(Len(ms) - 1)
      BY <1>1, <1>7
    <3>. QED
      BY <1>8, <1>9, <1>11, <3>1, AboveNext
  <2>2. Above(ls, y) \o Append(p, NL) = Append(Above(ls, y) \o p, NL)
    BY <1>2, <1>3, <1>13, AppendAfter
  <2>3. Before(ls, x, y) = Above(ls, y) \o p
    BY DEF Before, p
  <2>4. Before(ms, 0, y + 1) = Above(ms, y + 1)
    <3>1. SubSeq(q, 1, 0) = <<>>
      BY <1>3, NothingAndAll
    <3>2. Above(ms, y + 1) \o <<>> = Above(ms, y + 1)
      BY <1>13, NothingAndAll
    <3>. QED
      BY <1>1, <1>8, <3>1, <3>2 DEF Before
  <2>. QED
    BY <2>1, <2>2, <2>3, <2>4
<1>15. After(ms, 0, y + 1) = After(ls, x, y)
  <2>1. SubSeq(q, 0 + 1, Len(q)) = q
    BY <1>3, NothingAndAll
  <2>2. After(ls, x, y) = q \o Behind(ls, y)
    BY DEF After, q
  <2>. QED
    BY <1>1, <1>8, <1>12, <2>1, <2>2 DEF After
<1>. QED
  BY <1>9, <1>10, <1>14, <1>15 DEF ms, ws, e, p, q

(***************************************************************************)
(* Opening a file.                                                         *)
(***************************************************************************)
LEMMA AtMostTyped ==
  ASSUME NEW S, NEW s \in Seq(S), NEW n \in Nat
  PROVE  /\ AtMost(n, s) \in Seq(S) /\ Len(AtMost(n, s)) <= n /\ Len(AtMost(n, s)) <= Len(s)
         /\ n >= 1 /\ s # <<>> => AtMost(n, s) # <<>>
<1> DEFINE m == IF Len(s) < n THEN Len(s) ELSE n
<1>1. m \in Nat /\ m \in 0..Len(s) /\ m <= n /\ m <= Len(s) /\ (n >= 1 /\ s # <<>> => m # 0)
  OBVIOUS
<1>2. AtMost(n, s) = SubSeq(s, 1, m)
  BY DEF AtMost
<1>. HIDE DEF m
<1>3. SubSeq(s, 1, m) \in Seq(S) /\ Len(SubSeq(s, 1, m)) = m
  BY <1>1, Parted
<1>. QED
  BY <1>1, <1>2, <1>3

LEMMA SplitTyped ==
  ASSUME NEW bytes \in Seq(Bytes)
  PROVE  Split(bytes) \in Seq(Seq(Chars))
<1> DEFINE starts == {i \in 1..Len(bytes) : i = 1 \/ bytes[i - 1] = NL}
<1>1. Len(bytes) \in Nat /\ Bytes \ {NL} \subseteq Chars
  BY DEF Bytes
<1>2. starts \subseteq 1..Len(bytes) /\ starts \subseteq Nat /\ IsFiniteSet(starts)
  <2>1. IsFiniteSet(1..Len(bytes))
    BY <1>1, FS_Interval
  <2>2. starts \subseteq 1..Len(bytes) /\ starts \subseteq Nat
    BY <1>1
  <2>. QED
    BY <2>1, <2>2, FS_Subset
<1>3. Split(bytes) = [k \in 1..Cardinality(starts) |-> LineAt(bytes, NL, Ordered(starts)[k])]
  BY DEF Split, LinesAt
<1>. HIDE DEF starts
<1>4. Cardinality(starts) \in Nat /\ \A k \in 1..Cardinality(starts) : Ordered(starts)[k] \in starts
  BY <1>2, OrderedMembers
<1>5. ASSUME NEW k \in 1..Cardinality(starts) PROVE LineAt(bytes, NL, Ordered(starts)[k]) \in Seq(Chars)
  <2>. DEFINE i == Ordered(starts)[k]
  <2>1. i \in 1..Len(bytes)
    BY <1>2, <1>4
  <2>. HIDE DEF i
  <2>2. LineAt(bytes, NL, i) \in Seq(Bytes \ {NL})
    BY <2>1, LineTyped
  <2>3. LineAt(bytes, NL, i) \in Seq(Chars)
    BY <1>1, <2>2
  <2>. QED
    BY <2>3 DEF i
<1>. QED
  BY <1>3, <1>4, <1>5

LEMMA EmptyLine == GoodLines(<<Line(<<>>)>>)
<1>1. <<>> \in Seq(Chars) /\ Len(<<>>) = 0
  OBVIOUS
<1>2. Line(<<>>) \in LineType /\ Line(<<>>).text = <<>>
  BY <1>1, NewLineTyped
<1> DEFINE l == Line(<<>>)
<1>. HIDE DEF l
<1>3. <<l>> \in Seq(LineType) /\ Len(<<l>>) = 1 /\ <<l>>[1] = l
  BY <1>2 DEF l
<1>4. GoodLines(<<l>>)
  BY <1>1, <1>2, <1>3, SizesTyped DEF GoodLines, l
<1>. QED
  BY <1>4 DEF l

LEMMA Loaded ==
  ASSUME NEW bytes \in Seq(Bytes)
  PROVE  GoodLines(editor_load_from_file(bytes))
<1> DEFINE n    == EDITOR_MAX_LINES * EDITOR_LINE_LENGTH
           read == AtMost(n, bytes)
           kept == AtMost(EDITOR_MAX_LINES, Split(read))
           len  == EDITOR_LINE_LENGTH - 1
           cut  == [k \in 1..Len(kept) |-> Line(AtMost(len, kept[k]))]
<1>1. n \in Nat /\ len \in Nat /\ len <= EDITOR_LINE_LENGTH
  BY SizesTyped
<1>2. editor_load_from_file(bytes) = IF kept = <<>> THEN <<Line(<<>>)>> ELSE cut
  BY DEF editor_load_from_file
<1>. HIDE DEF n
<1>3. read \in Seq(Bytes)
  BY <1>1, AtMostTyped
<1>. HIDE DEF read
<1>4. Split(read) \in Seq(Seq(Chars))
  BY <1>3, SplitTyped
<1>5. kept \in Seq(Seq(Chars)) /\ Len(kept) <= EDITOR_MAX_LINES
  BY <1>4, SizesTyped, AtMostTyped
<1>. HIDE DEF kept, len
<1>6. CASE kept = <<>>
  BY <1>2, <1>6, EmptyLine
<1>7. CASE kept # <<>>
  <2>1. Len(kept) \in Nat /\ Len(kept) \in 1..EDITOR_MAX_LINES
    BY <1>5, <1>7, SizesTyped
  <2>2. ASSUME NEW k \in 1..Len(kept)
        PROVE  /\ Line(AtMost(len, kept[k])) \in LineType
               /\ Len(Line(AtMost(len, kept[k])).text) <= EDITOR_LINE_LENGTH
    <3>1. kept[k] \in Seq(Chars)
      BY <1>5
    <3>. DEFINE t == kept[k]
                a == AtMost(len, t)
    <3>. HIDE DEF t
    <3>2. a \in Seq(Chars) /\ Len(a) <= len /\ Len(a) \in Nat
      BY <1>1, <3>1, AtMostTyped DEF t
    <3>. HIDE DEF a
    <3>3. Line(a) \in LineType /\ Line(a).text = a
      BY <3>2, NewLineTyped
    <3>4. Len(a) <= EDITOR_LINE_LENGTH
      BY <1>1, <3>2, SizesTyped
    <3>. QED
      BY <3>3, <3>4 DEF a, t
  <2>3. cut \in Seq(LineType) /\ Len(cut) = Len(kept)
    BY <2>1, <2>2
  <2>4. \A k \in 1..Len(kept) : cut[k] = Line(AtMost(len, kept[k]))
    OBVIOUS
  <2>. HIDE DEF cut
  <2>5. GoodLines(cut)
    BY <2>1, <2>2, <2>3, <2>4 DEF GoodLines
  <2>. QED
    BY <1>2, <1>7, <2>5
<1>. QED
  BY <1>6, <1>7

(***************************************************************************)
(* Saving it.                                                              *)
(***************************************************************************)
LEMMA FlatIs ==
  ASSUME NEW ls, GoodLines(ls)
  PROVE  Flat(ls) = Above(ls, Len(ls)) /\ Flat(ls) \in Seq(Bytes)
<1>1. Flat(ls) = Above(ls, Len(ls))
  BY DEF Flat, Above
<1>2. Len(ls) \in 0..Len(ls)
  BY DEF GoodLines
<1>. QED
  BY <1>1, <1>2, AboveTyped

LEMMA FlatSame ==
  ASSUME NEW ls, NEW ms, GoodLines(ls), GoodLines(ms), SameText(ms, ls)
  PROVE  Flat(ms) = Flat(ls)
<1>1. Len(ms) = Len(ls) /\ \A k \in 1..Len(ls) : ms[k].text = ls[k].text
  BY DEF SameText
<1>2. Above(ms, Len(ls)) = Above(ls, Len(ls))
  BY <1>1, AboveSame
<1>. QED
  BY <1>1, <1>2, FlatIs

LEMMA Overwritten ==
  ASSUME NEW old \in Seq(Bytes), NEW f \in Seq(Bytes), NEW n \in 0..Len(f)
  PROVE  LET w == Overwrite(old, SubSeq(f, 1, n))
         IN  /\ w \in Seq(Bytes)
             /\ n = Len(f) => IsPrefix(f, w)
             /\ IsPrefix(f, old) => w = old
<1> DEFINE p == SubSeq(f, 1, n)
           q == SubSeq(old, Len(p) + 1, Len(old))
           w == Overwrite(old, p)
<1>1. Len(f) \in Nat /\ n \in Nat /\ Len(old) \in Nat
  OBVIOUS
<1>2. p \in Seq(Bytes) /\ Len(p) = n
  BY Parted
<1>3. w = p \o q
  BY DEF Overwrite
<1>4. q \in Seq(Bytes)
  <2>. DEFINE m == n + 1
  <2>1. m \in Int /\ 1 <= m /\ Len(old) \in Int /\ Len(old) <= Len(old)
    BY <1>1
  <2>2. q = SubSeq(old, m, Len(old))
    BY <1>2
  <2>. HIDE DEF m, q
  <2>3. SubSeq(old, m, Len(old)) \in Seq(Bytes)
    BY <2>1, PartTyped
  <2>. QED
    BY <2>2, <2>3
<1>. HIDE DEF q
<1>5. w \in Seq(Bytes)
  <2>. HIDE DEF p, w
  <2>. QED
    BY <1>2, <1>3, <1>4
<1>6. ASSUME n = Len(f) PROVE IsPrefix(f, w)
  <2>1. p = f
    BY <1>6, NothingAndAll
  <2>2. w = f \o q
    BY <1>3, <2>1
  <2>3. SubSeq(w, 1, Len(f)) = f
    BY <1>4, <2>2, ConcatParted
  <2>4. Len(w) = Len(f) + Len(q) /\ Len(q) \in Nat
    BY <1>4, <2>2
  <2>5. Len(f) <= Len(w) /\ SubSeq(f, 1, Len(f)) = f
    BY <1>1, <2>4, NothingAndAll
  <2>. QED
    BY <2>3, <2>5 DEF IsPrefix
<1>7. ASSUME IsPrefix(f, old) PROVE w = old
  <2>1. Len(f) <= Len(old) /\ SubSeq(f, 1, Len(f)) = SubSeq(old, 1, Len(f))
    BY <1>7 DEF IsPrefix
  <2>2. f = SubSeq(old, 1, Len(f))
    BY <2>1, NothingAndAll
  <2>3. n \in 0..Len(old) /\ Len(f) \in 0..Len(old)
    BY <1>1, <2>1
  <2>4. old = SubSeq(old, 1, n) \o SubSeq(old, n + 1, Len(old))
    BY <2>3, Parted
  <2>5. p = SubSeq(old, 1, n)
    <3>. DEFINE d == SubSeq(old, 1, n)
                g == SubSeq(old, 1, Len(f))
    <3>1. d \in Seq(Bytes) /\ Len(d) = n /\ \A i \in 1..n : d[i] = old[i]
      BY <2>3, Parted
    <3>2. \A i \in 1..n : p[i] = f[i]
      BY Parted
    <3>3. \A i \in 1..Len(f) : f[i] = old[i]
      <4>1. \A i \in 1..Len(f) : g[i] = old[i]
        BY <2>3, Parted
      <4>. HIDE DEF g
      <4>2. g = f
        BY <2>2 DEF g
      <4>. QED
        BY <4>1, <4>2
    <3>4. ASSUME NEW i \in 1..n PROVE p[i] = d[i]
      <4>1. i \in 1..Len(f)
        BY <1>1
      <4>. QED
        BY <3>1, <3>2, <3>3, <4>1
    <3>. HIDE DEF p, d
    <3>5. p = d
      BY <1>2, <3>1, <3>4, SMTT(60)
    <3>. QED
      BY <3>5 DEF d
  <2>6. q = SubSeq(old, n + 1, Len(old))
    BY <1>2 DEF q
  <2>. QED
    BY <1>3, <2>4, <2>5, <2>6
<1>. QED
  BY <1>5, <1>6, <1>7

LEMMA PartOfPart ==
  ASSUME NEW S, NEW s \in Seq(S), NEW b \in 0..Len(s), NEW a \in 0..b
  PROVE  SubSeq(SubSeq(s, 1, b), 1, a) = SubSeq(s, 1, a)
<1> DEFINE p == SubSeq(s, 1, b)
           q == SubSeq(p, 1, a)
           r == SubSeq(s, 1, a)
<1>1. Len(s) \in Nat /\ a \in 0..Len(s) /\ \A i \in 1..a : i \in 1..b
  OBVIOUS
<1>2. p \in Seq(S) /\ Len(p) = b /\ \A i \in 1..b : p[i] = s[i]
  BY Parted
<1>3. r \in Seq(S) /\ Len(r) = a /\ \A i \in 1..a : r[i] = s[i]
  BY <1>1, Parted
<1>. HIDE DEF p, r
<1>4. q \in Seq(S) /\ Len(q) = a /\ \A i \in 1..a : q[i] = p[i]
  BY <1>2, Parted
<1>. HIDE DEF q
<1>5. \A i \in 1..a : q[i] = r[i]
  BY <1>1, <1>2, <1>3, <1>4
<1>6. q = r
  BY <1>3, <1>4, <1>5, SMTT(60)
<1>. QED
  BY <1>6 DEF p, q, r

LEMMA OverwriteLength ==
  ASSUME NEW old \in Seq(Bytes), NEW f \in Seq(Bytes), NEW n \in 0..Len(f)
  PROVE  LET w == Overwrite(old, SubSeq(f, 1, n))
         IN  Len(w) \in Nat /\ Len(w) = IF n > Len(old) THEN n ELSE Len(old)
<1> DEFINE p == SubSeq(f, 1, n)
           q == SubSeq(old, n + 1, Len(old))
<1>1. n \in Nat /\ Len(old) \in Nat /\ Len(f) \in Nat
  OBVIOUS
<1>2. p \in Seq(Bytes) /\ Len(p) = n
  BY Parted
<1>3. Overwrite(old, p) = p \o q
  BY <1>2 DEF Overwrite
<1>4. q \in Seq(Bytes) /\ Len(q) = IF n > Len(old) THEN 0 ELSE Len(old) - n
  <2>1. CASE n <= Len(old)
    <3>1. n \in 0..Len(old)
      BY <1>1, <2>1
    <3>. QED
      BY <1>1, <2>1, <3>1, Parted
  <2>2. CASE n > Len(old)
    <3>. DEFINE m == n + 1
    <3>1. m \in Int /\ 1 <= m /\ Len(old) \in Int /\ Len(old) <= Len(old) /\ ~(m <= Len(old))
      BY <1>1, <2>2
    <3>2. q = SubSeq(old, m, Len(old))
      OBVIOUS
    <3>. HIDE DEF m, q
    <3>3. SubSeq(old, m, Len(old)) \in Seq(Bytes) /\ Len(SubSeq(old, m, Len(old))) = 0
      BY <3>1, PartTyped
    <3>. QED
      BY <2>2, <3>2, <3>3
  <2>. QED
    BY <1>1, <2>1, <2>2
<1>. HIDE DEF p, q
<1>5. Len(p \o q) = Len(p) + Len(q)
  BY <1>2, <1>4, ConcatProperties
<1>. QED
  BY <1>1, <1>2, <1>3, <1>4, <1>5 DEF p

\* What the entry shows of it.
LEMMA RecordedPart ==
  ASSUME NEW old \in Seq(Bytes), NEW f \in Seq(Bytes), NEW n \in 0..Len(f), NEW u \in 0..n
  PROVE  LET w == Recorded(old, SubSeq(f, 1, n), u)
         IN  /\ w \in Seq(Bytes)
             /\ n = Len(f) => IsPrefix(f, w) \/ (u # n /\ IsPrefix(w, f))
             /\ IsPrefix(f, old) => w = old
<1> DEFINE all == Overwrite(old, SubSeq(f, 1, n))
           m   == IF u > Len(old) THEN u ELSE Len(old)
           w   == SubSeq(all, 1, m)
<1>1. Len(f) \in Nat /\ n \in Nat /\ u \in Nat /\ Len(old) \in Nat /\ u <= n /\ n <= Len(f)
  OBVIOUS
<1>2. /\ all \in Seq(Bytes)
      /\ n = Len(f) => IsPrefix(f, all)
      /\ IsPrefix(f, old) => all = old
  BY Overwritten
<1>3. Len(all) \in Nat /\ Len(all) = IF n > Len(old) THEN n ELSE Len(old)
  BY OverwriteLength
<1>4. m \in 0..Len(all) /\ m \in Nat
  BY <1>1, <1>3
<1>5. Recorded(old, SubSeq(f, 1, n), u) = w
  BY DEF Recorded
<1>6. IsPrefix(f, old) => m = Len(old)
  BY <1>1 DEF IsPrefix
<1>7. n = Len(f) /\ u = n => m = Len(all)
  BY <1>1, <1>3
<1>. HIDE DEF all, m
<1>8. w \in Seq(Bytes) /\ Len(w) = m /\ \A i \in 1..m : w[i] = all[i]
  BY <1>2, <1>4, Parted
<1>9. ASSUME IsPrefix(f, old) PROVE w = old
  BY <1>2, <1>6, <1>9, NothingAndAll
<1>10. ASSUME n = Len(f), u = n PROVE IsPrefix(f, w)
  BY <1>2, <1>7, <1>10, NothingAndAll
<1>11. ASSUME n = Len(f) PROVE IsPrefix(f, w) \/ IsPrefix(w, f)
  <2>1. Len(f) <= Len(all) /\ SubSeq(f, 1, Len(f)) = SubSeq(all, 1, Len(f))
    BY <1>2, <1>11 DEF IsPrefix
  <2>2. f = SubSeq(all, 1, Len(f))
    BY <2>1, NothingAndAll
  <2>3. Len(f) \in 0..Len(all)
    BY <1>1, <2>1
  <2>4. ASSUME m <= Len(f) PROVE w = SubSeq(f, 1, m)
    <3>1. m \in 0..Len(f) /\ all \in Seq(Bytes)
      BY <1>1, <1>2, <1>4, <2>4
    <3>2. SubSeq(SubSeq(all, 1, Len(f)), 1, m) = SubSeq(all, 1, m)
      BY <2>3, <3>1, PartOfPart
    <3>. QED
      BY <2>2, <3>2, Zenon
  <2>5. ASSUME Len(f) <= m PROVE f = SubSeq(w, 1, Len(f))
    <3>1. Len(f) \in 0..m /\ all \in Seq(Bytes)
      BY <1>1, <1>2, <1>4, <2>5
    <3>2. SubSeq(SubSeq(all, 1, m), 1, Len(f)) = SubSeq(all, 1, Len(f))
      BY <1>4, <3>1, PartOfPart
    <3>. QED
      BY <2>2, <3>2, Zenon
  <2>6. CASE m <= Len(f)
    <3>1. SubSeq(w, 1, Len(w)) = w
      BY <1>8, NothingAndAll
    <3>. QED
      BY <1>8, <2>4, <2>6, <3>1 DEF IsPrefix
  <2>7. CASE Len(f) <= m
    <3>1. SubSeq(f, 1, Len(f)) = f
      BY NothingAndAll
    <3>. QED
      BY <1>8, <2>5, <2>7, <3>1 DEF IsPrefix
  <2>. QED
    BY <1>1, <1>4, <2>6, <2>7
<1>. QED
  BY <1>5, <1>8, <1>9, <1>10, <1>11

(***************************************************************************)
(* The invariant.                                                          *)
(***************************************************************************)
\* The cursor's line is on the screen, its column at most one past the right edge.
OnScreen ==
  /\ scroll_offset <= cursor_y /\ cursor_y < scroll_offset + visible_lines
  /\ lines[cursor_y + 1].h_scroll <= cursor_x
  /\ cursor_x <= lines[cursor_y + 1].h_scroll + VGA_WIDTH

TextInv ==
  /\ GoodLines(lines) /\ GoodCursor(lines, cursor_x, cursor_y)
  /\ scroll_offset \in 0..(EDITOR_MAX_LINES - 1)
  /\ Editing => OnScreen

\* Nothing typed since a complete load or save: the file begins with the text.
FileInv ==
  /\ file = NoFile \/ file \in Seq(Bytes)
  /\ mode \in {"command", "insert"}
  /\ editor_active \in BOOLEAN /\ in_command_line \in BOOLEAN /\ modified \in BOOLEAN
  /\ saved \in {"whole", "part", "unrecorded"} /\ broken \in BOOLEAN
  /\ Editing /\ ~modified /\ saved = "whole" => file # NoFile /\ IsPrefix(Flat(lines), file)

EditInv == TextInv /\ FileInv

\* What ModifiedIsHonest says of one step.
HonestStep ==
  Editing => /\ modified /\ ~modified' =>
                  /\ file' # NoFile
                  /\ \/ IsPrefix(Flat(lines), file')
                     \/ saved' = "unrecorded" /\ IsPrefix(file', Flat(lines))
             /\ ~modified /\ saved = "whole" => file' = file

LEMMA TextIs ==
  /\ editor_active  => before  = Before(lines, cursor_x, cursor_y) /\ after = After(lines, cursor_x, cursor_y)
  /\ editor_active' => before' = Before(lines', cursor_x', cursor_y')
                       /\ after' = After(lines', cursor_x', cursor_y')
  /\ ~editor_active  => before = <<>> /\ after = <<>>
  /\ ~editor_active' => before' = <<>> /\ after' = <<>>
<1>1. editor_active => before = Before(lines, cursor_x, cursor_y) /\ after = After(lines, cursor_x, cursor_y)
  BY DEF before, after, above, below, TextAt, LengthAt, Before, After, Above, Behind
<1>2. editor_active' => before' = Before(lines', cursor_x', cursor_y')
                        /\ after' = After(lines', cursor_x', cursor_y')
  BY DEF before, after, above, below, TextAt, LengthAt, Before, After, Above, Behind
<1>3. /\ ~editor_active  => before = <<>> /\ after = <<>>
      /\ ~editor_active' => before' = <<>> /\ after' = <<>>
  BY DEF before, after
<1>. QED
  BY <1>1, <1>2, <1>3

(***************************************************************************)
(* The steps.                                                              *)
(***************************************************************************)
\* Every handler that does not leave the editor ends by drawing the screen.
LEMMA Drawn ==
  ASSUME TextInv, NEW ls, NEW x, NEW y, GoodLines(ls), GoodCursor(ls, x, y), editor_render(ls, x, y)
  PROVE  /\ TextInv'
         /\ editor_active' => before' = Before(ls, x, y) /\ after' = After(ls, x, y)
         /\ Flat(lines') = Flat(ls)
<1>1. /\ GoodLines(lines') /\ SameText(lines', ls) /\ GoodCursor(lines', x, y)
      /\ cursor_x' = x /\ cursor_y' = y
      /\ scroll_offset' \in 0..(EDITOR_MAX_LINES - 1)
      /\ scroll_offset' <= y /\ y < scroll_offset' + visible_lines
      /\ lines'[y + 1].h_scroll <= x /\ x <= lines'[y + 1].h_scroll + VGA_WIDTH
  BY Rendered DEF TextInv
<1>2. visible_lines' = visible_lines
  BY DEF visible_lines
<1>3. TextInv'
  BY <1>1, <1>2 DEF TextInv, OnScreen, GoodLines, GoodCursor, LineType
<1>4. Before(lines', x, y) = Before(ls, x, y) /\ After(lines', x, y) = After(ls, x, y)
  BY <1>1, AroundSame
<1>5. Flat(lines') = Flat(ls)
  BY <1>1, FlatSame
<1>. QED
  BY <1>1, <1>3, <1>4, <1>5, TextIs

\* A key that moves the cursor, or does nothing, or changes the mode.
LEMMA StepMoved ==
  ASSUME EditInv, Editing, NEW x, NEW y, GoodCursor(lines, x, y),
         y = cursor_y \/ y = cursor_y + 1 \/ cursor_y = y + 1,
         editor_render(lines, x, y),
         UNCHANGED <<file, editor_active, modified, saved, broken>>,
         mode' \in {"command", "insert"}, in_command_line' \in BOOLEAN
  PROVE  EditInv' /\ HonestStep /\ Buffer!Move
<1>1. TextInv /\ FileInv /\ GoodLines(lines) /\ GoodCursor(lines, cursor_x, cursor_y)
  BY DEF EditInv, TextInv
<1>2. /\ TextInv'
      /\ editor_active' => before' = Before(lines, x, y) /\ after' = After(lines, x, y)
      /\ Flat(lines') = Flat(lines)
  BY <1>1, Drawn
<1>3. FileInv'
  BY <1>1, <1>2 DEF FileInv, Editing
<1>4. HonestStep
  BY DEF HonestStep
<1>5. Before(lines, x, y) \o After(lines, x, y)
        = Before(lines, cursor_x, cursor_y) \o After(lines, cursor_x, cursor_y)
  BY <1>1, Moved
<1>6. editor_active /\ editor_active' = editor_active /\ broken' = broken
  BY DEF Editing
<1>7. before' \o after' = before \o after
  BY <1>2, <1>5, <1>6, TextIs
<1>8. Buffer!Move
  BY <1>6, <1>7 DEF Buffer!Move
<1>. QED
  BY <1>2, <1>3, <1>4, <1>8 DEF EditInv

\* A key that changes the text.
LEMMA StepEdited ==
  ASSUME EditInv, Editing, NEW ls, NEW x, NEW y, GoodLines(ls), GoodCursor(ls, x, y),
         editor_render(ls, x, y), Edited
  PROVE  /\ EditInv' /\ HonestStep
         /\ before' = Before(ls, x, y) /\ after' = After(ls, x, y)
         /\ editor_active /\ editor_active' /\ broken' = broken
<1>1. TextInv /\ FileInv
  BY DEF EditInv
<1>2. TextInv' /\ before' = Before(ls, x, y) /\ after' = After(ls, x, y)
  BY <1>1, Drawn DEF Editing, Edited
<1>3. FileInv'
  BY <1>1 DEF FileInv, Editing, Edited
<1>. QED
  BY <1>2, <1>3 DEF EditInv, HonestStep, Editing, Edited

\* Opening puts the cursor at the start of what was loaded.
LEMMA StepOpened ==
  ASSUME EditInv, editor_open
  PROVE  EditInv' /\ HonestStep /\ Buffer!Open
<1> DEFINE ls == IF file = NoFile THEN <<Line(<<>>)>> ELSE editor_load_from_file(file)
<1>1. /\ ~editor_active /\ ~broken /\ editor_active' = TRUE
      /\ lines' = [ls EXCEPT ![1].h_scroll = 0]
      /\ cursor_x' = 0 /\ cursor_y' = 0 /\ scroll_offset' = 0
      /\ mode' = "command" /\ modified' = FALSE
      /\ saved' = IF file # NoFile /\ file = Flat(ls) THEN "whole" ELSE "part"
      /\ file' = file /\ in_command_line' = in_command_line /\ broken' = broken
  BY DEF editor_open
<1>2. FileInv /\ (file = NoFile \/ file \in Seq(Bytes))
  BY DEF EditInv, FileInv
<1>3. GoodLines(ls)
  BY <1>2, EmptyLine, Loaded
<1>. HIDE DEF ls
<1>4. 1 \in 1..Len(ls) /\ 0 \in 0..EDITOR_LINE_LENGTH
  BY <1>3, SizesTyped DEF GoodLines
<1>5. GoodLines(lines') /\ SameText(lines', ls) /\ lines'[1].h_scroll = 0
  <2>. DEFINE one == 1
              ms  == [ls EXCEPT ![one].h_scroll = 0]
  <2>1. lines' = ms /\ one \in 1..Len(ls)
    BY <1>1, <1>4
  <2>. HIDE DEF one
  <2>2. GoodLines(ms) /\ SameText(ms, ls) /\ ms[one].h_scroll = 0
    BY <1>3, <1>4, <2>1, ScrollChanged, ZenonT(30)
  <2>. HIDE DEF ms
  <2>. QED
    BY <2>1, <2>2 DEF one
<1>6. GoodCursor(lines', 0, 0) /\ lines'[1].text \in Seq(Bytes)
  <2>1. 1 \in 1..Len(lines') /\ 0 \in 0..(Len(lines') - 1)
    BY <1>5, SizesTyped DEF GoodLines
  <2>2. Len(lines'[1].text) \in Nat /\ lines'[1].text \in Seq(Bytes)
    BY <1>5, <2>1, TextOfLine
  <2>. QED
    BY <2>1, <2>2 DEF GoodCursor
<1>7. TextInv'
  <2>1. OnScreen'
    <3>1. 0 <= 0 /\ 0 < 0 + visible_lines /\ 0 <= 0 + VGA_WIDTH
      BY SizesTyped
    <3>. QED
      BY <1>1, <1>5, <3>1 DEF OnScreen, visible_lines
  <2>2. scroll_offset' \in 0..(EDITOR_MAX_LINES - 1)
    BY <1>1, SizesTyped
  <2>. QED
    BY <1>1, <1>5, <1>6, <2>1, <2>2 DEF TextInv, GoodLines, GoodCursor, LineType
<1>8. FileInv'
  <2>1. Flat(lines') = Flat(ls)
    BY <1>3, <1>5, FlatSame
  <2>2. ASSUME saved' = "whole" PROVE file' # NoFile /\ IsPrefix(Flat(lines'), file')
    <3>1. file' # NoFile /\ file' = Flat(lines')
      BY <1>1, <2>1, <2>2
    <3>. DEFINE f == Flat(lines')
    <3>2. f \in Seq(Bytes)
      BY <1>5, FlatIs
    <3>. HIDE DEF f
    <3>3. IsPrefix(f, f)
      BY <3>2 DEF IsPrefix
    <3>. QED
      BY <3>1, <3>3 DEF f
  <2>3. saved' \in {"whole", "part", "unrecorded"}
    BY <1>1
  <2>4. Flat(lines)' = Flat(lines')
    BY DEF Flat
  <2>. QED
    BY <1>1, <1>2, <2>2, <2>3, <2>4 DEF FileInv
<1>9. Buffer!Open
  <2>1. before' = Before(lines', 0, 0) /\ after' = After(lines', 0, 0)
    BY <1>1, TextIs
  <2>2. after' \in Seq(Bytes)
    BY <1>5, <1>6, <2>1, AroundTyped
  <2>3. Before(lines', 0, 0) = <<>>
    <3>1. SubSeq(lines'[1].text, 1, 0) = <<>> /\ Above(lines', 0) = <<>>
      BY <1>6, NothingAndAll, AboveFirst
    <3>2. <<>> \o <<>> = <<>>
      OBVIOUS
    <3>. QED
      BY <3>1, <3>2 DEF Before
  <2>. QED
    BY <1>1, <2>1, <2>2, <2>3 DEF Buffer!Open
<1>. QED
  BY <1>1, <1>7, <1>8, <1>9 DEF EditInv, HonestStep, Editing

\* What a save, complete or not, does to the file.
LEMMA StepSaved ==
  ASSUME EditInv, Editing, editor_save
  PROVE  /\ file' = NoFile \/ file' \in Seq(Bytes)
         /\ modified' \in BOOLEAN /\ saved' \in {"whole", "part", "unrecorded"}
         /\ HonestStep
         /\ ~modified' /\ saved' = "whole" => file' # NoFile /\ IsPrefix(Flat(lines), file')
<1> DEFINE old == IF file = NoFile THEN <<>> ELSE file
           f == Flat(lines)
<1>1. /\ file = NoFile \/ file \in Seq(Bytes)
      /\ modified \in BOOLEAN /\ saved \in {"whole", "part", "unrecorded"}
      /\ ~modified /\ saved = "whole" => file # NoFile /\ IsPrefix(f, file)
      /\ GoodLines(lines)
  BY DEF EditInv, FileInv, TextInv
<1>2. f \in Seq(Bytes) /\ Len(f) \in Nat
  BY <1>1, FlatIs
<1>3. old \in Seq(Bytes)
  BY <1>1
<1>4. CASE UNCHANGED <<file, modified, saved>>
  BY <1>1, <1>4 DEF HonestStep
<1>5. ASSUME NEW n \in 0..Len(f), NEW u \in 0..n,
             file' = Recorded(old, SubSeq(f, 1, n), u),
             IF n = Len(f) THEN modified' = FALSE /\ saved' = IF u = n THEN "whole" ELSE "unrecorded"
             ELSE UNCHANGED <<modified, saved>>
      PROVE  /\ file' \in Seq(Bytes)
             /\ modified' \in BOOLEAN /\ saved' \in {"whole", "part", "unrecorded"}
             /\ HonestStep
             /\ ~modified' /\ saved' = "whole" => file' # NoFile /\ IsPrefix(f, file')
  <2>1. /\ file' \in Seq(Bytes)
        /\ n = Len(f) => IsPrefix(f, file') \/ (u # n /\ IsPrefix(file', f))
        /\ IsPrefix(f, old) => file' = old
    <3>. HIDE DEF old, f
    <3>1. /\ Recorded(old, SubSeq(f, 1, n), u) \in Seq(Bytes)
          /\ n = Len(f) => \/ IsPrefix(f, Recorded(old, SubSeq(f, 1, n), u))
                           \/ u # n /\ IsPrefix(Recorded(old, SubSeq(f, 1, n), u), f)
          /\ IsPrefix(f, old) => Recorded(old, SubSeq(f, 1, n), u) = old
      BY <1>2, <1>3, RecordedPart
    <3>2. file' = Recorded(old, SubSeq(f, 1, n), u)
      BY <1>5
    <3>. QED
      BY <3>1, <3>2, Zenon
  <2>2. file' # NoFile
    BY <2>1, SizesTyped
  <2>3. ~modified /\ saved = "whole" => file' = file /\ IsPrefix(f, file')
    BY <1>1, <2>1
  <2>4. modified' \in BOOLEAN /\ saved' \in {"whole", "part", "unrecorded"}
    BY <1>1, <1>5
  <2>5. modified /\ ~modified' =>
          IsPrefix(f, file') \/ (saved' = "unrecorded" /\ IsPrefix(file', f))
    BY <1>5, <2>1
  <2>6. ~modified' /\ saved' = "whole" => IsPrefix(f, file')
    BY <1>5, <2>1, <2>3
  <2>. QED
    BY <2>1, <2>2, <2>3, <2>4, <2>5, <2>6 DEF HonestStep
<1>6. CASE ~UNCHANGED <<file, modified, saved>>
  <2>1. PICK n \in 0..Len(f) : \E u \in EndsOfLines(lines) \cap (0..n) :
             /\ file' = Recorded(old, SubSeq(f, 1, n), u)
             /\ IF n = Len(f)
                THEN modified' = FALSE /\ saved' = IF u = n THEN "whole" ELSE "unrecorded"
                ELSE UNCHANGED <<modified, saved>>
    BY <1>6 DEF editor_save
  <2>2. PICK u \in EndsOfLines(lines) \cap (0..n) :
             /\ file' = Recorded(old, SubSeq(f, 1, n), u)
             /\ IF n = Len(f)
                THEN modified' = FALSE /\ saved' = IF u = n THEN "whole" ELSE "unrecorded"
                ELSE UNCHANGED <<modified, saved>>
    BY <2>1
  <2>3. u \in 0..n
    BY <2>2
  <2>. HIDE DEF old, f
  <2>. QED
    BY <1>5, <2>2, <2>3 DEF f
<1>. QED
  BY <1>4, <1>6

\* Leaving the editor, with or without saving, and every other command.
LEMMA StepCommand ==
  ASSUME EditInv, NEW c \in {"w", "q", "wq", "other"}, enter_command(c)
  PROVE  EditInv' /\ HonestStep /\ (Buffer!Move \/ Buffer!Close)
<1>1. /\ Editing /\ in_command_line' = FALSE /\ mode' = mode /\ broken' = broken
      /\ IF c \in {"w", "wq"} THEN editor_save ELSE UNCHANGED <<file, modified, saved>>
      /\ IF c \in {"q", "wq"} THEN editor_active' = FALSE /\ UNCHANGED buffer
         ELSE Redraw /\ UNCHANGED editor_active
  BY DEF enter_command
<1>2. /\ TextInv /\ FileInv /\ GoodLines(lines) /\ GoodCursor(lines, cursor_x, cursor_y)
      /\ editor_active /\ ~broken
  BY <1>1 DEF EditInv, TextInv, Editing
<1>3. /\ file' = NoFile \/ file' \in Seq(Bytes)
      /\ modified' \in BOOLEAN /\ saved' \in {"whole", "part", "unrecorded"}
      /\ HonestStep
      /\ ~modified' /\ saved' = "whole" => file' # NoFile /\ IsPrefix(Flat(lines), file')
  <2>1. CASE c \in {"w", "wq"}
    BY <1>1, <2>1, StepSaved
  <2>2. CASE c \notin {"w", "wq"}
    BY <1>1, <1>2, <2>2 DEF FileInv, HonestStep
  <2>. QED
    BY <2>1, <2>2
<1>4. CASE c \in {"q", "wq"}
  <2>1. editor_active' = FALSE /\ UNCHANGED buffer
    BY <1>1, <1>4
  <2>2. TextInv'
    BY <1>2, <2>1 DEF TextInv, GoodLines, GoodCursor, LineType, buffer, Editing
  <2>3. FileInv'
    BY <1>1, <1>2, <1>3, <2>1 DEF FileInv, Editing
  <2>4. Buffer!Close
    BY <1>1, <1>2, <2>1, TextIs DEF Buffer!Close
  <2>. QED
    BY <1>3, <2>2, <2>3, <2>4 DEF EditInv
<1>5. CASE c \notin {"q", "wq"}
  <2>1. editor_render(lines, cursor_x, cursor_y) /\ editor_active' = editor_active
    BY <1>1, <1>5 DEF Redraw
  <2>2. /\ TextInv' /\ before' = Before(lines, cursor_x, cursor_y)
        /\ after' = After(lines, cursor_x, cursor_y) /\ Flat(lines') = Flat(lines)
    BY <1>2, <2>1, Drawn
  <2>3. FileInv'
    <3>1. Flat(lines)' = Flat(lines')
      BY DEF Flat
    <3>. QED
      BY <1>1, <1>2, <1>3, <2>1, <2>2, <3>1 DEF FileInv, Editing
  <2>4. Buffer!Move
    BY <1>1, <1>2, <2>1, <2>2, TextIs DEF Buffer!Move
  <2>. QED
    BY <1>3, <2>2, <2>3, <2>4 DEF EditInv
<1>. QED
  BY <1>4, <1>5

\* Where an arrow key may put the cursor.
LEMMA Places ==
  ASSUME EditInv
  PROVE  /\ GoodLines(lines) /\ GoodCursor(lines, cursor_x, cursor_y)
         /\ GoodCursor(lines, IF cursor_x > 0 THEN cursor_x - 1 ELSE 0, cursor_y)
         /\ GoodCursor(lines, IF cursor_x < LengthAt(lines, cursor_y) THEN cursor_x + 1
                              ELSE cursor_x, cursor_y)
         /\ cursor_y > 0 => GoodCursor(lines, Clamped(cursor_y - 1), cursor_y - 1)
         /\ cursor_y < Len(lines) - 1 => GoodCursor(lines, Clamped(cursor_y + 1), cursor_y + 1)
<1>1. GoodLines(lines) /\ GoodCursor(lines, cursor_x, cursor_y)
  BY DEF EditInv, TextInv
<1> DEFINE x == cursor_x
           y == cursor_y
<1>. HIDE DEF x, y
<1>2. GoodCursor(lines, x, y)
  BY <1>1 DEF x, y
<1>3. /\ Len(lines) \in Nat /\ y \in Nat /\ y \in 0..(Len(lines) - 1) /\ x \in Nat
      /\ y + 1 \in 1..Len(lines) /\ x <= Len(lines[y + 1].text) /\ Len(lines[y + 1].text) \in Nat
  <2>1. y \in 0..(Len(lines) - 1)
    BY <1>2 DEF GoodCursor
  <2>. QED
    BY <1>1, <1>2, <2>1, CursorTyped
<1>4. GoodCursor(lines, IF x > 0 THEN x - 1 ELSE 0, y)
  BY <1>3 DEF GoodCursor
<1>5. GoodCursor(lines, IF x < Len(lines[y + 1].text) THEN x + 1 ELSE x, y)
  BY <1>3 DEF GoodCursor
<1>6. ASSUME NEW z \in 0..(Len(lines) - 1)
      PROVE  GoodCursor(lines, Clamped(z), z)
  <2>1. z + 1 \in 1..Len(lines)
    BY <1>3
  <2>2. Len(lines[z + 1].text) \in Nat
    BY <1>1, <2>1, TextOfLine
  <2>3. Clamped(z) \in 0..Len(lines[z + 1].text)
    BY <1>3, <2>2 DEF Clamped, LengthAt, TextAt, x
  <2>. QED
    BY <2>3 DEF GoodCursor
<1>7. y > 0 => GoodCursor(lines, Clamped(y - 1), y - 1)
  <2>1. y > 0 => y - 1 \in 0..(Len(lines) - 1)
    BY <1>3
  <2>. QED
    BY <1>6, <2>1
<1>8. y < Len(lines) - 1 => GoodCursor(lines, Clamped(y + 1), y + 1)
  <2>1. y < Len(lines) - 1 => y + 1 \in 0..(Len(lines) - 1)
    BY <1>3
  <2>. QED
    BY <1>6, <2>1
<1>. QED
  BY <1>1, <1>4, <1>5, <1>7, <1>8 DEF x, y, LengthAt, TextAt

\* A key that only draws.
LEMMA StepRedrawn ==
  ASSUME EditInv, Editing, Redraw,
         UNCHANGED <<file, editor_active, modified, saved, broken>>,
         mode' \in {"command", "insert"}, in_command_line' \in BOOLEAN
  PROVE  EditInv' /\ HonestStep /\ Buffer!Move
<1>1. editor_render(lines, cursor_x, cursor_y) /\ GoodCursor(lines, cursor_x, cursor_y)
  BY Places DEF Redraw
<1>. QED
  BY <1>1, StepMoved

LEMMA RestTyped ==
  ASSUME EditInv, Rest
  PROVE  /\ UNCHANGED <<file, editor_active, modified, saved, broken>>
         /\ mode' \in {"command", "insert"} /\ in_command_line' \in BOOLEAN
  BY DEF EditInv, FileInv, Rest

LEMMA StepArrow ==
  ASSUME EditInv, key_left \/ key_right \/ key_up \/ key_down
  PROVE  EditInv' /\ HonestStep /\ Buffer!Move
<1>1. Editing /\ Rest
  BY DEF key_left, key_right, key_up, key_down
<1>2. /\ UNCHANGED <<file, editor_active, modified, saved, broken>>
      /\ mode' \in {"command", "insert"} /\ in_command_line' \in BOOLEAN
  BY <1>1, RestTyped
<1>3. CASE Redraw
  BY <1>1, <1>2, <1>3, StepRedrawn
<1>4. CASE key_left
  <2> DEFINE x == IF cursor_x > 0 THEN cursor_x - 1 ELSE 0
  <2>1. GoodCursor(lines, x, cursor_y) /\ editor_render(lines, x, cursor_y)
    BY <1>4, Places DEF key_left
  <2>. HIDE DEF x
  <2>. QED
    BY <1>1, <1>2, <2>1, StepMoved
<1>5. CASE key_right
  <2> DEFINE x == IF cursor_x < LengthAt(lines, cursor_y) THEN cursor_x + 1 ELSE cursor_x
  <2>1. GoodCursor(lines, x, cursor_y) /\ editor_render(lines, x, cursor_y)
    BY <1>5, Places DEF key_right
  <2>. HIDE DEF x
  <2>. QED
    BY <1>1, <1>2, <2>1, StepMoved
<1>6. CASE key_up /\ cursor_y > 0
  <2> DEFINE y == cursor_y - 1
             x == Clamped(y)
  <2>1. GoodCursor(lines, x, y) /\ editor_render(lines, x, y)
    BY <1>6, Places DEF key_up
  <2>2. cursor_y = y + 1
    BY Places, CursorTyped
  <2>. HIDE DEF x, y
  <2>. QED
    BY <1>1, <1>2, <2>1, <2>2, StepMoved
<1>7. CASE key_down /\ cursor_y < Len(lines) - 1
  <2> DEFINE y == cursor_y + 1
             x == Clamped(y)
  <2>1. GoodCursor(lines, x, y) /\ editor_render(lines, x, y)
    BY <1>7, Places DEF key_down
  <2>2. y = cursor_y + 1
    OBVIOUS
  <2>. HIDE DEF x, y
  <2>. QED
    BY <1>1, <1>2, <2>1, <2>2, StepMoved
<1>. QED
  BY <1>3, <1>4, <1>5, <1>6, <1>7 DEF key_up, key_down

LEMMA StepInserted ==
  ASSUME EditInv, NEW c \in Chars, editor_insert_char(c)
  PROVE  EditInv' /\ HonestStep /\ (Buffer!Move \/ Buffer!Insert(c))
<1> DEFINE t  == lines[cursor_y + 1].text
           ms == [lines EXCEPT ![cursor_y + 1].text =
                    SubSeq(t, 1, cursor_x) \o <<c>> \o SubSeq(t, cursor_x + 1, Len(t))]
           x  == cursor_x + 1
<1>1. /\ Editing
      /\ IF Len(t) >= EDITOR_LINE_LENGTH - 1 THEN Redraw /\ Rest
         ELSE editor_render(ms, x, cursor_y) /\ Edited
  BY DEF editor_insert_char, Typing, TextAt
<1>2. /\ GoodLines(lines) /\ GoodCursor(lines, cursor_x, cursor_y)
      /\ Len(t) \in Nat /\ EDITOR_LINE_LENGTH \in Nat
  BY Places, CursorTyped, SizesTyped
<1>3. CASE Len(t) >= EDITOR_LINE_LENGTH - 1
  BY <1>1, <1>3, RestTyped, StepRedrawn
<1>4. CASE ~(Len(t) >= EDITOR_LINE_LENGTH - 1)
  <2>1. Len(t) < EDITOR_LINE_LENGTH - 1
    BY <1>2, <1>4
  <2>2. /\ GoodLines(ms) /\ GoodCursor(ms, x, cursor_y)
        /\ Before(ms, x, cursor_y) = Append(Before(lines, cursor_x, cursor_y), c)
        /\ After(ms, x, cursor_y) = After(lines, cursor_x, cursor_y)
    BY <1>2, <2>1, Inserted
  <2>3. editor_render(ms, x, cursor_y) /\ Edited
    BY <1>1, <1>4
  <2>. HIDE DEF ms, x
  <2>4. /\ EditInv' /\ HonestStep
        /\ before' = Before(ms, x, cursor_y) /\ after' = After(ms, x, cursor_y)
        /\ editor_active /\ editor_active' /\ broken' = broken
    BY <1>1, <2>2, <2>3, StepEdited
  <2>5. editor_active' = editor_active
    BY <2>3 DEF Edited
  <2>. QED
    BY <2>2, <2>4, <2>5, TextIs DEF Buffer!Insert
<1>. QED
  BY <1>3, <1>4

LEMMA StepDeleted ==
  ASSUME EditInv, delete_in_line
  PROVE  EditInv' /\ HonestStep /\ Buffer!Backspace
<1> DEFINE t  == lines[cursor_y + 1].text
           ms == [lines EXCEPT ![cursor_y + 1].text =
                    SubSeq(t, 1, cursor_x - 1) \o SubSeq(t, cursor_x + 1, Len(t))]
           x  == cursor_x - 1
           b  == Before(lines, cursor_x, cursor_y)
<1>1. Editing /\ cursor_x > 0 /\ editor_render(ms, x, cursor_y) /\ Edited
  BY DEF delete_in_line, Typing, TextAt
<1>2. GoodLines(lines) /\ GoodCursor(lines, cursor_x, cursor_y)
  BY Places
<1>3. /\ GoodLines(ms) /\ GoodCursor(ms, x, cursor_y)
      /\ b # <<>> /\ Before(ms, x, cursor_y) = SubSeq(b, 1, Len(b) - 1)
      /\ After(ms, x, cursor_y) = After(lines, cursor_x, cursor_y)
  BY <1>1, <1>2, Deleted
<1>. HIDE DEF ms, x
<1>4. /\ EditInv' /\ HonestStep
      /\ before' = Before(ms, x, cursor_y) /\ after' = After(ms, x, cursor_y)
      /\ editor_active /\ editor_active' /\ broken' = broken
  BY <1>1, <1>3, StepEdited
<1>5. editor_active' = editor_active /\ before = b /\ after = After(lines, cursor_x, cursor_y)
  BY <1>1, <1>4, TextIs DEF Edited
<1>. HIDE DEF b
<1>. QED
  BY <1>3, <1>4, <1>5 DEF Buffer!Backspace

LEMMA StepJoined ==
  ASSUME EditInv, join_lines
  PROVE  EditInv' /\ HonestStep /\ (Buffer!Move \/ Buffer!Backspace \/ Buffer!Overrun)
<1> DEFINE y    == cursor_y
           text == lines[y].text \o lines[y + 1].text
           ms   == RemoveAt([lines EXCEPT ![y].text = text], y + 1)
           n    == Len(lines[y].text)
           b    == Before(lines, 0, y)
<1>1. /\ Editing /\ cursor_x = 0
      /\ IF y = 0 THEN Redraw /\ Rest
         ELSE IF Len(text) > EDITOR_LINE_LENGTH
         THEN broken' = TRUE
              /\ UNCHANGED <<buffer, file, editor_active, mode, in_command_line, modified, saved>>
         ELSE editor_render(ms, n, y - 1) /\ Edited
  BY DEF join_lines, Typing, TextAt
<1>2. /\ GoodLines(lines) /\ GoodCursor(lines, 0, y) /\ y \in Nat /\ Len(lines) \in Nat
      /\ y \in 0..(Len(lines) - 1)
  <2>1. GoodLines(lines) /\ GoodCursor(lines, 0, y)
    BY <1>1, Places
  <2>2. y \in Nat /\ Len(lines) \in Nat
    BY <2>1, CursorTyped
  <2>. QED
    BY <2>1, <2>2 DEF GoodCursor
<1>3. CASE y = 0
  BY <1>1, <1>3, RestTyped, StepRedrawn
<1>4. CASE y # 0 /\ Len(text) > EDITOR_LINE_LENGTH
  <2>1. /\ broken' = TRUE
        /\ UNCHANGED <<buffer, file, editor_active, mode, in_command_line, modified, saved>>
    BY <1>1, <1>4
  <2>2. TextInv' /\ FileInv'
    BY <2>1 DEF EditInv, TextInv, FileInv, GoodLines, GoodCursor, LineType, buffer, Editing
  <2>3. before' = before /\ after' = after
    BY <1>1, <2>1, TextIs DEF buffer, Editing
  <2>. QED
    BY <1>1, <2>1, <2>2, <2>3 DEF EditInv, HonestStep, Buffer!Overrun, Editing
<1>5. CASE y # 0 /\ ~(Len(text) > EDITOR_LINE_LENGTH)
  <2>1. y > 0 /\ Len(lines[y].text \o lines[y + 1].text) <= EDITOR_LINE_LENGTH
    <3>1. y \in 1..Len(lines) /\ y + 1 \in 1..Len(lines)
      BY <1>2, <1>5
    <3>2. lines[y].text \in Seq(Chars) /\ lines[y + 1].text \in Seq(Chars)
      BY <1>2, <3>1, TextOfLine
    <3>. DEFINE p == lines[y].text
                q == lines[y + 1].text
    <3>3. text = p \o q /\ p \in Seq(Chars) /\ q \in Seq(Chars)
      BY <3>2
    <3>4. y > 0
      BY <1>2, <1>5
    <3>. HIDE DEF p, q, text, y
    <3>5. text \in Seq(Chars)
      BY <3>3
    <3>6. Len(text) \in Nat
      BY <3>5
    <3>7. Len(text) <= EDITOR_LINE_LENGTH
      BY <1>5, <3>6, SizesTyped
    <3>. QED
      BY <3>4, <3>7 DEF text
  <2>2. /\ GoodLines(ms) /\ GoodCursor(ms, n, y - 1)
        /\ b # <<>> /\ Before(ms, n, y - 1) = SubSeq(b, 1, Len(b) - 1)
        /\ After(ms, n, y - 1) = After(lines, 0, y)
    <3>. HIDE DEF y
    <3>. QED
      BY <1>2, <2>1, Joined
  <2>. DEFINE z == y - 1
  <2>3. editor_render(ms, n, z) /\ Edited
    BY <1>1, <1>5
  <2>4. /\ GoodLines(ms) /\ GoodCursor(ms, n, z) /\ b # <<>>
        /\ Before(ms, n, z) = SubSeq(b, 1, Len(b) - 1) /\ After(ms, n, z) = After(lines, 0, y)
    BY <2>2
  <2>. HIDE DEF ms, n, z
  <2>5. /\ EditInv' /\ HonestStep
        /\ before' = Before(ms, n, z) /\ after' = After(ms, n, z)
        /\ editor_active /\ editor_active' /\ broken' = broken
    BY <1>1, <2>3, <2>4, StepEdited
  <2>6. editor_active' = editor_active /\ before = b /\ after = After(lines, 0, y)
    BY <1>1, <2>3, <2>5, TextIs DEF Edited
  <2>. HIDE DEF b
  <2>. QED
    BY <2>4, <2>5, <2>6 DEF Buffer!Backspace
<1>. QED
  BY <1>3, <1>4, <1>5

LEMMA StepDivided ==
  ASSUME EditInv, editor_new_line
  PROVE  EditInv' /\ HonestStep /\ (Buffer!Move \/ Buffer!Insert(NL))
<1> DEFINE t  == lines[cursor_y + 1].text
           ms == InsertAt([lines EXCEPT ![cursor_y + 1].text = SubSeq(t, 1, cursor_x)],
                          cursor_y + 2, Line(SubSeq(t, cursor_x + 1, Len(t))))
           y  == cursor_y + 1
<1>1. /\ Editing
      /\ IF Len(lines) >= EDITOR_MAX_LINES THEN Redraw /\ Rest
         ELSE editor_render(ms, 0, y) /\ Edited
  BY DEF editor_new_line, Typing, TextAt
<1>2. /\ GoodLines(lines) /\ GoodCursor(lines, cursor_x, cursor_y)
      /\ Len(lines) \in Nat /\ EDITOR_MAX_LINES \in Nat
  BY Places, CursorTyped, SizesTyped
<1>3. CASE Len(lines) >= EDITOR_MAX_LINES
  BY <1>1, <1>3, RestTyped, StepRedrawn
<1>4. CASE ~(Len(lines) >= EDITOR_MAX_LINES)
  <2>1. Len(lines) < EDITOR_MAX_LINES
    BY <1>2, <1>4
  <2>2. /\ GoodLines(ms) /\ GoodCursor(ms, 0, y)
        /\ Before(ms, 0, y) = Append(Before(lines, cursor_x, cursor_y), NL)
        /\ After(ms, 0, y) = After(lines, cursor_x, cursor_y)
    BY <1>2, <2>1, Divided
  <2>3. editor_render(ms, 0, y) /\ Edited
    BY <1>1, <1>4
  <2>. HIDE DEF ms, y
  <2>4. /\ EditInv' /\ HonestStep
        /\ before' = Before(ms, 0, y) /\ after' = After(ms, 0, y)
        /\ editor_active /\ editor_active' /\ broken' = broken
    BY <1>1, <2>2, <2>3, StepEdited
  <2>5. editor_active' = editor_active
    BY <2>3 DEF Edited
  <2>. QED
    BY <2>2, <2>4, <2>5, TextIs DEF Buffer!Insert
<1>. QED
  BY <1>3, <1>4

LEMMA StartsRight == Init => EditInv /\ Buffer!Init
<1> SUFFICES ASSUME Init PROVE EditInv /\ Buffer!Init
  OBVIOUS
<1>1. /\ file \in {NoFile} \cup BoundedSeq(Bytes, MaxFile)
      /\ editor_active = FALSE
      /\ lines = <<Line(<<>>)>> /\ cursor_x = 0 /\ cursor_y = 0 /\ scroll_offset = 0
      /\ mode = "command" /\ in_command_line = FALSE /\ modified = FALSE
      /\ saved = "part" /\ broken = FALSE
  BY DEF Init
<1>2. file = NoFile \/ file \in Seq(Bytes)
  BY <1>1, EditorAssumption DEF BoundedSeq, SeqOf
<1>3. GoodLines(lines)
  BY <1>1, EmptyLine
<1>4. GoodCursor(lines, 0, 0)
  <2>1. 1 \in 1..Len(lines) /\ 0 \in 0..(Len(lines) - 1)
    BY <1>3, SizesTyped DEF GoodLines
  <2>2. Len(lines[1].text) \in Nat
    BY <1>3, <2>1, TextOfLine
  <2>. QED
    BY <2>1, <2>2 DEF GoodCursor
<1>5. TextInv
  BY <1>1, <1>3, <1>4, SizesTyped DEF TextInv, Editing
<1>6. FileInv
  BY <1>1, <1>2 DEF FileInv, Editing
<1>7. Buffer!Init
  BY <1>1, TextIs DEF Buffer!Init
<1>. QED
  BY <1>5, <1>6, <1>7 DEF EditInv

\* Every step keeps the invariant, is honest about the file, and is a step of the text, or none.
LEMMA StepKeeps ==
  ASSUME EditInv, [Next]_vars
  PROVE  EditInv' /\ (HonestStep \/ UNCHANGED vars) /\ [Buffer!Next]_(Buffer!vars)
<1>1. CASE UNCHANGED vars
  <2>1. EditInv'
    BY <1>1 DEF EditInv, TextInv, FileInv, OnScreen, GoodLines, GoodCursor, LineType, vars, buffer,
                Editing, Flat, visible_lines
  <2>2. before' = before /\ after' = after
    BY <1>1, TextIs DEF EditInv, FileInv, vars, buffer
  <2>. QED
    BY <1>1, <2>1, <2>2 DEF Buffer!vars, vars
<1>2. CASE editor_open
  BY <1>2, StepOpened DEF Buffer!Next
<1>3. CASE key_left \/ key_right \/ key_up \/ key_down
  BY <1>3, StepArrow DEF Buffer!Next
<1>4. ASSUME NEW c \in Chars, editor_insert_char(c)
      PROVE  EditInv' /\ HonestStep /\ Buffer!Next
  <2>1. c \in Bytes
    BY DEF Bytes
  <2>. QED
    BY <1>4, <2>1, StepInserted DEF Buffer!Next
<1>5. CASE delete_in_line
  BY <1>5, StepDeleted DEF Buffer!Next
<1>6. CASE join_lines
  BY <1>6, StepJoined DEF Buffer!Next
<1>7. CASE editor_new_line
  <2>1. NL \in Bytes
    BY DEF Bytes
  <2>. QED
    BY <1>7, <2>1, StepDivided DEF Buffer!Next
<1>8. CASE set_mode
  <2>1. /\ Editing /\ Redraw /\ UNCHANGED <<file, editor_active, modified, saved, broken>>
        /\ mode' \in {"command", "insert"} /\ in_command_line' = in_command_line
    BY <1>8 DEF set_mode
  <2>2. in_command_line' \in BOOLEAN
    BY <2>1 DEF EditInv, FileInv
  <2>. QED
    BY <2>1, <2>2, StepRedrawn DEF Buffer!Next
<1>9. CASE colon
  <2>1. /\ Editing /\ Redraw /\ UNCHANGED <<file, editor_active, modified, saved, broken>>
        /\ mode' = mode /\ in_command_line' \in BOOLEAN
    BY <1>9 DEF colon
  <2>2. mode' \in {"command", "insert"}
    BY <2>1 DEF EditInv, FileInv
  <2>. QED
    BY <2>1, <2>2, StepRedrawn DEF Buffer!Next
<1>10. ASSUME NEW c \in {"w", "q", "wq", "other"}, enter_command(c)
       PROVE  EditInv' /\ HonestStep /\ Buffer!Next
  BY <1>10, StepCommand DEF Buffer!Next
<1>. QED
  BY <1>1, <1>2, <1>3, <1>4, <1>5, <1>6, <1>7, <1>8, <1>9, <1>10 DEF Next

LEMMA InvImplies == EditInv => TypeOK /\ WindowFollowsCursor
<1> SUFFICES ASSUME EditInv PROVE TypeOK /\ WindowFollowsCursor
  OBVIOUS
<1>1. /\ GoodLines(lines) /\ GoodCursor(lines, cursor_x, cursor_y)
      /\ Len(lines) \in 1..EDITOR_MAX_LINES
  BY DEF EditInv, TextInv, GoodLines
<1>2. ASSUME NEW k \in 1..Len(lines)
      PROVE  /\ lines[k].text \in Seq(Chars) /\ Len(lines[k].text) <= EDITOR_LINE_LENGTH
             /\ lines[k].h_scroll \in 0..EDITOR_LINE_LENGTH
  <2>1. lines[k] \in LineType /\ Len(lines[k].text) <= EDITOR_LINE_LENGTH
    BY <1>1 DEF GoodLines
  <2>. QED
    BY <2>1, LineTypeOf
<1>3. cursor_y \in 0..(Len(lines) - 1) /\ cursor_x \in 0..LengthAt(lines, cursor_y)
  BY <1>1 DEF GoodCursor, LengthAt, TextAt
<1>4. TypeOK
  BY <1>1, <1>2, <1>3 DEF TypeOK, EditInv, TextInv, FileInv
<1>5. WindowFollowsCursor
  BY DEF WindowFollowsCursor, EditInv, TextInv, OnScreen
<1>. QED
  BY <1>4, <1>5

LEMMA EditorInvariant == Spec => []EditInv
<1>1. EditInv /\ [Next]_vars => EditInv'
  BY StepKeeps
<1>. QED
  BY <1>1, StartsRight, PTL DEF Spec

(***************************************************************************)
(* The theorems.                                                           *)
(***************************************************************************)
\* The editor keeps its types: the cursor stays on the text, no line and no array outgrows
\* its memory (editor_insert_char and editor_new_line, kernel/editor/editor.c).
THEOREM EditorTypeCorrect == Spec => []TypeOK
  BY EditorInvariant, InvImplies, PTL

\* After every key the cursor is on the screen (editor_render), whatever the sizes of the
\* text and the screen.
THEOREM WindowAlwaysFollows == Spec => []WindowFollowsCursor
  BY EditorInvariant, InvImplies, PTL

\* state.modified goes away only when the file begins with the whole text, or, if the entry
\* could not be updated after the last line, when all that the file shows is the text; and a
\* clean, completely loaded text is never written differently (editor_save).
THEOREM ModifiedAlwaysHonest == Spec => ModifiedIsHonest
<1>1. EditInv /\ [Next]_vars => [HonestStep]_vars
  BY StepKeeps
<1>2. Spec => [][HonestStep]_vars
  BY <1>1, EditorInvariant, PTL DEF Spec
<1>. QED
  BY <1>2 DEF ModifiedIsHonest, HonestStep

\* The array of lines implements one text with a cursor in it: every key inserts or removes
\* the character at the cursor or moves the cursor, and changes nothing else in the text.
THEOREM EditorIsTextBuffer == Spec => BufferSpec
<1>1. EditInv /\ [Next]_vars => [Buffer!Next]_(Buffer!vars)
  BY StepKeeps
<1>2. Spec => Buffer!Init /\ [][Buffer!Next]_(Buffer!vars)
  BY <1>1, StartsRight, EditorInvariant, PTL DEF Spec
<1>. QED
  BY <1>2 DEF BufferSpec, Buffer!Spec
=============================================================================
