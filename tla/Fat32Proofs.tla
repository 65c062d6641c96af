---------------------------- MODULE Fat32Proofs ----------------------------
(***************************************************************************)
(* What holds of the FAT32 driver on a disk of any size, for any paths and *)
(* file contents, wherever power is lost: what a user can reach is sound,  *)
(* the backup FAT lags by at most an entry for each crash, and a listing   *)
(* shows what a lookup finds.                                              *)
(***************************************************************************)
EXTENDS Fat32, SequenceTheorems, FiniteSetTheorems, WellFoundedInduction, TLAPS

LEMMA LeastNumber ==
  ASSUME NEW S, S \subseteq Nat, S # {}
  PROVE  \E x \in S : \A y \in S : x <= y
<1>1. PICK x \in S : \A y \in S : ~(<<y, x>> \in OpToRel(<, Nat))
  BY NatLessThanWellFounded, WFMin
<1>2. \A y \in S : ~(y < x)
  BY <1>1 DEF OpToRel
<1>. QED
  BY <1>2

LEMMA MinOrZeroIs ==
  ASSUME NEW S, S \subseteq Nat
  PROVE  /\ S = {} => MinOrZero(S) = 0
         /\ S # {} => MinOrZero(S) \in S /\ \A n \in S : MinOrZero(S) <= n
<1>1. CASE S = {}
  BY <1>1 DEF MinOrZero
<1>2. CASE S # {}
  BY <1>2, LeastNumber DEF MinOrZero, Min
<1>. QED
  BY <1>1, <1>2

(***************************************************************************)
(* A well-formed chain: clusters of the FAT, each linked to the next, the  *)
(* last marked as the end, none twice.  Following the links finds it.      *)
(***************************************************************************)
FatSet == 0..(FatEntries - 1)
All    == 2..(FatEntries - 1)
Slots  == 1..SlotsPerCluster

LinkedUp(fat, s) ==
  /\ s \in Seq(All) /\ Len(s) > 0
  /\ \A i \in 1..(Len(s) - 1) : fat[s[i]] = s[i + 1]
  /\ fat[s[Len(s)]] = END
  /\ \A i, j \in 1..Len(s) : s[i] = s[j] => i = j

LEMMA ChainFits ==
  ASSUME NEW s \in Seq(All), \A i, j \in 1..Len(s) : s[i] = s[j] => i = j
  PROVE  Len(s) < FatEntries
<1>. USE Fat32Assumption
<1>1. s \in Injection(1..Len(s), All)
  BY DEF Injection, IsInjective
<1>2. IsFiniteSet(All) /\ Cardinality(All) = FatEntries - 2
  BY FS_Interval DEF All
<1>3. Cardinality(1..Len(s)) <= Cardinality(All)
  BY <1>1, <1>2, FS_Injection
<1>4. Len(s) \in Nat
  OBVIOUS
<1>5. Cardinality(1..Len(s)) = Len(s)
  <2>. \A m \in Nat : Cardinality(1..m) = m
    BY FS_Interval
  <2>. QED
    BY <1>4
<1>. QED
  BY <1>2, <1>3, <1>4, <1>5

\* The links from cluster c on, until the mark Stop(c) stands for.
IsTrail(fat, c, toEnd, f) ==
  f = [i \in 1..FatEntries |->
         IF i = 1 THEN c
         ELSE IF (IF toEnd THEN is_end_cluster(f[i - 1]) ELSE Stops(f[i - 1])) THEN END
         ELSE fat[f[i - 1]]]

LEMMA TrailUnique ==
  ASSUME NEW fat, NEW c, NEW toEnd, NEW f, NEW g, IsTrail(fat, c, toEnd, f), IsTrail(fat, c, toEnd, g)
  PROVE  f = g
<1>. USE Fat32Assumption
<1>. DEFINE Bad == {i \in 1..FatEntries : f[i] # g[i]}
<1>1. f = [i \in 1..FatEntries |-> f[i]] /\ g = [i \in 1..FatEntries |-> g[i]]
  BY DEF IsTrail
<1>2. SUFFICES ASSUME Bad # {} PROVE FALSE
  BY <1>1
<1>3. PICK n \in Bad : \A m \in Bad : n <= m
  <2>. Bad \subseteq Nat
    OBVIOUS
  <2>. HIDE DEF Bad
  <2>. QED
    BY <1>2, LeastNumber
<1>4. n \in 1..FatEntries /\ f[n] # g[n]
  BY <1>3
<1>5. n # 1
  BY <1>4 DEF IsTrail
<1>6. n - 1 \in 1..FatEntries /\ ~(n <= n - 1)
  BY <1>4, <1>5
<1>7. f[n - 1] = g[n - 1]
  BY <1>3, <1>6
<1>8. f[n] = IF (IF toEnd THEN is_end_cluster(f[n - 1]) ELSE Stops(f[n - 1])) THEN END ELSE fat[f[n - 1]]
  BY <1>4, <1>5 DEF IsTrail
<1>9. g[n] = IF (IF toEnd THEN is_end_cluster(g[n - 1]) ELSE Stops(g[n - 1])) THEN END ELSE fat[g[n - 1]]
  BY <1>4, <1>5 DEF IsTrail
<1>. QED
  BY <1>4, <1>7, <1>8, <1>9

LEMMA ChainAlong ==
  ASSUME NEW d, NEW c, NEW f, IsTrail(d.fat1, c, FALSE, f)
  PROVE  Chain(d, c) = SubSeq(f, 1, Cardinality({i \in 1..FatEntries : ~Stops(f[i])}))
<1>. DEFINE G(h) == h = [i \in 1..FatEntries |->
                           IF i = 1 THEN c ELSE IF Stops(h[i - 1]) THEN END ELSE d.fat1[h[i - 1]]]
            link == CHOOSE h : G(h)
<1>1. G(f)
  BY DEF IsTrail
<1>2. G(link)
  BY <1>1
<1>3. \A h : G(h) => IsTrail(d.fat1, c, FALSE, h)
  BY DEF IsTrail
<1>4. link = f
  BY <1>2, <1>3, TrailUnique
<1>5. Chain(d, c) = SubSeq(link, 1, Cardinality({i \in 1..FatEntries : ~Stops(link[i])}))
  BY DEF Chain
<1>. QED
  BY <1>4, <1>5

LEMMA FileChainAlong ==
  ASSUME NEW d, NEW c, NEW f, IsTrail(d.fat1, c, TRUE, f)
  PROVE  FileChain(d, c) = SubSeq(f, 1, Cardinality({i \in 1..FatEntries : ~is_end_cluster(f[i])}))
<1>. DEFINE G(h) == h = [i \in 1..FatEntries |->
                           IF i = 1 THEN c ELSE IF is_end_cluster(h[i - 1]) THEN END ELSE d.fat1[h[i - 1]]]
            link == CHOOSE h : G(h)
<1>1. G(f)
  BY DEF IsTrail
<1>2. G(link)
  BY <1>1
<1>3. \A h : G(h) => IsTrail(d.fat1, c, TRUE, h)
  BY DEF IsTrail
<1>4. link = f
  BY <1>2, <1>3, TrailUnique
<1>5. FileChain(d, c) = SubSeq(link, 1, Cardinality({i \in 1..FatEntries : ~is_end_cluster(link[i])}))
  BY DEF FileChain
<1>. QED
  BY <1>4, <1>5

\* What a search that starts at the head of a well-formed chain passes.
Trail(s) == [i \in 1..FatEntries |-> IF i <= Len(s) THEN s[i] ELSE END]

LEMMA TrailIs ==
  ASSUME NEW fat, NEW s, LinkedUp(fat, s), NEW toEnd \in BOOLEAN
  PROVE  /\ IsTrail(fat, s[1], toEnd, Trail(s))
         /\ \A i \in 1..Len(s) : Trail(s)[i] = s[i] /\ ~Stops(s[i]) /\ ~is_end_cluster(s[i])
         /\ {i \in 1..FatEntries : ~Stops(Trail(s)[i])} = 1..Len(s)
         /\ {i \in 1..FatEntries : ~is_end_cluster(Trail(s)[i])} = 1..Len(s)
         /\ SubSeq(Trail(s), 1, Cardinality(1..Len(s))) = s
<1>. USE Fat32Assumption
<1>. DEFINE n == Len(s)
<1>1. n \in Nat /\ n > 0 /\ n < FatEntries /\ s \in Seq(All)
  BY ChainFits DEF LinkedUp
<1>2. \A i \in 1..n : s[i] \in 2..(FatEntries - 1)
  BY <1>1 DEF All
<1>. HIDE DEF n
<1>3. \A i \in 1..n : ~Stops(s[i]) /\ ~is_end_cluster(s[i])
  BY <1>2 DEF Stops, is_end_cluster, END
<1>4. Stops(END) /\ is_end_cluster(END)
  BY DEF Stops, is_end_cluster, END
<1>5. \A i \in 1..FatEntries : Trail(s)[i] = IF i <= n THEN s[i] ELSE END
  BY DEF Trail, n
<1>6. \A i \in 1..FatEntries : i <= n => i \in 1..n
  OBVIOUS
<1>7. ASSUME NEW i \in 1..FatEntries, i # 1
      PROVE  Trail(s)[i] = IF (IF toEnd THEN is_end_cluster(Trail(s)[i - 1]) ELSE Stops(Trail(s)[i - 1])) THEN END
                           ELSE fat[Trail(s)[i - 1]]
  <2>1. i - 1 \in 1..FatEntries
    BY <1>7
  <2>2. CASE i - 1 < n
    <3>1. i - 1 \in 1..n /\ i - 1 \in 1..(n - 1) /\ (i - 1) + 1 = i
      BY <1>1, <1>7, <2>2
    <3>2. Trail(s)[i - 1] = s[i - 1] /\ Trail(s)[i] = s[i]
      BY <1>1, <1>5, <2>1, <2>2, <3>1
    <3>3. fat[s[i - 1]] = s[i]
      BY <3>1 DEF LinkedUp, n
    <3>. QED
      BY <1>3, <3>1, <3>2, <3>3
  <2>3. CASE i - 1 = n
    <3>1. Trail(s)[i - 1] = s[n] /\ Trail(s)[i] = END /\ n \in 1..n
      BY <1>1, <1>5, <2>1, <2>3
    <3>2. fat[s[n]] = END
      BY DEF LinkedUp, n
    <3>. QED
      BY <1>3, <3>1, <3>2
  <2>4. CASE i - 1 > n
    <3>1. Trail(s)[i - 1] = END /\ Trail(s)[i] = END
      BY <1>1, <1>5, <2>1, <2>4
    <3>. QED
      BY <1>4, <3>1
  <2>. QED
    BY <1>1, <2>2, <2>3, <2>4
<1>8. Trail(s)[1] = s[1]
  BY <1>1, <1>5
<1>9. Trail(s) = [i \in 1..FatEntries |->
         IF i = 1 THEN s[1]
         ELSE IF (IF toEnd THEN is_end_cluster(Trail(s)[i - 1]) ELSE Stops(Trail(s)[i - 1])) THEN END
         ELSE fat[Trail(s)[i - 1]]]
  <2>1. Trail(s) = [i \in 1..FatEntries |-> Trail(s)[i]]
    BY DEF Trail
  <2>. QED
    BY <1>7, <1>8, <2>1
<1>10. IsTrail(fat, s[1], toEnd, Trail(s))
  BY <1>9 DEF IsTrail
<1>11. \A i \in 1..n : i \in 1..FatEntries /\ Trail(s)[i] = s[i]
  BY <1>1, <1>5
<1>12. {i \in 1..FatEntries : ~Stops(Trail(s)[i])} = 1..n
  BY <1>3, <1>4, <1>5, <1>6, <1>11
<1>13. {i \in 1..FatEntries : ~is_end_cluster(Trail(s)[i])} = 1..n
  BY <1>3, <1>4, <1>5, <1>6, <1>11
<1>14. Cardinality(1..n) = n
  BY <1>1, FS_Interval
<1>15. SubSeq(Trail(s), 1, n) = s
  <2>1. SubSeq(Trail(s), 1, n) = [i \in 1..n |-> Trail(s)[i]]
    BY <1>1
  <2>2. s = [i \in 1..n |-> s[i]]
    BY <1>1 DEF n
  <2>. QED
    BY <1>11, <2>1, <2>2
<1>. QED
  BY <1>3, <1>10, <1>11, <1>12, <1>13, <1>14, <1>15 DEF n

\* Both searches find the whole chain.
LEMMA ChainIs ==
  ASSUME NEW d, NEW s, LinkedUp(d.fat1, s)
  PROVE  Chain(d, s[1]) = s /\ FileChain(d, s[1]) = s
<1>. DEFINE f == Trail(s)
            n == Cardinality(1..Len(s))
<1>1. IsTrail(d.fat1, s[1], FALSE, f) /\ IsTrail(d.fat1, s[1], TRUE, f)
  BY TrailIs
<1>2. {i \in 1..FatEntries : ~Stops(f[i])} = 1..Len(s) /\ {i \in 1..FatEntries : ~is_end_cluster(f[i])} = 1..Len(s)
  BY TrailIs
<1>3. SubSeq(f, 1, n) = s
  BY TrailIs
<1>. HIDE DEF f
<1>4. Chain(d, s[1]) = SubSeq(f, 1, n)
  BY <1>1, <1>2, ChainAlong
<1>5. FileChain(d, s[1]) = SubSeq(f, 1, n)
  BY <1>1, <1>2, FileChainAlong
<1>. QED
  BY <1>3, <1>4, <1>5

\* An empty file has no chain.
LEMMA NoChain ==
  ASSUME NEW d, NEW c, Stops(c)
  PROVE  Chain(d, c) = <<>>
<1>. USE Fat32Assumption
<1>. DEFINE f == [i \in 1..FatEntries |-> IF i = 1 THEN c ELSE END]
<1>1. Stops(END)
  BY DEF Stops, is_end_cluster, END
<1>2. \A i \in 1..FatEntries : Stops(f[i])
  BY <1>1
<1>3. ASSUME NEW i \in 1..FatEntries, i # 1
      PROVE  f[i] = END /\ i - 1 \in 1..FatEntries
  BY <1>3
<1>4. f = [i \in 1..FatEntries |-> IF i = 1 THEN c ELSE IF Stops(f[i - 1]) THEN END ELSE d.fat1[f[i - 1]]]
  <2>. f = [i \in 1..FatEntries |-> f[i]]
    OBVIOUS
  <2>. f[1] = c
    OBVIOUS
  <2>. HIDE DEF f
  <2>. QED
    BY <1>2, <1>3
<1>. HIDE DEF f
<1>5. IsTrail(d.fat1, c, FALSE, f)
  BY <1>4 DEF IsTrail
<1>6. {i \in 1..FatEntries : ~Stops(f[i])} = {}
  BY <1>2
<1>7. Chain(d, c) = SubSeq(f, 1, 0)
  BY <1>5, <1>6, ChainAlong, FS_EmptySet
<1>. QED
  BY <1>7

----------------------------------------------------------------------------
(***************************************************************************)
(* What a disk holds: w maps the first cluster of each chain to the chain, *)
(* and the chains that start at a cluster of T are directories.  The slots *)
(* in skip are in use by the call in progress: nothing is said of them.    *)
(***************************************************************************)
In(w, h, c) == \E j \in 1..Len(w[h]) : w[h][j] = c

Chained(fat, w) ==
  /\ \A h \in DOMAIN w : LinkedUp(fat, w[h]) /\ w[h][1] = h
  /\ \A g, h \in DOMAIN w : \A c : In(w, g, c) /\ In(w, h, c) => g = h

ShapeOK(d) ==
  /\ d = [fat1 |-> d.fat1, fat2 |-> d.fat2, data |-> d.data]
  /\ d.fat1 \in [FatSet -> Nat] /\ d.fat2 \in [FatSet -> Nat]
  /\ d.data = [c \in Clusters |-> [i \in Slots |-> d.data[c][i]]]

\* Slot i of cluster c shows an entry of directory h.
Live(d, w, h, skip, c, i) ==
  In(w, h, c) /\ c \in Clusters /\ i \in Slots /\ <<c, i>> \notin skip /\ entry_visible(d.data[c][i])

GoodEntry(w, T, e) ==
  /\ e = Entry(e.name, e.dir, e.first, e.size)
  /\ e.name \in ShortNames /\ e.dir \in BOOLEAN /\ e.size \in Nat
  /\ IF e.dir THEN e.first \in T \ {Root}
     ELSE IF e.first = 0 THEN e.size = 0 ELSE e.first \in DOMAIN w \ T
  /\ e.first # 0 => e.size <= SlotsPerCluster * Len(w[e.first])

\* The slots in use: none, one, or all those of a cluster.
None    == {}
Only(at) == {<<at[1], at[2]>>}
Row(c)  == {<<c, i>> : i \in Slots}

Earlier(p, i, q, j) == p < q \/ (p = q /\ i < j)

EntriesGood(d, w, T, skip) ==
  \A h \in T : \A c, i : Live(d, w, h, skip, c, i) => GoodEntry(w, T, d.data[c][i])

FirstsDiffer(d, w, T, skip) ==
  \A g, h \in T : \A c, i, e, j :
    /\ Live(d, w, g, skip, c, i) /\ Live(d, w, h, skip, e, j)
    /\ d.data[c][i].first = d.data[e][j].first /\ d.data[c][i].first # 0
    => c = e /\ i = j

NamesDiffer(d, w, T, skip) ==
  \A h \in T : \A c, i, e, j :
    Live(d, w, h, skip, c, i) /\ Live(d, w, h, skip, e, j) /\ d.data[c][i].name = d.data[e][j].name
    => c = e /\ i = j

\* A search that ends at a slot never used, or at a sector past the disk, misses nothing.
NothingHidden(d, w, T, skip) ==
  \A h \in T : \A p, q \in 1..Len(w[h]) : \A i, j \in Slots :
    Earlier(p, i, q, j) /\ Live(d, w, h, skip, w[h][q], j)
    => w[h][p] \in Clusters /\ d.data[w[h][p]][i] # Empty

Sound(d, w, T, skip) ==
  /\ ShapeOK(d) /\ Chained(d.fat1, w)
  /\ Root \in T /\ T \subseteq DOMAIN w
  /\ EntriesGood(d, w, T, skip) /\ FirstsDiffer(d, w, T, skip)
  /\ NamesDiffer(d, w, T, skip) /\ NothingHidden(d, w, T, skip)

Unused(w, c) == c \in All /\ \A h \in DOMAIN w : ~In(w, h, c)

LEMMA ChainFacts ==
  ASSUME NEW fat, NEW w, Chained(fat, w), NEW h \in DOMAIN w
  PROVE  /\ w[h] \in Seq(All) /\ Len(w[h]) \in Nat /\ Len(w[h]) > 0
         /\ 1 \in 1..Len(w[h]) /\ Len(w[h]) \in 1..Len(w[h])
         /\ w[h][1] = h /\ In(w, h, h) /\ h \in All
         /\ fat[w[h][Len(w[h])]] = END /\ In(w, h, w[h][Len(w[h])])
         /\ \A j \in 1..Len(w[h]) : w[h][j] \in All /\ In(w, h, w[h][j])
<1>1. LinkedUp(fat, w[h]) /\ w[h][1] = h
  BY DEF Chained
<1>2. w[h] \in Seq(All) /\ Len(w[h]) \in Nat /\ Len(w[h]) > 0
  BY <1>1 DEF LinkedUp
<1>3. 1 \in 1..Len(w[h]) /\ Len(w[h]) \in 1..Len(w[h])
  BY <1>2
<1>4. \A j \in 1..Len(w[h]) : w[h][j] \in All /\ In(w, h, w[h][j])
  BY <1>2 DEF In
<1>5. fat[w[h][Len(w[h])]] = END
  BY <1>1 DEF LinkedUp
<1>. QED
  BY <1>1, <1>2, <1>3, <1>4, <1>5

\* A cluster of a chain is a cluster of the FAT, and is not free.
LEMMA InChain ==
  ASSUME NEW fat, NEW w, Chained(fat, w), NEW h \in DOMAIN w, NEW c, In(w, h, c)
  PROVE  c \in All /\ fat[c] # 0
<1>1. PICK j \in 1..Len(w[h]) : w[h][j] = c
  BY DEF In
<1>2. LinkedUp(fat, w[h]) /\ w[h] \in Seq(All) /\ Len(w[h]) \in Nat
  BY DEF Chained, LinkedUp
<1>3. c \in All
  BY <1>1, <1>2
<1>4. CASE j = Len(w[h])
  BY <1>1, <1>2, <1>4, Fat32Assumption DEF LinkedUp, END
<1>5. CASE j # Len(w[h])
  <2>1. j \in 1..(Len(w[h]) - 1) /\ j + 1 \in 1..Len(w[h])
    BY <1>2, <1>5
  <2>2. fat[c] = w[h][j + 1]
    BY <1>1, <1>2, <2>1 DEF LinkedUp
  <2>3. w[h][j + 1] \in All
    BY <1>2, <2>1
  <2>. QED
    BY <1>3, <2>2, <2>3, Fat32Assumption DEF All
<1>. QED
  BY <1>3, <1>4, <1>5

LEMMA ChainedElsewhere ==
  ASSUME NEW fat, NEW now, NEW w, Chained(fat, w),
         \A h \in DOMAIN w : \A c : In(w, h, c) => now[c] = fat[c]
  PROVE  Chained(now, w)
<1>1. ASSUME NEW h \in DOMAIN w
      PROVE  LinkedUp(now, w[h]) /\ w[h][1] = h
  <2>1. LinkedUp(fat, w[h]) /\ w[h][1] = h
    BY DEF Chained
  <2>2. \A j \in 1..Len(w[h]) : now[w[h][j]] = fat[w[h][j]]
    BY DEF In
  <2>3. Len(w[h]) \in Nat /\ Len(w[h]) > 0
    BY <2>1 DEF LinkedUp
  <2>4. Len(w[h]) \in 1..Len(w[h]) /\ \A j \in 1..(Len(w[h]) - 1) : j \in 1..Len(w[h])
    BY <2>3
  <2>. QED
    BY <2>1, <2>2, <2>4 DEF LinkedUp
<1>. QED
  BY <1>1 DEF Chained

\* What shows now showed before, and no more slots count as never used.
LEMMA SoundFrom ==
  ASSUME NEW d, NEW now, NEW w, NEW T, NEW skip, NEW less, Sound(d, w, T, skip),
         ShapeOK(now), Chained(now.fat1, w),
         \A h \in T : \A c, i : Live(now, w, h, less, c, i) =>
            Live(d, w, h, skip, c, i) /\ now.data[c][i] = d.data[c][i],
         \A h \in T : \A c \in Clusters, i \in Slots :
            In(w, h, c) /\ d.data[c][i] # Empty => now.data[c][i] # Empty
  PROVE  Sound(now, w, T, less)
<1>1. EntriesGood(now, w, T, less)
  BY DEF Sound, EntriesGood
<1>2. FirstsDiffer(now, w, T, less)
  BY DEF Sound, FirstsDiffer
<1>3. NamesDiffer(now, w, T, less)
  BY DEF Sound, NamesDiffer
<1>4. NothingHidden(now, w, T, less)
  <2> SUFFICES ASSUME NEW h \in T, NEW p \in 1..Len(w[h]), NEW q \in 1..Len(w[h]), NEW i \in Slots, NEW j \in Slots,
                      Earlier(p, i, q, j), Live(now, w, h, less, w[h][q], j)
               PROVE  w[h][p] \in Clusters /\ now.data[w[h][p]][i] # Empty
    BY DEF NothingHidden
  <2>1. Live(d, w, h, skip, w[h][q], j)
    OBVIOUS
  <2>2. w[h][p] \in Clusters /\ d.data[w[h][p]][i] # Empty
    BY <2>1 DEF Sound, NothingHidden
  <2>3. In(w, h, w[h][p])
    BY DEF In
  <2>. QED
    BY <2>2, <2>3
<1>. QED
  BY <1>1, <1>2, <1>3, <1>4 DEF Sound

\* Something else changed.
LEMMA SoundElsewhere ==
  ASSUME NEW d, NEW now, NEW w, NEW T, NEW skip, Sound(d, w, T, skip), ShapeOK(now),
         \A h \in DOMAIN w : \A c : In(w, h, c) => now.fat1[c] = d.fat1[c],
         \A h \in T : \A c \in Clusters : In(w, h, c) => now.data[c] = d.data[c]
  PROVE  Sound(now, w, T, skip)
<1>1. Chained(now.fat1, w)
  BY ChainedElsewhere DEF Sound
<1>2. \A h \in T : \A c \in Clusters, i \in Slots : In(w, h, c) => now.data[c][i] = d.data[c][i]
  OBVIOUS
<1>3. \A h \in T : \A c, i : Live(now, w, h, skip, c, i) => Live(d, w, h, skip, c, i) /\ now.data[c][i] = d.data[c][i]
  BY <1>2 DEF Live
<1>. QED
  BY <1>1, <1>2, <1>3, SoundFrom

\* More slots are in use, or slots that show nothing are in use no more.
LEMMA SoundSkip ==
  ASSUME NEW d, NEW w, NEW T, NEW skip, NEW less, Sound(d, w, T, skip),
         \A h \in T : \A c \in Clusters, i \in Slots :
            In(w, h, c) /\ <<c, i>> \in skip /\ <<c, i>> \notin less => ~entry_visible(d.data[c][i])
  PROVE  Sound(d, w, T, less)
<1>1. \A h \in T : \A c, i : Live(d, w, h, less, c, i) => Live(d, w, h, skip, c, i)
  BY DEF Live
<1>. QED
  BY <1>1, SoundFrom DEF Sound

\* A slot that shows nothing any more, and is not one never used.
LEMMA SoundDeleted ==
  ASSUME NEW d, NEW now, NEW w, NEW T, NEW at, Sound(d, w, T, Only(at)), ShapeOK(now), now.fat1 = d.fat1,
         \A c \in Clusters, i \in Slots : c # at[1] \/ i # at[2] => now.data[c][i] = d.data[c][i],
         \A c \in Clusters, i \in Slots : c = at[1] /\ i = at[2] => now.data[c][i] = Deleted
  PROVE  Sound(now, w, T, None)
<1>1. \A c \in Clusters, i \in Slots : now.data[c][i] = d.data[c][i] \/ now.data[c][i] = Deleted
  OBVIOUS
<1>2. ~entry_visible(Deleted) /\ Deleted # Empty
  BY DEF entry_visible, Deleted, Empty
<1>3. \A h, c, i : Live(now, w, h, None, c, i) => Live(d, w, h, Only(at), c, i) /\ now.data[c][i] = d.data[c][i]
  BY <1>2 DEF Live, Only, None
<1>4. Chained(now.fat1, w)
  BY DEF Sound
<1>. QED
  BY <1>1, <1>2, <1>3, <1>4, SoundFrom

\* A chain that no entry leads to is forgotten.
Without(w, h) == [g \in DOMAIN w \ {h} |-> w[g]]

LEMMA SoundWithout ==
  ASSUME NEW d, NEW w, NEW T, NEW skip, Sound(d, w, T, skip), NEW h, h # Root,
         \A g \in T : \A c, i : Live(d, w, g, skip, c, i) => d.data[c][i].first # h
  PROVE  Sound(d, Without(w, h), T \ {h}, skip)
<1>. DEFINE v == Without(w, h)
            U == T \ {h}
<1>1. DOMAIN v = DOMAIN w \ {h} /\ \A g \in DOMAIN v : v[g] = w[g]
  BY DEF Without
<1>. HIDE DEF v
<1>2. \A g \in DOMAIN v : \A c : In(v, g, c) <=> In(w, g, c)
  BY <1>1 DEF In
<1>3. Chained(d.fat1, v)
  BY <1>1, <1>2 DEF Sound, Chained
<1>4. Root \in U /\ U \subseteq DOMAIN v /\ U \subseteq T
  BY <1>1 DEF Sound
<1>5. \A g \in U : \A c, i : Live(d, v, g, skip, c, i) <=> Live(d, w, g, skip, c, i)
  BY <1>2, <1>4 DEF Live
<1>6. EntriesGood(d, v, U, skip)
  <2> SUFFICES ASSUME NEW g \in U, NEW c, NEW i, Live(d, v, g, skip, c, i)
               PROVE  GoodEntry(v, U, d.data[c][i])
    BY DEF EntriesGood
  <2>1. GoodEntry(w, T, d.data[c][i]) /\ d.data[c][i].first # h
    BY <1>4, <1>5 DEF Sound, EntriesGood
  <2>2. d.data[c][i].first \in DOMAIN w => d.data[c][i].first \in DOMAIN v /\ v[d.data[c][i].first] = w[d.data[c][i].first]
    BY <1>1, <2>1
  <2>. QED
    BY <1>1, <2>1, <2>2 DEF GoodEntry, Sound
<1>7. FirstsDiffer(d, v, U, skip)
  BY <1>4, <1>5 DEF Sound, FirstsDiffer
<1>8. NamesDiffer(d, v, U, skip)
  BY <1>4, <1>5 DEF Sound, NamesDiffer
<1>9. NothingHidden(d, v, U, skip)
  <2>1. \A g \in U : v[g] = w[g]
    BY <1>1, <1>4
  <2>. QED
    BY <1>4, <1>5, <2>1 DEF Sound, NothingHidden
<1>. QED
  BY <1>3, <1>4, <1>6, <1>7, <1>8, <1>9 DEF Sound, v

\* A chain of one cluster: a file, or a directory that shows nothing.
Also(w, new) == [h \in DOMAIN w \cup {new} |-> IF h = new THEN <<new>> ELSE w[h]]

LEMMA AlsoIs ==
  ASSUME NEW fat, NEW w, NEW new, Chained(fat, w), Unused(w, new), fat[new] = END
  PROVE  /\ new \notin DOMAIN w /\ DOMAIN Also(w, new) = DOMAIN w \cup {new}
         /\ \A h \in DOMAIN w : Also(w, new)[h] = w[h] /\ \A c : In(Also(w, new), h, c) <=> In(w, h, c)
         /\ Also(w, new)[new] = <<new>> /\ Len(Also(w, new)[new]) = 1
         /\ \A c : In(Also(w, new), new, c) <=> c = new
         /\ Chained(fat, Also(w, new))
<1>. DEFINE v == Also(w, new)
<1>1. new \notin DOMAIN w
  BY ChainFacts DEF Unused
<1>2. DOMAIN v = DOMAIN w \cup {new} /\ v[new] = <<new>> /\ \A h \in DOMAIN w : v[h] = w[h]
  BY <1>1 DEF Also
<1>. HIDE DEF v
<1>3. \A h \in DOMAIN w : \A c : In(v, h, c) <=> In(w, h, c)
  BY <1>2 DEF In
<1>4. Len(v[new]) = 1 /\ v[new][1] = new
  BY <1>2
<1>5. \A c : In(v, new, c) <=> c = new
  BY <1>4 DEF In
<1>6. LinkedUp(fat, v[new])
  <2>1. v[new] \in Seq(All)
    BY <1>2 DEF Unused
  <2>2. fat[v[new][Len(v[new])]] = END
    BY <1>4
  <2>3. \A i \in 1..Len(v[new]) : i = 1
    BY <1>4
  <2>4. ~\E i \in 1..(Len(v[new]) - 1) : TRUE
    BY <1>4
  <2>. QED
    BY <1>4, <2>1, <2>2, <2>3, <2>4 DEF LinkedUp
<1>7. \A h \in DOMAIN v : LinkedUp(fat, v[h]) /\ v[h][1] = h
  BY <1>2, <1>4, <1>6 DEF Chained
<1>8. \A g, h \in DOMAIN v : \A c : In(v, g, c) /\ In(v, h, c) => g = h
  BY <1>2, <1>3, <1>5 DEF Chained, Unused
<1>9. Chained(fat, v)
  BY <1>7, <1>8 DEF Chained
<1>. QED
  BY <1>1, <1>2, <1>3, <1>4, <1>5, <1>9 DEF v

Grafted(w, T, new, dir) == IF dir THEN T \cup {new} ELSE T

LEMMA SoundAlso ==
  ASSUME NEW d, NEW w, NEW T, NEW skip, NEW new, NEW dir \in BOOLEAN, Sound(d, w, T, skip),
         Unused(w, new), d.fat1[new] = END,
         dir => \A i \in Slots : ~entry_visible(d.data[new][i])
  PROVE  Sound(d, Also(w, new), Grafted(w, T, new, dir), skip)
<1>. DEFINE v == Also(w, new)
            U == Grafted(w, T, new, dir)
<1>1. /\ new \notin DOMAIN w /\ DOMAIN v = DOMAIN w \cup {new}
      /\ \A h \in DOMAIN w : v[h] = w[h] /\ \A c : In(v, h, c) <=> In(w, h, c)
      /\ Len(v[new]) = 1
      /\ \A c : In(v, new, c) <=> c = new
      /\ Chained(d.fat1, v)
  BY AlsoIs DEF Sound
<1>. HIDE DEF v
<1>2. T \subseteq DOMAIN w
  BY DEF Sound
<1>3. T \subseteq U /\ U \subseteq DOMAIN v /\ \A h \in U : h \notin T => h = new /\ dir
  BY <1>1, <1>2 DEF Grafted
<1>. HIDE DEF U
<1>4. \A h \in U : \A c, i : Live(d, v, h, skip, c, i) => h \in T /\ Live(d, w, h, skip, c, i)
  BY <1>1, <1>2, <1>3 DEF Live
<1>5. EntriesGood(d, v, U, skip)
  <2> SUFFICES ASSUME NEW h \in U, NEW c, NEW i, Live(d, v, h, skip, c, i)
               PROVE  GoodEntry(v, U, d.data[c][i])
    BY DEF EntriesGood
  <2>1. GoodEntry(w, T, d.data[c][i])
    BY <1>4 DEF Sound, EntriesGood
  <2>. DEFINE e == d.data[c][i]
  <2>. HIDE DEF e
  <2>2. e.first \in DOMAIN w => e.first \in DOMAIN v /\ v[e.first] = w[e.first]
    BY <1>1
  <2>3. e.first \in DOMAIN w \ T => e.first \in DOMAIN v \ U
    BY <1>1, <1>3
  <2>4. GoodEntry(w, T, e)
    BY <2>1 DEF e
  <2>5. e.first # 0 => e.first \in DOMAIN w
    BY <1>2, <2>4 DEF GoodEntry
  <2>6. GoodEntry(v, U, e)
    BY <1>3, <2>2, <2>3, <2>4, <2>5 DEF GoodEntry
  <2>. QED
    BY <2>6 DEF e
<1>6. FirstsDiffer(d, v, U, skip)
  BY <1>4 DEF Sound, FirstsDiffer
<1>7. NamesDiffer(d, v, U, skip)
  BY <1>4 DEF Sound, NamesDiffer
<1>8. NothingHidden(d, v, U, skip)
  <2>1. \A h \in T : v[h] = w[h]
    BY <1>1, <1>2
  <2>. QED
    BY <1>4, <2>1 DEF Sound, NothingHidden
<1>9. Root \in U
  BY <1>3 DEF Sound
<1>. QED
  BY <1>1, <1>3, <1>5, <1>6, <1>7, <1>8, <1>9 DEF Sound, v, U

\* A chain grows by a cluster; the slots of a directory's new cluster are in use for now.
Grown(w, h, new) == [w EXCEPT ![h] = Append(w[h], new)]
Last(s)          == s[Len(s)]
GrownSkip(T, h, new) == IF h \in T THEN Row(new) ELSE None

\* The FAT links the free cluster new to the end of chain h.
Grows(fat, now, w, h, new) ==
  /\ h \in DOMAIN w /\ Unused(w, new)
  /\ now[Last(w[h])] = new /\ now[new] = END
  /\ \A g \in DOMAIN w : \A c : In(w, g, c) /\ c # Last(w[h]) => now[c] = fat[c]

LEMMA GrownIs ==
  ASSUME NEW fat, NEW now, NEW w, NEW h, NEW new, Chained(fat, w), Grows(fat, now, w, h, new)
  PROVE  /\ DOMAIN Grown(w, h, new) = DOMAIN w
         /\ \A g \in DOMAIN w : g # h => Grown(w, h, new)[g] = w[g]
         /\ Len(Grown(w, h, new)[h]) = Len(w[h]) + 1
         /\ Grown(w, h, new)[h][Len(w[h]) + 1] = new
         /\ \A j \in 1..Len(w[h]) : Grown(w, h, new)[h][j] = w[h][j]
         /\ \A g \in DOMAIN w : \A c : In(Grown(w, h, new), g, c) <=> In(w, g, c) \/ (g = h /\ c = new)
         /\ Chained(now, Grown(w, h, new))
<1>. USE DEF Grows
<1>. DEFINE v == Grown(w, h, new)
            n == Len(w[h])
<1>1. DOMAIN v = DOMAIN w /\ v[h] = Append(w[h], new) /\ \A g \in DOMAIN w : g # h => v[g] = w[g]
  BY DEF Grown
<1>. HIDE DEF v
<1>2. LinkedUp(fat, w[h]) /\ w[h] \in Seq(All) /\ n \in Nat /\ n > 0 /\ new \in All
  BY DEF Chained, LinkedUp, Unused
<1>3. v[h] \in Seq(All) /\ Len(v[h]) = n + 1 /\ v[h][n + 1] = new /\ \A j \in 1..n : v[h][j] = w[h][j]
  BY <1>1, <1>2
<1>. HIDE DEF n
<1>4. \A c : In(v, h, c) <=> In(w, h, c) \/ c = new
  <2> SUFFICES ASSUME NEW c PROVE In(v, h, c) <=> In(w, h, c) \/ c = new
    OBVIOUS
  <2>1. ASSUME In(v, h, c) PROVE In(w, h, c) \/ c = new
    <3>1. PICK j \in 1..(n + 1) : v[h][j] = c
      BY <1>3, <2>1 DEF In
    <3>2. j \in 1..n \/ j = n + 1
      BY <1>2
    <3>. QED
      BY <1>3, <3>1, <3>2 DEF In, n
  <2>2. ASSUME In(w, h, c) PROVE In(v, h, c)
    <3>1. PICK j \in 1..n : w[h][j] = c
      BY <2>2 DEF In, n
    <3>2. j \in 1..(n + 1)
      BY <1>2
    <3>. QED
      BY <1>3, <3>1, <3>2 DEF In
  <2>3. n + 1 \in 1..(n + 1)
    BY <1>2
  <2>. QED
    BY <1>3, <2>1, <2>2, <2>3 DEF In
<1>5. \A g \in DOMAIN w : \A c : In(v, g, c) <=> In(w, g, c) \/ (g = h /\ c = new)
  BY <1>1, <1>4 DEF In
<1>6. LinkedUp(now, v[h])
  <2>1. ASSUME NEW i \in 1..n, i # n PROVE now[w[h][i]] = w[h][i + 1]
    <3>1. i \in 1..(n - 1) /\ n \in 1..n
      BY <1>2, <2>1
    <3>2. fat[w[h][i]] = w[h][i + 1] /\ w[h][i] # w[h][n]
      BY <1>2, <2>1, <3>1 DEF LinkedUp, n
    <3>3. In(w, h, w[h][i])
      BY DEF In, n
    <3>. QED
      BY <3>2, <3>3 DEF Last, n
  <2>2. now[w[h][n]] = new
    BY DEF Last, n
  <2>3. ASSUME NEW i \in 1..n PROVE now[v[h][i]] = v[h][i + 1]
    <3>1. CASE i = n
      BY <1>3, <2>2, <3>1
    <3>2. CASE i # n
      <4>1. i + 1 \in 1..n
        BY <1>2, <3>2
      <4>. QED
        BY <1>3, <2>1, <3>2, <4>1
    <3>. QED
      BY <3>1, <3>2
  <2>4. \A i \in 1..n : w[h][i] # new
    BY DEF Unused, In, n
  <2>5. \A i \in 1..(n + 1) : i \in 1..n \/ i = n + 1
    BY <1>2
  <2>6. \A i, j \in 1..(n + 1) : v[h][i] = v[h][j] => i = j
    <3>1. \A i, j \in 1..n : w[h][i] = w[h][j] => i = j
      BY <1>2 DEF LinkedUp, n
    <3>. QED
      BY <1>3, <2>4, <2>5, <3>1
  <2>7. Len(v[h]) > 0 /\ Len(v[h]) - 1 = n
    BY <1>2, <1>3
  <2>. QED
    BY <1>3, <2>3, <2>6, <2>7 DEF LinkedUp
<1>7. v[h][1] = h
  <2>1. w[h][1] = h /\ 1 \in 1..n
    BY <1>2 DEF Chained
  <2>. QED
    BY <1>3, <2>1
<1>8. ASSUME NEW g \in DOMAIN w, g # h
      PROVE  LinkedUp(now, v[g]) /\ v[g][1] = g
  <2>1. LinkedUp(fat, w[g]) /\ w[g][1] = g /\ v[g] = w[g]
    BY <1>1, <1>8 DEF Chained
  <2>2. In(w, h, Last(w[h]))
    BY ChainFacts DEF Last
  <2>3. \A j \in 1..Len(w[g]) : now[w[g][j]] = fat[w[g][j]]
    <3> SUFFICES ASSUME NEW j \in 1..Len(w[g]) PROVE now[w[g][j]] = fat[w[g][j]]
      OBVIOUS
    <3>1. In(w, g, w[g][j])
      BY DEF In
    <3>2. w[g][j] # Last(w[h])
      BY <1>8, <2>2, <3>1 DEF Chained
    <3>. QED
      BY <3>1, <3>2
  <2>4. Len(w[g]) \in Nat /\ Len(w[g]) > 0
    BY <2>1 DEF LinkedUp
  <2>5. Len(w[g]) \in 1..Len(w[g]) /\ \A j \in 1..(Len(w[g]) - 1) : j \in 1..Len(w[g])
    BY <2>4
  <2>. QED
    BY <2>1, <2>3, <2>5 DEF LinkedUp
<1>9. \A g, e \in DOMAIN w : \A c : In(v, g, c) /\ In(v, e, c) => g = e
  BY <1>5 DEF Chained, Unused
<1>10. Chained(now, v)
  BY <1>1, <1>6, <1>7, <1>8, <1>9 DEF Chained
<1>. QED
  BY <1>1, <1>3, <1>5, <1>10 DEF v, n

LEMMA SoundGrown ==
  ASSUME NEW d, NEW now, NEW w, NEW T, NEW h, NEW new,
         Sound(d, w, T, None), Grows(d.fat1, now.fat1, w, h, new), ShapeOK(now), now.data = d.data
  PROVE  Sound(now, Grown(w, h, new), T, GrownSkip(T, h, new))
<1>. DEFINE v == Grown(w, h, new)
            skip == GrownSkip(T, h, new)
            n == Len(w[h])
<1>1. /\ DOMAIN v = DOMAIN w /\ \A g \in DOMAIN w : g # h => v[g] = w[g]
      /\ Len(v[h]) = n + 1 /\ v[h][n + 1] = new /\ \A j \in 1..n : v[h][j] = w[h][j]
      /\ \A g \in DOMAIN w : \A c : In(v, g, c) <=> In(w, g, c) \/ (g = h /\ c = new)
      /\ Chained(now.fat1, v)
  <2>. Chained(d.fat1, w)
    BY DEF Sound
  <2>. QED
    BY GrownIs
<1>2. T \subseteq DOMAIN w /\ Root \in T
  BY DEF Sound
<1>. h \in DOMAIN w
  BY DEF Grows
<1>3. n \in Nat /\ \A g \in DOMAIN w : Len(w[g]) \in Nat
  BY ChainFacts DEF Sound
<1>. HIDE DEF v, n
<1>4. \A c, i : i \in Slots /\ c = new /\ h \in T => <<c, i>> \in skip
  BY DEF GrownSkip, Row
<1>. HIDE DEF skip
<1>5. \A g \in T : \A c, i : Live(now, v, g, skip, c, i) => Live(d, w, g, None, c, i)
  BY <1>1, <1>2, <1>4 DEF Live, None
<1>6. \A g \in DOMAIN w : Len(w[g]) <= Len(v[g])
  BY <1>1, <1>3 DEF n
<1>7. EntriesGood(now, v, T, skip)
  <2> SUFFICES ASSUME NEW g \in T, NEW c, NEW i, Live(now, v, g, skip, c, i)
               PROVE  GoodEntry(v, T, now.data[c][i])
    BY DEF EntriesGood
  <2>. DEFINE e == d.data[c][i]
  <2>1. GoodEntry(w, T, e)
    BY <1>5 DEF Sound, EntriesGood
  <2>2. e = now.data[c][i]
    OBVIOUS
  <2>. HIDE DEF e
  <2>3. GoodEntry(v, T, e)
    <3>1. e.first # 0 => e.first \in DOMAIN w
      BY <1>2, <2>1 DEF GoodEntry
    <3>2. e.first # 0 => e.size <= SlotsPerCluster * Len(v[e.first])
      <4> SUFFICES ASSUME e.first # 0 PROVE e.size <= SlotsPerCluster * Len(v[e.first])
        OBVIOUS
      <4>. DEFINE m == Len(w[e.first])
                  m2 == Len(v[e.first])
      <4>1. m \in Nat /\ m <= m2 /\ (m2 = m \/ m2 = m + 1)
        BY <1>1, <1>3, <1>6, <3>1 DEF n
      <4>2. e.size <= SlotsPerCluster * m /\ e.size \in Nat
        BY <2>1 DEF GoodEntry
      <4>. HIDE DEF m, m2
      <4>3. SlotsPerCluster * (m + 1) = SlotsPerCluster * m + SlotsPerCluster
        BY <4>1, Fat32Assumption
      <4>4. SlotsPerCluster * m \in Nat /\ SlotsPerCluster \in Nat
        BY <4>1, Fat32Assumption
      <4>5. e.size <= SlotsPerCluster * m2
        BY <4>1, <4>2, <4>3, <4>4
      <4>. QED
        BY <4>5 DEF m2
    <3>. QED
      BY <1>1, <2>1, <3>2 DEF GoodEntry
  <2>. QED
    BY <2>2, <2>3
<1>8. FirstsDiffer(now, v, T, skip)
  BY <1>5 DEF Sound, FirstsDiffer
<1>9. NamesDiffer(now, v, T, skip)
  BY <1>5 DEF Sound, NamesDiffer
<1>10. NothingHidden(now, v, T, skip)
  <2> SUFFICES ASSUME NEW g \in T, NEW p \in 1..Len(v[g]), NEW q \in 1..Len(v[g]), NEW i \in Slots, NEW j \in Slots,
                      Earlier(p, i, q, j), Live(now, v, g, skip, v[g][q], j)
               PROVE  v[g][p] \in Clusters /\ now.data[v[g][p]][i] # Empty
    BY DEF NothingHidden
  <2>1. q \in 1..Len(w[g])
    <3>1. CASE g # h
      BY <1>1, <1>2, <3>1
    <3>2. CASE g = h
      <4>1. v[g][q] # new
        BY <1>4, <3>2 DEF Live
      <4>. QED
        BY <1>1, <1>3, <3>2, <4>1 DEF n
    <3>. QED
      BY <3>1, <3>2
  <2>2. p \in 1..Len(w[g])
    <3>1. p <= q /\ p \in Nat /\ p > 0 /\ q <= Len(w[g]) /\ q \in Nat
      <4>1. g \in DOMAIN w /\ Len(w[g]) \in Nat /\ Len(v[g]) \in Nat
        BY <1>1, <1>2, <1>3 DEF n
      <4>. QED
        BY <2>1, <4>1 DEF Earlier
    <3>2. Len(w[g]) \in Nat
      BY <1>2, <1>3
    <3>. QED
      BY <3>1, <3>2
  <2>3. v[g][p] = w[g][p] /\ v[g][q] = w[g][q]
    BY <1>1, <1>2, <2>1, <2>2 DEF n
  <2>4. Live(d, w, g, None, w[g][q], j)
    BY <1>5, <2>3
  <2>5. w[g][p] \in Clusters /\ d.data[w[g][p]][i] # Empty
    BY <2>1, <2>2, <2>4 DEF Sound, NothingHidden
  <2>. QED
    BY <2>3, <2>5
<1>. QED
  BY <1>1, <1>2, <1>7, <1>8, <1>9, <1>10 DEF Sound, v, skip

\* An entry is written to slot i of cluster c of directory h, after no slot never used.
Clear(d, w, h, c, i) ==
  \A p, q \in 1..Len(w[h]) : \A j \in Slots :
    w[h][q] = c /\ Earlier(p, j, q, i) => w[h][p] \in Clusters /\ d.data[w[h][p]][j] # Empty

NewName(d, w, h, skip, name) == \A c, i : Live(d, w, h, skip, c, i) => d.data[c][i].name # name

NewFirst(d, w, T, skip, first) ==
  first # 0 => \A h \in T : \A c, i : Live(d, w, h, skip, c, i) => d.data[c][i].first # first

Changed(d, now, c, i, e) ==
  /\ ShapeOK(now) /\ now.fat1 = d.fat1 /\ now.data[c][i] = e
  /\ \A b \in Clusters, j \in Slots : b # c \/ j # i => now.data[b][j] = d.data[b][j]

Joins(d, w, T, skip, h, c, i, e) ==
  /\ h \in T /\ In(w, h, c) /\ c \in Clusters /\ i \in Slots
  /\ <<c, i>> \in skip \/ ~entry_visible(d.data[c][i])
  /\ GoodEntry(w, T, e) /\ Clear(d, w, h, c, i)
  /\ NewName(d, w, h, skip, e.name) /\ NewFirst(d, w, T, skip, e.first)

LEMMA SoundJoined ==
  ASSUME NEW d, NEW now, NEW w, NEW T, NEW skip, NEW less, NEW h, NEW c, NEW i, NEW e,
         Sound(d, w, T, skip), Joins(d, w, T, skip, h, c, i, e), Changed(d, now, c, i, e),
         \A x \in skip : x # <<c, i>> => x \in less
  PROVE  Sound(now, w, T, less)
<1>. USE DEF Joins, Changed
<1>1. T \subseteq DOMAIN w /\ Chained(d.fat1, w)
  BY DEF Sound
<1>2. ~Live(d, w, h, skip, c, i)
  BY DEF Live
<1>3. ASSUME NEW g \in T, NEW b, NEW j, Live(now, w, g, less, b, j)
      PROVE  \/ b = c /\ j = i /\ g = h /\ now.data[b][j] = e
             \/ Live(d, w, g, skip, b, j) /\ now.data[b][j] = d.data[b][j]
  <2>1. In(w, g, b) /\ b \in Clusters /\ j \in Slots /\ <<b, j>> \notin less /\ entry_visible(now.data[b][j])
    BY <1>3 DEF Live
  <2>2. CASE b = c /\ j = i
    <3>1. In(w, g, c) /\ In(w, h, c)
      BY <2>1, <2>2
    <3>2. g = h
      BY <1>1, <3>1 DEF Chained
    <3>. QED
      BY <2>2, <3>2
  <2>3. CASE b # c \/ j # i
    <3>1. now.data[b][j] = d.data[b][j]
      BY <2>1, <2>3
    <3>2. <<b, j>> # <<c, i>>
      BY <2>3
    <3>3. <<b, j>> \notin skip
      BY <2>1, <3>2
    <3>. QED
      BY <2>1, <3>1, <3>3 DEF Live
  <2>. QED
    BY <2>2, <2>3
<1>4. EntriesGood(now, w, T, less)
  BY <1>3 DEF Sound, EntriesGood
<1>5. FirstsDiffer(now, w, T, less)
  <2> SUFFICES ASSUME NEW g \in T, NEW f \in T, NEW b, NEW j, NEW a, NEW l,
                      Live(now, w, g, less, b, j), Live(now, w, f, less, a, l),
                      now.data[b][j].first = now.data[a][l].first, now.data[b][j].first # 0
               PROVE  b = a /\ j = l
    BY DEF FirstsDiffer
  <2>1. CASE b = c /\ j = i /\ now.data[b][j] = e
    BY <1>3, <2>1 DEF NewFirst
  <2>2. CASE a = c /\ l = i /\ now.data[a][l] = e
    BY <1>3, <2>2 DEF NewFirst
  <2>3. CASE /\ Live(d, w, g, skip, b, j) /\ now.data[b][j] = d.data[b][j]
             /\ Live(d, w, f, skip, a, l) /\ now.data[a][l] = d.data[a][l]
    BY <2>3 DEF Sound, FirstsDiffer
  <2>. QED
    BY <1>3, <2>1, <2>2, <2>3
<1>6. NamesDiffer(now, w, T, less)
  <2> SUFFICES ASSUME NEW g \in T, NEW b, NEW j, NEW a, NEW l,
                      Live(now, w, g, less, b, j), Live(now, w, g, less, a, l),
                      now.data[b][j].name = now.data[a][l].name
               PROVE  b = a /\ j = l
    BY DEF NamesDiffer
  <2>1. CASE b = c /\ j = i /\ g = h /\ now.data[b][j] = e
    BY <1>3, <2>1 DEF NewName
  <2>2. CASE a = c /\ l = i /\ g = h /\ now.data[a][l] = e
    BY <1>3, <2>2 DEF NewName
  <2>3. CASE /\ Live(d, w, g, skip, b, j) /\ now.data[b][j] = d.data[b][j]
             /\ Live(d, w, g, skip, a, l) /\ now.data[a][l] = d.data[a][l]
    BY <2>3 DEF Sound, NamesDiffer
  <2>. QED
    BY <1>3, <2>1, <2>2, <2>3
<1>7. NothingHidden(now, w, T, less)
  <2> SUFFICES ASSUME NEW g \in T, NEW p \in 1..Len(w[g]), NEW q \in 1..Len(w[g]), NEW j \in Slots, NEW l \in Slots,
                      Earlier(p, j, q, l), Live(now, w, g, less, w[g][q], l)
               PROVE  w[g][p] \in Clusters /\ now.data[w[g][p]][j] # Empty
    BY DEF NothingHidden
  <2>1. w[g][p] \in Clusters /\ d.data[w[g][p]][j] # Empty
    <3>1. CASE w[g][q] = c /\ l = i /\ g = h
      BY <3>1 DEF Clear
    <3>2. CASE Live(d, w, g, skip, w[g][q], l)
      BY <3>2 DEF Sound, NothingHidden
    <3>. QED
      BY <1>3, <3>1, <3>2
  <2>2. e # Empty
    <3>1. e = Entry(e.name, e.dir, e.first, e.size)
      BY DEF GoodEntry
    <3>2. e.kind = "entry"
      BY <3>1 DEF Entry
    <3>. QED
      BY <3>2 DEF Empty
  <2>. QED
    BY <2>1, <2>2
<1>8. Chained(now.fat1, w) /\ Root \in T
  BY DEF Sound
<1>. QED
  BY <1>1, <1>4, <1>5, <1>6, <1>7, <1>8 DEF Sound

----------------------------------------------------------------------------
(***************************************************************************)
(* The writes.                                                             *)
(***************************************************************************)
LEMMA SetFat1Is ==
  ASSUME NEW d, ShapeOK(d), NEW c \in FatSet, NEW v \in Nat
  PROVE  /\ ShapeOK(SetFat1(d, c, v)) /\ SetFat1(d, c, v).data = d.data /\ SetFat1(d, c, v).fat2 = d.fat2
         /\ SetFat1(d, c, v).fat1[c] = v
         /\ \A e \in FatSet : e # c => SetFat1(d, c, v).fat1[e] = d.fat1[e]
<1>. DEFINE sector == FatSector(d, c, v)
            now == SetFat1(d, c, v)
<1>1. d = [fat1 |-> d.fat1, fat2 |-> d.fat2, data |-> d.data] /\ d.fat1 \in [FatSet -> Nat]
  BY DEF ShapeOK
<1>2. DOMAIN d.fat1 = FatSet
  BY <1>1
<1>3. now = [d EXCEPT !.fat1 = Overwrite(d.fat1, sector)]
  BY DEF SetFat1
<1>4. now = [fat1 |-> Overwrite(d.fat1, sector), fat2 |-> d.fat2, data |-> d.data]
  BY <1>1, <1>3
<1>5. \A e \in DOMAIN sector : e \in FatSet /\ sector[e] = IF e = c THEN v ELSE d.fat1[e]
  BY <1>2 DEF FatSector
<1>6. c \in DOMAIN sector
  <2>1. SameSector(c, c)
    BY DEF SameSector
  <2>. QED
    BY <1>2, <2>1 DEF FatSector
<1>. HIDE DEF sector, now
<1>7. \A e \in FatSet : now.fat1[e] = IF e = c THEN v ELSE d.fat1[e]
  BY <1>2, <1>4, <1>5, <1>6 DEF Overwrite
<1>8. now.fat1 = [e \in FatSet |-> now.fat1[e]]
  BY <1>2, <1>4 DEF Overwrite
<1>9. now.fat1 \in [FatSet -> Nat]
  BY <1>1, <1>7, <1>8
<1>10. now.data = d.data /\ now.fat2 = d.fat2
  BY <1>4
<1>11. now = [fat1 |-> now.fat1, fat2 |-> now.fat2, data |-> now.data]
  BY <1>4
<1>12. ShapeOK(now)
  BY <1>9, <1>10, <1>11 DEF ShapeOK
<1>. QED
  BY <1>7, <1>10, <1>12 DEF now

LEMMA SetFat2Is ==
  ASSUME NEW d, ShapeOK(d), NEW c \in FatSet, NEW v \in Nat
  PROVE  /\ ShapeOK(SetFat2(d, c, v)) /\ SetFat2(d, c, v).data = d.data /\ SetFat2(d, c, v).fat1 = d.fat1
         /\ SetFat2(d, c, v).fat2[c] = v
         /\ \A e \in FatSet : e # c => SetFat2(d, c, v).fat2[e] = d.fat2[e] \/ SetFat2(d, c, v).fat2[e] = d.fat1[e]
<1>. DEFINE sector == FatSector(d, c, v)
            now == SetFat2(d, c, v)
<1>1. d = [fat1 |-> d.fat1, fat2 |-> d.fat2, data |-> d.data] /\ d.fat1 \in [FatSet -> Nat] /\ d.fat2 \in [FatSet -> Nat]
  BY DEF ShapeOK
<1>2. DOMAIN d.fat1 = FatSet /\ DOMAIN d.fat2 = FatSet
  BY <1>1
<1>3. now = [d EXCEPT !.fat2 = Overwrite(d.fat2, sector)]
  BY DEF SetFat2
<1>4. now = [fat1 |-> d.fat1, fat2 |-> Overwrite(d.fat2, sector), data |-> d.data]
  BY <1>1, <1>3
<1>5. \A e \in DOMAIN sector : e \in FatSet /\ sector[e] = IF e = c THEN v ELSE d.fat1[e]
  BY <1>2 DEF FatSector
<1>6. c \in DOMAIN sector
  <2>1. SameSector(c, c)
    BY DEF SameSector
  <2>. QED
    BY <1>2, <2>1 DEF FatSector
<1>. HIDE DEF sector, now
<1>7. \A e \in FatSet : now.fat2[e] = IF e \in DOMAIN sector THEN sector[e] ELSE d.fat2[e]
  BY <1>2, <1>4 DEF Overwrite
<1>8. now.fat2[c] = v /\ \A e \in FatSet : e # c => now.fat2[e] = d.fat2[e] \/ now.fat2[e] = d.fat1[e]
  BY <1>5, <1>6, <1>7
<1>9. now.fat2 = [e \in FatSet |-> now.fat2[e]]
  BY <1>2, <1>4 DEF Overwrite
<1>10. \A e \in FatSet : now.fat2[e] \in Nat
  BY <1>1, <1>8
<1>11. now.fat2 \in [FatSet -> Nat]
  BY <1>9, <1>10
<1>12. now.data = d.data /\ now.fat1 = d.fat1
  BY <1>4
<1>13. now = [fat1 |-> now.fat1, fat2 |-> now.fat2, data |-> now.data]
  BY <1>4
<1>14. ShapeOK(now)
  BY <1>1, <1>11, <1>12, <1>13 DEF ShapeOK
<1>. QED
  BY <1>8, <1>12, <1>14 DEF now

WithRow(d, c, row) == [d EXCEPT !.data[c] = row]

LEMMA RowIs ==
  ASSUME NEW d, ShapeOK(d), NEW c \in Clusters, NEW row, row = [i \in Slots |-> row[i]]
  PROVE  /\ ShapeOK(WithRow(d, c, row)) /\ WithRow(d, c, row).fat1 = d.fat1 /\ WithRow(d, c, row).fat2 = d.fat2
         /\ WithRow(d, c, row).data[c] = row
         /\ \A b \in Clusters : b # c => WithRow(d, c, row).data[b] = d.data[b]
<1>. DEFINE now == WithRow(d, c, row)
<1>1. /\ d = [fat1 |-> d.fat1, fat2 |-> d.fat2, data |-> d.data]
      /\ d.data = [b \in Clusters |-> [i \in Slots |-> d.data[b][i]]]
      /\ d.fat1 \in [FatSet -> Nat] /\ d.fat2 \in [FatSet -> Nat]
  BY DEF ShapeOK
<1>2. now = [d EXCEPT !.data = [d.data EXCEPT ![c] = row]]
  BY DEF WithRow
<1>3. now = [fat1 |-> d.fat1, fat2 |-> d.fat2, data |-> [d.data EXCEPT ![c] = row]]
  BY <1>1, <1>2
<1>. HIDE DEF now
<1>4. now.fat1 = d.fat1 /\ now.fat2 = d.fat2 /\ now.data = [d.data EXCEPT ![c] = row]
      /\ now = [fat1 |-> now.fat1, fat2 |-> now.fat2, data |-> now.data]
  BY <1>3
<1>5. DOMAIN d.data = Clusters
  BY <1>1
<1>6. now.data[c] = row /\ \A b \in Clusters : b # c => now.data[b] = d.data[b]
  BY <1>4, <1>5
<1>7. \A b \in Clusters : d.data[b] = [i \in Slots |-> d.data[b][i]]
  <2> SUFFICES ASSUME NEW b \in Clusters PROVE d.data[b] = [i \in Slots |-> d.data[b][i]]
    OBVIOUS
  <2>1. d.data[b] = [x \in Clusters |-> [i \in Slots |-> d.data[x][i]]][b]
    BY <1>1
  <2>. QED
    BY <2>1
<1>8. \A b \in Clusters : now.data[b] = [i \in Slots |-> now.data[b][i]]
  BY <1>6, <1>7
<1>9. now.data = [b \in Clusters |-> now.data[b]]
  BY <1>4, <1>5
<1>10. now.data = [b \in Clusters |-> [i \in Slots |-> now.data[b][i]]]
  BY <1>8, <1>9
<1>11. ShapeOK(now)
  BY <1>1, <1>4, <1>10 DEF ShapeOK
<1>. QED
  BY <1>4, <1>6, <1>11 DEF now

LEMMA PutIs ==
  ASSUME NEW d, ShapeOK(d), NEW at, at[1] \in Clusters, at[2] \in Slots, NEW e
  PROVE  Changed(d, Put(d, at, e), at[1], at[2], e) /\ Put(d, at, e).fat2 = d.fat2
<1>. DEFINE c == at[1]
            i == at[2]
            row == [d.data[c] EXCEPT ![i] = e]
            now == WithRow(d, c, row)
<1>1. d.data[c] = [j \in Slots |-> d.data[c][j]]
  <2>1. d.data = [b \in Clusters |-> [j \in Slots |-> d.data[b][j]]]
    BY DEF ShapeOK
  <2>2. d.data[c] = [b \in Clusters |-> [j \in Slots |-> d.data[b][j]]][c]
    BY <2>1
  <2>. QED
    BY <2>2
<1>2. Put(d, at, e) = now
  BY DEF Put, WithRow
<1>3. DOMAIN d.data[c] = Slots
  BY <1>1
<1>4. row = [j \in Slots |-> row[j]] /\ row[i] = e /\ \A j \in Slots : j # i => row[j] = d.data[c][j]
  BY <1>3
<1>. HIDE DEF row, now
<1>5. ShapeOK(now) /\ now.fat1 = d.fat1 /\ now.fat2 = d.fat2 /\ now.data[c] = row
      /\ \A b \in Clusters : b # c => now.data[b] = d.data[b]
  BY <1>4, RowIs DEF now
<1>6. Changed(d, now, c, i, e)
  BY <1>4, <1>5 DEF Changed
<1>. QED
  BY <1>2, <1>5, <1>6

----------------------------------------------------------------------------
(***************************************************************************)
(* Cell n of a chain is slot IndexOf(n) of its Place(n)th cluster.         *)
(***************************************************************************)
Place(n)    == ((n - 1) \div SlotsPerCluster) + 1
CellNo(p, i) == (p - 1) * SlotsPerCluster + i

LEMMA Division ==
  ASSUME NEW a \in Nat, NEW b \in Nat, b > 0
  PROVE  /\ a \div b \in Nat /\ a % b \in Nat /\ a % b < b
         /\ a = b * (a \div b) + (a % b)
OBVIOUS

LEMMA CellPlace ==
  ASSUME NEW l \in Nat, NEW n \in 1..(l * SlotsPerCluster)
  PROVE  Place(n) \in 1..l /\ IndexOf(n) \in Slots /\ n = CellNo(Place(n), IndexOf(n))
<1>. USE Fat32Assumption
<1>. DEFINE q == (n - 1) \div SlotsPerCluster
            r == (n - 1) % SlotsPerCluster
<1>1. n \in Nat /\ n >= 1 /\ n <= l * SlotsPerCluster /\ n - 1 \in Nat
  OBVIOUS
<1>2. q \in Nat /\ r \in Nat /\ r < SlotsPerCluster /\ n - 1 = SlotsPerCluster * q + r
  BY <1>1, Division
<1>3. Place(n) = q + 1 /\ IndexOf(n) = r + 1
  BY DEF Place, IndexOf
<1>. HIDE DEF q, r
<1>4. q < l
  <2> SUFFICES ASSUME q >= l PROVE FALSE
    BY <1>2
  <2>1. SlotsPerCluster * q >= SlotsPerCluster * l
    BY <1>2
  <2>. QED
    BY <1>1, <1>2, <2>1
<1>5. CellNo(q + 1, r + 1) = n
  <2>1. (q + 1) - 1 = q
    BY <1>2
  <2>. QED
    BY <1>1, <1>2, <2>1 DEF CellNo
<1>. QED
  BY <1>2, <1>3, <1>4, <1>5 DEF Slots

LEMMA PlaceCell ==
  ASSUME NEW l \in Nat, NEW p \in 1..l, NEW i \in Slots
  PROVE  CellNo(p, i) \in 1..(l * SlotsPerCluster) /\ Place(CellNo(p, i)) = p /\ IndexOf(CellNo(p, i)) = i
<1>. USE Fat32Assumption DEF Slots
<1>. DEFINE n == CellNo(p, i)
            q == (n - 1) \div SlotsPerCluster
            r == (n - 1) % SlotsPerCluster
<1>1. n = (p - 1) * SlotsPerCluster + i /\ p - 1 \in Nat /\ p - 1 <= l - 1
  BY DEF CellNo
<1>2. n \in Nat /\ n >= 1
  BY <1>1
<1>3. (p - 1) * SlotsPerCluster <= (l - 1) * SlotsPerCluster
  BY <1>1
<1>4. n <= l * SlotsPerCluster
  <2>1. (l - 1) * SlotsPerCluster = l * SlotsPerCluster - SlotsPerCluster
    OBVIOUS
  <2>. QED
    BY <1>1, <1>3, <2>1
<1>5. q \in Nat /\ r \in Nat /\ r < SlotsPerCluster /\ n - 1 = SlotsPerCluster * q + r
  BY <1>2, Division
<1>6. Place(n) = q + 1 /\ IndexOf(n) = r + 1
  BY DEF Place, IndexOf
<1>. HIDE DEF n, q, r
<1>7. SlotsPerCluster * q + r = (p - 1) * SlotsPerCluster + (i - 1)
  BY <1>1, <1>2, <1>5
<1>8. q = p - 1 /\ r = i - 1
  <2>1. q <= p - 1
    <3> SUFFICES ASSUME q >= p PROVE FALSE
      BY <1>1, <1>5
    <3>1. SlotsPerCluster * q >= SlotsPerCluster * p
      BY <1>1, <1>5
    <3>2. SlotsPerCluster * p = (p - 1) * SlotsPerCluster + SlotsPerCluster
      BY <1>1
    <3>. QED
      BY <1>1, <1>5, <1>7, <3>1, <3>2
  <2>2. q >= p - 1
    <3> SUFFICES ASSUME q + 1 <= p - 1 PROVE FALSE
      BY <1>1, <1>5
    <3>1. SlotsPerCluster * (q + 1) <= SlotsPerCluster * (p - 1)
      BY <1>1, <1>5
    <3>2. SlotsPerCluster * (q + 1) = SlotsPerCluster * q + SlotsPerCluster
      BY <1>5
    <3>. QED
      BY <1>1, <1>5, <1>7, <3>1, <3>2
  <2>3. q = p - 1
    BY <1>1, <1>5, <2>1, <2>2
  <2>. QED
    BY <1>1, <1>5, <1>7, <2>3
<1>. QED
  BY <1>2, <1>4, <1>6, <1>8 DEF n

LEMMA CellOrder ==
  ASSUME NEW l \in Nat, NEW p \in 1..l, NEW i \in Slots, NEW q \in 1..l, NEW j \in Slots
  PROVE  Earlier(p, i, q, j) <=> CellNo(p, i) < CellNo(q, j)
<1>. USE Fat32Assumption DEF Slots, CellNo, Earlier
<1>1. CASE p < q
  <2>1. (p - 1) * SlotsPerCluster + SlotsPerCluster = p * SlotsPerCluster
    OBVIOUS
  <2>2. p * SlotsPerCluster <= (q - 1) * SlotsPerCluster
    BY <1>1
  <2>. QED
    BY <1>1, <2>1, <2>2
<1>2. CASE p = q
  BY <1>2
<1>3. CASE p > q
  <2>1. (q - 1) * SlotsPerCluster + SlotsPerCluster = q * SlotsPerCluster
    OBVIOUS
  <2>2. q * SlotsPerCluster <= (p - 1) * SlotsPerCluster
    BY <1>3
  <2>. QED
    BY <1>3, <2>1, <2>2
<1>. QED
  BY <1>1, <1>2, <1>3

----------------------------------------------------------------------------
(***************************************************************************)
(* Looking at a directory of a sound disk.                                 *)
(***************************************************************************)
LEMMA CellIn ==
  ASSUME NEW fat, NEW w, Chained(fat, w), NEW h \in DOMAIN w, NEW n \in CellsOf(w[h])
  PROVE  /\ n \in Nat /\ Place(n) \in 1..Len(w[h]) /\ IndexOf(n) \in Slots
         /\ n = CellNo(Place(n), IndexOf(n))
         /\ ClusterOf(w[h], n) = w[h][Place(n)] /\ In(w, h, ClusterOf(w[h], n))
<1>1. Len(w[h]) \in Nat
  BY ChainFacts
<1>2. Place(n) \in 1..Len(w[h]) /\ IndexOf(n) \in Slots /\ n = CellNo(Place(n), IndexOf(n))
  BY <1>1, CellPlace DEF CellsOf
<1>3. ClusterOf(w[h], n) = w[h][Place(n)]
  BY DEF ClusterOf, Place
<1>4. n \in Nat
  BY DEF CellsOf
<1>. QED
  BY <1>2, <1>3, <1>4 DEF In

LEMMA InCell ==
  ASSUME NEW fat, NEW w, Chained(fat, w), NEW h \in DOMAIN w, NEW p \in 1..Len(w[h]), NEW i \in Slots
  PROVE  /\ CellNo(p, i) \in CellsOf(w[h]) /\ CellNo(p, i) \in Nat /\ CellNo(p, i) > 0
         /\ ClusterOf(w[h], CellNo(p, i)) = w[h][p] /\ IndexOf(CellNo(p, i)) = i
<1>1. Len(w[h]) \in Nat
  BY ChainFacts
<1>2. CellNo(p, i) \in 1..(Len(w[h]) * SlotsPerCluster) /\ Place(CellNo(p, i)) = p /\ IndexOf(CellNo(p, i)) = i
  BY <1>1, PlaceCell
<1>. QED
  BY <1>2 DEF CellsOf, ClusterOf, Place

\* Every cell before the nth one of directory h is on the disk and was used once.
LEMMA ClearBefore ==
  ASSUME NEW d, NEW w, Chained(d.fat1, w), NEW h \in DOMAIN w, NEW n \in CellsOf(w[h]),
         \A m \in CellsOf(w[h]) : m < n => Readable(w[h], m) /\ Cell(d, w[h], m) # Empty
  PROVE  Clear(d, w, h, ClusterOf(w[h], n), IndexOf(n))
<1> SUFFICES ASSUME NEW p \in 1..Len(w[h]), NEW q \in 1..Len(w[h]), NEW j \in Slots,
                    w[h][q] = ClusterOf(w[h], n), Earlier(p, j, q, IndexOf(n))
             PROVE  w[h][p] \in Clusters /\ d.data[w[h][p]][j] # Empty
  BY DEF Clear
<1>1. Place(n) \in 1..Len(w[h]) /\ IndexOf(n) \in Slots /\ n = CellNo(Place(n), IndexOf(n)) /\ w[h][q] = w[h][Place(n)]
  BY CellIn
<1>2. q = Place(n)
  BY <1>1 DEF Chained, LinkedUp
<1>. DEFINE m == CellNo(p, j)
<1>3. m < n
  <2>1. Len(w[h]) \in Nat
    BY ChainFacts
  <2>. QED
    BY <1>1, <1>2, <2>1, CellOrder
<1>4. m \in CellsOf(w[h]) /\ ClusterOf(w[h], m) = w[h][p] /\ IndexOf(m) = j
  BY InCell
<1>5. Readable(w[h], m) /\ Cell(d, w[h], m) # Empty
  BY <1>3, <1>4
<1>. QED
  BY <1>4, <1>5 DEF Readable, Cell

\* fat32_alloc_entry_slot finds a slot an entry may go to, or else every slot is taken.
LEMMA FreeSlotIs ==
  ASSUME NEW d, NEW w, Chained(d.fat1, w), NEW h \in DOMAIN w
  PROVE  LET n == FreeSlot(d, w[h])
             c == ClusterOf(w[h], n)
             i == IndexOf(n)
         IN  /\ n = 0 => \A b, j : In(w, h, b) /\ j \in Slots => b \in Clusters /\ d.data[b][j] # Empty
             /\ n # 0 /\ Readable(w[h], n) =>
                  /\ In(w, h, c) /\ c \in Clusters /\ i \in Slots /\ Clear(d, w, h, c, i)
                  /\ ~entry_visible(d.data[c][i])
<1>. DEFINE S == {m \in CellsOf(w[h]) : ~Readable(w[h], m) \/ Cell(d, w[h], m) \in {Empty, Deleted}}
            n == FreeSlot(d, w[h])
<1>1. n = MinOrZero(S)
  BY DEF FreeSlot, FirstCell
<1>2. S \subseteq Nat
  BY DEF CellsOf
<1>3. (S = {} => n = 0) /\ (S # {} => n \in S /\ \A m \in S : n <= m)
  <2>. HIDE DEF S, n
  <2>. QED
    BY <1>1, <1>2, MinOrZeroIs
<1>4. \A m \in S : m # 0
  BY DEF CellsOf
<1>5. CASE S = {}
  <2>1. n = 0
    BY <1>3, <1>5
  <2>2. ASSUME NEW b, NEW j, In(w, h, b), j \in Slots
        PROVE  b \in Clusters /\ d.data[b][j] # Empty
    <3>1. PICK p \in 1..Len(w[h]) : w[h][p] = b
      BY <2>2 DEF In
    <3>2. CellNo(p, j) \in CellsOf(w[h]) /\ ClusterOf(w[h], CellNo(p, j)) = b /\ IndexOf(CellNo(p, j)) = j
      BY <2>2, <3>1, InCell
    <3>3. Readable(w[h], CellNo(p, j)) /\ Cell(d, w[h], CellNo(p, j)) \notin {Empty, Deleted}
      BY <1>5, <3>2
    <3>. QED
      BY <3>2, <3>3 DEF Readable, Cell
  <2>. QED
    BY <2>1, <2>2
<1>6. CASE S # {}
  <2>1. n \in S /\ \A m \in S : n <= m
    BY <1>3, <1>6
  <2>2. n # 0
    BY <1>4, <2>1
  <2>3. ASSUME Readable(w[h], n)
        PROVE  /\ In(w, h, ClusterOf(w[h], n)) /\ ClusterOf(w[h], n) \in Clusters /\ IndexOf(n) \in Slots
               /\ Clear(d, w, h, ClusterOf(w[h], n), IndexOf(n)) /\ ~entry_visible(d.data[ClusterOf(w[h], n)][IndexOf(n)])
    <3>1. n \in CellsOf(w[h]) /\ Cell(d, w[h], n) \in {Empty, Deleted}
      BY <2>1, <2>3
    <3>2. \A m \in CellsOf(w[h]) : m < n => m \notin S
      BY <1>2, <2>1
    <3>3. \A m \in CellsOf(w[h]) : m < n => Readable(w[h], m) /\ Cell(d, w[h], m) # Empty
      BY <3>2
    <3>. HIDE DEF S, n
    <3>4. Clear(d, w, h, ClusterOf(w[h], n), IndexOf(n))
      BY <3>1, <3>3, ClearBefore
    <3>5. In(w, h, ClusterOf(w[h], n)) /\ IndexOf(n) \in Slots
      BY <3>1, CellIn
    <3>6. ClusterOf(w[h], n) \in Clusters
      BY <2>3 DEF Readable
    <3>7. ~entry_visible(Empty) /\ ~entry_visible(Deleted)
      BY DEF entry_visible, Empty, Deleted
    <3>. QED
      BY <3>1, <3>4, <3>5, <3>6, <3>7 DEF Cell
  <2>. HIDE DEF S, n
  <2>4. n # 0 /\ Readable(w[h], n) =>
                  /\ In(w, h, ClusterOf(w[h], n)) /\ ClusterOf(w[h], n) \in Clusters /\ IndexOf(n) \in Slots
                  /\ Clear(d, w, h, ClusterOf(w[h], n), IndexOf(n)) /\ ~entry_visible(d.data[ClusterOf(w[h], n)][IndexOf(n)])
    BY <2>3
  <2>. QED
    BY <2>2, <2>4 DEF n
<1>. QED
  BY <1>5, <1>6

LEMMA LiveEntry ==
  ASSUME NEW d, NEW w, NEW T, NEW skip, Sound(d, w, T, skip), NEW h \in T, NEW c, NEW i, Live(d, w, h, skip, c, i)
  PROVE  LET e == d.data[c][i]
         IN  /\ GoodEntry(w, T, e) /\ e.kind = "entry" /\ parse_entry(e) = e /\ e # Empty
             /\ entry_visible(e) /\ c \in Clusters /\ i \in Slots /\ In(w, h, c)
<1>. DEFINE e == d.data[c][i]
<1>1. GoodEntry(w, T, e)
  BY DEF Sound, EntriesGood
<1>2. e = Entry(e.name, e.dir, e.first, e.size)
  BY <1>1 DEF GoodEntry
<1>3. e.kind = "entry"
  BY <1>2 DEF Entry
<1>4. parse_entry(e) = e /\ e # Empty
  BY <1>3 DEF parse_entry, Empty
<1>. QED
  BY <1>1, <1>3, <1>4 DEF Live

\* fat32_find_entry finds an entry of the directory with the name, and finds every one.
FoundIn(d, w, h, name, found) ==
  /\ found.r \in {"OK", "NOT_FOUND", "IO_ERROR"} /\ found # RootNode
  /\ found.r = "OK" =>
       \E c, i : /\ Live(d, w, h, None, c, i) /\ d.data[c][i].name = name
                 /\ found = [r |-> "OK", at |-> <<c, i>>, entry |-> d.data[c][i]]
  /\ \A c, i : Live(d, w, h, None, c, i) /\ d.data[c][i].name = name =>
       found = [r |-> "OK", at |-> <<c, i>>, entry |-> d.data[c][i]]

LEMMA FindEntry ==
  ASSUME NEW d, NEW w, NEW T, Sound(d, w, T, None), NEW h \in T, NEW name
  PROVE  FoundIn(d, w, h, name, find_entry(d, h, name))
<1>. DEFINE s == w[h]
            S == {m \in CellsOf(s) : ~Readable(s, m) \/ (Cell(d, s, m) = Empty \/ Matches(Cell(d, s, m), name))}
            n == MinOrZero(S)
            found == EntryAt(d, s, n)
<1>1. Chained(d.fat1, w) /\ h \in DOMAIN w
  BY DEF Sound
<1>2. Chain(d, h) = s
  <2>1. LinkedUp(d.fat1, w[h]) /\ w[h][1] = h
    BY <1>1 DEF Chained
  <2>. QED
    BY <2>1, ChainIs
<1>3. find_entry(d, h, name) = found
  BY <1>2 DEF find_entry, EntryIn, FirstCell
<1>4. S \subseteq Nat /\ \A m \in S : m # 0 /\ m \in CellsOf(s)
  BY DEF CellsOf
<1>5. (S = {} => n = 0) /\ (S # {} => n \in S /\ \A m \in S : n <= m)
  <2>. HIDE DEF S
  <2>. QED
    BY <1>4, MinOrZeroIs
<1>6. \A m \in CellsOf(s) : m \in S <=> ~Readable(s, m) \/ (Cell(d, s, m) = Empty \/ Matches(Cell(d, s, m), name))
  OBVIOUS
<1>7. NotFound # RootNode /\ IoError # RootNode
  <2>1. DOMAIN NotFound = {"r"} /\ DOMAIN IoError = {"r"} /\ "at" \in DOMAIN RootNode
    BY DEF NotFound, IoError, RootNode
  <2>. QED
    BY <2>1
<1>. HIDE DEF S, n
<1>8. ASSUME NEW m \in CellsOf(s)
      PROVE  /\ At(s, m) = <<ClusterOf(s, m), IndexOf(m)>> /\ Cell(d, s, m) = d.data[ClusterOf(s, m)][IndexOf(m)]
             /\ Readable(s, m) /\ Matches(Cell(d, s, m), name) =>
                  /\ Live(d, w, h, None, ClusterOf(s, m), IndexOf(m))
                  /\ Cell(d, s, m).name = name /\ parse_entry(Cell(d, s, m)) = Cell(d, s, m)
  <2>1. At(s, m) = <<ClusterOf(s, m), IndexOf(m)>> /\ Cell(d, s, m) = d.data[ClusterOf(s, m)][IndexOf(m)]
    BY DEF At, Cell
  <2>2. ASSUME Readable(s, m), Matches(Cell(d, s, m), name)
        PROVE  /\ Live(d, w, h, None, ClusterOf(s, m), IndexOf(m))
               /\ Cell(d, s, m).name = name /\ parse_entry(Cell(d, s, m)) = Cell(d, s, m)
    <3>1. In(w, h, ClusterOf(s, m)) /\ IndexOf(m) \in Slots
      BY <1>1, CellIn
    <3>2. Live(d, w, h, None, ClusterOf(s, m), IndexOf(m))
      BY <2>1, <2>2, <3>1 DEF Live, Readable, Matches, None
    <3>3. parse_entry(Cell(d, s, m)) = Cell(d, s, m)
      BY <2>1, <3>2, LiveEntry
    <3>. QED
      BY <2>2, <3>2, <3>3 DEF Matches
  <2>. QED
    BY <2>1, <2>2
<1>9. found.r \in {"OK", "NOT_FOUND", "IO_ERROR"} /\ found # RootNode
  <2>1. NotFound.r = "NOT_FOUND" /\ IoError.r = "IO_ERROR" /\ RootNode.r = "NOT_FOUND"
    BY DEF NotFound, IoError, RootNode
  <2>. QED
    BY <1>7, <2>1 DEF EntryAt
<1>10. ASSUME found.r = "OK"
       PROVE  \E c, i : /\ Live(d, w, h, None, c, i) /\ d.data[c][i].name = name
                        /\ found = [r |-> "OK", at |-> <<c, i>>, entry |-> d.data[c][i]]
  <2>1. NotFound.r # "OK" /\ IoError.r # "OK"
    BY DEF NotFound, IoError
  <2>2. n # 0 /\ Readable(s, n) /\ Cell(d, s, n) # Empty
        /\ found = [r |-> "OK", at |-> At(s, n), entry |-> parse_entry(Cell(d, s, n))]
    BY <1>10, <2>1 DEF EntryAt
  <2>3. n \in S
    BY <1>5, <2>2
  <2>4. n \in CellsOf(s) /\ Matches(Cell(d, s, n), name)
    BY <1>4, <1>6, <2>2, <2>3
  <2>5. /\ At(s, n) = <<ClusterOf(s, n), IndexOf(n)>> /\ Cell(d, s, n) = d.data[ClusterOf(s, n)][IndexOf(n)]
        /\ Live(d, w, h, None, ClusterOf(s, n), IndexOf(n))
        /\ Cell(d, s, n).name = name /\ parse_entry(Cell(d, s, n)) = Cell(d, s, n)
    BY <1>8, <2>2, <2>4
  <2>. QED
    BY <2>2, <2>5
<1>11. ASSUME NEW c, NEW i, Live(d, w, h, None, c, i), d.data[c][i].name = name
       PROVE  found = [r |-> "OK", at |-> <<c, i>>, entry |-> d.data[c][i]]
  <2>1. /\ In(w, h, c) /\ c \in Clusters /\ i \in Slots
        /\ entry_visible(d.data[c][i]) /\ parse_entry(d.data[c][i]) = d.data[c][i]
    BY <1>11, LiveEntry
  <2>2. PICK p \in 1..Len(w[h]) : w[h][p] = c
    BY <2>1 DEF In
  <2>. DEFINE m == CellNo(p, i)
  <2>3. m \in CellsOf(s) /\ m \in Nat /\ ClusterOf(s, m) = c /\ IndexOf(m) = i
    BY <1>1, <2>1, <2>2, InCell
  <2>. HIDE DEF m
  <2>4. Readable(s, m) /\ Matches(Cell(d, s, m), name)
    BY <1>11, <2>1, <2>3 DEF Readable, Cell, Matches
  <2>5. m \in S
    BY <1>6, <2>3, <2>4
  <2>6. n \in S /\ n <= m
    BY <1>5, <2>5
  <2>7. n \in CellsOf(s) /\ n # 0 /\ n \in Nat
    BY <1>4, <2>6
  <2>8. Readable(s, n) /\ Cell(d, s, n) # Empty
    <3>1. CASE n = m
      <4>1. Cell(d, s, m) = d.data[c][i] /\ d.data[c][i] # Empty
        BY <1>11, <2>3, LiveEntry DEF Cell
      <4>. QED
        BY <2>4, <3>1, <4>1
    <3>2. CASE n # m
      <4>1. Place(n) \in 1..Len(w[h]) /\ IndexOf(n) \in Slots /\ n = CellNo(Place(n), IndexOf(n))
            /\ ClusterOf(s, n) = w[h][Place(n)]
        BY <1>1, <2>7, CellIn
      <4>2. Len(w[h]) \in Nat
        BY <1>1, ChainFacts
      <4>3. CellNo(Place(n), IndexOf(n)) < CellNo(p, i)
        BY <2>3, <2>6, <2>7, <3>2, <4>1 DEF m
      <4>4. Earlier(Place(n), IndexOf(n), p, i)
        BY <2>1, <4>1, <4>2, <4>3, CellOrder
      <4>5. Live(d, w, h, None, w[h][p], i)
        BY <1>11, <2>2
      <4>6. w[h][Place(n)] \in Clusters /\ d.data[w[h][Place(n)]][IndexOf(n)] # Empty
        BY <2>1, <4>1, <4>4, <4>5 DEF Sound, NothingHidden
      <4>. QED
        BY <4>1, <4>6 DEF Readable, Cell
    <3>. QED
      BY <3>1, <3>2
  <2>9. Matches(Cell(d, s, n), name)
    BY <1>6, <2>6, <2>7, <2>8
  <2>10. /\ At(s, n) = <<ClusterOf(s, n), IndexOf(n)>> /\ Cell(d, s, n) = d.data[ClusterOf(s, n)][IndexOf(n)]
         /\ Live(d, w, h, None, ClusterOf(s, n), IndexOf(n))
         /\ Cell(d, s, n).name = name /\ parse_entry(Cell(d, s, n)) = Cell(d, s, n)
    BY <1>8, <2>7, <2>8, <2>9
  <2>11. ClusterOf(s, n) = c /\ IndexOf(n) = i
    BY <1>11, <2>10 DEF Sound, NamesDiffer
  <2>12. found = [r |-> "OK", at |-> At(s, n), entry |-> parse_entry(Cell(d, s, n))]
    BY <2>7, <2>8 DEF EntryAt
  <2>. QED
    BY <2>10, <2>11, <2>12
<1>. QED
  BY <1>3, <1>9, <1>10, <1>11 DEF FoundIn

\* What fat32_readdir shows are the entries of the directory.
LEMMA ReaddirIs ==
  ASSUME NEW d, NEW w, NEW T, Sound(d, w, T, None), NEW h \in T, NEW x \in fat32_readdir(d, h)
  PROVE  \E c, i : Live(d, w, h, None, c, i) /\ x = [at |-> <<c, i>>, entry |-> d.data[c][i]]
<1>. DEFINE s == w[h]
            S == {m \in CellsOf(s) : ~Readable(s, m) \/ Cell(d, s, m) = Empty}
            stop == MinOrZero(S)
<1>1. Chained(d.fat1, w) /\ h \in DOMAIN w
  BY DEF Sound
<1>2. Chain(d, h) = s
  <2>1. LinkedUp(d.fat1, w[h]) /\ w[h][1] = h
    BY <1>1 DEF Chained
  <2>. QED
    BY <2>1, ChainIs
<1>3. PICK n \in Visible(d, s, stop) : x = [at |-> At(s, n), entry |-> parse_entry(Cell(d, s, n))]
  BY <1>2 DEF fat32_readdir, FirstCell
<1>4. S \subseteq Nat
  BY DEF CellsOf
<1>5. (S = {} => stop = 0) /\ (S # {} => stop \in S /\ \A m \in S : stop <= m)
  <2>. HIDE DEF S
  <2>. QED
    BY <1>4, MinOrZeroIs
<1>6. n \in CellsOf(s) /\ (stop = 0 \/ n < stop) /\ entry_visible(Cell(d, s, n))
  BY <1>3 DEF Visible
<1>7. n \notin S
  <2>1. S # {} => stop # 0
    BY <1>5 DEF CellsOf
  <2>2. n \in Nat
    BY <1>6 DEF CellsOf
  <2>. HIDE DEF S, stop
  <2>3. SUFFICES ASSUME n \in S PROVE FALSE
    OBVIOUS
  <2>4. stop \in S /\ stop <= n /\ stop # 0
    BY <1>5, <2>1, <2>3
  <2>5. stop \in Nat /\ n < stop
    BY <1>4, <1>6, <2>4
  <2>. QED
    BY <2>2, <2>4, <2>5
<1>8. Readable(s, n)
  BY <1>6, <1>7
<1>. DEFINE c == ClusterOf(s, n)
            i == IndexOf(n)
<1>9. At(s, n) = <<c, i>> /\ Cell(d, s, n) = d.data[c][i] /\ c \in Clusters
  BY <1>8 DEF At, Cell, Readable
<1>10. In(w, h, c) /\ i \in Slots
  BY <1>1, <1>6, CellIn
<1>11. Live(d, w, h, None, c, i)
  BY <1>6, <1>9, <1>10 DEF Live, None
<1>12. parse_entry(d.data[c][i]) = d.data[c][i]
  BY <1>11, LiveEntry
<1>. QED
  BY <1>3, <1>9, <1>11, <1>12

\* An entry of the directory, wherever it stands, is one that fat32_readdir shows.
LEMMA StandingIs ==
  ASSUME NEW d, NEW w, NEW T, Sound(d, w, T, None), NEW h \in T, NEW x \in Standing(d, h)
  PROVE  /\ x \in fat32_readdir(d, h)
         /\ \E c, i : Live(d, w, h, None, c, i) /\ x = [at |-> <<c, i>>, entry |-> d.data[c][i]]
<1>. DEFINE s == w[h]
            S == {m \in CellsOf(s) : ~Readable(s, m) \/ Cell(d, s, m) = Empty}
            stop == MinOrZero(S)
<1>1. Chained(d.fat1, w) /\ h \in DOMAIN w
  BY DEF Sound
<1>2. Chain(d, h) = s
  <2>1. LinkedUp(d.fat1, w[h]) /\ w[h][1] = h
    BY <1>1 DEF Chained
  <2>. QED
    BY <2>1, ChainIs
<1>3. PICK n \in CellsOf(s) : /\ Readable(s, n) /\ entry_visible(Cell(d, s, n))
                              /\ x = [at |-> At(s, n), entry |-> parse_entry(Cell(d, s, n))]
  BY <1>2 DEF Standing
<1>4. S \subseteq Nat /\ 0 \notin S
  BY DEF CellsOf
<1>5. (S = {} => stop = 0) /\ (S # {} => stop \in S /\ \A m \in S : stop <= m)
  <2>. HIDE DEF S
  <2>. QED
    BY <1>4, MinOrZeroIs
<1>. DEFINE c == ClusterOf(s, n)
            i == IndexOf(n)
<1>6. At(s, n) = <<c, i>> /\ Cell(d, s, n) = d.data[c][i] /\ c \in Clusters
  BY <1>3 DEF At, Cell, Readable
<1>7. /\ In(w, h, c) /\ i \in Slots /\ n \in Nat
      /\ Place(n) \in 1..Len(s) /\ n = CellNo(Place(n), i) /\ c = s[Place(n)]
  BY <1>1, <1>3, CellIn
<1>8. Live(d, w, h, None, c, i)
  BY <1>3, <1>6, <1>7 DEF Live, None
<1>9. parse_entry(d.data[c][i]) = d.data[c][i] /\ d.data[c][i] # Empty
  BY <1>8, LiveEntry
<1>10. stop = 0 \/ n < stop
  <2>. SUFFICES ASSUME stop # 0, ~(n < stop) PROVE FALSE
    OBVIOUS
  <2>1. stop \in S
    BY <1>5
  <2>2. stop \in CellsOf(s) /\ (~Readable(s, stop) \/ Cell(d, s, stop) = Empty)
    BY <2>1
  <2>3. n # stop
    <3>. HIDE DEF stop
    <3>. QED
      BY <1>3, <1>6, <1>9, <2>2
  <2>. HIDE DEF S, stop
  <2>4. stop \in Nat /\ stop < n
    BY <1>4, <1>7, <2>1, <2>3
  <2>5. Place(stop) \in 1..Len(s) /\ IndexOf(stop) \in Slots /\ stop = CellNo(Place(stop), IndexOf(stop))
        /\ ClusterOf(s, stop) = s[Place(stop)]
    BY <1>1, <2>2, CellIn
  <2>6. Len(s) \in Nat
    BY <1>1, ChainFacts
  <2>7. Earlier(Place(stop), IndexOf(stop), Place(n), i)
    BY <1>7, <2>4, <2>5, <2>6, CellOrder
  <2>8. Live(d, w, h, None, s[Place(n)], i)
    BY <1>7, <1>8
  <2>9. s[Place(stop)] \in Clusters /\ d.data[s[Place(stop)]][IndexOf(stop)] # Empty
    BY <1>7, <2>5, <2>7, <2>8 DEF Sound, NothingHidden
  <2>. QED
    BY <2>2, <2>5, <2>9 DEF Readable, Cell
<1>11. n \in Visible(d, s, stop)
  BY <1>3, <1>10 DEF Visible
<1>12. x \in fat32_readdir(d, h)
  BY <1>2, <1>3, <1>11 DEF fat32_readdir, FirstCell
<1>. QED
  BY <1>3, <1>6, <1>8, <1>9, <1>12

----------------------------------------------------------------------------
(***************************************************************************)
(* fat32_open: one component of the path after another.                    *)
(***************************************************************************)
IsWalk(d, path, n, g) ==
  g = [i \in 0..n |-> IF i = 0 THEN RootNode ELSE Component(d, g[i - 1], path[i])]

LEMMA WalkExists ==
  ASSUME NEW d, NEW path, NEW n \in Nat
  PROVE  \E g : IsWalk(d, path, n, g)
<1>. DEFINE Bad == {m \in Nat : ~\E g : IsWalk(d, path, m, g)}
<1>1. SUFFICES ASSUME Bad # {} PROVE FALSE
  OBVIOUS
<1>2. PICK m \in Bad : \A l \in Bad : m <= l
  <2>. Bad \subseteq Nat
    OBVIOUS
  <2>. HIDE DEF Bad
  <2>. QED
    BY <1>1, LeastNumber
<1>3. m \in Nat /\ ~\E g : IsWalk(d, path, m, g)
  BY <1>2
<1>4. CASE m = 0
  <2>. DEFINE g == [i \in 0..0 |-> RootNode]
  <2>1. \A i \in 0..0 : i = 0
    OBVIOUS
  <2>2. g = [i \in 0..0 |-> IF i = 0 THEN RootNode ELSE Component(d, g[i - 1], path[i])]
    BY <2>1
  <2>. HIDE DEF g
  <2>. QED
    BY <1>3, <1>4, <2>2 DEF IsWalk
<1>5. CASE m # 0
  <2>1. m - 1 \in Nat /\ ~(m <= m - 1)
    BY <1>3, <1>5
  <2>2. m - 1 \notin Bad
    <3>. HIDE DEF Bad
    <3>. QED
      BY <1>2, <2>1
  <2>3. PICK g : IsWalk(d, path, m - 1, g)
    BY <2>1, <2>2
  <2>. DEFINE f == [i \in 0..m |-> IF i = m THEN Component(d, g[m - 1], path[m]) ELSE g[i]]
  <2>4. ASSUME NEW i \in 0..m
        PROVE  f[i] = IF i = 0 THEN RootNode ELSE Component(d, f[i - 1], path[i])
    <3>1. CASE i = m
      <4>1. m - 1 \in 0..m /\ m - 1 # m
        BY <1>3, <1>5
      <4>2. f[m - 1] = g[m - 1]
        BY <4>1
      <4>. QED
        BY <1>5, <3>1, <4>2
    <3>2. CASE i # m
      <4>1. i \in 0..(m - 1)
        BY <1>3, <3>2
      <4>2. g[i] = IF i = 0 THEN RootNode ELSE Component(d, g[i - 1], path[i])
        BY <2>3, <4>1 DEF IsWalk
      <4>3. CASE i = 0
        BY <3>2, <4>2, <4>3
      <4>4. CASE i # 0
        <5>1. i - 1 \in 0..m /\ i - 1 # m
          BY <1>3, <4>1, <4>4
        <5>. QED
          BY <3>2, <4>2, <4>4, <5>1
      <4>. QED
        BY <4>3, <4>4
    <3>. QED
      BY <3>1, <3>2
  <2>5. f = [i \in 0..m |-> f[i]]
    OBVIOUS
  <2>. HIDE DEF f
  <2>6. f = [i \in 0..m |-> IF i = 0 THEN RootNode ELSE Component(d, f[i - 1], path[i])]
    BY <2>4, <2>5
  <2>. QED
    BY <1>3, <2>6 DEF IsWalk
<1>. QED
  BY <1>4, <1>5

LEMMA WalkUnique ==
  ASSUME NEW d, NEW path, NEW longer, NEW n \in Nat, NEW m \in Nat, n <= m,
         \A i \in 1..n : longer[i] = path[i],
         NEW f, NEW g, IsWalk(d, path, n, f), IsWalk(d, longer, m, g)
  PROVE  g[n] = f[n]
<1>. DEFINE Bad == {i \in 0..n : f[i] # g[i]}
<1>1. SUFFICES ASSUME Bad # {} PROVE FALSE
  OBVIOUS
<1>2. PICK i \in Bad : \A l \in Bad : i <= l
  <2>. Bad \subseteq Nat
    OBVIOUS
  <2>. HIDE DEF Bad
  <2>. QED
    BY <1>1, LeastNumber
<1>3. i \in 0..n /\ f[i] # g[i]
  BY <1>2
<1>4. i \in 0..m
  BY <1>3
<1>5. i # 0
  BY <1>3, <1>4 DEF IsWalk
<1>6. i - 1 \in 0..n /\ ~(i <= i - 1) /\ i \in 1..n
  BY <1>3, <1>5
<1>7. f[i - 1] = g[i - 1]
  BY <1>2, <1>6
<1>8. f[i] = Component(d, f[i - 1], path[i])
  BY <1>3, <1>5 DEF IsWalk
<1>9. g[i] = Component(d, g[i - 1], longer[i])
  BY <1>4, <1>5 DEF IsWalk
<1>. QED
  BY <1>3, <1>6, <1>7, <1>8, <1>9

LEMMA OpenIsWalk ==
  ASSUME NEW d, NEW path, Len(path) \in Nat
  PROVE  \E g : IsWalk(d, path, Len(path), g) /\ fat32_open(d, path) = g[Len(path)]
<1>. DEFINE G(g) == g = [i \in 0..Len(path) |-> IF i = 0 THEN RootNode ELSE Component(d, g[i - 1], path[i])]
            node == CHOOSE g : G(g)
<1>1. \E g : G(g)
  <2>1. PICK g : IsWalk(d, path, Len(path), g)
    BY WalkExists
  <2>2. G(g)
    BY <2>1 DEF IsWalk
  <2>. QED
    BY <2>2
<1>2. G(node)
  BY <1>1
<1>3. fat32_open(d, path) = node[Len(path)]
  BY DEF fat32_open
<1>4. IsWalk(d, path, Len(path), node)
  BY <1>2 DEF IsWalk
<1>. QED
  BY <1>3, <1>4

LEMMA OpenRoot ==
  ASSUME NEW d
  PROVE  fat32_open(d, <<>>) = RootNode
<1>1. PICK g : IsWalk(d, <<>>, 0, g) /\ fat32_open(d, <<>>) = g[0]
  BY OpenIsWalk, Len(<<>>) = 0
<1>. QED
  BY <1>1 DEF IsWalk

LEMMA OpenStep ==
  ASSUME NEW d, NEW S, NEW path \in Seq(S), NEW x
  PROVE  fat32_open(d, Append(path, x)) = Component(d, fat32_open(d, path), x)
<1>. DEFINE n == Len(path)
            longer == Append(path, x)
<1>1. n \in Nat /\ Len(longer) = n + 1 /\ longer[n + 1] = x /\ \A i \in 1..n : longer[i] = path[i]
  OBVIOUS
<1>2. PICK f : IsWalk(d, path, n, f) /\ fat32_open(d, path) = f[n]
  BY <1>1, OpenIsWalk
<1>. HIDE DEF n, longer
<1>3. PICK g : IsWalk(d, longer, n + 1, g) /\ fat32_open(d, longer) = g[n + 1]
  <2>. Len(longer) \in Nat
    BY <1>1
  <2>. QED
    BY <1>1, OpenIsWalk
<1>4. n <= n + 1 /\ n + 1 \in Nat /\ n + 1 \in 0..(n + 1) /\ n + 1 # 0 /\ (n + 1) - 1 = n
  BY <1>1
<1>5. g[n] = f[n]
  BY <1>1, <1>2, <1>3, <1>4, WalkUnique
<1>6. g[n + 1] = Component(d, g[n], longer[n + 1])
  BY <1>3, <1>4 DEF IsWalk
<1>. QED
  BY <1>1, <1>2, <1>3, <1>5, <1>6 DEF longer

\* What is found by opening is an entry of a directory.
Opened(d, w, T, node) ==
  node.r = "OK" =>
    \E h \in T : \E c, i :
      Live(d, w, h, None, c, i) /\ node = [r |-> "OK", at |-> <<c, i>>, entry |-> d.data[c][i]]

LEMMA ComponentOpened ==
  ASSUME NEW d, NEW w, NEW T, Sound(d, w, T, None), NEW dir, Opened(d, w, T, dir), NEW name
  PROVE  Opened(d, w, T, Component(d, dir, name))
<1>1. Opened(d, w, T, NotFound) /\ Opened(d, w, T, InvalidPath)
  BY DEF Opened, NotFound, InvalidPath
<1>2. ASSUME dir = RootNode \/ dir.r = "OK", dir.entry.dir
      PROVE  dir.entry.first \in T
  <2>1. CASE dir = RootNode
    BY <2>1 DEF RootNode, Entry, Sound
  <2>2. CASE dir.r = "OK"
    <3>11. PICK h \in T : \E c, i : Live(d, w, h, None, c, i) /\ dir = [r |-> "OK", at |-> <<c, i>>, entry |-> d.data[c][i]]
      BY <2>2 DEF Opened
    <3>1. PICK c, i : Live(d, w, h, None, c, i) /\ dir = [r |-> "OK", at |-> <<c, i>>, entry |-> d.data[c][i]]
      BY <3>11
    <3>2. GoodEntry(w, T, d.data[c][i])
      BY <3>1, LiveEntry
    <3>. QED
      BY <1>2, <3>1, <3>2 DEF GoodEntry
  <2>. QED
    BY <1>2, <2>1, <2>2
<1>3. ASSUME dir = RootNode \/ dir.r = "OK", dir.entry.dir
      PROVE  Opened(d, w, T, find_entry(d, dir.entry.first, name))
  <2>1. FoundIn(d, w, dir.entry.first, name, find_entry(d, dir.entry.first, name))
    BY <1>2, <1>3, FindEntry
  <2>. QED
    BY <1>2, <1>3, <2>1 DEF FoundIn, Opened
<1>. QED
  BY <1>1, <1>3 DEF Component

LEMMA OpenIs ==
  ASSUME NEW d, NEW w, NEW T, Sound(d, w, T, None), NEW path, Len(path) \in Nat
  PROVE  Opened(d, w, T, fat32_open(d, path))
<1>. DEFINE n == Len(path)
<1>1. PICK g : IsWalk(d, path, n, g) /\ fat32_open(d, path) = g[n]
  BY OpenIsWalk
<1>. HIDE DEF n
<1>. n \in Nat
  BY DEF n
<1>. DEFINE Bad == {i \in 0..n : ~Opened(d, w, T, g[i])}
<1>2. SUFFICES ASSUME Bad # {} PROVE FALSE
  BY <1>1
<1>3. PICK i \in Bad : \A l \in Bad : i <= l
  <2>. Bad \subseteq Nat
    OBVIOUS
  <2>. HIDE DEF Bad
  <2>. QED
    BY <1>2, LeastNumber
<1>4. i \in 0..n /\ ~Opened(d, w, T, g[i])
  BY <1>3
<1>5. CASE i = 0
  <2>1. g[0] = RootNode
    BY <1>1, <1>4, <1>5 DEF IsWalk
  <2>2. Opened(d, w, T, RootNode)
    BY DEF Opened, RootNode
  <2>. QED
    BY <1>4, <1>5, <2>1, <2>2
<1>6. CASE i # 0
  <2>1. i - 1 \in 0..n /\ ~(i <= i - 1)
    BY <1>4, <1>6
  <2>2. Opened(d, w, T, g[i - 1])
    BY <1>3, <2>1
  <2>3. g[i] = Component(d, g[i - 1], path[i])
    BY <1>1, <1>4, <1>6 DEF IsWalk
  <2>. QED
    BY <1>4, <2>2, <2>3, ComponentOpened
<1>. QED
  BY <1>5, <1>6

LEMMA SeqLen ==
  ASSUME NEW s, IsSequence(s)
  PROVE  Len(s) \in Nat /\ (s # <<>> => Len(s) > 0 /\ Len(Parent(s)) \in Nat)
<1>1. PICK S : s \in Seq(S)
  BY DEF IsSequence
<1>2. Len(s) \in Nat /\ (s # <<>> => Len(s) > 0)
  BY <1>1
<1>3. Len(s) > 0 => Len(SubSeq(s, 1, Len(s) - 1)) \in Nat
  BY <1>1
<1>. QED
  BY <1>2, <1>3 DEF Parent

\* The directory a new name goes to, and what fat32_create, mkdir and rename make sure of.
LEMMA CanAddIs ==
  ASSUME NEW d, NEW w, NEW T, Sound(d, w, T, None), NEW path, IsSequence(path), CanAdd(d, path) = "OK"
  PROVE  /\ ParentCluster(d, path) \in T /\ Name(path) \in ShortNames
         /\ NewName(d, w, ParentCluster(d, path), None, Name(path))
<1>. DEFINE h == ParentCluster(d, path)
            found == find_entry(d, h, Name(path))
<1>1. path # <<>>
  BY DEF CanAdd
<1>2. CanAddIn(d, h, Name(path)) = "OK"
  BY <1>1 DEF CanAdd
<1>3. h # 0 /\ Name(path) \in ShortNames /\ Verdict(found.r) = "OK"
  BY <1>2 DEF CanAddIn
<1>4. h \in T
  <2>1. CASE Len(path) = 1
    BY <2>1 DEF ParentCluster, Sound
  <2>2. CASE Len(path) # 1
    <3>. DEFINE node == fat32_open(d, Parent(path))
    <3>1. h = DirectoryCluster(node)
      BY <2>2 DEF ParentCluster
    <3>2. node.r = "OK" /\ node.entry.dir /\ h = node.entry.first
      BY <1>3, <3>1 DEF DirectoryCluster
    <3>3. Opened(d, w, T, node)
      BY <1>1, SeqLen, OpenIs
    <3>. HIDE DEF node
    <3>14. PICK g \in T : \E c, i : Live(d, w, g, None, c, i) /\ node = [r |-> "OK", at |-> <<c, i>>, entry |-> d.data[c][i]]
      BY <3>2, <3>3 DEF Opened
    <3>4. PICK c, i : Live(d, w, g, None, c, i) /\ node = [r |-> "OK", at |-> <<c, i>>, entry |-> d.data[c][i]]
      BY <3>14
    <3>5. GoodEntry(w, T, d.data[c][i])
      BY <3>4, LiveEntry
    <3>. QED
      BY <3>2, <3>4, <3>5 DEF GoodEntry
  <2>. QED
    BY <2>1, <2>2
<1>. HIDE DEF h
<1>5. FoundIn(d, w, h, Name(path), found)
  BY <1>4, FindEntry
<1>6. found.r = "NOT_FOUND"
  BY <1>3, <1>5 DEF FoundIn, Verdict
<1>7. NewName(d, w, h, None, Name(path))
  BY <1>5, <1>6 DEF FoundIn, NewName
<1>. QED
  BY <1>3, <1>4, <1>7 DEF h

----------------------------------------------------------------------------
(***************************************************************************)
(* What holds at each point of each call, of the disk d, the frame f of    *)
(* the call and the disk b it found.                                       *)
(***************************************************************************)
CellAt(d, at) == d.data[at[1]][at[2]]

\* create, mkdir and rename add the entry f.entry, whose name is new in directory f.dir.
Adds(d, f, b, w, T, skip, first) ==
  /\ f.op \in {"create", "mkdir", "rename"}
  /\ f.dir \in T /\ f.entry.name \in ShortNames
  /\ NewName(d, w, f.dir, skip, f.entry.name)
  /\ f.op # "rename" => f.entry = Entry(f.entry.name, f.op = "mkdir", IF f.op = "mkdir" THEN first ELSE 0, 0)
  /\ f.op = "rename" =>
       /\ \E h \in T : Live(d, w, h, skip, f.at[1], f.at[2])
       /\ f.entry = [CellAt(d, f.at) EXCEPT !.name = f.entry.name]
       /\ CellAt(b, f.at) = CellAt(d, f.at)

\* The slot found, unless it is in a cluster past the disk.
SlotOK(d, f, w) ==
  /\ In(w, f.dir, f.slot[1])
  /\ f.slot[1] \in Clusters =>
       /\ f.slot[2] \in Slots /\ ~entry_visible(CellAt(d, f.slot))
       /\ Clear(d, w, f.dir, f.slot[1], f.slot[2])

\* Every slot of the directory, but for those of cluster x, has been used.
FullBut(d, f, w, x) ==
  \A c, i : In(w, f.dir, c) /\ c # x /\ i \in Slots => c \in Clusters /\ d.data[c][i] # Empty

Marked(d, w, c) == Unused(w, c) /\ d.fat1[c] = END

ShowsNothing(d, c) == \A i \in Slots : ~entry_visible(d.data[c][i])

\* The directory needs another cluster, and has it, but not zeroed yet.
Extending(d, f, b, w, T) ==
  /\ Sound(d, w, T, None) /\ Adds(d, f, b, w, T, None, 0)
  /\ FullBut(d, f, w, 0) /\ f.from = Last(w[f.dir])

Extended(d, f, b, w, T) ==
  /\ Sound(d, w, T, Row(f.new)) /\ Adds(d, f, b, w, T, Row(f.new), 0)
  /\ FullBut(d, f, w, f.new) /\ f.new = Last(w[f.dir])

\* mkdir has a slot and needs a cluster for the new directory.
Making(d, f, b, w, T) ==
  /\ Sound(d, w, T, None) /\ Adds(d, f, b, w, T, None, 0) /\ SlotOK(d, f, w) /\ f.op = "mkdir"

\* Everything is ready for the new entry.
Entering(d, f, b, w, T) ==
  /\ Sound(d, w, T, None) /\ Adds(d, f, b, w, T, None, f.new) /\ SlotOK(d, f, w)
  /\ f.op = "mkdir" => Marked(d, w, f.new) /\ f.new \in Clusters /\ ShowsNothing(d, f.new)

\* fat32_write_status: the entry of the file is as the call found it.
Filling(d, f, w, T) ==
  /\ Sound(d, w, T, None) /\ f.op = "write"
  /\ \E h \in T : Live(d, w, h, None, f.at[1], f.at[2])
  /\ CellAt(d, f.at) = f.entry /\ ~f.entry.dir
  /\ f.size \in Nat /\ f.offset \in Nat /\ f.written \in Nat /\ IsSequence(f.input)

Starting(d, f, w, T) == Filling(d, f, w, T) /\ f.entry.first = 0 /\ f.size = 0 /\ f.offset = 0

Chosen(d, f, w, T) ==
  /\ Filling(d, f, w, T) /\ f.first \in DOMAIN w \ T
  /\ f.entry.first = f.first \/ (f.entry.first = 0 /\ NewFirst(d, w, T, None, f.first))
  /\ f.size <= SlotsPerCluster * Len(w[f.first]) /\ f.offset <= SlotsPerCluster * Len(w[f.first])

\* remove and rmdir: what is reached from cluster c on is freed, and no other chain has it.
Doomed(d, w, c) ==
  Stops(c) \/ \E s : LinkedUp(d.fat1, s) /\ s[1] = c /\ \A j \in 1..Len(s) : Unused(w, s[j])

Removing(d, f, b, w, T) ==
  /\ f.op \in {"remove", "rmdir"} /\ f.at[1] \in Clusters /\ f.at[2] \in Slots
  /\ Sound(d, w, T, Only(f.at))
  /\ \E v, U : Sound(b, v, U, None)

\* rename: the old entry is still there.
Renamed(d, f, b, w, T) ==
  /\ f.op = "rename" /\ f.at[1] \in Clusters /\ f.at[2] \in Slots /\ f.slot[1] \in Clusters
  /\ Sound(d, w, T, Only(f.at))
  /\ CellAt(d, f.slot) = f.entry /\ CellAt(b, f.at) = CellAt(d, f.at)

Allocating(label, d, f, b, w, T) ==
  /\ label # "alloc" => Unused(w, f.new)
  /\ label = "mark2" => d.fat1[f.new] = END
  /\ \/ f.why = "slot" /\ Extending(d, f, b, w, T)
     \/ f.why = "dir" /\ Making(d, f, b, w, T)
     \/ f.why = "first" /\ Starting(d, f, w, T)
     \/ f.why = "extend" /\ Chosen(d, f, w, T) /\ f.from = Last(w[f.first])

Linking1(d, f, b, w, T) ==
  \/ f.why = "slot" /\ Extending(d, f, b, w, T) /\ f.to = f.new /\ Marked(d, w, f.new)
  \/ f.why = "extend" /\ Chosen(d, f, w, T) /\ f.from = Last(w[f.first]) /\ f.to = f.new /\ Marked(d, w, f.new)
  \/ f.why = "undo" /\ Sound(d, w, T, None) /\ Unused(w, f.from) /\ f.to = 0
  \/ /\ f.why = "free" /\ Removing(d, f, b, w, T) /\ ~Stops(f.from) /\ Doomed(d, w, f.from)
     /\ f.next = d.fat1[f.from] /\ f.to = 0

Linking2(d, f, b, w, T) ==
  \/ f.why = "slot" /\ Extended(d, f, b, w, T) /\ f.from \in FatSet /\ f.to = f.new
  \/ f.why = "extend" /\ Chosen(d, f, w, T) /\ f.from \in FatSet /\ f.to \in FatSet
  \/ f.why = "undo" /\ Sound(d, w, T, None) /\ f.from \in FatSet /\ f.to = 0
  \/ f.why = "free" /\ Removing(d, f, b, w, T) /\ Doomed(d, w, f.next) /\ f.from \in FatSet /\ f.to = 0

Labels == {"idle", "slot", "alloc", "mark1", "mark2", "link1", "link2", "zero", "dot", "dotdot", "entry",
           "delete", "free", "chunk", "put", "update"}

State(label, d, f, b, w, T) ==
  /\ label \in Labels
  /\ label = "idle" => Sound(d, w, T, None)
  /\ label = "slot" => Sound(d, w, T, None) /\ Adds(d, f, b, w, T, None, 0)
  /\ label \in {"alloc", "mark1", "mark2"} => Allocating(label, d, f, b, w, T)
  /\ label = "link1" => Linking1(d, f, b, w, T)
  /\ label = "link2" => Linking2(d, f, b, w, T)
  /\ label = "zero" => \/ f.why = "slot" /\ Extended(d, f, b, w, T)
                       \/ f.why = "dir" /\ Making(d, f, b, w, T) /\ Marked(d, w, f.new)
  /\ label \in {"dot", "dotdot"} =>
       Making(d, f, b, w, T) /\ Marked(d, w, f.new) /\ f.new \in Clusters /\ ShowsNothing(d, f.new)
  /\ label = "entry" => Entering(d, f, b, w, T)
  /\ label = "delete" => Removing(d, f, b, w, T) \/ Renamed(d, f, b, w, T)
  /\ label = "free" => Removing(d, f, b, w, T) /\ Doomed(d, w, f.from)
  /\ label = "chunk" => Chosen(d, f, w, T)
  /\ label = "put" => /\ Chosen(d, f, w, T) /\ In(w, f.first, f.from)
                      /\ f.offset \div SlotsPerCluster < Len(w[f.first]) /\ f.written < Len(f.input)
  /\ label = "update" => Chosen(d, f, w, T)

FrameOK(f) == DOMAIN f = DOMAIN NoFrame

Quiet == ~torn /\ ~failed

\* The inductive invariant.
VolumeInv == Quiet => \E w, T : State(pc, disk, k, before, w, T)

\* The frame has its fields, and whoever asked for a cluster or a link is one of the callers.
CallerInv ==
  /\ FrameOK(k)
  /\ pc \in {"alloc", "mark1", "mark2"} => k.why \in {"slot", "dir", "first", "extend"}
  /\ pc \in {"link1", "link2"} => k.why \in {"slot", "extend", "free", "undo"}

(***************************************************************************)
(* A fault on the disk ends what is claimed; losing power ends the call.   *)
(***************************************************************************)
LEMMA FaultNotQuiet ==
  ASSUME Fault("write") \/ Fault("read")
  PROVE  ~Quiet'
<1>1. failed'
  BY DEF Fault
<1>. QED
  BY <1>1 DEF Quiet

LEMMA WithIs ==
  ASSUME NEW frame, NEW label, With(frame, label), NoFault, Quiet'
  PROVE  Quiet /\ k' = frame /\ pc' = label /\ before' = before
BY DEF With, NoFault, Quiet

\* A call that returns leaves a sound disk, and the next one finds it.
LEMMA ReturnIs ==
  ASSUME NEW r, Return(r), NEW w, NEW T, Sound(disk', w, T, None)
  PROVE  VolumeInv'
<1>1. pc' = "idle"
  BY DEF Return
<1>2. State(pc', disk', k', before', w, T)
  BY <1>1 DEF State, Labels
<1>. QED
  BY <1>1, <1>2 DEF VolumeInv

LEMMA ReturnQuiet ==
  ASSUME NEW r, Return(r), NoFault \/ Fault("crash"), Quiet'
  PROVE  Quiet /\ (r # "OK" => ~TornBy(disk'))
<1>1. ~failed
  BY DEF NoFault, Fault, Quiet
<1>2. ~torn' /\ torn' = IF r = "OK" THEN torn ELSE TornBy(disk')
  BY DEF Return, Quiet
<1>3. CASE r = "OK"
  BY <1>1, <1>2, <1>3 DEF Quiet
<1>4. CASE r # "OK"
  <2>1. ~TornBy(disk')
    BY <1>2, <1>4
  <2>2. ~torn
    BY <2>1 DEF TornBy
  <2>. QED
    BY <1>1, <2>1, <2>2 DEF Quiet
<1>. QED
  BY <1>3, <1>4

----------------------------------------------------------------------------
(***************************************************************************)
(* A write to the FAT changes nothing that a directory shows.              *)
(***************************************************************************)
Alike(d, w, skip, now, v, less, T) ==
  /\ now.data = d.data
  /\ \A h \in T : \A c, i : Live(now, v, h, less, c, i) <=> Live(d, w, h, skip, c, i)

LEMMA AlikeData ==
  ASSUME NEW d, NEW now, NEW w, NEW T, NEW skip, now.data = d.data
  PROVE  Alike(d, w, skip, now, w, skip, T)
BY DEF Alike, Live

LEMMA AlikeAdding ==
  ASSUME NEW d, NEW now, NEW f, NEW b, NEW w, NEW v, NEW T, NEW skip, NEW less, NEW first,
         Adds(d, f, b, w, T, skip, first), Alike(d, w, skip, now, v, less, T)
  PROVE  Adds(now, f, b, v, T, less, first)
<1>1. NewName(now, v, f.dir, less, f.entry.name)
  BY DEF Adds, Alike, NewName
<1>2. CellAt(now, f.at) = CellAt(d, f.at)
  BY DEF Alike, CellAt
<1>3. \A h \in T : Live(d, w, h, skip, f.at[1], f.at[2]) => Live(now, v, h, less, f.at[1], f.at[2])
  BY DEF Alike
<1>. QED
  BY <1>1, <1>2, <1>3 DEF Adds

LEMMA AlikeFilling ==
  ASSUME NEW d, NEW now, NEW f, NEW w, NEW v, NEW T, Filling(d, f, w, T), Alike(d, w, None, now, v, None, T),
         Sound(now, v, T, None)
  PROVE  Filling(now, f, v, T)
<1>1. CellAt(now, f.at) = CellAt(d, f.at)
  BY DEF Alike, CellAt
<1>2. \A h \in T : Live(d, w, h, None, f.at[1], f.at[2]) => Live(now, v, h, None, f.at[1], f.at[2])
  BY DEF Alike
<1>. QED
  BY <1>1, <1>2 DEF Filling

LEMMA AlikeFirst ==
  ASSUME NEW d, NEW now, NEW w, NEW v, NEW T, NEW skip, NEW less, NEW first,
         NewFirst(d, w, T, skip, first), Alike(d, w, skip, now, v, less, T)
  PROVE  NewFirst(now, v, T, less, first)
BY DEF NewFirst, Alike

LEMMA DataSame ==
  ASSUME NEW d, NEW now, NEW f, NEW b, NEW w, NEW T, now.data = d.data, Sound(now, w, T, None)
  PROVE  /\ Extending(d, f, b, w, T) => Extending(now, f, b, w, T)
         /\ Making(d, f, b, w, T) => Making(now, f, b, w, T)
         /\ Starting(d, f, w, T) => Starting(now, f, w, T)
         /\ Chosen(d, f, w, T) => Chosen(now, f, w, T)
<1>1. Alike(d, w, None, now, w, None, T)
  BY AlikeData
<1>2. Adds(d, f, b, w, T, None, 0) => Adds(now, f, b, w, T, None, 0)
  BY <1>1, AlikeAdding
<1>3. Filling(d, f, w, T) => Filling(now, f, w, T)
  BY <1>1, AlikeFilling
<1>4. SlotOK(d, f, w) => SlotOK(now, f, w)
  BY DEF SlotOK, CellAt, Clear
<1>5. FullBut(d, f, w, 0) => FullBut(now, f, w, 0)
  BY DEF FullBut
<1>6. NewFirst(d, w, T, None, f.first) => NewFirst(now, w, T, None, f.first)
  BY <1>1, AlikeFirst
<1>. QED
  BY <1>2, <1>3, <1>4, <1>5, <1>6 DEF Extending, Making, Starting, Chosen

Fat1Put(d, now, c, v) ==
  /\ ShapeOK(now) /\ now.data = d.data /\ now.fat1[c] = v
  /\ \A e \in FatSet : e # c => now.fat1[e] = d.fat1[e]

Fat2Put(d, now) == ShapeOK(now) /\ now.data = d.data /\ now.fat1 = d.fat1

LEMMA FatNumbers ==
  /\ \A c \in All : c \in FatSet /\ c \in Nat /\ c # 0 /\ ~Stops(c)
  /\ END \in Nat /\ 0 \in FatSet /\ 0 \in Nat
BY Fat32Assumption DEF All, FatSet, END, Stops, is_end_cluster

LEMMA Fat1PutIs ==
  ASSUME NEW d, ShapeOK(d), NEW c \in FatSet, NEW v \in Nat
  PROVE  Fat1Put(d, SetFat1(d, c, v), c, v)
BY SetFat1Is DEF Fat1Put

LEMMA Fat2PutIs ==
  ASSUME NEW d, ShapeOK(d), NEW c \in FatSet, NEW v \in Nat
  PROVE  Fat2Put(d, SetFat2(d, c, v))
BY SetFat2Is DEF Fat2Put

LEMMA SoundFat1 ==
  ASSUME NEW d, NEW now, NEW w, NEW T, NEW skip, Sound(d, w, T, skip), NEW c, Unused(w, c), NEW v,
         Fat1Put(d, now, c, v)
  PROVE  Sound(now, w, T, skip)
<1>1. \A h \in DOMAIN w : \A e : In(w, h, e) => e \in FatSet /\ e # c
  BY InChain, FatNumbers DEF Sound, Unused
<1>2. \A h \in DOMAIN w : \A e : In(w, h, e) => now.fat1[e] = d.fat1[e]
  BY <1>1 DEF Fat1Put
<1>3. ShapeOK(now) /\ now.data = d.data
  BY DEF Fat1Put
<1>4. \A h \in T : \A e \in Clusters : In(w, h, e) => now.data[e] = d.data[e]
  BY <1>3
<1>. QED
  BY <1>2, <1>3, <1>4, SoundElsewhere

LEMMA SoundFat2 ==
  ASSUME NEW d, NEW now, NEW w, NEW T, NEW skip, Sound(d, w, T, skip), Fat2Put(d, now)
  PROVE  Sound(now, w, T, skip)
<1>1. ShapeOK(now) /\ now.data = d.data /\ now.fat1 = d.fat1
  BY DEF Fat2Put
<1>2. \A h \in DOMAIN w : \A e : In(w, h, e) => now.fat1[e] = d.fat1[e]
  BY <1>1
<1>3. \A h \in T : \A e \in Clusters : In(w, h, e) => now.data[e] = d.data[e]
  BY <1>1
<1>. QED
  BY <1>1, <1>2, <1>3, SoundElsewhere

\* Linking an allocated cluster to the end of a chain.
LEMMA GrowsIs ==
  ASSUME NEW d, NEW now, NEW w, NEW h \in DOMAIN w, Chained(d.fat1, w), NEW new, Marked(d, w, new),
         Fat1Put(d, now, Last(w[h]), new)
  PROVE  Grows(d.fat1, now.fat1, w, h, new)
<1>1. In(w, h, Last(w[h]))
  BY ChainFacts DEF Last
<1>2. new # Last(w[h]) /\ new \in FatSet
  BY <1>1, FatNumbers DEF Marked, Unused
<1>3. now.fat1[new] = END
  BY <1>2 DEF Fat1Put, Marked
<1>4. \A g \in DOMAIN w : \A c : In(w, g, c) /\ c # Last(w[h]) => now.fat1[c] = d.fat1[c]
  BY InChain, FatNumbers DEF Fat1Put
<1>. QED
  BY <1>3, <1>4 DEF Grows, Fat1Put, Marked

LEMMA AlikeGrown ==
  ASSUME NEW d, NEW now, NEW w, NEW T, NEW h, NEW new,
         Sound(d, w, T, None), Grows(d.fat1, now.fat1, w, h, new), now.data = d.data
  PROVE  Alike(d, w, None, now, Grown(w, h, new), GrownSkip(T, h, new), T)
<1>. DEFINE v == Grown(w, h, new)
<1>1. Chained(d.fat1, w) /\ T \subseteq DOMAIN w
  BY DEF Sound
<1>2. \A g \in DOMAIN w : \A c : In(v, g, c) <=> In(w, g, c) \/ (g = h /\ c = new)
  BY <1>1, GrownIs
<1>3. \A g \in DOMAIN w : ~In(w, g, new)
  BY DEF Grows, Unused
<1>. HIDE DEF v
<1>4. \A c, i : <<c, i>> \in GrownSkip(T, h, new) <=> h \in T /\ c = new /\ i \in Slots
  BY DEF GrownSkip, Row, None
<1>5. ASSUME NEW g \in T, NEW c, NEW i
      PROVE  Live(now, v, g, GrownSkip(T, h, new), c, i) <=> Live(d, w, g, None, c, i)
  BY <1>1, <1>2, <1>3, <1>4 DEF Live, None
<1>. QED
  BY <1>5 DEF Alike, v

----------------------------------------------------------------------------
(***************************************************************************)
(* The steps.  First what depends on the frame: only some of its fields.   *)
(***************************************************************************)
SameAdd(f, g)   == g.op = f.op /\ g.dir = f.dir /\ g.entry = f.entry /\ g.at = f.at
SameWrite(f, g) ==
  /\ g.op = f.op /\ g.at = f.at /\ g.entry = f.entry /\ g.size = f.size /\ g.offset = f.offset
  /\ g.written = f.written /\ g.input = f.input

LEMMA FrameAdding ==
  ASSUME NEW d, NEW f, NEW g, NEW b, NEW w, NEW T, SameAdd(f, g)
  PROVE  /\ \A skip, first : Adds(d, f, b, w, T, skip, first) => Adds(d, g, b, w, T, skip, first)
         /\ \A x : FullBut(d, f, w, x) => FullBut(d, g, w, x)
         /\ g.from = f.from /\ Extending(d, f, b, w, T) => Extending(d, g, b, w, T)
         /\ g.new = f.new /\ Extended(d, f, b, w, T) => Extended(d, g, b, w, T)
         /\ g.slot = f.slot /\ SlotOK(d, f, w) => SlotOK(d, g, w)
         /\ g.slot = f.slot /\ Making(d, f, b, w, T) => Making(d, g, b, w, T)
<1>1. \A skip, first : Adds(d, f, b, w, T, skip, first) => Adds(d, g, b, w, T, skip, first)
  BY DEF Adds, SameAdd
<1>2. \A x : FullBut(d, f, w, x) => FullBut(d, g, w, x)
  BY DEF FullBut, SameAdd
<1>3. g.slot = f.slot /\ SlotOK(d, f, w) => SlotOK(d, g, w)
  BY DEF SlotOK, SameAdd
<1>4. g.dir = f.dir /\ g.op = f.op
  BY DEF SameAdd
<1>. QED
  BY <1>1, <1>2, <1>3, <1>4 DEF Extending, Extended, Making

LEMMA FrameWrite ==
  ASSUME NEW d, NEW f, NEW g, NEW w, NEW T, SameWrite(f, g)
  PROVE  /\ Filling(d, f, w, T) => Filling(d, g, w, T)
         /\ Starting(d, f, w, T) => Starting(d, g, w, T)
         /\ g.first = f.first /\ Chosen(d, f, w, T) => Chosen(d, g, w, T)
<1>1. Filling(d, f, w, T) => Filling(d, g, w, T)
  BY DEF Filling, SameWrite
<1>2. g.entry = f.entry /\ g.size = f.size /\ g.offset = f.offset
  BY DEF SameWrite
<1>. QED
  BY <1>1, <1>2 DEF Starting, Chosen

LEMMA FrameRemove ==
  ASSUME NEW d, NEW f, NEW g, NEW b, NEW w, NEW T, g.op = f.op, g.at = f.at, Removing(d, f, b, w, T)
  PROVE  Removing(d, g, b, w, T)
BY DEF Removing

LEMMA MinIs ==
  ASSUME NEW S, S \subseteq Nat, S # {}
  PROVE  Min(S) \in S /\ \A n \in S : Min(S) <= n
<1>1. MinOrZero(S) = Min(S)
  BY DEF MinOrZero
<1>. QED
  BY <1>1, MinOrZeroIs

LEMMA FreeUnused ==
  ASSUME NEW d, NEW w, Chained(d.fat1, w), NEW c \in FreeClusters(d)
  PROVE  Unused(w, c)
<1>1. c \in All /\ d.fat1[c] = 0
  BY DEF FreeClusters, All
<1>. QED
  BY <1>1, InChain DEF Unused

LEMMA AllocatingSound ==
  ASSUME NEW label, NEW d, NEW f, NEW b, NEW w, NEW T, Allocating(label, d, f, b, w, T)
  PROVE  Sound(d, w, T, None)
BY DEF Allocating, Extending, Making, Starting, Chosen, Filling

\* The allocation goes on with another frame that differs in the cluster found.
LEMMA AllocatingFrame ==
  ASSUME NEW label, NEW next, NEW d, NEW now, NEW f, NEW g, NEW b, NEW w, NEW T, Allocating(label, d, f, b, w, T),
         SameAdd(f, g), SameWrite(f, g), g.slot = f.slot, g.from = f.from, g.first = f.first, g.why = f.why,
         now.data = d.data, Sound(now, w, T, None),
         next # "alloc" => Unused(w, g.new),
         next = "mark2" => now.fat1[g.new] = END
  PROVE  Allocating(next, now, g, b, w, T)
<1>1. /\ Extending(d, f, b, w, T) => Extending(now, g, b, w, T)
      /\ Making(d, f, b, w, T) => Making(now, g, b, w, T)
  BY FrameAdding, DataSame
<1>2. /\ Starting(d, f, w, T) => Starting(now, g, w, T)
      /\ Chosen(d, f, w, T) => Chosen(now, g, w, T)
  BY FrameWrite, DataSame
<1>. QED
  BY <1>1, <1>2 DEF Allocating

LEMMA AllocKeeps ==
  ASSUME CallerInv, VolumeInv, alloc_cluster
  PROVE  VolumeInv'
<1>1. CASE FreeClusters(disk) # {} /\ NoAccess /\ With([k EXCEPT !.new = Min(FreeClusters(disk))], "mark1")
  <2>. DEFINE new == Min(FreeClusters(disk))
              g == [k EXCEPT !.new = new]
  <2>3. SUFFICES ASSUME Quiet' PROVE \E w, T : State(pc', disk', k', before', w, T)
    BY DEF VolumeInv
  <2>4. Quiet /\ pc' = "mark1" /\ before' = before /\ disk' = disk /\ pc = "alloc"
    BY <1>1, <2>3, WithIs DEF NoAccess, alloc_cluster
  <2>1. k' = g
    BY <1>1, <2>4 DEF With
  <2>2. /\ SameAdd(k, g) /\ SameWrite(k, g) /\ g.slot = k.slot /\ g.from = k.from /\ g.first = k.first /\ g.why = k.why
        /\ g.new = new
    BY <2>4 DEF CallerInv, FrameOK, NoFrame, SameAdd, SameWrite
  <2>5. PICK w, T : State("alloc", disk, k, before, w, T)
    BY <2>4 DEF VolumeInv
  <2>6. Allocating("alloc", disk, k, before, w, T)
    BY <2>5 DEF State
  <2>7. Sound(disk, w, T, None)
    BY <2>6, AllocatingSound
  <2>8. new \in FreeClusters(disk)
    BY <1>1, MinIs DEF FreeClusters
  <2>. HIDE DEF new
  <2>9. Unused(w, new)
    BY <2>7, <2>8, FreeUnused DEF Sound
  <2>. HIDE DEF g
  <2>10. Allocating("mark1", disk, g, before, w, T)
    BY <2>2, <2>6, <2>7, <2>9, AllocatingFrame
  <2>. QED
    BY <2>1, <2>4, <2>10 DEF State, Labels
<1>2. CASE FreeClusters(disk) = {} /\ NoAccess /\ Return("IO_ERROR")
  <2>1. pc = "alloc" /\ disk' = disk /\ NoFault
    BY <1>2 DEF alloc_cluster, NoAccess
  <2>2. SUFFICES ASSUME Quiet' PROVE VolumeInv'
    BY DEF VolumeInv
  <2>3. Quiet
    BY <1>2, <2>1, <2>2, ReturnQuiet
  <2>4. PICK w, T : State("alloc", disk, k, before, w, T)
    BY <2>1, <2>3 DEF VolumeInv
  <2>5. Sound(disk, w, T, None)
    BY <2>4, AllocatingSound DEF State
  <2>. QED
    BY <1>2, <2>1, <2>5, ReturnIs
<1>3. CASE Fault("read") /\ UNCHANGED disk /\ Return("IO_ERROR")
  BY <1>3, FaultNotQuiet DEF VolumeInv, Return, FrameOK
<1>. QED
  BY <1>1, <1>2, <1>3 DEF alloc_cluster

LEMMA Mark1Keeps ==
  ASSUME CallerInv, VolumeInv, mark1
  PROVE  VolumeInv'
<1>2. SUFFICES ASSUME Quiet' PROVE \E w, T : State(pc', disk', k', before', w, T)
  BY DEF VolumeInv
<1>3. FatWritten(SetFat1(disk, k.new, END))
  BY <1>2, FaultNotQuiet DEF mark1, FatNotWritten
<1>4. Quiet /\ pc' = "mark2" /\ before' = before /\ pc = "mark1" /\ disk' = SetFat1(disk, k.new, END)
  BY <1>2, <1>3, WithIs DEF mark1, FatWritten, Goto
<1>1. k' = k
  BY <1>4 DEF mark1, Goto, With
<1>5. PICK w, T : State("mark1", disk, k, before, w, T)
  BY <1>4 DEF VolumeInv
<1>6. Allocating("mark1", disk, k, before, w, T)
  BY <1>5 DEF State
<1>7. Sound(disk, w, T, None)
  BY <1>6, AllocatingSound
<1>8. Unused(w, k.new) /\ k.new \in FatSet /\ END \in Nat
  BY <1>6, FatNumbers DEF Allocating, Unused
<1>9. Fat1Put(disk, disk', k.new, END)
  BY <1>4, <1>7, <1>8, Fat1PutIs DEF Sound
<1>10. Sound(disk', w, T, None)
  BY <1>7, <1>8, <1>9, SoundFat1
<1>11. disk'.data = disk.data /\ disk'.fat1[k.new] = END
  BY <1>9 DEF Fat1Put
<1>12. SameAdd(k, k) /\ SameWrite(k, k)
  BY DEF SameAdd, SameWrite
<1>13. Allocating("mark2", disk', k, before, w, T)
  BY <1>6, <1>8, <1>10, <1>11, <1>12, AllocatingFrame
<1>. QED
  BY <1>1, <1>4, <1>13 DEF State, Labels

LEMMA MulOne == SlotsPerCluster * 1 = SlotsPerCluster /\ SlotsPerCluster \in Nat /\ 0 <= SlotsPerCluster
BY Fat32Assumption

\* The file has its first cluster.
LEMMA StartingChosen ==
  ASSUME NEW d, NEW f, NEW g, NEW w, NEW T, Starting(d, f, w, T), Marked(d, w, f.new),
         SameWrite(f, g), g.first = f.new
  PROVE  Chosen(d, g, Also(w, f.new), T)
<1>. DEFINE new == f.new
            v == Also(w, new)
<1>1. Sound(d, w, T, None) /\ Unused(w, new) /\ d.fat1[new] = END /\ Chained(d.fat1, w) /\ T \subseteq DOMAIN w
  BY DEF Starting, Filling, Marked, Sound
<1>2. /\ new \notin DOMAIN w /\ DOMAIN v = DOMAIN w \cup {new}
      /\ \A h \in DOMAIN w : v[h] = w[h] /\ \A c : In(v, h, c) <=> In(w, h, c)
      /\ Len(v[new]) = 1
  <2>. DEFINE fat == d.fat1
  <2>1. Chained(fat, w) /\ Unused(w, new) /\ fat[new] = END
    BY <1>1
  <2>. HIDE DEF fat, new
  <2>2. /\ new \notin DOMAIN w /\ DOMAIN v = DOMAIN w \cup {new}
        /\ \A h \in DOMAIN w : v[h] = w[h] /\ \A c : In(v, h, c) <=> In(w, h, c)
        /\ Len(v[new]) = 1 /\ Chained(fat, v)
    BY <2>1, AlsoIs
  <2>. QED
    BY <2>2
<1>3. Sound(d, v, Grafted(w, T, new, FALSE), None)
  BY <1>1, SoundAlso
<1>4. Sound(d, v, T, None)
  BY <1>3 DEF Grafted
<1>. HIDE DEF v
<1>5. Alike(d, w, None, d, v, None, T)
  BY <1>1, <1>2 DEF Alike, Live
<1>6. Filling(d, f, v, T)
  BY <1>4, <1>5, AlikeFilling DEF Starting
<1>7. Filling(d, g, v, T)
  BY <1>6, FrameWrite
<1>8. NewFirst(d, v, T, None, new)
  <2> SUFFICES ASSUME NEW h \in T, NEW c, NEW i, Live(d, v, h, None, c, i), new # 0
               PROVE  d.data[c][i].first # new
    BY DEF NewFirst
  <2>1. Live(d, w, h, None, c, i)
    BY <1>5 DEF Alike
  <2>2. GoodEntry(w, T, d.data[c][i])
    BY <1>1, <2>1 DEF Sound, EntriesGood
  <2>. QED
    BY <1>1, <1>2, <2>2 DEF GoodEntry
<1>9. g.entry.first = 0 /\ g.size = 0 /\ g.offset = 0
  BY DEF Starting, SameWrite
<1>10. g.first \in DOMAIN v \ T
  BY <1>1, <1>2
<1>11. g.size <= SlotsPerCluster * Len(v[g.first]) /\ g.offset <= SlotsPerCluster * Len(v[g.first])
  BY <1>2, <1>9, MulOne
<1>. QED
  BY <1>7, <1>8, <1>9, <1>10, <1>11 DEF Chosen, v

LEMMA Mark2Keeps ==
  ASSUME CallerInv, VolumeInv, mark2
  PROVE  VolumeInv'
<1>1. SUFFICES ASSUME Quiet' PROVE \E w, T : State(pc', disk', k', before', w, T)
  BY DEF VolumeInv
<1>3. FatWritten(SetFat2(disk, k.new, END))
  BY <1>1, FaultNotQuiet DEF mark2, FatNotWritten
<1>4. pc = "mark2" /\ disk' = SetFat2(disk, k.new, END) /\ NoFault
  BY <1>3 DEF mark2, FatWritten
<1>5. Quiet /\ before' = before
  BY <1>1, <1>4, WithIs DEF mark2, Goto
<1>6. PICK w, T : State("mark2", disk, k, before, w, T)
  BY <1>4, <1>5 DEF VolumeInv
<1>7. Allocating("mark2", disk, k, before, w, T)
  BY <1>6 DEF State
<1>8. Sound(disk, w, T, None)
  BY <1>7, AllocatingSound
<1>9. Marked(disk, w, k.new) /\ k.new \in FatSet /\ END \in Nat
  BY <1>7, FatNumbers DEF Allocating, Marked, Unused
<1>10. Fat2Put(disk, disk')
  BY <1>4, <1>8, <1>9, Fat2PutIs DEF Sound
<1>11. Sound(disk', w, T, None) /\ disk'.data = disk.data /\ Marked(disk', w, k.new)
  BY <1>8, <1>9, <1>10, SoundFat2 DEF Fat2Put, Marked
<1>12. CASE k.why = "dir"
  <2>1. k' = k /\ pc' = "zero"
    BY <1>12 DEF mark2, Goto, With
  <2>2. Making(disk', k, before, w, T)
    BY <1>7, <1>11, <1>12, DataSame DEF Allocating
  <2>. QED
    BY <1>5, <1>11, <1>12, <2>1, <2>2 DEF State, Labels
<1>13. CASE k.why = "first"
  <2>. DEFINE g == [k EXCEPT !.first = k.new]
  <2>1. k' = g /\ pc' = "chunk"
    BY <1>13 DEF mark2, With
  <2>2. SameWrite(k, g) /\ g.first = k.new
    BY <1>5 DEF CallerInv, FrameOK, NoFrame, SameWrite
  <2>3. Starting(disk', k, w, T)
    BY <1>7, <1>11, <1>13, DataSame DEF Allocating
  <2>. HIDE DEF g
  <2>4. Chosen(disk', g, Also(w, k.new), T)
    BY <1>11, <2>2, <2>3, StartingChosen
  <2>. QED
    BY <1>5, <2>1, <2>4 DEF State, Labels
<1>14. CASE k.why \notin {"dir", "first"}
  <2>. DEFINE g == [k EXCEPT !.to = k.new]
  <2>1. k' = g /\ pc' = "link1"
    BY <1>14 DEF mark2, With
  <2>2. SameAdd(k, g) /\ SameWrite(k, g) /\ g.to = k.new /\ g.new = k.new /\ g.why = k.why /\ g.from = k.from /\ g.first = k.first
    BY <1>5 DEF CallerInv, FrameOK, NoFrame, SameWrite, SameAdd
  <2>. HIDE DEF g
  <2>3. CASE k.why = "slot" /\ Extending(disk, k, before, w, T)
    <3>1. Extending(disk', g, before, w, T)
      BY <1>11, <2>2, <2>3, DataSame, FrameAdding
    <3>2. Linking1(disk', g, before, w, T)
      BY <1>11, <2>2, <2>3, <3>1 DEF Linking1
    <3>. QED
      BY <1>5, <2>1, <3>2 DEF State, Labels
  <2>4. CASE k.why = "extend" /\ Chosen(disk, k, w, T) /\ k.from = Last(w[k.first])
    <3>1. Chosen(disk', g, w, T)
      BY <1>11, <2>2, <2>4, DataSame, FrameWrite
    <3>2. Linking1(disk', g, before, w, T)
      BY <1>11, <2>2, <2>4, <3>1 DEF Linking1
    <3>. QED
      BY <1>5, <2>1, <3>2 DEF State, Labels
  <2>. QED
    BY <1>7, <1>14, <2>3, <2>4 DEF Allocating
<1>. QED
  BY <1>12, <1>13, <1>14

\* The directory gets its new cluster, which is not zeroed yet.
LEMMA ExtendingExtended ==
  ASSUME NEW d, NEW now, NEW f, NEW b, NEW w, NEW T, Extending(d, f, b, w, T), Marked(d, w, f.new),
         Fat1Put(d, now, f.from, f.new)
  PROVE  Extended(now, f, b, Grown(w, f.dir, f.new), T) /\ f.from \in FatSet
<1>. DEFINE new == f.new
            h == f.dir
            v == Grown(w, h, new)
<1>1. Sound(d, w, T, None) /\ Chained(d.fat1, w) /\ T \subseteq DOMAIN w /\ h \in T /\ h \in DOMAIN w
  BY DEF Extending, Sound, Adds
<1>2. Grows(d.fat1, now.fat1, w, h, new)
  BY <1>1, GrowsIs DEF Extending
<1>3. ShapeOK(now) /\ now.data = d.data
  BY DEF Fat1Put
<1>4. GrownSkip(T, h, new) = Row(new)
  BY <1>1 DEF GrownSkip
<1>5. Sound(now, v, T, Row(new))
  BY <1>1, <1>2, <1>3, <1>4, SoundGrown
<1>6. Alike(d, w, None, now, v, Row(new), T)
  BY <1>1, <1>2, <1>3, <1>4, AlikeGrown
<1>7. Adds(now, f, b, v, T, Row(new), 0)
  BY <1>6, AlikeAdding DEF Extending
<1>8. /\ Len(v[h]) = Len(w[h]) + 1 /\ v[h][Len(w[h]) + 1] = new
      /\ \A g \in DOMAIN w : \A c : In(v, g, c) <=> In(w, g, c) \/ (g = h /\ c = new)
      /\ Chained(now.fat1, v)
  BY <1>1, <1>2, GrownIs
<1>9. new = Last(v[h])
  BY <1>8 DEF Last
<1>10. f.from \in FatSet /\ \A c : In(w, h, c) => c # 0
  BY <1>1, ChainFacts, InChain, FatNumbers DEF Extending, Last
<1>. HIDE DEF v
<1>11. FullBut(now, f, v, new)
  BY <1>1, <1>3, <1>8, <1>10 DEF FullBut, Extending
<1>. QED
  BY <1>5, <1>7, <1>9, <1>10, <1>11 DEF Extended, v

LEMMA ChosenGrown ==
  ASSUME NEW d, NEW now, NEW f, NEW w, NEW T, Chosen(d, f, w, T), Marked(d, w, f.new), f.from = Last(w[f.first]),
         Fat1Put(d, now, f.from, f.new)
  PROVE  Chosen(now, f, Grown(w, f.first, f.new), T) /\ f.from \in FatSet /\ f.new \in FatSet
<1>. DEFINE new == f.new
            h == f.first
            v == Grown(w, h, new)
<1>1. Sound(d, w, T, None) /\ Chained(d.fat1, w) /\ T \subseteq DOMAIN w /\ h \in DOMAIN w /\ h \notin T
  BY DEF Chosen, Filling, Sound
<1>2. Grows(d.fat1, now.fat1, w, h, new)
  BY <1>1, GrowsIs
<1>3. ShapeOK(now) /\ now.data = d.data
  BY DEF Fat1Put
<1>4. GrownSkip(T, h, new) = None
  BY <1>1 DEF GrownSkip
<1>5. Sound(now, v, T, None)
  BY <1>1, <1>2, <1>3, <1>4, SoundGrown
<1>6. Alike(d, w, None, now, v, None, T)
  BY <1>1, <1>2, <1>3, <1>4, AlikeGrown
<1>7. Filling(now, f, v, T)
  BY <1>5, <1>6, AlikeFilling DEF Chosen
<1>8. DOMAIN v = DOMAIN w /\ Len(v[h]) = Len(w[h]) + 1 /\ Chained(now.fat1, v)
  BY <1>1, <1>2, GrownIs
<1>9. f.from \in FatSet /\ Len(w[h]) \in Nat
  BY <1>1, ChainFacts, FatNumbers DEF Last
<1>. DEFINE n == Len(w[h])
            m == Len(v[h])
<1>10. f.size <= SlotsPerCluster * m /\ f.offset <= SlotsPerCluster * m
  <2>1. f.size <= SlotsPerCluster * n /\ f.offset <= SlotsPerCluster * n /\ f.size \in Nat /\ f.offset \in Nat
    BY DEF Chosen, Filling
  <2>2. n \in Nat /\ m = n + 1
    BY <1>8, <1>9
  <2>. HIDE DEF n, m
  <2>3. SlotsPerCluster * m = SlotsPerCluster * n + SlotsPerCluster
    BY <2>2, Fat32Assumption
  <2>4. SlotsPerCluster * n \in Nat /\ SlotsPerCluster \in Nat
    BY <2>2, Fat32Assumption
  <2>. QED
    BY <2>1, <2>3, <2>4
<1>11. f.entry.first = h \/ (f.entry.first = 0 /\ NewFirst(now, v, T, None, h))
  BY <1>6, AlikeFirst DEF Chosen
<1>12. new \in FatSet
  BY FatNumbers DEF Marked, Unused
<1>. QED
  BY <1>1, <1>7, <1>8, <1>9, <1>10, <1>11, <1>12 DEF Chosen

\* The first cluster of a chain is given back, and the rest is a chain still.
LEMMA DoomedNext ==
  ASSUME NEW d, NEW now, NEW w, NEW c, Doomed(d, w, c), ~Stops(c), Fat1Put(d, now, c, 0)
  PROVE  Unused(w, c) /\ c \in FatSet /\ Doomed(now, w, d.fat1[c])
<1>1. PICK s : LinkedUp(d.fat1, s) /\ s[1] = c /\ \A j \in 1..Len(s) : Unused(w, s[j])
  BY DEF Doomed
<1>. DEFINE n == Len(s)
<1>2. s \in Seq(All) /\ n \in Nat /\ n > 0 /\ 1 \in 1..n
  BY <1>1 DEF LinkedUp
<1>3. Unused(w, c) /\ c \in FatSet
  BY <1>1, <1>2, FatNumbers DEF Unused
<1>4. CASE n = 1
  <2>1. d.fat1[c] = END
    BY <1>1, <1>4 DEF LinkedUp
  <2>. QED
    BY <1>3, <2>1, Fat32Assumption DEF Doomed, Stops, is_end_cluster, END
<1>5. CASE n > 1
  <2>. DEFINE t == Tail(s)
  <2>1. t \in Seq(All) /\ Len(t) = n - 1 /\ \A j \in 1..(n - 1) : t[j] = s[j + 1]
    BY <1>2, <1>5
  <2>2. t[1] = d.fat1[c]
    <3>1. 1 \in 1..(n - 1)
      BY <1>2, <1>5
    <3>2. d.fat1[s[1]] = s[1 + 1]
      BY <1>1, <3>1 DEF LinkedUp
    <3>. QED
      BY <1>1, <2>1, <3>1, <3>2
  <2>3. \A j \in 1..(n - 1) : j + 1 \in 1..n /\ j + 1 # 1
    BY <1>2
  <2>4. \A i, j \in 1..n : s[i] = s[j] => i = j
    BY <1>1 DEF LinkedUp
  <2>. HIDE DEF n, t
  <2>5. \A j \in 1..(n - 1) : s[j + 1] # c /\ s[j + 1] \in FatSet /\ Unused(w, s[j + 1])
    BY <1>1, <1>2, <2>3, <2>4, FatNumbers DEF Unused, n
  <2>6. \A j \in 1..(n - 1) : now.fat1[t[j]] = d.fat1[s[j + 1]]
    BY <2>1, <2>5 DEF Fat1Put
  <2>7. LinkedUp(now.fat1, t)
    <3>1. \A j \in 1..(Len(t) - 1) : now.fat1[t[j]] = t[j + 1]
      <4>. Len(t) - 1 = n - 2
        BY <1>2, <2>1
      <4> SUFFICES ASSUME NEW j \in 1..(n - 2) PROVE now.fat1[t[j]] = t[j + 1]
        OBVIOUS
      <4>1. j \in 1..(n - 1) /\ j + 1 \in 1..(n - 1) /\ j \in Nat
        BY <1>2
      <4>2. d.fat1[s[j + 1]] = s[(j + 1) + 1]
        BY <1>1, <4>1 DEF LinkedUp, n
      <4>. QED
        BY <2>1, <2>6, <4>1, <4>2
    <3>2. now.fat1[t[Len(t)]] = END
      <4>1. n - 1 \in 1..(n - 1) /\ (n - 1) + 1 = n
        BY <1>2, <1>5
      <4>2. d.fat1[s[n]] = END
        BY <1>1 DEF LinkedUp, n
      <4>. QED
        BY <2>1, <2>6, <4>1, <4>2
    <3>3. \A i, j \in 1..(n - 1) : t[i] = t[j] => i = j
      <4> SUFFICES ASSUME NEW i \in 1..(n - 1), NEW j \in 1..(n - 1), t[i] = t[j] PROVE i = j
        OBVIOUS
      <4>1. i + 1 = j + 1
        BY <2>1, <2>3, <2>4
      <4>. QED
        BY <4>1
    <3>. QED
      BY <1>2, <1>5, <2>1, <3>1, <3>2, <3>3 DEF LinkedUp
  <2>8. \A j \in 1..Len(t) : Unused(w, t[j])
    BY <2>1, <2>5
  <2>. QED
    BY <1>3, <2>2, <2>7, <2>8 DEF Doomed
<1>6. n = 1 \/ n > 1
  <2>. HIDE DEF n
  <2>. QED
    BY <1>2
<1>. QED
  BY <1>4, <1>5, <1>6

LEMMA DoomedFat2 ==
  ASSUME NEW d, NEW now, NEW w, NEW c, Doomed(d, w, c), now.fat1 = d.fat1
  PROVE  Doomed(now, w, c)
BY DEF Doomed

LEMMA Link1Keeps ==
  ASSUME CallerInv, VolumeInv, link1
  PROVE  VolumeInv'
<1>2. SUFFICES ASSUME Quiet' PROVE \E w, T : State(pc', disk', k', before', w, T)
  BY DEF VolumeInv
<1>3. FatWritten(SetFat1(disk, k.from, k.to)) /\ Goto("link2")
  BY <1>2, FaultNotQuiet DEF link1, FatNotWritten
<1>4. Quiet /\ before' = before /\ k' = k /\ pc' = "link2" /\ pc = "link1" /\ disk' = SetFat1(disk, k.from, k.to)
  BY <1>2, <1>3, WithIs DEF link1, FatWritten, Goto
<1>5. PICK w, T : State("link1", disk, k, before, w, T)
  BY <1>4 DEF VolumeInv
<1>6. Linking1(disk, k, before, w, T)
  BY <1>5 DEF State
<1>7. ASSUME NEW v, Linking2(disk', k, before, v, T)
      PROVE  \E u, U : State(pc', disk', k', before', u, U)
  BY <1>4, <1>7 DEF State, Labels
<1>8. CASE k.why = "slot" /\ Extending(disk, k, before, w, T) /\ k.to = k.new /\ Marked(disk, w, k.new)
  <2>1. ShapeOK(disk) /\ k.from \in FatSet /\ k.to \in Nat
    <3>1. Sound(disk, w, T, None) /\ k.dir \in T
      BY <1>8 DEF Extending, Adds
    <3>2. k.from \in All
      BY <1>8, <3>1, ChainFacts DEF Extending, Sound, Last
    <3>. QED
      BY <1>8, <3>1, <3>2, FatNumbers DEF Sound, Marked, Unused
  <2>2. Fat1Put(disk, disk', k.from, k.new)
    BY <1>4, <1>8, <2>1, Fat1PutIs
  <2>3. Extended(disk', k, before, Grown(w, k.dir, k.new), T)
    BY <1>8, <2>2, ExtendingExtended
  <2>4. Linking2(disk', k, before, Grown(w, k.dir, k.new), T)
    BY <1>8, <2>1, <2>3 DEF Linking2
  <2>. QED
    BY <1>7, <2>4
<1>9. CASE k.why = "extend" /\ Chosen(disk, k, w, T) /\ k.from = Last(w[k.first]) /\ k.to = k.new /\ Marked(disk, w, k.new)
  <2>1. ShapeOK(disk) /\ k.from \in FatSet /\ k.to \in Nat
    <3>1. Sound(disk, w, T, None) /\ k.first \in DOMAIN w
      BY <1>9 DEF Chosen, Filling
    <3>2. k.from \in All
      BY <1>9, <3>1, ChainFacts DEF Sound, Last
    <3>. QED
      BY <1>9, <3>1, <3>2, FatNumbers DEF Sound, Marked, Unused
  <2>2. Fat1Put(disk, disk', k.from, k.new)
    BY <1>4, <1>9, <2>1, Fat1PutIs
  <2>3. Chosen(disk', k, Grown(w, k.first, k.new), T) /\ k.new \in FatSet
    BY <1>9, <2>2, ChosenGrown
  <2>4. Linking2(disk', k, before, Grown(w, k.first, k.new), T)
    BY <1>9, <2>1, <2>3 DEF Linking2
  <2>. QED
    BY <1>7, <2>4
<1>10. CASE k.why = "undo" /\ Sound(disk, w, T, None) /\ Unused(w, k.from) /\ k.to = 0
  <2>1. ShapeOK(disk) /\ k.from \in FatSet /\ k.to \in Nat
    BY <1>10, FatNumbers DEF Sound, Unused
  <2>2. Fat1Put(disk, disk', k.from, 0)
    BY <1>4, <1>10, <2>1, Fat1PutIs
  <2>3. Sound(disk', w, T, None)
    BY <1>10, <2>2, SoundFat1
  <2>4. Linking2(disk', k, before, w, T)
    BY <1>10, <2>1, <2>3 DEF Linking2
  <2>. QED
    BY <1>7, <2>4
<1>11. CASE /\ k.why = "free" /\ Removing(disk, k, before, w, T) /\ ~Stops(k.from) /\ Doomed(disk, w, k.from)
            /\ k.next = disk.fat1[k.from] /\ k.to = 0
  <2>1. ShapeOK(disk) /\ k.from \in FatSet /\ k.to \in Nat
    <3>1. PICK s : LinkedUp(disk.fat1, s) /\ s[1] = k.from
      BY <1>11 DEF Doomed
    <3>2. s[1] \in All
      BY <3>1 DEF LinkedUp
    <3>. QED
      BY <1>11, <3>1, <3>2, FatNumbers DEF Sound, Removing
  <2>2. Fat1Put(disk, disk', k.from, 0)
    BY <1>4, <1>11, <2>1, Fat1PutIs
  <2>3. Unused(w, k.from) /\ Doomed(disk', w, k.next)
    BY <1>11, <2>2, DoomedNext
  <2>4. Sound(disk', w, T, Only(k.at))
    BY <1>11, <2>2, <2>3, SoundFat1 DEF Removing
  <2>5. Removing(disk', k, before, w, T)
    BY <1>11, <2>4 DEF Removing
  <2>6. Linking2(disk', k, before, w, T)
    BY <1>11, <2>1, <2>3, <2>5 DEF Linking2
  <2>. QED
    BY <1>7, <2>6
<1>. QED
  BY <1>6, <1>8, <1>9, <1>10, <1>11 DEF Linking1

LEMMA Link2Keeps ==
  ASSUME CallerInv, VolumeInv, link2
  PROVE  VolumeInv'
<1>1. SUFFICES ASSUME Quiet' PROVE VolumeInv'
  BY DEF VolumeInv
<1>2. FatWritten(SetFat2(disk, k.from, k.to)) /\ Linked
  BY <1>1, FaultNotQuiet DEF link2, FatNotWritten
<1>3. disk' = SetFat2(disk, k.from, k.to) /\ NoFault /\ pc = "link2"
  BY <1>2 DEF link2, FatWritten
<1>4. k.why \in {"slot", "extend", "free", "undo"}
  BY <1>3 DEF CallerInv
<1>5. /\ k.why = "slot" => With(k, "zero")
      /\ k.why = "extend" => With(k, "chunk")
      /\ k.why = "free" => With([k EXCEPT !.from = k.next], "free")
      /\ k.why = "undo" => Return("IO_ERROR")
  BY <1>2, <1>4 DEF Linked, Goto
<1>6. Quiet /\ (k.why # "undo" => before' = before)
  BY <1>1, <1>3, <1>4, <1>5, WithIs, ReturnQuiet
<1>7. PICK w, T : State("link2", disk, k, before, w, T)
  BY <1>3, <1>6 DEF VolumeInv
<1>8. Linking2(disk, k, before, w, T)
  BY <1>7 DEF State
<1>9. ASSUME ShapeOK(disk), k.from \in FatSet, k.to \in FatSet
      PROVE  Fat2Put(disk, disk')
  <2>1. k.to \in Nat
    BY <1>9, Fat32Assumption DEF FatSet
  <2>. QED
    BY <1>3, <1>9, <2>1, Fat2PutIs
<1>10. CASE k.why = "slot" /\ Extended(disk, k, before, w, T) /\ k.from \in FatSet /\ k.to = k.new
  <2>1. k.new \in FatSet /\ ShapeOK(disk)
    <3>1. Sound(disk, w, T, Row(k.new)) /\ k.dir \in T /\ k.new = Last(w[k.dir])
      BY <1>10 DEF Extended, Adds
    <3>. QED
      BY <3>1, ChainFacts, FatNumbers DEF Sound, Last
  <2>2. Fat2Put(disk, disk')
    BY <1>9, <1>10, <2>1
  <2>3. disk'.data = disk.data /\ Sound(disk', w, T, Row(k.new))
    BY <1>10, <2>2, SoundFat2 DEF Extended, Fat2Put
  <2>4. Adds(disk', k, before, w, T, Row(k.new), 0)
    BY <1>10, <2>3, AlikeData, AlikeAdding DEF Extended
  <2>5. FullBut(disk', k, w, k.new)
    BY <1>10, <2>3 DEF FullBut, Extended
  <2>6. Extended(disk', k, before, w, T)
    BY <1>10, <2>3, <2>4, <2>5 DEF Extended
  <2>7. k' = k /\ pc' = "zero" /\ before' = before
    BY <1>5, <1>6, <1>10 DEF With
  <2>8. State(pc', disk', k', before', w, T)
    BY <1>10, <2>6, <2>7 DEF State, Labels
  <2>. QED
    BY <2>8 DEF VolumeInv
<1>11. CASE k.why = "extend" /\ Chosen(disk, k, w, T) /\ k.from \in FatSet /\ k.to \in FatSet
  <2>1. Sound(disk, w, T, None)
    BY <1>11 DEF Chosen, Filling
  <2>2. Fat2Put(disk, disk')
    BY <1>9, <1>11, <2>1 DEF Sound
  <2>3. Chosen(disk', k, w, T)
    BY <1>11, <2>1, <2>2, SoundFat2, DataSame DEF Fat2Put
  <2>4. k' = k /\ pc' = "chunk" /\ before' = before
    BY <1>5, <1>6, <1>11 DEF With
  <2>5. State(pc', disk', k', before', w, T)
    BY <2>3, <2>4 DEF State, Labels
  <2>. QED
    BY <2>5 DEF VolumeInv
<1>12. CASE k.why = "undo" /\ Sound(disk, w, T, None) /\ k.from \in FatSet /\ k.to = 0
  <2>1. Fat2Put(disk, disk')
    BY <1>9, <1>12, FatNumbers DEF Sound
  <2>2. Sound(disk', w, T, None)
    BY <1>12, <2>1, SoundFat2
  <2>. QED
    BY <1>5, <1>12, <2>2, ReturnIs
<1>13. CASE k.why = "free" /\ Removing(disk, k, before, w, T) /\ Doomed(disk, w, k.next) /\ k.from \in FatSet /\ k.to = 0
  <2>. DEFINE g == [k EXCEPT !.from = k.next]
  <2>1. g.op = k.op /\ g.at = k.at /\ g.from = k.next
    BY DEF CallerInv, FrameOK, NoFrame
  <2>2. k' = g /\ pc' = "free" /\ before' = before
    BY <1>5, <1>6, <1>13 DEF With
  <2>. HIDE DEF g
  <2>3. Fat2Put(disk, disk')
    BY <1>9, <1>13, FatNumbers DEF Sound, Removing
  <2>4. Sound(disk', w, T, Only(k.at)) /\ disk'.fat1 = disk.fat1
    BY <1>13, <2>3, SoundFat2 DEF Removing, Fat2Put
  <2>5. Removing(disk', k, before, w, T) /\ Doomed(disk', w, k.next)
    BY <1>13, <2>4, DoomedFat2 DEF Removing
  <2>6. Removing(disk', g, before, w, T)
    BY <2>1, <2>5, FrameRemove
  <2>7. State(pc', disk', k', before', w, T)
    BY <2>1, <2>2, <2>5, <2>6 DEF State, Labels
  <2>. QED
    BY <2>7 DEF VolumeInv
<1>. QED
  BY <1>8, <1>10, <1>11, <1>12, <1>13 DEF Linking2

\* The entry goes to the slot found, or mkdir allocates a cluster for the directory first.
LEMMA TakeSlotIs ==
  ASSUME CallerInv, NEW w, NEW T, NEW at, TakeSlot(at), Sound(disk', w, T, None),
         Adds(disk', k, before, w, T, None, 0),
         \A g : g.dir = k.dir /\ g.slot = at => SlotOK(disk', g, w)
  PROVE  State(pc', disk', k', before', w, T)
<1>1. CASE k.op = "mkdir"
  <2>. DEFINE g == [[k EXCEPT !.slot = at] EXCEPT !.why = "dir"]
  <2>1. k' = g /\ pc' = "alloc" /\ before' = before
    BY <1>1 DEF TakeSlot, Alloc, With
  <2>2. SameAdd(k, g) /\ g.slot = at /\ g.why = "dir" /\ g.op = k.op /\ g.dir = k.dir
    BY DEF CallerInv, FrameOK, NoFrame, SameAdd
  <2>. HIDE DEF g
  <2>3. Adds(disk', g, before, w, T, None, 0)
    BY <2>2, FrameAdding
  <2>4. SlotOK(disk', g, w)
    BY <2>2
  <2>5. Allocating("alloc", disk', g, before, w, T)
    BY <1>1, <2>2, <2>3, <2>4 DEF Allocating, Making
  <2>. QED
    BY <2>1, <2>5 DEF State, Labels
<1>2. CASE k.op # "mkdir"
  <2>. DEFINE g == [k EXCEPT !.slot = at]
  <2>1. k' = g /\ pc' = "entry" /\ before' = before
    BY <1>2 DEF TakeSlot, With
  <2>2. SameAdd(k, g) /\ g.slot = at /\ g.op = k.op /\ g.dir = k.dir
    BY DEF CallerInv, FrameOK, NoFrame, SameAdd
  <2>. HIDE DEF g
  <2>3. Adds(disk', g, before, w, T, None, 0)
    BY <2>2, FrameAdding
  <2>4. Adds(disk', g, before, w, T, None, g.new)
    BY <1>2, <2>2, <2>3 DEF Adds
  <2>5. SlotOK(disk', g, w)
    BY <2>2
  <2>6. Entering(disk', g, before, w, T)
    BY <1>2, <2>2, <2>4, <2>5 DEF Entering
  <2>. QED
    BY <2>1, <2>6 DEF State, Labels
<1>. QED
  BY <1>1, <1>2

LEMMA AllocEntrySlotKeeps ==
  ASSUME CallerInv, VolumeInv, alloc_entry_slot
  PROVE  VolumeInv'
<1>. DEFINE chain == Chain(disk, k.dir)
            n     == FreeSlot(disk, chain)
            ends  == chain # <<>> /\ is_end_cluster(disk.fat1[chain[Len(chain)]])
<1>1. SUFFICES ASSUME Quiet' PROVE VolumeInv'
  BY DEF VolumeInv
<1>2. pc = "slot" /\ ~Fault("read")
  BY <1>1, FaultNotQuiet DEF alloc_entry_slot
<1>3. NoAccess /\ \/ n # 0 /\ Readable(chain, n) /\ TakeSlot(At(chain, n))
                  \/ n = 0 /\ Extend(chain[Len(chain)])
                  \/ Return("IO_ERROR")
  BY <1>2 DEF alloc_entry_slot
<1>4. disk' = disk /\ NoFault
  BY <1>3 DEF NoAccess
<1>5. Quiet
  BY <1>1, <1>3, <1>4, WithIs, ReturnQuiet DEF TakeSlot, Extend, Alloc
<1>6. PICK w, T : State("slot", disk, k, before, w, T)
  BY <1>2, <1>5 DEF VolumeInv
<1>7. Sound(disk, w, T, None) /\ Adds(disk, k, before, w, T, None, 0)
  BY <1>6 DEF State
<1>8. k.dir \in DOMAIN w /\ Chained(disk.fat1, w)
  BY <1>7 DEF Sound, Adds
<1>9. chain = w[k.dir]
  BY <1>8, ChainIs DEF Chained
<1>. HIDE DEF chain
<1>10. CASE n # 0 /\ Readable(chain, n) /\ TakeSlot(At(chain, n))
  <2>1. LET c == ClusterOf(chain, n)
            i == IndexOf(n)
        IN  /\ In(w, k.dir, c) /\ c \in Clusters /\ i \in Slots /\ Clear(disk, w, k.dir, c, i)
            /\ ~entry_visible(disk.data[c][i])
    BY <1>8, <1>9, <1>10, FreeSlotIs
  <2>2. ASSUME NEW g, g.dir = k.dir, g.slot = At(chain, n) PROVE SlotOK(disk, g, w)
    BY <2>1, <2>2 DEF SlotOK, CellAt, At
  <2>3. State(pc', disk', k', before', w, T)
    BY <1>4, <1>7, <1>10, <2>2, TakeSlotIs
  <2>. QED
    BY <2>3 DEF VolumeInv
<1>11. CASE n = 0 /\ Extend(chain[Len(chain)])
  <2>. DEFINE g == [[k EXCEPT !.from = chain[Len(chain)]] EXCEPT !.why = "slot"]
  <2>1. k' = g /\ pc' = "alloc" /\ before' = before
    BY <1>11 DEF Extend, Alloc, With
  <2>2. SameAdd(k, g) /\ g.from = chain[Len(chain)] /\ g.why = "slot" /\ g.dir = k.dir
    BY DEF CallerInv, FrameOK, NoFrame, SameAdd
  <2>. HIDE DEF g
  <2>3. \A b, j : In(w, k.dir, b) /\ j \in Slots => b \in Clusters /\ disk.data[b][j] # Empty
    BY <1>8, <1>9, <1>11, FreeSlotIs
  <2>4. FullBut(disk, g, w, 0)
    BY <2>2, <2>3 DEF FullBut
  <2>5. Adds(disk, g, before, w, T, None, 0)
    BY <1>7, <2>2, FrameAdding
  <2>6. Extending(disk, g, before, w, T)
    BY <1>7, <1>9, <2>2, <2>4, <2>5 DEF Extending, Last
  <2>7. State(pc', disk', k', before', w, T)
    BY <1>4, <2>1, <2>2, <2>6 DEF State, Allocating, Labels
  <2>. QED
    BY <2>7 DEF VolumeInv
<1>12. CASE Return("IO_ERROR")
  BY <1>4, <1>7, <1>12, ReturnIs
<1>. QED
  BY <1>3, <1>10, <1>11, <1>12

\* Clusters of no chain change.
Beside(d, now, w) == \A h \in DOMAIN w : \A c \in Clusters : In(w, h, c) => now.data[c] = d.data[c]

LEMMA MakingBeside ==
  ASSUME NEW d, NEW now, NEW f, NEW b, NEW w, NEW T, Making(d, f, b, w, T), ShapeOK(now), now.fat1 = d.fat1,
         Beside(d, now, w)
  PROVE  Making(now, f, b, w, T)
<1>1. Sound(d, w, T, None) /\ Adds(d, f, b, w, T, None, 0) /\ SlotOK(d, f, w) /\ f.op = "mkdir"
  BY DEF Making
<1>2. T \subseteq DOMAIN w /\ f.dir \in T
  BY <1>1 DEF Sound, Adds
<1>3. Sound(now, w, T, None)
  <2>1. \A h \in DOMAIN w : \A c : In(w, h, c) => now.fat1[c] = d.fat1[c]
    OBVIOUS
  <2>2. \A h \in T : \A c \in Clusters : In(w, h, c) => now.data[c] = d.data[c]
    BY <1>2 DEF Beside
  <2>. QED
    BY <1>1, <2>1, <2>2, SoundElsewhere
<1>4. \A c, i : Live(now, w, f.dir, None, c, i) => Live(d, w, f.dir, None, c, i) /\ now.data[c][i] = d.data[c][i]
  BY <1>2 DEF Beside, Live
<1>5. NewName(now, w, f.dir, None, f.entry.name)
  BY <1>1, <1>4 DEF Adds, NewName
<1>6. Adds(now, f, b, w, T, None, 0)
  BY <1>1, <1>5 DEF Adds
<1>7. SlotOK(now, f, w)
  <2>1. SUFFICES ASSUME f.slot[1] \in Clusters
                 PROVE  /\ f.slot[2] \in Slots /\ ~entry_visible(CellAt(now, f.slot))
                        /\ Clear(now, w, f.dir, f.slot[1], f.slot[2])
    BY <1>1 DEF SlotOK
  <2>2. /\ f.slot[2] \in Slots /\ ~entry_visible(CellAt(d, f.slot)) /\ Clear(d, w, f.dir, f.slot[1], f.slot[2])
        /\ now.data[f.slot[1]] = d.data[f.slot[1]]
    BY <1>1, <1>2, <2>1 DEF SlotOK, Beside
  <2>3. ASSUME NEW p \in 1..Len(w[f.dir]), w[f.dir][p] \in Clusters PROVE now.data[w[f.dir][p]] = d.data[w[f.dir][p]]
    BY <1>2, <2>3 DEF Beside, In
  <2>4. Clear(now, w, f.dir, f.slot[1], f.slot[2])
    BY <2>2, <2>3 DEF Clear
  <2>. QED
    BY <2>2, <2>4 DEF CellAt
<1>. QED
  BY <1>1, <1>3, <1>6, <1>7 DEF Making

\* The last cluster of a directory, just linked, is zeroed.
LEMMA SoundBlanked ==
  ASSUME NEW d, NEW now, NEW w, NEW T, NEW h \in T, NEW new, new = Last(w[h]), new \in Clusters,
         Sound(d, w, T, Row(new)), ShapeOK(now), now.fat1 = d.fat1,
         \A c \in Clusters : c # new => now.data[c] = d.data[c],
         \A i \in Slots : now.data[new][i] = Empty
  PROVE  /\ Sound(now, w, T, None)
         /\ \A g \in T : \A c, i : Live(now, w, g, None, c, i) <=> Live(d, w, g, Row(new), c, i)
<1>1. /\ T \subseteq DOMAIN w /\ Chained(d.fat1, w) /\ Root \in T
      /\ EntriesGood(d, w, T, Row(new)) /\ FirstsDiffer(d, w, T, Row(new))
      /\ NamesDiffer(d, w, T, Row(new)) /\ NothingHidden(d, w, T, Row(new))
  BY DEF Sound
<1>2. ~entry_visible(Empty)
  BY DEF entry_visible, Empty
<1>3. \A c, i : <<c, i>> \in Row(new) <=> c = new /\ i \in Slots
  BY DEF Row
<1>4. \A g \in T : \A c, i : Live(now, w, g, None, c, i) => c # new
  BY <1>2 DEF Live
<1>5. \A g \in T : \A c, i : Live(now, w, g, None, c, i) <=> Live(d, w, g, Row(new), c, i)
  BY <1>3, <1>4 DEF Live, None
<1>6. \A g \in T : \A c, i : Live(now, w, g, None, c, i) => now.data[c][i] = d.data[c][i]
  BY <1>4 DEF Live
<1>7. EntriesGood(now, w, T, None)
  BY <1>1, <1>5, <1>6 DEF EntriesGood
<1>8. FirstsDiffer(now, w, T, None)
  <2>1. SUFFICES ASSUME NEW f \in T, NEW g \in T, NEW c, NEW i, NEW e, NEW j,
                        Live(now, w, f, None, c, i), Live(now, w, g, None, e, j),
                        now.data[c][i].first = now.data[e][j].first, now.data[c][i].first # 0
                 PROVE  c = e /\ i = j
    BY DEF FirstsDiffer
  <2>2. /\ Live(d, w, f, Row(new), c, i) /\ now.data[c][i] = d.data[c][i]
        /\ Live(d, w, g, Row(new), e, j) /\ now.data[e][j] = d.data[e][j]
    BY <1>5, <1>6, <2>1
  <2>. QED
    BY <1>1, <2>1, <2>2 DEF FirstsDiffer
<1>9. NamesDiffer(now, w, T, None)
  BY <1>1, <1>5, <1>6 DEF NamesDiffer
<1>10. NothingHidden(now, w, T, None)
  <2>1. SUFFICES ASSUME NEW g \in T, NEW p \in 1..Len(w[g]), NEW q \in 1..Len(w[g]), NEW i \in Slots, NEW j \in Slots,
                        Earlier(p, i, q, j), Live(now, w, g, None, w[g][q], j)
                 PROVE  w[g][p] \in Clusters /\ now.data[w[g][p]][i] # Empty
    BY DEF NothingHidden
  <2>2. w[g][q] # new /\ Live(d, w, g, Row(new), w[g][q], j)
    BY <1>4, <1>5, <2>1
  <2>3. w[g][p] \in Clusters /\ d.data[w[g][p]][i] # Empty
    BY <1>1, <2>1, <2>2 DEF NothingHidden
  <2>4. w[g][p] # new
    <3>1. SUFFICES ASSUME w[g][p] = new PROVE FALSE
      OBVIOUS
    <3>2. Len(w[h]) \in Nat /\ Len(w[h]) \in 1..Len(w[h]) /\ In(w, h, new)
      BY <1>1, ChainFacts DEF Last
    <3>3. In(w, g, new)
      BY <3>1 DEF In
    <3>4. g = h
      BY <1>1, <3>2, <3>3 DEF Chained
    <3>7. \A i1, j1 \in 1..Len(w[h]) : w[h][i1] = w[h][j1] => i1 = j1
      BY <1>1 DEF Chained, LinkedUp
    <3>8. w[h][p] = w[h][Len(w[h])] /\ p \in 1..Len(w[h])
      BY <3>1, <3>4 DEF Last
    <3>5. p = Len(w[h])
      BY <3>2, <3>7, <3>8
    <3>6. q = p
      BY <2>1, <3>2, <3>4, <3>5 DEF Earlier
    <3>. QED
      BY <2>2, <3>1, <3>6
  <2>. QED
    BY <2>3, <2>4
<1>. QED
  BY <1>1, <1>5, <1>7, <1>8, <1>9, <1>10 DEF Sound

\* The directory's new cluster is blank, or past the disk: it shows nothing, and its first
\* slot can be taken.
LEMMA ExtendedBlank ==
  ASSUME NEW d, NEW now, NEW f, NEW b, NEW w, NEW T, Extended(d, f, b, w, T),
         \/ f.new \in Clusters /\ now = WithRow(d, f.new, Blank)
         \/ f.new \notin Clusters /\ now = d
  PROVE  /\ Sound(now, w, T, None) /\ Adds(now, f, b, w, T, None, 0)
         /\ \A g : g.dir = f.dir /\ g.slot = <<f.new, 1>> => SlotOK(now, g, w)
<1>1. /\ Sound(d, w, T, Row(f.new)) /\ Adds(d, f, b, w, T, Row(f.new), 0)
      /\ FullBut(d, f, w, f.new) /\ f.new = Last(w[f.dir]) /\ f.dir \in T
  BY DEF Extended, Adds
<1>2. f.dir \in DOMAIN w /\ Chained(d.fat1, w) /\ ShapeOK(d)
  BY <1>1 DEF Sound
<1>3. In(w, f.dir, f.new) /\ Len(w[f.dir]) \in Nat /\ Len(w[f.dir]) \in 1..Len(w[f.dir])
  BY <1>1, <1>2, ChainFacts DEF Last
<1>4. \A c, i : <<c, i>> \in Row(f.new) <=> c = f.new /\ i \in Slots
  BY DEF Row
<1>5. /\ Sound(now, w, T, None)
      /\ \A g \in T : \A c, i : Live(now, w, g, None, c, i) <=> Live(d, w, g, Row(f.new), c, i)
      /\ \A c \in Clusters : c # f.new => now.data[c] = d.data[c]
      /\ f.new \in Clusters => \A i \in Slots : now.data[f.new][i] = Empty
  <2>1. CASE f.new \in Clusters /\ now = WithRow(d, f.new, Blank)
    <3>1. Blank = [i \in Slots |-> Blank[i]] /\ \A i \in Slots : Blank[i] = Empty
      BY DEF Blank, Slots
    <3>2. /\ ShapeOK(now) /\ now.fat1 = d.fat1 /\ now.data[f.new] = Blank
          /\ \A c \in Clusters : c # f.new => now.data[c] = d.data[c]
      BY <1>2, <2>1, <3>1, RowIs
    <3>3. \A i \in Slots : now.data[f.new][i] = Empty
      BY <3>1, <3>2
    <3>4. /\ Sound(now, w, T, None)
          /\ \A g \in T : \A c, i : Live(now, w, g, None, c, i) <=> Live(d, w, g, Row(f.new), c, i)
      BY <1>1, <2>1, <3>2, <3>3, SoundBlanked
    <3>. QED
      BY <3>2, <3>3, <3>4
  <2>2. CASE f.new \notin Clusters /\ now = d
    <3>1. \A h \in T : \A c \in Clusters, i \in Slots :
            In(w, h, c) /\ <<c, i>> \in Row(f.new) /\ <<c, i>> \notin None => ~entry_visible(d.data[c][i])
      BY <1>4, <2>2
    <3>2. Sound(d, w, T, None)
      BY <1>1, <3>1, SoundSkip
    <3>3. \A g \in T : \A c, i : Live(d, w, g, None, c, i) <=> Live(d, w, g, Row(f.new), c, i)
      BY <1>4, <2>2 DEF Live, None
    <3>. QED
      BY <2>2, <3>2, <3>3
  <2>. QED
    BY <2>1, <2>2
<1>6. \A g \in T : \A c, i : Live(d, w, g, Row(f.new), c, i) => c # f.new /\ c \in Clusters
  BY <1>4 DEF Live
<1>7. Adds(now, f, b, w, T, None, 0)
  <2>1. NewName(now, w, f.dir, None, f.entry.name)
    BY <1>1, <1>5, <1>6 DEF Adds, NewName
  <2>2. ASSUME f.op = "rename"
        PROVE  (\E h \in T : Live(now, w, h, None, f.at[1], f.at[2])) /\ CellAt(now, f.at) = CellAt(d, f.at)
    <3>1. PICK h \in T : Live(d, w, h, Row(f.new), f.at[1], f.at[2])
      BY <1>1, <2>2 DEF Adds
    <3>. QED
      BY <1>5, <1>6, <3>1 DEF CellAt
  <2>. QED
    BY <1>1, <2>1, <2>2 DEF Adds
<1>8. ASSUME NEW g, g.dir = f.dir, g.slot = <<f.new, 1>> PROVE SlotOK(now, g, w)
  <2>1. SUFFICES ASSUME f.new \in Clusters
                 PROVE  1 \in Slots /\ ~entry_visible(CellAt(now, g.slot)) /\ Clear(now, w, f.dir, f.new, 1)
    BY <1>3, <1>8 DEF SlotOK
  <2>2. 1 \in Slots
    BY Fat32Assumption DEF Slots
  <2>3. ~entry_visible(CellAt(now, g.slot))
    BY <1>5, <1>8, <2>1, <2>2 DEF CellAt, entry_visible, Empty
  <2>4. Clear(now, w, f.dir, f.new, 1)
    <3>1. SUFFICES ASSUME NEW p \in 1..Len(w[f.dir]), NEW q \in 1..Len(w[f.dir]), NEW j \in Slots,
                          w[f.dir][q] = f.new, Earlier(p, j, q, 1)
                   PROVE  w[f.dir][p] \in Clusters /\ now.data[w[f.dir][p]][j] # Empty
      BY DEF Clear
    <3>2. p # q
      BY <3>1 DEF Earlier, Slots
    <3>3. w[f.dir][p] # f.new
      BY <1>2, <3>1, <3>2 DEF Chained, LinkedUp
    <3>4. w[f.dir][p] \in Clusters /\ d.data[w[f.dir][p]][j] # Empty
      BY <1>1, <3>3 DEF FullBut, In
    <3>. QED
      BY <1>5, <3>3, <3>4
  <2>. QED
    BY <2>2, <2>3, <2>4
<1>. QED
  BY <1>5, <1>7, <1>8

\* mkdir gives its cluster back.
LEMMA UndoIs ==
  ASSUME CallerInv, NEW w, NEW T, Sound(disk', w, T, None), Unused(w, k.new), With(Undo, "link1")
  PROVE  State(pc', disk', k', before', w, T)
<1>1. k' = Undo /\ pc' = "link1"
  BY DEF With
<1>2. Undo.why = "undo" /\ Undo.from = k.new /\ Undo.to = 0
  BY DEF CallerInv, FrameOK, NoFrame, Undo
<1>. HIDE DEF Undo
<1>. QED
  BY <1>1, <1>2 DEF State, Linking1, Labels

LEMMA ZeroKeeps ==
  ASSUME CallerInv, VolumeInv, zero
  PROVE  VolumeInv'
<1>. DEFINE blank == WithRow(disk, k.new, Blank)
<1>1. SUFFICES ASSUME Quiet' PROVE \E w, T : State(pc', disk', k', before', w, T)
  BY DEF VolumeInv
<1>2. /\ pc = "zero" /\ NoFault
      /\ \/ k.new \in Clusters /\ disk' = blank
         \/ k.new \notin Clusters /\ disk' = disk
  BY <1>1, FaultNotQuiet DEF zero, Written, NotWritten, WithRow
<1>3. /\ k.why = "slot" => TakeSlot(<<k.new, 1>>)
      /\ k.why # "slot" =>
            \/ k.new \in Clusters /\ Goto("dot")
            \/ k.new \notin Clusters /\ With(Undo, "link1")
  BY <1>1, FaultNotQuiet DEF zero, Written, NotWritten
<1>4. Quiet /\ before' = before
  <2>1. \E frame, label : With(frame, label)
    BY <1>2, <1>3 DEF TakeSlot, Alloc, Goto
  <2>. QED
    BY <1>1, <1>2, <2>1, WithIs
<1>5. PICK w, T : State("zero", disk, k, before, w, T)
  BY <1>2, <1>4 DEF VolumeInv
<1>6. CASE k.why = "slot" /\ Extended(disk, k, before, w, T)
  <2>1. /\ Sound(disk', w, T, None) /\ Adds(disk', k, before, w, T, None, 0)
        /\ \A g : g.dir = k.dir /\ g.slot = <<k.new, 1>> => SlotOK(disk', g, w)
    BY <1>2, <1>6, ExtendedBlank
  <2>. QED
    BY <1>3, <1>6, <2>1, TakeSlotIs
<1>7. CASE k.why = "dir" /\ Making(disk, k, before, w, T) /\ Marked(disk, w, k.new)
  <2>1. Sound(disk, w, T, None) /\ ShapeOK(disk)
    BY <1>7 DEF Making, Sound
  <2>2. CASE k.new \in Clusters /\ disk' = blank /\ Goto("dot")
    <3>1. Blank = [i \in Slots |-> Blank[i]] /\ \A i \in Slots : Blank[i] = Empty
      BY DEF Blank, Slots
    <3>2. /\ ShapeOK(disk') /\ disk'.fat1 = disk.fat1 /\ disk'.data[k.new] = Blank
          /\ \A c \in Clusters : c # k.new => disk'.data[c] = disk.data[c]
      BY <2>1, <2>2, <3>1, RowIs
    <3>3. ShowsNothing(disk', k.new)
      BY <3>1, <3>2 DEF ShowsNothing, entry_visible, Empty
    <3>4. Beside(disk, disk', w)
      BY <1>7, <3>2 DEF Beside, Marked, Unused
    <3>5. Making(disk', k, before, w, T) /\ Marked(disk', w, k.new)
      BY <1>7, <3>2, <3>4, MakingBeside DEF Marked
    <3>6. k' = k /\ pc' = "dot"
      BY <2>2 DEF Goto, With
    <3>. QED
      BY <1>4, <2>2, <3>3, <3>5, <3>6 DEF State, Labels
  <2>3. CASE k.new \notin Clusters /\ disk' = disk /\ With(Undo, "link1")
    <3>1. State(pc', disk', k', before', w, T)
      BY <1>7, <2>1, <2>3, UndoIs DEF Marked
    <3>. QED
      BY <3>1
  <2>. QED
    BY <1>2, <1>3, <1>7, <2>2, <2>3
<1>. QED
  BY <1>5, <1>6, <1>7 DEF State

\* The dot entries of a directory that nothing leads to yet.
LEMMA DotIs ==
  ASSUME NEW d, NEW now, NEW f, NEW b, NEW w, NEW T, Making(d, f, b, w, T), Marked(d, w, f.new),
         f.new \in Clusters, ShowsNothing(d, f.new), NEW i \in Slots, now = Put(d, <<f.new, i>>, Dot)
  PROVE  Making(now, f, b, w, T) /\ Marked(now, w, f.new) /\ ShowsNothing(now, f.new)
<1>1. ShapeOK(d)
  BY DEF Making, Sound
<1>. DEFINE at == <<f.new, i>>
<1>2. at[1] = f.new /\ at[2] = i
  OBVIOUS
<1>. HIDE DEF at
<1>3. now = Put(d, at, Dot)
  BY DEF at
<1>4. Changed(d, now, f.new, i, Dot)
  BY <1>1, <1>2, <1>3, PutIs
<1>5. /\ ShapeOK(now) /\ now.fat1 = d.fat1 /\ now.data[f.new][i] = Dot
      /\ \A b1 \in Clusters, j \in Slots : b1 # f.new \/ j # i => now.data[b1][j] = d.data[b1][j]
  BY <1>4 DEF Changed
<1>6. ShowsNothing(now, f.new)
  BY <1>5 DEF ShowsNothing, entry_visible, Dot
<1>7. Beside(d, now, w)
  <2>1. \A c \in Clusters : c # f.new => now.data[c] = d.data[c]
    <3>1. SUFFICES ASSUME NEW c \in Clusters, c # f.new PROVE now.data[c] = d.data[c]
      OBVIOUS
    <3>2. now.data[c] = [j \in Slots |-> now.data[c][j]] /\ d.data[c] = [j \in Slots |-> d.data[c][j]]
      BY <1>1, <1>5 DEF ShapeOK
    <3>3. \A j \in Slots : now.data[c][j] = d.data[c][j]
      BY <1>5, <3>1
    <3>. QED
      BY <3>2, <3>3
  <2>. QED
    BY <2>1 DEF Beside, Marked, Unused
<1>. QED
  BY <1>5, <1>6, <1>7, MakingBeside DEF Marked

LEMMA DotKeeps ==
  ASSUME CallerInv, VolumeInv, dot
  PROVE  VolumeInv'
<1>1. SUFFICES ASSUME Quiet' PROVE \E w, T : State(pc', disk', k', before', w, T)
  BY DEF VolumeInv
<1>2. /\ pc = "dot" /\ NoFault
      /\ \/ k.new \in Clusters /\ disk' = Put(disk, <<k.new, 1>>, Dot) /\ With(k, "dotdot")
         \/ k.new \notin Clusters /\ With(Undo, "link1")
  BY <1>1, FaultNotQuiet DEF dot, Written, NotWritten, Goto
<1>3. Quiet /\ before' = before
  BY <1>1, <1>2, WithIs
<1>4. PICK w, T : State("dot", disk, k, before, w, T)
  BY <1>2, <1>3 DEF VolumeInv
<1>5. Making(disk, k, before, w, T) /\ Marked(disk, w, k.new) /\ k.new \in Clusters /\ ShowsNothing(disk, k.new)
  BY <1>4 DEF State
<1>6. disk' = Put(disk, <<k.new, 1>>, Dot) /\ k' = k /\ pc' = "dotdot" /\ 1 \in Slots
  BY <1>2, <1>5, Fat32Assumption DEF With, Slots
<1>7. Making(disk', k, before, w, T) /\ Marked(disk', w, k.new) /\ ShowsNothing(disk', k.new)
  BY <1>5, <1>6, DotIs
<1>. QED
  BY <1>3, <1>5, <1>6, <1>7 DEF State, Labels

LEMMA EntryFirst ==
  ASSUME NEW name, NEW dir, NEW first, NEW size, NEW c, NEW entry, entry = Entry(name, dir, first, size)
  PROVE  [entry EXCEPT !.first = c] = Entry(name, dir, c, size)
BY DEF Entry

LEMMA DotdotKeeps ==
  ASSUME CallerInv, VolumeInv, dotdot
  PROVE  VolumeInv'
<1>. DEFINE g == [k EXCEPT !.entry.first = k.new]
<1>1. SUFFICES ASSUME Quiet' PROVE \E w, T : State(pc', disk', k', before', w, T)
  BY DEF VolumeInv
<1>2. /\ pc = "dotdot" /\ NoFault
      /\ \/ k.new \in Clusters /\ disk' = Put(disk, <<k.new, 2>>, Dot) /\ With(g, "entry")
         \/ k.new \notin Clusters /\ With(Undo, "link1")
  BY <1>1, FaultNotQuiet DEF dotdot, Written, NotWritten
<1>3. Quiet /\ before' = before
  BY <1>1, <1>2, WithIs
<1>4. PICK w, T : State("dotdot", disk, k, before, w, T)
  BY <1>2, <1>3 DEF VolumeInv
<1>5. Making(disk, k, before, w, T) /\ Marked(disk, w, k.new) /\ k.new \in Clusters /\ ShowsNothing(disk, k.new)
  BY <1>4 DEF State
<1>6. disk' = Put(disk, <<k.new, 2>>, Dot) /\ k' = g /\ pc' = "entry" /\ 2 \in Slots
  BY <1>2, <1>5, Fat32Assumption DEF With, Slots
<1>7. Making(disk', k, before, w, T) /\ Marked(disk', w, k.new) /\ ShowsNothing(disk', k.new)
  BY <1>5, <1>6, DotIs
<1>8. g = [k EXCEPT !.entry = [k.entry EXCEPT !.first = k.new]]
  OBVIOUS
<1>9. /\ g.op = k.op /\ g.dir = k.dir /\ g.slot = k.slot /\ g.new = k.new
      /\ g.entry = [k.entry EXCEPT !.first = k.new]
  BY <1>8 DEF CallerInv, FrameOK, NoFrame
<1>. HIDE DEF g
<1>10. /\ k.op = "mkdir" /\ Sound(disk', w, T, None) /\ SlotOK(disk', k, w)
       /\ k.dir \in T /\ k.entry.name \in ShortNames /\ NewName(disk', w, k.dir, None, k.entry.name)
       /\ k.entry = Entry(k.entry.name, TRUE, 0, 0)
  BY <1>7 DEF Making, Adds
<1>11. g.entry = Entry(k.entry.name, TRUE, k.new, 0) /\ g.entry.name = k.entry.name
  <2>. DEFINE e == [k.entry EXCEPT !.first = k.new]
  <2>4. PICK t, n : t = TRUE /\ n = k.entry.name
    OBVIOUS
  <2>5. k.entry = Entry(n, t, 0, 0)
    BY <1>10, <2>4
  <2>6. e = Entry(n, t, k.new, 0)
    BY <2>5, EntryFirst
  <2>1. e = Entry(k.entry.name, TRUE, k.new, 0)
    BY <2>4, <2>6
  <2>2. g.entry = e
    BY <1>9
  <2>. HIDE DEF e
  <2>3. Entry(k.entry.name, TRUE, k.new, 0).name = k.entry.name
    BY DEF Entry
  <2>. QED
    BY <2>1, <2>2, <2>3
<1>12. Adds(disk', g, before, w, T, None, g.new)
  BY <1>9, <1>10, <1>11 DEF Adds
<1>13. SlotOK(disk', g, w)
  BY <1>9, <1>10 DEF SlotOK
<1>14. Entering(disk', g, before, w, T)
  BY <1>5, <1>7, <1>9, <1>10, <1>12, <1>13 DEF Entering
<1>. QED
  BY <1>3, <1>6, <1>14 DEF State, Labels

IsNew(name, dir, first, e, w, T) ==
  /\ name \in ShortNames /\ dir \in BOOLEAN /\ e = Entry(name, dir, first, 0)
  /\ dir => first \in T \ {Root} /\ Len(w[first]) \in Nat
  /\ ~dir => first = 0

LEMMA NewEntry ==
  ASSUME NEW name, NEW dir, NEW first, NEW e, NEW w, NEW T, IsNew(name, dir, first, e, w, T)
  PROVE  GoodEntry(w, T, e) /\ e.name = name /\ e.dir = dir /\ e.first = first /\ e.size = 0
<1>. USE DEF IsNew
<1>1. e.name = name /\ e.dir = dir /\ e.first = first /\ e.size = 0
  BY DEF Entry
<1>2. 0 <= SlotsPerCluster * Len(w[first]) \/ ~dir
  <2>1. ASSUME NEW l \in Nat PROVE SlotsPerCluster * l \in Nat
    BY Fat32Assumption
  <2>. QED
    BY <2>1
<1>. QED
  BY <1>1, <1>2 DEF GoodEntry

\* The new entry appears: an empty file, or a directory that shows nothing.
LEMMA EnteredFile ==
  ASSUME NEW d, NEW now, NEW f, NEW b, NEW w, NEW T, Entering(d, f, b, w, T), f.op = "create",
         f.slot[1] \in Clusters, now = Put(d, f.slot, f.entry)
  PROVE  Sound(now, w, T, None)
<1>. DEFINE c == f.slot[1]
            i == f.slot[2]
<1>1. /\ Sound(d, w, T, None) /\ f.dir \in T /\ f.entry.name \in ShortNames
      /\ NewName(d, w, f.dir, None, f.entry.name) /\ f.entry = Entry(f.entry.name, FALSE, 0, 0)
      /\ In(w, f.dir, c) /\ i \in Slots /\ ~entry_visible(d.data[c][i]) /\ Clear(d, w, f.dir, c, i)
  BY DEF Entering, Adds, SlotOK, CellAt
<1>2. Changed(d, now, c, i, f.entry)
  BY <1>1, PutIs DEF Sound
<1>3. f.entry.first = 0 /\ GoodEntry(w, T, f.entry)
  <2>1. PICK t, n : t = FALSE /\ t \in BOOLEAN /\ n \in ShortNames /\ n = f.entry.name /\ f.entry = Entry(n, t, 0, 0)
    BY <1>1
  <2>2. GoodEntry(w, T, f.entry) /\ f.entry.name = n /\ f.entry.dir = t /\ f.entry.first = 0 /\ f.entry.size = 0
    <3>1. IsNew(n, t, 0, f.entry, w, T)
      BY <2>1 DEF IsNew
    <3>. QED
      BY <3>1, NewEntry
  <2>. QED
    BY <2>2
<1>5. Joins(d, w, T, None, f.dir, c, i, f.entry)
  BY <1>1, <1>3 DEF Joins, NewFirst
<1>. HIDE DEF c, i
<1>6. \A x \in None : x # <<c, i>> => x \in None
  OBVIOUS
<1>. QED
  BY <1>1, <1>2, <1>5, <1>6, SoundJoined

LEMMA EnteredDirectory ==
  ASSUME NEW d, NEW now, NEW f, NEW b, NEW w, NEW T, Entering(d, f, b, w, T), f.op = "mkdir",
         f.slot[1] \in Clusters, now = Put(d, f.slot, f.entry)
  PROVE  Sound(now, Also(w, f.new), Grafted(w, T, f.new, TRUE), None)
<1>. DEFINE c == f.slot[1]
            i == f.slot[2]
            v == Also(w, f.new)
            U == Grafted(w, T, f.new, TRUE)
<1>1. /\ Sound(d, w, T, None) /\ f.dir \in T /\ f.entry.name \in ShortNames
      /\ NewName(d, w, f.dir, None, f.entry.name) /\ f.entry = Entry(f.entry.name, TRUE, f.new, 0)
      /\ In(w, f.dir, c) /\ i \in Slots /\ ~entry_visible(d.data[c][i]) /\ Clear(d, w, f.dir, c, i)
      /\ Unused(w, f.new) /\ d.fat1[f.new] = END /\ ShowsNothing(d, f.new)
  BY DEF Entering, Adds, SlotOK, CellAt, Marked
<1>2. Changed(d, now, c, i, f.entry)
  BY <1>1, PutIs DEF Sound
<1>4. T \subseteq DOMAIN w /\ Chained(d.fat1, w) /\ Root \in T
  BY <1>1 DEF Sound
<1>5. /\ f.new \notin DOMAIN w /\ DOMAIN v = DOMAIN w \cup {f.new}
      /\ \A h \in DOMAIN w : v[h] = w[h] /\ \A e : In(v, h, e) <=> In(w, h, e)
      /\ v[f.new] = <<f.new>> /\ Len(v[f.new]) = 1
      /\ \A e : In(v, f.new, e) <=> e = f.new
      /\ Chained(d.fat1, v)
  BY <1>1, <1>4, AlsoIs
<1>6. Sound(d, v, U, None)
  BY <1>1, SoundAlso DEF ShowsNothing
<1>7. U = T \cup {f.new} /\ f.new # Root
  BY <1>4, <1>5 DEF Grafted
<1>. HIDE DEF v, U
<1>3. f.entry.first = f.new /\ GoodEntry(v, U, f.entry)
  <2>1. PICK t, n : t = TRUE /\ t \in BOOLEAN /\ n \in ShortNames /\ n = f.entry.name /\ f.entry = Entry(n, t, f.new, 0)
    BY <1>1
  <2>2. f.new \in U \ {Root} /\ Len(v[f.new]) \in Nat
    BY <1>5, <1>7
  <2>3. GoodEntry(v, U, f.entry) /\ f.entry.name = n /\ f.entry.dir = t /\ f.entry.first = f.new /\ f.entry.size = 0
    <3>1. IsNew(n, t, f.new, f.entry, v, U)
      BY <2>1, <2>2 DEF IsNew
    <3>. QED
      BY <3>1, NewEntry
  <2>. QED
    BY <2>3
<1>9. ASSUME NEW h \in U, NEW e, NEW j, Live(d, v, h, None, e, j)
      PROVE  d.data[e][j].first # f.new
  <2>1. h # f.new
    BY <1>1, <1>5, <1>9 DEF Live, ShowsNothing
  <2>2. h \in T /\ Live(d, w, h, None, e, j)
    BY <1>4, <1>5, <1>7, <1>9, <2>1 DEF Live
  <2>3. GoodEntry(w, T, d.data[e][j])
    BY <1>1, <2>2, LiveEntry
  <2>4. f.new # 0
    BY <1>1, FatNumbers DEF Unused
  <2>. QED
    BY <1>4, <1>5, <2>3, <2>4 DEF GoodEntry
<1>10. NewFirst(d, v, U, None, f.entry.first)
  BY <1>3, <1>9 DEF NewFirst
<1>11. NewName(d, v, f.dir, None, f.entry.name)
  BY <1>1, <1>4, <1>5 DEF NewName, Live
<1>12. Clear(d, v, f.dir, c, i)
  <2>1. v[f.dir] = w[f.dir]
    BY <1>1, <1>4, <1>5
  <2>. QED
    BY <1>1, <2>1 DEF Clear
<1>13. f.dir \in U /\ In(v, f.dir, c)
  BY <1>1, <1>4, <1>5, <1>7
<1>14. Joins(d, v, U, None, f.dir, c, i, f.entry)
  BY <1>1, <1>3, <1>10, <1>11, <1>12, <1>13 DEF Joins
<1>. HIDE DEF c, i
<1>15. \A x \in None : x # <<c, i>> => x \in None
  OBVIOUS
<1>16. Sound(now, v, U, None)
  BY <1>2, <1>6, <1>14, <1>15, SoundJoined
<1>. QED
  BY <1>16 DEF v, U

\* A renamed entry is as good as the old one.
LEMMA GoodRenamed ==
  ASSUME NEW w, NEW T, NEW old, GoodEntry(w, T, old), NEW name \in ShortNames, NEW e, e = [old EXCEPT !.name = name]
  PROVE  GoodEntry(w, T, e) /\ e.name = name /\ e.first = old.first
<1>1. DOMAIN old = {"kind", "name", "dir", "first", "size"} /\ old.kind = "entry"
  <2>1. old = Entry(old.name, old.dir, old.first, old.size)
    BY DEF GoodEntry
  <2>2. ASSUME NEW n, NEW x, NEW c, NEW z
        PROVE  DOMAIN Entry(n, x, c, z) = {"kind", "name", "dir", "first", "size"} /\ Entry(n, x, c, z).kind = "entry"
    BY DEF Entry
  <2>. QED
    BY <2>1, <2>2
<1>2. DOMAIN e = DOMAIN old
  OBVIOUS
<1>3. e.name = name /\ e.first = old.first /\ e.size = old.size /\ e.kind = "entry"
  BY <1>1
<1>4. e.dir = old.dir
  BY <1>1
<1>5. e = Entry(e.name, e.dir, e.first, e.size)
  <2>1. e = [y \in {"kind", "name", "dir", "first", "size"} |-> e[y]]
    BY <1>1, <1>2
  <2>. QED
    BY <1>1, <1>2, <1>3, <2>1 DEF Entry
<1>6. GoodEntry(w, T, e)
  BY <1>3, <1>4, <1>5 DEF GoodEntry
<1>. QED
  BY <1>3, <1>6

LEMMA EnteredName ==
  ASSUME NEW d, NEW now, NEW f, NEW b, NEW w, NEW T, Entering(d, f, b, w, T), f.op = "rename",
         f.slot[1] \in Clusters, now = Put(d, f.slot, f.entry)
  PROVE  Renamed(now, f, b, w, T)
<1>. DEFINE c == f.slot[1]
            i == f.slot[2]
<1>1. /\ Sound(d, w, T, None) /\ f.dir \in T /\ f.entry.name \in ShortNames
      /\ NewName(d, w, f.dir, None, f.entry.name) /\ f.entry = [CellAt(d, f.at) EXCEPT !.name = f.entry.name]
      /\ In(w, f.dir, c) /\ i \in Slots /\ ~entry_visible(d.data[c][i]) /\ Clear(d, w, f.dir, c, i)
      /\ CellAt(b, f.at) = CellAt(d, f.at)
  BY DEF Entering, Adds, SlotOK, CellAt
<1>2. PICK h \in T : Live(d, w, h, None, f.at[1], f.at[2])
  BY DEF Entering, Adds
<1>3. GoodEntry(w, T, CellAt(d, f.at)) /\ f.at[1] \in Clusters /\ f.at[2] \in Slots /\ entry_visible(CellAt(d, f.at))
  <2>1. PICK p, q : p = f.at[1] /\ q = f.at[2] /\ Live(d, w, h, None, p, q)
    BY <1>2
  <2>2. GoodEntry(w, T, d.data[p][q]) /\ p \in Clusters /\ q \in Slots /\ entry_visible(d.data[p][q])
    BY <1>1, <2>1, LiveEntry
  <2>. QED
    BY <2>1, <2>2 DEF CellAt
<1>4. GoodEntry(w, T, f.entry) /\ f.entry.first = CellAt(d, f.at).first
  <2>1. PICK name : name = f.entry.name
    OBVIOUS
  <2>2. f.entry = [CellAt(d, f.at) EXCEPT !.name = name]
    BY <1>1, <2>1
  <2>. QED
    BY <1>1, <1>3, <2>1, <2>2, GoodRenamed
<1>5. Changed(d, now, c, i, f.entry)
  BY <1>1, PutIs DEF Sound
<1>6. Sound(d, w, T, Only(f.at))
  BY <1>1, SoundSkip DEF None
<1>7. \A g \in T : \A x, y : Live(d, w, g, Only(f.at), x, y) => Live(d, w, g, None, x, y) /\ (x # f.at[1] \/ y # f.at[2])
  BY DEF Live, None, Only
<1>9. NewName(d, w, f.dir, Only(f.at), f.entry.name)
  BY <1>1, <1>7 DEF NewName
<1>10. NewFirst(d, w, T, Only(f.at), f.entry.first)
  <2>1. SUFFICES ASSUME f.entry.first # 0, NEW g \in T, NEW x, NEW y, Live(d, w, g, Only(f.at), x, y),
                        d.data[x][y].first = f.entry.first
                 PROVE  FALSE
    BY DEF NewFirst
  <2>2. Live(d, w, g, None, x, y) /\ (x # f.at[1] \/ y # f.at[2])
    BY <1>7, <2>1
  <2>3. FirstsDiffer(d, w, T, None)
    BY <1>1 DEF Sound
  <2>4. PICK p, q : p = f.at[1] /\ q = f.at[2] /\ Live(d, w, h, None, p, q) /\ CellAt(d, f.at) = d.data[p][q]
    BY <1>2 DEF CellAt
  <2>5. d.data[x][y].first = d.data[p][q].first /\ d.data[x][y].first # 0
    BY <1>4, <2>1, <2>4
  <2>6. x = p /\ y = q
    BY <2>2, <2>3, <2>4, <2>5 DEF FirstsDiffer
  <2>. QED
    BY <2>2, <2>4, <2>6
<1>11. Joins(d, w, T, Only(f.at), f.dir, c, i, f.entry)
  BY <1>1, <1>4, <1>9, <1>10 DEF Joins
<1>12. \A x \in Only(f.at) : x # <<c, i>> => x \in Only(f.at)
  OBVIOUS
<1>13. CellAt(now, f.slot) = f.entry
  BY <1>5 DEF Changed, CellAt
<1>14. CellAt(now, f.at) = CellAt(d, f.at)
  BY <1>1, <1>3, <1>5 DEF Changed, CellAt
<1>. HIDE DEF c, i
<1>15. Sound(now, w, T, Only(f.at))
  BY <1>5, <1>6, <1>11, <1>12, SoundJoined
<1>. QED
  BY <1>1, <1>3, <1>13, <1>14, <1>15 DEF Renamed

LEMMA WriteEntryKeeps ==
  ASSUME CallerInv, VolumeInv, write_entry
  PROVE  VolumeInv'
<1>1. SUFFICES ASSUME Quiet' PROVE VolumeInv'
  BY DEF VolumeInv
<1>2. /\ pc = "entry" /\ NoFault
      /\ \/ /\ k.slot[1] \in Clusters /\ disk' = Put(disk, k.slot, k.entry)
            /\ IF k.op = "rename" THEN Goto("delete") ELSE Return("OK")
         \/ /\ k.slot[1] \notin Clusters /\ disk' = disk
            /\ IF k.op = "mkdir" THEN With(Undo, "link1") ELSE Return("IO_ERROR")
  BY <1>1, FaultNotQuiet DEF write_entry, Written, NotWritten
<1>3. Quiet
  BY <1>1, <1>2, WithIs, ReturnQuiet DEF Goto
<1>4. PICK w, T : State("entry", disk, k, before, w, T)
  BY <1>2, <1>3 DEF VolumeInv
<1>5. Entering(disk, k, before, w, T)
  BY <1>4 DEF State
<1>6. Sound(disk, w, T, None) /\ k.op \in {"create", "mkdir", "rename"}
  BY <1>5 DEF Entering, Adds
<1>7. CASE k.slot[1] \in Clusters /\ disk' = Put(disk, k.slot, k.entry) /\ k.op = "rename" /\ Goto("delete")
  <2>1. k' = k /\ pc' = "delete" /\ before' = before
    BY <1>7 DEF Goto, With
  <2>2. Renamed(disk', k, before, w, T)
    BY <1>5, <1>7, EnteredName
  <2>3. State(pc', disk', k', before', w, T)
    BY <2>1, <2>2 DEF State, Labels
  <2>. QED
    BY <2>3 DEF VolumeInv
<1>8. CASE k.slot[1] \in Clusters /\ disk' = Put(disk, k.slot, k.entry) /\ k.op = "create" /\ Return("OK")
  <2>1. Sound(disk', w, T, None)
    BY <1>5, <1>8, EnteredFile
  <2>. QED
    BY <1>8, <2>1, ReturnIs
<1>9. CASE k.slot[1] \in Clusters /\ disk' = Put(disk, k.slot, k.entry) /\ k.op = "mkdir" /\ Return("OK")
  <2>1. Sound(disk', Also(w, k.new), Grafted(w, T, k.new, TRUE), None)
    BY <1>5, <1>9, EnteredDirectory
  <2>. QED
    BY <1>9, <2>1, ReturnIs
<1>10. CASE disk' = disk /\ k.op = "mkdir" /\ With(Undo, "link1")
  <2>1. Unused(w, k.new)
    BY <1>5, <1>10 DEF Entering, Marked
  <2>2. State(pc', disk', k', before', w, T)
    BY <1>6, <1>10, <2>1, UndoIs
  <2>. QED
    BY <2>2 DEF VolumeInv
<1>11. CASE disk' = disk /\ Return("IO_ERROR")
  BY <1>6, <1>11, ReturnIs
<1>. QED
  BY <1>2, <1>6, <1>7, <1>8, <1>9, <1>10, <1>11

\* The entry goes, and what it led to is no part of the tree any more.
LEMMA Deletes ==
  ASSUME NEW d, NEW now, NEW w, NEW T, NEW at, Sound(d, w, T, Only(at)), at[1] \in Clusters, at[2] \in Slots,
         now = Put(d, at, Deleted)
  PROVE  Sound(now, w, T, None)
<1>1. Changed(d, now, at[1], at[2], Deleted)
  BY PutIs DEF Sound
<1>. QED
  BY <1>1, SoundDeleted DEF Changed

LEMMA DeleteEntryKeeps ==
  ASSUME CallerInv, VolumeInv, delete_entry
  PROVE  VolumeInv'
<1>1. SUFFICES ASSUME Quiet' PROVE VolumeInv'
  BY DEF VolumeInv
<1>3. NoFault /\ pc = "delete"
  BY <1>1, FaultNotQuiet DEF delete_entry, Written, NotWritten
<1>2. Quiet
  <2>1. (\E r : Return(r)) \/ With(k, "delete_copy")
    BY DEF delete_entry, Goto
  <2>. QED
    BY <1>1, <1>3, <2>1, WithIs, ReturnQuiet
<1>4. PICK w, T : State("delete", disk, k, before, w, T)
  BY <1>2, <1>3 DEF VolumeInv
<1>5. k.at[1] \in Clusters /\ k.at[2] \in Slots /\ Sound(disk, w, T, Only(k.at))
  BY <1>4 DEF State, Removing, Renamed
<1>6. disk' = Put(disk, k.at, Deleted) /\ Return("OK")
  BY <1>1, <1>5, FaultNotQuiet DEF delete_entry, Written, NotWritten
<1>7. Sound(disk', w, T, None)
  BY <1>5, <1>6, Deletes
<1>. QED
  BY <1>6, <1>7, ReturnIs

\* Only a write that failed leads to the deletion of the new entry.
LEMMA DeleteCopyKeeps ==
  ASSUME CallerInv, VolumeInv, delete_copy
  PROVE  VolumeInv'
<1>1. SUFFICES ASSUME Quiet' PROVE FALSE
  BY DEF VolumeInv
<1>2. Quiet /\ pc = "delete_copy"
  BY <1>1, FaultNotQuiet, ReturnQuiet DEF delete_copy, Written, NotWritten
<1>. QED
  BY <1>2 DEF VolumeInv, State, Labels

LEMMA FreeChainKeeps ==
  ASSUME CallerInv, VolumeInv, free_chain
  PROVE  VolumeInv'
<1>1. SUFFICES ASSUME Quiet' PROVE \E w, T : State(pc', disk', k', before', w, T)
  BY DEF VolumeInv
<1>. DEFINE g == [k EXCEPT !.why = "free", !.next = disk.fat1[k.from], !.to = 0]
<1>2. /\ pc = "free" /\ NoFault /\ disk' = disk
      /\ Goto("delete") \/ (~Stops(k.from) /\ With(g, "link1"))
  BY <1>1, FaultNotQuiet DEF free_chain, NoAccess
<1>3. Quiet /\ before' = before
  BY <1>1, <1>2, WithIs DEF Goto
<1>4. PICK w, T : State("free", disk, k, before, w, T)
  BY <1>2, <1>3 DEF VolumeInv
<1>5. Removing(disk, k, before, w, T) /\ Doomed(disk, w, k.from)
  BY <1>4 DEF State
<1>6. CASE Goto("delete")
  <2>1. k' = k /\ pc' = "delete"
    BY <1>6 DEF Goto, With
  <2>. QED
    BY <1>2, <1>3, <1>5, <2>1 DEF State, Labels
<1>7. CASE ~Stops(k.from) /\ With(g, "link1")
  <2>1. k' = g /\ pc' = "link1"
    BY <1>7 DEF With
  <2>2. /\ g.why = "free" /\ g.next = disk.fat1[k.from] /\ g.to = 0 /\ g.from = k.from /\ g.op = k.op /\ g.at = k.at
    BY DEF CallerInv, FrameOK, NoFrame
  <2>. HIDE DEF g
  <2>3. Removing(disk, g, before, w, T)
    BY <1>5, <2>2, FrameRemove
  <2>4. Linking1(disk, g, before, w, T)
    BY <1>5, <1>7, <2>2, <2>3 DEF Linking1
  <2>. QED
    BY <1>2, <1>3, <2>1, <2>4 DEF State, Labels
<1>. QED
  BY <1>2, <1>6, <1>7

LEMMA ChunkKeeps ==
  ASSUME CallerInv, VolumeInv, chunk
  PROVE  VolumeInv'
<1>. DEFINE hops  == k.offset \div SlotsPerCluster
            chain == FileChain(disk, k.first)
<1>1. SUFFICES ASSUME Quiet' PROVE VolumeInv'
  BY DEF VolumeInv
<1>2. /\ pc = "chunk" /\ NoFault /\ disk' = disk
      /\ \/ Goto("update") \/ Return("OK")
         \/ /\ k.written < Len(k.input) /\ hops < Len(chain)
            /\ With([k EXCEPT !.from = chain[hops + 1]], "put")
         \/ Alloc([k EXCEPT !.from = chain[Len(chain)]], "extend")
  BY <1>1, FaultNotQuiet DEF chunk, NoAccess
<1>3. Quiet
  BY <1>1, <1>2, WithIs, ReturnQuiet DEF Goto, Alloc
<1>4. PICK w, T : State("chunk", disk, k, before, w, T)
  BY <1>2, <1>3 DEF VolumeInv
<1>5. Chosen(disk, k, w, T) /\ Sound(disk, w, T, None) /\ k.first \in DOMAIN w /\ k.offset \in Nat
  BY <1>4 DEF State, Chosen, Filling
<1>6. Chained(disk.fat1, w)
  BY <1>5 DEF Sound
<1>7. chain = w[k.first] /\ Len(w[k.first]) \in Nat
  BY <1>5, <1>6, ChainIs, ChainFacts DEF Chained
<1>. HIDE DEF chain
<1>8. CASE Goto("update")
  <2>1. k' = k /\ pc' = "update" /\ before' = before
    BY <1>8 DEF Goto, With
  <2>2. State(pc', disk', k', before', w, T)
    BY <1>2, <1>5, <2>1 DEF State, Labels
  <2>. QED
    BY <2>2 DEF VolumeInv
<1>9. CASE Return("OK")
  BY <1>2, <1>5, <1>9, ReturnIs
<1>10. CASE k.written < Len(k.input) /\ hops < Len(chain) /\ With([k EXCEPT !.from = chain[hops + 1]], "put")
  <2>. DEFINE g == [k EXCEPT !.from = chain[hops + 1]]
  <2>1. k' = g /\ pc' = "put" /\ before' = before
    BY <1>10 DEF With
  <2>2. SameWrite(k, g) /\ g.first = k.first /\ g.from = chain[hops + 1]
    BY DEF CallerInv, FrameOK, NoFrame, SameWrite
  <2>. HIDE DEF g
  <2>3. Chosen(disk, g, w, T)
    BY <1>5, <2>2, FrameWrite
  <2>4. hops \in Nat
    BY <1>5, Division, Fat32Assumption
  <2>. HIDE DEF hops
  <2>5. In(w, g.first, g.from)
    BY <1>7, <1>10, <2>2, <2>4 DEF In
  <2>6. g.offset \div SlotsPerCluster < Len(w[g.first]) /\ g.written < Len(g.input)
    BY <1>7, <1>10, <2>2 DEF SameWrite, hops
  <2>7. State(pc', disk', k', before', w, T)
    BY <1>2, <2>1, <2>3, <2>5, <2>6 DEF State, Labels
  <2>. QED
    BY <2>7 DEF VolumeInv
<1>11. CASE Alloc([k EXCEPT !.from = chain[Len(chain)]], "extend")
  <2>. DEFINE g == [[k EXCEPT !.from = chain[Len(chain)]] EXCEPT !.why = "extend"]
  <2>1. k' = g /\ pc' = "alloc" /\ before' = before
    BY <1>11 DEF Alloc, With
  <2>2. SameWrite(k, g) /\ g.first = k.first /\ g.from = chain[Len(chain)] /\ g.why = "extend"
    BY DEF CallerInv, FrameOK, NoFrame, SameWrite
  <2>. HIDE DEF g
  <2>3. Chosen(disk, g, w, T)
    BY <1>5, <2>2, FrameWrite
  <2>4. State(pc', disk', k', before', w, T)
    BY <1>2, <1>7, <2>1, <2>2, <2>3 DEF State, Labels, Allocating, Last
  <2>. QED
    BY <2>4 DEF VolumeInv
<1>. QED
  BY <1>2, <1>8, <1>9, <1>10, <1>11

\* What one sector takes: at most to its end, and some of what is left.
LEMMA PieceFits ==
  ASSUME NEW offset \in Nat, NEW left \in Nat, NEW n, n = Min({SlotsPerCluster - (offset % SlotsPerCluster), left}),
         NEW l \in Nat, offset \div SlotsPerCluster < l
  PROVE  n \in Nat /\ offset + n \in Nat /\ offset + n <= SlotsPerCluster * l
<1>. DEFINE q == offset \div SlotsPerCluster
            r == offset % SlotsPerCluster
            S == {SlotsPerCluster - (offset % SlotsPerCluster), left}
<1>1. /\ q \in Nat /\ r \in Nat /\ r < SlotsPerCluster /\ offset = SlotsPerCluster * q + r
      /\ SlotsPerCluster \in Nat
  BY Division, Fat32Assumption
<1>2. SlotsPerCluster - r \in Nat
  <2>. HIDE DEF r, q
  <2>. QED
    BY <1>1
<1>3. S \subseteq Nat /\ S # {} /\ SlotsPerCluster - r \in S
  BY <1>2
<1>. HIDE DEF S
<1>4. Min(S) \in S /\ Min(S) <= SlotsPerCluster - r
  BY <1>3, MinIs
<1>5. n = Min(S)
  BY DEF S
<1>6. n \in Nat /\ n <= SlotsPerCluster - r
  BY <1>3, <1>4, <1>5
<1>7. q + 1 <= l
  BY <1>1
<1>. HIDE DEF q, r
<1>8. SlotsPerCluster * (q + 1) <= SlotsPerCluster * l /\ SlotsPerCluster * (q + 1) = SlotsPerCluster * q + SlotsPerCluster
  <2>1. PICK z \in Nat : l = (q + 1) + z
    <3>1. l - (q + 1) \in Nat /\ l = (q + 1) + (l - (q + 1))
      BY <1>1, <1>7
    <3>. QED
      BY <3>1
  <2>2. SlotsPerCluster * l = SlotsPerCluster * (q + 1) + SlotsPerCluster * z /\ SlotsPerCluster * z \in Nat
    BY <1>1, <2>1
  <2>3. SlotsPerCluster * (q + 1) = SlotsPerCluster * q + SlotsPerCluster /\ SlotsPerCluster * q \in Nat
    BY <1>1
  <2>. QED
    BY <1>1, <2>2, <2>3
<1>9. PICK a \in Nat, z \in Nat : a = SlotsPerCluster * q /\ z = SlotsPerCluster * l
  BY <1>1
<1>10. offset = a + r /\ a + SlotsPerCluster <= z
  BY <1>1, <1>8, <1>9
<1>11. offset + n <= z
  BY <1>1, <1>6, <1>10
<1>. QED
  BY <1>6, <1>9, <1>11

\* A cluster of the file is written.
LEMMA ChosenPut ==
  ASSUME NEW d, NEW now, NEW f, NEW w, NEW T, Chosen(d, f, w, T), NEW c, In(w, f.first, c), c \in Clusters,
         ShapeOK(now), now.fat1 = d.fat1, \A e \in Clusters : e # c => now.data[e] = d.data[e]
  PROVE  Chosen(now, f, w, T)
<1>1. Sound(d, w, T, None) /\ f.first \in DOMAIN w \ T /\ Filling(d, f, w, T)
  BY DEF Chosen, Filling
<1>2. T \subseteq DOMAIN w /\ Chained(d.fat1, w)
  BY <1>1 DEF Sound
<1>3. \A h \in T : \A e : In(w, h, e) => e # c
  BY <1>1, <1>2 DEF Chained
<1>4. Sound(now, w, T, None)
  <2>1. \A h \in DOMAIN w : \A e : In(w, h, e) => now.fat1[e] = d.fat1[e]
    OBVIOUS
  <2>2. \A h \in T : \A e \in Clusters : In(w, h, e) => now.data[e] = d.data[e]
    BY <1>3
  <2>. QED
    BY <1>1, <2>1, <2>2, SoundElsewhere
<1>5. \A h \in T : \A e, i : Live(now, w, h, None, e, i) <=> Live(d, w, h, None, e, i)
  BY <1>3 DEF Live
<1>6. \A h \in T : \A e, i : Live(d, w, h, None, e, i) => now.data[e] = d.data[e]
  BY <1>3 DEF Live
<1>7. CellAt(now, f.at) = CellAt(d, f.at)
  BY <1>1, <1>6 DEF Filling, CellAt
<1>8. Filling(now, f, w, T)
  BY <1>1, <1>4, <1>5, <1>7 DEF Filling
<1>9. NewFirst(d, w, T, None, f.first) => NewFirst(now, w, T, None, f.first)
  BY <1>5, <1>6 DEF NewFirst
<1>. QED
  BY <1>8, <1>9 DEF Chosen

LEMMA PutKeeps ==
  ASSUME CallerInv, VolumeInv, put
  PROVE  VolumeInv'
<1>. DEFINE left == SubSeq(k.input, k.written + 1, Len(k.input))
            n    == Min({SlotsPerCluster - (k.offset % SlotsPerCluster), Len(left)})
            size == IF k.offset + n > k.size THEN k.offset + n ELSE k.size
            g    == [k EXCEPT !.offset = @ + n, !.written = @ + n, !.size = size]
            row  == Merged(disk.data[k.from], k.offset, left)
<1>1. SUFFICES ASSUME Quiet' PROVE VolumeInv'
  BY DEF VolumeInv
<1>2. NoFault /\ pc = "put"
  BY <1>1, FaultNotQuiet DEF put, FatWritten, FatNotWritten, Written, NotWritten
<1>3. Quiet
  <2>1. (\E r : Return(r)) \/ (\E frame, label : With(frame, label))
    BY DEF put
  <2>. QED
    BY <1>1, <1>2, <2>1, WithIs, ReturnQuiet
<1>4. PICK w, T : State("put", disk, k, before, w, T)
  BY <1>2, <1>3 DEF VolumeInv
<1>5. /\ Chosen(disk, k, w, T) /\ In(w, k.first, k.from) /\ k.offset \div SlotsPerCluster < Len(w[k.first])
      /\ k.written < Len(k.input)
  BY <1>4 DEF State
<1>6. /\ Sound(disk, w, T, None) /\ k.first \in DOMAIN w /\ k.offset \in Nat /\ k.size \in Nat /\ k.written \in Nat
      /\ IsSequence(k.input)
  BY <1>5 DEF Chosen, Filling
<1>7. Chained(disk.fat1, w) /\ ShapeOK(disk)
  BY <1>6 DEF Sound
<1>8. k.from \in All /\ ~(k.from < 2)
  BY <1>5, <1>6, <1>7, InChain DEF All
<1>9. \/ k.from \in Clusters /\ disk' = [disk EXCEPT !.data[k.from] = Merged(@, k.offset, left)] /\ With(g, "chunk")
      \/ disk' = disk /\ Return("IO_ERROR")
  BY <1>1, <1>8, FaultNotQuiet DEF put, Written, NotWritten
<1>10. CASE k.from \in Clusters /\ disk' = [disk EXCEPT !.data[k.from] = Merged(@, k.offset, left)] /\ With(g, "chunk")
  <2>1. disk' = WithRow(disk, k.from, row)
    BY <1>10 DEF WithRow
  <2>2. row = [i \in Slots |-> row[i]]
    BY DEF Merged, Slots
  <2>3. k' = g /\ pc' = "chunk" /\ before' = before
    BY <1>10 DEF With
  <2>4. Len(left) \in Nat
    <3>1. k.input \in Seq({k.input[i] : i \in DOMAIN k.input})
      BY <1>6 DEF IsSequence
    <3>2. left \in Seq({k.input[i] : i \in DOMAIN k.input})
      BY <1>6, <3>1
    <3>. QED
      BY <3>2
  <2>5. Len(w[k.first]) \in Nat
    BY <1>6, <1>7, ChainFacts
  <2>6. n \in Nat /\ k.offset + n \in Nat /\ k.offset + n <= SlotsPerCluster * Len(w[k.first])
    BY <1>5, <1>6, <2>4, <2>5, PieceFits
  <2>. HIDE DEF row, n, left
  <2>7. Chosen(disk', k, w, T)
    BY <1>5, <1>7, <1>10, <2>1, <2>2, RowIs, ChosenPut
  <2>8. /\ g.op = k.op /\ g.at = k.at /\ g.entry = k.entry /\ g.size = size /\ g.offset = k.offset + n
        /\ g.written = k.written + n /\ g.input = k.input /\ g.first = k.first
    BY DEF CallerInv, FrameOK, NoFrame
  <2>9. size \in Nat /\ size <= SlotsPerCluster * Len(w[k.first])
    BY <1>5, <1>6, <2>6 DEF Chosen
  <2>. HIDE DEF g, size
  <2>10. Chosen(disk', g, w, T)
    <3>1. Filling(disk', g, w, T)
      BY <1>6, <2>6, <2>7, <2>8, <2>9 DEF Chosen, Filling
    <3>. QED
      BY <2>6, <2>7, <2>8, <2>9, <3>1 DEF Chosen
  <2>11. State(pc', disk', k', before', w, T)
    BY <2>3, <2>10 DEF State, Labels
  <2>. QED
    BY <2>11 DEF VolumeInv
<1>11. CASE disk' = disk /\ Return("IO_ERROR")
  BY <1>6, <1>11, ReturnIs
<1>. QED
  BY <1>9, <1>10, <1>11

\* The entry of a file learns its new size and first cluster.
Learns(w, T, old, first, size, e) ==
  /\ GoodEntry(w, T, old) /\ ~old.dir /\ first \in DOMAIN w \ T /\ first # 0
  /\ size \in Nat /\ size <= SlotsPerCluster * Len(w[first])
  /\ e = [old EXCEPT !.first = first, !.size = size]

LEMMA GoodUpdated ==
  ASSUME NEW w, NEW T, NEW old, NEW first, NEW size, NEW e, Learns(w, T, old, first, size, e)
  PROVE  GoodEntry(w, T, e) /\ e.name = old.name /\ e.first = first
<1>. USE DEF Learns
<1>1. DOMAIN old = {"kind", "name", "dir", "first", "size"} /\ old.kind = "entry"
  <2>1. old = Entry(old.name, old.dir, old.first, old.size)
    BY DEF GoodEntry
  <2>2. ASSUME NEW n, NEW x, NEW c, NEW z
        PROVE  DOMAIN Entry(n, x, c, z) = {"kind", "name", "dir", "first", "size"} /\ Entry(n, x, c, z).kind = "entry"
    BY DEF Entry
  <2>. QED
    BY <2>1, <2>2
<1>2. DOMAIN e = DOMAIN old
  OBVIOUS
<1>3. e.name = old.name /\ e.first = first /\ e.size = size /\ e.kind = "entry"
  BY <1>1
<1>4. e.dir = old.dir
  BY <1>1
<1>5. e = Entry(e.name, e.dir, e.first, e.size)
  <2>1. e = [y \in {"kind", "name", "dir", "first", "size"} |-> e[y]]
    BY <1>1, <1>2
  <2>. QED
    BY <1>1, <1>2, <1>3, <2>1 DEF Entry
<1>6. GoodEntry(w, T, e)
  BY <1>3, <1>4, <1>5 DEF GoodEntry
<1>. QED
  BY <1>3, <1>6

LEMMA Updated ==
  ASSUME NEW d, NEW now, NEW f, NEW w, NEW T, Chosen(d, f, w, T),
         now = Put(d, f.at, [f.entry EXCEPT !.first = f.first, !.size = f.size])
  PROVE  Sound(now, w, T, None)
<1>. DEFINE e == [f.entry EXCEPT !.first = f.first, !.size = f.size]
            c == f.at[1]
            i == f.at[2]
<1>1. /\ Sound(d, w, T, None) /\ f.first \in DOMAIN w \ T /\ CellAt(d, f.at) = f.entry /\ ~f.entry.dir
      /\ f.size \in Nat /\ f.size <= SlotsPerCluster * Len(w[f.first])
      /\ f.entry.first = f.first \/ (f.entry.first = 0 /\ NewFirst(d, w, T, None, f.first))
  BY DEF Chosen, Filling
<1>2. PICK h \in T : Live(d, w, h, None, c, i)
  BY DEF Chosen, Filling
<1>3. GoodEntry(w, T, f.entry) /\ c \in Clusters /\ i \in Slots /\ In(w, h, c) /\ d.data[c][i] = f.entry
  BY <1>1, <1>2, LiveEntry DEF CellAt
<1>4. /\ EntriesGood(d, w, T, None) /\ FirstsDiffer(d, w, T, None) /\ NamesDiffer(d, w, T, None)
      /\ NothingHidden(d, w, T, None) /\ Chained(d.fat1, w) /\ ShapeOK(d) /\ T \subseteq DOMAIN w
  BY <1>1 DEF Sound
<1>5. f.first # 0
  BY <1>1, <1>4, ChainFacts, FatNumbers
<1>6. GoodEntry(w, T, e) /\ e.name = f.entry.name /\ e.first = f.first
  <2>1. Learns(w, T, f.entry, f.first, f.size, e)
    BY <1>1, <1>3, <1>5 DEF Learns
  <2>. HIDE DEF e
  <2>. QED
    BY <2>1, GoodUpdated
<1>. HIDE DEF e
<1>7. Changed(d, now, c, i, e)
  BY <1>3, <1>4, PutIs DEF e
<1>8. Sound(d, w, T, Only(f.at))
  BY <1>1, SoundSkip DEF None
<1>9. \A g \in T : \A x, y : Live(d, w, g, Only(f.at), x, y) => Live(d, w, g, None, x, y) /\ (x # c \/ y # i)
  BY DEF Live, None, Only
<1>10. NewName(d, w, h, Only(f.at), e.name)
  BY <1>2, <1>3, <1>4, <1>6, <1>9 DEF NewName, NamesDiffer
<1>11. NewFirst(d, w, T, Only(f.at), e.first)
  <2>1. CASE f.entry.first = f.first
    BY <1>2, <1>3, <1>4, <1>6, <1>9, <2>1 DEF NewFirst, FirstsDiffer
  <2>2. CASE NewFirst(d, w, T, None, f.first)
    BY <1>6, <1>9, <2>2 DEF NewFirst
  <2>. QED
    BY <1>1, <2>1, <2>2
<1>12. Clear(d, w, h, c, i)
  BY <1>2, <1>3, <1>4 DEF Clear, NothingHidden
<1>13. <<c, i>> \in Only(f.at)
  BY DEF Only
<1>14. Joins(d, w, T, Only(f.at), h, c, i, e)
  BY <1>3, <1>6, <1>10, <1>11, <1>12, <1>13 DEF Joins
<1>15. \A x \in Only(f.at) : x # <<c, i>> => x \in None
  BY DEF Only
<1>. HIDE DEF c, i
<1>. QED
  BY <1>7, <1>8, <1>14, <1>15, SoundJoined

LEMMA UpdateEntryKeeps ==
  ASSUME CallerInv, VolumeInv, update_entry
  PROVE  VolumeInv'
<1>1. SUFFICES ASSUME Quiet' PROVE VolumeInv'
  BY DEF VolumeInv
<1>2. NoFault /\ pc = "update"
  BY <1>1, FaultNotQuiet DEF update_entry, Written, NotWritten
<1>3. Quiet
  <2>1. \E r : Return(r)
    BY DEF update_entry
  <2>. QED
    BY <1>1, <1>2, <2>1, ReturnQuiet
<1>4. PICK w, T : State("update", disk, k, before, w, T)
  BY <1>2, <1>3 DEF VolumeInv
<1>5. Chosen(disk, k, w, T) /\ Sound(disk, w, T, None)
  BY <1>4 DEF State, Chosen, Filling
<1>6. CASE disk' = Put(disk, k.at, [k.entry EXCEPT !.first = k.first, !.size = k.size]) /\ Return("OK")
  <2>1. Sound(disk', w, T, None)
    BY <1>5, <1>6, Updated
  <2>. QED
    BY <1>6, <2>1, ReturnIs
<1>7. CASE disk' = disk /\ Return("IO_ERROR")
  BY <1>5, <1>7, ReturnIs
<1>. QED
  BY <1>6, <1>7 DEF update_entry, Written, NotWritten

----------------------------------------------------------------------------
(***************************************************************************)
(* The calls.                                                              *)
(***************************************************************************)
Starts(frame, label) ==
  \A w, T : Sound(disk, w, T, None) => \E v, U : State(label, disk, frame, disk, v, U)

LEMMA BeginIs ==
  ASSUME VolumeInv, NEW check, NEW frame, NEW label, BeginIf(check, frame, label),
         check = "OK" => Starts(frame, label)
  PROVE  VolumeInv'
<1>1. CASE Refuse(check)
  BY <1>1 DEF Refuse, VolumeInv, Quiet
<1>2. CASE check = "OK" /\ Begin(frame, label)
  <2>1. SUFFICES ASSUME Quiet' PROVE \E w, T : State(pc', disk', k', before', w, T)
    BY DEF VolumeInv
  <2>2. k' = frame /\ pc' = label /\ before' = disk /\ disk' = disk /\ Quiet /\ pc = "idle"
    BY <1>2, <2>1 DEF Begin, Quiet, BeginIf
  <2>3. PICK w, T : State("idle", disk, k, before, w, T)
    BY <2>2 DEF VolumeInv
  <2>4. Sound(disk, w, T, None)
    BY <2>3 DEF State
  <2>. QED
    BY <1>2, <2>2, <2>4 DEF Starts
<1>. QED
  BY <1>1, <1>2 DEF BeginIf

LEMMA AddStarts ==
  ASSUME NEW op \in {"create", "mkdir"}, NEW path, IsSequence(path), CanAdd(disk, path) = "OK"
  PROVE  Starts(Adding(op, path), "slot")
<1>. DEFINE f == Adding(op, path)
<1>1. /\ f.op = op /\ f.dir = ParentCluster(disk, path)
      /\ f.entry = Entry(Name(path), op = "mkdir", 0, 0)
  BY DEF Adding, NoFrame
<1>2. f.entry.name = Name(path)
  BY <1>1 DEF Entry
<1>. HIDE DEF f
<1>3. SUFFICES ASSUME NEW w, NEW T, Sound(disk, w, T, None) PROVE State("slot", disk, f, disk, w, T)
  BY DEF Starts, f
<1>4. /\ ParentCluster(disk, path) \in T /\ Name(path) \in ShortNames
      /\ NewName(disk, w, ParentCluster(disk, path), None, Name(path))
  BY <1>3, CanAddIs
<1>5. Adds(disk, f, disk, w, T, None, 0)
  BY <1>1, <1>2, <1>4 DEF Adds
<1>. QED
  BY <1>3, <1>5 DEF State, Labels

LEMMA RenameStarts ==
  ASSUME NEW old, NEW path, IsSequence(old), IsSequence(path), CanAdd(disk, path) = "OK",
         NEW source, source = fat32_open(disk, old), source.r = "OK"
  PROVE  Starts(Moving(old, path, source), "slot")
<1>. DEFINE f == Moving(old, path, source)
<1>1. /\ f.op = "rename" /\ f.dir = ParentCluster(disk, path) /\ f.at = source.at
      /\ f.entry = [source.entry EXCEPT !.name = Name(path)]
  BY DEF Moving, NoFrame
<1>. HIDE DEF f
<1>3. SUFFICES ASSUME NEW w, NEW T, Sound(disk, w, T, None) PROVE State("slot", disk, f, disk, w, T)
  BY DEF Starts, f
<1>4. /\ ParentCluster(disk, path) \in T /\ Name(path) \in ShortNames
      /\ NewName(disk, w, ParentCluster(disk, path), None, Name(path))
  BY <1>3, CanAddIs
<1>5. Len(old) \in Nat
  BY SeqLen
<1>6. Opened(disk, w, T, source)
  BY <1>3, <1>5, OpenIs
<1>7. PICK h \in T : \E c, i :
         Live(disk, w, h, None, c, i) /\ source = [r |-> "OK", at |-> <<c, i>>, entry |-> disk.data[c][i]]
  BY <1>6 DEF Opened
<1>8. PICK c, i : Live(disk, w, h, None, c, i) /\ source = [r |-> "OK", at |-> <<c, i>>, entry |-> disk.data[c][i]]
  BY <1>7
<1>9. GoodEntry(w, T, disk.data[c][i])
  BY <1>3, <1>8, LiveEntry
<1>10. f.at[1] = c /\ f.at[2] = i /\ source.entry = disk.data[c][i]
  BY <1>1, <1>8
<1>11. f.entry = [CellAt(disk, f.at) EXCEPT !.name = Name(path)]
  BY <1>1, <1>10 DEF CellAt
<1>12. f.entry.name = Name(path)
  <2>1. PICK name, e : name = Name(path) /\ e = disk.data[c][i]
    OBVIOUS
  <2>2. f.entry = [e EXCEPT !.name = name] /\ GoodEntry(w, T, e)
    BY <1>9, <1>10, <1>11, <2>1 DEF CellAt
  <2>3. f.entry.name = name
    BY <1>4, <2>1, <2>2, GoodRenamed
  <2>. QED
    BY <2>1, <2>3
<1>13. Adds(disk, f, disk, w, T, None, 0)
  BY <1>1, <1>4, <1>8, <1>10, <1>11, <1>12 DEF Adds
<1>. QED
  BY <1>3, <1>13 DEF State, Labels

\* The chain of an entry about to be deleted is taken out of the tree, and will be freed.
LEMMA RemovalIs ==
  ASSUME NEW d, NEW w, NEW T, Sound(d, w, T, None), NEW h \in T, NEW c, NEW i, Live(d, w, h, None, c, i),
         NEW at, at[1] = c, at[2] = i
  PROVE  \E v, U : Sound(d, v, U, Only(at)) /\ Doomed(d, v, d.data[c][i].first)
<1>. DEFINE first == d.data[c][i].first
            v == Without(w, first)
<1>1. GoodEntry(w, T, d.data[c][i]) /\ c \in Clusters /\ i \in Slots
  BY LiveEntry
<1>2. FirstsDiffer(d, w, T, None) /\ Chained(d.fat1, w) /\ Root \in T /\ T \subseteq DOMAIN w
  BY DEF Sound
<1>3. Sound(d, w, T, Only(at))
  BY SoundSkip DEF None
<1>4. CASE first = 0
  BY <1>3, <1>4 DEF Doomed, Stops
<1>5. CASE first # 0
  <2>1. first # Root /\ first \in DOMAIN w
    BY <1>1, <1>2, <1>5 DEF GoodEntry
  <2>2. \A g \in T : \A x, y : Live(d, w, g, Only(at), x, y) => d.data[x][y].first # first
    <3>1. SUFFICES ASSUME NEW g \in T, NEW x, NEW y, Live(d, w, g, Only(at), x, y), d.data[x][y].first = first
                   PROVE  FALSE
      OBVIOUS
    <3>2. Live(d, w, g, None, x, y) /\ (x # c \/ y # i)
      BY <3>1 DEF Live, None, Only
    <3>. QED
      BY <1>2, <1>5, <3>1, <3>2 DEF FirstsDiffer
  <2>. HIDE DEF first
  <2>3. Sound(d, v, T \ {first}, Only(at))
    BY <1>3, <2>1, <2>2, SoundWithout
  <2>4. DOMAIN v = DOMAIN w \ {first} /\ \A g \in DOMAIN v : v[g] = w[g]
    BY DEF Without
  <2>. HIDE DEF v
  <2>5. LinkedUp(d.fat1, w[first]) /\ w[first][1] = first
    BY <1>2, <2>1 DEF Chained
  <2>6. ASSUME NEW j \in 1..Len(w[first]) PROVE Unused(v, w[first][j])
    <3>1. w[first][j] \in All /\ In(w, first, w[first][j])
      BY <1>2, <2>1, ChainFacts
    <3>2. ASSUME NEW g \in DOMAIN v, In(v, g, w[first][j]) PROVE FALSE
      <4>1. In(w, g, w[first][j]) /\ g \in DOMAIN w /\ g # first
        BY <2>4, <3>2 DEF In
      <4>. QED
        BY <1>2, <2>1, <3>1, <4>1 DEF Chained
    <3>. QED
      BY <3>1, <3>2 DEF Unused
  <2>7. Doomed(d, v, first)
    BY <2>5, <2>6 DEF Doomed
  <2>. QED
    BY <2>3, <2>7 DEF first
<1>. QED
  BY <1>4, <1>5

LEMMA FreeingStarts ==
  ASSUME NEW op \in {"remove", "rmdir"}, NEW path, IsSequence(path), NEW node, node = fat32_open(disk, path),
         node.r = "OK"
  PROVE  Starts(Freeing(op, path, node), "free")
<1>. DEFINE f == Freeing(op, path, node)
<1>1. f.op = op /\ f.at = node.at /\ f.from = node.entry.first
  BY DEF Freeing, NoFrame
<1>. HIDE DEF f
<1>2. SUFFICES ASSUME NEW w, NEW T, Sound(disk, w, T, None) PROVE \E v, U : State("free", disk, f, disk, v, U)
  BY DEF Starts, f
<1>3. Len(path) \in Nat
  BY SeqLen
<1>4. Opened(disk, w, T, node)
  BY <1>2, <1>3, OpenIs
<1>5. PICK h \in T : \E c, i :
         Live(disk, w, h, None, c, i) /\ node = [r |-> "OK", at |-> <<c, i>>, entry |-> disk.data[c][i]]
  BY <1>4 DEF Opened
<1>6. PICK c, i : Live(disk, w, h, None, c, i) /\ node = [r |-> "OK", at |-> <<c, i>>, entry |-> disk.data[c][i]]
  BY <1>5
<1>7. f.at[1] = c /\ f.at[2] = i /\ f.from = disk.data[c][i].first
  BY <1>1, <1>6
<1>8. c \in Clusters /\ i \in Slots
  BY <1>6 DEF Live
<1>9. PICK v, U : Sound(disk, v, U, Only(f.at)) /\ Doomed(disk, v, f.from)
  BY <1>2, <1>6, <1>7, RemovalIs
<1>10. Removing(disk, f, disk, v, U)
  BY <1>1, <1>2, <1>7, <1>8, <1>9 DEF Removing
<1>. QED
  BY <1>9, <1>10 DEF State, Labels

LEMMA WriteStarts ==
  ASSUME NEW path, IsSequence(path), NEW input, IsSequence(input), NEW node, node = fat32_open(disk, path),
         node.r = "OK", ~node.entry.dir, NEW offset, offset \in {0, node.entry.size}
  PROVE  Starts(Writing(path, node, offset, input), IF node.entry.first < 2 THEN "alloc" ELSE "chunk")
<1>. DEFINE f == Writing(path, node, offset, input)
            label == IF node.entry.first < 2 THEN "alloc" ELSE "chunk"
<1>1. /\ f.op = "write" /\ f.at = node.at /\ f.entry = node.entry /\ f.first = node.entry.first /\ f.why = "first"
      /\ f.size = node.entry.size /\ f.offset = offset /\ f.input = input /\ f.written = 0
  BY DEF Writing, NoFrame
<1>. HIDE DEF f
<1>2. SUFFICES ASSUME NEW w, NEW T, Sound(disk, w, T, None) PROVE State(label, disk, f, disk, w, T)
  BY DEF Starts, f
<1>3. Len(path) \in Nat
  BY SeqLen
<1>4. Opened(disk, w, T, node)
  BY <1>2, <1>3, OpenIs
<1>5. PICK h \in T : \E c, i :
         Live(disk, w, h, None, c, i) /\ node = [r |-> "OK", at |-> <<c, i>>, entry |-> disk.data[c][i]]
  BY <1>4 DEF Opened
<1>6. PICK c, i : Live(disk, w, h, None, c, i) /\ node = [r |-> "OK", at |-> <<c, i>>, entry |-> disk.data[c][i]]
  BY <1>5
<1>7. GoodEntry(w, T, node.entry)
  BY <1>2, <1>6, LiveEntry
<1>8. f.at[1] = c /\ f.at[2] = i /\ CellAt(disk, f.at) = node.entry
  BY <1>1, <1>6 DEF CellAt
<1>9. node.entry.size \in Nat /\ offset \in Nat
  BY <1>7 DEF GoodEntry
<1>10. Filling(disk, f, w, T)
  BY <1>1, <1>2, <1>6, <1>8, <1>9 DEF Filling
<1>11. CASE node.entry.first = 0
  <2>1. Starting(disk, f, w, T)
    BY <1>1, <1>7, <1>10, <1>11 DEF Starting, GoodEntry
  <2>2. Allocating("alloc", disk, f, disk, w, T)
    BY <1>1, <2>1 DEF Allocating
  <2>3. label = "alloc"
    BY <1>11
  <2>. QED
    BY <2>2, <2>3 DEF State, Labels
<1>12. CASE node.entry.first # 0
  <2>1. /\ node.entry.first \in DOMAIN w \ T
        /\ node.entry.size <= SlotsPerCluster * Len(w[node.entry.first])
    BY <1>7, <1>12 DEF GoodEntry
  <2>2. node.entry.first \in All /\ Chained(disk.fat1, w)
    BY <1>2, <2>1, ChainFacts DEF Sound
  <2>3. Len(w[node.entry.first]) \in Nat
    BY <2>1, <2>2, ChainFacts
  <2>4. ASSUME NEW l \in Nat PROVE 0 <= SlotsPerCluster * l
    BY Fat32Assumption
  <2>5. offset <= SlotsPerCluster * Len(w[node.entry.first])
    BY <2>1, <2>3, <2>4
  <2>6. Chosen(disk, f, w, T)
    BY <1>1, <1>10, <2>1, <2>5 DEF Chosen
  <2>7. label = "chunk"
    BY <2>2 DEF All
  <2>. QED
    BY <2>6, <2>7 DEF State, Labels
<1>. QED
  BY <1>11, <1>12

LEMMA CallKeeps ==
  ASSUME VolumeInv, Call
  PROVE  VolumeInv'
<1>1. ASSUME NEW p \in Paths, fat32_create(p) PROVE VolumeInv'
  <2>1. IsSequence(p)
    BY CallsAssumption
  <2>2. CanAdd(disk, p) = "OK" => Starts(Adding("create", p), "slot")
    BY <2>1, AddStarts
  <2>. QED
    BY <1>1, <2>2, BeginIs DEF fat32_create
<1>2. ASSUME NEW p \in Paths, fat32_mkdir(p) PROVE VolumeInv'
  <2>1. IsSequence(p)
    BY CallsAssumption
  <2>2. CanAdd(disk, p) = "OK" => Starts(Adding("mkdir", p), "slot")
    BY <2>1, AddStarts
  <2>. QED
    BY <1>2, <2>2, BeginIs DEF fat32_mkdir
<1>3. ASSUME NEW p \in Paths, fat32_remove(p) PROVE VolumeInv'
  <2>. DEFINE node == fat32_open(disk, p)
  <2>1. IsSequence(p)
    BY CallsAssumption
  <2>2. Removable(node) = "OK" => node.r = "OK"
    BY DEF Removable
  <2>3. BeginIf(Removable(node), Freeing("remove", p, node), "free")
    BY <1>3 DEF fat32_remove
  <2>4. PICK x : x = node
    OBVIOUS
  <2>5. Removable(x) = "OK" => Starts(Freeing("remove", p, x), "free")
    BY <2>1, <2>2, <2>4, FreeingStarts
  <2>. HIDE DEF node
  <2>. QED
    BY <2>3, <2>4, <2>5, BeginIs
<1>4. ASSUME NEW p \in Paths, fat32_rmdir(p) PROVE VolumeInv'
  <2>. DEFINE node == fat32_open(disk, p)
  <2>1. IsSequence(p)
    BY CallsAssumption
  <2>2. DirRemovable(node) = "OK" => node.r = "OK"
    BY DEF DirRemovable
  <2>3. BeginIf(DirRemovable(node), Freeing("rmdir", p, node), "free")
    BY <1>4 DEF fat32_rmdir
  <2>4. PICK x : x = node
    OBVIOUS
  <2>5. DirRemovable(x) = "OK" => Starts(Freeing("rmdir", p, x), "free")
    BY <2>1, <2>2, <2>4, FreeingStarts
  <2>. HIDE DEF node
  <2>. QED
    BY <2>3, <2>4, <2>5, BeginIs
<1>5. ASSUME NEW m \in Moves, fat32_rename(m[1], m[2]) PROVE VolumeInv'
  <2>1. PICK old, path, source : old = m[1] /\ path = m[2] /\ source = fat32_open(disk, old)
    OBVIOUS
  <2>2. IsSequence(old) /\ IsSequence(path)
    BY <2>1, CallsAssumption
  <2>. DEFINE check == IF source.r # "OK" THEN source.r ELSE CanAdd(disk, path)
  <2>3. BeginIf(check, Moving(old, path, source), "slot")
    BY <1>5, <2>1 DEF fat32_rename
  <2>4. check = "OK" => source.r = "OK" /\ CanAdd(disk, path) = "OK"
    OBVIOUS
  <2>. HIDE DEF check
  <2>5. check = "OK" => Starts(Moving(old, path, source), "slot")
    BY <2>1, <2>2, <2>4, RenameStarts
  <2>. QED
    BY <2>3, <2>5, BeginIs
<1>6. ASSUME NEW p \in Paths, NEW append \in BOOLEAN, NEW input \in Inputs, fat32_write(p, append, input) PROVE VolumeInv'
  <2>1. IsSequence(p) /\ IsSequence(input)
    BY CallsAssumption
  <2>2. PICK node : node = fat32_open(disk, p)
    OBVIOUS
  <2>3. PICK offset : offset = IF append THEN node.entry.size ELSE 0
    OBVIOUS
  <2>4. BeginIf(Writable(node), Writing(p, node, offset, input), IF node.entry.first < 2 THEN "alloc" ELSE "chunk")
    BY <1>6, <2>2, <2>3 DEF fat32_write, WriteTo
  <2>5. Writable(node) = "OK" => node.r = "OK" /\ ~node.entry.dir
    BY DEF Writable
  <2>6. offset \in {0, node.entry.size}
    BY <2>3
  <2>7. Writable(node) = "OK" => Starts(Writing(p, node, offset, input), IF node.entry.first < 2 THEN "alloc" ELSE "chunk")
    BY <2>1, <2>2, <2>5, <2>6, WriteStarts
  <2>. QED
    BY <2>4, <2>7, BeginIs
<1>. QED
  BY <1>1, <1>2, <1>3, <1>4, <1>5, <1>6 DEF Call

\* Unless a removal, a move or the extension of a directory is under way, the disk is
\* sound as it is.
LEMMA Settled ==
  ASSUME NEW w, NEW T, State(pc, disk, k, before, w, T), pc # "idle" => ~TornBy(disk)
  PROVE  \E v, U : Sound(disk, v, U, None)
<1>1. CASE Removing(disk, k, before, w, T) /\ pc # "idle"
  BY <1>1 DEF Removing, TornBy
<1>2. CASE Renamed(disk, k, before, w, T) /\ pc # "idle"
  BY <1>2 DEF Renamed, TornBy, CellAt
<1>3. CASE Extended(disk, k, before, w, T) /\ pc \in {"link2", "zero"} /\ k.why = "slot"
  <2>1. Sound(disk, w, T, Row(k.new)) /\ ~Unzeroed
    BY <1>3 DEF Extended, TornBy
  <2>2. k.new \in Clusters => \A i \in Slots : ~entry_visible(disk.data[k.new][i])
    BY <1>3, <2>1 DEF Unzeroed, Slots
  <2>3. \A h \in T : \A c \in Clusters, i \in Slots :
          In(w, h, c) /\ <<c, i>> \in Row(k.new) /\ <<c, i>> \notin None => ~entry_visible(disk.data[c][i])
    BY <2>2 DEF Row
  <2>4. Sound(disk, w, T, None)
    BY <2>1, <2>3, SoundSkip
  <2>. QED
    BY <2>4
<1>4. CASE Sound(disk, w, T, None)
  BY <1>4
<1>5. CASE pc \in {"idle", "slot"}
  BY <1>4, <1>5 DEF State
<1>6. CASE pc \in {"alloc", "mark1", "mark2"}
  <2>1. Allocating(pc, disk, k, before, w, T)
    BY <1>6 DEF State
  <2>. QED
    BY <1>4, <2>1, AllocatingSound
<1>7. CASE pc = "link1"
  <2>1. Linking1(disk, k, before, w, T)
    BY <1>7 DEF State
  <2>2. Sound(disk, w, T, None) \/ Removing(disk, k, before, w, T)
    BY <2>1 DEF Linking1, Extending, Chosen, Filling
  <2>. QED
    BY <1>1, <1>4, <1>7, <2>2
<1>8. CASE pc = "link2"
  <2>1. Linking2(disk, k, before, w, T)
    BY <1>8 DEF State
  <2>2. Sound(disk, w, T, None) \/ Removing(disk, k, before, w, T) \/ (Extended(disk, k, before, w, T) /\ k.why = "slot")
    BY <2>1 DEF Linking2, Chosen, Filling
  <2>. QED
    BY <1>1, <1>3, <1>4, <1>8, <2>2
<1>9. CASE pc \in {"zero", "dot", "dotdot", "entry"}
  <2>1. Sound(disk, w, T, None) \/ (pc = "zero" /\ Extended(disk, k, before, w, T) /\ k.why = "slot")
    BY <1>9 DEF State, Making, Entering
  <2>. QED
    BY <1>3, <1>4, <2>1
<1>10. CASE pc \in {"delete", "free"}
  <2>1. Removing(disk, k, before, w, T) \/ Renamed(disk, k, before, w, T)
    BY <1>10 DEF State
  <2>. QED
    BY <1>1, <1>2, <1>10, <2>1
<1>11. CASE pc \in {"chunk", "put", "update"}
  <2>1. Chosen(disk, k, w, T)
    BY <1>11 DEF State
  <2>. QED
    BY <1>4, <2>1 DEF Chosen, Filling
<1>12. pc \in Labels
  BY DEF State
<1>. QED
  BY <1>5, <1>6, <1>7, <1>8, <1>9, <1>10, <1>11, <1>12 DEF Labels

LEMMA CrashKeeps ==
  ASSUME VolumeInv, Crash
  PROVE  VolumeInv'
<1>1. SUFFICES ASSUME Quiet' PROVE VolumeInv'
  BY DEF VolumeInv
<1>2. pc # "idle" /\ Fault("crash") /\ disk' = disk /\ Return("CRASH")
  BY DEF Crash
<1>3. Quiet /\ ~TornBy(disk)
  BY <1>1, <1>2, ReturnQuiet
<1>4. PICK w, T : State(pc, disk, k, before, w, T)
  BY <1>3 DEF VolumeInv
<1>5. PICK v, U : Sound(disk, v, U, None)
  BY <1>3, <1>4, Settled
<1>6. Sound(disk', v, U, None)
  BY <1>2, <1>5
<1>. QED
  BY <1>2, <1>6, ReturnIs

\* The fresh disk: an empty root directory.
LEMMA FreshSound == \E w, T : Sound(FreshDisk, w, T, None)
<1>. DEFINE d == FreshDisk
            w == [h \in {Root} |-> <<Root>>]
            T == {Root}
<1>1. Root \in All /\ Root \in Clusters
  BY Fat32Assumption DEF Root, All, Clusters
<1>2. d.fat1 = FreshFat /\ d.fat2 = FreshFat /\ d.data = [c \in Clusters |-> Blank]
  BY DEF FreshDisk
<1>3. FreshFat \in [FatSet -> Nat] /\ FreshFat[Root] = END
  BY Fat32Assumption DEF FreshFat, FatSet, END, Root
<1>4. ShapeOK(d)
  <2>1. d = [fat1 |-> d.fat1, fat2 |-> d.fat2, data |-> d.data]
    BY DEF FreshDisk
  <2>2. d.data = [c \in Clusters |-> [i \in Slots |-> d.data[c][i]]]
    BY <1>2 DEF Blank, Slots
  <2>. QED
    BY <1>2, <1>3, <2>1, <2>2 DEF ShapeOK
<1>5. DOMAIN w = {Root} /\ w[Root] = <<Root>> /\ Len(w[Root]) = 1 /\ w[Root][1] = Root
  OBVIOUS
<1>6. <<Root>> \in Seq(All)
  BY <1>1
<1>. HIDE DEF w
<1>7. LinkedUp(d.fat1, w[Root])
  BY <1>2, <1>3, <1>5, <1>6 DEF LinkedUp
<1>8. Chained(d.fat1, w)
  BY <1>5, <1>7 DEF Chained
<1>9. \A h, c, i : ~Live(d, w, h, None, c, i)
  BY <1>2 DEF Live, Blank, Slots, entry_visible, Empty
<1>10. Sound(d, w, T, None)
  BY <1>4, <1>5, <1>8, <1>9 DEF Sound, EntriesGood, FirstsDiffer, NamesDiffer, NothingHidden
<1>. QED
  BY <1>10

LEMMA InitVolume ==
  ASSUME Init
  PROVE  CallerInv /\ VolumeInv
<1>1. pc = "idle" /\ k = NoFrame /\ disk = FreshDisk
  BY DEF Init
<1>2. CallerInv
  BY <1>1 DEF CallerInv, FrameOK
<1>3. PICK w, T : Sound(disk, w, T, None)
  BY <1>1, FreshSound
<1>4. State(pc, disk, k, before, w, T)
  BY <1>1, <1>3 DEF State, Labels
<1>. QED
  BY <1>2, <1>4 DEF VolumeInv

\* The frame keeps its fields.
LEMMA FrameStays ==
  /\ FrameOK(NoFrame)
  /\ \A op, path : FrameOK(Adding(op, path))
  /\ \A op, path, node : FrameOK(Freeing(op, path, node))
  /\ \A old, path, source : FrameOK(Moving(old, path, source))
  /\ \A path, node, offset, input :
        FrameOK(Writing(path, node, offset, input)) /\ Writing(path, node, offset, input).why = "first"
BY DEF FrameOK, Adding, Freeing, Moving, Writing, NoFrame

LEMMA WithCaller ==
  ASSUME NEW frame, NEW label, With(frame, label), FrameOK(frame),
         label \in {"alloc", "mark1", "mark2"} => frame.why \in {"slot", "dir", "first", "extend"},
         label \in {"link1", "link2"} => frame.why \in {"slot", "extend", "free", "undo"}
  PROVE  CallerInv'
BY DEF With, CallerInv, FrameOK

LEMMA ReturnCaller ==
  ASSUME NEW r, Return(r)
  PROVE  CallerInv'
BY FrameStays DEF Return, CallerInv, FrameOK

LEMMA BeginCaller ==
  ASSUME CallerInv, NEW check, NEW frame, NEW label, BeginIf(check, frame, label), FrameOK(frame),
         label \in {"slot", "free", "chunk"} \/ (label = "alloc" /\ frame.why = "first")
  PROVE  CallerInv'
BY DEF BeginIf, Begin, Refuse, CallerInv, FrameOK

LEMMA StepCaller ==
  ASSUME CallerInv, Step
  PROVE  CallerInv'
<1>1. ASSUME NEW at, TakeSlot(at) PROVE CallerInv'
  <2>. DEFINE f == [k EXCEPT !.slot = at]
              g == [f EXCEPT !.why = "dir"]
  <2>1. FrameOK(f) /\ FrameOK(g) /\ g.why = "dir"
    BY DEF CallerInv, FrameOK, NoFrame
  <2>2. With(f, "entry") \/ With(g, "alloc")
    BY <1>1 DEF TakeSlot, Alloc
  <2>. HIDE DEF f, g
  <2>. QED
    BY <2>1, <2>2, WithCaller
<1>2. ASSUME NEW from, NEW why \in {"slot", "extend"}, Alloc([k EXCEPT !.from = from], why) PROVE CallerInv'
  <2>. DEFINE g == [[k EXCEPT !.from = from] EXCEPT !.why = why]
  <2>1. FrameOK(g) /\ g.why = why
    BY DEF CallerInv, FrameOK, NoFrame
  <2>2. With(g, "alloc")
    BY <1>2 DEF Alloc
  <2>. HIDE DEF g
  <2>. QED
    BY <2>1, <2>2, WithCaller
<1>3. ASSUME With(Undo, "link1") PROVE CallerInv'
  <2>1. FrameOK(Undo) /\ Undo.why = "undo"
    BY DEF CallerInv, FrameOK, NoFrame, Undo
  <2>. QED
    BY <1>3, <2>1, WithCaller
<1>4. ASSUME NEW label \in {"chunk", "delete", "delete_copy", "dot", "dotdot", "entry", "update", "zero"}, Goto(label)
      PROVE  CallerInv'
  BY <1>4, WithCaller DEF Goto, CallerInv
<1>5. ASSUME NEW r, Return(r) PROVE CallerInv'
  BY <1>5, ReturnCaller
<1>6. CASE alloc_cluster
  <2>. DEFINE g == [k EXCEPT !.new = Min(FreeClusters(disk))]
  <2>1. (\E r : Return(r)) \/ (pc = "alloc" /\ With(g, "mark1"))
    BY <1>6 DEF alloc_cluster
  <2>2. FrameOK(g) /\ g.why = k.why
    BY DEF CallerInv, FrameOK, NoFrame
  <2>. HIDE DEF g
  <2>. QED
    BY <1>5, <2>1, <2>2, WithCaller DEF CallerInv
<1>7. CASE mark1
  BY <1>7, WithCaller DEF mark1, Goto, CallerInv
<1>8. CASE mark2
  <2>. DEFINE f == [k EXCEPT !.first = k.new]
              g == [k EXCEPT !.to = k.new]
  <2>1. k.why \in {"slot", "dir", "first", "extend"}
    BY <1>8 DEF mark2, CallerInv
  <2>2. Goto("zero") \/ With(f, "chunk") \/ (k.why \in {"slot", "extend"} /\ With(g, "link1"))
    BY <1>8, <2>1 DEF mark2
  <2>3. FrameOK(f) /\ FrameOK(g) /\ g.why = k.why
    BY DEF CallerInv, FrameOK, NoFrame
  <2>. HIDE DEF f, g
  <2>. QED
    BY <1>4, <2>2, <2>3, WithCaller
<1>9. CASE link1
  <2>1. (pc = "link1" /\ Goto("link2")) \/ Goto("zero") \/ (\E r : Return(r))
    BY <1>9 DEF link1, NotLinked
  <2>. QED
    BY <1>4, <1>5, <2>1, WithCaller DEF Goto, CallerInv
<1>10. CASE link2
  <2>. DEFINE g == [k EXCEPT !.from = k.next]
  <2>1. k.why \in {"slot", "extend", "free", "undo"}
    BY <1>10 DEF link2, CallerInv
  <2>2. Goto("zero") \/ Goto("chunk") \/ With(g, "free") \/ (\E r : Return(r))
    BY <1>10, <2>1 DEF link2, Linked, NotLinked
  <2>3. FrameOK(g)
    BY DEF CallerInv, FrameOK
  <2>. HIDE DEF g
  <2>. QED
    BY <1>4, <1>5, <2>2, <2>3, WithCaller
<1>11. CASE alloc_entry_slot
  BY <1>1, <1>2, <1>5, <1>11 DEF alloc_entry_slot, Extend
<1>12. CASE zero
  BY <1>1, <1>3, <1>4, <1>12 DEF zero
<1>13. CASE dot
  BY <1>3, <1>4, <1>13 DEF dot
<1>14. CASE dotdot
  <2>. DEFINE g == [k EXCEPT !.entry.first = k.new]
  <2>1. With(g, "entry") \/ With(Undo, "link1")
    BY <1>14 DEF dotdot
  <2>2. g = [k EXCEPT !.entry = [k.entry EXCEPT !.first = k.new]]
    OBVIOUS
  <2>3. FrameOK(g)
    BY <2>2 DEF CallerInv, FrameOK
  <2>. HIDE DEF g
  <2>. QED
    BY <1>3, <2>1, <2>3, WithCaller
<1>15. CASE write_entry
  BY <1>3, <1>4, <1>5, <1>15 DEF write_entry
<1>16. CASE delete_entry
  BY <1>4, <1>5, <1>16 DEF delete_entry
<1>17. CASE delete_copy
  BY <1>5, <1>17 DEF delete_copy
<1>18. CASE free_chain
  <2>. DEFINE g == [k EXCEPT !.why = "free", !.next = disk.fat1[k.from], !.to = 0]
  <2>1. Goto("delete") \/ With(g, "link1") \/ (\E r : Return(r))
    BY <1>18 DEF free_chain
  <2>2. FrameOK(g) /\ g.why = "free"
    BY DEF CallerInv, FrameOK, NoFrame
  <2>. HIDE DEF g
  <2>. QED
    BY <1>4, <1>5, <2>1, <2>2, WithCaller
<1>19. CASE chunk
  <2>1. ASSUME NEW from, With([k EXCEPT !.from = from], "put") PROVE CallerInv'
    <3>1. FrameOK([k EXCEPT !.from = from])
      BY DEF CallerInv, FrameOK
    <3>. QED
      BY <2>1, <3>1, WithCaller
  <2>. QED
    BY <1>2, <1>4, <1>5, <1>19, <2>1 DEF chunk
<1>20. CASE put
  <2>1. ASSUME NEW o, NEW z, NEW s, With([k EXCEPT !.offset = o, !.written = z, !.size = s], "chunk") PROVE CallerInv'
    <3>1. FrameOK([k EXCEPT !.offset = o, !.written = z, !.size = s])
      BY DEF CallerInv, FrameOK
    <3>. QED
      BY <2>1, <3>1, WithCaller
  <2>. QED
    BY <1>5, <1>20, <2>1 DEF put
<1>21. CASE update_entry
  BY <1>5, <1>21 DEF update_entry
<1>. QED
  BY <1>6, <1>7, <1>8, <1>9, <1>10, <1>11, <1>12, <1>13, <1>14, <1>15, <1>16, <1>17, <1>18, <1>19, <1>20, <1>21 DEF Step

LEMMA CallCaller ==
  ASSUME CallerInv, Call
  PROVE  CallerInv'
<1>1. ASSUME NEW check, NEW frame, NEW label, BeginIf(check, frame, label), FrameOK(frame),
             label \in {"slot", "free", "chunk"} \/ (label = "alloc" /\ frame.why = "first")
      PROVE  CallerInv'
  BY <1>1, BeginCaller
<1>2. ASSUME NEW p \in Paths, fat32_create(p) \/ fat32_mkdir(p) \/ fat32_remove(p) \/ fat32_rmdir(p)
      PROVE  CallerInv'
  BY <1>1, <1>2, FrameStays DEF fat32_create, fat32_mkdir, fat32_remove, fat32_rmdir
<1>3. ASSUME NEW m \in Moves, fat32_rename(m[1], m[2]) PROVE CallerInv'
  BY <1>1, <1>3, FrameStays DEF fat32_rename
<1>4. ASSUME NEW p \in Paths, NEW append \in BOOLEAN, NEW input \in Inputs, fat32_write(p, append, input) PROVE CallerInv'
  <2>1. PICK node : node = fat32_open(disk, p)
    OBVIOUS
  <2>2. PICK offset : offset = IF append THEN node.entry.size ELSE 0
    OBVIOUS
  <2>3. BeginIf(Writable(node), Writing(p, node, offset, input), IF node.entry.first < 2 THEN "alloc" ELSE "chunk")
    BY <1>4, <2>1, <2>2 DEF fat32_write, WriteTo
  <2>. QED
    BY <1>1, <2>3, FrameStays
<1>. QED
  BY <1>2, <1>3, <1>4 DEF Call

LEMMA StepKeeps ==
  ASSUME CallerInv, VolumeInv, Step
  PROVE  VolumeInv'
BY AllocKeeps, Mark1Keeps, Mark2Keeps, Link1Keeps, Link2Keeps, AllocEntrySlotKeeps, ZeroKeeps, DotKeeps,
   DotdotKeeps, WriteEntryKeeps, DeleteEntryKeeps, DeleteCopyKeeps, FreeChainKeeps, ChunkKeeps, PutKeeps,
   UpdateEntryKeeps DEF Step

\* The invariant is inductive: at every write of every call, what the directories show is
\* sound, and what the call in progress has still to do can be done.
THEOREM VolumeInvariant == Spec => [](CallerInv /\ VolumeInv)
<1>1. Init => CallerInv /\ VolumeInv
  BY InitVolume
<1>2. CallerInv /\ VolumeInv /\ [Next]_vars => CallerInv' /\ VolumeInv'
  <2>1. SUFFICES ASSUME CallerInv, VolumeInv, [Next]_vars PROVE CallerInv' /\ VolumeInv'
    OBVIOUS
  <2>2. CASE Call
    BY <2>1, <2>2, CallKeeps, CallCaller
  <2>3. CASE Step
    BY <2>1, <2>3, StepKeeps, StepCaller
  <2>4. CASE Crash
    BY <2>1, <2>4, CrashKeeps, ReturnCaller DEF Crash
  <2>5. CASE UNCHANGED vars
    BY <2>1, <2>5 DEF vars, CallerInv, VolumeInv, Quiet, FrameOK
  <2>. QED
    BY <2>1, <2>2, <2>3, <2>4, <2>5 DEF Next
<1>. QED
  BY <1>1, <1>2, PTL DEF Spec

----------------------------------------------------------------------------
(***************************************************************************)
(* The backup FAT.                                                         *)
(***************************************************************************)
LEMMA StateFacts ==
  ASSUME NEW label, NEW d, NEW f, NEW b, NEW w, NEW T, State(label, d, f, b, w, T)
  PROVE  /\ ShapeOK(d)
         /\ label \in {"mark1", "mark2"} => f.new \in FatSet
         /\ label \in {"link1", "link2"} => f.from \in FatSet /\ f.to \in Nat
         /\ label = "put" => f.from \in All
<1>1. ASSUME NEW h \in DOMAIN w, Chained(d.fat1, w) PROVE Last(w[h]) \in FatSet /\ Last(w[h]) \in Nat
  BY <1>1, ChainFacts, FatNumbers DEF Last
<1>2. CASE label \in {"idle", "slot"}
  BY <1>2 DEF State, Sound
<1>3. CASE label \in {"alloc", "mark1", "mark2"}
  <2>1. Allocating(label, d, f, b, w, T)
    BY <1>3 DEF State
  <2>. QED
    BY <1>3, <2>1, AllocatingSound, FatNumbers DEF Sound, Allocating, Unused
<1>4. CASE label = "link1"
  <2>1. Linking1(d, f, b, w, T)
    BY <1>4 DEF State
  <2>2. CASE Extending(d, f, b, w, T) /\ f.to = f.new /\ Marked(d, w, f.new)
    <3>1. Sound(d, w, T, None) /\ f.dir \in T /\ f.from = Last(w[f.dir]) /\ f.to \in All
      BY <2>2 DEF Extending, Adds, Marked, Unused
    <3>. QED
      BY <1>1, <1>4, <3>1, FatNumbers DEF Sound
  <2>3. CASE Chosen(d, f, w, T) /\ f.from = Last(w[f.first]) /\ f.to = f.new /\ Marked(d, w, f.new)
    <3>1. Sound(d, w, T, None) /\ f.first \in DOMAIN w /\ f.from = Last(w[f.first]) /\ f.to \in All
      BY <2>3 DEF Chosen, Filling, Marked, Unused
    <3>. QED
      BY <1>1, <1>4, <3>1, FatNumbers DEF Sound
  <2>4. CASE Sound(d, w, T, None) /\ Unused(w, f.from) /\ f.to = 0
    BY <1>4, <2>4, FatNumbers DEF Sound, Unused
  <2>5. CASE Removing(d, f, b, w, T) /\ ~Stops(f.from) /\ Doomed(d, w, f.from) /\ f.to = 0
    <3>1. PICK s : LinkedUp(d.fat1, s) /\ s[1] = f.from
      BY <2>5 DEF Doomed
    <3>2. s[1] \in All
      BY <3>1 DEF LinkedUp
    <3>. QED
      BY <1>4, <2>5, <3>1, <3>2, FatNumbers DEF Sound, Removing
  <2>. QED
    BY <2>1, <2>2, <2>3, <2>4, <2>5 DEF Linking1
<1>5. CASE label = "link2"
  <2>1. Linking2(d, f, b, w, T)
    BY <1>5 DEF State
  <2>2. ShapeOK(d)
    BY <2>1 DEF Linking2, Extended, Chosen, Filling, Removing, Sound
  <2>3. CASE Extended(d, f, b, w, T) /\ f.from \in FatSet /\ f.to = f.new
    <3>1. Sound(d, w, T, Row(f.new)) /\ f.dir \in T /\ f.new = Last(w[f.dir])
      BY <2>3 DEF Extended, Adds
    <3>2. f.new \in Nat
      BY <1>1, <3>1 DEF Sound
    <3>. QED
      BY <1>5, <2>2, <2>3, <3>2
  <2>4. CASE f.from \in FatSet /\ f.to \in FatSet
    BY <1>5, <2>2, <2>4, Fat32Assumption DEF FatSet
  <2>. QED
    BY <2>1, <2>3, <2>4, FatNumbers DEF Linking2
<1>6. CASE label \in {"zero", "dot", "dotdot", "entry"}
  BY <1>6 DEF State, Extended, Making, Entering, Sound
<1>7. CASE label \in {"delete", "free"}
  BY <1>7 DEF State, Removing, Renamed, Sound
<1>8. CASE label \in {"chunk", "put", "update"}
  <2>1. Chosen(d, f, w, T) /\ Sound(d, w, T, None) /\ f.first \in DOMAIN w
    BY <1>8 DEF State, Chosen, Filling
  <2>2. Chained(d.fat1, w) /\ ShapeOK(d)
    BY <2>1 DEF Sound
  <2>3. label = "put" => In(w, f.first, f.from)
    BY DEF State
  <2>. QED
    BY <1>8, <2>1, <2>2, <2>3, InChain
<1>. QED
  BY <1>2, <1>3, <1>4, <1>5, <1>6, <1>7, <1>8 DEF State, Labels

\* The FAT entries whose backup differs, and the one the call is about to copy.
Behind(d)         == {c \in DOMAIN d.fat1 : d.fat1[c] # d.fat2[c]}
Pending(label, f) == IF label = "mark2" THEN {f.new} ELSE IF label = "link2" THEN {f.from} ELSE {}

\* What the second write of an update copies is what the first one wrote.
Copies(label, d, f) ==
  /\ label = "mark2" => d.fat1[f.new] = END
  /\ label = "link2" => d.fat1[f.from] = f.to

LagInv ==
  /\ faults \in Nat
  /\ Quiet => Cardinality(Behind(disk) \ Pending(pc, k)) <= faults /\ Copies(pc, disk, k)

LEMMA FatFinite ==
  ASSUME NEW d, ShapeOK(d), NEW S, S \subseteq Behind(d)
  PROVE  /\ IsFiniteSet(S) /\ Cardinality(S) \in Nat
         /\ \A R : S \subseteq R /\ IsFiniteSet(R) => Cardinality(S) <= Cardinality(R)
<1>1. Behind(d) \subseteq 0..(FatEntries - 1)
  BY DEF Behind, ShapeOK, FatSet
<1>2. IsFiniteSet(0..(FatEntries - 1))
  BY FS_Interval, Fat32Assumption
<1>3. IsFiniteSet(S)
  BY <1>1, <1>2, FS_Subset
<1>. QED
  BY <1>3, FS_Subset, FS_CardinalityType

\* No step makes more entries fall behind than it writes.
LEMMA LagFrom ==
  ASSUME LagInv, Quiet' => Quiet, faults' = faults,
         Quiet' => /\ ShapeOK(disk) /\ ShapeOK(disk') /\ Copies(pc', disk', k')
                   /\ Behind(disk') \ Pending(pc', k') \subseteq Behind(disk) \ Pending(pc, k)
  PROVE  LagInv'
<1>1. SUFFICES ASSUME Quiet' PROVE Cardinality(Behind(disk') \ Pending(pc', k')) <= faults'
  BY DEF LagInv
<1>2. /\ Cardinality(Behind(disk) \ Pending(pc, k)) <= faults /\ faults \in Nat
      /\ ShapeOK(disk) /\ ShapeOK(disk')
      /\ Behind(disk') \ Pending(pc', k') \subseteq Behind(disk) \ Pending(pc, k)
  BY <1>1 DEF LagInv
<1>3. IsFiniteSet(Behind(disk) \ Pending(pc, k)) /\ Cardinality(Behind(disk) \ Pending(pc, k)) \in Nat
  BY <1>2, FatFinite
<1>4. /\ Cardinality(Behind(disk') \ Pending(pc', k')) <= Cardinality(Behind(disk) \ Pending(pc, k))
      /\ Cardinality(Behind(disk') \ Pending(pc', k')) \in Nat
  BY <1>2, <1>3, FatFinite
<1>. QED
  BY <1>2, <1>3, <1>4

LEMMA LagSame ==
  ASSUME LagInv, VolumeInv, Quiet' => Quiet, faults' = faults,
         Quiet' => disk'.fat1 = disk.fat1 /\ disk'.fat2 = disk.fat2 /\ ShapeOK(disk'),
         pc \notin {"mark2", "link2"}, pc' \notin {"mark2", "link2"}
  PROVE  LagInv'
<1>1. ASSUME Quiet' PROVE ShapeOK(disk)
  BY <1>1, StateFacts DEF VolumeInv
<1>2. Copies(pc', disk', k')
  BY DEF Copies
<1>3. Quiet' => Behind(disk') \ Pending(pc', k') \subseteq Behind(disk) \ Pending(pc, k)
  BY DEF Behind, Pending
<1>. QED
  BY <1>1, <1>2, <1>3, LagFrom

LEMMA LagFault ==
  ASSUME LagInv, Fault("write") \/ Fault("read")
  PROVE  LagInv'
<1>1. faults' = faults + 1
  BY DEF Fault
<1>. QED
  BY <1>1, FaultNotQuiet DEF LagInv

LEMMA LagCrash ==
  ASSUME LagInv, VolumeInv, Crash
  PROVE  LagInv'
<1>1. faults' = faults + 1 /\ disk' = disk /\ Return("CRASH") /\ pc' = "idle" /\ Fault("crash")
  BY DEF Crash, Fault, Return
<1>2. SUFFICES ASSUME Quiet' PROVE Cardinality(Behind(disk') \ Pending(pc', k')) <= faults' /\ Copies(pc', disk', k')
  BY <1>1 DEF LagInv
<1>3. Quiet
  BY <1>1, <1>2, ReturnQuiet
<1>4. ShapeOK(disk)
  BY <1>3, StateFacts DEF VolumeInv
<1>5. Behind(disk') \ Pending(pc', k') = Behind(disk) /\ Copies(pc', disk', k')
  BY <1>1 DEF Pending, Copies
<1>. DEFINE R == Behind(disk) \ Pending(pc, k)
<1>6. Cardinality(R) <= faults /\ faults \in Nat /\ IsFiniteSet(R) /\ Cardinality(R) \in Nat
  BY <1>3, <1>4, FatFinite DEF LagInv
<1>7. PICK x : Pending(pc, k) \subseteq {x}
  BY DEF Pending
<1>8. Behind(disk) \subseteq R \cup {x}
  BY <1>7
<1>. HIDE DEF R
<1>9. IsFiniteSet(R \cup {x}) /\ Cardinality(R \cup {x}) \in Nat /\ Cardinality(R \cup {x}) <= Cardinality(R) + 1
  BY <1>6, FS_AddElement
<1>10. Cardinality(Behind(disk)) <= Cardinality(R \cup {x}) /\ Cardinality(Behind(disk)) \in Nat
  BY <1>4, <1>8, <1>9, FatFinite
<1>11. Cardinality(Behind(disk)) <= faults + 1
  BY <1>6, <1>9, <1>10
<1>. QED
  BY <1>1, <1>5, <1>11

\* A step that writes to no FAT.
DataWritten(d, now) ==
  now = d \/ (\E at, e : now = Put(d, at, e)) \/ (\E c, row : now = WithRow(d, c, row))

Harmless ==
  /\ NoFault /\ DataWritten(disk, disk')
  /\ (\E r : Return(r)) \/ (\E frame, label : With(frame, label) /\ label \notin {"mark2", "link2"})

LEMMA LagHarmless ==
  ASSUME LagInv, VolumeInv, VolumeInv', Harmless, pc \notin {"mark2", "link2"}
  PROVE  LagInv'
<1>1. Quiet' => Quiet
  BY WithIs, ReturnQuiet DEF Harmless
<1>2. pc' \notin {"mark2", "link2"} /\ faults' = faults
  BY DEF Harmless, NoFault, With, Return
<1>3. ASSUME Quiet' PROVE ShapeOK(disk')
  BY <1>3, StateFacts DEF VolumeInv
<1>4. ASSUME Quiet' PROVE disk'.fat1 = disk.fat1 /\ disk'.fat2 = disk.fat2
  <2>1. ShapeOK(disk)
    BY <1>1, <1>4, StateFacts DEF VolumeInv
  <2>2. disk = [fat1 |-> disk.fat1, fat2 |-> disk.fat2, data |-> disk.data]
    BY <2>1 DEF ShapeOK
  <2>4. ASSUME NEW at, NEW e PROVE Put(disk, at, e).fat1 = disk.fat1 /\ Put(disk, at, e).fat2 = disk.fat2
    BY <2>2 DEF Put
  <2>5. ASSUME NEW c, NEW row PROVE WithRow(disk, c, row).fat1 = disk.fat1 /\ WithRow(disk, c, row).fat2 = disk.fat2
    BY <2>2 DEF WithRow
  <2>6. CASE disk' = disk
    BY <2>6
  <2>7. CASE \E at, e : disk' = Put(disk, at, e)
    BY <2>4, <2>7
  <2>8. CASE \E c, row : disk' = WithRow(disk, c, row)
    BY <2>5, <2>8
  <2>. QED
    BY <2>6, <2>7, <2>8 DEF Harmless, DataWritten
<1>. QED
  BY <1>1, <1>2, <1>3, <1>4, LagSame

\* The first write of an update, and the second.
LEMMA LagFirst ==
  ASSUME LagInv, VolumeInv, NEW c \in FatSet, NEW v \in Nat, disk' = SetFat1(disk, c, v), Quiet', Quiet, faults' = faults,
         pc \notin {"mark2", "link2"}, Pending(pc', k') = {c}, Copies(pc', disk', k')
  PROVE  LagInv'
<1>1. ShapeOK(disk)
  BY StateFacts DEF VolumeInv
<1>2. /\ ShapeOK(disk') /\ disk'.fat2 = disk.fat2
      /\ \A e \in FatSet : e # c => disk'.fat1[e] = disk.fat1[e]
  BY <1>1, SetFat1Is
<1>3. DOMAIN disk'.fat1 = FatSet /\ DOMAIN disk.fat1 = FatSet
  BY <1>1, <1>2 DEF ShapeOK
<1>4. Behind(disk') \ {c} \subseteq Behind(disk)
  BY <1>2, <1>3 DEF Behind
<1>5. Pending(pc, k) = {}
  BY DEF Pending
<1>. QED
  BY <1>1, <1>2, <1>4, <1>5, LagFrom

LEMMA LagSecond ==
  ASSUME LagInv, VolumeInv, NEW c \in FatSet, NEW v \in Nat, disk' = SetFat2(disk, c, v), Quiet', Quiet, faults' = faults,
         pc' \notin {"mark2", "link2"}, Pending(pc, k) = {c}, disk.fat1[c] = v
  PROVE  LagInv'
<1>1. ShapeOK(disk)
  BY StateFacts DEF VolumeInv
<1>2. /\ ShapeOK(disk') /\ disk'.fat1 = disk.fat1 /\ disk'.fat2[c] = v
      /\ \A e \in FatSet : e # c => disk'.fat2[e] = disk.fat2[e] \/ disk'.fat2[e] = disk.fat1[e]
  BY <1>1, SetFat2Is
<1>3. DOMAIN disk'.fat1 = FatSet /\ DOMAIN disk.fat1 = FatSet
  BY <1>1, <1>2 DEF ShapeOK
<1>4. Behind(disk') \subseteq Behind(disk) \ {c}
  BY <1>2, <1>3 DEF Behind
<1>5. Pending(pc', k') = {} /\ Copies(pc', disk', k')
  BY DEF Pending, Copies
<1>. QED
  BY <1>1, <1>2, <1>4, <1>5, LagFrom

LEMMA LagSteps ==
  ASSUME LagInv, CallerInv, VolumeInv, VolumeInv', Step, Quiet'
  PROVE  LagInv'
<1>1. ASSUME Harmless, pc \notin {"mark2", "link2"} PROVE LagInv'
  BY <1>1, LagHarmless
<1>2. ASSUME NEW r, Return(r), NoFault, disk' = disk, pc \notin {"mark2", "link2"} PROVE LagInv'
  BY <1>1, <1>2 DEF Harmless, DataWritten
<1>3. ASSUME NEW frame, NEW label, label \notin {"mark2", "link2"}, With(frame, label), NoFault,
             DataWritten(disk, disk'), pc \notin {"mark2", "link2"}
      PROVE  LagInv'
  BY <1>1, <1>3 DEF Harmless
<1>4. ~Fault("read") /\ ~Fault("write")
  BY FaultNotQuiet
<1>5. ASSUME Quiet PROVE \E w, T : State(pc, disk, k, before, w, T)
  BY <1>5 DEF VolumeInv
<1>6. \A at, e : DataWritten(disk, Put(disk, at, e))
  BY DEF DataWritten
<1>7. DataWritten(disk, disk)
  BY DEF DataWritten
<1>8. \A c, row : DataWritten(disk, [disk EXCEPT !.data[c] = row])
  BY DEF DataWritten, WithRow
<1>9. CASE alloc_cluster
  BY <1>2, <1>3, <1>4, <1>7, <1>9 DEF alloc_cluster, NoAccess
<1>10. CASE mark1
  <2>1. FatWritten(SetFat1(disk, k.new, END)) /\ Goto("mark2") /\ pc = "mark1"
    BY <1>4, <1>10 DEF mark1, FatNotWritten
  <2>2. disk' = SetFat1(disk, k.new, END) /\ NoFault /\ k' = k /\ pc' = "mark2" /\ With(k, "mark2")
    BY <2>1 DEF FatWritten, Goto, With
  <2>3. Quiet /\ faults' = faults
    BY <2>2, WithIs DEF NoFault
  <2>4. k.new \in FatSet /\ ShapeOK(disk) /\ END \in Nat
    BY <1>5, <2>1, <2>3, StateFacts, FatNumbers
  <2>5. disk'.fat1[k.new] = END
    BY <2>2, <2>4, SetFat1Is
  <2>6. Pending(pc', k') = {k.new} /\ Copies(pc', disk', k')
    BY <2>2, <2>5 DEF Pending, Copies
  <2>. QED
    BY <2>1, <2>2, <2>3, <2>4, <2>6, LagFirst
<1>11. CASE link1
  <2>1. FatWritten(SetFat1(disk, k.from, k.to)) /\ Goto("link2") /\ pc = "link1"
    BY <1>4, <1>11 DEF link1, FatNotWritten
  <2>2. disk' = SetFat1(disk, k.from, k.to) /\ NoFault /\ k' = k /\ pc' = "link2" /\ With(k, "link2")
    BY <2>1 DEF FatWritten, Goto, With
  <2>3. Quiet /\ faults' = faults
    BY <2>2, WithIs DEF NoFault
  <2>4. k.from \in FatSet /\ k.to \in Nat /\ ShapeOK(disk)
    BY <1>5, <2>1, <2>3, StateFacts
  <2>5. disk'.fat1[k.from] = k.to
    BY <2>2, <2>4, SetFat1Is
  <2>6. Pending(pc', k') = {k.from} /\ Copies(pc', disk', k')
    BY <2>2, <2>5 DEF Pending, Copies
  <2>. QED
    BY <2>1, <2>2, <2>3, <2>4, <2>6, LagFirst
<1>12. CASE mark2
  <2>1. FatWritten(SetFat2(disk, k.new, END)) /\ pc = "mark2"
    BY <1>4, <1>12 DEF mark2, FatNotWritten
  <2>2. disk' = SetFat2(disk, k.new, END) /\ NoFault /\ faults' = faults
    BY <2>1 DEF FatWritten, NoFault
  <2>3. \E frame, label : label \notin {"mark2", "link2"} /\ With(frame, label)
    BY <1>12 DEF mark2, Goto
  <2>4. pc' \notin {"mark2", "link2"} /\ Quiet
    BY <2>2, <2>3, WithIs DEF With
  <2>5. k.new \in FatSet /\ END \in Nat
    BY <1>5, <2>1, <2>4, StateFacts, FatNumbers
  <2>6. Pending(pc, k) = {k.new} /\ disk.fat1[k.new] = END
    BY <2>1, <2>4 DEF Pending, Copies, LagInv
  <2>. QED
    BY <2>2, <2>4, <2>5, <2>6, LagSecond
<1>13. CASE link2
  <2>1. FatWritten(SetFat2(disk, k.from, k.to)) /\ pc = "link2" /\ Linked
    BY <1>4, <1>13 DEF link2, FatNotWritten
  <2>2. disk' = SetFat2(disk, k.from, k.to) /\ NoFault /\ faults' = faults
    BY <2>1 DEF FatWritten, NoFault
  <2>3. k.why \in {"slot", "extend", "free", "undo"}
    BY <2>1 DEF CallerInv
  <2>4. (\E frame, label : label \notin {"mark2", "link2"} /\ With(frame, label)) \/ \E r : Return(r)
    BY <2>1, <2>3 DEF Linked, Goto
  <2>5. pc' \notin {"mark2", "link2"} /\ Quiet
    BY <2>2, <2>4, WithIs, ReturnQuiet DEF With, Return
  <2>6. k.from \in FatSet /\ k.to \in Nat
    BY <1>5, <2>1, <2>5, StateFacts
  <2>7. Pending(pc, k) = {k.from} /\ disk.fat1[k.from] = k.to
    BY <2>1, <2>5 DEF Pending, Copies, LagInv
  <2>. QED
    BY <2>2, <2>5, <2>6, <2>7, LagSecond
<1>14. ASSUME NEW at, TakeSlot(at), NoFault, DataWritten(disk, disk'), pc \notin {"mark2", "link2"} PROVE LagInv'
  BY <1>3, <1>14 DEF TakeSlot, Alloc
<1>15. CASE alloc_entry_slot
  <2>1. NoFault /\ disk' = disk /\ pc = "slot"
    BY <1>4, <1>15 DEF alloc_entry_slot, NoAccess
  <2>2. (\E at : TakeSlot(at)) \/ (\E tail : Extend(tail)) \/ (\E r : Return(r))
    BY <1>15 DEF alloc_entry_slot
  <2>3. (\E at : TakeSlot(at)) \/ (\E frame : With(frame, "alloc")) \/ (\E r : Return(r))
    BY <2>2 DEF Extend, Alloc
  <2>. QED
    BY <1>2, <1>3, <1>7, <1>14, <2>1, <2>3
<1>16. CASE zero
  <2>1. pc = "zero" /\ NoFault /\ DataWritten(disk, disk')
    BY <1>4, <1>7, <1>8, <1>16 DEF zero, Written, NotWritten
  <2>2. TakeSlot(<<k.new, 1>>) \/ With(k, "dot") \/ With(Undo, "link1")
    BY <1>16 DEF zero, Goto
  <2>. QED
    BY <1>3, <1>14, <2>1, <2>2
<1>17. CASE dot
  BY <1>3, <1>4, <1>6, <1>7, <1>17 DEF dot, Written, NotWritten, Goto
<1>18. CASE dotdot
  BY <1>3, <1>4, <1>6, <1>7, <1>18 DEF dotdot, Written, NotWritten
<1>19. CASE write_entry \/ delete_entry \/ delete_copy \/ update_entry
  <2>1. NoFault /\ DataWritten(disk, disk') /\ pc \notin {"mark2", "link2"}
    BY <1>4, <1>6, <1>7, <1>19 DEF write_entry, delete_entry, delete_copy, update_entry, Written, NotWritten
  <2>2. (\E r : Return(r)) \/ \E frame, label : With(frame, label) /\ label \notin {"mark2", "link2"}
    BY <1>19 DEF write_entry, delete_entry, delete_copy, update_entry, Goto
  <2>. QED
    BY <1>1, <2>1, <2>2 DEF Harmless
<1>20. CASE free_chain
  BY <1>2, <1>3, <1>4, <1>7, <1>20 DEF free_chain, NoAccess, Goto
<1>21. CASE chunk
  <2>1. NoFault /\ disk' = disk /\ pc = "chunk"
    BY <1>4, <1>21 DEF chunk, NoAccess
  <2>2. Goto("update") \/ (\E r : Return(r)) \/ (\E frame : With(frame, "put")) \/ (\E frame : Alloc(frame, "extend"))
    BY <1>21 DEF chunk
  <2>3. ASSUME NEW frame, Alloc(frame, "extend") PROVE \E f : With(f, "alloc")
    BY <2>3 DEF Alloc
  <2>4. With(k, "update") \/ (\E r : Return(r)) \/ (\E frame : With(frame, "put")) \/ (\E frame : With(frame, "alloc"))
    BY <2>2, <2>3 DEF Goto
  <2>. QED
    BY <1>2, <1>3, <1>7, <2>1, <2>4
<1>22. CASE put
  <2>1. pc = "put" /\ ((\E r : Return(r)) \/ \E frame, label : With(frame, label) /\ label \notin {"mark2", "link2"})
    BY <1>22 DEF put
  <2>2. NoFault
    BY <1>4, <1>22 DEF put, FatWritten, FatNotWritten, Written, NotWritten
  <2>3. Quiet
    BY <2>1, <2>2, WithIs, ReturnQuiet
  <2>4. k.from \in All
    BY <1>5, <2>1, <2>3, StateFacts
  <2>5. ~(k.from < 2)
    BY <2>4 DEF All
  <2>6. DataWritten(disk, disk')
    <3>1. \/ \E row : disk' = [disk EXCEPT !.data[k.from] = row]
          \/ disk' = disk
      BY <1>22, <2>5 DEF put, Written, NotWritten
    <3>. QED
      BY <1>7, <1>8, <3>1
  <2>. QED
    BY <1>1, <2>1, <2>2, <2>6 DEF Harmless
<1>. QED
  BY <1>9, <1>10, <1>11, <1>12, <1>13, <1>15, <1>16, <1>17, <1>18, <1>19, <1>20, <1>21, <1>22 DEF Step

LEMMA FaultsCount ==
  ASSUME Next
  PROVE  faults' \in {faults, faults + 1}
<1>1. ASSUME NEW check, NEW frame, NEW label, BeginIf(check, frame, label) PROVE faults' = faults
  BY <1>1 DEF BeginIf, Begin, Refuse
<1>2. ASSUME NEW p \in Paths, fat32_create(p) \/ fat32_mkdir(p) \/ fat32_remove(p) \/ fat32_rmdir(p)
      PROVE  faults' = faults
  BY <1>1, <1>2 DEF fat32_create, fat32_mkdir, fat32_remove, fat32_rmdir
<1>3. ASSUME NEW m \in Moves, fat32_rename(m[1], m[2]) PROVE faults' = faults
  BY <1>1, <1>3 DEF fat32_rename
<1>4. ASSUME NEW p \in Paths, NEW append \in BOOLEAN, NEW input \in Inputs, fat32_write(p, append, input)
      PROVE  faults' = faults
  BY <1>1, <1>4 DEF fat32_write, WriteTo
<1>5. CASE Call
  BY <1>2, <1>3, <1>4, <1>5 DEF Call
<1>6. CASE Step \/ Crash
  <2>1. NoFault \/ (\E kind : Fault(kind))
    BY <1>6 DEF Step, Crash, alloc_cluster, mark1, mark2, link1, link2, alloc_entry_slot, zero, dot, dotdot,
                write_entry, delete_entry, delete_copy, free_chain, chunk, put, update_entry,
                NoAccess, FatWritten, FatNotWritten, Written, NotWritten
  <2>. QED
    BY <2>1 DEF NoFault, Fault
<1>. QED
  BY <1>5, <1>6 DEF Next

LEMMA LagKeeps ==
  ASSUME LagInv, CallerInv, VolumeInv, VolumeInv', Next
  PROVE  LagInv'
<1>1. faults' \in Nat
  BY FaultsCount DEF LagInv
<1>2. CASE ~Quiet'
  BY <1>1, <1>2 DEF LagInv
<1>3. CASE Quiet' /\ Step
  BY <1>3, LagSteps
<1>4. CASE Crash
  BY <1>4, LagCrash
<1>5. CASE Quiet' /\ Call
  <2>1. ASSUME NEW check, NEW frame, NEW label, BeginIf(check, frame, label),
               label \in {"slot", "free", "chunk", "alloc"}
        PROVE  LagInv'
    <3>1. pc = "idle" /\ disk' = disk /\ faults' = faults /\ (Quiet' => Quiet) /\ pc' \notin {"mark2", "link2"}
      BY <2>1 DEF BeginIf, Begin, Refuse, Quiet
    <3>2. ASSUME Quiet' PROVE ShapeOK(disk')
      BY <3>2, StateFacts DEF VolumeInv
    <3>. QED
      BY <3>1, <3>2, LagSame
  <2>2. ASSUME NEW p \in Paths, fat32_create(p) \/ fat32_mkdir(p) \/ fat32_remove(p) \/ fat32_rmdir(p)
        PROVE  LagInv'
    BY <2>1, <2>2 DEF fat32_create, fat32_mkdir, fat32_remove, fat32_rmdir
  <2>3. ASSUME NEW m \in Moves, fat32_rename(m[1], m[2]) PROVE LagInv'
    BY <2>1, <2>3 DEF fat32_rename
  <2>4. ASSUME NEW p \in Paths, NEW append \in BOOLEAN, NEW input \in Inputs, fat32_write(p, append, input)
        PROVE  LagInv'
    <3>1. PICK node : node = fat32_open(disk, p)
      OBVIOUS
    <3>2. PICK offset : offset = IF append THEN node.entry.size ELSE 0
      OBVIOUS
    <3>3. BeginIf(Writable(node), Writing(p, node, offset, input), IF node.entry.first < 2 THEN "alloc" ELSE "chunk")
      BY <2>4, <3>1, <3>2 DEF fat32_write, WriteTo
    <3>. QED
      BY <2>1, <3>3
  <2>. QED
    BY <1>5, <2>2, <2>3, <2>4 DEF Call
<1>. QED
  BY <1>2, <1>3, <1>4, <1>5 DEF Next

LEMMA InitLag ==
  ASSUME Init
  PROVE  LagInv
<1>1. disk = FreshDisk /\ pc = "idle" /\ faults = 0
  BY DEF Init
<1>2. Behind(disk) \ Pending(pc, k) = {}
  BY <1>1 DEF FreshDisk, Behind
<1>3. Cardinality(Behind(disk) \ Pending(pc, k)) = 0
  BY <1>2, FS_EmptySet
<1>. QED
  BY <1>1, <1>3 DEF LagInv, Copies

LEMMA LagImplies ==
  ASSUME LagInv, VolumeInv
  PROVE  BackupLags
<1>1. SUFFICES ASSUME ~Torn, ~failed
               PROVE  Cardinality(Behind(disk)) <= faults + (IF pc \in {"mark2", "link2"} THEN 1 ELSE 0)
  BY DEF BackupLags, Behind
<1>2. Quiet
  BY <1>1 DEF Torn, TornBy, Quiet
<1>3. ShapeOK(disk)
  BY <1>2, StateFacts DEF VolumeInv
<1>. DEFINE R == Behind(disk) \ Pending(pc, k)
<1>4. Cardinality(R) <= faults /\ faults \in Nat /\ IsFiniteSet(R) /\ Cardinality(R) \in Nat
  BY <1>2, <1>3, FatFinite DEF LagInv
<1>5. CASE pc \notin {"mark2", "link2"}
  BY <1>4, <1>5 DEF Pending
<1>6. CASE pc \in {"mark2", "link2"}
  <2>1. PICK x : Pending(pc, k) \subseteq {x}
    BY DEF Pending
  <2>2. Behind(disk) \subseteq R \cup {x}
    BY <2>1
  <2>. HIDE DEF R
  <2>3. IsFiniteSet(R \cup {x}) /\ Cardinality(R \cup {x}) \in Nat /\ Cardinality(R \cup {x}) <= Cardinality(R) + 1
    BY <1>4, FS_AddElement
  <2>4. Cardinality(Behind(disk)) <= Cardinality(R \cup {x}) /\ Cardinality(Behind(disk)) \in Nat
    BY <1>3, <2>2, <2>3, FatFinite
  <2>5. Cardinality(Behind(disk)) <= faults + 1
    BY <1>4, <2>3, <2>4
  <2>. QED
    BY <1>6, <2>5
<1>. QED
  BY <1>5, <1>6

\* However many calls and crashes there were, the backup FAT is behind by at most an entry
\* for each crash, and the one being written.
THEOREM BackupFollows == Spec => []BackupLags
<1>1. Init => CallerInv /\ VolumeInv /\ LagInv
  BY InitVolume, InitLag
<1>2. LagInv /\ CallerInv /\ VolumeInv /\ VolumeInv' /\ [Next]_vars => LagInv'
  <2>1. SUFFICES ASSUME LagInv, CallerInv, VolumeInv, VolumeInv', [Next]_vars PROVE LagInv'
    OBVIOUS
  <2>2. CASE Next
    BY <2>1, <2>2, LagKeeps
  <2>3. CASE UNCHANGED vars
    BY <2>1, <2>3 DEF vars, LagInv, Quiet, Pending, Copies
  <2>. QED
    BY <2>1, <2>2, <2>3
<1>3. LagInv /\ VolumeInv => BackupLags
  BY LagImplies
<1>. QED
  BY <1>1, <1>2, <1>3, VolumeInvariant, PTL DEF Spec

----------------------------------------------------------------------------
(***************************************************************************)
(* What `ls' reaches from the root, level by level.                        *)
(***************************************************************************)
RootItem == [path |-> <<>>, entry |-> RootNode.entry]

IsLevels(d, n, g) ==
  g = [i \in 0..n |-> IF i = 0 THEN {RootItem} ELSE UNION {Below(d, x) : x \in g[i - 1]}]

LEMMA LevelsExist ==
  ASSUME NEW d, NEW n \in Nat
  PROVE  \E g : IsLevels(d, n, g)
<1>. DEFINE Bad == {m \in Nat : ~\E g : IsLevels(d, m, g)}
            Next1(S) == UNION {Below(d, x) : x \in S}
<1>1. SUFFICES ASSUME Bad # {} PROVE FALSE
  OBVIOUS
<1>2. PICK m \in Bad : \A l \in Bad : m <= l
  <2>. Bad \subseteq Nat
    OBVIOUS
  <2>. HIDE DEF Bad
  <2>. QED
    BY <1>1, LeastNumber
<1>3. m \in Nat /\ ~\E g : IsLevels(d, m, g)
  BY <1>2
<1>4. CASE m = 0
  <2>. DEFINE g == [i \in 0..0 |-> {RootItem}]
  <2>1. \A i \in 0..0 : i = 0
    OBVIOUS
  <2>2. g = [i \in 0..0 |-> IF i = 0 THEN {RootItem} ELSE Next1(g[i - 1])]
    BY <2>1
  <2>. HIDE DEF g
  <2>. QED
    BY <1>3, <1>4, <2>2 DEF IsLevels
<1>5. CASE m # 0
  <2>1. m - 1 \in Nat /\ ~(m <= m - 1)
    BY <1>3, <1>5
  <2>2. m - 1 \notin Bad
    <3>. HIDE DEF Bad
    <3>. QED
      BY <1>2, <2>1
  <2>3. PICK g : IsLevels(d, m - 1, g)
    BY <2>1, <2>2
  <2>. DEFINE f == [i \in 0..m |-> IF i = m THEN Next1(g[m - 1]) ELSE g[i]]
  <2>. HIDE DEF Next1
  <2>4. ASSUME NEW i \in 0..m
        PROVE  f[i] = IF i = 0 THEN {RootItem} ELSE Next1(f[i - 1])
    <3>1. CASE i = m
      <4>1. m - 1 \in 0..m /\ m - 1 # m
        BY <1>3, <1>5
      <4>2. f[m - 1] = g[m - 1]
        BY <4>1
      <4>. QED
        BY <1>5, <3>1, <4>2
    <3>2. CASE i # m
      <4>1. i \in 0..(m - 1)
        BY <1>3, <3>2
      <4>2. g[i] = IF i = 0 THEN {RootItem} ELSE Next1(g[i - 1])
        BY <2>3, <4>1 DEF IsLevels, Next1
      <4>3. CASE i = 0
        BY <3>2, <4>2, <4>3
      <4>4. CASE i # 0
        <5>1. i - 1 \in 0..m /\ i - 1 # m
          BY <1>3, <4>1, <4>4
        <5>. QED
          BY <3>2, <4>2, <4>4, <5>1
      <4>. QED
        BY <4>3, <4>4
    <3>. QED
      BY <3>1, <3>2
  <2>5. f = [i \in 0..m |-> f[i]]
    OBVIOUS
  <2>. HIDE DEF f
  <2>6. f = [i \in 0..m |-> IF i = 0 THEN {RootItem} ELSE Next1(f[i - 1])]
    BY <2>4, <2>5
  <2>. QED
    BY <1>3, <2>6 DEF IsLevels, Next1
<1>. QED
  BY <1>4, <1>5

LEMMA NodesAre ==
  ASSUME NEW d
  PROVE  \E g : /\ IsLevels(d, MaxDepth + 1, g)
                /\ \A n \in Nodes(d) : \E i \in 1..(MaxDepth + 1) : n \in g[i]
<1>. DEFINE G(g) == g = [i \in 0..(MaxDepth + 1) |-> IF i = 0 THEN {[path |-> <<>>, entry |-> RootNode.entry]}
                                                     ELSE UNION {Below(d, n) : n \in g[i - 1]}]
            level == CHOOSE g : G(g)
<1>1. \E g : G(g)
  <2>0. MaxDepth + 1 \in Nat
    BY Fat32Assumption
  <2>1. PICK g : IsLevels(d, MaxDepth + 1, g)
    BY <2>0, LevelsExist
  <2>2. G(g)
    BY <2>1 DEF IsLevels, RootItem
  <2>. QED
    BY <2>2
<1>2. G(level)
  BY <1>1
<1>3. Nodes(d) = UNION {level[i] : i \in 1..(MaxDepth + 1)}
  BY DEF Nodes
<1>4. IsLevels(d, MaxDepth + 1, level)
  BY <1>2 DEF IsLevels, RootItem
<1>. HIDE DEF level
<1>. QED
  BY <1>3, <1>4

LEMMA LevelIs ==
  ASSUME NEW d, NEW g, IsLevels(d, MaxDepth + 1, g)
  PROVE  /\ g[0] = {RootItem}
         /\ \A i \in 1..(MaxDepth + 1) : g[i] = UNION {Below(d, x) : x \in g[i - 1]}
<1>1. 0 \in 0..(MaxDepth + 1) /\ \A i \in 1..(MaxDepth + 1) : i \in 0..(MaxDepth + 1) /\ i # 0
  BY Fat32Assumption
<1>. QED
  BY <1>1 DEF IsLevels

\* A node below the node x is an entry of the directory x leads to.
Beneath(d, w, T, x, n) ==
  \E c, i : /\ Live(d, w, x.entry.first, None, c, i)
            /\ n = [path |-> Append(x.path, d.data[c][i].name), at |-> <<c, i>>, entry |-> d.data[c][i]]

LEMMA BelowIs ==
  ASSUME NEW d, NEW w, NEW T, Sound(d, w, T, None), NEW x, x.entry.dir => x.entry.first \in T, NEW n \in Below(d, x)
  PROVE  x.entry.first \in T /\ x.entry.dir /\ Beneath(d, w, T, x, n)
<1>1. x.entry.dir /\ x.entry.first \in T
  BY DEF Below
<1>2. PICK e \in fat32_readdir(d, x.entry.first) :
        n = [path |-> Append(x.path, e.entry.name), at |-> e.at, entry |-> e.entry]
  BY <1>1 DEF Below
<1>3. PICK c, i : Live(d, w, x.entry.first, None, c, i) /\ e = [at |-> <<c, i>>, entry |-> d.data[c][i]]
  BY <1>1, <1>2, ReaddirIs
<1>4. n = [path |-> Append(x.path, d.data[c][i].name), at |-> <<c, i>>, entry |-> d.data[c][i]]
  BY <1>2, <1>3
<1>. QED
  BY <1>1, <1>3, <1>4 DEF Beneath

\* A node that opening its path finds, and that is an entry of a directory; or the root.
Shown(d, w, T, n) ==
  /\ n = [path |-> n.path, at |-> n.at, entry |-> n.entry]
  /\ n.path \in Seq(ShortNames)
  /\ fat32_open(d, n.path) = [r |-> "OK", at |-> n.at, entry |-> n.entry]
  /\ \E h \in T : \E c, i : Live(d, w, h, None, c, i) /\ n.at = <<c, i>> /\ n.entry = d.data[c][i]

LEMMA ShownFirst ==
  ASSUME NEW d, NEW w, NEW T, Sound(d, w, T, None), NEW n, Shown(d, w, T, n)
  PROVE  GoodEntry(w, T, n.entry)
<1>1. PICK h \in T : \E c, i : Live(d, w, h, None, c, i) /\ n.at = <<c, i>> /\ n.entry = d.data[c][i]
  BY DEF Shown
<1>. QED
  BY <1>1, LiveEntry

\* A node below one that its path opens.
LEMMA BeneathShown ==
  ASSUME NEW d, NEW w, NEW T, Sound(d, w, T, None), NEW x, NEW n, NEW node,
         x.path \in Seq(ShortNames), fat32_open(d, x.path) = node,
         node = RootNode \/ node.r = "OK", node.entry = x.entry,
         x.entry.dir, x.entry.first \in T, Beneath(d, w, T, x, n)
  PROVE  Shown(d, w, T, n)
<1>1. PICK c, i : /\ Live(d, w, x.entry.first, None, c, i)
                  /\ n = [path |-> Append(x.path, d.data[c][i].name), at |-> <<c, i>>, entry |-> d.data[c][i]]
  BY DEF Beneath
<1>. DEFINE name == d.data[c][i].name
            h    == x.entry.first
<1>2. name \in ShortNames
  <2>1. GoodEntry(w, T, d.data[c][i])
    BY <1>1, LiveEntry
  <2>. QED
    BY <2>1 DEF GoodEntry
<1>3. Append(x.path, name) \in Seq(ShortNames)
  BY <1>2
<1>4. fat32_open(d, Append(x.path, name)) = Component(d, node, name)
  BY OpenStep
<1>5. Component(d, node, name) = find_entry(d, h, name)
  BY <1>2 DEF Component
<1>6. FoundIn(d, w, h, name, find_entry(d, h, name))
  BY FindEntry
<1>7. find_entry(d, h, name) = [r |-> "OK", at |-> <<c, i>>, entry |-> d.data[c][i]]
  BY <1>1, <1>6 DEF FoundIn
<1>8. n.path = Append(x.path, name) /\ n.at = <<c, i>> /\ n.entry = d.data[c][i]
  BY <1>1
<1>. HIDE DEF name, h
<1>9. fat32_open(d, n.path) = [r |-> "OK", at |-> n.at, entry |-> n.entry]
  BY <1>4, <1>5, <1>7, <1>8
<1>10. n = [path |-> n.path, at |-> n.at, entry |-> n.entry]
  BY <1>1
<1>. QED
  BY <1>1, <1>3, <1>8, <1>9, <1>10 DEF Shown

\* By induction on the level: every node is shown, and opening its path finds it.
LEMMA LevelsShown ==
  ASSUME NEW d, NEW w, NEW T, Sound(d, w, T, None), NEW g, IsLevels(d, MaxDepth + 1, g)
  PROVE  \A i \in 1..(MaxDepth + 1) : \A n \in g[i] :
           /\ Shown(d, w, T, n)
           /\ \E x \in g[i - 1] : Beneath(d, w, T, x, n) /\ x.entry.first \in T
<1>. DEFINE Fine(i) == \A n \in g[i] :
              /\ Shown(d, w, T, n)
              /\ \E x \in g[i - 1] : Beneath(d, w, T, x, n) /\ x.entry.first \in T
            Bad == {i \in 1..(MaxDepth + 1) : ~Fine(i)}
<1>1. SUFFICES ASSUME Bad # {} PROVE FALSE
  OBVIOUS
<1>2. PICK m \in Bad : \A l \in Bad : m <= l
  <2>. Bad \subseteq Nat
    OBVIOUS
  <2>. HIDE DEF Bad
  <2>. QED
    BY <1>1, LeastNumber
<1>3. m \in 1..(MaxDepth + 1) /\ ~Fine(m)
  BY <1>2
<1>4. PICK n \in g[m] : ~(/\ Shown(d, w, T, n)
                          /\ \E x \in g[m - 1] : Beneath(d, w, T, x, n) /\ x.entry.first \in T)
  BY <1>3
<1>5. g[m] = UNION {Below(d, x) : x \in g[m - 1]}
  BY <1>3, LevelIs
<1>6. PICK x \in g[m - 1] : n \in Below(d, x)
  BY <1>4, <1>5
<1>7. CASE m = 1
  <2>1. m - 1 = 0
    BY <1>7
  <2>2. x = RootItem
    BY <1>6, <2>1, LevelIs
  <2>3. /\ x.entry.dir /\ x.entry.first = Root /\ x.path = <<>> /\ x.entry = RootNode.entry
    BY <2>2 DEF RootItem, RootNode, Entry
  <2>4. x.entry.first \in T
    BY <2>3 DEF Sound
  <2>5. Beneath(d, w, T, x, n)
    BY <1>6, <2>4, BelowIs
  <2>6. fat32_open(d, x.path) = RootNode /\ x.path \in Seq(ShortNames)
    BY <2>3, OpenRoot
  <2>7. Shown(d, w, T, n)
    BY <2>3, <2>4, <2>5, <2>6, BeneathShown
  <2>. QED
    BY <1>4, <1>6, <2>4, <2>5, <2>7
<1>8. CASE m # 1
  <2>1. m - 1 \in 1..(MaxDepth + 1) /\ ~(m <= m - 1)
    BY <1>3, <1>8, Fat32Assumption
  <2>2. m - 1 \notin Bad
    <3>. HIDE DEF Bad
    <3>. QED
      BY <1>2, <2>1
  <2>3. Fine(m - 1)
    BY <2>1, <2>2
  <2>4. Shown(d, w, T, x)
    BY <1>6, <2>3
  <2>5. GoodEntry(w, T, x.entry)
    BY <2>4, ShownFirst
  <2>6. x.entry.dir => x.entry.first \in T
    BY <2>5 DEF GoodEntry
  <2>7. Beneath(d, w, T, x, n) /\ x.entry.first \in T /\ x.entry.dir
    BY <1>6, <2>6, BelowIs
  <2>8. PICK node : node = fat32_open(d, x.path)
    OBVIOUS
  <2>9. node.r = "OK" /\ node.entry = x.entry /\ x.path \in Seq(ShortNames)
    BY <2>4, <2>8 DEF Shown
  <2>10. Shown(d, w, T, n)
    BY <2>7, <2>8, <2>9, BeneathShown
  <2>. QED
    BY <1>4, <1>6, <2>7, <2>10
<1>. QED
  BY <1>7, <1>8

\* An entry is shown under one path only: no directory is reached in two ways.
LEMMA LevelsDiffer ==
  ASSUME NEW d, NEW w, NEW T, Sound(d, w, T, None), NEW g, IsLevels(d, MaxDepth + 1, g)
  PROVE  \A i, j \in 1..(MaxDepth + 1) : \A m \in g[i], n \in g[j] : m.at = n.at => m = n
<1>. DEFINE N == MaxDepth + 1
            Same(i) == \A j \in 1..N : \A m \in g[i], n \in g[j] : m.at = n.at => m = n
            Bad == {i \in 1..N : ~Same(i)}
<1>1. SUFFICES ASSUME Bad # {} PROVE FALSE
  OBVIOUS
<1>2. PICK a \in Bad : \A l \in Bad : a <= l
  <2>. Bad \subseteq Nat
    OBVIOUS
  <2>. HIDE DEF Bad
  <2>. QED
    BY <1>1, LeastNumber
<1>3. PICK b \in 1..N : \E m \in g[a], n \in g[b] : m.at = n.at /\ m # n
  BY <1>2
<1>4. PICK m \in g[a], n \in g[b] : m.at = n.at /\ m # n
  BY <1>3
<1>5. a \in 1..N
  BY <1>2
<1>6. PICK x \in g[a - 1] : Beneath(d, w, T, x, m) /\ x.entry.first \in T
  BY <1>4, <1>5, LevelsShown
<1>7. PICK y \in g[b - 1] : Beneath(d, w, T, y, n) /\ y.entry.first \in T
  BY <1>3, <1>4, LevelsShown
<1>8. PICK c, i : /\ Live(d, w, x.entry.first, None, c, i)
                  /\ m = [path |-> Append(x.path, d.data[c][i].name), at |-> <<c, i>>, entry |-> d.data[c][i]]
  BY <1>6 DEF Beneath
<1>9. PICK e, j : /\ Live(d, w, y.entry.first, None, e, j)
                  /\ n = [path |-> Append(y.path, d.data[e][j].name), at |-> <<e, j>>, entry |-> d.data[e][j]]
  BY <1>7 DEF Beneath
<1>10. c = e /\ i = j
  BY <1>4, <1>8, <1>9
<1>11. x.entry.first = y.entry.first
  <2>1. T \subseteq DOMAIN w /\ Chained(d.fat1, w)
    BY DEF Sound
  <2>2. In(w, x.entry.first, c) /\ In(w, y.entry.first, c)
    BY <1>8, <1>9, <1>10 DEF Live
  <2>. QED
    BY <1>6, <1>7, <2>1, <2>2 DEF Chained
<1>12. x # y
  BY <1>4, <1>8, <1>9, <1>10
<1>. HIDE DEF N, Same
<1>13. a - 1 = 0 \/ a - 1 \in 1..(MaxDepth + 1)
  BY <1>5, Fat32Assumption DEF N
<1>14. b - 1 = 0 \/ b - 1 \in 1..(MaxDepth + 1)
  BY <1>3, Fat32Assumption DEF N
<1>15. ASSUME NEW z, NEW l, l \in 1..(MaxDepth + 1), z \in g[l], z.entry.first \in T
       PROVE  z.entry.first # Root /\ z.entry.first # 0
  <2>1. Shown(d, w, T, z)
    BY <1>15, LevelsShown
  <2>2. GoodEntry(w, T, z.entry)
    BY <2>1, ShownFirst
  <2>3. T \subseteq All
    BY ChainFacts DEF Sound
  <2>4. z.entry.first # 0
    BY <1>15, <2>3, FatNumbers
  <2>5. z.entry.first # Root
    BY <1>15, <2>2, <2>4 DEF GoodEntry
  <2>. QED
    BY <2>4, <2>5
<1>16. \A z \in g[0] : z = RootItem /\ z.entry.first = Root
  <2>1. RootItem.entry.first = Root
    BY DEF RootItem, RootNode, Entry
  <2>. QED
    BY <2>1, LevelIs
<1>17. a - 1 # 0
  <2>1. SUFFICES ASSUME a - 1 = 0 PROVE FALSE
    OBVIOUS
  <2>2. x = RootItem /\ x.entry.first = Root
    BY <1>6, <1>16, <2>1
  <2>3. b - 1 = 0
    BY <1>7, <1>11, <1>14, <1>15, <2>2
  <2>4. y = RootItem
    BY <1>7, <1>16, <2>3
  <2>. QED
    BY <1>12, <2>2, <2>4
<1>18. x.entry.first # Root /\ x.entry.first # 0
  BY <1>6, <1>13, <1>15, <1>17
<1>19. b - 1 # 0
  BY <1>7, <1>11, <1>16, <1>18
<1>20. Shown(d, w, T, x) /\ Shown(d, w, T, y)
  BY <1>6, <1>7, <1>13, <1>14, <1>17, <1>19, LevelsShown
<1>21. PICK h \in T : \E p, q : Live(d, w, h, None, p, q) /\ x.at = <<p, q>> /\ x.entry = d.data[p][q]
  BY <1>20 DEF Shown
<1>22. PICK p, q : Live(d, w, h, None, p, q) /\ x.at = <<p, q>> /\ x.entry = d.data[p][q]
  BY <1>21
<1>23. PICK f \in T : \E r, s : Live(d, w, f, None, r, s) /\ y.at = <<r, s>> /\ y.entry = d.data[r][s]
  BY <1>20 DEF Shown
<1>24. PICK r, s : Live(d, w, f, None, r, s) /\ y.at = <<r, s>> /\ y.entry = d.data[r][s]
  BY <1>23
<1>25. x.at = y.at
  BY <1>11, <1>18, <1>22, <1>24 DEF Sound, FirstsDiffer
<1>26. ~(a <= a - 1)
  BY <1>5, Fat32Assumption DEF N
<1>27. a - 1 \notin Bad
  <2>. HIDE DEF Bad
  <2>. QED
    BY <1>2, <1>26
<1>28. Same(a - 1)
  BY <1>13, <1>17, <1>27 DEF N
<1>. QED
  BY <1>6, <1>7, <1>12, <1>14, <1>19, <1>25, <1>28 DEF Same, N

\* Everything a user can reach, on a sound disk.
LEMMA NodesShown ==
  ASSUME NEW d, NEW w, NEW T, Sound(d, w, T, None)
  PROVE  /\ \A n \in Nodes(d) : Shown(d, w, T, n)
         /\ \A m, n \in Nodes(d) : m.at = n.at => m = n
<1>1. PICK g : /\ IsLevels(d, MaxDepth + 1, g)
               /\ \A n \in Nodes(d) : \E i \in 1..(MaxDepth + 1) : n \in g[i]
  BY NodesAre
<1>2. \A i \in 1..(MaxDepth + 1) : \A n \in g[i] : Shown(d, w, T, n)
  BY <1>1, LevelsShown
<1>3. \A i, j \in 1..(MaxDepth + 1) : \A m \in g[i], n \in g[j] : m.at = n.at => m = n
  BY <1>1, LevelsDiffer
<1>. QED
  BY <1>1, <1>2, <1>3

LEMMA TornSettled ==
  ASSUME VolumeInv, ~Torn, ~failed
  PROVE  \E w, T : Sound(disk, w, T, None)
<1>1. Quiet
  BY DEF Torn, TornBy, Quiet
<1>2. pc # "idle" => ~TornBy(disk)
  BY DEF Torn
<1>3. PICK w, T : State(pc, disk, k, before, w, T)
  BY <1>1 DEF VolumeInv
<1>. QED
  BY <1>2, <1>3, Settled

LEMMA ListingIs ==
  ASSUME VolumeInv
  PROVE  ListingMatchesLookup
<1>. DEFINE top == [path |-> <<>>, at |-> <<0, 0>>, entry |-> RootNode.entry]
            Found(n, e) == fat32_open(disk, Append(n.path, e.entry.name))
<1>1. SUFFICES ASSUME ~Torn, ~failed, NEW n \in Nodes(disk) \cup {top}, n.entry.dir,
                      NEW e \in Standing(disk, n.entry.first)
               PROVE  e \in fat32_readdir(disk, n.entry.first) /\ Found(n, e).r = "OK" /\ Found(n, e).at = e.at
  BY DEF ListingMatchesLookup
<1>2. PICK w, T : Sound(disk, w, T, None)
  BY <1>1, TornSettled
<1>3. PICK node : node = fat32_open(disk, n.path)
  OBVIOUS
<1>4. /\ n.path \in Seq(ShortNames) /\ (node = RootNode \/ node.r = "OK")
      /\ node.entry = n.entry /\ n.entry.first \in T
  <2>1. CASE n = top
    <3>1. n.path = <<>> /\ n.entry = RootNode.entry /\ n.entry.first = Root
      BY <2>1 DEF RootNode, Entry
    <3>2. n.entry.first \in T
      BY <1>2, <3>1 DEF Sound
    <3>. QED
      BY <1>3, <3>1, <3>2, OpenRoot
  <2>2. CASE n \in Nodes(disk)
    <3>1. Shown(disk, w, T, n)
      BY <1>2, <2>2, NodesShown
    <3>2. GoodEntry(w, T, n.entry)
      BY <1>2, <3>1, ShownFirst
    <3>. QED
      BY <1>1, <1>3, <3>1, <3>2 DEF Shown, GoodEntry
  <2>. QED
    BY <2>1, <2>2
<1>5. /\ e \in fat32_readdir(disk, n.entry.first)
      /\ \E c, i : Live(disk, w, n.entry.first, None, c, i) /\ e = [at |-> <<c, i>>, entry |-> disk.data[c][i]]
  BY <1>1, <1>2, <1>4, StandingIs
<1>6. PICK c, i : Live(disk, w, n.entry.first, None, c, i) /\ e = [at |-> <<c, i>>, entry |-> disk.data[c][i]]
  BY <1>5
<1>. DEFINE m == [path |-> Append(n.path, disk.data[c][i].name), at |-> <<c, i>>, entry |-> disk.data[c][i]]
<1>7. Beneath(disk, w, T, n, m)
  BY <1>6 DEF Beneath
<1>8. e.entry = disk.data[c][i] /\ e.at = <<c, i>>
  BY <1>6
<1>9. m.path = Append(n.path, e.entry.name) /\ m.at = e.at
  BY <1>8
<1>. HIDE DEF m, top
<1>10. Shown(disk, w, T, m)
  BY <1>1, <1>2, <1>3, <1>4, <1>7, BeneathShown
<1>. QED
  BY <1>5, <1>9, <1>10 DEF Shown

\* Whatever stands in a directory that can be reached, wherever in its clusters, is listed and
\* opens, at the entry that was listed, in a tree of any size: no deletion, creation or move
\* of another name hides it (fat32_readdir, fat32_find_entry_status, fat32_delete_entry).
THEOREM ListingOpens == Spec => []ListingMatchesLookup
<1>1. VolumeInv => ListingMatchesLookup
  BY ListingIs
<1>. QED
  BY <1>1, VolumeInvariant, PTL

\* The chain an entry leads to, and no other chain has its clusters.
Leads(d, w, e) ==
  /\ e.first = 0 => /\ ~e.dir /\ e.size = 0 /\ ClustersIn(Chain(d, e.first)) = {}
  /\ e.first # 0 => /\ e.first \in DOMAIN w
                    /\ Ends(d, Chain(d, e.first)) /\ e.size <= SlotsPerCluster * Len(Chain(d, e.first))
                    /\ \A c \in ClustersIn(Chain(d, e.first)) : In(w, e.first, c)

LEMMA LeadsIs ==
  ASSUME NEW d, NEW w, Chained(d.fat1, w), NEW e,
         e.first = 0 => ~e.dir /\ e.size = 0,
         e.first # 0 => e.first \in DOMAIN w /\ e.size <= SlotsPerCluster * Len(w[e.first])
  PROVE  Leads(d, w, e)
<1>1. CASE e.first = 0
  <2>1. Stops(e.first)
    BY <1>1 DEF Stops
  <2>2. Chain(d, e.first) = <<>>
    BY <2>1, NoChain
  <2>3. ClustersIn(<<>>) = {}
    BY DEF ClustersIn
  <2>. QED
    BY <1>1, <2>2, <2>3 DEF Leads
<1>2. CASE e.first # 0
  <2>. DEFINE h == e.first
              s == w[h]
  <2>1. h \in DOMAIN w /\ LinkedUp(d.fat1, s) /\ s[1] = h
    BY <1>2 DEF Chained
  <2>2. Chain(d, h) = s
    BY <2>1, ChainIs
  <2>3. s \in Seq(All) /\ Len(s) > 0 /\ d.fat1[s[Len(s)]] = END
    BY <2>1 DEF LinkedUp
  <2>4. Ends(d, s)
    <3>1. s # <<>>
      BY <2>3
    <3>2. is_end_cluster(END)
      BY Fat32Assumption DEF is_end_cluster, END
    <3>. QED
      BY <2>3, <3>1, <3>2 DEF Ends
  <2>5. ASSUME NEW c \in ClustersIn(s) PROVE In(w, h, c)
    <3>1. DOMAIN s = 1..Len(s)
      BY <2>3
    <3>. QED
      BY <3>1 DEF ClustersIn, In
  <2>. QED
    BY <1>2, <2>1, <2>2, <2>4, <2>5 DEF Leads
<1>. QED
  BY <1>1, <1>2

TopItem == [path |-> <<>>, at |-> <<0, 0>>, entry |-> RootNode.entry]

LEMMA RootLeads ==
  ASSUME NEW d, NEW w, NEW T, Sound(d, w, T, None)
  PROVE  TopItem.entry.first = Root /\ Leads(d, w, TopItem.entry)
<1>1. TopItem.entry = RootNode.entry
  BY DEF TopItem
<1>2. PICK name : RootNode.entry = Entry(name, TRUE, Root, 0)
  BY Zenon DEF RootNode
<1>3. TopItem.entry.first = Root /\ TopItem.entry.size = 0 /\ Root # 0
  BY <1>1, <1>2 DEF Entry, Root
<1>4. Root \in DOMAIN w /\ Chained(d.fat1, w)
  BY DEF Sound
<1>5. Len(w[Root]) \in Nat
  BY <1>4, ChainFacts
<1>6. PICK m \in Nat : m = SlotsPerCluster * Len(w[Root])
  BY <1>5, Fat32Assumption
<1>7. TopItem.entry.size <= SlotsPerCluster * Len(w[Root])
  BY <1>3, <1>6
<1>. HIDE DEF TopItem
<1>. QED
  BY <1>3, <1>4, <1>7, LeadsIs

LEMMA ShownLeads ==
  ASSUME NEW d, NEW w, NEW T, Sound(d, w, T, None), NEW n, Shown(d, w, T, n)
  PROVE  n.entry.first # Root /\ Leads(d, w, n.entry)
<1>1. GoodEntry(w, T, n.entry)
  BY ShownFirst
<1>2. Chained(d.fat1, w) /\ T \subseteq DOMAIN w /\ Root \in T
  BY DEF Sound
<1>3. \A h \in T : h # 0
  BY <1>2, ChainFacts, FatNumbers
<1>4. n.entry.first = 0 => ~n.entry.dir /\ n.entry.size = 0
  BY <1>1, <1>3 DEF GoodEntry
<1>5. n.entry.first # 0 => n.entry.first \in DOMAIN w /\ n.entry.size <= SlotsPerCluster * Len(w[n.entry.first])
  BY <1>1, <1>2 DEF GoodEntry
<1>6. n.entry.first # Root
  <2>1. Root # 0
    BY <1>2, <1>3
  <2>. QED
    BY <1>1, <1>2, <2>1 DEF GoodEntry
<1>. QED
  BY <1>2, <1>4, <1>5, <1>6, LeadsIs

LEMMA VolumeIs ==
  ASSUME VolumeInv
  PROVE  VolumeSound
<1>. DEFINE nodes == Nodes(disk) \cup {TopItem}
            chain == [n \in nodes |-> Chain(disk, n.entry.first)]
<1>1. SUFFICES ASSUME ~Torn, ~failed
      PROVE  \A m \in nodes :
          /\ \A n \in nodes \ {m} : ClustersIn(chain[m]) \cap ClustersIn(chain[n]) = {}
          /\ m.entry.first = 0 => ~m.entry.dir /\ m.entry.size = 0
          /\ m.entry.first # 0 => Ends(disk, chain[m]) /\ m.entry.size <= SlotsPerCluster * Len(chain[m])
  BY DEF VolumeSound, TopItem
<1>2. PICK w, T : Sound(disk, w, T, None)
  BY <1>1, TornSettled
<1>3. \A n \in Nodes(disk) : Shown(disk, w, T, n)
  BY <1>2, NodesShown
<1>4. \A m, n \in Nodes(disk) : m.at = n.at => m = n
  BY <1>2, NodesShown
<1>5. TopItem.entry.first = Root /\ Leads(disk, w, TopItem.entry)
  BY <1>2, RootLeads
<1>6. \A n \in Nodes(disk) : n.entry.first # Root /\ Leads(disk, w, n.entry)
  BY <1>2, <1>3, ShownLeads
<1>7. \A n \in nodes : Leads(disk, w, n.entry) /\ chain[n] = Chain(disk, n.entry.first)
  BY <1>5, <1>6
<1>8. ASSUME NEW m \in nodes, NEW n \in nodes, m.entry.first = n.entry.first, m.entry.first # 0
      PROVE  m = n
  <2>1. CASE m.entry.first = Root
    BY <1>6, <1>8, <2>1
  <2>2. CASE m.entry.first # Root
    <3>1. m \in Nodes(disk) /\ n \in Nodes(disk)
      BY <1>5, <1>8, <2>2
    <3>2. Shown(disk, w, T, m) /\ Shown(disk, w, T, n)
      BY <1>3, <3>1
    <3>3. PICK g \in T : \E p, q : Live(disk, w, g, None, p, q) /\ m.at = <<p, q>> /\ m.entry = disk.data[p][q]
      BY <3>2 DEF Shown
    <3>4. PICK p, q : Live(disk, w, g, None, p, q) /\ m.at = <<p, q>> /\ m.entry = disk.data[p][q]
      BY <3>3
    <3>5. PICK h \in T : \E r, s : Live(disk, w, h, None, r, s) /\ n.at = <<r, s>> /\ n.entry = disk.data[r][s]
      BY <3>2 DEF Shown
    <3>6. PICK r, s : Live(disk, w, h, None, r, s) /\ n.at = <<r, s>> /\ n.entry = disk.data[r][s]
      BY <3>5
    <3>7. m.at = n.at
      BY <1>2, <1>8, <3>4, <3>6 DEF Sound, FirstsDiffer
    <3>. QED
      BY <1>4, <3>1, <3>7
  <2>. QED
    BY <2>1, <2>2
<1>. HIDE DEF nodes, chain
<1>9. ASSUME NEW m \in nodes, NEW n \in nodes \ {m}, NEW c, c \in ClustersIn(chain[m]), c \in ClustersIn(chain[n])
      PROVE  FALSE
  <2>1. m.entry.first # 0 /\ n.entry.first # 0
    BY <1>7, <1>9 DEF Leads
  <2>2. /\ m.entry.first \in DOMAIN w /\ n.entry.first \in DOMAIN w
        /\ In(w, m.entry.first, c) /\ In(w, n.entry.first, c)
    BY <1>7, <1>9, <2>1 DEF Leads
  <2>3. m.entry.first = n.entry.first
    BY <1>2, <2>2 DEF Sound, Chained
  <2>. QED
    BY <1>8, <2>1, <2>3
<1>10. \A m \in nodes : /\ m.entry.first = 0 => ~m.entry.dir /\ m.entry.size = 0
                        /\ m.entry.first # 0 => Ends(disk, chain[m]) /\ m.entry.size <= SlotsPerCluster * Len(chain[m])
  BY <1>7 DEF Leads
<1>. QED
  BY <1>9, <1>10

\* At every write of every call and after every crash, on a disk of any size: no cluster
\* belongs to two names, and every name leads to a chain that ends and holds the file.
THEOREM VolumeStaysSound == Spec => []VolumeSound
<1>1. VolumeInv => VolumeSound
  BY VolumeIs
<1>. QED
  BY <1>1, VolumeInvariant, PTL
=============================================================================
