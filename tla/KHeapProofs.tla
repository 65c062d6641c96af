----------------------------- MODULE KHeapProofs -----------------------------
(***************************************************************************)
(* Proofs about the kernel heap, for every word size, heap and sequence of *)
(* calls: the list tiles the heap, what callers hold is in use and apart,  *)
(* free neighbours never stay separate.                                    *)
(***************************************************************************)
EXTENDS KHeap, FiniteSetTheorems, TLAPS

\* Headers are records of the right type at natural addresses.
HdrType(h) ==
  /\ h \in [DOMAIN h -> Block]
  /\ DOMAIN h \subseteq Nat

\* The list of a tiled heap, seen field by field and with End kept folded.
LEMMA TiledFields ==
  ASSUME NEW h, NEW lo \in Nat, NEW hi \in Nat, HdrType(h), Tiles(h, lo, hi)
  PROVE  /\ lo \in DOMAIN h
         /\ \A x \in DOMAIN h :
              /\ x \in Nat /\ h[x].size \in Nat /\ h[x].next \in Nat /\ h[x].prev \in Nat
              /\ h[x].free \in BOOLEAN
              /\ End(h, x) = x + 16 + h[x].size /\ End(h, x) \in Nat /\ x < End(h, x)
              /\ lo <= x /\ End(h, x) <= hi /\ x % 16 = 0
              /\ h[x].size % 16 = 0 /\ h[x].size > 0
              /\ NextAgrees(h, hi, x) /\ PrevAgrees(h, lo, x)
         /\ \A x, y \in DOMAIN h : x < y => End(h, x) <= y
<1>1. \A x \in DOMAIN h : /\ x \in Nat /\ h[x].size \in Nat /\ h[x].next \in Nat
                         /\ h[x].prev \in Nat /\ h[x].free \in BOOLEAN
  BY DEF HdrType, Block
<1>2. \A x \in DOMAIN h : /\ End(h, x) = x + 16 + h[x].size /\ End(h, x) \in Nat
                         /\ x < End(h, x)
  BY <1>1 DEF End, HeaderSize
<1>. QED
  BY <1>1, <1>2 DEF Tiles, BlockFits, Apart, HEAP_ALIGN

\* g is h with block b cut down to `size' bytes and a free block at r for the rest.
SplitInto(h, b, size, g, r) ==
  /\ HdrType(g)
  /\ r \in Nat /\ b < r /\ r < End(h, b) /\ r \notin DOMAIN h /\ r # h[b].next
  /\ h[b].size >= size + 48
  /\ DOMAIN g = DOMAIN h \cup {r}
  /\ g[r].size = h[b].size - size - 16 /\ g[r].free = TRUE
  /\ g[r].next = h[b].next /\ g[r].prev = b
  /\ g[b].size = size /\ g[b].next = r
  /\ \A x \in DOMAIN h \ {b} : g[x].size = h[x].size /\ g[x].next = h[x].next
  /\ \A x \in DOMAIN h :
       /\ g[x].free = h[x].free
       /\ g[x].prev = IF x = h[b].next THEN r ELSE h[x].prev

\* What split_block writes when it splits, field by field.
LEMMA SplitShape ==
  ASSUME NEW h, NEW lo \in Nat, NEW hi \in Nat, NEW b \in DOMAIN h, NEW size \in Nat,
         lo > 0, HdrType(h), Tiles(h, lo, hi), Splits(h, b, size),
         NEW g, g = split_block(h, b, size), NEW r, r = b + 16 + size
  PROVE  SplitInto(h, b, size, g, r)
<1>1. /\ h[b].size \in Nat /\ h[b].free \in BOOLEAN /\ h[b].next \in Nat
      /\ h[b].prev \in Nat /\ b \in Nat
  BY DEF HdrType, Block
<1>2. h[b].size >= size + 48
  BY <1>1 DEF Splits, HeaderSize, HEAP_MIN_SPLIT
<1>3. r \in Nat /\ r > b /\ r < End(h, b) /\ r # h[b].next /\ h[b].next # b
  BY <1>1, <1>2 DEF Tiles, NextAgrees, BlockFits, End, HeaderSize, NULL
<1>4. r \notin DOMAIN h
  BY <1>1, <1>2, <1>3 DEF Tiles, Apart, End, HeaderSize, HdrType
<1>5. /\ DOMAIN g = DOMAIN h \cup {r}
      /\ g[r] = [size |-> h[b].size - size - 16, free |-> TRUE,
                 next |-> h[b].next, prev |-> b]
      /\ g[b] = [h[b] EXCEPT !.size = size, !.next = r]
      /\ h[b].next \in DOMAIN h => g[h[b].next] = [h[h[b].next] EXCEPT !.prev = r]
      /\ \A x \in DOMAIN h : x # b /\ x # h[b].next => g[x] = h[x]
      /\ g = [x \in DOMAIN g |-> g[x]]
  <2>1. r = b + HeaderSize + size
    BY DEF HeaderSize
  <2>. QED
    BY <1>1, <1>3, <1>4, <2>1, Zenon DEF split_block, HeaderSize
<1>6. /\ g[r].size = h[b].size - size - 16 /\ g[r].free = TRUE
      /\ g[r].next = h[b].next /\ g[r].prev = b
  BY <1>5
<1>7. h[b] \in Block /\ (h[b].next \in DOMAIN h => h[h[b].next] \in Block)
  BY DEF HdrType
<1>8. /\ g[b].size = size /\ g[b].free = h[b].free
      /\ g[b].next = r /\ g[b].prev = h[b].prev
  BY <1>5, <1>7 DEF Block
<1>9. ASSUME h[b].next \in DOMAIN h
      PROVE  LET n == h[b].next
             IN  /\ g[n].size = h[n].size /\ g[n].free = h[n].free
                 /\ g[n].next = h[n].next /\ g[n].prev = r
  BY <1>5, <1>7, <1>9 DEF Block
<1>10. HdrType(g)
  <2>1. g[r] \in Block
    BY <1>1, <1>2, <1>5 DEF Block
  <2>2. g[b] \in Block
    <3>1. [h[b] EXCEPT !.size = size, !.next = r] \in Block
      BY <1>3, <1>7 DEF Block
    <3>. QED
      BY <1>5, <3>1, Zenon
  <2>3. h[b].next \in DOMAIN h => g[h[b].next] \in Block
    <3>1. h[b].next \in DOMAIN h => [h[h[b].next] EXCEPT !.prev = r] \in Block
      BY <1>3, <1>7 DEF Block
    <3>. QED
      BY <1>5, <3>1, Zenon
  <2>4. \A x \in DOMAIN g : g[x] \in Block
    BY <1>5, <2>1, <2>2, <2>3 DEF HdrType
  <2>. QED
    BY <1>3, <1>5, <2>4 DEF HdrType
<1>11. \A x \in DOMAIN h \ {b} : g[x].size = h[x].size /\ g[x].next = h[x].next
  BY <1>5, <1>9
<1>12. \A x \in DOMAIN h : /\ g[x].free = h[x].free
                          /\ g[x].prev = IF x = h[b].next THEN r ELSE h[x].prev
  BY <1>3, <1>5, <1>8, <1>9
<1>. QED
  BY <1>2, <1>3, <1>4, <1>5, <1>6, <1>8, <1>10, <1>11, <1>12 DEF SplitInto

\* Splitting a block that is large enough keeps the list a tiling of lo..hi-1.
LEMMA SplitTiles ==
  ASSUME NEW h, NEW lo \in Nat, NEW hi \in Nat, NEW b \in DOMAIN h, NEW size \in Nat,
         lo > 0, HdrType(h), Tiles(h, lo, hi),
         size > 0, size % 16 = 0, size <= h[b].size,
         NEW g, g = split_block(h, b, size)
  PROVE  HdrType(g) /\ Tiles(g, lo, hi)
<1> DEFINE r == b + 16 + size
<1>1. CASE ~Splits(h, b, size)
  BY <1>1 DEF split_block
<1>2. CASE Splits(h, b, size)
  <2>. HIDE DEF r
  <2>0. r = b + 16 + size
    BY DEF r
  <2>1. SplitInto(h, b, size, g, r)
    BY <1>2, <2>0, SplitShape
  <2>. USE <2>0, <2>1 DEF SplitInto
  <2>2. /\ lo \in DOMAIN h
        /\ \A x \in DOMAIN h :
              /\ x \in Nat /\ h[x].size \in Nat /\ h[x].next \in Nat /\ h[x].prev \in Nat
              /\ End(h, x) = x + 16 + h[x].size /\ End(h, x) \in Nat /\ x < End(h, x)
              /\ lo <= x /\ End(h, x) <= hi /\ x % 16 = 0
              /\ h[x].size % 16 = 0 /\ h[x].size > 0
        /\ \A x, y \in DOMAIN h : x < y => End(h, x) <= y
    BY TiledFields
  <2>3. \A x \in DOMAIN h : NextAgrees(h, hi, x) /\ PrevAgrees(h, lo, x)
    BY DEF Tiles
  <2>4. /\ End(g, r) = End(h, b) /\ End(g, b) = r
        /\ \A x \in DOMAIN h \ {b} : End(g, x) = End(h, x)
    BY <2>1, <2>2 DEF End, HeaderSize
  <2>5. h[b].next \in DOMAIN h => h[h[b].next].prev = b /\ b < h[b].next
    BY <2>2, <2>3 DEF NextAgrees, NULL
  <2>6. \A c, d \in DOMAIN g : Apart(g, c, d)
    <3>. SUFFICES ASSUME NEW c \in DOMAIN g, NEW d \in DOMAIN g, c < d
                  PROVE  End(g, c) <= d
      BY DEF Apart
    <3>1. CASE c = r
      BY <3>1, <2>1, <2>2, <2>4
    <3>2. CASE d = r
      BY <3>2, <2>1, <2>2, <2>4
    <3>3. CASE c # r /\ d # r
      BY <3>3, <2>1, <2>2, <2>4
    <3>. QED
      BY <3>1, <3>2, <3>3
  <2>7. ASSUME NEW c \in DOMAIN g PROVE BlockFits(g, lo, hi, c)
    <3>1. CASE c = r
      <4>1. r % 16 = 0 /\ (h[b].size - size - 16) % 16 = 0
        BY <2>1, <2>2
      <4>. QED
        BY <3>1, <4>1, <2>1, <2>2, <2>4 DEF BlockFits, HEAP_ALIGN
    <3>2. CASE c = b
      BY <3>2, <2>1, <2>2, <2>4 DEF BlockFits, HEAP_ALIGN
    <3>3. CASE c # r /\ c # b
      BY <3>3, <2>1, <2>2, <2>4 DEF BlockFits, HEAP_ALIGN
    <3>. QED
      BY <3>1, <3>2, <3>3
  <2>8. ASSUME NEW c \in DOMAIN g PROVE NextAgrees(g, hi, c)
    <3>1. CASE c = r
      BY <3>1, <2>1, <2>2, <2>3, <2>4 DEF NextAgrees
    <3>2. CASE c = b
      BY <3>2, <2>1, <2>2, <2>4 DEF NextAgrees
    <3>3. CASE c # r /\ c # b
      <4>1. c \in DOMAIN h /\ End(g, c) = End(h, c) /\ g[c].next = h[c].next
        BY <3>3, <2>1, <2>4
      <4>2. CASE End(h, c) = hi
        BY <4>1, <4>2, <2>3 DEF NextAgrees
      <4>3. CASE End(h, c) # hi
        <5>1. /\ h[c].next = End(h, c) /\ h[c].next \in DOMAIN h
              /\ h[h[c].next].prev = c
          BY <4>1, <4>3, <2>3 DEF NextAgrees
        <5>2. h[c].next # h[b].next
          BY <5>1, <2>5, <3>3
        <5>. QED
          BY <4>1, <4>3, <5>1, <5>2, <2>1 DEF NextAgrees
      <4>. QED
        BY <4>2, <4>3
    <3>. QED
      BY <3>1, <3>2, <3>3
  <2>9. ASSUME NEW c \in DOMAIN g PROVE PrevAgrees(g, lo, c)
    <3>1. CASE c = r
      <4>1. c # lo
        BY <3>1, <2>1, <2>2
      <4>2. g[c].prev = b /\ b \in DOMAIN g /\ g[b].next = c
        BY <3>1, <2>1
      <4>. QED
        BY <4>1, <4>2 DEF PrevAgrees
    <3>2. CASE c # r
      <4>1. c \in DOMAIN h
        BY <3>2, <2>1
      <4>2. CASE c = lo
        <5>1. c # h[b].next
          BY <4>1, <4>2, <2>2, <2>5
        <5>. QED
          BY <4>1, <4>2, <5>1, <2>1, <2>3 DEF PrevAgrees
      <4>3. CASE c # lo /\ c = h[b].next
        BY <4>1, <4>3, <2>1 DEF PrevAgrees
      <4>4. CASE c # lo /\ c # h[b].next
        <5>1. h[c].prev \in DOMAIN h /\ h[h[c].prev].next = c
          BY <4>1, <4>4, <2>3 DEF PrevAgrees
        <5>2. h[c].prev # b
          BY <4>4, <5>1
        <5>. QED
          BY <4>1, <4>4, <5>1, <5>2, <2>1 DEF PrevAgrees
      <4>. QED
        BY <4>2, <4>3, <4>4
    <3>. QED
      BY <3>1, <3>2
  <2>10. Tiles(g, lo, hi)
    BY <2>1, <2>2, <2>6, <2>7, <2>8, <2>9 DEF Tiles
  <2>. QED
    BY <2>1, <2>10
<1>. QED
  BY <1>1, <1>2

\* g is h with the block n behind b made part of b.
MergedInto(h, b, n, g) ==
  /\ HdrType(g)
  /\ n \in DOMAIN h /\ n = End(h, b) /\ b < n /\ h[n].next # n /\ h[n].next # b
  /\ DOMAIN g = DOMAIN h \ {n}
  /\ g[b].size = h[b].size + 16 + h[n].size /\ g[b].next = h[n].next
  /\ \A x \in DOMAIN g \ {b} : g[x].size = h[x].size /\ g[x].next = h[x].next
  /\ \A x \in DOMAIN g :
       /\ g[x].free = h[x].free
       /\ g[x].prev = IF x = h[n].next THEN b ELSE h[x].prev

\* What merge_with_next writes when it merges, field by field.
LEMMA MergeShape ==
  ASSUME NEW h, NEW lo \in Nat, NEW hi \in Nat, NEW b \in DOMAIN h,
         lo > 0, HdrType(h), Tiles(h, lo, hi),
         NEW n, n = h[b].next, n # NULL, h[n].free,
         NEW g, g = merge_with_next(h, b)
  PROVE  MergedInto(h, b, n, g)
<1>1. /\ \A x \in DOMAIN h : h[x] \in Block
      /\ h[b].size \in Nat /\ h[b].free \in BOOLEAN /\ h[b].next \in Nat
      /\ h[b].prev \in Nat /\ b \in Nat
  BY DEF HdrType, Block
<1>2. n \in DOMAIN h /\ n = End(h, b) /\ b < n
  BY <1>1 DEF Tiles, NextAgrees, End, HeaderSize
<1>3. h[n].size \in Nat /\ h[n].next \in Nat /\ n \in Nat
  BY <1>1, <1>2 DEF HdrType, Block
<1>4. h[n].next # n /\ h[n].next # b
  <2>1. NextAgrees(h, hi, n) /\ n < End(h, n) /\ lo <= b
    BY <1>2, TiledFields
  <2>. QED
    BY <1>1, <1>2, <1>3, <2>1 DEF NextAgrees, NULL
<1>5. /\ DOMAIN g = DOMAIN h \ {n}
      /\ g[b] = [h[b] EXCEPT !.size = h[b].size + 16 + h[n].size, !.next = h[n].next]
      /\ h[n].next \in DOMAIN h => g[h[n].next] = [h[h[n].next] EXCEPT !.prev = b]
      /\ \A x \in DOMAIN g : x # b /\ x # h[n].next => g[x] = h[x]
      /\ g = [x \in DOMAIN g |-> g[x]]
  BY <1>1, <1>2, <1>4, Zenon DEF merge_with_next, HeaderSize
<1>6. /\ g[b].size = h[b].size + 16 + h[n].size /\ g[b].next = h[n].next
      /\ g[b].free = h[b].free /\ g[b].prev = h[b].prev
  BY <1>1, <1>5 DEF Block
<1>7. ASSUME h[n].next \in DOMAIN h
      PROVE  LET m == h[n].next
             IN  /\ g[m].size = h[m].size /\ g[m].free = h[m].free
                 /\ g[m].next = h[m].next /\ g[m].prev = b
  BY <1>1, <1>5, <1>7 DEF Block
<1>8. HdrType(g)
  <2>1. g[b] \in Block
    <3>1. h[b].size + 16 + h[n].size \in Nat
      BY <1>1, <1>3
    <3>2. [h[b] EXCEPT !.size = h[b].size + 16 + h[n].size, !.next = h[n].next] \in Block
      BY <1>1, <1>3, <3>1 DEF Block
    <3>. QED
      BY <1>5, <3>2, Zenon
  <2>2. h[n].next \in DOMAIN h => g[h[n].next] \in Block
    <3>1. h[n].next \in DOMAIN h => [h[h[n].next] EXCEPT !.prev = b] \in Block
      BY <1>1 DEF Block
    <3>. QED
      BY <1>5, <3>1, Zenon
  <2>3. \A x \in DOMAIN g : g[x] \in Block
    BY <1>1, <1>5, <2>1, <2>2
  <2>. QED
    BY <1>5, <2>3 DEF HdrType
<1>9. \A x \in DOMAIN g \ {b} : g[x].size = h[x].size /\ g[x].next = h[x].next
  BY <1>5, <1>7
<1>10. \A x \in DOMAIN g : /\ g[x].free = h[x].free
                          /\ g[x].prev = IF x = h[n].next THEN b ELSE h[x].prev
  BY <1>4, <1>5, <1>6, <1>7
<1>. QED
  BY <1>2, <1>4, <1>5, <1>6, <1>8, <1>9, <1>10 DEF MergedInto

\* Merging keeps the list a tiling of lo..hi-1.
LEMMA MergeTiles ==
  ASSUME NEW h, NEW lo \in Nat, NEW hi \in Nat, NEW b \in DOMAIN h,
         lo > 0, HdrType(h), Tiles(h, lo, hi),
         NEW g, g = merge_with_next(h, b)
  PROVE  HdrType(g) /\ Tiles(g, lo, hi) /\ b \in DOMAIN g
<1> DEFINE n == h[b].next
<1>1. CASE n = NULL \/ ~h[n].free
  BY <1>1 DEF merge_with_next
<1>2. CASE n # NULL /\ h[n].free
  <2>. HIDE DEF n
  <2>0. n = h[b].next
    BY DEF n
  <2>1. MergedInto(h, b, n, g)
    BY <1>2, <2>0, MergeShape
  <2>. USE <2>0, <2>1 DEF MergedInto
  <2>2. /\ lo \in DOMAIN h
        /\ \A x \in DOMAIN h :
              /\ x \in Nat /\ h[x].size \in Nat /\ h[x].next \in Nat /\ h[x].prev \in Nat
              /\ End(h, x) = x + 16 + h[x].size /\ End(h, x) \in Nat /\ x < End(h, x)
              /\ lo <= x /\ End(h, x) <= hi /\ x % 16 = 0
              /\ h[x].size % 16 = 0 /\ h[x].size > 0
        /\ \A x, y \in DOMAIN h : x < y => End(h, x) <= y
    BY TiledFields
  <2>3. \A x \in DOMAIN h : NextAgrees(h, hi, x) /\ PrevAgrees(h, lo, x)
    BY DEF Tiles
  <2>4. /\ End(g, b) = End(h, n)
        /\ \A x \in DOMAIN g \ {b} : End(g, x) = End(h, x)
    BY <2>1, <2>2 DEF End, HeaderSize
  <2>5. \A c, d \in DOMAIN g : Apart(g, c, d)
    BY <2>1, <2>2, <2>4 DEF Apart
  <2>6. ASSUME NEW c \in DOMAIN g PROVE BlockFits(g, lo, hi, c)
    <3>1. CASE c = b
      <4>1. g[b].size % 16 = 0
        BY <2>1, <2>2
      <4>. QED
        BY <3>1, <4>1, <2>1, <2>2, <2>4 DEF BlockFits, HEAP_ALIGN
    <3>2. CASE c # b
      BY <3>2, <2>1, <2>2, <2>4 DEF BlockFits, HEAP_ALIGN
    <3>. QED
      BY <3>1, <3>2
  <2>7. ASSUME NEW c \in DOMAIN g PROVE NextAgrees(g, hi, c)
    <3>1. CASE c = b
      BY <3>1, <2>1, <2>2, <2>3, <2>4 DEF NextAgrees
    <3>2. CASE c # b
      <4>1. c \in DOMAIN h /\ End(g, c) = End(h, c) /\ g[c].next = h[c].next /\ c # n
        BY <3>2, <2>1, <2>4
      <4>2. CASE End(h, c) = hi
        BY <4>1, <4>2, <2>3 DEF NextAgrees
      <4>3. CASE End(h, c) # hi
        <5>1. /\ h[c].next = End(h, c) /\ h[c].next \in DOMAIN h
              /\ h[h[c].next].prev = c
          BY <4>1, <4>3, <2>3 DEF NextAgrees
        <5>2. h[c].next # n
          BY <5>1, <3>2, <1>2, <2>0, <2>1, <2>2, <2>3 DEF NextAgrees
        <5>3. h[c].next # h[n].next
          BY <5>1, <4>1, <2>1, <2>2, <2>3 DEF NextAgrees, NULL
        <5>. QED
          BY <4>1, <4>3, <5>1, <5>2, <5>3, <2>1 DEF NextAgrees
      <4>. QED
        BY <4>2, <4>3
    <3>. QED
      BY <3>1, <3>2
  <2>8. ASSUME NEW c \in DOMAIN g PROVE PrevAgrees(g, lo, c)
    <3>1. c \in DOMAIN h /\ c # n
      BY <2>1
    <3>2. CASE c = lo
      <4>1. c # h[n].next
        BY <3>1, <3>2, <2>1, <2>2, <2>3 DEF NextAgrees, NULL
      <4>. QED
        BY <3>1, <3>2, <4>1, <2>1, <2>3 DEF PrevAgrees
    <3>3. CASE c # lo /\ c = h[n].next
      BY <3>1, <3>3, <2>1 DEF PrevAgrees
    <3>4. CASE c # lo /\ c # h[n].next
      <4>1. h[c].prev \in DOMAIN h /\ h[h[c].prev].next = c
        BY <3>1, <3>4, <2>3 DEF PrevAgrees
      <4>2. h[c].prev # b /\ h[c].prev # n
        BY <3>1, <3>4, <4>1, <2>0
      <4>. QED
        BY <3>1, <3>4, <4>1, <4>2, <2>1 DEF PrevAgrees
    <3>. QED
      BY <3>2, <3>3, <3>4
  <2>9. lo \in DOMAIN g /\ b \in DOMAIN g
    BY <2>1, <2>2
  <2>10. Tiles(g, lo, hi)
    BY <2>5, <2>6, <2>7, <2>8, <2>9 DEF Tiles
  <2>. QED
    BY <2>1, <2>9, <2>10
<1>. QED
  BY <1>1, <1>2

\* g is h with the free flag of block b set to v.
FlagSet(h, b, v, g) ==
  /\ DOMAIN g = DOMAIN h
  /\ \A x \in DOMAIN h :
       /\ g[x].size = h[x].size /\ g[x].next = h[x].next /\ g[x].prev = h[x].prev
       /\ g[x].free = IF x = b THEN v ELSE h[x].free

\* Flipping the free flag of one block changes nothing else.
LEMMA FlagShape ==
  ASSUME NEW h, NEW lo \in Nat, NEW hi \in Nat, NEW b \in DOMAIN h, NEW v \in BOOLEAN,
         HdrType(h), Tiles(h, lo, hi),
         NEW g, g = [h EXCEPT ![b].free = v]
  PROVE  HdrType(g) /\ Tiles(g, lo, hi) /\ FlagSet(h, b, v, g)
<1>1. h[b] \in Block
  BY DEF HdrType
<1>2. /\ DOMAIN g = DOMAIN h
      /\ g[b] = [h[b] EXCEPT !.free = v]
      /\ \A x \in DOMAIN h : x # b => g[x] = h[x]
      /\ g = [x \in DOMAIN g |-> g[x]]
  BY Zenon
<1>3. [h[b] EXCEPT !.free = v] \in Block
  BY <1>1 DEF Block
<1>4. HdrType(g)
  <2>1. \A x \in DOMAIN g : g[x] \in Block
    BY <1>2, <1>3 DEF HdrType
  <2>. QED
    BY <1>2, <2>1 DEF HdrType
<1>5. /\ g[b].size = h[b].size /\ g[b].next = h[b].next /\ g[b].prev = h[b].prev
      /\ g[b].free = v
  BY <1>1, <1>2 DEF Block
<1>6. \A x \in DOMAIN h :
        /\ g[x].size = h[x].size /\ g[x].next = h[x].next /\ g[x].prev = h[x].prev
        /\ g[x].free = IF x = b THEN v ELSE h[x].free
  BY <1>2, <1>5
<1>7. \A x \in DOMAIN h : End(g, x) = End(h, x)
  BY <1>6 DEF End
<1>8. Tiles(g, lo, hi)
  <2>1. \A x \in DOMAIN h :
          BlockFits(g, lo, hi, x) /\ NextAgrees(g, hi, x) /\ PrevAgrees(g, lo, x)
    <3>. TAKE x \in DOMAIN h
    <3>1. BlockFits(h, lo, hi, x) /\ NextAgrees(h, hi, x) /\ PrevAgrees(h, lo, x)
      BY DEF Tiles
    <3>2. BlockFits(g, lo, hi, x)
      BY <1>6, <1>7, <3>1 DEF BlockFits
    <3>3. NextAgrees(g, hi, x)
      <4>1. End(g, x) = End(h, x) /\ g[x].next = h[x].next
        BY <1>6, <1>7
      <4>2. h[x].next \in DOMAIN h => g[h[x].next].prev = h[h[x].next].prev
        BY <1>6
      <4>. QED
        BY <1>2, <3>1, <4>1, <4>2 DEF NextAgrees
    <3>4. PrevAgrees(g, lo, x)
      BY <1>2, <1>6, <3>1 DEF PrevAgrees
    <3>. QED
      BY <3>2, <3>3, <3>4
  <2>2. \A x, y \in DOMAIN h : Apart(g, x, y)
    BY <1>7 DEF Tiles, Apart
  <2>. QED
    BY <1>2, <2>1, <2>2 DEF Tiles
<1>. QED
  BY <1>2, <1>4, <1>6, <1>8 DEF FlagSet

\* The heap after kmalloc: still a coalesced tiling, and b is used in addition.
LEMMA TakenShape ==
  ASSUME NEW h, NEW lo \in Nat, NEW hi \in Nat, NEW b \in DOMAIN h, NEW size \in Nat,
         lo > 0, HdrType(h), Tiles(h, lo, hi), h[b].free,
         size > 0, size % 16 = 0, size <= h[b].size,
         NEW g, g = Taken(h, b, size)
  PROVE  /\ HdrType(g) /\ Tiles(g, lo, hi)
         /\ Used(g) = Used(h) \cup {b}
         /\ \A x \in Used(h) : x \in DOMAIN g /\ g[x].size = h[x].size
         /\ b \in DOMAIN g /\ g[b].size >= size
         /\ (\A x \in DOMAIN h : NoFreePair(h, x)) => \A x \in DOMAIN g : NoFreePair(g, x)
<1> DEFINE k == split_block(h, b, size)
<1>1. g = [k EXCEPT ![b].free = FALSE]
  BY DEF Taken
<1>0. /\ b \in Nat /\ h[b].size \in Nat
      /\ \A x \in DOMAIN h : h[x].free \in BOOLEAN
  BY DEF HdrType, Block
<1>. HIDE DEF k
<1>2. HdrType(k) /\ Tiles(k, lo, hi)
  BY SplitTiles DEF k
<1>3. CASE ~Splits(h, b, size)
  <2>1. k = h
    BY <1>3 DEF k, split_block
  <2>2. HdrType(g) /\ Tiles(g, lo, hi) /\ FlagSet(h, b, FALSE, g)
    BY <1>1, <2>1, FlagShape
  <2>. USE DEF FlagSet
  <2>3. \A x \in DOMAIN h : h[x].next # NULL => h[x].next \in DOMAIN h
    BY DEF Tiles, NextAgrees
  <2>4. Used(g) = Used(h) \cup {b}
    BY <2>2, <1>0 DEF Used
  <2>5. ASSUME \A x \in DOMAIN h : NoFreePair(h, x), NEW x \in DOMAIN g
        PROVE  NoFreePair(g, x)
    <3>1. NoFreePair(h, x) /\ (h[x].next # NULL => h[x].next \in DOMAIN h)
      BY <2>2, <2>3, <2>5
    <3>. QED
      BY <2>2, <3>1 DEF NoFreePair
  <2>6. /\ \A x \in Used(h) : x \in DOMAIN g /\ g[x].size = h[x].size
        /\ b \in DOMAIN g /\ g[b].size >= size
    BY <2>2, <1>0 DEF Used
  <2>. QED
    BY <2>2, <2>4, <2>5, <2>6
<1>4. CASE Splits(h, b, size)
  <2>. DEFINE r == b + 16 + size
  <2>1. SplitInto(h, b, size, k, r)
    BY <1>4, SplitShape DEF k
  <2>. HIDE DEF r
  <2>0. b \in DOMAIN k /\ r # b
    BY <2>1, <1>0 DEF SplitInto
  <2>2. HdrType(g) /\ Tiles(g, lo, hi) /\ FlagSet(k, b, FALSE, g)
    BY <1>1, <1>2, <2>0, FlagShape
  <2>3. \A x \in DOMAIN h : h[x].next # NULL => h[x].next \in DOMAIN h
    BY DEF Tiles, NextAgrees
  <2>4. /\ r \notin DOMAIN h /\ DOMAIN g = DOMAIN h \cup {r}
        /\ g[r].free = TRUE /\ g[r].next = h[b].next
        /\ g[b].size = size /\ g[b].next = r /\ g[b].free = FALSE
        /\ \A x \in DOMAIN h \ {b} :
             g[x].size = h[x].size /\ g[x].next = h[x].next /\ g[x].free = h[x].free
    <3>1. /\ r \notin DOMAIN h /\ DOMAIN k = DOMAIN h \cup {r} /\ k[r].free = TRUE
          /\ k[r].next = h[b].next /\ k[b].size = size /\ k[b].next = r
          /\ \A x \in DOMAIN h \ {b} :
               k[x].size = h[x].size /\ k[x].next = h[x].next
          /\ \A x \in DOMAIN h : k[x].free = h[x].free
      BY <2>1 DEF SplitInto
    <3>2. /\ g[r].free = TRUE /\ g[r].next = h[b].next
          /\ g[b].size = size /\ g[b].next = r /\ g[b].free = FALSE
      BY <2>0, <2>2, <3>1 DEF FlagSet
    <3>3. ASSUME NEW x \in DOMAIN h \ {b}
          PROVE  g[x].size = h[x].size /\ g[x].next = h[x].next /\ g[x].free = h[x].free
      BY <2>0, <2>2, <3>1, ZenonT(30) DEF FlagSet
    <3>. QED
      BY <2>2, <3>1, <3>2, <3>3 DEF FlagSet
  <2>5. Used(g) = Used(h) \cup {b}
    BY <2>4, <1>0 DEF Used
  <2>6. ASSUME \A x \in DOMAIN h : NoFreePair(h, x), NEW x \in DOMAIN g
        PROVE  NoFreePair(g, x)
    <3>1. CASE x = r
      <4>1. h[b].next # NULL => h[b].next \in DOMAIN h /\ ~h[h[b].next].free
        BY <2>3, <2>6 DEF NoFreePair
      <4>. QED
        BY <2>4, <3>1, <4>1 DEF NoFreePair
    <3>2. CASE x = b
      BY <2>4, <3>2 DEF NoFreePair
    <3>3. CASE x # r /\ x # b
      <4>1. /\ x \in DOMAIN h /\ NoFreePair(h, x)
            /\ h[x].next # NULL => h[x].next \in DOMAIN h
        BY <2>3, <2>4, <2>6, <3>3
      <4>. QED
        BY <2>4, <3>3, <4>1 DEF NoFreePair
    <3>. QED
      BY <3>1, <3>2, <3>3
  <2>7. /\ \A x \in Used(h) : x \in DOMAIN g /\ g[x].size = h[x].size
        /\ b \in DOMAIN g /\ g[b].size >= size
    BY <2>4 DEF Used
  <2>. QED
    BY <2>2, <2>5, <2>6, <2>7
<1>. QED
  BY <1>3, <1>4

\* Merging behind a free block keeps the used blocks, and leaves a free pair only in front
\* of b, where h had it already.
LEMMA MergeFrees ==
  ASSUME NEW h, NEW lo \in Nat, NEW hi \in Nat, NEW b \in DOMAIN h,
         lo > 0, HdrType(h), Tiles(h, lo, hi), h[b].free,
         NEW g, g = merge_with_next(h, b)
  PROVE  /\ Used(g) = Used(h)
         /\ \A x \in Used(h) : g[x].size = h[x].size
         /\ (\A x \in DOMAIN h \ {b} : NoFreePair(h, x) \/ h[x].next = b)
            => \A x \in DOMAIN g :
                 \/ NoFreePair(g, x)
                 \/ x # b /\ h[x].next = b /\ ~NoFreePair(h, x)
<1> DEFINE n == h[b].next
<1>1. CASE n = NULL \/ ~h[n].free
  BY <1>1 DEF merge_with_next, NoFreePair
<1>2. CASE n # NULL /\ h[n].free
  <2>. HIDE DEF n
  <2>0. n = h[b].next
    BY DEF n
  <2>1. MergedInto(h, b, n, g)
    BY <1>2, <2>0, MergeShape
  <2>2. /\ n \in DOMAIN h /\ n # b /\ h[n].next # n /\ h[n].next # b
        /\ DOMAIN g = DOMAIN h \ {n}
        /\ g[b].next = h[n].next
        /\ \A x \in DOMAIN g \ {b} : g[x].size = h[x].size /\ g[x].next = h[x].next
        /\ \A x \in DOMAIN g : g[x].free = h[x].free
    <3>1. b \in Nat /\ n \in Nat
      BY <2>1 DEF MergedInto, HdrType
    <3>. QED
      BY <2>1, <3>1 DEF MergedInto
  <2>3. Used(g) = Used(h)
    BY <1>2, <2>2 DEF Used
  <2>4. \A x \in Used(h) : g[x].size = h[x].size
    BY <1>2, <2>2 DEF Used
  <2>5. ASSUME \A x \in DOMAIN h \ {b} : NoFreePair(h, x) \/ h[x].next = b,
               NEW x \in DOMAIN g, ~(x # b /\ h[x].next = b /\ ~NoFreePair(h, x))
        PROVE  NoFreePair(g, x)
    <3>0. \A y \in DOMAIN h : h[y].next # NULL => h[y].next \in DOMAIN h
      BY DEF Tiles, NextAgrees
    <3>1. CASE x = b
      <4>1. NoFreePair(h, n)
        BY <2>2, <2>5
      <4>. QED
        BY <1>2, <2>2, <3>0, <3>1, <4>1 DEF NoFreePair
    <3>2. CASE x # b
      <4>1. x \in DOMAIN h /\ NoFreePair(h, x)
        BY <2>2, <2>5, <3>2
      <4>2. g[x].next = h[x].next /\ g[x].free = h[x].free
        BY <2>2, <3>2
      <4>. QED
        BY <1>2, <2>2, <3>0, <4>1, <4>2 DEF NoFreePair
    <3>. QED
      BY <3>1, <3>2
  <2>. QED
    BY <2>3, <2>4, <2>5
<1>. QED
  BY <1>1, <1>2

\* The heap after kfree: still a tiling, b is the only block that stopped being used, and
\* a coalesced heap stays coalesced.
LEMMA ReleasedShape ==
  ASSUME NEW h, NEW lo \in Nat, NEW hi \in Nat, NEW b \in DOMAIN h,
         lo > 0, HdrType(h), Tiles(h, lo, hi),
         NEW g, g = Released(h, b)
  PROVE  /\ HdrType(g) /\ Tiles(g, lo, hi)
         /\ Used(g) = Used(h) \ {b}
         /\ \A x \in Used(h) \ {b} : x \in DOMAIN g /\ g[x].size = h[x].size
         /\ (\A x \in DOMAIN h : NoFreePair(h, x)) => \A x \in DOMAIN g : NoFreePair(g, x)
<1> DEFINE h0 == [h EXCEPT ![b].free = TRUE]
           h1 == merge_with_next(h0, b)
           p  == h1[b].prev
<1>1. HdrType(h0) /\ Tiles(h0, lo, hi) /\ FlagSet(h, b, TRUE, h0)
  BY FlagShape
<1>2. /\ b \in DOMAIN h0 /\ h0[b].free
      /\ Used(h0) = Used(h) \ {b}
      /\ \A x \in Used(h0) : h0[x].size = h[x].size
  <2>. HIDE DEF h0
  <2>. QED
    BY <1>1 DEF FlagSet, Used
<1>3. /\ HdrType(h1) /\ Tiles(h1, lo, hi) /\ b \in DOMAIN h1
      /\ Used(h1) = Used(h0)
      /\ \A x \in Used(h0) : h1[x].size = h0[x].size
  <2>. HIDE DEF h0
  <2>1. HdrType(h1) /\ Tiles(h1, lo, hi) /\ b \in DOMAIN h1
    BY <1>1, <1>2, MergeTiles
  <2>. QED
    BY <1>1, <1>2, <2>1, MergeFrees
<1>4. ASSUME \A x \in DOMAIN h : NoFreePair(h, x), NEW x \in DOMAIN h1
      PROVE  NoFreePair(h1, x) \/ h1[x].next = b
  <2>. HIDE DEF h0
  <2>1. \A y \in DOMAIN h0 \ {b} : NoFreePair(h0, y) \/ h0[y].next = b
    <3>. SUFFICES ASSUME NEW y \in DOMAIN h0 \ {b}, h0[y].next # b
                  PROVE  NoFreePair(h0, y)
      OBVIOUS
    <3>1. y \in DOMAIN h /\ NoFreePair(h, y) /\ h0[y].next = h[y].next /\ h0[y].free = h[y].free
      BY <1>1, <1>4 DEF FlagSet
    <3>2. h[y].next # NULL => h[y].next \in DOMAIN h
      BY <3>1 DEF Tiles, NextAgrees
    <3>. QED
      BY <1>1, <3>1, <3>2 DEF FlagSet, NoFreePair
  <2>2. \/ NoFreePair(h1, x)
        \/ x # b /\ h0[x].next = b /\ ~NoFreePair(h0, x)
    BY <1>1, <1>2, <2>1, MergeFrees
  <2>3. CASE NoFreePair(h1, x)
    BY <2>3
  <2>4. CASE x # b /\ h0[x].next = b
    <3>1. CASE h0[b].next = NULL \/ ~h0[h0[b].next].free
      BY <2>4, <3>1 DEF merge_with_next
    <3>2. CASE h0[b].next # NULL /\ h0[h0[b].next].free
      <4>1. MergedInto(h0, b, h0[b].next, h1)
        BY <1>1, <1>2, <3>2, MergeShape
      <4>. QED
        BY <2>4, <4>1 DEF MergedInto
    <3>. QED
      BY <3>1, <3>2
  <2>. QED
    BY <2>2, <2>3, <2>4
<1>. HIDE DEF h0, h1, p
<1>5. p = h1[b].prev
  BY DEF p
<1>6. /\ g = IF p = NULL THEN h1 ELSE IF h1[p].free THEN merge_with_next(h1, p) ELSE h1
  BY DEF p, h1, h0, Released
<1>7. ASSUME NEW x \in DOMAIN h1, h1[x].next = b
      PROVE  x = p /\ p # NULL
  <2>1. b \in Nat /\ x \in Nat /\ lo <= b /\ lo <= x /\ NextAgrees(h1, hi, x)
    BY <1>3, TiledFields
  <2>. QED
    BY <1>5, <1>7, <2>1 DEF NextAgrees, NULL
<1>8. CASE p = NULL \/ ~h1[p].free
  <2>1. g = h1
    BY <1>6, <1>8
  <2>2. ASSUME \A x \in DOMAIN h : NoFreePair(h, x), NEW x \in DOMAIN h1
        PROVE  NoFreePair(h1, x)
    BY <1>4, <1>7, <1>8, <2>2 DEF NoFreePair
  <2>. QED
    BY <1>2, <1>3, <2>1, <2>2 DEF Used
<1>9. CASE p # NULL /\ h1[p].free
  <2>1. g = merge_with_next(h1, p)
    BY <1>6, <1>9
  <2>2. p \in DOMAIN h1 /\ h1[p].next = b
    BY <1>3, <1>5, <1>9 DEF Tiles, PrevAgrees
  <2>3. HdrType(g) /\ Tiles(g, lo, hi)
    BY <1>3, <2>1, <2>2, MergeTiles
  <2>4. /\ Used(g) = Used(h1)
        /\ \A x \in Used(h1) : g[x].size = h1[x].size
    BY <1>3, <1>9, <2>1, <2>2, MergeFrees
  <2>5. ASSUME \A x \in DOMAIN h : NoFreePair(h, x), NEW x \in DOMAIN g
        PROVE  NoFreePair(g, x)
    <3>1. \A y \in DOMAIN h1 \ {p} : NoFreePair(h1, y)
      BY <1>4, <1>7, <2>5
    <3>2. \/ NoFreePair(g, x)
          \/ x # p /\ h1[x].next = p /\ ~NoFreePair(h1, x)
      BY <1>3, <1>9, <2>1, <2>2, <2>5, <3>1, MergeFrees
    <3>3. DOMAIN g \subseteq DOMAIN h1
      BY <2>1 DEF merge_with_next
    <3>. QED
      BY <3>1, <3>2, <3>3
  <2>. QED
    BY <1>2, <1>3, <2>3, <2>4, <2>5 DEF Used
<1>. QED
  BY <1>8, <1>9

----------------------------------------------------------------------------
\* Rounding a request up, when that does not wrap, gives a multiple of 16 no smaller.
LEMMA AlignUp ==
  ASSUME NEW n \in Nat, n > 0, n <= WordSize - 16
  PROVE  align_up(n) \in Nat /\ align_up(n) >= n /\ align_up(n) % 16 = 0
<1>1. WordSize \in Nat
  BY WordSizeAssumption
<1>2. Wrap(n + 16 - 1) = n + 15
  BY <1>1 DEF Wrap
<1>. QED
  BY <1>2 DEF align_up, align_down, HEAP_ALIGN

LEMMA HeapStartPositive == HeapStart \in Nat /\ HeapStart > 0 /\ HeapStart % 16 = 0
<1>1. KernelEnd \in Nat /\ KernelEnd > 0 /\ KernelEnd <= WordSize - 16
  BY HeapAssumption, WordSizeAssumption DEF HEAP_ALIGN
<1>. QED
  BY <1>1, AlignUp DEF HeapStart

\* The inductive invariant.  Coalesced needs the tiling (the predecessor of a freed block
\* must be the one its prev link names), and the tiling needs that kfree only ever sees
\* pointers to used blocks.
HeapInv ==
  /\ TypeOK
  /\ HeapTiled
  /\ ~booted => ~heap_ready
  /\ ~heap_ready => DOMAIN hdr = {}
  /\ HeldAreUsed
  /\ Coalesced
  /\ IsFiniteSet(DOMAIN held)
  /\ CountIsExact

LEMMA InitInv == Init => HeapInv
<1>. SUFFICES ASSUME Init PROVE HeapInv
  OBVIOUS
<1>1. DOMAIN hdr = {} /\ DOMAIN held = {}
  BY DEF Init, NoBlocks
<1>2. TypeOK
  BY <1>1 DEF Init, TypeOK, NULL, NoBlocks
<1>3. HeapTiled /\ HeldAreUsed /\ Coalesced
  BY <1>1 DEF Init, HeapTiled, HeldAreUsed, Coalesced, Used
<1>4. IsFiniteSet(DOMAIN held) /\ CountIsExact
  BY <1>1, FS_EmptySet DEF Init, CountIsExact
<1>. QED
  BY <1>1, <1>2, <1>3, <1>4 DEF HeapInv, Init

\* memory_init opens a heap of one free block, or none.
LEMMA InitStepInv ==
  ASSUME HeapInv, NEW total \in ReportedTotals, memory_init(total)
  PROVE  HeapInv'
<1>. USE DEF HeapInv
<1>1. CASE HeapEnd(total) <= HeapStart + HeaderSize
  BY <1>1 DEF memory_init, TypeOK, HeapTiled, HeldAreUsed, Coalesced, CountIsExact, Used, NoFreePair
<1>2. CASE ~(HeapEnd(total) <= HeapStart + HeaderSize)
  <2>. DEFINE size == HeapEnd(total) - HeapStart - 16
  <2>1. /\ heap_end_addr' = HeapEnd(total) /\ heap_head' = HeapStart /\ heap_ready' = TRUE
        /\ hdr' = [b \in {HeapStart} |->
                     [size |-> size, free |-> TRUE, next |-> NULL, prev |-> NULL]]
        /\ allocation_count' = allocation_count /\ held' = held /\ booted' = TRUE
    BY <1>2 DEF memory_init, HeaderSize
  <2>2. HeapEnd(total) \in Nat /\ HeapEnd(total) % 16 = 0
    <3>. DEFINE t == IF total = 0 THEN DefaultTotal ELSE total
    <3>1. t \in Nat /\ TopGuard \in Nat /\ TopGuard % 16 = 0
      BY HeapAssumption, WordSizeAssumption DEF HEAP_ALIGN
    <3>. HIDE DEF t
    <3>2. align_down(t) \in Nat /\ align_down(t) % 16 = 0
      BY <3>1 DEF align_down, HEAP_ALIGN
    <3>3. HeapEnd(total) = IF align_down(t) > TopGuard THEN align_down(t) - TopGuard
                           ELSE align_down(t)
      BY DEF HeapEnd, t
    <3>. QED
      BY <3>1, <3>2, <3>3
  <2>3. size \in Nat /\ size > 0 /\ size % 16 = 0
    BY <1>2, <2>2, HeapStartPositive DEF HeaderSize
  <2>. HIDE DEF size
  <2>4. /\ DOMAIN hdr' = {HeapStart} /\ hdr'[HeapStart].size = size
        /\ hdr'[HeapStart].free = TRUE
        /\ hdr'[HeapStart].next = NULL /\ hdr'[HeapStart].prev = NULL
        /\ hdr' \in [DOMAIN hdr' -> Block]
    BY <2>1, <2>3 DEF Block, NULL
  <2>5. DOMAIN held = {} /\ heap_head \in Nat
    BY DEF memory_init, HeldAreUsed, Used, TypeOK
  <2>6. TypeOK'
    BY <2>1, <2>2, <2>4, HeapStartPositive DEF TypeOK
  <2>7. Tiles(hdr', HeapStart, HeapEnd(total))
    <3>1. End(hdr', HeapStart) = HeapEnd(total)
      BY <2>2, <2>4, HeapStartPositive DEF End, HeaderSize, size
    <3>2. /\ BlockFits(hdr', HeapStart, HeapEnd(total), HeapStart)
          /\ NextAgrees(hdr', HeapEnd(total), HeapStart)
          /\ PrevAgrees(hdr', HeapStart, HeapStart)
      BY <2>2, <2>3, <2>4, <3>1, HeapStartPositive
         DEF BlockFits, NextAgrees, PrevAgrees, HEAP_ALIGN
    <3>3. Apart(hdr', HeapStart, HeapStart)
      BY HeapStartPositive DEF Apart
    <3>. QED
      BY <2>4, <3>2, <3>3 DEF Tiles
  <2>8. HeapTiled'
    BY <2>1, <2>7 DEF HeapTiled
  <2>9. HeldAreUsed'
    BY <2>1, <2>4, <2>5 DEF HeldAreUsed, Used
  <2>10. Coalesced'
    BY <2>4 DEF Coalesced, NoFreePair
  <2>. QED
    BY <2>1, <2>6, <2>8, <2>9, <2>10 DEF CountIsExact
<1>. QED
  BY <1>1, <1>2

\* kmalloc takes a free block that fits.
LEMMA KmallocInv ==
  ASSUME HeapInv, NEW n \in Requests, n # 0, heap_ready, KmallocSucceeds(n)
  PROVE  HeapInv'
<1>. USE DEF HeapInv
<1>1. n \in Nat /\ n > 0 /\ n <= WordSize - 16
  BY HeapAssumption, WordSizeAssumption DEF HEAP_ALIGN
<1>. DEFINE sz == align_up(n)
<1>2. sz \in Nat /\ sz >= n /\ sz % 16 = 0
  BY <1>1, AlignUp
<1>3. PICK b \in DOMAIN hdr :
        /\ hdr[b].free /\ hdr[b].size >= sz
        /\ hdr' = Taken(hdr, b, sz)
        /\ allocation_count' = allocation_count + 1
        /\ held' = [p \in DOMAIN held \cup {b + HeaderSize} |->
                      IF p = b + HeaderSize THEN n ELSE held[p]]
        /\ UNCHANGED <<heap_ready, heap_head, heap_end_addr, booted>>
  BY DEF KmallocSucceeds, FirstFit, Fits
<1>. HIDE DEF sz
<1>4. /\ HdrType(hdr) /\ Tiles(hdr, heap_head, heap_end_addr) /\ heap_head > 0
      /\ heap_head \in Nat /\ heap_end_addr \in Nat /\ heap_head = HeapStart
  BY HeapStartPositive DEF HdrType, TypeOK, HeapTiled
<1>5. hdr[b].size \in Nat /\ b \in Nat
  BY <1>4 DEF HdrType, Block
<1>6. /\ HdrType(hdr') /\ Tiles(hdr', heap_head, heap_end_addr)
      /\ Used(hdr') = Used(hdr) \cup {b}
      /\ \A x \in Used(hdr) : x \in DOMAIN hdr' /\ hdr'[x].size = hdr[x].size
      /\ b \in DOMAIN hdr' /\ hdr'[b].size >= sz
      /\ \A x \in DOMAIN hdr' : NoFreePair(hdr', x)
  <2>1. \A x \in DOMAIN hdr : NoFreePair(hdr, x)
    BY DEF Coalesced
  <2>2. sz > 0
    BY <1>1, <1>2
  <2>3. /\ hdr' = Taken(hdr, b, sz) /\ hdr[b].free /\ sz <= hdr[b].size
    BY <1>2, <1>3, <1>5
  <2>. HIDE DEF HeapInv
  <2>. QED
    BY <1>2, <1>4, <2>1, <2>2, <2>3, TakenShape
<1>7. b + 16 \notin DOMAIN held
  BY <1>3, <1>4, <1>5 DEF HeldAreUsed, Used, HeaderSize, HdrType
<1>8. TypeOK'
  BY <1>1, <1>3, <1>5, <1>6 DEF TypeOK, HdrType, HeaderSize
<1>9. HeapTiled'
  BY <1>3, <1>4, <1>6 DEF HeapTiled
<1>10. HeldAreUsed'
  <2>1. DOMAIN held' = {x + HeaderSize : x \in Used(hdr')}
    BY <1>3, <1>6 DEF HeldAreUsed
  <2>2. ASSUME NEW p \in DOMAIN held' PROVE held'[p] <= hdr'[p - HeaderSize].size
    <3>1. hdr'[b].size \in Nat
      BY <1>6 DEF HdrType, Block
    <3>2. CASE p = b + HeaderSize
      BY <1>1, <1>2, <1>3, <1>5, <1>6, <3>1, <3>2 DEF HeaderSize
    <3>3. CASE p # b + HeaderSize
      <4>1. p \in DOMAIN held /\ held'[p] = held[p]
        BY <1>3, <3>3
      <4>2. p - HeaderSize \in Used(hdr)
        BY <4>1, <1>4 DEF HeldAreUsed, Used, HeaderSize, HdrType
      <4>. QED
        BY <1>6, <4>1, <4>2 DEF HeldAreUsed
    <3>. QED
      BY <3>2, <3>3
  <2>. QED
    BY <2>1, <2>2 DEF HeldAreUsed
<1>11. IsFiniteSet(DOMAIN held)' /\ CountIsExact'
  <2>1. DOMAIN held' = DOMAIN held \cup {b + 16}
    BY <1>3 DEF HeaderSize
  <2>. QED
    BY <1>3, <1>7, <2>1, FS_AddElement DEF CountIsExact
<1>. QED
  BY <1>3, <1>6, <1>8, <1>9, <1>10, <1>11 DEF Coalesced

\* kfree gives one used block back.
LEMMA KfreeInv ==
  ASSUME HeapInv, NEW p \in DOMAIN held, kfree(p)
  PROVE  HeapInv'
<1>. USE DEF HeapInv
<1>. DEFINE b == p - HeaderSize
<1>1. heap_ready /\ b \in Used(hdr) /\ b \in DOMAIN hdr /\ p = b + 16 /\ b \in Nat
  BY DEF HeldAreUsed, Used, HeaderSize, TypeOK
<1>2. /\ hdr' = Released(hdr, b)
      /\ allocation_count' = IF allocation_count > 0 THEN allocation_count - 1
                                                     ELSE allocation_count
      /\ held' = [q \in DOMAIN held \ {p} |-> held[q]]
      /\ UNCHANGED <<heap_ready, heap_head, heap_end_addr, booted>>
  BY DEF kfree
<1>. HIDE DEF b
<1>3. /\ HdrType(hdr) /\ Tiles(hdr, heap_head, heap_end_addr) /\ heap_head > 0
      /\ heap_head \in Nat /\ heap_end_addr \in Nat /\ heap_head = HeapStart
  BY <1>1, HeapStartPositive DEF HdrType, TypeOK, HeapTiled
<1>4. /\ HdrType(hdr') /\ Tiles(hdr', heap_head, heap_end_addr)
      /\ Used(hdr') = Used(hdr) \ {b}
      /\ \A x \in Used(hdr) \ {b} : x \in DOMAIN hdr' /\ hdr'[x].size = hdr[x].size
      /\ \A x \in DOMAIN hdr' : NoFreePair(hdr', x)
  BY <1>1, <1>2, <1>3, ReleasedShape DEF Coalesced
<1>5. Cardinality(DOMAIN held) \in Nat /\ Cardinality(DOMAIN held) > 0
      /\ IsFiniteSet(DOMAIN held \ {p})
      /\ Cardinality(DOMAIN held \ {p}) = Cardinality(DOMAIN held) - 1
  BY FS_CardinalityType, FS_EmptySet, FS_RemoveElement
<1>6. TypeOK'
  BY <1>2, <1>4, <1>5 DEF TypeOK, HdrType, CountIsExact
<1>7. HeapTiled'
  BY <1>2, <1>3, <1>4 DEF HeapTiled
<1>8. HeldAreUsed'
  <2>1. \A x \in Used(hdr) : x \in Nat
    BY <1>3 DEF Used, HdrType
  <2>2. DOMAIN held' = {x + HeaderSize : x \in Used(hdr')}
    BY <1>1, <1>2, <1>4, <2>1 DEF HeldAreUsed, HeaderSize
  <2>3. ASSUME NEW q \in DOMAIN held' PROVE held'[q] <= hdr'[q - HeaderSize].size
    <3>1. q \in DOMAIN held /\ q # p /\ held'[q] = held[q]
      BY <1>2
    <3>2. q - HeaderSize \in Used(hdr) \ {b}
      BY <1>1, <2>1, <3>1 DEF HeldAreUsed, HeaderSize
    <3>. QED
      BY <1>4, <3>1, <3>2 DEF HeldAreUsed
  <2>. QED
    BY <2>2, <2>3 DEF HeldAreUsed
<1>9. CountIsExact' /\ IsFiniteSet(DOMAIN held)'
  BY <1>2, <1>5 DEF CountIsExact
<1>. QED
  BY <1>1, <1>2, <1>4, <1>6, <1>7, <1>8, <1>9 DEF Coalesced

LEMMA StutterInv ==
  ASSUME HeapInv, UNCHANGED vars
  PROVE  HeapInv'
BY DEF HeapInv, vars, TypeOK, HeapTiled, HeldAreUsed, Used, Coalesced, NoFreePair, CountIsExact

LEMMA NextInv == HeapInv /\ [Next]_vars => HeapInv'
<1>. SUFFICES ASSUME HeapInv, [Next]_vars PROVE HeapInv'
  OBVIOUS
<1>1. ASSUME NEW total \in ReportedTotals, memory_init(total) PROVE HeapInv'
  BY <1>1, InitStepInv
<1>2. ASSUME NEW n \in Requests, kmalloc(n) PROVE HeapInv'
  BY <1>2, KmallocInv, StutterInv DEF kmalloc
<1>3. ASSUME NEW p \in DOMAIN held, kfree(p) PROVE HeapInv'
  BY <1>3, KfreeInv
<1>4. CASE UNCHANGED vars
  BY <1>4, StutterInv
<1>. QED
  BY <1>1, <1>2, <1>3, <1>4 DEF Next

LEMMA HeapInvariant == Spec => []HeapInv
<1>. QED
  BY InitInv, NextInv, PTL DEF Spec

----------------------------------------------------------------------------
\* The list of blocks tiles the heap after every kmalloc and kfree (split_block,
\* merge_with_next): nothing is lost between blocks, nothing belongs to two.
THEOREM HeapAlwaysTiled == Spec => []HeapTiled
<1>1. HeapInv => HeapTiled
  BY DEF HeapInv
<1>. QED
  BY <1>1, HeapInvariant, PTL

\* The statics of memory.c keep their types.
THEOREM HeapTypeCorrect == Spec => []TypeOK
<1>1. HeapInv => TypeOK
  BY DEF HeapInv
<1>. QED
  BY <1>1, HeapInvariant, PTL

\* Every pointer a caller holds is a used block with room for the request, and every used
\* block is held by some caller: kmalloc never hands a region out twice.
THEOREM HeldBlocksAreUsed == Spec => []HeldAreUsed
<1>1. HeapInv => HeldAreUsed
  BY DEF HeapInv
<1>. QED
  BY <1>1, HeapInvariant, PTL

\* kfree's two merges are enough: there are never two free neighbours.
THEOREM AlwaysCoalesced == Spec => []Coalesced
<1>1. HeapInv => Coalesced
  BY DEF HeapInv
<1>. QED
  BY <1>1, HeapInvariant, PTL

\* The three together: what the block list promises after any sequence of calls.
THEOREM BlockListAlwaysSound == Spec => []BlockListSound
<1>1. HeapInv => BlockListSound
  BY DEF HeapInv, BlockListSound
<1>. QED
  BY <1>1, HeapInvariant, PTL

\* allocation_count, which `mem test -d' relies on, is the number of regions held.
THEOREM AllocationCountExact == Spec => []CountIsExact
<1>1. HeapInv => CountIsExact
  BY DEF HeapInv
<1>. QED
  BY <1>1, HeapInvariant, PTL

\* Once every region has been given back, the heap is one free block again.
THEOREM AllFreedRestoresHeap == Spec => []AllFreedIsWhole
<1>1. HeapInv => AllFreedIsWhole
  <2>. SUFFICES ASSUME HeapInv, heap_ready, DOMAIN held = {}
                PROVE  DOMAIN hdr = {heap_head}
                       /\ hdr[heap_head].size = heap_end_addr - heap_head - HeaderSize
    BY DEF AllFreedIsWhole
  <2>1. /\ HdrType(hdr) /\ Tiles(hdr, heap_head, heap_end_addr)
        /\ heap_head \in Nat /\ heap_end_addr \in Nat
    BY DEF HeapInv, HeapTiled, TypeOK, HdrType
  <2>2. \A x \in DOMAIN hdr : hdr[x].free
    BY DEF HeapInv, HeldAreUsed, Used
  <2>3. /\ heap_head \in DOMAIN hdr
        /\ \A x \in DOMAIN hdr :
             /\ x \in Nat /\ hdr[x].size \in Nat
             /\ End(hdr, x) = x + 16 + hdr[x].size /\ x < End(hdr, x)
             /\ heap_head <= x /\ End(hdr, x) <= heap_end_addr
             /\ NextAgrees(hdr, heap_end_addr, x)
        /\ \A x, y \in DOMAIN hdr : x < y => End(hdr, x) <= y
    BY <2>1, TiledFields
  <2>4. hdr[heap_head].next = NULL
    BY <2>2, <2>3 DEF HeapInv, Coalesced, NoFreePair, NextAgrees
  <2>5. End(hdr, heap_head) = heap_end_addr
    BY <2>1, <2>3, <2>4 DEF NextAgrees, NULL, End, HeaderSize
  <2>6. ASSUME NEW x \in DOMAIN hdr, x # heap_head PROVE FALSE
    <3>1. heap_head < x /\ x < heap_end_addr
      BY <2>1, <2>3, <2>6
    <3>. QED
      BY <2>3, <2>5, <2>6, <3>1
  <2>7. DOMAIN hdr = {heap_head}
    BY <2>3, <2>6
  <2>8. heap_head + 16 + hdr[heap_head].size = heap_end_addr
    BY <2>3, <2>5
  <2>. QED
    BY <2>1, <2>3, <2>7, <2>8 DEF HeaderSize
<1>. QED
  BY <1>1, HeapInvariant, PTL

----------------------------------------------------------------------------
\* Every nonempty set of numbers has a least one, which gives a walk along the list its
\* end without a recursive definition.
LEMMA LeastNumber ==
  ASSUME NEW T, T \subseteq Nat, T # {}
  PROVE  \E x \in T : \A y \in T : x <= y
<1>1. PICK x \in T : \A y \in T : ~(<<y, x>> \in OpToRel(<, Nat))
  BY NatLessThanWellFounded, WFMin
<1>2. \A y \in T : ~(y < x)
  BY <1>1 DEF OpToRel
<1>. QED
  BY <1>2

\* The block that an address of the heap lies in.
LEMMA BlockAround ==
  ASSUME NEW h, NEW lo \in Nat, NEW hi \in Nat, HdrType(h), Tiles(h, lo, hi),
         NEW a \in Nat, lo <= a, a < hi
  PROVE  \E b \in DOMAIN h : b <= a /\ a < End(h, b)
<1> DEFINE Back == {a - b : b \in {x \in DOMAIN h : x <= a}}
<1>1. /\ lo \in DOMAIN h
      /\ \A x \in DOMAIN h : /\ x \in Nat /\ End(h, x) \in Nat /\ x < End(h, x)
                             /\ NextAgrees(h, hi, x)
  BY TiledFields
<1>2. Back \subseteq Nat /\ Back # {}
  BY <1>1
<1>3. PICK d \in Back : \A e \in Back : d <= e
  <2>. HIDE DEF Back
  <2>. QED
    BY <1>2, LeastNumber
<1>4. PICK b \in DOMAIN h : b <= a /\ d = a - b
  BY <1>3
<1>5. ASSUME NEW c \in DOMAIN h, c <= a PROVE c <= b
  <2>1. a - c \in Back
    BY <1>5
  <2>2. d <= a - c
    <3>. HIDE DEF Back
    <3>. QED
      BY <1>3, <2>1
  <2>. QED
    BY <1>1, <1>4, <2>2
<1>6. ASSUME End(h, b) <= a PROVE FALSE
  <2>1. End(h, b) \in DOMAIN h
    BY <1>1, <1>4, <1>6 DEF NextAgrees
  <2>. QED
    BY <1>1, <1>4, <1>5, <1>6, <2>1
<1>. QED
  BY <1>1, <1>4, <1>6

\* kmalloc's first fit misses nothing (kfree merges on both sides): for every heap and every
\* request, while any aligned stretch of bytes that no used block touches has room for a
\* header and the request, some single free block has it.
THEOREM NothingEverMissed == Spec => []NoMissedFit
<1>1. HeapInv => NoMissedFit
  <2>. SUFFICES ASSUME HeapInv, heap_ready, NEW n \in Requests \ {0},
                       NEW k \in 0..((heap_end_addr - heap_head - (HeaderSize + align_up(n)))
                                       \div HEAP_ALIGN),
                       \A b \in DOMAIN hdr :
                          \/ hdr[b].free
                          \/ End(hdr, b) <= heap_head + HEAP_ALIGN * k
                          \/ heap_head + HEAP_ALIGN * k + (HeaderSize + align_up(n)) <= b
                PROVE  Fits(hdr, align_up(n)) # {}
    BY DEF NoMissedFit
  <2> DEFINE size == align_up(n)
             a    == heap_head + 16 * k
  <2>1. /\ HdrType(hdr) /\ Tiles(hdr, heap_head, heap_end_addr)
        /\ heap_head \in Nat /\ heap_end_addr \in Nat
    BY DEF HeapInv, HeapTiled, TypeOK, HdrType
  <2>2. size \in Nat /\ size > 0
    <3>1. n \in Nat /\ n > 0 /\ n <= WordSize - 16
      BY HeapAssumption, WordSizeAssumption DEF HEAP_ALIGN
    <3>. QED
      BY <3>1, AlignUp
  <2>. HIDE DEF size
  <2>3. k \in Nat /\ 16 * k <= heap_end_addr - heap_head - (16 + size)
    <3>1. k \in 0..((heap_end_addr - heap_head - (16 + size)) \div 16)
      BY DEF HEAP_ALIGN, HeaderSize, size
    <3>. QED
      BY <2>1, <2>2, <3>1
  <2>4. a \in Nat /\ heap_head <= a /\ a + 16 + size <= heap_end_addr
    BY <2>1, <2>2, <2>3
  <2>5. \A b \in DOMAIN hdr : hdr[b].free \/ End(hdr, b) <= a \/ a + 16 + size <= b
    BY <2>1, <2>2, <2>3 DEF HEAP_ALIGN, HeaderSize, size, HdrType
  <2>. HIDE DEF a
  <2>6. \A x \in DOMAIN hdr : /\ x \in Nat /\ hdr[x].size \in Nat
                              /\ End(hdr, x) = x + 16 + hdr[x].size /\ x < End(hdr, x)
                              /\ NextAgrees(hdr, heap_end_addr, x)
    BY <2>1, TiledFields
  <2>7. PICK b \in DOMAIN hdr : b <= a /\ a < End(hdr, b)
    BY <2>1, <2>2, <2>4, BlockAround
  <2>8. hdr[b].free
    BY <2>2, <2>4, <2>5, <2>6, <2>7
  <2>9. a + 16 + size <= End(hdr, b)
    <3>. SUFFICES ASSUME End(hdr, b) < a + 16 + size PROVE FALSE
      BY <2>2, <2>4, <2>6
    <3> DEFINE c == End(hdr, b)
    <3>1. hdr[b].next = c /\ c \in DOMAIN hdr
      BY <2>1, <2>2, <2>4, <2>6 DEF NextAgrees
    <3>2. ~hdr[c].free
      <4>1. c # NULL
        BY <2>6 DEF NULL
      <4>. QED
        BY <2>8, <3>1, <4>1 DEF HeapInv, Coalesced, NoFreePair
    <3>. QED
      BY <2>2, <2>4, <2>5, <2>6, <2>7, <3>1, <3>2
  <2>10. hdr[b].size >= size
    BY <2>2, <2>4, <2>6, <2>7, <2>9
  <2>. QED
    BY <2>8, <2>10 DEF Fits, size
<1>. QED
  BY <1>1, HeapInvariant, PTL

----------------------------------------------------------------------------
\* The region kmalloc hands out lies in the arena, apart from every region held.
LEMMA GrantedApart ==
  ASSUME HeapInv, heap_ready, NEW n \in Nat, n > 0, NEW b \in DOMAIN hdr,
         hdr[b].free, n <= hdr[b].size
  PROVE  /\ (b + 16) % 16 = 0 /\ heap_head + 16 <= b + 16
         /\ b + 16 + n <= heap_end_addr
         /\ b + 16 \notin DOMAIN held
         /\ \A q \in DOMAIN held :
              Abstract!Bytes(b + 16, n) \cap Abstract!Bytes(q, held[q]) = {}
<1>1. /\ HdrType(hdr) /\ Tiles(hdr, heap_head, heap_end_addr)
      /\ heap_head \in Nat /\ heap_end_addr \in Nat
      /\ \A q \in DOMAIN held : q \in Nat /\ held[q] \in Nat
  BY HeapAssumption, WordSizeAssumption DEF HeapInv, HeapTiled, TypeOK, HdrType, HEAP_ALIGN
<1>2. /\ \A x \in DOMAIN hdr :
           /\ x \in Nat /\ hdr[x].size \in Nat
           /\ End(hdr, x) = x + 16 + hdr[x].size
           /\ heap_head <= x /\ End(hdr, x) <= heap_end_addr /\ x % 16 = 0
      /\ \A x, y \in DOMAIN hdr : x < y => End(hdr, x) <= y
  BY <1>1, TiledFields
<1>3. ASSUME NEW q \in DOMAIN held
      PROVE  /\ q # b + 16
             /\ \/ b + 16 + n <= q
                \/ q + held[q] <= b + 16
  <2>1. PICK x \in DOMAIN hdr : x # b /\ q = x + 16 /\ held[q] <= hdr[x].size
    <3>1. PICK x \in Used(hdr) : q = x + HeaderSize
      BY DEF HeapInv, HeldAreUsed
    <3>2. x \in DOMAIN hdr /\ x # b /\ x \in Nat
      BY <1>2, <3>1 DEF Used
    <3>3. q - HeaderSize = x
      BY <3>1, <3>2 DEF HeaderSize
    <3>. QED
      BY <3>1, <3>2, <3>3 DEF HeapInv, HeldAreUsed, HeaderSize
  <2>2. CASE x < b
    BY <1>1, <1>2, <2>1, <2>2
  <2>3. CASE b < x
    BY <1>1, <1>2, <2>1, <2>3
  <2>. QED
    BY <1>2, <2>1, <2>2, <2>3
<1>4. ASSUME NEW q \in DOMAIN held
      PROVE  Abstract!Bytes(b + 16, n) \cap Abstract!Bytes(q, held[q]) = {}
  BY <1>1, <1>2, <1>3 DEF Abstract!Bytes
<1>. QED
  BY <1>1, <1>2, <1>3, <1>4

\* The heap is an implementation of the abstract allocator: what callers see are regions
\* inside the arena, on 16-byte boundaries, that never share a byte.
THEOREM HeapImplementsAllocator == Spec => AllocatorSpec
<1>1. Init => Abstract!Init
  BY DEF Init, Abstract!Init, NoBlocks
<1>2. HeapInv /\ [Next]_vars => [Abstract!Next]_(Abstract!vars)
  <2>. SUFFICES ASSUME HeapInv, [Next]_vars
                PROVE  Abstract!Next \/ UNCHANGED Abstract!vars
    OBVIOUS
  <2>1. UNCHANGED vars => UNCHANGED Abstract!vars
    BY DEF vars, Abstract!vars
  <2>2. ASSUME NEW total \in ReportedTotals, memory_init(total)
        PROVE  Abstract!Next \/ UNCHANGED Abstract!vars
    <3>1. ~booted /\ ~heap_ready /\ held' = held /\ DOMAIN held = {}
      BY <2>2 DEF memory_init, HeapInv, HeldAreUsed, Used
    <3>2. CASE heap_ready' = heap_ready
      BY <3>1, <3>2 DEF Abstract!vars
    <3>3. CASE heap_ready' # heap_ready
      <4>1. HeapEnd(total) > HeapStart + 16 /\ heap_ready' = TRUE
            /\ heap_head' = HeapStart /\ heap_end_addr' = HeapEnd(total)
        <5>1. ~(HeapEnd(total) <= HeapStart + HeaderSize)
          BY <2>2, <3>3 DEF memory_init
        <5>2. heap_ready' = TRUE
              /\ heap_head' = HeapStart /\ heap_end_addr' = HeapEnd(total)
          BY <2>2, <5>1 DEF memory_init
        <5>3. HeapInv'
          BY <2>2, InitStepInv
        <5>4. HeapEnd(total) \in Nat
          BY <5>2, <5>3 DEF HeapInv, TypeOK
        <5>. QED
          BY <5>1, <5>2, <5>4, HeapStartPositive DEF HeaderSize
      <4>2. HeapStart + 16 \in Nat /\ HeapEnd(total) \in Nat
        BY <2>2, <4>1, InitStepInv, HeapStartPositive DEF HeapInv, TypeOK
      <4>3. Abstract!SetUp
        BY <3>1, <4>1, <4>2 DEF Abstract!SetUp, HeaderSize
      <4>. QED
        BY <4>3 DEF Abstract!Next
    <3>. QED
      BY <3>2, <3>3
  <2>3. ASSUME NEW n \in Requests, n # 0, heap_ready, KmallocSucceeds(n)
        PROVE  Abstract!Next
    <3>1. n \in Nat /\ n > 0 /\ n <= WordSize - 16
      BY <2>3, HeapAssumption, WordSizeAssumption DEF HEAP_ALIGN
    <3>2. align_up(n) \in Nat /\ n <= align_up(n)
      BY <3>1, AlignUp
    <3>3. PICK b \in DOMAIN hdr :
            /\ hdr[b].free /\ hdr[b].size >= align_up(n)
            /\ held' = [p \in DOMAIN held \cup {b + HeaderSize} |->
                          IF p = b + HeaderSize THEN n ELSE held[p]]
            /\ UNCHANGED <<heap_ready, heap_head, heap_end_addr, booted>>
      BY <2>3 DEF KmallocSucceeds, FirstFit, Fits
    <3>4. n <= hdr[b].size
      BY <3>1, <3>2, <3>3 DEF HeapInv, TypeOK, Block
    <3>5. /\ (b + 16) % 16 = 0 /\ heap_head + 16 <= b + 16
          /\ b + 16 + n <= heap_end_addr
          /\ b + 16 \notin DOMAIN held
          /\ \A q \in DOMAIN held :
               Abstract!Bytes(b + 16, n) \cap Abstract!Bytes(q, held[q]) = {}
      BY <2>3, <3>1, <3>3, <3>4, GrantedApart
    <3>6. held'[b + 16] = n /\ b + 16 \in DOMAIN held'
      BY <3>3 DEF HeaderSize
    <3>7. Abstract!Grant(b + 16, held'[b + 16])
      BY <2>3, <3>1, <3>3, <3>5, <3>6 DEF Abstract!Grant, HeaderSize
    <3>. QED
      BY <3>5, <3>6, <3>7 DEF Abstract!Next
  <2>4. ASSUME NEW p \in DOMAIN held, kfree(p)
        PROVE  Abstract!Next
    BY <2>4 DEF kfree, Abstract!Next, Abstract!Return
  <2>5. ASSUME NEW n \in Requests, kmalloc(n)
        PROVE  Abstract!Next \/ UNCHANGED Abstract!vars
    <3>1. CASE UNCHANGED vars
      BY <2>1, <3>1
    <3>2. CASE heap_ready /\ n # 0 /\ KmallocSucceeds(n)
      BY <2>3, <3>2
    <3>. QED
      BY <2>5, <3>1, <3>2 DEF kmalloc
  <2>. QED
    BY <2>1, <2>2, <2>4, <2>5 DEF Next
<1>. QED
  BY <1>1, <1>2, HeapInvariant, PTL DEF Spec, AllocatorSpec, Abstract!Spec
=============================================================================
