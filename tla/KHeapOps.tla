------------------------------ MODULE KHeapOps ------------------------------
(***************************************************************************)
(* The kernel heap's block list (kernel/mm/memory.c): the helpers that     *)
(* kmalloc and kfree are made of, as operators on a heap h.  A heap is a   *)
(* function from the addresses of the block headers on the list to the     *)
(* header stored there, so a header that a merge has unlinked is simply    *)
(* no longer in DOMAIN h.                                                  *)
(***************************************************************************)
EXTENDS Integers

CONSTANT WordSize   \* number of values of a size_t or uintptr_t; 2^32 in the kernel

ASSUME WordSizeAssumption == WordSize \in Nat /\ WordSize > 64 /\ WordSize % 16 = 0

HEAP_ALIGN     == 16
HEAP_MIN_SPLIT == 32
HeaderSize     == 16   \* sizeof(struct heap_block) on i386
NULL           == 0

Block == [size : Nat, free : BOOLEAN, next : Nat, prev : Nat]

(***************************************************************************)
(* Unsigned addition of two words, and rounding to HEAP_ALIGN.             *)
(***************************************************************************)
Wrap(n) == IF n < WordSize THEN n ELSE n - WordSize

align_down(v) == HEAP_ALIGN * (v \div HEAP_ALIGN)
align_up(v)   == align_down(Wrap(v + HEAP_ALIGN - 1))

\* The first byte after the region that block b manages.
End(h, b) == b + HeaderSize + h[b].size

----------------------------------------------------------------------------
(***************************************************************************)
(* split_block: b keeps `size' bytes and the rest becomes a free block     *)
(* behind it, unless the rest is too small to be worth a header.           *)
(***************************************************************************)
SplitsAnyRest(h, b, size) == h[b].size >= size

Splits(h, b, size) == h[b].size >= size + HeaderSize + HEAP_MIN_SPLIT

SplitNoBackLink(h, b, size) ==
  LET rest == b + HeaderSize + size
  IN  IF ~Splits(h, b, size) THEN h
      ELSE [x \in DOMAIN h \cup {rest} |->
             IF x = rest THEN [size |-> h[b].size - size - HeaderSize, free |-> TRUE,
                               next |-> h[b].next, prev |-> b]
             ELSE IF x = b THEN [h[b] EXCEPT !.size = size, !.next = rest]
             ELSE h[x]]

split_block(h, b, size) ==
  LET rest == b + HeaderSize + size
  IN  IF ~Splits(h, b, size) THEN h
      ELSE [x \in DOMAIN h \cup {rest} |->
             IF x = rest THEN [size |-> h[b].size - size - HeaderSize, free |-> TRUE,
                               next |-> h[b].next, prev |-> b]
             ELSE IF x = b THEN [h[b] EXCEPT !.size = size, !.next = rest]
             ELSE IF x = h[b].next THEN [h[x] EXCEPT !.prev = rest]
             ELSE h[x]]

(***************************************************************************)
(* merge_with_next: b swallows the block behind it if that one is free.    *)
(***************************************************************************)
MergeForgetsHeader(h, b) ==
  LET n == h[b].next
  IN  IF n = NULL THEN h
      ELSE IF ~h[n].free THEN h
      ELSE [x \in DOMAIN h \ {n} |->
             IF x = b THEN [h[b] EXCEPT !.size = @ + h[n].size, !.next = h[n].next]
             ELSE IF x = h[n].next THEN [h[x] EXCEPT !.prev = b]
             ELSE h[x]]

merge_with_next(h, b) ==
  LET n == h[b].next
  IN  IF n = NULL THEN h
      ELSE IF ~h[n].free THEN h
      ELSE [x \in DOMAIN h \ {n} |->
             IF x = b THEN [h[b] EXCEPT !.size = @ + HeaderSize + h[n].size,
                                        !.next = h[n].next]
             ELSE IF x = h[n].next THEN [h[x] EXCEPT !.prev = b]
             ELSE h[x]]

----------------------------------------------------------------------------
(***************************************************************************)
(* kmalloc's loop visits the list from its head and stops at the first     *)
(* free block that is large enough.  Walk(h, head)[i] is the block it      *)
(* visits after i steps.                                                   *)
(***************************************************************************)
Fits(h, size) == {b \in DOMAIN h : h[b].free /\ h[b].size >= size}

Walk(h, head, steps) ==
  LET at[i \in 0..steps] ==
        IF i = 0 THEN head
        ELSE LET prev == at[i - 1] IN IF prev = NULL THEN NULL ELSE h[prev].next
  IN  at

IsFirst(h, head, S, b) ==
  \E i \in 0..(WordSize \div HeaderSize) :
     LET at == Walk(h, head, i)
     IN  /\ at[i] = b
         /\ \A j \in 0..(i - 1) : at[j] \notin S

FirstFit(h, head, size) == {b \in Fits(h, size) : IsFirst(h, head, Fits(h, size), b)}

(***************************************************************************)
(* The heap after kmalloc has taken block b, and after kfree of block b.   *)
(***************************************************************************)
Taken(h, b, size) == [split_block(h, b, size) EXCEPT ![b].free = FALSE]

ReleasedForwardOnly(h, b) == merge_with_next([h EXCEPT ![b].free = TRUE], b)

Released(h, b) ==
  LET h1 == merge_with_next([h EXCEPT ![b].free = TRUE], b)
      p  == h1[b].prev
  IN  IF p = NULL THEN h1
      ELSE IF h1[p].free THEN merge_with_next(h1, p)
      ELSE h1
=============================================================================
