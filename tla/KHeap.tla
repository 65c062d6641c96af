------------------------------- MODULE KHeap -------------------------------
(***************************************************************************)
(* The kernel heap (kernel/mm/memory.c) as a state machine: memory_init,   *)
(* then any sequence of kmalloc and kfree.  Both run to completion: boot   *)
(* code calls them with interrupts off and the shell inside the keyboard   *)
(* interrupt.  Left out is the one call that interrupts can cut in two,    *)
(* gui_init's for its back buffer, made with interrupts on (GUI build).    *)
(***************************************************************************)
EXTENDS KHeapOps, FiniteSets

CONSTANTS
  KernelEnd,      \* address of the linker symbol kernel_end
  DefaultTotal,   \* bytes assumed without a multiboot memory map (16 MiB)
  TopGuard,       \* HEAP_TOP_GUARD_BYTES
  ReportedTotals, \* bytes of memory the boot loader may report; 0 = it reports none
  Requests        \* sizes callers pass to kmalloc

ASSUME HeapAssumption ==
  /\ KernelEnd \in Nat /\ KernelEnd > 0 /\ KernelEnd + HEAP_ALIGN < WordSize
  /\ TopGuard \in Nat /\ TopGuard % HEAP_ALIGN = 0
  /\ DefaultTotal \in Nat /\ DefaultTotal < WordSize
  /\ ReportedTotals \subseteq 0..(WordSize - 1)
  \* No caller's size is so close to the word size that rounding it up wraps.
  /\ Requests \subseteq 0..(WordSize - HEAP_ALIGN)

VARIABLES
  hdr,              \* the block headers on the list, by address
  heap_ready,
  heap_head,
  heap_end_addr,
  allocation_count,
  booted,           \* kernel_main has called memory_init
  held              \* the callers' side: pointer -> the size it was requested with

vars == <<hdr, heap_ready, heap_head, heap_end_addr, allocation_count, booted, held>>

NoBlocks == [b \in {} |-> 0]

Init ==
  /\ hdr = NoBlocks
  /\ heap_ready = FALSE
  /\ heap_head = NULL
  /\ heap_end_addr = 0
  /\ allocation_count = 0
  /\ booted = FALSE
  /\ held = NoBlocks

----------------------------------------------------------------------------
HeapStart == align_up(KernelEnd)

HeapEnd(total) ==
  LET top == align_down(IF total = 0 THEN DefaultTotal ELSE total)
  IN  IF top > TopGuard THEN top - TopGuard ELSE top

(***************************************************************************)
(* memory_init: one free block spans the heap, or the heap stays closed    *)
(* because there is not even room for a header.                            *)
(***************************************************************************)
memory_init(total) ==
  /\ ~booted
  /\ booted' = TRUE
  /\ IF HeapEnd(total) <= HeapStart + HeaderSize
     THEN UNCHANGED <<hdr, heap_ready, heap_head, heap_end_addr>>
     ELSE /\ heap_end_addr' = HeapEnd(total)
          /\ heap_head' = HeapStart
          /\ hdr' = [b \in {HeapStart} |->
                       [size |-> HeapEnd(total) - HeapStart - HeaderSize, free |-> TRUE,
                        next |-> NULL, prev |-> NULL]]
          /\ heap_ready' = TRUE
  /\ UNCHANGED <<allocation_count, held>>

KmallocKeepsFree(n) ==
  \E b \in FirstFit(hdr, heap_head, align_up(n)) :
     /\ hdr' = split_block(hdr, b, align_up(n))
     /\ allocation_count' = allocation_count + 1
     /\ held' = [p \in DOMAIN held \cup {b + HeaderSize} |->
                   IF p = b + HeaderSize THEN n ELSE held[p]]
     /\ UNCHANGED <<heap_ready, heap_head, heap_end_addr, booted>>

\* kmalloc when a block fits: the caller now holds the bytes behind its header.
KmallocSucceeds(n) ==
  \E b \in FirstFit(hdr, heap_head, align_up(n)) :
     /\ hdr' = Taken(hdr, b, align_up(n))
     /\ allocation_count' = allocation_count + 1
     /\ held' = [p \in DOMAIN held \cup {b + HeaderSize} |->
                   IF p = b + HeaderSize THEN n ELSE held[p]]
     /\ UNCHANGED <<heap_ready, heap_head, heap_end_addr, booted>>

(***************************************************************************)
(* kmalloc: NULL (and no change) before memory_init, for an empty request, *)
(* or when no free block is large enough.                                  *)
(***************************************************************************)
kmalloc(n) ==
  /\ booted
  /\ \/ /\ ~heap_ready \/ n = 0 \/ Fits(hdr, align_up(n)) = {}
        /\ UNCHANGED vars
     \/ /\ heap_ready /\ n # 0
        /\ KmallocSucceeds(n)

KfreeNoCount(p) ==
  /\ hdr' = Released(hdr, p - HeaderSize)
  /\ held' = [q \in DOMAIN held \ {p} |-> held[q]]
  /\ UNCHANGED <<heap_ready, heap_head, heap_end_addr, allocation_count, booted>>

\* kfree of a pointer its owner still holds.
kfree(p) ==
  /\ hdr' = Released(hdr, p - HeaderSize)
  /\ allocation_count' = IF allocation_count > 0 THEN allocation_count - 1
                                                 ELSE allocation_count
  /\ held' = [q \in DOMAIN held \ {p} |-> held[q]]
  /\ UNCHANGED <<heap_ready, heap_head, heap_end_addr, booted>>

Next == \/ \E total \in ReportedTotals : memory_init(total)
        \/ \E n \in Requests : kmalloc(n)
        \/ \E p \in DOMAIN held : kfree(p)

Spec == Init /\ [][Next]_vars

----------------------------------------------------------------------------
(***************************************************************************)
(* Properties.                                                             *)
(***************************************************************************)

\* The variables keep the types of memory.c's statics.
TypeOK ==
  /\ hdr \in [DOMAIN hdr -> Block]
  /\ DOMAIN hdr \subseteq Nat
  /\ heap_ready \in BOOLEAN
  /\ heap_head \in Nat
  /\ heap_end_addr \in Nat
  /\ allocation_count \in Nat
  /\ booted \in BOOLEAN
  /\ DOMAIN held \subseteq Nat
  /\ \A p \in DOMAIN held : held[p] \in Requests

\* Each block ends where the next one begins, the last one at the heap's end, and the
\* links between neighbours agree in both directions (h is a heap spanning lo..hi-1).
BlockFits(h, lo, hi, b) ==
  /\ lo <= b /\ End(h, b) <= hi
  /\ b % HEAP_ALIGN = 0 /\ h[b].size % HEAP_ALIGN = 0 /\ h[b].size > 0

NextAgrees(h, hi, b) ==
  IF End(h, b) = hi THEN h[b].next = NULL
  ELSE /\ h[b].next = End(h, b)
       /\ h[b].next \in DOMAIN h
       /\ h[h[b].next].prev = b

PrevAgrees(h, lo, b) ==
  IF b = lo THEN h[b].prev = NULL
  ELSE /\ h[b].prev \in DOMAIN h
       /\ h[h[b].prev].next = b

Apart(h, b, c) == b < c => End(h, b) <= c

Tiles(h, lo, hi) ==
  /\ lo \in DOMAIN h
  /\ \A b \in DOMAIN h :
        BlockFits(h, lo, hi, b) /\ NextAgrees(h, hi, b) /\ PrevAgrees(h, lo, b)
  /\ \A b, c \in DOMAIN h : Apart(h, b, c)

\* Whatever the order of kmalloc and kfree, splitting and merging keep the list a tiling
\* of the heap: no byte is lost between blocks and none belongs to two of them.
HeapTiled == heap_ready => heap_head = HeapStart /\ Tiles(hdr, heap_head, heap_end_addr)

\* A used block is one some caller holds, with room for what was asked; so a pointer is
\* never handed out twice and a write through it stays clear of every header.
Used(h) == {x \in DOMAIN h : ~h[x].free}

HeldAreUsed ==
  /\ DOMAIN held = {b + HeaderSize : b \in Used(hdr)}
  /\ \A p \in DOMAIN held : held[p] <= hdr[p - HeaderSize].size

NoFreePair(h, b) == h[b].next # NULL /\ h[b].free => ~h[h[b].next].free

\* kfree leaves no two free neighbours: it merges with the block behind and before.
Coalesced == \A b \in DOMAIN hdr : NoFreePair(hdr, b)

\* What the block list promises after any sequence of calls (split_block, merge_with_next).
BlockListSound == HeapTiled /\ HeldAreUsed /\ Coalesced

\* Therefore kmalloc's first fit misses nothing: while any aligned stretch of free bytes
\* has room for a header and a request, some single block has it too.
NoMissedFit ==
  heap_ready =>
    \A n \in Requests \ {0} :
       LET need == HeaderSize + align_up(n)
           Clear(a) == \A b \in DOMAIN hdr :
                          hdr[b].free \/ End(hdr, b) <= a \/ a + need <= b
       IN  (\E k \in 0..((heap_end_addr - heap_head - need) \div HEAP_ALIGN) :
               Clear(heap_head + HEAP_ALIGN * k))
           => Fits(hdr, align_up(n)) # {}

\* When everything has been given back the heap is one free block again.
AllFreedIsWhole ==
  heap_ready /\ DOMAIN held = {} =>
    /\ DOMAIN hdr = {heap_head}
    /\ hdr[heap_head].size = heap_end_addr - heap_head - HeaderSize

\* allocation_count, which `mem' prints and `mem test -d' compares before and after, is
\* the number of regions in use.
CountIsExact == allocation_count = Cardinality(DOMAIN held)

\* Callers see the allocator of KAllocator: disjoint aligned regions inside the arena.
Abstract == INSTANCE KAllocator WITH
  regions <- held,
  arena   <- IF heap_ready THEN [lo |-> heap_head + HeaderSize, hi |-> heap_end_addr]
                           ELSE [lo |-> 0, hi |-> 0]

AllocatorSpec == Abstract!Spec
=============================================================================
