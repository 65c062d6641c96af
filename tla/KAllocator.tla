----------------------------- MODULE KAllocator -----------------------------
(***************************************************************************)
(* What a caller of kmalloc and kfree relies on, with no mention of block  *)
(* headers: the regions handed out and not yet given back lie inside the   *)
(* arena, start on 16-byte boundaries and never share a byte.              *)
(***************************************************************************)
EXTENDS Integers

VARIABLES arena,     \* the bytes the heap may hand out, lo..hi-1
          regions    \* address of a region -> number of bytes its owner asked for

Bytes(p, n) == p .. (p + n - 1)

Init == /\ arena = [lo |-> 0, hi |-> 0]
        /\ regions = [p \in {} |-> 0]

\* The heap learns its bounds once, before it hands anything out.
SetUp ==
  /\ DOMAIN regions = {}
  /\ arena.hi = 0
  /\ arena' \in [lo : Nat, hi : Nat]
  /\ arena'.lo < arena'.hi
  /\ UNCHANGED regions

\* A new region of n bytes at p, disjoint from every other.
Grant(p, n) ==
  /\ p % 16 = 0
  /\ n > 0
  /\ arena.lo <= p /\ p + n <= arena.hi
  /\ \A q \in DOMAIN regions : Bytes(p, n) \cap Bytes(q, regions[q]) = {}
  /\ p \notin DOMAIN regions
  /\ regions' = [q \in DOMAIN regions \cup {p} |-> IF q = p THEN n ELSE regions[q]]
  /\ UNCHANGED arena

\* The owner gives region p back.
Return(p) ==
  /\ p \in DOMAIN regions
  /\ regions' = [q \in DOMAIN regions \ {p} |-> regions[q]]
  /\ UNCHANGED arena

Next == \/ SetUp
        \/ \E p \in DOMAIN regions' \ DOMAIN regions : Grant(p, regions'[p])
        \/ \E p \in DOMAIN regions : Return(p)

vars == <<arena, regions>>

Spec == Init /\ [][Next]_vars
=============================================================================
