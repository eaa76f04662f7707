----------------------------- MODULE RangeList ------------------------------
(***************************************************************************)
(* What the trace driver of lab03 (mdriver.c) knows of the payloads that   *)
(* an allocator gave it, and the tests it puts to a new one: the list of   *)
(* ranges, and the random bytes it fills payloads with.  Addresses count   *)
(* from mem_heap_lo(), which is 0; brk is the size of the heap.            *)
(*                                                                         *)
(* A random byte is a pair: the draw it comes from, a new one for each     *)
(* filling, and its place in the payload.  So two payloads never hold the  *)
(* same byte by chance.                                                    *)
(***************************************************************************)
EXTENDS Integers, Sequences, FiniteSets, SequencesExt

CONSTANTS
  ALIGNMENT, \* of payloads
  HeapLimit  \* MAX_HEAP

ASSUME RangeListAssumption ==
  /\ ALIGNMENT \in Nat \ {0}
  /\ HeapLimit \in Nat

\* The null pointer: no payload begins there.
NULL == -1

Junk == <<0, 0>>
EmptyMemory == [a \in 0..(HeapLimit - 1) |-> Junk]

Payload(lo, size) == lo..(lo + size - 1)

\* Mutant: a payload that ends in another one is not seen.
TouchesAbove(r, lo, hi) == lo >= r.lo /\ lo <= r.hi

\* The overlap test of add_range: an end of the new payload lies in range r.
Touches(r, lo, hi) ==
  \/ lo >= r.lo /\ lo <= r.hi
  \/ hi >= r.lo /\ hi <= r.hi

\* Mutant: only the start of the payload is looked at.
InHeapLow(lo, size, brk) == lo >= 0 /\ lo <= brk - 1

InHeap(lo, size, brk) == lo >= 0 /\ lo + size - 1 <= brk - 1

\* add_range refuses a payload that is not aligned or not in the heap, and one
\* that touches a range of the list.
Refused(ranges, lo, size, brk) ==
  \/ lo % ALIGNMENT # 0
  \/ ~InHeap(lo, size, brk)
  \/ \E j \in DOMAIN ranges : Touches(ranges[j], lo, lo + size - 1)

\* add_range puts the new range in front.
WithRange(ranges, lo, size, index) ==
  <<[lo |-> lo, hi |-> lo + size - 1, index |-> index]>> \o ranges

\* Mutant: the range stays when nothing follows it.
remove_range_inner(ranges, lo) ==
  LET j == SelectInSeq(ranges, LAMBDA r : r.lo = lo)
  IN IF j \in {0, Len(ranges)} THEN ranges ELSE RemoveAt(ranges, j)

\* remove_range: the first range that starts at lo.
remove_range(ranges, lo) ==
  LET j == SelectInSeq(ranges, LAMBDA r : r.lo = lo)
  IN IF j = 0 THEN ranges ELSE RemoveAt(ranges, j)

\* randomize_block: the payload is filled from draw base on.
randomize_block(mem, lo, size, base) ==
  [a \in DOMAIN mem |-> IF a \in Payload(lo, size) THEN <<base, a - lo>> ELSE mem[a]]

\* check_index finds garbled bytes in a payload that was filled from base on.
Garbled(mem, lo, size, base) ==
  \E k \in 0..(size - 1) : mem[lo + k] # <<base, k>>
=============================================================================
