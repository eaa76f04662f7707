------------------------------- MODULE Ranges -------------------------------
(***************************************************************************)
(* What an allocator promises, as the trace driver of lab03 checks it      *)
(* (mdriver.c, the range list): the payloads handed out are aligned, lie   *)
(* inside the heap and never overlap.  Nothing is said of where a payload  *)
(* is placed, or of when a request may be refused.                         *)
(***************************************************************************)
EXTENDS Integers, FiniteSets

CONSTANTS Alignment,  \* payload addresses are multiples of it, in bytes
          HeapBytes,  \* the largest heap
          StartBytes, \* the extent of the heap after initialisation
          Request     \* the sizes that are asked for

VARIABLES extent,  \* bytes of heap: addresses 0 .. extent - 1
          ranges   \* the payloads handed out, [lo, hi] records

vars == <<extent, ranges>>

Overlap(r, s) == r.lo <= s.hi /\ s.lo <= r.hi

Acceptable(r, others) ==
  /\ r.lo % Alignment = 0
  /\ 0 <= r.lo /\ r.hi < extent'
  /\ \A s \in others : ~Overlap(r, s)

Init == extent = StartBytes /\ ranges = {}

Grow == extent' \in extent..HeapBytes

\* A payload that keeps its rules replaces the payloads in old.
Replace(old, size) ==
  /\ Grow
  /\ \E a \in 0..HeapBytes :
       LET r == [lo |-> a, hi |-> a + size - 1]
       IN /\ Acceptable(r, ranges)
          /\ ranges' = (ranges \ old) \cup {r}

Malloc(size) == size > 0 /\ Replace({}, size)

Realloc(r, size) == size > 0 /\ Replace({r}, size)

Free(r) == ranges' = ranges \ {r} /\ UNCHANGED extent

Reset == extent' = StartBytes /\ ranges' = {}

Next ==
  \/ \E size \in Request : Malloc(size)
  \/ \E r \in ranges : Free(r) \/ \E size \in Request : Realloc(r, size)
  \/ Reset

Spec == Init /\ [][Next]_vars
=============================================================================
