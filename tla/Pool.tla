-------------------------------- MODULE Pool --------------------------------
(***************************************************************************)
(* The memory pool of the Subpython interpreter (lab04, alloc.c): values   *)
(* are allocated at a free pointer and named by references, indexes of a   *)
(* table that holds their addresses; when the pool is full, a collection   *)
(* marks what the globals reach and slides it to the start of the pool.    *)
(*                                                                         *)
(* Addresses and sizes count bytes.                                        *)
(***************************************************************************)
EXTENDS Integers, Sequences, FiniteSets, SequencesExt

NullRef == -1
NoAddress == -1  \* NULL in the reference table

ValueType == {"none", "bool", "int", "float", "str", "list", "dict"}

\* sizeof(Value): the reference, the type, the size of the data and the mark.
HeaderSize == 16
SizeField == 8  \* where the size of the data is in the header

\* data_size: of the data of a value, with its padding.  A string has a byte for
\* each character and one for its end.
DataSize(v) ==
  CASE v.type \in {"none", "bool"} -> 0
    [] v.type = "int" -> 4
    [] v.type = "float" -> 16
    [] v.type = "str" -> Len(v.text) + 1
    [] v.type = "list" -> 12
    [] v.type = "dict" -> 16

SizeOf(v) == HeaderSize + DataSize(v)

\* A value.  num and den are the number of an int or a float, text the characters
\* of a string; value and next are the references of a list node, key, value and
\* next those of a dictionary node.
NoneValue == [ref |-> NullRef, type |-> "none", num |-> 0, den |-> 1, text |-> <<>>,
              key |-> NullRef, value |-> NullRef, next |-> NullRef]
BoolValue == [NoneValue EXCEPT !.type = "bool"]
IntValue(n) == [NoneValue EXCEPT !.type = "int", !.num = n]
FloatValue(q) == [NoneValue EXCEPT !.type = "float", !.num = q.num, !.den = q.den]
StringValue(t) == [NoneValue EXCEPT !.type = "str", !.text = t]
ListNode(v) == [NoneValue EXCEPT !.type = "list", !.value = v]
DictNode(k, v) == [NoneValue EXCEPT !.type = "dict", !.key = k, !.value = v]

\* mem holds the values by their address, free is freeptr, size MEMORY_SIZE and
\* count num_refs.  A count beyond the table is kept at one more than its size,
\* since the code only compares it.  fault tells how the process ended.
EmptyPool(size, slots) ==
  [mem |-> <<>>, free |-> 0, size |-> size,
   table |-> [i \in 0..(slots - 1) |-> NoAddress], count |-> 0,
   fault |-> "none"]

Valid(p, r) == r \in DOMAIN p.table /\ p.table[r] # NoAddress
Deref(p, r) == p.mem[p.table[r]]
References(v) == {v.key, v.value, v.next} \ {NullRef}

\* The values with v at address a.
With(mem, a, v) == [b \in DOMAIN mem \cup {a} |-> IF b = a THEN v ELSE mem[b]]

Smallest(S) == CHOOSE i \in S : \A j \in S : i <= j

----------------------------------------------------------------------------
(***************************************************************************)
(* Marking                                                                 *)
(***************************************************************************)

\* These references, and those in their values.
Followed(p, refs) ==
  refs \cup UNION {References(Deref(p, r)) : r \in {q \in refs : Valid(p, q)}}

\* The references that marking gets to from the roots.
Marked(p, roots) ==
  LET reached[n \in 0..Cardinality(DOMAIN p.mem)] ==
        IF n = 0 THEN roots \ {NullRef} ELSE Followed(p, reached[n - 1])
  IN reached[Cardinality(DOMAIN p.mem)]

\* mark_mem stops at list nodes that are marked, but at no other value: a cycle
\* of dictionary nodes is followed for ever.
EndlessDicts(p, refs) ==
  LET dicts == {r \in refs : Deref(p, r).type = "dict"}
  IN \E cycle \in SUBSET dicts \ {{}} :
       \A r \in cycle : References(Deref(p, r)) \cap cycle # {}

----------------------------------------------------------------------------
(***************************************************************************)
(* Sweep and compaction                                                    *)
(***************************************************************************)

\* Mutant: the table keeps the address that the value had.
SweepOneKeepsAddress(p, marked, s, from) ==
  LET v == p.mem[from]
      to == s.free
  IN IF v.ref \notin marked
     THEN [s EXCEPT !.table[v.ref] = NoAddress]
     ELSE [s EXCEPT
             !.mem = With(@, to, v),
             !.free = to + SizeOf(v),
             !.fault = IF to < from /\ from + SizeField < to + SizeOf(v)
                       THEN "pool corrupt" ELSE @]

\* Mutant: the data of an int is not moved.
SweepOneKeepsData(p, marked, s, from) ==
  LET v == p.mem[from]
      to == s.free
  IN IF v.ref \notin marked
     THEN [s EXCEPT !.table[v.ref] = NoAddress]
     ELSE [s EXCEPT
             !.table[v.ref] = to,
             !.mem = With(@, to, [v EXCEPT !.num = 0]),
             !.free = to + SizeOf(v),
             !.fault = IF to < from /\ from + SizeField < to + SizeOf(v)
                       THEN "pool corrupt" ELSE @]

\* One block at address from of pool p.  The code takes the size of the block
\* from its old header after it moved it: when the block was moved over that
\* field, the sweep and the free pointer are lost.
SweepOne(p, marked, s, from) ==
  LET v == p.mem[from]
      to == s.free
  IN IF v.ref \notin marked
     THEN [s EXCEPT !.table[v.ref] = NoAddress]
     ELSE [s EXCEPT
             !.table[v.ref] = to,
             !.mem = With(@, to, v),
             !.free = to + SizeOf(v),
             !.fault = IF to < from /\ from + SizeField < to + SizeOf(v)
                       THEN "pool corrupt" ELSE @]

\* All blocks, from the start of the pool up to the free pointer.
Sweep(p, marked) ==
  LET below(n) == {a \in DOMAIN p.mem : a < n}
      last(n) == CHOOSE a \in below(n) : \A b \in below(n) : b <= a
      swept[n \in 0..p.free] ==
        IF below(n) = {} THEN [p EXCEPT !.mem = <<>>, !.free = 0]
        ELSE SweepOne(p, marked, swept[last(n)], last(n))
  IN swept[p.free]

\* collect_garbage.  Marking asserts that what it gets to is in the table.
Compacted(p, marked) ==
  IF \E r \in marked : ~Valid(p, r) THEN [p EXCEPT !.fault = "assertion"]
  ELSE IF EndlessDicts(p, marked) THEN [p EXCEPT !.fault = "stack overflow"]
  ELSE Sweep(p, marked)

Collect(p, roots) == Compacted(p, Marked(p, roots))

----------------------------------------------------------------------------
(***************************************************************************)
(* Allocation                                                              *)
(***************************************************************************)
\* Mutant: the header of the value is not counted.
HasSpaceOfData(p, v) == p.free + SizeOf(v) - HeaderSize <= p.size

HasSpace(p, v) == p.free + SizeOf(v) <= p.size

\* make_reference, and the new value at the free pointer.  The first unused
\* slot below num_refs is taken, else the one at num_refs; num_refs grows in
\* both cases.  The table doubles when num_refs is its size and no slot is
\* unused; once num_refs has passed that size, the search leaves the table.
Grown(table) ==
  LET max == Cardinality(DOMAIN table)
  IN [i \in 0..(2 * max - 1) |-> IF i < max THEN table[i] ELSE NoAddress]

WithReference(p, table, slot, v) ==
  [p EXCEPT
     !.table = [table EXCEPT ![slot] = p.free],
     !.count = IF p.count > Cardinality(DOMAIN table) THEN @ ELSE @ + 1,
     !.mem = With(@, p.free, [v EXCEPT !.ref = slot]),
     !.free = @ + SizeOf(v)]

AllocateIn(p, unused, v) ==
  CASE unused # {} -> WithReference(p, p.table, Smallest(unused), v)
    [] unused = {} /\ p.count < Cardinality(DOMAIN p.table) ->
         WithReference(p, p.table, p.count, v)
    [] unused = {} /\ p.count = Cardinality(DOMAIN p.table) ->
         WithReference(p, Grown(p.table), p.count, v)
    [] OTHER -> [p EXCEPT !.fault = "table overrun"]

Allocate(p, v) ==
  AllocateIn(p, {i \in DOMAIN p.table : i < p.count /\ p.table[i] = NoAddress}, v)

\* mm_malloc: the process ends when a collection made no room.
AfterCollection(q, v) ==
  IF q.fault # "none" THEN q
  ELSE IF HasSpace(q, v) THEN Allocate(q, v)
  ELSE [q EXCEPT !.fault = "no memory"]

MmMalloc(p, v, roots) ==
  IF HasSpace(p, v) THEN Allocate(p, v) ELSE AfterCollection(Collect(p, roots), v)

\* The reference of the value allocated last.
Newest(p) == LET last == CHOOSE a \in DOMAIN p.mem :
                           a + SizeOf(p.mem[a]) = p.free
             IN p.mem[last].ref

\* Values lie one after the other up to the free pointer, and the table and the
\* references in the values are inverse to each other.  Used slots are below
\* num_refs (alloc.c:57-61).
Sound(p) ==
  LET ends == {a + SizeOf(p.mem[a]) : a \in DOMAIN p.mem}
  IN /\ ends \cup {0} = DOMAIN p.mem \cup {p.free}
     /\ \A a \in DOMAIN p.mem : p.table[p.mem[a].ref] = a
     /\ \A r \in DOMAIN p.table : Valid(p, r) => r < p.count /\ Deref(p, r).ref = r
=============================================================================
