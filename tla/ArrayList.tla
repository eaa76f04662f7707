----------------------------- MODULE ArrayList ------------------------------
(***************************************************************************)
(* The array list of lab05 (arraylist.c): a record                         *)
(*   size      elems_size                                                  *)
(*   capacity  elems_capacity; 0 exactly when elems is the null pointer    *)
(*   elems     the cells 0 .. capacity - 1                                 *)
(***************************************************************************)
EXTENDS ListTypes, Sequences, FiniteSets

CONSTANTS FirstCapacity  \* the capacity of the first array, 16 in the code

ASSUME FirstCapacityAssumption == FirstCapacity \in Nat \ {0}

EmptyArrayList == [size |-> 0, capacity |-> 0, elems |-> <<>>]

ALContents(a) == [i \in 1..a.size |-> a.elems[i - 1]]

\* A full array is replaced by one of twice the capacity with the old cells
\* copied; its other cells are unset.
EnsureSpace(a) ==
  LET grown == IF a.capacity = 0 THEN FirstCapacity ELSE 2 * a.capacity
  IN IF a.size < a.capacity THEN a
     ELSE [a EXCEPT !.capacity = grown,
                    !.elems = [i \in 0..(grown - 1) |->
                                 IF i < a.capacity THEN a.elems[i] ELSE Nil]]

\* Mutant: the shift runs upwards, so it copies one element over the others.
ALInsertShiftUp(a, index, v) ==
  LET b == EnsureSpace(a)
  IN [b EXCEPT !.size = @ + 1,
               !.elems = [i \in DOMAIN @ |->
                            CASE i = index -> v
                              [] i > index /\ i <= a.size -> @[index]
                              [] OTHER -> @[i]]]

\* Everything from index on moves up by one cell.
ALInsert(a, index, v) ==
  LET b == EnsureSpace(a)
  IN [b EXCEPT !.size = @ + 1,
               !.elems = [i \in DOMAIN @ |->
                            CASE i = index -> v
                              [] i > index /\ i <= a.size -> @[i - 1]
                              [] OTHER -> @[i]]]

ALAppend(a, v) ==
  LET b == EnsureSpace(a)
  IN [b EXCEPT !.size = @ + 1, !.elems = [@ EXCEPT ![a.size] = v]]

ALClear(a) == EmptyArrayList

ALContains(a, v) == \E i \in 0..(a.size - 1) : a.elems[i] = v

\* qsort with al_compare_elems, whose sign is that of x - y: the elements in
\* increasing order.
ALSort(a) ==
  LET below(i) == {j \in 0..(a.size - 1) : \/ a.elems[j] - a.elems[i] < 0
                                           \/ a.elems[j] = a.elems[i] /\ j < i}
      rank(k) == CHOOSE i \in 0..(a.size - 1) : Cardinality(below(i)) = k
  IN [a EXCEPT !.elems = [k \in DOMAIN @ |-> IF k < a.size THEN @[rank(k)] ELSE @[k]]]

\* An iterator is a cell; Nil is the null pointer.
ALIter(a) == IF a.capacity = 0 THEN Nil ELSE 0
ALIterGet(a, it) == a.elems[it]

ALIterNext(a, it) == IF it + 1 >= a.size THEN Nil ELSE it + 1
=============================================================================
