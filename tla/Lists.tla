------------------------------- MODULE Lists --------------------------------
(***************************************************************************)
(* The list interface of lab05 (lists.h, lists.c) over its two             *)
(* implementations: a client makes the same calls on an array list and on  *)
(* a linked list, as listperf.c does in its two modes, and can read each   *)
(* with an iterator.  An iterator is given up when the list changes.       *)
(***************************************************************************)
EXTENDS LinkedList, ArrayList

CONSTANT MaxLength  \* bound on the length of the lists

ASSUME MaxLengthAssumption == MaxLength \in Nat

VARIABLES linked, array,
          iter  \* the client's iterators: [node, cell]

vars == <<linked, array, iter>>

NoIter == [node |-> Nil, cell |-> Nil]

Init == linked = EmptyLinkedList /\ array = EmptyArrayList /\ iter = NoIter

\* The addresses malloc may return for a new chunk.
Fresh == Chunk \ Chunks(linked.pool)

\* Index runs over the positions the code accepts without an assertion.
Insert(index, v) ==
  /\ LLSize(linked) < MaxLength
  /\ \E c \in Fresh : linked' = LLInsert(linked, index, v, c)
  /\ array' = ALInsert(array, index, v)
  /\ iter' = NoIter

AppendValue(v) ==
  /\ LLSize(linked) < MaxLength
  /\ \E c \in Fresh : linked' = LLAppend(linked, v, c)
  /\ array' = ALAppend(array, v)
  /\ iter' = NoIter

Sort ==
  /\ linked' = LLSort(linked)
  /\ array' = ALSort(array)
  /\ iter' = NoIter

Clear ==
  /\ linked' = LLClear(linked)
  /\ array' = ALClear(array)
  /\ iter' = NoIter

Iterate ==
  /\ iter' = [node |-> LLIter(linked), cell |-> ALIter(array)]
  /\ UNCHANGED <<linked, array>>

\* The client stops when either iterator is null.
Advance ==
  /\ iter.node # Nil /\ iter.cell # Nil
  /\ iter' = [node |-> LLIterNext(linked, iter.node),
              cell |-> ALIterNext(array, iter.cell)]
  /\ UNCHANGED <<linked, array>>

NextWithoutAppend ==
  \/ \E v \in Value, index \in 0..LLSize(linked) : Insert(index, v)
  \/ Sort \/ Clear \/ Iterate \/ Advance

Next == NextWithoutAppend \/ \E v \in Value : AppendValue(v)

Spec == Init /\ [][Next]_vars

\* The client that appends only while the tail is sound: not after it inserted
\* at the end or sorted, until it clears the list.
CarefulNext ==
  \/ NextWithoutAppend
  \/ TailIsLast(linked) /\ \E v \in Value : AppendValue(v)

CarefulSpec == Init /\ [][CarefulNext]_vars

----------------------------------------------------------------------------
TypeOK ==
  /\ linked \in LinkedListType
  /\ array.size \in 0..MaxLength
  /\ array.elems \in [0..(array.capacity - 1) -> Value \cup {Nil}]
  /\ iter \in [node : Node \cup {Nil}, cell : (0..MaxLength) \cup {Nil}]

\* The two implementations hold the same sequence: what size, get and contains
\* tell of one they tell of the other, and their iterators read the same values
\* and end together.
ListsAgree ==
  /\ LLSize(linked) = array.size
  /\ LLContents(linked) = ALContents(array)
  /\ \A v \in Value : LLContains(linked, v) <=> ALContains(array, v)
  /\ iter.node = Nil <=> iter.cell = Nil
  /\ iter.node # Nil => LLIterGet(linked, iter.node) = ALIterGet(array, iter.cell)

\* The pool is neither short of nor overrun by the list: the nodes in use are
\* distinct objects of chunks that are not released, and each chunk counts
\* exactly its own as handed out and not freed.  Only the last chunk has room,
\* and none stays all of whose objects were handed out and freed, so an emptied
\* list holds at most one chunk (smallobj.c:246-310).
NodesOwned ==
  LET nodes == Nodes(linked)
      pool == linked.pool
      chunks == pool.chunks
  IN /\ IsInjective(nodes)
     /\ \A i \in DOMAIN nodes :
          ChunkOf(nodes[i]) \in Chunks(pool) /\ nodes[i][2] < pool.taken[ChunkOf(nodes[i])]
     /\ \A c \in Chunk :
          pool.taken[c] - pool.freed[c]
            = Cardinality({i \in DOMAIN nodes : ChunkOf(nodes[i]) = c})
     /\ IsInjective(chunks)
     /\ \A i \in DOMAIN chunks :
          /\ pool.taken[chunks[i]] > 0
          /\ pool.freed[chunks[i]] < PerChunk
          /\ i < Len(chunks) => pool.taken[chunks[i]] = PerChunk
     /\ nodes = <<>> => Len(chunks) <= 1

\* There is an array exactly when there are elements (else the iterator of an
\* empty list would not be null), they fit it, and it is less than twice too
\* large (arraylist.c:28).
ArrayFits ==
  /\ array.capacity = 0 <=> array.size = 0
  /\ array.size <= array.capacity
  /\ array.capacity > FirstCapacity => array.capacity < 2 * array.size
  /\ \A i \in 0..(array.size - 1) : array.elems[i] # Nil

\* The storage of both lists, after any sequence of operations.
StorageSound == NodesOwned /\ ArrayFits

\* "The tail of the linked list, or NULL if the list is empty"
\* (linkedlist.c:44).
TailSound == TailIsLast(linked)

----------------------------------------------------------------------------
(***************************************************************************)
(* Both lists implement the sequence of ListSpec.                          *)
(***************************************************************************)
Promise ==
  INSTANCE ListSpec WITH
    contents <- LLContents(linked),
    toRead <- IF iter.cell = Nil THEN <<>>
              ELSE SubSeq(ALContents(array), iter.cell + 1, array.size)

ImplementsListSpec == Promise!Spec
=============================================================================
