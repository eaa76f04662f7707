----------------------------- MODULE LinkedList -----------------------------
(***************************************************************************)
(* The singly linked list of lab05 (linkedlist.c) with its nodes in a      *)
(* small-object pool (the LL_NODEPOOL build).  A list is a record          *)
(*   head, tail    the ends, Nil in an empty list                          *)
(*   value, next   the two fields of every node                            *)
(*   pool          where the nodes come from                               *)
(***************************************************************************)
EXTENDS ListTypes, SmallObj, SequencesExt

Node == Object

ASSUME NodeAssumption == IsFiniteSet(Chunk) /\ Nil \notin Node

\* What a node holds before it is filled and after it is freed.
Unset == Nil

LinkedListType ==
  [head : Node \cup {Nil}, tail : Node \cup {Nil},
   value : [Node -> Value \cup {Unset}], next : [Node -> Node \cup {Nil}],
   pool : PoolType]

EmptyLinkedList ==
  [head |-> Nil, tail |-> Nil,
   value |-> [n \in Node |-> Unset], next |-> [n \in Node |-> Nil],
   pool |-> EmptyPool]

\* The nodes in order, following next from the head.
Nodes(l) ==
  LET from[fuel \in 0..Cardinality(Node)] ==
        [n \in Node \cup {Nil} |->
           IF n = Nil \/ fuel = 0 THEN <<>> ELSE <<n>> \o from[fuel - 1][l.next[n]]]
  IN from[Cardinality(Node)][l.head]

LLContents(l) == LET nodes == Nodes(l) IN [i \in DOMAIN nodes |-> l.value[nodes[i]]]

LLSize(l) == Len(Nodes(l))

\* Mutant: the new node is not linked to what follows it.
LLInsertCutsTail(l, index, v, c) ==
  LET got == SoAlloc(l.pool, c)
      node == got.object
      prev == IF index = 0 THEN Nil ELSE Nodes(l)[index]
      linked == IF prev = Nil THEN l.next ELSE [l.next EXCEPT ![prev] = node]
  IN [head |-> IF prev = Nil THEN node ELSE l.head,
      tail |-> l.tail,
      value |-> [l.value EXCEPT ![node] = v],
      next |-> [linked EXCEPT ![node] = Nil],
      pool |-> got.pool]

\* Insert v before the node at index.  At the end of the list the tail becomes
\* null; anywhere else it stays.
LLInsert(l, index, v, c) ==
  LET got == SoAlloc(l.pool, c)
      node == got.object
      prev == IF index = 0 THEN Nil ELSE Nodes(l)[index]
      curr == IF prev = Nil THEN l.head ELSE l.next[prev]
      linked == IF prev = Nil THEN l.next ELSE [l.next EXCEPT ![prev] = node]
  IN [head |-> IF prev = Nil THEN node ELSE l.head,
      tail |-> IF curr = Nil THEN Nil ELSE l.tail,
      value |-> [l.value EXCEPT ![node] = v],
      next |-> [linked EXCEPT ![node] = curr],
      pool |-> got.pool]

\* Append trusts the tail: with a null tail the node becomes the whole list.
LLAppend(l, v, c) ==
  LET got == SoAlloc(l.pool, c)
      node == got.object
      linked == IF l.tail = Nil THEN l.next ELSE [l.next EXCEPT ![l.tail] = node]
  IN [head |-> IF l.tail = Nil THEN node ELSE l.head,
      tail |-> node,
      value |-> [l.value EXCEPT ![node] = v],
      next |-> [linked EXCEPT ![node] = Nil],
      pool |-> got.pool]

LLContains(l, v) == \E n \in ToSet(Nodes(l)) : l.value[n] = v

\* The nodes of s that are in S, pushed on the front of a list one by one.
Pushed(s, S) ==
  LET part[i \in 0..Len(s)] ==
        IF i = 0 THEN <<>>
        ELSE (IF s[i] \in S THEN <<s[i]>> ELSE <<>>) \o part[i - 1]
  IN part[Len(s)]

\* The order ll_quicksort gives a sequence of nodes, around the first one.
QuickSorted(l, nodes) ==
  LET sorted[s \in Seq(Node)] ==
        IF Len(s) <= 1 THEN s
        ELSE LET rest == ToSet(Tail(s))
                 lower == {n \in rest : l.value[n] < l.value[Head(s)]}
             IN sorted[Pushed(Tail(s), lower)] \o <<Head(s)>>
                \o sorted[Pushed(Tail(s), rest \ lower)]
  IN sorted[nodes]

\* Sort relinks the nodes; the tail is set to the new head.
LLSort(l) ==
  LET order == QuickSorted(l, Nodes(l))
      after(n) == LET i == CHOOSE j \in DOMAIN order : order[j] = n
                  IN IF i = Len(order) THEN Nil ELSE order[i + 1]
  IN IF l.head = Nil THEN l
     ELSE [l EXCEPT !.head = order[1],
                    !.tail = order[1],
                    !.next = [n \in Node |-> IF n \in ToSet(order) THEN after(n)
                                             ELSE l.next[n]]]

\* Mutant: the last node is not freed.
LLClearKeepsLast(l) ==
  LET nodes == Nodes(l)
      rest[i \in 0..Len(nodes)] == IF i = 0 THEN l.pool
                                   ELSE SoFree(rest[i - 1], nodes[i])
  IN [EmptyLinkedList EXCEPT !.pool = rest[IF nodes = <<>> THEN 0 ELSE Len(nodes) - 1]]

\* Every node is given back to the pool, from the head on.
LLClear(l) ==
  LET nodes == Nodes(l)
      rest[i \in 0..Len(nodes)] == IF i = 0 THEN l.pool
                                   ELSE SoFree(rest[i - 1], nodes[i])
  IN [EmptyLinkedList EXCEPT !.pool = rest[Len(nodes)]]

LLIter(l) == l.head
LLIterGet(l, it) == l.value[it]
LLIterNext(l, it) == l.next[it]

\* The tail pointer is what append needs it to be.
TailIsLast(l) ==
  l.tail = IF Nodes(l) = <<>> THEN Nil ELSE Last(Nodes(l))
=============================================================================
