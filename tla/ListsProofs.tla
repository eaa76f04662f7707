---------------------------- MODULE ListsProofs ----------------------------
(***************************************************************************)
(* Theorems about the two lists of lab05, for any chunks, values and       *)
(* lengths, and any client that appends only while the tail is sound: the  *)
(* types, the storage, that the lists agree, and that both implement the   *)
(* sequence of ListSpec.                                                   *)
(***************************************************************************)
EXTENDS Lists, DataLemmas

----------------------------------------------------------------------------
(***************************************************************************)
(* The nodes of a linked list                                              *)
(***************************************************************************)

\* The nodes of s are linked in this order from the head of l on.
Chained(l, s) ==
  /\ s \in Seq(Node)
  /\ \A i, j \in 1..Len(s) : s[i] = s[j] => i = j
  /\ l.head = IF Len(s) = 0 THEN Nil ELSE s[1]
  /\ \A i \in 1..Len(s) : l.next[s[i]] = IF i = Len(s) THEN Nil ELSE s[i + 1]

LEMMA NodesFinite == IsFiniteSet(Node) /\ Cardinality(Node) \in Nat /\ Nil \notin Node
<1>1. IsFiniteSet(0..(PerChunk - 1))
  BY PerChunkAssumption, FS_Interval
<1>2. IsFiniteSet(Node)
  BY <1>1, NodeAssumption, FS_Product DEF Node, Object
<1> QED BY <1>2, FS_CardinalityType, NodeAssumption

LEMMA ChainLength ==
  ASSUME NEW l, NEW s, Chained(l, s)
  PROVE  Len(s) \in Nat /\ Len(s) <= Cardinality(Node)
<1>1. Len(s) \in Nat /\ s \in [1..Len(s) -> Node]
  BY DEF Chained
<1>2. s \in Injection(1..Len(s), Node)
  BY <1>1 DEF Chained, Injection, IsInjective
<1>3. Cardinality(1..Len(s)) = Len(s)
  BY <1>1, FS_Interval
<1> QED BY <1>1, <1>2, <1>3, NodesFinite, FS_Injection

\* One more node is followed.
LEMMA LongerPath ==
  ASSUME NEW s \in Seq(Node), NEW i \in 1..Len(s)
  PROVE  SubSeq(s, i, Len(s)) = <<s[i]>> \o SubSeq(s, i + 1, Len(s))
<1>1. Len(s) \in i..Len(s)
  OBVIOUS
<1> QED BY <1>1, SubSeqRecursiveFirst

\* Following next from the head gives the nodes in their order.
LEMMA NodesOfChain ==
  ASSUME NEW l, l.next \in [Node -> Node \cup {Nil}], NEW s, Chained(l, s)
  PROVE  Nodes(l) = s
<1> DEFINE N == Cardinality(Node)
<1> DEFINE P == Node \cup {Nil}
<1> DEFINE Body(h) ==
      [fuel \in 0..N |->
        [n \in P |-> IF n = Nil \/ fuel = 0 THEN <<>> ELSE <<n>> \o h[fuel - 1][l.next[n]]]]
<1> DEFINE from == CHOOSE h : h = Body(h)
<1>1. Nodes(l) = from[N][l.head]
  BY DEF Nodes
<1>2. N \in Nat /\ Nil \notin Node
  BY NodesFinite
<1>3. from = Body(from)
  <2> DEFINE S == [P -> Seq(Node)]
  <2> DEFINE F == [h \in S |-> [n \in P |-> IF n = Nil THEN <<>> ELSE <<n>> \o h[l.next[n]]]]
  <2> DEFINE start == [n \in P |-> <<>>]
  <2>1. start \in S
    OBVIOUS
  <2>2. F \in [S -> S]
    <3> SUFFICES ASSUME NEW h \in S, NEW n \in P, n # Nil PROVE <<n>> \o h[l.next[n]] \in Seq(Node)
      OBVIOUS
    <3>1. h[l.next[n]] \in Seq(Node) /\ <<n>> \in Seq(Node)
      OBVIOUS
    <3> QED BY <3>1, ConcatProperties
  <2>3. PICK g : Iteration(S, F, start, N, g)
    <3> HIDE DEF S, F, start, N
    <3> QED BY <2>1, <2>2, <1>2, Iterates
  <2>4. g = Body(g)
    <3>1. g = [fuel \in 0..N |-> g[fuel]] /\ g[0] = start
      BY <2>3 DEF Iteration
    <3>2. \A fuel \in 1..N : g[fuel - 1] \in S /\ g[fuel] = F[g[fuel - 1]]
      <4> HIDE DEF N, S, F, start
      <4>1. \A fuel \in 1..N : fuel - 1 \in 0..N
        BY <1>2
      <4> QED BY <2>3, <4>1 DEF Iteration
    <3>3. ASSUME NEW fuel \in 0..N
          PROVE  g[fuel] = [n \in P |-> IF n = Nil \/ fuel = 0 THEN <<>>
                                        ELSE <<n>> \o g[fuel - 1][l.next[n]]]
      <4>1. CASE fuel = 0
        BY <3>1, <4>1
      <4>2. CASE fuel # 0
        <5>1. fuel \in 1..N
          BY <4>2, <1>2
        <5>2. g[fuel] = F[g[fuel - 1]] /\ g[fuel - 1] \in S
          BY <5>1, <3>2
        <5> HIDE DEF S, P
        <5> QED BY <5>2, <4>2
      <4> QED BY <4>1, <4>2
    <3> HIDE DEF N, P, start, F, S
    <3> QED BY <3>1, <3>3
  <2> HIDE DEF Body
  <2> QED BY <2>4
<1> HIDE DEF from
<1> DEFINE at(i) == IF i = Len(s) + 1 THEN Nil ELSE s[i]
<1> DEFINE Wrong == {k \in 0..N : \E i \in 1..(Len(s) + 1) :
                       k + i >= Len(s) + 1 /\ from[k][at(i)] # SubSeq(s, i, Len(s))}
<1>4. s \in Seq(Node) /\ Len(s) \in Nat /\ Len(s) <= N
  BY ChainLength DEF Chained
<1>5. Wrong = {}
  <2> SUFFICES ASSUME Wrong # {} PROVE FALSE
    OBVIOUS
  <2>1. PICK k \in Wrong : \A m \in Wrong : ~(m < k)
    <3>1. Wrong \in SUBSET Nat
      BY <1>2
    <3> HIDE DEF Wrong
    <3> QED BY <3>1, LeastNatural
  <2>2. PICK i \in 1..(Len(s) + 1) : k + i >= Len(s) + 1 /\ from[k][at(i)] # SubSeq(s, i, Len(s))
    OBVIOUS
  <2>3. k \in 0..N /\ k \in Int /\ at(i) \in P
    BY <1>4
  <2>4. from[k][at(i)] = IF at(i) = Nil \/ k = 0 THEN <<>>
                         ELSE <<at(i)>> \o from[k - 1][l.next[at(i)]]
    <3> DEFINE B == Body(from)
    <3>1. B[k][at(i)] = IF at(i) = Nil \/ k = 0 THEN <<>>
                        ELSE <<at(i)>> \o from[k - 1][l.next[at(i)]]
      <4> HIDE DEF at, N, P
      <4> QED BY ONLY <2>3
    <3>2. from = B
      BY ONLY <1>3
    <3> HIDE DEF B
    <3> QED BY ONLY <3>1, <3>2
  <2>5. CASE i = Len(s) + 1
    <3>1. SubSeq(s, i, Len(s)) = <<>>
      BY <2>5, <1>4, SubSeqEmpty
    <3> QED BY <3>1, <2>5, <2>4, <2>2
  <2>6. CASE i # Len(s) + 1
    <3>1. i \in 1..Len(s) /\ i + 1 \in 1..(Len(s) + 1) /\ k # 0
      BY ONLY <2>6, <2>2, <1>4, <2>3
    <3>2. at(i) = s[i] /\ s[i] \in Node /\ s[i] # Nil
      BY <3>1, <1>4, <1>2
    <3>3. l.next[s[i]] = at(i + 1)
      BY <3>1, <1>4 DEF Chained
    <3>4. from[k - 1][at(i + 1)] = SubSeq(s, i + 1, Len(s))
      <4>1. k - 1 \in 0..N /\ k - 1 < k /\ (k - 1) + (i + 1) >= Len(s) + 1
        BY <3>1, <2>3, <1>2, <2>2, <1>4
      <4> QED BY <4>1, <3>1, <2>1
    <3>5. SubSeq(s, i, Len(s)) = <<s[i]>> \o SubSeq(s, i + 1, Len(s))
      BY <3>1, <1>4, LongerPath
    <3> HIDE DEF at
    <3> QED BY <2>2, <2>4, <3>1, <3>2, <3>3, <3>4, <3>5
  <2> QED BY <2>5, <2>6
<1>6. l.head = at(1) /\ 1 \in 1..(Len(s) + 1) /\ N \in 0..N /\ N + 1 >= Len(s) + 1
  BY <1>2, <1>4 DEF Chained
<1>7. from[N][at(1)] = SubSeq(s, 1, Len(s))
  BY <1>5, <1>6
<1> QED BY <1>1, <1>6, <1>7, <1>4, SubSeqFull

----------------------------------------------------------------------------
(***************************************************************************)
(* Sequences with one element more or less                                 *)
(***************************************************************************)
LEMMA InsertProperties ==
  ASSUME NEW S, NEW s \in Seq(S), NEW k \in 1..(Len(s) + 1), NEW e \in S
  PROVE  /\ InsertAt(s, k, e) \in Seq(S) /\ Len(InsertAt(s, k, e)) = Len(s) + 1
         /\ \A i \in 1..(Len(s) + 1) :
              InsertAt(s, k, e)[i] = IF i < k THEN s[i] ELSE IF i = k THEN e ELSE s[i - 1]
<1> DEFINE a == SubSeq(s, 1, k - 1)
<1> DEFINE b == SubSeq(s, k, Len(s))
<1>1. Len(s) \in Nat /\ k \in Int /\ k - 1 \in Int /\ \A i \in 1..Len(s) : s[i] \in S
  OBVIOUS
<1>2. /\ a \in Seq(S) /\ Len(a) = k - 1
      /\ \A i \in 1..(k - 1) : a[i] = s[i]
  <2>1. \A i \in 1..(k - 1) : s[i] \in S
    BY <1>1
  <2>2. /\ a \in Seq(S) /\ Len(a) = IF 1 <= k - 1 THEN (k - 1) - 1 + 1 ELSE 0
        /\ \A i \in 1..((k - 1) - 1 + 1) : a[i] = s[1 + i - 1]
    BY <1>1, <2>1, SubSeqProperties
  <2> HIDE DEF a
  <2> QED BY <1>1, <2>2
<1>3. /\ b \in Seq(S) /\ Len(b) = Len(s) - k + 1
      /\ \A i \in 1..(Len(s) - k + 1) : b[i] = s[k + i - 1]
  <2>1. \A i \in k..Len(s) : s[i] \in S
    BY <1>1
  <2>2. /\ b \in Seq(S) /\ Len(b) = IF k <= Len(s) THEN Len(s) - k + 1 ELSE 0
        /\ \A i \in 1..(Len(s) - k + 1) : b[i] = s[k + i - 1]
    BY <1>1, <2>1, SubSeqProperties
  <2> HIDE DEF b
  <2> QED BY <1>1, <2>2
<1> HIDE DEF a, b
<1>4. /\ a \o <<e>> \in Seq(S) /\ Len(a \o <<e>>) = k
      /\ \A i \in 1..k : (a \o <<e>>)[i] = IF i < k THEN s[i] ELSE e
  <2>1. <<e>> \in Seq(S) /\ Len(<<e>>) = 1 /\ <<e>>[1] = e
    OBVIOUS
  <2> DEFINE f == <<e>>
  <2>5. f \in Seq(S) /\ Len(f) = 1 /\ f[1] = e
    BY <2>1
  <2> HIDE DEF f
  <2>2. /\ a \o f \in Seq(S) /\ Len(a \o f) = Len(a) + Len(f)
        /\ \A i \in 1..(Len(a) + Len(f)) : (a \o f)[i] = IF i <= Len(a) THEN a[i] ELSE f[i - Len(a)]
    BY <1>2, <2>5, ConcatProperties
  <2>3. ASSUME NEW i \in 1..k PROVE (a \o f)[i] = IF i < k THEN s[i] ELSE e
    <3>1. CASE i < k
      <4>1. i \in 1..(k - 1) /\ i <= Len(a) /\ i \in 1..(Len(a) + Len(f))
        BY <3>1, <1>2, <1>1, <2>5
      <4> QED BY <2>2, <4>1, <1>2, <3>1
    <3>2. CASE i = k
      <4>1. i - Len(a) = 1 /\ ~(i <= Len(a)) /\ i \in 1..(Len(a) + Len(f))
        BY <3>2, <1>2, <1>1, <2>5
      <4> QED BY <2>2, <4>1, <2>5, <3>2
    <3>3. i < k \/ i = k
      BY <1>1
    <3> QED BY ONLY <3>1, <3>2, <3>3
  <2>4. Len(a \o f) = k
    BY <2>2, <2>5, <1>2, <1>1
  <2> QED BY <2>2, <2>3, <2>4 DEF f
<1> DEFINE c == a \o <<e>>
<1>9. c \in Seq(S) /\ Len(c) = k /\ \A i \in 1..k : c[i] = IF i < k THEN s[i] ELSE e
  BY <1>4
<1> HIDE DEF c
<1>5. /\ c \o b \in Seq(S) /\ Len(c \o b) = Len(c) + Len(b)
      /\ \A i \in 1..(Len(c) + Len(b)) : (c \o b)[i] = IF i <= Len(c) THEN c[i] ELSE b[i - Len(c)]
  BY <1>3, <1>9, ConcatProperties
<1>6. InsertAt(s, k, e) = c \o b
  BY DEF InsertAt, a, b, c
<1>7. ASSUME NEW i \in 1..(Len(s) + 1)
      PROVE  (c \o b)[i] = IF i < k THEN s[i] ELSE IF i = k THEN e ELSE s[i - 1]
  <2>1. CASE i <= k
    <3>1. i \in 1..k /\ i <= Len(c) /\ i \in 1..(Len(c) + Len(b))
      BY <2>1, <1>9, <1>3, <1>1
    <3>2. (c \o b)[i] = c[i] /\ c[i] = IF i < k THEN s[i] ELSE e
      BY <3>1, <1>5, <1>9
    <3>3. i < k \/ i = k
      BY <2>1, <1>1
    <3> QED BY <3>2, <3>3
  <2>2. CASE i > k
    <3>1. i - k \in 1..(Len(s) - k + 1) /\ k + (i - k) - 1 = i - 1
      BY <2>2, <1>1
    <3>2. b[i - k] = s[i - 1]
      BY <3>1, <1>3
    <3>3. i \in 1..(Len(c) + Len(b)) /\ ~(i <= Len(c)) /\ Len(c) = k
      BY <2>2, <1>9, <1>3, <1>1
    <3>4. ~(i < k) /\ i # k
      BY <2>2, <1>1
    <3> QED BY <1>5, <3>2, <3>3, <3>4
  <2>3. i <= k \/ i > k
    BY <1>1
  <2> QED BY ONLY <2>1, <2>2, <2>3
<1>8. Len(c \o b) = Len(s) + 1
  BY <1>5, <1>9, <1>3, <1>1
<1> QED BY <1>5, <1>6, <1>7, <1>8

LEMMA RemoveProperties ==
  ASSUME NEW S, NEW s \in Seq(S), NEW k \in 1..Len(s)
  PROVE  /\ RemoveAt(s, k) \in Seq(S) /\ Len(RemoveAt(s, k)) = Len(s) - 1
         /\ \A i \in 1..(Len(s) - 1) : RemoveAt(s, k)[i] = IF i < k THEN s[i] ELSE s[i + 1]
<1> DEFINE a == SubSeq(s, 1, k - 1)
<1> DEFINE b == SubSeq(s, k + 1, Len(s))
<1>1. Len(s) \in Nat /\ k \in Int /\ k - 1 \in Int /\ k + 1 \in Int /\ \A i \in 1..Len(s) : s[i] \in S
  OBVIOUS
<1>2. /\ a \in Seq(S) /\ Len(a) = k - 1
      /\ \A i \in 1..(k - 1) : a[i] = s[i]
  <2>1. \A i \in 1..(k - 1) : s[i] \in S
    BY <1>1
  <2>2. /\ a \in Seq(S) /\ Len(a) = IF 1 <= k - 1 THEN (k - 1) - 1 + 1 ELSE 0
        /\ \A i \in 1..((k - 1) - 1 + 1) : a[i] = s[1 + i - 1]
    BY <1>1, <2>1, SubSeqProperties
  <2> HIDE DEF a
  <2> QED BY <1>1, <2>2
<1>3. /\ b \in Seq(S) /\ Len(b) = Len(s) - k
      /\ \A i \in 1..(Len(s) - k) : b[i] = s[k + i]
  <2>1. \A i \in (k + 1)..Len(s) : s[i] \in S
    BY <1>1
  <2>2. /\ b \in Seq(S) /\ Len(b) = IF k + 1 <= Len(s) THEN Len(s) - (k + 1) + 1 ELSE 0
        /\ \A i \in 1..(Len(s) - (k + 1) + 1) : b[i] = s[(k + 1) + i - 1]
    BY <1>1, <2>1, SubSeqProperties
  <2> HIDE DEF b
  <2> QED BY <1>1, <2>2
<1> HIDE DEF a, b
<1>4. /\ a \o b \in Seq(S) /\ Len(a \o b) = Len(a) + Len(b)
      /\ \A i \in 1..(Len(a) + Len(b)) : (a \o b)[i] = IF i <= Len(a) THEN a[i] ELSE b[i - Len(a)]
  BY <1>2, <1>3, ConcatProperties
<1>5. RemoveAt(s, k) = a \o b
  BY DEF RemoveAt, a, b
<1>6. ASSUME NEW i \in 1..(Len(s) - 1)
      PROVE  (a \o b)[i] = IF i < k THEN s[i] ELSE s[i + 1]
  <2>1. CASE i < k
    BY <1>2, <1>4, <1>3, <1>1, <2>1
  <2>2. CASE ~(i < k)
    <3>1. i - (k - 1) \in 1..(Len(s) - k) /\ k + (i - (k - 1)) = i + 1
      BY <2>2, <1>1
    <3>2. b[i - (k - 1)] = s[i + 1]
      BY <3>1, <1>3
    <3>3. i \in 1..(Len(a) + Len(b)) /\ ~(i <= Len(a)) /\ Len(a) = k - 1
      BY <2>2, <1>2, <1>3, <1>1
    <3> QED BY <1>4, <3>2, <3>3, <2>2
  <2> QED BY <2>1, <2>2
<1>7. Len(a \o b) = Len(s) - 1
  BY <1>4, <1>2, <1>3, <1>1
<1> QED BY <1>4, <1>5, <1>6, <1>7

----------------------------------------------------------------------------
(***************************************************************************)
(* The pool                                                                *)
(***************************************************************************)

\* The objects M are those that were handed out and not freed.
Distinct(s) == \A i, j \in 1..Len(s) : s[i] = s[j] => i = j
InChunk(M, c) == {n \in M : ChunkOf(n) = c}

Owns(pool, M) ==
  /\ pool \in PoolType
  /\ Distinct(pool.chunks)
  /\ M \in SUBSET Node
  /\ \A n \in M : ChunkOf(n) \in Chunks(pool) /\ n[2] < pool.taken[ChunkOf(n)]
  /\ \A c \in Chunk : Cardinality(InChunk(M, c)) = pool.taken[c] - pool.freed[c]
  /\ \A c \in Chunk \ Chunks(pool) : pool.taken[c] = 0 /\ pool.freed[c] = 0
  /\ \A i \in 1..Len(pool.chunks) :
       /\ pool.taken[pool.chunks[i]] > 0
       /\ pool.freed[pool.chunks[i]] < PerChunk
       /\ i < Len(pool.chunks) => pool.taken[pool.chunks[i]] = PerChunk

LEMMA ChunkSets ==
  ASSUME NEW M \in SUBSET Node
  PROVE  /\ IsFiniteSet(M)
         /\ \A c : IsFiniteSet(InChunk(M, c)) /\ Cardinality(InChunk(M, c)) \in Nat
<1>1. IsFiniteSet(M)
  BY NodesFinite, FS_Subset
<1>2. \A c : InChunk(M, c) \in SUBSET M
  BY DEF InChunk
<1> QED BY <1>1, <1>2, FS_Subset, FS_CardinalityType

\* One object more or less counts in its own chunk.
LEMMA CountMore ==
  ASSUME NEW M \in SUBSET Node, NEW n \in Node \ M, NEW c
  PROVE  Cardinality(InChunk(M \cup {n}, c))
           = IF c = ChunkOf(n) THEN Cardinality(InChunk(M, c)) + 1 ELSE Cardinality(InChunk(M, c))
<1>1. InChunk(M \cup {n}, c) = IF c = ChunkOf(n) THEN InChunk(M, c) \cup {n} ELSE InChunk(M, c)
  BY DEF InChunk
<1>2. n \notin InChunk(M, c)
  BY DEF InChunk
<1> QED BY <1>1, <1>2, ChunkSets, FS_AddElement

LEMMA CountLess ==
  ASSUME NEW M \in SUBSET Node, NEW n \in M, NEW c
  PROVE  Cardinality(InChunk(M \ {n}, c))
           = IF c = ChunkOf(n) THEN Cardinality(InChunk(M, c)) - 1 ELSE Cardinality(InChunk(M, c))
<1>1. InChunk(M \ {n}, c) = IF c = ChunkOf(n) THEN InChunk(M, c) \ {n} ELSE InChunk(M, c)
  BY DEF InChunk
<1>2. c = ChunkOf(n) => n \in InChunk(M, c)
  BY DEF InChunk
<1> QED BY <1>1, <1>2, ChunkSets, FS_RemoveElement

\* What Owns says of the parts of a pool.
LEMMA OwnsParts ==
  ASSUME NEW pool, NEW M, Owns(pool, M)
  PROVE  /\ pool.chunks \in Seq(Chunk) /\ Len(pool.chunks) \in Nat
         /\ pool.taken \in [Chunk -> 0..PerChunk] /\ pool.freed \in [Chunk -> 0..PerChunk]
         /\ pool = [chunks |-> pool.chunks, taken |-> pool.taken, freed |-> pool.freed]
         /\ PerChunk \in Nat /\ PerChunk > 0
         /\ \A d : d \in Chunks(pool) <=> \E i \in 1..Len(pool.chunks) : pool.chunks[i] = d
         /\ Chunks(pool) \subseteq Chunk
<1>1. /\ pool.chunks \in Seq(Chunk) /\ Len(pool.chunks) \in Nat
      /\ pool.taken \in [Chunk -> 0..PerChunk] /\ pool.freed \in [Chunk -> 0..PerChunk]
      /\ pool = [chunks |-> pool.chunks, taken |-> pool.taken, freed |-> pool.freed]
  BY DEF Owns, PoolType
<1>2. PerChunk \in Nat /\ PerChunk > 0
  BY PerChunkAssumption
<1>3. \A d : d \in Chunks(pool) <=> \E i \in 1..Len(pool.chunks) : pool.chunks[i] = d
  BY <1>1 DEF Chunks
<1>4. Chunks(pool) \subseteq Chunk
  BY <1>1, <1>3
<1> QED BY <1>1, <1>2, <1>3, <1>4

\* new is pool after an object of d was taken, and d put at the end of the
\* chunks if it is new.
Takes(pool, d, chunks, new) ==
  /\ d \in Chunk /\ pool.taken[d] < PerChunk
  /\ chunks \in Seq(Chunk) /\ Distinct(chunks)
  /\ \A i \in 1..(Len(chunks) - 1) :
       chunks[i] \in Chunks(pool) /\ pool.taken[chunks[i]] = PerChunk
  /\ \A e \in Chunks(pool) \cup {d} : \E i \in 1..Len(chunks) : chunks[i] = e
  /\ \A i \in 1..Len(chunks) : chunks[i] \in Chunks(pool) \cup {d}
  /\ new = [chunks |-> chunks, taken |-> [pool.taken EXCEPT ![d] = @ + 1],
            freed |-> pool.freed]

LEMMA TakenOwns ==
  ASSUME NEW pool, NEW M, Owns(pool, M), NEW d, NEW chunks, NEW new,
         Takes(pool, d, chunks, new)
  PROVE  <<d, pool.taken[d]>> \in Node \ M /\ Owns(new, M \cup {<<d, pool.taken[d]>>})
<1>20. /\ d \in Chunk /\ pool.taken[d] < PerChunk
       /\ chunks \in Seq(Chunk) /\ Distinct(chunks)
       /\ \A i \in 1..(Len(chunks) - 1) :
            chunks[i] \in Chunks(pool) /\ pool.taken[chunks[i]] = PerChunk
       /\ \A e \in Chunks(pool) \cup {d} : \E i \in 1..Len(chunks) : chunks[i] = e
       /\ \A i \in 1..Len(chunks) : chunks[i] \in Chunks(pool) \cup {d}
       /\ new = [chunks |-> chunks, taken |-> [pool.taken EXCEPT ![d] = @ + 1],
                 freed |-> pool.freed]
  BY DEF Takes
<1> DEFINE n == <<d, pool.taken[d]>>
<1> DEFINE taken == [pool.taken EXCEPT ![d] = @ + 1]
<1>1. /\ pool.taken \in [Chunk -> 0..PerChunk] /\ pool.freed \in [Chunk -> 0..PerChunk]
      /\ PerChunk \in Nat /\ PerChunk > 0 /\ Chunks(pool) \subseteq Chunk
      /\ Len(chunks) \in Nat
  BY <1>20, OwnsParts
<1>2. n \in Node /\ n \notin M /\ ChunkOf(n) = d /\ n[2] = pool.taken[d]
  <2>0. pool.taken[d] \in 0..PerChunk /\ pool.taken[d] < PerChunk /\ d \in Chunk
    BY <1>1, <1>20
  <2>1. pool.taken[d] \in 0..(PerChunk - 1)
    BY ONLY <2>0, <1>1
  <2>2. n \in Node /\ ChunkOf(n) = d /\ n[2] = pool.taken[d]
    BY <2>0, <2>1 DEF Node, Object, ChunkOf
  <2>3. n \notin M
    <3> SUFFICES ASSUME n \in M PROVE FALSE
      OBVIOUS
    <3>1. n[2] < pool.taken[ChunkOf(n)]
      BY DEF Owns
    <3> QED BY <3>1, <2>2, <2>1
  <2> QED BY <2>2, <2>3
<1>3. /\ taken \in [Chunk -> 0..PerChunk] /\ taken[d] = pool.taken[d] + 1
      /\ \A e \in Chunk \ {d} : taken[e] = pool.taken[e]
  BY <1>1, <1>20
<1>13. \A e \in Chunk : /\ pool.taken[e] \in Int /\ taken[e] \in Int /\ pool.freed[e] \in Int
                        /\ taken[e] >= pool.taken[e]
  BY <1>1, <1>3
<1> HIDE DEF taken, n
<1>4. new.chunks = chunks /\ new.taken = taken /\ new.freed = pool.freed /\ new \in PoolType
  BY <1>1, <1>3, <1>20 DEF PoolType, taken
<1>5. \A e : e \in Chunks(new) <=> \E i \in 1..Len(chunks) : chunks[i] = e
  BY <1>4 DEF Chunks
<1>6. Chunks(new) = Chunks(pool) \cup {d}
  BY <1>5, <1>20
<1>7. \A m \in M \cup {n} : ChunkOf(m) \in Chunks(new) /\ m[2] < taken[ChunkOf(m)]
  <2>1. ASSUME NEW m \in M PROVE ChunkOf(m) \in Chunks(new) /\ m[2] < taken[ChunkOf(m)]
    <3>1. ChunkOf(m) \in Chunks(pool) /\ m[2] < pool.taken[ChunkOf(m)] /\ m \in Node
      BY DEF Owns
    <3>2. m[2] \in Int
      BY <3>1 DEF Node, Object
    <3> DEFINE e == ChunkOf(m)
    <3>3. e \in Chunk /\ e \in Chunks(new)
      BY <3>1, <1>1, <1>6
    <3>4. pool.taken[e] \in Int /\ taken[e] \in Int /\ taken[e] >= pool.taken[e]
      BY <3>3, <1>13
    <3>5. m[2] < pool.taken[e]
      BY <3>1
    <3> HIDE DEF e
    <3>6. m[2] < taken[e]
      BY ONLY <3>2, <3>4, <3>5
    <3> QED BY <3>3, <3>6 DEF e
  <2>2. d \in Chunks(new) /\ pool.taken[d] < taken[d]
    <3>1. d \in Chunks(new)
      BY <1>6
    <3>2. pool.taken[d] \in Int /\ taken[d] = pool.taken[d] + 1
      BY <1>3, <1>13, <1>20
    <3> QED BY ONLY <3>1, <3>2
  <2>3. \A m \in M \cup {n} : m \in M \/ m = n
    OBVIOUS
  <2> QED BY ONLY <2>1, <2>2, <2>3, <1>2
<1>8. M \in SUBSET Node
  BY DEF Owns
<1>9. \A c \in Chunk : Cardinality(InChunk(M \cup {n}, c)) = taken[c] - pool.freed[c]
  <2> TAKE c \in Chunk
  <2>1. Cardinality(InChunk(M, c)) = pool.taken[c] - pool.freed[c]
    BY DEF Owns
  <2>2. Cardinality(InChunk(M \cup {n}, c))
          = IF c = d THEN Cardinality(InChunk(M, c)) + 1 ELSE Cardinality(InChunk(M, c))
    BY <1>2, <1>8, CountMore
  <2>3. taken[c] = IF c = d THEN pool.taken[c] + 1 ELSE pool.taken[c]
    BY <1>3
  <2>4. pool.taken[c] \in Int /\ pool.freed[c] \in Int
    BY <1>13
  <2> QED BY ONLY <2>1, <2>2, <2>3, <2>4
<1>10. \A c \in Chunk \ Chunks(new) : taken[c] = 0 /\ pool.freed[c] = 0
  BY <1>3, <1>6 DEF Owns
<1>11. ASSUME NEW i \in 1..Len(chunks)
       PROVE  /\ taken[chunks[i]] > 0 /\ pool.freed[chunks[i]] < PerChunk
              /\ i < Len(chunks) => taken[chunks[i]] = PerChunk
  <2>1. chunks[i] \in Chunk
    BY <1>20
  <2>2. chunks[i] \in Chunks(pool) =>
          pool.taken[chunks[i]] > 0 /\ pool.freed[chunks[i]] < PerChunk
    <3> SUFFICES ASSUME chunks[i] \in Chunks(pool)
                 PROVE  pool.taken[chunks[i]] > 0 /\ pool.freed[chunks[i]] < PerChunk
      OBVIOUS
    <3>2. \A e : e \in Chunks(pool) <=> \E j \in 1..Len(pool.chunks) : pool.chunks[j] = e
      BY ONLY Owns(pool, M), OwnsParts
    <3>1. PICK j \in 1..Len(pool.chunks) : pool.chunks[j] = chunks[i]
      BY <3>2
    <3> QED BY <3>1 DEF Owns
  <2>3. CASE chunks[i] = d
    <3>1. d \in Chunks(pool) \/ pool.freed[d] = 0
      BY <1>20 DEF Owns
    <3>2. pool.freed[d] < PerChunk /\ taken[d] > 0
      <4>1. pool.freed[d] < PerChunk
        BY <3>1, <2>2, <2>3, <1>1
      <4>2. pool.taken[d] \in 0..PerChunk /\ taken[d] = pool.taken[d] + 1
        BY <1>1, <1>3, <1>20
      <4> QED BY ONLY <4>1, <4>2, <1>1
    <3>3. ~(i < Len(chunks))
      <4> SUFFICES ASSUME i < Len(chunks) PROVE FALSE
        OBVIOUS
      <4>1. i \in 1..(Len(chunks) - 1)
        BY <1>1
      <4> QED BY <4>1, <1>1, <1>20, <2>3
    <3> QED BY <3>2, <3>3, <2>3
  <2>4. CASE chunks[i] # d
    <3>1. chunks[i] \in Chunks(pool) /\ taken[chunks[i]] = pool.taken[chunks[i]]
      BY <2>4, <2>1, <1>3, <1>20
    <3>2. i < Len(chunks) => pool.taken[chunks[i]] = PerChunk
      BY <1>1, <1>20
    <3> QED BY <3>1, <3>2, <2>2
  <2> QED BY <2>3, <2>4
<1>12. Owns(new, M \cup {n})
  BY <1>20, <1>2, <1>4, <1>7, <1>8, <1>9, <1>10, <1>11 DEF Owns
<1> QED BY <1>2, <1>12 DEF n

\* A new object is none of those in use, and its chunk counts it.
LEMMA AllocOwns ==
  ASSUME NEW pool, NEW M, Owns(pool, M), NEW c \in Chunk \ Chunks(pool),
         NEW got, got = SoAlloc(pool, c)
  PROVE  got.object \in Node \ M /\ Owns(got.pool, M \cup {got.object})
<1> DEFINE in == NonfullChunk(pool, c)
<1> DEFINE chunks == IF NeedsChunk(pool) THEN Append(pool.chunks, c) ELSE pool.chunks
<1> DEFINE new == [chunks |-> chunks, taken |-> [pool.taken EXCEPT ![in] = @ + 1],
                   freed |-> pool.freed]
<1>1. /\ pool.chunks \in Seq(Chunk) /\ Len(pool.chunks) \in Nat
      /\ pool.taken \in [Chunk -> 0..PerChunk] /\ pool.freed \in [Chunk -> 0..PerChunk]
      /\ pool = [chunks |-> pool.chunks, taken |-> pool.taken, freed |-> pool.freed]
      /\ PerChunk \in Nat /\ PerChunk > 0
      /\ \A d : d \in Chunks(pool) <=> \E i \in 1..Len(pool.chunks) : pool.chunks[i] = d
  BY OwnsParts
<1>2. got.object = <<in, pool.taken[in]>> /\ got.pool = new
  BY DEF SoAlloc
<1>3. WithRoom(pool) = {i \in 1..Len(pool.chunks) : pool.taken[pool.chunks[i]] < PerChunk}
  BY <1>1 DEF WithRoom
<1>4. \A i, j \in 1..Len(pool.chunks) : pool.chunks[i] = pool.chunks[j] => i = j
  BY DEF Owns, Distinct
<1>5. \A i \in 1..Len(pool.chunks) :
        i < Len(pool.chunks) => pool.taken[pool.chunks[i]] = PerChunk
  BY DEF Owns
<1>6. CASE NeedsChunk(pool)
  <2>1. in = c /\ c \notin Chunks(pool) /\ pool.taken[c] = 0 /\ chunks = Append(pool.chunks, c)
    BY <1>6 DEF Owns, NonfullChunk
  <2>2. /\ chunks \in Seq(Chunk) /\ Len(chunks) = Len(pool.chunks) + 1
        /\ \A i \in 1..Len(pool.chunks) : chunks[i] = pool.chunks[i]
        /\ chunks[Len(pool.chunks) + 1] = c
    BY <2>1, <1>1, AppendProperties
  <2>3. \A i \in 1..Len(pool.chunks) :
          pool.chunks[i] \in Chunks(pool) /\ pool.taken[pool.chunks[i]] = PerChunk
    BY <1>6, <1>3, <1>1 DEF NeedsChunk
  <2> HIDE DEF chunks, in
  <2>4. Distinct(chunks)
    <3> SUFFICES ASSUME NEW i \in 1..Len(chunks), NEW j \in 1..Len(chunks),
                        chunks[i] = chunks[j], i # j, i < j
                 PROVE  FALSE
      BY <2>2, <1>1 DEF Distinct
    <3>4. Len(chunks) = Len(pool.chunks) + 1 /\ Len(pool.chunks) \in Nat
      BY <2>2, <1>1
    <3>5. i \in 1..Len(pool.chunks)
      BY ONLY <3>4, i \in 1..Len(chunks), j \in 1..Len(chunks), i < j
    <3>1. i \in 1..Len(pool.chunks) /\ chunks[i] = pool.chunks[i]
      BY <3>5, <2>2
    <3>2. CASE j = Len(chunks)
      BY <3>1, <3>2, <2>1, <2>2, <2>3
    <3>3. CASE j # Len(chunks)
      <4>2. j \in 1..Len(pool.chunks)
        BY ONLY <3>4, <3>3, j \in 1..Len(chunks)
      <4>1. j \in 1..Len(pool.chunks) /\ chunks[j] = pool.chunks[j]
        BY <4>2, <2>2
      <4> QED BY <4>1, <3>1, <1>4
    <3> QED BY <3>2, <3>3
  <2>5. /\ Len(chunks) \in 1..Len(chunks) /\ chunks[Len(chunks)] = in
        /\ pool.taken[in] < PerChunk /\ in \in Chunk
    BY <2>1, <2>2, <1>1
  <2>6. \A i \in 1..(Len(chunks) - 1) :
          chunks[i] \in Chunks(pool) /\ pool.taken[chunks[i]] = PerChunk
    <3> TAKE i \in 1..(Len(chunks) - 1)
    <3>1. i \in 1..Len(pool.chunks)
      BY ONLY <2>2, <1>1, i \in 1..(Len(chunks) - 1)
    <3>2. chunks[i] = pool.chunks[i]
      BY <3>1, <2>2
    <3> QED BY <3>1, <3>2, <2>3
  <2>7. \A e \in Chunks(pool) : \E i \in 1..Len(chunks) : chunks[i] = e
    <3> TAKE e \in Chunks(pool)
    <3>1. PICK i \in 1..Len(pool.chunks) : pool.chunks[i] = e
      BY <1>1
    <3>3. i \in 1..Len(chunks)
      BY ONLY <2>2, <1>1, i \in 1..Len(pool.chunks)
    <3>2. i \in 1..Len(chunks) /\ chunks[i] = e
      BY <3>1, <3>3, <2>2
    <3> QED BY <3>2
  <2>8. \A i \in 1..Len(chunks) : chunks[i] \in Chunks(pool) \cup {in}
    <3> TAKE i \in 1..Len(chunks)
    <3>1. i \in 1..Len(pool.chunks) \/ i = Len(pool.chunks) + 1
      BY <2>2, <1>1
    <3> QED BY <3>1, <2>1, <2>2, <2>3
  <2> DEFINE k == Len(chunks)
  <2>9. chunks \in Seq(Chunk) /\ k \in 1..Len(chunks) /\ chunks[k] = in /\ in \in Chunk
    BY <2>2, <2>5
  <2> HIDE DEF k
  <2>10. <<in, pool.taken[in]>> \in Node \ M /\ Owns(new, M \cup {<<in, pool.taken[in]>>})
    <3>2. Takes(pool, in, chunks, new)
      <4> HIDE DEF new
      <4>1. new = [chunks |-> chunks, taken |-> [pool.taken EXCEPT ![in] = @ + 1],
                   freed |-> pool.freed]
        BY DEF new
      <4> QED BY <2>4, <2>5, <2>6, <2>7, <2>8, <2>9, <4>1 DEF Takes
    <3> HIDE DEF new
    <3> QED BY ONLY Owns(pool, M), <3>2, TakenOwns
  <2> QED BY ONLY <1>2, <2>10
<1>7. CASE ~NeedsChunk(pool)
  <2>1. PICK k \in WithRoom(pool) : \A j \in WithRoom(pool) : ~(j < k)
    <3>1. WithRoom(pool) # {}
      BY <1>7 DEF NeedsChunk
    <3>2. WithRoom(pool) \in SUBSET Nat
      BY <1>3
    <3> QED BY <3>1, <3>2, LeastNatural
  <2>2. k \in WithRoom(pool) /\ \A j \in WithRoom(pool) : k <= j
    BY <2>1, <1>3
  <2> DEFINE k1 == CHOOSE i \in WithRoom(pool) : \A j \in WithRoom(pool) : i <= j
  <2>3. k1 \in WithRoom(pool) /\ in = pool.chunks[k1]
    BY <1>7, <2>2 DEF NonfullChunk
  <2>4. k1 \in 1..Len(pool.chunks) /\ in = pool.chunks[k1] /\ pool.taken[in] < PerChunk
    BY <2>3, <1>3
  <2>5. chunks = pool.chunks /\ in \in Chunk
    BY <1>7, <2>4, <1>1
  <2> HIDE DEF in, k1, chunks
  <2>6. \A i \in 1..(Len(chunks) - 1) :
          chunks[i] \in Chunks(pool) /\ pool.taken[chunks[i]] = PerChunk
    <3> TAKE i \in 1..(Len(chunks) - 1)
    <3>1. i \in 1..Len(pool.chunks) /\ i < Len(pool.chunks)
      BY ONLY <2>5, <1>1, i \in 1..(Len(chunks) - 1)
    <3> QED BY <3>1, <2>5, <1>1, <1>5
  <2>7. \A e \in Chunks(pool) : \E i \in 1..Len(chunks) : chunks[i] = e
    BY <2>5, <1>1
  <2>8. \A i \in 1..Len(chunks) : chunks[i] \in Chunks(pool) \cup {in}
    BY <2>5, <1>1
  <2>9. chunks \in Seq(Chunk) /\ Distinct(chunks) /\ k1 \in 1..Len(chunks) /\ chunks[k1] = in
    BY <2>4, <2>5, <1>1 DEF Owns
  <2>10. <<in, pool.taken[in]>> \in Node \ M /\ Owns(new, M \cup {<<in, pool.taken[in]>>})
    <3>2. Takes(pool, in, chunks, new)
      <4> HIDE DEF new
      <4>1. new = [chunks |-> chunks, taken |-> [pool.taken EXCEPT ![in] = @ + 1],
                   freed |-> pool.freed]
        BY DEF new
      <4> QED BY <2>4, <2>5, <2>6, <2>7, <2>8, <2>9, <4>1 DEF Takes
    <3> HIDE DEF new
    <3> QED BY ONLY Owns(pool, M), <3>2, TakenOwns
  <2> QED BY ONLY <1>2, <2>10
<1> QED BY <1>6, <1>7

\* A freed object is no longer in use; a chunk without objects is released.
LEMMA FreeOwns ==
  ASSUME NEW pool, NEW M, Owns(pool, M), NEW n \in M
  PROVE  Owns(SoFree(pool, n), M \ {n})
<1> DEFINE c == ChunkOf(n)
<1> DEFINE left == M \ {n}
<1>1. /\ pool.chunks \in Seq(Chunk) /\ Len(pool.chunks) \in Nat
      /\ pool.taken \in [Chunk -> 0..PerChunk] /\ pool.freed \in [Chunk -> 0..PerChunk]
      /\ pool = [chunks |-> pool.chunks, taken |-> pool.taken, freed |-> pool.freed]
      /\ PerChunk \in Nat /\ PerChunk > 0
      /\ \A d : d \in Chunks(pool) <=> \E i \in 1..Len(pool.chunks) : pool.chunks[i] = d
      /\ Chunks(pool) \subseteq Chunk
  BY OwnsParts
<1>2. /\ Distinct(pool.chunks) /\ M \in SUBSET Node
      /\ \A m \in M : ChunkOf(m) \in Chunks(pool) /\ m[2] < pool.taken[ChunkOf(m)]
      /\ \A d \in Chunk : Cardinality(InChunk(M, d)) = pool.taken[d] - pool.freed[d]
      /\ \A d \in Chunk \ Chunks(pool) : pool.taken[d] = 0 /\ pool.freed[d] = 0
      /\ \A i \in 1..Len(pool.chunks) :
           /\ pool.taken[pool.chunks[i]] > 0
           /\ pool.freed[pool.chunks[i]] < PerChunk
           /\ i < Len(pool.chunks) => pool.taken[pool.chunks[i]] = PerChunk
  BY DEF Owns
<1>3. c \in Chunk /\ c \in Chunks(pool) /\ left \in SUBSET Node /\ left \subseteq M
  BY <1>1, <1>2
<1>4. PICK k \in 1..Len(pool.chunks) : pool.chunks[k] = c
  BY <1>1, <1>3
<1>5. /\ pool.freed[c] \in 0..PerChunk /\ pool.taken[c] \in 0..PerChunk
      /\ pool.freed[c] < PerChunk /\ pool.taken[c] > 0
  BY <1>1, <1>2, <1>3, <1>4
<1>6. ASSUME NEW d \in Chunk
      PROVE  Cardinality(InChunk(left, d)) = IF d = c THEN pool.taken[c] - pool.freed[c] - 1
                                             ELSE pool.taken[d] - pool.freed[d]
  <2>1. Cardinality(InChunk(left, d))
          = IF d = c THEN Cardinality(InChunk(M, d)) - 1 ELSE Cardinality(InChunk(M, d))
    BY <1>2, CountLess
  <2>2. Cardinality(InChunk(M, d)) = pool.taken[d] - pool.freed[d]
    BY <1>2
  <2> HIDE DEF left, c
  <2> QED BY ONLY <2>1, <2>2
<1>7. pool.freed[c] + 1 <= pool.taken[c]
  <2>1. Cardinality(InChunk(left, c)) \in Nat
    BY <1>3, ChunkSets
  <2>2. Cardinality(InChunk(left, c)) = pool.taken[c] - pool.freed[c] - 1
    BY <1>3, <1>6
  <2> HIDE DEF left, c
  <2> QED BY ONLY <2>1, <2>2, <1>5
<1> DEFINE freed == [pool.freed EXCEPT ![c] = @ + 1]
<1>8. [pool EXCEPT !.freed = freed]
        = [chunks |-> pool.chunks, taken |-> pool.taken, freed |-> freed]
  <2> HIDE DEF freed, c
  <2> QED BY <1>1
<1>9. CASE freed[c] # PerChunk
  <2> DEFINE new == [chunks |-> pool.chunks, taken |-> pool.taken, freed |-> freed]
  <2>1. SoFree(pool, n) = new
    BY <1>8, <1>9 DEF SoFree
  <2>2. /\ freed \in [Chunk -> 0..PerChunk] /\ freed[c] = pool.freed[c] + 1 /\ freed[c] < PerChunk
        /\ \A d \in Chunk \ {c} : freed[d] = pool.freed[d]
    <3>1. pool.freed[c] + 1 \in 0..PerChunk
      BY ONLY <1>1, <1>5
    <3>2. freed \in [Chunk -> 0..PerChunk] /\ freed[c] = pool.freed[c] + 1
      BY <3>1, <1>1, <1>3
    <3>3. freed[c] # PerChunk
      BY <1>8, <1>9
    <3>4. freed[c] < PerChunk
      <4> HIDE DEF freed
      <4> QED BY ONLY <3>1, <3>2, <3>3, <1>1
    <3>5. \A d \in Chunk \ {c} : freed[d] = pool.freed[d]
      BY <1>1
    <3> QED BY ONLY <3>2, <3>4, <3>5
  <2> HIDE DEF freed
  <2>3. /\ new.chunks = pool.chunks /\ new.taken = pool.taken /\ new.freed = freed
        /\ new \in PoolType /\ Chunks(new) = Chunks(pool)
    BY <1>1, <2>2 DEF PoolType, Chunks
  <2> HIDE DEF new, left, c
  <2>4. ASSUME NEW d \in Chunk
        PROVE  Cardinality(InChunk(left, d)) = pool.taken[d] - freed[d]
    <3>1. pool.taken[d] \in Int /\ pool.freed[d] \in Int
      BY <1>1
    <3> QED BY <3>1, <1>6, <2>2
  <2>5. \A m \in left : ChunkOf(m) \in Chunks(pool) /\ m[2] < pool.taken[ChunkOf(m)]
    BY <1>2, <1>3
  <2>6. \A d \in Chunk \ Chunks(pool) : pool.taken[d] = 0 /\ freed[d] = 0
    BY <1>2, <1>3, <2>2
  <2>7. ASSUME NEW i \in 1..Len(pool.chunks) PROVE freed[pool.chunks[i]] < PerChunk
    <3>1. pool.chunks[i] \in Chunk
      BY <1>1
    <3> QED BY <3>1, <1>2, <2>2
  <2>8. Owns(new, left)
    <3>1. /\ Distinct(new.chunks)
          /\ \A m \in left : ChunkOf(m) \in Chunks(new) /\ m[2] < new.taken[ChunkOf(m)]
          /\ \A d \in Chunk : Cardinality(InChunk(left, d)) = new.taken[d] - new.freed[d]
          /\ \A d \in Chunk \ Chunks(new) : new.taken[d] = 0 /\ new.freed[d] = 0
      BY <1>2, <2>3, <2>4, <2>5, <2>6
    <3>2. \A i \in 1..Len(new.chunks) :
            /\ new.taken[new.chunks[i]] > 0
            /\ new.freed[new.chunks[i]] < PerChunk
            /\ i < Len(new.chunks) => new.taken[new.chunks[i]] = PerChunk
      BY <1>2, <2>3, <2>7
    <3> QED BY ONLY <1>3, <2>3, <3>1, <3>2 DEF Owns
  <2> QED BY <2>1, <2>8 DEF left
<1>10. CASE freed[c] = PerChunk
  <2> DEFINE k1 == CHOOSE i \in DOMAIN pool.chunks : pool.chunks[i] = c
  <2> DEFINE chunks == RemoveAt(pool.chunks, k1)
  <2> DEFINE gone == [pool.freed EXCEPT ![c] = 0]
  <2> DEFINE taken == [pool.taken EXCEPT ![c] = 0]
  <2> DEFINE new == [chunks |-> chunks, taken |-> taken, freed |-> gone]
  <2>1. SoFree(pool, n) = new
    BY <1>10 DEF SoFree
  <2>2. k1 \in 1..Len(pool.chunks) /\ pool.chunks[k1] = c
    BY <1>1, <1>4
  <2>3. pool.freed[c] + 1 = PerChunk /\ pool.taken[c] = PerChunk
    <3>1. freed[c] = PerChunk /\ freed[c] = pool.freed[c] + 1
      BY <1>8, <1>10, <1>1, <1>3
    <3> HIDE DEF freed
    <3> QED BY ONLY <3>1, <1>5, <1>7, <1>1
  <2>4. /\ taken \in [Chunk -> 0..PerChunk] /\ taken[c] = 0
        /\ gone \in [Chunk -> 0..PerChunk] /\ gone[c] = 0
        /\ \A d \in Chunk \ {c} : taken[d] = pool.taken[d] /\ gone[d] = pool.freed[d]
    BY <1>1, <1>3
  <2> HIDE DEF k1
  <2>5. /\ chunks \in Seq(Chunk) /\ Len(chunks) = Len(pool.chunks) - 1
        /\ \A i \in 1..(Len(pool.chunks) - 1) :
             chunks[i] = IF i < k1 THEN pool.chunks[i] ELSE pool.chunks[i + 1]
    BY <1>1, <2>2, RemoveProperties
  <2>6. new.chunks = chunks /\ new.taken = taken /\ new.freed = gone /\ new \in PoolType
    BY <2>4, <2>5 DEF PoolType
  <2>7. \A d : d \in Chunks(new) <=> \E i \in 1..Len(chunks) : chunks[i] = d
    BY <2>5, <2>6 DEF Chunks
  <2> HIDE DEF new, chunks, left, c, taken, gone
  <2>8. \A i, j \in 1..Len(pool.chunks) : pool.chunks[i] = pool.chunks[j] => i = j
    BY <1>2 DEF Distinct
  <2>20. Len(chunks) = Len(pool.chunks) - 1 /\ Len(pool.chunks) \in Nat /\ k1 \in 1..Len(pool.chunks)
    BY <1>1, <2>2, <2>5
  <2> DEFINE old(i) == IF i < k1 THEN i ELSE i + 1
  <2>9. ASSUME NEW i \in 1..Len(chunks)
        PROVE  /\ old(i) \in 1..Len(pool.chunks) /\ chunks[i] = pool.chunks[old(i)]
               /\ chunks[i] # c /\ chunks[i] \in Chunk
               /\ i < Len(chunks) => old(i) < Len(pool.chunks)
    <3>1. /\ old(i) \in 1..Len(pool.chunks) /\ old(i) # k1 /\ i \in 1..(Len(pool.chunks) - 1)
          /\ i < Len(chunks) => old(i) < Len(pool.chunks)
      BY ONLY <2>20, i \in 1..Len(chunks)
    <3>2. chunks[i] = pool.chunks[old(i)]
      BY <3>1, <2>5
    <3> HIDE DEF old
    <3>3. pool.chunks[old(i)] # c
      BY <3>1, <2>2, <2>8
    <3>4. pool.chunks[old(i)] \in Chunk
      BY <3>1, <1>1
    <3> QED BY ONLY <3>1, <3>2, <3>3, <3>4
  <2>10. Distinct(chunks)
    <3> SUFFICES ASSUME NEW i \in 1..Len(chunks), NEW j \in 1..Len(chunks), chunks[i] = chunks[j]
                 PROVE  i = j
      BY DEF Distinct
    <3>1. /\ old(i) \in 1..Len(pool.chunks) /\ chunks[i] = pool.chunks[old(i)]
          /\ old(j) \in 1..Len(pool.chunks) /\ chunks[j] = pool.chunks[old(j)]
      BY <2>9
    <3>2. old(i) = old(j)
      <4> HIDE DEF old
      <4> QED BY <3>1, <2>8
    <3>3. i \in Int /\ j \in Int /\ k1 \in Int
      BY <2>20
    <3> QED BY ONLY <3>2, <3>3
  <2>11. Chunks(new) = Chunks(pool) \ {c}
    <3>1. ASSUME NEW d \in Chunks(new) PROVE d \in Chunks(pool) \ {c}
      <4>1. PICK i \in 1..Len(chunks) : chunks[i] = d
        BY <2>7
      <4> HIDE DEF old
      <4> QED BY <4>1, <2>9, <1>1
    <3>2. ASSUME NEW d \in Chunks(pool) \ {c} PROVE d \in Chunks(new)
      <4>1. PICK j \in 1..Len(pool.chunks) : pool.chunks[j] = d
        BY <1>1
      <4> DEFINE i == IF j < k1 THEN j ELSE j - 1
      <4>2. j # k1
        BY <4>1, <2>2
      <4>3. i \in 1..(Len(pool.chunks) - 1) /\ (IF i < k1 THEN i = j ELSE i + 1 = j)
        BY ONLY <4>2, <2>20, j \in 1..Len(pool.chunks)
      <4> HIDE DEF i
      <4>4. i \in 1..Len(chunks) /\ chunks[i] = d
        BY <4>3, <2>5, <4>1
      <4> QED BY <4>4, <2>7
    <3> QED BY <3>1, <3>2
  <2>12. InChunk(left, c) = {}
    <3>1. Cardinality(InChunk(left, c)) = pool.taken[c] - pool.freed[c] - 1
      BY <1>3, <1>6
    <3>2. Cardinality(InChunk(left, c)) = 0
      BY ONLY <3>1, <2>3, <1>1, <1>5
    <3> QED BY <3>2, <1>3, ChunkSets, FS_EmptySet
  <2>13. ASSUME NEW d \in Chunk
         PROVE  Cardinality(InChunk(left, d)) = taken[d] - gone[d]
    <3>1. CASE d = c
      <4>1. Cardinality(InChunk(left, d)) = 0
        BY <3>1, <2>12, FS_EmptySet
      <4> QED BY <4>1, <3>1, <2>4
    <3>2. CASE d # c
      BY <3>2, <1>6, <2>4
    <3> QED BY <3>1, <3>2
  <2>14. ASSUME NEW m \in left PROVE ChunkOf(m) \in Chunks(new) /\ m[2] < taken[ChunkOf(m)]
    <3>1. ChunkOf(m) # c
      BY <2>12 DEF InChunk
    <3>2. ChunkOf(m) \in Chunks(pool) /\ m[2] < pool.taken[ChunkOf(m)]
      BY <1>2, <1>3
    <3>3. ChunkOf(m) \in Chunk \ {c}
      BY <3>1, <3>2, <1>1
    <3> QED BY <3>2, <3>3, <2>4, <2>11
  <2>15. \A d \in Chunk \ Chunks(new) : taken[d] = 0 /\ gone[d] = 0
    BY <1>2, <2>4, <2>11
  <2>16. ASSUME NEW i \in 1..Len(chunks)
         PROVE  /\ taken[chunks[i]] > 0 /\ gone[chunks[i]] < PerChunk
                /\ i < Len(chunks) => taken[chunks[i]] = PerChunk
    <3> HIDE DEF old
    <3>1. /\ taken[chunks[i]] = pool.taken[pool.chunks[old(i)]]
          /\ gone[chunks[i]] = pool.freed[pool.chunks[old(i)]]
      BY <2>4, <2>9
    <3>2. /\ old(i) \in 1..Len(pool.chunks)
          /\ i < Len(chunks) => old(i) < Len(pool.chunks)
      BY <2>9
    <3> QED BY <1>2, <3>1, <3>2
  <2>17. Owns(new, left)
    <3> HIDE DEF old
    <3> QED BY ONLY <1>3, <2>6, <2>10, <2>13, <2>14, <2>15, <2>16 DEF Owns
  <2> QED BY <2>1, <2>17 DEF left
<1> QED BY <1>9, <1>10

----------------------------------------------------------------------------
(***************************************************************************)
(* The operations of the linked list                                       *)
(***************************************************************************)
InUse(s) == {s[i] : i \in 1..Len(s)}

\* The list l consists of the nodes s.
Linked(l, s) ==
  /\ l \in LinkedListType
  /\ Chained(l, s)
  /\ Owns(l.pool, InUse(s))
  /\ \A i \in 1..Len(s) : l.value[s[i]] \in Value

LEMMA LinkedParts ==
  ASSUME NEW l, NEW s, Linked(l, s)
  PROVE  /\ l.head \in Node \cup {Nil} /\ l.tail \in Node \cup {Nil}
         /\ l.value \in [Node -> Value \cup {Unset}] /\ l.next \in [Node -> Node \cup {Nil}]
         /\ l.pool \in PoolType
         /\ l = [head |-> l.head, tail |-> l.tail, value |-> l.value, next |-> l.next,
                 pool |-> l.pool]
         /\ s \in Seq(Node) /\ Len(s) \in Nat /\ \A i \in 1..Len(s) : s[i] \in Node
         /\ \A i, j \in 1..Len(s) : s[i] = s[j] => i = j
         /\ l.head = IF Len(s) = 0 THEN Nil ELSE s[1]
         /\ \A i \in 1..Len(s) : l.next[s[i]] = IF i = Len(s) THEN Nil ELSE s[i + 1]
         /\ Nodes(l) = s
         /\ Nil \notin Node
<1>1. l \in LinkedListType /\ Chained(l, s)
  BY DEF Linked
<1>2. /\ l.head \in Node \cup {Nil} /\ l.tail \in Node \cup {Nil}
      /\ l.value \in [Node -> Value \cup {Unset}] /\ l.next \in [Node -> Node \cup {Nil}]
      /\ l.pool \in PoolType
      /\ l = [head |-> l.head, tail |-> l.tail, value |-> l.value, next |-> l.next,
              pool |-> l.pool]
  BY ONLY <1>1 DEF LinkedListType
<1>3. /\ s \in Seq(Node)
      /\ \A i, j \in 1..Len(s) : s[i] = s[j] => i = j
      /\ l.head = IF Len(s) = 0 THEN Nil ELSE s[1]
      /\ \A i \in 1..Len(s) : l.next[s[i]] = IF i = Len(s) THEN Nil ELSE s[i + 1]
  BY ONLY <1>1 DEF Chained
<1>4. Len(s) \in Nat /\ \A i \in 1..Len(s) : s[i] \in Node
  BY ONLY <1>3
<1>5. Nodes(l) = s
  BY ONLY <1>1, <1>2, NodesOfChain
<1> QED BY ONLY <1>2, <1>3, <1>4, <1>5, NodesFinite

\* The node n, which is not in the list l, is put in front of its k-th node,
\* or at the end: r is the list that results.
LinkedIn(l, s, k, n, r) ==
  /\ s \in Seq(Node) /\ k \in 1..(Len(s) + 1) /\ n \in Node \ InUse(s)
  /\ r.head = IF k = 1 THEN n ELSE l.head
  /\ r.next[n] = IF k = Len(s) + 1 THEN Nil ELSE s[k]
  /\ k # 1 => r.next[s[k - 1]] = n
  /\ \A i \in 1..Len(s) : i # k - 1 => r.next[s[i]] = l.next[s[i]]

LEMMA InsertedChain ==
  ASSUME NEW l, NEW s, NEW k, NEW n, NEW r, Chained(l, s), LinkedIn(l, s, k, n, r)
  PROVE  /\ Chained(r, InsertAt(s, k, n))
         /\ InUse(InsertAt(s, k, n)) = InUse(s) \cup {n}
<1>1. /\ s \in Seq(Node) /\ k \in 1..(Len(s) + 1) /\ n \in Node \ InUse(s)
      /\ r.head = IF k = 1 THEN n ELSE l.head
      /\ r.next[n] = IF k = Len(s) + 1 THEN Nil ELSE s[k]
      /\ k # 1 => r.next[s[k - 1]] = n
      /\ \A i \in 1..Len(s) : i # k - 1 => r.next[s[i]] = l.next[s[i]]
  BY DEF LinkedIn
<1>2. /\ \A i, j \in 1..Len(s) : s[i] = s[j] => i = j
      /\ l.head = IF Len(s) = 0 THEN Nil ELSE s[1]
      /\ \A i \in 1..Len(s) : l.next[s[i]] = IF i = Len(s) THEN Nil ELSE s[i + 1]
  BY DEF Chained
<1>3. Len(s) \in Nat /\ k \in Nat /\ k >= 1 /\ k <= Len(s) + 1
  BY <1>1
<1> DEFINE t == InsertAt(s, k, n)
<1>4. /\ t \in Seq(Node) /\ Len(t) = Len(s) + 1
      /\ \A i \in 1..(Len(s) + 1) : t[i] = IF i < k THEN s[i] ELSE IF i = k THEN n ELSE s[i - 1]
  BY <1>1, InsertProperties
<1> HIDE DEF t
<1>5. \A i \in 1..Len(s) : s[i] # n
  BY <1>1 DEF InUse
<1> DEFINE old(i) == IF i < k THEN i ELSE i - 1
<1>6. ASSUME NEW i \in 1..(Len(s) + 1), i # k
      PROVE  old(i) \in 1..Len(s) /\ t[i] = s[old(i)] /\ t[i] # n
  <2>1. old(i) \in 1..Len(s)
    BY ONLY <1>3, i # k, i \in 1..(Len(s) + 1)
  <2>2. t[i] = s[old(i)]
    <3>1. i < k \/ ~(i < k)
      OBVIOUS
    <3> QED BY <1>4, <1>6, <3>1
  <2> HIDE DEF old
  <2> QED BY <2>1, <2>2, <1>5
<1>7. t[k] = n /\ k \in 1..(Len(s) + 1)
  BY <1>4, <1>1, <1>3
<1>8. ASSUME NEW i \in 1..(Len(s) + 1), NEW j \in 1..(Len(s) + 1), t[i] = t[j] PROVE i = j
  <2>1. CASE i = k \/ j = k
    <3> HIDE DEF old
    <3> QED BY <2>1, <1>6, <1>7, <1>8
  <2>2. CASE i # k /\ j # k
    <3>1. old(i) = old(j)
      <4>1. /\ old(i) \in 1..Len(s) /\ t[i] = s[old(i)]
            /\ old(j) \in 1..Len(s) /\ t[j] = s[old(j)]
        BY <2>2, <1>6
      <4> HIDE DEF old
      <4> QED BY <4>1, <1>2, <1>8
    <3>2. i \in Int /\ j \in Int /\ k \in Int
      BY <1>3
    <3> QED BY ONLY <3>1, <3>2, <2>2
  <2> QED BY <2>1, <2>2
<1>9. r.head = t[1] /\ Len(t) # 0
  <2>1. CASE k = 1
    BY <2>1, <1>1, <1>7, <1>4, <1>3
  <2>2. CASE k # 1
    <3>1. 1 \in 1..(Len(s) + 1) /\ 1 < k /\ Len(s) # 0
      BY ONLY <2>2, <1>3
    <3>2. t[1] = s[1]
      BY <3>1, <1>4
    <3> QED BY <3>1, <3>2, <2>2, <1>1, <1>2, <1>4, <1>3
  <2> QED BY <2>1, <2>2
<1>10. ASSUME NEW i \in 1..(Len(s) + 1)
       PROVE  r.next[t[i]] = IF i = Len(s) + 1 THEN Nil ELSE t[i + 1]
  <2>1. CASE i = k
    <3>1. r.next[t[i]] = IF k = Len(s) + 1 THEN Nil ELSE s[k]
      BY <2>1, <1>7, <1>1
    <3>2. CASE k = Len(s) + 1
      BY <3>1, <3>2, <2>1
    <3>3. CASE k # Len(s) + 1
      <4>1. /\ i + 1 \in 1..(Len(s) + 1) /\ ~(i + 1 < k) /\ i + 1 # k /\ (i + 1) - 1 = k
            /\ i # Len(s) + 1
        BY ONLY <3>3, <2>1, <1>3
      <4>2. t[i + 1] = s[k]
        BY <1>4, <4>1
      <4> QED BY <4>1, <4>2, <3>1, <3>3
    <3> QED BY <3>2, <3>3
  <2>2. CASE i = k - 1
    <3>1. k # 1 /\ i < k /\ i + 1 = k /\ i # Len(s) + 1 /\ i \in 1..Len(s)
      BY ONLY <2>2, <1>3, i \in 1..(Len(s) + 1)
    <3>2. t[i] = s[k - 1]
      BY <3>1, <2>2, <1>4
    <3> QED BY <3>1, <3>2, <1>1, <1>7
  <2>3. CASE i # k /\ i # k - 1
    <3>1. /\ old(i) \in 1..Len(s) /\ old(i) # k - 1
          /\ (old(i) = Len(s)) = (i = Len(s) + 1)
          /\ i # Len(s) + 1 => (i + 1 \in 1..(Len(s) + 1) /\ i + 1 # k /\ old(i + 1) = old(i) + 1)
      BY ONLY <2>3, <1>3, i \in 1..(Len(s) + 1)
    <3> HIDE DEF old
    <3>2. t[i] = s[old(i)]
      BY <2>3, <1>6
    <3>3. r.next[t[i]] = IF old(i) = Len(s) THEN Nil ELSE s[old(i) + 1]
      BY <3>1, <3>2, <1>1, <1>2
    <3>4. i # Len(s) + 1 => t[i + 1] = s[old(i) + 1]
      BY <3>1, <1>6
    <3> QED BY ONLY <3>1, <3>3, <3>4
  <2> QED BY <2>1, <2>2, <2>3
<1>11. Chained(r, t)
  <2>1. \A i \in 1..Len(t) : r.next[t[i]] = IF i = Len(t) THEN Nil ELSE t[i + 1]
    BY <1>10, <1>4
  <2>2. \A i, j \in 1..Len(t) : t[i] = t[j] => i = j
    BY <1>8, <1>4
  <2> QED BY <2>1, <2>2, <1>4, <1>9 DEF Chained
<1>12. InUse(t) = InUse(s) \cup {n}
  <2>1. ASSUME NEW m \in InUse(t) PROVE m \in InUse(s) \cup {n}
    <3>1. PICK i \in 1..(Len(s) + 1) : m = t[i]
      BY <1>4 DEF InUse
    <3>2. i # k => old(i) \in 1..Len(s) /\ m = s[old(i)]
      BY <1>6, <3>1
    <3> HIDE DEF old
    <3> QED BY <3>1, <3>2, <1>7 DEF InUse
  <2>2. ASSUME NEW m \in InUse(s) PROVE m \in InUse(t)
    <3>1. PICK i \in 1..Len(s) : m = s[i]
      BY DEF InUse
    <3> DEFINE j == IF i < k THEN i ELSE i + 1
    <3>2. j \in 1..(Len(s) + 1) /\ (IF j < k THEN j = i ELSE j # k /\ j - 1 = i)
      BY ONLY <1>3, i \in 1..Len(s)
    <3> HIDE DEF j
    <3>3. t[j] = m
      BY <3>1, <3>2, <1>4
    <3> QED BY <3>2, <3>3, <1>4 DEF InUse
  <2>3. n \in InUse(t)
    BY <1>7, <1>4 DEF InUse
  <2> QED BY <2>1, <2>2, <2>3
<1> QED BY <1>11, <1>12 DEF t

\* What the list holds.
LEMMA LinkedContents ==
  ASSUME NEW l, NEW s, Linked(l, s)
  PROVE  /\ LLContents(l) = [i \in 1..Len(s) |-> l.value[s[i]]]
         /\ LLContents(l) \in Seq(Value) /\ Len(LLContents(l)) = Len(s)
         /\ LLSize(l) = Len(s)
<1>1. Nodes(l) = s /\ s \in Seq(Node) /\ Len(s) \in Nat
  BY LinkedParts
<1>2. LLContents(l) = [i \in 1..Len(s) |-> l.value[s[i]]] /\ LLSize(l) = Len(s)
  BY <1>1 DEF LLContents, LLSize
<1>3. \A i \in 1..Len(s) : l.value[s[i]] \in Value
  BY DEF Linked
<1> QED BY <1>1, <1>2, <1>3

\* The node n holds v and is linked in before the k-th node.
Placed(l, s, k, n, v, r) ==
  /\ LinkedIn(l, s, k, n, r)
  /\ r \in LinkedListType
  /\ r.value = [l.value EXCEPT ![n] = v]
  /\ Owns(r.pool, InUse(s) \cup {n})

LEMMA PlacedLinked ==
  ASSUME NEW l, NEW s, NEW k, NEW n, NEW v \in Value, NEW r,
         Linked(l, s), Placed(l, s, k, n, v, r)
  PROVE  /\ Linked(r, InsertAt(s, k, n))
         /\ LLContents(r) = InsertAt(LLContents(l), k, v)
<1> DEFINE t == InsertAt(s, k, n)
<1>1. Chained(l, s) /\ LinkedIn(l, s, k, n, r)
  BY DEF Linked, Placed
<1>2. Chained(r, t) /\ InUse(t) = InUse(s) \cup {n}
  BY ONLY <1>1, InsertedChain
<1>3. s \in Seq(Node) /\ k \in 1..(Len(s) + 1) /\ n \in Node /\ n \notin InUse(s)
  BY <1>1 DEF LinkedIn
<1>4. /\ t \in Seq(Node) /\ Len(t) = Len(s) + 1
      /\ \A i \in 1..(Len(s) + 1) : t[i] = IF i < k THEN s[i] ELSE IF i = k THEN n ELSE s[i - 1]
  BY <1>3, InsertProperties
<1> HIDE DEF t
<1>5. /\ r \in LinkedListType /\ r.value = [l.value EXCEPT ![n] = v]
      /\ Owns(r.pool, InUse(t))
  BY <1>2 DEF Placed
<1>6. l.value \in [Node -> Value \cup {Unset}] /\ \A i \in 1..Len(s) : s[i] \in Node /\ s[i] # n
  BY <1>3, LinkedParts DEF InUse
<1>7. r.value[n] = v /\ \A i \in 1..Len(s) : r.value[s[i]] = l.value[s[i]]
  BY <1>3, <1>5, <1>6
<1> DEFINE a == LLContents(l)
<1>8. /\ a = [i \in 1..Len(s) |-> l.value[s[i]]]
      /\ a \in Seq(Value) /\ Len(a) = Len(s)
  BY LinkedContents
<1> HIDE DEF a
<1> DEFINE b == InsertAt(a, k, v)
<1>9. /\ b \in Seq(Value) /\ Len(b) = Len(s) + 1
      /\ \A i \in 1..(Len(s) + 1) : b[i] = IF i < k THEN a[i] ELSE IF i = k THEN v ELSE a[i - 1]
  <2>1. k \in 1..(Len(a) + 1)
    BY <1>3, <1>8
  <2>2. /\ b \in Seq(Value) /\ Len(b) = Len(a) + 1
        /\ \A i \in 1..(Len(a) + 1) : b[i] = IF i < k THEN a[i] ELSE IF i = k THEN v ELSE a[i - 1]
    <3>1. a \in Seq(Value) /\ v \in Value
      BY <1>8
    <3> HIDE DEF b
    <3>2. \A x \in Seq(Value) : \A j \in 1..(Len(x) + 1), e \in Value :
            /\ InsertAt(x, j, e) \in Seq(Value) /\ Len(InsertAt(x, j, e)) = Len(x) + 1
            /\ \A i \in 1..(Len(x) + 1) :
                 InsertAt(x, j, e)[i] = IF i < j THEN x[i] ELSE IF i = j THEN e ELSE x[i - 1]
      BY ONLY InsertProperties
    <3> QED BY ONLY <3>1, <3>2, <2>1 DEF b
  <2> QED BY <2>2, <1>8
<1> HIDE DEF b
<1>10. ASSUME NEW i \in 1..(Len(s) + 1) PROVE r.value[t[i]] = b[i]
  <2>0. Len(s) \in Nat /\ k \in Nat
    BY <1>3
  <2>1. CASE i < k
    <3>1. i \in 1..Len(s)
      BY ONLY <2>1, <2>0, <1>3, i \in 1..(Len(s) + 1)
    <3> QED BY <3>1, <2>1, <1>4, <1>7, <1>8, <1>9
  <2>2. CASE i = k
    <3>1. ~(i < k)
      BY ONLY <2>0, <2>2
    <3>2. t[i] = n /\ b[i] = v
      BY <3>1, <2>2, <1>4, <1>9
    <3> QED BY <3>2, <1>7
  <2>3. CASE i > k
    <3>1. i - 1 \in 1..Len(s) /\ ~(i < k) /\ i # k
      BY ONLY <2>3, <2>0, <1>3, i \in 1..(Len(s) + 1)
    <3> QED BY <3>1, <1>4, <1>7, <1>8, <1>9
  <2>4. i < k \/ i = k \/ i > k
    BY <2>0
  <2> QED BY ONLY <2>1, <2>2, <2>3, <2>4
<1>11. \A i \in 1..Len(t) : r.value[t[i]] \in Value
  BY <1>4, <1>9, <1>10
<1>12. Linked(r, t)
  BY <1>2, <1>5, <1>11 DEF Linked
<1>13. LLContents(r) = [i \in 1..Len(t) |-> r.value[t[i]]]
  BY <1>12, LinkedContents
<1>14. LLContents(r) = b
  <2>1. b = [i \in 1..(Len(s) + 1) |-> b[i]]
    BY <1>9
  <2> QED BY <2>1, <1>4, <1>10, <1>13
<1> QED BY <1>12, <1>14 DEF t, b, a

LEMMA InsertLinked ==
  ASSUME NEW l, NEW s, Linked(l, s), NEW index \in 0..Len(s), NEW v \in Value,
         NEW c \in Chunk \ Chunks(l.pool)
  PROVE  \E n \in Node : Placed(l, s, index + 1, n, v, LLInsert(l, index, v, c))
<1> DEFINE got == SoAlloc(l.pool, c)
<1> DEFINE node == got.object
<1> DEFINE k == index + 1
<1>1. /\ l.head \in Node \cup {Nil} /\ l.tail \in Node \cup {Nil}
      /\ l.value \in [Node -> Value \cup {Unset}] /\ l.next \in [Node -> Node \cup {Nil}]
      /\ s \in Seq(Node) /\ Len(s) \in Nat /\ \A i \in 1..Len(s) : s[i] \in Node
      /\ \A i, j \in 1..Len(s) : s[i] = s[j] => i = j
      /\ l.head = IF Len(s) = 0 THEN Nil ELSE s[1]
      /\ \A i \in 1..Len(s) : l.next[s[i]] = IF i = Len(s) THEN Nil ELSE s[i + 1]
      /\ Nodes(l) = s /\ Nil \notin Node
  BY LinkedParts
<1>2. node \in Node \ InUse(s) /\ Owns(got.pool, InUse(s) \cup {node})
  <2>1. Owns(l.pool, InUse(s))
    BY DEF Linked
  <2> QED BY <2>1, AllocOwns
<1> HIDE DEF got
<1> DEFINE prev == IF index = 0 THEN Nil ELSE s[index]
<1> DEFINE curr == IF prev = Nil THEN l.head ELSE l.next[prev]
<1> DEFINE linked1 == IF prev = Nil THEN l.next ELSE [l.next EXCEPT ![prev] = node]
<1> DEFINE r == [head |-> IF prev = Nil THEN node ELSE l.head,
                 tail |-> IF curr = Nil THEN Nil ELSE l.tail,
                 value |-> [l.value EXCEPT ![node] = v],
                 next |-> [linked1 EXCEPT ![node] = curr],
                 pool |-> got.pool]
<1>3. LLInsert(l, index, v, c) = r
  BY <1>1 DEF LLInsert, got
<1>4. index \in Nat /\ k \in 1..(Len(s) + 1) /\ k - 1 = index
  BY <1>1
<1>5. (prev = Nil) = (index = 0) /\ prev \in Node \cup {Nil}
  <2>1. index # 0 => s[index] \in Node /\ s[index] # Nil
    BY <1>1
  <2> QED BY <2>1
<1>6. curr = (IF k = Len(s) + 1 THEN Nil ELSE s[k]) /\ curr \in Node \cup {Nil}
  <2>1. CASE index = 0
    <3>1. curr = l.head
      BY <2>1
    <3> QED BY <3>1, <2>1, <1>1
  <2>2. CASE index # 0
    <3>1. index \in 1..Len(s)
      BY <2>2, <1>1
    <3>2. curr = l.next[s[index]]
      BY <2>2, <1>5
    <3>3. curr = IF index = Len(s) THEN Nil ELSE s[index + 1]
      BY <3>1, <3>2, <1>1
    <3>4. index # Len(s) => s[index + 1] \in Node
      BY <3>1, <1>1
    <3> QED BY <3>3, <3>4, <3>1, <1>1
  <2> QED BY <2>1, <2>2
<1>7. \A i \in 1..Len(s) : s[i] # node
  BY <1>2 DEF InUse
<1>8. /\ linked1 \in [Node -> Node \cup {Nil}]
      /\ index # 0 => linked1[s[index]] = node
      /\ \A i \in 1..Len(s) : i # index => linked1[s[i]] = l.next[s[i]]
  <2>1. CASE index = 0
    <3>1. linked1 = l.next
      BY <2>1
    <3> HIDE DEF linked1
    <3> QED BY <3>1, <2>1, <1>1
  <2>2. CASE index # 0
    <3>1. index \in 1..Len(s) /\ s[index] \in Node
      BY <2>2, <1>1
    <3>2. linked1 = [l.next EXCEPT ![s[index]] = node]
      BY <2>2, <1>5
    <3> HIDE DEF linked1, node
    <3>3. \A i \in 1..Len(s) : i # index => s[i] # s[index] /\ s[i] \in Node
      BY <3>1, <1>1
    <3> QED BY <3>1, <3>2, <3>3, <1>1, <1>2
  <2> QED BY <2>1, <2>2
<1>9. r.pool = got.pool /\ r.value = [l.value EXCEPT ![node] = v] /\ r \in LinkedListType
  <2>1. got.pool \in PoolType
    BY <1>2 DEF Owns
  <2> HIDE DEF linked1, prev, curr, node
  <2>2. [linked1 EXCEPT ![node] = curr] \in [Node -> Node \cup {Nil}]
    BY <1>6, <1>8
  <2>3. [l.value EXCEPT ![node] = v] \in [Node -> Value \cup {Unset}]
    BY <1>1
  <2> QED BY <2>1, <2>2, <2>3, <1>1, <1>2 DEF LinkedListType
<1>10. LinkedIn(l, s, k, node, r)
  <2>1. r.head = IF k = 1 THEN node ELSE l.head
    BY <1>4, <1>5
  <2>2. r.next = [linked1 EXCEPT ![node] = curr]
    OBVIOUS
  <2> HIDE DEF linked1, prev, curr, node, r, k
  <2>3. r.next[node] = IF k = Len(s) + 1 THEN Nil ELSE s[k]
    BY <2>2, <1>2, <1>6, <1>8
  <2>4. \A i \in 1..Len(s) : r.next[s[i]] = linked1[s[i]]
    BY <2>2, <1>1, <1>7, <1>8
  <2>5. k # 1 => r.next[s[k - 1]] = node
    <3> SUFFICES ASSUME k # 1 PROVE r.next[s[k - 1]] = node
      OBVIOUS
    <3>1. index \in 1..Len(s) /\ index # 0 /\ k - 1 = index
      BY <1>4 DEF k
    <3> QED BY <3>1, <2>4, <1>8
  <2>6. \A i \in 1..Len(s) : i # k - 1 => r.next[s[i]] = l.next[s[i]]
    BY <2>4, <1>4, <1>8
  <2> QED BY <2>1, <2>3, <2>5, <2>6, <1>1, <1>2, <1>4 DEF LinkedIn
<1>11. Placed(l, s, k, node, v, r)
  <2> HIDE DEF r, k, node
  <2> QED BY <1>2, <1>9, <1>10 DEF Placed
<1>12. Placed(l, s, k, node, v, LLInsert(l, index, v, c)) /\ node \in Node
  <2> HIDE DEF r, k, node
  <2> QED BY <1>2, <1>3, <1>11
<1> HIDE DEF node
<1> QED BY <1>12

\* Appending is inserting at the end, when the tail is the last node.
LEMMA AppendLinked ==
  ASSUME NEW l, NEW s, Linked(l, s), TailIsLast(l), NEW v \in Value,
         NEW c \in Chunk \ Chunks(l.pool)
  PROVE  \E n \in Node : Placed(l, s, Len(s) + 1, n, v, LLAppend(l, v, c))
<1> DEFINE got == SoAlloc(l.pool, c)
<1> DEFINE node == got.object
<1> DEFINE k == Len(s) + 1
<1>1. /\ l.head \in Node \cup {Nil} /\ l.tail \in Node \cup {Nil}
      /\ l.value \in [Node -> Value \cup {Unset}] /\ l.next \in [Node -> Node \cup {Nil}]
      /\ s \in Seq(Node) /\ Len(s) \in Nat /\ \A i \in 1..Len(s) : s[i] \in Node
      /\ \A i, j \in 1..Len(s) : s[i] = s[j] => i = j
      /\ l.head = IF Len(s) = 0 THEN Nil ELSE s[1]
      /\ \A i \in 1..Len(s) : l.next[s[i]] = IF i = Len(s) THEN Nil ELSE s[i + 1]
      /\ Nodes(l) = s /\ Nil \notin Node
  BY LinkedParts
<1>2. node \in Node \ InUse(s) /\ Owns(got.pool, InUse(s) \cup {node})
  <2>1. Owns(l.pool, InUse(s))
    BY DEF Linked
  <2> QED BY <2>1, AllocOwns
<1> HIDE DEF got
<1>3. l.tail = IF Len(s) = 0 THEN Nil ELSE s[Len(s)]
  BY <1>1 DEF TailIsLast, Last
<1>4. (l.tail = Nil) = (Len(s) = 0)
  BY <1>1, <1>3
<1> DEFINE linked1 == IF l.tail = Nil THEN l.next ELSE [l.next EXCEPT ![l.tail] = node]
<1> DEFINE r == [head |-> IF l.tail = Nil THEN node ELSE l.head,
                 tail |-> node,
                 value |-> [l.value EXCEPT ![node] = v],
                 next |-> [linked1 EXCEPT ![node] = Nil],
                 pool |-> got.pool]
<1>5. LLAppend(l, v, c) = r
  BY DEF LLAppend, got
<1>6. \A i \in 1..Len(s) : s[i] # node
  BY <1>2 DEF InUse
<1>7. /\ linked1 \in [Node -> Node \cup {Nil}]
      /\ Len(s) # 0 => linked1[s[Len(s)]] = node
      /\ \A i \in 1..Len(s) : i # Len(s) => linked1[s[i]] = l.next[s[i]]
  <2>1. CASE Len(s) = 0
    <3>1. linked1 = l.next
      BY <2>1, <1>4
    <3> HIDE DEF linked1
    <3> QED BY <3>1, <2>1, <1>1
  <2>2. CASE Len(s) # 0
    <3>1. Len(s) \in 1..Len(s) /\ s[Len(s)] \in Node
      BY <2>2, <1>1
    <3>2. linked1 = [l.next EXCEPT ![s[Len(s)]] = node]
      BY <2>2, <1>3, <1>4
    <3> HIDE DEF linked1, node
    <3>3. \A i \in 1..Len(s) : i # Len(s) => s[i] # s[Len(s)] /\ s[i] \in Node
      BY <3>1, <1>1
    <3> QED BY <3>1, <3>2, <3>3, <1>1, <1>2
  <2> QED BY <2>1, <2>2
<1>8. r.pool = got.pool /\ r.value = [l.value EXCEPT ![node] = v] /\ r \in LinkedListType
  <2>1. got.pool \in PoolType
    BY <1>2 DEF Owns
  <2> HIDE DEF linked1, node
  <2>2. [linked1 EXCEPT ![node] = Nil] \in [Node -> Node \cup {Nil}]
    BY <1>7
  <2>3. [l.value EXCEPT ![node] = v] \in [Node -> Value \cup {Unset}]
    BY <1>1
  <2> QED BY <2>1, <2>2, <2>3, <1>1, <1>2 DEF LinkedListType
<1>9. LinkedIn(l, s, k, node, r)
  <2>1. r.head = IF k = 1 THEN node ELSE l.head
    BY <1>1, <1>4
  <2>2. r.next = [linked1 EXCEPT ![node] = Nil]
    OBVIOUS
  <2>7. k \in 1..(Len(s) + 1) /\ k = Len(s) + 1 /\ k - 1 = Len(s)
    BY <1>1
  <2> HIDE DEF linked1, node, r, k
  <2>3. r.next[node] = IF k = Len(s) + 1 THEN Nil ELSE s[k]
    BY <2>2, <2>7, <1>2, <1>7
  <2>4. \A i \in 1..Len(s) : r.next[s[i]] = linked1[s[i]]
    BY <2>2, <1>1, <1>6, <1>7
  <2>5. k # 1 => r.next[s[k - 1]] = node
    <3> SUFFICES ASSUME k # 1 PROVE r.next[s[k - 1]] = node
      OBVIOUS
    <3>1. Len(s) \in 1..Len(s) /\ Len(s) # 0
      BY <2>7, <1>1
    <3> QED BY <3>1, <2>4, <2>7, <1>7
  <2>6. \A i \in 1..Len(s) : i # k - 1 => r.next[s[i]] = l.next[s[i]]
    <3> SUFFICES ASSUME NEW i \in 1..Len(s), i # k - 1 PROVE r.next[s[i]] = l.next[s[i]]
      OBVIOUS
    <3>1. i # Len(s)
      BY <2>7
    <3>2. linked1[s[i]] = l.next[s[i]]
      BY <3>1, <1>7
    <3> QED BY <3>2, <2>4
  <2> QED BY <2>1, <2>3, <2>5, <2>6, <2>7, <1>1, <1>2 DEF LinkedIn
<1>10. Placed(l, s, k, node, v, r)
  <2> HIDE DEF r, k, node
  <2> QED BY <1>2, <1>8, <1>9 DEF Placed
<1>11. Placed(l, s, k, node, v, LLAppend(l, v, c)) /\ node \in Node
  <2> HIDE DEF r, k, node
  <2> QED BY <1>2, <1>5, <1>10
<1> HIDE DEF node
<1> QED BY <1>11

LEMMA EmptyLinked ==
  ASSUME NEW l, l.head = Nil, l \in LinkedListType, Owns(l.pool, {})
  PROVE  Linked(l, <<>>)
<1>1. InUse(<<>>) = {}
  BY DEF InUse
<1>2. Chained(l, <<>>)
  <2>1. <<>> \in Seq(Node) /\ Len(<<>>) = 0 /\ 1..Len(<<>>) = {}
    OBVIOUS
  <2> QED BY <2>1 DEF Chained
<1>3. \A i \in 1..Len(<<>>) : l.value[<<>>[i]] \in Value
  OBVIOUS
<1> QED BY <1>1, <1>2, <1>3 DEF Linked

\* The list the program starts with.
LEMMA StartLinked == Linked(EmptyLinkedList, <<>>)
<1>1. EmptyPool \in PoolType /\ PerChunk \in Nat
  <2>1. 0 \in 0..PerChunk /\ PerChunk \in Nat
    BY PerChunkAssumption
  <2>2. <<>> \in Seq(Chunk)
    OBVIOUS
  <2> QED BY <2>1, <2>2 DEF EmptyPool, PoolType
<1>2. Owns(EmptyPool, {})
  <2>1. \A c : InChunk({}, c) = {} /\ Cardinality(InChunk({}, c)) = 0
    BY FS_EmptySet DEF InChunk
  <2>2. /\ EmptyPool.chunks = <<>> /\ EmptyPool.taken = [c \in Chunk |-> 0]
        /\ EmptyPool.freed = [c \in Chunk |-> 0] /\ Chunks(EmptyPool) = {}
    BY DEF EmptyPool, Chunks
  <2> QED BY <1>1, <2>1, <2>2 DEF Owns, Distinct
<1>3. EmptyLinkedList \in LinkedListType /\ EmptyLinkedList.head = Nil
      /\ EmptyLinkedList.pool = EmptyPool
  BY <1>1 DEF EmptyLinkedList, LinkedListType, Unset
<1> QED BY <1>2, <1>3, EmptyLinked

\* The objects from the i-th node on.
FromNode(s, i) == {s[j] : j \in (i + 1)..Len(s)}

\* When every node is freed, the pool has no object in use.
LEMMA ClearedLinked ==
  ASSUME NEW l, NEW s, Linked(l, s)
  PROVE  Linked(LLClear(l), <<>>)
<1> DEFINE L == Len(s)
<1> DEFINE Body(f, n) == [i \in 0..n |-> IF i = 0 THEN l.pool ELSE SoFree(f[i - 1], s[i])]
<1>1. /\ s \in Seq(Node) /\ L \in Nat /\ Nodes(l) = s
      /\ \A i, j \in 1..L : s[i] = s[j] => i = j
  BY LinkedParts
<1>2. \E f : f = Body(f, L)
  <2> DEFINE T == {n \in Nat : ~\E f : f = Body(f, n)}
  <2> SUFFICES ASSUME T # {} PROVE FALSE
    BY <1>1
  <2>1. PICK n \in T : \A m \in T : ~(m < n)
    <3>1. T \in SUBSET Nat
      OBVIOUS
    <3> HIDE DEF T
    <3> QED BY <3>1, LeastNatural
  <2>2. CASE n = 0
    <3> DEFINE f == [i \in 0..0 |-> l.pool]
    <3>1. f = Body(f, 0)
      OBVIOUS
    <3> HIDE DEF f, Body
    <3> QED BY <3>1, <2>1, <2>2
  <2>3. CASE n # 0
    <3>1. n - 1 \in Nat /\ n - 1 < n /\ n \in Nat
      BY <2>3
    <3>2. PICK f : f = Body(f, n - 1)
      <4> HIDE DEF Body
      <4> QED BY <3>1, <2>1
    <3> DEFINE e == [i \in 0..n |-> IF i = n THEN SoFree(f[n - 1], s[n]) ELSE f[i]]
    <3>3. ASSUME NEW i \in 0..n PROVE e[i] = IF i = 0 THEN l.pool ELSE SoFree(e[i - 1], s[i])
      <4>1. CASE i = n
        <5>1. n - 1 \in 0..n /\ n - 1 # n /\ i # 0
          BY <3>1, <2>3, <4>1
        <5> QED BY <5>1, <4>1
      <4>2. CASE i # n
        <5>1. i \in 0..(n - 1) /\ (i # 0 => i - 1 \in 0..n /\ i - 1 # n)
          BY <3>1, <4>2
        <5>2. e[i] = f[i] /\ (i # 0 => e[i - 1] = f[i - 1])
          BY <5>1, <4>2
        <5>3. f[i] = IF i = 0 THEN l.pool ELSE SoFree(f[i - 1], s[i])
          <6> DEFINE B == Body(f, n - 1)
          <6>1. B[i] = IF i = 0 THEN l.pool ELSE SoFree(f[i - 1], s[i])
            BY ONLY <5>1
          <6>2. f = B
            BY ONLY <3>2
          <6> HIDE DEF B
          <6> QED BY ONLY <6>1, <6>2
        <5> HIDE DEF e
        <5> QED BY ONLY <5>2, <5>3
      <4> QED BY <4>1, <4>2
    <3>4. e = [i \in 0..n |-> e[i]]
      OBVIOUS
    <3>5. e = Body(e, n)
      <4> HIDE DEF e
      <4> QED BY ONLY <3>3, <3>4
    <3> HIDE DEF e, Body
    <3> QED BY <3>5, <2>1
  <2> QED BY <2>2, <2>3
<1> DEFINE rest == CHOOSE f : f = Body(f, L)
<1>3. rest = Body(rest, L)
  <2> HIDE DEF Body
  <2> QED BY <1>2
<1>4. LLClear(l) = [EmptyLinkedList EXCEPT !.pool = rest[L]]
  BY <1>1 DEF LLClear
<1> HIDE DEF rest
<1>5. \A i \in 0..L : rest[i] = IF i = 0 THEN l.pool ELSE SoFree(rest[i - 1], s[i])
  <2> TAKE i \in 0..L
  <2> DEFINE B == Body(rest, L)
  <2>1. B[i] = IF i = 0 THEN l.pool ELSE SoFree(rest[i - 1], s[i])
    OBVIOUS
  <2>2. rest = B
    BY ONLY <1>3
  <2> HIDE DEF B
  <2> QED BY ONLY <2>1, <2>2
<1> HIDE DEF L
<1> DEFINE Wrong == {i \in 0..L : ~Owns(rest[i], FromNode(s, i))}
<1>6. Wrong = {}
  <2> SUFFICES ASSUME Wrong # {} PROVE FALSE
    OBVIOUS
  <2>1. PICK i \in Wrong : \A m \in Wrong : ~(m < i)
    <3>1. Wrong \in SUBSET Nat
      BY <1>1
    <3> HIDE DEF Wrong
    <3> QED BY <3>1, LeastNatural
  <2>2. i \in 0..L /\ i \in Nat
    BY <1>1
  <2>3. CASE i = 0
    <3>1. FromNode(s, 0) = InUse(s)
      BY DEF FromNode, InUse
    <3> QED BY <3>1, <2>1, <2>3, <1>5, <2>2 DEF Linked
  <2>4. CASE i # 0
    <3>1. i - 1 \in 0..L /\ i - 1 < i /\ i \in 1..L /\ (i - 1) + 1 = i /\ i \in i..L
      BY <2>2, <2>4, <1>1
    <3>2. Owns(rest[i - 1], FromNode(s, i - 1))
      BY <3>1, <2>1
    <3>3. FromNode(s, i - 1) = {s[j] : j \in i..L} /\ FromNode(s, i) = {s[j] : j \in (i + 1)..L}
      BY <3>1 DEF FromNode, L
    <3>4. s[i] \in FromNode(s, i - 1)
      BY <3>1, <3>3
    <3>5. FromNode(s, i) = FromNode(s, i - 1) \ {s[i]}
      <4>1. \A j \in i..L : j = i \/ j \in (i + 1)..L
        BY <3>1, <1>1
      <4>2. \A j \in (i + 1)..L : j \in i..L /\ j \in 1..L /\ j # i
        BY <3>1, <1>1
      <4>3. \A j \in (i + 1)..L : s[j] # s[i]
        BY <4>2, <3>1, <1>1
      <4> QED BY <3>3, <4>1, <4>2, <4>3
    <3>6. Owns(SoFree(rest[i - 1], s[i]), FromNode(s, i))
      BY <3>2, <3>4, <3>5, FreeOwns
    <3>7. rest[i] = SoFree(rest[i - 1], s[i])
      BY <1>5, <2>2, <2>4
    <3> QED BY <3>6, <3>7, <2>1
  <2> QED BY <2>3, <2>4
<1>7. Owns(rest[L], {})
  <2>1. L \in 0..L /\ (L + 1)..L = {}
    BY <1>1
  <2>2. FromNode(s, L) = {}
    BY <2>1 DEF FromNode, L
  <2> QED BY <1>6, <2>1, <2>2
<1> DEFINE r == [EmptyLinkedList EXCEPT !.pool = rest[L]]
<1>8. r.head = Nil /\ r.pool = rest[L] /\ r \in LinkedListType
  <2>1. rest[L] \in PoolType
    BY <1>7 DEF Owns
  <2> QED BY <2>1 DEF EmptyLinkedList, LinkedListType, Unset
<1> HIDE DEF r
<1>9. Linked(r, <<>>)
  BY <1>7, <1>8, EmptyLinked
<1> QED BY <1>4, <1>9 DEF r

----------------------------------------------------------------------------
(***************************************************************************)
(* Sorting the linked list                                                 *)
(***************************************************************************)

\* What Pushed takes for a recursive function.
PushedParts(s, S, part) ==
  /\ part \in [0..Len(s) -> Seq(Node)]
  /\ part[0] = <<>>
  /\ \A i \in 1..Len(s) :
       part[i] = (IF s[i] \in S THEN <<s[i]>> ELSE <<>>) \o part[i - 1]
  /\ Pushed(s, S) = part[Len(s)]

LEMMA PushedByParts ==
  ASSUME NEW s \in Seq(Node), NEW S
  PROVE  \E part : PushedParts(s, S, part)
<1> DEFINE N == Len(s)
<1> DEFINE R == Seq(Node)
<1> DEFINE one(i) == IF s[i] \in S THEN <<s[i]>> ELSE <<>>
<1> DEFINE F == [p \in (1..N) \X R |-> one(p[1]) \o p[2]]
<1> DEFINE Body(f) == [i \in 0..N |-> IF i = 0 THEN <<>> ELSE one(i) \o f[i - 1]]
<1> DEFINE part == CHOOSE f : f = Body(f)
<1>1. N \in Nat /\ <<>> \in R /\ \A i \in 1..N : one(i) \in R
  OBVIOUS
<1>2. F \in [(1..N) \X R -> R]
  <2> SUFFICES ASSUME NEW i \in 1..N, NEW r \in R PROVE one(i) \o r \in R
    OBVIOUS
  <2> HIDE DEF one
  <2> QED BY <1>1
<1>3. PICK g \in [0..N -> R] : g[0] = <<>> /\ \A i \in 1..N : g[i] = F[<<i, g[i - 1]>>]
  <2> HIDE DEF F, R, N
  <2>1. PICK g : StepIteration(R, F, <<>>, N, g)
    BY <1>1, <1>2, StepIterates
  <2> QED BY <2>1 DEF StepIteration
<1>4. g = Body(g)
  <2>1. ASSUME NEW i \in 0..N PROVE g[i] = IF i = 0 THEN <<>> ELSE one(i) \o g[i - 1]
    <3>1. CASE i = 0
      BY <3>1, <1>3
    <3>2. CASE i # 0
      <4>1. i \in 1..N /\ i - 1 \in 0..N
        BY <3>2, <1>1
      <4>2. g[i - 1] \in R
        BY <4>1
      <4> HIDE DEF one, R, N
      <4>3. F[<<i, g[i - 1]>>] = one(i) \o g[i - 1]
        BY <4>1, <4>2
      <4> HIDE DEF F
      <4> QED BY <4>1, <4>3, <3>2, <1>3
    <3> QED BY <3>1, <3>2
  <2>2. g = [i \in 0..N |-> g[i]]
    OBVIOUS
  <2> HIDE DEF one, R, N
  <2> QED BY ONLY <2>1, <2>2
<1>5. part = Body(part)
  <2> HIDE DEF Body
  <2> QED BY <1>4
<1>6. Pushed(s, S) = part[Len(s)]
  BY DEF Pushed
<1> HIDE DEF part, one, R
<1>7. \A i \in 0..N : part[i] = IF i = 0 THEN <<>> ELSE one(i) \o part[i - 1]
  <2> TAKE i \in 0..N
  <2> DEFINE B == Body(part)
  <2>1. B[i] = IF i = 0 THEN <<>> ELSE one(i) \o part[i - 1]
    OBVIOUS
  <2>2. part = B
    BY ONLY <1>5
  <2> HIDE DEF B
  <2> QED BY ONLY <2>1, <2>2
<1> HIDE DEF N
<1>8. \A i \in 0..N : part[i] \in R
  <2> DEFINE Wrong == {i \in 0..N : part[i] \notin R}
  <2> SUFFICES ASSUME Wrong # {} PROVE FALSE
    OBVIOUS
  <2>1. PICK i \in Wrong : \A m \in Wrong : ~(m < i)
    <3>1. Wrong \in SUBSET Nat
      BY <1>1
    <3> HIDE DEF Wrong
    <3> QED BY <3>1, LeastNatural
  <2>2. i \in 0..N /\ i # 0
    BY <2>1, <1>1, <1>7
  <2>3. i \in 1..N /\ i - 1 \in 0..N /\ i - 1 < i
    BY <2>2, <1>1
  <2>4. part[i - 1] \in R /\ part[i] = one(i) \o part[i - 1]
    BY <2>1, <2>2, <2>3, <1>7
  <2>5. one(i) \in R
    BY <2>3, <1>1
  <2>6. part[i] \in R
    BY ONLY <2>4, <2>5 DEF R
  <2> QED BY <2>1, <2>6
<1>9. part = [i \in 0..N |-> part[i]]
  <2> DEFINE B == Body(part)
  <2>1. B = [i \in 0..N |-> B[i]]
    OBVIOUS
  <2>2. part = B
    BY ONLY <1>5
  <2> HIDE DEF B
  <2> QED BY ONLY <2>1, <2>2
<1>10. part \in [0..N -> R]
  BY <1>8, <1>9
<1>11. /\ part[0] = <<>>
       /\ \A i \in 1..N : part[i] = one(i) \o part[i - 1]
  <2>1. 0 \in 0..N /\ \A i \in 1..N : i \in 0..N /\ i # 0
    BY <1>1
  <2> QED BY <2>1, <1>7
<1> QED BY <1>6, <1>10, <1>11 DEF PushedParts, one, R, N

\* Two sequences one after the other.
InOrder(w, t) == \A i, j \in 1..Len(t) : i < j => w[t[i]] <= w[t[j]]

LEMMA ConcatParts ==
  ASSUME NEW a \in Seq(Node), NEW b \in Seq(Node)
  PROVE  /\ a \o b \in Seq(Node) /\ Len(a \o b) = Len(a) + Len(b)
         /\ InUse(a \o b) = InUse(a) \cup InUse(b)
         /\ Distinct(a) /\ Distinct(b) /\ InUse(a) \cap InUse(b) = {} => Distinct(a \o b)
         /\ \A w : (/\ InOrder(w, a) /\ InOrder(w, b)
                    /\ \A m \in InUse(a), n \in InUse(b) : w[m] <= w[n]) => InOrder(w, a \o b)
<1> DEFINE c == a \o b
<1>1. /\ c \in Seq(Node) /\ Len(c) = Len(a) + Len(b)
      /\ \A i \in 1..(Len(a) + Len(b)) : c[i] = IF i <= Len(a) THEN a[i] ELSE b[i - Len(a)]
  BY ConcatProperties
<1>2. Len(a) \in Nat /\ Len(b) \in Nat
  OBVIOUS
<1> HIDE DEF c
<1>3. ASSUME NEW i \in 1..Len(c)
      PROVE  \/ i <= Len(a) /\ i \in 1..Len(a) /\ c[i] = a[i] /\ c[i] \in InUse(a)
             \/ i > Len(a) /\ i - Len(a) \in 1..Len(b) /\ c[i] = b[i - Len(a)] /\ c[i] \in InUse(b)
  <2>1. CASE i <= Len(a)
    BY <2>1, <1>1, <1>2 DEF InUse
  <2>2. CASE i > Len(a)
    <3>1. i - Len(a) \in 1..Len(b) /\ ~(i <= Len(a)) /\ i \in 1..(Len(a) + Len(b))
      BY <2>2, <1>1, <1>2
    <3>2. c[i] = b[i - Len(a)]
      BY <3>1, <1>1
    <3>3. c[i] \in InUse(b)
      BY <3>1, <3>2 DEF InUse
    <3> QED BY <3>1, <3>2, <3>3, <2>2
  <2>3. i <= Len(a) \/ i > Len(a)
    BY <1>2
  <2> QED BY ONLY <2>1, <2>2, <2>3
<1>4. InUse(c) = InUse(a) \cup InUse(b)
  <2>1. ASSUME NEW m \in InUse(c) PROVE m \in InUse(a) \cup InUse(b)
    <3>1. PICK i \in 1..Len(c) : m = c[i]
      BY DEF InUse
    <3> QED BY <3>1, <1>3
  <2>2. ASSUME NEW m \in InUse(a) PROVE m \in InUse(c)
    <3>1. PICK i \in 1..Len(a) : m = a[i]
      BY DEF InUse
    <3>2. i \in 1..Len(c) /\ i <= Len(a)
      BY <1>1, <1>2
    <3>3. c[i] = m
      BY <3>1, <3>2, <1>1
    <3> QED BY <3>2, <3>3 DEF InUse
  <2>3. ASSUME NEW m \in InUse(b) PROVE m \in InUse(c)
    <3>1. PICK i \in 1..Len(b) : m = b[i]
      BY DEF InUse
    <3> DEFINE j == i + Len(a)
    <3>2. j \in 1..Len(c) /\ ~(j <= Len(a)) /\ j - Len(a) = i
      BY <1>1, <1>2
    <3> HIDE DEF j
    <3>3. c[j] = m
      BY <3>1, <3>2, <1>1
    <3> QED BY <3>2, <3>3 DEF InUse
  <2> QED BY <2>1, <2>2, <2>3
<1>5. ASSUME Distinct(a), Distinct(b), InUse(a) \cap InUse(b) = {} PROVE Distinct(c)
  <2> SUFFICES ASSUME NEW i \in 1..Len(c), NEW j \in 1..Len(c), c[i] = c[j] PROVE i = j
    BY DEF Distinct
  <2>1. \/ i \in 1..Len(a) /\ c[i] = a[i] /\ c[i] \in InUse(a)
        \/ i - Len(a) \in 1..Len(b) /\ c[i] = b[i - Len(a)] /\ c[i] \in InUse(b)
    BY <1>3
  <2>2. \/ j \in 1..Len(a) /\ c[j] = a[j] /\ c[j] \in InUse(a)
        \/ j - Len(a) \in 1..Len(b) /\ c[j] = b[j - Len(a)] /\ c[j] \in InUse(b)
    BY <1>3
  <2>3. CASE i \in 1..Len(a) /\ j \in 1..Len(a) /\ c[i] = a[i] /\ c[j] = a[j]
    BY <2>3, <1>5 DEF Distinct
  <2>4. CASE /\ i - Len(a) \in 1..Len(b) /\ j - Len(a) \in 1..Len(b)
             /\ c[i] = b[i - Len(a)] /\ c[j] = b[j - Len(a)]
    <3>1. i - Len(a) = j - Len(a)
      BY <2>4, <1>5 DEF Distinct
    <3> QED BY <3>1, <1>2
  <2> QED BY <2>1, <2>2, <2>3, <2>4, <1>5
<1>6. ASSUME NEW w, InOrder(w, a), InOrder(w, b), \A m \in InUse(a), n \in InUse(b) : w[m] <= w[n]
      PROVE  InOrder(w, c)
  <2> SUFFICES ASSUME NEW i \in 1..Len(c), NEW j \in 1..Len(c), i < j PROVE w[c[i]] <= w[c[j]]
    BY DEF InOrder
  <2>1. \/ i <= Len(a) /\ i \in 1..Len(a) /\ c[i] = a[i] /\ c[i] \in InUse(a)
        \/ i > Len(a) /\ i - Len(a) \in 1..Len(b) /\ c[i] = b[i - Len(a)] /\ c[i] \in InUse(b)
    BY <1>3
  <2>2. \/ j <= Len(a) /\ j \in 1..Len(a) /\ c[j] = a[j] /\ c[j] \in InUse(a)
        \/ j > Len(a) /\ j - Len(a) \in 1..Len(b) /\ c[j] = b[j - Len(a)] /\ c[j] \in InUse(b)
    BY <1>3
  <2>3. CASE i \in 1..Len(a) /\ j \in 1..Len(a) /\ c[i] = a[i] /\ c[j] = a[j]
    BY <2>3, <1>6 DEF InOrder
  <2>4. CASE /\ i - Len(a) \in 1..Len(b) /\ j - Len(a) \in 1..Len(b)
             /\ c[i] = b[i - Len(a)] /\ c[j] = b[j - Len(a)]
    <3>1. i - Len(a) < j - Len(a)
      BY <1>2
    <3> QED BY <3>1, <2>4, <1>6 DEF InOrder
  <2>5. CASE c[i] \in InUse(a) /\ c[j] \in InUse(b)
    BY <2>5, <1>6
  <2>6. ~(i > Len(a) /\ j <= Len(a))
    BY <1>2
  <2> QED BY ONLY <2>1, <2>2, <2>3, <2>4, <2>5, <2>6
<1> QED BY <1>1, <1>4, <1>5, <1>6 DEF c

LEMMA OneNode ==
  ASSUME NEW n \in Node
  PROVE  /\ <<n>> \in Seq(Node) /\ Len(<<n>>) = 1 /\ InUse(<<n>>) = {n} /\ Distinct(<<n>>)
         /\ \A w : InOrder(w, <<n>>)
<1>1. <<n>> \in Seq(Node) /\ Len(<<n>>) = 1 /\ <<n>>[1] = n /\ 1..1 = {1}
  OBVIOUS
<1>2. InUse(<<n>>) = {n}
  BY <1>1 DEF InUse
<1>3. Distinct(<<n>>)
  BY <1>1 DEF Distinct
<1>4. \A w : InOrder(w, <<n>>)
  BY <1>1 DEF InOrder
<1> QED BY <1>1, <1>2, <1>3, <1>4

LEMMA NoNodes ==
  /\ <<>> \in Seq(Node) /\ Len(<<>>) = 0 /\ InUse(<<>>) = {} /\ Distinct(<<>>)
  /\ \A w : InOrder(w, <<>>)
<1>1. <<>> \in Seq(Node) /\ Len(<<>>) = 0 /\ 1..0 = {}
  OBVIOUS
<1> QED BY <1>1 DEF InUse, Distinct, InOrder

\* Pushing nodes keeps exactly the chosen ones.
LEMMA PushedProperties ==
  ASSUME NEW s \in Seq(Node), NEW S
  PROVE  /\ Pushed(s, S) \in Seq(Node)
         /\ Len(Pushed(s, S)) \in Nat /\ Len(Pushed(s, S)) <= Len(s)
         /\ InUse(Pushed(s, S)) = InUse(s) \cap S
         /\ Distinct(s) => Distinct(Pushed(s, S))
<1> DEFINE N == Len(s)
<1>1. PICK part : PushedParts(s, S, part)
  BY PushedByParts
<1>2. /\ part \in [0..N -> Seq(Node)] /\ part[0] = <<>> /\ Pushed(s, S) = part[N]
      /\ \A i \in 1..N : part[i] = (IF s[i] \in S THEN <<s[i]>> ELSE <<>>) \o part[i - 1]
  BY <1>1 DEF PushedParts
<1>3. N \in Nat /\ \A i \in 1..N : s[i] \in Node
  OBVIOUS
<1> DEFINE UpTo(i) == {s[j] : j \in 1..i} \cap S
<1> DEFINE Good(i) == /\ Len(part[i]) <= i /\ InUse(part[i]) = UpTo(i)
                      /\ Distinct(s) => Distinct(part[i])
<1> HIDE DEF N
<1>4. \A i \in 0..N : Good(i)
  <2> DEFINE Wrong == {i \in 0..N : ~Good(i)}
  <2> SUFFICES ASSUME Wrong # {} PROVE FALSE
    OBVIOUS
  <2>1. PICK i \in Wrong : \A m \in Wrong : ~(m < i)
    <3>1. Wrong \in SUBSET Nat
      BY <1>3
    <3> HIDE DEF Wrong
    <3> QED BY <3>1, LeastNatural
  <2>2. i \in 0..N /\ ~Good(i)
    OBVIOUS
  <2>3. CASE i = 0
    <3>1. UpTo(0) = {}
      OBVIOUS
    <3> QED BY <3>1, <2>2, <2>3, <1>2, NoNodes
  <2>4. CASE i # 0
    <3>1. i \in 1..N /\ i - 1 \in 0..N /\ i - 1 < i /\ i \in Nat
      BY <2>2, <2>4, <1>3
    <3>2. Good(i - 1)
      BY <3>1, <2>1
    <3>3. part[i - 1] \in Seq(Node) /\ s[i] \in Node
      BY <3>1, <1>2, <1>3
    <3>4. \A j \in 1..i : j = i \/ j \in 1..(i - 1)
      BY <3>1
    <3>5. \A j \in 1..(i - 1) : j \in 1..i /\ j \in 1..N /\ j # i
      BY <3>1, <1>3
    <3>6. {s[j] : j \in 1..i} = {s[j] : j \in 1..(i - 1)} \cup {s[i]}
      BY <3>1, <3>4, <3>5
    <3>7. Distinct(s) => s[i] \notin {s[j] : j \in 1..(i - 1)}
      BY <3>1, <3>5 DEF Distinct, N
    <3>8. CASE s[i] \in S
      <4>1. part[i] = <<s[i]>> \o part[i - 1]
        BY <3>1, <3>8, <1>2
      <4>2. UpTo(i) = {s[i]} \cup UpTo(i - 1)
        BY <3>6, <3>8
      <4> DEFINE h == <<s[i]>>
      <4> DEFINE u == part[i - 1]
      <4>3. h \in Seq(Node) /\ Len(h) = 1 /\ InUse(h) = {s[i]} /\ Distinct(h)
        BY <3>3, OneNode
      <4>4. u \in Seq(Node)
        BY <3>3
      <4>8. part[i] = h \o u
        BY <4>1
      <4>9. InUse(u) = UpTo(i - 1) /\ Len(u) <= i - 1 /\ (Distinct(s) => Distinct(u))
        BY <3>2
      <4> HIDE DEF h, u, UpTo
      <4>5. /\ Len(h \o u) = Len(h) + Len(u) /\ InUse(h \o u) = InUse(h) \cup InUse(u)
            /\ Distinct(h) /\ Distinct(u) /\ InUse(h) \cap InUse(u) = {} => Distinct(h \o u)
        BY ONLY <4>3, <4>4, ConcatParts
      <4>6. Len(part[i]) <= i
        <5>1. Len(u) \in Nat
          BY <4>4
        <5> QED BY <5>1, <4>3, <4>5, <4>8, <4>9, <3>1
      <4>7. Distinct(s) => InUse(h) \cap InUse(u) = {}
        BY <3>7, <4>3, <4>9 DEF UpTo
      <4> QED BY <2>2, <4>2, <4>3, <4>5, <4>6, <4>7, <4>8, <4>9
    <3>9. CASE s[i] \notin S
      <4>1. part[i] = <<>> \o part[i - 1]
        BY <3>1, <3>9, <1>2
      <4>2. UpTo(i) = UpTo(i - 1)
        BY <3>6, <3>9
      <4>3. part[i] = part[i - 1]
        BY <4>1, <3>3, ConcatEmptySeq
      <4>4. Len(part[i]) \in Nat
        BY <3>3, <4>3
      <4> QED BY <2>2, <3>1, <3>2, <4>2, <4>3, <4>4
    <3> QED BY <3>8, <3>9
  <2> QED BY <2>3, <2>4
<1>5. N \in 0..N /\ part[N] \in Seq(Node)
  BY <1>2, <1>3
<1>6. UpTo(N) = InUse(s) \cap S
  BY DEF InUse, N
<1>7. Good(N)
  BY <1>4, <1>5
<1>8. Len(part[N]) \in Nat
  BY <1>5
<1> QED BY <1>2, <1>5, <1>6, <1>7, <1>8 DEF N

LEMMA IteratesAgree ==
  ASSUME NEW S, NEW F, NEW start, NEW N \in Nat, NEW M \in Nat, N <= M,
         NEW g, NEW h, Iteration(S, F, start, N, g), Iteration(S, F, start, M, h)
  PROVE  \A j \in 0..N : g[j] = h[j]
<1> DEFINE Wrong == {j \in 0..N : g[j] # h[j]}
<1> SUFFICES ASSUME Wrong # {} PROVE FALSE
  OBVIOUS
<1>1. PICK j \in Wrong : \A m \in Wrong : ~(m < j)
  <2>1. Wrong \in SUBSET Nat
    OBVIOUS
  <2> HIDE DEF Wrong
  <2> QED BY <2>1, LeastNatural
<1>2. j # 0
  BY DEF Iteration
<1>3. j \in 1..N /\ j \in 1..M /\ j - 1 \in 0..N /\ j - 1 < j
  BY <1>2
<1>4. g[j] = F[g[j - 1]] /\ h[j] = F[h[j - 1]]
  BY <1>3 DEF Iteration
<1>5. g[j - 1] = h[j - 1]
  BY <1>1, <1>3
<1> QED BY <1>1, <1>4, <1>5

\* A function can be applied for ever.
Forever(S, F, start, g) ==
  g \in [Nat -> S] /\ g[0] = start /\ \A n \in Nat : g[n + 1] = F[g[n]]

LEMMA IteratesForever ==
  ASSUME NEW S, NEW F \in [S -> S], NEW start \in S
  PROVE  \E g : Forever(S, F, start, g)
<1> DEFINE one(n) == CHOOSE h : Iteration(S, F, start, n, h)
<1> DEFINE g == [n \in Nat |-> one(n)[n]]
<1>1. \A n \in Nat : Iteration(S, F, start, n, one(n))
  <2> TAKE n \in Nat
  <2>1. \E h : Iteration(S, F, start, n, h)
    BY Iterates
  <2> QED BY <2>1
<1> HIDE DEF one
<1>2. ASSUME NEW n \in Nat PROVE one(n)[n] \in S
  <2>1. one(n) \in [0..n -> S] /\ n \in 0..n
    BY <1>1 DEF Iteration
  <2> QED BY <2>1
<1>3. g \in [Nat -> S]
  BY <1>2
<1>4. g[0] = start
  <2>1. one(0)[0] = start
    BY <1>1 DEF Iteration
  <2> QED BY <2>1
<1>5. ASSUME NEW n \in Nat PROVE g[n + 1] = F[g[n]]
  <2>1. n + 1 \in Nat /\ n <= n + 1 /\ n \in 0..n /\ n + 1 \in 1..(n + 1) /\ (n + 1) - 1 = n
    OBVIOUS
  <2>2. one(n + 1)[n + 1] = F[one(n + 1)[n]]
    <3>1. \A j \in 1..(n + 1) : one(n + 1)[j] = F[one(n + 1)[j - 1]]
      BY <1>1, <2>1 DEF Iteration
    <3> QED BY <3>1, <2>1
  <2>3. one(n)[n] = one(n + 1)[n]
    <3>1. Iteration(S, F, start, n, one(n)) /\ Iteration(S, F, start, n + 1, one(n + 1))
      BY <1>1, <2>1
    <3>2. \A j \in 0..n : one(n)[j] = one(n + 1)[j]
      BY ONLY <3>1, <2>1, n \in Nat, IteratesAgree
    <3> QED BY <3>2, <2>1
  <2> QED BY <2>1, <2>2, <2>3
<1> HIDE DEF g
<1> QED BY <1>3, <1>4, <1>5 DEF Forever

\* The two parts that quicksort makes of what follows the first node, w giving
\* the values.
Below(w, s) == {n \in ToSet(Tail(s)) : w[n] < w[Head(s)]}
LowPart(w, s) == Pushed(Tail(s), Below(w, s))
HighPart(w, s) == Pushed(Tail(s), ToSet(Tail(s)) \ Below(w, s))
SortStep(w, f, s) == IF Len(s) <= 1 THEN s
                     ELSE f[LowPart(w, s)] \o <<Head(s)>> \o f[HighPart(w, s)]

LEMMA PartsShorter ==
  ASSUME NEW w, NEW s \in Seq(Node), ~(Len(s) <= 1)
  PROVE  /\ LowPart(w, s) \in Seq(Node) /\ Len(LowPart(w, s)) \in Nat /\ Len(LowPart(w, s)) < Len(s)
         /\ HighPart(w, s) \in Seq(Node) /\ Len(HighPart(w, s)) \in Nat /\ Len(HighPart(w, s)) < Len(s)
         /\ Head(s) \in Node /\ Tail(s) \in Seq(Node) /\ Len(s) \in Nat
<1>1. Len(s) \in Nat /\ s # <<>>
  OBVIOUS
<1>2. Tail(s) \in Seq(Node) /\ Len(Tail(s)) = Len(s) - 1 /\ Head(s) \in Node
  BY <1>1, TailFunction
<1>3. \A S : /\ Pushed(Tail(s), S) \in Seq(Node)
             /\ Len(Pushed(Tail(s), S)) \in Nat /\ Len(Pushed(Tail(s), S)) <= Len(Tail(s))
  BY ONLY <1>2, PushedProperties
<1>4. \A S : Len(Pushed(Tail(s), S)) < Len(s)
  <2> TAKE S
  <2> QED BY <1>1, <1>2, <1>3
<1> QED BY <1>1, <1>2, <1>3, <1>4 DEF LowPart, HighPart

LEMMA SortStepType ==
  ASSUME NEW w, NEW f \in [Seq(Node) -> Seq(Node)], NEW s \in Seq(Node)
  PROVE  SortStep(w, f, s) \in Seq(Node)
<1>1. CASE Len(s) <= 1
  BY <1>1 DEF SortStep
<1>2. CASE ~(Len(s) <= 1)
  <2>1. LowPart(w, s) \in Seq(Node) /\ HighPart(w, s) \in Seq(Node) /\ Head(s) \in Node
    BY <1>2, PartsShorter
  <2>2. f[LowPart(w, s)] \in Seq(Node) /\ f[HighPart(w, s)] \in Seq(Node)
    BY <2>1
  <2>3. <<Head(s)>> \in Seq(Node)
    BY <2>1
  <2>4. f[LowPart(w, s)] \o <<Head(s)>> \in Seq(Node)
    BY ONLY <2>2, <2>3, ConcatProperties
  <2>5. f[LowPart(w, s)] \o <<Head(s)>> \o f[HighPart(w, s)] \in Seq(Node)
    BY ONLY <2>2, <2>4, ConcatProperties
  <2> QED BY <2>5, <1>2 DEF SortStep
<1> QED BY <1>1, <1>2

\* Quicksort ends: its recursion defines a function.
LEMMA SortDefined ==
  ASSUME NEW w
  PROVE  \E f : f = [s \in Seq(Node) |-> SortStep(w, f, s)]
<1> DEFINE R == [Seq(Node) -> Seq(Node)]
<1> DEFINE F == [h \in R |-> [s \in Seq(Node) |-> SortStep(w, h, s)]]
<1> DEFINE start == [s \in Seq(Node) |-> s]
<1>1. start \in R
  OBVIOUS
<1>2. F \in [R -> R]
  BY SortStepType
<1>3. PICK g \in [Nat -> R] : g[0] = start /\ \A n \in Nat : g[n + 1] = F[g[n]]
  <2> HIDE DEF F, R, start
  <2>1. PICK g : Forever(R, F, start, g)
    BY <1>1, <1>2, IteratesForever
  <2> QED BY <2>1 DEF Forever
<1>4. ASSUME NEW n \in Nat, NEW s \in Seq(Node) PROVE g[n + 1][s] = SortStep(w, g[n], s)
  <2>1. g[n + 1] = F[g[n]] /\ g[n] \in R
    BY <1>3
  <2>2. F[g[n]] = [t \in Seq(Node) |-> SortStep(w, g[n], t)]
    BY <2>1
  <2> HIDE DEF F
  <2> QED BY <2>1, <2>2
<1>5. \A s \in Seq(Node) : g[0][s] = s
  BY <1>3
<1> HIDE DEF F, R, start
<1> DEFINE Same(m) == \A s \in Seq(Node) : Len(s) <= m => g[m + 1][s] = g[m][s]
<1>6. \A m \in Nat : Same(m)
  <2> DEFINE Wrong == {m \in Nat : ~Same(m)}
  <2> SUFFICES ASSUME Wrong # {} PROVE FALSE
    OBVIOUS
  <2>1. PICK m \in Wrong : \A k \in Wrong : ~(k < m)
    <3>1. Wrong \in SUBSET Nat
      OBVIOUS
    <3> HIDE DEF Wrong
    <3> QED BY <3>1, LeastNatural
  <2>2. PICK s \in Seq(Node) : Len(s) <= m /\ g[m + 1][s] # g[m][s]
    OBVIOUS
  <2>3. m \in Nat /\ Len(s) \in Nat
    OBVIOUS
  <2>4. CASE Len(s) <= 1
    <3>1. g[m + 1][s] = s
      BY <2>3, <2>4, <1>4 DEF SortStep
    <3>2. CASE m = 0
      BY <3>1, <3>2, <2>2, <1>5
    <3>3. CASE m # 0
      <4>1. m - 1 \in Nat /\ (m - 1) + 1 = m
        BY <3>3, <2>3
      <4>2. g[(m - 1) + 1][s] = SortStep(w, g[m - 1], s)
        BY <4>1, <1>4
      <4>3. g[m][s] = s
        BY <4>1, <4>2, <2>4 DEF SortStep
      <4> QED BY <3>1, <4>3, <2>2
    <3> QED BY <3>2, <3>3
  <2>5. CASE ~(Len(s) <= 1)
    <3>1. m - 1 \in Nat /\ (m - 1) + 1 = m /\ m - 1 < m
      BY <2>2, <2>3, <2>5
    <3> DEFINE a == LowPart(w, s)
    <3> DEFINE b == HighPart(w, s)
    <3>2. /\ a \in Seq(Node) /\ Len(a) \in Nat /\ Len(a) < Len(s)
          /\ b \in Seq(Node) /\ Len(b) \in Nat /\ Len(b) < Len(s)
      BY <2>5, PartsShorter
    <3>3. Len(a) <= m - 1 /\ Len(b) <= m - 1
      BY <3>2, <2>2, <2>3
    <3>4. Same(m - 1)
      BY <3>1, <2>1
    <3>5. g[m][a] = g[m - 1][a] /\ g[m][b] = g[m - 1][b]
      BY <3>1, <3>2, <3>3, <3>4
    <3>6. g[m + 1][s] = SortStep(w, g[m], s)
      BY <2>3, <1>4
    <3>7. g[m][s] = SortStep(w, g[m - 1], s)
      <4>1. g[(m - 1) + 1][s] = SortStep(w, g[m - 1], s)
        BY <3>1, <1>4
      <4> QED BY <4>1, <3>1
    <3> QED BY <3>5, <3>6, <3>7, <2>2, <2>5 DEF SortStep
  <2> QED BY <2>4, <2>5
<1>7. ASSUME NEW s \in Seq(Node) PROVE \A m \in Nat : Len(s) <= m => g[m][s] = g[Len(s)][s]
  <2> DEFINE Wrong == {m \in Nat : Len(s) <= m /\ g[m][s] # g[Len(s)][s]}
  <2> SUFFICES ASSUME Wrong # {} PROVE FALSE
    OBVIOUS
  <2>1. PICK m \in Wrong : \A k \in Wrong : ~(k < m)
    <3>1. Wrong \in SUBSET Nat
      OBVIOUS
    <3> HIDE DEF Wrong
    <3> QED BY <3>1, LeastNatural
  <2>2. m \in Nat /\ Len(s) \in Nat /\ Len(s) <= m /\ g[m][s] # g[Len(s)][s]
    OBVIOUS
  <2>3. m # Len(s)
    BY <2>2
  <2>4. m - 1 \in Nat /\ Len(s) <= m - 1 /\ (m - 1) + 1 = m /\ m - 1 < m
    BY ONLY <2>2, <2>3
  <2>5. g[m - 1][s] = g[Len(s)][s]
    BY <2>1, <2>4
  <2>6. g[(m - 1) + 1][s] = g[m - 1][s]
    BY <1>6, <2>4
  <2> QED BY <2>2, <2>4, <2>5, <2>6
<1> DEFINE f == [s \in Seq(Node) |-> g[Len(s)][s]]
<1>8. ASSUME NEW s \in Seq(Node) PROVE f[s] = SortStep(w, f, s)
  <2>1. f[s] = g[Len(s)][s] /\ Len(s) \in Nat
    OBVIOUS
  <2>2. CASE Len(s) <= 1
    <3>1. g[Len(s) + 1][s] = s /\ g[Len(s) + 1][s] = g[Len(s)][s]
      <4>1. g[Len(s) + 1][s] = SortStep(w, g[Len(s)], s)
        BY <2>1, <1>4
      <4>2. Len(s) + 1 \in Nat /\ Len(s) <= Len(s) + 1
        BY <2>1
      <4> QED BY <4>1, <4>2, <2>2, <1>7 DEF SortStep
    <3> QED BY <3>1, <2>1, <2>2 DEF SortStep
  <2>3. CASE ~(Len(s) <= 1)
    <3> DEFINE a == LowPart(w, s)
    <3> DEFINE b == HighPart(w, s)
    <3> DEFINE n == Len(s) - 1
    <3>1. n \in Nat /\ n + 1 = Len(s)
      BY <2>1, <2>3
    <3>2. /\ a \in Seq(Node) /\ Len(a) \in Nat /\ Len(a) < Len(s)
          /\ b \in Seq(Node) /\ Len(b) \in Nat /\ Len(b) < Len(s)
      BY <2>3, PartsShorter
    <3>3. Len(a) <= n /\ Len(b) <= n
      BY <3>2, <2>1
    <3>4. f[a] = g[Len(a)][a] /\ f[b] = g[Len(b)][b]
      BY <3>2
    <3> HIDE DEF n, f
    <3>5. g[n][a] = f[a] /\ g[n][b] = f[b]
      BY <3>1, <3>2, <3>3, <3>4, <1>7
    <3>6. g[n + 1][s] = SortStep(w, g[n], s)
      BY <3>1, <1>4
    <3> QED BY <3>1, <3>5, <3>6, <2>1, <2>3 DEF SortStep
  <2> QED BY <2>2, <2>3
<1>9. f = [s \in Seq(Node) |-> f[s]]
  OBVIOUS
<1> HIDE DEF f
<1>10. f = [s \in Seq(Node) |-> SortStep(w, f, s)]
  BY ONLY <1>8, <1>9
<1> QED BY <1>10

\* t is s in the order of the values w.
SortOf(w, s, t) ==
  t \in Seq(Node) /\ Distinct(t) /\ InUse(t) = InUse(s) /\ InOrder(w, t)

\* Quicksort puts any sequence of distinct nodes in order.
LEMMA QuickSortedProperties ==
  ASSUME NEW l, NEW s \in Seq(Node), Distinct(s), \A n \in InUse(s) : l.value[n] \in Int
  PROVE  SortOf(l.value, s, QuickSorted(l, s))
<1> DEFINE w == l.value
<1> DEFINE Body(f) == [t \in Seq(Node) |-> SortStep(w, f, t)]
<1> DEFINE sorted == CHOOSE f : f = Body(f)
<1>1. QuickSorted(l, s) = sorted[s]
  BY DEF QuickSorted, SortStep, LowPart, HighPart, Below
<1>2. sorted = Body(sorted)
  BY SortDefined
<1> HIDE DEF sorted
<1>3. ASSUME NEW t \in Seq(Node) PROVE sorted[t] = SortStep(w, sorted, t)
  <2> DEFINE B == Body(sorted)
  <2>1. B[t] = SortStep(w, sorted, t)
    OBVIOUS
  <2>2. sorted = B
    BY ONLY <1>2
  <2> HIDE DEF B
  <2> QED BY ONLY <2>1, <2>2
<1> HIDE DEF w
<1> DEFINE Sortable(t) == Distinct(t) /\ \A n \in InUse(t) : w[n] \in Int
<1> DEFINE Wrong == {m \in Nat : \E t \in Seq(Node) :
                       Len(t) = m /\ Sortable(t) /\ ~SortOf(w, t, sorted[t])}
<1>4. Wrong = {}
  <2> SUFFICES ASSUME Wrong # {} PROVE FALSE
    OBVIOUS
  <2>1. PICK m \in Wrong : \A k \in Wrong : ~(k < m)
    <3>1. Wrong \in SUBSET Nat
      OBVIOUS
    <3> HIDE DEF Wrong
    <3> QED BY <3>1, LeastNatural
  <2>2. PICK t \in Seq(Node) : Len(t) = m /\ Sortable(t) /\ ~SortOf(w, t, sorted[t])
    OBVIOUS
  <2>3. CASE Len(t) <= 1
    <3>1. sorted[t] = t
      BY <1>3, <2>3 DEF SortStep
    <3>2. \A i, j \in 1..Len(t) : ~(i < j)
      BY <2>3
    <3>3. InOrder(w, t)
      BY <3>2 DEF InOrder
    <3> QED BY <3>1, <3>3, <2>2 DEF SortOf
  <2>4. CASE ~(Len(t) <= 1)
    <3> DEFINE a == LowPart(w, t)
    <3> DEFINE b == HighPart(w, t)
    <3> DEFINE h == Head(t)
    <3> DEFINE u == Tail(t)
    <3>1. /\ a \in Seq(Node) /\ Len(a) \in Nat /\ Len(a) < Len(t)
          /\ b \in Seq(Node) /\ Len(b) \in Nat /\ Len(b) < Len(t)
          /\ h \in Node /\ u \in Seq(Node) /\ Len(t) \in Nat
      BY <2>4, PartsShorter
    <3>2. t # <<>>
      BY <2>4
    <3>3. /\ h = t[1] /\ Len(u) = Len(t) - 1 /\ \A i \in 1..(Len(t) - 1) : u[i] = t[i + 1]
      BY <3>2, TailFunction
    <3>4. /\ Distinct(u) /\ h \notin InUse(u) /\ InUse(t) = InUse(u) \cup {h}
          /\ ToSet(u) = InUse(u)
      <4> HIDE DEF h, u
      <4>1. \A i \in 1..Len(u) : i + 1 \in 1..Len(t) /\ u[i] = t[i + 1] /\ i + 1 # 1
        BY <3>1, <3>3
      <4>2. 1 \in 1..Len(t)
        BY <3>1, <2>4
      <4>3. \A i, j \in 1..Len(t) : t[i] = t[j] => i = j
        BY <2>2 DEF Distinct
      <4>4. Distinct(u)
        <5> SUFFICES ASSUME NEW i \in 1..Len(u), NEW j \in 1..Len(u), u[i] = u[j] PROVE i = j
          BY DEF Distinct
        <5>1. i + 1 = j + 1
          BY <4>1, <4>3
        <5> QED BY <5>1
      <4>5. h \notin InUse(u)
        BY <4>1, <4>2, <4>3, <3>3 DEF InUse
      <4>6. InUse(t) = InUse(u) \cup {h}
        <5>1. ASSUME NEW i \in 1..Len(t) PROVE t[i] \in InUse(u) \cup {h}
          <6>1. CASE i = 1
            BY <6>1, <3>3
          <6>2. CASE i # 1
            <7>1. i - 1 \in 1..Len(u) /\ (i - 1) + 1 = i
              BY <6>2, <3>1, <3>3
            <7>2. u[i - 1] = t[i]
              BY <7>1, <4>1
            <7> QED BY <7>1, <7>2 DEF InUse
          <6> QED BY <6>1, <6>2
        <5>2. \A i \in 1..Len(u) : u[i] \in InUse(t)
          BY <4>1 DEF InUse
        <5>3. h \in InUse(t)
          BY <4>2, <3>3 DEF InUse
        <5> QED BY <5>1, <5>2, <5>3 DEF InUse
      <4>7. ToSet(u) = InUse(u)
        BY <3>1 DEF ToSet, InUse
      <4> QED BY <4>4, <4>5, <4>6, <4>7
    <3> DEFINE low == Below(w, t)
    <3>5. low = {n \in InUse(u) : w[n] < w[h]} /\ a = Pushed(u, low) /\ b = Pushed(u, InUse(u) \ low)
      BY <3>4 DEF Below, LowPart, HighPart
    <3>6. sorted[t] = sorted[a] \o <<h>> \o sorted[b]
      BY <1>3, <2>4 DEF SortStep
    <3>12. \A n \in InUse(u) : w[n] \in Int /\ w[h] \in Int
      BY <2>2, <3>4
    <3>15. w[h] \in Int
      BY <2>2, <3>4
    <3> HIDE DEF a, b, h, u, low
    <3>7. /\ InUse(a) = low /\ Distinct(a) /\ InUse(b) = InUse(u) \ low /\ Distinct(b)
          /\ low \subseteq InUse(u)
      <4>1. \A S : InUse(Pushed(u, S)) = InUse(u) \cap S /\ (Distinct(u) => Distinct(Pushed(u, S)))
        BY ONLY <3>1, PushedProperties
      <4>2. low \subseteq InUse(u)
        BY <3>5
      <4> QED BY <4>1, <4>2, <3>4, <3>5
    <3> DEFINE x == sorted[a]
    <3> DEFINE y == sorted[b]
    <3>8. SortOf(w, a, x) /\ SortOf(w, b, y)
      <4>1. Sortable(a) /\ Sortable(b)
        BY <3>7, <3>12
      <4>2. Len(a) \notin Wrong /\ Len(b) \notin Wrong
        <5> HIDE DEF Wrong
        <5> QED BY <2>1, <2>2, <3>1
      <4> QED BY <4>1, <4>2, <3>1
    <3> HIDE DEF x, y
    <3>9. /\ x \in Seq(Node) /\ Distinct(x) /\ InUse(x) = low /\ InOrder(w, x)
          /\ y \in Seq(Node) /\ Distinct(y) /\ InUse(y) = InUse(u) \ low /\ InOrder(w, y)
      BY <3>7, <3>8 DEF SortOf
    <3> DEFINE one == <<h>>
    <3>10. one \in Seq(Node) /\ InUse(one) = {h} /\ Distinct(one) /\ InOrder(w, one)
      BY <3>1, OneNode
    <3>16. sorted[t] = x \o one \o y
      BY <3>6 DEF x, y
    <3> HIDE DEF one
    <3>11. /\ x \o one \in Seq(Node) /\ InUse(x \o one) = low \cup {h}
           /\ Distinct(x \o one) /\ InOrder(w, x \o one)
      <4>1. InUse(x) \cap InUse(one) = {}
        BY <3>4, <3>7, <3>9, <3>10
      <4>2. \A m1 \in InUse(x), n1 \in InUse(one) : w[m1] <= w[n1]
        BY <3>5, <3>9, <3>10, <3>12, <3>15
      <4> QED BY ONLY <4>1, <4>2, <3>9, <3>10, ConcatParts
    <3> DEFINE z == x \o one
    <3>17. z \in Seq(Node) /\ InUse(z) = low \cup {h} /\ Distinct(z) /\ InOrder(w, z)
      BY <3>11
    <3>18. sorted[t] = z \o y
      BY <3>16
    <3> HIDE DEF z
    <3>13. /\ z \o y \in Seq(Node) /\ InUse(z \o y) = InUse(z) \cup InUse(y)
           /\ Distinct(z \o y) /\ InOrder(w, z \o y)
      <4>1. InUse(z) \cap InUse(y) = {}
        BY <3>4, <3>9, <3>17
      <4>2. \A m1 \in InUse(z), n1 \in InUse(y) : w[m1] <= w[n1]
        <5>1. \A n1 \in InUse(y) : w[h] <= w[n1] /\ w[n1] \in Int
          BY <3>5, <3>9, <3>12, <3>15
        <5>2. \A m1 \in InUse(z) : w[m1] <= w[h] /\ w[m1] \in Int
          BY <3>5, <3>17, <3>12, <3>15
        <5> QED BY <5>1, <5>2, <3>15
      <4> QED BY ONLY <4>1, <4>2, <3>9, <3>17, ConcatParts
    <3>14. InUse(z \o y) = InUse(t)
      BY <3>4, <3>7, <3>9, <3>13, <3>17
    <3> QED BY <3>13, <3>14, <3>18, <2>2 DEF SortOf
  <2> QED BY <2>3, <2>4
<1>5. SortOf(w, s, sorted[s])
  <2>1. Sortable(s) /\ Len(s) \in Nat
    BY DEF w
  <2> QED BY <2>1, <1>4
<1> QED BY <1>1, <1>5 DEF w

----------------------------------------------------------------------------
(***************************************************************************)
(* Sequences with the same elements                                        *)
(***************************************************************************)
Places(c, v) == {i \in 1..Len(c) : c[i] = v}
Rearranged(c, d) == Len(c) = Len(d) /\ \A v : Cardinality(Places(c, v)) = Cardinality(Places(d, v))
NotDecreasing(c) == \A i, j \in 1..Len(c) : i < j => c[i] <= c[j]

OneToOneOnto(A, B, f) ==
  /\ f \in [A -> B]
  /\ \A x, y \in A : f[x] = f[y] => x = y
  /\ \A z \in B : \E x \in A : f[x] = z

LEMMA OneToOne ==
  ASSUME NEW A, IsFiniteSet(A), NEW B, NEW f, OneToOneOnto(A, B, f)
  PROVE  IsFiniteSet(B) /\ Cardinality(A) = Cardinality(B)
<1>1. f \in Bijection(A, B)
  BY DEF OneToOneOnto, Bijection, Injection, Surjection, IsInjective
<1> QED BY <1>1, FS_Bijection DEF ExistsBijection

LEMMA PlacesFinite ==
  ASSUME NEW c, Len(c) \in Nat, NEW v
  PROVE  IsFiniteSet(Places(c, v)) /\ Cardinality(Places(c, v)) \in Nat
<1>1. IsFiniteSet(1..Len(c)) /\ Places(c, v) \in SUBSET (1..Len(c))
  BY FS_Interval DEF Places
<1> QED BY <1>1, FS_Subset, FS_CardinalityType

\* A rearrangement by a one-to-one map of the places.
LEMMA RearrangedBy ==
  ASSUME NEW c, NEW d, Len(c) \in Nat, Len(d) \in Nat, NEW f,
         OneToOneOnto(1..Len(d), 1..Len(c), f), \A i \in 1..Len(d) : d[i] = c[f[i]]
  PROVE  Rearranged(c, d)
<1>0. /\ f \in [1..Len(d) -> 1..Len(c)]
      /\ \A i, j \in 1..Len(d) : f[i] = f[j] => i = j
      /\ \A k \in 1..Len(c) : \E i \in 1..Len(d) : f[i] = k
  BY DEF OneToOneOnto
<1>1. Len(c) = Len(d)
  <2>1. IsFiniteSet(1..Len(d)) /\ Cardinality(1..Len(d)) = Len(d) /\ Cardinality(1..Len(c)) = Len(c)
    <3>1. \A n \in Nat : IsFiniteSet(1..n) /\ Cardinality(1..n) = n
      <4> TAKE n \in Nat
      <4>1. 1 \in Int /\ n \in Int /\ n = IF 1 > n THEN 0 ELSE n - 1 + 1
        OBVIOUS
      <4> QED BY <4>1, FS_Interval
    <3> QED BY <3>1
  <2>2. Cardinality(1..Len(d)) = Cardinality(1..Len(c))
    BY <2>1, OneToOne
  <2> QED BY <2>1, <2>2
<1>2. ASSUME NEW v PROVE Cardinality(Places(c, v)) = Cardinality(Places(d, v))
  <2> DEFINE g == [i \in Places(d, v) |-> f[i]]
  <2>1. IsFiniteSet(Places(d, v))
    BY PlacesFinite
  <2>2. g \in [Places(d, v) -> Places(c, v)]
    BY <1>0 DEF Places
  <2>3. \A x, y \in Places(d, v) : g[x] = g[y] => x = y
    BY <1>0 DEF Places
  <2>4. \A z \in Places(c, v) : \E x \in Places(d, v) : g[x] = z
    <3> TAKE z \in Places(c, v)
    <3>1. z \in 1..Len(c) /\ c[z] = v
      BY DEF Places
    <3>2. PICK i \in 1..Len(d) : f[i] = z
      BY <3>1, <1>0
    <3>3. i \in Places(d, v)
      BY <3>1, <3>2 DEF Places
    <3> QED BY <3>2, <3>3
  <2> HIDE DEF g
  <2>6. OneToOneOnto(Places(d, v), Places(c, v), g)
    BY <2>2, <2>3, <2>4 DEF OneToOneOnto
  <2>5. Cardinality(Places(d, v)) = Cardinality(Places(c, v))
    BY ONLY <2>1, <2>6, OneToOne
  <2> QED BY <2>5
<1> QED BY <1>1, <1>2 DEF Rearranged

LEMMA FewerPlaces ==
  ASSUME NEW c, NEW d, NEW i, Len(c) \in Nat, Len(d) = Len(c), i \in 1..Len(c),
         \A k \in 1..Len(c) : c[k] \in Int /\ d[k] \in Int,
         \A k \in 1..Len(c) : k < i => c[k] = d[k], c[i] < d[i], NotDecreasing(d)
  PROVE  ~Rearranged(c, d)
<1> SUFFICES ASSUME Rearranged(c, d) PROVE FALSE
  OBVIOUS
<1> DEFINE v == c[i]
<1> DEFINE C == Places(c, v)
<1>1. IsFiniteSet(C) /\ Cardinality(C) \in Nat /\ i \in C
  BY PlacesFinite DEF Places
<1>2. Cardinality(C \ {i}) = Cardinality(C) - 1 /\ IsFiniteSet(C \ {i})
  BY <1>1, FS_RemoveElement
<1>3. Places(d, v) \in SUBSET (C \ {i})
  <2> SUFFICES ASSUME NEW k \in 1..Len(c), d[k] = v PROVE k \in C \ {i}
    BY DEF Places
  <2>1. k < i
    <3> SUFFICES ASSUME ~(k < i) PROVE FALSE
      OBVIOUS
    <3>1. k = i \/ i < k
      OBVIOUS
    <3>2. d[i] <= d[k]
      BY <3>1 DEF NotDecreasing
    <3> QED BY <3>2
  <2>2. c[k] = v /\ k # i
    BY <2>1
  <2> QED BY <2>2 DEF Places
<1>4. Cardinality(Places(d, v)) <= Cardinality(C) - 1
  BY <1>2, <1>3, FS_Subset
<1>5. Cardinality(Places(d, v)) = Cardinality(C)
  BY DEF Rearranged
<1> QED BY <1>1, <1>4, <1>5

LEMMA SortedUnique ==
  ASSUME NEW c \in Seq(Int), NEW d \in Seq(Int), Rearranged(c, d),
         NotDecreasing(c), NotDecreasing(d)
  PROVE  c = d
<1> DEFINE Wrong == {k \in 1..Len(c) : c[k] # d[k]}
<1>1. /\ Len(c) \in Nat /\ Len(d) = Len(c)
      /\ \A k \in 1..Len(c) : c[k] \in Int /\ d[k] \in Int
  BY DEF Rearranged
<1>2. Rearranged(d, c)
  BY DEF Rearranged
<1>3. Wrong = {}
  <2> SUFFICES ASSUME Wrong # {} PROVE FALSE
    OBVIOUS
  <2>1. PICK i \in Wrong : \A m \in Wrong : ~(m < i)
    <3>1. Wrong \in SUBSET Nat
      OBVIOUS
    <3> HIDE DEF Wrong
    <3> QED BY <3>1, LeastNatural
  <2>2. i \in 1..Len(c) /\ c[i] # d[i] /\ \A k \in 1..Len(c) : k < i => c[k] = d[k]
    BY <2>1
  <2>3. CASE c[i] < d[i]
    BY ONLY <1>1, <2>2, <2>3, NotDecreasing(d), Rearranged(c, d), FewerPlaces
  <2>4. CASE d[i] < c[i]
    <3>1. /\ Len(d) \in Nat /\ i \in 1..Len(d) /\ \A k \in 1..Len(d) : d[k] \in Int /\ c[k] \in Int
          /\ \A k \in 1..Len(d) : k < i => d[k] = c[k]
      BY <1>1, <2>2
    <3> QED BY ONLY <1>1, <3>1, <2>4, NotDecreasing(c), <1>2, FewerPlaces
  <2>5. c[i] < d[i] \/ d[i] < c[i]
    BY <1>1, <2>2
  <2> QED BY <2>3, <2>4, <2>5
<1>4. \A k \in 1..Len(c) : c[k] = d[k]
  BY <1>3
<1> QED BY <1>1, <1>4

\* The values at the nodes are those of the list, in order.
LEMMA SortRearranges ==
  ASSUME NEW w, NEW s \in Seq(Node), NEW t, Distinct(s), SortOf(w, s, t),
         NEW c, c = [i \in 1..Len(s) |-> w[s[i]]], NEW d, d = [i \in 1..Len(t) |-> w[t[i]]]
  PROVE  /\ Len(t) = Len(s) /\ Len(c) = Len(s) /\ Len(d) = Len(s)
         /\ Rearranged(c, d) /\ NotDecreasing(d)
<1>1. /\ t \in Seq(Node) /\ Distinct(t) /\ InUse(t) = InUse(s) /\ InOrder(w, t)
      /\ Len(s) \in Nat /\ Len(t) \in Nat
  BY DEF SortOf
<1>2. /\ Len(c) = Len(s) /\ \A i \in 1..Len(s) : c[i] = w[s[i]]
      /\ Len(d) = Len(t) /\ \A i \in 1..Len(t) : d[i] = w[t[i]]
  BY <1>1
<1> DEFINE f == [i \in 1..Len(t) |-> CHOOSE k \in 1..Len(s) : s[k] = t[i]]
<1>3. ASSUME NEW i \in 1..Len(t) PROVE f[i] \in 1..Len(s) /\ s[f[i]] = t[i]
  <2>1. t[i] \in InUse(s)
    BY <1>1 DEF InUse
  <2>2. \E k \in 1..Len(s) : s[k] = t[i]
    BY <2>1 DEF InUse
  <2> QED BY <2>2
<1>4. f = [i \in 1..Len(t) |-> f[i]]
  OBVIOUS
<1> HIDE DEF f
<1>5. f \in [1..Len(d) -> 1..Len(c)]
  BY <1>2, <1>3, <1>4
<1>6. \A i, j \in 1..Len(d) : f[i] = f[j] => i = j
  BY <1>1, <1>2, <1>3 DEF Distinct
<1>7. \A k \in 1..Len(c) : \E i \in 1..Len(d) : f[i] = k
  <2> TAKE k \in 1..Len(c)
  <2>1. s[k] \in InUse(t) /\ k \in 1..Len(s)
    BY <1>1, <1>2 DEF InUse
  <2>2. PICK i \in 1..Len(t) : t[i] = s[k]
    BY <2>1 DEF InUse
  <2>3. f[i] = k
    BY <1>3, <2>1, <2>2 DEF Distinct
  <2> QED BY <1>2, <2>3
<1>8. \A i \in 1..Len(d) : d[i] = c[f[i]]
  BY <1>2, <1>3
<1>12. OneToOneOnto(1..Len(d), 1..Len(c), f)
  BY <1>5, <1>6, <1>7 DEF OneToOneOnto
<1>9. Rearranged(c, d)
  BY ONLY <1>1, <1>2, <1>12, <1>8, RearrangedBy
<1>10. Len(t) = Len(s)
  BY <1>2, <1>9 DEF Rearranged
<1>11. NotDecreasing(d)
  BY <1>1, <1>2 DEF InOrder, NotDecreasing
<1> QED BY <1>2, <1>9, <1>10, <1>11

----------------------------------------------------------------------------
(***************************************************************************)
(* Sort and the array list                                                 *)
(***************************************************************************)
LEMMA SortLinked ==
  ASSUME NEW l, NEW s, Linked(l, s)
  PROVE  \E t : SortOf(l.value, s, t) /\ Linked(LLSort(l), t) /\ LLSort(l).value = l.value
<1>1. /\ l.head \in Node \cup {Nil} /\ l.tail \in Node \cup {Nil}
      /\ l.value \in [Node -> Value \cup {Unset}] /\ l.next \in [Node -> Node \cup {Nil}]
      /\ l.pool \in PoolType
      /\ l = [head |-> l.head, tail |-> l.tail, value |-> l.value, next |-> l.next,
              pool |-> l.pool]
      /\ s \in Seq(Node) /\ Len(s) \in Nat /\ \A i \in 1..Len(s) : s[i] \in Node
      /\ \A i, j \in 1..Len(s) : s[i] = s[j] => i = j
      /\ l.head = IF Len(s) = 0 THEN Nil ELSE s[1]
      /\ Nodes(l) = s /\ Nil \notin Node
  BY LinkedParts
<1>2. /\ Owns(l.pool, InUse(s)) /\ \A i \in 1..Len(s) : l.value[s[i]] \in Value
  BY DEF Linked
<1>3. Distinct(s) /\ \A n \in InUse(s) : l.value[n] \in Value
  BY <1>1, <1>2 DEF Distinct, InUse
<1> DEFINE t == QuickSorted(l, s)
<1>4. SortOf(l.value, s, t)
  <2>1. \A n \in InUse(s) : l.value[n] \in Int
    BY <1>3, ValueAssumption
  <2> QED BY <1>1, <1>3, <2>1, QuickSortedProperties
<1> HIDE DEF t
<1>5. /\ t \in Seq(Node) /\ Distinct(t) /\ InUse(t) = InUse(s) /\ Len(t) \in Nat
      /\ \A i \in 1..Len(t) : t[i] \in Node
      /\ \A i, j \in 1..Len(t) : t[i] = t[j] => i = j
  BY <1>4 DEF SortOf, Distinct
<1>6. CASE Len(s) = 0
  <2>1. InUse(s) = {} /\ l.head = Nil
    BY <1>1, <1>6 DEF InUse
  <2>2. Len(t) = 0
    <3> SUFFICES ASSUME Len(t) # 0 PROVE FALSE
      OBVIOUS
    <3>1. 1 \in 1..Len(t)
      BY <1>5
    <3>2. t[1] \in InUse(t)
      BY <3>1 DEF InUse
    <3> QED BY <3>2, <2>1, <1>5
  <2>3. t = s
    BY <1>1, <1>5, <1>6, <2>2
  <2>4. LLSort(l) = l
    BY <2>1 DEF LLSort
  <2> QED BY <1>4, <2>3, <2>4
<1>7. CASE Len(s) # 0
  <2>1. l.head # Nil /\ 1 \in 1..Len(s)
    BY <1>1, <1>7
  <2>2. Len(t) # 0 /\ 1 \in 1..Len(t)
    <3>1. s[1] \in InUse(t)
      BY <2>1, <1>5 DEF InUse
    <3>2. PICK i \in 1..Len(t) : t[i] = s[1]
      BY <3>1 DEF InUse
    <3> QED BY <3>2, <1>5
  <2> DEFINE place(n) == CHOOSE j \in DOMAIN t : t[j] = n
  <2> DEFINE after(n) == IF place(n) = Len(t) THEN Nil ELSE t[place(n) + 1]
  <2> DEFINE next == [n \in Node |-> IF n \in ToSet(t) THEN after(n) ELSE l.next[n]]
  <2> DEFINE r == [l EXCEPT !.head = t[1], !.tail = t[1], !.next = next]
  <2>3. LLSort(l) = r
    BY <1>1, <2>1 DEF LLSort, t
  <2>4. \A i \in 1..Len(t) : after(t[i]) = IF i = Len(t) THEN Nil ELSE t[i + 1]
    <3> TAKE i \in 1..Len(t)
    <3>1. DOMAIN t = 1..Len(t)
      BY <1>5
    <3>2. place(t[i]) = i
      BY <3>1, <1>5
    <3> HIDE DEF place
    <3> QED BY <3>2
  <2> HIDE DEF place
  <2>5. \A n : n \in ToSet(t) <=> \E i \in 1..Len(t) : n = t[i]
    BY <1>5 DEF ToSet
  <2> HIDE DEF after
  <2>6. \A i \in 1..Len(t) : after(t[i]) \in Node \cup {Nil}
    <3> TAKE i \in 1..Len(t)
    <3>1. i # Len(t) => i + 1 \in 1..Len(t)
      BY <1>5
    <3> QED BY <3>1, <2>4, <1>5
  <2>7. next \in [Node -> Node \cup {Nil}]
    BY <2>5, <2>6, <1>1
  <2>8. \A i \in 1..Len(t) : next[t[i]] = IF i = Len(t) THEN Nil ELSE t[i + 1]
    <3> TAKE i \in 1..Len(t)
    <3>1. t[i] \in Node /\ t[i] \in ToSet(t)
      BY <2>5, <1>5
    <3>2. next[t[i]] = after(t[i])
      BY <3>1
    <3> QED BY <3>2, <2>4
  <2> HIDE DEF next
  <2>9. l \in LinkedListType
    BY DEF Linked
  <2>10. t[1] \in Node
    BY <1>5, <2>2
  <2>11. /\ r.head = t[1] /\ r.value = l.value /\ r.next = next /\ r.pool = l.pool
         /\ r \in LinkedListType
    BY ONLY <2>7, <2>9, <2>10 DEF LinkedListType
  <2> HIDE DEF r
  <2>12. Chained(r, t)
    BY <2>2, <2>8, <2>11, <1>5 DEF Chained
  <2>13. \A i \in 1..Len(t) : r.value[t[i]] \in Value
    <3> TAKE i \in 1..Len(t)
    <3>1. t[i] \in InUse(s)
      BY <1>5 DEF InUse
    <3> QED BY <3>1, <2>11, <1>3
  <2>14. Linked(r, t)
    BY <2>11, <2>12, <2>13, <1>2, <1>5 DEF Linked
  <2> QED BY <1>4, <2>3, <2>11, <2>14
<1> QED BY <1>6, <1>7

\* What becomes of the record of an array list.
IsArray(a) == a = [size |-> a.size, capacity |-> a.capacity, elems |-> a.elems]

Sized(a, n, e) == [a EXCEPT !.size = n, !.elems = e]

LEMMA ArraySized ==
  ASSUME NEW a, IsArray(a), NEW n, NEW e, NEW r, r = Sized(a, n, e)
  PROVE  IsArray(r) /\ r.size = n /\ r.capacity = a.capacity /\ r.elems = e
<1>1. r.size = n /\ r.capacity = a.capacity /\ r.elems = e
  BY DEF IsArray, Sized
<1>2. r = [size |-> n, capacity |-> a.capacity, elems |-> e]
  BY DEF IsArray, Sized
<1> QED BY ONLY <1>1, <1>2 DEF IsArray

Grown(a, n, e) == [a EXCEPT !.capacity = n, !.elems = e]

LEMMA ArrayGrown ==
  ASSUME NEW a, IsArray(a), NEW n, NEW e, NEW r, r = Grown(a, n, e)
  PROVE  IsArray(r) /\ r.size = a.size /\ r.capacity = n /\ r.elems = e
<1>1. r.size = a.size /\ r.capacity = n /\ r.elems = e
  BY DEF IsArray, Grown
<1>2. r = [size |-> a.size, capacity |-> n, elems |-> e]
  BY DEF IsArray, Grown
<1> QED BY ONLY <1>1, <1>2 DEF IsArray

Refilled(a, e) == [a EXCEPT !.elems = e]

LEMMA ArrayRefilled ==
  ASSUME NEW a, IsArray(a), NEW e, NEW r, r = Refilled(a, e)
  PROVE  IsArray(r) /\ r.size = a.size /\ r.capacity = a.capacity /\ r.elems = e
<1>1. r.size = a.size /\ r.capacity = a.capacity /\ r.elems = e
  BY DEF IsArray, Refilled
<1>2. r = [size |-> a.size, capacity |-> a.capacity, elems |-> e]
  BY DEF IsArray, Refilled
<1> QED BY ONLY <1>1, <1>2 DEF IsArray

\* The array is large enough and not too large, and holds values.
ArrayOK(a) ==
  /\ a.size \in Nat /\ a.capacity \in Nat
  /\ a.elems \in [0..(a.capacity - 1) -> Value \cup {Nil}]
  /\ IsArray(a)
  /\ a.capacity = 0 <=> a.size = 0
  /\ a.size <= a.capacity
  /\ a.capacity > FirstCapacity => a.capacity < 2 * a.size
  /\ \A i \in 0..(a.size - 1) : a.elems[i] \in Value

LEMMA StartArray == ArrayOK(EmptyArrayList) /\ ALContents(EmptyArrayList) = <<>>
<1>1. <<>> \in [0..(0 - 1) -> Value \cup {Nil}]
  <2>1. 0..(0 - 1) = {} /\ DOMAIN <<>> = {} /\ <<>> = [i \in {} |-> 0]
    OBVIOUS
  <2> QED BY <2>1
<1>2. /\ EmptyArrayList.size = 0 /\ EmptyArrayList.capacity = 0 /\ EmptyArrayList.elems = <<>>
      /\ FirstCapacity \in Nat
  BY FirstCapacityAssumption DEF EmptyArrayList
<1>3. IsArray(EmptyArrayList)
  BY DEF EmptyArrayList, IsArray
<1>4. ArrayOK(EmptyArrayList)
  BY <1>1, <1>2, <1>3 DEF ArrayOK
<1>5. ALContents(EmptyArrayList) = <<>>
  <2>1. 1..0 = {} /\ <<>> = [i \in {} |-> EmptyArrayList.elems[i - 1]]
    OBVIOUS
  <2> QED BY <2>1, <1>2 DEF ALContents
<1> QED BY <1>4, <1>5

LEMMA ArrayContents ==
  ASSUME NEW a, ArrayOK(a)
  PROVE  /\ ALContents(a) \in Seq(Value) /\ Len(ALContents(a)) = a.size
         /\ \A i \in 1..a.size : ALContents(a)[i] = a.elems[i - 1]
<1>1. a.size \in Nat /\ \A i \in 0..(a.size - 1) : a.elems[i] \in Value
  BY DEF ArrayOK
<1>2. \A i \in 1..a.size : a.elems[i - 1] \in Value
  <2> TAKE i \in 1..a.size
  <2>1. i - 1 \in 0..(a.size - 1)
    BY <1>1
  <2> QED BY <2>1, <1>1
<1> QED BY <1>1, <1>2 DEF ALContents

\* There is room for one more.
LEMMA SpaceEnsured ==
  ASSUME NEW a, ArrayOK(a), NEW b, b = EnsureSpace(a)
  PROVE  /\ b.size = a.size /\ b.capacity \in Nat /\ b.capacity > a.size
         /\ IsArray(b)
         /\ b.elems \in [0..(b.capacity - 1) -> Value \cup {Nil}]
         /\ \A i \in 0..(a.size - 1) : b.elems[i] = a.elems[i]
         /\ b.capacity > FirstCapacity => b.capacity < 2 * (a.size + 1)
<1>1. /\ a.size \in Nat /\ a.capacity \in Nat
      /\ a.elems \in [0..(a.capacity - 1) -> Value \cup {Nil}]
      /\ IsArray(a)
      /\ (a.capacity = 0) = (a.size = 0)
      /\ a.size <= a.capacity
      /\ a.capacity > FirstCapacity => a.capacity < 2 * a.size
  BY DEF ArrayOK
<1>2. FirstCapacity \in Nat /\ FirstCapacity > 0
  BY FirstCapacityAssumption
<1> DEFINE grown == IF a.capacity = 0 THEN FirstCapacity ELSE 2 * a.capacity
<1>3. CASE a.size < a.capacity
  <2>1. b = a
    BY <1>3 DEF EnsureSpace
  <2> QED BY <2>1, <1>1, <1>2, <1>3
<1>4. CASE ~(a.size < a.capacity)
  <2> DEFINE elems == [i \in 0..(grown - 1) |-> IF i < a.capacity THEN a.elems[i] ELSE Nil]
  <2>1. b = [a EXCEPT !.capacity = grown, !.elems = elems]
    BY <1>4 DEF EnsureSpace
  <2>2. a.size = a.capacity
    BY ONLY <1>1, <1>4
  <2>3. grown \in Nat /\ grown > a.size /\ (grown > FirstCapacity => grown < 2 * (a.size + 1))
    BY ONLY <1>1, <1>2, <2>2
  <2> HIDE DEF grown
  <2>4. elems \in [0..(grown - 1) -> Value \cup {Nil}]
    <3> SUFFICES ASSUME NEW i \in 0..(grown - 1), i < a.capacity
                 PROVE  a.elems[i] \in Value \cup {Nil}
      OBVIOUS
    <3>1. i \in 0..(a.capacity - 1)
      BY <2>3, <1>1
    <3> QED BY <3>1, <1>1
  <2>5. \A i \in 0..(a.size - 1) : elems[i] = a.elems[i]
    <3> TAKE i \in 0..(a.size - 1)
    <3>1. i \in 0..(grown - 1) /\ i < a.capacity
      BY <1>1, <2>2, <2>3
    <3> QED BY <3>1
  <2> HIDE DEF elems
  <2>6. IsArray(b) /\ b.size = a.size /\ b.capacity = grown /\ b.elems = elems
    <3>1. b = Grown(a, grown, elems)
      BY <2>1 DEF Grown
    <3>2. IsArray(a)
      BY <1>1
    <3> QED BY ONLY <3>1, <3>2, ArrayGrown
  <2> QED BY <2>3, <2>4, <2>5, <2>6
<1> QED BY <1>3, <1>4

\* v is stored at index, and what follows moves up.
Stored(a, index, v, r) ==
  /\ index \in 0..a.size /\ v \in Value
  /\ r.size = a.size + 1
  /\ r.capacity \in Nat /\ r.capacity > a.size
  /\ IsArray(r)
  /\ r.capacity > FirstCapacity => r.capacity < 2 * (a.size + 1)
  /\ r.elems \in [0..(r.capacity - 1) -> Value \cup {Nil}]
  /\ r.elems[index] = v
  /\ \A i \in 0..a.size : i < index => r.elems[i] = a.elems[i]
  /\ \A i \in 0..a.size : index < i => r.elems[i] = a.elems[i - 1]

LEMMA StoredArray ==
  ASSUME NEW a, ArrayOK(a), NEW index, NEW v, NEW r, Stored(a, index, v, r)
  PROVE  ArrayOK(r) /\ ALContents(r) = InsertAt(ALContents(a), index + 1, v)
<1>1. /\ a.size \in Nat /\ \A i \in 0..(a.size - 1) : a.elems[i] \in Value
  BY DEF ArrayOK
<1>2. /\ index \in 0..a.size /\ v \in Value /\ r.size = a.size + 1
      /\ r.capacity \in Nat /\ r.capacity > a.size
      /\ IsArray(r)
      /\ r.capacity > FirstCapacity => r.capacity < 2 * (a.size + 1)
      /\ r.elems \in [0..(r.capacity - 1) -> Value \cup {Nil}]
      /\ r.elems[index] = v
      /\ \A i \in 0..a.size : i < index => r.elems[i] = a.elems[i]
      /\ \A i \in 0..a.size : index < i => r.elems[i] = a.elems[i - 1]
  BY DEF Stored
<1>3. \A i \in 0..(r.size - 1) : r.elems[i] \in Value
  <2> TAKE i \in 0..(r.size - 1)
  <2>1. i \in 0..a.size /\ index \in Nat
    BY <1>1, <1>2
  <2>2. CASE i < index
    <3>1. i \in 0..(a.size - 1)
      BY <2>1, <2>2, <1>1, <1>2
    <3> QED BY <3>1, <2>1, <2>2, <1>1, <1>2
  <2>3. CASE index < i
    <3>1. i - 1 \in 0..(a.size - 1)
      BY <2>1, <2>3, <1>1, <1>2
    <3> QED BY <3>1, <2>1, <2>3, <1>1, <1>2
  <2>4. CASE i = index
    BY <2>4, <1>2
  <2> QED BY <2>1, <2>2, <2>3, <2>4
<1>4. ArrayOK(r)
  <2>1. (r.capacity = 0) = (r.size = 0) /\ r.size <= r.capacity /\ r.size \in Nat
    BY <1>1, <1>2
  <2> QED BY <2>1, <1>2, <1>3 DEF ArrayOK
<1> DEFINE c == ALContents(a)
<1> DEFINE d == ALContents(r)
<1>5. c \in Seq(Value) /\ Len(c) = a.size /\ \A i \in 1..a.size : c[i] = a.elems[i - 1]
  BY ArrayContents
<1>6. /\ d \in Seq(Value) /\ Len(d) = a.size + 1
      /\ \A i \in 1..(a.size + 1) : d[i] = r.elems[i - 1]
  <2>1. d \in Seq(Value) /\ Len(d) = r.size /\ \A i \in 1..r.size : d[i] = r.elems[i - 1]
    BY <1>4, ArrayContents
  <2> QED BY <2>1, <1>2
<1> HIDE DEF c, d
<1> DEFINE k == index + 1
<1>7. k \in 1..(Len(c) + 1) /\ k \in Nat
  BY <1>1, <1>2, <1>5
<1> DEFINE x == InsertAt(c, k, v)
<1>8. /\ x \in Seq(Value) /\ Len(x) = a.size + 1
      /\ \A i \in 1..(a.size + 1) : x[i] = IF i < k THEN c[i] ELSE IF i = k THEN v ELSE c[i - 1]
  <2>1. \A y \in Seq(Value) : \A j \in 1..(Len(y) + 1), e \in Value :
          /\ InsertAt(y, j, e) \in Seq(Value) /\ Len(InsertAt(y, j, e)) = Len(y) + 1
          /\ \A i \in 1..(Len(y) + 1) :
               InsertAt(y, j, e)[i] = IF i < j THEN y[i] ELSE IF i = j THEN e ELSE y[i - 1]
    BY ONLY InsertProperties
  <2> HIDE DEF k
  <2>2. /\ x \in Seq(Value) /\ Len(x) = Len(c) + 1
        /\ \A i \in 1..(Len(c) + 1) : x[i] = IF i < k THEN c[i] ELSE IF i = k THEN v ELSE c[i - 1]
    <3>1. c \in Seq(Value) /\ v \in Value
      BY <1>2, <1>5
    <3> HIDE DEF x
    <3> QED BY ONLY <2>1, <3>1, <1>7 DEF x
  <2> QED BY <2>2, <1>5
<1> HIDE DEF x
<1>9. ASSUME NEW i \in 1..(a.size + 1) PROVE d[i] = x[i]
  <2>1. d[i] = r.elems[i - 1] /\ i - 1 \in 0..a.size
    BY <1>1, <1>6
  <2>2. x[i] = IF i < k THEN c[i] ELSE IF i = k THEN v ELSE c[i - 1]
    BY <1>8
  <2>3. CASE i < k
    <3>1. i \in 1..a.size /\ i - 1 < index
      BY <2>3, <1>1, <1>2
    <3>2. c[i] = a.elems[i - 1]
      BY <3>1, <1>5
    <3>3. r.elems[i - 1] = a.elems[i - 1]
      BY <3>1, <2>1, <1>2
    <3> QED BY <3>2, <3>3, <2>1, <2>2, <2>3
  <2>4. CASE i = k
    <3>1. i - 1 = index /\ ~(i < k)
      BY <2>4, <1>7, <1>1, <1>2
    <3> QED BY <3>1, <2>1, <2>2, <2>4, <1>2
  <2>5. CASE i > k
    <3>1. i - 1 \in 1..a.size /\ index < i - 1 /\ ~(i < k) /\ i # k
      BY <2>5, <1>1, <1>2
    <3>2. c[i - 1] = a.elems[(i - 1) - 1]
      BY <3>1, <1>5
    <3>3. r.elems[i - 1] = a.elems[(i - 1) - 1]
      BY <3>1, <2>1, <1>2
    <3> QED BY <3>1, <3>2, <3>3, <2>1, <2>2
  <2>6. i < k \/ i = k \/ i > k
    BY <1>7
  <2> QED BY ONLY <2>3, <2>4, <2>5, <2>6
<1>10. d = x
  BY <1>6, <1>8, <1>9
<1> QED BY <1>4, <1>10 DEF c, d, x, k

LEMMA InsertStores ==
  ASSUME NEW a, ArrayOK(a), NEW index \in 0..a.size, NEW v \in Value
  PROVE  Stored(a, index, v, ALInsert(a, index, v))
<1> DEFINE b == EnsureSpace(a)
<1>1. /\ b.size = a.size /\ b.capacity \in Nat /\ b.capacity > a.size
      /\ IsArray(b)
      /\ b.elems \in [0..(b.capacity - 1) -> Value \cup {Nil}]
      /\ \A i \in 0..(a.size - 1) : b.elems[i] = a.elems[i]
      /\ b.capacity > FirstCapacity => b.capacity < 2 * (a.size + 1)
  BY SpaceEnsured
<1>2. a.size \in Nat
  BY DEF ArrayOK
<1> DEFINE elems == [i \in DOMAIN b.elems |->
                       CASE i = index -> v
                         [] i > index /\ i <= a.size -> b.elems[i - 1]
                         [] OTHER -> b.elems[i]]
<1> DEFINE r == [b EXCEPT !.size = b.size + 1, !.elems = elems]
<1>3. ALInsert(a, index, v) = r
  BY DEF ALInsert
<1> HIDE DEF b
<1>4. DOMAIN b.elems = 0..(b.capacity - 1)
  BY <1>1
<1>5. elems \in [0..(b.capacity - 1) -> Value \cup {Nil}]
  <2>1. ASSUME NEW i \in 0..(b.capacity - 1) PROVE elems[i] \in Value \cup {Nil}
    <3>1. CASE i = index
      BY <3>1, <1>4
    <3>2. CASE i # index /\ i > index /\ i <= a.size
      <4>1. i - 1 \in 0..(b.capacity - 1)
        BY <3>2, <1>1, <1>2
      <4>2. elems[i] = b.elems[i - 1]
        BY <3>2, <1>4
      <4> QED BY <4>1, <4>2, <1>1
    <3>3. CASE i # index /\ ~(i > index /\ i <= a.size)
      <4>1. elems[i] = b.elems[i]
        BY <3>3, <1>4
      <4> QED BY <4>1, <1>1
    <3> QED BY <3>1, <3>2, <3>3
  <2>2. elems = [i \in 0..(b.capacity - 1) |-> elems[i]]
    BY <1>4
  <2> HIDE DEF elems
  <2> QED BY <2>1, <2>2
<1>6. elems[index] = v
  BY <1>1, <1>2, <1>4
<1>7. \A i \in 0..a.size : i < index => elems[i] = a.elems[i]
  <2> SUFFICES ASSUME NEW i \in 0..a.size, i < index PROVE elems[i] = a.elems[i]
    OBVIOUS
  <2>1. i \in DOMAIN b.elems /\ i # index /\ ~(i > index) /\ i \in 0..(a.size - 1)
    BY <1>1, <1>2, <1>4
  <2>2. elems[i] = b.elems[i]
    BY <2>1
  <2> QED BY <2>1, <2>2, <1>1
<1>8. \A i \in 0..a.size : index < i => elems[i] = a.elems[i - 1]
  <2> SUFFICES ASSUME NEW i \in 0..a.size, index < i PROVE elems[i] = a.elems[i - 1]
    OBVIOUS
  <2>1. /\ i \in DOMAIN b.elems /\ i # index /\ i > index /\ i <= a.size
        /\ i - 1 \in 0..(a.size - 1)
    BY <1>1, <1>2, <1>4
  <2>2. elems[i] = b.elems[i - 1]
    BY <2>1
  <2> QED BY <2>1, <2>2, <1>1
<1> HIDE DEF elems
<1>9. /\ r.size = a.size + 1 /\ r.capacity = b.capacity /\ r.elems = elems
      /\ IsArray(r)
  <2> DEFINE n == b.size + 1
  <2>1. r = Sized(b, n, elems) /\ n = a.size + 1
    BY <1>1 DEF Sized
  <2>2. IsArray(b)
    BY <1>1
  <2> HIDE DEF r, n
  <2>3. IsArray(r) /\ r.size = n /\ r.capacity = b.capacity /\ r.elems = elems
    BY ONLY <2>1, <2>2, ArraySized
  <2> QED BY <2>1, <2>3
<1> HIDE DEF r
<1>10. Stored(a, index, v, r)
  BY <1>1, <1>5, <1>6, <1>7, <1>8, <1>9 DEF Stored
<1> QED BY <1>3, <1>10

LEMMA AppendStores ==
  ASSUME NEW a, ArrayOK(a), NEW v \in Value
  PROVE  Stored(a, a.size, v, ALAppend(a, v))
<1> DEFINE b == EnsureSpace(a)
<1>1. /\ b.size = a.size /\ b.capacity \in Nat /\ b.capacity > a.size
      /\ IsArray(b)
      /\ b.elems \in [0..(b.capacity - 1) -> Value \cup {Nil}]
      /\ \A i \in 0..(a.size - 1) : b.elems[i] = a.elems[i]
      /\ b.capacity > FirstCapacity => b.capacity < 2 * (a.size + 1)
  BY SpaceEnsured
<1>2. a.size \in Nat
  BY DEF ArrayOK
<1> DEFINE elems == [b.elems EXCEPT ![a.size] = v]
<1> DEFINE r == [b EXCEPT !.size = b.size + 1, !.elems = elems]
<1>3. ALAppend(a, v) = r
  BY DEF ALAppend
<1> HIDE DEF b
<1>4. a.size \in 0..(b.capacity - 1) /\ a.size \in 0..a.size
  BY <1>1, <1>2
<1>5. elems \in [0..(b.capacity - 1) -> Value \cup {Nil}] /\ elems[a.size] = v
  BY <1>1, <1>4
<1>7. \A i \in 0..a.size : i < a.size => elems[i] = a.elems[i]
  <2> SUFFICES ASSUME NEW i \in 0..a.size, i < a.size PROVE elems[i] = a.elems[i]
    OBVIOUS
  <2>1. i \in 0..(b.capacity - 1) /\ i # a.size /\ i \in 0..(a.size - 1)
    BY <1>1, <1>2
  <2>2. elems[i] = b.elems[i]
    BY <2>1, <1>1
  <2> QED BY <2>1, <2>2, <1>1
<1>8. \A i \in 0..a.size : a.size < i => elems[i] = a.elems[i - 1]
  BY <1>2
<1> HIDE DEF elems
<1>9. /\ r.size = a.size + 1 /\ r.capacity = b.capacity /\ r.elems = elems
      /\ IsArray(r)
  <2> DEFINE n == b.size + 1
  <2>1. r = Sized(b, n, elems) /\ n = a.size + 1
    BY <1>1 DEF Sized
  <2>2. IsArray(b)
    BY <1>1
  <2> HIDE DEF r, n
  <2>3. IsArray(r) /\ r.size = n /\ r.capacity = b.capacity /\ r.elems = elems
    BY ONLY <2>1, <2>2, ArraySized
  <2> QED BY <2>1, <2>3
<1> HIDE DEF r
<1>10. Stored(a, a.size, v, r)
  BY <1>1, <1>4, <1>5, <1>7, <1>8, <1>9 DEF Stored
<1> QED BY <1>3, <1>10

\* The cells that qsort puts before cell i of n, e giving the values.
Before(e, j, i) == e[j] - e[i] < 0 \/ (e[j] = e[i] /\ j < i)
Less(e, n, i) == {j \in 0..(n - 1) : e[j] - e[i] < 0 \/ (e[j] = e[i] /\ j < i)}
Rank(e, n, k) == CHOOSE i \in 0..(n - 1) : Cardinality(Less(e, n, i)) = k

\* Every cell has its own place in the order.
LEMMA RankProperties ==
  ASSUME NEW n \in Nat, NEW e, \A i \in 0..(n - 1) : e[i] \in Int
  PROVE  /\ \A k \in 0..(n - 1) : Rank(e, n, k) \in 0..(n - 1)
         /\ \A k, m \in 0..(n - 1) : Rank(e, n, k) = Rank(e, n, m) => k = m
         /\ \A i \in 0..(n - 1) : \E k \in 0..(n - 1) : Rank(e, n, k) = i
         /\ \A k, m \in 0..(n - 1) : k < m => e[Rank(e, n, k)] <= e[Rank(e, n, m)]
<1> DEFINE I == 0..(n - 1)
<1> DEFINE pos(i) == Cardinality(Less(e, n, i))
<1>1. IsFiniteSet(I) /\ Cardinality(I) = n
  <2>1. 0 \in Int /\ n - 1 \in Int /\ (IF 0 > n - 1 THEN 0 ELSE (n - 1) - 0 + 1) = n
    OBVIOUS
  <2> QED BY <2>1, FS_Interval
<1>2. \A i : IsFiniteSet(Less(e, n, i)) /\ pos(i) \in Nat /\ Less(e, n, i) \in SUBSET I
  <2> TAKE i
  <2>1. Less(e, n, i) \in SUBSET I
    BY DEF Less
  <2> QED BY <1>1, <2>1, FS_Subset, FS_CardinalityType
<1>3. ASSUME NEW i \in I PROVE pos(i) \in I
  <2>1. IsFiniteSet(I \ {i}) /\ Cardinality(I \ {i}) = n - 1
    BY <1>1, FS_RemoveElement
  <2>2. Less(e, n, i) \in SUBSET (I \ {i})
    BY DEF Less
  <2>3. pos(i) <= n - 1
    BY <2>1, <2>2, FS_Subset
  <2>4. pos(i) \in Nat
    BY <1>2
  <2> HIDE DEF pos
  <2> QED BY ONLY <2>3, <2>4, n \in Nat DEF I
<1>4. ASSUME NEW i \in I, NEW j \in I, Before(e, j, i) PROVE pos(j) < pos(i)
  <2>0. i \in Int /\ j \in Int /\ e[i] \in Int /\ e[j] \in Int
    OBVIOUS
  <2>1. j \in Less(e, n, i) /\ j \notin Less(e, n, j)
    BY <1>4, <2>0 DEF Less, Before
  <2>2. ASSUME NEW m \in Less(e, n, j) PROVE m \in Less(e, n, i)
    <3>1. m \in I /\ m \in Int /\ e[m] \in Int /\ (e[m] - e[j] < 0 \/ (e[m] = e[j] /\ m < j))
      BY DEF Less
    <3>2. e[j] - e[i] < 0 \/ (e[j] = e[i] /\ j < i)
      BY <1>4 DEF Before
    <3>3. e[m] - e[i] < 0 \/ (e[m] = e[i] /\ m < i)
      BY ONLY <2>0, <3>1, <3>2
    <3> QED BY <3>1, <3>3 DEF Less
  <2>3. Less(e, n, j) \in SUBSET (Less(e, n, i) \ {j})
    BY <2>1, <2>2
  <2>4. /\ IsFiniteSet(Less(e, n, i) \ {j})
        /\ Cardinality(Less(e, n, i) \ {j}) = pos(i) - 1
    BY <1>2, <2>1, FS_RemoveElement
  <2>5. pos(j) <= pos(i) - 1
    BY <2>3, <2>4, FS_Subset
  <2>6. pos(i) \in Nat /\ pos(j) \in Nat
    BY <1>2
  <2> HIDE DEF pos
  <2> QED BY ONLY <2>5, <2>6
<1>5. ASSUME NEW i \in I, NEW j \in I, i # j PROVE pos(i) # pos(j)
  <2>1. Before(e, j, i) \/ Before(e, i, j)
    BY <1>5 DEF Before
  <2>2. pos(i) \in Nat /\ pos(j) \in Nat
    BY <1>2
  <2>3. pos(j) < pos(i) \/ pos(i) < pos(j)
    BY <1>4, <2>1
  <2> HIDE DEF pos
  <2> QED BY ONLY <2>2, <2>3
<1> DEFINE f == [i \in I |-> pos(i)]
<1> HIDE DEF pos, I
<1>6. f \in [I -> I] /\ \A i, j \in I : f[i] = f[j] => i = j
  BY <1>3, <1>5
<1>7. \A k \in I : \E i \in I : f[i] = k
  <2>1. f \in Injection(I, I)
    BY <1>6 DEF Injection, IsInjective
  <2>2. f \in Surjection(I, I)
    BY <1>1, <2>1, FS_Injection
  <2> QED BY <2>2 DEF Surjection
<1> DEFINE rank(k) == Rank(e, n, k)
<1>8. ASSUME NEW k \in I PROVE rank(k) \in I /\ pos(rank(k)) = k
  <2>1. \E i \in I : pos(i) = k
    BY <1>7
  <2> QED BY <2>1 DEF Rank, pos, I
<1> HIDE DEF rank
<1>9. ASSUME NEW i \in I PROVE pos(i) \in I /\ rank(pos(i)) = i
  <2>1. pos(i) \in I
    BY <1>3
  <2>2. rank(pos(i)) \in I /\ pos(rank(pos(i))) = pos(i)
    BY <2>1, <1>8
  <2> QED BY <2>1, <2>2, <1>5
<1>10. ASSUME NEW k \in I, NEW m \in I, k < m PROVE e[rank(k)] <= e[rank(m)]
  <2>1. /\ rank(k) \in I /\ pos(rank(k)) = k /\ rank(m) \in I /\ pos(rank(m)) = m
    BY <1>8
  <2>2. e[rank(k)] \in Int /\ e[rank(m)] \in Int /\ k \in Int /\ m \in Int
    BY <2>1 DEF I
  <2> SUFFICES ASSUME ~(e[rank(k)] <= e[rank(m)]) PROVE FALSE
    OBVIOUS
  <2>3. e[rank(m)] - e[rank(k)] < 0
    BY ONLY <2>2, ~(e[rank(k)] <= e[rank(m)])
  <2>4. pos(rank(m)) < pos(rank(k))
    BY <2>1, <2>3, <1>4 DEF Before
  <2> QED BY <2>1, <2>2, <2>4, <1>10
<1>11. \A k, m \in I : rank(k) = rank(m) => k = m
  BY <1>8
<1> QED BY <1>8, <1>9, <1>10, <1>11 DEF rank, I

LEMMA SortArray ==
  ASSUME NEW a, ArrayOK(a), NEW r, r = ALSort(a)
  PROVE  /\ ArrayOK(r) /\ r.size = a.size /\ r.capacity = a.capacity
         /\ Rearranged(ALContents(a), ALContents(r)) /\ NotDecreasing(ALContents(r))
<1>1. /\ a.size \in Nat /\ a.capacity \in Nat
      /\ a.elems \in [0..(a.capacity - 1) -> Value \cup {Nil}]
      /\ IsArray(a)
      /\ (a.capacity = 0) = (a.size = 0)
      /\ a.size <= a.capacity
      /\ a.capacity > FirstCapacity => a.capacity < 2 * a.size
      /\ \A i \in 0..(a.size - 1) : a.elems[i] \in Value
  BY DEF ArrayOK
<1> DEFINE n == a.size
<1> DEFINE e == a.elems
<1> DEFINE rank(k) == Rank(e, n, k)
<1> DEFINE elems == [k \in DOMAIN e |-> IF k < n THEN e[rank(k)] ELSE e[k]]
<1>2. r = Refilled(a, elems)
  BY DEF ALSort, Refilled, Rank, Less
<1> HIDE DEF elems
<1>3. IsArray(r) /\ r.size = a.size /\ r.capacity = a.capacity /\ r.elems = elems
  BY ONLY <1>1, <1>2, ArrayRefilled
<1>4. \A i \in 0..(n - 1) : e[i] \in Value /\ e[i] \in Int
  BY <1>1, ValueAssumption
<1>5. /\ \A k \in 0..(n - 1) : rank(k) \in 0..(n - 1)
      /\ \A k, m \in 0..(n - 1) : rank(k) = rank(m) => k = m
      /\ \A i \in 0..(n - 1) : \E k \in 0..(n - 1) : rank(k) = i
      /\ \A k, m \in 0..(n - 1) : k < m => e[rank(k)] <= e[rank(m)]
  BY <1>1, <1>4, RankProperties
<1> HIDE DEF rank
<1>6. DOMAIN e = 0..(a.capacity - 1)
  BY <1>1
<1>7. ASSUME NEW k \in 0..(n - 1) PROVE elems[k] = e[rank(k)] /\ elems[k] \in Value
  <2>1. k \in DOMAIN e /\ k < n
    BY <1>1, <1>6
  <2>2. elems[k] = e[rank(k)]
    BY <2>1 DEF elems
  <2> QED BY <2>2, <1>4, <1>5
<1>8. elems \in [0..(a.capacity - 1) -> Value \cup {Nil}]
  <2>1. ASSUME NEW k \in 0..(a.capacity - 1) PROVE elems[k] \in Value \cup {Nil}
    <3>1. CASE k < n
      <4>1. k \in 0..(n - 1)
        BY <3>1, <1>1
      <4> QED BY <4>1, <1>7
    <3>2. CASE ~(k < n)
      BY <3>2, <1>1, <1>6 DEF elems
    <3> QED BY <3>1, <3>2
  <2>2. elems = [k \in 0..(a.capacity - 1) |-> elems[k]]
    BY <1>6 DEF elems
  <2> QED BY <2>1, <2>2
<1>9. ArrayOK(r)
  BY <1>1, <1>3, <1>7, <1>8 DEF ArrayOK
<1> DEFINE c == ALContents(a)
<1> DEFINE d == ALContents(r)
<1>10. c \in Seq(Value) /\ Len(c) = n /\ \A i \in 1..n : c[i] = e[i - 1]
  BY ArrayContents
<1>11. d \in Seq(Value) /\ Len(d) = n /\ \A i \in 1..n : d[i] = elems[i - 1]
  <2>1. d \in Seq(Value) /\ Len(d) = r.size /\ \A i \in 1..r.size : d[i] = r.elems[i - 1]
    BY <1>9, ArrayContents
  <2> QED BY <2>1, <1>3
<1>12. n \in Nat
  BY <1>1
<1> HIDE DEF c, d, n, e
<1> DEFINE f == [i \in 1..n |-> rank(i - 1) + 1]
<1>13. \A i \in 1..n : i - 1 \in 0..(n - 1) /\ f[i] = rank(i - 1) + 1 /\ f[i] \in 1..n
  <2> TAKE i \in 1..n
  <2>1. i - 1 \in 0..(n - 1)
    BY <1>12
  <2>2. rank(i - 1) \in 0..(n - 1)
    BY <2>1, <1>5
  <2>3. rank(i - 1) + 1 \in 1..n
    BY <2>2, <1>12
  <2> QED BY <2>1, <2>3
<1>14. f = [i \in 1..n |-> f[i]]
  OBVIOUS
<1> HIDE DEF f
<1>15. ASSUME NEW i \in 1..n PROVE d[i] = c[f[i]] /\ d[i] = e[rank(i - 1)]
  <2>1. i - 1 \in 0..(n - 1) /\ f[i] = rank(i - 1) + 1 /\ f[i] \in 1..n
    BY <1>13
  <2>2. d[i] = e[rank(i - 1)]
    BY <2>1, <1>7, <1>11
  <2>3. c[f[i]] = e[f[i] - 1]
    BY <2>1, <1>10
  <2>4. f[i] - 1 = rank(i - 1)
    <3>1. rank(i - 1) \in Int
      BY <2>1, <1>5
    <3> QED BY ONLY <2>1, <3>1
  <2> QED BY <2>2, <2>3, <2>4
<1>16. OneToOneOnto(1..Len(d), 1..Len(c), f)
  <2>1. f \in [1..n -> 1..n]
    BY <1>13, <1>14
  <2>2. ASSUME NEW i \in 1..n, NEW j \in 1..n, f[i] = f[j] PROVE i = j
    <3>1. /\ i - 1 \in 0..(n - 1) /\ f[i] = rank(i - 1) + 1
          /\ j - 1 \in 0..(n - 1) /\ f[j] = rank(j - 1) + 1
      BY <1>13
    <3>2. rank(i - 1) \in Int /\ rank(j - 1) \in Int
      BY <3>1, <1>5
    <3>3. rank(i - 1) = rank(j - 1)
      BY ONLY <3>1, <3>2, <2>2
    <3>4. i - 1 = j - 1
      BY <3>1, <3>3, <1>5
    <3> QED BY <3>4, <1>12
  <2>3. ASSUME NEW k \in 1..n PROVE \E i \in 1..n : f[i] = k
    <3>1. k - 1 \in 0..(n - 1)
      BY <1>12
    <3>2. PICK m \in 0..(n - 1) : rank(m) = k - 1
      BY <3>1, <1>5
    <3>3. m + 1 \in 1..n /\ (m + 1) - 1 = m /\ (k - 1) + 1 = k
      BY <1>12
    <3>4. f[m + 1] = rank((m + 1) - 1) + 1
      BY <3>3, <1>13
    <3> QED BY <3>2, <3>3, <3>4
  <2> QED BY <2>1, <2>2, <2>3, <1>10, <1>11 DEF OneToOneOnto
<1>17. Rearranged(c, d)
  <2>1. Len(c) \in Nat /\ Len(d) \in Nat /\ \A i \in 1..Len(d) : d[i] = c[f[i]]
    BY <1>10, <1>11, <1>12, <1>15
  <2> QED BY ONLY <2>1, <1>16, RearrangedBy
<1>18. NotDecreasing(d)
  <2> SUFFICES ASSUME NEW i \in 1..n, NEW j \in 1..n, i < j PROVE d[i] <= d[j]
    BY <1>11 DEF NotDecreasing
  <2>1. i - 1 \in 0..(n - 1) /\ j - 1 \in 0..(n - 1) /\ i - 1 < j - 1
    BY <1>12
  <2> QED BY <2>1, <1>5, <1>15
<1> QED BY <1>3, <1>9, <1>17, <1>18 DEF c, d

----------------------------------------------------------------------------
(***************************************************************************)
(* The inductive invariant                                                 *)
(***************************************************************************)

\* The iterators point at the same place, or at nothing.
IterOK(s) ==
  /\ iter = [node |-> iter.node, cell |-> iter.cell]
  /\ \/ iter.node = Nil /\ iter.cell = Nil
     \/ iter.cell \in 0..(array.size - 1) /\ iter.node = s[iter.cell + 1]

IInv ==
  /\ Linked(linked, Nodes(linked))
  /\ ArrayOK(array) /\ array.size <= MaxLength
  /\ LLContents(linked) = ALContents(array)
  /\ IterOK(Nodes(linked))

LEMMA IInvParts ==
  ASSUME IInv
  PROVE  /\ Linked(linked, Nodes(linked)) /\ ArrayOK(array) /\ array.size <= MaxLength
         /\ LLContents(linked) = ALContents(array)
         /\ ALContents(array) \in Seq(Value) /\ Len(ALContents(array)) = array.size
         /\ Len(Nodes(linked)) = array.size /\ LLSize(linked) = array.size
         /\ array.size \in Nat
<1>1. Linked(linked, Nodes(linked)) /\ ArrayOK(array) /\ array.size <= MaxLength
      /\ LLContents(linked) = ALContents(array)
  BY DEF IInv
<1>2. ALContents(array) \in Seq(Value) /\ Len(ALContents(array)) = array.size
  BY ONLY <1>1, ArrayContents
<1>3. Len(LLContents(linked)) = Len(Nodes(linked)) /\ LLSize(linked) = Len(Nodes(linked))
  BY ONLY <1>1, LinkedContents
<1>4. array.size \in Nat
  BY ONLY <1>1 DEF ArrayOK
<1> QED BY ONLY <1>1, <1>2, <1>3, <1>4

\* The invariant after a step that gives the iterators up.
LEMMA IInvAfter ==
  ASSUME NEW t, Linked(linked', t), ArrayOK(array'), array'.size <= MaxLength,
         LLContents(linked') = ALContents(array'), iter' = NoIter
  PROVE  IInv'
<1>1. Nodes(linked') = t
  BY ONLY Linked(linked', t), LinkedParts
<1>2. IterOK(Nodes(linked))'
  BY DEF IterOK, NoIter
<1> QED BY <1>1, <1>2 DEF IInv

LEMMA InitIInv == Init => IInv
<1> SUFFICES ASSUME Init PROVE IInv
  OBVIOUS
<1>1. linked = EmptyLinkedList /\ array = EmptyArrayList /\ iter = NoIter
  BY DEF Init
<1>2. Linked(linked, <<>>)
  BY <1>1, StartLinked
<1>3. Nodes(linked) = <<>> /\ LLContents(linked) = [i \in 1..Len(<<>>) |-> linked.value[(<<>>)[i]]]
  BY <1>2, LinkedParts, LinkedContents
<1>4. LLContents(linked) = <<>>
  <2>1. Len(LLContents(linked)) = 0 /\ LLContents(linked) \in Seq(Value)
    BY <1>2, LinkedContents
  <2> QED BY <2>1
<1>5. ArrayOK(array) /\ ALContents(array) = <<>> /\ array.size <= MaxLength
  BY <1>1, StartArray, MaxLengthAssumption DEF EmptyArrayList
<1>6. IterOK(Nodes(linked))
  BY <1>1 DEF IterOK, NoIter
<1> QED BY <1>2, <1>3, <1>4, <1>5, <1>6 DEF IInv

\* What one insertion does to both lists.
LEMMA BothInsert ==
  ASSUME IInv, array.size < MaxLength, NEW index \in 0..array.size, NEW v \in Value, NEW n,
         Placed(linked, Nodes(linked), index + 1, n, v, linked'),
         Stored(array, index, v, array'), iter' = NoIter
  PROVE  /\ IInv'
         /\ LLContents(linked') = InsertAt(LLContents(linked), index + 1, v)
<1> DEFINE s == Nodes(linked)
<1>1. /\ Linked(linked, s) /\ ArrayOK(array) /\ LLContents(linked) = ALContents(array)
      /\ array.size \in Nat
  BY IInvParts
<1>2. /\ Linked(linked', InsertAt(s, index + 1, n))
      /\ LLContents(linked') = InsertAt(LLContents(linked), index + 1, v)
  <2>1. Placed(linked, s, index + 1, n, v, linked') /\ v \in Value /\ Linked(linked, s)
    BY <1>1
  <2> HIDE DEF s
  <2>2. \A l, q, k, m, x, r : (x \in Value /\ Linked(l, q) /\ Placed(l, q, k, m, x, r))
          => (Linked(r, InsertAt(q, k, m)) /\ LLContents(r) = InsertAt(LLContents(l), k, x))
    BY ONLY PlacedLinked
  <2> QED BY ONLY <2>1, <2>2
<1>3. /\ ArrayOK(array')
      /\ ALContents(array') = InsertAt(ALContents(array), index + 1, v)
  BY ONLY <1>1, Stored(array, index, v, array'), StoredArray
<1>4. array'.size <= MaxLength
  BY <1>1, MaxLengthAssumption DEF Stored
<1>5. IInv'
  <2>1. LLContents(linked') = ALContents(array')
    BY ONLY <1>1, <1>2, <1>3
  <2> QED BY ONLY <2>1, <1>2, <1>3, <1>4, iter' = NoIter, IInvAfter
<1> QED BY ONLY <1>2, <1>5

LEMMA InsertStep ==
  ASSUME IInv, NEW v \in Value, NEW index \in 0..LLSize(linked), Insert(index, v)
  PROVE  /\ IInv'
         /\ LLContents(linked') = InsertAt(LLContents(linked), index + 1, v)
<1>1. /\ Linked(linked, Nodes(linked)) /\ ArrayOK(array)
      /\ Len(Nodes(linked)) = array.size /\ LLSize(linked) = array.size
  BY IInvParts
<1>2. PICK c \in Chunk \ Chunks(linked.pool) : linked' = LLInsert(linked, index, v, c)
  BY DEF Insert, Fresh
<1>3. array.size < MaxLength /\ array' = ALInsert(array, index, v) /\ iter' = NoIter
  BY <1>1 DEF Insert
<1>4. index \in 0..Len(Nodes(linked)) /\ index \in 0..array.size
  BY <1>1
<1>5. PICK n \in Node : Placed(linked, Nodes(linked), index + 1, n, v, linked')
  BY <1>1, <1>2, <1>4, InsertLinked
<1>6. Stored(array, index, v, array')
  BY <1>1, <1>3, <1>4, InsertStores
<1> QED BY <1>3, <1>4, <1>5, <1>6, BothInsert

LEMMA AppendStep ==
  ASSUME IInv, NEW v \in Value, TailIsLast(linked), AppendValue(v)
  PROVE  /\ IInv'
         /\ LLContents(linked') = InsertAt(LLContents(linked), Len(LLContents(linked)) + 1, v)
<1>1. /\ Linked(linked, Nodes(linked)) /\ ArrayOK(array)
      /\ Len(Nodes(linked)) = array.size /\ LLSize(linked) = array.size
      /\ array.size \in Nat /\ Len(LLContents(linked)) = array.size
  BY IInvParts
<1>2. PICK c \in Chunk \ Chunks(linked.pool) : linked' = LLAppend(linked, v, c)
  BY DEF AppendValue, Fresh
<1>3. array.size < MaxLength /\ array' = ALAppend(array, v) /\ iter' = NoIter
  BY <1>1 DEF AppendValue
<1>4. PICK n \in Node : Placed(linked, Nodes(linked), array.size + 1, n, v, linked')
  BY <1>1, <1>2, AppendLinked
<1>5. Stored(array, array.size, v, array')
  BY <1>1, <1>3, AppendStores
<1>6. array.size \in 0..array.size
  BY <1>1
<1>7. /\ IInv'
      /\ LLContents(linked') = InsertAt(LLContents(linked), array.size + 1, v)
  BY <1>3, <1>4, <1>5, <1>6, BothInsert
<1> QED BY <1>7, <1>1

LEMMA SortBoth ==
  ASSUME IInv, Sort
  PROVE  /\ IInv'
         /\ Rearranged(LLContents(linked), LLContents(linked'))
         /\ NotDecreasing(LLContents(linked'))
<1> DEFINE s == Nodes(linked)
<1>1. /\ Linked(linked, s) /\ ArrayOK(array) /\ LLContents(linked) = ALContents(array)
      /\ array.size <= MaxLength
  BY IInvParts
<1>2. linked' = LLSort(linked) /\ array' = ALSort(array) /\ iter' = NoIter
  BY DEF Sort
<1>3. PICK t : SortOf(linked.value, s, t) /\ Linked(linked', t) /\ linked'.value = linked.value
  BY <1>1, <1>2, SortLinked
<1>4. /\ ArrayOK(array') /\ array'.size = array.size
      /\ Rearranged(ALContents(array), ALContents(array')) /\ NotDecreasing(ALContents(array'))
  BY <1>1, <1>2, SortArray
<1> DEFINE c == LLContents(linked)
<1> DEFINE d == LLContents(linked')
<1> DEFINE e == ALContents(array')
<1>5. c = [i \in 1..Len(s) |-> linked.value[s[i]]] /\ c \in Seq(Value)
  BY <1>1, LinkedContents
<1>6. d = [i \in 1..Len(t) |-> linked.value[t[i]]] /\ d \in Seq(Value)
  BY <1>3, LinkedContents
<1>7. s \in Seq(Node) /\ Distinct(s)
  BY <1>1, LinkedParts DEF Distinct
<1> HIDE DEF c, d, e, s
<1>8. Rearranged(c, d) /\ NotDecreasing(d)
  BY <1>3, <1>5, <1>6, <1>7, SortRearranges
<1>9. Rearranged(c, e) /\ NotDecreasing(e) /\ e \in Seq(Value)
  BY <1>1, <1>4, ArrayContents DEF c, e
<1>10. Rearranged(d, e)
  BY <1>8, <1>9 DEF Rearranged
<1>11. d \in Seq(Int) /\ e \in Seq(Int)
  BY <1>6, <1>9, ValueAssumption, SeqLarger
<1>12. d = e
  BY ONLY <1>8, <1>9, <1>10, <1>11, SortedUnique
<1>13. IInv'
  BY <1>1, <1>2, <1>3, <1>4, <1>12, IInvAfter DEF d, e
<1> QED BY <1>8, <1>13 DEF c, d

LEMMA ClearStep ==
  ASSUME IInv, Clear
  PROVE  IInv' /\ LLContents(linked') = <<>>
<1>1. Linked(linked, Nodes(linked))
  BY IInvParts
<1>2. linked' = LLClear(linked) /\ array' = EmptyArrayList /\ iter' = NoIter
  BY DEF Clear, ALClear
<1>3. Linked(linked', <<>>)
  BY <1>1, <1>2, ClearedLinked
<1>4. ArrayOK(array') /\ ALContents(array') = <<>> /\ array'.size <= MaxLength
  BY <1>2, StartArray, MaxLengthAssumption DEF EmptyArrayList
<1>5. Len(LLContents(linked')) = Len(<<>>) /\ LLContents(linked') \in Seq(Value)
  BY <1>3, LinkedContents
<1>6. LLContents(linked') = <<>>
  BY <1>5
<1> QED BY <1>2, <1>3, <1>4, <1>6, IInvAfter

\* A step that leaves the lists alone.
LEMMA ReadStep ==
  ASSUME IInv, linked' = linked, array' = array, IterOK(Nodes(linked))'
  PROVE  IInv'
BY DEF IInv

LEMMA IterateStep ==
  ASSUME IInv, Iterate
  PROVE  /\ IInv' /\ linked' = linked /\ array' = array
         /\ iter'.cell = IF array.size = 0 THEN Nil ELSE 0
<1> DEFINE s == Nodes(linked)
<1>1. /\ Linked(linked, s) /\ ArrayOK(array) /\ Len(s) = array.size
      /\ array.size \in Nat
  BY IInvParts
<1>2. linked' = linked /\ array' = array
      /\ iter' = [node |-> LLIter(linked), cell |-> ALIter(array)]
  BY DEF Iterate
<1>3. linked.head = IF array.size = 0 THEN Nil ELSE s[1]
  BY <1>1, LinkedParts
<1>4. ALIter(array) = IF array.size = 0 THEN Nil ELSE 0
  BY <1>1 DEF ALIter, ArrayOK
<1>5. iter'.node = linked.head /\ iter'.cell = ALIter(array)
  BY <1>2 DEF LLIter
<1>6. IterOK(s)'
  BY <1>1, <1>2, <1>3, <1>4, <1>5 DEF IterOK, LLIter
<1>7. IInv'
  BY <1>2, <1>6, ReadStep
<1> QED BY <1>2, <1>4, <1>5, <1>7

LEMMA AdvanceStep ==
  ASSUME IInv, Advance
  PROVE  /\ IInv' /\ linked' = linked /\ array' = array
         /\ iter.cell \in 0..(array.size - 1)
         /\ iter'.cell = IF iter.cell + 1 = array.size THEN Nil ELSE iter.cell + 1
<1> DEFINE s == Nodes(linked)
<1>1. /\ Linked(linked, s) /\ ArrayOK(array) /\ Len(s) = array.size
      /\ array.size \in Nat
  BY IInvParts
<1>2. /\ iter.node # Nil /\ iter.cell # Nil
      /\ linked' = linked /\ array' = array
      /\ iter' = [node |-> linked.next[iter.node], cell |-> ALIterNext(array, iter.cell)]
  BY DEF Advance, LLIterNext
<1>3. iter.cell \in 0..(array.size - 1) /\ iter.node = s[iter.cell + 1]
  BY <1>2 DEF IInv, IterOK
<1>4. iter.cell + 1 \in 1..Len(s)
  BY <1>1, <1>3
<1>5. linked.next[iter.node] = IF iter.cell + 1 = array.size THEN Nil ELSE s[iter.cell + 1 + 1]
  BY <1>1, <1>3, <1>4, LinkedParts
<1>6. ALIterNext(array, iter.cell) = IF iter.cell + 1 = array.size THEN Nil ELSE iter.cell + 1
  BY <1>1, <1>3 DEF ALIterNext
<1>7. iter'.node = linked.next[iter.node] /\ iter'.cell = ALIterNext(array, iter.cell)
  BY <1>2
<1>8. iter.cell + 1 # array.size => iter.cell + 1 \in 0..(array.size - 1)
  BY <1>1, <1>3
<1>9. IterOK(s)'
  BY <1>2, <1>5, <1>6, <1>7, <1>8 DEF IterOK
<1>10. IInv'
  BY <1>2, <1>9, ReadStep
<1> QED BY <1>2, <1>3, <1>6, <1>7, <1>10

LEMMA NextIInv == IInv /\ [CarefulNext]_vars => IInv'
<1> SUFFICES ASSUME IInv, [CarefulNext]_vars PROVE IInv'
  OBVIOUS
<1>1. CASE UNCHANGED vars
  BY <1>1 DEF IInv, vars, IterOK
<1>2. ASSUME NEW v \in Value, NEW index \in 0..LLSize(linked), Insert(index, v) PROVE IInv'
  BY <1>2, InsertStep
<1>3. ASSUME TailIsLast(linked), NEW v \in Value, AppendValue(v) PROVE IInv'
  BY <1>3, AppendStep
<1>4. CASE Sort
  BY <1>4, SortBoth
<1>5. CASE Clear
  BY <1>5, ClearStep
<1>6. CASE Iterate
  BY <1>6, IterateStep
<1>7. CASE Advance
  BY <1>7, AdvanceStep
<1> QED BY <1>1, <1>2, <1>3, <1>4, <1>5, <1>6, <1>7 DEF CarefulNext, NextWithoutAppend

\* The invariant holds for ever, under a client that appends only while the tail
\* is sound: the linked list and the array list hold the same values, each in a
\* storage in order, and the iterators keep step.
THEOREM ListsInvariant == CarefulSpec => []IInv
BY InitIInv, NextIInv, PTL DEF CarefulSpec

----------------------------------------------------------------------------
(***************************************************************************)
(* What the invariant gives                                                *)
(***************************************************************************)
LEMMA TypesFollow == IInv => TypeOK
<1> SUFFICES ASSUME IInv PROVE TypeOK
  OBVIOUS
<1> DEFINE s == Nodes(linked)
<1>1. /\ Linked(linked, s) /\ ArrayOK(array) /\ array.size <= MaxLength
      /\ Len(s) = array.size /\ array.size \in Nat
  BY IInvParts
<1>2. linked \in LinkedListType
  BY <1>1 DEF Linked
<1>3. array.size \in 0..MaxLength
        /\ array.elems \in [0..(array.capacity - 1) -> Value \cup {Nil}]
  BY <1>1, MaxLengthAssumption DEF ArrayOK
<1>4. \A i \in 1..Len(s) : s[i] \in Node
  BY <1>1, LinkedParts
<1>5. iter = [node |-> iter.node, cell |-> iter.cell]
      /\ (\/ iter.node = Nil /\ iter.cell = Nil
          \/ iter.cell \in 0..(array.size - 1) /\ iter.node = s[iter.cell + 1])
  BY DEF IInv, IterOK
<1>6. iter.node \in Node \cup {Nil} /\ iter.cell \in (0..MaxLength) \cup {Nil}
  <2>1. CASE iter.node = Nil /\ iter.cell = Nil
    BY <2>1
  <2>2. CASE iter.cell \in 0..(array.size - 1) /\ iter.node = s[iter.cell + 1]
    <3>1. iter.cell + 1 \in 1..Len(s) /\ iter.cell \in 0..MaxLength
      BY ONLY <2>2, <1>1, <1>3, MaxLengthAssumption
    <3> QED BY <3>1, <2>2, <1>4
  <2> QED BY <2>1, <2>2, <1>5
<1>7. iter \in [node : Node \cup {Nil}, cell : (0..MaxLength) \cup {Nil}]
  BY ONLY <1>5, <1>6
<1> QED BY <1>2, <1>3, <1>7 DEF TypeOK

LEMMA AgreementFollows == IInv => ListsAgree
<1> SUFFICES ASSUME IInv PROVE ListsAgree
  OBVIOUS
<1> DEFINE s == Nodes(linked)
<1> DEFINE c == LLContents(linked)
<1>1. /\ Linked(linked, s) /\ ArrayOK(array) /\ c = ALContents(array)
      /\ LLSize(linked) = array.size /\ Len(s) = array.size /\ array.size \in Nat
  BY IInvParts
<1>2. s \in Seq(Node) /\ (\A i \in 1..Len(s) : s[i] \in Node) /\ Nil \notin Node
  BY <1>1, LinkedParts
<1>3. \A i \in 1..array.size : c[i] = linked.value[s[i]]
  BY <1>1, LinkedContents
<1>4. \A i \in 1..array.size : c[i] = array.elems[i - 1]
  BY <1>1, ArrayContents
<1>5. ASSUME NEW v \in Value PROVE LLContains(linked, v) <=> ALContains(array, v)
  <2>1. ToSet(s) = {s[i] : i \in 1..array.size}
    BY <1>1, <1>2 DEF ToSet
  <2>2. LLContains(linked, v) <=> \E i \in 1..array.size : linked.value[s[i]] = v
    BY <2>1 DEF LLContains
  <2>3. ALContains(array, v) <=> \E i \in 0..(array.size - 1) : array.elems[i] = v
    BY DEF ALContains
  <2>4. ASSUME NEW i \in 1..array.size PROVE i - 1 \in 0..(array.size - 1)
    BY <1>1
  <2>5. ASSUME NEW i \in 0..(array.size - 1) PROVE i + 1 \in 1..array.size /\ (i + 1) - 1 = i
    BY <1>1
  <2> HIDE DEF s, c
  <2>6. ASSUME NEW i \in 1..array.size, linked.value[s[i]] = v
        PROVE  \E j \in 0..(array.size - 1) : array.elems[j] = v
    BY <2>4, <2>6, <1>3, <1>4
  <2>7. ASSUME NEW i \in 0..(array.size - 1), array.elems[i] = v
        PROVE  \E j \in 1..array.size : linked.value[s[j]] = v
    BY <2>5, <2>7, <1>3, <1>4
  <2> QED BY <2>2, <2>3, <2>6, <2>7
<1>6. \/ iter.node = Nil /\ iter.cell = Nil
      \/ iter.cell \in 0..(array.size - 1) /\ iter.node = s[iter.cell + 1]
  BY DEF IInv, IterOK
<1>7. ASSUME iter.cell \in 0..(array.size - 1), iter.node = s[iter.cell + 1]
      PROVE  /\ iter.node # Nil /\ iter.cell # Nil
             /\ LLIterGet(linked, iter.node) = ALIterGet(array, iter.cell)
  <2>1. iter.cell + 1 \in 1..array.size /\ (iter.cell + 1) - 1 = iter.cell /\ iter.cell \in Int
    BY <1>7, <1>1
  <2> HIDE DEF s, c
  <2>2. iter.node \in Node /\ linked.value[iter.node] = array.elems[iter.cell]
    BY <2>1, <1>1, <1>2, <1>3, <1>4, <1>7
  <2> QED BY <2>1, <2>2, <1>2, ValueAssumption DEF LLIterGet, ALIterGet
<1> QED BY <1>1, <1>5, <1>6, <1>7 DEF ListsAgree

LEMMA StorageFollows == IInv => StorageSound
<1> SUFFICES ASSUME IInv PROVE StorageSound
  OBVIOUS
<1> DEFINE s == Nodes(linked)
<1> DEFINE pool == linked.pool
<1>1. Linked(linked, s) /\ ArrayOK(array)
  BY IInvParts
<1>2. /\ s \in Seq(Node) /\ Len(s) \in Nat
      /\ \A i, j \in 1..Len(s) : s[i] = s[j] => i = j
  BY <1>1, LinkedParts
<1>3. Owns(pool, InUse(s))
  BY <1>1 DEF Linked
<1>4. pool.chunks \in Seq(Chunk) /\ Len(pool.chunks) \in Nat
      /\ pool.taken \in [Chunk -> 0..PerChunk] /\ pool.freed \in [Chunk -> 0..PerChunk]
  BY <1>3, OwnsParts
<1>5. IsInjective(s)
  BY <1>2 DEF IsInjective
<1>6. \A i \in 1..Len(s) : ChunkOf(s[i]) \in Chunks(pool) /\ s[i][2] < pool.taken[ChunkOf(s[i])]
  <2>1. \A i \in 1..Len(s) : s[i] \in InUse(s)
    BY DEF InUse
  <2> HIDE DEF s, pool
  <2> QED BY <2>1, <1>3 DEF Owns
<1>7. ASSUME NEW c \in Chunk
      PROVE  pool.taken[c] - pool.freed[c] = Cardinality({i \in DOMAIN s : ChunkOf(s[i]) = c})
  <2> DEFINE A == {i \in 1..Len(s) : ChunkOf(s[i]) = c}
  <2> DEFINE B == InChunk(InUse(s), c)
  <2> DEFINE f == [i \in A |-> s[i]]
  <2>1. IsFiniteSet(A)
    <3>1. IsFiniteSet(1..Len(s)) /\ A \subseteq 1..Len(s)
      BY <1>2, FS_Interval
    <3> HIDE DEF A
    <3> QED BY <3>1, FS_Subset
  <2>2. OneToOneOnto(A, B, f)
    <3>1. \A i \in A : f[i] \in B
      BY DEF InUse, InChunk
    <3>2. \A i, j \in A : f[i] = f[j] => i = j
      BY <1>2
    <3>3. \A z \in B : \E i \in A : f[i] = z
      BY DEF InUse, InChunk
    <3> QED BY <3>1, <3>2, <3>3 DEF OneToOneOnto
  <2>3. Cardinality(A) = Cardinality(B)
    <3> HIDE DEF A, B, f
    <3> QED BY <2>1, <2>2, OneToOne
  <2>4. Cardinality(B) = pool.taken[c] - pool.freed[c]
    BY <1>3 DEF Owns
  <2>5. DOMAIN s = 1..Len(s)
    BY <1>2
  <2> QED BY <2>3, <2>4, <2>5
<1>8. IsInjective(pool.chunks)
  <2>1. \A i, j \in 1..Len(pool.chunks) : pool.chunks[i] = pool.chunks[j] => i = j
    BY <1>3 DEF Owns, Distinct
  <2>2. DOMAIN pool.chunks = 1..Len(pool.chunks)
    BY <1>4
  <2> HIDE DEF pool
  <2> QED BY ONLY <2>1, <2>2 DEF IsInjective
<1>9. \A i \in 1..Len(pool.chunks) :
        /\ pool.taken[pool.chunks[i]] > 0
        /\ pool.freed[pool.chunks[i]] < PerChunk
        /\ i < Len(pool.chunks) => pool.taken[pool.chunks[i]] = PerChunk
  BY <1>3 DEF Owns
<1>10. s = <<>> => Len(pool.chunks) <= 1
  <2> SUFFICES ASSUME s = <<>>, ~(Len(pool.chunks) <= 1) PROVE FALSE
    OBVIOUS
  <2> DEFINE c == pool.chunks[1]
  <2>1. 1 \in 1..Len(pool.chunks) /\ 1 < Len(pool.chunks)
    BY <1>4
  <2>2. pool.taken[c] = PerChunk /\ pool.freed[c] < PerChunk /\ c \in Chunk
    BY <2>1, <1>9, <1>4
  <2>3. pool.freed[c] \in Int /\ PerChunk \in Int
    BY <2>2, <1>4, PerChunkAssumption
  <2>4. {i \in DOMAIN s : ChunkOf(s[i]) = c} = {}
    OBVIOUS
  <2>5. pool.taken[c] - pool.freed[c] = 0
    BY <2>2, <2>4, <1>7, FS_EmptySet
  <2> QED BY ONLY <2>2, <2>3, <2>5
<1>11. NodesOwned
  <2>1. DOMAIN s = 1..Len(s) /\ DOMAIN pool.chunks = 1..Len(pool.chunks)
    BY <1>2, <1>4
  <2> QED BY <2>1, <1>5, <1>6, <1>7, <1>8, <1>9, <1>10 DEF NodesOwned
<1>12. ArrayFits
  <2>1. Nil \notin Value
    BY ValueAssumption
  <2> QED BY <2>1, <1>1 DEF ArrayOK, ArrayFits
<1> QED BY <1>11, <1>12 DEF StorageSound

\* Every pointer of the linked list is a node of its pool or null, every cell of
\* the array a value or unset, and an iterator a place in its list.
THEOREM ListsTypes == CarefulSpec => []TypeOK
BY ListsInvariant, TypesFollow, PTL

\* Whatever a careful client does, size, get and contains tell the same of the
\* linked list and of the array list, and their iterators read the same values
\* and end together (lists.c over linkedlist.c and arraylist.c).
THEOREM ListsHoldTheSame == CarefulSpec => []ListsAgree
BY ListsInvariant, AgreementFollows, PTL

\* The pool counts exactly the nodes of the list, keeps no chunk that it should
\* have released, and the array is neither too small nor twice too large, for
\* any size of chunks and any first capacity.
THEOREM StorageStaysSound == CarefulSpec => []StorageSound
BY ListsInvariant, StorageFollows, PTL

----------------------------------------------------------------------------
(***************************************************************************)
(* The lists implement the sequence of ListSpec                            *)
(***************************************************************************)

LEMMA OneMore ==
  ASSUME NEW k \in Nat, NEW n \in Nat, k < n
  PROVE  /\ k + 1 # n => k + 1 \in Nat /\ k + 1 < n
         /\ k + 1 = n => n - k - 1 = 0
OBVIOUS

\* What the iterator has not read is the rest of the array.
Rest(c, k) == SubSeq(c, k + 1, Len(c))

LEMMA RestProperties ==
  ASSUME NEW c \in Seq(Value), NEW k \in Nat, k <= Len(c)
  PROVE  /\ Rest(c, 0) = c
         /\ k < Len(c) => Rest(c, k) # <<>> /\ Tail(Rest(c, k)) = Rest(c, k + 1)
         /\ k = Len(c) => Rest(c, k) = <<>>
<1>1. Len(c) \in Nat /\ c \in [1..Len(c) -> Value]
  OBVIOUS
<1>2. Rest(c, 0) = c
  BY SubSeqFull DEF Rest
<1>3. k = Len(c) => Rest(c, k) = <<>>
  BY <1>1, SubSeqEmpty DEF Rest
<1>4. ASSUME k < Len(c) PROVE Rest(c, k) # <<>> /\ Tail(Rest(c, k)) = Rest(c, k + 1)
  <2>1. \A m \in Nat : m < Len(c) =>
          /\ Rest(c, m) \in Seq(Value) /\ Len(Rest(c, m)) = Len(c) - m
          /\ \A i \in 1..(Len(c) - m) : Rest(c, m)[i] = c[m + i]
    <3> SUFFICES ASSUME NEW m \in Nat, m < Len(c)
                 PROVE  /\ Rest(c, m) \in Seq(Value) /\ Len(Rest(c, m)) = Len(c) - m
                        /\ \A i \in 1..(Len(c) - m) : Rest(c, m)[i] = c[m + i]
      OBVIOUS
    <3>1. /\ m + 1 \in 1..Len(c) /\ Len(c) \in m..Len(c)
          /\ \A i \in (m + 1)..Len(c) : c[i] \in Value
      BY <1>1
    <3>2. m + 1 \in 1..(Len(c) + 1)
      BY <3>1, <1>1
    <3> QED BY <1>1, <3>1, <3>2, SubSeqProperties DEF Rest
  <2>2. Rest(c, k) \in Seq(Value) /\ Len(Rest(c, k)) = Len(c) - k
        /\ \A i \in 1..(Len(c) - k) : Rest(c, k)[i] = c[k + i]
    BY <2>1, <1>4
  <2>3. Rest(c, k) # <<>>
    BY <2>2, <1>4, <1>1
  <2>4. /\ Tail(Rest(c, k)) \in Seq(Value) /\ Len(Tail(Rest(c, k))) = Len(c) - k - 1
        /\ \A i \in 1..(Len(c) - k - 1) : Tail(Rest(c, k))[i] = c[k + (i + 1)]
    <3>1. /\ Tail(Rest(c, k)) \in Seq(Value) /\ Len(Tail(Rest(c, k))) = Len(Rest(c, k)) - 1
          /\ \A i \in 1..(Len(Rest(c, k)) - 1) : Tail(Rest(c, k))[i] = Rest(c, k)[i + 1]
      BY <2>2, <2>3, TailFunction
    <3>2. \A i \in 1..(Len(c) - k - 1) : i + 1 \in 1..(Len(c) - k)
      BY <1>1
    <3> HIDE DEF Rest
    <3> QED BY <3>1, <3>2, <2>2
  <2>5. CASE k + 1 = Len(c)
    <3>1. Rest(c, k + 1) = <<>>
      BY <1>1, <2>5, SubSeqEmpty DEF Rest
    <3>2. Len(c) - k - 1 = 0
      BY ONLY <2>5, k < Len(c), <1>1, k \in Nat, OneMore
    <3>3. Tail(Rest(c, k)) = <<>>
      <4> DEFINE x == Tail(Rest(c, k))
      <4>1. x \in Seq(Value) /\ Len(x) = 0
        BY ONLY <3>2, <2>4
      <4> HIDE DEF x
      <4>2. x = <<>>
        BY ONLY <4>1, EmptySeq
      <4> QED BY ONLY <4>2 DEF x
    <3> QED BY ONLY <3>1, <2>3, <3>3
  <2>6. CASE k + 1 # Len(c)
    <3>1. k + 1 \in Nat /\ k + 1 < Len(c)
      BY ONLY <2>6, k < Len(c), <1>1, k \in Nat, OneMore
    <3>2. Rest(c, k + 1) \in Seq(Value) /\ Len(Rest(c, k + 1)) = Len(c) - (k + 1)
        /\ \A i \in 1..(Len(c) - (k + 1)) : Rest(c, k + 1)[i] = c[(k + 1) + i]
      BY <3>1, <2>1
    <3>3. Len(c) - (k + 1) = Len(c) - k - 1 /\ Len(c) - k - 1 \in Nat
          /\ \A i \in 1..(Len(c) - k - 1) : (k + 1) + i = k + (i + 1)
      BY <1>1, <3>1
    <3> DEFINE x == Tail(Rest(c, k))
    <3> DEFINE y == Rest(c, k + 1)
    <3>4. x \in Seq(Value) /\ y \in Seq(Value) /\ Len(x) = Len(y)
          /\ \A i \in 1..Len(x) : x[i] = y[i]
      <4> HIDE DEF Rest
      <4> QED BY <2>4, <3>2, <3>3
    <3>5. x = y
      <4> HIDE DEF x, y
      <4> QED BY ONLY <3>4
    <3> QED BY <3>5, <2>3
  <2> QED BY <2>5, <2>6
<1> QED BY <1>2, <1>3, <1>4

Abstract == IF iter.cell = Nil THEN <<>> ELSE Rest(LLContents(linked), iter.cell)

LEMMA AbstractRest ==
  ASSUME IInv
  PROVE  (IF iter.cell = Nil THEN <<>>
          ELSE SubSeq(ALContents(array), iter.cell + 1, array.size)) = Abstract
BY IInvParts DEF Abstract, Rest

\* Rearranged says of all values what SameElements says of those that are stored.
LEMMA RearrangedSame ==
  ASSUME NEW c \in Seq(Value), NEW d \in Seq(Value), Rearranged(c, d), NotDecreasing(d)
  PROVE  Promise!SameElements(c, d) /\ Promise!Increasing(d)
<1>1. DOMAIN c = 1..Len(c) /\ DOMAIN d = 1..Len(d)
  OBVIOUS
<1>2. Promise!SameElements(c, d)
  <2>1. \A v \in Value : Cardinality({i \in 1..Len(c) : c[i] = v})
                          = Cardinality({i \in 1..Len(d) : d[i] = v})
    BY DEF Rearranged, Places
  <2>2. \A S : Promise!Cardinality(S) = Cardinality(S)
    BY ONLY TRUE DEF Promise!Cardinality, Cardinality
  <2> QED BY ONLY <2>1, <2>2, <1>1 DEF Promise!SameElements
<1>3. Promise!Increasing(d)
  BY <1>1 DEF Promise!Increasing, NotDecreasing
<1> QED BY <1>2, <1>3

LEMMA InitImplements == Init => Promise!Init
<1> SUFFICES ASSUME Init PROVE Promise!Init
  OBVIOUS
<1>1. linked = EmptyLinkedList /\ iter.cell = Nil
  BY DEF Init, NoIter
<1>2. Linked(linked, <<>>)
  BY <1>1, StartLinked
<1>3. Len(LLContents(linked)) = Len(<<>>) /\ LLContents(linked) \in Seq(Value)
  BY <1>2, LinkedContents
<1>4. LLContents(linked) = <<>>
  BY <1>3
<1> QED BY <1>1, <1>4 DEF Promise!Init

LEMMA NextImplements ==
  ASSUME IInv, [CarefulNext]_vars
  PROVE  [Promise!Next]_(Promise!vars)
<1> DEFINE c == LLContents(linked)
<1> DEFINE toRead == IF iter.cell = Nil THEN <<>>
                     ELSE SubSeq(ALContents(array), iter.cell + 1, array.size)
<1>1. IInv'
  BY NextIInv
<1>2. toRead = Abstract /\ toRead' = Abstract'
  <2>1. toRead = Abstract
    BY AbstractRest
  <2>2. (toRead = Abstract)'
    BY <1>1, AbstractRest, PTL
  <2> QED BY <2>1, <2>2
<1>3. /\ c \in Seq(Value) /\ Len(c) = array.size /\ array.size \in Nat
      /\ LLSize(linked) = array.size
  BY IInvParts
<1>4. iter' = NoIter => toRead' = <<>>
  BY DEF NoIter
<1>5. CASE UNCHANGED vars
  BY <1>5 DEF vars, Promise!vars
<1>6. ASSUME NEW v \in Value, NEW index \in 0..LLSize(linked), Insert(index, v)
      PROVE  Promise!Next
  <2>1. c' = InsertAt(c, index + 1, v) /\ iter' = NoIter
    BY <1>6, InsertStep DEF Insert
  <2>2. Promise!Insert(index, v)
    <3>1. toRead' = <<>>
      BY <2>1, <1>4
    <3> QED BY ONLY <2>1, <3>1 DEF Promise!Insert, Promise!InsertAt, InsertAt
  <2>3. index \in 0..Len(c)
    BY <1>3
  <2> QED BY <2>2, <2>3 DEF Promise!Next
<1>7. ASSUME TailIsLast(linked), NEW v \in Value, AppendValue(v) PROVE Promise!Next
  <2>1. c' = InsertAt(c, Len(c) + 1, v) /\ iter' = NoIter
    BY <1>7, AppendStep DEF AppendValue
  <2>2. Promise!Insert(Len(c), v)
    <3>1. toRead' = <<>>
      BY <2>1, <1>4
    <3> QED BY ONLY <2>1, <3>1 DEF Promise!Insert, Promise!InsertAt, InsertAt
  <2>3. Len(c) \in 0..Len(c)
    BY <1>3
  <2> QED BY <2>2, <2>3 DEF Promise!Next
<1>8. CASE Sort
  <2>1. Rearranged(c, c') /\ NotDecreasing(c') /\ iter' = NoIter
    BY <1>8, SortBoth DEF Sort
  <2>2. c' \in Seq(Value)
    <3>1. Linked(linked', Nodes(linked'))
      BY <1>1 DEF IInv
    <3> QED BY <3>1, LinkedContents
  <2>3. Promise!SameElements(c, c') /\ Promise!Increasing(c')
    BY <2>1, <2>2, <1>3, RearrangedSame
  <2> QED BY <2>1, <2>3, <1>4 DEF Promise!Next, Promise!Sort
<1>9. CASE Clear
  BY <1>9, <1>4, ClearStep DEF Promise!Next, Promise!Clear, Clear
<1>10. CASE Iterate
  <2>1. /\ linked' = linked /\ array' = array
        /\ iter'.cell = IF array.size = 0 THEN Nil ELSE 0
    BY <1>10, IterateStep
  <2>2. c' = c
    BY <2>1
  <2>3. Abstract' = c
    <3>1. CASE array.size = 0
      <4>1. c = <<>>
        BY <3>1, <1>3
      <4> QED BY <4>1, <3>1, <2>1 DEF Abstract
    <3>2. CASE array.size # 0
      <4>1. iter'.cell = 0 /\ 0 # Nil
        BY <3>2, <2>1, ValueAssumption
      <4>2. Rest(c, 0) = c
        BY <1>3, RestProperties
      <4> QED BY <4>1, <4>2, <2>2 DEF Abstract
    <3> QED BY <3>1, <3>2
  <2> QED BY <2>2, <2>3, <1>2 DEF Promise!Next, Promise!Iterate
<1>11. CASE Advance
  <2>1. /\ linked' = linked /\ array' = array
        /\ iter.cell \in 0..(array.size - 1)
        /\ iter'.cell = IF iter.cell + 1 = array.size THEN Nil ELSE iter.cell + 1
    BY <1>11, AdvanceStep
  <2>2. c' = c
    BY <2>1
  <2> DEFINE k == iter.cell
  <2>3. k \in Nat /\ k < Len(c) /\ k + 1 \in Nat /\ k + 1 <= Len(c) /\ k # Nil /\ k + 1 # Nil
    BY <2>1, <1>3, ValueAssumption
  <2> HIDE DEF k, c
  <2>4. Rest(c, k) # <<>> /\ Tail(Rest(c, k)) = Rest(c, k + 1)
        /\ (k + 1 = Len(c) => Rest(c, k + 1) = <<>>)
    BY <2>3, <1>3, RestProperties
  <2>5. Abstract = Rest(c, k) /\ Abstract' = Rest(c, k + 1)
    <3>1. Abstract = Rest(c, k)
      BY <2>3 DEF Abstract, c, k
    <3>2. Abstract' = IF iter'.cell = Nil THEN <<>> ELSE Rest(c, iter'.cell)
      BY <2>2 DEF Abstract, c
    <3>3. iter'.cell = IF k + 1 = array.size THEN Nil ELSE k + 1
      BY <2>1 DEF k
    <3> QED BY ONLY <3>1, <3>2, <3>3, <2>3, <2>4, <1>3
  <2> QED BY <2>2, <2>4, <2>5, <1>2 DEF Promise!Next, Promise!Advance, c
<1> QED BY <1>5, <1>6, <1>7, <1>8, <1>9, <1>10, <1>11 DEF CarefulNext, NextWithoutAppend

\* Both lists behave like one sequence of values: each call inserts at its
\* index, appends, empties or sorts that sequence without losing or doubling an
\* element, and an iterator reads it to the end in order (lists.h).
THEOREM ListsImplementListSpec == CarefulSpec => ImplementsListSpec
BY InitImplements, NextImplements, ListsInvariant, PTL
   DEF CarefulSpec, ImplementsListSpec, Promise!Spec
=============================================================================
