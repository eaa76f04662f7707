---------------------------- MODULE ParserProofs ----------------------------
(***************************************************************************)
(* Proofs about Parser: for every input, the pool of the tree is filled in *)
(* order, the stacks and the queue stay within their arrays and hold what  *)
(* they should, and the text of a name is copied while the scanner has it. *)
(*                                                                         *)
(* The stack is the way that the automaton took: each state but the first  *)
(* is where a symbol leads from the state below it.  So a rule that is     *)
(* complete lies on the stack as a whole, and in the state below it some   *)
(* item waits for its symbol.                                              *)
(***************************************************************************)
EXTENDS Parser, DataLemmas, FiniteSetTheorems

----------------------------------------------------------------------------
(***************************************************************************)
(* The tree pool                                                           *)
(***************************************************************************)

\* A sequence of some elements, and one with an element more.
Listed(s) == \E S : s \in Seq(S)

LEMMA ListedAppend ==
  ASSUME NEW s, Listed(s), NEW e
  PROVE  /\ Listed(Append(s, e)) /\ Len(s) \in Nat /\ Len(Append(s, e)) = Len(s) + 1
         /\ \A i \in 1..(Len(s) + 1) : Append(s, e)[i] = IF i = Len(s) + 1 THEN e ELSE s[i]
         /\ DOMAIN s = 1..Len(s)
<1>1. PICK S : s \in Seq(S)
  BY DEF Listed
<1>2. s \in Seq(S \cup {e}) /\ e \in S \cup {e}
  BY <1>1, SeqLarger
<1> HIDE DEF Listed
<1>3. /\ Len(s) \in Nat /\ Append(s, e) \in Seq(S \cup {e}) /\ Len(Append(s, e)) = Len(s) + 1
      /\ \A i \in 1..(Len(s) + 1) : Append(s, e)[i] = IF i = Len(s) + 1 THEN e ELSE s[i]
  BY <1>2, AppendFunction
<1>4. DOMAIN s = 1..Len(s)
  BY <1>1
<1> QED BY <1>3, <1>4 DEF Listed

LEMMA ListedPrefix ==
  ASSUME NEW s, Listed(s), NEW n \in 0..Len(s)
  PROVE  /\ Listed(SubSeq(s, 1, n)) /\ Len(SubSeq(s, 1, n)) = n
         /\ \A i \in 1..n : SubSeq(s, 1, n)[i] = s[i]
<1>1. PICK S : s \in Seq(S)
  BY DEF Listed
<1> HIDE DEF Listed
<1>2. Len(s) \in Nat
  BY <1>1
<1>3. SubSeq(s, 1, n) \in Seq(S) /\ Len(SubSeq(s, 1, n)) = n
      /\ \A i \in 1..n : SubSeq(s, 1, n)[i] = s[i]
  BY <1>1, <1>2
<1> QED BY <1>3 DEF Listed

\* No page is filled beyond its end, nor the current one beyond the usual size.
Page == [room : Nat, offset : Nat]
PagesOK(p) ==
  /\ p \in Seq(Page)
  /\ \A i \in 1..Len(p) : p[i].offset <= p[i].room /\ p[i].room >= AST_POOL_PGSIZE
  /\ p # <<>> => p[1].offset <= AST_POOL_PGSIZE

LEMMA NewPageOK ==
  ASSUME NEW size \in Nat
  PROVE  /\ NewPage(size) \in Page /\ NewPage(size).offset = size
         /\ NewPage(size).offset <= NewPage(size).room /\ NewPage(size).room >= AST_POOL_PGSIZE
BY PageAssumption DEF NewPage, Page

\* The first allocation of all must be a small one.
LEMMA AllocatedOK ==
  ASSUME NEW p, PagesOK(p), NEW size \in Nat, p = <<>> => size <= AST_POOL_PGSIZE
  PROVE  PagesOK(Allocated(p, size)) /\ Allocated(p, size) # <<>>
<1>1. /\ p \in Seq(Page)
      /\ \A i \in 1..Len(p) : p[i].offset <= p[i].room /\ p[i].room >= AST_POOL_PGSIZE
      /\ p # <<>> => p[1].offset <= AST_POOL_PGSIZE
      /\ AST_POOL_PGSIZE \in Nat
  BY PageAssumption DEF PagesOK
<1> DEFINE new == NewPage(size)
<1>2. /\ new \in Page /\ new.offset = size
      /\ new.offset <= new.room /\ new.room >= AST_POOL_PGSIZE
  BY NewPageOK
<1> HIDE DEF new
<1>3. CASE p # <<>> /\ Fits(Head(p), size)
  <2> DEFINE head == [p[1] EXCEPT !.offset = @ + size]
  <2>1. Head(p) = p[1] /\ 1 \in 1..Len(p) /\ p[1] \in Page
    BY <1>1, <1>3
  <2>2. p[1].offset \in Nat /\ p[1].room \in Nat
    BY <2>1 DEF Page
  <2>3. p[1].offset + size <= AST_POOL_PGSIZE
    BY <2>1, <2>2, <1>1, <1>3 DEF Fits
  <2>4. /\ head \in Page /\ head.offset = p[1].offset + size /\ head.room = p[1].room
    BY <2>1, <2>2 DEF Page
  <2> DEFINE r == <<head>> \o Tail(p)
  <2>5. Allocated(p, size) = r
    BY <1>3, <2>1 DEF Allocated
  <2> HIDE DEF head
  <2>6. Tail(p) \in Seq(Page) /\ Len(Tail(p)) = Len(p) - 1 /\ Len(p) \in Nat
        /\ \A i \in 1..(Len(p) - 1) : Tail(p)[i] = p[i + 1]
    BY <1>1, <1>3, TailFunction
  <2>7. r \in Seq(Page) /\ Len(r) = Len(p) /\ r[1] = head
        /\ \A i \in 2..Len(p) : r[i] = p[i]
    BY <2>4, <2>6, <2>1
  <2> HIDE DEF r
  <2>8. ASSUME NEW i \in 1..Len(r)
        PROVE  r[i].offset <= r[i].room /\ r[i].room >= AST_POOL_PGSIZE
    <3>1. CASE i = 1
      BY <3>1, <2>7, <2>4, <2>3, <2>2, <1>1, <2>1
    <3>2. CASE i # 1
      BY <3>2, <2>7, <1>1, <2>6
    <3> QED BY <3>1, <3>2
  <2> QED BY <2>5, <2>7, <2>8, <2>4, <2>3, <2>1 DEF PagesOK
<1>4. CASE ~(p # <<>> /\ Fits(Head(p), size)) /\ p # <<>> /\ size > AST_POOL_PGSIZE
  <2> DEFINE r == <<p[1], new>> \o Tail(p)
  <2>1. Head(p) = p[1] /\ 1 \in 1..Len(p) /\ p[1] \in Page
    BY <1>1, <1>4
  <2>2. Allocated(p, size) = r
    BY <1>4, <2>1 DEF Allocated, new
  <2>3. Tail(p) \in Seq(Page) /\ Len(Tail(p)) = Len(p) - 1 /\ Len(p) \in Nat
        /\ \A i \in 1..(Len(p) - 1) : Tail(p)[i] = p[i + 1]
    BY <1>1, <1>4, TailFunction
  <2>4. r \in Seq(Page) /\ Len(r) = Len(p) + 1 /\ r[1] = p[1] /\ r[2] = new
        /\ \A i \in 3..(Len(p) + 1) : r[i] = p[i - 1]
    <3>1. <<p[1], new>> \in Seq(Page)
      BY <2>1, <1>2
    <3> QED BY <3>1, <2>3
  <2> HIDE DEF r
  <2>5. ASSUME NEW i \in 1..Len(r)
        PROVE  r[i].offset <= r[i].room /\ r[i].room >= AST_POOL_PGSIZE
    <3>1. CASE i = 1
      BY <3>1, <2>4, <2>1, <1>1
    <3>2. CASE i = 2
      BY <3>2, <2>4, <1>2
    <3>3. CASE i # 1 /\ i # 2
      <4>1. i \in 3..(Len(p) + 1) /\ i - 1 \in 1..Len(p)
        BY <3>3, <2>4, <2>3
      <4> QED BY <4>1, <2>4, <1>1
    <3> QED BY <3>1, <3>2, <3>3
  <2>6. r # <<>> /\ r[1].offset <= AST_POOL_PGSIZE
    BY <2>4, <2>3, <1>1, <1>4
  <2> QED BY <2>2, <2>4, <2>5, <2>6 DEF PagesOK
<1>5. CASE ~(p # <<>> /\ Fits(Head(p), size)) /\ ~(p # <<>> /\ size > AST_POOL_PGSIZE)
  <2> DEFINE r == <<new>> \o p
  <2>1. Allocated(p, size) = r
    BY <1>5 DEF Allocated, new
  <2>2. size <= AST_POOL_PGSIZE
    BY <1>5, <1>1
  <2>3. r \in Seq(Page) /\ Len(r) = Len(p) + 1 /\ r[1] = new /\ Len(p) \in Nat
        /\ \A i \in 2..(Len(p) + 1) : r[i] = p[i - 1]
    BY <1>1, <1>2
  <2> HIDE DEF r
  <2>4. ASSUME NEW i \in 1..Len(r)
        PROVE  r[i].offset <= r[i].room /\ r[i].room >= AST_POOL_PGSIZE
    <3>1. CASE i = 1
      BY <3>1, <2>3, <1>2
    <3>2. CASE i # 1
      <4>1. i \in 2..(Len(p) + 1) /\ i - 1 \in 1..Len(p)
        BY <3>2, <2>3
      <4> QED BY <4>1, <2>3, <1>1
    <3> QED BY <3>1, <3>2
  <2>5. r # <<>> /\ r[1].offset <= AST_POOL_PGSIZE
    BY <2>3, <2>2, <1>2
  <2> QED BY <2>1, <2>3, <2>4, <2>5 DEF PagesOK
<1> QED BY <1>3, <1>4, <1>5

LEMMA AllocatedAllOK ==
  ASSUME NEW p, PagesOK(p), NEW sizes \in Seq(Nat),
         sizes # <<>> => sizes[1] <= AST_POOL_PGSIZE
  PROVE  PagesOK(AllocatedAll(p, sizes))
<1> DEFINE N == Len(sizes)
<1> DEFINE R == {q \in Seq(Page) : PagesOK(q)}
<1> DEFINE may(q, i) == q = <<>> => sizes[i] <= AST_POOL_PGSIZE
<1> DEFINE F == [x \in (1..N) \X R |-> IF may(x[2], x[1]) THEN Allocated(x[2], sizes[x[1]]) ELSE <<>>]
<1> DEFINE Body(f) == [i \in 0..N |-> IF i = 0 THEN p ELSE Allocated(f[i - 1], sizes[i])]
<1> DEFINE after == CHOOSE f : f = Body(f)
<1>0. AllocatedAll(p, sizes) = after[N]
  BY DEF AllocatedAll
<1>1. N \in Nat /\ p \in R /\ \A i \in 1..N : sizes[i] \in Nat
  BY DEF PagesOK
<1>2. PagesOK(<<>>)
  BY DEF PagesOK
<1>3. \A i \in 1..N, q \in R : may(q, i) =>
         Allocated(q, sizes[i]) \in R /\ Allocated(q, sizes[i]) # <<>>
  <2> SUFFICES ASSUME NEW i \in 1..N, NEW q \in R, may(q, i)
               PROVE  Allocated(q, sizes[i]) \in R /\ Allocated(q, sizes[i]) # <<>>
    OBVIOUS
  <2>1. PagesOK(Allocated(q, sizes[i])) /\ Allocated(q, sizes[i]) # <<>>
    BY <1>1, AllocatedOK
  <2> QED BY <2>1 DEF PagesOK
<1>4. F \in [(1..N) \X R -> R]
  <2> SUFFICES ASSUME NEW i \in 1..N, NEW q \in R
               PROVE  (IF may(q, i) THEN Allocated(q, sizes[i]) ELSE <<>>) \in R
    OBVIOUS
  <2>1. <<>> \in R
    BY <1>2
  <2> HIDE DEF R, may
  <2> QED BY <1>3, <2>1
<1>5. PICK g : StepIteration(R, F, p, N, g)
  <2> HIDE DEF F, R, N
  <2> QED BY <1>1, <1>4, StepIterates
<1>6. g \in [0..N -> R] /\ g[0] = p /\ \A i \in 1..N : g[i] = F[<<i, g[i - 1]>>]
  BY <1>5 DEF StepIteration
<1> HIDE DEF R
<1>7. \A i \in 1..N : i - 1 \in 0..N /\ g[i - 1] \in R
  <2>1. \A i \in 1..N : i - 1 \in 0..N
    BY <1>1
  <2> HIDE DEF N, F
  <2> QED BY ONLY <2>1, <1>6
<1>8. \A i \in 1..N : may(g[i - 1], i) => g[i] = Allocated(g[i - 1], sizes[i])
  <2> TAKE i \in 1..N
  <2>1. F[<<i, g[i - 1]>>] = IF may(g[i - 1], i) THEN Allocated(g[i - 1], sizes[i]) ELSE <<>>
    <3> HIDE DEF may, N
    <3> QED BY <1>7
  <2> HIDE DEF F, may, N
  <2> QED BY <2>1, <1>6
<1> HIDE DEF F
<1>9. \A i \in 1..N : may(g[i - 1], i)
  <2> DEFINE Wrong == {i \in 1..N : ~may(g[i - 1], i)}
  <2> SUFFICES ASSUME Wrong # {} PROVE FALSE
    OBVIOUS
  <2>1. PICK i \in Wrong : \A m \in Wrong : ~(m < i)
    <3>1. Wrong \in SUBSET Nat
      BY <1>1
    <3> HIDE DEF Wrong
    <3> QED BY <3>1, LeastNatural
  <2>2. i # 1
    <3>1. sizes # <<>>
      BY <1>1
    <3> QED BY <3>1
  <2>3. i - 1 \in 1..N /\ i - 1 < i /\ i \in 1..N
    BY <2>2, <1>1
  <2>4. may(g[i - 1 - 1], i - 1)
    BY <2>1, <2>3
  <2> HIDE DEF may, Wrong
  <2>5. g[i - 1] = Allocated(g[i - 1 - 1], sizes[i - 1]) /\ g[i - 1 - 1] \in R
    BY <2>3, <2>4, <1>8, <1>7
  <2>6. g[i - 1] # <<>>
    BY <2>3, <2>4, <2>5, <1>3
  <2> QED BY <2>1, <2>6 DEF may, Wrong
<1>10. g = Body(g)
  <2>1. ASSUME NEW i \in 0..N PROVE g[i] = IF i = 0 THEN p ELSE Allocated(g[i - 1], sizes[i])
    <3>1. i # 0 => i \in 1..N
      BY <1>1
    <3> HIDE DEF N, may
    <3> QED BY <3>1, <1>6, <1>8, <1>9
  <2>2. g = [i \in 0..N |-> g[i]]
    BY <1>6
  <2> QED BY ONLY <2>1, <2>2
<1>11. after = Body(after)
  <2> HIDE DEF Body
  <2> QED BY <1>10
<1> HIDE DEF after
<1>12. after = [i \in 0..N |-> after[i]] /\ \A i \in 0..N : after[i] = IF i = 0 THEN p ELSE Allocated(after[i - 1], sizes[i])
  <2> DEFINE B == Body(after)
  <2>1. B = [i \in 0..N |-> B[i]]
        /\ \A i \in 0..N : B[i] = IF i = 0 THEN p ELSE Allocated(after[i - 1], sizes[i])
    OBVIOUS
  <2>2. after = B
    BY ONLY <1>11
  <2> HIDE DEF B
  <2> QED BY ONLY <2>1, <2>2
<1> DEFINE Q == {q \in R : q # <<>>}
<1>13. \A i \in 1..N : after[i - 1] \in R /\ may(after[i - 1], i) =>
          after[i] \in R /\ after[i] # <<>>
  <2> TAKE i \in 1..N
  <2>1. after[i] = Allocated(after[i - 1], sizes[i])
    <3>1. i \in 0..N /\ i # 0
      BY <1>1
    <3> QED BY <3>1, <1>12
  <2> HIDE DEF may
  <2> QED BY <2>1, <1>3
<1> DEFINE Bad == {i \in 0..N : ~(after[i] \in R /\ (i # 0 => after[i] # <<>>))}
<1>14. Bad = {}
  <2> SUFFICES ASSUME Bad # {} PROVE FALSE
    OBVIOUS
  <2>1. PICK i \in Bad : \A m \in Bad : ~(m < i)
    <3>1. Bad \in SUBSET Nat
      BY <1>1
    <3> HIDE DEF Bad
    <3> QED BY <3>1, LeastNatural
  <2>2. i # 0
    BY <2>1, <1>1, <1>12
  <2>3. i \in 1..N /\ i - 1 \in 0..N /\ i - 1 < i
    BY <2>2, <2>1, <1>1
  <2>4. after[i - 1] \in R /\ (i - 1 # 0 => after[i - 1] # <<>>)
    BY <2>1, <2>3
  <2>5. may(after[i - 1], i)
    <3>1. i = 1 => sizes # <<>>
      BY <1>1, <2>3
    <3>2. i # 1 => i - 1 # 0
      BY <2>3
    <3> QED BY <3>1, <3>2, <2>4
  <2>6. after[i] \in R /\ after[i] # <<>>
    BY <2>3, <2>4, <2>5, <1>13
  <2> QED BY <2>1, <2>6
<1>15. after[N] \in R
  BY <1>14, <1>1
<1> QED BY <1>15, <1>0 DEF R

----------------------------------------------------------------------------
(***************************************************************************)
(* The scanner                                                             *)
(***************************************************************************)
LEMMA LevelIsNat ==
  ASSUME NEW blanks, Len(blanks) \in Nat
  PROVE  Level(blanks) \in Nat
<1> DEFINE N == Len(blanks)
<1> DEFINE size == SUBPY_INDENT_SIZE
<1> DEFINE F == [x \in (1..N) \X Nat |->
                   IF blanks[x[1]] = "tab" THEN (x[2] \div size + 1) * size ELSE x[2] + 1]
<1> DEFINE Body(f) == [i \in 0..N |->
                         IF i = 0 THEN 0
                         ELSE IF blanks[i] = "tab" THEN (f[i - 1] \div size + 1) * size
                              ELSE f[i - 1] + 1]
<1> DEFINE column == CHOOSE f : f = Body(f)
<1>1. Level(blanks) = column[N]
  BY DEF Level
<1>2. \A n \in Nat : (n \div size + 1) * size \in Nat
  BY DEF SUBPY_INDENT_SIZE
<1> HIDE DEF size
<1>3. N \in Nat /\ F \in [(1..N) \X Nat -> Nat]
  <2>1. ASSUME NEW x \in (1..N) \X Nat
        PROVE  (IF blanks[x[1]] = "tab" THEN (x[2] \div size + 1) * size ELSE x[2] + 1) \in Nat
    <3>1. x[2] \in Nat
      OBVIOUS
    <3>2. (x[2] \div size + 1) * size \in Nat
      BY ONLY <3>1, <1>2
    <3>3. x[2] + 1 \in Nat
      BY ONLY <3>1
    <3> QED BY ONLY <3>2, <3>3
  <2>2. N \in Nat
    OBVIOUS
  <2> HIDE DEF N
  <2>3. F \in [(1..N) \X Nat -> Nat]
    BY ONLY <2>1
  <2> QED BY <2>2, <2>3
<1>4. PICK g : StepIteration(Nat, F, 0, N, g)
  <2> HIDE DEF F, N
  <2> QED BY <1>3, StepIterates
<1>5. g \in [0..N -> Nat] /\ g[0] = 0 /\ \A i \in 1..N : g[i] = F[<<i, g[i - 1]>>]
  BY <1>4 DEF StepIteration
<1>6. g = Body(g)
  <2>1. ASSUME NEW i \in 0..N
        PROVE  g[i] = IF i = 0 THEN 0
                      ELSE IF blanks[i] = "tab" THEN (g[i - 1] \div size + 1) * size
                           ELSE g[i - 1] + 1
    <3>1. CASE i = 0
      BY <3>1, <1>5
    <3>2. CASE i # 0
      <4>1. i \in 1..N /\ i - 1 \in 0..N
        BY <3>2, <1>3
      <4>2. g[i - 1] \in Nat
        BY <4>1, <1>5
      <4> HIDE DEF N
      <4>3. F[<<i, g[i - 1]>>] = IF blanks[i] = "tab" THEN (g[i - 1] \div size + 1) * size
                                 ELSE g[i - 1] + 1
        BY <4>1, <4>2
      <4> HIDE DEF F
      <4> QED BY <4>1, <4>3, <3>2, <1>5
    <3> QED BY <3>1, <3>2
  <2>2. g = [i \in 0..N |-> g[i]]
    BY <1>5
  <2> QED BY ONLY <2>1, <2>2
<1>7. column = Body(column)
  <2> HIDE DEF Body
  <2> QED BY <1>6
<1> HIDE DEF column
<1>8. /\ column = [i \in 0..N |-> column[i]]
      /\ \A i \in 0..N : column[i] = IF i = 0 THEN 0
                                     ELSE IF blanks[i] = "tab"
                                          THEN (column[i - 1] \div size + 1) * size
                                          ELSE column[i - 1] + 1
  <2> DEFINE B == Body(column)
  <2>1. /\ B = [i \in 0..N |-> B[i]]
        /\ \A i \in 0..N : B[i] = IF i = 0 THEN 0
                                  ELSE IF blanks[i] = "tab"
                                       THEN (column[i - 1] \div size + 1) * size
                                       ELSE column[i - 1] + 1
    OBVIOUS
  <2>2. column = B
    BY ONLY <1>7
  <2> HIDE DEF B
  <2> QED BY ONLY <2>1, <2>2
<1>9. column[0] \in Nat
  <2>1. 0 \in 0..N
    BY <1>3
  <2>2. column[0] = 0
    BY ONLY <2>1, <1>8
  <2> QED BY ONLY <2>2
<1>10. \A i \in 1..N : column[i - 1] \in Nat => column[i] \in Nat
  <2> TAKE i \in 1..N
  <2>1. i \in 0..N /\ i # 0
    BY <1>3
  <2> QED BY <2>1, <1>2, <1>8
<1>11. column \in [0..N -> Nat]
  <2> HIDE DEF N
  <2> QED BY <1>3, <1>8, <1>9, <1>10, StepsStay
<1> QED BY <1>1, <1>3, <1>11

LEMMA RepeatedSeq ==
  ASSUME NEW S, NEW e \in S, NEW n \in Nat
  PROVE  [i \in 1..n |-> e] \in Seq(S) /\ Len([i \in 1..n |-> e]) = n
OBVIOUS

LEMMA SingleSeq ==
  ASSUME NEW S, NEW e \in S
  PROVE  <<e>> \in Seq(S) /\ Len(<<e>>) = 1
OBVIOUS

\* The open levels grow from 0.
Growing(levels) ==
  /\ levels \in Seq(Nat) /\ Len(levels) >= 1 /\ levels[1] = 0
  /\ \A i \in 2..Len(levels) : levels[i - 1] < levels[i]

\* The number of levels that are not above level is there.
LEMMA KeptProperties ==
  ASSUME NEW levels, Growing(levels), NEW level \in Nat, NEW k, k = Kept(levels, level)
  PROVE  /\ k \in 1..Len(levels) /\ levels[k] <= level
         /\ k < Len(levels) => levels[Len(levels)] > level
<1>1. /\ levels \in Seq(Nat) /\ Len(levels) \in Nat /\ Len(levels) >= 1 /\ levels[1] = 0
      /\ DOMAIN levels = 1..Len(levels) /\ \A i \in 1..Len(levels) : levels[i] \in Nat
  BY DEF Growing
<1> DEFINE D == {d \in 0..(Len(levels) - 1) : levels[Len(levels) - d] <= level}
<1>2. PICK d \in D : \A m \in D : ~(m < d)
  <2>1. D \in SUBSET Nat
    BY <1>1
  <2>2. Len(levels) - 1 \in D
    <3>1. Len(levels) - 1 \in 0..(Len(levels) - 1) /\ Len(levels) - (Len(levels) - 1) = 1
      BY ONLY <1>1
    <3> QED BY <3>1, <1>1
  <2> HIDE DEF D
  <2> QED BY <2>1, <2>2, LeastNatural
<1> DEFINE n == Len(levels) - d
<1>3. n \in 1..Len(levels) /\ levels[n] <= level
  BY <1>1, <1>2
<1>4. \A i \in 1..Len(levels) : i > n => levels[i] > level
  <2> TAKE i \in 1..Len(levels)
  <2> HAVE i > n
  <2>1. Len(levels) - i \in 0..(Len(levels) - 1) /\ Len(levels) - i < d
        /\ Len(levels) - (Len(levels) - i) = i
    BY ONLY <1>1, i \in 1..Len(levels), i > n, d \in D
  <2>2. ~(levels[i] <= level)
    BY <2>1, <1>2
  <2> QED BY <2>2, <1>1
<1> HIDE DEF n, D
<1>5. \E m \in DOMAIN levels : levels[m] <= level /\ \A i \in DOMAIN levels : i > m => levels[i] > level
  BY <1>3, <1>4, <1>1
<1>6. k \in DOMAIN levels /\ levels[k] <= level /\ \A i \in DOMAIN levels : i > k => levels[i] > level
  BY <1>5 DEF Kept
<1> QED BY <1>6, <1>1

BlockTokens == {"INDENT", "DEDENT", "LINE_END", "INPUT_END"}

\* What the scanner keeps of its stack and its queue.
IndentOK(levels, queue, stopped) ==
  /\ Growing(levels) /\ Len(levels) <= INDENT_STACK_MAX
  /\ queue.tokens \in Seq(BlockTokens) /\ queue.pos \in Nat
  /\ queue.pos <= Len(queue.tokens) /\ Len(queue.tokens) < TOKEN_QUEUE_MAX
  /\ queue = [tokens |-> queue.tokens, pos |-> queue.pos]
  /\ stopped => Len(levels) = INDENT_STACK_MAX

LEMMA EmptyQueueOK ==
  /\ EmptyQueue.tokens = <<>> /\ EmptyQueue.pos = 0 /\ Len(EmptyQueue.tokens) = 0
  /\ EmptyQueue = [tokens |-> EmptyQueue.tokens, pos |-> EmptyQueue.pos]
  /\ EmptyQueue.tokens \in Seq(BlockTokens) /\ 0 < TOKEN_QUEUE_MAX
BY RoomAssumption DEF EmptyQueue

\* A drained queue can be restarted.
LEMMA RestartedOK ==
  ASSUME NEW levels, NEW queue, NEW stopped, IndentOK(levels, queue, stopped)
  PROVE  IndentOK(levels, Restarted(queue), stopped)
<1>1. CASE Restarted(queue) = queue
  BY <1>1
<1>2. CASE Restarted(queue) = EmptyQueue
  <2>1. IndentOK(levels, EmptyQueue, stopped)
    BY EmptyQueueOK DEF IndentOK
  <2> QED BY <2>1, <1>2
<1> QED BY <1>1, <1>2 DEF Restarted

LEMMA CheckIndentOK ==
  ASSUME IndentOK(indent_stack, token_queue, aborted), ~aborted, aborted \in BOOLEAN, Drained,
         NEW level \in Nat, NEW more \in Seq(BlockTokens), Len(more) <= 1,
         more = <<>> \/ level = 0, CheckIndent(level, more)
  PROVE  /\ IndentOK(indent_stack', token_queue', aborted') /\ aborted' \in BOOLEAN
         /\ token' \in {token, NoToken, Mark("INDENT_ERROR")}
<1>1. /\ Growing(indent_stack) /\ Len(indent_stack) <= INDENT_STACK_MAX
      /\ token_queue.pos = Len(token_queue.tokens)
  BY DEF IndentOK, Drained
<1>2. /\ indent_stack \in Seq(Nat) /\ Len(indent_stack) \in Nat /\ Len(indent_stack) >= 1
      /\ indent_stack[1] = 0 /\ \A i \in 1..Len(indent_stack) : indent_stack[i] \in Nat
      /\ \A i \in 2..Len(indent_stack) : indent_stack[i - 1] < indent_stack[i]
  BY <1>1 DEF Growing
<1>3. INDENT_STACK_MAX \in Nat /\ TOKEN_QUEUE_MAX \in Nat
      /\ INDENT_STACK_MAX >= 1 /\ INDENT_STACK_MAX <= TOKEN_QUEUE_MAX
  BY RoomAssumption
<1> DEFINE N == Len(indent_stack)
<1> DEFINE deeper == indent_stack[N] < level
<1> DEFINE kept == Kept(indent_stack, level)
<1> DEFINE levels == IF deeper THEN Append(indent_stack, level) ELSE SubSeq(indent_stack, 1, kept)
<1> DEFINE fits == levels[Len(levels)] = level
<1> DEFINE dedents == [i \in 1..(N - kept) |-> "DEDENT"]
<1> DEFINE pushed == (IF deeper THEN <<"INDENT">> ELSE dedents) \o (IF fits THEN more ELSE <<>>)
<1> DEFINE queue == [Restarted(token_queue) EXCEPT !.tokens = @ \o pushed]
<1>4. IF Len(levels) > INDENT_STACK_MAX \/ Len(queue.tokens) >= TOKEN_QUEUE_MAX
      THEN aborted' = TRUE /\ UNCHANGED <<indent_stack, token_queue, token>>
      ELSE /\ indent_stack' = levels
           /\ token_queue' = queue
           /\ token' = IF fits THEN NoToken ELSE Mark("INDENT_ERROR")
           /\ UNCHANGED aborted
  BY DEF CheckIndent, Last
<1>5. kept \in 1..N /\ indent_stack[kept] <= level /\ kept \in Nat
  BY <1>1, KeptProperties
<1>6. Growing(levels) /\ Len(levels) = IF deeper THEN N + 1 ELSE kept
  <2>1. CASE deeper
    <3> DEFINE l == Append(indent_stack, level)
    <3>1. /\ l \in Seq(Nat) /\ Len(l) = N + 1
          /\ \A i \in 1..(N + 1) : l[i] = IF i = N + 1 THEN level ELSE indent_stack[i]
      BY <1>2, AppendFunction
    <3> HIDE DEF l
    <3>2. l[1] = 0 /\ Len(l) >= 1
      BY <3>1, <1>2
    <3>3. ASSUME NEW i \in 2..Len(l) PROVE l[i - 1] < l[i]
      <4>1. CASE i = N + 1
        <5>1. i \in 1..(N + 1) /\ i - 1 \in 1..(N + 1) /\ i - 1 = N /\ i - 1 # N + 1
          BY ONLY <4>1, <1>2
        <5> QED BY <5>1, <4>1, <3>1, <2>1
      <4>2. CASE i # N + 1
        <5>1. i \in 1..(N + 1) /\ i - 1 \in 1..(N + 1) /\ i - 1 # N + 1 /\ i \in 2..N
          BY ONLY <4>2, <1>2, <3>1, i \in 2..Len(l)
        <5> QED BY <5>1, <4>2, <3>1, <1>2
      <4> QED BY <4>1, <4>2
    <3>4. Growing(l)
      BY <3>1, <3>2, <3>3 DEF Growing
    <3> QED BY <2>1, <3>1, <3>4 DEF l
  <2>2. CASE ~deeper
    <3> DEFINE l == SubSeq(indent_stack, 1, kept)
    <3>1. l \in Seq(Nat) /\ Len(l) = kept /\ \A i \in 1..kept : l[i] = indent_stack[i]
      <4> HIDE DEF kept
      <4> QED BY <1>2, <1>5
    <3> HIDE DEF l, kept
    <3>2. \A i \in 2..Len(l) : i - 1 \in 1..kept /\ i \in 1..kept /\ i \in 2..N
      BY <3>1, <1>5, <1>2
    <3>3. ASSUME NEW i \in 2..Len(l) PROVE l[i - 1] < l[i]
      BY ONLY <3>1, <3>2, <1>2
    <3>4. l[1] = 0 /\ Len(l) >= 1
      BY ONLY <3>1, <1>2, <1>5
    <3>5. Growing(l)
      BY ONLY <3>1, <3>3, <3>4 DEF Growing
    <3> QED BY <2>2, <3>1, <3>5 DEF l, kept
  <2> QED BY <2>1, <2>2
<1>7. dedents \in Seq(BlockTokens) /\ Len(dedents) = N - kept
  <2> DEFINE n == N - kept
  <2>1. n \in Nat
    BY ONLY <1>2, <1>5
  <2> HIDE DEF n
  <2>2. [i \in 1..n |-> "DEDENT"] \in Seq(BlockTokens) /\ Len([i \in 1..n |-> "DEDENT"]) = n
    <3>1. "DEDENT" \in BlockTokens
      BY DEF BlockTokens
    <3> QED BY ONLY <2>1, <3>1, RepeatedSeq
  <2> QED BY <2>2 DEF n
<1> HIDE DEF kept, dedents, levels
<1>8. pushed \in Seq(BlockTokens) /\ Len(pushed) \in Nat
      /\ Len(pushed) = (IF deeper THEN 1 ELSE N - kept) + (IF fits THEN Len(more) ELSE 0)
  <2> DEFINE a == IF deeper THEN <<"INDENT">> ELSE dedents
  <2> DEFINE b == IF fits THEN more ELSE <<>>
  <2>1. a \in Seq(BlockTokens) /\ Len(a) = IF deeper THEN 1 ELSE N - kept
    <3>1. <<"INDENT">> \in Seq(BlockTokens) /\ Len(<<"INDENT">>) = 1
      <4>1. "INDENT" \in BlockTokens
        BY DEF BlockTokens
      <4> QED BY ONLY <4>1, SingleSeq
    <3> QED BY ONLY <3>1, <1>7
  <2>2. b \in Seq(BlockTokens) /\ Len(b) = IF fits THEN Len(more) ELSE 0
    <3>1. CASE fits
      BY <3>1
    <3>2. CASE ~fits
      <4>1. b = <<>>
        BY <3>2
      <4> QED BY ONLY <4>1, <3>2, EmptySeq
    <3> QED BY ONLY <3>1, <3>2
  <2> HIDE DEF a, b
  <2>3. a \o b \in Seq(BlockTokens) /\ Len(a \o b) = Len(a) + Len(b) /\ Len(a \o b) \in Nat
    <3>1. a \in Seq(BlockTokens) /\ b \in Seq(BlockTokens)
      BY ONLY <2>1, <2>2
    <3> QED BY ONLY <3>1
  <2>4. pushed = a \o b
    BY DEF a, b
  <2> HIDE DEF pushed, deeper, fits
  <2> QED BY <2>1, <2>2, <2>3, <2>4
<1> HIDE DEF pushed, fits
<1>9. queue.tokens = pushed /\ queue.pos = 0 /\ queue = [tokens |-> queue.tokens, pos |-> queue.pos]
  <2>1. Restarted(token_queue) = EmptyQueue
    BY <1>1 DEF Restarted
  <2>2. <<>> \o pushed = pushed
    BY <1>8
  <2> QED BY <2>1, <2>2 DEF EmptyQueue
<1> HIDE DEF queue
<1>10. CASE Len(levels) > INDENT_STACK_MAX \/ Len(queue.tokens) >= TOKEN_QUEUE_MAX
  <2>1. N = INDENT_STACK_MAX
    <3>1. CASE deeper
      <4>1. level # 0
        <5>1. indent_stack[N] \in Nat
          BY <1>2
        <5> QED BY <5>1, <3>1
      <4>2. Len(more) = 0
        BY <4>1
      <4> HIDE DEF deeper
      <4> QED BY ONLY <4>2, <3>1, <1>10, <1>9, <1>8, <1>6, <1>2, <1>3, <1>1
    <3>2. CASE ~deeper
      <4> HIDE DEF deeper
      <4>1. Len(more) \in Nat
        OBVIOUS
      <4> QED BY ONLY <4>1, <3>2, <1>10, <1>9, <1>8, <1>6, <1>5, <1>2, <1>3, <1>1, Len(more) <= 1
    <3> QED BY <3>1, <3>2
  <2>2. aborted' = TRUE /\ UNCHANGED <<indent_stack, token_queue, token>>
    BY <1>10, <1>4
  <2> QED BY <2>1, <2>2 DEF IndentOK
<1>11. CASE ~(Len(levels) > INDENT_STACK_MAX \/ Len(queue.tokens) >= TOKEN_QUEUE_MAX)
  <2>1. /\ indent_stack' = levels /\ token_queue' = queue /\ aborted' = aborted
        /\ token' = IF fits THEN NoToken ELSE Mark("INDENT_ERROR")
    BY <1>11, <1>4
  <2>2. Len(levels) <= INDENT_STACK_MAX /\ Len(queue.tokens) < TOKEN_QUEUE_MAX
    <3>1. Len(levels) \in Nat /\ Len(queue.tokens) \in Nat
      BY <1>6, <1>8, <1>9 DEF Growing
    <3> QED BY <3>1, <1>11, <1>3
  <2>3. IndentOK(levels, queue, aborted)
    BY <2>2, <1>6, <1>8, <1>9 DEF IndentOK
  <2> QED BY <2>1, <2>3
<1> QED BY <1>10, <1>11

----------------------------------------------------------------------------
(***************************************************************************)
(* The grammar                                                             *)
(***************************************************************************)
\* The tokens whose text the parser copies.
Texts == {"IDENT", "STRING"}

\* A right side with something in it, but none of these.
Clean(right) == \A i \in 1..Len(right) : right[i] \notin Texts
Plain(right) == Listed(right) /\ right # <<>> /\ Clean(right)

LEMMA EmptyListed == Listed(<<>>)
<1>1. <<>> \in Seq({})
  OBVIOUS
<1> QED BY <1>1 DEF Listed

LEMMA PlainTuples ==
  /\ \A a : Listed(<<a>>) /\ <<a>> # <<>>
  /\ \A a, b : Listed(<<a, b>>)
  /\ \A a, b, c : Listed(<<a, b, c>>)
  /\ \A a : a \notin Texts => Plain(<<a>>)
  /\ \A a, b : a \notin Texts /\ b \notin Texts => Plain(<<a, b>>)
  /\ \A a, b, c : a \notin Texts /\ b \notin Texts /\ c \notin Texts => Plain(<<a, b, c>>)
  /\ \A a, b, c, d :
       a \notin Texts /\ b \notin Texts /\ c \notin Texts /\ d \notin Texts =>
         Plain(<<a, b, c, d>>)
  /\ \A a, b, c, d, e :
       a \notin Texts /\ b \notin Texts /\ c \notin Texts /\ d \notin Texts /\ e \notin Texts =>
         Plain(<<a, b, c, d, e>>)
<1>1. ASSUME NEW a
      PROVE  Listed(<<a>>) /\ <<a>> # <<>> /\ (a \notin Texts => Plain(<<a>>))
  <2>1. <<a>> \in Seq({a})
    OBVIOUS
  <2>2. Listed(<<a>>) /\ <<a>> # <<>>
    BY <2>1 DEF Listed
  <2> QED BY <2>2 DEF Plain, Clean
<1>2. ASSUME NEW a, NEW b
      PROVE  Listed(<<a, b>>) /\ (a \notin Texts /\ b \notin Texts => Plain(<<a, b>>))
  <2>1. <<a, b>> \in Seq({a, b})
    OBVIOUS
  <2>2. Listed(<<a, b>>)
    BY <2>1 DEF Listed
  <2> QED BY <2>2 DEF Plain, Clean
<1>3. ASSUME NEW a, NEW b, NEW c
      PROVE  /\ Listed(<<a, b, c>>)
             /\ a \notin Texts /\ b \notin Texts /\ c \notin Texts => Plain(<<a, b, c>>)
  <2>1. <<a, b, c>> \in Seq({a, b, c})
    OBVIOUS
  <2>2. Listed(<<a, b, c>>)
    BY <2>1 DEF Listed
  <2> QED BY <2>2 DEF Plain, Clean
<1>4. ASSUME NEW a, NEW b, NEW c, NEW d,
             a \notin Texts /\ b \notin Texts /\ c \notin Texts /\ d \notin Texts
      PROVE  Plain(<<a, b, c, d>>)
  <2>1. <<a, b, c, d>> \in Seq({a, b, c, d})
    OBVIOUS
  <2>2. Listed(<<a, b, c, d>>)
    BY <2>1 DEF Listed
  <2> QED BY <1>4, <2>2 DEF Plain, Clean
<1>5. ASSUME NEW a, NEW b, NEW c, NEW d, NEW e,
             a \notin Texts /\ b \notin Texts /\ c \notin Texts /\ d \notin Texts /\ e \notin Texts
      PROVE  Plain(<<a, b, c, d, e>>)
  <2>1. <<a, b, c, d, e>> \in Seq({a, b, c, d, e})
    OBVIOUS
  <2>2. Listed(<<a, b, c, d, e>>)
    BY <2>1 DEF Listed
  <2> QED BY <1>5, <2>2 DEF Plain, Clean
<1> QED BY <1>1, <1>2, <1>3, <1>4, <1>5

\* Only the rules for the whole input end the parse, a literal has a token to take
\* its text from, and a token whose text is copied is the whole of its rule.
RuleOK(rule) ==
  /\ Listed(rule.right) /\ Listed(rule.action.parts)
  /\ rule.left \notin Texts
  /\ rule.left = "input" => rule.action.do \in {"accept", "quit"}
  /\ Textual(rule.action) => rule.right # <<>>
  /\ IF Copies(rule.action) THEN \E t \in Texts : rule.right = <<t>> ELSE Clean(rule.right)

PlainRule(rule) == RuleOK(rule) /\ ~Copies(rule.action)

GoodRules(rules) == \E S : rules \in Seq(S) /\ \A rule \in S : RuleOK(rule)
PlainRules(rules) == \E S : rules \in Seq(S) /\ \A rule \in S : PlainRule(rule)

LEMMA RulesConcat ==
  ASSUME NEW s, NEW t
  PROVE  /\ GoodRules(s) /\ GoodRules(t) => GoodRules(s \o t)
         /\ PlainRules(s) /\ PlainRules(t) => PlainRules(s \o t)
         /\ PlainRules(s) => GoodRules(s)
<1>1. ASSUME NEW S, NEW T, s \in Seq(S), t \in Seq(T)
      PROVE  s \o t \in Seq(S \cup T)
  <2>1. s \in Seq(S \cup T) /\ t \in Seq(S \cup T)
    BY <1>1
  <2> QED BY <2>1
<1>2. ASSUME GoodRules(s), GoodRules(t) PROVE GoodRules(s \o t)
  <2>1. PICK S : s \in Seq(S) /\ \A rule \in S : RuleOK(rule)
    BY <1>2 DEF GoodRules
  <2>2. PICK T : t \in Seq(T) /\ \A rule \in T : RuleOK(rule)
    BY <1>2 DEF GoodRules
  <2>3. s \o t \in Seq(S \cup T)
    BY ONLY <1>1, <2>1, <2>2
  <2>4. \A rule \in S \cup T : RuleOK(rule)
    BY ONLY <2>1, <2>2
  <2> QED BY ONLY <2>3, <2>4 DEF GoodRules
<1>3. ASSUME PlainRules(s), PlainRules(t) PROVE PlainRules(s \o t)
  <2>1. PICK S : s \in Seq(S) /\ \A rule \in S : PlainRule(rule)
    BY <1>3 DEF PlainRules
  <2>2. PICK T : t \in Seq(T) /\ \A rule \in T : PlainRule(rule)
    BY <1>3 DEF PlainRules
  <2>3. s \o t \in Seq(S \cup T)
    BY ONLY <1>1, <2>1, <2>2
  <2>4. \A rule \in S \cup T : PlainRule(rule)
    BY ONLY <2>1, <2>2
  <2> QED BY ONLY <2>3, <2>4 DEF PlainRules
<1> QED BY <1>2, <1>3 DEF GoodRules, PlainRules, PlainRule

\* An action of a rule that copies no text.
PlainAction(action) == Listed(action.parts) /\ ~Copies(action)

LEMMA PlainActions ==
  /\ \A i : PlainAction(Take(i))
  /\ PlainAction(Nothing) /\ PlainAction(Quit)
  /\ \A node, parts : node \notin Named /\ Listed(parts) => PlainAction(Node(node, parts))
  /\ \A op, parts : Listed(parts) => PlainAction(Builtin(op, parts))
  /\ \A a : PlainAction(Singleton(a))
  /\ \A parts : Listed(parts) => PlainAction(Collect(parts)) /\ PlainAction(Accept(parts))
  /\ \A i, j : PlainAction(Extend(i, j))
BY EmptyListed, PlainTuples DEF PlainAction, Copies, Textual, Named, Take, Nothing, Quit, Node,
   Builtin, Singleton, Collect, Accept, Extend, Action

LEMMA RuleForms ==
  /\ \A left, right, action :
       left \notin Texts /\ left # "input" /\ Plain(right) /\ PlainAction(action) =>
         PlainRule(Rule(left, right, action))
  /\ \A right, parts : Plain(right) /\ Listed(parts) =>
                         PlainRule(Rule("input", right, Accept(parts)))
  /\ \A left : left \notin Texts /\ left # "input" => PlainRule(Rule(left, <<>>, Nothing))
  /\ \A left, symbol :
       left \notin Texts /\ left # "input" /\ symbol \notin Texts =>
         PlainRule(Unit(left, symbol))
  /\ \A left, first, operator, last, op :
       left \notin Texts /\ left # "input" /\ first \notin Texts /\ operator \notin Texts
       /\ last \notin Texts => PlainRule(Infix(left, first, operator, last, op))
<1>1. \A left, right, action :
        left \notin Texts /\ left # "input" /\ Plain(right) /\ PlainAction(action) =>
          PlainRule(Rule(left, right, action))
  BY DEF PlainRule, RuleOK, Rule, Plain, PlainAction
<1>2. \A right, parts : Plain(right) /\ Listed(parts) =>
                          PlainRule(Rule("input", right, Accept(parts)))
  <2> TAKE right, parts
  <2> HAVE Plain(right) /\ Listed(parts)
  <2>1. PlainAction(Accept(parts))
    BY PlainActions
  <2>2. Accept(parts).do = "accept" /\ "input" \notin Texts
    BY DEF Accept, Action, Texts
  <2> QED BY <2>1, <2>2 DEF PlainRule, RuleOK, Rule, Plain, PlainAction
<1>3. \A left : left \notin Texts /\ left # "input" => PlainRule(Rule(left, <<>>, Nothing))
  <2>1. ~Textual(Nothing) /\ PlainAction(Nothing)
    BY PlainActions DEF Nothing, Action, Textual
  <2>2. Clean(<<>>)
    BY DEF Clean
  <2> QED BY <2>1, <2>2, EmptyListed DEF PlainRule, RuleOK, Rule, PlainAction
<1>4. \A left, symbol :
        left \notin Texts /\ left # "input" /\ symbol \notin Texts =>
          PlainRule(Unit(left, symbol))
  BY <1>1, PlainActions, PlainTuples DEF Unit
<1>5. \A left, first, operator, last, op :
        left \notin Texts /\ left # "input" /\ first \notin Texts /\ operator \notin Texts
        /\ last \notin Texts => PlainRule(Infix(left, first, operator, last, op))
  BY <1>1, PlainActions, PlainTuples DEF Infix
<1> QED BY <1>1, <1>2, <1>3, <1>4, <1>5

LEMMA InputRulesOK == PlainRules(InputRules)
<1> DEFINE s == InputRules
<1> USE RuleForms, PlainActions, PlainTuples, EmptyListed DEF Texts, Named
<1>1. PlainRule(s[1]) BY DEF InputRules
<1>2. PlainRule(s[2]) BY DEF InputRules
<1>3. PlainRule(s[3]) BY DEF InputRules
<1>4. PlainRule(s[4]) BY DEF InputRules
<1>5. PlainRule(s[5]) BY DEF InputRules
<1>6. PlainRule(s[6]) BY DEF InputRules
<1>7. PlainRule(s[7]) BY DEF InputRules
<1> DEFINE S == {s[i] : i \in 1..7}
<1>8. s \in Seq(S)
  BY ONLY TRUE DEF InputRules
<1> HIDE DEF s
<1>9. \A rule \in S : PlainRule(rule)
  BY ONLY <1>1, <1>2, <1>3, <1>4, <1>5, <1>6, <1>7
<1> HIDE DEF S
<1>10. PlainRules(s)
  BY ONLY <1>8, <1>9 DEF PlainRules
<1> QED BY ONLY <1>10 DEF s

LEMMA StatementRulesOK == PlainRules(StatementRules)
<1> DEFINE s == StatementRules
<1> USE RuleForms, PlainActions, PlainTuples, EmptyListed DEF Texts, Named
<1>1. PlainRule(s[1]) BY DEF StatementRules
<1>2. PlainRule(s[2]) BY DEF StatementRules
<1>3. PlainRule(s[3]) BY DEF StatementRules
<1>4. PlainRule(s[4]) BY DEF StatementRules
<1>5. PlainRule(s[5]) BY DEF StatementRules
<1>6. PlainRule(s[6]) BY DEF StatementRules
<1>7. PlainRule(s[7]) BY DEF StatementRules
<1>8. PlainRule(s[8]) BY DEF StatementRules
<1>9. PlainRule(s[9]) BY DEF StatementRules
<1>10. PlainRule(s[10]) BY DEF StatementRules
<1>11. PlainRule(s[11]) BY DEF StatementRules
<1>12. PlainRule(s[12]) BY DEF StatementRules
<1>13. PlainRule(s[13]) BY DEF StatementRules
<1>14. PlainRule(s[14]) BY DEF StatementRules
<1>15. PlainRule(s[15]) BY DEF StatementRules
<1>16. PlainRule(s[16]) BY DEF StatementRules
<1>17. PlainRule(s[17]) BY DEF StatementRules
<1>18. PlainRule(s[18]) BY DEF StatementRules
<1>19. PlainRule(s[19]) BY DEF StatementRules
<1>20. PlainRule(s[20]) BY DEF StatementRules
<1>21. PlainRule(s[21]) BY DEF StatementRules
<1>22. PlainRule(s[22]) BY DEF StatementRules
<1>23. PlainRule(s[23]) BY DEF StatementRules
<1> DEFINE S == {s[i] : i \in 1..23}
<1>24. s \in Seq(S)
  BY ONLY TRUE DEF StatementRules
<1> HIDE DEF s
<1>25. \A rule \in S : PlainRule(rule)
  BY ONLY <1>1, <1>2, <1>3, <1>4, <1>5, <1>6, <1>7, <1>8, <1>9, <1>10, <1>11, <1>12, <1>13, <1>14, <1>15, <1>16, <1>17, <1>18, <1>19, <1>20, <1>21, <1>22, <1>23
<1> HIDE DEF S
<1>26. PlainRules(s)
  BY ONLY <1>24, <1>25 DEF PlainRules
<1> QED BY ONLY <1>26 DEF s

LEMMA ExpressionRulesOK == PlainRules(ExpressionRules)
<1> DEFINE s == ExpressionRules
<1> USE RuleForms, PlainActions, PlainTuples, EmptyListed DEF Texts, Named
<1>1. PlainRule(s[1]) BY DEF ExpressionRules
<1>2. PlainRule(s[2]) BY DEF ExpressionRules
<1>3. PlainRule(s[3]) BY DEF ExpressionRules
<1>4. PlainRule(s[4]) BY DEF ExpressionRules
<1>5. PlainRule(s[5]) BY DEF ExpressionRules
<1>6. PlainRule(s[6]) BY DEF ExpressionRules
<1>7. PlainRule(s[7]) BY DEF ExpressionRules
<1>8. PlainRule(s[8]) BY DEF ExpressionRules
<1>9. PlainRule(s[9]) BY DEF ExpressionRules
<1>10. PlainRule(s[10]) BY DEF ExpressionRules
<1>11. PlainRule(s[11]) BY DEF ExpressionRules
<1>12. PlainRule(s[12]) BY DEF ExpressionRules
<1>13. PlainRule(s[13]) BY DEF ExpressionRules
<1>14. PlainRule(s[14]) BY DEF ExpressionRules
<1>15. PlainRule(s[15]) BY DEF ExpressionRules
<1>16. PlainRule(s[16]) BY DEF ExpressionRules
<1>17. PlainRule(s[17]) BY DEF ExpressionRules
<1>18. PlainRule(s[18]) BY DEF ExpressionRules
<1>19. PlainRule(s[19]) BY DEF ExpressionRules
<1>20. PlainRule(s[20]) BY DEF ExpressionRules
<1>21. PlainRule(s[21]) BY DEF ExpressionRules
<1>22. PlainRule(s[22]) BY DEF ExpressionRules
<1> DEFINE S == {s[i] : i \in 1..22}
<1>23. s \in Seq(S)
  BY ONLY TRUE DEF ExpressionRules
<1> HIDE DEF s
<1>24. \A rule \in S : PlainRule(rule)
  BY ONLY <1>1, <1>2, <1>3, <1>4, <1>5, <1>6, <1>7, <1>8, <1>9, <1>10, <1>11, <1>12, <1>13, <1>14, <1>15, <1>16, <1>17, <1>18, <1>19, <1>20, <1>21, <1>22
<1> HIDE DEF S
<1>25. PlainRules(s)
  BY ONLY <1>23, <1>24 DEF PlainRules
<1> QED BY ONLY <1>25 DEF s

\* A name and a string are copied, by one rule each.
LEMMA AtomRulesOK ==
  /\ GoodRules(AtomRules) /\ Len(AtomRules) = 24
  /\ AtomRules[5].right # AtomRules[13].right
  /\ \A i \in 1..24 : Copies(AtomRules[i].action) => i \in {5, 13}
<1> DEFINE s == AtomRules
<1> USE RuleForms, PlainActions, PlainTuples, EmptyListed DEF Texts, Named
<1>1. PlainRule(s[1]) BY DEF AtomRules
<1>2. PlainRule(s[2]) BY DEF AtomRules
<1>3. PlainRule(s[3]) BY DEF AtomRules
<1>4. PlainRule(s[4]) BY DEF AtomRules
<1>5. RuleOK(s[5])
  BY DEF AtomRules, RuleOK, Rule, Node, Action, Copies, Textual
<1>6. PlainRule(s[6]) BY DEF AtomRules
<1>7. PlainRule(s[7]) BY DEF AtomRules
<1>8. PlainRule(s[8]) BY DEF AtomRules
<1>9. PlainRule(s[9]) BY DEF AtomRules
<1>10. PlainRule(s[10]) BY DEF AtomRules
<1>11. PlainRule(s[11]) BY DEF AtomRules
<1>12. PlainRule(s[12]) BY DEF AtomRules
<1>13. RuleOK(s[13])
  BY DEF AtomRules, RuleOK, Rule, Node, Action, Copies, Textual
<1>14. PlainRule(s[14]) BY DEF AtomRules
<1>15. PlainRule(s[15]) BY DEF AtomRules
<1>16. PlainRule(s[16]) BY DEF AtomRules
<1>17. PlainRule(s[17]) BY DEF AtomRules
<1>18. PlainRule(s[18]) BY DEF AtomRules
<1>19. PlainRule(s[19]) BY DEF AtomRules
<1>20. PlainRule(s[20]) BY DEF AtomRules
<1>21. PlainRule(s[21]) BY DEF AtomRules
<1>22. PlainRule(s[22]) BY DEF AtomRules
<1>23. PlainRule(s[23]) BY DEF AtomRules
<1>24. PlainRule(s[24]) BY DEF AtomRules
<1> DEFINE S == {s[i] : i \in 1..24}
<1>25. s \in Seq(S) /\ Len(s) = 24 /\ s[5].right # s[13].right
  <2>1. s \in Seq(S)
    BY ONLY TRUE DEF AtomRules
  <2>2. Len(s) = 24
    BY ONLY TRUE DEF AtomRules
  <2>3. s[5].right = <<"IDENT">> /\ s[13].right = <<"STRING">>
    BY ONLY TRUE DEF AtomRules, Rule
  <2>4. <<"IDENT">> # <<"STRING">>
    BY ONLY TRUE
  <2> QED BY ONLY <2>1, <2>2, <2>3, <2>4
<1> HIDE DEF s
<1>26. \A i \in 1..24 : i \in {5, 13} \/ PlainRule(s[i])
  BY ONLY <1>1, <1>2, <1>3, <1>4, <1>6, <1>7, <1>8, <1>9, <1>10, <1>11, <1>12, <1>14, <1>15, <1>16, <1>17, <1>18, <1>19, <1>20, <1>21, <1>22, <1>23, <1>24
<1>27. \A rule \in S : RuleOK(rule)
  BY ONLY <1>26, <1>5, <1>13 DEF PlainRule
<1> HIDE DEF S
<1>28. GoodRules(s)
  BY ONLY <1>25, <1>27 DEF GoodRules
<1>29. \A i \in 1..24 : Copies(s[i].action) => i \in {5, 13}
  BY ONLY <1>26 DEF PlainRule
<1> QED BY ONLY <1>25, <1>28, <1>29 DEF s

\* The rules before those for atoms.
LEMMA PlainRulesFirst ==
  /\ PlainRules((InputRules \o StatementRules) \o ExpressionRules)
  /\ Rules = ((InputRules \o StatementRules) \o ExpressionRules) \o AtomRules
<1>1. PlainRules(InputRules \o StatementRules)
  BY ONLY InputRulesOK, StatementRulesOK, RulesConcat
<1>2. PlainRules((InputRules \o StatementRules) \o ExpressionRules)
  BY ONLY <1>1, ExpressionRulesOK, RulesConcat
<1> QED BY <1>2 DEF Rules

LEMMA RulesOK ==
  /\ Len(Rules) \in Nat /\ DOMAIN Rules = 1..Len(Rules)
  /\ \A r \in DOMAIN Rules : RuleOK(Rules[r])
<1>1. GoodRules(Rules)
  <2> DEFINE plain == (InputRules \o StatementRules) \o ExpressionRules
  <2>1. PlainRules(plain) /\ Rules = plain \o AtomRules
    BY PlainRulesFirst
  <2> HIDE DEF plain
  <2> QED BY ONLY <2>1, AtomRulesOK, RulesConcat
<1>2. PICK S : Rules \in Seq(S) /\ \A rule \in S : RuleOK(rule)
  BY ONLY <1>1 DEF GoodRules
<1> QED BY ONLY <1>2

LEMMA ConcatParts ==
  ASSUME NEW S, NEW s \in Seq(S), NEW t \in Seq(S),
         NEW i \in 1..Len(s \o t), i \notin 1..Len(s)
  PROVE  i - Len(s) \in 1..Len(t) /\ (s \o t)[i] = t[i - Len(s)]
OBVIOUS

\* One rule for each token whose text is copied.
LEMMA CopiedOnce ==
  ASSUME NEW q \in DOMAIN Rules, NEW r \in DOMAIN Rules,
         Copies(Rules[q].action), Copies(Rules[r].action), Rules[q].right = Rules[r].right
  PROVE  q = r
<1> DEFINE plain == (InputRules \o StatementRules) \o ExpressionRules
<1>1. PlainRules(plain) /\ Rules = plain \o AtomRules
  BY PlainRulesFirst
<1> HIDE DEF plain
<1>2. PICK S : plain \in Seq(S) /\ \A rule \in S : PlainRule(rule)
  BY ONLY <1>1 DEF PlainRules
<1>3. PICK T : AtomRules \in Seq(T)
  BY ONLY AtomRulesOK DEF GoodRules
<1>4. plain \in Seq(S \cup T) /\ AtomRules \in Seq(S \cup T)
  BY ONLY <1>2, <1>3
<1>5. ASSUME NEW i \in DOMAIN Rules, Copies(Rules[i].action)
      PROVE  /\ i - Len(plain) \in {5, 13} /\ i \in Nat
             /\ Rules[i] = AtomRules[i - Len(plain)]
  <2>1. i \in 1..Len(plain \o AtomRules) /\ i \in Nat
    BY ONLY <1>1, <1>4, i \in DOMAIN Rules
  <2>2. i \notin 1..Len(plain)
    <3>1. \A j \in 1..Len(plain) : ~Copies(plain[j].action)
      BY ONLY <1>2 DEF PlainRule
    <3>2. i \in 1..Len(plain) => Rules[i] = plain[i]
      BY ONLY <1>1, <1>4
    <3> QED BY ONLY <3>1, <3>2, <1>5
  <2>3. i - Len(plain) \in 1..Len(AtomRules)
        /\ (plain \o AtomRules)[i] = AtomRules[i - Len(plain)]
    BY ONLY <2>1, <2>2, <1>4, ConcatParts
  <2> QED BY ONLY <2>1, <2>3, <1>1, <1>5, AtomRulesOK
<1>6. q - Len(plain) = r - Len(plain)
  BY ONLY <1>5, AtomRulesOK, Copies(Rules[q].action), Copies(Rules[r].action),
     q \in DOMAIN Rules, r \in DOMAIN Rules, Rules[q].right = Rules[r].right
<1>7. Len(plain) \in Nat /\ q \in Nat /\ r \in Nat
  BY ONLY <1>2, <1>5, Copies(Rules[q].action), Copies(Rules[r].action),
     q \in DOMAIN Rules, r \in DOMAIN Rules
<1> QED BY ONLY <1>6, <1>7

\* The symbols that may stand first, and those that rules are for.
Symbols == Nonterminals \cup {q[2] : q \in FirstSymbols}

LEMMA FirstSymbolsOK ==
  /\ FirstSymbols \subseteq Nonterminals \X Symbols
  /\ \A a, b : <<a, b>> \in FirstSymbols =>
       \E r \in DOMAIN Rules : Rules[r].left = a /\ Rules[r].right # <<>> /\ Head(Rules[r].right) = b
<1>1. ASSUME NEW q \in FirstSymbols
      PROVE  \E r \in DOMAIN Rules : /\ q = <<Rules[r].left, Head(Rules[r].right)>>
                                     /\ Rules[r].right # <<>>
  BY <1>1 DEF FirstSymbols
<1>2. \A r \in DOMAIN Rules : Rules[r].left \in Nonterminals
  BY DEF Nonterminals
<1>3. ASSUME NEW q \in FirstSymbols PROVE q \in Nonterminals \X Symbols
  <2>1. PICK r \in DOMAIN Rules : q = <<Rules[r].left, Head(Rules[r].right)>>
    BY <1>1
  <2>2. q[2] \in Symbols
    BY DEF Symbols
  <2> QED BY ONLY <2>1, <2>2, <1>2
<1> QED BY ONLY <1>1, <1>3

LEMMA NonterminalsFinite == Cardinality(Nonterminals) \in Nat
<1>1. IsFiniteSet(1..Len(Rules))
  BY RulesOK, FS_Interval
<1> DEFINE f == [r \in 1..Len(Rules) |-> Rules[r].left]
<1>2. f \in Surjection(1..Len(Rules), Nonterminals)
  BY RulesOK DEF Nonterminals, Surjection
<1>3. IsFiniteSet(Nonterminals)
  BY ONLY <1>1, <1>2, FS_Surjection
<1> QED BY <1>3, FS_CardinalityType

\* What a symbol may start with is the symbol, or it stands first in a rule for
\* another one that the symbol may start with.
Reached(R) ==
  \A a, b : <<a, b>> \in R => \/ a = b
                              \/ \E m : <<a, m>> \in R /\ <<m, b>> \in FirstSymbols

LEMMA StartsReached == Reached(Starts) /\ Starts \subseteq Nonterminals \X Symbols
<1> DEFINE N == Cardinality(Nonterminals)
<1> DEFINE further(R) == R \cup UNION {{<<p[1], q[2]>> : q \in {f \in FirstSymbols : f[1] = p[2]}} : p \in R}
<1> DEFINE U == Nonterminals \X Symbols
<1> DEFINE first == {<<a, a>> : a \in Nonterminals}
<1> DEFINE Body(f) == [i \in 0..N |-> IF i = 0 THEN first ELSE further(f[i - 1])]
<1> DEFINE reached == CHOOSE f : f = Body(f)
<1>1. Starts = reached[N]
  BY DEF Starts
<1>2. N \in Nat
  BY NonterminalsFinite
<1>3. first \in SUBSET U /\ Reached(first)
  BY DEF Reached, Symbols
<1>4. ASSUME NEW R \in SUBSET U PROVE further(R) \in SUBSET U
  BY FirstSymbolsOK
<1>5. ASSUME NEW R \in SUBSET U, Reached(R) PROVE Reached(further(R))
  <2> SUFFICES ASSUME NEW a, NEW b, <<a, b>> \in further(R), a # b
               PROVE  \E m : <<a, m>> \in further(R) /\ <<m, b>> \in FirstSymbols
    BY DEF Reached
  <2>1. CASE <<a, b>> \in R
    <3>1. PICK m : <<a, m>> \in R /\ <<m, b>> \in FirstSymbols
      BY <2>1, <1>5 DEF Reached
    <3> QED BY <3>1
  <2>2. CASE <<a, b>> \notin R
    <3>1. PICK p \in R, q \in FirstSymbols : q[1] = p[2] /\ <<a, b>> = <<p[1], q[2]>>
      BY <2>2
    <3>2. p = <<p[1], p[2]>> /\ q = <<q[1], q[2]>>
      BY FirstSymbolsOK
    <3>3. <<a, p[2]>> \in R /\ <<p[2], b>> \in FirstSymbols
      BY <3>1, <3>2
    <3> QED BY <3>3
  <2> QED BY <2>1, <2>2
<1> HIDE DEF further, first, U
<1> DEFINE F == [x \in (1..N) \X SUBSET U |-> further(x[2])]
<1>6. F \in [(1..N) \X SUBSET U -> SUBSET U]
  BY <1>4
<1>7. PICK g : StepIteration(SUBSET U, F, first, N, g)
  <2> HIDE DEF F, N
  <2> QED BY <1>2, <1>3, <1>6, StepIterates
<1>8. g \in [0..N -> SUBSET U] /\ g[0] = first /\ \A i \in 1..N : g[i] = F[<<i, g[i - 1]>>]
  BY <1>7 DEF StepIteration
<1>9. g = Body(g)
  <2>1. ASSUME NEW i \in 0..N
        PROVE  g[i] = IF i = 0 THEN first ELSE further(g[i - 1])
    <3>1. CASE i = 0
      BY <3>1, <1>8
    <3>2. CASE i # 0
      <4>1. i \in 1..N /\ i - 1 \in 0..N
        BY <3>2, <1>2
      <4> HIDE DEF N
      <4>2. g[i - 1] \in SUBSET U
        BY <4>1, <1>8
      <4>3. F[<<i, g[i - 1]>>] = further(g[i - 1])
        BY <4>1, <4>2
      <4> HIDE DEF F
      <4> QED BY <4>1, <4>3, <3>2, <1>8
    <3> QED BY <3>1, <3>2
  <2>2. g = [i \in 0..N |-> g[i]]
    BY <1>8
  <2> QED BY ONLY <2>1, <2>2
<1>10. reached = Body(reached)
  <2> HIDE DEF Body
  <2> QED BY <1>9
<1> HIDE DEF reached
<1>11. /\ reached = [i \in 0..N |-> reached[i]]
       /\ \A i \in 0..N : reached[i] = IF i = 0 THEN first ELSE further(reached[i - 1])
  <2> DEFINE B == Body(reached)
  <2>1. /\ B = [i \in 0..N |-> B[i]]
        /\ \A i \in 0..N : B[i] = IF i = 0 THEN first ELSE further(reached[i - 1])
    OBVIOUS
  <2>2. reached = B
    BY ONLY <1>10
  <2> HIDE DEF B
  <2> QED BY ONLY <2>1, <2>2
<1> DEFINE G == {R \in SUBSET U : Reached(R)}
<1>12. reached[0] \in G
  <2>1. 0 \in 0..N
    BY <1>2
  <2>2. reached[0] = first
    BY ONLY <2>1, <1>11
  <2> QED BY <2>2, <1>3
<1>13. \A i \in 1..N : reached[i - 1] \in G => reached[i] \in G
  <2> TAKE i \in 1..N
  <2> HAVE reached[i - 1] \in G
  <2>1. i \in 0..N /\ i # 0
    BY <1>2
  <2>2. reached[i] = further(reached[i - 1])
    BY ONLY <2>1, <1>11
  <2> QED BY <2>2, <1>4, <1>5
<1>14. reached \in [0..N -> G]
  <2> HIDE DEF N, G
  <2> QED BY <1>2, <1>11, <1>12, <1>13, StepsStay
<1>15. reached[N] \in G
  BY <1>14, <1>2
<1> QED BY <1>15, <1>1 DEF U

\* A state is the items of some rules.
Kernel(k) == k \subseteq (DOMAIN Rules) \X Nat

LEMMA ItemsOK ==
  ASSUME NEW k, Kernel(k)
  PROVE  /\ Items(k) \subseteq (DOMAIN Rules) \X Nat
         /\ \A item \in Items(k) : item = <<item[1], item[2]>>
         /\ \A r, d : <<r, d>> \in Items(k) /\ d # 0 => <<r, d>> \in k
<1>1. \A a \in Nonterminals : \A item \in Expansion[a] :
         item \in (DOMAIN Rules) \X Nat /\ item[2] = 0
  <2>1. ASSUME NEW a \in Nonterminals, NEW item \in Expansion[a]
        PROVE  \E r \in DOMAIN Rules : item = <<r, 0>>
    BY DEF Expansion
  <2> QED BY <2>1
<1>2. ASSUME NEW item \in Items(k), item \notin k
      PROVE  item \in (DOMAIN Rules) \X Nat /\ item[2] = 0
  <2>1. PICK a \in Nonterminals : item \in Expansion[a]
    BY <1>2 DEF Items
  <2> QED BY <2>1, <1>1
<1>3. Items(k) \subseteq (DOMAIN Rules) \X Nat
  BY <1>2 DEF Kernel
<1> QED BY <1>2, <1>3

LEMMA GotoOK ==
  ASSUME NEW k, Kernel(k), NEW symbol
  PROVE  /\ Kernel(Goto(k, symbol))
         /\ \A r, d : <<r, d>> \in Goto(k, symbol) =>
              /\ d \in Nat \ {0} /\ <<r, d - 1>> \in Items(k) /\ d <= Len(Rules[r].right)
              /\ Rules[r].right[d] = symbol
<1>1. ASSUME NEW item \in Goto(k, symbol)
      PROVE  \E i \in Items(k) : /\ item = <<i[1], i[2] + 1>> /\ i[1] \in DOMAIN Rules
                                 /\ i[2] \in Nat /\ i = <<i[1], i[2]>>
                                 /\ i[2] < Len(Rules[i[1]].right)
                                 /\ Rules[i[1]].right[i[2] + 1] = symbol
  <2>1. PICK i \in Items(k) : item = <<i[1], i[2] + 1>> /\ symbol \in NextSymbol(i)
    BY DEF Goto
  <2>2. i[1] \in DOMAIN Rules /\ i[2] \in Nat /\ i = <<i[1], i[2]>>
    BY ItemsOK
  <2>3. i[2] < Len(Rules[i[1]].right) /\ Rules[i[1]].right[i[2] + 1] = symbol
    BY <2>1 DEF NextSymbol
  <2> QED BY <2>1, <2>2, <2>3
<1>2. Kernel(Goto(k, symbol))
  BY <1>1 DEF Kernel
<1>3. ASSUME NEW r, NEW d, <<r, d>> \in Goto(k, symbol)
      PROVE  /\ d \in Nat \ {0} /\ <<r, d - 1>> \in Items(k) /\ d <= Len(Rules[r].right)
             /\ Rules[r].right[d] = symbol
  <2>1. PICK i \in Items(k) : /\ <<r, d>> = <<i[1], i[2] + 1>> /\ i[1] \in DOMAIN Rules
                              /\ i[2] \in Nat /\ i = <<i[1], i[2]>>
                              /\ i[2] < Len(Rules[i[1]].right)
                              /\ Rules[i[1]].right[i[2] + 1] = symbol
    BY <1>1, <1>3
  <2>2. r = i[1] /\ d = i[2] + 1
    BY <2>1
  <2>3. Len(Rules[r].right) \in Nat
    BY <2>1, <2>2, RulesOK, ListedPrefix, ListedAppend DEF RuleOK
  <2>4. d - 1 = i[2] /\ d \in Nat \ {0} /\ d <= Len(Rules[r].right)
    BY ONLY <2>1, <2>2, <2>3
  <2>5. Rules[r].right[d] = symbol
    BY ONLY <2>1, <2>2
  <2> QED BY ONLY <2>1, <2>2, <2>4, <2>5
<1> QED BY <1>2, <1>3

\* Where a rule for a symbol may start, the symbol leads somewhere.
LEMMA LeadsSomewhere ==
  ASSUME NEW k, Kernel(k), NEW r, <<r, 0>> \in Items(k), <<r, 0>> \notin k
  PROVE  Goto(k, Rules[r].left) # {}
<1> DEFINE X == Rules[r].left
<1>1. PICK a \in Nonterminals, item \in k : <<r, 0>> \in Expansion[a] /\ a \in NextSymbol(item)
  BY DEF Items
<1>2. r \in DOMAIN Rules /\ <<a, X>> \in Starts
  BY <1>1 DEF Expansion
<1> HIDE DEF X
<1>3. CASE a = X
  <2>1. item \in Items(k) /\ X \in NextSymbol(item)
    BY <1>1, <1>3 DEF Items
  <2>2. <<item[1], item[2] + 1>> \in Goto(k, X)
    BY ONLY <2>1 DEF Goto
  <2> QED BY <2>2 DEF X
<1>4. CASE a # X
  <2>1. PICK m : <<a, m>> \in Starts /\ <<m, X>> \in FirstSymbols
    BY ONLY <1>2, <1>4, StartsReached DEF Reached
  <2>2. PICK q \in DOMAIN Rules : /\ Rules[q].left = m /\ Rules[q].right # <<>>
                                  /\ Head(Rules[q].right) = X
    BY ONLY <2>1, FirstSymbolsOK
  <2>3. <<q, 0>> \in Expansion[a]
    BY <2>1, <2>2 DEF Expansion
  <2>4. <<q, 0>> \in Items(k)
    BY ONLY <2>3, <1>1, a \in Nonterminals, item \in k DEF Items
  <2>5. Listed(Rules[q].right)
    BY ONLY <2>2, RulesOK DEF RuleOK
  <2>6. PICK S : Rules[q].right \in Seq(S)
    BY ONLY <2>5 DEF Listed
  <2>7. 0 < Len(Rules[q].right) /\ Rules[q].right[0 + 1] = X
    BY ONLY <2>6, <2>2
  <2>8. X \in NextSymbol(<<q, 0>>)
    BY ONLY <2>7 DEF NextSymbol
  <2>9. <<q, 0 + 1>> \in Goto(k, X)
    BY ONLY <2>4, <2>8 DEF Goto
  <2> QED BY <2>9 DEF X
<1> QED BY <1>3, <1>4

----------------------------------------------------------------------------
(***************************************************************************)
(* The stack of the parser                                                 *)
(***************************************************************************)
LEMMA ConcatFirst ==
  ASSUME NEW s, PlainRules(s), s # <<>>, NEW t, GoodRules(t)
  PROVE  s \o t # <<>> /\ (s \o t)[1] = s[1]
<1>1. PICK S : s \in Seq(S)
  BY DEF PlainRules
<1>2. PICK T : t \in Seq(T)
  BY DEF GoodRules
<1>3. s \in Seq(S \cup T) /\ t \in Seq(S \cup T)
  BY ONLY <1>1, <1>2
<1>4. Len(s) \in Nat /\ Len(s) > 0
  BY <1>1
<1> QED BY ONLY <1>3, <1>4

LEMMA StartOK ==
  /\ START # {} /\ Kernel(START)
  /\ \A r, d : <<r, d>> \in START => d = 0 /\ r \in DOMAIN Rules /\ Rules[r].left = "input"
<1>1. InputRules # <<>> /\ InputRules[1].left = "input"
  BY DEF InputRules, Rule
<1> DEFINE s2 == InputRules \o StatementRules
<1> DEFINE s3 == s2 \o ExpressionRules
<1>2. PlainRules(s2) /\ s2 # <<>> /\ s2[1] = InputRules[1]
  BY ONLY <1>1, InputRulesOK, StatementRulesOK, ConcatFirst, RulesConcat
<1> HIDE DEF s2
<1>3. PlainRules(s3) /\ s3 # <<>> /\ s3[1] = s2[1]
  BY ONLY <1>2, ExpressionRulesOK, ConcatFirst, RulesConcat
<1> HIDE DEF s3
<1>4. s3 \o AtomRules # <<>> /\ (s3 \o AtomRules)[1] = s3[1] /\ GoodRules(s3 \o AtomRules)
  BY ONLY <1>3, AtomRulesOK, ConcatFirst, RulesConcat
<1>5. Rules = s3 \o AtomRules
  BY DEF Rules, s3, s2
<1>6. Rules # <<>> /\ Rules[1].left = "input"
  BY ONLY <1>1, <1>2, <1>3, <1>4, <1>5
<1>7. 1 \in DOMAIN Rules
  <2>1. PICK S : Rules \in Seq(S)
    BY ONLY <1>4, <1>5 DEF GoodRules
  <2> QED BY ONLY <2>1, <1>6
<1>8. <<1, 0>> \in START
  BY ONLY <1>6, <1>7 DEF START
<1>9. \A item \in START : \E r \in DOMAIN Rules : item = <<r, 0>> /\ Rules[r].left = "input"
  BY DEF START
<1>10. Kernel(START)
  BY ONLY <1>9 DEF Kernel
<1> QED BY ONLY <1>8, <1>9, <1>10

\* Each state but the first is where a symbol leads from the one below it.
StackOK(s) ==
  /\ Listed(s) /\ Len(s) >= 1 /\ s[1].state = START
  /\ \A i \in 2..Len(s) :
       s[i].state # {} /\ \E symbol : s[i].state = Goto(s[i - 1].state, symbol)
  /\ \A i \in 1..Len(s) : s[i].length \in Nat

LEMMA ListedLen ==
  ASSUME NEW s, Listed(s)
  PROVE  Len(s) \in Nat /\ DOMAIN s = 1..Len(s)
BY DEF Listed

LEMMA StackStates ==
  ASSUME NEW s, StackOK(s)
  PROVE  \A i \in 1..Len(s) : Kernel(s[i].state) /\ s[i].state # {}
<1>1. Len(s) \in Nat /\ Len(s) >= 1
  BY ListedLen DEF StackOK
<1> DEFINE Wrong == {i \in 1..Len(s) : ~(Kernel(s[i].state) /\ s[i].state # {})}
<1> SUFFICES ASSUME Wrong # {} PROVE FALSE
  OBVIOUS
<1>2. PICK i \in Wrong : \A m \in Wrong : ~(m < i)
  <2>1. Wrong \in SUBSET Nat
    OBVIOUS
  <2> HIDE DEF Wrong
  <2> QED BY <2>1, LeastNatural
<1>3. i \in 1..Len(s) /\ ~(Kernel(s[i].state) /\ s[i].state # {})
  BY <1>2
<1>4. CASE i = 1
  BY ONLY <1>3, <1>4, StartOK, StackOK(s) DEF StackOK
<1>5. CASE i # 1
  <2>1. i \in 2..Len(s) /\ i - 1 \in 1..Len(s) /\ i - 1 < i
    BY ONLY <1>3, <1>5, <1>1
  <2>2. Kernel(s[i - 1].state)
    BY <2>1, <1>2
  <2>3. PICK symbol : s[i].state # {} /\ s[i].state = Goto(s[i - 1].state, symbol)
    BY <2>1 DEF StackOK
  <2>4. Kernel(s[i].state)
    BY ONLY <2>2, <2>3, GotoOK
  <2> QED BY <2>3, <2>4, <1>3
<1> QED BY <1>4, <1>5

\* What is on the stack from the start of a rule on.
LEMMA StackBack ==
  ASSUME NEW s, StackOK(s), NEW i \in 1..Len(s), NEW r, NEW d, <<r, d>> \in Items(s[i].state)
  PROVE  /\ r \in DOMAIN Rules /\ d \in Nat /\ d < i /\ <<r, 0>> \in Items(s[i - d].state)
         /\ d <= Len(Rules[r].right)
<1>1. Len(s) \in Nat /\ Len(s) >= 1
  BY ListedLen DEF StackOK
<1>2. \A j \in 1..Len(s) : \A q, n : <<q, n>> \in Items(s[j].state) => q \in DOMAIN Rules /\ n \in Nat
  <2> TAKE j \in 1..Len(s)
  <2>1. Kernel(s[j].state)
    BY StackStates
  <2> QED BY ONLY <2>1, ItemsOK
<1>3. \A j \in 1..Len(s) : \A q, n : <<q, n>> \in Items(s[j].state) /\ n # 0 =>
        /\ j # 1 /\ j - 1 \in 1..Len(s) /\ n - 1 \in Nat
        /\ <<q, n - 1>> \in Items(s[j - 1].state) /\ n <= Len(Rules[q].right)
  <2> SUFFICES ASSUME NEW j \in 1..Len(s), NEW q, NEW n, <<q, n>> \in Items(s[j].state), n # 0
               PROVE  /\ j # 1 /\ j - 1 \in 1..Len(s) /\ n - 1 \in Nat
                      /\ <<q, n - 1>> \in Items(s[j - 1].state) /\ n <= Len(Rules[q].right)
    OBVIOUS
  <2>1. <<q, n>> \in s[j].state
    <3>1. Kernel(s[j].state)
      BY StackStates
    <3> QED BY <3>1, ItemsOK
  <2>2. j # 1
    BY <2>1, StartOK DEF StackOK
  <2>3. j \in 2..Len(s) /\ j - 1 \in 1..Len(s)
    BY ONLY <2>2, <1>1, j \in 1..Len(s)
  <2>4. PICK symbol : s[j].state = Goto(s[j - 1].state, symbol)
    BY <2>3 DEF StackOK
  <2>5. Kernel(s[j - 1].state)
    BY <2>3, StackStates
  <2>6. n \in Nat \ {0} /\ <<q, n - 1>> \in Items(s[j - 1].state) /\ n <= Len(Rules[q].right)
    BY ONLY <2>1, <2>4, <2>5, GotoOK
  <2>7. n - 1 \in Nat
    BY ONLY <2>6
  <2> QED BY <2>2, <2>3, <2>6, <2>7
<1> DEFINE Bad == {n \in Nat : \E j \in 1..Len(s) : /\ <<r, n>> \in Items(s[j].state)
                                                    /\ ~(n < j /\ <<r, 0>> \in Items(s[j - n].state))}
<1>4. Bad = {}
  <2> SUFFICES ASSUME Bad # {} PROVE FALSE
    OBVIOUS
  <2>1. PICK n \in Bad : \A m \in Bad : ~(m < n)
    <3>1. Bad \in SUBSET Nat
      OBVIOUS
    <3> HIDE DEF Bad
    <3> QED BY <3>1, LeastNatural
  <2>2. PICK j \in 1..Len(s) : /\ <<r, n>> \in Items(s[j].state)
                               /\ ~(n < j /\ <<r, 0>> \in Items(s[j - n].state))
    BY <2>1
  <2>3. n # 0
    BY <2>2, <1>1
  <2>4. /\ j # 1 /\ j - 1 \in 1..Len(s) /\ n - 1 \in Nat
        /\ <<r, n - 1>> \in Items(s[j - 1].state)
    BY ONLY <2>2, <2>3, <1>3
  <2>5. n \in Nat /\ n - 1 < n /\ n - 1 \notin Bad
    <3>1. n \in Nat
      OBVIOUS
    <3>2. n - 1 < n
      BY ONLY <3>1
    <3> HIDE DEF Bad
    <3> QED BY ONLY <3>1, <3>2, <2>1
  <2>6. n - 1 < j - 1 /\ <<r, 0>> \in Items(s[(j - 1) - (n - 1)].state)
    BY <2>5, <2>4
  <2>7. n < j /\ (j - 1) - (n - 1) = j - n
    BY ONLY <2>6, <2>5, <1>1, j \in 1..Len(s)
  <2> QED BY ONLY <2>2, <2>6, <2>7
<1>5. r \in DOMAIN Rules /\ d \in Nat
  BY <1>2
<1>6. d < i /\ <<r, 0>> \in Items(s[i - d].state)
  BY <1>4, <1>5
<1>7. d <= Len(Rules[r].right)
  <2>1. CASE d # 0
    BY ONLY <2>1, <1>3, i \in 1..Len(s), <<r, d>> \in Items(s[i].state)
  <2>2. CASE d = 0
    <3>1. Listed(Rules[r].right)
      BY ONLY <1>5, RulesOK DEF RuleOK
    <3>2. Len(Rules[r].right) \in Nat
      BY ONLY <3>1, ListedLen
    <3> QED BY ONLY <3>2, <2>2
  <2> QED BY <2>1, <2>2
<1> QED BY <1>5, <1>6, <1>7

\* A complete rule is on the stack, and its symbol leads on from below it.
LEMMA CompleteOnStack ==
  ASSUME NEW s, StackOK(s), NEW r \in Complete(s[Len(s)].state),
         NEW depth, depth = Len(s) - Len(Rules[r].right)
  PROVE  /\ r \in DOMAIN Rules /\ RuleOK(Rules[r]) /\ Len(Rules[r].right) \in Nat
         /\ depth \in 1..Len(s)
         /\ Rules[r].action.do \notin {"accept", "quit"} =>
              Goto(s[depth].state, Rules[r].left) # {}
<1>1. Len(s) \in Nat /\ Len(s) \in 1..Len(s)
  BY ListedLen DEF StackOK
<1>2. PICK item \in Items(s[Len(s)].state) : item[1] = r /\ NextSymbol(item) = {}
  BY DEF Complete
<1>3. item = <<item[1], item[2]>>
  <2>1. Kernel(s[Len(s)].state)
    BY <1>1, StackStates
  <2> QED BY ONLY <2>1, <1>2, ItemsOK
<1> DEFINE d == item[2]
<1>4. <<r, d>> \in Items(s[Len(s)].state)
  BY ONLY <1>2, <1>3
<1>5. /\ r \in DOMAIN Rules /\ d \in Nat /\ d < Len(s)
      /\ <<r, 0>> \in Items(s[Len(s) - d].state) /\ d <= Len(Rules[r].right)
  <2> HIDE DEF d
  <2> QED BY ONLY <1>1, <1>4, StackOK(s), StackBack
<1>6. RuleOK(Rules[r]) /\ Len(Rules[r].right) \in Nat
  <2>1. RuleOK(Rules[r])
    BY ONLY <1>5, RulesOK
  <2>2. Listed(Rules[r].right)
    BY ONLY <2>1 DEF RuleOK
  <2> QED BY ONLY <2>1, <2>2, ListedLen
<1>7. ~(d < Len(Rules[r].right))
  <2>1. {Rules[item[1]].right[item[2] + 1]} # {}
    OBVIOUS
  <2> QED BY ONLY <2>1, <1>2 DEF NextSymbol
<1> HIDE DEF d
<1>8. d = Len(Rules[r].right) /\ depth = Len(s) - d /\ depth \in 1..Len(s)
  BY ONLY <1>1, <1>5, <1>6, <1>7, depth = Len(s) - Len(Rules[r].right)
<1>9. ASSUME Rules[r].action.do \notin {"accept", "quit"}
      PROVE  Goto(s[depth].state, Rules[r].left) # {}
  <2>1. Rules[r].left # "input"
    BY <1>9, <1>6 DEF RuleOK
  <2>2. <<r, 0>> \notin s[depth].state
    <3>1. CASE depth = 1
      <4>1. s[depth].state = START
        BY <3>1 DEF StackOK
      <4> QED BY ONLY <4>1, <2>1, StartOK
    <3>2. CASE depth # 1
      <4>1. depth \in 2..Len(s) /\ depth - 1 \in 1..Len(s)
        BY ONLY <3>2, <1>8, <1>1
      <4>2. PICK symbol : s[depth].state = Goto(s[depth - 1].state, symbol)
        BY <4>1 DEF StackOK
      <4>3. Kernel(s[depth - 1].state)
        BY <4>1, StackStates
      <4>4. \A q, n : <<q, n>> \in Goto(s[depth - 1].state, symbol) => n \in Nat \ {0}
        BY ONLY <4>3, GotoOK
      <4> QED BY ONLY <4>2, <4>4
    <3> QED BY <3>1, <3>2
  <2>3. Kernel(s[depth].state) /\ <<r, 0>> \in Items(s[depth].state)
    BY <1>5, <1>8, StackStates
  <2> QED BY ONLY <2>2, <2>3, LeadsSomewhere
<1> QED BY <1>5, <1>6, <1>8, <1>9

LEMMA StackPrefix ==
  ASSUME NEW s, StackOK(s), NEW n \in 1..Len(s)
  PROVE  StackOK(SubSeq(s, 1, n)) /\ Len(SubSeq(s, 1, n)) = n /\ SubSeq(s, 1, n)[n] = s[n]
<1>1. Len(s) \in Nat /\ Listed(s)
  BY ListedLen DEF StackOK
<1> DEFINE t == SubSeq(s, 1, n)
<1>2. n \in 0..Len(s)
  BY ONLY <1>1, n \in 1..Len(s)
<1>3. Listed(t) /\ Len(t) = n /\ \A i \in 1..n : t[i] = s[i]
  BY ONLY <1>1, <1>2, ListedPrefix
<1> HIDE DEF t
<1>4. ASSUME NEW i \in 2..n
      PROVE  t[i].state # {} /\ \E symbol : t[i].state = Goto(t[i - 1].state, symbol)
  <2>1. i \in 1..n /\ i - 1 \in 1..n /\ i \in 2..Len(s)
    BY ONLY <1>1, <1>2, i \in 2..n
  <2>2. t[i] = s[i] /\ t[i - 1] = s[i - 1]
    BY ONLY <2>1, <1>3
  <2> QED BY <2>1, <2>2 DEF StackOK
<1>5. 1 \in 1..n /\ \A i \in 1..n : i \in 1..Len(s)
  BY ONLY <1>1, <1>2, n \in 1..Len(s)
<1>6. n \in 1..n
  BY ONLY <1>1, n \in 1..Len(s)
<1>7. t[1].state = START /\ \A i \in 1..n : t[i].length \in Nat
  BY <1>3, <1>5 DEF StackOK
<1>8. n >= 1
  BY ONLY <1>1, n \in 1..Len(s)
<1>9. StackOK(t)
  BY ONLY <1>3, <1>4, <1>7, <1>8 DEF StackOK
<1>10. t[n] = s[n] /\ Len(t) = n
  BY ONLY <1>3, <1>6
<1> QED BY ONLY <1>9, <1>10 DEF t

LEMMA StackPushed ==
  ASSUME NEW s, StackOK(s), NEW entry, entry.length \in Nat, entry.state # {},
         NEW symbol, entry.state = Goto(s[Len(s)].state, symbol)
  PROVE  StackOK(Append(s, entry)) /\ Len(Append(s, entry)) = Len(s) + 1
<1> DEFINE t == Append(s, entry)
<1>1. Listed(s)
  BY DEF StackOK
<1>2. /\ Listed(t) /\ Len(s) \in Nat /\ Len(t) = Len(s) + 1
      /\ \A i \in 1..(Len(s) + 1) : t[i] = IF i = Len(s) + 1 THEN entry ELSE s[i]
  BY ONLY <1>1, ListedAppend
<1> HIDE DEF t
<1>3. ASSUME NEW i \in 2..Len(t)
      PROVE  t[i].state # {} /\ \E sym : t[i].state = Goto(t[i - 1].state, sym)
  <2>1. i \in 1..(Len(s) + 1) /\ i - 1 \in 1..(Len(s) + 1) /\ i - 1 # Len(s) + 1
    BY ONLY <1>2, i \in 2..Len(t)
  <2>2. t[i - 1] = s[i - 1]
    BY ONLY <2>1, <1>2
  <2>3. CASE i = Len(s) + 1
    <3>1. t[i] = entry /\ i - 1 = Len(s)
      BY ONLY <2>1, <2>3, <1>2
    <3> QED BY <3>1, <2>2
  <2>4. CASE i # Len(s) + 1
    <3>1. t[i] = s[i] /\ i \in 2..Len(s)
      BY ONLY <2>1, <2>4, <1>2, i \in 2..Len(t)
    <3> QED BY <3>1, <2>2 DEF StackOK
  <2> QED BY <2>3, <2>4
<1>4. ASSUME NEW i \in 1..Len(t) PROVE t[i].length \in Nat
  <2>1. CASE i = Len(s) + 1
    BY <2>1, <1>2
  <2>2. CASE i # Len(s) + 1
    <3>1. t[i] = s[i] /\ i \in 1..Len(s)
      BY ONLY <2>2, <1>2, i \in 1..Len(t)
    <3> QED BY <3>1 DEF StackOK
  <2> QED BY <2>1, <2>2
<1>5. t[1] = s[1] /\ Len(t) >= 1
  <2>1. Len(s) >= 1
    BY DEF StackOK
  <2> QED BY ONLY <2>1, <1>2
<1>6. StackOK(t)
  BY <1>2, <1>3, <1>4, <1>5 DEF StackOK
<1> QED BY <1>2, <1>6 DEF t

\* The allocations of an action are numbers of bytes, and the first one is small.
SmallFirst(sizes) == sizes \in Seq(Nat) /\ (sizes # <<>> => sizes[1] <= 32)

LEMMA AllocationsOK ==
  ASSUME NEW action, Listed(action.parts), NEW right,
         Textual(action) => right[1].length \in Nat
  PROVE  SmallFirst(Allocations(action, right))
<1>1. \A node : NodeSize(node) \in Nat /\ NodeSize(node) <= 32
  BY DEF NodeSize
<1>2. ASSUME action.do = "node" PROVE SmallFirst(Allocations(action, right))
  <2> DEFINE l == IF Textual(action) THEN right[1].length ELSE 0
  <2> DEFINE n == NodeSize(action.node)
  <2>1. l \in Nat /\ n \in Nat /\ n <= 32
    BY <1>1
  <2>2. Allocations(action, right) = IF action.node \in Named THEN <<n, l + 1>> ELSE <<n>>
    BY <1>2 DEF Allocations, SizesOfNode
  <2> HIDE DEF l, n
  <2>3. SmallFirst(<<n, l + 1>>)
    BY <2>1 DEF SmallFirst
  <2>4. SmallFirst(<<n>>)
    BY <2>1 DEF SmallFirst
  <2> QED BY <2>2, <2>3, <2>4
<1>3. ASSUME action.do = "list" PROVE SmallFirst(Allocations(action, right))
  <2> DEFINE N == Len(action.parts)
  <2> DEFINE entries == [i \in DOMAIN action.parts |-> EntrySize]
  <2> DEFINE sizes == <<ListSize>> \o entries
  <2>1. Allocations(action, right) = sizes
    BY <1>3 DEF Allocations
  <2>2. N \in Nat /\ DOMAIN action.parts = 1..N
    BY ListedLen
  <2>3. EntrySize \in Nat /\ ListSize \in Nat /\ ListSize <= 32
    BY DEF EntrySize, ListSize
  <2>4. entries \in Seq(Nat) /\ Len(entries) = N
    <3> HIDE DEF N
    <3>1. [i \in 1..N |-> EntrySize] \in Seq(Nat) /\ Len([i \in 1..N |-> EntrySize]) = N
      BY ONLY <2>2, <2>3, RepeatedSeq
    <3> QED BY ONLY <3>1, <2>2
  <2> HIDE DEF entries, N
  <2>5. <<ListSize>> \in Seq(Nat) /\ Len(<<ListSize>>) = 1 /\ <<ListSize>>[1] = ListSize
    BY ONLY <2>3
  <2>6. sizes \in Seq(Nat) /\ sizes[1] = ListSize
    BY ONLY <2>2, <2>4, <2>5
  <2> HIDE DEF sizes
  <2> QED BY ONLY <2>1, <2>3, <2>6 DEF SmallFirst
<1>4. ASSUME action.do = "extend" PROVE SmallFirst(Allocations(action, right))
  <2>1. Allocations(action, right) = <<EntrySize>>
    BY <1>4 DEF Allocations
  <2>2. SmallFirst(<<EntrySize>>)
    BY DEF SmallFirst, EntrySize
  <2> QED BY ONLY <2>1, <2>2
<1>5. ASSUME action.do \notin {"node", "list", "extend"}
      PROVE  SmallFirst(Allocations(action, right))
  <2>1. Allocations(action, right) = <<>>
    BY <1>5 DEF Allocations
  <2>2. SmallFirst(<<>>)
    BY EmptySeq DEF SmallFirst
  <2> QED BY ONLY <2>1, <2>2
<1> QED BY <1>2, <1>3, <1>4, <1>5

----------------------------------------------------------------------------
(***************************************************************************)
(* The invariant                                                           *)
(***************************************************************************)
\* The scanner: its stack and queue, and how long its lexemes are.
ScannerInv ==
  /\ IndentOK(indent_stack, token_queue, aborted) /\ aborted \in BOOLEAN
  /\ input \in Inputs
  /\ token.length \in Nat
  /\ next # <<>> => Head(next).length \in Nat

ParserInv ==
  /\ StackOK(stack) /\ Len(stack) <= YYMAXDEPTH
  /\ result = Parsing => Len(stack) < YYMAXDEPTH
  /\ PagesOK(pages)

IInv == ScannerInv /\ ParserInv

LEMMA StartScanner ==
  /\ IndentOK(<<0>>, EmptyQueue, FALSE)
  /\ NoToken.length = 1 /\ \A kind : Mark(kind).length = 1
<1>1. <<0>> \in Seq(Nat) /\ Len(<<0>>) = 1 /\ <<0>>[1] = 0
  OBVIOUS
<1>2. Growing(<<0>>)
  <2>1. 2..1 = {}
    OBVIOUS
  <2> QED BY ONLY <1>1, <2>1 DEF Growing
<1>3. IndentOK(<<0>>, EmptyQueue, FALSE)
  <2>1. 1 <= INDENT_STACK_MAX
    BY RoomAssumption
  <2> QED BY <1>1, <1>2, <2>1, EmptyQueueOK DEF IndentOK
<1> QED BY <1>3 DEF NoToken, Mark, Lexeme

LEMMA StartParser ==
  /\ StackOK(<<Entry(START, NULL)>>) /\ Len(<<Entry(START, NULL)>>) < YYMAXDEPTH
  /\ PagesOK(EmptyPages)
<1> DEFINE e == Entry(START, NULL)
<1>1. e.state = START /\ e.length \in Nat
  BY DEF Entry
<1> HIDE DEF e
<1>2. Listed(<<e>>) /\ Len(<<e>>) = 1 /\ <<e>>[1] = e
  BY PlainTuples
<1>3. StackOK(<<e>>)
  BY <1>1, <1>2 DEF StackOK
<1>4. PagesOK(<<>>)
  BY DEF PagesOK
<1> QED BY <1>2, <1>3, <1>4, DepthAssumption DEF e, EmptyPages

LEMMA InitInv == Init => IInv
<1> SUFFICES ASSUME Init PROVE IInv
  OBVIOUS
<1>1. ScannerInv
  <2>1. /\ input \in Inputs /\ indent_stack = <<0>> /\ token_queue = EmptyQueue
        /\ next = <<>> /\ token = NoToken /\ aborted = FALSE
    BY DEF Init, ScannerStart
  <2>2. IndentOK(indent_stack, token_queue, aborted)
    BY ONLY <2>1, StartScanner
  <2>3. token.length \in Nat
    BY ONLY <2>1, StartScanner
  <2> QED BY ONLY <2>1, <2>2, <2>3 DEF ScannerInv
<1>2. ParserInv
  BY StartParser, DepthAssumption DEF Init, ParserInv
<1> QED BY <1>1, <1>2 DEF IInv

\* What the scanner may meet in a line.
LEMMA FollowingOK ==
  ASSUME input \in Inputs, NEW line, NEW c \in Following(line)
  PROVE  c.length \in Nat
<1>1. input.lexemes \subseteq [token : STRING, text : STRING, length : Nat]
  BY InputAssumption
<1>2. c \in {NewLine, EndOfFile} \/ c \in input.lexemes
  BY DEF Following, Ends
<1> QED BY <1>1, <1>2 DEF NewLine, EndOfFile, Mark, Lexeme

LEMMA BlanksOK ==
  ASSUME input \in Inputs, NEW blanks \in input.blanks
  PROVE  Len(blanks) \in Nat /\ (blanks # <<>> => Len(Front(blanks)) \in Nat)
<1>1. blanks \in Seq({"space", "tab"})
  BY InputAssumption
<1>2. ASSUME blanks # <<>> PROVE Len(Front(blanks)) \in Nat
  <2>1. Len(blanks) \in Nat /\ Len(blanks) - 1 \in Nat
    BY ONLY <1>1, <1>2
  <2>2. Len(blanks) - 1 \in 0..Len(blanks)
    BY ONLY <2>1
  <2>3. Len(SubSeq(blanks, 1, Len(blanks) - 1)) = Len(blanks) - 1
    <3>1. Listed(blanks)
      BY ONLY <1>1 DEF Listed
    <3> QED BY ONLY <3>1, <2>2, ListedPrefix
  <2> QED BY ONLY <2>1, <2>3 DEF Front
<1> QED BY <1>1, <1>2

LEMMA ReturnQueuedInv ==
  ASSUME ScannerInv, ReturnQueued
  PROVE  ScannerInv'
<1>1. /\ token' = Mark(token_queue.tokens[token_queue.pos + 1])
      /\ token_queue' = [token_queue EXCEPT !.pos = @ + 1] /\ ~Drained
      /\ UNCHANGED <<input, indent_stack, next, aborted>>
  BY DEF ReturnQueued
<1>2. /\ token_queue.pos \in Nat /\ token_queue.pos <= Len(token_queue.tokens)
      /\ token_queue.tokens \in Seq(BlockTokens)
      /\ token_queue = [tokens |-> token_queue.tokens, pos |-> token_queue.pos]
  BY DEF ScannerInv, IndentOK
<1>3. token_queue'.tokens = token_queue.tokens /\ token_queue'.pos = token_queue.pos + 1
      /\ token_queue' = [tokens |-> token_queue'.tokens, pos |-> token_queue'.pos]
  BY <1>1, <1>2
<1>4. token_queue'.pos \in Nat /\ token_queue'.pos <= Len(token_queue'.tokens)
  <2>1. Len(token_queue.tokens) \in Nat /\ token_queue.pos # Len(token_queue.tokens)
    BY <1>1, <1>2 DEF Drained
  <2> QED BY ONLY <1>2, <1>3, <2>1
<1>5. IndentOK(indent_stack', token_queue', aborted')
  BY <1>1, <1>3, <1>4 DEF ScannerInv, IndentOK
<1>6. token'.length \in Nat
  BY <1>1, StartScanner
<1> QED BY <1>1, <1>5, <1>6 DEF ScannerInv

LEMMA NoMoreOK ==
  /\ <<>> \in Seq(BlockTokens) /\ Len(<<>>) <= 1
  /\ <<"LINE_END">> \in Seq(BlockTokens) /\ Len(<<"LINE_END">>) <= 1
  /\ <<"INPUT_END">> \in Seq(BlockTokens) /\ Len(<<"INPUT_END">>) <= 1
<1>1. "LINE_END" \in BlockTokens /\ "INPUT_END" \in BlockTokens
  BY DEF BlockTokens
<1>2. <<>> \in Seq(BlockTokens) /\ Len(<<>>) <= 1
  BY EmptySeq
<1>3. <<"LINE_END">> \in Seq(BlockTokens) /\ Len(<<"LINE_END">>) <= 1
  BY ONLY <1>1, SingleSeq
<1>4. <<"INPUT_END">> \in Seq(BlockTokens) /\ Len(<<"INPUT_END">>) <= 1
  BY ONLY <1>1, SingleSeq
<1> QED BY <1>2, <1>3, <1>4

LEMMA IndentInv ==
  ASSUME ScannerInv, ~aborted, Drained, input' = input, NEW level \in Nat,
         NEW more, more \in Seq(BlockTokens), Len(more) <= 1, more = <<>> \/ level = 0,
         CheckIndent(level, more), next' # <<>> => Head(next').length \in Nat
  PROVE  ScannerInv'
<1>1. /\ IndentOK(indent_stack', token_queue', aborted') /\ aborted' \in BOOLEAN
      /\ token' \in {token, NoToken, Mark("INDENT_ERROR")}
  BY CheckIndentOK DEF ScannerInv
<1>2. token'.length \in Nat
  BY <1>1, StartScanner DEF ScannerInv
<1> QED BY <1>1, <1>2 DEF ScannerInv

LEMMA LeadingBlanksInv ==
  ASSUME ScannerInv, ~aborted, LeadingBlanks
  PROVE  ScannerInv'
<1>1. PICK blanks \in input.blanks, c \in Following(<<>>) :
        /\ c \in Ends => blanks # <<>>
        /\ CheckIndent(Level(IF c \in Ends THEN Front(blanks) ELSE blanks), <<>>)
        /\ next' = <<c>>
  BY DEF LeadingBlanks
<1>2. Drained /\ input' = input /\ input \in Inputs
  BY DEF LeadingBlanks, AtStart, ScannerInv
<1> DEFINE level == Level(IF c \in Ends THEN Front(blanks) ELSE blanks)
<1>3. level \in Nat
  <2>1. Len(IF c \in Ends THEN Front(blanks) ELSE blanks) \in Nat
    BY <1>1, <1>2, BlanksOK
  <2> QED BY <2>1, LevelIsNat
<1>4. Head(next').length \in Nat
  BY <1>1, <1>2, FollowingOK
<1>5. CheckIndent(level, <<>>)
  BY ONLY <1>1
<1> HIDE DEF level
<1> QED BY ONLY <1>2, <1>3, <1>4, <1>5, NoMoreOK, IndentInv, ScannerInv, ~aborted

LEMMA MatchedInv ==
  ASSUME ScannerInv, InLine, UNCHANGED <<input, indent_stack, aborted>>, next' = <<>>,
         token_queue' = Restarted(token_queue), NEW c \in Upcoming, token' = c
  PROVE  ScannerInv'
<1>1. c.length \in Nat
  BY FollowingOK DEF Upcoming, ScannerInv
<1>2. IndentOK(indent_stack', token_queue', aborted')
  BY RestartedOK DEF ScannerInv
<1> QED BY <1>1, <1>2 DEF ScannerInv

\* What the scanner does keeps its part, and leaves the rest alone.
LEMMA yylexInv ==
  ASSUME ScannerInv, ~aborted, yylex
  PROVE  ScannerInv'
<1>1. CASE EnterStart
  BY <1>1, StartScanner DEF EnterStart, ScannerInv
<1>2. CASE ReturnQueued
  BY <1>2, ReturnQueuedInv
<1>3. CASE LeadingBlanks
  BY <1>3, LeadingBlanksInv
<1>4. CASE EmptyLine
  <2>1. Drained /\ input' = input /\ next' = next
    BY <1>4 DEF EmptyLine, AtStart
  <2>2. CASE interactive
    <3>1. CheckIndent(0, <<"LINE_END">>)
      BY <1>4, <2>2 DEF EmptyLine
    <3>2. next' # <<>> => Head(next').length \in Nat
      BY <2>1 DEF ScannerInv
    <3>3. 0 \in Nat /\ (<<"LINE_END">> = <<>> \/ 0 = 0)
      OBVIOUS
    <3> QED BY ONLY <2>1, <3>1, <3>2, <3>3, NoMoreOK, IndentInv, ScannerInv, ~aborted
  <2>3. CASE ~interactive
    BY <1>4, <2>1, <2>3 DEF EmptyLine, ScannerInv
  <2> QED BY <2>2, <2>3
<1>5. CASE EndAtStart
  <2>1. Drained /\ input' = input /\ next' = next /\ CheckIndent(0, <<"INPUT_END">>)
    BY <1>5 DEF EndAtStart, AtStart
  <2>2. next' # <<>> => Head(next').length \in Nat
    BY <2>1 DEF ScannerInv
  <2>3. 0 \in Nat /\ (<<"INPUT_END">> = <<>> \/ 0 = 0)
    OBVIOUS
  <2> QED BY ONLY <2>1, <2>2, <2>3, NoMoreOK, IndentInv, ScannerInv, ~aborted
<1>6. CASE MatchLexeme
  <2>1. PICK c \in Upcoming \ Ends : token' = c
    BY <1>6 DEF MatchLexeme
  <2>2. /\ InLine /\ UNCHANGED <<input, indent_stack, aborted>> /\ next' = <<>>
        /\ token_queue' = Restarted(token_queue)
    BY <1>6 DEF MatchLexeme
  <2> QED BY <2>1, <2>2, MatchedInv
<1>7. CASE MatchEnd
  <2>1. PICK c \in Upcoming \cap Ends : token' = c
    BY <1>7 DEF MatchEnd
  <2>2. /\ InLine /\ UNCHANGED <<input, indent_stack, aborted>> /\ next' = <<>>
        /\ token_queue' = Restarted(token_queue)
    BY <1>7 DEF MatchEnd
  <2> QED BY <2>1, <2>2, MatchedInv
<1> QED BY <1>1, <1>2, <1>3, <1>4, <1>5, <1>6, <1>7 DEF yylex

LEMMA LexInv ==
  ASSUME IInv, Lex
  PROVE  IInv'
<1>1. ~aborted /\ yylex /\ UNCHANGED <<stack, pages, result>>
  BY DEF Lex, Running
<1>2. ScannerInv'
  BY <1>1, yylexInv DEF IInv
<1>3. ParserInv'
  BY <1>1 DEF IInv, ParserInv
<1> QED BY <1>2, <1>3 DEF IInv

\* A push keeps the stack within its room as long as the parse goes on.
LEMMA PushInv ==
  ASSUME NEW below, StackOK(below), Len(below) < YYMAXDEPTH,
         NEW entry, entry.length \in Nat, entry.state # {},
         NEW symbol, entry.state = Goto(below[Len(below)].state, symbol),
         Push(below, entry)
  PROVE  /\ StackOK(stack') /\ Len(stack') <= YYMAXDEPTH
         /\ result' = Parsing => Len(stack') < YYMAXDEPTH
<1>1. stack' = Append(below, entry)
  BY DEF Push
<1>2. result' = IF Len(below) + 1 >= YYMAXDEPTH THEN 2 ELSE Parsing
  BY DEF Push
<1>3. StackOK(Append(below, entry)) /\ Len(Append(below, entry)) = Len(below) + 1
  BY StackPushed
<1>4. Len(below) \in Nat /\ YYMAXDEPTH \in Nat
  BY ListedLen, DepthAssumption DEF StackOK
<1>5. Parsing # 2
  BY DEF Parsing
<1> QED BY ONLY <1>1, <1>2, <1>3, <1>4, <1>5, Len(below) < YYMAXDEPTH

LEMMA ShiftInv ==
  ASSUME IInv, Shift
  PROVE  IInv'
<1>1. /\ Running /\ Leads /\ token' = NoToken
      /\ UNCHANGED <<input, indent_stack, token_queue, next, aborted, pages>>
  BY DEF Shift
<1>2. ScannerInv'
  BY <1>1, StartScanner DEF IInv, ScannerInv
<1> DEFINE entry == [Entry(Goto(State, token.token), Tree(token.token, token.text, <<>>))
                     EXCEPT !.length = token.length]
<1>3. Push(stack, entry)
  BY DEF Shift
<1>4. entry.length = token.length /\ entry.state = Goto(State, token.token)
  BY DEF Entry
<1> HIDE DEF entry
<1>5. entry.length \in Nat /\ entry.state # {}
  BY <1>1, <1>4 DEF Leads, IInv, ScannerInv
<1>6. entry.state = Goto(stack[Len(stack)].state, token.token)
  BY <1>4 DEF State, Last
<1>7. StackOK(stack) /\ Len(stack) < YYMAXDEPTH /\ PagesOK(pages)
  BY <1>1 DEF Running, IInv, ParserInv
<1>8. /\ StackOK(stack') /\ Len(stack') <= YYMAXDEPTH
      /\ result' = Parsing => Len(stack') < YYMAXDEPTH
  BY ONLY <1>3, <1>5, <1>6, <1>7, PushInv
<1>9. ParserInv'
  BY <1>1, <1>7, <1>8 DEF ParserInv
<1> QED BY <1>2, <1>9 DEF IInv

LEMMA SubSeqFirst ==
  ASSUME NEW S, NEW s \in Seq(S), NEW m \in 1..Len(s)
  PROVE  SubSeq(s, m, Len(s))[1] = s[m]
OBVIOUS

LEMMA ReduceInv ==
  ASSUME IInv, NEW r \in Complete(State), Reduce(r)
  PROVE  IInv'
<1> DEFINE action == Rules[r].action
           depth == Len(stack) - Len(Rules[r].right)
           right == SubSeq(stack, depth + 1, Len(stack))
           below == SubSeq(stack, 1, depth)
           entry == Entry(Goto(Last(below).state, Rules[r].left), Value(action, right))
<1>1. /\ Running /\ action.do \notin {"accept", "quit"} /\ UNCHANGED scannerVars
      /\ pages' = AllocatedAll(pages, Allocations(action, right))
      /\ Push(below, entry)
  BY DEF Reduce, Reducible
<1>2. StackOK(stack) /\ Len(stack) < YYMAXDEPTH /\ PagesOK(pages)
  BY <1>1 DEF Running, IInv, ParserInv
<1>3. Listed(stack) /\ Len(stack) \in Nat /\ r \in Complete(stack[Len(stack)].state)
  BY <1>2, ListedLen DEF StackOK, State, Last
<1>4. /\ r \in DOMAIN Rules /\ RuleOK(Rules[r]) /\ Len(Rules[r].right) \in Nat
      /\ depth \in 1..Len(stack) /\ Goto(stack[depth].state, Rules[r].left) # {}
  BY <1>1, <1>2, <1>3, CompleteOnStack
<1>5. StackOK(below) /\ Len(below) = depth /\ below[depth] = stack[depth]
  <2> HIDE DEF depth
  <2> QED BY ONLY <1>2, <1>4, StackPrefix
<1>6. entry.length = 0 /\ entry.state = Goto(below[depth].state, Rules[r].left)
  <2>1. Last(below) = below[depth]
    BY <1>5 DEF Last
  <2> HIDE DEF below, action, right, depth
  <2> QED BY <2>1 DEF Entry
<1>7. Textual(action) => right[1].length \in Nat
  <2> HAVE Textual(action)
  <2>1. Rules[r].right # <<>> /\ Listed(Rules[r].right)
    BY <1>4 DEF RuleOK
  <2>2. Len(Rules[r].right) >= 1
    BY <2>1, <1>4 DEF Listed
  <2>3. depth + 1 \in 1..Len(stack)
    BY ONLY <2>2, <1>3, <1>4
  <2>4. right[1] = stack[depth + 1]
    <3>1. PICK S : stack \in Seq(S)
      BY <1>3 DEF Listed
    <3> DEFINE first == depth + 1
    <3> HIDE DEF first
    <3>2. SubSeq(stack, first, Len(stack))[1] = stack[first]
      BY <3>1, <2>3, SubSeqFirst DEF first
    <3> QED BY <3>2 DEF first
  <2> QED BY <2>3, <2>4, <1>2 DEF StackOK
<1>8. Listed(action.parts)
  BY <1>4 DEF RuleOK
<1> HIDE DEF action, right, below, entry
<1>9. SmallFirst(Allocations(action, right))
  BY ONLY <1>7, <1>8, AllocationsOK
<1>10. PagesOK(pages')
  <2> DEFINE sizes == Allocations(action, right)
  <2>1. sizes \in Seq(Nat) /\ (sizes # <<>> => sizes[1] <= AST_POOL_PGSIZE)
    <3>1. sizes \in Seq(Nat) /\ (sizes # <<>> => sizes[1] <= 32)
      BY ONLY <1>9 DEF SmallFirst
    <3>2. sizes # <<>> => sizes[1] \in Nat
      BY ONLY <3>1
    <3> HIDE DEF sizes
    <3> QED BY ONLY <3>1, <3>2, PageAssumption
  <2>2. pages' = AllocatedAll(pages, sizes)
    BY <1>1
  <2> HIDE DEF sizes
  <2> QED BY ONLY <2>1, <2>2, <1>2, AllocatedAllOK
<1>11. Len(below) < YYMAXDEPTH
  BY ONLY <1>2, <1>3, <1>4, <1>5, DepthAssumption
<1>12. entry.length \in Nat /\ entry.state # {} /\ below[Len(below)] = below[depth]
  BY <1>4, <1>5, <1>6
<1> HIDE DEF depth
<1>13. entry.state = Goto(below[Len(below)].state, Rules[r].left)
  BY ONLY <1>6, <1>12
<1>14. /\ StackOK(stack') /\ Len(stack') <= YYMAXDEPTH
       /\ result' = Parsing => Len(stack') < YYMAXDEPTH
  BY ONLY <1>1, <1>5, <1>11, <1>12, <1>13, PushInv
<1>15. ParserInv'
  BY <1>10, <1>14 DEF ParserInv
<1>16. ScannerInv'
  BY <1>1 DEF scannerVars, ScannerInv, IInv
<1> QED BY <1>15, <1>16 DEF IInv

LEMMA NextInv == IInv /\ [Next]_vars => IInv'
<1> SUFFICES ASSUME IInv, [Next]_vars PROVE IInv'
  OBVIOUS
<1>1. CASE Lex
  BY <1>1, LexInv
<1>2. CASE Shift
  BY <1>2, ShiftInv
<1>3. ASSUME NEW r \in Complete(State), Reduce(r) PROVE IInv'
  BY <1>3, ReduceInv
<1>4. ASSUME NEW r \in Complete(State), Finish(r) PROVE IInv'
  <2>1. UNCHANGED scannerVars /\ UNCHANGED <<stack, pages>> /\ result' # Parsing
    BY <1>4 DEF Finish, Parsing
  <2> QED BY <2>1 DEF IInv, ScannerInv, ParserInv, scannerVars
<1>5. CASE SyntaxError
  <2>1. UNCHANGED scannerVars /\ UNCHANGED <<stack, pages>> /\ result' # Parsing
    BY <1>5 DEF SyntaxError, Parsing
  <2> QED BY <2>1 DEF IInv, ScannerInv, ParserInv, scannerVars
<1>6. CASE NextTurn
  <2>1. /\ indent_stack' = <<0>> /\ token_queue' = EmptyQueue /\ next' = <<>>
        /\ token' = NoToken /\ input' = input /\ aborted' = aborted /\ ~aborted
        /\ stack' = <<Entry(START, NULL)>> /\ pages' = EmptyPages /\ result' = Parsing
    BY <1>6 DEF NextTurn, ScannerRestart
  <2>2. aborted \in BOOLEAN /\ input \in Inputs
    BY DEF IInv, ScannerInv
  <2>3. IndentOK(indent_stack', token_queue', aborted')
    <3>1. aborted' = FALSE
      BY ONLY <2>1, <2>2
    <3> QED BY ONLY <3>1, <2>1, StartScanner
  <2>4. token'.length \in Nat
    BY ONLY <2>1, StartScanner
  <2>5. ScannerInv'
    BY <2>1, <2>2, <2>3, <2>4 DEF ScannerInv
  <2>6. ParserInv'
    <3>1. Len(<<Entry(START, NULL)>>) <= YYMAXDEPTH
      BY StartParser, ListedLen, DepthAssumption DEF StackOK
    <3> QED BY ONLY <3>1, <2>1, StartParser DEF ParserInv
  <2> QED BY <2>5, <2>6 DEF IInv
<1>7. CASE UNCHANGED vars
  BY <1>7 DEF vars, scannerVars, IInv, ScannerInv, ParserInv
<1> QED BY <1>1, <1>2, <1>3, <1>4, <1>5, <1>6, <1>7 DEF Next, yyparse

\* What the parser keeps at all times: its stack is the way that the automaton
\* took, so that each rule it completes is on the stack as a whole and its
\* symbol leads on (grammar.y.c:1700-1990); its pool is filled in order
\* (ast.c:31-60); and its scanner's stack and queue are in order.
THEOREM ParserInvariant == Spec => []IInv
<1>1. Init => IInv
  BY InitInv
<1>2. IInv /\ [Next]_vars => IInv'
  BY NextInv
<1> QED BY <1>1, <1>2, PTL DEF Spec

\* No allocation of a node, an entry or a copied name goes beyond the end of its
\* page, although the check for room compares unsigned numbers: the current page
\* is never filled beyond the usual size (ast.c:31-60).
THEOREM PagesAlwaysHold == Spec => []PagesHold
<1>1. IInv => PagesHold
  BY DEF IInv, ParserInv, PagesOK, PagesHold
<1> QED BY <1>1, ParserInvariant, PTL

\* The stack of the parser, the indentation stack and the token queue stay within
\* their arrays for every grammar-conforming or erroneous text, no state of the
\* parser is empty, and the assertions on the queue and the levels can only fail
\* when as many blocks are open as there is room for (grammar.y.c:281, 378).
THEOREM LimitsAlwaysHold == Spec => []LimitsHold
<1>1. ASSUME IInv PROVE LimitsHold
  <2>1. StackOK(stack) /\ Len(stack) <= YYMAXDEPTH
    BY <1>1 DEF IInv, ParserInv
  <2>2. Listed(stack) /\ Len(stack) >= 1
    BY <2>1 DEF StackOK
  <2>3. Len(stack) \in Nat /\ DOMAIN stack = 1..Len(stack)
    BY <2>2, ListedLen
  <2>4. Len(stack) \in 1..YYMAXDEPTH
    BY <2>1, <2>2, <2>3, DepthAssumption
  <2>5. \A i \in DOMAIN stack : stack[i].state # {}
    BY <2>1, <2>3, StackStates
  <2>6. IndentOK(indent_stack, token_queue, aborted)
    BY <1>1 DEF IInv, ScannerInv
  <2>7. Head(indent_stack) = 0
    BY <2>6 DEF IndentOK, Growing
  <2> QED BY <2>4, <2>5, <2>6, <2>7 DEF LimitsHold, IndentOK, Growing
<1> QED BY <1>1, ParserInvariant, PTL

----------------------------------------------------------------------------
(***************************************************************************)
(* The text of names and strings                                           *)
(***************************************************************************)
\* A state that completes a rule with a name or a string was reached by that
\* token, and asks for no other one.
LEMMA CopyState ==
  ASSUME NEW k, Kernel(k), NEW symbol, NEW r \in Complete(Goto(k, symbol)),
         Copies(Rules[r].action)
  PROVE  symbol \in Texts /\ Decided(Goto(k, symbol))
<1> DEFINE K == Goto(k, symbol)
<1>1. Kernel(K) /\ \A q, d : <<q, d>> \in K =>
        /\ d \in Nat \ {0} /\ d <= Len(Rules[q].right) /\ Rules[q].right[d] = symbol
  <2>1. Kernel(Goto(k, symbol))
    BY GotoOK
  <2>2. \A q, d : <<q, d>> \in Goto(k, symbol) =>
          /\ d \in Nat \ {0} /\ d <= Len(Rules[q].right) /\ Rules[q].right[d] = symbol
    <3>1. \A a, s : Kernel(a) =>
            \A q, d : <<q, d>> \in Goto(a, s) =>
              /\ d \in Nat \ {0} /\ <<q, d - 1>> \in Items(a) /\ d <= Len(Rules[q].right)
              /\ Rules[q].right[d] = s
      BY ONLY GotoOK
    <3>2. \A q, d : <<q, d>> \in Goto(k, symbol) =>
              /\ d \in Nat \ {0} /\ <<q, d - 1>> \in Items(k) /\ d <= Len(Rules[q].right)
              /\ Rules[q].right[d] = symbol
      BY ONLY <3>1, Kernel(k)
    <3> QED BY ONLY <3>2
  <2> QED BY ONLY <2>1, <2>2
<1>2. r \in Complete(K)
  OBVIOUS
<1> HIDE DEF K
<1>3. PICK item \in Items(K) : item[1] = r /\ NextSymbol(item) = {}
  BY ONLY <1>2 DEF Complete
<1> DEFINE d == item[2]
<1>4. item = <<r, d>> /\ r \in DOMAIN Rules
  BY ONLY <1>1, <1>3, ItemsOK
<1> HIDE DEF d
<1>5. PICK t \in Texts : Rules[r].right = <<t>>
  BY ONLY <1>4, RulesOK, Copies(Rules[r].action) DEF RuleOK
<1>6. Len(Rules[r].right) = 1 /\ Rules[r].right[1] = t
  BY ONLY <1>5
<1>7. d # 0
  <2>1. ~(item[2] < Len(Rules[item[1]].right))
    <3>1. {Rules[item[1]].right[item[2] + 1]} # {}
      OBVIOUS
    <3> QED BY ONLY <3>1, <1>3 DEF NextSymbol
  <2> QED BY ONLY <2>1, <1>3, <1>6 DEF d
<1>8. <<r, d>> \in K
  BY ONLY <1>1, <1>3, <1>4, <1>7, ItemsOK
<1>9. d = 1 /\ symbol = t
  BY ONLY <1>1, <1>6, <1>8
<1>10. ASSUME NEW other \in K PROVE other = <<r, 1>>
  <2> DEFINE q == other[1]
             e == other[2]
  <2>1. other = <<q, e>> /\ q \in DOMAIN Rules
    BY <1>1 DEF Kernel
  <2> HIDE DEF q, e
  <2>2. e \in Nat \ {0} /\ e <= Len(Rules[q].right) /\ Rules[q].right[e] = symbol
    BY ONLY <1>1, <2>1, other \in K
  <2>3. RuleOK(Rules[q])
    BY ONLY <2>1, RulesOK
  <2>4. Listed(Rules[q].right)
    BY ONLY <2>3 DEF RuleOK
  <2>5. Len(Rules[q].right) \in Nat
    BY ONLY <2>4, ListedLen
  <2>6. e \in 1..Len(Rules[q].right)
    BY ONLY <2>2, <2>5
  <2>7. ~Clean(Rules[q].right)
    BY ONLY <2>2, <2>6, <1>9, t \in Texts DEF Clean
  <2>8. Copies(Rules[q].action) /\ \E u \in Texts : Rules[q].right = <<u>>
    BY ONLY <2>3, <2>7 DEF RuleOK
  <2>9. PICK u \in Texts : Rules[q].right = <<u>>
    BY ONLY <2>8
  <2>10. Len(Rules[q].right) = 1 /\ Rules[q].right[1] = u
    BY ONLY <2>9
  <2>11. e = 1
    BY ONLY <2>2, <2>10
  <2>12. u = t
    BY ONLY <2>2, <2>10, <2>11, <1>9
  <2>13. q = r
    BY ONLY <2>1, <2>8, <2>9, <2>12, <1>4, <1>5, CopiedOnce, Copies(Rules[r].action)
  <2> QED BY ONLY <2>1, <2>11, <2>13
<1>11. K = {<<r, 1>>}
  BY ONLY <1>8, <1>9, <1>10
<1>12. NextSymbol(<<r, 1>>) = {}
  BY ONLY <1>6 DEF NextSymbol
<1>13. Items(K) = {<<r, 1>>}
  BY ONLY <1>11, <1>12 DEF Items
<1>14. Cardinality(Items(K)) = 1
  BY ONLY <1>13, FS_Singleton
<1>15. Decided(K)
  BY ONLY <1>2, <1>14 DEF Decided
<1> QED BY <1>9, <1>15 DEF K

\* At the start no rule with anything in it is complete.
LEMMA StartCopiesNothing ==
  ASSUME NEW r \in Complete(START)
  PROVE  ~Copies(Rules[r].action)
<1> SUFFICES ASSUME Copies(Rules[r].action) PROVE FALSE
  OBVIOUS
<1>1. PICK item \in Items(START) : item[1] = r /\ NextSymbol(item) = {}
  BY DEF Complete
<1> DEFINE d == item[2]
<1>2. item = <<r, d>> /\ r \in DOMAIN Rules
  BY ONLY <1>1, StartOK, ItemsOK
<1> HIDE DEF d
<1>3. d = 0
  BY ONLY <1>1, <1>2, StartOK, ItemsOK
<1>4. PICK t \in Texts : Rules[r].right = <<t>>
  BY ONLY <1>2, RulesOK, Copies(Rules[r].action) DEF RuleOK
<1>5. Len(Rules[r].right) = 1
  BY ONLY <1>4
<1>6. NextSymbol(item) = {Rules[r].right[0 + 1]}
  <2>1. item[1] = r /\ item[2] = 0
    BY ONLY <1>2, <1>3
  <2>2. 0 < Len(Rules[r].right)
    BY ONLY <1>5
  <2> QED BY ONLY <2>1, <2>2 DEF NextSymbol
<1> QED BY ONLY <1>1, <1>6

\* The text of a token that is a name or a string is where the scanner has it.
TextInv == token.token \in Texts => token.text = yytext

LEMMA TextOfMarks ==
  /\ \A kind : kind \notin Texts => Mark(kind).token \notin Texts
  /\ NoToken.token \notin Texts /\ Mark("INDENT_ERROR").token \notin Texts
BY DEF Mark, Lexeme, NoToken, Texts

LEMMA LexTextInv ==
  ASSUME ScannerInv, ~aborted, token = NoToken, yylex
  PROVE  TextInv'
<1>1. ASSUME NEW level \in Nat, NEW more, more \in Seq(BlockTokens), Len(more) <= 1,
             more = <<>> \/ level = 0, Drained, CheckIndent(level, more)
      PROVE  TextInv'
  <2>1. token' \in {token, NoToken, Mark("INDENT_ERROR")}
    BY <1>1, CheckIndentOK DEF ScannerInv
  <2>2. token'.token \notin Texts
    BY ONLY <2>1, token = NoToken, TextOfMarks
  <2> QED BY ONLY <2>2 DEF TextInv
<1>2. CASE EnterStart
  <2>1. token' = Mark("START_SINGLE") \/ token' = Mark("START_FILE")
    BY <1>2 DEF EnterStart
  <2>2. "START_SINGLE" \notin Texts /\ "START_FILE" \notin Texts
    BY DEF Texts
  <2> QED BY ONLY <2>1, <2>2, TextOfMarks DEF TextInv
<1>3. CASE ReturnQueued
  <2>1. token' = Mark(token_queue.tokens[token_queue.pos + 1]) /\ ~Drained
    BY <1>3 DEF ReturnQueued
  <2>2. /\ token_queue.tokens \in Seq(BlockTokens) /\ token_queue.pos \in Nat
        /\ token_queue.pos <= Len(token_queue.tokens)
    BY DEF ScannerInv, IndentOK
  <2>3. token_queue.pos + 1 \in 1..Len(token_queue.tokens)
    BY ONLY <2>1, <2>2 DEF Drained
  <2>4. token_queue.tokens[token_queue.pos + 1] \in BlockTokens
    BY ONLY <2>2, <2>3
  <2>5. \A kind \in BlockTokens : kind \notin Texts
    BY DEF BlockTokens, Texts
  <2> QED BY ONLY <2>1, <2>4, <2>5, TextOfMarks DEF TextInv
<1>4. CASE LeadingBlanks
  <2>1. PICK blanks \in input.blanks, c \in Following(<<>>) :
          /\ c \in Ends => blanks # <<>>
          /\ CheckIndent(Level(IF c \in Ends THEN Front(blanks) ELSE blanks), <<>>)
    BY <1>4 DEF LeadingBlanks
  <2>2. Len(IF c \in Ends THEN Front(blanks) ELSE blanks) \in Nat
    BY <2>1, BlanksOK DEF ScannerInv
  <2>3. Drained
    BY <1>4 DEF LeadingBlanks, AtStart
  <2> DEFINE level == Level(IF c \in Ends THEN Front(blanks) ELSE blanks)
  <2>4. level \in Nat /\ CheckIndent(level, <<>>)
    BY <2>1, <2>2, LevelIsNat
  <2> HIDE DEF level
  <2> QED BY ONLY <2>3, <2>4, <1>1, NoMoreOK
<1>5. CASE EmptyLine
  <2>1. Drained
    BY <1>5 DEF EmptyLine, AtStart
  <2>2. CASE interactive
    <3>1. CheckIndent(0, <<"LINE_END">>)
      BY <1>5, <2>2 DEF EmptyLine
    <3>2. 0 \in Nat /\ (<<"LINE_END">> = <<>> \/ 0 = 0)
      OBVIOUS
    <3> QED BY ONLY <2>1, <3>1, <3>2, <1>1, NoMoreOK
  <2>3. CASE ~interactive
    <3>1. token' = token
      BY <1>5, <2>3 DEF EmptyLine
    <3> QED BY ONLY <3>1, token = NoToken, TextOfMarks DEF TextInv
  <2> QED BY <2>2, <2>3
<1>6. CASE EndAtStart
  <2>1. Drained /\ CheckIndent(0, <<"INPUT_END">>)
    BY <1>6 DEF EndAtStart, AtStart
  <2>2. 0 \in Nat /\ (<<"INPUT_END">> = <<>> \/ 0 = 0)
    OBVIOUS
  <2> QED BY ONLY <2>1, <2>2, <1>1, NoMoreOK
<1>7. CASE MatchLexeme
  <2>1. \E c \in Upcoming \ Ends : token' = c /\ yytext' = c.text
    BY <1>7 DEF MatchLexeme
  <2> QED BY ONLY <2>1 DEF TextInv
<1>8. CASE MatchEnd
  <2>1. token' \in Ends
    BY <1>8 DEF MatchEnd
  <2>2. token' \in {NewLine, EndOfFile}
    BY ONLY <2>1 DEF Ends
  <2>3. "LINE_END" \notin Texts /\ "INPUT_END" \notin Texts
    BY DEF Texts
  <2> QED BY ONLY <2>2, <2>3, TextOfMarks DEF TextInv, NewLine, EndOfFile
<1> QED BY <1>2, <1>3, <1>4, <1>5, <1>6, <1>7, <1>8 DEF yylex

LEMMA TextInit == Init => TextInv /\ TextAtHand
<1> SUFFICES ASSUME Init PROVE TextInv /\ TextAtHand
  OBVIOUS
<1>1. token = NoToken /\ stack = <<Entry(START, NULL)>>
  BY DEF Init, ScannerStart
<1>2. State = START
  <2>1. Len(<<Entry(START, NULL)>>) = 1
    OBVIOUS
  <2> QED BY <1>1, <2>1 DEF State, Last, Entry
<1> QED BY <1>1, <1>2, TextOfMarks, StartCopiesNothing DEF TextInv, TextAtHand

\* A rule that copies is complete only in a state that a name or a string led to.
LEMMA TextStep ==
  ASSUME IInv, TextInv, TextAtHand, [Next]_vars
  PROVE  TextInv' /\ TextAtHand'
<1>1. CASE Lex
  <2>1. ~aborted /\ token = NoToken /\ ~Decided(State) /\ yylex /\ stack' = stack
    BY <1>1 DEF Lex, Running
  <2>2. TextInv'
    BY <2>1, LexTextInv DEF IInv
  <2>3. ASSUME NEW r \in Complete(State) PROVE ~Copies(Rules[r].action)
    <3> SUFFICES ASSUME Copies(Rules[r].action) PROVE FALSE
      OBVIOUS
    <3>1. StackOK(stack)
      BY DEF IInv, ParserInv
    <3>2. Len(stack) \in Nat /\ Len(stack) >= 1
      BY <3>1, ListedLen DEF StackOK
    <3>3. State = stack[Len(stack)].state
      BY DEF State, Last
    <3>4. Len(stack) # 1
      BY <3>1, <3>3, StartCopiesNothing DEF StackOK
    <3>5. Len(stack) \in 2..Len(stack) /\ Len(stack) - 1 \in 1..Len(stack)
      <4> DEFINE n == Len(stack)
      <4>1. n \in Nat /\ n >= 1 /\ n # 1
        BY <3>2, <3>4
      <4> HIDE DEF n
      <4>2. n \in 2..n /\ n - 1 \in 1..n
        BY ONLY <4>1
      <4> QED BY ONLY <4>2 DEF n
    <3>6. PICK symbol : State = Goto(stack[Len(stack) - 1].state, symbol)
      BY <3>1, <3>3, <3>5 DEF StackOK
    <3>7. Kernel(stack[Len(stack) - 1].state)
      BY <3>1, <3>5, StackStates
    <3>8. r \in Complete(Goto(stack[Len(stack) - 1].state, symbol))
      BY <3>6
    <3>9. Decided(Goto(stack[Len(stack) - 1].state, symbol))
      BY ONLY <3>7, <3>8, CopyState, Copies(Rules[r].action)
    <3> QED BY <3>6, <3>9, <2>1
  <2>4. State' = State
    BY <2>1 DEF State
  <2>5. TextAtHand'
    BY ONLY <2>3, <2>4 DEF TextAtHand
  <2> QED BY <2>2, <2>5
<1>2. CASE Shift
  <2> DEFINE entry == [Entry(Goto(State, token.token), Tree(token.token, token.text, <<>>))
                       EXCEPT !.length = token.length]
  <2>1. token' = NoToken /\ yytext' = yytext /\ stack' = Append(stack, entry)
    BY <1>2 DEF Shift, Push
  <2>2. TextInv'
    BY ONLY <2>1, TextOfMarks DEF TextInv
  <2>3. entry.state = Goto(State, token.token) /\ entry.value.text = token.text
    BY DEF Entry, Tree
  <2> HIDE DEF entry
  <2>4. Last(stack') = entry
    BY <2>1, ListedAppend, ListedLen DEF IInv, ParserInv, StackOK, Last
  <2>5. Kernel(State)
    <3>1. StackOK(stack)
      BY DEF IInv, ParserInv
    <3>2. Len(stack) \in Nat /\ Len(stack) >= 1
      BY <3>1, ListedLen DEF StackOK
    <3>3. Len(stack) \in 1..Len(stack)
      BY ONLY <3>2
    <3> QED BY <3>1, <3>3, StackStates DEF State, Last
  <2>6. ASSUME NEW r \in Complete(Goto(State, token.token)), Copies(Rules[r].action)
        PROVE  token.text = yytext
    <3> DEFINE k == State
               symbol == token.token
    <3>1. Kernel(k) /\ r \in Complete(Goto(k, symbol))
      BY <2>5
    <3> HIDE DEF k, symbol
    <3>2. symbol \in Texts
      BY ONLY <3>1, <2>6, CopyState
    <3> QED BY <3>2 DEF TextInv, symbol
  <2>7. State' = Goto(State, token.token)
    BY <2>3, <2>4 DEF State
  <2>8. TextAtHand'
    BY ONLY <2>1, <2>3, <2>4, <2>6, <2>7 DEF TextAtHand
  <2> QED BY <2>2, <2>8
<1>3. ASSUME NEW q \in Complete(State), Reduce(q) PROVE TextInv' /\ TextAtHand'
  <2> DEFINE action == Rules[q].action
             depth == Len(stack) - Len(Rules[q].right)
             right == SubSeq(stack, depth + 1, Len(stack))
             below == SubSeq(stack, 1, depth)
             entry == Entry(Goto(Last(below).state, Rules[q].left), Value(action, right))
  <2>1. UNCHANGED scannerVars /\ stack' = Append(below, entry)
    BY <1>3 DEF Reduce, Push
  <2>2. TextInv'
    BY <2>1 DEF TextInv, scannerVars
  <2>3. StackOK(stack) /\ q \in Complete(stack[Len(stack)].state)
    BY DEF IInv, ParserInv, State, Last
  <2>4. q \in DOMAIN Rules /\ RuleOK(Rules[q]) /\ depth \in 1..Len(stack)
    BY ONLY <2>3, CompleteOnStack
  <2> HIDE DEF depth
  <2>5. StackOK(below) /\ Len(below) = depth
    BY ONLY <2>3, <2>4, StackPrefix
  <2> HIDE DEF below
  <2>6. Kernel(Last(below).state)
    <3>1. Len(below) \in Nat /\ Len(below) >= 1
      BY <2>5, ListedLen DEF StackOK
    <3>2. Len(below) \in 1..Len(below)
      BY ONLY <3>1
    <3> QED BY <2>5, <3>2, StackStates DEF Last
  <2>7. entry.state = Goto(Last(below).state, Rules[q].left)
    BY DEF Entry
  <2> HIDE DEF entry
  <2>8. Last(stack') = entry
    BY <2>1, <2>5, ListedAppend DEF StackOK, Last
  <2>9. State' = Goto(Last(below).state, Rules[q].left)
    BY <2>7, <2>8 DEF State
  <2>10. Rules[q].left \notin Texts
    BY ONLY <2>4 DEF RuleOK
  <2>11. ASSUME NEW r \in Complete(Goto(Last(below).state, Rules[q].left)) PROVE ~Copies(Rules[r].action)
    BY ONLY <2>6, <2>10, CopyState
  <2>12. TextAtHand'
    BY ONLY <2>9, <2>11 DEF TextAtHand
  <2> QED BY <2>2, <2>12
<1>4. ASSUME NEW r \in Complete(State), Finish(r) PROVE TextInv' /\ TextAtHand'
  <2>1. UNCHANGED scannerVars /\ stack' = stack
    BY <1>4 DEF Finish
  <2> QED BY <2>1 DEF TextInv, TextAtHand, State, scannerVars
<1>5. CASE SyntaxError
  <2>1. UNCHANGED scannerVars /\ stack' = stack
    BY <1>5 DEF SyntaxError
  <2> QED BY <2>1 DEF TextInv, TextAtHand, State, scannerVars
<1>6. CASE NextTurn
  <2>1. token' = NoToken /\ stack' = <<Entry(START, NULL)>>
    BY <1>6 DEF NextTurn, ScannerRestart
  <2>2. State' = START
    <3>1. Len(<<Entry(START, NULL)>>) = 1
      OBVIOUS
    <3> QED BY <2>1, <3>1 DEF State, Last, Entry
  <2> QED BY <2>1, <2>2, TextOfMarks, StartCopiesNothing DEF TextInv, TextAtHand
<1>7. CASE UNCHANGED vars
  BY <1>7 DEF vars, scannerVars, TextInv, TextAtHand, State
<1> QED BY <1>1, <1>2, <1>3, <1>4, <1>5, <1>6, <1>7 DEF Next, yyparse

\* Although the parser holds only the address of the scanner's text, what it is
\* about to copy into a name or a string is what the scanner matched last: no
\* token is asked for between a name or a string and the rule that copies it
\* (grammar.l.c:1196-1208, grammar.y.c:1937, 1979).
THEOREM TextsAtHand == Spec => []TextAtHand
<1> DEFINE I == IInv /\ TextInv /\ TextAtHand
<1>1. Init => I
  BY InitInv, TextInit
<1>2. I /\ [Next]_vars => I'
  BY NextInv, TextStep
<1> HIDE DEF I
<1>3. Spec => []I
  BY <1>1, <1>2, PTL DEF Spec
<1>4. I => TextAtHand
  BY DEF I
<1> QED BY <1>3, <1>4, PTL
=============================================================================
