----------------------------- MODULE DataLemmas -----------------------------
(***************************************************************************)
(* Lemmas about numbers and sequences that several proofs need: the least  *)
(* element of a set of naturals, which stands for an induction; what       *)
(* Append and Tail do to a sequence as a function; and remainders.         *)
(***************************************************************************)
EXTENDS Integers, Sequences, SequenceTheorems, FiniteSetTheorems,
        WellFoundedInduction, TLAPS

\* A set of naturals with an element has a least one.
LEMMA LeastNatural ==
  ASSUME NEW T \in SUBSET Nat, T # {}
  PROVE  \E x \in T : \A y \in T : ~(y < x)
<1> DEFINE R == OpToRel(<, Nat)
<1>1. IsWellFoundedOn(R, Nat)
  BY NatLessThanWellFounded
<1>2. \A x, y \in Nat : y < x => <<y, x>> \in R
  BY DEF OpToRel
<1> HIDE DEF R
<1>3. PICK x \in T : \A y \in T : <<y, x>> \notin R
  BY <1>1, WFMin
<1> QED BY <1>2, <1>3

----------------------------------------------------------------------------
\* Sequences as functions.
LEMMA SeqIsFunction ==
  ASSUME NEW S, NEW s \in Seq(S), NEW n, n = Len(s)
  PROVE  s \in [1..n -> S]
  OBVIOUS

LEMMA AppendFunction ==
  ASSUME NEW S, NEW s \in Seq(S), NEW t \in S
  PROVE  /\ Len(s) \in Nat /\ s \in [1..Len(s) -> S]
         /\ Append(s, t) \in Seq(S) /\ Len(Append(s, t)) = Len(s) + 1
         /\ Append(s, t) \in [1..(Len(s) + 1) -> S]
         /\ \A i \in 1..(Len(s) + 1) :
              Append(s, t)[i] = IF i = Len(s) + 1 THEN t ELSE s[i]
<1>1. Len(s) \in Nat /\ s \in [1..Len(s) -> S]
  OBVIOUS
<1>2. Append(s, t) \in Seq(S) /\ Len(Append(s, t)) = Len(s) + 1
  OBVIOUS
<1>3. \A i \in 1..(Len(s) + 1) : Append(s, t)[i] = IF i = Len(s) + 1 THEN t ELSE s[i]
  OBVIOUS
<1>4. Append(s, t) \in [1..(Len(s) + 1) -> S]
  BY <1>2, SeqIsFunction
<1> QED BY <1>1, <1>2, <1>3, <1>4

LEMMA TailFunction ==
  ASSUME NEW S, NEW s \in Seq(S), s # <<>>
  PROVE  /\ Len(s) \in Nat /\ Len(s) # 0 /\ s \in [1..Len(s) -> S]
         /\ Head(s) = s[1]
         /\ Tail(s) \in Seq(S) /\ Len(Tail(s)) = Len(s) - 1
         /\ Tail(s) \in [1..(Len(s) - 1) -> S]
         /\ \A i \in 1..(Len(s) - 1) : Tail(s)[i] = s[i + 1]
<1>1. Len(s) \in Nat /\ s \in [1..Len(s) -> S]
  OBVIOUS
<1>2. Len(s) # 0
  BY <1>1
<1>3. Head(s) = s[1]
  OBVIOUS
<1>4. Tail(s) \in Seq(S) /\ Len(Tail(s)) = Len(s) - 1
  BY <1>2
<1>5. \A i \in 1..(Len(s) - 1) : Tail(s)[i] = s[i + 1]
  BY <1>2
<1>6. Tail(s) \in [1..(Len(s) - 1) -> S]
  BY <1>4, SeqIsFunction
<1> QED BY <1>1, <1>2, <1>3, <1>4, <1>5, <1>6

\* Sequences over a set are sequences over a larger one.
LEMMA SeqLarger ==
  ASSUME NEW S, NEW T, S \subseteq T, NEW s \in Seq(S)
  PROVE  s \in Seq(T)
OBVIOUS

----------------------------------------------------------------------------
\* A number of cycles is the two words that the counter shows.
LEMMA TwoWords ==
  ASSUME NEW W \in Nat \ {0}, NEW c \in 0..(W * W - 1)
  PROVE  /\ c \div W \in 0..(W - 1) /\ (c \div W) % W = c \div W
         /\ c % W \in 0..(W - 1) /\ c = W * (c \div W) + (c % W)
<1>1. c % W \in 0..(W - 1) /\ c \div W \in Nat /\ c = W * (c \div W) + (c % W)
  OBVIOUS
<1> DEFINE d == c \div W
<1>2. d \in Nat /\ W * d <= c
  BY <1>1
<1>3. d < W
  <2> HIDE DEF d
  <2> SUFFICES ASSUME d >= W PROVE FALSE
    BY <1>2
  <2>1. W * d >= W * W
    BY <1>2
  <2> QED BY <1>2, <2>1
<1>4. d % W = d
  BY <1>2, <1>3
<1> QED BY <1>1, <1>2, <1>3, <1>4

\* The remainder of a number that is off by at most one modulus.
LEMMA InModulus ==
  ASSUME NEW M \in Nat \ {0}, NEW x \in Int, x \in 0..(M - 1)
  PROVE  x % M = x
OBVIOUS

LEMMA AboveModulus ==
  ASSUME NEW M \in Nat \ {0}, NEW x \in Int, x \in M..(2 * M - 1)
  PROVE  x % M = x - M
OBVIOUS

LEMMA BelowModulus ==
  ASSUME NEW M \in Nat \ {0}, NEW x \in Int, x \in (-M)..(-1)
  PROVE  x % M = x + M
OBVIOUS

LEMMA SumModulus ==
  ASSUME NEW M \in Nat \ {0}, NEW x \in 0..(M - 1), NEW y \in 0..(M - 1)
  PROVE  /\ (x + y) % M \in 0..(M - 1)
         /\ (x + y) % M = x + y \/ (x + y) % M = x + y - M
<1>1. x + y \in 0..(M - 1) \/ x + y \in M..(2 * M - 1)
  OBVIOUS
<1>2. x + y \in Int
  OBVIOUS
<1> DEFINE z == x + y
<1>3. z \in Int /\ (z \in 0..(M - 1) \/ z \in M..(2 * M - 1))
  BY <1>1, <1>2
<1> HIDE DEF z
<1>4. z % M \in 0..(M - 1)
  BY <1>3
<1>5. (z % M) = z \/ (z % M) = z - M
  <2>1. CASE z \in 0..(M - 1)
    <3>1. (z % M) = z
      BY <1>3, <2>1, InModulus
    <3> QED BY <3>1
  <2>2. CASE z \in M..(2 * M - 1)
    <3>1. (z % M) = z - M
      BY <1>3, <2>2, AboveModulus
    <3> QED BY <3>1
  <2> QED BY <1>3, <2>1, <2>2
<1> QED BY <1>4, <1>5 DEF z
----------------------------------------------------------------------------
\* A finite set has an element where f is largest.
LEMMA LargestElement ==
  ASSUME NEW S, IsFiniteSet(S), S # {}, NEW f, \A c \in S : f[c] \in Nat
  PROVE  \E c \in S : \A d \in S : f[d] <= f[c]
<1> DEFINE HasNone(G) == G # {} /\ \A c \in G : \E d \in G : ~(f[d] <= f[c])
<1> DEFINE T == {Cardinality(G) : G \in {G \in SUBSET S : HasNone(G)}}
<1>1. \A G \in SUBSET S : IsFiniteSet(G) /\ Cardinality(G) \in Nat
  BY FS_Subset, FS_CardinalityType
<1> SUFFICES ASSUME HasNone(S) PROVE FALSE
  OBVIOUS
<1>2. T \in SUBSET Nat /\ T # {}
  BY <1>1
<1> HIDE DEF T
<1>3. PICK n \in T : \A m \in T : ~(m < n)
  BY <1>2, LeastNatural
<1>4. PICK G \in SUBSET S : HasNone(G) /\ n = Cardinality(G)
  BY <1>3 DEF T
<1>5. PICK x \in G : TRUE
  BY <1>4
<1> DEFINE H == G \ {x}
<1>6. H \in SUBSET S /\ Cardinality(H) = Cardinality(G) - 1
  BY <1>1, <1>5, FS_RemoveElement
<1>7. ~HasNone(H)
  <2> SUFFICES ASSUME HasNone(H) PROVE FALSE
    OBVIOUS
  <2>1. Cardinality(H) \in T
    BY <1>6 DEF T
  <2>2. Cardinality(H) < Cardinality(G)
    BY <1>1, <1>6
  <2> QED BY <2>1, <2>2, <1>3, <1>4
<1>8. \A c \in G : f[c] \in Nat
  OBVIOUS
<1>9. CASE H = {}
  <2>1. \A d \in G : d = x
    BY <1>9
  <2>2. f[x] <= f[x]
    BY <1>5, <1>8
  <2> QED BY <2>1, <2>2, <1>4, <1>5
<1>10. CASE H # {}
  <2>1. PICK y \in H : \A d \in H : f[d] <= f[y]
    BY <1>7, <1>10
  <2>2. CASE f[x] <= f[y]
    BY <2>1, <2>2, <1>4
  <2>3. CASE ~(f[x] <= f[y])
    <3>1. \A d \in H : f[d] <= f[x]
      BY <2>1, <2>3, <1>5, <1>8
    <3>2. f[x] <= f[x]
      BY <1>5, <1>8
    <3> QED BY <3>1, <3>2, <1>4, <1>5
  <2> QED BY <2>2, <2>3
<1> QED BY <1>9, <1>10

\* A function can be applied any number of times.
Iteration(S, F, start, N, g) ==
  g \in [0..N -> S] /\ g[0] = start /\ \A j \in 1..N : g[j] = F[g[j - 1]]

LEMMA Iterates ==
  ASSUME NEW S, NEW F \in [S -> S], NEW start \in S, NEW N \in Nat
  PROVE  \E g : Iteration(S, F, start, N, g)
<1> DEFINE Has(n) == \E g \in [0..n -> S] : g[0] = start /\ \A j \in 1..n : g[j] = F[g[j - 1]]
<1> DEFINE T == {n \in Nat : ~Has(n)}
<1> SUFFICES ASSUME T # {} PROVE FALSE
  BY DEF Iteration
<1>1. PICK n \in T : \A m \in T : ~(m < n)
  <2>1. T \in SUBSET Nat
    OBVIOUS
  <2> HIDE DEF T
  <2> QED BY <2>1, LeastNatural
<1>2. n # 0
  <2>1. Has(0)
    <3> DEFINE g == [j \in 0..0 |-> start]
    <3>1. g \in [0..0 -> S] /\ g[0] = start /\ \A j \in 1..0 : g[j] = F[g[j - 1]]
      OBVIOUS
    <3> HIDE DEF g
    <3> QED BY <3>1
  <2> QED BY <2>1
<1>3. n - 1 \in Nat /\ n - 1 < n
  BY <1>2
<1>4. Has(n - 1)
  BY <1>1, <1>3
<1>5. PICK g \in [0..(n - 1) -> S] :
        g[0] = start /\ \A j \in 1..(n - 1) : g[j] = F[g[j - 1]]
  BY <1>4
<1> DEFINE e == [j \in 0..n |-> IF j = n THEN F[g[n - 1]] ELSE g[j]]
<1>6. g[n - 1] \in S
  BY <1>3
<1>7. e \in [0..n -> S] /\ e[0] = start
  BY <1>2, <1>5, <1>6
<1>8. \A j \in 1..n : e[j] = F[e[j - 1]]
  <2> TAKE j \in 1..n
  <2>1. CASE j = n
    BY <2>1, <1>3
  <2>2. CASE j # n
    <3>1. j \in 1..(n - 1) /\ j \in 0..n /\ j - 1 \in 0..n /\ j - 1 # n
      BY <2>2
    <3> QED BY <3>1, <2>2, <1>5
  <2> QED BY <2>1, <2>2
<1> HIDE DEF e
<1>9. Has(n)
  BY <1>7, <1>8
<1> QED BY <1>1, <1>9

\* A function of the step and the last result can be applied any number of times.
StepIteration(R, F, start, N, g) ==
  g \in [0..N -> R] /\ g[0] = start /\ \A i \in 1..N : g[i] = F[<<i, g[i - 1]>>]

LEMMA StepIterates ==
  ASSUME NEW R, NEW start \in R, NEW N \in Nat, NEW F \in [(1..N) \X R -> R]
  PROVE  \E g : StepIteration(R, F, start, N, g)
<1> DEFINE Has(n) == \E g \in [0..n -> R] :
                        g[0] = start /\ \A i \in 1..n : g[i] = F[<<i, g[i - 1]>>]
<1> DEFINE T == {n \in 0..N : ~Has(n)}
<1> SUFFICES ASSUME T # {} PROVE FALSE
  <2>1. N \in 0..N
    OBVIOUS
  <2>2. T = {} => Has(N)
    BY <2>1
  <2> HIDE DEF T
  <2> QED BY <2>2 DEF StepIteration
<1>1. PICK n \in T : \A m \in T : ~(m < n)
  <2>1. T \in SUBSET Nat
    OBVIOUS
  <2> HIDE DEF T
  <2> QED BY <2>1, LeastNatural
<1>2. n # 0
  <2>1. Has(0)
    <3> DEFINE g == [j \in 0..0 |-> start]
    <3>1. g \in [0..0 -> R] /\ g[0] = start /\ \A i \in 1..0 : g[i] = F[<<i, g[i - 1]>>]
      OBVIOUS
    <3> HIDE DEF g
    <3> QED BY <3>1
  <2> QED BY <2>1
<1>3. n \in 1..N /\ n - 1 \in 0..N /\ n - 1 < n /\ n - 1 \in 0..(n - 1)
  BY <1>2
<1>4. PICK g \in [0..(n - 1) -> R] :
        g[0] = start /\ \A i \in 1..(n - 1) : g[i] = F[<<i, g[i - 1]>>]
  BY <1>1, <1>3
<1> DEFINE last == F[<<n, g[n - 1]>>]
<1> DEFINE e == [i \in 0..n |-> IF i = n THEN last ELSE g[i]]
<1>5. last \in R
  BY <1>3, <1>4
<1>6. e \in [0..n -> R] /\ e[0] = start
  <2> HIDE DEF last
  <2> QED BY <1>2, <1>3, <1>4, <1>5
<1>7. ASSUME NEW i \in 1..n PROVE e[i] = F[<<i, e[i - 1]>>]
  <2>1. CASE i = n
    <3>1. n - 1 \in 0..n /\ n - 1 # n /\ n \in 0..n
      BY <1>3
    <3>2. e[n - 1] = g[n - 1] /\ e[n] = last
      BY <3>1
    <3> HIDE DEF e
    <3> QED BY <3>2, <2>1
  <2>2. CASE i # n
    <3>1. i \in 1..(n - 1) /\ i \in 0..n /\ i - 1 \in 0..n /\ i - 1 # n
      BY <2>2, <1>3
    <3>2. e[i] = g[i] /\ e[i - 1] = g[i - 1]
      BY <3>1, <2>2
    <3> HIDE DEF e
    <3> QED BY <3>1, <3>2, <1>4
  <2> QED BY <2>1, <2>2
<1> HIDE DEF e
<1> QED BY <1>1, <1>6, <1>7

\* What holds at the start and is kept by each step holds of all results.
LEMMA StepsStay ==
  ASSUME NEW R, NEW N \in Nat, NEW g, g = [i \in 0..N |-> g[i]], g[0] \in R,
         \A i \in 1..N : g[i - 1] \in R => g[i] \in R
  PROVE  g \in [0..N -> R]
<1> DEFINE Wrong == {i \in 0..N : g[i] \notin R}
<1> SUFFICES ASSUME Wrong # {} PROVE FALSE
  <2>1. Wrong = {} => \A i \in 0..N : g[i] \in R
    OBVIOUS
  <2> HIDE DEF Wrong
  <2> QED BY <2>1
<1>1. PICK i \in Wrong : \A m \in Wrong : ~(m < i)
  <2>1. Wrong \in SUBSET Nat
    OBVIOUS
  <2> HIDE DEF Wrong
  <2> QED BY <2>1, LeastNatural
<1>2. i \in 1..N /\ i - 1 \in 0..N /\ i - 1 < i
  BY <1>1
<1>3. g[i - 1] \in R
  BY <1>1, <1>2
<1> QED BY <1>1, <1>2, <1>3
=============================================================================
