--------------------------- MODULE ProcessorProofs --------------------------
(***************************************************************************)
(* Theorems about the processor, for every width of its registers and      *)
(* every program: the buses carry what their readers expect, and the units *)
(* together do what the listing of the program says.  And about the two    *)
(* programs that come with it: they compute what they are for.             *)
(***************************************************************************)
EXTENDS Programs, DataLemmas

----------------------------------------------------------------------------
(***************************************************************************)
(* Powers, shifts and bits                                                 *)
(***************************************************************************)

\* What is made step by step from the same start by the same steps is the same.
LEMMA StepsAgree ==
  ASSUME NEW N \in Nat, NEW f, NEW g, f[0] = g[0],
         \A i \in 1..N : f[i - 1] = g[i - 1] => f[i] = g[i]
  PROVE  f[N] = g[N]
<1> DEFINE Apart == {i \in 0..N : f[i] # g[i]}
<1> SUFFICES ASSUME Apart # {} PROVE FALSE
  <2>1. N \in 0..N
    OBVIOUS
  <2>2. Apart = {} => f[N] = g[N]
    BY <2>1
  <2> HIDE DEF Apart
  <2> QED BY <2>2
<1>1. PICK i \in Apart : \A m \in Apart : ~(m < i)
  <2>1. Apart \in SUBSET Nat
    OBVIOUS
  <2> HIDE DEF Apart
  <2> QED BY <2>1, LeastNatural
<1>2. i \in 1..N /\ i - 1 \in 0..N /\ i - 1 < i
  BY <1>1
<1>3. f[i - 1] = g[i - 1]
  BY <1>1, <1>2
<1> QED BY <1>1, <1>2, <1>3

\* The powers of two up to n.
Doubles(n, g) ==
  /\ Power(n) = g[n] /\ g[0] = 1
  /\ \A i \in 1..n : g[i] = 2 * g[i - 1]
  /\ \A i \in 0..n : g[i] \in (Nat \ {0})

LEMMA PowerSteps ==
  ASSUME NEW n \in Nat
  PROVE  \E g : Doubles(n, g)
<1> DEFINE Body(f) == [i \in 0..n |-> IF i = 0 THEN 1 ELSE 2 * f[i - 1]]
<1> DEFINE fixed == CHOOSE f : f = Body(f)
<1> DEFINE F == [p \in (1..n) \X (Nat \ {0}) |-> 2 * p[2]]
<1>1. Power(n) = fixed[n]
  BY DEF Power
<1>2. F \in [(1..n) \X (Nat \ {0}) -> (Nat \ {0})] /\ 1 \in (Nat \ {0})
  OBVIOUS
<1>3. PICK g : StepIteration((Nat \ {0}), F, 1, n, g)
  <2> HIDE DEF F
  <2> QED BY <1>2, StepIterates
<1>4. g \in [0..n -> (Nat \ {0})] /\ g[0] = 1 /\ \A i \in 1..n : g[i] = F[<<i, g[i - 1]>>]
  BY <1>3 DEF StepIteration
<1>5. ASSUME NEW i \in 1..n PROVE g[i] = 2 * g[i - 1]
  <2>1. i - 1 \in 0..n /\ g[i - 1] \in (Nat \ {0})
    BY <1>4
  <2>2. F[<<i, g[i - 1]>>] = 2 * g[i - 1]
    BY <2>1
  <2> HIDE DEF F
  <2> QED BY <2>2, <1>4
<1>6. \A i \in 0..n : g[i] = IF i = 0 THEN 1 ELSE 2 * g[i - 1]
  <2>1. \A i \in 0..n : i = 0 \/ i \in 1..n
    OBVIOUS
  <2>2. \A i \in 1..n : i # 0
    OBVIOUS
  <2> HIDE DEF F
  <2> QED BY ONLY <1>4, <1>5, <2>1, <2>2
<1>7. g = [i \in 0..n |-> g[i]]
  BY <1>4
<1>8. g = Body(g)
  BY ONLY <1>6, <1>7
<1>9. fixed = Body(fixed)
  <2> HIDE DEF Body
  <2> QED BY <1>8
<1> HIDE DEF fixed
<1> DEFINE B == Body(fixed)
<1>10. \A i \in 0..n : B[i] = IF i = 0 THEN 1 ELSE 2 * fixed[i - 1]
  OBVIOUS
<1>11. fixed = B
  BY ONLY <1>9
<1> HIDE DEF B, Body, F
<1>12. \A i \in 0..n : fixed[i] = IF i = 0 THEN 1 ELSE 2 * fixed[i - 1]
  BY ONLY <1>10, <1>11
<1>13. 0 \in 0..n /\ \A i \in 1..n : i \in 0..n /\ i # 0
  OBVIOUS
<1>14. fixed[0] = 1 /\ \A i \in 1..n : fixed[i] = 2 * fixed[i - 1]
  BY ONLY <1>12, <1>13
<1>15. \A i \in 1..n : fixed[i - 1] = g[i - 1] => fixed[i] = g[i]
  BY ONLY <1>14, <1>5
<1>16. fixed[n] = g[n]
  <2>1. fixed[0] = g[0]
    BY ONLY <1>4, <1>14
  <2> HIDE DEF fixed
  <2> QED BY ONLY <2>1, <1>15, n \in Nat, StepsAgree
<1>17. \A i \in 0..n : g[i] \in (Nat \ {0})
  BY <1>4
<1> QED BY ONLY <1>1, <1>4, <1>5, <1>16, <1>17 DEF Doubles

\* What is left of x after each of n shifts.
Halves(x, n, g) ==
  /\ Shifted(x, n) = g[n] /\ g[0] = x
  /\ \A i \in 1..n : g[i] = g[i - 1] \div 2
  /\ \A i \in 0..n : g[i] \in Nat

LEMMA ShiftedSteps ==
  ASSUME NEW x \in Nat, NEW n \in Nat
  PROVE  \E g : Halves(x, n, g)
<1> DEFINE Body(f) == [i \in 0..n |-> IF i = 0 THEN x ELSE f[i - 1] \div 2]
<1> DEFINE fixed == CHOOSE f : f = Body(f)
<1> DEFINE F == [p \in (1..n) \X Nat |-> p[2] \div 2]
<1>1. Shifted(x, n) = fixed[n]
  BY DEF Shifted
<1>2. F \in [(1..n) \X Nat -> Nat] /\ x \in Nat
  OBVIOUS
<1>3. PICK g : StepIteration(Nat, F, x, n, g)
  <2> HIDE DEF F
  <2> QED BY <1>2, StepIterates
<1>4. g \in [0..n -> Nat] /\ g[0] = x /\ \A i \in 1..n : g[i] = F[<<i, g[i - 1]>>]
  BY <1>3 DEF StepIteration
<1>5. ASSUME NEW i \in 1..n PROVE g[i] = g[i - 1] \div 2
  <2>1. i - 1 \in 0..n /\ g[i - 1] \in Nat
    BY <1>4
  <2>2. F[<<i, g[i - 1]>>] = g[i - 1] \div 2
    BY <2>1
  <2> HIDE DEF F
  <2> QED BY <2>2, <1>4
<1>6. \A i \in 0..n : g[i] = IF i = 0 THEN x ELSE g[i - 1] \div 2
  <2>1. \A i \in 0..n : i = 0 \/ i \in 1..n
    OBVIOUS
  <2>2. \A i \in 1..n : i # 0
    OBVIOUS
  <2> HIDE DEF F
  <2> QED BY ONLY <1>4, <1>5, <2>1, <2>2
<1>7. g = [i \in 0..n |-> g[i]]
  BY <1>4
<1>8. g = Body(g)
  BY ONLY <1>6, <1>7
<1>9. fixed = Body(fixed)
  <2> HIDE DEF Body
  <2> QED BY <1>8
<1> HIDE DEF fixed
<1> DEFINE B == Body(fixed)
<1>10. \A i \in 0..n : B[i] = IF i = 0 THEN x ELSE fixed[i - 1] \div 2
  OBVIOUS
<1>11. fixed = B
  BY ONLY <1>9
<1> HIDE DEF B, Body, F
<1>12. \A i \in 0..n : fixed[i] = IF i = 0 THEN x ELSE fixed[i - 1] \div 2
  BY ONLY <1>10, <1>11
<1>13. 0 \in 0..n /\ \A i \in 1..n : i \in 0..n /\ i # 0
  OBVIOUS
<1>14. fixed[0] = x /\ \A i \in 1..n : fixed[i] = fixed[i - 1] \div 2
  BY ONLY <1>12, <1>13
<1>15. \A i \in 1..n : fixed[i - 1] = g[i - 1] => fixed[i] = g[i]
  BY ONLY <1>14, <1>5
<1>16. fixed[n] = g[n]
  <2>1. fixed[0] = g[0]
    BY ONLY <1>4, <1>14
  <2> HIDE DEF fixed
  <2> QED BY ONLY <2>1, <1>15, n \in Nat, StepsAgree
<1>17. \A i \in 0..n : g[i] \in Nat
  BY <1>4
<1> QED BY ONLY <1>1, <1>4, <1>5, <1>16, <1>17 DEF Halves

\* The number from its bits, the highest first.
Collects(S, n, g) ==
  /\ FromOnes(n, S) = g[n] /\ g[0] = 0
  /\ \A i \in 1..n : g[i] = 2 * g[i - 1] + (IF n - i \in S THEN 1 ELSE 0)
  /\ \A i \in 0..n : g[i] \in Nat

LEMMA FromOnesSteps ==
  ASSUME NEW S, NEW n \in Nat
  PROVE  \E g : Collects(S, n, g)
<1> DEFINE Body(f) == [i \in 0..n |-> IF i = 0 THEN 0 ELSE 2 * f[i - 1] + (IF n - i \in S THEN 1 ELSE 0)]
<1> DEFINE fixed == CHOOSE f : f = Body(f)
<1> DEFINE F == [p \in (1..n) \X Nat |-> 2 * p[2] + (IF n - p[1] \in S THEN 1 ELSE 0)]
<1>1. FromOnes(n, S) = fixed[n]
  BY DEF FromOnes
<1>2. F \in [(1..n) \X Nat -> Nat] /\ 0 \in Nat
  OBVIOUS
<1>3. PICK g : StepIteration(Nat, F, 0, n, g)
  <2> HIDE DEF F
  <2> QED BY <1>2, StepIterates
<1>4. g \in [0..n -> Nat] /\ g[0] = 0 /\ \A i \in 1..n : g[i] = F[<<i, g[i - 1]>>]
  BY <1>3 DEF StepIteration
<1>5. ASSUME NEW i \in 1..n PROVE g[i] = 2 * g[i - 1] + (IF n - i \in S THEN 1 ELSE 0)
  <2>1. i - 1 \in 0..n /\ g[i - 1] \in Nat
    BY <1>4
  <2>2. F[<<i, g[i - 1]>>] = 2 * g[i - 1] + (IF n - i \in S THEN 1 ELSE 0)
    BY <2>1
  <2> HIDE DEF F
  <2> QED BY <2>2, <1>4
<1>6. \A i \in 0..n : g[i] = IF i = 0 THEN 0 ELSE 2 * g[i - 1] + (IF n - i \in S THEN 1 ELSE 0)
  <2>1. \A i \in 0..n : i = 0 \/ i \in 1..n
    OBVIOUS
  <2>2. \A i \in 1..n : i # 0
    OBVIOUS
  <2> HIDE DEF F
  <2> QED BY ONLY <1>4, <1>5, <2>1, <2>2
<1>7. g = [i \in 0..n |-> g[i]]
  BY <1>4
<1>8. g = Body(g)
  BY ONLY <1>6, <1>7
<1>9. fixed = Body(fixed)
  <2> HIDE DEF Body
  <2> QED BY <1>8
<1> HIDE DEF fixed
<1> DEFINE B == Body(fixed)
<1>10. \A i \in 0..n : B[i] = IF i = 0 THEN 0 ELSE 2 * fixed[i - 1] + (IF n - i \in S THEN 1 ELSE 0)
  OBVIOUS
<1>11. fixed = B
  BY ONLY <1>9
<1> HIDE DEF B, Body, F
<1>12. \A i \in 0..n : fixed[i] = IF i = 0 THEN 0 ELSE 2 * fixed[i - 1] + (IF n - i \in S THEN 1 ELSE 0)
  BY ONLY <1>10, <1>11
<1>13. 0 \in 0..n /\ \A i \in 1..n : i \in 0..n /\ i # 0
  OBVIOUS
<1>14. fixed[0] = 0 /\ \A i \in 1..n : fixed[i] = 2 * fixed[i - 1] + (IF n - i \in S THEN 1 ELSE 0)
  BY ONLY <1>12, <1>13
<1>15. \A i \in 1..n : fixed[i - 1] = g[i - 1] => fixed[i] = g[i]
  BY ONLY <1>14, <1>5
<1>16. fixed[n] = g[n]
  <2>1. fixed[0] = g[0]
    BY ONLY <1>4, <1>14
  <2> HIDE DEF fixed
  <2> QED BY ONLY <2>1, <1>15, n \in Nat, StepsAgree
<1>17. \A i \in 0..n : g[i] \in Nat
  BY <1>4
<1> QED BY ONLY <1>1, <1>4, <1>5, <1>16, <1>17 DEF Collects

LEMMA SameBits ==
  /\ \A n : Listed!Power(n) = Power(n)
  /\ \A x, i : Listed!Bit(x, i) = Bit(x, i)
<1>1. ASSUME NEW n PROVE Listed!Power(n) = Power(n)
  BY DEF Listed!Power, Power
<1>2. ASSUME NEW x, NEW i PROVE Listed!Shifted(x, i) = Shifted(x, i)
  BY DEF Listed!Shifted, Shifted
<1>3. ASSUME NEW x, NEW i PROVE Listed!Bit(x, i) = Bit(x, i)
  BY <1>2 DEF Listed!Bit, Bit
<1> QED BY <1>1, <1>3

LEMMA PowerProperties ==
  ASSUME NEW n \in Nat
  PROVE  Power(n) \in Nat \ {0} /\ Power(0) = 1 /\ Power(n + 1) = 2 * Power(n)
<1>1. PICK g : Doubles(n, g)
  BY PowerSteps
<1>2. PICK h : Doubles(n + 1, h)
  <2>1. n + 1 \in Nat
    OBVIOUS
  <2> QED BY <2>1, PowerSteps
<1>3. g[0] = h[0] /\ \A i \in 1..n : g[i - 1] = h[i - 1] => g[i] = h[i]
  BY <1>1, <1>2 DEF Doubles
<1>4. g[n] = h[n]
  BY <1>3, StepsAgree
<1>5. Power(n + 1) = 2 * Power(n)
  <2>1. n + 1 \in 1..(n + 1) /\ (n + 1) - 1 = n
    OBVIOUS
  <2>2. h[n + 1] = 2 * h[n]
    BY <2>1, <1>2 DEF Doubles
  <2> QED BY <2>2, <1>1, <1>2, <1>4 DEF Doubles
<1>6. Power(0) = 1
  <2>1. 0 \in Nat
    OBVIOUS
  <2> QED BY <2>1, PowerSteps DEF Doubles
<1>7. n \in 0..n
  OBVIOUS
<1> QED BY <1>1, <1>5, <1>6, <1>7 DEF Doubles

LEMMA ShiftedProperties ==
  ASSUME NEW x \in Nat, NEW n \in Nat
  PROVE  /\ Shifted(x, n) \in Nat /\ Shifted(x, 0) = x
         /\ Shifted(x, n + 1) = Shifted(x, n) \div 2
<1>1. PICK g : Halves(x, n, g)
  BY ShiftedSteps
<1>2. PICK h : Halves(x, n + 1, h)
  <2>1. n + 1 \in Nat
    OBVIOUS
  <2> QED BY <2>1, ShiftedSteps
<1>3. g[0] = h[0] /\ \A i \in 1..n : g[i - 1] = h[i - 1] => g[i] = h[i]
  BY <1>1, <1>2 DEF Halves
<1>4. g[n] = h[n]
  BY <1>3, StepsAgree
<1>5. Shifted(x, n + 1) = Shifted(x, n) \div 2
  <2>1. n + 1 \in 1..(n + 1) /\ (n + 1) - 1 = n
    OBVIOUS
  <2>2. h[n + 1] = h[n] \div 2
    BY <2>1, <1>2 DEF Halves
  <2> QED BY <2>2, <1>1, <1>2, <1>4 DEF Halves
<1>6. Shifted(x, 0) = x
  <2>1. 0 \in Nat
    OBVIOUS
  <2> QED BY <2>1, ShiftedSteps DEF Halves
<1>7. n \in 0..n
  OBVIOUS
<1> QED BY <1>1, <1>5, <1>6, <1>7 DEF Halves

\* A shift of the half is a shift by one place more.
LEMMA ShiftedHalf ==
  ASSUME NEW x \in Nat, NEW n \in Nat
  PROVE  Shifted(x \div 2, n) = Shifted(x, n + 1) /\ Bit(x \div 2, n) = Bit(x, n + 1)
<1> DEFINE y == x \div 2
<1>1. y \in Nat /\ n + 1 \in Nat
  OBVIOUS
<1>2. PICK g : Halves(y, n, g)
  BY <1>1, ShiftedSteps
<1>3. PICK h : Halves(x, n + 1, h)
  BY <1>1, ShiftedSteps
<1> DEFINE f == [i \in 0..n |-> h[i + 1]]
<1>4. f[0] = g[0] /\ f[n] = h[n + 1]
  <2>1. 0 \in 0..n /\ n \in 0..n /\ 1 \in 1..(n + 1) /\ 0 + 1 = 1 /\ 1 - 1 = 0
    OBVIOUS
  <2>2. f[0] = h[1] /\ f[n] = h[n + 1] /\ h[1] = x \div 2
    BY <2>1, <1>3 DEF Halves
  <2> QED BY <2>2, <1>2 DEF Halves
<1>5. ASSUME NEW i \in 1..n, f[i - 1] = g[i - 1] PROVE f[i] = g[i]
  <2>1. i \in 0..n /\ i - 1 \in 0..n /\ i + 1 \in 1..(n + 1) /\ (i - 1) + 1 = i /\ (i + 1) - 1 = i
    OBVIOUS
  <2>2. f[i] = h[i + 1] /\ f[i - 1] = h[i]
    BY <2>1
  <2>3. h[i + 1] = h[i] \div 2 /\ g[i] = g[i - 1] \div 2
    BY <2>1, <1>2, <1>3 DEF Halves
  <2> HIDE DEF f
  <2> QED BY ONLY <2>2, <2>3, <1>5
<1> HIDE DEF f
<1>6. f[n] = g[n]
  BY <1>4, <1>5, StepsAgree
<1> QED BY <1>2, <1>3, <1>4, <1>6 DEF Bit, Halves

\* What i shifts leave of 1 << k, where it was added to x.
Leaves(x, k, i, r) ==
  /\ Shifted(x + Power(k), i) = Shifted(x, i) + r
  /\ i = k => r = 1
  /\ i < k => \E q \in Nat : r = 2 * q

\* A power of two that is added stays by itself.
LEMMA ShiftedSum ==
  ASSUME NEW x \in Nat, NEW k \in Nat, NEW i \in 0..k
  PROVE  \E r \in Nat : Leaves(x, k, i, r)
<1> DEFINE y == x + Power(k)
<1>1. y \in Nat /\ i \in Nat
  BY PowerProperties
<1>2. PICK p : Doubles(k, p)
  BY PowerSteps
<1>3. PICK g : Halves(x, i, g)
  BY <1>1, ShiftedSteps
<1>4. PICK h : Halves(y, i, h)
  BY <1>1, ShiftedSteps
<1> DEFINE f == [j \in 0..i |-> g[j] + p[k - j]]
<1>5. f[0] = h[0]
  <2>1. 0 \in 0..i /\ k - 0 = k
    OBVIOUS
  <2>2. f[0] = g[0] + p[k]
    BY <2>1
  <2> QED BY <2>2, <1>2, <1>3, <1>4 DEF Doubles, Halves
<1>6. ASSUME NEW j \in 1..i, f[j - 1] = h[j - 1] PROVE f[j] = h[j]
  <2>1. /\ j \in 0..i /\ j - 1 \in 0..i /\ k - (j - 1) \in 1..k /\ k - j \in 0..k
        /\ (k - (j - 1)) - 1 = k - j
    OBVIOUS
  <2>2. f[j] = g[j] + p[k - j] /\ f[j - 1] = g[j - 1] + p[k - (j - 1)]
    BY <2>1
  <2> HIDE DEF f
  <2>3. p[k - (j - 1)] = 2 * p[k - j] /\ p[k - j] \in Nat
    BY <2>1, <1>2 DEF Doubles
  <2>4. g[j] = g[j - 1] \div 2 /\ g[j - 1] \in Nat /\ h[j] = h[j - 1] \div 2
    BY <2>1, <1>3, <1>4 DEF Halves
  <2> QED BY ONLY <2>2, <2>3, <2>4, <1>6
<1>7. f[i] = h[i]
  <2> HIDE DEF f
  <2> QED BY <1>1, <1>5, <1>6, StepsAgree
<1>8. f[i] = g[i] + p[k - i]
  <2>1. i \in 0..i
    BY <1>1
  <2> QED BY <2>1
<1> HIDE DEF f
<1>9. Shifted(y, i) = Shifted(x, i) + p[k - i]
  BY <1>3, <1>4, <1>7, <1>8 DEF Halves
<1>10. k - i \in 0..k /\ p[k - i] \in Nat
  BY <1>2 DEF Doubles
<1>11. i = k => p[k - i] = 1
  <2>1. k - k = 0
    OBVIOUS
  <2> QED BY <2>1, <1>2 DEF Doubles
<1>12. ASSUME i < k PROVE \E q \in Nat : p[k - i] = 2 * q
  <2>1. k - i \in 1..k /\ (k - i) - 1 \in 0..k
    BY <1>12
  <2>2. p[k - i] = 2 * p[(k - i) - 1] /\ p[(k - i) - 1] \in Nat
    BY <2>1, <1>2 DEF Doubles
  <2> QED BY <2>2
<1> QED BY <1>9, <1>10, <1>11, <1>12 DEF Leaves

\* The lower bits of a sum with a power of two, and what is above of it.
LEMMA BitsOfSum ==
  ASSUME NEW x \in Nat, NEW k \in Nat
  PROVE  /\ \A i \in 0..k : i < k => Bit(x + Power(k), i) = Bit(x, i)
         /\ Shifted(x + Power(k), k) = Shifted(x, k) + 1
<1>1. ASSUME NEW i \in 0..k, i < k PROVE Bit(x + Power(k), i) = Bit(x, i)
  <2>1. PICK r \in Nat : Leaves(x, k, i, r)
    BY ShiftedSum
  <2>2. PICK q \in Nat : r = 2 * q
    BY <2>1, <1>1 DEF Leaves
  <2>3. Shifted(x, i) \in Nat
    BY ShiftedProperties
  <2> QED BY <2>1, <2>2, <2>3 DEF Bit, Leaves
<1>2. Shifted(x + Power(k), k) = Shifted(x, k) + 1
  <2>1. k \in 0..k
    OBVIOUS
  <2> QED BY <2>1, ShiftedSum DEF Leaves
<1> QED BY <1>1, <1>2

\* Nothing is left of a number that is shifted by all its bits.
LEMMA ShiftedOut ==
  ASSUME NEW k \in Nat, NEW x \in Nat, x < Power(k)
  PROVE  Shifted(x, k) = 0
<1>1. PICK p : Doubles(k, p)
  BY PowerSteps
<1>2. PICK g : Halves(x, k, g)
  BY ShiftedSteps
<1> DEFINE f == [j \in 0..k |-> p[k - j] - g[j]]
<1>3. f = [j \in 0..k |-> f[j]]
  OBVIOUS
<1>4. f[0] \in Nat \ {0}
  <2>1. 0 \in 0..k /\ k \in 0..k /\ k - 0 = k
    OBVIOUS
  <2>2. f[0] = p[k] - g[0]
    BY <2>1
  <2>3. p[k] \in Nat /\ p[k] = Power(k) /\ g[0] = x
    BY <2>1, <1>1, <1>2 DEF Doubles, Halves
  <2> HIDE DEF f
  <2> QED BY ONLY <2>2, <2>3, x \in Nat, x < Power(k)
<1>5. ASSUME NEW j \in 1..k, f[j - 1] \in Nat \ {0} PROVE f[j] \in Nat \ {0}
  <2>1. /\ j \in 0..k /\ j - 1 \in 0..k /\ k - (j - 1) \in 1..k /\ k - j \in 0..k
        /\ (k - (j - 1)) - 1 = k - j
    OBVIOUS
  <2>2. f[j] = p[k - j] - g[j] /\ f[j - 1] = p[k - (j - 1)] - g[j - 1]
    BY <2>1
  <2> HIDE DEF f
  <2>3. p[k - (j - 1)] = 2 * p[k - j] /\ p[k - j] \in Nat
    BY <2>1, <1>1 DEF Doubles
  <2>4. g[j] = g[j - 1] \div 2 /\ g[j - 1] \in Nat
    BY <2>1, <1>2 DEF Halves
  <2> QED BY ONLY <2>2, <2>3, <2>4, <1>5
<1> DEFINE R == Nat \ {0}
<1>6. f \in [0..k -> R]
  <2> HIDE DEF f
  <2>1. f[0] \in R /\ \A j \in 1..k : f[j - 1] \in R => f[j] \in R
    BY <1>4, <1>5
  <2> HIDE DEF R
  <2> QED BY ONLY <2>1, <1>3, k \in Nat, StepsStay
<1>7. k \in 0..k /\ k - k = 0
  OBVIOUS
<1>8. f[k] = p[0] - g[k]
  BY <1>7
<1> HIDE DEF f
<1>9. f[k] \in Nat \ {0}
  BY <1>6, <1>7
<1>10. p[0] = 1 /\ g[k] \in Nat /\ Shifted(x, k) = g[k]
  BY <1>1, <1>2, <1>7 DEF Doubles, Halves
<1> QED BY <1>8, <1>9, <1>10

\* FromOnes makes a word, and one that has the bits it was given.
LEMMA FromOnesProperties ==
  ASSUME NEW n \in Nat, NEW S
  PROVE  /\ FromOnes(n, S) \in 0..(Power(n) - 1)
         /\ \A i \in 0..(n - 1) : Bit(FromOnes(n, S), i) = IF i \in S THEN 1 ELSE 0
<1> DEFINE y == FromOnes(n, S)
<1>1. PICK p : Doubles(n, p)
  BY PowerSteps
<1>2. PICK c : Collects(S, n, c)
  BY FromOnesSteps
<1>3. n \in 0..n /\ y = c[n] /\ y \in Nat /\ p[n] = Power(n) /\ p[n] \in Nat
  BY <1>1, <1>2 DEF Collects, Doubles
<1> HIDE DEF y
<1> DEFINE f == [j \in 0..n |-> p[j] - c[j]]
<1> DEFINE R == Nat \ {0}
<1>4. f = [j \in 0..n |-> f[j]] /\ \A j \in 0..n : f[j] = p[j] - c[j]
  OBVIOUS
<1> HIDE DEF f
<1>5. f[0] \in Nat \ {0}
  <2>1. 0 \in 0..n
    OBVIOUS
  <2>2. p[0] = 1 /\ c[0] = 0
    BY <1>1, <1>2 DEF Collects, Doubles
  <2> QED BY <2>1, <2>2, <1>4
<1>6. ASSUME NEW j \in 1..n, f[j - 1] \in Nat \ {0} PROVE f[j] \in Nat \ {0}
  <2>1. j \in 0..n /\ j - 1 \in 0..n
    OBVIOUS
  <2>2. f[j] = p[j] - c[j] /\ f[j - 1] = p[j - 1] - c[j - 1]
    BY <2>1, <1>4
  <2>3. p[j] = 2 * p[j - 1] /\ p[j - 1] \in Nat
    BY <2>1, <1>1 DEF Doubles
  <2>4. c[j] \in {2 * c[j - 1], 2 * c[j - 1] + 1} /\ c[j - 1] \in Nat
    BY <2>1, <1>2 DEF Collects
  <2> QED BY ONLY <2>2, <2>3, <2>4, <1>6
<1>7. f \in [0..n -> R]
  <2>1. f[0] \in R /\ \A j \in 1..n : f[j - 1] \in R => f[j] \in R
    BY <1>5, <1>6
  <2> HIDE DEF R
  <2> QED BY ONLY <2>1, <1>4, n \in Nat, StepsStay
<1>8. y \in 0..(Power(n) - 1)
  <2>1. f[n] \in Nat \ {0} /\ f[n] = p[n] - c[n]
    BY <1>3, <1>4, <1>7
  <2> QED BY <2>1, <1>3
<1>9. ASSUME NEW i \in 0..(n - 1) PROVE Bit(y, i) = IF i \in S THEN 1 ELSE 0
  <2>1. i \in Nat
    OBVIOUS
  <2>2. PICK g : Halves(y, i, g)
    BY <1>3, <2>1, ShiftedSteps
  <2> DEFINE d == [j \in 0..i |-> c[n - j]]
  <2>3. d[0] = g[0]
    <3>1. 0 \in 0..i /\ n - 0 = n
      OBVIOUS
    <3>2. d[0] = c[n]
      BY <3>1
    <3> QED BY <3>2, <2>2, <1>3 DEF Halves
  <2>4. ASSUME NEW j \in 1..i, d[j - 1] = g[j - 1] PROVE d[j] = g[j]
    <3>1. /\ j \in 0..i /\ j - 1 \in 0..i /\ n - (j - 1) \in 1..n /\ n - j \in 0..n
          /\ (n - (j - 1)) - 1 = n - j
      OBVIOUS
    <3>2. d[j] = c[n - j] /\ d[j - 1] = c[n - (j - 1)]
      BY <3>1
    <3> HIDE DEF d
    <3>3. c[n - (j - 1)] \in {2 * c[n - j], 2 * c[n - j] + 1} /\ c[n - j] \in Nat
      BY <3>1, <1>2 DEF Collects
    <3>4. g[j] = g[j - 1] \div 2
      BY <2>2 DEF Halves
    <3> QED BY ONLY <3>2, <3>3, <3>4, <2>4
  <2>5. d[i] = g[i]
    <3> HIDE DEF d
    <3> QED BY <2>1, <2>3, <2>4, StepsAgree
  <2>6. i \in 0..i /\ n - i \in 1..n /\ (n - i) - 1 \in 0..n /\ n - (n - i) = i
    OBVIOUS
  <2>7. Shifted(y, i) = c[n - i]
    <3>1. d[i] = c[n - i]
      BY <2>6
    <3> HIDE DEF d
    <3> QED BY <3>1, <2>2, <2>5 DEF Halves
  <2>8. /\ c[n - i] = 2 * c[(n - i) - 1] + (IF i \in S THEN 1 ELSE 0)
        /\ c[(n - i) - 1] \in Nat
    BY <2>6, <1>2 DEF Collects
  <2> QED BY <2>7, <2>8 DEF Bit
<1> QED BY <1>8, <1>9 DEF y

LEMMA BitValue ==
  ASSUME NEW x \in Nat, NEW i \in Nat
  PROVE  Bit(x, i) \in {0, 1}
<1>1. Shifted(x, i) \in Nat
  BY ShiftedProperties
<1> QED BY <1>1 DEF Bit

LEMMA WordProperties ==
  /\ Width \in Nat \ {0} /\ Width - 1 \in Nat
  /\ SignBit \in Nat \ {0} /\ Modulus = 2 * SignBit /\ Modulus \in Nat \ {0}
<1>1. Width \in Nat \ {0} /\ Width - 1 \in Nat /\ (Width - 1) + 1 = Width
  BY ProcessorAssumption
<1>2. Power(Width - 1) \in Nat \ {0} /\ Power((Width - 1) + 1) = 2 * Power(Width - 1)
  BY <1>1, PowerProperties
<1> QED BY <1>1, <1>2 DEF SignBit, Modulus

\* The highest bit of a word is set in the upper half of the words.
LEMMA HighestBit ==
  ASSUME NEW a \in Words
  PROVE  Bit(a, Width - 1) = IF a >= SignBit THEN 1 ELSE 0
<1> DEFINE k == Width - 1
<1>1. /\ a \in Nat /\ a < Modulus /\ k \in Nat /\ SignBit \in Nat /\ Modulus = 2 * SignBit
      /\ SignBit = Power(k)
  BY WordProperties DEF Words, SignBit
<1> HIDE DEF k
<1>2. CASE a < SignBit
  <2>1. Shifted(a, k) = 0
    BY <1>1, <1>2, ShiftedOut
  <2> QED BY <2>1, <1>1, <1>2 DEF Bit, k
<1>3. CASE a >= SignBit
  <2> DEFINE b == a - SignBit
  <2>1. b \in Nat /\ b < Power(k) /\ b + Power(k) = a
    BY <1>1, <1>3
  <2> HIDE DEF b
  <2>2. Shifted(b, k) = 0 /\ Shifted(b + Power(k), k) = Shifted(b, k) + 1
    BY <2>1, <1>1, ShiftedOut, BitsOfSum
  <2>3. Shifted(a, k) = 1
    BY <2>1, <2>2
  <2> QED BY <2>3, <1>3 DEF Bit, k
<1> QED BY <1>1, <1>2, <1>3

----------------------------------------------------------------------------
(***************************************************************************)
(* The arithmetic unit                                                     *)
(***************************************************************************)

LEMMA SumsAreWords ==
  ASSUME NEW a \in Words, NEW b \in Words
  PROVE  /\ Sum(a, b) \in Words /\ Listed!Same(Sum(a, b), a + b)
         /\ (a - b) % Modulus \in Words /\ Listed!Same((a - b) % Modulus, a - b)
<1> DEFINE M == Modulus
<1>1. M \in Nat \ {0} /\ a \in 0..(M - 1) /\ b \in 0..(M - 1) /\ Words = 0..(M - 1)
  BY WordProperties DEF Words
<1>2. \A x, y : Listed!Same(x, y) <=> (x - y) % M = 0
  BY SameBits DEF Listed!Same, Modulus
<1>3. Sum(a, b) = (a + b) % M
  BY DEF Sum
<1>4. (a - b) % Modulus = (a - b) % M
  OBVIOUS
<1> HIDE DEF M
<1>5. 0 % M = 0 /\ (-M) % M = 0 /\ M % M = 0
  <2>1. 0 \in Int /\ 0 \in 0..(M - 1) /\ -M \in Int /\ -M \in (-M)..(-1)
        /\ M \in Int /\ M \in M..(2 * M - 1)
    BY <1>1
  <2>2. 0 % M = 0
    BY <2>1, <1>1, InModulus
  <2>3. (-M) % M = (-M) + M
    BY <2>1, <1>1, BelowModulus
  <2>4. M % M = M - M
    BY <2>1, <1>1, AboveModulus
  <2> QED BY <2>1, <2>2, <2>3, <2>4
<1>6. (a + b) % M \in 0..(M - 1) /\ ((a + b) % M) - (a + b) \in {0, -M}
  <2> DEFINE s == (a + b) % M
  <2>1. s \in 0..(M - 1) /\ (s = a + b \/ s = a + b - M)
    BY <1>1, SumModulus
  <2> HIDE DEF s
  <2>2. s - (a + b) \in {0, -M}
    BY <2>1, <1>1
  <2> QED BY <2>1, <2>2 DEF s
<1>7. (a - b) % M \in 0..(M - 1) /\ ((a - b) % M) - (a - b) \in {0, M}
  <2> DEFINE x == a - b
  <2>1. x \in Int /\ (x \in 0..(M - 1) \/ x \in (-M)..(-1))
    BY <1>1
  <2> HIDE DEF x
  <2>2. CASE x \in 0..(M - 1)
    <3>1. x % M = x
      BY <2>1, <2>2, <1>1, InModulus
    <3>2. (x % M) - x = 0
      BY <3>1, <2>1
    <3> QED BY <3>1, <3>2, <2>2 DEF x
  <2>3. CASE x \in (-M)..(-1)
    <3>1. x % M = x + M
      BY <2>1, <2>3, <1>1, BelowModulus
    <3>2. x + M \in 0..(M - 1) /\ (x + M) - x = M
      BY <2>1, <2>3, <1>1
    <3>3. x % M \in 0..(M - 1) /\ (x % M) - x = M
      BY ONLY <3>1, <3>2
    <3> QED BY <3>3 DEF x
  <2> QED BY <2>1, <2>2, <2>3
<1>8. (((a + b) % M) - (a + b)) % M = 0
  BY ONLY <1>5, <1>6
<1>9. (((a - b) % M) - (a - b)) % M = 0
  BY ONLY <1>5, <1>7
<1> QED BY <1>1, <1>2, <1>3, <1>4, <1>6, <1>7, <1>8, <1>9

\* What the bits of a word have, FromOnes gives a word.
LEMMA OnesProperties ==
  ASSUME NEW S
  PROVE  /\ FromOnes(Width, S) \in Words
         /\ \A i \in 0..(Width - 1) : Bit(FromOnes(Width, S), i) = IF i \in S THEN 1 ELSE 0
<1>1. Width \in Nat
  BY WordProperties
<1> QED BY <1>1, FromOnesProperties DEF Words, Modulus

LEMMA BitsOfWord ==
  ASSUME NEW a \in Words, NEW i \in 0..(Width - 1)
  PROVE  Bit(a, i) \in {0, 1} /\ (i \in Ones(Width, a) <=> Bit(a, i) = 1)
<1>1. a \in Nat /\ i \in Nat
  BY WordProperties DEF Words
<1> QED BY <1>1, BitValue DEF Ones

\* A shift to the left leaves out the highest bit.
LEMMA LeftShift ==
  ASSUME NEW a \in Words, NEW y, y = Sum(a, a)
  PROVE  Bit(y, 0) = 0 /\ \A i \in 1..(Width - 1) : Bit(y, i) = Bit(a, i - 1)
<1> DEFINE k == Width - 1
<1>1. /\ Width \in Nat /\ k \in Nat /\ SignBit \in Nat \ {0} /\ Modulus = 2 * SignBit
      /\ SignBit = Power(k) /\ Modulus \in Nat \ {0}
  BY WordProperties DEF SignBit
<1>2. a \in 0..(Modulus - 1) /\ a \in Nat
  BY <1>1 DEF Words
<1> DEFINE c == IF a >= SignBit THEN a - SignBit ELSE a
<1>3. y = 2 * c /\ c \in Nat
  <2>1. y = (a + a) % Modulus
    BY DEF Sum
  <2>2. CASE a >= SignBit
    <3>1. a + a \in Int /\ a + a \in Modulus..(2 * Modulus - 1)
      BY <2>2, <1>1, <1>2
    <3>2. y = (a + a) - Modulus
      BY <2>1, <3>1, <1>1, AboveModulus
    <3> QED BY <3>2, <2>2, <1>1, <1>2
  <2>3. CASE ~(a >= SignBit)
    <3>1. a + a \in Int /\ a + a \in 0..(Modulus - 1)
      BY <2>3, <1>1, <1>2
    <3>2. y = a + a
      BY <2>1, <3>1, <1>1, InModulus
    <3> QED BY <3>2, <2>3, <1>1, <1>2
  <2> QED BY <2>2, <2>3
<1>4. a = c \/ a = c + Power(k)
  BY <1>1, <1>2
<1> HIDE DEF c
<1>5. y \in Nat /\ y \div 2 = c
  BY <1>3
<1>6. Bit(y, 0) = 0
  <2>1. Shifted(y, 0) = y
    <3>1. 0 \in Nat
      OBVIOUS
    <3> QED BY <3>1, <1>5, ShiftedProperties
  <2> QED BY <2>1, <1>3 DEF Bit
<1>7. ASSUME NEW i \in 1..(Width - 1) PROVE Bit(y, i) = Bit(a, i - 1)
  <2>1. i - 1 \in Nat /\ i - 1 \in 0..k /\ i - 1 < k /\ (i - 1) + 1 = i
    BY <1>1
  <2>2. Bit(y \div 2, i - 1) = Bit(y, (i - 1) + 1)
    BY <2>1, <1>5, ShiftedHalf
  <2>3. Bit(y, i) = Bit(c, i - 1)
    BY <2>1, <2>2, <1>5
  <2>4. Bit(c + Power(k), i - 1) = Bit(c, i - 1)
    BY <2>1, <1>1, <1>3, BitsOfSum
  <2> QED BY <2>3, <2>4, <1>4
<1> QED BY <1>6, <1>7

\* A shift to the right leaves out the lowest bit, and sets the highest one or not.
LEMMA RightShift ==
  ASSUME NEW a \in Words, NEW top \in {0, SignBit}, NEW y, y = a \div 2 + top
  PROVE  /\ y \in Words
         /\ Bit(y, Width - 1) = IF top = 0 THEN 0 ELSE 1
         /\ \A i \in 1..(Width - 1) : Bit(y, i - 1) = Bit(a, i)
<1> DEFINE k == Width - 1
<1> DEFINE h == a \div 2
<1>1. /\ Width \in Nat /\ k \in Nat /\ SignBit \in Nat \ {0} /\ Modulus = 2 * SignBit
      /\ SignBit = Power(k)
  BY WordProperties DEF SignBit
<1>2. a \in 0..(Modulus - 1) /\ a \in Nat
  BY <1>1 DEF Words
<1>3. h \in Nat /\ h < Power(k)
  BY <1>1, <1>2
<1>4. y = h + top
  OBVIOUS
<1> DEFINE t == Width - 1
<1>5. t = k
  OBVIOUS
<1> HIDE DEF k
<1>6. ASSUME NEW i \in 1..t PROVE Bit(h, i - 1) = Bit(a, i)
  <2>1. i - 1 \in Nat /\ (i - 1) + 1 = i
    BY <1>1, <1>5
  <2> QED BY <2>1, <1>2, ShiftedHalf
<1> HIDE DEF h
<1>7. Shifted(h, k) = 0 /\ Bit(h, k) = 0
  <2>1. Shifted(h, k) = 0
    BY <1>1, <1>3, ShiftedOut
  <2> QED BY <2>1 DEF Bit
<1>8. y \in Words
  BY <1>1, <1>3, <1>4 DEF Words
<1>9. CASE top = 0
  <2>1. y = h
    BY <1>9, <1>3, <1>4
  <2> QED BY <2>1, <1>5, <1>6, <1>7, <1>8, <1>9
<1>10. CASE top # 0
  <2>1. y = h + Power(k)
    BY <1>10, <1>1, <1>4
  <2>2. Shifted(y, k) = 1
    <3>1. Shifted(h + Power(k), k) = Shifted(h, k) + 1
      BY <1>1, <1>3, BitsOfSum
    <3> QED BY <3>1, <2>1, <1>7
  <2>3. Bit(y, k) = 1
    BY <2>2 DEF Bit
  <2>4. ASSUME NEW i \in 1..t PROVE Bit(y, i - 1) = Bit(a, i)
    <3>1. i - 1 \in 0..k /\ i - 1 < k
      BY <1>1, <1>5
    <3>2. Bit(h + Power(k), i - 1) = Bit(h, i - 1)
      BY <3>1, <1>1, <1>3, BitsOfSum
    <3> QED BY <3>2, <2>1, <1>6
  <2> QED BY <2>3, <2>4, <1>5, <1>8, <1>10
<1> QED BY <1>9, <1>10


\* The two shifts to the right: one copies the sign, one does not.
LEMMA ShiftedRight ==
  ASSUME NEW a \in Words
  PROVE  /\ a \div 2 \in Words /\ Bit(a \div 2, Width - 1) = 0
         /\ \A i \in 1..(Width - 1) : Bit(a \div 2, i - 1) = Bit(a, i)
         /\ a \div 2 + (IF a >= SignBit THEN SignBit ELSE 0) \in Words
         /\ Bit(a \div 2 + (IF a >= SignBit THEN SignBit ELSE 0), Width - 1) = Bit(a, Width - 1)
         /\ \A i \in 1..(Width - 1) :
              Bit(a \div 2 + (IF a >= SignBit THEN SignBit ELSE 0), i - 1) = Bit(a, i)
<1> DEFINE top == IF a >= SignBit THEN SignBit ELSE 0
<1> DEFINE h == a \div 2
<1>1. top \in {0, SignBit} /\ 0 \in {0, SignBit} /\ SignBit # 0 /\ h = h + 0
      /\ (top = 0 <=> ~(a >= SignBit))
  BY WordProperties DEF Words
<1>2. Bit(a, Width - 1) = IF a >= SignBit THEN 1 ELSE 0
  BY HighestBit
<1>3. /\ h \in Words /\ Bit(h, Width - 1) = 0
      /\ \A i \in 1..(Width - 1) : Bit(h, i - 1) = Bit(a, i)
  BY <1>1, RightShift
<1> HIDE DEF top
<1>4. /\ h + top \in Words /\ Bit(h + top, Width - 1) = IF top = 0 THEN 0 ELSE 1
      /\ \A i \in 1..(Width - 1) : Bit(h + top, i - 1) = Bit(a, i)
  BY <1>1, RightShift
<1>5. Bit(h + top, Width - 1) = Bit(a, Width - 1)
  BY <1>1, <1>2, <1>4
<1> QED BY <1>3, <1>4, <1>5 DEF top

LEMMA Incremented ==
  ASSUME NEW a \in Words
  PROVE  Sum(a, 1) \in Words /\ Listed!Same(Sum(a, 1), a + 1)
<1>1. 1 \in Words
  BY WordProperties DEF Words
<1> QED BY <1>1, SumsAreWords

\* Every opcode gives a word.
LEMMA AluGivesWords ==
  ASSUME NEW a \in Words, NEW b \in Words, NEW code \in 0..15
  PROVE  AluResult(code, a, b) \in Words
<1> DEFINE y == AluResult(code, a, b)
<1>1. 0 \in Words /\ 1 \in Words \cup {Modulus}
  BY WordProperties DEF Words
<1>2. Sum(a, b) \in Words /\ Sum(a, a) \in Words /\ (a - b) % Modulus \in Words
  BY SumsAreWords
<1>3. Sum(a, 1) \in Words
  BY Incremented
<1>4. \A S : FromOnes(Width, S) \in Words
  BY OnesProperties
<1>5. a \div 2 \in Words /\ a \div 2 + (IF a >= SignBit THEN SignBit ELSE 0) \in Words
  BY ShiftedRight
<1> QED
  BY ONLY <1>1, <1>2, <1>3, <1>4, <1>5, code \in 0..15
  DEF AluResult, AluAdd, AluInv, AluSub, AluXor, AluOr, AluIncr, AluAnd, AluSra, AluSrl, AluSla,
      AluSll

\* The unit computes what the listing says of an operation that takes two registers...
LEMMA AluComputesOfTwo ==
  ASSUME NEW a \in Words, NEW b \in Words, NEW op \in Binary, NEW code \in Opcodes(op)
  PROVE  Listed!Result(op, a, b, AluResult(code, a, b))
<1> DEFINE y == AluResult(code, a, b)
<1> DEFINE places == 0..(Width - 1)
<1> DEFINE A == Ones(Width, a)
<1> DEFINE B == Ones(Width, b)
<1>1. \A i \in places : Bit(a, i) \in {0, 1} /\ (i \in A <=> Bit(a, i) = 1)
  BY BitsOfWord
<1>2. \A i \in places : Bit(b, i) \in {0, 1} /\ (i \in B <=> Bit(b, i) = 1)
  BY BitsOfWord
<1>3. \A S : \A i \in places : Bit(FromOnes(Width, S), i) = IF i \in S THEN 1 ELSE 0
  BY OnesProperties
<1> HIDE DEF A, B, places
<1>4. CASE op = "+"
  <2>1. y = Sum(a, b)
    BY <1>4 DEF Opcodes, AluResult, AluAdd, AluInv, AluSub, AluXor, AluOr, AluIncr, AluAnd, AluSra,
                AluSrl, AluSla, AluSll
  <2>2. Listed!Same(y, a + b)
    BY <2>1, SumsAreWords
  <2> HIDE DEF y
  <2> QED BY <2>2, <1>4 DEF Listed!Result, y
<1>5. CASE op = "-"
  <2>1. y = (a - b) % Modulus
    BY <1>5 DEF Opcodes, AluResult, AluAdd, AluInv, AluSub, AluXor, AluOr, AluIncr, AluAnd, AluSra,
                AluSrl, AluSla, AluSll
  <2>2. Listed!Same(y, a - b)
    BY <2>1, SumsAreWords
  <2> HIDE DEF y
  <2> QED BY <2>2, <1>5 DEF Listed!Result, y
<1>6. CASE op = "&"
  <2>1. y = FromOnes(Width, A \cap B)
    BY <1>6 DEF Opcodes, AluResult, AluAdd, AluInv, AluSub, AluXor, AluOr, AluIncr, AluAnd, AluSra,
                AluSrl, AluSla, AluSll, A, B
  <2>2. \A i \in places : Bit(y, i) = IF i \in A \cap B THEN 1 ELSE 0
    BY <2>1, <1>3
  <2> HIDE DEF y
  <2>3. \A i \in places : Bit(y, i) = Bit(a, i) * Bit(b, i)
    BY ONLY <2>2, <1>1, <1>2
  <2> QED BY <2>3, <1>6, SameBits DEF Listed!Result, places, y
<1>7. CASE op = "|"
  <2>1. y = FromOnes(Width, A \cup B)
    BY <1>7 DEF Opcodes, AluResult, AluAdd, AluInv, AluSub, AluXor, AluOr, AluIncr, AluAnd, AluSra,
                AluSrl, AluSla, AluSll, A, B
  <2>2. \A i \in places : Bit(y, i) = IF i \in A \cup B THEN 1 ELSE 0
    BY <2>1, <1>3
  <2> HIDE DEF y
  <2>3. \A i \in places : Bit(y, i) = 1 <=> 1 \in {Bit(a, i), Bit(b, i)}
    BY ONLY <2>2, <1>1, <1>2
  <2> QED BY <2>3, <1>7, SameBits DEF Listed!Result, places, y
<1>8. CASE op = "^"
  <2>1. y = FromOnes(Width, (A \ B) \cup (B \ A))
    BY <1>8 DEF Opcodes, AluResult, AluAdd, AluInv, AluSub, AluXor, AluOr, AluIncr, AluAnd, AluSra,
                AluSrl, AluSla, AluSll, A, B
  <2>2. \A i \in places : Bit(y, i) = IF i \in (A \ B) \cup (B \ A) THEN 1 ELSE 0
    BY <2>1, <1>3
  <2> HIDE DEF y
  <2>3. \A i \in places : Bit(y, i) = (Bit(a, i) + Bit(b, i)) % 2
    BY ONLY <2>2, <1>1, <1>2
  <2> QED BY <2>3, <1>8, SameBits DEF Listed!Result, places, y
<1> QED BY <1>4, <1>5, <1>6, <1>7, <1>8 DEF Binary

\* ...and of one that takes one.
LEMMA AluComputesOfOne ==
  ASSUME NEW a \in Words, NEW b, NEW c, NEW op \in Unary, NEW code \in Opcodes(op)
  PROVE  Listed!Result(op, a, c, AluResult(code, a, b))
<1> DEFINE y == AluResult(code, a, b)
<1> DEFINE places == 0..(Width - 1)
<1> DEFINE A == Ones(Width, a)
<1>1. CASE op = "++"
  <2>1. y = Sum(a, 1)
    BY <1>1 DEF Opcodes, AluResult, AluAdd, AluInv, AluSub, AluXor, AluOr, AluIncr, AluAnd, AluSra,
                AluSrl, AluSla, AluSll
  <2>2. Listed!Same(y, a + 1)
    BY <2>1, Incremented
  <2> HIDE DEF y
  <2> QED BY <2>2, <1>1 DEF Listed!Result, y
<1>2. CASE op = "~"
  <2>1. y = FromOnes(Width, places \ A)
    BY <1>2 DEF Opcodes, AluResult, AluAdd, AluInv, AluSub, AluXor, AluOr, AluIncr, AluAnd, AluSra,
                AluSrl, AluSla, AluSll
  <2>2. \A i \in places : Bit(a, i) \in {0, 1} /\ (i \in A <=> Bit(a, i) = 1)
    BY BitsOfWord
  <2>3. \A i \in places : Bit(y, i) = IF i \in places \ A THEN 1 ELSE 0
    BY <2>1, OnesProperties
  <2> HIDE DEF y, A, places
  <2>4. \A i \in places : Bit(y, i) = 1 - Bit(a, i)
    BY ONLY <2>2, <2>3
  <2> QED BY <2>4, <1>2, SameBits DEF Listed!Result, places, y
<1>3. CASE op = ">>"
  <2>1. y = a \div 2 + (IF a >= SignBit THEN SignBit ELSE 0)
    BY <1>3 DEF Opcodes, AluResult, AluAdd, AluInv, AluSub, AluXor, AluOr, AluIncr, AluAnd, AluSra,
                AluSrl, AluSla, AluSll
  <2>2. Bit(y, Width - 1) = Bit(a, Width - 1)
    BY <2>1, ShiftedRight
  <2>3. \A i \in 1..(Width - 1) : Bit(y, i - 1) = Bit(a, i)
    BY <2>1, ShiftedRight
  <2> HIDE DEF y
  <2> QED BY <2>2, <2>3, <1>3, SameBits DEF Listed!Result, y
<1>4. CASE op = ">>>"
  <2>1. y = a \div 2
    BY <1>4 DEF Opcodes, AluResult, AluAdd, AluInv, AluSub, AluXor, AluOr, AluIncr, AluAnd, AluSra,
                AluSrl, AluSla, AluSll
  <2>2. Bit(y, Width - 1) = 0
    BY <2>1, ShiftedRight
  <2>3. \A i \in 1..(Width - 1) : Bit(y, i - 1) = Bit(a, i)
    BY <2>1, ShiftedRight
  <2> HIDE DEF y
  <2> QED BY <2>2, <2>3, <1>4, SameBits DEF Listed!Result, y
<1>5. CASE op = "<<"
  <2>1. y = Sum(a, a)
    BY <1>5 DEF Opcodes, AluResult, AluAdd, AluInv, AluSub, AluXor, AluOr, AluIncr, AluAnd, AluSra,
                AluSrl, AluSla, AluSll
  <2>2. Bit(y, 0) = 0 /\ \A i \in 1..(Width - 1) : Bit(y, i) = Bit(a, i - 1)
    BY <2>1, LeftShift
  <2> HIDE DEF y
  <2> QED BY <2>2, <1>5, SameBits DEF Listed!Result, y
<1> QED BY <1>1, <1>2, <1>3, <1>4, <1>5 DEF Unary

----------------------------------------------------------------------------
(***************************************************************************)
(* A tick of the clock                                                     *)
(***************************************************************************)

\* The fields of an instruction stay within their masks.
LEMMA FieldsOfInstruction ==
  ASSUME NEW w \in Nat
  PROVE  /\ Opcode(w) \in 0..15 /\ WriteFlag(w) \in 0..1 /\ BranchAddr(w) \in 0..63
         /\ Src1(w) \in Register /\ Src2(w) \in Register /\ Dst(w) \in Register
  BY DEF Opcode, WriteFlag, BranchAddr, Src1, Src2, Dst, Field, Register, NumRegisters

LEMMA InstructionStore ==
  ASSUME loaded \in Image
  PROVE  /\ DOMAIN imemory = 0..(InstructionStoreDepth - 1)
         /\ \A a \in 0..(InstructionStoreDepth - 1) :
              /\ imemory[a] \in Nat
              /\ a \in DOMAIN loaded.listing => Encodes(imemory[a], loaded.listing[a])
              /\ a \notin DOMAIN loaded.listing => imemory[a] = 0
<1> DEFINE p == loaded.program
<1> DEFINE l == loaded.listing
<1>1. /\ DOMAIN l = DOMAIN p
      /\ \A a \in DOMAIN p : p[a] \in Nat /\ Encodes(p[a], l[a])
  BY ImageAssumption
<1>2. imemory = [a \in 0..(InstructionStoreDepth - 1) |-> IF a \in DOMAIN p THEN p[a] ELSE 0]
  BY DEF imemory
<1> HIDE DEF p, l
<1>3. /\ DOMAIN imemory = 0..(InstructionStoreDepth - 1)
      /\ \A a \in 0..(InstructionStoreDepth - 1) : imemory[a] = IF a \in DOMAIN p THEN p[a] ELSE 0
  BY <1>2
<1>4. ASSUME NEW a \in 0..(InstructionStoreDepth - 1)
      PROVE  /\ imemory[a] \in Nat
             /\ a \in DOMAIN l => Encodes(imemory[a], l[a])
             /\ a \notin DOMAIN l => imemory[a] = 0
  BY <1>1, <1>3
<1> QED BY <1>3, <1>4 DEF l

\* What the clock reads and sets: the buses hold numbers, the program counter is in the store
\* and w is the instruction there.
Ready(w) ==
  /\ bus \in [Bus -> Int] /\ bus.pc \in 0..(InstructionStoreDepth - 1)
  /\ rfmem \in [Register -> Words]
  /\ w = imemory[bus.pc] /\ w \in Nat

LEMMA Fetched ==
  ASSUME NEW w, Ready(w)
  PROVE  LET b == IFetch(bus) IN b \in [Bus -> Int] /\ b.pc = bus.pc /\ b.instr = w
<1>1. "instr" \in Bus /\ "pc" \in Bus /\ w \in Int
  BY DEF Bus, Ready
<1>2. IFetch(bus) = [bus EXCEPT !.instr = w]
  BY DEF IFetch, Ready
<1>3. bus \in [Bus -> Int]
  BY DEF Ready
<1> QED BY <1>1, <1>2, <1>3

LEMMA Decoded ==
  ASSUME NEW b \in [Bus -> Int], b.instr \in Nat
  PROVE  LET c == IDecode(b) w == b.instr
         IN  /\ c \in [Bus -> Int] /\ c.pc = b.pc
             /\ c.aluop = Opcode(w) /\ c.writep = WriteFlag(w)
             /\ c.src1 = Src1(w) /\ c.src2 = Src2(w) /\ c.dst = Dst(w)
             /\ c.branch_addr = BranchAddr(w)
<1> DEFINE w == b.instr
<1>1. /\ Opcode(w) \in Int /\ WriteFlag(w) \in Int /\ BranchAddr(w) \in Int
      /\ Src1(w) \in Int /\ Src2(w) \in Int /\ Dst(w) \in Int
  BY FieldsOfInstruction DEF Register, NumRegisters
<1>2. IDecode(b) = [b EXCEPT !.aluop = Opcode(w), !.writep = WriteFlag(w), !.src1 = Src1(w),
                             !.src2 = Src2(w), !.dst = Dst(w), !.branch_addr = BranchAddr(w)]
  BY DEF IDecode
<1> HIDE DEF w
<1>3. IDecode(b) \in [Bus -> Int]
  BY <1>1, <1>2
<1>4. IDecode(b).pc = b.pc
  BY <1>2 DEF Bus
<1>5. IDecode(b).aluop = Opcode(w)
  BY <1>2 DEF Bus
<1>6. IDecode(b).writep = WriteFlag(w)
  BY <1>2 DEF Bus
<1>7. IDecode(b).src1 = Src1(w)
  BY <1>2 DEF Bus
<1>8. IDecode(b).src2 = Src2(w)
  BY <1>2 DEF Bus
<1>9. IDecode(b).dst = Dst(w)
  BY <1>2 DEF Bus
<1>10. IDecode(b).branch_addr = BranchAddr(w)
  BY <1>2 DEF Bus
<1> QED BY <1>3, <1>4, <1>5, <1>6, <1>7, <1>8, <1>9, <1>10 DEF w

\* The buses after the units, before the register is written.
LEMMA Ticks ==
  ASSUME NEW w, Ready(w)
  PROVE  LET x == rfmem[Src1(w)] y == rfmem[Src2(w)]
         IN  /\ Ticked \in [Bus -> Int] /\ Ticked.pc = bus.pc
             /\ Ticked.aluop = Opcode(w) /\ Ticked.writep = WriteFlag(w)
             /\ Ticked.src1 = Src1(w) /\ Ticked.src2 = Src2(w) /\ Ticked.dst = Dst(w)
             /\ Ticked.branch_addr = BranchAddr(w)
             /\ Ticked.rf1 = x /\ Ticked.rf2 = y
             /\ Ticked.branch = IF Opcode(w) = OpBnz /\ x # 0 THEN 1 ELSE 0
             /\ Ticked.aluout = AluResult(Opcode(w), x, y)
<1> DEFINE x == rfmem[Src1(w)]
<1> DEFINE y == rfmem[Src2(w)]
<1> DEFINE z == AluResult(Opcode(w), x, y)
<1> DEFINE t == IF Opcode(w) = OpBnz /\ x # 0 THEN 1 ELSE 0
<1> DEFINE b == IFetch(bus)
<1> DEFINE c == IDecode(b)
<1> DEFINE d == RfRead(c)
<1> DEFINE e == BranchTest(d)
<1>1. w \in Nat
  BY DEF Ready
<1>2. /\ Opcode(w) \in 0..15 /\ Src1(w) \in Register /\ Src2(w) \in Register
      /\ x \in Words /\ y \in Words /\ Words \subseteq Int
  BY <1>1, FieldsOfInstruction, WordProperties DEF Ready, Words
<1> HIDE DEF x, y
<1>3. z \in Words /\ t \in Int
  BY ONLY <1>2, AluGivesWords
<1> HIDE DEF z, t
<1>4. b \in [Bus -> Int] /\ b.pc = bus.pc /\ b.instr = w
  BY Fetched
<1> HIDE DEF b
<1>5. /\ c \in [Bus -> Int] /\ c.pc = bus.pc
      /\ c.aluop = Opcode(w) /\ c.writep = WriteFlag(w)
      /\ c.src1 = Src1(w) /\ c.src2 = Src2(w) /\ c.dst = Dst(w)
      /\ c.branch_addr = BranchAddr(w)
  BY <1>1, <1>4, Decoded
<1> HIDE DEF c
<1>6. d = [c EXCEPT !.rf1 = x, !.rf2 = y]
  BY <1>5 DEF RfRead, x, y
<1> HIDE DEF d
<1>7. d \in [Bus -> Int] /\ \A k \in Bus \ {"rf1", "rf2"} : d[k] = c[k]
  BY <1>2, <1>5, <1>6
<1>8. d.rf1 = x
  BY <1>5, <1>6 DEF Bus
<1>9. d.rf2 = y
  BY <1>5, <1>6 DEF Bus
<1>10. d.aluop = Opcode(w)
  BY <1>5, <1>7 DEF Bus
<1>11. e = [d EXCEPT !.branch = t]
  BY <1>8, <1>10 DEF BranchTest, t
<1> HIDE DEF e
<1>12. e \in [Bus -> Int] /\ e.branch = t /\ \A k \in Bus \ {"branch"} : e[k] = d[k]
  BY <1>3, <1>7, <1>11 DEF Bus
<1>13. e.rf1 = x /\ e.rf2 = y /\ e.aluop = Opcode(w)
  BY <1>8, <1>9, <1>10, <1>12 DEF Bus
<1>14. Ticked = [e EXCEPT !.aluout = z]
  BY <1>13 DEF Ticked, AluEval, z, e, d, c, b
<1>15. Ticked \in [Bus -> Int] /\ Ticked.aluout = z /\ \A k \in Bus \ {"aluout"} : Ticked[k] = e[k]
  BY <1>2, <1>3, <1>12, <1>14 DEF Bus
<1>16. Ticked.rf1 = x /\ Ticked.rf2 = y /\ Ticked.branch = t
  BY <1>12, <1>13, <1>15 DEF Bus
<1>17. \A k \in Bus \ {"rf1", "rf2", "branch", "aluout"} : Ticked[k] = c[k]
  BY <1>7, <1>12, <1>15
<1>18. /\ Ticked.pc = c.pc /\ Ticked.aluop = c.aluop /\ Ticked.writep = c.writep
       /\ Ticked.src1 = c.src1 /\ Ticked.src2 = c.src2 /\ Ticked.dst = c.dst
       /\ Ticked.branch_addr = c.branch_addr
  BY <1>17 DEF Bus
<1> QED BY <1>5, <1>15, <1>16, <1>18 DEF x, y, z, t

----------------------------------------------------------------------------
(***************************************************************************)
(* What always holds of the buses                                          *)
(***************************************************************************)

\* The buses hold numbers; a program that runs on has ticks left.
IInv ==
  /\ loaded \in Image
  /\ bus \in [Bus -> Int]
  /\ status = "running" => time < MaxExecuteTime - 1
  /\ TypeOK

LEMMA InitHolds == Init => IInv
<1> SUFFICES ASSUME Init PROVE IInv
  OBVIOUS
<1>1. loaded \in Image /\ rfmem \in [Register -> Words]
  BY ImageAssumption DEF Init
<1>2. bus \in [Bus -> Int]
  BY DEF Init
<1>3. bus.pc = 0
  BY DEF Init, Bus
<1>4. time = 0 /\ status = "running" /\ MaxExecuteTime \in Nat \ {0, 1}
  BY ProcessorAssumption DEF Init
<1> QED BY <1>1, <1>2, <1>3, <1>4 DEF IInv, TypeOK, InstructionStoreDepth

\* A tick is made of what Ticks says.
LEMMA ClockReady ==
  ASSUME IInv, Clock
  PROVE  Ready(imemory[bus.pc])
<1>1. loaded \in Image /\ bus \in [Bus -> Int] /\ rfmem \in [Register -> Words]
  BY DEF IInv, TypeOK
<1>2. bus.pc \in 0..(InstructionStoreDepth - 1)
  BY <1>1, InstructionStore DEF Clock
<1> QED BY <1>1, <1>2, InstructionStore DEF Ready

\* What a tick leaves in the registers and on the buses.
LEMMA ClockSteps ==
  ASSUME IInv, Clock, NEW w, w = imemory[bus.pc]
  PROVE  LET x == rfmem[Src1(w)] y == rfmem[Src2(w)]
             z == AluResult(Opcode(w), x, y)
             taken == Opcode(w) = OpBnz /\ x # 0
         IN  /\ rfmem' = IF WriteFlag(w) = 1 THEN [rfmem EXCEPT ![Dst(w)] = z] ELSE rfmem
             /\ bus' \in [Bus -> Int]
             /\ bus'.pc = IF taken THEN BranchAddr(w) ELSE bus.pc + 1
             /\ bus'.aluop = Opcode(w) /\ bus'.writep = WriteFlag(w)
             /\ bus'.src1 = Src1(w) /\ bus'.src2 = Src2(w) /\ bus'.dst = Dst(w)
             /\ bus'.branch_addr = BranchAddr(w)
             /\ bus'.rf1 = x /\ bus'.rf2 = y /\ bus'.aluout = z
             /\ bus'.branch = IF taken THEN 1 ELSE 0
<1> DEFINE x == rfmem[Src1(w)]
<1> DEFINE y == rfmem[Src2(w)]
<1> DEFINE z == AluResult(Opcode(w), x, y)
<1> DEFINE taken == Opcode(w) = OpBnz /\ x # 0
<1> DEFINE t == Ticked
<1>1. Ready(w)
  BY ClockReady
<1>2. /\ t \in [Bus -> Int] /\ t.pc = bus.pc
      /\ t.aluop = Opcode(w) /\ t.writep = WriteFlag(w)
      /\ t.src1 = Src1(w) /\ t.src2 = Src2(w) /\ t.dst = Dst(w)
      /\ t.branch_addr = BranchAddr(w)
      /\ t.rf1 = x /\ t.rf2 = y
      /\ t.branch = IF taken THEN 1 ELSE 0
      /\ t.aluout = z
  BY <1>1, Ticks
<1>3. rfmem' = RfWrite(t) /\ bus' = NextPC(t)
  BY DEF Clock
<1>4. bus.pc \in Int /\ BranchAddr(w) \in Int
  BY <1>1, FieldsOfInstruction DEF Ready
<1> HIDE DEF t, x, y, z, taken
<1>5. rfmem' = IF WriteFlag(w) = 1 THEN [rfmem EXCEPT ![Dst(w)] = z] ELSE rfmem
  BY <1>2, <1>3 DEF RfWrite
<1> DEFINE next == IF taken THEN BranchAddr(w) ELSE bus.pc + 1
<1>6. next \in Int /\ bus' = [t EXCEPT !.pc = next]
  BY <1>2, <1>3, <1>4 DEF NextPC
<1> HIDE DEF next
<1>7. bus' \in [Bus -> Int] /\ bus'.pc = next /\ \A k \in Bus \ {"pc"} : bus'[k] = t[k]
  BY <1>2, <1>6 DEF Bus
<1>8. /\ bus'.aluop = t.aluop /\ bus'.writep = t.writep /\ bus'.src1 = t.src1
      /\ bus'.src2 = t.src2 /\ bus'.dst = t.dst /\ bus'.branch_addr = t.branch_addr
      /\ bus'.rf1 = t.rf1 /\ bus'.rf2 = t.rf2 /\ bus'.aluout = t.aluout
      /\ bus'.branch = t.branch
  BY <1>7 DEF Bus
<1> QED BY <1>2, <1>5, <1>7, <1>8 DEF x, y, z, taken, next

LEMMA ClockHolds ==
  ASSUME IInv, Clock
  PROVE  IInv'
<1> DEFINE w == imemory[bus.pc]
<1> DEFINE x == rfmem[Src1(w)]
<1> DEFINE y == rfmem[Src2(w)]
<1> DEFINE z == AluResult(Opcode(w), x, y)
<1> DEFINE taken == Opcode(w) = OpBnz /\ x # 0
<1>1. /\ w \in Nat /\ bus.pc \in 0..(InstructionStoreDepth - 1)
      /\ rfmem \in [Register -> Words]
  BY ClockReady DEF Ready
<1>2. /\ rfmem' = IF WriteFlag(w) = 1 THEN [rfmem EXCEPT ![Dst(w)] = z] ELSE rfmem
      /\ bus' \in [Bus -> Int]
      /\ bus'.pc = IF taken THEN BranchAddr(w) ELSE bus.pc + 1
      /\ bus'.aluop = Opcode(w) /\ bus'.writep = WriteFlag(w)
      /\ bus'.src1 = Src1(w) /\ bus'.src2 = Src2(w) /\ bus'.dst = Dst(w)
      /\ bus'.branch_addr = BranchAddr(w)
      /\ bus'.rf1 = x /\ bus'.rf2 = y /\ bus'.aluout = z
      /\ bus'.branch = IF taken THEN 1 ELSE 0
  BY ClockSteps
<1> HIDE DEF w
<1>3. /\ Opcode(w) \in 0..15 /\ WriteFlag(w) \in 0..1 /\ BranchAddr(w) \in 0..63
      /\ Src1(w) \in Register /\ Src2(w) \in Register /\ Dst(w) \in Register
  BY <1>1, FieldsOfInstruction
<1>4. x \in Words /\ y \in Words
  BY <1>1, <1>3
<1> HIDE DEF x, y
<1>5. z \in Words
  BY ONLY <1>3, <1>4, AluGivesWords
<1> HIDE DEF z, taken
<1>6. rfmem' \in [Register -> Words]
  BY <1>1, <1>2, <1>3, <1>5
<1>7. bus'.pc \in 0..InstructionStoreDepth
  BY <1>1, <1>2, <1>3 DEF InstructionStoreDepth
<1>8. /\ bus'.aluop \in 0..15 /\ bus'.writep \in 0..1 /\ bus'.branch \in 0..1
      /\ {bus'.src1, bus'.src2, bus'.dst} \subseteq Register
      /\ bus'.branch_addr \in 0..63
      /\ {bus'.rf1, bus'.rf2, bus'.aluout} \subseteq Words
  BY <1>2, <1>3, <1>4, <1>5
<1>9. /\ time' \in 0..(MaxExecuteTime - 1)
      /\ status' \in {"running", "done", "max time", "stray"}
      /\ status' = "running" => time' < MaxExecuteTime - 1
  <2>1. /\ time \in 0..(MaxExecuteTime - 1) /\ time < MaxExecuteTime - 1 /\ time' = time + 1
        /\ status' = HowItGoesOn(bus'.aluop, time')
    BY DEF Clock, IInv, TypeOK
  <2>2. MaxExecuteTime \in Nat
    BY ProcessorAssumption
  <2>3. status' \in {"running", "done", "max time", "stray"}
    BY <2>1 DEF HowItGoesOn
  <2>4. status' = "running" => time' # MaxExecuteTime - 1
    BY <2>1 DEF HowItGoesOn
  <2>5. time' \in 0..(MaxExecuteTime - 1) /\ (time' # MaxExecuteTime - 1 => time' < MaxExecuteTime - 1)
    BY <2>1, <2>2
  <2> QED BY <2>3, <2>4, <2>5
<1>10. loaded' \in Image
  BY DEF IInv, Clock
<1> QED BY <1>2, <1>6, <1>7, <1>8, <1>9, <1>10 DEF IInv, TypeOK

LEMMA StepHolds == IInv /\ [Next]_vars => IInv'
<1> SUFFICES ASSUME IInv, [Next]_vars PROVE IInv'
  OBVIOUS
<1>1. CASE Clock
  BY <1>1, ClockHolds
<1>2. CASE Stray
  BY <1>2 DEF Stray, IInv, TypeOK
<1>3. CASE UNCHANGED vars
  BY <1>3 DEF vars, IInv, TypeOK
<1> QED BY <1>1, <1>2, <1>3 DEF Next

\* The registers hold words of their width, the program counter stays in the store or just
\* behind it, and each bus carries what its reader expects, for every width and every program.
THEOREM BusesCarryTheirValues == Spec => []TypeOK
<1>1. IInv => TypeOK
  BY DEF IInv
<1> QED BY <1>1, InitHolds, StepHolds, PTL DEF Spec

----------------------------------------------------------------------------
(***************************************************************************)
(* The units do what the listing says                                      *)
(***************************************************************************)

\* What a tick does as the listing sees it.
LEMMA ClockSeen ==
  ASSUME IInv, Clock, NEW w, w = imemory[bus.pc]
  PROVE  /\ w \in Nat /\ bus.pc \in 0..(InstructionStoreDepth - 1)
         /\ rfmem \in [Register -> Words]
         /\ rfmem' = IF WriteFlag(w) = 1
                       THEN [rfmem EXCEPT ![Dst(w)] =
                               AluResult(Opcode(w), rfmem[Src1(w)], rfmem[Src2(w)])]
                       ELSE rfmem
         /\ bus'.pc = IF Opcode(w) = OpBnz /\ rfmem[Src1(w)] # 0 THEN BranchAddr(w)
                      ELSE bus.pc + 1
         /\ status # "done" /\ (status' = "done" <=> Opcode(w) = AluDone)
         /\ loaded' = loaded
<1>1. Ready(w)
  BY ClockReady
<1>2. bus'.aluop = Opcode(w)
  BY ClockSteps
<1>3. status = "running" /\ status' = HowItGoesOn(Opcode(w), time') /\ loaded' = loaded
  BY <1>2 DEF Clock
<1>4. status # "done" /\ (status' = "done" <=> Opcode(w) = AluDone)
  BY <1>3 DEF HowItGoesOn
<1>5. rfmem' = IF WriteFlag(w) = 1
                 THEN [rfmem EXCEPT ![Dst(w)] =
                         AluResult(Opcode(w), rfmem[Src1(w)], rfmem[Src2(w)])]
                 ELSE rfmem
  BY ClockSteps
<1>6. bus'.pc = IF Opcode(w) = OpBnz /\ rfmem[Src1(w)] # 0 THEN BranchAddr(w) ELSE bus.pc + 1
  BY ClockSteps
<1> QED BY <1>1, <1>3, <1>4, <1>5, <1>6 DEF Ready

\* Behind the listing the store has zeros: an addition that is not written.
LEMMA ClockDoesNothing ==
  ASSUME IInv, Clock, bus.pc \notin DOMAIN loaded.listing
  PROVE  Listed!Nothing
<1> DEFINE w == imemory[bus.pc]
<1>1. bus.pc \in 0..(InstructionStoreDepth - 1) /\ loaded \in Image
  BY ClockSeen DEF IInv
<1>2. w = 0
  BY <1>1, InstructionStore
<1>3. Opcode(0) = 0 /\ WriteFlag(0) = 0
  BY DEF Opcode, WriteFlag, Field
<1>4. /\ rfmem' = IF WriteFlag(0) = 1
                    THEN [rfmem EXCEPT ![Dst(0)] =
                            AluResult(Opcode(0), rfmem[Src1(0)], rfmem[Src2(0)])]
                    ELSE rfmem
      /\ bus'.pc = IF Opcode(0) = OpBnz /\ rfmem[Src1(0)] # 0 THEN BranchAddr(0) ELSE bus.pc + 1
      /\ status # "done" /\ (status' = "done" <=> Opcode(0) = AluDone)
  BY <1>2, ClockSeen
<1>5. rfmem' = rfmem /\ bus'.pc = bus.pc + 1 /\ status # "done" /\ status' # "done"
  BY <1>3, <1>4 DEF OpBnz, AluDone
<1> QED BY <1>5 DEF Listed!Nothing

LEMMA ClockDoes ==
  ASSUME IInv, Clock, NEW e, e = loaded.listing[bus.pc], bus.pc \in DOMAIN loaded.listing
  PROVE  CASE e.op = "done" -> Listed!End
           [] e.op = "bnz" -> Listed!Branch(e)
           [] OTHER -> Listed!Assign(e)
<1> DEFINE w == imemory[bus.pc]
<1> DEFINE x == rfmem[Src1(w)]
<1> DEFINE y == rfmem[Src2(w)]
<1> DEFINE z == AluResult(Opcode(w), x, y)
<1>1. /\ w \in Nat /\ bus.pc \in 0..(InstructionStoreDepth - 1)
      /\ rfmem \in [Register -> Words]
      /\ rfmem' = IF WriteFlag(w) = 1 THEN [rfmem EXCEPT ![Dst(w)] = z] ELSE rfmem
      /\ bus'.pc = IF Opcode(w) = OpBnz /\ x # 0 THEN BranchAddr(w) ELSE bus.pc + 1
      /\ status # "done" /\ (status' = "done" <=> Opcode(w) = AluDone)
  BY ClockSeen
<1>2. Encodes(w, e)
  BY <1>1, InstructionStore DEF IInv
<1> HIDE DEF w
<1>3. /\ Opcode(w) \in 0..15 /\ Src1(w) \in Register /\ Src2(w) \in Register
      /\ Dst(w) \in Register /\ x \in Words /\ y \in Words
  BY <1>1, FieldsOfInstruction
<1>4. /\ e.op \in Binary \cup Unary \cup {"bnz", "done"}
      /\ Opcode(w) \in Opcodes(e.op)
      /\ e.op # "done" => Src1(w) = e.a
      /\ e.op \in Binary => Src2(w) = e.b
      /\ e.op \in {"bnz", "done"} => WriteFlag(w) = 0
      /\ e.op \notin {"bnz", "done"} => WriteFlag(w) = 1 /\ Dst(w) = e.to
      /\ e.op = "bnz" => BranchAddr(w) = e.to
  BY <1>2 DEF Encodes
<1>5. ASSUME e.op = "done" PROVE Listed!End
  <2>1. Opcode(w) = AluDone /\ WriteFlag(w) = 0
    BY <1>4, <1>5 DEF Opcodes
  <2>2. rfmem' = rfmem /\ bus'.pc = bus.pc + 1 /\ status' = "done"
    BY <2>1, <1>1 DEF OpBnz, AluDone
  <2> QED BY <2>2 DEF Listed!End
<1>6. ASSUME e.op = "bnz" PROVE Listed!Branch(e)
  <2>1. Opcode(w) = OpBnz /\ WriteFlag(w) = 0 /\ x = rfmem[e.a] /\ BranchAddr(w) = e.to
    BY <1>4, <1>6 DEF Opcodes
  <2> HIDE DEF x, y, z
  <2>2. /\ rfmem' = rfmem /\ status # "done" /\ status' # "done"
        /\ bus'.pc = IF rfmem[e.a] # 0 THEN e.to ELSE bus.pc + 1
    BY <2>1, <1>1 DEF OpBnz, AluDone
  <2> QED BY <2>2 DEF Listed!Branch
<1>7. ASSUME e.op # "done", e.op # "bnz" PROVE Listed!Assign(e)
  <2>1. /\ e.op \in Binary \cup Unary /\ WriteFlag(w) = 1 /\ Dst(w) = e.to
        /\ x = rfmem[e.a] /\ (e.op \in Binary => y = rfmem[e.b])
    BY <1>4, <1>7
  <2>2. Opcode(w) # AluDone /\ Opcode(w) # OpBnz
    BY <1>4, <2>1 DEF Opcodes, Binary, Unary, AluAdd, AluInv, AluSub, AluXor, AluOr, AluIncr,
                      AluAnd, AluSra, AluSrl, AluSla, AluSll, OpBnz, AluDone
  <2> HIDE DEF x, y
  <2>3. z \in Words /\ Words = 0..(Listed!Power(Width) - 1)
    BY <1>3, AluGivesWords, SameBits DEF Words, Modulus
  <2>4. Listed!Result(e.op, x, rfmem[e.b], z)
    <3>1. CASE e.op \in Binary
      <4>1. Listed!Result(e.op, x, y, z)
        BY <3>1, <1>3, <1>4, AluComputesOfTwo
      <4> QED BY <4>1, <3>1, <2>1
    <3>2. CASE e.op \in Unary
      BY <3>2, <1>3, <1>4, AluComputesOfOne
    <3> QED BY <3>1, <3>2, <2>1
  <2> HIDE DEF z
  <2>5. rfmem' = [rfmem EXCEPT ![e.to] = z] /\ e.to \in Register
    BY <2>1, <1>1, <1>3
  <2>6. rfmem'[e.to] = z
    BY <2>5, <1>1
  <2>7. /\ rfmem'[e.to] \in 0..(Listed!Power(Width) - 1)
        /\ Listed!Result(e.op, rfmem[e.a], rfmem[e.b], rfmem'[e.to])
        /\ rfmem' = [rfmem EXCEPT ![e.to] = rfmem'[e.to]]
    BY <2>1, <2>3, <2>4, <2>5, <2>6
  <2>8. bus'.pc = bus.pc + 1 /\ status # "done" /\ status' # "done"
    BY <2>2, <1>1
  <2> QED BY <2>7, <2>8 DEF Listed!Assign
<1> QED BY <1>5, <1>6, <1>7

LEMMA ClockExecutes ==
  ASSUME IInv, Clock
  PROVE  Listed!Execute
<1>1. status # "done" /\ loaded' = loaded
  BY ClockSeen
<1>2. CASE bus.pc \notin DOMAIN loaded.listing
  BY <1>1, <1>2, ClockDoesNothing DEF Listed!Execute
<1>3. CASE bus.pc \in DOMAIN loaded.listing
  BY <1>1, <1>3, ClockDoes DEF Listed!Execute
<1> QED BY <1>2, <1>3

\* Every run of the units, the buses and the clock is a run of the listing, for every width of
\* the registers and every program that is encoded as instruction.h says.
THEOREM ProcessorImplementsAssembly == Spec => ImplementsAssembly
<1>1. Init => Listed!Init
  BY DEF Init, Listed!Init, Bus
<1>2. IInv /\ [Next]_vars => [Listed!Execute]_(Listed!vars)
  <2> SUFFICES ASSUME IInv, [Next]_vars PROVE [Listed!Execute]_(Listed!vars)
    OBVIOUS
  <2>1. CASE Clock
    BY <2>1, ClockExecutes
  <2>2. CASE Stray
    BY <2>2 DEF Stray, Listed!vars
  <2>3. CASE UNCHANGED vars
    BY <2>3 DEF vars, Listed!vars
  <2> QED BY <2>1, <2>2, <2>3 DEF Next
<1> QED BY <1>1, <1>2, InitHolds, StepHolds, PTL DEF Spec, ImplementsAssembly, Listed!Spec

----------------------------------------------------------------------------
(***************************************************************************)
(* What the two programs compute                                           *)
(***************************************************************************)

LEMMA Quotients ==
  ASSUME NEW M \in Nat \ {0}, NEW x \in Int
  PROVE  x \div M \in Int /\ x % M \in 0..(M - 1) /\ x = M * (x \div M) + (x % M)
OBVIOUS

LEMMA QuotientsUnique ==
  ASSUME NEW M \in Nat \ {0}, NEW s \in Int, NEW t \in Int,
         NEW x \in 0..(M - 1), NEW y \in 0..(M - 1), M * s + x = M * t + y
  PROVE  s = t /\ x = y
<1>1. M * (s - t) = y - x /\ M * (t - s) = x - y
  OBVIOUS
<1>2. ASSUME s - t >= 1 PROVE FALSE
  <2>1. M * (s - t) >= M
    BY <1>2
  <2> QED BY <1>1, <2>1
<1>3. ASSUME t - s >= 1 PROVE FALSE
  <2>1. M * (t - s) >= M
    BY <1>3
  <2> QED BY <1>1, <2>1
<1>4. s = t
  BY <1>2, <1>3
<1> QED BY <1>1, <1>4

LEMMA DivisionUnique ==
  ASSUME NEW M \in Nat \ {0}, NEW q \in Int, NEW r \in 0..(M - 1), NEW n \in Int, n = M * q + r
  PROVE  n \div M = q /\ n % M = r
BY Quotients, QuotientsUnique

\* x and y are the same word.
Congruent(x, y) == \E t \in Int : x - y = Modulus * t

LEMMA CongruentProperties ==
  /\ \A x \in Int : Congruent(x, x) /\ Congruent(x % Modulus, x) /\ x % Modulus \in Int
  /\ \A x, y, z \in Int : Congruent(x, y) /\ Congruent(y, z) => Congruent(x, z)
  /\ \A x, y, c \in Int : Congruent(x, y) => Congruent(x + c, y + c)
  /\ \A x, y, d \in Int : Congruent(x, y) => Congruent(d - x, d - y)
  /\ \A x, y, d \in Int : Congruent(x, y) => Congruent(x * d, y * d)
  /\ \A x, y \in Int : Congruent(x, y) => (x - y) % Modulus = 0
<1> DEFINE M == Modulus
<1>1. M \in Nat \ {0}
  BY WordProperties
<1> DEFINE Con(x, y) == \E t \in Int : x - y = M * t
<1>2. \A x, y : Congruent(x, y) <=> Con(x, y)
  BY DEF Congruent
<1> HIDE DEF M
<1>3. ASSUME NEW x \in Int PROVE Con(x, x) /\ Con(x % M, x) /\ x % M \in Int
  <2>1. x - x = M * 0
    BY <1>1
  <2>2. x \div M \in Int /\ x % M \in Int /\ x = M * (x \div M) + (x % M)
    BY <1>1, Quotients
  <2> DEFINE q == x \div M
  <2> DEFINE r == x % M
  <2> HIDE DEF q, r
  <2>3. -q \in Int /\ r - x = M * (-q)
    BY <1>1, <2>2 DEF q, r
  <2> QED BY <2>1, <2>2, <2>3 DEF r
<1>4. ASSUME NEW x \in Int, NEW y \in Int, NEW z \in Int, Con(x, y), Con(y, z) PROVE Con(x, z)
  <2>1. PICK s \in Int : x - y = M * s
    BY <1>4
  <2>2. PICK t \in Int : y - z = M * t
    BY <1>4
  <2>3. x - z = M * (s + t) /\ s + t \in Int
    BY <1>1, <2>1, <2>2
  <2> QED BY <2>3
<1>5. ASSUME NEW x \in Int, NEW y \in Int, NEW c \in Int, Con(x, y) PROVE Con(x + c, y + c)
  <2>1. (x + c) - (y + c) = x - y
    OBVIOUS
  <2> QED BY <1>5, <2>1
<1>6. ASSUME NEW x \in Int, NEW y \in Int, NEW d \in Int, Con(x, y) PROVE Con(d - x, d - y)
  <2>1. PICK t \in Int : x - y = M * t
    BY <1>6
  <2>2. (d - x) - (d - y) = M * (-t) /\ -t \in Int
    BY <1>1, <2>1
  <2> QED BY <2>2
<1>7. ASSUME NEW x \in Int, NEW y \in Int, NEW d \in Int, Con(x, y) PROVE Con(x * d, y * d)
  <2>1. PICK t \in Int : x - y = M * t
    BY <1>7
  <2>2. x * d - y * d = (x - y) * d
    OBVIOUS
  <2>3. (M * t) * d = M * (t * d) /\ t * d \in Int
    BY <1>1
  <2> QED BY <2>1, <2>2, <2>3
<1>8. ASSUME NEW x \in Int, NEW y \in Int, Con(x, y) PROVE (x - y) % M = 0
  <2>1. PICK t \in Int : x - y = M * t
    BY <1>8
  <2>2. x - y \in Int /\ 0 \in 0..(M - 1) /\ x - y = M * t + 0
    BY <1>1, <2>1
  <2> QED BY <1>1, <2>1, <2>2, DivisionUnique
<1> HIDE DEF Con
<1> QED BY <1>2, <1>3, <1>4, <1>5, <1>6, <1>7, <1>8 DEF M

\* A word is known by its bits.
LEMMA SameWord ==
  ASSUME NEW n \in Nat, NEW x \in 0..(Power(n) - 1), NEW y \in 0..(Power(n) - 1),
         \A i \in 0..(n - 1) : Bit(x, i) = Bit(y, i)
  PROVE  x = y
<1>1. Power(n) \in Nat \ {0}
  BY PowerProperties
<1>2. x \in Nat /\ x < Power(n) /\ y \in Nat /\ y < Power(n)
  BY <1>1
<1> DEFINE f == [j \in 0..n |-> Shifted(x, n - j)]
<1> DEFINE g == [j \in 0..n |-> Shifted(y, n - j)]
<1>3. 0 \in 0..n /\ n \in 0..n /\ n - 0 = n /\ n - n = 0
  OBVIOUS
<1>4. /\ f[0] = Shifted(x, n) /\ g[0] = Shifted(y, n)
      /\ f[n] = Shifted(x, 0) /\ g[n] = Shifted(y, 0)
  BY <1>3
<1>5. ASSUME NEW j \in 1..n, f[j - 1] = g[j - 1] PROVE f[j] = g[j]
  <2> DEFINE i == n - j
  <2>1. /\ j \in 0..n /\ j - 1 \in 0..n /\ n - (j - 1) = i + 1 /\ i \in Nat /\ i \in 0..(n - 1)
    OBVIOUS
  <2>2. /\ f[j] = Shifted(x, i) /\ f[j - 1] = Shifted(x, i + 1)
        /\ g[j] = Shifted(y, i) /\ g[j - 1] = Shifted(y, i + 1)
    BY <2>1
  <2> HIDE DEF f, g, i
  <2>3. /\ Shifted(x, i + 1) = Shifted(x, i) \div 2 /\ Shifted(x, i) \in Nat
        /\ Shifted(y, i + 1) = Shifted(y, i) \div 2 /\ Shifted(y, i) \in Nat
    BY <1>2, <2>1, ShiftedProperties
  <2>4. Shifted(x, i) % 2 = Shifted(y, i) % 2
    BY <2>1 DEF Bit
  <2> QED BY ONLY <2>2, <2>3, <2>4, <1>5
<1> HIDE DEF f, g
<1>6. f[0] = g[0]
  BY <1>2, <1>4, ShiftedOut
<1>7. f[n] = g[n]
  BY <1>5, <1>6, StepsAgree
<1> QED BY <1>2, <1>4, <1>7, ShiftedProperties, 0 \in Nat

LEMMA SameWords ==
  ASSUME NEW x \in Words, NEW y \in Words, \A i \in 0..(Width - 1) : Bit(x, i) = Bit(y, i)
  PROVE  x = y
<1>1. Width \in Nat
  BY WordProperties
<1>2. x \in 0..(Power(Width) - 1) /\ y \in 0..(Power(Width) - 1)
  BY DEF Words, Modulus
<1> QED BY <1>1, <1>2, SameWord

\* R7 <- R0 & R0 is a copy.
LEMMA CopiedByAnd ==
  ASSUME NEW a \in Words
  PROVE  FromOnes(Width, Ones(Width, a) \cap Ones(Width, a)) = a
<1> DEFINE y == FromOnes(Width, Ones(Width, a) \cap Ones(Width, a))
<1>1. /\ y \in Words
      /\ \A i \in 0..(Width - 1) : Bit(y, i) = IF i \in Ones(Width, a) THEN 1 ELSE 0
  BY OnesProperties
<1>2. \A i \in 0..(Width - 1) : Bit(a, i) \in {0, 1} /\ (i \in Ones(Width, a) <=> Bit(a, i) = 1)
  BY BitsOfWord
<1> HIDE DEF y
<1>3. \A i \in 0..(Width - 1) : Bit(y, i) = Bit(a, i)
  BY <1>1, <1>2
<1>4. y = a
  BY <1>1, <1>3, SameWords
<1> QED BY <1>4 DEF y

\* The test of the divider: the complement of a remainder, and with it the sign bit, is zero
\* when the remainder has the sign bit.
LEMMA SignTest ==
  ASSUME NEW a \in Words, NEW b, b = FromOnes(Width, (0..(Width - 1)) \ Ones(Width, a)),
         NEW c, c = FromOnes(Width, Ones(Width, b) \cap Ones(Width, SignBit))
  PROVE  b \in Words /\ c \in Words /\ (c # 0 <=> a < SignBit)
<1> DEFINE places == 0..(Width - 1)
<1> DEFINE k == Width - 1
<1>1. /\ Width \in Nat /\ k \in Nat /\ k \in places /\ SignBit \in Words /\ 0 \in Words
      /\ SignBit = 0 + Power(k) /\ SignBit \in Nat
  BY WordProperties DEF SignBit, Words
<1>2. b \in Words /\ \A i \in places : Bit(b, i) = IF i \in places \ Ones(Width, a) THEN 1 ELSE 0
  BY OnesProperties
<1>3. c \in Words /\ \A i \in places :
         Bit(c, i) = IF i \in Ones(Width, b) \cap Ones(Width, SignBit) THEN 1 ELSE 0
  BY OnesProperties
<1>4. \A i \in places : /\ i \in Ones(Width, a) <=> Bit(a, i) = 1
                        /\ i \in Ones(Width, b) <=> Bit(b, i) = 1
                        /\ i \in Ones(Width, SignBit) <=> Bit(SignBit, i) = 1
  BY <1>1, <1>2, BitsOfWord
<1>5. ASSUME NEW i \in places PROVE Bit(0, i) = 0
  <2>1. i \in Nat /\ 0 \in Nat /\ 0 < Power(i)
    BY <1>1, PowerProperties
  <2>2. Shifted(0, i) = 0
    BY <2>1, ShiftedOut
  <2> QED BY <2>2 DEF Bit
<1>6. ASSUME NEW i \in places, i # k PROVE Bit(SignBit, i) = 0
  <2>1. i \in 0..k /\ i < k /\ 0 \in Nat
    BY <1>1, <1>6
  <2>2. Bit(0 + Power(k), i) = Bit(0, i)
    BY <2>1, <1>1, BitsOfSum
  <2> QED BY <2>2, <1>1, <1>5
<1>7. Bit(SignBit, k) = 1
  BY <1>1, HighestBit
<1>8. Bit(a, k) = IF a >= SignBit THEN 1 ELSE 0
  BY HighestBit
<1> HIDE DEF places, k
<1>9. \A i \in places : i # k => Bit(c, i) = 0
  BY <1>3, <1>4, <1>6
<1>10. Bit(c, k) = IF a >= SignBit THEN 0 ELSE 1
  BY <1>1, <1>2, <1>3, <1>4, <1>7, <1>8
<1>11. a \in Nat
  BY WordProperties DEF Words
<1>12. CASE a < SignBit
  <2>1. Bit(c, k) = 1
    BY <1>10, <1>11, <1>12, <1>1
  <2> QED BY <2>1, <1>1, <1>2, <1>3, <1>5, <1>12
<1>13. CASE ~(a < SignBit)
  <2>1. \A i \in places : Bit(c, i) = Bit(0, i)
    BY <1>1, <1>5, <1>9, <1>10, <1>11, <1>13
  <2>2. c = 0
    BY <2>1, <1>1, <1>3, SameWords DEF places
  <2> QED BY <2>2, <1>2, <1>3, <1>13
<1> QED BY <1>12, <1>13

\* The next instruction sets register r to v.
Sets(r, v) ==
  /\ rfmem'[r] = v /\ (\A k \in Register \ {r} : rfmem'[k] = rfmem[k])
  /\ rfmem' \in [Register -> Words]
  /\ bus'.pc = bus.pc + 1 /\ status' # "done"

\* It sets none.
Goes(pc) ==
  rfmem' = rfmem /\ bus'.pc = pc

\* What an instruction of each kind that the two programs use does.
LEMMA ClockComputes ==
  ASSUME IInv, Clock, bus.pc \in DOMAIN loaded.listing, NEW e, e = loaded.listing[bus.pc]
  PROVE  LET a == rfmem[e.a] b == rfmem[e.b]
         IN  /\ e.op = "+" => Sets(e.to, Sum(a, b))
             /\ e.op = "-" => Sets(e.to, (a - b) % Modulus)
             /\ e.op = "++" => Sets(e.to, Sum(a, 1))
             /\ e.op = "&" => Sets(e.to, FromOnes(Width, Ones(Width, a) \cap Ones(Width, b)))
             /\ e.op = "~" => Sets(e.to, FromOnes(Width, (0..(Width - 1)) \ Ones(Width, a)))
             /\ e.op = "bnz" => Goes(IF a # 0 THEN e.to ELSE bus.pc + 1) /\ status' # "done"
             /\ e.op = "done" => Goes(bus.pc + 1) /\ status' = "done"
<1> DEFINE w == imemory[bus.pc]
<1> DEFINE x == rfmem[Src1(w)]
<1> DEFINE y == rfmem[Src2(w)]
<1> DEFINE z == AluResult(Opcode(w), x, y)
<1> DEFINE a == rfmem[e.a]
<1> DEFINE b == rfmem[e.b]
<1>1. /\ w \in Nat /\ bus.pc \in 0..(InstructionStoreDepth - 1)
      /\ rfmem \in [Register -> Words]
      /\ rfmem' = IF WriteFlag(w) = 1 THEN [rfmem EXCEPT ![Dst(w)] = z] ELSE rfmem
      /\ bus'.pc = IF Opcode(w) = OpBnz /\ x # 0 THEN BranchAddr(w) ELSE bus.pc + 1
      /\ (status' = "done" <=> Opcode(w) = AluDone)
  BY ClockSeen
<1>2. Encodes(w, e)
  BY <1>1, InstructionStore DEF IInv
<1> HIDE DEF w
<1>3. /\ Opcode(w) \in 0..15 /\ Src1(w) \in Register /\ Src2(w) \in Register
      /\ Dst(w) \in Register /\ x \in Words /\ y \in Words
  BY <1>1, FieldsOfInstruction
<1>4. z \in Words
  BY <1>3, AluGivesWords
<1>5. /\ Opcode(w) \in Opcodes(e.op)
      /\ e.op # "done" => x = a
      /\ e.op \in Binary => y = b
      /\ e.op \in {"bnz", "done"} => WriteFlag(w) = 0
      /\ e.op \notin {"bnz", "done"} => WriteFlag(w) = 1 /\ Dst(w) = e.to
      /\ e.op = "bnz" => BranchAddr(w) = e.to
  BY <1>2 DEF Encodes
<1> HIDE DEF x, y, a, b
<1>6. ASSUME e.op \in {"+", "-", "++", "&", "~"} PROVE Sets(e.to, z)
  <2>1. WriteFlag(w) = 1 /\ Dst(w) = e.to
    BY <1>5, <1>6
  <2>2. Opcode(w) # OpBnz /\ Opcode(w) # AluDone
    BY <1>5, <1>6 DEF Opcodes, AluAdd, AluInv, AluSub, AluIncr, AluAnd, OpBnz, AluDone
  <2> HIDE DEF z
  <2>3. rfmem' = [rfmem EXCEPT ![e.to] = z] /\ e.to \in Register
    BY <2>1, <1>1, <1>3
  <2>4. rfmem' \in [Register -> Words] /\ rfmem'[e.to] = z
    BY <2>3, <1>1, <1>4
  <2>5. \A k \in Register \ {e.to} : rfmem'[k] = rfmem[k]
    BY <2>3, <1>1
  <2> QED BY <2>2, <2>4, <2>5, <1>1 DEF Sets
<1>7. e.op = "+" => z = Sum(a, b)
  BY <1>5 DEF Opcodes, Binary, AluResult, AluAdd, AluInv, AluSub, AluXor, AluOr, AluIncr, AluAnd,
              AluSra, AluSrl, AluSla, AluSll
<1>8. e.op = "-" => z = (a - b) % Modulus
  BY <1>5 DEF Opcodes, Binary, AluResult, AluAdd, AluInv, AluSub, AluXor, AluOr, AluIncr, AluAnd,
              AluSra, AluSrl, AluSla, AluSll
<1>9. e.op = "++" => z = Sum(a, 1)
  BY <1>5 DEF Opcodes, AluResult, AluAdd, AluInv, AluSub, AluXor, AluOr, AluIncr, AluAnd,
              AluSra, AluSrl, AluSla, AluSll
<1>10. e.op = "&" => z = FromOnes(Width, Ones(Width, a) \cap Ones(Width, b))
  BY <1>5 DEF Opcodes, Binary, AluResult, AluAdd, AluInv, AluSub, AluXor, AluOr, AluIncr, AluAnd,
              AluSra, AluSrl, AluSla, AluSll
<1>11. e.op = "~" => z = FromOnes(Width, (0..(Width - 1)) \ Ones(Width, a))
  BY <1>5 DEF Opcodes, AluResult, AluAdd, AluInv, AluSub, AluXor, AluOr, AluIncr, AluAnd,
              AluSra, AluSrl, AluSla, AluSll
<1> HIDE DEF z
<1>12. e.op = "bnz" => Goes(IF a # 0 THEN e.to ELSE bus.pc + 1) /\ status' # "done"
  <2>1. e.op = "bnz" => /\ Opcode(w) = OpBnz /\ WriteFlag(w) = 0 /\ x = a
                        /\ BranchAddr(w) = e.to
    BY <1>5 DEF Opcodes
  <2> QED BY <2>1, <1>1 DEF Goes, OpBnz, AluDone
<1>13. e.op = "done" => Goes(bus.pc + 1) /\ status' = "done"
  <2>1. e.op = "done" => Opcode(w) = AluDone /\ WriteFlag(w) = 0
    BY <1>5 DEF Opcodes
  <2> QED BY <2>1, <1>1 DEF Goes, OpBnz, AluDone
<1> QED BY <1>6, <1>7, <1>8, <1>9, <1>10, <1>11, <1>12, <1>13 DEF a, b


\* What an instruction of a listing does.
Computes(op, a, b, to) ==
  /\ op = "+" => Sets(to, Sum(rfmem[a], rfmem[b]))
  /\ op = "-" => Sets(to, (rfmem[a] - rfmem[b]) % Modulus)
  /\ op = "++" => Sets(to, Sum(rfmem[a], 1))
  /\ op = "&" => Sets(to, FromOnes(Width, Ones(Width, rfmem[a]) \cap Ones(Width, rfmem[b])))
  /\ op = "~" => Sets(to, FromOnes(Width, (0..(Width - 1)) \ Ones(Width, rfmem[a])))
  /\ op = "bnz" => Goes(IF rfmem[a] # 0 THEN to ELSE bus.pc + 1) /\ status' # "done"
  /\ op = "done" => Goes(bus.pc + 1) /\ status' = "done"

LEMMA LineComputes ==
  ASSUME IInv, Clock, bus.pc \in DOMAIN loaded.listing,
         NEW op, NEW a, NEW b, NEW to, loaded.listing[bus.pc] = Op(op, a, b, to)
  PROVE  Computes(op, a, b, to)
<1> DEFINE e == Op(op, a, b, to)
<1>1. e.op = op /\ e.a = a /\ e.b = b /\ e.to = to
  BY DEF Op
<1>2. e = loaded.listing[bus.pc]
  OBVIOUS
<1> HIDE DEF e
<1> QED BY <1>1, <1>2, ClockComputes DEF Computes

----------------------------------------------------------------------------
(***************************************************************************)
(* The divider                                                             *)
(***************************************************************************)

LEMMA DividerHas ==
  /\ DOMAIN DividerListing = 0..9
  /\ DividerListing[0] = Op("-", 6, 6, 6) /\ DividerListing[1] = Op("&", 0, 0, 7)
  /\ DividerListing[2] = Op("-", 7, 1, 7) /\ DividerListing[3] = Op("~", 7, 7, 5)
  /\ DividerListing[4] = Op("&", 5, 2, 3) /\ DividerListing[5] = Op("++", 6, 6, 6)
  /\ DividerListing[6] = Op("bnz", 3, 3, 2) /\ DividerListing[7] = Op("-", 6, 4, 6)
  /\ DividerListing[8] = Op("+", 7, 1, 7) /\ DividerListing[9] = Op("done", 0, 0, 0)
<1> DEFINE s == <<Op("-", 6, 6, 6), Op("&", 0, 0, 7), Op("-", 7, 1, 7),
                  Op("~", 7, 7, 5), Op("&", 5, 2, 3), Op("++", 6, 6, 6),
                  Op("bnz", 3, 3, 2), Op("-", 6, 4, 6), Op("+", 7, 1, 7),
                  Op("done", 0, 0, 0)>>
<1>1. /\ s[1] = Op("-", 6, 6, 6) /\ s[2] = Op("&", 0, 0, 7) /\ s[3] = Op("-", 7, 1, 7)
      /\ s[4] = Op("~", 7, 7, 5) /\ s[5] = Op("&", 5, 2, 3) /\ s[6] = Op("++", 6, 6, 6)
      /\ s[7] = Op("bnz", 3, 3, 2) /\ s[8] = Op("-", 6, 4, 6) /\ s[9] = Op("+", 7, 1, 7)
      /\ s[10] = Op("done", 0, 0, 0)
  OBVIOUS
<1>2. Len(s) = 10
  OBVIOUS
<1>3. DividerListing = [i \in 0..(Len(s) - 1) |-> s[i + 1]]
  BY DEF DividerListing, At0
<1> HIDE DEF s
<1>4. DividerListing = [i \in 0..9 |-> s[i + 1]]
  BY <1>2, <1>3
<1>5. DOMAIN DividerListing = 0..9 /\ \A i \in 0..9 : DividerListing[i] = s[i + 1]
  BY <1>4
<1> QED BY <1>1, <1>5

\* The instructions of the divider, one for each place.
LEMMA DividerSteps ==
  ASSUME IInv, Clock, loaded.name = "divider"
  PROVE  LET R == rfmem pc == bus.pc
         IN  /\ pc = 0 => Sets(6, (R[6] - R[6]) % Modulus)
             /\ pc = 1 => Sets(7, FromOnes(Width, Ones(Width, R[0]) \cap Ones(Width, R[0])))
             /\ pc = 2 => Sets(7, (R[7] - R[1]) % Modulus)
             /\ pc = 3 => Sets(5, FromOnes(Width, (0..(Width - 1)) \ Ones(Width, R[7])))
             /\ pc = 4 => Sets(3, FromOnes(Width, Ones(Width, R[5]) \cap Ones(Width, R[2])))
             /\ pc = 5 => Sets(6, Sum(R[6], 1))
             /\ pc = 6 => Goes(IF R[3] # 0 THEN 2 ELSE 7) /\ status' # "done"
             /\ pc = 7 => Sets(6, (R[6] - R[4]) % Modulus)
             /\ pc = 8 => Sets(7, Sum(R[7], R[1]))
             /\ pc = 9 => Goes(10) /\ status' = "done"
<1>1. loaded.listing = DividerListing
  BY ProgramAssumption DEF IInv
<1>2. ASSUME bus.pc = 0 PROVE Sets(6, (rfmem[6] - rfmem[6]) % Modulus)
  <2>1. bus.pc \in DOMAIN loaded.listing /\ loaded.listing[bus.pc] = Op("-", 6, 6, 6)
    BY <1>1, <1>2, DividerHas
  <2>2. Computes("-", 6, 6, 6)
    BY <2>1, LineComputes
  <2> QED BY <2>2, <1>2 DEF Computes
<1>3. ASSUME bus.pc = 1
      PROVE  Sets(7, FromOnes(Width, Ones(Width, rfmem[0]) \cap Ones(Width, rfmem[0])))
  <2>1. bus.pc \in DOMAIN loaded.listing /\ loaded.listing[bus.pc] = Op("&", 0, 0, 7)
    BY <1>1, <1>3, DividerHas
  <2>2. Computes("&", 0, 0, 7)
    BY <2>1, LineComputes
  <2> QED BY <2>2, <1>3 DEF Computes
<1>4. ASSUME bus.pc = 2 PROVE Sets(7, (rfmem[7] - rfmem[1]) % Modulus)
  <2>1. bus.pc \in DOMAIN loaded.listing /\ loaded.listing[bus.pc] = Op("-", 7, 1, 7)
    BY <1>1, <1>4, DividerHas
  <2>2. Computes("-", 7, 1, 7)
    BY <2>1, LineComputes
  <2> QED BY <2>2, <1>4 DEF Computes
<1>5. ASSUME bus.pc = 3
      PROVE  Sets(5, FromOnes(Width, (0..(Width - 1)) \ Ones(Width, rfmem[7])))
  <2>1. bus.pc \in DOMAIN loaded.listing /\ loaded.listing[bus.pc] = Op("~", 7, 7, 5)
    BY <1>1, <1>5, DividerHas
  <2>2. Computes("~", 7, 7, 5)
    BY <2>1, LineComputes
  <2> QED BY <2>2, <1>5 DEF Computes
<1>6. ASSUME bus.pc = 4
      PROVE  Sets(3, FromOnes(Width, Ones(Width, rfmem[5]) \cap Ones(Width, rfmem[2])))
  <2>1. bus.pc \in DOMAIN loaded.listing /\ loaded.listing[bus.pc] = Op("&", 5, 2, 3)
    BY <1>1, <1>6, DividerHas
  <2>2. Computes("&", 5, 2, 3)
    BY <2>1, LineComputes
  <2> QED BY <2>2, <1>6 DEF Computes
<1>7. ASSUME bus.pc = 5 PROVE Sets(6, Sum(rfmem[6], 1))
  <2>1. bus.pc \in DOMAIN loaded.listing /\ loaded.listing[bus.pc] = Op("++", 6, 6, 6)
    BY <1>1, <1>7, DividerHas
  <2>2. Computes("++", 6, 6, 6)
    BY <2>1, LineComputes
  <2> QED BY <2>2, <1>7 DEF Computes
<1>8. ASSUME bus.pc = 6 PROVE Goes(IF rfmem[3] # 0 THEN 2 ELSE 7) /\ status' # "done"
  <2>1. bus.pc \in DOMAIN loaded.listing /\ loaded.listing[bus.pc] = Op("bnz", 3, 3, 2)
    BY <1>1, <1>8, DividerHas
  <2>2. Computes("bnz", 3, 3, 2)
    BY <2>1, LineComputes
  <2> QED BY <2>2, <1>8 DEF Computes
<1>9. ASSUME bus.pc = 7 PROVE Sets(6, (rfmem[6] - rfmem[4]) % Modulus)
  <2>1. bus.pc \in DOMAIN loaded.listing /\ loaded.listing[bus.pc] = Op("-", 6, 4, 6)
    BY <1>1, <1>9, DividerHas
  <2>2. Computes("-", 6, 4, 6)
    BY <2>1, LineComputes
  <2> QED BY <2>2, <1>9 DEF Computes
<1>10. ASSUME bus.pc = 8 PROVE Sets(7, Sum(rfmem[7], rfmem[1]))
  <2>1. bus.pc \in DOMAIN loaded.listing /\ loaded.listing[bus.pc] = Op("+", 7, 1, 7)
    BY <1>1, <1>10, DividerHas
  <2>2. Computes("+", 7, 1, 7)
    BY <2>1, LineComputes
  <2> QED BY <2>2, <1>10 DEF Computes
<1>11. ASSUME bus.pc = 9 PROVE Goes(10) /\ status' = "done"
  <2>1. bus.pc \in DOMAIN loaded.listing /\ loaded.listing[bus.pc] = Op("done", 0, 0, 0)
    BY <1>1, <1>11, DividerHas
  <2>2. Computes("done", 0, 0, 0)
    BY <2>1, LineComputes
  <2> QED BY <2>2, <1>11 DEF Computes
<1> QED BY <1>2, <1>3, <1>4, <1>5, <1>6, <1>7, <1>8, <1>9, <1>10, <1>11

LEMMA CongruentChains ==
  ASSUME NEW x \in Int, NEW y \in Int, NEW z \in Int, Congruent(x, y), Congruent(y, z)
  PROVE  Congruent(x, z)
BY CongruentProperties

LEMMA CongruentTurns ==
  ASSUME NEW x \in Int, NEW y \in Int, Congruent(x, y)
  PROVE  Congruent(y, x)
<1> DEFINE d == x + y
<1>1. d \in Int /\ d - x = y /\ d - y = x
  OBVIOUS
<1> HIDE DEF d
<1>2. Congruent(d - x, d - y)
  BY <1>1, CongruentProperties
<1> QED BY <1>1, <1>2

LEMMA CongruentToWord ==
  ASSUME NEW x \in Int
  PROVE  x % Modulus \in Int /\ Congruent(x % Modulus, x)
BY CongruentProperties

LEMMA CongruentMoved ==
  ASSUME NEW x \in Int, NEW y \in Int, NEW c \in Int, Congruent(x, y)
  PROVE  Congruent(x + c, y + c)
BY CongruentProperties

\* What is left of n when d was taken away q times.
Rest(n, d, q) == n - q * d

LEMMA RestProperties ==
  ASSUME NEW n \in Int, NEW d \in Int, NEW q \in Int
  PROVE  /\ Rest(n, d, q) \in Int /\ Rest(n, d, q + 1) \in Int
         /\ Rest(n, d, q + 1) = Rest(n, d, q) - d /\ Rest(n, d, 0) = n
<1>1. (q + 1) * d = q * d + d /\ q * d \in Int /\ 0 * d = 0
  OBVIOUS
<1> QED BY <1>1 DEF Rest

LEMMA RestBounds ==
  ASSUME NEW n \in Int, NEW d \in Nat \ {0}, NEW q \in Nat
  PROVE  Rest(n, d, q) <= n /\ (Rest(n, d, q) >= 0 => q <= n)
<1>1. q * d \in Int /\ q * d >= q
  OBVIOUS
<1> QED BY <1>1 DEF Rest

LEMMA RestCongruent ==
  ASSUME NEW n \in Int, NEW d \in Int, NEW p \in Int, NEW q \in Int, Congruent(p, q)
  PROVE  Congruent(Rest(n, d, q), Rest(n, d, p))
<1> DEFINE x == p * d
<1> DEFINE y == q * d
<1>1. x \in Int /\ y \in Int
  OBVIOUS
<1>2. Congruent(x, y)
  BY CongruentProperties
<1> HIDE DEF x, y
<1>3. Congruent(y, x)
  BY <1>1, <1>2, CongruentTurns
<1>4. Congruent(n - y, n - x)
  BY <1>1, <1>3, CongruentProperties
<1> QED BY <1>4 DEF Rest, x, y

\* The divisor is taken once more from the remainder, or given back.
LEMMA TakenOnceMore ==
  ASSUME NEW n \in Int, NEW d \in Int, NEW q \in Int, NEW r \in Int,
         Congruent(r, Rest(n, d, q))
  PROVE  Congruent((r - d) % Modulus, Rest(n, d, q + 1))
<1> DEFINE c == -d
<1> DEFINE x == Rest(n, d, q)
<1> DEFINE y == (r - d) % Modulus
<1> DEFINE z == Rest(n, d, q + 1)
<1>1. /\ c \in Int /\ r - d = r + c /\ r + c \in Int
      /\ x \in Int /\ z = x + c /\ x + c \in Int
  <2>1. x \in Int /\ z = x - d
    BY RestProperties
  <2> HIDE DEF x, z
  <2> QED BY <2>1
<1>2. y \in Int /\ Congruent(y, r - d)
  <2>1. r - d \in Int
    OBVIOUS
  <2> QED BY <2>1, CongruentToWord
<1> HIDE DEF c, x, y, z
<1>3. Congruent(r + c, x + c)
  BY <1>1, CongruentMoved DEF x
<1>4. Congruent(y, x + c)
  BY <1>1, <1>2, <1>3, CongruentChains
<1> QED BY <1>1, <1>4 DEF y, z

LEMMA GivenBack ==
  ASSUME NEW n \in Int, NEW d \in Int, NEW q \in Int, NEW r \in Int,
         Congruent(r, Rest(n, d, q + 1))
  PROVE  Congruent((r + d) % Modulus, Rest(n, d, q))
<1> DEFINE x == Rest(n, d, q + 1)
<1> DEFINE y == (r + d) % Modulus
<1> DEFINE z == Rest(n, d, q)
<1>1. x \in Int /\ x + d = z /\ r + d \in Int /\ x + d \in Int
  <2>1. z \in Int /\ x \in Int /\ x = z - d
    BY RestProperties
  <2> HIDE DEF x, z
  <2> QED BY <2>1
<1>2. y \in Int /\ Congruent(y, r + d)
  BY <1>1, CongruentToWord
<1> HIDE DEF y, x, z
<1>3. Congruent(r + d, x + d)
  BY <1>1, CongruentMoved DEF x
<1>4. Congruent(y, x + d)
  BY <1>1, <1>2, <1>3, CongruentChains
<1> QED BY <1>1, <1>4 DEF y, z

\* The quotient is counted up, or down.
LEMMA CountedUp ==
  ASSUME NEW n \in Int, NEW d \in Int, NEW q \in Int, NEW r \in Int,
         Congruent(r, Rest(n, d, q + 1))
  PROVE  Congruent(r, Rest(n, d, (q + 1) % Modulus))
<1> DEFINE x == q + 1
<1> DEFINE p == x % Modulus
<1>1. x \in Int /\ p \in Int /\ Congruent(p, x)
  <2>1. x \in Int
    OBVIOUS
  <2> HIDE DEF x
  <2> QED BY <2>1, CongruentToWord
<1> HIDE DEF p, x
<1>2. Congruent(Rest(n, d, x), Rest(n, d, p)) /\ Rest(n, d, x) \in Int /\ Rest(n, d, p) \in Int
  BY <1>1, RestCongruent, RestProperties
<1>3. Congruent(r, Rest(n, d, p))
  BY <1>2, CongruentChains DEF x
<1> QED BY <1>3 DEF p, x

LEMMA CountedDown ==
  ASSUME NEW n \in Int, NEW d \in Int, NEW q \in Int, NEW r \in Int,
         Congruent(r, Rest(n, d, q))
  PROVE  Congruent(r, Rest(n, d, ((q - 1) % Modulus) + 1))
<1> DEFINE x == q - 1
<1> DEFINE p == x % Modulus
<1>1. x \in Int /\ p \in Int /\ Congruent(p, x)
  <2>1. x \in Int
    OBVIOUS
  <2> HIDE DEF x
  <2> QED BY <2>1, CongruentToWord
<1>2. x + 1 = q
  OBVIOUS
<1> HIDE DEF p, x
<1>3. p + 1 \in Int /\ Congruent(p + 1, q)
  <2>1. Congruent(p + 1, x + 1)
    BY <1>1, CongruentMoved, 1 \in Int
  <2> QED BY <2>1, <1>1, <1>2
<1>4. /\ Congruent(Rest(n, d, q), Rest(n, d, p + 1))
      /\ Rest(n, d, q) \in Int /\ Rest(n, d, p + 1) \in Int
  BY <1>3, RestCongruent, RestProperties
<1>5. Congruent(r, Rest(n, d, p + 1))
  BY <1>4, CongruentChains
<1> QED BY <1>5 DEF p, x

\* The divider at pc, up to a word: R6 counts how often the divisor was taken from R7.
Counted(n, d, R, pc) ==
  /\ R[0] = n /\ R[1] = d /\ R[2] = SignBit /\ R[4] = 1
  /\ pc = 1 => R[6] = 0
  /\ pc \in {2, 6, 7, 9, 10} => Congruent(R[7], Rest(n, d, R[6]))
  /\ pc \in {3, 4, 5, 8} => Congruent(R[7], Rest(n, d, R[6] + 1))

\* Where the divider can be.
InDivider ==
  bus.pc \in 0..10 /\ (bus.pc = 10 <=> status = "done") /\ (time > 0 => bus.pc # 0)

LEMMA WordsAreNumbers ==
  /\ Modulus \in Nat \ {0} /\ SignBit \in Nat \ {0} /\ Modulus = 2 * SignBit
  /\ \A x \in Words : x \in Nat /\ x < Modulus
  /\ \A x \in Nat : x < Modulus => x \in Words
  /\ {0, 1, 2, 3, 4, 5, 6, 7} = Register
BY WordProperties DEF Words, Register, NumRegisters

LEMMA DividerStarts ==
  ASSUME loaded \in Image, loaded.name = "divider"
  PROVE  Starts(0) \in Words /\ Starts(1) \in Words /\ Starts(2) = SignBit /\ Starts(4) = 1
<1>1. loaded.registers \in [Register -> Words]
  BY ImageAssumption
<1> QED BY <1>1, ProgramAssumption, WordsAreNumbers DEF Starts

LEMMA DividerCounts ==
  ASSUME IInv, Clock, loaded.name = "divider", NEW n \in Words, NEW d \in Words,
         InDivider, Counted(n, d, rfmem, bus.pc)
  PROVE  Counted(n, d, rfmem', bus'.pc)
<1> DEFINE R == rfmem
<1> DEFINE S == rfmem'
<1> DEFINE pc == bus.pc
<1>1. R \in [Register -> Words] /\ status # "done"
  BY ClockSeen
<1>2. pc \in 0..9
  BY <1>1 DEF InDivider
<1>3. n \in Int /\ d \in Int /\ Modulus \in Nat \ {0} /\ R[6] \in Int /\ R[7] \in Int
  BY <1>1, WordsAreNumbers
<1>4. /\ R[0] = n /\ R[1] = d /\ R[2] = SignBit /\ R[4] = 1
      /\ pc = 1 => R[6] = 0
      /\ pc \in {2, 6, 7} => Congruent(R[7], Rest(n, d, R[6]))
      /\ pc \in {3, 4, 5, 8} => Congruent(R[7], Rest(n, d, R[6] + 1))
      /\ pc = 9 => Congruent(R[7], Rest(n, d, R[6]))
  BY DEF Counted
<1> DEFINE Kept(r) == \A k \in {0, 1, 2, 4, 6, 7} \ {r} : S[k] = R[k]
<1>5. CASE pc = 0
  <2>1. Sets(6, (R[6] - R[6]) % Modulus)
    BY <1>5, DividerSteps
  <2>2. (R[6] - R[6]) % Modulus = 0
    <3>1. R[6] - R[6] = 0
      BY <1>3
    <3>2. 0 % Modulus = 0
      BY <1>3, InModulus
    <3> QED BY <3>1, <3>2
  <2>3. S[6] = 0 /\ Kept(6) /\ bus'.pc = 1
    BY <2>1, <2>2, <1>5, WordsAreNumbers DEF Sets
  <2> QED BY <2>3, <1>4 DEF Counted
<1>6. CASE pc = 1
  <2>1. Sets(7, R[0])
    <3>1. Sets(7, FromOnes(Width, Ones(Width, R[0]) \cap Ones(Width, R[0])))
      BY <1>6, DividerSteps
    <3> QED BY <3>1, <1>4, CopiedByAnd
  <2>2. S[7] = n /\ Kept(7) /\ bus'.pc = 2
    BY <2>1, <1>4, <1>6, WordsAreNumbers DEF Sets
  <2>3. Congruent(n, Rest(n, d, 0))
    <3>1. Rest(n, d, 0) = n
      BY <1>3, RestProperties
    <3>2. Congruent(n, n)
      BY <1>3, CongruentProperties
    <3> QED BY <3>1, <3>2
  <2> QED BY <2>2, <2>3, <1>4, <1>6 DEF Counted
<1>7. CASE pc = 2
  <2>1. Sets(7, (R[7] - d) % Modulus)
    BY <1>4, <1>7, DividerSteps
  <2>2. S[7] = (R[7] - d) % Modulus /\ Kept(7) /\ bus'.pc = 3
    BY <2>1, <1>7, WordsAreNumbers DEF Sets
  <2>3. Congruent((R[7] - d) % Modulus, Rest(n, d, R[6] + 1))
    BY <1>3, <1>4, <1>7, TakenOnceMore
  <2> QED BY <2>2, <2>3, <1>4 DEF Counted
<1>8. CASE pc \in {3, 4}
  <2>1. Kept(8) /\ bus'.pc = pc + 1
    <3>1. CASE pc = 3
      <4>1. Sets(5, FromOnes(Width, (0..(Width - 1)) \ Ones(Width, R[7])))
        BY <3>1, DividerSteps
      <4> QED BY <4>1, WordsAreNumbers DEF Sets
    <3>2. CASE pc = 4
      <4>1. Sets(3, FromOnes(Width, Ones(Width, R[5]) \cap Ones(Width, R[2])))
        BY <3>2, DividerSteps
      <4> QED BY <4>1, WordsAreNumbers DEF Sets
    <3> QED BY <1>8, <3>1, <3>2
  <2> QED BY <2>1, <1>4, <1>8 DEF Counted
<1>9. CASE pc = 5
  <2>1. Sets(6, (R[6] + 1) % Modulus)
    BY <1>9, DividerSteps DEF Sum
  <2>2. S[6] = (R[6] + 1) % Modulus /\ Kept(6) /\ bus'.pc = 6
    BY <2>1, <1>9, WordsAreNumbers DEF Sets
  <2>3. Congruent(R[7], Rest(n, d, (R[6] + 1) % Modulus))
    BY <1>3, <1>4, <1>9, CountedUp
  <2> QED BY <2>2, <2>3, <1>4 DEF Counted
<1>10. CASE pc = 6
  <2>1. S = R /\ bus'.pc \in {2, 7}
    BY <1>10, DividerSteps DEF Goes
  <2> QED BY <2>1, <1>4, <1>10 DEF Counted
<1>11. CASE pc = 7
  <2>1. Sets(6, (R[6] - 1) % Modulus)
    BY <1>4, <1>11, DividerSteps
  <2>2. S[6] = (R[6] - 1) % Modulus /\ Kept(6) /\ bus'.pc = 8
    BY <2>1, <1>11, WordsAreNumbers DEF Sets
  <2>3. Congruent(R[7], Rest(n, d, ((R[6] - 1) % Modulus) + 1))
    BY <1>3, <1>4, <1>11, CountedDown
  <2> QED BY <2>2, <2>3, <1>4 DEF Counted
<1>12. CASE pc = 8
  <2>1. Sets(7, (R[7] + d) % Modulus)
    BY <1>4, <1>12, DividerSteps DEF Sum
  <2>2. S[7] = (R[7] + d) % Modulus /\ Kept(7) /\ bus'.pc = 9
    BY <2>1, <1>12, WordsAreNumbers DEF Sets
  <2>3. Congruent((R[7] + d) % Modulus, Rest(n, d, R[6]))
    BY <1>3, <1>4, <1>12, GivenBack
  <2> QED BY <2>2, <2>3, <1>4 DEF Counted
<1>13. CASE pc = 9
  <2>1. S = R /\ bus'.pc = 10
    BY <1>13, DividerSteps DEF Goes
  <2> QED BY <2>1, <1>4, <1>13 DEF Counted
<1> QED BY <1>2, <1>5, <1>6, <1>7, <1>8, <1>9, <1>10, <1>11, <1>12, <1>13

LEMMA DividerGoesOn ==
  ASSUME IInv, Clock, loaded.name = "divider", InDivider
  PROVE  InDivider'
<1>1. bus.pc \in 0..9
  BY ClockSeen DEF InDivider
<1>2. time' > 0
  BY DEF Clock, IInv, TypeOK
<1>3. bus.pc \in {0, 1, 2, 3, 4, 5, 7, 8} => bus'.pc = bus.pc + 1 /\ status' # "done"
  BY DividerSteps DEF Sets
<1>4. bus.pc = 6 => bus'.pc \in {2, 7} /\ status' # "done"
  BY DividerSteps DEF Goes
<1>5. bus.pc = 9 => bus'.pc = 10 /\ status' = "done"
  BY DividerSteps DEF Goes
<1>6. bus'.pc \in 1..10 /\ (bus'.pc = 10 <=> status' = "done")
  BY <1>1, <1>3, <1>4, <1>5
<1> QED BY <1>2, <1>6 DEF InDivider

\* The divider at pc, where it divides: R7 has the sign bit only after one subtraction too many.
Divided(n, d, R, pc) ==
  /\ pc = 2 => R[7] = Rest(n, d, R[6])
  /\ pc \in {3, 4, 5, 8} => /\ Rest(n, d, R[6]) >= 0
                            /\ R[7] = Rest(n, d, R[6] + 1) % Modulus
  /\ pc \in {6, 7} => /\ R[6] > 0 /\ Rest(n, d, R[6] - 1) >= 0
                      /\ R[7] = Rest(n, d, R[6]) % Modulus
  /\ pc = 4 => R[5] = FromOnes(Width, (0..(Width - 1)) \ Ones(Width, R[7]))
  /\ pc \in {5, 6} => (R[3] # 0 <=> R[7] < SignBit)
  /\ pc \in {7, 8} => R[7] >= SignBit
  /\ pc \in {9, 10} => R[7] = Rest(n, d, R[6]) /\ R[7] < d

LEMMA SignOfRest ==
  ASSUME NEW n \in Nat, n < SignBit, NEW d \in 1..SignBit, NEW q \in Nat, Rest(n, d, q) >= 0
  PROVE  /\ q + 1 < Modulus /\ Rest(n, d, q) \in Nat /\ Rest(n, d, q) < SignBit
         /\ Rest(n, d, q + 1) = Rest(n, d, q) - d
         /\ Rest(n, d, q + 1) >= 0 =>
              /\ Rest(n, d, q + 1) % Modulus = Rest(n, d, q + 1)
              /\ Rest(n, d, q + 1) % Modulus < SignBit
         /\ Rest(n, d, q + 1) < 0 =>
              /\ Rest(n, d, q + 1) % Modulus = Rest(n, d, q + 1) + Modulus
              /\ Rest(n, d, q + 1) % Modulus >= SignBit
<1> DEFINE x == Rest(n, d, q)
<1> DEFINE y == Rest(n, d, q + 1)
<1>1. /\ SignBit \in Nat /\ Modulus = 2 * SignBit /\ Modulus \in Nat \ {0}
      /\ n \in Int /\ d \in Nat \ {0} /\ q \in Int /\ d \in Int
  BY WordsAreNumbers
<1>2. x \in Int /\ y = x - d
  BY <1>1, RestProperties
<1>3. x <= n /\ q <= n
  BY <1>1, RestBounds
<1>4. x >= 0
  OBVIOUS
<1> HIDE DEF x, y
<1>5. x \in Nat /\ x < SignBit /\ q + 1 < Modulus /\ y \in Int
  BY <1>1, <1>2, <1>3, <1>4
<1>6. ASSUME y >= 0 PROVE y % Modulus = y /\ y < SignBit
  <2>1. y \in 0..(Modulus - 1) /\ y < SignBit
    BY <1>1, <1>2, <1>5, <1>6
  <2> QED BY <2>1, <1>1, <1>5, InModulus
<1>7. ASSUME y < 0 PROVE y % Modulus = y + Modulus /\ y + Modulus >= SignBit
  <2>1. y \in (-Modulus)..(-1) /\ y + Modulus >= SignBit
    BY <1>1, <1>2, <1>5, <1>7
  <2> QED BY <2>1, <1>1, <1>5, BelowModulus
<1> QED BY <1>2, <1>5, <1>6, <1>7 DEF x, y

LEMMA DividerDivides ==
  ASSUME IInv, Clock, loaded.name = "divider", NEW n \in Words, NEW d \in Words,
         n < SignBit, d \in 1..SignBit,
         InDivider, Counted(n, d, rfmem, bus.pc), Divided(n, d, rfmem, bus.pc)
  PROVE  Divided(n, d, rfmem', bus'.pc)
<1> DEFINE R == rfmem
<1> DEFINE S == rfmem'
<1> DEFINE pc == bus.pc
<1> DEFINE q == R[6]
<1> DEFINE r == R[7]
<1>1. R \in [Register -> Words] /\ status # "done"
  BY ClockSeen
<1>2. pc \in 0..9
  BY <1>1 DEF InDivider
<1>3. /\ n \in Nat /\ d \in Nat /\ Modulus \in Nat \ {0} /\ q \in Nat /\ r \in Nat
      /\ SignBit \in Nat /\ Modulus = 2 * SignBit /\ r \in Words /\ q < Modulus
  BY <1>1, WordsAreNumbers
<1>4. R[0] = n /\ R[1] = d /\ R[2] = SignBit /\ R[4] = 1 /\ (pc = 1 => q = 0)
  BY DEF Counted
<1>5. /\ pc = 2 => r = Rest(n, d, q)
      /\ pc \in {3, 4, 5, 8} => Rest(n, d, q) >= 0 /\ r = Rest(n, d, q + 1) % Modulus
      /\ pc \in {6, 7} => q > 0 /\ Rest(n, d, q - 1) >= 0 /\ r = Rest(n, d, q) % Modulus
      /\ pc = 4 => R[5] = FromOnes(Width, (0..(Width - 1)) \ Ones(Width, r))
      /\ pc \in {5, 6} => (R[3] # 0 <=> r < SignBit)
      /\ pc \in {7, 8} => r >= SignBit
      /\ pc = 9 => r = Rest(n, d, q) /\ r < d
  BY DEF Divided
<1> DEFINE Kept(k) == \A i \in {3, 5, 6, 7} \ {k} : S[i] = R[i]
<1>6. CASE pc = 0
  <2>1. bus'.pc = 1
    BY <1>6, DividerSteps DEF Sets
  <2> QED BY <2>1 DEF Divided
<1>7. CASE pc = 1
  <2>1. Sets(7, R[0])
    <3>1. Sets(7, FromOnes(Width, Ones(Width, R[0]) \cap Ones(Width, R[0])))
      BY <1>7, DividerSteps
    <3> QED BY <3>1, <1>4, CopiedByAnd
  <2>2. S[7] = n /\ Kept(7) /\ bus'.pc = 2
    BY <2>1, <1>4, <1>7, WordsAreNumbers DEF Sets
  <2>3. Rest(n, d, 0) = n
    BY <1>3, RestProperties
  <2> QED BY <2>2, <2>3, <1>4, <1>7 DEF Divided
<1>8. CASE pc = 2
  <2>1. Sets(7, (r - d) % Modulus)
    BY <1>4, <1>8, DividerSteps
  <2>2. S[7] = (r - d) % Modulus /\ Kept(7) /\ bus'.pc = 3
    BY <2>1, <1>8, WordsAreNumbers DEF Sets
  <2>3. r = Rest(n, d, q) /\ r >= 0
    BY <1>3, <1>5, <1>8
  <2>4. Rest(n, d, q + 1) = r - d
    <3>1. n \in Int /\ d \in Int /\ q \in Int
      BY <1>3
    <3>2. Rest(n, d, q + 1) = Rest(n, d, q) - d
      BY <3>1, RestProperties
    <3> QED BY <2>3, <3>2
  <2> QED BY <2>2, <2>3, <2>4 DEF Divided
<1>9. CASE pc = 3
  <2>1. Sets(5, FromOnes(Width, (0..(Width - 1)) \ Ones(Width, r)))
    BY <1>9, DividerSteps
  <2>2. S[5] = FromOnes(Width, (0..(Width - 1)) \ Ones(Width, r)) /\ bus'.pc = 4
    BY <2>1, <1>9 DEF Sets
  <2>3. S[7] = r /\ S[6] = q
    BY <2>1, WordsAreNumbers DEF Sets
  <2>4. Rest(n, d, q) >= 0 /\ r = Rest(n, d, q + 1) % Modulus
    BY <1>5, <1>9
  <2>5. S[5] = FromOnes(Width, (0..(Width - 1)) \ Ones(Width, S[7]))
    BY <2>2, <2>3
  <2>6. Rest(n, d, S[6]) >= 0 /\ S[7] = Rest(n, d, S[6] + 1) % Modulus
    BY <2>3, <2>4
  <2> HIDE DEF R, S, q, r, pc, Kept
  <2> QED BY <2>2, <2>5, <2>6 DEF Divided, S
<1>10. CASE pc = 4
  <2>1. Sets(3, FromOnes(Width, Ones(Width, R[5]) \cap Ones(Width, SignBit)))
    BY <1>4, <1>10, DividerSteps
  <2>2. /\ S[3] = FromOnes(Width, Ones(Width, R[5]) \cap Ones(Width, SignBit))
        /\ Kept(3) /\ bus'.pc = 5
    BY <2>1, <1>10, WordsAreNumbers DEF Sets
  <2>3. S[3] # 0 <=> r < SignBit
    BY <2>2, <1>3, <1>5, <1>10, SignTest
  <2> QED BY <2>2, <2>3, <1>5, <1>10 DEF Divided
<1>11. CASE pc = 5
  <2>1. Sets(6, (q + 1) % Modulus)
    BY <1>11, DividerSteps DEF Sum
  <2>2. S[6] = (q + 1) % Modulus /\ Kept(6) /\ bus'.pc = 6
    BY <2>1, <1>11, WordsAreNumbers DEF Sets
  <2>3. Rest(n, d, q) >= 0 /\ q + 1 < Modulus
    BY <1>3, <1>5, <1>11, SignOfRest
  <2>4. S[6] = q + 1
    BY <2>2, <2>3, <1>3, InModulus
  <2>5. S[6] > 0 /\ S[6] - 1 = q
    BY <2>4, <1>3
  <2> QED BY <2>2, <2>3, <2>4, <2>5, <1>5, <1>11 DEF Divided
<1>12. CASE pc = 6
  <2>1. S = R /\ bus'.pc = IF R[3] # 0 THEN 2 ELSE 7
    BY <1>12, DividerSteps DEF Goes
  <2> DEFINE p == q - 1
  <2>2. p \in Nat /\ p + 1 = q /\ Rest(n, d, p) >= 0
    BY <1>3, <1>5, <1>12
  <2> HIDE DEF p
  <2>3. r < SignBit => r = Rest(n, d, q)
    <3>1. /\ Rest(n, d, q) >= 0 => Rest(n, d, q) % Modulus = Rest(n, d, q)
          /\ Rest(n, d, q) < 0 => Rest(n, d, q) % Modulus >= SignBit
      BY <2>2, <1>3, SignOfRest
    <3>2. r = Rest(n, d, q) % Modulus /\ Rest(n, d, q) \in Int
      <4>1. n \in Int /\ d \in Int /\ q \in Int
        BY <1>3
      <4> QED BY <4>1, <1>5, <1>12, RestProperties
    <3> QED BY <3>1, <3>2, <1>3
  <2>4. r >= SignBit <=> ~(r < SignBit)
    BY <1>3
  <2> QED BY <2>1, <2>3, <2>4, <1>5, <1>12 DEF Divided
<1>13. CASE pc = 7
  <2>1. Sets(6, (q - 1) % Modulus)
    BY <1>4, <1>13, DividerSteps
  <2>2. S[6] = (q - 1) % Modulus /\ Kept(6) /\ bus'.pc = 8
    BY <2>1, <1>13, WordsAreNumbers DEF Sets
  <2>3. S[6] = q - 1 /\ S[6] + 1 = q
    <3>1. q > 0
      BY <1>5, <1>13
    <3>2. q - 1 \in 0..(Modulus - 1) /\ q - 1 \in Int /\ (q - 1) + 1 = q
      BY <3>1, <1>3
    <3> QED BY <3>2, <2>2, <1>3, InModulus
  <2> QED BY <2>2, <2>3, <1>5, <1>13 DEF Divided
<1>14. CASE pc = 8
  <2>1. Sets(7, (r + d) % Modulus)
    BY <1>4, <1>14, DividerSteps DEF Sum
  <2>2. S[7] = (r + d) % Modulus /\ Kept(7) /\ bus'.pc = 9
    BY <2>1, <1>14, WordsAreNumbers DEF Sets
  <2> DEFINE x == Rest(n, d, q)
  <2> DEFINE y == Rest(n, d, q + 1)
  <2>3. /\ x \in Nat /\ x < SignBit /\ y = x - d
        /\ y >= 0 => y % Modulus < SignBit
        /\ y < 0 => y % Modulus = y + Modulus
    BY <1>3, <1>5, <1>14, SignOfRest
  <2>4. r = y % Modulus /\ r >= SignBit
    BY <1>5, <1>14
  <2> HIDE DEF x, y
  <2>5. x < d /\ r = (x - d) + Modulus
    BY <2>3, <2>4, <1>3
  <2>6. r + d = x + Modulus
    BY <2>3, <2>5, <1>3
  <2>7. (x + Modulus) % Modulus = (x + Modulus) - Modulus
    <3>1. x + Modulus \in Int /\ x + Modulus \in Modulus..(2 * Modulus - 1)
      BY <2>3, <1>3
    <3> QED BY <3>1, <1>3, AboveModulus
  <2>8. S[7] = x
    BY <2>2, <2>3, <2>6, <2>7, <1>3
  <2> QED BY <2>2, <2>5, <2>8 DEF Divided, x
<1>15. CASE pc = 9
  <2>1. S = R /\ bus'.pc = 10
    BY <1>15, DividerSteps DEF Goes
  <2> QED BY <2>1, <1>5, <1>15 DEF Divided
<1> QED BY <1>2, <1>6, <1>7, <1>8, <1>9, <1>10, <1>11, <1>12, <1>13, <1>14, <1>15

\* The divider, wherever it is.
DividerInv ==
  loaded.name = "divider" =>
    /\ InDivider
    /\ Counted(Starts(0), Starts(1), rfmem, bus.pc)
    /\ Divides => Divided(Starts(0), Starts(1), rfmem, bus.pc)

LEMMA DividerInvInit == Init => DividerInv
<1> SUFFICES ASSUME Init, loaded.name = "divider"
             PROVE  /\ InDivider /\ Counted(Starts(0), Starts(1), rfmem, bus.pc)
                    /\ Divided(Starts(0), Starts(1), rfmem, bus.pc)
  BY DEF DividerInv
<1>1. /\ loaded \in Image /\ rfmem = loaded.registers /\ time = 0 /\ status = "running"
      /\ bus.pc = 0
  BY DEF Init, Bus
<1>2. Starts(2) = SignBit /\ Starts(4) = 1
  BY <1>1, DividerStarts
<1>3. \A r : rfmem[r] = Starts(r)
  BY <1>1 DEF Starts
<1>4. InDivider
  BY <1>1 DEF InDivider
<1>5. Counted(Starts(0), Starts(1), rfmem, bus.pc)
  BY <1>1, <1>2, <1>3 DEF Counted
<1>6. Divided(Starts(0), Starts(1), rfmem, bus.pc)
  BY <1>1 DEF Divided
<1> QED BY <1>4, <1>5, <1>6

LEMMA DividerInvStep == IInv /\ DividerInv /\ [Next]_vars => DividerInv'
<1> SUFFICES ASSUME IInv, DividerInv, [Next]_vars PROVE DividerInv'
  OBVIOUS
<1> DEFINE n == Starts(0)
<1> DEFINE d == Starts(1)
<1>1. CASE Clock
  <2> SUFFICES ASSUME loaded'.name = "divider"
               PROVE  /\ InDivider' /\ Counted(n', d', rfmem', bus'.pc)
                      /\ Divides' => Divided(n', d', rfmem', bus'.pc)
    BY DEF DividerInv
  <2>1. loaded' = loaded /\ n' = n /\ d' = d
    BY <1>1 DEF Clock, Starts
  <2>2. loaded.name = "divider" /\ (Divides' <=> Divides)
    BY <2>1 DEF Divides
  <2>3. /\ InDivider /\ Counted(n, d, rfmem, bus.pc)
        /\ Divides => Divided(n, d, rfmem, bus.pc)
    BY <2>2 DEF DividerInv
  <2>4. n \in Words /\ d \in Words
    BY <2>2, DividerStarts DEF IInv
  <2>5. Divides => n < SignBit /\ d \in 1..SignBit
    BY DEF Divides
  <2> HIDE DEF n, d
  <2>6. InDivider'
    BY <1>1, <2>2, <2>3, DividerGoesOn
  <2>7. Counted(n, d, rfmem', bus'.pc)
    BY <1>1, <2>2, <2>3, <2>4, DividerCounts
  <2>8. Divides => Divided(n, d, rfmem', bus'.pc)
    BY <1>1, <2>2, <2>3, <2>4, <2>5, DividerDivides
  <2> QED BY <2>1, <2>2, <2>6, <2>7, <2>8
<1>2. CASE Stray
  <2>1. loaded' = loaded /\ loaded.name # "divider"
    <3>1. bus.pc \notin DOMAIN imemory /\ loaded' = loaded
      BY <1>2 DEF Stray
    <3>2. DOMAIN imemory = 0..(InstructionStoreDepth - 1)
      BY InstructionStore DEF IInv
    <3> QED BY <3>1, <3>2 DEF DividerInv, InDivider, InstructionStoreDepth
  <2> QED BY <2>1 DEF DividerInv
<1>3. CASE UNCHANGED vars
  BY <1>3 DEF vars, DividerInv, InDivider, Divides, Starts
<1> QED BY <1>1, <1>2, <1>3 DEF Next

LEMMA DividerIsExact == IInv /\ DividerInv => DivisionExact
<1> SUFFICES ASSUME IInv, DividerInv, loaded.name = "divider"
             PROVE  /\ (Divides /\ status = "done") =>
                         rfmem[6] = Starts(0) \div Starts(1) /\ rfmem[7] = Starts(0) % Starts(1)
                    /\ (time > 0 /\ (status = "done" \/ bus.pc = 2)) =>
                         (rfmem[6] * Starts(1) + rfmem[7] - Starts(0)) % Modulus = 0
  BY DEF DivisionExact, Divides
<1> DEFINE n == Starts(0)
<1> DEFINE d == Starts(1)
<1> DEFINE q == rfmem[6]
<1> DEFINE r == rfmem[7]
<1>1. n \in Words /\ d \in Words /\ q \in Words /\ r \in Words
  <2>1. rfmem \in [Register -> Words]
    BY DEF IInv, TypeOK
  <2> QED BY <2>1, DividerStarts, WordsAreNumbers DEF IInv
<1>2. n \in Nat /\ d \in Nat /\ q \in Nat /\ r \in Nat
  BY <1>1, WordsAreNumbers
<1>3. status = "done" => bus.pc = 10
  BY DEF DividerInv, InDivider
<1>4. bus.pc \in {2, 10} => Congruent(r, Rest(n, d, q))
  BY DEF DividerInv, Counted
<1>5. Divides /\ bus.pc = 10 => d \in Nat \ {0} /\ r = Rest(n, d, q) /\ r < d
  <2>1. Divides /\ bus.pc = 10 => Divided(n, d, rfmem, bus.pc)
    BY DEF DividerInv
  <2>2. Divides => d \in 1..SignBit
    BY DEF Divides
  <2> HIDE DEF n, d
  <2> QED BY <2>1, <2>2, <1>2, WordsAreNumbers DEF Divided
<1> HIDE DEF n, d, q, r
<1>6. ASSUME Divides, status = "done" PROVE q = n \div d /\ r = n % d
  <2>1. d \in Nat \ {0} /\ r = n - q * d /\ r < d
    BY <1>3, <1>5, <1>6 DEF Rest
  <2>2. d * q = q * d /\ q * d \in Int
    BY <1>2
  <2>3. n = d * q + r /\ r \in 0..(d - 1) /\ q \in Int /\ n \in Int
    BY <2>1, <2>2, <1>2
  <2>4. d \in Nat \ {0}
    BY <2>1
  <2> QED BY ONLY <2>3, <2>4, DivisionUnique
<1>7. ASSUME bus.pc \in {2, 10} PROVE (q * d + r - n) % Modulus = 0
  <2>1. Congruent(r, Rest(n, d, q)) /\ Rest(n, d, q) \in Int /\ r \in Int
    <3>1. n \in Int /\ d \in Int /\ q \in Int /\ r \in Int
      BY <1>2
    <3> QED BY <3>1, <1>4, <1>7, RestProperties
  <2>2. (r - Rest(n, d, q)) % Modulus = 0
    BY <2>1, CongruentProperties
  <2>3. r - Rest(n, d, q) = q * d + r - n
    <3>1. q * d \in Int
      BY <1>2
    <3> QED BY <3>1, <1>2 DEF Rest
  <2> QED BY <2>2, <2>3
<1> QED BY <1>3, <1>6, <1>7 DEF n, d, q, r

----------------------------------------------------------------------------
(***************************************************************************)
(* ifib                                                                    *)
(***************************************************************************)

LEMMA IFibHas ==
  /\ DOMAIN IFibListing = 0..11
  /\ IFibListing[0] = Op("-", 0, 0, 0) /\ IFibListing[1] = Op("-", 4, 4, 4)
  /\ IFibListing[2] = Op("-", 3, 3, 3) /\ IFibListing[3] = Op("++", 3, 3, 2)
  /\ IFibListing[4] = Op("-", 5, 5, 5) /\ IFibListing[5] = Op("++", 5, 5, 5)
  /\ IFibListing[6] = Op("+", 3, 0, 4) /\ IFibListing[7] = Op("+", 2, 0, 3)
  /\ IFibListing[8] = Op("+", 3, 4, 2) /\ IFibListing[9] = Op("-", 5, 1, 6)
  /\ IFibListing[10] = Op("bnz", 6, 6, 5) /\ IFibListing[11] = Op("done", 0, 0, 0)
<1> DEFINE s == <<Op("-", 0, 0, 0), Op("-", 4, 4, 4), Op("-", 3, 3, 3),
                  Op("++", 3, 3, 2), Op("-", 5, 5, 5), Op("++", 5, 5, 5),
                  Op("+", 3, 0, 4), Op("+", 2, 0, 3), Op("+", 3, 4, 2),
                  Op("-", 5, 1, 6), Op("bnz", 6, 6, 5), Op("done", 0, 0, 0)>>
<1>1. /\ s[1] = Op("-", 0, 0, 0) /\ s[2] = Op("-", 4, 4, 4)
      /\ s[3] = Op("-", 3, 3, 3) /\ s[4] = Op("++", 3, 3, 2)
      /\ s[5] = Op("-", 5, 5, 5) /\ s[6] = Op("++", 5, 5, 5)
      /\ s[7] = Op("+", 3, 0, 4) /\ s[8] = Op("+", 2, 0, 3)
      /\ s[9] = Op("+", 3, 4, 2) /\ s[10] = Op("-", 5, 1, 6)
      /\ s[11] = Op("bnz", 6, 6, 5) /\ s[12] = Op("done", 0, 0, 0)
  OBVIOUS
<1>2. Len(s) = 12
  OBVIOUS
<1>3. IFibListing = [i \in 0..(Len(s) - 1) |-> s[i + 1]]
  BY DEF IFibListing, At0
<1> HIDE DEF s
<1>4. IFibListing = [i \in 0..11 |-> s[i + 1]]
  BY <1>2, <1>3
<1>5. DOMAIN IFibListing = 0..11 /\ \A i \in 0..11 : IFibListing[i] = s[i + 1]
  BY <1>4
<1> QED BY <1>1, <1>5

\* The instructions of ifib, one for each place.
LEMMA IFibSteps ==
  ASSUME IInv, Clock, loaded.name = "ifib"
  PROVE  LET R == rfmem pc == bus.pc
         IN  /\ pc = 0 => Sets(0, (R[0] - R[0]) % Modulus)
             /\ pc = 1 => Sets(4, (R[4] - R[4]) % Modulus)
             /\ pc = 2 => Sets(3, (R[3] - R[3]) % Modulus)
             /\ pc = 3 => Sets(2, Sum(R[3], 1))
             /\ pc = 4 => Sets(5, (R[5] - R[5]) % Modulus)
             /\ pc = 5 => Sets(5, Sum(R[5], 1))
             /\ pc = 6 => Sets(4, Sum(R[3], R[0]))
             /\ pc = 7 => Sets(3, Sum(R[2], R[0]))
             /\ pc = 8 => Sets(2, Sum(R[3], R[4]))
             /\ pc = 9 => Sets(6, (R[5] - R[1]) % Modulus)
             /\ pc = 10 => Goes(IF R[6] # 0 THEN 5 ELSE 11) /\ status' # "done"
             /\ pc = 11 => Goes(12) /\ status' = "done"
<1>1. loaded.listing = IFibListing
  BY ProgramAssumption DEF IInv
<1>2. ASSUME bus.pc = 0 PROVE Sets(0, (rfmem[0] - rfmem[0]) % Modulus)
  <2>1. bus.pc \in DOMAIN loaded.listing /\ loaded.listing[bus.pc] = Op("-", 0, 0, 0)
    BY <1>1, <1>2, IFibHas
  <2>2. Computes("-", 0, 0, 0)
    BY <2>1, LineComputes
  <2> QED BY <2>2, <1>2 DEF Computes
<1>3. ASSUME bus.pc = 1 PROVE Sets(4, (rfmem[4] - rfmem[4]) % Modulus)
  <2>1. bus.pc \in DOMAIN loaded.listing /\ loaded.listing[bus.pc] = Op("-", 4, 4, 4)
    BY <1>1, <1>3, IFibHas
  <2>2. Computes("-", 4, 4, 4)
    BY <2>1, LineComputes
  <2> QED BY <2>2, <1>3 DEF Computes
<1>4. ASSUME bus.pc = 2 PROVE Sets(3, (rfmem[3] - rfmem[3]) % Modulus)
  <2>1. bus.pc \in DOMAIN loaded.listing /\ loaded.listing[bus.pc] = Op("-", 3, 3, 3)
    BY <1>1, <1>4, IFibHas
  <2>2. Computes("-", 3, 3, 3)
    BY <2>1, LineComputes
  <2> QED BY <2>2, <1>4 DEF Computes
<1>5. ASSUME bus.pc = 3 PROVE Sets(2, Sum(rfmem[3], 1))
  <2>1. bus.pc \in DOMAIN loaded.listing /\ loaded.listing[bus.pc] = Op("++", 3, 3, 2)
    BY <1>1, <1>5, IFibHas
  <2>2. Computes("++", 3, 3, 2)
    BY <2>1, LineComputes
  <2> QED BY <2>2, <1>5 DEF Computes
<1>6. ASSUME bus.pc = 4 PROVE Sets(5, (rfmem[5] - rfmem[5]) % Modulus)
  <2>1. bus.pc \in DOMAIN loaded.listing /\ loaded.listing[bus.pc] = Op("-", 5, 5, 5)
    BY <1>1, <1>6, IFibHas
  <2>2. Computes("-", 5, 5, 5)
    BY <2>1, LineComputes
  <2> QED BY <2>2, <1>6 DEF Computes
<1>7. ASSUME bus.pc = 5 PROVE Sets(5, Sum(rfmem[5], 1))
  <2>1. bus.pc \in DOMAIN loaded.listing /\ loaded.listing[bus.pc] = Op("++", 5, 5, 5)
    BY <1>1, <1>7, IFibHas
  <2>2. Computes("++", 5, 5, 5)
    BY <2>1, LineComputes
  <2> QED BY <2>2, <1>7 DEF Computes
<1>8. ASSUME bus.pc = 6 PROVE Sets(4, Sum(rfmem[3], rfmem[0]))
  <2>1. bus.pc \in DOMAIN loaded.listing /\ loaded.listing[bus.pc] = Op("+", 3, 0, 4)
    BY <1>1, <1>8, IFibHas
  <2>2. Computes("+", 3, 0, 4)
    BY <2>1, LineComputes
  <2> QED BY <2>2, <1>8 DEF Computes
<1>9. ASSUME bus.pc = 7 PROVE Sets(3, Sum(rfmem[2], rfmem[0]))
  <2>1. bus.pc \in DOMAIN loaded.listing /\ loaded.listing[bus.pc] = Op("+", 2, 0, 3)
    BY <1>1, <1>9, IFibHas
  <2>2. Computes("+", 2, 0, 3)
    BY <2>1, LineComputes
  <2> QED BY <2>2, <1>9 DEF Computes
<1>10. ASSUME bus.pc = 8 PROVE Sets(2, Sum(rfmem[3], rfmem[4]))
  <2>1. bus.pc \in DOMAIN loaded.listing /\ loaded.listing[bus.pc] = Op("+", 3, 4, 2)
    BY <1>1, <1>10, IFibHas
  <2>2. Computes("+", 3, 4, 2)
    BY <2>1, LineComputes
  <2> QED BY <2>2, <1>10 DEF Computes
<1>11. ASSUME bus.pc = 9 PROVE Sets(6, (rfmem[5] - rfmem[1]) % Modulus)
  <2>1. bus.pc \in DOMAIN loaded.listing /\ loaded.listing[bus.pc] = Op("-", 5, 1, 6)
    BY <1>1, <1>11, IFibHas
  <2>2. Computes("-", 5, 1, 6)
    BY <2>1, LineComputes
  <2> QED BY <2>2, <1>11 DEF Computes
<1>12. ASSUME bus.pc = 10 PROVE Goes(IF rfmem[6] # 0 THEN 5 ELSE 11) /\ status' # "done"
  <2>1. bus.pc \in DOMAIN loaded.listing /\ loaded.listing[bus.pc] = Op("bnz", 6, 6, 5)
    BY <1>1, <1>12, IFibHas
  <2>2. Computes("bnz", 6, 6, 5)
    BY <2>1, LineComputes
  <2> QED BY <2>2, <1>12 DEF Computes
<1>13. ASSUME bus.pc = 11 PROVE Goes(12) /\ status' = "done"
  <2>1. bus.pc \in DOMAIN loaded.listing /\ loaded.listing[bus.pc] = Op("done", 0, 0, 0)
    BY <1>1, <1>13, IFibHas
  <2>2. Computes("done", 0, 0, 0)
    BY <2>1, LineComputes
  <2> QED BY <2>2, <1>13 DEF Computes
<1> QED BY <1>2, <1>3, <1>4, <1>5, <1>6, <1>7, <1>8, <1>9, <1>10, <1>11, <1>12, <1>13

\* The Fibonacci numbers are words, each pair made of the one before.
LEMMA FibPairSteps ==
  /\ FibPair[0] = <<0, 1>>
  /\ \A n \in 1..Modulus :
       FibPair[n] = <<FibPair[n - 1][2], (FibPair[n - 1][1] + FibPair[n - 1][2]) % Modulus>>
<1> DEFINE S == Words \X Words
<1> DEFINE After(p) == <<p[2], (p[1] + p[2]) % Modulus>>
<1> DEFINE Body(f) == [n \in 0..Modulus |-> IF n = 0 THEN <<0, 1>> ELSE After(f[n - 1])]
<1> DEFINE F == [p \in (1..Modulus) \X S |-> After(p[2])]
<1>1. FibPair = CHOOSE f : f = Body(f)
  BY DEF FibPair
<1>2. /\ Modulus \in Nat /\ <<0, 1>> \in S
      /\ \A p \in S : After(p) \in S
  <2>1. Modulus \in Nat \ {0} /\ 0 \in Words /\ 1 \in Words
    BY WordsAreNumbers
  <2>2. ASSUME NEW p \in S PROVE After(p) \in S
    <3>1. p[1] \in Words /\ p[2] \in Words
      OBVIOUS
    <3>2. (p[1] + p[2]) % Modulus \in Words
      BY <3>1, SumsAreWords DEF Sum
    <3> QED BY <3>1, <3>2
  <2> QED BY <2>1, <2>2
<1> HIDE DEF After
<1>3. F \in [(1..Modulus) \X S -> S]
  <2> HIDE DEF S
  <2>1. \A p \in (1..Modulus) \X S : p[2] \in S
    OBVIOUS
  <2> QED BY <1>2, <2>1
<1>4. PICK g : StepIteration(S, F, <<0, 1>>, Modulus, g)
  <2> HIDE DEF F, S
  <2> QED BY <1>2, <1>3, StepIterates
<1> HIDE DEF S
<1>5. /\ g \in [0..Modulus -> S] /\ g[0] = <<0, 1>>
      /\ \A i \in 1..Modulus : g[i] = F[<<i, g[i - 1]>>]
  BY <1>4 DEF StepIteration
<1>6. ASSUME NEW i \in 1..Modulus PROVE g[i] = After(g[i - 1])
  <2>1. i - 1 \in 0..Modulus /\ g[i - 1] \in S
    BY <1>2, <1>5
  <2>2. F[<<i, g[i - 1]>>] = After(g[i - 1])
    BY <2>1
  <2> HIDE DEF F
  <2> QED BY <2>2, <1>5
<1>7. \A i \in 0..Modulus : g[i] = IF i = 0 THEN <<0, 1>> ELSE After(g[i - 1])
  <2>1. /\ \A i \in 0..Modulus : i = 0 \/ i \in 1..Modulus
        /\ \A i \in 1..Modulus : i # 0
    BY <1>2
  <2> HIDE DEF F
  <2> QED BY ONLY <1>5, <1>6, <2>1
<1>8. g = [i \in 0..Modulus |-> g[i]]
  BY <1>5
<1>9. g = Body(g)
  BY ONLY <1>7, <1>8
<1>10. FibPair = Body(FibPair)
  <2> HIDE DEF Body
  <2> QED BY <1>1, <1>9
<1> DEFINE B == Body(FibPair)
<1>11. \A i \in 0..Modulus : B[i] = IF i = 0 THEN <<0, 1>> ELSE After(FibPair[i - 1])
  OBVIOUS
<1>12. FibPair = B
  BY ONLY <1>10
<1> HIDE DEF B, Body, F
<1>13. \A i \in 0..Modulus : FibPair[i] = IF i = 0 THEN <<0, 1>> ELSE After(FibPair[i - 1])
  BY ONLY <1>11, <1>12
<1>14. 0 \in 0..Modulus /\ \A i \in 1..Modulus : i \in 0..Modulus /\ i # 0
  BY <1>2
<1>15. FibPair[0] = <<0, 1>> /\ \A i \in 1..Modulus : FibPair[i] = After(FibPair[i - 1])
  BY ONLY <1>13, <1>14
<1> QED BY <1>15 DEF After

LEMMA FibPairWords ==
  \A n \in 0..Modulus :
    FibPair[n][1] \in Words /\ FibPair[n][2] \in Words
<1> DEFINE Wrong == {n \in 0..Modulus : ~(FibPair[n][1] \in Words /\ FibPair[n][2] \in Words)}
<1> SUFFICES ASSUME Wrong # {} PROVE FALSE
  OBVIOUS
<1>1. PICK n \in Wrong : \A m \in Wrong : ~(m < n)
  <2>1. Wrong \in SUBSET Nat
    BY WordsAreNumbers
  <2> HIDE DEF Wrong
  <2> QED BY <2>1, LeastNatural
<1>2. /\ n \in 0..Modulus /\ Modulus \in Nat /\ 0 \in Words /\ 1 \in Words
      /\ ~(FibPair[n][1] \in Words /\ FibPair[n][2] \in Words)
  BY <1>1, WordsAreNumbers
<1>3. n # 0
  BY <1>2, FibPairSteps
<1>4. n \in 1..Modulus /\ n - 1 \in 0..Modulus /\ n - 1 < n
  BY <1>2, <1>3
<1>5. FibPair[n - 1][1] \in Words /\ FibPair[n - 1][2] \in Words
  BY <1>1, <1>4
<1>6. (FibPair[n - 1][1] + FibPair[n - 1][2]) % Modulus \in Words
  BY <1>5, SumsAreWords DEF Sum
<1> QED BY <1>2, <1>4, <1>5, <1>6, FibPairSteps

\* Where ifib can be.
InIFib == bus.pc \in 0..12 /\ (bus.pc = 12 <=> status = "done")

\* ifib at pc: R5 counts the numbers that are made, and one is made in six ticks.
Makes(a, R, pc, t) ==
  /\ R[1] = a
  /\ pc > 0 => R[0] = 0
  /\ pc < 5 => t = pc
  /\ pc \in {3, 4} => R[3] = 0
  /\ pc = 4 => R[2] = 1
  /\ pc >= 5 => t = 6 * R[5] + (IF pc = 5 THEN 5 ELSE pc - 6)
  /\ pc > 5 => R[5] > 0
  /\ pc \in {5, 9, 10, 11, 12} => R[3] = FibPair[R[5]][1] /\ R[2] = FibPair[R[5]][2]
  /\ pc \in {6, 7, 8} => R[2] = FibPair[R[5] - 1][2]
  /\ pc = 6 => R[3] = FibPair[R[5] - 1][1]
  /\ pc \in {7, 8} => R[4] = FibPair[R[5] - 1][1]
  /\ pc = 8 => R[3] = FibPair[R[5] - 1][2]
  /\ pc = 10 => (R[6] = 0 <=> R[5] = a)
  /\ pc > 10 => R[5] = a

LEMMA IFibGoesOn ==
  ASSUME IInv, Clock, loaded.name = "ifib", InIFib
  PROVE  InIFib'
<1>1. bus.pc \in 0..11
  BY ClockSeen DEF InIFib
<1>2. bus.pc \in 0..9 => bus'.pc = bus.pc + 1 /\ status' # "done"
  <2>1. bus.pc \in 0..9 => bus.pc \in {0, 1, 2, 3, 4, 5, 6, 7, 8, 9}
    OBVIOUS
  <2> QED BY <2>1, IFibSteps DEF Sets
<1>3. bus.pc = 10 => bus'.pc \in {5, 11} /\ status' # "done"
  BY IFibSteps DEF Goes
<1>4. bus.pc = 11 => bus'.pc = 12 /\ status' = "done"
  BY IFibSteps DEF Goes
<1>5. bus'.pc \in 0..12 /\ (bus'.pc = 12 <=> status' = "done")
  BY <1>1, <1>2, <1>3, <1>4
<1> QED BY <1>5 DEF InIFib

\* A word and zero make the word, and two words differ when their difference does not vanish.
LEMMA WordSums ==
  ASSUME NEW x \in Words, NEW y \in Words
  PROVE  /\ Sum(x, 0) = x /\ (x - x) % Modulus = 0 /\ Sum(0, 1) = 1
         /\ (x - y) % Modulus = 0 <=> x = y
<1>1. /\ x \in 0..(Modulus - 1) /\ y \in 0..(Modulus - 1) /\ Modulus \in Nat \ {0}
      /\ 0 \in 0..(Modulus - 1) /\ 1 \in 0..(Modulus - 1)
  BY WordsAreNumbers DEF Words
<1>2. x + 0 = x /\ x - x = 0 /\ 0 + 1 = 1 /\ x - y \in Int /\ (x - y = 0 <=> x = y)
  BY <1>1
<1>3. x % Modulus = x /\ 0 % Modulus = 0 /\ 1 % Modulus = 1
  BY <1>1, InModulus
<1>4. (x - y) % Modulus = 0 <=> x - y = 0
  <2> DEFINE z == x - y
  <2>1. z \in Int /\ (z \in 0..(Modulus - 1) \/ (z \in (-Modulus)..(-1) /\ z > -Modulus))
    BY <1>1
  <2> HIDE DEF z
  <2>2. ASSUME z \in 0..(Modulus - 1) PROVE z % Modulus = z
    BY <1>1, <2>1, <2>2, InModulus
  <2>3. ASSUME z \in (-Modulus)..(-1), z > -Modulus PROVE z % Modulus = z + Modulus
    BY <1>1, <2>1, <2>3, BelowModulus
  <2>4. z % Modulus = 0 <=> z = 0
    <3>1. CASE z \in 0..(Modulus - 1)
      BY <2>2, <3>1
    <3>2. CASE z \in (-Modulus)..(-1) /\ z > -Modulus
      BY <2>1, <2>3, <3>2, <1>1
    <3> QED BY <2>1, <3>1, <3>2
  <2> QED BY <2>4 DEF z
<1> QED BY <1>2, <1>3, <1>4 DEF Sum

LEMMA IFibMakes ==
  ASSUME IInv, Clock, loaded.name = "ifib", NEW a \in Words,
         InIFib, Makes(a, rfmem, bus.pc, time)
  PROVE  Makes(a, rfmem', bus'.pc, time')
<1> DEFINE R == rfmem
<1> DEFINE S == rfmem'
<1> DEFINE pc == bus.pc
<1> DEFINE k == R[5]
<1> DEFINE Kept(r) == \A i \in {0, 1, 2, 3, 4, 5, 6} \ {r} : S[i] = R[i]
<1>1. R \in [Register -> Words]
  BY ClockSeen
<1>2. pc \in 0..11
  BY ClockSeen DEF InIFib
<1>3. /\ time' = time + 1 /\ time \in Nat /\ time < MaxExecuteTime - 1
      /\ MaxExecuteTime \in Nat /\ MaxExecuteTime <= 6 * Modulus
  BY ProcessorAssumption, ProgramAssumption DEF Clock, IInv, TypeOK
<1>4. /\ Modulus \in Nat \ {0} /\ k \in Words /\ k \in Nat /\ k < Modulus
      /\ R[0] \in Words /\ R[2] \in Words /\ R[3] \in Words /\ R[4] \in Words
      /\ R[1] \in Words /\ 0 \in Words /\ 1 \in Words
  BY <1>1, WordsAreNumbers
<1>5. /\ R[1] = a
      /\ pc > 0 => R[0] = 0
      /\ pc < 5 => time = pc
      /\ pc \in {3, 4} => R[3] = 0
      /\ pc = 4 => R[2] = 1
      /\ pc >= 5 => time = 6 * k + (IF pc = 5 THEN 5 ELSE pc - 6)
      /\ pc > 5 => k > 0
      /\ pc \in {5, 9, 10, 11, 12} => R[3] = FibPair[k][1] /\ R[2] = FibPair[k][2]
      /\ pc \in {6, 7, 8} => R[2] = FibPair[k - 1][2]
      /\ pc = 6 => R[3] = FibPair[k - 1][1]
      /\ pc \in {7, 8} => R[4] = FibPair[k - 1][1]
      /\ pc = 8 => R[3] = FibPair[k - 1][2]
      /\ pc = 10 => (R[6] = 0 <=> k = a)
      /\ pc > 10 => k = a
  BY DEF Makes
<1>6. CASE pc = 0
  <2>1. Sets(0, (R[0] - R[0]) % Modulus)
    BY <1>6, IFibSteps
  <2>2. S[0] = 0 /\ Kept(0) /\ bus'.pc = 1
    <3>1. (R[0] - R[0]) % Modulus = 0
      BY <1>4, WordSums
    <3> QED BY <2>1, <3>1, <1>6, WordsAreNumbers DEF Sets
  <2> HIDE DEF S
  <2> QED BY <2>2, <1>3, <1>5, <1>6 DEF Makes, S
<1>7. CASE pc = 1
  <2>1. Sets(4, (R[4] - R[4]) % Modulus)
    BY <1>7, IFibSteps
  <2>2. Kept(4) /\ bus'.pc = 2
    BY <2>1, <1>7, WordsAreNumbers DEF Sets
  <2> HIDE DEF S
  <2> QED BY <2>2, <1>3, <1>5, <1>7 DEF Makes, S
<1>8. CASE pc = 2
  <2>1. Sets(3, (R[3] - R[3]) % Modulus)
    BY <1>8, IFibSteps
  <2>2. S[3] = 0 /\ Kept(3) /\ bus'.pc = 3
    <3>1. (R[3] - R[3]) % Modulus = 0
      BY <1>4, WordSums
    <3> QED BY <2>1, <3>1, <1>8, WordsAreNumbers DEF Sets
  <2> HIDE DEF S
  <2> QED BY <2>2, <1>3, <1>5, <1>8 DEF Makes, S
<1>9. CASE pc = 3
  <2>1. Sets(2, Sum(R[3], 1))
    BY <1>9, IFibSteps
  <2>2. S[2] = 1 /\ Kept(2) /\ bus'.pc = 4
    <3>1. R[3] = 0 /\ Sum(0, 1) = 1
      BY <1>4, <1>5, <1>9, WordSums
    <3> QED BY <2>1, <3>1, <1>9, WordsAreNumbers DEF Sets
  <2> HIDE DEF S
  <2> QED BY <2>2, <1>3, <1>5, <1>9 DEF Makes, S
<1>10. CASE pc = 4
  <2>1. Sets(5, (R[5] - R[5]) % Modulus)
    BY <1>10, IFibSteps
  <2>2. S[5] = 0 /\ Kept(5) /\ bus'.pc = 5
    <3>1. (R[5] - R[5]) % Modulus = 0
      BY <1>4, WordSums
    <3> QED BY <2>1, <3>1, <1>10, WordsAreNumbers DEF Sets
  <2>3. FibPair[0][1] = 0 /\ FibPair[0][2] = 1
    BY FibPairSteps
  <2> HIDE DEF S
  <2> QED BY <2>2, <2>3, <1>3, <1>5, <1>10 DEF Makes, S
<1>11. CASE pc = 5
  <2>1. Sets(5, Sum(R[5], 1))
    BY <1>11, IFibSteps
  <2>2. S[5] = (k + 1) % Modulus /\ Kept(5) /\ bus'.pc = 6
    BY <2>1, <1>11, WordsAreNumbers DEF Sets, Sum
  <2>3. k + 1 \in 0..(Modulus - 1)
    BY <1>3, <1>4, <1>5, <1>11
  <2>4. S[5] = k + 1 /\ S[5] - 1 = k /\ S[5] > 0
    <3>1. k + 1 \in Int /\ (k + 1) - 1 = k /\ k + 1 > 0
      BY <1>4
    <3>2. (k + 1) % Modulus = k + 1
      BY <2>3, <1>4, InModulus
    <3> QED BY <2>2, <3>1, <3>2
  <2> HIDE DEF S, k
  <2>5. time' = 6 * S[5] + 0
    BY <2>4, <1>3, <1>4, <1>5, <1>11
  <2> QED BY <2>2, <2>4, <2>5, <1>3, <1>5, <1>11 DEF Makes, S, k
<1>12. CASE pc \in {6, 7, 8, 9}
  <2> DEFINE f == FibPair[k - 1]
  <2>1. /\ k > 0 /\ k - 1 \in 0..Modulus /\ k \in 1..Modulus
        /\ time' = 6 * k + (pc + 1 - 6) /\ R[0] = 0
    BY <1>2, <1>3, <1>4, <1>5, <1>12
  <2>2. f[1] \in Words /\ f[2] \in Words
    BY <2>1, FibPairWords
  <2>3. FibPair[k][1] = f[2] /\ FibPair[k][2] = Sum(f[1], f[2])
    BY <2>1, FibPairSteps DEF Sum
  <2>4. Sum(f[1], 0) = f[1] /\ Sum(f[2], 0) = f[2] /\ Sum(f[2], f[1]) = Sum(f[1], f[2])
    <3>1. f[1] + f[2] = f[2] + f[1]
      BY <2>2, WordsAreNumbers
    <3> QED BY <2>2, <3>1, WordSums DEF Sum
  <2>5. /\ pc \in {6, 7, 8} => R[2] = f[2]
        /\ pc = 6 => R[3] = f[1]
        /\ pc \in {7, 8} => R[4] = f[1]
        /\ pc = 8 => R[3] = f[2]
    BY <1>5
  <2> HIDE DEF f
  <2>6. CASE pc = 6
    <3>1. Sets(4, Sum(R[3], R[0]))
      BY <2>6, IFibSteps
    <3>2. S[4] = f[1] /\ Kept(4) /\ bus'.pc = 7
      BY <3>1, <2>1, <2>4, <2>5, <2>6, WordsAreNumbers DEF Sets
    <3> HIDE DEF S
    <3> QED BY <3>2, <2>1, <2>6, <1>5 DEF Makes, S, f
  <2>7. CASE pc = 7
    <3>1. Sets(3, Sum(R[2], R[0]))
      BY <2>7, IFibSteps
    <3>2. S[3] = f[2] /\ Kept(3) /\ bus'.pc = 8
      BY <3>1, <2>1, <2>4, <2>5, <2>7, WordsAreNumbers DEF Sets
    <3> HIDE DEF S
    <3> QED BY <3>2, <2>1, <2>7, <1>5 DEF Makes, S, f
  <2>8. CASE pc = 8
    <3>1. Sets(2, Sum(R[3], R[4]))
      BY <2>8, IFibSteps
    <3>2. S[2] = Sum(f[1], f[2]) /\ Kept(2) /\ bus'.pc = 9
      BY <3>1, <2>4, <2>5, <2>8, WordsAreNumbers DEF Sets
    <3>3. R[3] = f[2]
      BY <2>5, <2>8
    <3> HIDE DEF S
    <3> QED BY <3>2, <3>3, <2>1, <2>3, <2>8, <1>5 DEF Makes, S
  <2>9. CASE pc = 9
    <3>1. Sets(6, (R[5] - R[1]) % Modulus)
      BY <2>9, IFibSteps
    <3>2. (S[6] = 0 <=> k = a) /\ Kept(6) /\ bus'.pc = 10
      <4>1. (R[5] - R[1]) % Modulus = 0 <=> R[5] = R[1]
        BY <1>4, WordSums
      <4>2. S[6] = (R[5] - R[1]) % Modulus /\ Kept(6) /\ bus'.pc = 10
        BY <3>1, <2>9, WordsAreNumbers DEF Sets
      <4> QED BY <4>1, <4>2, <1>5
    <3> HIDE DEF S
    <3> QED BY <3>2, <2>1, <2>9, <1>5 DEF Makes, S
  <2> QED BY <1>12, <2>6, <2>7, <2>8, <2>9
<1>13. CASE pc = 10
  <2>1. S = R /\ bus'.pc = IF R[6] # 0 THEN 5 ELSE 11
    BY <1>13, IFibSteps DEF Goes
  <2>2. time' = 6 * k + 5
    BY <1>3, <1>4, <1>5, <1>13
  <2> QED BY <2>1, <2>2, <1>5, <1>13 DEF Makes
<1>14. CASE pc = 11
  <2>1. S = R /\ bus'.pc = 12
    BY <1>14, IFibSteps DEF Goes
  <2>2. time' = 6 * k + 6
    BY <1>3, <1>4, <1>5, <1>14
  <2> QED BY <2>1, <2>2, <1>5, <1>14 DEF Makes
<1> QED BY <1>2, <1>6, <1>7, <1>8, <1>9, <1>10, <1>11, <1>12, <1>13, <1>14

\* ifib, wherever it is.
IFibInv ==
  loaded.name = "ifib" => InIFib /\ Makes(Starts(1), rfmem, bus.pc, time)

LEMMA IFibInvInit == Init => IFibInv
<1> SUFFICES ASSUME Init, loaded.name = "ifib"
             PROVE  InIFib /\ Makes(Starts(1), rfmem, bus.pc, time)
  BY DEF IFibInv
<1>1. rfmem = loaded.registers /\ time = 0 /\ status = "running" /\ bus.pc = 0
  BY DEF Init, Bus
<1> QED BY <1>1 DEF InIFib, Makes, Starts

LEMMA IFibInvStep == IInv /\ IFibInv /\ [Next]_vars => IFibInv'
<1> SUFFICES ASSUME IInv, IFibInv, [Next]_vars PROVE IFibInv'
  OBVIOUS
<1> DEFINE a == Starts(1)
<1>1. CASE Clock
  <2> SUFFICES ASSUME loaded'.name = "ifib"
               PROVE  InIFib' /\ Makes(a', rfmem', bus'.pc, time')
    BY DEF IFibInv
  <2>1. loaded' = loaded /\ a' = a
    BY <1>1 DEF Clock, Starts
  <2>2. loaded.name = "ifib" /\ InIFib /\ Makes(a, rfmem, bus.pc, time)
    BY <2>1 DEF IFibInv
  <2>3. a \in Words
    <3>1. loaded.registers \in [Register -> Words]
      BY ImageAssumption DEF IInv
    <3> QED BY <3>1, WordsAreNumbers DEF Starts
  <2> HIDE DEF a
  <2> QED BY <1>1, <2>1, <2>2, <2>3, IFibGoesOn, IFibMakes
<1>2. CASE Stray
  <2>1. loaded' = loaded /\ loaded.name # "ifib"
    <3>1. bus.pc \notin DOMAIN imemory /\ loaded' = loaded
      BY <1>2 DEF Stray
    <3>2. DOMAIN imemory = 0..(InstructionStoreDepth - 1)
      BY InstructionStore DEF IInv
    <3> QED BY <3>1, <3>2 DEF IFibInv, InIFib, InstructionStoreDepth
  <2> QED BY <2>1 DEF IFibInv
<1>3. CASE UNCHANGED vars
  BY <1>3 DEF vars, IFibInv, InIFib, Starts
<1> QED BY <1>1, <1>2, <1>3 DEF Next

LEMMA IFibIsExact == IFibInv => FibonacciExact
BY DEF IFibInv, InIFib, Makes, FibonacciExact

\* Whenever they are done, and the divider at the top of its loop, the two programs have
\* computed what their listings are for, for every width of the registers and all arguments.
THEOREM ProgramsAlwaysExact == Spec => []ProgramsExact
<1>1. Init => IInv /\ DividerInv /\ IFibInv
  BY InitHolds, DividerInvInit, IFibInvInit
<1>2. IInv /\ DividerInv /\ IFibInv /\ [Next]_vars => (IInv /\ DividerInv /\ IFibInv)'
  BY StepHolds, DividerInvStep, IFibInvStep
<1>3. IInv /\ DividerInv /\ IFibInv => ProgramsExact
  BY DividerIsExact, IFibIsExact DEF ProgramsExact
<1> QED BY <1>1, <1>2, <1>3, PTL DEF Spec
=============================================================================
