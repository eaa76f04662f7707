---------------------------- MODULE DriverProofs ----------------------------
(***************************************************************************)
(* Theorems about the trace driver and its K-best measurement, for any     *)
(* traces, command lines, addresses, heap and counter: the measurement     *)
(* keeps the fastest runs, measured exactly, and a score is earned.  In    *)
(* its judgement (eval_mm_valid) the list of ranges is that of the live    *)
(* blocks, an overlap comes out, and an allocator that keeps its promises  *)
(* is not blamed.  In eval_mm_util the utilization is exact.  The          *)
(* variables keep their types.                                             *)
(***************************************************************************)
EXTENDS Driver, DataLemmas, FiniteSetTheorems

----------------------------------------------------------------------------
(***************************************************************************)
(* The cycle counter                                                       *)
(***************************************************************************)

\* get_counter finds the cycles between two readings, also when the lower word
\* or both wrapped around in between (clock.c:55-72).
LEMMA CounterExact ==
  ASSUME NEW c \in 0..(CounterWord * CounterWord - 1),
         NEW t \in 0..(CounterWord * CounterWord - 1),
         NEW now, now = (c + t) % (CounterWord * CounterWord)
  PROVE  /\ now \in 0..(CounterWord * CounterWord - 1)
         /\ get_counter(access_counter(c), access_counter(now)) = t
<1> DEFINE W == CounterWord
           M == W * W
           h == c \div W
           l == c % W
           g == now \div W
           k == now % W
           b == IF k < l THEN 1 ELSE 0
           lo == (k - l) % W
           d == g - h - b
           hi == d % W
<1>1. W \in Nat \ {0} /\ M \in Nat \ {0}
  BY ClockAssumption
<1>2. now \in 0..(M - 1) /\ (now = c + t \/ now = c + t - M)
  <2> HIDE DEF M
  <2>1. now = (c + t) % M /\ c \in 0..(M - 1) /\ t \in 0..(M - 1)
    BY DEF M
  <2> QED BY <1>1, <2>1, SumModulus
<1>3. /\ h \in 0..(W - 1) /\ h % W = h /\ l \in 0..(W - 1) /\ c = W * h + l
      /\ g \in 0..(W - 1) /\ g % W = g /\ k \in 0..(W - 1) /\ now = W * g + k
  BY <1>1, <1>2, TwoWords
<1> HIDE DEF W, M, h, l, g, k
<1>4. lo = k - l + (IF k < l THEN W ELSE 0) /\ lo \in 0..(W - 1) /\ (lo > k <=> k < l)
  <2>1. CASE k < l
    <3>1. k - l \in (-W)..(-1)
      BY <1>1, <1>3, <2>1
    <3>2. lo = k - l + W
      BY <1>1, <3>1, InModulus, AboveModulus, BelowModulus
    <3> QED BY <1>1, <1>3, <2>1, <3>2
  <2>2. CASE ~(k < l)
    <3>1. k - l \in 0..(W - 1)
      BY <1>1, <1>3, <2>2
    <3>2. lo = k - l
      BY <1>1, <3>1, InModulus, AboveModulus, BelowModulus
    <3> QED BY <1>1, <1>3, <2>2, <3>2
  <2> QED BY <2>1, <2>2
<1>5. d \in (-W)..(W - 1) /\ (hi = d \/ hi = d + W) /\ hi \in 0..(W - 1)
  <2>1. d \in (-W)..(W - 1)
    BY <1>1, <1>3
  <2> HIDE DEF d
  <2>2. CASE d < 0
    <3>1. d \in (-W)..(-1)
      BY <2>1, <2>2
    <3>0. d \in Int
      BY <1>1, <3>1
    <3>2. (d % W) = d + W
      <4> HIDE <1>1
      <4>1. W \in Nat \ {0}
        BY <1>1
      <4> QED BY ONLY <4>1, <3>0, <3>1, BelowModulus
    <3>3. hi = d + W
      BY <3>2
    <3> QED BY <1>1, <2>1, <3>1, <3>3
  <2>3. CASE ~(d < 0)
    <3>1. d \in 0..(W - 1)
      BY <2>1, <2>3
    <3>2. hi = d
      BY <1>1, <3>1, InModulus, AboveModulus, BelowModulus
    <3> QED BY <1>1, <2>1, <3>1, <3>2
  <2> QED BY <2>2, <2>3
<1>6. get_counter(access_counter(c), access_counter(now)) = hi * W + lo
  BY <1>3, <1>4 DEF get_counter, access_counter, W, h, l, g, k
<1>7. W * d + lo = now - c
  <2>1. W * d = W * g - W * h - W * b
    BY <1>1, <1>3
  <2>2. W * b = IF k < l THEN W ELSE 0
    BY <1>1
  <2> HIDE DEF d, b, lo
  <2> DEFINE x == W * d
             y == W * g
             z == W * h
             w == W * b
  <2>3. x = y - z - w /\ w = (IF k < l THEN W ELSE 0)
    BY <2>1, <2>2
  <2>4. c = z + l /\ now = y + k /\ y \in Int /\ z \in Int
    BY <1>1, <1>3
  <2> HIDE DEF x, y, z, w
  <2>5. x + lo = now - c
    BY <1>1, <1>3, <1>4, <2>3, <2>4
  <2> QED BY <2>5 DEF x
<1>8. hi * W = W * d \/ hi * W = W * d + M
  BY <1>1, <1>5, <1>3 DEF M
<1>9. hi * W + lo \in 0..(M - 1)
  <2> HIDE DEF hi, lo
  <2>1. hi * W \in Nat /\ hi * W <= (W - 1) * W
    BY <1>1, <1>5
  <2>2. (W - 1) * W = M - W
    BY <1>1 DEF M
  <2> QED BY <1>1, <1>4, <2>1, <2>2
<1>10. hi * W + lo = t
  <2> HIDE DEF hi, lo, d
  <2> DEFINE x == W * d
             y == hi * W
  <2>1. x \in Int /\ y \in Int /\ (y = x \/ y = x + M) /\ x + lo = now - c
        /\ y + lo \in 0..(M - 1) /\ lo \in Int /\ t \in 0..(M - 1)
        /\ c \in Int /\ now \in Int
    <3>1. W * d \in Int
      BY <1>1, <1>5
    <3> QED BY <1>1, <1>2, <1>4, <1>7, <1>8, <1>9, <3>1 DEF M, W
  <2> HIDE DEF x, y
  <2>2. y + lo = t
    BY <1>1, <1>2, <2>1
  <2> QED BY <2>2 DEF y
<1> QED BY <1>2, <1>6, <1>10 DEF M, W

----------------------------------------------------------------------------
(***************************************************************************)
(* The K-best measurement                                                  *)
(***************************************************************************)

\* What KBest says of the values v after the n samples s, with the last at place m.
BestTo(v, n, s, m) ==
  /\ Len(s) = n
  /\ \A a, b \in 0..m : a <= b => v[a] <= v[b]
  /\ \E run \in Injection(0..m, 1..n) :
       /\ \A j \in 0..m : v[j] = s[run[j]]
       /\ \A x \in 1..n : (\A j \in 0..m : run[j] # x) =>
            n > kbest /\ v[kbest - 1] <= s[x]

Best(v, n, s) == BestTo(v, n, s, (IF n < kbest THEN n ELSE kbest) - 1)

Values == [0..(kbest - 1) -> Int]

\* The insertion sort finds a place.
LEMMA PlaceFound ==
  ASSUME NEW v \in Values, NEW pos \in 0..(kbest - 1), NEW val \in Int,
         \A a, b \in 0..(pos - 1) : a <= b => v[a] <= v[b]
  PROVE  /\ Place(v, pos, val) \in 0..pos
         /\ \A j \in Place(v, pos, val)..(pos - 1) : v[j] > val
         /\ Place(v, pos, val) > 0 => v[Place(v, pos, val) - 1] <= val
<1> DEFINE T == {p \in 0..pos : \A j \in p..(pos - 1) : v[j] > val}
<1>1. T \in SUBSET Nat /\ pos \in T
  OBVIOUS
<1>2. PICK x \in T : \A y \in T : ~(y < x)
  <2> HIDE DEF T
  <2> QED BY <1>1, LeastNatural
<1>3. x > 0 => v[x - 1] <= val
  <2> SUFFICES ASSUME x > 0 PROVE v[x - 1] <= val
    OBVIOUS
  <2>1. x - 1 \notin T /\ x - 1 \in 0..pos
    BY <1>2
  <2>2. PICK j \in (x - 1)..(pos - 1) : ~(v[j] > val)
    BY <2>1
  <2>3. j = x - 1
    BY <1>2, <2>2
  <2>4. v[j] \in Int
    BY <2>2, FcycAssumption DEF Values
  <2> QED BY <2>2, <2>3, <2>4
<1> QED BY <1>2, <1>3 DEF Place

\* Inserted keeps the order.
LEMMA InsertedOrder ==
  ASSUME NEW v \in Values, NEW pos \in 0..(kbest - 1), NEW val \in Int,
         NEW q \in 0..pos,
         \A a, b \in 0..(pos - 1) : a <= b => v[a] <= v[b],
         \A j \in q..(pos - 1) : v[j] > val,
         q > 0 => v[q - 1] <= val,
         NEW w, w = Inserted(v, q, pos, val)
  PROVE  /\ w \in Values
         /\ w[q] = val
         /\ \A j \in 0..(q - 1) : w[j] = v[j]
         /\ \A j \in (q + 1)..pos : w[j] = v[j - 1]
         /\ \A a, b \in 0..pos : a <= b => w[a] <= w[b]
<1> USE FcycAssumption
<1>1. w \in Values
  BY DEF Inserted, Values
<1>2. w[q] = val
  BY DEF Inserted
<1>3. \A j \in 0..(q - 1) : w[j] = v[j]
  BY DEF Inserted
<1>4. \A j \in (q + 1)..pos : w[j] = v[j - 1]
  BY DEF Inserted
<1>5. ASSUME NEW a \in 0..pos, NEW b \in 0..pos, a <= b
      PROVE  w[a] <= w[b]
  <2>1. \A j \in 0..(kbest - 1) : v[j] \in Int /\ w[j] \in Int
    BY <1>1 DEF Values
  <2>2. ASSUME NEW j \in 0..(q - 1) PROVE v[j] <= val
    <3>1. v[j] <= v[q - 1] /\ v[q - 1] <= val /\ v[q - 1] \in Int /\ v[j] \in Int
      BY <2>1
    <3> QED BY <3>1
  <2>3. CASE a < q /\ b < q
    <3>1. w[a] = v[a] /\ w[b] = v[b] /\ v[a] <= v[b]
      BY <1>3, <1>5, <2>3
    <3> QED BY <3>1
  <2>4. CASE a < q /\ b = q
    <3>1. w[a] = v[a] /\ w[b] = val /\ v[a] <= val
      BY <1>2, <1>3, <2>2, <2>4
    <3> QED BY <3>1
  <2>5. CASE a < q /\ b > q
    <3>1. w[a] = v[a] /\ w[b] = v[b - 1] /\ v[a] <= v[b - 1]
      BY <1>3, <1>4, <2>5
    <3> QED BY <3>1
  <2>6. CASE a = q /\ b = q
    BY <1>2, <2>6
  <2>7. CASE a = q /\ b > q
    <3>1. w[a] = val /\ w[b] = v[b - 1] /\ v[b - 1] > val /\ v[b - 1] \in Int
      BY <1>2, <1>4, <2>1, <2>7
    <3> QED BY <3>1
  <2>8. CASE a > q /\ b > q
    <3>1. w[a] = v[a - 1] /\ w[b] = v[b - 1] /\ v[a - 1] <= v[b - 1]
      BY <1>4, <1>5, <2>8
    <3> QED BY <3>1
  <2> QED BY <1>5, <2>3, <2>4, <2>5, <2>6, <2>7, <2>8
<1> QED BY <1>1, <1>2, <1>3, <1>4, <1>5

LEMMA KBestPositive == kbest \in Nat \ {0}
BY FcycAssumption

\* One more sample, which the sort puts at place q of the pos + 1 best: a run of
\* its own is found for each value, and the value that is given up is no better.
Extended(z, s, n, val) ==
  /\ s \in [1..n -> Int] /\ z \in [1..(n + 1) -> Int]
  /\ \A x \in 1..n : z[x] = s[x]
  /\ z[n + 1] = val

IsRun(run, v, s, n, kept) ==
  /\ run \in [0..(kept - 1) -> 1..n]
  /\ \A a, b \in 0..(kept - 1) : run[a] = run[b] => a = b
  /\ \A j \in 0..(kept - 1) : v[j] = s[run[j]]

IsInserted(w, v, q, pos, val) ==
  /\ w \in Values
  /\ w[q] = val
  /\ \A j \in 0..(q - 1) : w[j] = v[j]
  /\ \A j \in (q + 1)..pos : w[j] = v[j - 1]

RunFound(w, z, run, n, kept, pos) ==
  \E r \in Injection(0..pos, 1..(n + 1)) :
    /\ \A j \in 0..pos : w[j] = z[r[j]]
    /\ \A x \in 1..(n + 1) : (\A j \in 0..pos : r[j] # x) =>
         \/ x \in 1..n /\ \A j \in 0..(kept - 1) : run[j] # x
         \/ pos \in 0..(kept - 1) /\ x = run[pos]

LEMMA RunInserted ==
  ASSUME NEW v \in Values, NEW n \in Nat, NEW s, NEW val \in Int, NEW z,
         Extended(z, s, n, val),
         NEW kept \in 0..kbest, NEW pos \in 0..(kbest - 1), pos <= kept,
         kept <= pos + 1,
         NEW run, IsRun(run, v, s, n, kept),
         NEW q \in 0..pos,
         NEW w, IsInserted(w, v, q, pos, val)
  PROVE  RunFound(w, z, run, n, kept, pos)
<1> USE KBestPositive
<1>a. /\ s \in [1..n -> Int] /\ z \in [1..(n + 1) -> Int]
      /\ \A x \in 1..n : z[x] = s[x]
      /\ z[n + 1] = val
  BY DEF Extended
<1>b. /\ run \in [0..(kept - 1) -> 1..n]
      /\ \A a, b \in 0..(kept - 1) : run[a] = run[b] => a = b
      /\ \A j \in 0..(kept - 1) : v[j] = s[run[j]]
  BY DEF IsRun
<1>c. /\ w \in Values
      /\ w[q] = val
      /\ \A j \in 0..(q - 1) : w[j] = v[j]
      /\ \A j \in (q + 1)..pos : w[j] = v[j - 1]
  BY DEF IsInserted
<1> USE <1>a, <1>b, <1>c
<1> DEFINE r == [j \in 0..pos |-> IF j < q THEN run[j] ELSE IF j = q THEN n + 1 ELSE run[j - 1]]
<1>1. /\ \A j \in 0..(q - 1) : r[j] = run[j]
      /\ r[q] = n + 1
      /\ \A j \in (q + 1)..pos : r[j] = run[j - 1]
      /\ DOMAIN r = 0..pos
  OBVIOUS
<1>2. r \in [0..pos -> 1..(n + 1)]
  <2> SUFFICES ASSUME NEW j \in 0..pos PROVE r[j] \in 1..(n + 1)
    OBVIOUS
  <2>1. CASE j < q
    <3>1. j \in 0..(kept - 1) /\ run[j] \in 1..n /\ r[j] = run[j]
      BY <2>1
    <3> QED BY <3>1
  <2>2. CASE j = q
    BY <2>2
  <2>3. CASE j > q
    <3>1. j - 1 \in 0..(kept - 1) /\ run[j - 1] \in 1..n /\ r[j] = run[j - 1]
      BY <2>3
    <3> QED BY <3>1
  <2> QED BY <2>1, <2>2, <2>3
<1> HIDE DEF r
<1>3. \A j \in 0..(kept - 1) : run[j] \in 1..n /\ run[j] # n + 1
  OBVIOUS
<1>4. ASSUME NEW a \in 0..pos, NEW b \in 0..pos, r[a] = r[b]
      PROVE  a = b
  <2>1. ASSUME NEW j \in 0..pos, j # q
        PROVE  \E e \in 0..(kept - 1) : r[j] = run[e] /\ e = IF j < q THEN j ELSE j - 1
    <3>1. CASE j < q
      BY <1>1, <3>1
    <3>2. CASE j > q
      BY SMTT(30), <1>1, <3>2
    <3> QED BY <2>1, <3>1, <3>2
  <2>2. ASSUME NEW j \in 0..pos, j # q PROVE r[j] # r[q]
    <3>1. PICK e \in 0..(kept - 1) : r[j] = run[e]
      BY <2>1, <2>2
    <3> QED BY <1>1, <1>3, <3>1
  <2>3. CASE a # q /\ b # q
    <3>1. PICK e \in 0..(kept - 1) : r[a] = run[e] /\ e = IF a < q THEN a ELSE a - 1
      BY <2>1, <2>3
    <3>2. PICK f \in 0..(kept - 1) : r[b] = run[f] /\ f = IF b < q THEN b ELSE b - 1
      BY <2>1, <2>3
    <3>3. run[e] = run[f]
      BY ONLY <1>4, <3>1, <3>2
    <3>4. e = f
      BY <3>3
    <3> QED BY <2>3, <3>1, <3>2, <3>4
  <2> QED BY <1>4, <2>2, <2>3
<1>5. r \in Injection(0..pos, 1..(n + 1))
  BY <1>1, <1>2, <1>4 DEF Injection, IsInjective
<1>6. ASSUME NEW j \in 0..pos PROVE w[j] = z[r[j]]
  <2>1. CASE j < q
    <3>1. j \in 0..(kept - 1) /\ r[j] = run[j] /\ w[j] = v[j]
      BY <1>1, <2>1
    <3> QED BY <1>3, <3>1
  <2>2. CASE j = q
    BY <1>1, <2>2
  <2>3. CASE j > q
    <3>1. j - 1 \in 0..(kept - 1) /\ r[j] = run[j - 1] /\ w[j] = v[j - 1]
      BY SMTT(30), <1>1, <2>3
    <3> QED BY <1>3, <3>1
  <2> QED BY <2>1, <2>2, <2>3
<1>7. ASSUME NEW x \in 1..(n + 1), \A j \in 0..pos : r[j] # x
      PROVE  \/ x \in 1..n /\ \A j \in 0..(kept - 1) : run[j] # x
             \/ pos \in 0..(kept - 1) /\ x = run[pos]
  <2>0. r[q] = n + 1 /\ q \in 0..pos /\ n \in Nat
    BY <1>1
  <2>1. x \in 1..n
    BY ONLY <2>0, <1>7
  <2>2. ASSUME NEW j \in 0..(kept - 1), run[j] = x, j # pos
        PROVE  FALSE
    <3>1. CASE j < q
      BY <1>1, <1>7, <2>2, <3>1
    <3>2. CASE ~(j < q)
      <4>1. j + 1 \in (q + 1)..pos
        BY <2>2, <3>2
      <4>2. r[j + 1] = run[j + 1 - 1]
        BY <1>1, <4>1
      <4> QED BY SMTT(30), <1>7, <2>2, <4>1, <4>2
    <3> QED BY <3>1, <3>2
  <2> QED BY <2>1, <2>2
<1> QED BY <1>5, <1>6, <1>7 DEF RunFound

\* add_sample keeps the best.
LEMMA AddSampleBest ==
  ASSUME NEW v \in Values, NEW n \in Nat, NEW s \in Seq(Int), NEW val \in Int,
         Best(v, n, s),
         NEW w, w = add_sample(v, n, val),
         NEW z, z = Append(s, val)
  PROVE  w \in Values /\ z \in Seq(Int) /\ Best(w, n + 1, z)
<1> USE KBestPositive
<1> DEFINE kept == IF n < kbest THEN n ELSE kbest
<1>1. Len(s) = n /\ \A a, b \in 0..(kept - 1) : a <= b => v[a] <= v[b]
  BY DEF Best, BestTo
<1>2. PICK run \in Injection(0..(kept - 1), 1..n) :
         /\ \A j \in 0..(kept - 1) : v[j] = s[run[j]]
         /\ \A x \in 1..n : (\A j \in 0..(kept - 1) : run[j] # x) =>
               n > kbest /\ v[kbest - 1] <= s[x]
  BY DEF Best, BestTo
<1>3. /\ s \in [1..n -> Int] /\ z \in Seq(Int) /\ Len(z) = n + 1
      /\ z \in [1..(n + 1) -> Int]
      /\ \A j \in 1..n : z[j] = s[j]
      /\ z[n + 1] = val
  <2>1. s \in [1..n -> Int] /\ z \in Seq(Int) /\ Len(z) = n + 1
        /\ z \in [1..(n + 1) -> Int]
        /\ \A j \in 1..(n + 1) : z[j] = IF j = n + 1 THEN val ELSE s[j]
    <3>1. /\ Len(s) \in Nat /\ s \in [1..Len(s) -> Int]
          /\ Append(s, val) \in Seq(Int) /\ Len(Append(s, val)) = Len(s) + 1
          /\ Append(s, val) \in [1..(Len(s) + 1) -> Int]
          /\ \A j \in 1..(Len(s) + 1) :
               Append(s, val)[j] = IF j = Len(s) + 1 THEN val ELSE s[j]
      <4> DEFINE S == Int
      <4>1. s \in Seq(S) /\ val \in S
        OBVIOUS
      <4> SUFFICES
          /\ Len(s) \in Nat /\ s \in [1..Len(s) -> S]
          /\ Append(s, val) \in Seq(S) /\ Len(Append(s, val)) = Len(s) + 1
          /\ Append(s, val) \in [1..(Len(s) + 1) -> S]
          /\ \A j \in 1..(Len(s) + 1) :
               Append(s, val)[j] = IF j = Len(s) + 1 THEN val ELSE s[j]
        OBVIOUS
      <4> HIDE DEF S
      <4> QED BY ONLY <4>1, AppendFunction
    <3>2. Len(s) = n
      BY <1>1
    <3> QED BY <3>1, <3>2, Zenon
  <2>2. \A j \in 1..n : z[j] = s[j]
    BY <2>1
  <2>3. z[n + 1] = val
    BY <2>1
  <2> QED BY <2>1, <2>2, <2>3
<1>4. /\ run \in [0..(kept - 1) -> 1..n]
      /\ \A a, b \in 0..(kept - 1) : run[a] = run[b] => a = b
  BY <1>2 DEF Injection, IsInjective
<1>5. kept \in 0..kbest /\ kept <= n
  OBVIOUS
<1> DEFINE Goal == w \in Values /\ Best(w, n + 1, z)
<1>6. CASE n < kbest \/ val < v[kbest - 1]
  <2> DEFINE pos == IF n < kbest THEN n ELSE kbest - 1
             q == Place(v, pos, val)
  <2>1. pos \in 0..(kbest - 1) /\ pos <= kept /\ kept <= pos + 1
    OBVIOUS
  <2>2. w = Inserted(v, q, pos, val)
    BY <1>6 DEF add_sample
  <2>3. \A a, b \in 0..(pos - 1) : a <= b => v[a] <= v[b]
    BY <1>1
  <2> HIDE DEF pos, kept
  <2>4. /\ q \in 0..pos
        /\ \A j \in q..(pos - 1) : v[j] > val
        /\ q > 0 => v[q - 1] <= val
    BY <2>1, <2>3, PlaceFound
  <2> HIDE DEF q
  <2>5. /\ w \in Values
        /\ w[q] = val
        /\ \A j \in 0..(q - 1) : w[j] = v[j]
        /\ \A j \in (q + 1)..pos : w[j] = v[j - 1]
        /\ \A a, b \in 0..pos : a <= b => w[a] <= w[b]
    BY SMTT(30), <2>1, <2>2, <2>3, <2>4, InsertedOrder
  <2>a. \A j \in 0..(kbest - 1) : v[j] \in Int /\ w[j] \in Int
    BY <2>5 DEF Values
  <2>b. RunFound(w, z, run, n, kept, pos)
    <3>1. Extended(z, s, n, val)
      BY <1>3 DEF Extended
    <3>2. IsRun(run, v, s, n, kept)
      BY <1>2, <1>4 DEF IsRun
    <3>3. IsInserted(w, v, q, pos, val)
      BY <2>5 DEF IsInserted
    <3>4. v \in Values /\ n \in Nat /\ val \in Int /\ q \in 0..pos
      BY <2>4
    <3> QED BY <1>5, <2>1, <3>1, <3>2, <3>3, <3>4, RunInserted
  <2>6. PICK r \in Injection(0..pos, 1..(n + 1)) :
           /\ \A j \in 0..pos : w[j] = z[r[j]]
           /\ \A x \in 1..(n + 1) : (\A j \in 0..pos : r[j] # x) =>
                \/ x \in 1..n /\ \A j \in 0..(kept - 1) : run[j] # x
                \/ pos \in 0..(kept - 1) /\ x = run[pos]
    BY <2>b DEF RunFound
  <2>7. ASSUME NEW x \in 1..(n + 1), \A j \in 0..pos : r[j] # x
        PROVE  n + 1 > kbest /\ w[kbest - 1] <= z[x]
    <3>1. CASE x \in 1..n /\ \A j \in 0..(kept - 1) : run[j] # x
      <4>1. n > kbest /\ v[kbest - 1] <= s[x] /\ z[x] = s[x]
        BY <1>2, <1>3, <3>1
      <4>2. pos = kbest - 1 /\ val < v[kbest - 1]
        BY <1>6, <4>1 DEF pos
      <4>3. w[kbest - 1] <= v[kbest - 1]
        <5>1. CASE q = pos
          BY <2>a, <2>5, <4>2, <5>1
        <5>2. CASE q < pos
          <6>1. w[kbest - 1] = v[kbest - 2] /\ kbest - 2 \in 0..(kbest - 2)
            BY <2>1, <2>4, <2>5, <4>2, <5>2
          <6>2. v[kbest - 2] <= v[kbest - 1]
            BY <1>1, <4>1, <6>1 DEF kept
          <6> QED BY <2>a, <6>1, <6>2
        <5> QED BY <2>1, <2>4, <5>1, <5>2
      <4>4. w[kbest - 1] \in Int /\ v[kbest - 1] \in Int /\ s[x] \in Int
        BY <2>5, <1>3, <3>1 DEF Values
      <4> QED BY <4>1, <4>3, <4>4
    <3>2. CASE pos \in 0..(kept - 1) /\ x = run[pos]
      <4>1. pos = kbest - 1 /\ n >= kbest /\ val < v[kbest - 1] /\ kept = kbest
        BY <1>6, <2>1, <3>2 DEF pos, kept
      <4>2. x \in 1..n /\ z[x] = v[kbest - 1]
        BY <1>2, <1>3, <1>4, <3>2, <4>1
      <4>3. w[kbest - 1] <= v[kbest - 1]
        <5>1. CASE q = pos
          BY <2>a, <2>5, <4>1, <5>1
        <5>2. CASE q < pos
          <6>1. w[kbest - 1] = v[kbest - 2] /\ kbest - 2 \in 0..(kbest - 2)
            BY <2>1, <2>4, <2>5, <4>1, <5>2
          <6>2. v[kbest - 2] <= v[kbest - 1]
            BY <1>1, <4>1, <6>1
          <6> QED BY <2>a, <6>1, <6>2
        <5> QED BY <2>1, <2>4, <5>1, <5>2
      <4> QED BY <4>1, <4>2, <4>3
    <3> QED BY <2>6, <2>7, <3>1, <3>2
  <2>8. (IF n + 1 < kbest THEN n + 1 ELSE kbest) - 1 = pos
    BY DEF pos
  <2>9. Best(w, n + 1, z)
    <3>1. BestTo(w, n + 1, z, pos)
      BY <1>3, <2>5, <2>6, <2>7 DEF BestTo
    <3> QED BY ONLY <2>8, <3>1 DEF Best
  <2> QED BY <2>5, <2>9
<1>7. CASE ~(n < kbest \/ val < v[kbest - 1])
  <2>1. w = v /\ kept = kbest /\ (IF n + 1 < kbest THEN n + 1 ELSE kbest) = kbest
    BY <1>7 DEF add_sample
  <2> HIDE DEF kept
  <2>2. run \in Injection(0..(kbest - 1), 1..(n + 1))
    BY <1>4, <2>1 DEF Injection, IsInjective
  <2>3. \A j \in 0..(kbest - 1) : w[j] = z[run[j]]
    BY <1>2, <1>3, <1>4, <2>1
  <2>4. ASSUME NEW x \in 1..(n + 1), \A j \in 0..(kbest - 1) : run[j] # x
        PROVE  n + 1 > kbest /\ w[kbest - 1] <= z[x]
    <3>1. CASE x = n + 1
      <4>1. v[kbest - 1] \in Int
        BY DEF Values
      <4>2. z[x] = val /\ n >= kbest /\ ~(val < v[kbest - 1])
        BY <1>3, <1>7, <3>1
      <4> QED BY <2>1, <4>1, <4>2
    <3>2. CASE x \in 1..n
      <4>1. n > kbest /\ v[kbest - 1] <= s[x] /\ z[x] = s[x]
        BY <1>2, <1>3, <2>1, <2>4, <3>2
      <4> QED BY <2>1, <4>1
    <3>3. x \in 1..(n + 1) /\ n \in Nat
      BY <2>4
    <3>4. x = n + 1 \/ x \in 1..n
      BY ONLY <3>3
    <3> QED BY ONLY <3>1, <3>2, <3>4
  <2>5. Best(w, n + 1, z)
    <3>1. Len(z) = n + 1 /\ \A a, b \in 0..(kbest - 1) : a <= b => w[a] <= w[b]
      BY <1>1, <1>3, <2>1
    <3>2. \A x \in 1..(n + 1) : (\A j \in 0..(kbest - 1) : run[j] # x) =>
            n + 1 > kbest /\ w[kbest - 1] <= z[x]
      BY <2>4
    <3>3. (IF n + 1 < kbest THEN n + 1 ELSE kbest) = kbest
      BY <2>1
    <3>4. BestTo(w, n + 1, z, kbest - 1)
      BY ONLY <2>2, <2>3, <3>1, <3>2 DEF BestTo
    <3> QED BY ONLY <3>3, <3>4 DEF Best
  <2> QED BY <2>1, <2>5
<1> QED BY <1>3, <1>6, <1>7

LEMMA KBestIsBest == KBest <=> (sampling # "off" => Best(values, samplecount, samples))
BY DEF KBest, Best, BestTo, Kept

FcycInv == FcycTypeOK /\ KBest

LEMMA BestEmpty == NoValues \in Values /\ Best(NoValues, 0, <<>>)
<1> USE KBestPositive
<1>1. NoValues \in Values
  BY DEF NoValues, Values
<1> DEFINE run == [j \in {} |-> 0]
<1>2. 0..(0 - 1) = {} /\ 1..0 = {} /\ (IF 0 < kbest THEN 0 ELSE kbest) = 0
  OBVIOUS
<1>3. run \in Injection(0..(0 - 1), 1..0)
  BY <1>2 DEF Injection, IsInjective
<1>4. Len(<<>>) = 0
  OBVIOUS
<1> QED BY <1>1, <1>2, <1>3, <1>4 DEF Best, BestTo

LEMMA FcycInitInv == FcycInit => FcycInv
<1> SUFFICES ASSUME FcycInit PROVE FcycInv
  OBVIOUS
<1>1. cycles \in 0..(CounterWord * CounterWord - 1)
  BY FcycAssumption DEF FcycInit
<1>2. NoValues \in [0..(kbest - 1) -> Int]
  BY BestEmpty DEF Values
<1> QED BY <1>1, <1>2 DEF FcycInit, FcycInv, FcycTypeOK, KBest

LEMMA FcycSampleInv ==
  ASSUME FcycInv, NEW t \in RunTime, NEW n \in Ticks, FcycSample(t, n)
  PROVE  FcycInv'
<1> DEFINE now == (cycles + t) % (CounterWord * CounterWord)
<1>1. PICK price \in Price :
         LET cyc == get_comp_counter(access_counter(cycles), access_counter(now), n, price)
             sorted == add_sample(values, samplecount, cyc)
         IN /\ sampling = "loop"
            /\ cyc_per_tick' = price
            /\ cycles' = now
            /\ values' = sorted
            /\ samplecount' = samplecount + 1
            /\ sampling' = IF has_converged(sorted, samplecount + 1)
                               \/ samplecount + 1 >= maxsamples
                            THEN "done" ELSE "loop"
            /\ samples' = Append(samples, t - n * price)
  BY DEF FcycSample
<1>2. t \in 0..(CounterWord * CounterWord - 1) /\ n \in Nat
  BY FcycAssumption
<1>3. price \in Nat
  BY FcycAssumption DEF Price, FcycInv, FcycTypeOK
<1>4. cycles \in 0..(CounterWord * CounterWord - 1)
  BY DEF FcycInv, FcycTypeOK
<1>5. now \in 0..(CounterWord * CounterWord - 1)
      /\ get_counter(access_counter(cycles), access_counter(now)) = t
  BY <1>2, <1>4, CounterExact
<1> HIDE DEF now
<1>6. get_comp_counter(access_counter(cycles), access_counter(now), n, price) = t - n * price
  BY <1>5 DEF get_comp_counter
<1> DEFINE cyc == t - n * price
<1>7. cyc \in Int
  BY <1>2, <1>3
<1> HIDE DEF cyc
<1>8. values' = add_sample(values, samplecount, cyc) /\ samples' = Append(samples, cyc)
  BY <1>1, <1>6 DEF cyc
<1>9. values \in Values /\ samplecount \in Nat /\ samples \in Seq(Int)
  BY DEF FcycInv, FcycTypeOK, Values
<1>10. Best(values, samplecount, samples)
  BY <1>1, KBestIsBest DEF FcycInv
<1>11. values' \in Values /\ samples' \in Seq(Int)
       /\ Best(values', samplecount + 1, samples')
  BY <1>7, <1>8, <1>9, <1>10, AddSampleBest
<1>12. KBest'
  <2>1. samplecount' = samplecount + 1
    BY <1>1
  <2>2. Best(values', samplecount', samples')
    BY <1>11, <2>1
  <2> QED BY <2>2 DEF KBest, Best, BestTo, Kept
<1>13. FcycTypeOK'
  BY <1>1, <1>3, <1>5, <1>9, <1>11 DEF FcycTypeOK, Values
<1> QED BY <1>12, <1>13 DEF FcycInv

LEMMA FcycNextInv == FcycInv /\ [FcycNext]_fcycVars => FcycInv'
<1> SUFFICES ASSUME FcycInv, [FcycNext]_fcycVars PROVE FcycInv'
  OBVIOUS
<1> USE DEF FcycInv
<1>1. CASE FcycStart
  <2>1. FcycTypeOK'
    BY <1>1, BestEmpty DEF FcycStart, FcycTypeOK, Values
  <2>2. Best(values', samplecount', samples')
    BY <1>1, BestEmpty DEF FcycStart
  <2>3. KBest'
    BY <2>2 DEF KBest, Best, BestTo, Kept
  <2> QED BY <2>1, <2>3
<1>2. CASE FcycEnd
  <2>1. FcycTypeOK'
    BY <1>2, BestEmpty DEF FcycEnd, FcycTypeOK, Values
  <2> QED BY <1>2, <2>1 DEF FcycEnd, KBest
<1>3. CASE FcycAbandon
  BY <1>3 DEF FcycAbandon, FcycTypeOK, KBest
<1>4. CASE \E t \in RunTime, n \in Ticks : FcycSample(t, n)
  BY <1>4, FcycSampleInv
<1>5. CASE UNCHANGED fcycVars
  <2>1. FcycTypeOK'
    BY <1>5 DEF fcycVars, FcycTypeOK
  <2>2. KBest'
    BY <1>5 DEF fcycVars, KBest, Kept
  <2> QED BY <2>1, <2>2
<1> QED BY <1>1, <1>2, <1>3, <1>4, <1>5 DEF FcycNext

\* A measurement keeps the fastest runs in order, each the exact number of cycles
\* of a run of its own without its ticks, also when the counter wraps around
\* (fcyc.c:67-88, 139-190, clock.c:55-72).
THEOREM FastestRuns == FcycSpec => []KBest
<1>1. FcycInit => FcycInv
  BY FcycInitInv
<1>2. FcycInv /\ [FcycNext]_fcycVars => FcycInv'
  BY FcycNextInv
<1>3. FcycInv => KBest
  BY DEF FcycInv
<1> QED BY <1>1, <1>2, <1>3, PTL DEF FcycSpec

----------------------------------------------------------------------------
(***************************************************************************)
(* The score                                                               *)
(***************************************************************************)

Recorded(r) ==
  /\ r = [weight |-> r.weight, ops |-> r.ops, valid |-> r.valid, util |-> r.util,
          secs |-> r.secs]
  /\ r.valid \in BOOLEAN

LibcPhase == phase \in {"libc", "libc valid", "libc speed"}
Over == phase \in {"end", "exit", "fault"}

ScoreInv ==
  /\ opts \in Options
  /\ i \in 1..Len(opts.files)
  /\ errors \in Nat
  /\ \E S : ranges \in Seq(S)
  /\ DOMAIN mm_stats = 1..Len(opts.files)
  /\ mm_stats = [j \in DOMAIN mm_stats |-> mm_stats[j]]
  /\ \A j \in 1..Len(opts.files) : Recorded(mm_stats[j])
  /\ timed_out \in 0..i
  /\ timed_out # 0 => /\ errors # 0 /\ alarm = "rung"
                      /\ phase \in {"read", "free", "results", "end", "exit"}
  /\ LibcPhase => timed_out = 0 /\ \A j \in 1..Len(opts.files) : ~mm_stats[j].valid
  /\ \A j \in 1..Len(opts.files) : j > i => ~mm_stats[j].valid
  /\ phase = "results" => i = Len(opts.files)
  /\ errors = 0 /\ ~LibcPhase /\ ~Over =>
       \A j \in 1..Len(opts.files) :
         j < i \/ (j = i /\ phase \in {"init util", "util", "speed", "free", "results"})
           => mm_stats[j].valid
  /\ timed_out # 0 =>
       \A j \in timed_out..Len(opts.files) :
         j = i => phase \in {"read", "exit"} \/ ~mm_stats[j].valid
  /\ timed_out # 0 =>
       \A j \in timed_out..Len(opts.files) : j < i => ~mm_stats[j].valid
  /\ ScoreIsEarned

----------------------------------------------------------------------------
LEMMA RangesKept ==
  ASSUME NEW S, NEW rs \in Seq(S), NEW lo
  PROVE  remove_range(rs, lo) \in Seq(S)
<1> DEFINE I == {k \in 1..Len(rs) : rs[k].lo = lo}
           j == IF I # {} THEN Min(I) ELSE 0
<1>1. j = 0 \/ j \in 1..Len(rs)
  <2>1. CASE I = {}
    BY <2>1
  <2>2. CASE I # {}
    <3>1. I \in SUBSET Nat
      OBVIOUS
    <3>2. PICK x \in I : \A y \in I : ~(y < x)
      BY <2>2, <3>1, LeastNatural
    <3>3. Min(I) \in I
      BY <3>1, <3>2 DEF Min
    <3> QED BY <2>2, <3>3
  <2> QED BY <2>1, <2>2
<1>a. remove_range(rs, lo) = IF j = 0 THEN rs ELSE RemoveAt(rs, j)
  BY DEF remove_range, SelectInSeq
<1>2. CASE j = 0
  BY <1>a, <1>2
<1>3. CASE j \in 1..Len(rs)
  <2>1. remove_range(rs, lo) = SubSeq(rs, 1, j - 1) \o SubSeq(rs, j + 1, Len(rs))
    <3> HIDE DEF j
    <3>1. j # 0
      BY <1>3
    <3>2. remove_range(rs, lo) = RemoveAt(rs, j)
      BY <1>a, <3>1
    <3> QED BY <3>2 DEF RemoveAt
  <2> HIDE DEF j
  <2>2. SubSeq(rs, 1, j - 1) \in Seq(S)
    BY <1>3
  <2>3. SubSeq(rs, j + 1, Len(rs)) \in Seq(S)
    BY <1>3
  <2> QED BY <2>1, <2>2, <2>3
<1> QED BY <1>1, <1>2, <1>3

LEMMA RangesExtended ==
  ASSUME NEW S, NEW rs \in Seq(S), NEW lo, NEW size, NEW index
  PROVE  \E T : WithRange(rs, lo, size, index) \in Seq(T)
<1> DEFINE r == [lo |-> lo, hi |-> lo + size - 1, index |-> index]
           T == S \cup {r}
<1>1. rs \in Seq(T) /\ r \in T
  BY SeqLarger
<1>2. WithRange(rs, lo, size, index) = <<r>> \o rs
  BY DEF WithRange
<1> HIDE DEF T, r
<1>3. <<r>> \in Seq(T)
  BY <1>1
<1>4. <<r>> \o rs \in Seq(T)
  BY <1>1, <1>3
<1> QED BY <1>2, <1>4

LEMMA ReportsNatural ==
  ASSUME \E S : ranges \in Seq(S)
  PROVE  /\ Reports(Surveyed) \in Nat
         /\ \A id : Reports({id}) \in Nat
<1>1. ASSUME NEW ids, IsFiniteSet(ids) PROVE Reports(ids) \in Nat
  <2>1. IsFiniteSet({id \in ids : IsBad(id)})
    BY <1>1, FS_Subset
  <2> QED BY <2>1, FS_CardinalityType DEF Reports
<1>2. IsFiniteSet(Surveyed)
  <2>1. PICK S : ranges \in Seq(S)
    OBVIOUS
  <2>2. IsFiniteSet(1..Len(ranges)) /\ DOMAIN ranges = 1..Len(ranges)
    BY <2>1, FS_Interval
  <2>3. IsFiniteSet({ranges[j].index : j \in DOMAIN ranges})
    <3> DEFINE D == DOMAIN ranges
               f == [j \in D |-> ranges[j].index]
               T == {ranges[j].index : j \in D}
    <3>1. f \in Surjection(D, T)
      BY DEF Surjection
    <3>2. IsFiniteSet(D)
      BY <2>2
    <3> HIDE DEF f, D, T
    <3>3. IsFiniteSet(T)
      BY <3>1, <3>2, FS_Surjection
    <3> QED BY <3>3 DEF T, D
  <2> QED BY <2>3, FS_EmptySet DEF Surveyed
<1>3. \A id : IsFiniteSet({id})
  BY FS_Singleton
<1> QED BY <1>1, <1>2, <1>3

StatsKept(s, k) ==
  /\ DOMAIN s = 1..k
  /\ s = [j \in DOMAIN s |-> s[j]]
  /\ \A j \in 1..k : Recorded(s[j])

RangesSeq == \E S : ranges \in Seq(S)

LEMMA OptionsTyped ==
  ASSUME ScoreInv
  PROVE  Len(opts.files) \in Nat /\ Len(opts.files) # 0
         /\ (opts.onetime => Len(opts.files) = 1)
         /\ opts.files \in Seq(DOMAIN File)
<1>1. opts.files \in Seq(DOMAIN File) /\ opts.files # <<>>
      /\ (opts.onetime => Len(opts.files) = 1)
  BY DriverAssumption DEF ScoreInv
<1> QED BY <1>1

RunPhase == {"init", "valid", "init util", "util", "speed", "hung"}

\* A step of an evaluation.
LEMMA RunStep ==
  ASSUME ScoreInv, phase \in RunPhase, opts' = opts, i' = i,
         timed_out' = timed_out, alarm' = alarm,
         errors' \in Nat, errors # 0 => errors' # 0, RangesSeq',
         StatsKept(mm_stats', Len(opts.files)),
         \A j \in 1..Len(opts.files) : j # i => mm_stats'[j].valid = mm_stats[j].valid,
         phase' \in RunPhase \cup {"free", "exit"},
         errors' = 0 /\ phase' \in {"init util", "util", "speed", "free"} =>
           mm_stats'[i].valid
  PROVE  ScoreInv'
<1>1. timed_out = 0
  BY DEF ScoreInv, RunPhase
<1>2. errors' = 0 => errors = 0
  BY DEF ScoreInv
<1>3. ~LibcPhase /\ ~Over /\ ~LibcPhase' /\ phase' # "results" /\ phase' # "end"
  BY DEF RunPhase, LibcPhase, Over
<1> DEFINE n == Len(opts.files)
<1>4. n \in Nat /\ n' = n
  BY OptionsTyped
<1>5. StatsKept(mm_stats, n)
  BY DEF ScoreInv, StatsKept
<1>6. i \in 1..n /\ \A j \in 1..n : j > i => ~mm_stats[j].valid
  BY DEF ScoreInv
<1>7. errors = 0 => \A j \in 1..n : j < i => mm_stats[j].valid
  BY <1>3 DEF ScoreInv
<1>a. \A j \in 1..n : j # i => mm_stats'[j].valid = mm_stats[j].valid
  OBVIOUS
<1> HIDE DEF n
<1>8. ASSUME NEW j \in 1..n, j > i PROVE ~mm_stats'[j].valid
  <2>0. n \in Nat /\ i \in 1..n /\ j \in 1..n /\ j > i
    BY <1>4, <1>6, <1>8
  <2>1. j # i
    BY ONLY <2>0
  <2>2. ~mm_stats[j].valid
    BY <1>6, <1>8
  <2> QED BY <1>a, <2>1, <2>2, Zenon
<1>9. errors' = 0 /\ ~Over' => \A j \in 1..n :
        j < i \/ (j = i /\ phase' \in {"init util", "util", "speed", "free", "results"})
          => mm_stats'[j].valid
  <2> SUFFICES ASSUME errors' = 0, ~Over', NEW j \in 1..n,
                      j < i \/ (j = i /\ phase' \in {"init util", "util", "speed", "free", "results"})
               PROVE  mm_stats'[j].valid
    OBVIOUS
  <2>1. CASE j < i
    BY <1>a, <1>2, <1>4, <1>6, <1>7, <2>1
  <2>2. CASE j = i
    <3>0. n \in Nat /\ i \in 1..n /\ j = i
      BY <1>4, <1>6, <2>2
    <3>a. ~(j < i)
      BY ONLY <3>0
    <3>1. phase' \in {"init util", "util", "speed", "free"}
      BY <1>3, <3>a
    <3>2. mm_stats'[i].valid
      BY <3>1
    <3> QED BY <2>2, <3>2
  <2> QED BY <2>1, <2>2
<1>10. ScoreIsEarned'
  BY <1>3 DEF ScoreIsEarned
<1>11. StatsKept(mm_stats', n)
  BY DEF n
<1>12. opts' \in Options /\ i' \in 1..n' /\ timed_out' = 0 /\ timed_out' \in 0..i'
  BY <1>1, <1>4, <1>6 DEF ScoreInv
<1> QED BY <1>1, <1>3, <1>4, <1>8, <1>9, <1>10, <1>11, <1>12 DEF ScoreInv, StatsKept, RangesSeq, n, Recorded

\* A statistic of one trace is set.
LEMMA RecordSet ==
  ASSUME NEW r, Recorded(r), NEW x
  PROVE  /\ x \in BOOLEAN => Recorded([r EXCEPT !.valid = x]) /\ [r EXCEPT !.valid = x].valid = x
         /\ Recorded([r EXCEPT !.util = x]) /\ [r EXCEPT !.util = x].valid = r.valid
         /\ Recorded([r EXCEPT !.secs = x]) /\ [r EXCEPT !.secs = x].valid = r.valid
         /\ Recorded([r EXCEPT !.weight = x]) /\ [r EXCEPT !.weight = x].valid = r.valid
         /\ Recorded([r EXCEPT !.ops = x]) /\ [r EXCEPT !.ops = x].valid = r.valid
<1> DEFINE q == [weight |-> r.weight, ops |-> r.ops, valid |-> r.valid, util |-> r.util,
                 secs |-> r.secs]
<1>1. r = q /\ r.valid \in BOOLEAN
  BY DEF Recorded
<1>2. [r EXCEPT !.valid = x] = [weight |-> r.weight, ops |-> r.ops, valid |-> x, util |-> r.util,
                 secs |-> r.secs]
  BY <1>1
<1>3. [r EXCEPT !.util = x] = [weight |-> r.weight, ops |-> r.ops, valid |-> r.valid, util |-> x,
                 secs |-> r.secs]
  BY <1>1
<1>4. [r EXCEPT !.secs = x] = [weight |-> r.weight, ops |-> r.ops, valid |-> r.valid, util |-> r.util,
                 secs |-> x]
  BY <1>1
<1>5. [r EXCEPT !.weight = x] = [weight |-> x, ops |-> r.ops, valid |-> r.valid, util |-> r.util,
                 secs |-> r.secs]
  BY <1>1
<1>6. [r EXCEPT !.ops = x] = [weight |-> r.weight, ops |-> x, valid |-> r.valid, util |-> r.util,
                 secs |-> r.secs]
  BY <1>1
<1> HIDE DEF q
<1>7. x \in BOOLEAN => Recorded([r EXCEPT !.valid = x]) /\ [r EXCEPT !.valid = x].valid = x
  BY <1>1, <1>2 DEF Recorded
<1>8. Recorded([r EXCEPT !.util = x]) /\ [r EXCEPT !.util = x].valid = r.valid
  BY <1>1, <1>3 DEF Recorded
<1>9. Recorded([r EXCEPT !.secs = x]) /\ [r EXCEPT !.secs = x].valid = r.valid
  BY <1>1, <1>4 DEF Recorded
<1>10. Recorded([r EXCEPT !.weight = x]) /\ [r EXCEPT !.weight = x].valid = r.valid
  BY <1>1, <1>5 DEF Recorded
<1>11. Recorded([r EXCEPT !.ops = x]) /\ [r EXCEPT !.ops = x].valid = r.valid
  BY <1>1, <1>6 DEF Recorded
<1> QED BY <1>7, <1>8, <1>9, <1>10, <1>11

StatsChanged(s, k, j, q, t) ==
  /\ StatsKept(t, k)
  /\ t[j] = q
  /\ \A l \in 1..k : l # j => t[l] = s[l]

LEMMA StatsSet ==
  ASSUME NEW s, NEW k, StatsKept(s, k), NEW j \in 1..k, NEW q, Recorded(q)
  PROVE  StatsChanged(s, k, j, q, [s EXCEPT ![j] = q])
<1> DEFINE t == [s EXCEPT ![j] = q]
<1>1. DOMAIN s = 1..k /\ s = [l \in 1..k |-> s[l]] /\ \A l \in 1..k : Recorded(s[l])
  BY DEF StatsKept
<1>2. t = [l \in 1..k |-> IF l = j THEN q ELSE s[l]]
  BY <1>1
<1>3. DOMAIN t = 1..k /\ t = [l \in DOMAIN t |-> t[l]]
  BY <1>2
<1>4. \A l \in 1..k : t[l] = IF l = j THEN q ELSE s[l]
  BY <1>2
<1>5. \A l \in 1..k : Recorded(t[l])
  BY <1>1, <1>4
<1> QED BY <1>3, <1>4, <1>5 DEF StatsKept, StatsChanged

\* A step of an evaluation that leaves the statistics alone.
LEMMA QuietStep ==
  ASSUME ScoreInv, phase \in RunPhase, opts' = opts, i' = i,
         timed_out' = timed_out, alarm' = alarm, mm_stats' = mm_stats,
         errors' \in Nat, errors # 0 => errors' # 0, RangesSeq',
         \/ phase' = phase
         \/ phase' \in {"exit", "hung"}
         \/ phase = "init" /\ phase' = "valid"
         \/ phase = "init util" /\ phase' = "util"
  PROVE  ScoreInv'
<1>1. StatsKept(mm_stats', Len(opts.files))
  BY DEF ScoreInv, StatsKept
<1>2. \A j \in 1..Len(opts.files) : j # i => mm_stats'[j].valid = mm_stats[j].valid
  OBVIOUS
<1>3. phase' \in RunPhase \cup {"free", "exit"}
  BY DEF RunPhase
<1>4. ASSUME errors' = 0, phase' \in {"init util", "util", "speed", "free"}
      PROVE  mm_stats'[i].valid
  <2>1. errors = 0 /\ phase \in {"init util", "util", "speed"}
    BY <1>4 DEF RunPhase, ScoreInv
  <2>2. i \in 1..Len(opts.files) /\ ~LibcPhase /\ ~Over
    BY <2>1 DEF ScoreInv, LibcPhase, Over
  <2>3. \A j \in 1..Len(opts.files) : j = i => mm_stats[j].valid
    BY <2>1, <2>2 DEF ScoreInv
  <2> QED BY <2>2, <2>3
<1> QED BY <1>1, <1>2, <1>3, <1>4, RunStep

\* A step in which eval_mm_valid returns.
LEMMA JudgedStep ==
  ASSUME ScoreInv, phase \in RunPhase, opts' = opts, i' = i,
         timed_out' = timed_out, alarm' = alarm,
         errors' \in Nat, errors # 0 => errors' # 0, RangesSeq',
         NEW valid \in BOOLEAN, Judged(valid), ~valid => errors' # 0
  PROVE  ScoreInv'
<1>1. StatsKept(mm_stats, Len(opts.files)) /\ i \in 1..Len(opts.files)
  BY DEF ScoreInv, StatsKept
<1> DEFINE q == [mm_stats[i] EXCEPT !.valid = valid]
<1>2. Recorded(q) /\ q.valid = valid
  <2>1. Recorded(mm_stats[i])
    BY <1>1 DEF StatsKept
  <2>2. /\ Recorded([mm_stats[i] EXCEPT !.valid = valid])
        /\ [mm_stats[i] EXCEPT !.valid = valid].valid = valid
    BY ONLY ZenonT(60), <2>1, RecordSet, valid \in BOOLEAN
  <2> QED BY ONLY <2>2 DEF q
<1>3. mm_stats' = [mm_stats EXCEPT ![i] = q]
  BY DEF Judged
<1> HIDE DEF q
<1>4. /\ StatsKept(mm_stats', Len(opts.files))
      /\ mm_stats'[i] = q
      /\ \A l \in 1..Len(opts.files) : l # i => mm_stats'[l] = mm_stats[l]
  <2>1. StatsChanged(mm_stats, Len(opts.files), i, q, [mm_stats EXCEPT ![i] = q])
    BY <1>1, <1>2, StatsSet
  <2> QED BY <1>3, <2>1 DEF StatsChanged
<1>5. phase' \in RunPhase \cup {"free", "exit"}
  BY DEF Judged, RunPhase
<1>6. errors' = 0 => mm_stats'[i].valid
  BY <1>2, <1>4
<1> QED BY <1>4, <1>5, <1>6, RunStep

SetNames == phase \in {"read", "init", "valid", "init util", "util", "speed", "free", "hung",
                       "libc", "libc valid", "libc speed", "results", "end", "exit", "fault"}

LEMMA RangesInv == ScoreInv => RangesSeq
BY DEF ScoreInv, RangesSeq

LEMMA ErrorsCount ==
  ASSUME ScoreInv, NEW n \in Nat, malloc_error(n)
  PROVE  errors' \in Nat /\ (errors # 0 => errors' # 0) /\ (n # 0 => errors' # 0)
<1>1. errors \in Nat
  BY DEF ScoreInv
<1>2. errors' = errors + n
  BY DEF malloc_error
<1> QED BY <1>1, <1>2

LEMMA StartValidStep == ScoreInv /\ StartValid => ScoreInv'
<1> SUFFICES ASSUME ScoreInv, StartValid PROVE ScoreInv'
  OBVIOUS
<1>1. phase = "init" /\ phase \in RunPhase
  BY DEF StartValid, RunPhase
<1>2. opts' = opts /\ i' = i /\ timed_out' = timed_out /\ alarm' = alarm
  BY DEF StartValid, fixed
<1>3. RangesSeq'
  <2>1. ranges' = <<>>
    BY DEF StartValid
  <2>2. <<>> \in Seq({})
    OBVIOUS
  <2> QED BY <2>1, <2>2 DEF RangesSeq
<1>4. CASE phase' = "valid" /\ UNCHANGED <<errors, mm_stats>>
  <2>1. errors' \in Nat /\ (errors # 0 => errors' # 0)
    BY <1>4 DEF ScoreInv
  <2> QED BY <1>1, <1>2, <1>3, <1>4, <2>1, QuietStep
<1>5. CASE malloc_error(1) /\ Judged(FALSE)
  <2>1. errors' \in Nat /\ (errors # 0 => errors' # 0) /\ errors' # 0
    BY <1>5, ErrorsCount
  <2> QED BY <1>1, <1>2, <1>3, <1>5, <2>1, JudgedStep
<1> QED BY <1>4, <1>5 DEF StartValid

\* What the three requests of eval_mm_valid have in common.
LEMMA RequestStep ==
  ASSUME ScoreInv, phase = "valid", opts' = opts, i' = i, timed_out' = timed_out,
         alarm' = alarm, RangesSeq',
         \/ \E n \in Nat : malloc_error(n) /\ UNCHANGED <<phase, mm_stats>>
         \/ \E n \in Nat : malloc_error(n + 1) /\ Judged(FALSE)
  PROVE  ScoreInv'
<1>1. phase \in RunPhase
  BY DEF RunPhase
<1>2. CASE \E n \in Nat : malloc_error(n) /\ UNCHANGED <<phase, mm_stats>>
  <2>1. errors' \in Nat /\ (errors # 0 => errors' # 0)
    BY <1>2, ErrorsCount
  <2> QED BY <1>1, <1>2, <2>1, QuietStep
<1>3. CASE \E n \in Nat : malloc_error(n + 1) /\ Judged(FALSE)
  <2>1. PICK n \in Nat : malloc_error(n + 1) /\ Judged(FALSE)
    BY <1>3
  <2>2. n + 1 \in Nat /\ n + 1 # 0
    OBVIOUS
  <2>3. errors' \in Nat /\ (errors # 0 => errors' # 0) /\ errors' # 0
    BY <2>1, <2>2, ErrorsCount
  <2> QED BY <1>1, <2>1, <2>3, JudgedStep
<1> QED BY <1>2, <1>3

LEMMA RangedSeq ==
  ASSUME NEW S, NEW rs \in Seq(S), NEW a, NEW size, NEW id, Ranged(rs, a, size, id)
  PROVE  RangesSeq'
<1>1. \E T : WithRange(rs, a.ptr, size, id) \in Seq(T)
  BY RangesExtended
<1> QED BY <1>1 DEF Ranged, RangesSeq

LEMMA ValidAllocStep == ScoreInv /\ ValidAlloc => ScoreInv'
<1> SUFFICES ASSUME ScoreInv, ValidAlloc PROVE ScoreInv'
  OBVIOUS
<1>1. phase = "valid" /\ opts' = opts /\ i' = i /\ timed_out' = timed_out /\ alarm' = alarm
  BY DEF ValidAlloc, fixed
<1>2. PICK S : ranges \in Seq(S)
  BY RangesInv DEF RangesSeq
<1>3. Reports(Surveyed) \in Nat
  BY <1>2, ReportsNatural
<1>4. PICK a \in Answers(op.index, op.size, NULL, 0) :
        /\ brk' = a.brk
        /\ IF a.ptr = NULL \/ Refused(ranges, a.ptr, op.size, a.brk)
           THEN /\ malloc_error(Reports(Surveyed) + 1)
                /\ Fail(a)
                /\ UNCHANGED ranges
           ELSE /\ malloc_error(Reports(Surveyed))
                /\ Ranged(ranges, a, op.size, op.index)
                /\ Keep(a, op.index, op.size, a.mem)
                /\ UNCHANGED <<phase, mm_stats>>
  BY DEF ValidAlloc
<1>5. CASE /\ malloc_error(Reports(Surveyed) + 1)
           /\ Fail(a)
           /\ UNCHANGED ranges
  <2>1. RangesSeq'
    BY <1>2, <1>5 DEF RangesSeq
  <2> QED BY <1>1, <1>3, <1>5, <2>1, RequestStep DEF Fail
<1>6. CASE /\ malloc_error(Reports(Surveyed))
           /\ Ranged(ranges, a, op.size, op.index)
           /\ UNCHANGED <<phase, mm_stats>>
  <2>1. RangesSeq'
    BY <1>2, <1>6, RangedSeq
  <2> QED BY <1>1, <1>3, <1>6, <2>1, RequestStep
<1> QED BY <1>4, <1>5, <1>6

LEMMA ValidReallocStep == ScoreInv /\ ValidRealloc => ScoreInv'
<1> SUFFICES ASSUME ScoreInv, ValidRealloc PROVE ScoreInv'
  OBVIOUS
<1> DEFINE id == op.index
           size == op.size
           old == block_sizes[id]
           before == Reports(Surveyed) + Reports({id})
           rest == remove_range(ranges, blocks[id])
<1>1. phase = "valid" /\ opts' = opts /\ i' = i /\ timed_out' = timed_out /\ alarm' = alarm
  BY DEF ValidRealloc, fixed
<1>2. PICK S : ranges \in Seq(S)
  BY RangesInv DEF RangesSeq
<1>3. before \in Nat
  <2>1. Reports(Surveyed) \in Nat /\ Reports({id}) \in Nat
    BY <1>2, ReportsNatural
  <2> QED BY <2>1
<1>4. rest \in Seq(S)
  BY <1>2, RangesKept
<1>5. PICK a \in Answers(id, size, blocks[id], old) :
          /\ brk' = a.brk
          /\ IF (a.ptr = NULL) # (size = 0)
             THEN /\ malloc_error(before + 1)
                  /\ Fail(a)
                  /\ UNCHANGED ranges
             ELSE IF size > 0 /\ Refused(rest, a.ptr, size, a.brk)
             THEN /\ malloc_error(before + 1)
                  /\ Fail(a)
                  /\ ranges' = rest
             ELSE /\ malloc_error(before +
                       IF opts.debug # 0
                          /\ Garbled(a.mem, a.ptr, Common(old, size), block_rand_base[id])
                       THEN 1 ELSE 0)
                  /\ Ranged(rest, a, size, id)
                  /\ Keep(a, id, size, a.mem)
                  /\ UNCHANGED <<phase, mm_stats>>
  BY DEF ValidRealloc
<1> HIDE DEF before, rest
<1>6. CASE /\ malloc_error(before + 1) /\ Fail(a) /\ (ranges' = ranges \/ ranges' = rest)
  <2>1. RangesSeq'
    BY <1>2, <1>4, <1>6 DEF RangesSeq
  <2> QED BY <1>1, <1>3, <1>6, <2>1, RequestStep DEF Fail
<1>7. CASE /\ malloc_error(before +
                       IF opts.debug # 0
                          /\ Garbled(a.mem, a.ptr, Common(old, size), block_rand_base[id])
                       THEN 1 ELSE 0)
           /\ Ranged(rest, a, size, id)
           /\ UNCHANGED <<phase, mm_stats>>
  <2>1. RangesSeq'
    BY <1>4, <1>7, RangedSeq
  <2> DEFINE n == before + IF opts.debug # 0
                          /\ Garbled(a.mem, a.ptr, Common(old, size), block_rand_base[id])
                       THEN 1 ELSE 0
  <2>2. n \in Nat /\ malloc_error(n)
    BY <1>3, <1>7
  <2> HIDE DEF n
  <2> QED BY <1>1, <1>7, <2>1, <2>2, RequestStep
<1> QED BY <1>5, <1>6, <1>7

LEMMA ValidFreeStep == ScoreInv /\ ValidFree => ScoreInv'
<1> SUFFICES ASSUME ScoreInv, ValidFree PROVE ScoreInv'
  OBVIOUS
<1>1. phase = "valid" /\ opts' = opts /\ i' = i /\ timed_out' = timed_out /\ alarm' = alarm
      /\ UNCHANGED <<phase, mm_stats>>
  BY DEF ValidFree, fixed
<1>2. PICK S : ranges \in Seq(S)
  BY RangesInv DEF RangesSeq
<1>3. Reports(Surveyed) \in Nat /\ Reports({op.index}) \in Nat
  BY <1>2, ReportsNatural
<1>4. CASE malloc_error(Reports(Surveyed)) /\ UNCHANGED ranges
  <2>1. RangesSeq'
    BY <1>2, <1>4 DEF RangesSeq
  <2> QED BY <1>1, <1>3, <1>4, <2>1, RequestStep
<1>5. CASE /\ malloc_error(Reports(Surveyed) + Reports({op.index}))
           /\ ranges' = remove_range(ranges, blocks[op.index])
  <2>1. RangesSeq'
    BY <1>2, <1>5, RangesKept DEF RangesSeq
  <2>2. Reports(Surveyed) + Reports({op.index}) \in Nat
    BY <1>3
  <2> QED BY <1>1, <1>5, <2>1, <2>2, RequestStep
<1> QED BY <1>4, <1>5 DEF ValidFree

LEMMA EndValidStep == ScoreInv /\ EndValid => ScoreInv'
<1> SUFFICES ASSUME ScoreInv, EndValid PROVE ScoreInv'
  OBVIOUS
<1>1. /\ phase \in RunPhase /\ opts' = opts /\ i' = i /\ timed_out' = timed_out
      /\ alarm' = alarm /\ errors' = errors /\ ranges' = ranges /\ Judged(TRUE)
  BY DEF EndValid, fixed, RunPhase
<1>2. errors' \in Nat /\ (errors # 0 => errors' # 0) /\ RangesSeq'
  BY <1>1 DEF ScoreInv, RangesSeq
<1> QED BY <1>1, <1>2, JudgedStep

\* The steps of eval_mm_util and eval_mm_speed that change no statistics, and a
\* call that does not come back.
LEMMA LaterQuietStep ==
  ASSUME ScoreInv,
         \/ StartUtil \/ UtilAlloc \/ UtilRealloc \/ UtilFree
         \/ \E t \in RunTime, n \in Ticks : SpeedRun(t, n)
         \/ SpeedFails \/ Hang
  PROVE  ScoreInv'
<1> DEFINE Same == /\ phase \in RunPhase /\ opts' = opts /\ i' = i
                   /\ timed_out' = timed_out /\ alarm' = alarm /\ mm_stats' = mm_stats
                   /\ errors' = errors /\ ranges' = ranges
                   /\ \/ phase' = phase
                      \/ phase' \in {"exit", "hung"}
                      \/ phase = "init" /\ phase' = "valid"
                      \/ phase = "init util" /\ phase' = "util"
<1>1. Same
  <2>1. CASE StartUtil
    BY <2>1 DEF StartUtil, fixed, RunPhase
  <2>2. CASE UtilAlloc
    BY <2>2 DEF UtilAlloc, fixed, RunPhase
  <2>3. CASE UtilRealloc
    BY <2>3 DEF UtilRealloc, fixed, RunPhase
  <2>4. CASE UtilFree
    BY <2>4 DEF UtilFree, fixed, RunPhase
  <2>5. CASE \E t \in RunTime, n \in Ticks : SpeedRun(t, n)
    BY <2>5 DEF SpeedRun, fixed, RunPhase
  <2>6. CASE SpeedFails
    BY <2>6 DEF SpeedFails, fixed, RunPhase
  <2>7. CASE Hang
    BY <2>7 DEF Hang, fixed, RunPhase
  <2> QED BY <2>1, <2>2, <2>3, <2>4, <2>5, <2>6, <2>7
<1>2. errors' \in Nat /\ (errors # 0 => errors' # 0) /\ RangesSeq'
  BY <1>1 DEF ScoreInv, RangesSeq
<1> QED BY <1>1, <1>2, QuietStep

\* A result other than the judgement is noted.
LEMMA NotedStep ==
  ASSUME ScoreInv, EndUtil \/ EndSpeed
  PROVE  ScoreInv'
<1> DEFINE Noted == \E q : /\ mm_stats' = [mm_stats EXCEPT ![i] = q] /\ Recorded(q)
                           /\ q.valid = mm_stats[i].valid
<1>1. /\ phase \in {"util", "speed"} /\ phase \in RunPhase /\ opts' = opts /\ i' = i /\ timed_out' = timed_out
      /\ alarm' = alarm /\ errors' = errors /\ ranges' = ranges
      /\ phase' \in {"speed", "free"}
  <2>1. CASE EndUtil
    BY <2>1 DEF EndUtil, fixed, RunPhase
  <2>2. CASE EndSpeed
    BY <2>2 DEF EndSpeed, fixed, RunPhase
  <2> QED BY <2>1, <2>2
<1>2. StatsKept(mm_stats, Len(opts.files)) /\ i \in 1..Len(opts.files)
  BY DEF ScoreInv, StatsKept
<1>3. Recorded(mm_stats[i])
  BY <1>2 DEF StatsKept
<1>4. Noted
  <2>1. CASE EndUtil
    <3> DEFINE q == [mm_stats[i] EXCEPT !.util = <<max_total_size, brk>>]
    <3>1. mm_stats' = [mm_stats EXCEPT ![i] = q]
      BY <2>1 DEF EndUtil
    <3>2. Recorded(q) /\ q.valid = mm_stats[i].valid
      BY <1>3, RecordSet
    <3> HIDE DEF q
    <3> QED BY <3>1, <3>2
  <2>2. CASE EndSpeed
    <3> DEFINE q == [mm_stats[i] EXCEPT !.secs = <<result>>]
    <3>1. mm_stats' = [mm_stats EXCEPT ![i] = q]
      BY <2>2 DEF EndSpeed
    <3>2. Recorded(q) /\ q.valid = mm_stats[i].valid
      BY <1>3, RecordSet
    <3> HIDE DEF q
    <3> QED BY <3>1, <3>2
  <2> QED BY <2>1, <2>2
<1>5. PICK q : /\ mm_stats' = [mm_stats EXCEPT ![i] = q] /\ Recorded(q)
               /\ q.valid = mm_stats[i].valid
  BY <1>4
<1>6. StatsChanged(mm_stats, Len(opts.files), i, q, mm_stats')
  BY <1>2, <1>5, StatsSet
<1>7. /\ StatsKept(mm_stats', Len(opts.files))
      /\ \A l \in 1..Len(opts.files) : l # i => mm_stats'[l].valid = mm_stats[l].valid
      /\ mm_stats'[i].valid = mm_stats[i].valid
  BY <1>5, <1>6 DEF StatsChanged
<1>8. errors' \in Nat /\ (errors # 0 => errors' # 0) /\ RangesSeq'
  BY <1>1 DEF ScoreInv, RangesSeq
<1>9. errors' = 0 => mm_stats'[i].valid
  <2> SUFFICES ASSUME errors' = 0 PROVE mm_stats'[i].valid
    OBVIOUS
  <2>1. errors = 0 /\ ~LibcPhase /\ ~Over
    BY <1>1 DEF LibcPhase, Over
  <2>2. \A j \in 1..Len(opts.files) : j = i => mm_stats[j].valid
    BY <1>1, <2>1 DEF ScoreInv
  <2>3. mm_stats[i].valid
    BY <1>2, <2>2
  <2> QED BY <1>7, <2>3, Zenon
<1>10. phase' \in RunPhase \cup {"free", "exit"}
  BY <1>1 DEF RunPhase
<1> QED BY <1>1, <1>7, <1>8, <1>9, <1>10, RunStep

LEMMA FreeTraceStep == ScoreInv /\ FreeTrace => ScoreInv'
<1> SUFFICES ASSUME ScoreInv, FreeTrace PROVE ScoreInv'
  OBVIOUS
<1> DEFINE n == Len(opts.files)
<1>1. n \in Nat /\ n # 0 /\ (opts.onetime => n = 1) /\ i \in 1..n /\ timed_out \in 0..i
  BY OptionsTyped DEF ScoreInv
<1>2. /\ phase = "free" /\ ~LibcPhase /\ ~Over
      /\ UNCHANGED <<opts, ranges, errors, mm_stats, alarm, timed_out>>
      /\ \/ phase' = "results" /\ i' = i /\ ((opts.onetime /\ timed_out = 0) \/ i = n)
         \/ phase' = "read" /\ i' = i + 1 /\ i # n
  BY DEF FreeTrace, fixed, LibcPhase, Over
<1>3. phase' \in {"read", "results"} /\ ~LibcPhase' /\ ~Over' /\ n' = n
  BY <1>2 DEF LibcPhase, Over
<1>4. i' \in 1..n /\ timed_out' \in 0..i' /\ i <= i' /\ (phase' = "results" => i' = n)
      /\ (phase' = "read" => i' = i + 1) /\ (phase' = "results" => i' = i)
  <2> HIDE DEF n
  <2>1. CASE phase' = "results" /\ i' = i /\ ((opts.onetime /\ timed_out = 0) \/ i = n)
    <3>1. i = n
      BY <1>1, <2>1
    <3> QED BY <1>1, <1>2, <2>1, <3>1
  <2>2. CASE phase' = "read" /\ i' = i + 1 /\ i # n
    BY <1>1, <1>2, <2>2
  <2> QED BY <1>2, <2>1, <2>2
<1>5. /\ \A j \in 1..n : j > i => ~mm_stats[j].valid
      /\ errors = 0 => \A j \in 1..n : j < i \/ j = i => mm_stats[j].valid
      /\ timed_out # 0 =>
           \A j \in timed_out..n : j = i => phase \in {"read", "exit"} \/ ~mm_stats[j].valid
      /\ timed_out # 0 => \A j \in timed_out..n : j < i => ~mm_stats[j].valid
      /\ timed_out # 0 => errors # 0 /\ alarm = "rung"
  BY <1>2 DEF ScoreInv
<1> HIDE DEF n
<1>6. \A j \in 1..n : j > i' => ~mm_stats[j].valid
  <2> SUFFICES ASSUME NEW j \in 1..n, j > i' PROVE ~mm_stats[j].valid
    OBVIOUS
  <2>1. j > i
    BY <1>1, <1>4
  <2> QED BY <1>5, <2>1
<1>7. errors = 0 => \A j \in 1..n : j < i' \/ (j = i' /\ phase' = "results") => mm_stats[j].valid
  <2> SUFFICES ASSUME errors = 0, NEW j \in 1..n, j < i' \/ (j = i' /\ phase' = "results")
               PROVE  mm_stats[j].valid
    OBVIOUS
  <2>1. j < i \/ j = i
    BY <1>1, <1>3, <1>4
  <2> QED BY <1>5, <2>1
<1>8. timed_out # 0 => \A j \in timed_out..n : j < i' => ~mm_stats[j].valid
  <2> SUFFICES ASSUME timed_out # 0, NEW j \in timed_out..n, j < i'
               PROVE  ~mm_stats[j].valid
    OBVIOUS
  <2>1. j < i \/ j = i
    BY <1>1, <1>3, <1>4
  <2> QED BY <1>2, <1>5, <2>1
<1>9. timed_out # 0 => \A j \in timed_out..n : j = i' => phase' = "read" \/ ~mm_stats[j].valid
  <2> SUFFICES ASSUME timed_out # 0, NEW j \in timed_out..n, j = i', phase' # "read"
               PROVE  ~mm_stats[j].valid
    OBVIOUS
  <2>1. j = i
    BY <1>3, <1>4
  <2> QED BY <1>2, <1>5, <2>1
<1>10. ScoreIsEarned'
  BY <1>3 DEF ScoreIsEarned
<1>11. StatsKept(mm_stats, n) /\ RangesSeq /\ errors \in Nat
  BY DEF ScoreInv, StatsKept, RangesSeq, n
<1>12. StatsKept(mm_stats', n') /\ RangesSeq' /\ errors' \in Nat /\ opts' \in Options
  BY <1>2, <1>3, <1>11 DEF StatsKept, RangesSeq, ScoreInv, n, Recorded
<1> QED BY <1>2, <1>3, <1>4, <1>5, <1>6, <1>7, <1>8, <1>9, <1>10, <1>12
        DEF ScoreInv, StatsKept, RangesSeq, n

LEMMA ReadTraceStep == ScoreInv /\ ReadTrace => ScoreInv'
<1> SUFFICES ASSUME ScoreInv, ReadTrace PROVE ScoreInv'
  OBVIOUS
<1> DEFINE n == Len(opts.files)
<1>1. n \in Nat /\ i \in 1..n /\ timed_out \in 0..i /\ opts \in Options /\ errors \in Nat
  BY OptionsTyped DEF ScoreInv
<1>2. /\ phase = "read" /\ ~LibcPhase /\ ~Over
      /\ UNCHANGED <<opts, i, ranges, errors, alarm, timed_out>>
  BY DEF ReadTrace, fixed, LibcPhase, Over
<1>3. StatsKept(mm_stats, n) /\ RangesSeq /\ StatsKept(mm_stats, n)'
      /\ (\A j \in 1..n : j # i => mm_stats'[j].valid = mm_stats[j].valid)
      /\ \/ phase' = "exit" /\ mm_stats' = mm_stats
         \/ timed_out = 0 /\ phase' = "init"
         \/ timed_out # 0 /\ phase' = "free" /\ ~mm_stats'[i].valid
  <2>1. StatsKept(mm_stats, n) /\ RangesSeq
    BY DEF ScoreInv, StatsKept, RangesSeq
  <2>2. CASE Legal(trace)
    <3> DEFINE r == mm_stats[i]
               v == Tried /\ r.valid
               q == [weight |-> trace.weight, ops |-> trace.num_ops, valid |-> v,
                     util |-> r.util, secs |-> r.secs]
    <3>1. Recorded(r) /\ i \in DOMAIN mm_stats
      BY <1>1, <2>1 DEF StatsKept
    <3>2. mm_stats' = [mm_stats EXCEPT ![i] = q]
      <4> DEFINE e == [r EXCEPT !.weight = trace.weight, !.ops = trace.num_ops,
                             !.valid = Tried /\ r.valid]
      <4>1. mm_stats' = [mm_stats EXCEPT ![i] = e]
        BY <2>2 DEF ReadTrace
      <4>2. e = q
        <5>1. r = [weight |-> r.weight, ops |-> r.ops, valid |-> r.valid, util |-> r.util,
                   secs |-> r.secs]
          BY <3>1 DEF Recorded
        <5> HIDE DEF r, v
        <5>2. e = [r EXCEPT !.weight = trace.weight, !.ops = trace.num_ops, !.valid = v]
          BY DEF v
        <5> HIDE DEF e
        <5> QED BY <5>1, <5>2
      <4> HIDE DEF e, q
      <4> QED BY <4>1, <4>2
    <3>3. Recorded(q) /\ q.valid = v
      BY <3>1 DEF Recorded
    <3>4. Tried <=> timed_out = 0
      BY DEF Tried
    <3>5. timed_out # 0 => v = FALSE
      BY <3>4
    <3> HIDE DEF q, v, n
    <3>6. StatsChanged(mm_stats, n, i, q, mm_stats')
      BY <1>1, <2>1, <3>2, <3>3, StatsSet
    <3>7. /\ StatsKept(mm_stats', n)
          /\ mm_stats'[i].valid = v
          /\ \A l \in 1..n : l # i => mm_stats'[l].valid = mm_stats[l].valid
      BY <3>3, <3>6 DEF StatsChanged
    <3>8. n' = n
      BY <1>2 DEF n
    <3>9. phase' = IF timed_out = 0 THEN "init" ELSE "free"
      BY <2>2, <3>4 DEF ReadTrace
    <3>10. StatsKept(mm_stats, n)'
      BY <3>7, <3>8 DEF StatsKept, Recorded
    <3>11. timed_out # 0 => ~mm_stats'[i].valid
      <4> SUFFICES ASSUME timed_out # 0 PROVE ~mm_stats'[i].valid
        OBVIOUS
      <4>1. v = FALSE
        BY <3>5
      <4> QED BY <3>7, <4>1, Zenon
    <3> QED BY <2>1, <3>7, <3>9, <3>10, <3>11
  <2>3. CASE ~Legal(trace)
    <3>1. phase' = "exit" /\ mm_stats' = mm_stats
      BY <2>3 DEF ReadTrace
    <3>2. StatsKept(mm_stats, n)'
      BY <1>2, <2>1, <3>1 DEF StatsKept, Recorded
    <3> QED BY <2>1, <3>1, <3>2
  <2> QED BY <2>2, <2>3
<1>4. n' = n /\ ~LibcPhase' /\ phase' \in {"exit", "init", "free"} /\ phase' # "results"
  BY <1>2, <1>3 DEF LibcPhase
<1>5. /\ \A j \in 1..n : j > i => ~mm_stats[j].valid
      /\ errors = 0 => \A j \in 1..n : j < i => mm_stats[j].valid
      /\ timed_out # 0 => \A j \in timed_out..n : j < i => ~mm_stats[j].valid
      /\ timed_out # 0 => errors # 0 /\ alarm = "rung"
  BY <1>2 DEF ScoreInv
<1> DEFINE s == mm_stats'
<1>a. /\ \A j \in 1..n : j # i => (s[j].valid <=> mm_stats[j].valid)
      /\ timed_out # 0 => phase' = "exit" \/ (phase' = "free" /\ ~s[i].valid)
      /\ timed_out = 0 => phase' \in {"exit", "init"}
  BY <1>3
<1> HIDE DEF n, s
<1>6. \A j \in 1..n : j > i => ~s[j].valid
  <2> SUFFICES ASSUME NEW j \in 1..n, j > i PROVE ~s[j].valid
    OBVIOUS
  <2>1. j # i
    BY <1>1
  <2> QED BY <1>a, <1>5, <2>1
<1>7. errors = 0 /\ ~Over' => \A j \in 1..n : j < i \/ (j = i /\ phase' = "free") => s[j].valid
  <2> SUFFICES ASSUME errors = 0, NEW j \in 1..n, j < i \/ (j = i /\ phase' = "free")
               PROVE  s[j].valid
    OBVIOUS
  <2>1. phase' # "free"
    BY <1>5, <1>a
  <2>2. j < i /\ j # i
    BY <1>1, <2>1
  <2> QED BY <1>a, <1>5, <2>2
<1>8. timed_out # 0 => \A j \in timed_out..n : j < i => ~s[j].valid
  <2> SUFFICES ASSUME timed_out # 0, NEW j \in timed_out..n, j < i
               PROVE  ~s[j].valid
    OBVIOUS
  <2>1. j # i /\ j \in 1..n
    BY <1>1
  <2> QED BY <1>a, <1>5, <2>1
<1>9. timed_out # 0 => \A j \in timed_out..n : j = i => phase' = "exit" \/ ~s[j].valid
  BY <1>a
<1>10. ScoreIsEarned'
  BY <1>4 DEF ScoreIsEarned
<1>11. StatsKept(s, n) /\ RangesSeq'
  BY <1>2, <1>3, <1>4 DEF RangesSeq, s, StatsKept, Recorded
<1>12. /\ opts' \in Options /\ i' \in 1..n /\ timed_out' \in 0..i' /\ errors' \in Nat
       /\ timed_out' # 0 => /\ errors' # 0 /\ alarm' = "rung"
                            /\ phase' \in {"read", "free", "results", "end", "exit"}
  BY <1>1, <1>2, <1>4, <1>5, <1>a
<1>13. errors' = 0 /\ ~LibcPhase' /\ ~Over' =>
         \A j \in 1..n :
           j < i' \/ (j = i' /\ phase' \in {"init util", "util", "speed", "free", "results"})
             => s[j].valid
  BY <1>2, <1>4, <1>7
<1> QED BY <1>2, <1>4, <1>6, <1>8, <1>9, <1>10, <1>11, <1>12, <1>13
        DEF ScoreInv, StatsKept, RangesSeq, n, s

\* A step that changes no statistics and sets no result, seen from outside of the
\* evaluation of a trace.
LEMMA OuterStep ==
  ASSUME ScoreInv, opts' = opts, mm_stats' = mm_stats, ranges' = ranges,
         phase' # "end", phase' # "results", errors' \in Nat,
         i' \in 1..Len(opts.files), timed_out' \in 0..i',
         timed_out' # 0 => /\ errors' # 0 /\ alarm' = "rung"
                           /\ phase' \in {"read", "exit"},
         LibcPhase' => timed_out' = 0 /\ LibcPhase,
         \A j \in 1..Len(opts.files) : j > i' => ~mm_stats[j].valid,
         errors' = 0 /\ ~LibcPhase' /\ ~Over' =>
           phase' = "read" /\ \A j \in 1..Len(opts.files) : j < i' => mm_stats[j].valid,
         timed_out' # 0 => \A j \in timed_out'..Len(opts.files) : j < i' => ~mm_stats[j].valid
  PROVE  ScoreInv'
<1> DEFINE n == Len(opts.files)
<1>1. StatsKept(mm_stats, n) /\ RangesSeq /\ opts \in Options
  BY DEF ScoreInv, StatsKept, RangesSeq
<1>2. n' = n /\ opts' \in Options
  BY <1>1
<1>3. StatsKept(mm_stats', n) /\ RangesSeq'
  BY <1>1 DEF StatsKept, RangesSeq, Recorded
<1>4. ScoreIsEarned'
  BY DEF ScoreIsEarned
<1>5. LibcPhase' => \A j \in 1..n : ~mm_stats[j].valid
  BY DEF ScoreInv
<1>6. errors' = 0 /\ ~LibcPhase' /\ ~Over' =>
         \A j \in 1..n :
           j < i' \/ (j = i' /\ phase' \in {"init util", "util", "speed", "free", "results"})
             => mm_stats[j].valid
  OBVIOUS
<1>7. timed_out' # 0 =>
        \A j \in timed_out'..n : j = i' => phase' \in {"read", "exit"} \/ ~mm_stats[j].valid
  OBVIOUS
<1> QED BY <1>2, <1>3, <1>4, <1>5, <1>6, <1>7 DEF ScoreInv, StatsKept, RangesSeq

LEMMA RingStep == ScoreInv /\ Ring => ScoreInv'
<1> SUFFICES ASSUME ScoreInv, Ring PROVE ScoreInv'
  OBVIOUS
<1> DEFINE n == Len(opts.files)
<1>1. n \in Nat /\ i \in 1..n /\ timed_out \in 0..i /\ errors \in Nat
      /\ (alarm = "set" => timed_out = 0)
      /\ \A j \in 1..n : j > i => ~mm_stats[j].valid
  BY OptionsTyped DEF ScoreInv
<1>2. CASE RingInTests
  <2>1. /\ opts' = opts /\ mm_stats' = mm_stats /\ ranges' = ranges /\ phase' = "read"
        /\ errors' = 1 /\ i' = i /\ timed_out' = i /\ alarm' = "rung"
    BY <1>2 DEF RingInTests, fixed
  <2>2. timed_out' \in 0..i' /\ ~LibcPhase' /\ errors' # 0 /\ errors' \in Nat
    BY <1>1, <2>1 DEF LibcPhase
  <2>3. \A j \in timed_out'..n : ~(j < i')
    BY <1>1, <2>1
  <2> QED BY <1>1, <2>1, <2>2, <2>3, OuterStep
<1>3. CASE RingOutside
  <2>1. /\ opts' = opts /\ mm_stats' = mm_stats /\ ranges' = ranges /\ phase' = "fault"
        /\ errors' = errors /\ i' = i /\ timed_out' = timed_out /\ alarm = "set"
    BY <1>3 DEF RingOutside, fixed
  <2>2. timed_out' = 0 /\ ~LibcPhase' /\ Over'
    BY <1>1, <2>1 DEF LibcPhase, Over
  <2> QED BY <1>1, <2>1, <2>2, OuterStep
<1> QED BY <1>2, <1>3 DEF Ring

LEMMA LibcStep == ScoreInv /\ (LibcRead \/ LibcValid \/ LibcSpeed) => ScoreInv'
<1> SUFFICES ASSUME ScoreInv, LibcRead \/ LibcValid \/ LibcSpeed PROVE ScoreInv'
  OBVIOUS
<1> DEFINE n == Len(opts.files)
<1>1. n \in Nat /\ n # 0 /\ i \in 1..n /\ errors \in Nat
  BY OptionsTyped DEF ScoreInv
<1>2. /\ opts' = opts /\ mm_stats' = mm_stats /\ ranges' = ranges
      /\ errors' = errors /\ timed_out' = timed_out /\ LibcPhase
      /\ \/ phase' \in {"libc", "libc valid", "libc speed", "exit"} /\ i' = i
         \/ phase' = "libc" /\ i # n /\ i' = i + 1
         \/ phase' = "read" /\ i' = 1
  <2>1. CASE LibcRead
    BY <2>1 DEF LibcRead, fixed, LibcPhase
  <2>2. CASE LibcValid
    BY <2>2 DEF LibcValid, fixed, LibcPhase
  <2>3. CASE LibcSpeed
    BY <2>3 DEF LibcSpeed, fixed, LibcPhase
  <2> QED BY <2>1, <2>2, <2>3
<1>3. timed_out = 0 /\ \A j \in 1..n : ~mm_stats[j].valid
  BY <1>2 DEF ScoreInv
<1>4. i' \in 1..n /\ phase' # "end" /\ phase' # "results"
      /\ (~LibcPhase' /\ ~Over' => phase' = "read" /\ i' = 1)
  <2> HIDE DEF n
  <2>1. i' \in 1..n
    <3>1. i' = i \/ (i # n /\ i' = i + 1) \/ i' = 1
      BY <1>2
    <3>2. 1 \in 1..n
      BY <1>1
    <3>3. i # n => i + 1 \in 1..n
      BY <1>1
    <3> QED BY <1>1, <3>1, <3>2, <3>3
  <2>2. phase' # "end" /\ phase' # "results"
    BY <1>2
  <2>3. ~LibcPhase' /\ ~Over' => phase' = "read" /\ i' = 1
    BY <1>2 DEF LibcPhase, Over
  <2> QED BY <2>1, <2>2, <2>3
<1>5. ~LibcPhase' /\ ~Over' => \A j \in 1..n : ~(j < i')
  BY <1>4
<1>6. timed_out' = 0 /\ timed_out' \in 0..i'
  <2> HIDE DEF n
  <2>1. timed_out' = 0
    BY <1>2, <1>3
  <2>2. i' \in Nat
    BY <1>1, <1>4
  <2> QED BY <2>1, <2>2
<1> QED BY <1>1, <1>2, <1>3, <1>4, <1>5, <1>6, OuterStep

LEMMA ReportStep == ScoreInv /\ Report => ScoreInv'
<1> SUFFICES ASSUME ScoreInv, Report PROVE ScoreInv'
  OBVIOUS
<1> DEFINE n == Len(opts.files)
<1>1. n \in Nat /\ i = n /\ timed_out \in 0..i /\ errors \in Nat /\ opts \in Options
      /\ i \in 1..n
  BY OptionsTyped DEF ScoreInv, Report
<1>2. /\ phase = "results" /\ ~LibcPhase /\ ~Over /\ phase' = "end" /\ Over' /\ ~LibcPhase'
      /\ UNCHANGED <<opts, i, ranges, errors, mm_stats, alarm, timed_out>>
      /\ report'.scored = (errors = 0)
  BY DEF Report, LibcPhase, Over
<1>3. StatsKept(mm_stats, n) /\ RangesSeq
  BY DEF ScoreInv, StatsKept, RangesSeq
<1>4. /\ errors = 0 => \A j \in 1..n : j < i \/ j = i => mm_stats[j].valid
      /\ timed_out # 0 => \A j \in timed_out..n : j < i => ~mm_stats[j].valid
      /\ timed_out # 0 => \A j \in timed_out..n : j = i => ~mm_stats[j].valid
      /\ timed_out # 0 => errors # 0 /\ alarm = "rung"
      /\ \A j \in 1..n : j > i => ~mm_stats[j].valid
  BY <1>2 DEF ScoreInv
<1>5. errors = 0 => \A j \in 1..n : mm_stats[j].valid
  <2> HIDE DEF n
  <2> SUFFICES ASSUME errors = 0, NEW j \in 1..n PROVE mm_stats[j].valid
    OBVIOUS
  <2>1. j < i \/ j = i
    BY <1>1
  <2> QED BY <1>4, <2>1
<1>6. timed_out # 0 => \A j \in timed_out..n : ~mm_stats[j].valid
  <2> HIDE DEF n
  <2> SUFFICES ASSUME timed_out # 0, NEW j \in timed_out..n PROVE ~mm_stats[j].valid
    OBVIOUS
  <2>1. j < i \/ j = i
    BY <1>1
  <2> QED BY <1>4, <2>1
<1>7. n' = n /\ mm_stats' = mm_stats /\ timed_out' = timed_out /\ DOMAIN mm_stats = 1..n
  BY <1>2, <1>3 DEF StatsKept
<1>8. ScoreIsEarned'
  BY <1>2, <1>4, <1>5, <1>6, <1>7 DEF ScoreIsEarned
<1>9. StatsKept(mm_stats', n) /\ RangesSeq'
  BY <1>2, <1>3 DEF StatsKept, RangesSeq, Recorded
<1> QED BY <1>1, <1>2, <1>4, <1>6, <1>7, <1>8, <1>9 DEF ScoreInv, StatsKept, RangesSeq

LEMMA ScoreInit == Init => ScoreInv
<1> SUFFICES ASSUME Init PROVE ScoreInv
  OBVIOUS
<1> DEFINE n == Len(opts.files)
<1>1. opts \in Options /\ opts.files \in Seq(DOMAIN File) /\ opts.files # <<>>
  BY DriverAssumption DEF Init
<1>2. n \in Nat /\ n # 0 /\ DOMAIN opts.files = 1..n
  BY <1>1
<1>3. mm_stats = [j \in 1..n |-> NoStats]
  BY <1>2 DEF Init
<1>4. Recorded(NoStats) /\ NoStats.valid = FALSE
  BY DEF Recorded, NoStats
<1>5. StatsKept(mm_stats, n) /\ \A j \in 1..n : ~mm_stats[j].valid
  BY <1>3, <1>4 DEF StatsKept
<1>6. ranges = <<>> /\ <<>> \in Seq({})
  BY DEF Init
<1>7. i = 1 /\ errors = 0 /\ timed_out = 0 /\ phase \in {"libc", "read"}
  BY DEF Init
<1>8. ScoreIsEarned
  BY <1>7 DEF ScoreIsEarned
<1>9. i \in 1..n /\ timed_out \in 0..i /\ \A j \in 1..n : ~(j < i)
  BY <1>2, <1>7
<1> QED BY <1>1, <1>5, <1>6, <1>7, <1>8, <1>9 DEF ScoreInv, StatsKept, LibcPhase

LEMMA ScoreStutters == ScoreInv /\ UNCHANGED vars => ScoreInv'
<1> SUFFICES ASSUME ScoreInv, UNCHANGED vars PROVE ScoreInv'
  OBVIOUS
<1>1. UNCHANGED <<opts, i, phase, ranges, errors, mm_stats, alarm, timed_out, report>>
  BY DEF vars, driverVars
<1>2. StatsKept(mm_stats, Len(opts.files)) /\ RangesSeq
  BY DEF ScoreInv, StatsKept, RangesSeq
<1>3. StatsKept(mm_stats', Len(opts'.files)) /\ RangesSeq'
  BY <1>1, <1>2 DEF StatsKept, RangesSeq, Recorded
<1>4. ScoreIsEarned'
  BY <1>1 DEF ScoreInv, ScoreIsEarned
<1> QED BY <1>1, <1>3, <1>4 DEF ScoreInv, StatsKept, RangesSeq, LibcPhase, Over

LEMMA ScoreNext == ScoreInv /\ [Next]_vars => ScoreInv'
<1> SUFFICES ASSUME ScoreInv, [Next]_vars PROVE ScoreInv'
  OBVIOUS
<1>1. CASE Evaluation
  <2>1. CASE ReadTrace
    BY <2>1, ReadTraceStep
  <2>2. CASE FreeTrace
    BY <2>2, FreeTraceStep
  <2>3. CASE StartValid \/ EndValid
    BY <2>3, StartValidStep, EndValidStep
  <2>4. CASE ValidAlloc \/ ValidRealloc \/ ValidFree
    BY <2>4, ValidAllocStep, ValidReallocStep, ValidFreeStep
  <2>5. CASE \/ StartUtil \/ UtilAlloc \/ UtilRealloc \/ UtilFree
             \/ \E t \in RunTime, n \in Ticks : SpeedRun(t, n)
             \/ SpeedFails
    BY <2>5, LaterQuietStep
  <2>6. CASE EndUtil \/ EndSpeed
    BY <2>6, NotedStep
  <2>7. CASE LibcRead \/ LibcValid \/ LibcSpeed
    BY <2>7, LibcStep
  <2>8. CASE Report
    BY <2>8, ReportStep
  <2> QED BY <1>1, <2>1, <2>2, <2>3, <2>4, <2>5, <2>6, <2>7, <2>8 DEF Evaluation
<1>2. CASE Hang
  BY <1>2, LaterQuietStep
<1>3. CASE Ring
  BY <1>3, RingStep
<1>4. CASE UNCHANGED vars
  BY <1>4, ScoreStutters
<1> QED BY <1>1, <1>2, <1>3, <1>4 DEF Next

LEMMA DriverMeasures == [Next]_vars => [FcycNext]_fcycVars
<1> SUFFICES ASSUME [Next]_vars, fcycVars' # fcycVars PROVE FcycNext
  OBVIOUS
<1>1. CASE EndUtil
  BY <1>1 DEF EndUtil, FcycNext
<1>2. CASE \E t \in RunTime, n \in Ticks : SpeedRun(t, n)
  BY <1>2 DEF SpeedRun, FcycNext
<1>3. CASE EndSpeed
  BY <1>3 DEF EndSpeed, FcycNext
<1>4. CASE RingInTests
  BY <1>4 DEF RingInTests, FcycNext
<1>5. CASE \/ ReadTrace \/ FreeTrace \/ StartValid \/ ValidAlloc \/ ValidRealloc
           \/ ValidFree \/ EndValid \/ StartUtil \/ UtilAlloc \/ UtilRealloc \/ UtilFree
           \/ SpeedFails \/ LibcRead \/ LibcValid \/ LibcSpeed \/ Report \/ Hang
           \/ RingOutside
  <2>1. fcycVars' = fcycVars
    BY <1>5 DEF ReadTrace, FreeTrace, StartValid, ValidAlloc, ValidRealloc,
           ValidFree, EndValid, StartUtil, UtilAlloc, UtilRealloc, UtilFree,
           SpeedFails, LibcRead, LibcValid, LibcSpeed, Report, Hang, RingOutside
  <2> QED BY <2>1
<1> QED BY <1>1, <1>2, <1>3, <1>4, <1>5 DEF Next, Evaluation, Ring, vars

\* A score is printed only if each trace was judged valid, and never after a
\* time out, which leaves no valid trace from where it came on: whatever the
\* allocator answers and whenever the alarm rings (mdriver.c:192-240, 446-487).
THEOREM ScoreAlwaysEarned == Spec => []ScoreIsEarned
<1>1. ScoreInv => ScoreIsEarned
  BY DEF ScoreInv
<1> QED BY <1>1, ScoreInit, ScoreNext, PTL DEF Spec

\* The driver measures with fcyc and leaves its state alone otherwise, also when
\* the alarm jumps out of a measurement: its values are the fastest runs
\* (mdriver.c:220-229, fcyc.c:67-88).
THEOREM DriverFastestRuns == Spec => []KBest
<1>1. Init => FcycInv
  BY FcycInitInv DEF Init
<1>2. FcycInv /\ [Next]_vars => FcycInv'
  BY FcycNextInv, DriverMeasures
<1>3. FcycInv => KBest
  BY DEF FcycInv
<1> QED BY <1>1, <1>2, <1>3, PTL DEF Spec

----------------------------------------------------------------------------
(***************************************************************************)
(* The requests of a trace                                                 *)
(***************************************************************************)

\* A set of numbers up to n has a greatest one.
LEMMA GreatestNatural ==
  ASSUME NEW n \in Nat, NEW I \in SUBSET (1..n), I # {}
  PROVE  Max(I) \in I /\ \A y \in I : y <= Max(I)
<1> DEFINE T == {n - x : x \in I}
<1>1. T \in SUBSET Nat /\ T # {}
  <2>1. \A x \in I : n - x \in Nat
    OBVIOUS
  <2>2. T \subseteq Nat
    BY <2>1
  <2>3. PICK x \in I : TRUE
    OBVIOUS
  <2>4. n - x \in T
    OBVIOUS
  <2> HIDE DEF T
  <2> QED BY <2>2, <2>4
<1> HIDE DEF T
<1>2. PICK t \in T : \A s \in T : ~(s < t)
  BY <1>1, LeastNatural
<1>3. PICK x \in I : t = n - x
  BY <1>2 DEF T
<1>4. \A y \in I : x >= y
  <2> SUFFICES ASSUME NEW y \in I PROVE x >= y
    OBVIOUS
  <2>1. n - y \in T
    BY DEF T
  <2> QED BY <1>2, <1>3, <2>1
<1>5. Max(I) \in I /\ \A y \in I : Max(I) >= y
  BY <1>3, <1>4 DEF Max
<1>6. \A y \in I : y \in Int
  OBVIOUS
<1> QED BY <1>5, <1>6

\* The last request of a block is among the n first; the next request is the last
\* one of the block that it names.
LEMMA LastOpStep ==
  ASSUME NEW lines, NEW n \in Nat, NEW id
  PROVE  /\ LastOp(lines, 0, id) = 0
         /\ LastOp(lines, n, id) \in 0..n
         /\ LastOp(lines, n, id) # 0 => lines[LastOp(lines, n, id)].index = id
         /\ LastOp(lines, n + 1, id) =
              IF lines[n + 1].index = id THEN n + 1 ELSE LastOp(lines, n, id)
<1> DEFINE I(m) == {j \in 1..m : lines[j].index = id}
<1>1. \A m : LastOp(lines, m, id) = IF I(m) # {} THEN Max(I(m)) ELSE 0
  BY DEF LastOp, SelectLastInSubSeq
<1>2. I(0) = {} /\ I(n) \in SUBSET (1..n) /\ I(n + 1) \in SUBSET (1..(n + 1)) /\ n + 1 \in Nat
  OBVIOUS
<1>3. I(n + 1) = I(n) \cup (IF lines[n + 1].index = id THEN {n + 1} ELSE {})
  OBVIOUS
<1>4. \A x \in I(n) : lines[x].index = id
  OBVIOUS
<1> DEFINE A == I(n)  B == I(n + 1)
<1>5. LastOp(lines, 0, id) = 0
  BY <1>1, <1>2
<1>6. LastOp(lines, n, id) = (IF A # {} THEN Max(A) ELSE 0)
      /\ LastOp(lines, n + 1, id) = (IF B # {} THEN Max(B) ELSE 0)
  BY <1>1
<1>7. A # {} => Max(A) \in A
  BY <1>2, GreatestNatural
<1>8. B # {} => Max(B) \in B /\ \A y \in B : y <= Max(B)
  BY <1>2, GreatestNatural
<1>9. A \in SUBSET (1..n) /\ B = A \cup (IF lines[n + 1].index = id THEN {n + 1} ELSE {})
      /\ B \in SUBSET (1..(n + 1)) /\ \A x \in A : lines[x].index = id
  BY <1>2, <1>3, <1>4
<1> DEFINE p == LastOp(lines, n, id)  q == LastOp(lines, n + 1, id)
<1>b. \/ A = {} /\ p = 0
      \/ A # {} /\ p \in A
  BY <1>6, <1>7
<1>c. \/ B = {} /\ q = 0
      \/ B # {} /\ q = Max(B) /\ q \in B
  BY <1>6, <1>8
<1>d. p \in 0..n /\ (p # 0 => lines[p].index = id)
  <2> HIDE DEF A, B, I, p, q
  <2>1. CASE p = 0
    BY <2>1
  <2>2. CASE p \in A
    BY <1>9, <2>2
  <2> QED BY <1>b, <2>1, <2>2
<1> SUFFICES q = IF lines[n + 1].index = id THEN n + 1 ELSE p
  BY <1>5, <1>d
<1> HIDE DEF A, B, I, p, q
<1>10. CASE lines[n + 1].index = id
  <2>1. n + 1 \in B
    BY <1>9, <1>10
  <2>2. Max(B) \in 1..(n + 1) /\ n + 1 <= Max(B)
    BY <1>8, <1>9, <2>1
  <2>3. Max(B) = n + 1
    BY <2>2
  <2> QED BY <1>c, <1>10, <2>1, <2>3
<1>11. CASE lines[n + 1].index # id
  <2>1. B = A
    BY <1>9, <1>11
  <2>2. A # {} => q = p
    BY <2>1, <1>6, <1>c DEF p, q
  <2> QED BY <1>b, <1>c, <1>11, <2>1, <2>2
<1> QED BY <1>10, <1>11

\* The sizes that n requests leave.
LEMMA SizeStep ==
  ASSUME NEW lines, NEW n \in Nat, NEW id
  PROVE  /\ Size(lines, 0, id) = 0
         /\ Size(lines, n + 1, id) =
              IF lines[n + 1].index = id THEN lines[n + 1].size ELSE Size(lines, n, id)
<1> DEFINE last(m) == LastOp(lines, m, id)
<1>1. last(0) = 0 /\ last(n + 1) = (IF lines[n + 1].index = id THEN n + 1 ELSE last(n))
  BY LastOpStep
<1>2. n + 1 # 0
  OBVIOUS
<1> HIDE DEF last
<1>3. \A m : Size(lines, m, id) = IF last(m) = 0 THEN 0 ELSE lines[last(m)].size
  BY DEF Size, last
<1> QED BY <1>1, <1>2, <1>3

----------------------------------------------------------------------------
(***************************************************************************)
(* The list of ranges                                                      *)
(***************************************************************************)

\* What remove_range removes, and what it leaves in which order.
LEMMA RangeRemoved ==
  ASSUME NEW S, NEW rs \in Seq(S), NEW lo
  PROVE  \/ /\ \A k \in 1..Len(rs) : rs[k].lo # lo
            /\ remove_range(rs, lo) = rs
         \/ \E j \in 1..Len(rs) :
              /\ rs[j].lo = lo
              /\ remove_range(rs, lo) \in Seq(S)
              /\ Len(remove_range(rs, lo)) = Len(rs) - 1
              /\ \A k \in 1..(Len(rs) - 1) :
                   remove_range(rs, lo)[k] = IF k < j THEN rs[k] ELSE rs[k + 1]
<1> DEFINE I == {k \in 1..Len(rs) : rs[k].lo = lo}
           j == IF I # {} THEN Min(I) ELSE 0
<1>a. remove_range(rs, lo) = IF j = 0 THEN rs ELSE RemoveAt(rs, j)
  BY DEF remove_range, SelectInSeq
<1>1. CASE I = {}
  BY <1>a, <1>1
<1>2. CASE I # {}
  <2>1. I \in SUBSET Nat
    OBVIOUS
  <2>2. PICK x \in I : \A y \in I : ~(y < x)
    BY <1>2, <2>1, LeastNatural
  <2>3. Min(I) \in I
    BY <2>1, <2>2 DEF Min
  <2>4. j \in 1..Len(rs) /\ rs[j].lo = lo /\ j # 0
    BY <1>2, <2>3
  <2> HIDE DEF j
  <2>5. remove_range(rs, lo) = SubSeq(rs, 1, j - 1) \o SubSeq(rs, j + 1, Len(rs))
    BY <1>a, <2>4 DEF RemoveAt
  <2> DEFINE A == SubSeq(rs, 1, j - 1)
             B == SubSeq(rs, j + 1, Len(rs))
  <2>6. A \in Seq(S) /\ Len(A) = j - 1
    BY <2>4
  <2>7. \A k \in 1..(j - 1) : A[k] = rs[k]
    BY <2>4
  <2>8. B \in Seq(S)
    BY <2>4
  <2>9. Len(B) = Len(rs) - j
    BY <2>4
  <2>10. \A k \in 1..(Len(rs) - j) : B[k] = rs[j + k]
    BY <2>4
  <2>11. Len(rs) \in Nat
    OBVIOUS
  <2> HIDE DEF A, B
  <2>a. A \o B \in Seq(S)
    BY <2>6, <2>8
  <2>b. Len(A \o B) = Len(A) + Len(B)
    BY <2>6, <2>8
  <2>12. A \o B \in Seq(S) /\ Len(A \o B) = Len(rs) - 1
    BY <2>4, <2>6, <2>9, <2>11, <2>a, <2>b
  <2>13. ASSUME NEW k \in 1..(Len(rs) - 1) PROVE (A \o B)[k] = IF k < j THEN rs[k] ELSE rs[k + 1]
    <3>1. CASE k < j
      BY <2>4, <2>6, <2>7, <2>8, <2>11, <3>1
    <3>2. CASE ~(k < j)
      <4>1. k - (j - 1) \in 1..(Len(rs) - j) /\ j + (k - (j - 1)) = k + 1
        BY <2>4, <2>11, <3>2
      <4>2. (A \o B)[k] = B[k - (j - 1)]
        BY <2>4, <2>6, <2>8, <2>9, <2>11, <3>2
      <4>3. B[k - (j - 1)] = rs[j + (k - (j - 1))]
        BY <4>1, <2>10
      <4> QED BY <3>2, <4>1, <4>2, <4>3
    <3> QED BY <3>1, <3>2
  <2> QED BY <2>4, <2>5, <2>12, <2>13 DEF A, B
<1> QED BY <1>1, <1>2

\* The range of block id, for blocks at B of sizes S.
RangeOf(B, S, id) == [lo |-> B[id], hi |-> B[id] + S[id] - 1, index |-> id]
RangeType == [lo : Int, hi : Int, index : Int]

\* The list rs holds one range for each block in I and no other, and no two of
\* them start at the same address.
Listed(rs, B, S, I) ==
  /\ rs \in Seq(RangeType)
  /\ \A j \in 1..Len(rs) : rs[j].index \in I /\ rs[j] = RangeOf(B, S, rs[j].index)
  /\ \A id \in I : \E j \in 1..Len(rs) : rs[j].index = id
  /\ \A j, k \in 1..Len(rs) : rs[j].lo = rs[k].lo => j = k

LEMMA ListedEmpty ==
  ASSUME NEW B, NEW S
  PROVE  Listed(<<>>, B, S, {})
BY DEF Listed

LEMMA ListedSame ==
  ASSUME NEW rs, NEW B, NEW S, NEW I, Listed(rs, B, S, I), NEW C, NEW T,
         \A x \in I : C[x] = B[x] /\ T[x] = S[x]
  PROVE  Listed(rs, C, T, I)
<1>1. ASSUME NEW j \in 1..Len(rs) PROVE rs[j].index \in I /\ rs[j] = RangeOf(C, T, rs[j].index)
  <2>1. rs[j].index \in I /\ rs[j] = RangeOf(B, S, rs[j].index)
    BY DEF Listed
  <2>2. RangeOf(C, T, rs[j].index) = RangeOf(B, S, rs[j].index)
    BY <2>1 DEF RangeOf
  <2> QED BY <2>1, <2>2
<1> QED BY <1>1 DEF Listed

\* remove_range takes the range of a block off the list, and nothing where no
\* block starts at the address.
LEMMA ListedWithout ==
  ASSUME NEW rs, NEW B, NEW S, NEW I, Listed(rs, B, S, I), NEW id \in I
  PROVE  Listed(remove_range(rs, B[id]), B, S, I \ {id})
<1> DEFINE n == Len(rs)
           r == remove_range(rs, B[id])
<1>1. rs \in Seq(RangeType) /\ n \in Nat
  BY DEF Listed
<1>2. \A j \in 1..n : rs[j].index \in I /\ rs[j] = RangeOf(B, S, rs[j].index)
  BY DEF Listed
<1>3. \A j \in 1..n : rs[j].lo = B[rs[j].index]
  <2> SUFFICES ASSUME NEW j \in 1..n PROVE rs[j].lo = B[rs[j].index]
    OBVIOUS
  <2>1. RangeOf(B, S, rs[j].index).lo = B[rs[j].index]
    BY DEF RangeOf
  <2> QED BY <1>2, <2>1
<1>4. \A j, k \in 1..n : rs[j].lo = rs[k].lo => j = k
  BY DEF Listed
<1>5. PICK m \in 1..n : rs[m].index = id
  BY DEF Listed
<1>6. rs[m].lo = B[id]
  BY <1>3, <1>5
<1> DEFINE Removed(j) ==
      /\ rs[j].lo = B[id]
      /\ r \in Seq(RangeType)
      /\ Len(r) = n - 1
      /\ \A k \in 1..(n - 1) : r[k] = IF k < j THEN rs[k] ELSE rs[k + 1]
<1>a. (\A k \in 1..n : rs[k].lo # B[id]) \/ \E j \in 1..n : Removed(j)
  BY ONLY <1>1, RangeRemoved
<1> HIDE DEF Removed
<1>b. PICK j \in 1..n : Removed(j)
  BY ONLY <1>a, <1>5, <1>6
<1>7. /\ rs[j].lo = B[id]
      /\ r \in Seq(RangeType)
      /\ Len(r) = n - 1
      /\ \A k \in 1..(n - 1) : r[k] = IF k < j THEN rs[k] ELSE rs[k + 1]
  BY <1>b DEF Removed
<1>8. j = m
  BY <1>4, <1>5, <1>6, <1>7
<1> HIDE DEF n, r
<1> DEFINE at(k) == IF k < j THEN k ELSE k + 1
<1>9. \A k \in 1..(n - 1) : at(k) \in 1..n /\ at(k) # j /\ r[k] = rs[at(k)]
  BY <1>1, <1>7
<1>10. \A k, l \in 1..(n - 1) : at(k) = at(l) => k = l
  BY <1>1, <1>7
<1>11. \A x \in 1..n : x # j => \E k \in 1..(n - 1) : at(k) = x
  <2> SUFFICES ASSUME NEW x \in 1..n, x # j PROVE \E k \in 1..(n - 1) : at(k) = x
    OBVIOUS
  <2>1. CASE x < j
    <3>1. x \in 1..(n - 1) /\ at(x) = x
      BY <1>1, <1>7, <2>1
    <3> QED BY <3>1
  <2>2. CASE x > j
    <3>1. x - 1 \in 1..(n - 1) /\ at(x - 1) = x
      BY <1>1, <1>7, <2>2
    <3> QED BY <3>1
  <2> QED BY <1>1, <1>7, <2>1, <2>2
<1> HIDE DEF at
<1>12. \A x \in 1..n : x # j => rs[x].index # id
  BY <1>3, <1>4, <1>6, <1>8
<1>13. \A k \in 1..(n - 1) : r[k].index \in I \ {id} /\ r[k] = RangeOf(B, S, r[k].index)
  BY <1>2, <1>9, <1>12
<1>14. \A y \in I \ {id} : \E k \in 1..(n - 1) : r[k].index = y
  <2> SUFFICES ASSUME NEW y \in I \ {id} PROVE \E k \in 1..(n - 1) : r[k].index = y
    OBVIOUS
  <2>1. PICK x \in 1..n : rs[x].index = y
    BY DEF Listed, n
  <2>2. x # j
    BY <1>5, <1>8, <2>1
  <2>3. PICK k \in 1..(n - 1) : at(k) = x
    BY <1>11, <2>2
  <2> QED BY <1>9, <2>1, <2>3
<1>15. \A k, l \in 1..(n - 1) : r[k].lo = r[l].lo => k = l
  BY <1>4, <1>9, <1>10
<1> QED BY <1>7, <1>13, <1>14, <1>15 DEF Listed, r

LEMMA ListedWithoutNone ==
  ASSUME NEW rs, NEW B, NEW S, NEW I, Listed(rs, B, S, I), NEW lo, \A x \in I : B[x] # lo
  PROVE  remove_range(rs, lo) = rs
<1>1. rs \in Seq(RangeType)
  BY DEF Listed
<1>2. \A j \in 1..Len(rs) : rs[j].lo # lo
  <2> SUFFICES ASSUME NEW j \in 1..Len(rs) PROVE rs[j].lo # lo
    OBVIOUS
  <2>1. rs[j].index \in I /\ rs[j] = RangeOf(B, S, rs[j].index)
    BY DEF Listed
  <2>2. RangeOf(B, S, rs[j].index).lo = B[rs[j].index]
    BY DEF RangeOf
  <2> QED BY <2>1, <2>2
<1> QED BY <1>1, <1>2, RangeRemoved

\* The range of a block that touches none of the list is put in front.
LEMMA ListedWith ==
  ASSUME NEW rs, NEW B, NEW S, NEW I, Listed(rs, B, S, I),
         NEW id \in Int, id \notin I, NEW lo \in Int, NEW size \in Nat, NEW C, NEW T,
         \A x \in I : C[x] = B[x] /\ T[x] = S[x], C[id] = lo, T[id] = size,
         \A x \in I : B[x] \in Int /\ S[x] \in Nat /\ S[x] > 0,
         \A j \in DOMAIN rs : ~Touches(rs[j], lo, lo + size - 1)
  PROVE  Listed(WithRange(rs, lo, size, id), C, T, I \cup {id})
<1> DEFINE n == Len(rs)
           w == [lo |-> lo, hi |-> lo + size - 1, index |-> id]
           r == <<w>> \o rs
<1>1. rs \in Seq(RangeType) /\ n \in Nat /\ DOMAIN rs = 1..n
  BY DEF Listed
<1>2. WithRange(rs, lo, size, id) = r
  BY DEF WithRange
<1>3. w \in RangeType
  BY DEF RangeType
<1>4. w = RangeOf(C, T, id) /\ w.index = id /\ w.lo = lo
  BY DEF RangeOf
<1> HIDE DEF w
<1>5. <<w>> \in Seq(RangeType) /\ Len(<<w>>) = 1 /\ <<w>>[1] = w
  BY <1>3
<1> DEFINE h == <<w>>
<1> HIDE DEF h
<1>6. r \in Seq(RangeType)
  BY <1>1, <1>5 DEF h
<1>7. Len(r) = n + 1
  BY <1>1, <1>5 DEF h
<1>8. r[1] = w /\ \A k \in 1..n : r[k + 1] = rs[k]
  BY <1>1, <1>5 DEF h
<1> HIDE DEF r, n
<1>9. \A k \in 1..n : /\ rs[k].index \in I /\ rs[k] = RangeOf(C, T, rs[k].index)
                      /\ rs[k].lo # lo
  <2> SUFFICES ASSUME NEW k \in 1..n
               PROVE  /\ rs[k].index \in I /\ rs[k] = RangeOf(C, T, rs[k].index)
                      /\ rs[k].lo # lo
    OBVIOUS
  <2>1. rs[k].index \in I /\ rs[k] = RangeOf(B, S, rs[k].index)
    BY DEF Listed, n
  <2> DEFINE x == rs[k].index
  <2>2. RangeOf(C, T, x) = RangeOf(B, S, x)
    BY <2>1 DEF RangeOf
  <2>3. rs[k].lo = B[x] /\ rs[k].hi = B[x] + S[x] - 1 /\ B[x] \in Int /\ S[x] \in Nat /\ S[x] > 0
    BY <2>1 DEF RangeOf
  <2>4. ~Touches(rs[k], lo, lo + size - 1)
    BY <1>1
  <2>5. ~(lo >= rs[k].lo /\ lo <= rs[k].hi)
    BY <2>4 DEF Touches
  <2> HIDE DEF x
  <2>6. lo # B[x]
    BY <2>3, <2>5
  <2> QED BY <2>1, <2>2, <2>3, <2>6 DEF x
<1>10. \A k \in 1..(n + 1) : k = 1 \/ \E l \in 1..n : k = l + 1
  <2> SUFFICES ASSUME NEW k \in 1..(n + 1), k # 1 PROVE \E l \in 1..n : k = l + 1
    OBVIOUS
  <2>1. k - 1 \in 1..n /\ k = (k - 1) + 1
    BY <1>1
  <2> QED BY <2>1
<1>11. ASSUME NEW k \in 1..(n + 1)
       PROVE  r[k].index \in I \cup {id} /\ r[k] = RangeOf(C, T, r[k].index)
  BY <1>4, <1>8, <1>9, <1>10
<1>12. ASSUME NEW x \in I \cup {id} PROVE \E k \in 1..(n + 1) : r[k].index = x
  <2>1. CASE x = id
    <3>1. 1 \in 1..(n + 1)
      BY <1>1
    <3> QED BY <1>4, <1>8, <2>1, <3>1
  <2>2. CASE x \in I
    <3>1. PICK k \in 1..n : rs[k].index = x
      BY <2>2 DEF Listed, n
    <3>2. k + 1 \in 1..(n + 1)
      BY <1>1
    <3> QED BY <1>8, <3>1, <3>2
  <2> QED BY <2>1, <2>2
<1>13. ASSUME NEW k \in 1..(n + 1), NEW l \in 1..(n + 1), r[k].lo = r[l].lo PROVE k = l
  <2>1. \A x, y \in 1..n : rs[x].lo = rs[y].lo => x = y
    BY DEF Listed, n
  <2>2. CASE k = 1 /\ l = 1
    BY <2>2
  <2>3. CASE k = 1 /\ l # 1
    BY <1>4, <1>8, <1>9, <1>10, <1>13, <2>3
  <2>4. CASE k # 1 /\ l = 1
    BY <1>4, <1>8, <1>9, <1>10, <1>13, <2>4
  <2>5. CASE k # 1 /\ l # 1
    BY <1>8, <1>10, <1>13, <2>1, <2>5
  <2> QED BY <2>2, <2>3, <2>4, <2>5
<1> QED BY <1>2, <1>6, <1>7, <1>11, <1>12, <1>13 DEF Listed

\* So the list is the set of the ranges, and as long as there are blocks.
LEMMA ListedSet ==
  ASSUME NEW rs, NEW B, NEW S, NEW I, Listed(rs, B, S, I)
  PROVE  /\ {rs[j] : j \in DOMAIN rs} = {RangeOf(B, S, id) : id \in I}
         /\ Len(rs) = Cardinality(I)
<1> DEFINE n == Len(rs)
           D == 1..n
           f == [j \in D |-> rs[j].index]
<1>1. rs \in Seq(RangeType) /\ n \in Nat /\ DOMAIN rs = D
  BY DEF Listed
<1>2. \A j \in D : rs[j].index \in I /\ rs[j] = RangeOf(B, S, rs[j].index)
  BY DEF Listed
<1>3. \A id \in I : \E j \in D : rs[j].index = id
  BY DEF Listed
<1>4. \A j, k \in D : rs[j].lo = rs[k].lo => j = k
  BY DEF Listed
<1> HIDE DEF D, n
<1>5. {rs[j] : j \in D} = {RangeOf(B, S, id) : id \in I}
  BY <1>2, <1>3
<1>6. f \in Bijection(D, I)
  <2>1. \A j, k \in D : f[j] = f[k] => j = k
    <3> SUFFICES ASSUME NEW j \in D, NEW k \in D, f[j] = f[k] PROVE j = k
      OBVIOUS
    <3>1. rs[j] = rs[k]
      BY <1>2
    <3> QED BY <1>4, <3>1
  <2>2. f \in [D -> I]
    BY <1>2
  <2>3. \A id \in I : \E j \in D : f[j] = id
    BY <1>3
  <2> HIDE DEF f
  <2> QED BY <2>1, <2>2, <2>3 DEF Bijection, Injection, Surjection, IsInjective
<1>7. IsFiniteSet(D) /\ Cardinality(D) = n
  BY <1>1, FS_Interval DEF D
<1> HIDE DEF f
<1>8. Cardinality(I) = n
  BY <1>6, <1>7, FS_Bijection DEF ExistsBijection
<1> QED BY <1>1, <1>5, <1>8 DEF n

----------------------------------------------------------------------------
(***************************************************************************)
(* The blocks of the program                                               *)
(***************************************************************************)

\* The blocks that n requests leave; so Live is LiveAt(opnum).
LiveAt(n) == {id \in Ids : Size(trace.lines, n, id) > 0}

\* The block was not freed by the last of n requests that names it.
Current(n, id) ==
  LastOp(trace.lines, n, id) # 0 => trace.lines[LastOp(trace.lines, n, id)].type # "f"

\* After n requests the driver knows the blocks at B, of sizes S, in a heap of b bytes.
Placed(n, B, S, b) ==
  /\ B \in [Ids -> Int] /\ S \in [Ids -> Nat]
  /\ \A id \in Ids : Current(n, id) => /\ S[id] = Size(trace.lines, n, id)
                                       /\ S[id] = 0 => B[id] = NULL
  /\ \A id \in LiveAt(n) : S[id] > 0 /\ B[id] >= 0 /\ B[id] + S[id] <= b

LEMMA TraceFacts ==
  ASSUME ScoreInv
  PROVE  /\ trace.num_ops \in Nat /\ trace.num_ids \in Nat
         /\ Legal(trace) => \A n \in 1..trace.num_ops : Proper(trace, n)
<1>1. opts.files \in Seq(DOMAIN File) /\ i \in 1..Len(opts.files)
  BY OptionsTyped DEF ScoreInv
<1>2. opts.files[i] \in DOMAIN File
  BY <1>1
<1> QED BY <1>2, TraceAssumption DEF trace

\* What a request may ask for, and whose blocks there are after it.
LEMMA RequestFacts ==
  ASSUME ScoreInv, Legal(trace), NEW n \in Nat, n < trace.num_ops,
         NEW l, l = trace.lines[n + 1]
  PROVE  /\ l.type \in {"a", "r", "f"} /\ l.size \in Nat
         /\ l.index \in Ids \/ (l.index = -1 /\ l.type = "f")
         /\ l.index \in Ids <=> l.index # -1
         /\ l.type = "a" => l.size > 0 /\ l.index \notin LiveAt(n)
         /\ l.type = "f" => l.size = 0
         /\ l.type # "a" /\ l.index # -1 => Current(n, l.index)
         /\ LiveAt(n + 1) = IF l.size > 0 THEN LiveAt(n) \cup {l.index}
                            ELSE LiveAt(n) \ {l.index}
<1>1. trace.num_ops \in Nat /\ trace.num_ids \in Nat /\ n + 1 \in 1..trace.num_ops
  BY TraceFacts
<1>2. Proper(trace, n + 1)
  BY <1>1, TraceFacts
<1>3. (n + 1) - 1 = n
  OBVIOUS
<1>4. /\ l.index \in -1..(trace.num_ids - 1) /\ l.size \in Nat
      /\ l.type # "f" => l.index # -1
      /\ l.type = "a" => l.size > 0 /\ Size(trace.lines, n, l.index) = 0
      /\ l.type = "f" => l.size = 0
      /\ l.type # "a" /\ l.index # -1 => Current(n, l.index)
  BY <1>2, <1>3 DEF Proper, Current
<1>5. l.type \in {"a", "r", "f"}
  BY <1>1 DEF Legal
<1>6. l.index \in Ids <=> l.index # -1
  BY <1>1, <1>4 DEF Ids
<1>7. l.type = "a" => l.index \notin LiveAt(n)
  BY <1>4 DEF LiveAt
<1>8. \A id : Size(trace.lines, n + 1, id) =
        IF l.index = id THEN l.size ELSE Size(trace.lines, n, id)
  BY SizeStep
<1>9. LiveAt(n + 1) = IF l.size > 0 THEN LiveAt(n) \cup {l.index} ELSE LiveAt(n) \ {l.index}
  <2>1. \A id \in Ids : id \in LiveAt(n + 1) <=>
          IF l.index = id THEN l.size > 0 ELSE id \in LiveAt(n)
    BY <1>8 DEF LiveAt
  <2>2. LiveAt(n + 1) \subseteq Ids /\ LiveAt(n) \subseteq Ids
    BY DEF LiveAt
  <2>3. l.size > 0 => l.index \in Ids
    BY <1>4, <1>5, <1>6
  <2>4. CASE l.size > 0
    BY <2>1, <2>2, <2>3, <2>4
  <2>5. CASE ~(l.size > 0)
    BY <2>1, <2>2, <2>5
  <2> QED BY <2>4, <2>5
<1> QED BY <1>4, <1>5, <1>6, <1>7, <1>9

\* No block has a place before the first request.
LEMMA PlacedFirst ==
  ASSUME NEW b
  PROVE  Placed(0, NoBlocks, Cleared, b) /\ LiveAt(0) = {}
<1>1. \A id : LastOp(trace.lines, 0, id) = 0 /\ Size(trace.lines, 0, id) = 0
  BY LastOpStep, SizeStep
<1>2. LiveAt(0) = {}
  BY <1>1 DEF LiveAt
<1>3. NoBlocks \in [Ids -> Int] /\ Cleared \in [Ids -> Nat]
  BY DEF NoBlocks, Cleared, NULL
<1>4. \A id \in Ids : Cleared[id] = 0 /\ NoBlocks[id] = NULL
  BY DEF NoBlocks, Cleared
<1> QED BY <1>1, <1>2, <1>3, <1>4 DEF Placed

\* The request for a block is answered with the address p in a heap of c bytes.
LEMMA PlacedRequest ==
  ASSUME ScoreInv, Legal(trace), NEW n \in Nat, n < trace.num_ops,
         NEW l, l = trace.lines[n + 1], l.type # "f",
         NEW B, NEW S, NEW b \in Nat, Placed(n, B, S, b), NEW c \in Nat, b <= c,
         NEW p \in Int, l.size = 0 => p = NULL, l.size > 0 => p >= 0 /\ p + l.size <= c
  PROVE  Placed(n + 1, [B EXCEPT ![l.index] = p], [S EXCEPT ![l.index] = l.size], c)
<1> DEFINE id == l.index
           C == [B EXCEPT ![id] = p]
           T == [S EXCEPT ![id] = l.size]
<1>1. id \in Ids /\ l.size \in Nat
  BY RequestFacts
<1>a. LiveAt(n + 1) = IF l.size > 0 THEN LiveAt(n) \cup {id} ELSE LiveAt(n) \ {id}
  BY RequestFacts
<1>2. B \in [Ids -> Int] /\ S \in [Ids -> Nat]
  BY DEF Placed
<1>3. C \in [Ids -> Int] /\ T \in [Ids -> Nat]
  BY <1>1, <1>2
<1>4. C[id] = p /\ T[id] = l.size /\ \A x \in Ids : x # id => C[x] = B[x] /\ T[x] = S[x]
  BY <1>1, <1>2
<1> HIDE DEF C, T
<1>5. ASSUME NEW x \in Ids, Current(n + 1, x)
      PROVE  T[x] = Size(trace.lines, n + 1, x) /\ (T[x] = 0 => C[x] = NULL)
  <2>1. CASE x = id
    <3>1. Size(trace.lines, n + 1, x) = l.size
      BY <2>1, SizeStep
    <3> QED BY <1>4, <2>1, <3>1
  <2>2. CASE x # id
    <3>1. /\ Size(trace.lines, n + 1, x) = Size(trace.lines, n, x)
          /\ LastOp(trace.lines, n + 1, x) = LastOp(trace.lines, n, x)
      BY <2>2, SizeStep, LastOpStep
    <3>2. Current(n, x)
      BY <1>5, <3>1 DEF Current
    <3> QED BY <1>4, <2>2, <3>1, <3>2 DEF Placed
  <2> QED BY <2>1, <2>2
<1>6. ASSUME NEW x \in LiveAt(n + 1) PROVE T[x] > 0 /\ C[x] >= 0 /\ C[x] + T[x] <= c
  <2>0. x \in Ids
    BY DEF LiveAt
  <2>1. CASE x = id
    <3>1. l.size > 0
      BY <1>6, <1>a, <2>1
    <3> QED BY <1>4, <2>1, <3>1
  <2>2. CASE x # id
    <3>1. x \in LiveAt(n)
      BY <1>6, <1>a, <2>2
    <3>2. S[x] > 0 /\ B[x] >= 0 /\ B[x] + S[x] <= b
      BY <3>1 DEF Placed
    <3>3. B[x] \in Int /\ S[x] \in Nat
      BY <1>2, <2>0
    <3> QED BY <1>4, <2>0, <2>2, <3>2, <3>3
  <2> QED BY <2>1, <2>2
<1> QED BY <1>3, <1>5, <1>6 DEF Placed, C, T

\* A block is freed.
LEMMA PlacedFree ==
  ASSUME ScoreInv, Legal(trace), NEW n \in Nat, n < trace.num_ops,
         NEW l, l = trace.lines[n + 1], l.type = "f",
         NEW B, NEW S, NEW b \in Nat, Placed(n, B, S, b)
  PROVE  Placed(n + 1, B, S, b)
<1>1. ASSUME NEW x \in Ids, Current(n + 1, x)
      PROVE  S[x] = Size(trace.lines, n + 1, x) /\ (S[x] = 0 => B[x] = NULL)
  <2>1. CASE x = l.index
    <3>1. LastOp(trace.lines, n + 1, x) = n + 1
      BY <2>1, LastOpStep
    <3>2. n + 1 # 0
      OBVIOUS
    <3> QED BY <1>1, <3>1, <3>2 DEF Current
  <2>2. CASE x # l.index
    <3>1. /\ Size(trace.lines, n + 1, x) = Size(trace.lines, n, x)
          /\ LastOp(trace.lines, n + 1, x) = LastOp(trace.lines, n, x)
      BY <2>2, SizeStep, LastOpStep
    <3>2. Current(n, x)
      BY <1>1, <3>1 DEF Current
    <3> QED BY <3>1, <3>2 DEF Placed
  <2> QED BY <2>1, <2>2
<1>2. LiveAt(n + 1) \subseteq LiveAt(n)
  <2>1. /\ l.type = "f" => l.size = 0
        /\ LiveAt(n + 1) = IF l.size > 0 THEN LiveAt(n) \cup {l.index} ELSE LiveAt(n) \ {l.index}
    BY RequestFacts
  <2>2. l.size = 0 /\ ~(0 > 0)
    BY <2>1
  <2> QED BY <2>1, <2>2
<1> QED BY <1>1, <1>2 DEF Placed

----------------------------------------------------------------------------
(***************************************************************************)
(* The answers of the allocator                                            *)
(***************************************************************************)
MemType == [Heap -> Nat \X Nat]

LEMMA CopiedFacts ==
  ASSUME mem \in MemType, NEW lo \in Int, NEW p \in Int, NEW c \in Nat,
         \A k \in 0..(c - 1) : lo + k \in Heap
  PROVE  /\ Copied(lo, p, c) \in MemType
         /\ \A x \in Heap : x - p \notin 0..(c - 1) => Copied(lo, p, c)[x] = mem[x]
         /\ \A k \in 0..(c - 1) : p + k \in Heap => Copied(lo, p, c)[p + k] = mem[lo + k]
<1>1. HeapLimit \in Nat
  BY RangeListAssumption
<1>2. Copied(lo, p, c) =
        [x \in Heap |-> IF x - p \in 0..(c - 1) THEN mem[lo + x - p] ELSE mem[x]]
  BY DEF Copied, MemType
<1>3. ASSUME NEW x \in Heap, x - p \in 0..(c - 1)
      PROVE  mem[lo + x - p] \in Nat \X Nat
  <2>1. lo + (x - p) \in Heap /\ lo + (x - p) = lo + x - p
    BY <1>1, <1>3 DEF Heap
  <2> QED BY <2>1 DEF MemType
<1>4. Copied(lo, p, c) \in MemType
  BY <1>2, <1>3 DEF MemType
<1>5. ASSUME NEW k \in 0..(c - 1), p + k \in Heap PROVE Copied(lo, p, c)[p + k] = mem[lo + k]
  <2>1. (p + k) - p = k /\ lo + (p + k) - p = lo + k
    OBVIOUS
  <2> QED BY <1>2, <1>5, <2>1
<1> QED BY <1>2, <1>4, <1>5

LEMMA FilledFacts ==
  ASSUME NEW m \in MemType, NEW p \in Int, NEW size \in Nat, NEW base \in Nat
  PROVE  /\ randomize_block(m, p, size, base) \in MemType
         /\ \A x \in Heap :
              /\ x \in Payload(p, size) => randomize_block(m, p, size, base)[x] = <<base, x - p>>
              /\ x \notin Payload(p, size) => randomize_block(m, p, size, base)[x] = m[x]
<1>1. HeapLimit \in Nat
  BY RangeListAssumption
<1>2. randomize_block(m, p, size, base) =
        [x \in Heap |-> IF x \in Payload(p, size) THEN <<base, x - p>> ELSE m[x]]
  BY DEF randomize_block, MemType
<1>3. ASSUME NEW x \in Heap, x \in Payload(p, size) PROVE <<base, x - p>> \in Nat \X Nat
  BY <1>1, <1>3 DEF Heap, Payload
<1> QED BY <1>2, <1>3 DEF MemType

LEMMA FilledByte ==
  ASSUME NEW m \in MemType, NEW p \in Int, NEW size \in Nat, NEW base \in Nat,
         NEW k \in 0..(size - 1), p + k \in Heap
  PROVE  randomize_block(m, p, size, base)[p + k] = <<base, k>>
<1>1. p + k \in Payload(p, size) /\ (p + k) - p = k
  BY DEF Payload
<1>2. randomize_block(m, p, size, base)[p + k] = <<base, (p + k) - p>>
  BY ONLY <1>1, FilledFacts, m \in MemType, p \in Int, size \in Nat, base \in Nat, p + k \in Heap
<1> QED BY <1>1, <1>2

\* What holds while eval_mm_valid works, except of the ranges and the history.
Working ==
  /\ Legal(trace) /\ opnum \in 0..trace.num_ops
  /\ brk \in 0..HeapLimit /\ mem \in MemType
  /\ Placed(opnum, blocks, block_sizes, brk)

\* The answer a to a request for size bytes for block id, which has n bytes at lo.
Answered(a, id, size, lo, n) ==
  /\ a.ptr \in Int /\ a.brk \in brk..HeapLimit /\ a.mem \in MemType
  /\ \A x \in Heap : x \notin Payload(a.ptr, size) => a.mem[x] \in {mem[x], Junk}
  /\ honest =>
       /\ size = 0 => a.ptr = NULL
       /\ size > 0 =>
            /\ a.ptr >= 0 /\ a.ptr % ALIGNMENT = 0 /\ a.ptr + size <= a.brk
            /\ \A j \in Live \ {id} :
                 Payload(a.ptr, size) \cap Payload(blocks[j], block_sizes[j]) = {}
       /\ \A x \in Heap : x \notin Payload(a.ptr, size) => a.mem[x] = mem[x]
       /\ \A k \in 0..(Common(n, size) - 1) : a.mem[a.ptr + k] = mem[lo + k]

LEMMA LiveIsLiveAt == Live = LiveAt(opnum)
BY DEF Live, LiveAt

LEMMA HitFacts ==
  ASSUME Working, NEW m \in Hit
  PROVE  m \in MemType /\ \A x \in Heap : m[x] \in {mem[x], Junk}
<1>1. Junk \in Nat \X Nat /\ mem \in MemType /\ HeapLimit \in Nat
  BY RangeListAssumption DEF Working, Junk
<1>2. CASE m = mem
  BY <1>1, <1>2
<1>3. CASE \E id \in Live : m = [mem EXCEPT ![blocks[id]] = Junk]
  BY <1>1, <1>3 DEF MemType
<1> QED BY <1>2, <1>3 DEF Hit

LEMMA AnswerFacts ==
  ASSUME Working, NEW id, NEW size \in Nat, NEW lo \in Int, NEW n \in Nat,
         n > 0 => lo >= 0 /\ lo + n <= brk, NEW a \in Answers(id, size, lo, n)
  PROVE  Answered(a, id, size, lo, n)
<1> DEFINE c == IF n < size THEN n ELSE size
<1>1. HeapLimit \in Nat /\ mem \in MemType /\ brk \in 0..HeapLimit
  BY RangeListAssumption DEF Working
<1>2. c \in Nat /\ c <= n /\ c <= size /\ Common(n, size) = c
  BY DEF Common
<1> HIDE DEF c
<1>3. \A k \in 0..(c - 1) : lo + k \in Heap
  BY <1>1, <1>2 DEF Heap
<1>4. \A p \in Int : \A x \in Heap : x \notin Payload(p, size) => x - p \notin 0..(c - 1)
  BY <1>1, <1>2 DEF Heap, Payload
<1>5. \A p \in Int :
        /\ Copied(lo, p, c) \in MemType
        /\ \A x \in Heap : x \notin Payload(p, size) => Copied(lo, p, c)[x] = mem[x]
        /\ \A k \in 0..(c - 1) : p + k \in Heap => Copied(lo, p, c)[p + k] = mem[lo + k]
  <2> SUFFICES ASSUME NEW p \in Int
               PROVE  /\ Copied(lo, p, c) \in MemType
                      /\ \A x \in Heap : x \notin Payload(p, size) => Copied(lo, p, c)[x] = mem[x]
                      /\ \A k \in 0..(c - 1) : p + k \in Heap => Copied(lo, p, c)[p + k] = mem[lo + k]
    OBVIOUS
  <2>1. /\ Copied(lo, p, c) \in MemType
        /\ \A x \in Heap : x - p \notin 0..(c - 1) => Copied(lo, p, c)[x] = mem[x]
        /\ \A k \in 0..(c - 1) : p + k \in Heap => Copied(lo, p, c)[p + k] = mem[lo + k]
    BY ONLY <1>1, <1>2, <1>3, CopiedFacts, lo \in Int, p \in Int
  <2> QED BY ONLY <1>4, <2>1, p \in Int
<1>6. \A p, b, m : /\ Answer(p, b, m).ptr = p /\ Answer(p, b, m).brk = b
                   /\ Answer(p, b, m).mem = m
  BY DEF Answer
<1>7. CASE honest
  <2>1. a \in Honest(id, size, lo, n)
    BY <1>7 DEF Answers
  <2>2. CASE size = 0
    <3>1. a = Answer(NULL, brk, mem)
      BY <2>1, <2>2 DEF Honest
    <3>2. a.ptr = NULL /\ a.brk = brk /\ a.mem = mem
      BY <1>6, <3>1
    <3>3. 0..(Common(n, size) - 1) = {} /\ ~(size > 0) /\ NULL \in Int
      BY <1>2, <2>2 DEF NULL
    <3> QED BY <1>1, <2>2, <3>2, <3>3 DEF Answered
  <2>3. CASE size # 0
    <3>1. PICK e \in Extents(id, size) : a = Answer(e.ptr, e.brk, Copied(lo, e.ptr, c))
      BY <2>1, <2>3 DEF Honest, c
    <3>2. a.ptr = e.ptr /\ a.brk = e.brk /\ a.mem = Copied(lo, e.ptr, c)
      BY <1>6, <3>1
    <3>3. /\ e.ptr \in 0..(HeapLimit - 1) /\ e.brk \in brk..HeapLimit
          /\ e.ptr % ALIGNMENT = 0 /\ e.ptr + size <= e.brk
          /\ \A j \in Live \ {id} :
               Payload(e.ptr, size) \cap Payload(blocks[j], block_sizes[j]) = {}
      BY DEF Extents
    <3>4. e.ptr \in Int /\ e.ptr >= 0
      BY <1>1, <3>3
    <3>5. \A k \in 0..(c - 1) : e.ptr + k \in Heap
      BY <1>1, <1>2, <3>3 DEF Heap
    <3>6. /\ a.mem \in MemType
          /\ \A x \in Heap : x \notin Payload(a.ptr, size) => a.mem[x] = mem[x]
          /\ \A k \in 0..(Common(n, size) - 1) : a.mem[a.ptr + k] = mem[lo + k]
      BY <1>2, <1>5, <3>2, <3>4, <3>5
    <3> QED BY <2>3, <3>2, <3>3, <3>4, <3>6 DEF Answered
  <2> QED BY <2>2, <2>3
<1>8. CASE ~honest
  <2>1. a \in Careless(id, size, lo, n)
    BY <1>8 DEF Answers
  <2>2. Address \subseteq Int /\ NULL \in Int
    BY DriverAssumption DEF NULL
  <2>3. {brk, HeapLimit} \subseteq brk..HeapLimit
    BY <1>1
  <2>4. CASE \E p \in Address \cup {NULL}, b \in {brk, HeapLimit}, m \in Hit : a = Answer(p, b, m)
    <3>1. PICK p \in Address \cup {NULL}, b \in {brk, HeapLimit}, m \in Hit : a = Answer(p, b, m)
      BY <2>4
    <3>2. a.ptr = p /\ a.brk = b /\ a.mem = m
      BY <1>6, <3>1
    <3>3. m \in MemType /\ \A x \in Heap : m[x] \in {mem[x], Junk}
      BY HitFacts
    <3> QED BY <1>8, <2>2, <2>3, <3>2, <3>3 DEF Answered
  <2>5. CASE \E p \in Address, b \in {brk, HeapLimit} : a = Answer(p, b, Copied(lo, p, c))
    <3>1. PICK p \in Address, b \in {brk, HeapLimit} : a = Answer(p, b, Copied(lo, p, c))
      BY <2>5
    <3>2. a.ptr = p /\ a.brk = b /\ a.mem = Copied(lo, p, c) /\ p \in Int
      BY <1>6, <2>2, <3>1
    <3>3. a.mem \in MemType /\ \A x \in Heap : x \notin Payload(p, size) => a.mem[x] = mem[x]
      BY <1>5, <3>2
    <3> QED BY <1>8, <2>3, <3>2, <3>3 DEF Answered
  <2> QED BY <2>1, <2>4, <2>5 DEF Careless, c
<1> QED BY <1>7, <1>8

----------------------------------------------------------------------------
(***************************************************************************)
(* A request that is served                                                *)
(***************************************************************************)

\* What is known of the contents of the payloads: a live block was filled from a
\* draw before now, one on which another was laid is garbled, and none is if the
\* allocator is honest.
Watched ==
  /\ block_rand_base \in [Ids -> Nat]
  /\ clashed \subseteq Live
  /\ opts.debug # 0 =>
       /\ \A id \in Live : block_rand_base[id] \in 1..opnum
       /\ \A id \in clashed : IsBad(id)
       /\ honest => \A id \in Live : ~IsBad(id)

\* The list is that of the live blocks, if it is kept.
Ranked == IF Tracked THEN Listed(ranges, blocks, block_sizes, Live) ELSE ranges = <<>>

LEMMA SameTrace ==
  ASSUME opts' = opts, i' = i
  PROVE  /\ trace' = trace /\ Ids' = Ids
         /\ \A n : LiveAt(n)' = LiveAt(n)
         /\ Live' = LiveAt(opnum')
         /\ Placed(opnum, blocks, block_sizes, brk)' = Placed(opnum', blocks', block_sizes', brk')
<1>1. trace' = trace
  BY DEF trace
<1>2. Ids' = Ids
  BY <1>1 DEF Ids
<1>3. \A n : LiveAt(n)' = LiveAt(n)
  BY <1>1, <1>2 DEF LiveAt
<1>4. Live' = LiveAt(opnum')
  BY <1>1, <1>2 DEF Live, LiveAt
<1>5. Placed(opnum, blocks, block_sizes, brk)' = Placed(opnum', blocks', block_sizes', brk')
  BY <1>1, <1>2 DEF Placed, LiveAt, Current
<1> QED BY <1>1, <1>2, <1>3, <1>4, <1>5

\* Where the bytes of a live block lie.
LEMMA LiveBytes ==
  ASSUME Working, NEW id \in Live
  PROVE  /\ id \in Ids /\ blocks[id] \in Int /\ block_sizes[id] \in Nat /\ block_sizes[id] > 0
         /\ blocks[id] >= 0 /\ blocks[id] + block_sizes[id] <= brk
         /\ \A k \in 0..(block_sizes[id] - 1) : blocks[id] + k \in Heap
<1>1. id \in Ids /\ blocks \in [Ids -> Int] /\ block_sizes \in [Ids -> Nat]
  BY DEF Working, Placed, Live
<1>2. block_sizes[id] > 0 /\ blocks[id] >= 0 /\ blocks[id] + block_sizes[id] <= brk
  BY LiveIsLiveAt DEF Working, Placed
<1>3. blocks[id] \in Int /\ block_sizes[id] \in Nat
  BY <1>1
<1>4. brk \in 0..HeapLimit /\ HeapLimit \in Nat
  BY RangeListAssumption DEF Working
<1>5. \A k \in 0..(block_sizes[id] - 1) : blocks[id] + k \in Heap
  BY <1>2, <1>3, <1>4 DEF Heap
<1> QED BY <1>1, <1>2, <1>3, <1>5

\* A block that is reported is a live one, unless it was freed.
LEMMA BadIsLive ==
  ASSUME Working, NEW id \in Ids, Current(opnum, id), IsBad(id)
  PROVE  id \in Live
<1>1. PICK k \in 0..(block_sizes[id] - 1) : TRUE
  BY DEF IsBad, Bad, Garbled
<1>2. block_sizes[id] = Size(trace.lines, opnum, id) /\ block_sizes[id] \in Nat
  BY DEF Working, Placed
<1>3. block_sizes[id] > 0
  BY <1>1, <1>2
<1> QED BY <1>2, <1>3 DEF Live

LEMMA KeptPlaces ==
  ASSUME ScoreInv, Working, opnum < trace.num_ops, op.type # "f",
         NEW a, NEW lo, NEW n, Answered(a, op.index, op.size, lo, n),
         op.size = 0 => a.ptr = NULL, op.size > 0 => a.ptr >= 0 /\ a.ptr + op.size <= a.brk,
         Keep(a, op.index, op.size, a.mem), brk' = a.brk, opts' = opts, i' = i
  PROVE  /\ Working'
         /\ op.index \in Ids /\ op.size \in Nat
         /\ blocks'[op.index] = a.ptr /\ block_sizes'[op.index] = op.size
         /\ \A x \in Ids : x # op.index => /\ blocks'[x] = blocks[x]
                                           /\ block_sizes'[x] = block_sizes[x]
         /\ Live' = IF op.size > 0 THEN Live \cup {op.index} ELSE Live \ {op.index}
<1>1. /\ Legal(trace) /\ opnum \in Nat /\ brk \in Nat /\ HeapLimit \in Nat
      /\ trace.num_ops \in Nat
      /\ opnum + 1 \in 0..trace.num_ops
  BY TraceFacts, RangeListAssumption DEF Working
<1>2. op = trace.lines[opnum + 1]
  BY DEF op
<1>3. /\ op.index \in Ids /\ op.size \in Nat
      /\ LiveAt(opnum + 1) = IF op.size > 0 THEN LiveAt(opnum) \cup {op.index}
                             ELSE LiveAt(opnum) \ {op.index}
  BY <1>1, <1>2, RequestFacts
<1>4. blocks \in [Ids -> Int] /\ block_sizes \in [Ids -> Nat]
  BY DEF Working, Placed
<1>5. /\ blocks' = [blocks EXCEPT ![op.index] = a.ptr]
      /\ block_sizes' = [block_sizes EXCEPT ![op.index] = op.size]
      /\ opnum' = opnum + 1
  BY DEF Keep
<1>6. a.ptr \in Int /\ a.brk \in brk..HeapLimit /\ a.mem \in MemType
  BY DEF Answered
<1>7. a.brk \in Nat /\ brk <= a.brk /\ a.brk \in 0..HeapLimit
  BY <1>1, <1>6
<1>8. Placed(opnum + 1, [blocks EXCEPT ![op.index] = a.ptr],
             [block_sizes EXCEPT ![op.index] = op.size], a.brk)
  BY <1>1, <1>2, <1>6, <1>7, PlacedRequest DEF Working
<1>9. mem' \in MemType
  <2>1. opnum + 1 \in Nat
    BY <1>1
  <2>2. randomize_block(a.mem, a.ptr, op.size, opnum + 1) \in MemType
    BY <1>3, <1>6, <2>1, FilledFacts
  <2>3. mem' = a.mem \/ mem' = randomize_block(a.mem, a.ptr, op.size, opnum + 1)
    BY DEF Keep
  <2> QED BY <1>6, <2>2, <2>3
<1>10. MemType' = MemType
  BY DEF MemType, Heap
<1>11. trace' = trace /\ Live' = LiveAt(opnum + 1)
       /\ Placed(opnum, blocks, block_sizes, brk)' = Placed(opnum', blocks', block_sizes', brk')
  BY <1>5, SameTrace
<1>12. Working'
  BY <1>1, <1>5, <1>7, <1>8, <1>9, <1>11 DEF Working
<1>13. /\ blocks'[op.index] = a.ptr /\ block_sizes'[op.index] = op.size
       /\ \A x \in Ids : x # op.index => /\ blocks'[x] = blocks[x]
                                         /\ block_sizes'[x] = block_sizes[x]
  BY <1>3, <1>4, <1>5
<1> QED BY <1>3, <1>11, <1>12, <1>13, LiveIsLiveAt

\* What the new payload does to a block on which it is laid, and to the others.
LEMMA KeptBytes ==
  ASSUME ScoreInv, Working, Watched, opts.debug # 0, opnum < trace.num_ops, op.type # "f",
         NEW a, NEW lo, NEW n, Answered(a, op.index, op.size, lo, n),
         op.size = 0 => a.ptr = NULL, op.size > 0 => a.ptr >= 0 /\ a.ptr + op.size <= a.brk,
         Keep(a, op.index, op.size, a.mem), brk' = a.brk, opts' = opts, i' = i,
         NEW x \in Live, x # op.index
  PROVE  /\ IsBad(x) => IsBad(x)'
         /\ x \in Under(op.index, a.ptr, op.size) => IsBad(x)'
         /\ honest /\ ~IsBad(x) => ~IsBad(x)'
<1> DEFINE lx == blocks[x]  sx == block_sizes[x]  bx == block_rand_base[x]
           p == a.ptr  size == op.size  P == Payload(p, size)
<1>1. /\ lx \in Int /\ sx \in Nat /\ x \in Ids /\ lx >= 0
      /\ \A k \in 0..(sx - 1) : lx + k \in Heap
  BY LiveBytes
<1>2. bx \in 1..opnum /\ opnum \in Nat /\ opnum + 1 \in Nat
  BY DEF Watched, Working
<1>3. size \in Nat /\ op.index \in Ids /\ p \in Int /\ a.mem \in MemType
  <2>1. op.size \in Nat /\ op.index \in Ids
    BY KeptPlaces
  <2>2. a.ptr \in Int /\ a.mem \in MemType
    BY DEF Answered
  <2> QED BY <2>1, <2>2
<1>4. mem' = randomize_block(a.mem, p, size, opnum + 1)
  BY DEF Keep
<1>5. \A y \in Heap : mem'[y] = IF y \in P THEN <<opnum + 1, y - p>> ELSE a.mem[y]
  <2>1. \A y \in Heap :
           LET r == randomize_block(a.mem, a.ptr, op.size, opnum + 1)
           IN /\ y \in Payload(a.ptr, op.size) => r[y] = <<opnum + 1, y - a.ptr>>
              /\ y \notin Payload(a.ptr, op.size) => r[y] = a.mem[y]
    BY <1>2, <1>3, FilledFacts
  <2> QED BY <1>4, <2>1
<1>6. blocks'[x] = lx /\ block_sizes'[x] = sx
  BY <1>1, KeptPlaces
<1>7. block_rand_base'[x] = bx
  BY <1>1 DEF Keep, Watched
<1>8. /\ IsBad(x) <=> x >= 0 /\ Garbled(mem, lx, sx, bx)
      /\ IsBad(x)' <=> x >= 0 /\ Garbled(mem', lx, sx, bx)
  BY <1>6, <1>7 DEF IsBad, Bad, Garbled
<1>9. x >= 0
  BY <1>1, TraceFacts DEF Ids
<1>10. \A k \in 0..(sx - 1) : lx + k \in P => mem'[lx + k] # <<bx, k>>
  <2> SUFFICES ASSUME NEW k \in 0..(sx - 1), lx + k \in P PROVE mem'[lx + k] # <<bx, k>>
    OBVIOUS
  <2>1. mem'[lx + k] = <<opnum + 1, (lx + k) - p>>
    BY <1>1, <1>5
  <2>2. opnum + 1 # bx
    BY <1>2
  <2> QED BY <2>1, <2>2
<1>11. \A y \in Heap : y \notin P => a.mem[y] \in {mem[y], Junk} /\ (honest => a.mem[y] = mem[y])
  BY DEF Answered
<1>12. \A k : Junk # <<bx, k>>
  <2>1. bx # 0
    BY <1>2
  <2> QED BY <2>1 DEF Junk
<1> HIDE DEF lx, sx, bx, p, size, P
<1>13. ASSUME IsBad(x) PROVE Garbled(mem', lx, sx, bx)
  <2>1. PICK k \in 0..(sx - 1) : mem[lx + k] # <<bx, k>>
    BY <1>8, <1>13 DEF Garbled
  <2>2. mem'[lx + k] # <<bx, k>>
    BY <1>1, <1>5, <1>10, <1>11, <1>12, <2>1
  <2> QED BY <2>2 DEF Garbled
<1>14. ASSUME x \in Under(op.index, a.ptr, op.size) PROVE Garbled(mem', lx, sx, bx)
  <2>1. P \cap Payload(lx, sx) # {}
    BY <1>14 DEF Under, P, p, size, lx, sx
  <2>2. PICK y \in P : y \in lx..(lx + sx - 1)
    BY <2>1 DEF Payload
  <2>3. y - lx \in 0..(sx - 1) /\ lx + (y - lx) = y
    BY <1>1, <2>2
  <2>4. mem'[lx + (y - lx)] # <<bx, y - lx>>
    BY <1>10, <2>2, <2>3
  <2> QED BY <2>3, <2>4 DEF Garbled
<1>15. ASSUME honest, ~IsBad(x) PROVE ~Garbled(mem', lx, sx, bx)
  <2> SUFFICES ASSUME NEW k \in 0..(sx - 1), mem'[lx + k] # <<bx, k>> PROVE FALSE
    BY DEF Garbled
  <2>1. mem[lx + k] = <<bx, k>>
    BY <1>8, <1>9, <1>15 DEF Garbled
  <2>2. size > 0 => P \cap Payload(lx, sx) = {}
    BY <1>15 DEF Answered, P, p, size, lx, sx
  <2>3. size = 0 => P = {}
    BY <1>3 DEF P, Payload
  <2>4. lx + k \in Payload(lx, sx) /\ (size > 0 \/ size = 0)
    BY <1>1, <1>3 DEF Payload, size
  <2>5. lx + k \notin P
    BY <2>2, <2>3, <2>4
  <2>6. mem'[lx + k] = mem[lx + k]
    BY <1>1, <1>5, <1>11, <1>15, <2>5
  <2> QED BY <2>1, <2>6
<1> QED BY <1>8, <1>9, <1>13, <1>14, <1>15

LEMMA KeptWatched ==
  ASSUME ScoreInv, Working, Watched, opnum < trace.num_ops, op.type # "f",
         NEW a, NEW lo, NEW n, Answered(a, op.index, op.size, lo, n),
         op.size = 0 => a.ptr = NULL, op.size > 0 => a.ptr >= 0 /\ a.ptr + op.size <= a.brk,
         Keep(a, op.index, op.size, a.mem), brk' = a.brk, opts' = opts, i' = i,
         honest' = honest
  PROVE  Watched'
<1> DEFINE id == op.index
           U == Under(id, a.ptr, op.size)
<1>1. /\ Working' /\ id \in Ids /\ op.size \in Nat
      /\ blocks'[id] = a.ptr /\ block_sizes'[id] = op.size
      /\ Live' = IF op.size > 0 THEN Live \cup {id} ELSE Live \ {id}
  BY KeptPlaces
<1>2. opnum \in Nat /\ opnum + 1 \in Nat /\ a.ptr \in Int /\ a.mem \in MemType
  BY DEF Working, Answered
<1>3. clashed' = (clashed \ {id}) \cup U /\ opnum' = opnum + 1
  BY DEF Keep
<1>4. U \subseteq Live \ {id} /\ clashed \subseteq Live
  BY DEF Under, Watched
<1>5. U = Under(id, a.ptr, op.size)
  OBVIOUS
<1> HIDE DEF U
<1>6. clashed' \subseteq Live'
  BY <1>1, <1>3, <1>4
<1>7. block_rand_base' \in [Ids -> Nat]
  <2>1. CASE opts.debug = 0
    BY <2>1 DEF Keep, Watched
  <2>2. CASE opts.debug # 0
    BY <2>2, <1>2 DEF Keep, Watched
  <2> QED BY <2>1, <2>2
<1>8. ASSUME opts.debug # 0
      PROVE  /\ \A x \in Live' : block_rand_base'[x] \in 1..opnum'
             /\ \A x \in clashed' : IsBad(x)'
             /\ honest => \A x \in Live' : ~IsBad(x)'
  <2>1. \A x \in Live \ {id} :
          /\ IsBad(x) => IsBad(x)'
          /\ x \in U => IsBad(x)'
          /\ honest /\ ~IsBad(x) => ~IsBad(x)'
    BY <1>5, <1>8, KeptBytes
  <2>2. /\ block_rand_base' = [block_rand_base EXCEPT ![id] = opnum + 1]
        /\ mem' = randomize_block(a.mem, a.ptr, op.size, opnum + 1)
    BY <1>8 DEF Keep
  <2>3. block_rand_base'[id] = opnum + 1
        /\ \A x \in Ids : x # id => block_rand_base'[x] = block_rand_base[x]
    BY <1>1, <2>2 DEF Watched
  <2>4. \A x \in Live : x \in Ids /\ block_rand_base[x] \in 1..opnum
    BY <1>8 DEF Watched, Live
  <2>5. ASSUME NEW x \in Live' PROVE block_rand_base'[x] \in 1..opnum'
    <3>1. x = id \/ (x \in Live /\ x # id)
      BY <1>1, <2>5
    <3>2. \A b \in 1..opnum : b \in 1..(opnum + 1)
      BY <1>2
    <3>3. opnum + 1 \in 1..(opnum + 1)
      BY <1>2
    <3> QED BY <1>3, <2>3, <2>4, <3>1, <3>2, <3>3
  <2>6. \A x \in clashed : IsBad(x)
    BY <1>8 DEF Watched
  <2>7. ASSUME NEW x \in clashed' PROVE IsBad(x)'
    BY <1>3, <1>4, <2>1, <2>6, <2>7
  <2>8. ASSUME honest, NEW x \in Live' PROVE ~IsBad(x)'
    <3>1. CASE x \in Live \ {id}
      <4>1. ~IsBad(x)
        BY <1>8, <2>8, <3>1 DEF Watched
      <4> QED BY <2>1, <2>8, <3>1, <4>1
    <3>2. CASE x = id
      <4> SUFFICES ASSUME Garbled(mem', a.ptr, op.size, opnum + 1) PROVE FALSE
        BY <1>1, <2>3, <3>2 DEF IsBad, Bad, Garbled
      <4>1. PICK k \in 0..(op.size - 1) : mem'[a.ptr + k] # <<opnum + 1, k>>
        BY DEF Garbled
      <4>2. id \in Live'
        BY <2>8, <3>2
      <4>3. a.ptr + k \in Heap
        <5>1. op.size > 0 /\ brk' \in 0..HeapLimit /\ HeapLimit \in Nat
          BY <1>1, <4>1, RangeListAssumption DEF Working
        <5>2. a.ptr >= 0 /\ a.ptr + op.size <= brk'
          BY <5>1
        <5> QED BY <1>1, <1>2, <5>1, <5>2 DEF Heap
      <4>4. a.ptr + k \in Payload(a.ptr, op.size) /\ (a.ptr + k) - a.ptr = k
        BY <1>1, <1>2 DEF Payload
      <4>5. mem'[a.ptr + k] = <<opnum + 1, (a.ptr + k) - a.ptr>>
        <5>1. randomize_block(a.mem, a.ptr, op.size, opnum + 1)[a.ptr + k] = <<opnum + 1, k>>
          BY <1>1, <1>2, <4>3, FilledByte
        <5> QED BY <2>2, <4>4, <5>1
      <4> QED BY <4>1, <4>4, <4>5
    <3>3. x \in Live \ {id} \/ x = id
      BY <1>1, <2>8
    <3> QED BY <3>1, <3>2, <3>3
  <2> QED BY <2>5, <2>7, <2>8
<1>9. Ids' = Ids
  BY SameTrace
<1> QED BY <1>6, <1>7, <1>8, <1>9 DEF Watched

----------------------------------------------------------------------------
(***************************************************************************)
(* The list at a request                                                   *)
(***************************************************************************)

\* rs is the list without block id.
RankedOthers(rs, id) ==
  IF Tracked THEN Listed(rs, blocks, block_sizes, Live \ {id}) ELSE rs = <<>>

LEMMA RestRanked ==
  ASSUME Working, Ranked, NEW id \in Ids, Current(opnum, id)
  PROVE  RankedOthers(remove_range(ranges, blocks[id]), id)
<1>1. CASE Tracked /\ id \in Live
  <2>1. Listed(ranges, blocks, block_sizes, Live)
    BY <1>1 DEF Ranked
  <2>2. Listed(remove_range(ranges, blocks[id]), blocks, block_sizes, Live \ {id})
    BY <1>1, <2>1, ListedWithout
  <2> QED BY <1>1, <2>2 DEF RankedOthers
<1>2. CASE Tracked /\ id \notin Live
  <2>1. Listed(ranges, blocks, block_sizes, Live)
    BY <1>2 DEF Ranked
  <2>2. blocks[id] = NULL
    <3>1. block_sizes[id] = Size(trace.lines, opnum, id) /\ block_sizes[id] \in Nat
          /\ (block_sizes[id] = 0 => blocks[id] = NULL)
      BY DEF Working, Placed
    <3>2. ~(block_sizes[id] > 0)
      BY <1>2, <3>1 DEF Live
    <3> QED BY <3>1, <3>2
  <2>3. \A x \in Live : blocks[x] # NULL
    <3> SUFFICES ASSUME NEW x \in Live PROVE blocks[x] # NULL
      OBVIOUS
    <3>1. blocks[x] \in Int /\ blocks[x] >= 0
      BY LiveBytes
    <3> QED BY <3>1 DEF NULL
  <2>4. remove_range(ranges, blocks[id]) = ranges
    BY <2>1, <2>2, <2>3, ListedWithoutNone
  <2>5. Live \ {id} = Live
    BY <1>2
  <2> QED BY <1>2, <2>1, <2>4, <2>5 DEF RankedOthers
<1>3. CASE ~Tracked
  <2>1. ranges = <<>> /\ ranges \in Seq({}) /\ Len(ranges) = 0 /\ 1..0 = {}
    BY <1>3 DEF Ranked
  <2>2. remove_range(ranges, blocks[id]) = ranges
    BY <2>1, RangeRemoved
  <2> QED BY <1>3, <2>1, <2>2 DEF RankedOthers
<1> QED BY <1>1, <1>2, <1>3

LEMMA AllRanked ==
  ASSUME Ranked, NEW id, id \notin Live
  PROVE  RankedOthers(ranges, id)
<1>1. Live \ {id} = Live
  OBVIOUS
<1> QED BY <1>1 DEF Ranked, RankedOthers

\* A payload that is not refused lies in the heap and touches none of the list.
LEMMA NotRefused ==
  ASSUME NEW rs, NEW p \in Int, NEW size \in Nat, NEW b \in Nat, ~Refused(rs, p, size, b)
  PROVE  p >= 0 /\ p + size <= b /\ \A j \in DOMAIN rs : ~Touches(rs[j], p, p + size - 1)
<1>1. InHeap(p, size, b)
  BY DEF Refused
<1>2. p >= 0 /\ p + size <= b
  BY <1>1 DEF InHeap
<1> QED BY <1>2 DEF Refused

\* add_range takes what an honest allocator gives.
LEMMA HonestTaken ==
  ASSUME Working, honest, NEW id, NEW size \in Nat, size > 0, NEW a, NEW lo, NEW n,
         Answered(a, id, size, lo, n), NEW rs, RankedOthers(rs, id)
  PROVE  ~Refused(rs, a.ptr, size, a.brk)
<1>1. /\ a.ptr \in Int /\ a.brk \in brk..HeapLimit
      /\ a.ptr >= 0 /\ a.ptr % ALIGNMENT = 0 /\ a.ptr + size <= a.brk
      /\ \A j \in Live \ {id} :
           Payload(a.ptr, size) \cap Payload(blocks[j], block_sizes[j]) = {}
  BY DEF Answered
<1>2. brk \in 0..HeapLimit /\ HeapLimit \in Nat
  BY RangeListAssumption DEF Working
<1>3. InHeap(a.ptr, size, a.brk)
  BY <1>1, <1>2 DEF InHeap
<1>4. ASSUME NEW j \in DOMAIN rs PROVE ~Touches(rs[j], a.ptr, a.ptr + size - 1)
  <2>1. CASE Tracked
    <3>1. Listed(rs, blocks, block_sizes, Live \ {id})
      BY <2>1 DEF RankedOthers
    <3>2. j \in 1..Len(rs)
      BY <3>1 DEF Listed
    <3> DEFINE x == rs[j].index
    <3>3. x \in Live \ {id} /\ rs[j] = RangeOf(blocks, block_sizes, x)
      BY <3>1, <3>2 DEF Listed
    <3>4. blocks[x] \in Int /\ block_sizes[x] \in Nat
      BY <3>3, LiveBytes
    <3>5. rs[j].lo = blocks[x] /\ rs[j].hi = blocks[x] + block_sizes[x] - 1
      BY <3>3 DEF RangeOf
    <3> HIDE DEF x
    <3>6. \A y \in a.ptr..(a.ptr + size - 1) :
            ~(y >= blocks[x] /\ y <= blocks[x] + block_sizes[x] - 1)
      <4> SUFFICES ASSUME NEW y \in a.ptr..(a.ptr + size - 1),
                          y >= blocks[x], y <= blocks[x] + block_sizes[x] - 1
                   PROVE  FALSE
        OBVIOUS
      <4>1. y \in Payload(a.ptr, size)
        BY DEF Payload
      <4>2. y \in Payload(blocks[x], block_sizes[x])
        BY <1>1, <3>4 DEF Payload
      <4>3. Payload(a.ptr, size) \cap Payload(blocks[x], block_sizes[x]) = {}
        BY <1>1, <3>3
      <4> QED BY <4>1, <4>2, <4>3
    <3>7. a.ptr \in a.ptr..(a.ptr + size - 1) /\ a.ptr + size - 1 \in a.ptr..(a.ptr + size - 1)
      BY <1>1
    <3>8. /\ ~(a.ptr >= rs[j].lo /\ a.ptr <= rs[j].hi)
          /\ ~(a.ptr + size - 1 >= rs[j].lo /\ a.ptr + size - 1 <= rs[j].hi)
      BY <3>5, <3>6, <3>7
    <3> QED BY <3>8 DEF Touches
  <2>2. CASE ~Tracked
    <3>1. rs = <<>>
      BY <2>2 DEF RankedOthers
    <3> QED BY <3>1
  <2> QED BY <2>1, <2>2
<1> QED BY <1>1, <1>3, <1>4 DEF Refused

LEMMA KeptRanked ==
  ASSUME ScoreInv, Working, opnum < trace.num_ops, op.type # "f",
         NEW a, NEW lo, NEW n, Answered(a, op.index, op.size, lo, n),
         op.size = 0 => a.ptr = NULL, op.size > 0 => a.ptr >= 0 /\ a.ptr + op.size <= a.brk,
         Keep(a, op.index, op.size, a.mem), brk' = a.brk, opts' = opts, i' = i,
         NEW rs, RankedOthers(rs, op.index), Ranged(rs, a, op.size, op.index),
         op.size > 0 => \A j \in DOMAIN rs : ~Touches(rs[j], a.ptr, a.ptr + op.size - 1)
  PROVE  Ranked'
<1> DEFINE id == op.index
           I == Live \ {id}
<1>1. /\ id \in Ids /\ op.size \in Nat
      /\ blocks'[id] = a.ptr /\ block_sizes'[id] = op.size
      /\ \A x \in Ids : x # id => blocks'[x] = blocks[x] /\ block_sizes'[x] = block_sizes[x]
      /\ Live' = IF op.size > 0 THEN Live \cup {id} ELSE Live \ {id}
  BY KeptPlaces
<1>2. Tracked' = Tracked
  BY SameTrace DEF Tracked
<1>3. I \subseteq Ids /\ id \notin I /\ id \in Int
  BY <1>1, TraceFacts DEF Live, Ids
<1>4. \A x \in I : blocks'[x] = blocks[x] /\ block_sizes'[x] = block_sizes[x]
  BY <1>1, <1>3
<1>5. \A x \in I : blocks[x] \in Int /\ block_sizes[x] \in Nat /\ block_sizes[x] > 0
  BY LiveBytes
<1>6. a.ptr \in Int
  BY DEF Answered
<1>7. CASE Tracked /\ op.size > 0
  <2>1. Listed(rs, blocks, block_sizes, I)
    BY <1>7 DEF RankedOthers
  <2>2. ranges' = WithRange(rs, a.ptr, op.size, id)
    BY <1>7 DEF Ranged
  <2>3. Live' = I \cup {id}
    BY <1>1, <1>7
  <2> HIDE DEF id, I
  <2>4. Listed(WithRange(rs, a.ptr, op.size, id), blocks', block_sizes', I \cup {id})
    BY <1>1, <1>3, <1>4, <1>5, <1>6, <1>7, <2>1, ListedWith DEF id
  <2> QED BY <1>2, <1>7, <2>2, <2>3, <2>4 DEF Ranked, Listed
<1>8. CASE Tracked /\ ~(op.size > 0)
  <2>1. Listed(rs, blocks, block_sizes, I)
    BY <1>8 DEF RankedOthers
  <2>2. ranges' = rs /\ Live' = I
    BY <1>1, <1>8 DEF Ranged
  <2> HIDE DEF id, I
  <2>3. Listed(rs, blocks', block_sizes', I)
    BY <1>4, <2>1, ListedSame
  <2> QED BY <1>2, <1>8, <2>2, <2>3 DEF Ranked, Listed
<1>9. CASE ~Tracked
  <2>1. ranges' = <<>>
    BY <1>9 DEF Ranged, RankedOthers
  <2> QED BY <1>2, <1>9, <2>1 DEF Ranked
<1> QED BY <1>7, <1>8, <1>9

----------------------------------------------------------------------------
(***************************************************************************)
(* The steps of eval_mm_valid                                              *)
(***************************************************************************)
LEMMA SurveyedLive ==
  ASSUME Ranked
  PROVE  /\ Surveyed \subseteq Live
         /\ opts.debug = 2 /\ Tracked => Surveyed = Live
<1>1. CASE Tracked
  <2>1. Listed(ranges, blocks, block_sizes, Live)
    BY <1>1 DEF Ranked
  <2>2. DOMAIN ranges = 1..Len(ranges)
    BY <2>1 DEF Listed
  <2>3. \A j \in 1..Len(ranges) : ranges[j].index \in Live
    BY <2>1 DEF Listed
  <2>4. \A id \in Live : \E j \in 1..Len(ranges) : ranges[j].index = id
    BY <2>1 DEF Listed
  <2> QED BY <2>2, <2>3, <2>4 DEF Surveyed
<1>2. CASE ~Tracked
  <2>1. ranges = <<>> /\ DOMAIN ranges = {}
    BY <1>2 DEF Ranked
  <2> QED BY <1>2, <2>1 DEF Surveyed
<1> QED BY <1>1, <1>2

LEMMA NoReports ==
  ASSUME NEW ids, \A id \in ids : ~IsBad(id)
  PROVE  Reports(ids) = 0
<1>1. {id \in ids : IsBad(id)} = {}
  OBVIOUS
<1> QED BY <1>1, FS_EmptySet DEF Reports

LEMMA SomeReport ==
  ASSUME NEW ids, Reports(ids) \in Nat, IsFiniteSet(ids), NEW id \in ids, IsBad(id)
  PROVE  Reports(ids) > 0
<1> DEFINE B == {x \in ids : IsBad(x)}
<1>1. id \in B
  OBVIOUS
<1>2. IsFiniteSet(B)
  BY FS_Subset
<1>3. Reports(ids) = Cardinality(B)
  BY DEF Reports
<1> HIDE DEF B
<1>4. Cardinality(B) # 0
  BY <1>1, <1>2, FS_EmptySet
<1> QED BY <1>3, <1>4

Judging == Working /\ Watched /\ Ranked
Unblamed == honest /\ alarm # "rung" => errors = 0

\* What OverlapsSurface says of a step.
Surfaces ==
  /\ opts.debug # 0 /\ ~(clashed \subseteq clashed' \cup {-1}) => errors' > errors
  /\ opts.debug = 2 /\ Tracked /\ clashed # {} => errors' > errors
  /\ Tracked => \A id \in clashed' \ clashed :
       /\ blocks'[op.index] < blocks[id]
       /\ blocks'[op.index] + op.size > blocks[id] + block_sizes[id]

\* What a request keeps.
RequestKeeps ==
  /\ phase' = "free" \/ (phase' = "valid" /\ Judging' /\ Surfaces)
  /\ brk' \in 0..HeapLimit /\ mem' \in MemType
  /\ Unblamed'

\* With ranges kept, a new payload that is laid on a block encloses it.
LEMMA Enclosed ==
  ASSUME Working, NEW id, NEW p \in Int, NEW size \in Nat, NEW rs, RankedOthers(rs, id), Tracked,
         size > 0 => \A j \in DOMAIN rs : ~Touches(rs[j], p, p + size - 1),
         NEW x \in Under(id, p, size)
  PROVE  p < blocks[x] /\ p + size > blocks[x] + block_sizes[x]
<1>1. x \in Live \ {id} /\ Payload(p, size) \cap Payload(blocks[x], block_sizes[x]) # {}
  BY DEF Under
<1>2. blocks[x] \in Int /\ block_sizes[x] \in Nat /\ block_sizes[x] > 0
  BY <1>1, LiveBytes
<1>3. PICK y \in p..(p + size - 1) : y \in blocks[x]..(blocks[x] + block_sizes[x] - 1)
  BY <1>1 DEF Payload
<1>4. size > 0
  BY <1>3
<1>5. Listed(rs, blocks, block_sizes, Live \ {id})
  BY DEF RankedOthers
<1>6. PICK j \in 1..Len(rs) : rs[j].index = x
  BY <1>1, <1>5 DEF Listed
<1>7. rs[j] = RangeOf(blocks, block_sizes, x) /\ j \in DOMAIN rs
  BY <1>5, <1>6 DEF Listed
<1>8. rs[j].lo = blocks[x] /\ rs[j].hi = blocks[x] + block_sizes[x] - 1
  BY <1>7 DEF RangeOf
<1>9. ~Touches(rs[j], p, p + size - 1)
  BY <1>4, <1>7
<1>10. /\ ~(p >= blocks[x] /\ p <= blocks[x] + block_sizes[x] - 1)
       /\ ~(p + size - 1 >= blocks[x] /\ p + size - 1 <= blocks[x] + block_sizes[x] - 1)
  BY <1>8, <1>9 DEF Touches
<1> DEFINE lx == blocks[x]  sx == block_sizes[x]
<1>11. lx \in Int /\ sx \in Nat /\ sx > 0 /\ y \in p..(p + size - 1) /\ y \in lx..(lx + sx - 1)
       /\ ~(p >= lx /\ p <= lx + sx - 1) /\ ~(p + size - 1 >= lx /\ p + size - 1 <= lx + sx - 1)
  BY <1>2, <1>3, <1>10
<1> HIDE DEF lx, sx
<1>12. p < lx /\ p + size > lx + sx
  BY <1>11
<1> QED BY <1>12 DEF lx, sx

\* A block on which another was laid is reported by the survey.
LEMMA SurveyReports ==
  ASSUME ScoreInv, Judging, opts.debug = 2, Tracked, clashed # {}
  PROVE  Reports(Surveyed) > 0
<1>1. PICK x \in clashed : TRUE
  OBVIOUS
<1>2. opts.debug # 0 /\ x \in Live /\ IsBad(x)
  BY <1>1 DEF Judging, Watched
<1>3. x \in Surveyed
  BY <1>2, SurveyedLive DEF Judging
<1>4. Reports(Surveyed) \in Nat
  BY RangesInv, ReportsNatural DEF RangesSeq
<1>5. IsFiniteSet(Surveyed)
  <2>1. Surveyed \subseteq Live /\ Live \subseteq Ids
    BY SurveyedLive DEF Judging, Live
  <2>2. IsFiniteSet(Ids)
    BY TraceFacts, FS_Interval DEF Ids
  <2> QED BY <2>1, <2>2, FS_Subset
<1> QED BY <1>2, <1>3, <1>4, <1>5, SomeReport

LEMMA HonestNoReports ==
  ASSUME Judging, honest
  PROVE  /\ \A id \in Live : ~IsBad(id)
         /\ Reports(Surveyed) = 0
<1>1. \A id \in Live : ~IsBad(id)
  BY DEF Judging, Watched, IsBad, Bad
<1>2. Surveyed \subseteq Live
  BY SurveyedLive DEF Judging
<1> QED BY <1>1, <1>2, NoReports

\* A request is answered with a and kept, and e errors are reported.
LEMMA ServedKeeps ==
  ASSUME ScoreInv, Judging, Unblamed, opnum < trace.num_ops, op.type # "f",
         NEW a, NEW lo, NEW n, Answered(a, op.index, op.size, lo, n),
         op.size = 0 => a.ptr = NULL, op.size > 0 => a.ptr >= 0 /\ a.ptr + op.size <= a.brk,
         Keep(a, op.index, op.size, a.mem), brk' = a.brk, opts' = opts, i' = i,
         honest' = honest, alarm' = alarm, phase' = "valid",
         NEW rs, RankedOthers(rs, op.index), Ranged(rs, a, op.size, op.index),
         op.size > 0 => \A j \in DOMAIN rs : ~Touches(rs[j], a.ptr, a.ptr + op.size - 1),
         NEW e \in Nat, malloc_error(e),
         opts.debug # 0 /\ op.index \in clashed => e > 0,
         opts.debug = 2 /\ Tracked /\ clashed # {} => e > 0,
         honest => e = 0
  PROVE  RequestKeeps
<1>0. Working /\ Watched /\ Ranked /\ errors \in Nat /\ errors' = errors + e
  BY DEF Judging, ScoreInv, malloc_error
<1>1. Working' /\ op.size \in Nat /\ blocks'[op.index] = a.ptr
  BY <1>0, KeptPlaces
<1>2. Watched'
  BY <1>0, KeptWatched
<1>3. Ranked'
  BY <1>0, KeptRanked
<1>4. Unblamed'
  BY <1>0 DEF Unblamed
<1>5. clashed' = (clashed \ {op.index}) \cup Under(op.index, a.ptr, op.size)
  BY DEF Keep
<1>6. opts.debug # 0 /\ ~(clashed \subseteq clashed' \cup {-1}) => errors' > errors
  <2> SUFFICES ASSUME opts.debug # 0, ~(clashed \subseteq clashed' \cup {-1})
               PROVE  errors' > errors
    OBVIOUS
  <2>1. op.index \in clashed
    BY <1>5
  <2>2. e > 0
    BY <2>1
  <2> QED BY <1>0, <2>2
<1>7. opts.debug = 2 /\ Tracked /\ clashed # {} => errors' > errors
  BY <1>0
<1>8. a.ptr \in Int
  BY DEF Answered
<1>9. ASSUME Tracked, NEW x \in clashed' \ clashed
      PROVE  blocks'[op.index] < blocks[x] /\ blocks'[op.index] + op.size > blocks[x] + block_sizes[x]
  <2>1. x \in Under(op.index, a.ptr, op.size)
    BY <1>5
  <2>2. a.ptr < blocks[x] /\ a.ptr + op.size > blocks[x] + block_sizes[x]
    BY <1>0, <1>1, <1>8, <1>9, <2>1, Enclosed
  <2> QED BY <1>1, <2>2
<1>10. Surfaces
  BY <1>6, <1>7, <1>9 DEF Surfaces
<1>11. MemType' = MemType
  BY DEF MemType, Heap
<1>12. brk' \in 0..HeapLimit /\ mem' \in MemType
  BY <1>1, <1>11 DEF Working
<1> QED BY <1>1, <1>2, <1>3, <1>4, <1>10, <1>12 DEF RequestKeeps, Judging

\* A request is answered with a, and the evaluation ends.
LEMMA FailKeeps ==
  ASSUME Working, ~honest, NEW a, NEW lo, NEW n, Answered(a, op.index, op.size, lo, n),
         Fail(a), brk' = a.brk, honest' = honest
  PROVE  RequestKeeps
<1>1. phase' = "free" /\ mem' = a.mem
  BY DEF Fail, Judged
<1>2. a.brk \in brk..HeapLimit /\ a.mem \in MemType /\ brk \in 0..HeapLimit /\ HeapLimit \in Nat
  BY RangeListAssumption DEF Answered, Working
<1>3. brk' \in 0..HeapLimit
  BY <1>2
<1> QED BY <1>1, <1>2, <1>3 DEF RequestKeeps, Unblamed

LEMMA ValidAllocKeeps ==
  ASSUME ScoreInv, Judging, Unblamed, ValidAlloc
  PROVE  RequestKeeps
<1>1. /\ phase = "valid" /\ Requested("a")
      /\ opts' = opts /\ honest' = honest /\ i' = i /\ alarm' = alarm
  BY DEF ValidAlloc, fixed
<1>2. opnum < trace.num_ops /\ op.type = "a" /\ opnum \in Nat /\ Legal(trace) /\ Working
  BY <1>1 DEF Requested, Judging, Working
<1>3. op = trace.lines[opnum + 1]
  BY DEF op
<1>4. /\ op.size \in Nat /\ op.index \in Ids
      /\ op.size > 0 /\ op.index \notin LiveAt(opnum)
  BY <1>2, <1>3, RequestFacts
<1>5. RankedOthers(ranges, op.index)
  BY <1>4, LiveIsLiveAt, AllRanked DEF Judging
<1>6. PICK a \in Answers(op.index, op.size, NULL, 0) :
        /\ brk' = a.brk
        /\ IF a.ptr = NULL \/ Refused(ranges, a.ptr, op.size, a.brk)
           THEN /\ malloc_error(Reports(Surveyed) + 1)
                /\ Fail(a)
                /\ UNCHANGED ranges
           ELSE /\ malloc_error(Reports(Surveyed))
                /\ Ranged(ranges, a, op.size, op.index)
                /\ Keep(a, op.index, op.size, a.mem)
                /\ UNCHANGED <<phase, mm_stats>>
  BY DEF ValidAlloc
<1>7. Answered(a, op.index, op.size, NULL, 0)
  <2>1. NULL \in Int /\ 0 \in Nat /\ ~(0 > 0)
    BY DEF NULL
  <2> QED BY <1>2, <1>4, <1>6, <2>1, AnswerFacts
<1>8. a.ptr \in Int /\ a.brk \in Nat
  <2>1. brk \in 0..HeapLimit /\ a.brk \in brk..HeapLimit /\ HeapLimit \in Nat /\ a.ptr \in Int
    BY <1>2, <1>7, RangeListAssumption DEF Answered, Working
  <2> QED BY <2>1
<1>9. CASE a.ptr = NULL \/ Refused(ranges, a.ptr, op.size, a.brk)
  <2>1. ~honest
    <3> SUFFICES ASSUME honest PROVE FALSE
      OBVIOUS
    <3>1. a.ptr >= 0
      BY <1>4, <1>7 DEF Answered
    <3>2. a.ptr # NULL
      BY <1>8, <3>1 DEF NULL
    <3>3. ~Refused(ranges, a.ptr, op.size, a.brk)
      BY <1>2, <1>4, <1>5, <1>7, HonestTaken
    <3> QED BY <1>9, <3>2, <3>3
  <2>2. Fail(a)
    BY <1>6, <1>9
  <2> QED BY <1>1, <1>2, <1>6, <1>7, <2>1, <2>2, FailKeeps
<1>10. CASE ~(a.ptr = NULL \/ Refused(ranges, a.ptr, op.size, a.brk))
  <2>1. /\ a.ptr >= 0 /\ a.ptr + op.size <= a.brk
        /\ \A j \in DOMAIN ranges : ~Touches(ranges[j], a.ptr, a.ptr + op.size - 1)
    BY <1>4, <1>8, <1>10, NotRefused
  <2>2. /\ malloc_error(Reports(Surveyed))
        /\ Ranged(ranges, a, op.size, op.index)
        /\ Keep(a, op.index, op.size, a.mem)
        /\ phase' = "valid" /\ brk' = a.brk
    BY <1>1, <1>6, <1>10
  <2>3. Reports(Surveyed) \in Nat
    BY RangesInv, ReportsNatural DEF RangesSeq
  <2>4. opts.debug = 2 /\ Tracked /\ clashed # {} => Reports(Surveyed) > 0
    BY SurveyReports
  <2>5. honest => Reports(Surveyed) = 0
    BY HonestNoReports
  <2>6. op.index \notin clashed
    BY <1>4, LiveIsLiveAt DEF Judging, Watched
  <2>7. op.size # 0 /\ op.type # "f"
    BY <1>2, <1>4
  <2> QED BY <1>1, <1>2, <1>5, <1>7, <2>1, <2>2, <2>3, <2>4, <2>5, <2>6, <2>7, ServedKeeps
<1> QED BY <1>9, <1>10

\* A block that the program may pass on is no longer than its place.
LEMMA OldBlock ==
  ASSUME Working, NEW id \in Ids, Current(opnum, id)
  PROVE  /\ blocks[id] \in Int /\ block_sizes[id] \in Nat
         /\ block_sizes[id] > 0 => /\ id \in Live
                                   /\ blocks[id] >= 0 /\ blocks[id] + block_sizes[id] <= brk
<1>1. /\ blocks[id] \in Int /\ block_sizes[id] \in Nat
      /\ block_sizes[id] = Size(trace.lines, opnum, id)
  BY DEF Working, Placed
<1>2. block_sizes[id] > 0 => id \in Live
  BY <1>1 DEF Live
<1> QED BY <1>1, <1>2, LiveBytes

\* What check_index says of the block of a request.
LEMMA IndexReports ==
  ASSUME ScoreInv, Judging, NEW id \in Ids, Current(opnum, id)
  PROVE  /\ Reports({id}) \in Nat
         /\ opts.debug # 0 /\ id \in clashed => Reports({id}) > 0
         /\ honest => ~IsBad(id) /\ Reports({id}) = 0
<1>1. Reports({id}) \in Nat
  BY RangesInv, ReportsNatural DEF RangesSeq
<1>2. ASSUME opts.debug # 0, id \in clashed PROVE Reports({id}) > 0
  <2>1. IsBad(id)
    BY <1>2 DEF Judging, Watched
  <2>2. IsFiniteSet({id}) /\ id \in {id}
    BY FS_Singleton
  <2> QED BY <1>1, <2>1, <2>2, SomeReport
<1>3. ASSUME honest PROVE ~IsBad(id) /\ Reports({id}) = 0
  <2>1. ~IsBad(id)
    BY <1>3, HonestNoReports, BadIsLive DEF Judging
  <2>2. \A x \in {id} : ~IsBad(x)
    BY <2>1
  <2> QED BY <2>1, <2>2, NoReports
<1> QED BY <1>1, <1>2, <1>3

LEMMA ValidReallocKeeps ==
  ASSUME ScoreInv, Judging, Unblamed, ValidRealloc
  PROVE  RequestKeeps
<1> DEFINE id == op.index
           size == op.size
           old == block_sizes[id]
           before == Reports(Surveyed) + Reports({id})
           rest == remove_range(ranges, blocks[id])
<1>1. /\ phase = "valid" /\ Requested("r")
      /\ opts' = opts /\ honest' = honest /\ i' = i /\ alarm' = alarm
  BY DEF ValidRealloc, fixed
<1>2. opnum < trace.num_ops /\ op.type = "r" /\ opnum \in Nat /\ Legal(trace) /\ Working
  BY <1>1 DEF Requested, Judging, Working
<1>3. op = trace.lines[opnum + 1]
  BY DEF op
<1>4. size \in Nat /\ id \in Ids /\ Current(opnum, id)
  <2>1. /\ op.size \in Nat
        /\ op.index \in Ids \/ (op.index = -1 /\ op.type = "f")
        /\ op.index \in Ids <=> op.index # -1
        /\ op.type # "a" /\ op.index # -1 => Current(opnum, op.index)
    BY <1>2, <1>3, RequestFacts
  <2>2. op.type # "f" /\ op.type # "a"
    BY <1>2
  <2> QED BY <2>1, <2>2
<1>5. RankedOthers(rest, id)
  BY <1>4, RestRanked DEF Judging
<1>6. PICK a \in Answers(id, size, blocks[id], old) :
          /\ brk' = a.brk
          /\ IF (a.ptr = NULL) # (size = 0)
             THEN /\ malloc_error(before + 1)
                  /\ Fail(a)
                  /\ UNCHANGED ranges
             ELSE IF size > 0 /\ Refused(rest, a.ptr, size, a.brk)
             THEN /\ malloc_error(before + 1)
                  /\ Fail(a)
                  /\ ranges' = rest
             ELSE /\ malloc_error(before +
                       IF opts.debug # 0
                          /\ Garbled(a.mem, a.ptr, Common(old, size), block_rand_base[id])
                       THEN 1 ELSE 0)
                  /\ Ranged(rest, a, size, id)
                  /\ Keep(a, id, size, a.mem)
                  /\ UNCHANGED <<phase, mm_stats>>
  BY DEF ValidRealloc
<1> HIDE DEF before, rest
<1>7. /\ blocks[id] \in Int /\ old \in Nat
      /\ old > 0 => id \in Live /\ blocks[id] >= 0 /\ blocks[id] + old <= brk
  BY <1>2, <1>4, OldBlock
<1>8. Answered(a, id, size, blocks[id], old)
  BY <1>2, <1>4, <1>6, <1>7, AnswerFacts
<1>9. a.ptr \in Int /\ a.brk \in Nat
  <2>1. brk \in 0..HeapLimit /\ a.brk \in brk..HeapLimit /\ HeapLimit \in Nat /\ a.ptr \in Int
    BY <1>2, <1>8, RangeListAssumption DEF Answered, Working
  <2> QED BY <2>1
<1>10. honest => (size = 0 => a.ptr = NULL) /\ (size # 0 => a.ptr # NULL)
                 /\ (size > 0 => ~Refused(rest, a.ptr, size, a.brk))
  <2> SUFFICES ASSUME honest
               PROVE  /\ size = 0 => a.ptr = NULL
                      /\ size # 0 => a.ptr # NULL
                      /\ size > 0 => ~Refused(rest, a.ptr, size, a.brk)
    OBVIOUS
  <2>1. (size = 0 => a.ptr = NULL) /\ (size > 0 => a.ptr >= 0)
    BY <1>8 DEF Answered
  <2>2. size # 0 => a.ptr # NULL
    BY <1>4, <1>9, <2>1 DEF NULL
  <2>3. size > 0 => ~Refused(rest, a.ptr, size, a.brk)
    BY <1>2, <1>4, <1>5, <1>8, HonestTaken
  <2> QED BY <2>1, <2>2, <2>3
<1>11. CASE (a.ptr = NULL) # (size = 0)
  <2>1. Fail(a) /\ ~honest
    BY <1>6, <1>10, <1>11
  <2> QED BY <1>1, <1>2, <1>6, <1>8, <2>1, FailKeeps
<1>12. CASE ~((a.ptr = NULL) # (size = 0)) /\ size > 0 /\ Refused(rest, a.ptr, size, a.brk)
  <2>1. Fail(a) /\ ~honest
    BY <1>6, <1>10, <1>12
  <2> QED BY <1>1, <1>2, <1>6, <1>8, <2>1, FailKeeps
<1>13. CASE ~((a.ptr = NULL) # (size = 0)) /\ ~(size > 0 /\ Refused(rest, a.ptr, size, a.brk))
  <2> DEFINE e == before + IF opts.debug # 0
                              /\ Garbled(a.mem, a.ptr, Common(old, size), block_rand_base[id])
                           THEN 1 ELSE 0
  <2>1. /\ malloc_error(e)
        /\ Ranged(rest, a, size, id)
        /\ Keep(a, id, size, a.mem)
        /\ phase' = "valid" /\ brk' = a.brk
    BY <1>1, <1>6, <1>13
  <2>2. /\ Reports(Surveyed) \in Nat /\ Reports({id}) \in Nat
        /\ opts.debug # 0 /\ id \in clashed => Reports({id}) > 0
        /\ honest => ~IsBad(id) /\ Reports({id}) = 0
    BY <1>4, RangesInv, ReportsNatural, IndexReports DEF RangesSeq
  <2>3. /\ opts.debug = 2 /\ Tracked /\ clashed # {} => Reports(Surveyed) > 0
        /\ honest => Reports(Surveyed) = 0
    BY SurveyReports, HonestNoReports
  <2>4. ASSUME honest, opts.debug # 0
        PROVE  ~Garbled(a.mem, a.ptr, Common(old, size), block_rand_base[id])
    <3> SUFFICES ASSUME NEW k \in 0..(Common(old, size) - 1),
                        a.mem[a.ptr + k] # <<block_rand_base[id], k>>
                 PROVE  FALSE
      BY DEF Garbled
    <3>1. a.mem[a.ptr + k] = mem[blocks[id] + k]
      BY <1>8, <2>4 DEF Answered
    <3>2. k \in 0..(old - 1)
      BY <1>4, <1>7 DEF Common
    <3>3. id >= 0
      BY <1>4, TraceFacts DEF Ids
    <3>4. mem[blocks[id] + k] = <<block_rand_base[id], k>>
      BY <2>2, <2>4, <3>2, <3>3 DEF IsBad, Bad, Garbled
    <3> QED BY <3>1, <3>4
  <2>5. before \in Nat
        /\ (opts.debug # 0 /\ id \in clashed => before > 0)
        /\ (opts.debug = 2 /\ Tracked /\ clashed # {} => before > 0)
        /\ (honest => before = 0)
    <3> DEFINE x == Reports(Surveyed)  y == Reports({id})
    <3>1. /\ x \in Nat /\ y \in Nat
          /\ opts.debug # 0 /\ id \in clashed => y > 0
          /\ opts.debug = 2 /\ Tracked /\ clashed # {} => x > 0
          /\ honest => x = 0 /\ y = 0
      BY <2>2, <2>3
    <3>2. before = x + y
      BY DEF before
    <3> HIDE DEF x, y
    <3> QED BY <3>1, <3>2
  <2>6. e \in Nat /\ (before > 0 => e > 0) /\ (honest => e = 0)
    <3>1. CASE opts.debug # 0 /\ Garbled(a.mem, a.ptr, Common(old, size), block_rand_base[id])
      <4>1. e = before + 1
        BY <3>1
      <4> HIDE DEF e
      <4> QED BY <2>4, <2>5, <3>1, <4>1
    <3>2. CASE ~(opts.debug # 0 /\ Garbled(a.mem, a.ptr, Common(old, size), block_rand_base[id]))
      <4>1. e = before + 0
        BY <3>2
      <4> HIDE DEF e
      <4> QED BY <2>5, <4>1
    <3> QED BY <3>1, <3>2
  <2> HIDE DEF e
  <2>7. /\ opts.debug # 0 /\ id \in clashed => e > 0
        /\ opts.debug = 2 /\ Tracked /\ clashed # {} => e > 0
        /\ honest => e = 0
    BY <2>5, <2>6
  <2>8. /\ size = 0 => a.ptr = NULL
        /\ size > 0 => /\ a.ptr >= 0 /\ a.ptr + size <= a.brk
                       /\ \A j \in DOMAIN rest : ~Touches(rest[j], a.ptr, a.ptr + size - 1)
    BY <1>4, <1>9, <1>13, NotRefused
  <2>9. op.type # "f"
    BY <1>2
  <2> QED BY <1>1, <1>2, <1>5, <1>8, <2>1, <2>6, <2>7, <2>8, <2>9, ServedKeeps
<1> QED BY <1>11, <1>12, <1>13

LEMMA ValidFreeKeeps ==
  ASSUME ScoreInv, Judging, Unblamed, ValidFree
  PROVE  RequestKeeps
<1> DEFINE id == op.index
<1>1. /\ phase = "valid" /\ phase' = "valid" /\ Requested("f")
      /\ opts' = opts /\ honest' = honest /\ i' = i /\ alarm' = alarm
      /\ brk' = brk /\ UNCHANGED blockVars
      /\ opnum' = opnum + 1 /\ clashed' = clashed \ {id}
      /\ mem' \in IF honest THEN {mem} ELSE Hit
  BY DEF ValidFree, fixed
<1>2. /\ opnum < trace.num_ops /\ op.type = "f" /\ opnum \in Nat /\ Legal(trace) /\ Working
      /\ Watched /\ Ranked /\ trace.num_ops \in Nat /\ opnum + 1 \in 0..trace.num_ops
  BY <1>1, TraceFacts DEF Requested, Judging, Working
<1>3. op = trace.lines[opnum + 1]
  BY DEF op
<1>4. /\ id \in Ids <=> id # -1
      /\ id # -1 => Current(opnum, id)
      /\ LiveAt(opnum + 1) = LiveAt(opnum) \ {id}
  <2>1. /\ op.type = "f" => op.size = 0
        /\ op.index \in Ids <=> op.index # -1
        /\ op.type # "a" /\ op.index # -1 => Current(opnum, op.index)
        /\ LiveAt(opnum + 1) = IF op.size > 0 THEN LiveAt(opnum) \cup {op.index}
                               ELSE LiveAt(opnum) \ {op.index}
    BY <1>2, <1>3, RequestFacts
  <2>2. op.size = 0 /\ ~(0 > 0) /\ op.type # "a"
    BY <1>2, <2>1
  <2> QED BY <2>1, <2>2
<1>5. blocks' = blocks /\ block_sizes' = block_sizes /\ block_rand_base' = block_rand_base
  BY <1>1 DEF blockVars
<1>6. /\ trace' = trace /\ Ids' = Ids /\ Live' = Live \ {id} /\ MemType' = MemType
      /\ Tracked' = Tracked
      /\ Placed(opnum, blocks, block_sizes, brk)' = Placed(opnum + 1, blocks, block_sizes, brk)
  <2>1. MemType' = MemType
    BY DEF MemType, Heap
  <2>2. /\ trace' = trace /\ Ids' = Ids /\ Live' = LiveAt(opnum')
        /\ Placed(opnum, blocks, block_sizes, brk)' = Placed(opnum', blocks', block_sizes', brk')
    BY <1>1, SameTrace
  <2>3. Tracked' = Tracked
    BY <1>1, <2>2 DEF Tracked
  <2> QED BY <1>1, <1>4, <1>5, <2>1, <2>2, <2>3, LiveIsLiveAt
<1>7. /\ mem' \in MemType /\ \A x \in Heap : mem'[x] \in {mem[x], Junk}
      /\ honest => mem' = mem
  <2>1. CASE honest
    BY <1>1, <1>2, <2>1 DEF Working
  <2>2. CASE ~honest
    BY <1>1, <1>2, <2>2, HitFacts
  <2> QED BY <2>1, <2>2
<1>8. Working'
  <2>1. brk \in 0..HeapLimit /\ HeapLimit \in Nat
    BY <1>2, RangeListAssumption DEF Working
  <2>2. brk \in Nat
    BY <2>1
  <2>3. Placed(opnum + 1, blocks, block_sizes, brk)
    BY <1>2, <1>3, <2>2, PlacedFree DEF Working
  <2> QED BY <1>1, <1>2, <1>6, <1>7, <2>1, <2>3 DEF Working
<1>9. \A x : /\ IsBad(x)' <=> x >= 0 /\ opts.debug # 0 /\
                               Garbled(mem', blocks[x], block_sizes[x], block_rand_base[x])
             /\ IsBad(x) <=> x >= 0 /\ opts.debug # 0 /\
                               Garbled(mem, blocks[x], block_sizes[x], block_rand_base[x])
  BY <1>1, <1>5 DEF IsBad, Bad, Garbled
<1>10. ASSUME NEW x \in Live, opts.debug # 0, IsBad(x) PROVE IsBad(x)'
  <2>1. x >= 0 /\ Garbled(mem, blocks[x], block_sizes[x], block_rand_base[x])
    BY <1>9, <1>10
  <2>2. PICK k \in 0..(block_sizes[x] - 1) : mem[blocks[x] + k] # <<block_rand_base[x], k>>
    BY <2>1 DEF Garbled
  <2>3. blocks[x] + k \in Heap
    BY <1>2, LiveBytes
  <2>4. Junk # <<block_rand_base[x], k>>
    <3>1. block_rand_base[x] \in 1..opnum
      BY <1>2, <1>10 DEF Watched
    <3>2. block_rand_base[x] # 0
      BY <1>2, <3>1
    <3> QED BY <3>2 DEF Junk
  <2>5. mem'[blocks[x] + k] # <<block_rand_base[x], k>>
    BY <1>7, <2>2, <2>3, <2>4
  <2>6. Garbled(mem', blocks[x], block_sizes[x], block_rand_base[x])
    BY <2>5 DEF Garbled
  <2> QED BY <1>9, <1>10, <2>1, <2>6
<1>11. Watched'
  <2>1. block_rand_base' \in [Ids' -> Nat] /\ clashed' \subseteq Live'
    BY <1>1, <1>2, <1>5, <1>6 DEF Watched
  <2>2. ASSUME opts.debug # 0
        PROVE  /\ \A x \in Live' : block_rand_base'[x] \in 1..opnum'
               /\ \A x \in clashed' : IsBad(x)'
               /\ honest => \A x \in Live' : ~IsBad(x)'
    <3>1. \A b \in 1..opnum : b \in 1..(opnum + 1)
      BY <1>2
    <3>2. \A x \in Live' : block_rand_base'[x] \in 1..opnum'
      BY <1>1, <1>2, <1>5, <1>6, <2>2, <3>1 DEF Watched
    <3>3. \A x \in clashed' : x \in Live /\ IsBad(x)
      BY <1>1, <1>2, <2>2 DEF Watched
    <3>4. \A x \in clashed' : IsBad(x)'
      BY <1>10, <2>2, <3>3
    <3>5. ASSUME honest, NEW x \in Live' PROVE ~IsBad(x)'
      <4>1. ~IsBad(x)
        BY <1>2, <1>6, <2>2, <3>5 DEF Watched
      <4>2. mem' = mem
        BY <1>7, <3>5
      <4> QED BY <1>9, <4>1, <4>2
    <3> QED BY <3>2, <3>4, <3>5
  <2> QED BY <1>1, <2>1, <2>2 DEF Watched
<1>12. /\ Ranked'
       /\ \E e \in Nat : /\ malloc_error(e)
                         /\ opts.debug # 0 /\ id \in clashed => e > 0
                         /\ opts.debug = 2 /\ Tracked /\ clashed # {} => e > 0
                         /\ honest => e = 0
  <2>0. /\ Reports(Surveyed) \in Nat
        /\ opts.debug = 2 /\ Tracked /\ clashed # {} => Reports(Surveyed) > 0
        /\ honest => Reports(Surveyed) = 0
    BY RangesInv, ReportsNatural, SurveyReports, HonestNoReports DEF RangesSeq
  <2>1. CASE id = -1
    <3>1. malloc_error(Reports(Surveyed)) /\ ranges' = ranges
      BY <2>1 DEF ValidFree
    <3>2. id \notin Live
      BY <1>4, <2>1 DEF Live
    <3>3. Live' = Live
      BY <1>6, <3>2
    <3>4. Ranked'
      BY <1>2, <1>5, <1>6, <3>1, <3>3 DEF Ranked, Listed
    <3>5. id \notin clashed
      BY <1>2, <3>2 DEF Watched
    <3> QED BY <2>0, <3>1, <3>4, <3>5
  <2>2. CASE id # -1
    <3>1. /\ malloc_error(Reports(Surveyed) + Reports({id}))
          /\ ranges' = remove_range(ranges, blocks[id])
      BY <2>2 DEF ValidFree
    <3>2. id \in Ids /\ Current(opnum, id)
      BY <1>4, <2>2
    <3>3. RankedOthers(remove_range(ranges, blocks[id]), id)
      BY <1>2, <3>2, RestRanked
    <3>4. Ranked'
      BY <1>5, <1>6, <3>1, <3>3 DEF Ranked, RankedOthers, Listed
    <3>5. /\ Reports({id}) \in Nat
          /\ opts.debug # 0 /\ id \in clashed => Reports({id}) > 0
          /\ honest => Reports({id}) = 0
      BY <3>2, IndexReports
    <3> DEFINE x == Reports(Surveyed)  y == Reports({id})
    <3>6. /\ x \in Nat /\ y \in Nat /\ malloc_error(x + y)
          /\ opts.debug # 0 /\ id \in clashed => y > 0
          /\ opts.debug = 2 /\ Tracked /\ clashed # {} => x > 0
          /\ honest => x = 0 /\ y = 0
      BY <2>0, <3>1, <3>5
    <3> HIDE DEF x, y
    <3>7. /\ x + y \in Nat
          /\ opts.debug # 0 /\ id \in clashed => x + y > 0
          /\ opts.debug = 2 /\ Tracked /\ clashed # {} => x + y > 0
          /\ honest => x + y = 0
      BY <3>6
    <3> QED BY <3>4, <3>6, <3>7
  <2> QED BY <2>1, <2>2
<1>13. PICK e \in Nat : /\ malloc_error(e)
                        /\ opts.debug # 0 /\ id \in clashed => e > 0
                        /\ opts.debug = 2 /\ Tracked /\ clashed # {} => e > 0
                        /\ honest => e = 0
  BY <1>12
<1>14. errors' = errors + e /\ errors \in Nat
  BY <1>13 DEF malloc_error, ScoreInv
<1>15. Surfaces
  <2>1. opts.debug # 0 /\ ~(clashed \subseteq clashed' \cup {-1}) => errors' > errors
    <3> SUFFICES ASSUME opts.debug # 0, ~(clashed \subseteq clashed' \cup {-1})
                 PROVE  errors' > errors
      OBVIOUS
    <3>1. id \in clashed
      BY <1>1
    <3>2. e > 0
      BY <1>13, <3>1
    <3> QED BY <1>14, <3>2
  <2>2. opts.debug = 2 /\ Tracked /\ clashed # {} => errors' > errors
    BY <1>13, <1>14
  <2>3. clashed' \ clashed = {}
    BY <1>1
  <2> QED BY <2>1, <2>2, <2>3 DEF Surfaces
<1>16. Unblamed'
  BY <1>1, <1>13, <1>14 DEF Unblamed
<1>17. brk' \in 0..HeapLimit
  BY <1>8 DEF Working
<1> QED BY <1>1, <1>7, <1>8, <1>11, <1>12, <1>15, <1>16, <1>17 DEF RequestKeeps, Judging

----------------------------------------------------------------------------
(***************************************************************************)
(* The invariant of the judgement                                          *)
(***************************************************************************)
LoadedPhase == {"init", "valid", "init util", "util", "speed"}

\* A trace is loaded, with an entry in each array for each of its blocks.
Loaded ==
  /\ Legal(trace)
  /\ blocks \in [Ids -> Int] /\ block_sizes \in [Ids -> Nat] /\ block_rand_base \in [Ids -> Nat]

Reported ==
  /\ report.scored <=> errors = 0
  /\ report.numcorrect = Cardinality({j \in DOMAIN mm_stats : mm_stats[j].valid})

JudgeInv ==
  /\ brk \in 0..HeapLimit /\ mem \in MemType
  /\ phase \in LoadedPhase => Loaded
  /\ phase = "valid" => Judging
  /\ phase = "util" => opnum \in 0..trace.num_ops
  /\ Unblamed
  /\ phase = "end" => Reported

LEMMA EmptyMemoryTyped == EmptyMemory \in MemType
<1>1. Junk \in Nat \X Nat
  BY DEF Junk
<1> QED BY <1>1 DEF EmptyMemory, MemType, Heap

LEMMA LoadedSame ==
  ASSUME Loaded, opts' = opts, i' = i, UNCHANGED blockVars
  PROVE  Loaded'
<1>1. trace' = trace /\ Ids' = Ids
  BY SameTrace
<1> QED BY <1>1 DEF Loaded, blockVars

LEMMA JudgingLoaded ==
  ASSUME Judging
  PROVE  Loaded
BY DEF Judging, Working, Watched, Placed, Loaded

\* A step that leaves the heap alone and does not begin a pass.
LEMMA JudgeQuiet ==
  ASSUME JudgeInv, honest' = honest, alarm' = alarm \/ alarm' = "rung", brk' = brk, mem' = mem,
         errors' = errors \/ alarm' = "rung",
         phase' \notin {"valid", "util", "end"}, phase' \in LoadedPhase => Loaded'
  PROVE  JudgeInv'
<1>1. MemType' = MemType
  BY DEF MemType, Heap
<1>2. Unblamed'
  BY DEF JudgeInv, Unblamed
<1> QED BY <1>1, <1>2 DEF JudgeInv

LEMMA ReadTraceJudge == ScoreInv /\ JudgeInv /\ ReadTrace => JudgeInv'
<1> SUFFICES ASSUME ScoreInv, JudgeInv, ReadTrace PROVE JudgeInv'
  OBVIOUS
<1>1. /\ opts' = opts /\ i' = i /\ honest' = honest /\ alarm' = alarm /\ brk' = brk /\ mem' = mem
      /\ errors' = errors
  BY DEF ReadTrace, fixed, heapVars
<1>2. phase' \in {"init", "free", "exit"}
  BY DEF ReadTrace
<1>3. ASSUME phase' \in LoadedPhase PROVE Loaded'
  <2>1. Legal(trace)
    BY <1>3 DEF ReadTrace, LoadedPhase
  <2>2. blocks' = NoBlocks /\ block_sizes' = Cleared /\ block_rand_base' = Cleared
    BY <2>1 DEF ReadTrace
  <2>3. NoBlocks \in [Ids -> Int] /\ Cleared \in [Ids -> Nat]
    BY DEF NoBlocks, Cleared, NULL
  <2> QED BY <1>1, <2>1, <2>2, <2>3, SameTrace DEF Loaded
<1> QED BY <1>1, <1>2, <1>3, JudgeQuiet

LEMMA InitHeapTyped ==
  ASSUME NEW b, InitHeap(b)
  PROVE  b \in 0..HeapLimit
BY RangeListAssumption DEF InitHeap

LEMMA StartValidJudge == ScoreInv /\ JudgeInv /\ StartValid => JudgeInv'
<1> SUFFICES ASSUME ScoreInv, JudgeInv, StartValid PROVE JudgeInv'
  OBVIOUS
<1>1. /\ opts' = opts /\ i' = i /\ honest' = honest /\ alarm' = alarm
      /\ opnum' = 0 /\ mem' = EmptyMemory /\ ranges' = <<>> /\ clashed' = {}
      /\ blocks' = NoBlocks /\ block_sizes' = Cleared /\ block_rand_base' = block_rand_base
      /\ phase = "init" /\ InitHeap(brk')
  BY DEF StartValid, fixed, Reinit
<1>2. brk' \in 0..HeapLimit /\ mem' \in MemType /\ MemType' = MemType
  BY <1>1, EmptyMemoryTyped, InitHeapTyped DEF MemType, Heap
<1>3. Legal(trace) /\ block_rand_base \in [Ids -> Nat]
  BY <1>1 DEF JudgeInv, LoadedPhase, Loaded
<1>4. CASE phase' = "valid" /\ UNCHANGED <<errors, mm_stats>>
  <2>1. Placed(0, NoBlocks, Cleared, brk') /\ LiveAt(0) = {}
    BY PlacedFirst
  <2>2. /\ trace' = trace /\ Ids' = Ids /\ Live' = LiveAt(0)
        /\ Placed(opnum, blocks, block_sizes, brk)' = Placed(0, NoBlocks, Cleared, brk')
    BY <1>1, SameTrace
  <2>3. 0 \in 0..trace.num_ops
    BY TraceFacts
  <2>4. Working'
    BY <1>1, <1>2, <1>3, <2>1, <2>2, <2>3 DEF Working
  <2>5. Watched'
    BY <1>1, <1>3, <2>1, <2>2 DEF Watched
  <2>6. Ranked'
    <3>1. Listed(<<>>, blocks', block_sizes', {})
      BY ListedEmpty
    <3> QED BY <1>1, <2>1, <2>2, <3>1 DEF Ranked, Listed
  <2>7. Judging'
    BY <2>4, <2>5, <2>6 DEF Judging
  <2>8. Loaded'
    BY <1>1, <1>3, <2>1, <2>2 DEF Loaded, Placed
  <2>9. Unblamed'
    BY <1>1, <1>4 DEF JudgeInv, Unblamed
  <2> QED BY <1>2, <1>4, <2>7, <2>8, <2>9 DEF JudgeInv
<1>5. CASE InitFails /\ malloc_error(1) /\ Judged(FALSE)
  <2>1. phase' = "free" /\ ~honest'
    BY <1>1, <1>5 DEF Judged, InitFails
  <2> QED BY <1>2, <2>1 DEF JudgeInv, Unblamed, LoadedPhase
<1> QED BY <1>4, <1>5 DEF StartValid

LEMMA RequestJudge == ScoreInv /\ JudgeInv /\ (ValidAlloc \/ ValidRealloc \/ ValidFree) => JudgeInv'
<1> SUFFICES ASSUME ScoreInv, JudgeInv, ValidAlloc \/ ValidRealloc \/ ValidFree PROVE JudgeInv'
  OBVIOUS
<1>1. phase = "valid"
  BY DEF ValidAlloc, ValidRealloc, ValidFree
<1>2. Judging /\ Unblamed
  BY <1>1 DEF JudgeInv
<1>3. RequestKeeps
  BY <1>2, ValidAllocKeeps, ValidReallocKeeps, ValidFreeKeeps
<1>4. MemType' = MemType
  BY DEF MemType, Heap
<1>5. CASE phase' = "free"
  BY <1>3, <1>4, <1>5 DEF RequestKeeps, JudgeInv, LoadedPhase
<1>6. CASE phase' = "valid"
  <2>1. Judging'
    BY <1>3, <1>6 DEF RequestKeeps
  <2>2. Loaded'
    BY <2>1 DEF Judging, Working, Watched, Placed, Loaded
  <2> QED BY <1>3, <1>4, <1>6, <2>1, <2>2 DEF RequestKeeps, JudgeInv
<1> QED BY <1>3, <1>5, <1>6 DEF RequestKeeps

\* The steps that only go on, and leave the heap and the arrays alone.
LEMMA OnwardJudge ==
  ASSUME ScoreInv, JudgeInv,
         \/ FreeTrace \/ EndValid \/ EndUtil \/ SpeedFails \/ EndSpeed \/ Hang
         \/ Ring \/ LibcRead \/ LibcValid \/ LibcSpeed
  PROVE  JudgeInv'
<1> DEFINE Onward ==
      /\ honest' = honest /\ brk' = brk /\ mem' = mem
      /\ alarm' = "rung" \/ (alarm' = alarm /\ errors' = errors)
      /\ phase' \notin {"valid", "util", "end"}
      /\ phase' \in LoadedPhase =>
           phase \in LoadedPhase /\ opts' = opts /\ i' = i /\ UNCHANGED blockVars
<1>1. Onward
  <2>1. CASE FreeTrace
    BY <2>1 DEF FreeTrace, fixed, heapVars, LoadedPhase
  <2>2. CASE EndValid
    BY <2>2 DEF EndValid, Judged, fixed, traceVars, blockVars, LoadedPhase
  <2>3. CASE EndUtil
    BY <2>3 DEF EndUtil, fixed, traceVars, blockVars, LoadedPhase
  <2>4. CASE SpeedFails
    BY <2>4 DEF SpeedFails, fixed, traceVars, LoadedPhase
  <2>5. CASE EndSpeed
    BY <2>5 DEF EndSpeed, fixed, traceVars, LoadedPhase
  <2>6. CASE Hang
    BY <2>6 DEF Hang, fixed, traceVars, LoadedPhase
  <2>7. CASE RingInTests
    BY <2>7 DEF RingInTests, fixed, heapVars, LoadedPhase
  <2>8. CASE RingOutside
    BY <2>8 DEF RingOutside, fixed, traceVars, LoadedPhase
  <2>9. CASE LibcRead
    BY <2>9 DEF LibcRead, fixed, traceVars, LoadedPhase
  <2>10. CASE LibcValid
    BY <2>10 DEF LibcValid, fixed, traceVars, LoadedPhase
  <2>11. CASE LibcSpeed
    BY <2>11 DEF LibcSpeed, fixed, traceVars, LoadedPhase
  <2> QED BY <2>1, <2>2, <2>3, <2>4, <2>5, <2>6, <2>7, <2>8, <2>9, <2>10, <2>11 DEF Ring
<1>2. phase' \in LoadedPhase => Loaded'
  BY <1>1, LoadedSame DEF JudgeInv
<1> QED BY <1>1, <1>2, JudgeQuiet

\* A pass over the trace begins with an empty heap.
LEMMA PassJudge ==
  ASSUME ScoreInv, JudgeInv, phase \in LoadedPhase,
         opts' = opts, i' = i, honest' = honest, alarm' = alarm, errors' = errors,
         Reinit, block_rand_base' = block_rand_base, mem' = EmptyMemory, brk' \in 0..HeapLimit,
         opnum' = 0, phase' \in {"util", "speed", "exit"}
  PROVE  JudgeInv'
<1>1. mem' \in MemType /\ MemType' = MemType
  BY EmptyMemoryTyped DEF MemType, Heap
<1>2. Loaded
  BY DEF JudgeInv
<1>3. trace' = trace /\ Ids' = Ids
  BY SameTrace
<1>4. NoBlocks \in [Ids -> Int] /\ Cleared \in [Ids -> Nat]
  BY DEF NoBlocks, Cleared, NULL
<1>5. Loaded'
  BY <1>2, <1>3, <1>4 DEF Loaded, Reinit
<1>6. 0 \in 0..trace.num_ops
  BY TraceFacts
<1>7. Unblamed'
  BY DEF JudgeInv, Unblamed
<1> QED BY <1>1, <1>3, <1>5, <1>6, <1>7 DEF JudgeInv

LEMMA StartUtilJudge == ScoreInv /\ JudgeInv /\ StartUtil => JudgeInv'
<1> SUFFICES ASSUME ScoreInv, JudgeInv, StartUtil PROVE JudgeInv'
  OBVIOUS
<1>1. /\ phase = "init util"
      /\ opts' = opts /\ i' = i /\ honest' = honest /\ alarm' = alarm /\ errors' = errors
      /\ Reinit /\ block_rand_base' = block_rand_base /\ mem' = EmptyMemory /\ InitHeap(brk')
      /\ opnum' = 0 /\ phase' \in {"util", "exit"}
  BY DEF StartUtil, fixed
<1>2. phase \in LoadedPhase /\ brk' \in 0..HeapLimit
  BY <1>1, InitHeapTyped DEF LoadedPhase
<1> QED BY <1>1, <1>2, PassJudge

LEMMA SpeedRunJudge ==
  ASSUME ScoreInv, JudgeInv, \E t \in RunTime, n \in Ticks : SpeedRun(t, n)
  PROVE  JudgeInv'
<1>1. /\ phase = "speed" /\ phase' = "speed"
      /\ opts' = opts /\ i' = i /\ honest' = honest /\ alarm' = alarm /\ errors' = errors
      /\ Reinit /\ block_rand_base' = block_rand_base /\ mem' = EmptyMemory /\ brk' = 0
      /\ opnum' = 0
  BY DEF SpeedRun, fixed
<1>2. phase \in LoadedPhase /\ brk' \in 0..HeapLimit
  BY <1>1, RangeListAssumption DEF LoadedPhase
<1> QED BY <1>1, <1>2, PassJudge

LEMMA UtilAnswerFacts ==
  ASSUME brk \in 0..HeapLimit, NEW id, NEW size \in Nat, NEW lo, NEW n,
         NEW a \in UtilAnswers(id, size, lo, n)
  PROVE  a.ptr \in Int /\ a.brk \in 0..HeapLimit
<1>1. HeapLimit \in Nat /\ NULL \in Int
  BY RangeListAssumption DEF NULL
<1>2. CASE honest
  <2>1. a \in Honest(id, size, lo, n)
    BY <1>2 DEF UtilAnswers
  <2>2. CASE size = 0
    BY <1>1, <2>1, <2>2 DEF Honest, Answer
  <2>3. CASE size # 0
    <3>1. PICK e \in Extents(id, size) : a.ptr = e.ptr /\ a.brk = e.brk
      BY <2>1, <2>3 DEF Honest, Answer
    <3>2. e.ptr \in 0..(HeapLimit - 1) /\ e.brk \in brk..HeapLimit
      BY DEF Extents
    <3> QED BY <1>1, <3>1, <3>2
  <2> QED BY <2>2, <2>3
<1>3. CASE ~honest
  <2>1. PICK p \in {0, NULL}, b \in {brk, HeapLimit} : a = Answer(p, b, mem)
    BY <1>3 DEF UtilAnswers
  <2> QED BY <1>1, <2>1 DEF Answer
<1> QED BY <1>2, <1>3

\* A request of eval_mm_util.
LEMMA UtilJudge == ScoreInv /\ JudgeInv /\ (UtilAlloc \/ UtilRealloc \/ UtilFree) => JudgeInv'
<1> SUFFICES ASSUME ScoreInv, JudgeInv, UtilAlloc \/ UtilRealloc \/ UtilFree PROVE JudgeInv'
  OBVIOUS
<1>1. /\ phase = "util" /\ opnum < trace.num_ops
      /\ opts' = opts /\ i' = i /\ honest' = honest /\ alarm' = alarm /\ errors' = errors
      /\ mem' = mem /\ block_rand_base' = block_rand_base
  BY DEF UtilAlloc, UtilRealloc, UtilFree, Requested, fixed, heapVars, blockVars
<1>2. Loaded /\ opnum \in 0..trace.num_ops /\ brk \in 0..HeapLimit /\ mem \in MemType /\ Unblamed
  BY <1>1 DEF JudgeInv, LoadedPhase
<1>3. trace.num_ops \in Nat /\ opnum \in Nat /\ opnum + 1 \in 0..trace.num_ops
  BY <1>1, <1>2, TraceFacts
<1>4. op = trace.lines[opnum + 1] /\ Legal(trace)
  BY <1>2 DEF op, Loaded
<1>5. op.size \in Nat /\ (op.index \in Ids \/ op.type = "f")
  BY <1>1, <1>3, <1>4, RequestFacts
<1> DEFINE Done == /\ brk' \in 0..HeapLimit
                     /\ phase' \in {"util", "exit"}
                     /\ opnum' \in {opnum, opnum + 1}
                     /\ blocks' \in [Ids -> Int] /\ block_sizes' \in [Ids -> Nat]
<1>6. Done
  <2>1. CASE UtilAlloc
    <3>1. op.index \in Ids
      BY <1>5, <2>1 DEF UtilAlloc, Requested
    <3>2. PICK a \in UtilAnswers(op.index, op.size, NULL, 0) :
            /\ brk' = a.brk
            /\ IF a.ptr = NULL
               THEN phase' = "exit" /\ UNCHANGED <<opnum, blocks, block_sizes, utilVars>>
               ELSE /\ blocks' = [blocks EXCEPT ![op.index] = a.ptr]
                    /\ block_sizes' = [block_sizes EXCEPT ![op.index] = op.size]
                    /\ Count(op.size)
                    /\ opnum' = opnum + 1
                    /\ UNCHANGED phase
      BY <2>1 DEF UtilAlloc
    <3>3. a.ptr \in Int /\ a.brk \in 0..HeapLimit
      BY <1>2, <1>5, UtilAnswerFacts
    <3>4. CASE a.ptr = NULL
      BY <1>2, <3>2, <3>3, <3>4 DEF Loaded
    <3>5. CASE a.ptr # NULL
      <4>1. [blocks EXCEPT ![op.index] = a.ptr] \in [Ids -> Int]
            /\ [block_sizes EXCEPT ![op.index] = op.size] \in [Ids -> Nat]
        BY <1>2, <1>5, <3>1, <3>3 DEF Loaded
      <4> QED BY <1>1, <3>2, <3>3, <3>5, <4>1
    <3> QED BY <3>4, <3>5
  <2>2. CASE UtilRealloc
    <3>1. op.index \in Ids
      BY <1>5, <2>2 DEF UtilRealloc, Requested
    <3>2. PICK a \in UtilAnswers(op.index, op.size, blocks[op.index], block_sizes[op.index]) :
            /\ brk' = a.brk
            /\ IF ~Served(op.size, a.ptr)
               THEN phase' = "exit" /\ UNCHANGED <<opnum, blocks, block_sizes, utilVars>>
               ELSE /\ blocks' = [blocks EXCEPT ![op.index] = a.ptr]
                    /\ block_sizes' = [block_sizes EXCEPT ![op.index] = op.size]
                    /\ Count(Growth(op.size, block_sizes[op.index]))
                    /\ opnum' = opnum + 1
                    /\ UNCHANGED phase
      BY <2>2 DEF UtilRealloc
    <3>3. a.ptr \in Int /\ a.brk \in 0..HeapLimit
      BY <1>2, <1>5, UtilAnswerFacts
    <3>4. CASE phase' = "exit" /\ UNCHANGED <<opnum, blocks, block_sizes>>
      BY <1>2, <3>2, <3>3, <3>4 DEF Loaded
    <3>5. CASE /\ blocks' = [blocks EXCEPT ![op.index] = a.ptr]
               /\ block_sizes' = [block_sizes EXCEPT ![op.index] = op.size]
               /\ opnum' = opnum + 1 /\ UNCHANGED phase
      <4>1. [blocks EXCEPT ![op.index] = a.ptr] \in [Ids -> Int]
            /\ [block_sizes EXCEPT ![op.index] = op.size] \in [Ids -> Nat]
        BY <1>2, <1>5, <3>1, <3>3 DEF Loaded
      <4> QED BY <1>1, <3>2, <3>3, <3>5, <4>1
    <3> QED BY <3>2, <3>4, <3>5
  <2>3. CASE UtilFree
    BY <1>1, <1>2, <2>3 DEF UtilFree, heapVars, blockVars, Loaded
  <2> QED BY <2>1, <2>2, <2>3
<1>7. trace' = trace /\ Ids' = Ids /\ MemType' = MemType
  BY <1>1, SameTrace DEF MemType, Heap
<1>8. opnum' \in 0..trace.num_ops
  BY <1>2, <1>3, <1>6
<1>9. Loaded'
  BY <1>1, <1>2, <1>6, <1>7 DEF Loaded
<1>10. Unblamed'
  BY <1>1, <1>2 DEF Unblamed
<1> QED BY <1>1, <1>2, <1>6, <1>7, <1>8, <1>9, <1>10 DEF JudgeInv

LEMMA ReportJudge == ScoreInv /\ JudgeInv /\ Report => JudgeInv'
<1> SUFFICES ASSUME ScoreInv, JudgeInv, Report PROVE JudgeInv'
  OBVIOUS
<1>1. /\ phase' = "end" /\ honest' = honest /\ alarm' = alarm /\ errors' = errors
      /\ brk' = brk /\ mem' = mem /\ mm_stats' = mm_stats
      /\ report'.scored = (errors = 0)
      /\ report'.numcorrect = Cardinality({j \in DOMAIN mm_stats : mm_stats[j].valid})
  BY DEF Report, traceVars
<1>2. MemType' = MemType
  BY DEF MemType, Heap
<1> QED BY <1>1, <1>2 DEF JudgeInv, Unblamed, Reported, LoadedPhase

LEMMA JudgeInit == Init => JudgeInv
<1> SUFFICES ASSUME Init PROVE JudgeInv
  OBVIOUS
<1>1. phase \in {"libc", "read"} /\ errors = 0 /\ brk = 0 /\ mem = EmptyMemory
  BY DEF Init
<1>2. 0 \in 0..HeapLimit
  BY RangeListAssumption
<1> QED BY <1>1, <1>2, EmptyMemoryTyped DEF JudgeInv, LoadedPhase, Unblamed

LEMMA JudgeStutters == JudgeInv /\ UNCHANGED vars => JudgeInv'
<1> SUFFICES ASSUME JudgeInv, UNCHANGED vars PROVE JudgeInv'
  OBVIOUS
<1>1. UNCHANGED <<opts, honest, phase, i, opnum, mem, brk, blocks, block_sizes,
                  block_rand_base, ranges, errors, mm_stats, alarm, report, clashed>>
  BY DEF vars, driverVars, traceVars
<1>2. /\ trace' = trace /\ Ids' = Ids /\ Live' = LiveAt(opnum) /\ Live' = Live /\ MemType' = MemType
      /\ Placed(opnum, blocks, block_sizes, brk)' = Placed(opnum, blocks, block_sizes, brk)
  BY <1>1, SameTrace, LiveIsLiveAt DEF MemType, Heap
<1>3. Loaded' = Loaded
  BY <1>1, <1>2 DEF Loaded
<1>4. Judging => Judging'
  <2> SUFFICES ASSUME Judging PROVE Judging'
    OBVIOUS
  <2>1. Working'
    BY <1>1, <1>2 DEF Judging, Working
  <2>2. \A x : IsBad(x)' <=> IsBad(x)
    BY <1>1 DEF IsBad, Bad, Garbled
  <2>3. Watched'
    BY <1>1, <1>2, <2>2 DEF Judging, Watched
  <2>4. Tracked' = Tracked
    BY <1>1, <1>2 DEF Tracked
  <2>5. Ranked'
    BY <1>1, <1>2, <2>4 DEF Judging, Ranked, Listed
  <2> QED BY <2>1, <2>3, <2>5 DEF Judging
<1>5. Unblamed'
  BY <1>1 DEF JudgeInv, Unblamed
<1>6. phase = "end" => Reported'
  BY <1>1 DEF JudgeInv, Reported
<1> QED BY <1>1, <1>2, <1>3, <1>4, <1>5, <1>6 DEF JudgeInv

LEMMA JudgeNext == ScoreInv /\ JudgeInv /\ [Next]_vars => JudgeInv'
<1> SUFFICES ASSUME ScoreInv, JudgeInv, [Next]_vars PROVE JudgeInv'
  OBVIOUS
<1>1. CASE Evaluation
  <2>1. CASE ReadTrace
    BY <2>1, ReadTraceJudge
  <2>2. CASE StartValid
    BY <2>2, StartValidJudge
  <2>3. CASE ValidAlloc \/ ValidRealloc \/ ValidFree
    BY <2>3, RequestJudge
  <2>4. CASE StartUtil
    BY <2>4, StartUtilJudge
  <2>5. CASE UtilAlloc \/ UtilRealloc \/ UtilFree
    BY <2>5, UtilJudge
  <2>6. CASE \E t \in RunTime, n \in Ticks : SpeedRun(t, n)
    BY <2>6, SpeedRunJudge
  <2>7. CASE Report
    BY <2>7, ReportJudge
  <2>8. CASE \/ FreeTrace \/ EndValid \/ EndUtil \/ SpeedFails \/ EndSpeed
             \/ LibcRead \/ LibcValid \/ LibcSpeed
    BY <2>8, OnwardJudge
  <2> QED BY <1>1, <2>1, <2>2, <2>3, <2>4, <2>5, <2>6, <2>7, <2>8 DEF Evaluation
<1>2. CASE Hang \/ Ring
  BY <1>2, OnwardJudge
<1>3. CASE UNCHANGED vars
  BY <1>3, JudgeStutters
<1> QED BY <1>1, <1>2, <1>3 DEF Next

JudgedInv == ScoreInv /\ JudgeInv

LEMMA JudgedAlways == Spec => []JudgedInv
<1>1. Init => JudgedInv
  BY ScoreInit, JudgeInit DEF JudgedInv
<1>2. JudgedInv /\ [Next]_vars => JudgedInv'
  BY ScoreNext, JudgeNext DEF JudgedInv
<1> QED BY <1>1, <1>2, PTL DEF Spec

\* While a trace is judged, the list holds one range for each block that the
\* program has and no other, for every trace of a program, and whatever the
\* allocator answers (mdriver.c:503-595, 808-921).
THEOREM RangesAlwaysLive == Spec => []RangesAreLive
<1>1. JudgedInv => RangesAreLive
  <2> SUFFICES ASSUME JudgedInv, phase = "valid", Tracked
               PROVE  /\ {ranges[j] : j \in DOMAIN ranges}
                           = {[lo |-> blocks[id], hi |-> blocks[id] + block_sizes[id] - 1,
                               index |-> id] : id \in Live}
                      /\ Len(ranges) = Cardinality(Live)
    BY DEF RangesAreLive
  <2>1. Listed(ranges, blocks, block_sizes, Live)
    BY DEF JudgedInv, JudgeInv, Judging, Ranked
  <2>2. /\ {ranges[j] : j \in DOMAIN ranges} = {RangeOf(blocks, block_sizes, id) : id \in Live}
        /\ Len(ranges) = Cardinality(Live)
    BY <2>1, ListedSet
  <2> QED BY <2>2 DEF RangeOf
<1> QED BY <1>1, JudgedAlways, PTL

\* A block on which another one was laid does not leave the list unreported, and
\* where ranges are kept only a payload that encloses it is laid on it: for every
\* trace of a program, and whatever the allocator answers (mdriver.c:535-551,
\* 635-661, 808-921).
THEOREM OverlapsAlwaysSurface == Spec => OverlapsSurface
<1>1. JudgedInv /\ [Next]_vars => [Requests => Surfaces]_vars
  <2> SUFFICES ASSUME JudgedInv, Next, Requests PROVE Surfaces
    OBVIOUS
  <2>1. phase = "valid" /\ phase' = "valid"
    BY DEF Requests
  <2>2. ScoreInv /\ Judging /\ Unblamed
    BY <2>1 DEF JudgedInv, JudgeInv
  <2>3. ValidAlloc \/ ValidRealloc \/ ValidFree
    <3>1. ~(\/ ReadTrace \/ FreeTrace \/ StartValid \/ StartUtil \/ UtilAlloc \/ UtilRealloc
            \/ UtilFree \/ EndUtil \/ SpeedFails \/ EndSpeed
            \/ LibcRead \/ LibcValid \/ LibcSpeed \/ Report)
      BY <2>1 DEF ReadTrace, FreeTrace, StartValid, StartUtil, UtilAlloc, UtilRealloc,
                  UtilFree, EndUtil, SpeedFails, EndSpeed, LibcRead, LibcValid, LibcSpeed, Report
    <3>2. ~(\E t \in RunTime, n \in Ticks : SpeedRun(t, n))
      BY <2>1 DEF SpeedRun
    <3>3. ~EndValid /\ ~Hang /\ ~RingInTests /\ ~RingOutside
      BY <2>1 DEF EndValid, Judged, Hang, RingInTests, RingOutside
    <3> QED BY <3>1, <3>2, <3>3 DEF Next, Evaluation, Ring
  <2>4. RequestKeeps
    BY <2>2, <2>3, ValidAllocKeeps, ValidReallocKeeps, ValidFreeKeeps
  <2> QED BY <2>1, <2>4 DEF RequestKeeps
<1>2. [Requests => Surfaces]_vars =>
        [Requests =>
           /\ opts.debug # 0 /\ ~(clashed \subseteq clashed' \cup {-1}) => errors' > errors
           /\ opts.debug = 2 /\ Tracked /\ clashed # {} => errors' > errors
           /\ Tracked => \A id \in clashed' \ clashed :
                /\ blocks'[op.index] < blocks[id]
                /\ blocks'[op.index] + op.size > blocks[id] + block_sizes[id]]_vars
  BY DEF Surfaces
<1> QED BY <1>1, <1>2, JudgedAlways, PTL DEF OverlapsSurface, Spec

----------------------------------------------------------------------------
(***************************************************************************)
(* The types                                                               *)
(***************************************************************************)
SameIndices == DOMAIN blocks = DOMAIN block_sizes /\ DOMAIN blocks = DOMAIN block_rand_base

\* What the types need besides the other invariants.
TypeInv ==
  /\ honest \in BOOLEAN /\ alarm \in {"off", "set", "rung"}
  /\ opnum \in Nat /\ SameIndices
  /\ total_size \in Int /\ max_total_size \in Nat
  /\ mm_stats \in [1..Len(opts.files) -> Stats]

LEMMA TypesTogether ==
  ASSUME JudgedInv, FcycInv, TypeInv
  PROVE  TypeOK
<1>1. opts.files \in Seq(DOMAIN File) /\ i \in 1..Len(opts.files) /\ opts \in Options
  BY OptionsTyped DEF JudgedInv, ScoreInv
<1>2. DOMAIN opts.files = 1..Len(opts.files) /\ Len(opts.files) \in Nat
  BY <1>1
<1>3. timed_out \in 0..Len(opts.files)
  <2>1. timed_out \in 0..i
    BY DEF JudgedInv, ScoreInv
  <2> QED BY ONLY <1>1, <1>2, <2>1
<1>4. \A a \in DOMAIN mem : a \in Heap /\ mem[a][1] \in Nat /\ mem[a][2] \in Nat
  BY DEF JudgedInv, JudgeInv, MemType
<1>5. ASSUME phase = "valid", NEW id \in Live
      PROVE  Payload(blocks[id], block_sizes[id]) \subseteq 0..(brk - 1)
  <2>1. Working
    BY <1>5 DEF JudgedInv, JudgeInv, Judging
  <2>2. /\ blocks[id] \in Int /\ block_sizes[id] \in Nat /\ brk \in Nat
        /\ blocks[id] >= 0 /\ blocks[id] + block_sizes[id] <= brk
    BY <1>5, <2>1, LiveBytes, RangeListAssumption DEF Working
  <2> QED BY ONLY <2>2 DEF Payload
<1>6. errors \in Nat /\ brk \in 0..HeapLimit
  BY DEF JudgedInv, JudgeInv, ScoreInv
<1>7. FcycTypeOK
  BY DEF FcycInv
<1> QED BY <1>1, <1>2, <1>3, <1>4, <1>5, <1>6, <1>7 DEF TypeOK, TypeInv, SameIndices

\* A step of eval_mm_util counts integers.
LEMMA Counted ==
  ASSUME TypeInv, NEW n \in Int, Count(n)
  PROVE  total_size' \in Int /\ max_total_size' \in Nat
<1>1. total_size \in Int /\ max_total_size \in Nat
  BY DEF TypeInv
<1>2. total_size' = total_size + n /\ total_size' \in Int
  BY <1>1 DEF Count
<1>3. CASE total_size' > max_total_size
  <2>1. max_total_size' = total_size'
    BY <1>3 DEF Count
  <2> QED BY <1>1, <1>2, <1>3, <2>1
<1>4. CASE ~(total_size' > max_total_size)
  BY <1>1, <1>2, <1>4 DEF Count
<1> QED BY <1>3, <1>4

LEMMA StatsTyped ==
  ASSUME TypeInv, i \in 1..Len(opts.files)
  PROVE  /\ \A b \in BOOLEAN : [mm_stats EXCEPT ![i].valid = b] \in [1..Len(opts.files) -> Stats]
         /\ \A u \in Seq(Nat) : [mm_stats EXCEPT ![i].util = u] \in [1..Len(opts.files) -> Stats]
         /\ \A s \in Seq(Int) : [mm_stats EXCEPT ![i].secs = s] \in [1..Len(opts.files) -> Stats]
         /\ \A w \in {0, 1}, n \in Nat, b \in BOOLEAN :
              [mm_stats EXCEPT ![i] = [mm_stats[i] EXCEPT !.weight = w, !.ops = n, !.valid = b]]
                \in [1..Len(opts.files) -> Stats]
<1>1. mm_stats \in [1..Len(opts.files) -> Stats] /\ mm_stats[i] \in Stats
  BY DEF TypeInv
<1>2. \A q \in Stats : [mm_stats EXCEPT ![i] = q] \in [1..Len(opts.files) -> Stats]
  BY <1>1
<1>3. /\ \A b \in BOOLEAN : [mm_stats[i] EXCEPT !.valid = b] \in Stats
      /\ \A u \in Seq(Nat) : [mm_stats[i] EXCEPT !.util = u] \in Stats
      /\ \A s \in Seq(Int) : [mm_stats[i] EXCEPT !.secs = s] \in Stats
      /\ \A w \in {0, 1}, n \in Nat, b \in BOOLEAN :
           [mm_stats[i] EXCEPT !.weight = w, !.ops = n, !.valid = b] \in Stats
  BY <1>1 DEF Stats
<1> QED BY <1>2, <1>3

StatsType == mm_stats' \in [1..Len(opts.files) -> Stats]

\* The statistics are written by five actions.
LEMMA StatsStep ==
  ASSUME JudgedInv, FcycInv, TypeInv, Next
  PROVE  StatsType
<1>1. i \in 1..Len(opts.files) /\ ScoreInv
  BY DEF JudgedInv, ScoreInv
<1>2. mm_stats' = mm_stats => StatsType
  BY DEF TypeInv, StatsType
<1>3. \A v \in BOOLEAN : Judged(v) => StatsType
  BY <1>1, StatsTyped DEF Judged, StatsType
<1>4. CASE ReadTrace
  <2>1. CASE Legal(trace)
    <3>1. trace.num_ops \in Nat /\ trace.weight \in {0, 1}
      BY <1>1, <2>1, TraceFacts DEF Legal
    <3>2. mm_stats[i].valid \in BOOLEAN /\ (Tried /\ mm_stats[i].valid) \in BOOLEAN
      BY <1>1 DEF TypeInv, Stats
    <3>3. mm_stats' = [mm_stats EXCEPT ![i] =
            [mm_stats[i] EXCEPT !.weight = trace.weight, !.ops = trace.num_ops,
                                !.valid = Tried /\ mm_stats[i].valid]]
      BY <1>4, <2>1 DEF ReadTrace
    <3> QED BY <1>1, <3>1, <3>2, <3>3, StatsTyped DEF StatsType
  <2>2. CASE ~Legal(trace)
    BY <1>2, <1>4, <2>2 DEF ReadTrace
  <2> QED BY <2>1, <2>2
<1>5. CASE StartValid \/ ValidAlloc \/ ValidRealloc \/ ValidFree \/ EndValid
  <2>1. mm_stats' = mm_stats \/ Judged(FALSE) \/ Judged(TRUE)
    BY <1>5 DEF StartValid, ValidAlloc, ValidRealloc, ValidFree, EndValid, Fail
  <2> QED BY <1>2, <1>3, <2>1
<1>6. CASE EndUtil
  <2>1. max_total_size \in Nat /\ brk \in Nat
    BY RangeListAssumption DEF TypeInv, JudgedInv, JudgeInv
  <2>2. <<max_total_size, brk>> \in Seq(Nat)
    BY <2>1
  <2> QED BY <1>1, <1>6, <2>2, StatsTyped DEF EndUtil, StatsType
<1>7. CASE EndSpeed
  <2>1. result \in Int
    BY KBestPositive DEF result, FcycInv, FcycTypeOK
  <2>2. <<result>> \in Seq(Int)
    BY <2>1
  <2> QED BY <1>1, <1>7, <2>2, StatsTyped DEF EndSpeed, StatsType
<1>8. CASE \/ FreeTrace \/ StartUtil \/ UtilAlloc \/ UtilRealloc \/ UtilFree \/ SpeedFails
           \/ \E t \in RunTime, n \in Ticks : SpeedRun(t, n)
           \/ LibcRead \/ LibcValid \/ LibcSpeed \/ Report \/ Hang \/ Ring
  <2>1. mm_stats' = mm_stats
    BY <1>8 DEF FreeTrace, StartUtil, UtilAlloc, UtilRealloc, UtilFree, SpeedFails, SpeedRun,
                LibcRead, LibcValid, LibcSpeed, Report, Hang, Ring, RingInTests, RingOutside
  <2> QED BY <1>2, <2>1
<1> QED BY <1>4, <1>5, <1>6, <1>7, <1>8 DEF Next, Evaluation

CountsType == opnum' \in Nat /\ total_size' \in Int /\ max_total_size' \in Nat

\* A request of eval_mm_util.
LEMMA UtilCounts ==
  ASSUME JudgedInv, TypeInv, UtilAlloc \/ UtilRealloc \/ UtilFree
  PROVE  CountsType
<1>1. phase = "util" /\ opnum < trace.num_ops /\ opnum \in Nat
  BY DEF UtilAlloc, UtilRealloc, UtilFree, Requested, TypeInv
<1>2. Loaded /\ ScoreInv
  BY <1>1 DEF JudgedInv, JudgeInv, LoadedPhase
<1>3. op = trace.lines[opnum + 1] /\ Legal(trace)
  BY <1>2 DEF op, Loaded
<1>4. op.size \in Nat /\ (op.index \in Ids \/ (op.index = -1 /\ op.type = "f"))
  BY <1>1, <1>2, <1>3, RequestFacts
<1>5. op.index \in Ids => block_sizes[op.index] \in Nat
  BY <1>2 DEF Loaded
<1>6. opnum' = opnum \/ opnum' = opnum + 1
  BY DEF UtilAlloc, UtilRealloc, UtilFree
<1>7. UNCHANGED utilVars \/ \E n \in Int : Count(n)
  <2>1. CASE UtilAlloc
    <3>1. op.size \in Int
      BY <1>4
    <3> QED BY <2>1, <3>1 DEF UtilAlloc
  <2>2. CASE UtilRealloc
    <3>1. op.type = "r"
      BY <2>2 DEF UtilRealloc, Requested
    <3>2. Growth(op.size, block_sizes[op.index]) \in Int
      BY <1>4, <1>5, <3>1 DEF Growth
    <3> QED BY <2>2, <3>2 DEF UtilRealloc
  <2>3. CASE UtilFree
    <3>1. (IF op.index < 0 THEN 0 ELSE -block_sizes[op.index]) \in Int
      BY <1>4, <1>5
    <3> QED BY <2>3, <3>1 DEF UtilFree
  <2> QED BY <2>1, <2>2, <2>3
<1>8. total_size' \in Int /\ max_total_size' \in Nat
  <2>1. CASE UNCHANGED utilVars
    BY <2>1 DEF utilVars, TypeInv
  <2>2. CASE \E n \in Int : Count(n)
    BY <2>2, Counted
  <2> QED BY <1>7, <2>1, <2>2
<1> QED BY <1>1, <1>6, <1>8 DEF CountsType

LEMMA CountsStep ==
  ASSUME JudgedInv, TypeInv, Next
  PROVE  CountsType
<1>1. opnum \in Nat /\ total_size \in Int /\ max_total_size \in Nat
  BY DEF TypeInv
<1>2. opnum' \in {0, opnum, opnum + 1} /\ UNCHANGED utilVars => CountsType
  BY <1>1 DEF utilVars, CountsType
<1>3. CASE ValidAlloc \/ ValidRealloc \/ ValidFree
  <2>1. opnum' \in {opnum, opnum + 1} /\ UNCHANGED utilVars
    BY <1>3 DEF ValidAlloc, ValidRealloc, ValidFree, Fail, Keep
  <2> QED BY <1>2, <2>1
<1>4. CASE UtilAlloc \/ UtilRealloc \/ UtilFree
  BY <1>4, UtilCounts
<1>5. CASE StartUtil
  <2>1. opnum' = 0 /\ total_size' = 0 /\ max_total_size' = 0
    BY <1>5 DEF StartUtil
  <2> QED BY ONLY <2>1 DEF CountsType
<1>6. CASE \/ ReadTrace \/ FreeTrace \/ StartValid \/ EndValid \/ EndUtil \/ SpeedFails \/ EndSpeed
           \/ \E t \in RunTime, n \in Ticks : SpeedRun(t, n)
           \/ LibcRead \/ LibcValid \/ LibcSpeed \/ Report \/ Hang \/ Ring
  <2>1. opnum' \in {0, opnum} /\ UNCHANGED utilVars
    BY <1>6 DEF ReadTrace, FreeTrace, StartValid, EndValid, EndUtil, SpeedFails, EndSpeed,
                SpeedRun, LibcRead, LibcValid, LibcSpeed, Report, Hang, Ring, RingInTests,
                RingOutside, traceVars
  <2> QED BY <1>2, <2>1
<1> QED BY <1>3, <1>4, <1>5, <1>6 DEF Next, Evaluation

\* The arrays of a trace are made together and given back together.
LEMMA ArraysStep ==
  ASSUME JudgedInv, JudgedInv', TypeInv, Next
  PROVE  SameIndices'
<1>1. phase' \in LoadedPhase => SameIndices'
  BY DEF JudgedInv, JudgeInv, Loaded, SameIndices
<1>2. UNCHANGED blockVars => SameIndices'
  BY DEF TypeInv, SameIndices, blockVars
<1>3. CASE ReadTrace
  BY <1>2, <1>3 DEF ReadTrace, SameIndices, NoBlocks, Cleared
<1>4. CASE StartValid \/ StartUtil
  <2>1. DOMAIN block_rand_base = Ids
    BY <1>4 DEF StartValid, StartUtil, JudgedInv, JudgeInv, LoadedPhase, Loaded
  <2>2. blocks' = NoBlocks /\ block_sizes' = Cleared /\ block_rand_base' = block_rand_base
    BY <1>4 DEF StartValid, StartUtil, Reinit
  <2> QED BY <2>1, <2>2 DEF SameIndices, NoBlocks, Cleared
<1>5. CASE ValidAlloc \/ ValidRealloc \/ ValidFree
  <2>1. phase' = "valid" \/ UNCHANGED blockVars
    BY <1>5 DEF ValidAlloc, ValidRealloc, ValidFree, Fail
  <2> QED BY <1>1, <1>2, <2>1 DEF LoadedPhase
<1>6. CASE UtilAlloc \/ UtilRealloc \/ UtilFree
  <2>1. phase' = "util" \/ UNCHANGED blockVars
    BY <1>6 DEF UtilAlloc, UtilRealloc, UtilFree, blockVars
  <2> QED BY <1>1, <1>2, <2>1 DEF LoadedPhase
<1>7. CASE \E t \in RunTime, n \in Ticks : SpeedRun(t, n)
  BY <1>1, <1>7 DEF SpeedRun, LoadedPhase
<1>8. CASE FreeTrace \/ RingInTests
  BY <1>8 DEF FreeTrace, RingInTests, SameIndices
<1>9. CASE \/ EndValid \/ EndUtil \/ SpeedFails \/ EndSpeed \/ LibcRead \/ LibcValid
           \/ LibcSpeed \/ Report \/ Hang \/ RingOutside
  <2>1. UNCHANGED blockVars
    BY <1>9 DEF EndValid, EndUtil, SpeedFails, EndSpeed, LibcRead, LibcValid, LibcSpeed, Report,
                Hang, RingOutside, traceVars, blockVars
  <2> QED BY <1>2, <2>1
<1> QED BY <1>3, <1>4, <1>5, <1>6, <1>7, <1>8, <1>9 DEF Next, Evaluation, Ring

LEMMA TypeInit == Init => TypeInv
<1> SUFFICES ASSUME Init PROVE TypeInv
  OBVIOUS
<1>1. opts.files \in Seq(DOMAIN File)
  BY DriverAssumption DEF Init
<1>2. NoStats \in Stats
  BY DEF NoStats, Stats
<1>3. mm_stats \in [1..Len(opts.files) -> Stats]
  BY <1>1, <1>2 DEF Init
<1> QED BY <1>3 DEF Init, TypeInv, SameIndices

LEMMA TypeNext ==
  JudgedInv /\ JudgedInv' /\ FcycInv /\ TypeInv /\ [Next]_vars => TypeInv'
<1> SUFFICES ASSUME JudgedInv, JudgedInv', FcycInv, TypeInv, [Next]_vars PROVE TypeInv'
  OBVIOUS
<1>1. Stats' = Stats
  BY DEF Stats
<1>2. CASE Next
  <2>1. opts' = opts /\ honest' = honest /\ alarm' \in {alarm, "rung"}
    BY <1>2 DEF Next, Evaluation, ReadTrace, FreeTrace, StartValid, ValidAlloc, ValidRealloc,
                ValidFree, EndValid, StartUtil, UtilAlloc, UtilRealloc, UtilFree, EndUtil,
                SpeedRun, SpeedFails, EndSpeed, LibcRead, LibcValid, LibcSpeed, Report, Hang,
                Ring, RingInTests, RingOutside, fixed
  <2> QED BY <1>1, <1>2, <2>1, StatsStep, CountsStep, ArraysStep
          DEF TypeInv, StatsType, CountsType
<1>3. CASE UNCHANGED vars
  BY <1>1, <1>3 DEF vars, driverVars, traceVars, utilVars, TypeInv, SameIndices
<1> QED BY <1>2, <1>3

LEMMA TypesAlwaysHold == Spec => [](FcycInv /\ TypeInv)
<1>1. Spec => []FcycInv
  <2>1. Init => FcycInv
    BY FcycInitInv DEF Init
  <2>2. FcycInv /\ [Next]_vars => FcycInv'
    BY DriverMeasures, FcycNextInv
  <2> QED BY <2>1, <2>2, PTL DEF Spec
<1>2. Spec => []TypeInv
  BY TypeInit, TypeNext, JudgedAlways, <1>1, PTL DEF Spec
<1> QED BY <1>1, <1>2, PTL

\* The variables of the driver keep their types, and the payloads that it keeps
\* lie in the heap, for every trace of a program, every command line and
\* whatever the allocator answers (mdriver.c:80-124, 808-921).
THEOREM DriverTypeAlwaysOK == Spec => []TypeOK
<1>1. JudgedInv /\ FcycInv /\ TypeInv => TypeOK
  BY TypesTogether
<1> QED BY <1>1, JudgedAlways, TypesAlwaysHold, PTL

----------------------------------------------------------------------------
(***************************************************************************)
(* The sum of the sizes of the blocks                                      *)
(***************************************************************************)
First(s) == CHOOSE x \in s : TRUE

\* The sums of V over the subsets of S, from the sums f over smaller ones.
SumBody(V, S, f) ==
  [s \in SUBSET S |-> IF s = {} THEN 0 ELSE V[First(s)] + f[s \ {First(s)}]]

\* The sums of V over the subsets of S.
Sums(V, S, f) == f \in [SUBSET S -> Int] /\ f = SumBody(V, S, f)

\* A set without its first element is smaller by one.
LEMMA FirstFacts ==
  ASSUME NEW S, IsFiniteSet(S), NEW s \in SUBSET S, s # {}
  PROVE  /\ First(s) \in s /\ s \ {First(s)} \in SUBSET S
         /\ Cardinality(s) \in Nat /\ Cardinality(s \ {First(s)}) = Cardinality(s) - 1
         /\ Cardinality(s) \in 1..Cardinality(S)
<1>1. First(s) \in s
  BY DEF First
<1>2. IsFiniteSet(s) /\ Cardinality(s) <= Cardinality(S)
  BY FS_Subset
<1>3. Cardinality(s) \in Nat /\ Cardinality(S) \in Nat /\ Cardinality(s) # 0
  BY <1>2, FS_CardinalityType, FS_EmptySet
<1>4. Cardinality(s \ {First(s)}) = Cardinality(s) - 1
  BY <1>1, <1>2, FS_RemoveElement
<1> QED BY <1>1, <1>2, <1>3, <1>4

LEMMA SumBodyTyped ==
  ASSUME NEW S, NEW V \in [S -> Int], NEW f \in [SUBSET S -> Int]
  PROVE  SumBody(V, S, f) \in [SUBSET S -> Int]
<1>1. ASSUME NEW s \in SUBSET S
      PROVE  (IF s = {} THEN 0 ELSE V[First(s)] + f[s \ {First(s)}]) \in Int
  <2>1. CASE s = {}
    BY <2>1
  <2>2. CASE s # {}
    <3>1. First(s) \in S /\ s \ {First(s)} \in SUBSET S
      BY <2>2 DEF First
    <3>2. V[First(s)] \in Int /\ f[s \ {First(s)}] \in Int
      BY <3>1
    <3> QED BY <2>2, <3>2
  <2> QED BY <2>1, <2>2
<1> QED BY <1>1 DEF SumBody

\* Among subsets of a finite set there is a least one.
LEMMA LeastSubset ==
  ASSUME NEW S, IsFiniteSet(S), NEW T \in SUBSET (SUBSET S), T # {}
  PROVE  \E s \in T : \A t \in T : ~(Cardinality(t) < Cardinality(s))
<1> DEFINE N == {Cardinality(s) : s \in T}
<1>1. \A s \in T : Cardinality(s) \in Nat
  <2> TAKE s \in T
  <2>1. IsFiniteSet(s)
    BY FS_Subset
  <2> QED BY <2>1, FS_CardinalityType
<1>2. N \in SUBSET Nat /\ N # {}
  BY <1>1
<1> HIDE DEF N
<1>3. PICK n \in N : \A m \in N : ~(m < n)
  BY <1>2, LeastNatural
<1> QED BY <1>3 DEF N

\* The sums are there: the body, applied as often as there are elements, does
\* not change them any more.
LEMMA SumsExist ==
  ASSUME NEW S, IsFiniteSet(S), NEW V \in [S -> Int]
  PROVE  \E f : Sums(V, S, f)
<1> DEFINE N == Cardinality(S) + 1
           R == [SUBSET S -> Int]
           F == [p \in (1..N) \X R |-> SumBody(V, S, p[2])]
           zero == [s \in SUBSET S |-> 0]
<1>1. N \in Nat /\ N - 1 \in Nat /\ N - 1 = Cardinality(S)
  BY FS_CardinalityType
<1>2. F \in [(1..N) \X R -> R]
  BY SumBodyTyped
<1>3. zero \in R
  OBVIOUS
<1>4. \A j \in 1..N, f \in R : F[<<j, f>>] = SumBody(V, S, f)
  OBVIOUS
<1>z. zero[{}] = 0
  OBVIOUS
<1> HIDE DEF N, R, F, zero
<1>5. PICK g : StepIteration(R, F, zero, N, g)
  BY <1>1, <1>2, <1>3, StepIterates
<1>6. /\ \A j \in 0..N : g[j] \in R
      /\ g[0] = zero
      /\ \A j \in 1..N : g[j] = SumBody(V, S, g[j - 1])
  <2>1. g \in [0..N -> R] /\ g[0] = zero /\ \A j \in 1..N : g[j] = F[<<j, g[j - 1]>>]
    BY <1>5 DEF StepIteration
  <2>2. \A j \in 1..N : j - 1 \in 0..N
    BY <1>1
  <2> QED BY <1>4, <2>1, <2>2
<1> DEFINE Settled(j) == \A s \in SUBSET S : Cardinality(s) < j => g[j][s] = g[j - 1][s]
           T == {j \in 1..N : ~Settled(j)}
<1>7. T = {}
  <2> SUFFICES ASSUME T # {} PROVE FALSE
    OBVIOUS
  <2>1. T \in SUBSET Nat
    BY <1>1
  <2>2. PICK j \in T : \A m \in T : ~(m < j)
    <3> HIDE DEF T
    <3> QED BY <2>1, LeastNatural
  <2>3. j \in 1..N /\ j \in Nat /\ j - 1 \in 0..N
    BY <1>1, <2>1, <2>2
  <2>4. j > 1 => Settled(j - 1)
    <3> SUFFICES ASSUME j > 1 PROVE j - 1 \notin T /\ j - 1 \in 1..N
      OBVIOUS
    <3>1. j - 1 < j /\ j - 1 \in 1..N
      BY <2>3
    <3> HIDE DEF T
    <3> QED BY <2>2, <3>1
  <2>5. PICK s \in SUBSET S : Cardinality(s) < j /\ g[j][s] # g[j - 1][s]
    BY <2>2
  <2> HIDE DEF T
  <2>6. g[j] = SumBody(V, S, g[j - 1])
    BY <1>6, <2>3
  <2>7. CASE s = {}
    <3>1. g[j][s] = 0
      BY <2>6, <2>7 DEF SumBody
    <3>2. CASE j = 1
      <4>1. g[j - 1] = zero
        BY <1>6, <3>2
      <4> QED BY <1>z, <2>5, <2>7, <3>1, <4>1
    <3>3. CASE j # 1
      <4>1. j - 1 \in 1..N
        BY <2>3, <3>3
      <4>2. g[j - 1] = SumBody(V, S, g[(j - 1) - 1])
        BY <1>6, <4>1
      <4>3. g[j - 1][s] = 0
        BY <2>7, <4>2 DEF SumBody
      <4> QED BY <2>5, <3>1, <4>3
    <3> QED BY <3>2, <3>3
  <2>8. CASE s # {}
    <3> DEFINE x == First(s)  r == s \ {x}
    <3>1. /\ r \in SUBSET S /\ Cardinality(s) \in 1..Cardinality(S)
          /\ Cardinality(r) = Cardinality(s) - 1
      BY <2>8, FirstFacts
    <3>2. j > 1 /\ j - 1 \in 1..N /\ Cardinality(r) < j - 1
      BY <1>1, <2>3, <2>5, <3>1
    <3>3. g[j - 1] = SumBody(V, S, g[(j - 1) - 1])
      BY <1>6, <3>2
    <3>4. g[j - 1][r] = g[(j - 1) - 1][r]
      BY <2>4, <3>1, <3>2
    <3>5. g[j][s] = V[x] + g[j - 1][r] /\ g[j - 1][s] = V[x] + g[(j - 1) - 1][r]
      BY <2>6, <2>8, <3>3 DEF SumBody
    <3> QED BY <2>5, <3>4, <3>5
  <2> QED BY <2>7, <2>8
<1>8. N \in 1..N /\ N - 1 \in 0..N
  BY <1>1
<1>9. \A s \in SUBSET S : g[N][s] = g[N - 1][s]
  <2> TAKE s \in SUBSET S
  <2>1. Settled(N)
    BY <1>7, <1>8
  <2>2. Cardinality(s) <= Cardinality(S) /\ IsFiniteSet(s)
    BY FS_Subset
  <2>3. Cardinality(s) \in Nat /\ Cardinality(S) \in Nat
    BY <2>2, FS_CardinalityType
  <2>4. Cardinality(s) < N
    BY <2>2, <2>3 DEF N
  <2> QED BY <2>1, <2>4
<1>10. g[N] \in R /\ g[N - 1] \in R
  BY <1>6, <1>1
<1>11. g[N] = g[N - 1]
  BY <1>9, <1>10 DEF R
<1>12. g[N] = SumBody(V, S, g[N])
  BY <1>6, <1>8, <1>11
<1> QED BY <1>10, <1>12 DEF Sums, R

\* How the sums change with one value.
LEMMA SumsChange ==
  ASSUME NEW S, IsFiniteSet(S), NEW V \in [S -> Int], NEW W \in [S -> Int], NEW x,
         \A y \in S : y # x => W[y] = V[y], NEW f, Sums(V, S, f), NEW h, Sums(W, S, h)
  PROVE  \A s \in SUBSET S : h[s] = f[s] + (IF x \in s THEN W[x] - V[x] ELSE 0)
<1> DEFINE Changed(s) == h[s] = f[s] + (IF x \in s THEN W[x] - V[x] ELSE 0)
           T == {s \in SUBSET S : ~Changed(s)}
<1> SUFFICES ASSUME T # {} PROVE FALSE
  OBVIOUS
<1>1. PICK s \in T : \A t \in T : ~(Cardinality(t) < Cardinality(s))
  <2>1. T \in SUBSET (SUBSET S)
    OBVIOUS
  <2> HIDE DEF T
  <2> QED BY <2>1, LeastSubset
<1>2. /\ \A t \in SUBSET S : f[t] = IF t = {} THEN 0 ELSE V[First(t)] + f[t \ {First(t)}]
      /\ \A t \in SUBSET S : h[t] = IF t = {} THEN 0 ELSE W[First(t)] + h[t \ {First(t)}]
      /\ \A t \in SUBSET S : f[t] \in Int /\ h[t] \in Int
  BY DEF Sums, SumBody
<1>3. s \in SUBSET S /\ ~Changed(s)
  BY <1>1
<1>4. s # {}
  <2>1. f[{}] = 0 /\ h[{}] = 0
    BY <1>2
  <2>2. Changed({})
    BY <2>1
  <2> QED BY <1>3, <2>2
<1> DEFINE y == First(s)  r == s \ {y}
<1>5. y \in s /\ r \in SUBSET S /\ Cardinality(r) < Cardinality(s) /\ y \in S
  BY <1>3, <1>4, FirstFacts
<1>6. Changed(r)
  BY <1>1, <1>5
<1>7. f[s] = V[y] + f[r] /\ h[s] = W[y] + h[r]
  BY <1>2, <1>3, <1>4
<1>8. f[r] \in Int /\ h[r] \in Int /\ V[y] \in Int /\ W[y] \in Int /\ f[s] \in Int /\ h[s] \in Int
  BY <1>2, <1>3, <1>5
<1>9. CASE y = x
  <2>1. x \notin r /\ x \in s
    BY <1>5, <1>9
  <2>2. h[r] = f[r] + 0
    BY <1>6, <2>1
  <2>3. h[s] = f[s] + (W[x] - V[x])
    BY <1>7, <1>8, <1>9, <2>2
  <2> QED BY <1>3, <2>1, <2>3
<1>10. CASE y # x
  <2>1. x \in r <=> x \in s
    BY <1>10
  <2>2. W[y] = V[y]
    BY <1>5, <1>10
  <2>3. CASE x \in s
    <3>1. W[x] \in Int /\ V[x] \in Int
      BY <1>3, <2>3
    <3>2. h[r] = f[r] + (W[x] - V[x])
      BY <1>6, <2>1, <2>3
    <3>3. h[s] = f[s] + (W[x] - V[x])
      BY <1>7, <1>8, <2>2, <3>1, <3>2
    <3> QED BY <1>3, <2>3, <3>3
  <2>4. CASE x \notin s
    <3>1. h[r] = f[r] + 0
      BY <1>6, <2>1, <2>4
    <3>2. h[s] = f[s] + 0
      BY <1>7, <1>8, <2>2, <3>1
    <3> QED BY <1>3, <2>4, <3>2
  <2> QED BY <2>3, <2>4
<1> QED BY <1>9, <1>10

\* Payloads that do not overlap, below b, are at most b bytes.
LEMMA SumsOfPayloads ==
  ASSUME NEW S, IsFiniteSet(S), NEW V \in [S -> Nat], NEW f, Sums(V, S, f),
         NEW B \in [S -> Int], NEW b \in Nat,
         \A x \in S : V[x] > 0 => B[x] >= 0 /\ B[x] + V[x] <= b,
         \A x, y \in S : x # y /\ V[x] > 0 /\ V[y] > 0 =>
           Payload(B[x], V[x]) \cap Payload(B[y], V[y]) = {}
  PROVE  f[S] \in 0..b
<1> DEFINE Bytes(s) == UNION {Payload(B[x], V[x]) : x \in s}
           Exact(s) == IsFiniteSet(Bytes(s)) /\ f[s] = Cardinality(Bytes(s))
           T == {s \in SUBSET S : ~Exact(s)}
<1>1. \A t \in SUBSET S : f[t] = IF t = {} THEN 0 ELSE V[First(t)] + f[t \ {First(t)}]
  BY DEF Sums, SumBody
<1>2. \A x \in S : V[x] \in Nat /\ B[x] \in Int
  OBVIOUS
<1>3. T = {}
  <2> SUFFICES ASSUME T # {} PROVE FALSE
    OBVIOUS
  <2>1. PICK s \in T : \A t \in T : ~(Cardinality(t) < Cardinality(s))
    <3>1. T \in SUBSET (SUBSET S)
      OBVIOUS
    <3> HIDE DEF T
    <3> QED BY <3>1, LeastSubset
  <2>2. s \in SUBSET S /\ ~Exact(s)
    BY <2>1
  <2>3. s # {}
    <3> SUFFICES Exact({})
      BY <2>2
    <3>1. Bytes({}) = {}
      OBVIOUS
    <3> QED BY <1>1, <3>1, FS_EmptySet
  <2> DEFINE y == First(s)  r == s \ {y}  P == Payload(B[y], V[y])  Q == Bytes(r)
  <2>4. y \in s /\ r \in SUBSET S /\ Cardinality(r) < Cardinality(s) /\ y \in S
    <3>1. /\ y \in s /\ r \in SUBSET S /\ Cardinality(s) \in Nat
          /\ Cardinality(r) = Cardinality(s) - 1
      BY ONLY <2>2, <2>3, FirstFacts, IsFiniteSet(S) DEF y, r
    <3> QED BY ONLY <2>2, <3>1
  <2>5. IsFiniteSet(Q) /\ f[r] = Cardinality(Q)
    BY <2>1, <2>4
  <2>6. Bytes(s) = P \cup Q
    BY <2>4
  <2>7. IsFiniteSet(P) /\ Cardinality(P) = V[y]
    <3>1. V[y] \in Nat /\ B[y] \in Int
      BY <1>2, <2>4
    <3>2. /\ IsFiniteSet(B[y]..(B[y] + V[y] - 1))
          /\ Cardinality(B[y]..(B[y] + V[y] - 1)) =
               IF B[y] > B[y] + V[y] - 1 THEN 0 ELSE (B[y] + V[y] - 1) - B[y] + 1
      <4>1. B[y] + V[y] - 1 \in Int
        BY <3>1
      <4> QED BY <3>1, <4>1, FS_Interval
    <3> QED BY <3>1, <3>2 DEF Payload
  <2>8. P \cap Q = {}
    <3> SUFFICES ASSUME NEW x \in r PROVE P \cap Payload(B[x], V[x]) = {}
      OBVIOUS
    <3>1. x \in S /\ x # y /\ V[x] \in Nat /\ V[y] \in Nat /\ B[x] \in Int /\ B[y] \in Int
      BY <1>2, <2>4
    <3>2. CASE V[x] > 0 /\ V[y] > 0
      BY <2>4, <3>1, <3>2
    <3>3. CASE ~(V[x] > 0 /\ V[y] > 0)
      BY <3>1, <3>3 DEF Payload
    <3> QED BY <3>2, <3>3
  <2>9. f[s] = V[y] + f[r]
    BY <1>1, <2>2, <2>3
  <2>10. IsFiniteSet(P \cup Q) /\ Cardinality(P \cup Q) = Cardinality(P) + Cardinality(Q)
    <3> HIDE DEF P, Q
    <3>1. Cardinality(P \cap Q) = 0
      BY <2>8, FS_EmptySet
    <3>2. Cardinality(P) \in Nat /\ Cardinality(Q) \in Nat
      BY <2>5, <2>7, FS_CardinalityType
    <3>3. /\ IsFiniteSet(P \cup Q)
          /\ Cardinality(P \cup Q) = Cardinality(P) + Cardinality(Q) - Cardinality(P \cap Q)
      BY ONLY <2>5, <2>7, FS_Union
    <3> QED BY ONLY <3>1, <3>2, <3>3
  <2> QED BY <2>2, <2>5, <2>6, <2>7, <2>9, <2>10
<1>4. S \in SUBSET S
  OBVIOUS
<1>5. Exact(S)
  BY <1>3, <1>4
<1>6. Bytes(S) \subseteq 0..(b - 1)
  <2> SUFFICES ASSUME NEW x \in S PROVE Payload(B[x], V[x]) \subseteq 0..(b - 1)
    OBVIOUS
  <2>1. V[x] \in Nat /\ B[x] \in Int
    BY <1>2
  <2>2. CASE V[x] > 0
    BY <2>1, <2>2 DEF Payload
  <2>3. CASE V[x] = 0
    BY <2>1, <2>3 DEF Payload
  <2> QED BY <2>1, <2>2, <2>3
<1>7. IsFiniteSet(0..(b - 1)) /\ Cardinality(0..(b - 1)) = b
  <2>1. 0 \in Int /\ b - 1 \in Int
    OBVIOUS
  <2>2. Cardinality(0..(b - 1)) = (IF 0 > b - 1 THEN 0 ELSE (b - 1) - 0 + 1) /\ IsFiniteSet(0..(b - 1))
    BY ONLY <2>1, FS_Interval
  <2> QED BY <2>2
<1> HIDE DEF Bytes
<1>8. Cardinality(Bytes(S)) \in Nat /\ Cardinality(Bytes(S)) <= b
  BY <1>5, <1>6, <1>7, FS_Subset, FS_CardinalityType
<1> QED BY <1>5, <1>8

----------------------------------------------------------------------------
(***************************************************************************)
(* The demand of the program                                               *)
(***************************************************************************)
DemandOf(lines, I, n) == MapThenSumSet(LAMBDA id : Size(lines, n, id), I)

LEMMA DemandIsDemandOf == \A n : Demand(n) = DemandOf(trace.lines, Ids, n)
BY DEF Demand, DemandOf

\* The demand is one of the sums over the sizes.
LEMMA DemandSummed ==
  ASSUME NEW lines, NEW I, IsFiniteSet(I), NEW n, NEW V \in [I -> Nat],
         \A id \in I : V[id] = Size(lines, n, id)
  PROVE  \E f : Sums(V, I, f) /\ DemandOf(lines, I, n) = f[I]
<1> DEFINE Body(f) == [s \in SUBSET I |->
                         IF s = {} THEN 0
                         ELSE Size(lines, n, First(s)) + f[s \ {First(s)}]]
           f == CHOOSE f : f = Body(f)
<1>1. DemandOf(lines, I, n) = f[I]
  BY DEF DemandOf, MapThenSumSet, MapThenFoldSet, First
<1>2. \A g : Body(g) = SumBody(V, I, g)
  <2> TAKE g
  <2>1. ASSUME NEW s \in SUBSET I, s # {} PROVE Size(lines, n, First(s)) = V[First(s)]
    BY <2>1 DEF First
  <2> QED BY <2>1 DEF SumBody
<1>3. PICK g : Sums(V, I, g)
  <2>1. V \in [I -> Int]
    OBVIOUS
  <2> QED BY <2>1, SumsExist
<1>4. g = Body(g)
  BY <1>2, <1>3 DEF Sums
<1>5. f = Body(f)
  <2> HIDE DEF Body
  <2> QED BY <1>4
<1>6. f = SumBody(V, I, f)
  BY ONLY <1>2, <1>5
<1>7. f \in [SUBSET I -> Int]
  <2> DEFINE T == {s \in SUBSET I : f[s] \notin Int}
  <2>1. \A s \in SUBSET I : f[s] = IF s = {} THEN 0 ELSE V[First(s)] + f[s \ {First(s)}]
    <3> HIDE DEF f
    <3> QED BY <1>6 DEF SumBody
  <2>2. DOMAIN f = SUBSET I /\ f = [s \in SUBSET I |-> f[s]]
    <3> HIDE DEF f, Body
    <3> QED BY <1>6 DEF SumBody
  <2> HIDE DEF f, Body
  <2>3. ASSUME T # {} PROVE FALSE
    <3>1. PICK s \in T : \A t \in T : ~(Cardinality(t) < Cardinality(s))
      <4>1. T \in SUBSET (SUBSET I)
        OBVIOUS
      <4> HIDE DEF T
      <4> QED BY <2>3, <4>1, LeastSubset
    <3>2. s \in SUBSET I /\ f[s] \notin Int /\ s # {}
      <4>1. s \in SUBSET I /\ f[s] \notin Int
        BY <3>1
      <4>2. f[{}] = 0
        BY ONLY <2>1
      <4> QED BY ONLY <4>1, <4>2
    <3> DEFINE y == First(s)  r == s \ {y}
    <3>3. y \in I /\ r \in SUBSET I /\ Cardinality(r) < Cardinality(s)
      <4>1. /\ y \in s /\ r \in SUBSET I /\ Cardinality(s) \in Nat
            /\ Cardinality(r) = Cardinality(s) - 1
        BY ONLY <3>2, FirstFacts, IsFiniteSet(I) DEF y, r
      <4> QED BY ONLY <3>2, <4>1
    <3>4. f[r] \in Int
      BY <3>1, <3>3
    <3>5. V[y] \in Int
      BY <3>3
    <3>6. f[s] = V[y] + f[r]
      BY ONLY <2>1, <3>2
    <3> QED BY ONLY <3>2, <3>4, <3>5, <3>6
  <2> QED BY <2>2, <2>3
<1> QED BY <1>1, <1>6, <1>7 DEF Sums

\* A block with a size was not freed.
LEMMA SizesTyped ==
  ASSUME ScoreInv, Legal(trace), NEW n \in 0..trace.num_ops, NEW id
  PROVE  /\ Size(trace.lines, n, id) \in Nat
         /\ Size(trace.lines, n, id) > 0 => Current(n, id)
<1> DEFINE k == LastOp(trace.lines, n, id)
<1>1. trace.num_ops \in Nat /\ n \in Nat
  BY TraceFacts
<1>2. k \in 0..n
  BY <1>1, LastOpStep
<1>3. CASE k = 0
  BY <1>3 DEF Size, Current
<1>4. CASE k # 0
  <2>1. k \in 1..trace.num_ops /\ k - 1 \in Nat /\ k - 1 < trace.num_ops /\ (k - 1) + 1 = k
    BY <1>1, <1>2, <1>4
  <2>2. trace.lines[k].size \in Nat /\ (trace.lines[k].type = "f" => trace.lines[k].size = 0)
    <3> DEFINE l == trace.lines[(k - 1) + 1]
    <3>1. l.size \in Nat /\ (l.type = "f" => l.size = 0)
      <4> HIDE DEF k
      <4>1. k - 1 \in Nat /\ k - 1 < trace.num_ops /\ l = trace.lines[(k - 1) + 1]
        BY <2>1
      <4> HIDE DEF l
      <4> QED BY <4>1, RequestFacts
    <3> QED BY <2>1, <3>1
  <2> QED BY <1>4, <2>2 DEF Size, Current
<1> QED BY <1>3, <1>4

LEMMA IdsFinite ==
  ASSUME ScoreInv
  PROVE  IsFiniteSet(Ids)
<1>1. trace.num_ids - 1 \in Int
  BY TraceFacts
<1> QED BY <1>1, FS_Interval DEF Ids

\* A request adds what it asks for, and takes off what its block had.
LEMMA DemandStep ==
  ASSUME ScoreInv, Legal(trace), NEW n \in Nat, n < trace.num_ops,
         NEW l, l = trace.lines[n + 1]
  PROVE  /\ Demand(n) \in Int
         /\ Demand(n + 1) = Demand(n) + (IF l.index \in Ids
                                         THEN l.size - Size(trace.lines, n, l.index) ELSE 0)
<1> DEFINE V == [id \in Ids |-> Size(trace.lines, n, id)]
           W == [id \in Ids |-> Size(trace.lines, n + 1, id)]
<1>1. n \in 0..trace.num_ops /\ n + 1 \in 0..trace.num_ops
  BY TraceFacts
<1>2. /\ V \in [Ids -> Nat] /\ \A id \in Ids : V[id] = Size(trace.lines, n, id)
      /\ W \in [Ids -> Nat] /\ \A id \in Ids : W[id] = Size(trace.lines, n + 1, id)
  BY <1>1, SizesTyped
<1> HIDE DEF V, W
<1>3. IsFiniteSet(Ids)
  BY IdsFinite
<1>4. PICK f : Sums(V, Ids, f) /\ DemandOf(trace.lines, Ids, n) = f[Ids]
  BY <1>2, <1>3, DemandSummed
<1>5. PICK h : Sums(W, Ids, h) /\ DemandOf(trace.lines, Ids, n + 1) = h[Ids]
  BY <1>2, <1>3, DemandSummed
<1>6. \A id : Size(trace.lines, n + 1, id) =
        IF l.index = id THEN l.size ELSE Size(trace.lines, n, id)
  BY SizeStep
<1>7. V \in [Ids -> Int] /\ W \in [Ids -> Int] /\ \A y \in Ids : y # l.index => W[y] = V[y]
  BY <1>2, <1>6
<1>8. h[Ids] = f[Ids] + (IF l.index \in Ids THEN W[l.index] - V[l.index] ELSE 0)
  <2>1. \A s \in SUBSET Ids : h[s] = f[s] + (IF l.index \in s THEN W[l.index] - V[l.index] ELSE 0)
    BY ONLY <1>3, <1>4, <1>5, <1>7, SumsChange
  <2>2. Ids \in SUBSET Ids
    OBVIOUS
  <2> QED BY <2>1, <2>2
<1>9. f[Ids] \in Int
  <2>1. Ids \in SUBSET Ids
    OBVIOUS
  <2> QED BY <1>4, <2>1 DEF Sums
<1>10. l.index \in Ids => W[l.index] = l.size /\ V[l.index] = Size(trace.lines, n, l.index)
  BY <1>2, <1>6
<1>11. Demand(n) = f[Ids] /\ Demand(n + 1) = h[Ids]
  BY <1>4, <1>5, DemandIsDemandOf
<1> QED BY <1>8, <1>9, <1>10, <1>11

LEMMA DemandTyped ==
  ASSUME ScoreInv, Legal(trace), NEW n \in 0..trace.num_ops
  PROVE  Demand(n) \in Int
<1> DEFINE V == [id \in Ids |-> Size(trace.lines, n, id)]
<1>1. V \in [Ids -> Nat] /\ \A id \in Ids : V[id] = Size(trace.lines, n, id)
  BY SizesTyped
<1> HIDE DEF V
<1>2. PICK f : Sums(V, Ids, f) /\ DemandOf(trace.lines, Ids, n) = f[Ids]
  BY <1>1, IdsFinite, DemandSummed
<1>3. f[Ids] \in Int
  <2>1. Ids \in SUBSET Ids
    OBVIOUS
  <2> QED BY <1>2, <2>1 DEF Sums
<1> QED BY <1>2, <1>3, DemandIsDemandOf

\* The blocks of the program do not overlap.
Apart(n, B, S) ==
  \A x, y \in LiveAt(n) : x # y => Payload(B[x], S[x]) \cap Payload(B[y], S[y]) = {}

\* What lies apart in b bytes is at most b bytes.
LEMMA DemandFits ==
  ASSUME ScoreInv, Legal(trace), NEW n \in 0..trace.num_ops,
         NEW B, NEW S, NEW b \in Nat, Placed(n, B, S, b), Apart(n, B, S)
  PROVE  Demand(n) \in 0..b
<1> DEFINE V == [id \in Ids |-> Size(trace.lines, n, id)]
<1>1. V \in [Ids -> Nat] /\ \A id \in Ids : V[id] = Size(trace.lines, n, id)
  BY SizesTyped
<1> HIDE DEF V
<1>2. PICK f : Sums(V, Ids, f) /\ DemandOf(trace.lines, Ids, n) = f[Ids]
  BY <1>1, IdsFinite, DemandSummed
<1>3. ASSUME NEW x \in Ids, V[x] > 0 PROVE x \in LiveAt(n) /\ V[x] = S[x]
  <2>1. Size(trace.lines, n, x) > 0 /\ V[x] = Size(trace.lines, n, x)
    BY <1>1, <1>3
  <2>2. Current(n, x)
    BY <2>1, SizesTyped
  <2> QED BY <2>1, <2>2 DEF LiveAt, Placed
<1>4. \A x \in Ids : V[x] > 0 => B[x] >= 0 /\ B[x] + V[x] <= b
  BY <1>3 DEF Placed
<1>5. \A x, y \in Ids : x # y /\ V[x] > 0 /\ V[y] > 0 =>
        Payload(B[x], V[x]) \cap Payload(B[y], V[y]) = {}
  BY <1>3 DEF Apart
<1>6. B \in [Ids -> Int]
  BY DEF Placed
<1>7. f[Ids] \in 0..b
  BY ONLY <1>1, <1>2, <1>4, <1>5, <1>6, b \in Nat, IdsFinite, ScoreInv, SumsOfPayloads
<1> QED BY <1>2, <1>7, DemandIsDemandOf

LEMMA DemandFirst ==
  ASSUME ScoreInv, Legal(trace)
  PROVE  Demand(0) = 0
<1>1. Placed(0, NoBlocks, Cleared, 0) /\ LiveAt(0) = {}
  BY PlacedFirst
<1>2. Apart(0, NoBlocks, Cleared)
  BY <1>1 DEF Apart
<1>3. 0 \in 0..trace.num_ops /\ 0 \in Nat
  BY TraceFacts
<1>4. Demand(0) \in 0..0
  BY <1>1, <1>2, <1>3, DemandFits
<1> QED BY <1>4

----------------------------------------------------------------------------
(***************************************************************************)
(* The utilization                                                         *)
(***************************************************************************)
HighWater ==
  /\ \A n \in 0..opnum : Demand(n) <= max_total_size
  /\ \E n \in 0..opnum : Demand(n) = max_total_size

\* What eval_mm_util knows of the blocks: their sizes, and with an honest
\* allocator that they lie apart in the heap.
Measured ==
  /\ \A id \in Ids : Current(opnum, id) => block_sizes[id] = Size(trace.lines, opnum, id)
  /\ total_size = Demand(opnum)
  /\ HighWater
  /\ honest => /\ Placed(opnum, blocks, block_sizes, brk)
               /\ Apart(opnum, blocks, block_sizes)
               /\ max_total_size <= brk

Fits(s) == s.util # <<>> => s.util[1] <= s.util[2]

UtilInv ==
  /\ phase = "util" => Measured
  /\ honest => \A j \in 1..Len(opts.files) : Fits(mm_stats[j])

LEMMA DemandNow == Demand(opnum) = DemandOf(trace.lines, Ids, opnum)
BY DemandIsDemandOf

LEMMA SameDemand ==
  ASSUME opts' = opts, i' = i
  PROVE  /\ \A n : Demand(n)' = Demand(n)
         /\ \A n, id : Current(n, id)' = Current(n, id)
         /\ \A n : Apart(n, blocks, block_sizes)' = Apart(n, blocks', block_sizes')
<1>1. trace' = trace /\ Ids' = Ids /\ \A n : LiveAt(n)' = LiveAt(n)
  BY SameTrace
<1>2. \A n : Demand(n) = DemandOf(trace.lines, Ids, n)
  BY DemandIsDemandOf
<1>3. (\A n : Demand(n) = DemandOf(trace.lines, Ids, n))'
  BY DemandIsDemandOf, PTL
<1>4. \A n, id : Current(n, id)' = Current(n, id)
  BY <1>1 DEF Current
<1>5. \A n : Apart(n, blocks, block_sizes)' = Apart(n, blocks', block_sizes')
  BY <1>1 DEF Apart
<1> QED BY <1>1, <1>2, <1>3, <1>4, <1>5

\* The count follows the demand, and its high-water mark.
LEMMA CountFollows ==
  ASSUME ScoreInv, Legal(trace), TypeInv, opnum < trace.num_ops,
         total_size = Demand(opnum), HighWater,
         NEW d \in Int, Count(d), Demand(opnum + 1) = Demand(opnum) + d,
         opnum' = opnum + 1, opts' = opts, i' = i
  PROVE  /\ total_size' = Demand(opnum + 1) /\ HighWater'
         /\ (total_size = Demand(opnum))'
         /\ max_total_size' \in {max_total_size, Demand(opnum + 1)}
<1>1. \A n : Demand(n)' = Demand(n)
  BY SameDemand
<1>2. /\ opnum \in Nat /\ trace.num_ops \in Nat /\ total_size \in Int /\ max_total_size \in Nat
      /\ opnum' \in 0..trace.num_ops
  BY TraceFacts DEF TypeInv
<1>3. total_size' = total_size + d /\ total_size' = Demand(opnum + 1)
  BY DEF Count
<1>4. max_total_size' = IF total_size' > max_total_size THEN total_size' ELSE max_total_size
  BY DEF Count
<1>5. total_size' \in Int
  BY <1>2, <1>3
<1>6. \A n \in 0..opnum : Demand(n) \in Int
  BY <1>2, DemandTyped
<1>7. \A n \in 0..(opnum + 1) : Demand(n) <= max_total_size'
  <2> TAKE n \in 0..(opnum + 1)
  <2>1. CASE n = opnum + 1
    <3>1. total_size' <= max_total_size'
      BY <1>2, <1>4, <1>5
    <3> QED BY <1>3, <2>1, <3>1
  <2>2. CASE n # opnum + 1
    <3>1. n \in 0..opnum
      BY <1>2, <2>2
    <3>2. Demand(n) <= max_total_size /\ Demand(n) \in Int
      BY <1>6, <3>1 DEF HighWater
    <3>3. max_total_size <= max_total_size' /\ max_total_size' \in Int
      BY <1>2, <1>4, <1>5
    <3> QED BY ONLY <1>2, <3>2, <3>3
  <2> QED BY <2>1, <2>2
<1>8. \E n \in 0..(opnum + 1) : Demand(n) = max_total_size'
  <2>1. CASE total_size' > max_total_size
    <3>1. Demand(opnum + 1) = max_total_size' /\ opnum + 1 \in 0..(opnum + 1)
      BY <1>2, <1>3, <1>4, <2>1
    <3> QED BY <3>1
  <2>2. CASE ~(total_size' > max_total_size)
    <3>1. PICK n \in 0..opnum : Demand(n) = max_total_size
      BY DEF HighWater
    <3>2. n \in 0..(opnum + 1) /\ max_total_size' = max_total_size
      BY <1>2, <1>4, <2>2
    <3> QED BY <3>1, <3>2
  <2> QED BY <2>1, <2>2
<1>9. HighWater'
  BY <1>1, <1>7, <1>8 DEF HighWater
<1>10. (total_size = Demand(opnum))'
  <2>1. (Demand(opnum) = DemandOf(trace.lines, Ids, opnum))'
    BY DemandNow, PTL
  <2>2. trace' = trace /\ Ids' = Ids
    BY SameTrace
  <2>3. Demand(opnum + 1) = DemandOf(trace.lines, Ids, opnum + 1)
    BY DemandIsDemandOf
  <2> QED BY <1>3, <2>1, <2>2, <2>3
<1> QED BY <1>3, <1>4, <1>9, <1>10

\* An honest answer.
LEMMA HonestAnswer ==
  ASSUME honest, brk \in 0..HeapLimit, NEW id, NEW size \in Nat, NEW lo, NEW n,
         NEW a \in UtilAnswers(id, size, lo, n)
  PROVE  /\ a.ptr \in Int /\ a.brk \in Nat /\ brk <= a.brk
         /\ size = 0 => a.ptr = NULL
         /\ size > 0 =>
              /\ a.ptr >= 0 /\ a.ptr + size <= a.brk
              /\ \A j \in Live \ {id} :
                   Payload(a.ptr, size) \cap Payload(blocks[j], block_sizes[j]) = {}
<1>1. HeapLimit \in Nat /\ NULL \in Int
  BY RangeListAssumption DEF NULL
<1>2. a \in Honest(id, size, lo, n)
  BY DEF UtilAnswers
<1>3. CASE size = 0
  BY <1>1, <1>2, <1>3 DEF Honest, Answer
<1>4. CASE size # 0
  <2>1. PICK e \in Extents(id, size) : a.ptr = e.ptr /\ a.brk = e.brk
    BY <1>2, <1>4 DEF Honest, Answer
  <2>2. /\ e.ptr \in 0..(HeapLimit - 1) /\ e.brk \in brk..HeapLimit /\ e.ptr + size <= e.brk
        /\ \A j \in Live \ {id} :
             Payload(e.ptr, size) \cap Payload(blocks[j], block_sizes[j]) = {}
    BY DEF Extents
  <2> QED BY <1>1, <1>4, <2>1, <2>2
<1> QED BY <1>3, <1>4

\* The blocks lie apart after one was placed.
LEMMA ApartRequest ==
  ASSUME ScoreInv, Legal(trace), NEW n \in Nat, n < trace.num_ops,
         NEW l, l = trace.lines[n + 1], l.type # "f",
         NEW B \in [Ids -> Int], NEW S \in [Ids -> Nat], Apart(n, B, S), NEW p \in Int,
         l.size > 0 => \A j \in LiveAt(n) \ {l.index} :
                         Payload(p, l.size) \cap Payload(B[j], S[j]) = {}
  PROVE  Apart(n + 1, [B EXCEPT ![l.index] = p], [S EXCEPT ![l.index] = l.size])
<1> DEFINE id == l.index
           C == [B EXCEPT ![id] = p]
           T == [S EXCEPT ![id] = l.size]
<1>1. id \in Ids /\ LiveAt(n + 1) = IF l.size > 0 THEN LiveAt(n) \cup {id} ELSE LiveAt(n) \ {id}
  BY RequestFacts
<1>2. C[id] = p /\ T[id] = l.size /\ \A x \in Ids : x # id => C[x] = B[x] /\ T[x] = S[x]
  BY <1>1
<1> HIDE DEF C, T
<1>3. ASSUME NEW x \in LiveAt(n + 1), NEW y \in LiveAt(n + 1), x # y
      PROVE  Payload(C[x], T[x]) \cap Payload(C[y], T[y]) = {}
  <2>0. x \in Ids /\ y \in Ids
    BY DEF LiveAt
  <2>1. CASE x = id
    <3>1. l.size > 0 /\ y \in LiveAt(n) \ {id}
      BY <1>1, <1>3, <2>1
    <3>2. Payload(p, l.size) \cap Payload(B[y], S[y]) = {}
      BY <3>1
    <3> QED BY <1>2, <1>3, <2>0, <2>1, <3>2
  <2>2. CASE y = id
    <3>1. l.size > 0 /\ x \in LiveAt(n) \ {id}
      BY <1>1, <1>3, <2>2
    <3>2. Payload(p, l.size) \cap Payload(B[x], S[x]) = {}
      BY <3>1
    <3>3. C[x] = B[x] /\ T[x] = S[x] /\ C[y] = p /\ T[y] = l.size
      BY <1>2, <1>3, <2>0, <2>2
    <3> QED BY <3>2, <3>3
  <2>3. CASE x # id /\ y # id
    <3>1. x \in LiveAt(n) /\ y \in LiveAt(n)
      BY <1>1, <2>3
    <3>2. Payload(B[x], S[x]) \cap Payload(B[y], S[y]) = {}
      BY <1>3, <3>1 DEF Apart
    <3> QED BY <1>2, <2>0, <2>3, <3>2
  <2> QED BY <2>1, <2>2, <2>3
<1> QED BY <1>3 DEF Apart, C, T

\* What is known of a state of eval_mm_util before a request.
LEMMA UtilFacts ==
  ASSUME JudgedInv, TypeInv, UtilInv, phase = "util", opnum < trace.num_ops
  PROVE  /\ ScoreInv /\ Legal(trace) /\ Measured
         /\ opnum \in Nat /\ opnum + 1 \in 0..trace.num_ops /\ op = trace.lines[opnum + 1]
         /\ blocks \in [Ids -> Int] /\ block_sizes \in [Ids -> Nat] /\ brk \in 0..HeapLimit
         /\ brk \in Nat
<1>1. ScoreInv /\ JudgeInv /\ Measured /\ opnum \in Nat
  BY DEF JudgedInv, UtilInv, TypeInv
<1>2. Loaded /\ brk \in 0..HeapLimit
  BY <1>1 DEF JudgeInv, LoadedPhase
<1>3. opnum + 1 \in 0..trace.num_ops
  BY <1>1, TraceFacts
<1>4. brk \in Nat
  BY <1>2, RangeListAssumption
<1> QED BY <1>1, <1>2, <1>3, <1>4 DEF Loaded, op

\* A request for a block is served.
LEMMA ServedMeasured ==
  ASSUME JudgedInv, TypeInv, UtilInv, phase = "util", opnum < trace.num_ops, op.type # "f",
         NEW lo, NEW n, NEW a \in UtilAnswers(op.index, op.size, lo, n),
         brk' = a.brk, opts' = opts, i' = i, honest' = honest, opnum' = opnum + 1,
         blocks' = [blocks EXCEPT ![op.index] = a.ptr],
         block_sizes' = [block_sizes EXCEPT ![op.index] = op.size],
         Count(op.size - Size(trace.lines, opnum, op.index))
  PROVE  Measured'
<1> DEFINE id == op.index
           d == op.size - Size(trace.lines, opnum, id)
<1>1. /\ ScoreInv /\ Legal(trace) /\ Measured
      /\ opnum \in Nat /\ opnum + 1 \in 0..trace.num_ops /\ op = trace.lines[opnum + 1]
      /\ blocks \in [Ids -> Int] /\ block_sizes \in [Ids -> Nat] /\ brk \in 0..HeapLimit
      /\ brk \in Nat
  BY UtilFacts
<1>2. id \in Ids /\ op.size \in Nat
  BY <1>1, RequestFacts
<1>3. Size(trace.lines, opnum, id) \in Nat
  <2>1. opnum \in 0..trace.num_ops
    BY <1>1, TraceFacts
  <2> QED BY <1>1, <2>1, SizesTyped
<1>4. d \in Int /\ Demand(opnum + 1) = Demand(opnum) + d
  BY <1>1, <1>2, <1>3, DemandStep
<1>5. /\ total_size' = Demand(opnum + 1) /\ HighWater' /\ (total_size = Demand(opnum))'
      /\ max_total_size' \in {max_total_size, Demand(opnum + 1)}
  BY <1>1, <1>4, CountFollows DEF Measured
<1>6. /\ trace' = trace /\ Ids' = Ids
      /\ Placed(opnum, blocks, block_sizes, brk)' = Placed(opnum', blocks', block_sizes', brk')
  BY SameTrace
<1>7. ASSUME NEW x \in Ids, Current(opnum + 1, x)
      PROVE  block_sizes'[x] = Size(trace.lines, opnum + 1, x)
  <2>1. CASE x = id
    <3>1. Size(trace.lines, opnum + 1, x) = op.size
      BY <1>1, <2>1, SizeStep
    <3> QED BY <1>1, <1>2, <2>1, <3>1
  <2>2. CASE x # id
    <3>1. /\ Size(trace.lines, opnum + 1, x) = Size(trace.lines, opnum, x)
          /\ LastOp(trace.lines, opnum + 1, x) = LastOp(trace.lines, opnum, x)
      BY <1>1, <2>2, SizeStep, LastOpStep
    <3>2. Current(opnum, x)
      BY <1>7, <3>1 DEF Current
    <3>3. block_sizes[x] = Size(trace.lines, opnum, x)
      BY <1>1, <3>2 DEF Measured
    <3> QED BY <1>1, <1>2, <2>2, <3>1, <3>3
  <2> QED BY <2>1, <2>2
<1>8. \A x \in Ids' : Current(opnum, x)' => block_sizes'[x] = Size(trace.lines, opnum, x)'
  BY <1>6, <1>7 DEF Current
<1>9. ASSUME honest
      PROVE  /\ Placed(opnum + 1, blocks', block_sizes', brk')
             /\ Apart(opnum + 1, blocks', block_sizes')
             /\ max_total_size' <= brk'
  <2>1. /\ a.ptr \in Int /\ a.brk \in Nat /\ brk <= a.brk
        /\ op.size = 0 => a.ptr = NULL
        /\ op.size > 0 =>
             /\ a.ptr >= 0 /\ a.ptr + op.size <= a.brk
             /\ \A j \in LiveAt(opnum) \ {id} :
                  Payload(a.ptr, op.size) \cap Payload(blocks[j], block_sizes[j]) = {}
    <3>1. a \in UtilAnswers(id, op.size, lo, n)
      OBVIOUS
    <3> HIDE DEF id
    <3>2. /\ a.ptr \in Int /\ a.brk \in Nat /\ brk <= a.brk
          /\ op.size = 0 => a.ptr = NULL
          /\ op.size > 0 =>
               /\ a.ptr >= 0 /\ a.ptr + op.size <= a.brk
               /\ \A j \in Live \ {id} :
                    Payload(a.ptr, op.size) \cap Payload(blocks[j], block_sizes[j]) = {}
      BY ONLY <1>1, <1>2, <1>9, <3>1, HonestAnswer
    <3> QED BY ONLY <3>2, LiveIsLiveAt
  <2>2. /\ Placed(opnum, blocks, block_sizes, brk) /\ Apart(opnum, blocks, block_sizes)
        /\ max_total_size <= brk
    BY <1>1, <1>9 DEF Measured
  <2>3. Placed(opnum + 1, blocks', block_sizes', brk')
    BY <1>1, <2>1, <2>2, PlacedRequest
  <2>4. Apart(opnum + 1, blocks', block_sizes')
    BY <1>1, <2>1, <2>2, ApartRequest
  <2>5. Demand(opnum + 1) \in 0..brk'
    BY <1>1, <2>1, <2>3, <2>4, DemandFits
  <2>6. max_total_size \in Nat
    BY DEF TypeInv
  <2> QED BY <1>1, <1>5, <2>1, <2>2, <2>3, <2>4, <2>5, <2>6
<1>10. Apart(opnum, blocks, block_sizes)' = Apart(opnum + 1, blocks', block_sizes')
  BY SameTrace DEF Apart, LiveAt
<1> QED BY <1>5, <1>6, <1>8, <1>9, <1>10 DEF Measured

\* A block is freed: its size stays, and it is none of the program's any more.
LEMMA FreeMeasured ==
  ASSUME JudgedInv, TypeInv, UtilInv, UtilFree
  PROVE  Measured'
<1> DEFINE id == op.index
           d == IF id < 0 THEN 0 ELSE -block_sizes[id]
<1>1. /\ phase = "util" /\ opnum < trace.num_ops /\ op.type = "f"
      /\ opts' = opts /\ i' = i /\ honest' = honest /\ brk' = brk
      /\ blocks' = blocks /\ block_sizes' = block_sizes
      /\ opnum' = opnum + 1 /\ Count(d)
  BY DEF UtilFree, Requested, fixed, heapVars, blockVars
<1>2. /\ ScoreInv /\ Legal(trace) /\ Measured
      /\ opnum \in Nat /\ opnum + 1 \in 0..trace.num_ops /\ op = trace.lines[opnum + 1]
      /\ blocks \in [Ids -> Int] /\ block_sizes \in [Ids -> Nat] /\ brk \in 0..HeapLimit
      /\ brk \in Nat
  BY <1>1, UtilFacts
<1>3. /\ op.size = 0 /\ (id \in Ids \/ id = -1) /\ (id \in Ids <=> id # -1)
      /\ id # -1 => Current(opnum, id)
      /\ LiveAt(opnum + 1) = LiveAt(opnum) \ {id}
  <2>1. /\ op.type = "f" => op.size = 0
        /\ op.index \in Ids \/ (op.index = -1 /\ op.type = "f")
        /\ op.index \in Ids <=> op.index # -1
        /\ op.type # "a" /\ op.index # -1 => Current(opnum, op.index)
        /\ LiveAt(opnum + 1) = IF op.size > 0 THEN LiveAt(opnum) \cup {op.index}
                               ELSE LiveAt(opnum) \ {op.index}
    BY <1>1, <1>2, RequestFacts
  <2>2. op.size = 0 /\ ~(0 > 0)
    BY <1>1, <2>1
  <2> QED BY <1>1, <2>1, <2>2
<1>4. d \in Int /\ Demand(opnum + 1) = Demand(opnum) + d
  <2>1. /\ Demand(opnum) \in Int
        /\ Demand(opnum + 1) = Demand(opnum) + (IF op.index \in Ids
                                 THEN op.size - Size(trace.lines, opnum, op.index) ELSE 0)
    BY <1>1, <1>2, DemandStep
  <2>2. CASE id \in Ids
    <3>1. id >= 0 /\ id \in Int
      BY <1>2, <2>2, TraceFacts DEF Ids
    <3>2. block_sizes[id] \in Nat /\ block_sizes[id] = Size(trace.lines, opnum, id)
      BY <1>2, <1>3, <2>2 DEF Measured
    <3>3. d = -block_sizes[id]
      BY <3>1
    <3>4. Demand(opnum + 1) = Demand(opnum) + (op.size - block_sizes[id])
      BY <2>1, <2>2, <3>2
    <3> QED BY ONLY <1>3, <2>1, <3>2, <3>3, <3>4
  <2>3. CASE id = -1
    BY <1>3, <2>1, <2>3
  <2> QED BY <1>3, <2>2, <2>3
<1> HIDE DEF d
<1>5. /\ total_size' = Demand(opnum + 1) /\ HighWater' /\ (total_size = Demand(opnum))'
      /\ max_total_size' \in {max_total_size, Demand(opnum + 1)}
  BY <1>1, <1>2, <1>4, CountFollows DEF Measured
<1>6. /\ trace' = trace /\ Ids' = Ids
      /\ Placed(opnum, blocks, block_sizes, brk)' = Placed(opnum + 1, blocks, block_sizes, brk)
  BY <1>1, SameTrace
<1>7. ASSUME NEW x \in Ids, Current(opnum + 1, x)
      PROVE  block_sizes[x] = Size(trace.lines, opnum + 1, x)
  <2>1. CASE x = id
    <3>1. LastOp(trace.lines, opnum + 1, x) = opnum + 1
      BY <1>2, <2>1, LastOpStep
    <3>2. opnum + 1 # 0
      BY <1>2
    <3> QED BY <1>1, <1>2, <1>7, <3>1, <3>2 DEF Current
  <2>2. CASE x # id
    <3>1. /\ Size(trace.lines, opnum + 1, x) = Size(trace.lines, opnum, x)
          /\ LastOp(trace.lines, opnum + 1, x) = LastOp(trace.lines, opnum, x)
      BY ONLY <1>2, <2>2, SizeStep, LastOpStep
    <3>2. Current(opnum, x)
      BY <1>7, <3>1 DEF Current
    <3> QED BY <1>2, <3>1, <3>2 DEF Measured
  <2> QED BY <2>1, <2>2
<1>8. \A x \in Ids' : Current(opnum, x)' => block_sizes'[x] = Size(trace.lines, opnum, x)'
  BY <1>1, <1>6, <1>7 DEF Current
<1>9. ASSUME honest
      PROVE  /\ Placed(opnum + 1, blocks, block_sizes, brk)
             /\ Apart(opnum + 1, blocks, block_sizes)
             /\ max_total_size' <= brk
  <2>1. /\ Placed(opnum, blocks, block_sizes, brk) /\ Apart(opnum, blocks, block_sizes)
        /\ max_total_size <= brk
    BY <1>2, <1>9 DEF Measured
  <2>2. Placed(opnum + 1, blocks, block_sizes, brk)
    BY <1>1, <1>2, <2>1, PlacedFree
  <2>3. Apart(opnum + 1, blocks, block_sizes)
    BY <1>3, <2>1 DEF Apart
  <2>4. Demand(opnum + 1) \in 0..brk
    BY <1>2, <2>2, <2>3, DemandFits
  <2> QED BY <1>2, <1>5, <2>1, <2>2, <2>3, <2>4
<1>10. Apart(opnum, blocks, block_sizes)' = Apart(opnum + 1, blocks, block_sizes)
  BY <1>1, SameTrace DEF Apart, LiveAt
<1> QED BY <1>1, <1>5, <1>6, <1>8, <1>9, <1>10 DEF Measured

LEMMA AllocMeasured ==
  ASSUME JudgedInv, TypeInv, UtilInv, UtilAlloc, phase' = "util"
  PROVE  Measured'
<1>1. /\ phase = "util" /\ opnum < trace.num_ops /\ op.type = "a"
      /\ opts' = opts /\ i' = i /\ honest' = honest
  BY DEF UtilAlloc, Requested, fixed
<1>2. PICK a \in UtilAnswers(op.index, op.size, NULL, 0) :
        /\ brk' = a.brk
        /\ IF a.ptr = NULL
           THEN phase' = "exit" /\ UNCHANGED <<opnum, blocks, block_sizes, utilVars>>
           ELSE /\ blocks' = [blocks EXCEPT ![op.index] = a.ptr]
                /\ block_sizes' = [block_sizes EXCEPT ![op.index] = op.size]
                /\ Count(op.size)
                /\ opnum' = opnum + 1
                /\ UNCHANGED phase
  BY DEF UtilAlloc
<1>3. /\ brk' = a.brk /\ opnum' = opnum + 1 /\ Count(op.size)
      /\ blocks' = [blocks EXCEPT ![op.index] = a.ptr]
      /\ block_sizes' = [block_sizes EXCEPT ![op.index] = op.size]
  BY <1>2
<1>4. ScoreInv /\ Legal(trace) /\ opnum \in Nat /\ op = trace.lines[opnum + 1]
  BY <1>1, UtilFacts
<1>5. op.index \notin LiveAt(opnum) /\ op.index \in Ids /\ op.size \in Nat
  BY <1>1, <1>4, RequestFacts
<1>6. Size(trace.lines, opnum, op.index) = 0
  <2>1. opnum \in 0..trace.num_ops
    BY <1>1, <1>4, TraceFacts
  <2>2. Size(trace.lines, opnum, op.index) \in Nat
    BY <1>4, <2>1, SizesTyped
  <2> QED BY <1>5, <2>2 DEF LiveAt
<1>7. op.size - Size(trace.lines, opnum, op.index) = op.size
  BY <1>5, <1>6
<1> QED BY <1>1, <1>3, <1>7, ServedMeasured

LEMMA ReallocMeasured ==
  ASSUME JudgedInv, TypeInv, UtilInv, UtilRealloc, phase' = "util"
  PROVE  Measured'
<1>1. /\ phase = "util" /\ opnum < trace.num_ops /\ op.type = "r"
      /\ opts' = opts /\ i' = i /\ honest' = honest
  BY DEF UtilRealloc, Requested, fixed
<1>2. PICK a \in UtilAnswers(op.index, op.size, blocks[op.index], block_sizes[op.index]) :
        /\ brk' = a.brk
        /\ IF ~Served(op.size, a.ptr)
           THEN phase' = "exit" /\ UNCHANGED <<opnum, blocks, block_sizes, utilVars>>
           ELSE /\ blocks' = [blocks EXCEPT ![op.index] = a.ptr]
                /\ block_sizes' = [block_sizes EXCEPT ![op.index] = op.size]
                /\ Count(Growth(op.size, block_sizes[op.index]))
                /\ opnum' = opnum + 1
                /\ UNCHANGED phase
  BY DEF UtilRealloc
<1>3. /\ brk' = a.brk /\ opnum' = opnum + 1 /\ Count(Growth(op.size, block_sizes[op.index]))
      /\ blocks' = [blocks EXCEPT ![op.index] = a.ptr]
      /\ block_sizes' = [block_sizes EXCEPT ![op.index] = op.size]
  BY <1>2
<1>4. /\ ScoreInv /\ Legal(trace) /\ opnum \in Nat /\ op = trace.lines[opnum + 1]
      /\ Measured
  BY <1>1, UtilFacts
<1>5. op.index \in Ids /\ Current(opnum, op.index)
  <2>1. /\ op.index \in Ids \/ (op.index = -1 /\ op.type = "f")
        /\ op.index \in Ids <=> op.index # -1
        /\ op.type # "a" /\ op.index # -1 => Current(opnum, op.index)
    BY <1>1, <1>4, RequestFacts
  <2> QED BY <1>1, <2>1
<1>6. block_sizes[op.index] = Size(trace.lines, opnum, op.index)
  BY <1>4, <1>5 DEF Measured
<1>7. Count(op.size - Size(trace.lines, opnum, op.index))
  BY <1>3, <1>6 DEF Growth
<1> QED BY <1>1, <1>3, <1>7, ServedMeasured

LEMMA StartMeasured ==
  ASSUME JudgedInv, StartUtil, phase' = "util"
  PROVE  Measured'
<1>1. /\ phase = "init util" /\ opnum' = 0 /\ total_size' = 0 /\ max_total_size' = 0
      /\ blocks' = NoBlocks /\ block_sizes' = Cleared /\ InitHeap(brk')
      /\ opts' = opts /\ i' = i
  BY DEF StartUtil, Reinit, fixed
<1>2. ScoreInv /\ Legal(trace)
  BY <1>1 DEF JudgedInv, JudgeInv, LoadedPhase, Loaded
<1>3. Demand(0) = 0 /\ Placed(0, NoBlocks, Cleared, brk') /\ LiveAt(0) = {}
  BY <1>2, DemandFirst, PlacedFirst
<1>4. /\ trace' = trace /\ Ids' = Ids
      /\ Placed(opnum, blocks, block_sizes, brk)' = Placed(0, NoBlocks, Cleared, brk')
  BY <1>1, SameTrace
<1>5. (Demand(opnum) = DemandOf(trace.lines, Ids, opnum))'
  BY DemandNow, PTL
<1>6. Demand(opnum)' = 0
  <2>1. Demand(0) = DemandOf(trace.lines, Ids, 0)
    BY DemandIsDemandOf
  <2> QED BY <1>1, <1>3, <1>4, <1>5, <2>1
<1>7. \A n : Demand(n)' = Demand(n)
  BY <1>1, SameDemand
<1>8. HighWater'
  <2>1. 0..0 = {0} /\ 0 <= 0
    OBVIOUS
  <2> QED BY <1>1, <1>3, <1>7, <2>1 DEF HighWater
<1>9. Apart(opnum, blocks, block_sizes)'
  <2>1. LiveAt(opnum)' = {}
    BY <1>1, <1>3, <1>4 DEF LiveAt
  <2> QED BY <2>1 DEF Apart
<1>10. \A x \in Ids' : Current(opnum, x)' => block_sizes'[x] = Size(trace.lines, opnum, x)'
  BY <1>1, <1>3, <1>4 DEF Current, Placed
<1>11. max_total_size' <= brk'
  <2>1. brk' \in 0..HeapLimit
    BY <1>1, InitHeapTyped
  <2>2. HeapLimit \in Nat
    BY RangeListAssumption
  <2>3. 0 <= brk'
    BY ONLY <2>1, <2>2
  <2> QED BY <1>1, <2>3
<1> QED BY <1>1, <1>3, <1>4, <1>6, <1>8, <1>9, <1>10, <1>11 DEF Measured

\* The utilization of a trace is written once, when it has been measured.
FitsNext == honest' => \A j \in 1..Len(opts.files) : Fits(mm_stats'[j])

LEMMA FitsSame ==
  ASSUME TypeInv, UtilInv, honest' = honest,
         \A j \in 1..Len(opts.files) : mm_stats'[j].util = mm_stats[j].util
  PROVE  FitsNext
BY DEF FitsNext, UtilInv, Fits

LEMMA FitsStep ==
  ASSUME JudgedInv, TypeInv, UtilInv, Next
  PROVE  FitsNext
<1> DEFINE Same == \A j \in 1..Len(opts.files) : mm_stats'[j].util = mm_stats[j].util
<1>1. i \in 1..Len(opts.files) /\ ScoreInv
  BY DEF JudgedInv, ScoreInv
<1>2. mm_stats \in [1..Len(opts.files) -> Stats] /\ \A j \in 1..Len(opts.files) : mm_stats[j] \in Stats
  BY DEF TypeInv
<1>3. honest' = honest
  BY DEF Next, Evaluation, ReadTrace, FreeTrace, StartValid, ValidAlloc, ValidRealloc,
         ValidFree, EndValid, StartUtil, UtilAlloc, UtilRealloc, UtilFree, EndUtil,
         SpeedRun, SpeedFails, EndSpeed, LibcRead, LibcValid, LibcSpeed, Report, Hang,
         Ring, RingInTests, RingOutside, fixed
<1>4. mm_stats' = mm_stats => Same
  OBVIOUS
<1>5. \A q : mm_stats' = [mm_stats EXCEPT ![i] = q] /\ q.util = mm_stats[i].util => Same
  BY <1>1, <1>2
<1>6. \A v : Judged(v) => Same
  <2> SUFFICES ASSUME NEW v, Judged(v) PROVE Same
    OBVIOUS
  <2>1. mm_stats' = [mm_stats EXCEPT ![i] = [mm_stats[i] EXCEPT !.valid = v]]
    BY DEF Judged
  <2>2. [mm_stats[i] EXCEPT !.valid = v].util = mm_stats[i].util
    BY <1>1, <1>2 DEF Stats
  <2> QED BY <1>5, <2>1, <2>2
<1>7. CASE ReadTrace
  <2>1. CASE Legal(trace)
    <3> DEFINE q == [mm_stats[i] EXCEPT !.weight = trace.weight, !.ops = trace.num_ops,
                                        !.valid = Tried /\ mm_stats[i].valid]
    <3>1. mm_stats' = [mm_stats EXCEPT ![i] = q]
      BY <1>7, <2>1 DEF ReadTrace
    <3>2. q.util = mm_stats[i].util
      BY <1>1, <1>2 DEF Stats
    <3>3. Same
      <4> HIDE DEF q, Same
      <4> QED BY <1>5, <3>1, <3>2
    <3> QED BY <1>3, <3>3, FitsSame
  <2>2. CASE ~Legal(trace)
    BY <1>3, <1>4, <1>7, <2>2, FitsSame DEF ReadTrace
  <2> QED BY <2>1, <2>2
<1>8. CASE StartValid \/ ValidAlloc \/ ValidRealloc \/ ValidFree \/ EndValid
  <2>1. mm_stats' = mm_stats \/ Judged(FALSE) \/ Judged(TRUE)
    BY <1>8 DEF StartValid, ValidAlloc, ValidRealloc, ValidFree, EndValid, Fail
  <2> QED BY <1>3, <1>4, <1>6, <2>1, FitsSame
<1>9. CASE EndUtil
  <2>1. phase = "util" /\ mm_stats' = [mm_stats EXCEPT ![i].util = <<max_total_size, brk>>]
    BY <1>9 DEF EndUtil
  <2>2. honest => max_total_size <= brk
    BY <2>1 DEF UtilInv, Measured
  <2>3. ASSUME NEW j \in 1..Len(opts.files), honest PROVE Fits(mm_stats'[j])
    <3>1. CASE j = i
      <4>1. mm_stats'[j].util = <<max_total_size, brk>>
        BY <1>1, <1>2, <2>1, <3>1 DEF Stats
      <4>2. mm_stats'[j].util[1] <= mm_stats'[j].util[2]
        BY <2>2, <2>3, <4>1
      <4> QED BY <4>2 DEF Fits
    <3>2. CASE j # i
      <4>1. mm_stats'[j] = mm_stats[j]
        BY <1>1, <1>2, <2>1, <3>2
      <4> QED BY <2>3, <4>1 DEF UtilInv
    <3> QED BY <3>1, <3>2
  <2> QED BY <1>3, <2>3 DEF FitsNext
<1>10. CASE EndSpeed
  <2>1. mm_stats' = [mm_stats EXCEPT ![i] = [mm_stats[i] EXCEPT !.secs = <<result>>]]
    BY <1>10 DEF EndSpeed
  <2>2. [mm_stats[i] EXCEPT !.secs = <<result>>].util = mm_stats[i].util
    BY <1>1, <1>2 DEF Stats
  <2>3. Same
    BY <1>5, <2>1, <2>2
  <2> QED BY <1>3, <2>3, FitsSame
<1>11. CASE \/ FreeTrace \/ StartUtil \/ UtilAlloc \/ UtilRealloc \/ UtilFree \/ SpeedFails
            \/ \E t \in RunTime, n \in Ticks : SpeedRun(t, n)
            \/ LibcRead \/ LibcValid \/ LibcSpeed \/ Report \/ Hang \/ Ring
  <2>1. mm_stats' = mm_stats
    BY <1>11 DEF FreeTrace, StartUtil, UtilAlloc, UtilRealloc, UtilFree, SpeedFails, SpeedRun,
                 LibcRead, LibcValid, LibcSpeed, Report, Hang, Ring, RingInTests, RingOutside
  <2> QED BY <1>3, <1>4, <2>1, FitsSame
<1> QED BY <1>7, <1>8, <1>9, <1>10, <1>11 DEF Next, Evaluation

LEMMA MeasuredStep ==
  ASSUME JudgedInv, TypeInv, UtilInv, Next, phase' = "util"
  PROVE  Measured'
<1>1. StartUtil \/ UtilAlloc \/ UtilRealloc \/ UtilFree
  BY DEF Next, Evaluation, ReadTrace, FreeTrace, StartValid, ValidAlloc, ValidRealloc,
         ValidFree, EndValid, EndUtil, SpeedRun, SpeedFails, EndSpeed, LibcRead, LibcValid,
         LibcSpeed, Report, Hang, Ring, RingInTests, RingOutside, Judged, Fail
<1> QED BY <1>1, StartMeasured, AllocMeasured, ReallocMeasured, FreeMeasured

LEMMA UtilNext ==
  JudgedInv /\ TypeInv /\ UtilInv /\ [Next]_vars => UtilInv'
<1> SUFFICES ASSUME JudgedInv, TypeInv, UtilInv, [Next]_vars PROVE UtilInv'
  OBVIOUS
<1>1. CASE Next
  <2>1. opts' = opts
    BY <1>1 DEF Next, Evaluation, ReadTrace, FreeTrace, StartValid, ValidAlloc, ValidRealloc,
                ValidFree, EndValid, StartUtil, UtilAlloc, UtilRealloc, UtilFree, EndUtil,
                SpeedRun, SpeedFails, EndSpeed, LibcRead, LibcValid, LibcSpeed, Report, Hang,
                Ring, RingInTests, RingOutside, fixed
  <2> QED BY <1>1, <2>1, MeasuredStep, FitsStep DEF UtilInv, FitsNext, Fits
<1>2. CASE UNCHANGED vars
  <2>1. /\ opts' = opts /\ i' = i /\ honest' = honest /\ phase' = phase /\ opnum' = opnum
        /\ brk' = brk /\ blocks' = blocks /\ block_sizes' = block_sizes
        /\ total_size' = total_size /\ max_total_size' = max_total_size /\ mm_stats' = mm_stats
    BY <1>2 DEF vars, driverVars, traceVars, utilVars
  <2>2. /\ trace' = trace /\ Ids' = Ids
        /\ Placed(opnum, blocks, block_sizes, brk)' = Placed(opnum, blocks, block_sizes, brk)
    BY <2>1, SameTrace
  <2>3. Apart(opnum, blocks, block_sizes)' = Apart(opnum, blocks, block_sizes)
    BY <2>1, SameTrace DEF Apart, LiveAt
  <2>4. \A n : Demand(n)' = Demand(n)
    BY <2>1, SameDemand
  <2>5. Demand(opnum)' = Demand(opnum)
    <3>1. (Demand(opnum) = DemandOf(trace.lines, Ids, opnum))'
      BY DemandNow, PTL
    <3> QED BY <2>1, <2>2, <3>1, DemandNow
  <2>6. HighWater => HighWater'
    BY <2>1, <2>4 DEF HighWater
  <2>7. \A x : Current(opnum, x)' = Current(opnum, x)
    BY <2>1, <2>2 DEF Current
  <2>8. Measured => Measured'
    BY <2>1, <2>2, <2>3, <2>5, <2>6, <2>7 DEF Measured
  <2> QED BY <2>1, <2>8 DEF UtilInv, Fits
<1> QED BY <1>1, <1>2

\* The utilization is exact, for every trace of a program and every command
\* line, and at most 1 for an allocator that keeps the promises of malloc
\* (mdriver.c:929-939, 948-1022).
THEOREM UtilizationAlwaysExact == Spec => []UtilizationExact
<1>1. Init => UtilInv
  <2> SUFFICES ASSUME Init PROVE UtilInv
    OBVIOUS
  <2>1. opts.files \in Seq(DOMAIN File)
    BY DriverAssumption DEF Init
  <2>2. \A j \in 1..Len(opts.files) : mm_stats[j].util = <<>>
    BY <2>1 DEF Init, NoStats
  <2>3. phase # "util"
    BY DEF Init
  <2> QED BY <2>2, <2>3 DEF UtilInv, Fits
<1>2. JudgedInv /\ TypeInv /\ UtilInv => UtilizationExact
  <2> SUFFICES ASSUME JudgedInv, TypeInv, UtilInv PROVE UtilizationExact
    OBVIOUS
  <2>1. DOMAIN mm_stats = 1..Len(opts.files)
    BY DEF TypeInv
  <2> QED BY <2>1 DEF UtilInv, Measured, HighWater, Fits, UtilizationExact
<1> QED BY <1>1, <1>2, TypesAlwaysHold, UtilNext, JudgedAlways, PTL DEF Spec
----------------------------------------------------------------------------
(***************************************************************************)
(* What ends the driver                                                    *)
(***************************************************************************)
\* With an honest allocator the driver exits for a trace that it cannot read.
Unstopped ==
  /\ LibcPhase => opts.run_libc
  /\ honest /\ ~opts.run_libc /\ phase = "exit" => ~Legal(trace)

\* eval_mm_util gets what it asks for.
LEMMA HonestServed ==
  ASSUME ScoreInv, JudgeInv, honest, UtilAlloc \/ UtilRealloc
  PROVE  phase' # "exit"
<1>1. phase = "util" /\ opnum < trace.num_ops /\ op.type \in {"a", "r"}
  BY DEF UtilAlloc, UtilRealloc, Requested
<1>2. Loaded /\ opnum \in 0..trace.num_ops /\ brk \in 0..HeapLimit
  BY <1>1 DEF JudgeInv, LoadedPhase
<1>3. opnum \in Nat /\ op = trace.lines[opnum + 1] /\ Legal(trace)
  BY <1>2, TraceFacts DEF op, Loaded
<1>4. op.size \in Nat /\ (op.type = "a" => op.size > 0)
  BY <1>1, <1>3, RequestFacts
<1>5. ASSUME NEW lo, NEW n, NEW a \in UtilAnswers(op.index, op.size, lo, n)
      PROVE  op.size > 0 => a.ptr # NULL
  <2>1. op.size > 0 => a.ptr >= 0 /\ a.ptr \in Int
    BY ONLY <1>2, <1>4, <1>5, honest, HonestAnswer
  <2> QED BY <2>1 DEF NULL
<1>6. CASE UtilAlloc
  <2>1. op.size > 0
    BY <1>4, <1>6 DEF UtilAlloc, Requested
  <2>2. \A a \in UtilAnswers(op.index, op.size, NULL, 0) : a.ptr # NULL
    BY <1>5, <2>1
  <2> QED BY <1>1, <1>6, <2>2 DEF UtilAlloc
<1>7. CASE UtilRealloc
  <2>1. \A a \in UtilAnswers(op.index, op.size, blocks[op.index], block_sizes[op.index]) :
          Served(op.size, a.ptr)
    BY <1>4, <1>5 DEF Served
  <2> QED BY <1>1, <1>7, <2>1 DEF UtilRealloc
<1> QED BY <1>6, <1>7

LEMMA UnstoppedNext == ScoreInv /\ JudgeInv /\ Unstopped /\ [Next]_vars => Unstopped'
<1> SUFFICES ASSUME ScoreInv, JudgeInv, Unstopped, [Next]_vars PROVE Unstopped'
  OBVIOUS
<1>1. CASE Next
  <2>1. opts' = opts /\ honest' = honest
    BY <1>1 DEF Next, Evaluation, ReadTrace, FreeTrace, StartValid, ValidAlloc, ValidRealloc,
                ValidFree, EndValid, StartUtil, UtilAlloc, UtilRealloc, UtilFree, EndUtil,
                SpeedRun, SpeedFails, EndSpeed, LibcRead, LibcValid, LibcSpeed, Report, Hang,
                Ring, RingInTests, RingOutside, fixed
  <2>2. LibcPhase' => LibcPhase
    BY <1>1 DEF LibcPhase, Next, Evaluation, ReadTrace, FreeTrace, StartValid, ValidAlloc,
                ValidRealloc, ValidFree, EndValid, StartUtil, UtilAlloc, UtilRealloc, UtilFree,
                EndUtil, SpeedRun, SpeedFails, EndSpeed, LibcRead, LibcValid, LibcSpeed, Report,
                Hang, Ring, RingInTests, RingOutside, Judged, Fail
  <2>3. ASSUME honest, ~opts.run_libc, phase' = "exit" PROVE ~Legal(trace')
    <3>1. ~LibcPhase
      BY <2>3 DEF Unstopped
    <3>2. \/ ReadTrace \/ StartUtil \/ UtilAlloc \/ UtilRealloc \/ SpeedFails
      BY <1>1, <2>3, <3>1
         DEF LibcPhase, Next, Evaluation, ReadTrace, FreeTrace, StartValid, ValidAlloc,
             ValidRealloc, ValidFree, EndValid, UtilFree, EndUtil, SpeedRun, EndSpeed,
             LibcRead, LibcValid, LibcSpeed, Report, Hang, Ring, RingInTests, RingOutside,
             Judged, Fail
    <3>3. ~StartUtil /\ ~SpeedFails
      BY <2>3 DEF StartUtil, SpeedFails, InitFails
    <3>4. ~UtilAlloc /\ ~UtilRealloc
      BY <2>3, HonestServed
    <3>5. ReadTrace
      BY <3>2, <3>3, <3>4
    <3>6. ~Legal(trace) /\ i' = i
      BY <2>3, <3>5 DEF ReadTrace
    <3> QED BY <2>1, <3>6, SameTrace
  <2> QED BY <2>1, <2>2, <2>3 DEF Unstopped
<1>2. CASE UNCHANGED vars
  <2>1. opts' = opts /\ honest' = honest /\ phase' = phase /\ i' = i
    BY <1>2 DEF vars, driverVars
  <2> QED BY <2>1, SameTrace DEF Unstopped, LibcPhase
<1> QED BY <1>1, <1>2

\* An allocator that keeps the promises of malloc ends the driver in no pass, and
\* is never blamed until the alarm rings, for every trace of a program and every
\* command line (mdriver.c:200-240, 808-921, 948-1066).
THEOREM NeverFalseAlarm == Spec => []NoFalseAlarm
<1>1. Init => Unstopped
  BY DEF Init, Unstopped, LibcPhase
<1>2. JudgedInv /\ Unstopped => NoFalseAlarm
  <2> SUFFICES ASSUME JudgedInv, Unstopped, honest, alarm # "rung"
               PROVE  /\ errors = 0
                      /\ phase \in {"init util", "util", "speed", "results", "end"} =>
                           \A j \in 1..(i - 1) : mm_stats[j].valid
                      /\ phase = "end" =>
                           report.numcorrect = IF opts.onetime THEN 1 ELSE Len(opts.files)
    BY DEF NoFalseAlarm, Unstopped
  <2> DEFINE n == Len(opts.files)
  <2>1. errors = 0
    BY DEF JudgedInv, JudgeInv, Unblamed
  <2>2. n \in Nat /\ (opts.onetime => n = 1) /\ i \in 1..n /\ DOMAIN mm_stats = 1..n
    BY OptionsTyped DEF JudgedInv, ScoreInv
  <2>3. phase = "end" => \A j \in 1..n : mm_stats[j].valid
    <3> SUFFICES ASSUME phase = "end" PROVE \A j \in 1..n : mm_stats[j].valid
      OBVIOUS
    <3>1. report.scored
      BY <2>1 DEF JudgedInv, JudgeInv, Reported
    <3> QED BY <2>2, <3>1 DEF JudgedInv, ScoreInv, ScoreIsEarned
  <2>4. phase \in {"init util", "util", "speed", "results"} => \A j \in 1..n : j < i => mm_stats[j].valid
    <3> SUFFICES ASSUME phase \in {"init util", "util", "speed", "results"}
                 PROVE  \A j \in 1..n : j < i => mm_stats[j].valid
      OBVIOUS
    <3>1. ~LibcPhase /\ ~Over
      BY DEF LibcPhase, Over
    <3> QED BY <2>1, <3>1 DEF JudgedInv, ScoreInv
  <2>5. \A j \in 1..(i - 1) : j \in 1..n /\ j < i
    BY <2>2
  <2>6. phase = "end" => report.numcorrect = IF opts.onetime THEN 1 ELSE n
    <3> SUFFICES ASSUME phase = "end" PROVE report.numcorrect = n
      BY <2>2
    <3>1. report.numcorrect = Cardinality({j \in DOMAIN mm_stats : mm_stats[j].valid})
      BY DEF JudgedInv, JudgeInv, Reported
    <3>2. {j \in DOMAIN mm_stats : mm_stats[j].valid} = 1..n
      BY <2>2, <2>3
    <3>3. Cardinality(1..n) = n
      BY <2>2, FS_Interval
    <3> QED BY <3>1, <3>2, <3>3
  <2> QED BY <2>1, <2>3, <2>4, <2>5, <2>6
<1>3. JudgedInv /\ Unstopped /\ [Next]_vars => Unstopped'
  BY UnstoppedNext DEF JudgedInv
<1> QED BY <1>1, <1>2, <1>3, JudgedAlways, PTL DEF Spec
=============================================================================
