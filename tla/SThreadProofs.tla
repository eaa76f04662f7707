--------------------------- MODULE SThreadProofs ---------------------------
(***************************************************************************)
(* Theorems about the thread library, for any set of threads and jobs: one *)
(* thread runs, the queues are well-formed lists of the threads of their   *)
(* state, the process exits saying the truth, and a thread that gets the   *)
(* processor back finds its context as it left it.                         *)
(***************************************************************************)
EXTENDS SThread, DataLemmas, FiniteSetTheorems

----------------------------------------------------------------------------
(***************************************************************************)
(* Queues: an operation on the links is the operation of its name on the   *)
(* list they represent, and leaves the other queue alone.  A list is its   *)
(* length and a function on 1..length, so that no fact about sequences is  *)
(* needed.                                                                 *)
(***************************************************************************)

\* The threads of a list of length k.
Elements(k, s) == {s[i] : i \in 1..k}

\* The fields n of a link memory after queue_append (queue.c:21-35), queue_take
\* (queue.c:41-61) and queue_remove (queue.c:65-80), one by one.
Appended(m, q, t, n) ==
  /\ \A p \in Queues :
       /\ n.head[p] = IF p = q /\ m.head[q] = NULL THEN t ELSE m.head[p]
       /\ n.tail[p] = IF p = q THEN t ELSE m.tail[p]
  /\ \A u \in Thread :
       /\ n.prev[u] = IF u # t THEN m.prev[u]
                      ELSE IF m.head[q] = NULL THEN NULL ELSE m.tail[q]
       /\ n.next[u] = IF u = t THEN NULL
                      ELSE IF m.head[q] # NULL /\ u = m.tail[q] THEN t
                      ELSE m.next[u]

Taken(m, q, h, n) ==
  /\ \A p \in Queues :
       /\ n.head[p] = IF p # q THEN m.head[p]
                      ELSE IF h = m.tail[q] THEN NULL ELSE m.next[h]
       /\ n.tail[p] = IF p = q /\ h = m.tail[q] THEN NULL ELSE m.tail[p]
  /\ \A u \in Thread :
       /\ n.prev[u] = IF h # m.tail[q] /\ u = m.next[h] THEN NULL ELSE m.prev[u]
       /\ n.next[u] = m.next[u]

Removed(m, q, t, n) ==
  /\ \A p \in Queues :
       /\ n.head[p] = IF p = q /\ m.head[q] = t THEN m.next[t] ELSE m.head[p]
       /\ n.tail[p] = IF p = q /\ m.tail[q] = t THEN m.prev[t] ELSE m.tail[p]
  /\ \A u \in Thread :
       /\ n.prev[u] = IF u = m.next[t] THEN m.prev[t] ELSE m.prev[u]
       /\ n.next[u] = IF u = m.prev[t] THEN m.next[t] ELSE m.next[u]

LEMMA AppendFields ==
  ASSUME NEW m \in LinkMemory, NEW q \in Queues, NEW t \in Thread
  PROVE  /\ QueueAppend(m, q, t) \in LinkMemory
         /\ Appended(m, q, t, QueueAppend(m, q, t))
  BY DEF Appended, QueueAppend, QueueEmpty, LinkMemory, Pointer

LEMMA TakeFields ==
  ASSUME NEW m \in LinkMemory, NEW q \in Queues, NEW h \in Thread,
         m.head[q] = h, h # m.tail[q] => m.next[h] \in Thread
  PROVE  /\ QueueTake(m, q) \in LinkMemory
         /\ Taken(m, q, h, QueueTake(m, q))
  BY NullAssumption DEF Taken, QueueTake, QueueEmpty, LinkMemory, Pointer

LEMMA RemoveFields ==
  ASSUME NEW m \in LinkMemory, NEW q \in Queues, NEW t \in Thread
  PROVE  /\ QueueRemove(m, q, t) \in LinkMemory
         /\ Removed(m, q, t, QueueRemove(m, q, t))
  BY NullAssumption DEF Removed, QueueRemove, LinkMemory, Pointer

----------------------------------------------------------------------------
\* Appending to the links appends to the list they represent.
LEMMA AppendRepresents ==
  ASSUME NEW m, NEW q \in Queues, NEW t \in Thread, NEW n, Appended(m, q, t, n),
         NEW k \in Nat, NEW s \in [1..k -> Thread],
         Represents(m, q, k, s), t \notin Elements(k, s),
         NEW a \in [1..(k + 1) -> Thread],
         \A i \in 1..(k + 1) : a[i] = IF i = k + 1 THEN t ELSE s[i]
  PROVE  Represents(n, q, k + 1, a)
<1>1. \A i \in 1..k : a[i] = s[i] /\ s[i] \in Thread /\ s[i] # t
  BY DEF Elements
<1>2. a[k + 1] = t /\ k + 1 \in 1..(k + 1)
  OBVIOUS
<1>3. m.head[q] = NULL <=> k = 0
  BY <1>1, NullAssumption DEF Represents
<1>4. \A i, j \in 1..(k + 1) : a[i] = a[j] => i = j
  <2> SUFFICES ASSUME NEW i \in 1..(k + 1), NEW j \in 1..(k + 1), a[i] = a[j]
               PROVE  i = j
    OBVIOUS
  <2> QED BY <1>1, <1>2 DEF Represents
<1>5. n.head[q] = a[1] /\ n.tail[q] = a[k + 1]
  BY <1>1, <1>2, <1>3 DEF Represents, Appended
<1>6. ASSUME NEW i \in 1..(k + 1)
      PROVE  /\ n.prev[a[i]] = IF i = 1 THEN NULL ELSE a[i - 1]
             /\ n.next[a[i]] = IF i = k + 1 THEN NULL ELSE a[i + 1]
  <2>1. CASE i = k + 1
    BY <2>1, <1>1, <1>2, <1>3 DEF Represents, Appended
  <2>2. CASE i # k + 1
    <3>1. i \in 1..k /\ k # 0 /\ k \in 1..k
      BY <2>2
    <3>2. s[i] = m.tail[q] <=> i = k
      BY <3>1 DEF Represents
    <3>3. /\ n.prev[s[i]] = m.prev[s[i]]
          /\ n.next[s[i]] = IF i = k THEN t ELSE m.next[s[i]]
      BY <3>1, <3>2, <1>1, <1>3 DEF Appended
    <3>4. /\ m.prev[s[i]] = IF i = 1 THEN NULL ELSE s[i - 1]
          /\ i # k => m.next[s[i]] = s[i + 1]
      BY <3>1 DEF Represents
    <3>5. a[i] = s[i] /\ (i # 1 => a[i - 1] = s[i - 1])
      BY <3>1, <1>1
    <3>6. a[i + 1] = IF i = k THEN t ELSE s[i + 1]
      BY <3>1
    <3> QED
      BY <3>1, <3>3, <3>4, <3>5, <3>6
  <2> QED BY <2>1, <2>2
<1> QED
  BY <1>4, <1>5, <1>6 DEF Represents

\* Appending to one queue leaves the other one as it was.
LEMMA AppendKeepsOther ==
  ASSUME NEW m, NEW q \in Queues, NEW t \in Thread, NEW n, Appended(m, q, t, n),
         NEW k \in Nat, NEW s \in [1..k -> Thread], Represents(m, q, k, s),
         NEW p \in Queues, p # q,
         NEW l \in Nat, NEW u \in [1..l -> Thread], Represents(m, p, l, u),
         t \notin Elements(l, u), Elements(k, s) \cap Elements(l, u) = {}
  PROVE  Represents(n, p, l, u)
<1>1. ASSUME NEW i \in 1..l
      PROVE  /\ u[i] \in Thread
             /\ u[i] # t
             /\ m.head[q] # NULL => u[i] # m.tail[q]
  <2>1. u[i] \in Thread /\ u[i] # t /\ u[i] \notin Elements(k, s)
    BY DEF Elements
  <2>2. ASSUME m.head[q] # NULL PROVE m.tail[q] \in Elements(k, s)
    BY <2>2 DEF Represents, Elements
  <2> QED BY <2>1, <2>2
<1>2. /\ n.head[p] = m.head[p] /\ n.tail[p] = m.tail[p]
      /\ \A i \in 1..l : n.prev[u[i]] = m.prev[u[i]] /\ n.next[u[i]] = m.next[u[i]]
  BY <1>1 DEF Appended
<1> QED
  BY <1>2 DEF Represents

----------------------------------------------------------------------------
\* Taking from the links takes the first element of the list.
LEMMA TakeRepresents ==
  ASSUME NEW m, NEW q \in Queues, NEW n,
         NEW k \in Nat, k # 0, NEW s \in [1..k -> Thread], Represents(m, q, k, s),
         Taken(m, q, s[1], n),
         NEW a \in [1..(k - 1) -> Thread], \A i \in 1..(k - 1) : a[i] = s[i + 1]
  PROVE  Represents(n, q, k - 1, a)
<1>1. /\ s[1] \in Thread /\ m.tail[q] = s[k]
      /\ s[1] = s[k] <=> k = 1
      /\ k # 1 => m.next[s[1]] = s[2] /\ s[2] \in Thread
  BY DEF Represents
<1>2. /\ n.head[q] = IF k = 1 THEN NULL ELSE s[2]
      /\ n.tail[q] = IF k = 1 THEN NULL ELSE s[k]
  BY <1>1 DEF Taken
<1>3. ASSUME NEW u \in Thread
      PROVE  /\ n.prev[u] = IF k # 1 /\ u = s[2] THEN NULL ELSE m.prev[u]
             /\ n.next[u] = m.next[u]
  BY <1>1 DEF Taken
<1>4. \A i, j \in 1..(k - 1) : a[i] = a[j] => i = j
  BY DEF Represents
<1>5. ASSUME NEW i \in 1..(k - 1)
      PROVE  /\ n.prev[a[i]] = IF i = 1 THEN NULL ELSE a[i - 1]
             /\ n.next[a[i]] = IF i = k - 1 THEN NULL ELSE a[i + 1]
  <2>1. /\ i + 1 \in 1..k /\ 2 \in 1..k /\ k # 1 /\ a[i] = s[i + 1]
        /\ s[i + 1] \in Thread
    OBVIOUS
  <2>2. s[i + 1] = s[2] <=> i = 1
    BY <2>1 DEF Represents
  <2>3. /\ m.prev[s[i + 1]] = s[i]
        /\ m.next[s[i + 1]] = IF i + 1 = k THEN NULL ELSE s[i + 2]
    BY <2>1 DEF Represents
  <2> QED
    BY <2>1, <2>2, <2>3, <1>3
<1>6. /\ n.head[q] = IF k - 1 = 0 THEN NULL ELSE a[1]
      /\ n.tail[q] = IF k - 1 = 0 THEN NULL ELSE a[k - 1]
  BY <1>2
<1> QED
  BY <1>4, <1>5, <1>6 DEF Represents

\* Taking from one queue leaves the other one as it was.
LEMMA TakeKeepsOther ==
  ASSUME NEW m, NEW q \in Queues, NEW n,
         NEW k \in Nat, k # 0, NEW s \in [1..k -> Thread], Represents(m, q, k, s),
         Taken(m, q, s[1], n),
         NEW p \in Queues, p # q,
         NEW l \in Nat, NEW u \in [1..l -> Thread], Represents(m, p, l, u),
         Elements(k, s) \cap Elements(l, u) = {}
  PROVE  Represents(n, p, l, u)
<1>1. /\ s[1] \in Thread /\ m.tail[q] = s[k]
      /\ s[1] = s[k] <=> k = 1
      /\ k # 1 => m.next[s[1]] = s[2] /\ s[2] \in Elements(k, s)
  BY DEF Represents, Elements
<1>2. ASSUME NEW i \in 1..l
      PROVE  u[i] \in Thread /\ (k # 1 => u[i] # s[2])
  BY <1>1 DEF Elements
<1>3. /\ n.head[p] = m.head[p] /\ n.tail[p] = m.tail[p]
      /\ \A i \in 1..l : n.prev[u[i]] = m.prev[u[i]] /\ n.next[u[i]] = m.next[u[i]]
  BY <1>1, <1>2 DEF Taken
<1> QED
  BY <1>3 DEF Represents

----------------------------------------------------------------------------
\* Removing the thread at place j from the links removes it from the list.
LEMMA RemoveRepresents ==
  ASSUME NEW m, NEW q \in Queues, NEW n,
         NEW k \in Nat, NEW s \in [1..k -> Thread], Represents(m, q, k, s),
         NEW j \in 1..k, Removed(m, q, s[j], n),
         NEW a \in [1..(k - 1) -> Thread],
         \A i \in 1..(k - 1) : a[i] = IF i < j THEN s[i] ELSE s[i + 1]
  PROVE  Represents(n, q, k - 1, a)
<1>1. /\ m.prev[s[j]] = IF j = 1 THEN NULL ELSE s[j - 1]
      /\ m.next[s[j]] = IF j = k THEN NULL ELSE s[j + 1]
      /\ s[j] = m.head[q] <=> j = 1
      /\ s[j] = m.tail[q] <=> j = k
  BY DEF Represents
<1>2. /\ n.head[q] = IF j # 1 THEN s[1] ELSE IF k = 1 THEN NULL ELSE s[2]
      /\ n.tail[q] = IF j # k THEN s[k] ELSE IF k = 1 THEN NULL ELSE s[k - 1]
  BY <1>1 DEF Removed, Represents
<1>3. ASSUME NEW i \in 1..k
      PROVE  /\ n.prev[s[i]] = IF i # j + 1 THEN m.prev[s[i]]
                               ELSE IF j = 1 THEN NULL ELSE s[j - 1]
             /\ n.next[s[i]] = IF i # j - 1 THEN m.next[s[i]]
                               ELSE IF j = k THEN NULL ELSE s[j + 1]
  <2>1. s[i] \in Thread
    OBVIOUS
  <2>2. s[i] = m.next[s[j]] <=> i = j + 1
    BY <1>1, <2>1, NullAssumption DEF Represents
  <2>3. s[i] = m.prev[s[j]] <=> i = j - 1
    BY <1>1, <2>1, NullAssumption DEF Represents
  <2> QED
    BY <1>1, <2>1, <2>2, <2>3 DEF Removed
<1>4. \A x, y \in 1..(k - 1) : a[x] = a[y] => x = y
  BY DEF Represents
<1>5. ASSUME NEW i \in 1..(k - 1)
      PROVE  /\ n.prev[a[i]] = IF i = 1 THEN NULL ELSE a[i - 1]
             /\ n.next[a[i]] = IF i = k - 1 THEN NULL ELSE a[i + 1]
  <2>1. CASE i < j
    <3>1. a[i] = s[i] /\ i # j + 1 /\ (i # 1 => a[i - 1] = s[i - 1])
      BY <2>1
    <3>2. /\ n.prev[s[i]] = IF i = 1 THEN NULL ELSE s[i - 1]
          /\ n.next[s[i]] = IF i # j - 1 THEN s[i + 1]
                            ELSE IF j = k THEN NULL ELSE s[j + 1]
      BY <1>3, <2>1 DEF Represents
    <3> QED BY <2>1, <3>1, <3>2
  <2>2. CASE ~(i < j)
    <3>1. /\ a[i] = s[i + 1] /\ i + 1 \in 1..k /\ i + 1 # j - 1
          /\ i # k - 1 => a[i + 1] = s[i + 2]
          /\ i # 1 => a[i - 1] = IF i = j THEN s[i - 1] ELSE s[i]
      BY <2>2
    <3>2. PICK x \in 1..k : x = i + 1
      BY <3>1
    <3>3. /\ m.prev[s[x]] = s[x - 1]
          /\ m.next[s[x]] = IF x = k THEN NULL ELSE s[x + 1]
      BY <3>2 DEF Represents
    <3>4. /\ n.prev[s[x]] = IF x # j + 1 THEN s[x - 1]
                            ELSE IF j = 1 THEN NULL ELSE s[j - 1]
          /\ n.next[s[x]] = IF x = k THEN NULL ELSE s[x + 1]
      BY <1>3, <3>1, <3>2, <3>3
    <3>5. /\ i = 1 => i = j
          /\ i # 1 /\ i = j => a[i - 1] = s[j - 1]
          /\ x - 1 = i /\ x + 1 = i + 2
      BY <2>2, <3>1, <3>2
    <3> QED BY <3>1, <3>2, <3>4, <3>5
  <2> QED BY <2>1, <2>2
<1>6. /\ n.head[q] = IF k - 1 = 0 THEN NULL ELSE a[1]
      /\ n.tail[q] = IF k - 1 = 0 THEN NULL ELSE a[k - 1]
  BY <1>2
<1> QED
  BY <1>4, <1>5, <1>6 DEF Represents

\* Removing from one queue leaves the other one as it was.
LEMMA RemoveKeepsOther ==
  ASSUME NEW m, NEW q \in Queues, NEW n,
         NEW k \in Nat, NEW s \in [1..k -> Thread], Represents(m, q, k, s),
         NEW j \in 1..k, Removed(m, q, s[j], n),
         NEW p \in Queues, p # q,
         NEW l \in Nat, NEW u \in [1..l -> Thread], Represents(m, p, l, u),
         Elements(k, s) \cap Elements(l, u) = {}
  PROVE  Represents(n, p, l, u)
<1>1. /\ m.prev[s[j]] \in Elements(k, s) \cup {NULL}
      /\ m.next[s[j]] \in Elements(k, s) \cup {NULL}
  BY DEF Represents, Elements
<1>2. ASSUME NEW i \in 1..l
      PROVE  u[i] \in Thread /\ u[i] # m.prev[s[j]] /\ u[i] # m.next[s[j]]
  <2>1. u[i] \in Thread /\ u[i] \notin Elements(k, s)
    BY DEF Elements
  <2> QED BY <1>1, <2>1, NullAssumption
<1>3. /\ n.head[p] = m.head[p] /\ n.tail[p] = m.tail[p]
      /\ \A i \in 1..l : n.prev[u[i]] = m.prev[u[i]] /\ n.next[u[i]] = m.next[u[i]]
  BY <1>2 DEF Removed
<1> QED
  BY <1>3 DEF Represents

----------------------------------------------------------------------------
(***************************************************************************)
(* The same facts about the sets of threads on the queues.                 *)
(***************************************************************************)

\* Queue q is a well-formed list of the threads of S.
HasList(m, q, S) ==
  \E k \in Nat : \E s \in [1..k -> Thread] :
     Represents(m, q, k, s) /\ Elements(k, s) = S

\* Every queue q is a well-formed list of the threads of S[q], and no thread is
\* on two queues.
HasLists(m, S) ==
  /\ m \in LinkMemory
  /\ S \in [Queues -> SUBSET Thread]
  /\ \A q \in Queues : HasList(m, q, S[q])
  /\ \A p, q \in Queues : p # q => S[p] \cap S[q] = {}

LEMMA EmptyHasLists == HasLists(EmptyLinks, [q \in Queues |-> {}])
<1>1. EmptyLinks \in LinkMemory
  BY DEF EmptyLinks, LinkMemory, Pointer
<1>2. ASSUME NEW q \in Queues PROVE HasList(EmptyLinks, q, {})
  <2>1. PICK s \in [1..0 -> Thread] : TRUE
    <3>1. [i \in 1..0 |-> NULL] \in [1..0 -> Thread]
      OBVIOUS
    <3> QED BY <3>1
  <2>2. 1..0 = {} /\ Elements(0, s) = {}
    BY DEF Elements
  <2>3. Represents(EmptyLinks, q, 0, s)
    BY <2>2 DEF Represents, EmptyLinks
  <2> QED BY <2>2, <2>3 DEF HasList
<1> QED
  BY <1>1, <1>2 DEF HasLists

\* A queue is empty exactly when no thread is on it; otherwise its head is one
\* of its threads.
LEMMA HeadOfQueue ==
  ASSUME NEW m, NEW S, HasLists(m, S), NEW q \in Queues
  PROVE  /\ m.head[q] = NULL <=> S[q] = {}
         /\ m.head[q] # NULL => m.head[q] \in S[q] /\ m.head[q] \in Thread
<1>0. PICK k \in Nat : \E s \in [1..k -> Thread] :
         Represents(m, q, k, s) /\ Elements(k, s) = S[q]
  BY DEF HasLists, HasList
<1>1. PICK s \in [1..k -> Thread] : Represents(m, q, k, s) /\ Elements(k, s) = S[q]
  BY <1>0
<1>2. CASE k = 0
  BY <1>1, <1>2 DEF Represents, Elements
<1>3. CASE k # 0
  <2>1. 1 \in 1..k /\ s[1] \in Thread /\ s[1] \in Elements(k, s)
    BY <1>3 DEF Elements
  <2> QED
    BY <1>1, <1>3, <2>1, NullAssumption DEF Represents
<1> QED BY <1>2, <1>3

LEMMA AppendSets ==
  ASSUME NEW m, NEW S, HasLists(m, S), NEW q \in Queues,
         NEW t \in Thread, \A p \in Queues : t \notin S[p]
  PROVE  HasLists(QueueAppend(m, q, t), [S EXCEPT ![q] = @ \cup {t}])
<1> DEFINE n == QueueAppend(m, q, t)
           T == [S EXCEPT ![q] = @ \cup {t}]
<1>1. n \in LinkMemory /\ Appended(m, q, t, n)
  BY AppendFields DEF HasLists
<1> HIDE DEF n
<1>2a. PICK k \in Nat : \E s \in [1..k -> Thread] :
         Represents(m, q, k, s) /\ Elements(k, s) = S[q]
  BY DEF HasLists, HasList
<1>2. PICK s \in [1..k -> Thread] : Represents(m, q, k, s) /\ Elements(k, s) = S[q]
  BY <1>2a
<1>3. HasList(n, q, T[q])
  <2> DEFINE a == [i \in 1..(k + 1) |-> IF i = k + 1 THEN t ELSE s[i]]
  <2>1. a \in [1..(k + 1) -> Thread]
    OBVIOUS
  <2>2. \A i \in 1..(k + 1) : a[i] = IF i = k + 1 THEN t ELSE s[i]
    OBVIOUS
  <2>3. t \notin Elements(k, s)
    BY <1>2
  <2>4. Elements(k + 1, a) = T[q]
    <3>1. Elements(k + 1, a) = Elements(k, s) \cup {t}
      BY <2>2 DEF Elements
    <3> QED BY <3>1, <1>2 DEF HasLists
  <2> HIDE DEF a
  <2>5. Represents(n, q, k + 1, a)
    BY <1>1, <1>2, <2>1, <2>2, <2>3, AppendRepresents
  <2> QED
    BY <2>1, <2>4, <2>5 DEF HasList
<1>4. ASSUME NEW p \in Queues, p # q
      PROVE  HasList(n, p, T[p])
  <2>0. PICK l \in Nat : \E u \in [1..l -> Thread] :
           Represents(m, p, l, u) /\ Elements(l, u) = S[p]
    BY DEF HasLists, HasList
  <2>1. PICK u \in [1..l -> Thread] : Represents(m, p, l, u) /\ Elements(l, u) = S[p]
    BY <2>0
  <2>2. t \notin Elements(l, u) /\ Elements(k, s) \cap Elements(l, u) = {}
    BY <1>2, <1>4, <2>1 DEF HasLists
  <2>3. Represents(n, p, l, u)
    BY <1>1, <1>2, <1>4, <2>1, <2>2, AppendKeepsOther
  <2>4. T[p] = S[p]
    BY <1>4 DEF HasLists
  <2> QED
    BY <2>1, <2>3, <2>4 DEF HasList
<1>5. /\ T \in [Queues -> SUBSET Thread]
      /\ \A x, y \in Queues : x # y => T[x] \cap T[y] = {}
  BY DEF HasLists
<1> QED
  BY <1>1, <1>3, <1>4, <1>5 DEF HasLists, n

LEMMA TakeSets ==
  ASSUME NEW m, NEW S, HasLists(m, S), NEW q \in Queues, m.head[q] # NULL
  PROVE  HasLists(QueueTake(m, q), [S EXCEPT ![q] = @ \ {m.head[q]}])
<1> DEFINE n == QueueTake(m, q)
           h == m.head[q]
           T == [S EXCEPT ![q] = @ \ {h}]
<1>0. PICK k \in Nat : \E s \in [1..k -> Thread] :
         Represents(m, q, k, s) /\ Elements(k, s) = S[q]
  BY DEF HasLists, HasList
<1>1. PICK s \in [1..k -> Thread] : Represents(m, q, k, s) /\ Elements(k, s) = S[q]
  BY <1>0
<1>2. k # 0 /\ h = s[1] /\ h \in Thread
  BY <1>1 DEF Represents
<1>3. n \in LinkMemory /\ Taken(m, q, h, n)
  <2>1. h # m.tail[q] => m.next[h] \in Thread
    BY <1>1, <1>2 DEF Represents
  <2> QED BY <1>2, <2>1, TakeFields DEF HasLists
<1> HIDE DEF n, h
<1>4. HasList(n, q, T[q])
  <2> DEFINE a == [i \in 1..(k - 1) |-> s[i + 1]]
  <2>1. a \in [1..(k - 1) -> Thread] /\ k - 1 \in Nat
    BY <1>2
  <2>2. \A i \in 1..(k - 1) : a[i] = s[i + 1]
    OBVIOUS
  <2>3. Elements(k - 1, a) = T[q]
    <3>1. Elements(k - 1, a) \subseteq Elements(k, s) \ {h}
      BY <1>1, <1>2, <2>2 DEF Elements, Represents
    <3>2. ASSUME NEW x \in Elements(k, s) \ {h} PROVE x \in Elements(k - 1, a)
      <4>1. PICK i \in 1..k : x = s[i] /\ i # 1
        BY <1>2 DEF Elements
      <4>2. i - 1 \in 1..(k - 1) /\ a[i - 1] = x
        BY <4>1, <2>2
      <4> QED BY <4>2 DEF Elements
    <3> QED BY <3>1, <3>2, <1>1 DEF HasLists
  <2> HIDE DEF a
  <2>4. Represents(n, q, k - 1, a)
    BY <1>1, <1>2, <1>3, <2>1, <2>2, TakeRepresents
  <2> QED
    BY <2>1, <2>3, <2>4 DEF HasList
<1>5. ASSUME NEW p \in Queues, p # q
      PROVE  HasList(n, p, T[p])
  <2>0. PICK l \in Nat : \E u \in [1..l -> Thread] :
           Represents(m, p, l, u) /\ Elements(l, u) = S[p]
    BY DEF HasLists, HasList
  <2>1. PICK u \in [1..l -> Thread] : Represents(m, p, l, u) /\ Elements(l, u) = S[p]
    BY <2>0
  <2>2. Elements(k, s) \cap Elements(l, u) = {}
    BY <1>1, <1>5, <2>1 DEF HasLists
  <2>3. Represents(n, p, l, u)
    BY <1>1, <1>2, <1>3, <1>5, <2>1, <2>2, TakeKeepsOther
  <2>4. T[p] = S[p]
    BY <1>5 DEF HasLists
  <2> QED
    BY <2>1, <2>3, <2>4 DEF HasList
<1>6. /\ T \in [Queues -> SUBSET Thread]
      /\ \A x, y \in Queues : x # y => T[x] \cap T[y] = {}
  BY DEF HasLists
<1> QED
  BY <1>3, <1>4, <1>5, <1>6 DEF HasLists, n, h

LEMMA RemoveSets ==
  ASSUME NEW m, NEW S, HasLists(m, S), NEW q \in Queues, NEW t \in S[q]
  PROVE  HasLists(QueueRemove(m, q, t), [S EXCEPT ![q] = @ \ {t}])
<1> DEFINE n == QueueRemove(m, q, t)
           T == [S EXCEPT ![q] = @ \ {t}]
<1>0. PICK k \in Nat : \E s \in [1..k -> Thread] :
         Represents(m, q, k, s) /\ Elements(k, s) = S[q]
  BY DEF HasLists, HasList
<1>1. PICK s \in [1..k -> Thread] : Represents(m, q, k, s) /\ Elements(k, s) = S[q]
  BY <1>0
<1>2. PICK j \in 1..k : t = s[j]
  BY <1>1 DEF Elements
<1>3. n \in LinkMemory /\ Removed(m, q, t, n)
  BY RemoveFields DEF HasLists
<1> HIDE DEF n
<1>4. HasList(n, q, T[q])
  <2> DEFINE a == [i \in 1..(k - 1) |-> IF i < j THEN s[i] ELSE s[i + 1]]
  <2>1. a \in [1..(k - 1) -> Thread] /\ k - 1 \in Nat
    OBVIOUS
  <2>2. \A i \in 1..(k - 1) : a[i] = IF i < j THEN s[i] ELSE s[i + 1]
    OBVIOUS
  <2>3. Elements(k - 1, a) = T[q]
    <3>1. Elements(k - 1, a) \subseteq Elements(k, s) \ {t}
      BY <1>1, <1>2, <2>2 DEF Elements, Represents
    <3>2. ASSUME NEW x \in Elements(k, s) \ {t} PROVE x \in Elements(k - 1, a)
      <4>1. PICK i \in 1..k : x = s[i] /\ i # j
        BY <1>2 DEF Elements
      <4>2. CASE i < j
        <5>1. i \in 1..(k - 1) /\ a[i] = x
          BY <4>1, <4>2, <2>2
        <5> QED BY <5>1 DEF Elements
      <4>3. CASE ~(i < j)
        <5>1. i - 1 \in 1..(k - 1) /\ a[i - 1] = x
          BY <4>1, <4>3, <2>2
        <5> QED BY <5>1 DEF Elements
      <4> QED BY <4>2, <4>3
    <3> QED BY <3>1, <3>2, <1>1 DEF HasLists
  <2> HIDE DEF a
  <2>4. Represents(n, q, k - 1, a)
    BY <1>1, <1>2, <1>3, <2>1, <2>2, RemoveRepresents
  <2> QED
    BY <2>1, <2>3, <2>4 DEF HasList
<1>5. ASSUME NEW p \in Queues, p # q
      PROVE  HasList(n, p, T[p])
  <2>0. PICK l \in Nat : \E u \in [1..l -> Thread] :
           Represents(m, p, l, u) /\ Elements(l, u) = S[p]
    BY DEF HasLists, HasList
  <2>1. PICK u \in [1..l -> Thread] : Represents(m, p, l, u) /\ Elements(l, u) = S[p]
    BY <2>0
  <2>2. Elements(k, s) \cap Elements(l, u) = {}
    BY <1>1, <1>5, <2>1 DEF HasLists
  <2>3. Represents(n, p, l, u)
    BY <1>1, <1>2, <1>3, <1>5, <2>1, <2>2, RemoveKeepsOther
  <2>4. T[p] = S[p]
    BY <1>5 DEF HasLists
  <2> QED
    BY <2>1, <2>3, <2>4 DEF HasList
<1>6. /\ T \in [Queues -> SUBSET Thread]
      /\ \A x, y \in Queues : x # y => T[x] \cap T[y] = {}
  BY DEF HasLists
<1> QED
  BY <1>3, <1>4, <1>5, <1>6 DEF HasLists, n

\* A well-formed list of a set is as long as the set is large.
LEMMA ListIsOrder ==
  ASSUME NEW m, NEW q, NEW S, HasList(m, q, S)
  PROVE  \E s \in [1..Cardinality(S) -> S] : Lists(m, q, S, s)
<1>0. PICK k \in Nat : \E s \in [1..k -> Thread] :
         Represents(m, q, k, s) /\ Elements(k, s) = S
  BY DEF HasList
<1>1. PICK s \in [1..k -> Thread] : Represents(m, q, k, s) /\ Elements(k, s) = S
  BY <1>0
<1>2. s \in [1..k -> S] /\ \A t \in S : \E i \in 1..k : s[i] = t
  BY <1>1 DEF Elements
<1>3. s \in Bijection(1..k, S)
  BY <1>1, <1>2 DEF Bijection, Injection, Surjection, IsInjective, Represents
<1>4. IsFiniteSet(1..k) /\ Cardinality(1..k) = k
  BY FS_Interval
<1>5. Cardinality(S) = k
  BY <1>3, <1>4, FS_Bijection DEF ExistsBijection
<1> QED
  BY <1>1, <1>2, <1>5 DEF Lists

----------------------------------------------------------------------------
(***************************************************************************)
(* The library                                                             *)
(***************************************************************************)

\* The threads each queue should hold when the states are st.
ByState(st) ==
  [q \in Queues |-> {t \in Thread : st[t] = IF q = "ready" THEN "Ready" ELSE "Blocked"}]

SchedulerTypeOK ==
  /\ phase \in Phase
  /\ current \in Pointer
  /\ state \in [Thread -> ThreadState]

\* The inductive invariant.
IInv ==
  /\ SchedulerTypeOK
  /\ HasLists(mem, ByState(state))
  /\ OneRunning
  /\ ExitIsHonest

LEMMA ByStateQueues ==
  ASSUME NEW st \in [Thread -> ThreadState]
  PROVE  /\ "ready" \in Queues /\ "blocked" \in Queues
         /\ ByState(st)["ready"] = {t \in Thread : st[t] = "Ready"}
         /\ ByState(st)["blocked"] = {t \in Thread : st[t] = "Blocked"}
  BY DEF ByState, Queues

\* Changing the state of a thread that is on no queue and appending it to the
\* queue of its new state keeps the queues in step with the states.
LEMMA EnqueueStep ==
  ASSUME NEW st \in [Thread -> ThreadState], NEW m, HasLists(m, ByState(st)),
         NEW t \in Thread, st[t] \in {"Free", "Running"},
         NEW q \in Queues, NEW s, s = IF q = "ready" THEN "Ready" ELSE "Blocked"
  PROVE  HasLists(QueueAppend(m, q, t), ByState([st EXCEPT ![t] = s]))
<1> DEFINE S == ByState(st)
<1>1. \A p \in Queues : t \notin S[p]
  BY DEF ByState
<1>2. ByState([st EXCEPT ![t] = s]) = [S EXCEPT ![q] = @ \cup {t}]
  BY DEF ByState, Queues
<1> HIDE DEF S
<1>3. HasLists(QueueAppend(m, q, t), [S EXCEPT ![q] = @ \cup {t}])
  BY <1>1, AppendSets DEF S
<1> QED BY <1>2, <1>3

\* Freeing a thread that is on no queue leaves the queues right.
LEMMA FreeStep ==
  ASSUME NEW st \in [Thread -> ThreadState], NEW m, HasLists(m, ByState(st)),
         NEW t \in Thread, st[t] = "Running"
  PROVE  HasLists(m, ByState([st EXCEPT ![t] = "Free"]))
<1>1. ByState([st EXCEPT ![t] = "Free"]) = ByState(st)
  BY DEF ByState
<1> QED BY <1>1

\* Running the head of the ready queue (sthread.c:161-178): it is a ready
\* thread, the only one that runs afterwards, and the queues stay right.
LEMMA DispatchStep ==
  ASSUME NEW st \in [Thread -> ThreadState], NEW m, HasLists(m, ByState(st)),
         NEW stk, NEW ctx, ~QueueEmpty(m, "ready"),
         \A t \in Thread : st[t] # "Running",
         Dispatch(st, m, stk, ctx)
  PROVE  /\ current' \in Thread
         /\ state' \in [Thread -> ThreadState]
         /\ HasLists(mem', ByState(state'))
         /\ \A t \in Thread : state'[t] = "Running" <=> t = current'
<1> DEFINE n == m.head["ready"]
<1>1. /\ n # NULL
      /\ current' = n /\ state' = [st EXCEPT ![n] = "Running"]
      /\ mem' = QueueTake(m, "ready")
  BY DEF Dispatch, QueueEmpty
<1>2. n \in Thread /\ st[n] = "Ready"
  BY <1>1, HeadOfQueue, ByStateQueues
<1>3. HasLists(QueueTake(m, "ready"),
               [ByState(st) EXCEPT !["ready"] = @ \ {m.head["ready"]}])
  BY <1>1, TakeSets, ByStateQueues
<1> HIDE DEF n
<1>4. ByState([st EXCEPT ![n] = "Running"]) =
        [ByState(st) EXCEPT !["ready"] = @ \ {n}]
  BY <1>2 DEF ByState, Queues
<1>5. [st EXCEPT ![n] = "Running"] \in [Thread -> ThreadState]
  BY <1>2 DEF ThreadState
<1>6. HasLists(mem', ByState(state'))
  BY <1>1, <1>3, <1>4 DEF n
<1>7. \A t \in Thread : state'[t] = "Running" <=> t = current'
  BY <1>1, <1>2
<1> QED BY <1>1, <1>2, <1>5, <1>6, <1>7

\* Selecting the next thread re-establishes the invariant once the caller is no
\* longer running.
LEMMA SelectStep ==
  ASSUME NEW st \in [Thread -> ThreadState], NEW m, HasLists(m, ByState(st)),
         NEW stk, NEW ctx, phase = "threads",
         \A t \in Thread : st[t] # "Running",
         Select(st, m, stk, ctx)
  PROVE  IInv'
<1>1. CASE QueueEmpty(m, "ready")
  <2>1. /\ phase' = IF QueueEmpty(m, "blocked") THEN "exit: all executed"
                                                ELSE "exit: deadlock"
        /\ current' = NULL /\ state' = st /\ mem' = m
    BY <1>1 DEF Select, NothingReady
  <2>2. \A t \in Thread : st[t] # "Ready"
    BY <1>1, HeadOfQueue, ByStateQueues DEF QueueEmpty
  <2>3. QueueEmpty(m, "blocked") <=> \A t \in Thread : st[t] # "Blocked"
    BY HeadOfQueue, ByStateQueues DEF QueueEmpty
  <2>4. \A t \in Thread : st[t] \in {"Free", "Blocked"}
    BY <2>2 DEF ThreadState
  <2>5. ExitIsHonest'
    BY <2>1, <2>3, <2>4 DEF ExitIsHonest, Live
  <2>6. OneRunning'
    BY <2>1, NullAssumption DEF OneRunning
  <2>7. SchedulerTypeOK'
    BY <2>1 DEF SchedulerTypeOK, Phase, Pointer
  <2> QED BY <2>1, <2>5, <2>6, <2>7 DEF IInv
<1>2. CASE ~QueueEmpty(m, "ready")
  <2>1. Dispatch(st, m, stk, ctx) /\ phase' = "threads"
    BY <1>2 DEF Select
  <2>2. /\ current' \in Thread
        /\ state' \in [Thread -> ThreadState]
        /\ HasLists(mem', ByState(state'))
        /\ \A t \in Thread : state'[t] = "Running" <=> t = current'
    BY <1>2, <2>1, DispatchStep
  <2> QED
    BY <2>1, <2>2 DEF IInv, SchedulerTypeOK, OneRunning, ExitIsHonest, Phase, Pointer
<1> QED BY <1>1, <1>2

----------------------------------------------------------------------------
LEMMA InitIInv == Init => IInv
<1> SUFFICES ASSUME Init PROVE IInv
  OBVIOUS
<1>1. SchedulerTypeOK /\ OneRunning /\ ExitIsHonest
  BY NullAssumption
     DEF Init, SchedulerTypeOK, OneRunning, ExitIsHonest, Phase, Pointer, ThreadState
<1>2. ByState(state) = [q \in Queues |-> {}]
  BY DEF Init, ByState
<1> QED
  BY <1>1, <1>2, EmptyHasLists DEF Init, IInv

LEMMA SwitchToStep ==
  ASSUME IInv, NEW q \in Queues, NEW s,
         s = IF q = "ready" THEN "Ready" ELSE "Blocked", SwitchTo(q, s)
  PROVE  IInv'
<1> DEFINE st == [state EXCEPT ![current] = s]
<1>1. /\ phase = "threads" /\ current \in Thread /\ state[current] = "Running"
      /\ state \in [Thread -> ThreadState] /\ HasLists(mem, ByState(state))
  BY DEF SwitchTo, IInv, OneRunning, SchedulerTypeOK
<1>2. st \in [Thread -> ThreadState] /\ \A t \in Thread : st[t] # "Running"
  BY <1>1 DEF IInv, OneRunning, ThreadState
<1>3. HasLists(QueueAppend(mem, q, current), ByState(st))
  BY <1>1, EnqueueStep
<1> HIDE DEF st
<1>4. PICK stk, ctx : Select(st, QueueAppend(mem, q, current), stk, ctx)
  BY DEF SwitchTo, st
<1> QED
  BY <1>1, <1>2, <1>3, <1>4, SelectStep

LEMMA FinishStep ==
  ASSUME IInv, Finish
  PROVE  IInv'
<1> DEFINE st == [state EXCEPT ![current] = "Free"]
<1>1. /\ phase = "threads" /\ current \in Thread /\ state[current] = "Running"
      /\ state \in [Thread -> ThreadState] /\ HasLists(mem, ByState(state))
  BY DEF Finish, IInv, OneRunning, SchedulerTypeOK
<1>2. st \in [Thread -> ThreadState] /\ \A t \in Thread : st[t] # "Running"
  BY <1>1 DEF IInv, OneRunning, ThreadState
<1>3. HasLists(mem, ByState(st))
  BY <1>1, FreeStep
<1> HIDE DEF st
<1>4. PICK stk, ctx : Select(st, mem, stk, ctx)
  BY DEF Finish, st
<1> QED
  BY <1>1, <1>2, <1>3, <1>4, SelectStep

LEMMA CreateStep ==
  ASSUME IInv, NEW t \in Thread, NEW j \in Job, Create(t, j)
  PROVE  IInv'
<1>1. /\ phase \in {"main", "threads"} /\ state[t] = "Free"
      /\ state' = [state EXCEPT ![t] = "Ready"]
      /\ mem' = QueueAppend(mem, "ready", t)
      /\ phase' = phase /\ current' = current
      /\ state \in [Thread -> ThreadState] /\ HasLists(mem, ByState(state))
  BY DEF Create, Live, IInv, SchedulerTypeOK
<1>2. HasLists(mem', ByState(state'))
  BY <1>1, EnqueueStep, ByStateQueues
<1> QED
  BY <1>1, <1>2 DEF IInv, SchedulerTypeOK, OneRunning, ExitIsHonest, ThreadState

LEMMA StartStep ==
  ASSUME IInv, Start
  PROVE  IInv'
<1>1. /\ phase = "main" /\ \A t \in Thread : state[t] # "Running"
      /\ state \in [Thread -> ThreadState] /\ HasLists(mem, ByState(state))
  BY NullAssumption DEF Start, IInv, SchedulerTypeOK, OneRunning
<1>2. CASE QueueEmpty(mem, "ready")
  <2>1. phase' = "fault: null current" /\ UNCHANGED <<current, state, mem>>
    BY <1>2 DEF Start
  <2> QED
    BY <2>1 DEF IInv, SchedulerTypeOK, OneRunning, ExitIsHonest, Phase
<1>3. CASE ~QueueEmpty(mem, "ready")
  <2>1. phase' = "threads" /\ Dispatch(state, mem, stack, context)
    BY <1>3 DEF Start
  <2>2. /\ current' \in Thread
        /\ state' \in [Thread -> ThreadState]
        /\ HasLists(mem', ByState(state'))
        /\ \A t \in Thread : state'[t] = "Running" <=> t = current'
    BY <1>1, <1>3, <2>1, DispatchStep
  <2> QED
    BY <2>1, <2>2 DEF IInv, SchedulerTypeOK, OneRunning, ExitIsHonest, Phase, Pointer
<1> QED
  BY <1>2, <1>3

LEMMA UnblockStep ==
  ASSUME IInv, NEW t \in Thread, Unblock(t)
  PROVE  IInv'
<1>1. /\ phase = "threads" /\ current' = current
      /\ state \in [Thread -> ThreadState] /\ HasLists(mem, ByState(state))
  BY DEF Unblock, IInv, SchedulerTypeOK
<1>2. CASE state[t] # "Blocked"
  <2>1. phase' = "abort: not blocked" /\ UNCHANGED <<current, state, mem>>
    BY <1>2 DEF Unblock
  <2> QED
    BY <2>1 DEF IInv, SchedulerTypeOK, OneRunning, ExitIsHonest, Phase
<1>3. CASE state[t] = "Blocked"
  <2> DEFINE off == [state EXCEPT ![t] = "Free"]
             m == QueueRemove(mem, "blocked", t)
  <2>1. /\ state' = [state EXCEPT ![t] = "Ready"] /\ phase' = phase
        /\ mem' = QueueAppend(m, "ready", t)
    BY <1>3 DEF Unblock
  <2>2. HasLists(m, [ByState(state) EXCEPT !["blocked"] = @ \ {t}])
    BY <1>1, <1>3, RemoveSets, ByStateQueues
  <2>3. ByState(off) = [ByState(state) EXCEPT !["blocked"] = @ \ {t}]
    BY <1>1, <1>3 DEF ByState, Queues
  <2>4. off \in [Thread -> ThreadState] /\ off[t] = "Free"
        /\ [off EXCEPT ![t] = "Ready"] = [state EXCEPT ![t] = "Ready"]
    BY <1>1 DEF ThreadState
  <2> HIDE DEF off, m
  <2>5. HasLists(QueueAppend(m, "ready", t), ByState([off EXCEPT ![t] = "Ready"]))
    BY <2>2, <2>3, <2>4, EnqueueStep, ByStateQueues
  <2>6. HasLists(mem', ByState(state'))
    BY <2>1, <2>4, <2>5
  <2>7. /\ t # current
        /\ \A u \in Thread : state'[u] = "Running" <=> u = current
    BY <1>1, <1>3, <2>1 DEF IInv, OneRunning
  <2> QED
    BY <1>1, <2>1, <2>6, <2>7
       DEF IInv, SchedulerTypeOK, OneRunning, ExitIsHonest, ThreadState
<1> QED BY <1>2, <1>3

LEMMA NextIInv == IInv /\ [Next]_vars => IInv'
<1> SUFFICES ASSUME IInv, [Next]_vars PROVE IInv'
  OBVIOUS
<1>1. ASSUME NEW t \in Thread, NEW j \in Job, Create(t, j) PROVE IInv'
  BY <1>1, CreateStep
<1>2. CASE CreateFails
  BY <1>2 DEF CreateFails, IInv, SchedulerTypeOK, OneRunning, ExitIsHonest, Phase
<1>3. CASE Start
  BY <1>3, StartStep
<1>4. CASE Compute
  BY <1>4 DEF Compute, IInv, SchedulerTypeOK, OneRunning, ExitIsHonest, Live
<1>5. CASE Yield
  BY <1>5, SwitchToStep, ByStateQueues DEF Yield, IInv, SchedulerTypeOK
<1>6. CASE Block
  BY <1>6, SwitchToStep, ByStateQueues DEF Block, IInv, SchedulerTypeOK
<1>7. CASE Finish
  BY <1>7, FinishStep
<1>8. ASSUME NEW t \in Thread, Unblock(t) PROVE IInv'
  BY <1>8, UnblockStep
<1>9. CASE Ended \/ UNCHANGED vars
  BY <1>9 DEF Ended, vars, IInv, SchedulerTypeOK, OneRunning, ExitIsHonest, Live
<1> QED
  BY <1>1, <1>2, <1>3, <1>4, <1>5, <1>6, <1>7, <1>8, <1>9 DEF Next

THEOREM Invariance == SafetySpec => []IInv
  BY InitIInv, NextIInv, PTL DEF SafetySpec

\* Exactly one thread runs, and current points to it (sthread.c:66-74).
THEOREM OneRunningAlways == SafetySpec => []OneRunning
<1>1. IInv => OneRunning
  BY DEF IInv
<1> QED BY <1>1, Invariance, PTL

\* Both queues are well-formed doubly linked lists of exactly the threads in the
\* state they are for, whatever sequence of library calls came before.
THEOREM QueuesAlwaysWellFormed == SafetySpec => []QueuesWellFormed
<1>1. ASSUME IInv PROVE QueuesWellFormed
  <2>1. /\ HasList(mem, "ready", ByState(state)["ready"])
        /\ HasList(mem, "blocked", ByState(state)["blocked"])
    BY <1>1 DEF IInv, HasLists, Queues
  <2>2. /\ ByState(state)["ready"] = InState("Ready")
        /\ ByState(state)["blocked"] = InState("Blocked")
    BY <1>1, ByStateQueues DEF IInv, SchedulerTypeOK, InState
  <2> QED
    BY <2>1, <2>2, ListIsOrder DEF QueuesWellFormed, WellFormedQueue, Orders
<1> QED BY <1>1, Invariance, PTL

\* The process reports success only when no thread is left, and a deadlock only
\* when every thread left is blocked (sthread.c:163-172).
THEOREM ExitIsHonestAlways == SafetySpec => []ExitIsHonest
<1>1. IInv => ExitIsHonest
  BY DEF IInv
<1> QED BY <1>1, Invariance, PTL

----------------------------------------------------------------------------
(***************************************************************************)
(* The contexts.  A thread that waits has on its stack exactly what its    *)
(* code had when it gave up the processor, pushed by __sthread_switch or,  *)
(* before its first run, laid out by __sthread_initialize_context.         *)
(***************************************************************************)

\* The pops of __sthread_restore are the pushes of __sthread_switch backwards.
LEMMA PopsReversePushes ==
  /\ Len(PushOrder) = 16 /\ DOMAIN PushOrder = 1..16
  /\ Len(PopOrder) = 16 /\ DOMAIN PopOrder = 1..16
  /\ \A k \in 1..16 : PopOrder[k] = PushOrder[17 - k]
<1>1. /\ Len(PushOrder) = 16 /\ DOMAIN PushOrder = 1..16
      /\ Len(PopOrder) = 16 /\ DOMAIN PopOrder = 1..16
  BY DEF PushOrder, PopOrder
<1>2. ASSUME NEW k \in 1..16 PROVE PopOrder[k] = PushOrder[17 - k]
  <2>1. k \in {1, 2, 3, 4, 5, 6, 7, 8, 9, 10, 11, 12, 13, 14, 15, 16}
    OBVIOUS
  <2> QED BY <2>1 DEF PushOrder, PopOrder
<1> QED BY <1>1, <1>2

\* A context that __sthread_switch saved comes back as it was.
LEMMA SaveRestore ==
  ASSUME NEW S, NEW stk \in Seq(S), NEW n \in Nat, Len(stk) = n,
         NEW rs \in [Register -> S], NEW ret \in S,
         NEW saved, saved = SaveContext(stk, rs, ret)
  PROVE  /\ saved \in Seq(S) /\ Len(saved) = n + 17
         /\ RestoreRegs(saved) = rs
         /\ RestoreIp(saved) = ret
         /\ RestoreStack(saved) = stk
<1>1. /\ saved \in Seq(S) /\ Len(saved) = n + 17
      /\ \A i \in 1..n : saved[i] = stk[i]
      /\ saved[n + 1] = ret
      /\ \A k \in (n + 2)..(n + 17) : saved[k] = rs[PushOrder[k - (n + 1)]]
  <2> DEFINE base == stk \o <<ret>>
             pushed == [i \in DOMAIN PushOrder |-> rs[PushOrder[i]]]
  <2>1. /\ base \in Seq(S) /\ Len(base) = n + 1
        /\ \A i \in 1..n : base[i] = stk[i]
        /\ base[n + 1] = ret
    BY LenProperties, ConcatProperties
  <2>2. \A i \in 1..16 : PushOrder[i] \in Register
    BY PopsReversePushes DEF Register
  <2>3. pushed = [i \in 1..16 |-> rs[PushOrder[i]]]
    BY PopsReversePushes
  <2>4. pushed \in Seq(S) /\ Len(pushed) = 16
    BY <2>2, <2>3
  <2>5. saved = base \o pushed
    BY DEF SaveContext
  <2> HIDE DEF base, pushed
  <2>6. /\ base \o pushed \in Seq(S)
        /\ Len(base \o pushed) = Len(base) + Len(pushed)
        /\ \A i \in 1..(Len(base) + Len(pushed)) :
              (base \o pushed)[i] = IF i <= Len(base) THEN base[i] ELSE pushed[i - Len(base)]
    BY <2>1, <2>4, ConcatProperties
  <2>7. n \in Nat
    OBVIOUS
  <2>8. Len(base \o pushed) = n + 17
    BY <2>1, <2>4, <2>6, <2>7
  <2>9. ASSUME NEW i \in 1..n PROVE (base \o pushed)[i] = stk[i]
    BY <2>1, <2>4, <2>6, <2>7
  <2>10. (base \o pushed)[n + 1] = ret
    BY <2>1, <2>4, <2>6, <2>7
  <2>11. ASSUME NEW k \in (n + 2)..(n + 17)
         PROVE  (base \o pushed)[k] = rs[PushOrder[k - (n + 1)]]
    <3>1. PICK i \in 1..16 : i = k - (n + 1)
      BY <2>7
    <3>2. Len(base) = n + 1 /\ Len(pushed) = 16
      BY <2>1, <2>4
    <3>3. k \in 1..(n + 1 + 16) /\ ~(k <= n + 1)
      BY <2>7
    <3>4. (base \o pushed)[k] = pushed[k - (n + 1)]
      BY <2>6, <3>2, <3>3
    <3> QED BY <2>3, <3>1, <3>4
  <2> QED
    BY <2>5, <2>6, <2>8, <2>9, <2>10, <2>11
<1>2. ASSUME NEW r \in Register
      PROVE  saved[Len(saved) + 1 - (CHOOSE i \in DOMAIN PopOrder : PopOrder[i] = r)] = rs[r]
  <2>1. PICK j \in 1..16 : r = PushOrder[j]
    BY PopsReversePushes DEF Register
  <2>2. PopOrder[17 - j] = r /\ 17 - j \in 1..16 
    BY <2>1, PopsReversePushes
  <2>3. PICK k \in 1..16 : PopOrder[k] = r /\ k = (CHOOSE i \in DOMAIN PopOrder : PopOrder[i] = r)
    BY <2>2, PopsReversePushes
  <2>4. PushOrder[17 - k] = r
    BY <2>3, PopsReversePushes
  <2>5. PICK p \in (n + 2)..(n + 17) : p = Len(saved) + 1 - k
    BY <1>1
  <2>6. saved[p] = rs[PushOrder[17 - k]]
    <3>1. p - (n + 1) = 17 - k
      BY <1>1, <2>5
    <3> QED BY <1>1, <3>1
  <2> QED
    BY <2>3, <2>4, <2>5, <2>6
<1>3. RestoreRegs(saved) = rs
  <2> DEFINE Popped(r) ==
        saved[Len(saved) + 1 - (CHOOSE i \in DOMAIN PopOrder : PopOrder[i] = r)]
  <2>a. RestoreRegs(saved) = [r \in Register |-> Popped(r)]
    BY ONLY Zenon DEF RestoreRegs
  <2>b. \A r \in Register : Popped(r) = rs[r]
    BY <1>2
  <2> HIDE DEF Popped
  <2>1. RestoreRegs(saved) = [r \in Register |-> rs[r]]
    BY ONLY <2>a, <2>b
  <2>2. rs = [r \in Register |-> rs[r]]
    OBVIOUS
  <2> QED BY ONLY <2>1, <2>2
<1>4. RestoreIp(saved) = ret
  BY <1>1, PopsReversePushes DEF RestoreIp
<1>5. RestoreStack(saved) = SubSeq(saved, 1, n)
  BY <1>1, PopsReversePushes DEF RestoreStack
<1>6. SubSeq(saved, 1, n) = stk
  <2>1. n \in 0..Len(saved)
    BY <1>1
  <2>2. SubSeq(saved, 1, n) \in Seq(S)
    BY <1>1, <2>1
  <2>4. Len(SubSeq(saved, 1, n)) = n
    BY <1>1, <2>1
  <2>3. ASSUME NEW i \in 1..n PROVE SubSeq(saved, 1, n)[i] = stk[i]
    BY <1>1, <2>1
  <2> QED BY <2>2, <2>3, <2>4, SeqEqual
<1> QED BY <1>1, <1>3, <1>4, <1>5, <1>6

\* What the code of thread t, whose job is b, has in the registers, as its next
\* instruction and on its stack, whenever it holds the processor.
StartRegs(j) ==
  [r \in Register |-> CASE r = "rdi" -> ArgumentWord(j)
                        [] r = "rflags" -> InitialFlags
                        [] OTHER -> Zero]

CodeRegs(t, b) == IF b.step = 0 THEN StartRegs(b.id) ELSE UserRegs(t, b.step)

CodeIp(t, b) == IF b.step = 0 THEN FunctionWord(b.id) ELSE UserIp(t, b.step)

CodeStack(t, b) ==
  IF b.step = 0 THEN <<FinishAddress>> ELSE <<FinishAddress, UserLocal(t, b.step)>>

\* The stack of t while it waits: what its code had, saved.
SavedStack(t, b) == SaveContext(CodeStack(t, b), CodeRegs(t, b), CodeIp(t, b))

\* Every thread that waits has a job and a saved context, and its context field
\* points to it.
Waiting(st, b, stk, ctx) ==
  \A t \in Thread : st[t] \in {"Ready", "Blocked"} =>
     /\ b[t].id \in Job
     /\ stk[t] = SavedStack(t, b[t])
     /\ ctx[t] = Len(stk[t])

MemoryTypeOK ==
  /\ stack \in [Thread -> Seq(Word)]
  /\ context \in [Thread -> Nat]
  /\ regs \in [Register -> Word]
  /\ ip \in Word \cup {<<"main">>}
  /\ job \in [Thread -> [id : Job \cup {NULL}, step : 0..2]]

\* The inductive invariant of the contexts.
ContextInv ==
  /\ MemoryTypeOK
  /\ Waiting(state, job, stack, context)
  /\ phase = "threads" =>
       /\ job[current].id \in Job
       /\ regs = CodeRegs(current, job[current])
       /\ ip = CodeIp(current, job[current])
       /\ stack[current] = CodeStack(current, job[current])

LEMMA RegisterNames ==
  Register = {"rax", "rbx", "rcx", "rdx", "rsi", "rdi", "rbp", "r8", "r9", "r10",
              "r11", "r12", "r13", "r14", "r15", "rflags"}
<1>1. ASSUME NEW k \in 1..16
      PROVE  PushOrder[k] \in {"rax", "rbx", "rcx", "rdx", "rsi", "rdi", "rbp", "r8",
               "r9", "r10", "r11", "r12", "r13", "r14", "r15", "rflags"}
  <2>1. k \in {1, 2, 3, 4, 5, 6, 7, 8, 9, 10, 11, 12, 13, 14, 15, 16}
    OBVIOUS
  <2> QED BY <2>1 DEF PushOrder
<1>2. /\ PushOrder[1] = "rax" /\ PushOrder[2] = "rbx" /\ PushOrder[3] = "rcx"
      /\ PushOrder[4] = "rdx" /\ PushOrder[5] = "rsi" /\ PushOrder[6] = "rdi"
      /\ PushOrder[7] = "rbp" /\ PushOrder[8] = "r8" /\ PushOrder[9] = "r9"
      /\ PushOrder[10] = "r10" /\ PushOrder[11] = "r11" /\ PushOrder[12] = "r12"
      /\ PushOrder[13] = "r13" /\ PushOrder[14] = "r14" /\ PushOrder[15] = "r15"
      /\ PushOrder[16] = "rflags"
  BY DEF PushOrder
<1> QED BY <1>1, <1>2, PopsReversePushes DEF Register

\* What the code of a thread has are words.
LEMMA CodeTypes ==
  ASSUME NEW t \in Thread, NEW b \in [id : Job \cup {NULL}, step : 0..2],
         b.step = 0 => b.id \in Job
  PROVE  /\ CodeRegs(t, b) \in [Register -> Word]
         /\ CodeIp(t, b) \in Word
         /\ CodeStack(t, b) \in Seq(Word)
         /\ Len(CodeStack(t, b)) = IF b.step = 0 THEN 1 ELSE 2
         /\ CodeStack(t, b)[1] = FinishAddress
<1>1. b.step \in {0, 1, 2} /\ (b.step # 0 => b.step \in 1..2)
  OBVIOUS
<1>2. CASE b.step = 0
  <2>1. /\ ArgumentWord(b.id) \in Word /\ FunctionWord(b.id) \in Word
        /\ InitialFlags \in Word /\ Zero \in Word /\ FinishAddress \in Word
    BY <1>2 DEF Word
  <2>2. StartRegs(b.id) \in [Register -> Word]
    BY <2>1 DEF StartRegs
  <2> QED BY <1>2, <2>1, <2>2 DEF CodeRegs, CodeIp, CodeStack
<1>3. CASE b.step # 0
  <2>1. /\ UserIp(t, b.step) \in Word /\ UserLocal(t, b.step) \in Word
        /\ FinishAddress \in Word
    BY <1>1, <1>3 DEF Word
  <2>2. \A r \in Register : <<"value", t, b.step, r>> \in Word
    BY <1>1, <1>3 DEF Word
  <2>3. UserRegs(t, b.step) \in [Register -> Word]
    BY <2>2 DEF UserRegs
  <2> QED BY <1>3, <2>1, <2>3 DEF CodeRegs, CodeIp, CodeStack
<1> QED BY <1>2, <1>3

LEMMA PairConcat ==
  ASSUME NEW a, NEW b
  PROVE  <<a>> \o <<b>> = <<a, b>>
<1>1. /\ <<a>> \in Seq({a, b}) /\ <<b>> \in Seq({a, b}) /\ <<a, b>> \in Seq({a, b})
      /\ Len(<<a>>) = 1 /\ Len(<<b>>) = 1 /\ Len(<<a, b>>) = 2
  OBVIOUS
<1>2. /\ <<a>> \o <<b>> \in Seq({a, b}) /\ Len(<<a>> \o <<b>>) = 2
      /\ (<<a>> \o <<b>>)[1] = a /\ (<<a>> \o <<b>>)[2] = b
  BY <1>1, ConcatProperties
<1>3. \A i \in 1..2 : (<<a>> \o <<b>>)[i] = <<a, b>>[i]
  BY <1>2
<1> QED BY <1>1, <1>2, <1>3, SeqEqual

\* The frame of __sthread_initialize_context is what __sthread_switch would have
\* saved for a thread about to start.
LEMMA InitialIsSaved ==
  ASSUME NEW t, NEW j
  PROVE  InitialContext(FunctionWord(j), ArgumentWord(j))
           = SavedStack(t, [id |-> j, step |-> 0])
<1>1. \A i \in 1..16 : PushOrder[i] \in Register
  BY PopsReversePushes DEF Register
<1>2. [i \in DOMAIN PushOrder |-> StartRegs(j)[PushOrder[i]]]
        = [i \in DOMAIN PushOrder |-> CASE PushOrder[i] = "rdi" -> ArgumentWord(j)
                                        [] PushOrder[i] = "rflags" -> InitialFlags
                                        [] OTHER -> Zero]
  BY <1>1, PopsReversePushes DEF StartRegs
<1>3. <<FinishAddress>> \o <<FunctionWord(j)>> = <<FinishAddress, FunctionWord(j)>>
  BY PairConcat
<1> QED
  BY <1>2, <1>3
     DEF InitialContext, SavedStack, SaveContext, CodeStack, CodeRegs, CodeIp

\* A waiting thread that is given the processor continues where it was.
LEMMA SavedComesBack ==
  ASSUME NEW t \in Thread, NEW b \in [id : Job \cup {NULL}, step : 0..2], b.id \in Job
  PROVE  /\ SavedStack(t, b) \in Seq(Word)
         /\ Len(SavedStack(t, b)) \in Nat
         /\ SubSeq(SavedStack(t, b), 1, Len(SavedStack(t, b))) = SavedStack(t, b)
         /\ RestoreRegs(SavedStack(t, b)) = CodeRegs(t, b)
         /\ RestoreIp(SavedStack(t, b)) = CodeIp(t, b)
         /\ RestoreStack(SavedStack(t, b)) = CodeStack(t, b)
<1> DEFINE n == IF b.step = 0 THEN 1 ELSE 2
<1>1. n \in Nat
  OBVIOUS
<1> HIDE DEF n
<1>2. /\ CodeRegs(t, b) \in [Register -> Word] /\ CodeIp(t, b) \in Word
      /\ CodeStack(t, b) \in Seq(Word) /\ Len(CodeStack(t, b)) = n
  BY CodeTypes DEF n
<1>3. /\ SavedStack(t, b) \in Seq(Word) /\ Len(SavedStack(t, b)) = n + 17
      /\ RestoreRegs(SavedStack(t, b)) = CodeRegs(t, b)
      /\ RestoreIp(SavedStack(t, b)) = CodeIp(t, b)
      /\ RestoreStack(SavedStack(t, b)) = CodeStack(t, b)
  BY <1>1, <1>2, SaveRestore DEF SavedStack
<1>4. ASSUME NEW s \in Seq(Word) PROVE SubSeq(s, 1, Len(s)) = s
  OBVIOUS
<1> QED BY <1>1, <1>3, <1>4

JobMemory == [Thread -> [id : Job \cup {NULL}, step : 0..2]]

\* The thread that is dispatched continues where it was.
LEMMA DispatchContext ==
  ASSUME NEW st \in [Thread -> ThreadState], NEW m,
         NEW stk \in [Thread -> Seq(Word)], NEW ctx \in [Thread -> Nat],
         NEW b \in JobMemory, Waiting(st, b, stk, ctx),
         m.head["ready"] \in Thread, st[m.head["ready"]] = "Ready",
         Dispatch(st, m, stk, ctx), job' = b
  PROVE  /\ MemoryTypeOK'
         /\ Waiting(state', job', stack', context')
         /\ job'[current'].id \in Job
         /\ regs' = CodeRegs(current', job'[current'])
         /\ ip' = CodeIp(current', job'[current'])
         /\ stack'[current'] = CodeStack(current', job'[current'])
<1> DEFINE n == m.head["ready"]
<1>1. /\ n \in Thread /\ b[n] \in [id : Job \cup {NULL}, step : 0..2]
      /\ b[n].id \in Job /\ stk[n] = SavedStack(n, b[n]) /\ ctx[n] = Len(stk[n])
  BY DEF Waiting, JobMemory
<1>2. /\ SubSeq(stk[n], 1, ctx[n]) = SavedStack(n, b[n])
      /\ RestoreRegs(SavedStack(n, b[n])) = CodeRegs(n, b[n])
      /\ RestoreIp(SavedStack(n, b[n])) = CodeIp(n, b[n])
      /\ RestoreStack(SavedStack(n, b[n])) = CodeStack(n, b[n])
  BY <1>1, SavedComesBack
<1>3. /\ current' = n /\ state' = [st EXCEPT ![n] = "Running"]
      /\ regs' = CodeRegs(n, b[n]) /\ ip' = CodeIp(n, b[n])
      /\ stack' = [stk EXCEPT ![n] = CodeStack(n, b[n])] /\ context' = ctx
  BY <1>2 DEF Dispatch
<1>4. /\ CodeRegs(n, b[n]) \in [Register -> Word] /\ CodeIp(n, b[n]) \in Word
      /\ CodeStack(n, b[n]) \in Seq(Word)
  BY <1>1, CodeTypes
<1> HIDE DEF n
<1>5. MemoryTypeOK'
  BY <1>1, <1>3, <1>4 DEF MemoryTypeOK, JobMemory
<1>6. Waiting(state', job', stack', context')
  BY <1>1, <1>3 DEF Waiting
<1> QED BY <1>1, <1>3, <1>5, <1>6

\* Selecting the next thread re-establishes the invariant of the contexts.
LEMMA SelectContext ==
  ASSUME NEW st \in [Thread -> ThreadState], NEW m, HasLists(m, ByState(st)),
         NEW stk \in [Thread -> Seq(Word)], NEW ctx \in [Thread -> Nat],
         NEW b \in JobMemory, Waiting(st, b, stk, ctx), job' = b,
         MemoryTypeOK, phase = "threads", Select(st, m, stk, ctx)
  PROVE  ContextInv'
<1>1. CASE QueueEmpty(m, "ready")
  <2>1. /\ phase' # "threads" /\ state' = st /\ stack' = stk /\ context' = ctx
        /\ regs' = regs /\ ip' = ip
    BY <1>1 DEF Select, NothingReady
  <2> QED BY <2>1 DEF ContextInv, MemoryTypeOK, JobMemory
<1>2. CASE ~QueueEmpty(m, "ready")
  <2>1. Dispatch(st, m, stk, ctx)
    BY <1>2 DEF Select
  <2>2. m.head["ready"] \in Thread /\ st[m.head["ready"]] = "Ready"
    BY SMTT(30), <1>2, HeadOfQueue, ByStateQueues DEF QueueEmpty
  <2> QED BY <2>1, <2>2, DispatchContext DEF ContextInv
<1> QED BY <1>1, <1>2

LEMMA InitContextInv == Init => ContextInv
<1> SUFFICES ASSUME Init PROVE ContextInv
  OBVIOUS
<1>1. NoJob \in [id : Job \cup {NULL}, step : 0..2] /\ Zero \in Word
  BY DEF NoJob, Word
<1> QED BY <1>1 DEF Init, ContextInv, MemoryTypeOK, Waiting

LEMMA SwitchToContext ==
  ASSUME IInv, ContextInv, NEW q \in Queues, NEW s,
         s = IF q = "ready" THEN "Ready" ELSE "Blocked", SwitchTo(q, s)
  PROVE  ContextInv'
<1> DEFINE st == [state EXCEPT ![current] = s]
           saved == SaveContext(stack[current], regs, ip)
           stk == [stack EXCEPT ![current] = saved]
           ctx == [context EXCEPT ![current] = Len(saved)]
<1>1. /\ phase = "threads" /\ current \in Thread /\ state[current] = "Running"
      /\ state \in [Thread -> ThreadState] /\ HasLists(mem, ByState(state))
  BY DEF SwitchTo, IInv, OneRunning, SchedulerTypeOK
<1>2. st \in [Thread -> ThreadState]
  BY <1>1 DEF ThreadState
<1>3. HasLists(QueueAppend(mem, q, current), ByState(st))
  BY <1>1, EnqueueStep
<1>4. saved = SavedStack(current, job[current])
  BY <1>1 DEF ContextInv, SavedStack
<1>5. /\ job[current].id \in Job /\ job \in JobMemory /\ job' = job
      /\ job[current] \in [id : Job \cup {NULL}, step : 0..2]
  BY <1>1 DEF ContextInv, MemoryTypeOK, JobMemory, SwitchTo
<1>6. saved \in Seq(Word) /\ Len(saved) \in Nat
  BY <1>1, <1>4, <1>5, SavedComesBack
<1>7. Select(st, QueueAppend(mem, q, current), stk, ctx)
  BY DEF SwitchTo
<1> HIDE DEF saved
<1>8. stk \in [Thread -> Seq(Word)] /\ ctx \in [Thread -> Nat]
  BY <1>6 DEF ContextInv, MemoryTypeOK
<1>9. Waiting(st, job, stk, ctx)
  <2> SUFFICES ASSUME NEW t \in Thread, st[t] \in {"Ready", "Blocked"}
               PROVE  /\ job[t].id \in Job /\ stk[t] = SavedStack(t, job[t])
                      /\ ctx[t] = Len(stk[t])
    BY DEF Waiting
  <2>1. CASE t = current
    BY <1>4, <1>5, <2>1 DEF ContextInv, MemoryTypeOK
  <2>2. CASE t # current
    BY <1>1, <2>2 DEF ContextInv, MemoryTypeOK, Waiting
  <2> QED BY <2>1, <2>2
<1> HIDE DEF st, stk, ctx
<1> QED
  BY <1>1, <1>2, <1>3, <1>5, <1>7, <1>8, <1>9, SelectContext DEF ContextInv

LEMMA FinishContext ==
  ASSUME IInv, ContextInv, Finish
  PROVE  ContextInv'
<1> DEFINE st == [state EXCEPT ![current] = "Free"]
           stk == [stack EXCEPT ![current] = <<>>]
           ctx == [context EXCEPT ![current] = 0]
           b == [job EXCEPT ![current] = NoJob]
<1>1. /\ phase = "threads" /\ current \in Thread /\ state[current] = "Running"
      /\ state \in [Thread -> ThreadState] /\ HasLists(mem, ByState(state))
  BY DEF Finish, IInv, OneRunning, SchedulerTypeOK
<1>2. st \in [Thread -> ThreadState]
  BY <1>1 DEF ThreadState
<1>3. HasLists(mem, ByState(st))
  BY <1>1, FreeStep
<1>4. /\ stk \in [Thread -> Seq(Word)] /\ ctx \in [Thread -> Nat]
      /\ b \in JobMemory
  <2>1. <<>> \in Seq(Word) /\ NoJob \in [id : Job \cup {NULL}, step : 0..2]
    BY DEF NoJob
  <2> QED BY <2>1 DEF ContextInv, MemoryTypeOK, JobMemory
<1>5. Select(st, mem, stk, ctx) /\ job' = b
  BY DEF Finish
<1>6. Waiting(st, b, stk, ctx)
  BY <1>1 DEF ContextInv, MemoryTypeOK, Waiting
<1> HIDE DEF st, stk, ctx, b
<1> QED
  BY <1>1, <1>2, <1>3, <1>4, <1>5, <1>6, SelectContext DEF ContextInv

LEMMA CreateContext ==
  ASSUME IInv, ContextInv, NEW t \in Thread, NEW j \in Job, Create(t, j)
  PROVE  ContextInv'
<1> DEFINE b == [id |-> j, step |-> 0]
           stk == SavedStack(t, b)
<1>1. b \in [id : Job \cup {NULL}, step : 0..2] /\ b.id \in Job
  OBVIOUS
<1> HIDE DEF b
<1>2. stk \in Seq(Word) /\ Len(stk) \in Nat
  BY <1>1, SavedComesBack
<1>3. /\ state[t] = "Free" /\ state' = [state EXCEPT ![t] = "Ready"]
      /\ stack' = [stack EXCEPT ![t] = stk]
      /\ context' = [context EXCEPT ![t] = Len(stk)]
      /\ job' = [job EXCEPT ![t] = b]
      /\ UNCHANGED <<phase, current, regs, ip>>
  BY InitialIsSaved DEF Create, Live, b
<1> HIDE DEF stk
<1>4. MemoryTypeOK'
  BY <1>1, <1>2, <1>3 DEF ContextInv, MemoryTypeOK
<1>5. Waiting(state', job', stack', context')
  <2> SUFFICES ASSUME NEW u \in Thread, state'[u] \in {"Ready", "Blocked"}
               PROVE  /\ job'[u].id \in Job /\ stack'[u] = SavedStack(u, job'[u])
                      /\ context'[u] = Len(stack'[u])
    BY DEF Waiting
  <2>1. CASE u = t
    BY <1>1, <1>3, <2>1 DEF ContextInv, MemoryTypeOK, stk
  <2>2. CASE u # t
    BY <1>3, <2>2 DEF ContextInv, MemoryTypeOK, Waiting, IInv, SchedulerTypeOK
  <2> QED BY <2>1, <2>2
<1>6. phase = "threads" => current # t
  BY <1>3 DEF IInv, OneRunning
<1>7. phase' = "threads" =>
        /\ job'[current'].id \in Job
        /\ regs' = CodeRegs(current', job'[current'])
        /\ ip' = CodeIp(current', job'[current'])
        /\ stack'[current'] = CodeStack(current', job'[current'])
  BY <1>3, <1>6 DEF ContextInv, MemoryTypeOK, IInv, OneRunning
<1> QED BY <1>4, <1>5, <1>7 DEF ContextInv

LEMMA ComputeContext ==
  ASSUME IInv, ContextInv, Compute
  PROVE  ContextInv'
<1> DEFINE n == IF job[current].step = 1 THEN 2 ELSE 1
           b == [job[current] EXCEPT !.step = n]
<1>1. /\ phase = "threads" /\ current \in Thread /\ state[current] = "Running"
      /\ job[current].id \in Job /\ n \in 1..2
      /\ job[current] \in [id : Job \cup {NULL}, step : 0..2]
      /\ stack[current] = CodeStack(current, job[current])
  BY DEF Compute, IInv, OneRunning, ContextInv, MemoryTypeOK
<1>2. stack[current][1] = FinishAddress
  BY <1>1, CodeTypes
<1>3. /\ b \in [id : Job \cup {NULL}, step : 0..2] /\ b.step = n
      /\ b.id = job[current].id
  BY <1>1
<1>4. /\ UserRegs(current, n) = CodeRegs(current, b)
      /\ UserIp(current, n) = CodeIp(current, b)
      /\ <<stack[current][1], UserLocal(current, n)>> = CodeStack(current, b)
  BY <1>1, <1>2, <1>3 DEF CodeRegs, CodeIp, CodeStack
<1>5. /\ regs' = CodeRegs(current, b) /\ ip' = CodeIp(current, b)
      /\ stack' = [stack EXCEPT ![current] = CodeStack(current, b)]
      /\ job' = [job EXCEPT ![current] = b]
      /\ UNCHANGED <<phase, current, state, mem, context>>
  BY <1>4 DEF Compute
<1> HIDE DEF n, b
<1>6. /\ CodeRegs(current, b) \in [Register -> Word] /\ CodeIp(current, b) \in Word
      /\ CodeStack(current, b) \in Seq(Word)
  BY <1>1, <1>3, CodeTypes
<1>7. MemoryTypeOK'
  BY <1>3, <1>5, <1>6 DEF ContextInv, MemoryTypeOK
<1>8. Waiting(state', job', stack', context')
  BY <1>1, <1>5 DEF ContextInv, MemoryTypeOK, Waiting
<1> QED
  BY <1>1, <1>3, <1>5, <1>7, <1>8 DEF ContextInv, MemoryTypeOK

LEMMA StartContext ==
  ASSUME IInv, ContextInv, Start
  PROVE  ContextInv'
<1>1. CASE QueueEmpty(mem, "ready")
  BY <1>1 DEF Start, ContextInv, MemoryTypeOK, Waiting
<1>2. CASE ~QueueEmpty(mem, "ready")
  <2>1. Dispatch(state, mem, stack, context) /\ job' = job
    BY <1>2 DEF Start
  <2>2. /\ state \in [Thread -> ThreadState]
        /\ mem.head["ready"] \in Thread /\ state[mem.head["ready"]] = "Ready"
    BY <1>2, HeadOfQueue, ByStateQueues DEF QueueEmpty, IInv, SchedulerTypeOK
  <2>3. /\ stack \in [Thread -> Seq(Word)] /\ context \in [Thread -> Nat]
        /\ job \in JobMemory /\ Waiting(state, job, stack, context)
    BY DEF ContextInv, MemoryTypeOK, JobMemory
  <2> QED BY <2>1, <2>2, <2>3, DispatchContext DEF ContextInv
<1> QED BY <1>1, <1>2

LEMMA UnblockContext ==
  ASSUME IInv, ContextInv, NEW t \in Thread, Unblock(t)
  PROVE  ContextInv'
  BY DEF Unblock, IInv, SchedulerTypeOK, ContextInv, MemoryTypeOK, Waiting

LEMMA NextContextInv == IInv /\ ContextInv /\ [Next]_vars => ContextInv'
<1> SUFFICES ASSUME IInv, ContextInv, [Next]_vars PROVE ContextInv'
  OBVIOUS
<1>1. ASSUME NEW t \in Thread, NEW j \in Job, Create(t, j) PROVE ContextInv'
  BY <1>1, CreateContext
<1>2. CASE CreateFails
  BY <1>2 DEF CreateFails, ContextInv, MemoryTypeOK, Waiting
<1>3. CASE Start
  BY <1>3, StartContext
<1>4. CASE Compute
  BY <1>4, ComputeContext
<1>5. CASE Yield
  BY <1>5, SwitchToContext, ByStateQueues DEF Yield, IInv, SchedulerTypeOK
<1>6. CASE Block
  BY <1>6, SwitchToContext, ByStateQueues DEF Block, IInv, SchedulerTypeOK
<1>7. CASE Finish
  BY <1>7, FinishContext
<1>8. ASSUME NEW t \in Thread, Unblock(t) PROVE ContextInv'
  BY <1>8, UnblockContext
<1>9. CASE Ended \/ UNCHANGED vars
  BY <1>9 DEF Ended, vars, ContextInv, MemoryTypeOK, Waiting
<1> QED
  BY <1>1, <1>2, <1>3, <1>4, <1>5, <1>6, <1>7, <1>8, <1>9 DEF Next

THEOREM ContextInvariance == SafetySpec => []ContextInv
  BY Invariance, InitContextInv, NextContextInv, PTL DEF SafetySpec

\* Every variable keeps the type of the field it models: the links point to
\* threads or nowhere, and what lies on a stack or in a register is a word that
\* the library or the thread's own code put there.
THEOREM TypeAlwaysOK == SafetySpec => []TypeOK
<1>1. IInv /\ ContextInv => TypeOK
  BY DEF IInv, SchedulerTypeOK, HasLists, ContextInv, MemoryTypeOK, TypeOK
<1> QED BY <1>1, Invariance, ContextInvariance, PTL

\* A thread that gets the processor back finds its registers, its stack and its
\* place in its code as it left them, and a new one its argument, its function
\* and the return to __sthread_finish (glue.s).
THEOREM ContextAlwaysPreserved == SafetySpec => []ContextPreserved
<1>1. ASSUME IInv, ContextInv PROVE ContextPreserved
  <2>1. "rdi" \in Register /\ StartRegs(job[current].id)["rdi"] = ArgumentWord(job[current].id)
    BY RegisterNames DEF StartRegs
  <2> QED
    BY <1>1, <2>1
       DEF ContextInv, ContextPreserved, CodeRegs, CodeIp, CodeStack
<1> QED BY <1>1, Invariance, ContextInvariance, PTL
----------------------------------------------------------------------------
(***************************************************************************)
(* The library implements the scheduler of module Scheduler: the list a    *)
(* well-formed ready queue represents is unique, every library call does   *)
(* to it what the scheduler does to its sequence, and no call lets a       *)
(* thread overtake another.                                                *)
(***************************************************************************)
\* The links of a queue represent one list only.
LEMMA RepresentsOne ==
  ASSUME NEW m, NEW q, NEW k \in Nat, NEW s \in [1..k -> Thread],
         NEW a \in [1..k -> Thread], Represents(m, q, k, s), Represents(m, q, k, a)
  PROVE  a = s
<1> DEFINE Differ == {i \in 1..k : a[i] # s[i]}
<1>1. Differ = {}
  <2> SUFFICES ASSUME Differ # {} PROVE FALSE
    OBVIOUS
  <2>1. Differ \in SUBSET Nat
    OBVIOUS
  <2>2. PICK i \in Differ : \A y \in Differ : ~(y < i)
    BY <2>1, LeastNatural
  <2>3. i \in 1..k /\ a[i] # s[i]
    OBVIOUS
  <2>4. i # 1
    BY <2>3 DEF Represents
  <2>5. PICK j \in 1..k : i = j + 1 /\ j # k
    BY <2>3, <2>4
  <2>6. a[j] = s[j]
    BY <2>2, <2>5
  <2>7. m.next[s[j]] = s[i] /\ m.next[a[j]] = a[i]
    BY <2>5 DEF Represents
  <2> QED BY <2>3, <2>6, <2>7
<1> QED BY <1>1

\* The order that is chosen from the links is the list they represent.
QueueOrder(m, q, S) == CHOOSE order \in Orders(S) : Lists(m, q, S, order)

LEMMA ChosenOrder ==
  ASSUME NEW m, NEW q, NEW S, NEW k \in Nat, NEW s \in [1..k -> Thread],
         Represents(m, q, k, s), Elements(k, s) = S
  PROVE  QueueOrder(m, q, S) = s
<1>1. s \in [1..k -> S] /\ \A t \in S : \E i \in 1..k : s[i] = t
  BY DEF Elements
<1>2. s \in Bijection(1..k, S)
  BY <1>1 DEF Bijection, Injection, Surjection, IsInjective, Represents
<1>3. IsFiniteSet(1..k) /\ Cardinality(1..k) = k
  BY FS_Interval
<1>4. Cardinality(S) = k
  BY <1>2, <1>3, FS_Bijection DEF ExistsBijection
<1>5. Orders(S) = [1..k -> S] /\ Lists(m, q, S, s)
  BY <1>1, <1>4 DEF Orders, Lists
<1>6. ASSUME NEW a \in [1..k -> S], Lists(m, q, S, a) PROVE a = s
  <2>1. S \subseteq Thread
    BY DEF Elements
  <2>2. a \in [1..k -> Thread] /\ Represents(m, q, k, a)
    BY <1>4, <1>6, <2>1 DEF Lists
  <2> QED BY <2>2, RepresentsOne
<1> QED BY <1>1, <1>5, <1>6 DEF QueueOrder

----------------------------------------------------------------------------
\* The queues hold the threads of S, and s is the list of the ready queue.
ReadyList(m, S, s) ==
  /\ HasLists(m, S)
  /\ s \in Seq(Thread)
  /\ Represents(m, "ready", Len(s), s)
  /\ Elements(Len(s), s) = S["ready"]

\* The two queues of the library.
LEMMA TwoQueues == "ready" \in Queues /\ "blocked" \in Queues /\ "blocked" # "ready"
  BY DEF Queues

\* Well-formed queues have a list of the ready threads.
LEMMA ReadyListExists ==
  ASSUME NEW m, NEW S, HasLists(m, S)
  PROVE  \E s \in Seq(Thread) : ReadyList(m, S, s)
<1>1. PICK k \in Nat : \E s \in [1..k -> Thread] :
        Represents(m, "ready", k, s) /\ Elements(k, s) = S["ready"]
  BY TwoQueues DEF HasLists, HasList
<1>2. PICK s \in [1..k -> Thread] :
        Represents(m, "ready", k, s) /\ Elements(k, s) = S["ready"]
  BY <1>1
<1>3. s \in Seq(Thread) /\ Len(s) = k
  OBVIOUS
<1> QED BY <1>2, <1>3 DEF ReadyList

\* The head pointer of the ready queue is the first element of its list, and NULL when
\* there is none.
LEMMA ReadyListHead ==
  ASSUME NEW m, NEW S, NEW s \in Seq(Thread), ReadyList(m, S, s)
  PROVE  /\ m.head["ready"] = NULL <=> s = <<>>
         /\ s # <<>> => m.head["ready"] = Head(s) /\ Head(s) \in Thread
  BY NullAssumption DEF ReadyList, Represents

\* queue_append on the ready queue appends to its list.
LEMMA ReadyAppend ==
  ASSUME NEW m, NEW S, NEW s \in Seq(Thread), ReadyList(m, S, s),
         NEW t \in Thread, \A p \in Queues : t \notin S[p]
  PROVE  ReadyList(QueueAppend(m, "ready", t),
                   [S EXCEPT !["ready"] = @ \cup {t}], Append(s, t))
<1> DEFINE k == Len(s)
           n == QueueAppend(m, "ready", t)
           a == Append(s, t)
<1>1. /\ k \in Nat /\ s \in [1..k -> Thread]
      /\ a \in Seq(Thread) /\ Len(a) = k + 1 /\ a \in [1..(k + 1) -> Thread]
      /\ \A i \in 1..(k + 1) : a[i] = IF i = k + 1 THEN t ELSE s[i]
  BY AppendFunction
<1>2. /\ HasLists(m, S) /\ m \in LinkMemory
      /\ Represents(m, "ready", k, s) /\ Elements(k, s) = S["ready"]
  BY DEF ReadyList, HasLists
<1>3. HasLists(n, [S EXCEPT !["ready"] = @ \cup {t}])
  BY <1>2, TwoQueues, AppendSets
<1>4. Appended(m, "ready", t, n)
  BY <1>2, TwoQueues, AppendFields
<1> HIDE DEF k, n, a
<1>5. Represents(n, "ready", k + 1, a)
  BY <1>1, <1>2, <1>4, TwoQueues, AppendRepresents
<1>6. Elements(k + 1, a) = Elements(k, s) \cup {t}
  BY <1>1 DEF Elements
<1>7. [S EXCEPT !["ready"] = @ \cup {t}]["ready"] = S["ready"] \cup {t}
  BY <1>2, TwoQueues DEF HasLists
<1> QED
  BY <1>1, <1>2, <1>3, <1>5, <1>6, <1>7 DEF ReadyList, n, a

\* queue_append on the blocked queue leaves the ready list as it was.
LEMMA ReadyAppendBlocked ==
  ASSUME NEW m, NEW S, NEW s \in Seq(Thread), ReadyList(m, S, s),
         NEW t \in Thread, \A p \in Queues : t \notin S[p]
  PROVE  ReadyList(QueueAppend(m, "blocked", t),
                   [S EXCEPT !["blocked"] = @ \cup {t}], s)
<1> DEFINE k == Len(s)
           n == QueueAppend(m, "blocked", t)
<1>1. k \in Nat /\ s \in [1..k -> Thread]
  OBVIOUS
<1>2. /\ HasLists(m, S) /\ m \in LinkMemory
      /\ Represents(m, "ready", k, s) /\ Elements(k, s) = S["ready"]
  BY DEF ReadyList, HasLists
<1>3. HasLists(n, [S EXCEPT !["blocked"] = @ \cup {t}])
  BY <1>2, TwoQueues, AppendSets
<1>4. Appended(m, "blocked", t, n)
  BY <1>2, TwoQueues, AppendFields
<1>5. PICK l \in Nat : \E u \in [1..l -> Thread] :
        Represents(m, "blocked", l, u) /\ Elements(l, u) = S["blocked"]
  BY <1>2, TwoQueues DEF HasLists, HasList
<1>6. PICK u \in [1..l -> Thread] :
        Represents(m, "blocked", l, u) /\ Elements(l, u) = S["blocked"]
  BY <1>5
<1>7. t \notin Elements(k, s) /\ Elements(l, u) \cap Elements(k, s) = {}
  BY <1>2, <1>6, TwoQueues DEF HasLists
<1> HIDE DEF k, n
<1>8. Represents(n, "ready", k, s)
  BY <1>1, <1>2, <1>4, <1>6, <1>7, TwoQueues, AppendKeepsOther
<1>9. [S EXCEPT !["blocked"] = @ \cup {t}]["ready"] = S["ready"]
  BY <1>2, TwoQueues DEF HasLists
<1> QED
  BY <1>2, <1>3, <1>8, <1>9 DEF ReadyList, n, k

\* queue_take on the ready queue takes the head of its list.
LEMMA ReadyTake ==
  ASSUME NEW m, NEW S, NEW s \in Seq(Thread), ReadyList(m, S, s), s # <<>>
  PROVE  ReadyList(QueueTake(m, "ready"),
                   [S EXCEPT !["ready"] = @ \ {Head(s)}], Tail(s))
<1> DEFINE k == Len(s)
           n == QueueTake(m, "ready")
           a == Tail(s)
<1>1. /\ k \in Nat /\ k # 0 /\ s \in [1..k -> Thread] /\ Head(s) = s[1]
      /\ a \in Seq(Thread) /\ Len(a) = k - 1 /\ a \in [1..(k - 1) -> Thread]
      /\ \A i \in 1..(k - 1) : a[i] = s[i + 1]
  BY TailFunction
<1>2. /\ HasLists(m, S) /\ m \in LinkMemory
      /\ Represents(m, "ready", k, s) /\ Elements(k, s) = S["ready"]
      /\ m.head["ready"] = s[1] /\ s[1] \in Thread /\ m.head["ready"] # NULL
  BY <1>1, ReadyListHead DEF ReadyList, HasLists
<1>3. HasLists(n, [S EXCEPT !["ready"] = @ \ {Head(s)}])
  BY <1>1, <1>2, TwoQueues, TakeSets
<1> HIDE DEF k, a
<1>4. s[1] # m.tail["ready"] => m.next[s[1]] \in Thread
  BY <1>1, <1>2 DEF Represents
<1>5. Taken(m, "ready", s[1], n)
  BY <1>2, <1>4, TwoQueues, TakeFields
<1> HIDE DEF n
<1>6. Represents(n, "ready", k - 1, a)
  BY <1>1, <1>2, <1>5, TwoQueues, TakeRepresents
<1>7. Elements(k - 1, a) = Elements(k, s) \ {s[1]}
  <2>1. Elements(k - 1, a) \subseteq Elements(k, s) \ {s[1]}
    BY <1>1, <1>2 DEF Elements, Represents
  <2>2. ASSUME NEW x \in Elements(k, s) \ {s[1]} PROVE x \in Elements(k - 1, a)
    <3>1. PICK i \in 1..k : x = s[i] /\ i # 1
      BY DEF Elements
    <3>2. i - 1 \in 1..(k - 1) /\ a[i - 1] = x
      BY <1>1, <3>1
    <3> QED BY <3>2 DEF Elements
  <2> QED BY <2>1, <2>2
<1>8. [S EXCEPT !["ready"] = @ \ {Head(s)}]["ready"] = S["ready"] \ {s[1]}
  BY <1>1, <1>2, TwoQueues DEF HasLists
<1> QED
  BY <1>1, <1>2, <1>3, <1>6, <1>7, <1>8 DEF ReadyList, n, a

\* queue_remove on the blocked queue leaves the ready list as it was.
LEMMA ReadyRemoveBlocked ==
  ASSUME NEW m, NEW S, NEW s \in Seq(Thread), ReadyList(m, S, s),
         NEW t \in S["blocked"]
  PROVE  ReadyList(QueueRemove(m, "blocked", t),
                   [S EXCEPT !["blocked"] = @ \ {t}], s)
<1> DEFINE k == Len(s)
           n == QueueRemove(m, "blocked", t)
<1>1. k \in Nat /\ s \in [1..k -> Thread]
  OBVIOUS
<1>2. /\ HasLists(m, S) /\ m \in LinkMemory /\ t \in Thread
      /\ Represents(m, "ready", k, s) /\ Elements(k, s) = S["ready"]
  BY TwoQueues DEF ReadyList, HasLists
<1>3. HasLists(n, [S EXCEPT !["blocked"] = @ \ {t}])
  BY <1>2, TwoQueues, RemoveSets
<1>4. Removed(m, "blocked", t, n)
  BY <1>2, TwoQueues, RemoveFields
<1>5. PICK l \in Nat : \E u \in [1..l -> Thread] :
        Represents(m, "blocked", l, u) /\ Elements(l, u) = S["blocked"]
  BY <1>2, TwoQueues DEF HasLists, HasList
<1>6. PICK u \in [1..l -> Thread] :
        Represents(m, "blocked", l, u) /\ Elements(l, u) = S["blocked"]
  BY <1>5
<1>7. PICK j \in 1..l : t = u[j]
  BY <1>6 DEF Elements
<1>8. Elements(l, u) \cap Elements(k, s) = {}
  BY <1>2, <1>6, TwoQueues DEF HasLists
<1> HIDE DEF k, n
<1>9. Represents(n, "ready", k, s)
  BY <1>1, <1>2, <1>4, <1>6, <1>7, <1>8, TwoQueues, RemoveKeepsOther
<1>10. [S EXCEPT !["blocked"] = @ \ {t}]["ready"] = S["ready"]
  BY <1>2, TwoQueues DEF HasLists
<1> QED
  BY <1>2, <1>3, <1>9, <1>10 DEF ReadyList, n, k

----------------------------------------------------------------------------
\* The order read off the links is the list.
LEMMA ReadyOrder ==
  ASSUME NEW m, NEW st \in [Thread -> ThreadState], NEW s \in Seq(Thread),
         ReadyList(m, ByState(st), s),
         NEW S, S = {t \in Thread : st[t] = "Ready"}
  PROVE  QueueOrder(m, "ready", S) = s
<1>1. ByState(st)["ready"] = S
  BY ByStateQueues
<1>2. Len(s) \in Nat /\ s \in [1..Len(s) -> Thread]
  BY SeqIsFunction
<1>3. Represents(m, "ready", Len(s), s) /\ Elements(Len(s), s) = S
  BY <1>1 DEF ReadyList
<1> QED BY <1>2, <1>3, ChosenOrder

\* The ready threads are those of the list.
LEMMA ReadyThreads ==
  ASSUME NEW m, NEW st \in [Thread -> ThreadState], NEW s \in Seq(Thread),
         ReadyList(m, ByState(st), s), NEW t \in Thread
  PROVE  st[t] = "Ready" <=> \E i \in DOMAIN s : s[i] = t
<1>1. DOMAIN s = 1..Len(s)
  OBVIOUS
<1> QED BY <1>1, ByStateQueues DEF ReadyList, Elements

\* The first thread of the list gets the processor.
LEMMA ReadyDispatch ==
  ASSUME NEW st \in [Thread -> ThreadState], NEW m, NEW s \in Seq(Thread),
         ReadyList(m, ByState(st), s), s # <<>>, NEW stk, NEW ctx,
         Dispatch(st, m, stk, ctx)
  PROVE  /\ Head(s) \in Thread /\ st[Head(s)] = "Ready" /\ Tail(s) \in Seq(Thread)
         /\ current' = Head(s) /\ state' = [st EXCEPT ![Head(s)] = "Running"]
         /\ ReadyList(mem', ByState(state'), Tail(s))
<1>1. Head(s) \in Thread /\ m.head["ready"] = Head(s)
  BY ReadyListHead
<1>2. 1 \in DOMAIN s /\ s[1] = Head(s) /\ Tail(s) \in Seq(Thread)
  BY TailFunction
<1>3. st[Head(s)] = "Ready"
  BY <1>1, <1>2, ReadyThreads
<1>4. /\ current' = Head(s) /\ state' = [st EXCEPT ![Head(s)] = "Running"]
      /\ mem' = QueueTake(m, "ready")
  BY <1>1 DEF Dispatch
<1>5. ByState([st EXCEPT ![Head(s)] = "Running"]) =
        [ByState(st) EXCEPT !["ready"] = @ \ {Head(s)}]
  BY <1>1, <1>3 DEF ByState, Queues
<1>6. ReadyList(QueueTake(m, "ready"),
                [ByState(st) EXCEPT !["ready"] = @ \ {Head(s)}], Tail(s))
  BY ReadyTake
<1> QED BY <1>1, <1>2, <1>3, <1>4, <1>5, <1>6

\* Selecting the next thread ends the process when the list is empty and runs its
\* head otherwise.
LEMMA ReadySelect ==
  ASSUME NEW st \in [Thread -> ThreadState], NEW m, NEW s \in Seq(Thread),
         ReadyList(m, ByState(st), s), NEW stk, NEW ctx, phase = "threads",
         Select(st, m, stk, ctx)
  PROVE  IF s = <<>>
         THEN /\ phase' \notin {"main", "threads"} /\ current' = NULL /\ state' = st
              /\ ReadyList(mem', ByState(state'), s)
         ELSE /\ Head(s) \in Thread /\ st[Head(s)] = "Ready" /\ Tail(s) \in Seq(Thread)
              /\ phase' = "threads" /\ current' = Head(s)
              /\ state' = [st EXCEPT ![Head(s)] = "Running"]
              /\ ReadyList(mem', ByState(state'), Tail(s))
<1>1. QueueEmpty(m, "ready") <=> s = <<>>
  BY ReadyListHead DEF QueueEmpty
<1>2. CASE s = <<>>
  <2>1. NothingReady(st, m, stk, ctx)
    BY <1>1, <1>2 DEF Select
  <2> QED BY <1>2, <2>1 DEF NothingReady
<1>3. CASE s # <<>>
  <2>1. Dispatch(st, m, stk, ctx) /\ phase' = phase
    BY <1>1, <1>3 DEF Select
  <2> QED BY <1>3, <2>1, ReadyDispatch
<1> QED BY <1>2, <1>3

\* Making a thread that is on no queue ready or blocked.
LEMMA ReadyEnqueue ==
  ASSUME NEW st \in [Thread -> ThreadState], NEW m, NEW s \in Seq(Thread),
         ReadyList(m, ByState(st), s), NEW t \in Thread, st[t] \in {"Free", "Running"}
  PROVE  /\ [st EXCEPT ![t] = "Ready"] \in [Thread -> ThreadState]
         /\ [st EXCEPT ![t] = "Blocked"] \in [Thread -> ThreadState]
         /\ Append(s, t) \in Seq(Thread)
         /\ ReadyList(QueueAppend(m, "ready", t),
                      ByState([st EXCEPT ![t] = "Ready"]), Append(s, t))
         /\ ReadyList(QueueAppend(m, "blocked", t),
                      ByState([st EXCEPT ![t] = "Blocked"]), s)
<1>1. \A p \in Queues : t \notin ByState(st)[p]
  BY DEF ByState
<1>2. /\ ByState([st EXCEPT ![t] = "Ready"]) = [ByState(st) EXCEPT !["ready"] = @ \cup {t}]
      /\ ByState([st EXCEPT ![t] = "Blocked"]) = [ByState(st) EXCEPT !["blocked"] = @ \cup {t}]
  BY DEF ByState, Queues
<1>3. /\ [st EXCEPT ![t] = "Ready"] \in [Thread -> ThreadState]
      /\ [st EXCEPT ![t] = "Blocked"] \in [Thread -> ThreadState]
  BY DEF ThreadState
<1>4. Append(s, t) \in Seq(Thread)
  BY AppendFunction
<1>5. ReadyList(QueueAppend(m, "ready", t),
                [ByState(st) EXCEPT !["ready"] = @ \cup {t}], Append(s, t))
  BY <1>1, ReadyAppend
<1>6. ReadyList(QueueAppend(m, "blocked", t),
                [ByState(st) EXCEPT !["blocked"] = @ \cup {t}], s)
  BY <1>1, ReadyAppendBlocked
<1> QED BY <1>2, <1>3, <1>4, <1>5, <1>6

----------------------------------------------------------------------------
(***************************************************************************)
(* Every step of the library is a step of the scheduler.                   *)
(***************************************************************************)

\* The order of the ready queue, before and after a step, is its list.
LEMMA OrderIsList ==
  ASSUME NEW s \in Seq(Thread), ReadyList(mem, ByState(state), s),
         state \in [Thread -> ThreadState]
  PROVE  Order("ready", "Ready") = s
<1>1. QueueOrder(mem, "ready", InState("Ready")) = s
  BY ReadyOrder DEF InState
<1> QED BY <1>1 DEF Order, QueueOrder

LEMMA NextOrderIsList ==
  ASSUME NEW s \in Seq(Thread), ReadyList(mem', ByState(state'), s),
         state' \in [Thread -> ThreadState]
  PROVE  Order("ready", "Ready")' = s
<1>1. QueueOrder(mem', "ready", InState("Ready")') = s
  BY ReadyOrder DEF InState
<1> QED BY <1>1 DEF Order, QueueOrder

\* Each library call does to the list what the scheduler does to its sequence.
LEMMA CreateRefines ==
  ASSUME IInv, NEW t \in Thread, NEW j \in Job, Create(t, j),
         NEW s \in Seq(Thread), ReadyList(mem, ByState(state), s)
  PROVE  /\ ReadyList(mem', ByState(state'), Append(s, t))
         /\ Abstract!Create(t)
<1>1. /\ phase \in {"main", "threads"} /\ state[t] = "Free"
      /\ state' = [state EXCEPT ![t] = "Ready"]
      /\ mem' = QueueAppend(mem, "ready", t)
      /\ phase' = phase /\ current' = current
      /\ state \in [Thread -> ThreadState]
  BY DEF Create, Live, IInv, SchedulerTypeOK
<1>2. ReadyList(mem', ByState(state'), Append(s, t)) /\ Append(s, t) \in Seq(Thread)
  BY <1>1, ReadyEnqueue
<1>3. Order("ready", "Ready") = s
  BY <1>1, OrderIsList
<1>4. Order("ready", "Ready")' = Append(s, t)
  BY <1>1, <1>2, ReadyEnqueue, NextOrderIsList
<1>5. ~Abstract!Known(t)
  <2>1. t # current
    BY <1>1 DEF IInv, OneRunning
  <2>2. t \notin InState("Blocked")
    BY <1>1 DEF InState
  <2>3. ~\E i \in DOMAIN s : s[i] = t
    BY <1>1, ReadyThreads
  <2> QED BY <2>1, <2>2, <2>3, <1>3 DEF Abstract!Known
<1>6. InState("Blocked")' = InState("Blocked")
  BY <1>1 DEF InState
<1> QED BY <1>1, <1>2, <1>3, <1>4, <1>5, <1>6 DEF Abstract!Create

LEMMA StartRefines ==
  ASSUME IInv, Start, NEW s \in Seq(Thread), ReadyList(mem, ByState(state), s)
  PROVE  /\ ReadyList(mem', ByState(state'), IF s = <<>> THEN s ELSE Tail(s))
         /\ Abstract!Start
<1>1. /\ phase = "main" /\ state \in [Thread -> ThreadState]
      /\ QueueEmpty(mem, "ready") <=> s = <<>>
      /\ Order("ready", "Ready") = s
  BY ReadyListHead, OrderIsList DEF Start, QueueEmpty, IInv, SchedulerTypeOK
<1>2. CASE s = <<>>
  <2>1. phase' = "fault: null current" /\ UNCHANGED <<current, state, mem>>
    BY <1>1, <1>2 DEF Start
  <2>2. InState("Blocked")' = InState("Blocked") /\ Order("ready", "Ready")' = s
    BY <1>1, <2>1, NextOrderIsList DEF InState
  <2> QED BY <1>1, <1>2, <2>1, <2>2 DEF Abstract!Start
<1>3. CASE s # <<>>
  <2>1. phase' = "threads" /\ Dispatch(state, mem, stack, context)
    BY <1>1, <1>3 DEF Start
  <2>2. /\ Head(s) \in Thread /\ state[Head(s)] = "Ready" /\ Tail(s) \in Seq(Thread)
        /\ current' = Head(s) /\ state' = [state EXCEPT ![Head(s)] = "Running"]
        /\ ReadyList(mem', ByState(state'), Tail(s))
    BY <1>1, <1>3, <2>1, ReadyDispatch
  <2>3. state' \in [Thread -> ThreadState]
    BY <1>1, <2>2 DEF ThreadState
  <2>4. Order("ready", "Ready")' = Tail(s)
    BY <2>2, <2>3, NextOrderIsList
  <2>5. InState("Blocked")' = InState("Blocked")
    BY <1>1, <2>2 DEF InState
  <2> QED BY <1>1, <1>3, <2>1, <2>2, <2>4, <2>5 DEF Abstract!Start
<1> QED BY <1>2, <1>3

LEMMA YieldRefines ==
  ASSUME IInv, Yield, NEW s \in Seq(Thread), ReadyList(mem, ByState(state), s)
  PROVE  /\ current \in Thread /\ Append(s, current) # <<>>
         /\ ReadyList(mem', ByState(state'), Tail(Append(s, current)))
         /\ Abstract!Yield
<1> DEFINE st == [state EXCEPT ![current] = "Ready"]
           m == QueueAppend(mem, "ready", current)
           a == Append(s, current)
<1>1. /\ phase = "threads" /\ current \in Thread /\ state[current] = "Running"
      /\ state \in [Thread -> ThreadState] /\ Order("ready", "Ready") = s
  BY OrderIsList DEF Yield, SwitchTo, IInv, OneRunning, SchedulerTypeOK
<1>2. /\ st \in [Thread -> ThreadState] /\ a \in Seq(Thread)
      /\ ReadyList(m, ByState(st), a)
  BY <1>1, ReadyEnqueue
<1>3. a # <<>>
  BY <1>1, AppendFunction
<1>4. PICK stk, ctx : Select(st, m, stk, ctx)
  BY DEF Yield, SwitchTo
<1>5. InState("Blocked") = {t \in Thread : st[t] = "Blocked"}
  BY <1>1 DEF InState
<1> HIDE DEF st, m
<1> HIDE DEF a
<1>6. /\ Head(a) \in Thread /\ st[Head(a)] = "Ready" /\ Tail(a) \in Seq(Thread)
      /\ phase' = "threads" /\ current' = Head(a)
      /\ state' = [st EXCEPT ![Head(a)] = "Running"]
      /\ ReadyList(mem', ByState(state'), Tail(a))
  BY <1>1, <1>2, <1>3, <1>4, ReadySelect
<1>7. state' \in [Thread -> ThreadState]
  BY <1>2, <1>6 DEF ThreadState
<1>8. Order("ready", "Ready")' = Tail(a)
  BY <1>6, <1>7, NextOrderIsList
<1>9. InState("Blocked")' = InState("Blocked")
  BY <1>2, <1>5, <1>6 DEF InState
<1>10. Abstract!Yield
  BY <1>1, <1>3, <1>6, <1>8, <1>9 DEF Abstract!Yield, Abstract!RunFirst, a
<1> QED BY <1>1, <1>3, <1>6, <1>10 DEF a

LEMMA BlockRefines ==
  ASSUME IInv, Block, NEW s \in Seq(Thread), ReadyList(mem, ByState(state), s)
  PROVE  /\ ReadyList(mem', ByState(state'), IF s = <<>> THEN s ELSE Tail(s))
         /\ Abstract!Block
<1> DEFINE st == [state EXCEPT ![current] = "Blocked"]
           m == QueueAppend(mem, "blocked", current)
<1>1. /\ phase = "threads" /\ current \in Thread /\ state[current] = "Running"
      /\ state \in [Thread -> ThreadState] /\ Order("ready", "Ready") = s
  BY OrderIsList DEF Block, SwitchTo, IInv, OneRunning, SchedulerTypeOK
<1>2. st \in [Thread -> ThreadState] /\ ReadyList(m, ByState(st), s)
  BY <1>1, ReadyEnqueue
<1>3. PICK stk, ctx : Select(st, m, stk, ctx)
  BY DEF Block, SwitchTo
<1>4. {t \in Thread : st[t] = "Blocked"} = InState("Blocked") \cup {current}
  BY <1>1 DEF InState
<1> HIDE DEF st, m
<1>5. IF s = <<>>
      THEN /\ phase' \notin {"main", "threads"} /\ current' = NULL /\ state' = st
           /\ ReadyList(mem', ByState(state'), s)
      ELSE /\ Head(s) \in Thread /\ st[Head(s)] = "Ready" /\ Tail(s) \in Seq(Thread)
           /\ phase' = "threads" /\ current' = Head(s)
           /\ state' = [st EXCEPT ![Head(s)] = "Running"]
           /\ ReadyList(mem', ByState(state'), Tail(s))
  BY <1>1, <1>2, <1>3, ReadySelect
<1>6. state' \in [Thread -> ThreadState]
  BY <1>2, <1>5 DEF ThreadState
<1>7. InState("Blocked")' = InState("Blocked") \cup {current}
  BY <1>2, <1>4, <1>5 DEF InState
<1>8. Order("ready", "Ready")' = IF s = <<>> THEN s ELSE Tail(s)
  BY <1>5, <1>6, NextOrderIsList
<1>9. Abstract!Block
  BY <1>1, <1>5, <1>7, <1>8 DEF Abstract!Block, Abstract!RunFirst
<1> QED BY <1>5, <1>9

LEMMA FinishRefines ==
  ASSUME IInv, Finish, NEW s \in Seq(Thread), ReadyList(mem, ByState(state), s)
  PROVE  /\ ReadyList(mem', ByState(state'), IF s = <<>> THEN s ELSE Tail(s))
         /\ Abstract!Finish
<1> DEFINE st == [state EXCEPT ![current] = "Free"]
<1>1. /\ phase = "threads" /\ current \in Thread /\ state[current] = "Running"
      /\ state \in [Thread -> ThreadState] /\ Order("ready", "Ready") = s
  BY OrderIsList DEF Finish, IInv, OneRunning, SchedulerTypeOK
<1>2. ByState(st) = ByState(state)
  BY <1>1 DEF ByState
<1>3. st \in [Thread -> ThreadState] /\ ReadyList(mem, ByState(st), s)
  BY <1>1, <1>2 DEF ThreadState
<1>4. PICK stk, ctx : Select(st, mem, stk, ctx)
  BY DEF Finish
<1>5. {t \in Thread : st[t] = "Blocked"} = InState("Blocked")
  BY <1>1 DEF InState
<1> HIDE DEF st
<1>6. IF s = <<>>
      THEN /\ phase' \notin {"main", "threads"} /\ current' = NULL /\ state' = st
           /\ ReadyList(mem', ByState(state'), s)
      ELSE /\ Head(s) \in Thread /\ st[Head(s)] = "Ready" /\ Tail(s) \in Seq(Thread)
           /\ phase' = "threads" /\ current' = Head(s)
           /\ state' = [st EXCEPT ![Head(s)] = "Running"]
           /\ ReadyList(mem', ByState(state'), Tail(s))
  BY <1>1, <1>3, <1>4, ReadySelect
<1>7. state' \in [Thread -> ThreadState]
  BY <1>3, <1>6 DEF ThreadState
<1>8. InState("Blocked")' = InState("Blocked")
  BY <1>3, <1>5, <1>6 DEF InState
<1>9. Order("ready", "Ready")' = IF s = <<>> THEN s ELSE Tail(s)
  BY <1>6, <1>7, NextOrderIsList
<1>10. Abstract!Finish
  BY <1>1, <1>6, <1>8, <1>9 DEF Abstract!Finish, Abstract!RunFirst
<1> QED BY <1>6, <1>10

LEMMA UnblockRefines ==
  ASSUME IInv, NEW t \in Thread, Unblock(t),
         NEW s \in Seq(Thread), ReadyList(mem, ByState(state), s)
  PROVE  IF state[t] = "Blocked"
         THEN /\ ReadyList(mem', ByState(state'), Append(s, t))
              /\ Abstract!Unblock(t)
         ELSE /\ ReadyList(mem', ByState(state'), s)
              /\ Abstract!Stop
<1>1. /\ phase = "threads" /\ current' = current
      /\ state \in [Thread -> ThreadState] /\ Order("ready", "Ready") = s
  BY OrderIsList DEF Unblock, IInv, SchedulerTypeOK
<1>2. CASE state[t] # "Blocked"
  <2>1. phase' = "abort: not blocked" /\ UNCHANGED <<current, state, mem>>
    BY <1>2 DEF Unblock
  <2>2. InState("Blocked")' = InState("Blocked") /\ Order("ready", "Ready")' = s
    BY <1>1, <2>1, NextOrderIsList DEF InState
  <2> QED BY <1>1, <1>2, <2>1, <2>2 DEF Abstract!Stop
<1>3. CASE state[t] = "Blocked"
  <2> DEFINE off == [state EXCEPT ![t] = "Free"]
             m == QueueRemove(mem, "blocked", t)
  <2>1. /\ state' = [state EXCEPT ![t] = "Ready"] /\ phase' = phase
        /\ mem' = QueueAppend(m, "ready", t)
    BY <1>3 DEF Unblock
  <2>2. ReadyList(m, [ByState(state) EXCEPT !["blocked"] = @ \ {t}], s)
    BY <1>1, <1>3, ReadyRemoveBlocked, ByStateQueues
  <2>3. ByState(off) = [ByState(state) EXCEPT !["blocked"] = @ \ {t}]
    BY <1>1, <1>3 DEF ByState, Queues
  <2>4. off \in [Thread -> ThreadState] /\ off[t] = "Free"
        /\ [off EXCEPT ![t] = "Ready"] = [state EXCEPT ![t] = "Ready"]
    BY <1>1 DEF ThreadState
  <2> HIDE DEF off, m
  <2>4a. ReadyList(m, ByState(off), s)
    BY <2>2, <2>3
  <2>5. /\ ReadyList(QueueAppend(m, "ready", t), ByState([off EXCEPT ![t] = "Ready"]),
                     Append(s, t))
        /\ Append(s, t) \in Seq(Thread)
        /\ [off EXCEPT ![t] = "Ready"] \in [Thread -> ThreadState]
    BY <2>4, <2>4a, ReadyEnqueue
  <2>6. ReadyList(mem', ByState(state'), Append(s, t))
    BY <2>1, <2>4, <2>5
  <2>7. Order("ready", "Ready")' = Append(s, t)
    BY <2>1, <2>4, <2>5, <2>6, NextOrderIsList
  <2>8. t \in InState("Blocked") /\ InState("Blocked")' = InState("Blocked") \ {t}
    BY <1>1, <1>3, <2>1 DEF InState
  <2>9. Abstract!Unblock(t)
    BY <1>1, <2>1, <2>7, <2>8 DEF Abstract!Unblock
  <2> QED BY <1>3, <2>6, <2>9
<1> QED BY <1>2, <1>3

\* A thread is in sequence s.
In(s, a) == \E i \in DOMAIN s : s[i] = a

\* Whoever is in s and in u is in u before everybody of u that it was before in
\* s or that was not in s.
Keeps(s, u) ==
  \A a, b \in Thread :
    In(s, a) /\ In(u, a) /\ In(u, b) /\ (In(s, b) => Before(s, a, b))
      => Before(u, a, b)

\* Appending and taking the head keep the order of the others.
LEMMA KeepsAppend ==
  ASSUME NEW s \in Seq(Thread), NEW t \in Thread
  PROVE  Keeps(s, Append(s, t))
<1> DEFINE n == Len(s)
           u == Append(s, t)
<1>1. /\ n \in Nat /\ DOMAIN s = 1..n /\ DOMAIN u = 1..(n + 1)
      /\ \A i \in 1..(n + 1) : u[i] = IF i = n + 1 THEN t ELSE s[i]
  BY AppendFunction
<1> HIDE DEF n, u
<1>2. ASSUME NEW a \in Thread, NEW b \in Thread, In(s, a), In(u, b),
             In(s, b) => Before(s, a, b)
      PROVE  Before(u, a, b)
  <2>1. CASE In(s, b)
    <3>1. PICK i \in 1..n, j \in 1..n : i < j /\ s[i] = a /\ s[j] = b
      BY <1>1, <1>2, <2>1 DEF Before
    <3>2. i \in 1..(n + 1) /\ j \in 1..(n + 1) /\ u[i] = a /\ u[j] = b
      BY <1>1, <3>1
    <3> QED BY <1>1, <3>1, <3>2 DEF Before
  <2>2. CASE ~In(s, b)
    <3>1. PICK i \in 1..n : s[i] = a
      BY <1>1, <1>2 DEF In
    <3>2. i \in 1..(n + 1) /\ n + 1 \in 1..(n + 1) /\ i < n + 1 /\ u[i] = a
      BY <1>1, <3>1
    <3>3. u[n + 1] = b
      <4>1. PICK j \in 1..(n + 1) : u[j] = b
        BY <1>1, <1>2 DEF In
      <4>2. j = n + 1
        BY <1>1, <2>2, <4>1 DEF In
      <4> QED BY <4>1, <4>2
    <3> QED BY <1>1, <3>2, <3>3 DEF Before
  <2> QED BY <2>1, <2>2
<1> QED BY <1>2 DEF Keeps, u

LEMMA KeepsTail ==
  ASSUME NEW s \in Seq(Thread), s # <<>>, IsInjective(s)
  PROVE  /\ Keeps(s, Tail(s))
         /\ \A a : In(Tail(s), a) => In(s, a)
<1> DEFINE n == Len(s)
           u == Tail(s)
<1>1. /\ n \in Nat /\ n # 0 /\ DOMAIN s = 1..n /\ DOMAIN u = 1..(n - 1)
      /\ \A i \in 1..(n - 1) : u[i] = s[i + 1]
  BY TailFunction
<1> HIDE DEF n, u
<1>2. ASSUME NEW a, In(u, a) PROVE \E i \in 1..n : i # 1 /\ s[i] = a
  <2>1. PICK i \in 1..(n - 1) : u[i] = a
    BY <1>1, <1>2 DEF In
  <2>2. i + 1 \in 1..n /\ i + 1 # 1 /\ s[i + 1] = a
    BY <1>1, <2>1
  <2> QED BY <2>2
<1>3. \A a : In(u, a) => In(s, a)
  BY <1>1, <1>2 DEF In
<1>4. ASSUME NEW a \in Thread, NEW b \in Thread, In(u, a), In(u, b),
             In(s, b) => Before(s, a, b)
      PROVE  Before(u, a, b)
  <2>1. PICK i \in 1..n, j \in 1..n : i < j /\ s[i] = a /\ s[j] = b
    BY <1>1, <1>3, <1>4 DEF Before
  <2>2. i # 1
    BY <1>1, <1>2, <1>4, <2>1 DEF IsInjective
  <2>3. PICK x \in 1..(n - 1) : i = x + 1
    BY <1>1, <2>2
  <2>4. PICK y \in 1..(n - 1) : j = y + 1
    BY <1>1, <2>1, <2>2
  <2>5. x < y /\ u[x] = a /\ u[y] = b
    BY <1>1, <2>1, <2>3, <2>4
  <2> QED BY <1>1, <2>5 DEF Before
<1> QED BY <1>3, <1>4 DEF Keeps, u

LEMMA KeepsTailAppend ==
  ASSUME NEW s \in Seq(Thread), NEW t \in Thread, Append(s, t) # <<>>,
         IsInjective(Append(s, t))
  PROVE  Keeps(s, Tail(Append(s, t)))
<1>1. Append(s, t) \in Seq(Thread)
  BY AppendFunction
<1>2. /\ Keeps(s, Append(s, t)) /\ Keeps(Append(s, t), Tail(Append(s, t)))
      /\ \A a : In(Tail(Append(s, t)), a) => In(Append(s, t), a)
  BY <1>1, KeepsAppend, KeepsTail
<1> QED BY <1>2 DEF Keeps

\* No thread is twice on the list.
LEMMA ReadyDistinct ==
  ASSUME NEW m, NEW S, NEW s \in Seq(Thread), ReadyList(m, S, s)
  PROVE  IsInjective(s)
<1>1. DOMAIN s = 1..Len(s)
  OBVIOUS
<1> QED BY <1>1 DEF ReadyList, Represents, IsInjective

\* What a step does to the list of the ready queue.
LEMMA NextRefines ==
  ASSUME IInv, [Next]_vars, NEW s \in Seq(Thread), ReadyList(mem, ByState(state), s)
  PROVE  /\ Abstract!Next \/ UNCHANGED Abstract!vars
         /\ \E u \in Seq(Thread) : ReadyList(mem', ByState(state'), u) /\ Keeps(s, u)
<1> DEFINE Refines == Abstract!Next \/ UNCHANGED Abstract!vars
           Kept == \E u \in Seq(Thread) :
                     ReadyList(mem', ByState(state'), u) /\ Keeps(s, u)
<1>1. ASSUME NEW t \in Thread, ReadyList(mem', ByState(state'), Append(s, t)) PROVE Kept
  BY <1>1, KeepsAppend, AppendFunction
<1>2. ASSUME ReadyList(mem', ByState(state'), s) PROVE Kept
  BY <1>2 DEF Keeps
<1>3. ASSUME ReadyList(mem', ByState(state'), IF s = <<>> THEN s ELSE Tail(s)) PROVE Kept
  <2>1. CASE s = <<>>
    BY <1>2, <1>3, <2>1
  <2>2. CASE s # <<>>
    BY <1>3, <2>2, ReadyDistinct, KeepsTail, TailFunction
  <2> QED BY <2>1, <2>2
<1>4. ASSUME NEW t \in Thread, NEW j \in Job, Create(t, j) PROVE Refines /\ Kept
  BY <1>1, <1>4, CreateRefines DEF Abstract!Next
<1>5. ASSUME UNCHANGED <<current, state, mem>> PROVE
         /\ Order("ready", "Ready")' = Order("ready", "Ready")
         /\ InState("Blocked")' = InState("Blocked")
         /\ ReadyList(mem', ByState(state'), s)
  BY <1>5 DEF Order, InState, Lists
<1>6. ASSUME CreateFails PROVE Refines /\ Kept
  <2>1. Abstract!Stop
    BY <1>5, <1>6 DEF CreateFails, Abstract!Stop
  <2> QED BY <1>2, <1>5, <1>6, <2>1 DEF CreateFails, Abstract!Next
<1>7. ASSUME Start PROVE Refines /\ Kept
  BY <1>3, <1>7, StartRefines DEF Abstract!Next
<1>8. ASSUME Compute \/ Ended \/ UNCHANGED vars PROVE Refines /\ Kept
  <2>1. UNCHANGED <<phase, current, state, mem>>
    BY <1>8 DEF Compute, Ended, vars
  <2>2. UNCHANGED Abstract!vars
    BY <1>5, <2>1 DEF Abstract!vars
  <2> QED BY <1>2, <1>5, <2>1, <2>2
<1>9. ASSUME Yield PROVE Refines /\ Kept
  <2>1. /\ current \in Thread /\ Append(s, current) # <<>>
        /\ ReadyList(mem', ByState(state'), Tail(Append(s, current)))
        /\ Abstract!Yield
    BY <1>9, YieldRefines
  <2>2. IsInjective(Append(s, current))
    <3>1. state \in [Thread -> ThreadState] /\ state[current] = "Running"
      BY <1>9 DEF Yield, SwitchTo, IInv, OneRunning, SchedulerTypeOK
    <3>2. /\ Append(s, current) \in Seq(Thread)
          /\ ReadyList(QueueAppend(mem, "ready", current),
                       ByState([state EXCEPT ![current] = "Ready"]), Append(s, current))
      BY <2>1, <3>1, ReadyEnqueue
    <3> QED BY <3>2, ReadyDistinct
  <2>3. Tail(Append(s, current)) \in Seq(Thread)
    BY <2>1, AppendFunction, TailFunction
  <2> QED BY <2>1, <2>2, <2>3, KeepsTailAppend DEF Abstract!Next
<1>10. ASSUME Block PROVE Refines /\ Kept
  BY <1>3, <1>10, BlockRefines DEF Abstract!Next
<1>11. ASSUME Finish PROVE Refines /\ Kept
  BY <1>3, <1>11, FinishRefines DEF Abstract!Next
<1>12. ASSUME NEW t \in Thread, Unblock(t) PROVE Refines /\ Kept
  <2>1. CASE state[t] = "Blocked"
    BY <1>1, <1>12, <2>1, UnblockRefines DEF Abstract!Next
  <2>2. CASE state[t] # "Blocked"
    BY <1>2, <1>12, <2>2, UnblockRefines DEF Abstract!Next
  <2> QED BY <2>1, <2>2
<1> HIDE DEF Refines, Kept
<1>13. Refines /\ Kept
  <2>1. CASE Next
    BY <1>4, <1>6, <1>7, <1>8, <1>9, <1>10, <1>11, <1>12, <2>1 DEF Next
  <2> QED BY <1>8, <2>1
<1> QED BY <1>13 DEF Refines, Kept

\* Before the first call the scheduler has nothing to run.
LEMMA InitRefines == Init => Abstract!Init
<1> SUFFICES ASSUME Init PROVE Abstract!Init
  OBVIOUS
<1>1. phase = "main" /\ current = NULL /\ InState("Blocked") = {}
  BY DEF Init, InState
<1>2. Order("ready", "Ready") = <<>>
  <2>1. IInv
    BY InitIInv
  <2>2. PICK s \in Seq(Thread) : ReadyList(mem, ByState(state), s)
    BY <2>1, ReadyListExists DEF IInv
  <2>3. mem.head["ready"] = NULL
    BY TwoQueues DEF Init, EmptyLinks
  <2> QED
    BY <2>1, <2>2, <2>3, ReadyListHead, OrderIsList DEF IInv, SchedulerTypeOK
<1> QED BY <1>1, <1>2 DEF Abstract!Init

\* The library is a scheduler that serves first come first: with the links read
\* as the sequence they represent, every behaviour of the code is one of module
\* Scheduler.
THEOREM LibraryImplementsScheduler == SafetySpec => ImplementsScheduler
<1>1. IInv /\ [Next]_vars => [Abstract!Next]_(Abstract!vars)
  <2> SUFFICES ASSUME IInv, [Next]_vars PROVE Abstract!Next \/ UNCHANGED Abstract!vars
    OBVIOUS
  <2>1. PICK s \in Seq(Thread) : ReadyList(mem, ByState(state), s)
    BY ReadyListExists DEF IInv
  <2> QED BY <2>1, NextRefines
<1> QED
  BY <1>1, InitRefines, Invariance, PTL
     DEF SafetySpec, ImplementsScheduler, Abstract!Spec

\* No library call lets a thread overtake one that was ready before it.
THEOREM NeverOvertaking == SafetySpec => NoOvertaking
<1>1. ASSUME IInv, IInv', [Next]_vars,
             NEW a \in Thread, NEW b \in Thread, state[a] = "Ready",
             state'[a] = "Ready", state'[b] = "Ready",
             state[b] = "Ready" => Before(Order("ready", "Ready"), a, b)
      PROVE  Before(Order("ready", "Ready")', a, b)
  <2>1. PICK s \in Seq(Thread) : ReadyList(mem, ByState(state), s)
    BY <1>1, ReadyListExists DEF IInv
  <2>2. PICK u \in Seq(Thread) : ReadyList(mem', ByState(state'), u) /\ Keeps(s, u)
    BY <1>1, <2>1, NextRefines
  <2>3. state \in [Thread -> ThreadState] /\ state' \in [Thread -> ThreadState]
    BY <1>1 DEF IInv, SchedulerTypeOK
  <2>4. Order("ready", "Ready") = s /\ Order("ready", "Ready")' = u
    BY <2>1, <2>2, <2>3, OrderIsList, NextOrderIsList
  <2>5. In(s, a) /\ (state[b] = "Ready" <=> In(s, b))
    <3>1. ASSUME NEW t \in Thread PROVE state[t] = "Ready" <=> In(s, t)
      BY ONLY ZenonT(60), <2>1, <2>3, <3>1, ReadyThreads, s \in Seq(Thread) DEF In
    <3> QED BY <1>1, <3>1
  <2>6. In(u, a) /\ In(u, b)
    <3>1. ASSUME NEW t \in Thread PROVE state'[t] = "Ready" <=> In(u, t)
      BY ONLY ZenonT(60), <2>2, <2>3, <3>1, ReadyThreads, u \in Seq(Thread) DEF In
    <3> QED BY <1>1, <3>1
  <2> QED BY <1>1, <2>2, <2>4, <2>5, <2>6 DEF Keeps
<1> DEFINE Ordered == \A a, b \in Thread :
        /\ state[a] = "Ready"
        /\ state'[a] = "Ready"
        /\ state'[b] = "Ready"
        /\ state[b] = "Ready" => Before(Order("ready", "Ready"), a, b)
        => Before(Order("ready", "Ready")', a, b)
<1>2. IInv /\ IInv' /\ [Next]_vars => Ordered
  BY <1>1
<1> QED BY <1>2, Invariance, PTL DEF SafetySpec, NoOvertaking
=============================================================================
