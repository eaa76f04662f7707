----------------------------- MODULE PoolProofs -----------------------------
(***************************************************************************)
(* Proofs about the operators of Pool, for every pool and every client:    *)
(* marking finds what the roots reach, a collection keeps exactly that,    *)
(* unchanged, and an allocation adds one value and changes no other.       *)
(***************************************************************************)
EXTENDS Pool, DataLemmas

\* A value, as its header and its data have it.
Block == [ref : Int, type : ValueType, num : Int, den : Int, text : Seq(Nat),
          key : Int, value : Int, next : Int]

LEMMA BlockSize ==
  ASSUME NEW v \in Block
  PROVE  /\ SizeOf(v) \in Nat /\ SizeOf(v) >= 16
         /\ \A r \in Int : /\ [v EXCEPT !.ref = r] \in Block
                           /\ [v EXCEPT !.ref = r].ref = r
                           /\ SizeOf([v EXCEPT !.ref = r]) = SizeOf(v)
<1>1. v.type \in ValueType /\ Len(v.text) \in Nat
  BY DEF Block
<1>2. DataSize(v) \in Nat
  BY <1>1 DEF DataSize, ValueType
<1>3. ASSUME NEW r \in Int
      PROVE  /\ [v EXCEPT !.ref = r] \in Block /\ [v EXCEPT !.ref = r].ref = r
             /\ [v EXCEPT !.ref = r].type = v.type /\ [v EXCEPT !.ref = r].text = v.text
  BY DEF Block
<1>4. ASSUME NEW r \in Int PROVE DataSize([v EXCEPT !.ref = r]) = DataSize(v)
  BY <1>3 DEF DataSize
<1> QED BY <1>2, <1>3, <1>4 DEF SizeOf, HeaderSize

\* A function of whatever domain.
Map(f) == f = [a \in DOMAIN f |-> f[a]]

\* The values of mem lie one after the other from 0 to free.
Tiled(mem, free) ==
  /\ Map(mem)
  /\ free \in Nat /\ DOMAIN mem \subseteq Nat
  /\ \A a \in DOMAIN mem : /\ mem[a] \in Block
                           /\ a + SizeOf(mem[a]) \in DOMAIN mem \cup {free}
                           /\ a + SizeOf(mem[a]) <= free
  /\ \A a, b \in DOMAIN mem : a < b => a + SizeOf(mem[a]) <= b
  /\ 0 \in DOMAIN mem \cup {free}
  /\ \A x \in DOMAIN mem \cup {free} : x # 0 => \E a \in DOMAIN mem : x = a + SizeOf(mem[a])

LEMMA TiledEmpty == Tiled(<<>>, 0)
<1>1. DOMAIN <<>> = {} /\ Map(<<>>)
  BY DEF Map
<1> QED BY <1>1 DEF Tiled

LEMMA WithMap ==
  ASSUME NEW mem, NEW a, NEW v, NEW new, new = With(mem, a, v)
  PROVE  Map(new)
BY DEF With, Map

LEMMA WithDomain ==
  ASSUME NEW mem, NEW a, NEW v, NEW new, new = With(mem, a, v)
  PROVE  DOMAIN new = DOMAIN mem \cup {a}
BY DEF With

LEMMA WithNew ==
  ASSUME NEW mem, NEW a, NEW v, NEW new, new = With(mem, a, v)
  PROVE  new[a] = v
BY DEF With

LEMMA WithOld ==
  ASSUME NEW mem, NEW a, NEW v, NEW new, new = With(mem, a, v)
  PROVE  \A b \in DOMAIN mem : b # a => new[b] = mem[b]
BY DEF With

\* A value at the free pointer.
LEMMA TiledWith ==
  ASSUME NEW mem, NEW free, Tiled(mem, free), NEW v \in Block
  PROVE  /\ Tiled(With(mem, free, v), free + SizeOf(v))
         /\ free \notin DOMAIN mem /\ free \in Nat /\ \A a \in DOMAIN mem : a \in Nat /\ a < free
<1> DEFINE new == With(mem, free, v)
<1> DEFINE next == free + SizeOf(v)
<1>1. Map(new)
  BY WithMap
<1>2. DOMAIN new = DOMAIN mem \cup {free}
  BY WithDomain
<1>3. new[free] = v
  BY WithNew
<1>4. \A b \in DOMAIN mem : b # free => new[b] = mem[b]
  BY WithOld
<1> HIDE DEF new
<1>5. /\ free \in Nat /\ DOMAIN mem \subseteq Nat
      /\ \A a \in DOMAIN mem : /\ mem[a] \in Block
                               /\ a + SizeOf(mem[a]) \in DOMAIN mem \cup {free}
                               /\ a + SizeOf(mem[a]) <= free
      /\ \A a, b \in DOMAIN mem : a < b => a + SizeOf(mem[a]) <= b
      /\ 0 \in DOMAIN mem \cup {free}
      /\ \A x \in DOMAIN mem \cup {free} : x # 0 => \E a \in DOMAIN mem : x = a + SizeOf(mem[a])
  BY DEF Tiled
<1>6. SizeOf(v) \in Nat /\ SizeOf(v) >= 16
      /\ \A a \in DOMAIN mem : SizeOf(mem[a]) \in Nat /\ SizeOf(mem[a]) >= 16
  BY <1>5, BlockSize
<1>7. \A a \in DOMAIN mem : a \in Nat /\ a < free
  BY <1>5, <1>6
<1>8. free \notin DOMAIN mem
  BY <1>7, <1>5
<1>9. next \in Nat /\ next >= free + 16
  BY <1>5, <1>6
<1>10. new[free] = v /\ \A b \in DOMAIN mem : new[b] = mem[b]
  BY <1>3, <1>4, <1>8
<1> HIDE DEF next
<1>11. next \in Nat /\ DOMAIN new \subseteq Nat
  BY <1>2, <1>5, <1>9
<1>12. ASSUME NEW a \in DOMAIN new
      PROVE  /\ new[a] \in Block /\ a + SizeOf(new[a]) \in DOMAIN new \cup {next}
             /\ a + SizeOf(new[a]) <= next
  <2>1. CASE a = free
    BY <2>1, <1>10, <1>9 DEF next
  <2>2. CASE a \in DOMAIN mem
    <3>1. new[a] = mem[a] /\ a + SizeOf(mem[a]) \in DOMAIN new
      BY <2>2, <1>10, <1>5, <1>2
    <3>2. a + SizeOf(mem[a]) <= next
      BY <2>2, <1>5, <1>6, <1>9
    <3> QED BY <3>1, <3>2, <2>2, <1>5
  <2> QED BY <2>1, <2>2, <1>2, <1>12
<1>13. ASSUME NEW a \in DOMAIN new, NEW b \in DOMAIN new, a < b
       PROVE  a + SizeOf(new[a]) <= b
  <2>1. a \in DOMAIN mem
    BY <1>13, <1>2, <1>7, <1>5
  <2>2. new[a] = mem[a]
    BY <2>1, <1>10
  <2> QED BY <2>1, <2>2, <1>5, <1>2, <1>13
<1>14. 0 \in DOMAIN new \cup {next}
  BY <1>2, <1>5
<1>15. ASSUME NEW x \in DOMAIN new \cup {next}, x # 0
       PROVE  \E a \in DOMAIN new : x = a + SizeOf(new[a])
  <2>1. CASE x = next
    BY <2>1, <1>2, <1>10 DEF next
  <2>2. CASE x # next
    <3>1. x \in DOMAIN mem \cup {free}
      BY <2>2, <1>2
    <3>2. PICK a \in DOMAIN mem : x = a + SizeOf(mem[a])
      BY <3>1, <1>5, <1>15
    <3> QED BY <3>2, <1>2, <1>10
  <2> QED BY <2>1, <2>2
<1>16. Tiled(new, next)
  BY <1>1, <1>11, <1>12, <1>13, <1>14, <1>15 DEF Tiled
<1> QED BY <1>16, <1>7, <1>8, <1>5 DEF new, next

\* The table and the references in the values are inverse to each other.
Named(mem, table, count) ==
  /\ \E n \in Nat \ {0} : table \in [0..(n - 1) -> Int]
  /\ count \in Nat
  /\ \A a \in DOMAIN mem : mem[a].ref \in DOMAIN table /\ table[mem[a].ref] = a
  /\ \A r \in DOMAIN table : table[r] # NoAddress =>
       table[r] \in DOMAIN mem /\ mem[table[r]].ref = r /\ r < count

\* A pool in which a client may allocate and collect.
PoolOK(p) ==
  /\ p = [mem |-> p.mem, free |-> p.free, size |-> p.size, table |-> p.table,
          count |-> p.count, fault |-> p.fault]
  /\ Tiled(p.mem, p.free)
  /\ Named(p.mem, p.table, p.count)
  /\ p.size \in Nat /\ p.free <= p.size

LEMMA PoolIsSound ==
  ASSUME NEW p, PoolOK(p)
  PROVE  Sound(p)
<1> DEFINE ends == {a + SizeOf(p.mem[a]) : a \in DOMAIN p.mem}
<1>1. /\ \A a \in DOMAIN p.mem : a + SizeOf(p.mem[a]) \in DOMAIN p.mem \cup {p.free}
      /\ 0 \in DOMAIN p.mem \cup {p.free}
      /\ \A x \in DOMAIN p.mem \cup {p.free} : x # 0 => \E a \in DOMAIN p.mem : x = a + SizeOf(p.mem[a])
  BY DEF PoolOK, Tiled
<1>2. ends \cup {0} = DOMAIN p.mem \cup {p.free}
  BY <1>1
<1>3. \A a \in DOMAIN p.mem : p.table[p.mem[a].ref] = a
  BY DEF PoolOK, Named
<1>4. \A r \in DOMAIN p.table : Valid(p, r) => r < p.count /\ Deref(p, r).ref = r
  BY DEF PoolOK, Named, Valid, Deref
<1> QED BY <1>2, <1>3, <1>4 DEF Sound

----------------------------------------------------------------------------
(***************************************************************************)
(* Allocation                                                              *)
(***************************************************************************)

LEMMA TableSize ==
  ASSUME NEW n \in Nat \ {0}, NEW table \in [0..(n - 1) -> Int]
  PROVE  Cardinality(DOMAIN table) = n
<1>1. Cardinality(0..(n - 1)) = n
  BY FS_Interval
<1> QED BY <1>1

\* From p to q, one value like v is new, under a reference that had none, and
\* nothing else has changed.
Adds(p, q, v) ==
  \E new \in DOMAIN q.table :
    /\ ~Valid(p, new) /\ Valid(q, new)
    /\ Deref(q, new) = [v EXCEPT !.ref = new] /\ Newest(q) = new
    /\ \A r : Valid(p, r) => Valid(q, r) /\ Deref(q, r) = Deref(p, r)
    /\ \A r : Valid(q, r) => Valid(p, r) \/ r = new

\* The table has room for one reference more.
Widens(table, old) ==
  /\ \E n \in Nat \ {0} : table \in [0..(n - 1) -> Int]
  /\ DOMAIN old \subseteq DOMAIN table
  /\ \A r \in DOMAIN table : table[r] = IF r \in DOMAIN old THEN old[r] ELSE NoAddress

LEMMA WithReferenceOK ==
  ASSUME NEW p, PoolOK(p), NEW table, Widens(table, p.table),
         NEW slot \in DOMAIN table, table[slot] = NoAddress,
         slot <= p.count, p.count <= Cardinality(DOMAIN table) \/ slot < p.count,
         NEW v \in Block, HasSpace(p, v),
         NEW q, q = WithReference(p, table, slot, v)
  PROVE  PoolOK(q) /\ Adds(p, q, v) /\ q.fault = p.fault
<1> DEFINE w == [v EXCEPT !.ref = slot]
<1>1. PICK n \in Nat \ {0} : table \in [0..(n - 1) -> Int]
  BY DEF Widens
<1>2. slot \in Int /\ slot \in Nat
  BY <1>1
<1>3. w \in Block /\ w.ref = slot /\ SizeOf(w) = SizeOf(v) /\ SizeOf(v) \in Nat
  BY <1>2, BlockSize
<1>4. /\ p = [mem |-> p.mem, free |-> p.free, size |-> p.size, table |-> p.table,
              count |-> p.count, fault |-> p.fault]
      /\ Tiled(p.mem, p.free) /\ Named(p.mem, p.table, p.count)
      /\ p.size \in Nat /\ p.free <= p.size
  BY DEF PoolOK
<1>5. /\ q = [mem |-> q.mem, free |-> q.free, size |-> q.size, table |-> q.table,
              count |-> q.count, fault |-> q.fault]
      /\ q.mem = With(p.mem, p.free, w) /\ q.free = p.free + SizeOf(v)
      /\ q.size = p.size /\ q.table = [table EXCEPT ![slot] = p.free]
      /\ q.count = IF p.count > Cardinality(DOMAIN table) THEN p.count ELSE p.count + 1
      /\ q.fault = p.fault
  BY <1>4 DEF WithReference
<1> HIDE DEF w
<1>6. Tiled(With(p.mem, p.free, w), p.free + SizeOf(w))
  BY <1>3, <1>4, TiledWith
<1>7. /\ p.free \notin DOMAIN p.mem /\ p.free \in Nat
      /\ \A a \in DOMAIN p.mem : a \in Nat /\ a < p.free
  BY <1>3, <1>4, TiledWith
<1>8. Tiled(q.mem, q.free)
  BY <1>3, <1>5, <1>6
<1>9. DOMAIN q.mem = DOMAIN p.mem \cup {p.free}
  <2>1. \A m, a, x : DOMAIN With(m, a, x) = DOMAIN m \cup {a}
    BY WithDomain
  <2>2. DOMAIN With(p.mem, p.free, w) = DOMAIN p.mem \cup {p.free}
    BY ONLY <2>1
  <2> QED BY <2>2, <1>5
<1>10. q.mem[p.free] = w
  BY <1>5, WithNew
<1>11. \A a \in DOMAIN p.mem : q.mem[a] = p.mem[a]
  BY <1>5, <1>7, WithOld
<1>12. q.size \in Nat /\ q.free <= q.size
  BY <1>4, <1>5 DEF HasSpace
<1>13. /\ DOMAIN q.table = DOMAIN table /\ q.table[slot] = p.free
       /\ \A r \in DOMAIN table : r # slot => q.table[r] = table[r]
  BY <1>1, <1>5
<1>14. q.table \in [0..(n - 1) -> Int]
  BY <1>1, <1>5, <1>7
<1>15. /\ p.count \in Nat
       /\ \A a \in DOMAIN p.mem : p.mem[a].ref \in DOMAIN p.table /\ p.table[p.mem[a].ref] = a
       /\ \A r \in DOMAIN p.table : p.table[r] # NoAddress =>
            p.table[r] \in DOMAIN p.mem /\ p.mem[p.table[r]].ref = r /\ r < p.count
  BY <1>4 DEF Named
<1>16. /\ DOMAIN p.table \subseteq DOMAIN table
       /\ \A r \in DOMAIN table : table[r] = IF r \in DOMAIN p.table THEN p.table[r] ELSE NoAddress
  BY DEF Widens
<1>17. q.count \in Nat /\ q.count >= p.count /\ slot < q.count
  BY <1>1, <1>2, <1>5, <1>15, TableSize
<1>18. \A a \in DOMAIN q.mem : q.mem[a].ref \in DOMAIN q.table /\ q.table[q.mem[a].ref] = a
  <2> TAKE a \in DOMAIN q.mem
  <2>1. CASE a = p.free
    BY <2>1, <1>3, <1>10, <1>13
  <2>2. CASE a # p.free
    <3>1. a \in DOMAIN p.mem /\ q.mem[a] = p.mem[a]
      BY <2>2, <1>9, <1>11
    <3>2. p.mem[a].ref \in DOMAIN p.table /\ p.table[p.mem[a].ref] = a /\ a \in Nat
      BY <3>1, <1>15, <1>7
    <3>3. p.mem[a].ref \in DOMAIN table /\ table[p.mem[a].ref] = a
      BY <3>2, <1>16
    <3>4. p.mem[a].ref # slot
      BY <3>2, <3>3 DEF NoAddress
    <3> QED BY <3>1, <3>3, <3>4, <1>13
  <2> QED BY <2>1, <2>2
<1>19. ASSUME NEW r \in DOMAIN q.table, q.table[r] # NoAddress, r # slot
       PROVE  /\ r \in DOMAIN p.table /\ p.table[r] # NoAddress /\ q.table[r] = p.table[r]
              /\ q.table[r] \in DOMAIN p.mem /\ q.mem[q.table[r]] = p.mem[p.table[r]]
              /\ p.mem[p.table[r]].ref = r /\ r < p.count
  <2>1. q.table[r] = table[r] /\ r \in DOMAIN table
    BY <1>13, <1>19
  <2>2. r \in DOMAIN p.table /\ table[r] = p.table[r]
    BY <2>1, <1>16, <1>19
  <2> QED BY <2>1, <2>2, <1>15, <1>11, <1>19
<1>20. \A r \in DOMAIN q.table : q.table[r] # NoAddress =>
         q.table[r] \in DOMAIN q.mem /\ q.mem[q.table[r]].ref = r /\ r < q.count
  <2> TAKE r \in DOMAIN q.table
  <2> HAVE q.table[r] # NoAddress
  <2>1. CASE r = slot
    BY <2>1, <1>13, <1>9, <1>10, <1>3, <1>17
  <2>2. CASE r # slot
    <3>1. r \in Int
      BY <1>1, <1>13
    <3> QED BY <2>2, <3>1, <1>19, <1>9, <1>17, <1>15
  <2> QED BY <2>1, <2>2
<1>21. PoolOK(q)
  <2>1. Named(q.mem, q.table, q.count)
    BY <1>14, <1>17, <1>18, <1>20 DEF Named
  <2> QED BY <2>1, <1>5, <1>8, <1>12 DEF PoolOK
<1>22. ~Valid(p, slot) /\ Valid(q, slot) /\ Deref(q, slot) = w
  <2>1. slot \notin DOMAIN p.table \/ p.table[slot] = NoAddress
    BY <1>16
  <2> QED BY <2>1, <1>7, <1>10, <1>13 DEF Valid, Deref, NoAddress
<1>23. Newest(q) = slot
  <2> DEFINE last == CHOOSE a \in DOMAIN q.mem : a + SizeOf(q.mem[a]) = q.free
  <2>1. p.free \in DOMAIN q.mem /\ p.free + SizeOf(q.mem[p.free]) = q.free
    BY <1>3, <1>5, <1>9, <1>10
  <2>2. last \in DOMAIN q.mem /\ last + SizeOf(q.mem[last]) = q.free
    BY <2>1
  <2> HIDE DEF last
  <2>3. ASSUME last \in DOMAIN p.mem PROVE FALSE
    <3>1. last + SizeOf(p.mem[last]) <= p.free
      BY <2>3, <1>4 DEF Tiled
    <3>2. SizeOf(v) >= 16
      BY BlockSize
    <3> QED BY <3>1, <3>2, <2>2, <2>3, <1>11, <1>5, <1>7, <1>3
  <2>4. last = p.free
    BY <2>2, <2>3, <1>9
  <2> QED BY <2>4, <1>10, <1>3 DEF Newest, last
<1>24. \A r : Valid(p, r) => Valid(q, r) /\ Deref(q, r) = Deref(p, r)
  <2> TAKE r
  <2> HAVE Valid(p, r)
  <2>1. r \in DOMAIN p.table /\ p.table[r] # NoAddress
    BY DEF Valid
  <2>2. r \in DOMAIN table /\ table[r] = p.table[r] /\ r # slot
    BY <2>1, <1>16
  <2>3. r \in DOMAIN q.table /\ q.table[r] = p.table[r]
    BY <2>2, <1>13
  <2> QED BY <2>1, <2>3, <1>15, <1>11 DEF Valid, Deref
<1>25. \A r : Valid(q, r) => Valid(p, r) \/ r = slot
  BY <1>19 DEF Valid
<1>26. Adds(p, q, v)
  BY <1>13, <1>22, <1>23, <1>24, <1>25 DEF Adds, w
<1> QED BY <1>21, <1>26, <1>5

LEMMA GrownWidens ==
  ASSUME NEW n \in Nat \ {0}, NEW table \in [0..(n - 1) -> Int]
  PROVE  /\ Widens(Grown(table), table) /\ n \in DOMAIN Grown(table)
         /\ Grown(table)[n] = NoAddress /\ n <= Cardinality(DOMAIN Grown(table))
         /\ Widens(table, table)
<1>1. Cardinality(DOMAIN table) = n
  BY TableSize
<1> DEFINE new == [i \in 0..(2 * n - 1) |-> IF i < n THEN table[i] ELSE NoAddress]
<1>2. Grown(table) = new
  BY <1>1 DEF Grown
<1>3. new \in [0..(2 * n - 1) -> Int] /\ 2 * n \in Nat \ {0}
  BY DEF NoAddress
<1>4. Cardinality(DOMAIN new) = 2 * n
  BY <1>3, TableSize
<1>5. DOMAIN table = 0..(n - 1) /\ DOMAIN new = 0..(2 * n - 1)
  OBVIOUS
<1>6. \A r \in DOMAIN new : new[r] = IF r \in DOMAIN table THEN table[r] ELSE NoAddress
  OBVIOUS
<1>7. n \in DOMAIN new /\ new[n] = NoAddress
  OBVIOUS
<1>8. Widens(new, table)
  <2> HIDE DEF new
  <2>1. DOMAIN table \subseteq DOMAIN new
    BY <1>5
  <2> QED BY <2>1, <1>3, <1>6 DEF Widens
<1>9. Widens(table, table)
  BY DEF Widens
<1> HIDE DEF new
<1> QED BY <1>2, <1>4, <1>7, <1>8, <1>9

LEMMA AllocateCases ==
  ASSUME NEW p, NEW v, NEW n \in Nat, p.count \in Nat, Cardinality(DOMAIN p.table) = n
  PROVE  /\ p.count < n => AllocateIn(p, {}, v) = WithReference(p, p.table, p.count, v)
         /\ p.count = n => AllocateIn(p, {}, v) = WithReference(p, Grown(p.table), p.count, v)
         /\ p.count > n => AllocateIn(p, {}, v) = [p EXCEPT !.fault = "table overrun"]
<1> DEFINE c == Cardinality(DOMAIN p.table)
<1> DEFINE k == p.count
<1> DEFINE x == WithReference(p, p.table, p.count, v)
<1> DEFINE y == WithReference(p, Grown(p.table), p.count, v)
<1> DEFINE z == [p EXCEPT !.fault = "table overrun"]
<1> DEFINE A == AllocateIn(p, {}, v)
<1>1. A = CASE k < c -> x [] k = c -> y [] OTHER -> z
  BY DEF AllocateIn
<1>2. c = n /\ k \in Nat
  OBVIOUS
<1> HIDE DEF c, k, x, y, z, A
<1>3. /\ k < c => A = x
      /\ k = c => A = y
      /\ k > c => A = z
  BY ONLY <1>1, <1>2, n \in Nat
<1> QED BY <1>2, <1>3 DEF k, x, y, z, A

\* An allocation adds a value, or the search for a slot leaves the table.
LEMMA AllocateOK ==
  ASSUME NEW p, PoolOK(p), NEW v \in Block, HasSpace(p, v),
         NEW q, q = Allocate(p, v), q.fault = "none"
  PROVE  PoolOK(q) /\ Adds(p, q, v)
<1> DEFINE unused == {i \in DOMAIN p.table : i < p.count /\ p.table[i] = NoAddress}
<1>1. PICK n \in Nat \ {0} : p.table \in [0..(n - 1) -> Int]
  BY DEF PoolOK, Named
<1>2. /\ Widens(Grown(p.table), p.table) /\ n \in DOMAIN Grown(p.table)
      /\ Grown(p.table)[n] = NoAddress /\ n <= Cardinality(DOMAIN Grown(p.table))
      /\ Widens(p.table, p.table)
  BY <1>1, GrownWidens
<1>3. Cardinality(DOMAIN p.table) = n /\ p.count \in Nat /\ DOMAIN p.table = 0..(n - 1)
  BY <1>1, TableSize DEF PoolOK, Named
<1>4. q = AllocateIn(p, unused, v)
  BY DEF Allocate
<1>5. CASE unused # {}
  <2>1. \E i \in unused : \A j \in unused : i <= j
    <3>1. unused \in SUBSET Nat
      BY <1>3
    <3>2. PICK i \in unused : \A j \in unused : ~(j < i)
      BY <3>1, <1>5, LeastNatural
    <3> QED BY <3>1, <3>2
  <2>2. Smallest(unused) \in unused
    BY <2>1 DEF Smallest
  <2>3. q = WithReference(p, p.table, Smallest(unused), v)
    BY <1>4, <1>5 DEF AllocateIn
  <2>4. /\ Smallest(unused) \in DOMAIN p.table /\ Smallest(unused) < p.count
        /\ p.table[Smallest(unused)] = NoAddress
    BY <2>2
  <2> HIDE DEF unused
  <2>5. Smallest(unused) <= p.count
    BY <2>4, <1>3
  <2> QED BY <2>3, <2>4, <2>5, <1>2, WithReferenceOK
<1>6. CASE unused = {} /\ p.count < n
  <2>1. q = WithReference(p, p.table, p.count, v)
    <3>1. q = AllocateIn(p, {}, v)
      BY <1>4, <1>6
    <3> QED BY <3>1, <1>3, <1>6, AllocateCases
  <2>2. p.count \in DOMAIN p.table /\ p.count <= p.count /\ p.count <= Cardinality(DOMAIN p.table)
    BY <1>3, <1>6
  <2>3. p.table[p.count] = NoAddress
    <3>1. \A r \in DOMAIN p.table : p.table[r] # NoAddress => r < p.count
      BY DEF PoolOK, Named
    <3> QED BY <3>1, <2>2, <1>3
  <2> HIDE DEF unused
  <2> QED BY <2>1, <2>2, <2>3, <1>2, WithReferenceOK
<1>7. CASE unused = {} /\ p.count = n
  <2>1. q = WithReference(p, Grown(p.table), p.count, v)
    <3>1. q = AllocateIn(p, {}, v)
      BY <1>4, <1>7
    <3> QED BY <3>1, <1>3, <1>7, AllocateCases
  <2>2. p.count <= p.count
    BY <1>3
  <2> HIDE DEF unused
  <2> QED BY <2>1, <2>2, <1>2, <1>7, WithReferenceOK
<1>8. CASE unused = {} /\ p.count > n
  <2>1. q = [p EXCEPT !.fault = "table overrun"]
    <3>1. q = AllocateIn(p, {}, v)
      BY <1>4, <1>8
    <3> QED BY <3>1, <1>3, <1>8, AllocateCases
  <2>2. q.fault = "table overrun"
    BY <2>1 DEF PoolOK
  <2> QED BY <2>2
<1> QED BY <1>3, <1>5, <1>6, <1>7, <1>8

----------------------------------------------------------------------------
(***************************************************************************)
(* Marking                                                                 *)
(***************************************************************************)

\* References from which marking gets to no other.
Closed(p, refs) == \A r \in refs : Valid(p, r) => References(Deref(p, r)) \subseteq refs

LEMMA FollowedProperties ==
  ASSUME NEW p, NEW refs
  PROVE  /\ refs \subseteq Followed(p, refs)
         /\ Closed(p, refs) => Followed(p, refs) = refs
         /\ \A r \in refs : Valid(p, r) => References(Deref(p, r)) \subseteq Followed(p, refs)
         /\ \A S : refs \subseteq S /\ Closed(p, S) => Followed(p, refs) \subseteq S
BY DEF Followed, Closed

\* The values that are referred to, and how many there can be.
Used(p, refs) == {r \in refs : Valid(p, r)}

LEMMA UsedFinite ==
  ASSUME NEW p, PoolOK(p), NEW refs
  PROVE  /\ IsFiniteSet(DOMAIN p.mem) /\ Cardinality(DOMAIN p.mem) \in Nat
         /\ IsFiniteSet(Used(p, refs)) /\ Cardinality(Used(p, refs)) \in Nat
         /\ Cardinality(Used(p, refs)) <= Cardinality(DOMAIN p.mem)
<1> DEFINE U == Used(p, refs)
<1> DEFINE at == [r \in U |-> p.table[r]]
<1>1. /\ p.free \in Nat /\ \A a \in DOMAIN p.mem : a \in Nat /\ a + SizeOf(p.mem[a]) <= p.free
      /\ \A a \in DOMAIN p.mem : p.mem[a] \in Block
  BY DEF PoolOK, Tiled
<1>2. \A a \in DOMAIN p.mem : SizeOf(p.mem[a]) \in Nat
  BY <1>1, BlockSize
<1>3. DOMAIN p.mem \in SUBSET (0..p.free)
  BY <1>1, <1>2
<1>4. IsFiniteSet(0..p.free)
  BY <1>1, FS_Interval
<1>5. IsFiniteSet(DOMAIN p.mem) /\ Cardinality(DOMAIN p.mem) \in Nat
  BY <1>3, <1>4, FS_Subset, FS_CardinalityType
<1>6. \A r \in U : p.table[r] \in DOMAIN p.mem /\ p.mem[p.table[r]].ref = r
  BY DEF PoolOK, Named, Valid, Used
<1>7. at \in [U -> DOMAIN p.mem]
  BY <1>6
<1>8. IsInjective(at)
  <2>1. \A a, b \in U : p.table[a] = p.table[b] => a = b
    BY <1>6
  <2> HIDE DEF U
  <2> QED BY <2>1 DEF IsInjective
<1>9. at \in Injection(U, DOMAIN p.mem)
  BY <1>7, <1>8 DEF Injection
<1> HIDE DEF at, U
<1>10. IsFiniteSet(U) /\ Cardinality(U) <= Cardinality(DOMAIN p.mem)
  BY <1>5, <1>9, FS_Injection
<1>11. Cardinality(U) \in Nat
  BY <1>10, FS_CardinalityType
<1> QED BY <1>5, <1>10, <1>11 DEF U

\* What one step of marking from refs to more leaves: no more is reached, or
\* there is a value more.
LEMMA FollowedGrows ==
  ASSUME NEW p, PoolOK(p), NEW refs, ~Closed(p, Followed(p, refs))
  PROVE  Cardinality(Used(p, Followed(p, refs))) > Cardinality(Used(p, refs))
<1> DEFINE more == Followed(p, refs)
<1>1. refs \subseteq more /\ \A r \in refs : Valid(p, r) => References(Deref(p, r)) \subseteq more
  BY FollowedProperties
<1>2. PICK r \in more : Valid(p, r) /\ ~(References(Deref(p, r)) \subseteq more)
  BY DEF Closed
<1> HIDE DEF more
<1>3. r \notin refs
  BY <1>1, <1>2
<1>4. Used(p, refs) \in SUBSET Used(p, more) /\ r \in Used(p, more) /\ r \notin Used(p, refs)
  BY <1>1, <1>2, <1>3 DEF Used
<1>5. IsFiniteSet(Used(p, more)) /\ Cardinality(Used(p, more)) \in Nat
      /\ Cardinality(Used(p, refs)) \in Nat
  BY UsedFinite
<1>6. Cardinality(Used(p, refs)) <= Cardinality(Used(p, more))
  BY <1>4, <1>5, FS_Subset
<1>7. Cardinality(Used(p, refs)) # Cardinality(Used(p, more))
  BY <1>4, <1>5, FS_Subset
<1> QED BY <1>5, <1>6, <1>7 DEF more

\* The steps of marking, as a function of their number.
Steps(p, roots, N, g) ==
  /\ g[0] = roots \ {NullRef}
  /\ \A i \in 1..N : g[i] = Followed(p, g[i - 1])

LEMMA MarkedSteps ==
  ASSUME NEW p, NEW roots, NEW N \in Nat, N = Cardinality(DOMAIN p.mem)
  PROVE  \E g : Steps(p, roots, N, g) /\ Marked(p, roots) = g[N]
<1> DEFINE first == roots \ {NullRef}
<1> DEFINE all == UNION {References(Deref(p, r)) : r \in {q \in DOMAIN p.table : Valid(p, q)}}
<1> DEFINE U == first \cup all
<1> DEFINE Body(f) == [i \in 0..N |-> IF i = 0 THEN first ELSE Followed(p, f[i - 1])]
<1> DEFINE reached == CHOOSE f : f = Body(f)
<1> DEFINE F == [x \in (1..N) \X SUBSET U |-> Followed(p, x[2])]
<1>1. Marked(p, roots) = reached[N]
  BY DEF Marked
<1>2. first \in SUBSET U
  OBVIOUS
<1>3. ASSUME NEW R \in SUBSET U PROVE Followed(p, R) \in SUBSET U
  BY DEF Followed, Valid
<1> HIDE DEF U, first
<1>4. F \in [(1..N) \X SUBSET U -> SUBSET U]
  BY <1>3
<1>5. PICK g : StepIteration(SUBSET U, F, first, N, g)
  <2> HIDE DEF F
  <2> QED BY <1>2, <1>4, StepIterates
<1>6. g \in [0..N -> SUBSET U] /\ g[0] = first /\ \A i \in 1..N : g[i] = F[<<i, g[i - 1]>>]
  BY <1>5 DEF StepIteration
<1>7. ASSUME NEW i \in 0..N
      PROVE  g[i] = IF i = 0 THEN first ELSE Followed(p, g[i - 1])
  <2>1. CASE i = 0
    BY <2>1, <1>6
  <2>2. CASE i # 0
    <3>1. i \in 1..N /\ i - 1 \in 0..N
      BY <2>2
    <3>2. g[i - 1] \in SUBSET U
      BY <3>1, <1>6
    <3>3. F[<<i, g[i - 1]>>] = Followed(p, g[i - 1])
      BY <3>1, <3>2
    <3> HIDE DEF F
    <3> QED BY <3>1, <3>3, <2>2, <1>6
  <2> QED BY <2>1, <2>2
<1>8. g = Body(g)
  <2>1. g = [i \in 0..N |-> g[i]]
    BY <1>6
  <2> QED BY ONLY <2>1, <1>7
<1>9. reached = Body(reached)
  <2> HIDE DEF Body
  <2> QED BY <1>8
<1> HIDE DEF reached
<1>10. \A i \in 0..N : reached[i] = IF i = 0 THEN first ELSE Followed(p, reached[i - 1])
  <2> DEFINE B == Body(reached)
  <2>1. \A i \in 0..N : B[i] = IF i = 0 THEN first ELSE Followed(p, reached[i - 1])
    OBVIOUS
  <2>2. reached = B
    BY ONLY <1>9
  <2> HIDE DEF B
  <2> QED BY ONLY <2>1, <2>2
<1>11. reached[0] = first
  <2>1. 0 \in 0..N
    OBVIOUS
  <2> QED BY ONLY <2>1, <1>10
<1>12. \A i \in 1..N : reached[i] = Followed(p, reached[i - 1])
  <2> TAKE i \in 1..N
  <2>1. i \in 0..N /\ i # 0
    OBVIOUS
  <2> QED BY ONLY <2>1, <1>10
<1> QED BY <1>1, <1>11, <1>12 DEF Steps, first

\* Marking is complete: it gets to everything that can be reached from the roots
\* through values in the pool, and to nothing else (alloc.c:352-402).
THEOREM MarkingIsReachability ==
  ASSUME NEW p, PoolOK(p), NEW roots
  PROVE  /\ roots \ {NullRef} \subseteq Marked(p, roots)
         /\ Closed(p, Marked(p, roots))
         /\ \A S : roots \ {NullRef} \subseteq S /\ Closed(p, S) => Marked(p, roots) \subseteq S
<1> DEFINE N == Cardinality(DOMAIN p.mem)
<1>1. N \in Nat /\ \A refs : Cardinality(Used(p, refs)) \in Nat /\ Cardinality(Used(p, refs)) <= N
  BY UsedFinite
<1> HIDE DEF N
<1>2. PICK g : Steps(p, roots, N, g) /\ Marked(p, roots) = g[N]
  BY <1>1, MarkedSteps DEF N
<1>3. g[0] = roots \ {NullRef} /\ \A i \in 1..N : g[i] = Followed(p, g[i - 1])
  BY <1>2 DEF Steps
<1>4. \A refs : /\ refs \subseteq Followed(p, refs)
                /\ Closed(p, refs) => Followed(p, refs) = refs
                /\ \A S : refs \subseteq S /\ Closed(p, S) => Followed(p, refs) \subseteq S
  BY FollowedProperties
<1> DEFINE Fine(i) == /\ roots \ {NullRef} \subseteq g[i]
                      /\ \A S : roots \ {NullRef} \subseteq S /\ Closed(p, S) => g[i] \subseteq S
                      /\ Closed(p, g[i]) \/ Cardinality(Used(p, g[i])) > i
<1>5. Fine(0)
  <2>1. ASSUME ~Closed(p, g[0]) PROVE Cardinality(Used(p, g[0])) # 0
    <3>1. PICK r \in g[0] : Valid(p, r)
      BY <2>1 DEF Closed
    <3>2. r \in Used(p, g[0])
      BY <3>1 DEF Used
    <3>3. IsFiniteSet(Used(p, g[0]))
      BY UsedFinite
    <3> QED BY <3>2, <3>3, FS_EmptySet
  <2> QED BY <1>1, <1>3, <2>1
<1>6. ASSUME NEW i \in 1..N, Fine(i - 1) PROVE Fine(i)
  <2>1. i - 1 \in Nat /\ i \in Nat /\ g[i] = Followed(p, g[i - 1])
    BY <1>3
  <2>2. roots \ {NullRef} \subseteq g[i]
    BY <2>1, <1>4, <1>6
  <2>3. \A S : roots \ {NullRef} \subseteq S /\ Closed(p, S) => g[i] \subseteq S
    BY <2>1, <1>4, <1>6
  <2>4. CASE Closed(p, g[i - 1])
    BY <2>1, <2>2, <2>3, <2>4, <1>4
  <2>5. CASE ~Closed(p, g[i - 1]) /\ ~Closed(p, g[i])
    <3>1. Cardinality(Used(p, g[i])) > Cardinality(Used(p, g[i - 1]))
      BY <2>1, <2>5, FollowedGrows
    <3>2. Cardinality(Used(p, g[i - 1])) > i - 1
      BY <1>6, <2>5
    <3>3. Cardinality(Used(p, g[i])) > i
      BY <3>1, <3>2, <1>1, <2>1
    <3> QED BY <3>3, <2>2, <2>3
  <2> QED BY <2>2, <2>3, <2>4, <2>5
<1> HIDE DEF Fine
<1>7. \A i \in 0..N : Fine(i)
  <2> SUFFICES ASSUME {i \in 0..N : ~Fine(i)} # {} PROVE FALSE
    OBVIOUS
  <2>1. PICK i \in {j \in 0..N : ~Fine(j)} : \A k \in {j \in 0..N : ~Fine(j)} : ~(k < i)
    <3>1. {j \in 0..N : ~Fine(j)} \in SUBSET Nat
      OBVIOUS
    <3> QED BY <3>1, LeastNatural
  <2>2. i # 0 /\ i \in 1..N /\ i - 1 \in 0..N /\ i - 1 < i
    BY <2>1, <1>5, <1>1
  <2>3. Fine(i - 1)
    BY <2>1, <2>2
  <2> QED BY <2>1, <2>2, <2>3, <1>6
<1>8. Fine(N)
  BY <1>7, <1>1
<1>9. Closed(p, g[N])
  BY <1>8, <1>1 DEF Fine
<1> QED BY <1>2, <1>8, <1>9 DEF Fine

----------------------------------------------------------------------------
(***************************************************************************)
(* Sweep and compaction                                                    *)
(***************************************************************************)

\* What n steps of the sweep of p have made: the marked values below n lie one
\* after the other, nowhere beyond what is still to be swept; the others are gone.
SweptMem(p, marked, n, mem, free, table) ==
  /\ \A x \in DOMAIN p.mem \cup {p.free} : x >= n => free <= x
  /\ \A a \in DOMAIN mem :
       /\ mem[a].ref \in marked \cap DOMAIN p.table /\ table[mem[a].ref] = a
       /\ p.table[mem[a].ref] < n

SweptTable(p, marked, n, mem, table) ==
  \A r \in DOMAIN p.table :
    /\ p.table[r] = NoAddress \/ p.table[r] >= n => table[r] = p.table[r]
    /\ p.table[r] # NoAddress /\ p.table[r] < n =>
         IF r \in marked
         THEN table[r] \in DOMAIN mem /\ mem[table[r]] = p.mem[p.table[r]]
         ELSE table[r] = NoAddress

Swept(p, marked, n, s) ==
  /\ s = [mem |-> s.mem, free |-> s.free, size |-> s.size, table |-> s.table,
          count |-> s.count, fault |-> s.fault]
  /\ s.size = p.size /\ s.count = p.count
  /\ Tiled(s.mem, s.free) /\ s.table \in [DOMAIN p.table -> Int]
  /\ SweptMem(p, marked, n, s.mem, s.free, s.table)
  /\ SweptTable(p, marked, n, s.mem, s.table)

LEMMA OneMore ==
  \A x, n \in Int : /\ x >= n + 1 => x >= n
                    /\ x < n => x < n + 1
                    /\ x < n + 1 /\ x # n => x < n
                    /\ n < n + 1 /\ ~(n >= n + 1)
                    /\ x >= n + 1 => n < x
OBVIOUS

\* What a sound pool has at the block at n.
BlockAt(p, n, ref) ==
  /\ ref \in DOMAIN p.table /\ p.table[ref] = n /\ p.mem[n] \in Block /\ n \in Nat
  /\ \A r \in DOMAIN p.table : p.table[r] = n => r = ref
  /\ \A x \in DOMAIN p.mem \cup {p.free} : x \in Nat /\ (n < x => n + SizeOf(p.mem[n]) <= x)

LEMMA BlockIsThere ==
  ASSUME NEW p, PoolOK(p), NEW n \in DOMAIN p.mem
  PROVE  BlockAt(p, n, p.mem[n].ref)
<1>1. /\ p.mem[n].ref \in DOMAIN p.table /\ p.table[p.mem[n].ref] = n
      /\ \A r \in DOMAIN p.table : p.table[r] # NoAddress => p.mem[p.table[r]].ref = r
  BY DEF PoolOK, Named
<1>2. /\ p.mem[n] \in Block /\ n \in Nat /\ p.free \in Nat /\ DOMAIN p.mem \subseteq Nat
      /\ \A b \in DOMAIN p.mem : n < b => n + SizeOf(p.mem[n]) <= b
      /\ n + SizeOf(p.mem[n]) <= p.free
  BY DEF PoolOK, Tiled
<1>3. n # NoAddress
  BY <1>2 DEF NoAddress
<1>4. \A r \in DOMAIN p.table : p.table[r] = n => r = p.mem[n].ref
  BY <1>1, <1>3
<1> QED BY <1>1, <1>2, <1>4 DEF BlockAt

LEMMA TableIsThere ==
  ASSUME NEW p, PoolOK(p)
  PROVE  /\ p = [mem |-> p.mem, free |-> p.free, size |-> p.size, table |-> p.table,
                 count |-> p.count, fault |-> p.fault]
         /\ p.table \in [DOMAIN p.table -> Int]
         /\ \A r \in DOMAIN p.table : p.table[r] \in Int
<1>1. PICK n \in Nat \ {0} : p.table \in [0..(n - 1) -> Int]
  BY DEF PoolOK, Named
<1>2. DOMAIN p.table = 0..(n - 1)
  BY <1>1
<1> QED BY <1>1, <1>2 DEF PoolOK

LEMMA SweepStarts ==
  ASSUME NEW p, PoolOK(p), NEW marked, NEW s, s = [p EXCEPT !.mem = <<>>, !.free = 0]
  PROVE  Swept(p, marked, 0, s)
<1>1. /\ p = [mem |-> p.mem, free |-> p.free, size |-> p.size, table |-> p.table,
              count |-> p.count, fault |-> p.fault]
      /\ p.table \in [DOMAIN p.table -> Int]
  BY TableIsThere
<1>2. /\ s = [mem |-> s.mem, free |-> s.free, size |-> s.size, table |-> s.table,
              count |-> s.count, fault |-> s.fault]
      /\ s.mem = <<>> /\ s.free = 0 /\ s.size = p.size /\ s.table = p.table
      /\ s.count = p.count /\ s.fault = p.fault
  BY <1>1
<1>3. /\ \A r \in DOMAIN p.table : p.table[r] # NoAddress => p.table[r] \in DOMAIN p.mem
      /\ DOMAIN p.mem \subseteq Nat /\ p.free \in Nat
  BY DEF PoolOK, Named, Tiled
<1>4. SweptMem(p, marked, 0, <<>>, 0, p.table)
  BY <1>3 DEF SweptMem
<1>5. SweptTable(p, marked, 0, <<>>, p.table)
  <2>1. \A r \in DOMAIN p.table : ~(p.table[r] # NoAddress /\ p.table[r] < 0)
    BY <1>3
  <2> QED BY <2>1 DEF SweptTable
<1> QED BY <1>1, <1>2, <1>4, <1>5, TiledEmpty DEF Swept

\* A block that no reference in marked has.
LEMMA SweepDrops ==
  ASSUME NEW p, PoolOK(p), NEW marked, NEW n \in DOMAIN p.mem, NEW s, Swept(p, marked, n, s),
         p.mem[n].ref \notin marked, NEW t, t = SweepOne(p, marked, s, n)
  PROVE  Swept(p, marked, n + 1, t) /\ t.fault = s.fault
<1> DEFINE gone == p.mem[n].ref
<1>1. t = [s EXCEPT !.table[gone] = NoAddress]
  BY DEF SweepOne
<1>2. BlockAt(p, n, gone) /\ gone \notin marked
  BY BlockIsThere
<1> HIDE DEF gone
<1>3. /\ s = [mem |-> s.mem, free |-> s.free, size |-> s.size, table |-> s.table,
              count |-> s.count, fault |-> s.fault]
      /\ s.size = p.size /\ s.count = p.count
      /\ Tiled(s.mem, s.free) /\ s.table \in [DOMAIN p.table -> Int]
      /\ SweptMem(p, marked, n, s.mem, s.free, s.table)
      /\ SweptTable(p, marked, n, s.mem, s.table)
  BY DEF Swept
<1>4. /\ t = [mem |-> t.mem, free |-> t.free, size |-> t.size, table |-> t.table,
              count |-> t.count, fault |-> t.fault]
      /\ t.mem = s.mem /\ t.free = s.free /\ t.size = s.size /\ t.count = s.count
      /\ t.fault = s.fault /\ t.table = [s.table EXCEPT ![gone] = NoAddress]
  BY <1>1, <1>3
<1> DEFINE mem == s.mem
<1> DEFINE free == s.free
<1> DEFINE table == s.table
<1> DEFINE new == t.table
<1>5. /\ gone \in DOMAIN p.table /\ p.table[gone] = n /\ n \in Nat
      /\ \A r \in DOMAIN p.table : p.table[r] = n => r = gone
      /\ \A x \in DOMAIN p.mem \cup {p.free} : x \in Nat
  BY <1>2 DEF BlockAt
<1>6. n \in Int
  BY <1>5
<1>7. \A r \in DOMAIN p.table : p.table[r] \in Int
  BY TableIsThere
<1>8. table \in [DOMAIN p.table -> Int]
  BY <1>3
<1>9. new = [table EXCEPT ![gone] = NoAddress]
  BY <1>4
<1>10. /\ SweptMem(p, marked, n, mem, free, table) /\ SweptTable(p, marked, n, mem, table)
       /\ Tiled(mem, free)
  BY <1>3
<1>11. /\ t.mem = mem /\ t.free = free /\ t.table = new
  BY <1>4
<1> HIDE DEF mem, free, table, new
<1>12. /\ new \in [DOMAIN p.table -> Int] /\ new[gone] = NoAddress
       /\ \A r \in DOMAIN p.table : r # gone => new[r] = table[r]
  BY <1>5, <1>8, <1>9 DEF NoAddress
<1>13. SweptMem(p, marked, n + 1, mem, free, new)
  <2>1. ASSUME NEW x \in DOMAIN p.mem \cup {p.free}, x >= n + 1 PROVE free <= x
    <3>1. x \in Int
      BY <1>5
    <3>2. x >= n
      BY ONLY <2>1, <3>1, <1>6, OneMore
    <3> QED BY <3>2, <1>10 DEF SweptMem
  <2>2. ASSUME NEW a \in DOMAIN mem
        PROVE  /\ mem[a].ref \in marked \cap DOMAIN p.table /\ new[mem[a].ref] = a
               /\ p.table[mem[a].ref] < n + 1
    <3> DEFINE r == mem[a].ref
    <3>1. r \in marked \cap DOMAIN p.table /\ table[r] = a /\ p.table[r] < n
      BY <1>10 DEF SweptMem
    <3> HIDE DEF r
    <3>2. p.table[r] \in Int
      BY <3>1, <1>7
    <3>3. r # gone
      BY <3>1, <1>2
    <3>4. p.table[r] < n + 1
      BY ONLY <3>1, <3>2, <1>6, OneMore
    <3>5. new[r] = a
      BY <3>1, <3>3, <1>12
    <3> QED BY <3>1, <3>4, <3>5 DEF r
  <2> QED BY <2>1, <2>2 DEF SweptMem
<1>14. SweptTable(p, marked, n + 1, mem, new)
  <2> SUFFICES ASSUME NEW r \in DOMAIN p.table
               PROVE  /\ p.table[r] = NoAddress \/ p.table[r] >= n + 1 => new[r] = p.table[r]
                      /\ p.table[r] # NoAddress /\ p.table[r] < n + 1 =>
                           IF r \in marked
                           THEN new[r] \in DOMAIN mem /\ mem[new[r]] = p.mem[p.table[r]]
                           ELSE new[r] = NoAddress
    BY DEF SweptTable
  <2>1. CASE r = gone
    <3>1. p.table[r] = n /\ r \notin marked /\ new[r] = NoAddress
      BY <2>1, <1>2, <1>5, <1>12
    <3>2. ~(n >= n + 1)
      BY ONLY <1>6, OneMore
    <3>3. n # NoAddress
      BY <1>5 DEF NoAddress
    <3> QED BY ONLY <3>1, <3>2, <3>3
  <2>2. CASE r # gone
    <3>1. new[r] = table[r] /\ p.table[r] \in Int /\ p.table[r] # n
      BY <2>2, <1>5, <1>7, <1>12
    <3>2. /\ p.table[r] >= n + 1 => p.table[r] >= n
          /\ p.table[r] < n + 1 => p.table[r] < n
      BY ONLY <3>1, <1>6, OneMore
    <3>3. /\ p.table[r] = NoAddress \/ p.table[r] >= n => table[r] = p.table[r]
          /\ p.table[r] # NoAddress /\ p.table[r] < n =>
               IF r \in marked
               THEN table[r] \in DOMAIN mem /\ mem[table[r]] = p.mem[p.table[r]]
               ELSE table[r] = NoAddress
      BY <1>10 DEF SweptTable
    <3> QED BY ONLY <3>1, <3>2, <3>3
  <2> QED BY <2>1, <2>2
<1>15. Swept(p, marked, n + 1, t)
  <2>1. SweptMem(p, marked, n + 1, t.mem, t.free, t.table)
    BY <1>11, <1>13
  <2>2. SweptTable(p, marked, n + 1, t.mem, t.table)
    BY <1>11, <1>14
  <2>3. Tiled(t.mem, t.free) /\ t.table \in [DOMAIN p.table -> Int]
    BY <1>10, <1>11, <1>12
  <2>4. t.size = p.size /\ t.count = p.count
    BY <1>3, <1>4
  <2> QED BY <2>1, <2>2, <2>3, <2>4, <1>4 DEF Swept
<1> QED BY <1>4, <1>15

\* A block that is kept: it goes to the free pointer of the sweep.
LEMMA SweepKeeps ==
  ASSUME NEW p, PoolOK(p), NEW marked, NEW n \in DOMAIN p.mem, NEW s, Swept(p, marked, n, s),
         p.mem[n].ref \in marked, NEW t, t = SweepOne(p, marked, s, n)
  PROVE  Swept(p, marked, n + 1, t)
<1> DEFINE v == p.mem[n]
<1> DEFINE ref == p.mem[n].ref
<1> DEFINE corrupt == s.free < n /\ n + SizeField < s.free + SizeOf(v)
<1>1. t = [s EXCEPT !.table[ref] = s.free, !.mem = With(@, s.free, v),
                    !.free = s.free + SizeOf(v),
                    !.fault = IF corrupt THEN "pool corrupt" ELSE @]
  BY DEF SweepOne
<1>2. BlockAt(p, n, ref) /\ ref \in marked /\ v = p.mem[n] /\ v.ref = ref
  BY BlockIsThere
<1> HIDE DEF v, ref, corrupt
<1>3. /\ s = [mem |-> s.mem, free |-> s.free, size |-> s.size, table |-> s.table,
              count |-> s.count, fault |-> s.fault]
      /\ s.size = p.size /\ s.count = p.count
      /\ Tiled(s.mem, s.free) /\ s.table \in [DOMAIN p.table -> Int]
      /\ SweptMem(p, marked, n, s.mem, s.free, s.table)
      /\ SweptTable(p, marked, n, s.mem, s.table)
  BY DEF Swept
<1>4. /\ t = [mem |-> t.mem, free |-> t.free, size |-> t.size, table |-> t.table,
              count |-> t.count, fault |-> t.fault]
      /\ t.mem = With(s.mem, s.free, v) /\ t.free = s.free + SizeOf(v)
      /\ t.size = s.size /\ t.count = s.count /\ t.table = [s.table EXCEPT ![ref] = s.free]
  BY <1>1, <1>3
<1> DEFINE mem == s.mem
<1> DEFINE free == s.free
<1> DEFINE table == s.table
<1> DEFINE moved == t.mem
<1> DEFINE end == t.free
<1> DEFINE new == t.table
<1>5. /\ ref \in DOMAIN p.table /\ p.table[ref] = n /\ n \in Nat
      /\ \A r \in DOMAIN p.table : p.table[r] = n => r = ref
      /\ \A x \in DOMAIN p.mem \cup {p.free} : x \in Nat /\ (n < x => n + SizeOf(v) <= x)
      /\ v \in Block
  BY <1>2 DEF BlockAt
<1>6. n \in Int
  BY <1>5
<1>7. \A r \in DOMAIN p.table : p.table[r] \in Int
  BY TableIsThere
<1>8. table \in [DOMAIN p.table -> Int]
  BY <1>3
<1>9. moved = With(mem, free, v) /\ end = free + SizeOf(v) /\ new = [table EXCEPT ![ref] = free]
  BY <1>4
<1>10. /\ SweptMem(p, marked, n, mem, free, table) /\ SweptTable(p, marked, n, mem, table)
       /\ Tiled(mem, free)
  BY <1>3
<1>11. /\ t.mem = moved /\ t.free = end /\ t.table = new
  OBVIOUS
<1> HIDE DEF mem, free, table, moved, end, new
<1>12. SizeOf(v) \in Nat /\ SizeOf(v) >= 16
  BY <1>5, BlockSize
<1>13. /\ Tiled(moved, end) /\ free \notin DOMAIN mem /\ free \in Nat
  BY <1>5, <1>9, <1>10, TiledWith
<1>14. DOMAIN moved = DOMAIN mem \cup {free}
  BY <1>9, WithDomain
<1>15. moved[free] = v
  BY <1>9, WithNew
<1>16. \A a \in DOMAIN mem : moved[a] = mem[a]
  <2>1. \A b \in DOMAIN mem : b # free => moved[b] = mem[b]
    BY <1>9, WithOld
  <2> QED BY <2>1, <1>13
<1>17. /\ new \in [DOMAIN p.table -> Int] /\ new[ref] = free
       /\ \A r \in DOMAIN p.table : r # ref => new[r] = table[r]
  BY <1>5, <1>8, <1>9, <1>13
<1>18. SweptMem(p, marked, n + 1, moved, end, new)
  <2>1. ASSUME NEW x \in DOMAIN p.mem \cup {p.free}, x >= n + 1 PROVE end <= x
    <3>1. x \in Int /\ (n < x => n + SizeOf(v) <= x)
      BY <1>5
    <3>2. n < x
      BY ONLY <2>1, <3>1, <1>6, OneMore
    <3>3. free <= n
      <4>1. n >= n
        BY <1>6
      <4> QED BY <4>1, <1>10 DEF SweptMem
    <3> QED BY ONLY <3>1, <3>2, <3>3, <1>6, <1>9, <1>12, <1>13
  <2>2. ASSUME NEW a \in DOMAIN moved
        PROVE  /\ moved[a].ref \in marked \cap DOMAIN p.table /\ new[moved[a].ref] = a
               /\ p.table[moved[a].ref] < n + 1
    <3>1. CASE a = free
      <4>1. moved[a].ref = ref /\ n < n + 1
        BY <3>1, <1>2, <1>6, <1>15
      <4> QED BY <3>1, <4>1, <1>2, <1>5, <1>17
    <3>2. CASE a # free
      <4> DEFINE r == mem[a].ref
      <4>1. a \in DOMAIN mem /\ moved[a] = mem[a] /\ moved[a].ref = r
        BY <3>2, <1>14, <1>16
      <4>2. r \in marked \cap DOMAIN p.table /\ table[r] = a /\ p.table[r] < n
        BY <4>1, <1>10 DEF SweptMem
      <4> HIDE DEF r
      <4>3. p.table[r] \in Int
        BY <4>2, <1>7
      <4>4. r # ref
        BY <4>2, <1>5
      <4>5. p.table[r] < n + 1
        BY ONLY <4>2, <4>3, <1>6, OneMore
      <4> QED BY <4>1, <4>2, <4>4, <4>5, <1>17
    <3> QED BY <3>1, <3>2
  <2> QED BY <2>1, <2>2 DEF SweptMem
<1>19. SweptTable(p, marked, n + 1, moved, new)
  <2> SUFFICES ASSUME NEW r \in DOMAIN p.table
               PROVE  /\ p.table[r] = NoAddress \/ p.table[r] >= n + 1 => new[r] = p.table[r]
                      /\ p.table[r] # NoAddress /\ p.table[r] < n + 1 =>
                           IF r \in marked
                           THEN new[r] \in DOMAIN moved /\ moved[new[r]] = p.mem[p.table[r]]
                           ELSE new[r] = NoAddress
    BY DEF SweptTable
  <2>1. CASE r = ref
    <3>1. p.table[r] = n /\ r \in marked /\ new[r] = free /\ free \in DOMAIN moved
          /\ moved[free] = p.mem[n]
      BY <2>1, <1>2, <1>5, <1>14, <1>15, <1>17
    <3>2. ~(n >= n + 1)
      BY ONLY <1>6, OneMore
    <3>3. n # NoAddress
      BY <1>5 DEF NoAddress
    <3> QED BY ONLY <3>1, <3>2, <3>3
  <2>2. CASE r # ref
    <3>1. new[r] = table[r] /\ p.table[r] \in Int /\ p.table[r] # n
      BY <2>2, <1>5, <1>7, <1>17
    <3>2. /\ p.table[r] >= n + 1 => p.table[r] >= n
          /\ p.table[r] < n + 1 => p.table[r] < n
      BY ONLY <3>1, <1>6, OneMore
    <3>3. /\ p.table[r] = NoAddress \/ p.table[r] >= n => table[r] = p.table[r]
          /\ p.table[r] # NoAddress /\ p.table[r] < n =>
               IF r \in marked
               THEN table[r] \in DOMAIN mem /\ mem[table[r]] = p.mem[p.table[r]]
               ELSE table[r] = NoAddress
      BY <1>10 DEF SweptTable
    <3>4. table[r] \in DOMAIN mem =>
            table[r] \in DOMAIN moved /\ moved[table[r]] = mem[table[r]]
      BY <1>14, <1>16
    <3> QED BY ONLY <3>1, <3>2, <3>3, <3>4
  <2> QED BY <2>1, <2>2
<1>20. Swept(p, marked, n + 1, t)
  <2>1. SweptMem(p, marked, n + 1, t.mem, t.free, t.table)
    BY <1>11, <1>18
  <2>2. SweptTable(p, marked, n + 1, t.mem, t.table)
    BY <1>11, <1>19
  <2>3. Tiled(t.mem, t.free) /\ t.table \in [DOMAIN p.table -> Int]
    BY <1>11, <1>13, <1>17
  <2>4. t.size = p.size /\ t.count = p.count
    BY <1>3, <1>4
  <2> QED BY <2>1, <2>2, <2>3, <2>4, <1>4 DEF Swept
<1> QED BY <1>20

\* An address at which no block begins.
LEMMA SweepSkips ==
  ASSUME NEW p, PoolOK(p), NEW marked, NEW n \in Nat, n < p.free, n \notin DOMAIN p.mem,
         NEW s, Swept(p, marked, n, s)
  PROVE  Swept(p, marked, n + 1, s)
<1>1. /\ \A r \in DOMAIN p.table : p.table[r] \in Int
      /\ \A r \in DOMAIN p.table : p.table[r] # NoAddress => p.table[r] \in DOMAIN p.mem
      /\ DOMAIN p.mem \subseteq Nat /\ p.free \in Nat
  BY TableIsThere DEF PoolOK, Named, Tiled
<1>2. n \in Int /\ n # NoAddress
  BY DEF NoAddress
<1>3. \A r \in DOMAIN p.table : p.table[r] # n
  BY <1>1, <1>2
<1>4. SweptMem(p, marked, n, s.mem, s.free, s.table) /\ SweptTable(p, marked, n, s.mem, s.table)
  BY DEF Swept
<1>5. SweptMem(p, marked, n + 1, s.mem, s.free, s.table)
  <2>1. ASSUME NEW x \in DOMAIN p.mem \cup {p.free}, x >= n + 1 PROVE s.free <= x
    <3>1. x \in Int
      BY <1>1
    <3>2. x >= n
      BY ONLY <2>1, <3>1, <1>2, OneMore
    <3> QED BY <3>2, <1>4 DEF SweptMem
  <2>2. ASSUME NEW a \in DOMAIN s.mem
        PROVE  /\ s.mem[a].ref \in marked \cap DOMAIN p.table /\ s.table[s.mem[a].ref] = a
               /\ p.table[s.mem[a].ref] < n + 1
    <3> DEFINE r == s.mem[a].ref
    <3>1. r \in marked \cap DOMAIN p.table /\ s.table[r] = a /\ p.table[r] < n
      BY <1>4 DEF SweptMem
    <3> HIDE DEF r
    <3>2. p.table[r] \in Int
      BY <3>1, <1>1
    <3>3. p.table[r] < n + 1
      BY ONLY <3>1, <3>2, <1>2, OneMore
    <3> QED BY <3>1, <3>3 DEF r
  <2> QED BY <2>1, <2>2 DEF SweptMem
<1>6. SweptTable(p, marked, n + 1, s.mem, s.table)
  <2> SUFFICES ASSUME NEW r \in DOMAIN p.table
               PROVE  /\ p.table[r] = NoAddress \/ p.table[r] >= n + 1 => s.table[r] = p.table[r]
                      /\ p.table[r] # NoAddress /\ p.table[r] < n + 1 =>
                           IF r \in marked
                           THEN s.table[r] \in DOMAIN s.mem
                                /\ s.mem[s.table[r]] = p.mem[p.table[r]]
                           ELSE s.table[r] = NoAddress
    BY DEF SweptTable
  <2>1. p.table[r] \in Int /\ p.table[r] # n
    BY <1>1, <1>3
  <2>2. /\ p.table[r] >= n + 1 => p.table[r] >= n
        /\ p.table[r] < n + 1 => p.table[r] < n
    BY ONLY <2>1, <1>2, OneMore
  <2> QED BY <2>2, <1>4 DEF SweptTable
<1> QED BY <1>5, <1>6 DEF Swept

\* What the sweep makes of s at address n.
SweepAt(p, marked, s, n) == IF n \in DOMAIN p.mem THEN SweepOne(p, marked, s, n) ELSE s

SweepSteps(p, marked, N, g) ==
  /\ g = [n \in 0..N |-> g[n]]
  /\ g[0] = [p EXCEPT !.mem = <<>>, !.free = 0]
  /\ \A n \in 1..N : g[n] = SweepAt(p, marked, g[n - 1], n - 1)

LEMMA SweepIterates ==
  ASSUME NEW p, NEW marked, NEW N \in Nat
  PROVE  \E g : SweepSteps(p, marked, N, g)
<1> DEFINE Has(n) == \E g : SweepSteps(p, marked, n, g)
<1> DEFINE T == {n \in 0..N : ~Has(n)}
<1> SUFFICES ASSUME T # {} PROVE FALSE
  <2>1. N \in 0..N
    OBVIOUS
  <2>2. T = {} => Has(N)
    BY <2>1
  <2> HIDE DEF T
  <2> QED BY <2>2
<1>1. PICK n \in T : \A m \in T : ~(m < n)
  <2>1. T \in SUBSET Nat
    OBVIOUS
  <2> HIDE DEF T
  <2> QED BY <2>1, LeastNatural
<1>2. n \in 0..N /\ n \in Nat /\ ~Has(n)
  OBVIOUS
<1>3. n # 0
  <2> DEFINE first == [p EXCEPT !.mem = <<>>, !.free = 0]
  <2> DEFINE g == [j \in 0..0 |-> first]
  <2>1. g = [j \in 0..0 |-> g[j]] /\ g[0] = first /\ 1..0 = {}
    OBVIOUS
  <2> HIDE DEF g
  <2>2. Has(0)
    BY <2>1 DEF SweepSteps
  <2> QED BY <2>2, <1>2
<1>4. n \in 1..N /\ n - 1 \in 0..N /\ n - 1 < n /\ n - 1 \in 0..(n - 1)
  BY <1>2, <1>3
<1>5. Has(n - 1)
  BY <1>1, <1>4
<1>6. PICK g : SweepSteps(p, marked, n - 1, g)
  BY <1>5
<1> DEFINE last == SweepAt(p, marked, g[n - 1], n - 1)
<1> DEFINE e == [i \in 0..n |-> IF i = n THEN last ELSE g[i]]
<1>7. e = [i \in 0..n |-> e[i]]
  OBVIOUS
<1>8. e[n] = last /\ \A i \in 0..(n - 1) : e[i] = g[i]
  BY <1>2
<1>9. e[0] = g[0]
  BY <1>2, <1>3
<1> HIDE DEF e, last
<1>10. \A i \in 1..n : e[i] = SweepAt(p, marked, e[i - 1], i - 1)
  <2> TAKE i \in 1..n
  <2>1. CASE i = n
    <3>1. e[n - 1] = g[n - 1]
      BY <1>4, <1>8
    <3>2. e[n] = SweepAt(p, marked, e[n - 1], n - 1)
      BY ONLY <3>1, <1>8 DEF last
    <3> QED BY ONLY <3>2, <2>1
  <2>2. CASE i # n
    <3>1. i \in 1..(n - 1) /\ i \in 0..(n - 1) /\ i - 1 \in 0..(n - 1)
      BY <2>2, <1>2
    <3>2. e[i] = g[i] /\ e[i - 1] = g[i - 1]
      BY <3>1, <1>8
    <3>3. g[i] = SweepAt(p, marked, g[i - 1], i - 1)
      BY <3>1, <1>6 DEF SweepSteps
    <3> QED BY ONLY <3>2, <3>3
  <2> QED BY <2>1, <2>2
<1>11. SweepSteps(p, marked, n, e)
  BY <1>6, <1>7, <1>9, <1>10 DEF SweepSteps
<1> QED BY <1>2, <1>11

\* The steps of Sweep, which goes from block to block: those between do nothing.
LEMMA SweepHasSteps ==
  ASSUME NEW p, NEW marked, NEW N \in Nat, N = p.free, DOMAIN p.mem \subseteq Nat
  PROVE  \E g : SweepSteps(p, marked, N, g) /\ Sweep(p, marked) = g[N]
<1> DEFINE first == [p EXCEPT !.mem = <<>>, !.free = 0]
<1> DEFINE D == DOMAIN p.mem
<1> DEFINE Below(n) == {a \in D : a < n}
<1> DEFINE Greatest(S) == CHOOSE a \in S : \A b \in S : b <= a
<1> DEFINE After(f, S) == IF S = {} THEN first
                          ELSE SweepOne(p, marked, f[Greatest(S)], Greatest(S))
<1> DEFINE Body(f) == [n \in 0..N |-> After(f, Below(n))]
<1> DEFINE swept == CHOOSE f : f = Body(f)
<1>1. Sweep(p, marked) = swept[N]
  BY DEF Sweep
<1>2. PICK g : SweepSteps(p, marked, N, g)
  BY SweepIterates
<1>3. /\ g = [n \in 0..N |-> g[n]] /\ g[0] = first
      /\ \A n \in 1..N : g[n] = SweepAt(p, marked, g[n - 1], n - 1)
  BY <1>2 DEF SweepSteps
<1> HIDE DEF first
<1>4. Below(0) = {}
  OBVIOUS
<1>5. ASSUME NEW n \in 1..N, n - 1 \in D
      PROVE  Below(n) # {} /\ Greatest(Below(n)) = n - 1
  <2> DEFINE S == Below(n)
  <2>1. n - 1 \in S
    BY <1>5
  <2>2. S \subseteq Nat /\ \A b \in S : b <= n - 1
    OBVIOUS
  <2> HIDE DEF S
  <2>3. Greatest(S) \in S /\ \A b \in S : b <= Greatest(S)
    BY <2>1, <2>2
  <2> DEFINE a == Greatest(S)
  <2> HIDE DEF Greatest
  <2>4. a \in Nat /\ n - 1 \in Nat /\ a <= n - 1 /\ n - 1 <= a
    BY <2>1, <2>2, <2>3
  <2>5. S # {} /\ a = n - 1
    BY ONLY <2>1, <2>4
  <2> QED BY <2>5 DEF S
<1>6. ASSUME NEW n \in 1..N, n - 1 \notin D
      PROVE  Below(n) = Below(n - 1)
  BY <1>6
<1> HIDE DEF D, Below, Greatest
<1>7. ASSUME NEW f, NEW n \in 1..N, n - 1 \in D
      PROVE  After(f, Below(n)) = SweepOne(p, marked, f[n - 1], n - 1)
  BY <1>5, <1>7
<1>8. ASSUME NEW f
      PROVE  After(f, Below(0)) = first
  BY <1>4
<1> HIDE DEF After
<1>9. \A n \in 0..N : g[n] = After(g, Below(n))
  <2> DEFINE T == {n \in 0..N : g[n] # After(g, Below(n))}
  <2> SUFFICES ASSUME T # {} PROVE FALSE
    OBVIOUS
  <2>1. PICK n \in T : \A k \in T : ~(k < n)
    <3>1. T \in SUBSET Nat
      OBVIOUS
    <3> QED BY <3>1, LeastNatural
  <2>2. n \in 0..N /\ g[n] # After(g, Below(n))
    BY <2>1
  <2>3. n # 0
    BY <2>2, <1>3, <1>8
  <2>4. n \in 1..N /\ n - 1 \in 0..N /\ n - 1 < n
    BY <2>2, <2>3
  <2>5. g[n - 1] = After(g, Below(n - 1))
    BY <2>1, <2>4
  <2>6. g[n] = SweepAt(p, marked, g[n - 1], n - 1)
    BY <2>4, <1>3
  <2>7. CASE n - 1 \in D
    BY <2>2, <2>4, <2>6, <2>7, <1>7 DEF SweepAt, D
  <2>8. CASE n - 1 \notin D
    BY <2>2, <2>4, <2>5, <2>6, <2>8, <1>6 DEF SweepAt, D
  <2> QED BY <2>7, <2>8
<1>10. g = Body(g)
  BY ONLY <1>3, <1>9
<1>11. swept = Body(swept)
  <2> HIDE DEF Body
  <2> QED BY <1>10
<1> HIDE DEF swept
<1> DEFINE B == Body(swept)
<1>12. B = [n \in 0..N |-> B[n]] /\ \A n \in 0..N : B[n] = After(swept, Below(n))
  OBVIOUS
<1>13. swept = B
  BY ONLY <1>11
<1> HIDE DEF B, Body
<1>14. swept = [n \in 0..N |-> swept[n]] /\ \A n \in 0..N : swept[n] = After(swept, Below(n))
  BY ONLY <1>12, <1>13
<1>15. swept[0] = first
  <2>1. 0 \in 0..N
    OBVIOUS
  <2> QED BY ONLY <2>1, <1>8, <1>14
<1>16. \A n \in 1..N : swept[n] = SweepAt(p, marked, swept[n - 1], n - 1)
  <2> TAKE n \in 1..N
  <2>1. n \in 0..N /\ n - 1 \in 0..N
    OBVIOUS
  <2>2. CASE n - 1 \in D
    BY ONLY <2>1, <2>2, <1>7, <1>14, n \in 1..N DEF SweepAt, D
  <2>3. CASE n - 1 \notin D
    BY ONLY <2>1, <2>3, <1>6, <1>14, n \in 1..N DEF SweepAt, D
  <2> QED BY <2>2, <2>3
<1>17. SweepSteps(p, marked, N, swept)
  BY <1>14, <1>15, <1>16 DEF SweepSteps, first
<1> QED BY <1>1, <1>17

\* The sweep comes to its end.
LEMMA SweepIsSwept ==
  ASSUME NEW p, PoolOK(p), NEW marked
  PROVE  Swept(p, marked, p.free, Sweep(p, marked))
<1> DEFINE N == p.free
<1>1. N \in Nat /\ DOMAIN p.mem \subseteq Nat
  BY DEF PoolOK, Tiled
<1>2. PICK g : SweepSteps(p, marked, N, g) /\ Sweep(p, marked) = g[N]
  BY <1>1, SweepHasSteps
<1> DEFINE Fine(n) == Swept(p, marked, n, g[n])
<1>3. Fine(0)
  BY <1>2, SweepStarts DEF SweepSteps
<1>4. ASSUME NEW n \in 1..N, Fine(n - 1) PROVE Fine(n)
  <2> DEFINE m == n - 1
  <2>1. m \in Nat /\ m + 1 = n /\ m < N
    BY <1>1
  <2>2. g[n] = SweepAt(p, marked, g[m], m)
    BY <1>2 DEF SweepSteps
  <2>3. Swept(p, marked, m, g[m])
    BY <1>4
  <2> HIDE DEF m
  <2>4. CASE m \notin DOMAIN p.mem
    <3>1. g[n] = g[m]
      BY <2>2, <2>4 DEF SweepAt
    <3> QED BY <3>1, <2>1, <2>3, <2>4, SweepSkips
  <2>5. CASE m \in DOMAIN p.mem
    <3>1. g[n] = SweepOne(p, marked, g[m], m)
      BY <2>2, <2>5 DEF SweepAt
    <3>2. Swept(p, marked, m + 1, g[n])
      BY <3>1, <2>3, <2>5, SweepDrops, SweepKeeps
    <3> QED BY <3>2, <2>1
  <2> QED BY <2>4, <2>5
<1> HIDE DEF Fine
<1>5. \A n \in 0..N : Fine(n)
  <2> SUFFICES ASSUME {n \in 0..N : ~Fine(n)} # {} PROVE FALSE
    OBVIOUS
  <2>1. PICK n \in {j \in 0..N : ~Fine(j)} : \A k \in {j \in 0..N : ~Fine(j)} : ~(k < n)
    <3>1. {j \in 0..N : ~Fine(j)} \in SUBSET Nat
      OBVIOUS
    <3> QED BY <3>1, LeastNatural
  <2>2. n # 0 /\ n \in 1..N /\ n - 1 \in 0..N /\ n - 1 < n
    BY <2>1, <1>3, <1>1
  <2>3. Fine(n - 1)
    BY <2>1, <2>2
  <2> QED BY <2>1, <2>2, <2>3, <1>4
<1>6. Fine(N)
  BY <1>5, <1>1
<1> QED BY <1>2, <1>6 DEF Fine

----------------------------------------------------------------------------
(***************************************************************************)
(* What the clients of a pool may rely on                                  *)
(***************************************************************************)

LEMMA CollectIsSweep ==
  ASSUME NEW p, PoolOK(p), NEW roots, NEW q, q = Collect(p, roots), q.fault = "none"
  PROVE  /\ q = Sweep(p, Marked(p, roots))
         /\ \A r \in Marked(p, roots) : Valid(p, r)
<1> DEFINE marked == Marked(p, roots)
<1> HIDE DEF marked
<1>1. q = Compacted(p, marked)
  BY DEF Collect, marked
<1>2. [p EXCEPT !.fault = "assertion"].fault = "assertion"
      /\ [p EXCEPT !.fault = "stack overflow"].fault = "stack overflow"
  BY TableIsThere
<1>3. ~(\E r \in marked : ~Valid(p, r))
  BY <1>1, <1>2 DEF Compacted
<1>4. ~EndlessDicts(p, marked)
  BY <1>1, <1>2, <1>3 DEF Compacted
<1> QED BY <1>1, <1>3, <1>4 DEF Compacted, marked

\* Collecting garbage is invisible: the references that marking gets to are the
\* ones in use afterwards, and each has the value it had; the pool is sound and no
\* fuller than it was (alloc.c:352-490).
THEOREM CollectionKeepsTheLive ==
  ASSUME NEW p, PoolOK(p), NEW roots, NEW q, q = Collect(p, roots), q.fault = "none"
  PROVE  /\ PoolOK(q) /\ q.free <= p.free
         /\ \A r : Valid(q, r) <=> r \in Marked(p, roots)
         /\ \A r \in Marked(p, roots) : Valid(p, r) /\ Deref(q, r) = Deref(p, r)
<1> DEFINE marked == Marked(p, roots)
<1>1. q = Sweep(p, marked) /\ \A r \in marked : Valid(p, r)
  BY CollectIsSweep
<1> HIDE DEF marked
<1>2. Swept(p, marked, p.free, q)
  BY <1>1, SweepIsSwept
<1>3. /\ q = [mem |-> q.mem, free |-> q.free, size |-> q.size, table |-> q.table,
              count |-> q.count, fault |-> q.fault]
      /\ q.size = p.size /\ q.count = p.count
      /\ Tiled(q.mem, q.free) /\ q.table \in [DOMAIN p.table -> Int]
      /\ SweptMem(p, marked, p.free, q.mem, q.free, q.table)
      /\ SweptTable(p, marked, p.free, q.mem, q.table)
  BY <1>2 DEF Swept
<1>4. /\ p.free \in Nat /\ DOMAIN p.mem \subseteq Nat /\ p.size \in Nat /\ p.free <= p.size
      /\ p.count \in Nat
      /\ \A a \in DOMAIN p.mem : p.mem[a] \in Block /\ a + SizeOf(p.mem[a]) <= p.free
      /\ \A r \in DOMAIN p.table : p.table[r] # NoAddress =>
           p.table[r] \in DOMAIN p.mem /\ p.mem[p.table[r]].ref = r /\ r < p.count
  BY DEF PoolOK, Tiled, Named
<1>5. q.free \in Nat /\ DOMAIN q.mem \subseteq Nat
  BY <1>3 DEF Tiled
<1>6. q.free <= p.free
  <2>1. p.free >= p.free
    BY <1>4
  <2> QED BY <2>1, <1>3 DEF SweptMem
<1>7. \A a \in DOMAIN p.mem : a < p.free
  <2> TAKE a \in DOMAIN p.mem
  <2>1. a \in Nat /\ SizeOf(p.mem[a]) \in Nat /\ SizeOf(p.mem[a]) >= 16
        /\ a + SizeOf(p.mem[a]) <= p.free
    BY <1>4, BlockSize
  <2> QED BY ONLY <2>1, <1>4
<1>8. DOMAIN q.table = DOMAIN p.table
  BY <1>3
<1>9. ASSUME NEW r \in DOMAIN q.table, q.table[r] # NoAddress
      PROVE  /\ r \in marked /\ p.table[r] # NoAddress /\ p.table[r] \in DOMAIN p.mem
             /\ q.table[r] \in DOMAIN q.mem /\ q.mem[q.table[r]] = p.mem[p.table[r]]
             /\ p.mem[p.table[r]].ref = r /\ r < p.count
  <2>1. r \in DOMAIN p.table /\ p.table[r] # NoAddress
    BY <1>3, <1>8, <1>9 DEF SweptTable
  <2>2. p.table[r] < p.free /\ p.table[r] \in DOMAIN p.mem
    BY <2>1, <1>4, <1>7
  <2> QED BY <2>1, <2>2, <1>3, <1>4, <1>9 DEF SweptTable
<1>10. ASSUME NEW r \in marked
       PROVE  /\ r \in DOMAIN q.table /\ q.table[r] # NoAddress
              /\ q.mem[q.table[r]] = p.mem[p.table[r]]
  <2>1. r \in DOMAIN p.table /\ p.table[r] # NoAddress
    BY <1>1 DEF Valid
  <2>2. p.table[r] < p.free
    BY <2>1, <1>4, <1>7
  <2>3. q.table[r] \in DOMAIN q.mem /\ q.mem[q.table[r]] = p.mem[p.table[r]]
    BY <2>1, <2>2, <1>3 DEF SweptTable
  <2> QED BY <2>1, <2>3, <1>5, <1>8 DEF NoAddress
<1>11. Named(q.mem, q.table, q.count)
  <2>1. \E n \in Nat \ {0} : q.table \in [0..(n - 1) -> Int]
    <3>1. PICK n \in Nat \ {0} : p.table \in [0..(n - 1) -> Int]
      BY DEF PoolOK, Named
    <3>2. DOMAIN p.table = 0..(n - 1)
      BY <3>1
    <3> QED BY <3>2, <1>3
  <2>2. \A a \in DOMAIN q.mem : q.mem[a].ref \in DOMAIN q.table /\ q.table[q.mem[a].ref] = a
    BY <1>3, <1>8 DEF SweptMem
  <2>3. \A r \in DOMAIN q.table : q.table[r] # NoAddress =>
          q.table[r] \in DOMAIN q.mem /\ q.mem[q.table[r]].ref = r /\ r < q.count
    <3> TAKE r \in DOMAIN q.table
    <3> HAVE q.table[r] # NoAddress
    <3>1. q.count = p.count
      BY <1>3
    <3> QED BY <3>1, <1>9
  <2> QED BY <2>1, <2>2, <2>3, <1>3, <1>4 DEF Named
<1>12. q.size \in Nat /\ q.free <= q.size
  BY <1>3, <1>4, <1>5, <1>6
<1>13. PoolOK(q)
  BY <1>3, <1>11, <1>12 DEF PoolOK
<1>14. \A r : Valid(q, r) <=> r \in marked
  BY <1>9, <1>10 DEF Valid
<1>15. \A r \in marked : Valid(p, r) /\ Deref(q, r) = Deref(p, r)
  BY <1>1, <1>10 DEF Deref
<1> QED BY <1>6, <1>13, <1>14, <1>15 DEF marked

\* An allocation, with the collection it may need: everything the roots reach is
\* still there and unchanged, the new value has a reference that named nothing of
\* it, and the pool stays sound (alloc.c:130-242).
THEOREM AllocationKeepsTheLive ==
  ASSUME NEW p, PoolOK(p), NEW v \in Block, NEW roots,
         \A r \in Marked(p, roots) : Valid(p, r),
         NEW q, q = MmMalloc(p, v, roots), q.fault = "none"
  PROVE  /\ PoolOK(q)
         /\ \A r \in Marked(p, roots) : Valid(q, r) /\ Deref(q, r) = Deref(p, r)
         /\ \E new : /\ new \notin Marked(p, roots) /\ Newest(q) = new
                     /\ Valid(q, new) /\ Deref(q, new) = [v EXCEPT !.ref = new]
<1>1. CASE HasSpace(p, v)
  <2>1. q = Allocate(p, v)
    BY <1>1 DEF MmMalloc
  <2>2. PoolOK(q) /\ Adds(p, q, v)
    BY <2>1, <1>1, AllocateOK
  <2> QED BY <2>2 DEF Adds
<1>2. CASE ~HasSpace(p, v)
  <2> DEFINE c == Collect(p, roots)
  <2>1. q = AfterCollection(c, v)
    BY <1>2 DEF MmMalloc
  <2>2. c.fault = "none"
    BY <2>1 DEF AfterCollection
  <2> HIDE DEF c
  <2>3. /\ PoolOK(c) /\ \A r : Valid(c, r) <=> r \in Marked(p, roots)
        /\ \A r \in Marked(p, roots) : Deref(c, r) = Deref(p, r)
    BY <2>2, CollectionKeepsTheLive DEF c
  <2>4. HasSpace(c, v)
    <3>1. [c EXCEPT !.fault = "no memory"].fault = "no memory"
      BY <2>3, TableIsThere
    <3> QED BY <3>1, <2>1, <2>2 DEF AfterCollection
  <2>5. q = Allocate(c, v)
    BY <2>1, <2>2, <2>4 DEF AfterCollection
  <2>6. PoolOK(q) /\ Adds(c, q, v)
    BY <2>3, <2>4, <2>5, AllocateOK
  <2> QED BY <2>3, <2>6 DEF Adds
<1> QED BY <1>1, <1>2

\* The pool at the start (alloc.c:86-110).
THEOREM EmptyPoolOK ==
  ASSUME NEW size \in Nat, NEW slots \in Nat \ {0}
  PROVE  PoolOK(EmptyPool(size, slots))
<1> DEFINE table == [i \in 0..(slots - 1) |-> NoAddress]
<1> DEFINE p == EmptyPool(size, slots)
<1>1. /\ p = [mem |-> p.mem, free |-> p.free, size |-> p.size, table |-> p.table,
              count |-> p.count, fault |-> p.fault]
      /\ p.mem = <<>> /\ p.free = 0 /\ p.size = size /\ p.table = table /\ p.count = 0
  BY DEF EmptyPool
<1>2. table \in [0..(slots - 1) -> Int] /\ \A r \in DOMAIN table : table[r] = NoAddress
  BY DEF NoAddress
<1> HIDE DEF p, table
<1>3. Named(<<>>, table, 0)
  BY <1>2 DEF Named
<1>4. PoolOK(p)
  BY <1>1, <1>3, TiledEmpty DEF PoolOK
<1> QED BY <1>4 DEF p

\* A value may be changed in place, as long as it keeps its reference and its size
\* (eval.c:249, 315, 356).
LEMMA WritesKeepThePool ==
  ASSUME NEW p, PoolOK(p), NEW a \in DOMAIN p.mem, NEW w \in Block,
         w.ref = p.mem[a].ref, SizeOf(w) = SizeOf(p.mem[a]),
         NEW q, q = [p EXCEPT !.mem[a] = w]
  PROVE  /\ PoolOK(q) /\ \A r : Valid(q, r) <=> Valid(p, r)
         /\ \A r : Valid(p, r) => Deref(q, r) = IF r = w.ref THEN w ELSE Deref(p, r)
<1>1. /\ q = [mem |-> q.mem, free |-> q.free, size |-> q.size, table |-> q.table,
              count |-> q.count, fault |-> q.fault]
      /\ q.mem = [p.mem EXCEPT ![a] = w] /\ q.free = p.free /\ q.size = p.size
      /\ q.table = p.table /\ q.count = p.count
  BY TableIsThere
<1>2. Map(p.mem) /\ Tiled(p.mem, p.free) /\ Named(p.mem, p.table, p.count)
  BY DEF PoolOK, Tiled
<1> DEFINE new == q.mem
<1>3. /\ DOMAIN new = DOMAIN p.mem /\ new[a] = w /\ Map(new)
      /\ \A b \in DOMAIN p.mem : b # a => new[b] = p.mem[b]
  BY <1>1, <1>2 DEF Map
<1> HIDE DEF new
<1>4. /\ \A b \in DOMAIN p.mem : new[b].ref = p.mem[b].ref /\ SizeOf(new[b]) = SizeOf(p.mem[b])
      /\ \A b \in DOMAIN p.mem : p.mem[b] \in Block => new[b] \in Block
  BY <1>3
<1>5. Tiled(new, p.free)
  BY <1>2, <1>3, <1>4 DEF Tiled
<1>6. Named(new, p.table, p.count)
  BY <1>2, <1>3, <1>4 DEF Named
<1>7. PoolOK(q)
  BY <1>1, <1>5, <1>6 DEF PoolOK, new
<1>8. \A r : Valid(q, r) <=> Valid(p, r)
  BY <1>1 DEF Valid
<1>9. ASSUME NEW r, Valid(p, r)
      PROVE  Deref(q, r) = IF r = w.ref THEN w ELSE Deref(p, r)
  <2>1. p.table[r] \in DOMAIN p.mem /\ p.mem[p.table[r]].ref = r
    BY <1>2, <1>9 DEF Named, Valid
  <2>2. p.table[w.ref] = a
    BY <1>2 DEF Named
  <2>3. Deref(q, r) = new[p.table[r]]
    BY <1>1 DEF Deref, new
  <2> QED BY <2>1, <2>2, <2>3, <1>3 DEF Deref
<1> QED BY <1>7, <1>8, <1>9

=============================================================================
