------------------------------ MODULE MMProofs ------------------------------
(***************************************************************************)
(* The allocator of module MM is sound for every heap size, CHUNKSIZE and  *)
(* BIG_SIZE and every set of requests, as long as no request crosses the   *)
(* lists: the headers tile the heap, the lists hold the free blocks, the   *)
(* caller's blocks are whole, and the driver's range list accepts every    *)
(* answer.                                                                 *)
(*                                                                         *)
(* The blocks of a heap are a set B of places; r ranks the free blocks so  *)
(* that every list goes down in rank, which stands for the order of the    *)
(* list; X are the blocks in flux, which a helper has taken off a list or  *)
(* not yet put on one.  Kept says that the heap is sound up to X, and      *)
(* every helper has a lemma that takes Kept to Kept: KeptRemove for        *)
(* remove_free, KeptInsert for add_free, KeptSetBlock and KeptSplit for    *)
(* the tags, KeptExtended for mem_sbrk, CoalesceKeeps for coalesce.        *)
(*                                                                         *)
(* The invariant MMInv is: some set of blocks and some ranks make the heap *)
(* sound, and the allocated blocks are the caller's.  Each call is taken   *)
(* apart into the helpers.  The recursive functions of the model, the      *)
(* search of find_fit and the two walks of mm_checkheap, are compared with *)
(* the blocks and the ranks by least counterexamples.                      *)
(***************************************************************************)
EXTENDS MM, DataLemmas, FiniteSetTheorems

\* The lists, and what the header of a block says.
ListNames == {"small", "big"}
Size(h, b) == h.head[b].size
IsFree(h, b) == h.head[b].alloc = FALSE

\* The free, the allocated, and the blocks that belong on list l.
FreeIn(h, B) == {b \in B : IsFree(h, b)}
TakenIn(h, B) == {b \in B : ~IsFree(h, b)}
OnList(h, B, l) == {b \in B : IsFree(h, b) /\ ListFor(Size(h, b)) = l}

\* B are the blocks of h: they begin after the prologue, each starts where one
\* ends, footers repeat headers, and no other word is a tag.
Tiled(h, B) ==
  /\ B \subseteq First..(h.brk - 1)
  /\ First \in B \cup {h.brk}
  /\ \A b \in B :
       /\ Size(h, b) >= MinBlock
       /\ NextBlock(h, b) \in B \cup {h.brk}
       /\ FooterOf(h, b) = h.head[b]
       /\ \A c \in B : ~(b < c /\ c < NextBlock(h, b))
  /\ \A x \in B \cup {h.brk} : x # First => \E a \in B : NextBlock(h, a) = x
  /\ h.head[1] = Tag(1, TRUE) /\ h.foot[First] = Tag(1, TRUE)
  /\ h.head[h.brk] = Tag(0, TRUE)
  /\ \A p \in Addr : p \notin B /\ p # 1 /\ p # h.brk => h.head[p] = JunkTag
  /\ \A p \in Addr : p \notin B /\ p # First /\ p # h.brk => h.foot[p] = JunkTag

\* The list l of h holds the blocks L: each is reached from the one that ranks
\* next above it, and back links undo forward links.
Linked(h, l, L, r) ==
  /\ h.list[l] \in L \cup {NoBlock}
  /\ h.list[l] = NoBlock => L = {}
  /\ \A b \in L :
       /\ h.next[b] \in L \cup {NoBlock}
       /\ h.prev[b] \in L \cup {NoBlock}
       /\ h.prev[b] = NoBlock <=> h.list[l] = b
       /\ h.next[b] # NoBlock => h.prev[h.next[b]] = b /\ r[h.next[b]] < r[b]
       /\ h.prev[b] # NoBlock => h.next[h.prev[b]] = b
       /\ \A c \in L : r[c] < r[b] => h.next[b] # NoBlock /\ r[c] <= r[h.next[b]]
       /\ \A c \in L : r[c] = r[b] => c = b
       /\ r[b] <= r[h.list[l]]

\* Outside M no word is a link.
JunkLinks(h, M) == \A p \in Addr : p \notin M => h.next[p] = Junk /\ h.prev[p] = Junk

\* Of the blocks that are not in X no two neighbours are free.
NoTwoFree(h, B, X) ==
  \A b \in B : LET c == NextBlock(h, b)
               IN b \notin X /\ c \in B \ X /\ IsFree(h, b) => ~IsFree(h, c)

\* The heap is sound, but for the blocks X that are on no list.
Kept(h, B, r, X) ==
  /\ h \in HeapType
  /\ r \in [Addr -> Nat]
  /\ Tiled(h, B)
  /\ \A l \in ListNames : Linked(h, l, OnList(h, B, l) \ X, r)
  /\ JunkLinks(h, FreeIn(h, B) \cup X)

----------------------------------------------------------------------------
\* The words of the heap.
TagType == [size : 0..HeapMax, alloc : BOOLEAN]
LinkType == Addr \cup {Junk}

\* g is h with the block at b written to n units.
Written(h, b, n, a, g) ==
  /\ g \in HeapType /\ g.brk = h.brk /\ g.list = h.list
  /\ g.head[b] = Tag(n, a) /\ g.foot[b + n] = Tag(n, a)
  /\ \A p \in Addr : b < p /\ p < b + n =>
       /\ g.head[p] = JunkTag /\ g.foot[p] = JunkTag
       /\ g.next[p] = Junk /\ g.prev[p] = Junk
  /\ \A p \in Addr : p < b \/ b + n <= p =>
       g.head[p] = h.head[p] /\ g.next[p] = h.next[p] /\ g.prev[p] = h.prev[p]
  /\ \A p \in Addr : p <= b \/ b + n < p => g.foot[p] = h.foot[p]
  /\ g.next[b] = h.next[b] /\ g.prev[b] = h.prev[b]

\* SetBlock writes both tags and clears what lies between them.
LEMMA SetBlockIs ==
  ASSUME NEW h \in HeapType, NEW b \in Addr, NEW n \in 1..HeapMax, b + n \in Addr,
         NEW a \in BOOLEAN
  PROVE  Written(h, b, n, a, SetBlock(h, b, n, a))
<1> DEFINE inside == (b + 1)..(b + n - 1)
<1> DEFINE hd == Put(Put(h.head, inside, JunkTag), {b}, Tag(n, a))
<1> DEFINE ft == Put(Put(h.foot, inside, JunkTag), {b + n}, Tag(n, a))
<1> DEFINE nx == Put(h.next, inside, Junk)
<1> DEFINE pv == Put(h.prev, inside, Junk)
<1> DEFINE g == SetBlock(h, b, n, a)
<1> USE SizeAssumption
<1>1. inside \subseteq Addr /\ {b} \subseteq Addr /\ {b + n} \subseteq Addr
  BY DEF Addr
<1>2. JunkTag \in TagType /\ Tag(n, a) \in TagType /\ Junk \in LinkType
  BY DEF JunkTag, Tag, TagType, LinkType, First
<1>3. /\ h.head \in [Addr -> TagType] /\ h.foot \in [Addr -> TagType]
      /\ h.next \in [Addr -> LinkType] /\ h.prev \in [Addr -> LinkType]
  BY DEF HeapType, TagType, LinkType
<1>4. inside \subseteq Addr /\ {b} \subseteq Addr /\ {b + n} \subseteq Addr
  BY <1>1
<1> DEFINE hd0 == Put(h.head, inside, JunkTag)
<1> DEFINE ft0 == Put(h.foot, inside, JunkTag)
<1> HIDE DEF inside
<1>5. /\ hd0 \in [Addr -> TagType]
      /\ \A p \in Addr : p \in inside => hd0[p] = JunkTag
      /\ \A p \in Addr : p \notin inside => hd0[p] = h.head[p]
  BY <1>2, <1>3, <1>4 DEF Put
<1>6. /\ ft0 \in [Addr -> TagType]
      /\ \A p \in Addr : p \in inside => ft0[p] = JunkTag
      /\ \A p \in Addr : p \notin inside => ft0[p] = h.foot[p]
  BY <1>2, <1>3, <1>4 DEF Put
<1>7. /\ nx \in [Addr -> LinkType] /\ pv \in [Addr -> LinkType]
      /\ \A p \in Addr : p \in inside => nx[p] = Junk /\ pv[p] = Junk
      /\ \A p \in Addr : p \notin inside => nx[p] = h.next[p] /\ pv[p] = h.prev[p]
  BY <1>2, <1>3, <1>4 DEF Put
<1>8. /\ hd \in [Addr -> TagType] /\ ft \in [Addr -> TagType]
      /\ hd[b] = Tag(n, a) /\ ft[b + n] = Tag(n, a)
      /\ \A p \in Addr : p # b => hd[p] = hd0[p]
      /\ \A p \in Addr : p # b + n => ft[p] = ft0[p]
  <2> HIDE DEF hd0, ft0
  <2>1. Put(hd0, {b}, Tag(n, a)) = hd /\ Put(ft0, {b + n}, Tag(n, a)) = ft
    BY DEF hd0, ft0
  <2> QED BY <1>2, <1>4, <1>5, <1>6, <2>1 DEF Put
<1>9. \A p \in Addr : p \in inside <=> b < p /\ p < b + n
  BY DEF Addr, inside
<1>10. g = [h EXCEPT !.head = hd, !.foot = ft, !.next = nx, !.prev = pv]
  BY DEF SetBlock, inside
<1>11. h.brk \in Addr /\ h.list \in [{"small", "big"} -> Addr]
  BY DEF HeapType
<1> HIDE DEF hd0, ft0, hd, ft, nx, pv, g
<1>12. /\ g.head = hd /\ g.foot = ft /\ g.next = nx /\ g.prev = pv
       /\ g.brk = h.brk /\ g.list = h.list /\ g \in HeapType
  BY <1>7, <1>8, <1>10, <1>11 DEF HeapType, TagType, LinkType
<1>13. \A p \in Addr : p \in Int
  BY DEF Addr
<1>14. Written(h, b, n, a, g)
  <2> USE DEF Written
  <2>1. \A p \in Addr : b < p /\ p < b + n =>
          /\ g.head[p] = JunkTag /\ g.foot[p] = JunkTag
          /\ g.next[p] = Junk /\ g.prev[p] = Junk
    BY <1>5, <1>6, <1>7, <1>8, <1>9, <1>12, <1>13
  <2>2. \A p \in Addr : p < b \/ b + n <= p =>
          g.head[p] = h.head[p] /\ g.next[p] = h.next[p] /\ g.prev[p] = h.prev[p]
    BY <1>5, <1>6, <1>7, <1>8, <1>9, <1>12, <1>13
  <2>3. \A p \in Addr : p <= b \/ b + n < p => g.foot[p] = h.foot[p]
    BY <1>5, <1>6, <1>7, <1>8, <1>9, <1>12, <1>13
  <2>4. g.next[b] = h.next[b] /\ g.prev[b] = h.prev[b]
    BY <1>7, <1>9, <1>12, <1>13
  <2> QED BY <2>1, <2>2, <2>3, <2>4, <1>8, <1>12
<1> QED BY <1>14 DEF g

\* g is h with b put at the head of list l.
Inserted(h, b, l, g) ==
  /\ g \in HeapType
  /\ g.head = h.head /\ g.foot = h.foot /\ g.brk = h.brk
  /\ g.list[l] = b /\ \A k \in ListNames : k # l => g.list[k] = h.list[k]
  /\ g.next[b] = h.list[l] /\ \A p \in Addr : p # b => g.next[p] = h.next[p]
  /\ g.prev[b] = NoBlock
  /\ \A p \in Addr : p # b /\ p # NoBlock /\ p = h.list[l] => g.prev[p] = b
  /\ \A p \in Addr : p # b /\ (p = NoBlock \/ p # h.list[l]) => g.prev[p] = h.prev[p]

\* A size calls for one of the two lists.
LEMMA ListForName ==
  ASSUME NEW n PROVE ListFor(n) \in ListNames
BY DEF ListFor, ListNames

\* InsertFree puts the block first.
LEMMA InsertFreeIs ==
  ASSUME NEW h \in HeapType, NEW b \in Addr, NEW n
  PROVE  Inserted(h, b, ListFor(n), InsertFree(h, b, n))
<1> DEFINE l == ListFor(n)
<1> DEFINE first == h.list[l]
<1> DEFINE front == {first} \ {NoBlock}
<1> DEFINE nx == [h.next EXCEPT ![b] = first]
<1> DEFINE pv0 == Put(h.prev, front, b)
<1> DEFINE pv == Put(pv0, {b}, NoBlock)
<1> DEFINE ls == [h.list EXCEPT ![l] = b]
<1> DEFINE g == InsertFree(h, b, n)
<1>1. l \in ListNames
  BY ListForName
<1>2. /\ h.next \in [Addr -> LinkType] /\ h.prev \in [Addr -> LinkType]
      /\ h.list \in [ListNames -> Addr] /\ h.brk \in Addr
      /\ h.head \in [Addr -> TagType] /\ h.foot \in [Addr -> TagType]
  BY DEF HeapType, TagType, LinkType, ListNames
<1>3. b \in LinkType /\ NoBlock \in LinkType /\ first \in Addr /\ first \in LinkType
      /\ NoBlock \in Addr
  BY <1>1, <1>2, SizeAssumption DEF LinkType, NoBlock, Addr
<1>4. g = [h EXCEPT !.list = ls, !.next = nx, !.prev = pv]
  BY DEF InsertFree
<1> HIDE DEF l, g
<1>5. /\ ls \in [ListNames -> Addr] /\ ls[l] = b
      /\ \A k \in ListNames : k # l => ls[k] = h.list[k]
  BY <1>1, <1>2
<1>6. /\ nx \in [Addr -> LinkType] /\ nx[b] = h.list[l]
      /\ \A p \in Addr : p # b => nx[p] = h.next[p]
  BY <1>2, <1>3
<1>7. front \subseteq Addr
  BY <1>3
<1>8. \A p : p \in front <=> p # NoBlock /\ p = h.list[l]
  OBVIOUS
<1>9. pv0 \in [Addr -> LinkType] /\ (\A p \in Addr : p \in front => pv0[p] = b)
      /\ \A p \in Addr : p \notin front => pv0[p] = h.prev[p]
  <2> HIDE DEF front, first
  <2> QED BY <1>2, <1>3, <1>7 DEF Put
<1>10. pv \in [Addr -> LinkType] /\ pv[b] = NoBlock
       /\ \A p \in Addr : p # b => pv[p] = pv0[p]
  <2> HIDE DEF pv0
  <2> QED BY <1>3, <1>9 DEF Put
<1> HIDE DEF ls, nx, pv, pv0, first, front
<1>11. /\ g.head = h.head /\ g.foot = h.foot /\ g.brk = h.brk
       /\ g.list = ls /\ g.next = nx /\ g.prev = pv /\ g \in HeapType
  BY <1>2, <1>4, <1>5, <1>6, <1>10 DEF HeapType, TagType, LinkType, ListNames
<1>12. Inserted(h, b, l, g)
  BY <1>5, <1>6, <1>8, <1>9, <1>10, <1>11 DEF Inserted
<1> QED BY <1>12 DEF l, g

\* g is h with b taken off list l.
Removed(h, b, l, g) ==
  /\ g \in HeapType
  /\ g.head = h.head /\ g.foot = h.foot /\ g.brk = h.brk
  /\ g.list[l] = IF h.prev[b] = NoBlock THEN h.next[b] ELSE h.list[l]
  /\ \A k \in ListNames : k # l => g.list[k] = h.list[k]
  /\ \A p \in Addr : g.next[p] = IF p # NoBlock /\ p = h.prev[b] THEN h.next[b]
                                 ELSE h.next[p]
  /\ \A p \in Addr : g.prev[p] = IF p # NoBlock /\ p = h.next[b] THEN h.prev[b]
                                 ELSE h.prev[p]

\* RemoveFree closes the gap on the list that the header calls for.
LEMMA RemoveFreeIs ==
  ASSUME NEW h \in HeapType, NEW b \in Addr, h.next[b] \in Addr, h.prev[b] \in Addr,
         NEW l, l = ListFor(Size(h, b)), h.list[l] # NoBlock
  PROVE  Removed(h, b, l, RemoveFree(h, b))
<1> DEFINE p == h.prev[b]
<1> DEFINE n == h.next[b]
<1> DEFINE ls == [h.list EXCEPT ![l] = IF p = NoBlock THEN n ELSE h.list[l]]
<1> DEFINE nx == IF p = NoBlock THEN h.next ELSE [h.next EXCEPT ![p] = n]
<1> DEFINE pv == IF n = NoBlock THEN h.prev ELSE [h.prev EXCEPT ![n] = p]
<1> DEFINE g == RemoveFree(h, b)
<1>1. l \in ListNames
  BY ListForName
<1>2. /\ h.next \in [Addr -> LinkType] /\ h.prev \in [Addr -> LinkType]
      /\ h.list \in [ListNames -> Addr] /\ h.brk \in Addr
      /\ h.head \in [Addr -> TagType] /\ h.foot \in [Addr -> TagType]
  BY DEF HeapType, TagType, LinkType, ListNames
<1>3. p \in Addr /\ n \in Addr /\ p \in LinkType /\ n \in LinkType
  BY DEF LinkType
<1>4. g = [h EXCEPT !.list = ls, !.next = nx, !.prev = pv]
  BY DEF RemoveFree, Size
<1> HIDE DEF g
<1>5. /\ ls \in [ListNames -> Addr] /\ ls[l] = IF p = NoBlock THEN n ELSE h.list[l]
      /\ \A k \in ListNames : k # l => ls[k] = h.list[k]
  <2> HIDE DEF p, n
  <2> QED BY <1>1, <1>2, <1>3
<1>6. nx \in [Addr -> LinkType]
      /\ \A q \in Addr : nx[q] = IF q # NoBlock /\ q = p THEN n ELSE h.next[q]
  <2> HIDE DEF p, n
  <2> QED BY <1>2, <1>3
<1>7. pv \in [Addr -> LinkType]
      /\ \A q \in Addr : pv[q] = IF q # NoBlock /\ q = n THEN p ELSE h.prev[q]
  <2> HIDE DEF p, n
  <2> QED BY <1>2, <1>3
<1> HIDE DEF ls, nx, pv
<1>8. /\ g.head = h.head /\ g.foot = h.foot /\ g.brk = h.brk
      /\ g.list = ls /\ g.next = nx /\ g.prev = pv /\ g \in HeapType
  BY <1>2, <1>4, <1>5, <1>6, <1>7 DEF HeapType, TagType, LinkType, ListNames
<1>9. Removed(h, b, l, g)
  BY <1>5, <1>6, <1>7, <1>8 DEF Removed
<1> QED BY <1>9 DEF g

----------------------------------------------------------------------------
\* What a list is, for its conjuncts to be cited.
LEMMA LinkedFacts ==
  ASSUME NEW h, NEW l, NEW L, NEW r, Linked(h, l, L, r)
  PROVE  /\ h.list[l] \in L \cup {NoBlock}
         /\ h.list[l] = NoBlock => L = {}
         /\ \A b \in L :
              /\ h.next[b] \in L \cup {NoBlock}
              /\ h.prev[b] \in L \cup {NoBlock}
              /\ h.prev[b] = NoBlock <=> h.list[l] = b
              /\ h.next[b] # NoBlock => h.prev[h.next[b]] = b /\ r[h.next[b]] < r[b]
              /\ h.prev[b] # NoBlock => h.next[h.prev[b]] = b
              /\ \A c \in L : r[c] < r[b] => h.next[b] # NoBlock /\ r[c] <= r[h.next[b]]
              /\ \A c \in L : r[c] = r[b] => c = b
              /\ r[b] <= r[h.list[l]]
BY DEF Linked

\* The rank that b gets at the head of list l.
Above(h, l, r, b) ==
  [r EXCEPT ![b] = IF h.list[l] = NoBlock THEN 0 ELSE r[h.list[l]] + 1]

\* A list with a block more.
LEMMA LinkedInsert ==
  ASSUME NEW h \in HeapType, NEW g, NEW b \in Addr \ {NoBlock}, NEW l \in ListNames,
         NEW L \in SUBSET (Addr \ {NoBlock}), b \notin L,
         NEW r \in [Addr -> Nat], Linked(h, l, L, r), Inserted(h, b, l, g)
  PROVE  Linked(g, l, L \cup {b}, Above(h, l, r, b))
<1> DEFINE f == h.list[l]
<1> DEFINE s == Above(h, l, r, b)
<1>1. f \in Addr /\ f # b /\ (f # NoBlock => f \in L)
  <2>1. f \in L \cup {NoBlock}
    BY LinkedFacts
  <2>2. NoBlock \in Addr
    BY SizeAssumption DEF NoBlock, Addr
  <2> QED BY <2>1, <2>2
<1>2. s[b] = (IF f = NoBlock THEN 0 ELSE r[f] + 1) /\ \A c \in L : s[c] = r[c]
  BY DEF Above
<1>3. g.list[l] = b /\ g.next[b] = f /\ g.prev[b] = NoBlock
  BY DEF Inserted
<1>4. \A c \in L : g.next[c] = h.next[c]
  BY DEF Inserted
<1>5. \A c \in L : g.prev[c] = IF c = f THEN b ELSE h.prev[c]
  BY DEF Inserted
<1>6. \A c \in L : r[c] \in Nat /\ f # NoBlock /\ r[f] \in Nat /\ r[c] <= r[f]
  BY LinkedFacts
<1>7. \A c \in L : s[c] < s[b] /\ s[c] \in Nat /\ s[b] \in Nat /\ c # b /\ c # NoBlock
  <2> HIDE DEF s, f
  <2> QED BY <1>2, <1>6
<1> HIDE DEF s, f
<1>8. \A c \in L :
        /\ g.next[c] \in L \cup {NoBlock}
        /\ g.prev[c] \in (L \cup {b}) \cup {NoBlock}
        /\ ~(g.prev[c] = NoBlock)
        /\ g.next[c] # NoBlock => g.prev[g.next[c]] = c /\ s[g.next[c]] < s[c]
        /\ g.next[g.prev[c]] = c
        /\ \A d \in L : s[d] < s[c] => g.next[c] # NoBlock /\ s[d] <= s[g.next[c]]
        /\ \A d \in L : s[d] = s[c] => d = c
  <2> TAKE c \in L
  <2>1. /\ h.next[c] \in L \cup {NoBlock}
        /\ h.prev[c] \in L \cup {NoBlock}
        /\ h.prev[c] = NoBlock <=> f = c
        /\ h.next[c] # NoBlock => h.prev[h.next[c]] = c /\ r[h.next[c]] < r[c]
        /\ h.prev[c] # NoBlock => h.next[h.prev[c]] = c
        /\ \A d \in L : r[d] < r[c] => h.next[c] # NoBlock /\ r[d] <= r[h.next[c]]
        /\ \A d \in L : r[d] = r[c] => d = c
    BY LinkedFacts DEF f
  <2>2. g.next[c] # NoBlock => g.next[c] # f
    <3> SUFFICES ASSUME h.next[c] # NoBlock, h.next[c] = f PROVE FALSE
      BY <1>4
    <3>1. h.prev[f] = c /\ f \in L
      BY <2>1
    <3>2. h.prev[f] = NoBlock
      BY <3>1, LinkedFacts DEF f
    <3> QED BY <3>1, <3>2
  <2>3. g.next[c] # NoBlock => g.prev[g.next[c]] = c
    BY <1>4, <1>5, <2>1, <2>2
  <2>4. g.next[g.prev[c]] = c
    BY <1>3, <1>4, <1>5, <2>1
  <2>5. ~(g.prev[c] = NoBlock) /\ g.prev[c] \in (L \cup {b}) \cup {NoBlock}
    BY <1>5, <2>1
  <2> QED BY <1>2, <1>4, <2>1, <2>3, <2>4, <2>5
<1>9. f # NoBlock => g.prev[f] = b /\ s[f] < s[b]
  BY <1>1, <1>5, <1>7
<1>10. \A c \in L : f # NoBlock /\ s[c] <= s[f]
  BY <1>2, <1>6, <1>1
<1>11. g.list[l] = b
  BY <1>3
<1> DEFINE M == L \cup {b}
<1>12. \A c \in M :
         /\ g.next[c] \in M \cup {NoBlock}
         /\ g.prev[c] \in M \cup {NoBlock}
         /\ g.prev[c] = NoBlock <=> g.list[l] = c
         /\ g.next[c] # NoBlock => g.prev[g.next[c]] = c /\ s[g.next[c]] < s[c]
         /\ g.prev[c] # NoBlock => g.next[g.prev[c]] = c
  BY <1>1, <1>3, <1>7, <1>8, <1>9
<1>13. \A c, d \in M : s[d] < s[c] => g.next[c] # NoBlock /\ s[d] <= s[g.next[c]]
  <2> SUFFICES ASSUME NEW c \in M, NEW d \in M, s[d] < s[c]
               PROVE  g.next[c] # NoBlock /\ s[d] <= s[g.next[c]]
    OBVIOUS
  <2>1. d \in L
    <3> SUFFICES ASSUME d = b, c \in L PROVE FALSE
      BY <1>2, <1>1
    <3>1. s[c] < s[b] /\ s[c] \in Nat /\ s[b] \in Nat
      BY <1>7
    <3> QED BY <3>1
  <2>2. CASE c \in L
    BY <2>1, <2>2, <1>8
  <2>3. CASE c = b
    BY <2>1, <2>3, <1>3, <1>10
  <2> QED BY <2>2, <2>3
<1>14. \A c, d \in M : s[d] = s[c] => d = c
  BY <1>7, <1>8
<1>15. \A c \in M : s[c] <= s[b]
  <2> TAKE c \in M
  <2>1. CASE c \in L
    BY <2>1, <1>7
  <2>2. CASE c = b
    <3>1. s[b] \in Nat
      BY <1>2, <1>1
    <3> QED BY <2>2, <3>1
  <2> QED BY <2>1, <2>2
<1>16. b # NoBlock
  OBVIOUS
<1> QED BY <1>3, <1>12, <1>13, <1>14, <1>15, <1>16 DEF Linked, s

\* Lists that a change does not touch.
LEMMA LinkedFrame ==
  ASSUME NEW h, NEW g, NEW l, NEW L, NEW r, NEW s, Linked(h, l, L, r),
         g.list[l] = h.list[l],
         \A c \in L : g.next[c] = h.next[c] /\ g.prev[c] = h.prev[c] /\ s[c] = r[c]
  PROVE  Linked(g, l, L, s)
<1>1. h.list[l] \in L \cup {NoBlock} /\ (L # {} => h.list[l] \in L)
  BY LinkedFacts
<1>2. \A b \in L : h.next[b] \in L \cup {NoBlock} /\ h.prev[b] \in L \cup {NoBlock}
  BY LinkedFacts
<1>3. \A b \in L : h.next[b] # NoBlock => s[h.next[b]] = r[h.next[b]] /\ g.prev[h.next[b]] = h.prev[h.next[b]]
  BY <1>2
<1>4. \A b \in L : h.prev[b] # NoBlock => g.next[h.prev[b]] = h.next[h.prev[b]]
  BY <1>2
<1>5. \A b \in L : s[h.list[l]] = r[h.list[l]]
  BY <1>1
<1> QED BY <1>1, <1>2, <1>3, <1>4, <1>5 DEF Linked

\* A list with a block less.
LEMMA LinkedRemove ==
  ASSUME NEW h \in HeapType, NEW g, NEW b, NEW l \in ListNames,
         NEW L \in SUBSET (Addr \ {NoBlock}), b \in L,
         NEW r \in [Addr -> Nat], Linked(h, l, L, r), Removed(h, b, l, g)
  PROVE  Linked(g, l, L \ {b}, r)
<1> DEFINE p == h.prev[b]
<1> DEFINE n == h.next[b]
<1> DEFINE M == L \ {b}
<1> DEFINE f == h.list[l]
<1>1. \A c \in L :
        /\ h.next[c] \in L \cup {NoBlock}
        /\ h.prev[c] \in L \cup {NoBlock}
        /\ h.prev[c] = NoBlock <=> f = c
        /\ h.next[c] # NoBlock => h.prev[h.next[c]] = c /\ r[h.next[c]] < r[c]
        /\ h.prev[c] # NoBlock => h.next[h.prev[c]] = c
  BY LinkedFacts
<1>2. \A c, d \in L : r[d] < r[c] => h.next[c] # NoBlock /\ r[d] <= r[h.next[c]]
  BY LinkedFacts
<1>3. \A c, d \in L : r[d] = r[c] => d = c
  BY LinkedFacts
<1>4. \A c \in L : r[c] <= r[f]
  BY LinkedFacts
<1>5. \A c \in L : c \in Addr /\ c # NoBlock /\ r[c] \in Nat
  OBVIOUS
<1>6. f \in L
  BY LinkedFacts
<1>7. \A c \in L : g.next[c] = IF c = p THEN n ELSE h.next[c]
  BY <1>5 DEF Removed
<1>8. \A c \in L : g.prev[c] = IF c = n THEN p ELSE h.prev[c]
  BY <1>5 DEF Removed
<1>9. g.list[l] = IF p = NoBlock THEN n ELSE f
  BY DEF Removed
<1>10. /\ p \in L \cup {NoBlock} /\ n \in L \cup {NoBlock}
       /\ p # NoBlock => h.next[p] = b /\ r[b] < r[p]
       /\ n # NoBlock => h.prev[n] = b /\ r[n] < r[b]
       /\ p = NoBlock <=> f = b
  <2>1. p # NoBlock => h.next[p] = b
    BY <1>1
  <2>2. p # NoBlock => r[b] < r[p]
    BY <1>1, <1>5, <2>1
  <2> QED BY <1>1, <2>1, <2>2
<1>11. p # b /\ n # b
  BY <1>5, <1>10
<1> HIDE DEF p, n, f
<1>12. \A c \in M :
         /\ c # p => h.next[c] # b
         /\ c # n => h.prev[c] # b
  BY <1>1, <1>5, <1>10 DEF p, n
<1>13. \A c \in M : g.next[c] \in M \cup {NoBlock} /\ g.prev[c] \in M \cup {NoBlock}
  BY <1>1, <1>7, <1>8, <1>10, <1>11, <1>12
<1>14. g.list[l] \in M \cup {NoBlock}
  BY <1>6, <1>9, <1>10, <1>11
<1>15. p = NoBlock /\ n = NoBlock => M = {}
  <2> SUFFICES ASSUME p = NoBlock, n = NoBlock, NEW c \in M PROVE FALSE
    OBVIOUS
  <2>1. r[c] < r[b]
    BY <1>3, <1>4, <1>5, <1>10
  <2> QED BY <1>2, <2>1 DEF n
<1>16. g.list[l] = NoBlock => M = {}
  BY <1>5, <1>6, <1>9, <1>15
<1>17. \A c \in M : g.prev[c] = NoBlock <=> g.list[l] = c
  BY <1>1, <1>5, <1>6, <1>7, <1>8, <1>9, <1>10, <1>11
<1>18. \A c \in M : g.next[c] # NoBlock => g.prev[g.next[c]] = c
  BY <1>1, <1>5, <1>7, <1>8, <1>10, <1>11, <1>12, <1>13
<1>19. \A c \in M : g.next[c] # NoBlock => r[g.next[c]] < r[c]
  BY <1>1, <1>5, <1>7, <1>10, <1>11, <1>13
<1>20. \A c \in M : g.prev[c] # NoBlock => g.next[g.prev[c]] = c
  BY <1>1, <1>5, <1>7, <1>8, <1>10, <1>11, <1>12, <1>13
<1>21. \A c, d \in M : r[d] < r[c] => g.next[c] # NoBlock /\ r[d] <= r[g.next[c]]
  <2> SUFFICES ASSUME NEW c \in M, NEW d \in M, r[d] < r[c]
               PROVE  g.next[c] # NoBlock /\ r[d] <= r[g.next[c]]
    OBVIOUS
  <2>1. h.next[c] # NoBlock /\ r[d] <= r[h.next[c]]
    BY <1>2
  <2>2. CASE c # p
    BY <2>1, <2>2, <1>7
  <2>3. CASE c = p
    <3>1. h.next[c] = b /\ r[d] <= r[b] /\ d # b /\ d \in L
      BY <2>1, <2>3, <1>5, <1>10
    <3>2. r[d] < r[b]
      BY <3>1, <1>3, <1>5
    <3>3. n # NoBlock /\ r[d] <= r[n]
      BY <3>1, <3>2, <1>2 DEF n
    <3> QED BY <2>3, <3>3, <1>7
  <2> QED BY <2>2, <2>3
<1>22. \A c \in M : r[c] <= r[g.list[l]]
  <2> SUFFICES ASSUME NEW c \in M PROVE r[c] <= r[g.list[l]]
    OBVIOUS
  <2>1. CASE p # NoBlock
    BY <2>1, <1>4, <1>9
  <2>2. CASE p = NoBlock
    <3>1. r[c] < r[b]
      BY <2>2, <1>3, <1>4, <1>5, <1>10
    <3>2. n # NoBlock /\ r[c] <= r[n]
      BY <3>1, <1>2 DEF n
    <3> QED BY <2>2, <3>2, <1>9
  <2> QED BY <2>1, <2>2
<1> QED BY <1>3, <1>13, <1>14, <1>16, <1>17, <1>18, <1>19, <1>20, <1>21, <1>22 DEF Linked

----------------------------------------------------------------------------
\* Where blocks can be.
LEMMA TiledPlaces ==
  ASSUME NEW h \in HeapType, NEW B, Tiled(h, B)
  PROVE  /\ B \subseteq Addr \ {NoBlock} /\ h.brk \in Addr /\ h.brk >= First
         /\ NoBlock \in Addr /\ 1 \in Addr /\ First \in Addr
         /\ \A b \in B : b >= First /\ b < h.brk /\ b \in Int
<1>1. h.brk \in Addr
  BY DEF HeapType
<1>2. \A b \in B : b \in First..(h.brk - 1)
  BY DEF Tiled
<1>3. First \in B \cup {h.brk}
  BY DEF Tiled
<1>4. h.brk >= First
  BY <1>1, <1>2, <1>3 DEF Addr, First
<1>5. 1 \in Addr /\ First \in Addr /\ NoBlock \in Addr
  BY SizeAssumption DEF Addr, First, NoBlock
<1>6. \A b \in B : b \in Addr /\ b # NoBlock /\ b >= First /\ b < h.brk /\ b \in Int
  <2>1. h.brk \in Int /\ h.brk <= HeapMax /\ HeapMax \in Int
    BY <1>1, SizeAssumption DEF Addr
  <2> QED BY <1>2, <2>1 DEF Addr, First, NoBlock
<1> QED BY <1>1, <1>4, <1>5, <1>6

\* g differs from h in its lists only.
SameTags(h, g) == g.head = h.head /\ g.foot = h.foot /\ g.brk = h.brk

\* Then their blocks are the same.
LEMMA TagsFrame ==
  ASSUME NEW h, NEW g, NEW B, SameTags(h, g)
  PROVE  /\ Tiled(h, B) => Tiled(g, B)
         /\ FreeIn(g, B) = FreeIn(h, B) /\ TakenIn(g, B) = TakenIn(h, B)
         /\ \A l : OnList(g, B, l) = OnList(h, B, l)
         /\ \A b : Size(g, b) = Size(h, b) /\ (IsFree(g, b) <=> IsFree(h, b))
                   /\ NextBlock(g, b) = NextBlock(h, b)
         /\ \A X : NoTwoFree(h, B, X) => NoTwoFree(g, B, X)
<1> USE DEF SameTags
<1>1. \A b : Size(g, b) = Size(h, b) /\ (IsFree(g, b) <=> IsFree(h, b))
             /\ NextBlock(g, b) = NextBlock(h, b)
             /\ FooterOf(g, b) = FooterOf(h, b)
  BY DEF Size, IsFree, NextBlock, FooterOf
<1>2. Tiled(h, B) => Tiled(g, B)
  BY <1>1 DEF Tiled
<1>3. FreeIn(g, B) = FreeIn(h, B) /\ TakenIn(g, B) = TakenIn(h, B)
  BY <1>1 DEF FreeIn, TakenIn
<1>4. \A l : OnList(g, B, l) = OnList(h, B, l)
  BY <1>1 DEF OnList
<1>5. \A X : NoTwoFree(h, B, X) => NoTwoFree(g, B, X)
  BY <1>1 DEF NoTwoFree
<1> QED BY <1>1, <1>2, <1>3, <1>4, <1>5

\* remove_free: the block is in flux.
LEMMA KeptRemove ==
  ASSUME NEW h, NEW B, NEW r, NEW X, Kept(h, B, r, X),
         NEW a \in FreeIn(h, B), a \notin X
  PROVE  /\ Kept(RemoveFree(h, a), B, r, X \cup {a})
         /\ SameTags(h, RemoveFree(h, a))
<1> DEFINE g == RemoveFree(h, a)
<1> DEFINE l == ListFor(Size(h, a))
<1> DEFINE L == OnList(h, B, l) \ X
<1>1. /\ h \in HeapType /\ r \in [Addr -> Nat] /\ Tiled(h, B)
      /\ \A k \in ListNames : Linked(h, k, OnList(h, B, k) \ X, r)
      /\ JunkLinks(h, FreeIn(h, B) \cup X)
  BY DEF Kept
<1>2. B \subseteq Addr \ {NoBlock} /\ NoBlock \in Addr
  BY <1>1, TiledPlaces
<1>3. l \in ListNames
  BY ListForName
<1>4. a \in L /\ L \subseteq Addr \ {NoBlock}
  BY <1>2 DEF FreeIn, OnList
<1>5. Linked(h, l, L, r)
  BY <1>1, <1>3
<1>6. h.next[a] \in L \cup {NoBlock} /\ h.prev[a] \in L \cup {NoBlock}
  BY <1>4, <1>5, LinkedFacts
<1>7. h.list[l] # NoBlock
  BY <1>4, <1>5, LinkedFacts
<1>8. Removed(h, a, l, g)
  BY <1>1, <1>2, <1>4, <1>6, <1>7, RemoveFreeIs
<1> HIDE DEF g, L
<1>9. Linked(g, l, L \ {a}, r)
  BY <1>1, <1>3, <1>4, <1>5, <1>8, LinkedRemove
<1>10. SameTags(h, g) /\ g \in HeapType
  BY <1>8 DEF Removed, SameTags
<1>11. \A k \in ListNames : Linked(g, k, OnList(g, B, k) \ (X \cup {a}), r)
  <2> TAKE k \in ListNames
  <2>1. OnList(g, B, k) = OnList(h, B, k)
    BY <1>10, TagsFrame
  <2>2. CASE k = l
    BY <1>9, <2>1, <2>2 DEF L
  <2>3. CASE k # l
    <3> DEFINE K == OnList(h, B, k) \ X
    <3>1. Linked(h, k, K, r)
      BY <1>1
    <3>2. \A c \in K : c \notin L /\ c # a /\ c \in Addr /\ c # NoBlock
      BY <1>2, <1>4, <2>3 DEF L, OnList
    <3>3. OnList(g, B, k) \ (X \cup {a}) = K
      BY <2>1, <3>2
    <3> HIDE DEF K, l
    <3>4. \A c \in K : g.next[c] = h.next[c] /\ g.prev[c] = h.prev[c] /\ r[c] = r[c]
      BY <1>6, <1>8, <3>2 DEF Removed
    <3>5. g.list[k] = h.list[k]
      BY <1>8, <2>3 DEF Removed
    <3>6. Linked(g, k, K, r)
      BY <3>1, <3>4, <3>5, LinkedFrame
    <3> QED BY <3>3, <3>6
  <2> QED BY <2>2, <2>3
<1>12. JunkLinks(g, FreeIn(g, B) \cup (X \cup {a}))
  <2>1. FreeIn(g, B) = FreeIn(h, B)
    BY <1>10, TagsFrame
  <2>2. L \subseteq FreeIn(h, B)
    BY DEF L, OnList, FreeIn
  <2> SUFFICES ASSUME NEW p \in Addr, p \notin FreeIn(h, B) \cup (X \cup {a})
               PROVE  g.next[p] = Junk /\ g.prev[p] = Junk
    BY <2>1 DEF JunkLinks
  <2>3. g.next[p] = h.next[p] /\ g.prev[p] = h.prev[p]
    BY <1>6, <1>8, <2>2 DEF Removed
  <2> QED BY <1>1, <2>3 DEF JunkLinks
<1>13. Tiled(g, B)
  BY <1>1, <1>10, TagsFrame
<1>14. Kept(g, B, r, X \cup {a})
  BY <1>1, <1>10, <1>11, <1>12, <1>13 DEF Kept
<1> QED BY <1>10, <1>14 DEF g

\* add_free: it no longer is.
LEMMA KeptInsert ==
  ASSUME NEW h, NEW B, NEW r, NEW X, Kept(h, B, r, X),
         NEW a \in FreeIn(h, B), a \in X
  PROVE  /\ \E s : Kept(InsertFree(h, a, Size(h, a)), B, s, X \ {a})
         /\ SameTags(h, InsertFree(h, a, Size(h, a)))
<1> DEFINE g == InsertFree(h, a, Size(h, a))
<1> DEFINE l == ListFor(Size(h, a))
<1> DEFINE L == OnList(h, B, l) \ X
<1> DEFINE s == Above(h, l, r, a)
<1>1. /\ h \in HeapType /\ r \in [Addr -> Nat] /\ Tiled(h, B)
      /\ \A k \in ListNames : Linked(h, k, OnList(h, B, k) \ X, r)
      /\ JunkLinks(h, FreeIn(h, B) \cup X)
  BY DEF Kept
<1>2. B \subseteq Addr \ {NoBlock} /\ NoBlock \in Addr
  BY <1>1, TiledPlaces
<1>3. l \in ListNames
  BY ListForName
<1>4. a \notin L /\ L \subseteq Addr \ {NoBlock} /\ a \in Addr \ {NoBlock} /\ a \in B
  BY <1>2 DEF FreeIn, OnList
<1>5. Linked(h, l, L, r)
  BY <1>1, <1>3
<1>6. Inserted(h, a, l, g)
  BY <1>1, <1>4, InsertFreeIs
<1>7. h.list[l] \in L \cup {NoBlock}
  BY <1>5, LinkedFacts
<1>8. s \in [Addr -> Nat] /\ \A c \in Addr : c # a => s[c] = r[c]
  <2>1. h.list[l] \in Addr
    BY <1>2, <1>4, <1>7
  <2>2. r[h.list[l]] + 1 \in Nat
    BY <1>1, <2>1
  <2> QED BY <1>1, <1>4, <2>2 DEF Above
<1> HIDE DEF g, L
<1>9. Linked(g, l, L \cup {a}, s)
  <2> HIDE DEF l
  <2> QED BY <1>1, <1>3, <1>4, <1>5, <1>6, LinkedInsert
<1> HIDE DEF s
<1>10. SameTags(h, g) /\ g \in HeapType
  BY <1>6 DEF Inserted, SameTags
<1>11. \A k \in ListNames : Linked(g, k, OnList(g, B, k) \ (X \ {a}), s)
  <2> TAKE k \in ListNames
  <2>1. OnList(g, B, k) = OnList(h, B, k)
    BY <1>10, TagsFrame
  <2>2. CASE k = l
    <3>1. a \in OnList(h, B, l)
      BY DEF OnList, FreeIn
    <3>2. OnList(h, B, l) \ (X \ {a}) = L \cup {a}
      BY <3>1 DEF L
    <3> QED BY <1>9, <2>1, <2>2, <3>2
  <2>3. CASE k # l
    <3> DEFINE K == OnList(h, B, k) \ X
    <3>1. Linked(h, k, K, r)
      BY <1>1
    <3>2. a \notin OnList(h, B, k)
      BY <2>3 DEF OnList
    <3>3. \A c \in K : c \notin L /\ c # a /\ c \in Addr /\ c # NoBlock
      BY <1>2, <2>3, <3>2 DEF L, OnList
    <3>4. OnList(g, B, k) \ (X \ {a}) = K
      BY <2>1, <3>2
    <3> HIDE DEF K, l
    <3>5. \A c \in K : g.next[c] = h.next[c] /\ g.prev[c] = h.prev[c] /\ s[c] = r[c]
      BY <1>6, <1>7, <1>8, <3>3 DEF Inserted
    <3>6. g.list[k] = h.list[k]
      BY <1>6, <2>3 DEF Inserted
    <3>7. Linked(g, k, K, s)
      BY <3>1, <3>5, <3>6, LinkedFrame
    <3> QED BY <3>4, <3>7
  <2> QED BY <2>2, <2>3
<1>12. JunkLinks(g, FreeIn(g, B) \cup (X \ {a}))
  <2>1. FreeIn(g, B) = FreeIn(h, B)
    BY <1>10, TagsFrame
  <2>2. L \subseteq FreeIn(h, B)
    BY DEF L, OnList, FreeIn
  <2> SUFFICES ASSUME NEW p \in Addr, p \notin FreeIn(h, B) \cup (X \ {a})
               PROVE  g.next[p] = Junk /\ g.prev[p] = Junk
    BY <2>1 DEF JunkLinks
  <2>3. p # a /\ p \notin FreeIn(h, B) \cup X
    OBVIOUS
  <2>4. g.next[p] = h.next[p] /\ g.prev[p] = h.prev[p]
    BY <1>6, <1>7, <2>2, <2>3 DEF Inserted
  <2> QED BY <1>1, <2>3, <2>4 DEF JunkLinks
<1>13. Tiled(g, B)
  BY <1>1, <1>10, TagsFrame
<1>14. Kept(g, B, s, X \ {a})
  BY <1>8, <1>10, <1>11, <1>12, <1>13 DEF Kept
<1> QED BY <1>10, <1>14 DEF g

----------------------------------------------------------------------------
\* The order of the blocks: none reaches beyond the next.
LEMMA TiledOrder ==
  ASSUME NEW h \in HeapType, NEW B, Tiled(h, B)
  PROVE  /\ \A b \in B : /\ Size(h, b) \in Nat /\ Size(h, b) >= 3
                         /\ NextBlock(h, b) = b + Size(h, b)
                         /\ NextBlock(h, b) \in B \cup {h.brk}
                         /\ NextBlock(h, b) \in Addr
                         /\ NextBlock(h, b) <= h.brk
                         /\ h.head[b] = Tag(Size(h, b), h.head[b].alloc)
                         /\ h.head[b].alloc \in BOOLEAN
                         /\ h.foot[NextBlock(h, b)] = h.head[b]
         /\ \A b \in B : \A x \in B \cup {h.brk} : b < x => NextBlock(h, b) <= x
<1>1. /\ B \subseteq Addr \ {NoBlock} /\ h.brk \in Addr /\ h.brk >= First
      /\ \A b \in B : b >= First /\ b < h.brk /\ b \in Int
  BY TiledPlaces
<1>2. \A b \in Addr : Size(h, b) \in 0..HeapMax /\ h.head[b] \in TagType
  BY DEF HeapType, TagType, Size
<1>3. \A b \in B : /\ Size(h, b) >= 3 /\ NextBlock(h, b) \in B \cup {h.brk}
                   /\ FooterOf(h, b) = h.head[b]
                   /\ \A c \in B : ~(b < c /\ c < NextBlock(h, b))
  BY SizeAssumption DEF Tiled
<1>4. \A b \in B : NextBlock(h, b) = b + Size(h, b) /\ FooterOf(h, b) = h.foot[NextBlock(h, b)]
  BY DEF NextBlock, Size, FooterOf
<1>5. \A b \in B : NextBlock(h, b) \in Addr /\ NextBlock(h, b) <= h.brk
  BY <1>1, <1>3 DEF Addr
<1>6. \A b \in B : /\ h.head[b] = Tag(Size(h, b), h.head[b].alloc)
                   /\ h.head[b].alloc \in BOOLEAN
  BY <1>1, <1>2 DEF TagType, Tag, Size
<1>7. \A b \in B : Size(h, b) \in Nat
  BY <1>1, <1>2
<1>8. \A b \in B : \A x \in B \cup {h.brk} : b < x => NextBlock(h, b) <= x
  <2> SUFFICES ASSUME NEW b \in B, NEW x \in B \cup {h.brk}, b < x
               PROVE  NextBlock(h, b) <= x
    OBVIOUS
  <2>1. CASE x = h.brk
    BY <2>1, <1>5
  <2>2. CASE x \in B
    <3>1. ~(x < NextBlock(h, b)) /\ x \in Int
      BY <1>1, <1>3, <2>2
    <3>2. NextBlock(h, b) \in Int
      BY <1>5 DEF Addr
    <3> QED BY <3>1, <3>2
  <2> QED BY <2>1, <2>2
<1> QED BY <1>3, <1>4, <1>5, <1>6, <1>7, <1>8

\* The conjuncts of Tiled, for places.
LEMMA TiledFacts ==
  ASSUME NEW h \in HeapType, NEW B, Tiled(h, B)
  PROVE  /\ First \in B \cup {h.brk}
         /\ \A x \in B \cup {h.brk} : x # First => \E a \in B : NextBlock(h, a) = x
         /\ h.head[1] = Tag(1, TRUE) /\ h.foot[First] = Tag(1, TRUE)
         /\ h.head[h.brk] = Tag(0, TRUE)
         /\ \A p \in Addr : p \notin B /\ p # 1 /\ p # h.brk => h.head[p] = JunkTag
         /\ \A p \in Addr : p \notin B /\ p # First /\ p # h.brk => h.foot[p] = JunkTag
BY DEF Tiled

\* The other way round: what makes B the blocks of g.
LEMMA TiledBy ==
  ASSUME NEW g \in HeapType, NEW B,
         \A b \in B : b \in Int /\ b >= First /\ b < g.brk,
         First \in B \cup {g.brk},
         \A b \in B : /\ Size(g, b) \in Int /\ Size(g, b) >= 3
                      /\ b + Size(g, b) \in B \cup {g.brk}
                      /\ g.foot[b + Size(g, b)] = g.head[b]
                      /\ \A c \in B : ~(b < c /\ c < b + Size(g, b)),
         \A x \in B \cup {g.brk} : x # First => \E a \in B : a + Size(g, a) = x,
         g.head[1] = Tag(1, TRUE), g.foot[First] = Tag(1, TRUE),
         g.head[g.brk] = Tag(0, TRUE),
         \A p \in Addr : p \notin B /\ p # 1 /\ p # g.brk => g.head[p] = JunkTag,
         \A p \in Addr : p \notin B /\ p # First /\ p # g.brk => g.foot[p] = JunkTag
  PROVE  Tiled(g, B)
<1>1. \A b : NextBlock(g, b) = b + Size(g, b) /\ FooterOf(g, b) = g.foot[b + Size(g, b)]
  BY DEF NextBlock, FooterOf, Size
<1>2. g.brk \in Int
  BY SizeAssumption DEF HeapType, Addr
<1>3. B \subseteq First..(g.brk - 1)
  BY <1>2 DEF First
<1> QED BY <1>1, <1>3, SizeAssumption DEF Tiled

\* What lies strictly between two places.
Between(B, s, e) == {c \in B : s < c /\ c < e}

\* Writing a block over its followers makes them one block.
LEMMA Retile ==
  ASSUME NEW h \in HeapType, NEW B, Tiled(h, B),
         NEW s \in B, NEW e \in B \cup {h.brk}, s < e,
         NEW a \in BOOLEAN, NEW g, Written(h, s, e - s, a, g)
  PROVE  /\ Tiled(g, B \ Between(B, s, e))
         /\ Size(g, s) = e - s /\ NextBlock(g, s) = e /\ g.head[s].alloc = a
         /\ \A b \in B \ Between(B, s, e) :
              b # s => g.head[b] = h.head[b] /\ NextBlock(g, b) = NextBlock(h, b)
<1> DEFINE D == B \ Between(B, s, e)
<1>1. /\ B \subseteq Addr \ {NoBlock} /\ h.brk \in Addr /\ h.brk >= First
      /\ NoBlock \in Addr /\ 1 \in Addr /\ First \in Addr
      /\ \A b \in B : b >= First /\ b < h.brk /\ b \in Int
  BY TiledPlaces
<1>2. \A b \in B : /\ Size(h, b) \in Nat /\ Size(h, b) >= 3
                   /\ NextBlock(h, b) = b + Size(h, b)
                   /\ NextBlock(h, b) \in B \cup {h.brk}
                   /\ NextBlock(h, b) \in Addr /\ NextBlock(h, b) <= h.brk
                   /\ h.foot[NextBlock(h, b)] = h.head[b]
  BY TiledOrder
<1>3. \A b \in B : \A x \in B \cup {h.brk} : b < x => b + Size(h, b) <= x
  BY <1>2, TiledOrder
<1>4. h.brk \in Int /\ e \in Int /\ s \in Int /\ e \in Addr /\ s \in Addr /\ e <= h.brk
      /\ s >= First /\ HeapMax \in Int
  BY <1>1, SizeAssumption DEF Addr
<1>5. g \in HeapType /\ g.brk = h.brk /\ g.head[s] = Tag(e - s, a) /\ g.foot[e] = Tag(e - s, a)
  <2>1. s + (e - s) = e
    BY <1>4
  <2> QED BY <2>1 DEF Written
<1>6. \A p \in Addr : s < p /\ p < e => g.head[p] = JunkTag /\ g.foot[p] = JunkTag
  <2>1. s + (e - s) = e
    BY <1>4
  <2> QED BY <2>1 DEF Written
<1>7. /\ \A p \in Addr : p < s \/ e <= p => g.head[p] = h.head[p]
      /\ \A p \in Addr : p <= s \/ e < p => g.foot[p] = h.foot[p]
  <2>1. s + (e - s) = e
    BY <1>4
  <2> QED BY <2>1 DEF Written
<1>8. \A p \in Addr : p \in Int
  BY DEF Addr
<1>9. \A b \in B : b \in D <=> b <= s \/ e <= b
  BY <1>1, <1>4 DEF Between
<1>10. \A b \in D : b # s => b < s \/ e <= b
  BY <1>1, <1>4, <1>9
<1> HIDE DEF D
<1>11. D \subseteq B
  BY DEF D
<1>12. \A b \in D : b # s => g.head[b] = h.head[b] /\ Size(g, b) = Size(h, b)
  BY <1>1, <1>7, <1>10, <1>11 DEF Size
<1>13. Size(g, s) = e - s /\ NextBlock(g, s) = e /\ g.head[s].alloc = a
  BY <1>4, <1>5 DEF Size, NextBlock, Tag
<1>14. \A b \in D : b \in Int /\ b >= First /\ b < g.brk
  BY <1>1, <1>5, <1>11
<1>15. s \in D /\ e \in D \cup {h.brk}
  BY <1>4, <1>9
<1>16. First \in D \cup {g.brk}
  <2>1. First \in B \cup {h.brk}
    BY TiledFacts
  <2> QED BY <2>1, <1>4, <1>5, <1>9 DEF First
<1>17. \A b \in D : /\ Size(g, b) \in Int /\ Size(g, b) >= 3
                    /\ b + Size(g, b) \in D \cup {g.brk}
                    /\ g.foot[b + Size(g, b)] = g.head[b]
                    /\ \A c \in D : ~(b < c /\ c < b + Size(g, b))
  <2> TAKE b \in D
  <2>1. CASE b = s
    <3>1. s + Size(h, s) <= e
      BY <1>3
    <3>2. Size(g, s) \in Int /\ Size(g, s) >= 3 /\ s + Size(g, s) = e
      BY <3>1, <1>2, <1>4, <1>13
    <3>3. \A c \in D : ~(s < c /\ c < e)
      BY <1>4, <1>9, <1>11, <1>14
    <3>4. g.foot[e] = g.head[s]
      BY <1>5
    <3> QED BY <2>1, <3>2, <3>3, <3>4, <1>5, <1>15
  <2>2. CASE b # s
    <3>1. Size(g, b) = Size(h, b) /\ g.head[b] = h.head[b] /\ b \in B
      BY <2>2, <1>12, <1>11
    <3> DEFINE x == b + Size(h, b)
    <3>2. x \in B \cup {h.brk} /\ x \in Addr /\ x \in Int /\ h.foot[x] = h.head[b] /\ Size(h, b) >= 3
          /\ Size(h, b) \in Nat
      BY <3>1, <1>2, <1>8
    <3>3. x <= s \/ e < x
      <4>1. CASE b < s
        BY <4>1, <3>1, <1>3, <1>15, <1>11
      <4>2. CASE e <= b
        BY <4>2, <3>2, <1>14, <1>4
      <4> QED BY <4>1, <4>2, <2>2, <1>10
    <3>4. g.foot[x] = h.foot[x]
      BY <3>2, <3>3, <1>7
    <3>5. x \in D \cup {g.brk}
      BY <3>2, <3>3, <1>4, <1>5, <1>9
    <3>6. \A c \in D : ~(b < c /\ c < x)
      BY <1>3, <1>11, <1>14, <3>1, <3>2
    <3> QED BY <3>1, <3>2, <3>4, <3>5, <3>6
  <2> QED BY <2>1, <2>2
<1>18. \A x \in D \cup {g.brk} : x # First => \E c \in D : c + Size(g, c) = x
  <2> SUFFICES ASSUME NEW x \in D \cup {g.brk}, x # First
               PROVE  \E c \in D : c + Size(g, c) = x
    OBVIOUS
  <2>1. x \in B \cup {h.brk}
    BY <1>5, <1>11
  <2>2. PICK c \in B : c + Size(h, c) = x
    <3>1. PICK c \in B : NextBlock(h, c) = x
      <4>1. \A y \in B \cup {h.brk} : y # First => \E z \in B : NextBlock(h, z) = y
        BY TiledFacts
      <4> QED BY <2>1, <4>1
    <3> QED BY <3>1, <1>2
  <2>3. CASE c < s \/ e <= c
    <3>1. c \in D /\ c # s
      BY <2>3, <1>1, <1>4, <1>9
    <3> QED BY <2>2, <3>1, <1>12
  <2>4. CASE ~(c < s \/ e <= c)
    <3>1. c < e /\ s <= c /\ c \in Int
      BY <2>4, <1>1, <1>4
    <3>2. x <= e /\ x \in Int /\ s < x
      BY <3>1, <2>2, <1>1, <1>2, <1>3, <1>4
    <3>3. x = e
      BY <3>2, <2>1, <1>4, <1>5, <1>9
    <3>4. s + Size(g, s) = e
      BY <1>4, <1>13
    <3> QED BY <3>3, <3>4, <1>15
  <2> QED BY <2>3, <2>4
<1>19. g.head[1] = Tag(1, TRUE) /\ g.foot[First] = Tag(1, TRUE) /\ g.head[g.brk] = Tag(0, TRUE)
  <2>1. 1 < s /\ First <= s /\ e <= h.brk
    BY <1>4 DEF First
  <2>2. g.head[1] = h.head[1] /\ g.foot[First] = h.foot[First] /\ g.head[h.brk] = h.head[h.brk]
    BY <2>1, <1>1, <1>7
  <2> QED BY <2>2, <1>5, TiledFacts
<1>20. \A p \in Addr : p \notin D /\ p # 1 /\ p # g.brk => g.head[p] = JunkTag
  <2> SUFFICES ASSUME NEW p \in Addr, p \notin D, p # 1, p # g.brk PROVE g.head[p] = JunkTag
    OBVIOUS
  <2>1. CASE s < p /\ p < e
    BY <2>1, <1>6
  <2>2. CASE ~(s < p /\ p < e)
    <3>1. p <= s \/ e <= p
      BY <2>2, <1>4, <1>8
    <3>2. p \notin B /\ p # s
      BY <3>1, <1>9, <1>15
    <3>3. p < s \/ e <= p
      BY <3>1, <3>2, <1>4, <1>8
    <3>4. h.head[p] = JunkTag
      BY <3>2, <1>5, TiledFacts
    <3> QED BY <3>3, <3>4, <1>7
  <2> QED BY <2>1, <2>2
<1>21. \A p \in Addr : p \notin D /\ p # First /\ p # g.brk => g.foot[p] = JunkTag
  <2> SUFFICES ASSUME NEW p \in Addr, p \notin D, p # First, p # g.brk PROVE g.foot[p] = JunkTag
    OBVIOUS
  <2>1. CASE s < p /\ p < e
    BY <2>1, <1>6
  <2>2. CASE ~(s < p /\ p < e)
    <3>1. p <= s \/ e <= p
      BY <2>2, <1>4, <1>8
    <3>2. p \notin B /\ p # e
      BY <3>1, <1>5, <1>9, <1>15
    <3>3. p <= s \/ e < p
      BY <3>1, <3>2, <1>4, <1>8
    <3>4. h.foot[p] = JunkTag
      BY <3>2, <1>5, TiledFacts
    <3> QED BY <3>3, <3>4, <1>7
  <2> QED BY <2>1, <2>2
<1>22. Tiled(g, D)
  BY <1>5, <1>14, <1>16, <1>17, <1>18, <1>19, <1>20, <1>21, TiledBy
<1>23. \A b \in D : b # s => NextBlock(g, b) = NextBlock(h, b)
  BY <1>12 DEF NextBlock, Size
<1> QED BY <1>12, <1>13, <1>22, <1>23 DEF D

\* In g the block s reaches up to e, with the flag a; what lay between is gone.
JoinedUpTo(h, B, r, X, s, e, a, g) ==
  /\ Kept(g, B \ Between(B, s, e), r, X \ Between(B, s, e))
  /\ g.brk = h.brk
  /\ Size(g, s) = e - s /\ NextBlock(g, s) = e /\ g.head[s].alloc = a
  /\ \A b \in B \ Between(B, s, e) :
       b # s => g.head[b] = h.head[b] /\ NextBlock(g, b) = NextBlock(h, b)

\* A block that is not on a list and the blocks behind it up to e are written
\* as one.
LEMMA KeptSetBlock ==
  ASSUME NEW h, NEW B, NEW r, NEW X, Kept(h, B, r, X),
         NEW s \in B, s \in X, NEW e \in B \cup {h.brk}, s < e,
         Between(B, s, e) \subseteq X, NEW a \in BOOLEAN
  PROVE  JoinedUpTo(h, B, r, X, s, e, a, SetBlock(h, s, e - s, a))
<1> DEFINE C == Between(B, s, e)
<1> DEFINE g == SetBlock(h, s, e - s, a)
<1>1. /\ h \in HeapType /\ r \in [Addr -> Nat] /\ Tiled(h, B)
      /\ \A k \in ListNames : Linked(h, k, OnList(h, B, k) \ X, r)
      /\ JunkLinks(h, FreeIn(h, B) \cup X)
  BY DEF Kept
<1>2. /\ B \subseteq Addr \ {NoBlock} /\ h.brk \in Addr
      /\ \A b \in B : b >= First /\ b < h.brk /\ b \in Int
  BY <1>1, TiledPlaces
<1>3. e \in Addr /\ s \in Addr /\ e \in Int /\ s \in Int
  BY <1>2 DEF Addr
<1>4. e - s \in 1..HeapMax /\ s + (e - s) = e
  BY <1>3, SizeAssumption DEF Addr
<1>5. Written(h, s, e - s, a, g)
  BY <1>1, <1>3, <1>4, SetBlockIs
<1> HIDE DEF g
<1>6. /\ Tiled(g, B \ C)
      /\ Size(g, s) = e - s /\ NextBlock(g, s) = e /\ g.head[s].alloc = a
      /\ \A b \in B \ C :
           b # s => g.head[b] = h.head[b] /\ NextBlock(g, b) = NextBlock(h, b)
  <2>1. h \in HeapType /\ Tiled(h, B) /\ s \in B /\ e \in B \cup {h.brk} /\ s < e
        /\ a \in BOOLEAN /\ Written(h, s, e - s, a, g)
    BY <1>1, <1>5
  <2> QED BY ONLY <2>1, Retile DEF C
<1>7. g \in HeapType /\ g.brk = h.brk /\ g.list = h.list
  BY <1>5 DEF Written
<1>8. \A p \in Addr : ~(s < p /\ p < e) => g.next[p] = h.next[p] /\ g.prev[p] = h.prev[p]
  <2>1. \A p \in Addr : p \in Int
    BY DEF Addr
  <2>2. \A p \in Addr : ~(s < p /\ p < e) => p = s \/ p < s \/ s + (e - s) <= p
    BY <1>3, <1>4, <2>1
  <2> QED BY <1>5, <2>2 DEF Written
<1>9. \A p \in Addr : s < p /\ p < e => g.next[p] = Junk /\ g.prev[p] = Junk
  BY <1>4, <1>5 DEF Written
<1>10. C \subseteq B /\ C \subseteq X /\ s \notin C /\ \A c \in B : c \notin C => ~(s < c /\ c < e)
  BY <1>3 DEF Between
<1> HIDE DEF C
<1>11. \A k \in ListNames : Linked(g, k, OnList(g, B \ C, k) \ (X \ C), r)
  <2> TAKE k \in ListNames
  <2> DEFINE K == OnList(h, B, k) \ X
  <2>1. \A c \in B \ C : c # s => (c \in OnList(g, B \ C, k) <=> c \in OnList(h, B, k))
    BY <1>6 DEF OnList, IsFree, Size
  <2>2. OnList(g, B \ C, k) \subseteq B \ C /\ OnList(h, B, k) \subseteq B
    BY DEF OnList
  <2>3. OnList(g, B \ C, k) \ (X \ C) = K
    BY <2>1, <2>2, <1>10
  <2>4. \A c \in K : c \in Addr /\ ~(s < c /\ c < e)
    BY <1>2, <1>10, <2>2
  <2>5. \A c \in K : g.next[c] = h.next[c] /\ g.prev[c] = h.prev[c] /\ r[c] = r[c]
    BY <2>4, <1>8
  <2>6. Linked(h, k, K, r)
    BY <1>1
  <2> HIDE DEF K
  <2>7. Linked(g, k, K, r)
    BY <1>7, <2>5, <2>6, LinkedFrame
  <2> QED BY <2>3, <2>7
<1>12. JunkLinks(g, FreeIn(g, B \ C) \cup (X \ C))
  <2> SUFFICES ASSUME NEW p \in Addr, p \notin FreeIn(g, B \ C) \cup (X \ C)
               PROVE  g.next[p] = Junk /\ g.prev[p] = Junk
    BY DEF JunkLinks
  <2>1. CASE s < p /\ p < e
    BY <2>1, <1>9
  <2>2. CASE ~(s < p /\ p < e)
    <3>1. p # s
      BY <1>10
    <3>2. p \notin C
      BY <2>2 DEF C, Between
    <3>3. p \notin X
      BY <3>2
    <3>4. p \in FreeIn(h, B) => p \in FreeIn(g, B \ C)
      BY <3>1, <3>2, <1>6 DEF FreeIn, IsFree
    <3>5. p \notin FreeIn(h, B) \cup X
      BY <3>3, <3>4
    <3> QED BY <3>5, <2>2, <1>1, <1>8 DEF JunkLinks
  <2> QED BY <2>1, <2>2
<1>13. Kept(g, B \ C, r, X \ C)
  BY <1>1, <1>6, <1>7, <1>11, <1>12 DEF Kept
<1> QED BY <1>6, <1>7, <1>13 DEF g, C, JoinedUpTo

\* Where the blocks change but no list does.
LEMMA KeptBy ==
  ASSUME NEW h, NEW B, NEW r, NEW X, Kept(h, B, r, X),
         NEW g \in HeapType, NEW D, NEW Y, Tiled(g, D), g.list = h.list,
         \A k \in ListNames : OnList(g, D, k) \ Y = OnList(h, B, k) \ X,
         \A p \in FreeIn(h, B) \ X : g.next[p] = h.next[p] /\ g.prev[p] = h.prev[p],
         \A p \in Addr :
           p \notin FreeIn(g, D) \cup Y =>
             \/ g.next[p] = Junk /\ g.prev[p] = Junk
             \/ /\ p \notin FreeIn(h, B) \cup X
                /\ g.next[p] = h.next[p] /\ g.prev[p] = h.prev[p]
  PROVE  Kept(g, D, r, Y)
<1>1. /\ h \in HeapType /\ r \in [Addr -> Nat] /\ Tiled(h, B)
      /\ \A k \in ListNames : Linked(h, k, OnList(h, B, k) \ X, r)
      /\ JunkLinks(h, FreeIn(h, B) \cup X)
  BY DEF Kept
<1>2. \A k \in ListNames : Linked(g, k, OnList(g, D, k) \ Y, r)
  <2> TAKE k \in ListNames
  <2> DEFINE K == OnList(h, B, k) \ X
  <2>1. K \subseteq FreeIn(h, B) \ X
    BY DEF OnList, FreeIn
  <2>2. \A c \in K : g.next[c] = h.next[c] /\ g.prev[c] = h.prev[c] /\ r[c] = r[c]
    BY <2>1
  <2>3. Linked(h, k, K, r) /\ g.list[k] = h.list[k]
    BY <1>1
  <2>4. OnList(g, D, k) \ Y = K
    OBVIOUS
  <2> HIDE DEF K
  <2>5. Linked(g, k, K, r)
    BY <2>2, <2>3, LinkedFrame
  <2> QED BY <2>4, <2>5
<1>3. JunkLinks(g, FreeIn(g, D) \cup Y)
  BY <1>1 DEF JunkLinks
<1> QED BY <1>1, <1>2, <1>3 DEF Kept

\* The block s of h is two blocks of g, the first of n units.
SplitInto(h, B, s, n, a, c, g) ==
  /\ Tiled(g, B \cup {s + n}) /\ s + n \notin B
  /\ Size(g, s) = n /\ NextBlock(g, s) = s + n /\ g.head[s].alloc = a
  /\ Size(g, s + n) = Size(h, s) - n /\ g.head[s + n].alloc = c
  /\ NextBlock(g, s + n) = NextBlock(h, s)
  /\ \A b \in B : b # s => g.head[b] = h.head[b] /\ NextBlock(g, b) = NextBlock(h, b)

\* Writing two blocks over one makes it two.
LEMMA SplitTiled ==
  ASSUME NEW h \in HeapType, NEW B, Tiled(h, B), NEW s \in B, NEW n \in Nat,
         n >= 3, Size(h, s) - n >= 3, NEW a \in BOOLEAN, NEW c \in BOOLEAN,
         NEW f, Written(h, s, n, a, f),
         NEW g, Written(f, s + n, Size(h, s) - n, c, g)
  PROVE  SplitInto(h, B, s, n, a, c, g)
<1> DEFINE m == s + n
<1> DEFINE e == s + Size(h, s)
<1> DEFINE D == B \cup {m}
<1>1. /\ B \subseteq Addr \ {NoBlock} /\ h.brk \in Addr /\ h.brk >= First
      /\ NoBlock \in Addr /\ 1 \in Addr /\ First \in Addr
      /\ \A b \in B : b >= First /\ b < h.brk /\ b \in Int
  BY TiledPlaces
<1>2. \A b \in B : /\ Size(h, b) \in Nat /\ Size(h, b) >= 3
                   /\ NextBlock(h, b) = b + Size(h, b)
                   /\ NextBlock(h, b) \in B \cup {h.brk}
                   /\ NextBlock(h, b) \in Addr /\ NextBlock(h, b) <= h.brk
                   /\ h.foot[NextBlock(h, b)] = h.head[b]
  BY TiledOrder
<1>3. \A b \in B : \A x \in B \cup {h.brk} : b < x => b + Size(h, b) <= x
  BY <1>2, TiledOrder
<1>4. /\ h.brk \in Int /\ e \in Int /\ s \in Int /\ m \in Int /\ e <= h.brk
      /\ s + 3 <= m /\ m + 3 <= e /\ s >= First
      /\ e \in Addr /\ s \in Addr /\ e \in B \cup {h.brk}
  BY <1>1, <1>2 DEF Addr
<1>5. m \in Addr /\ s + n = m /\ m + (Size(h, s) - n) = e
  <2>1. m + (Size(h, s) - n) = e
    BY <1>2, <1>4
  <2>2. 0 <= m /\ m <= HeapMax
    BY <1>4, SizeAssumption DEF Addr, First
  <2> QED BY <1>4, <2>1, <2>2 DEF Addr
<1>6. /\ g \in HeapType /\ g.brk = h.brk /\ f.brk = h.brk
      /\ f.head[s] = Tag(n, a) /\ f.foot[m] = Tag(n, a)
      /\ g.head[m] = Tag(Size(h, s) - n, c) /\ g.foot[e] = Tag(Size(h, s) - n, c)
  BY <1>5 DEF Written
<1>7. /\ \A p \in Addr : s < p /\ p < m => f.head[p] = JunkTag /\ f.foot[p] = JunkTag
      /\ \A p \in Addr : m < p /\ p < e => g.head[p] = JunkTag /\ g.foot[p] = JunkTag
  BY <1>5 DEF Written
<1>8. /\ \A p \in Addr : p < s \/ m <= p => f.head[p] = h.head[p]
      /\ \A p \in Addr : p <= s \/ m < p => f.foot[p] = h.foot[p]
      /\ \A p \in Addr : p < m \/ e <= p => g.head[p] = f.head[p]
      /\ \A p \in Addr : p <= m \/ e < p => g.foot[p] = f.foot[p]
  BY <1>5 DEF Written
<1>9. \A p \in Addr : p \in Int
  BY DEF Addr
<1>10. g.head[s] = Tag(n, a) /\ g.foot[m] = Tag(n, a)
  BY <1>4, <1>5, <1>6, <1>8
<1>11. \A b \in B : b <= s \/ e <= b
  BY <1>1, <1>3, <1>4
<1>12. \A b \in B : b # s => b < s \/ e <= b
  BY <1>1, <1>4, <1>11
<1>13. m \notin B
  BY <1>4, <1>11
<1>14. /\ \A p \in Addr : p < s \/ e <= p => g.head[p] = h.head[p]
       /\ \A p \in Addr : p <= s \/ e < p => g.foot[p] = h.foot[p]
  BY <1>4, <1>8, <1>9
<1>15. \A p \in Addr : s < p /\ p < e /\ p # m => g.head[p] = JunkTag /\ g.foot[p] = JunkTag
  <2> SUFFICES ASSUME NEW p \in Addr, s < p, p < e, p # m
               PROVE  g.head[p] = JunkTag /\ g.foot[p] = JunkTag
    OBVIOUS
  <2>1. p < m \/ m < p
    BY <1>4, <1>9
  <2> QED BY <2>1, <1>4, <1>7, <1>8, <1>9
<1>16. /\ Size(g, s) = n /\ NextBlock(g, s) = m /\ g.head[s].alloc = a
       /\ Size(g, m) = Size(h, s) - n /\ g.head[m].alloc = c /\ NextBlock(g, m) = e
  <2>1. Size(g, s) = n /\ NextBlock(g, s) = m /\ g.head[s].alloc = a
    BY <1>10 DEF Size, NextBlock, Tag
  <2>2. Size(g, m) = Size(h, s) - n /\ g.head[m].alloc = c
    BY <1>6 DEF Size, Tag
  <2>3. NextBlock(g, m) = m + Size(g, m)
    BY DEF NextBlock, Size
  <2> QED BY <2>1, <2>2, <2>3, <1>5
<1>17. \A b \in B : b # s => g.head[b] = h.head[b] /\ Size(g, b) = Size(h, b)
  BY <1>1, <1>12, <1>14 DEF Size
<1> HIDE DEF m, e
<1>18. \A b \in D : b \in Int /\ b >= First /\ b < g.brk
  BY <1>1, <1>4, <1>6
<1>19. First \in D \cup {g.brk}
  BY <1>6, TiledFacts
<1>20. \A b \in D : /\ Size(g, b) \in Int /\ Size(g, b) >= 3
                    /\ b + Size(g, b) \in D \cup {g.brk}
                    /\ g.foot[b + Size(g, b)] = g.head[b]
                    /\ \A d \in D : ~(b < d /\ d < b + Size(g, b))
  <2> TAKE b \in D
  <2>1. CASE b = s
    <3>1. s + Size(g, s) = m /\ Size(g, s) \in Int /\ Size(g, s) >= 3
      BY <1>5, <1>16
    <3>2. \A d \in D : ~(s < d /\ d < m)
      BY <1>4, <1>11, <1>18
    <3> QED BY <2>1, <3>1, <3>2, <1>10
  <2>2. CASE b = m
    <3>1. m + Size(g, m) = e /\ Size(g, m) \in Int /\ Size(g, m) >= 3
      BY <1>2, <1>5, <1>16
    <3>2. \A d \in D : ~(m < d /\ d < e)
      BY <1>4, <1>11, <1>18
    <3>3. e \in D \cup {g.brk}
      BY <1>4, <1>6
    <3> QED BY <2>2, <3>1, <3>2, <3>3, <1>6
  <2>3. CASE b \in B /\ b # s
    <3>1. Size(g, b) = Size(h, b) /\ g.head[b] = h.head[b] /\ b \in B
      BY <2>3, <1>17
    <3> DEFINE x == b + Size(h, b)
    <3>2. x \in B \cup {h.brk} /\ x \in Addr /\ x \in Int /\ h.foot[x] = h.head[b]
          /\ Size(h, b) >= 3 /\ Size(h, b) \in Nat
      BY <3>1, <1>2, <1>9
    <3>3. x <= s \/ e < x
      <4>1. CASE b < s
        BY <4>1, <3>1, <1>3
      <4>2. CASE e <= b
        BY <4>2, <3>2, <1>18, <1>4
      <4> QED BY <4>1, <4>2, <2>3, <1>12
    <3>4. g.foot[x] = h.foot[x]
      BY <3>2, <3>3, <1>14
    <3>5. \A d \in B : ~(b < d /\ d < x)
      BY <1>3, <1>18, <3>1, <3>2
    <3>6. ~(b < m /\ m < x)
      <4>1. CASE b < s
        BY <4>1, <3>1, <3>2, <1>3, <1>4
      <4>2. CASE e <= b
        BY <4>2, <3>1, <1>1, <1>4
      <4> QED BY <4>1, <4>2, <2>3, <1>12
    <3> QED BY <3>1, <3>2, <3>4, <3>5, <3>6, <1>6
  <2> QED BY <2>1, <2>2, <2>3
<1>21. \A x \in D \cup {g.brk} : x # First => \E d \in D : d + Size(g, d) = x
  <2> SUFFICES ASSUME NEW x \in D \cup {g.brk}, x # First
               PROVE  \E d \in D : d + Size(g, d) = x
    OBVIOUS
  <2>1. CASE x = m
    <3>1. s + Size(g, s) = m
      BY <1>5, <1>16
    <3> QED BY <2>1, <3>1
  <2>2. CASE x \in B \cup {h.brk}
    <3>1. PICK d \in B : d + Size(h, d) = x
      <4>1. PICK d \in B : NextBlock(h, d) = x
        BY <2>2, TiledFacts
      <4> QED BY <4>1, <1>2
    <3>2. CASE d # s
      BY <3>1, <3>2, <1>17
    <3>3. CASE d = s
      <4>1. m + Size(g, m) = e
        BY <1>5, <1>16
      <4> QED BY <3>1, <3>3, <4>1 DEF e
    <3> QED BY <3>2, <3>3
  <2> QED BY <2>1, <2>2, <1>6
<1>22. g.head[1] = Tag(1, TRUE) /\ g.foot[First] = Tag(1, TRUE) /\ g.head[g.brk] = Tag(0, TRUE)
  <2>1. 1 < s /\ First <= s /\ e <= h.brk
    BY <1>4 DEF First
  <2>2. g.head[1] = h.head[1] /\ g.foot[First] = h.foot[First] /\ g.head[h.brk] = h.head[h.brk]
    BY <2>1, <1>1, <1>14
  <2> QED BY <2>2, <1>6, TiledFacts
<1>23. \A p \in Addr : p \notin D /\ p # 1 /\ p # g.brk => g.head[p] = JunkTag
  <2> SUFFICES ASSUME NEW p \in Addr, p \notin D, p # 1, p # g.brk PROVE g.head[p] = JunkTag
    OBVIOUS
  <2>1. CASE s < p /\ p < e
    BY <2>1, <1>15
  <2>2. CASE p < s \/ e <= p
    <3>1. p \notin B /\ p # h.brk
      BY <1>6
    <3>2. h.head[p] = JunkTag
      BY <3>1, TiledFacts
    <3> QED BY <2>2, <3>2, <1>14
  <2>3. p # s
    OBVIOUS
  <2>4. p \in Int /\ s \in Int /\ e \in Int
    BY <1>4, <1>9
  <2>5. (s < p /\ p < e) \/ (p < s \/ e <= p)
    BY ONLY <2>3, <2>4
  <2> QED BY <2>1, <2>2, <2>5
<1>24. \A p \in Addr : p \notin D /\ p # First /\ p # g.brk => g.foot[p] = JunkTag
  <2> SUFFICES ASSUME NEW p \in Addr, p \notin D, p # First, p # g.brk PROVE g.foot[p] = JunkTag
    OBVIOUS
  <2>1. CASE s < p /\ p < e
    BY <2>1, <1>15
  <2>2. CASE p <= s \/ e < p
    <3>1. p \notin B /\ p # h.brk
      BY <1>6
    <3>2. h.foot[p] = JunkTag
      BY <3>1, TiledFacts
    <3> QED BY <2>2, <3>2, <1>14
  <2>3. p # e
    BY <1>4, <1>6
  <2>4. p \in Int /\ s \in Int /\ e \in Int
    BY <1>4, <1>9
  <2>5. (s < p /\ p < e) \/ (p <= s \/ e < p)
    BY ONLY <2>3, <2>4
  <2> QED BY <2>1, <2>2, <2>5
<1>25. Tiled(g, D)
  BY <1>6, <1>18, <1>19, <1>20, <1>21, <1>22, <1>23, <1>24, TiledBy
<1>26. \A b \in B : b # s => NextBlock(g, b) = NextBlock(h, b)
  BY <1>17 DEF NextBlock, Size
<1>27. NextBlock(h, s) = e
  BY <1>2 DEF e
<1> QED BY <1>13, <1>16, <1>17, <1>25, <1>26, <1>27 DEF m, SplitInto

\* g is h with the block at s cut in two, the first part of n units.
CutInTwo(h, B, r, X, s, n, a, c, g) ==
  /\ Kept(g, B \cup {s + n}, r, X \cup {s + n})
  /\ g.brk = h.brk /\ s + n \notin B
  /\ Size(g, s) = n /\ NextBlock(g, s) = s + n /\ g.head[s].alloc = a
  /\ Size(g, s + n) = Size(h, s) - n /\ g.head[s + n].alloc = c
  /\ NextBlock(g, s + n) = NextBlock(h, s)
  /\ \A b \in B : b # s => g.head[b] = h.head[b] /\ NextBlock(g, b) = NextBlock(h, b)

\* A block that is not on a list is cut.
LEMMA KeptSplit ==
  ASSUME NEW h, NEW B, NEW r, NEW X, Kept(h, B, r, X),
         NEW s \in B, s \in X, NEW n \in Nat,
         n >= 3, Size(h, s) - n >= 3, NEW a \in BOOLEAN, NEW c \in BOOLEAN
  PROVE  CutInTwo(h, B, r, X, s, n, a, c,
                  SetBlock(SetBlock(h, s, n, a), s + n, Size(h, s) - n, c))
<1> DEFINE m == s + n
<1> DEFINE e == s + Size(h, s)
<1> DEFINE f == SetBlock(h, s, n, a)
<1> DEFINE g == SetBlock(f, s + n, Size(h, s) - n, c)
<1>1. /\ h \in HeapType /\ Tiled(h, B) /\ JunkLinks(h, FreeIn(h, B) \cup X)
  BY DEF Kept
<1>2. /\ B \subseteq Addr \ {NoBlock} /\ h.brk \in Addr
      /\ \A b \in B : b >= First /\ b < h.brk /\ b \in Int
  BY <1>1, TiledPlaces
<1>3. /\ Size(h, s) \in Nat /\ NextBlock(h, s) = e /\ e \in Addr
      /\ \A b \in B : s < b => e <= b
  BY <1>1, TiledOrder
<1>4. s \in Addr /\ s \in Int /\ s >= First /\ e \in 0..HeapMax /\ HeapMax \in Nat
  BY <1>2, <1>3, SizeAssumption DEF Addr
<1>5. /\ s + n \in Addr /\ n \in 1..HeapMax /\ s < s + n /\ s + n < e
      /\ Size(h, s) - n \in 1..HeapMax /\ (s + n) + (Size(h, s) - n) = e
  BY <1>3, <1>4 DEF Addr, First
<1>6. Written(h, s, n, a, f)
  BY <1>1, <1>4, <1>5, SetBlockIs
<1>7. f \in HeapType
  BY <1>6 DEF Written
<1> HIDE DEF f
<1>8. Written(f, s + n, Size(h, s) - n, c, g)
  BY <1>3, <1>5, <1>7, SetBlockIs
<1> HIDE DEF g
<1>9. /\ Tiled(g, B \cup {s + n}) /\ s + n \notin B
      /\ Size(g, s) = n /\ NextBlock(g, s) = s + n /\ g.head[s].alloc = a
      /\ Size(g, s + n) = Size(h, s) - n /\ g.head[s + n].alloc = c
      /\ NextBlock(g, s + n) = NextBlock(h, s)
      /\ \A b \in B : b # s => g.head[b] = h.head[b] /\ NextBlock(g, b) = NextBlock(h, b)
  <2>1. h \in HeapType /\ Tiled(h, B) /\ s \in B /\ n \in Nat /\ n >= 3
        /\ Size(h, s) - n >= 3 /\ a \in BOOLEAN /\ c \in BOOLEAN
        /\ Written(h, s, n, a, f) /\ Written(f, s + n, Size(h, s) - n, c, g)
    BY <1>1, <1>6, <1>8
  <2>2. SplitInto(h, B, s, n, a, c, g)
    BY ONLY <2>1, SplitTiled
  <2> QED BY <2>2 DEF SplitInto
<1>10. g \in HeapType /\ g.brk = h.brk /\ g.list = h.list
  BY <1>6, <1>8 DEF Written
<1>11. \A p \in Addr : p \in Int
  BY DEF Addr
<1>12. \A p \in Addr : p <= s \/ e <= p => g.next[p] = h.next[p] /\ g.prev[p] = h.prev[p]
  <2>1. \A p \in Addr : p <= s \/ s + n <= p => f.next[p] = h.next[p] /\ f.prev[p] = h.prev[p]
    <3>1. \A p \in Addr : p < s \/ s + n <= p => f.next[p] = h.next[p] /\ f.prev[p] = h.prev[p]
      BY <1>6 DEF Written
    <3>2. f.next[s] = h.next[s] /\ f.prev[s] = h.prev[s]
      BY <1>6 DEF Written
    <3>3. \A p \in Addr : p <= s => p < s \/ p = s
      BY <1>4, <1>11
    <3> QED BY <3>1, <3>2, <3>3
  <2>2. \A p \in Addr : p < s + n \/ e <= p => g.next[p] = f.next[p] /\ g.prev[p] = f.prev[p]
    BY <1>5, <1>8 DEF Written
  <2>3. \A p \in Addr : p <= s => p < s + n
    BY <1>4, <1>5, <1>11
  <2>4. \A p \in Addr : e <= p => s + n <= p
    BY <1>4, <1>5, <1>11
  <2> QED BY <2>1, <2>2, <2>3, <2>4
<1>13. \A p \in Addr : s < p /\ p < e /\ p # s + n => g.next[p] = Junk /\ g.prev[p] = Junk
  <2> TAKE p \in Addr
  <2>1. CASE s < p /\ p < s + n
    <3>1. f.next[p] = Junk /\ f.prev[p] = Junk
      BY <2>1, <1>6 DEF Written
    <3>2. g.next[p] = f.next[p] /\ g.prev[p] = f.prev[p]
      BY <2>1, <1>8 DEF Written
    <3> QED BY <3>1, <3>2
  <2>2. CASE s + n < p /\ p < e
    BY <2>2, <1>5, <1>8 DEF Written
  <2>3. p \in Int /\ s \in Int /\ s + n \in Int
    BY <1>4, <1>11
  <2> QED BY <2>1, <2>2, <2>3
<1> DEFINE D == B \cup {s + n}
<1> DEFINE Y == X \cup {s + n}
<1>14. \A b \in B : b # s => (IsFree(g, b) <=> IsFree(h, b)) /\ Size(g, b) = Size(h, b)
  BY <1>9 DEF IsFree, Size
<1>15. \A k \in ListNames : OnList(g, D, k) \ Y = OnList(h, B, k) \ X
  BY <1>9, <1>14 DEF OnList
<1>16. \A p \in FreeIn(h, B) \ X : g.next[p] = h.next[p] /\ g.prev[p] = h.prev[p]
  <2> TAKE p \in FreeIn(h, B) \ X
  <2>1. p \in B /\ p \in Addr /\ p # s
    BY <1>2 DEF FreeIn
  <2>2. p <= s \/ e <= p
    BY <2>1, <1>3, <1>4, <1>11
  <2> QED BY <2>1, <2>2, <1>12
<1>17. \A p \in Addr :
         p \notin FreeIn(g, D) \cup Y =>
           \/ g.next[p] = Junk /\ g.prev[p] = Junk
           \/ /\ p \notin FreeIn(h, B) \cup X
              /\ g.next[p] = h.next[p] /\ g.prev[p] = h.prev[p]
  <2> SUFFICES ASSUME NEW p \in Addr, p \notin FreeIn(g, D) \cup Y
               PROVE  \/ g.next[p] = Junk /\ g.prev[p] = Junk
                      \/ /\ p \notin FreeIn(h, B) \cup X
                         /\ g.next[p] = h.next[p] /\ g.prev[p] = h.prev[p]
    OBVIOUS
  <2>1. p # s + n /\ p # s /\ p \notin X
    OBVIOUS
  <2>2. CASE s < p /\ p < e
    BY <2>1, <2>2, <1>13
  <2>3. CASE p <= s \/ e <= p
    <3>1. p \notin FreeIn(h, B)
      BY <2>1, <1>14 DEF FreeIn
    <3> QED BY <2>1, <2>3, <3>1, <1>12
  <2>4. p \in Int /\ s \in Int /\ e \in Int
    BY <1>4, <1>11
  <2>5. (s < p /\ p < e) \/ (p <= s \/ e <= p)
    BY ONLY <2>4
  <2> QED BY <2>2, <2>3, <2>5
<1>18. Kept(g, D, r, Y)
  <2> HIDE DEF D, Y
  <2>1. Tiled(g, D)
    BY <1>9 DEF D
  <2> QED BY <2>1, <1>10, <1>15, <1>16, <1>17, KeptBy
<1>19. CutInTwo(h, B, r, X, s, n, a, c, g)
  <2> HIDE DEF e, m
  <2> QED BY <1>9, <1>10, <1>18 DEF CutInTwo
<1> QED BY <1>19 DEF g, f

\* The heap grows by a free block of n units.
Extended(h, n) ==
  SetBlock([[h EXCEPT !.brk = @ + n] EXCEPT !.head[h.brk + n] = Tag(0, TRUE)],
           h.brk, n, FALSE)

\* g is h with a free block of n units at its end, on no list.
Longer(h, B, r, X, n, g) ==
  /\ Kept(g, B \cup {h.brk}, r, X \cup {h.brk})
  /\ g.brk = h.brk + n /\ h.brk \notin B
  /\ Size(g, h.brk) = n /\ NextBlock(g, h.brk) = h.brk + n /\ g.head[h.brk].alloc = FALSE
  /\ \A b \in B : g.head[b] = h.head[b] /\ NextBlock(g, b) = NextBlock(h, b)

\* mem_sbrk, with the new header and epilogue.
LEMMA KeptExtended ==
  ASSUME NEW h, NEW B, NEW r, NEW X, Kept(h, B, r, X), NEW n \in Nat,
         n >= 3, h.brk + n <= HeapMax
  PROVE  Longer(h, B, r, X, n, Extended(h, n))
<1> DEFINE s == h.brk
<1> DEFINE e == s + n
<1> DEFINE f == [[h EXCEPT !.brk = @ + n] EXCEPT !.head[h.brk + n] = Tag(0, TRUE)]
<1> DEFINE g == Extended(h, n)
<1> DEFINE D == B \cup {s}
<1> DEFINE Y == X \cup {s}
<1>1. /\ h \in HeapType /\ Tiled(h, B) /\ JunkLinks(h, FreeIn(h, B) \cup X)
  BY DEF Kept
<1>2. /\ B \subseteq Addr \ {NoBlock} /\ s \in Addr /\ s >= First
      /\ NoBlock \in Addr /\ 1 \in Addr /\ First \in Addr
      /\ \A b \in B : b >= First /\ b < s /\ b \in Int
  BY <1>1, TiledPlaces
<1>3. \A p \in Addr : p \in Int
  BY DEF Addr
<1>4. s \in Int /\ e \in Int /\ e \in Addr /\ s < e /\ n \in 1..HeapMax /\ s + 3 <= e
      /\ HeapMax \in Nat
  BY <1>2, SizeAssumption DEF Addr
<1>5. /\ f \in HeapType /\ f.brk = e /\ f.list = h.list /\ f.next = h.next /\ f.prev = h.prev
      /\ f.foot = h.foot /\ f.head[e] = Tag(0, TRUE)
      /\ \A p \in Addr : p # e => f.head[p] = h.head[p]
  <2>1. Tag(0, TRUE) \in TagType
    BY <1>4 DEF Tag, TagType
  <2>2. /\ h.head \in [Addr -> TagType] /\ h.foot \in [Addr -> TagType]
        /\ h.next \in [Addr -> LinkType] /\ h.prev \in [Addr -> LinkType]
        /\ h.brk \in Addr /\ h.list \in [{"small", "big"} -> Addr]
    BY <1>1 DEF HeapType, TagType, LinkType
  <2> DEFINE hd == [h.head EXCEPT ![e] = Tag(0, TRUE)]
  <2>3. hd \in [Addr -> TagType] /\ hd[e] = Tag(0, TRUE)
        /\ \A p \in Addr : p # e => hd[p] = h.head[p]
    BY <1>4, <2>1, <2>2
  <2>4. f = [h EXCEPT !.brk = e, !.head = hd]
    BY <1>1 DEF HeapType
  <2> HIDE DEF f, hd, e
  <2>5. /\ f.head = hd /\ f.brk = e /\ f.list = h.list /\ f.next = h.next /\ f.prev = h.prev
        /\ f.foot = h.foot
    BY <1>1, <2>4 DEF HeapType
  <2>6. f \in HeapType
    BY <1>1, <1>4, <2>2, <2>3, <2>4 DEF HeapType, TagType, LinkType
  <2> QED BY <2>3, <2>5, <2>6
<1>6. g = SetBlock(f, s, n, FALSE)
  BY DEF Extended
<1> HIDE DEF f, g
<1>7. Written(f, s, n, FALSE, g)
  BY <1>2, <1>4, <1>5, <1>6, SetBlockIs
<1>8. /\ g \in HeapType /\ g.brk = e /\ g.list = h.list
      /\ g.head[s] = Tag(n, FALSE) /\ g.foot[e] = Tag(n, FALSE)
  BY <1>5, <1>7 DEF Written
<1>9. \A p \in Addr : s < p /\ p < e =>
        /\ g.head[p] = JunkTag /\ g.foot[p] = JunkTag
        /\ g.next[p] = Junk /\ g.prev[p] = Junk
  BY <1>7 DEF Written
<1>10. /\ \A p \in Addr : p < s \/ e < p => g.head[p] = h.head[p]
       /\ \A p \in Addr : p <= s \/ e < p => g.foot[p] = h.foot[p]
       /\ \A p \in Addr : p <= s \/ e <= p => g.next[p] = h.next[p] /\ g.prev[p] = h.prev[p]
       /\ g.head[e] = Tag(0, TRUE)
  <2>1. /\ \A p \in Addr : p < s \/ e <= p => g.head[p] = f.head[p] /\ g.next[p] = f.next[p]
                                               /\ g.prev[p] = f.prev[p]
        /\ \A p \in Addr : p <= s \/ e < p => g.foot[p] = f.foot[p]
        /\ g.next[s] = f.next[s] /\ g.prev[s] = f.prev[s]
    BY <1>7 DEF Written
  <2>2. \A p \in Addr : p <= s => p < s \/ p = s
    BY <1>3, <1>4
  <2>3. \A p \in Addr : p < s \/ e < p => p # e
    BY <1>3, <1>4
  <2>4. \A p \in Addr : e < p => e <= p
    BY <1>3, <1>4
  <2>5. e <= e
    BY <1>4
  <2> HIDE DEF e, s
  <2>6. ASSUME NEW p \in Addr, p < s \/ e < p
        PROVE  g.head[p] = h.head[p]
    BY <2>1, <2>3, <2>4, <2>6, <1>5
  <2>7. ASSUME NEW p \in Addr, p <= s \/ e < p
        PROVE  g.foot[p] = h.foot[p]
    BY <2>1, <2>7, <1>5
  <2>8. ASSUME NEW p \in Addr, p <= s \/ e <= p
        PROVE  g.next[p] = h.next[p] /\ g.prev[p] = h.prev[p]
    BY <2>1, <2>2, <2>8, <1>5
  <2>9. g.head[e] = Tag(0, TRUE)
    BY <2>1, <2>5, <1>4, <1>5
  <2> QED BY <2>6, <2>7, <2>8, <2>9
<1>11. \A b \in B : /\ Size(h, b) \in Nat /\ Size(h, b) >= 3
                    /\ NextBlock(h, b) = b + Size(h, b)
                    /\ NextBlock(h, b) \in B \cup {h.brk}
                    /\ NextBlock(h, b) \in Addr /\ NextBlock(h, b) <= h.brk
                    /\ h.foot[NextBlock(h, b)] = h.head[b]
  BY <1>1, TiledOrder
<1>12. \A b \in B : \A x \in B \cup {h.brk} : b < x => b + Size(h, b) <= x
  BY <1>1, <1>11, TiledOrder
<1>13. \A b \in B : g.head[b] = h.head[b] /\ Size(g, b) = Size(h, b)
                    /\ NextBlock(g, b) = NextBlock(h, b)
  BY <1>2, <1>10 DEF Size, NextBlock
<1>14. Size(g, s) = n /\ NextBlock(g, s) = e /\ g.head[s].alloc = FALSE
  BY <1>8 DEF Size, NextBlock, Tag
<1> HIDE DEF s, e
<1>15. s \notin B /\ h.brk = s
  BY <1>2, <1>4 DEF s
<1>16. \A b \in D : b \in Int /\ b >= First /\ b < g.brk
  BY <1>2, <1>4, <1>8
<1>17. First \in D \cup {g.brk}
  BY <1>1, <1>15, TiledFacts
<1>18. \A b \in D : /\ Size(g, b) \in Int /\ Size(g, b) >= 3
                    /\ b + Size(g, b) \in D \cup {g.brk}
                    /\ g.foot[b + Size(g, b)] = g.head[b]
                    /\ \A d \in D : ~(b < d /\ d < b + Size(g, b))
  <2> TAKE b \in D
  <2>1. CASE b = s
    <3>1. s + Size(g, s) = e /\ Size(g, s) \in Int /\ Size(g, s) >= 3
      BY <1>14 DEF e
    <3>2. \A d \in D : ~(s < d /\ d < e)
      BY <1>2, <1>4
    <3> QED BY <2>1, <3>1, <3>2, <1>8
  <2>2. CASE b \in B
    <3> DEFINE x == b + Size(h, b)
    <3>1. x \in B \cup {s} /\ x \in Addr /\ x \in Int /\ h.foot[x] = h.head[b] /\ x <= s
          /\ Size(h, b) >= 3 /\ Size(h, b) \in Nat
      BY <2>2, <1>3, <1>11, <1>15
    <3>2. g.foot[x] = h.foot[x]
      BY <3>1, <1>10
    <3>3. \A d \in D : ~(b < d /\ d < x)
      BY <2>2, <3>1, <1>12, <1>15, <1>16
    <3> QED BY <2>2, <3>1, <3>2, <3>3, <1>13
  <2> QED BY <2>1, <2>2
<1>19. \A x \in D \cup {g.brk} : x # First => \E d \in D : d + Size(g, d) = x
  <2> SUFFICES ASSUME NEW x \in D \cup {g.brk}, x # First
               PROVE  \E d \in D : d + Size(g, d) = x
    OBVIOUS
  <2>1. CASE x = e
    <3>1. s + Size(g, s) = e
      BY <1>14 DEF e
    <3> QED BY <2>1, <3>1
  <2>2. CASE x \in B \cup {h.brk}
    <3>1. PICK d \in B : NextBlock(h, d) = x
      BY <2>2, <1>1, TiledFacts
    <3>2. d + Size(g, d) = x
      BY <3>1, <1>11, <1>13
    <3> QED BY <3>2
  <2> QED BY <2>1, <2>2, <1>8, <1>15
<1>20. g.head[1] = Tag(1, TRUE) /\ g.foot[First] = Tag(1, TRUE) /\ g.head[g.brk] = Tag(0, TRUE)
  <2>1. 1 < s /\ First <= s
    BY <1>2, <1>4 DEF First
  <2>2. g.head[1] = h.head[1] /\ g.foot[First] = h.foot[First]
    BY <2>1, <1>2, <1>10
  <2> QED BY <2>2, <1>1, <1>8, <1>10, TiledFacts
<1>21. \A p \in Addr : p \notin D /\ p # 1 /\ p # g.brk => g.head[p] = JunkTag
  <2> SUFFICES ASSUME NEW p \in Addr, p \notin D, p # 1, p # g.brk PROVE g.head[p] = JunkTag
    OBVIOUS
  <2>1. p \notin B /\ p # h.brk /\ p # s /\ p # e
    BY <1>8, <1>15
  <2>2. h.head[p] = JunkTag
    BY <2>1, <1>1, TiledFacts
  <2>3. p \in Int
    BY <1>3
  <2>4. (s < p /\ p < e) \/ (p < s \/ e < p)
    BY <2>1, <2>3, <1>4
  <2> QED BY <2>2, <2>4, <1>9, <1>10
<1>22. \A p \in Addr : p \notin D /\ p # First /\ p # g.brk => g.foot[p] = JunkTag
  <2> SUFFICES ASSUME NEW p \in Addr, p \notin D, p # First, p # g.brk PROVE g.foot[p] = JunkTag
    OBVIOUS
  <2>1. p \notin B /\ p # h.brk /\ p # s /\ p # e
    BY <1>8, <1>15
  <2>2. h.foot[p] = JunkTag
    BY <2>1, <1>1, TiledFacts
  <2>3. p \in Int
    BY <1>3
  <2>4. (s < p /\ p < e) \/ (p <= s \/ e < p)
    BY <2>1, <2>3, <1>4
  <2> QED BY <2>2, <2>4, <1>9, <1>10
<1>23. Tiled(g, D)
  BY <1>8, <1>16, <1>17, <1>18, <1>19, <1>20, <1>21, <1>22, TiledBy
<1>24. \A k \in ListNames : OnList(g, D, k) \ Y = OnList(h, B, k) \ X
  BY <1>13, <1>15 DEF OnList, IsFree
<1>25. \A p \in FreeIn(h, B) \ X : g.next[p] = h.next[p] /\ g.prev[p] = h.prev[p]
  <2> TAKE p \in FreeIn(h, B) \ X
  <2>1. p \in B /\ p \in Addr
    BY <1>2 DEF FreeIn
  <2>2. p <= s
    BY <2>1, <1>2, <1>4
  <2> QED BY <2>1, <2>2, <1>10
<1>26. \A p \in Addr :
         p \notin FreeIn(g, D) \cup Y =>
           \/ g.next[p] = Junk /\ g.prev[p] = Junk
           \/ /\ p \notin FreeIn(h, B) \cup X
              /\ g.next[p] = h.next[p] /\ g.prev[p] = h.prev[p]
  <2> SUFFICES ASSUME NEW p \in Addr, p \notin FreeIn(g, D) \cup Y
               PROVE  \/ g.next[p] = Junk /\ g.prev[p] = Junk
                      \/ /\ p \notin FreeIn(h, B) \cup X
                         /\ g.next[p] = h.next[p] /\ g.prev[p] = h.prev[p]
    OBVIOUS
  <2>1. p \notin X /\ p \notin FreeIn(h, B)
    BY <1>13 DEF FreeIn, IsFree
  <2>2. p \in Int
    BY <1>3
  <2>3. (s < p /\ p < e) \/ (p <= s \/ e <= p)
    BY <2>2, <1>4
  <2> QED BY <2>1, <2>3, <1>9, <1>10
<1>27. Kept(g, D, r, Y)
  <2> HIDE DEF D, Y
  <2> QED BY <1>8, <1>23, <1>24, <1>25, <1>26, KeptBy
<1>28. Longer(h, B, r, X, n, g)
  <2>1. s = h.brk /\ e = h.brk + n
    BY DEF s, e
  <2>2. Kept(g, B \cup {h.brk}, r, X \cup {h.brk})
    BY <1>27, <2>1
  <2> HIDE DEF g
  <2> QED BY <1>8, <1>13, <1>14, <1>15, <2>1, <2>2 DEF Longer
<1> QED BY <1>28 DEF g

----------------------------------------------------------------------------
\* The allocated blocks of h with their sizes are those of g.
SameTaken(h, B, g, D) ==
  /\ TakenIn(g, D) = TakenIn(h, B)
  /\ \A c \in TakenIn(h, B) : g.head[c] = h.head[c]

\* What Coalesce reads of the neighbours of a block.
LEMMA Neighbours ==
  ASSUME NEW h \in HeapType, NEW B, Tiled(h, B), NEW b \in B,
         NEW before, before = PrevBlock(h, b), NEW after, after = NextBlock(h, b)
  PROVE  /\ ~FooterOf(h, before).alloc =>
              before \in FreeIn(h, B) /\ NextBlock(h, before) = b
              /\ h.head[before].size = Size(h, before)
         /\ FooterOf(h, before).alloc => \A c \in B : NextBlock(h, c) = b => ~IsFree(h, c)
         /\ ~h.head[after].alloc => after \in FreeIn(h, B)
         /\ h.head[after].alloc => after \notin FreeIn(h, B)
<1>1. \A c \in B : /\ NextBlock(h, c) = c + Size(h, c) /\ Size(h, c) \in Nat
                   /\ NextBlock(h, c) \in B \cup {h.brk}
                   /\ h.head[c].alloc \in BOOLEAN
                   /\ h.foot[NextBlock(h, c)] = h.head[c]
  BY TiledOrder
<1>2. \A c \in B : c \in Int /\ c >= First
  BY TiledPlaces
<1>3. \A c \in B : NextBlock(h, c) = b =>
        before = c /\ FooterOf(h, before) = h.head[c]
  <2> SUFFICES ASSUME NEW c \in B, NextBlock(h, c) = b
               PROVE  before = c /\ FooterOf(h, before) = h.head[c]
    OBVIOUS
  <2>1. h.foot[b] = h.head[c] /\ b = c + Size(h, c) /\ c \in Int /\ Size(h, c) \in Nat
    BY <1>1, <1>2
  <2>2. before = b - Size(h, c)
    BY <2>1 DEF PrevBlock, Size
  <2>3. before = c
    BY <2>1, <2>2
  <2>4. FooterOf(h, c) = h.foot[b]
    BY <2>1 DEF FooterOf, Size
  <2> QED BY <2>1, <2>3, <2>4
<1>4. b # First => \E c \in B : NextBlock(h, c) = b
  BY TiledFacts
<1>5. b = First => FooterOf(h, before).alloc
  <2> SUFFICES ASSUME b = First PROVE FooterOf(h, before).alloc
    OBVIOUS
  <2>1. h.foot[First] = Tag(1, TRUE) /\ h.head[1] = Tag(1, TRUE)
    BY TiledFacts
  <2>2. before = 1
    BY <2>1 DEF PrevBlock, Tag, First
  <2>3. FooterOf(h, before) = Tag(1, TRUE)
    BY <2>1, <2>2 DEF FooterOf, Tag, First
  <2> QED BY <2>3 DEF Tag
<1>6. ~FooterOf(h, before).alloc =>
        before \in FreeIn(h, B) /\ NextBlock(h, before) = b
        /\ h.head[before].size = Size(h, before)
  <2> SUFFICES ASSUME ~FooterOf(h, before).alloc
               PROVE  before \in FreeIn(h, B) /\ NextBlock(h, before) = b
                      /\ h.head[before].size = Size(h, before)
    OBVIOUS
  <2>1. PICK c \in B : NextBlock(h, c) = b
    BY <1>4, <1>5
  <2>2. before = c /\ FooterOf(h, before) = h.head[c]
    BY <1>3, <2>1
  <2>3. h.head[c].alloc = FALSE
    BY <1>1, <2>2
  <2> QED BY <2>1, <2>2, <2>3 DEF FreeIn, IsFree, Size
<1>7. FooterOf(h, before).alloc => \A c \in B : NextBlock(h, c) = b => ~IsFree(h, c)
  BY <1>3 DEF IsFree
<1>8. ~h.head[after].alloc => after \in FreeIn(h, B)
  <2> SUFFICES ASSUME ~h.head[after].alloc PROVE after \in FreeIn(h, B)
    OBVIOUS
  <2>1. after # h.brk
    <3>1. h.head[h.brk] = Tag(0, TRUE)
      BY TiledFacts
    <3> QED BY <3>1 DEF Tag
  <2>2. after \in B /\ h.head[after].alloc \in BOOLEAN
    BY <1>1, <2>1
  <2> QED BY <2>2 DEF FreeIn, IsFree
<1>9. h.head[after].alloc => after \notin FreeIn(h, B)
  BY DEF FreeIn, IsFree
<1> QED BY <1>6, <1>7, <1>8, <1>9

\* The outcome of joining the free block b of h with its neighbours.
Coalesced(h, B, X, b, got) ==
  \E D, s :
    /\ Kept(got.heap, D, s, X \ {b}) /\ NoTwoFree(got.heap, D, {})
    /\ got.block \in FreeIn(got.heap, D) /\ Size(got.heap, got.block) >= Size(h, b)
    /\ got.heap.brk = h.brk
    /\ SameTaken(h, B, got.heap, D)

\* coalesce: the block and its free neighbours are one block on its list.
LEMMA CoalesceKeeps ==
  ASSUME NEW h, NEW B, NEW r, NEW X, Kept(h, B, r, X),
         NEW b \in FreeIn(h, B), b \in X, X \ {b} \subseteq TakenIn(h, B),
         NoTwoFree(h, B, {b})
  PROVE  Coalesced(h, B, X, b, Coalesce(h, b))
<1> DEFINE before == PrevBlock(h, b)
<1> DEFINE after == NextBlock(h, b)
<1> DEFINE jb == ~FooterOf(h, before).alloc
<1> DEFINE ja == ~h.head[after].alloc
<1> DEFINE start == IF jb THEN before ELSE b
<1> DEFINE size == h.head[b].size + (IF jb THEN h.head[before].size ELSE 0)
                                  + (IF ja THEN h.head[after].size ELSE 0)
<1> DEFINE h1 == IF jb THEN RemoveFree(h, before) ELSE h
<1> DEFINE h2 == IF ja THEN RemoveFree(h1, after) ELSE h1
<1> DEFINE h3 == IF jb \/ ja THEN SetBlock(h2, start, size, FALSE) ELSE h2
<1> DEFINE g == InsertFree(h3, start, size)
<1> DEFINE e == IF ja THEN NextBlock(h, after) ELSE after
<1> DEFINE X1 == IF jb THEN X \cup {before} ELSE X
<1> DEFINE X2 == IF ja THEN X1 \cup {after} ELSE X1
<1> DEFINE C == Between(B, start, e)
<1> DEFINE D == B \ C
<1>1. h \in HeapType /\ Tiled(h, B) /\ b \in B
  BY DEF Kept, FreeIn
<1>2. /\ jb => before \in FreeIn(h, B) /\ NextBlock(h, before) = b
               /\ h.head[before].size = Size(h, before)
      /\ ~jb => \A c \in B : NextBlock(h, c) = b => ~IsFree(h, c)
      /\ ja => after \in FreeIn(h, B)
      /\ ~ja => after \notin FreeIn(h, B)
  BY <1>1, Neighbours
<1>3. Coalesce(h, b) = [heap |-> g, block |-> start]
  BY DEF Coalesce
<1>4. /\ \A c \in B : /\ NextBlock(h, c) = c + Size(h, c) /\ Size(h, c) \in Nat
                      /\ Size(h, c) >= 3 /\ NextBlock(h, c) \in B \cup {h.brk}
      /\ \A c \in B : \A x \in B \cup {h.brk} : c < x => NextBlock(h, c) <= x
  BY <1>1, TiledOrder
<1>5. /\ h.brk \in Int /\ \A c \in B : c \in Int /\ c < h.brk
      /\ \A c \in FreeIn(h, B) : c \in B /\ IsFree(h, c)
      /\ \A c \in TakenIn(h, B) : c \in B /\ ~IsFree(h, c)
  BY <1>1, TiledPlaces DEF Addr, FreeIn, TakenIn
<1>6. after = b + Size(h, b) /\ after \in B \cup {h.brk} /\ b < after /\ after \in Int
  BY <1>1, <1>4, <1>5
<1>7. ja => after \in B /\ e = after + Size(h, after) /\ e \in B \cup {h.brk} /\ after < e
  BY <1>2, <1>4, <1>5
<1>8. jb => before \in B /\ b = before + Size(h, before) /\ before < b
  BY <1>2, <1>4, <1>5
<1>9. /\ start \in B /\ e \in B \cup {h.brk} /\ start <= b /\ b < e /\ start < e /\ after <= e
      /\ start \in Int /\ e \in Int
  BY <1>1, <1>5, <1>6, <1>7, <1>8
<1>10. size = e - start
  <2>1. h.head[b].size = Size(h, b) /\ (ja => h.head[after].size = Size(h, after))
    BY DEF Size
  <2>2. Size(h, b) \in Nat /\ (ja => Size(h, after) \in Nat) /\ (jb => Size(h, before) \in Nat)
    BY <1>1, <1>4, <1>7, <1>8
  <2>3. jb => h.head[before].size = Size(h, before)
    BY <1>2
  <2> QED BY <2>1, <2>2, <2>3, <1>1, <1>5, <1>6, <1>7, <1>8
<1>11. after # b /\ (jb => before # b /\ before # after)
  BY <1>1, <1>5, <1>6, <1>8
<1>12. \A c \in FreeIn(h, B) : c # b => c \notin X
  BY DEF FreeIn, TakenIn
<1> HIDE DEF before, after, jb, ja, start, size, e, h1, h2, h3, g, X1, X2, C, D
<1>13. Kept(h1, B, r, X1) /\ SameTags(h, h1)
  <2>1. CASE jb
    <3>1. before \in FreeIn(h, B) /\ before \notin X
      BY <2>1, <1>2, <1>11, <1>12
    <3>2. h1 = RemoveFree(h, before) /\ X1 = X \cup {before}
      BY <2>1 DEF h1, X1
    <3> QED BY <3>1, <3>2, KeptRemove
  <2>2. CASE ~jb
    <3>1. h1 = h /\ X1 = X
      BY <2>2 DEF h1, X1
    <3> QED BY <3>1 DEF SameTags
  <2> QED BY <2>1, <2>2
<1>14. Kept(h2, B, r, X2) /\ SameTags(h, h2)
  <2>1. CASE ja
    <3>1. after \in FreeIn(h, B) /\ after \notin X1
      BY <2>1, <1>2, <1>11, <1>12 DEF X1
    <3>2. after \in FreeIn(h1, B)
      BY <3>1, <1>13, TagsFrame
    <3>3. h2 = RemoveFree(h1, after) /\ X2 = X1 \cup {after}
      BY <2>1 DEF h2, X2
    <3>4. Kept(h2, B, r, X2) /\ SameTags(h1, h2)
      BY <1>13, <3>1, <3>2, <3>3, KeptRemove
    <3> QED BY <3>4, <1>13 DEF SameTags
  <2>2. CASE ~ja
    <3>1. h2 = h1 /\ X2 = X1
      BY <2>2 DEF h2, X2
    <3> QED BY <3>1, <1>13
  <2> QED BY <2>1, <2>2
<1>15. \A c \in B : c \in C <=> (jb /\ c = b) \/ (ja /\ c = after)
  <2> SUFFICES ASSUME NEW c \in B PROVE c \in C <=> (jb /\ c = b) \/ (ja /\ c = after)
    OBVIOUS
  <2>1. c \in C <=> start < c /\ c < e
    BY DEF C, Between
  <2>2. CASE c < b
    <3>1. jb => ~(start < c)
      <4> SUFFICES ASSUME jb, before < c PROVE FALSE
        BY DEF start
      <4>1. NextBlock(h, before) <= c
        BY <1>4, <1>8
      <4> QED BY <4>1, <1>2, <2>2, <1>1, <1>5
    <3>2. ~jb => ~(start < c)
      BY <2>2, <1>1, <1>5 DEF start
    <3>3. c # b /\ c # after
      BY <2>2, <1>1, <1>5, <1>6
    <3> QED BY <2>1, <3>1, <3>2, <3>3
  <2>3. CASE c = b
    <3>1. jb <=> start < b
      BY <1>1, <1>5, <1>8 DEF start
    <3> QED BY <2>1, <2>3, <3>1, <1>9, <1>11
  <2>4. CASE b < c
    <3>1. after <= c
      BY <2>4, <1>1, <1>4 DEF after
    <3>2. ~ja => ~(c < e)
      BY <3>1, <1>5, <1>9 DEF e
    <3>3. CASE ja /\ c = after
      BY <3>3, <1>1, <1>5, <1>6, <1>7, <1>9, <2>1
    <3>4. CASE ja /\ c # after
      <4>1. after < c
        BY <3>1, <3>4, <1>5, <1>6
      <4>2. e <= c
        BY <3>4, <4>1, <1>4, <1>7 DEF e
      <4> QED BY <4>2, <2>1, <2>4, <3>4, <1>1, <1>5, <1>9
    <3>5. c # b
      BY <2>4, <1>1, <1>5
    <3> QED BY <2>1, <3>2, <3>3, <3>4, <3>5
  <2> QED BY <2>2, <2>3, <2>4, <1>1, <1>5
<1>16. C \subseteq B
  BY DEF C, Between
<1>17. C \subseteq X2 /\ start \in X2 /\ start \notin C
  <2>1. C \subseteq X2
    BY <1>15, <1>16 DEF X1, X2
  <2>2. start \in X2
    BY DEF X1, X2, start
  <2>3. start \notin C
    BY <1>9 DEF C, Between
  <2> QED BY <2>1, <2>2, <2>3
<1>18. /\ Kept(h3, D, r, X2 \ C) /\ h3.brk = h.brk
       /\ Size(h3, start) = size /\ NextBlock(h3, start) = e /\ IsFree(h3, start)
       /\ \A c \in D : c # start => h3.head[c] = h.head[c]
                                    /\ NextBlock(h3, c) = NextBlock(h, c)
  <2>1. h2.brk = h.brk /\ h2.head = h.head /\ \A c : NextBlock(h2, c) = NextBlock(h, c)
    <3>1. \A c : NextBlock(h2, c) = NextBlock(h, c)
      BY <1>14, TagsFrame
    <3> QED BY <3>1, <1>14 DEF SameTags
  <2>2. CASE jb \/ ja
    <3>1. h3 = SetBlock(h2, start, e - start, FALSE)
      BY <2>2, <1>10 DEF h3
    <3>2. /\ Kept(h2, B, r, X2) /\ start \in B /\ start \in X2 /\ e \in B \cup {h2.brk}
          /\ start < e /\ Between(B, start, e) \subseteq X2 /\ FALSE \in BOOLEAN
      BY <1>9, <1>14, <1>17, <2>1 DEF C
    <3>3. JoinedUpTo(h2, B, r, X2, start, e, FALSE, h3)
      BY ONLY <3>1, <3>2, KeptSetBlock
    <3>4. /\ Kept(h3, B \ C, r, X2 \ C) /\ h3.brk = h2.brk
          /\ Size(h3, start) = e - start /\ NextBlock(h3, start) = e
          /\ h3.head[start].alloc = FALSE
          /\ \A c \in B \ C : c # start => h3.head[c] = h2.head[c]
                                           /\ NextBlock(h3, c) = NextBlock(h2, c)
      BY <3>3 DEF C, JoinedUpTo
    <3> QED BY <2>1, <3>4, <1>10 DEF D, IsFree
  <2>3. CASE ~(jb \/ ja)
    <3>1. h3 = h2 /\ start = b /\ e = after /\ C = {}
      BY <2>3, <1>15, <1>16 DEF h3, start, e
    <3>2. D = B /\ X2 \ C = X2
      BY <3>1 DEF D
    <3>3. Size(h3, b) = size
      BY <2>1, <2>3, <3>1, <1>1, <1>4 DEF Size, size
    <3>4. NextBlock(h3, b) = after
      BY <2>1, <3>1 DEF after
    <3>5. IsFree(h3, b)
      BY <1>5, <2>1, <3>1 DEF IsFree
    <3> QED BY <1>14, <2>1, <3>1, <3>2, <3>3, <3>4, <3>5
  <2> QED BY <2>2, <2>3
<1>19. start \in D
  BY <1>9, <1>17 DEF D
<1>20. PICK s : Kept(g, D, s, (X2 \ C) \ {start}) /\ SameTags(h3, g)
  <2>1. start \in FreeIn(h3, D) /\ start \in X2 \ C
    BY <1>17, <1>18, <1>19 DEF FreeIn
  <2>2. g = InsertFree(h3, start, Size(h3, start))
    BY <1>18 DEF g
  <2>3. /\ \E s : Kept(g, D, s, (X2 \ C) \ {start})
        /\ SameTags(h3, g)
    BY ONLY <2>1, <2>2, <1>18, KeptInsert
  <2> QED BY <2>3
<1>21. (X2 \ C) \ {start} = X \ {b}
  <2>1. jb => before \notin X /\ b \in C /\ start = before
    BY <1>1, <1>2, <1>11, <1>12, <1>15 DEF start
  <2>2. ja => after \notin X /\ after \in C
    BY <1>2, <1>7, <1>11, <1>12, <1>15
  <2>3. ~jb => start = b
    BY DEF start
  <2>4. \A c \in X \ {b} : c \notin C /\ c # start
    <3> TAKE c \in X \ {b}
    <3>1. c \in TakenIn(h, B) /\ c \in B /\ ~IsFree(h, c)
      BY <1>5
    <3>2. c \notin C
      BY <3>1, <1>2, <1>5, <1>15
    <3>3. c # start
      BY <3>1, <1>2, <1>5 DEF start
    <3> QED BY <3>2, <3>3
  <2>5. \A c \in (X2 \ C) \ {start} : c \in X /\ c # b
    BY <2>1, <2>2, <2>3 DEF X1, X2
  <2>6. X \subseteq X2
    BY DEF X1, X2
  <2> QED BY <2>4, <2>5, <2>6
<1>22. /\ g.brk = h.brk /\ Size(g, start) = size /\ NextBlock(g, start) = e /\ IsFree(g, start)
       /\ \A c \in D : c # start => g.head[c] = h.head[c] /\ NextBlock(g, c) = NextBlock(h, c)
                                    /\ (IsFree(g, c) <=> IsFree(h, c))
  <2>1. \A c : Size(g, c) = Size(h3, c) /\ (IsFree(g, c) <=> IsFree(h3, c))
               /\ NextBlock(g, c) = NextBlock(h3, c)
    BY <1>20, TagsFrame
  <2>2. g.brk = h3.brk /\ g.head = h3.head
    BY <1>20 DEF SameTags
  <2>3. \A c \in D : c # start => (IsFree(h3, c) <=> IsFree(h, c))
    BY <1>18 DEF IsFree
  <2> QED BY <1>18, <2>1, <2>2, <2>3
<1>23. IsFree(h, start)
  BY <1>1, <1>2, <1>5 DEF start
<1>24. NoTwoFree(g, D, {})
  <2> SUFFICES ASSUME NEW c \in D, NEW d \in D, d = NextBlock(g, c),
                      IsFree(g, c), IsFree(g, d)
               PROVE  FALSE
    BY DEF NoTwoFree
  <2>1. c \in B /\ d \in B
    BY DEF D
  <2>2. CASE c = start
    <3>1. d = e /\ d # start /\ IsFree(h, d)
      BY <2>2, <1>9, <1>22
    <3>2. CASE ja
      <4>1. NextBlock(h, after) = d /\ IsFree(h, after) /\ after \in B /\ after # b /\ d # b
        <5>1. NextBlock(h, after) = d
          BY <3>1, <3>2 DEF e
        <5>2. IsFree(h, after) /\ after \in B /\ after # b
          BY <3>2, <1>2, <1>5, <1>11
        <5>3. d # b
          BY <3>1, <1>1, <1>5, <1>9
        <5> QED BY <5>1, <5>2, <5>3
      <4> QED BY <4>1, <2>1, <3>1 DEF NoTwoFree
    <3>3. CASE ~ja
      BY <3>1, <3>3, <2>1, <1>2 DEF e, FreeIn
    <3> QED BY <3>2, <3>3
  <2>3. CASE c # start /\ d = start
    <3>1. NextBlock(h, c) = start /\ IsFree(h, c)
      BY <2>3, <1>22
    <3>2. CASE jb
      <4>1. c # b /\ start # b /\ start = before
        BY <3>2, <1>1, <1>11, <1>15 DEF D, start
      <4> QED BY <3>1, <4>1, <2>1, <2>3, <1>23 DEF NoTwoFree
    <3>3. CASE ~jb
      BY <3>1, <3>3, <2>1, <1>2 DEF start
    <3> QED BY <3>2, <3>3
  <2>4. CASE c # start /\ d # start
    <3>1. NextBlock(h, c) = d /\ IsFree(h, c) /\ IsFree(h, d)
      BY <2>4, <1>22
    <3>2. c # b /\ d # b
      <4>1. jb => b \notin D
        BY <1>1, <1>15 DEF D
      <4> QED BY <4>1, <2>4 DEF start
    <3> QED BY <3>1, <3>2, <2>1 DEF NoTwoFree
  <2> QED BY <2>2, <2>3, <2>4
<1>25. SameTaken(h, B, g, D)
  <2>1. \A c \in TakenIn(h, B) : c \in D /\ c # start
    <3> TAKE c \in TakenIn(h, B)
    <3>1. c \in B /\ ~IsFree(h, c)
      BY <1>5
    <3>2. c # start /\ c # b /\ (ja => c # after)
      BY <3>1, <1>2, <1>5, <1>23
    <3> QED BY <3>1, <3>2, <1>15 DEF D
  <2>2. TakenIn(h, B) \subseteq TakenIn(g, D)
    BY <2>1, <1>5, <1>22 DEF TakenIn
  <2>3. TakenIn(g, D) \subseteq TakenIn(h, B)
    BY <1>22 DEF TakenIn, D
  <2> QED BY <2>1, <2>2, <2>3, <1>22 DEF SameTaken
<1>26. Size(g, start) >= Size(h, b)
  <2>1. Size(g, start) = e - start /\ after <= e /\ start <= b /\ after = b + Size(h, b)
    BY <1>6, <1>9, <1>10, <1>22
  <2>2. Size(h, b) \in Nat /\ b \in Int
    BY <1>1, <1>4, <1>5
  <2> QED BY <2>1, <2>2, <1>6, <1>9
<1>27. start \in FreeIn(g, D)
  BY <1>19, <1>22 DEF FreeIn
<1> DEFINE got == [heap |-> g, block |-> start]
<1>28. got.heap = g /\ got.block = start /\ Coalesce(h, b) = got
  BY <1>3
<1> HIDE DEF got
<1>29. Coalesced(h, B, X, b, got)
  BY <1>20, <1>21, <1>22, <1>24, <1>25, <1>26, <1>27, <1>28 DEF Coalesced
<1> QED BY <1>28, <1>29

\* A sound heap with no block in flux.
Good(h, B) == (\E r : Kept(h, B, r, {})) /\ NoTwoFree(h, B, {})

\* A sound heap has the allocated blocks of h, without those in gone, and
\* their sizes.
Keeps(h, B, gone, g, D) ==
  /\ Good(g, D)
  /\ TakenIn(g, D) = TakenIn(h, B) \ gone
  /\ \A c \in TakenIn(h, B) \ gone : g.head[c] = h.head[c]

\* What Kept says, part by part.
LEMMA KeptParts ==
  ASSUME NEW h, NEW B, NEW r, NEW X, Kept(h, B, r, X)
  PROVE  /\ h \in HeapType /\ r \in [Addr -> Nat] /\ Tiled(h, B)
         /\ \A k \in ListNames : Linked(h, k, OnList(h, B, k) \ X, r)
         /\ JunkLinks(h, FreeIn(h, B) \cup X)
         /\ B \subseteq Addr \ {NoBlock} /\ h.brk \in Addr
         /\ \A b \in B : /\ b \in Int /\ b >= First /\ b < h.brk
                         /\ Size(h, b) \in Nat /\ Size(h, b) >= 3
                         /\ NextBlock(h, b) = b + Size(h, b)
                         /\ NextBlock(h, b) \in B \cup {h.brk}
                         /\ NextBlock(h, b) \in Addr
                         /\ Size(h, b) = h.head[b].size
         /\ \A b \in B : \A x \in B \cup {h.brk} : b < x => NextBlock(h, b) <= x
<1>1. /\ h \in HeapType /\ r \in [Addr -> Nat] /\ Tiled(h, B)
      /\ \A k \in ListNames : Linked(h, k, OnList(h, B, k) \ X, r)
      /\ JunkLinks(h, FreeIn(h, B) \cup X)
  BY DEF Kept
<1>2. /\ B \subseteq Addr \ {NoBlock} /\ h.brk \in Addr
      /\ \A b \in B : b \in Int /\ b >= First /\ b < h.brk
  BY <1>1, TiledPlaces
<1>3. /\ \A b \in B : /\ Size(h, b) \in Nat /\ Size(h, b) >= 3
                      /\ NextBlock(h, b) = b + Size(h, b)
                      /\ NextBlock(h, b) \in B \cup {h.brk}
                      /\ NextBlock(h, b) \in Addr
      /\ \A b \in B : \A x \in B \cup {h.brk} : b < x => NextBlock(h, b) <= x
  BY <1>1, TiledOrder
<1>4. \A b : Size(h, b) = h.head[b].size
  BY DEF Size
<1> QED BY <1>1, <1>2, <1>3, <1>4

\* What Good says, part by part.
LEMMA GoodParts ==
  ASSUME NEW h, NEW B, Good(h, B)
  PROVE  /\ h \in HeapType /\ Tiled(h, B) /\ NoTwoFree(h, B, {})
         /\ B \subseteq Addr \ {NoBlock} /\ h.brk \in Addr
         /\ JunkLinks(h, FreeIn(h, B))
         /\ \A b \in B : /\ b \in Int /\ b >= First /\ b < h.brk
                         /\ Size(h, b) \in Nat /\ Size(h, b) >= 3
                         /\ NextBlock(h, b) = b + Size(h, b)
                         /\ NextBlock(h, b) \in B \cup {h.brk}
                         /\ Size(h, b) = h.head[b].size
         /\ \A b \in B : \A x \in B \cup {h.brk} : b < x => NextBlock(h, b) <= x
<1>1. PICK r : Kept(h, B, r, {})
  BY DEF Good
<1>2. NoTwoFree(h, B, {})
  BY DEF Good
<1>3. JunkLinks(h, FreeIn(h, B))
  <2>1. FreeIn(h, B) \cup {} = FreeIn(h, B)
    OBVIOUS
  <2>2. JunkLinks(h, FreeIn(h, B) \cup {})
    BY <1>1, KeptParts
  <2> QED BY <2>1, <2>2
<1> QED BY <1>1, <1>2, <1>3, KeptParts

\* An allocated block is on no list.
LEMMA KeptMore ==
  ASSUME NEW h, NEW B, NEW r, NEW X, Kept(h, B, r, X), NEW b \in TakenIn(h, B)
  PROVE  Kept(h, B, r, X \cup {b})
<1>1. \A k : OnList(h, B, k) \ (X \cup {b}) = OnList(h, B, k) \ X
  BY DEF OnList, TakenIn
<1>2. JunkLinks(h, FreeIn(h, B) \cup (X \cup {b}))
  BY DEF Kept, JunkLinks
<1> QED BY <1>1, <1>2 DEF Kept

\* The caller writes its payload.
LEMMA KeptFilled ==
  ASSUME NEW h, NEW B, NEW r, NEW b, Kept(h, B, r, {b}), b \in TakenIn(h, B)
  PROVE  Kept(Filled(h, b), B, r, {}) /\ SameTags(h, Filled(h, b))
<1> DEFINE g == Filled(h, b)
<1> DEFINE nx == [h.next EXCEPT ![b] = Junk]
<1> DEFINE pv == [h.prev EXCEPT ![b] = Junk]
<1>1. h \in HeapType /\ Tiled(h, B) /\ B \subseteq Addr \ {NoBlock}
  BY KeptParts
<1>2. b \in Addr /\ b \in B
  BY <1>1 DEF TakenIn
<1>3. g = [h EXCEPT !.next = nx, !.prev = pv]
  BY DEF Filled
<1>4. /\ h.head \in [Addr -> TagType] /\ h.foot \in [Addr -> TagType]
      /\ h.next \in [Addr -> LinkType] /\ h.prev \in [Addr -> LinkType]
      /\ h.brk \in Addr /\ h.list \in [{"small", "big"} -> Addr]
  BY <1>1 DEF HeapType, TagType, LinkType
<1>5. /\ nx \in [Addr -> LinkType] /\ nx[b] = Junk /\ \A p \in Addr : p # b => nx[p] = h.next[p]
      /\ pv \in [Addr -> LinkType] /\ pv[b] = Junk /\ \A p \in Addr : p # b => pv[p] = h.prev[p]
  BY <1>2, <1>4 DEF LinkType
<1> HIDE DEF g, nx, pv
<1>6. /\ g.head = h.head /\ g.foot = h.foot /\ g.brk = h.brk /\ g.list = h.list
      /\ g.next = nx /\ g.prev = pv
  BY <1>1, <1>3 DEF HeapType
<1>7. g \in HeapType
  BY <1>1, <1>3, <1>4, <1>5 DEF HeapType, TagType, LinkType
<1>8. SameTags(h, g)
  BY <1>6 DEF SameTags
<1>9. Tiled(g, B) /\ FreeIn(g, B) = FreeIn(h, B) /\ \A k : OnList(g, B, k) = OnList(h, B, k)
  BY <1>1, <1>8, TagsFrame
<1>10. b \notin FreeIn(h, B) /\ \A k : b \notin OnList(h, B, k)
  BY DEF TakenIn, FreeIn, OnList
<1>11. \A k \in ListNames : OnList(g, B, k) \ {} = OnList(h, B, k) \ {b}
  BY <1>9, <1>10
<1>12. \A p \in FreeIn(h, B) \ {b} : g.next[p] = h.next[p] /\ g.prev[p] = h.prev[p]
  BY <1>1, <1>5, <1>6 DEF FreeIn
<1>13. \A p \in Addr :
         p \notin FreeIn(g, B) \cup {} =>
           \/ g.next[p] = Junk /\ g.prev[p] = Junk
           \/ /\ p \notin FreeIn(h, B) \cup {b}
              /\ g.next[p] = h.next[p] /\ g.prev[p] = h.prev[p]
  BY <1>5, <1>6, <1>9
<1>14. Kept(g, B, r, {})
  BY <1>6, <1>7, <1>9, <1>11, <1>12, <1>13, KeptBy
<1> QED BY <1>8, <1>14 DEF g

----------------------------------------------------------------------------
\* free: the block leaves the allocated ones.
LEMMA ReleasedKeeps ==
  ASSUME NEW h, NEW B, Good(h, B), NEW b \in TakenIn(h, B)
  PROVE  /\ \E D : Keeps(h, B, {b}, Released(h, b), D)
         /\ Released(h, b).brk = h.brk
<1>1. PICK r : Kept(h, B, r, {})
  BY DEF Good
<1>2. NoTwoFree(h, B, {})
  BY DEF Good
<1>3. b \in B /\ ~IsFree(h, b)
  BY DEF TakenIn
<1> DEFINE e == NextBlock(h, b)
<1> DEFINE k == SetBlock(h, b, h.head[b].size, FALSE)
<1>4. /\ b \in Int /\ b < e /\ e \in B \cup {h.brk} /\ e - b = h.head[b].size
      /\ \A c \in B : b < c => e <= c
      /\ \A c \in B : c \in Int
  <2>1. /\ b \in Int /\ Size(h, b) \in Nat /\ Size(h, b) >= 3 /\ e = b + Size(h, b)
        /\ e \in B \cup {h.brk} /\ Size(h, b) = h.head[b].size
    BY <1>1, <1>3, KeptParts
  <2>2. (\A c \in B : b < c => e <= c) /\ \A c \in B : c \in Int
    BY <1>1, <1>3, KeptParts
  <2>3. b < e /\ e - b = Size(h, b)
    BY <2>1
  <2> QED BY <2>1, <2>2, <2>3
<1>5. Between(B, b, e) = {}
  <2>1. e \in Int
    <3>1. e \in Addr
      BY <1>1, <1>3, KeptParts
    <3> QED BY <3>1 DEF Addr
  <2> QED BY <1>4, <2>1 DEF Between
<1>6. Kept(h, B, r, {b})
  <2>1. Kept(h, B, r, {} \cup {b})
    BY <1>1, KeptMore
  <2>2. {} \cup {b} = {b}
    OBVIOUS
  <2> QED BY <2>1, <2>2
<1>7. k = SetBlock(h, b, e - b, FALSE)
  BY <1>4
<1> HIDE DEF k, e
<1>8. JoinedUpTo(h, B, r, {b}, b, e, FALSE, k)
  <2>1. Between(B, b, e) \subseteq {b} /\ b \in {b} /\ FALSE \in BOOLEAN
    BY <1>5
  <2> QED BY ONLY <2>1, <1>3, <1>4, <1>6, <1>7, KeptSetBlock
<1>9. /\ Kept(k, B, r, {b}) /\ k.brk = h.brk /\ IsFree(k, b) /\ NextBlock(k, b) = e
      /\ \A c \in B : c # b => k.head[c] = h.head[c] /\ NextBlock(k, c) = NextBlock(h, c)
                               /\ (IsFree(k, c) <=> IsFree(h, c))
  <2>1. B \ Between(B, b, e) = B /\ {b} \ Between(B, b, e) = {b}
    BY <1>5
  <2>2. /\ Kept(k, B, r, {b}) /\ k.brk = h.brk /\ k.head[b].alloc = FALSE
        /\ NextBlock(k, b) = e
        /\ \A c \in B : c # b => k.head[c] = h.head[c] /\ NextBlock(k, c) = NextBlock(h, c)
    BY <1>8, <2>1 DEF JoinedUpTo
  <2> QED BY <2>2 DEF IsFree
<1>10. NoTwoFree(k, B, {b})
  BY <1>2, <1>9 DEF NoTwoFree
<1>11. b \in FreeIn(k, B)
  BY <1>3, <1>9 DEF FreeIn
<1>12. Coalesced(k, B, {b}, b, Coalesce(k, b))
  <2>1. {b} \ {b} \subseteq TakenIn(k, B) /\ b \in {b}
    OBVIOUS
  <2> QED BY ONLY <2>1, <1>9, <1>10, <1>11, CoalesceKeeps
<1>13. Coalesce(k, b).heap = Released(h, b)
  BY DEF Released, k
<1> DEFINE g == Released(h, b)
<1> HIDE DEF g
<1>14. PICK D, s : /\ Kept(g, D, s, {b} \ {b}) /\ NoTwoFree(g, D, {})
                   /\ g.brk = k.brk /\ SameTaken(k, B, g, D)
  BY <1>12, <1>13 DEF Coalesced, g
<1>15. Good(g, D)
  <2>1. {b} \ {b} = {}
    OBVIOUS
  <2>2. Kept(g, D, s, {})
    BY <1>14, <2>1
  <2> QED BY <1>14, <2>2 DEF Good
<1>16. TakenIn(k, B) = TakenIn(h, B) \ {b}
  BY <1>9 DEF TakenIn
<1>17. \A c \in TakenIn(h, B) \ {b} : g.head[c] = h.head[c]
  BY <1>9, <1>14, <1>16 DEF SameTaken, TakenIn
<1>18. Keeps(h, B, {b}, g, D)
  BY <1>14, <1>15, <1>16, <1>17 DEF Keeps, SameTaken
<1>19. g.brk = h.brk
  BY <1>9, <1>14
<1> QED BY <1>18, <1>19 DEF g

----------------------------------------------------------------------------
\* find_fit: the block found is on the list for n units and large enough; there
\* is none exactly when no block of that list is.
Fits(h, B, n, c) ==
  \/ /\ c = NoBlock
     /\ \A b \in OnList(h, B, ListFor(n)) : Size(h, b) < n
  \/ c \in OnList(h, B, ListFor(n)) /\ n <= Size(h, c)

\* The recursion of FindFit has a solution: from a block of a list, the fit of
\* the largest rank that is not above it.
LEMMA FitExists ==
  ASSUME NEW h, NEW B, NEW r, Kept(h, B, r, {}), NEW n \in Nat
  PROVE  \E w : w = [b \in LinkType |->
                       IF b \in {NoBlock, Junk} \/ n <= h.head[b].size THEN b
                       ELSE w[h.next[b]]]
<1> DEFINE L(k) == OnList(h, B, k)
<1> DEFINE My(b) == L(ListFor(Size(h, b)))
<1> DEFINE Fit(b) == {c \in My(b) : n <= Size(h, c) /\ r[c] <= r[b]}
<1> DEFINE Best(b) == CHOOSE c \in Fit(b) : \A d \in Fit(b) : r[d] <= r[c]
<1> DEFINE W(b) == IF b \in FreeIn(h, B)
                   THEN IF Fit(b) = {} THEN NoBlock ELSE Best(b)
                   ELSE IF b \in {NoBlock, Junk} \/ n <= h.head[b].size THEN b ELSE Junk
<1> DEFINE w == [b \in LinkType |-> W(b)]
<1>1. /\ h \in HeapType /\ r \in [Addr -> Nat] /\ B \subseteq Addr \ {NoBlock}
      /\ \A k \in ListNames : Linked(h, k, L(k), r)
      /\ JunkLinks(h, FreeIn(h, B))
      /\ \A b \in B : Size(h, b) = h.head[b].size /\ Size(h, b) \in Nat
  <2>1. \A k : L(k) \ {} = L(k)
    OBVIOUS
  <2>2. FreeIn(h, B) \cup {} = FreeIn(h, B)
    OBVIOUS
  <2> HIDE DEF L
  <2>3. /\ h \in HeapType /\ r \in [Addr -> Nat] /\ B \subseteq Addr \ {NoBlock}
        /\ \A b \in B : Size(h, b) = h.head[b].size /\ Size(h, b) \in Nat
    BY ZenonT(30), KeptParts
  <2>4. \A k \in ListNames : Linked(h, k, OnList(h, B, k) \ {}, r)
    BY KeptParts
  <2>5. JunkLinks(h, FreeIn(h, B) \cup {})
    BY KeptParts
  <2> QED BY <2>1, <2>2, <2>3, <2>4, <2>5 DEF L
<1>2. Junk \notin Addr /\ NoBlock \in Addr /\ Junk # NoBlock /\ Junk \in LinkType
      /\ Addr \subseteq LinkType
  BY SizeAssumption DEF Junk, Addr, NoBlock, LinkType, First
<1>3. \A b \in FreeIn(h, B) : /\ b \in My(b) /\ ListFor(Size(h, b)) \in ListNames
                              /\ b \in Addr /\ b # NoBlock /\ b # Junk
                              /\ r[b] \in Nat /\ b \in B
  BY <1>1, <1>2, ListForName DEF FreeIn, OnList
<1>4. \A b : My(b) \subseteq FreeIn(h, B)
  BY DEF OnList, FreeIn
<1>5. \A b \in LinkType : b \in Addr \/ b = Junk
  BY DEF LinkType
<1>6. \A b \in LinkType : b \notin FreeIn(h, B) /\ b \notin {NoBlock, Junk} => h.next[b] = Junk
  BY <1>1, <1>5 DEF JunkLinks
<1>7. Junk \notin FreeIn(h, B) /\ NoBlock \notin FreeIn(h, B)
  BY <1>3
<1>8. \A b \in FreeIn(h, B) : Fit(b) # {} => Best(b) \in Fit(b) /\ \A d \in Fit(b) : r[d] <= r[Best(b)]
  <2> TAKE b \in FreeIn(h, B)
  <2> SUFFICES ASSUME Fit(b) # {} PROVE \E c \in Fit(b) : \A d \in Fit(b) : r[d] <= r[c]
    OBVIOUS
  <2>1. Fit(b) \subseteq Addr /\ \A c \in Fit(b) : r[c] \in Nat
    BY <1>3, <1>4
  <2>2. IsFiniteSet(Fit(b))
    <3>1. IsFiniteSet(Addr)
      BY FS_Interval, SizeAssumption DEF Addr
    <3> QED BY <2>1, <3>1, FS_Subset
  <2> DEFINE S == Fit(b)
  <2> HIDE DEF Fit
  <2> QED BY <2>1, <2>2, LargestElement
<1>9. \A b \in FreeIn(h, B), c \in FreeIn(h, B) :
        c \in My(b) => My(c) = My(b)
  BY DEF OnList
<1>10. \A b \in FreeIn(h, B) : \A c, d \in My(b) : r[c] = r[d] => c = d
  <2> TAKE b \in FreeIn(h, B)
  <2>1. Linked(h, ListFor(Size(h, b)), My(b), r)
    BY <1>1, <1>3
  <2> HIDE DEF My
  <2> QED BY <2>1, LinkedFacts
<1>11. \A b \in FreeIn(h, B) :
         /\ h.next[b] \in My(b) \cup {NoBlock}
         /\ h.next[b] # NoBlock => r[h.next[b]] < r[b]
         /\ \A c \in My(b) : r[c] < r[b] => h.next[b] # NoBlock /\ r[c] <= r[h.next[b]]
  <2> TAKE b \in FreeIn(h, B)
  <2>1. Linked(h, ListFor(Size(h, b)), My(b), r) /\ b \in My(b)
    BY <1>1, <1>3
  <2> HIDE DEF My
  <2> QED BY <2>1, LinkedFacts
<1> HIDE DEF L, My
<1>12. \A b \in FreeIn(h, B) : n <= h.head[b].size => W(b) = b
  <2> SUFFICES ASSUME NEW b \in FreeIn(h, B), n <= h.head[b].size PROVE W(b) = b
    OBVIOUS
  <2>1. b \in Fit(b)
    BY <1>1, <1>3
  <2>2. Best(b) \in Fit(b) /\ r[b] <= r[Best(b)]
    BY <1>8, <2>1
  <2>3. r[Best(b)] = r[b] /\ Best(b) \in My(b)
    BY <2>2, <1>3, <1>4
  <2> QED BY <2>1, <2>3, <1>3, <1>10
<1>13. \A b \in FreeIn(h, B) : ~(n <= h.head[b].size) => W(b) = W(h.next[b])
  <2> SUFFICES ASSUME NEW b \in FreeIn(h, B), ~(n <= h.head[b].size)
               PROVE  W(b) = W(h.next[b])
    OBVIOUS
  <2> DEFINE x == h.next[b]
  <2>1. \A c \in Fit(b) : c \in My(b) /\ c # b /\ r[c] < r[b]
    <3> TAKE c \in Fit(b)
    <3>1. c \in My(b) /\ c # b /\ r[c] <= r[b] /\ r[c] \in Nat /\ r[b] \in Nat
      BY <1>1, <1>3, <1>4
    <3>2. r[c] # r[b]
      BY <3>1, <1>3, <1>10
    <3> QED BY <3>1, <3>2
  <2>2. CASE x = NoBlock
    <3>1. Fit(b) = {}
      BY <2>1, <2>2, <1>11
    <3> QED BY <3>1, <2>2, <1>7
  <2>3. CASE x # NoBlock
    <3>1. x \in My(b) /\ x \in FreeIn(h, B) /\ My(x) = My(b) /\ r[x] < r[b]
      BY <2>3, <1>4, <1>9, <1>11
    <3>2. \A c \in My(b) : r[c] \in Nat /\ r[x] \in Nat /\ r[b] \in Nat
      BY <3>1, <1>3, <1>4
    <3>3. \A c \in Fit(x) : c \in Fit(b)
      BY <3>1, <3>2
    <3>4. \A c \in Fit(b) : c \in Fit(x)
      BY <2>1, <3>1, <1>11
    <3>5. Fit(x) = Fit(b)
      BY <3>3, <3>4
    <3> HIDE DEF Fit
    <3> QED BY <3>1, <3>5
  <2> QED BY <2>2, <2>3
<1>14. W(Junk) = Junk
  BY <1>7
<1> DEFINE V(b) == IF b \in {NoBlock, Junk} \/ n <= h.head[b].size THEN b ELSE w[h.next[b]]
<1>15. \A b \in LinkType : W(b) = V(b)
  <2> TAKE b \in LinkType
  <2>1. CASE b \in FreeIn(h, B)
    <3>1. h.next[b] \in LinkType
      BY <2>1, <1>2, <1>3, <1>4, <1>11
    <3>2. w[h.next[b]] = W(h.next[b])
      BY <3>1
    <3> HIDE DEF W, w
    <3> QED BY <2>1, <3>2, <1>3, <1>12, <1>13
  <2>2. CASE b \notin FreeIn(h, B)
    <3>1. w[Junk] = Junk
      BY <1>2, <1>14
    <3> QED BY <2>2, <3>1, <1>6
  <2> QED BY <2>1, <2>2
<1>16. w = [b \in LinkType |-> V(b)]
  <2> HIDE DEF W, V
  <2> QED BY <1>15
<1> HIDE DEF w
<1> QED BY <1>16

\* find_fit does what it is for.
LEMMA FindFitIs ==
  ASSUME NEW h, NEW B, NEW r, Kept(h, B, r, {}), NEW n \in Nat
  PROVE  Fits(h, B, n, FindFit(h, n))
<1> DEFINE l == ListFor(n)
<1> DEFINE L == OnList(h, B, l)
<1> DEFINE IsSearch(w) == w = [b \in LinkType |->
                                IF b \in {NoBlock, Junk} \/ n <= h.head[b].size THEN b
                                ELSE w[h.next[b]]]
<1> DEFINE fit == CHOOSE w : IsSearch(w)
<1>1. IsSearch(fit)
  <2>1. \E w : IsSearch(w)
    BY FitExists
  <2> HIDE DEF IsSearch
  <2> QED BY <2>1
<1>2. FindFit(h, n) = IF h.list[l] = NoBlock THEN NoBlock ELSE fit[h.list[l]]
  BY DEF FindFit, LinkType
<1> HIDE DEF fit
<1>3. /\ B \subseteq Addr \ {NoBlock} /\ r \in [Addr -> Nat] /\ Linked(h, l, L, r)
      /\ \A b \in B : Size(h, b) = h.head[b].size /\ Size(h, b) \in Nat
  <2>1. l \in ListNames
    BY ListForName
  <2>2. L \ {} = L
    OBVIOUS
  <2>3. /\ B \subseteq Addr \ {NoBlock} /\ r \in [Addr -> Nat]
        /\ \A b \in B : Size(h, b) = h.head[b].size /\ Size(h, b) \in Nat
    BY ZenonT(30), KeptParts
  <2>4. Linked(h, l, OnList(h, B, l) \ {}, r)
    BY <2>1, KeptParts
  <2> QED BY <2>2, <2>3, <2>4
<1>4. \A b \in L : /\ b \in B /\ b \in LinkType /\ b # NoBlock /\ b # Junk /\ r[b] \in Nat
                   /\ Size(h, b) = h.head[b].size /\ Size(h, b) \in Nat
  BY <1>3, SizeAssumption DEF OnList, LinkType, Junk, Addr
<1> HIDE DEF L
<1>5. NoBlock \in LinkType
  BY SizeAssumption DEF LinkType, NoBlock, Addr
<1>6. fit[NoBlock] = NoBlock
  BY <1>1, <1>5
<1>7. \A b \in L : fit[b] = IF n <= Size(h, b) THEN b ELSE fit[h.next[b]]
  BY <1>1, <1>4
<1> HIDE DEF IsSearch
<1>8. \A b \in L :
        /\ h.next[b] \in L \cup {NoBlock}
        /\ h.next[b] # NoBlock => r[h.next[b]] < r[b]
        /\ \A c \in L : r[c] < r[b] => h.next[b] # NoBlock /\ r[c] <= r[h.next[b]]
        /\ \A c \in L : r[c] = r[b] => c = b
        /\ r[b] <= r[h.list[l]]
  BY <1>3, LinkedFacts
<1> DEFINE P(b) == \/ /\ fit[b] = NoBlock
                      /\ \A c \in L : r[c] <= r[b] => Size(h, c) < n
                   \/ fit[b] \in L /\ n <= Size(h, fit[b])
<1>9. \A b \in L : P(b)
  <2> DEFINE T == {r[b] : b \in {b \in L : ~P(b)}}
  <2> SUFFICES ASSUME T # {} PROVE FALSE
    OBVIOUS
  <2>1. PICK m \in T : \A y \in T : ~(y < m)
    <3>1. T \in SUBSET Nat
      BY <1>4
    <3> HIDE DEF T
    <3> QED BY <3>1, LeastNatural
  <2>2. PICK b \in L : ~P(b) /\ r[b] = m
    OBVIOUS
  <2>3. \A c \in L : r[c] < r[b] => P(c)
    BY <2>1, <2>2
  <2>4. ~(n <= Size(h, b))
    BY <2>2, <1>7
  <2>5. fit[b] = fit[h.next[b]] /\ Size(h, b) < n
    BY <2>4, <1>4, <1>7
  <2>6. CASE h.next[b] = NoBlock
    <3>1. \A c \in L : r[c] <= r[b] => c = b
      BY <2>6, <1>4, <1>8
    <3> QED BY <2>2, <2>5, <2>6, <3>1, <1>6
  <2>7. CASE h.next[b] # NoBlock
    <3>1. h.next[b] \in L /\ r[h.next[b]] < r[b]
      BY <2>7, <1>8
    <3>2. P(h.next[b])
      BY <2>3, <3>1
    <3>3. \A c \in L : r[c] <= r[b] => c = b \/ r[c] <= r[h.next[b]]
      BY <1>4, <1>8
    <3> QED BY <2>2, <2>5, <3>2, <3>3
  <2> QED BY <2>6, <2>7
<1>10. h.list[l] \in L \cup {NoBlock} /\ (h.list[l] = NoBlock => L = {})
  BY <1>3, LinkedFacts
<1>11. CASE h.list[l] = NoBlock
  BY <1>2, <1>10, <1>11 DEF Fits, L
<1>12. CASE h.list[l] # NoBlock
  <2>1. P(h.list[l]) /\ FindFit(h, n) = fit[h.list[l]]
    BY <1>2, <1>9, <1>10, <1>12
  <2>2. \A c \in L : r[c] <= r[h.list[l]]
    BY <1>8
  <2> QED BY <2>1, <2>2 DEF Fits, L
<1> QED BY <1>11, <1>12

----------------------------------------------------------------------------
\* Unlinking a block does not depend on whether its header was cut before, as
\* long as the size stays on the same list.
LEMMA RemoveAfterCut ==
  ASSUME NEW h, NEW B, NEW r, Kept(h, B, r, {}), NEW b \in FreeIn(h, B),
         NEW n \in Nat, n >= 3, n <= Size(h, b), ListFor(n) = ListFor(Size(h, b))
  PROVE  RemoveFree(SetBlock(h, b, n, TRUE), b) = SetBlock(RemoveFree(h, b), b, n, TRUE)
<1> DEFINE l == ListFor(n)
<1> DEFINE L == OnList(h, B, l)
<1> DEFINE f == SetBlock(h, b, n, TRUE)
<1> DEFINE R == RemoveFree(h, b)
<1> DEFINE t == RemoveFree(f, b)
<1> DEFINE s == SetBlock(R, b, n, TRUE)
<1>1. /\ h \in HeapType /\ B \subseteq Addr \ {NoBlock} /\ b \in B
      /\ Size(h, b) \in Nat /\ NextBlock(h, b) \in Addr /\ NextBlock(h, b) = b + Size(h, b)
      /\ NextBlock(h, b) \in B \cup {h.brk} /\ b \in Int
      /\ \A c \in B : b < c => NextBlock(h, b) <= c
  BY KeptParts DEF FreeIn
<1>2. b \in Addr /\ n \in 1..HeapMax /\ b + n \in Addr
  <2>1. b \in 0..HeapMax /\ b + Size(h, b) \in 0..HeapMax /\ HeapMax \in Nat
    BY <1>1, SizeAssumption DEF Addr
  <2> QED BY <1>1, <2>1 DEF Addr
<1>3. Written(h, b, n, TRUE, f)
  BY <1>1, <1>2, SetBlockIs
<1>4. Linked(h, l, L, r) /\ b \in L
  <2>1. L \ {} = L /\ l \in ListNames
    BY ListForName
  <2>2. Linked(h, l, OnList(h, B, l) \ {}, r)
    BY <2>1, KeptParts
  <2> QED BY <2>1, <2>2 DEF OnList, FreeIn
<1>5. h.next[b] \in L \cup {NoBlock} /\ h.prev[b] \in L \cup {NoBlock} /\ h.list[l] # NoBlock
  BY <1>4, LinkedFacts
<1>6. L \subseteq B /\ NoBlock \in Addr
  BY SizeAssumption DEF OnList, Addr, NoBlock
<1>7. h.next[b] \in Addr /\ h.prev[b] \in Addr
  BY <1>1, <1>5, <1>6
<1>8. Removed(h, b, l, R)
  BY <1>1, <1>2, <1>5, <1>7, RemoveFreeIs
<1>9. R \in HeapType
  BY <1>8 DEF Removed
<1> HIDE DEF f, R, L
<1>10. f \in HeapType /\ f.list = h.list /\ f.next[b] = h.next[b] /\ f.prev[b] = h.prev[b]
       /\ Size(f, b) = n
  <2>1. f.head[b] = Tag(n, TRUE)
    BY <1>3 DEF Written
  <2>2. Size(f, b) = n
    BY <2>1 DEF Size, Tag
  <2> QED BY <2>2, <1>3 DEF Written
<1>11. Written(R, b, n, TRUE, s)
  BY <1>2, <1>9, SetBlockIs
<1>12. Removed(f, b, l, t)
  <2>1. f.next[b] \in Addr /\ f.prev[b] \in Addr /\ f.list[l] # NoBlock /\ l = ListFor(Size(f, b))
    BY <1>5, <1>7, <1>10
  <2> HIDE DEF l
  <2> QED BY <1>2, <1>10, <2>1, RemoveFreeIs
<1> HIDE DEF s, t
<1>13. s \in HeapType /\ t \in HeapType
  BY <1>11, <1>12 DEF Written, Removed
<1>14. s.brk = t.brk
  BY <1>3, <1>8, <1>11, <1>12 DEF Written, Removed
<1>15. \A p \in Addr : p \in Int
  BY DEF Addr
<1>16. \A p \in Addr : (p < b \/ b + n <= p) \/ p = b \/ (b < p /\ p < b + n)
  BY <1>1, <1>2, <1>15
<1>17. \A p \in Addr : s.head[p] = t.head[p]
  <2>1. t.head = f.head /\ R.head = h.head
    BY <1>8, <1>12 DEF Removed
  <2> TAKE p \in Addr
  <2>2. CASE p < b \/ b + n <= p
    <3>1. f.head[p] = h.head[p] /\ s.head[p] = R.head[p]
      BY <2>2, <1>3, <1>11 DEF Written
    <3> QED BY <2>1, <3>1
  <2>3. CASE p = b
    <3>1. f.head[b] = Tag(n, TRUE) /\ s.head[b] = Tag(n, TRUE)
      BY <1>3, <1>11 DEF Written
    <3> QED BY <2>1, <2>3, <3>1
  <2>4. CASE b < p /\ p < b + n
    <3>1. f.head[p] = JunkTag /\ s.head[p] = JunkTag
      BY <2>4, <1>3, <1>11 DEF Written
    <3> QED BY <2>1, <3>1
  <2> QED BY <2>2, <2>3, <2>4, <1>16
<1>18. \A p \in Addr : s.foot[p] = t.foot[p]
  <2>1. t.foot = f.foot /\ R.foot = h.foot
    BY <1>8, <1>12 DEF Removed
  <2> TAKE p \in Addr
  <2>2. CASE p <= b \/ b + n < p
    <3>1. f.foot[p] = h.foot[p] /\ s.foot[p] = R.foot[p]
      BY <2>2, <1>3, <1>11 DEF Written
    <3> QED BY <2>1, <3>1
  <2>3. CASE p = b + n
    <3>1. f.foot[b + n] = Tag(n, TRUE) /\ s.foot[b + n] = Tag(n, TRUE)
      BY <1>3, <1>11 DEF Written
    <3> QED BY <2>1, <2>3, <3>1
  <2>4. CASE b < p /\ p < b + n
    <3>1. f.foot[p] = JunkTag /\ s.foot[p] = JunkTag
      BY <2>4, <1>3, <1>11 DEF Written
    <3> QED BY <2>1, <3>1
  <2>5. (p <= b \/ b + n < p) \/ p = b + n \/ (b < p /\ p < b + n)
    BY <1>1, <1>2, <1>15
  <2> QED BY <2>2, <2>3, <2>4, <2>5
<1>19. \A k \in ListNames : s.list[k] = t.list[k]
  BY <1>3, <1>8, <1>10, <1>11, <1>12 DEF Written, Removed
<1>20. \A c \in L \cup {NoBlock} : ~(b < c /\ c < b + n)
  <2>1. \A c \in L : c \in B /\ c \in Int /\ b + n <= b + Size(h, b)
    BY <1>1, <1>2, <1>6, <1>15
  <2>2. \A c \in L : ~(b < c /\ c < b + n)
    BY <1>1, <1>2, <2>1
  <2>3. ~(b < NoBlock)
    BY <1>2 DEF NoBlock, Addr
  <2> QED BY <2>2, <2>3
<1>21. \A p \in Addr : s.next[p] = t.next[p] /\ s.prev[p] = t.prev[p]
  <2> TAKE p \in Addr
  <2>1. /\ t.next[p] = IF p # NoBlock /\ p = h.prev[b] THEN h.next[b] ELSE f.next[p]
        /\ t.prev[p] = IF p # NoBlock /\ p = h.next[b] THEN h.prev[b] ELSE f.prev[p]
    BY <1>10, <1>12 DEF Removed
  <2>2. /\ R.next[p] = IF p # NoBlock /\ p = h.prev[b] THEN h.next[b] ELSE h.next[p]
        /\ R.prev[p] = IF p # NoBlock /\ p = h.next[b] THEN h.prev[b] ELSE h.prev[p]
    BY <1>8 DEF Removed
  <2>3. CASE b < p /\ p < b + n
    <3>1. f.next[p] = Junk /\ f.prev[p] = Junk
      BY <2>3, <1>3 DEF Written
    <3>2. s.next[p] = Junk /\ s.prev[p] = Junk
      BY <2>3, <1>11 DEF Written
    <3>3. p # h.prev[b] /\ p # h.next[b]
      BY <2>3, <1>5, <1>20
    <3> QED BY <2>1, <3>1, <3>2, <3>3
  <2>4. CASE p < b \/ b + n <= p \/ p = b
    <3>1. f.next[p] = h.next[p] /\ f.prev[p] = h.prev[p]
      BY <2>4, <1>3 DEF Written
    <3>2. s.next[p] = R.next[p] /\ s.prev[p] = R.prev[p]
      BY <2>4, <1>11 DEF Written
    <3> QED BY <2>1, <2>2, <3>1, <3>2
  <2> QED BY <2>3, <2>4, <1>16
<1>22. s.head = t.head /\ s.foot = t.foot /\ s.next = t.next /\ s.prev = t.prev /\ s.list = t.list
  <2>1. /\ s.head \in [Addr -> TagType] /\ s.foot \in [Addr -> TagType]
        /\ s.next \in [Addr -> LinkType] /\ s.prev \in [Addr -> LinkType]
        /\ s.list \in [ListNames -> Addr]
    BY <1>13 DEF HeapType, TagType, LinkType, ListNames
  <2>2. /\ t.head \in [Addr -> TagType] /\ t.foot \in [Addr -> TagType]
        /\ t.next \in [Addr -> LinkType] /\ t.prev \in [Addr -> LinkType]
        /\ t.list \in [ListNames -> Addr]
    BY <1>13 DEF HeapType, TagType, LinkType, ListNames
  <2> HIDE DEF l
  <2> QED BY <2>1, <2>2, <1>17, <1>18, <1>19, <1>21
<1>23. s = t
  <2>1. s = [head |-> s.head, foot |-> s.foot, next |-> s.next, prev |-> s.prev,
             list |-> s.list, brk |-> s.brk]
    BY <1>13 DEF HeapType
  <2>2. t = [head |-> t.head, foot |-> t.foot, next |-> t.next, prev |-> t.prev,
             list |-> t.list, brk |-> t.brk]
    BY <1>13 DEF HeapType
  <2> QED BY ONLY <1>14, <1>22, <2>1, <2>2
<1> QED BY <1>23 DEF s, t, f, R

\* place: the block is taken with at least n units, and with less than a block
\* more; what is left of it goes back.
Takes(h, B, b, n, g) ==
  /\ b \notin TakenIn(h, B) /\ b \in Addr \ {NoBlock}
  /\ \E D : /\ Good(g, D)
            /\ TakenIn(g, D) = TakenIn(h, B) \cup {b}
            /\ \A c \in TakenIn(h, B) : g.head[c] = h.head[c]
            /\ Size(g, b) - n \in 0..2

\* The block is taken whole.
LEMMA PlaceWhole ==
  ASSUME NEW h, NEW B, Good(h, B), NEW b \in FreeIn(h, B), NEW n \in Nat,
         n >= 3, n <= Size(h, b), Size(h, b) - n < 3
  PROVE  /\ Takes(h, B, b, n, Filled(Place(h, b, n), b))
         /\ Place(h, b, n).brk = h.brk
<1>1. PICK r : Kept(h, B, r, {})
  BY DEF Good
<1>2. NoTwoFree(h, B, {})
  BY DEF Good
<1> DEFINE e == NextBlock(h, b)
<1> DEFINE R == RemoveFree(h, b)
<1> DEFINE k == Place(h, b, n)
<1> DEFINE g == Filled(k, b)
<1>3. b \in B /\ IsFree(h, b)
  BY DEF FreeIn
<1>4. /\ b \in Int /\ Size(h, b) \in Nat /\ Size(h, b) >= 3 /\ e = b + Size(h, b)
      /\ e \in B \cup {h.brk} /\ Size(h, b) = h.head[b].size /\ e \in Addr
      /\ b \in Addr /\ b # NoBlock
  BY <1>1, <1>3, KeptParts
<1>5. Kept(R, B, r, {b}) /\ SameTags(h, R)
  <2>1. Kept(R, B, r, {} \cup {b}) /\ SameTags(h, R)
    <3>1. b \notin {}
      OBVIOUS
    <3> QED BY <1>1, <3>1, KeptRemove
  <2>2. {} \cup {b} = {b}
    OBVIOUS
  <2> QED BY <2>1, <2>2
<1>6. b < e /\ e - b = Size(h, b) /\ Between(B, b, e) = {}
  <2>1. b < e /\ e - b = Size(h, b)
    BY <1>4
  <2>2. \A c \in B : b < c => e <= c
    BY <1>1, <1>3, KeptParts
  <2>3. \A c \in B : c \in Int
    BY <1>1, KeptParts
  <2>4. e \in Int
    BY <1>4
  <2> QED BY <2>1, <2>2, <2>3, <2>4 DEF Between
<1>7. k = SetBlock(R, b, e - b, TRUE)
  <2>1. ~(h.head[b].size - n >= MinBlock)
    BY <1>4, SizeAssumption
  <2>2. e - b = h.head[b].size
    BY <1>4, <1>6
  <2> QED BY <2>1, <2>2 DEF Place
<1> HIDE DEF k, R, e
<1>8. JoinedUpTo(R, B, r, {b}, b, e, TRUE, k)
  <2>1. R.brk = h.brk
    BY <1>5 DEF SameTags
  <2>2. e \in B \cup {R.brk} /\ Between(B, b, e) \subseteq {b} /\ b \in {b} /\ TRUE \in BOOLEAN
    BY <1>4, <1>6, <2>1
  <2> QED BY ONLY <2>2, <1>3, <1>5, <1>6, <1>7, KeptSetBlock
<1>9. B \ Between(B, b, e) = B /\ {b} \ Between(B, b, e) = {b}
  BY <1>6
<1>10. /\ Kept(k, B, r, {b}) /\ k.brk = R.brk
       /\ Size(k, b) = e - b /\ NextBlock(k, b) = e /\ ~IsFree(k, b)
       /\ \A c \in B : c # b => k.head[c] = R.head[c] /\ NextBlock(k, c) = NextBlock(R, c)
  <2>1. /\ Kept(k, B, r, {b}) /\ k.brk = R.brk
        /\ Size(k, b) = e - b /\ NextBlock(k, b) = e /\ k.head[b].alloc = TRUE
        /\ \A c \in B : c # b => k.head[c] = R.head[c] /\ NextBlock(k, c) = NextBlock(R, c)
    BY <1>8, <1>9 DEF JoinedUpTo
  <2> QED BY <2>1 DEF IsFree
<1>11. /\ k.brk = h.brk
       /\ \A c \in B : c # b => k.head[c] = h.head[c] /\ NextBlock(k, c) = NextBlock(h, c)
                                /\ (IsFree(k, c) <=> IsFree(h, c))
  <2>1. \A c : NextBlock(R, c) = NextBlock(h, c)
    BY <1>5, TagsFrame
  <2> QED BY <1>5, <1>10, <2>1 DEF SameTags, IsFree
<1>12. b \in TakenIn(k, B)
  BY <1>3, <1>10 DEF TakenIn
<1>13. Kept(g, B, r, {}) /\ SameTags(k, g)
  BY <1>10, <1>12, KeptFilled
<1> HIDE DEF g
<1>14. NoTwoFree(k, B, {})
  BY <1>2, <1>10, <1>11 DEF NoTwoFree
<1>15. NoTwoFree(g, B, {}) /\ TakenIn(g, B) = TakenIn(k, B) /\ g.head = k.head /\ Size(g, b) = Size(k, b)
  BY <1>13, <1>14, TagsFrame DEF SameTags
<1>16. TakenIn(k, B) = TakenIn(h, B) \cup {b}
  BY <1>3, <1>10, <1>11 DEF TakenIn
<1>17. b \notin TakenIn(h, B)
  BY <1>3 DEF TakenIn
<1>18. \A c \in TakenIn(h, B) : g.head[c] = h.head[c]
  BY <1>11, <1>15, <1>17 DEF TakenIn
<1>19. Size(g, b) - n \in 0..2
  BY <1>4, <1>6, <1>10, <1>15
<1>20. Good(g, B)
  BY <1>13, <1>15 DEF Good
<1>21. Takes(h, B, b, n, g)
  BY <1>4, <1>15, <1>16, <1>17, <1>18, <1>19, <1>20 DEF Takes
<1> QED BY <1>11, <1>21 DEF g, k

\* The block is split.
LEMMA PlaceSplit ==
  ASSUME NEW h, NEW B, Good(h, B), NEW b \in FreeIn(h, B), NEW n \in Nat,
         n >= 3, Size(h, b) - n >= 3, ListFor(n) = ListFor(Size(h, b))
  PROVE  /\ Takes(h, B, b, n, Filled(Place(h, b, n), b))
         /\ Place(h, b, n).brk = h.brk
<1>1. PICK r : Kept(h, B, r, {})
  BY DEF Good
<1>2. NoTwoFree(h, B, {})
  BY DEF Good
<1> DEFINE m == b + n
<1> DEFINE R == RemoveFree(h, b)
<1> DEFINE p == SetBlock(SetBlock(R, b, n, TRUE), m, Size(R, b) - n, FALSE)
<1> DEFINE k == Place(h, b, n)
<1> DEFINE g == Filled(k, b)
<1> DEFINE B2 == B \cup {m}
<1>3. b \in B /\ IsFree(h, b)
  BY DEF FreeIn
<1>4. /\ b \in Int /\ Size(h, b) \in Nat /\ Size(h, b) >= 3 /\ Size(h, b) = h.head[b].size
      /\ b \in Addr /\ b # NoBlock
  BY <1>1, <1>3, KeptParts
<1>5. Kept(R, B, r, {b}) /\ SameTags(h, R)
  <2>1. Kept(R, B, r, {} \cup {b}) /\ SameTags(h, R)
    <3>1. b \notin {}
      OBVIOUS
    <3> QED BY <1>1, <3>1, KeptRemove
  <2>2. {} \cup {b} = {b}
    OBVIOUS
  <2> QED BY <2>1, <2>2
<1>6. Size(R, b) = Size(h, b) /\ R.brk = h.brk /\ R.head = h.head
      /\ \A c : NextBlock(R, c) = NextBlock(h, c)
  BY <1>5, TagsFrame DEF SameTags
<1>7. k = Coalesce(p, m).heap
  <2>1. h.head[b].size - n >= MinBlock
    BY <1>4, SizeAssumption
  <2>2. RemoveFree(SetBlock(h, b, n, TRUE), b) = SetBlock(R, b, n, TRUE)
    <3>1. n <= Size(h, b)
      BY <1>4
    <3> QED BY <1>1, <3>1, RemoveAfterCut
  <2>3. Size(R, b) = h.head[b].size
    BY <1>4, <1>6
  <2> HIDE DEF R
  <2> QED BY <2>1, <2>2, <2>3 DEF Place
<1> HIDE DEF R
<1>8. /\ Kept(p, B2, r, {b} \cup {m})
      /\ p.brk = R.brk /\ m \notin B
      /\ Size(p, b) = n /\ p.head[b].alloc = TRUE
      /\ Size(p, m) = Size(R, b) - n /\ p.head[m].alloc = FALSE
      /\ \A c \in B : c # b => p.head[c] = R.head[c] /\ NextBlock(p, c) = NextBlock(R, c)
  <2>1. b \in {b} /\ TRUE \in BOOLEAN /\ FALSE \in BOOLEAN /\ Size(R, b) - n >= 3 /\ b \in B
        /\ Kept(R, B, r, {b}) /\ n \in Nat /\ n >= 3
    BY <1>3, <1>5, <1>6
  <2>2. CutInTwo(R, B, r, {b}, b, n, TRUE, FALSE,
                 SetBlock(SetBlock(R, b, n, TRUE), b + n, Size(R, b) - n, FALSE))
    BY ONLY <2>1, KeptSplit
  <2>3. CutInTwo(R, B, r, {b}, b, n, TRUE, FALSE, p)
    BY <2>2
  <2> HIDE DEF p
  <2> QED BY <2>3 DEF CutInTwo
<1> HIDE DEF p
<1>9. m \in FreeIn(p, B2) /\ b \in TakenIn(p, B2) /\ m # b
  BY <1>3, <1>8 DEF FreeIn, TakenIn, IsFree
<1>10. NoTwoFree(p, B2, {m})
  <2>1. \A c \in B : c # b => (IsFree(p, c) <=> IsFree(h, c)) /\ NextBlock(p, c) = NextBlock(h, c)
    BY <1>6, <1>8 DEF IsFree
  <2>2. ~IsFree(p, b)
    BY <1>8 DEF IsFree
  <2> QED BY <1>2, <2>1, <2>2 DEF NoTwoFree
<1>11. Coalesced(p, B2, {b} \cup {m}, m, Coalesce(p, m))
  <2>1. ({b} \cup {m}) \ {m} \subseteq TakenIn(p, B2) /\ m \in {b} \cup {m}
    BY <1>9
  <2> HIDE DEF m, B2
  <2> QED BY ONLY <2>1, <1>8, <1>9, <1>10, CoalesceKeeps
<1> HIDE DEF k
<1>12. PICK D, s : /\ Kept(k, D, s, ({b} \cup {m}) \ {m}) /\ NoTwoFree(k, D, {})
                   /\ k.brk = p.brk /\ SameTaken(p, B2, k, D)
  BY <1>7, <1>11 DEF Coalesced
<1>13. ({b} \cup {m}) \ {m} = {b}
  BY <1>9
<1>14. b \in TakenIn(k, D) /\ k.head[b] = p.head[b]
  BY <1>9, <1>12 DEF SameTaken
<1>15. Kept(g, D, s, {}) /\ SameTags(k, g)
  BY <1>12, <1>13, <1>14, KeptFilled
<1> HIDE DEF g
<1>16. NoTwoFree(g, D, {}) /\ TakenIn(g, D) = TakenIn(k, D) /\ g.head = k.head /\ Size(g, b) = Size(k, b)
  BY <1>12, <1>15, TagsFrame DEF SameTags
<1>17. TakenIn(p, B2) = TakenIn(h, B) \cup {b}
  <2>1. \A c \in B : c # b => (IsFree(p, c) <=> IsFree(h, c))
    BY <1>6, <1>8 DEF IsFree
  <2>2. m \notin TakenIn(p, B2)
    BY <1>9 DEF FreeIn, TakenIn
  <2>3. b \notin TakenIn(h, B)
    BY <1>3 DEF TakenIn
  <2> QED BY <1>8, <1>9, <2>1, <2>2, <2>3 DEF TakenIn
<1>18. b \notin TakenIn(h, B)
  BY <1>3 DEF TakenIn
<1>19. \A c \in TakenIn(h, B) : g.head[c] = h.head[c]
  <2>1. \A c \in TakenIn(h, B) : c \in B /\ c # b /\ c \in TakenIn(p, B2)
    BY <1>17, <1>18 DEF TakenIn
  <2> QED BY <2>1, <1>6, <1>8, <1>12, <1>16 DEF SameTaken
<1>20. Size(g, b) - n \in 0..2
  <2>1. Size(k, b) = Size(p, b)
    BY <1>14 DEF Size
  <2> QED BY <2>1, <1>8, <1>16
<1>21. Good(g, D)
  BY <1>15, <1>16 DEF Good
<1>22. Takes(h, B, b, n, g)
  BY <1>4, <1>12, <1>16, <1>17, <1>18, <1>19, <1>20, <1>21 DEF Takes, SameTaken
<1>23. k.brk = h.brk
  BY <1>6, <1>8, <1>12
<1> QED BY <1>22, <1>23 DEF g, k

\* place, if the rest of the block goes to the list it came from.
LEMMA PlaceKeeps ==
  ASSUME NEW h, NEW B, Good(h, B), NEW b \in FreeIn(h, B), NEW n \in Nat,
         n >= 3, n <= Size(h, b),
         Size(h, b) - n >= MinBlock => ListFor(n) = ListFor(Size(h, b))
  PROVE  /\ Takes(h, B, b, n, Filled(Place(h, b, n), b))
         /\ Place(h, b, n).brk = h.brk
<1>1. Size(h, b) \in Nat
  <2>1. PICK r : Kept(h, B, r, {})
    BY DEF Good
  <2> QED BY <2>1, KeptParts DEF FreeIn
<1>2. CASE Size(h, b) - n < 3
  BY <1>2, PlaceWhole
<1>3. CASE Size(h, b) - n >= 3
  BY <1>3, SizeAssumption, PlaceSplit
<1> QED BY <1>1, <1>2, <1>3

----------------------------------------------------------------------------
\* extend_heap: a free block of n units at least, if there is room for it.
Grows(h, B, n, got) ==
  IF h.brk + HighestOf(n, MinBlock) > HeapMax THEN got = Failed(h)
  ELSE /\ \E D : /\ Good(got.heap, D)
                 /\ got.block \in FreeIn(got.heap, D)
                 /\ Size(got.heap, got.block) >= n
                 /\ SameTaken(h, B, got.heap, D)
       /\ got.heap.brk = h.brk + HighestOf(n, MinBlock)

\* The new block joins a free block at the end of the heap.
LEMMA ExtendHeapKeeps ==
  ASSUME NEW h, NEW B, Good(h, B), NEW n \in Nat
  PROVE  Grows(h, B, n, ExtendHeap(h, n))
<1> DEFINE m == HighestOf(n, MinBlock)
<1> DEFINE b == h.brk
<1> DEFINE g == Extended(h, m)
<1>1. m \in Nat /\ m >= 3 /\ m >= n
  BY SizeAssumption DEF HighestOf
<1>2. PICK r : Kept(h, B, r, {})
  BY DEF Good
<1>3. NoTwoFree(h, B, {})
  BY DEF Good
<1>4. h \in HeapType /\ Tiled(h, B)
  BY <1>2, KeptParts
<1>5. b \in Addr /\ b >= First /\ b # NoBlock
  BY <1>4, TiledPlaces DEF First, NoBlock, Addr
<1>6. CASE b + m > HeapMax
  <2>1. Sbrk(h, m) = Failed(h)
    BY <1>6 DEF Sbrk
  <2>2. Failed(h).block = NoBlock
    BY DEF Failed
  <2>3. ExtendHeap(h, n) = Failed(h)
    BY <2>1, <2>2 DEF ExtendHeap
  <2> QED BY <1>6, <2>3 DEF Grows
<1>7. CASE ~(b + m > HeapMax)
  <2> DEFINE k == [h EXCEPT !.brk = @ + m]
  <2>1. Sbrk(h, m) = [heap |-> k, block |-> b]
    BY <1>7 DEF Sbrk
  <2> HIDE DEF m
  <2>2. ExtendHeap(h, n) = Coalesce(g, b)
    <3>1. ExtendHeap(h, n) =
            LET got == Sbrk(h, m)
                a == got.block
                epilogue == [got.heap EXCEPT !.head[a + m] = Tag(0, TRUE)]
            IN IF a = NoBlock THEN Failed(h)
               ELSE Coalesce(SetBlock(epilogue, a, m, FALSE), a)
      BY DEF ExtendHeap, m
    <3>2. Sbrk(h, m).heap = k /\ Sbrk(h, m).block = b
      BY <2>1
    <3> HIDE DEF k
    <3>3. ExtendHeap(h, n)
            = Coalesce(SetBlock([k EXCEPT !.head[b + m] = Tag(0, TRUE)], b, m, FALSE), b)
      BY <1>5, <3>1, <3>2
    <3> QED BY <3>3 DEF Extended, k
  <2>3. b + m <= HeapMax
    BY <1>1, <1>5, <1>7, SizeAssumption DEF Addr
  <2>4. Longer(h, B, r, {}, m, g)
    BY <1>1, <1>2, <2>3, KeptExtended
  <2> DEFINE D == B \cup {b}
  <2> HIDE DEF g
  <2>5. /\ Kept(g, D, r, {b}) /\ g.brk = b + m /\ b \notin B
        /\ Size(g, b) = m /\ IsFree(g, b)
        /\ \A c \in B : g.head[c] = h.head[c] /\ NextBlock(g, c) = NextBlock(h, c)
                        /\ (IsFree(g, c) <=> IsFree(h, c))
    <3>1. {} \cup {b} = {b}
      OBVIOUS
    <3> QED BY <2>4, <3>1 DEF Longer, IsFree
  <2>6. NoTwoFree(g, D, {b})
    BY <1>3, <2>5 DEF NoTwoFree
  <2>7. b \in FreeIn(g, D)
    BY <2>5 DEF FreeIn
  <2>8. Coalesced(g, D, {b}, b, Coalesce(g, b))
    <3>1. {b} \ {b} \subseteq TakenIn(g, D) /\ b \in {b}
      OBVIOUS
    <3> HIDE DEF D, b
    <3> QED BY ONLY <3>1, <2>5, <2>6, <2>7, CoalesceKeeps
  <2> DEFINE got == ExtendHeap(h, n)
  <2>9. Coalesced(g, D, {b}, b, got)
    BY <2>2, <2>8
  <2> HIDE DEF got
  <2>10. PICK E, s :
           /\ Kept(got.heap, E, s, {b} \ {b}) /\ NoTwoFree(got.heap, E, {})
           /\ got.block \in FreeIn(got.heap, E) /\ Size(got.heap, got.block) >= Size(g, b)
           /\ got.heap.brk = g.brk
           /\ SameTaken(g, D, got.heap, E)
    BY <2>9 DEF Coalesced
  <2>11. Good(got.heap, E)
    <3>1. {b} \ {b} = {}
      OBVIOUS
    <3>2. Kept(got.heap, E, s, {})
      BY <2>10, <3>1
    <3> QED BY <2>10, <3>2 DEF Good
  <2>12. SameTaken(h, B, got.heap, E)
    <3>1. TakenIn(g, D) = TakenIn(h, B)
      BY <2>5 DEF TakenIn
    <3>2. \A c \in TakenIn(h, B) : g.head[c] = h.head[c]
      BY <2>5 DEF TakenIn
    <3> QED BY <2>10, <3>1, <3>2 DEF SameTaken
  <2>13. Size(got.heap, got.block) >= n
    <3>1. Size(got.heap, got.block) \in Nat
      <4>1. got.block \in E
        BY <2>10 DEF FreeIn
      <4> QED BY <2>11, <4>1, GoodParts
    <3> QED BY <1>1, <2>5, <2>10, <3>1
  <2>14. got.heap.brk = h.brk + m
    BY <2>5, <2>10
  <2>15. got.block \in FreeIn(got.heap, E)
    BY <2>10
  <2> QED BY <1>7, <2>11, <2>12, <2>13, <2>14, <2>15 DEF Grows, m, got
<1> QED BY <1>6, <1>7

----------------------------------------------------------------------------
\* The units of a block hold the payload and the tags.
LEMMA AdjustedIs ==
  ASSUME NEW bytes \in Nat
  PROVE  /\ AdjustedSize(bytes) \in Nat /\ AdjustedSize(bytes) >= 3
         /\ AdjustedSize(bytes) * Alignment >= bytes + Alignment
<1> DEFINE q == (bytes + 8 - 1) \div 8
<1>1. q \in Nat /\ q * 8 >= bytes
  OBVIOUS
<1>2. AdjustedSize(bytes) = IF q + 1 > 3 THEN q + 1 ELSE 3
  BY SizeAssumption DEF AdjustedSize, HighestOf, Alignment
<1> HIDE DEF q
<1> QED BY <1>1, <1>2 DEF Alignment

\* find_fit and extend_heap, then place: the block comes from the list for the
\* request, or from the heap's growth when no block of that list is large
\* enough.
Serves(h, B, n, got) ==
  \/ got = Failed(h)
  \/ /\ Takes(h, B, got.block, n, got.heap)
     /\ got.heap.brk \in Addr /\ got.heap.brk >= h.brk
     /\ got.heap.brk > h.brk => \A b \in OnList(h, B, ListFor(n)) : Size(h, b) < n

\* A request that does not cross the lists.
LEMMA AllocatedKeeps ==
  ASSUME NEW B, Good(heap, B), NEW bytes \in Nat, ~CrossesLists(bytes)
  PROVE  /\ Serves(heap, B, AdjustedSize(bytes), Allocated(heap, bytes))
         /\ bytes = 0 => Allocated(heap, bytes) = Failed(heap)
<1> DEFINE n == AdjustedSize(bytes)
<1> DEFINE got == BlockFor(heap, n)
<1> DEFINE c == got.block
<1> DEFINE h == got.heap
<1> DEFINE k == Place(h, c, n)
<1> DEFINE g == Filled(k, c)
<1>1. n \in Nat /\ n >= 3
  BY AdjustedIs
<1>2. bytes = 0 \/ c = NoBlock => Allocated(heap, bytes) = Failed(heap)
  BY DEF Allocated
<1>3. ~(bytes = 0 \/ c = NoBlock) => Allocated(heap, bytes) = [heap |-> g, block |-> c]
  BY DEF Allocated
<1>4. c # NoBlock /\ n <= BigSize /\ h.head[c].size > BigSize => ~(h.head[c].size - n >= MinBlock)
  BY DEF CrossesLists
<1> DEFINE fit == FindFit(heap, n)
<1>5. Fits(heap, B, n, fit)
  <2>1. PICK r : Kept(heap, B, r, {})
    BY DEF Good
  <2> HIDE DEF n, fit
  <2>2. Fits(heap, B, n, FindFit(heap, n))
    BY <1>1, <2>1, FindFitIs
  <2> QED BY <2>2 DEF fit
<1>6. got = IF fit # NoBlock THEN [heap |-> heap, block |-> fit]
                              ELSE ExtendHeap(heap, HighestOf(n, Chunk))
  BY DEF BlockFor
<1> HIDE DEF n, got, fit
<1>7. heap.brk \in Addr
  BY GoodParts
<1>8. SUFFICES ASSUME bytes # 0, c # NoBlock
               PROVE  Serves(heap, B, n, [heap |-> g, block |-> c])
  BY <1>2, <1>3 DEF Serves, n
<1>9. \E D : /\ Good(h, D) /\ c \in FreeIn(h, D) /\ Size(h, c) >= n
             /\ SameTaken(heap, B, h, D)
             /\ h.brk >= heap.brk /\ h.brk \in Addr
             /\ h.brk > heap.brk => \A b \in OnList(heap, B, ListFor(n)) : Size(heap, b) < n
             /\ Size(h, c) - n >= MinBlock => ListFor(n) = ListFor(Size(h, c))
  <2>1. CASE fit # NoBlock
    <3>1. h = heap /\ c = fit
      BY <2>1, <1>6
    <3>2. c \in OnList(heap, B, ListFor(n)) /\ n <= Size(heap, c)
      BY <2>1, <3>1, <1>5 DEF Fits
    <3>3. c \in FreeIn(h, B) /\ ListFor(Size(h, c)) = ListFor(n)
      BY <3>1, <3>2 DEF OnList, FreeIn
    <3>4. c \in B /\ Size(h, c) \in Nat
      BY <3>1, <3>3, GoodParts DEF FreeIn
    <3>5. Size(h, c) >= n
      BY <3>1, <3>2, <3>4, <1>1
    <3>6. SameTaken(heap, B, h, B)
      BY <3>1 DEF SameTaken
    <3>7. h.brk >= heap.brk /\ ~(h.brk > heap.brk) /\ h.brk \in Addr
      BY <3>1, <1>7 DEF Addr
    <3> HIDE DEF h, c
    <3> QED BY <3>1, <3>3, <3>5, <3>6, <3>7
  <2>2. CASE fit = NoBlock
    <3> DEFINE m == HighestOf(n, Chunk)
    <3>1. m \in Nat /\ m >= n
      BY <1>1, SizeAssumption DEF HighestOf
    <3>2. got = ExtendHeap(heap, m)
      BY <2>2, <1>6
    <3> HIDE DEF m
    <3>3. Grows(heap, B, m, got)
      BY <3>1, <3>2, ExtendHeapKeeps
    <3>4. got # Failed(heap)
      BY <1>8 DEF Failed
    <3>5. /\ \E D : /\ Good(h, D)
                    /\ c \in FreeIn(h, D)
                    /\ Size(h, c) >= m
                    /\ SameTaken(heap, B, h, D)
          /\ h.brk = heap.brk + HighestOf(m, MinBlock)
          /\ ~(heap.brk + HighestOf(m, MinBlock) > HeapMax)
      BY <3>3, <3>4 DEF Grows
    <3>6. PICK D : /\ Good(h, D)
                   /\ c \in FreeIn(h, D)
                   /\ Size(h, c) >= m
                   /\ SameTaken(heap, B, h, D)
      BY <3>5
    <3> HIDE DEF h, c
    <3>7. HighestOf(m, MinBlock) \in Nat
      BY <3>1, SizeAssumption DEF HighestOf
    <3>8. h.brk >= heap.brk /\ h.brk \in Addr
      BY <3>5, <3>7, <1>7, SizeAssumption DEF Addr
    <3>9. c \in D /\ Size(h, c) \in Nat /\ Size(h, c) = h.head[c].size
      BY <3>6, GoodParts DEF FreeIn
    <3>10. Size(h, c) >= n
      BY <3>1, <3>6, <3>9, <1>1
    <3>11. Size(h, c) - n >= MinBlock => ListFor(n) = ListFor(Size(h, c))
      <4>1. c # NoBlock
        BY <1>8 DEF c
      <4>2. n <= BigSize /\ Size(h, c) > BigSize => ~(Size(h, c) - n >= MinBlock)
        BY <4>1, <3>9, <1>4 DEF h, c
      <4>3. BigSize \in Nat
        BY SizeAssumption
      <4> QED BY <4>2, <4>3, <3>9, <3>10, <1>1 DEF ListFor
    <3>12. \A b \in OnList(heap, B, ListFor(n)) : Size(heap, b) < n
      <4>1. NoBlock \notin OnList(heap, B, ListFor(n))
        BY GoodParts DEF OnList
      <4> QED BY <2>2, <4>1, <1>5 DEF Fits
    <3> QED BY <3>6, <3>8, <3>10, <3>11, <3>12
  <2> QED BY <2>1, <2>2
<1> HIDE DEF h, c
<1>10. PICK D : /\ Good(h, D) /\ c \in FreeIn(h, D) /\ Size(h, c) >= n
                /\ SameTaken(heap, B, h, D)
                /\ h.brk >= heap.brk /\ h.brk \in Addr
                /\ h.brk > heap.brk => \A b \in OnList(heap, B, ListFor(n)) : Size(heap, b) < n
                /\ Size(h, c) - n >= MinBlock => ListFor(n) = ListFor(Size(h, c))
  BY <1>9
<1>11. n <= Size(h, c)
  <2>1. c \in D
    BY <1>10 DEF FreeIn
  <2>2. Size(h, c) \in Nat
    BY <1>10, <2>1, GoodParts
  <2> QED BY <2>2, <1>1, <1>10
<1>12. Takes(h, D, c, n, g) /\ k.brk = h.brk
  BY <1>1, <1>10, <1>11, PlaceKeeps
<1>13. g.brk = h.brk
  <2> HIDE DEF k
  <2>1. g.brk = k.brk
    BY DEF Filled
  <2> QED BY <2>1, <1>12
<1> HIDE DEF k, g
<1>14. Takes(heap, B, c, n, g)
  <2>1. TakenIn(h, D) = TakenIn(heap, B) /\ \A b \in TakenIn(heap, B) : h.head[b] = heap.head[b]
    BY <1>10 DEF SameTaken
  <2> QED BY <2>1, <1>12 DEF Takes
<1>15. Serves(heap, B, n, [heap |-> g, block |-> c])
  BY <1>10, <1>13, <1>14 DEF Serves
<1> QED BY <1>15

----------------------------------------------------------------------------
\* mm_init: the prologue, then the first extension.
LEMMA PrologueGood == Good(PrologueHeap, {})
<1> DEFINE h == PrologueHeap
<1> DEFINE r == [p \in Addr |-> 0]
<1> USE SizeAssumption DEF Addr, First
<1>1. 1 \in Addr /\ 2 \in Addr /\ NoBlock \in Addr
  BY DEF NoBlock
<1>2. Tag(1, TRUE) \in TagType /\ Tag(0, TRUE) \in TagType /\ JunkTag \in TagType
  BY DEF Tag, TagType, JunkTag
<1>3. /\ h.head \in [Addr -> TagType] /\ h.head[1] = Tag(1, TRUE) /\ h.head[2] = Tag(0, TRUE)
      /\ \A p \in Addr : p # 1 /\ p # 2 => h.head[p] = JunkTag
  <2> DEFINE f == [p \in Addr |-> CASE p = 1 -> Tag(1, TRUE) [] p = 2 -> Tag(0, TRUE)
                                    [] OTHER -> JunkTag]
  <2>1. h.head = f
    BY DEF PrologueHeap
  <2> DEFINE V(p) == CASE p = 1 -> Tag(1, TRUE) [] p = 2 -> Tag(0, TRUE) [] OTHER -> JunkTag
  <2>2. V(1) = Tag(1, TRUE)
    <3>1. 1 # 2
      OBVIOUS
    <3> QED BY <3>1, Zenon
  <2>3. V(2) = Tag(0, TRUE)
    <3>1. 2 # 1
      OBVIOUS
    <3> QED BY <3>1, Zenon
  <2>4. \A p : p # 1 /\ p # 2 => V(p) = JunkTag
    BY Zenon
  <2>5. f = [p \in Addr |-> V(p)]
    OBVIOUS
  <2> HIDE DEF f, h, V
  <2>6. \A p \in Addr : V(p) \in TagType
    BY <1>2, <2>2, <2>3, <2>4
  <2>7. f \in [Addr -> TagType] /\ \A p \in Addr : f[p] = V(p)
    BY <2>5, <2>6
  <2> QED BY <1>1, <2>1, <2>2, <2>3, <2>4, <2>7
<1>4. /\ h.foot \in [Addr -> TagType] /\ h.foot[2] = Tag(1, TRUE)
      /\ \A p \in Addr : p # 2 => h.foot[p] = JunkTag
  <2> DEFINE f == [p \in Addr |-> IF p = 2 THEN Tag(1, TRUE) ELSE JunkTag]
  <2>1. h.foot = f
    BY DEF PrologueHeap
  <2> HIDE DEF h
  <2> QED BY <1>1, <1>2, <2>1
<1>5. /\ h.next \in [Addr -> LinkType] /\ h.prev \in [Addr -> LinkType]
      /\ \A p \in Addr : h.next[p] = Junk /\ h.prev[p] = Junk
  <2> DEFINE f == [p \in Addr |-> Junk]
  <2>1. h.next = f /\ h.prev = f
    BY DEF PrologueHeap
  <2>2. Junk \in LinkType
    BY DEF LinkType
  <2> HIDE DEF h
  <2> QED BY <2>1, <2>2
<1>6. /\ h.list \in [ListNames -> Addr] /\ \A l \in ListNames : h.list[l] = NoBlock
      /\ h.brk = 2
  BY <1>1 DEF PrologueHeap, ListNames
<1>7. h \in HeapType
  <2>1. h = [head |-> h.head, foot |-> h.foot, next |-> h.next, prev |-> h.prev,
             list |-> h.list, brk |-> h.brk]
    BY DEF PrologueHeap
  <2> HIDE DEF h
  <2>2. h.brk \in Addr
    BY <1>1, <1>6
  <2> DEFINE hd == h.head
  <2> DEFINE ft == h.foot
  <2> DEFINE nx == h.next
  <2> DEFINE pv == h.prev
  <2> DEFINE ls == h.list
  <2> DEFINE bk == h.brk
  <2>3. /\ hd \in [Addr -> TagType] /\ ft \in [Addr -> TagType] /\ nx \in [Addr -> LinkType]
        /\ pv \in [Addr -> LinkType] /\ ls \in [ListNames -> Addr] /\ bk \in Addr
    BY <1>3, <1>4, <1>5, <1>6, <2>2
  <2>4. h = [head |-> hd, foot |-> ft, next |-> nx, prev |-> pv, list |-> ls, brk |-> bk]
    BY <2>1
  <2>5. HeapType = [head : [Addr -> TagType], foot : [Addr -> TagType],
                    next : [Addr -> LinkType], prev : [Addr -> LinkType],
                    list : [ListNames -> Addr], brk : Addr]
    BY DEF HeapType, TagType, LinkType, ListNames
  <2> HIDE DEF hd, ft, nx, pv, ls, bk, Addr
  <2> QED BY ONLY <2>3, <2>4, <2>5
<1> HIDE DEF h
<1>8. Tiled(h, {})
  BY <1>3, <1>4, <1>6 DEF Tiled
<1>9. \A l \in ListNames : Linked(h, l, OnList(h, {}, l) \ {}, r)
  BY <1>6 DEF Linked, OnList
<1>10. JunkLinks(h, FreeIn(h, {}) \cup {})
  BY <1>5 DEF JunkLinks
<1>11. r \in [Addr -> Nat]
  OBVIOUS
<1> HIDE DEF r, Addr
<1>12. Kept(h, {}, r, {})
  BY <1>7, <1>8, <1>9, <1>10, <1>11 DEF Kept
<1>13. NoTwoFree(h, {}, {})
  BY DEF NoTwoFree
<1> QED BY <1>12, <1>13 DEF Good, h

\* The heap that it leaves has one, and it is free.
LEMMA InitialHeapGood ==
  /\ \E B : Good(InitialHeap, B) /\ TakenIn(InitialHeap, B) = {}
  /\ InitialHeap.brk = First + MinBlock
<1> DEFINE got == ExtendHeap(PrologueHeap, MinBlock)
<1>1. MinBlock \in Nat /\ HighestOf(MinBlock, MinBlock) = MinBlock
  BY SizeAssumption DEF HighestOf
<1>2. Grows(PrologueHeap, {}, MinBlock, got)
  BY <1>1, PrologueGood, ExtendHeapKeeps
<1> HIDE DEF got
<1>3. PrologueHeap.brk = First
  BY DEF PrologueHeap
<1>4. ~(First + MinBlock > HeapMax)
  BY SizeAssumption DEF First
<1>5. /\ \E D : Good(got.heap, D) /\ SameTaken(PrologueHeap, {}, got.heap, D)
      /\ got.heap.brk = First + MinBlock
  BY <1>1, <1>2, <1>3, <1>4 DEF Grows
<1>6. TakenIn(PrologueHeap, {}) = {}
  BY DEF TakenIn
<1>7. \E D : Good(got.heap, D) /\ TakenIn(got.heap, D) = {}
  BY <1>5, <1>6 DEF SameTaken
<1> QED BY <1>5, <1>7 DEF got, InitialHeap

----------------------------------------------------------------------------
(***************************************************************************)
(* The inductive invariant: there are blocks B that make the heap sound,   *)
(* and the caller's blocks are the allocated ones of B.                    *)
(***************************************************************************)

\* The caller's blocks are the allocated ones, each with room for its request
\* and less than a block to spare.
Accounted(h, B, known) ==
  /\ DOMAIN known = TakenIn(h, B)
  /\ \A b \in DOMAIN known : /\ known[b] \in Request
                             /\ Size(h, b) - AdjustedSize(known[b]) \in 0..2

Sound(h, known) == \E B : Good(h, B) /\ Accounted(h, B, known)

MMInv == Sound(heap, live) /\ status \in {"running", "segfault"}

\* A block that is handed out.
LEMMA TakesAccounted ==
  ASSUME NEW h, NEW B, NEW known, Accounted(h, B, known), NEW b, NEW bytes \in Request,
         NEW g, Takes(h, B, b, AdjustedSize(bytes), g)
  PROVE  /\ Sound(g, With(known, b, bytes))
         /\ b \notin DOMAIN known /\ b \in Addr \ {NoBlock}
<1> DEFINE new == With(known, b, bytes)
<1>1. /\ b \notin DOMAIN known /\ b \in Addr \ {NoBlock} /\ DOMAIN known = TakenIn(h, B)
      /\ \A c \in DOMAIN known : /\ known[c] \in Request
                                 /\ Size(h, c) - AdjustedSize(known[c]) \in 0..2
  BY DEF Takes, Accounted
<1>2. PICK D : /\ Good(g, D)
               /\ TakenIn(g, D) = TakenIn(h, B) \cup {b}
               /\ \A c \in TakenIn(h, B) : g.head[c] = h.head[c]
               /\ Size(g, b) - AdjustedSize(bytes) \in 0..2
  BY DEF Takes
<1>3. DOMAIN new = DOMAIN known \cup {b} /\ new[b] = bytes
      /\ \A c \in DOMAIN known : c # b => new[c] = known[c]
  BY DEF With
<1> HIDE DEF new
<1>4. \A c \in DOMAIN known : Size(g, c) = Size(h, c) /\ c # b
  BY <1>1, <1>2 DEF Size
<1>5. Accounted(g, D, new)
  <2>1. DOMAIN new = TakenIn(g, D)
    BY <1>1, <1>2, <1>3
  <2>2. \A c \in DOMAIN new : /\ new[c] \in Request
                              /\ Size(g, c) - AdjustedSize(new[c]) \in 0..2
    BY <1>1, <1>2, <1>3, <1>4
  <2> QED BY <2>1, <2>2 DEF Accounted
<1> QED BY <1>1, <1>2, <1>5 DEF Sound, new

\* A block that is given back.
LEMMA ReleasedAccounted ==
  ASSUME NEW h, NEW known, Sound(h, known), NEW b \in DOMAIN known, NEW new,
         DOMAIN new = DOMAIN known \ {b}, \A c \in DOMAIN new : new[c] = known[c]
  PROVE  Sound(Released(h, b), new) /\ Released(h, b).brk = h.brk
<1>1. PICK B : Good(h, B) /\ Accounted(h, B, known)
  BY DEF Sound
<1>2. b \in TakenIn(h, B)
  BY <1>1 DEF Accounted
<1>3. (\E D : Keeps(h, B, {b}, Released(h, b), D)) /\ Released(h, b).brk = h.brk
  BY <1>1, <1>2, ReleasedKeeps
<1> DEFINE g == Released(h, b)
<1> HIDE DEF g
<1>4. PICK D : Keeps(h, B, {b}, g, D)
  BY <1>3 DEF g
<1>5. Accounted(g, D, new)
  BY <1>1, <1>4 DEF Accounted, Keeps, Size
<1>6. Good(g, D)
  BY <1>4 DEF Keeps
<1> QED BY <1>3, <1>5, <1>6 DEF Sound, g

\* A request that the allocator serves, and one that it refuses.
LEMMA AllocatedSound ==
  ASSUME MMInv, NEW bytes \in Request, ~CrossesLists(bytes),
         NEW got, got = Allocated(heap, bytes)
  PROVE  /\ got.block = NoBlock => got = Failed(heap)
         /\ bytes = 0 => got.block = NoBlock
         /\ got.block # NoBlock =>
              /\ Sound(got.heap, With(live, got.block, bytes))
              /\ got.block \notin DOMAIN live /\ got.block \in Addr
              /\ got.heap.brk \in Addr /\ got.heap.brk >= heap.brk
<1>1. PICK B : Good(heap, B) /\ Accounted(heap, B, live)
  BY DEF MMInv, Sound
<1>2. bytes \in Nat
  BY SizeAssumption
<1>3. Serves(heap, B, AdjustedSize(bytes), got) /\ (bytes = 0 => got = Failed(heap))
  BY <1>1, <1>2, AllocatedKeeps
<1>4. Failed(heap).block = NoBlock
  BY DEF Failed
<1>5. CASE got = Failed(heap)
  BY <1>4, <1>5
<1>6. CASE got # Failed(heap)
  <2>1. Takes(heap, B, got.block, AdjustedSize(bytes), got.heap)
    BY <1>3, <1>6 DEF Serves
  <2>2. got.heap.brk \in Addr /\ got.heap.brk >= heap.brk
    BY <1>3, <1>6 DEF Serves
  <2> QED BY <2>1, <2>2, <1>1, <1>3, <1>4, <1>6, TakesAccounted
<1> QED BY <1>5, <1>6

\* The heap after mm_init serves no caller.
LEMMA InitSound == Sound(InitialHeap, <<>>)
<1> DEFINE none == <<>>
<1>1. DOMAIN none = {}
  OBVIOUS
<1> HIDE DEF none
<1>2. \A B : TakenIn(InitialHeap, B) = {} => Accounted(InitialHeap, B, none)
  BY <1>1 DEF Accounted
<1>3. Sound(InitialHeap, none)
  BY <1>2, InitialHeapGood DEF Sound
<1> QED BY <1>3 DEF none

\* The invariant is inductive.
LEMMA InitMMInv == Init => MMInv
BY InitSound DEF Init, MMInv

\* Every call keeps it.
LEMMA StepMMInv == MMInv /\ [SegregatedNext]_vars => MMInv'
<1> SUFFICES ASSUME MMInv, [SegregatedNext]_vars PROVE MMInv'
  OBVIOUS
<1>1. ASSUME NEW bytes \in Request, ~CrossesLists(bytes), Malloc(bytes) PROVE MMInv'
  <2> DEFINE got == Allocated(heap, bytes)
  <2>1. /\ got.block = NoBlock => got = Failed(heap)
        /\ got.block # NoBlock => Sound(got.heap, With(live, got.block, bytes))
    BY <1>1, AllocatedSound
  <2>2. heap' = got.heap /\ status' = status
        /\ live' = IF got.block = NoBlock THEN live ELSE With(live, got.block, bytes)
    BY <1>1 DEF Malloc
  <2> HIDE DEF got
  <2>3. got = Failed(heap) => got.heap = heap
    BY DEF Failed
  <2> QED BY <2>1, <2>2, <2>3 DEF MMInv
<1>2. ASSUME NEW bytes \in Request, ~CrossesLists(bytes), Calloc(bytes) PROVE MMInv'
  <2> DEFINE got == Allocated(heap, bytes)
  <2>1. /\ got.block = NoBlock => got = Failed(heap)
        /\ got.block # NoBlock => Sound(got.heap, With(live, got.block, bytes))
    BY <1>2, AllocatedSound
  <2>2. /\ heap' = got.heap
        /\ status' = status \/ status' \in {"running", "segfault"}
        /\ live' = IF got.block = NoBlock THEN live ELSE With(live, got.block, bytes)
    BY <1>2 DEF Calloc
  <2> HIDE DEF got
  <2>3. got = Failed(heap) => got.heap = heap
    BY DEF Failed
  <2> QED BY <2>1, <2>2, <2>3 DEF MMInv
<1>3. ASSUME NEW b \in DOMAIN live, Free(b) PROVE MMInv'
  <2>1. /\ DOMAIN Without(b) = DOMAIN live \ {b}
        /\ \A c \in DOMAIN Without(b) : Without(b)[c] = live[c]
    BY DEF Without
  <2>2. Sound(Released(heap, b), Without(b))
    BY <2>1, ReleasedAccounted DEF MMInv
  <2> QED BY <1>3, <2>2 DEF Free, MMInv
<1>4. ASSUME NEW b \in DOMAIN live, NEW bytes \in Request, ~CrossesLists(bytes),
             Realloc(b, bytes)
      PROVE MMInv'
  <2> DEFINE got == Allocated(heap, bytes)
  <2> DEFINE new == With(live, got.block, bytes)
  <2> DEFINE rest == With(Without(b), got.block, bytes)
  <2>1. /\ got.block = NoBlock => got = Failed(heap)
        /\ got.block # NoBlock =>
             Sound(got.heap, new) /\ got.block \notin DOMAIN live
    BY <1>4, AllocatedSound
  <2>2. status' = status
    BY <1>4 DEF Realloc
  <2>3. CASE heap' = Released(heap, b) /\ live' = Without(b)
    <3>1. /\ DOMAIN Without(b) = DOMAIN live \ {b}
          /\ \A c \in DOMAIN Without(b) : Without(b)[c] = live[c]
      BY DEF Without
    <3>2. Sound(Released(heap, b), Without(b))
      BY <3>1, ReleasedAccounted DEF MMInv
    <3> QED BY <2>2, <2>3, <3>2 DEF MMInv
  <2>4. CASE got.block = NoBlock /\ heap' = got.heap /\ live' = live
    BY <2>1, <2>2, <2>4 DEF MMInv, Failed
  <2>5. CASE got.block # NoBlock /\ heap' = Released(got.heap, b) /\ live' = rest
    <3> DEFINE c == got.block
    <3> HIDE DEF got
    <3>1. /\ DOMAIN new = DOMAIN live \cup {c} /\ DOMAIN rest = (DOMAIN live \ {b}) \cup {c}
          /\ \A d \in DOMAIN new : new[d] = IF d = c THEN bytes ELSE live[d]
          /\ \A d \in DOMAIN rest : rest[d] = IF d = c THEN bytes ELSE live[d]
      BY DEF With, Without
    <3> HIDE DEF new, rest
    <3>2. c # b
      BY <2>1, <2>5
    <3>3. b \in DOMAIN new /\ DOMAIN rest = DOMAIN new \ {b}
          /\ \A d \in DOMAIN rest : rest[d] = new[d]
      BY <3>1, <3>2
    <3>4. Sound(Released(got.heap, b), rest)
      BY <2>1, <2>5, <3>3, ReleasedAccounted
    <3> QED BY <2>2, <2>5, <3>4 DEF MMInv
  <2> QED BY <1>4, <2>3, <2>4, <2>5 DEF Realloc
<1>5. CASE Reset
  BY <1>5, InitSound DEF Reset, MMInv
<1>6. CASE UNCHANGED vars
  BY <1>6 DEF MMInv, vars
<1> QED BY <1>1, <1>2, <1>3, <1>4, <1>5, <1>6 DEF SegregatedNext

----------------------------------------------------------------------------
(***************************************************************************)
(* What the checks of the heap compute: the walk over the headers finds    *)
(* the blocks, and the walk over the links of a list its blocks.           *)
(***************************************************************************)

\* The walk over the headers.
LEMMA BlocksAre ==
  ASSUME NEW B, Good(heap, B)
  PROVE  Blocks = B /\ FreeBlocks = FreeIn(heap, B)
<1> DEFINE h == heap
<1> DEFINE P == First..HeapMax
<1> DEFINE E == B \cup {h.brk}
<1> DEFINE Starts(w, b) == \/ b = First
                           \/ \E c \in First..(b - MinBlock) : NextBlock(h, c) = b /\ w[c]
<1> DEFINE IsStarts(w) == w = [b \in P |-> Starts(w, b)]
<1> DEFINE starts == CHOOSE w : IsStarts(w)
<1>1. /\ h \in HeapType /\ Tiled(h, B) /\ h.brk \in Addr
      /\ \A b \in B : /\ b \in Int /\ b >= First /\ b < h.brk
                      /\ Size(h, b) \in Nat /\ Size(h, b) >= 3
                      /\ NextBlock(h, b) = b + Size(h, b)
                      /\ NextBlock(h, b) \in E
  BY GoodParts
<1>2. First \in E /\ (\A x \in E : x # First => \E a \in B : NextBlock(h, a) = x)
      /\ h.head[h.brk] = Tag(0, TRUE)
  BY <1>1, TiledFacts
<1>3. h.brk >= First /\ h.brk \in Int /\ h.brk <= HeapMax /\ MinBlock = 3
      /\ First \in Nat /\ HeapMax \in Nat
  BY <1>1, TiledPlaces, SizeAssumption DEF Addr, First
<1>4. NextBlock(h, h.brk) = h.brk
  BY <1>2, <1>3 DEF NextBlock, Tag
<1>5. Blocks = {b \in First..(h.brk - 1) : starts[b]}
  BY DEF Blocks
<1> HIDE DEF starts
<1>6. E \subseteq P /\ \A p \in P : p \in Int /\ p >= First
  BY <1>1, <1>3
<1>7. \A b \in P :
        b \in E <=> \/ b = First
                    \/ \E c \in First..(b - MinBlock) : NextBlock(h, c) = b /\ c \in E
  <2> TAKE b \in P
  <2>1. ASSUME b \in E, b # First
        PROVE  \E c \in First..(b - MinBlock) : NextBlock(h, c) = b /\ c \in E
    <3>1. PICK c \in B : NextBlock(h, c) = b
      BY <1>2, <2>1
    <3>2. c \in First..(b - MinBlock)
      BY <1>1, <1>3, <3>1
    <3> QED BY <3>1, <3>2
  <2>2. ASSUME NEW c \in First..(b - MinBlock), NextBlock(h, c) = b, c \in E
        PROVE  b \in E
    <3>1. c # h.brk
      BY <1>3, <1>4, <1>6, <2>2
    <3> QED BY <1>1, <2>2, <3>1
  <2> HIDE DEF E
  <2> QED BY <1>2, <2>1, <2>2
<1> HIDE DEF E, P, h
<1>8. \A b \in P : \A c \in First..(b - MinBlock) : c \in P /\ c < b
  BY <1>3 DEF P
<1>9. \E w : IsStarts(w)
  <2> DEFINE W == [b \in P |-> b \in E]
  <2>1. \A b \in P : (b \in E) = Starts(W, b)
    <3> TAKE b \in P
    <3>1. \A c \in First..(b - MinBlock) : W[c] <=> c \in E
      BY <1>8
    <3> HIDE DEF W
    <3> DEFINE p == b \in E
    <3> DEFINE q == Starts(W, b)
    <3>2. p <=> q
      BY <1>7, <3>1
    <3>3. p \in BOOLEAN
      OBVIOUS
    <3>4. q \in BOOLEAN
      <4> HIDE DEF E, P
      <4> QED BY Zenon
    <3>5. p = q
      <4> HIDE DEF p, q
      <4> QED BY <3>2, <3>3, <3>4
    <3> QED BY <3>5
  <2>2. W = [b \in P |-> Starts(W, b)]
    <3> DEFINE V(b) == Starts(W, b)
    <3>1. \A b \in P : (b \in E) = V(b)
      BY <2>1
    <3> HIDE DEF V
    <3>2. W = [b \in P |-> V(b)]
      BY <3>1
    <3> QED BY <3>2 DEF V
  <2> HIDE DEF W
  <2> QED BY <2>2
<1>10. IsStarts(starts)
  <2> HIDE DEF IsStarts
  <2> QED BY <1>9 DEF starts
<1>11. \A b \in P : starts[b] <=> Starts(starts, b)
  BY <1>10
<1> HIDE DEF IsStarts
<1> DEFINE T == {b \in P : ~(starts[b] <=> b \in E)}
<1>12. T = {}
  <2> SUFFICES ASSUME T # {} PROVE FALSE
    OBVIOUS
  <2>1. T \in SUBSET Nat
    BY <1>3 DEF P
  <2>2. PICK b \in T : \A c \in T : ~(c < b)
    <3> HIDE DEF T
    <3> QED BY <2>1, LeastNatural
  <2>3. \A c \in First..(b - MinBlock) : starts[c] <=> c \in E
    BY <1>8, <2>2
  <2> QED BY <1>7, <1>11, <2>2, <2>3
<1>13. Blocks = B
  <2>1. \A b \in First..(h.brk - 1) : starts[b] <=> b \in B
    <3>1. \A b \in First..(h.brk - 1) : b \in P /\ b # h.brk
      BY <1>3 DEF P
    <3> QED BY <1>12, <3>1 DEF E
  <2>2. \A b \in B : b \in First..(h.brk - 1)
    BY <1>1, <1>3 DEF h
  <2>3. \A b : b \in Blocks <=> b \in First..(h.brk - 1) /\ starts[b]
    BY <1>5 DEF h
  <2> QED BY <2>1, <2>2, <2>3
<1>14. FreeBlocks = FreeIn(heap, B)
  <2>1. \A b \in B : heap.head[b].alloc \in BOOLEAN
    BY <1>1, TiledOrder DEF h
  <2> QED BY <1>13, <2>1 DEF FreeBlocks, FreeIn, IsFree
<1> QED BY <1>13, <1>14

\* The sets that are reached from the head of list l in 0, 1, ... N steps.
IsReach(h, F, l, N, w) ==
  w = [i \in 0..N |-> IF i = 0 THEN {h.list[l]}
                      ELSE w[i - 1] \cup {h.next[b] : b \in w[i - 1] \cap F}]

\* The walk over the links has a value for every number of steps.
LEMMA ReachExists ==
  ASSUME NEW h \in HeapType, NEW F, F \subseteq Addr, NEW l \in ListNames, NEW N \in Nat
  PROVE  \E w : IsReach(h, F, l, N, w)
<1> DEFINE S == SUBSET LinkType
<1> DEFINE O(X) == X \cup {h.next[b] : b \in X \cap F}
<1> DEFINE G == [X \in S |-> O(X)]
<1> DEFINE start == {h.list[l]}
<1>1. h.next \in [Addr -> LinkType] /\ h.list \in [ListNames -> Addr]
  BY DEF HeapType, LinkType, ListNames
<1>2. start \in S
  BY <1>1 DEF LinkType
<1>3. \A X \in S : O(X) \in S
  BY <1>1
<1>4. G \in [S -> S] /\ \A X \in S : G[X] = O(X)
  BY <1>3
<1> HIDE DEF S, G
<1>5. PICK w \in [0..N -> S] : w[0] = start /\ \A j \in 1..N : w[j] = G[w[j - 1]]
  <2>1. G \in [S -> S]
    BY <1>4
  <2>2. \E w : Iteration(S, G, start, N, w)
    <3> HIDE DEF start
    <3> QED BY ONLY <2>1, <1>2, N \in Nat, Iterates
  <2> QED BY <2>2 DEF Iteration
<1> DEFINE V(i) == IF i = 0 THEN start ELSE O(w[i - 1])
<1>6. \A i \in 0..N : w[i] = V(i)
  <2> TAKE i \in 0..N
  <2>1. CASE i = 0
    BY <1>5, <2>1
  <2>2. CASE i # 0
    <3>1. i \in 1..N /\ i - 1 \in 0..N
      BY <2>2
    <3>2. w[i - 1] \in S
      BY <1>5, <3>1
    <3>3. w[i] = O(w[i - 1])
      BY <1>4, <1>5, <3>1, <3>2
    <3> QED BY <2>2, <3>3
  <2> QED BY <2>1, <2>2
<1>7. w = [i \in 0..N |-> V(i)]
  <2> HIDE DEF V
  <2> QED BY <1>5, <1>6
<1> QED BY <1>7 DEF IsReach

\* The last of these sets holds the whole list: each step reaches the block of
\* the highest rank that is still missing.
LEMMA ReachIs ==
  ASSUME NEW h, NEW B, NEW r, Kept(h, B, r, {}), NEW F, F = FreeIn(h, B),
         NEW l \in ListNames, NEW N, N = Cardinality(F),
         NEW w, IsReach(h, F, l, N, w)
  PROVE  w[N] \ {NoBlock} = OnList(h, B, l)
<1> DEFINE L == OnList(h, B, l)
<1>1. /\ h \in HeapType /\ r \in [Addr -> Nat] /\ B \subseteq Addr \ {NoBlock}
      /\ Linked(h, l, L, r)
  <2>1. OnList(h, B, l) \ {} = L
    OBVIOUS
  <2>2. Linked(h, l, OnList(h, B, l) \ {}, r)
    BY KeptParts
  <2> HIDE DEF L
  <2> QED BY <2>1, <2>2, KeptParts
<1>2. L \subseteq F /\ F \subseteq Addr \ {NoBlock}
  BY <1>1 DEF OnList, FreeIn
<1>3. IsFiniteSet(F) /\ IsFiniteSet(L) /\ N \in Nat /\ Cardinality(L) <= N
      /\ Cardinality(L) \in Nat
  <2>1. IsFiniteSet(Addr)
    BY FS_Interval, SizeAssumption DEF Addr
  <2>2. IsFiniteSet(F) /\ IsFiniteSet(L)
    BY <1>2, <2>1, FS_Subset
  <2> QED BY <1>2, <2>2, FS_Subset, FS_CardinalityType
<1>4. /\ h.list[l] \in L \cup {NoBlock}
      /\ h.list[l] = NoBlock => L = {}
      /\ \A b \in L :
           /\ h.next[b] \in L \cup {NoBlock}
           /\ h.prev[b] \in L \cup {NoBlock}
           /\ h.prev[b] = NoBlock <=> h.list[l] = b
           /\ h.next[b] # NoBlock => h.prev[h.next[b]] = b /\ r[h.next[b]] < r[b]
           /\ h.prev[b] # NoBlock => h.next[h.prev[b]] = b
  BY <1>1, LinkedFacts
<1>5. \A b \in L : r[b] \in Nat /\ b # NoBlock
  BY <1>1, <1>2
<1>6. /\ w[0] = {h.list[l]}
      /\ \A i \in 1..N : w[i] = w[i - 1] \cup {h.next[b] : b \in w[i - 1] \cap F}
  <2>1. \A i \in 0..N : w[i] = IF i = 0 THEN {h.list[l]}
                               ELSE w[i - 1] \cup {h.next[b] : b \in w[i - 1] \cap F}
    BY DEF IsReach
  <2>2. 0 \in 0..N /\ \A i \in 1..N : i \in 0..N /\ i # 0
    BY <1>3
  <2> QED BY <2>1, <2>2
<1> HIDE DEF L
<1> DEFINE Fine(i) == /\ w[i] \subseteq L \cup {NoBlock}
                      /\ h.list[l] \in w[i]
                      /\ L \subseteq w[i] \/ Cardinality(w[i] \cap L) >= i + 1
<1>7. Fine(0)
  <2>1. CASE h.list[l] = NoBlock
    BY <2>1, <1>4, <1>6
  <2>2. CASE h.list[l] # NoBlock
    <3>1. w[0] \cap L = {h.list[l]}
      BY <2>2, <1>4, <1>6
    <3>2. Cardinality({h.list[l]}) = 1
      BY FS_Singleton
    <3>3. Cardinality(w[0] \cap L) = 1
      BY <3>1, <3>2
    <3>4. w[0] \subseteq L \cup {NoBlock} /\ h.list[l] \in w[0]
      BY <1>4, <1>6
    <3>5. 0 + 1 = 1 /\ 1 >= 1
      OBVIOUS
    <3> QED BY ONLY <3>3, <3>4, <3>5
  <2> QED BY <2>1, <2>2
<1>8. \A i \in 1..N : Fine(i - 1) => Fine(i)
  <2> SUFFICES ASSUME NEW i \in 1..N, Fine(i - 1) PROVE Fine(i)
    OBVIOUS
  <2> DEFINE X == w[i - 1]
  <2> DEFINE Y == w[i]
  <2>1. Y = X \cup {h.next[b] : b \in X \cap F}
    BY <1>6
  <2>2. X \subseteq L \cup {NoBlock} /\ h.list[l] \in X
        /\ (L \subseteq X \/ Cardinality(X \cap L) >= i)
    BY <1>3
  <2> HIDE DEF X, Y
  <2>3. X \cap F \subseteq L
    BY <1>2, <2>2
  <2>4. Y \subseteq L \cup {NoBlock} /\ h.list[l] \in Y /\ X \subseteq Y
    BY <1>4, <2>1, <2>2, <2>3
  <2>5. CASE L \subseteq X
    BY <2>4, <2>5 DEF Y
  <2>6. CASE ~(L \subseteq X)
    <3> DEFINE M == L \ X
    <3>1. IsFiniteSet(M) /\ M # {} /\ \A c \in M : r[c] \in Nat
      BY <2>6, <1>3, <1>5, FS_Subset
    <3>2. PICK c \in M : \A d \in M : r[d] <= r[c]
      <4> HIDE DEF M
      <4> QED BY <3>1, LargestElement
    <3> DEFINE p == h.prev[c]
    <3>3. c \in L /\ c \notin X /\ h.list[l] # c
      BY <3>2, <2>2
    <3>4. p \in L /\ h.next[p] = c /\ r[c] < r[p]
      BY <3>3, <1>4, <1>5
    <3>5. p \in X
      <4> SUFFICES ASSUME p \notin X PROVE FALSE
        OBVIOUS
      <4>1. r[p] <= r[c] /\ r[p] \in Nat /\ r[c] \in Nat
        BY <3>2, <3>3, <3>4, <1>5
      <4> QED BY <3>4, <4>1
    <3>6. c \in Y
      BY <3>4, <3>5, <2>1, <1>2
    <3>7. (X \cap L) \cup {c} \subseteq Y \cap L
      BY <3>3, <3>6, <2>4
    <3>8. IsFiniteSet(X \cap L) /\ IsFiniteSet(Y \cap L)
      <4>1. X \cap L \subseteq L /\ Y \cap L \subseteq L
        OBVIOUS
      <4> QED BY <1>3, <4>1, FS_Subset
    <3>9. Cardinality((X \cap L) \cup {c}) = Cardinality(X \cap L) + 1
      <4>1. c \notin X \cap L
        BY <3>3
      <4> QED BY <3>8, <4>1, FS_AddElement
    <3>10. Cardinality((X \cap L) \cup {c}) <= Cardinality(Y \cap L)
      BY <3>7, <3>8, FS_Subset
    <3>11. Cardinality(X \cap L) \in Nat /\ Cardinality(Y \cap L) \in Nat
      BY <3>8, FS_CardinalityType
    <3>12. Cardinality(Y \cap L) >= i + 1
      BY <2>2, <2>6, <3>9, <3>10, <3>11
    <3> QED BY <2>4, <3>12 DEF Y
  <2> QED BY <2>5, <2>6
<1> DEFINE T == {i \in 0..N : ~Fine(i)}
<1>9. T = {}
  <2> SUFFICES ASSUME T # {} PROVE FALSE
    OBVIOUS
  <2> HIDE DEF Fine
  <2>1. T \in SUBSET Nat
    BY <1>3
  <2>2. PICK i \in T : \A j \in T : ~(j < i)
    <3> HIDE DEF T
    <3> QED BY <2>1, LeastNatural
  <2>3. i # 0
    BY <1>7, <2>2
  <2>4. i \in 1..N /\ i - 1 \in 0..N /\ i - 1 < i
    BY <1>3, <2>2, <2>3
  <2>5. Fine(i - 1)
    BY <2>2, <2>4
  <2> QED BY <1>8, <2>2, <2>4, <2>5
<1>10. Fine(N)
  <2> HIDE DEF Fine
  <2> QED BY <1>3, <1>9
<1>11. L \subseteq w[N]
  <2> SUFFICES ASSUME Cardinality(w[N] \cap L) >= N + 1 PROVE FALSE
    BY <1>10
  <2>1. w[N] \cap L \subseteq L
    OBVIOUS
  <2>2. Cardinality(w[N] \cap L) <= Cardinality(L) /\ Cardinality(w[N] \cap L) \in Nat
    BY <2>1, <1>3, FS_Subset, FS_CardinalityType
  <2> QED BY <2>2, <1>3
<1> QED BY <1>5, <1>10, <1>11 DEF L

\* The walk over the links finds the blocks of its list.
LEMMA ListedIs ==
  ASSUME NEW B, Good(heap, B), NEW l \in ListNames
  PROVE  Listed(l) = OnList(heap, B, l)
<1> DEFINE F == FreeIn(heap, B)
<1> DEFINE N == Cardinality(F)
<1> DEFINE reach == CHOOSE w : IsReach(heap, F, l, N, w)
<1>1. FreeBlocks = F
  BY BlocksAre
<1>2. Listed(l) = reach[N] \ {NoBlock}
  BY <1>1 DEF Listed, IsReach
<1>3. PICK r : Kept(heap, B, r, {})
  BY DEF Good
<1>4. heap \in HeapType /\ F \subseteq Addr /\ N \in Nat
  <2>1. heap \in HeapType /\ F \subseteq Addr
    BY GoodParts DEF FreeIn
  <2>2. IsFiniteSet(Addr)
    BY FS_Interval, SizeAssumption DEF Addr
  <2>3. IsFiniteSet(F)
    BY <2>1, <2>2, FS_Subset
  <2> QED BY <2>1, <2>3, FS_CardinalityType
<1>5. IsReach(heap, F, l, N, reach)
  <2>1. \E w : IsReach(heap, F, l, N, w)
    <3> HIDE DEF F, N
    <3> QED BY <1>4, ReachExists
  <2> HIDE DEF F, N
  <2> QED BY <2>1
<1> HIDE DEF reach
<1>6. reach[N] \ {NoBlock} = OnList(heap, B, l)
  <2>1. F = FreeIn(heap, B) /\ N = Cardinality(F)
    OBVIOUS
  <2> HIDE DEF F, N
  <2> QED BY ONLY <2>1, <1>3, <1>5, l \in ListNames, ReachIs
<1> QED BY <1>2, <1>6

----------------------------------------------------------------------------
(***************************************************************************)
(* The theorems.  They are about SegregatedSpec: a request that splits a   *)
(* block too big for the small list puts the rest on a list that the       *)
(* header of the block taken does not call for, and none of this holds     *)
(* after it (see MCMMCross).                                               *)
(***************************************************************************)

\* What the invariant implies.
LEMMA InvTypeOK == MMInv => TypeOK
<1> SUFFICES ASSUME MMInv PROVE TypeOK
  OBVIOUS
<1>1. PICK B : Good(heap, B) /\ Accounted(heap, B, live)
  BY DEF MMInv, Sound
<1>2. heap \in HeapType /\ B \subseteq Addr \ {NoBlock}
  BY <1>1, GoodParts
<1> QED BY <1>1, <1>2 DEF MMInv, Accounted, TakenIn, TypeOK

\* The headers and footers.
LEMMA InvBlocksTile == MMInv => BlocksTile
<1> SUFFICES ASSUME MMInv PROVE BlocksTile
  OBVIOUS
<1>1. PICK B : Good(heap, B)
  BY DEF MMInv, Sound
<1>2. Blocks = B /\ FreeBlocks = FreeIn(heap, B)
  BY <1>1, BlocksAre
<1>3. Tiled(heap, B) /\ NoTwoFree(heap, B, {}) /\ heap \in HeapType
      /\ \A b \in B : b < heap.brk /\ b \in Int
  BY <1>1, GoodParts
<1>4. heap.brk \notin B
  BY <1>3
<1>5. \A b \in B :
        /\ heap.head[b].size >= MinBlock
        /\ FooterOf(heap, b) = heap.head[b]
        /\ NextBlock(heap, b) \in B \cup {heap.brk}
  BY <1>3 DEF Tiled, Size
<1>6. \A b \in B : NextBlock(heap, b) \in FreeIn(heap, B) => b \notin FreeIn(heap, B)
  BY <1>3 DEF NoTwoFree, FreeIn
<1>7. heap.head[heap.brk] = Tag(0, TRUE)
  BY <1>3 DEF Tiled
<1> QED BY <1>2, <1>5, <1>6, <1>7 DEF BlocksTile

\* The lists.
LEMMA InvFreeListsComplete == MMInv => FreeListsComplete
<1> SUFFICES ASSUME MMInv PROVE FreeListsComplete
  OBVIOUS
<1>1. PICK B : Good(heap, B)
  BY DEF MMInv, Sound
<1>2. FreeBlocks = FreeIn(heap, B)
  BY <1>1, BlocksAre
<1>3. \A l \in ListNames : Listed(l) = OnList(heap, B, l)
  BY <1>1, ListedIs
<1>4. Listed("small") \cup Listed("big") = FreeBlocks
  <2>1. \A b \in FreeIn(heap, B) : ListFor(Size(heap, b)) \in {"small", "big"}
    BY ListForName DEF ListNames
  <2> QED BY <1>2, <1>3, <2>1 DEF ListNames, OnList, FreeIn
<1>5. ASSUME NEW l \in ListNames
      PROVE  /\ heap.list[l] # NoBlock => heap.prev[heap.list[l]] = NoBlock
             /\ \A b \in Listed(l) :
                  /\ l = ListFor(heap.head[b].size)
                  /\ heap.next[b] # NoBlock => heap.prev[heap.next[b]] = b
  <2>1. PICK r : Kept(heap, B, r, {})
    BY <1>1 DEF Good
  <2>2. Linked(heap, l, OnList(heap, B, l) \ {}, r)
    BY <2>1, KeptParts
  <2>3. OnList(heap, B, l) \ {} = Listed(l)
    BY <1>3
  <2>4. Linked(heap, l, Listed(l), r)
    BY <2>2, <2>3
  <2>5. \A b \in Listed(l) : l = ListFor(heap.head[b].size)
    BY <1>3 DEF OnList, Size
  <2>6. /\ heap.list[l] \in Listed(l) \cup {NoBlock}
        /\ \A b \in Listed(l) :
             /\ heap.prev[b] = NoBlock <=> heap.list[l] = b
             /\ heap.next[b] # NoBlock => heap.prev[heap.next[b]] = b
    BY <2>4, LinkedFacts
  <2> QED BY <2>5, <2>6
<1> QED BY <1>4, <1>5 DEF FreeListsComplete, ListNames

\* The caller's blocks.
LEMMA InvLiveBlocksIntact == MMInv => LiveBlocksIntact
<1> SUFFICES ASSUME MMInv PROVE LiveBlocksIntact
  OBVIOUS
<1>1. PICK B : Good(heap, B) /\ Accounted(heap, B, live)
  BY DEF MMInv, Sound
<1>2. Blocks = B /\ FreeBlocks = FreeIn(heap, B)
  BY <1>1, BlocksAre
<1>3. /\ heap \in HeapType /\ Tiled(heap, B) /\ JunkLinks(heap, FreeIn(heap, B))
      /\ heap.brk \in Addr
      /\ \A b \in B : /\ b \in Int /\ b >= First /\ b < heap.brk
                      /\ Size(heap, b) \in Nat /\ Size(heap, b) >= 3
                      /\ NextBlock(heap, b) = b + Size(heap, b)
                      /\ NextBlock(heap, b) \in B \cup {heap.brk}
                      /\ Size(heap, b) = heap.head[b].size
      /\ \A b \in B : \A x \in B \cup {heap.brk} : b < x => NextBlock(heap, b) <= x
  BY <1>1, GoodParts
<1>4. DOMAIN live = TakenIn(heap, B) /\ DOMAIN live = Blocks \ FreeBlocks
  BY <1>1, <1>2 DEF Accounted, TakenIn, FreeIn
<1>5. ASSUME NEW b \in DOMAIN live, NEW n, n = heap.head[b].size
      PROVE  /\ n - AdjustedSize(live[b]) \in 0..(MinBlock - 1)
             /\ \A p \in b..(b + n - 1) : heap.next[p] = Junk /\ heap.prev[p] = Junk
             /\ \A p \in (b + 1)..(b + n - 1) :
                  heap.head[p] = JunkTag /\ heap.foot[p] = JunkTag
  <2>1. b \in B /\ ~IsFree(heap, b)
    BY <1>4 DEF TakenIn
  <2>2. n = Size(heap, b) /\ n \in Nat /\ b \in Int /\ b >= First
    BY <1>3, <1>5, <2>1
  <2>3. n - AdjustedSize(live[b]) \in 0..(MinBlock - 1)
    <3>1. n - AdjustedSize(live[b]) \in 0..2
      BY <1>1, <2>2 DEF Accounted
    <3>2. MinBlock - 1 = 2
      BY SizeAssumption
    <3> QED BY <3>1, <3>2
  <2>4. NextBlock(heap, b) = b + n /\ NextBlock(heap, b) <= heap.brk
    BY <1>3, <2>1, <2>2
  <2>5. \A p \in b..(b + n - 1) : p \in Addr /\ p < heap.brk /\ p \in Int
    <3>1. b + n <= heap.brk /\ heap.brk \in 0..HeapMax /\ HeapMax \in Nat /\ b >= 2
      BY <1>3, <2>2, <2>4, SizeAssumption DEF Addr, First
    <3>2. b \in Int /\ n \in Nat
      BY <2>2
    <3> QED BY ONLY <3>1, <3>2 DEF Addr
  <2>6. \A p \in (b + 1)..(b + n - 1) : p \notin B
    <3> SUFFICES ASSUME NEW p \in (b + 1)..(b + n - 1), p \in B PROVE FALSE
      OBVIOUS
    <3>1. b < p /\ p < b + n
      BY <2>2
    <3>2. b + n <= p
      BY <1>3, <2>1, <2>4, <3>1
    <3> QED BY <2>2, <3>1, <3>2
  <2>7. \A p \in b..(b + n - 1) : heap.next[p] = Junk /\ heap.prev[p] = Junk
    <3> TAKE p \in b..(b + n - 1)
    <3>1. p \notin FreeIn(heap, B)
      <4>1. p = b \/ p \in (b + 1)..(b + n - 1)
        BY <2>2
      <4> QED BY <2>1, <2>6, <4>1 DEF FreeIn
    <3> QED BY <1>3, <2>5, <3>1 DEF JunkLinks
  <2>8. \A p \in (b + 1)..(b + n - 1) : heap.head[p] = JunkTag /\ heap.foot[p] = JunkTag
    <3> TAKE p \in (b + 1)..(b + n - 1)
    <3>1. p \in b..(b + n - 1) /\ p # 1 /\ p # First
      BY <2>2 DEF First
    <3>2. p \in Addr /\ p \notin B /\ p # heap.brk
      BY <1>3, <2>5, <2>6, <3>1
    <3> QED BY <1>3, <3>1, <3>2, TiledFacts
  <2> QED BY <2>3, <2>7, <2>8
<1> QED BY <1>4, <1>5 DEF LiveBlocksIntact

\* Whatever the size of the request: growth means that the search failed.
LEMMA GrowsWithoutFit ==
  ASSUME NEW B, Good(heap, B), NEW bytes \in Nat,
         Allocated(heap, bytes).heap.brk > heap.brk
  PROVE  \A b \in OnList(heap, B, ListFor(AdjustedSize(bytes))) :
           Size(heap, b) < AdjustedSize(bytes)
<1> DEFINE n == AdjustedSize(bytes)
<1> DEFINE L == OnList(heap, B, ListFor(n))
<1> DEFINE c == FindFit(heap, n)
<1>1. n \in Nat
  BY AdjustedIs
<1>2. Fits(heap, B, n, c)
  <2>1. PICK r : Kept(heap, B, r, {})
    BY DEF Good
  <2> HIDE DEF n
  <2> QED BY <1>1, <2>1, FindFitIs
<1>3. NoBlock \notin L
  BY GoodParts DEF OnList
<1> HIDE DEF L
<1>4. CASE c = NoBlock
  BY <1>2, <1>3, <1>4 DEF Fits, L
<1>5. CASE c # NoBlock
  <2>1. c \in L /\ BlockFor(heap, n).block = c /\ BlockFor(heap, n).heap = heap
    BY <1>2, <1>5 DEF Fits, BlockFor, L
  <2>2. ListFor(Size(heap, c)) = ListFor(n) /\ Size(heap, c) = heap.head[c].size
        /\ Size(heap, c) \in Nat
    BY <2>1, GoodParts DEF OnList, L
  <2>3. ~CrossesLists(bytes)
    <3>1. ~(n <= BigSize /\ heap.head[c].size > BigSize)
      BY <1>1, <2>2, SizeAssumption DEF ListFor
    <3> QED BY <2>1, <3>1 DEF CrossesLists
  <2> DEFINE got == Allocated(heap, bytes)
  <2>4. Serves(heap, B, n, got)
    BY <2>3, AllocatedKeeps
  <2>5. heap.brk \in Int
    BY GoodParts DEF Addr
  <2>6. got.heap.brk > heap.brk
    OBVIOUS
  <2> HIDE DEF got, n
  <2>7. got # Failed(heap)
    BY <2>5, <2>6 DEF Failed
  <2> QED BY <2>4, <2>6, <2>7 DEF Serves, n
<1> QED BY <1>4, <1>5

\* The heap grows only when it must.
LEMMA StepGrowsOnlyWithoutFit ==
  MMInv =>
    \A bytes \in Request :
      heap'.brk > heap.brk /\ (Malloc(bytes) \/ Calloc(bytes))
      => \A b \in Listed(ListFor(AdjustedSize(bytes))) :
           heap.head[b].size < AdjustedSize(bytes)
<1> SUFFICES ASSUME MMInv, NEW bytes \in Request, heap'.brk > heap.brk,
                    Malloc(bytes) \/ Calloc(bytes)
             PROVE  \A b \in Listed(ListFor(AdjustedSize(bytes))) :
                      heap.head[b].size < AdjustedSize(bytes)
  OBVIOUS
<1>1. PICK B : Good(heap, B)
  BY DEF MMInv, Sound
<1>2. heap' = Allocated(heap, bytes).heap
  BY DEF Malloc, Calloc
<1>3. bytes \in Nat
  BY SizeAssumption
<1>4. \A b \in OnList(heap, B, ListFor(AdjustedSize(bytes))) :
        Size(heap, b) < AdjustedSize(bytes)
  BY <1>1, <1>2, <1>3, GrowsWithoutFit
<1>5. Listed(ListFor(AdjustedSize(bytes))) = OnList(heap, B, ListFor(AdjustedSize(bytes)))
  BY <1>1, ListedIs, ListForName
<1> QED BY <1>4, <1>5 DEF Size

----------------------------------------------------------------------------
(***************************************************************************)
(* The allocator implements the driver's range list.                       *)
(***************************************************************************)

\* The driver's record of a payload.
RangeOf(known, b) == [lo |-> b * Alignment, hi |-> b * Alignment + known[b] - 1]
RangesOf(known) == {RangeOf(known, b) : b \in DOMAIN known}

\* The payloads of a sound heap lie in it and apart from each other.
LEMMA PayloadsApart ==
  ASSUME NEW h, NEW known, Sound(h, known), NEW b \in DOMAIN known
  PROVE  /\ b \in Addr /\ b * Alignment + known[b] - 1 < h.brk * Alignment
         /\ known[b] \in Nat
         /\ \A d \in DOMAIN known \ {b} :
              \/ b * Alignment + known[b] - 1 < d * Alignment
              \/ d * Alignment + known[d] - 1 < b * Alignment
<1>1. PICK B : Good(h, B) /\ Accounted(h, B, known)
  BY DEF Sound
<1>2. /\ B \subseteq Addr /\ h.brk \in Addr
      /\ \A c \in B : /\ c \in Int /\ c < h.brk
                      /\ Size(h, c) \in Nat
                      /\ NextBlock(h, c) = c + Size(h, c)
                      /\ NextBlock(h, c) \in B \cup {h.brk}
      /\ \A c \in B : \A x \in B \cup {h.brk} : c < x => NextBlock(h, c) <= x
  BY <1>1, GoodParts
<1>3. \A c \in DOMAIN known : c \in B /\ known[c] \in Nat /\ c \in Int
        /\ c * 8 + known[c] - 1 < (c + Size(h, c)) * 8
  <2> TAKE c \in DOMAIN known
  <2>1. c \in B /\ known[c] \in Request /\ Size(h, c) - AdjustedSize(known[c]) \in 0..2
    BY <1>1 DEF Accounted, TakenIn
  <2>2. known[c] \in Nat /\ c \in Int /\ Size(h, c) \in Nat
    BY <1>2, <2>1, SizeAssumption
  <2>3. /\ AdjustedSize(known[c]) \in Nat
        /\ AdjustedSize(known[c]) * 8 >= known[c] + 8
    BY <2>2, AdjustedIs DEF Alignment
  <2>4. Size(h, c) >= AdjustedSize(known[c])
    BY <2>1, <2>2, <2>3
  <2> QED BY <2>1, <2>2, <2>3, <2>4
<1>4. b + Size(h, b) <= h.brk /\ h.brk \in Int /\ Size(h, b) \in Nat
  BY <1>2, <1>3 DEF Addr
<1>5. ASSUME NEW c \in DOMAIN known, NEW d \in DOMAIN known, c < d
      PROVE  c * 8 + known[c] - 1 < d * 8
  <2>1. c + Size(h, c) <= d /\ Size(h, c) \in Nat /\ c \in Int /\ d \in Int
    BY <1>2, <1>3, <1>5
  <2>2. known[c] \in Nat /\ c * 8 + known[c] - 1 < (c + Size(h, c)) * 8
    BY <1>3
  <2> QED BY <2>1, <2>2
<1>6. \A d \in DOMAIN known \ {b} : b < d \/ d < b
  BY <1>3
<1>7. \A d \in DOMAIN known \ {b} :
        \/ b * 8 + known[b] - 1 < d * 8
        \/ d * 8 + known[d] - 1 < b * 8
  BY <1>5, <1>6
<1>8. b * 8 + known[b] - 1 < h.brk * 8
  BY <1>3, <1>4
<1> QED BY <1>2, <1>3, <1>7, <1>8 DEF Alignment

\* The payload of a request that is served is one that the driver accepts.
AcceptableRange(bytes, c, brk) ==
  LET r == [lo |-> c * Alignment, hi |-> c * Alignment + bytes - 1]
  IN /\ bytes > 0
     /\ c * Alignment \in 0..(HeapMax * Alignment)
     /\ r.lo % Alignment = 0 /\ 0 <= r.lo /\ r.hi < brk * Alignment
     /\ \A s \in RangesOf(live) : ~(r.lo <= s.hi /\ s.lo <= r.hi)
     /\ brk * Alignment \in (heap.brk * Alignment)..(HeapMax * Alignment)

\* The new block does not overlap what the driver knows.
LEMMA ServedAcceptable ==
  ASSUME MMInv, NEW bytes \in Request, ~CrossesLists(bytes),
         NEW got, got = Allocated(heap, bytes), got.block # NoBlock
  PROVE  AcceptableRange(bytes, got.block, got.heap.brk)
<1> DEFINE c == got.block
<1> DEFINE g == got.heap
<1> DEFINE new == With(live, c, bytes)
<1>1. /\ Sound(g, new) /\ c \notin DOMAIN live /\ c \in Addr
      /\ g.brk \in Addr /\ g.brk >= heap.brk /\ bytes # 0
  BY AllocatedSound
<1>2. bytes \in Nat /\ bytes > 0
  BY <1>1, SizeAssumption
<1>3. heap.brk \in Addr
  BY GoodParts DEF MMInv, Sound
<1>4. DOMAIN new = DOMAIN live \cup {c} /\ new[c] = bytes
      /\ \A d \in DOMAIN live : new[d] = live[d]
  BY <1>1 DEF With
<1> HIDE DEF new
<1>5. /\ c * Alignment + bytes - 1 < g.brk * Alignment
      /\ \A d \in DOMAIN live :
           \/ c * Alignment + bytes - 1 < d * Alignment
           \/ d * Alignment + live[d] - 1 < c * Alignment
  <2>1. /\ c * Alignment + new[c] - 1 < g.brk * Alignment
        /\ \A d \in DOMAIN new \ {c} :
             \/ c * Alignment + new[c] - 1 < d * Alignment
             \/ d * Alignment + new[d] - 1 < c * Alignment
    BY <1>1, <1>4, PayloadsApart
  <2>2. \A d \in DOMAIN live : d \in DOMAIN new \ {c} /\ new[d] = live[d]
    BY <1>1, <1>4
  <2> QED BY <2>1, <2>2, <1>4
<1>6. \A d \in DOMAIN live : d \in Addr /\ live[d] \in Nat
  <2>1. Sound(heap, live)
    BY DEF MMInv
  <2> QED BY <2>1, PayloadsApart
<1> HIDE DEF c, g
<1> DEFINE r == [lo |-> c * Alignment, hi |-> c * Alignment + bytes - 1]
<1>7. c * Alignment \in 0..(HeapMax * Alignment) /\ (c * Alignment) % Alignment = 0
  BY <1>1, SizeAssumption DEF Addr, Alignment
<1>8. \A s \in RangesOf(live) : ~(r.lo <= s.hi /\ s.lo <= r.hi)
  <2> TAKE s \in RangesOf(live)
  <2>1. PICK d \in DOMAIN live : s = RangeOf(live, d)
    BY DEF RangesOf
  <2>2. s.lo = d * Alignment /\ s.hi = d * Alignment + live[d] - 1
    BY <2>1 DEF RangeOf
  <2>3. d \in Int /\ c \in Int /\ live[d] \in Int /\ bytes \in Int
    BY <1>1, <1>2, <1>6 DEF Addr
  <2>4. \/ c * Alignment + bytes - 1 < d * Alignment
        \/ d * Alignment + live[d] - 1 < c * Alignment
    BY <1>5
  <2> QED BY <2>2, <2>3, <2>4 DEF Alignment
<1>9. g.brk * Alignment \in (heap.brk * Alignment)..(HeapMax * Alignment)
  BY <1>1, <1>3, SizeAssumption DEF Addr, Alignment
<1>10. 0 <= c * Alignment
  BY <1>7
<1> QED BY <1>2, <1>5, <1>7, <1>8, <1>9, <1>10 DEF AcceptableRange, c, g

\* The range of a block says which block it is.
LEMMA RangesOfParts ==
  ASSUME NEW known, DOMAIN known \subseteq Addr
  PROVE  /\ \A b, bytes : b \notin DOMAIN known =>
              RangesOf(With(known, b, bytes))
                = RangesOf(known) \cup {[lo |-> b * Alignment, hi |-> b * Alignment + bytes - 1]}
         /\ \A b \in DOMAIN known : \A rest :
              /\ DOMAIN rest = DOMAIN known \ {b}
              /\ \A d \in DOMAIN rest : rest[d] = known[d]
              => RangesOf(rest) = RangesOf(known) \ {RangeOf(known, b)}
<1>1. ASSUME NEW b, NEW bytes, b \notin DOMAIN known
      PROVE  RangesOf(With(known, b, bytes))
               = RangesOf(known) \cup {[lo |-> b * Alignment, hi |-> b * Alignment + bytes - 1]}
  <2> DEFINE new == With(known, b, bytes)
  <2>1. DOMAIN new = DOMAIN known \cup {b} /\ new[b] = bytes
        /\ \A d \in DOMAIN known : new[d] = known[d]
    BY <1>1 DEF With
  <2> HIDE DEF new
  <2>2. RangeOf(new, b) = [lo |-> b * Alignment, hi |-> b * Alignment + bytes - 1]
    BY <2>1 DEF RangeOf
  <2>3. \A d \in DOMAIN known : RangeOf(new, d) = RangeOf(known, d)
    BY <2>1 DEF RangeOf
  <2>4. RangesOf(new) = RangesOf(known) \cup {RangeOf(new, b)}
    BY <2>1, <2>3 DEF RangesOf
  <2> QED BY <2>2, <2>4 DEF new
<1>2. ASSUME NEW b \in DOMAIN known, NEW rest, DOMAIN rest = DOMAIN known \ {b},
             \A d \in DOMAIN rest : rest[d] = known[d]
      PROVE  RangesOf(rest) = RangesOf(known) \ {RangeOf(known, b)}
  <2>1. \A d \in DOMAIN rest : RangeOf(rest, d) = RangeOf(known, d)
    BY <1>2 DEF RangeOf
  <2>2. \A d \in DOMAIN known : d # b => RangeOf(known, d) # RangeOf(known, b)
    <3> TAKE d \in DOMAIN known
    <3>1. d \in Int /\ b \in Int
      BY DEF Addr
    <3>2. RangeOf(known, d).lo = d * 8 /\ RangeOf(known, b).lo = b * 8
      BY DEF RangeOf, Alignment
    <3>3. d # b => d * 8 # b * 8
      BY <3>1
    <3> QED BY <3>2, <3>3
  <2> QED BY <1>2, <2>1, <2>2 DEF RangesOf
<1> QED BY <1>1, <1>2

\* The driver starts with no range.
LEMMA InitRanges == Init => Driver!Init
<1> SUFFICES ASSUME Init PROVE Driver!Init
  OBVIOUS
<1>1. heap = InitialHeap /\ DOMAIN live = {}
  BY DEF Init
<1>2. RangesOf(live) = {}
  BY <1>1 DEF RangesOf
<1> QED BY <1>1, <1>2 DEF Driver!Init, RangesOf, RangeOf

\* Every call is a step of the range list, or one it does not see.
LEMMA StepRanges == MMInv /\ [SegregatedNext]_vars => [Driver!Next]_(Driver!vars)
<1> DEFINE extent == heap.brk * Alignment
<1> DEFINE ranges == RangesOf(live)
<1> SUFFICES ASSUME MMInv, [SegregatedNext]_vars
             PROVE  Driver!Next \/ (extent' = extent /\ ranges' = ranges)
  BY DEF Driver!vars, RangesOf, RangeOf
<1>1. DOMAIN live \subseteq Addr /\ Sound(heap, live)
  BY InvTypeOK DEF MMInv, TypeOK
<1>2. \A b, bytes : b \notin DOMAIN live =>
        RangesOf(With(live, b, bytes))
          = ranges \cup {[lo |-> b * Alignment, hi |-> b * Alignment + bytes - 1]}
  BY <1>1, RangesOfParts
<1>3. \A b \in DOMAIN live : RangeOf(live, b) \in ranges
  BY DEF RangesOf
<1>4. \A b \in DOMAIN live : \A rest :
        /\ DOMAIN rest = DOMAIN live \ {b}
        /\ \A d \in DOMAIN rest : rest[d] = live[d]
        => RangesOf(rest) = ranges \ {RangeOf(live, b)}
  BY <1>1, RangesOfParts
<1>5. ranges = {[lo |-> b * Alignment, hi |-> b * Alignment + live[b] - 1] : b \in DOMAIN live}
  BY DEF RangesOf, RangeOf
<1>6. ASSUME NEW old, NEW bytes \in Request, NEW c, NEW brk,
             AcceptableRange(bytes, c, brk), heap'.brk = brk,
             ranges' = (ranges \ old) \cup
                       {[lo |-> c * Alignment, hi |-> c * Alignment + bytes - 1]}
      PROVE  Driver!Replace(old, bytes) /\ bytes > 0
  <2> DEFINE r == [lo |-> c * Alignment, hi |-> c * Alignment + bytes - 1]
  <2>1. /\ bytes > 0
        /\ c * Alignment \in 0..(HeapMax * Alignment)
        /\ r.lo % Alignment = 0 /\ 0 <= r.lo /\ r.hi < heap'.brk * Alignment
        /\ \A s \in ranges : ~(r.lo <= s.hi /\ s.lo <= r.hi)
        /\ heap'.brk * Alignment \in (heap.brk * Alignment)..(HeapMax * Alignment)
    BY <1>6 DEF AcceptableRange
  <2>2. Driver!Grow
    BY <2>1 DEF Driver!Grow
  <2>3. Driver!Acceptable(r, ranges)
    BY <2>1 DEF Driver!Acceptable, Driver!Overlap
  <2>4. ranges' = (ranges \ old) \cup {r}
    BY <1>6
  <2> HIDE DEF r, ranges
  <2>5. ranges' = {[lo |-> b * Alignment, hi |-> b * Alignment + live[b] - 1] : b \in DOMAIN live}'
    BY <1>5 DEF ranges, RangesOf, RangeOf
  <2> QED BY <1>5, <2>1, <2>2, <2>3, <2>4, <2>5 DEF Driver!Replace, r
<1> DEFINE Same == extent' = extent /\ ranges' = ranges
<1>7. ASSUME NEW bytes \in Request, ~CrossesLists(bytes), Malloc(bytes) \/ Calloc(bytes)
      PROVE  Driver!Next \/ Same
  <2> DEFINE got == Allocated(heap, bytes)
  <2> DEFINE c == got.block
  <2>1. heap' = got.heap
        /\ live' = IF c = NoBlock THEN live ELSE With(live, c, bytes)
    BY <1>7 DEF Malloc, Calloc
  <2>2. /\ c = NoBlock => got = Failed(heap)
        /\ c # NoBlock => c \notin DOMAIN live /\ AcceptableRange(bytes, c, got.heap.brk)
    BY <1>7, AllocatedSound, ServedAcceptable
  <2> HIDE DEF got
  <2>3. CASE c = NoBlock
    <3>1. heap' = heap /\ live' = live
      BY <2>1, <2>2, <2>3 DEF Failed
    <3> QED BY <3>1
  <2>4. CASE c # NoBlock
    <3>1. ranges' = RangesOf(live')
      BY DEF RangesOf, RangeOf
    <3>2. ranges' = (ranges \ {}) \cup
                    {[lo |-> c * Alignment, hi |-> c * Alignment + bytes - 1]}
      <4>1. live' = With(live, c, bytes) /\ c \notin DOMAIN live /\ ranges \ {} = ranges
        BY <2>1, <2>2, <2>4
      <4> HIDE DEF ranges
      <4> QED BY <3>1, <4>1, <1>2
    <3>3. AcceptableRange(bytes, c, got.heap.brk) /\ heap'.brk = got.heap.brk
      BY <2>1, <2>2, <2>4
    <3> HIDE DEF ranges, c
    <3>4. Driver!Replace({}, bytes) /\ bytes > 0
      BY <3>2, <3>3, <1>6
    <3> QED BY <3>4 DEF Driver!Next, Driver!Malloc
  <2> QED BY <2>3, <2>4
<1>8. ASSUME NEW b \in DOMAIN live, heap' = Released(heap, b), live' = Without(b)
      PROVE  Driver!Next
  <2>1. /\ DOMAIN Without(b) = DOMAIN live \ {b}
        /\ \A d \in DOMAIN Without(b) : Without(b)[d] = live[d]
    BY DEF Without
  <2>2. heap'.brk = heap.brk
    BY <1>1, <1>8, <2>1, ReleasedAccounted
  <2>3. ranges' = RangesOf(live')
    BY DEF RangesOf, RangeOf
  <2>4. ranges' = ranges \ {RangeOf(live, b)}
    BY <1>4, <1>8, <2>1, <2>3
  <2>5. Driver!Free(RangeOf(live, b))
    <3>1. ranges' = {[lo |-> c * Alignment, hi |-> c * Alignment + live[c] - 1] : c \in DOMAIN live}'
      BY DEF RangesOf, RangeOf
    <3> HIDE DEF ranges
    <3> QED BY <1>5, <2>2, <2>4, <3>1 DEF Driver!Free
  <2>6. RangeOf(live, b) \in ranges
    BY <1>3
  <2> DEFINE r == RangeOf(live, b)
  <2> HIDE DEF ranges, r
  <2>7. Driver!Free(r) /\ r \in ranges
    BY <2>5, <2>6 DEF r
  <2> QED BY <1>5, <2>7 DEF Driver!Next, Driver!Free
<1>9. ASSUME NEW b \in DOMAIN live, NEW bytes \in Request, ~CrossesLists(bytes),
             Realloc(b, bytes)
      PROVE  Driver!Next \/ Same
  <2> DEFINE got == Allocated(heap, bytes)
  <2> DEFINE c == got.block
  <2> DEFINE new == With(live, c, bytes)
  <2> DEFINE rest == With(Without(b), c, bytes)
  <2>1. /\ c = NoBlock => got = Failed(heap)
        /\ c # NoBlock => c \notin DOMAIN live /\ Sound(got.heap, new)
                          /\ AcceptableRange(bytes, c, got.heap.brk)
    BY <1>9, AllocatedSound, ServedAcceptable
  <2>2. CASE heap' = Released(heap, b) /\ live' = Without(b)
    BY <1>8, <2>2
  <2>3. CASE c = NoBlock /\ heap' = got.heap /\ live' = live
    <3>1. heap' = heap
      BY <2>1, <2>3 DEF Failed
    <3> QED BY <2>3, <3>1
  <2>4. CASE c # NoBlock /\ heap' = Released(got.heap, b) /\ live' = rest
    <3> HIDE DEF got
    <3>1. /\ DOMAIN new = DOMAIN live \cup {c} /\ DOMAIN rest = (DOMAIN live \ {b}) \cup {c}
          /\ \A d \in DOMAIN new : new[d] = IF d = c THEN bytes ELSE live[d]
          /\ \A d \in DOMAIN rest : rest[d] = IF d = c THEN bytes ELSE live[d]
      BY DEF With, Without
    <3>2. RangesOf(new) = ranges \cup
                          {[lo |-> c * Alignment, hi |-> c * Alignment + bytes - 1]}
      BY <1>2, <2>1, <2>4
    <3> HIDE DEF new, rest
    <3>3. c # b
      BY <2>1, <2>4
    <3>4. b \in DOMAIN new /\ DOMAIN rest = DOMAIN new \ {b}
          /\ \A d \in DOMAIN rest : rest[d] = new[d]
      BY <3>1, <3>3
    <3>5. heap'.brk = got.heap.brk
      <4>1. Sound(got.heap, new)
        BY <2>1, <2>4
      <4>2. Released(got.heap, b).brk = got.heap.brk
        BY <3>4, <4>1, ReleasedAccounted
      <4> QED BY <2>4, <4>2
    <3>6. DOMAIN new \subseteq Addr
      <4>1. c \in Addr
        BY <1>9, <2>4, AllocatedSound DEF got
      <4> QED BY <1>1, <3>1, <4>1
    <3>7. RangesOf(rest) = RangesOf(new) \ {RangeOf(new, b)}
      BY <3>4, <3>6, RangesOfParts
    <3>8. RangeOf(new, b) = RangeOf(live, b)
      BY <3>1, <3>3, <3>4 DEF RangeOf
    <3>9. RangeOf(live, b).lo # c * Alignment
      <4>1. b \in Int /\ c \in Int
        BY <3>1, <3>6 DEF Addr
      <4>2. RangeOf(live, b).lo = b * Alignment
        BY DEF RangeOf
      <4> QED BY <3>3, <4>1, <4>2 DEF Alignment
    <3>10. ranges' = RangesOf(live')
      BY DEF RangesOf, RangeOf
    <3>11. ranges' = (ranges \ {RangeOf(live, b)}) \cup
                     {[lo |-> c * Alignment, hi |-> c * Alignment + bytes - 1]}
      <4> DEFINE r == [lo |-> c * Alignment, hi |-> c * Alignment + bytes - 1]
      <4>1. r # RangeOf(live, b)
        <5>1. r.lo = c * Alignment
          OBVIOUS
        <5> QED BY <3>9, <5>1
      <4> HIDE DEF r, ranges
      <4>2. RangesOf(new) = ranges \cup {r}
        BY <3>2 DEF r
      <4>3. ranges' = (ranges \cup {r}) \ {RangeOf(live, b)}
        BY <2>4, <3>7, <3>8, <3>10, <4>2
      <4>4. ranges' = (ranges \ {RangeOf(live, b)}) \cup {r}
        BY <4>1, <4>3
      <4> QED BY <4>4 DEF r
    <3> HIDE DEF c, ranges
    <3>12. AcceptableRange(bytes, c, got.heap.brk)
      BY <2>1, <2>4
    <3>13. Driver!Replace({RangeOf(live, b)}, bytes) /\ bytes > 0
      BY <3>5, <3>11, <3>12, <1>6
    <3> DEFINE r == RangeOf(live, b)
    <3> HIDE DEF r
    <3>14. Driver!Replace({r}, bytes) /\ bytes > 0 /\ r \in ranges
      BY <1>3, <3>13 DEF r
    <3> QED BY <1>5, <3>14 DEF Driver!Next, Driver!Realloc
  <2> QED BY <1>9, <2>2, <2>3, <2>4 DEF Realloc
<1>10. CASE Reset
  <2>1. heap' = InitialHeap /\ DOMAIN live' = {}
    BY <1>10 DEF Reset
  <2>2. {[lo |-> b * Alignment, hi |-> b * Alignment + live[b] - 1] : b \in DOMAIN live}' = {}
    BY <2>1
  <2>3. Driver!Reset
    BY <2>1, <2>2 DEF Driver!Reset
  <2> QED BY <2>3 DEF Driver!Next
<1>11. CASE UNCHANGED vars
  BY <1>11 DEF vars, RangesOf, RangeOf
<1>12. ASSUME NEW b \in DOMAIN live, Free(b) PROVE Driver!Next
  BY <1>8, <1>12 DEF Free
<1> QED BY <1>7, <1>9, <1>10, <1>11, <1>12 DEF SegregatedNext

----------------------------------------------------------------------------
\* The inductive invariant holds in every run of the allocator.
LEMMA AlwaysMMInv == SegregatedSpec => []MMInv
BY InitMMInv, StepMMInv, PTL DEF SegregatedSpec

\* Every word of the heap keeps its type and every block of the caller lies in
\* the heap, whatever calls mm.c serves.
THEOREM HeapTypeAlwaysOK == SegregatedSpec => []TypeOK
BY AlwaysMMInv, InvTypeOK, PTL

\* After every call the headers tile the heap from the prologue to the
\* epilogue, each footer repeats its header, and coalescing has left no two
\* free neighbours: what mm_checkheap tests, for every heap size and every
\* sequence of calls.
THEOREM BlocksAlwaysTile == SegregatedSpec => []BlocksTile
BY AlwaysMMInv, InvBlocksTile, PTL

\* After every call the two lists hold each free block exactly once, on the
\* list of its size, with back links that undo the forward links.
THEOREM FreeListsAlwaysComplete == SegregatedSpec => []FreeListsComplete
BY AlwaysMMInv, InvFreeListsComplete, PTL

\* The allocated blocks are the caller's, each wastes less than the least
\* block, and nothing that malloc, free, realloc or calloc writes lies inside
\* one of them.
THEOREM LiveBlocksAlwaysIntact == SegregatedSpec => []LiveBlocksIntact
BY AlwaysMMInv, InvLiveBlocksIntact, PTL

\* malloc and calloc extend the heap only when no free block on the list for
\* the request is large enough: first fit misses none.
THEOREM AlwaysGrowsOnlyWithoutFit == SegregatedSpec => GrowsOnlyWithoutFit
<1>1. SegregatedSpec => []MMInv
  BY AlwaysMMInv
<1>2. MMInv => [\A bytes \in Request :
                  heap'.brk > heap.brk /\ (Malloc(bytes) \/ Calloc(bytes))
                  => \A b \in Listed(ListFor(AdjustedSize(bytes))) :
                       heap.head[b].size < AdjustedSize(bytes)]_vars
  BY StepGrowsOnlyWithoutFit
<1> QED BY <1>1, <1>2, PTL DEF GrowsOnlyWithoutFit

\* Every run of the allocator is a run of the driver's range list: the
\* payloads are aligned, inside the heap and apart from each other, and a
\* realloc that fails leaves the old payload alone.
THEOREM AllocatorImplementsRanges == SegregatedSpec => ImplementsRanges
<1>1. Init => Driver!Init
  BY InitRanges
<1>2. MMInv /\ [SegregatedNext]_vars => [Driver!Next]_(Driver!vars)
  BY StepRanges
<1> QED BY <1>1, <1>2, AlwaysMMInv, PTL DEF SegregatedSpec, ImplementsRanges, Driver!Spec
=============================================================================
