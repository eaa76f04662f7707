--------------------------------- MODULE MM ---------------------------------
(***************************************************************************)
(* The memory allocator of lab03 (mm.c on the simulated sbrk of memlib.c): *)
(* an explicit free list, segregated in a small and a big list, boundary   *)
(* tags, immediate coalescing and first fit.                               *)
(*                                                                         *)
(* Addresses and sizes count units of ALIGNMENT (8) bytes from the start   *)
(* of the heap.  The unit before address p holds a footer, of the block    *)
(* that ends at p, and a header, of the block that starts at p.            *)
(***************************************************************************)
EXTENDS Integers, FiniteSets

CONSTANTS
  MinBlock,  \* HEADER_SIZE, 24 bytes: two links and the tags
  Chunk,     \* CHUNKSIZE, the least extension of the heap
  BigSize,   \* BIG_SIZE, the largest block of the small list
  HeapMax,   \* MAX_HEAP, where mem_sbrk fails
  Request    \* the sizes in bytes that callers ask for

First == 2   \* the block after the prologue

ASSUME SizeAssumption ==
  /\ MinBlock = 3
  /\ Chunk \in Nat /\ BigSize \in Nat /\ BigSize >= MinBlock
  /\ HeapMax \in Nat /\ HeapMax >= First + MinBlock
  /\ Request \subseteq Nat

VARIABLES
  heap,   \* the heap: see HeapType
  live,   \* the caller's blocks: the bytes asked for, by address
  status  \* "running", or "segfault" once the process has died

vars == <<heap, live, status>>

Alignment == 8
Addr == 0..HeapMax
NoBlock == 0              \* the null pointer
Junk == HeapMax + 1       \* a word of user data or a left-over, as a link

Tag(n, a) == [size |-> n, alloc |-> a]
JunkTag == Tag(0, FALSE)  \* and as a tag

\* head[p] and foot[p] are the tags at the header of a block that starts at p
\* and at the footer of one that ends there; next[p] and prev[p] the links at
\* p; list the two list heads; brk the end of the heap.
HeapType ==
  [head : [Addr -> [size : 0..HeapMax, alloc : BOOLEAN]],
   foot : [Addr -> [size : 0..HeapMax, alloc : BOOLEAN]],
   next : [Addr -> Addr \cup {Junk}],
   prev : [Addr -> Addr \cup {Junk}],
   list : [{"small", "big"} -> Addr],
   brk : Addr]

HighestOf(a, b) == IF a > b THEN a ELSE b

\* The units of a block for a request: the payload rounded up, and its tags.
AdjustedSize(bytes) ==
  HighestOf((bytes + Alignment - 1) \div Alignment + 1, MinBlock)

----------------------------------------------------------------------------
(***************************************************************************)
(* Blocks and free lists.                                                  *)
(***************************************************************************)
NextBlock(h, b) == b + h.head[b].size
PrevBlock(h, b) == b - h.foot[b].size
FooterOf(h, b) == h.foot[b + h.head[b].size]

\* The words of f at the places S become v.
Put(f, S, v) == [p \in DOMAIN f \cup S |-> IF p \in S THEN v ELSE f[p]]

\* Header and footer of the block at b.  The words between them are now user
\* data or left-overs, except for the two links at b.
SetBlock(h, b, n, a) ==
  LET inside == (b + 1)..(b + n - 1)
  IN [h EXCEPT !.head = Put(Put(h.head, inside, JunkTag), {b}, Tag(n, a)),
               !.foot = Put(Put(h.foot, inside, JunkTag), {b + n}, Tag(n, a)),
               !.next = Put(h.next, inside, Junk),
               !.prev = Put(h.prev, inside, Junk)]

ListFor(n) == IF n <= BigSize THEN "small" ELSE "big"

\* Mutant: the forward link is not cleared when the list was empty.
InsertFreeStaleLink(h, b, n) ==
  LET first == h.list[ListFor(n)]
  IN [h EXCEPT !.list[ListFor(n)] = b,
               !.next[b] = IF first = NoBlock THEN @ ELSE first,
               !.prev = Put(Put(h.prev, {first} \ {NoBlock}, b), {b}, NoBlock)]

\* Put the free block b of n units at the head of its list.
InsertFree(h, b, n) ==
  LET first == h.list[ListFor(n)]
  IN [h EXCEPT !.list[ListFor(n)] = b,
               !.next[b] = first,
               !.prev = Put(Put(h.prev, {first} \ {NoBlock}, b), {b}, NoBlock)]

\* Mutant: the back link of the block after the removed one is left alone.
RemoveFreeForwardOnly(h, b) ==
  LET l == ListFor(h.head[b].size)
      p == h.prev[b]
      n == h.next[b]
  IN IF h.list[l] = NoBlock THEN h
     ELSE [h EXCEPT
             !.list[l] = IF p = NoBlock THEN n ELSE @,
             !.next = IF p = NoBlock THEN @ ELSE [@ EXCEPT ![p] = n]]

\* The list to unlink b from is the one its header calls for.
RemoveFree(h, b) ==
  LET l == ListFor(h.head[b].size)
      p == h.prev[b]
      n == h.next[b]
  IN IF h.list[l] = NoBlock THEN h
     ELSE [h EXCEPT
             !.list[l] = IF p = NoBlock THEN n ELSE h.list[l],
             !.next = IF p = NoBlock THEN h.next ELSE [h.next EXCEPT ![p] = n],
             !.prev = IF n = NoBlock THEN h.prev ELSE [h.prev EXCEPT ![n] = p]]

\* Mutant: the block before is not looked at.
CoalesceForward(h, b) ==
  LET after == NextBlock(h, b)
      size == h.head[b].size + (IF h.head[after].alloc THEN 0 ELSE h.head[after].size)
      joined == IF h.head[after].alloc THEN h
                ELSE SetBlock(RemoveFree(h, after), b, size, FALSE)
  IN [heap |-> InsertFree(joined, b, size), block |-> b]

\* Join the free block at b with its free neighbours and put it on a list.
Coalesce(h, b) ==
  LET before == PrevBlock(h, b)
      after == NextBlock(h, b)
      joinBefore == ~FooterOf(h, before).alloc
      joinAfter == ~h.head[after].alloc
      start == IF joinBefore THEN before ELSE b
      size == h.head[b].size
              + (IF joinBefore THEN h.head[before].size ELSE 0)
              + (IF joinAfter THEN h.head[after].size ELSE 0)
      h1 == IF joinBefore THEN RemoveFree(h, before) ELSE h
      h2 == IF joinAfter THEN RemoveFree(h1, after) ELSE h1
      h3 == IF joinBefore \/ joinAfter THEN SetBlock(h2, start, size, FALSE) ELSE h2
  IN [heap |-> InsertFree(h3, start, size), block |-> start]

Failed(h) == [heap |-> h, block |-> NoBlock]

\* mem_sbrk gives n units, or nothing when they pass the end of the heap.
Sbrk(h, n) == IF h.brk + n > HeapMax THEN Failed(h)
              ELSE [heap |-> [h EXCEPT !.brk = @ + n], block |-> h.brk]

\* The new block's header overwrites the epilogue, which moves up.
ExtendHeap(h, n) ==
  LET size == HighestOf(n, MinBlock)
      got == Sbrk(h, size)
      b == got.block
      epilogue == [got.heap EXCEPT !.head[b + size] = Tag(0, TRUE)]
  IN IF b = NoBlock THEN Failed(h)
     ELSE Coalesce(SetBlock(epilogue, b, size, FALSE), b)

\* Mutant: a block of exactly the size asked for is passed over.
FindFitStrict(h, n) ==
  LET fit[b \in Addr \cup {Junk}] ==
        IF b \in {NoBlock, Junk} \/ n < h.head[b].size THEN b ELSE fit[h.next[b]]
  IN IF h.list[ListFor(n)] = NoBlock THEN NoBlock ELSE fit[h.list[ListFor(n)]]

\* The first block of the list for n units that is large enough.  Where a link
\* is user data the search ends with it.
FindFit(h, n) ==
  LET fit[b \in Addr \cup {Junk}] ==
        IF b \in {NoBlock, Junk} \/ n <= h.head[b].size THEN b ELSE fit[h.next[b]]
  IN IF h.list[ListFor(n)] = NoBlock THEN NoBlock ELSE fit[h.list[ListFor(n)]]

\* Mutant: a block taken whole keeps its free tags.
PlaceForgetsToMark(h, b, n) ==
  LET full == h.head[b].size
      rest == b + n
      taken == RemoveFree(SetBlock(h, b, n, TRUE), b)
  IN IF full - n >= MinBlock
     THEN Coalesce(SetBlock(taken, rest, full - n, FALSE), rest).heap
     ELSE RemoveFree(h, b)

\* Take n units at the free block b and give back the rest if it can be a
\* block.  When the block is split its header is written before it is
\* unlinked.
Place(h, b, n) ==
  LET full == h.head[b].size
      rest == b + n
      taken == RemoveFree(SetBlock(h, b, n, TRUE), b)
  IN IF full - n >= MinBlock
     THEN Coalesce(SetBlock(taken, rest, full - n, FALSE), rest).heap
     ELSE SetBlock(RemoveFree(h, b), b, full, TRUE)

\* The block that serves n units: a fit, or the extended heap.
BlockFor(h, n) ==
  IF FindFit(h, n) # NoBlock THEN [heap |-> h, block |-> FindFit(h, n)]
                             ELSE ExtendHeap(h, HighestOf(n, Chunk))

\* The caller writes its payload, so the links at b are user data.
Filled(h, b) == [h EXCEPT !.next[b] = Junk, !.prev[b] = Junk]

Allocated(h, bytes) ==
  LET n == AdjustedSize(bytes)
      got == BlockFor(h, n)
  IN IF bytes = 0 \/ got.block = NoBlock THEN Failed(h)
     ELSE [heap |-> Filled(Place(got.heap, got.block, n), got.block),
           block |-> got.block]

Released(h, b) ==
  Coalesce(SetBlock(h, b, h.head[b].size, FALSE), b).heap

----------------------------------------------------------------------------
(***************************************************************************)
(* The state after mm_init, and the calls.                                 *)
(***************************************************************************)
PrologueHeap ==
  [head |-> [p \in Addr |-> CASE p = 1 -> Tag(1, TRUE)
                              [] p = 2 -> Tag(0, TRUE)
                              [] OTHER -> JunkTag],
   foot |-> [p \in Addr |-> IF p = 2 THEN Tag(1, TRUE) ELSE JunkTag],
   next |-> [p \in Addr |-> Junk],
   prev |-> [p \in Addr |-> Junk],
   list |-> [l \in {"small", "big"} |-> NoBlock],
   brk |-> First]

InitialHeap == ExtendHeap(PrologueHeap, MinBlock).heap

Init == /\ heap = InitialHeap
        /\ live = <<>>
        /\ status = "running"

Without(b) == [p \in DOMAIN live \ {b} |-> live[p]]
With(known, b, bytes) == [p \in DOMAIN known \cup {b} |->
                            IF p = b THEN bytes ELSE known[p]]

Malloc(bytes) ==
  LET got == Allocated(heap, bytes)
  IN /\ status = "running"
     /\ heap' = got.heap
     /\ live' = IF got.block = NoBlock THEN live ELSE With(live, got.block, bytes)
     /\ UNCHANGED status

\* calloc clears what malloc returned without looking at it.
Calloc(bytes) ==
  LET got == Allocated(heap, bytes)
  IN /\ status = "running"
     /\ heap' = got.heap
     /\ IF got.block = NoBlock
        THEN /\ status' = IF bytes = 0 THEN "running" ELSE "segfault"
             /\ UNCHANGED live
        ELSE /\ live' = With(live, got.block, bytes)
             /\ UNCHANGED status

Free(b) ==
  /\ status = "running"
  /\ heap' = Released(heap, b)
  /\ live' = Without(b)
  /\ UNCHANGED status

\* Mutant: the old block is freed before the new one is sought, and is lost
\* when there is none.
ReallocFreeFirst(b, bytes) ==
  LET got == Allocated(Released(heap, b), bytes)
  IN /\ status = "running"
     /\ heap' = got.heap
     /\ live' = IF bytes = 0 THEN Without(b)
                ELSE IF got.block = NoBlock THEN live
                ELSE With(Without(b), got.block, bytes)
     /\ UNCHANGED status

\* A new block is found and filled before the old one is freed.
Realloc(b, bytes) ==
  LET got == Allocated(heap, bytes)
  IN /\ status = "running"
     /\ \/ /\ bytes = 0
           /\ heap' = Released(heap, b)
           /\ live' = Without(b)
        \/ /\ bytes > 0
           /\ got.block = NoBlock
           /\ heap' = got.heap
           /\ UNCHANGED live
        \/ /\ bytes > 0
           /\ got.block # NoBlock
           /\ heap' = Released(got.heap, b)
           /\ live' = With(Without(b), got.block, bytes)
     /\ UNCHANGED status

\* The driver starts the next trace: mem_reset_brk and mm_init.
Reset ==
  /\ status = "running"
  /\ heap' = InitialHeap
  /\ live' = <<>>
  /\ UNCHANGED status

Next ==
  \/ \E bytes \in Request : Malloc(bytes) \/ Calloc(bytes)
  \/ \E b \in DOMAIN live : Free(b) \/ \E bytes \in Request : Realloc(b, bytes)
  \/ Reset

Spec == Init /\ [][Next]_vars

\* The calls that serve a small request by splitting a block too big for the
\* small list.
CrossesLists(bytes) ==
  LET n == AdjustedSize(bytes)
      got == BlockFor(heap, n)
      full == got.heap.head[got.block].size
  IN got.block # NoBlock /\ n <= BigSize /\ full > BigSize /\ full - n >= MinBlock

SegregatedNext ==
  \/ \E bytes \in Request : ~CrossesLists(bytes) /\ (Malloc(bytes) \/ Calloc(bytes))
  \/ \E b \in DOMAIN live :
       \/ Free(b)
       \/ \E bytes \in Request : ~CrossesLists(bytes) /\ Realloc(b, bytes)
  \/ Reset

\* The allocator as long as no request crosses the lists.
SegregatedSpec == Init /\ [][SegregatedNext]_vars

----------------------------------------------------------------------------
\* The blocks from the first to the epilogue, by their headers.
Blocks ==
  LET starts[b \in First..HeapMax] ==
        \/ b = First
        \/ \E c \in First..(b - MinBlock) : NextBlock(heap, c) = b /\ starts[c]
  IN {b \in First..(heap.brk - 1) : starts[b]}

FreeBlocks == {b \in Blocks : ~heap.head[b].alloc}

\* The blocks on list l, by the links from its head.
Listed(l) ==
  LET Onward(S) == S \cup {heap.next[b] : b \in S \cap FreeBlocks}
      reach[i \in 0..Cardinality(FreeBlocks)] ==
        IF i = 0 THEN {heap.list[l]} ELSE Onward(reach[i - 1])
  IN reach[Cardinality(FreeBlocks)] \ {NoBlock}

TypeOK ==
  /\ heap \in HeapType
  /\ DOMAIN live \subseteq Addr \ {NoBlock}
  /\ \A b \in DOMAIN live : live[b] \in Request
  /\ status \in {"running", "segfault"}

\* The headers tile the heap up to the epilogue, every footer repeats its
\* header, no block is below the minimum, and no two neighbours are free
\* (mm_checkheap, mm.c:320-362).
BlocksTile ==
  /\ \A b \in Blocks :
       /\ heap.head[b].size >= MinBlock
       /\ FooterOf(heap, b) = heap.head[b]
       /\ NextBlock(heap, b) \in Blocks \cup {heap.brk}
       /\ NextBlock(heap, b) \in FreeBlocks => b \notin FreeBlocks
  /\ heap.head[heap.brk] = Tag(0, TRUE)

\* The two lists hold each free block once, each on the list of its size, and
\* the back links undo the forward links (mm_checkheap, mm.c:364-427).
FreeListsComplete ==
  /\ Listed("small") \cup Listed("big") = FreeBlocks
  /\ \A l \in {"small", "big"} :
       /\ heap.list[l] # NoBlock => heap.prev[heap.list[l]] = NoBlock
       /\ \A b \in Listed(l) :
            /\ l = ListFor(heap.head[b].size)
            /\ heap.next[b] # NoBlock => heap.prev[heap.next[b]] = b

\* The caller's blocks are the allocated ones; each is as large as its request
\* calls for, wastes less than a block, and nothing was written inside it
\* since it was handed out.
LiveBlocksIntact ==
  /\ DOMAIN live = Blocks \ FreeBlocks
  /\ \A b \in DOMAIN live :
       LET n == heap.head[b].size
       IN /\ n - AdjustedSize(live[b]) \in 0..(MinBlock - 1)
          /\ \A p \in b..(b + n - 1) : heap.next[p] = Junk /\ heap.prev[p] = Junk
          /\ \A p \in (b + 1)..(b + n - 1) :
               heap.head[p] = JunkTag /\ heap.foot[p] = JunkTag

\* The heap grows only when no free block of the list for the request is large
\* enough.
GrowsOnlyWithoutFit ==
  [][\A bytes \in Request :
       heap'.brk > heap.brk /\ (Malloc(bytes) \/ Calloc(bytes))
       => \A b \in Listed(ListFor(AdjustedSize(bytes))) :
            heap.head[b].size < AdjustedSize(bytes)]_vars

----------------------------------------------------------------------------
(***************************************************************************)
(* The driver's view: every payload in the heap, aligned, and apart from   *)
(* the others.                                                             *)
(***************************************************************************)
Driver ==
  INSTANCE Ranges WITH
    HeapBytes <- HeapMax * Alignment,
    StartBytes <- InitialHeap.brk * Alignment,
    extent <- heap.brk * Alignment,
    ranges <- {[lo |-> b * Alignment, hi |-> b * Alignment + live[b] - 1] :
                 b \in DOMAIN live}

\* Every run of the allocator is one that the driver's range list accepts
\* (mdriver.c, add_range and remove_range).
ImplementsRanges == Driver!Spec
=============================================================================
