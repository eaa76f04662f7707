------------------------------ MODULE SmallObj ------------------------------
(***************************************************************************)
(* The small-object pool of lab05 (smallobj.c): objects of one size carved *)
(* out of malloc'ed chunks.  A pool is a record                            *)
(*   chunks  the chunk list, a sequence of chunk addresses                 *)
(*   taken   next_available of each chunk                                  *)
(*   freed   num_freed of each chunk                                       *)
(* and an object is a chunk and an index in it.  An object that was freed  *)
(* is not handed out again before its whole chunk is released.             *)
(***************************************************************************)
EXTENDS Integers, Sequences, FiniteSets, SequencesExt

CONSTANTS Chunk,    \* the addresses malloc may give to a chunk
          PerChunk  \* objects_per_chunk

ASSUME PerChunkAssumption == PerChunk \in Nat \ {0}

Object == Chunk \X (0..(PerChunk - 1))
ChunkOf(obj) == obj[1]

PoolType == [chunks : Seq(Chunk), taken : [Chunk -> 0..PerChunk],
             freed : [Chunk -> 0..PerChunk]]

Chunks(pool) == {pool.chunks[i] : i \in DOMAIN pool.chunks}

EmptyPool == [chunks |-> <<>>, taken |-> [c \in Chunk |-> 0],
              freed |-> [c \in Chunk |-> 0]]

\* Mutant: a full chunk passes for one with room.
WithRoomFull(pool) == {i \in DOMAIN pool.chunks : pool.taken[pool.chunks[i]] <= PerChunk}

WithRoom(pool) == {i \in DOMAIN pool.chunks : pool.taken[pool.chunks[i]] < PerChunk}

NeedsChunk(pool) == WithRoom(pool) = {}

\* The first chunk with room, or a new one, malloc'ed at c, at the end.
NonfullChunk(pool, c) ==
  IF NeedsChunk(pool) THEN c
  ELSE pool.chunks[CHOOSE i \in WithRoom(pool) : \A j \in WithRoom(pool) : i <= j]

\* The object so_alloc returns and the pool it leaves, when malloc gives c for
\* a new chunk.
SoAlloc(pool, c) ==
  LET in == NonfullChunk(pool, c)
  IN [object |-> <<in, pool.taken[in]>>,
      pool |-> [chunks |-> IF NeedsChunk(pool) THEN Append(pool.chunks, c) ELSE pool.chunks,
                taken |-> [pool.taken EXCEPT ![in] = @ + 1],
                freed |-> pool.freed]]

\* A chunk all of whose objects were handed out and freed is unlinked and
\* released; a released chunk has no counts.
SoFree(pool, obj) ==
  LET c == ChunkOf(obj)
      freed == [pool.freed EXCEPT ![c] = @ + 1]
  IN IF freed[c] # PerChunk THEN [pool EXCEPT !.freed = freed]
     ELSE [chunks |-> RemoveAt(pool.chunks,
                               CHOOSE i \in DOMAIN pool.chunks : pool.chunks[i] = c),
           taken |-> [pool.taken EXCEPT ![c] = 0],
           freed |-> [pool.freed EXCEPT ![c] = 0]]
=============================================================================
