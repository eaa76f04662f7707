\* Two objects a chunk and four elements: a chunk can be in the middle of the
\* chunk list.  Three values leave room for a duplicate in every sort.
SPECIFICATION CarefulSpec
CONSTANTS
  Chunk = {c1, c2, c3}
  PerChunk = 2
  Value = {1, 2, 3}
  Nil = Nil
  FirstCapacity = 1
  MaxLength = 4
SYMMETRY ChunkSymmetry
INVARIANTS TypeOK ListsAgree StorageSound
PROPERTIES ImplementsListSpec
