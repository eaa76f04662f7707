SPECIFICATION Spec
CONSTANTS
  Chunk = {c1, c2, c3}
  PerChunk = 2
  Value = {1, 2, 3}
  Nil = Nil
  FirstCapacity = 1
  MaxLength = 4
SYMMETRY ChunkSymmetry
INVARIANTS TailSound
