CONSTANTS
  Size = 4
  Byte = {x, y}
  Zero = zero
  MaxChunk = 5
  Chunks <- MCChunks
SPECIFICATION BufferSpec
INVARIANTS
  BufferTypeOK
PROPERTIES
  HoldsLatest
