\* any owner: chunks as long as the array, as reads have
CONSTANTS
  m_size = 4
  Modulus = 64
  Byte = {x, y}
  Uninit = Uninit
  MaxChunk = 4
  Writers = {"append", "appendByte"}
SPECIFICATION Spec
SYMMETRY ByteSymmetry
INVARIANTS TypeOK AccessInBounds NothingUninitialised
CONSTRAINT QueuedAtMostArray
CHECK_DEADLOCK FALSE
