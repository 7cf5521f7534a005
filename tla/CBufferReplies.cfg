\* writeBuff_: replies are always shorter than the array
CONSTANTS
  m_size = 5
  Modulus = 64
  Byte = {x, y}
  Uninit = Uninit
  MaxChunk = 4
  Writers = {"append"}
SPECIFICATION Spec
SYMMETRY ByteSymmetry
INVARIANTS AcceptedBytesKept
PROPERTY ImplementsByteQueue
CHECK_DEADLOCK FALSE
