\* a vector of two bytes that has to grow to hold four; reads overflow by two
CONSTANTS
  InitSize = 2
  Byte = {Zero, x}
  Zero = Zero
  Scratch = 2
  MaxReadable = 4
SPECIFICATION Spec
INVARIANTS TypeOK GrowthBounded
PROPERTY ImplementsGrowingQueue
CHECK_DEADLOCK FALSE
