SPECIFICATION Spec
CONSTANTS
  input = input
  output = output
  x = x
  y = y
  Buffers <- TheBuffers
  Bytes <- TheBytes
  Zero = x
  Junk = Junk
  BlockSize = 2
  max_blocks = 2
  Strings <- SomeStrings
  Counts <- SmallCounts
SYMMETRY BufferSymmetry
INVARIANTS TypeOK WithinCapacity TotalsMatch
PROPERTY ImplementsText
