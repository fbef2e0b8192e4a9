SPECIFICATION Spec
CONSTANTS
  n1 = n1
  n2 = n2
  Nodes <- MCPair
  MaxSeq = 3
  StartSequence = 1
  HeadersOnly = {}
  StartOption = "sequence"
  Electing = TRUE
  QueueCap = 2
  Faults <- MCHandOver
SYMMETRY MCSymmetry
INVARIANTS NoGaps
PROPERTIES Promise
