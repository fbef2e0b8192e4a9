SPECIFICATION Spec
CONSTANTS
  n1 = n1
  n2 = n2
  Nodes <- MCOne
  MaxSeq = 4
  StartSequence = 1
  HeadersOnly = {}
  StartOption = "sequence"
  Electing = FALSE
  QueueCap = 2
  Faults <- MCConsumer
INVARIANTS NoGaps
