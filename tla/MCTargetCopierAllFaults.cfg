SPECIFICATION Spec
CONSTANTS
  n1 = n1
  n2 = n2
  Nodes <- MCOne
  MaxSeq = 3
  StartSequence = 1
  HeadersOnly <- MCHeadersOnly
  StartOption = "delta"
  Electing = TRUE
  QueueCap = 1
  Faults <- MCAllFaults
INVARIANTS TypeOK StoodDown
