SPECIFICATION Spec
CONSTANTS
  n1 = n1
  n2 = n2
  Nodes <- MCPair
  MaxSeq = 2
  StartSequence = 1
  StartOption = "delta"
  MaxAged = 1
  Ephemeral = TRUE
  Electing = TRUE
  Skippable <- MCSkippable
  QueueCap = 1
  MaxPulls = 1
  Faults <- MCAllFaults
SYMMETRY MCSymmetry
INVARIANTS TypeOK NothingLost
PROPERTIES Promise
