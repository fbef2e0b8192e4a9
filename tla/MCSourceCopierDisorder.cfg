SPECIFICATION Spec
CONSTANTS
  n1 = n1
  n2 = n2
  Nodes <- MCPair
  MaxSeq = 2
  StartSequence = 1
  StartOption = "sequence"
  MaxAged = 0
  Ephemeral = FALSE
  Electing = TRUE
  Skippable <- MCSkippable
  QueueCap = 2
  MaxPulls = 1
  Faults <- MCSlowFaults
PROPERTIES OrderPreserved
