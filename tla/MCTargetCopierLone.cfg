SPECIFICATION LiveSpec
CONSTANTS
  n1 = n1
  n2 = n2
  Nodes <- MCOne
  MaxSeq = 4
  StartSequence = 1
  HeadersOnly = {}
  StartOption = "sequence"
  Electing = TRUE
  QueueCap = 3
  Faults <- MCLone
PROPERTIES OnceInOrder EverythingStored
