SPECIFICATION Spec
CONSTANTS
  n1 = n1
  n2 = n2
  Nodes <- MCNodes
  Revs <- MCRevs
  MaxTries = 1
  MaxLate = 1
INVARIANTS TypeOK ActiveLeads OneHolder
PROPERTIES NoTakeover WinsAlternate
