SPECIFICATION LimiterSpec
CONSTANTS
  Nodes = {n1, n2}
  Ids = {v1}
  Sizes <- MCSizes
  Interval = 2
  WarnAge = 1
  Advising = TRUE
  Stateful <- MCStateful
  MaxAge = 3
  GossipCap = 1
  Faults <- MCFaults
  SizeTrigger = 2
  Deadlines <- MCDeadlines
INVARIANTS LimiterTypeOK CopiesAreReal
PROPERTIES SampledEveryInterval SamplingSettles
