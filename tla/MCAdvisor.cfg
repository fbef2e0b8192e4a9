SPECIFICATION AdvisorSpec
CONSTANTS
  Nodes = {n1}
  Ids = {v1}
  Sizes <- MCSizes
  Interval = 3
  WarnAge = 1
  Advising = TRUE
  Stateful = {n1}
  MaxAge = 7
  GossipCap = 1
  Faults <- MCFaults
  Electing = TRUE
  Reliable = TRUE
  MaxTries = 2
  QueueCap = 1
INVARIANTS AdvisorTypeOK ViewCorrect
PROPERTIES OnceASilence SilenceTold
