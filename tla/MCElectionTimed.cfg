SPECIFICATION TSpec
CONSTANTS
  n1 = n1
  n2 = n2
  Nodes <- MCNodes
  Revs <- MCRevs
  MaxTries = 1
  MaxLate = 1
  Timings <- MCTimings
  Splays <- MCSplays
  WonPause = 1
  MaxFaults = 2
INVARIANTS TimedTypeOK CalmOneLeads
PROPERTIES OnlyFaultsDepose DeposedStandsDown LeadershipSettles
