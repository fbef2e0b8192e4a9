-------------------------- MODULE MCElectionTimed --------------------------
(* Instances of ElectionTimed.  One unit is 250ms.  MCFiveSec has the first *)
(* waits of backoff.FiveSec, the policy of both callers: 500ms jittered to *)
(* 250..749ms, then 750ms to 375..1124ms.  The client's timeout of 5s and  *)
(* the TTL of 10s are scaled down with each other.                         *)
EXTENDS ElectionTimed

CONSTANTS n1, n2

MCNodes == {n1, n2}
MCRevs == 1 .. 7
MCSplays == {0, 3}
MCFiveSec == [waits |-> << {1, 3}, {2, 4} >>, delay |-> 1, timeout |-> 4, ttl |-> 8]
MCTimings == {MCFiveSec}
=============================================================================
