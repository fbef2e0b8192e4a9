-------------------------- MODULE MCSourceCopier --------------------------
(* Instances of SourceCopier. *)
EXTENDS SourceCopier, TLC

CONSTANTS n1, n2

MCPair == {n1, n2}
MCSymmetry == Permutations(MCPair)
MCSkippable == {2}
MCAllFaults == {"drop", "late", "consumer", "crash", "redeliver"}
MCSlowFaults == {"redeliver"}
MCDropFaults == {"drop"}
=============================================================================
