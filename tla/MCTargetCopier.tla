-------------------------- MODULE MCTargetCopier --------------------------
(* Instances of TargetCopier. *)
EXTENDS TargetCopier, TLC

CONSTANTS n1, n2

MCPair == {n1, n2}
MCOne == {n1}
MCSymmetry == Permutations(MCPair)
MCHandOver == {"dropLater", "consumerIdle", "timeout", "window", "crash",
               "twoLeaders"}
MCAllFaults == {"drop", "consumer", "api", "timeout", "window", "crash", "late",
                "purge", "rewin"}
MCLone == {"consumerIdle", "timeout", "window", "crash"}
MCConsumer == {"consumer"}
MCHeadersOnly == {2}
=============================================================================
