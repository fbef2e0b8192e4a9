----------------------------- MODULE MCAdvisor -----------------------------
(* Advisor for TLC: one replicator, elected now and then, with every fault. *)
EXTENDS Advisor

MCSizes == {1}
MCFaults == {"disk", "publish"}
=============================================================================
