----------------------------- MODULE MCLimiter -----------------------------
(* Limiter for TLC: every fault the limiter can meet, advisories on. *)
EXTENDS Limiter

MCSizes == {1}
MCStateful == {CHOOSE n \in Nodes : TRUE}
MCDeadlines == {0, 1}
MCFaults == {"disk", "store"}
=============================================================================
