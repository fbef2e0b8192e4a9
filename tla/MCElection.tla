---------------------------- MODULE MCElection ----------------------------
(* Two nodes, one request in flight after its sender gave up.  At most      *)
(* 2 * 2 + 1 + 1 revisions are referred to at once, so seven always leave a *)
(* fresh one.                                                               *)
EXTENDS Election

CONSTANTS n1, n2

MCNodes == {n1, n2}
MCRevs == 1 .. 7
=============================================================================
