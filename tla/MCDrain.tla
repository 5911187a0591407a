------------------------------- MODULE MCDrain -------------------------------
(* Instances of Drain for TLC.                                             *)
EXTENDS Drain, TLC

CONSTANTS n1, n2, n3, n4, s1, j1, j2

\* Two drains of two nodes, and a shard that starts on the first one.
TwoNodes == (j1 :> n1) @@ (j2 :> n2)
OnFirst == s1 :> n1
=============================================================================
