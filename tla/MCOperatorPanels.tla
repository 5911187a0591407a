-------------------------- MODULE MCOperatorPanels --------------------------
(* Instances of OperatorPanels: two clusters that may be written and a       *)
(* read-only one.                                                            *)
EXTENDS OperatorPanels, TLC

CONSTANTS c1, c2, c3, s1, s2, n1, n2

Clusters == {c1, c2, c3}
Secured == {c3}
Subjects == {s1, s2}
Texts == {n1, n2}
Names ==
    Permutations({c1, c2}) \cup Permutations(Subjects) \cup Permutations(Texts)
=============================================================================
