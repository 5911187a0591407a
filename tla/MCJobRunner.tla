---------------------------- MODULE MCJobRunner ----------------------------
(* Instances of JobRunner for TLC.                                         *)
EXTENDS JobRunner, TLC

\* All jobs on one index.
OneIndex == [j \in Job |-> "i1"]
\* Two jobs on the first index, the others on the second.
TwoIndexes == [j \in Job |-> IF Cardinality(Job) > 2 /\ j = CHOOSE k \in Job : TRUE
                             THEN "i2" ELSE "i1"]

\* Jobs on one index are interchangeable, and so are requests.
Symmetry == Permutations(Job) \cup Permutations(Request)
=============================================================================
