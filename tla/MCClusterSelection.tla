------------------------- MODULE MCClusterSelection -------------------------
(* Instances of ClusterSelection.                                            *)
EXTENDS ClusterSelection
=============================================================================
