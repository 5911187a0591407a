----------------------------- MODULE MCJobBoard -----------------------------
(* Instances of JobBoard.                                                    *)
EXTENDS JobBoard
=============================================================================
