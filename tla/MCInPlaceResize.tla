--------------------------- MODULE MCInPlaceResize ---------------------------
(* Instances of InPlaceResize for TLC.                                     *)
EXTENDS InPlaceResize

\* Cancellations that do not reach the finally block.
NotRestoring == Step \ {"restore"}
=============================================================================
