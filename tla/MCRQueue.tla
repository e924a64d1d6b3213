------------------------------ MODULE MCRQueue ------------------------------
(* One slot at first, so that the array grows three times. *)
EXTENDS RQueue
=============================================================================
