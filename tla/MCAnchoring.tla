----------------------------- MODULE MCAnchoring ------------------------------
(* Anchoring on a small instance; the .cfg file gives the constants. *)
EXTENDS Anchoring
=============================================================================
