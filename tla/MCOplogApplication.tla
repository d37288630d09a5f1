------------------------- MODULE MCOplogApplication -------------------------
(* OplogApplication for TLC: its bounds are its only constants. *)
EXTENDS OplogApplication
=============================================================================
