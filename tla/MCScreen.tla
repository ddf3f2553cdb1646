------------------------------ MODULE MCScreen ------------------------------
(* Finite instances of Screen for TLC. *)
EXTENDS Screen
=============================================================================
