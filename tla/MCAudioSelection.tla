-------------------------- MODULE MCAudioSelection --------------------------
(* Finite instances of AudioSelection for TLC. *)
EXTENDS AudioSelection
=============================================================================
