---------------------------- MODULE MCBusClient ----------------------------
(* Finite instances of BusClient for TLC. *)
EXTENDS BusClient
=============================================================================
