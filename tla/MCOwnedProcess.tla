----------------------------- MODULE MCOwnedProcess -----------------------------
(* Finite instances of OwnedProcess for TLC. *)
EXTENDS OwnedProcess, TLC

CONSTANTS m1, m2

TwiceAndOnce == (m1 :> 2) @@ (m2 :> 1)
================================================================================
