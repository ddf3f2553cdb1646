------------------------------ MODULE MCLifecycle ------------------------------
(* Finite instances of Lifecycle for TLC. *)
EXTENDS Lifecycle, TLC

CONSTANTS main, other

\* The main goroutine starts and stops; another sends requests and may stop the
\* session as well.
Roles == (main :> {"start", "stop"}) @@ (other :> {"request", "stop"})
================================================================================
