------------------------------ MODULE MCFileStore ------------------------------
(* Finite instances of FileStore for TLC. *)
EXTENDS FileStore
================================================================================
