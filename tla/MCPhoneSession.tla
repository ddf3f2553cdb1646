--------------------------- MODULE MCPhoneSession ---------------------------
(* Finite instances of PhoneSession for TLC. *)
EXTENDS PhoneSession, TLC

\* Attempts are interchangeable where Oversized is empty, nothing is saved and no
\* liveness is checked.
CallSymmetry == Permutations(Calls)

\* The files the program may find.
NothingSaved == <<>>
OneSaved == <<Entry(CHOOSE c \in Calls : TRUE, "outgoing", "not_connected", FALSE)>>
=============================================================================
