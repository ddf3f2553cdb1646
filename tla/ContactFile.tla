------------------------------- MODULE ContactFile -------------------------------
(***************************************************************************)
(* What the contacts file promises its users: a set of saved addresses that *)
(* changes by one complete operation at a time, each against the set that   *)
(* is there, and that a power failure takes back only to what had reached   *)
(* the disk.                                                                *)
(***************************************************************************)
CONSTANT Contacts

VARIABLES
  saved,     \* the addresses a reader finds
  durable    \* those it would find after a power failure

vars == <<saved, durable>>

Init == saved = {} /\ durable = {}

Add(c) == c \notin saved /\ saved' = saved \cup {c} /\ UNCHANGED durable

Remove(c) == c \in saved /\ saved' = saved \ {c} /\ UNCHANGED durable

Settle == durable' = saved /\ UNCHANGED saved

PowerFails == saved' = durable /\ UNCHANGED durable

Next == (\E c \in Contacts : Add(c) \/ Remove(c)) \/ Settle \/ PowerFails

Spec == Init /\ [][Next]_vars
================================================================================
