--------------------------- MODULE MCEventManager ---------------------------
(* Instances of EventManager for TLC. *)
EXTENDS EventManager, TLC

CONSTANTS e1, e2, e3, e4

\* A normal, a normal and a highest event: one of every comparison.
MixedPriority == [e \in Events |-> IF e = e3 THEN 2 ELSE 0]

=============================================================================
