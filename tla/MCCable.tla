------------------------------ MODULE MCCable ------------------------------
(* A probe and a TPM on two ports, and a second probe that may take a free one. *)
EXTENDS Cable

CONSTANTS n1, n2, t1

MCPlugged == [d \in Devices |-> CASE d = n1 -> 1 [] d = t1 -> 2 [] OTHER -> 0]

\* The lists are ascending.
MCOrders == {[q \in Ports |-> q]}
=============================================================================
