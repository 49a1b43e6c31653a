------------------------------ MODULE MCNetAuth ------------------------------
(* Instances of NetAuth for TLC. *)
EXTENDS NetAuth
=============================================================================
